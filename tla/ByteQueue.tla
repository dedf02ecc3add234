----------------------------- MODULE ByteQueue -----------------------------
(***************************************************************************)
(* What a stream buffer promises to its reader: the bytes come out in the  *)
(* order in which they went in, each once.  A buffer that breaks, because  *)
(* it could not grow, promises nothing any more.                           *)
(***************************************************************************)
EXTENDS Integers, Sequences

VARIABLES content, broken

Init == content = <<>> /\ broken = FALSE

(* Bytes are added at the end. *)
Produce ==
  /\ Len(content) <= Len(content')
  /\ SubSeq(content', 1, Len(content)) = content
  /\ UNCHANGED broken

(* Bytes are taken from the front. *)
Consume ==
  /\ \E n \in 0..Len(content) : content' = SubSeq(content, n + 1, Len(content))
  /\ UNCHANGED broken

Break == broken' = TRUE

Broken == broken /\ broken'

Next == Broken \/ (~broken /\ (Produce \/ Consume \/ Break))

Spec == Init /\ [][Next]_<<content, broken>>

=============================================================================
