----------------------------- MODULE ByteStream -----------------------------
(***************************************************************************)
(* Reading from a stream into its buffer: the loops of do_read_async and   *)
(* do_read_until_async, L/src/net/Stream.cpp.  The bytes that the peer has *)
(* sent arrive in pieces of any size.                                      *)
(***************************************************************************)
EXTENDS StreamBuffer

VARIABLES
  wire,       (* the bytes on their way                                    *)
  missing     (* how many a pending read_async still waits for             *)

(* One round of the loop: socket_read has between no bytes and n of them.  *)
Receive(n) ==
  \E k \in 0..Smaller(n, Len(wire)) :
     /\ Fill(n, SubSeq(wire, 1, k))
     /\ wire' = SubSeq(wire, k + 1, Len(wire))

(* Of a read of a given number of bytes. *)
ReadMissing ==
  /\ missing > 0
  /\ Receive(missing)
  /\ missing' = missing - (Len(wire) - Len(wire'))

=============================================================================
