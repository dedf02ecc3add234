---------------------------- MODULE StreamBuffer ----------------------------
(***************************************************************************)
(* The buffer between a stream and who reads from it: L/src/net/           *)
(* StreamBuffer.cpp.  Offsets count from the start of the vector; egptr     *)
(* always equals pptr and epptr the end of the vector.                     *)
(***************************************************************************)
EXTENDS Integers, Sequences

CONSTANTS
  Increase,   (* BUFFER_INCREASE_SIZE                                      *)
  MaxBuffer,  (* max_buffer_size                                           *)
  Byte,       (* what a cell may hold                                      *)
  Zero        (* what a new cell holds                                     *)

ASSUME BufferAssumption ==
  /\ Increase \in Nat \ {0}
  /\ MaxBuffer \in Nat \ {0}
  /\ Zero \in Byte

VARIABLES
  buffer,     (* the vector                                                *)
  gptr,       (* offset of the next byte to consume                        *)
  pptr,       (* offset of the next byte to produce                        *)
  broken      (* reserve has thrown after it moved bytes                   *)

bufferVars == <<buffer, gptr, pptr, broken>>

Smaller(m, n) == IF m <= n THEN m ELSE n

BufferInit ==
  /\ buffer = [i \in 1..Smaller(MaxBuffer, Increase) |-> Zero]
  /\ gptr = 0 /\ pptr = 0
  /\ broken = FALSE

consume_size == pptr - gptr
available == Len(buffer) - pptr
content == SubSeq(buffer, gptr + 1, pptr)

-----------------------------------------------------------------------------
(* reserve. *)

(* Slip: the unread bytes stay where they are. *)
NotMoved == buffer

(* memmove of what is not consumed to the front. *)
Moved == [i \in 1..Len(buffer) |-> IF i <= consume_size THEN buffer[gptr + i] ELSE buffer[i]]

room == Len(buffer) - consume_size

Grown(cells, n) == [i \in 1..n |-> IF i <= Len(cells) THEN cells[i] ELSE Zero]

(* The vector would grow too large: length_error. *)
Full(n) == room < n /\ Len(buffer) + n - room > MaxBuffer

(* Where reserve(n) leaves the bytes, and the offset of the first. *)
Moves(n) == available < n
Reserved(n) ==
  IF ~Moves(n) THEN buffer
  ELSE IF room >= n THEN Moved ELSE Grown(Moved, Len(buffer) + n - room)
ReservedAt(n) == IF Moves(n) THEN 0 ELSE gptr

(* The exception leaves the offsets as they were, and the bytes moved.     *)
Throw(n) ==
  /\ Moves(n) /\ Full(n)
  /\ buffer' = Moved
  /\ broken' = (broken \/ (gptr > 0 /\ consume_size > 0))
  /\ UNCHANGED <<gptr, pptr>>

-----------------------------------------------------------------------------

(* produce_data(n), then produce_commit of the bytes that were read; none  *)
(* when the socket has nothing yet.                                        *)
Fill(n, bytes) ==
  /\ ~(Moves(n) /\ Full(n))
  /\ Len(bytes) <= n
  /\ gptr' = ReservedAt(n)
  /\ pptr' = ReservedAt(n) + consume_size + Len(bytes)
  /\ buffer' = [i \in 1..Len(Reserved(n)) |->
       IF i > ReservedAt(n) + consume_size /\ i <= pptr' THEN bytes[i - ReservedAt(n) - consume_size]
       ELSE Reserved(n)[i]]
  /\ UNCHANGED broken

(* consume_commit. *)
Take(n) ==
  /\ gptr' = gptr + Smaller(n, consume_size)
  /\ UNCHANGED <<buffer, pptr, broken>>

(* Every use of the buffer. *)
BufferNext ==
  \E n \in Nat : \/ \E bytes \in Seq(Byte) : Fill(n, bytes)
                \/ Take(n)
                \/ Throw(n)

BufferSpec == BufferInit /\ [][BufferNext]_bufferVars

-----------------------------------------------------------------------------

BufferTypeOK ==
  /\ buffer \in Seq(Byte)
  /\ gptr \in 0..Len(buffer) /\ pptr \in 0..Len(buffer) /\ gptr <= pptr
  /\ broken \in BOOLEAN

(* Whatever sizes are asked for, however the bytes arrive and however      *)
(* often they are moved, what is consumed is what was produced, in order   *)
(* (reserve, produce_commit, consume_commit), until an exception leaves    *)
(* moved bytes with old offsets.                                           *)
Q == INSTANCE ByteQueue
BufferIsByteQueue == Q!Spec

=============================================================================
