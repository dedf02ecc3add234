----------------------------- MODULE MCReading -----------------------------
EXTENDS Reading

MCZero == Octet(0, 0, 0, 0)

(* Nothing but the assumptions looks at the cells. *)
MCByte == [part : STRING, conn : Nat, of : Nat, at : Nat, val : Nat]

(* Lengths of one and two bytes, an empty payload, and one that is larger  *)
(* than the buffer.                                                        *)
MCSendings == {<<0, 2, 3>>, <<3, 1>>, <<7>>}

(* The header fits one chunk, needs several, or does not fit the buffer;   *)
(* the body comes with the header, or in several pieces, or not whole.     *)
MCResponses ==
  {[header |-> h, body |-> b, declared |-> d, status |-> s, malformed |-> m, arrives |-> a] :
     h \in {1, 3, 6}, b \in {0, 1, 5}, d \in BOOLEAN, s \in {200, 404}, m \in BOOLEAN, a \in {2, 3, 11}}

=============================================================================
