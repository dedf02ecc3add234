----------------------------- MODULE Completion -----------------------------
(***************************************************************************)
(* What the streams promise to who connects them: a connection that was    *)
(* asked for is completed once, by one call of its callback, whether it    *)
(* failed or not.  None is completed before it was asked for or a second   *)
(* time, none is forgotten without a call, and callbacks do not nest.      *)
(***************************************************************************)

CONSTANTS
  Connection,   (* the connections                                         *)
  Nobody        (* none of them                                            *)

VARIABLES
  stage,        (* how far each connection is                              *)
  told          (* the connection whose callback is called                 *)

Init ==
  /\ stage = [c \in Connection |-> "unmade"]
  /\ told = Nobody

Connect(c) ==
  /\ stage[c] = "unmade" /\ told = Nobody
  /\ stage' = [stage EXCEPT ![c] = "connecting"]
  /\ UNCHANGED told

Complete(c) ==
  /\ stage[c] = "connecting" /\ told = Nobody
  /\ stage' = [stage EXCEPT ![c] = "completed"]
  /\ told' = c

(* The callback returns. *)
Return ==
  /\ told # Nobody /\ told' = Nobody
  /\ UNCHANGED stage

Next == Return \/ \E c \in Connection : Connect(c) \/ Complete(c)

Spec == Init /\ [][Next]_<<stage, told>>

=============================================================================
