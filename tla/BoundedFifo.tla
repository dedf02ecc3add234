---------------------------- MODULE BoundedFifo ----------------------------
(***************************************************************************)
(* What a bounded blocking queue shared by threads promises its callers.   *)
(* Every operation takes effect atomically, at one moment between its call *)
(* and its return; values leave in the order in which they entered; at     *)
(* most MaxSize of them are inside.  An operation may also be refused (its *)
(* wait times out), but only when the free room, or the values inside, are *)
(* all accounted for by operations of other threads that are under way.    *)
(*                                                                         *)
(* The module is the abstract specification that Queue implements.         *)
(***************************************************************************)
EXTENDS Naturals, Sequences, FiniteSets

CONSTANTS
  Thread,   (* the threads that share the queue       *)
  Value,    (* the values they pass                   *)
  MaxSize   (* the most values the queue holds        *)

VARIABLES
  chan,     (* the values inside, oldest first                             *)
  op,       (* what each thread is doing                                   *)
  obj       (* the optional value of each thread: <<>> when it has none    *)

vars == <<chan, op, obj>>

(* The number of threads other than t doing one of the given things. *)
OthersDoing(t, things) == Cardinality({u \in Thread \ {t} : op[u] \in things})

Init ==
  /\ chan = <<>>
  /\ op = [t \in Thread |-> "idle"]
  /\ obj = [t \in Thread |-> <<>>]

Becomes(t, from, to) == op[t] = from /\ op' = [op EXCEPT ![t] = to]

PushCall(t, v) ==
  /\ Becomes(t, "idle", "push")
  /\ obj' = [obj EXCEPT ![t] = <<v>>]
  /\ UNCHANGED chan

Push(t) ==
  /\ Becomes(t, "push", "pushed")
  /\ Len(chan) < MaxSize
  /\ chan' = chan \o obj[t]
  /\ obj' = [obj EXCEPT ![t] = <<>>]

(* Refused: whatever room is left belongs to pushes and pops under way. *)
PushRefuse(t) ==
  /\ Becomes(t, "push", "idle")
  /\ MaxSize <= Len(chan) + OthersDoing(t, {"push", "popped"})
  /\ UNCHANGED <<chan, obj>>

PopCall(t) ==
  /\ Becomes(t, "idle", "pop")
  /\ obj' = [obj EXCEPT ![t] = <<>>]
  /\ UNCHANGED chan

Pop(t) ==
  /\ Becomes(t, "pop", "popped")
  /\ chan # <<>>
  /\ chan' = Tail(chan)
  /\ obj' = [obj EXCEPT ![t] = <<Head(chan)>>]

(* Refused: whatever is inside belongs to pushes and pops under way. *)
PopRefuse(t) ==
  /\ Becomes(t, "pop", "idle")
  /\ Len(chan) <= OthersDoing(t, {"pushed", "pop"})
  /\ UNCHANGED <<chan, obj>>

Return(t) ==
  /\ Becomes(t, "pushed", "idle") \/ Becomes(t, "popped", "idle")
  /\ UNCHANGED <<chan, obj>>

Next ==
  \E t \in Thread :
    \/ \E v \in Value : PushCall(t, v)
    \/ Push(t)
    \/ PushRefuse(t)
    \/ PopCall(t)
    \/ Pop(t)
    \/ PopRefuse(t)
    \/ Return(t)

Spec == Init /\ [][Next]_vars

=============================================================================
