----------------------------- MODULE LoopQueue -----------------------------
(***************************************************************************)
(* The main loop as the parts of the application see it: the queue of      *)
(* functions that Invoke models in detail, the functions of a batch, and   *)
(* the calls that the function under way has still to make.  A task that   *)
(* finds the queue full waits with queue_mutex in its hands.               *)
(***************************************************************************)
EXTENDS Integers, Sequences

CONSTANT QueueMax   (* the slots of the queue: 100 in the firmware         *)

ASSUME QueueAssumption == QueueMax \in Nat \ {0}

VARIABLES
  funcs,      (* the functions that are invoked and not popped             *)
  counted,    (* how many of them handle_queue will still pop in this pass *)
  calls,      (* what the function under way still has to do               *)
  holder      (* which task waits for a slot, in invoke_func               *)

loopVars == <<funcs, counted, calls, holder>>

LoopInit == funcs = <<>> /\ counted = 0 /\ calls = <<>> /\ holder = "none"

HasRoom == Len(funcs) < QueueMax

(* The loop is in its pass where other callbacks are called. *)
BetweenFunctions == counted = 0 /\ calls = <<>>

(* invoke by a task, and its wait for a slot. *)
TaskInvokes(task, f) ==
  /\ holder \in {"none", task} /\ HasRoom
  /\ funcs' = Append(funcs, f)
  /\ holder' = "none"
  /\ UNCHANGED <<counted, calls>>

TaskWaits(task) ==
  /\ holder = "none" /\ ~HasRoom
  /\ holder' = task
  /\ UNCHANGED <<funcs, counted, calls>>

(* handle_queue: counts, which needs queue_mutex, and pops.                *)
Pops(f, body) ==
  /\ calls = <<>> /\ funcs # <<>>
  /\ \/ counted > 0 /\ counted' = counted - 1
     \/ counted = 0 /\ holder = "none" /\ counted' = Len(funcs) - 1
  /\ f = Head(funcs)
  /\ funcs' = Tail(funcs)
  /\ calls' = body
  /\ UNCHANGED holder

(* A callback that is not a function of the queue. *)
Callback(body) == BetweenFunctions /\ calls' = body /\ UNCHANGED <<funcs, counted, holder>>

(* The function under way makes its next call. *)
Calls(call) ==
  /\ calls # <<>> /\ Head(calls) = call
  /\ calls' = Tail(calls)
  /\ UNCHANGED <<counted, holder>>

(* One of these calls is invoke; without a slot the loop waits for itself. *)
Invoke(f) == [do |-> "invoke", func |-> f]

LoopInvokes ==
  /\ calls # <<>> /\ Head(calls).do = "invoke"
  /\ Calls(Head(calls))
  /\ holder = "none" /\ HasRoom
  /\ funcs' = Append(funcs, Head(calls).func)

=============================================================================
