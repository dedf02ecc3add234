------------------------------- MODULE Invoke -------------------------------
(***************************************************************************)
(* MainLoop::invoke: any task hands a function to the main loop, which     *)
(* runs it on its own task.  invoke_func appends the function to a bounded *)
(* Queue and signals the Trigger, both under queue_mutex; the loop, woken  *)
(* out of select, counts the queued functions and confirms the trigger     *)
(* under queue_mutex (handle_queue), and then pops and runs that many.     *)
(* Functions, and the I/O and timer callbacks that follow, run on the      *)
(* loop's task and may invoke further functions.                           *)
(*                                                                         *)
(* The queue's and the trigger's steps are those of the modules extended.  *)
(***************************************************************************)
EXTENDS Queue, Trigger

CONSTANTS
  Loop,         (* the task that runs the main loop                        *)
  MaxInvoke,    (* bound: invocations by each task                         *)
  MaxSignal,    (* bound: unconfirmed signals when others signal           *)
  PushExpires   (* whether the wait of push(), 49.7 days, may run out      *)

ASSUME InvokeAssumption ==
  /\ Loop \in Thread
  /\ MaxInvoke \in Nat
  /\ MaxSignal \in Nat
  /\ PushExpires \in BOOLEAN
  /\ Value = Thread \X (1..MaxInvoke)

VARIABLES
  queue_mutex,  (* the set of tasks that hold MainLoop::queue_mutex        *)
  call,         (* where in invoke_func each task is                       *)
  loop,         (* where the main loop is                                  *)
  size,         (* handle_queue: functions of this batch still to pop      *)
  issued,       (* functions invoked so far by each task                   *)
  ran           (* the number of the last function of each task that ran   *)

queueVars == vars
invokeVars == <<queue_mutex, call, loop, size, issued, ran>>
allVars == <<queueVars, triggerVars, invokeVars>>

LoopPC == {"select", "lock_queue", "size", "confirm", "drain", "pop", "run", "io"}
CallPC == {"idle", "lock", "push", "signal"}

LoopInit ==
  /\ Init
  /\ TriggerInit
  /\ queue_mutex = {}
  /\ call = [t \in Thread |-> "idle"]
  /\ loop = "select"
  /\ size = 0
  /\ issued = [t \in Thread |-> 0]
  /\ ran = [t \in Thread |-> 0]

(* A task runs user code: any task but the loop, whose user code is the    *)
(* functions and callbacks it executes.                                    *)
MayCall(t) == call[t] = "idle" /\ (t = Loop => loop \in {"run", "io"})

CallGoto(t, from, to) == call[t] = from /\ call' = [call EXCEPT ![t] = to]
LoopGoto(from, to) == loop = from /\ loop' = to

-----------------------------------------------------------------------------
(* Slips in invoke_func and handle_queue.                                  *)

\* The function is announced only when the queue was empty.
SignalIfFirst(t) ==
  /\ CallGoto(t, "signal", "idle")
  /\ IF Len(queue_data) = 1 THEN Signal ELSE UNCHANGED triggerVars
  /\ queue_mutex' = queue_mutex \ {t}
  /\ UNCHANGED <<queueVars, loop, size, issued, ran>>

\* invoke_func gives queue_mutex back before it waits for a slot.
InvokeUnlocked(t) ==
  /\ CallGoto(t, "lock", "push")
  /\ queue_mutex = {}
  /\ PushCall(t, <<t, issued[t]>>)
  /\ UNCHANGED <<triggerVars, queue_mutex, loop, size, issued, ran>>

\* handle_queue does not take queue_mutex.
LockQueueSkipped ==
  /\ LoopGoto("lock_queue", "size")
  /\ UNCHANGED <<queueVars, triggerVars, queue_mutex, call, size, issued, ran>>

\* handle_queue pops one function more than it counted.
ReadSizeOneMore ==
  /\ LoopGoto("size", "confirm")
  /\ \E n \in 0..MaxSize : SizeIs(n) /\ size' = n + 1
  /\ UNCHANGED <<queueVars, triggerVars, queue_mutex, call, issued, ran>>

\* handle_queue pops one function and returns to select.
DrainOne ==
  /\ LoopGoto("run", "drain")
  /\ call[Loop] = "idle"
  /\ size' = 0
  /\ UNCHANGED <<queueVars, triggerVars, queue_mutex, call, issued, ran>>

\* invoke_func waits for a slot for a short time only.
InvokePushedImpatient(t) ==
  /\ CallGoto(t, "push", "signal")
  /\ GiveConsume(t) \/ PushTimeout(t)
  /\ UNCHANGED <<triggerVars, queue_mutex, loop, size, issued, ran>>

-----------------------------------------------------------------------------
(* invoke_func.  The Queue's steps of the push are its own actions. *)

InvokeCall(t) ==
  /\ MayCall(t)
  /\ issued[t] < MaxInvoke
  /\ CallGoto(t, "idle", "lock")
  /\ issued' = [issued EXCEPT ![t] = @ + 1]
  /\ UNCHANGED <<queueVars, triggerVars, queue_mutex, loop, size, ran>>

InvokeLock(t) ==
  /\ CallGoto(t, "lock", "push")
  /\ queue_mutex = {}
  /\ queue_mutex' = {t}
  /\ PushCall(t, <<t, issued[t]>>)
  /\ UNCHANGED <<triggerVars, loop, size, issued, ran>>

InvokePush(t) ==
  /\ call[t] = "push"
  /\ TakeProduce(t) \/ LockPush(t) \/ PushBack(t)
  /\ UNCHANGED <<triggerVars, invokeVars>>

(* The result of push is not looked at: a push that timed out is followed  *)
(* by the same signal, and its function is lost.                           *)
InvokePushed(t) ==
  /\ CallGoto(t, "push", "signal")
  /\ GiveConsume(t) \/ (PushExpires /\ PushTimeout(t))
  /\ UNCHANGED <<triggerVars, queue_mutex, loop, size, issued, ran>>

InvokeSignal(t) ==
  /\ CallGoto(t, "signal", "idle")
  /\ Signal
  /\ queue_mutex' = queue_mutex \ {t}
  /\ UNCHANGED <<queueVars, loop, size, issued, ran>>

(* The other calls that signal: notify, unnotify, cancel, add_timer,       *)
(* cancel_timer, terminate.  They take no part in the queue.               *)
OtherSignal(t) ==
  /\ MayCall(t)
  /\ count < MaxSignal
  /\ Signal
  /\ UNCHANGED <<queueVars, invokeVars>>

DeliverSignal == Deliver /\ UNCHANGED <<queueVars, invokeVars>>

-----------------------------------------------------------------------------
(* run and handle_queue. *)

(* select returns with the trigger readable. *)
Wake ==
  /\ LoopGoto("select", "lock_queue")
  /\ ready > 0
  /\ UNCHANGED <<queueVars, triggerVars, queue_mutex, call, size, issued, ran>>

(* select returns for a descriptor or a timeout only. *)
WakeOther ==
  /\ LoopGoto("select", "io")
  /\ ready = 0
  /\ UNCHANGED <<queueVars, triggerVars, queue_mutex, call, size, issued, ran>>

LockQueue ==
  /\ LoopGoto("lock_queue", "size")
  /\ queue_mutex = {}
  /\ queue_mutex' = {Loop}
  /\ UNCHANGED <<queueVars, triggerVars, call, size, issued, ran>>

ReadSize ==
  /\ LoopGoto("size", "confirm")
  /\ \E n \in 0..MaxSize : SizeIs(n) /\ size' = n
  /\ UNCHANGED <<queueVars, triggerVars, queue_mutex, call, issued, ran>>

ConfirmQueue ==
  /\ LoopGoto("confirm", "drain")
  /\ Confirm
  /\ queue_mutex' = queue_mutex \ {Loop}
  /\ UNCHANGED <<queueVars, call, size, issued, ran>>

DrainPop ==
  /\ LoopGoto("drain", "pop")
  /\ size > 0
  /\ size' = size - 1
  /\ PopCall(Loop)
  /\ UNCHANGED <<triggerVars, queue_mutex, call, issued, ran>>

DrainPopStep ==
  /\ loop = "pop"
  /\ TakeConsume(Loop) \/ LockPop(Loop) \/ Erase(Loop)
  /\ UNCHANGED <<triggerVars, invokeVars>>

(* pop_for(0) returns a function, and the loop starts it, or nothing. *)
PopReturns ==
  /\ loop = "pop"
  /\ \/ /\ GiveProduce(Loop)
        /\ loop' = "run"
        /\ ran' = [ran EXCEPT ![obj[Loop][1][1]] = obj[Loop][1][2]]
     \/ /\ PopTimeout(Loop)
        /\ loop' = "drain"
        /\ UNCHANGED ran
  /\ UNCHANGED <<triggerVars, queue_mutex, call, size, issued>>

(* The function returns, or throws: every exception is caught and logged. *)
FuncDone ==
  /\ LoopGoto("run", "drain")
  /\ call[Loop] = "idle"
  /\ UNCHANGED <<queueVars, triggerVars, queue_mutex, call, size, issued, ran>>

(* The batch is done: handle_io and handle_timers run their callbacks. *)
DrainDone ==
  /\ LoopGoto("drain", "io")
  /\ size = 0
  /\ UNCHANGED <<queueVars, triggerVars, queue_mutex, call, size, issued, ran>>

IoDone ==
  /\ LoopGoto("io", "select")
  /\ call[Loop] = "idle"
  /\ UNCHANGED <<queueVars, triggerVars, queue_mutex, call, size, issued, ran>>

InvokeStep(t) == InvokeLock(t) \/ InvokePush(t) \/ InvokePushed(t) \/ InvokeSignal(t)
LoopStep ==
  \/ Wake \/ LockQueue \/ ReadSize \/ ConfirmQueue
  \/ DrainPop \/ DrainPopStep \/ PopReturns \/ FuncDone \/ DrainDone \/ IoDone

LoopNext ==
  \/ \E t \in Thread :
       \/ InvokeCall(t)
       \/ InvokeLock(t)
       \/ InvokePush(t)
       \/ InvokePushed(t)
       \/ InvokeSignal(t)
       \/ OtherSignal(t)
  \/ DeliverSignal
  \/ Wake
  \/ WakeOther
  \/ LockQueue
  \/ ReadSize
  \/ ConfirmQueue
  \/ DrainPop
  \/ DrainPopStep
  \/ PopReturns
  \/ FuncDone
  \/ DrainDone
  \/ IoDone

LoopSpec == LoopInit /\ [][LoopNext]_allVars

(* Tasks run, the loopback interface delivers, and the functions and       *)
(* callbacks that the loop executes return.  Nothing makes a task invoke.  *)
(* A task that waits for queue_mutex is not passed over for ever: giving a *)
(* FreeRTOS mutex readies the waiter, and the loop blocks in select in     *)
(* between, with the mutex free.                                           *)
FairLoopSpec ==
  /\ LoopSpec
  /\ \A t \in Thread : WF_allVars(InvokeStep(t)) /\ SF_allVars(InvokeLock(t))
  /\ WF_allVars(DeliverSignal)
  /\ WF_allVars(LoopStep)

-----------------------------------------------------------------------------

(* The type of the variables of invoke and handle_queue. *)
LoopTypeOK ==
  /\ TypeOK
  /\ count \in Nat /\ sent \in 0..1 /\ ready \in 0..1
  /\ queue_mutex \subseteq Thread
  /\ call \in [Thread -> CallPC]
  /\ loop \in LoopPC
  /\ size \in 0..MaxSize
  /\ issued \in [Thread -> 0..MaxInvoke]
  /\ ran \in [Thread -> 0..MaxInvoke]

(* The functions that the current batch has counted and not yet removed. *)
Popping == loop = "pop" /\ pc[Loop] \in {"take_consume", "lock_pop", "erase"}
Batch ==
  IF loop \in {"confirm", "drain", "pop", "run"}
  THEN size + (IF Popping THEN 1 ELSE 0)
  ELSE 0

(* No lost wake-up: a function that the current batch will not run is      *)
(* announced by an unconfirmed signal, or its invoker is about to signal.  *)
(* It relates the queue, which has its own locks, to the trigger, which    *)
(* the loop confirms before it drains (MainLoop::invoke_func and           *)
(* handle_queue).                                                          *)
Announced ==
  Len(queue_data) > Batch =>
    \/ count > 0
    \/ \E t \in Thread : call[t] = "signal" \/ pc[t] = "give_consume"

(* handle_queue pops without waiting: pop_for(0) always finds one of the   *)
(* functions that were counted, so none is left for a later wake-up.       *)
DrainNeverMisses == loop = "pop" /\ pc[Loop] = "take_consume" => consume_sem > 0

(* confirm() always has a byte to read, although the byte is delivered     *)
(* asynchronously: its assertion never fails.                              *)
ConfirmSucceeds == loop = "confirm" => count > 0 /\ ConfirmAssertion

(* signal() always finds the pipe empty when it writes. *)
PipeNeverFills == OneByte

(* The Trigger is a Wakeup, which stands for it in the modules that do not *)
(* look into it (Trigger::signal, confirm).                                *)
wakeBar == IF count = 0 THEN "none" ELSE IF sent > 0 THEN "sent" ELSE "ready"
W == INSTANCE Wakeup WITH wake <- wakeBar
TriggerIsWakeup == W!WakeSpec

(* The parts of the inductive invariant behind the properties above. *)

(* The loop works on the queue only after it saw the byte. *)
WokenByByte == loop \in {"lock_queue", "size", "confirm"} => ready = 1

(* Who holds queue_mutex: the task inside invoke_func, or the loop while   *)
(* it counts and confirms.                                                 *)
QueueLocked ==
  /\ queue_mutex =
       {t \in Thread : \/ call[t] \in {"push", "signal"}
                      \/ (t = Loop /\ loop \in {"size", "confirm"})}
  /\ \A t, u \in queue_mutex : t = u

(* Where a task stands in the queue follows from what it does outside. *)
Stages ==
  /\ \A t \in Thread : call[t] # "idle" => issued[t] > 0
  /\ call[Loop] # "idle" => loop \in {"run", "io"}
  /\ \A t \in Thread :
       IF call[t] = "push" THEN pc[t] \in PushPC
       ELSE IF t = Loop /\ loop = "pop" THEN pc[t] \in PopPC
       ELSE pc[t] = "idle"

(* Every function of the batch is announced in consume_sem. *)
BatchCounted ==
  /\ loop = "confirm" => size = Len(queue_data)
  /\ loop \in {"drain", "pop", "run"} =>
       size + (IF loop = "pop" /\ pc[Loop] = "take_consume" THEN 1 ELSE 0) <= consume_sem

LoopIInv ==
  /\ IInv /\ LoopTypeOK
  /\ OneByte /\ WokenByByte
  /\ QueueLocked /\ Stages
  /\ Announced /\ BatchCounted

(* The functions taken off the queue and not started, and those queued.    *)
Pipeline ==
  (IF loop = "pop" /\ pc[Loop] = "give_produce" THEN obj[Loop] ELSE <<>>) \o queue_data
Unqueued(t) ==
  IF \/ call[t] = "lock"
     \/ call[t] = "push" /\ pc[t] \in {"take_produce", "lock_push", "push_back"}
  THEN 1 ELSE 0

(* The invocations of t in a sequence are number lo+1 to hi, each once and *)
(* in this order.                                                          *)
Of(s, t) == {i \in DOMAIN s : s[i][1] = t}
Consecutive(s, t, lo, hi) ==
  /\ lo <= hi
  /\ {s[i][2] : i \in Of(s, t)} = (lo + 1)..hi
  /\ \A i, j \in Of(s, t) : i < j => s[i][2] < s[j][2]

(* The functions of one task run in the order in which it invoked them,    *)
(* each exactly once: what ran, what is in the pipeline and what is being  *)
(* pushed are consecutive.                                                 *)
NothingLostOrReordered ==
  \A t \in Thread : Consecutive(Pipeline, t, ran[t], issued[t] - Unqueued(t))

(* A task carries the function it is about to queue. *)
CarriesOwn ==
  \A t \in Thread :
    call[t] = "push" /\ pc[t] \in {"take_produce", "lock_push", "push_back"} =>
      obj[t] = <<<<t, issued[t]>>>>

(* The cyclic wait that a full queue leads to: a task holds queue_mutex    *)
(* while it waits for a slot, and the loop, the only one that frees slots, *)
(* waits for queue_mutex, or is that task itself.                          *)
CyclicWait ==
  /\ produce_sem = 0
  /\ \E t \in queue_mutex : call[t] = "push" /\ pc[t] = "take_produce"
  /\ loop = "lock_queue" \/ call[Loop] \in {"lock", "push"}

(* Apart from that cyclic wait nothing keeps an invoked function from      *)
(* running: every function runs, or the loop ends up in the cyclic wait.   *)
RunsUnlessCyclicWait ==
  \A t \in Thread : \A n \in 1..MaxInvoke :
    issued[t] >= n ~> (ran[t] >= n \/ CyclicWait)

(* Nothing inside the program ends the cyclic wait. *)
CyclicWaitIsForever == [][CyclicWait => CyclicWait']_allVars

=============================================================================
