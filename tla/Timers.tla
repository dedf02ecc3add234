------------------------------- MODULE Timers -------------------------------
(***************************************************************************)
(* The main loop's timers: one-shot and periodic, added and cancelled by   *)
(* any task under timer_list_mutex.  do_select sleeps until the first of   *)
(* them; handle_timers, at the end of every pass, collects what is due     *)
(* under the mutex and then calls the callbacks without it.                *)
(*                                                                         *)
(* Time is counted in ticks, Ms of which are a millisecond: the timeout of *)
(* select is cut to milliseconds.  Descriptors appear only as a reason for *)
(* select to return, and as a timeout of their own.                        *)
(***************************************************************************)
EXTENDS Integers, Sequences, Wakeup

CONSTANTS
  Duration,       (* milliseconds given to add_timer                       *)
  Period,         (* milliseconds given to add_periodic_timer              *)
  PollWait,       (* milliseconds left of a registration's own timeout     *)
  Ms,             (* ticks in a millisecond                                *)
  MaxTimer,       (* bound: timers                                         *)
  MaxTime         (* bound: ticks                                          *)

(* handle_timers does not return from a period of zero. *)
ASSUME TimersAssumption ==
  /\ Duration \subseteq Nat
  /\ Period \subseteq Nat \ {0}
  /\ PollWait \subseteq Nat
  /\ Ms \in Nat \ {0}
  /\ MaxTimer \in Nat
  /\ MaxTime \in Nat

Id == 1..MaxTimer
None == [expire |-> -1]
OneShot == 0    (* stands for milliseconds::max()                          *)
Forever == -1   (* no timeout                                              *)

VARIABLES
  now,          (* system_clock::now()                                     *)
  timers,       (* MainLoop::timers                                        *)
  next_id,      (* MainLoop::next_timer_id                                 *)
  loop,         (* where the main loop is                                  *)
  wake_at,      (* when select returns for its timeout                     *)
  now_read,     (* handle_timers: now                                      *)
  notify_list,  (* handle_timers: what is due and was not yet called       *)
  first_due,    (* when each timer is first due                            *)
  collected,    (* how often each timer was found to be due                *)
  called,       (* how often its callback was called                       *)
  cancelled     (* the timers that were cancelled before they were done    *)

historyVars == <<first_due, collected, called, cancelled>>
vars == <<wake, now, timers, next_id, loop, wake_at, now_read, notify_list, historyVars>>

Init ==
  /\ WakeInit
  /\ now = 0
  /\ timers = [i \in Id |-> None]
  /\ next_id = 1
  /\ loop = "arm"
  /\ wake_at = Forever
  /\ now_read = 0
  /\ notify_list = <<>>
  /\ first_due = [i \in Id |-> 0]
  /\ collected = [i \in Id |-> 0]
  /\ called = [i \in Id |-> 0]
  /\ cancelled = {}

Live(i) == timers[i] # None
LoopGoto(from, to) == loop = from /\ loop' = to

-----------------------------------------------------------------------------
(* add_timer, add_periodic_timer, cancel_timer, from any task that gets    *)
(* timer_list_mutex: the loop holds it while it collects.                  *)

MutexFree == loop # "collect"

Add(expire, period) ==
  /\ MutexFree
  /\ next_id \in Id
  /\ timers' = [timers EXCEPT ![next_id] = [expire |-> expire, period |-> period]]
  /\ next_id' = next_id + 1
  /\ WakeSignal
  /\ first_due' = [first_due EXCEPT ![next_id] = expire]
  /\ UNCHANGED <<now, loop, wake_at, now_read, notify_list, collected, called, cancelled>>

AddTimer == \E d \in Duration : Add(now + d * Ms, OneShot)
AddPeriodicTimer == \E p \in Period : Add(now + p * Ms, p * Ms)

CancelTimer(i) ==
  /\ MutexFree
  /\ i < next_id
  /\ timers' = [timers EXCEPT ![i] = None]
  /\ cancelled' = IF Live(i) THEN cancelled \union {i} ELSE cancelled
  /\ WakeSignal
  /\ UNCHANGED <<now, next_id, loop, wake_at, now_read, notify_list, first_due, collected, called>>

-----------------------------------------------------------------------------
(* run and do_select. *)

(* The first timer to expire; of several, the one that was added first.    *)
IsFirst(i) ==
  /\ Live(i)
  /\ \A j \in Id : Live(j) =>
       \/ timers[i].expire < timers[j].expire
       \/ timers[i].expire = timers[j].expire /\ i <= j

(* duration_cast to milliseconds cuts towards zero. *)
InMs(ticks) == IF ticks >= 0 THEN ticks \div Ms ELSE -((-ticks) \div Ms)

NoTimers == \A i \in Id : ~Live(i)
FirstWait(i) == InMs(timers[i].expire - now)

\* Slip: the sleep is rounded up.
SleepUntilRounded(ms) == {now + (ms + 1) * Ms}

(* A select with that timeout, which nothing keeps from being negative:    *)
(* then it returns or, where the timeout is unsigned, waits for an event.  *)
SleepUntil(ms) == IF ms >= 0 THEN {now + ms * Ms} ELSE {now, Forever}

(* With a registration that has a timeout, the shorter of the two, and at  *)
(* least zero, is taken.                                                   *)
Shorter(p, i) ==
  IF p <= FirstWait(i) THEN p ELSE IF FirstWait(i) < 0 THEN 0 ELSE FirstWait(i)

Arm ==
  /\ LoopGoto("arm", "sleep")
  /\ \/ NoTimers /\ wake_at' = Forever
     \/ \E i \in Id : IsFirst(i) /\ wake_at' \in SleepUntil(FirstWait(i))
     \/ \E p \in PollWait : NoTimers /\ wake_at' \in SleepUntil(p)
     \/ \E p \in PollWait, i \in Id : IsFirst(i) /\ wake_at' \in SleepUntil(Shorter(p, i))
  /\ UNCHANGED <<wake, now, timers, next_id, now_read, notify_list, historyVars>>

SelectSignal ==
  /\ LoopGoto("sleep", "confirm")
  /\ wake = "ready"
  /\ UNCHANGED <<wake, now, timers, next_id, wake_at, now_read, notify_list, historyVars>>

ConfirmQueue ==
  /\ LoopGoto("confirm", "pass")
  /\ WakeConfirm
  /\ UNCHANGED <<now, timers, next_id, wake_at, now_read, notify_list, historyVars>>

SelectIo ==
  /\ LoopGoto("sleep", "pass")
  /\ wake # "ready"
  /\ UNCHANGED <<wake, now, timers, next_id, wake_at, now_read, notify_list, historyVars>>

SelectTimeout ==
  /\ LoopGoto("sleep", "pass")
  /\ wake # "ready"
  /\ wake_at # Forever /\ now >= wake_at
  /\ UNCHANGED <<wake, now, timers, next_id, wake_at, now_read, notify_list, historyVars>>

SelectFails ==
  /\ LoopGoto("sleep", "arm")
  /\ UNCHANGED <<wake, now, timers, next_id, wake_at, now_read, notify_list, historyVars>>

-----------------------------------------------------------------------------
(* handle_timers, when the functions and I/O callbacks of the pass (during *)
(* "pass") are done. *)

HandleTimers ==
  /\ LoopGoto("pass", "collect")
  /\ now_read' = now
  /\ UNCHANGED <<wake, now, timers, next_id, wake_at, notify_list, historyVars>>

\* Slip: the next period starts when the timer is handled.
RestartFromNow(i) ==
  IF timers[i].period = OneShot THEN None ELSE [timers[i] EXCEPT !.expire = now_read + timers[i].period]

Restart(i) ==
  IF timers[i].period = OneShot THEN None ELSE [timers[i] EXCEPT !.expire = @ + timers[i].period]

Due(i) == [id |-> i, due |-> timers[i].expire]

\* Slip: what is due is put in front.
CollectedInFront(i) == <<Due(i)>> \o notify_list

Collected(i) == Append(notify_list, Due(i))

CollectOne ==
  /\ loop = "collect"
  /\ \E i \in Id :
       /\ IsFirst(i)
       /\ now_read >= timers[i].expire
       /\ notify_list' = Collected(i)
       /\ timers' = [timers EXCEPT ![i] = Restart(i)]
       /\ collected' = [collected EXCEPT ![i] = @ + 1]
  /\ UNCHANGED <<wake, now, next_id, loop, wake_at, now_read, first_due, called, cancelled>>

CollectDone ==
  /\ LoopGoto("collect", "fire")
  /\ \A i \in Id : Live(i) => now_read < timers[i].expire
  /\ UNCHANGED <<wake, now, timers, next_id, wake_at, now_read, notify_list, historyVars>>

\* Slip: a callback that throws ends the round.
FireDropsRest ==
  /\ loop = "fire"
  /\ notify_list # <<>>
  /\ notify_list' = <<>>
  /\ called' = [called EXCEPT ![Head(notify_list).id] = @ + 1]
  /\ UNCHANGED <<wake, now, timers, next_id, loop, wake_at, now_read, first_due, collected, cancelled>>

Fire ==
  /\ loop = "fire"
  /\ notify_list # <<>>
  /\ notify_list' = Tail(notify_list)
  /\ called' = [called EXCEPT ![Head(notify_list).id] = @ + 1]
  /\ UNCHANGED <<wake, now, timers, next_id, loop, wake_at, now_read, first_due, collected, cancelled>>

FireDone ==
  /\ LoopGoto("fire", "arm")
  /\ notify_list = <<>>
  /\ UNCHANGED <<wake, now, timers, next_id, wake_at, now_read, notify_list, historyVars>>

Tick ==
  /\ now < MaxTime
  /\ now' = now + 1
  /\ UNCHANGED <<wake, timers, next_id, loop, wake_at, now_read, notify_list, historyVars>>

DeliverSignal ==
  /\ WakeDeliver
  /\ UNCHANGED <<now, timers, next_id, loop, wake_at, now_read, notify_list, historyVars>>

Calls == AddTimer \/ AddPeriodicTimer \/ \E i \in Id : CancelTimer(i)
PassStep == ConfirmQueue \/ HandleTimers \/ CollectOne \/ CollectDone \/ Fire \/ FireDone \/ Arm

Next ==
  \/ Calls
  \/ PassStep
  \/ SelectSignal
  \/ SelectIo
  \/ SelectTimeout
  \/ SelectFails
  \/ Tick
  \/ DeliverSignal

Spec == Init /\ [][Next]_vars

(* Time passes, signals arrive, the loop runs and select returns when it   *)
(* has a reason to, though it may fail now and then.                       *)
FairSpec ==
  /\ Spec
  /\ WF_vars(Tick)
  /\ WF_vars(DeliverSignal)
  /\ WF_vars(PassStep)
  /\ SF_vars(SelectSignal)
  /\ SF_vars(SelectTimeout)

-----------------------------------------------------------------------------

(* The types of the variables. *)
TypeOK ==
  /\ WakeTypeOK
  /\ now \in Nat /\ now_read \in Nat
  /\ timers \in [Id -> [expire : Nat, period : Nat] \union {None}]
  /\ next_id \in 1..MaxTimer + 1
  /\ loop \in {"arm", "sleep", "confirm", "pass", "collect", "fire"}
  /\ wake_at \in Nat \union {Forever}
  /\ notify_list \in Seq([id : Id, due : Nat])
  /\ first_due \in [Id -> Nat]
  /\ collected \in [Id -> Nat]
  /\ called \in [Id -> Nat]
  /\ cancelled \subseteq Id

Overdue(i) == Live(i) /\ now - timers[i].expire >= Ms

(* The loop sleeps past its first timer, whoever added it and when, only   *)
(* with a timer that is a millisecond overdue: otherwise, whenever nothing *)
(* signals, select ends no later than the timer is due, or has already     *)
(* ended (do_select, add_timer, add_periodic_timer).                       *)
SleepsNoLongerThanFirst ==
  loop = "sleep" /\ wake = "none" =>
    \A i \in Id : Live(i) =>
      IF wake_at = Forever THEN \E j \in Id : Overdue(j)
      ELSE wake_at <= timers[i].expire \/ wake_at <= now

(* Timers do not drift and are not lost: however late the loop is, a       *)
(* periodic timer is due at multiples of its period from where it began,   *)
(* each of which is collected once, and a one-shot timer that nobody       *)
(* cancels is collected exactly once (handle_timers).                      *)
Schedule ==
  \A i \in Id :
    /\ Live(i) => timers[i].expire = first_due[i] + collected[i] * timers[i].period
    /\ Live(i) /\ timers[i].period = OneShot => collected[i] = 0
    /\ i < next_id /\ ~Live(i) /\ i \notin cancelled => collected[i] = 1

(* Callbacks of a pass run in the order in which they are due, across      *)
(* timers and the repeated periods of one, none early, and all of them     *)
(* before the loop sleeps again.                                           *)
DueInOrder ==
  /\ \A m, n \in 1..Len(notify_list) : m < n => notify_list[m].due <= notify_list[n].due
  /\ \A n \in 1..Len(notify_list) : notify_list[n].due <= now
  /\ loop \in {"arm", "sleep"} => called = collected

(* The loop sleeps without a timeout although a timer is running: it was   *)
(* overdue when the timeout was computed, which made that negative.        *)
Oversleeps(i) == loop = "sleep" /\ wake_at = Forever /\ wake = "none" /\ Live(i)

(* Each time a timer becomes due its callback is called, or it was         *)
(* cancelled, while there is time left to observe it: a loop that sleeps   *)
(* on an overdue timer is the only way in which it is not.                 *)
DueFiresUnlessOversleeping ==
  \A i \in Id : \A n \in 0..MaxTime \div Ms :
    Live(i) /\ timers[i].expire <= MaxTime /\ collected[i] = n
      ~> (called[i] > n \/ i \in cancelled \/ Oversleeps(i))

=============================================================================
