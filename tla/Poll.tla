-------------------------------- MODULE Poll --------------------------------
(***************************************************************************)
(* The main loop's I/O: callbacks are registered for a descriptor and a    *)
(* direction (notify), dropped (unnotify) or answered with an error        *)
(* (cancel), all under poll_list_mutex and each followed by a signal; the  *)
(* loop copies the list, selects on the copy, drains the queue of invoked  *)
(* functions, and then goes through that copy, not the list, to call the   *)
(* callbacks.                                                              *)
(*                                                                         *)
(* std::list<PollData> holds at most one entry per descriptor and          *)
(* direction (notify looks one up first), in the order in which they were  *)
(* added: it is a function of the key, whose entries carry the number of   *)
(* the registration that added them (since) and of the one whose callback  *)
(* they hold (reg).  Time is abstracted to which registrations are overdue.*)
(***************************************************************************)
EXTENDS Naturals, Sequences, Wakeup

CONSTANTS
  Fd,         (* descriptors                                               *)
  Task,       (* tasks other than the loop's that use the poll API         *)
  LoopCalls,  (* which of "notify", "unnotify", "cancel" the loop's        *)
  TaskCalls,  (* functions and callbacks, and the other tasks, make        *)
  Replaces,   (* whether notify is called for a registered key             *)
  HasTimers,  (* whether a timer may end the select                        *)
  MaxReg      (* bound: registrations                                      *)

ASSUME PollAssumption ==
  /\ LoopCalls \subseteq {"notify", "unnotify", "cancel"}
  /\ TaskCalls \subseteq {"notify", "unnotify", "cancel"}
  /\ Replaces \in BOOLEAN
  /\ HasTimers \in BOOLEAN
  /\ MaxReg \in Nat

Key == Fd \X {"Read", "Write"}
Reg == 1..MaxReg
PollData == [reg : Reg, since : Reg, cancelled : BOOLEAN, timed : BOOLEAN]
None == [reg |-> 0]
NoEntries == [k \in Key |-> None]

VARIABLES
  poll_list,  (* MainLoop::poll_list                                       *)
  copy,       (* run: poll_list_copy                                       *)
  todo,       (* the keys of the copy that this pass has still to answer   *)
  ec,         (* handle_io: the error code                                 *)
  loop,       (* where the main loop is                                    *)
  ready,      (* the keys that are readable or writable                    *)
  overdue,    (* the registrations whose timeout has passed                *)
  half,       (* a task between the two halves of unnotify(fd), cancel(fd) *)
  issued,     (* the number of registrations made                          *)
  answer      (* what the callback of each registration was called with    *)

listVars == <<poll_list, wake>>
passVars == <<copy, todo, ec>>
worldVars == <<ready, overdue>>
vars == <<listVars, passVars, loop, worldVars, half, issued, answer>>

Init ==
  /\ WakeInit
  /\ poll_list = NoEntries
  /\ copy = NoEntries
  /\ todo = {}
  /\ ec = "ok"
  /\ loop = "copy"
  /\ ready = {}
  /\ overdue = {}
  /\ half = [t \in Task |-> <<>>]
  /\ issued = 0
  /\ answer = [r \in Reg |-> <<>>]

Registered(list, k) == list[k] # None
Cancelled(list, k) == Registered(list, k) /\ list[k].cancelled
Timed(list, k) == Registered(list, k) /\ list[k].timed

-----------------------------------------------------------------------------
(* notify, unnotify and cancel: what they do to the list, under            *)
(* poll_list_mutex, and the signal that follows.                           *)

\* Slip: a call that does not signal.
ChangeSilently(list, found) ==
  /\ poll_list' = list
  /\ UNCHANGED wake

Change(list, found) ==
  /\ poll_list' = list
  /\ IF found THEN WakeSignal ELSE UNCHANGED wake

(* An entry that exists gets the new callback and timeout and stays where  *)
(* it is; it also stays cancelled.                                         *)
Notify(k, timed) ==
  /\ issued < MaxReg
  /\ Replaces \/ ~Registered(poll_list, k)
  /\ issued' = issued + 1
  /\ LET new == [reg |-> issued + 1, since |-> issued + 1, cancelled |-> FALSE, timed |-> timed]
         changed == [poll_list[k] EXCEPT !.reg = issued + 1, !.timed = timed]
     IN  Change([poll_list EXCEPT ![k] = IF Registered(poll_list, k) THEN changed ELSE new], TRUE)

Without(K) == [k \in Key |-> IF k \in K THEN None ELSE poll_list[k]]

Unnotify(K) == Change(Without(K), \E k \in K : Registered(poll_list, k))

Cancel(K) ==
  Change([k \in Key |-> IF k \in K /\ Registered(poll_list, k)
                        THEN [poll_list[k] EXCEPT !.cancelled = TRUE]
                        ELSE poll_list[k]],
         \E k \in K : Registered(poll_list, k))

(* Both directions of a descriptor. *)
Both(fd) == {fd} \X {"Read", "Write"}

-----------------------------------------------------------------------------
(* Calls from another task.  unnotify(fd) and cancel(fd) treat the two     *)
(* directions one after the other, and release the mutex in between.       *)

TaskNotify(t) ==
  /\ "notify" \in TaskCalls
  /\ half[t] = <<>>
  /\ \E k \in Key, timed \in BOOLEAN : Notify(k, timed)
  /\ UNCHANGED <<passVars, loop, worldVars, half, answer>>

TaskUnnotify(t) ==
  /\ "unnotify" \in TaskCalls
  /\ half[t] = <<>>
  /\ \E fd \in Fd : /\ Unnotify({<<fd, "Read">>})
                    /\ half' = [half EXCEPT ![t] = <<"unnotify", fd>>]
  /\ UNCHANGED <<passVars, loop, worldVars, issued, answer>>

TaskCancel(t) ==
  /\ "cancel" \in TaskCalls
  /\ half[t] = <<>>
  /\ \E fd \in Fd : /\ Cancel({<<fd, "Read">>})
                    /\ half' = [half EXCEPT ![t] = <<"cancel", fd>>]
  /\ UNCHANGED <<passVars, loop, worldVars, issued, answer>>

TaskOtherHalf(t) ==
  /\ \E fd \in Fd : \/ half[t] = <<"unnotify", fd>> /\ Unnotify({<<fd, "Write">>})
                    \/ half[t] = <<"cancel", fd>> /\ Cancel({<<fd, "Write">>})
  /\ half' = [half EXCEPT ![t] = <<>>]
  /\ UNCHANGED <<passVars, loop, worldVars, issued, answer>>

(* Calls from the functions and callbacks that the loop runs.  The loop    *)
(* looks at the list only after they return, so the two halves are one.    *)
InUserCode == loop \in {"queue", "io_callback", "timeout_callback", "timers"}

LoopNotify ==
  /\ InUserCode
  /\ "notify" \in LoopCalls
  /\ \E k \in Key, timed \in BOOLEAN : Notify(k, timed)
  /\ UNCHANGED <<passVars, loop, worldVars, half, answer>>

LoopUnnotify ==
  /\ InUserCode
  /\ "unnotify" \in LoopCalls
  /\ \E fd \in Fd : \E K \in SUBSET Both(fd) : Unnotify(K)
  /\ UNCHANGED <<passVars, loop, worldVars, half, issued, answer>>

LoopCancel ==
  /\ InUserCode
  /\ "cancel" \in LoopCalls
  /\ \E fd \in Fd : Cancel(Both(fd))
  /\ UNCHANGED <<passVars, loop, worldVars, half, issued, answer>>

(* A function or callback reads or writes what there is. *)
LoopConsume ==
  /\ InUserCode
  /\ \E k \in ready : ready' = ready \ {k}
  /\ UNCHANGED <<listVars, passVars, loop, overdue, half, issued, answer>>

-----------------------------------------------------------------------------
(* The world: data and room arrive, time passes, the signal is delivered.  *)

BecomeReady(k) ==
  /\ k \notin ready
  /\ ready' = ready \union {k}
  /\ UNCHANGED <<listVars, passVars, loop, overdue, half, issued, answer>>

Expire(k) ==
  /\ Timed(poll_list, k)
  /\ overdue' = overdue \union {poll_list[k].reg}
  /\ UNCHANGED <<listVars, passVars, loop, ready, half, issued, answer>>

DeliverSignal ==
  /\ WakeDeliver
  /\ UNCHANGED <<poll_list, passVars, loop, worldVars, half, issued, answer>>

-----------------------------------------------------------------------------
(* run, get_poll_list, do_select.  The copy lives for one round of run.    *)

LoopGoto(from, to) == loop = from /\ loop' = to

CopyList ==
  /\ LoopGoto("copy", "select")
  /\ copy' = poll_list
  /\ UNCHANGED <<listVars, todo, ec, worldVars, half, issued, answer>>

(* The descriptors in read_set and write_set: the cancelled are left out.  *)
Interest == {k \in Key : Registered(copy, k) /\ ~copy[k].cancelled}
Ready == Interest \intersect ready

(* Slips: cancelled entries are not answered; those that are not overdue   *)
(* are taken for overdue.                                                  *)
AnswerableReadyOnly == Ready
OverdueNotYet == {k \in Key : Timed(copy, k) /\ copy[k].reg \notin overdue}

(* What handle_io and handle_timeout will answer. *)
Answerable == Ready \union {k \in Key : Cancelled(copy, k)}
Overdue == {k \in Key : Timed(copy, k) /\ copy[k].reg \in overdue}

(* r > 0.  With the trigger readable, the queue comes first. *)
SelectReturns ==
  /\ loop = "select"
  /\ \/ wake = "ready" /\ loop' = "confirm"
     \/ wake # "ready" /\ Ready # {} /\ loop' = "io"
  /\ todo' = Answerable
  /\ UNCHANGED <<listVars, copy, ec, worldVars, half, issued, answer>>

(* r = 0: a timer's or a registration's time, rounded down to a            *)
(* millisecond, has passed with nothing ready.                             *)
SelectTimeout ==
  /\ LoopGoto("select", "timeout")
  /\ wake # "ready" /\ Ready = {}
  /\ HasTimers \/ \E k \in Key : Timed(copy, k)
  /\ todo' = Overdue
  /\ UNCHANGED <<listVars, copy, ec, worldVars, half, issued, answer>>

(* r = -1: the error is logged, and neither callbacks nor timers run. *)
SelectFails ==
  /\ LoopGoto("select", "copy")
  /\ copy' = NoEntries
  /\ UNCHANGED <<listVars, todo, ec, worldVars, half, issued, answer>>

(* handle_queue confirms the trigger and then runs functions. *)
ConfirmQueue ==
  /\ LoopGoto("confirm", "queue")
  /\ WakeConfirm
  /\ UNCHANGED <<poll_list, passVars, worldVars, half, issued, answer>>

QueueDone ==
  /\ LoopGoto("queue", "io")
  /\ UNCHANGED <<listVars, passVars, worldVars, half, issued, answer>>

-----------------------------------------------------------------------------
(* handle_io and handle_timeout go through the copy in the list's order.   *)

IsNext(k) == k \in todo /\ \A j \in todo : copy[k].since <= copy[j].since

(* Slips: the callback is called and stays registered; both directions of  *)
(* its descriptor are dropped.                                             *)
AnswerKeeps(k, code) ==
  /\ UNCHANGED listVars
  /\ todo' = todo \ {k}
  /\ answer' = [answer EXCEPT ![copy[k].reg] = Append(@, code)]

AnswerDropsBoth(k, code) ==
  /\ Unnotify(Both(k[1]))
  /\ todo' = todo \ {k}
  /\ answer' = [answer EXCEPT ![copy[k].reg] = Append(@, code)]

(* The entry of the key is dropped from the list, and the callback of the  *)
(* copy is called.  The error code of handle_io is not reset: once an      *)
(* entry was cancelled, the callbacks after it in this pass see Cancelled. *)
Answer(k, code) ==
  /\ Unnotify({k})
  /\ todo' = todo \ {k}
  /\ answer' = [answer EXCEPT ![copy[k].reg] = Append(@, code)]

HandleIo ==
  /\ LoopGoto("io", "io_callback")
  /\ \E k \in Key :
       /\ IsNext(k)
       /\ ec' = IF copy[k].cancelled THEN "Cancelled" ELSE ec
       /\ Answer(k, ec')
  /\ UNCHANGED <<copy, worldVars, half, issued>>

(* The callback returns; what it throws is caught. *)
IoCallbackDone ==
  /\ LoopGoto("io_callback", "io")
  /\ UNCHANGED <<listVars, passVars, worldVars, half, issued, answer>>

IoDone ==
  /\ LoopGoto("io", "timers")
  /\ todo = {}
  /\ ec' = "ok"
  /\ UNCHANGED <<listVars, copy, todo, worldVars, half, issued, answer>>

HandleTimeout ==
  /\ LoopGoto("timeout", "timeout_callback")
  /\ \E k \in Key : IsNext(k) /\ Answer(k, "Timeout")
  /\ UNCHANGED <<copy, ec, worldVars, half, issued>>

TimeoutCallbackDone ==
  /\ LoopGoto("timeout_callback", "timeout")
  /\ UNCHANGED <<listVars, passVars, worldVars, half, issued, answer>>

TimeoutDone ==
  /\ LoopGoto("timeout", "timers")
  /\ todo = {}
  /\ UNCHANGED <<listVars, passVars, worldVars, half, issued, answer>>

TimersDone ==
  /\ LoopGoto("timers", "copy")
  /\ copy' = NoEntries
  /\ UNCHANGED <<listVars, todo, ec, worldVars, half, issued, answer>>

TaskStep(t) == TaskNotify(t) \/ TaskUnnotify(t) \/ TaskCancel(t) \/ TaskOtherHalf(t)
UserStep == LoopNotify \/ LoopUnnotify \/ LoopCancel \/ LoopConsume
WorldStep == DeliverSignal \/ \E k \in Key : BecomeReady(k) \/ Expire(k)
PassStep ==
  \/ CopyList \/ ConfirmQueue \/ QueueDone \/ HandleIo \/ IoCallbackDone \/ IoDone
  \/ HandleTimeout \/ TimeoutCallbackDone \/ TimeoutDone \/ TimersDone

Next ==
  \/ \E t \in Task : TaskStep(t)
  \/ UserStep
  \/ WorldStep
  \/ SelectReturns
  \/ SelectTimeout
  \/ SelectFails
  \/ PassStep

Spec == Init /\ [][Next]_vars

(* The loop runs, signals arrive, time passes, and tasks finish the calls  *)
(* they began.  select may fail now and then, but not for ever, and with   *)
(* nothing to report it returns when a registration's time is over.        *)
FairSpec ==
  /\ Spec
  /\ WF_vars(PassStep)
  /\ WF_vars(DeliverSignal)
  /\ SF_vars(SelectReturns)
  /\ SF_vars(SelectTimeout /\ Overdue # {})
  /\ \A k \in Key : WF_vars(Expire(k))
  /\ \A t \in Task : WF_vars(TaskOtherHalf(t))

-----------------------------------------------------------------------------

(* The types of the variables. *)
TypeOK ==
  /\ WakeTypeOK
  /\ poll_list \in [Key -> PollData \union {None}]
  /\ copy \in [Key -> PollData \union {None}]
  /\ todo \subseteq Key
  /\ ec \in {"ok", "Cancelled"}
  /\ loop \in {"copy", "select", "confirm", "queue", "io", "io_callback",
               "timeout", "timeout_callback", "timers"}
  /\ ready \subseteq Key
  /\ overdue \subseteq Reg
  /\ half \in [Task -> {<<>>} \union ({"unnotify", "cancel"} \X Fd)]
  /\ issued \in 0..MaxReg
  /\ answer \in [Reg -> Seq({"ok", "Cancelled", "Timeout"})]

InList(r) == \E k \in Key : poll_list[k].reg = r
Answered(r) == answer[r] # <<>>
CancelledReg(r) == \E k \in Key : Cancelled(poll_list, k) /\ poll_list[k].reg = r

(* The loop never waits on a list that has changed: whenever select can    *)
(* block, because nothing signals, the copy that it watches is the list.   *)
(* Any task may have changed the list at any moment since the copy was     *)
(* made (get_poll_list, notify, unnotify, cancel).                         *)
SelectSeesList == loop = "select" /\ wake = "none" => copy = poll_list

(* No callback is called twice for one registration, although the loop     *)
(* works on a copy while anyone changes the list (handle_io,               *)
(* handle_timeout).                                                        *)
AnsweredAtMostOnce == \A r \in Reg : Len(answer[r]) <= 1

(* If nobody calls unnotify or registers a key a second time, no           *)
(* registration is lost either: it is in the list or its callback was      *)
(* called, and never both.                                                 *)
Accounted ==
  \A r \in Reg :
    Len(answer[r]) + (IF InList(r) THEN 1 ELSE 0) = IF r <= issued THEN 1 ELSE 0

(* If only the loop's functions and callbacks cancel, the loop never waits *)
(* with a cancelled registration in its copy: the select, which leaves the *)
(* cancelled out, is ended by the signal.                                  *)
CancelledAnnounced ==
  loop = "select" /\ (\E k \in Key : Cancelled(copy, k)) => wake # "none"

(* A registration that is cancelled by the loop's functions or callbacks   *)
(* is answered.                                                            *)
CancelAnswered == \A r \in Reg : CancelledReg(r) ~> Answered(r)

(* A registration whose descriptor stays ready is answered. *)
ReadyAnswered ==
  \A r \in Reg :
    (\E k \in ready : poll_list[k].reg = r)
      ~> (Answered(r) \/ \A k \in ready : poll_list[k].reg # r)

(* A registration with a timeout is answered, once nothing else happens:   *)
(* handle_timeout runs only when select returns with nothing ready, so     *)
(* constant activity would put every timeout off.                          *)
TimeoutAnswered ==
  <>[](ready = {}) =>
    \A r \in Reg : (\E k \in Key : Timed(poll_list, k) /\ poll_list[k].reg = r) ~> Answered(r)

(* When another task cancels, the signal may be confirmed in the very pass *)
(* whose copy is too old to show the cancel.  The loop then waits with the *)
(* cancelled registration in its copy.                                     *)
Stranded(r) ==
  /\ loop = "select" /\ wake = "none" /\ Ready = {}
  /\ \E k \in Key : Cancelled(copy, k) /\ copy[k].reg = r

(* Whoever cancels, that is the only way for a cancelled registration to   *)
(* stay: it is answered, unless it is unregistered or replaced.            *)
CancelledLeavesUnlessStranded ==
  \A r \in Reg : CancelledReg(r) ~> (~CancelledReg(r) \/ Stranded(r))

(* "operation cancelled" is what a callback is told when its registration  *)
(* was cancelled.                                                          *)
CancelledMeansCancelled ==
  [][\A r \in Reg :
       answer'[r] = <<"Cancelled">> /\ answer[r] = <<>> =>
         \E k \in Key : copy[k].reg = r /\ copy[k].cancelled]_vars

-----------------------------------------------------------------------------
(* The inductive invariants behind the safety properties above. *)

(* A registration belongs to one key, in the list and in the copy. *)
Distinct(a, b) ==
  \A k, j \in Key : Registered(a, k) /\ Registered(b, j) /\ a[k].reg = b[j].reg => k = j
OneKey == Distinct(poll_list, poll_list) /\ Distinct(poll_list, copy) /\ Distinct(copy, copy)

Unanswered(list, K) ==
  \A k \in K : Registered(list, k) => list[k].reg <= issued /\ answer[list[k].reg] = <<>>

(* What is registered, and what a pass has still to answer, has not been   *)
(* answered: not even an entry of the copy that has left the list since.   *)
AnswerInv ==
  /\ OneKey
  /\ Unanswered(poll_list, Key)
  /\ Unanswered(copy, todo)
  /\ loop = "select" => Unanswered(copy, Key)
  /\ \A k \in Key : Registered(copy, k) => copy[k].reg <= issued
  /\ \A k \in todo : Registered(copy, k)
  /\ loop \in {"copy", "select", "timers"} => todo = {}
  /\ \A r \in Reg : r > issued => answer[r] = <<>>
  /\ AnsweredAtMostOnce

(* Without unnotify and without replacement, an entry of the copy that a   *)
(* pass has still to answer is in the list.                                *)
KeepInv ==
  /\ \A t \in Task, fd \in Fd : half[t] # <<"unnotify", fd>>
  /\ \A k \in todo : poll_list[k].reg = copy[k].reg
  /\ loop = "select" => \A k \in Key : Registered(copy, k) => poll_list[k].reg = copy[k].reg
  /\ \A r \in 1..issued : InList(r) \/ Answered(r)

(* Without cancels from other tasks, a cancel is announced until a pass    *)
(* has it on its way.                                                      *)
CancelInv ==
  /\ \A t \in Task, fd \in Fd : half[t] # <<"cancel", fd>>
  /\ \A k \in Key : Cancelled(poll_list, k) =>
       \/ wake # "none"
       \/ k \in todo /\ loop \in {"confirm", "queue", "io", "io_callback"}
  /\ loop = "select" => \A k \in Key : Cancelled(poll_list, k) => Cancelled(copy, k)
  /\ loop = "confirm" => \A k \in Key : Cancelled(poll_list, k) => k \in todo
  /\ CancelledAnnounced

=============================================================================
