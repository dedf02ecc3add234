----------------------------- MODULE PollProofs -----------------------------
(***************************************************************************)
(* Proofs about Poll, for any descriptors, any tasks and any number of     *)
(* registrations: the loop never waits on a stale list, no callback is     *)
(* called twice, and under the discipline the program keeps, no            *)
(* registration is lost and a cancel always ends the select.               *)
(***************************************************************************)
EXTENDS Poll, SequenceTheorems, TLAPS

(* What every step uses of the data. *)
LEMMA Data ==
  /\ MaxReg \in Nat
  /\ None \notin PollData
  /\ \A e \in PollData : /\ e # None /\ e.reg \in 1..MaxReg /\ e.since \in 1..MaxReg
                         /\ e.cancelled \in BOOLEAN /\ e.timed \in BOOLEAN
BY PollAssumption DEF PollData, None, Reg

(* The calls keep the type of the list, whatever they do to it. *)
LEMMA NotifyType ==
  ASSUME TypeOK, NEW k \in Key, NEW timed \in BOOLEAN, Notify(k, timed)
  PROVE  /\ poll_list' \in [Key -> PollData \union {None}]
         /\ WakeTypeOK' /\ issued' \in 0..MaxReg
<1>1. issued + 1 \in Reg /\ issued' \in 0..MaxReg
  BY Data DEF TypeOK, Notify, Reg
<1>2. Registered(poll_list, k) => [poll_list[k] EXCEPT !.reg = issued + 1, !.timed = timed] \in PollData
  BY <1>1 DEF TypeOK, Registered, PollData
<1>3. [reg |-> issued + 1, since |-> issued + 1, cancelled |-> FALSE, timed |-> timed] \in PollData
  BY <1>1 DEF PollData
<1>4. QED
  BY <1>1, <1>2, <1>3 DEF TypeOK, Notify, Change, WakeSignal, WakeTypeOK

LEMMA UnnotifyType ==
  ASSUME TypeOK, NEW K, Unnotify(K)
  PROVE  poll_list' \in [Key -> PollData \union {None}] /\ WakeTypeOK'
BY DEF TypeOK, Unnotify, Without, Change, WakeSignal, WakeTypeOK

LEMMA CancelType ==
  ASSUME TypeOK, NEW K, Cancel(K)
  PROVE  poll_list' \in [Key -> PollData \union {None}] /\ WakeTypeOK'
<1>1. \A k \in Key : Registered(poll_list, k) => [poll_list[k] EXCEPT !.cancelled = TRUE] \in PollData
  BY DEF TypeOK, Registered, PollData
<1>2. QED
  BY <1>1 DEF TypeOK, Cancel, Change, WakeSignal, WakeTypeOK

(* Answering keeps the type of the history. *)
LEMMA AnswerType ==
  ASSUME TypeOK, NEW k \in Key, NEW code \in {"ok", "Cancelled", "Timeout"}, Answer(k, code)
  PROVE  answer' \in [Reg -> Seq({"ok", "Cancelled", "Timeout"})] /\ todo' \subseteq Key
<1> DEFINE C == {"ok", "Cancelled", "Timeout"}
<1>1. \A r \in Reg : Append(answer[r], code) \in Seq(C)
  BY AppendProperties DEF TypeOK
<1>2. answer' = [answer EXCEPT ![copy[k].reg] = Append(@, code)] /\ todo' \subseteq Key
  BY DEF TypeOK, Answer
<1> HIDE DEF C
<1>3. answer' \in [Reg -> Seq(C)]
  <2>1. answer \in [Reg -> Seq(C)]
    BY DEF TypeOK, C
  <2>2. QED
    BY <1>1, <1>2, <2>1
<1>4. QED
  BY <1>2, <1>3 DEF C

(* The types. *)
THEOREM PollTypes == Spec => []TypeOK
<1>1. Init => TypeOK
  BY Data DEF Init, TypeOK, WakeInit, WakeTypeOK, NoEntries, Reg
<1>2. TypeOK /\ [Next]_vars => TypeOK'
  <2> SUFFICES ASSUME TypeOK, [Next]_vars
               PROVE  TypeOK'
    OBVIOUS
  <2> USE DEF TypeOK, LoopGoto, listVars, passVars, worldVars
  <2>1. CASE UNCHANGED vars
    BY <2>1 DEF vars, WakeTypeOK
  <2>2. ASSUME NEW t \in Task, TaskNotify(t)
        PROVE  TypeOK'
    BY <2>2, NotifyType DEF TaskNotify
  <2>3. ASSUME NEW t \in Task, TaskUnnotify(t)
        PROVE  TypeOK'
    BY <2>3, UnnotifyType DEF TaskUnnotify
  <2>4. ASSUME NEW t \in Task, TaskCancel(t)
        PROVE  TypeOK'
    BY <2>4, CancelType DEF TaskCancel
  <2>5. ASSUME NEW t \in Task, TaskOtherHalf(t)
        PROVE  TypeOK'
    BY <2>5, UnnotifyType, CancelType DEF TaskOtherHalf
  <2>6. CASE LoopNotify
    BY <2>6, NotifyType DEF LoopNotify
  <2>7. CASE LoopUnnotify
    BY <2>7, UnnotifyType DEF LoopUnnotify
  <2>8. CASE LoopCancel
    BY <2>8, CancelType DEF LoopCancel
  <2>9. CASE LoopConsume
    BY <2>9 DEF LoopConsume, WakeTypeOK
  <2>10. CASE WorldStep
    <3>1. \A k \in Key : Timed(poll_list, k) => poll_list[k].reg \in Reg
      BY Data DEF Timed, Registered, Reg
    <3>2. QED
      BY <2>10, <3>1 DEF WorldStep, DeliverSignal, WakeDeliver, BecomeReady, Expire, WakeTypeOK
  <2>11. CASE SelectReturns \/ SelectTimeout \/ SelectFails
    BY <2>11 DEF SelectReturns, SelectTimeout, SelectFails, Answerable, Ready, Interest,
        Overdue, NoEntries, WakeTypeOK
  <2>12. CASE HandleIo
    <3>1. PICK k \in Key : /\ ec' = IF copy[k].cancelled THEN "Cancelled" ELSE ec
                           /\ Answer(k, ec')
      BY <2>12 DEF HandleIo
    <3>2. ec' \in {"ok", "Cancelled"}
      BY <3>1
    <3>3. Unnotify({k})
      BY <3>1 DEF Answer
    <3>4. QED
      BY <2>12, <3>1, <3>2, <3>3, AnswerType, UnnotifyType DEF HandleIo
  <2>13. CASE HandleTimeout
    <3>1. PICK k \in Key : Answer(k, "Timeout")
      BY <2>13 DEF HandleTimeout
    <3>2. Unnotify({k})
      BY <3>1 DEF Answer
    <3>3. QED
      BY <2>13, <3>1, <3>2, AnswerType, UnnotifyType DEF HandleTimeout
  <2>14. CASE CopyList \/ ConfirmQueue \/ QueueDone \/ IoCallbackDone \/ IoDone
              \/ TimeoutCallbackDone \/ TimeoutDone \/ TimersDone
    BY <2>14 DEF CopyList, ConfirmQueue, WakeConfirm, QueueDone, IoCallbackDone, IoDone,
        TimeoutCallbackDone, TimeoutDone, TimersDone, NoEntries, WakeTypeOK
  <2>15. QED
    BY <2>1, <2>2, <2>3, <2>4, <2>5, <2>6, <2>7, <2>8, <2>9, <2>10, <2>11, <2>12, <2>13,
       <2>14 DEF Next, TaskStep, UserStep, PassStep
<1>3. QED
  BY <1>1, <1>2, PTL DEF Spec

-----------------------------------------------------------------------------
(* What the calls do to the registrations in the list. *)

LEMMA NotifyEffect ==
  ASSUME TypeOK, NEW k \in Key, NEW timed \in BOOLEAN, Notify(k, timed)
  PROVE  /\ issued' = issued + 1 /\ issued' \in Reg
         /\ wake' # "none"
         /\ Registered(poll_list', k) /\ poll_list'[k].reg = issued'
         /\ Cancelled(poll_list', k) => Cancelled(poll_list, k)
         /\ ~Replaces => ~Registered(poll_list, k)
         /\ \A j \in Key : j # k => poll_list'[j] = poll_list[j]
<1> DEFINE new == [reg |-> issued + 1, since |-> issued + 1, cancelled |-> FALSE, timed |-> timed]
           changed == [poll_list[k] EXCEPT !.reg = issued + 1, !.timed = timed]
<1>1. issued + 1 \in Reg
  BY Data DEF TypeOK, Notify, Reg
<1>2. new \in PollData /\ new.reg = issued + 1 /\ new.cancelled = FALSE
  BY <1>1 DEF PollData
<1>3. Registered(poll_list, k) =>
        changed \in PollData /\ changed.reg = issued + 1 /\ changed.cancelled = poll_list[k].cancelled
  BY <1>1 DEF TypeOK, Registered, PollData
<1>4. poll_list' = [poll_list EXCEPT ![k] = IF Registered(poll_list, k) THEN changed ELSE new]
  BY DEF Notify, Change
<1>5. wake' # "none"
  BY DEF Notify, Change, WakeSignal
<1> HIDE DEF new, changed
<1>6. /\ poll_list'[k] = IF Registered(poll_list, k) THEN changed ELSE new
      /\ \A j \in Key : j # k => poll_list'[j] = poll_list[j]
  BY <1>4 DEF TypeOK
<1>7. QED
  BY <1>1, <1>2, <1>3, <1>5, <1>6, Data DEF Notify, Registered, Cancelled

LEMMA UnnotifyEffect ==
  ASSUME TypeOK, NEW K, Unnotify(K)
  PROVE  /\ \A j \in Key : poll_list'[j] = IF j \in K THEN None ELSE poll_list[j]
         /\ wake' = wake \/ wake' # "none"
         /\ wake # "none" => wake' # "none"
         /\ poll_list' = poll_list \/ wake' # "none"
<1>1. poll_list' = [j \in Key |-> IF j \in K THEN None ELSE poll_list[j]]
  BY DEF Unnotify, Change, Without
<1>2. (\A j \in K : ~Registered(poll_list, j)) => poll_list' = poll_list
  BY <1>1 DEF TypeOK, Registered
<1>3. wake' = wake \/ wake' # "none"
  BY DEF Unnotify, Change, WakeSignal
<1>4. wake # "none" => wake' # "none"
  BY DEF Unnotify, Change, WakeSignal
<1>5. (\E j \in K : Registered(poll_list, j)) => wake' # "none"
  BY DEF Unnotify, Change, WakeSignal
<1>6. QED
  BY <1>1, <1>2, <1>3, <1>4, <1>5

LEMMA CancelEffect ==
  ASSUME TypeOK, NEW K, Cancel(K)
  PROVE  /\ \A j \in Key : Registered(poll_list', j) <=> Registered(poll_list, j)
         /\ \A j \in Key : poll_list'[j].reg = poll_list[j].reg
         /\ wake' = wake \/ wake' # "none"
         /\ wake # "none" => wake' # "none"
         /\ poll_list' = poll_list \/ wake' # "none"
<1> DEFINE struck(j) == [poll_list[j] EXCEPT !.cancelled = TRUE]
<1>1. poll_list' = [j \in Key |-> IF j \in K /\ Registered(poll_list, j) THEN struck(j) ELSE poll_list[j]]
  BY DEF Cancel, Change
<1>2. \A j \in Key : Registered(poll_list, j) =>
        struck(j) \in PollData /\ struck(j).reg = poll_list[j].reg
  BY DEF TypeOK, Registered, PollData
<1>3. wake' = wake \/ wake' # "none"
  BY DEF Cancel, Change, WakeSignal
<1>4. wake # "none" => wake' # "none"
  BY DEF Cancel, Change, WakeSignal
<1>5. (\E j \in K : Registered(poll_list, j)) => wake' # "none"
  BY DEF Cancel, Change, WakeSignal
<1> HIDE DEF struck
<1>6. (\A j \in K : ~Registered(poll_list, j)) => poll_list' = poll_list
  BY <1>1 DEF TypeOK
<1>7. QED
  BY <1>1, <1>2, <1>3, <1>4, <1>5, <1>6, Data DEF Registered

LEMMA AnswerEffect ==
  ASSUME TypeOK, NEW k \in Key, NEW code \in {"ok", "Cancelled", "Timeout"}, Answer(k, code)
  PROVE  /\ Unnotify({k})
         /\ todo' = todo \ {k}
         /\ \A r \in Reg : r # copy[k].reg => answer'[r] = answer[r]
         /\ copy[k].reg \in Reg =>
              /\ answer[copy[k].reg] = <<>> => Len(answer'[copy[k].reg]) = 1
              /\ answer'[copy[k].reg] # <<>>
<1>1. answer' = [answer EXCEPT ![copy[k].reg] = Append(@, code)]
  BY DEF Answer
<1>2. \A r \in Reg : /\ Append(answer[r], code) # <<>>
                     /\ answer[r] = <<>> => Len(Append(answer[r], code)) = 1
  BY AppendProperties, EmptySeq DEF TypeOK
<1>3. Unnotify({k}) /\ todo' = todo \ {k}
  BY DEF Answer
<1>4. QED
  BY <1>1, <1>2, <1>3 DEF TypeOK

-----------------------------------------------------------------------------
(* AnswerInv: one lemma for each kind of step.                             *)

(* Entries leave the list, or are only marked. *)
LEMMA ShrinkKeepsAnswerInv ==
  ASSUME AnswerInv, UNCHANGED <<copy, todo, loop, issued, answer>>,
         \A j \in Key : Registered(poll_list', j) =>
           Registered(poll_list, j) /\ poll_list'[j].reg = poll_list[j].reg
  PROVE  AnswerInv'
BY DEF AnswerInv, OneKey, Distinct, Unanswered, AnsweredAtMostOnce, Registered

(* A new registration has a number that nothing else has. *)
LEMMA NotifyKeepsAnswerInv ==
  ASSUME TypeOK, AnswerInv, NEW k \in Key, NEW timed \in BOOLEAN, Notify(k, timed),
         UNCHANGED <<copy, todo, loop, answer>>
  PROVE  AnswerInv'
<1>1. /\ issued' = issued + 1 /\ issued' \in Reg /\ issued \in Nat
      /\ poll_list'[k].reg = issued'
      /\ \A j \in Key : j # k => poll_list'[j] = poll_list[j]
  BY NotifyEffect DEF TypeOK
<1>2. \A j \in Key : /\ Registered(poll_list, j) => poll_list[j].reg \in Nat
                     /\ Registered(copy, j) => copy[j].reg \in Nat
  BY Data DEF TypeOK, Registered
<1>3. \A j \in Key : Registered(poll_list', j) =>
        \/ j = k /\ poll_list'[j].reg = issued + 1
        \/ j # k /\ Registered(poll_list, j) /\ poll_list'[j].reg = poll_list[j].reg
  BY <1>1 DEF Registered
<1>4. OneKey'
  BY <1>1, <1>2, <1>3 DEF AnswerInv, OneKey, Distinct, Unanswered, Registered
<1>5. Unanswered(poll_list, Key)'
  BY <1>1, <1>2, <1>3 DEF AnswerInv, Unanswered, Registered
<1>6. Unanswered(copy, todo)' /\ (loop = "select" => Unanswered(copy, Key))'
  BY <1>1, <1>2 DEF AnswerInv, Unanswered, Registered, TypeOK
<1>7. (\A r \in Reg : r > issued => answer[r] = <<>>)'
  BY <1>1 DEF AnswerInv, Reg
<1>8. (\A j \in Key : Registered(copy, j) => copy[j].reg <= issued)'
  BY <1>1, <1>2 DEF AnswerInv, Registered
<1>9. QED
  BY <1>4, <1>5, <1>6, <1>7, <1>8 DEF AnswerInv, AnsweredAtMostOnce, Registered

(* A callback is called: its registration leaves the list and the pass. *)
LEMMA AnswerKeepsAnswerInv ==
  ASSUME TypeOK, AnswerInv, NEW k \in todo, NEW code \in {"ok", "Cancelled", "Timeout"},
         Answer(k, code), UNCHANGED <<copy, issued>>,
         loop' \notin {"copy", "select", "timers"}
  PROVE  AnswerInv'
<1> DEFINE r == copy[k].reg
<1>1. k \in Key /\ Registered(copy, k) /\ r \in Reg /\ answer[r] = <<>> /\ r <= issued
  BY Data DEF TypeOK, AnswerInv, Unanswered, Registered, Reg
<1>2. Unnotify({k}) /\ todo' = todo \ {k}
  BY <1>1, AnswerEffect
<1>3. \A q \in Reg : q # r => answer'[q] = answer[q]
  BY <1>1, AnswerEffect
<1>4. Len(answer'[r]) = 1
  BY <1>1, AnswerEffect
<1>5. \A j \in Key : poll_list'[j] = IF j = k THEN None ELSE poll_list[j]
  BY <1>2, UnnotifyEffect
<1>6. \A j \in Key : /\ Registered(poll_list, j) => poll_list[j].reg \in Reg
                     /\ Registered(copy, j) => copy[j].reg \in Reg
  BY Data DEF TypeOK, Registered, Reg
<1>7. OneKey'
  BY <1>5 DEF AnswerInv, OneKey, Distinct, Registered
<1>8. Unanswered(poll_list, Key)'
  <2> SUFFICES ASSUME NEW j \in Key, Registered(poll_list', j)
               PROVE  poll_list'[j].reg <= issued /\ answer'[poll_list'[j].reg] = <<>>
    BY DEF Unanswered, Registered
  <2>1. j # k /\ Registered(poll_list, j) /\ poll_list'[j] = poll_list[j]
    BY <1>5 DEF Registered
  <2>2. poll_list[j].reg # r
    BY <2>1, <1>1 DEF AnswerInv, OneKey, Distinct
  <2>3. QED
    BY <2>1, <2>2, <1>3, <1>6 DEF AnswerInv, Unanswered
<1>9. Unanswered(copy, todo)'
  <2> SUFFICES ASSUME NEW j \in todo, j # k, Registered(copy, j)
               PROVE  copy[j].reg <= issued /\ answer'[copy[j].reg] = <<>>
    BY <1>2 DEF Unanswered, Registered
  <2>1. copy[j].reg # r /\ j \in Key
    BY <1>1 DEF AnswerInv, OneKey, Distinct, TypeOK
  <2>2. QED
    BY <2>1, <1>3, <1>6 DEF AnswerInv, Unanswered
<1>10. (\A q \in Reg : q > issued => answer[q] = <<>>)'
  BY <1>1, <1>3 DEF AnswerInv, Reg, TypeOK
<1>11. AnsweredAtMostOnce'
  <2> SUFFICES ASSUME NEW q \in Reg
               PROVE  Len(answer'[q]) <= 1
    BY DEF AnsweredAtMostOnce
  <2>1. CASE q = r
    BY <2>1, <1>4
  <2>2. CASE q # r
    BY <2>2, <1>3 DEF AnswerInv, AnsweredAtMostOnce
  <2>3. QED
    BY <2>1, <2>2
<1>12. QED
  BY <1>2, <1>7, <1>8, <1>9, <1>10, <1>11 DEF AnswerInv, Registered

(* A pass begins: it answers nothing that is not in its copy. *)
LEMMA SelectKeepsAnswerInv ==
  ASSUME TypeOK, AnswerInv, SelectReturns \/ SelectTimeout \/ SelectFails
  PROVE  AnswerInv'
<1>1. CASE SelectReturns \/ SelectTimeout
  <2>1. /\ todo' \subseteq {k \in Key : Registered(copy, k)}
        /\ loop = "select" /\ loop' \in {"confirm", "io", "timeout"}
        /\ UNCHANGED <<poll_list, copy, issued, answer>>
    BY <1>1 DEF SelectReturns, SelectTimeout, LoopGoto, Answerable, Ready, Interest, Overdue,
        Cancelled, Timed, Registered, listVars
  <2>2. QED
    BY <2>1 DEF AnswerInv, OneKey, Distinct, Unanswered, AnsweredAtMostOnce, Registered
<1>2. CASE SelectFails
  <2>1. /\ loop' = "copy" /\ todo' = {}
        /\ \A k \in Key : ~Registered(copy', k)
        /\ UNCHANGED <<poll_list, issued, answer>>
    BY <1>2 DEF SelectFails, LoopGoto, AnswerInv, NoEntries, Registered, listVars
  <2>2. QED
    BY <2>1 DEF AnswerInv, OneKey, Distinct, Unanswered, AnsweredAtMostOnce, Registered
<1>3. QED
  BY <1>1, <1>2

LEMMA CopyListKeepsAnswerInv ==
  ASSUME TypeOK, AnswerInv, CopyList
  PROVE  AnswerInv'
<1>1. /\ copy' = poll_list /\ poll_list' = poll_list /\ loop' = "select" /\ todo' = {}
      /\ UNCHANGED <<issued, answer>>
  BY DEF CopyList, LoopGoto, AnswerInv, listVars
<1>2. QED
  BY <1>1 DEF AnswerInv, OneKey, Distinct, Unanswered, AnsweredAtMostOnce, Registered

(* The loop moves on within a pass, or ends it. *)
LEMMA MoveKeepsAnswerInv ==
  ASSUME TypeOK, AnswerInv,
         \/ ConfirmQueue \/ QueueDone \/ IoCallbackDone \/ IoDone
         \/ TimeoutCallbackDone \/ TimeoutDone \/ TimersDone
  PROVE  AnswerInv'
<1>1. CASE ConfirmQueue \/ QueueDone \/ IoCallbackDone \/ IoDone
             \/ TimeoutCallbackDone \/ TimeoutDone
  <2>1. /\ UNCHANGED <<poll_list, copy, todo, issued, answer>>
        /\ loop' \in {"queue", "io", "timeout"} \/ (loop' = "timers" /\ todo = {})
    BY <1>1 DEF ConfirmQueue, QueueDone, IoCallbackDone, IoDone, TimeoutCallbackDone,
        TimeoutDone, LoopGoto, listVars, passVars
  <2>2. QED
    BY <2>1 DEF AnswerInv, OneKey, Distinct, Unanswered, AnsweredAtMostOnce, Registered
<1>2. CASE TimersDone
  <2>1. /\ loop' = "copy" /\ todo' = {}
        /\ \A k \in Key : ~Registered(copy', k)
        /\ UNCHANGED <<poll_list, issued, answer>>
    BY <1>2 DEF TimersDone, LoopGoto, AnswerInv, NoEntries, Registered, listVars
  <2>2. QED
    BY <2>1 DEF AnswerInv, OneKey, Distinct, Unanswered, AnsweredAtMostOnce, Registered
<1>3. QED
  BY <1>1, <1>2

(* Whatever the tasks and the callbacks call and whenever, the invariant   *)
(* of the answers holds.                                                   *)
THEOREM AnswerInvariant == Spec => []AnswerInv
<1>1. Init => AnswerInv
  <2> SUFFICES ASSUME Init
               PROVE  AnswerInv
    OBVIOUS
  <2>1. \A k \in Key : ~Registered(poll_list, k) /\ ~Registered(copy, k)
    BY DEF Init, NoEntries, Registered
  <2>2. \A r \in Reg : answer[r] = <<>> /\ Len(answer[r]) <= 1
    BY EmptySeq DEF Init
  <2>3. QED
    BY <2>1, <2>2 DEF Init, AnswerInv, OneKey, Distinct, Unanswered, AnsweredAtMostOnce
<1>2. TypeOK /\ AnswerInv /\ [Next]_vars => AnswerInv'
  <2> SUFFICES ASSUME TypeOK, AnswerInv, [Next]_vars
               PROVE  AnswerInv'
    OBVIOUS
  <2>1. CASE UNCHANGED vars \/ LoopConsume \/ WorldStep
    BY <2>1, ShrinkKeepsAnswerInv DEF vars, LoopConsume, WorldStep, DeliverSignal, BecomeReady,
        Expire, listVars, passVars
  <2>2. ASSUME NEW t \in Task, TaskNotify(t)
        PROVE  AnswerInv'
    BY <2>2, NotifyKeepsAnswerInv DEF TaskNotify, passVars
  <2>3. CASE LoopNotify
    BY <2>3, NotifyKeepsAnswerInv DEF LoopNotify, passVars
  <2>4. ASSUME NEW K, Unnotify(K), UNCHANGED <<copy, todo, loop, issued, answer>>
        PROVE  AnswerInv'
    BY <2>4, UnnotifyEffect, ShrinkKeepsAnswerInv DEF Registered
  <2>5. ASSUME NEW K, Cancel(K), UNCHANGED <<copy, todo, loop, issued, answer>>
        PROVE  AnswerInv'
    BY <2>5, CancelEffect, ShrinkKeepsAnswerInv
  <2>6. ASSUME NEW t \in Task, TaskUnnotify(t) \/ TaskCancel(t) \/ TaskOtherHalf(t)
        PROVE  AnswerInv'
    BY <2>4, <2>5, <2>6 DEF TaskUnnotify, TaskCancel, TaskOtherHalf, passVars
  <2>7. CASE LoopUnnotify \/ LoopCancel
    BY <2>4, <2>5, <2>7 DEF LoopUnnotify, LoopCancel, passVars
  <2>8. CASE HandleIo
    <3>1. PICK k \in Key : /\ IsNext(k)
                           /\ ec' = IF copy[k].cancelled THEN "Cancelled" ELSE ec
                           /\ Answer(k, ec')
      BY <2>8 DEF HandleIo
    <3>2. ec' \in {"ok", "Cancelled", "Timeout"} /\ k \in todo
      BY <3>1 DEF TypeOK, IsNext
    <3>3. QED
      BY <2>8, <3>1, <3>2, AnswerKeepsAnswerInv DEF HandleIo, LoopGoto
  <2>9. CASE HandleTimeout
    BY <2>9, AnswerKeepsAnswerInv DEF HandleTimeout, IsNext, LoopGoto
  <2>10. QED
    BY <2>1, <2>2, <2>3, <2>6, <2>7, <2>8, <2>9, SelectKeepsAnswerInv, CopyListKeepsAnswerInv,
       MoveKeepsAnswerInv DEF Next, TaskStep, UserStep, PassStep
<1>3. QED
  BY <1>1, <1>2, PollTypes, PTL DEF Spec

(* No callback runs twice. *)
THEOREM NeverAnsweredTwice == Spec => []AnsweredAtMostOnce
<1>1. AnswerInv => AnsweredAtMostOnce
  BY DEF AnswerInv
<1>2. QED
  BY <1>1, AnswerInvariant, PTL

-----------------------------------------------------------------------------
(* A call that changes the list leaves a signal behind. *)
LEMMA CallsSignal ==
  ASSUME TypeOK,
         \/ \E t \in Task : TaskStep(t)
         \/ LoopNotify \/ LoopUnnotify \/ LoopCancel
  PROVE  /\ poll_list' = poll_list \/ wake' # "none"
         /\ wake # "none" => wake' # "none"
         /\ UNCHANGED <<copy, todo, loop>>
<1>1. ASSUME NEW k \in Key, NEW timed \in BOOLEAN, Notify(k, timed)
      PROVE  wake' # "none"
  BY <1>1, NotifyEffect
<1>2. ASSUME NEW K, Unnotify(K) \/ Cancel(K)
      PROVE  /\ poll_list' = poll_list \/ wake' # "none"
             /\ wake # "none" => wake' # "none"
  BY <1>2, UnnotifyEffect, CancelEffect
<1>3. QED
  BY <1>1, <1>2 DEF TaskStep, TaskNotify, TaskUnnotify, TaskCancel, TaskOtherHalf, LoopNotify,
      LoopUnnotify, LoopCancel, passVars

(* The list that select watches is never out of date without a signal. *)
THEOREM NeverWaitsOnStaleList == Spec => []SelectSeesList
<1>1. Init => SelectSeesList
  BY DEF Init, SelectSeesList
<1>2. TypeOK /\ SelectSeesList /\ [Next]_vars => SelectSeesList'
  <2> SUFFICES ASSUME TypeOK, SelectSeesList, [Next]_vars, loop' = "select", wake' = "none"
               PROVE  copy' = poll_list'
    BY DEF SelectSeesList
  <2>1. CASE UNCHANGED vars
    BY <2>1 DEF vars, listVars, passVars, SelectSeesList
  <2>2. CASE (\E t \in Task : TaskStep(t)) \/ LoopNotify \/ LoopUnnotify \/ LoopCancel
    BY <2>2, CallsSignal DEF SelectSeesList
  <2>3. CASE LoopConsume \/ WorldStep
    BY <2>3 DEF LoopConsume, WorldStep, DeliverSignal, WakeDeliver, BecomeReady, Expire, listVars,
        passVars, SelectSeesList
  <2>4. CASE CopyList
    BY <2>4 DEF CopyList, listVars
  <2>5. CASE SelectReturns \/ SelectTimeout \/ SelectFails \/ (PassStep /\ ~CopyList)
    BY <2>5 DEF SelectReturns, SelectTimeout, SelectFails, PassStep, ConfirmQueue, QueueDone,
        HandleIo, IoCallbackDone, IoDone, HandleTimeout, TimeoutCallbackDone, TimeoutDone,
        TimersDone, LoopGoto
  <2>6. QED
    BY <2>1, <2>2, <2>3, <2>4, <2>5 DEF Next, UserStep, PassStep
<1>3. QED
  BY <1>1, <1>2, PollTypes, PTL DEF Spec

-----------------------------------------------------------------------------
(* Without cancels from other tasks. *)

(* The only calls that mark an entry are the loop's. *)
LEMMA OnlyLoopCancels ==
  ASSUME "cancel" \notin TaskCalls, TypeOK, CancelInv,
         (\E t \in Task : TaskStep(t)) \/ LoopNotify \/ LoopUnnotify
  PROVE  /\ \A t \in Task, fd \in Fd : half'[t] # <<"cancel", fd>>
         /\ \A j \in Key : Cancelled(poll_list', j) => Cancelled(poll_list, j)
<1>1. ASSUME NEW k \in Key, NEW timed \in BOOLEAN, Notify(k, timed)
      PROVE  \A j \in Key : Cancelled(poll_list', j) => Cancelled(poll_list, j)
  BY <1>1, NotifyEffect DEF Cancelled, Registered
<1>2. ASSUME NEW K, Unnotify(K)
      PROVE  \A j \in Key : Cancelled(poll_list', j) => Cancelled(poll_list, j)
  BY <1>2, UnnotifyEffect DEF Cancelled, Registered
<1>3. ASSUME NEW t \in Task, TaskStep(t)
      PROVE  /\ ~TaskCancel(t)
             /\ \A fd \in Fd : half[t] # <<"cancel", fd>>
             /\ \A u \in Task : half'[u] = half[u] \/ half'[u] = <<>>
                                  \/ \E fd \in Fd : half'[u] = <<"unnotify", fd>>
  BY <1>3 DEF TaskStep, TaskNotify, TaskUnnotify, TaskCancel, TaskOtherHalf, CancelInv, TypeOK
<1>4. \A fd, fe \in Fd : <<"unnotify", fd>> # <<"cancel", fe>> /\ <<>> # <<"cancel", fe>>
  OBVIOUS
<1>5. \A t \in Task, fd \in Fd : half'[t] # <<"cancel", fd>>
  <2>1. CASE \E t \in Task : TaskStep(t)
    BY <2>1, <1>3, <1>4 DEF CancelInv
  <2>2. CASE LoopNotify \/ LoopUnnotify
    BY <2>2 DEF LoopNotify, LoopUnnotify, CancelInv
  <2>3. QED
    BY <2>1, <2>2
<1>6. \A j \in Key : Cancelled(poll_list', j) => Cancelled(poll_list, j)
  BY <1>1, <1>2, <1>3 DEF TaskStep, TaskNotify, TaskUnnotify, TaskOtherHalf, LoopNotify,
      LoopUnnotify
<1>7. QED
  BY <1>5, <1>6

(* A cancel made by the loop's functions and callbacks is not overlooked.  *)
THEOREM CancelInvariant ==
  ASSUME "cancel" \notin TaskCalls
  PROVE  Spec => []CancelInv
<1>1. Init => CancelInv
  BY DEF Init, CancelInv, CancelledAnnounced, Cancelled, Registered, NoEntries
<1>2. TypeOK /\ CancelInv /\ [Next]_vars => CancelInv'
  <2> SUFFICES ASSUME TypeOK, CancelInv, [Next]_vars
               PROVE  CancelInv'
    OBVIOUS
  <2>1. CASE UNCHANGED vars \/ LoopConsume \/ WorldStep
    BY <2>1 DEF vars, LoopConsume, WorldStep, DeliverSignal, WakeDeliver, BecomeReady, Expire,
        listVars, passVars, CancelInv, CancelledAnnounced
  <2>2. CASE (\E t \in Task : TaskStep(t)) \/ LoopNotify \/ LoopUnnotify
    BY <2>2, OnlyLoopCancels, CallsSignal DEF CancelInv, CancelledAnnounced
  <2>3. CASE LoopCancel
    <3>1. PICK fd \in Fd : Cancel(Both(fd))
      BY <2>3 DEF LoopCancel
    <3>2. poll_list' = poll_list \/ wake' # "none"
      BY <3>1, CancelEffect
    <3>3. wake # "none" => wake' # "none"
      BY <3>1, CancelEffect
    <3>4. loop \notin {"select", "confirm"} /\ UNCHANGED <<copy, todo, loop, half>>
      BY <2>3 DEF LoopCancel, InUserCode, passVars
    <3>5. QED
      BY <3>2, <3>3, <3>4 DEF CancelInv, CancelledAnnounced
  <2>4. CASE CopyList
    BY <2>4 DEF CopyList, LoopGoto, listVars, CancelInv, CancelledAnnounced
  <2>5. CASE SelectReturns
    <3>1. \A k \in Key : Cancelled(copy, k) => k \in todo'
      BY <2>5 DEF SelectReturns, Answerable
    <3>2. QED
      BY <2>5, <3>1 DEF SelectReturns, listVars, CancelInv, CancelledAnnounced
  <2>6. CASE SelectTimeout \/ SelectFails
    BY <2>6 DEF SelectTimeout, SelectFails, LoopGoto, listVars, CancelInv, CancelledAnnounced
  <2>7. CASE HandleIo \/ HandleTimeout
    <3>1. PICK k \in Key : Unnotify({k}) /\ todo' = todo \ {k}
      BY <2>7 DEF HandleIo, HandleTimeout, Answer
    <3>2. \A j \in Key : Cancelled(poll_list', j) => j # k /\ Cancelled(poll_list, j)
      BY <3>1, UnnotifyEffect DEF Cancelled, Registered
    <3>3. wake # "none" => wake' # "none"
      BY <3>1, UnnotifyEffect
    <3>4. /\ loop' \in {"io_callback", "timeout_callback"}
          /\ loop' = "io_callback" <=> loop = "io"
          /\ loop \in {"io", "timeout"}
          /\ UNCHANGED <<copy, half>>
      BY <2>7 DEF HandleIo, HandleTimeout, LoopGoto
    <3>5. QED
      BY <3>1, <3>2, <3>3, <3>4 DEF CancelInv, CancelledAnnounced
  <2>8. CASE ConfirmQueue \/ QueueDone \/ IoCallbackDone \/ IoDone
             \/ TimeoutCallbackDone \/ TimeoutDone \/ TimersDone
    BY <2>8 DEF ConfirmQueue, WakeConfirm, QueueDone, IoCallbackDone, IoDone, TimeoutCallbackDone,
        TimeoutDone, TimersDone, LoopGoto, listVars, passVars, CancelInv, CancelledAnnounced
  <2>9. QED
    BY <2>1, <2>2, <2>3, <2>4, <2>5, <2>6, <2>7, <2>8 DEF Next, UserStep, PassStep
<1>3. QED
  BY <1>1, <1>2, PollTypes, PTL DEF Spec

(* The loop does not sleep on a cancelled registration.                    *)
THEOREM CancelEndsSelect ==
  ASSUME "cancel" \notin TaskCalls
  PROVE  Spec => []CancelledAnnounced
<1>1. CancelInv => CancelledAnnounced
  BY DEF CancelInv
<1>2. QED
  BY <1>1, CancelInvariant, PTL

-----------------------------------------------------------------------------
(* Without unnotify, and with no key registered twice. *)

(* The calls then only add entries, or mark them. *)
LEMMA CallsKeep ==
  ASSUME "unnotify" \notin LoopCalls \union TaskCalls, ~Replaces, TypeOK, KeepInv,
         \/ \E t \in Task : TaskStep(t)
         \/ LoopNotify \/ LoopUnnotify \/ LoopCancel
  PROVE  /\ \A t \in Task, fd \in Fd : half'[t] # <<"unnotify", fd>>
         /\ \A j \in Key : Registered(poll_list, j) => poll_list'[j].reg = poll_list[j].reg
         /\ issued' = issued \/ (issued' = issued + 1 /\ \E j \in Key : poll_list'[j].reg = issued')
<1>1. ASSUME NEW k \in Key, NEW timed \in BOOLEAN, Notify(k, timed)
      PROVE  /\ \A j \in Key : Registered(poll_list, j) => poll_list'[j].reg = poll_list[j].reg
             /\ issued' = issued + 1 /\ \E j \in Key : poll_list'[j].reg = issued'
  <2>1. ~Registered(poll_list, k) /\ \A j \in Key : j # k => poll_list'[j] = poll_list[j]
    BY <1>1, NotifyEffect
  <2>2. issued' = issued + 1 /\ poll_list'[k].reg = issued'
    BY <1>1, NotifyEffect
  <2>3. QED
    BY <2>1, <2>2
<1>2. ASSUME NEW K, Cancel(K)
      PROVE  \A j \in Key : Registered(poll_list, j) => poll_list'[j].reg = poll_list[j].reg
  BY <1>2, CancelEffect
<1>3. ASSUME NEW t \in Task, TaskStep(t)
      PROVE  /\ ~TaskUnnotify(t)
             /\ \A fd \in Fd : half[t] # <<"unnotify", fd>>
             /\ \A u \in Task : half'[u] = half[u] \/ half'[u] = <<>>
                                  \/ \E fd \in Fd : half'[u] = <<"cancel", fd>>
  BY <1>3 DEF TaskStep, TaskNotify, TaskUnnotify, TaskCancel, TaskOtherHalf, KeepInv, TypeOK
<1>4. \A fd, fe \in Fd : <<"cancel", fd>> # <<"unnotify", fe>> /\ <<>> # <<"unnotify", fe>>
  OBVIOUS
<1>5. \A t \in Task, fd \in Fd : half'[t] # <<"unnotify", fd>>
  <2>1. CASE \E t \in Task : TaskStep(t)
    BY <2>1, <1>3, <1>4 DEF KeepInv
  <2>2. CASE LoopNotify \/ LoopCancel \/ LoopUnnotify
    BY <2>2 DEF LoopNotify, LoopCancel, LoopUnnotify, KeepInv
  <2>3. QED
    BY <2>1, <2>2
<1>6. QED
  BY <1>1, <1>2, <1>3, <1>5 DEF TaskStep, TaskNotify, TaskCancel, TaskOtherHalf, LoopNotify,
      LoopUnnotify, LoopCancel

(* A step that keeps the entries and answers nothing loses no registration.*)
LEMMA KeepingKeepsKeepInv ==
  ASSUME TypeOK, KeepInv, AnswerInv,
         \A t \in Task, fd \in Fd : half'[t] # <<"unnotify", fd>>,
         \A j \in Key : Registered(poll_list, j) => poll_list'[j].reg = poll_list[j].reg,
         issued' = issued \/ (issued' = issued + 1 /\ \E j \in Key : poll_list'[j].reg = issued'),
         UNCHANGED <<copy, todo, loop, answer>>
  PROVE  KeepInv'
<1>1. \A j \in Key : Registered(copy, j) => copy[j].reg # 0
  BY Data DEF TypeOK, Registered
<1>2. \A j \in Key : poll_list[j].reg # 0 => Registered(poll_list, j)
  BY DEF Registered, None
<1>3. \A j \in todo : Registered(copy, j) /\ j \in Key
  BY DEF AnswerInv, TypeOK
<1>4. (\A k \in todo : poll_list[k].reg = copy[k].reg)'
  BY <1>1, <1>2, <1>3 DEF KeepInv
<1>5. (loop = "select" => \A k \in Key : Registered(copy, k) => poll_list[k].reg = copy[k].reg)'
  BY <1>1, <1>2 DEF KeepInv, Registered
<1>6. \A r \in 1..issued : InList(r)' \/ Answered(r)
  BY <1>2 DEF KeepInv, InList
<1>7. (\A r \in 1..issued : InList(r) \/ Answered(r))'
  <2> SUFFICES ASSUME NEW r \in 1..issued'
               PROVE  InList(r)' \/ Answered(r)
    BY DEF Answered
  <2>1. CASE r \in 1..issued
    BY <2>1, <1>6
  <2>2. CASE r \notin 1..issued
    <3>1. r = issued'
      BY <2>2 DEF TypeOK
    <3>2. \E j \in Key : poll_list'[j].reg = issued'
      BY <2>2
    <3>3. QED
      BY <3>1, <3>2 DEF InList
  <2>3. QED
    BY <2>1, <2>2
<1>8. QED
  BY <1>4, <1>5, <1>7 DEF KeepInv

(* A callback is called for the very entry that leaves the list. *)
LEMMA AnsweringKeepsKeepInv ==
  ASSUME TypeOK, KeepInv, AnswerInv, NEW k \in todo, NEW code \in {"ok", "Cancelled", "Timeout"},
         Answer(k, code), UNCHANGED <<copy, half, issued>>, loop' # "select"
  PROVE  KeepInv'
<1>1. k \in Key /\ Registered(copy, k) /\ copy[k].reg \in Reg /\ poll_list[k].reg = copy[k].reg
  BY Data DEF TypeOK, AnswerInv, KeepInv, Registered, Reg
<1>2. Unnotify({k}) /\ todo' = todo \ {k}
  BY <1>1, AnswerEffect
<1>3. \A r \in Reg : Answered(r) => Answered(r)'
  BY <1>1, AnswerEffect DEF Answered
<1>4. Answered(copy[k].reg)'
  BY <1>1, AnswerEffect DEF Answered
<1>5. \A j \in Key : j # k => poll_list'[j] = poll_list[j]
  BY <1>2, UnnotifyEffect
<1>6. (\A j \in todo : poll_list[j].reg = copy[j].reg)'
  BY <1>2, <1>5 DEF KeepInv, TypeOK
<1>7. (\A r \in 1..issued : InList(r) \/ Answered(r))'
  <2> SUFFICES ASSUME NEW r \in 1..issued
               PROVE  InList(r)' \/ Answered(r)'
    OBVIOUS
  <2>1. r \in Reg
    BY Data DEF TypeOK, Reg
  <2>2. CASE Answered(r)
    BY <2>1, <2>2, <1>3
  <2>3. CASE InList(r)
    <3>1. PICK j \in Key : poll_list[j].reg = r
      BY <2>3 DEF InList
    <3>2. CASE j = k
      BY <3>1, <3>2, <1>1, <1>4
    <3>3. CASE j # k
      BY <3>1, <3>3, <1>5 DEF InList
    <3>4. QED
      BY <3>2, <3>3
  <2>4. QED
    BY <2>2, <2>3 DEF KeepInv
<1>8. QED
  BY <1>6, <1>7 DEF KeepInv

(* No registration gets lost. *)
THEOREM KeepInvariant ==
  ASSUME "unnotify" \notin LoopCalls \union TaskCalls, ~Replaces
  PROVE  Spec => []KeepInv
<1>1. Init => KeepInv
  BY DEF Init, KeepInv
<1>2. TypeOK /\ AnswerInv /\ KeepInv /\ [Next]_vars => KeepInv'
  <2> SUFFICES ASSUME TypeOK, AnswerInv, KeepInv, [Next]_vars
               PROVE  KeepInv'
    OBVIOUS
  <2>1. CASE UNCHANGED vars \/ LoopConsume \/ WorldStep
    BY <2>1, KeepingKeepsKeepInv DEF vars, LoopConsume, WorldStep, DeliverSignal, BecomeReady,
        Expire, listVars, passVars, KeepInv
  <2>2. CASE (\E t \in Task : TaskStep(t)) \/ LoopNotify \/ LoopUnnotify \/ LoopCancel
    <3>1. UNCHANGED <<copy, todo, loop, answer>>
      BY <2>2 DEF TaskStep, TaskNotify, TaskUnnotify, TaskCancel, TaskOtherHalf, LoopNotify,
          LoopUnnotify, LoopCancel, passVars
    <3>2. QED
      BY <2>2, <3>1, CallsKeep, KeepingKeepsKeepInv
  <2>3. CASE CopyList
    BY <2>3 DEF CopyList, LoopGoto, listVars, AnswerInv, KeepInv, InList, Answered
  <2>4. CASE SelectReturns \/ SelectTimeout
    <3>1. /\ todo' \subseteq {k \in Key : Registered(copy, k)}
          /\ loop = "select" /\ loop' \in {"confirm", "io", "timeout"}
          /\ UNCHANGED <<poll_list, copy, half, issued, answer>>
      BY <2>4 DEF SelectReturns, SelectTimeout, LoopGoto, Answerable, Ready, Interest, Overdue,
          Cancelled, Timed, Registered, listVars
    <3>2. QED
      BY <3>1 DEF KeepInv, InList, Answered
  <2>5. CASE HandleIo
    <3>1. PICK k \in Key : /\ IsNext(k)
                           /\ ec' = IF copy[k].cancelled THEN "Cancelled" ELSE ec
                           /\ Answer(k, ec')
      BY <2>5 DEF HandleIo
    <3>2. ec' \in {"ok", "Cancelled", "Timeout"} /\ k \in todo
      BY <3>1 DEF TypeOK, IsNext
    <3>3. QED
      BY <2>5, <3>1, <3>2, AnsweringKeepsKeepInv DEF HandleIo, LoopGoto
  <2>6. CASE HandleTimeout
    BY <2>6, AnsweringKeepsKeepInv DEF HandleTimeout, IsNext, LoopGoto
  <2>7. CASE SelectFails \/ ConfirmQueue \/ QueueDone \/ IoCallbackDone \/ IoDone
             \/ TimeoutCallbackDone \/ TimeoutDone \/ TimersDone
    <3>1. /\ loop' # "select"
          /\ todo' = todo
          /\ copy' = copy \/ todo = {}
          /\ UNCHANGED <<poll_list, half, issued, answer>>
      BY <2>7 DEF SelectFails, ConfirmQueue, QueueDone, IoCallbackDone, IoDone, TimeoutCallbackDone,
          TimeoutDone, TimersDone, LoopGoto, listVars, passVars, AnswerInv
    <3>2. QED
      BY <3>1 DEF KeepInv, InList, Answered
  <2>8. QED
    BY <2>1, <2>2, <2>3, <2>4, <2>5, <2>6, <2>7 DEF Next, UserStep, PassStep
<1>3. QED
  BY <1>1, <1>2, PollTypes, AnswerInvariant, PTL DEF Spec

(* Every registration is in the list, or its callback was called, once. *)
THEOREM EveryRegistrationAccounted ==
  ASSUME "unnotify" \notin LoopCalls \union TaskCalls, ~Replaces
  PROVE  Spec => []Accounted
<1>1. TypeOK /\ AnswerInv /\ KeepInv => Accounted
  <2> SUFFICES ASSUME TypeOK, AnswerInv, KeepInv, NEW r \in Reg
               PROVE  Len(answer[r]) + (IF InList(r) THEN 1 ELSE 0) = IF r <= issued THEN 1 ELSE 0
    BY DEF Accounted
  <2>1. /\ answer[r] \in Seq({"ok", "Cancelled", "Timeout"}) /\ r \in Nat /\ r # 0
        /\ issued \in Nat
    BY Data DEF TypeOK, Reg
  <2>2. /\ Len(answer[r]) \in Nat /\ Len(answer[r]) <= 1
        /\ Len(answer[r]) = 0 <=> answer[r] = <<>>
    BY <2>1, LenProperties, EmptySeq DEF AnswerInv, AnsweredAtMostOnce
  <2>3. InList(r) => r <= issued /\ answer[r] = <<>>
    <3> SUFFICES ASSUME NEW k \in Key, poll_list[k].reg = r
                 PROVE  r <= issued /\ answer[r] = <<>>
      BY DEF InList
    <3>1. Registered(poll_list, k)
      BY <2>1 DEF Registered, None
    <3>2. QED
      BY <3>1 DEF AnswerInv, Unanswered
  <2>4. r <= issued => InList(r) \/ answer[r] # <<>>
    BY <2>1 DEF KeepInv, Answered
  <2>5. ~(r <= issued) => answer[r] = <<>>
    BY <2>1 DEF AnswerInv
  <2> DEFINE times == Len(answer[r])
             listed == IF InList(r) THEN 1 ELSE 0
             due == IF r <= issued THEN 1 ELSE 0
  <2>6. times = IF answer[r] = <<>> THEN 0 ELSE 1
    BY <2>2
  <2>7. CASE InList(r)
    <3>1. times = 0 /\ listed = 1 /\ due = 1
      BY <2>7, <2>3, <2>6
    <3>2. QED
      BY <3>1
  <2>8. CASE ~InList(r) /\ r <= issued
    <3>1. times = 1 /\ listed = 0 /\ due = 1
      BY <2>8, <2>4, <2>6
    <3>2. QED
      BY <3>1
  <2>9. CASE ~InList(r) /\ ~(r <= issued)
    <3>1. times = 0 /\ listed = 0 /\ due = 0
      BY <2>9, <2>5, <2>6
    <3>2. QED
      BY <3>1
  <2>10. QED
    BY <2>7, <2>8, <2>9
<1>2. QED
  BY <1>1, PollTypes, AnswerInvariant, KeepInvariant, PTL

=============================================================================
