---------------------------- MODULE TimersProofs ----------------------------
(***************************************************************************)
(* Proofs about Timers, for any durations and periods, any number of       *)
(* timers and any length of time: timers do not drift, the loop does not   *)
(* sleep past the first of them, and callbacks run in the order in which   *)
(* they are due.                                                           *)
(***************************************************************************)
EXTENDS Timers, SequenceTheorems, FiniteSetTheorems, TLAPS

(* Cutting to milliseconds makes a wait shorter, never longer.             *)
LEMMA CutIsShorter ==
  ASSUME NEW x \in Nat, NEW m \in Nat \ {0}
  PROVE  x \div m \in Nat /\ (x \div m) * m <= x
BY SMT

LEMMA MoreIsLonger ==
  ASSUME NEW a \in Nat, NEW b \in Nat, NEW m \in Nat, a <= b
  PROVE  a * m <= b * m /\ a * m \in Nat
BY SMT

LEMMA OneMore ==
  ASSUME NEW f \in Nat, NEW n \in Nat, NEW p \in Nat
  PROVE  f + n * p + p = f + (n + 1) * p /\ n * p \in Nat
BY SMT

(* The timers that run. *)
LEMMA TimerTypes ==
  ASSUME TypeOK
  PROVE  /\ Ms \in Nat \ {0}
         /\ \A i \in Id : Live(i) => timers[i].expire \in Nat /\ timers[i].period \in Nat
         /\ \A e \in Nat, p \in Nat : [expire |-> e, period |-> p] # None
BY TimersAssumption DEF TypeOK, Live, None

(* The timeout computed from the first timer. *)
LEMMA WaitTypes ==
  ASSUME TypeOK, NEW i \in Id, Live(i)
  PROVE  /\ FirstWait(i) \in Int
         /\ FirstWait(i) >= 0 =>
              now + FirstWait(i) * Ms <= timers[i].expire \/ FirstWait(i) = 0
         /\ FirstWait(i) < 0 => Overdue(i)
<1> DEFINE x == timers[i].expire - now
<1>1. x \in Int /\ Ms \in Nat \ {0} /\ now \in Nat /\ timers[i].expire \in Nat
  BY TimerTypes DEF TypeOK
<1>2. FirstWait(i) = InMs(x)
  BY DEF FirstWait
<1>3. CASE x >= 0
  <2>1. InMs(x) = x \div Ms
    BY <1>3 DEF InMs
  <2>2. x \div Ms \in Nat /\ (x \div Ms) * Ms <= x
    <3>1. x \in Nat
      BY <1>1, <1>3
    <3> HIDE DEF x
    <3>2. QED
      BY <3>1, <1>1, CutIsShorter
  <2> DEFINE d == x \div Ms
             dm == d * Ms
  <2>3. dm \in Int
    BY <1>1, <2>2
  <2>4. now + dm <= timers[i].expire
    <3>1. dm <= x
      BY <2>2
    <3>2. QED
      BY <3>1, <2>3, <1>1
  <2>5. QED
    BY <1>2, <2>1, <2>2, <2>4
<1>4. CASE x < 0
  <2>1. InMs(x) = -((-x) \div Ms)
    BY <1>1, <1>4 DEF InMs
  <2>2. (-x) \div Ms \in Nat /\ ((-x) \div Ms) * Ms <= -x
    <3> DEFINE y == -x
    <3>1. y \in Nat
      BY <1>1, <1>4
    <3> HIDE DEF y
    <3>2. y \div Ms \in Nat /\ (y \div Ms) * Ms <= y
      BY <3>1, <1>1, CutIsShorter
    <3>3. QED
      BY <3>2 DEF y
  <2>3. FirstWait(i) < 0 => Overdue(i)
    <3> DEFINE q == (-x) \div Ms
    <3>1. SUFFICES ASSUME FirstWait(i) < 0
                   PROVE  Overdue(i)
      OBVIOUS
    <3>2. q \in Nat /\ 1 <= q /\ q * Ms <= -x
      BY <3>1, <1>2, <2>1, <2>2
    <3> HIDE DEF q
    <3>3. 1 * Ms <= q * Ms /\ q * Ms \in Nat
      BY <3>2, <1>1, MoreIsLonger
    <3>4. now - timers[i].expire >= Ms
      BY <3>2, <3>3, <1>1
    <3>5. QED
      BY <3>4 DEF Overdue
  <2>4. QED
    BY <1>2, <2>1, <2>2, <2>3
<1>5. QED
  BY <1>1, <1>3, <1>4

(* select's timeout is a time, or none. *)
LEMMA SleepTypes ==
  ASSUME TypeOK, NEW ms \in Int
  PROVE  SleepUntil(ms) \subseteq Nat \union {Forever}
<1>1. CASE ms >= 0
  <2>1. ms * Ms \in Nat
    BY <1>1, MoreIsLonger, TimersAssumption
  <2>2. QED
    BY <1>1, <2>1 DEF SleepUntil, TypeOK
<1>2. CASE ~(ms >= 0)
  BY <1>2 DEF SleepUntil, TypeOK
<1>3. QED
  BY <1>1, <1>2

LEMMA ArmTypes ==
  ASSUME TypeOK, Arm
  PROVE  wake_at' \in Nat \union {Forever}
<1>1. ASSUME NEW i \in Id, IsFirst(i)
      PROVE  SleepUntil(FirstWait(i)) \subseteq Nat \union {Forever}
  BY <1>1, WaitTypes, SleepTypes DEF IsFirst
<1>2. ASSUME NEW p \in PollWait
      PROVE  p \in Int
  BY TimersAssumption
<1>3. ASSUME NEW p \in PollWait, NEW i \in Id, IsFirst(i)
      PROVE  Shorter(p, i) \in Int
  BY <1>2, <1>3, WaitTypes DEF IsFirst, Shorter
<1>4. QED
  BY <1>1, <1>2, <1>3, SleepTypes DEF Arm

(* A timer that was added. *)
LEMMA AddTypes ==
  ASSUME TypeOK, NEW e \in Nat, NEW p \in Nat, Add(e, p)
  PROVE  TypeOK'
<1>1. next_id \in Id /\ next_id + 1 \in 1..MaxTimer + 1
  BY TimersAssumption DEF TypeOK, Add, Id
<1>2. timers' \in [Id -> [expire : Nat, period : Nat] \union {None}]
  BY DEF TypeOK, Add
<1>3. WakeTypeOK'
  BY DEF TypeOK, Add, WakeTypeOK, WakeSignal
<1>4. first_due' \in [Id -> Nat]
  BY DEF TypeOK, Add
<1>5. QED
  BY <1>1, <1>2, <1>3, <1>4 DEF TypeOK, Add

LEMMA AddCases ==
  ASSUME TypeOK, AddTimer \/ AddPeriodicTimer
  PROVE  \E e \in Nat, p \in Nat : Add(e, p)
<1>1. ASSUME NEW d \in Nat
      PROVE  now + d * Ms \in Nat /\ d * Ms \in Nat
  <2>1. d * Ms \in Nat
    BY MoreIsLonger, TimersAssumption
  <2>2. QED
    BY <2>1 DEF TypeOK
<1>2. Duration \subseteq Nat /\ Period \subseteq Nat /\ OneShot \in Nat
  BY TimersAssumption DEF OneShot
<1>3. QED
  BY <1>1, <1>2 DEF AddTimer, AddPeriodicTimer

(* The types. *)
THEOREM TimersTypes == Spec => []TypeOK
<1>1. Init => TypeOK
  BY TimersAssumption, EmptySeq DEF Init, TypeOK, WakeInit, WakeTypeOK
<1>2. TypeOK /\ [Next]_vars => TypeOK'
  <2> SUFFICES ASSUME TypeOK, [Next]_vars
               PROVE  TypeOK'
    OBVIOUS
  <2>1. CASE AddTimer \/ AddPeriodicTimer
    BY <2>1, AddCases, AddTypes
  <2>2. ASSUME NEW i \in Id, CancelTimer(i)
        PROVE  TypeOK'
    BY <2>2 DEF CancelTimer, TypeOK, WakeTypeOK, WakeSignal
  <2>3. CASE Arm
    BY <2>3, ArmTypes DEF Arm, LoopGoto, TypeOK, WakeTypeOK, historyVars
  <2>4. CASE CollectOne
    <3>1. PICK i \in Id :
            /\ Live(i)
            /\ notify_list' = Append(notify_list, Due(i))
            /\ timers' = [timers EXCEPT ![i] = Restart(i)]
            /\ collected' = [collected EXCEPT ![i] = @ + 1]
      BY <2>4 DEF CollectOne, Collected, IsFirst
    <3>2. timers[i].expire \in Nat /\ timers[i] \in [expire : Nat, period : Nat]
      BY <3>1 DEF TypeOK, Live
    <3>3. Restart(i) \in [expire : Nat, period : Nat] \union {None}
      BY <3>2 DEF Restart
    <3>4. Due(i) \in [id : Id, due : Nat]
      BY <3>2 DEF Due
    <3>5. notify_list' \in Seq([id : Id, due : Nat])
      BY <3>1, <3>4, AppendProperties DEF TypeOK
    <3>6. collected' \in [Id -> Nat]
      BY <3>1 DEF TypeOK
    <3>7. timers' \in [Id -> [expire : Nat, period : Nat] \union {None}]
      BY <3>1, <3>3 DEF TypeOK
    <3>8. QED
      BY <2>4, <3>5, <3>6, <3>7 DEF CollectOne, TypeOK, WakeTypeOK
  <2>5. CASE Fire
    <3>1. notify_list' \in Seq([id : Id, due : Nat])
      BY <2>5, HeadTailProperties DEF Fire, TypeOK
    <3>2. called' \in [Id -> Nat]
      <4>1. PICK h : called' = [called EXCEPT ![h] = @ + 1]
        BY <2>5 DEF Fire
      <4>2. called \in [Id -> Nat]
        BY DEF TypeOK
      <4>3. CASE h \in Id
        BY <4>1, <4>2, <4>3
      <4>4. CASE h \notin Id
        <5>1. called' = called
          BY <4>1, <4>2, <4>4
        <5>2. QED
          BY <5>1, <4>2
      <4>5. QED
        BY <4>3, <4>4
    <3>3. QED
      BY <2>5, <3>1, <3>2 DEF Fire, TypeOK, WakeTypeOK
  <2>6. CASE ConfirmQueue \/ HandleTimers \/ CollectDone \/ FireDone
    BY <2>6 DEF ConfirmQueue, WakeConfirm, HandleTimers, CollectDone, FireDone, LoopGoto,
        TypeOK, WakeTypeOK, historyVars
  <2>7. CASE SelectSignal \/ SelectIo \/ SelectTimeout \/ SelectFails \/ Tick \/ DeliverSignal
             \/ UNCHANGED vars
    BY <2>7 DEF SelectSignal, SelectIo, SelectTimeout, SelectFails, Tick, DeliverSignal,
        WakeDeliver, LoopGoto, TypeOK, WakeTypeOK, historyVars, vars
  <2>8. QED
    BY <2>1, <2>2, <2>3, <2>4, <2>5, <2>6, <2>7 DEF Next, Calls, PassStep
<1>3. QED
  BY <1>1, <1>2, PTL DEF Spec

-----------------------------------------------------------------------------
(* The timeout of select is no longer than the first timer's, unless a     *)
(* negative one waits.                                                     *)
LEMMA ArmIsShort ==
  ASSUME TypeOK, Arm, NEW j \in Id, Live(j)
  PROVE  IF wake_at' = Forever THEN \E k \in Id : Overdue(k)
         ELSE wake_at' <= timers[j].expire \/ wake_at' <= now
<1>1. now \in Nat /\ timers[j].expire \in Nat /\ Ms \in Nat
  BY TimerTypes DEF TypeOK
<1>2. ASSUME NEW i \in Id, IsFirst(i)
      PROVE  Live(i) /\ timers[i].expire \in Nat /\ timers[i].expire <= timers[j].expire
  BY <1>1, <1>2, TimerTypes DEF IsFirst
<1>3. ASSUME NEW ms \in Int, NEW i \in Id, IsFirst(i), ms <= FirstWait(i) \/ ms = 0,
             ms >= 0 \/ ms = FirstWait(i), NEW w \in SleepUntil(ms)
      PROVE  IF w = Forever THEN Overdue(i) ELSE w <= timers[j].expire \/ w <= now
  <2>1. CASE ms < 0
    <3>1. Overdue(i)
      BY <1>2, <1>3, <2>1, WaitTypes
    <3>2. w = now \/ w = Forever
      BY <1>3, <2>1 DEF SleepUntil
    <3>3. QED
      BY <3>1, <3>2, <1>1 DEF Forever
  <2>2. CASE ms = 0
    <3>1. w = now
      BY <2>2, <1>1, <1>3 DEF SleepUntil
    <3>2. QED
      BY <3>1, <1>1 DEF Forever
  <2>3. CASE ms > 0
    <3>1. ms <= FirstWait(i) /\ FirstWait(i) \in Nat /\ FirstWait(i) # 0
      BY <1>2, <1>3, <2>3, WaitTypes
    <3> DEFINE a == ms * Ms
               b == FirstWait(i) * Ms
    <3>2. a <= b /\ a \in Nat /\ b \in Nat
      BY <3>1, <2>3, <1>1, MoreIsLonger
    <3>3. now + b <= timers[i].expire
      BY <1>2, <1>3, <3>1, WaitTypes
    <3>4. w = now + a
      BY <2>3, <1>3 DEF SleepUntil
    <3> HIDE DEF a, b
    <3>5. QED
      BY <3>2, <3>3, <3>4, <1>1, <1>2, <1>3 DEF Forever
  <2>4. QED
    BY <2>1, <2>2, <2>3
<1>4. ASSUME NEW i \in Id, IsFirst(i)
      PROVE  FirstWait(i) \in Int
  BY <1>2, <1>4, WaitTypes
<1>5. ASSUME NEW p \in PollWait, NEW i \in Id, IsFirst(i)
      PROVE  /\ Shorter(p, i) \in Int
             /\ Shorter(p, i) >= 0
             /\ Shorter(p, i) = 0 \/ Shorter(p, i) <= FirstWait(i)
  BY <1>4, <1>5, TimersAssumption DEF Shorter
<1>6. ~NoTimers
  BY DEF NoTimers
<1>7. PICK ms \in Int, i \in Id : /\ IsFirst(i) /\ wake_at' \in SleepUntil(ms)
                                  /\ ms <= FirstWait(i) \/ ms = 0
                                  /\ ms >= 0 \/ ms = FirstWait(i)
  BY <1>4, <1>5, <1>6 DEF Arm
<1>8. QED
  BY <1>3, <1>7

(* The loop never sleeps past the first timer, or sleeps on an overdue one.*)
THEOREM NeverOversleeps == Spec => []SleepsNoLongerThanFirst
<1>1. Init => SleepsNoLongerThanFirst
  BY DEF Init, SleepsNoLongerThanFirst
<1>2. TypeOK /\ SleepsNoLongerThanFirst /\ [Next]_vars => SleepsNoLongerThanFirst'
  <2> SUFFICES ASSUME TypeOK, SleepsNoLongerThanFirst, [Next]_vars,
                      loop' = "sleep", wake' = "none"
               PROVE  (\A i \in Id : Live(i) =>
                        IF wake_at = Forever THEN \E j \in Id : Overdue(j)
                        ELSE wake_at <= timers[i].expire \/ wake_at <= now)'
    BY DEF SleepsNoLongerThanFirst
  <2>1. CASE Arm
    BY <2>1, ArmIsShort DEF Arm, Live, Overdue
  <2>2. CASE Calls
    BY <2>2 DEF Calls, AddTimer, AddPeriodicTimer, Add, CancelTimer, WakeSignal
  <2>3. CASE Tick
    <3>1. loop = "sleep" /\ wake = "none" /\ now' = now + 1 /\ UNCHANGED <<timers, wake_at>>
      BY <2>3 DEF Tick
    <3>2. now \in Nat /\ wake_at \in Int /\ Ms \in Nat
      BY TimersAssumption DEF TypeOK, Forever
    <3>3. ASSUME NEW j \in Id, Overdue(j)
          PROVE  Overdue(j)'
      BY <3>1, <3>2, <3>3, TimerTypes DEF Overdue, Live
    <3>4. QED
      BY <3>1, <3>2, <3>3 DEF SleepsNoLongerThanFirst, Live
  <2>4. CASE DeliverSignal \/ UNCHANGED vars
    BY <2>4 DEF DeliverSignal, WakeDeliver, vars, SleepsNoLongerThanFirst, Live, Overdue
  <2>5. CASE SelectSignal \/ SelectIo \/ SelectTimeout \/ SelectFails \/ (PassStep /\ ~Arm)
    BY <2>5 DEF SelectSignal, SelectIo, SelectTimeout, SelectFails, PassStep, ConfirmQueue,
        HandleTimers, CollectOne, CollectDone, Fire, FireDone, LoopGoto
  <2>6. QED
    BY <2>1, <2>2, <2>3, <2>4, <2>5 DEF Next, PassStep
<1>3. QED
  BY <1>1, <1>2, TimersTypes, PTL DEF Spec

-----------------------------------------------------------------------------
(* Every timer keeps its schedule. *)
THEOREM NoDrift == Spec => []Schedule
<1> DEFINE OnTime(i) ==
      /\ Live(i) => timers[i].expire = first_due[i] + collected[i] * timers[i].period
      /\ Live(i) /\ timers[i].period = OneShot => collected[i] = 0
      /\ i < next_id /\ ~Live(i) /\ i \notin cancelled => collected[i] = 1
      /\ i >= next_id => collected[i] = 0 /\ ~Live(i)
    IInv == \A i \in Id : OnTime(i)
<1>1. Init => IInv
  BY DEF Init, Live, Id
<1>2. TypeOK /\ IInv /\ [Next]_vars => IInv'
  <2> SUFFICES ASSUME TypeOK, IInv, [Next]_vars, NEW j \in Id
               PROVE  OnTime(j)'
    BY DEF IInv
  <2>1. ASSUME UNCHANGED <<timers, next_id, historyVars>> \/ UNCHANGED <<timers, next_id, first_due, collected, cancelled>>
        PROVE  OnTime(j)'
    BY <2>1 DEF Live, historyVars
  <2>2. CASE AddTimer \/ AddPeriodicTimer
    <3>1. PICK e \in Nat, p \in Nat : Add(e, p)
      BY <2>2, AddCases
    <3>2. CASE j = next_id
      <4>1. collected[j] = 0 /\ collected' = collected
        BY <3>1, <3>2 DEF Add, Id
      <4>2. timers'[j] = [expire |-> e, period |-> p] /\ first_due'[j] = e /\ next_id' = next_id + 1
        BY <3>1, <3>2 DEF Add, TypeOK
      <4>3. Live(j)'
        BY <4>2, TimerTypes DEF Live
      <4>4. 0 * p = 0
        OBVIOUS
      <4>5. timers'[j].expire = first_due'[j] + collected'[j] * timers'[j].period
        BY <4>1, <4>2, <4>4
      <4>6. QED
        BY <3>2, <4>1, <4>2, <4>3, <4>5 DEF Id
    <3>3. CASE j # next_id
      <4>1. timers'[j] = timers[j] /\ first_due'[j] = first_due[j] /\ next_id' = next_id + 1
        BY <3>1, <3>3 DEF Add, TypeOK
      <4>2. UNCHANGED <<collected, cancelled>> /\ next_id \in Nat /\ j \in Nat
        BY <3>1 DEF Add, TypeOK, Id
      <4>3. j < next_id' <=> j < next_id
        BY <3>3, <4>1, <4>2
      <4>4. j >= next_id' => j >= next_id
        BY <4>1, <4>2
      <4>5. QED
        BY <4>1, <4>2, <4>3, <4>4 DEF Live
    <3>4. QED
      BY <3>2, <3>3
  <2>3. ASSUME NEW i \in Id, CancelTimer(i)
        PROVE  OnTime(j)'
    <3>1. timers'[j] = IF j = i THEN None ELSE timers[j]
      BY <2>3 DEF CancelTimer, TypeOK
    <3>2. /\ UNCHANGED <<next_id, first_due, collected>>
          /\ cancelled' = IF Live(i) THEN cancelled \union {i} ELSE cancelled
      BY <2>3 DEF CancelTimer
    <3>3. QED
      BY <3>1, <3>2 DEF Live
  <2>4. CASE CollectOne
    <3>1. PICK i \in Id :
            /\ Live(i)
            /\ timers' = [timers EXCEPT ![i] = Restart(i)]
            /\ collected' = [collected EXCEPT ![i] = @ + 1]
      BY <2>4 DEF CollectOne, IsFirst
    <3>2. UNCHANGED <<next_id, first_due, cancelled>>
      BY <2>4 DEF CollectOne
    <3>3. CASE j # i
      <4>1. timers'[j] = timers[j] /\ collected'[j] = collected[j]
        BY <3>1, <3>3 DEF TypeOK
      <4>2. QED
        BY <3>2, <4>1 DEF Live
    <3>4. CASE j = i /\ timers[i].period = OneShot
      <4>1. timers'[j] = None /\ collected'[j] = collected[j] + 1
        BY <3>1, <3>4 DEF TypeOK, Restart
      <4>2. collected[j] = 0 /\ j < next_id
        BY <3>1, <3>4 DEF TypeOK, Id
      <4>3. QED
        BY <3>2, <4>1, <4>2 DEF Live, TypeOK, Id
    <3>5. CASE j = i /\ timers[i].period # OneShot
      <4> DEFINE f == first_due[i]
                 n == collected[i]
                 p == timers[i].period
      <4>1. f \in Nat /\ n \in Nat /\ p \in Nat /\ timers[i].expire = f + n * p
        BY <3>1, TimerTypes DEF TypeOK
      <4>2. timers[i] \in [expire : Nat, period : Nat]
        BY <3>1 DEF TypeOK, Live
      <4>3. Restart(i) \in [expire : Nat, period : Nat] /\ Restart(i).expire = timers[i].expire + p
            /\ Restart(i).period = p
        BY <3>5, <4>2 DEF Restart
      <4>4. timers'[j] = Restart(i) /\ collected'[j] = n + 1 /\ first_due'[j] = f
        BY <3>1, <3>2, <3>5 DEF TypeOK
      <4>5. timers'[j].expire = f + (n + 1) * p
        BY <4>1, <4>3, <4>4, OneMore
      <4>6. Live(j)' /\ timers'[j].period = p /\ p # OneShot
        BY <3>5, <4>3, <4>4 DEF Live, None
      <4>7. j < next_id
        BY <3>1, <3>5 DEF TypeOK, Id
      <4>8. QED
        BY <3>2, <4>4, <4>5, <4>6, <4>7 DEF TypeOK, Id
    <3>6. QED
      BY <3>3, <3>4, <3>5
  <2>5. CASE Fire
    BY <2>1, <2>5 DEF Fire
  <2>6. CASE \/ Arm \/ ConfirmQueue \/ HandleTimers \/ CollectDone \/ FireDone
             \/ SelectSignal \/ SelectIo \/ SelectTimeout \/ SelectFails
             \/ Tick \/ DeliverSignal \/ UNCHANGED vars
    BY <2>1, <2>6 DEF Arm, ConfirmQueue, HandleTimers, CollectDone, FireDone, SelectSignal,
        SelectIo, SelectTimeout, SelectFails, Tick, DeliverSignal, vars
  <2>7. QED
    BY <2>2, <2>3, <2>4, <2>5, <2>6 DEF Next, Calls, PassStep
<1>3. IInv => Schedule
  BY DEF Schedule
<1>4. QED
  BY <1>1, <1>2, <1>3, TimersTypes, PTL DEF Spec

-----------------------------------------------------------------------------
(* How often a timer is among those that are due. *)
Places(q, i) == {k \in 1..Len(q) : q[k].id = i}
Count(q, i) == Cardinality(Places(q, i))

LEMMA PlacesFinite ==
  ASSUME NEW q, Len(q) \in Nat, NEW i
  PROVE  IsFiniteSet(Places(q, i)) /\ Count(q, i) \in Nat
<1>1. IsFiniteSet(1..Len(q)) /\ Places(q, i) \in SUBSET (1..Len(q))
  BY FS_Interval DEF Places
<1>2. IsFiniteSet(Places(q, i))
  BY <1>1, FS_Subset
<1>3. QED
  BY <1>2, FS_CardinalityType DEF Count

LEMMA CountAppend ==
  ASSUME NEW S, NEW q \in Seq(S), NEW e \in S, NEW i
  PROVE  Count(Append(q, e), i) = IF e.id = i THEN Count(q, i) + 1 ELSE Count(q, i)
<1> DEFINE n == Len(q)
           r == Append(q, e)
<1>1. /\ n \in Nat /\ Len(r) = n + 1 /\ r[n + 1] = e
      /\ \A k \in 1..n : r[k] = q[k]
  BY AppendProperties, LenProperties
<1> HIDE DEF n, r
<1>2. Places(r, i) = IF e.id = i THEN Places(q, i) \cup {n + 1} ELSE Places(q, i)
  <2>1. \A k : k \in 1..n + 1 <=> k \in 1..n \/ k = n + 1
    BY <1>1
  <2>2. \A k : k \in Places(r, i) <=> k \in Places(q, i) \/ (k = n + 1 /\ e.id = i)
    BY <1>1, <2>1 DEF Places, n
  <2>3. QED
    BY <2>2
<1>3. n + 1 \notin Places(q, i)
  BY <1>1 DEF Places, n
<1>4. IsFiniteSet(Places(q, i))
  BY <1>1, PlacesFinite DEF n
<1>5. QED
  BY <1>2, <1>3, <1>4, FS_AddElement DEF Count, r

LEMMA CountTail ==
  ASSUME NEW S, NEW q \in Seq(S), q # <<>>, NEW i
  PROVE  Count(q, i) = IF Head(q).id = i THEN Count(Tail(q), i) + 1 ELSE Count(Tail(q), i)
<1> DEFINE n == Len(q)
           r == Tail(q)
           K == Places(q, i) \ {1}
<1>1. /\ n \in Nat /\ n >= 1 /\ Len(r) = n - 1
      /\ \A k \in 1..n - 1 : r[k] = q[k + 1]
  BY HeadTailProperties, EmptySeq
<1>2. Head(q) = q[1]
  BY <1>1
<1>3. IsFiniteSet(Places(q, i)) /\ IsFiniteSet(K) /\ Count(q, i) \in Nat
  BY <1>1, PlacesFinite, FS_RemoveElement
<1>4. Cardinality(K) = IF q[1].id = i THEN Count(q, i) - 1 ELSE Count(q, i)
  <2>1. 1 \in Places(q, i) <=> q[1].id = i
    BY <1>1 DEF Places
  <2>2. QED
    BY <1>3, <2>1, FS_RemoveElement DEF Count
<1>5. Cardinality(Places(r, i)) = Cardinality(K)
  <2> DEFINE f == [k \in K |-> k - 1]
             T == Places(r, i)
  <2>1. \A k \in K : k \in 2..n /\ q[k].id = i
    BY <1>1 DEF Places
  <2>2. \A k \in K : k - 1 \in T
    BY <1>1, <2>1 DEF Places
  <2>3. \A t \in T : t \in 1..n - 1 /\ t + 1 \in K /\ (t + 1) - 1 = t
    BY <1>1 DEF Places
  <2>4. f \in Injection(K, T)
    BY <2>1, <2>2 DEF Injection, IsInjective
  <2>5. f \in Surjection(K, T)
    BY <2>2, <2>3 DEF Surjection
  <2>6. ExistsBijection(K, T)
    BY <2>4, <2>5 DEF ExistsBijection, Bijection
  <2>7. QED
    BY <1>3, <2>6, FS_Bijection
<1>6. Count(r, i) = Cardinality(K)
  BY <1>5 DEF Count
<1>7. QED
  BY <1>2, <1>3, <1>4, <1>6

-----------------------------------------------------------------------------
(* Collecting goes from the first timer to the next, so that what is due   *)
(* is in order and no later than what still runs; and of each timer, what  *)
(* was collected and not called is in the list.                            *)
InOrder(q) == \A m, n \in 1..Len(q) : m < n => q[m].due <= q[n].due
NoLater(q, t) == \A n \in 1..Len(q) : q[n].due <= t

OrderIInv ==
  /\ now_read <= now
  /\ InOrder(notify_list) /\ NoLater(notify_list, now)
  /\ loop = "collect" => \A i \in Id : Live(i) => NoLater(notify_list, timers[i].expire)
  /\ loop \notin {"collect", "fire"} => notify_list = <<>>
  /\ \A i \in Id : called[i] + Count(notify_list, i) = collected[i]

LEMMA ListTypes ==
  ASSUME TypeOK
  PROVE  /\ notify_list \in Seq([id : Id, due : Nat]) /\ Len(notify_list) \in Nat
         /\ \A n \in 1..Len(notify_list) : notify_list[n].due \in Nat
<1>1. notify_list \in Seq([id : Id, due : Nat])
  BY DEF TypeOK
<1>2. Len(notify_list) \in Nat /\ notify_list \in [1..Len(notify_list) -> [id : Id, due : Nat]]
  BY <1>1, LenProperties
<1>3. QED
  BY <1>1, <1>2

LEMMA EmptyCount == \A i : Count(<<>>, i) = 0
<1>1. \A i : Places(<<>>, i) = {}
  BY EmptySeq DEF Places
<1>2. QED
  BY <1>1, FS_EmptySet DEF Count

(* Whatever takes nothing from the list and puts nothing there. *)
LEMMA ListKept ==
  ASSUME TypeOK, OrderIInv, UNCHANGED <<notify_list, called, collected>>,
         now' \in Nat, now <= now', now_read' <= now',
         loop' = "collect" => /\ loop = "collect" /\ timers' = timers
                              \/ notify_list = <<>>,
         loop' \notin {"collect", "fire"} => notify_list = <<>>
  PROVE  OrderIInv'
<1>1. /\ Len(notify_list) \in Nat /\ now \in Nat
      /\ \A n \in 1..Len(notify_list) : notify_list[n].due \in Nat
  BY ListTypes DEF TypeOK
<1>2. NoLater(notify_list, now')
  BY <1>1 DEF OrderIInv, NoLater
<1>3. ASSUME loop' = "collect", NEW i \in Id, Live(i)'
      PROVE  NoLater(notify_list, timers'[i].expire)
  <2>1. CASE loop = "collect" /\ timers' = timers
    BY <1>3, <2>1 DEF OrderIInv, Live
  <2>2. CASE notify_list = <<>>
    BY <2>2, EmptySeq DEF NoLater
  <2>3. QED
    BY <1>3, <2>1, <2>2
<1>4. QED
  BY <1>2, <1>3 DEF OrderIInv, InOrder, NoLater

LEMMA CollectOneOrdered ==
  ASSUME TypeOK, OrderIInv, CollectOne
  PROVE  OrderIInv'
<1> DEFINE q == notify_list
<1>1. PICK i \in Id :
        /\ IsFirst(i) /\ now_read >= timers[i].expire
        /\ notify_list' = Append(q, Due(i))
        /\ timers' = [timers EXCEPT ![i] = Restart(i)]
        /\ collected' = [collected EXCEPT ![i] = @ + 1]
  BY DEF CollectOne, Collected
<1>2. /\ loop = "collect" /\ loop' = "collect"
      /\ UNCHANGED <<now, now_read, called>>
  BY DEF CollectOne
<1> DEFINE e == timers[i].expire
<1>3. /\ Live(i) /\ e \in Nat /\ timers[i] \in [expire : Nat, period : Nat]
      /\ now \in Nat /\ now_read \in Nat /\ e <= now_read /\ now_read <= now
      /\ \A j \in Id : Live(j) => timers[j].expire \in Nat /\ e <= timers[j].expire
  <2>1. Live(i) /\ \A j \in Id : Live(j) =>
          e < timers[j].expire \/ e = timers[j].expire
    BY <1>1 DEF IsFirst
  <2>2. \A j \in Id : Live(j) => timers[j].expire \in Nat
    BY TimerTypes
  <2>3. timers[i] \in [expire : Nat, period : Nat] /\ now \in Nat /\ now_read \in Nat
    BY <2>1 DEF TypeOK, Live
  <2>4. QED
    BY <1>1, <2>1, <2>2, <2>3 DEF OrderIInv
<1>4. /\ Due(i) \in [id : Id, due : Nat] /\ Due(i).id = i /\ Due(i).due = e
  BY <1>3 DEF Due
<1>5. /\ q \in Seq([id : Id, due : Nat]) /\ Len(q) \in Nat
      /\ \A n \in 1..Len(q) : q[n].due \in Nat
  BY ListTypes
<1>6. /\ Len(notify_list') = Len(q) + 1 /\ notify_list'[Len(q) + 1].due = e
      /\ \A n \in 1..Len(q) : notify_list'[n] = q[n]
  BY <1>1, <1>4, <1>5, AppendProperties
<1>7. NoLater(q, e) /\ InOrder(q)
  BY <1>2, <1>3 DEF OrderIInv
<1> HIDE DEF e
<1>8. \A n \in 1..Len(q) + 1 : n \in 1..Len(q) \/ n = Len(q) + 1
  BY <1>5
<1>9. \A n \in 1..Len(q) + 1 : notify_list'[n].due \in Nat /\ notify_list'[n].due <= e
  BY <1>3, <1>5, <1>6, <1>7, <1>8 DEF NoLater
<1>10. InOrder(notify_list')
  <2> SUFFICES ASSUME NEW m \in 1..Len(q) + 1, NEW n \in 1..Len(q) + 1, m < n
               PROVE  notify_list'[m].due <= notify_list'[n].due
    BY <1>6 DEF InOrder
  <2>1. m \in 1..Len(q)
    BY <1>5
  <2>2. CASE n \in 1..Len(q)
    BY <1>6, <1>7, <2>1, <2>2 DEF InOrder
  <2>3. CASE n = Len(q) + 1
    BY <1>6, <1>9, <2>3
  <2>4. QED
    BY <1>8, <2>2, <2>3
<1>11. NoLater(notify_list', now)
  BY <1>3, <1>6, <1>9 DEF NoLater
<1>12. ASSUME NEW j \in Id, Live(j)'
       PROVE  NoLater(notify_list', timers'[j].expire)
  <2>1. timers'[j].expire \in Nat /\ e <= timers'[j].expire
    <3>1. CASE j # i
      BY <1>1, <1>3, <1>12, <3>1 DEF Live, TypeOK
    <3>2. CASE j = i
      <4>1. timers'[i] = Restart(i) /\ Restart(i) # None
        BY <1>1, <1>12, <3>2 DEF Live, TypeOK
      <4>2. Restart(i) = [timers[i] EXCEPT !.expire = timers[i].expire + timers[i].period]
        BY <4>1 DEF Restart
      <4>3. Restart(i).expire = timers[i].expire + timers[i].period
        BY <1>3, <4>2
      <4>4. QED
        BY <1>3, <3>2, <4>1, <4>3 DEF e
    <3>3. QED
      BY <3>1, <3>2
  <2>2. QED
    BY <1>3, <1>6, <1>9, <2>1 DEF NoLater
<1>13. ASSUME NEW j \in Id
       PROVE  called'[j] + Count(notify_list', j) = collected'[j]
  <2>1. called[j] + Count(q, j) = collected[j] /\ called[j] \in Nat /\ collected[j] \in Nat
    BY DEF OrderIInv, TypeOK
  <2>2. Count(q, j) \in Nat
    BY <1>5, PlacesFinite
  <2>3. Count(notify_list', j) = IF i = j THEN Count(q, j) + 1 ELSE Count(q, j)
    <3>1. Count(Append(q, Due(i)), j) = IF Due(i).id = j THEN Count(q, j) + 1 ELSE Count(q, j)
      BY <1>4, <1>5, CountAppend
    <3>2. QED
      BY <1>1, <1>4, <3>1
  <2>4. collected'[j] = IF i = j THEN collected[j] + 1 ELSE collected[j]
    BY <1>1 DEF TypeOK
  <2>5. QED
    BY <1>2, <2>1, <2>2, <2>3, <2>4
<1>14. QED
  BY <1>2, <1>3, <1>10, <1>11, <1>12, <1>13 DEF OrderIInv

LEMMA FireOrdered ==
  ASSUME TypeOK, OrderIInv, Fire
  PROVE  OrderIInv'
<1> DEFINE q == notify_list
<1>1. /\ loop = "fire" /\ loop' = "fire" /\ q # <<>> /\ notify_list' = Tail(q)
      /\ called' = [called EXCEPT ![Head(q).id] = @ + 1]
      /\ UNCHANGED <<now, now_read, collected>>
  BY DEF Fire
<1>2. q \in Seq([id : Id, due : Nat])
  BY DEF TypeOK
<1>3. /\ Len(q) \in Nat /\ Len(notify_list') = Len(q) - 1
      /\ \A n \in 1..Len(q) - 1 : notify_list'[n] = q[n + 1]
      /\ Head(q) \in [id : Id, due : Nat] /\ Tail(q) \in Seq([id : Id, due : Nat])
  BY <1>1, <1>2, HeadTailProperties, LenProperties
<1>4. \A n \in 1..Len(q) - 1 : n + 1 \in 1..Len(q)
  BY <1>3
<1>5. InOrder(notify_list')
  <2> SUFFICES ASSUME NEW m \in 1..Len(q) - 1, NEW n \in 1..Len(q) - 1, m < n
               PROVE  notify_list'[m].due <= notify_list'[n].due
    BY <1>3 DEF InOrder
  <2>1. m + 1 \in 1..Len(q) /\ n + 1 \in 1..Len(q) /\ m + 1 < n + 1
    BY <1>3
  <2>2. q[m + 1].due <= q[n + 1].due
    BY <2>1 DEF OrderIInv, InOrder
  <2>3. QED
    BY <1>3, <2>2
<1>6. NoLater(notify_list', now)
  BY <1>3, <1>4 DEF OrderIInv, NoLater
<1>7. ASSUME NEW j \in Id
      PROVE  called'[j] + Count(notify_list', j) = collected[j]
  <2>1. called[j] + Count(q, j) = collected[j] /\ called[j] \in Nat
    BY DEF OrderIInv, TypeOK
  <2>2. Count(q, j) = IF Head(q).id = j THEN Count(Tail(q), j) + 1 ELSE Count(Tail(q), j)
    BY <1>1, <1>2, CountTail
  <2>3. Count(Tail(q), j) \in Nat
    BY <1>3, LenProperties, PlacesFinite
  <2>4. called'[j] = IF Head(q).id = j THEN called[j] + 1 ELSE called[j]
    BY <1>1, <1>3 DEF TypeOK
  <2>5. QED
    BY <1>1, <2>1, <2>2, <2>3, <2>4
<1>8. QED
  BY <1>1, <1>5, <1>6, <1>7 DEF OrderIInv

(* The callbacks of a pass run in the order in which they are due, none    *)
(* early and none forgotten, for any timers and however late the loop is   *)
(* (handle_timers).                                                        *)
THEOREM CallbacksInOrder == Spec => []DueInOrder
<1>1. Init => OrderIInv
  BY EmptyCount, EmptySeq DEF Init, OrderIInv, InOrder, NoLater
<1>2. TypeOK /\ OrderIInv /\ [Next]_vars => OrderIInv'
  <2> SUFFICES ASSUME TypeOK, OrderIInv, [Next]_vars
               PROVE  OrderIInv'
    OBVIOUS
  <2>1. now \in Nat /\ now_read \in Nat /\ now_read <= now
    BY DEF TypeOK, OrderIInv
  <2>2. CASE Calls
    <3>1. UNCHANGED <<notify_list, called, collected, now, now_read, loop>> /\ loop # "collect"
      BY <2>2 DEF Calls, AddTimer, AddPeriodicTimer, Add, CancelTimer, MutexFree
    <3>2. QED
      BY <2>1, <3>1, ListKept DEF OrderIInv
  <2>3. CASE HandleTimers
    <3>1. notify_list = <<>>
      BY <2>3 DEF HandleTimers, LoopGoto, OrderIInv
    <3>2. QED
      BY <2>1, <2>3, <3>1, ListKept DEF HandleTimers, LoopGoto, historyVars
  <2>4. CASE CollectOne
    BY <2>4, CollectOneOrdered
  <2>5. CASE Fire
    BY <2>5, FireOrdered
  <2>6. CASE CollectDone \/ FireDone
    BY <2>1, <2>6, ListKept DEF CollectDone, FireDone, LoopGoto, historyVars
  <2>7. CASE \/ Arm \/ ConfirmQueue \/ SelectSignal \/ SelectIo \/ SelectTimeout \/ SelectFails
    <3>1. /\ UNCHANGED <<notify_list, called, collected, now, now_read>>
          /\ notify_list = <<>> /\ loop' # "collect"
      BY <2>7 DEF Arm, ConfirmQueue, SelectSignal, SelectIo, SelectTimeout, SelectFails,
         LoopGoto, historyVars, OrderIInv
    <3>2. QED
      BY <2>1, <3>1, ListKept
  <2>8. CASE Tick
    <3>1. /\ UNCHANGED <<notify_list, called, collected, now_read, loop, timers>>
          /\ now' \in Nat /\ now <= now' /\ now_read' <= now'
      BY <2>1, <2>8 DEF Tick, historyVars
    <3>2. QED
      BY <3>1, ListKept DEF OrderIInv
  <2>9. CASE DeliverSignal \/ UNCHANGED vars
    <3>1. UNCHANGED <<notify_list, called, collected, now, now_read, loop, timers>>
      BY <2>9 DEF DeliverSignal, historyVars, vars
    <3>2. QED
      BY <2>1, <3>1, ListKept DEF OrderIInv
  <2>10. QED
    BY <2>2, <2>3, <2>4, <2>5, <2>6, <2>7, <2>8, <2>9 DEF Next, PassStep
<1>3. TypeOK /\ OrderIInv => DueInOrder
  <2> SUFFICES ASSUME TypeOK, OrderIInv
               PROVE  DueInOrder
    OBVIOUS
  <2>1. ASSUME loop \in {"arm", "sleep"}
        PROVE  called = collected
    <3>1. notify_list = <<>>
      BY <2>1 DEF OrderIInv
    <3>2. \A i \in Id : called[i] = collected[i]
      BY <3>1, EmptyCount DEF OrderIInv, TypeOK
    <3>3. QED
      BY <3>2 DEF TypeOK
  <2>2. QED
    BY <2>1 DEF OrderIInv, DueInOrder, InOrder, NoLater
<1>4. QED
  BY <1>1, <1>2, <1>3, TimersTypes, PTL DEF Spec

=============================================================================
