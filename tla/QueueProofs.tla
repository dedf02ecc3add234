---------------------------- MODULE QueueProofs ----------------------------
(***************************************************************************)
(* Proofs about Queue, for any finite set of tasks, any values and any     *)
(* max_size: the accounts of the two semaphores, and the refinement of the *)
(* bounded FIFO.                                                           *)
(***************************************************************************)
EXTENDS Queue, FiniteSetTheorems, SequenceTheorems, TLAPS

(* 1 when b holds, 0 otherwise. *)
One(b) == IF b THEN 1 ELSE 0

(* A count of threads is a natural number. *)
LEMMA AtType ==
  ASSUME NEW S
  PROVE  At(S) \in Nat
<1>1. IsFiniteSet({t \in Thread : pc[t] \in S})
  BY QueueAssumption, FS_Subset
<1>2. QED
  BY <1>1, FS_CardinalityType DEF At

(* When one thread goes from statement a to statement b, the number of     *)
(* threads at the statements S changes by what that thread contributes.    *)
LEMMA AtMove ==
  ASSUME NEW t \in Thread, NEW a, NEW b, NEW S,
         pc \in [Thread -> PC], Goto(t, a, b)
  PROVE  At(S)' = At(S) + One(b \in S) - One(a \in S)
<1> DEFINE C == {u \in Thread : pc[u] \in S}
           D == {u \in Thread : pc'[u] \in S}
<1>1. IsFiniteSet(C)
  BY QueueAssumption, FS_Subset
<1>2. Cardinality(C) \in Nat
  BY <1>1, FS_CardinalityType
<1>3. D = IF b \in S THEN C \cup {t} ELSE C \ {t}
  BY DEF Goto
<1>4. t \in C <=> a \in S
  BY DEF Goto
<1>5. /\ Cardinality(C \cup {t}) = IF t \in C THEN Cardinality(C) ELSE Cardinality(C) + 1
      /\ Cardinality(C \ {t}) = IF t \in C THEN Cardinality(C) - 1 ELSE Cardinality(C)
  BY <1>1, FS_AddElement, FS_RemoveElement
<1>6. Cardinality(D) = Cardinality(C) + One(b \in S) - One(a \in S)
  <2> HIDE DEF C, D
  <2>1. CASE b \in S
    BY <2>1, <1>2, <1>3, <1>4, <1>5 DEF One
  <2>2. CASE b \notin S
    BY <2>2, <1>2, <1>3, <1>4, <1>5 DEF One
  <2>3. QED
    BY <2>1, <2>2
<1>7. QED
  BY <1>6 DEF At

(* A thread that stands at one of the statements S is counted there. *)
LEMMA AtPositive ==
  ASSUME NEW t \in Thread, NEW S, pc[t] \in S
  PROVE  At(S) \in Nat /\ At(S) >= 1
<1> DEFINE C == {u \in Thread : pc[u] \in S}
<1>1. IsFiniteSet(C) /\ t \in C
  BY QueueAssumption, FS_Subset
<1>2. Cardinality(C) \in Nat /\ Cardinality(C) # 0
  BY <1>1, FS_CardinalityType, FS_EmptySet
<1>3. QED
  BY <1>2 DEF At

-----------------------------------------------------------------------------

(* The queue starts in a state of the inductive invariant. *)
LEMMA InitIInv == Init => IInv
<1> SUFFICES ASSUME Init
             PROVE  IInv
  OBVIOUS
<1>1. TypeOK
  BY QueueAssumption DEF Init, TypeOK, PC
<1>2. ASSUME NEW S, "idle" \notin S
      PROVE  At(S) = 0
  <2>1. {t \in Thread : pc[t] \in S} = {}
    BY <1>2 DEF Init
  <2>2. QED
    BY <2>1, FS_EmptySet DEF At
<1>3. SlotsAccounted /\ ItemsAccounted
  <2>1. PushSlots = 0 /\ PopSlots = 0 /\ Unannounced = 0 /\ Granted = 0
    BY <1>2 DEF PushSlots, PopSlots, Unannounced, Granted
  <2>2. QED
    BY <2>1, QueueAssumption DEF Init, SlotsAccounted, ItemsAccounted
<1>4. OneInside /\ CarriesValue
  BY DEF Init, OneInside, CarriesValue
<1>5. QED
  BY <1>1, <1>3, <1>4 DEF IInv

(* Every step of a thread moves it from one statement to another.          *)
LEMMA MoveCounts ==
  ASSUME NEW t \in Thread, NEW a, NEW b,
         pc \in [Thread -> PC], Goto(t, a, b)
  PROVE  /\ PushSlots' = PushSlots + One(b \in {"lock_push", "push_back", "give_consume"}) - One(a \in {"lock_push", "push_back", "give_consume"})
         /\ PopSlots' = PopSlots + One(b \in {"lock_pop", "erase", "give_produce"}) - One(a \in {"lock_pop", "erase", "give_produce"})
         /\ Unannounced' = Unannounced + One(b \in {"give_consume"}) - One(a \in {"give_consume"})
         /\ Granted' = Granted + One(b \in {"lock_pop", "erase"}) - One(a \in {"lock_pop", "erase"})
<1>1. \A S : At(S)' = At(S) + One(b \in S) - One(a \in S)
  BY AtMove
<1>2. QED
  BY <1>1 DEF PushSlots, PopSlots, Unannounced, Granted

(* A value is appended whole. *)
LEMMA AppendObj ==
  ASSUME TypeOK, NEW t \in Thread, obj[t] # <<>>
  PROVE  /\ queue_data \o obj[t] \in Seq(Value)
         /\ Len(queue_data \o obj[t]) = Len(queue_data) + 1
         /\ queue_data \o obj[t] # <<>>
<1>1. PICK v \in Value : obj[t] = <<v>>
  BY DEF TypeOK
<1>2. obj[t] \in Seq(Value) /\ Len(obj[t]) = 1 /\ queue_data \in Seq(Value)
  BY <1>1 DEF TypeOK
<1>3. /\ queue_data \o obj[t] \in Seq(Value)
      /\ Len(queue_data \o obj[t]) = Len(queue_data) + Len(obj[t])
  BY <1>2, ConcatProperties
<1>4. QED
  BY <1>2, <1>3

(* The type of the queue is preserved by every step of every thread. *)
LEMMA TypeStep ==
  ASSUME TypeOK, CarriesValue, NEW t \in Thread,
         \/ \E v \in Value : PushCall(t, v)
         \/ PushStep(t) \/ PushTimeout(t)
         \/ PopCall(t) \/ PopStep(t) \/ PopTimeout(t)
  PROVE  TypeOK'
<1> USE DEF TypeOK, Goto, PC, PushPC, PopPC
<1>1. CASE \E v \in Value : PushCall(t, v)
  BY <1>1 DEF PushCall
<1>2. CASE TakeProduce(t)
  BY <1>2, QueueAssumption DEF TakeProduce
<1>3. CASE LockPush(t)
  BY <1>3 DEF LockPush, Lock
<1>4. CASE PushBack(t)
  <2>1. queue_data' \in Seq(Value)
    BY <1>4, AppendObj DEF PushBack, CarriesValue
  <2>2. QED
    BY <1>4, <2>1 DEF PushBack, Unlock
<1>5. CASE GiveConsume(t)
  BY <1>5, QueueAssumption DEF GiveConsume, Give
<1>6. CASE PushTimeout(t) \/ PopTimeout(t)
  BY <1>6 DEF PushTimeout, PopTimeout
<1>7. CASE PopCall(t)
  BY <1>7 DEF PopCall
<1>8. CASE TakeConsume(t)
  BY <1>8, QueueAssumption DEF TakeConsume
<1>9. CASE LockPop(t)
  BY <1>9 DEF LockPop, Lock
<1>10. CASE Erase(t)
  <2>1. Head(queue_data) \in Value /\ Tail(queue_data) \in Seq(Value)
    BY <1>10, HeadTailProperties DEF Erase
  <2>2. QED
    BY <1>10, <2>1 DEF Erase, Unlock
<1>11. CASE GiveProduce(t)
  BY <1>11, QueueAssumption DEF GiveProduce, Give
<1>12. QED
  BY <1>1, <1>2, <1>3, <1>4, <1>5, <1>6, <1>7, <1>8, <1>9, <1>10, <1>11
  DEF PushStep, PopStep

(* The accounts are preserved by every step of every thread: each case     *)
(* adds the one thread that moved to what its step did to the semaphores,  *)
(* the deque and the mutex.                                                *)
LEMMA StepIInv ==
  ASSUME IInv, NEW t \in Thread,
         \/ \E v \in Value : PushCall(t, v)
         \/ PushStep(t) \/ PushTimeout(t)
         \/ PopCall(t) \/ PopStep(t) \/ PopTimeout(t)
  PROVE  IInv'
<1>1. TypeOK'
  BY TypeStep DEF IInv
<1>2. /\ produce_sem \in 0..MaxSize /\ consume_sem \in 0..MaxSize /\ MaxSize \in Nat
      /\ queue_data \in Seq(Value) /\ Len(queue_data) \in Nat
  BY QueueAssumption, LenProperties DEF IInv, TypeOK
<1>3. PushSlots \in Nat /\ PopSlots \in Nat /\ Unannounced \in Nat /\ Granted \in Nat
  BY AtType DEF PushSlots, PopSlots, Unannounced, Granted
<1>4. /\ pc \in [Thread -> PC]
      /\ obj \in [Thread -> {<<>>} \cup {<<v>> : v \in Value}]
  BY DEF IInv, TypeOK
<1>5. CASE \E v \in Value : PushCall(t, v)
  <2>1. Goto(t, "idle", "take_produce")
    BY <1>5 DEF PushCall
  <2>2. /\ PushSlots' = PushSlots /\ PopSlots' = PopSlots
        /\ Unannounced' = Unannounced /\ Granted' = Granted
    BY <1>3, <1>4, <2>1, MoveCounts DEF One
  <2>3. SlotsAccounted'
    BY <1>5, <1>2, <1>3, <2>2 DEF PushCall, IInv, SlotsAccounted
  <2>4. ItemsAccounted'
    BY <1>5, <1>2, <1>3, <2>2 DEF PushCall, IInv, ItemsAccounted
  <2>5. OneInside'
    BY <1>5, <1>4, <2>1 DEF Goto, PushCall, IInv, OneInside
  <2>6. CarriesValue'
    BY <1>5, <1>4, <2>1 DEF Goto, PushCall, IInv, CarriesValue
  <2>7. QED
    BY <1>1, <2>3, <2>4, <2>5, <2>6 DEF IInv
<1>6. CASE TakeProduce(t)
  <2>1. Goto(t, "take_produce", "lock_push")
    BY <1>6 DEF TakeProduce
  <2>2. /\ PushSlots' = PushSlots + 1 /\ PopSlots' = PopSlots
        /\ Unannounced' = Unannounced /\ Granted' = Granted
    BY <1>3, <1>4, <2>1, MoveCounts DEF One
  <2>3. SlotsAccounted'
    BY <1>6, <1>2, <1>3, <2>2 DEF TakeProduce, IInv, SlotsAccounted
  <2>4. ItemsAccounted'
    BY <1>6, <1>2, <1>3, <2>2 DEF TakeProduce, IInv, ItemsAccounted
  <2>5. OneInside'
    BY <1>6, <1>4, <2>1 DEF Goto, TakeProduce, IInv, OneInside
  <2>6. CarriesValue'
    BY <1>6, <1>4, <2>1 DEF Goto, TakeProduce, IInv, CarriesValue
  <2>7. QED
    BY <1>1, <2>3, <2>4, <2>5, <2>6 DEF IInv
<1>7. CASE PushTimeout(t)
  <2>1. Goto(t, "take_produce", "idle")
    BY <1>7 DEF PushTimeout
  <2>2. /\ PushSlots' = PushSlots /\ PopSlots' = PopSlots
        /\ Unannounced' = Unannounced /\ Granted' = Granted
    BY <1>3, <1>4, <2>1, MoveCounts DEF One
  <2>3. SlotsAccounted'
    BY <1>7, <1>2, <1>3, <2>2 DEF PushTimeout, IInv, SlotsAccounted
  <2>4. ItemsAccounted'
    BY <1>7, <1>2, <1>3, <2>2 DEF PushTimeout, IInv, ItemsAccounted
  <2>5. OneInside'
    BY <1>7, <1>4, <2>1 DEF Goto, PushTimeout, IInv, OneInside
  <2>6. CarriesValue'
    BY <1>7, <1>4, <2>1 DEF Goto, PushTimeout, IInv, CarriesValue
  <2>7. QED
    BY <1>1, <2>3, <2>4, <2>5, <2>6 DEF IInv
<1>8. CASE LockPush(t)
  <2>1. Goto(t, "lock_push", "push_back")
    BY <1>8 DEF LockPush
  <2>2. /\ PushSlots' = PushSlots /\ PopSlots' = PopSlots
        /\ Unannounced' = Unannounced /\ Granted' = Granted
    BY <1>3, <1>4, <2>1, MoveCounts DEF One
  <2>3. SlotsAccounted'
    BY <1>8, <1>2, <1>3, <2>2 DEF LockPush, Lock, IInv, SlotsAccounted
  <2>4. ItemsAccounted'
    BY <1>8, <1>2, <1>3, <2>2 DEF LockPush, Lock, IInv, ItemsAccounted
  <2>5. OneInside'
    BY <1>8, <1>4, <2>1 DEF Goto, LockPush, Lock, IInv, OneInside
  <2>6. CarriesValue'
    BY <1>8, <1>4, <2>1 DEF Goto, LockPush, Lock, IInv, CarriesValue
  <2>7. QED
    BY <1>1, <2>3, <2>4, <2>5, <2>6 DEF IInv
<1>9. CASE PushBack(t)
  <2>1. Goto(t, "push_back", "give_consume")
    BY <1>9 DEF PushBack
  <2>2. /\ PushSlots' = PushSlots /\ PopSlots' = PopSlots
        /\ Unannounced' = Unannounced + 1 /\ Granted' = Granted
    BY <1>3, <1>4, <2>1, MoveCounts DEF One
  <2>3. SlotsAccounted'
    BY <1>9, <1>2, <1>3, <2>2 DEF PushBack, Unlock, IInv, SlotsAccounted
  <2>4. ItemsAccounted'
    <3>1. Len(queue_data') = Len(queue_data) + 1
      BY <1>9, AppendObj DEF PushBack, Goto, IInv, CarriesValue
    <3>2. QED
      BY <1>9, <1>2, <1>3, <2>2, <3>1 DEF PushBack, Unlock, IInv, ItemsAccounted
  <2>5. OneInside'
    BY <1>9, <1>4, <2>1 DEF Goto, PushBack, Unlock, IInv, OneInside
  <2>6. CarriesValue'
    BY <1>9, <1>4, <2>1 DEF Goto, PushBack, Unlock, IInv, CarriesValue
  <2>7. QED
    BY <1>1, <2>3, <2>4, <2>5, <2>6 DEF IInv
<1>10. CASE GiveConsume(t)
  <2>1. Goto(t, "give_consume", "idle")
    BY <1>10 DEF GiveConsume
  <2>2. /\ PushSlots' = PushSlots - 1 /\ PopSlots' = PopSlots
        /\ Unannounced' = Unannounced - 1 /\ Granted' = Granted
    BY <1>3, <1>4, <2>1, MoveCounts, SMTT(30) DEF One
  <2>3. SlotsAccounted'
    <3>1. PushSlots >= 1
      BY <2>1, AtPositive DEF Goto, PushSlots
    <3>2. QED
      BY <1>10, <1>2, <1>3, <2>2, <3>1 DEF GiveConsume, Give, IInv, SlotsAccounted
  <2>4. ItemsAccounted'
    <3>1. PushSlots >= 1
      BY <2>1, AtPositive DEF Goto, PushSlots
    <3>2. QED
      BY <1>10, <1>2, <1>3, <2>2, <3>1
      DEF GiveConsume, Give, IInv, ItemsAccounted, SlotsAccounted
  <2>5. OneInside'
    BY <1>10, <1>4, <2>1 DEF Goto, GiveConsume, Give, IInv, OneInside
  <2>6. CarriesValue'
    BY <1>10, <1>4, <2>1 DEF Goto, GiveConsume, Give, IInv, CarriesValue
  <2>7. QED
    BY <1>1, <2>3, <2>4, <2>5, <2>6 DEF IInv
<1>11. CASE PopCall(t)
  <2>1. Goto(t, "idle", "take_consume")
    BY <1>11 DEF PopCall
  <2>2. /\ PushSlots' = PushSlots /\ PopSlots' = PopSlots
        /\ Unannounced' = Unannounced /\ Granted' = Granted
    BY <1>3, <1>4, <2>1, MoveCounts DEF One
  <2>3. SlotsAccounted'
    BY <1>11, <1>2, <1>3, <2>2 DEF PopCall, IInv, SlotsAccounted
  <2>4. ItemsAccounted'
    BY <1>11, <1>2, <1>3, <2>2 DEF PopCall, IInv, ItemsAccounted
  <2>5. OneInside'
    BY <1>11, <1>4, <2>1 DEF Goto, PopCall, IInv, OneInside
  <2>6. CarriesValue'
    BY <1>11, <1>4, <2>1 DEF Goto, PopCall, IInv, CarriesValue
  <2>7. QED
    BY <1>1, <2>3, <2>4, <2>5, <2>6 DEF IInv
<1>12. CASE TakeConsume(t)
  <2>1. Goto(t, "take_consume", "lock_pop")
    BY <1>12 DEF TakeConsume
  <2>2. /\ PushSlots' = PushSlots /\ PopSlots' = PopSlots + 1
        /\ Unannounced' = Unannounced /\ Granted' = Granted + 1
    BY <1>3, <1>4, <2>1, MoveCounts, SMTT(30) DEF One
  <2>3. SlotsAccounted'
    BY <1>12, <1>2, <1>3, <2>2 DEF TakeConsume, IInv, SlotsAccounted
  <2>4. ItemsAccounted'
    BY <1>12, <1>2, <1>3, <2>2 DEF TakeConsume, IInv, ItemsAccounted
  <2>5. OneInside'
    BY <1>12, <1>4, <2>1 DEF Goto, TakeConsume, IInv, OneInside
  <2>6. CarriesValue'
    BY <1>12, <1>4, <2>1 DEF Goto, TakeConsume, IInv, CarriesValue
  <2>7. QED
    BY <1>1, <2>3, <2>4, <2>5, <2>6 DEF IInv
<1>13. CASE PopTimeout(t)
  <2>1. Goto(t, "take_consume", "idle")
    BY <1>13 DEF PopTimeout
  <2>2. /\ PushSlots' = PushSlots /\ PopSlots' = PopSlots
        /\ Unannounced' = Unannounced /\ Granted' = Granted
    BY <1>3, <1>4, <2>1, MoveCounts DEF One
  <2>3. SlotsAccounted'
    BY <1>13, <1>2, <1>3, <2>2 DEF PopTimeout, IInv, SlotsAccounted
  <2>4. ItemsAccounted'
    BY <1>13, <1>2, <1>3, <2>2 DEF PopTimeout, IInv, ItemsAccounted
  <2>5. OneInside'
    BY <1>13, <1>4, <2>1 DEF Goto, PopTimeout, IInv, OneInside
  <2>6. CarriesValue'
    BY <1>13, <1>4, <2>1 DEF Goto, PopTimeout, IInv, CarriesValue
  <2>7. QED
    BY <1>1, <2>3, <2>4, <2>5, <2>6 DEF IInv
<1>14. CASE LockPop(t)
  <2>1. Goto(t, "lock_pop", "erase")
    BY <1>14 DEF LockPop
  <2>2. /\ PushSlots' = PushSlots /\ PopSlots' = PopSlots
        /\ Unannounced' = Unannounced /\ Granted' = Granted
    BY <1>3, <1>4, <2>1, MoveCounts DEF One
  <2>3. SlotsAccounted'
    BY <1>14, <1>2, <1>3, <2>2 DEF LockPop, Lock, IInv, SlotsAccounted
  <2>4. ItemsAccounted'
    BY <1>14, <1>2, <1>3, <2>2 DEF LockPop, Lock, IInv, ItemsAccounted
  <2>5. OneInside'
    BY <1>14, <1>4, <2>1 DEF Goto, LockPop, Lock, IInv, OneInside
  <2>6. CarriesValue'
    BY <1>14, <1>4, <2>1 DEF Goto, LockPop, Lock, IInv, CarriesValue
  <2>7. QED
    BY <1>1, <2>3, <2>4, <2>5, <2>6 DEF IInv
<1>15. CASE Erase(t)
  <2>1. Goto(t, "erase", "give_produce")
    BY <1>15 DEF Erase
  <2>2. /\ PushSlots' = PushSlots /\ PopSlots' = PopSlots
        /\ Unannounced' = Unannounced /\ Granted' = Granted - 1
    BY <1>3, <1>4, <2>1, MoveCounts DEF One
  <2>3. SlotsAccounted'
    BY <1>15, <1>2, <1>3, <2>2 DEF Erase, Unlock, IInv, SlotsAccounted
  <2>4. ItemsAccounted'
    <3>1. Len(queue_data') = Len(queue_data) - 1
      BY <1>15, <1>2, HeadTailProperties DEF Erase
    <3>2. QED
      BY <1>15, <1>2, <1>3, <2>2, <3>1 DEF Erase, Unlock, IInv, ItemsAccounted
  <2>5. OneInside'
    BY <1>15, <1>4, <2>1 DEF Goto, Erase, Unlock, IInv, OneInside
  <2>6. CarriesValue'
    BY <1>15, <1>4, <2>1 DEF Goto, Erase, Unlock, IInv, CarriesValue
  <2>7. QED
    BY <1>1, <2>3, <2>4, <2>5, <2>6 DEF IInv
<1>16. CASE GiveProduce(t)
  <2>1. Goto(t, "give_produce", "idle")
    BY <1>16 DEF GiveProduce
  <2>2. /\ PushSlots' = PushSlots /\ PopSlots' = PopSlots - 1
        /\ Unannounced' = Unannounced /\ Granted' = Granted
    BY <1>3, <1>4, <2>1, MoveCounts DEF One
  <2>3. SlotsAccounted'
    <3>1. PopSlots >= 1
      BY <2>1, AtPositive DEF Goto, PopSlots
    <3>2. QED
      BY <1>16, <1>2, <1>3, <2>2, <3>1 DEF GiveProduce, Give, IInv, SlotsAccounted
  <2>4. ItemsAccounted'
    BY <1>16, <1>2, <1>3, <2>2 DEF GiveProduce, Give, IInv, ItemsAccounted
  <2>5. OneInside'
    BY <1>16, <1>4, <2>1 DEF Goto, GiveProduce, Give, IInv, OneInside
  <2>6. CarriesValue'
    BY <1>16, <1>4, <2>1 DEF Goto, GiveProduce, Give, IInv, CarriesValue
  <2>7. QED
    BY <1>1, <2>3, <2>4, <2>5, <2>6 DEF IInv
<1>17. QED
  BY <1>5, <1>6, <1>7, <1>8, <1>9, <1>10, <1>11, <1>12, <1>13, <1>14, <1>15, <1>16
  DEF PushStep, PopStep

-----------------------------------------------------------------------------

(* The accounts of the semaphores hold in every reachable state, whatever  *)
(* the number of tasks and the size of the queue.                          *)
THEOREM QueueInvariant == Spec => []IInv
<1>1. IInv /\ [Next]_vars => IInv'
  <2> SUFFICES ASSUME IInv, [Next]_vars
               PROVE  IInv'
    OBVIOUS
  <2>1. CASE Next
    BY <2>1, StepIInv DEF Next, PushStep, PopStep
  <2>2. CASE UNCHANGED vars
    BY <2>2 DEF vars, IInv, TypeOK, SlotsAccounted, ItemsAccounted, OneInside, CarriesValue,
                PushSlots, PopSlots, Unannounced, Granted, At
  <2>3. QED
    BY <2>1, <2>2
<1>2. QED
  BY InitIInv, <1>1, PTL DEF Spec

(* A push, a pop and the semaphores: no slot leaks and no give is lost.    *)
THEOREM SlotsNeverLeak == Spec => []SlotsAccounted
<1>1. IInv => SlotsAccounted
  BY DEF IInv
<1>2. QED
  BY <1>1, QueueInvariant, PTL

(* What the accounts give when a pop is about to remove the front.         *)
LEMMA EraseFinds == IInv => NeverErasesEmpty
<1> SUFFICES ASSUME IInv, NEW t \in Thread, pc[t] = "erase"
             PROVE  queue_data # <<>>
  BY DEF NeverErasesEmpty
<1>1. Granted \in Nat /\ Granted >= 1
  BY AtPositive DEF Granted
<1>2. Unannounced \in Nat /\ consume_sem \in Nat
  BY AtType, QueueAssumption DEF Unannounced, IInv, TypeOK
<1>3. Len(queue_data) >= 1
  BY <1>1, <1>2 DEF IInv, ItemsAccounted
<1>4. QED
  BY <1>3, EmptySeq

(* pop_for never calls front() on an empty deque.                          *)
THEOREM EraseIsDefined == Spec => []NeverErasesEmpty
BY QueueInvariant, EraseFinds, PTL

(* Two groups of statements are counted apart.                             *)
LEMMA AtSplit ==
  ASSUME NEW S, NEW T, S \cap T = {}
  PROVE  At(S \cup T) = At(S) + At(T)
<1> DEFINE A == {u \in Thread : pc[u] \in S}
           B == {u \in Thread : pc[u] \in T}
<1>1. IsFiniteSet(A) /\ IsFiniteSet(B)
  BY QueueAssumption, FS_Subset
<1>2. A \cap B = {} /\ {u \in Thread : pc[u] \in S \cup T} = A \cup B
  OBVIOUS
<1>3. Cardinality(A) \in Nat /\ Cardinality(B) \in Nat /\ Cardinality(A \cap B) = 0
  BY <1>1, <1>2, FS_CardinalityType, FS_EmptySet
<1>4. Cardinality(A \cup B) = Cardinality(A) + Cardinality(B) - Cardinality(A \cap B)
  BY <1>1, FS_Union
<1>5. Cardinality(A \cup B) = Cardinality(A) + Cardinality(B)
  BY <1>3, <1>4
<1>6. QED
  BY <1>2, <1>5 DEF At

(* The groups the two accounts overlap in. *)
LEMMA Groups ==
  /\ PushSlots = At({"lock_push", "push_back"}) + Unannounced
  /\ PopSlots = Granted + At({"give_produce"})
  /\ At({"lock_push", "push_back", "give_produce"})
       = At({"lock_push", "push_back"}) + At({"give_produce"})
  /\ At({"give_consume", "lock_pop", "erase"}) = Unannounced + Granted
<1>1. /\ {"lock_push", "push_back", "give_consume"}
           = {"lock_push", "push_back"} \cup {"give_consume"}
      /\ {"lock_pop", "erase", "give_produce"} = {"lock_pop", "erase"} \cup {"give_produce"}
      /\ {"lock_push", "push_back", "give_produce"}
           = {"lock_push", "push_back"} \cup {"give_produce"}
      /\ {"give_consume", "lock_pop", "erase"} = {"give_consume"} \cup {"lock_pop", "erase"}
  OBVIOUS
<1>2. /\ {"lock_push", "push_back"} \cap {"give_consume"} = {}
      /\ {"lock_pop", "erase"} \cap {"give_produce"} = {}
      /\ {"lock_push", "push_back"} \cap {"give_produce"} = {}
      /\ {"give_consume"} \cap {"lock_pop", "erase"} = {}
  OBVIOUS
<1>3. QED
  BY <1>1, <1>2, AtSplit DEF PushSlots, PopSlots, Unannounced, Granted

(* The deque holds at most the slots that are not free.                    *)
LEMMA SizeBounded == IInv => WithinMaxSize
<1> SUFFICES ASSUME IInv
             PROVE  Len(queue_data) <= MaxSize
  BY DEF WithinMaxSize
<1>1. /\ At({"lock_push", "push_back"}) \in Nat /\ At({"give_produce"}) \in Nat
      /\ Unannounced \in Nat /\ Granted \in Nat
  BY AtType DEF Unannounced, Granted
<1>2. produce_sem \in Nat /\ consume_sem \in Nat
  BY QueueAssumption DEF IInv, TypeOK
<1>3. QED
  BY <1>1, <1>2, Groups, SMTT(30) DEF IInv, SlotsAccounted, ItemsAccounted

(* The deque never holds more than max_size values.                        *)
THEOREM QueueIsBounded == Spec => []WithinMaxSize
BY QueueInvariant, SizeBounded, PTL

-----------------------------------------------------------------------------

(* A thread that moves from a to b moves, in the bounded FIFO, from the    *)
(* operation a belongs to to the one b belongs to.                         *)
LEMMA OpMove ==
  ASSUME NEW t \in Thread, NEW a, NEW b,
         pc \in [Thread -> PC], Goto(t, a, b)
  PROVE  /\ [u \in Thread |-> Doing(pc[u])][t] = Doing(a)
         /\ [u \in Thread |-> Doing(pc'[u])]
              = [[u \in Thread |-> Doing(pc[u])] EXCEPT ![t] = Doing(b)]
<1>1. pc[t] = a /\ pc' = [pc EXCEPT ![t] = b]
  BY DEF Goto
<1>2. \A u \in Thread : pc'[u] = IF u = t THEN b ELSE pc[u]
  BY <1>1
<1>3. QED
  BY <1>1, <1>2

(* The FIFO counts with the same Cardinality. *)
LEMMA FifoCardinality == \A S : Fifo!Cardinality(S) = Cardinality(S)
BY DEF Fifo!Cardinality, Cardinality

(* The threads at some statements are among the other threads that do, in  *)
(* the bounded FIFO, what those statements belong to.                      *)
LEMMA OthersCount ==
  ASSUME NEW t \in Thread, NEW S, NEW D, pc[t] \notin S,
         \A s \in S : Doing(s) \in D
  PROVE  /\ At(S) \in Nat
         /\ Fifo!OthersDoing(t, D) \in Nat
         /\ At(S) <= Fifo!OthersDoing(t, D)
<1> DEFINE C == {u \in Thread : pc[u] \in S}
           O == {u \in Thread \ {t} : [w \in Thread |-> Doing(pc[w])][u] \in D}
<1>1. C \subseteq O /\ O \subseteq Thread
  OBVIOUS
<1>2. IsFiniteSet(O)
  BY <1>1, QueueAssumption, FS_Subset
<1>3. /\ Cardinality(C) \in Nat /\ Cardinality(O) \in Nat
      /\ Cardinality(C) <= Cardinality(O)
  BY <1>1, <1>2, FS_Subset, FS_CardinalityType
<1>4. QED
  BY <1>3, FifoCardinality DEF At, Fifo!OthersDoing

(* A push that times out finds every slot that is not a value in the hands *)
(* of another thread.                                                      *)
LEMMA PushRefused ==
  ASSUME IInv, NEW t \in Thread, PushTimeout(t)
  PROVE  MaxSize <= Len(queue_data) + Fifo!OthersDoing(t, {"push", "popped"})
<1> DEFINE S == {"lock_push", "push_back", "give_produce"}
<1>1. pc[t] \notin S /\ \A s \in S : Doing(s) \in {"push", "popped"}
  BY DEF PushTimeout, Goto, Doing
<1>2. /\ At(S) \in Nat /\ Fifo!OthersDoing(t, {"push", "popped"}) \in Nat
      /\ At(S) <= Fifo!OthersDoing(t, {"push", "popped"})
  BY <1>1, OthersCount
<1>3. /\ At({"lock_push", "push_back"}) \in Nat /\ At({"give_produce"}) \in Nat
      /\ Unannounced \in Nat /\ Granted \in Nat /\ consume_sem \in Nat /\ MaxSize \in Nat
  BY AtType, QueueAssumption DEF Unannounced, Granted, IInv, TypeOK
<1>4. MaxSize = Len(queue_data) + At(S)
  BY <1>3, Groups, SMTT(30) DEF IInv, SlotsAccounted, ItemsAccounted, PushTimeout
<1>5. Len(queue_data) \in Nat
  BY LenProperties DEF IInv, TypeOK
<1>6. QED
  BY <1>2, <1>4, <1>5

(* A pop that times out finds every stored value in the hands of another   *)
(* thread.                                                                 *)
LEMMA PopRefused ==
  ASSUME IInv, NEW t \in Thread, PopTimeout(t)
  PROVE  Len(queue_data) <= Fifo!OthersDoing(t, {"pushed", "pop"})
<1> DEFINE S == {"give_consume", "lock_pop", "erase"}
<1>1. pc[t] \notin S /\ \A s \in S : Doing(s) \in {"pushed", "pop"}
  BY DEF PopTimeout, Goto, Doing
<1>2. /\ At(S) \in Nat /\ Fifo!OthersDoing(t, {"pushed", "pop"}) \in Nat
      /\ At(S) <= Fifo!OthersDoing(t, {"pushed", "pop"})
  BY <1>1, OthersCount
<1>3. Unannounced \in Nat /\ Granted \in Nat
  BY AtType DEF Unannounced, Granted
<1>4. Len(queue_data) = At(S)
  BY <1>3, Groups DEF IInv, ItemsAccounted, PopTimeout
<1>5. QED
  BY <1>2, <1>4

(* Each step of the queue is a step of the bounded FIFO, or leaves what    *)
(* the FIFO sees as it was.                                                *)
LEMMA StepRefines ==
  ASSUME IInv, Next
  PROVE  [Fifo!Next]_(Fifo!vars)
<1> DEFINE ops == [u \in Thread |-> Doing(pc[u])]
<1>0. pc \in [Thread -> PC]
  BY DEF IInv, TypeOK
<1>1. PICK t \in Thread :
        \/ \E v \in Value : PushCall(t, v)
        \/ TakeProduce(t) \/ PushTimeout(t) \/ LockPush(t) \/ PushBack(t) \/ GiveConsume(t)
        \/ PopCall(t)
        \/ TakeConsume(t) \/ PopTimeout(t) \/ LockPop(t) \/ Erase(t) \/ GiveProduce(t)
  BY DEF Next
<1>2. ASSUME NEW v \in Value, PushCall(t, v)
      PROVE  Fifo!PushCall(t, v)
  <2>1. ops[t] = "idle" /\ ops' = [ops EXCEPT ![t] = "push"]
    BY <1>0, <1>2, OpMove DEF PushCall, Doing
  <2>2. QED
    BY <1>2, <2>1 DEF PushCall, Fifo!PushCall, Fifo!Becomes
<1>3. CASE TakeProduce(t) \/ LockPush(t) \/ TakeConsume(t) \/ LockPop(t)
  <2>1. ops' = ops
    <3>1. ASSUME NEW a, NEW b, Goto(t, a, b), Doing(a) = Doing(b)
          PROVE  ops' = ops
      <4>1. ops[t] = Doing(a) /\ ops' = [ops EXCEPT ![t] = Doing(b)]
        BY <1>0, <3>1, OpMove
      <4>2. QED
        BY <3>1, <4>1
    <3>2. QED
      BY <1>3, <3>1 DEF TakeProduce, LockPush, TakeConsume, LockPop, Doing
  <2>2. UNCHANGED <<queue_data, obj>>
    BY <1>3 DEF TakeProduce, LockPush, TakeConsume, LockPop
  <2>3. QED
    BY <2>1, <2>2 DEF Fifo!vars
<1>4. CASE PushTimeout(t)
  <2>1. ops[t] = "push" /\ ops' = [ops EXCEPT ![t] = "idle"]
    BY <1>0, <1>4, OpMove DEF PushTimeout, Doing
  <2>2. Fifo!PushRefuse(t)
    BY <1>4, <2>1, PushRefused DEF PushTimeout, Fifo!PushRefuse, Fifo!Becomes
  <2>3. QED
    BY <2>2 DEF Fifo!Next
<1>5. CASE PushBack(t)
  <2>1. ops[t] = "push" /\ ops' = [ops EXCEPT ![t] = "pushed"]
    BY <1>0, <1>5, OpMove DEF PushBack, Doing
  <2>2. Len(queue_data') <= MaxSize
    <3>1. IInv'
      BY <1>5, StepIInv DEF PushStep
    <3>2. WithinMaxSize'
      BY <3>1, SizeBounded, PTL
    <3>3. QED
      BY <3>2 DEF WithinMaxSize
  <2>3. Len(queue_data) < MaxSize
    <3>1. Len(queue_data') = Len(queue_data) + 1
      BY <1>5, AppendObj DEF PushBack, Goto, IInv, CarriesValue
    <3>2. Len(queue_data) \in Nat /\ MaxSize \in Nat
      BY LenProperties, QueueAssumption DEF IInv, TypeOK
    <3>3. QED
      BY <2>2, <3>1, <3>2
  <2>4. Fifo!Push(t)
    BY <1>5, <2>1, <2>3 DEF PushBack, Fifo!Push, Fifo!Becomes
  <2>5. QED
    BY <2>4 DEF Fifo!Next
<1>6. CASE PopCall(t)
  <2>1. ops[t] = "idle" /\ ops' = [ops EXCEPT ![t] = "pop"]
    BY <1>0, <1>6, OpMove DEF PopCall, Doing
  <2>2. Fifo!PopCall(t)
    BY <1>6, <2>1 DEF PopCall, Fifo!PopCall, Fifo!Becomes
  <2>3. QED
    BY <2>2 DEF Fifo!Next
<1>7. CASE PopTimeout(t)
  <2>1. ops[t] = "pop" /\ ops' = [ops EXCEPT ![t] = "idle"]
    BY <1>0, <1>7, OpMove DEF PopTimeout, Doing
  <2>2. Fifo!PopRefuse(t)
    BY <1>7, <2>1, PopRefused DEF PopTimeout, Fifo!PopRefuse, Fifo!Becomes
  <2>3. QED
    BY <2>2 DEF Fifo!Next
<1>8. CASE Erase(t)
  <2>1. ops[t] = "pop" /\ ops' = [ops EXCEPT ![t] = "popped"]
    BY <1>0, <1>8, OpMove DEF Erase, Doing
  <2>2. Fifo!Pop(t)
    BY <1>8, <2>1 DEF Erase, Fifo!Pop, Fifo!Becomes
  <2>3. QED
    BY <2>2 DEF Fifo!Next
<1>9. CASE GiveConsume(t)
  <2>1. ops[t] = "pushed" /\ ops' = [ops EXCEPT ![t] = "idle"]
    BY <1>0, <1>9, OpMove DEF GiveConsume, Doing
  <2>2. Fifo!Return(t)
    BY <1>9, <2>1 DEF GiveConsume, Fifo!Return, Fifo!Becomes
  <2>3. QED
    BY <2>2 DEF Fifo!Next
<1>10. CASE GiveProduce(t)
  <2>1. ops[t] = "popped" /\ ops' = [ops EXCEPT ![t] = "idle"]
    BY <1>0, <1>10, OpMove DEF GiveProduce, Doing
  <2>2. Fifo!Return(t)
    BY <1>10, <2>1 DEF GiveProduce, Fifo!Return, Fifo!Becomes
  <2>3. QED
    BY <2>2 DEF Fifo!Next
<1>11. QED
  BY <1>1, <1>2, <1>3, <1>4, <1>5, <1>6, <1>7, <1>8, <1>9, <1>10 DEF Fifo!Next

(* Queue<T> is a bounded FIFO: every behaviour of the detailed queue is    *)
(* one of the abstract queue in which operations are atomic.               *)
THEOREM QueueImplementsFifo == Spec => ImplementsFifo
<1>1. Init => Fifo!Init
  BY DEF Init, Fifo!Init, Doing
<1>2. IInv /\ [Next]_vars => [Fifo!Next]_(Fifo!vars)
  <2>1. UNCHANGED vars => UNCHANGED Fifo!vars
    BY DEF vars, Fifo!vars
  <2>2. QED
    BY <2>1, StepRefines
<1>3. QED
  BY <1>1, <1>2, QueueInvariant, PTL DEF Spec, ImplementsFifo, Fifo!Spec

=============================================================================
