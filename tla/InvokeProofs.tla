---------------------------- MODULE InvokeProofs ----------------------------
(***************************************************************************)
(* Proofs about Invoke, for any finite set of tasks, any size of the queue *)
(* and any number of invocations: an invoked function is never left in the *)
(* queue without a wake-up, handle_queue always finds the functions it     *)
(* counted, and the assertions of the trigger hold.  Functions of one task *)
(* run in order and once: an invariant on the sequence of what is popped   *)
(* and queued, kept by what push_back appends and pop_for takes.           *)
(***************************************************************************)
EXTENDS Invoke, QueueProofs

(* Whatever the queue's variables are left alone, its accounts hold. *)
LEMMA QueueUnchanged == IInv /\ UNCHANGED vars => IInv'
BY DEF vars, IInv, TypeOK, SlotsAccounted, ItemsAccounted, OneInside, CarriesValue,
       PushSlots, PopSlots, Unannounced, Granted, At

(* The types that the arithmetic of the steps needs. *)
LEMMA LoopTypes ==
  ASSUME LoopIInv
  PROVE  /\ Loop \in Thread /\ MaxSize \in Nat /\ MaxInvoke \in Nat
         /\ count \in Nat /\ sent \in Nat /\ ready \in Nat /\ size \in Nat
         /\ produce_sem \in Nat /\ consume_sem \in Nat
         /\ pc \in [Thread -> PC] /\ call \in [Thread -> CallPC]
         /\ queue_mutex \subseteq Thread
         /\ issued \in [Thread -> 0..MaxInvoke] /\ ran \in [Thread -> 0..MaxInvoke]
         /\ queue_data \in Seq(Value) /\ Len(queue_data) \in Nat
         /\ obj \in [Thread -> {<<>>} \cup {<<v>> : v \in Value}]
BY QueueAssumption, InvokeAssumption, LenProperties DEF LoopIInv, LoopTypeOK, IInv, TypeOK

(* The trigger's own steps keep exactly one byte under way. *)
LEMMA TriggerStep ==
  ASSUME count \in Nat, sent \in Nat, ready \in Nat, OneByte,
         Signal \/ Deliver \/ (Confirm /\ ConfirmAssertion) \/ UNCHANGED triggerVars
  PROVE  /\ count' \in Nat /\ sent' \in 0..1 /\ ready' \in 0..1
         /\ OneByte'
BY DEF OneByte, Signal, Deliver, Confirm, ConfirmAssertion, triggerVars

(* While the loop counts, nobody pushes or pops: the deque holds exactly   *)
(* the announced functions.                                                *)
LEMMA AllAnnounced ==
  ASSUME LoopIInv, loop = "confirm"
  PROVE  size = Len(queue_data) /\ consume_sem = Len(queue_data)
<1>1. \A t \in Thread : pc[t] = "idle"
  <2>1. Loop \in queue_mutex
    BY LoopTypes DEF LoopIInv, QueueLocked
  <2>2. \A t \in Thread : call[t] # "push"
    BY <2>1, LoopTypes DEF LoopIInv, QueueLocked, Stages
  <2>3. QED
    BY <2>2 DEF LoopIInv, Stages
<1>2. Unannounced = 0 /\ Granted = 0
  <2>1. /\ {t \in Thread : pc[t] \in {"give_consume"}} = {}
        /\ {t \in Thread : pc[t] \in {"lock_pop", "erase"}} = {}
    BY <1>1
  <2>2. QED
    BY <2>1, FS_EmptySet DEF Unannounced, Granted, At
<1>3. QED
  BY <1>2, LoopTypes DEF LoopIInv, IInv, ItemsAccounted, BatchCounted

(* The accounts, the trigger and the locks hold at the start. *)
LEMMA InitLoopIInv == LoopInit => LoopIInv
<1> SUFFICES ASSUME LoopInit
             PROVE  LoopIInv
  OBVIOUS
<1>1. IInv
  BY InitIInv DEF LoopInit
<1>2. LoopTypeOK
  BY <1>1, InvokeAssumption, QueueAssumption
  DEF LoopInit, TriggerInit, LoopTypeOK, IInv, LoopPC, CallPC
<1>3. OneByte /\ WokenByByte
  BY DEF LoopInit, TriggerInit, OneByte, WokenByByte
<1>4. QueueLocked /\ Stages
  BY InvokeAssumption DEF LoopInit, Init, QueueLocked, Stages
<1>5. Announced /\ BatchCounted
  <2>1. Len(queue_data) = 0 /\ Batch = 0
    BY DEF LoopInit, Init, Batch
  <2>2. QED
    BY <2>1 DEF LoopInit, Announced, BatchCounted
<1>6. QED
  BY <1>1, <1>2, <1>3, <1>4, <1>5 DEF LoopIInv

(* InvokeCall keeps the invariant. *)
LEMMA InvokeCallKeeps ==
  ASSUME LoopIInv, NEW t \in Thread, InvokeCall(t)
  PROVE  LoopIInv'
<1>1. IInv'
  BY QueueUnchanged DEF InvokeCall, LoopIInv, queueVars
<1>2. count' \in Nat /\ sent' \in 0..1 /\ ready' \in 0..1 /\ OneByte'
  BY LoopTypes, TriggerStep DEF InvokeCall, LoopIInv, invokeVars
<1>3. LoopTypeOK'
  BY <1>1, <1>2, LoopTypes, InvokeAssumption
  DEF LoopTypeOK, LoopIInv, IInv, LoopPC, CallPC, InvokeCall, CallGoto, MayCall, queueVars,
      vars, triggerVars, invokeVars
<1>4. WokenByByte'
  BY LoopTypes DEF LoopIInv, WokenByByte, OneByte, Stages, InvokeCall, CallGoto, MayCall,
      queueVars, vars, triggerVars, invokeVars
<1>5. QueueLocked'
  BY LoopTypes DEF LoopIInv, QueueLocked, Stages, CallPC, InvokeCall, CallGoto, MayCall,
      queueVars, vars, triggerVars, invokeVars
<1>6. Stages'
  <2>1. /\ call[t] = "idle" /\ (t = Loop => loop \in {"run", "io"})
        /\ call' = [call EXCEPT ![t] = "lock"]
        /\ loop' = loop /\ pc' = pc
    BY DEF InvokeCall, CallGoto, MayCall, queueVars, vars
  <2>2. issued'[t] > 0 /\ \A u \in Thread \ {t} : issued'[u] = issued[u]
    BY LoopTypes DEF InvokeCall
  <2>3. QED
    BY <2>1, <2>2, LoopTypes DEF LoopIInv, Stages
<1>7. Announced'
  BY LoopTypes DEF LoopIInv, Announced, Batch, Popping, QueueLocked, Stages, InvokeCall,
      CallGoto, MayCall, queueVars, vars, triggerVars, invokeVars
<1>8. BatchCounted'
  BY LoopTypes DEF LoopIInv, BatchCounted, QueueLocked, Stages, PushPC, InvokeCall,
      CallGoto, MayCall, queueVars, vars, triggerVars, invokeVars
<1>9. QED
  BY <1>1, <1>2, <1>3, <1>4, <1>5, <1>6, <1>7, <1>8 DEF LoopIInv

(* InvokeLock keeps the invariant. *)
LEMMA InvokeLockKeeps ==
  ASSUME LoopIInv, NEW t \in Thread, InvokeLock(t)
  PROVE  LoopIInv'
<1>1. IInv'
  <2>1. issued[t] \in 1..MaxInvoke
    BY LoopTypes, SMTT(30) DEF LoopIInv, Stages, InvokeLock, CallGoto
  <2>2. <<t, issued[t]>> \in Value
    BY <2>1, InvokeAssumption
  <2>3. QED
    BY <2>2, StepIInv DEF InvokeLock, LoopIInv
<1>2. count' \in Nat /\ sent' \in 0..1 /\ ready' \in 0..1 /\ OneByte'
  BY LoopTypes, TriggerStep DEF InvokeLock, LoopIInv, invokeVars
<1>3. LoopTypeOK'
  BY <1>1, <1>2, LoopTypes, InvokeAssumption
  DEF LoopTypeOK, LoopIInv, IInv, LoopPC, CallPC, InvokeLock, CallGoto, PushCall, Goto,
      queueVars, vars, triggerVars, invokeVars
<1>4. WokenByByte'
  BY LoopTypes DEF LoopIInv, WokenByByte, OneByte, Stages, InvokeLock, CallGoto, PushCall,
      Goto, queueVars, vars, triggerVars, invokeVars
<1>5. QueueLocked'
  BY LoopTypes DEF LoopIInv, QueueLocked, Stages, CallPC, InvokeLock, CallGoto, PushCall,
      Goto, queueVars, vars, triggerVars, invokeVars
<1>6. Stages'
  BY LoopTypes DEF LoopIInv, QueueLocked, Stages, PC, PushPC, PopPC, InvokeLock, CallGoto,
      PushCall, Goto, queueVars, vars, triggerVars, invokeVars
<1>7. Announced'
  BY LoopTypes DEF LoopIInv, Announced, Batch, Popping, QueueLocked, Stages, InvokeLock,
      CallGoto, PushCall, Goto, queueVars, vars, triggerVars, invokeVars
<1>8. BatchCounted'
  BY LoopTypes DEF LoopIInv, BatchCounted, QueueLocked, Stages, PushPC, InvokeLock,
      CallGoto, PushCall, Goto, queueVars, vars, triggerVars, invokeVars
<1>9. QED
  BY <1>1, <1>2, <1>3, <1>4, <1>5, <1>6, <1>7, <1>8 DEF LoopIInv

(* InvokePush keeps the invariant. *)
LEMMA InvokePushKeeps ==
  ASSUME LoopIInv, NEW t \in Thread, InvokePush(t)
  PROVE  LoopIInv'
<1>1. IInv'
  BY StepIInv DEF InvokePush, PushStep, LoopIInv
<1>2. count' \in Nat /\ sent' \in 0..1 /\ ready' \in 0..1 /\ OneByte'
  BY LoopTypes, TriggerStep DEF InvokePush, LoopIInv, invokeVars
<1>3. LoopTypeOK'
  BY <1>1, <1>2, LoopTypes, InvokeAssumption
  DEF LoopTypeOK, LoopIInv, IInv, LoopPC, CallPC, InvokePush, TakeProduce, LockPush,
      PushBack, Goto, queueVars, vars, triggerVars, invokeVars
<1>4. WokenByByte'
  BY LoopTypes DEF LoopIInv, WokenByByte, OneByte, Stages, InvokePush, TakeProduce,
      LockPush, PushBack, Goto, queueVars, vars, triggerVars, invokeVars
<1>5. QueueLocked'
  BY LoopTypes DEF LoopIInv, QueueLocked, Stages, CallPC, InvokePush, TakeProduce, LockPush,
      PushBack, Goto, queueVars, vars, triggerVars, invokeVars
<1>6. Stages'
  BY LoopTypes DEF LoopIInv, QueueLocked, Stages, PC, PushPC, PopPC, InvokePush,
      TakeProduce, LockPush, PushBack, Goto, queueVars, vars, triggerVars, invokeVars
<1>7. Announced'
  BY LoopTypes DEF LoopIInv, Announced, Batch, Popping, QueueLocked, Stages, InvokePush,
      TakeProduce, LockPush, PushBack, Goto, queueVars, vars, triggerVars, invokeVars
<1>8. BatchCounted'
  BY LoopTypes, SMTT(30) DEF LoopIInv, BatchCounted, QueueLocked, Stages, PushPC, InvokePush,
      TakeProduce, LockPush, PushBack, Goto, queueVars, vars, triggerVars, invokeVars
<1>9. QED
  BY <1>1, <1>2, <1>3, <1>4, <1>5, <1>6, <1>7, <1>8 DEF LoopIInv

(* InvokePushed keeps the invariant. *)
LEMMA InvokePushedKeeps ==
  ASSUME LoopIInv, NEW t \in Thread, InvokePushed(t)
  PROVE  LoopIInv'
<1>1. IInv'
  BY StepIInv DEF InvokePushed, PushStep, LoopIInv
<1>2. count' \in Nat /\ sent' \in 0..1 /\ ready' \in 0..1 /\ OneByte'
  BY LoopTypes, TriggerStep DEF InvokePushed, LoopIInv, invokeVars
<1>3. LoopTypeOK'
  BY <1>1, <1>2, LoopTypes, InvokeAssumption
  DEF LoopTypeOK, LoopIInv, IInv, LoopPC, CallPC, InvokePushed, CallGoto, GiveConsume, Give,
      PushTimeout, Goto, queueVars, vars, triggerVars, invokeVars
<1>4. WokenByByte'
  BY LoopTypes DEF LoopIInv, WokenByByte, OneByte, Stages, InvokePushed, CallGoto,
      GiveConsume, Give, PushTimeout, Goto, queueVars, vars, triggerVars, invokeVars
<1>5. QueueLocked'
  BY LoopTypes DEF LoopIInv, QueueLocked, Stages, CallPC, InvokePushed, CallGoto,
      GiveConsume, Give, PushTimeout, Goto, queueVars, vars, triggerVars, invokeVars
<1>6. Stages'
  BY LoopTypes DEF LoopIInv, QueueLocked, Stages, PC, PushPC, PopPC, InvokePushed, CallGoto,
      GiveConsume, Give, PushTimeout, Goto, queueVars, vars, triggerVars, invokeVars
<1>7. Announced'
  BY LoopTypes DEF LoopIInv, Announced, Batch, Popping, QueueLocked, Stages, InvokePushed,
      CallGoto, GiveConsume, Give, PushTimeout, Goto, queueVars, vars, triggerVars,
      invokeVars
<1>8. BatchCounted'
  BY LoopTypes, SMTT(30) DEF LoopIInv, BatchCounted, QueueLocked, Stages, PushPC, InvokePushed,
      CallGoto, GiveConsume, Give, PushTimeout, Goto, queueVars, vars, triggerVars,
      invokeVars
<1>9. QED
  BY <1>1, <1>2, <1>3, <1>4, <1>5, <1>6, <1>7, <1>8 DEF LoopIInv

(* InvokeSignal keeps the invariant. *)
LEMMA InvokeSignalKeeps ==
  ASSUME LoopIInv, NEW t \in Thread, InvokeSignal(t)
  PROVE  LoopIInv'
<1>1. IInv'
  BY QueueUnchanged DEF InvokeSignal, LoopIInv, queueVars
<1>2. count' \in Nat /\ sent' \in 0..1 /\ ready' \in 0..1 /\ OneByte'
  BY LoopTypes, TriggerStep DEF InvokeSignal, LoopIInv
<1>3. LoopTypeOK'
  BY <1>1, <1>2, LoopTypes, InvokeAssumption
  DEF LoopTypeOK, LoopIInv, IInv, LoopPC, CallPC, InvokeSignal, CallGoto, Signal, queueVars,
      vars, triggerVars, invokeVars
<1>4. WokenByByte'
  BY LoopTypes DEF LoopIInv, WokenByByte, OneByte, Stages, InvokeSignal, CallGoto, Signal,
      queueVars, vars, triggerVars, invokeVars
<1>5. QueueLocked'
  BY LoopTypes DEF LoopIInv, QueueLocked, Stages, CallPC, InvokeSignal, CallGoto, Signal,
      queueVars, vars, triggerVars, invokeVars
<1>6. Stages'
  BY LoopTypes DEF LoopIInv, QueueLocked, Stages, PC, PushPC, PopPC, InvokeSignal, CallGoto,
      Signal, queueVars, vars, triggerVars, invokeVars
<1>7. Announced'
  BY LoopTypes DEF LoopIInv, Announced, Batch, Popping, QueueLocked, Stages, InvokeSignal,
      CallGoto, Signal, queueVars, vars, triggerVars, invokeVars
<1>8. BatchCounted'
  BY LoopTypes DEF LoopIInv, BatchCounted, QueueLocked, Stages, PushPC, InvokeSignal,
      CallGoto, Signal, queueVars, vars, triggerVars, invokeVars
<1>9. QED
  BY <1>1, <1>2, <1>3, <1>4, <1>5, <1>6, <1>7, <1>8 DEF LoopIInv

(* OtherSignal keeps the invariant. *)
LEMMA OtherSignalKeeps ==
  ASSUME LoopIInv, NEW t \in Thread, OtherSignal(t)
  PROVE  LoopIInv'
<1>1. IInv'
  BY QueueUnchanged DEF OtherSignal, LoopIInv, queueVars
<1>2. count' \in Nat /\ sent' \in 0..1 /\ ready' \in 0..1 /\ OneByte'
  BY LoopTypes, TriggerStep DEF OtherSignal, LoopIInv
<1>3. LoopTypeOK'
  BY <1>1, <1>2, LoopTypes, InvokeAssumption
  DEF LoopTypeOK, LoopIInv, IInv, LoopPC, CallPC, OtherSignal, Signal, queueVars, vars,
      triggerVars, invokeVars
<1>4. WokenByByte'
  BY LoopTypes DEF LoopIInv, WokenByByte, OneByte, Stages, OtherSignal, Signal, queueVars,
      vars, triggerVars, invokeVars
<1>5. QueueLocked'
  BY LoopTypes DEF LoopIInv, QueueLocked, Stages, CallPC, OtherSignal, Signal, queueVars,
      vars, triggerVars, invokeVars
<1>6. Stages'
  BY LoopTypes DEF LoopIInv, QueueLocked, Stages, PC, PushPC, PopPC, OtherSignal, Signal,
      queueVars, vars, triggerVars, invokeVars
<1>7. Announced'
  BY LoopTypes DEF LoopIInv, Announced, Batch, Popping, QueueLocked, Stages, OtherSignal,
      Signal, queueVars, vars, triggerVars, invokeVars
<1>8. BatchCounted'
  BY LoopTypes DEF LoopIInv, BatchCounted, QueueLocked, Stages, PushPC, OtherSignal, Signal,
      queueVars, vars, triggerVars, invokeVars
<1>9. QED
  BY <1>1, <1>2, <1>3, <1>4, <1>5, <1>6, <1>7, <1>8 DEF LoopIInv

(* DeliverSignal keeps the invariant. *)
LEMMA DeliverSignalKeeps ==
  ASSUME LoopIInv, DeliverSignal
  PROVE  LoopIInv'
<1>1. IInv'
  BY QueueUnchanged DEF DeliverSignal, LoopIInv, queueVars
<1>2. count' \in Nat /\ sent' \in 0..1 /\ ready' \in 0..1 /\ OneByte'
  BY LoopTypes, TriggerStep DEF DeliverSignal, LoopIInv
<1>3. LoopTypeOK'
  BY <1>1, <1>2, LoopTypes, InvokeAssumption
  DEF LoopTypeOK, LoopIInv, IInv, LoopPC, CallPC, DeliverSignal, Deliver, queueVars, vars,
      triggerVars, invokeVars
<1>4. WokenByByte'
  BY LoopTypes, SMTT(30) DEF LoopIInv, WokenByByte, OneByte, Stages, DeliverSignal, Deliver,
      queueVars, vars, triggerVars, invokeVars
<1>5. QueueLocked'
  BY LoopTypes DEF LoopIInv, QueueLocked, Stages, CallPC, DeliverSignal, Deliver, queueVars,
      vars, triggerVars, invokeVars
<1>6. Stages'
  <2>1. pc' = pc /\ call' = call /\ loop' = loop /\ issued' = issued
    BY DEF DeliverSignal, queueVars, vars, invokeVars
  <2>2. QED
    BY <2>1 DEF LoopIInv, Stages
<1>7. Announced'
  BY LoopTypes DEF LoopIInv, Announced, Batch, Popping, QueueLocked, Stages, DeliverSignal,
      Deliver, queueVars, vars, triggerVars, invokeVars
<1>8. BatchCounted'
  BY LoopTypes DEF LoopIInv, BatchCounted, QueueLocked, Stages, PushPC, DeliverSignal,
      Deliver, queueVars, vars, triggerVars, invokeVars
<1>9. QED
  BY <1>1, <1>2, <1>3, <1>4, <1>5, <1>6, <1>7, <1>8 DEF LoopIInv

(* Wake keeps the invariant. *)
LEMMA WakeKeeps ==
  ASSUME LoopIInv, Wake
  PROVE  LoopIInv'
<1>1. IInv'
  BY QueueUnchanged DEF Wake, LoopIInv, queueVars
<1>2. count' \in Nat /\ sent' \in 0..1 /\ ready' \in 0..1 /\ OneByte'
  BY LoopTypes, TriggerStep DEF Wake, LoopIInv, invokeVars
<1>3. LoopTypeOK'
  BY <1>1, <1>2, LoopTypes, InvokeAssumption
  DEF LoopTypeOK, LoopIInv, IInv, LoopPC, CallPC, Wake, LoopGoto, queueVars, vars,
      triggerVars, invokeVars
<1>4. WokenByByte'
  BY LoopTypes DEF LoopIInv, WokenByByte, OneByte, Stages, Wake, LoopGoto, queueVars, vars,
      triggerVars, invokeVars
<1>5. QueueLocked'
  BY LoopTypes DEF LoopIInv, QueueLocked, Stages, CallPC, Wake, LoopGoto, queueVars, vars,
      triggerVars, invokeVars
<1>6. Stages'
  BY LoopTypes DEF LoopIInv, QueueLocked, Stages, PC, PushPC, PopPC, Wake, LoopGoto,
      queueVars, vars, triggerVars, invokeVars
<1>7. Announced'
  BY LoopTypes DEF LoopIInv, Announced, Batch, Popping, QueueLocked, Stages, Wake, LoopGoto,
      queueVars, vars, triggerVars, invokeVars
<1>8. BatchCounted'
  BY LoopTypes DEF LoopIInv, BatchCounted, QueueLocked, Stages, PushPC, Wake, LoopGoto,
      queueVars, vars, triggerVars, invokeVars
<1>9. QED
  BY <1>1, <1>2, <1>3, <1>4, <1>5, <1>6, <1>7, <1>8 DEF LoopIInv

(* WakeOther keeps the invariant. *)
LEMMA WakeOtherKeeps ==
  ASSUME LoopIInv, WakeOther
  PROVE  LoopIInv'
<1>1. IInv'
  BY QueueUnchanged DEF WakeOther, LoopIInv, queueVars
<1>2. count' \in Nat /\ sent' \in 0..1 /\ ready' \in 0..1 /\ OneByte'
  BY LoopTypes, TriggerStep DEF WakeOther, LoopIInv, invokeVars
<1>3. LoopTypeOK'
  BY <1>1, <1>2, LoopTypes, InvokeAssumption
  DEF LoopTypeOK, LoopIInv, IInv, LoopPC, CallPC, WakeOther, LoopGoto, queueVars, vars,
      triggerVars, invokeVars
<1>4. WokenByByte'
  BY LoopTypes DEF LoopIInv, WokenByByte, OneByte, Stages, WakeOther, LoopGoto, queueVars,
      vars, triggerVars, invokeVars
<1>5. QueueLocked'
  BY LoopTypes DEF LoopIInv, QueueLocked, Stages, CallPC, WakeOther, LoopGoto, queueVars,
      vars, triggerVars, invokeVars
<1>6. Stages'
  BY LoopTypes DEF LoopIInv, QueueLocked, Stages, PC, PushPC, PopPC, WakeOther, LoopGoto,
      queueVars, vars, triggerVars, invokeVars
<1>7. Announced'
  BY LoopTypes DEF LoopIInv, Announced, Batch, Popping, QueueLocked, Stages, WakeOther,
      LoopGoto, queueVars, vars, triggerVars, invokeVars
<1>8. BatchCounted'
  BY LoopTypes DEF LoopIInv, BatchCounted, QueueLocked, Stages, PushPC, WakeOther, LoopGoto,
      queueVars, vars, triggerVars, invokeVars
<1>9. QED
  BY <1>1, <1>2, <1>3, <1>4, <1>5, <1>6, <1>7, <1>8 DEF LoopIInv

(* LockQueue keeps the invariant. *)
LEMMA LockQueueKeeps ==
  ASSUME LoopIInv, LockQueue
  PROVE  LoopIInv'
<1>1. IInv'
  BY QueueUnchanged DEF LockQueue, LoopIInv, queueVars
<1>2. count' \in Nat /\ sent' \in 0..1 /\ ready' \in 0..1 /\ OneByte'
  BY LoopTypes, TriggerStep DEF LockQueue, LoopIInv, invokeVars
<1>3. LoopTypeOK'
  BY <1>1, <1>2, LoopTypes, InvokeAssumption
  DEF LoopTypeOK, LoopIInv, IInv, LoopPC, CallPC, LockQueue, LoopGoto, queueVars, vars,
      triggerVars, invokeVars
<1>4. WokenByByte'
  BY LoopTypes DEF LoopIInv, WokenByByte, OneByte, Stages, LockQueue, LoopGoto, queueVars,
      vars, triggerVars, invokeVars
<1>5. QueueLocked'
  BY LoopTypes DEF LoopIInv, QueueLocked, Stages, CallPC, LockQueue, LoopGoto, queueVars,
      vars, triggerVars, invokeVars
<1>6. Stages'
  BY LoopTypes DEF LoopIInv, QueueLocked, Stages, PC, PushPC, PopPC, LockQueue, LoopGoto,
      queueVars, vars, triggerVars, invokeVars
<1>7. Announced'
  BY LoopTypes DEF LoopIInv, Announced, Batch, Popping, QueueLocked, Stages, LockQueue,
      LoopGoto, queueVars, vars, triggerVars, invokeVars
<1>8. BatchCounted'
  BY LoopTypes DEF LoopIInv, BatchCounted, QueueLocked, Stages, PushPC, LockQueue, LoopGoto,
      queueVars, vars, triggerVars, invokeVars
<1>9. QED
  BY <1>1, <1>2, <1>3, <1>4, <1>5, <1>6, <1>7, <1>8 DEF LoopIInv

(* ReadSize keeps the invariant. *)
LEMMA ReadSizeKeeps ==
  ASSUME LoopIInv, ReadSize
  PROVE  LoopIInv'
<1>1. IInv'
  BY QueueUnchanged DEF ReadSize, LoopIInv, queueVars
<1>2. count' \in Nat /\ sent' \in 0..1 /\ ready' \in 0..1 /\ OneByte'
  BY LoopTypes, TriggerStep DEF ReadSize, LoopIInv, invokeVars
<1>3. LoopTypeOK'
  BY <1>1, <1>2, LoopTypes, InvokeAssumption
  DEF LoopTypeOK, LoopIInv, IInv, LoopPC, CallPC, ReadSize, LoopGoto, SizeIs, queueVars,
      vars, triggerVars, invokeVars
<1>4. WokenByByte'
  BY LoopTypes DEF LoopIInv, WokenByByte, OneByte, Stages, ReadSize, LoopGoto, SizeIs,
      queueVars, vars, triggerVars, invokeVars
<1>5. QueueLocked'
  BY LoopTypes DEF LoopIInv, QueueLocked, Stages, CallPC, ReadSize, LoopGoto, SizeIs,
      queueVars, vars, triggerVars, invokeVars
<1>6. Stages'
  BY LoopTypes DEF LoopIInv, QueueLocked, Stages, PC, PushPC, PopPC, ReadSize, LoopGoto,
      SizeIs, queueVars, vars, triggerVars, invokeVars
<1>7. Announced'
  BY LoopTypes DEF LoopIInv, Announced, Batch, Popping, QueueLocked, Stages, ReadSize,
      LoopGoto, SizeIs, queueVars, vars, triggerVars, invokeVars
<1>8. BatchCounted'
  BY LoopTypes DEF LoopIInv, BatchCounted, QueueLocked, Stages, PushPC, ReadSize, LoopGoto,
      SizeIs, queueVars, vars, triggerVars, invokeVars
<1>9. QED
  BY <1>1, <1>2, <1>3, <1>4, <1>5, <1>6, <1>7, <1>8 DEF LoopIInv

(* ConfirmQueue keeps the invariant. *)
LEMMA ConfirmQueueKeeps ==
  ASSUME LoopIInv, ConfirmQueue
  PROVE  LoopIInv'
<1>1. IInv'
  BY QueueUnchanged DEF ConfirmQueue, LoopIInv, queueVars
<1>2. count' \in Nat /\ sent' \in 0..1 /\ ready' \in 0..1 /\ OneByte'
  <2>1. ConfirmAssertion
    BY DEF ConfirmQueue, LoopGoto, LoopIInv, WokenByByte, ConfirmAssertion
  <2>2. QED
    BY <2>1, LoopTypes, TriggerStep DEF ConfirmQueue, LoopIInv
<1>3. LoopTypeOK'
  BY <1>1, <1>2, LoopTypes, InvokeAssumption
  DEF LoopTypeOK, LoopIInv, IInv, LoopPC, CallPC, ConfirmQueue, LoopGoto, Confirm,
      queueVars, vars, triggerVars, invokeVars
<1>4. WokenByByte'
  BY LoopTypes DEF LoopIInv, WokenByByte, OneByte, Stages, ConfirmQueue, LoopGoto, Confirm,
      queueVars, vars, triggerVars, invokeVars
<1>5. QueueLocked'
  BY LoopTypes DEF LoopIInv, QueueLocked, Stages, CallPC, ConfirmQueue, LoopGoto, Confirm,
      queueVars, vars, triggerVars, invokeVars
<1>6. Stages'
  BY LoopTypes DEF LoopIInv, QueueLocked, Stages, PC, PushPC, PopPC, ConfirmQueue, LoopGoto,
      Confirm, queueVars, vars, triggerVars, invokeVars
<1>7. Announced'
  <2>1. Batch' = Len(queue_data')
    BY AllAnnounced, LoopTypes DEF ConfirmQueue, LoopGoto, Batch, Popping, queueVars, vars
  <2>2. QED
    BY <2>1, LoopTypes DEF Announced, ConfirmQueue, queueVars, vars
<1>8. BatchCounted'
  BY AllAnnounced, LoopTypes DEF ConfirmQueue, LoopGoto, BatchCounted, queueVars, vars
<1>9. QED
  BY <1>1, <1>2, <1>3, <1>4, <1>5, <1>6, <1>7, <1>8 DEF LoopIInv

(* DrainPop keeps the invariant. *)
LEMMA DrainPopKeeps ==
  ASSUME LoopIInv, DrainPop
  PROVE  LoopIInv'
<1>1. IInv'
  BY StepIInv, LoopTypes DEF DrainPop, LoopIInv
<1>2. count' \in Nat /\ sent' \in 0..1 /\ ready' \in 0..1 /\ OneByte'
  BY LoopTypes, TriggerStep DEF DrainPop, LoopIInv, invokeVars
<1>3. LoopTypeOK'
  BY <1>1, <1>2, LoopTypes, InvokeAssumption
  DEF LoopTypeOK, LoopIInv, IInv, LoopPC, CallPC, DrainPop, LoopGoto, PopCall, Goto,
      queueVars, vars, triggerVars, invokeVars
<1>4. WokenByByte'
  BY LoopTypes DEF LoopIInv, WokenByByte, OneByte, Stages, DrainPop, LoopGoto, PopCall,
      Goto, queueVars, vars, triggerVars, invokeVars
<1>5. QueueLocked'
  BY LoopTypes DEF LoopIInv, QueueLocked, Stages, CallPC, DrainPop, LoopGoto, PopCall, Goto,
      queueVars, vars, triggerVars, invokeVars
<1>6. Stages'
  BY LoopTypes DEF LoopIInv, QueueLocked, Stages, PC, PushPC, PopPC, DrainPop, LoopGoto,
      PopCall, Goto, queueVars, vars, triggerVars, invokeVars
<1>7. Announced'
  BY LoopTypes DEF LoopIInv, Announced, Batch, Popping, QueueLocked, Stages, DrainPop,
      LoopGoto, PopCall, Goto, queueVars, vars, triggerVars, invokeVars
<1>8. BatchCounted'
  BY LoopTypes DEF LoopIInv, BatchCounted, QueueLocked, Stages, PushPC, DrainPop, LoopGoto,
      PopCall, Goto, queueVars, vars, triggerVars, invokeVars
<1>9. QED
  BY <1>1, <1>2, <1>3, <1>4, <1>5, <1>6, <1>7, <1>8 DEF LoopIInv

(* DrainPopStep keeps the invariant. *)
LEMMA DrainPopStepKeeps ==
  ASSUME LoopIInv, DrainPopStep
  PROVE  LoopIInv'
<1>1. IInv'
  BY StepIInv, LoopTypes DEF DrainPopStep, PopStep, LoopIInv
<1>2. count' \in Nat /\ sent' \in 0..1 /\ ready' \in 0..1 /\ OneByte'
  BY LoopTypes, TriggerStep DEF DrainPopStep, LoopIInv, invokeVars
<1>3. LoopTypeOK'
  BY <1>1, <1>2, LoopTypes, InvokeAssumption
  DEF LoopTypeOK, LoopIInv, IInv, LoopPC, CallPC, DrainPopStep, TakeConsume, LockPop, Erase,
      Goto, queueVars, vars, triggerVars, invokeVars
<1>4. WokenByByte'
  BY LoopTypes DEF LoopIInv, WokenByByte, OneByte, Stages, DrainPopStep, TakeConsume,
      LockPop, Erase, Goto, queueVars, vars, triggerVars, invokeVars
<1>5. QueueLocked'
  BY LoopTypes DEF LoopIInv, QueueLocked, Stages, CallPC, DrainPopStep, TakeConsume,
      LockPop, Erase, Goto, queueVars, vars, triggerVars, invokeVars
<1>6. Stages'
  <2>1. /\ loop = "pop" /\ loop' = "pop"
        /\ call' = call /\ issued' = issued
        /\ pc[Loop] # "idle" /\ \E to \in PopPC : pc' = [pc EXCEPT ![Loop] = to]
    BY DEF DrainPopStep, TakeConsume, LockPop, Erase, Goto, PopPC, invokeVars
  <2>2. QED
    BY <2>1, LoopTypes DEF LoopIInv, Stages, PushPC, PopPC
<1>7. Announced'
  BY LoopTypes, SMTT(30) DEF LoopIInv, Announced, Batch, Popping, QueueLocked, Stages, DrainPopStep,
      TakeConsume, LockPop, Erase, Goto, queueVars, vars, triggerVars, invokeVars
<1>8. BatchCounted'
  BY LoopTypes DEF LoopIInv, BatchCounted, QueueLocked, Stages, PushPC, DrainPopStep,
      TakeConsume, LockPop, Erase, Goto, queueVars, vars, triggerVars, invokeVars
<1>9. QED
  BY <1>1, <1>2, <1>3, <1>4, <1>5, <1>6, <1>7, <1>8 DEF LoopIInv

(* PopReturns keeps the invariant. *)
LEMMA PopReturnsKeeps ==
  ASSUME LoopIInv, PopReturns
  PROVE  LoopIInv'
<1>1. IInv'
  BY StepIInv, LoopTypes DEF PopReturns, PopStep, LoopIInv
<1>2. count' \in Nat /\ sent' \in 0..1 /\ ready' \in 0..1 /\ OneByte'
  BY LoopTypes, TriggerStep DEF PopReturns, LoopIInv, invokeVars
<1>3. LoopTypeOK'
  <2>1. ran' \in [Thread -> 0..MaxInvoke]
    <3>1. CASE GiveProduce(Loop)
      <4>1. PICK v \in Value : obj[Loop] = <<v>>
        BY <3>1, LoopTypes DEF GiveProduce, Goto, LoopIInv, IInv, CarriesValue
      <4>2. v[1] \in Thread /\ v[2] \in 0..MaxInvoke
        BY InvokeAssumption
      <4>3. ran' = [ran EXCEPT ![obj[Loop][1][1]] = obj[Loop][1][2]]
        BY <3>1 DEF PopReturns, GiveProduce, PopTimeout, Goto
      <4>4. ran' = [ran EXCEPT ![v[1]] = v[2]]
        BY <4>1, <4>3
      <4>5. QED
        BY <4>2, <4>4, LoopTypes
    <3>2. CASE ~GiveProduce(Loop)
      BY <3>2, LoopTypes DEF PopReturns
    <3>3. QED
      BY <3>1, <3>2
  <2>2. QED
    BY <1>1, <1>2, <2>1, LoopTypes
    DEF LoopTypeOK, LoopIInv, IInv, LoopPC, CallPC, PopReturns, triggerVars
<1>4. WokenByByte'
  BY LoopTypes DEF LoopIInv, WokenByByte, OneByte, Stages, PopReturns, GiveProduce,
      PopTimeout, Goto, queueVars, vars, triggerVars, invokeVars
<1>5. QueueLocked'
  BY LoopTypes DEF LoopIInv, QueueLocked, Stages, CallPC, PopReturns, GiveProduce,
      PopTimeout, Goto, queueVars, vars, triggerVars, invokeVars
<1>6. Stages'
  BY LoopTypes DEF LoopIInv, QueueLocked, Stages, PC, PushPC, PopPC, PopReturns,
      GiveProduce, PopTimeout, Goto, queueVars, vars, triggerVars, invokeVars
<1>7. Announced'
  <2>1. ~PopTimeout(Loop)
    BY LoopTypes DEF LoopIInv, BatchCounted, PopTimeout, Goto, PopReturns
  <2>2. /\ pc[Loop] = "give_produce" /\ pc' = [pc EXCEPT ![Loop] = "idle"]
        /\ loop = "pop" /\ loop' = "run"
        /\ UNCHANGED <<queue_data, count, call, size>>
    BY <2>1 DEF PopReturns, GiveProduce, Goto, triggerVars
  <2>3. Batch' = Batch
    BY <2>2, LoopTypes DEF Batch, Popping
  <2>4. \A t \in Thread : pc[t] = "give_consume" => pc'[t] = "give_consume"
    BY <2>2, LoopTypes
  <2>5. QED
    BY <2>2, <2>3, <2>4 DEF LoopIInv, Announced
<1>8. BatchCounted'
  BY LoopTypes DEF LoopIInv, BatchCounted, QueueLocked, Stages, PushPC, PopReturns,
      GiveProduce, PopTimeout, Goto, queueVars, vars, triggerVars, invokeVars
<1>9. QED
  BY <1>1, <1>2, <1>3, <1>4, <1>5, <1>6, <1>7, <1>8 DEF LoopIInv

(* FuncDone keeps the invariant. *)
LEMMA FuncDoneKeeps ==
  ASSUME LoopIInv, FuncDone
  PROVE  LoopIInv'
<1>1. IInv'
  BY QueueUnchanged DEF FuncDone, LoopIInv, queueVars
<1>2. count' \in Nat /\ sent' \in 0..1 /\ ready' \in 0..1 /\ OneByte'
  BY LoopTypes, TriggerStep DEF FuncDone, LoopIInv, invokeVars
<1>3. LoopTypeOK'
  BY <1>1, <1>2, LoopTypes, InvokeAssumption
  DEF LoopTypeOK, LoopIInv, IInv, LoopPC, CallPC, FuncDone, LoopGoto, queueVars, vars,
      triggerVars, invokeVars
<1>4. WokenByByte'
  BY LoopTypes DEF LoopIInv, WokenByByte, OneByte, Stages, FuncDone, LoopGoto, queueVars,
      vars, triggerVars, invokeVars
<1>5. QueueLocked'
  BY LoopTypes DEF LoopIInv, QueueLocked, Stages, CallPC, FuncDone, LoopGoto, queueVars,
      vars, triggerVars, invokeVars
<1>6. Stages'
  BY LoopTypes DEF LoopIInv, QueueLocked, Stages, PC, PushPC, PopPC, FuncDone, LoopGoto,
      queueVars, vars, triggerVars, invokeVars
<1>7. Announced'
  BY LoopTypes DEF LoopIInv, Announced, Batch, Popping, QueueLocked, Stages, FuncDone,
      LoopGoto, queueVars, vars, triggerVars, invokeVars
<1>8. BatchCounted'
  BY LoopTypes DEF LoopIInv, BatchCounted, QueueLocked, Stages, PushPC, FuncDone, LoopGoto,
      queueVars, vars, triggerVars, invokeVars
<1>9. QED
  BY <1>1, <1>2, <1>3, <1>4, <1>5, <1>6, <1>7, <1>8 DEF LoopIInv

(* DrainDone keeps the invariant. *)
LEMMA DrainDoneKeeps ==
  ASSUME LoopIInv, DrainDone
  PROVE  LoopIInv'
<1>1. IInv'
  BY QueueUnchanged DEF DrainDone, LoopIInv, queueVars
<1>2. count' \in Nat /\ sent' \in 0..1 /\ ready' \in 0..1 /\ OneByte'
  BY LoopTypes, TriggerStep DEF DrainDone, LoopIInv, invokeVars
<1>3. LoopTypeOK'
  BY <1>1, <1>2, LoopTypes, InvokeAssumption
  DEF LoopTypeOK, LoopIInv, IInv, LoopPC, CallPC, DrainDone, LoopGoto, queueVars, vars,
      triggerVars, invokeVars
<1>4. WokenByByte'
  BY LoopTypes DEF LoopIInv, WokenByByte, OneByte, Stages, DrainDone, LoopGoto, queueVars,
      vars, triggerVars, invokeVars
<1>5. QueueLocked'
  BY LoopTypes DEF LoopIInv, QueueLocked, Stages, CallPC, DrainDone, LoopGoto, queueVars,
      vars, triggerVars, invokeVars
<1>6. Stages'
  BY LoopTypes DEF LoopIInv, QueueLocked, Stages, PC, PushPC, PopPC, DrainDone, LoopGoto,
      queueVars, vars, triggerVars, invokeVars
<1>7. Announced'
  BY LoopTypes DEF LoopIInv, Announced, Batch, Popping, QueueLocked, Stages, DrainDone,
      LoopGoto, queueVars, vars, triggerVars, invokeVars
<1>8. BatchCounted'
  BY LoopTypes DEF LoopIInv, BatchCounted, QueueLocked, Stages, PushPC, DrainDone, LoopGoto,
      queueVars, vars, triggerVars, invokeVars
<1>9. QED
  BY <1>1, <1>2, <1>3, <1>4, <1>5, <1>6, <1>7, <1>8 DEF LoopIInv

(* IoDone keeps the invariant. *)
LEMMA IoDoneKeeps ==
  ASSUME LoopIInv, IoDone
  PROVE  LoopIInv'
<1>1. IInv'
  BY QueueUnchanged DEF IoDone, LoopIInv, queueVars
<1>2. count' \in Nat /\ sent' \in 0..1 /\ ready' \in 0..1 /\ OneByte'
  BY LoopTypes, TriggerStep DEF IoDone, LoopIInv, invokeVars
<1>3. LoopTypeOK'
  BY <1>1, <1>2, LoopTypes, InvokeAssumption
  DEF LoopTypeOK, LoopIInv, IInv, LoopPC, CallPC, IoDone, LoopGoto, queueVars, vars,
      triggerVars, invokeVars
<1>4. WokenByByte'
  BY LoopTypes DEF LoopIInv, WokenByByte, OneByte, Stages, IoDone, LoopGoto, queueVars,
      vars, triggerVars, invokeVars
<1>5. QueueLocked'
  BY LoopTypes DEF LoopIInv, QueueLocked, Stages, CallPC, IoDone, LoopGoto, queueVars, vars,
      triggerVars, invokeVars
<1>6. Stages'
  BY LoopTypes DEF LoopIInv, QueueLocked, Stages, PC, PushPC, PopPC, IoDone, LoopGoto,
      queueVars, vars, triggerVars, invokeVars
<1>7. Announced'
  BY LoopTypes DEF LoopIInv, Announced, Batch, Popping, QueueLocked, Stages, IoDone,
      LoopGoto, queueVars, vars, triggerVars, invokeVars
<1>8. BatchCounted'
  BY LoopTypes DEF LoopIInv, BatchCounted, QueueLocked, Stages, PushPC, IoDone, LoopGoto,
      queueVars, vars, triggerVars, invokeVars
<1>9. QED
  BY <1>1, <1>2, <1>3, <1>4, <1>5, <1>6, <1>7, <1>8 DEF LoopIInv

-----------------------------------------------------------------------------

(* Every step of the tasks, the loop and the network keeps the invariant.  *)
THEOREM LoopInvariant == LoopSpec => []LoopIInv
<1>1. LoopIInv /\ [LoopNext]_allVars => LoopIInv'
  <2> SUFFICES ASSUME LoopIInv, [LoopNext]_allVars
               PROVE  LoopIInv'
    OBVIOUS
  <2>1. CASE LoopNext
    <3>1. CASE \E t \in Thread :
                 \/ InvokeCall(t) \/ InvokeLock(t) \/ InvokePush(t)
                 \/ InvokePushed(t) \/ InvokeSignal(t) \/ OtherSignal(t)
      BY <3>1, InvokeCallKeeps, InvokeLockKeeps, InvokePushKeeps, InvokePushedKeeps,
         InvokeSignalKeeps, OtherSignalKeeps
    <3>2. CASE DeliverSignal \/ Wake \/ WakeOther \/ LockQueue \/ ReadSize \/ ConfirmQueue
      BY <3>2, DeliverSignalKeeps, WakeKeeps, WakeOtherKeeps, LockQueueKeeps, ReadSizeKeeps,
         ConfirmQueueKeeps
    <3>3. CASE DrainPop \/ DrainPopStep \/ PopReturns \/ FuncDone \/ DrainDone \/ IoDone
      BY <3>3, DrainPopKeeps, DrainPopStepKeeps, PopReturnsKeeps, FuncDoneKeeps,
         DrainDoneKeeps, IoDoneKeeps
    <3>4. QED
      BY <2>1, <3>1, <3>2, <3>3 DEF LoopNext
  <2>2. CASE UNCHANGED allVars
    <3>1. IInv'
      BY <2>2, QueueUnchanged DEF allVars, queueVars, LoopIInv
    <3>2. QED
      BY <2>2, <3>1
      DEF allVars, queueVars, vars, triggerVars, invokeVars, LoopIInv, LoopTypeOK, IInv,
          OneByte,
          WokenByByte, QueueLocked, Stages, Announced, Batch, Popping, BatchCounted
  <2>3. QED
    BY <2>1, <2>2
<1>2. QED
  BY InitLoopIInv, <1>1, PTL DEF LoopSpec

(* No lost wake-up: whatever is queued and not in the batch of the loop is *)
(* announced, or about to be.                                              *)
THEOREM NoLostWakeup == LoopSpec => []Announced
<1>1. LoopIInv => Announced
  BY DEF LoopIInv
<1>2. QED
  BY <1>1, LoopInvariant, PTL

(* pop_for(0) in handle_queue always returns a function.                   *)
THEOREM DrainFinds == LoopSpec => []DrainNeverMisses
<1>1. LoopIInv => DrainNeverMisses
  <2> SUFFICES ASSUME LoopIInv, loop = "pop", pc[Loop] = "take_consume"
               PROVE  consume_sem > 0
    BY DEF DrainNeverMisses
  <2>1. QED
    BY LoopTypes DEF LoopIInv, BatchCounted
<1>2. QED
  BY <1>1, LoopInvariant, PTL

(* "Failed to confirm trigger" is never reached.                           *)
THEOREM ConfirmNeverFails == LoopSpec => []ConfirmSucceeds
<1>1. LoopIInv => ConfirmSucceeds
  BY LoopTypes DEF LoopIInv, WokenByByte, OneByte, ConfirmSucceeds, ConfirmAssertion
<1>2. QED
  BY <1>1, LoopInvariant, PTL

(* A step of the trigger is a step of a Wakeup, or changes nothing of it.  *)
LEMMA TriggerStepWakes ==
  ASSUME count \in Nat, sent \in 0..1, ready \in 0..1, OneByte,
         Signal \/ Deliver \/ (Confirm /\ count > 0 /\ ready = 1) \/ UNCHANGED triggerVars
  PROVE  W!WakeNext \/ wakeBar' = wakeBar
<1>1. CASE Signal
  BY <1>1 DEF Signal, OneByte, wakeBar, W!WakeNext, W!WakeSignal
<1>2. CASE Deliver
  BY <1>2 DEF Deliver, OneByte, wakeBar, W!WakeNext, W!WakeDeliver
<1>3. CASE Confirm /\ count > 0 /\ ready = 1
  BY <1>3 DEF Confirm, OneByte, wakeBar, W!WakeNext, W!WakeConfirm
<1>4. CASE UNCHANGED triggerVars
  BY <1>4 DEF triggerVars, wakeBar
<1>5. QED
  BY <1>1, <1>2, <1>3, <1>4

(* What the main loop does with its trigger implements a Wakeup: requests  *)
(* are merged, each becomes visible, and a confirm always follows one that *)
(* is visible.                                                             *)
THEOREM TriggerImplementsWakeup == LoopSpec => TriggerIsWakeup
<1>1. LoopInit => W!WakeInit
  BY DEF LoopInit, TriggerInit, W!WakeInit, wakeBar
<1>2. LoopIInv /\ [LoopNext]_allVars => [W!WakeNext]_wakeBar
  <2> SUFFICES ASSUME LoopIInv, [LoopNext]_allVars
               PROVE  W!WakeNext \/ wakeBar' = wakeBar
    OBVIOUS
  <2>1. count \in Nat /\ sent \in 0..1 /\ ready \in 0..1 /\ OneByte
    BY DEF LoopIInv, LoopTypeOK
  <2>2. Signal \/ Deliver \/ (Confirm /\ count > 0 /\ ready = 1) \/ UNCHANGED triggerVars
    <3>1. CASE ConfirmQueue
      BY <3>1, <2>1 DEF ConfirmQueue, LoopGoto, LoopIInv, WokenByByte, OneByte
    <3>2. CASE LoopNext /\ ~ConfirmQueue
      BY <3>2 DEF LoopNext, InvokeCall, InvokeLock, InvokePush, InvokePushed, InvokeSignal,
          OtherSignal, DeliverSignal, Wake, WakeOther, LockQueue, ReadSize, DrainPop,
          DrainPopStep, PopReturns, FuncDone, DrainDone, IoDone
    <3>3. CASE UNCHANGED allVars
      BY <3>3 DEF allVars
    <3>4. QED
      BY <3>1, <3>2, <3>3
  <2>3. QED
    BY <2>1, <2>2, TriggerStepWakes
<1>3. QED
  BY <1>1, <1>2, LoopInvariant, PTL DEF LoopSpec, TriggerIsWakeup, W!WakeSpec

-----------------------------------------------------------------------------
(* A function of another task at the end changes nothing for t; the next   *)
(* one of t itself extends its numbers.                                    *)
LEMMA ConsecutiveAppend ==
  ASSUME NEW s \in Seq(Thread \X Nat), NEW t \in Thread, NEW u \in Thread,
         NEW lo \in Nat, NEW hi \in Nat, NEW n \in Nat,
         Consecutive(s, t, lo, hi),
         u = t => n = hi + 1
  PROVE  Consecutive(s \o <<<<u, n>>>>, t, lo, IF u = t THEN hi + 1 ELSE hi)
<1> DEFINE r == s \o <<<<u, n>>>>
           top == IF u = t THEN hi + 1 ELSE hi
<1>1. /\ Len(s) \in Nat /\ DOMAIN s = 1..Len(s)
      /\ Len(r) = Len(s) + 1 /\ DOMAIN r = 1..(Len(s) + 1)
      /\ \A i \in 1..Len(s) : r[i] = s[i]
      /\ r[Len(s) + 1] = <<u, n>>
  OBVIOUS
<1>2. /\ lo <= hi
      /\ {s[i][2] : i \in Of(s, t)} = (lo + 1)..hi
      /\ \A i, j \in Of(s, t) : i < j => s[i][2] < s[j][2]
  BY DEF Consecutive
<1> HIDE DEF r
<1> SUFFICES Consecutive(r, t, lo, top)
  BY DEF r
<1>3. Of(r, t) = IF u = t THEN Of(s, t) \cup {Len(s) + 1} ELSE Of(s, t)
  BY <1>1 DEF Of
<1>4. \A i \in Of(s, t) : r[i] = s[i] /\ i < Len(s) + 1 /\ i \in Nat
  BY <1>1 DEF Of
<1>5. \A i \in Of(s, t) : s[i][2] \in (lo + 1)..hi
  BY <1>2
<1>6. CASE u # t
  <2>1. Of(r, t) = Of(s, t) /\ \A i \in Of(r, t) : r[i] = s[i]
    BY <1>3, <1>4, <1>6
  <2>2. {r[i][2] : i \in Of(r, t)} = {s[i][2] : i \in Of(s, t)}
    BY <2>1
  <2>3. {r[i][2] : i \in Of(r, t)} = (lo + 1)..hi
    BY <1>2, <2>2
  <2>4. QED
    BY <2>1, <2>3, <1>2, <1>3, <1>4, <1>6 DEF Consecutive
<1>7. CASE u = t
  <2>1. {r[i][2] : i \in Of(r, t)} = {s[i][2] : i \in Of(s, t)} \cup {n}
    BY <1>1, <1>3, <1>4, <1>7
  <2>2. {r[i][2] : i \in Of(r, t)} = (lo + 1)..(hi + 1)
    <3>1. n = hi + 1 /\ (lo + 1)..(hi + 1) = (lo + 1)..hi \cup {hi + 1}
      BY <1>2, <1>7, SMT
    <3>2. QED
      BY <2>1, <3>1, <1>2, Zenon
  <2>3. ASSUME NEW i \in Of(r, t), NEW j \in Of(r, t), i < j
        PROVE  r[i][2] < r[j][2]
    <3>1. i \in Of(s, t)
      BY <1>1, <1>3, <1>4, <1>7, <2>3, SMT
    <3>2. CASE j \in Of(s, t)
      BY <3>1, <3>2, <1>2, <1>4, <2>3
    <3>3. CASE j = Len(s) + 1
      <4>1. r[i][2] \in (lo + 1)..hi
        BY <3>1, <1>4, <1>5
      <4>2. r[j][2] = hi + 1
        BY <3>3, <1>1, <1>7
      <4>3. QED
        BY <4>1, <4>2, SMT
    <3>4. QED
      BY <3>2, <3>3, <1>3, <1>7
  <2>4. QED
    BY <2>2, <2>3, <1>2, <1>7, SMT DEF Consecutive
<1>8. QED
  BY <1>6, <1>7

(* What is taken from the front is the next one of its task. *)
LEMMA ConsecutiveNext ==
  ASSUME NEW s \in Seq(Thread \X Nat), NEW t \in Thread, NEW u \in Thread,
         NEW lo \in Nat, NEW hi \in Nat, NEW n \in Nat,
         Consecutive(<<<<u, n>>>> \o s, t, lo, hi)
  PROVE  /\ u = t => n = lo + 1
         /\ Consecutive(s, t, IF u = t THEN lo + 1 ELSE lo, hi)
<1> DEFINE r == <<<<u, n>>>> \o s
<1>1. /\ Len(s) \in Nat /\ DOMAIN s = 1..Len(s)
      /\ Len(r) = Len(s) + 1 /\ DOMAIN r = 1..(Len(s) + 1)
      /\ \A i \in 1..Len(s) : r[i + 1] = s[i]
      /\ r[1] = <<u, n>>
  OBVIOUS
<1>2. /\ lo <= hi
      /\ {r[i][2] : i \in Of(r, t)} = (lo + 1)..hi
      /\ \A i, j \in Of(r, t) : i < j => r[i][2] < r[j][2]
  BY DEF Consecutive
<1>3. \A i \in DOMAIN s : s[i] \in Thread \X Nat
  OBVIOUS
<1> HIDE DEF r
<1>4. Of(r, t) \ {1} = {i + 1 : i \in Of(s, t)}
  <2>1. ASSUME NEW i \in Of(r, t) \ {1} PROVE i \in {j + 1 : j \in Of(s, t)}
    <3>1. i \in 2..(Len(s) + 1) /\ r[i][1] = t
      BY <1>1 DEF Of
    <3>2. i - 1 \in 1..Len(s) /\ r[i] = s[i - 1] /\ (i - 1) + 1 = i
      BY <3>1, <1>1, SMT
    <3>3. i - 1 \in Of(s, t)
      BY <3>1, <3>2, <1>1 DEF Of
    <3>4. QED
      BY <3>2, <3>3
  <2>2. ASSUME NEW i \in Of(s, t) PROVE i + 1 \in Of(r, t) \ {1}
    BY <1>1 DEF Of
  <2>3. QED
    BY <2>1, <2>2
<1>5. \A i \in Of(s, t) : i \in Nat /\ i + 1 \in Of(r, t) /\ r[i + 1] = s[i]
  BY <1>1, <1>4 DEF Of
<1>6. 1 \in Of(r, t) <=> u = t
  BY <1>1 DEF Of
<1>7. ASSUME NEW i \in Of(s, t), NEW j \in Of(s, t), i < j
      PROVE  s[i][2] < s[j][2]
  <2>1. i + 1 < j + 1 /\ i + 1 \in Of(r, t) /\ j + 1 \in Of(r, t)
    BY <1>5, <1>7, SMT
  <2>2. r[i + 1][2] < r[j + 1][2]
    BY <2>1, <1>2
  <2>3. QED
    BY <2>2, <1>5
<1>8. CASE u # t
  <2>1. {s[i][2] : i \in Of(s, t)} = (lo + 1)..hi
    <3>1. Of(r, t) = {i + 1 : i \in Of(s, t)}
      BY <1>4, <1>6, <1>8
    <3>2. {r[i][2] : i \in Of(r, t)} = {r[i + 1][2] : i \in Of(s, t)}
      BY <3>1, Zenon
    <3>3. {r[i + 1][2] : i \in Of(s, t)} = {s[i][2] : i \in Of(s, t)}
      BY <1>5, ZenonT(40)
    <3>4. QED
      BY <3>2, <3>3, <1>2, Zenon
  <2>2. \A i, j \in Of(s, t) : i < j => s[i][2] < s[j][2]
    BY <1>7
  <2>3. QED
    BY <2>1, <2>2, <1>2, <1>8 DEF Consecutive
<1>9. CASE u = t
  <2>1. {r[i][2] : i \in Of(r, t)} = {s[i][2] : i \in Of(s, t)} \cup {n}
    <3>1. Of(r, t) = {i + 1 : i \in Of(s, t)} \cup {1}
      BY <1>4, <1>6, <1>9
    <3>2. {r[i][2] : i \in Of(r, t)} = {r[i + 1][2] : i \in Of(s, t)} \cup {r[1][2]}
      BY <3>1, Zenon
    <3>3. {r[i + 1][2] : i \in Of(s, t)} = {s[i][2] : i \in Of(s, t)}
      BY <1>5, ZenonT(40)
    <3>4. r[1][2] = n
      BY <1>1
    <3>5. QED
      BY <3>2, <3>3, <3>4, Zenon
  <2>2. \A i \in Of(s, t) : n < s[i][2]
    <3>1. ASSUME NEW i \in Of(s, t) PROVE n < s[i][2]
      <4>1. 1 < i + 1 /\ 1 \in Of(r, t) /\ i + 1 \in Of(r, t)
        BY <1>1, <1>5, <1>6, <1>9, SMT DEF Of
      <4>2. r[1][2] < r[i + 1][2]
        BY <4>1, <1>2
      <4>3. QED
        BY <4>2, <1>1, <1>5
    <3>2. QED
      BY <3>1
  <2>3. n \in (lo + 1)..hi
    BY <2>1, <1>2
  <2>4. \A m \in (lo + 1)..hi : m = n \/ n < m
    BY <2>1, <2>2, <1>2
  <2>5. n = lo + 1
    <3>1. lo + 1 \in (lo + 1)..hi
      BY <2>3, SMT
    <3>2. lo + 1 = n \/ n < lo + 1
      BY <2>4, <3>1
    <3>3. QED
      BY <3>2, <2>3, SMT
  <2>6. {s[i][2] : i \in Of(s, t)} = (lo + 2)..hi
    <3>1. ASSUME NEW i \in Of(s, t) PROVE s[i][2] \in (lo + 2)..hi
      <4>1. s[i][2] \in (lo + 1)..hi
        BY <2>1, <1>2, Zenon
      <4>2. n < s[i][2]
        BY <2>2
      <4>3. QED
        BY <4>1, <4>2, <2>5, SMT
    <3>2. ASSUME NEW m \in (lo + 2)..hi PROVE m \in {s[i][2] : i \in Of(s, t)}
      <4>1. m \in (lo + 1)..hi /\ m # n
        BY <2>5, SMT
      <4>2. QED
        BY <4>1, <2>1, <1>2, Zenon
    <3>3. QED
      BY <3>1, <3>2, <2>5, SMT
  <2>7. \A i, j \in Of(s, t) : i < j => s[i][2] < s[j][2]
    BY <1>7
  <2>8. QED
    BY <2>3, <2>5, <2>6, <2>7, <1>9, SMT DEF Consecutive
<1>10. QED
  BY <1>8, <1>9

(* The loop alone stands at the end of a pop, and only inside handle_queue. *)
LEMMA PipelineIs ==
  ASSUME LoopIInv
  PROVE  /\ Pipeline = (IF pc[Loop] = "give_produce" THEN obj[Loop] ELSE <<>>) \o queue_data
         /\ Pipeline \in Seq(Thread \X Nat)
<1>1. pc[Loop] = "give_produce" => loop = "pop"
  BY LoopTypes DEF LoopIInv, Stages, PushPC
<1>2. Pipeline = (IF pc[Loop] = "give_produce" THEN obj[Loop] ELSE <<>>) \o queue_data
  BY <1>1 DEF Pipeline
<1>3. Value \subseteq Thread \X Nat
  BY InvokeAssumption
<1>4. queue_data \in Seq(Thread \X Nat) /\ obj[Loop] \in Seq(Thread \X Nat)
  <2>1. queue_data \in Seq(Value) /\ obj[Loop] \in {<<>>} \cup {<<v>> : v \in Value}
    BY LoopTypes
  <2>2. obj[Loop] \in Seq(Value)
    <3>1. CASE obj[Loop] = <<>>
      BY <3>1
    <3>2. CASE \E v \in Value : obj[Loop] = <<v>>
      BY <3>2
    <3>3. QED
      BY <2>1, <3>1, <3>2
  <2>3. QED
    BY <2>1, <2>2, <1>3, SMT
<1>5. QED
  BY <1>2, <1>4

(* What a task carries is no function or one. *)
LEMMA HeldValues ==
  ASSUME LoopIInv
  PROVE  \A t \in Thread : obj[t] \in Seq(Value)
<1> SUFFICES ASSUME NEW t \in Thread PROVE obj[t] \in Seq(Value)
  OBVIOUS
<1>1. CASE obj[t] = <<>>
  BY <1>1
<1>2. CASE \E v \in Value : obj[t] = <<v>>
  BY <1>2
<1>3. QED
  BY <1>1, <1>2, LoopTypes

(* The number of the last function of t that is queued. *)
LEMMA LastQueued ==
  ASSUME LoopIInv, NEW t \in Thread
  PROVE  issued[t] - Unqueued(t) \in Nat /\ ran[t] \in Nat /\ issued[t] \in Nat
<1>1. issued[t] \in Nat /\ ran[t] \in Nat /\ (call[t] # "idle" => issued[t] > 0)
  BY LoopTypes, SMT DEF LoopIInv, Stages
<1>2. QED
  BY <1>1, SMT DEF Unqueued

(* A step that leaves the pipeline and what precedes and follows it. *)
LEMMA PipelineKept ==
  ASSUME LoopIInv, LoopIInv', NothingLostOrReordered,
         queue_data' = queue_data, ran' = ran,
         pc'[Loop] = "give_produce" <=> pc[Loop] = "give_produce",
         pc[Loop] = "give_produce" => obj'[Loop] = obj[Loop],
         \A t \in Thread : issued'[t] - Unqueued(t)' = issued[t] - Unqueued(t)
  PROVE  NothingLostOrReordered'
<1>1. Pipeline' = Pipeline
  <2>1. /\ pc[Loop] = "give_produce" => loop = "pop"
        /\ pc'[Loop] = "give_produce" => loop' = "pop"
    BY LoopTypes, InvokeAssumption DEF LoopIInv, Stages, PushPC
  <2>2. QED
    BY <2>1 DEF Pipeline
<1>2. ASSUME NEW t \in Thread
      PROVE  Consecutive(Pipeline, t, ran[t], issued[t] - Unqueued(t))'
  <2>1. Consecutive(Pipeline, t, ran[t], issued[t] - Unqueued(t))
    BY DEF NothingLostOrReordered
  <2>2. Consecutive(Pipeline', t, ran'[t], issued'[t] - Unqueued(t)')
    BY <2>1, <1>1
  <2>3. QED
    BY <2>2 DEF Consecutive, Of
<1>3. QED
  BY <1>2 DEF NothingLostOrReordered

(* The steps that neither queue a function nor take one. *)
LEMMA OtherStepsKeepOrder ==
  ASSUME LoopIInv, LoopIInv', CarriesOwn, NothingLostOrReordered,
         UNCHANGED <<queueVars, ran, issued, call>>
  PROVE  (CarriesOwn /\ NothingLostOrReordered)'
<1>1. /\ queue_data' = queue_data /\ pc' = pc /\ obj' = obj
      /\ ran' = ran /\ issued' = issued /\ call' = call
  BY DEF queueVars, vars
<1>2. CarriesOwn'
  BY <1>1 DEF CarriesOwn
<1>3. \A t \in Thread : Unqueued(t)' = Unqueued(t)
  BY <1>1 DEF Unqueued
<1>4. QED
  BY <1>1, <1>2, <1>3, PipelineKept

(* invoke_func up to the lock: one more function is issued, and is not     *)
(* queued yet.                                                             *)
LEMMA InvokeCallKeepsOrder ==
  ASSUME LoopIInv, LoopIInv', CarriesOwn, NothingLostOrReordered,
         NEW t \in Thread, InvokeCall(t)
  PROVE  (CarriesOwn /\ NothingLostOrReordered)'
<1>1. /\ queue_data' = queue_data /\ pc' = pc /\ obj' = obj /\ ran' = ran
      /\ call[t] = "idle" /\ call' = [call EXCEPT ![t] = "lock"]
      /\ issued' = [issued EXCEPT ![t] = @ + 1]
  BY DEF InvokeCall, CallGoto, queueVars, vars
<1>2. CarriesOwn'
  BY <1>1, LoopTypes DEF CarriesOwn
<1>3. ASSUME NEW u \in Thread
      PROVE  issued'[u] - Unqueued(u)' = issued[u] - Unqueued(u)
  <2>1. CASE u = t
    BY <1>1, <2>1, LoopTypes, LastQueued DEF Unqueued
  <2>2. CASE u # t
    BY <1>1, <2>2, LoopTypes DEF Unqueued
  <2>3. QED
    BY <2>1, <2>2
<1>4. QED
  BY <1>1, <1>2, <1>3, PipelineKept

LEMMA InvokeLockKeepsOrder ==
  ASSUME LoopIInv, LoopIInv', CarriesOwn, NothingLostOrReordered,
         NEW t \in Thread, InvokeLock(t)
  PROVE  (CarriesOwn /\ NothingLostOrReordered)'
<1>1. /\ queue_data' = queue_data /\ ran' = ran /\ issued' = issued
      /\ call[t] = "lock" /\ call' = [call EXCEPT ![t] = "push"]
      /\ pc[t] = "idle" /\ pc' = [pc EXCEPT ![t] = "take_produce"]
      /\ obj' = [obj EXCEPT ![t] = <<<<t, issued[t]>>>>]
  BY DEF InvokeLock, CallGoto, PushCall, Goto
<1>2. CarriesOwn'
  BY <1>1, LoopTypes DEF CarriesOwn
<1>3. \A u \in Thread : Unqueued(u)' = Unqueued(u)
  BY <1>1, LoopTypes DEF Unqueued
<1>4. /\ pc'[Loop] = "give_produce" <=> pc[Loop] = "give_produce"
      /\ pc[Loop] = "give_produce" => obj'[Loop] = obj[Loop]
  BY <1>1, LoopTypes
<1>5. QED
  BY <1>1, <1>2, <1>3, <1>4, PipelineKept

(* The steps of the push around push_back. *)
LEMMA PushStepsKeepOrder ==
  ASSUME LoopIInv, LoopIInv', CarriesOwn, NothingLostOrReordered,
         NEW t \in Thread,
         \/ InvokePush(t) /\ ~PushBack(t)
         \/ InvokePushed(t) /\ ~PushExpires
         \/ InvokeSignal(t)
  PROVE  (CarriesOwn /\ NothingLostOrReordered)'
<1>1. /\ queue_data' = queue_data /\ ran' = ran /\ issued' = issued /\ obj' = obj
  BY DEF InvokePush, InvokePushed, InvokeSignal, TakeProduce, LockPush, GiveConsume, Goto,
         queueVars, vars, invokeVars
<1>2. \/ /\ call[t] = "push" /\ call' = call
         /\ \E a, b \in {"take_produce", "lock_push", "push_back"} :
              pc[t] = a /\ pc' = [pc EXCEPT ![t] = b]
      \/ /\ call[t] = "push" /\ call' = [call EXCEPT ![t] = "signal"]
         /\ pc[t] = "give_consume" /\ pc' = [pc EXCEPT ![t] = "idle"]
      \/ /\ call[t] = "signal" /\ call' = [call EXCEPT ![t] = "idle"]
         /\ pc' = pc
  BY DEF InvokePush, InvokePushed, InvokeSignal, CallGoto, TakeProduce, LockPush, GiveConsume,
         Goto, queueVars, vars, invokeVars
<1>3. CarriesOwn'
  BY <1>1, <1>2, LoopTypes DEF CarriesOwn
<1>4. \A u \in Thread : Unqueued(u)' = Unqueued(u)
  BY <1>1, <1>2, LoopTypes DEF Unqueued
<1>5. pc'[Loop] = "give_produce" <=> pc[Loop] = "give_produce"
  BY <1>2, LoopTypes
<1>6. QED
  BY <1>1, <1>3, <1>4, <1>5, PipelineKept

(* What is put behind the deque is put behind what precedes it. *)
LEMMA PutBehind ==
  ASSUME NEW a \in Seq(Value), NEW b \in Seq(Value), NEW c \in Seq(Value)
  PROVE  a \o (b \o c) = (a \o b) \o c
BY SMTT(20)

(* push_back appends the next function of its task. *)
LEMMA PushBackKeepsOrder ==
  ASSUME LoopIInv, LoopIInv', CarriesOwn, NothingLostOrReordered,
         NEW t \in Thread, InvokePush(t), PushBack(t)
  PROVE  (CarriesOwn /\ NothingLostOrReordered)'
<1>1. /\ ran' = ran /\ issued' = issued /\ call' = call /\ loop' = loop
      /\ call[t] = "push" /\ pc[t] = "push_back" /\ pc' = [pc EXCEPT ![t] = "give_consume"]
      /\ obj' = [obj EXCEPT ![t] = <<>>]
      /\ queue_data' = queue_data \o obj[t]
  BY DEF InvokePush, PushBack, Goto, invokeVars
<1>2. CarriesOwn'
  BY <1>1, LoopTypes DEF CarriesOwn
<1>3. obj[t] = <<<<t, issued[t]>>>>
  BY <1>1 DEF CarriesOwn
<1>4. Pipeline' = Pipeline \o <<<<t, issued[t]>>>>
  <2> DEFINE held == IF pc[Loop] = "give_produce" THEN obj[Loop] ELSE <<>>
  <2>1. held \in Seq(Value) /\ queue_data \in Seq(Value) /\ obj[t] \in Seq(Value)
    <3>1. obj[Loop] \in Seq(Value) /\ obj[t] \in Seq(Value) /\ queue_data \in Seq(Value)
      BY LoopTypes, HeldValues
    <3>2. <<>> \in Seq(Value)
      OBVIOUS
    <3>3. QED
      BY <3>1, <3>2
  <2>2. Pipeline = held \o queue_data
    BY PipelineIs
  <2>3. Pipeline' = held \o queue_data'
    <3>1. (pc'[Loop] = "give_produce") <=> (pc[Loop] = "give_produce")
      BY <1>1, LoopTypes
    <3>2. pc[Loop] = "give_produce" => obj'[Loop] = obj[Loop]
      BY <1>1, LoopTypes
    <3>3. pc[Loop] = "give_produce" => loop = "pop"
      BY LoopTypes DEF LoopIInv, Stages, PushPC
    <3>4. QED
      BY <1>1, <3>1, <3>2, <3>3 DEF Pipeline
  <2> HIDE DEF held
  <2>4. held \o (queue_data \o obj[t]) = (held \o queue_data) \o obj[t]
    BY <2>1, PutBehind, Zenon
  <2>5. QED
    BY <2>2, <2>3, <2>4, <1>1, <1>3
<1>5. ASSUME NEW u \in Thread
      PROVE  Consecutive(Pipeline, u, ran[u], issued[u] - Unqueued(u))'
  <2> DEFINE last == issued[u] - Unqueued(u)
  <2>1. Consecutive(Pipeline, u, ran[u], last)
    BY DEF NothingLostOrReordered
  <2>2. last \in Nat /\ ran[u] \in Nat /\ issued[t] \in Nat
    BY LastQueued
  <2>3. /\ t = u => issued[t] = last + 1
        /\ issued[u] - Unqueued(u)' = IF t = u THEN last + 1 ELSE last
    <3>1. Unqueued(t) = 1 /\ Unqueued(t)' = 0
      BY <1>1, LoopTypes DEF Unqueued
    <3>2. u # t => Unqueued(u)' = Unqueued(u)
      BY <1>1, LoopTypes DEF Unqueued
    <3>3. issued[u] \in Nat
      BY LastQueued
    <3>4. QED
      BY <3>1, <3>2, <3>3
  <2>4. Consecutive(Pipeline', u, ran[u], IF t = u THEN last + 1 ELSE last)
    BY <1>4, <2>1, <2>2, <2>3, PipelineIs, ConsecutiveAppend
  <2>5. Consecutive(Pipeline', u, ran'[u], issued'[u] - Unqueued(u)')
    BY <1>1, <2>3, <2>4
  <2>6. QED
    BY <2>5 DEF Consecutive, Of
<1>6. QED
  BY <1>2, <1>5 DEF NothingLostOrReordered

(* The steps of the pop around pop_for's move of the value. *)
LEMMA PopStepsKeepOrder ==
  ASSUME LoopIInv, LoopIInv', CarriesOwn, NothingLostOrReordered,
         \/ DrainPop
         \/ DrainPopStep /\ ~Erase(Loop)
         \/ PopReturns /\ PopTimeout(Loop)
  PROVE  (CarriesOwn /\ NothingLostOrReordered)'
<1>1. /\ queue_data' = queue_data /\ issued' = issued /\ call' = call /\ ran' = ran
      /\ \A t \in Thread \ {Loop} : obj'[t] = obj[t] /\ pc'[t] = pc[t]
      /\ pc[Loop] \in {"idle", "take_consume", "lock_pop"}
      /\ pc'[Loop] \in {"idle", "take_consume", "lock_pop", "erase"}
  BY LoopTypes DEF DrainPop, DrainPopStep, PopReturns, PopCall, TakeConsume, LockPop,
     PopTimeout, GiveProduce, Goto, queueVars, vars, invokeVars
<1>2. CarriesOwn'
  BY <1>1, LoopTypes DEF CarriesOwn
<1>3. \A t \in Thread : Unqueued(t)' = Unqueued(t)
  <2>1. \A t \in Thread \ {Loop} : Unqueued(t)' = Unqueued(t)
    BY <1>1 DEF Unqueued
  <2>2. Unqueued(Loop)' = Unqueued(Loop)
    BY <1>1 DEF Unqueued
  <2>3. QED
    BY <2>1, <2>2
<1>4. QED
  BY <1>1, <1>2, <1>3, PipelineKept

(* The front of the deque moves into the hands of the loop. *)
LEMMA EraseKeepsOrder ==
  ASSUME LoopIInv, LoopIInv', CarriesOwn, NothingLostOrReordered,
         DrainPopStep, Erase(Loop)
  PROVE  (CarriesOwn /\ NothingLostOrReordered)'
<1>1. /\ issued' = issued /\ call' = call /\ ran' = ran /\ loop' = loop /\ loop = "pop"
      /\ pc[Loop] = "erase" /\ pc' = [pc EXCEPT ![Loop] = "give_produce"]
      /\ obj' = [obj EXCEPT ![Loop] = <<Head(queue_data)>>]
      /\ queue_data # <<>> /\ queue_data' = Tail(queue_data)
  BY DEF DrainPopStep, Erase, Goto, invokeVars
<1>2. CarriesOwn'
  BY <1>1, LoopTypes DEF CarriesOwn
<1>3. \A t \in Thread : Unqueued(t)' = Unqueued(t)
  BY <1>1, LoopTypes DEF Unqueued
<1>4. Pipeline' = Pipeline
  <2>1. Pipeline = <<>> \o queue_data /\ Pipeline' = <<Head(queue_data)>> \o Tail(queue_data)
    BY <1>1, LoopTypes DEF Pipeline
  <2>2. QED
    BY <2>1, <1>1, LoopTypes
<1>5. QED
  BY <1>1, <1>2, <1>3, <1>4 DEF NothingLostOrReordered, Consecutive, Of

(* The loop starts the function it popped: the next one of its task. *)
LEMMA StartKeepsOrder ==
  ASSUME LoopIInv, LoopIInv', CarriesOwn, NothingLostOrReordered,
         PopReturns, ~PopTimeout(Loop)
  PROVE  (CarriesOwn /\ NothingLostOrReordered)'
<1>1. /\ issued' = issued /\ call' = call /\ queue_data' = queue_data /\ obj' = obj
      /\ loop = "pop" /\ loop' = "run"
      /\ pc[Loop] = "give_produce" /\ pc' = [pc EXCEPT ![Loop] = "idle"]
      /\ ran' = [ran EXCEPT ![obj[Loop][1][1]] = obj[Loop][1][2]]
  BY DEF PopReturns, GiveProduce, Goto
<1>2. CarriesOwn'
  BY <1>1, LoopTypes DEF CarriesOwn
<1>3. \A t \in Thread : Unqueued(t)' = Unqueued(t)
  BY <1>1, LoopTypes DEF Unqueued
<1>4. PICK u \in Thread, n \in Nat : obj[Loop] = <<<<u, n>>>>
  <2>1. obj[Loop] # <<>>
    BY <1>1, LoopTypes DEF LoopIInv, IInv, CarriesValue
  <2>2. PICK v \in Value : obj[Loop] = <<v>>
    BY <2>1, LoopTypes
  <2>3. QED
    BY <2>2, InvokeAssumption
<1>5. Pipeline = <<<<u, n>>>> \o queue_data /\ Pipeline' = queue_data
  <2>1. Pipeline = <<<<u, n>>>> \o queue_data /\ Pipeline' = <<>> \o queue_data
    BY <1>1, <1>4, LoopTypes DEF Pipeline
  <2>2. QED
    BY <2>1, LoopTypes
<1>6. queue_data \in Seq(Thread \X Nat)
  <2>1. queue_data \in Seq(Value) /\ Value \subseteq Thread \X Nat
    BY LoopTypes, InvokeAssumption
  <2>2. QED
    BY <2>1
<1>7. ASSUME NEW t \in Thread
      PROVE  Consecutive(Pipeline, t, ran[t], issued[t] - Unqueued(t))'
  <2> DEFINE last == issued[t] - Unqueued(t)
  <2>1. Consecutive(<<<<u, n>>>> \o queue_data, t, ran[t], last)
    BY <1>5 DEF NothingLostOrReordered
  <2>2. last \in Nat /\ ran[t] \in Nat
    BY LastQueued
  <2>3. /\ u = t => n = ran[t] + 1
        /\ Consecutive(queue_data, t, IF u = t THEN ran[t] + 1 ELSE ran[t], last)
    <3> HIDE DEF last
    <3>1. QED
      BY <1>6, <2>1, <2>2, ConsecutiveNext
  <2>4. ran'[t] = IF u = t THEN ran[t] + 1 ELSE ran[t]
    <3>1. obj[Loop][1][1] = u /\ obj[Loop][1][2] = n
      BY <1>4
    <3>2. ran' = [ran EXCEPT ![u] = n]
      BY <1>1, <3>1
    <3>3. QED
      BY <2>3, <3>2, LoopTypes
  <2>5. Consecutive(Pipeline', t, ran'[t], issued'[t] - Unqueued(t)')
    BY <1>1, <1>3, <1>5, <2>3, <2>4
  <2>6. QED
    BY <2>5 DEF Consecutive, Of
<1>8. QED
  BY <1>2, <1>7 DEF NothingLostOrReordered

(* Unless the wait of push() runs out, no function is lost, run twice or   *)
(* overtaken by a later one of the same task, however the tasks, the loop  *)
(* and the queue's own locks interleave.                                   *)
THEOREM InOrderOnce ==
  ASSUME ~PushExpires
  PROVE  LoopSpec => []NothingLostOrReordered
<1> DEFINE Ordered == CarriesOwn /\ NothingLostOrReordered
<1>1. LoopInit => Ordered
  <2> SUFFICES ASSUME LoopInit
               PROVE  Ordered
    OBVIOUS
  <2>1. CarriesOwn
    BY DEF LoopInit, CarriesOwn
  <2>2. ASSUME NEW t \in Thread
        PROVE  Consecutive(Pipeline, t, ran[t], issued[t] - Unqueued(t))
    <3>1. Pipeline = <<>> /\ ran[t] = 0 /\ issued[t] - Unqueued(t) = 0
      BY <2>2 DEF LoopInit, Init, Pipeline, Unqueued
    <3>2. Consecutive(<<>>, t, 0, 0)
      BY DEF Consecutive, Of
    <3>3. QED
      BY <3>1, <3>2
  <2>3. QED
    BY <2>1, <2>2 DEF NothingLostOrReordered
<1>2. LoopIInv /\ LoopIInv' /\ Ordered /\ [LoopNext]_allVars => Ordered'
  <2> SUFFICES ASSUME LoopIInv, LoopIInv', CarriesOwn, NothingLostOrReordered,
                      [LoopNext]_allVars
               PROVE  (CarriesOwn /\ NothingLostOrReordered)'
    OBVIOUS
  <2>1. CASE \E t \in Thread :
               \/ InvokeCall(t) \/ InvokeLock(t) \/ InvokePush(t)
               \/ InvokePushed(t) \/ InvokeSignal(t)
    BY <2>1, InvokeCallKeepsOrder, InvokeLockKeepsOrder, PushStepsKeepOrder,
       PushBackKeepsOrder
  <2>2. CASE DrainPop \/ DrainPopStep \/ PopReturns
    BY <2>2, PopStepsKeepOrder, EraseKeepsOrder, StartKeepsOrder DEF PopReturns
  <2>3. CASE \/ \E t \in Thread : OtherSignal(t)
             \/ DeliverSignal \/ Wake \/ WakeOther \/ LockQueue \/ ReadSize \/ ConfirmQueue
             \/ FuncDone \/ DrainDone \/ IoDone \/ UNCHANGED allVars
    <3>1. UNCHANGED <<queueVars, ran, issued, call>>
      BY <2>3 DEF OtherSignal, DeliverSignal, Wake, WakeOther, LockQueue, ReadSize,
         ConfirmQueue, FuncDone, DrainDone, IoDone, allVars, invokeVars
    <3>2. QED
      BY <3>1, OtherStepsKeepOrder
  <2>4. QED
    BY <2>1, <2>2, <2>3 DEF LoopNext
<1>3. Ordered => NothingLostOrReordered
  OBVIOUS
<1>4. QED
  BY <1>1, <1>2, <1>3, LoopInvariant, PTL DEF LoopSpec

-----------------------------------------------------------------------------
(* The cyclic wait. *)

(* Nobody has the mutex but the task that waits for a slot, and the loop   *)
(* is where it cannot free one.                                            *)
LEMMA WaitersOf ==
  ASSUME LoopIInv, CyclicWait
  PROVE  /\ produce_sem = 0 /\ queue_mutex # {}
         /\ \A u \in Thread :
              /\ call[u] = "push" => pc[u] = "take_produce"
              /\ call[u] # "signal"
         /\ loop \in {"lock_queue", "run", "io"}
         /\ loop # "lock_queue" => call[Loop] \in {"lock", "push"}
<1>1. PICK t \in queue_mutex : call[t] = "push" /\ pc[t] = "take_produce"
  BY DEF CyclicWait
<1>2. /\ queue_mutex =
           {u \in Thread : \/ call[u] \in {"push", "signal"}
                          \/ (u = Loop /\ loop \in {"size", "confirm"})}
      /\ \A u, v \in queue_mutex : u = v
  BY DEF LoopIInv, QueueLocked
<1>3. ASSUME NEW u \in Thread, call[u] \in {"push", "signal"}
      PROVE  u = t
  <2>1. u \in queue_mutex
    BY <1>2, <1>3
  <2>2. QED
    BY <1>2, <2>1
<1>4. \A u \in Thread : call[u] = "push" => pc[u] = "take_produce"
  BY <1>1, <1>3
<1>5. \A u \in Thread : call[u] # "signal"
  BY <1>1, <1>3
<1>6. call[Loop] # "idle" => loop \in {"run", "io"}
  BY DEF LoopIInv, Stages
<1>7. loop = "lock_queue" \/ call[Loop] \in {"lock", "push"}
  BY DEF CyclicWait
<1>8. QED
  BY <1>1, <1>4, <1>5, <1>6, <1>7 DEF CyclicWait

LEMMA WaitGoesOn ==
  ASSUME ~PushExpires, LoopIInv, CyclicWait, [LoopNext]_allVars
  PROVE  CyclicWait'
<1>1. /\ produce_sem = 0 /\ queue_mutex # {}
      /\ \A u \in Thread :
           /\ call[u] = "push" => pc[u] = "take_produce"
           /\ call[u] # "signal"
      /\ loop \in {"lock_queue", "run", "io"}
      /\ loop # "lock_queue" => call[Loop] \in {"lock", "push"}
  BY WaitersOf
<1>2. call \in [Thread -> CallPC] /\ Loop \in Thread
  BY InvokeAssumption DEF LoopIInv, LoopTypeOK
<1>3. ASSUME NEW u \in Thread, InvokeCall(u)
      PROVE  CyclicWait'
  <2>1. /\ call[u] = "idle" /\ call' = [call EXCEPT ![u] = "lock"]
        /\ UNCHANGED <<queue_mutex, loop, pc, produce_sem>>
    BY <1>3 DEF InvokeCall, CallGoto, queueVars, vars
  <2>2. ASSUME NEW v, call[v] # "idle"
        PROVE  call'[v] = call[v]
    BY <1>2, <2>1, <2>2
  <2>3. QED
    BY <2>1, <2>2 DEF CyclicWait
<1>4. ASSUME NEW u \in Thread, InvokePush(u)
      PROVE  FALSE
  BY <1>1, <1>4 DEF InvokePush, TakeProduce, LockPush, PushBack, Goto
<1>5. ASSUME NEW u \in Thread, InvokePushed(u)
      PROVE  FALSE
  BY <1>1, <1>5 DEF InvokePushed, CallGoto, GiveConsume, Goto
<1>6. ASSUME NEW u \in Thread, InvokeLock(u) \/ InvokeSignal(u)
      PROVE  FALSE
  BY <1>1, <1>6 DEF InvokeLock, InvokeSignal, CallGoto
<1>7. ASSUME \/ Wake \/ WakeOther \/ LockQueue \/ ReadSize \/ ConfirmQueue
             \/ DrainPop \/ DrainPopStep \/ PopReturns \/ FuncDone \/ DrainDone \/ IoDone
      PROVE  FALSE
  BY <1>1, <1>7 DEF Wake, WakeOther, LockQueue, ReadSize, ConfirmQueue, DrainPop, DrainPopStep,
     PopReturns, FuncDone, DrainDone, IoDone, LoopGoto
<1>8. ASSUME \/ \E u \in Thread : OtherSignal(u)
             \/ DeliverSignal \/ UNCHANGED allVars
      PROVE  CyclicWait'
  <2>1. UNCHANGED <<queue_mutex, call, loop, pc, produce_sem>>
    BY <1>8 DEF OtherSignal, DeliverSignal, allVars, queueVars, vars, invokeVars
  <2>2. QED
    BY <2>1 DEF CyclicWait
<1>9. QED
  BY <1>3, <1>4, <1>5, <1>6, <1>7, <1>8 DEF LoopNext

(* Unless the wait of push() runs out, nothing inside the program ends a   *)
(* wait of a full queue for itself, for any tasks and any size of the      *)
(* queue: that of the task which has queue_mutex while it waits for a slot *)
(* and of the loop which wants the mutex, or which is that task.           *)
THEOREM CyclicWaitLasts ==
  ASSUME ~PushExpires
  PROVE  LoopSpec => CyclicWaitIsForever
<1>1. LoopIInv /\ [LoopNext]_allVars => [CyclicWait => CyclicWait']_allVars
  BY WaitGoesOn
<1>2. QED
  BY <1>1, LoopInvariant, PTL DEF LoopSpec, CyclicWaitIsForever

=============================================================================
