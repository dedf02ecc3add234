------------------------------- MODULE Queue -------------------------------
(***************************************************************************)
(* loopp::core::Queue<T>: a deque behind a mutex, with one counting        *)
(* semaphore for the free slots and one for the stored values.             *)
(*                                                                         *)
(* A push waits for a slot (produce_sem), appends under the mutex, and     *)
(* then announces the value (consume_sem).  A pop waits for a value,       *)
(* removes the front under the mutex, and then gives the slot back.  The   *)
(* two semaphores and the deque are three pieces of state that no single   *)
(* lock protects: each statement of the two functions is a step here.      *)
(*                                                                         *)
(* nonstd::optional<T> is a sequence of at most one value.                 *)
(***************************************************************************)
EXTENDS Integers, Sequences, FiniteSets

CONSTANTS
  Thread,   (* the FreeRTOS tasks that use the queue                       *)
  Value,    (* the values that are queued                                  *)
  MaxSize   (* max_size, 100 by default                                    *)

ASSUME QueueAssumption ==
  /\ IsFiniteSet(Thread)
  /\ MaxSize \in Nat \ {0}

VARIABLES
  queue_data,   (* the deque                                               *)
  produce_sem,  (* free slots                                              *)
  consume_sem,  (* announced values                                        *)
  mutex,        (* the set of threads that hold the mutex                  *)
  pc,           (* the statement at which each thread stands               *)
  obj           (* the value a thread pushes, or popped; <<>> if none      *)

vars == <<queue_data, produce_sem, consume_sem, mutex, pc, obj>>

PushPC == {"take_produce", "lock_push", "push_back", "give_consume"}
PopPC == {"take_consume", "lock_pop", "erase", "give_produce"}
PC == {"idle"} \cup PushPC \cup PopPC

(* Mutated forms of the definitions below, each the way a slip in the code *)
(* would change it: a give forgotten, or a wait skipped.                   *)
GiveSkipped(sem) == sem
TakeProduceUnchecked(t) ==
  /\ pc[t] = "take_produce"
  /\ pc' = [pc EXCEPT ![t] = "lock_push"]
  /\ UNCHANGED <<queue_data, produce_sem, consume_sem, mutex, obj>>
TakeConsumeUnchecked(t) ==
  /\ pc[t] = "take_consume"
  /\ pc' = [pc EXCEPT ![t] = "lock_pop"]
  /\ UNCHANGED <<queue_data, produce_sem, consume_sem, mutex, obj>>
PushBackFront(t) ==
  /\ pc[t] = "push_back"
  /\ pc' = [pc EXCEPT ![t] = "give_consume"]
  /\ queue_data' = obj[t] \o queue_data
  /\ mutex' = mutex \ {t}
  /\ obj' = [obj EXCEPT ![t] = <<>>]
  /\ UNCHANGED <<produce_sem, consume_sem>>
LockUnchecked(t) == mutex' = mutex \cup {t}

-----------------------------------------------------------------------------

(* xSemaphoreGive: a counting semaphore at its maximum stays there (and    *)
(* returns pdFALSE, which the queue does not look at).                     *)
Give(sem) == IF sem < MaxSize THEN sem + 1 ELSE sem

Lock(t) == mutex = {} /\ mutex' = {t}
Unlock(t) == mutex' = mutex \ {t}

Init ==
  /\ queue_data = <<>>
  /\ produce_sem = MaxSize
  /\ consume_sem = 0
  /\ mutex = {}
  /\ pc = [t \in Thread |-> "idle"]
  /\ obj = [t \in Thread |-> <<>>]

Goto(t, from, to) == pc[t] = from /\ pc' = [pc EXCEPT ![t] = to]

(***************************************************************************)
(* push, push_for and emplace.  The wait for a slot ends with a slot or,   *)
(* when there is none for as long as the timeout, with the result false.   *)
(* The timeout of push() is portMAX_DELAY taken as milliseconds: long, but *)
(* an end all the same.                                                    *)
(***************************************************************************)
PushCall(t, v) ==
  /\ Goto(t, "idle", "take_produce")
  /\ obj' = [obj EXCEPT ![t] = <<v>>]
  /\ UNCHANGED <<queue_data, produce_sem, consume_sem, mutex>>

TakeProduce(t) ==
  /\ Goto(t, "take_produce", "lock_push")
  /\ produce_sem > 0
  /\ produce_sem' = produce_sem - 1
  /\ UNCHANGED <<queue_data, consume_sem, mutex, obj>>

PushTimeout(t) ==
  /\ Goto(t, "take_produce", "idle")
  /\ produce_sem = 0
  /\ UNCHANGED <<queue_data, produce_sem, consume_sem, mutex, obj>>

LockPush(t) ==
  /\ Goto(t, "lock_push", "push_back")
  /\ Lock(t)
  /\ UNCHANGED <<queue_data, produce_sem, consume_sem, obj>>

PushBack(t) ==
  /\ Goto(t, "push_back", "give_consume")
  /\ queue_data' = queue_data \o obj[t]
  /\ Unlock(t)
  /\ obj' = [obj EXCEPT ![t] = <<>>]
  /\ UNCHANGED <<produce_sem, consume_sem>>

GiveConsume(t) ==
  /\ Goto(t, "give_consume", "idle")
  /\ consume_sem' = Give(consume_sem)
  /\ UNCHANGED <<queue_data, produce_sem, mutex, obj>>

(***************************************************************************)
(* pop and pop_for.  front() of an empty deque is undefined behaviour, so  *)
(* Erase has no meaning there: NeverErasesEmpty says it is never reached.  *)
(***************************************************************************)
PopCall(t) ==
  /\ Goto(t, "idle", "take_consume")
  /\ obj' = [obj EXCEPT ![t] = <<>>]
  /\ UNCHANGED <<queue_data, produce_sem, consume_sem, mutex>>

TakeConsume(t) ==
  /\ Goto(t, "take_consume", "lock_pop")
  /\ consume_sem > 0
  /\ consume_sem' = consume_sem - 1
  /\ UNCHANGED <<queue_data, produce_sem, mutex, obj>>

PopTimeout(t) ==
  /\ Goto(t, "take_consume", "idle")
  /\ consume_sem = 0
  /\ UNCHANGED <<queue_data, produce_sem, consume_sem, mutex, obj>>

LockPop(t) ==
  /\ Goto(t, "lock_pop", "erase")
  /\ Lock(t)
  /\ UNCHANGED <<queue_data, produce_sem, consume_sem, obj>>

Erase(t) ==
  /\ Goto(t, "erase", "give_produce")
  /\ queue_data # <<>>
  /\ obj' = [obj EXCEPT ![t] = <<Head(queue_data)>>]
  /\ queue_data' = Tail(queue_data)
  /\ Unlock(t)
  /\ UNCHANGED <<produce_sem, consume_sem>>

GiveProduce(t) ==
  /\ Goto(t, "give_produce", "idle")
  /\ produce_sem' = Give(produce_sem)
  /\ UNCHANGED <<queue_data, consume_sem, mutex, obj>>

(* size(): read under the mutex, so only while no thread holds it. *)
SizeIs(n) == mutex = {} /\ n = Len(queue_data)

(* The steps a thread takes once it has called, other than giving up. *)
PushStep(t) == TakeProduce(t) \/ LockPush(t) \/ PushBack(t) \/ GiveConsume(t)
PopStep(t) == TakeConsume(t) \/ LockPop(t) \/ Erase(t) \/ GiveProduce(t)

Next ==
  \E t \in Thread :
    \/ \E v \in Value : PushCall(t, v)
    \/ TakeProduce(t)
    \/ PushTimeout(t)
    \/ LockPush(t)
    \/ PushBack(t)
    \/ GiveConsume(t)
    \/ PopCall(t)
    \/ TakeConsume(t)
    \/ PopTimeout(t)
    \/ LockPop(t)
    \/ Erase(t)
    \/ GiveProduce(t)

Spec == Init /\ [][Next]_vars

(* A thread that has called keeps running; it need not ever call, and a    *)
(* wait need not ever time out.                                            *)
FairSpec == Spec /\ \A t \in Thread : WF_vars(PushStep(t)) /\ WF_vars(PopStep(t))

-----------------------------------------------------------------------------

(* The number of threads that stand at one of the given statements. *)
At(S) == Cardinality({t \in Thread : pc[t] \in S})

PushSlots == At({"lock_push", "push_back", "give_consume"})
PopSlots == At({"lock_pop", "erase", "give_produce"})
Unannounced == At({"give_consume"})
Granted == At({"lock_pop", "erase"})

(* The type of every variable of the queue. *)
TypeOK ==
  /\ queue_data \in Seq(Value)
  /\ produce_sem \in 0..MaxSize
  /\ consume_sem \in 0..MaxSize
  /\ mutex \subseteq Thread
  /\ pc \in [Thread -> PC]
  /\ obj \in [Thread -> {<<>>} \cup {<<v>> : v \in Value}]

(* Every slot is free, or announced as a value, or in the hands of one     *)
(* thread between its take and its give: no give is lost at the maximum    *)
(* of a semaphore and no slot leaks on a timeout.                          *)
SlotsAccounted == produce_sem + consume_sem + PushSlots + PopSlots = MaxSize

(* The deque holds the announced values, those appended but not announced  *)
(* yet, and those a pop has been granted but has not removed yet.          *)
ItemsAccounted == Len(queue_data) = consume_sem + Unannounced + Granted

(* The mutex is held exactly by the thread inside a critical section, and  *)
(* by one at a time: the deque, which is not thread safe, has one user.    *)
OneInside ==
  /\ mutex = {t \in Thread : pc[t] \in {"push_back", "erase"}}
  /\ \A t, u \in mutex : t = u

(* A pop that reaches front() finds a value there: consume_sem is taken    *)
(* before the mutex and other poppers come in between, and still the       *)
(* deque is never read when empty (Queue.hpp, pop_for).                    *)
NeverErasesEmpty == \A t \in Thread : pc[t] = "erase" => queue_data # <<>>

(* The deque never outgrows max_size although push_back runs after, and    *)
(* apart from, the take that reserved the slot (Queue.hpp, push_for).      *)
WithinMaxSize == Len(queue_data) <= MaxSize

(* A thread carries the value it was given to push, or has removed. *)
CarriesValue ==
  \A t \in Thread :
    pc[t] \in {"take_produce", "lock_push", "push_back", "give_produce"} => obj[t] # <<>>

(* The inductive invariant behind the properties of the queue. *)
IInv == TypeOK /\ SlotsAccounted /\ ItemsAccounted /\ OneInside /\ CarriesValue

(* A value waits in the deque, a popper waits for one, and nobody else is  *)
(* under way to bring them together.                                       *)
Stranded ==
  /\ queue_data # <<>>
  /\ \E t \in Thread : pc[t] = "take_consume"
  /\ \A t \in Thread : pc[t] \in {"idle", "take_produce", "take_consume"}

(* No wake-up is lost: a waiting popper and a stored value always meet.    *)
NoStrandedValue == Stranded ~> ~Stranded

-----------------------------------------------------------------------------

(* The queue implements the bounded FIFO.  A push takes effect when it     *)
(* appends and a pop when it removes; the semaphores are not visible.      *)
Doing(s) ==
  CASE s \in {"take_produce", "lock_push", "push_back"} -> "push"
    [] s = "give_consume" -> "pushed"
    [] s \in {"take_consume", "lock_pop", "erase"} -> "pop"
    [] s = "give_produce" -> "popped"
    [] OTHER -> "idle"

Fifo == INSTANCE BoundedFifo WITH
  chan <- queue_data,
  op <- [t \in Thread |-> Doing(pc[t])]

(* Values leave in the order they entered, none is lost or duplicated, and *)
(* a refused operation is explained by operations under way.               *)
ImplementsFifo == Fifo!Spec

=============================================================================
