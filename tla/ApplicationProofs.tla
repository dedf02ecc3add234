------------------------- MODULE ApplicationProofs -------------------------
(***************************************************************************)
(* Proofs about Application, for any size of the queue, any drivers and    *)
(* devices and any number of addresses, connections and messages: the      *)
(* firmware never waits for a first connection that nothing brings on, and *)
(* the drivers that are provisioned anew take the place of stopped ones.   *)
(***************************************************************************)
EXTENDS Application, SequenceTheorems, FiniteSetTheorems, TLAPS

(* What is invoked, whatever it is. *)
IsQueue(q) == q \in Seq({q[i] : i \in 1..Len(q)})

(* The property is never true without somebody who will act on it. *)
Heard == wifi => joined \/ announcing \/ Invoked("wifi")

GuardedIInv ==
  /\ IsQueue(funcs)
  /\ wifi \in BOOLEAN /\ announcing \in BOOLEAN
  /\ joined \in BOOLEAN /\ wifi_timeout_timer \in BOOLEAN
  /\ Heard /\ Guarded

-----------------------------------------------------------------------------
(* The queue. *)

LEMMA QueueSeq ==
  ASSUME NEW S, NEW q \in Seq(S)
  PROVE  IsQueue(q)
<1> DEFINE T == {q[i] : i \in 1..Len(q)}
<1>1. Len(q) \in Nat /\ DOMAIN q = 1..Len(q) /\ q \in [1..Len(q) -> S]
  BY LenProperties
<1>2. q \in [1..Len(q) -> T]
  BY <1>1
<1>3. QED
  BY <1>1, <1>2, SeqDef DEF IsQueue

LEMMA QueueGrows ==
  ASSUME NEW q, IsQueue(q), NEW f
  PROVE  /\ IsQueue(Append(q, f))
         /\ Len(q) \in Nat /\ Len(Append(q, f)) = Len(q) + 1
         /\ Append(q, f)[Len(q) + 1] = f
         /\ \A i \in 1..Len(q) : Append(q, f)[i] = q[i]
<1> DEFINE S == {q[i] : i \in 1..Len(q)} \cup {f}
<1>1. q \in Seq(S)
  BY SeqMonotonic DEF IsQueue
<1>2. f \in S
  OBVIOUS
<1> HIDE DEF S
<1>3. Append(q, f) \in Seq(S)
  BY <1>1, <1>2
<1>4. IsQueue(Append(q, f))
  BY <1>3, QueueSeq
<1>5. Len(q) \in Nat
  BY <1>1, LenProperties
<1>6. QED
  BY <1>1, <1>2, <1>4, <1>5

LEMMA QueueShrinks ==
  ASSUME NEW q, IsQueue(q), q # <<>>
  PROVE  /\ IsQueue(Tail(q))
         /\ Len(q) \in Nat /\ Len(q) >= 1 /\ Len(Tail(q)) = Len(q) - 1
         /\ Head(q) = q[1]
         /\ \A i \in 1..Len(q) - 1 : Tail(q)[i] = q[i + 1]
<1> DEFINE S == {q[i] : i \in 1..Len(q)}
<1>1. q \in Seq(S)
  BY DEF IsQueue
<1> HIDE DEF S
<1>2. Len(q) \in Nat \ {0}
  BY <1>1, EmptySeq
<1>3. /\ Tail(q) \in Seq(S) /\ Len(Tail(q)) = Len(q) - 1
      /\ \A i \in 1..Len(Tail(q)) : Tail(q)[i] = q[i + 1]
  BY <1>1, HeadTailProperties
<1>4. IsQueue(Tail(q))
  BY <1>3, QueueSeq
<1>5. Head(q) = q[1]
  BY <1>1, <1>2
<1>6. QED
  BY <1>2, <1>3, <1>4, <1>5

-----------------------------------------------------------------------------
(* What the steps do to the queue. *)

(* Somebody invokes a function: whoever waited to be called still does. *)
LEMMA AppendKeeps ==
  ASSUME GuardedIInv, NEW f, funcs' = Append(funcs, f)
  PROVE  /\ IsQueue(funcs') /\ (Invoked("wifi") => Invoked("wifi")')
         /\ (f.do = "wifi" => Invoked("wifi")')
<1>1. IsQueue(funcs)
  BY DEF GuardedIInv
<1>2. /\ IsQueue(funcs') /\ Len(funcs) \in Nat /\ Len(funcs') = Len(funcs) + 1
      /\ funcs'[Len(funcs) + 1] = f
      /\ \A i \in 1..Len(funcs) : funcs'[i] = funcs[i]
  BY <1>1, QueueGrows
<1>3. QED
  BY <1>2 DEF Invoked

(* The loop pops a function that is not on_wifi_connected. *)
LEMMA PopKeeps ==
  ASSUME GuardedIInv, NEW f, NEW body, Pops(f, body)
  PROVE  /\ IsQueue(funcs')
         /\ (f.do # "wifi" /\ Invoked("wifi") => Invoked("wifi")')
<1>1. IsQueue(funcs) /\ funcs # <<>> /\ f = Head(funcs) /\ funcs' = Tail(funcs)
  BY DEF GuardedIInv, Pops
<1>2. /\ IsQueue(funcs') /\ Len(funcs) \in Nat /\ Len(funcs') = Len(funcs) - 1
      /\ f = funcs[1]
      /\ \A i \in 1..Len(funcs) - 1 : funcs'[i] = funcs[i + 1]
  BY <1>1, QueueShrinks
<1>3. ASSUME f.do # "wifi", NEW i \in 1..Len(funcs), funcs[i].do = "wifi"
      PROVE  Invoked("wifi")'
  <2>1. i # 1 /\ i - 1 \in 1..Len(funcs') /\ funcs'[i - 1] = funcs[i]
    BY <1>2, <1>3
  <2>2. QED
    BY <1>3, <2>1 DEF Invoked
<1>4. QED
  BY <1>2, <1>3 DEF Invoked

(* A step that leaves what brings the firmware on alone. *)
LEMMA OthersKeep ==
  ASSUME GuardedIInv, UNCHANGED <<wifiVars, bootVars>>,
         IsQueue(funcs'), Invoked("wifi") => Invoked("wifi")'
  PROVE  GuardedIInv'
BY DEF GuardedIInv, Heard, Guarded, wifiVars, bootVars

LEMMA SameQueue ==
  ASSUME GuardedIInv, funcs' = funcs
  PROVE  IsQueue(funcs') /\ (Invoked("wifi") => Invoked("wifi")')
BY DEF GuardedIInv, Invoked

-----------------------------------------------------------------------------

LEMMA StationKeeps ==
  ASSUME GuardedIInv, Station
  PROVE  GuardedIInv'
<1>1. /\ UNCHANGED <<wifi, announcing, joined, restarted, wifi_timeout_timer>> /\ funcs' = funcs
  BY DEF Station, GetsIp, LosesLink, bootVars, loopVars
<1>2. QED
  BY <1>1, SameQueue DEF GuardedIInv, Heard, Guarded

LEMMA EventTaskKeeps ==
  ASSUME GuardedIInv, EventTask
  PROVE  GuardedIInv'
<1>1. UNCHANGED <<joined, restarted, wifi_timeout_timer>>
  BY DEF EventTask, bootVars
<1>2. CASE SystemEvent
  <2>1. funcs' = funcs /\ announcing = FALSE
    BY <1>2 DEF SystemEvent, loopVars, GuardedIInv
  <2>2. /\ wifi' = (Head(wifi_events) = "got ip")
        /\ announcing' = (Head(wifi_events) = "got ip" /\ ~wifi)
    BY <1>2 DEF SystemEvent, Set
  <2>3. wifi' \in BOOLEAN /\ announcing' \in BOOLEAN /\ (wifi' => wifi \/ announcing')
    BY <2>2 DEF GuardedIInv
  <2>4. QED
    BY <1>1, <2>1, <2>3, SameQueue DEF GuardedIInv, Heard, Guarded
<1>3. CASE Announce
  <2>1. /\ funcs' = Append(funcs, Plain("wifi")) /\ Plain("wifi").do = "wifi"
        /\ announcing' = FALSE /\ wifi' = wifi
    BY <1>3 DEF Announce, TaskInvokes, Plain
  <2>2. IsQueue(funcs') /\ Invoked("wifi")'
    BY <2>1, AppendKeeps
  <2>3. QED
    BY <1>1, <2>1, <2>2 DEF GuardedIInv, Heard, Guarded
<1>4. CASE AnnounceWaits
  BY <1>1, <1>4, SameQueue, OthersKeep DEF AnnounceWaits, TaskWaits, EventTask
<1>5. QED
  BY <1>2, <1>3, <1>4 DEF EventTask

LEMMA TimeoutKeeps ==
  ASSUME GuardedIInv, OnWifiTimeout
  PROVE  GuardedIInv'
<1>1. /\ UNCHANGED <<wifi, announcing, joined>> /\ funcs' = funcs
      /\ wifi_timeout_timer' = ~wifi
  BY DEF OnWifiTimeout, Rearmed, loopVars
<1>2. QED
  BY <1>1, SameQueue DEF GuardedIInv, Heard, Guarded

LEMMA ConnectedKeeps ==
  ASSUME GuardedIInv, OnWifiConnected
  PROVE  GuardedIInv'
<1>1. IsQueue(funcs')
  BY PopKeeps DEF OnWifiConnected
<1>2. QED
  BY <1>1 DEF OnWifiConnected, wifiVars, GuardedIInv, Heard, Guarded

LEMMA ClientKeeps ==
  ASSUME GuardedIInv, Client
  PROVE  GuardedIInv'
BY SameQueue, OthersKeep DEF Client, MqttConnects, MqttFails, Message, Callback

LEMMA FunctionsKeep ==
  ASSUME GuardedIInv, Functions
  PROVE  GuardedIInv'
<1>1. UNCHANGED <<wifiVars, bootVars>>
  BY DEF Functions
<1>2. CASE OnMqttConnected
  BY <1>1, <1>2, PopKeeps, OthersKeep DEF OnMqttConnected, Plain
<1>3. CASE OnProvisioning
  <2>1. PICK devices \in Provisions : \E body : Pops(For("provision", devices), body)
    BY <1>3 DEF OnProvisioning
  <2>2. PICK body : Pops(For("provision", devices), body)
    BY <2>1
  <2>3. For("provision", devices).do # "wifi"
    BY DEF For
  <2>4. IsQueue(funcs') /\ (Invoked("wifi") => Invoked("wifi")')
    BY <2>2, <2>3, PopKeeps
  <2>5. QED
    BY <1>1, <2>4, OthersKeep
<1>4. CASE OnCreate
  BY <1>1, <1>4, PopKeeps, OthersKeep DEF OnCreate, For
<1>5. CASE OnResult
  BY <1>1, <1>5, PopKeeps, OthersKeep DEF OnResult, Function
<1>6. CASE CallsInvoke
  BY <1>1, <1>6, AppendKeeps, OthersKeep DEF CallsInvoke, LoopInvokes
<1>7. CASE Start \/ Stop \/ Clear
  BY <1>1, <1>7, SameQueue, OthersKeep DEF Start, Stop, Clear
<1>8. QED
  BY <1>2, <1>3, <1>4, <1>5, <1>6, <1>7 DEF Functions

LEMMA ScannerKeeps ==
  ASSUME GuardedIInv, UNCHANGED <<wifiVars, bootVars>>,
         Controller \/ BluetoothTask \/ ScanTimers
  PROVE  GuardedIInv'
<1>1. CASE CallSlot
  BY <1>1, AppendKeeps, OthersKeep DEF CallSlot, TaskInvokes
<1>2. CASE Controller \/ HandleEvent \/ Emit \/ SlotWaits \/ ScanTimers
  <2>1. funcs' = funcs
    BY <1>2 DEF Controller, HandleEvent, Emit, SlotWaits, TaskWaits, ScanTimers, ScanTimer,
       Callback, loopVars
  <2>2. QED
    BY <2>1, SameQueue, OthersKeep
<1>3. QED
  BY <1>1, <1>2 DEF BluetoothTask

-----------------------------------------------------------------------------

LEMMA InitGuarded == Init => GuardedIInv
<1> SUFFICES ASSUME Init
             PROVE  GuardedIInv
  OBVIOUS
<1>1. funcs = <<>>
  BY DEF Init, LoopInit
<1>2. IsQueue(funcs)
  BY <1>1, EmptySeq, QueueSeq
<1>3. QED
  BY <1>2 DEF Init, GuardedIInv, Heard, Guarded

LEMMA StepGuarded == GuardedIInv /\ [Next]_vars => GuardedIInv'
<1> SUFFICES ASSUME GuardedIInv, [Next]_vars
             PROVE  GuardedIInv'
  OBVIOUS
<1>1. CASE OtherTasks
  BY <1>1, StationKeeps, EventTaskKeeps, ScannerKeeps DEF OtherTasks
<1>2. CASE OnWifiTimeout \/ OnWifiConnected \/ Client \/ Functions
  BY <1>2, TimeoutKeeps, ConnectedKeeps, ClientKeeps, FunctionsKeep
<1>3. CASE ScanTimers
  BY <1>3, ScannerKeeps DEF ScanTimers
<1>4. CASE UNCHANGED vars
  BY <1>4, SameQueue, OthersKeep DEF vars, loopVars
<1>5. QED
  BY <1>1, <1>2, <1>3, <1>4 DEF Next

(* Until the first connection is handled, the time-out's timer runs, or    *)
(* on_wifi_connected(true) is invoked or about to be, however the link     *)
(* comes and goes and however full the queue is (on_wifi_timeout,          *)
(* on_sysem_event).                                                        *)
THEOREM BootIsGuarded == Spec => []Guarded
<1>1. GuardedIInv => Guarded
  BY DEF GuardedIInv
<1>2. QED
  BY <1>1, InitGuarded, StepGuarded, PTL DEF Spec

-----------------------------------------------------------------------------
(* Stopped drivers. *)

(* What the drivers are. *)
DriverTypes ==
  /\ made \in Nat /\ drivers \in [Name -> 0..made] /\ replaced \subseteq 1..made
  /\ slots \in Seq(1..made) /\ timers \subseteq 1..made
  /\ emitting \in 0..Len(slots)

(* A driver connects once. *)
OneSlot == \A i, j \in 1..Len(slots) : slots[i] = slots[j] => i = j

(* While the map is to be cleared, what runs and is not forgotten will be  *)
(* stopped before, no driver will be started, and the function that        *)
(* creates the new ones is invoked next.                                   *)
StopsBefore(i) ==
  \A d \in Running \ replaced :
    /\ d \in timers => \E j \in 1..(i - 1) : calls[j] = Function("stop scan", d)
    /\ d \in Range(slots) => \E j \in 1..(i - 1) : calls[j] = Function("disconnect", d)

Invokes(c, do) == c.do = "invoke" /\ c.func.do = do

ClearsWhole ==
  \A i \in 1..Len(calls) : calls[i].do = "clear" =>
    /\ StopsBefore(i)
    /\ \A j \in 1..(i - 1) : calls[j].do # "start"
    /\ i + 1 \in 1..Len(calls) /\ Invokes(calls[i + 1], "create")

(* No function invokes one that delivers a result. *)
NoResultCalls == \A i \in 1..Len(calls) : ~Invokes(calls[i], "result")

StoppedIInv ==
  /\ IsQueue(funcs) /\ IsQueue(calls) /\ DriverTypes /\ OneSlot
  /\ ClearsWhole /\ NoResultCalls
  /\ StoppedIsGone

-----------------------------------------------------------------------------

(* A slot is taken out of the list. *)
LEMMA SlotRemoved ==
  ASSUME NEW S, NEW s \in Seq(S), NEW p \in 1..Len(s),
         \A i, j \in 1..Len(s) : s[i] = s[j] => i = j
  PROVE  /\ RemoveAt(s, p) \in Seq(S)
         /\ Range(RemoveAt(s, p)) = Range(s) \ {s[p]}
         /\ \A i, j \in 1..Len(RemoveAt(s, p)) : RemoveAt(s, p)[i] = RemoveAt(s, p)[j] => i = j
<1> DEFINE a == SubSeq(s, 1, p - 1)
           b == SubSeq(s, p + 1, Len(s))
           n == Len(s)
<1>1. n \in Nat /\ p \in 1..n /\ DOMAIN s = 1..n /\ \A i \in 1..n : s[i] \in S
  BY LenProperties, ElementOfSeq
<1>2. /\ a \in Seq(S) /\ Len(a) = p - 1 /\ \A i \in 1..p - 1 : a[i] = s[i]
  <2>1. p - 1 \in 0..n /\ p - 1 \in Nat
    BY <1>1
  <2>2. \A i \in 1..p - 1 : s[i] \in S
    BY <1>1
  <2>3. Len(a) = IF 1 <= p - 1 THEN p - 1 - 1 + 1 ELSE 0
    BY <1>1, <2>1, <2>2, SubSeqProperties
  <2>4. a \in Seq(S) /\ \A i \in 1..p - 1 - 1 + 1 : a[i] = s[1 + i - 1]
    BY <1>1, <2>1, <2>2, SubSeqProperties
  <2>5. QED
    BY <1>1, <2>1, <2>3, <2>4
<1>3. /\ b \in Seq(S) /\ Len(b) = n - p /\ \A i \in 1..n - p : b[i] = s[p + i]
  <2>1. p + 1 \in Int /\ n \in Int /\ \A i \in p + 1..n : s[i] \in S
    BY <1>1
  <2>2. Len(b) = IF p + 1 <= n THEN n - (p + 1) + 1 ELSE 0
    BY <1>1, <2>1, SubSeqProperties
  <2>3. b \in Seq(S) /\ \A i \in 1..n - (p + 1) + 1 : b[i] = s[p + 1 + i - 1]
    BY <1>1, <2>1, SubSeqProperties
  <2>4. Len(b) = n - p
    <3>1. PICK m \in Nat : m = n
      BY <1>1
    <3>2. p \in 1..m
      BY <1>1, <3>1
    <3>3. (IF p + 1 <= m THEN m - (p + 1) + 1 ELSE 0) = m - p
      BY <3>2
    <3>4. QED
      BY <2>2, <3>1, <3>3
  <2>5. ASSUME NEW i \in 1..n - p
        PROVE  b[i] = s[p + i]
    <3>1. i \in 1..n - (p + 1) + 1 /\ p + 1 + i - 1 = p + i
      BY <1>1
    <3>2. QED
      BY <2>3, <3>1
  <2>6. QED
    BY <2>3, <2>4, <2>5
<1> DEFINE r == a \o b
<1>4. RemoveAt(s, p) = r
  BY DEF RemoveAt
<1> HIDE DEF a, b, n
<1>a. a \in Seq(S) /\ b \in Seq(S)
  BY <1>2, <1>3
<1>5. /\ r \in Seq(S) /\ Len(r) = Len(a) + Len(b)
      /\ \A i \in 1..Len(a) + Len(b) : r[i] = IF i <= Len(a) THEN a[i] ELSE b[i - Len(a)]
  BY <1>a, ConcatProperties
<1>6. /\ Len(r) = n - 1 /\ DOMAIN r = 1..(n - 1)
      /\ \A i \in 1..n - 1 : r[i] = IF i < p THEN s[i] ELSE s[i + 1]
  <2>1. Len(r) = n - 1 /\ DOMAIN r = 1..(n - 1)
    BY <1>1, <1>2, <1>3, <1>5, LenProperties
  <2>2. ASSUME NEW i \in 1..n - 1
        PROVE  r[i] = IF i < p THEN s[i] ELSE s[i + 1]
    <3>1. CASE i < p
      BY <1>1, <1>2, <1>3, <1>5, <3>1
    <3>2. CASE ~(i < p)
      <4>1. i - (p - 1) \in 1..n - p /\ p + (i - (p - 1)) = i + 1 /\ ~(i <= p - 1)
        BY <1>1, <3>2
      <4>2. r[i] = b[i - (p - 1)]
        BY <1>1, <1>2, <1>3, <1>5, <4>1
      <4>3. QED
        BY <1>3, <3>2, <4>1, <4>2
    <3>3. QED
      BY <3>1, <3>2
  <2>3. QED
    BY <2>1, <2>2
<1> HIDE DEF r
<1>7. Range(r) = Range(s) \ {s[p]}
  <2>1. ASSUME NEW i \in 1..n - 1
        PROVE  r[i] \in Range(s) \ {s[p]}
    <3>1. PICK k \in 1..n : k # p /\ r[i] = s[k]
      <4>1. CASE i < p
        BY <1>1, <1>6, <4>1
      <4>2. CASE ~(i < p)
        <5>1. i + 1 \in 1..n /\ i + 1 # p
          BY <1>1, <4>2
        <5>2. r[i] = s[i + 1]
          BY <1>6, <4>2
        <5>3. QED
          BY <5>1, <5>2
      <4>3. QED
        BY <4>1, <4>2
    <3>2. s[k] # s[p]
      BY <1>1, <3>1 DEF n
    <3>3. QED
      BY <1>1, <3>1, <3>2 DEF Range
  <2>2. ASSUME NEW i \in 1..n, s[i] # s[p]
        PROVE  s[i] \in Range(r)
    <3>1. CASE i < p
      BY <1>1, <1>6, <3>1 DEF Range
    <3>2. CASE i > p
      <4>1. i - 1 \in 1..n - 1 /\ ~(i - 1 < p) /\ i - 1 + 1 = i
        BY <1>1, <3>2
      <4>2. r[i - 1] = s[i] /\ i - 1 \in DOMAIN r
        BY <1>6, <4>1
      <4>3. QED
        BY <4>2 DEF Range
    <3>3. QED
      BY <1>1, <2>2, <3>1, <3>2
  <2>3. QED
    BY <1>1, <1>6, <2>1, <2>2 DEF Range
<1>8. \A i, j \in 1..n - 1 : r[i] = r[j] => i = j
  BY <1>1, <1>6 DEF n
<1>9. QED
  BY <1>4, <1>5, <1>6, <1>7, <1>8

(* No driver is twice in s. *)
Once(s, T) == s \in Seq(T) /\ \A i, j \in 1..Len(s) : s[i] = s[j] => i = j

Longer(s, d, r) ==
  Len(s) \in Nat /\ Len(r) = Len(s) + 1 /\ Range(r) = Range(s) \cup {d}

(* A driver's slot is added. *)
LEMMA SlotAdded ==
  ASSUME NEW S, NEW T, S \subseteq T, NEW s, Once(s, S), NEW d, d \in T, d \notin S,
         NEW r, r = Append(s, d)
  PROVE  Once(r, T) /\ Longer(s, d, r)
<1>0. s \in Seq(S) /\ \A i, j \in 1..Len(s) : s[i] = s[j] => i = j
  BY DEF Once
<1>1. /\ Len(s) \in Nat /\ DOMAIN s = 1..Len(s) /\ \A i \in 1..Len(s) : s[i] \in S
  BY <1>0, LenProperties, ElementOfSeq
<1>2. s \in Seq(T)
  BY <1>0, SeqMonotonic
<1>3. /\ r \in Seq(T) /\ Len(r) = Len(s) + 1 /\ DOMAIN r = 1..Len(s) + 1
      /\ \A i \in 1..Len(s) : r[i] = s[i]
      /\ r[Len(s) + 1] = d
  BY <1>1, <1>2, AppendProperties
<1>4. \A i \in 1..Len(s) : s[i] # d
  BY <1>1
<1>5. Range(r) = Range(s) \cup {d}
  BY <1>1, <1>3 DEF Range
<1>6. \A i, j \in 1..Len(s) + 1 : r[i] = r[j] => i = j
  BY <1>0, <1>1, <1>3, <1>4
<1>7. Once(r, T)
  BY <1>1, <1>3, <1>6 DEF Once
<1>8. QED
  BY <1>1, <1>3, <1>5, <1>7 DEF Longer
-----------------------------------------------------------------------------
(* The results that are invoked. *)

(* What is said of results, and that a function which creates is invoked. *)
ResultsFollowed ==
  \A i \in 1..Len(funcs) :
    funcs[i].do = "result" /\ funcs[i].driver \notin Replaceable => CreatesAfter(i)

CreateComes == \E k \in 1..Len(calls) : calls[k].do = "invoke" /\ Creates(calls[k].func)

LEMMA GoneParts ==
  /\ StoppedIsGone <=> Running \subseteq Replaceable /\ ResultsFollowed
  /\ \A i : CreatesAfter(i) <=> CreateComes \/ \E k \in 1..Len(funcs) : i < k /\ Creates(funcs[k])
BY DEF StoppedIsGone, ResultsFollowed, CreatesAfter, CreateComes

(* Results, when a function is invoked. *)
LEMMA ResultsAppend ==
  ASSUME StoppedIInv, NEW f, funcs' = Append(funcs, f), Replaceable' = Replaceable,
         f.do = "result" => f.driver \in Replaceable,
         CreateComes => CreateComes' \/ Creates(f)
  PROVE  ResultsFollowed' /\ IsQueue(funcs')
<1>1. IsQueue(funcs) /\ ResultsFollowed
  BY GoneParts DEF StoppedIInv
<1>2. /\ IsQueue(funcs') /\ Len(funcs) \in Nat /\ Len(funcs') = Len(funcs) + 1
      /\ funcs'[Len(funcs) + 1] = f
      /\ \A i \in 1..Len(funcs) : funcs'[i] = funcs[i]
  BY <1>1, QueueGrows
<1>3. ASSUME NEW i \in 1..Len(funcs'), funcs'[i].do = "result", funcs'[i].driver \notin Replaceable
      PROVE  CreateComes' \/ \E k \in 1..Len(funcs') : i < k /\ Creates(funcs'[k])
  <2>1. i # Len(funcs) + 1
    BY <1>2, <1>3
  <2>2. i \in 1..Len(funcs) /\ funcs'[i] = funcs[i]
    BY <1>2, <2>1
  <2>3. CreateComes \/ \E k \in 1..Len(funcs) : i < k /\ Creates(funcs[k])
    BY <1>1, <1>3, <2>2, GoneParts DEF ResultsFollowed
  <2>4. CASE \E k \in 1..Len(funcs) : i < k /\ Creates(funcs[k])
    <3>1. PICK k \in 1..Len(funcs) : i < k /\ Creates(funcs[k])
      BY <2>4
    <3>2. k \in 1..Len(funcs') /\ funcs'[k] = funcs[k]
      BY <1>2
    <3>3. QED
      BY <3>1, <3>2
  <2>5. CASE Creates(f)
    <3>1. Len(funcs) + 1 \in 1..Len(funcs') /\ i < Len(funcs) + 1
      BY <1>2, <2>2
    <3>2. QED
      BY <1>2, <2>5, <3>1
  <2>6. QED
    BY <2>3, <2>4, <2>5
<1>4. ResultsFollowed'
  BY <1>3 DEF ResultsFollowed, CreatesAfter, CreateComes, Creates
<1>5. QED
  BY <1>2, <1>4

(* When the loop pops one, no call is left. *)
LEMMA ResultsPop ==
  ASSUME StoppedIInv, NEW f, NEW body, Pops(f, body), Replaceable' = Replaceable
  PROVE  ResultsFollowed' /\ IsQueue(funcs')
<1>1. IsQueue(funcs) /\ ResultsFollowed /\ funcs # <<>> /\ f = Head(funcs) /\ funcs' = Tail(funcs)
  BY GoneParts DEF StoppedIInv, Pops
<1>2. ~CreateComes
  BY DEF CreateComes, Pops
<1>3. /\ IsQueue(funcs') /\ Len(funcs) \in Nat /\ Len(funcs') = Len(funcs) - 1
      /\ \A i \in 1..Len(funcs) - 1 : funcs'[i] = funcs[i + 1]
  BY <1>1, QueueShrinks
<1>4. ASSUME NEW i \in 1..Len(funcs'), funcs'[i].do = "result", funcs'[i].driver \notin Replaceable
      PROVE  \E k \in 1..Len(funcs') : i < k /\ Creates(funcs'[k])
  <2>1. i + 1 \in 1..Len(funcs) /\ funcs'[i] = funcs[i + 1]
    BY <1>3
  <2>2. PICK k \in 1..Len(funcs) : i + 1 < k /\ Creates(funcs[k])
    BY <1>1, <1>2, <1>4, <2>1, GoneParts DEF ResultsFollowed
  <2>3. k - 1 \in 1..Len(funcs') /\ i < k - 1 /\ k - 1 + 1 = k
    BY <1>3, <2>2
  <2>4. funcs'[k - 1] = funcs[k]
    BY <1>3, <2>3
  <2>5. QED
    BY <2>2, <2>3, <2>4
<1>5. ResultsFollowed'
  BY <1>4 DEF ResultsFollowed, CreatesAfter, Creates
<1>6. QED
  BY <1>3, <1>5

LEMMA ResultsSame ==
  ASSUME StoppedIInv, funcs' = funcs, Replaceable \subseteq Replaceable' \/ CreateComes',
         CreateComes => CreateComes'
  PROVE  ResultsFollowed' /\ IsQueue(funcs')
<1>1. IsQueue(funcs) /\ ResultsFollowed
  BY GoneParts DEF StoppedIInv
<1>2. ASSUME NEW i \in 1..Len(funcs), funcs[i].do = "result", funcs[i].driver \notin Replaceable'
      PROVE  CreateComes' \/ \E k \in 1..Len(funcs) : i < k /\ Creates(funcs[k])
  BY <1>1, <1>2, GoneParts DEF ResultsFollowed
<1>3. ResultsFollowed'
  BY <1>2 DEF ResultsFollowed, CreatesAfter, CreateComes, Creates
<1>4. QED
  BY <1>1, <1>3

-----------------------------------------------------------------------------

(* Nothing is cleared by what is called. *)
Harmless(body) ==
  IsQueue(body) /\ \A i \in 1..Len(body) : body[i].do # "clear" /\ ~Invokes(body[i], "result")

LEMMA HarmlessBody ==
  ASSUME NEW body, Harmless(body), calls' = body
  PROVE  IsQueue(calls') /\ ClearsWhole' /\ NoResultCalls'
BY DEF Harmless, ClearsWhole, NoResultCalls, Invokes

LEMMA HarmlessCalls ==
  /\ Harmless(<<>>)
  /\ \A call : call.do # "clear" /\ ~Invokes(call, "result") => Harmless(<<call>>)
<1>1. Harmless(<<>>)
  <2>1. <<>> \in Seq({})
    BY EmptySeq
  <2>2. IsQueue(<<>>) /\ Len(<<>>) = 0
    BY <2>1, QueueSeq, EmptySeq
  <2>3. QED
    BY <2>2 DEF Harmless
<1>2. ASSUME NEW call, call.do # "clear", ~Invokes(call, "result")
      PROVE  Harmless(<<call>>)
  <2>1. <<call>> \in Seq({call}) /\ Len(<<call>>) = 1 /\ <<call>>[1] = call
    OBVIOUS
  <2>2. IsQueue(<<call>>)
    BY <2>1, QueueSeq
  <2>3. QED
    BY <1>2, <2>1, <2>2 DEF Harmless
<1>3. QED
  BY <1>1, <1>2

LEMMA HarmlessEach ==
  ASSUME NEW n \in Nat, NEW body, body = [i \in 1..n |-> body[i]],
         \A i \in 1..n : body[i].do # "clear" /\ ~Invokes(body[i], "result")
  PROVE  Harmless(body)
<1>1. body \in [1..n -> {body[i] : i \in 1..n}]
  OBVIOUS
<1> DEFINE S == {body[i] : i \in 1..n}
<1> HIDE DEF S
<1>2. body \in Seq(S)
  BY <1>1, SeqDef DEF S
<1>3. Len(body) = n
  BY <1>1, <1>2, LenProperties DEF S
<1>4. IsQueue(body)
  BY <1>2, QueueSeq
<1>5. QED
  BY <1>3, <1>4 DEF Harmless

(* What is stopped before the map is cleared, when the calls up to p are. *)
LEMMA StopsUpTo ==
  ASSUME NEW i, NEW p, p = i - 1, StopsBefore(i), NEW d \in Running \ replaced
  PROVE  /\ d \in timers => \E j \in 1..p : calls[j] = Function("stop scan", d)
         /\ d \in Range(slots) => \E j \in 1..p : calls[j] = Function("disconnect", d)
BY DEF StopsBefore

LEMMA ClearPlaces ==
  ASSUME ClearsWhole, NEW n \in Nat, n = Len(calls), NEW p \in 0..n - 1, calls[p + 1].do = "clear"
  PROVE  /\ \A d \in Running \ replaced :
              /\ d \in timers => \E j \in 1..p : calls[j] = Function("stop scan", d)
              /\ d \in Range(slots) => \E j \in 1..p : calls[j] = Function("disconnect", d)
         /\ \A j \in 1..p : calls[j].do # "start"
         /\ p + 2 \in 1..n /\ Invokes(calls[p + 2], "create")
<1>1. PICK k \in 1..n : k = p + 1 /\ p = k - 1 /\ k + 1 = p + 2
  OBVIOUS
<1>2. /\ StopsBefore(k)
      /\ \A j \in 1..(k - 1) : calls[j].do # "start"
      /\ k + 1 \in 1..n /\ Invokes(calls[k + 1], "create")
  BY <1>1 DEF ClearsWhole
<1>3. QED
  BY <1>1, <1>2, StopsUpTo

(* Where the calls are, when the first of n is made. *)
LEMMA Places ==
  ASSUME NEW n \in Nat, n >= 1, NEW i \in 1..n - 1
  PROVE  /\ i \in 1..n /\ i + 1 \in 1..n /\ i \in 0..n - 1
         /\ i + 1 + 1 = i + 2
         /\ i + 2 \in 1..n => i + 1 \in 1..n - 1
         /\ \A j \in 1..(i - 1) : j \in 1..n - 1 /\ j + 1 \in 1..i
         /\ \A j \in 1..i : j # 1 => j - 1 \in 1..(i - 1) /\ j - 1 + 1 = j
OBVIOUS

(* Who a call stops is stopped. *)
Spares(call) ==
  /\ \A d \in timers : call # Function("stop scan", d)
  /\ \A d \in Range(slots) : call # Function("disconnect", d)

(* A call is made that starts no driver. *)
LEMMA CallMade ==
  ASSUME StoppedIInv, NEW call, Calls(call),
         replaced' = replaced, timers' \subseteq timers, Range(slots)' \subseteq Range(slots),
         Spares(call)'
  PROVE  IsQueue(calls') /\ ClearsWhole' /\ NoResultCalls'
<1>1. /\ IsQueue(calls) /\ calls # <<>> /\ call = Head(calls) /\ calls' = Tail(calls)
      /\ ClearsWhole /\ NoResultCalls
  BY DEF StoppedIInv, Calls
<1>2. /\ IsQueue(calls') /\ Len(calls) \in Nat /\ Len(calls) >= 1 /\ Len(calls') = Len(calls) - 1
      /\ calls[1] = call
      /\ \A i \in 1..Len(calls) - 1 : calls'[i] = calls[i + 1]
  BY <1>1, QueueShrinks
<1>n. PICK n \in Nat : n = Len(calls)
  BY <1>2
<1>k. n \in Nat /\ n >= 1
  BY <1>2, <1>n
<1>m. n - 1 = Len(calls')
  BY <1>2, <1>n
<1>3. ASSUME NEW i \in 1..n - 1
      PROVE  i + 1 \in 1..n /\ i \in 1..n /\ calls'[i] = calls[i + 1]
  <2>1. i + 1 \in 1..n /\ i \in 1..n
    BY <1>k, Places
  <2>2. QED
    BY <1>2, <1>n, <2>1
<1>p. ASSUME NEW i \in 1..n - 1
      PROVE  /\ i \in 0..n - 1
             /\ i + 1 + 1 = i + 2
             /\ i + 2 \in 1..n => i + 1 \in 1..n - 1
             /\ \A j \in 1..(i - 1) : j \in 1..n - 1 /\ j + 1 \in 1..i
             /\ \A j \in 1..i : j # 1 => j - 1 \in 1..(i - 1) /\ j - 1 + 1 = j
  BY <1>k, Places
<1>4. NoResultCalls'
  BY <1>1, <1>3, <1>n, <1>m DEF NoResultCalls, Invokes
<1>5. ASSUME NEW i \in 1..n - 1, calls'[i].do = "clear"
      PROVE  /\ StopsBefore(i)'
             /\ \A j \in 1..(i - 1) : calls'[j].do # "start"
             /\ i + 1 \in 1..n - 1 /\ Invokes(calls'[i + 1], "create")
  <2>1. i + 1 \in 1..n /\ calls[i + 1].do = "clear"
    BY <1>3, <1>5
  <2>2. /\ \A d \in Running \ replaced :
             /\ d \in timers => \E j \in 1..i : calls[j] = Function("stop scan", d)
             /\ d \in Range(slots) => \E j \in 1..i : calls[j] = Function("disconnect", d)
        /\ \A j \in 1..i : calls[j].do # "start"
        /\ i + 2 \in 1..n /\ Invokes(calls[i + 2], "create")
    <3>1. i \in 0..n - 1
      BY <1>p
    <3>2. QED
      BY <1>1, <1>k, <1>n, <2>1, <3>1, ClearPlaces
  <2>3. i + 1 \in 1..n - 1 /\ Invokes(calls'[i + 1], "create")
    <3>1. i + 1 \in 1..n - 1
      BY <1>p, <2>2
    <3>2. calls'[i + 1] = calls[i + 1 + 1]
      BY <1>3, <3>1
    <3>3. i + 1 + 1 = i + 2
      BY <1>p
    <3>4. Invokes(calls'[i + 1], "create")
      BY <2>2, <3>2, <3>3
    <3>5. QED
      BY <3>1, <3>4
  <2>4. ASSUME NEW j \in 1..(i - 1)
        PROVE  j + 1 \in 1..i /\ calls'[j] = calls[j + 1]
    <3>1. j + 1 \in 1..i /\ j \in 1..n - 1
      BY <1>p
    <3>2. QED
      BY <1>3, <3>1
  <2>5. ASSUME NEW j \in 1..i, j # 1
        PROVE  j - 1 \in 1..(i - 1) /\ calls'[j - 1] = calls[j]
    <3>1. j - 1 \in 1..(i - 1) /\ j - 1 + 1 = j
      BY <1>p, <2>5
    <3>2. QED
      BY <2>4, <3>1
  <2>6. ASSUME NEW d \in (Running \ replaced)'
        PROVE  /\ d \in timers' => \E j \in 1..(i - 1) : calls'[j] = Function("stop scan", d)
               /\ d \in Range(slots)' => \E j \in 1..(i - 1) : calls'[j] = Function("disconnect", d)
    <3>1. d \in Running \ replaced
      BY <2>6 DEF Running
    <3>2. ASSUME d \in timers'
          PROVE  \E j \in 1..(i - 1) : calls'[j] = Function("stop scan", d)
      <4>1. PICK j \in 1..i : calls[j] = Function("stop scan", d)
        BY <2>2, <3>1, <3>2
      <4>2. j # 1
        BY <1>2, <3>2, <4>1 DEF Spares, Function
      <4>3. QED
        BY <2>5, <4>1, <4>2
    <3>3. ASSUME d \in Range(slots)'
          PROVE  \E j \in 1..(i - 1) : calls'[j] = Function("disconnect", d)
      <4>1. PICK j \in 1..i : calls[j] = Function("disconnect", d)
        BY <2>2, <3>1, <3>3
      <4>2. j # 1
        BY <1>2, <3>3, <4>1 DEF Spares, Function
      <4>3. QED
        BY <2>5, <4>1, <4>2
    <3>4. QED
      BY <3>2, <3>3
  <2>7. StopsBefore(i)'
    BY <2>6 DEF StopsBefore, Function
  <2>8. \A j \in 1..(i - 1) : calls'[j].do # "start"
    BY <2>2, <2>4
  <2>9. QED
    BY <2>3, <2>7, <2>8
<1>6. ClearsWhole'
  BY <1>5, <1>m DEF ClearsWhole, Invokes
<1>7. QED
  BY <1>2, <1>4, <1>6

-----------------------------------------------------------------------------
(* The steps. *)

(* Steps that leave the drivers alone, or what is called. *)
LEMMA SameDrivers ==
  ASSUME StoppedIInv, UNCHANGED <<slots, timers, driverVars>>, emitting' \in 0..Len(slots)
  PROVE  /\ DriverTypes' /\ OneSlot' /\ (Running \subseteq Replaceable)'
         /\ Replaceable' = Replaceable
BY DEF StoppedIInv, DriverTypes, OneSlot, StoppedIsGone, Running, Replaceable, Listed, driverVars

LEMMA SameCalls ==
  ASSUME StoppedIInv, UNCHANGED <<slots, timers, replaced, calls>>
  PROVE  IsQueue(calls') /\ ClearsWhole' /\ NoResultCalls' /\ (CreateComes => CreateComes')
<1>1. IsQueue(calls) /\ ClearsWhole /\ NoResultCalls /\ Running' = Running
  BY DEF StoppedIInv, Running
<1>2. \A i : StopsBefore(i) => StopsBefore(i)'
  BY <1>1 DEF StopsBefore
<1>3. ClearsWhole'
  BY <1>1, <1>2 DEF ClearsWhole
<1>4. QED
  BY <1>1, <1>3 DEF NoResultCalls, CreateComes

LEMMA StoppedStep ==
  ASSUME IsQueue(funcs'), ResultsFollowed', IsQueue(calls'), ClearsWhole', NoResultCalls',
         DriverTypes', OneSlot', (Running \subseteq Replaceable)'
  PROVE  StoppedIInv'
BY DEF StoppedIInv, StoppedIsGone, ResultsFollowed

LEMMA OthersStop ==
  ASSUME StoppedIInv, UNCHANGED <<slots, timers, driverVars, funcs, calls>>,
         emitting' \in 0..Len(slots)
  PROVE  StoppedIInv'
<1>1. replaced' = replaced /\ funcs' = funcs
  BY DEF driverVars
<1>2. IsQueue(calls') /\ ClearsWhole' /\ NoResultCalls' /\ (CreateComes => CreateComes')
  BY <1>1, SameCalls
<1>3. /\ DriverTypes' /\ OneSlot' /\ (Running \subseteq Replaceable)'
      /\ Replaceable' = Replaceable
  BY SameDrivers
<1>4. ResultsFollowed' /\ IsQueue(funcs')
  BY <1>1, <1>2, <1>3, ResultsSame
<1>5. QED
  BY <1>2, <1>3, <1>4, StoppedStep

(* A task invokes a function. *)
LEMMA TaskInvoked ==
  ASSUME StoppedIInv, UNCHANGED <<slots, timers, driverVars, calls>>,
         emitting' \in 0..Len(slots), NEW f, funcs' = Append(funcs, f),
         f.do = "result" => f.driver \in Replaceable
  PROVE  StoppedIInv'
<1>1. replaced' = replaced
  BY DEF driverVars
<1>2. IsQueue(calls') /\ ClearsWhole' /\ NoResultCalls' /\ (CreateComes => CreateComes')
  BY <1>1, SameCalls
<1>3. /\ DriverTypes' /\ OneSlot' /\ (Running \subseteq Replaceable)'
      /\ Replaceable' = Replaceable
  BY SameDrivers
<1>4. ResultsFollowed' /\ IsQueue(funcs')
  BY <1>2, <1>3, ResultsAppend
<1>5. QED
  BY <1>2, <1>3, <1>4, StoppedStep

(* The loop begins a function, or another callback. *)
LEMMA Begins ==
  ASSUME StoppedIInv, UNCHANGED <<slots, timers, driverVars, emitting>>, NEW body,
         Callback(body) \/ \E f : Pops(f, body),
         Harmless(body)
  PROVE  StoppedIInv'
<1>1. calls' = body
  BY DEF Callback, Pops
<1>2. IsQueue(calls') /\ ClearsWhole' /\ NoResultCalls'
  BY <1>1, HarmlessBody
<1>e. emitting' \in 0..Len(slots)
  BY DEF StoppedIInv, DriverTypes
<1>3. /\ DriverTypes' /\ OneSlot' /\ (Running \subseteq Replaceable)'
      /\ Replaceable' = Replaceable
  BY <1>e, SameDrivers
<1>4. ResultsFollowed' /\ IsQueue(funcs')
  <2>1. CASE Callback(body)
    <3>1. funcs' = funcs /\ calls = <<>>
      BY <2>1 DEF Callback, BetweenFunctions
    <3>2. ~CreateComes
      BY <3>1 DEF CreateComes
    <3>3. QED
      BY <1>3, <3>1, <3>2, ResultsSame
  <2>2. CASE \E f : Pops(f, body)
    BY <1>3, <2>2, ResultsPop
  <2>3. QED
    BY <2>1, <2>2
<1>5. QED
  BY <1>2, <1>3, <1>4, StoppedStep

-----------------------------------------------------------------------------

LEMMA ClientStops ==
  ASSUME StoppedIInv, listeners \in Nat, Client
  PROVE  StoppedIInv'
<1>1. UNCHANGED <<slots, timers, driverVars, emitting>>
  BY DEF Client, scannerVars
<1>2. CASE MqttConnects
  <2> DEFINE body == [i \in 1..listeners |-> Invoke(Plain("connected"))]
  <2>1. Callback(body)
    BY <1>2 DEF MqttConnects
  <2>2. Harmless(body)
    <3>1. \A i \in 1..listeners : body[i].do # "clear" /\ ~Invokes(body[i], "result")
      BY DEF Invoke, Plain, Invokes
    <3>2. body = [i \in 1..listeners |-> body[i]]
      OBVIOUS
    <3>3. QED
      BY <3>1, <3>2, HarmlessEach
  <2>3. QED
    BY <1>1, <2>1, <2>2, Begins
<1>3. CASE MqttFails
  BY <1>1, <1>3, HarmlessCalls, Begins DEF MqttFails
<1>4. CASE Message
  <2>1. PICK devices \in Provisions : Callback(<<Invoke(For("provision", devices))>>)
    BY <1>4 DEF Message
  <2>2. Harmless(<<Invoke(For("provision", devices))>>)
    BY HarmlessCalls DEF Invoke, For, Invokes
  <2>3. QED
    BY <1>1, <2>1, <2>2, Begins
<1>5. QED
  BY <1>2, <1>3, <1>4 DEF Client

(* What is called is called; the function that creates is not lost.        *)
LEMMA CallGone ==
  ASSUME StoppedIInv, NEW call, Calls(call)
  PROVE  /\ IsQueue(calls') /\ NoResultCalls'
         /\ CreateComes => CreateComes' \/ Invokes(call, "create")
         /\ \A i \in 1..Len(calls) :
              calls[i] # call => \E k \in 1..Len(calls') : calls'[k] = calls[i]
<1>1. /\ IsQueue(calls) /\ calls # <<>> /\ call = Head(calls) /\ calls' = Tail(calls)
      /\ NoResultCalls
  BY DEF StoppedIInv, Calls
<1>2. /\ IsQueue(calls') /\ Len(calls) \in Nat /\ Len(calls) >= 1 /\ Len(calls') = Len(calls) - 1
      /\ calls[1] = call
      /\ \A i \in 1..Len(calls) - 1 : calls'[i] = calls[i + 1]
  BY <1>1, QueueShrinks
<1>3. ASSUME NEW i \in 1..Len(calls')
      PROVE  i + 1 \in 1..Len(calls) /\ calls'[i] = calls[i + 1]
  BY <1>2
<1>4. ASSUME NEW i \in 1..Len(calls), calls[i] # call
      PROVE  \E k \in 1..Len(calls') : calls'[k] = calls[i]
  <2>1. i # 1 /\ i - 1 \in 1..Len(calls) - 1 /\ i - 1 + 1 = i
    BY <1>2, <1>4
  <2>2. i - 1 \in 1..Len(calls') /\ calls'[i - 1] = calls[i]
    BY <1>2, <2>1
  <2>3. QED
    BY <2>2
<1>5. NoResultCalls'
  BY <1>1, <1>3 DEF NoResultCalls, Invokes
<1>6. CreateComes => CreateComes' \/ Invokes(call, "create")
  BY <1>4 DEF CreateComes, Creates, Invokes
<1>7. QED
  BY <1>2, <1>4, <1>5, <1>6

LEMMA LoopInvoked ==
  ASSUME StoppedIInv, CallsInvoke
  PROVE  StoppedIInv'
<1>0. PICK call : call = Head(calls)
  OBVIOUS
<1>1. /\ Calls(call) /\ call.do = "invoke" /\ funcs' = Append(funcs, call.func)
      /\ UNCHANGED <<slots, timers, driverVars, emitting>> /\ replaced' = replaced
  BY <1>0 DEF CallsInvoke, LoopInvokes, scannerVars, driverVars
<1>2. Spares(call)'
  <2>1. \A d : Function("stop scan", d).do # "invoke" /\ Function("disconnect", d).do # "invoke"
    BY DEF Function
  <2>2. call.do = "invoke"
    BY <1>1
  <2>3. \A d : call # Function("stop scan", d) /\ call # Function("disconnect", d)
    BY <2>1, <2>2
  <2>4. QED
    BY <2>3 DEF Spares
<1>s. timers' \subseteq timers /\ Range(slots)' \subseteq Range(slots)
  BY <1>1
<1>3. IsQueue(calls') /\ ClearsWhole' /\ NoResultCalls'
  BY <1>1, <1>2, <1>s, CallMade
<1>4. ~Invokes(call, "result")
  <2>1. calls # <<>> /\ IsQueue(calls) /\ NoResultCalls
    BY <1>1 DEF Calls, StoppedIInv
  <2>2. Len(calls) \in Nat /\ Len(calls) >= 1 /\ Head(calls) = calls[1]
    BY <2>1, QueueShrinks
  <2>3. 1 \in 1..Len(calls) /\ calls[1] = call
    BY <1>0, <2>2
  <2>4. QED
    BY <2>1, <2>3 DEF NoResultCalls
<1>5. CreateComes => CreateComes' \/ Creates(call.func)
  <2>1. CreateComes => CreateComes' \/ Invokes(call, "create")
    BY <1>1, CallGone
  <2>2. QED
    BY <2>1 DEF Creates, Invokes
<1>6. emitting' \in 0..Len(slots)
  BY <1>1 DEF StoppedIInv, DriverTypes
<1>7. /\ DriverTypes' /\ OneSlot' /\ (Running \subseteq Replaceable)'
      /\ Replaceable' = Replaceable
  BY <1>1, <1>6, SameDrivers
<1>8. ResultsFollowed' /\ IsQueue(funcs')
  BY <1>1, <1>4, <1>5, <1>7, ResultsAppend DEF Invokes
<1>9. QED
  BY <1>3, <1>7, <1>8, StoppedStep

LEMMA StopStops ==
  ASSUME StoppedIInv, Stop
  PROVE  StoppedIInv'
<1>1. PICK d \in 1..made :
        /\ \/ Calls(Function("stop scan", d)) /\ StopScan(d)
           \/ Calls(Function("disconnect", d)) /\ Disconnect(d)
        /\ UNCHANGED <<mqttVars, driverVars, funcs>>
  BY DEF Stop
<1>2. /\ UNCHANGED driverVars /\ UNCHANGED <<drivers, made, replaced>> /\ funcs' = funcs
      /\ Replaceable' = Replaceable
  BY DEF Stop, driverVars, Replaceable, Listed
<1>3. DriverTypes /\ OneSlot /\ Running \subseteq Replaceable
  BY DEF StoppedIInv, StoppedIsGone
<1>a. slots \in Seq(1..made) /\ Len(slots) \in Nat /\ DOMAIN slots = 1..Len(slots)
  BY <1>3, LenProperties DEF DriverTypes
<1>4. CASE Calls(Function("stop scan", d)) /\ StopScan(d)
  <2>1. /\ UNCHANGED <<slots, emitting>> /\ timers' = timers \ {d}
    BY <1>4 DEF StopScan
  <2>2. Spares(Function("stop scan", d))'
    BY <2>1 DEF Spares, Function
  <2>3. ~Invokes(Function("stop scan", d), "create")
    BY DEF Invokes, Function
  <2>4. timers' \subseteq timers /\ Range(slots)' \subseteq Range(slots)
    BY <2>1
  <2>5. IsQueue(calls') /\ ClearsWhole' /\ NoResultCalls' /\ (CreateComes => CreateComes')
    BY <1>2, <1>4, <2>2, <2>3, <2>4, CallMade, CallGone
  <2>6. ResultsFollowed' /\ IsQueue(funcs')
    BY <1>2, <2>5, ResultsSame
  <2>7. DriverTypes' /\ OneSlot' /\ (Running \subseteq Replaceable)'
    BY <1>2, <1>3, <2>1 DEF DriverTypes, OneSlot, Running
  <2>8. QED
    BY <2>5, <2>6, <2>7, StoppedStep
<1>5. CASE Calls(Function("disconnect", d)) /\ Disconnect(d)
  <2>1. /\ UNCHANGED <<timers, emitting>> /\ emitting = 0
        /\ slots' = IF d \in Range(slots) THEN RemoveAt(slots, Place(d)) ELSE slots
    BY <1>5 DEF Disconnect, SignalIsFree
  <2>2. /\ slots' \in Seq(1..made) /\ Range(slots)' = Range(slots) \ {d} /\ OneSlot'
    <3>1. CASE d \in Range(slots)
      <4>1. Place(d) \in 1..Len(slots) /\ slots[Place(d)] = d
        BY <1>a, <3>1 DEF Place, Range
      <4>2. QED
        BY <1>3, <1>a, <2>1, <3>1, <4>1, SlotRemoved DEF OneSlot
    <3>2. CASE d \notin Range(slots)
      BY <1>3, <1>a, <2>1, <3>2 DEF OneSlot
    <3>3. QED
      BY <3>1, <3>2
  <2>3. Spares(Function("disconnect", d))'
    BY <2>2 DEF Spares, Function
  <2>4. ~Invokes(Function("disconnect", d), "create")
    BY DEF Invokes, Function
  <2>5. timers' \subseteq timers /\ Range(slots)' \subseteq Range(slots)
    BY <2>1, <2>2
  <2>6. IsQueue(calls') /\ ClearsWhole' /\ NoResultCalls' /\ (CreateComes => CreateComes')
    BY <1>2, <1>5, <2>3, <2>4, <2>5, CallMade, CallGone
  <2>7. ResultsFollowed' /\ IsQueue(funcs')
    BY <1>2, <2>6, ResultsSame
  <2>8. DriverTypes'
    <3>1. Len(slots') \in Nat
      BY <2>2, LenProperties
    <3>2. emitting' \in 0..Len(slots')
      BY <2>1, <3>1
    <3>3. QED
      BY <1>2, <1>3, <2>1, <2>2, <3>2 DEF DriverTypes
  <2>9. (Running \subseteq Replaceable)'
    BY <1>2, <1>3, <2>1, <2>2 DEF Running
  <2>10. QED
    BY <2>2, <2>6, <2>7, <2>8, <2>9, StoppedStep
<1>6. QED
  BY <1>1, <1>4, <1>5

(* The first call of a function that has calls left. *)
LEMMA FirstCall ==
  ASSUME StoppedIInv, NEW call, Calls(call)
  PROVE  Len(calls) \in Nat /\ 1 \in 1..Len(calls) /\ calls[1] = call
<1>1. IsQueue(calls) /\ calls # <<>> /\ Head(calls) = call
  BY DEF StoppedIInv, Calls
<1>2. Len(calls) \in Nat /\ Len(calls) >= 1 /\ Head(calls) = calls[1]
  BY <1>1, QueueShrinks
<1>3. QED
  BY <1>1, <1>2

(* The map is cleared: what runs is forgotten already. *)
LEMMA ClearStops ==
  ASSUME StoppedIInv, Clear
  PROVE  StoppedIInv'
<1>1. PICK call : call = Plain("clear")
  OBVIOUS
<1>2. /\ Calls(call) /\ call.do = "clear"
      /\ drivers' = [n \in Name |-> 0]
      /\ UNCHANGED <<slots, timers, emitting, made, replaced, funcs>>
  BY <1>1 DEF Clear, Plain, scannerVars
<1>3. Len(calls) \in Nat /\ 1 \in 1..Len(calls) /\ calls[1] = call
  BY <1>2, FirstCall
<1>4. ClearsWhole /\ DriverTypes /\ OneSlot
  BY DEF StoppedIInv
<1>5. /\ \A d \in Running \ replaced :
           /\ d \in timers => \E j \in 1..0 : calls[j] = Function("stop scan", d)
           /\ d \in Range(slots) => \E j \in 1..0 : calls[j] = Function("disconnect", d)
      /\ 2 \in 1..Len(calls) /\ Invokes(calls[2], "create")
  <2>1. PICK n \in Nat : n = Len(calls)
    BY <1>3
  <2>2. PICK p \in 0..n - 1 : p = 0 /\ p + 1 = 1 /\ p + 2 = 2
    BY <1>3, <2>1
  <2>3. calls[p + 1].do = "clear"
    BY <1>2, <1>3, <2>2
  <2>4. /\ \A d \in Running \ replaced :
             /\ d \in timers => \E j \in 1..p : calls[j] = Function("stop scan", d)
             /\ d \in Range(slots) => \E j \in 1..p : calls[j] = Function("disconnect", d)
        /\ p + 2 \in 1..n /\ Invokes(calls[p + 2], "create")
    BY <1>4, <2>1, <2>3, ClearPlaces
  <2>5. QED
    BY <2>1, <2>2, <2>4
<1>6. Running \subseteq replaced
  <2>1. \A j : j \notin 1..0
    OBVIOUS
  <2>2. QED
    BY <1>5, <2>1 DEF Running
<1>7. CreateComes'
  <2>1. calls[2] # call
    BY <1>2, <1>5 DEF Invokes
  <2>2. \E k \in 1..Len(calls') : calls'[k] = calls[2]
    BY <1>2, <1>5, <2>1, CallGone
  <2>3. QED
    BY <1>5, <2>2 DEF CreateComes, Creates, Invokes
<1>8. Spares(call)'
  <2>1. \A d : Function("stop scan", d).do # "clear" /\ Function("disconnect", d).do # "clear"
    BY DEF Function
  <2>2. \A d : call # Function("stop scan", d) /\ call # Function("disconnect", d)
    BY <1>2, <2>1
  <2>3. QED
    BY <2>2 DEF Spares
<1>9. IsQueue(calls') /\ ClearsWhole' /\ NoResultCalls'
  <2>1. timers' \subseteq timers /\ Range(slots)' \subseteq Range(slots) /\ replaced' = replaced
    BY <1>2
  <2>2. QED
    BY <1>2, <1>8, <2>1, CallMade
<1>10. ResultsFollowed' /\ IsQueue(funcs')
  BY <1>2, <1>7, ResultsSame
<1>11. DriverTypes' /\ OneSlot'
  BY <1>2, <1>4 DEF DriverTypes, OneSlot
<1>12. (Running \subseteq Replaceable)'
  BY <1>2, <1>6 DEF Running, Replaceable
<1>13. QED
  BY <1>9, <1>10, <1>11, <1>12, StoppedStep

(* A driver is started: the map is not about to be cleared. *)
LEMMA StartStops ==
  ASSUME StoppedIInv, Start
  PROVE  StoppedIInv'
<1>1. PICK n \in Name :
        /\ Calls(StartAs(n))
        /\ made' = made + 1
        /\ drivers' = [drivers EXCEPT ![n] = made + 1]
        /\ replaced' = replaced \cup ({drivers[n]} \ {0})
        /\ StartDriver(made + 1)
        /\ UNCHANGED <<mqttVars, funcs>>
  BY DEF Start
<1>2. PICK call : call = StartAs(n)
  OBVIOUS
<1>3. Calls(call) /\ call.do = "start" /\ ~Invokes(call, "create")
  BY <1>1, <1>2 DEF StartAs, Invokes
<1>4. Len(calls) \in Nat /\ 1 \in 1..Len(calls) /\ calls[1] = call
  BY <1>3, FirstCall
<1>5. ClearsWhole /\ DriverTypes /\ OneSlot /\ Running \subseteq Replaceable /\ IsQueue(calls)
  BY DEF StoppedIInv, StoppedIsGone
<1>6. ASSUME NEW i \in 1..Len(calls), calls[i].do = "clear"
      PROVE  FALSE
  <2>1. i # 1
    BY <1>3, <1>4, <1>6
  <2>2. 1 \in 1..(i - 1)
    BY <1>4, <2>1
  <2>3. QED
    BY <1>3, <1>4, <1>5, <1>6, <2>2 DEF ClearsWhole
<1>7. ASSUME NEW i \in 1..Len(calls')
      PROVE  calls'[i].do # "clear"
  <2>1. calls # <<>> /\ calls' = Tail(calls)
    BY <1>3 DEF Calls
  <2>2. /\ Len(calls') = Len(calls) - 1
        /\ \A k \in 1..Len(calls) - 1 : calls'[k] = calls[k + 1]
    BY <1>5, <2>1, QueueShrinks
  <2>3. i + 1 \in 1..Len(calls) /\ calls'[i] = calls[i + 1]
    BY <1>4, <2>2
  <2>4. QED
    BY <1>6, <2>3
<1>8. ClearsWhole'
  BY <1>7 DEF ClearsWhole
<1>9. IsQueue(calls') /\ NoResultCalls' /\ (CreateComes => CreateComes')
  BY <1>3, CallGone
<1>d. PICK d : d = made + 1
  OBVIOUS
<1>10. /\ slots' = Append(slots, d) /\ timers' = timers \cup {d} /\ emitting' = 0 /\ funcs' = funcs
  BY <1>1, <1>d DEF StartDriver, SignalIsFree
<1>11. /\ made \in Nat /\ drivers \in [Name -> 0..made] /\ replaced \subseteq 1..made
       /\ slots \in Seq(1..made) /\ timers \subseteq 1..made
  BY <1>5 DEF DriverTypes
<1>12. /\ 1..made \subseteq 1..d /\ 0..made \subseteq 0..d
       /\ d \in (1..d) \ (1..made) /\ d \in Nat /\ d # 0
  BY <1>11, <1>d
<1>13. made' = d /\ drivers' = [drivers EXCEPT ![n] = d]
  BY <1>1, <1>d
<1>14. /\ slots' \in Seq(1..d) /\ Len(slots') = Len(slots) + 1 /\ Len(slots) \in Nat
       /\ Range(slots') = Range(slots) \cup {d}
       /\ \A i, j \in 1..Len(slots') : slots'[i] = slots'[j] => i = j
  <2>1. Once(slots, 1..made) /\ 1..made \subseteq 1..d /\ d \in 1..d /\ d \notin 1..made
    BY <1>5, <1>11, <1>12 DEF Once, OneSlot
  <2>2. Once(slots', 1..d) /\ Longer(slots, d, slots')
    BY <1>10, <2>1, SlotAdded
  <2>3. QED
    BY <2>2 DEF Once, Longer
<1>15. DriverTypes'
  <2>1. drivers' \in [Name -> 0..d]
    BY <1>11, <1>12, <1>13
  <2>2. replaced' \subseteq 1..d
    <3>1. drivers[n] \in 0..made /\ (drivers[n] # 0 => drivers[n] \in 1..made)
      BY <1>11
    <3>2. QED
      BY <1>1, <1>11, <1>12, <3>1
  <2>3. timers' \subseteq 1..d
    BY <1>10, <1>11, <1>12
  <2>4. Len(slots') \in Nat /\ emitting' \in 0..Len(slots')
    BY <1>10, <1>14
  <2>5. QED
    BY <1>12, <1>13, <1>14, <2>1, <2>2, <2>3, <2>4 DEF DriverTypes
<1>16. OneSlot'
  BY <1>14 DEF OneSlot
<1>17. Replaceable \subseteq Replaceable' /\ d \in Replaceable'
  <2>1. drivers'[n] = d /\ \A m \in Name : m # n => drivers'[m] = drivers[m]
    BY <1>11, <1>13
  <2>2. d \in Listed'
    BY <1>12, <2>1 DEF Listed
  <2>3. ASSUME NEW m \in Name, drivers[m] # 0
        PROVE  drivers[m] \in Replaceable'
    <3>1. CASE m = n
      BY <1>1, <2>3, <3>1 DEF Replaceable
    <3>2. CASE m # n
      BY <2>1, <2>3, <3>2 DEF Replaceable, Listed
    <3>3. QED
      BY <3>1, <3>2
  <2>4. replaced \subseteq Replaceable'
    BY <1>1 DEF Replaceable
  <2>5. QED
    BY <2>2, <2>3, <2>4 DEF Replaceable, Listed
<1>18. (Running \subseteq Replaceable)'
  <2>1. Range(slots') \cup timers' \subseteq Running \cup {d}
    BY <1>10, <1>14 DEF Running
  <2>2. Running' = Range(slots') \cup timers'
    BY DEF Running
  <2>3. QED
    BY <1>5, <1>17, <2>1, <2>2
<1>19. ResultsFollowed' /\ IsQueue(funcs')
  BY <1>9, <1>10, <1>17, ResultsSame
<1>20. QED
  BY <1>8, <1>9, <1>15, <1>16, <1>18, <1>19, StoppedStep

(* The map is a finite set of drivers: an order of them has them all.      *)
LEMMA ListedOnce ==
  ASSUME DriverTypes, NEW ds \in SetToSeqs(Listed)
  PROVE  /\ Len(ds) \in Nat /\ ds \in [1..Len(ds) -> Listed]
         /\ \A d \in Listed : \E k \in 1..Len(ds) : ds[k] = d
<1> DEFINE T == {drivers[n] : n \in Name}
           c == Cardinality(Listed)
<1>1. drivers \in [Name -> T] /\ \A t \in T : \E n \in Name : drivers[n] = t
  BY DEF DriverTypes
<1>2. drivers \in Surjection(Name, T)
  BY <1>1 DEF Surjection
<1>3. IsFiniteSet(T)
  BY <1>2, FS_Surjection, ApplicationAssumption
<1>4. IsFiniteSet(Listed)
  BY <1>3, FS_Subset DEF Listed
<1>5. c \in Nat
  BY <1>4, FS_CardinalityType
<1>6. ds \in [1..c -> Listed] /\ \A i, j \in 1..c : i # j => ds[i] # ds[j]
  BY DEF SetToSeqs
<1> HIDE DEF c, T
<1>7. ds \in Injection(1..c, Listed)
  BY <1>6 DEF Injection, IsInjective
<1>8. IsFiniteSet(1..c) /\ Cardinality(1..c) = c
  <2>1. c >= 1 => c - 1 + 1 = c
    BY <1>5
  <2>2. QED
    BY <1>5, <2>1, FS_Interval
<1>9. ds \in Surjection(1..c, Listed)
  BY <1>4, <1>7, <1>8, FS_Injection DEF c
<1>10. Len(ds) = c
  <2>1. ds \in Seq(Listed)
    BY <1>5, <1>6, SeqDef
  <2>2. DOMAIN ds = 1..Len(ds) /\ Len(ds) \in Nat
    BY <2>1, LenProperties
  <2>3. DOMAIN ds = 1..c
    BY <1>6
  <2>4. PICK l \in Nat : l = Len(ds)
    BY <2>2
  <2>5. 1..l = 1..c
    BY <2>2, <2>3, <2>4
  <2>6. l = c
    BY <1>5, <2>5
  <2>7. QED
    BY <2>4, <2>6
<1>11. \A d \in Listed : \E k \in 1..c : ds[k] = d
  BY <1>9 DEF Surjection
<1>12. QED
  BY <1>5, <1>6, <1>10, <1>11

(* What on_provisioning calls, for the drivers ds of the map. *)
StopsAndClears(body, ds, devices) ==
  LET n == Len(ds)
  IN  /\ IsQueue(body) /\ Len(body) = 2 * n + 2
      /\ \A k \in 1..n : /\ body[2 * k - 1] = Function("stop scan", ds[k])
                         /\ body[2 * k] = Function("disconnect", ds[k])
      /\ \A i \in 1..2 * n : body[i].do \in {"stop scan", "disconnect"}
      /\ body[2 * n + 1] = Plain("clear")
      /\ body[2 * n + 2] = Invoke(For("create", devices))

LEMMA StoppingBody ==
  ASSUME NEW n \in Nat, NEW ds \in [1..n -> Listed], NEW devices
  PROVE  StopsAndClears(Stopping(ds) \o Cleared(devices), ds, devices)
<1>0. PICK body : body = Stopping(ds) \o Cleared(devices)
  OBVIOUS
<1> DEFINE a == Stopping(ds)
           b == Cleared(devices)
           f(i) == Function(IF i % 2 = 1 THEN "stop scan" ELSE "disconnect", ds[(i + 1) \div 2])
           R == {f(i) : i \in 1..2 * n} \cup {Plain("clear"), Invoke(For("create", devices))}
<1>1. ds \in Seq(Listed) /\ Len(ds) = n
  <2>1. ds \in Seq(Listed)
    BY SeqDef
  <2>2. DOMAIN ds = 1..Len(ds) /\ Len(ds) \in Nat /\ DOMAIN ds = 1..n
    BY <2>1, LenProperties
  <2>3. QED
    BY <2>1, <2>2
<1>2. 2 * n \in Nat /\ a = [i \in 1..2 * n |-> f(i)]
  <2>1. a = [i \in 1..2 * Len(ds) |-> f(i)]
    BY DEF Stopping
  <2>2. 2 * n \in Nat
    OBVIOUS
  <2>3. QED
    BY <1>1, <2>1, <2>2
<1>3. a \in [1..2 * n -> R]
  BY <1>2
<1>4. b \in Seq(R) /\ Len(b) = 2 /\ b[1] = Plain("clear") /\ b[2] = Invoke(For("create", devices))
  BY DEF Cleared
<1>5. \A i \in 1..2 * n : a[i] = f(i)
  BY <1>2
<1> HIDE DEF a, b, R
<1>m. PICK m \in Nat : m = 2 * n
  BY <1>2
<1>6. a \in Seq(R) /\ Len(a) = m
  <2>1. a \in [1..m -> R]
    BY <1>3, <1>m
  <2>2. a \in Seq(R)
    BY <2>1, SeqDef
  <2>3. DOMAIN a = 1..Len(a) /\ Len(a) \in Nat /\ DOMAIN a = 1..m
    BY <2>1, <2>2, LenProperties
  <2>4. PICK l \in Nat : l = Len(a)
    BY <2>3
  <2>5. 1..l = 1..m
    BY <2>3, <2>4
  <2>6. l = m
    BY <1>m, <2>5
  <2>7. QED
    BY <2>2, <2>4, <2>6
<1>7. /\ a \o b \in Seq(R) /\ Len(a \o b) = Len(a) + Len(b)
      /\ \A i \in 1..Len(a) + Len(b) : (a \o b)[i] = IF i <= Len(a) THEN a[i] ELSE b[i - Len(a)]
  BY <1>4, <1>6, ConcatProperties
<1>8. body = a \o b
  BY <1>0 DEF a, b
<1>9. /\ body \in Seq(R) /\ Len(body) = m + 2
      /\ \A i \in 1..m + 2 : body[i] = IF i <= m THEN a[i] ELSE b[i - m]
  BY <1>4, <1>6, <1>7, <1>8, <1>m
<1>10. \A i \in 1..m : body[i] = f(i)
  <2>1. \A i \in 1..m : i \in 1..m + 2 /\ i <= m
    BY <1>m
  <2>2. QED
    BY <1>5, <1>9, <1>m, <2>1
<1>11. body[m + 1] = Plain("clear") /\ body[m + 2] = Invoke(For("create", devices))
  <2>1. /\ m + 1 \in 1..m + 2 /\ ~(m + 1 <= m) /\ m + 1 - m = 1
        /\ m + 2 \in 1..m + 2 /\ ~(m + 2 <= m) /\ m + 2 - m = 2
    BY <1>m
  <2>2. QED
    BY <1>4, <1>9, <2>1
<1>12. ASSUME NEW k \in 1..n
       PROVE  /\ body[2 * k - 1] = Function("stop scan", ds[k])
              /\ body[2 * k] = Function("disconnect", ds[k])
  <2>1. /\ 2 * k - 1 \in 1..m /\ (2 * k - 1) % 2 = 1 /\ (2 * k - 1 + 1) \div 2 = k
        /\ 2 * k \in 1..m /\ (2 * k) % 2 # 1 /\ (2 * k + 1) \div 2 = k
    BY <1>m
  <2>2. /\ f(2 * k - 1) = Function("stop scan", ds[k])
        /\ f(2 * k) = Function("disconnect", ds[k])
    BY <2>1
  <2>3. QED
    BY <1>10, <2>1, <2>2
<1>13. \A i \in 1..m : body[i].do \in {"stop scan", "disconnect"}
  <2>1. \A i : f(i).do \in {"stop scan", "disconnect"}
    BY DEF Function
  <2>2. QED
    BY <1>10, <2>1
<1>14. IsQueue(body)
  BY <1>9, QueueSeq
<1>15. /\ Len(body) = 2 * n + 2
       /\ \A k \in 1..n : /\ body[2 * k - 1] = Function("stop scan", ds[k])
                          /\ body[2 * k] = Function("disconnect", ds[k])
       /\ \A i \in 1..2 * n : body[i].do \in {"stop scan", "disconnect"}
       /\ body[2 * n + 1] = Plain("clear")
       /\ body[2 * n + 2] = Invoke(For("create", devices))
  BY <1>9, <1>11, <1>12, <1>13, <1>m
<1>16. StopsAndClears(body, ds, devices)
  BY <1>1, <1>14, <1>15 DEF StopsAndClears
<1>17. QED
  BY <1>0, <1>16

(* All that runs is stopped before the map is cleared. *)
LEMMA ProvisioningStops ==
  ASSUME StoppedIInv, OnProvisioning
  PROVE  StoppedIInv'
<1>1. PICK devices \in Provisions, ds \in SetToSeqs(Listed) :
        /\ Pops(For("provision", devices), Stopping(ds) \o Cleared(devices))
        /\ UNCHANGED <<mqttVars, scannerVars, driverVars>>
  BY DEF OnProvisioning
<1>2. PICK body : body = Stopping(ds) \o Cleared(devices)
  OBVIOUS
<1>3. /\ Pops(For("provision", devices), body)
      /\ UNCHANGED <<slots, timers, emitting, driverVars, replaced>>
  BY <1>1, <1>2 DEF scannerVars, driverVars
<1>4. /\ IsQueue(funcs) /\ DriverTypes /\ Running \subseteq Listed \cup replaced
  BY DEF StoppedIInv, StoppedIsGone, Replaceable
<1>5. PICK n \in Nat :
        /\ n = Len(ds) /\ ds \in [1..n -> Listed]
        /\ \A d \in Listed : \E k \in 1..n : ds[k] = d
  BY <1>4, ListedOnce
<1>6. /\ IsQueue(body) /\ Len(body) = 2 * n + 2
      /\ \A k \in 1..n : /\ body[2 * k - 1] = Function("stop scan", ds[k])
                         /\ body[2 * k] = Function("disconnect", ds[k])
      /\ \A i \in 1..2 * n : body[i].do \in {"stop scan", "disconnect"}
      /\ body[2 * n + 1] = Plain("clear")
      /\ body[2 * n + 2] = Invoke(For("create", devices))
  <2>1. StopsAndClears(Stopping(ds) \o Cleared(devices), ds, devices)
    BY <1>5, StoppingBody
  <2>2. StopsAndClears(body, ds, devices)
    BY <1>2, <2>1
  <2>3. QED
    BY <1>5, <2>2 DEF StopsAndClears
<1>m. PICK m \in Nat : m = 2 * n
  BY <1>5
<1>7. /\ Len(body) = m + 2
      /\ \A i \in 1..m : body[i].do \in {"stop scan", "disconnect"}
      /\ body[m + 1].do = "clear"
      /\ Invokes(body[m + 2], "create") /\ body[m + 2].do = "invoke"
  <2>1. Len(body) = m + 2 /\ \A i \in 1..m : body[i].do \in {"stop scan", "disconnect"}
    BY <1>6, <1>m
  <2>2. body[m + 1] = Plain("clear") /\ body[m + 2] = Invoke(For("create", devices))
    BY <1>6, <1>m
  <2>3. /\ Plain("clear").do = "clear" /\ Invoke(For("create", devices)).do = "invoke"
        /\ Invokes(Invoke(For("create", devices)), "create")
    BY DEF Plain, Invoke, For, Invokes
  <2>4. QED
    BY <2>1, <2>2, <2>3
<1>8. ASSUME NEW i \in 1..m + 2
      PROVE  /\ body[i].do = "clear" => i = m + 1
             /\ ~Invokes(body[i], "result")
  <2>1. CASE i \in 1..m
    BY <1>7, <2>1 DEF Invokes
  <2>2. CASE i = m + 1
    BY <1>7, <2>2 DEF Invokes
  <2>3. CASE i = m + 2
    BY <1>7, <2>3 DEF Invokes
  <2>4. QED
    BY <1>m, <2>1, <2>2, <2>3
<1>9. calls' = body /\ Len(calls') = m + 2
  BY <1>3, <1>7 DEF Pops
<1>10. IsQueue(calls') /\ NoResultCalls'
  <2>1. \A i \in 1..Len(body) : ~Invokes(body[i], "result")
    BY <1>7, <1>8
  <2>2. QED
    BY <1>6, <1>9, <2>1 DEF NoResultCalls, Invokes
<1>11. \A d \in Running \ replaced :
         \E k \in 1..n : /\ body[2 * k - 1] = Function("stop scan", d)
                         /\ body[2 * k] = Function("disconnect", d)
  <2>1. ASSUME NEW d \in Running \ replaced
        PROVE  \E k \in 1..n : ds[k] = d
    BY <1>4, <1>5
  <2>2. \A k \in 1..n : /\ body[2 * k - 1] = Function("stop scan", ds[k])
                       /\ body[2 * k] = Function("disconnect", ds[k])
    BY <1>6
  <2>3. QED
    BY <2>1, <2>2
<1>12. ASSUME NEW d \in Running \ replaced
       PROVE  /\ \E j \in 1..m : body[j] = Function("stop scan", d)
              /\ \E j \in 1..m : body[j] = Function("disconnect", d)
  <2>1. PICK k \in 1..n : /\ body[2 * k - 1] = Function("stop scan", d)
                          /\ body[2 * k] = Function("disconnect", d)
    BY <1>11
  <2>2. 2 * k - 1 \in 1..m /\ 2 * k \in 1..m
    BY <1>5, <1>m
  <2>3. QED
    BY <2>1, <2>2
<1>13. StopsBefore(m + 1)'
  <2>1. (Running \ replaced)' = Running \ replaced
    BY <1>3 DEF Running
  <2>2. PICK i \in Nat : i = m + 1 /\ i - 1 = m
    BY <1>m
  <2>3. \A d \in (Running \ replaced)' :
          /\ d \in timers' => \E j \in 1..(i - 1) : calls'[j] = Function("stop scan", d)
          /\ d \in Range(slots') => \E j \in 1..(i - 1) : calls'[j] = Function("disconnect", d)
    BY <1>9, <1>12, <2>1, <2>2
  <2>4. StopsBefore(i)'
    BY <2>3 DEF StopsBefore, Function
  <2>5. QED
    BY <2>2, <2>4
<1>14. ClearsWhole'
  <2>1. ASSUME NEW i \in 1..m + 2, calls'[i].do = "clear"
        PROVE  /\ StopsBefore(i)'
               /\ \A j \in 1..(i - 1) : calls'[j].do # "start"
               /\ i + 1 \in 1..m + 2 /\ Invokes(calls'[i + 1], "create")
    <3>1. i = m + 1
      BY <1>8, <1>9, <2>1
    <3>2. i - 1 = m /\ i + 1 = m + 2 /\ m + 2 \in 1..m + 2
      BY <1>m, <3>1
    <3>3. \A j \in 1..m : calls'[j].do # "start"
      BY <1>7, <1>9
    <3>4. Invokes(calls'[m + 2], "create")
      BY <1>7, <1>9
    <3>5. QED
      BY <1>13, <3>1, <3>2, <3>3, <3>4
  <2>2. QED
    BY <1>9, <2>1 DEF ClearsWhole, Invokes
<1>15. emitting' \in 0..Len(slots)
  BY <1>3, <1>4 DEF DriverTypes
<1>16. /\ DriverTypes' /\ OneSlot' /\ (Running \subseteq Replaceable)'
       /\ Replaceable' = Replaceable
  BY <1>3, <1>15, SameDrivers
<1>17. ResultsFollowed' /\ IsQueue(funcs')
  BY <1>3, <1>16, ResultsPop
<1>18. QED
  BY <1>10, <1>14, <1>16, <1>17, StoppedStep

LEMMA FunctionsStop ==
  ASSUME StoppedIInv, Functions
  PROVE  StoppedIInv'
<1>1. CASE OnMqttConnected
  <2>1. Harmless(<<StartAs(Default)>>)
    BY HarmlessCalls DEF StartAs, Invokes
  <2>2. QED
    BY <1>1, <2>1, Begins DEF OnMqttConnected, scannerVars
<1>2. CASE OnCreate
  <2>1. PICK devices \in Provisions :
          /\ Pops(For("create", devices), [i \in 1..Len(devices) |-> StartAs(devices[i])])
          /\ UNCHANGED <<mqttVars, scannerVars, driverVars>>
    BY <1>2 DEF OnCreate
  <2> DEFINE body == [i \in 1..Len(devices) |-> StartAs(devices[i])]
  <2>2. Len(devices) \in Nat
    BY ApplicationAssumption, LenProperties
  <2>3. \A i \in 1..Len(devices) : body[i].do # "clear" /\ ~Invokes(body[i], "result")
    BY DEF StartAs, Invokes
  <2>4. body = [i \in 1..Len(devices) |-> body[i]]
    OBVIOUS
  <2>5. Harmless(body)
    BY <2>2, <2>3, <2>4, HarmlessEach
  <2>6. QED
    BY <2>1, <2>5, Begins DEF scannerVars
<1>3. CASE OnResult
  <2>1. \E f : Pops(f, <<>>)
    BY <1>3 DEF OnResult
  <2>2. UNCHANGED <<slots, timers, driverVars, emitting>>
    BY <1>3 DEF OnResult, scannerVars
  <2>3. QED
    BY <2>1, <2>2, HarmlessCalls, Begins
<1>4. QED
  BY <1>1, <1>2, <1>3, ProvisioningStops, LoopInvoked, StartStops, StopStops, ClearStops
  DEF Functions

LEMMA OtherTasksStop ==
  ASSUME StoppedIInv, OtherTasks
  PROVE  StoppedIInv'
<1>1. DriverTypes /\ Running \subseteq Replaceable /\ emitting \in 0..Len(slots)
  BY DEF StoppedIInv, DriverTypes, StoppedIsGone
<1>a. slots \in Seq(1..made) /\ Len(slots) \in Nat /\ DOMAIN slots = 1..Len(slots)
  BY <1>1, LenProperties DEF DriverTypes
<1>2. CASE BluetoothTask /\ UNCHANGED <<wifiVars, bootVars, mqttVars, driverVars>>
  <2>1. CASE CallSlot
    <3>1. /\ funcs' = Append(funcs, Function("result", slots[emitting]))
          /\ UNCHANGED <<slots, timers, driverVars, calls>>
          /\ emitting \in 1..Len(slots)
          /\ emitting' = IF emitting < Len(slots) THEN emitting + 1 ELSE 0
      BY <1>1, <1>2, <1>a, <2>1 DEF CallSlot, TaskInvokes
    <3>2. emitting' \in 0..Len(slots)
      BY <1>a, <3>1
    <3>3. slots[emitting] \in Replaceable
      BY <1>1, <1>a, <3>1 DEF Running, Range
    <3>4. Function("result", slots[emitting]).driver \in Replaceable
      BY <3>3 DEF Function
    <3>5. PICK f : f = Function("result", slots[emitting])
      OBVIOUS
    <3>6. funcs' = Append(funcs, f) /\ f.driver \in Replaceable
      BY <3>1, <3>4, <3>5
    <3>7. QED
      BY <3>1, <3>2, <3>6, TaskInvoked
  <2>2. CASE Emit
    <3>1. 1 \in 0..Len(slots)
      BY <1>a, <2>2, EmptySeq DEF Emit
    <3>2. QED
      BY <1>2, <2>2, <3>1, OthersStop DEF Emit, loopVars
  <2>3. CASE HandleEvent
    BY <1>1, <1>2, <2>3, OthersStop DEF HandleEvent, loopVars
  <2>4. CASE SlotWaits
    BY <1>1, <1>2, <2>4, OthersStop DEF SlotWaits, TaskWaits, scannerVars
  <2>5. QED
    BY <1>2, <2>1, <2>2, <2>3, <2>4 DEF BluetoothTask
<1>3. CASE Controller /\ UNCHANGED <<wifiVars, bootVars, mqttVars, driverVars>>
  BY <1>1, <1>3, OthersStop DEF Controller, Command, ScanCompletes, loopVars
<1>4. CASE Station
  BY <1>1, <1>4, OthersStop DEF Station, loopVars, scannerVars
<1>5. CASE EventTask
  <2>1. CASE SystemEvent \/ AnnounceWaits
    BY <1>1, <1>5, <2>1, OthersStop DEF EventTask, SystemEvent, AnnounceWaits, TaskWaits,
       loopVars, scannerVars
  <2>2. CASE Announce
    <3>1. /\ funcs' = Append(funcs, Plain("wifi")) /\ Plain("wifi").do # "result"
          /\ UNCHANGED <<slots, timers, driverVars, calls>> /\ emitting' = emitting
      BY <1>5, <2>2 DEF EventTask, Announce, TaskInvokes, scannerVars, Plain
    <3>2. QED
      BY <1>1, <3>1, TaskInvoked
  <2>3. QED
    BY <1>5, <2>1, <2>2 DEF EventTask
<1>6. QED
  BY <1>2, <1>3, <1>4, <1>5 DEF OtherTasks

-----------------------------------------------------------------------------

(* There is some number of slots to call. *)
StoppedAll == StoppedIInv /\ listeners \in Nat

LEMMA InitStopped == Init => StoppedAll
<1> SUFFICES ASSUME Init
             PROVE  StoppedAll
  OBVIOUS
<1>1. /\ funcs = <<>> /\ calls = <<>> /\ slots = <<>> /\ emitting = 0 /\ timers = {}
      /\ drivers = [n \in Name |-> 0] /\ made = 0 /\ replaced = {} /\ listeners = 0
  BY DEF Init, LoopInit, ScannerInit
<1>2. Harmless(<<>>) /\ Len(<<>>) = 0
  BY HarmlessCalls
<1>3. IsQueue(funcs) /\ IsQueue(calls) /\ Len(funcs) = 0 /\ Len(calls) = 0
  BY <1>1, <1>2 DEF Harmless
<1>4. \A i : i \notin 1..0
  OBVIOUS
<1>5. DriverTypes
  <2>1. slots \in Seq(1..made) /\ emitting \in 0..Len(slots)
    BY <1>1
  <2>2. /\ made \in Nat /\ drivers \in [Name -> 0..made]
        /\ replaced \subseteq 1..made /\ timers \subseteq 1..made
    BY <1>1
  <2>3. QED
    BY <2>1, <2>2 DEF DriverTypes
<1>6. Len(slots) = 0 /\ DOMAIN slots = 1..0
  BY <1>1
<1>7. OneSlot /\ Running = {}
  BY <1>1, <1>4, <1>6 DEF OneSlot, Running, Range
<1>8. ClearsWhole /\ NoResultCalls /\ StoppedIsGone
  BY <1>3, <1>4, <1>7 DEF ClearsWhole, NoResultCalls, StoppedIsGone
<1>9. QED
  BY <1>1, <1>3, <1>5, <1>7, <1>8 DEF StoppedAll, StoppedIInv

LEMMA StepStopped == StoppedAll /\ [Next]_vars => StoppedAll'
<1> SUFFICES ASSUME StoppedAll, [Next]_vars
             PROVE  StoppedAll'
  OBVIOUS
<1>1. StoppedIInv /\ listeners \in Nat /\ emitting \in 0..Len(slots)
  BY DEF StoppedAll, StoppedIInv, DriverTypes
<1>2. StoppedIInv'
  <2>1. CASE OtherTasks
    BY <1>1, <2>1, OtherTasksStop
  <2>2. CASE OnWifiTimeout
    BY <1>1, <2>2, OthersStop DEF OnWifiTimeout, loopVars, scannerVars
  <2>3. CASE OnWifiConnected
    <3>1. (\E f : Pops(f, <<>>)) /\ UNCHANGED <<slots, timers, driverVars, emitting>>
      BY <2>3 DEF OnWifiConnected, scannerVars
    <3>2. QED
      BY <1>1, <3>1, HarmlessCalls, Begins
  <2>4. CASE Client
    BY <1>1, <2>4, ClientStops
  <2>5. CASE Functions
    BY <1>1, <2>5, FunctionsStop
  <2>6. CASE ScanTimers
    <3>1. UNCHANGED <<slots, timers, driverVars, emitting>>
      BY <2>6 DEF ScanTimers, ScanTimer, scannerVars
    <3>2. PICK d \in timers : Callback(<<>>) \/ Callback(<<Invoke(Function("publish", d))>>)
      BY <2>6 DEF ScanTimers, ScanTimer
    <3>3. Harmless(<<>>) /\ Harmless(<<Invoke(Function("publish", d))>>)
      BY HarmlessCalls DEF Invoke, Function, Invokes
    <3>4. QED
      BY <1>1, <3>1, <3>2, <3>3, Begins
  <2>7. CASE UNCHANGED vars
    BY <1>1, <2>7, OthersStop DEF vars, loopVars, scannerVars
  <2>8. QED
    BY <2>1, <2>2, <2>3, <2>4, <2>5, <2>6, <2>7 DEF Next
<1>3. listeners' \in Nat
  <2>1. listeners' = listeners \/ listeners' = listeners + 1
    BY DEF vars, Next, OtherTasks, Station, EventTask, OnWifiTimeout, OnWifiConnected, Client,
       MqttConnects, MqttFails, Message, Functions, OnMqttConnected, OnProvisioning, OnCreate,
       OnResult, CallsInvoke, Start, Stop, Clear, ScanTimers, mqttVars
  <2>2. QED
    BY <1>1, <2>1
<1>4. QED
  BY <1>2, <1>3 DEF StoppedAll

(* When the drivers that a message names are created, the stopped ones are *)
(* gone, however many there are and however their starts, stops, results   *)
(* and messages interleave (on_provisioning, on_mqtt_connected,            *)
(* BLEScannerDriver::stop, Signal::emit).                                  *)
THEOREM StoppedAreGone == Spec => []StoppedIsGone
<1>1. StoppedAll => StoppedIsGone
  BY DEF StoppedAll, StoppedIInv
<1>2. QED
  BY <1>1, InitStopped, StepStopped, PTL DEF Spec

=============================================================================
