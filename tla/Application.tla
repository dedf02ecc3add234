---------------------------- MODULE Application ----------------------------
(***************************************************************************)
(* The firmware's own part, main/src/main.cpp, from the first attempt to   *)
(* join the Wi-Fi to drivers that are provisioned anew: over Wifi.cpp, the *)
(* scanner and its drivers, and an MQTT client that is off, tries to       *)
(* connect, or is on.  Functions that only log or send are left out.       *)
(***************************************************************************)
EXTENDS Scanner

CONSTANTS
  Name,       (* of drivers                                                *)
  Default,    (* the name of the default scanner                           *)
  Provisions, (* the devices that a message may name: sequences of names   *)
  MaxIp, MaxMqtt, MaxMessage   (* bounds: addresses that the Wi-Fi gets,   *)
              (* connections to the server, messages                       *)

ASSUME ApplicationAssumption ==
  IsFiniteSet(Name) /\ Default \in Name /\ Provisions \subseteq Seq(Name)

VARIABLES
  link,       (* the station: "joining", "up", or "down"                   *)
  wifi_events, (* what the event task has not handled                      *)
  wifi,       (* the connected property of Wifi                            *)
  announcing, (* the event task has set it and not yet called its slots    *)
  wifi_timeout_timer,   (* it runs                                         *)
  wifi_fail_count,
  joined,     (* on_wifi_connected(true) has run                           *)
  mqtt,       (* the MQTT client                                           *)
  listeners,  (* how many slots its connected property has                 *)
  subscribed, (* the filters are there                                     *)
  drivers,    (* the map: from names to drivers, 0 for none                *)
  made,       (* how many drivers were created                             *)
  replaced,   (* the drivers whose place in the map another has taken      *)
  restarted,  (* esp_restart                                               *)
  ips, connections, messages   (* counters for the bounds                  *)

wifiVars == <<link, wifi_events, wifi, announcing, ips>>
bootVars == <<wifi_timeout_timer, wifi_fail_count, joined, restarted>>
mqttVars == <<mqtt, listeners, subscribed, connections, messages>>
driverVars == <<drivers, made, replaced>>
vars == <<loopVars, scannerVars, wifiVars, bootVars, mqttVars, driverVars>>

(* A function that is given nothing, and one that is given devices. *)
Plain(do) == [do |-> do]
For(do, devices) == [do |-> do, devices |-> devices]

Listed == {drivers[n] : n \in Name} \ {0}

(* main_task. *)
Init ==
  /\ LoopInit /\ ScannerInit
  /\ link = "joining" /\ wifi_events = <<>> /\ wifi = FALSE /\ announcing = FALSE /\ ips = 0
  /\ wifi_timeout_timer = TRUE /\ wifi_fail_count = 0 /\ joined = FALSE /\ restarted = FALSE
  /\ mqtt = "off" /\ listeners = 0 /\ subscribed = FALSE /\ connections = 0 /\ messages = 0
  /\ drivers = [n \in Name |-> 0] /\ made = 0 /\ replaced = {}

-----------------------------------------------------------------------------
(* Wi-Fi. *)

GetsIp ==
  /\ link = "joining" /\ ips < MaxIp
  /\ link' = "up" /\ ips' = ips + 1
  /\ wifi_events' = Append(wifi_events, "got ip")
  /\ UNCHANGED <<wifi, announcing>>

LosesLink ==
  /\ link = "up" /\ ips < MaxIp
  /\ link' = "down"
  /\ wifi_events' = Append(wifi_events, "disconnected")
  /\ UNCHANGED <<wifi, announcing, ips>>

Station == (GetsIp \/ LosesLink) /\ UNCHANGED <<loopVars, scannerVars, bootVars, mqttVars, driverVars>>

(* What esp_wifi_stop and esp_wifi_start leave behind. *)
Rejoined(left) ==
  /\ link' = "joining"
  /\ wifi_events' = IF link = "up" THEN Append(left, "stop") ELSE left

(* Slip: the slots are not told. *)
SetSilently(value) == wifi' = value /\ announcing' = FALSE

(* Property::set, up to the call of the slots. *)
Set(value) == wifi' = value /\ announcing' = (value /\ ~wifi)

(* on_sysem_event, in the event task. *)
SystemEvent ==
  /\ wifi_events # <<>> /\ ~announcing
  /\ Set(Head(wifi_events) = "got ip")
  /\ IF Head(wifi_events) = "disconnected"
     THEN Rejoined(Tail(wifi_events))
     ELSE link' = link /\ wifi_events' = Tail(wifi_events)
  /\ UNCHANGED <<ips, loopVars>>

Announce ==
  /\ announcing
  /\ TaskInvokes("event", Plain("wifi"))
  /\ announcing' = FALSE
  /\ UNCHANGED <<link, wifi_events, wifi, ips>>

AnnounceWaits ==
  /\ announcing
  /\ TaskWaits("event")
  /\ UNCHANGED wifiVars

EventTask ==
  /\ SystemEvent \/ Announce \/ AnnounceWaits
  /\ UNCHANGED <<scannerVars, bootVars, mqttVars, driverVars>>

-----------------------------------------------------------------------------

(* Slip: the timer is not set again. *)
NotRearmed == FALSE

Rearmed == ~wifi

(* on_wifi_timeout. *)
OnWifiTimeout ==
  /\ BetweenFunctions
  /\ wifi_timeout_timer
  /\ wifi_timeout_timer' = Rearmed
  /\ wifi_fail_count' = IF wifi THEN wifi_fail_count ELSE wifi_fail_count + 1
  /\ restarted' = (wifi_fail_count' = 3 /\ ~wifi)
  /\ IF wifi THEN UNCHANGED <<link, wifi_events>> ELSE Rejoined(wifi_events)
  /\ UNCHANGED <<wifi, announcing, ips, joined, loopVars, scannerVars, mqttVars, driverVars>>

(* on_wifi_connected(true): one more slot, and connect, which throws when  *)
(* there is a connection.                                                  *)
OnWifiConnected ==
  /\ Pops(Plain("wifi"), <<>>)
  /\ wifi_fail_count' = 0 /\ wifi_timeout_timer' = FALSE /\ joined' = TRUE
  /\ listeners' = listeners + 1
  /\ mqtt' = IF mqtt = "on" THEN "on" ELSE "trying"
  /\ UNCHANGED <<restarted, subscribed, connections, messages, scannerVars, wifiVars, driverVars>>

-----------------------------------------------------------------------------
(* The MQTT client. *)

(* The connected property calls its slots, bound functions. *)
MqttConnects ==
  /\ mqtt = "trying" /\ connections < MaxMqtt
  /\ mqtt' = "on" /\ connections' = connections + 1
  /\ Callback([i \in 1..listeners |-> Invoke(Plain("connected"))])
  /\ UNCHANGED <<listeners, subscribed, messages>>

(* handle_error, which connects again. *)
MqttFails ==
  /\ mqtt = "on"
  /\ mqtt' = "trying"
  /\ Callback(<<>>)
  /\ UNCHANGED <<listeners, subscribed, connections, messages>>

(* The filter's callback is a bound function. *)
Message ==
  /\ mqtt = "on" /\ subscribed /\ messages < MaxMessage
  /\ messages' = messages + 1
  /\ \E devices \in Provisions : Callback(<<Invoke(For("provision", devices))>>)
  /\ UNCHANGED <<mqtt, listeners, subscribed, connections>>

Client ==
  /\ MqttConnects \/ MqttFails \/ Message
  /\ UNCHANGED <<scannerVars, wifiVars, bootVars, driverVars>>

-----------------------------------------------------------------------------
(* The functions of the loop. *)

StartAs(name) == [do |-> "start", name |-> name]

(* Slip: the next step is forgotten. *)
ClearedOnly(devices) == <<Plain("clear")>>

Cleared(devices) == <<Plain("clear"), Invoke(For("create", devices))>>

(* on_mqtt_connected(true). *)
OnMqttConnected ==
  /\ Pops(Plain("connected"), <<StartAs(Default)>>)
  /\ subscribed' = TRUE
  /\ UNCHANGED <<mqtt, listeners, connections, messages, scannerVars, driverVars>>

(* Two calls stop each of the drivers. *)
Stopping(ds) ==
  [i \in 1..2 * Len(ds) |->
     Function(IF i % 2 = 1 THEN "stop scan" ELSE "disconnect", ds[(i + 1) \div 2])]

(* on_provisioning: stops the drivers of the map, one after the other,     *)
(* clears it, and leaves the rest to a function.                           *)
OnProvisioning ==
  \E devices \in Provisions, ds \in SetToSeqs(Listed) :
    /\ Pops(For("provision", devices), Stopping(ds) \o Cleared(devices))
    /\ UNCHANGED <<mqttVars, scannerVars, driverVars>>

OnCreate ==
  \E devices \in Provisions :
    /\ Pops(For("create", devices), [i \in 1..Len(devices) |-> StartAs(devices[i])])
    /\ UNCHANGED <<mqttVars, scannerVars, driverVars>>

(* What a driver collects and what it publishes is left out. *)
OnResult ==
  \E d \in 1..made, do \in {"result", "publish"} :
    /\ Pops(Function(do, d), <<>>)
    /\ UNCHANGED <<mqttVars, scannerVars, driverVars>>

(* Their calls. *)
CallsInvoke == LoopInvokes /\ UNCHANGED <<mqttVars, scannerVars, driverVars>>

Start ==
  \E n \in Name :
    /\ Calls(StartAs(n))
    /\ made' = made + 1
    /\ drivers' = [drivers EXCEPT ![n] = made + 1]
    /\ replaced' = replaced \cup ({drivers[n]} \ {0})
    /\ StartDriver(made + 1)
    /\ UNCHANGED <<mqttVars, funcs>>

Stop ==
  \E d \in 1..made :
    /\ \/ Calls(Function("stop scan", d)) /\ StopScan(d)
       \/ Calls(Function("disconnect", d)) /\ Disconnect(d)
    /\ UNCHANGED <<mqttVars, driverVars, funcs>>

Clear ==
  /\ Calls(Plain("clear"))
  /\ drivers' = [n \in Name |-> 0]
  /\ UNCHANGED <<mqttVars, scannerVars, made, replaced, funcs>>

Functions ==
  /\ \/ OnMqttConnected \/ OnProvisioning \/ OnCreate \/ OnResult
     \/ CallsInvoke \/ Start \/ Stop \/ Clear
  /\ UNCHANGED <<wifiVars, bootVars>>

ScanTimers ==
  \E d \in timers :
    /\ ScanTimer(d, mqtt = "on")
    /\ UNCHANGED <<wifiVars, bootVars, mqttVars, driverVars>>

OtherTasks ==
  \/ (Controller \/ BluetoothTask) /\ UNCHANGED <<wifiVars, bootVars, mqttVars, driverVars>>
  \/ Station \/ EventTask

Next ==
  /\ ~restarted
  /\ OtherTasks \/ OnWifiTimeout \/ OnWifiConnected \/ Client \/ Functions \/ ScanTimers

(* The tasks run, the controller answers and completes its scans, callbacks *)
(* return.  The Bluetooth task handles events and results in one order, and *)
(* a mutex that is given readies its waiter: hence strong fairness.          *)
Fairness ==
  /\ WF_vars(EventTask) /\ WF_vars(OnWifiTimeout) /\ WF_vars(OnWifiConnected)
  /\ WF_vars(Controller /\ UNCHANGED <<wifiVars, bootVars, mqttVars, driverVars>>)
  /\ SF_vars(HandleEvent /\ UNCHANGED <<wifiVars, bootVars, mqttVars, driverVars>>)
  /\ SF_vars(CallSlot /\ UNCHANGED <<wifiVars, bootVars, mqttVars, driverVars>>)
  /\ SF_vars(Functions)

Spec == Init /\ [][Next]_vars /\ Fairness

-----------------------------------------------------------------------------

Invoked(do) == \E i \in 1..Len(funcs) : funcs[i].do = do

(* Until the first connection is handled, something brings the firmware on *)
(* whatever the order of the time-out and the events: the timer runs, or   *)
(* on_wifi_connected(true) is invoked or about to be (on_wifi_timeout,     *)
(* which does not set the timer again when it finds the property true).    *)
Guarded == joined \/ restarted \/ wifi_timeout_timer \/ announcing \/ Invoked("wifi")

(* However often the link comes and goes, the firmware joins or restarts   *)
(* (on_wifi_timeout, on_sysem_event).                                      *)
BootEnds == <>(joined \/ restarted)

Running == Range(slots) \cup timers

Replaceable == Listed \cup replaced

Creates(f) == f.do = "create"

(* The function that creates drivers is still to be invoked, or waits      *)
(* behind the i-th one.                                                    *)
CreatesAfter(i) ==
  \/ \E k \in 1..Len(funcs) : i < k /\ Creates(funcs[k])
  \/ \E k \in 1..Len(calls) : calls[k].do = "invoke" /\ Creates(calls[k].func)

(* When the new drivers are created, as main.cpp:262 means it, the stopped *)
(* ones are gone: no driver is connected or has a timer unless it is in    *)
(* the map, or another took its name there without stopping it; and the    *)
(* results of a stopped one are followed by a function that creates.       *)
StoppedIsGone ==
  /\ Running \subseteq Replaceable
  /\ \A i \in 1..Len(funcs) :
       funcs[i].do = "result" /\ funcs[i].driver \notin Replaceable => CreatesAfter(i)

NextCall(dos) == calls # <<>> /\ Head(calls).do \in dos

(* The ways to stop for ever: a task waits for a slot with queue_mutex     *)
(* while the loop needs it; the loop waits for a slot itself; or the loop  *)
(* waits for the mutex of the signal, whose holder waits for a slot.       *)
Deadlocked ==
  /\ ~HasRoom
  /\ \/ BetweenFunctions /\ holder # "none"
     \/ NextCall({"invoke"})
     \/ NextCall({"start", "disconnect"}) /\ ~SignalIsFree

(* Unless the queue fills, a message that names devices leads to new       *)
(* drivers (on_provisioning).                                              *)
ProvisioningEnds ==
  \/ <>[]Deadlocked \/ <>restarted
  \/ (Invoked("provision") ~>
        ~Invoked("provision") /\ ~Invoked("create") /\ calls = <<>> /\ Listed # {})

(* While there is a driver, the controller scans again and again, whatever *)
(* the order of parameters, completions, stops and starts                  *)
(* (gap_event_handler).                                                    *)
KeepsScanning ==
  \/ <>[]Deadlocked \/ <>restarted
  \/ []<>(scanning \/ Listed = {})

=============================================================================
