------------------------------ MODULE Scanner ------------------------------
(***************************************************************************)
(* The BLE scanner, L/src/ble/BLEScanner.cpp, and its drivers,             *)
(* L/src/drivers/BLEScannerDriver.cpp: the controller, the Bluetooth task  *)
(* that handles its events, the signal of results (L/include/loopp/core/   *)
(* Signal.hpp) and what a driver connects to it.  Drivers are numbered.    *)
(***************************************************************************)
EXTENDS LoopQueue, SequencesExt

VARIABLES
  commands,   (* what the controller was told and has not done             *)
  events,     (* what the Bluetooth task has not handled                   *)
  scanning,   (* the controller scans                                      *)
  slots,      (* the drivers connected to the signal, in order             *)
  emitting,   (* which slot the Bluetooth task calls next, 0 for none:     *)
              (* otherwise it holds the signal's mutex                     *)
  timers      (* the drivers whose scan_timer runs                         *)

scannerVars == <<commands, events, scanning, slots, emitting, timers>>

ScannerInit ==
  /\ commands = <<>> /\ events = <<>>
  /\ scanning = FALSE
  /\ slots = <<>> /\ emitting = 0
  /\ timers = {}

SignalIsFree == emitting = 0

(* A function of a driver. *)
Function(do, d) == [do |-> do, driver |-> d]

-----------------------------------------------------------------------------
(* The controller. *)

Command ==
  /\ commands # <<>>
  /\ commands' = Tail(commands)
  /\ scanning' = (Head(commands) = "start" \/ (scanning /\ Head(commands) # "stop"))
  /\ events' = IF Head(commands) = "params" THEN Append(events, "params set") ELSE events
  /\ UNCHANGED <<slots, emitting, timers>>

(* scan_duration is over. *)
ScanCompletes ==
  /\ scanning
  /\ scanning' = FALSE
  /\ events' = Append(events, "complete")
  /\ UNCHANGED <<commands, slots, emitting, timers>>

Controller == (Command \/ ScanCompletes) /\ UNCHANGED loopVars

-----------------------------------------------------------------------------
(* The Bluetooth task: gap_event_handler. *)

(* Slip: a completed scan is only reported. *)
AnswerOnce(event) == IF event = "params set" THEN <<"start">> ELSE <<>>

Answered(event) == IF event = "params set" THEN <<"start">> ELSE <<"params">>

HandleEvent ==
  /\ SignalIsFree /\ events # <<>>
  /\ events' = Tail(events)
  /\ commands' = commands \o Answered(Head(events))
  /\ UNCHANGED <<scanning, slots, emitting, timers, loopVars>>

(* A result: the signal locks its mutex and calls its slots one by one,    *)
(* each of them a bound function.                                          *)
Emit ==
  /\ scanning /\ SignalIsFree /\ slots # <<>>
  /\ emitting' = 1
  /\ UNCHANGED <<commands, events, scanning, slots, timers, loopVars>>

CallSlot ==
  /\ emitting > 0
  /\ TaskInvokes("bluetooth", Function("result", slots[emitting]))
  /\ emitting' = IF emitting < Len(slots) THEN emitting + 1 ELSE 0
  /\ UNCHANGED <<commands, events, scanning, slots, timers>>

SlotWaits ==
  /\ emitting > 0
  /\ TaskWaits("bluetooth")
  /\ UNCHANGED scannerVars

BluetoothTask == HandleEvent \/ Emit \/ CallSlot \/ SlotWaits

-----------------------------------------------------------------------------
(* The driver, in the loop's task. *)

(* start: connect, which needs the signal's mutex, the timer and the       *)
(* scanner's start.                                                        *)
StartDriver(d) ==
  /\ SignalIsFree
  /\ slots' = Append(slots, d)
  /\ timers' = timers \cup {d}
  /\ commands' = Append(commands, "params")
  /\ UNCHANGED <<events, scanning, emitting>>

(* stop: the timer, the scanner, and then the signal. *)
StopScan(d) ==
  /\ timers' = timers \ {d}
  /\ commands' = Append(commands, "stop")
  /\ UNCHANGED <<events, scanning, slots, emitting>>

(* Slip: the connection is dropped without being disconnected. *)
StaysConnected(d) == UNCHANGED scannerVars

(* Where the slot of a driver is; a driver connects once. *)
Place(d) == CHOOSE i \in 1..Len(slots) : slots[i] = d

(* A connection that is gone is not disconnected again. *)
Disconnect(d) ==
  /\ SignalIsFree
  /\ slots' = IF d \in Range(slots) THEN RemoveAt(slots, Place(d)) ELSE slots
  /\ UNCHANGED <<commands, events, scanning, emitting, timers>>

(* on_scan_timer: results, if there are any and a connection, are          *)
(* published; they are dropped in any case.                                *)
ScanTimer(d, connected) ==
  /\ d \in timers
  /\ \/ Callback(<<>>)
     \/ connected /\ Callback(<<Invoke(Function("publish", d))>>)
  /\ UNCHANGED scannerVars

=============================================================================
