------------------------------ MODULE Reading ------------------------------
(***************************************************************************)
(* The two readers of the firmware, the MQTT client and the update.  Each  *)
(* has a stream and a buffer of its own, so that a behaviour is that of    *)
(* one of them.                                                            *)
(***************************************************************************)
EXTENDS Framing, Update

vars == <<bufferVars, wire, missing, framingVars, updateVars>>

Init ==
  /\ BufferInit /\ wire = <<>> /\ missing = 0
  /\ FramingInit /\ UpdateInit
  /\ \/ step = "idle" /\ phase = "none"
     \/ step = "none" /\ phase = "idle"

Next ==
  \/ Framing /\ UNCHANGED updateVars
  \/ Updating /\ UNCHANGED framingVars

Fairness == UpdateFairness

Spec == Init /\ [][Next]_vars /\ Fairness

=============================================================================
