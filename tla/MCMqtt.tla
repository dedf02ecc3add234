------------------------------- MODULE MCMqtt -------------------------------
(***************************************************************************)
(* Values for the constants of MqttClient.                                 *)
(***************************************************************************)
EXTENDS MqttClient

(* What may fail of connecting and reading.  A name that is not found ends *)
(* as a host that is not reached does, a failed read as a closed one.      *)
MCLost == {"unreachable", "silent", "handshake", "closed"}

(* Everything but a write that has to wait for its socket. *)
MCWritten == Fault \ {"again"}

=============================================================================
