------------------------------ MODULE MCTimers ------------------------------
(***************************************************************************)
(* Values for the constants of Timers.                                     *)
(***************************************************************************)
EXTENDS Timers

MCOneDuration == {1}
MCShort == {0, 1}
MCPeriod == {1}
MCPollWait == {1}
MCNoPollWait == {}

=============================================================================
