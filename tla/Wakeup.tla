------------------------------- MODULE Wakeup -------------------------------
(***************************************************************************)
(* What the main loop needs of its Trigger: a wake-up is requested (sent), *)
(* becomes visible to select (ready), and is confirmed once.  Requests in  *)
(* between change nothing.  Module Invoke, which has the Trigger itself,   *)
(* implements it; Poll and Timers use it in the Trigger's place.           *)
(***************************************************************************)
VARIABLE wake

WakeInit == wake = "none"

WakeSignal == wake' = IF wake = "none" THEN "sent" ELSE wake

WakeDeliver == wake = "sent" /\ wake' = "ready"

WakeConfirm == wake = "ready" /\ wake' = "none"

WakeTypeOK == wake \in {"none", "sent", "ready"}

WakeNext == WakeSignal \/ WakeDeliver \/ WakeConfirm

WakeSpec == WakeInit /\ [][WakeNext]_wake

=============================================================================
