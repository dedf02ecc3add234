------------------------------ MODULE Trigger ------------------------------
(***************************************************************************)
(* loopp::core::Trigger: wakes the main loop out of select().  The pipe is *)
(* a pair of UDP sockets on the loopback interface: a datagram written by  *)
(* signal() is on its way (sent) until the network task delivers it, and   *)
(* only then makes the read end readable (ready).                          *)
(*                                                                         *)
(* signal() and confirm() each run under the trigger's own mutex and do    *)
(* not block, so each is one step.                                         *)
(***************************************************************************)
EXTENDS Naturals

VARIABLES
  count,   (* signals since the last confirm                               *)
  sent,    (* datagrams written and not delivered                          *)
  ready    (* datagrams that can be read                                   *)

triggerVars == <<count, sent, ready>>

(* Slips: every signal writes; a confirm forgets to reset the count.       *)
SignalAlways ==
  /\ count' = count + 1
  /\ sent' = sent + 1
  /\ UNCHANGED ready

ConfirmKeepsCount ==
  /\ ready' = IF count > 0 /\ ready > 0 THEN ready - 1 ELSE ready
  /\ UNCHANGED <<count, sent>>

TriggerInit == count = 0 /\ sent = 0 /\ ready = 0

(* Only the first signal after a confirm writes a byte. *)
Signal ==
  /\ count' = count + 1
  /\ sent' = IF count = 0 THEN sent + 1 ELSE sent
  /\ UNCHANGED ready

(* The loopback interface delivers (lwIP, outside the repository). *)
Deliver ==
  /\ sent > 0
  /\ sent' = sent - 1
  /\ ready' = ready + 1
  /\ UNCHANGED count

(* Reads one byte if there was a signal.  The read end is non blocking: if *)
(* nothing is readable the assertion in the code fails.                    *)
Confirm ==
  /\ ready' = IF count > 0 /\ ready > 0 THEN ready - 1 ELSE ready
  /\ count' = 0
  /\ UNCHANGED sent

(* The assertion of confirm(), "Failed to confirm trigger".                *)
ConfirmAssertion == count > 0 => ready > 0

(* One byte is under way exactly while there are unconfirmed signals, so   *)
(* the pipe never fills ("Failed to trigger" is the assertion on that).    *)
OneByte == sent + ready = IF count > 0 THEN 1 ELSE 0

=============================================================================
