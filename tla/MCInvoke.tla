------------------------------ MODULE MCInvoke ------------------------------
(* One or two client tasks and the loop, which invokes functions too.      *)
EXTENDS Invoke

CONSTANTS c1, c2, main
MCOneClient == {c1, main}
MCTwoClients == {c1, c2, main}
MCOneClientValue == MCOneClient \X (1..MaxInvoke)
MCTwoClientsValue == MCTwoClients \X (1..MaxInvoke)

=============================================================================
