------------------------------- MODULE MCPoll -------------------------------
(***************************************************************************)
(* Values for the constants of Poll.                                       *)
(***************************************************************************)
EXTENDS Poll

CONSTANTS f1, f2, t1

MCFd == {f1, f2}
MCOneFd == {f1}
MCTask == {t1}
MCAll == {"notify", "unnotify", "cancel"}
MCNotify == {"notify"}
MCNotifyCancel == {"notify", "cancel"}

=============================================================================
