------------------------------- MODULE Mailbox -------------------------------
(***************************************************************************)
(* What a shared mailbox promises: one slot that one side at a time owns.  *)
(* The requester fills it with its next command, the completer replaces    *)
(* the command by the answer to that very command.                         *)
(***************************************************************************)
EXTENDS Naturals

VARIABLES free, token, type

mailboxVars == <<free, token, type>>

MailboxInit == free = TRUE /\ token = 0 /\ type = "none"

Command ==
    /\ free /\ free' = FALSE
    /\ token' = token + 1 /\ type' = "command"

Answer ==
    /\ ~free /\ free' = TRUE
    /\ type' = "response" /\ UNCHANGED token

MailboxSpec == MailboxInit /\ [][Command \/ Answer]_mailboxVars
=============================================================================
