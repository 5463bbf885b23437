--------------------------- MODULE MCMailboxEcho --------------------------
(* Instance of MailboxEcho for TLC. *)
EXTENDS MailboxEcho
=============================================================================
