----------------------------- MODULE MCInboxPage -----------------------------
(* Small instances of InboxPage. *)
EXTENDS InboxPage

\* The page is opened on a mailbox with one message.
OneMessage == <<"c">>
=============================================================================
