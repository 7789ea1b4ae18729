------------------------------ MODULE MCInbox ------------------------------
(* TLC instance of Inbox.                                                  *)
EXTENDS Inbox
=============================================================================
