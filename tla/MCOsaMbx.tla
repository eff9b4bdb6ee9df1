------------------------------ MODULE MCOsaMbx ------------------------------
(* Two clients of two tasks, with fewer addresses than messages they may    *)
(* want to have on their way, so that addresses are used again at once, and *)
(* mailboxes that fill up.                                                  *)
EXTENDS OsaMbx
=============================================================================
