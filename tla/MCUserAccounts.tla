---------------------------- MODULE MCUserAccounts ----------------------------
(* Two accounts and two requests, which is what it takes. *)
EXTENDS UserAccounts
=============================================================================
