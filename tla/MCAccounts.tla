----------------------------- MODULE MCAccounts -----------------------------
(***************************************************************************)
(* Model checking of Accounts: two mails, two names, two passwords, and    *)
(* ids for two registrations, so that two users live side by side or one   *)
(* mail is registered again after it was deleted.                          *)
(***************************************************************************)
EXTENDS Accounts, TLC

Symmetry == Permutations(Mail)
=============================================================================
