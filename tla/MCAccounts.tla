----------------------------- MODULE MCAccounts -----------------------------
(***************************************************************************)
(* Two users, one of whom adminEmails names: two forms, of the first run   *)
(* or the login, two Microsoft callbacks, and two commands of admins.      *)
(***************************************************************************)
EXTENDS Accounts, TLC

Interchangeable ==
  Permutations(Forms) \cup Permutations(SignIns) \cup Permutations(Commands)
=============================================================================
