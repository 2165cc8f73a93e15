----------------------------- MODULE MCAccounts -----------------------------
(* Accounts for TLC: invites, requests and passwords are interchangeable. *)
EXTENDS Accounts, TLC

Interchangeable ==
  Permutations(Passwords) \cup Permutations(Invites) \cup Permutations(Visits)
    \cup Permutations(Founded)
=============================================================================
