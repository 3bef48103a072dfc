----------------------------- MODULE MCAccounts -----------------------------
(* Instances of Accounts for TLC: requests, accounts and files are          *)
(* interchangeable.                                                         *)
EXTENDS Accounts, TLC

Alike == Permutations(Requests) \cup Permutations(Accounts) \cup Permutations(Files)
=============================================================================
