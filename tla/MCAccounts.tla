------------------------------ MODULE MCAccounts ------------------------------
(* Two accounts that may both be administrators, two requests at a time.      *)
EXTENDS Accounts, TLC

Symmetric == Permutations(Users) \cup Permutations(Cookies) \cup Permutations(Calls)
=============================================================================
