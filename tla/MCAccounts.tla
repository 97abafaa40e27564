----------------------------- MODULE MCAccounts -----------------------------
(* Accounts on a small instance: one account, which is where requests      *)
(* meet; passwords are interchangeable.                                    *)
EXTENDS Accounts, TLC

Symmetric == Permutations(Password) \cup Permutations(Worker) \cup Permutations(Link)
=============================================================================
