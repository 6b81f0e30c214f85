------------------------------- MODULE MCAccounts -------------------------------
(***************************************************************************)
(* Accounts for TLC: the seeded administrator and one more address.        *)
(***************************************************************************)
EXTENDS Accounts, TLC

OwnAddresses == [u \in Users |-> u]

Symmetric == Permutations(Requests) \union Permutations(Codes)
================================================================================
