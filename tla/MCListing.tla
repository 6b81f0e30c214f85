------------------------------- MODULE MCListing -------------------------------
(***************************************************************************)
(* Listing for TLC.                                                        *)
(***************************************************************************)
EXTENDS Listing, TLC

Symmetric == Permutations(Requests) \union Permutations(Managers)
FewPrices == {<<2, 2>>, <<3, 0>>}

\* Prices that differ in one rate or in both.
CloseRates == {<<2, 3>>, <<2, 2>>, <<3, 3>>}
================================================================================
