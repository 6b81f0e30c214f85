-------------------------------- MODULE MCQuotas --------------------------------
(***************************************************************************)
(* The marketplace with its monthly record, on the instances of            *)
(* MCMarketplace.                                                          *)
(***************************************************************************)
EXTENDS MCMarketplace, Quotas
================================================================================
