-------------------------------- MODULE MCRaces --------------------------------
(***************************************************************************)
(* The marketplace with a slow request, on the instances of MCMarketplace. *)
(***************************************************************************)
EXTENDS MCMarketplace, Races, TLC

\* The properties fit alike and start with one floor: they can be exchanged.
PropertySymmetry == Permutations(Properties)

EverySlow == {"place_bid", "withdraw_bid", "reject_bid", "accept_bid",
  "accept_counter", "create_bid_payment", "confirm_bid_payment", "update_lead",
  "update_lead_status"}
================================================================================
