---------------------------- MODULE MCAnnouncements ----------------------------
(***************************************************************************)
(* The marketplace with its notifications, on the instances of             *)
(* MCMarketplace.                                                          *)
(***************************************************************************)
EXTENDS MCMarketplace, Announcements, TLC

\* Leads with the same agent and the same fits can be exchanged.
LeadSymmetry == Permutations(Leads)
================================================================================
