----------------------------- MODULE MCMarketplace -----------------------------
(***************************************************************************)
(* Instances of the marketplace for TLC.                                   *)
(***************************************************************************)
EXTENDS MarketplaceProperties

CONSTANTS a1, m1

\* One agent owns every lead and one manager every property.
OneAgent == [l \in Leads |-> a1]
OneManager == [p \in Properties |-> m1]
EveryFit == Leads \X Properties
Floor1 == [p \in Properties |-> 1]
Floor2 == [p \in Properties |-> 2]
FreeBids == [a \in Agents |-> NoLimit]
FreeAccepts == [m \in Managers |-> NoLimit]
OneBid == [a \in Agents |-> 1]
OneAccept == [m \in Managers |-> 1]

\* A stay, and one that touches it on its last day.
Early == [from |-> 1, to |-> 2]
Touching == [from |-> 2, to |-> 3]
OneStay == {Early}
TwoStays == {Early, Touching}
FirstDay == {[from |-> 1, to |-> 1]}
NoDays == {}

\* The steps of Next on the first day while no dates are blocked: nothing expires.
NextToday ==
  \/ \E l \in Leads : LeadStep(l)
  \/ \E b \in Bids : BidStep(b)
  \/ \E p \in Managed : ListingStep(p)

SpecToday == Init /\ [][NextToday]_vars
================================================================================
