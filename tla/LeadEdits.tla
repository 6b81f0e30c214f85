-------------------------------- MODULE LeadEdits --------------------------------
(***************************************************************************)
(* The marketplace with the two transactions of create_lead and            *)
(* update_lead told apart: the lead is committed first, and its matches    *)
(* are deleted and made anew in a second transaction.  Between the two     *)
(* anything may happen: a bid on an old match, another edit, or the end of *)
(* the request.                                                            *)
(***************************************************************************)
EXTENDS MarketplaceProperties

CONSTANT
  MaxEdits  \* bound: edits whose matches are outstanding at once

VARIABLES
  editing,  \* <<lead, stay>> of the edits whose matches are still to be replaced
  early     \* history: the bids placed while an edit of their lead was one of those

editVars == <<vars, editing, early>>

Editing(l) == \E s \in Stays : <<l, s>> \in editing

InitE == Init /\ editing = {} /\ early = {}

\* The first transaction.  (Outstanding edits of a lead to the same dates are one.)
NewLead(l, s) ==
  /\ leadStatus[l] = "none"
  /\ Cardinality(editing) < MaxEdits
  /\ leadStatus' = [leadStatus EXCEPT ![l] = "active"]
  /\ leadStay' = [leadStay EXCEPT ![l] = s]
  /\ editing' = editing \cup {<<l, s>>}
  /\ UNCHANGED <<matches, bidVars, payVars, listingVars, today, early>>

EditLead(l, s) ==
  /\ leadStatus[l] \in {"draft", "active"}
  /\ Editable(l)
  /\ Cardinality(editing) < MaxEdits
  /\ leadStay' = [leadStay EXCEPT ![l] = s]
  /\ editing' = editing \cup {<<l, s>>}
  /\ UNCHANGED <<leadStatus, matches, bidVars, payVars, listingVars, today, early>>

\* The second one, for the dates its request knows, whatever the lead has by now.
ReplaceMatches(l, s) ==
  /\ <<l, s>> \in editing
  /\ matches' = (matches \ BidsOfLead(l)) \cup ({l} \X Candidates(l, s))
  /\ editing' = editing \ {<<l, s>>}
  /\ UNCHANGED <<leadStatus, leadStay, bidVars, payVars, listingVars, today, early>>

\* The request dies between the two.
BreakOff(l, s) ==
  /\ <<l, s>> \in editing
  /\ editing' = editing \ {<<l, s>>}
  /\ UNCHANGED <<vars, early>>

EditStep ==
  \E l \in Leads, s \in Stays :
    NewLead(l, s) \/ EditLead(l, s) \/ ReplaceMatches(l, s) \/ BreakOff(l, s)

\* The other handlers of leads, of listings, and the jobs.
OtherHandler ==
  \/ \E l \in Leads : UpdateLeadStatus(l) \/ Rematch(l)
  \/ \E p \in Managed : ListingStep(p)
  \/ \E k \in blocks : DeleteBlock(k)
  \/ ListLeads \/ ExpireOverdueLeads \/ Tick

\* What is remembered of a bid until it is withdrawn.
Remember ==
  /\ early' = {b \in early : bidStatus'[b] \notin {"none", "withdrawn"}}
                \cup {b \in PlacedNow : Editing(LeadOf(b))}
  /\ UNCHANGED editing

OtherStep == (OtherHandler \/ \E b \in Bids : BidStep(b)) /\ Remember

NextE == EditStep \/ OtherStep

SpecE == InitE /\ [][NextE]_editVars

--------------------------------------------------------------------------------
\* Safety

\* A bid that was not withdrawn is on the page of its lead, which lists bids by the
\* matches of the lead, unless it was placed between the two transactions of an
\* edit, when the second did not know of it.  A rematch, an edit that dies or a
\* second edit loses none.
UnlistedBidsWereEarly ==
  \A b \in Bids : bidStatus[b] \notin {"none", "withdrawn"} =>
                    b \in LeadProperties(LeadOf(b)) \/ b \in early
================================================================================
