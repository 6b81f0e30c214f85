--------------------------- MODULE CompositionProofs ---------------------------
(***************************************************************************)
(* Theorems about the modules that compose the marketplace: with edits in  *)
(* two transactions (LeadEdits), with the notifications it sends           *)
(* (Announcements), with a request that is overtaken by others (Races),    *)
(* and with a record of its months (Quotas).                               *)
(***************************************************************************)
EXTENDS MarketplaceProofs, Announcements, Races, Quotas

--------------------------------------------------------------------------------
(***************************************************************************)
(* Edits.  Between its two transactions an edit has no live bid to fear    *)
(* for but the early ones, since the first of them wants none there; the   *)
(* second drops the matches of its own lead only.                          *)
(***************************************************************************)
EditInv ==
  /\ TypeOK /\ PriceInv /\ FlowInv
  /\ \A b \in Bids : bidStatus[b] # "none" => leadStatus[LeadOf(b)] # "none"
  /\ \A b \in Bids : Open(b) /\ Editing(LeadOf(b)) => b \in early
  /\ UnlistedBidsWereEarly
  /\ LiveBidsKeepLeadDates

\* The first transaction of an edit, and the second.
LEMMA EditTypeOK ==
  ASSUME TypeOK, NEW l \in Leads, NEW s \in Stays,
         NewLead(l, s) \/ EditLead(l, s) \/ ReplaceMatches(l, s) \/ BreakOff(l, s)
  PROVE  TypeOK'
<1>1. s \in StaysOrNone /\ {l} \X Candidates(l, s) \subseteq Bids
  BY DEF StaysOrNone, Candidates, Bids
<1>2. CASE NewLead(l, s)
  BY <1>1, <1>2 DEF NewLead, TypeOK, LeadStatuses, bidVars, offerVars, payVars, listingVars, rateVars
<1>3. CASE EditLead(l, s)
  BY <1>1, <1>3 DEF EditLead, TypeOK, bidVars, offerVars, payVars, listingVars, rateVars
<1>4. CASE ReplaceMatches(l, s)
  BY <1>1, <1>4 DEF ReplaceMatches, TypeOK, bidVars, offerVars, payVars, listingVars, rateVars
<1>5. CASE BreakOff(l, s)
  BY <1>5 DEF BreakOff, TypeOK, vars, leadVars, bidVars, offerVars, payVars, listingVars, rateVars
<1>6. QED
  BY <1>2, <1>3, <1>4, <1>5

\* Neither touches a bid or a payment.
LEMMA EditKeepsBids ==
  ASSUME EditStep
  PROVE  UNCHANGED <<bidVars, payVars, rateVars>>
BY DEF EditStep, NewLead, EditLead, ReplaceMatches, BreakOff, vars, listingVars

LEMMA EditKeepsMoney ==
  ASSUME PriceInv, FlowInv, NEW l \in Leads, NEW s \in Stays,
         NewLead(l, s) \/ EditLead(l, s) \/ ReplaceMatches(l, s) \/ BreakOff(l, s)
  PROVE  PriceInv' /\ FlowInv'
<1>1. UNCHANGED <<bidVars, payVars, rateVars>>
  BY EditKeepsBids DEF EditStep
<1>2. KeepsPrices
  BY <1>1 DEF KeepsPrices, bidVars, offerVars, payVars, rateVars
<1>3. FlowInv'
  BY <1>1 DEF FlowInv, Booked, bidVars, payVars
<1>4. QED
  BY <1>2, <1>3, KeepsPricesInv

\* The first transaction finds no live bid on its lead and leaves the matches alone.
LEMMA FirstTransaction ==
  ASSUME EditInv, NEW l \in Leads, NEW s \in Stays, NewLead(l, s) \/ EditLead(l, s)
  PROVE  EditInv'
<1>1. TypeOK' /\ PriceInv' /\ FlowInv'
  BY EditTypeOK, EditKeepsMoney DEF EditInv
<1>2. \A b \in BidsOfLead(l) : ~ Open(b)
  BY DEF NewLead, EditLead, Editable, EditInv, BidsOfLead, Open
<1>3. /\ UNCHANGED <<matches, bidStatus, bidStay, early>>
      /\ \A t : <<l, t>> \in editing' => t = s \/ <<l, t>> \in editing
      /\ \A m \in Leads \ {l} : \A t : <<m, t>> \in editing' => <<m, t>> \in editing
  BY DEF NewLead, EditLead, bidVars, offerVars
<1>4. /\ leadStatus'[l] # "none"
      /\ \A m \in Leads \ {l} : leadStay'[m] = leadStay[m] /\ leadStatus'[m] = leadStatus[m]
  BY DEF NewLead, EditLead, EditInv, TypeOK
<1>5. ASSUME NEW b \in Bids
      PROVE  /\ bidStatus'[b] # "none" => leadStatus'[LeadOf(b)] # "none"
             /\ Open(b)' /\ Editing(LeadOf(b))' => b \in early'
             /\ Open(b)' => bidStay'[b] = leadStay'[LeadOf(b)]
  <2>1. LeadOf(b) \in Leads
    BY BidParts
  <2>2. CASE LeadOf(b) = l
    BY <1>2, <1>3, <1>4, <2>2 DEF BidsOfLead, Open
  <2>3. CASE LeadOf(b) # l
    BY <1>3, <1>4, <2>1, <2>3 DEF EditInv, Open, Editing, LiveBidsKeepLeadDates
  <2>4. QED
    BY <2>2, <2>3
<1>6. UnlistedBidsWereEarly'
  BY <1>3 DEF EditInv, UnlistedBidsWereEarly, LeadProperties
<1>7. QED
  BY <1>1, <1>5, <1>6 DEF EditInv, LiveBidsKeepLeadDates, Open

\* The second drops no match with a live bid but those of early bids.
LEMMA SecondTransaction ==
  ASSUME EditInv, NEW l \in Leads, NEW s \in Stays, ReplaceMatches(l, s) \/ BreakOff(l, s)
  PROVE  EditInv'
<1>1. TypeOK' /\ PriceInv' /\ FlowInv'
  BY EditTypeOK, EditKeepsMoney DEF EditInv
<1>2. /\ UNCHANGED <<leadStatus, leadStay, bidStatus, bidStay, early>>
      /\ editing' \subseteq editing /\ <<l, s>> \in editing
      /\ matches \ BidsOfLead(l) \subseteq matches'
  BY DEF ReplaceMatches, BreakOff, vars, leadVars, bidVars, offerVars
<1>3. BreakOff(l, s) => UNCHANGED matches
  BY DEF BreakOff, vars, leadVars
<1>4. \A b \in BidsOfLead(l) : Open(b) => b \in early
  BY <1>2 DEF EditInv, Editing, BidsOfLead
<1>5. UnlistedBidsWereEarly'
  BY <1>2, <1>4 DEF EditInv, UnlistedBidsWereEarly, LeadProperties, BidsOfLead, Open
<1>6. \A b \in Bids : Open(b)' /\ Editing(LeadOf(b))' => b \in early'
  BY <1>2 DEF EditInv, Open, Editing
<1>7. QED
  BY <1>1, <1>2, <1>5, <1>6 DEF EditInv, LiveBidsKeepLeadDates

\* What other handlers may do: they open a bid only by placing it, on a match.
OpensByPlacing ==
  /\ UNCHANGED leadStay /\ matches \subseteq matches'
  /\ \A l \in Leads : leadStatus[l] # "none" => leadStatus'[l] # "none"
  /\ \A b \in Bids : bidStatus'[b] # "none" =>
       bidStatus[b] # "none" \/ leadStatus[LeadOf(b)] # "none"
  /\ \A b \in Bids : Open(b)' =>
       \/ Open(b) /\ bidStay'[b] = bidStay[b]
       \/ b \in PlacedNow /\ b \in matches /\ bidStay'[b] = leadStay[LeadOf(b)]

LEMMA OthersOpenByPlacing ==
  ASSUME TypeOK, PriceInv, OtherStep
  PROVE  OpensByPlacing
<1>1. KeepsDates => OpensByPlacing
  BY DEF KeepsDates, OpensByPlacing
<1>2. ASSUME NEW l \in Leads, UpdateLeadStatus(l) \/ Rematch(l)
      PROVE  OpensByPlacing
  <2>1. KeepsDates
    BY <1>2 DEF UpdateLeadStatus, Rematch, KeepsDates, Open, TypeOK, bidVars, offerVars, payVars
  <2>2. QED
    BY <1>1, <2>1
<1>3. ASSUME NEW b \in Bids, NEW amount \in Rates, PlaceBid(b, amount)
      PROVE  OpensByPlacing
  <2>1. \A o \in Bids \ {b} : bidStatus'[o] = bidStatus[o] /\ bidStay'[o] = bidStay[o]
    BY <1>3 DEF PlaceBid, TypeOK
  <2>2. /\ bidStay'[b] = leadStay[LeadOf(b)] /\ leadStatus[LeadOf(b)] # "none"
        /\ b \in matches /\ b \in PlacedNow
    BY <1>3 DEF PlaceBid, TypeOK, PlacedNow
  <2>3. UNCHANGED <<leadStatus, leadStay, matches>>
    BY <1>3 DEF PlaceBid, leadVars
  <2>4. QED
    BY <2>1, <2>2, <2>3 DEF OpensByPlacing, Open
<1>4. ASSUME NEW b \in Bids, ConfirmBidPayment(b)
      PROVE  OpensByPlacing
  BY <1>4 DEF ConfirmBidPayment, LosingStatuses, OpensByPlacing, Open, leadVars, offerVars
<1>5. ASSUME NEW b \in Bids, BidStep(b), ~ ConfirmBidPayment(b),
             \A amount \in Rates : ~ PlaceBid(b, amount)
      PROVE  OpensByPlacing
  BY <1>1, <1>5, BidStepKeepsDates DEF PriceInv
<1>6. CASE \/ \E p \in Managed : ListingStep(p)
           \/ \E k \in blocks : DeleteBlock(k)
           \/ ListLeads \/ ExpireOverdueLeads \/ Tick
  BY <1>1, <1>6, OtherStepDates, ScopeAssumption
<1>7. QED
  BY <1>2, <1>3, <1>4, <1>5, <1>6 DEF OtherStep, OtherHandler

LEMMA OtherIsNext == OtherStep => Next
BY DEF OtherStep, OtherHandler, Next, LeadStep

LEMMA OtherHandlers == ASSUME EditInv, OtherStep PROVE EditInv'
<1>1. TypeOK' /\ PriceInv' /\ FlowInv'
  BY OtherIsNext, NextTypeOK, NextPrices, NextFlow DEF EditInv
<1>2. OpensByPlacing
  BY OthersOpenByPlacing DEF EditInv
<1>3. /\ editing' = editing
      /\ \A b \in Bids : b \in early /\ Open(b)' => b \in early'
      /\ \A b \in PlacedNow : Editing(LeadOf(b)) => b \in early'
  BY DEF OtherStep, Remember, Open
<1>4. \A b \in Bids : Open(b) => b \notin PlacedNow
  BY DEF Open, PlacedNow
<1>5. ASSUME NEW b \in Bids
      PROVE  /\ bidStatus'[b] # "none" => leadStatus'[LeadOf(b)] # "none"
             /\ Open(b)' /\ Editing(LeadOf(b)) => b \in early'
             /\ Open(b)' => b \in LeadProperties(LeadOf(b))' \/ b \in early'
             /\ Open(b)' => bidStay'[b] = leadStay'[LeadOf(b)]
  <2>1. LeadOf(b) \in Leads
    BY BidParts
  <2>2. bidStatus'[b] # "none" => leadStatus'[LeadOf(b)] # "none"
    BY <1>2, <2>1 DEF EditInv, OpensByPlacing
  <2>3. CASE Open(b) /\ bidStay'[b] = bidStay[b]
    BY <1>2, <1>3, <1>4, <2>2, <2>3
       DEF EditInv, UnlistedBidsWereEarly, LiveBidsKeepLeadDates, LeadProperties, OpensByPlacing, Open
  <2>4. CASE b \in PlacedNow /\ b \in matches /\ bidStay'[b] = leadStay[LeadOf(b)]
    BY <1>2, <1>3, <2>2, <2>4 DEF LeadProperties, OpensByPlacing
  <2>5. CASE ~ Open(b)'
    BY <2>2, <2>5
  <2>6. QED
    BY <1>2, <2>3, <2>4, <2>5 DEF OpensByPlacing
<1>6. \A b \in Bids : Editing(LeadOf(b))' <=> Editing(LeadOf(b))
  BY <1>3 DEF Editing
<1>7. QED
  BY <1>1, <1>5, <1>6 DEF EditInv, UnlistedBidsWereEarly, LiveBidsKeepLeadDates, Open

THEOREM EditInvariant == SpecE => []EditInv
<1>1. InitE => EditInv
  <2> SUFFICES ASSUME InitE PROVE EditInv
    OBVIOUS
  <2>1. TypeOK /\ PriceInv /\ FlowInv
    BY InitTypeOK, InitPrices DEF InitE, Init, FlowInv, Booked
  <2>2. \A b \in Bids : bidStatus[b] = "none"
    BY DEF InitE, Init
  <2>3. QED
    BY <2>1, <2>2 DEF EditInv, UnlistedBidsWereEarly, LiveBidsKeepLeadDates, Open
<1>2. EditInv /\ [NextE]_editVars => EditInv'
  <2> SUFFICES ASSUME EditInv, [NextE]_editVars PROVE EditInv'
    OBVIOUS
  <2>1. CASE NextE
    BY <2>1, FirstTransaction, SecondTransaction, OtherHandlers DEF NextE, EditStep
  <2>2. CASE UNCHANGED editVars
    <3>1. UNCHANGED vars /\ UNCHANGED <<editing, early>>
      BY <2>2 DEF editVars
    <3>2. TypeOK' /\ PriceInv' /\ FlowInv'
      BY <3>1, NextTypeOK, NextPrices, NextFlow DEF EditInv
    <3>3. UNCHANGED <<leadStatus, leadStay, matches, bidStatus, bidStay>>
      BY <3>1 DEF vars, leadVars, bidVars, offerVars
    <3>4. QED
      BY <3>1, <3>2, <3>3 DEF EditInv, UnlistedBidsWereEarly, LiveBidsKeepLeadDates,
                              LeadProperties, Open, Editing
  <2>3. QED
    BY <2>1, <2>2
<1>3. QED
  BY <1>1, <1>2, PTL DEF SpecE

\* A bid that was not withdrawn is on the page of its lead, unless it was placed
\* between the two transactions of an edit (lead_matching_service).
THEOREM EarlyBidsGetLost == SpecE => []UnlistedBidsWereEarly
<1>1. EditInv => UnlistedBidsWereEarly
  BY DEF EditInv
<1>2. QED
  BY <1>1, EditInvariant, PTL

\* Between the two transactions of an edit too, every bid that was not withdrawn
\* is for the dates its lead has.
THEOREM EditsRespectBids == SpecE => []LiveBidsKeepLeadDates
<1>1. EditInv => LiveBidsKeepLeadDates
  BY DEF EditInv
<1>2. QED
  BY <1>1, EditInvariant, PTL

\* Every step of an edit leaves the bids alone; so accepting a bid pauses its rivals,
\* and giving one up frees its lead and them, while edits are on their way as well.
LEMMA EditsKeepBidSteps ==
  ASSUME EditInv, [NextE]_editVars
  PROVE  PausesRivals /\ RollbackFrees
<1>1. CASE EditStep
  <2>1. UNCHANGED bidStatus
    BY <1>1, EditKeepsBids DEF bidVars
  <2>2. QED
    BY <2>1 DEF PausesRivals, RollbackFrees, GivesUp
<1>2. CASE [Next]_vars
  BY <1>2, NextPausesRivals, NextRollbackFrees DEF EditInv
<1>3. QED
  BY <1>1, <1>2, OtherIsNext DEF NextE, editVars

THEOREM EditsPauseRivals == SpecE => AcceptPausesRivals
<1>1. EditInv /\ [NextE]_editVars => [PausesRivals]_vars
  BY EditsKeepBidSteps
<1>2. QED
  BY <1>1, EditInvariant, PTL DEF SpecE, AcceptPausesRivals, PausesRivals

THEOREM EditsFreeRivals == SpecE => RollbackFreesLeadAndRivals
<1>1. EditInv /\ [NextE]_editVars => [RollbackFrees]_vars
  BY EditsKeepBidSteps
<1>2. QED
  BY <1>1, EditInvariant, PTL
  DEF SpecE, RollbackFreesLeadAndRivals, RollbackFrees, GivesUp, FreesLeadAndRivals

--------------------------------------------------------------------------------
(***************************************************************************)
(* Notifications.  A step that decides a bid writes the word of that bid   *)
(* with it; a silent step decides none.                                    *)
(***************************************************************************)
Decided == {"accepted", "on_hold", "rejected"}

\* A step that tells something is one of the marketplace, and every step with its
\* words is one of the module below.
LEMMA TellingIsBidStep == ASSUME Telling PROVE \E b \in Bids : BidStep(b)
BY DEF Telling, AcceptAnd, RejectAnd, ConfirmAnd, CounterAnd, BidStep

LEMMA AnnouncedIsEdit == ASSUME [NextA]_toldVars PROVE [NextE]_editVars
<1>1. CASE Silent /\ Remember
  BY <1>1 DEF Silent, OtherStep, NextE, BidStep
<1>2. CASE Telling /\ Remember
  BY <1>2, TellingIsBidStep DEF OtherStep, NextE
<1>3. QED
  BY <1>1, <1>2 DEF NextA, NextE, toldVars

LEMMA SilentDecidesNothing ==
  ASSUME TypeOK, Silent
  PROVE  \A b \in Bids : bidStatus'[b] \in Decided => bidStatus'[b] = bidStatus[b]
<1>1. ASSUME NEW b \in Bids, WithdrawBid(b)
      PROVE  \A o \in Bids : bidStatus'[o] \in Decided => bidStatus'[o] = bidStatus[o]
  BY <1>1 DEF WithdrawBid, ClosePendingBid, RollBackAcceptedBid, ReviveHeldBids, Decided,
              TypeOK
<1>2. ASSUME NEW b \in Bids, NEW amount \in Rates, PlaceBid(b, amount)
      PROVE  \A o \in Bids : bidStatus'[o] \in Decided => bidStatus'[o] = bidStatus[o]
  BY <1>2 DEF PlaceBid, Decided, TypeOK
<1>3. ASSUME NEW b \in Bids, DeclineCounter(b)
      PROVE  \A o \in Bids : bidStatus'[o] \in Decided => bidStatus'[o] = bidStatus[o]
  BY <1>3 DEF DeclineCounter, Decided, TypeOK
<1>4. CASE ExpireOverdueLeads
  BY <1>4 DEF ExpireOverdueLeads, Decided
<1>5. ASSUME ~ ExpireOverdueLeads,
             ~ \E b \in Bids : \/ WithdrawBid(b) \/ DeclineCounter(b)
                               \/ \E amount \in Rates : PlaceBid(b, amount)
      PROVE  UNCHANGED bidStatus
  BY <1>5 DEF Silent, OtherHandler, UpdateLeadStatus, Rematch,
              CreateBidPayment, ListingStep, Publish, SetActive, CloseProperty,
              UpdateProperty, CreateBlock, DeleteBlock, ListLeads, Tick, bidVars
<1>6. QED
  BY <1>1, <1>2, <1>3, <1>4, <1>5

\* No step takes a booking away.
LEMMA BookingsRemain ==
  ASSUME TypeOK, [Next]_vars
  PROVE  \A b \in Bids : Booked(b) => Booked(b)'
BY NextCases, AcceptsColumns, InvoiceColumns, ConfirmBookings DEF NoProgress, Booked

LEMMA NextLastWord ==
  ASSUME TypeOK, LastWordIsTrue, NextA
  PROVE  LastWordIsTrue'
<1>0. CASE EditStep /\ UNCHANGED agentWord
  BY <1>0, EditKeepsBids DEF LastWordIsTrue, Booked, bidVars, payVars
<1> SUFFICES ASSUME (Silent \/ Telling) /\ Remember
             PROVE  LastWordIsTrue'
  BY <1>0 DEF NextA
<1>1. \A b \in Bids : Booked(b) => Booked(b)'
  <2>1. Next
    BY TellingIsBidStep DEF Silent, OtherHandler, Next, LeadStep, BidStep
  <2>2. QED
    BY <2>1, BookingsRemain
<1>2. CASE Silent
  BY <1>1, <1>2, SilentDecidesNothing DEF LastWordIsTrue, Silent, Decided
<1>3. ASSUME NEW b \in Bids, AcceptAnd(b)
      PROVE  LastWordIsTrue'
  <2>1. bidStatus' = HoldRivals(b) /\ agentWord' = OnBidAccepted(b, Rivals(b, "pending"))
    BY <1>3 DEF AcceptAnd, AcceptBid, AcceptCounter, AcceptFlow
  <2>2. QED
    BY <1>1, <2>1 DEF LastWordIsTrue, HoldRivals, Rivals, OnBidAccepted, Tell
<1>4. ASSUME NEW b \in Bids, RejectAnd(b)
      PROVE  LastWordIsTrue'
  <2>1. \/ bidStatus' = ReviveHeldBids(b, "rejected")
        \/ bidStatus' = [bidStatus EXCEPT ![b] = "rejected"]
    BY <1>4 DEF RejectAnd, RejectBid, ClosePendingBid, RollBackAcceptedBid
  <2>2. agentWord' = Tell({b}, "bid_rejected")
    BY <1>4 DEF RejectAnd, OnBidRejected
  <2>3. QED
    BY <1>1, <2>1, <2>2 DEF LastWordIsTrue, ReviveHeldBids, Rivals, Tell, TypeOK
<1>5. ASSUME NEW b \in Bids, ConfirmAnd(b)
      PROVE  LastWordIsTrue'
  <2>1. Booked(b)'
    BY <1>5, ConfirmColumns DEF ConfirmAnd
  <2>2. ASSUME NEW o \in Bids \ {b}
        PROVE  \/ bidStatus'[o] = "rejected" /\ agentWord'[o] = "bid_rejected"
               \/ bidStatus'[o] = bidStatus[o] /\ agentWord'[o] = agentWord[o]
    BY <1>5 DEF ConfirmAnd, ConfirmBidPayment, OnPaymentConfirmed, OnBidRejected, Losers,
                Tell, BidsOfLead
  <2>3. QED
    BY <1>1, <2>1, <2>2 DEF LastWordIsTrue
<1>6. ASSUME NEW b \in Bids, NEW amount \in Rates, CounterAnd(b, amount)
      PROVE  LastWordIsTrue'
  <2>1. bidStatus' = bidStatus /\ bidStatus[b] = "pending"
    BY <1>6 DEF CounterAnd, CounterBid
  <2>2. \A o \in Bids \ {b} : agentWord'[o] = agentWord[o]
    BY <1>6 DEF CounterAnd, OnBidCountered, Tell
  <2>3. QED
    BY <1>1, <2>1, <2>2 DEF LastWordIsTrue
<1>7. QED
  BY <1>2, <1>3, <1>4, <1>5, <1>6 DEF Telling

\* The last word an agent has on a decided bid tells how it was decided.
THEOREM WordsAreTrue == SpecA => []LastWordIsTrue
<1>1. InitA => InitE /\ LastWordIsTrue
  BY DEF InitA, InitE, Init, LastWordIsTrue
<1>2. SpecA => []TypeOK
  <2>1. EditInv => TypeOK
    BY DEF EditInv
  <2>2. QED
    BY <1>1, <2>1, AnnouncedIsEdit, EditInvariant, PTL DEF SpecA, SpecE
<1>3. TypeOK /\ LastWordIsTrue /\ [NextA]_toldVars => LastWordIsTrue'
  <2>1. ASSUME UNCHANGED toldVars, LastWordIsTrue PROVE LastWordIsTrue'
    BY <2>1 DEF toldVars, editVars, vars, bidVars, payVars, LastWordIsTrue, Booked
  <2>2. QED
    BY <2>1, NextLastWord
<1>4. QED
  BY <1>1, <1>2, <1>3, PTL DEF SpecA

--------------------------------------------------------------------------------
(***************************************************************************)
(* Races.  A commit writes cells that its handler computed from old rows.  *)
(* What an old row says is still worth something, for rows move one way: a *)
(* bid, a payment, an acceptance or a lead that exists goes on existing, a *)
(* confirmed payment stays confirmed, and the lowest rate only falls.      *)
(***************************************************************************)
Forward ==
  /\ \A b \in Bids :
       /\ bidStatus[b] # "none" => bidStatus'[b] # "none"
       /\ payStatus[b] # "none" => payStatus'[b] # "none"
       /\ payStatus[b] = "confirmed" => payStatus'[b] = "confirmed"
       /\ acceptedAt[b] # 0 => acceptedAt'[b] # 0
  /\ \A l \in Leads : leadStatus[l] # "none" => leadStatus'[l] # "none"
  /\ \A p \in Properties : lowestRate'[p] <= lowestRate[p]

\* Besides types, the payment flow and the floor: what the rows of a bid need.
RowsInv ==
  \A b \in Bids :
    /\ bidStatus[b] # "none" => bidAmount[b] \in Rates /\ leadStatus[LeadOf(b)] # "none"
    /\ bidStatus[b] = "none" => bidAmount[b] = 0
    /\ payStatus[b] = "none" => payAmount[b] = 0

TablesInv == TypeOK /\ FlowInv /\ PriceInv /\ RowsInv

LEMMA LeadsRemain ==
  ASSUME TypeOK, [Next]_vars
  PROVE  \A l \in Leads : leadStatus[l] # "none" => leadStatus'[l] # "none"
<1>1. ASSUME NEW l \in Leads, LeadStep(l)
      PROVE  \A m \in Leads : leadStatus[m] # "none" => leadStatus'[m] # "none"
  BY <1>1 DEF LeadStep, CreateLead, UpdateLead, UpdateLeadStatus, Rematch, TypeOK
<1>2. ASSUME NEW b \in Bids, BidStep(b)
      PROVE  \A m \in Leads : leadStatus[m] # "none" => leadStatus'[m] # "none"
  <2>1. \/ UNCHANGED leadStatus
        \/ leadStatus' = WonLead(LeadOf(b))
        \/ leadStatus' = RevertLeadToActive(LeadOf(b))
    BY <1>2 DEF BidStep, PlaceBid, CounterBid, WithdrawBid, RejectBid, ClosePendingBid,
                RollBackAcceptedBid, AcceptBid, AcceptCounter, AcceptFlow,
                DeclineCounter, CreateBidPayment, ConfirmBidPayment, leadVars
  <2>2. QED
    BY <2>1 DEF WonLead, RevertLeadToActive, TypeOK
<1>3. CASE ListLeads \/ ExpireOverdueLeads
  BY <1>3 DEF ListLeads, ExpireOverdueLeads
<1>4. CASE \/ \E p \in Managed : ListingStep(p)
           \/ \E k \in blocks : DeleteBlock(k)
           \/ Tick \/ UNCHANGED vars
  BY <1>4 DEF ListingStep, Publish, SetActive, CloseProperty, UpdateProperty, CreateBlock,
              DeleteBlock, Tick, vars, leadVars
<1>5. QED
  BY <1>1, <1>2, <1>3, <1>4 DEF Next

LEMMA BidStepForward ==
  ASSUME TypeOK, PriceInv, NEW b \in Bids, BidStep(b)
  PROVE  /\ UNCHANGED lowestRate
         /\ \A o \in Bids : /\ bidStatus[o] # "none" => bidStatus'[o] # "none"
                            /\ payStatus[o] # "none" => payStatus'[o] # "none"
                            /\ payStatus[o] = "confirmed" => payStatus'[o] = "confirmed"
                            /\ acceptedAt[o] # 0 => acceptedAt'[o] # 0
<1>1. UNCHANGED lowestRate
  BY DEF BidStep, PlaceBid, CounterBid, WithdrawBid, RejectBid, AcceptBid, AcceptCounter,
         DeclineCounter, CreateBidPayment, ConfirmBidPayment, listingVars, rateVars
<1>2. \A o \in Bids : /\ payStatus[o] # "none" => payStatus'[o] # "none"
                      /\ payStatus[o] = "confirmed" => payStatus'[o] = "confirmed"
                      /\ acceptedAt[o] # 0 => acceptedAt'[o] # 0
  BY NextCases, AcceptsColumns, InvoiceColumns, ConfirmColumns DEF NoProgress, Next
<1>3. ASSUME NEW s \in {"withdrawn", "rejected"},
             ClosePendingBid(b, s) \/ RollBackAcceptedBid(b, s)
      PROVE  \A o \in Bids : bidStatus[o] # "none" => bidStatus'[o] # "none"
  BY <1>3 DEF ClosePendingBid, RollBackAcceptedBid, ReviveHeldBids, TypeOK
<1>4. CASE AcceptBid(b) \/ AcceptCounter(b)
  BY <1>1, <1>2, <1>4 DEF AcceptBid, AcceptCounter, AcceptFlow, HoldRivals
<1>5. CASE DeclineCounter(b) \/ \E amount \in Rates : PlaceBid(b, amount)
  BY <1>1, <1>2, <1>5 DEF DeclineCounter, PlaceBid, TypeOK
<1>6. CASE ConfirmBidPayment(b)
  BY <1>1, <1>2, <1>6 DEF ConfirmBidPayment
<1>7. CASE CreateBidPayment(b) \/ \E amount \in Rates : CounterBid(b, amount)
  BY <1>1, <1>2, <1>7 DEF CreateBidPayment, CounterBid, bidVars
<1>8. QED
  BY <1>1, <1>2, <1>3, <1>4, <1>5, <1>6, <1>7 DEF BidStep, WithdrawBid, RejectBid

LEMMA NextForward ==
  ASSUME TypeOK, PriceInv, [Next]_vars
  PROVE  Forward
<1>1. \A l \in Leads : leadStatus[l] # "none" => leadStatus'[l] # "none"
  BY LeadsRemain
<1>2. \A p \in Properties : lowestRate[p] \in Nat
  BY DEF TypeOK
<1>3. CASE \E b \in Bids : BidStep(b)
  BY <1>1, <1>2, <1>3, BidStepForward DEF Forward
<1>4. CASE ~ \E b \in Bids : BidStep(b)
  <2>1. UNCHANGED <<payStatus, acceptedAt>>
    BY <1>4 DEF Next, vars, LeadStep, CreateLead, UpdateLead, UpdateLeadStatus, Rematch,
                ListingStep, Publish, SetActive, CloseProperty, UpdateProperty, CreateBlock,
                DeleteBlock, ListLeads, ExpireOverdueLeads, Tick, bidVars, payVars
  <2>2. ASSUME NEW p \in Managed, NEW s \in PropertyStatuses,
               NEW rate \in NewRates \cup {b2bRate[p]}, UpdateProperty(p, s, rate)
        PROVE  Forward
    <3>1. rate \in Nat
      BY MoneyAssumption, ScopeAssumption DEF TypeOK
    <3>2. \A q \in Properties : lowestRate'[q] <= lowestRate[q]
      BY <1>2, <2>2, <3>1 DEF UpdateProperty, TypeOK
    <3>3. QED
      BY <1>1, <2>1, <2>2, <3>2 DEF Forward, UpdateProperty, bidVars
  <2>3. CASE KeepsPrices
    BY <1>1, <1>2, <2>1, <2>3 DEF KeepsPrices, Forward, rateVars
  <2>4. QED
    BY <1>4, <2>2, <2>3, OtherStepPrices
<1>5. QED
  BY <1>3, <1>4

LEMMA NextRows ==
  ASSUME TypeOK, PriceInv, RowsInv, [Next]_vars
  PROVE  RowsInv'
<1>1. Forward
  BY NextForward
<1>2. \A o \in Bids : LeadOf(o) \in Leads
  BY BidParts
<1>3. ASSUME NEW b \in Bids, NEW amount \in Rates, PlaceBid(b, amount)
      PROVE  RowsInv'
  <2>1. leadStatus[LeadOf(b)] # "none" /\ UNCHANGED <<leadStatus, payStatus, payAmount>>
    BY <1>3 DEF PlaceBid, leadVars, payVars
  <2>2. bidAmount'[b] \in Rates /\ bidStatus'[b] = "pending"
    BY <1>3 DEF PlaceBid, TypeOK
  <2>3. \A o \in Bids \ {b} : bidStatus'[o] = bidStatus[o] /\ bidAmount'[o] = bidAmount[o]
    BY <1>3 DEF PlaceBid, TypeOK
  <2>4. QED
    BY <2>1, <2>2, <2>3 DEF RowsInv
<1>4. ASSUME NEW b \in Bids, AcceptCounter(b)
      PROVE  RowsInv'
  <2>1. bidAmount'[b] \in Rates /\ \A o \in Bids \ {b} : bidAmount'[o] = bidAmount[o]
    BY <1>4 DEF AcceptCounter, CounterOpen, TypeOK, Amounts
  <2>2. /\ \A o \in Bids : bidStatus'[o] # "none" => bidStatus[o] # "none"
        /\ bidStatus'[b] = "accepted"
    BY <1>4 DEF AcceptCounter, CounterOpen, AcceptFlow, HoldRivals, Rivals
  <2>3. UNCHANGED <<payStatus, payAmount>>
    BY <1>4 DEF AcceptCounter, payVars
  <2>4. QED
    BY <1>1, <1>2, <2>1, <2>2, <2>3 DEF RowsInv, Forward
<1>5. ASSUME NEW b \in Bids, CreateBidPayment(b)
      PROVE  RowsInv'
  BY <1>5 DEF CreateBidPayment, RowsInv, TypeOK, leadVars, bidVars, offerVars
<1>6. ASSUME NEW b \in Bids, BidStep(b), ~ AcceptCounter(b), ~ CreateBidPayment(b),
             \A amount \in Rates : ~ PlaceBid(b, amount)
      PROVE  RowsInv'
  <2>1. UNCHANGED <<bidAmount, payAmount>>
    BY <1>6 DEF BidStep, CounterBid, WithdrawBid, RejectBid, AcceptBid, DeclineCounter,
                ConfirmBidPayment, offerVars, payVars
  <2>2. \A o \in Bids : payStatus'[o] = "none" => payStatus[o] = "none"
    BY <1>1 DEF Forward
  <2>3. \A o \in Bids : bidStatus'[o] # "none" => bidStatus[o] # "none"
    <3>1. ASSUME NEW s \in {"withdrawn", "rejected"},
                 ClosePendingBid(b, s) \/ RollBackAcceptedBid(b, s)
          PROVE  \A o \in Bids : bidStatus'[o] # "none" => bidStatus[o] # "none"
      BY <3>1 DEF ClosePendingBid, RollBackAcceptedBid, ReviveHeldBids, Rivals, TypeOK
    <3>2. ASSUME AcceptBid(b) \/ ConfirmBidPayment(b)
          PROVE  \A o \in Bids : bidStatus'[o] # "none" => bidStatus[o] # "none"
      BY <3>2 DEF AcceptBid, AcceptFlow, HoldRivals, Rivals, ConfirmBidPayment,
                  LosingStatuses
    <3>3. ASSUME DeclineCounter(b)
          PROVE  \A o \in Bids : bidStatus'[o] # "none" => bidStatus[o] # "none"
      BY <3>3 DEF DeclineCounter, PriceInv, TypeOK
    <3>4. ASSUME NEW amount \in Rates, CounterBid(b, amount)
          PROVE  \A o \in Bids : bidStatus'[o] # "none" => bidStatus[o] # "none"
      BY <3>4 DEF CounterBid
    <3>5. QED
      BY <1>6, <3>1, <3>2, <3>3, <3>4 DEF BidStep, WithdrawBid, RejectBid
  <2>4. QED
    BY <1>1, <1>2, <2>1, <2>2, <2>3 DEF RowsInv, Forward
<1>7. CASE ~ \E b \in Bids : BidStep(b)
  <2>1. UNCHANGED <<bidAmount, payStatus, payAmount>>
    BY <1>7 DEF Next, vars, LeadStep, CreateLead, UpdateLead, UpdateLeadStatus, Rematch,
                ListingStep, Publish, SetActive, CloseProperty, UpdateProperty, CreateBlock,
                DeleteBlock, ListLeads, ExpireOverdueLeads, Tick, bidVars, offerVars, payVars
  <2>2. ASSUME NEW o \in Bids PROVE bidStatus'[o] # "none" => bidStatus[o] # "none"
    BY <1>7 DEF Next, vars, LeadStep, CreateLead, UpdateLead, UpdateLeadStatus, Rematch,
                ListingStep, Publish, SetActive, CloseProperty, UpdateProperty, CreateBlock,
                DeleteBlock, ListLeads, ExpireOverdueLeads, OverdueBids, Tick, bidVars
  <2>3. QED
    BY <1>1, <1>2, <2>1, <2>2 DEF RowsInv, Forward
<1>8. QED
  BY <1>3, <1>4, <1>5, <1>6, <1>7

--------------------------------------------------------------------------------
\* What a slow request read, against the rows there are now.
ViewTypeOK ==
  /\ vLeadStatus \in [Leads -> LeadStatuses]
  /\ vLeadStay \in [Leads -> StaysOrNone]
  /\ vMatches \subseteq Bids
  /\ vBidStatus \in [Bids -> BidStatuses]
  /\ vBidStay \in [Bids -> StaysOrNone]
  /\ vBidAmount \in [Bids -> Amounts]
  /\ vCounteredAmount \in [Bids -> Amounts]
  /\ vAcceptedAt \in [Bids -> Stamps]
  /\ vCreatedAt \in [Bids -> Stamps]
  /\ vPayStatus \in [Bids -> PaymentStatuses]
  /\ vPayAmount \in [Bids -> Amounts]
  /\ vBookings \subseteq Bookings
  /\ vPropStatus \in [Properties -> PropertyStatuses]
  /\ vB2bRate \in [Properties -> Nat]
  /\ vToday \in Days

OldRowsOf(b) ==
  /\ vBidStatus[b] # "none" => /\ bidStatus[b] # "none"
                               /\ vLeadStatus[LeadOf(b)] # "none"
                               /\ vBidAmount[b] \in Rates
                               /\ vBidAmount[b] >= lowestRate[PropertyOf(b)]
  /\ vBidStatus[b] = "none" => vBidAmount[b] = 0
  /\ vCounteredAmount[b] # 0 => vCounteredAmount[b] >= lowestRate[PropertyOf(b)]
  /\ vPayStatus[b] # "none" => vBidStatus[b] # "none" /\ payStatus[b] # "none"
  /\ vPayStatus[b] = "none" => vPayAmount[b] = 0
  /\ vPayStatus[b] = "confirmed" => payStatus[b] = "confirmed"
  /\ (\E k \in vBookings : k.bid = b) => vPayStatus[b] = "confirmed"
  /\ vBidStatus[b] = "accepted" => vAcceptedAt[b] # 0
  /\ vAcceptedAt[b] # 0 => acceptedAt[b] # 0

OldRows ==
  /\ ViewTypeOK
  /\ \A b \in Bids : OldRowsOf(b)
  /\ \A l \in Leads : vLeadStatus[l] # "none" => leadStatus[l] # "none"
  /\ \A p \in Properties : vB2bRate[p] >= lowestRate[p]

LEMMA ReadingOldRows == ASSUME TablesInv, ReadView, UNCHANGED vars PROVE OldRows'
<1>1. ViewTypeOK'
  BY DEF TablesInv, TypeOK, ReadView, ViewTypeOK
<1>2. \A b \in Bids : OldRowsOf(b)'
  BY DEF TablesInv, FlowInv, PriceInv, RowsInv, ReadView, OldRowsOf, Booked, vars,
         leadVars, bidVars, offerVars, payVars, listingVars, rateVars
<1>3. \A p \in Properties : vB2bRate'[p] >= lowestRate'[p]
  BY DEF TablesInv, PriceInv, ReadView, vars, listingVars, rateVars
<1>4. QED
  BY <1>1, <1>2, <1>3 DEF OldRows, ReadView, vars, leadVars

LEMMA OldRowsLast ==
  ASSUME TypeOK, TypeOK', OldRows, Forward, UNCHANGED viewVars
  PROVE  OldRows'
<1>1. /\ ViewTypeOK'
      /\ \A l \in Leads : vLeadStatus'[l] # "none" => leadStatus'[l] # "none"
  BY DEF OldRows, Forward, ViewTypeOK, viewVars
<1>2. \A p \in Properties : lowestRate[p] \in Nat /\ lowestRate'[p] \in Nat /\ vB2bRate[p] \in Nat
  BY DEF TypeOK, OldRows, ViewTypeOK
<1>3. \A p \in Properties : vB2bRate'[p] >= lowestRate'[p]
  BY <1>2 DEF OldRows, Forward, viewVars
<1>4. ASSUME NEW b \in Bids PROVE OldRowsOf(b)'
  <2>1. PropertyOf(b) \in Properties
    BY BidParts
  <2>2. vBidAmount[b] \in Nat /\ vCounteredAmount[b] \in Nat
    <3>1. Amounts \subseteq Nat
      BY MoneyAssumption DEF Amounts
    <3>2. QED
      BY <3>1 DEF OldRows, ViewTypeOK
  <2>3. /\ vBidAmount[b] >= lowestRate[PropertyOf(b)]
             => vBidAmount[b] >= lowestRate'[PropertyOf(b)]
        /\ vCounteredAmount[b] >= lowestRate[PropertyOf(b)]
             => vCounteredAmount[b] >= lowestRate'[PropertyOf(b)]
    BY <1>2, <2>1, <2>2 DEF Forward
  <2>4. QED
    BY <2>3 DEF OldRows, OldRowsOf, Forward, viewVars
<1>5. QED
  BY <1>1, <1>3, <1>4 DEF OldRows

--------------------------------------------------------------------------------
\* What the handlers change in the view.
LEMMA SlowPlaceBid ==
  ASSUME ViewTypeOK, NEW b \in Bids, NEW amount \in Rates, View!PlaceBid(b, amount)
  PROVE  /\ vLeadStatus[LeadOf(b)] = "active"
         /\ amount >= vB2bRate[PropertyOf(b)]
         /\ vBidStatus' = [vBidStatus EXCEPT ![b] = "pending"]
         /\ vBidStay' = [vBidStay EXCEPT ![b] = vLeadStay[LeadOf(b)]]
         /\ vBidAmount' = [vBidAmount EXCEPT ![b] = amount]
         /\ vCreatedAt' = [vCreatedAt EXCEPT ![b] = IF vBidStatus[b] = "none" THEN vToday ELSE @]
         /\ UNCHANGED <<vLeadStatus, vLeadStay, vMatches, vCounteredAmount, vAcceptedAt,
                        vPayStatus, vPayAmount, vBookings>>
BY DEF View!PlaceBid, View!LeadOf, View!PropertyOf, LeadOf, PropertyOf, View!leadVars,
       View!payVars

LEMMA SlowLead ==
  ASSUME ViewTypeOK, NEW l \in Leads, NEW name,
         \/ name = "update_lead" /\ \E s \in Stays : View!UpdateLead(l, s)
         \/ name = "update_lead_status" /\ View!UpdateLeadStatus(l)
  PROVE  /\ UNCHANGED <<vBidStatus, vBidStay, vBidAmount, vCounteredAmount, vAcceptedAt,
                        vCreatedAt, vPayStatus, vPayAmount, vBookings>>
         /\ vLeadStay' \in [Leads -> StaysOrNone] /\ vMatches' \subseteq Bids
         /\ \/ name = "update_lead" /\ UNCHANGED vLeadStatus
            \/ /\ name = "update_lead_status" /\ UNCHANGED <<vLeadStay, vMatches>>
               /\ vLeadStatus' = [vLeadStatus EXCEPT ![l] = "lost"]
<1>1. ASSUME NEW s \in Stays, View!UpdateLead(l, s)
      PROVE  /\ UNCHANGED <<vLeadStatus, vBidStatus, vBidStay, vBidAmount, vCounteredAmount,
                            vAcceptedAt, vCreatedAt, vPayStatus, vPayAmount, vBookings>>
             /\ vLeadStay' \in [Leads -> StaysOrNone] /\ vMatches' \subseteq Bids
  BY <1>1 DEF View!UpdateLead, View!bidVars, View!offerVars, View!payVars, View!BidsOfLead,
              View!Candidates, ViewTypeOK, Bids, StaysOrNone
<1>2. ASSUME View!UpdateLeadStatus(l)
      PROVE  /\ UNCHANGED <<vLeadStay, vMatches, vBidStatus, vBidStay, vBidAmount,
                            vCounteredAmount, vAcceptedAt, vCreatedAt, vPayStatus, vPayAmount,
                            vBookings>>
             /\ vLeadStatus' = [vLeadStatus EXCEPT ![l] = "lost"]
  BY <1>2 DEF View!UpdateLeadStatus, View!bidVars, View!offerVars, View!payVars
<1>3. QED
  BY <1>1, <1>2 DEF ViewTypeOK

Deciding == {"withdraw_bid", "reject_bid", "accept_bid", "accept_counter"}

\* A withdrawal, a rejection or an acceptance of b.
SlowDecision(name, b) ==
  \/ name = "withdraw_bid" /\ View!WithdrawBid(b)
  \/ name = "reject_bid" /\ View!RejectBid(b)
  \/ name = "accept_bid" /\ View!AcceptBid(b)
  \/ name = "accept_counter" /\ View!AcceptCounter(b)

LEMMA SlowRollback ==
  ASSUME ViewTypeOK, NEW b \in Bids, NEW s \in {"withdrawn", "rejected"},
         View!ClosePendingBid(b, s) \/ View!RollBackAcceptedBid(b, s)
  PROVE  /\ vBidStatus' \in [Bids -> BidStatuses]
         /\ vLeadStatus' \in [Leads -> LeadStatuses]
         /\ \A o \in Bids : vBidStatus'[o] # vBidStatus[o] =>
              /\ vBidStatus[o] # "none"
              /\ vBidStatus'[o] \notin {"none", "accepted"}
         /\ \A l \in Leads : vLeadStatus'[l] # vLeadStatus[l] =>
              vLeadStatus[l] = "won" /\ vLeadStatus'[l] = "active"
<1>1. CASE View!ClosePendingBid(b, s)
  BY <1>1 DEF View!ClosePendingBid, ViewTypeOK, BidStatuses
<1>2. CASE View!RollBackAcceptedBid(b, s)
  <2>1. vBidStatus' = [o \in Bids |-> IF o = b THEN s
                         ELSE IF o \in View!Rivals(b, "on_hold") THEN "pending"
                         ELSE vBidStatus[o]]
    BY <1>2 DEF View!RollBackAcceptedBid, View!ReviveHeldBids, View!Bids, Bids
  <2>2. \A o \in View!Rivals(b, "on_hold") : vBidStatus[o] = "on_hold"
    BY DEF View!Rivals
  <2>3. vBidStatus[b] = "accepted"
    BY <1>2 DEF View!RollBackAcceptedBid
  <2>4. /\ vBidStatus' \in [Bids -> BidStatuses]
        /\ \A o \in Bids : vBidStatus'[o] # vBidStatus[o] =>
              vBidStatus[o] # "none" /\ vBidStatus'[o] \notin {"none", "accepted"}
    BY <2>1, <2>2, <2>3 DEF ViewTypeOK, BidStatuses
  <2>5. /\ vLeadStatus' \in [Leads -> LeadStatuses]
        /\ \A l \in Leads : vLeadStatus'[l] # vLeadStatus[l] =>
              vLeadStatus[l] = "won" /\ vLeadStatus'[l] = "active"
    BY <1>2 DEF View!RollBackAcceptedBid, View!RevertLeadToActive, ViewTypeOK, LeadStatuses
  <2>6. QED
    BY <2>4, <2>5
<1>3. QED
  BY <1>1, <1>2

LEMMA SlowAcceptance ==
  ASSUME ViewTypeOK, NEW b \in Bids, vBidStatus[b] = "pending", View!AcceptFlow(b)
  PROVE  /\ vBidStatus' \in [Bids -> BidStatuses]
         /\ vLeadStatus' \in [Leads -> LeadStatuses]
         /\ vAcceptedAt' = [vAcceptedAt EXCEPT ![b] = vToday]
         /\ vBidStatus'[b] = "accepted"
         /\ \A o \in Bids : vBidStatus'[o] # vBidStatus[o] =>
              /\ vBidStatus[o] # "none"
              /\ vBidStatus'[o] # "none"
              /\ vBidStatus'[o] = "accepted" => o = b
         /\ \A l \in Leads : vLeadStatus'[l] # vLeadStatus[l] =>
              vLeadStatus[l] = "active" /\ vLeadStatus'[l] = "won"
<1>1. vBidStatus' = [o \in Bids |-> IF o = b THEN "accepted"
                       ELSE IF o \in View!Rivals(b, "pending") THEN "on_hold"
                       ELSE vBidStatus[o]]
  BY DEF View!AcceptFlow, View!HoldRivals, View!Bids, Bids
<1>2. \A o \in View!Rivals(b, "pending") : vBidStatus[o] = "pending"
  BY DEF View!Rivals
<1>3. /\ vBidStatus' \in [Bids -> BidStatuses]
      /\ vBidStatus'[b] = "accepted"
      /\ \A o \in Bids : vBidStatus'[o] # vBidStatus[o] =>
           /\ vBidStatus[o] # "none"
           /\ vBidStatus'[o] # "none"
           /\ vBidStatus'[o] = "accepted" => o = b
  BY <1>1, <1>2 DEF ViewTypeOK, BidStatuses
<1>4. /\ vLeadStatus' \in [Leads -> LeadStatuses]
      /\ \A l \in Leads : vLeadStatus'[l] # vLeadStatus[l] =>
           vLeadStatus[l] = "active" /\ vLeadStatus'[l] = "won"
  BY DEF View!AcceptFlow, View!WonLead, ViewTypeOK, LeadStatuses
<1>5. QED
  BY <1>3, <1>4 DEF View!AcceptFlow

LEMMA SlowPayment ==
  ASSUME ViewTypeOK, NEW b \in Bids, View!CreateBidPayment(b)
  PROVE  /\ vBidStatus[b] = "accepted" /\ vPayStatus[b] = "none"
         /\ vPayStatus' = [vPayStatus EXCEPT ![b] = "initiated"]
         /\ vPayAmount' = [vPayAmount EXCEPT ![b] = vBidAmount[b]]
         /\ UNCHANGED <<vLeadStatus, vLeadStay, vMatches, vBidStatus, vBidStay, vBidAmount,
                        vCounteredAmount, vAcceptedAt, vCreatedAt, vBookings>>
BY DEF View!CreateBidPayment, View!Payable, View!leadVars, View!bidVars, View!offerVars

LEMMA SlowConfirmation ==
  ASSUME OldRows, NEW b \in Bids, View!ConfirmBidPayment(b)
  PROVE  /\ vPayStatus[b] = "initiated"
         /\ vPayStatus' = [vPayStatus EXCEPT ![b] = "confirmed"]
         /\ vBookings' = vBookings \cup {[bid |-> b, stay |-> vBidStay[b], amount |-> vBidAmount[b]]}
         /\ vBidStatus' \in [Bids -> BidStatuses]
         /\ \A o \in Bids : vBidStatus'[o] # vBidStatus[o] =>
              vBidStatus[o] # "none" /\ vBidStatus'[o] = "rejected"
         /\ UNCHANGED <<vLeadStatus, vLeadStay, vMatches, vBidStay, vBidAmount,
                        vCounteredAmount, vAcceptedAt, vCreatedAt, vPayAmount>>
<1>1. ~ \E k \in vBookings : k.bid = b
  BY DEF View!ConfirmBidPayment, OldRows, OldRowsOf
<1>2. vBookings' = vBookings \cup {[bid |-> b, stay |-> vBidStay[b], amount |-> vBidAmount[b]]}
  BY <1>1 DEF View!ConfirmBidPayment, View!BookingOf
<1>3. /\ vBidStatus' \in [Bids -> BidStatuses]
      /\ \A o \in Bids : vBidStatus'[o] # vBidStatus[o] =>
           vBidStatus[o] # "none" /\ vBidStatus'[o] = "rejected"
  BY DEF View!ConfirmBidPayment, View!LosingStatuses, View!Bids, Bids, OldRows, ViewTypeOK,
         BidStatuses
<1>4. QED
  BY <1>2, <1>3 DEF View!ConfirmBidPayment, View!leadVars, View!offerVars

\* The columns a decision may write: a status over a status, the countered amount
\* over the amount, a stamp on b, and the lead.
Decides(name, b) ==
  /\ vBidStatus' \in [Bids -> BidStatuses]
  /\ vLeadStatus' \in [Leads -> LeadStatuses]
  /\ vBidAmount' \in [Bids -> Amounts]
  /\ vCounteredAmount' \in [Bids -> Amounts]
  /\ vAcceptedAt' \in [Bids -> Stamps]
  /\ UNCHANGED <<vLeadStay, vMatches, vBidStay, vCreatedAt, vPayStatus, vPayAmount,
                 vBookings>>
  /\ \A o \in Bids :
       /\ vBidStatus'[o] # vBidStatus[o] =>
            /\ vBidStatus[o] # "none" /\ vBidStatus'[o] # "none"
            /\ vBidStatus'[o] = "accepted" => vAcceptedAt'[o] # 0
       /\ vBidAmount'[o] # vBidAmount[o] =>
            /\ vBidStatus[o] # "none"
            /\ vCounteredAmount[o] # 0 /\ vBidAmount'[o] = vCounteredAmount[o]
       /\ vCounteredAmount'[o] # vCounteredAmount[o] => vCounteredAmount'[o] = 0
       /\ vAcceptedAt'[o] # vAcceptedAt[o] => o = b /\ vAcceptedAt'[o] # 0
  /\ \A l \in Leads : vLeadStatus'[l] # vLeadStatus[l] =>
       \/ /\ name \in {"accept_bid", "accept_counter"}
          /\ vLeadStatus[l] = "active" /\ vLeadStatus'[l] = "won"
       \/ /\ name \in {"withdraw_bid", "reject_bid"}
          /\ vLeadStatus[l] = "won" /\ vLeadStatus'[l] = "active"

LEMMA SlowDecisionColumns ==
  ASSUME ViewTypeOK, NEW name, NEW b \in Bids, SlowDecision(name, b)
  PROVE  Decides(name, b)
<1>1. ASSUME NEW s \in {"withdrawn", "rejected"}, name \in {"withdraw_bid", "reject_bid"},
             View!ClosePendingBid(b, s) \/ View!RollBackAcceptedBid(b, s),
             UNCHANGED <<vLeadStay, vMatches, vBidStay, vBidAmount, vCounteredAmount,
                         vAcceptedAt, vCreatedAt, vPayStatus, vPayAmount, vBookings>>
      PROVE  Decides(name, b)
  BY <1>1, SlowRollback DEF Decides, ViewTypeOK
<1>2. ASSUME name \in {"accept_bid", "accept_counter"},
             vBidStatus[b] = "pending", View!AcceptFlow(b),
             UNCHANGED <<vLeadStay, vMatches, vBidStay, vCreatedAt, vPayStatus, vPayAmount,
                         vBookings>>,
             \/ UNCHANGED <<vBidAmount, vCounteredAmount>>
             \/ /\ vCounteredAmount[b] # 0
                /\ vBidAmount' = [vBidAmount EXCEPT ![b] = vCounteredAmount[b]]
                /\ vCounteredAmount' = [vCounteredAmount EXCEPT ![b] = 0]
      PROVE  Decides(name, b)
  <2>1. vToday \in Stamps /\ vToday # 0 /\ 0 \in Amounts
    BY DEF ViewTypeOK, Days, Stamps, Amounts
  <2>2. /\ vAcceptedAt' \in [Bids -> Stamps]
        /\ vAcceptedAt'[b] # 0
        /\ \A o \in Bids \ {b} : vAcceptedAt'[o] = vAcceptedAt[o]
    BY <1>2, <2>1, SlowAcceptance DEF ViewTypeOK
  <2>3. /\ vBidAmount' \in [Bids -> Amounts] /\ vCounteredAmount' \in [Bids -> Amounts]
        /\ \A o \in Bids :
             /\ vBidAmount'[o] # vBidAmount[o] =>
                  /\ vBidStatus[o] # "none"
                  /\ vCounteredAmount[o] # 0 /\ vBidAmount'[o] = vCounteredAmount[o]
             /\ vCounteredAmount'[o] # vCounteredAmount[o] => vCounteredAmount'[o] = 0
    BY <1>2, <2>1 DEF ViewTypeOK
  <2>4. QED
    BY <1>2, <2>2, <2>3, SlowAcceptance DEF Decides
<1>3. CASE name = "withdraw_bid" /\ View!WithdrawBid(b)
  BY <1>1, <1>3 DEF View!WithdrawBid, View!offerVars, View!payVars
<1>4. CASE name = "reject_bid" /\ View!RejectBid(b)
  BY <1>1, <1>4 DEF View!RejectBid, View!offerVars, View!payVars
<1>5. CASE name = "accept_bid" /\ View!AcceptBid(b)
  BY <1>2, <1>5 DEF View!AcceptBid, View!offerVars, View!payVars
<1>6. CASE name = "accept_counter" /\ View!AcceptCounter(b)
  BY <1>2, <1>6 DEF View!AcceptCounter, View!CounterOpen, View!payVars
<1>7. QED
  BY <1>3, <1>4, <1>5, <1>6 DEF SlowDecision

--------------------------------------------------------------------------------
\* What a commit makes of the tables, cell by cell.
Cell(now, old, new) == IF new # old THEN new ELSE now

CellsMerged ==
  /\ \A l \in Leads :
       /\ leadStatus'[l] = Cell(leadStatus[l], vLeadStatus[l], vLeadStatus'[l])
       /\ leadStay'[l] = Cell(leadStay[l], vLeadStay[l], vLeadStay'[l])
  /\ \A b \in Bids :
       /\ bidStatus'[b] = Cell(bidStatus[b], vBidStatus[b], vBidStatus'[b])
       /\ bidStay'[b] = Cell(bidStay[b], vBidStay[b], vBidStay'[b])
       /\ bidAmount'[b] = Cell(bidAmount[b], vBidAmount[b], vBidAmount'[b])
       /\ counteredAmount'[b] =
            Cell(counteredAmount[b], vCounteredAmount[b], vCounteredAmount'[b])
       /\ acceptedAt'[b] = Cell(acceptedAt[b], vAcceptedAt[b], vAcceptedAt'[b])
       /\ payStatus'[b] = Cell(payStatus[b], vPayStatus[b], vPayStatus'[b])
       /\ payAmount'[b] = Cell(payAmount[b], vPayAmount[b], vPayAmount'[b])
  /\ bookings' = MergeRows(bookings, vBookings, vBookings')
  /\ UNCHANGED listingVars

LEMMA CommitCells == ASSUME TypeOK, NEW name, Commit(name) PROVE CellsMerged
BY DEF Commit, Merge, TypeOK, Cell, CellsMerged

\* The columns a commit writes in the tables are well typed in the view.
WrittenTypeOK ==
  /\ vLeadStatus' \in [Leads -> LeadStatuses]
  /\ vLeadStay' \in [Leads -> StaysOrNone]
  /\ vMatches' \subseteq Bids
  /\ vBidStatus' \in [Bids -> BidStatuses]
  /\ vBidStay' \in [Bids -> StaysOrNone]
  /\ vBidAmount' \in [Bids -> Amounts]
  /\ vCounteredAmount' \in [Bids -> Amounts]
  /\ vAcceptedAt' \in [Bids -> Stamps]
  /\ vCreatedAt' \in [Bids -> Stamps]
  /\ vPayStatus' \in [Bids -> PaymentStatuses]
  /\ vPayAmount' \in [Bids -> Amounts]
  /\ vBookings' \subseteq Bookings

LEMMA CommitTypes ==
  ASSUME TypeOK, WrittenTypeOK, NEW name, Commit(name)
  PROVE  TypeOK'
<1>1. /\ leadStatus' \in [Leads -> LeadStatuses] /\ leadStay' \in [Leads -> StaysOrNone]
      /\ matches' \subseteq Bids /\ bookings' \subseteq Bookings
  BY DEF Commit, Merge, MergeRows, TypeOK, WrittenTypeOK
<1>2. /\ bidStatus' \in [Bids -> BidStatuses] /\ bidStay' \in [Bids -> StaysOrNone]
      /\ bidAmount' \in [Bids -> Amounts] /\ counteredAmount' \in [Bids -> Amounts]
      /\ acceptedAt' \in [Bids -> Stamps] /\ createdAt' \in [Bids -> Stamps]
  BY DEF Commit, Merge, TypeOK, WrittenTypeOK
<1>3. payStatus' \in [Bids -> PaymentStatuses] /\ payAmount' \in [Bids -> Amounts]
  BY DEF Commit, Merge, TypeOK, WrittenTypeOK
<1>4. QED
  BY <1>1, <1>2, <1>3 DEF Commit, TypeOK, listingVars, rateVars

\* A commit keeps the rows in order, whatever came in between.
RowsKept == WrittenTypeOK /\ FlowInv' /\ PriceInv' /\ RowsInv'

LEMMA CommitPlace ==
  ASSUME TablesInv, OldRows, CellsMerged, NEW b \in Bids, NEW amount \in Rates,
         View!PlaceBid(b, amount)
  PROVE  RowsKept
<1>1. /\ vBidStatus' = [vBidStatus EXCEPT ![b] = "pending"]
      /\ vBidAmount' = [vBidAmount EXCEPT ![b] = amount]
      /\ UNCHANGED <<vLeadStatus, vLeadStay, vMatches, vCounteredAmount, vAcceptedAt,
                     vPayStatus, vPayAmount, vBookings>>
      /\ vLeadStatus[LeadOf(b)] = "active" /\ amount >= vB2bRate[PropertyOf(b)]
  BY SlowPlaceBid DEF OldRows
<1>2. LeadOf(b) \in Leads /\ PropertyOf(b) \in Properties
  BY BidParts
<1>3. WrittenTypeOK
  <2>1. vToday \in Stamps /\ vLeadStay[LeadOf(b)] \in StaysOrNone
    BY <1>2 DEF OldRows, ViewTypeOK, Days, Stamps
  <2>2. vBidStay' \in [Bids -> StaysOrNone] /\ vCreatedAt' \in [Bids -> Stamps]
    BY <2>1, SlowPlaceBid DEF OldRows, ViewTypeOK
  <2>3. vBidStatus' \in [Bids -> BidStatuses] /\ vBidAmount' \in [Bids -> Amounts]
    BY <1>1 DEF OldRows, ViewTypeOK, BidStatuses, Amounts
  <2>4. QED
    BY <1>1, <2>2, <2>3 DEF OldRows, ViewTypeOK, WrittenTypeOK
<1>4. /\ UNCHANGED bookings
      /\ \A o \in Bids : /\ payStatus'[o] = payStatus[o] /\ payAmount'[o] = payAmount[o]
                         /\ acceptedAt'[o] = acceptedAt[o]
                         /\ counteredAmount'[o] = counteredAmount[o]
      /\ \A l \in Leads : leadStatus'[l] = leadStatus[l]
      /\ UNCHANGED <<b2bRate, lowestRate>>
  BY <1>1 DEF CellsMerged, Cell, MergeRows, listingVars, rateVars
<1>5. \A o \in Bids \ {b} : bidStatus'[o] = bidStatus[o] /\ bidAmount'[o] = bidAmount[o]
  BY <1>1 DEF CellsMerged, Cell, OldRows, ViewTypeOK
<1>6. /\ bidStatus'[b] \in {"pending", bidStatus[b]}
      /\ bidStatus'[b] # "none"
      /\ bidAmount'[b] \in {amount, bidAmount[b]}
      /\ bidAmount'[b] # amount => bidStatus[b] # "none"
  <2>1. vBidStatus'[b] = "pending" /\ vBidAmount'[b] = amount
    BY <1>1 DEF OldRows, ViewTypeOK
  <2>2. /\ bidStatus'[b] = Cell(bidStatus[b], vBidStatus[b], "pending")
        /\ bidAmount'[b] = Cell(bidAmount[b], vBidAmount[b], amount)
    BY <2>1 DEF CellsMerged
  <2>3. amount # 0
    BY MoneyAssumption
  <2>4. OldRowsOf(b)
    BY DEF OldRows
  <2>5. QED
    BY <2>2, <2>3, <2>4 DEF Cell, OldRowsOf
<1>7. leadStatus[LeadOf(b)] # "none"
  BY <1>1, <1>2 DEF OldRows
<1>8. amount >= lowestRate[PropertyOf(b)]
  <2>1. /\ vB2bRate[PropertyOf(b)] \in Nat /\ lowestRate[PropertyOf(b)] \in Nat
        /\ amount \in Nat
        /\ vB2bRate[PropertyOf(b)] >= lowestRate[PropertyOf(b)]
    BY <1>2, MoneyAssumption DEF OldRows, ViewTypeOK, TablesInv, TypeOK
  <2>2. QED
    BY <1>1, <2>1
<1>9. FlowInv'
  BY <1>4, <1>5, <1>6 DEF TablesInv, FlowInv, Booked
<1>10. PriceInv'
  <2>1. NoDealBelowFloor'
    BY <1>4 DEF TablesInv, PriceInv, NoDealBelowFloor
  <2>2. \A o \in Bids \ {b} :
          /\ bidStatus'[o] # "none" => bidAmount'[o] >= lowestRate'[PropertyOf(o)]
          /\ counteredAmount'[o] # 0 => /\ bidStatus'[o] # "none"
                                        /\ counteredAmount'[o] >= lowestRate'[PropertyOf(o)]
          /\ payStatus'[o] # "none" => bidStatus'[o] # "none"
    BY <1>4, <1>5 DEF TablesInv, PriceInv
  <2>3. /\ bidAmount'[b] >= lowestRate'[PropertyOf(b)]
        /\ counteredAmount'[b] # 0 => counteredAmount'[b] >= lowestRate'[PropertyOf(b)]
    BY <1>4, <1>6, <1>8 DEF TablesInv, PriceInv
  <2>4. QED
    BY <1>4, <1>6, <2>1, <2>2, <2>3 DEF TablesInv, PriceInv
<1>11. RowsInv'
  <2>1. \A o \in Bids : LeadOf(o) \in Leads
    BY BidParts
  <2>2. bidAmount'[b] \in Rates
    BY <1>6 DEF TablesInv, RowsInv
  <2>3. QED
    BY <1>4, <1>5, <1>6, <1>7, <2>1, <2>2 DEF TablesInv, RowsInv
<1>12. QED
  BY <1>3, <1>9, <1>10, <1>11 DEF RowsKept

LEMMA CommitLead ==
  ASSUME TablesInv, OldRows, CellsMerged, NEW l \in Leads, NEW name,
         \/ name = "update_lead" /\ \E s \in Stays : View!UpdateLead(l, s)
         \/ name = "update_lead_status" /\ View!UpdateLeadStatus(l)
  PROVE  RowsKept
<1>1. /\ UNCHANGED <<vBidStatus, vBidStay, vBidAmount, vCounteredAmount, vAcceptedAt,
                     vCreatedAt, vPayStatus, vPayAmount, vBookings>>
      /\ vLeadStay' \in [Leads -> StaysOrNone] /\ vMatches' \subseteq Bids
      /\ vLeadStatus' \in [Leads -> LeadStatuses]
      /\ \A m \in Leads : vLeadStatus'[m] # vLeadStatus[m] => vLeadStatus'[m] = "lost"
  BY SlowLead DEF OldRows, ViewTypeOK, LeadStatuses
<1>2. WrittenTypeOK
  BY <1>1 DEF OldRows, ViewTypeOK, WrittenTypeOK
<1>3. /\ UNCHANGED <<bookings, b2bRate, lowestRate>>
      /\ \A o \in Bids : /\ bidStatus'[o] = bidStatus[o] /\ bidAmount'[o] = bidAmount[o]
                         /\ payStatus'[o] = payStatus[o] /\ payAmount'[o] = payAmount[o]
                         /\ acceptedAt'[o] = acceptedAt[o]
                         /\ counteredAmount'[o] = counteredAmount[o]
  BY <1>1 DEF CellsMerged, Cell, MergeRows, listingVars, rateVars
<1>4. \A m \in Leads : leadStatus[m] # "none" => leadStatus'[m] # "none"
  BY <1>1 DEF CellsMerged, Cell
<1>5. FlowInv' /\ PriceInv'
  BY <1>3 DEF TablesInv, FlowInv, Booked, PriceInv, NoDealBelowFloor
<1>6. RowsInv'
  BY <1>3, <1>4, BidParts DEF TablesInv, RowsInv
<1>7. QED
  BY <1>2, <1>5, <1>6 DEF RowsKept

LEMMA CommitDecision ==
  ASSUME TablesInv, OldRows, CellsMerged, NEW name, NEW b \in Bids, Decides(name, b)
  PROVE  RowsKept
<1>1. WrittenTypeOK
  BY DEF OldRows, ViewTypeOK, WrittenTypeOK, Decides
<1>2. /\ UNCHANGED <<bookings, b2bRate, lowestRate>>
      /\ \A o \in Bids : payStatus'[o] = payStatus[o] /\ payAmount'[o] = payAmount[o]
  BY DEF CellsMerged, Cell, MergeRows, Decides, listingVars, rateVars
<1>3. \A l \in Leads : leadStatus[l] # "none" => leadStatus'[l] # "none"
  BY DEF CellsMerged, Cell, Decides
<1>4. ASSUME NEW o \in Bids
      PROVE  /\ bidStatus'[o] = "none" <=> bidStatus[o] = "none"
             /\ bidStatus'[o] = "accepted" => acceptedAt'[o] # 0
             /\ acceptedAt[o] # 0 => acceptedAt'[o] # 0
             /\ bidAmount'[o] # bidAmount[o] =>
                  /\ bidStatus[o] # "none"
                  /\ vCounteredAmount[o] # 0 /\ bidAmount'[o] = vCounteredAmount[o]
             /\ counteredAmount'[o] \in {0, counteredAmount[o]}
  BY DEF CellsMerged, Cell, Decides, OldRows, OldRowsOf, TablesInv, FlowInv
<1>5. FlowInv'
  BY <1>2, <1>4 DEF TablesInv, FlowInv, Booked
<1>6. PriceInv'
  <2>1. NoDealBelowFloor'
    BY <1>2 DEF TablesInv, PriceInv, NoDealBelowFloor
  <2>2. ASSUME NEW o \in Bids, bidStatus'[o] # "none"
        PROVE  bidAmount'[o] >= lowestRate'[PropertyOf(o)]
    BY <1>2, <1>4, <2>2 DEF TablesInv, PriceInv, OldRows, OldRowsOf
  <2>3. QED
    BY <1>2, <1>4, <2>1, <2>2 DEF TablesInv, PriceInv
<1>7. RowsInv'
  <2>1. ASSUME NEW o \in Bids, bidStatus'[o] # "none"
        PROVE  bidAmount'[o] \in Rates
    <3>1. vCounteredAmount[o] # 0 => vCounteredAmount[o] \in Rates
      BY DEF OldRows, ViewTypeOK, Amounts
    <3>2. QED
      BY <1>4, <2>1, <3>1 DEF TablesInv, RowsInv
  <2>2. QED
    BY <1>2, <1>3, <1>4, <2>1, BidParts DEF TablesInv, RowsInv
<1>8. QED
  BY <1>1, <1>5, <1>6, <1>7 DEF RowsKept

LEMMA CommitPayment ==
  ASSUME TablesInv, OldRows, CellsMerged, NEW b \in Bids, View!CreateBidPayment(b),
         payStatus[b] = "none"
  PROVE  /\ RowsKept
         /\ bidStatus[b] # "none" /\ acceptedAt[b] # 0
         /\ payStatus'[b] = "initiated"
         /\ UNCHANGED bookings
         /\ \A o \in Bids \ {b} : payStatus'[o] = payStatus[o]
         /\ \A o \in Bids : acceptedAt'[o] = acceptedAt[o]
<1>1. /\ vBidStatus[b] = "accepted" /\ vPayStatus[b] = "none"
      /\ vPayStatus' = [vPayStatus EXCEPT ![b] = "initiated"]
      /\ vPayAmount' = [vPayAmount EXCEPT ![b] = vBidAmount[b]]
      /\ UNCHANGED <<vLeadStatus, vLeadStay, vMatches, vBidStatus, vBidStay, vBidAmount,
                     vCounteredAmount, vAcceptedAt, vCreatedAt, vBookings>>
  BY SlowPayment DEF OldRows
<1>2. WrittenTypeOK
  <2>1. vPayStatus' \in [Bids -> PaymentStatuses] /\ vPayAmount' \in [Bids -> Amounts]
    BY <1>1 DEF OldRows, ViewTypeOK, PaymentStatuses
  <2>2. QED
    BY <1>1, <2>1 DEF OldRows, ViewTypeOK, WrittenTypeOK
<1>3. /\ UNCHANGED <<bookings, b2bRate, lowestRate>>
      /\ \A o \in Bids : /\ bidStatus'[o] = bidStatus[o] /\ bidAmount'[o] = bidAmount[o]
                         /\ acceptedAt'[o] = acceptedAt[o]
                         /\ counteredAmount'[o] = counteredAmount[o]
      /\ \A l \in Leads : leadStatus'[l] = leadStatus[l]
  BY <1>1 DEF CellsMerged, Cell, MergeRows, listingVars, rateVars
<1>4. \A o \in Bids \ {b} : payStatus'[o] = payStatus[o] /\ payAmount'[o] = payAmount[o]
  BY <1>1 DEF CellsMerged, Cell, OldRows, ViewTypeOK
<1>5. OldRowsOf(b)
  BY DEF OldRows
<1>6. payStatus'[b] = "initiated" /\ payAmount'[b] = vBidAmount[b]
  <2>1. vPayStatus'[b] = "initiated" /\ vPayAmount'[b] = vBidAmount[b]
    BY <1>1 DEF OldRows, ViewTypeOK
  <2>2. vBidAmount[b] # vPayAmount[b]
    BY <1>1, <1>5, MoneyAssumption DEF OldRowsOf
  <2>3. QED
    BY <1>1, <2>1, <2>2 DEF CellsMerged, Cell
<1>7. bidStatus[b] # "none" /\ acceptedAt[b] # 0
  BY <1>1, <1>5 DEF OldRowsOf
<1>8. FlowInv'
  BY <1>3, <1>4, <1>6, <1>7 DEF TablesInv, FlowInv, Booked
<1>9. PriceInv'
  <2>1. vBidAmount[b] >= lowestRate[PropertyOf(b)]
    BY <1>1, <1>5 DEF OldRowsOf
  <2>2. NoDealBelowFloor'
    BY <1>3, <1>4, <1>6, <2>1 DEF TablesInv, PriceInv, NoDealBelowFloor
  <2>3. QED
    BY <1>3, <1>4, <1>7, <2>2 DEF TablesInv, PriceInv
<1>10. RowsInv'
  BY <1>3, <1>4, <1>6, BidParts DEF TablesInv, RowsInv
<1>11. QED
  BY <1>2, <1>3, <1>4, <1>6, <1>7, <1>8, <1>9, <1>10 DEF RowsKept

LEMMA CommitConfirmation ==
  ASSUME TablesInv, OldRows, CellsMerged, NEW b \in Bids, View!ConfirmBidPayment(b)
  PROVE  /\ RowsKept
         /\ payStatus[b] # "none" /\ payStatus'[b] = "confirmed" /\ Booked(b)'
         /\ \A o \in Bids \ {b} : payStatus'[o] = payStatus[o] /\ (Booked(o)' <=> Booked(o))
         /\ \A o \in Bids : /\ acceptedAt'[o] = acceptedAt[o]
                            /\ bidStatus'[o] \in {bidStatus[o], "rejected"}
<1> DEFINE k == [bid |-> b, stay |-> vBidStay[b], amount |-> vBidAmount[b]]
<1>1. /\ vPayStatus[b] = "initiated"
      /\ vPayStatus' = [vPayStatus EXCEPT ![b] = "confirmed"]
      /\ vBookings' = vBookings \cup {k}
      /\ vBidStatus' \in [Bids -> BidStatuses]
      /\ \A o \in Bids : vBidStatus'[o] # vBidStatus[o] =>
           vBidStatus[o] # "none" /\ vBidStatus'[o] = "rejected"
      /\ UNCHANGED <<vLeadStatus, vLeadStay, vMatches, vBidStay, vBidAmount,
                     vCounteredAmount, vAcceptedAt, vCreatedAt, vPayAmount>>
  BY SlowConfirmation
<1>2. OldRowsOf(b)
  BY DEF OldRows
<1>3. WrittenTypeOK
  <2>1. k \in Bookings
    BY DEF OldRows, ViewTypeOK, Bookings
  <2>2. vBookings' \subseteq Bookings /\ vPayStatus' \in [Bids -> PaymentStatuses]
    BY <1>1, <2>1 DEF OldRows, ViewTypeOK, PaymentStatuses
  <2>3. QED
    BY <1>1, <2>2 DEF OldRows, ViewTypeOK, WrittenTypeOK
<1>4. /\ UNCHANGED <<b2bRate, lowestRate>>
      /\ \A o \in Bids : /\ bidAmount'[o] = bidAmount[o] /\ payAmount'[o] = payAmount[o]
                         /\ acceptedAt'[o] = acceptedAt[o]
                         /\ counteredAmount'[o] = counteredAmount[o]
      /\ \A l \in Leads : leadStatus'[l] = leadStatus[l]
  BY <1>1 DEF CellsMerged, Cell, listingVars, rateVars
<1>5. /\ payStatus'[b] = "confirmed"
      /\ \A o \in Bids \ {b} : payStatus'[o] = payStatus[o]
  BY <1>1 DEF CellsMerged, Cell, OldRows, ViewTypeOK
<1>6. \A o \in Bids : /\ bidStatus'[o] \in {bidStatus[o], "rejected"}
                      /\ (bidStatus'[o] = "none") <=> (bidStatus[o] = "none")
  BY <1>1 DEF CellsMerged, Cell, OldRows, OldRowsOf
<1>7. bookings' = bookings \cup {k}
  <2>1. k \notin vBookings
    BY <1>1, <1>2 DEF OldRowsOf
  <2>2. QED
    BY <1>1, <2>1 DEF CellsMerged, MergeRows
<1>8. k.bid = b /\ k.amount = vBidAmount[b]
  OBVIOUS
<1> HIDE DEF k
<1>9. Booked(b)' /\ \A o \in Bids \ {b} : Booked(o)' <=> Booked(o)
  BY <1>7, <1>8 DEF Booked
<1>10. payStatus[b] # "none"
  BY <1>1, <1>2 DEF OldRowsOf
<1>11. FlowInv'
  BY <1>4, <1>5, <1>6, <1>9, <1>10 DEF TablesInv, FlowInv
<1>12. PriceInv'
  <2>1. k.amount >= lowestRate[PropertyOf(k.bid)]
    BY <1>1, <1>2, <1>8 DEF OldRowsOf
  <2>2. NoDealBelowFloor'
    BY <1>4, <1>5, <1>7, <1>10, <2>1 DEF TablesInv, PriceInv, NoDealBelowFloor
  <2>3. QED
    BY <1>4, <1>5, <1>6, <1>10, <2>2 DEF TablesInv, PriceInv
<1>13. RowsInv'
  BY <1>4, <1>5, <1>6, <1>10, BidParts DEF TablesInv, RowsInv
<1>14. QED
  BY <1>3, <1>4, <1>5, <1>6, <1>9, <1>10, <1>11, <1>12, <1>13 DEF RowsKept

--------------------------------------------------------------------------------
RaceInv ==
  /\ TablesInv
  /\ slow \in {None, "reading", "committed", "gone"}
  /\ slow \in {None, "reading"} => culprit = None
  /\ slow = "reading" => OldRows

LEMMA HandlerCases ==
  ASSUME NEW name, Handler(name)
  PROVE  \/ \E b \in Bids :
              \/ name = "place_bid" /\ \E amount \in Rates : View!PlaceBid(b, amount)
              \/ name \in Deciding /\ SlowDecision(name, b)
              \/ name = "create_bid_payment" /\ View!CreateBidPayment(b)
              \/ name = "confirm_bid_payment" /\ View!ConfirmBidPayment(b)
         \/ \E l \in Leads :
              \/ name = "update_lead" /\ \E s \in Stays : View!UpdateLead(l, s)
              \/ name = "update_lead_status" /\ View!UpdateLeadStatus(l)
BY DEF Handler, Deciding, SlowDecision

\* A payment that is inserted was not there.
LEMMA InsertedPayment ==
  ASSUME OldRows, NEW name, Commit(name), NEW b \in Bids, View!CreateBidPayment(b)
  PROVE  payStatus[b] = "none"
<1>1. vPayStatus[b] = "none" /\ vPayStatus'[b] # "none"
  BY SlowPayment DEF OldRows, ViewTypeOK
<1>2. b \in Inserted(vPayStatus, vPayStatus')
  BY <1>1 DEF Inserted
<1>3. QED
  BY <1>2 DEF Commit, Conflict

LEMMA CommitTables ==
  ASSUME RaceInv, NEW name, Commit(name)
  PROVE  TablesInv'
<1>1. TablesInv /\ OldRows /\ CellsMerged /\ Handler(name)
  BY CommitCells DEF RaceInv, TablesInv, Commit
<1>2. ASSUME NEW b \in Bids, name \in Deciding /\ SlowDecision(name, b)
      PROVE  RowsKept
  BY <1>1, <1>2, SlowDecisionColumns, CommitDecision DEF OldRows
<1>3. RowsKept
  BY <1>1, <1>2, HandlerCases, InsertedPayment, CommitPlace, CommitLead, CommitPayment,
     CommitConfirmation
<1>4. TypeOK'
  BY <1>1, <1>3, CommitTypes DEF RowsKept, TablesInv
<1>5. QED
  BY <1>3, <1>4 DEF RowsKept, TablesInv

LEMMA SerialTables == ASSUME TablesInv, [Next]_vars PROVE TablesInv'
BY NextTypeOK, NextFlow, NextPrices, NextRows DEF TablesInv

LEMMA NextRaceInv == ASSUME RaceInv, [NextR]_allVars PROVE RaceInv'
<1>1. CASE Meanwhile
  <2>1. TablesInv'
    BY <1>1, SerialTables DEF Meanwhile, RaceInv
  <2>2. slow = "reading" => OldRows'
    BY <1>1, <2>1, NextForward, OldRowsLast DEF Meanwhile, RaceInv, TablesInv
  <2>3. QED
    BY <1>1, <2>1, <2>2 DEF Meanwhile, RaceInv
<1>2. CASE Begin
  <2>1. TablesInv'
    BY <1>2, SerialTables DEF Begin, RaceInv
  <2>2. OldRows'
    BY <1>2, ReadingOldRows DEF Begin, RaceInv
  <2>3. QED
    BY <1>2, <2>1, <2>2 DEF Begin, RaceInv
<1>3. ASSUME NEW name \in SlowHandlers, Commit(name)
      PROVE  RaceInv'
  <2>1. TablesInv'
    BY <1>3, CommitTables
  <2>2. QED
    BY <1>3, <2>1 DEF Commit, RaceInv, None
<1>4. CASE Leave
  <2>1. TablesInv'
    BY <1>4, SerialTables DEF Leave, RaceInv
  <2>2. QED
    BY <1>4, <2>1 DEF Leave, RaceInv, None
<1>5. CASE UNCHANGED allVars
  <2>1. UNCHANGED vars /\ UNCHANGED raceVars
    BY <1>5 DEF allVars
  <2>2. TablesInv'
    BY <2>1, SerialTables DEF RaceInv
  <2>3. Forward
    BY <2>1, NextForward DEF RaceInv, TablesInv
  <2>4. slow = "reading" => OldRows'
    BY <2>1, <2>2, <2>3, OldRowsLast DEF RaceInv, TablesInv, raceVars
  <2>5. QED
    BY <2>1, <2>2, <2>4 DEF RaceInv, raceVars
<1>6. QED
  BY <1>1, <1>2, <1>3, <1>4, <1>5 DEF NextR

\* The rows stay in order whatever one slow request is overtaken by, and what it
\* read stays an earlier state of them.
THEOREM RowsInOrder == SpecR => []RaceInv
<1>1. InitR => RaceInv
  <2> SUFFICES ASSUME InitR PROVE RaceInv
    OBVIOUS
  <2>1. TypeOK /\ PriceInv
    BY InitTypeOK, InitPrices DEF InitR
  <2>2. FlowInv /\ RowsInv
    BY DEF InitR, Init, FlowInv, RowsInv, Booked
  <2>3. QED
    BY <2>1, <2>2 DEF InitR, RaceInv, TablesInv, None
<1>2. RaceInv /\ [NextR]_allVars => RaceInv'
  BY NextRaceInv
<1>3. QED
  BY <1>1, <1>2, PTL DEF SpecR

\* No race parts bookings from confirmed payments.
THEOREM BookedStaysConfirmed == SpecR => []BookedIffConfirmed
<1>1. RaceInv => BookedIffConfirmed
  BY DEF RaceInv, TablesInv, FlowInv, BookedIffConfirmed
<1>2. QED
  BY <1>1, RowsInOrder, PTL

\* No race brings a payment or a booking below the floor.
THEOREM RacesRespectFloor == SpecR => []NoDealBelowFloor
<1>1. RaceInv => NoDealBelowFloor
  BY DEF RaceInv, TablesInv, PriceInv
<1>2. QED
  BY <1>1, RowsInOrder, PTL

--------------------------------------------------------------------------------
(***************************************************************************)
(* Dates under races.  A handler in one step parts no bid from the dates   *)
(* of its lead; a commit from old rows does so only in a cell it writes.   *)
(***************************************************************************)
LEMMA NextPartsNothing ==
  ASSUME TypeOK, PriceInv, RowsInv, [Next]_vars, NEW o \in Bids, Parted(o)'
  PROVE  Parted(o)
<1>1. ASSUME NEW b \in Bids, NEW amount \in Rates, PlaceBid(b, amount)
      PROVE  Parted(o)
  <2>1. /\ o # b => bidStatus'[o] = bidStatus[o] /\ bidStay'[o] = bidStay[o]
        /\ bidStay'[b] = leadStay[LeadOf(b)] /\ UNCHANGED leadStay
    BY <1>1 DEF PlaceBid, TypeOK, leadVars
  <2>2. QED
    BY <2>1 DEF Parted
<1>2. ASSUME NEW b \in Bids, ConfirmBidPayment(b)
      PROVE  Parted(o)
  BY <1>2 DEF ConfirmBidPayment, Parted, Live, leadVars, offerVars
<1>3. ASSUME NEW b \in Bids, BidStep(b), ~ ConfirmBidPayment(b),
             \A amount \in Rates : ~ PlaceBid(b, amount)
      PROVE  Parted(o)
  <2>1. KeepsDates
    BY <1>3, BidStepKeepsDates DEF PriceInv
  <2>2. QuietStep
    BY <1>3, BidStepQuiet
  <2>3. QED
    BY <2>1, <2>2 DEF KeepsDates, QuietStep, Parted
<1>4. ASSUME NEW l \in Leads, LeadStep(l)
      PROVE  Parted(o)
  <2>1. ASSUME NEW s \in Stays, CreateLead(l, s) \/ UpdateLead(l, s)
        PROVE  Parted(o)
    <3>1. o \in BidsOfLead(l) => bidStatus[o] \notin Live
      BY <2>1 DEF CreateLead, UpdateLead, Editable, RowsInv, BidsOfLead, Live
    <3>2. /\ \A m \in Leads \ {l} : leadStay'[m] = leadStay[m]
          /\ UNCHANGED <<bidStatus, bidStay>>
      BY <2>1 DEF CreateLead, UpdateLead, TypeOK, bidVars, offerVars
    <3>3. QED
      BY <3>1, <3>2, BidParts DEF Parted, BidsOfLead
  <2>2. CASE UpdateLeadStatus(l) \/ Rematch(l)
    BY <2>2 DEF UpdateLeadStatus, Rematch, Parted, bidVars, offerVars
  <2>3. QED
    BY <1>4, <2>1, <2>2 DEF LeadStep
<1>5. ASSUME \/ \E p \in Properties : ListingStep(p)
             \/ \E k \in blocks : DeleteBlock(k)
             \/ ListLeads \/ ExpireOverdueLeads \/ Tick
      PROVE  Parted(o)
  BY <1>5, LeadAndJobStepsQuiet, OtherStepDates DEF KeepsDates, QuietStep, Parted
<1>6. CASE UNCHANGED vars
  BY <1>6 DEF vars, leadVars, bidVars, offerVars, Parted
<1>7. QED
  BY <1>1, <1>2, <1>3, <1>4, <1>5, <1>6, ScopeAssumption DEF Next

\* A decision brings no bid to life that was not pending or held in the view.
LEMMA SlowDecisionRevives ==
  ASSUME ViewTypeOK, NEW name, NEW b \in Bids, SlowDecision(name, b),
         NEW o \in Bids, vBidStatus'[o] # vBidStatus[o], vBidStatus'[o] \in Live
  PROVE  vBidStatus[o] \in {"pending", "on_hold"}
<1>1. ASSUME NEW s \in {"withdrawn", "rejected"},
             View!ClosePendingBid(b, s) \/ View!RollBackAcceptedBid(b, s)
      PROVE  vBidStatus[o] = "on_hold"
  <2>1. CASE View!ClosePendingBid(b, s)
    BY <2>1 DEF View!ClosePendingBid, ViewTypeOK, Live
  <2>2. CASE View!RollBackAcceptedBid(b, s)
    <3>1. vBidStatus'[o] = IF o = b THEN s
                           ELSE IF o \in View!Rivals(b, "on_hold") THEN "pending"
                           ELSE vBidStatus[o]
      BY <2>2 DEF View!RollBackAcceptedBid, View!ReviveHeldBids, View!Bids, Bids
    <3>2. QED
      BY <3>1 DEF View!Rivals, Live
  <2>3. QED
    BY <1>1, <2>1, <2>2
<1>2. ASSUME vBidStatus[b] = "pending", View!AcceptFlow(b)
      PROVE  vBidStatus[o] = "pending"
  <2>1. vBidStatus'[o] = IF o = b THEN "accepted"
                         ELSE IF o \in View!Rivals(b, "pending") THEN "on_hold"
                         ELSE vBidStatus[o]
    BY <1>2 DEF View!AcceptFlow, View!HoldRivals, View!Bids, Bids
  <2>2. QED
    BY <1>2, <2>1 DEF View!Rivals
<1>3. QED
  BY <1>1, <1>2 DEF SlowDecision, View!WithdrawBid, View!RejectBid, View!AcceptBid,
                    View!AcceptCounter, View!CounterOpen

\* An edit moves the dates of one lead, whose bids it has read as closed.
LEMMA SlowEdit ==
  ASSUME ViewTypeOK, NEW l \in Leads, NEW s \in Stays, View!UpdateLead(l, s)
  PROVE  /\ \A m \in Leads \ {l} : vLeadStay'[m] = vLeadStay[m]
         /\ \A o \in Bids : LeadOf(o) = l => vBidStatus[o] \in {"none", "withdrawn"}
BY DEF View!UpdateLead, View!Editable, View!BidsOfLead, View!Bids, Bids, View!LeadOf, LeadOf,
       ViewTypeOK

LEMMA CommitParts ==
  ASSUME RaceInv, LiveBidsKeepLeadDates, NEW name, Commit(name),
         NEW o \in Bids, ~ Parted(o), Parted(o)'
  PROVE  PartsFromOldRows(o)
<1>1. TablesInv /\ OldRows /\ CellsMerged /\ Handler(name) /\ LeadOf(o) \in Leads
  BY CommitCells, BidParts DEF RaceInv, TablesInv, Commit
<1>2. slow = "reading" /\ slow' = "committed" /\ culprit' = name
  BY DEF Commit
<1>3. /\ bidStatus'[o] = Cell(bidStatus[o], vBidStatus[o], vBidStatus'[o])
      /\ bidStay'[o] = Cell(bidStay[o], vBidStay[o], vBidStay'[o])
      /\ leadStay'[LeadOf(o)] = Cell(leadStay[LeadOf(o)], vLeadStay[LeadOf(o)], vLeadStay'[LeadOf(o)])
  BY <1>1 DEF CellsMerged
<1>4. ASSUME UNCHANGED <<vBidStay, vLeadStay>>
      PROVE  /\ vBidStatus'[o] # vBidStatus[o] /\ vBidStatus'[o] \in Live
             /\ bidStatus[o] \notin Live /\ bidStay[o] # leadStay[LeadOf(o)]
  BY <1>3, <1>4 DEF Cell, Parted
<1>5. ASSUME NEW b \in Bids, name \in Deciding, SlowDecision(name, b)
      PROVE  PartsFromOldRows(o)
  <2>1. UNCHANGED <<vBidStay, vLeadStay>>
    BY <1>1, <1>5, SlowDecisionColumns DEF OldRows, Decides
  <2>2. vBidStatus[o] \in {"pending", "on_hold"}
    BY <1>1, <1>4, <1>5, <2>1, SlowDecisionRevives DEF OldRows
  <2>3. bidStatus[o] \in {"none", "withdrawn"}
    BY <1>4, <2>1 DEF LiveBidsKeepLeadDates
  <2>4. bidStatus[o] # "none"
    BY <1>1, <2>2 DEF OldRows, OldRowsOf
  <2>5. QED
    BY <1>2, <1>5, <2>2, <2>3, <2>4 DEF PartsFromOldRows, Deciding
<1>6. ASSUME NEW b \in Bids, NEW amount \in Rates, name = "place_bid", View!PlaceBid(b, amount)
      PROVE  PartsFromOldRows(o)
  <2>1. /\ UNCHANGED vLeadStay
        /\ o # b => vBidStatus'[o] = vBidStatus[o] /\ vBidStay'[o] = vBidStay[o]
        /\ vBidStay'[b] = vLeadStay[LeadOf(b)]
    BY <1>1, <1>6, SlowPlaceBid DEF OldRows, ViewTypeOK
  <2>2. o = b
    BY <1>3, <2>1 DEF Cell, Parted
  <2>3. vLeadStay[LeadOf(o)] # leadStay[LeadOf(o)] \/ vBidStay[o] # bidStay[o]
    BY <1>3, <2>1, <2>2 DEF Cell, Parted
  <2>4. QED
    BY <1>2, <1>6, <2>3 DEF PartsFromOldRows
<1>7. ASSUME NEW l \in Leads, NEW s \in Stays, name = "update_lead", View!UpdateLead(l, s)
      PROVE  PartsFromOldRows(o)
  <2>1. UNCHANGED <<vBidStatus, vBidStay>>
    BY <1>1, <1>7, SlowLead DEF OldRows
  <2>2. bidStatus[o] \in Live /\ vLeadStay'[LeadOf(o)] # vLeadStay[LeadOf(o)]
    BY <1>3, <2>1 DEF Cell, Parted
  <2>3. vBidStatus[o] \in {"none", "withdrawn"}
    BY <1>1, <1>7, <2>2, SlowEdit DEF OldRows
  <2>4. QED
    BY <1>2, <1>7, <2>2, <2>3 DEF PartsFromOldRows
<1>8. ASSUME NEW b \in Bids, View!CreateBidPayment(b) \/ View!ConfirmBidPayment(b)
      PROVE  FALSE
  <2>1. UNCHANGED <<vBidStay, vLeadStay>>
        /\ (vBidStatus'[o] # vBidStatus[o] => vBidStatus'[o] = "rejected")
    BY <1>1, <1>8, SlowPayment, SlowConfirmation DEF OldRows
  <2>2. QED
    BY <1>4, <2>1 DEF Live
<1>9. ASSUME NEW l \in Leads, name = "update_lead_status", View!UpdateLeadStatus(l)
      PROVE  FALSE
  <2>1. UNCHANGED <<vBidStatus, vBidStay, vLeadStay>>
    BY <1>1, <1>9, SlowLead DEF OldRows
  <2>2. QED
    BY <1>4, <2>1
<1>10. QED
  BY <1>1, <1>5, <1>6, <1>7, <1>8, <1>9, HandlerCases

\* Until the slow request commits, the dates are in order.
RaceDates == culprit = None => DatesInv

LEMMA NextRaceDates == ASSUME RaceInv, RaceDates, [NextR]_allVars PROVE RaceDates'
<1>1. ASSUME [Next]_vars, UNCHANGED culprit PROVE RaceDates'
  BY <1>1, NextDates DEF RaceInv, TablesInv, RaceDates
<1>2. CASE Meanwhile \/ Begin \/ Leave \/ UNCHANGED allVars
  BY <1>1, <1>2 DEF Meanwhile, Begin, Leave, allVars, raceVars
<1>3. ASSUME NEW name \in SlowHandlers, Commit(name) PROVE RaceDates'
  <2>1. culprit' = name /\ name # None
    BY <1>3, HandlerCases DEF Commit, None, Deciding
  <2>2. QED
    BY <2>1 DEF RaceDates
<1>4. QED
  BY <1>2, <1>3 DEF NextR

PartsOnlyFromOldRows ==
  \A b \in Bids : ~ Parted(b) /\ Parted(b)' => PartsFromOldRows(b)

\* The dates of a live bid and of its lead part only when a slow request writes over
\* what it has not read, in one of the three ways of PartsFromOldRows, however many
\* requests overtake it.
THEOREM DatesPartFromOldRows == SpecR => DatesPartOnlyFromOldRows
<1>1. RaceInv /\ RaceDates /\ [NextR]_allVars => [PartsOnlyFromOldRows]_allVars
  <2> SUFFICES ASSUME RaceInv, RaceDates, NextR, NEW o \in Bids, ~ Parted(o), Parted(o)'
               PROVE  PartsFromOldRows(o)
    BY DEF PartsOnlyFromOldRows
  <2>1. CASE [Next]_vars
    BY <2>1, NextPartsNothing DEF RaceInv, TablesInv
  <2>2. CASE Meanwhile \/ Begin \/ Leave
    BY <2>1, <2>2 DEF Meanwhile, Begin, Leave
  <2>3. ASSUME NEW name \in SlowHandlers, Commit(name)
        PROVE  PartsFromOldRows(o)
    <3>1. LiveBidsKeepLeadDates
      BY <2>3 DEF Commit, RaceInv, RaceDates, DatesInv
    <3>2. QED
      BY <2>3, <3>1, CommitParts
  <2>4. QED
    BY <2>2, <2>3 DEF NextR
<1>2. InitR => RaceDates
  BY InitDates DEF InitR, RaceDates
<1>3. SpecR => []RaceDates
  BY <1>2, NextRaceDates, RowsInOrder, PTL DEF SpecR
<1>4. QED
  BY <1>1, <1>3, RowsInOrder, PTL
  DEF SpecR, DatesPartOnlyFromOldRows, PartsOnlyFromOldRows

--------------------------------------------------------------------------------
Reopens(l) ==
  /\ leadStatus[l] \in {"lost", "expired"}
  /\ leadStatus'[l] \notin {"lost", leadStatus[l]}

ReopenedFromOldRows ==
  \A l \in Leads : Reopens(l) =>
    /\ slow = "reading" /\ slow' = "committed"
    /\ \/ /\ culprit' \in {"accept_bid", "accept_counter"}
          /\ vLeadStatus[l] = "active" /\ leadStatus'[l] = "won"
       \/ /\ culprit' \in {"withdraw_bid", "reject_bid"}
          /\ vLeadStatus[l] = "won" /\ leadStatus'[l] = "active"

\* A closed lead comes back only by a stale acceptance or rollback.
THEOREM ClosedUnlessStale == SpecR => ClosedLeadReturnsOnlyFromOldRows
<1>1. RaceInv /\ [NextR]_allVars => [ReopenedFromOldRows]_allVars
  <2> SUFFICES ASSUME RaceInv, NextR PROVE ReopenedFromOldRows
    OBVIOUS
  <2>1. CASE Meanwhile
    BY <2>1, NextClosedStays
    DEF Meanwhile, RaceInv, TablesInv, ClosedStays, ReopenedFromOldRows, Reopens
  <2>2. CASE Begin \/ Leave
    BY <2>2 DEF Begin, Leave, vars, leadVars, ReopenedFromOldRows, Reopens
  <2>3. ASSUME NEW name \in SlowHandlers, Commit(name)
        PROVE  ReopenedFromOldRows
    <3>1. TablesInv /\ OldRows /\ CellsMerged /\ Handler(name)
      BY <2>3, CommitCells DEF RaceInv, TablesInv, Commit
    <3>2. slow = "reading" /\ slow' = "committed" /\ culprit' = name
      BY <2>3 DEF Commit
    <3>3. ASSUME NEW b \in Bids, name \in Deciding /\ SlowDecision(name, b)
          PROVE  ReopenedFromOldRows
      <4>1. Decides(name, b)
        BY <3>1, <3>3, SlowDecisionColumns DEF OldRows
      <4>2. QED
        BY <3>1, <3>2, <4>1 DEF Decides, CellsMerged, Cell, ReopenedFromOldRows, Reopens
    <3>4. ASSUME \A l \in Leads : vLeadStatus'[l] \in {vLeadStatus[l], "lost"}
          PROVE  ReopenedFromOldRows
      BY <3>1, <3>4 DEF CellsMerged, Cell, ReopenedFromOldRows, Reopens
    <3>5. ASSUME NEW l \in Leads,
                 \/ name = "update_lead" /\ \E s \in Stays : View!UpdateLead(l, s)
                 \/ name = "update_lead_status" /\ View!UpdateLeadStatus(l)
          PROVE  \A m \in Leads : vLeadStatus'[m] \in {vLeadStatus[m], "lost"}
      BY <3>1, <3>5, SlowLead DEF OldRows, ViewTypeOK
    <3>6. ASSUME NEW b \in Bids,
                 \/ \E amount \in Rates : View!PlaceBid(b, amount)
                 \/ View!CreateBidPayment(b)
                 \/ View!ConfirmBidPayment(b)
          PROVE  UNCHANGED vLeadStatus
      BY <3>1, <3>6, SlowPlaceBid, SlowPayment, SlowConfirmation DEF OldRows
    <3>7. QED
      BY <3>1, <3>3, <3>4, <3>5, <3>6, HandlerCases
  <2>4. QED
    BY <2>1, <2>2, <2>3 DEF NextR
<1>2. QED
  BY <1>1, RowsInOrder, PTL
  DEF SpecR, ClosedLeadReturnsOnlyFromOldRows, ReopenedFromOldRows, Reopens

--------------------------------------------------------------------------------
(***************************************************************************)
(* The payment flow outlives the races: a stage is read from columns that  *)
(* only move forward, and a commit from old rows moves one bid by at most  *)
(* the stage that its handler stands for.                                  *)
(***************************************************************************)
LEMMA CommitRefines ==
  ASSUME RaceInv, NEW name, Commit(name)
  PROVE  [Flow!Next]_[b \in Bids |-> Stage(b)]
<1>1. TablesInv /\ OldRows /\ CellsMerged /\ Handler(name)
  BY CommitCells DEF RaceInv, TablesInv, Commit
<1>2. ASSUME NEW b \in Bids, name \in Deciding /\ SlowDecision(name, b)
      PROVE  [Flow!Next]_[o \in Bids |-> Stage(o)]
  <2>1. Decides(name, b)
    BY <1>1, <1>2, SlowDecisionColumns DEF OldRows
  <2>2. /\ UNCHANGED bookings
        /\ \A o \in Bids : payStatus'[o] = payStatus[o]
        /\ \A o \in Bids \ {b} : acceptedAt'[o] = acceptedAt[o]
        /\ acceptedAt[b] # 0 => acceptedAt'[b] # 0
    BY <1>1, <2>1 DEF CellsMerged, Cell, MergeRows, Decides
  <2>3. \A o \in Bids \ {b} : Stage(o)' = Stage(o)
    BY <2>2 DEF Stage, Booked
  <2>4. CASE acceptedAt[b] = 0 /\ acceptedAt'[b] # 0
    <3>1. Stage(b) = "open" /\ Stage(b)' = "accepted"
      BY <1>1, <2>2, <2>4 DEF Stage, Booked, TablesInv, FlowInv
    <3>2. Flow!Accept(b)
      BY <2>3, <3>1, Advances DEF Flow!Accept
    <3>3. QED
      BY <3>2 DEF Flow!Next
  <2>5. CASE ~ (acceptedAt[b] = 0 /\ acceptedAt'[b] # 0)
    <3>1. Stage(b)' = Stage(b)
      BY <2>2, <2>5 DEF Stage, Booked
    <3>2. QED
      BY <2>3, <3>1
  <2>6. QED
    BY <2>4, <2>5
<1>3. ASSUME NEW b \in Bids, View!CreateBidPayment(b)
      PROVE  [Flow!Next]_[o \in Bids |-> Stage(o)]
  <2>1. payStatus[b] = "none"
    BY <1>3, InsertedPayment, <1>1
  <2>2. /\ acceptedAt[b] # 0 /\ payStatus'[b] = "initiated" /\ UNCHANGED bookings
        /\ \A o \in Bids \ {b} : payStatus'[o] = payStatus[o]
        /\ \A o \in Bids : acceptedAt'[o] = acceptedAt[o]
    BY <1>1, <1>3, <2>1, CommitPayment
  <2>3. \A o \in Bids \ {b} : Stage(o)' = Stage(o)
    BY <2>2 DEF Stage, Booked
  <2>4. Stage(b) = "accepted" /\ Stage(b)' = "invoiced"
    BY <1>1, <2>1, <2>2 DEF Stage, Booked, TablesInv, FlowInv
  <2>5. Flow!Invoice(b)
    BY <2>3, <2>4, Advances DEF Flow!Invoice
  <2>6. QED
    BY <2>5 DEF Flow!Next
<1>4. ASSUME NEW b \in Bids, View!ConfirmBidPayment(b)
      PROVE  [Flow!Next]_[o \in Bids |-> Stage(o)]
  <2>1. /\ payStatus[b] # "none" /\ payStatus'[b] = "confirmed" /\ Booked(b)'
        /\ \A o \in Bids \ {b} : payStatus'[o] = payStatus[o] /\ (Booked(o)' <=> Booked(o))
        /\ \A o \in Bids : acceptedAt'[o] = acceptedAt[o]
    BY <1>1, <1>4, CommitConfirmation
  <2>2. \A o \in Bids \ {b} : Stage(o)' = Stage(o)
    BY <2>1 DEF Stage
  <2>3. Stage(b)' = "booked"
    BY <2>1 DEF Stage
  <2>4. CASE payStatus[b] = "initiated"
    <3>1. Stage(b) = "invoiced"
      BY <1>1, <2>4 DEF Stage, TablesInv, FlowInv
    <3>2. Flow!Book(b)
      BY <2>2, <2>3, <3>1, Advances DEF Flow!Book
    <3>3. QED
      BY <3>2 DEF Flow!Next
  <2>5. CASE payStatus[b] = "confirmed"
    <3>1. Stage(b) = "booked"
      BY <1>1, <2>5 DEF Stage, TablesInv, FlowInv
    <3>2. QED
      BY <2>2, <2>3, <3>1
  <2>6. QED
    BY <1>1, <2>1, <2>4, <2>5 DEF TablesInv, TypeOK, PaymentStatuses
<1>5. ASSUME \A b \in Bids : /\ payStatus'[b] = payStatus[b]
                             /\ acceptedAt'[b] = acceptedAt[b],
             UNCHANGED bookings
      PROVE  [Flow!Next]_[o \in Bids |-> Stage(o)]
  <2>1. \A o \in Bids : Stage(o)' = Stage(o)
    BY <1>5 DEF Stage, Booked
  <2>2. QED
    BY <2>1
<1>6. ASSUME NEW l \in Leads,
             \/ name = "update_lead" /\ \E s \in Stays : View!UpdateLead(l, s)
             \/ name = "update_lead_status" /\ View!UpdateLeadStatus(l)
      PROVE  UNCHANGED <<vPayStatus, vAcceptedAt, vBookings>>
  BY <1>1, <1>6, SlowLead DEF OldRows
<1>7. ASSUME NEW b \in Bids, NEW amount \in Rates, View!PlaceBid(b, amount)
      PROVE  UNCHANGED <<vPayStatus, vAcceptedAt, vBookings>>
  BY <1>1, <1>7, SlowPlaceBid DEF OldRows
<1>8. ASSUME UNCHANGED <<vPayStatus, vAcceptedAt, vBookings>>
      PROVE  [Flow!Next]_[o \in Bids |-> Stage(o)]
  BY <1>1, <1>5, <1>8 DEF CellsMerged, Cell, MergeRows
<1>9. QED
  BY <1>1, <1>2, <1>3, <1>4, <1>6, <1>7, <1>8, HandlerCases

\* No race skips or undoes a stage of accept, invoice, booking.
THEOREM RacesRefinePaymentFlow == SpecR => ImplementsPaymentFlow
<1>1. InitR => Flow!Init
  BY DEF InitR, Init, Flow!Init, Stage, Booked
<1>2. RaceInv /\ [NextR]_allVars => [Flow!Next]_[b \in Bids |-> Stage(b)]
  <2> SUFFICES ASSUME RaceInv, [NextR]_allVars
               PROVE  [Flow!Next]_[b \in Bids |-> Stage(b)]
    OBVIOUS
  <2>1. CASE Meanwhile \/ Begin \/ Leave \/ UNCHANGED allVars
    <3>1. [Next]_vars
      BY <2>1 DEF Meanwhile, Begin, Leave, allVars
    <3>2. QED
      BY <3>1, StepRefines DEF RaceInv, TablesInv
  <2>2. ASSUME NEW name \in SlowHandlers, Commit(name)
        PROVE  [Flow!Next]_[b \in Bids |-> Stage(b)]
    BY <2>2, CommitRefines
  <2>3. QED
    BY <2>1, <2>2 DEF NextR
<1>3. QED
  BY <1>1, <1>2, RowsInOrder, PTL DEF SpecR, ImplementsPaymentFlow, Flow!Spec

--------------------------------------------------------------------------------
(***************************************************************************)
(* Quotas.  The handlers count stamps, the record says what happened.  The *)
(* two are related by QuotaInv: a bid was placed in the month of its       *)
(* created_at and never before, and it was not accepted after accepted_at. *)
(* So what is new in a month, or was accepted in it, is among the rows     *)
(* that the handlers count.                                                *)
(***************************************************************************)
Created == {b \in Bids : createdAt[b] # 0}
Accepted == {b \in Bids : acceptedAt[b] # 0}
NewIn(a, month) == PlacedIn(a, month) \ PlacedBefore(month)

PlacedInv ==
  /\ IsFiniteSet(Created)
  /\ \A b \in Bids : bidStatus[b] # "none" =>
       /\ createdAt[b] \in 1 .. today
       /\ <<b, Month(createdAt[b])>> \in placed
  /\ \A b \in Bids, month \in Months : <<b, month>> \in placed =>
       bidStatus[b] # "none" /\ Month(createdAt[b]) <= month

GrantedInv ==
  /\ IsFiniteSet(Accepted)
  /\ \A b \in Bids, month \in Months : <<b, month>> \in granted =>
       acceptedAt[b] \in 1 .. today /\ month <= Month(acceptedAt[b])

QuotaInv == PlacedInv /\ GrantedInv /\ NewBidsWithinPlan /\ AcceptancesWithinPlan

LEMMA DivisionIsMonotone ==
  ASSUME NEW m \in Nat \ {0}, NEW i \in Int, NEW j \in Int, i <= j
  PROVE  i \div m <= j \div m
<1> DEFINE x == i \div m
           y == j \div m
<1>1. x \in Int /\ y \in Int /\ i = m * x + (i % m) /\ j = m * y + (j % m)
  OBVIOUS
<1>2. i % m \in 0 .. (m - 1) /\ j % m \in 0 .. (m - 1)
  OBVIOUS
<1>3. QED
  BY <1>1, <1>2

\* Months are numbers, and follow the days.
LEMMA MonthsAreOrdered ==
  /\ \A day \in Days : Month(day) \in Int /\ Month(day) \in Months
  /\ Months \subseteq Int
  /\ \A d, e \in Days : d <= e => Month(d) <= Month(e)
<1>1. ASSUME NEW d \in Days PROVE Month(d) \in Int /\ Month(d) \in Months
  BY DatesAssumption DEF Month, Months, Days
<1>2. ASSUME NEW d \in Days, NEW e \in Days, d <= e PROVE Month(d) <= Month(e)
  <2>1. d - 1 \in Int /\ e - 1 \in Int /\ d - 1 <= e - 1
    BY <1>2 DEF Days
  <2>2. QED
    BY <2>1, DivisionIsMonotone, DatesAssumption DEF Month
<1>3. QED
  BY <1>1, <1>2 DEF Months

\* The limits are numbers, where there are any.
LEMMA Limits ==
  /\ \A a \in Agents : BidLimit[a] # NoLimit => BidLimit[a] \in Nat
  /\ \A m \in Managers : AcceptLimit[m] # NoLimit => AcceptLimit[m] \in Nat
BY LimitAssumption

\* A part of what is within a plan is, and one bid more than what the guard of the
\* handlers lets pass.
LEMMA PartWithinPlan ==
  ASSUME NEW limit \in Nat \cup {NoLimit}, NEW T, IsFiniteSet(T), WithinPlan(limit, T),
         NEW S, S \subseteq T
  PROVE  WithinPlan(limit, S)
<1>1. Cardinality(S) \in Nat /\ Cardinality(T) \in Nat /\ Cardinality(S) <= Cardinality(T)
  BY FS_Subset, FS_CardinalityType
<1>2. QED
  BY <1>1 DEF WithinPlan

LEMMA OneMoreWithinPlan ==
  ASSUME NEW limit \in Nat \cup {NoLimit}, NEW T, IsFiniteSet(T), Within(limit, T),
         NEW b, NEW S, S \subseteq T \cup {b}
  PROVE  WithinPlan(limit, S)
<1>1. /\ IsFiniteSet(T \cup {b})
      /\ Cardinality(T \cup {b}) = IF b \in T THEN Cardinality(T) ELSE Cardinality(T) + 1
  BY FS_AddElement, Zenon
<1>2. /\ Cardinality(S) \in Nat /\ Cardinality(T) \in Nat
      /\ Cardinality(S) <= Cardinality(T \cup {b})
  BY <1>1, FS_Subset, FS_CardinalityType
<1>3. QED
  BY <1>1, <1>2 DEF WithinPlan, Within

\* Every step that places no bid and accepts none.
Unstamped ==
  /\ UNCHANGED <<createdAt, acceptedAt>>
  /\ PlacedNow = {} /\ GrantedNow = {}
  /\ \A b \in Bids : bidStatus'[b] = "none" <=> bidStatus[b] = "none"
  /\ today <= today'

LEMMA StepsWithStamps ==
  ASSUME TypeOK, PriceInv, [Next]_vars
  PROVE  \/ Unstamped
         \/ \E b \in Bids, amount \in Rates : PlaceBid(b, amount)
         \/ \E b \in Bids : AcceptBid(b) \/ AcceptCounter(b)
<1>0. today <= today
  BY DEF TypeOK, Days
<1>1. ASSUME NEW b \in Bids, BidStep(b), ~ (AcceptBid(b) \/ AcceptCounter(b)),
             \A amount \in Rates : ~ PlaceBid(b, amount)
      PROVE  Unstamped
  <2>1. ASSUME NEW s \in {"withdrawn", "rejected"},
               ClosePendingBid(b, s) \/ RollBackAcceptedBid(b, s),
               UNCHANGED <<createdAt, acceptedAt, today>>
        PROVE  Unstamped
    BY <1>0, <2>1 DEF ClosePendingBid, RollBackAcceptedBid, ReviveHeldBids, Rivals, Unstamped,
                      PlacedNow, GrantedNow, TypeOK
  <2>2. ASSUME UNCHANGED <<bidStatus, createdAt, acceptedAt, today>> PROVE Unstamped
    BY <1>0, <2>2 DEF Unstamped, PlacedNow, GrantedNow
  <2>3. CASE DeclineCounter(b)
    <3>1. bidStatus[b] # "none"
      BY <2>3 DEF DeclineCounter, PriceInv
    <3>2. QED
      BY <1>0, <2>3, <3>1 DEF DeclineCounter, Unstamped, PlacedNow, GrantedNow, TypeOK
  <2>4. CASE ConfirmBidPayment(b)
    BY <1>0, <2>4 DEF ConfirmBidPayment, LosingStatuses, Unstamped, PlacedNow, GrantedNow, TypeOK
  <2>5. QED
    BY <1>1, <2>1, <2>2, <2>3, <2>4 DEF BidStep, WithdrawBid, RejectBid, CounterBid,
                                        CreateBidPayment, bidVars
<1>2. CASE ExpireOverdueLeads
  BY <1>0, <1>2 DEF ExpireOverdueLeads, OverdueBids, Unstamped, PlacedNow, GrantedNow
<1>3. CASE ~ ExpireOverdueLeads /\ ~ \E b \in Bids : BidStep(b)
  <2>1. UNCHANGED <<bidStatus, createdAt, acceptedAt>> /\ today <= today'
    BY <1>0, <1>3 DEF Next, vars, LeadStep, CreateLead, UpdateLead, UpdateLeadStatus, Rematch,
                ListingStep, Publish, SetActive, CloseProperty, UpdateProperty, CreateBlock,
                DeleteBlock, ListLeads, Tick, bidVars, TypeOK, Days
  <2>2. QED
    BY <2>1 DEF Unstamped, PlacedNow, GrantedNow
<1>4. QED
  BY <1>1, <1>2, <1>3

\* What the two records gain in the steps that stamp.
LEMMA PlaceBidRecord ==
  ASSUME TypeOK, NEW b \in Bids, NEW amount \in Rates, PlaceBid(b, amount)
  PROVE  /\ PlacedNow = {b} /\ GrantedNow = {}
         /\ UNCHANGED <<acceptedAt, today>>
         /\ createdAt'[b] = IF bidStatus[b] = "none" THEN today ELSE createdAt[b]
         /\ bidStatus'[b] = "pending"
         /\ \A o \in Bids \ {b} : bidStatus'[o] = bidStatus[o] /\ createdAt'[o] = createdAt[o]
         /\ Within(BidLimit[AgentOf[LeadOf(b)]], BidsThisMonth(AgentOf[LeadOf(b)]))
<1>1. /\ bidStatus[b] \in {"none", "withdrawn"} /\ bidStatus'[b] = "pending"
      /\ \A o \in Bids \ {b} : bidStatus'[o] = bidStatus[o]
  BY DEF PlaceBid, TypeOK
<1>2. /\ createdAt'[b] = IF bidStatus[b] = "none" THEN today ELSE createdAt[b]
      /\ \A o \in Bids \ {b} : createdAt'[o] = createdAt[o]
      /\ UNCHANGED <<acceptedAt, today>>
  BY DEF PlaceBid, TypeOK
<1>3. PlacedNow = {b}
  BY <1>1 DEF PlacedNow
<1>4. GrantedNow = {}
  BY <1>1 DEF GrantedNow
<1>5. QED
  BY <1>1, <1>2, <1>3, <1>4 DEF PlaceBid

LEMMA AcceptRecord ==
  ASSUME TypeOK, NEW b \in Bids, AcceptBid(b) \/ AcceptCounter(b)
  PROVE  /\ PlacedNow = {}
         /\ GrantedNow = {} \/ /\ GrantedNow = {b}
                               /\ Within(AcceptLimit[ManagerOf[PropertyOf(b)]],
                                         AcceptsThisMonth(ManagerOf[PropertyOf(b)]))
         /\ UNCHANGED <<createdAt, today>>
         /\ acceptedAt'[b] = today
         /\ \A o \in Bids \ {b} : acceptedAt'[o] = acceptedAt[o]
         /\ \A o \in Bids : bidStatus'[o] = "none" <=> bidStatus[o] = "none"
<1>1. /\ bidStatus[b] = "pending" /\ bidStatus' = HoldRivals(b)
      /\ acceptedAt' = [acceptedAt EXCEPT ![b] = today]
      /\ UNCHANGED <<createdAt, today>>
  BY DEF AcceptBid, AcceptCounter, CounterOpen, AcceptFlow
<1>2. /\ bidStatus'[b] = "accepted"
      /\ \A o \in Bids \ {b} :
           \/ bidStatus'[o] = bidStatus[o]
           \/ bidStatus[o] = "pending" /\ bidStatus'[o] = "on_hold"
  BY <1>1 DEF HoldRivals, Rivals
<1>3. PlacedNow = {} /\ GrantedNow \subseteq {b}
  BY <1>1, <1>2 DEF PlacedNow, GrantedNow
<1>4. \A o \in Bids : bidStatus'[o] = "none" <=> bidStatus[o] = "none"
  BY <1>1, <1>2
<1>5. acceptedAt'[b] = today /\ \A o \in Bids \ {b} : acceptedAt'[o] = acceptedAt[o]
  BY <1>1 DEF TypeOK
<1>6. CASE AcceptBid(b)
  BY <1>1, <1>3, <1>4, <1>5, <1>6 DEF AcceptBid
<1>7. CASE AcceptCounter(b)
  <2>1. counteredAmount'[b] # counteredAmount[b]
    BY <1>7 DEF AcceptCounter, CounterOpen, TypeOK
  <2>2. GrantedNow = {}
    BY <1>3, <2>1 DEF GrantedNow
  <2>3. QED
    BY <1>1, <1>3, <1>4, <1>5, <2>2
<1>8. QED
  BY <1>6, <1>7

\* What is new in the present month is among what the handlers count.
LEMMA NewIsCounted ==
  ASSUME TypeOK, PlacedInv, NEW a \in Agents
  PROVE  NewIn(a, Month(today)) \subseteq BidsThisMonth(a)
<1> SUFFICES ASSUME NEW b \in Bids, AgentOf[LeadOf(b)] = a, <<b, Month(today)>> \in placed,
                    b \notin PlacedBefore(Month(today))
             PROVE  ThisMonth(createdAt[b])
  BY DEF NewIn, PlacedIn, BidsThisMonth
<1>1. today \in Days /\ Month(today) \in Months
  BY MonthsAreOrdered DEF TypeOK
<1>2. createdAt[b] \in 1 .. today /\ <<b, Month(createdAt[b])>> \in placed
  BY <1>1 DEF PlacedInv
<1>3. createdAt[b] \in Days /\ Month(createdAt[b]) \in Months /\ Month(createdAt[b]) \in Int
  BY <1>1, <1>2, MonthsAreOrdered, DatesAssumption DEF Days
<1>4. Month(createdAt[b]) <= Month(today) /\ Month(today) \in Int
  BY <1>1, <1>2, <1>3, MonthsAreOrdered
<1>5. ~ Month(createdAt[b]) < Month(today)
  BY <1>2, <1>3 DEF PlacedBefore
<1>6. Month(createdAt[b]) = Month(today)
  BY <1>3, <1>4, <1>5
<1>7. QED
  BY <1>2, <1>6 DEF ThisMonth, Month

LEMMA GrantedIsCounted ==
  ASSUME TypeOK, GrantedInv, NEW m \in Managers
  PROVE  GrantedIn(m, Month(today)) \subseteq AcceptsThisMonth(m)
<1> SUFFICES ASSUME NEW b \in Bids, ManagerOf[PropertyOf(b)] = m,
                    <<b, Month(today)>> \in granted
             PROVE  ThisMonth(acceptedAt[b])
  BY DEF GrantedIn, AcceptsThisMonth
<1>1. today \in Days /\ Month(today) \in Months
  BY MonthsAreOrdered DEF TypeOK
<1>2. acceptedAt[b] \in 1 .. today /\ Month(today) <= Month(acceptedAt[b])
  BY <1>1 DEF GrantedInv
<1>3. acceptedAt[b] \in Days
  BY <1>1, <1>2, DatesAssumption DEF Days
<1>4. Month(acceptedAt[b]) <= Month(today)
  BY <1>1, <1>2, <1>3, MonthsAreOrdered
<1>5. Month(acceptedAt[b]) = Month(today)
  BY <1>1, <1>2, <1>3, <1>4, MonthsAreOrdered
<1>6. QED
  BY <1>2, <1>5 DEF ThisMonth, Month

\* What is placed and granted has a stamp, so there is finitely much of it.
LEMMA RecordsAreFinite ==
  ASSUME TypeOK, PlacedInv, GrantedInv, NEW month \in Months
  PROVE  /\ \A a \in Agents : /\ IsFiniteSet(NewIn(a, month))
                              /\ IsFiniteSet(BidsThisMonth(a))
         /\ \A m \in Managers : /\ IsFiniteSet(GrantedIn(m, month))
                                /\ IsFiniteSet(AcceptsThisMonth(m))
<1>1. \A day \in 1 .. today : day # 0
  BY DEF TypeOK, Days
<1>2. ASSUME NEW a \in Agents
      PROVE  NewIn(a, month) \subseteq Created /\ BidsThisMonth(a) \subseteq Created
  BY <1>1 DEF NewIn, PlacedIn, BidsThisMonth, ThisMonth, Created, PlacedInv
<1>3. ASSUME NEW m \in Managers
      PROVE  GrantedIn(m, month) \subseteq Accepted /\ AcceptsThisMonth(m) \subseteq Accepted
  BY <1>1 DEF GrantedIn, AcceptsThisMonth, ThisMonth, Accepted, GrantedInv
<1>4. QED
  BY <1>2, <1>3, FS_Subset DEF PlacedInv, GrantedInv

\* The relation of record and stamps, step by step.
LEMMA PlacedInvStep ==
  ASSUME TypeOK, TypeOK', PriceInv, PlacedInv, Next,
         placed' = placed \cup (PlacedNow \X {Month(today)})
  PROVE  PlacedInv'
<1>1. today \in Days /\ today' \in Days /\ Month(today) \in Months /\ Month(today) \in Int
  BY MonthsAreOrdered DEF TypeOK
<1>2. CASE Unstamped
  <2>1. placed' = placed /\ createdAt' = createdAt /\ today <= today'
    BY <1>2 DEF Unstamped
  <2>2. 1 .. today \subseteq 1 .. today'
    BY <1>1, <2>1 DEF Days
  <2>3. QED
    BY <1>2, <2>1, <2>2 DEF Unstamped, PlacedInv, Created
<1>3. ASSUME NEW b \in Bids, AcceptBid(b) \/ AcceptCounter(b) PROVE PlacedInv'
  <2>1. /\ placed' = placed /\ UNCHANGED <<createdAt, today>>
        /\ \A o \in Bids : bidStatus'[o] = "none" <=> bidStatus[o] = "none"
    BY <1>3, AcceptRecord
  <2>2. QED
    BY <2>1 DEF PlacedInv, Created
<1>4. ASSUME NEW b \in Bids, NEW amount \in Rates, PlaceBid(b, amount) PROVE PlacedInv'
  <2>1. /\ placed' = placed \cup {<<b, Month(today)>>} /\ today' = today
        /\ createdAt'[b] = IF bidStatus[b] = "none" THEN today ELSE createdAt[b]
        /\ bidStatus'[b] = "pending"
        /\ \A o \in Bids \ {b} : bidStatus'[o] = bidStatus[o] /\ createdAt'[o] = createdAt[o]
    BY <1>4, PlaceBidRecord
  <2>2. Created' \subseteq Created \cup {b}
    BY <2>1 DEF Created
  <2>3. IsFiniteSet(Created')
    BY <2>2, FS_Singleton, FS_Union, FS_Subset DEF PlacedInv
  <2>4. createdAt'[b] \in 1 .. today /\ <<b, Month(createdAt'[b])>> \in placed'
    BY <1>1, <2>1 DEF PlacedInv, Days
  <2>5. Month(createdAt'[b]) <= Month(today)
    <3>1. createdAt'[b] \in Days /\ createdAt'[b] <= today
      BY <1>1, <2>4, DatesAssumption DEF Days
    <3>2. QED
      BY <1>1, <3>1, MonthsAreOrdered
  <2>6. ASSUME NEW month \in Months, <<b, month>> \in placed
        PROVE  Month(createdAt'[b]) <= month
    BY <2>1, <2>6 DEF PlacedInv
  <2>7. ASSUME NEW o \in Bids \ {b}
        PROVE  /\ bidStatus'[o] # "none" => /\ createdAt'[o] \in 1 .. today'
                                            /\ <<o, Month(createdAt'[o])>> \in placed'
               /\ \A month \in Months : <<o, month>> \in placed' =>
                    bidStatus'[o] # "none" /\ Month(createdAt'[o]) <= month
    BY <2>1 DEF PlacedInv
  <2>8. \A month \in Months : <<b, month>> \in placed' => Month(createdAt'[b]) <= month
    BY <2>1, <2>5, <2>6
  <2>9. QED
    BY <2>1, <2>3, <2>4, <2>7, <2>8 DEF PlacedInv
<1>5. QED
  BY <1>2, <1>3, <1>4, StepsWithStamps

LEMMA GrantedInvStep ==
  ASSUME TypeOK, TypeOK', PriceInv, GrantedInv, Next,
         granted' = granted \cup (GrantedNow \X {Month(today)})
  PROVE  GrantedInv'
<1>1. today \in Days /\ today' \in Days /\ Month(today) \in Months /\ Month(today) \in Int
  BY MonthsAreOrdered DEF TypeOK
<1>2. CASE UNCHANGED acceptedAt /\ GrantedNow = {} /\ today <= today'
  <2>1. 1 .. today \subseteq 1 .. today' /\ granted' = granted
    BY <1>1, <1>2 DEF Days
  <2>2. QED
    BY <1>2, <2>1 DEF GrantedInv, Accepted
<1>3. ASSUME NEW b \in Bids, AcceptBid(b) \/ AcceptCounter(b) PROVE GrantedInv'
  <2>1. /\ granted' = granted \/ granted' = granted \cup {<<b, Month(today)>>}
        /\ today' = today /\ acceptedAt'[b] = today
        /\ \A o \in Bids \ {b} : acceptedAt'[o] = acceptedAt[o]
    BY <1>3, AcceptRecord
  <2>2. Accepted' \subseteq Accepted \cup {b}
    BY <2>1 DEF Accepted
  <2>3. IsFiniteSet(Accepted')
    BY <2>2, FS_Singleton, FS_Union, FS_Subset DEF GrantedInv
  <2>4. ASSUME NEW month \in Months, <<b, month>> \in granted'
        PROVE  acceptedAt'[b] \in 1 .. today' /\ month <= Month(acceptedAt'[b])
    <3>1. acceptedAt'[b] \in 1 .. today'
      BY <1>1, <2>1 DEF Days
    <3>2. CASE month = Month(today)
      BY <1>1, <2>1, <3>1, <3>2
    <3>3. CASE <<b, month>> \in granted
      <4>1. acceptedAt[b] \in Days /\ acceptedAt[b] <= today /\ month <= Month(acceptedAt[b])
        BY <1>1, <3>3, DatesAssumption DEF GrantedInv, Days
      <4>2. Month(acceptedAt[b]) <= Month(today) /\ Month(acceptedAt[b]) \in Int /\ month \in Int
        BY <1>1, <4>1, MonthsAreOrdered
      <4>3. QED
        BY <1>1, <2>1, <3>1, <4>1, <4>2
    <3>4. QED
      BY <2>1, <2>4, <3>2, <3>3
  <2>5. ASSUME NEW o \in Bids \ {b}, NEW month \in Months, <<o, month>> \in granted'
        PROVE  acceptedAt'[o] \in 1 .. today' /\ month <= Month(acceptedAt'[o])
    BY <2>1, <2>5 DEF GrantedInv
  <2>6. QED
    BY <2>3, <2>4, <2>5 DEF GrantedInv
<1>4. ASSUME NEW b \in Bids, NEW amount \in Rates, PlaceBid(b, amount) PROVE GrantedInv'
  BY <1>1, <1>2, <1>4, PlaceBidRecord DEF Days
<1>5. QED
  BY <1>2, <1>3, <1>4, StepsWithStamps DEF Unstamped

\* In the steps that place or accept, the month at hand gains one bid of those the
\* handler counted; every other count of the record stays or falls.
LEMMA NewBidsStep ==
  ASSUME TypeOK, PriceInv, PlacedInv, GrantedInv, NewBidsWithinPlan, Next,
         placed' = placed \cup (PlacedNow \X {Month(today)})
  PROVE  NewBidsWithinPlan'
<1> SUFFICES ASSUME NEW a \in Agents, NEW month \in Months
             PROVE  WithinPlan(BidLimit[a], NewIn(a, month)')
  BY DEF NewBidsWithinPlan, WithinPlan, NewIn, Months, Month
<1>1. /\ BidLimit[a] \in Nat \cup {NoLimit}
      /\ IsFiniteSet(NewIn(a, month)) /\ IsFiniteSet(BidsThisMonth(a))
      /\ WithinPlan(BidLimit[a], NewIn(a, month))
  BY LimitAssumption, RecordsAreFinite DEF NewBidsWithinPlan, NewIn
<1>2. CASE NewIn(a, month)' \subseteq NewIn(a, month)
  BY <1>1, <1>2, PartWithinPlan
<1>3. CASE PlacedNow = {}
  <2>1. placed' = placed
    BY <1>3
  <2>2. NewIn(a, month)' = NewIn(a, month)
    BY <2>1 DEF NewIn, PlacedIn, PlacedBefore
  <2>3. QED
    BY <1>2, <2>2
<1>4. ASSUME NEW b \in Bids, NEW amount \in Rates, PlaceBid(b, amount)
      PROVE  WithinPlan(BidLimit[a], NewIn(a, month)')
  <2>1. placed' = placed \cup {<<b, Month(today)>>}
    BY <1>4, PlaceBidRecord
  <2>2. CASE AgentOf[LeadOf(b)] = a /\ month = Month(today)
    <3>1. NewIn(a, month)' \subseteq NewIn(a, month) \cup {b}
      BY <2>1 DEF NewIn, PlacedIn, PlacedBefore
    <3>2. NewIn(a, month)' \subseteq BidsThisMonth(a) \cup {b}
      BY <2>2, <3>1, NewIsCounted
    <3>3. Within(BidLimit[a], BidsThisMonth(a))
      BY <1>4, <2>2, PlaceBidRecord
    <3>4. QED
      BY <1>1, <3>2, <3>3, OneMoreWithinPlan
  <2>3. CASE ~ (AgentOf[LeadOf(b)] = a /\ month = Month(today))
    <3>1. NewIn(a, month)' \subseteq NewIn(a, month)
      BY <2>1, <2>3 DEF NewIn, PlacedIn, PlacedBefore
    <3>2. QED
      BY <1>2, <3>1
  <2>4. QED
    BY <2>2, <2>3
<1>5. QED
  BY <1>3, <1>4, StepsWithStamps, AcceptRecord DEF Unstamped

LEMMA AcceptancesStep ==
  ASSUME TypeOK, PriceInv, PlacedInv, GrantedInv, AcceptancesWithinPlan, Next,
         granted' = granted \cup (GrantedNow \X {Month(today)})
  PROVE  AcceptancesWithinPlan'
<1> SUFFICES ASSUME NEW m \in Managers, NEW month \in Months
             PROVE  WithinPlan(AcceptLimit[m], GrantedIn(m, month)')
  BY DEF AcceptancesWithinPlan, WithinPlan, Months, Month
<1>1. /\ AcceptLimit[m] \in Nat \cup {NoLimit}
      /\ IsFiniteSet(GrantedIn(m, month)) /\ IsFiniteSet(AcceptsThisMonth(m))
      /\ WithinPlan(AcceptLimit[m], GrantedIn(m, month))
  BY LimitAssumption, RecordsAreFinite DEF AcceptancesWithinPlan
<1>2. CASE GrantedIn(m, month)' \subseteq GrantedIn(m, month)
  BY <1>1, <1>2, PartWithinPlan
<1>3. CASE GrantedNow = {}
  <2>1. GrantedIn(m, month)' = GrantedIn(m, month)
    BY <1>3 DEF GrantedIn
  <2>2. QED
    BY <1>2, <2>1
<1>4. ASSUME NEW b \in Bids, AcceptBid(b) \/ AcceptCounter(b), GrantedNow # {}
      PROVE  WithinPlan(AcceptLimit[m], GrantedIn(m, month)')
  <2>1. /\ granted' = granted \cup {<<b, Month(today)>>}
        /\ Within(AcceptLimit[ManagerOf[PropertyOf(b)]],
                  AcceptsThisMonth(ManagerOf[PropertyOf(b)]))
    BY <1>4, AcceptRecord
  <2>2. CASE ManagerOf[PropertyOf(b)] = m /\ month = Month(today)
    <3>1. GrantedIn(m, month)' \subseteq GrantedIn(m, month) \cup {b}
      BY <2>1 DEF GrantedIn
    <3>2. GrantedIn(m, month)' \subseteq AcceptsThisMonth(m) \cup {b}
      BY <2>2, <3>1, GrantedIsCounted
    <3>3. QED
      BY <1>1, <2>1, <2>2, <3>2, OneMoreWithinPlan
  <2>3. CASE ~ (ManagerOf[PropertyOf(b)] = m /\ month = Month(today))
    <3>1. GrantedIn(m, month)' \subseteq GrantedIn(m, month)
      BY <2>1, <2>3 DEF GrantedIn
    <3>2. QED
      BY <1>2, <3>1
  <2>4. QED
    BY <2>2, <2>3
<1>5. QED
  BY <1>3, <1>4, StepsWithStamps, PlaceBidRecord DEF Unstamped

LEMMA NothingPlacedYet == InitQ => QuotaInv
<1> SUFFICES ASSUME InitQ PROVE QuotaInv
  OBVIOUS
<1>1. Created = {} /\ Accepted = {} /\ placed = {} /\ granted = {}
  BY DEF InitQ, Init, Created, Accepted
<1>2. \A b \in Bids : bidStatus[b] = "none"
  BY DEF InitQ, Init
<1>3. IsFiniteSet({}) /\ Cardinality({}) = 0
  BY FS_EmptySet
<1>4. PlacedInv /\ GrantedInv
  BY <1>1, <1>2, <1>3 DEF PlacedInv, GrantedInv
<1>5. \A month \in Months : /\ \A a \in Agents : PlacedIn(a, month) \ PlacedBefore(month) = {}
                            /\ \A m \in Managers : GrantedIn(m, month) = {}
  BY <1>1 DEF PlacedIn, GrantedIn
<1>6. NewBidsWithinPlan
  BY <1>3, <1>5, Limits DEF NewBidsWithinPlan, WithinPlan
<1>7. AcceptancesWithinPlan
  BY <1>3, <1>5, Limits DEF AcceptancesWithinPlan, WithinPlan
<1>8. QED
  BY <1>4, <1>6, <1>7 DEF QuotaInv

\* Record and stamps agree, and the plans are kept, in every reachable state.
THEOREM QuotaInvariant == SpecQ => []QuotaInv
<1>1. TypeOK /\ TypeOK' /\ PriceInv /\ QuotaInv /\ [NextQ]_quotaVars => QuotaInv'
  <2> SUFFICES ASSUME TypeOK, TypeOK', PriceInv, QuotaInv, [NextQ]_quotaVars
               PROVE  QuotaInv'
    OBVIOUS
  <2>1. CASE NextQ
    BY <2>1, PlacedInvStep, GrantedInvStep, NewBidsStep, AcceptancesStep DEF NextQ, QuotaInv
  <2>2. CASE UNCHANGED quotaVars
    <3>1. UNCHANGED <<bidStatus, createdAt, acceptedAt, today, placed, granted>>
      BY <2>2 DEF quotaVars, vars, bidVars
    <3>2. PlacedInv' /\ GrantedInv'
      BY <3>1 DEF QuotaInv, PlacedInv, GrantedInv, Created, Accepted
    <3>3. NewBidsWithinPlan' /\ AcceptancesWithinPlan'
      BY <3>1 DEF QuotaInv, NewBidsWithinPlan, AcceptancesWithinPlan, WithinPlan, PlacedIn,
                  PlacedBefore, GrantedIn
    <3>4. QED
      BY <3>2, <3>3 DEF QuotaInv
  <2>3. QED
    BY <2>1, <2>2
<1>2. InitQ /\ [][NextQ]_quotaVars => Init /\ [][Next]_vars
  <2>1. InitQ => Init
    BY DEF InitQ
  <2>2. [NextQ]_quotaVars => [Next]_vars
    BY DEF NextQ, quotaVars
  <2>3. QED
    BY <2>1, <2>2, PTL
<1>3. SpecQ => []TypeOK /\ []PriceInv
  BY <1>2, TypeCorrect, PriceInvariant, PTL DEF SpecQ, Spec
<1>4. QED
  BY <1>1, <1>3, NothingPlacedYet, PTL DEF SpecQ

\* In no month does an agent place more new bids than his plan allows, for every
\* calendar, every plan and any number of withdrawals in between.
THEOREM NewBidsKeepPlan == SpecQ => []NewBidsWithinPlan
<1>1. QuotaInv => NewBidsWithinPlan
  BY DEF QuotaInv
<1>2. QED
  BY <1>1, QuotaInvariant, PTL

\* In no month does a manager accept more bids than his plan allows, also when
\* accepted bids are given up and accepted again.
THEOREM AcceptancesKeepPlan == SpecQ => []AcceptancesWithinPlan
<1>1. QuotaInv => AcceptancesWithinPlan
  BY DEF QuotaInv
<1>2. QED
  BY <1>1, QuotaInvariant, PTL
================================================================================
