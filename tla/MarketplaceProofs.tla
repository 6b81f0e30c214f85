--------------------------- MODULE MarketplaceProofs ---------------------------
(***************************************************************************)
(* Theorems about the marketplace, for any set of leads, properties, users *)
(* and dates, any rates and any plan limits.                               *)
(***************************************************************************)
EXTENDS MarketplaceProperties, FiniteSetTheorems, TLAPS

--------------------------------------------------------------------------------
\* Bid rows belong to a lead and a property.
LEMMA BidParts ==
  ASSUME NEW b \in Bids
  PROVE  LeadOf(b) \in Leads /\ PropertyOf(b) \in Properties
BY DEF Bids, LeadOf, PropertyOf

\* The status updates shared by the handlers write statuses.
LEMMA StatusUpdates ==
  ASSUME TypeOK, NEW b \in Bids, NEW l \in Leads
  PROVE  /\ HoldRivals(b) \in [Bids -> BidStatuses]
         /\ \A s \in {"withdrawn", "rejected"} : ReviveHeldBids(b, s) \in [Bids -> BidStatuses]
         /\ WonLead(l) \in [Leads -> LeadStatuses]
         /\ RevertLeadToActive(l) \in [Leads -> LeadStatuses]
<1>1. HoldRivals(b) \in [Bids -> BidStatuses]
  BY DEF TypeOK, HoldRivals, BidStatuses
<1>2. ASSUME NEW s \in {"withdrawn", "rejected"}
      PROVE  ReviveHeldBids(b, s) \in [Bids -> BidStatuses]
  BY DEF TypeOK, ReviveHeldBids, BidStatuses
<1>3. WonLead(l) \in [Leads -> LeadStatuses]
  BY DEF TypeOK, WonLead, LeadStatuses
<1>4. RevertLeadToActive(l) \in [Leads -> LeadStatuses]
  BY DEF TypeOK, RevertLeadToActive, LeadStatuses
<1>5. QED
  BY <1>1, <1>2, <1>3, <1>4

--------------------------------------------------------------------------------
LEMMA InitTypeOK == Init => TypeOK
<1> SUFFICES ASSUME Init PROVE TypeOK
  OBVIOUS
<1>1. 0 \in Amounts /\ 0 \in Stamps /\ NoStay \in StaysOrNone /\ today \in Days
  BY DatesAssumption DEF Init, Amounts, Stamps, StaysOrNone, Days
<1>2. QED
  BY <1>1, MoneyAssumption
  DEF Init, TypeOK, LeadStatuses, BidStatuses, PaymentStatuses, PropertyStatuses

LEMMA LeadStepTypeOK ==
  ASSUME TypeOK, NEW l \in Leads, LeadStep(l)
  PROVE  TypeOK'
<1>1. \A s : {l} \X Candidates(l, s) \subseteq Bids
  BY DEF Candidates, Bids
<1>2. ASSUME NEW s \in Stays, CreateLead(l, s)
      PROVE  TypeOK'
  BY <1>1, <1>2 DEF CreateLead, TypeOK, LeadStatuses, StaysOrNone, bidVars, offerVars,
                    payVars, listingVars, rateVars
<1>3. ASSUME NEW s \in Stays, UpdateLead(l, s)
      PROVE  TypeOK'
  BY <1>1, <1>3 DEF UpdateLead, TypeOK, LeadStatuses, StaysOrNone, bidVars, offerVars,
                    payVars, listingVars, rateVars
<1>4. CASE UpdateLeadStatus(l)
  BY <1>4 DEF UpdateLeadStatus, TypeOK, LeadStatuses, bidVars, offerVars, payVars,
              listingVars, rateVars
<1>5. CASE Rematch(l)
  BY <1>1, <1>5 DEF Rematch, TypeOK, bidVars, offerVars, payVars, listingVars, rateVars
<1>6. QED
  BY <1>2, <1>3, <1>4, <1>5 DEF LeadStep

LEMMA BidStepTypeOK ==
  ASSUME TypeOK, NEW b \in Bids, BidStep(b)
  PROVE  TypeOK'
<1>1. LeadOf(b) \in Leads
  BY BidParts
<1>2. leadStay[LeadOf(b)] \in StaysOrNone /\ today \in Stamps /\ 0 \in Amounts
  BY <1>1 DEF TypeOK, Days, Stamps, Amounts
<1>3. ASSUME NEW amount \in Rates, PlaceBid(b, amount)
      PROVE  TypeOK'
  BY <1>2, <1>3
  DEF PlaceBid, TypeOK, BidStatuses, Amounts, leadVars, payVars, listingVars, rateVars
<1>4. ASSUME NEW amount \in Rates, CounterBid(b, amount)
      PROVE  TypeOK'
  BY <1>4 DEF CounterBid, TypeOK, Amounts, leadVars, payVars, listingVars, rateVars
<1>5. ASSUME NEW s \in {"withdrawn", "rejected"},
             ClosePendingBid(b, s) \/ RollBackAcceptedBid(b, s),
             UNCHANGED <<leadStay, matches, offerVars, acceptedAt, createdAt, payVars,
                         listingVars, today>>
      PROVE  TypeOK'
  <2>1. bidStatus' \in [Bids -> BidStatuses] /\ leadStatus' \in [Leads -> LeadStatuses]
    BY <1>1, <1>5, StatusUpdates
    DEF TypeOK, ClosePendingBid, RollBackAcceptedBid, BidStatuses
  <2>2. QED
    BY <1>5, <2>1 DEF TypeOK, offerVars, payVars, listingVars, rateVars
<1>6. CASE AcceptBid(b)
  BY <1>1, <1>2, <1>6, StatusUpdates
  DEF AcceptBid, AcceptFlow, TypeOK, offerVars, payVars, listingVars, rateVars
<1>7. CASE AcceptCounter(b)
  BY <1>1, <1>2, <1>7, StatusUpdates
  DEF AcceptCounter, AcceptFlow, TypeOK, payVars, listingVars, rateVars
<1>8. CASE DeclineCounter(b)
  BY <1>2, <1>8
  DEF DeclineCounter, TypeOK, BidStatuses, leadVars, payVars, listingVars, rateVars
<1>9. CASE CreateBidPayment(b)
  BY <1>9 DEF CreateBidPayment, TypeOK, PaymentStatuses, leadVars, bidVars, offerVars,
              listingVars, rateVars
<1>10. CASE ConfirmBidPayment(b)
  <2>1. BookingOf(b) \in Bookings
    BY DEF TypeOK, BookingOf, Bookings
  <2>2. bookings' \subseteq Bookings
    BY <1>10, <2>1 DEF TypeOK, ConfirmBidPayment
  <2>3. bidStatus' \in [Bids -> BidStatuses]
    BY <1>10 DEF TypeOK, ConfirmBidPayment, BidStatuses
  <2>4. payStatus' \in [Bids -> PaymentStatuses]
    BY <1>10 DEF TypeOK, ConfirmBidPayment, PaymentStatuses
  <2>5. QED
    BY <1>10, <2>2, <2>3, <2>4
    DEF ConfirmBidPayment, TypeOK, leadVars, offerVars, listingVars, rateVars
<1>11. QED
  BY <1>3, <1>4, <1>5, <1>6, <1>7, <1>8, <1>9, <1>10 DEF BidStep, WithdrawBid, RejectBid

LEMMA ListingStepTypeOK ==
  ASSUME TypeOK, NEW p \in Properties, ListingStep(p)
  PROVE  TypeOK'
<1>1. ASSUME Publish(p) \/ CloseProperty(p) \/ \E s \in {"active", "inactive"} : SetActive(p, s)
      PROVE  TypeOK'
  BY <1>1 DEF Publish, CloseProperty, SetActive, TypeOK, PropertyStatuses, leadVars,
              bidVars, offerVars, payVars, rateVars
<1>2. ASSUME NEW r \in BlockRanges, CreateBlock(p, r)
      PROVE  TypeOK'
  BY <1>2 DEF CreateBlock, TypeOK, Blocks, leadVars, bidVars, offerVars, payVars, rateVars
<1>3. ASSUME NEW s \in PropertyStatuses, NEW rate \in NewRates \cup {b2bRate[p]},
             UpdateProperty(p, s, rate)
      PROVE  TypeOK'
  <2>1. rate \in Nat
    BY MoneyAssumption DEF TypeOK
  <2>2. QED
    BY <1>3, <2>1 DEF UpdateProperty, TypeOK, leadVars, bidVars, offerVars, payVars
<1>4. QED
  BY <1>1, <1>2, <1>3 DEF ListingStep

LEMMA JobStepTypeOK ==
  ASSUME TypeOK, ListLeads \/ ExpireOverdueLeads \/ Tick
  PROVE  TypeOK'
<1>1. CASE ListLeads
  BY <1>1 DEF ListLeads, TypeOK, LeadStatuses, bidVars, offerVars, payVars,
              listingVars, rateVars
<1>2. CASE ExpireOverdueLeads
  BY <1>2 DEF ExpireOverdueLeads, TypeOK, LeadStatuses, BidStatuses, offerVars, payVars,
              listingVars, rateVars
<1>3. CASE Tick
  <2>1. today' \in Days
    BY <1>3, DatesAssumption DEF Tick, TypeOK, Days
  <2>2. QED
    BY <1>3, <2>1
    DEF Tick, TypeOK, leadVars, bidVars, offerVars, payVars, listingVars, rateVars
<1>4. QED
  BY <1>1, <1>2, <1>3

LEMMA NextTypeOK == TypeOK /\ [Next]_vars => TypeOK'
<1> SUFFICES ASSUME TypeOK, [Next]_vars PROVE TypeOK'
  OBVIOUS
<1>1. CASE UNCHANGED vars
  BY <1>1 DEF TypeOK, vars, leadVars, bidVars, offerVars, payVars, listingVars, rateVars
<1>2. ASSUME NEW k \in blocks, DeleteBlock(k)
      PROVE  TypeOK'
  BY <1>2 DEF DeleteBlock, TypeOK, leadVars, bidVars, offerVars, payVars, rateVars
<1>3. QED
  BY <1>1, <1>2, LeadStepTypeOK, BidStepTypeOK, ListingStepTypeOK, JobStepTypeOK,
     ScopeAssumption DEF Next

\* Whatever the handlers and the job do, in any order, every column keeps a
\* value of its type.
THEOREM TypeCorrect == Spec => []TypeOK
<1>1. Init => TypeOK
  BY InitTypeOK
<1>2. TypeOK /\ [Next]_vars => TypeOK'
  BY NextTypeOK
<1>3. QED
  BY <1>1, <1>2, PTL DEF Spec

--------------------------------------------------------------------------------
(***************************************************************************)
(* BookedLeadIsSettled is inductive given types: only place_bid brings a   *)
(* bid to life, and it looks for a booking first; only confirm_bid_payment *)
(* makes a booking, and it rejects the lead's other live bids.             *)
(***************************************************************************)

\* Every step but those two.
QuietStep ==
  /\ bookings' = bookings
  /\ \A b \in Bids : bidStatus'[b] \in Live => bidStatus[b] \in Live

LEMMA LeadAndJobStepsQuiet ==
  ASSUME TypeOK,
         \/ \E l \in Leads : LeadStep(l)
         \/ \E p \in Properties : ListingStep(p)
         \/ \E k \in blocks : DeleteBlock(k)
         \/ ListLeads
         \/ ExpireOverdueLeads
         \/ Tick
  PROVE  QuietStep
<1>1. CASE ExpireOverdueLeads
  BY <1>1 DEF ExpireOverdueLeads, QuietStep, payVars, Live
<1>2. CASE ~ ExpireOverdueLeads
  <2>1. bidStatus' = bidStatus /\ bookings' = bookings
    BY <1>2 DEF LeadStep, CreateLead, UpdateLead, UpdateLeadStatus, Rematch, ListingStep,
                Publish, SetActive, CloseProperty, UpdateProperty, CreateBlock, DeleteBlock, ListLeads,
                Tick, bidVars, payVars
  <2>2. QED
    BY <2>1 DEF QuietStep
<1>3. QED
  BY <1>1, <1>2

LEMMA BidStepQuiet ==
  ASSUME TypeOK, NEW b \in Bids, BidStep(b),
         ~ ConfirmBidPayment(b),
         \A amount \in Rates : ~ PlaceBid(b, amount)
  PROVE  QuietStep
<1>1. ASSUME NEW s \in {"withdrawn", "rejected"},
             ClosePendingBid(b, s) \/ RollBackAcceptedBid(b, s), UNCHANGED payVars
      PROVE  QuietStep
  BY <1>1 DEF ClosePendingBid, RollBackAcceptedBid, ReviveHeldBids, Rivals, QuietStep,
              TypeOK, Live, payVars
<1>2. ASSUME bidStatus[b] = "pending", AcceptFlow(b), UNCHANGED payVars
      PROVE  QuietStep
  BY <1>2 DEF AcceptFlow, HoldRivals, Rivals, QuietStep, TypeOK, Live, payVars
<1>3. CASE DeclineCounter(b)
  BY <1>3 DEF DeclineCounter, QuietStep, TypeOK, Live, payVars
<1>4. ASSUME NEW amount \in Rates, CounterBid(b, amount)
      PROVE  QuietStep
  BY <1>4 DEF CounterBid, QuietStep, payVars
<1>5. CASE CreateBidPayment(b)
  BY <1>5 DEF CreateBidPayment, QuietStep, bidVars
<1>6. QED
  BY <1>1, <1>2, <1>3, <1>4, <1>5
  DEF BidStep, WithdrawBid, RejectBid, AcceptBid, AcceptCounter, CounterOpen

LEMMA QuietStepSettled ==
  ASSUME BookedLeadIsSettled, QuietStep
  PROVE  BookedLeadIsSettled'
BY DEF BookedLeadIsSettled, QuietStep, Booked, BidsOfLead

LEMMA PlaceBidSettled ==
  ASSUME TypeOK, BookedLeadIsSettled, NEW b \in Bids, NEW amount \in Rates,
         PlaceBid(b, amount)
  PROVE  BookedLeadIsSettled'
<1> SUFFICES ASSUME NEW k \in bookings',
                    NEW c \in BidsOfLead(LeadOf(k.bid)), NEW d \in BidsOfLead(LeadOf(k.bid))
             PROVE  /\ bidStatus'[c] \in Live => Booked(c)'
                    /\ bidStatus'[c] \in Live /\ bidStatus'[d] \in Live => c = d
  BY DEF BookedLeadIsSettled, BidsOfLead
<1>1. bookings' = bookings /\ k \in bookings
  BY DEF PlaceBid, payVars
<1>2. \A o \in Bids : o # b => bidStatus'[o] = bidStatus[o]
  BY DEF PlaceBid, TypeOK
<1>3. LeadOf(b) # LeadOf(k.bid)
  BY <1>1 DEF PlaceBid, LeadBooked
<1>4. c # b /\ d # b /\ c \in Bids /\ d \in Bids
  BY <1>3 DEF BidsOfLead
<1>5. QED
  BY <1>1, <1>2, <1>4 DEF BookedLeadIsSettled, Booked

\* A confirmed bid is booked, and nothing but its booking is new.
LEMMA ConfirmBookings ==
  ASSUME NEW b \in Bids, ConfirmBidPayment(b)
  PROVE  /\ bookings \subseteq bookings'
         /\ bookings' \subseteq bookings \cup {BookingOf(b)}
         /\ Booked(b)'
<1>1. CASE \E k \in bookings : k.bid = b
  <2>1. bookings' = bookings
    BY <1>1 DEF ConfirmBidPayment
  <2>2. QED
    BY <1>1, <2>1 DEF Booked
<1>2. CASE ~ \E k \in bookings : k.bid = b
  <2>1. bookings' = bookings \cup {BookingOf(b)}
    BY <1>2 DEF ConfirmBidPayment
  <2>2. BookingOf(b) \in bookings' /\ BookingOf(b).bid = b
    BY <2>1 DEF BookingOf
  <2>3. Booked(b)'
    BY <2>2 DEF Booked
  <2>4. QED
    BY <2>1, <2>3
<1>3. QED
  BY <1>1, <1>2

LEMMA ConfirmSettled ==
  ASSUME TypeOK, BookedLeadIsSettled, NEW b \in Bids, ConfirmBidPayment(b)
  PROVE  BookedLeadIsSettled'
<1> SUFFICES ASSUME NEW k \in bookings',
                    NEW c \in BidsOfLead(LeadOf(k.bid)), NEW d \in BidsOfLead(LeadOf(k.bid))
             PROVE  /\ bidStatus'[c] \in Live => Booked(c)'
                    /\ bidStatus'[c] \in Live /\ bidStatus'[d] \in Live => c = d
  BY DEF BookedLeadIsSettled, BidsOfLead
<1>1. c \in Bids /\ d \in Bids /\ LeadOf(c) = LeadOf(k.bid) /\ LeadOf(d) = LeadOf(k.bid)
  BY DEF BidsOfLead
<1>2. Booked(b)' /\ \A o : Booked(o) => Booked(o)'
  BY ConfirmBookings DEF Booked
<1>3. CASE LeadOf(k.bid) = LeadOf(b)
  <2>1. \A o \in {c, d} : bidStatus'[o] \in Live => o = b
    BY <1>1, <1>3 DEF ConfirmBidPayment, LosingStatuses, Live
  <2>2. QED
    BY <1>2, <2>1
<1>4. CASE LeadOf(k.bid) # LeadOf(b)
  <2>1. k \in bookings
    BY <1>4 DEF ConfirmBidPayment, BookingOf
  <2>2. \A o \in {c, d} : bidStatus'[o] = bidStatus[o]
    BY <1>1, <1>4 DEF ConfirmBidPayment
  <2>3. QED
    BY <1>2, <2>1, <2>2 DEF BookedLeadIsSettled
<1>5. QED
  BY <1>3, <1>4

LEMMA NextSettled ==
  ASSUME TypeOK, BookedLeadIsSettled, [Next]_vars
  PROVE  BookedLeadIsSettled'
<1>1. CASE UNCHANGED vars
  BY <1>1, QuietStepSettled DEF vars, bidVars, payVars, QuietStep
<1>2. ASSUME NEW b \in Bids, BidStep(b)
      PROVE  BookedLeadIsSettled'
  BY <1>2, BidStepQuiet, QuietStepSettled, PlaceBidSettled, ConfirmSettled
<1>3. CASE ~ \E b \in Bids : BidStep(b)
  BY <1>1, <1>3, LeadAndJobStepsQuiet, QuietStepSettled, ScopeAssumption DEF Next
<1>4. QED
  BY <1>2, <1>3

\* Once a lead has a booking, its only live bid, if any, is the booked one.
THEOREM SettledLeads == Spec => []BookedLeadIsSettled
<1>1. Init => BookedLeadIsSettled
  BY DEF Init, BookedLeadIsSettled
<1>2. TypeOK /\ BookedLeadIsSettled /\ [Next]_vars => BookedLeadIsSettled'
  BY NextSettled
<1>3. QED
  BY <1>1, <1>2, TypeCorrect, PTL DEF Spec

--------------------------------------------------------------------------------
(***************************************************************************)
(* The marketplace implements PaymentFlow: whatever happens to a bid, it   *)
(* passes accepted, invoiced and booked in this order and never goes back. *)
(***************************************************************************)
\* The three columns a stage is read from agree with each other.
FlowInv ==
  \A b \in Bids :
    /\ Booked(b) <=> payStatus[b] = "confirmed"
    /\ payStatus[b] # "none" => acceptedAt[b] # 0
    /\ bidStatus[b] = "accepted" => acceptedAt[b] # 0

\* Every step that leaves these columns alone and accepts nothing.
NoProgress ==
  /\ UNCHANGED <<payStatus, bookings, acceptedAt>>
  /\ \A b \in Bids : bidStatus'[b] = "accepted" => bidStatus[b] = "accepted"

\* b is accepted, by the manager or by the agent.
Accepts(b) ==
  /\ bidStatus[b] = "pending"
  /\ AcceptFlow(b)
  /\ UNCHANGED <<payVars, today>>

LEMMA NextCases ==
  ASSUME TypeOK, [Next]_vars
  PROVE  \/ NoProgress
         \/ \E b \in Bids : Accepts(b) \/ CreateBidPayment(b) \/ ConfirmBidPayment(b)
<1>1. CASE \E b \in Bids : BidStep(b)
  <2>1. PICK b \in Bids : BidStep(b)
    BY <1>1
  <2>2. ASSUME NEW s \in {"withdrawn", "rejected"},
               ClosePendingBid(b, s) \/ RollBackAcceptedBid(b, s),
               UNCHANGED <<acceptedAt, payVars>>
        PROVE  NoProgress
    BY <2>2 DEF ClosePendingBid, RollBackAcceptedBid, ReviveHeldBids, NoProgress, TypeOK,
                payVars
  <2>3. ASSUME NEW amount \in Rates, PlaceBid(b, amount) \/ CounterBid(b, amount)
        PROVE  NoProgress
    BY <2>3 DEF PlaceBid, CounterBid, NoProgress, TypeOK, payVars
  <2>4. CASE DeclineCounter(b)
    BY <2>4 DEF DeclineCounter, NoProgress, TypeOK, payVars
  <2>5. CASE AcceptBid(b) \/ AcceptCounter(b)
    BY <2>5 DEF AcceptBid, AcceptCounter, CounterOpen, Accepts
  <2>6. QED
    BY <2>1, <2>2, <2>3, <2>4, <2>5 DEF BidStep, WithdrawBid, RejectBid
<1>2. CASE ExpireOverdueLeads
  BY <1>2 DEF ExpireOverdueLeads, NoProgress, payVars
<1>3. CASE ~ ExpireOverdueLeads /\ ~ \E b \in Bids : BidStep(b)
  <2>1. UNCHANGED <<bidStatus, acceptedAt, payStatus, bookings>>
    BY <1>3 DEF Next, vars, LeadStep, CreateLead, UpdateLead, UpdateLeadStatus, Rematch,
                ListingStep, Publish, SetActive, CloseProperty, UpdateProperty, CreateBlock, DeleteBlock,
                ListLeads, Tick, bidVars, payVars
  <2>2. QED
    BY <2>1 DEF NoProgress
<1>4. QED
  BY <1>1, <1>2, <1>3

--------------------------------------------------------------------------------
\* What the steps that make progress do to the columns.
LEMMA AcceptsColumns ==
  ASSUME TypeOK, NEW b \in Bids, Accepts(b)
  PROVE  /\ UNCHANGED <<payStatus, bookings>>
         /\ acceptedAt'[b] # 0
         /\ \A o \in Bids \ {b} : /\ acceptedAt'[o] = acceptedAt[o]
                                  /\ bidStatus'[o] = "accepted" => bidStatus[o] = "accepted"
<1>1. today # 0
  BY DEF TypeOK, Days
<1>2. QED
  BY <1>1 DEF Accepts, AcceptFlow, HoldRivals, TypeOK, payVars

LEMMA InvoiceColumns ==
  ASSUME TypeOK, NEW b \in Bids, CreateBidPayment(b)
  PROVE  /\ UNCHANGED <<bookings, acceptedAt, bidStatus>>
         /\ bidStatus[b] = "accepted" /\ payStatus[b] = "none"
         /\ payStatus'[b] = "initiated"
         /\ \A o \in Bids \ {b} : payStatus'[o] = payStatus[o]
BY DEF CreateBidPayment, Payable, TypeOK, bidVars

LEMMA ConfirmColumns ==
  ASSUME TypeOK, NEW b \in Bids, ConfirmBidPayment(b)
  PROVE  /\ UNCHANGED acceptedAt
         /\ payStatus[b] = "initiated" /\ payStatus'[b] = "confirmed"
         /\ Booked(b)'
         /\ \A o \in Bids \ {b} : /\ payStatus'[o] = payStatus[o]
                                  /\ Booked(o)' = Booked(o)
         /\ \A o \in Bids : bidStatus'[o] = "accepted" => bidStatus[o] = "accepted"
<1>1. \A o \in Bids \ {b} : Booked(o)' = Booked(o)
  <2> SUFFICES ASSUME NEW o \in Bids \ {b} PROVE Booked(o)' <=> Booked(o)
    BY Zenon DEF Booked
  <2>1. Booked(o) => Booked(o)'
    BY ConfirmBookings DEF Booked
  <2>2. BookingOf(b).bid = b
    BY DEF BookingOf
  <2>3. Booked(o)' => Booked(o)
    BY <2>2, ConfirmBookings DEF Booked
  <2>4. QED
    BY <2>1, <2>3
<1>2. Booked(b)'
  BY ConfirmBookings
<1>3. \A o \in Bids : bidStatus'[o] = "accepted" => bidStatus[o] = "accepted"
  BY DEF ConfirmBidPayment
<1>4. QED
  BY <1>1, <1>2, <1>3 DEF ConfirmBidPayment, TypeOK

--------------------------------------------------------------------------------
LEMMA NextFlow == ASSUME TypeOK, FlowInv, [Next]_vars PROVE FlowInv'
<1>1. CASE NoProgress
  BY <1>1 DEF NoProgress, FlowInv, Booked
<1>2. ASSUME NEW b \in Bids, Accepts(b) PROVE FlowInv'
  BY <1>2, AcceptsColumns DEF FlowInv, Booked
<1>3. ASSUME NEW b \in Bids, CreateBidPayment(b) PROVE FlowInv'
  BY <1>3, InvoiceColumns DEF FlowInv, Booked
<1>4. ASSUME NEW b \in Bids, ConfirmBidPayment(b) PROVE FlowInv'
  BY <1>4, ConfirmColumns DEF FlowInv
<1>5. QED
  BY <1>1, <1>2, <1>3, <1>4, NextCases

\* Columns in agreement, always.
THEOREM FlowInvariant == Spec => []FlowInv
<1>1. Init => FlowInv
  BY DEF Init, FlowInv, Booked
<1>2. TypeOK /\ FlowInv /\ [Next]_vars => FlowInv'
  BY NextFlow
<1>3. QED
  BY <1>1, <1>2, TypeCorrect, PTL DEF Spec

\* The refinement step for one bid moving on.
LEMMA Advances ==
  ASSUME NEW b \in Bids, NEW to,
         Stage(b)' = to,
         \A o \in Bids \ {b} : Stage(o)' = Stage(o)
  PROVE  Flow!Advance(b, Stage(b), to)
BY DEF Flow!Advance

\* A step of a handler is a step of the payment flow, or changes no stage.
LEMMA StepRefines ==
  ASSUME TypeOK, FlowInv, [Next]_vars
  PROVE  [Flow!Next]_[b \in Bids |-> Stage(b)]
<1>1. CASE NoProgress
  <2>1. \A b \in Bids : Stage(b)' = Stage(b)
    BY <1>1 DEF NoProgress, Stage, Booked
  <2>2. QED
    BY <2>1
<1>2. ASSUME NEW b \in Bids, Accepts(b)
      PROVE  [Flow!Next]_[o \in Bids |-> Stage(o)]
  <2>1. \A o \in Bids \ {b} : Stage(o)' = Stage(o)
    BY <1>2, AcceptsColumns DEF Stage, Booked
  <2>2. CASE acceptedAt[b] = 0
    <3>1. Stage(b) = "open" /\ Stage(b)' = "accepted"
      BY <1>2, <2>2, AcceptsColumns DEF Stage, Booked, FlowInv
    <3>2. Flow!Accept(b)
      BY <2>1, <3>1, Advances DEF Flow!Accept
    <3>3. QED
      BY <3>2 DEF Flow!Next
  <2>3. CASE acceptedAt[b] # 0
    <3>1. \A o \in Bids : Stage(o)' = Stage(o)
      BY <1>2, <2>1, <2>3, AcceptsColumns DEF Stage, Booked
    <3>2. QED
      BY <3>1
  <2>4. QED
    BY <2>2, <2>3
<1>3. ASSUME NEW b \in Bids, CreateBidPayment(b)
      PROVE  Flow!Next
  <2>1. \A o \in Bids \ {b} : Stage(o)' = Stage(o)
    BY <1>3, InvoiceColumns DEF Stage, Booked
  <2>2. Stage(b) = "accepted" /\ Stage(b)' = "invoiced"
    BY <1>3, InvoiceColumns DEF Stage, Booked, FlowInv
  <2>3. Flow!Invoice(b)
    BY <2>1, <2>2, Advances DEF Flow!Invoice
  <2>4. QED
    BY <2>3 DEF Flow!Next
<1>4. ASSUME NEW b \in Bids, ConfirmBidPayment(b)
      PROVE  Flow!Next
  <2>1. \A o \in Bids \ {b} : Stage(o)' = Stage(o)
    BY <1>4, ConfirmColumns DEF Stage
  <2>2. Stage(b) = "invoiced" /\ Stage(b)' = "booked"
    BY <1>4, ConfirmColumns DEF Stage, FlowInv
  <2>3. Flow!Book(b)
    BY <2>1, <2>2, Advances DEF Flow!Book
  <2>4. QED
    BY <2>3 DEF Flow!Next
<1>5. QED
  BY <1>1, <1>2, <1>3, <1>4, NextCases

\* No stage of accept, invoice, booking is skipped or undone, for any bid.
THEOREM RefinesPaymentFlow == Spec => ImplementsPaymentFlow
<1>1. Init => Flow!Init
  BY DEF Init, Flow!Init, Stage, Booked
<1>2. TypeOK /\ FlowInv /\ [Next]_vars => [Flow!Next]_[b \in Bids |-> Stage(b)]
  BY StepRefines
<1>3. QED
  BY <1>1, <1>2, TypeCorrect, FlowInvariant, PTL DEF Spec, ImplementsPaymentFlow, Flow!Spec

--------------------------------------------------------------------------------
(***************************************************************************)
(* Price.  A bid row, a counter and a payment exist only above the least   *)
(* rate of the property: each handler that writes an amount compares it    *)
(* with the present rate or copies one that was compared.                  *)
(***************************************************************************)
PriceInv ==
  /\ \A b \in Bids :
       /\ bidStatus[b] # "none" => bidAmount[b] >= lowestRate[PropertyOf(b)]
       /\ counteredAmount[b] # 0 => /\ bidStatus[b] # "none"
                                    /\ counteredAmount[b] >= lowestRate[PropertyOf(b)]
       /\ payStatus[b] # "none" => bidStatus[b] # "none"
  /\ NoDealBelowFloor
  /\ \A p \in Properties : b2bRate[p] >= lowestRate[p]

\* Steps that write no amount and give no row a status for the first time.
KeepsPrices ==
  /\ UNCHANGED <<bidAmount, counteredAmount, payVars, rateVars>>
  /\ \A b \in Bids : (bidStatus'[b] = "none") <=> (bidStatus[b] = "none")

LEMMA KeepsPricesInv == ASSUME PriceInv, KeepsPrices PROVE PriceInv'
BY DEF PriceInv, KeepsPrices, NoDealBelowFloor, payVars, rateVars

LEMMA BidStepPrices ==
  ASSUME TypeOK, PriceInv, NEW b \in Bids, BidStep(b)
  PROVE  PriceInv'
<1>1. /\ lowestRate[PropertyOf(b)] \in Nat /\ b2bRate[PropertyOf(b)] \in Nat
      /\ b2bRate[PropertyOf(b)] >= lowestRate[PropertyOf(b)]
  BY BidParts DEF TypeOK, PriceInv
<1>2. ASSUME NEW s \in {"withdrawn", "rejected"},
             ClosePendingBid(b, s) \/ RollBackAcceptedBid(b, s), UNCHANGED <<offerVars, payVars, listingVars>>
      PROVE  PriceInv'
  <2>1. KeepsPrices
    BY <1>2 DEF ClosePendingBid, RollBackAcceptedBid, ReviveHeldBids, Rivals, KeepsPrices,
                TypeOK, offerVars, listingVars
  <2>2. QED
    BY <2>1, KeepsPricesInv
<1>3. ASSUME NEW amount \in Rates, PlaceBid(b, amount)
      PROVE  PriceInv'
  <2>1. amount >= lowestRate[PropertyOf(b)]
    BY <1>1, <1>3, MoneyAssumption DEF PlaceBid
  <2>2. QED
    BY <1>3, <2>1 DEF PlaceBid, PriceInv, NoDealBelowFloor, TypeOK, payVars, listingVars, rateVars
<1>4. ASSUME NEW amount \in Rates, CounterBid(b, amount)
      PROVE  PriceInv'
  <2>1. amount \in Nat
    BY MoneyAssumption
  <2>2. amount >= lowestRate[PropertyOf(b)]
    BY <1>1, <1>4, <2>1 DEF CounterBid, Counterable
  <2>3. QED
    BY <1>4, <2>2 DEF CounterBid, PriceInv, NoDealBelowFloor, TypeOK, payVars,
                      listingVars, rateVars
<1>5. ASSUME bidStatus[b] = "pending", AcceptFlow(b)
      PROVE  \A o \in Bids : (bidStatus'[o] = "none") <=> (bidStatus[o] = "none")
  BY <1>5 DEF AcceptFlow, HoldRivals, Rivals
<1>6. CASE AcceptBid(b)
  BY <1>5, <1>6, KeepsPricesInv DEF AcceptBid, KeepsPrices, offerVars, listingVars
<1>7. CASE AcceptCounter(b)
  <2>1. \A o \in Bids : (bidStatus'[o] = "none") <=> (bidStatus[o] = "none")
    BY <1>5, <1>7 DEF AcceptCounter, CounterOpen
  <2>2. QED
    BY <1>7, <2>1 DEF AcceptCounter, CounterOpen, PriceInv, NoDealBelowFloor, TypeOK,
                      payVars, listingVars, rateVars
<1>8. CASE DeclineCounter(b)
  BY <1>8 DEF DeclineCounter, PriceInv, NoDealBelowFloor, TypeOK, payVars, listingVars,
              rateVars
<1>9. CASE CreateBidPayment(b)
  BY <1>9 DEF CreateBidPayment, Payable, PriceInv, NoDealBelowFloor, TypeOK, bidVars,
              offerVars, listingVars, rateVars
<1>10. CASE ConfirmBidPayment(b)
  <2>1. BookingOf(b).amount >= lowestRate[PropertyOf(b)] /\ BookingOf(b).bid = b
    BY <1>10 DEF ConfirmBidPayment, BookingOf, PriceInv
  <2>2. \A k \in bookings' : k.amount >= lowestRate[PropertyOf(k.bid)]
    BY <1>10, <2>1, ConfirmBookings
    DEF ConfirmBidPayment, PriceInv, NoDealBelowFloor, listingVars, rateVars
  <2>3. \A o \in Bids : (bidStatus'[o] = "none") <=> (bidStatus[o] = "none")
    BY <1>10 DEF ConfirmBidPayment, LosingStatuses
  <2>4. QED
    BY <1>10, <2>2, <2>3 DEF ConfirmBidPayment, PriceInv, NoDealBelowFloor, TypeOK,
                              offerVars, listingVars, rateVars
<1>11. QED
  BY <1>2, <1>3, <1>4, <1>6, <1>7, <1>8, <1>9, <1>10 DEF BidStep, WithdrawBid, RejectBid

\* A change of the rate can only lower the lowest one.
LEMMA UpdatePropertyPrices ==
  ASSUME TypeOK, PriceInv, NEW p \in Properties, NEW s \in PropertyStatuses,
         NEW rate \in NewRates \cup {b2bRate[p]}, UpdateProperty(p, s, rate)
  PROVE  PriceInv'
<1>1. rate \in Nat
  BY MoneyAssumption DEF TypeOK
<1>2. \A q \in Properties : /\ lowestRate'[q] \in Nat
                            /\ lowestRate'[q] <= lowestRate[q]
                            /\ b2bRate'[q] >= lowestRate'[q]
  BY <1>1 DEF UpdateProperty, TypeOK, PriceInv
<1>3. Amounts \subseteq Nat
  BY MoneyAssumption DEF Amounts
<1>4. \A b \in Bids : bidAmount[b] \in Nat /\ counteredAmount[b] \in Nat /\ payAmount[b] \in Nat
  BY <1>3 DEF TypeOK
<1>5. \A k \in bookings : k.bid \in Bids /\ k.amount \in Nat
  BY <1>3 DEF TypeOK, Bookings
<1>6. \A b \in Bids : lowestRate[PropertyOf(b)] \in Nat /\ PropertyOf(b) \in Properties
  BY BidParts DEF TypeOK
<1>7. NoDealBelowFloor'
  BY <1>2, <1>4, <1>5, <1>6 DEF UpdateProperty, PriceInv, NoDealBelowFloor, payVars
<1>8. QED
  BY <1>2, <1>4, <1>6, <1>7 DEF UpdateProperty, PriceInv, bidVars, offerVars, payVars

LEMMA OtherStepPrices ==
  ASSUME [Next]_vars, ~ \E b \in Bids : BidStep(b),
         ~ \E p \in Managed, s \in PropertyStatuses :
             \E rate \in NewRates \cup {b2bRate[p]} : UpdateProperty(p, s, rate)
  PROVE  KeepsPrices
<1>1. CASE ExpireOverdueLeads
  BY <1>1 DEF ExpireOverdueLeads, OverdueBids, KeepsPrices, offerVars, listingVars
<1>2. CASE ~ ExpireOverdueLeads
  BY <1>2 DEF Next, LeadStep, CreateLead, UpdateLead, UpdateLeadStatus, Rematch,
              ListingStep, Publish, SetActive, CloseProperty, CreateBlock, DeleteBlock,
              ListLeads, Tick, KeepsPrices, vars, bidVars, offerVars, listingVars
<1>3. QED
  BY <1>1, <1>2

LEMMA InitPrices == Init => PriceInv
BY MoneyAssumption DEF Init, PriceInv, NoDealBelowFloor

LEMMA NextPrices == ASSUME TypeOK, PriceInv, [Next]_vars PROVE PriceInv'
BY BidStepPrices, OtherStepPrices, UpdatePropertyPrices, KeepsPricesInv, ScopeAssumption

THEOREM PriceInvariant == Spec => []PriceInv
<1>1. Init => PriceInv
  BY InitPrices
<1>2. TypeOK /\ PriceInv /\ [Next]_vars => PriceInv'
  BY NextPrices
<1>3. QED
  BY <1>1, <1>2, TypeCorrect, PTL DEF Spec

\* Nobody pays and nothing is booked below the B2B rate of the property.
THEOREM DealsRespectFloor == Spec => []NoDealBelowFloor
<1>1. PriceInv => NoDealBelowFloor
  BY DEF PriceInv
<1>2. QED
  BY <1>1, PriceInvariant, PTL

--------------------------------------------------------------------------------
(***************************************************************************)
(* Dates.  The lead of a bid exists, so create_lead cannot change dates    *)
(* under a bid; update_lead wants every bid withdrawn; place_bid copies    *)
(* the dates of the lead and wants it unbooked and matched.                *)
(***************************************************************************)
Open(b) == bidStatus[b] \notin {"none", "withdrawn"}

DatesInv ==
  /\ \A b \in Bids : bidStatus[b] # "none" => leadStatus[LeadOf(b)] # "none"
  /\ LiveBidsKeepLeadDates
  /\ LiveBidsStayListed
  /\ \A k \in bookings : k.stay = bidStay[k.bid]

\* Steps that leave all dates and bookings alone, lose no match and open no bid.
KeepsDates ==
  /\ UNCHANGED <<leadStay, bidStay, bookings>>
  /\ matches \subseteq matches'
  /\ \A b \in Bids : /\ Open(b)' => Open(b)
                     /\ bidStatus'[b] # "none" => bidStatus[b] # "none"
  /\ \A l \in Leads : leadStatus[l] # "none" => leadStatus'[l] # "none"

LEMMA KeepsDatesInv == ASSUME DatesInv, KeepsDates PROVE DatesInv'
BY BidParts DEF DatesInv, KeepsDates, LiveBidsKeepLeadDates, LiveBidsStayListed,
                LeadProperties, Open

LEMMA BidStepKeepsDates ==
  ASSUME TypeOK, NEW b \in Bids, BidStep(b), ~ ConfirmBidPayment(b),
         \A amount \in Rates : ~ PlaceBid(b, amount),
         bidStatus[b] # "none" \/ counteredAmount[b] = 0
  PROVE  KeepsDates
<1>1. LeadOf(b) \in Leads
  BY BidParts
<1>2. ASSUME NEW s \in {"withdrawn", "rejected"},
             ClosePendingBid(b, s) \/ RollBackAcceptedBid(b, s),
             UNCHANGED <<leadStay, matches, offerVars, payVars>>
      PROVE  KeepsDates
  BY <1>1, <1>2 DEF ClosePendingBid, RollBackAcceptedBid, ReviveHeldBids, Rivals,
                    RevertLeadToActive, KeepsDates, Open, TypeOK, offerVars, payVars
<1>3. ASSUME bidStatus[b] = "pending", AcceptFlow(b),
             UNCHANGED <<leadStay, matches, bidStay, payVars>>
      PROVE  KeepsDates
  BY <1>1, <1>3 DEF AcceptFlow, HoldRivals, Rivals, WonLead, KeepsDates, Open, TypeOK,
                    payVars
<1>4. CASE DeclineCounter(b)
  BY <1>4 DEF DeclineCounter, KeepsDates, Open, TypeOK, leadVars, payVars
<1>5. ASSUME NEW amount \in Rates, CounterBid(b, amount)
      PROVE  KeepsDates
  BY <1>5 DEF CounterBid, KeepsDates, Open, leadVars, payVars
<1>6. CASE CreateBidPayment(b)
  BY <1>6 DEF CreateBidPayment, KeepsDates, Open, leadVars, bidVars, offerVars
<1>7. QED
  BY <1>2, <1>3, <1>4, <1>5, <1>6
  DEF BidStep, WithdrawBid, RejectBid, AcceptBid, AcceptCounter, CounterOpen, offerVars

LEMMA PlaceBidDates ==
  ASSUME TypeOK, DatesInv, NEW b \in Bids, NEW amount \in Rates, PlaceBid(b, amount)
  PROVE  DatesInv'
<1>1. \A o \in Bids \ {b} : bidStatus'[o] = bidStatus[o] /\ bidStay'[o] = bidStay[o]
  BY DEF PlaceBid, TypeOK
<1>2. bidStay'[b] = leadStay[LeadOf(b)] /\ leadStatus[LeadOf(b)] # "none" /\ b \in matches
  BY DEF PlaceBid, TypeOK
<1>3. \A k \in bookings : k.bid \in Bids /\ k.bid # b
  BY DEF PlaceBid, LeadBooked, TypeOK, Bookings
<1>4. UNCHANGED <<leadStatus, leadStay, matches, bookings>>
  BY DEF PlaceBid, leadVars, payVars
<1>5. QED
  BY <1>1, <1>2, <1>3, <1>4 DEF DatesInv, LiveBidsKeepLeadDates, LiveBidsStayListed, LeadProperties

LEMMA ConfirmDates ==
  ASSUME TypeOK, DatesInv, NEW b \in Bids, ConfirmBidPayment(b)
  PROVE  DatesInv'
<1>1. \A o \in Bids : /\ Open(o)' => Open(o)
                      /\ bidStatus'[o] # "none" => bidStatus[o] # "none"
  BY DEF ConfirmBidPayment, Open, LosingStatuses
<1>2. UNCHANGED <<leadStatus, leadStay, matches, bidStay>>
  BY DEF ConfirmBidPayment, leadVars, offerVars
<1>3. \A k \in bookings' : k.stay = bidStay[k.bid]
  BY ConfirmBookings DEF BookingOf, DatesInv
<1>4. QED
  BY <1>1, <1>2, <1>3 DEF DatesInv, LiveBidsKeepLeadDates, LiveBidsStayListed, LeadProperties, Open

LEMMA LeadStepDates ==
  ASSUME TypeOK, DatesInv, NEW l \in Leads, LeadStep(l)
  PROVE  DatesInv'
<1>1. ASSUME NEW s \in Stays, CreateLead(l, s) \/ UpdateLead(l, s)
      PROVE  DatesInv'
  <2>1. \A b \in BidsOfLead(l) : ~ Open(b)
    BY <1>1 DEF CreateLead, UpdateLead, Editable, DatesInv, BidsOfLead, Open
  <2>2. \A m \in Leads \ {l} : leadStay'[m] = leadStay[m] /\ leadStatus'[m] = leadStatus[m]
    BY <1>1 DEF CreateLead, UpdateLead, TypeOK
  <2>3. /\ UNCHANGED <<bidStatus, bidStay, bookings>> /\ leadStatus'[l] # "none"
        /\ matches \ BidsOfLead(l) \subseteq matches'
    BY <1>1 DEF CreateLead, UpdateLead, TypeOK, bidVars, offerVars, payVars
  <2>4. QED
    BY <2>1, <2>2, <2>3, BidParts DEF DatesInv, LiveBidsKeepLeadDates, LiveBidsStayListed, LeadProperties, BidsOfLead, Open
<1>2. CASE UpdateLeadStatus(l) \/ Rematch(l)
  BY <1>2, KeepsDatesInv DEF UpdateLeadStatus, Rematch, KeepsDates, Open, TypeOK, bidVars,
                             offerVars, payVars
<1>3. QED
  BY <1>1, <1>2 DEF LeadStep

LEMMA OtherStepDates ==
  ASSUME TypeOK,
         \/ \E p \in Properties : ListingStep(p)
         \/ \E k \in blocks : DeleteBlock(k)
         \/ ListLeads \/ ExpireOverdueLeads \/ Tick
         \/ UNCHANGED vars
  PROVE  KeepsDates
<1>1. CASE ExpireOverdueLeads
  BY <1>1 DEF ExpireOverdueLeads, OverdueBids, KeepsDates, Open, offerVars, payVars
<1>2. CASE ListLeads
  BY <1>2 DEF ListLeads, KeepsDates, Open, bidVars, offerVars, payVars
<1>3. CASE ~ ExpireOverdueLeads /\ ~ ListLeads
  BY <1>3 DEF ListingStep, Publish, SetActive, CloseProperty, UpdateProperty, CreateBlock, DeleteBlock,
              Tick, KeepsDates, Open, vars, leadVars, bidVars, offerVars, payVars
<1>4. QED
  BY <1>1, <1>2, <1>3

LEMMA InitDates == Init => DatesInv
BY DEF Init, DatesInv, LiveBidsKeepLeadDates, LiveBidsStayListed

LEMMA NextDates == ASSUME TypeOK, PriceInv, DatesInv, [Next]_vars PROVE DatesInv'
<1>1. ASSUME NEW b \in Bids, BidStep(b) PROVE DatesInv'
  BY <1>1, PlaceBidDates, ConfirmDates, BidStepKeepsDates, KeepsDatesInv DEF PriceInv
<1>2. CASE ~ \E b \in Bids : BidStep(b)
  BY <1>2, LeadStepDates, OtherStepDates, KeepsDatesInv, ScopeAssumption DEF Next
<1>3. QED
  BY <1>1, <1>2

\* Dates, matches and the bookings' stays in agreement, always.
THEOREM DatesInvariant == Spec => []DatesInv
<1>1. TypeOK /\ PriceInv /\ DatesInv /\ [Next]_vars => DatesInv'
  BY NextDates
<1>2. QED
  BY <1>1, InitDates, TypeCorrect, PriceInvariant, PTL DEF Spec

\* A bid that was not withdrawn is for the dates its lead has now.
THEOREM BidsKeepLeadDates == Spec => []LiveBidsKeepLeadDates
<1>1. DatesInv => LiveBidsKeepLeadDates
  BY DEF DatesInv
<1>2. QED
  BY <1>1, DatesInvariant, PTL

\* A bid that was not withdrawn is on the page of its lead.
THEOREM BidsStayListed == Spec => []LiveBidsStayListed
<1>1. DatesInv => LiveBidsStayListed
  BY DEF DatesInv
<1>2. QED
  BY <1>1, DatesInvariant, PTL

\* A booking exists for exactly the confirmed payments, on the dates of its bid.
THEOREM BookingsFollowBids == Spec => []BookingFollowsBid
<1>1. FlowInv /\ DatesInv => BookingFollowsBid
  BY DEF FlowInv, DatesInv, BookingFollowsBid
<1>2. QED
  BY <1>1, FlowInvariant, DatesInvariant, PTL

--------------------------------------------------------------------------------
(***************************************************************************)
(* Steps.  What one step may never do follows from types alone.            *)
(***************************************************************************)
ClosedStays ==
  \A l \in Leads : leadStatus[l] \in {"lost", "expired"} =>
                     leadStatus'[l] \in {"lost", leadStatus[l]}

LEMMA NextClosedStays == ASSUME TypeOK, Next PROVE ClosedStays
<1>1. ASSUME NEW l \in Leads, LeadStep(l) PROVE ClosedStays
  BY <1>1 DEF LeadStep, CreateLead, UpdateLead, UpdateLeadStatus, Rematch, ClosedStays,
              TypeOK
<1>2. ASSUME NEW b \in Bids, BidStep(b) PROVE ClosedStays
  <2>1. \/ UNCHANGED leadStatus
        \/ leadStatus' = WonLead(LeadOf(b))
        \/ leadStatus' = RevertLeadToActive(LeadOf(b))
    BY <1>2 DEF BidStep, PlaceBid, CounterBid, WithdrawBid, RejectBid, ClosePendingBid,
                RollBackAcceptedBid, AcceptBid, AcceptCounter, AcceptFlow,
                DeclineCounter, CreateBidPayment, ConfirmBidPayment, leadVars
  <2>2. QED
    BY <2>1, BidParts DEF WonLead, RevertLeadToActive, ClosedStays, TypeOK
<1>3. CASE \/ \E p \in Managed : ListingStep(p)
           \/ \E k \in blocks : DeleteBlock(k)
           \/ ListLeads \/ ExpireOverdueLeads \/ Tick
  BY <1>3 DEF ListingStep, Publish, SetActive, CloseProperty, UpdateProperty, CreateBlock,
              DeleteBlock, ListLeads, LeadsPastCheckOut, ExpireOverdueLeads, OverdueLeads,
              Tick, ClosedStays, leadVars
<1>4. QED
  BY <1>1, <1>2, <1>3 DEF Next

\* A lost or expired lead is never opened or won again.
THEOREM ClosedLeads == Spec => ClosedLeadStaysClosed
<1>1. TypeOK /\ [Next]_vars => [ClosedStays]_vars
  BY NextClosedStays
<1>2. QED
  BY <1>1, TypeCorrect, PTL DEF Spec, ClosedLeadStaysClosed, ClosedStays

\* On a booked lead nothing is invoiced and only losers are booked.
OldPaymentsOnly ==
  \A k \in bookings : \A b \in BidsOfLead(LeadOf(k.bid)) :
    /\ payStatus[b] = "none" => payStatus'[b] = "none"
    /\ ~ Booked(b) /\ Booked(b)' => bidStatus[b] \in {"rejected", "withdrawn"}

LEMMA NextOldPayments ==
  ASSUME TypeOK, FlowInv, PriceInv, BookedLeadIsSettled, Next
  PROVE  OldPaymentsOnly
<1> SUFFICES ASSUME NEW k \in bookings, NEW b \in BidsOfLead(LeadOf(k.bid))
             PROVE  /\ payStatus[b] = "none" => payStatus'[b] = "none"
                    /\ ~ Booked(b) /\ Booked(b)' => bidStatus[b] \in {"rejected", "withdrawn"}
  BY DEF OldPaymentsOnly
<1>1. b \in Bids /\ (bidStatus[b] \in Live => Booked(b))
  BY DEF BidsOfLead, BookedLeadIsSettled
<1>2. CASE NoProgress
  BY <1>2 DEF NoProgress, Booked
<1>3. ASSUME NEW c \in Bids, Accepts(c)
      PROVE  payStatus' = payStatus /\ bookings' = bookings
  BY <1>3, AcceptsColumns
<1>4. ASSUME NEW c \in Bids, CreateBidPayment(c)
      PROVE  bookings' = bookings /\ (payStatus[b] = "none" => payStatus'[b] = "none")
  <2>1. b # c
    BY <1>1, <1>4, InvoiceColumns DEF Live, FlowInv
  <2>2. QED
    BY <1>1, <1>4, <2>1, InvoiceColumns
<1>5. ASSUME NEW c \in Bids, ConfirmBidPayment(c)
      PROVE  /\ payStatus[b] = "none" => payStatus'[b] = "none"
             /\ ~ Booked(b) /\ Booked(b)' => bidStatus[b] \in {"rejected", "withdrawn"}
  <2>1. CASE b # c
    BY <1>1, <1>5, <2>1, ConfirmColumns
  <2>2. CASE b = c
    <3>1. payStatus[b] = "initiated" /\ bidStatus[b] # "none"
      BY <1>1, <1>5, <2>2, ConfirmColumns DEF PriceInv
    <3>2. ~ Booked(b) => bidStatus[b] \in {"rejected", "withdrawn"}
      BY <1>1, <3>1 DEF TypeOK, BidStatuses, Live
    <3>3. QED
      BY <3>1, <3>2
  <2>3. QED
    BY <2>1, <2>2
<1>6. QED
  BY <1>2, <1>3, <1>4, <1>5, NextCases DEF Booked

\* After the first booking of a lead only bids that lost or were withdrawn can still
\* be booked, on payments recorded before it: the finding of the run two_bookings is
\* the only way to a second booking.
THEOREM LaterBookingsAreOld == Spec => OnlyOldPaymentsBookAgain
<1>1. TypeOK /\ FlowInv /\ PriceInv /\ BookedLeadIsSettled /\ [Next]_vars
        => [OldPaymentsOnly]_vars
  BY NextOldPayments
<1>2. QED
  BY <1>1, TypeCorrect, FlowInvariant, PriceInvariant, SettledLeads, PTL
  DEF Spec, OnlyOldPaymentsBookAgain, OldPaymentsOnly

PriceStays ==
  \A b \in Bids : bidStatus[b] = "accepted" /\ bidStatus'[b] = "accepted" =>
                    bidAmount'[b] = bidAmount[b]

\* The price of an accepted bid does not move while it stays accepted.
THEOREM FrozenPrices == Spec => AgreedPriceIsFrozen
<1>1. TypeOK /\ [Next]_vars => [PriceStays]_vars
  <2> SUFFICES ASSUME TypeOK, Next PROVE PriceStays
    OBVIOUS
  <2>1. ASSUME NEW b \in Bids, BidStep(b) PROVE PriceStays
    <3>1. CASE AcceptCounter(b)
      BY <3>1 DEF AcceptCounter, CounterOpen, PriceStays, TypeOK
    <3>2. ASSUME NEW amount \in Rates, PlaceBid(b, amount) PROVE PriceStays
      BY <3>2 DEF PlaceBid, PriceStays, TypeOK
    <3>3. CASE ~ AcceptCounter(b) /\ \A amount \in Rates : ~ PlaceBid(b, amount)
      BY <2>1, <3>3 DEF BidStep, CounterBid, WithdrawBid, RejectBid, AcceptBid,
           DeclineCounter, CreateBidPayment, ConfirmBidPayment, PriceStays, bidVars,
           offerVars
    <3>4. QED
      BY <3>1, <3>2, <3>3
  <2>2. CASE ~ \E b \in Bids : BidStep(b)
    <3>1. ASSUME NEW p \in Managed, NEW s \in PropertyStatuses,
                 NEW rate \in NewRates \cup {b2bRate[p]}, UpdateProperty(p, s, rate)
          PROVE  PriceStays
      BY <3>1 DEF UpdateProperty, PriceStays, bidVars, offerVars
    <3>2. QED
      BY <2>2, <3>1, OtherStepPrices DEF KeepsPrices, PriceStays
  <2>3. QED
    BY <2>1, <2>2
<1>2. QED
  BY <1>1, TypeCorrect, PTL DEF Spec, AgreedPriceIsFrozen, PriceStays

--------------------------------------------------------------------------------
\* Dates that share a day pass the overlap test of the queries.
LEMMA SharedDayOverlaps ==
  ASSUME NEW s \in StaysOrNone, NEW t \in StaysOrNone, ShareADay(s, t)
  PROVE  Overlaps(s, t)
<1>1. s \in [from : Nat, to : Nat] /\ t \in [from : Nat, to : Nat]
  BY DatesAssumption DEF StaysOrNone, NoStay, Ranges
<1>2. PICK d \in s.from .. s.to : d \in t.from .. t.to
  BY DEF ShareADay
<1>3. QED
  BY <1>1, <1>2 DEF Overlaps

PausesRivals ==
  \A b, o \in Bids :
    /\ bidStatus[b] # "accepted" /\ bidStatus'[b] = "accepted"
    /\ o # b /\ PropertyOf(o) = PropertyOf(b) /\ ShareADay(bidStay[o], bidStay[b])
    => bidStatus'[o] # "pending"

LEMMA NextPausesRivals == ASSUME TypeOK, [Next]_vars PROVE PausesRivals
<1>1. CASE NoProgress
  BY <1>1 DEF NoProgress, PausesRivals
<1>2. ASSUME NEW b \in Bids, Accepts(b) PROVE PausesRivals
  <2>1. \A o \in Bids : /\ o # b /\ PropertyOf(o) = PropertyOf(b)
                        /\ ShareADay(bidStay[o], bidStay[b])
                        => Overlaps(bidStay[o], bidStay[b])
    BY SharedDayOverlaps DEF TypeOK
  <2>2. \A o \in Bids : /\ o # b /\ PropertyOf(o) = PropertyOf(b)
                        /\ ShareADay(bidStay[o], bidStay[b])
                        => bidStatus'[o] # "pending"
    BY <1>2, <2>1 DEF Accepts, AcceptFlow, HoldRivals, Rivals
  <2>3. QED
    BY <1>2, <2>2, AcceptsColumns DEF PausesRivals
<1>3. ASSUME NEW b \in Bids, CreateBidPayment(b) PROVE PausesRivals
  BY <1>3, InvoiceColumns DEF PausesRivals
<1>4. ASSUME NEW b \in Bids, ConfirmBidPayment(b) PROVE PausesRivals
  BY <1>4, ConfirmColumns DEF PausesRivals
<1>5. QED
  BY <1>1, <1>2, <1>3, <1>4, NextCases

\* Accepting a bid leaves no other bid for any of its days pending.
THEOREM AcceptsPauseRivals == Spec => AcceptPausesRivals
<1>1. TypeOK /\ [Next]_vars => [PausesRivals]_vars
  BY NextPausesRivals
<1>2. QED
  BY <1>1, TypeCorrect, PTL DEF Spec, AcceptPausesRivals, PausesRivals

--------------------------------------------------------------------------------
(***************************************************************************)
(* Giving up a bid.  Four handlers take a bid out of accepted.  Declining  *)
(* its counter clears the counter, and a confirmation of another bid of    *)
(* the lead makes a booking, for the confirmed bid had none (FlowInv).     *)
(* The other two are the rollback.                                         *)
(***************************************************************************)
FreesLeadAndRivals(b) ==
  /\ payStatus[b] = "none"
  /\ leadStatus'[LeadOf(b)] # "won"
  /\ \A o \in Bids :
       /\ o # b /\ PropertyOf(o) = PropertyOf(b)
       /\ ShareADay(bidStay[o], bidStay[b])
       => bidStatus'[o] # "on_hold"

GivesUp(b) ==
  /\ bidStatus[b] = "accepted" /\ bidStatus'[b] # "accepted"
  /\ UNCHANGED <<counteredAmount, bookings>>

RollbackFrees == \A b \in Bids : GivesUp(b) => FreesLeadAndRivals(b)

LEMMA RollbackColumns ==
  ASSUME TypeOK, NEW b \in Bids, NEW s \in {"withdrawn", "rejected"},
         RollBackAcceptedBid(b, s)
  PROVE  RollbackFrees
<1>1. LeadOf(b) \in Leads
  BY BidParts
<1>2. \A o \in Bids \ {b} : bidStatus[o] = "accepted" => bidStatus'[o] = "accepted"
  BY DEF RollBackAcceptedBid, ReviveHeldBids, Rivals
<1>3. payStatus[b] = "none" /\ leadStatus'[LeadOf(b)] # "won"
  BY <1>1 DEF RollBackAcceptedBid, RevertLeadToActive, TypeOK
<1>4. ASSUME NEW o \in Bids, o # b, PropertyOf(o) = PropertyOf(b),
             ShareADay(bidStay[o], bidStay[b])
      PROVE  bidStatus'[o] # "on_hold"
  <2>1. Overlaps(bidStay[o], bidStay[b])
    BY <1>4, SharedDayOverlaps DEF TypeOK
  <2>2. QED
    BY <1>4, <2>1 DEF RollBackAcceptedBid, ReviveHeldBids, Rivals
<1>5. QED
  BY <1>2, <1>3, <1>4 DEF RollbackFrees, GivesUp, FreesLeadAndRivals

LEMMA NextRollbackFrees == ASSUME TypeOK, FlowInv, [Next]_vars PROVE RollbackFrees
<1>1. ASSUME NEW b \in Bids, BidStep(b) PROVE RollbackFrees
  <2>1. ASSUME NEW s \in {"withdrawn", "rejected"},
               ClosePendingBid(b, s) \/ RollBackAcceptedBid(b, s)
        PROVE  RollbackFrees
    BY <2>1, RollbackColumns DEF ClosePendingBid, RollbackFrees, GivesUp, TypeOK
  <2>2. CASE DeclineCounter(b)
    BY <2>2 DEF DeclineCounter, RollbackFrees, GivesUp, TypeOK
  <2>3. CASE ConfirmBidPayment(b)
    <3>1. ~ Booked(b) /\ Booked(b)'
      BY <2>3, ConfirmColumns DEF FlowInv
    <3>2. QED
      BY <3>1 DEF RollbackFrees, GivesUp, Booked
  <2>4. CASE AcceptBid(b) \/ AcceptCounter(b)
    BY <2>4 DEF AcceptBid, AcceptCounter, AcceptFlow, HoldRivals, Rivals,
                RollbackFrees, GivesUp
  <2>5. ASSUME NEW amount \in Rates, PlaceBid(b, amount) PROVE RollbackFrees
    BY <2>5 DEF PlaceBid, RollbackFrees, GivesUp, TypeOK
  <2>6. CASE CreateBidPayment(b) \/ \E amount \in Rates : CounterBid(b, amount)
    BY <2>6 DEF CreateBidPayment, CounterBid, RollbackFrees, GivesUp, bidVars
  <2>7. QED
    BY <1>1, <2>1, <2>2, <2>3, <2>4, <2>5, <2>6 DEF BidStep, WithdrawBid, RejectBid
<1>2. CASE ExpireOverdueLeads
  BY <1>2 DEF ExpireOverdueLeads, OverdueBids, RollbackFrees, GivesUp
<1>3. CASE ~ ExpireOverdueLeads /\ ~ \E b \in Bids : BidStep(b)
  <2>1. UNCHANGED bidStatus
    BY <1>3 DEF Next, vars, LeadStep, CreateLead, UpdateLead, UpdateLeadStatus, Rematch,
                ListingStep, Publish, SetActive, CloseProperty, UpdateProperty,
                CreateBlock, DeleteBlock, ListLeads, Tick, bidVars
  <2>2. QED
    BY <2>1 DEF RollbackFrees, GivesUp
<1>4. QED
  BY <1>1, <1>2, <1>3

\* Rolling back an accepted bid frees its lead and the bids held for it.
THEOREM RollbacksFree == Spec => RollbackFreesLeadAndRivals
<1>1. TypeOK /\ FlowInv /\ [Next]_vars => [RollbackFrees]_vars
  BY NextRollbackFrees
<1>2. QED
  BY <1>1, TypeCorrect, FlowInvariant, PTL
  DEF Spec, RollbackFreesLeadAndRivals, RollbackFrees, GivesUp, FreesLeadAndRivals

================================================================================
