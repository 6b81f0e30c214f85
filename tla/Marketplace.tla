------------------------------ MODULE Marketplace ------------------------------
(***************************************************************************)
(* The core of the B2CAgent API: agents hold leads (a customer and the     *)
(* dates of a stay), bid with them on the properties of managers, and an   *)
(* accepted, paid and confirmed bid becomes a booking.                     *)
(*                                                                         *)
(* The variables are the database tables; an action is one request handler *)
(* (or background job) run from its first read to its last commit.         *)
(* Handlers that refuse (HTTP 4xx) change nothing and are stuttering       *)
(* steps.  Dates are days numbered from 1; 0 stands for a NULL column.     *)
(*                                                                         *)
(* A definition marked "variant" is never used by the specification: it is *)
(* the definition below it with a fault, exchanged for it to see that a    *)
(* property notices.                                                       *)
(***************************************************************************)
EXTENDS Integers, FiniteSets

CONSTANTS
  Leads, Properties,    \* row identifiers
  Agents, Managers,     \* users
  AgentOf,              \* Lead.agent_id
  ManagerOf,            \* Property.manager_id
  Stays,                \* the date ranges customers ask for
  Rates,                \* the amounts bid, countered and paid
  B2BRate,              \* the b2b_rate each property starts with
  Fits,                 \* <<lead, property>> pairs that pass the matcher's scoring
  BidLimit,             \* monthly_bid_limit of each agent's plan
  AcceptLimit,          \* monthly_bid_limit of each manager's plan
  NoLimit,              \* the NULL limit of the unlimited plan
  MonthLength,          \* days in a month of the calendar
  Horizon,              \* bound: the last day the clock reaches
  Managed,              \* bound: properties whose listing and blocks change
  NewRates,             \* bound: the rates update_property may set
  BlockRanges           \* bound: the ranges a manager may block

Ranges == {s \in [from : Nat, to : Nat] : s.from <= s.to}

ASSUME PeopleAssumption ==
  /\ AgentOf \in [Leads -> Agents]
  /\ ManagerOf \in [Properties -> Managers]

ASSUME DatesAssumption ==
  /\ \A s \in Stays : s \in Ranges /\ s.from < s.to /\ s.from # 0
  /\ \A r \in BlockRanges : r \in Ranges /\ r.from # 0
  /\ MonthLength \in Nat \ {0}
  /\ Horizon \in Nat \ {0}

ASSUME MoneyAssumption ==
  /\ Rates \subseteq Nat \ {0}
  /\ B2BRate \in [Properties -> Nat]
  /\ NewRates \subseteq Nat

ASSUME LimitAssumption ==
  /\ NoLimit \notin Nat
  /\ BidLimit \in [Agents -> Nat \cup {NoLimit}]
  /\ AcceptLimit \in [Managers -> Nat \cup {NoLimit}]

ASSUME ScopeAssumption ==
  /\ Fits \subseteq Leads \X Properties
  /\ Managed \subseteq Properties

VARIABLES
  leadStatus, leadStay,                        \* leads
  matches,                                     \* lead_property_matches
  bidStatus, bidStay, bidAmount,               \* bids, one row per lead and property
  counteredAmount, acceptedAt, createdAt,
  payStatus, payAmount,                        \* bid_payments, one row per bid
  bookings,                                    \* bookings
  propStatus, b2bRate, blocks,                 \* properties and their closed ranges
  lowestRate,                                  \* history: the least b2bRate so far
  today                                        \* the server's date

leadVars == <<leadStatus, leadStay, matches>>
offerVars == <<bidStay, bidAmount, counteredAmount>>
bidVars  == <<bidStatus, offerVars, acceptedAt, createdAt>>
payVars  == <<payStatus, payAmount, bookings>>
rateVars == <<b2bRate, lowestRate>>
listingVars == <<propStatus, rateVars, blocks>>
vars == <<leadVars, bidVars, payVars, listingVars, today>>

--------------------------------------------------------------------------------
\* Tables

\* Unique (lead_id, property_id): a bid row is named by its lead and property.
Bids == Leads \X Properties
LeadOf(b) == b[1]
PropertyOf(b) == b[2]

LeadStatuses == {"none", "draft", "active", "won", "lost", "expired"}
BidStatuses == {"none", "pending", "accepted", "on_hold", "rejected", "withdrawn"}
PaymentStatuses == {"none", "initiated", "confirmed"}
PropertyStatuses == {"draft", "active", "inactive", "booked", "closed"}

NoStay == [from |-> 0, to |-> 0]
StaysOrNone == Stays \cup {NoStay}
Amounts == Rates \cup {0}
Days == 1 .. Horizon
Stamps == 0 .. Horizon

Bookings == [bid : Bids, stay : StaysOrNone, amount : Amounts]
Blocks == [property : Properties, range : BlockRanges]

TypeOK ==
  /\ leadStatus \in [Leads -> LeadStatuses]
  /\ leadStay \in [Leads -> StaysOrNone]
  /\ matches \subseteq Bids
  /\ bidStatus \in [Bids -> BidStatuses]
  /\ bidStay \in [Bids -> StaysOrNone]
  /\ bidAmount \in [Bids -> Amounts]
  /\ counteredAmount \in [Bids -> Amounts]
  /\ acceptedAt \in [Bids -> Stamps]
  /\ createdAt \in [Bids -> Stamps]
  /\ payStatus \in [Bids -> PaymentStatuses]
  /\ payAmount \in [Bids -> Amounts]
  /\ bookings \subseteq Bookings
  /\ propStatus \in [Properties -> PropertyStatuses]
  /\ b2bRate \in [Properties -> Nat]
  /\ lowestRate \in [Properties -> Nat]
  /\ blocks \subseteq Blocks
  /\ today \in Days

Init ==
  /\ leadStatus = [l \in Leads |-> "none"]
  /\ leadStay = [l \in Leads |-> NoStay]
  /\ matches = {}
  /\ bidStatus = [b \in Bids |-> "none"]
  /\ bidStay = [b \in Bids |-> NoStay]
  /\ bidAmount = [b \in Bids |-> 0]
  /\ counteredAmount = [b \in Bids |-> 0]
  /\ acceptedAt = [b \in Bids |-> 0]
  /\ createdAt = [b \in Bids |-> 0]
  /\ payStatus = [b \in Bids |-> "none"]
  /\ payAmount = [b \in Bids |-> 0]
  /\ bookings = {}
  /\ propStatus = [p \in Properties |-> IF p \in Managed THEN "draft" ELSE "active"]
  /\ b2bRate = B2BRate
  /\ lowestRate = B2BRate
  /\ blocks = {}
  /\ today = 1

--------------------------------------------------------------------------------
\* Queries the handlers share

\* The overlap test of every query: date ranges are inclusive at both ends.
OverlapsStrictly(s, t) == s.from < t.to /\ s.to > t.from  \* variant
Overlaps(s, t) == s.from <= t.to /\ s.to >= t.from

\* An active booking of the property (of the lead) exists.
BookedDuring(p, s) ==
  \E k \in bookings : PropertyOf(k.bid) = p /\ Overlaps(k.stay, s)
BlockedDuring(p, s) ==
  \E k \in blocks : k.property = p /\ Overlaps(k.range, s)
LeadBooked(l) == \E k \in bookings : LeadOf(k.bid) = l

\* Properties the matcher offers to lead l for stay s.
Candidates(l, s) ==
  {p \in Properties :
     /\ propStatus[p] = "active"
     /\ <<l, p>> \in Fits
     /\ ~ BookedDuring(p, s)
     /\ ~ BlockedDuring(p, s)
     /\ ~ \E b \in Bids : /\ PropertyOf(b) = p
                          /\ bidStatus[b] = "accepted"
                          /\ Overlaps(bidStay[b], s)}

BidsOfLead(l) == {b \in Bids : LeadOf(b) = l}

\* What the page of lead l lists: its matches, each with the bid on it.
LeadProperties(l) == {m \in matches : LeadOf(m) = l}

\* The other bids on b's property with the given status and overlapping dates.
Rivals(b, status) ==
  {o \in Bids \ {b} : /\ PropertyOf(o) = PropertyOf(b)
                      /\ bidStatus[o] = status
                      /\ Overlaps(bidStay[o], bidStay[b])}

\* Monthly quotas.  An agent's counts bid rows by created_at, a manager's
\* counts accepted_at stamps on bids of all his properties.
ThisMonth(day) ==
  /\ day # 0
  /\ (day - 1) \div MonthLength = (today - 1) \div MonthLength
Within(limit, used) == limit # NoLimit => Cardinality(used) < limit
LiveBidsThisMonth(a) ==  \* variant
  {b \in Bids : AgentOf[LeadOf(b)] = a /\ ThisMonth(createdAt[b]) /\ bidStatus[b] # "withdrawn"}
BidsThisMonth(a) ==
  {b \in Bids : AgentOf[LeadOf(b)] = a /\ ThisMonth(createdAt[b])}
StandingAcceptsThisMonth(m) ==  \* variant
  {b \in Bids : ManagerOf[PropertyOf(b)] = m /\ ThisMonth(acceptedAt[b]) /\ bidStatus[b] = "accepted"}
AcceptsThisMonth(m) ==
  {b \in Bids : ManagerOf[PropertyOf(b)] = m /\ ThisMonth(acceptedAt[b])}

--------------------------------------------------------------------------------
\* Leads (api/v1/leads.py, services/lead_matching_service.py)

CreateLead(l, s) ==
  /\ leadStatus[l] = "none"
  /\ leadStatus' = [leadStatus EXCEPT ![l] = "active"]
  /\ leadStay' = [leadStay EXCEPT ![l] = s]
  /\ matches' = matches \cup ({l} \X Candidates(l, s))
  /\ UNCHANGED <<bidVars, payVars, listingVars, today>>

\* A bid of any status but withdrawn freezes the terms of its lead.
EditableWhileOpen(l) ==  \* variant
  \A b \in BidsOfLead(l) : bidStatus[b] \in {"none", "withdrawn", "pending", "on_hold"}
Editable(l) == \A b \in BidsOfLead(l) : bidStatus[b] \in {"none", "withdrawn"}
UpdateLead(l, s) ==
  /\ leadStatus[l] \in {"draft", "active"}
  /\ Editable(l)
  /\ leadStay' = [leadStay EXCEPT ![l] = s]
  /\ matches' = (matches \ BidsOfLead(l)) \cup ({l} \X Candidates(l, s))
  /\ UNCHANGED <<leadStatus, bidVars, payVars, listingVars, today>>

UpdateLeadStatusAndHold(l) ==  \* variant
  /\ leadStatus[l] \in {"draft", "active", "lost"}
  /\ leadStatus' = [leadStatus EXCEPT ![l] = "lost"]
  /\ bidStatus' = [b \in Bids |-> IF LeadOf(b) = l /\ bidStatus[b] = "pending" THEN "on_hold"
                                  ELSE bidStatus[b]]
  /\ UNCHANGED <<leadStay, matches, offerVars, acceptedAt, createdAt, payVars,
                 listingVars, today>>
UpdateLeadStatus(l) ==
  /\ leadStatus[l] \in {"draft", "active", "lost"}
  /\ leadStatus' = [leadStatus EXCEPT ![l] = "lost"]
  /\ UNCHANGED <<leadStay, matches, bidVars, payVars, listingVars, today>>

\* A rematch adds matches and keeps those there are (replace_existing=False).
RematchAnew(l) ==  \* variant
  /\ leadStatus[l] = "active"
  /\ matches' = (matches \ BidsOfLead(l)) \cup ({l} \X Candidates(l, leadStay[l]))
  /\ UNCHANGED <<leadStatus, leadStay, bidVars, payVars, listingVars, today>>
Rematch(l) ==
  /\ leadStatus[l] = "active"
  /\ matches' = matches \cup ({l} \X Candidates(l, leadStay[l]))
  /\ UNCHANGED <<leadStatus, leadStay, bidVars, payVars, listingVars, today>>

\* GET /leads and GET /leads/{id} first expire every active lead whose
\* check_out has passed; the bids of those leads are left as they are.
LeadsPastCheckOut ==
  {l \in Leads : leadStatus[l] = "active" /\ leadStay[l].to < today}
ListLeads ==
  /\ LeadsPastCheckOut # {}
  /\ leadStatus' = [l \in Leads |-> IF l \in LeadsPastCheckOut THEN "expired"
                                    ELSE leadStatus[l]]
  /\ UNCHANGED <<leadStay, matches, bidVars, payVars, listingVars, today>>

\* The hourly job (services/lead_expiry_service.py) goes by check_in and
\* withdraws the bids still in play.
LeadsPastStay ==  \* variant
  {l \in Leads : leadStatus[l] \in {"draft", "active"} /\ leadStay[l].to < today}
OverdueLeads ==
  {l \in Leads : leadStatus[l] \in {"draft", "active"} /\ leadStay[l].from < today}
OverdueBids ==
  {b \in Bids : LeadOf(b) \in OverdueLeads /\ bidStatus[b] \in {"pending", "on_hold"}}
ExpireOverdueLeads ==
  /\ OverdueLeads # {}
  /\ leadStatus' = [l \in Leads |-> IF l \in OverdueLeads THEN "expired"
                                    ELSE leadStatus[l]]
  /\ bidStatus' = [b \in Bids |-> IF b \in OverdueBids THEN "withdrawn"
                                  ELSE bidStatus[b]]
  /\ UNCHANGED <<leadStay, matches, offerVars, acceptedAt, createdAt, payVars,
                 listingVars, today>>

--------------------------------------------------------------------------------
\* Bids of an agent (api/v1/leads.py)

\* A withdrawn row is used again: it keeps its counter, stamps and payment.
PlaceBid(b, amount) ==
  LET l == LeadOf(b)
      p == PropertyOf(b)
  IN
  /\ leadStatus[l] = "active"
  /\ ~ LeadBooked(l)
  /\ b \in matches
  /\ propStatus[p] = "active"
  /\ amount >= b2bRate[p]
  /\ ~ BookedDuring(p, leadStay[l])
  /\ ~ BlockedDuring(p, leadStay[l])
  /\ bidStatus[b] \in {"none", "withdrawn"}
  /\ Within(BidLimit[AgentOf[l]], BidsThisMonth(AgentOf[l]))
  /\ bidStatus' = [bidStatus EXCEPT ![b] = "pending"]
  /\ bidStay' = [bidStay EXCEPT ![b] = leadStay[l]]
  /\ bidAmount' = [bidAmount EXCEPT ![b] = amount]
  /\ createdAt' = [createdAt EXCEPT ![b] = IF bidStatus[b] = "none" THEN today ELSE @]
  /\ UNCHANGED <<leadVars, counteredAmount, acceptedAt, payVars, listingVars, today>>

\* Bid statuses once b has taken status s and its held rivals are revived,
\* and once b is accepted and its pending rivals are put on hold.
ReviveNobody(b, s) == [bidStatus EXCEPT ![b] = s]  \* variant
ReviveHeldBids(b, s) ==
  [o \in Bids |-> IF o = b THEN s
                  ELSE IF o \in Rivals(b, "on_hold") THEN "pending"
                  ELSE bidStatus[o]]
HoldRivals(b) ==
  [o \in Bids |-> IF o = b THEN "accepted"
                  ELSE IF o \in Rivals(b, "pending") THEN "on_hold"
                  ELSE bidStatus[o]]

\* The lead of an accepted bid is won; a rollback makes it active again.
WonLead(l) ==
  [leadStatus EXCEPT ![l] = IF @ = "active" THEN "won" ELSE @]
RevertLeadAlways(l) == [leadStatus EXCEPT ![l] = "active"]  \* variant
RevertLeadToActive(l) ==
  [leadStatus EXCEPT ![l] = IF @ = "won" THEN "active" ELSE @]

\* An accepted bid without a payment is given up: by its agent (withdrawn) or
\* by the manager (rejected).
RollBackAcceptedBid(b, s) ==
  /\ bidStatus[b] = "accepted"
  /\ payStatus[b] = "none"
  /\ bidStatus' = ReviveHeldBids(b, s)
  /\ leadStatus' = RevertLeadToActive(LeadOf(b))

ClosePendingBid(b, s) ==
  /\ bidStatus[b] = "pending"
  /\ bidStatus' = [bidStatus EXCEPT ![b] = s]
  /\ UNCHANGED leadStatus

WithdrawBid(b) ==
  /\ ClosePendingBid(b, "withdrawn") \/ RollBackAcceptedBid(b, "withdrawn")
  /\ UNCHANGED <<leadStay, matches, offerVars, acceptedAt, createdAt, payVars,
                 listingVars, today>>

--------------------------------------------------------------------------------
\* Decisions of a manager and the counter-offer (api/v1/bids.py)

RejectBid(b) ==
  /\ ClosePendingBid(b, "rejected") \/ RollBackAcceptedBid(b, "rejected")
  /\ UNCHANGED <<leadStay, matches, offerVars, acceptedAt, createdAt, payVars,
                 listingVars, today>>

\* What accepting does, whoever accepts.  The counter of b, if any, stays.
AcceptFlow(b) ==
  /\ bidStatus' = HoldRivals(b)
  /\ acceptedAt' = [acceptedAt EXCEPT ![b] = today]
  /\ leadStatus' = WonLead(LeadOf(b))

AcceptBid(b) ==
  LET m == ManagerOf[PropertyOf(b)] IN
  /\ bidStatus[b] = "pending"
  /\ Within(AcceptLimit[m], AcceptsThisMonth(m))
  /\ AcceptFlow(b)
  /\ UNCHANGED <<leadStay, matches, offerVars, createdAt, payVars, listingVars, today>>

CounterableBelowFloor(b, amount) == amount # bidAmount[b]  \* variant
Counterable(b, amount) == amount > b2bRate[PropertyOf(b)] /\ amount # bidAmount[b]
CounterBid(b, amount) ==
  /\ bidStatus[b] = "pending"
  /\ Counterable(b, amount)
  /\ counteredAmount' = [counteredAmount EXCEPT ![b] = amount]
  /\ UNCHANGED <<leadVars, bidStatus, bidStay, bidAmount, acceptedAt, createdAt,
                 payVars, listingVars, today>>

\* The agent takes the manager's price.  No quota is checked.
CounterOpen(b) == counteredAmount[b] # 0 /\ bidStatus[b] = "pending"
AcceptCounter(b) ==
  /\ CounterOpen(b)
  /\ bidAmount' = [bidAmount EXCEPT ![b] = counteredAmount[b]]
  /\ counteredAmount' = [counteredAmount EXCEPT ![b] = 0]
  /\ AcceptFlow(b)
  /\ UNCHANGED <<leadStay, matches, bidStay, createdAt, payVars, listingVars, today>>

\* Declining looks only at the counter, not at the status of the bid.
DeclineCounter(b) ==
  /\ counteredAmount[b] # 0
  /\ bidStatus' = [bidStatus EXCEPT ![b] = "withdrawn"]
  /\ counteredAmount' = [counteredAmount EXCEPT ![b] = 0]
  /\ UNCHANGED <<leadVars, bidStay, bidAmount, acceptedAt, createdAt, payVars,
                 listingVars, today>>

--------------------------------------------------------------------------------
\* Payments and bookings (api/v1/bid_payments.py)

\* Cash collected by the agent; one payment row per bid, ever.
PayableAnyStatus(b) == payStatus[b] = "none"  \* variant
Payable(b) == bidStatus[b] = "accepted" /\ payStatus[b] = "none"
CreateBidPayment(b) ==
  /\ Payable(b)
  /\ payStatus' = [payStatus EXCEPT ![b] = "initiated"]
  /\ payAmount' = [payAmount EXCEPT ![b] = bidAmount[b]]
  /\ UNCHANGED <<leadVars, bidVars, bookings, listingVars, today>>

\* The booking takes the bid's present dates and amount; the status of the bid
\* is not looked at.  Every other live bid of the same lead is rejected.
BookingOfLead(b) == [bid |-> b, stay |-> leadStay[LeadOf(b)], amount |-> bidAmount[b]]  \* variant
BookingOf(b) == [bid |-> b, stay |-> bidStay[b], amount |-> bidAmount[b]]
LosingStatusesButAccepted == {"pending", "on_hold"}  \* variant
LosingStatuses == {"pending", "on_hold", "accepted"}
ConfirmBidPayment(b) ==
  /\ payStatus[b] = "initiated"
  /\ payStatus' = [payStatus EXCEPT ![b] = "confirmed"]
  /\ bookings' = IF \E k \in bookings : k.bid = b THEN bookings
                 ELSE bookings \cup {BookingOf(b)}
  /\ bidStatus' = [o \in Bids |->
                     IF /\ o # b
                        /\ LeadOf(o) = LeadOf(b)
                        /\ bidStatus[o] \in LosingStatuses
                     THEN "rejected" ELSE bidStatus[o]]
  /\ UNCHANGED <<leadVars, offerVars, acceptedAt, createdAt, payAmount, listingVars,
                 today>>

--------------------------------------------------------------------------------
\* Listings (api/v1/properties.py)

\* Whether a draft has the rates, photo and room that publishing asks for is
\* left open.
Publish(p) ==
  /\ propStatus[p] = "draft"
  /\ propStatus' = [propStatus EXCEPT ![p] = "active"]
  /\ UNCHANGED <<leadVars, bidVars, payVars, rateVars, blocks, today>>

SetActive(p, s) ==
  /\ propStatus[p] \in {"active", "inactive"}
  /\ propStatus' = [propStatus EXCEPT ![p] = s]
  /\ UNCHANGED <<leadVars, bidVars, payVars, rateVars, blocks, today>>

CloseProperty(p) ==
  /\ propStatus[p] = "active"
  /\ propStatus' = [propStatus EXCEPT ![p] = "booked"]
  /\ UNCHANGED <<leadVars, bidVars, payVars, rateVars, blocks, today>>

\* PATCH writes any status and any rate, whatever bids there are.
UpdateProperty(p, s, rate) ==
  /\ propStatus' = [propStatus EXCEPT ![p] = s]
  /\ b2bRate' = [b2bRate EXCEPT ![p] = rate]
  /\ lowestRate' = [lowestRate EXCEPT ![p] = IF rate < @ THEN rate ELSE @]
  /\ UNCHANGED <<leadVars, bidVars, payVars, blocks, today>>

CreateBlock(p, r) ==
  /\ ~ BookedDuring(p, r)
  /\ blocks' = blocks \cup {[property |-> p, range |-> r]}
  /\ UNCHANGED <<leadVars, bidVars, payVars, propStatus, rateVars, today>>

\* blocks holds the distinct ranges; deleting one of two equal rows stutters.
DeleteBlock(k) ==
  /\ blocks' = blocks \ {k}
  /\ UNCHANGED <<leadVars, bidVars, payVars, propStatus, rateVars, today>>

--------------------------------------------------------------------------------
Tick ==
  /\ today < Horizon
  /\ today' = today + 1
  /\ UNCHANGED <<leadVars, bidVars, payVars, listingVars>>

LeadStep(l) ==
  \/ \E s \in Stays : CreateLead(l, s) \/ UpdateLead(l, s)
  \/ UpdateLeadStatus(l)
  \/ Rematch(l)

BidStep(b) ==
  \/ \E amount \in Rates : PlaceBid(b, amount) \/ CounterBid(b, amount)
  \/ WithdrawBid(b)
  \/ RejectBid(b)
  \/ AcceptBid(b)
  \/ AcceptCounter(b)
  \/ DeclineCounter(b)
  \/ CreateBidPayment(b)
  \/ ConfirmBidPayment(b)

ListingStep(p) ==
  \/ Publish(p)
  \/ \E s \in {"active", "inactive"} : SetActive(p, s)
  \/ CloseProperty(p)
  \/ \E s \in PropertyStatuses, rate \in NewRates \cup {b2bRate[p]} : UpdateProperty(p, s, rate)
  \/ \E r \in BlockRanges : CreateBlock(p, r)

Next ==
  \/ \E l \in Leads : LeadStep(l)
  \/ \E b \in Bids : BidStep(b)
  \/ \E p \in Managed : ListingStep(p)
  \/ \E k \in blocks : DeleteBlock(k)
  \/ ListLeads
  \/ ExpireOverdueLeads
  \/ Tick

Spec == Init /\ [][Next]_vars

\* Under uvicorn the scheduler runs the expiry job every hour, for ever, and
\* survives its failures.  Nothing obliges a person to act.
FairSpec == Spec /\ WF_vars(ExpireOverdueLeads)
================================================================================
