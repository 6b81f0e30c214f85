--------------------------------- MODULE Races ---------------------------------
(***************************************************************************)
(* The marketplace with a slow request.  A handler reads its rows, decides *)
(* and commits; no row is locked and no version is compared, so whatever   *)
(* others commit in between is decided over.  One request at a time takes  *)
(* a view of the tables, and later commits what its handler does to that   *)
(* view; the other handlers run in one step, as in module Marketplace.     *)
(*                                                                         *)
(* A commit writes the cells that the handler changed in its view.  Where  *)
(* the tables have a unique constraint, a second insert fails.             *)
(***************************************************************************)
EXTENDS MarketplaceProperties

CONSTANTS
  SlowHandlers,  \* bound: the handlers that may be slow
  MaxBetween     \* bound: steps of others between its reads and its commit

VARIABLES
  vLeadStatus, vLeadStay, vMatches, vBidStatus, vBidStay, vBidAmount,
  vCounteredAmount, vAcceptedAt, vCreatedAt, vPayStatus, vPayAmount, vBookings,
  vPropStatus, vB2bRate, vBlocks, vLowestRate, vToday,  \* the view
  slow,     \* "none", "reading", "committed" or "gone"
  between,  \* steps of others since the slow request read
  culprit   \* history: the handler that committed from old rows, or "none"

viewVars == <<vLeadStatus, vLeadStay, vMatches, vBidStatus, vBidStay, vBidAmount,
  vCounteredAmount, vAcceptedAt, vCreatedAt, vPayStatus, vPayAmount, vBookings,
  vPropStatus, vB2bRate, vBlocks, vLowestRate, vToday>>

View == INSTANCE Marketplace WITH
  leadStatus <- vLeadStatus, leadStay <- vLeadStay, matches <- vMatches,
  bidStatus <- vBidStatus, bidStay <- vBidStay, bidAmount <- vBidAmount,
  counteredAmount <- vCounteredAmount, acceptedAt <- vAcceptedAt,
  createdAt <- vCreatedAt, payStatus <- vPayStatus, payAmount <- vPayAmount,
  bookings <- vBookings, propStatus <- vPropStatus, b2bRate <- vB2bRate,
  blocks <- vBlocks, lowestRate <- vLowestRate, today <- vToday

raceVars == <<viewVars, slow, between, culprit>>
allVars == <<vars, raceVars>>

None == "none"
InitR ==
  /\ Init
  /\ slow = None /\ between = 0 /\ culprit = None
  /\ vLeadStatus = None /\ vLeadStay = None /\ vMatches = None
  /\ vBidStatus = None /\ vBidStay = None /\ vBidAmount = None
  /\ vCounteredAmount = None /\ vAcceptedAt = None /\ vCreatedAt = None
  /\ vPayStatus = None /\ vPayAmount = None /\ vBookings = None
  /\ vPropStatus = None /\ vB2bRate = None /\ vBlocks = None
  /\ vLowestRate = None /\ vToday = None

\* The slow request reads all it needs at once, ...
ReadView ==
  /\ vLeadStatus' = leadStatus /\ vLeadStay' = leadStay /\ vMatches' = matches
  /\ vBidStatus' = bidStatus /\ vBidStay' = bidStay /\ vBidAmount' = bidAmount
  /\ vCounteredAmount' = counteredAmount /\ vAcceptedAt' = acceptedAt
  /\ vCreatedAt' = createdAt /\ vPayStatus' = payStatus /\ vPayAmount' = payAmount
  /\ vBookings' = bookings /\ vPropStatus' = propStatus /\ vB2bRate' = b2bRate
  /\ vBlocks' = blocks /\ vLowestRate' = lowestRate /\ vToday' = today
Begin ==
  /\ slow = None
  /\ slow' = "reading"
  /\ ReadView
  /\ UNCHANGED <<vars, between, culprit>>

\* ... while it works the others go on, ...
Meanwhile ==
  /\ slow # "committed"
  /\ Next
  /\ between' = IF slow = "reading" THEN between + 1 ELSE between
  /\ between' <= MaxBetween
  /\ UNCHANGED <<viewVars, slow, culprit>>

\* ... it runs one of these handlers on what it read, ...
Handler(name) ==
  \/ \E b \in Bids :
       \/ name = "place_bid" /\ \E amount \in Rates : View!PlaceBid(b, amount)
       \/ name = "withdraw_bid" /\ View!WithdrawBid(b)
       \/ name = "reject_bid" /\ View!RejectBid(b)
       \/ name = "accept_bid" /\ View!AcceptBid(b)
       \/ name = "accept_counter" /\ View!AcceptCounter(b)
       \/ name = "create_bid_payment" /\ View!CreateBidPayment(b)
       \/ name = "confirm_bid_payment" /\ View!ConfirmBidPayment(b)
  \/ \E l \in Leads :
       \/ name = "update_lead" /\ \E s \in Stays : View!UpdateLead(l, s)
       \/ name = "update_lead_status" /\ View!UpdateLeadStatus(l)

\* ... and commits the difference, cell by cell and row by row, ...
MergeAll(now, old, new) == new  \* variant
Merge(now, old, new) ==
  [x \in DOMAIN now |-> IF new[x] # old[x] THEN new[x] ELSE now[x]]
MergeRows(now, old, new) == (now \ (old \ new)) \union (new \ old)

\* ... unless a row it inserts, unique in its table, came in between.
Inserted(old, new) == {b \in Bids : old[b] = "none" /\ new[b] # "none"}
Conflict(bids, pays, pairs) ==
  \/ \E b \in bids : bidStatus[b] # "none"
  \/ \E b \in pays : payStatus[b] # "none"
  \/ pairs \cap matches # {}

\* (With nothing in between it is a step of module Marketplace.)
Commit(name) ==
  /\ slow = "reading"
  /\ between > 0
  /\ Handler(name)
  /\ ~ Conflict(Inserted(vBidStatus, vBidStatus'), Inserted(vPayStatus, vPayStatus'),
                vMatches' \ vMatches)
  /\ leadStatus' = Merge(leadStatus, vLeadStatus, vLeadStatus')
  /\ leadStay' = Merge(leadStay, vLeadStay, vLeadStay')
  /\ matches' = MergeRows(matches, vMatches, vMatches')
  /\ bidStatus' = Merge(bidStatus, vBidStatus, vBidStatus')
  /\ bidStay' = Merge(bidStay, vBidStay, vBidStay')
  /\ bidAmount' = Merge(bidAmount, vBidAmount, vBidAmount')
  /\ counteredAmount' = Merge(counteredAmount, vCounteredAmount, vCounteredAmount')
  /\ acceptedAt' = Merge(acceptedAt, vAcceptedAt, vAcceptedAt')
  /\ createdAt' = Merge(createdAt, vCreatedAt, vCreatedAt')
  /\ payStatus' = Merge(payStatus, vPayStatus, vPayStatus')
  /\ payAmount' = Merge(payAmount, vPayAmount, vPayAmount')
  /\ bookings' = MergeRows(bookings, vBookings, vBookings')
  /\ UNCHANGED <<listingVars, today, between>>
  /\ slow' = "committed"
  /\ culprit' = name

\* Its view is gone with it.
ForgetView ==
  /\ vLeadStatus' = None /\ vLeadStay' = None /\ vMatches' = None
  /\ vBidStatus' = None /\ vBidStay' = None /\ vBidAmount' = None
  /\ vCounteredAmount' = None /\ vAcceptedAt' = None /\ vCreatedAt' = None
  /\ vPayStatus' = None /\ vPayAmount' = None /\ vBookings' = None
  /\ vPropStatus' = None /\ vB2bRate' = None /\ vBlocks' = None
  /\ vLowestRate' = None /\ vToday' = None
Leave ==
  /\ slow = "committed"
  /\ slow' = "gone"
  /\ between' = 0
  /\ ForgetView
  /\ UNCHANGED <<vars, culprit>>

NextR ==
  \/ Meanwhile
  \/ Begin
  \/ \E name \in SlowHandlers : Commit(name)
  \/ Leave

SpecR == InitR /\ [][NextR]_allVars

--------------------------------------------------------------------------------
\* Safety, whatever a slow request decides on

\* A bid has a booking exactly when its payment is confirmed: no race between
\* the handlers leaves a paid bid unbooked or takes a confirmation back (confirm's
\* two writes are one commit, and no handler writes a column it did not change).
BookedIffConfirmed == \A b \in Bids : Booked(b) <=> payStatus[b] = "confirmed"

\* A live bid comes to have other dates than its lead in three ways only: a slow
\* place_bid makes it with the dates, or in the row, that it read before they were
\* changed; a slow update_lead moves the lead under a bid it has not seen; or a slow
\* acceptance, or end of an acceptance, brings back a bid that was withdrawn after it
\* had read it open, whose lead was free to be edited.
Parted(b) == bidStatus[b] \in Live /\ bidStay[b] # leadStay[LeadOf(b)]
PartsFromOldRows(b) ==
  /\ slow = "reading" /\ slow' = "committed"
  /\ \/ /\ culprit' = "place_bid"
        /\ vLeadStay[LeadOf(b)] # leadStay[LeadOf(b)] \/ vBidStay[b] # bidStay[b]
     \/ /\ culprit' = "update_lead"
        /\ vBidStatus[b] \in {"none", "withdrawn"} /\ bidStatus[b] \in Live
     \/ /\ culprit' \in {"accept_bid", "accept_counter", "withdraw_bid", "reject_bid"}
        /\ vBidStatus[b] \in {"pending", "on_hold"} /\ bidStatus[b] = "withdrawn"
DatesPartOnlyFromOldRows ==
  [][\A b \in Bids : ~ Parted(b) /\ Parted(b)' => PartsFromOldRows(b)]_allVars

\* A lost or expired lead comes back only from what an overtaken acceptance or
\* rollback still read: that the lead was active, or that it was won.
ClosedLeadReturnsOnlyFromOldRows ==
  [][\A l \in Leads :
       /\ leadStatus[l] \in {"lost", "expired"}
       /\ leadStatus'[l] \notin {"lost", leadStatus[l]}
       => /\ slow = "reading" /\ slow' = "committed"
          /\ \/ /\ culprit' \in {"accept_bid", "accept_counter"}
                /\ vLeadStatus[l] = "active" /\ leadStatus'[l] = "won"
             \/ /\ culprit' \in {"withdraw_bid", "reject_bid"}
                /\ vLeadStatus[l] = "won" /\ leadStatus'[l] = "active"]_allVars
================================================================================
