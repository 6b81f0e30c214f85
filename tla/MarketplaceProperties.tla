------------------------- MODULE MarketplaceProperties -------------------------
(***************************************************************************)
(* What the marketplace must guarantee, stated over the tables of module   *)
(* Marketplace; and, at the end, what its documentation promises but the   *)
(* handlers do not keep.                                                   *)
(***************************************************************************)
EXTENDS Marketplace

Live == {"pending", "on_hold", "accepted"}
Booked(b) == \E k \in bookings : k.bid = b
ShareADay(s, t) == \E d \in s.from .. s.to : d \in t.from .. t.to

\* The bids a step places: place_bid makes a new row or takes a withdrawn one.
PlacedNow ==
  {b \in Bids : bidStatus[b] \in {"none", "withdrawn"} /\ bidStatus'[b] = "pending"}

--------------------------------------------------------------------------------
\* Safety

\* Once a lead has a booking, its other bids have lost and no new one can be
\* placed: a live bid of a booked lead is the booked one, and the only one
\* (confirm_bid_payment's rejections and place_bid's booking check together).
BookedLeadIsSettled ==
  \A k \in bookings : \A b, c \in BidsOfLead(LeadOf(k.bid)) :
    /\ bidStatus[b] \in Live => Booked(b)
    /\ bidStatus[b] \in Live /\ bidStatus[c] \in Live => b = c

\* A booking exists for exactly the bids whose payment is confirmed, and keeps
\* the dates of its bid, even when the bid was withdrawn after it was paid for
\* and its lead has moved to other dates.
BookingFollowsBid ==
  /\ \A b \in Bids : Booked(b) <=> payStatus[b] = "confirmed"
  /\ \A k \in bookings : k.stay = bidStay[k.bid]

\* A bid that was not withdrawn is for the dates its lead has now: the edit of
\* a lead and the bids on it exclude each other.
LiveBidsKeepLeadDates ==
  \A b \in Bids : bidStatus[b] \notin {"none", "withdrawn"} =>
                    bidStay[b] = leadStay[LeadOf(b)]

\* A bid that was not withdrawn is on the page of its lead, which lists bids by the
\* matches of the lead: a lead that is edited or matched again loses no match
\* with a bid on it (hidden matches are listed too).
LiveBidsStayListed ==
  \A b \in Bids : bidStatus[b] \notin {"none", "withdrawn"} =>
                    b \in LeadProperties(LeadOf(b))

\* Nobody pays, and nothing is booked, below the least B2B rate the property has
\* had, along every path of offers, counter-offers and changes of the rate (an
\* offer made before a rise stays good after it).
NoDealBelowFloor ==
  /\ \A b \in Bids : payStatus[b] # "none" => payAmount[b] >= lowestRate[PropertyOf(b)]
  /\ \A k \in bookings : k.amount >= lowestRate[PropertyOf(k.bid)]

--------------------------------------------------------------------------------
\* What a step may never do

\* When a bid becomes accepted no other bid on the property that shares a day
\* with it stays pending, by whichever of the two accept handlers.
AcceptPausesRivals ==
  [][\A b, o \in Bids :
       /\ bidStatus[b] # "accepted" /\ bidStatus'[b] = "accepted"
       /\ o # b /\ PropertyOf(o) = PropertyOf(b) /\ ShareADay(bidStay[o], bidStay[b])
       => bidStatus'[o] # "pending"]_vars

\* Giving up an accepted bid nobody paid for frees its lead and every bid that
\* was held on those dates (the counter and the bookings are not touched, which
\* leaves out decline_counter and confirm_bid_payment).
RollbackFreesLeadAndRivals ==
  [][\A b \in Bids :
       /\ bidStatus[b] = "accepted" /\ bidStatus'[b] # "accepted"
       /\ UNCHANGED <<counteredAmount, bookings>>
       => /\ payStatus[b] = "none"
          /\ leadStatus'[LeadOf(b)] # "won"
          /\ \A o \in Bids :
               /\ o # b /\ PropertyOf(o) = PropertyOf(b)
               /\ ShareADay(bidStay[o], bidStay[b])
               => bidStatus'[o] # "on_hold"]_vars

\* A lost or expired lead is never opened or won again, whatever becomes of
\* the bids it still has.
ClosedLeadStaysClosed ==
  [][\A l \in Leads : leadStatus[l] \in {"lost", "expired"} =>
                        leadStatus'[l] \in {"lost", leadStatus[l]}]_vars

\* The price of an accepted bid does not move while it stays accepted.
AgreedPriceIsFrozen ==
  [][\A b \in Bids : bidStatus[b] = "accepted" /\ bidStatus'[b] = "accepted" =>
                       bidAmount'[b] = bidAmount[b]]_vars

\* Once a lead has a booking, no payment is recorded for another bid of it, so the
\* only bids that can still be booked on it are those that were invoiced before and
\* have lost or been withdrawn since (create_bid_payment after the rejections of
\* confirm_bid_payment, which does not look at the status itself).
OnlyOldPaymentsBookAgain ==
  [][\A k \in bookings : \A b \in BidsOfLead(LeadOf(k.bid)) :
       /\ payStatus[b] = "none" => payStatus'[b] = "none"
       /\ ~ Booked(b) /\ Booked(b)' => bidStatus[b] \in {"rejected", "withdrawn"}]_vars

\* Every bid goes accepted, invoiced, booked; no stage is skipped or undone.
Stage(b) ==
  CASE Booked(b) -> "booked"
    [] ~ Booked(b) /\ payStatus[b] = "initiated" -> "invoiced"
    [] ~ Booked(b) /\ payStatus[b] # "initiated" /\ acceptedAt[b] # 0 -> "accepted"
    [] OTHER -> "open"

Flow == INSTANCE PaymentFlow WITH stage <- [b \in Bids |-> Stage(b)]
ImplementsPaymentFlow == Flow!Spec

--------------------------------------------------------------------------------
\* Liveness, under FairSpec

\* A lead whose check-in has passed does not stay open: the job expires it,
\* unless its agent moves its dates or closes it, or a manager accepts a bid.
OverdueLeadsExpire ==
  \A l \in Leads :
    (leadStatus[l] = "active" /\ leadStay[l].from < today)
      ~> (leadStatus[l] # "active" \/ leadStay[l].from >= today)

--------------------------------------------------------------------------------
\* What the documentation says and the handlers do not keep

\* api/v1/bid_payments.py: "The customer is now booked; no other manager should be
\* able to accept a stale bid for them."
OneBookingPerLead ==
  \A j, k \in bookings : LeadOf(j.bid) = LeadOf(k.bid) => j = k
================================================================================
