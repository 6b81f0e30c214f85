----------------------------- MODULE Announcements -----------------------------
(***************************************************************************)
(* The marketplace of LeadEdits with what its handlers tell agents: the    *)
(* notifications of services/notification_service.py about what was        *)
(* decided on a bid. Of those an agent has about each bid the newest is    *)
(* kept, the word he had last.  They are rows of the handler's own         *)
(* transaction and come with the change they report.  Left out are the     *)
(* notifications that a chat message of the bid has landed, which decide   *)
(* nothing, and what managers are told (module Inbox).                     *)
(***************************************************************************)
EXTENDS LeadEdits

Words ==
  {"none", "bid_accepted", "bid_held", "bid_rejected", "bid_countered", "payment_confirmed"}

VARIABLE agentWord  \* the event of the newest notification about each bid

toldVars == <<editVars, agentWord>>

Tell(bids, event) == [o \in Bids |-> IF o \in bids THEN event ELSE agentWord[o]]

\* The helpers of the handlers.
OnBidRejected(bids) == Tell(bids, "bid_rejected")
OnBidCountered(b) == Tell({b}, "bid_countered")
OnBidAccepted(b, held) == [Tell(held, "bid_held") EXCEPT ![b] = "bid_accepted"]
OnPaymentConfirmed(b, losers) == [OnBidRejected(losers) EXCEPT ![b] = "payment_confirmed"]

InitA == InitE /\ agentWord = [b \in Bids |-> "none"]

\* Both ways to accept tell the agent, and the agents of the bids they hold.
AcceptQuietly(b) ==  \* variant
  \/ AcceptBid(b) /\ agentWord' = OnBidAccepted(b, Rivals(b, "pending"))
  \/ AcceptCounter(b) /\ agentWord' = OnBidAccepted(b, {})
AcceptAnd(b) ==
  /\ AcceptBid(b) \/ AcceptCounter(b)
  /\ agentWord' = OnBidAccepted(b, Rivals(b, "pending"))

\* A rejection tells its agent; the held bids it revives are not mentioned.
RejectAnd(b) == RejectBid(b) /\ agentWord' = OnBidRejected({b})

CounterAnd(b, amount) == CounterBid(b, amount) /\ agentWord' = OnBidCountered(b)

\* A confirmation tells the agents of the bids it rejects, and of the booked one.
Losers(b) == {o \in BidsOfLead(LeadOf(b)) \ {b} : bidStatus[o] \in LosingStatuses}
ConfirmAnd(b) ==
  ConfirmBidPayment(b) /\ agentWord' = OnPaymentConfirmed(b, Losers(b))

\* The agent hears nothing of what he does himself, nor of the expiry job.
Silent ==
  /\ \/ OtherHandler
     \/ \E b \in Bids : \/ \E amount \in Rates : PlaceBid(b, amount)
                        \/ WithdrawBid(b) \/ DeclineCounter(b) \/ CreateBidPayment(b)
  /\ UNCHANGED agentWord

Telling ==
  \E b \in Bids :
    \/ AcceptAnd(b) \/ RejectAnd(b) \/ ConfirmAnd(b)
    \/ \E amount \in Rates : CounterAnd(b, amount)

NextA ==
  \/ EditStep /\ UNCHANGED agentWord
  \/ (Silent \/ Telling) /\ Remember

SpecA == InitA /\ [][NextA]_toldVars

--------------------------------------------------------------------------------
\* The last word an agent has on a bid that was decided tells how, whichever
\* handler brought the bid to its status, in its own right or for the sake of
\* another bid.  (A booking keeps its own word; a bid that is open again may
\* still be announced as held.)
LastWordIsTrue ==
  \A b \in Bids : ~ Booked(b) =>
    /\ bidStatus[b] = "accepted" => agentWord[b] = "bid_accepted"
    /\ bidStatus[b] = "on_hold" => agentWord[b] = "bid_held"
    /\ bidStatus[b] = "rejected" => agentWord[b] = "bid_rejected"
================================================================================
