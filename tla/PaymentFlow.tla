------------------------------ MODULE PaymentFlow ------------------------------
(***************************************************************************)
(* What the accept-to-booking flow promises for every bid, whatever else   *)
(* happens to it: it is accepted, then a payment is recorded, then the     *)
(* payment is confirmed and the booking lands.  No stage is skipped and    *)
(* none is ever undone, even when the bid itself is withdrawn or rejected. *)
(* (Module docstrings of api/v1/bid_payments.py and api/v1/bookings.py.)   *)
(***************************************************************************)
CONSTANT Bids

VARIABLE stage      \* how far each bid has got

Stages == {"open", "accepted", "invoiced", "booked"}

TypeOK == stage \in [Bids -> Stages]

Init == stage = [b \in Bids |-> "open"]

\* A bid moves from one stage to the next.
Advance(b, from, to) ==
  /\ stage[b] = from
  /\ stage' = [stage EXCEPT ![b] = to]

Accept(b)  == Advance(b, "open", "accepted")
Invoice(b) == Advance(b, "accepted", "invoiced")
Book(b)    == Advance(b, "invoiced", "booked")

Next == \E b \in Bids : Accept(b) \/ Invoice(b) \/ Book(b)

Spec == Init /\ [][Next]_stage
================================================================================
