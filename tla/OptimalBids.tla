----------------------------- MODULE OptimalBids -------------------------------
(***************************************************************************)
(* The recommendation a manager asks for on a property: of its pending     *)
(* bids, the ones worth most that can all be accepted.  The handler runs   *)
(* alone over the rows its one query returned, so its loops are the steps  *)
(* of a sequential program and the rows are a constant of the behaviour.   *)
(* Python's indices are shifted by one: 0 stands for its -1, and best[0]   *)
(* for the zero it uses there.  The reply also names the highest single    *)
(* bid, which the recommendation does not depend on and is left out.       *)
(***************************************************************************)
EXTENDS Integers, Sequences, FiniteSetsExt

CONSTANTS
  Days,       \* calendar days
  Amounts,    \* what an agent offers
  MaxBids     \* bound on the pending bids of a property

ASSUME DaysAssumption == Days \subseteq Int
ASSUME AmountsAssumption == Amounts \subseteq Nat

VARIABLES
  bids,       \* the pending bids, in the order of the query
  phase,      \* the loop the handler is in
  at,         \* its index i
  prev,       \* the last bid that ends before each one starts
  best,       \* dp: the most the first bids are worth
  take,       \* whether a bid adds to it
  chosen,     \* the recommended bids found so far
  total       \* the total_amount replied

vars == <<bids, phase, at, prev, best, take, chosen, total>>

Bids == {b \in [from : Days, to : Days, amount : Amounts] : b.from < b.to}
n == Len(bids)

\* The query's order: by the last day, then by the first.
Sorted(s) ==
  \A i, j \in 1..Len(s) : i < j =>
    \/ s[i].to < s[j].to
    \/ s[i].to = s[j].to /\ s[i].from <= s[j].from

Init ==
  /\ bids \in {s \in UNION {[1..k -> Bids] : k \in 0..MaxBids} : Sorted(s)}
  /\ phase = "previous" /\ at = 1
  /\ prev = [i \in 1..n |-> 0]
  /\ best = [i \in 0..n |-> 0]
  /\ take = [i \in 1..n |-> FALSE]
  /\ chosen = {} /\ total = 0

\* Nothing pending: the handler replies at once.
ReplyEmpty ==
  /\ phase = "previous" /\ n = 0
  /\ phase' = "replied" /\ at' = 0
  /\ UNCHANGED <<bids, prev, best, take, chosen, total>>

LatestTouching(i, j) ==  \* variant
  /\ j > 0 => bids[j].to <= bids[i].from
  /\ \A k \in (j + 1)..(i - 1) : ~ (bids[k].to <= bids[i].from)
EarliestBefore(i, j) ==  \* variant
  /\ IF j > 0 THEN bids[j].to < bids[i].from
              ELSE \A k \in 1..(i - 1) : ~ (bids[k].to < bids[i].from)
  /\ \A k \in 1..(j - 1) : ~ (bids[k].to < bids[i].from)

\* Of the bids before i, j is the last that ends before i starts.
LatestBefore(i, j) ==
  /\ j > 0 => bids[j].to < bids[i].from
  /\ \A k \in (j + 1)..(i - 1) : ~ (bids[k].to < bids[i].from)

\* First loop: find the bids that can precede each bid.
FindPrevious ==
  /\ phase = "previous" /\ n > 0
  /\ \E j \in 0..(at - 1) : LatestBefore(at, j) /\ prev' = [prev EXCEPT ![at] = j]
  /\ IF at < n
     THEN at' = at + 1 /\ UNCHANGED phase
     ELSE at' = 1 /\ phase' = "best"
  /\ UNCHANGED <<bids, best, take, chosen, total>>

\* What the first i bids are worth when bid i is one of them.
WithBid(i) == bids[i].amount + best[prev[i]]

\* Second loop: take a bid when it beats the best without it.
Weigh ==
  /\ phase = "best"
  /\ IF WithBid(at) > best[at - 1]
     THEN /\ best' = [best EXCEPT ![at] = WithBid(at)]
          /\ take' = [take EXCEPT ![at] = TRUE]
     ELSE /\ best' = [best EXCEPT ![at] = best[at - 1]]
          /\ UNCHANGED take
  /\ IF at < n
     THEN at' = at + 1 /\ UNCHANGED phase
     ELSE at' = n /\ phase' = "choose"
  /\ UNCHANGED <<bids, prev, chosen, total>>

\* Third loop: walk back over the bids that were taken.
Choose ==
  /\ phase = "choose" /\ at > 0
  /\ IF take[at]
     THEN chosen' = chosen \union {at} /\ at' = prev[at]
     ELSE at' = at - 1 /\ UNCHANGED chosen
  /\ UNCHANGED <<bids, phase, prev, best, take, total>>

Reply ==
  /\ phase = "choose" /\ at = 0
  /\ phase' = "replied" /\ total' = best[n]
  /\ UNCHANGED <<bids, at, prev, best, take, chosen>>

Next == ReplyEmpty \/ FindPrevious \/ Weigh \/ Choose \/ Reply

Spec == Init /\ [][Next]_vars

--------------------------------------------------------------------------------
\* The rule accept_bid holds rivals by: two stays share a day.
ShareDay(b, c) == b.from <= c.to /\ c.from <= b.to

\* A set of bids that can all be accepted.
Compatible(K) == \A i, j \in K : i # j => ~ ShareDay(bids[i], bids[j])

\* worth[j] is what the bids of K among the first j are worth: nothing at
\* first, the same over a stretch without K, more by its amount at a bid of K.
Adds(worth, K) ==
  /\ worth[0] = 0
  /\ \A i, j \in 0..n : i < j =>
       /\ K \intersect (i + 1)..j = {} => worth[j] = worth[i]
       /\ j \in K /\ K \intersect (i + 1)..(j - 1) = {}
            => worth[j] = worth[i] + bids[j].amount

\* No two recommended bids share a day, so that accepting one of them never
\* puts another on hold.
RecommendedBidsFit == phase = "replied" => Compatible(chosen)

\* The total replied is what the recommended bids are worth, and no set of
\* bids that can all be accepted is worth more.
TotalIsBest ==
  phase = "replied" =>
    \A K \in SUBSET (1..n) : \A worth \in [0..n -> Int] :
      Adds(worth, K) =>
        /\ K = chosen => worth[n] = total
        /\ Compatible(K) => worth[n] <= total

\* What a set of bids is worth, and its worth bid by bid.
Worth(K) == MapThenSumSet(LAMBDA i : bids[i].amount, K)
Running(K) == [j \in 0..n |-> Worth(K \intersect 1..j)]

\* TotalIsBest with the sum of the amounts for the running worth of a set: the
\* tables of the two loops and the walk back agree with trying every set.
RecommendationIsBest ==
  phase = "replied" =>
    \A K \in SUBSET (1..n) :
      /\ Adds(Running(K), K)
      /\ K = chosen => Worth(K) = total
      /\ Compatible(K) => Worth(K) <= total
================================================================================
