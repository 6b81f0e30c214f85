-------------------------- MODULE OptimalBidsProofs ----------------------------
(***************************************************************************)
(* The recommendation is right for every list of bids: by an invariant of  *)
(* each loop, with no induction over the list.  What the sum of a set of   *)
(* amounts is does take induction over sets, for which SmallestSet stands; *)
(* and the handler ends, because each turn leaves it fewer.                *)
(***************************************************************************)
EXTENDS OptimalBids, FiniteSetTheorems, WellFoundedInduction, TLAPS

\* The handler's locals are well typed and its index stays inside the list.
TypeOK ==
  /\ bids \in Seq(Bids) /\ Sorted(bids)
  /\ phase \in {"previous", "best", "choose", "replied"}
  /\ at \in Nat
  /\ phase \in {"previous", "best"} => at > 0
  /\ n > 0 => at <= n
  /\ phase \in {"best", "choose"} => n > 0
  /\ prev \in [1..n -> 0..n]
  /\ best \in [0..n -> Nat]
  /\ take \in [1..n -> BOOLEAN]
  /\ chosen \in SUBSET (1..n)
  /\ total \in Nat

\* The first loop has found the predecessor of every bid it passed.
PrevFound ==
  \A i \in 1..n : phase # "previous" \/ i < at =>
    prev[i] < i /\ LatestBefore(i, prev[i])

\* The bids the second loop has weighed, with 0 for the empty list.
Weighed ==
  {i \in 0..n : i = 0 \/ phase \in {"choose", "replied"} \/ (phase = "best" /\ i < at)}

\* The second loop keeps the better of the two choices, and remembers it.
BestFound ==
  /\ best[0] = 0
  /\ \A i \in Weighed \ {0} :
       IF take[i] THEN best[i] = WithBid(i) ELSE best[i] = best[i - 1]
  /\ \A i \in 1..n : take[i] => i \in Weighed

\* No compatible bids among those weighed are worth more than the table says.
BestBounds ==
  \A K \in SUBSET (1..n) : \A worth \in [0..n -> Int] :
    Compatible(K) /\ Adds(worth, K) => \A j \in Weighed : worth[j] <= best[j]

\* The bids chosen fit each other, and start after all the bids still ahead.
ChosenFit ==
  /\ phase \in {"previous", "best"} => chosen = {}
  /\ Compatible(chosen)
  /\ phase \in {"choose", "replied"} =>
       \A k \in chosen : at < k /\ \A j \in 1..at : bids[j].to < bids[k].from

\* The bids chosen are worth what the table falls by over the walk.
ChosenWorth ==
  phase \in {"choose", "replied"} =>
    \A K \in SUBSET (1..n) : \A worth \in [0..n -> Int] :
      Adds(worth, K) /\ K \intersect (at + 1)..n = chosen
        => worth[n] - worth[at] = best[n] - best[at]

\* The total is set once the walk has ended.
Replied == IF phase = "replied" THEN total = best[n] /\ at = 0 ELSE total = 0

IInv ==
  TypeOK /\ PrevFound /\ BestFound /\ BestBounds /\ ChosenFit /\ ChosenWorth /\ Replied

--------------------------------------------------------------------------------
\* What a bid of the list is made of.
LEMMA BidsAreTyped ==
  ASSUME TypeOK, NEW i \in 1..n
  PROVE  /\ bids[i].from \in Int /\ bids[i].to \in Int
         /\ bids[i].from < bids[i].to
         /\ bids[i].amount \in Nat
<1>1. bids[i] \in Bids
  BY DEF TypeOK, n
<1>. QED
  BY <1>1, DaysAssumption, AmountsAssumption DEF Bids

\* A bid that ends first does not end later: the order of the query.
LEMMA ListIsSorted ==
  ASSUME TypeOK, NEW i \in 1..n, NEW j \in 1..n, i <= j
  PROVE  bids[i].to <= bids[j].to
<1>1. CASE i = j
  BY <1>1, BidsAreTyped
<1>2. CASE i < j
  <2>1. bids[i].to < bids[j].to \/ bids[i].to = bids[j].to
    BY <1>2 DEF TypeOK, Sorted, n
  <2>. QED BY <2>1, BidsAreTyped
<1>. QED BY <1>1, <1>2 DEF TypeOK, n

\* The invariant holds before the first loop.
LEMMA InitEstablishes == Init => IInv
<1>. SUFFICES ASSUME Init PROVE IInv
  OBVIOUS
<1>1. bids \in Seq(Bids) /\ Sorted(bids) /\ n \in Nat
  BY DEF Init, n
<1>2. TypeOK
  BY <1>1 DEF Init, TypeOK
<1>3. PrevFound
  BY <1>1 DEF Init, PrevFound
<1>4. BestFound
  BY <1>1 DEF Init, BestFound, Weighed
<1>5. BestBounds
  BY <1>1 DEF Init, BestBounds, Weighed, Adds
<1>6. ChosenFit /\ ChosenWorth /\ Replied
  BY DEF Init, ChosenFit, ChosenWorth, Replied, Compatible
<1>. QED BY <1>2, <1>3, <1>4, <1>5, <1>6 DEF IInv

\* The first loop records the latest bid that ends before the current starts.
LEMMA FindPreviousStep ==
  ASSUME IInv, FindPrevious PROVE IInv'
<1>1. bids' = bids /\ n' = n /\ n \in Nat /\ n > 0 /\ at \in 1..n
  BY DEF FindPrevious, n, IInv, TypeOK
<1>0. /\ phase = "previous"
      /\ \/ at < n /\ at' = at + 1 /\ phase' = "previous"
         \/ at = n /\ at' = 1 /\ phase' = "best"
      /\ best' = best /\ take' = take /\ chosen' = chosen /\ total' = total
  BY <1>1 DEF FindPrevious
<1>2. PICK j \in 0..(at - 1) : LatestBefore(at, j) /\ prev' = [prev EXCEPT ![at] = j]
  BY DEF FindPrevious
<1>3. TypeOK'
  <2>1. (bids \in Seq(Bids) /\ Sorted(bids))'
    BY <1>1 DEF IInv, TypeOK, Sorted
  <2>2. prev' \in [1..n -> 0..n]
    BY <1>1, <1>2 DEF IInv, TypeOK
  <2>3. (phase \in {"previous", "best", "choose", "replied"} /\ at \in Nat /\ at > 0 /\ at <= n)'
    BY <1>0, <1>1
  <2>4. (best \in [0..n -> Nat] /\ take \in [1..n -> BOOLEAN] /\ chosen \in SUBSET (1..n) /\ total \in Nat)'
    BY <1>0, <1>1 DEF IInv, TypeOK
  <2>. QED BY <1>1, <2>1, <2>2, <2>3, <2>4 DEF TypeOK
<1>4. PrevFound'
  <2>. SUFFICES ASSUME NEW i \in 1..n, i <= at
                PROVE  prev'[i] < i /\ LatestBefore(i, prev[i])'
    BY <1>0, <1>1 DEF PrevFound
  <2>1. LatestBefore(i, prev[i])' <=> LatestBefore(i, prev'[i])
    BY <1>1 DEF LatestBefore
  <2>2. CASE i = at
    BY <2>1, <2>2, <1>1, <1>2 DEF IInv, TypeOK
  <2>3. CASE i < at
    BY <2>1, <2>3, <1>0, <1>1, <1>2 DEF PrevFound, IInv, TypeOK
  <2>. QED BY <2>2, <2>3, <1>1
<1>5. Weighed = {0} /\ Weighed' = {0}
  BY <1>0, <1>1 DEF Weighed
<1>6. BestFound' /\ BestBounds'
  BY <1>0, <1>1, <1>5 DEF BestFound, BestBounds, Compatible, ShareDay, Adds, IInv
<1>7. ChosenFit' /\ ChosenWorth' /\ Replied'
  BY <1>0, <1>1 DEF ChosenFit, ChosenWorth, Replied, Compatible, IInv
<1>. QED BY <1>3, <1>4, <1>6, <1>7 DEF IInv

\* A set of compatible bids with bid i in it has no bid between the
\* predecessor of i and i: the fact the recurrence rests on.
LEMMA NothingBetween ==
  ASSUME IInv, NEW i \in 1..n, phase # "previous",
         NEW K \in SUBSET (1..n), Compatible(K), i \in K
  PROVE  K \intersect (prev[i] + 1)..(i - 1) = {}
<1>. SUFFICES ASSUME NEW k \in K, k \in (prev[i] + 1)..(i - 1) PROVE FALSE
  OBVIOUS
<1>1. n \in Nat /\ k \in 1..n /\ k < i /\ prev[i] \in 0..n
  BY DEF IInv, TypeOK, n
<1>2. ~ (bids[k].to < bids[i].from)
  BY <1>1 DEF IInv, PrevFound, LatestBefore
<1>3. bids[k].to <= bids[i].to
  BY <1>1, ListIsSorted DEF IInv
<1>4. ~ ShareDay(bids[k], bids[i])
  BY <1>1 DEF Compatible
<1>. QED
  BY <1>1, <1>2, <1>3, <1>4, BidsAreTyped DEF ShareDay, IInv

\* The second loop extends the table by one bid.
LEMMA WeighStep ==
  ASSUME IInv, Weigh PROVE IInv'
<1>1. bids' = bids /\ n' = n /\ n \in Nat /\ n > 0 /\ at \in 1..n /\ chosen = {}
  BY DEF Weigh, n, IInv, TypeOK, ChosenFit
<1>2. /\ phase = "best"
      /\ \/ at < n /\ at' = at + 1 /\ phase' = "best"
         \/ at = n /\ at' = n /\ phase' = "choose"
      /\ prev' = prev /\ chosen' = chosen /\ total' = total
  BY <1>1 DEF Weigh
<1>3. \/ /\ WithBid(at) > best[at - 1]
         /\ best' = [best EXCEPT ![at] = WithBid(at)]
         /\ take' = [take EXCEPT ![at] = TRUE]
      \/ /\ ~ (WithBid(at) > best[at - 1])
         /\ best' = [best EXCEPT ![at] = best[at - 1]]
         /\ take' = take
  BY DEF Weigh
<1>4. prev[at] \in 0..(at - 1) /\ LatestBefore(at, prev[at])
  <2>1. prev \in [1..n -> 0..n]
    BY DEF IInv, TypeOK
  <2>2. prev[at] < at /\ LatestBefore(at, prev[at])
    BY <1>1, <1>2 DEF IInv, PrevFound
  <2>. QED BY <1>1, <2>1, <2>2
<1>5. WithBid(at) \in Nat /\ best[at - 1] \in Nat
  <2>1. bids[at].amount \in Nat
    BY <1>1, BidsAreTyped DEF IInv
  <2>2. best[prev[at]] \in Nat /\ best[at - 1] \in Nat
    BY <1>1, <1>4 DEF IInv, TypeOK
  <2>. QED BY <2>1, <2>2 DEF WithBid
<1>6. TypeOK'
  <2>1. (bids \in Seq(Bids) /\ Sorted(bids))'
    BY <1>1 DEF IInv, TypeOK, Sorted
  <2>2. (best \in [0..n -> Nat] /\ take \in [1..n -> BOOLEAN])'
    BY <1>1, <1>3, <1>5 DEF IInv, TypeOK
  <2>3. (prev \in [1..n -> 0..n] /\ chosen \in SUBSET (1..n) /\ total \in Nat)'
    BY <1>1, <1>2 DEF IInv, TypeOK
  <2>4. phase' \in {"best", "choose"} /\ at' \in Nat /\ at' > 0 /\ at' <= n
    BY <1>1, <1>2
  <2>. QED BY <1>1, <2>1, <2>2, <2>3, <2>4 DEF TypeOK
<1>7. PrevFound'
  BY <1>1, <1>2 DEF IInv, PrevFound, LatestBefore
<1>8. Weighed = 0..(at - 1) /\ Weighed' = 0..at
  BY <1>1, <1>2 DEF Weighed
<1>9. /\ \A j \in 0..(at - 1) : best'[j] = best[j]
      /\ best'[at] >= WithBid(at) /\ best'[at] >= best[at - 1]
      /\ IF take'[at] THEN best'[at] = WithBid(at) ELSE best'[at] = best[at - 1]
  <2>1. best \in [0..n -> Nat] /\ take \in [1..n -> BOOLEAN]
    BY DEF IInv, TypeOK
  <2>2. CASE WithBid(at) > best[at - 1]
    <3>1. best' = [best EXCEPT ![at] = WithBid(at)] /\ take' = [take EXCEPT ![at] = TRUE]
      BY <1>3, <2>2
    <3>2. best'[at] = WithBid(at) /\ \A j \in 0..(at - 1) : best'[j] = best[j]
      BY <1>1, <2>1, <3>1
    <3>3. take'[at]
      BY <1>1, <2>1, <3>1
    <3>. QED BY <1>5, <2>2, <3>2, <3>3
  <2>3. CASE ~ (WithBid(at) > best[at - 1])
    <3>1. best' = [best EXCEPT ![at] = best[at - 1]] /\ take' = take
      BY <1>3, <2>3
    <3>2. best'[at] = best[at - 1] /\ \A j \in 0..(at - 1) : best'[j] = best[j]
      BY <1>1, <2>1, <3>1
    <3>3. ~ take'[at]
      BY <1>1, <1>2, <3>1 DEF IInv, BestFound, Weighed
    <3>. QED BY <1>5, <2>3, <3>2, <3>3
  <2>. QED BY <2>2, <2>3
<1>. DEFINE Others == \A i \in 1..n : i # at => take'[i] = take[i]
<1>a. Others
  <2>1. take \in [1..n -> BOOLEAN]
    BY DEF IInv, TypeOK
  <2>2. CASE take' = take
    BY <2>2
  <2>3. CASE take' = [take EXCEPT ![at] = TRUE]
    BY <2>1, <2>3
  <2>. QED BY <1>3, <2>2, <2>3
<1>10. BestFound'
  <2>1. best'[0] = 0
    BY <1>1, <1>9 DEF IInv, BestFound
  <2>2. ASSUME NEW i \in 1..(at - 1)
        PROVE  IF take'[i] THEN best'[i] = WithBid(i)' ELSE best'[i] = best'[i - 1]
    <3>1. prev[i] \in 0..(i - 1) /\ i \in 1..n
      BY <1>1, <1>2 DEF IInv, TypeOK, PrevFound
    <3>2. best'[i] = best[i] /\ best'[i - 1] = best[i - 1] /\ WithBid(i)' = WithBid(i)
      BY <1>1, <1>2, <1>9, <3>1 DEF WithBid
    <3>3. take'[i] = take[i]
      BY <1>1, <3>1, <1>a
    <3>. QED BY <1>1, <1>8, <3>2, <3>3 DEF IInv, BestFound
  <2>3. ASSUME NEW i \in {at}
        PROVE  IF take'[i] THEN best'[i] = WithBid(i)' ELSE best'[i] = best'[i - 1]
    <3>1. WithBid(i)' = WithBid(i)
      BY <1>1, <1>2, <1>4, <1>9 DEF WithBid
    <3>. QED BY <1>1, <1>9, <3>1
  <2>4. \A i \in 1..n : take'[i] => i \in 0..at
    <3>1. \A i \in 1..n : take[i] => i \in 0..(at - 1)
      BY <1>8 DEF IInv, BestFound
    <3>. QED BY <1>1, <1>a, <3>1
  <2>. QED BY <1>1, <1>8, <2>1, <2>2, <2>3, <2>4 DEF BestFound
<1>11. BestBounds'
  <2>. SUFFICES ASSUME NEW K \in SUBSET (1..n), NEW worth \in [0..n -> Int],
                       Compatible(K), Adds(worth, K), NEW j \in 0..at
                PROVE  worth[j] <= best'[j]
    <3>1. ASSUME NEW K, NEW worth
          PROVE  (Compatible(K)' <=> Compatible(K)) /\ (Adds(worth, K)' <=> Adds(worth, K))
      BY <1>1 DEF Compatible, Adds, ShareDay
    <3>. QED BY <1>1, <1>8, <3>1 DEF BestBounds
  <2>1. \A i \in 0..(at - 1) : worth[i] <= best[i]
    BY <1>8 DEF IInv, BestBounds
  <2>5. best \in [0..n -> Nat] /\ best'[at] \in Nat
    <3>1. best' \in [0..n -> Nat]
      BY <1>1, <1>6 DEF TypeOK
    <3>2. best \in [0..n -> Nat]
      BY DEF IInv, TypeOK
    <3>. QED BY <1>1, <3>1, <3>2
  <2>2. CASE j < at
    BY <1>1, <1>9, <2>1, <2>2
  <2>3. CASE j = at /\ at \notin K
    <3>1. K \intersect ((at - 1) + 1)..at = {}
      BY <1>1, <2>3
    <3>2. worth[at] = worth[at - 1]
      BY <1>1, <3>1 DEF Adds
    <3>3. worth[at - 1] <= best[at - 1] /\ worth[at - 1] \in Int /\ best'[at] \in Nat
      BY <1>1, <2>1, <2>5
    <3>. QED BY <1>5, <1>9, <2>3, <3>2, <3>3
  <2>4. CASE j = at /\ at \in K
    <3>1. K \intersect (prev[at] + 1)..(at - 1) = {}
      BY <1>1, <1>2, <2>4, NothingBetween
    <3>2. worth[at] = worth[prev[at]] + bids[at].amount
      <4>1. prev[at] \in 0..n /\ at \in 0..n /\ prev[at] < at
        BY <1>1, <1>4
      <4>. QED BY <2>4, <3>1, <4>1, SMTT(30) DEF Adds
    <3>3. worth[prev[at]] <= best[prev[at]]
      BY <1>4, <2>1
    <3>4. worth[prev[at]] \in Int /\ best[prev[at]] \in Nat /\ best'[at] \in Nat
      BY <1>1, <1>4, <2>5
    <3>5. bids[at].amount \in Nat
      BY <1>1, BidsAreTyped DEF IInv
    <3>. QED BY <1>5, <1>9, <2>4, <3>2, <3>3, <3>4, <3>5 DEF WithBid
  <2>. QED BY <1>1, <2>2, <2>3, <2>4
<1>12. ChosenFit' /\ Replied'
  BY <1>1, <1>2 DEF IInv, ChosenFit, Replied, Compatible
<1>13. ChosenWorth'
  <2>. SUFFICES ASSUME at = n, at' = n, NEW worth \in [0..n -> Int]
                PROVE  worth[n] - worth[at'] = best'[n] - best'[at']
    BY <1>1, <1>2 DEF ChosenWorth
  <2>1. best'[n] \in Nat /\ worth[n] \in Int
    BY <1>1, <1>6 DEF TypeOK
  <2>. QED BY <2>1
<1>. QED BY <1>6, <1>7, <1>10, <1>11, <1>12, <1>13 DEF IInv

\* The third loop takes a bid and jumps to the last one that fits before it,
\* or passes over it.
LEMMA ChooseStep ==
  ASSUME IInv, Choose PROVE IInv'
<1>1. /\ bids' = bids /\ n' = n /\ n \in Nat /\ at \in 1..n /\ phase = "choose"
      /\ phase' = "choose" /\ prev' = prev /\ best' = best /\ take' = take /\ total' = total
  BY DEF Choose, n, IInv, TypeOK
<1>2. \/ take[at] /\ chosen' = chosen \union {at} /\ at' = prev[at]
      \/ ~ take[at] /\ chosen' = chosen /\ at' = at - 1
  BY DEF Choose
<1>3. prev[at] \in 0..(at - 1) /\ LatestBefore(at, prev[at])
  BY <1>1 DEF IInv, TypeOK, PrevFound
<1>4. TypeOK'
  <2>1. (bids \in Seq(Bids) /\ Sorted(bids))'
    BY <1>1 DEF IInv, TypeOK, Sorted
  <2>2. at' \in 0..(at - 1) /\ chosen' \in SUBSET (1..n)
    <3>1. chosen \in SUBSET (1..n)
      BY DEF IInv, TypeOK
    <3>2. at' \in 0..(at - 1)
      BY <1>1, <1>2, <1>3
    <3>. QED BY <1>1, <1>2, <3>1, <3>2
  <2>3. (prev \in [1..n -> 0..n] /\ best \in [0..n -> Nat] /\ take \in [1..n -> BOOLEAN] /\ total \in Nat)'
    BY <1>1 DEF IInv, TypeOK
  <2>4. at' \in Nat /\ at' <= n
    BY <1>1, <2>2
  <2>5. phase' = "choose" /\ n' > 0 /\ at' <= n' /\ chosen' \in SUBSET (1..n')
    BY <1>1, <2>2, <2>4
  <2>. QED BY <2>1, <2>3, <2>4, <2>5 DEF TypeOK
<1>5. PrevFound' /\ Replied'
  BY <1>1 DEF IInv, PrevFound, LatestBefore, Replied
<1>6. Weighed = 0..n /\ Weighed' = 0..n
  BY <1>1 DEF Weighed
<1>7. BestFound'
  BY <1>1, <1>6 DEF IInv, BestFound, WithBid
<1>8. BestBounds'
  <2>1. ASSUME NEW K, NEW worth
        PROVE  (Compatible(K)' <=> Compatible(K)) /\ (Adds(worth, K)' <=> Adds(worth, K))
    BY <1>1 DEF Compatible, Adds, ShareDay
  <2>. QED BY <1>1, <1>6, <2>1 DEF IInv, BestBounds
<1>9. ChosenFit'
  <2>1. \A k \in chosen : k \in 1..n /\ at < k /\ \A j \in 1..at : bids[j].to < bids[k].from
    BY <1>1 DEF IInv, TypeOK, ChosenFit
  <2>2. CASE ~ take[at]
    BY <1>1, <1>2, <2>1, <2>2 DEF IInv, ChosenFit, Compatible, ShareDay
  <2>3. CASE take[at]
    <3>1. chosen' = chosen \union {at} /\ at' = prev[at]
      BY <1>2, <2>3
    <3>2. ASSUME NEW k \in chosen
          PROVE  ~ ShareDay(bids[k], bids[at]) /\ ~ ShareDay(bids[at], bids[k])
      BY <1>1, <2>1, BidsAreTyped DEF ShareDay, IInv
    <3>3. Compatible(chosen)'
      BY <1>1, <3>1, <3>2 DEF IInv, ChosenFit, Compatible, ShareDay
    <3>4. ASSUME NEW j \in 1..prev[at] PROVE bids[j].to < bids[at].from
      <4>1. prev[at] \in 1..n /\ j \in 1..n /\ j <= prev[at]
        BY <1>1, <1>3
      <4>2. bids[j].to <= bids[prev[at]].to
        BY <4>1, ListIsSorted DEF IInv
      <4>3. bids[prev[at]].to < bids[at].from
        BY <1>3, <4>1 DEF LatestBefore
      <4>. QED BY <1>1, <4>1, <4>2, <4>3, BidsAreTyped DEF IInv
    <3>5. \A k \in chosen' : at' < k /\ \A j \in 1..at' : bids[j].to < bids[k].from
      BY <1>1, <1>3, <2>1, <3>1, <3>4
    <3>. QED BY <1>1, <3>3, <3>5 DEF ChosenFit
  <2>. QED BY <2>2, <2>3
<1>10. ChosenWorth'
  <2>. SUFFICES ASSUME NEW K \in SUBSET (1..n), NEW worth \in [0..n -> Int],
                       Adds(worth, K), K \intersect (at' + 1)..n = chosen'
                PROVE  worth[n] - worth[at'] = best[n] - best[at']
    <3>1. ASSUME NEW K, NEW worth PROVE Adds(worth, K)' <=> Adds(worth, K)
      BY <1>1 DEF Adds
    <3>. QED BY <1>1, <3>1 DEF ChosenWorth
  <2>1. at \notin chosen /\ chosen \in SUBSET ((at + 1)..n)
    BY <1>1 DEF IInv, TypeOK, ChosenFit
  <2>2. at' \in 0..(at - 1)
    BY <1>1, <1>2, <1>3
  <2>3. K \intersect (at + 1)..n = chosen
    <3>1. CASE chosen' = chosen /\ at' = at - 1
      BY <1>1, <2>1, <3>1
    <3>2. CASE chosen' = chosen \union {at} /\ at' = prev[at]
      <4>1. K \intersect (at + 1)..n = (K \intersect (at' + 1)..n) \intersect (at + 1)..n
        BY <1>1, <2>2
      <4>2. (chosen \union {at}) \intersect (at + 1)..n = chosen
        <5>1. at \notin (at + 1)..n
          BY <1>1
        <5>. QED BY <2>1, <5>1
      <4>. QED BY <3>2, <4>1, <4>2
    <3>. QED BY <1>2, <3>1, <3>2
  <2>4. worth[n] - worth[at] = best[n] - best[at]
    BY <1>1, <2>3 DEF IInv, ChosenWorth
  <2>5. CASE ~ take[at]
    <3>1. K \intersect ((at - 1) + 1)..at = {}
      BY <1>1, <1>2, <2>1, <2>5
    <3>2. worth[at] = worth[at - 1]
      BY <1>1, <3>1 DEF Adds
    <3>3. best[at] = best[at - 1]
      BY <1>1, <1>6, <2>5 DEF IInv, BestFound
    <3>. QED BY <1>2, <2>4, <2>5, <3>2, <3>3
  <2>6. CASE take[at]
    <3>1. at \in K /\ K \intersect (prev[at] + 1)..(at - 1) = {}
      BY <1>1, <1>2, <1>3, <2>1, <2>6
    <3>2. worth[at] = worth[prev[at]] + bids[at].amount
      <4>1. prev[at] \in 0..n /\ at \in 0..n /\ prev[at] < at
        BY <1>1, <1>3
      <4>. QED BY <3>1, <4>1, SMTT(30) DEF Adds
    <3>3. best[at] = bids[at].amount + best[prev[at]]
      BY <1>1, <1>6, <2>6 DEF IInv, BestFound, WithBid
    <3>4. /\ worth[n] \in Int /\ worth[at] \in Int /\ worth[prev[at]] \in Int
          /\ best[n] \in Nat /\ best[at] \in Nat /\ best[prev[at]] \in Nat
      <4>1. best \in [0..n -> Nat]
        BY DEF IInv, TypeOK
      <4>2. n \in 0..n /\ at \in 0..n /\ prev[at] \in 0..n
        BY <1>1, <1>3
      <4>. QED BY <4>1, <4>2
    <3>5. bids[at].amount \in Nat
      BY <1>1, BidsAreTyped DEF IInv
    <3>6. worth[n] - worth[prev[at]] = best[n] - best[prev[at]]
      <4>1. worth[n] - worth[at] = (worth[n] - worth[prev[at]]) - bids[at].amount
        BY <3>2, <3>4, <3>5
      <4>2. best[n] - best[at] = (best[n] - best[prev[at]]) - bids[at].amount
        BY <3>3, <3>4, <3>5
      <4>3. (worth[n] - worth[prev[at]]) - bids[at].amount = (best[n] - best[prev[at]]) - bids[at].amount
        BY <2>4, <4>1, <4>2, Zenon
      <4>4. worth[n] - worth[prev[at]] \in Int /\ best[n] - best[prev[at]] \in Int
        BY <3>4
      <4>. QED BY <3>5, <4>3, <4>4
    <3>7. at' = prev[at]
      BY <1>2, <2>6
    <3>. QED BY <3>6, <3>7
  <2>. QED BY <2>5, <2>6
<1>. QED BY <1>4, <1>5, <1>7, <1>8, <1>9, <1>10 DEF IInv

\* The reply ends the walk with the last entry of the table.
LEMMA ReplyStep ==
  ASSUME IInv, Reply PROVE IInv'
<1>1. /\ bids' = bids /\ n' = n /\ n \in Nat /\ phase = "choose" /\ phase' = "replied"
      /\ at = 0 /\ at' = 0 /\ total' = best[n]
      /\ prev' = prev /\ best' = best /\ take' = take /\ chosen' = chosen
  BY DEF Reply, n, IInv, TypeOK
<1>2. TypeOK'
  <2>1. (bids \in Seq(Bids) /\ Sorted(bids))'
    BY <1>1 DEF IInv, TypeOK, Sorted
  <2>2. (prev \in [1..n -> 0..n] /\ best \in [0..n -> Nat] /\ take \in [1..n -> BOOLEAN])'
    BY <1>1 DEF IInv, TypeOK
  <2>3. total' \in Nat /\ chosen' \in SUBSET (1..n)
    BY <1>1 DEF IInv, TypeOK
  <2>. QED BY <1>1, <2>1, <2>2, <2>3 DEF TypeOK
<1>3. Weighed = 0..n /\ Weighed' = 0..n
  BY <1>1 DEF Weighed
<1>4. PrevFound' /\ BestFound' /\ Replied'
  BY <1>1, <1>3 DEF IInv, PrevFound, LatestBefore, BestFound, WithBid, Replied
<1>5. BestBounds' /\ ChosenFit' /\ ChosenWorth'
  <2>1. ASSUME NEW K, NEW worth
        PROVE  (Compatible(K)' <=> Compatible(K)) /\ (Adds(worth, K)' <=> Adds(worth, K))
    BY <1>1 DEF Compatible, Adds, ShareDay
  <2>. QED BY <1>1, <1>3, <2>1 DEF IInv, BestBounds, ChosenFit, ChosenWorth, Compatible
<1>. QED BY <1>2, <1>4, <1>5 DEF IInv

\* The early reply leaves everything empty.
LEMMA ReplyEmptyStep ==
  ASSUME IInv, ReplyEmpty PROVE IInv'
<1>1. /\ bids' = bids /\ n' = n /\ n = 0 /\ phase = "previous" /\ phase' = "replied"
      /\ at' = 0 /\ total' = total
      /\ prev' = prev /\ best' = best /\ take' = take /\ chosen' = chosen
  BY DEF ReplyEmpty, n
<1>2. TypeOK'
  <2>1. (bids \in Seq(Bids) /\ Sorted(bids))'
    BY <1>1 DEF IInv, TypeOK, Sorted
  <2>. QED BY <1>1, <2>1 DEF IInv, TypeOK
<1>3. Weighed = {0} /\ Weighed' = {0}
  BY <1>1 DEF Weighed
<1>4. PrevFound' /\ BestFound'
  BY <1>1, <1>3 DEF IInv, PrevFound, BestFound
<1>5. BestBounds' /\ ChosenFit' /\ ChosenWorth'
  BY <1>1, <1>3 DEF IInv, TypeOK, BestFound, BestBounds, ChosenFit, ChosenWorth, Compatible, Adds
<1>6. Replied'
  BY <1>1, <1>3 DEF IInv, BestFound, Replied
<1>. QED BY <1>2, <1>4, <1>5, <1>6 DEF IInv

\* Nothing changes between two steps.
LEMMA StutterStep ==
  ASSUME IInv, UNCHANGED vars PROVE IInv'
<1>1. n' = n
  BY DEF vars, n
<1>2. ASSUME NEW K, NEW worth
      PROVE  (Compatible(K)' <=> Compatible(K)) /\ (Adds(worth, K)' <=> Adds(worth, K))
  BY <1>1 DEF vars, Compatible, Adds, ShareDay
<1>3. TypeOK' /\ PrevFound'
  BY <1>1 DEF vars, IInv, TypeOK, Sorted, PrevFound, LatestBefore
<1>4. Weighed' = Weighed
  BY <1>1 DEF vars, Weighed
<1>5. BestFound' /\ BestBounds'
  BY <1>1, <1>2, <1>4 DEF vars, IInv, BestFound, BestBounds, WithBid
<1>6. ChosenFit' /\ ChosenWorth' /\ Replied'
  BY <1>1, <1>2 DEF vars, IInv, ChosenFit, ChosenWorth, Replied, Compatible
<1>. QED BY <1>3, <1>5, <1>6 DEF IInv

\* The invariant holds in every reachable state.
LEMMA Invariant == Spec => []IInv
<1>1. IInv /\ [Next]_vars => IInv'
  BY FindPreviousStep, WeighStep, ChooseStep, ReplyStep, ReplyEmptyStep, StutterStep DEF Next
<1>. QED BY InitEstablishes, <1>1, PTL DEF Spec

\* Whatever bids are pending, no two of the recommended ones share a day.
THEOREM RecommendedBidsAlwaysFit == Spec => []RecommendedBidsFit
<1>1. IInv => RecommendedBidsFit
  BY DEF IInv, ChosenFit, RecommendedBidsFit
<1>. QED BY Invariant, <1>1, PTL

\* Whatever bids are pending, the total replied is the worth of the
\* recommended bids, and no compatible set of bids is worth more.
THEOREM TotalIsAlwaysBest == Spec => []TotalIsBest
<1>1. IInv => TotalIsBest
  <2>. SUFFICES ASSUME IInv, phase = "replied",
                       NEW K \in SUBSET (1..n), NEW worth \in [0..n -> Int], Adds(worth, K)
                PROVE  /\ K = chosen => worth[n] = total
                       /\ Compatible(K) => worth[n] <= total
    BY DEF TotalIsBest
  <2>1. n \in Nat /\ at = 0 /\ total = best[n] /\ best \in [0..n -> Nat]
    BY DEF IInv, TypeOK, Replied, n
  <2>2. ASSUME K = chosen PROVE worth[n] = total
    <3>1. K \intersect (at + 1)..n = chosen
      <4>1. (at + 1)..n = 1..n
        BY <2>1
      <4>. QED BY <2>2, <4>1
    <3>2. worth[n] - worth[0] = best[n] - best[0]
      BY <2>1, <3>1 DEF IInv, ChosenWorth
    <3>. QED BY <2>1, <3>2 DEF Adds, IInv, BestFound
  <2>3. ASSUME Compatible(K) PROVE worth[n] <= total
    <3>1. n \in Weighed
      BY <2>1 DEF Weighed
    <3>. QED BY <2>1, <2>3, <3>1 DEF IInv, BestBounds
  <2>. QED BY <2>2, <2>3
<1>. QED BY Invariant, <1>1, PTL
--------------------------------------------------------------------------------
\* The element the fold takes next.
Pick(s) == CHOOSE i \in s : TRUE

\* f is the table of the fold over the subsets of S: the equation of its recursion.
Folding(f, S) ==
  f = [s \in SUBSET S |-> IF s = {} THEN 0 ELSE bids[Pick(s)].amount + f[s \ {Pick(s)}]]
Fold(S) == CHOOSE f : Folding(f, S)

\* The community module defines the sum by that table.
LEMMA WorthIsFold ==
  ASSUME NEW K PROVE Worth(K) = Fold(K)[K]
BY Zenon DEF Worth, Fold, Folding, Pick, MapThenSumSet, MapThenFoldSet

LEMMA PickIsIn ==
  ASSUME NEW s, s # {} PROVE Pick(s) \in s
BY DEF Pick

\* The well-founded order that stands for induction: of a set of finite sets one
\* has no other of them below it.
LEMMA SmallestSet ==
  ASSUME NEW S, IsFiniteSet(S), NEW T \in SUBSET SUBSET S, T # {}
  PROVE  \E s \in T : \A u \in T : u \subseteq s => u = s
<1>1. IsWellFoundedOn(StrictSubsetOrdering(S), SUBSET S)
  BY FS_StrictSubsetOrderingWellFounded, FS_FiniteSubsetsOfFinite
<1>2. \E s \in T : \A u \in T : ~ (<<u, s>> \in StrictSubsetOrdering(S))
  BY <1>1, WFMin
<1>3. ASSUME NEW s \in T, NEW u \in T, u \subseteq s, u # s
      PROVE  <<u, s>> \in StrictSubsetOrdering(S)
  BY <1>3 DEF StrictSubsetOrdering
<1>. QED BY <1>2, <1>3

\* Two tables have the same entry where both have one.
LEMMA FoldsAgree ==
  ASSUME NEW S, IsFiniteSet(S), NEW A \in SUBSET S, NEW B \in SUBSET S,
         NEW f, NEW g, Folding(f, A), Folding(g, B), NEW s \in SUBSET A, s \in SUBSET B
  PROVE  f[s] = g[s]
<1>. DEFINE T == {u \in SUBSET S : u \subseteq A /\ u \subseteq B /\ f[u] # g[u]}
<1>. SUFFICES ASSUME s \in T PROVE FALSE
  OBVIOUS
<1>1. PICK u \in T : \A v \in T : v \subseteq u => v = u
  <2>. HIDE DEF T
  <2>1. T \in SUBSET SUBSET S
    BY DEF T
  <2>. QED BY <2>1, SmallestSet
<1>2. u # {}
  BY <1>1 DEF Folding
<1>3. Pick(u) \in u
  BY <1>2, PickIsIn
<1>4. f[u \ {Pick(u)}] = g[u \ {Pick(u)}]
  BY <1>1, <1>3
<1>5. /\ f[u] = bids[Pick(u)].amount + f[u \ {Pick(u)}]
      /\ g[u] = bids[Pick(u)].amount + g[u \ {Pick(u)}]
  BY <1>1, <1>2 DEF Folding
<1>. QED BY <1>1, <1>4, <1>5

\* There is a table: that of a set is put together from those of its subsets.
LEMMA FoldIsDefined ==
  ASSUME NEW S, IsFiniteSet(S) PROVE Folding(Fold(S), S)
<1>. DEFINE T == {A \in SUBSET S : ~ Folding(Fold(A), A)}
<1>. SUFFICES ASSUME S \in T PROVE FALSE
  OBVIOUS
<1>1. PICK A \in T : \A B \in T : B \subseteq A => B = A
  <2>. HIDE DEF T
  <2>1. T \in SUBSET SUBSET S
    BY DEF T
  <2>. QED BY <2>1, SmallestSet
<1>2. \A B \in SUBSET A : B # A => Folding(Fold(B), B)
  BY <1>1
<1>. DEFINE Rest(s) == s \ {Pick(s)}
            h == [s \in SUBSET A |-> IF s = {} THEN 0
                                     ELSE bids[Pick(s)].amount + Fold(Rest(s))[Rest(s)]]
<1>3. ASSUME NEW s \in SUBSET A, s # {}
      PROVE  h[Rest(s)] = Fold(Rest(s))[Rest(s)]
  <2>1. /\ Rest(s) \in SUBSET A /\ Rest(s) # A
        /\ Folding(Fold(Rest(s)), Rest(s))
    BY <1>2, <1>3, PickIsIn
  <2>2. PICK u : u = Rest(s)
    OBVIOUS
  <2>3. CASE u = {}
    BY <2>1, <2>2, <2>3 DEF Folding
  <2>4. CASE u # {}
    <3>1. PICK v : v = Rest(u)
      OBVIOUS
    <3>2. v \in SUBSET u /\ v # u /\ v \in SUBSET v /\ v \in SUBSET A /\ u \in SUBSET A /\ v # A
      BY <2>1, <2>2, <2>4, <3>1, PickIsIn
    <3>3. Folding(Fold(u), u) /\ Folding(Fold(v), v)
      BY <1>2, <2>1, <2>2, <3>2
    <3>4. IsFiniteSet(A)
      BY FS_Subset
    <3>5. Fold(u)[v] = Fold(v)[v]
      BY <3>2, <3>3, <3>4, FoldsAgree
    <3>6. Fold(u)[u] = bids[Pick(u)].amount + Fold(u)[v]
      BY <2>4, <3>1, <3>3 DEF Folding
    <3>7. h[u] = bids[Pick(u)].amount + Fold(v)[v]
      BY <2>4, <3>1, <3>2
    <3>. QED BY <2>2, <3>5, <3>6, <3>7
  <2>. QED BY <2>3, <2>4
<1>4. Folding(h, A)
  BY <1>3 DEF Folding
<1>5. Folding(Fold(A), A)
  <2>. HIDE DEF h
  <2>. QED BY <1>4 DEF Fold
<1>. QED BY <1>1, <1>5

\* Nothing is worth nothing, ...
LEMMA WorthOfNothing == Worth({}) = 0
<1>1. Folding(Fold({}), {})
  BY FoldIsDefined, FS_EmptySet
<1>. QED BY <1>1, WorthIsFold DEF Folding

\* ... and a set what the bid taken first and the others are worth.
LEMMA WorthOfPick ==
  ASSUME NEW S, IsFiniteSet(S), S # {}
  PROVE  Worth(S) = bids[Pick(S)].amount + Worth(S \ {Pick(S)})
<1>1. PICK R : R = S \ {Pick(S)}
  OBVIOUS
<1>2. R \in SUBSET S /\ IsFiniteSet(R) /\ S \in SUBSET S /\ R \in SUBSET R
  BY <1>1, FS_Subset
<1>3. Folding(Fold(S), S) /\ Folding(Fold(R), R)
  BY <1>2, FoldIsDefined
<1>4. Fold(S)[R] = Fold(R)[R]
  BY <1>2, <1>3, FoldsAgree
<1>5. Fold(S)[S] = bids[Pick(S)].amount + Fold(S)[R]
  BY <1>1, <1>3 DEF Folding
<1>. QED BY <1>1, <1>4, <1>5, WorthIsFold

\* The worth of a set of bids is a number.
LEMMA WorthType ==
  ASSUME NEW S, IsFiniteSet(S), \A i \in S : bids[i].amount \in Nat
  PROVE  Worth(S) \in Nat
<1>. DEFINE T == {s \in SUBSET S : Worth(s) \notin Nat}
<1>. SUFFICES ASSUME S \in T PROVE FALSE
  OBVIOUS
<1>1. PICK s \in T : \A u \in T : u \subseteq s => u = s
  <2>. HIDE DEF T
  <2>1. T \in SUBSET SUBSET S
    BY DEF T
  <2>. QED BY <2>1, SmallestSet
<1>b. s # {}
  <2>. SUFFICES ASSUME s = {} PROVE Worth(s) \in Nat
    BY <1>1
  <2>1. Worth(s) = 0
    BY WorthOfNothing, Zenon
  <2>. QED BY <2>1
<1>2. s # {} /\ s \in SUBSET S
  BY <1>1, <1>b
<1>a. IsFiniteSet(s)
  BY <1>2, FS_Subset
<1>3. Pick(s) \in s
  BY <1>2, PickIsIn
<1>4. Worth(s \ {Pick(s)}) \in Nat
  BY <1>1, <1>2, <1>3
<1>5. Worth(s) = bids[Pick(s)].amount + Worth(s \ {Pick(s)})
  BY <1>2, <1>a, WorthOfPick
<1>6. bids[Pick(s)].amount \in Nat
  BY <1>2, <1>3
<1>7. Worth(s) \in Nat
  BY <1>4, <1>5, <1>6
<1>. QED BY <1>1, <1>7

\* It does not matter which bid is taken first.
LEMMA WorthOfOne ==
  ASSUME NEW S, IsFiniteSet(S), \A i \in S : bids[i].amount \in Nat
  PROVE  \A x \in S : Worth(S) = Worth(S \ {x}) + bids[x].amount
<1>. DEFINE T == {s \in SUBSET S : \E x \in s : Worth(s) # Worth(s \ {x}) + bids[x].amount}
<1>. SUFFICES ASSUME S \in T PROVE FALSE
  OBVIOUS
<1>1. PICK s \in T : \A u \in T : u \subseteq s => u = s
  <2>. HIDE DEF T
  <2>1. T \in SUBSET SUBSET S
    BY DEF T
  <2>. QED BY <2>1, SmallestSet
<1>2. PICK x \in s : Worth(s) # Worth(s \ {x}) + bids[x].amount
  BY <1>1
<1>3. PICK c : c = Pick(s)
  OBVIOUS
<1>4. s \in SUBSET S /\ c \in s
  BY <1>1, <1>2, <1>3, PickIsIn
<1>5. \A u \in SUBSET s : IsFiniteSet(u) /\ Worth(u) \in Nat
  BY <1>4, FS_Subset, WorthType
<1>6. bids[x].amount \in Nat /\ bids[c].amount \in Nat
  BY <1>2, <1>4
<1>7. Worth(s) = bids[c].amount + Worth(s \ {c})
  BY <1>2, <1>3, <1>5, WorthOfPick
<1>8. CASE x = c
  <2>1. Worth(s \ {c}) \in Nat
    BY <1>5
  <2>. QED BY <1>2, <1>6, <1>7, <1>8, <2>1
<1>9. CASE x # c
  <2>1. PICK r : r = (s \ {c}) \ {x}
    OBVIOUS
  <2>2. r \in SUBSET s /\ r = (s \ {x}) \ {c}
    BY <2>1
  <2>3. Worth(s \ {c}) = Worth(r) + bids[x].amount
    <3>1. s \ {c} \notin T
      BY <1>1, <1>4
    <3>. QED BY <1>2, <1>4, <1>9, <2>1, <3>1
  <2>4. Worth(s \ {x}) = Worth(r) + bids[c].amount
    <3>1. s \ {x} \notin T
      BY <1>1, <1>2
    <3>. QED BY <1>2, <1>4, <1>9, <2>2, <3>1
  <2>5. Worth(r) \in Nat
    BY <1>5, <2>2
  <2>. QED BY <1>2, <1>6, <1>7, <2>3, <2>4, <2>5
<1>. QED BY <1>8, <1>9

\* The running worth of a set adds its amounts up bid by bid.
LEMMA RunningAdds ==
  ASSUME IInv, NEW K \in SUBSET (1..n)
  PROVE  /\ Adds(Running(K), K) /\ Running(K) \in [0..n -> Int]
         /\ Running(K)[n] = Worth(K)
<1>1. n \in Nat /\ \A i \in 1..n : bids[i].amount \in Nat
  BY BidsAreTyped DEF IInv, TypeOK, n
<1>2. \A J \in SUBSET (1..n) : IsFiniteSet(J)
  <2>1. IsFiniteSet(1..n)
    BY <1>1, FS_Interval
  <2>. QED BY <2>1, FS_Subset
<1>. DEFINE Upto(j) == K \intersect 1..j
<1>3. ASSUME NEW j \in 0..n
      PROVE  /\ Upto(j) \in SUBSET (1..n) /\ IsFiniteSet(Upto(j))
             /\ Worth(Upto(j)) \in Nat
  BY <1>1, <1>2, WorthType
<1>4. \A j \in 0..n : Running(K)[j] = Worth(Upto(j))
  BY DEF Running
<1>5. Running(K)[0] = 0
  <2>1. Upto(0) = {}
    OBVIOUS
  <2>2. Worth(Upto(0)) = 0
    BY <2>1, WorthOfNothing, Zenon
  <2>. QED BY <1>1, <1>4, <2>2
<1>6. ASSUME NEW i \in 0..n, NEW j \in 0..n, i < j, K \intersect (i + 1)..j = {}
      PROVE  Running(K)[j] = Running(K)[i]
  <2>1. Upto(j) = Upto(i)
    BY <1>1, <1>6
  <2>2. Worth(Upto(j)) = Worth(Upto(i))
    BY <2>1, Zenon
  <2>. QED BY <1>4, <2>2
<1>7. ASSUME NEW i \in 0..n, NEW j \in 0..n, i < j, j \in K,
             K \intersect (i + 1)..(j - 1) = {}
      PROVE  Running(K)[j] = Running(K)[i] + bids[j].amount
  <2>1. j \in Upto(j) /\ Upto(j) \ {j} = Upto(i)
    BY <1>1, <1>7
  <2>2. Worth(Upto(j)) = Worth(Upto(j) \ {j}) + bids[j].amount
    <3>. HIDE DEF Upto
    <3>1. \A k \in Upto(j) : bids[k].amount \in Nat
      BY <1>1, <1>3
    <3>. QED BY <1>3, <2>1, <3>1, WorthOfOne
  <2>3. Worth(Upto(j)) = Worth(Upto(i)) + bids[j].amount
    <3>. HIDE DEF Upto
    <3>. QED BY <2>1, <2>2, Zenon
  <2>. QED BY <1>4, <2>3
<1>8. Running(K) \in [0..n -> Int]
  <2>1. \A j \in 0..n : Worth(Upto(j)) \in Int
    <3>. HIDE DEF Upto
    <3>1. ASSUME NEW j \in 0..n PROVE Worth(Upto(j)) \in Int
      BY <1>3
    <3>. QED BY <3>1
  <2>2. \A j \in 0..n : Running(K)[j] \in Int
    <3>. HIDE DEF Upto
    <3>. QED BY <1>4, <2>1
  <2>3. Running(K) = [j \in 0..n |-> Running(K)[j]]
    BY Zenon DEF Running
  <2>. QED BY <2>2, <2>3
<1>9. Running(K)[n] = Worth(K)
  <2>1. Upto(n) = K
    OBVIOUS
  <2>2. Worth(Upto(n)) = Worth(K)
    BY <2>1, Zenon
  <2>. QED BY <1>1, <1>4, <2>2
<1>. QED BY <1>5, <1>6, <1>7, <1>8, <1>9 DEF Adds

\* Whatever bids are pending, the total replied is the sum of the amounts of the
\* recommended bids, and no set of bids that can all be accepted sums up to more.
THEOREM RecommendationIsAlwaysBest == Spec => []RecommendationIsBest
<1>1. IInv /\ TotalIsBest => RecommendationIsBest
  BY RunningAdds DEF TotalIsBest, RecommendationIsBest
<1>. QED BY Invariant, TotalIsAlwaysBest, <1>1, PTL

--------------------------------------------------------------------------------
\* What the loops still have to do, at most.
TurnsLeft ==
  CASE phase = "previous" -> IF n = 0 THEN 1 ELSE 3 * n - at + 4
    [] phase = "best" -> 2 * n - at + 3
    [] phase = "choose" -> at + 1
    [] phase = "replied" -> 0

\* The search of the first loop finds a bid, or that there is none.
SearchNeverFails ==
  phase = "previous" /\ n > 0 => \E j \in 0..(at - 1) : LatestBefore(at, j)

\* Of the bids that end before bid i starts one is the last.
LEMMA SearchFinds ==
  ASSUME n \in Nat, NEW i \in 1..n
  PROVE  \E j \in 0..(i - 1) : LatestBefore(i, j)
<1>. DEFINE Before(k) == bids[k].to < bids[i].from
            J == {0} \union {k \in 1..(i - 1) : Before(k)}
            T == {(j + 1)..(i - 1) : j \in J}
<1>a. IsFiniteSet(1..(i - 1))
  BY FS_Interval
<1>b. T \in SUBSET SUBSET (1..(i - 1))
  <2>1. ASSUME NEW j \in J PROVE (j + 1)..(i - 1) \in SUBSET (1..(i - 1))
    OBVIOUS
  <2>. QED BY <2>1
<1>c. (0 + 1)..(i - 1) \in T
  OBVIOUS
<1>2. PICK s \in T : \A u \in T : u \subseteq s => u = s
  <2>. HIDE DEF T
  <2>1. T # {}
    BY <1>c
  <2>2. PICK S : S = 1..(i - 1)
    OBVIOUS
  <2>3. IsFiniteSet(S) /\ T \in SUBSET SUBSET S
    BY <1>a, <1>b, <2>2
  <2>. QED BY <2>1, <2>3, SmallestSet
<1>3. PICK j \in J : s = (j + 1)..(i - 1)
  BY <1>2
<1>4. ASSUME NEW k \in (j + 1)..(i - 1), Before(k) PROVE FALSE
  <2>1. k \in J /\ (k + 1)..(i - 1) \in T
    BY <1>3, <1>4
  <2>2. (k + 1)..(i - 1) \subseteq s /\ k \in s /\ k \notin (k + 1)..(i - 1)
    BY <1>3, <1>4
  <2>. QED BY <1>2, <2>1, <2>2
<1>. QED BY <1>3, <1>4 DEF LatestBefore

\* Whatever bids are pending, the handler is done after as many turns as TurnsLeft
\* says (the walk back, whose index jumps, included), and its search finds what it
\* looks for on the way.
THEOREM TurnsRunOut ==
  Spec => /\ []SearchNeverFails
          /\ [][/\ TurnsLeft \in Nat /\ TurnsLeft' \in Nat
                /\ TurnsLeft' < TurnsLeft]_vars
<1>1. IInv => SearchNeverFails
  BY SearchFinds DEF IInv, TypeOK, SearchNeverFails, n
<1>2. ASSUME IInv, Next, IInv'
      PROVE  TurnsLeft \in Nat /\ TurnsLeft' \in Nat /\ TurnsLeft' < TurnsLeft
  <2>1. n \in Nat /\ n' = n /\ at \in Nat
    BY <1>2 DEF IInv, TypeOK, n, Next, FindPrevious, Weigh, Choose, Reply, ReplyEmpty
  <2>2. CASE ReplyEmpty
    BY <2>1, <2>2 DEF ReplyEmpty, TurnsLeft
  <2>3. CASE FindPrevious
    <3>1. phase = "previous" /\ at \in 1..n
      BY <1>2, <2>3 DEF FindPrevious, IInv, TypeOK
    <3>2. \/ at < n /\ at' = at + 1 /\ phase' = "previous"
          \/ at = n /\ at' = 1 /\ phase' = "best"
      BY <2>1, <2>3, <3>1 DEF FindPrevious
    <3>. QED BY <2>1, <3>1, <3>2 DEF TurnsLeft
  <2>4. CASE Weigh
    <3>1. phase = "best" /\ at \in 1..n
      BY <1>2, <2>1, <2>4 DEF Weigh, IInv, TypeOK
    <3>2. \/ at < n /\ at' = at + 1 /\ phase' = "best"
          \/ at = n /\ at' = n /\ phase' = "choose"
      BY <2>1, <2>4, <3>1 DEF Weigh
    <3>. QED BY <2>1, <3>1, <3>2 DEF TurnsLeft
  <2>5. CASE Choose
    <3>1. phase = "choose" /\ phase' = "choose" /\ at \in 1..n
      BY <1>2, <2>1, <2>5 DEF Choose, IInv, TypeOK
    <3>2. prev[at] \in 0..(at - 1)
      <4>1. prev \in [1..n -> 0..n] /\ PrevFound
        BY <1>2 DEF IInv, TypeOK
      <4>2. prev[at] < at
        BY <3>1, <4>1 DEF PrevFound
      <4>. QED BY <2>1, <3>1, <4>1, <4>2
    <3>3. at' \in 0..(at - 1)
      BY <2>1, <2>5, <3>1, <3>2 DEF Choose
    <3>. QED BY <2>1, <3>1, <3>3 DEF TurnsLeft
  <2>6. CASE Reply
    BY <2>1, <2>6 DEF Reply, TurnsLeft
  <2>. QED BY <1>2, <2>2, <2>3, <2>4, <2>5, <2>6 DEF Next
<1>3. Spec => []IInv
  BY Invariant
<1>. QED BY <1>1, <1>2, <1>3, PTL DEF Spec
================================================================================
