---------------------------- MODULE OnboardingProofs ----------------------------
(***************************************************************************)
(* Proofs about the bulk imports.  The previews of a sync, for every map,  *)
(* radius and outage: the circles of the calls cover the circle that was   *)
(* asked for, so what is missing was lost to a call that failed or had too *)
(* much to answer.  Then the batches, for any number of them side by side: *)
(* first what holds of a batch alone, then what holds of batches and users *)
(* together.                                                               *)
(***************************************************************************)
EXTENDS Onboarding, FiniteSetTheorems, TLAPS

--------------------------------------------------------------------------------
\* Squares

LEMMA SquareBound ==
  ASSUME NEW a \in Int, NEW b \in Nat, -b <= a, a <= b
  PROVE  a * a <= b * b
<1>1. CASE a >= 0
  <2>1. a * a <= a * b /\ a * b <= b * b
    BY <1>1
  <2>2. QED
    BY <2>1
<1>2. CASE a < 0
  <2>1. (-a) * (-a) <= (-a) * b /\ (-a) * b <= b * b
    BY <1>2
  <2>2. QED
    BY <2>1
<1>3. QED
  BY <1>1, <1>2

LEMMA SquareRoot ==
  ASSUME NEW a \in Int, NEW b \in Nat, a * a <= b * b
  PROVE  -b <= a /\ a <= b
<1>1. ASSUME a > b PROVE FALSE
  <2>1. a * a > a * b /\ a * b >= b * b
    BY <1>1
  <2>2. QED
    BY <2>1
<1>2. ASSUME -a > b PROVE FALSE
  <2>1. (-a) * (-a) > (-a) * b /\ (-a) * b >= b * b
    BY <1>2
  <2>2. QED
    BY <2>1
<1>3. QED
  BY <1>1, <1>2

LEMMA SquareNat == ASSUME NEW a \in Int PROVE a * a \in Nat
<1>1. CASE a >= 0
  BY <1>1
<1>2. CASE a < 0
  <2>1. (-a) * (-a) >= 0 /\ (-a) * (-a) = a * a
    BY <1>2
  <2>2. QED
    BY <2>1
<1>3. QED
  BY <1>1, <1>2

--------------------------------------------------------------------------------
\* The grid of tiles

\* Along one axis some tile is within half a spacing.
LEMMA TileAlongAxis ==
  ASSUME NEW radius \in Nat, CallRadius < radius, radius <= GridReach,
         NEW x \in Int, -radius <= x, x <= radius
  PROVE  \E s \in -Half(radius) .. Half(radius) : -35 <= x - 70 * s /\ x - 70 * s <= 35
<1> DEFINE n == (radius + 69) \div 70
<1>1. radius <= 245 /\ Half(radius) = AtMost(n, 3)
  BY DEF GridReach, MaxGridSide, Spacing, CallRadius, Half
<1>2. n \in Int /\ radius <= 70 * n
  OBVIOUS
<1>3. Half(radius) \in {n, 3}
  BY <1>1 DEF AtMost
<1>4. ASSUME NEW y \in Nat, y <= radius
      PROVE  \E s \in 0 .. Half(radius) : -35 <= y - 70 * s /\ y - 70 * s <= 35
  <2> DEFINE s == (y + 34) \div 70
  <2>1. s \in Int /\ 0 <= s /\ 70 * s <= y + 34 /\ y + 34 < 70 * s + 70
    BY <1>4
  <2>2. s <= 3 /\ s <= n
    BY <1>1, <1>2, <1>4, <2>1
  <2>3. s \in 0 .. Half(radius)
    BY <1>2, <1>3, <2>1, <2>2
  <2>4. QED
    BY <2>1, <2>3
<1>5. CASE x >= 0
  BY <1>4, <1>5, <1>2, <1>3
<1>6. CASE x < 0
  <2>1. PICK s \in 0 .. Half(radius) : -35 <= -x - 70 * s /\ -x - 70 * s <= 35
    <3>1. -x \in Nat /\ -x <= radius
      BY <1>6
    <3>2. QED
      BY <1>4, <3>1
  <2>2. -s \in -Half(radius) .. Half(radius) /\ s \in Int
    BY <1>2, <1>3, <2>1
  <2>3. -35 <= x - 70 * (-s) /\ x - 70 * (-s) <= 35
    BY <2>1, <2>2
  <2>4. QED
    BY <2>2, <2>3
<1>7. QED
  BY <1>5, <1>6

\* Every point of the circle that was asked for is in the circle of some call, as
\* far as the grid reaches (the comment on the tiles: "the union has no gaps").
THEOREM TilesHaveNoGaps ==
  ASSUME NEW radius \in Nat, radius <= GridReach, NEW p \in Int \X Int,
         Near(p, Centre, radius)
  PROVE  \E t \in TileCentres(radius) : Near(p, t, CallRadius)
<1> DEFINE steps == -Half(radius) .. Half(radius)
<1>1. p[1] \in Int /\ p[2] \in Int
  OBVIOUS
<1>2. p[1] * p[1] + p[2] * p[2] <= radius * radius
  BY <1>1 DEF Near, Centre
<1>3. p[1] * p[1] \in Nat /\ p[2] * p[2] \in Nat /\ radius * radius \in Nat
  BY <1>1, SquareNat
<1>4. CASE radius <= CallRadius
  <2>1. steps = {0}
    BY <1>4 DEF Half
  <2>2. <<0, 0>> \in TileCentres(radius)
    <3>1. <<0, 0>> \in steps \X steps
      BY <2>1
    <3>2. <<Spacing * <<0, 0>>[1], Spacing * <<0, 0>>[2]>> = <<0, 0>>
      BY DEF Spacing
    <3>3. QED
      BY <3>1, <3>2 DEF TileCentres
  <2>3. radius * radius <= CallRadius * CallRadius
    BY <1>4, SquareBound DEF CallRadius
  <2>4. Near(p, <<0, 0>>, CallRadius)
    BY <1>1, <1>2, <1>3, <2>3 DEF Near, CallRadius
  <2>5. QED
    BY <2>2, <2>4
<1>5. CASE CallRadius < radius
  <2>1. p[1] * p[1] <= radius * radius /\ p[2] * p[2] <= radius * radius
    BY <1>2, <1>3
  <2>2. -radius <= p[1] /\ p[1] <= radius /\ -radius <= p[2] /\ p[2] <= radius
    BY <1>1, <2>1, SquareRoot
  <2>3. PICK i \in steps : -35 <= p[1] - 70 * i /\ p[1] - 70 * i <= 35
    BY <1>1, <1>5, <2>2, TileAlongAxis
  <2>4. PICK k \in steps : -35 <= p[2] - 70 * k /\ p[2] - 70 * k <= 35
    BY <1>1, <1>5, <2>2, TileAlongAxis
  <2> DEFINE t == <<Spacing * i, Spacing * k>>
  <2>5. t \in TileCentres(radius)
    <3>1. <<i, k>> \in steps \X steps
      OBVIOUS
    <3>2. t = <<Spacing * <<i, k>>[1], Spacing * <<i, k>>[2]>>
      OBVIOUS
    <3>3. QED
      BY <3>1, <3>2 DEF TileCentres
  <2>6. i \in Int /\ k \in Int
    BY <2>3, <2>4
  <2>7. /\ (p[1] - 70 * i) * (p[1] - 70 * i) <= 35 * 35
        /\ (p[2] - 70 * k) * (p[2] - 70 * k) <= 35 * 35
    BY <1>1, <2>3, <2>4, <2>6, SquareBound
  <2>8. Near(p, t, CallRadius)
    BY <1>1, <2>6, <2>7, SquareNat DEF Near, CallRadius, Spacing
  <2>9. QED
    BY <2>5, <2>8
<1>6. QED
  BY <1>4, <1>5 DEF CallRadius

--------------------------------------------------------------------------------
\* One call

\* A call that leaves out a resort of its circle has more there than it may answer.
LEMMA LimitHides ==
  ASSUME NEW t, NEW i \in DOMAIN Resorts, Covers(t, i), ~ Answers(t, i)
  PROVE  Cardinality(Circle(t)) > MaxResults
<1> DEFINE before == {k \in Circle(t) : k < i}
<1>1. IsFiniteSet(Circle(t))
  <2>1. IsFiniteSet(1 .. Len(Resorts)) /\ Circle(t) \subseteq 1 .. Len(Resorts)
    BY ResortsAssumption, FS_Interval DEF Circle
  <2>2. QED
    BY <2>1, FS_Subset
<1>2. before \subseteq Circle(t) \ {i} /\ i \in Circle(t)
  BY ResortsAssumption DEF Circle
<1>3. /\ IsFiniteSet(Circle(t) \ {i})
      /\ Cardinality(Circle(t) \ {i}) = Cardinality(Circle(t)) - 1
  BY <1>1, <1>2, FS_RemoveElement
<1>4. /\ Cardinality(before) <= Cardinality(Circle(t) \ {i})
      /\ Cardinality(before) \in Nat /\ Cardinality(Circle(t)) \in Nat
  BY <1>1, <1>2, <1>3, FS_Subset, FS_CardinalityType
<1>5. Cardinality(before) >= MaxResults
  BY <1>4, ResortsAssumption DEF Answers
<1>6. QED
  BY <1>3, <1>4, <1>5, ResortsAssumption

LEMMA WithinGrows ==
  ASSUME NEW small \in Nat, NEW large \in Nat, small <= large
  PROVE  Within(small) \subseteq Within(large)
<1>1. small * small <= large * large /\ small * small \in Int /\ large * large \in Int
  BY SquareBound
<1>2. ASSUME NEW i \in DOMAIN Resorts, Near(Resorts[i].at, Centre, small)
      PROVE  Near(Resorts[i].at, Centre, large)
  <2>1. Resorts[i].at \in Int \X Int
    BY ResortsAssumption
  <2> DEFINE p == Resorts[i].at
  <2>2. /\ p[1] * p[1] \in Int /\ p[2] * p[2] \in Int
        /\ p[1] * p[1] + p[2] * p[2] <= small * small
    BY <1>2, <2>1 DEF Near, Centre
  <2>3. p[1] * p[1] + p[2] * p[2] <= large * large
    BY <1>1, <2>2
  <2>4. QED
    BY <2>1, <2>3 DEF Near, Centre
<1>3. QED
  BY <1>2 DEF Within

--------------------------------------------------------------------------------
\* The previews

\* What an administrator sees is the answer to his last search.
PreviewInv ==
  /\ preview \in [Imports -> [source : Sources \union {"none"}, radius : Nat,
                              failed : SUBSET (Int \X Int), shown : SUBSET DOMAIN Resorts]]
  /\ \A j \in Imports :
       LET p == preview[j] IN
       p.shown = CASE p.source = "osm" -> OsmPreview(p.radius)
                   [] p.source = "google" -> GooglePreview(p.radius, p.failed)
                   [] p.source = "none" -> {}

LEMMA SearchKeepsPreviews ==
  ASSUME PreviewInv, NEW j \in Imports, NEW radius \in Radii, NEW source \in Sources,
         NEW failed \in SUBSET (Int \X Int), Search(j, source, radius, failed)
  PROVE  PreviewInv'
<1> DEFINE shown == IF source = "osm" THEN OsmPreview(radius) ELSE GooglePreview(radius, failed)
           new == [source |-> source, radius |-> radius, failed |-> failed, shown |-> shown]
<1>1. shown \subseteq DOMAIN Resorts
  BY DEF OsmPreview, GooglePreview, Within
<1>2. radius \in Nat
  BY BatchAssumption
<1>3. new \in [source : Sources \union {"none"}, radius : Nat,
               failed : SUBSET (Int \X Int), shown : SUBSET DOMAIN Resorts]
  BY <1>1, <1>2
<1>4. preview' = [preview EXCEPT ![j] = new]
  BY DEF Search
<1>5. \A k \in Imports : preview'[k] = IF k = j THEN new ELSE preview[k]
  BY <1>4 DEF PreviewInv
<1>6. new.shown = CASE new.source = "osm" -> OsmPreview(new.radius)
                    [] new.source = "google" -> GooglePreview(new.radius, new.failed)
                    [] new.source = "none" -> {}
  BY DEF Sources
<1>7. preview' \in [Imports -> [source : Sources \union {"none"}, radius : Nat,
                               failed : SUBSET (Int \X Int), shown : SUBSET DOMAIN Resorts]]
  BY <1>3, <1>4 DEF PreviewInv
<1>8. \A k \in Imports :
        LET p == preview'[k] IN
        p.shown = CASE p.source = "osm" -> OsmPreview(p.radius)
                    [] p.source = "google" -> GooglePreview(p.radius, p.failed)
                    [] p.source = "none" -> {}
  BY <1>5, <1>6 DEF PreviewInv
<1>9. QED
  BY <1>7, <1>8 DEF PreviewInv, OsmPreview, GooglePreview, Within, TileCentres, Half, Answers,
                    Covers, Circle, Near
LEMMA NextPreviews == PreviewInv /\ [Next]_vars => PreviewInv'
<1> SUFFICES ASSUME PreviewInv, [Next]_vars PROVE PreviewInv'
  OBVIOUS
<1>1. ASSUME NEW j \in Imports, NEW radius \in Radii,
             \/ Search(j, "osm", radius, {})
             \/ \E out \in Outages : Search(j, "google", radius, TileCentres(radius) \intersect out)
      PROVE  PreviewInv'
  <2>1. CASE Search(j, "osm", radius, {})
    BY <2>1, SearchKeepsPreviews DEF Sources
  <2>2. ASSUME NEW out \in Outages,
               Search(j, "google", radius, TileCentres(radius) \intersect out)
        PROVE  PreviewInv'
    <3>1. radius \in Nat
      BY BatchAssumption
    <3>2. TileCentres(radius) \subseteq Int \X Int
      BY <3>1 DEF TileCentres, Spacing, Half, AtMost, MaxGridSide, CallRadius
    <3>3. QED
      BY <2>2, <3>2, SearchKeepsPreviews DEF Sources
  <2>3. QED
    BY <1>1, <2>1, <2>2
<1>2. ASSUME NEW j \in Imports, NEW kind, NEW rows, Start(j, kind, rows)
      PROVE  PreviewInv'
  <2>1. preview' = [preview EXCEPT ![j] = NoPreview]
    BY <1>2 DEF Start
  <2>2. NoPreview \in [source : Sources \union {"none"}, radius : Nat,
                       failed : SUBSET (Int \X Int), shown : SUBSET DOMAIN Resorts]
    BY DEF NoPreview
  <2>3. \A k \in Imports : preview'[k] = IF k = j THEN NoPreview ELSE preview[k]
    BY <2>1 DEF PreviewInv
  <2>4. QED
    BY <2>1, <2>2, <2>3 DEF PreviewInv, NoPreview, Sources
<1>3. ASSUME UNCHANGED preview PROVE PreviewInv'
  BY <1>3 DEF PreviewInv
<1>4. ASSUME NEW j \in Imports, Work(j) \/ Die(j) PROVE UNCHANGED preview
  BY <1>4 DEF Work, Die, SkipRow, TakeRow, RefuseRow, ResolveManager, InsertManager,
              InsertProperty, LoseProperty, BreakDeadlock, Commit, others
<1>5. ASSUME (\E u \in Registrants : Register(u)) \/ (\E c \in PhoneChanges : UpdatePhone(c[1], c[2]))
      PROVE  UNCHANGED preview
  BY <1>5 DEF Register, UpdatePhone
<1>6. UNCHANGED vars => UNCHANGED preview
  BY DEF vars, others
<1>7. QED
  BY <1>1, <1>2, <1>3, <1>4, <1>5, <1>6 DEF Next, StartSync, StartSheet

\* A preview hides no resort of the circle it was asked for, as far as the grid
\* reaches, unless the call that covers it failed or had more to answer than it may.
THEOREM PreviewsHideNothing == Spec => []PreviewHidesNothing
<1>1. Spec => Init /\ [][Next]_vars
  BY PTL DEF Spec
<1>2. Init => PreviewInv
  BY DEF Init, PreviewInv, NoPreview, Sources
<1>3. PreviewInv => PreviewHidesNothing
  <2> SUFFICES ASSUME PreviewInv, NEW j \in Imports
      PROVE  LET p == preview[j] IN
             /\ p.shown \subseteq Within(p.radius)
             /\ p.source = "osm" /\ p.radius <= OsmMaxRadius => p.shown = Within(p.radius)
             /\ p.source = "google" /\ p.radius <= GridReach =>
                  \A i \in Within(p.radius) \ p.shown :
                    \E t \in TileCentres(p.radius) :
                      /\ Covers(t, i)
                      /\ t \in p.failed \/ Cardinality(Circle(t)) > MaxResults
    BY DEF PreviewHidesNothing
  <2> DEFINE p == preview[j]
  <2>1. p.source \in {"osm", "google", "none"} /\ p.radius \in Nat
    BY DEF PreviewInv, Sources
  <2>2. /\ p.source = "osm" => p.shown = OsmPreview(p.radius)
        /\ p.source = "google" => p.shown = GooglePreview(p.radius, p.failed)
        /\ p.source = "none" => p.shown = {}
    BY <2>1 DEF PreviewInv
  <2>3. OsmPreview(p.radius) \subseteq Within(p.radius)
    BY <2>1, WithinGrows DEF OsmPreview, AtMost, OsmMaxRadius
  <2>4. p.shown \subseteq Within(p.radius)
    BY <2>1, <2>2, <2>3 DEF GooglePreview
  <2>5. p.source = "osm" /\ p.radius <= OsmMaxRadius => p.shown = Within(p.radius)
    BY <2>2 DEF OsmPreview, AtMost
  <2>6. ASSUME p.source = "google", p.radius <= GridReach, NEW i \in Within(p.radius) \ p.shown
        PROVE  \E t \in TileCentres(p.radius) :
                 Covers(t, i) /\ (t \in p.failed \/ Cardinality(Circle(t)) > MaxResults)
    <3>1. /\ i \in DOMAIN Resorts /\ Resorts[i].at \in Int \X Int
          /\ Near(Resorts[i].at, Centre, p.radius)
      BY ResortsAssumption DEF Within
    <3>2. PICK t \in TileCentres(p.radius) : Covers(t, i)
      BY <2>1, <2>6, <3>1, TilesHaveNoGaps DEF Covers
    <3>3. t \in p.failed \/ ~ Answers(t, i)
      BY <2>2, <2>6, <3>2 DEF GooglePreview
    <3>4. QED
      BY <3>1, <3>2, <3>3, LimitHides
  <2>7. QED
    BY <2>4, <2>5, <2>6
<1>4. QED
  BY <1>1, <1>2, <1>3, NextPreviews, PTL

--------------------------------------------------------------------------------
(***************************************************************************)
(* Batches.  What is true of a batch whatever the others do.               *)
(***************************************************************************)
Owner == [email : Emails, phone : PhonesOrNone]
SheetRow == [email : Emails \union {NoPhone}, phone : PhonesOrNone]

Batch ==
  [at : {"idle", "row", "manager", "property"}, kind : {"sheet", "sync"},
   rows : Seq(SheetRow), next : Nat \ {0}, seen : SUBSET Phones,
   fresh : BOOLEAN, lift : BOOLEAN, new : SUBSET Owner, raised : SUBSET Emails,
   made : Seq(Owner), managers : Nat, properties : Nat, skipped : Nat, errors : Nat]

Hand(b) == b.rows[b.next]
Writing(b) == b.at \in {"manager", "property"}
Lists(b, e) == \E i \in DOMAIN b.made : b.made[i].email = e

\* The row at hand is one of the rows, and only a row whose property is about to be
\* written has a manager of its own, or an agent to raise.
HandInv(b) ==
  /\ b.kind = "sheet" => b.rows \in Seq(Owner)
  /\ Writing(b) => b.next \in DOMAIN b.rows /\ Hand(b) \in Owner
  /\ b.fresh => b.at = "property" /\ ~ b.lift /\ Hand(b) \in b.new
  /\ b.lift => b.at = "property"

\* The pending users differ, and each has a property but the one at hand.
NewInv(b) ==
  /\ IsFiniteSet(b.new)
  /\ \A u, v \in b.new :
       u.email = v.email \/ (u.phone = v.phone /\ u.phone # NoPhone) => u = v
  /\ \A u \in b.new : (b.fresh /\ u = Hand(b)) \/ Lists(b, u.email)

\* The counters are right between the rows and within them.
CountInv(b) ==
  /\ b.properties + b.skipped + b.errors = b.next - 1
  /\ b.properties = Len(b.made)
  /\ b.kind = "sheet" =>
       Cardinality(b.new) = b.managers + (IF b.fresh THEN 1 ELSE 0)
  /\ b.kind = "sync" => /\ Cardinality(b.new) <= b.managers
                        /\ b.errors = 0 => Cardinality(b.new) = b.managers

\* A sync names an owner by his phone, and makes one property for each new one.
SyncInv(b) ==
  b.kind = "sync" =>
    /\ \A i \in DOMAIN b.rows : b.rows[i].email = b.rows[i].phone
    /\ b.at = "property" => b.fresh /\ ~ Lists(b, Hand(b).email)
    /\ Writing(b) => Hand(b).phone # NoPhone
    /\ \A i \in DOMAIN b.made : \E u \in b.new : u.email = b.made[i].email
    /\ \A i, k \in DOMAIN b.made : b.made[i].email = b.made[k].email => i = k

BatchInv(b) == HandInv(b) /\ NewInv(b) /\ CountInv(b) /\ SyncInv(b)
Batches == {b \in Batch : BatchInv(b)}

\* What each step makes of its batch.
Begun(kind, rows) == [[Idle EXCEPT !.kind = kind, !.rows = rows] EXCEPT !.at = "row"]
RowOver(b) == [[b EXCEPT !.next = @ + 1, !.fresh = FALSE, !.lift = FALSE] EXCEPT !.at = "row"]
Refused(b) == RowOver([b EXCEPT !.errors = @ + 1])
Lost(b) ==
  RowOver([b EXCEPT !.errors = @ + 1, !.new = IF b.fresh THEN @ \ {Hand(b)} ELSE @])
Skipped(b, p) ==
  RowOver([b EXCEPT !.skipped = @ + 1, !.seen = @ \union ({p} \ {NoPhone})])
Taken(b) == [b EXCEPT !.at = "manager"]
Resolved(b, at, lift) == [[b EXCEPT !.lift = lift] EXCEPT !.at = at]
Entered(b) ==
  [[b EXCEPT !.new = @ \union {Hand(b)}, !.fresh = TRUE,
             !.managers = IF b.kind = "sync" THEN @ + 1 ELSE @,
             !.seen = IF b.kind = "sync" THEN @ \union {Hand(b).phone} ELSE @]
     EXCEPT !.at = "property"]
Listing(b) ==
  RowOver([b EXCEPT
    !.made = Append(@, Hand(b)), !.properties = @ + 1,
    !.raised = IF b.lift THEN @ \union {Hand(b).email} ELSE @,
    !.managers = IF b.kind = "sheet" /\ b.fresh THEN @ + 1 ELSE @])

LEMMA RowOverFields ==
  ASSUME NEW b \in Batch, NEW c, c = RowOver(b)
  PROVE  /\ c \in Batch /\ c.at = "row" /\ c.next = b.next + 1 /\ ~ c.fresh /\ ~ c.lift
         /\ c.kind = b.kind /\ c.rows = b.rows /\ c.seen = b.seen /\ c.new = b.new
         /\ c.raised = b.raised /\ c.made = b.made /\ c.managers = b.managers
         /\ c.properties = b.properties /\ c.skipped = b.skipped /\ c.errors = b.errors
<1>1. b.next \in Nat \ {0} /\ b.next + 1 \in Nat \ {0}
  BY DEF Batch
<1> DEFINE next == b.next + 1
           d == [b EXCEPT !.next = next, !.fresh = FALSE, !.lift = FALSE]
<1>2. c = [d EXCEPT !.at = "row"]
  BY DEF RowOver
<1>3. next = b.next + 1 /\ next \in Nat \ {0}
  BY <1>1
<1> HIDE DEF next
<1>4. d \in Batch
  BY <1>3 DEF Batch
<1>5. /\ d.next = next /\ ~ d.fresh /\ ~ d.lift
      /\ d.kind = b.kind /\ d.rows = b.rows /\ d.seen = b.seen /\ d.new = b.new
      /\ d.raised = b.raised /\ d.made = b.made /\ d.managers = b.managers
      /\ d.properties = b.properties /\ d.skipped = b.skipped /\ d.errors = b.errors
  BY DEF Batch
<1> HIDE DEF d
<1>6. c \in Batch
  BY <1>2, <1>4 DEF Batch
<1>7. /\ c.at = "row" /\ c.next = d.next /\ c.fresh = d.fresh /\ c.lift = d.lift
      /\ c.kind = d.kind /\ c.rows = d.rows /\ c.seen = d.seen /\ c.new = d.new
      /\ c.raised = d.raised /\ c.made = d.made /\ c.managers = d.managers
      /\ c.properties = d.properties /\ c.skipped = d.skipped /\ c.errors = d.errors
  BY <1>2, <1>4 DEF Batch
<1>8. QED
  BY <1>3, <1>5, <1>6, <1>7

\* What every row that is over without a property leaves: its manager, if it had
\* one, is gone.
LEMMA RowWithoutProperty ==
  ASSUME NEW b \in Batches, NEW c \in Batch, b.at # "idle",
         c.at = "row", c.next = b.next + 1, ~ c.fresh, ~ c.lift,
         c.kind = b.kind, c.rows = b.rows, c.made = b.made, c.managers = b.managers,
         c.properties = b.properties,
         c.new = IF b.fresh THEN b.new \ {Hand(b)} ELSE b.new,
         \/ c.errors = b.errors + 1 /\ c.skipped = b.skipped
         \/ c.errors = b.errors /\ c.skipped = b.skipped + 1 /\ ~ b.fresh
  PROVE  c \in Batches
<1>1. b \in Batch /\ HandInv(b) /\ NewInv(b) /\ CountInv(b) /\ SyncInv(b)
  BY DEF Batches, BatchInv
<1>2. /\ b.next \in Nat /\ b.errors \in Nat /\ b.skipped \in Nat /\ b.properties \in Nat
      /\ b.managers \in Nat /\ b.fresh \in BOOLEAN /\ b.kind \in {"sheet", "sync"}
      /\ b.made \in Seq(Owner)
  BY <1>1 DEF Batch
<1>3. HandInv(c)
  BY <1>1 DEF HandInv, Writing
<1>4. /\ IsFiniteSet(b.new) /\ Cardinality(b.new) \in Nat
      /\ IsFiniteSet(b.new \ {Hand(b)})
      /\ b.fresh => Cardinality(b.new \ {Hand(b)}) = Cardinality(b.new) - 1
  BY <1>1, FS_RemoveElement, FS_CardinalityType DEF NewInv, HandInv
<1>5. NewInv(c)
  <2>1. IsFiniteSet(c.new) /\ c.new \subseteq b.new
    BY <1>4
  <2>2. \A u \in c.new : Lists(b, u.email)
    BY <1>1 DEF NewInv
  <2>3. \A e : Lists(b, e) => Lists(c, e)
    BY DEF Lists
  <2>4. QED
    BY <1>1, <2>1, <2>2, <2>3 DEF NewInv
<1>6. CountInv(c)
  <2>1. c.properties + c.skipped + c.errors = c.next - 1 /\ c.properties = Len(c.made)
    <3>1. b.properties + b.skipped + b.errors = b.next - 1 /\ b.properties = Len(b.made)
      BY <1>1 DEF CountInv
    <3>2. \/ c.errors = b.errors + 1 /\ c.skipped = b.skipped
          \/ c.errors = b.errors /\ c.skipped = b.skipped + 1
      OBVIOUS
    <3>3. b.properties + c.skipped + c.errors = b.next
      <4> DEFINE m == b.properties  k == b.skipped  l == b.errors  n == b.next
                 k2 == c.skipped  l2 == c.errors
      <4>1. m \in Nat /\ k \in Nat /\ l \in Nat /\ n \in Nat
        BY <1>2
      <4>2. m + k + l = n - 1
        BY <3>1
      <4>3. \/ l2 = l + 1 /\ k2 = k
            \/ l2 = l /\ k2 = k + 1
        BY <3>2
      <4> HIDE DEF m, k, l, n, k2, l2
      <4>4. m + k2 + l2 = n
        <5>1. CASE l2 = l + 1 /\ k2 = k
          <6>1. m + k + (l + 1) = n
            BY <4>1, <4>2
          <6>2. QED
            BY <5>1, <6>1
        <5>2. CASE l2 = l /\ k2 = k + 1
          <6>1. m + (k + 1) + l = n
            BY <4>1, <4>2
          <6>2. QED
            BY <5>2, <6>1
        <5>3. QED
          BY <4>3, <5>1, <5>2
      <4>5. QED
        BY <4>4 DEF m, k2, l2, n
    <3>4. c.next - 1 = b.next
      BY <1>2
    <3>5. QED
      BY <3>1, <3>3, <3>4
  <2>2. CASE b.fresh
    <3>1. Cardinality(c.new) = Cardinality(b.new) - 1 /\ c.errors = b.errors + 1
      BY <1>4, <2>2
    <3>2. PICK size \in Nat : size = Cardinality(b.new)
      BY <1>4
    <3>3. b.kind = "sheet" => size = b.managers + 1
      BY <1>1, <2>2, <3>2 DEF CountInv
    <3>4. b.kind = "sheet" => Cardinality(c.new) = c.managers + 0
      BY <1>2, <3>1, <3>2, <3>3
    <3>5. b.kind = "sync" => size <= b.managers
      BY <1>1, <3>2 DEF CountInv
    <3>6. b.kind = "sync" => Cardinality(c.new) <= c.managers
      BY <1>2, <3>1, <3>2, <3>5
    <3>7. c.errors # 0
      BY <1>2, <3>1
    <3>8. QED
      BY <2>1, <3>4, <3>6, <3>7 DEF CountInv
  <2>3. CASE ~ b.fresh
    <3>1. Cardinality(c.new) = Cardinality(b.new)
      BY <2>3
    <3>2. QED
      BY <1>1, <1>2, <1>4, <2>1, <2>3, <3>1 DEF CountInv
  <2>4. QED
    BY <2>2, <2>3
<1>7. SyncInv(c)
  <2>1. SUFFICES ASSUME c.kind = "sync" PROVE SyncInv(c)
    BY DEF SyncInv
  <2>2. ASSUME NEW i \in DOMAIN b.made
        PROVE  \E u \in c.new : u.email = b.made[i].email
    <3>1. PICK u \in b.new : u.email = b.made[i].email
      BY <1>1, <2>1 DEF SyncInv
    <3>2. b.fresh => u # Hand(b)
      BY <1>1, <2>1, <3>1 DEF SyncInv, HandInv, Lists
    <3>3. QED
      BY <3>1, <3>2
  <2>3. QED
    BY <1>1, <2>1, <2>2 DEF SyncInv, Writing
<1>8. QED
  BY <1>3, <1>5, <1>6, <1>7 DEF Batches, BatchInv

LEMMA RefusedBatch ==
  ASSUME NEW b \in Batches, b.at # "idle", ~ b.fresh,
         NEW c, c = Refused(b)
  PROVE  /\ c \in Batches /\ c.kind = b.kind /\ c.rows = b.rows /\ c.errors # 0
         /\ c.new = b.new /\ c.raised = b.raised /\ ~ c.lift
         /\ c.at = "row" /\ c.next = b.next + 1
<1> USE DEF Refused
<1> DEFINE d == [b EXCEPT !.errors = @ + 1]
<1>1. b \in Batch
  BY DEF Batches
<1>2. b.errors + 1 \in Nat
  BY <1>1 DEF Batch
<1>3. d \in Batch
  BY <1>1, <1>2 DEF Batch
<1>4. /\ d.errors = b.errors + 1 /\ d.next = b.next /\ d.kind = b.kind
      /\ d.rows = b.rows /\ d.new = b.new /\ d.made = b.made /\ d.managers = b.managers
      /\ d.properties = b.properties /\ d.skipped = b.skipped /\ d.raised = b.raised
  BY <1>1 DEF Batch
<1>5. c = RowOver(d)
  OBVIOUS
<1> HIDE DEF d
<1>6. /\ c \in Batch /\ c.at = "row" /\ c.next = d.next + 1 /\ ~ c.fresh /\ ~ c.lift
      /\ c.kind = d.kind /\ c.rows = d.rows /\ c.new = d.new /\ c.made = d.made
      /\ c.managers = d.managers /\ c.properties = d.properties /\ c.skipped = d.skipped
      /\ c.errors = d.errors /\ c.raised = d.raised /\ c.seen = d.seen
  BY <1>3, <1>5, RowOverFields
<1>7. c \in Batches
  BY <1>1, <1>4, <1>6, RowWithoutProperty
<1>8. b.errors + 1 # 0
  BY <1>1 DEF Batch
<1>9. QED
  BY <1>4, <1>6, <1>7, <1>8

LEMMA LostBatch ==
  ASSUME NEW b \in Batches, b.at = "property",
         NEW c, c = Lost(b)
  PROVE  /\ c \in Batches /\ c.kind = b.kind /\ c.rows = b.rows /\ c.errors # 0
         /\ c.new \subseteq b.new /\ c.raised = b.raised /\ ~ c.lift
         /\ c.at = "row" /\ c.next = b.next + 1
<1> USE DEF Lost
<1> DEFINE d == [b EXCEPT !.errors = @ + 1, !.new = IF b.fresh THEN @ \ {Hand(b)} ELSE @]
<1>1. b \in Batch /\ c = RowOver(d)
  BY DEF Batches
<1> DEFINE errors == b.errors + 1
           new == IF b.fresh THEN b.new \ {Hand(b)} ELSE b.new
<1>2. errors \in Nat /\ new \in SUBSET Owner
  BY <1>1 DEF Batch
<1>3. d = [b EXCEPT !.errors = errors, !.new = new]
  BY <1>1 DEF Batch
<1> HIDE DEF errors, new, d
<1>4. d \in Batch
  BY <1>1, <1>2, <1>3 DEF Batch
<1>5. /\ d.errors = errors /\ d.next = b.next /\ d.kind = b.kind
      /\ d.rows = b.rows /\ d.made = b.made /\ d.managers = b.managers
      /\ d.properties = b.properties /\ d.skipped = b.skipped /\ d.new = new
      /\ d.raised = b.raised
  BY <1>1, <1>3 DEF Batch
<1>6. errors = b.errors + 1 /\ new = IF b.fresh THEN b.new \ {Hand(b)} ELSE b.new
  BY DEF errors, new
<1>7. /\ c \in Batch /\ c.at = "row" /\ c.next = d.next + 1 /\ ~ c.fresh /\ ~ c.lift
      /\ c.kind = d.kind /\ c.rows = d.rows /\ c.new = d.new /\ c.made = d.made
      /\ c.managers = d.managers /\ c.properties = d.properties /\ c.skipped = d.skipped
      /\ c.errors = d.errors /\ c.raised = d.raised /\ c.seen = d.seen
  BY <1>1, <1>4, RowOverFields
<1>8. c \in Batches
  BY <1>1, <1>5, <1>6, <1>7, RowWithoutProperty
<1>9. b.errors + 1 # 0
  BY <1>1 DEF Batch
<1>10. QED
  BY <1>5, <1>6, <1>7, <1>8, <1>9

LEMMA SkippedBatch ==
  ASSUME NEW b \in Batches, b.at = "row", NEW p \in PhonesOrNone,
         NEW c, c = Skipped(b, p)
  PROVE  /\ c \in Batches /\ c.kind = b.kind /\ c.rows = b.rows /\ c.next = b.next + 1
         /\ c.new = b.new /\ c.raised = b.raised /\ ~ c.lift
         /\ c.seen \subseteq b.seen \union {p} /\ c.errors = b.errors /\ c.at = "row"
<1> USE DEF Skipped
<1> DEFINE d == [b EXCEPT !.skipped = @ + 1, !.seen = @ \union ({p} \ {NoPhone})]
<1>1. b \in Batch /\ ~ b.fresh /\ c = RowOver(d)
  BY DEF Batches, BatchInv, HandInv
<1>2. {p} \ {NoPhone} \subseteq Phones
  BY DEF PhonesOrNone
<1> DEFINE skipped == b.skipped + 1
           seen == b.seen \union ({p} \ {NoPhone})
<1>3. skipped \in Nat /\ seen \in SUBSET Phones
  BY <1>1, <1>2 DEF Batch
<1>4. d = [b EXCEPT !.skipped = skipped, !.seen = seen]
  BY <1>1 DEF Batch
<1>5. skipped = b.skipped + 1 /\ seen \subseteq b.seen \union {p}
  OBVIOUS
<1> HIDE DEF skipped, seen, d
<1>6. d \in Batch
  BY <1>1, <1>3, <1>4 DEF Batch
<1>7. /\ d.errors = b.errors /\ d.next = b.next /\ d.kind = b.kind
      /\ d.rows = b.rows /\ d.made = b.made /\ d.managers = b.managers
      /\ d.properties = b.properties /\ d.skipped = skipped /\ d.new = b.new
      /\ d.raised = b.raised /\ d.seen = seen
  BY <1>1, <1>4 DEF Batch
<1>8. /\ c \in Batch /\ c.at = "row" /\ c.next = d.next + 1 /\ ~ c.fresh /\ ~ c.lift
      /\ c.kind = d.kind /\ c.rows = d.rows /\ c.new = d.new /\ c.made = d.made
      /\ c.managers = d.managers /\ c.properties = d.properties /\ c.skipped = d.skipped
      /\ c.errors = d.errors /\ c.raised = d.raised /\ c.seen = d.seen
  BY <1>1, <1>6, RowOverFields
<1>9. c \in Batches
  BY <1>1, <1>5, <1>7, <1>8, RowWithoutProperty
<1>10. QED
  BY <1>5, <1>7, <1>8, <1>9

LEMMA TakenBatch ==
  ASSUME NEW b \in Batches, b.at = "row", b.kind = "sync", b.next <= Len(b.rows),
         Hand(b).phone # NoPhone, NEW c, c = Taken(b)
  PROVE  /\ c \in Batches /\ c.kind = b.kind /\ c.rows = b.rows /\ c.next = b.next
         /\ c.new = b.new /\ c.raised = b.raised /\ ~ c.lift
         /\ c.seen = b.seen /\ c.errors = b.errors /\ c.at = "manager"
<1> USE DEF Taken
<1>1. b \in Batch /\ HandInv(b) /\ NewInv(b) /\ CountInv(b) /\ SyncInv(b)
  BY DEF Batches, BatchInv
<1>2. /\ c \in Batch /\ c.at = "manager" /\ c.next = b.next /\ c.fresh = b.fresh
      /\ c.lift = b.lift /\ c.kind = b.kind /\ c.rows = b.rows /\ c.new = b.new
      /\ c.made = b.made /\ c.managers = b.managers /\ c.properties = b.properties
      /\ c.skipped = b.skipped /\ c.errors = b.errors /\ c.raised = b.raised
      /\ c.seen = b.seen
  BY <1>1 DEF Batch
<1>3. b.rows \in Seq(SheetRow) /\ b.next \in Nat \ {0}
  BY <1>1 DEF Batch
<1>4. b.next \in DOMAIN b.rows /\ Hand(b) \in SheetRow
  BY <1>3 DEF Hand
<1>5. Hand(b) \in Owner
  <2>1. Hand(b).email = Hand(b).phone
    BY <1>1, <1>4 DEF SyncInv, Hand
  <2>2. QED
    BY <1>4, <2>1 DEF SheetRow, Owner, PhonesOrNone, Emails
<1>6. HandInv(c)
  BY <1>1, <1>2, <1>4, <1>5 DEF HandInv, Hand
<1>7. NewInv(c)
  BY <1>1, <1>2 DEF NewInv, Hand, Lists
<1>8. CountInv(c)
  BY <1>1, <1>2 DEF CountInv
<1>9. SyncInv(c)
  BY <1>1, <1>2 DEF SyncInv, Hand
<1>10. QED
  BY <1>2, <1>6, <1>7, <1>8, <1>9 DEF Batches, BatchInv, HandInv

LEMMA ResolvedBatch ==
  ASSUME NEW b \in Batches, b.at = "row", b.kind = "sheet", b.next <= Len(b.rows),
         NEW at \in {"manager", "property"}, NEW lift \in BOOLEAN, lift => at = "property",
         NEW c, c = Resolved(b, at, lift)
  PROVE  /\ c \in Batches /\ c.kind = b.kind /\ Hand(c) = Hand(b)
         /\ c.new = b.new /\ c.raised = b.raised /\ c.lift = lift
         /\ c.rows = b.rows /\ c.next = b.next /\ c.at = at
<1> USE DEF Resolved
<1>1. b \in Batch /\ HandInv(b) /\ NewInv(b) /\ CountInv(b) /\ SyncInv(b)
  BY DEF Batches, BatchInv
<1>2. /\ c \in Batch /\ c.at = at /\ c.next = b.next /\ c.fresh = b.fresh
      /\ c.lift = lift /\ c.kind = b.kind /\ c.rows = b.rows /\ c.new = b.new
      /\ c.made = b.made /\ c.managers = b.managers /\ c.properties = b.properties
      /\ c.skipped = b.skipped /\ c.errors = b.errors /\ c.raised = b.raised
  BY <1>1 DEF Batch
<1>3. b.rows \in Seq(Owner) /\ b.next \in Nat \ {0}
  BY <1>1 DEF Batch, HandInv
<1>4. b.next \in DOMAIN b.rows /\ Hand(b) \in Owner
  BY <1>3 DEF Hand
<1>5. HandInv(c)
  BY <1>1, <1>2, <1>4 DEF HandInv, Hand
<1>6. NewInv(c)
  BY <1>1, <1>2 DEF NewInv, Hand, Lists
<1>7. CountInv(c)
  BY <1>1, <1>2 DEF CountInv
<1>8. SyncInv(c)
  BY <1>1, <1>2 DEF SyncInv
<1>9. QED
  BY <1>2, <1>5, <1>6, <1>7, <1>8 DEF Batches, BatchInv, Hand

LEMMA EnteredBatch ==
  ASSUME NEW b \in Batches, b.at = "manager",
         \A u \in b.new : u.email # Hand(b).email
                          /\ (u.phone # Hand(b).phone \/ u.phone = NoPhone),
         NEW c, c = Entered(b)
  PROVE  /\ c \in Batches /\ c.kind = b.kind /\ c.rows = b.rows /\ c.next = b.next
         /\ c.new = b.new \union {Hand(b)} /\ c.raised = b.raised /\ ~ c.lift
         /\ c.seen \subseteq b.seen \union {Hand(b).phone} /\ c.errors = b.errors /\ c.at = "property"
<1> USE DEF Entered
<1> DEFINE h == Hand(b)
           new == b.new \union {h}
           managers == IF b.kind = "sync" THEN b.managers + 1 ELSE b.managers
           seen == IF b.kind = "sync" THEN b.seen \union {h.phone} ELSE b.seen
           d == [b EXCEPT !.new = new, !.fresh = TRUE, !.managers = managers, !.seen = seen]
<1>1. b \in Batch /\ HandInv(b) /\ NewInv(b) /\ CountInv(b) /\ SyncInv(b)
  BY DEF Batches, BatchInv
<1>2. /\ b.next \in DOMAIN b.rows /\ h \in Owner /\ ~ b.lift /\ ~ b.fresh
      /\ b.kind = "sync" => h.phone \in Phones
  BY <1>1 DEF HandInv, SyncInv, Writing, Owner, PhonesOrNone
<1>3. new \in SUBSET Owner /\ managers \in Nat /\ seen \in SUBSET Phones
  BY <1>1, <1>2 DEF Batch
<1>4. c = [d EXCEPT !.at = "property"]
  BY <1>1 DEF Batch
<1>5. /\ h \notin b.new /\ new = b.new \union {h}
      /\ managers = IF b.kind = "sync" THEN b.managers + 1 ELSE b.managers
      /\ seen \subseteq b.seen \union {h.phone}
  OBVIOUS
<1> HIDE DEF new, managers, seen, d
<1>6. d \in Batch
  BY <1>1, <1>3 DEF Batch, d
<1>7. /\ d.fresh /\ d.lift = b.lift /\ d.next = b.next /\ d.kind = b.kind /\ d.rows = b.rows
      /\ d.made = b.made /\ d.managers = managers /\ d.properties = b.properties
      /\ d.skipped = b.skipped /\ d.errors = b.errors /\ d.new = new
      /\ d.raised = b.raised /\ d.seen = seen
  BY <1>1 DEF Batch, d
<1>8. c \in Batch
  BY <1>4, <1>6 DEF Batch
<1>9. /\ c.at = "property" /\ c.fresh /\ ~ c.lift /\ c.next = b.next /\ c.kind = b.kind
      /\ c.rows = b.rows /\ c.made = b.made /\ c.managers = managers
      /\ c.properties = b.properties /\ c.skipped = b.skipped /\ c.errors = b.errors
      /\ c.new = new /\ c.raised = b.raised /\ c.seen = seen
  <2>1. /\ c.at = "property" /\ c.fresh = d.fresh /\ c.lift = d.lift /\ c.next = d.next
        /\ c.kind = d.kind /\ c.rows = d.rows /\ c.made = d.made
        /\ c.managers = d.managers /\ c.properties = d.properties
        /\ c.skipped = d.skipped /\ c.errors = d.errors /\ c.new = d.new
        /\ c.raised = d.raised /\ c.seen = d.seen
    BY <1>4, <1>6 DEF Batch
  <2>2. QED
    BY <1>2, <1>7, <2>1
<1>10. Hand(c) = h
  BY <1>9 DEF Hand
<1>11. HandInv(c)
  BY <1>1, <1>2, <1>5, <1>9, <1>10 DEF HandInv
<1>12. IsFiniteSet(b.new) /\ IsFiniteSet(new) /\ Cardinality(new) = Cardinality(b.new) + 1
       /\ Cardinality(b.new) \in Nat
  BY <1>1, <1>5, FS_AddElement, FS_CardinalityType DEF NewInv
<1>13. \A e : Lists(c, e) <=> Lists(b, e)
  BY <1>9 DEF Lists
<1>14. NewInv(c)
  <2>1. \A u \in b.new : Lists(c, u.email)
    BY <1>1, <1>2, <1>13 DEF NewInv
  <2>2. \A u, v \in new :
          u.email = v.email \/ (u.phone = v.phone /\ u.phone # NoPhone) => u = v
    BY <1>1, <1>5 DEF NewInv
  <2>3. QED
    BY <1>5, <1>9, <1>10, <1>12, <2>1, <2>2 DEF NewInv
<1>15. CountInv(c)
  <2>1. c.properties + c.skipped + c.errors = c.next - 1 /\ c.properties = Len(c.made)
    BY <1>1, <1>9 DEF CountInv
  <2>2. b.kind = "sheet" => Cardinality(b.new) = b.managers
    <3>1. b.kind = "sheet" => Cardinality(b.new) = b.managers + 0
      BY <1>1, <1>2 DEF CountInv
    <3>2. b.managers \in Nat
      BY <1>1 DEF Batch
    <3>3. QED
      BY <3>1, <3>2
  <2>3. c.kind = "sheet" => Cardinality(c.new) = c.managers + 1
    BY <1>5, <1>9, <1>12, <2>2
  <2>4. b.managers \in Nat
    BY <1>1 DEF Batch
  <2>5. b.kind = "sync" => /\ Cardinality(b.new) <= b.managers
                           /\ b.errors = 0 => Cardinality(b.new) = b.managers
    BY <1>1 DEF CountInv
  <2>6. c.kind = "sync" => /\ Cardinality(c.new) <= c.managers
                           /\ c.errors = 0 => Cardinality(c.new) = c.managers
    BY <1>5, <1>9, <1>12, <2>4, <2>5
  <2>7. QED
    BY <1>9, <2>1, <2>3, <2>6 DEF CountInv
<1>16. SyncInv(c)
  <2>1. SUFFICES ASSUME c.kind = "sync" PROVE SyncInv(c)
    BY DEF SyncInv
  <2>2. \A i \in DOMAIN b.made : \E u \in b.new : u.email = b.made[i].email
    BY <1>1, <1>9, <2>1 DEF SyncInv
  <2>3. ~ Lists(b, h.email)
    BY <2>2 DEF Lists
  <2>4. h.phone # NoPhone
    BY <1>1, <1>9, <2>1 DEF SyncInv, Writing
  <2>5. QED
    BY <1>1, <1>5, <1>9, <1>10, <1>13, <2>1, <2>2, <2>3, <2>4 DEF SyncInv
<1>17. QED
  BY <1>5, <1>8, <1>9, <1>11, <1>14, <1>15, <1>16 DEF Batches, BatchInv

LEMMA MadeBatch ==
  ASSUME NEW b \in Batches, b.at = "property",
         NEW c, c = Listing(b)
  PROVE  /\ c \in Batches /\ c.kind = b.kind /\ c.rows = b.rows /\ c.next = b.next + 1
         /\ c.new = b.new /\ ~ c.lift
         /\ c.raised \subseteq b.raised \union {Hand(b).email}
         /\ ~ b.lift => c.raised = b.raised
         /\ c.seen = b.seen /\ c.errors = b.errors
         /\ c.at = "row"
<1> USE DEF Listing
<1> DEFINE h == Hand(b)
           made == Append(b.made, h)
           properties == b.properties + 1
           raised == IF b.lift THEN b.raised \union {h.email} ELSE b.raised
           managers == IF b.kind = "sheet" /\ b.fresh THEN b.managers + 1 ELSE b.managers
           d == [b EXCEPT !.made = made, !.properties = properties, !.raised = raised,
                          !.managers = managers]
<1>1. b \in Batch /\ HandInv(b) /\ NewInv(b) /\ CountInv(b) /\ SyncInv(b)
  BY DEF Batches, BatchInv
<1>2. b.next \in DOMAIN b.rows /\ h \in Owner
  BY <1>1 DEF HandInv, Writing
<1>3. /\ made \in Seq(Owner) /\ properties \in Nat /\ raised \in SUBSET Emails
      /\ managers \in Nat
  BY <1>1, <1>2 DEF Batch, Owner
<1>4. c = RowOver(d) /\ raised = IF b.lift THEN b.raised \union {h.email} ELSE b.raised
  BY <1>1 DEF Batch
<1>5. /\ properties = b.properties + 1
      /\ managers = IF b.kind = "sheet" /\ b.fresh THEN b.managers + 1 ELSE b.managers
      /\ Len(made) = Len(b.made) + 1 /\ made[Len(b.made) + 1] = h
      /\ DOMAIN made = 1 .. Len(b.made) + 1 /\ DOMAIN b.made = 1 .. Len(b.made)
      /\ \A i \in DOMAIN b.made : made[i] = b.made[i]
      /\ Len(b.made) \in Nat
  <2>1. b.made \in Seq(Owner)
    BY <1>1 DEF Batch
  <2>2. QED
    BY <1>2, <2>1
<1> HIDE DEF made, properties, raised, managers, d
<1>6. d \in Batch
  BY <1>1, <1>3 DEF Batch, d
<1>7. /\ d.next = b.next /\ d.kind = b.kind /\ d.rows = b.rows
      /\ d.made = made /\ d.managers = managers /\ d.properties = properties
      /\ d.skipped = b.skipped /\ d.errors = b.errors /\ d.new = b.new
      /\ d.raised = raised /\ d.seen = b.seen
  BY <1>1 DEF Batch, d
<1>8. /\ c \in Batch /\ c.at = "row" /\ c.next = d.next + 1 /\ ~ c.fresh /\ ~ c.lift
      /\ c.kind = d.kind /\ c.rows = d.rows /\ c.new = d.new /\ c.made = d.made
      /\ c.managers = d.managers /\ c.properties = d.properties /\ c.skipped = d.skipped
      /\ c.errors = d.errors /\ c.raised = d.raised /\ c.seen = d.seen
  BY <1>4, <1>6, RowOverFields
<1>9. HandInv(c)
  BY <1>1, <1>7, <1>8 DEF HandInv, Writing
<1>10. Lists(c, h.email) /\ \A e : Lists(b, e) => Lists(c, e)
  <2>1. c.made = made
    BY <1>7, <1>8
  <2>2. Len(b.made) + 1 \in DOMAIN made /\ \A i \in DOMAIN b.made : i \in DOMAIN made
    BY <1>5
  <2>3. QED
    BY <1>5, <2>1, <2>2 DEF Lists
<1>11. NewInv(c)
  BY <1>1, <1>7, <1>8, <1>10 DEF NewInv
<1>12. CountInv(c)
  <2>1. c.properties = Len(c.made)
    BY <1>1, <1>5, <1>7, <1>8 DEF CountInv
  <2>2. c.properties + c.skipped + c.errors = c.next - 1
    <3> DEFINE m == b.properties  k == b.skipped  l == b.errors  n == b.next
    <3>1. m \in Nat /\ k \in Nat /\ l \in Nat /\ n \in Nat /\ m + k + l = n - 1
      BY <1>1 DEF CountInv, Batch
    <3>2. /\ c.properties = m + 1 /\ c.skipped = k /\ c.errors = l /\ c.next = n + 1
      BY <1>5, <1>7, <1>8
    <3> HIDE DEF m, k, l, n
    <3>3. (m + 1) + k + l = (n + 1) - 1
      BY <3>1
    <3>4. QED
      BY <3>2, <3>3
  <2>3. b.managers \in Nat /\ b.kind \in {"sheet", "sync"} /\ b.fresh \in BOOLEAN
    BY <1>1 DEF Batch
  <2>4. c.kind = "sheet" => Cardinality(c.new) = c.managers
    <3>1. b.kind = "sheet" => Cardinality(b.new) = b.managers + (IF b.fresh THEN 1 ELSE 0)
      BY <1>1 DEF CountInv
    <3>2. CASE b.fresh
      BY <1>5, <1>7, <1>8, <2>3, <3>1, <3>2
    <3>3. CASE ~ b.fresh
      BY <1>5, <1>7, <1>8, <2>3, <3>1, <3>3
    <3>4. QED
      BY <3>2, <3>3
  <2>5. c.kind = "sync" => /\ Cardinality(c.new) <= c.managers
                           /\ c.errors = 0 => Cardinality(c.new) = c.managers
    <3>1. b.kind = "sync" => /\ Cardinality(b.new) <= b.managers
                             /\ b.errors = 0 => Cardinality(b.new) = b.managers
      BY <1>1 DEF CountInv
    <3>2. b.kind = "sync" => managers = b.managers
      BY <1>5
    <3>3. QED
      BY <1>7, <1>8, <3>1, <3>2
  <2>6. c.kind = "sheet" => Cardinality(c.new) = c.managers + 0
    <3>1. c.managers \in Nat
      BY <1>8 DEF Batch
    <3>2. QED
      BY <2>4, <3>1
  <2>7. QED
    BY <1>8, <2>1, <2>2, <2>5, <2>6 DEF CountInv
<1>13. SyncInv(c)
  <2>1. SUFFICES ASSUME c.kind = "sync" PROVE SyncInv(c)
    BY DEF SyncInv
  <2>2. /\ b.fresh /\ ~ Lists(b, h.email)
        /\ \A i \in DOMAIN b.made : \E u \in b.new : u.email = b.made[i].email
        /\ \A i, k \in DOMAIN b.made : b.made[i].email = b.made[k].email => i = k
        /\ \A i \in DOMAIN b.rows : b.rows[i].email = b.rows[i].phone
    BY <1>1, <1>7, <1>8, <2>1 DEF SyncInv
  <2>3. h \in b.new
    BY <1>1, <2>2 DEF HandInv
  <2>4. \A i \in DOMAIN made : i \in DOMAIN b.made \/ (i = Len(b.made) + 1 /\ made[i] = h)
    BY <1>5
  <2>5. \A i \in DOMAIN made : \E u \in b.new : u.email = made[i].email
    BY <1>5, <2>2, <2>3, <2>4
  <2>6. \A i \in DOMAIN b.made : made[i].email # h.email
    BY <1>5, <2>2 DEF Lists
  <2>7. \A i, k \in DOMAIN made : made[i].email = made[k].email => i = k
    BY <1>5, <2>2, <2>4, <2>6
  <2>8. c.rows = b.rows /\ c.new = b.new /\ c.made = made
    BY <1>7, <1>8
  <2>9. c.at # "property" /\ ~ Writing(c)
    BY <1>8 DEF Writing
  <2>10. \A i \in DOMAIN c.rows : c.rows[i].email = c.rows[i].phone
    BY <2>2, <2>8
  <2>11. \A i \in DOMAIN c.made : \E u \in c.new : u.email = c.made[i].email
    BY <2>5, <2>8
  <2>12. \A i, k \in DOMAIN c.made : c.made[i].email = c.made[k].email => i = k
    BY <2>7, <2>8
  <2>13. QED
    BY <2>9, <2>10, <2>11, <2>12 DEF SyncInv
<1>14. c \in Batches
  BY <1>8, <1>9, <1>11, <1>12, <1>13 DEF Batches, BatchInv
<1>15. QED
  BY <1>4, <1>7, <1>8, <1>14

LEMMA IdleBatch == Idle \in Batches /\ Idle.at = "idle" /\ Idle.new = {} /\ Idle.raised = {}
                   /\ Idle.kind = "sheet" /\ ~ Idle.lift
<1>1. /\ Idle.at = "idle" /\ Idle.kind = "sheet" /\ Idle.rows = <<>> /\ Idle.next = 1
      /\ ~ Idle.fresh /\ ~ Idle.lift /\ Idle.new = {} /\ Idle.made = <<>>
      /\ Idle.managers = 0 /\ Idle.properties = 0 /\ Idle.skipped = 0 /\ Idle.errors = 0
      /\ Idle.raised = {} /\ Idle.seen = {}
  BY DEF Idle
<1>2. Idle \in Batch
  <2>1. <<>> \in Seq(SheetRow) /\ <<>> \in Seq(Owner)
    OBVIOUS
  <2>2. /\ 1 \in Nat \ {0} /\ 0 \in Nat /\ {} \in SUBSET Phones /\ {} \in SUBSET Owner
        /\ {} \in SUBSET Emails /\ FALSE \in BOOLEAN
    OBVIOUS
  <2>3. QED
    BY <2>1, <2>2, Zenon DEF Idle, Batch
<1>3. IsFiniteSet({}) /\ Cardinality({}) = 0
  BY FS_EmptySet
<1>4. HandInv(Idle)
  BY <1>1 DEF HandInv, Writing
<1>5. NewInv(Idle)
  BY <1>1, <1>3 DEF NewInv
<1>6. CountInv(Idle)
  <2>1. Idle.properties + Idle.skipped + Idle.errors = Idle.next - 1
    BY <1>1
  <2>2. Idle.properties = Len(Idle.made)
    BY <1>1
  <2>3. Cardinality(Idle.new) = Idle.managers + (IF Idle.fresh THEN 1 ELSE 0)
    BY <1>1, <1>3
  <2>4. QED
    BY <1>1, <2>1, <2>2, <2>3 DEF CountInv
<1>7. SyncInv(Idle)
  BY <1>1 DEF SyncInv
<1>8. QED
  BY <1>1, <1>2, <1>4, <1>5, <1>6, <1>7 DEF Batches, BatchInv

LEMMA BegunBatch ==
  ASSUME NEW kind \in {"sheet", "sync"}, NEW rows \in Seq(SheetRow),
         kind = "sheet" => rows \in Seq(Owner),
         kind = "sync" => \A i \in DOMAIN rows : rows[i].email = rows[i].phone,
         NEW c, c = Begun(kind, rows)
  PROVE  /\ c \in Batches /\ c.at = "row" /\ c.new = {} /\ c.raised = {} /\ ~ c.lift
         /\ c.kind = kind /\ c.rows = rows /\ c.next = 1 /\ c.seen = {}
<1> USE DEF Begun
<1>1. /\ c.at = "row" /\ c.kind = kind /\ c.rows = rows /\ c.next = 1
      /\ ~ c.fresh /\ ~ c.lift /\ c.new = {} /\ c.made = <<>>
      /\ c.managers = 0 /\ c.properties = 0 /\ c.skipped = 0 /\ c.errors = 0
      /\ c.raised = {} /\ c.seen = {}
  BY DEF Idle
<1>2. c \in Batch
  <2> DEFINE d == [Idle EXCEPT !.kind = kind, !.rows = rows]
  <2>1. Idle \in Batch
    BY IdleBatch DEF Batches
  <2>2. d \in Batch
    BY <2>1 DEF Batch
  <2>3. c = [d EXCEPT !.at = "row"]
    OBVIOUS
  <2> HIDE DEF d
  <2>4. QED
    BY <2>2, <2>3 DEF Batch
<1>3. IsFiniteSet({}) /\ Cardinality({}) = 0
  BY FS_EmptySet
<1>4. HandInv(c)
  BY <1>1 DEF HandInv, Writing
<1>5. NewInv(c)
  BY <1>1, <1>3 DEF NewInv
<1>6. CountInv(c)
  <2>1. c.properties + c.skipped + c.errors = c.next - 1
    BY <1>1
  <2>2. c.properties = Len(c.made)
    BY <1>1
  <2>3. Cardinality(c.new) = 0 /\ c.managers = 0 /\ (IF c.fresh THEN 1 ELSE 0) = 0
    BY <1>1, <1>3, Zenon
  <2>4. Cardinality(c.new) = c.managers + (IF c.fresh THEN 1 ELSE 0)
    BY <2>3
  <2>5. Cardinality(c.new) = c.managers /\ Cardinality(c.new) <= c.managers
    BY <2>3
  <2>6. QED
    BY <2>1, <2>2, <2>4, <2>5, Zenon DEF CountInv
<1>7. SyncInv(c)
  BY <1>1 DEF SyncInv, Writing
<1>8. QED
  BY <1>1, <1>2, <1>4, <1>5, <1>6, <1>7 DEF Batches, BatchInv

\* The rows of a sheet as they are uploaded, and those of a sync as they are named.
LEMMA SheetRows ==
  ASSUME NEW batch \in SheetBatches
  PROVE  batch \in Seq(Owner) /\ batch \in Seq(SheetRow)
<1>1. batch \in Seq(Owner)
  BY BatchAssumption DEF Owner
<1>2. Owner \subseteq SheetRow
  BY DEF Owner, SheetRow
<1>3. QED
  BY <1>1, <1>2

LEMMA Normalized ==
  ASSUME NEW n \in Numbers, NEW spelling \in Spellings
  PROVE  \/ NormalizePhone(n, spelling) = NoPhone
         \/ NormalizePhone(n, spelling) = <<n, "91">> /\ spelling \in {"local", "international"}
         \/ NormalizePhone(n, spelling) = <<n, "0">> /\ spelling = "trunk"
<1>1. spelling \in {"local", "international", "trunk", "none"}
  BY NamesAssumption DEF KnownSpellings
<1>2. CASE spelling \in {"local", "international"}
  BY <1>2 DEF NormalizePhone
<1>3. CASE spelling = "trunk"
  BY <1>3 DEF NormalizePhone
<1>4. CASE spelling = "none"
  BY <1>4 DEF NormalizePhone
<1>5. QED
  BY <1>1, <1>2, <1>3, <1>4

\* The phones the syncs can meet: an owner's number as some service spells it.
Mapped == {p \in Phones :
          IF p[2] = "0" THEN "trunk" \in SpellingsOf(p[1])
          ELSE SpellingsOf(p[1]) \intersect {"local", "international"} # {}}

LEMMA MappedStays == Mapped' = Mapped
BY DEF Mapped, SpellingsOf, RawPhone, OsmPhone, GooglePhone, Phones

LEMMA SyncRows ==
  ASSUME NEW batch \in SyncBatches, NEW source
  PROVE  LET rows == [i \in DOMAIN batch |-> SyncRow(source, batch[i])] IN
         /\ rows \in Seq(SheetRow)
         /\ \A i \in DOMAIN rows : rows[i].email = rows[i].phone
         /\ \A i \in DOMAIN rows : rows[i].phone \in Mapped \union {NoPhone}
<1> DEFINE rows == [i \in DOMAIN batch |-> SyncRow(source, batch[i])]
<1>1. batch \in Seq(DOMAIN Resorts)
  BY BatchAssumption
<1>2. ASSUME NEW r \in DOMAIN Resorts
      PROVE  /\ SyncRow(source, r) \in SheetRow
             /\ SyncRow(source, r).email = SyncRow(source, r).phone
             /\ SyncRow(source, r).phone \in Mapped \union {NoPhone}
  <2>1. PICK raw : raw = RawPhone(source, r)
    OBVIOUS
  <2>2. PICK n : n = Resorts[r].number
    OBVIOUS
  <2>3. n \in Numbers /\ raw \in Spellings
    BY <2>1, <2>2, BatchAssumption DEF RawPhone, OsmPhone, GooglePhone
  <2>4. raw \in SpellingsOf(n)
    <3>1. PICK s \in {"osm", "google"} : RawPhone(s, r) = raw
      BY <2>1 DEF RawPhone
    <3>2. QED
      BY <2>2, <3>1 DEF SpellingsOf
  <2>5. PICK p : p = NormalizePhone(n, raw)
    OBVIOUS
  <2>6. p \in Mapped \union {NoPhone}
    <3>1. CASE p = <<n, "91">> /\ raw \in {"local", "international"}
      BY <2>3, <2>4, <3>1 DEF Mapped, Phones
    <3>2. CASE p = <<n, "0">> /\ raw = "trunk"
      BY <2>3, <2>4, <3>2 DEF Mapped, Phones
    <3>3. QED
      BY <2>3, <2>5, <3>1, <3>2, Normalized
  <2>7. SyncRow(source, r) = [email |-> p, phone |-> p]
    BY <2>1, <2>2, <2>5 DEF SyncRow
  <2>8. p \in PhonesOrNone
    BY <2>6 DEF Mapped, PhonesOrNone
  <2>9. QED
    BY <2>6, <2>7, <2>8 DEF SheetRow, PhonesOrNone, Emails
<1>3. DOMAIN batch = 1 .. Len(batch) /\ Len(batch) \in Nat
      /\ \A i \in DOMAIN batch : batch[i] \in DOMAIN Resorts
  BY <1>1
<1>4. rows \in Seq(SheetRow)
  BY <1>2, <1>3
<1>5. \A i \in DOMAIN rows : rows[i] = SyncRow(source, batch[i]) /\ batch[i] \in DOMAIN Resorts
  BY <1>3
<1>6. QED
  BY <1>2, <1>4, <1>5

--------------------------------------------------------------------------------
(***************************************************************************)
(* Batches and users.  Nobody else has the address or the phone of a       *)
(* pending user, and whoever is raised is a user.                          *)
(***************************************************************************)
Apart(u, v) == u.email # v.email /\ (u.phone # v.phone \/ v.phone = NoPhone)
Unused(u) ==
  role[u.email] = "none" /\ (u.phone # NoPhone => \A e \in Emails : phone[e] # u.phone)

PendingInv ==
  /\ \A j \in Imports : \A u \in job[j].new :
       Unused(u) /\ \A k \in Imports \ {j} : \A v \in job[k].new : Apart(u, v)
  /\ \A j \in Imports :
       /\ \A e \in job[j].raised : role[e] # "none"
       /\ job[j].lift => role[Row(j).email] # "none"
  /\ \A e \in Emails : role[e] = "none" => phone[e] = NoPhone

Inv ==
  /\ TypeOK
  /\ job \in [Imports -> Batches]
  /\ PendingInv
  /\ ImportedManagersList

LEMMA InitInv == Init => Inv
<1> SUFFICES ASSUME Init PROVE Inv
  OBVIOUS
<1>1. TypeOK
  BY DEF Init, TypeOK, PhonesOrNone
<1>2. job = [j \in Imports |-> Idle]
  BY DEF Init
<1>3. job \in [Imports -> Batches] /\ \A j \in Imports : job[j] = Idle
  BY <1>2, IdleBatch
<1>4. PendingInv
  BY <1>3, IdleBatch DEF Init, PendingInv
<1>5. ImportedManagersList
  BY DEF Init, ImportedManagersList
<1>6. QED
  BY <1>1, <1>3, <1>4, <1>5 DEF Inv

\* A batch moves and the users stay.
LEMMA JobMoves ==
  ASSUME Inv, UNCHANGED <<users, listed, synced, imported, given>>,
         NEW j \in Imports, NEW c \in Batches, job' = [job EXCEPT ![j] = c],
         \A u \in c.new : u \in job[j].new \/
           (Unused(u) /\ \A k \in Imports \ {j} : \A v \in job[k].new : Apart(u, v) /\ Apart(v, u)),
         \A e \in c.raised : role[e] # "none",
         c.lift => role[Hand(c).email] # "none"
  PROVE  Inv'
<1>1. TypeOK'
  BY DEF Inv, TypeOK, users
<1>2. job' \in [Imports -> Batches]
  BY DEF Inv
<1>3. job'[j] = c /\ \A k \in Imports \ {j} : job'[k] = job[k]
  BY DEF Inv
<1>4. PendingInv'
  <2>1. ASSUME NEW i \in Imports, NEW u \in job'[i].new
        PROVE  /\ Unused(u)'
               /\ \A k \in Imports \ {i} : \A v \in job'[k].new : Apart(u, v)
    <3>1. Unused(u)' <=> Unused(u)
      BY DEF Unused, users
    <3>2. CASE i = j
      BY <1>3, <2>1, <3>1, <3>2 DEF Inv, PendingInv
    <3>3. CASE i # j
      <4>1. u \in job[i].new
        BY <1>3, <2>1, <3>3
      <4>2. \A v \in c.new : Apart(u, v)
        BY <3>3, <4>1 DEF Inv, PendingInv
      <4>3. QED
        BY <1>3, <3>1, <3>3, <4>1, <4>2 DEF Inv, PendingInv
    <3>4. QED
      BY <3>2, <3>3
  <2>2. ASSUME NEW i \in Imports
        PROVE  /\ \A e \in job'[i].raised : role'[e] # "none"
               /\ job'[i].lift => role'[Row(i)'.email] # "none"
    <3>1. role' = role
      BY DEF users
    <3>2. CASE i = j
      BY <1>3, <3>1, <3>2 DEF Row, Hand
    <3>3. CASE i # j
      BY <1>3, <3>1, <3>3 DEF Row, Inv, PendingInv
    <3>4. QED
      BY <3>2, <3>3
  <2>3. \A e \in Emails : role'[e] = "none" => phone'[e] = NoPhone
    BY DEF Inv, PendingInv, users
  <2>4. QED
    BY <2>1, <2>2, <2>3 DEF PendingInv, Apart
<1>5. ImportedManagersList'
  BY DEF Inv, ImportedManagersList
<1>6. QED
  BY <1>1, <1>2, <1>4, <1>5 DEF Inv

\* ... and its pending users, at most, too.
LEMMA JobLeaves ==
  ASSUME Inv, UNCHANGED <<users, listed, synced, imported, given>>,
         NEW j \in Imports, NEW c \in Batches, job' = [job EXCEPT ![j] = c],
         c.new \subseteq job[j].new, c.raised \subseteq job[j].raised, ~ c.lift
  PROVE  Inv'
<1>1. \A e \in c.raised : role[e] # "none"
  BY DEF Inv, PendingInv
<1>2. QED
  BY <1>1, JobMoves

LEMMA StartInv ==
  ASSUME Inv, NEW j \in Imports
  PROVE  /\ \A batch \in SheetBatches : StartSheet(j, batch) => Inv'
         /\ \A batch \in SyncBatches : StartSync(j, batch) => Inv'
<1>1. ASSUME NEW kind \in {"sheet", "sync"}, NEW rows \in Seq(SheetRow),
             kind = "sheet" => rows \in Seq(Owner),
             kind = "sync" => \A i \in DOMAIN rows : rows[i].email = rows[i].phone,
             Start(j, kind, rows)
      PROVE  Inv'
  <2> DEFINE c == Begun(kind, rows)
  <2>1. c \in Batches /\ c.new = {} /\ c.raised = {} /\ ~ c.lift
    BY <1>1, BegunBatch
  <2>2. job' = [job EXCEPT ![j] = c] /\ UNCHANGED <<users, listed, synced, imported, given>>
    BY <1>1 DEF Start, Goto, Begun
  <2> HIDE DEF c
  <2>3. QED
    BY <2>1, <2>2, JobLeaves
<1>2. ASSUME NEW batch \in SheetBatches, StartSheet(j, batch) PROVE Inv'
  BY <1>1, <1>2, SheetRows DEF StartSheet
<1>3. ASSUME NEW batch \in SyncBatches, StartSync(j, batch) PROVE Inv'
  <2> DEFINE rows == [i \in DOMAIN batch |-> SyncRow(preview[j].source, batch[i])]
  <2>1. rows \in Seq(SheetRow) /\ \A i \in DOMAIN rows : rows[i].email = rows[i].phone
    BY SyncRows
  <2>2. Start(j, "sync", rows)
    BY <1>3 DEF StartSync
  <2> HIDE DEF rows
  <2>3. QED
    BY <1>1, <2>1, <2>2
<1>4. QED
  BY <1>2, <1>3

LEMMA OthersStay ==
  ASSUME UNCHANGED others
  PROVE  UNCHANGED <<users, listed, synced, imported, given>>
BY DEF others

\* A request that waits for others has not entered a manager of its own.
LEMMA WaitingIsBare ==
  ASSUME Inv, NEW j \in Imports, Waits(j) # {}
  PROVE  job[j].at # "idle" /\ ~ job[j].fresh
BY DEF Inv, Batches, BatchInv, HandInv, Waits

LEMMA RowsInv ==
  ASSUME Inv, NEW j \in Imports
  PROVE  /\ SkipRow(j) => Inv'
         /\ TakeRow(j) => Inv'
         /\ RefuseRow(j) => Inv'
         /\ LoseProperty(j) => Inv'
         /\ BreakDeadlock(j) => Inv'
<1> DEFINE b == job[j]
<1>1. b \in Batches /\ Hand(b) = Row(j)
  BY DEF Inv, Row, Hand
<1>2. HandInv(b) /\ b \in Batch
  BY <1>1 DEF Batches, BatchInv
<1>3. AtRow(j, b.kind) => /\ b.at = "row" /\ ~ b.fresh /\ b.next <= Len(b.rows)
                          /\ Row(j).phone \in PhonesOrNone
  <2>1. SUFFICES ASSUME AtRow(j, b.kind)
                 PROVE  b.at = "row" /\ ~ b.fresh /\ b.next <= Len(b.rows)
                        /\ Row(j).phone \in PhonesOrNone
    OBVIOUS
  <2>2. b.at = "row" /\ b.next <= Len(b.rows) /\ ~ b.fresh
    BY <1>2, <2>1 DEF AtRow, HandInv
  <2>3. b.rows \in Seq(SheetRow) /\ b.next \in Nat \ {0}
    BY <1>2 DEF Batch
  <2>4. Hand(b) \in SheetRow
    BY <2>2, <2>3 DEF Hand
  <2>5. QED
    BY <1>1, <2>2, <2>4 DEF SheetRow
<1> DEFINE refused == Refused(b)
           lost == Lost(b)
           skipped == Skipped(b, Row(j).phone)
           taken == Taken(b)
<1>4. ASSUME b.at # "idle", ~ b.fresh, job' = [job EXCEPT ![j] = refused], UNCHANGED others
      PROVE  Inv'
  <2>1. /\ refused \in Batches /\ refused.new = b.new /\ refused.raised = b.raised
        /\ ~ refused.lift
    BY <1>1, <1>4, RefusedBatch
  <2> HIDE DEF refused
  <2>2. QED
    BY <1>4, <2>1, JobLeaves, OthersStay
<1>5. ASSUME SkipRow(j) PROVE Inv'
  <2>1. b.at = "row" /\ Row(j).phone \in PhonesOrNone
    BY <1>3, <1>5 DEF SkipRow, AtRow
  <2>2. /\ skipped \in Batches /\ skipped.new = b.new /\ skipped.raised = b.raised
        /\ ~ skipped.lift
    BY <1>1, <2>1, SkippedBatch
  <2>3. job' = [job EXCEPT ![j] = skipped] /\ UNCHANGED others
    BY <1>5 DEF SkipRow, RowDone, Goto, RowOver, Skipped
  <2> HIDE DEF skipped
  <2>4. QED
    BY <2>2, <2>3, JobLeaves, OthersStay
<1>6. ASSUME TakeRow(j) PROVE Inv'
  <2>1. b.at = "row" /\ b.kind = "sync" /\ b.next <= Len(b.rows) /\ Hand(b).phone # NoPhone
    BY <1>1, <1>6 DEF TakeRow, AtRow, IsNew
  <2>2. taken \in Batches /\ taken.new = b.new /\ taken.raised = b.raised /\ ~ taken.lift
    BY <1>1, <2>1, TakenBatch
  <2>3. job' = [job EXCEPT ![j] = taken] /\ UNCHANGED others
    BY <1>6 DEF TakeRow, Goto, Taken
  <2> HIDE DEF taken
  <2>4. QED
    BY <2>2, <2>3, JobLeaves, OthersStay
<1>7. ASSUME RefuseRow(j) PROVE Inv'
  <2>1. b.at # "idle" /\ ~ b.fresh
    BY <1>3, <1>7 DEF RefuseRow, AtRow
  <2>2. job' = [job EXCEPT ![j] = refused] /\ UNCHANGED others
    BY <1>7 DEF RefuseRow, RowDone, Goto, RowOver, Refused
  <2>3. QED
    BY <1>4, <2>1, <2>2
<1>8. ASSUME LoseProperty(j) PROVE Inv'
  <2>1. /\ lost \in Batches /\ lost.new \subseteq b.new /\ lost.raised = b.raised
        /\ ~ lost.lift
    BY <1>1, <1>8, LostBatch DEF LoseProperty
  <2>2. job' = [job EXCEPT ![j] = lost] /\ UNCHANGED others
    BY <1>1, <1>8 DEF LoseProperty, RowDone, Goto, RowOver, Lost
  <2> HIDE DEF lost
  <2>3. QED
    BY <2>1, <2>2, JobLeaves, OthersStay
<1>9. ASSUME BreakDeadlock(j) PROVE Inv'
  <2>1. Waits(j) # {}
    BY <1>9 DEF BreakDeadlock, Deadlocked
  <2>2. job' = [job EXCEPT ![j] = refused] /\ UNCHANGED others
    BY <1>9 DEF BreakDeadlock, RowDone, Goto, RowOver, Refused
  <2>3. QED
    BY <1>4, <2>1, <2>2, WaitingIsBare
<1>10. QED
  BY <1>5, <1>6, <1>7, <1>8, <1>9

LEMMA ResolveInv ==
  ASSUME Inv, NEW j \in Imports, ResolveManager(j)
  PROVE  Inv'
<1> DEFINE b == job[j]
           e == Row(j).email
           at == IF Known(j, e) THEN "property" ELSE "manager"
           lift == role[e] = "agent" /\ e \notin job[j].raised
           c == Resolved(b, at, lift)
<1>1. b \in Batches /\ Hand(b) = Row(j)
  BY DEF Inv, Row, Hand
<1>2. /\ b.at = "row" /\ b.kind = "sheet" /\ b.next <= Len(b.rows)
      /\ job' = [job EXCEPT ![j] = c] /\ UNCHANGED others
  BY DEF ResolveManager, AtRow, Goto, Resolved
<1>3. /\ at \in {"manager", "property"} /\ lift \in BOOLEAN
      /\ lift => at = "property" /\ role[e] # "none"
  BY DEF Known
<1> HIDE DEF at, lift
<1>4. /\ c \in Batches /\ Hand(c) = Hand(b) /\ c.new = b.new /\ c.raised = b.raised
      /\ c.lift = lift
  BY <1>1, <1>2, <1>3, ResolvedBatch
<1> HIDE DEF c
<1>5. \A x \in c.raised : role[x] # "none"
  BY <1>4 DEF Inv, PendingInv
<1>6. c.lift => role[Hand(c).email] # "none"
  BY <1>1, <1>3, <1>4
<1>7. QED
  BY <1>2, <1>4, <1>5, <1>6, JobMoves, OthersStay

\* What an insert that does not wait and finds nobody knows of its owner.
LEMMA InsertedIsApart ==
  ASSUME Inv, NEW j \in Imports, job[j].at = "manager", Waits(j) = {},
         ~ Known(j, Row(j).email), ~ PhoneTaken(j, Row(j).phone)
  PROVE  /\ Row(j) \in Owner /\ Unused(Row(j))
         /\ \A k \in Imports : \A v \in job[k].new : Apart(Row(j), v) /\ Apart(v, Row(j))
<1>1. Row(j) \in Owner
  BY DEF Inv, Batches, BatchInv, HandInv, Writing, Hand, Row
<1>2. Unused(Row(j))
  BY DEF Known, PhoneTaken, Unused
<1>3. \A k \in Imports : Row(j).email \notin NewAddresses(k) /\ Row(j).phone \notin NewPhones(k)
  <2>1. Row(j).phone \notin NewPhones(j)
    BY DEF PhoneTaken, NewPhones
  <2>2. QED
    BY <2>1 DEF Known, Waits
<1>4. \A k \in Imports : \A v \in job[k].new : Apart(Row(j), v) /\ Apart(v, Row(j))
  BY <1>3 DEF NewAddresses, NewPhones, Apart
<1>5. QED
  BY <1>1, <1>2, <1>4

LEMMA EnterInv ==
  ASSUME Inv, NEW j \in Imports, InsertManager(j)
  PROVE  Inv'
<1> DEFINE b == job[j]
           row == Row(j)
<1>1. b \in Batches /\ Hand(b) = row
  BY DEF Inv, Row, Hand
<1>2. b.at = "manager" /\ Waits(j) = {} /\ UNCHANGED others /\ ~ b.fresh
  BY <1>1 DEF InsertManager, Batches, BatchInv, HandInv
<1>3. CASE Known(j, row.email) \/ PhoneTaken(j, row.phone)
  <2> DEFINE c == Refused(b)
  <2>1. job' = [job EXCEPT ![j] = c]
    BY <1>3 DEF InsertManager, RowDone, Goto, RowOver, Refused
  <2>2. c \in Batches /\ c.new = b.new /\ c.raised = b.raised /\ ~ c.lift
    BY <1>1, <1>2, RefusedBatch
  <2> HIDE DEF c
  <2>3. QED
    BY <1>2, <2>1, <2>2, JobLeaves, OthersStay
<1>4. CASE ~ Known(j, row.email) /\ ~ PhoneTaken(j, row.phone)
  <2> DEFINE c == Entered(b)
  <2>1. job' = [job EXCEPT ![j] = c]
    BY <1>1, <1>4 DEF InsertManager, Goto, Entered
  <2>2. /\ Unused(row)
        /\ \A k \in Imports : \A v \in job[k].new : Apart(row, v) /\ Apart(v, row)
    BY <1>2, <1>4, InsertedIsApart
  <2>3. \A u \in b.new : u.email # Hand(b).email
                         /\ (u.phone # Hand(b).phone \/ u.phone = NoPhone)
    BY <1>1, <2>2 DEF Apart
  <2>4. /\ c \in Batches /\ c.new = b.new \union {row} /\ c.raised = b.raised /\ ~ c.lift
    BY <1>1, <1>2, <2>3, EnteredBatch
  <2> HIDE DEF c
  <2>5. \A x \in c.raised : role[x] # "none"
    BY <2>4 DEF Inv, PendingInv
  <2>6. \A u \in c.new : u \in b.new \/
          (Unused(u) /\ \A k \in Imports \ {j} : \A v \in job[k].new : Apart(u, v) /\ Apart(v, u))
    BY <2>2, <2>4
  <2>7. QED
    BY <1>2, <2>1, <2>4, <2>5, <2>6, JobMoves, OthersStay
<1>5. QED
  BY <1>3, <1>4

LEMMA MadeInv ==
  ASSUME Inv, NEW j \in Imports, InsertProperty(j)
  PROVE  Inv'
<1> DEFINE b == job[j]
           c == Listing(b)
<1>1. b \in Batches /\ Hand(b) = Row(j)
  BY DEF Inv, Row, Hand
<1>2. b.at = "property" /\ UNCHANGED others
  BY DEF InsertProperty
<1>3. job' = [job EXCEPT ![j] = c]
  BY <1>1 DEF InsertProperty, RowDone, Goto, RowOver, Listing
<1>4. /\ c \in Batches /\ c.new = b.new /\ ~ c.lift
      /\ c.raised \subseteq b.raised \union {Hand(b).email} /\ (~ b.lift => c.raised = b.raised)
  BY <1>1, <1>2, MadeBatch
<1> HIDE DEF c
<1>5. \A x \in c.raised : role[x] # "none"
  BY <1>1, <1>4 DEF Inv, PendingInv
<1>6. QED
  BY <1>2, <1>3, <1>4, <1>5, JobMoves, OthersStay

--------------------------------------------------------------------------------
(***************************************************************************)
(* Commits.                                                                *)
(***************************************************************************)
CountOf(b, e) == Cardinality({i \in DOMAIN b.made : b.made[i].email = e})

LEMMA CountOfMade ==
  ASSUME NEW b \in Batches, NEW e
  PROVE  /\ CountOf(b, e) \in Nat
         /\ CountOf(b, e) > 0 <=> Lists(b, e)
         /\ b.kind = "sync" => CountOf(b, e) <= 1
<1> DEFINE S == {i \in DOMAIN b.made : b.made[i].email = e}
<1>1. b.made \in Seq(Owner) /\ SyncInv(b)
  BY DEF Batches, Batch, BatchInv
<1>2. DOMAIN b.made = 1 .. Len(b.made) /\ Len(b.made) \in Nat
  BY <1>1
<1>3. IsFiniteSet(S)
  <2>1. IsFiniteSet(1 .. Len(b.made)) /\ S \subseteq 1 .. Len(b.made)
    BY <1>2, FS_Interval
  <2>2. QED
    BY <2>1, FS_Subset
<1>4. Cardinality(S) \in Nat /\ (Cardinality(S) = 0 <=> S = {})
  BY <1>3, FS_CardinalityType, FS_EmptySet
<1>5. S # {} <=> Lists(b, e)
  BY DEF Lists
<1>6. ASSUME b.kind = "sync" PROVE Cardinality(S) <= 1
  <2>1. \A i, k \in S : i = k
    BY <1>1, <1>6 DEF SyncInv
  <2>2. CASE S = {}
    BY <1>4, <2>2
  <2>3. CASE S # {}
    <3>1. PICK i \in S : TRUE
      BY <2>3
    <3>2. S = {i}
      BY <2>1, <3>1
    <3>3. Cardinality({i}) = 1
      BY FS_Singleton
    <3> HIDE DEF S
    <3>4. QED
      BY <3>2, <3>3
  <2>4. QED
    BY <2>2, <2>3
<1>7. CountOf(b, e) = Cardinality(S)
  BY DEF CountOf
<1> HIDE DEF S
<1>8. QED
  BY <1>4, <1>5, <1>6, <1>7

\* What a commit makes of the users.
LEMMA CommittedUsers ==
  ASSUME Inv, NEW j \in Imports, Commit(j)
  PROVE  /\ job[j] \in Batches /\ ~ job[j].fresh /\ job[j].new \subseteq Owner
         /\ \A u \in job[j].new :
              /\ u.email \in Emails /\ u.phone \in PhonesOrNone /\ Unused(u)
              /\ role'[u.email] = "manager" /\ phone'[u.email] = u.phone
         /\ \A e \in Emails \ NewAddresses(j) :
              /\ phone'[e] = phone[e]
              /\ role'[e] = (IF e \in job[j].raised THEN "both" ELSE role[e])
              /\ role'[e] = "none" <=> role[e] = "none"
         /\ \A e \in Emails : listed'[e] = listed[e] + CountOf(job[j], e)
         /\ \A p \in Phones :
              synced'[p] = synced[p] + (IF job[j].kind = "sync" THEN CountOf(job[j], p) ELSE 0)
         /\ imported' = imported \union NewAddresses(j)
         /\ job' = [job EXCEPT ![j] = Idle] /\ UNCHANGED given
         /\ DOMAIN role' = Emails /\ DOMAIN phone' = Emails
         /\ listed' = [e \in Emails |-> listed[e] + CountOf(job[j], e)]
         /\ synced' = [p \in Phones |->
              synced[p] + (IF job[j].kind = "sync" THEN CountOf(job[j], p) ELSE 0)]
         /\ role' = [e \in Emails |-> role'[e]] /\ phone' = [e \in Emails |-> phone'[e]]
<1> DEFINE b == job[j]
<1>1. b \in Batches /\ b \in Batch /\ HandInv(b) /\ NewInv(b) /\ b.at = "row"
  BY DEF Inv, Batches, BatchInv, Commit
<1>2. ~ b.fresh /\ b.new \subseteq Owner
  BY <1>1 DEF HandInv, Batch
<1>3. /\ role' = [e \in Emails |-> IF e \in NewAddresses(j) THEN "manager"
                                   ELSE IF e \in b.raised THEN "both" ELSE role[e]]
      /\ phone' = [e \in Emails |-> IF e \in NewAddresses(j)
                                    THEN (CHOOSE u \in b.new : u.email = e).phone ELSE phone[e]]
  BY DEF Commit
<1>4. ASSUME NEW u \in b.new
      PROVE  /\ u.email \in Emails /\ u.phone \in PhonesOrNone /\ Unused(u)
             /\ role'[u.email] = "manager" /\ phone'[u.email] = u.phone
  <2>1. u.email \in Emails /\ u.phone \in PhonesOrNone
    BY <1>2 DEF Owner
  <2>2. u.email \in NewAddresses(j)
    BY DEF NewAddresses
  <2>3. (CHOOSE v \in b.new : v.email = u.email) = u
    BY <1>1 DEF NewInv
  <2>4. Unused(u)
    BY DEF Inv, PendingInv
  <2>5. QED
    BY <1>3, <2>1, <2>2, <2>3, <2>4
<1>5. ASSUME NEW e \in Emails \ NewAddresses(j)
      PROVE  /\ phone'[e] = phone[e]
             /\ role'[e] = (IF e \in b.raised THEN "both" ELSE role[e])
             /\ role'[e] = "none" <=> role[e] = "none"
  <2>1. e \in b.raised => role[e] # "none"
    BY DEF Inv, PendingInv
  <2>2. QED
    BY <1>3, <2>1
<1>6. /\ listed' = [e \in Emails |-> listed[e] + CountOf(b, e)]
      /\ synced' = [p \in Phones |->
           synced[p] + (IF b.kind = "sync" THEN CountOf(b, p) ELSE 0)]
  BY DEF Commit, CountOf
<1>7. /\ imported' = imported \union NewAddresses(j)
      /\ job' = [job EXCEPT ![j] = Idle] /\ UNCHANGED given
  BY DEF Commit
<1>8. role' = [e \in Emails |-> role'[e]] /\ phone' = [e \in Emails |-> phone'[e]]
      /\ DOMAIN role' = Emails /\ DOMAIN phone' = Emails
  BY <1>3
<1> HIDE DEF b
<1>9. QED
  BY <1>1, <1>2, <1>4, <1>5, <1>6, <1>7, <1>8 DEF b

LEMMA NamedByNew ==
  ASSUME NEW j \in Imports, NEW e \in NewAddresses(j)
  PROVE  \E u \in job[j].new : u.email = e
BY DEF NewAddresses

LEMMA CommitTypes ==
  ASSUME Inv, NEW j \in Imports, Commit(j)
  PROVE  TypeOK'
<1> USE CommittedUsers
<1>1. TypeOK
  BY DEF Inv
<1>2. role' \in [Emails -> {"none", "agent", "manager", "both"}]
  <2>1. \A e \in Emails : role'[e] \in {"none", "agent", "manager", "both"}
    BY <1>1, NamedByNew DEF TypeOK
  <2>2. QED
    BY <2>1
<1>3. phone' \in [Emails -> PhonesOrNone]
  <2>1. \A e \in Emails : phone'[e] \in PhonesOrNone
    BY <1>1, NamedByNew DEF TypeOK
  <2>2. QED
    BY <2>1
<1>4. ASSUME NEW e \in Emails, NEW o \in Emails, phone'[e] = phone'[o], phone'[e] # NoPhone
      PROVE  e = o
  <2>1. CASE e \in NewAddresses(j) /\ o \in NewAddresses(j)
    <3>1. PICK u \in job[j].new : u.email = e
      BY <2>1, NamedByNew
    <3>2. PICK v \in job[j].new : v.email = o
      BY <2>1, NamedByNew
    <3>3. u.phone = v.phone /\ u.phone # NoPhone
      BY <1>4, <3>1, <3>2
    <3>4. u = v
      BY <3>3 DEF Batches, BatchInv, NewInv
    <3>5. QED
      BY <3>1, <3>2, <3>4
  <2>2. CASE e \in NewAddresses(j) /\ o \notin NewAddresses(j)
    BY <1>4, <2>2, NamedByNew DEF Unused
  <2>3. CASE e \notin NewAddresses(j) /\ o \in NewAddresses(j)
    BY <1>4, <2>3, NamedByNew DEF Unused
  <2>4. CASE e \notin NewAddresses(j) /\ o \notin NewAddresses(j)
    <3>1. phone[e] = phone[o] /\ phone[e] # NoPhone
      BY <1>4, <2>4
    <3>2. QED
      BY <1>1, <3>1 DEF TypeOK
  <2>5. QED
    BY <2>1, <2>2, <2>3, <2>4
<1>5. listed' \in [Emails -> Nat] /\ synced' \in [Phones -> Nat]
  BY <1>1, CountOfMade DEF TypeOK
<1>6. imported' \in SUBSET Emails /\ given' \in SUBSET Phones
  BY <1>1, NamedByNew DEF TypeOK
<1>7. QED
  BY <1>2, <1>3, <1>4, <1>5, <1>6 DEF TypeOK

LEMMA CommitPending ==
  ASSUME Inv, NEW j \in Imports, Commit(j)
  PROVE  PendingInv'
<1> USE CommittedUsers
<1>1. job \in [Imports -> Batches] /\ PendingInv
  BY DEF Inv
<1>2. job'[j] = Idle /\ \A k \in Imports \ {j} : job'[k] = job[k]
  BY <1>1
<1>3. \A e \in Emails : role[e] # "none" => role'[e] # "none"
  BY NamedByNew
<1>4. ASSUME NEW k \in Imports, NEW u \in job'[k].new
      PROVE  /\ Unused(u)'
             /\ \A i \in Imports \ {k} : \A v \in job'[i].new : Apart(u, v)
  <2>1. k # j /\ u \in job[k].new
    BY <1>2, <1>4, IdleBatch
  <2>2. Unused(u) /\ \A i \in Imports \ {k} : \A v \in job[i].new : Apart(u, v)
    BY <1>1, <2>1 DEF PendingInv
  <2>3. u.email \in Emails
    <3>1. job[k] \in Batch
      BY <1>1 DEF Batches
    <3>2. job[k].new \subseteq Owner
      BY <3>1 DEF Batch
    <3>3. QED
      BY <2>1, <3>2 DEF Owner
  <2>4. u.email \notin NewAddresses(j)
    BY <2>1, <2>2, NamedByNew DEF Apart
  <2>5. role'[u.email] = "none"
    BY <2>2, <2>3, <2>4 DEF Unused
  <2>6. ASSUME u.phone # NoPhone, NEW e \in Emails PROVE phone'[e] # u.phone
    <3>1. CASE e \in NewAddresses(j)
      <4>1. PICK v \in job[j].new : v.email = e
        BY <3>1, NamedByNew
      <4>2. Apart(u, v)
        BY <2>1, <2>2
      <4>3. QED
        BY <2>6, <4>1, <4>2 DEF Apart
    <3>2. CASE e \notin NewAddresses(j)
      BY <2>2, <2>6, <3>2 DEF Unused
    <3>3. QED
      BY <3>1, <3>2
  <2>7. \A i \in Imports \ {k} : \A v \in job'[i].new : v \in job[i].new
    BY <1>2, IdleBatch
  <2>8. QED
    BY <2>2, <2>5, <2>6, <2>7 DEF Unused
<1>5. ASSUME NEW k \in Imports
      PROVE  /\ \A e \in job'[k].raised : role'[e] # "none"
             /\ job'[k].lift => role'[Row(k)'.email] # "none"
  <2>1. CASE k = j
    BY <1>2, <2>1, IdleBatch
  <2>2. CASE k # j
    <3>1. job[k].raised \subseteq Emails
      BY <1>1 DEF Batches, Batch
    <3>2. Row(k)' = Row(k) /\ job'[k] = job[k]
      BY <1>2, <2>2 DEF Row
    <3>3. job[k].lift => Row(k).email \in Emails
      BY <1>1 DEF Batches, BatchInv, HandInv, Writing, Hand, Row, Owner
    <3>4. QED
      BY <1>1, <1>3, <3>1, <3>2, <3>3 DEF PendingInv
  <2>3. QED
    BY <2>1, <2>2
<1>6. ASSUME NEW e \in Emails, role'[e] = "none" PROVE phone'[e] = NoPhone
  <2>1. e \notin NewAddresses(j)
    BY <1>6, NamedByNew
  <2>2. QED
    BY <1>1, <1>6, <2>1 DEF PendingInv
<1>7. QED
  BY <1>4, <1>5, <1>6 DEF PendingInv, Apart

LEMMA CommitInv ==
  ASSUME Inv, NEW j \in Imports, Commit(j)
  PROVE  Inv'
<1> USE CommittedUsers
<1>1. TypeOK' /\ PendingInv'
  BY CommitTypes, CommitPending
<1>2. job' \in [Imports -> Batches]
  BY IdleBatch DEF Inv
<1>3. ASSUME NEW e \in imported' PROVE listed'[e] > 0
  <2>1. e \in Emails /\ listed[e] \in Nat /\ CountOf(job[j], e) \in Nat
    BY <1>1, <1>3, CountOfMade DEF Inv, TypeOK
  <2>2. listed'[e] = listed[e] + CountOf(job[j], e)
    BY <2>1
  <2>3. CASE e \in imported
    <3>1. listed[e] > 0
      BY <2>3 DEF Inv, ImportedManagersList
    <3>2. QED
      BY <2>1, <2>2, <3>1
  <2>4. CASE e \in NewAddresses(j)
    <3>1. Lists(job[j], e)
      BY <2>4, NamedByNew DEF Batches, BatchInv, NewInv
    <3>2. CountOf(job[j], e) > 0
      BY <3>1, CountOfMade
    <3>3. QED
      BY <2>1, <2>2, <3>2
  <2>5. QED
    BY <1>3, <2>3, <2>4
<1>4. ImportedManagersList'
  BY <1>3 DEF ImportedManagersList
<1>5. QED
  BY <1>1, <1>2, <1>4 DEF Inv

--------------------------------------------------------------------------------
(***************************************************************************)
(* The users on their own.                                                 *)
(***************************************************************************)
LEMMA RegisterInv ==
  ASSUME Inv, NEW u \in Registrants, Register(u)
  PROVE  Inv'
<1>1. /\ u.email \in Emails /\ u.phone \in Phones /\ u.role \in {"agent", "manager"}
      /\ u.phone # NoPhone
  BY BatchAssumption, NamesAssumption DEF Emails
<1>2. /\ role[u.email] = "none"
      /\ \A e \in Emails : phone[e] # u.phone
      /\ \A k \in Imports : u.phone \notin NewPhones(k) /\ u.email \notin NewAddresses(k)
      /\ role' = [role EXCEPT ![u.email] = u.role]
      /\ phone' = [phone EXCEPT ![u.email] = u.phone]
      /\ UNCHANGED <<listed, synced, job, imported, given>>
  BY DEF Register, FreePhone
<1>3. TypeOK
  BY DEF Inv
<1>4. /\ role'[u.email] = u.role /\ phone'[u.email] = u.phone
      /\ \A e \in Emails \ {u.email} : role'[e] = role[e] /\ phone'[e] = phone[e]
  BY <1>1, <1>2, <1>3 DEF TypeOK
<1>5. TypeOK'
  <2>1. /\ role' \in [Emails -> {"none", "agent", "manager", "both"}]
        /\ phone' \in [Emails -> PhonesOrNone]
    BY <1>1, <1>2, <1>3 DEF TypeOK, PhonesOrNone
  <2>2. \A e, o \in Emails : phone'[e] = phone'[o] /\ phone'[e] # NoPhone => e = o
    BY <1>2, <1>3, <1>4 DEF TypeOK
  <2>3. QED
    BY <1>2, <1>3, <2>1, <2>2 DEF TypeOK
<1>6. \A k \in Imports : \A v \in job[k].new :
        v.email # u.email /\ (v.phone # u.phone \/ v.phone = NoPhone)
  BY <1>2 DEF NewAddresses, NewPhones
<1>7. job \in [Imports -> Batches] /\ PendingInv
  BY DEF Inv
<1>8. ASSUME NEW k \in Imports, NEW v \in job[k].new PROVE Unused(v)'
  <2>1. v.email \in Emails /\ Unused(v)
    BY <1>7 DEF Batches, Batch, Owner, PendingInv
  <2>2. QED
    BY <1>4, <1>6, <2>1 DEF Unused
<1>9. \A e \in Emails : role[e] # "none" => role'[e] # "none"
  BY <1>2, <1>4
<1>10. \A k \in Imports : /\ job[k].raised \subseteq Emails
                          /\ job[k].lift => Row(k).email \in Emails
  BY <1>7 DEF Batches, Batch, BatchInv, HandInv, Writing, Hand, Row, Owner
<1>11. \A e \in Emails : role'[e] = "none" => phone'[e] = NoPhone
  BY <1>1, <1>4, <1>7 DEF PendingInv
<1>12. \A k \in Imports : Row(k)' = Row(k)
  BY <1>2 DEF Row
<1>13. PendingInv'
  BY <1>2, <1>7, <1>8, <1>9, <1>10, <1>11, <1>12 DEF PendingInv, Apart
<1>14. QED
  BY <1>2, <1>5, <1>13 DEF Inv, ImportedManagersList

LEMMA UpdatePhoneInv ==
  ASSUME Inv, NEW c \in PhoneChanges, UpdatePhone(c[1], c[2])
  PROVE  Inv'
<1> DEFINE o == c[1]
           p == c[2]
<1>1. o \in Emails /\ p \in Phones /\ p # NoPhone
  BY BatchAssumption, NamesAssumption
<1>2. /\ role[o] # "none"
      /\ \A e \in Emails : phone[e] # p
      /\ \A k \in Imports : p \notin NewPhones(k)
      /\ phone' = [phone EXCEPT ![o] = p]
      /\ given' = given \union ({phone[o]} \ {NoPhone})
      /\ UNCHANGED <<role, listed, synced, job, imported>>
  BY DEF UpdatePhone, FreePhone
<1> HIDE DEF o, p
<1>3. TypeOK
  BY DEF Inv
<1>4. phone'[o] = p /\ \A e \in Emails \ {o} : phone'[e] = phone[e]
  BY <1>1, <1>2, <1>3 DEF TypeOK
<1>5. TypeOK'
  <2>1. phone' \in [Emails -> PhonesOrNone]
    BY <1>1, <1>2, <1>3 DEF TypeOK, PhonesOrNone
  <2>2. \A e, x \in Emails : phone'[e] = phone'[x] /\ phone'[e] # NoPhone => e = x
    BY <1>2, <1>3, <1>4 DEF TypeOK
  <2>3. given' \in SUBSET Phones
    BY <1>1, <1>2, <1>3 DEF TypeOK, PhonesOrNone
  <2>4. QED
    BY <1>2, <1>3, <2>1, <2>2, <2>3 DEF TypeOK
<1>6. \A k \in Imports : \A v \in job[k].new : v.phone # p \/ v.phone = NoPhone
  BY <1>2 DEF NewPhones
<1>7. job \in [Imports -> Batches] /\ PendingInv
  BY DEF Inv
<1>8. \A k \in Imports : \A v \in job[k].new : Unused(v)'
  BY <1>2, <1>4, <1>6, <1>7 DEF PendingInv, Unused
<1>9. \A e \in Emails : role'[e] = "none" => phone'[e] = NoPhone
  BY <1>2, <1>4, <1>7 DEF PendingInv
<1>10. \A k \in Imports : Row(k)' = Row(k)
  BY <1>2 DEF Row
<1>11. PendingInv'
  BY <1>2, <1>7, <1>8, <1>9, <1>10 DEF PendingInv, Apart
<1>12. QED
  BY <1>2, <1>5, <1>11 DEF Inv, ImportedManagersList

LEMMA NextInv == Inv /\ [Next]_vars => Inv'
<1> SUFFICES ASSUME Inv, [Next]_vars PROVE Inv'
  OBVIOUS
<1>1. ASSUME UNCHANGED <<users, listed, synced, imported, given, job>> PROVE Inv'
  BY <1>1 DEF Inv, TypeOK, PendingInv, ImportedManagersList, Unused, Apart, Row, users
<1>2. ASSUME NEW j \in Imports, NEW source, NEW radius, NEW failed,
             Search(j, source, radius, failed)
      PROVE  Inv'
  BY <1>1, <1>2 DEF Search
<1>3. ASSUME NEW j \in Imports, Die(j) PROVE Inv'
  <2>1. job' = [job EXCEPT ![j] = Idle] /\ UNCHANGED others
    BY <1>3 DEF Die
  <2>2. QED
    BY <2>1, IdleBatch, JobLeaves, OthersStay
<1>4. ASSUME NEW j \in Imports, Work(j) PROVE Inv'
  BY <1>4, RowsInv, ResolveInv, EnterInv, MadeInv, CommitInv DEF Work
<1>5. CASE UNCHANGED vars
  BY <1>1, <1>5 DEF vars, others
<1>6. QED
  BY <1>2, <1>3, <1>4, <1>5, StartInv, RegisterInv, UpdatePhoneInv DEF Next

LEMMA SpecInv == Spec => []Inv
<1>1. Spec => Init /\ [][Next]_vars
  BY PTL DEF Spec
<1>2. QED
  BY <1>1, InitInv, NextInv, PTL

\* The tables are well typed, and no phone belongs to two users, whatever batches,
\* registrations and updates meet on it.
THEOREM PhonesBelongToOne == Spec => []TypeOK
<1>1. Inv => TypeOK
  BY DEF Inv
<1>2. QED
  BY <1>1, SpecInv, PTL

\* No manager is left without the listing he was entered for, whichever row of
\* whichever batch fails or dies (the savepoint of every row).
THEOREM ImportsLeaveListings == Spec => []ImportedManagersList
<1>1. Inv => ImportedManagersList
  BY DEF Inv
<1>2. QED
  BY <1>1, SpecInv, PTL

\* What the answer of a batch counts is what the batch did (the counters of
\* import_properties and osm_import_resorts).
THEOREM AnswersAreTrue == Spec => []CountsAreTrue
<1>1. Inv => CountsAreTrue
  <2> SUFFICES ASSUME Inv, NEW j \in Imports, job[j].at = "row"
               PROVE  LET b == job[j] IN
                      /\ b.properties + b.skipped + b.errors = b.next - 1
                      /\ b.properties = Len(b.made)
                      /\ Cardinality(b.new) <= b.managers
                      /\ b.kind = "sheet" \/ b.errors = 0 => b.managers = Cardinality(b.new)
    BY DEF CountsAreTrue
  <2> DEFINE b == job[j]
  <2>1. b \in Batch /\ CountInv(b) /\ ~ b.fresh
    BY DEF Inv, Batches, BatchInv, HandInv
  <2>2. b.kind \in {"sheet", "sync"} /\ b.managers \in Nat
    BY <2>1 DEF Batch
  <2>3. b.kind = "sheet" => Cardinality(b.new) = b.managers + 0
    BY <2>1 DEF CountInv
  <2>4. b.kind = "sync" => /\ Cardinality(b.new) <= b.managers
                           /\ b.errors = 0 => Cardinality(b.new) = b.managers
    BY <2>1 DEF CountInv
  <2>5. b.properties + b.skipped + b.errors = b.next - 1 /\ b.properties = Len(b.made)
    BY <2>1 DEF CountInv
  <2> HIDE DEF b
  <2>6. Cardinality(b.new) <= b.managers
        /\ (b.kind = "sheet" \/ b.errors = 0 => b.managers = Cardinality(b.new))
    BY <2>2, <2>3, <2>4
  <2>7. QED
    BY <2>5, <2>6 DEF b
<1>2. QED
  BY <1>1, SpecInv, PTL

--------------------------------------------------------------------------------
(***************************************************************************)
(* The owners of a sync.  Whoever a batch has gone over without an error   *)
(* is a user, or gave up his phone.                                        *)
(***************************************************************************)
Met(b, p) ==
  \/ p = NoPhone \/ p \in given
  \/ role[p] # "none" \/ \E e \in Emails : phone[e] = p
  \/ \E u \in b.new : u.email = p \/ u.phone = p

SeenOf(b) ==
  b.kind = "sync" /\ b.errors = 0 =>
    /\ \A p \in b.seen : Met(b, p)
    /\ \A i \in 1 .. b.next - 1 : i \in DOMAIN b.rows /\ Met(b, b.rows[i].phone)

SeenInv == \A j \in Imports : SeenOf(job[j])

\* A step of a batch before its commit: it goes on to the next row when it knows
\* the owner, or has entered him.
OverRow(j) ==
  \/ SkipRow(j) \/ TakeRow(j) \/ RefuseRow(j) \/ ResolveManager(j)
  \/ InsertManager(j) \/ InsertProperty(j) \/ LoseProperty(j) \/ BreakDeadlock(j)

LEMMA SyncStep ==
  ASSUME Inv, NEW j \in Imports, OverRow(j), NEW b, b = job[j], NEW c, c = job'[j]
  PROVE  /\ b \in Batches /\ c \in Batches /\ c.kind = b.kind /\ UNCHANGED others
         /\ job' = [job EXCEPT ![j] = c]
         /\ b.kind = "sync" =>
              /\ c.rows = b.rows
              /\ \A u \in c.new :
                   \/ u \in b.new
                   \/ u = Hand(b) /\ b.next \in DOMAIN b.rows /\ u.phone # NoPhone
              /\ \/ c.errors # 0
                 \/ /\ c.errors = b.errors /\ b.new \subseteq c.new
                    /\ c.next = b.next /\ c.seen = b.seen
                 \/ /\ c.errors = b.errors /\ b.new \subseteq c.new
                    /\ b.next \in DOMAIN b.rows /\ c.next \in {b.next, b.next + 1}
                    /\ c.seen \subseteq b.seen \union {Hand(b).phone}
                    /\ ~ IsNew(j, Hand(b).phone) \/ \E u \in c.new : u.phone = Hand(b).phone
<1>1. /\ b \in Batches /\ b \in Batch /\ HandInv(b) /\ SyncInv(b) /\ Hand(b) = Row(j)
      /\ job \in [Imports -> Batches]
  BY DEF Inv, Row, Hand, Batches, BatchInv
<1>2. \A x : job' = [job EXCEPT ![j] = x] => c = x
  BY <1>1
<1>3. b.rows \in Seq(SheetRow) /\ b.next \in Nat \ {0}
  BY <1>1 DEF Batch
<1>4. ASSUME b.next <= Len(b.rows)
      PROVE  b.next \in DOMAIN b.rows /\ Hand(b).phone \in PhonesOrNone
  <2>1. b.next \in DOMAIN b.rows /\ b.rows[b.next] \in SheetRow
    BY <1>3, <1>4
  <2>2. QED
    BY <2>1 DEF Hand, SheetRow
<1>5. ASSUME b.at # "idle", ~ b.fresh, job' = [job EXCEPT ![j] = Refused(b)], UNCHANGED others
      PROVE  /\ c \in Batches /\ c.kind = b.kind /\ c.rows = b.rows /\ c.errors # 0
             /\ c.new = b.new /\ job' = [job EXCEPT ![j] = c] /\ UNCHANGED others
  BY <1>1, <1>2, <1>5, RefusedBatch
<1>6. CASE SkipRow(j)
  <2>1. /\ b.at = "row" /\ b.next \in DOMAIN b.rows /\ Hand(b).phone \in PhonesOrNone
        /\ ~ IsNew(j, Hand(b).phone) /\ UNCHANGED others
    BY <1>1, <1>4, <1>6 DEF SkipRow, AtRow
  <2>2. job' = [job EXCEPT ![j] = Skipped(b, Hand(b).phone)]
    BY <1>1, <1>6 DEF SkipRow, RowDone, Goto, RowOver, Skipped
  <2>3. c = Skipped(b, Hand(b).phone) /\ job' = [job EXCEPT ![j] = c]
    BY <1>2, <2>2
  <2>4. /\ c \in Batches /\ c.kind = b.kind /\ c.rows = b.rows /\ c.next = b.next + 1
        /\ c.new = b.new /\ c.seen \subseteq b.seen \union {Hand(b).phone}
        /\ c.errors = b.errors
    BY <1>1, <2>1, <2>3, SkippedBatch
  <2>5. QED
    BY <1>1, <2>1, <2>3, <2>4
<1>7. CASE TakeRow(j)
  <2>1. /\ b.at = "row" /\ b.kind = "sync" /\ b.next <= Len(b.rows) /\ Hand(b).phone # NoPhone
        /\ UNCHANGED others
    BY <1>1, <1>7 DEF TakeRow, AtRow, IsNew
  <2>2. job' = [job EXCEPT ![j] = Taken(b)]
    BY <1>7 DEF TakeRow, Goto, Taken
  <2>3. c = Taken(b) /\ job' = [job EXCEPT ![j] = c]
    BY <1>2, <2>2
  <2>4. /\ c \in Batches /\ c.kind = b.kind /\ c.rows = b.rows /\ c.next = b.next
        /\ c.new = b.new /\ c.seen = b.seen /\ c.errors = b.errors
    BY <1>1, <2>1, <2>3, TakenBatch
  <2>5. QED
    BY <1>1, <2>1, <2>3, <2>4
<1>8. CASE RefuseRow(j)
  <2>1. b.at # "idle" /\ ~ b.fresh /\ UNCHANGED others
    BY <1>1, <1>8 DEF RefuseRow, AtRow, HandInv
  <2>2. job' = [job EXCEPT ![j] = Refused(b)]
    BY <1>8 DEF RefuseRow, RowDone, Goto, RowOver, Refused
  <2>3. QED
    BY <1>1, <1>5, <2>1, <2>2
<1>9. CASE ResolveManager(j)
  <2> DEFINE e == Row(j).email
             at == IF Known(j, e) THEN "property" ELSE "manager"
             lift == role[e] = "agent" /\ e \notin job[j].raised
  <2>1. /\ b.at = "row" /\ b.kind = "sheet" /\ b.next <= Len(b.rows)
        /\ job' = [job EXCEPT ![j] = Resolved(b, at, lift)] /\ UNCHANGED others
    BY <1>9 DEF ResolveManager, AtRow, Goto, Resolved
  <2>2. /\ at \in {"manager", "property"} /\ lift \in BOOLEAN /\ (lift => at = "property")
    BY DEF Known
  <2> HIDE DEF at, lift
  <2>3. c = Resolved(b, at, lift) /\ job' = [job EXCEPT ![j] = c]
    BY <1>2, <2>1
  <2>4. c \in Batches /\ c.kind = b.kind
    BY <1>1, <2>1, <2>2, <2>3, ResolvedBatch
  <2>5. QED
    BY <1>1, <2>1, <2>3, <2>4
<1>10. CASE InsertManager(j)
  <2>1. /\ b.at = "manager" /\ Waits(j) = {} /\ UNCHANGED others /\ ~ b.fresh
        /\ b.next \in DOMAIN b.rows
    BY <1>1, <1>10 DEF InsertManager, HandInv, Writing
  <2>2. CASE Known(j, Row(j).email) \/ PhoneTaken(j, Row(j).phone)
    <3>1. job' = [job EXCEPT ![j] = Refused(b)]
      BY <1>10, <2>2 DEF InsertManager, RowDone, Goto, RowOver, Refused
    <3>2. QED
      BY <1>1, <1>5, <2>1, <3>1
  <2>3. CASE ~ Known(j, Row(j).email) /\ ~ PhoneTaken(j, Row(j).phone)
    <3>1. job' = [job EXCEPT ![j] = Entered(b)]
      BY <1>1, <1>10, <2>3 DEF InsertManager, Goto, Entered
    <3>2. c = Entered(b) /\ job' = [job EXCEPT ![j] = c]
      BY <1>2, <3>1
    <3>3. \A u \in b.new : u.email # Hand(b).email
                           /\ (u.phone # Hand(b).phone \/ u.phone = NoPhone)
      BY <1>1, <2>1, <2>3, InsertedIsApart DEF Apart
    <3>4. /\ c \in Batches /\ c.kind = b.kind /\ c.rows = b.rows /\ c.next = b.next
          /\ c.new = b.new \union {Hand(b)} /\ c.errors = b.errors
          /\ c.seen \subseteq b.seen \union {Hand(b).phone}
      BY <1>1, <2>1, <3>2, <3>3, EnteredBatch
    <3>5. b.kind = "sync" => Hand(b).phone # NoPhone
      BY <1>1, <2>1 DEF SyncInv, Writing
    <3>6. QED
      BY <1>1, <2>1, <3>2, <3>4, <3>5
  <2>4. QED
    BY <2>2, <2>3
<1>11. CASE InsertProperty(j)
  <2>1. b.at = "property" /\ UNCHANGED others /\ b.next \in DOMAIN b.rows
    BY <1>1, <1>11 DEF InsertProperty, HandInv, Writing
  <2>2. job' = [job EXCEPT ![j] = Listing(b)]
    BY <1>1, <1>11 DEF InsertProperty, RowDone, Goto, RowOver, Listing
  <2>3. c = Listing(b) /\ job' = [job EXCEPT ![j] = c]
    BY <1>2, <2>2
  <2>4. /\ c \in Batches /\ c.kind = b.kind /\ c.rows = b.rows /\ c.next = b.next + 1
        /\ c.new = b.new /\ c.seen = b.seen /\ c.errors = b.errors
    <3>1. b \in Batches /\ b.at = "property" /\ c = Listing(b)
      BY <1>1, <2>1, <2>3
    <3>2. QED
      BY <3>1, MadeBatch
  <2>5. b.kind = "sync" => Hand(b) \in b.new
    BY <1>1, <2>1 DEF SyncInv, HandInv
  <2>6. QED
    BY <1>1, <2>1, <2>3, <2>4, <2>5
<1>12. CASE LoseProperty(j)
  <2>1. b.at = "property" /\ UNCHANGED others
    BY <1>12 DEF LoseProperty
  <2>2. job' = [job EXCEPT ![j] = Lost(b)]
    BY <1>1, <1>12 DEF LoseProperty, RowDone, Goto, RowOver, Lost
  <2>3. c = Lost(b) /\ job' = [job EXCEPT ![j] = c]
    BY <1>2, <2>2
  <2>4. /\ c \in Batches /\ c.kind = b.kind /\ c.rows = b.rows /\ c.errors # 0
        /\ c.new \subseteq b.new
    BY <1>1, <2>1, <2>3, LostBatch
  <2>5. QED
    BY <1>1, <2>1, <2>3, <2>4
<1>13. CASE BreakDeadlock(j)
  <2>1. b.at # "idle" /\ ~ b.fresh /\ UNCHANGED others
    BY <1>13, WaitingIsBare DEF BreakDeadlock, Deadlocked
  <2>2. job' = [job EXCEPT ![j] = Refused(b)]
    BY <1>13 DEF BreakDeadlock, RowDone, Goto, RowOver, Refused
  <2>3. QED
    BY <1>1, <1>5, <2>1, <2>2
<1>14. QED
  BY <1>6, <1>7, <1>8, <1>9, <1>10, <1>11, <1>12, <1>13 DEF OverRow

LEMMA SeenStep ==
  ASSUME Inv, SeenInv, NEW j \in Imports, OverRow(j), NEW c, c = job'[j]
  PROVE  SeenOf(c)
<1> DEFINE b == job[j]
<1>1. SeenOf(b)
  BY DEF SeenInv
<1>2. SUFFICES ASSUME c.kind = "sync", c.errors = 0 PROVE SeenOf(c)
  BY DEF SeenOf
<1>3. /\ b \in Batches /\ b.kind = "sync" /\ c.rows = b.rows
      /\ c.errors = b.errors /\ b.new \subseteq c.new
      /\ \/ c.next = b.next /\ c.seen = b.seen
         \/ /\ b.next \in DOMAIN b.rows /\ c.next \in {b.next, b.next + 1}
            /\ c.seen \subseteq b.seen \union {Hand(b).phone}
            /\ ~ IsNew(j, Hand(b).phone) \/ \E u \in c.new : u.phone = Hand(b).phone
  BY <1>2, SyncStep
<1>4. \A p : Met(b, p) => Met(c, p)
  BY <1>3 DEF Met
<1>5. /\ \A p \in b.seen : Met(c, p)
      /\ \A i \in 1 .. b.next - 1 : i \in DOMAIN b.rows /\ Met(c, b.rows[i].phone)
  BY <1>1, <1>2, <1>3, <1>4 DEF SeenOf
<1>6. CASE c.next = b.next /\ c.seen = b.seen
  BY <1>3, <1>5, <1>6 DEF SeenOf
<1>7. CASE /\ b.next \in DOMAIN b.rows /\ c.next \in {b.next, b.next + 1}
           /\ c.seen \subseteq b.seen \union {Hand(b).phone}
           /\ ~ IsNew(j, Hand(b).phone) \/ \E u \in c.new : u.phone = Hand(b).phone
  <2>1. Met(c, Hand(b).phone)
    <3>1. CASE IsNew(j, Hand(b).phone)
      BY <1>7, <3>1 DEF Met
    <3>2. CASE ~ IsNew(j, Hand(b).phone)
      <4>1. ASSUME Known(j, Hand(b).phone) \/ PhoneTaken(j, Hand(b).phone)
            PROVE  Met(b, Hand(b).phone)
        BY <4>1 DEF Known, PhoneTaken, NewAddresses, NewPhones, Met
      <4>2. QED
        BY <1>4, <1>5, <3>2, <4>1 DEF IsNew, Met
    <3>3. QED
      BY <3>1, <3>2
  <2>2. b.next \in Nat \ {0}
    BY <1>3 DEF Batches, Batch
  <2>3. \A i \in 1 .. c.next - 1 : i \in 1 .. b.next - 1 \/ i = b.next
    BY <1>7, <2>2
  <2>4. b.rows[b.next] = Hand(b)
    BY DEF Hand
  <2>5. \A i \in 1 .. c.next - 1 : i \in DOMAIN c.rows /\ Met(c, c.rows[i].phone)
    BY <1>3, <1>5, <1>7, <2>1, <2>3, <2>4
  <2>6. \A p \in c.seen : Met(c, p)
    BY <1>5, <1>7, <2>1
  <2>7. QED
    BY <2>5, <2>6 DEF SeenOf
<1>8. QED
  BY <1>3, <1>6, <1>7

\* A user stays one, and his phone does not get lost unseen.
LEMMA MetStays ==
  ASSUME Inv, [Next]_vars, NEW b, NEW p \in PhonesOrNone, Met(b, p)
  PROVE  Met(b, p)'
<1>1. SUFFICES ASSUME p \in Phones, p # NoPhone, p \in Emails
               PROVE  Met(b, p)'
  BY NamesAssumption DEF Met, PhonesOrNone, Emails
<1>2. ASSUME UNCHANGED <<users, given>> PROVE Met(b, p)'
  BY <1>2 DEF Met, users
<1>3. ASSUME \A e \in Emails : /\ role[e] # "none" => role'[e] # "none"
                               /\ phone[e] = p => phone'[e] = p \/ p \in given',
             given \subseteq given'
      PROVE  Met(b, p)'
  BY <1>1, <1>3 DEF Met
<1>4. \A e \in Emails : role[e] = "none" => phone[e] # p
  BY <1>1 DEF Inv, PendingInv
<1>5. ASSUME NEW j \in Imports, Commit(j) PROVE Met(b, p)'
  <2>1. \A e \in Emails : \/ role[e] = "none"
                          \/ role'[e] # "none" /\ phone'[e] = phone[e]
    <3>1. ASSUME NEW e \in Emails, role[e] # "none" PROVE e \notin NewAddresses(j)
      BY <1>5, <3>1, CommittedUsers, NamedByNew DEF Unused
    <3>2. QED
      BY <1>5, <3>1, CommittedUsers
  <2>2. given' = given
    BY <1>5 DEF Commit
  <2>3. QED
    BY <1>3, <1>4, <2>1, <2>2
<1>6. ASSUME NEW u \in Registrants, Register(u) PROVE Met(b, p)'
  <2>1. u.role # "none"
    BY BatchAssumption
  <2>2. \A e \in Emails : \/ role[e] = "none"
                          \/ role'[e] # "none" /\ phone'[e] = phone[e]
    BY <1>6 DEF Register, Inv, TypeOK
  <2>3. given' = given
    BY <1>6 DEF Register
  <2>4. QED
    BY <1>3, <1>4, <2>2, <2>3
<1>7. ASSUME NEW c \in PhoneChanges, UpdatePhone(c[1], c[2]) PROVE Met(b, p)'
  <2>1. /\ role' = role /\ phone' = [phone EXCEPT ![c[1]] = c[2]]
        /\ given' = given \union ({phone[c[1]]} \ {NoPhone})
    BY <1>7 DEF UpdatePhone
  <2>2. \A e \in Emails : phone[e] = p => phone'[e] = p \/ p \in given'
    BY <1>1, <2>1 DEF Inv, TypeOK
  <2>3. QED
    BY <1>3, <2>1, <2>2
<1>8. ASSUME NEW j \in Imports, OverRow(j) PROVE Met(b, p)'
  BY <1>2, <1>8, SyncStep DEF others
<1>9. QED
  <2>1. CASE UNCHANGED vars
    BY <1>2, <2>1 DEF vars, others
  <2>2. ASSUME NEW j \in Imports, Work(j) PROVE Met(b, p)'
    BY <1>5, <1>8, <2>2 DEF Work, OverRow
  <2>3. ASSUME NEW j \in Imports, NEW source, NEW radius, NEW failed,
               Search(j, source, radius, failed)
        PROVE  Met(b, p)'
    BY <1>2, <2>3 DEF Search
  <2>4. ASSUME NEW j \in Imports, NEW kind, NEW rows, Start(j, kind, rows) PROVE Met(b, p)'
    BY <1>2, <2>4 DEF Start
  <2>5. ASSUME NEW j \in Imports, Die(j) PROVE Met(b, p)'
    BY <1>2, <2>5 DEF Die, others
  <2>6. QED
    BY <1>6, <1>7, <2>1, <2>2, <2>3, <2>4, <2>5 DEF Next, StartSheet, StartSync

\* What a step makes of a batch: nothing, a new one, or its next row.
LEMMA StepOfBatch ==
  ASSUME Inv, [Next]_vars, NEW j \in Imports, NEW c, c = job'[j]
  PROVE  \/ c = job[j]
         \/ c = Idle
         \/ \E batch \in SheetBatches : c = Begun("sheet", batch)
         \/ \E batch \in SyncBatches : \E source :
              c = Begun("sync", [i \in DOMAIN batch |-> SyncRow(source, batch[i])])
         \/ OverRow(j)
<1>1. job \in [Imports -> Batches]
  BY DEF Inv
<1>2. ASSUME NEW k \in Imports, NEW x, job' = [job EXCEPT ![k] = x]
      PROVE  c = IF k = j THEN x ELSE job[j]
  BY <1>1, <1>2
<1>3. ASSUME NEW k \in Imports, NEW kind, NEW rows, Start(k, kind, rows)
      PROVE  c = job[j] \/ c = Begun(kind, rows)
  <2>1. job' = [job EXCEPT ![k] = Begun(kind, rows)]
    BY <1>3 DEF Start, Goto, Begun
  <2>2. QED
    BY <1>2, <2>1
<1>4. ASSUME NEW k \in Imports, Commit(k) \/ Die(k) PROVE c = job[j] \/ c = Idle
  <2>1. job' = [job EXCEPT ![k] = Idle]
    BY <1>4 DEF Commit, Die
  <2>2. QED
    BY <1>2, <2>1
<1>5. ASSUME NEW k \in Imports, OverRow(k) PROVE c = job[j] \/ OverRow(j)
  <2>1. job' = [job EXCEPT ![k] = job'[k]]
    BY <1>5, SyncStep
  <2>2. QED
    BY <1>2, <1>5, <2>1
<1>6. ASSUME UNCHANGED job PROVE c = job[j]
  BY <1>6
<1>7. ASSUME NEW k \in Imports, NEW batch \in SheetBatches, StartSheet(k, batch)
      PROVE  c = job[j] \/ c = Begun("sheet", batch)
  BY <1>3, <1>7 DEF StartSheet
<1>8. ASSUME NEW k \in Imports, NEW batch \in SyncBatches, StartSync(k, batch)
      PROVE  c = job[j] \/ \E source :
               c = Begun("sync", [i \in DOMAIN batch |-> SyncRow(source, batch[i])])
  <2> DEFINE rows == [i \in DOMAIN batch |-> SyncRow(preview[k].source, batch[i])]
  <2>1. Start(k, "sync", rows)
    BY <1>8 DEF StartSync
  <2>2. c = job[j] \/ c = Begun("sync", rows)
    BY <1>3, <2>1
  <2>3. QED
    BY <2>2
<1>9. ASSUME NEW k \in Imports, Work(k) PROVE c = job[j] \/ c = Idle \/ OverRow(j)
  BY <1>4, <1>5, <1>9 DEF Work, OverRow
<1>10. ASSUME NEW k \in Imports, NEW source, NEW radius, NEW failed,
              Search(k, source, radius, failed)
       PROVE  c = job[j]
  BY <1>6, <1>10 DEF Search
<1>11. CASE UNCHANGED vars
  BY <1>6, <1>11 DEF vars
<1>12. ASSUME NEW u, Register(u) PROVE c = job[j]
  BY <1>6, <1>12 DEF Register
<1>13. ASSUME NEW e, NEW p, UpdatePhone(e, p) PROVE c = job[j]
  BY <1>6, <1>13 DEF UpdatePhone
<1>14. QED
  BY <1>4, <1>7, <1>8, <1>9, <1>10, <1>11, <1>12, <1>13 DEF Next

LEMMA SeenNext == Inv /\ SeenInv /\ [Next]_vars => SeenInv'
<1> SUFFICES ASSUME Inv, SeenInv, [Next]_vars, NEW j \in Imports
             PROVE  SeenOf(job[j])'
  BY DEF SeenInv
<1>1. PICK c : c = job'[j]
  OBVIOUS
<1>2. c \in Batches
  BY <1>1, NextInv DEF Inv
<1>3. SeenOf(c)
  <2>1. CASE c = job[j]
    BY <2>1 DEF SeenInv
  <2>2. CASE c = Idle
    BY <2>2 DEF Idle, SeenOf
  <2>3. CASE \E batch \in SheetBatches : c = Begun("sheet", batch)
    BY <2>3 DEF Begun, Idle, SeenOf
  <2>4. CASE \E batch \in SyncBatches : \E source :
               c = Begun("sync", [i \in DOMAIN batch |-> SyncRow(source, batch[i])])
    <3>1. PICK rows : c = Begun("sync", rows)
      BY <2>4
    <3>2. c.seen = {} /\ c.next = 1
      BY <3>1 DEF Begun, Idle
    <3>3. QED
      BY <3>2 DEF SeenOf
  <2>5. CASE OverRow(j)
    BY <1>1, <2>5, SeenStep
  <2>6. QED
    BY <1>1, <2>1, <2>2, <2>3, <2>4, <2>5, StepOfBatch
<1>4. ASSUME NEW p \in PhonesOrNone, Met(c, p) PROVE Met(c, p)'
  BY <1>4, MetStays
<1>5. SeenOf(c)'
  <2>1. SUFFICES ASSUME c.kind = "sync", c.errors = 0 PROVE SeenOf(c)'
    BY DEF SeenOf
  <2>2. c.seen \subseteq PhonesOrNone
    BY <1>2 DEF Batches, Batch, PhonesOrNone
  <2>3. \A i \in DOMAIN c.rows : c.rows[i].phone \in PhonesOrNone
    <3>1. c.rows \in Seq(SheetRow)
      BY <1>2 DEF Batches, Batch
    <3>2. \A i \in DOMAIN c.rows : c.rows[i] \in SheetRow
      BY <3>1
    <3>3. QED
      BY <3>2 DEF SheetRow
  <2>4. QED
    BY <1>3, <1>4, <2>1, <2>2, <2>3 DEF SeenOf
<1>6. QED
  BY <1>1, <1>5 DEF SeenOf, Met

\* When no row of a sync failed, every owner of the batch with a phone is a user
\* at its end, also those it skipped for a row before (the "seen" phones of
\* osm_import_resorts, which are remembered before the property is in).
THEOREM SkippedOwnersStay == Spec => []SkippedOwnersAreUsers
<1>1. Init => SeenInv
  <2>1. ASSUME Init, NEW j \in Imports PROVE SeenOf(job[j])
    BY <2>1 DEF Init, Idle, SeenOf
  <2>2. QED
    BY <2>1 DEF SeenInv
<1>2. Inv /\ SeenInv => SkippedOwnersAreUsers
  <2> SUFFICES ASSUME Inv, SeenInv, NEW j \in Imports,
                      job[j].kind = "sync", job[j].errors = 0,
                      NEW i \in 1 .. job[j].next - 1, NEW p, p = job[j].rows[i].phone
               PROVE  p = NoPhone \/ Known(j, p) \/ PhoneTaken(j, p) \/ p \in given
    BY DEF SkippedOwnersAreUsers
  <2>1. Met(job[j], p)
    BY DEF SeenInv, SeenOf
  <2>2. QED
    BY <2>1 DEF Met, Known, PhoneTaken, NewAddresses, NewPhones
<1>3. Spec => Init /\ [][Next]_vars
  BY PTL DEF Spec
<1>4. QED
  BY <1>1, <1>2, <1>3, SeenNext, SpecInv, PTL

--------------------------------------------------------------------------------
(***************************************************************************)
(* The listings of an owner.  The syncs list a phone once, with the user   *)
(* they enter for it, and only as some service spells it.                  *)
(***************************************************************************)

NamesOf(b) ==
  b.kind = "sync" =>
    /\ \A i \in DOMAIN b.rows : b.rows[i].phone \in Mapped \union {NoPhone}
    /\ \A u \in b.new : u.email \in Mapped

OwnersInv ==
  /\ \A j \in Imports : NamesOf(job[j])
  /\ \A p \in Phones : synced[p] > 0 => p \in Mapped

\* The syncs list a phone once, however it is spelled, and with a user.
ListedInv == \A p \in Phones : synced[p] > 0 => role[p] # "none" /\ synced[p] = 1

LEMMA NamesNext ==
  ASSUME Inv, OwnersInv, [Next]_vars, NEW j \in Imports,
         NEW c, c = job'[j]
  PROVE  NamesOf(c)
<1>1. CASE c = job[j]
  BY <1>1 DEF OwnersInv
<1>2. CASE c = Idle
  BY <1>2 DEF Idle, NamesOf
<1>3. CASE \E batch \in SheetBatches : c = Begun("sheet", batch)
  BY <1>3 DEF Begun, Idle, NamesOf
<1>4. CASE \E batch \in SyncBatches : \E source :
             c = Begun("sync", [i \in DOMAIN batch |-> SyncRow(source, batch[i])])
  <2>a. PICK batch \in SyncBatches :
          \E source : c = Begun("sync", [i \in DOMAIN batch |-> SyncRow(source, batch[i])])
    BY <1>4
  <2>0. PICK source :
          c = Begun("sync", [i \in DOMAIN batch |-> SyncRow(source, batch[i])])
    BY <2>a
  <2>1. PICK rows : /\ c = Begun("sync", rows)
                    /\ \A i \in DOMAIN rows : rows[i].phone \in Mapped \union {NoPhone}
    <3> DEFINE made == [i \in DOMAIN batch |-> SyncRow(source, batch[i])]
    <3>1. \A i \in DOMAIN made : made[i].phone \in Mapped \union {NoPhone}
      BY SyncRows
    <3>2. c = Begun("sync", made)
      BY <2>0
    <3> HIDE DEF made
    <3>3. QED
      BY <3>1, <3>2
  <2>2. c.rows = rows /\ c.new = {}
    BY <2>1 DEF Begun, Idle
  <2>3. QED
    BY <2>1, <2>2 DEF NamesOf
<1>5. CASE OverRow(j)
  <2> DEFINE b == job[j]
  <2>1. SUFFICES ASSUME c.kind = "sync" PROVE NamesOf(c)
    BY DEF NamesOf
  <2>2. /\ b \in Batches /\ b.kind = "sync" /\ c.rows = b.rows
        /\ \A u \in c.new : \/ u \in b.new
                            \/ u = Hand(b) /\ b.next \in DOMAIN b.rows /\ u.phone # NoPhone
    BY <1>5, <2>1, SyncStep
  <2>3. /\ \A i \in DOMAIN b.rows : b.rows[i].phone \in Mapped \union {NoPhone}
        /\ \A u \in b.new : u.email \in Mapped
    BY <2>2 DEF OwnersInv, NamesOf
  <2>4. \A i \in DOMAIN b.rows : b.rows[i].email = b.rows[i].phone
    BY <2>2 DEF Batches, BatchInv, SyncInv
  <2>5. QED
    BY <2>2, <2>3, <2>4 DEF NamesOf, Hand
<1>6. QED
  BY <1>1, <1>2, <1>3, <1>4, <1>5, StepOfBatch

\* A commit lists an owner once, and only when he was no user before.
LEMMA CommitLists ==
  ASSUME Inv, ListedInv, NEW j \in Imports, Commit(j), NEW p \in Phones, synced'[p] > 0
  PROVE  /\ role'[p] # "none" /\ synced'[p] = 1
         /\ synced[p] > 0 \/ (job[j].kind = "sync" /\ \E u \in job[j].new : u.email = p)
<1> DEFINE b == job[j]
<1>1. b \in Batches /\ SyncInv(b) /\ p \in Emails /\ TypeOK
  BY DEF Inv, Batches, BatchInv, Emails
<1>2. synced[p] \in Nat /\ CountOf(b, p) \in Nat
      /\ synced'[p] = synced[p] + (IF b.kind = "sync" THEN CountOf(b, p) ELSE 0)
  BY <1>1, CommittedUsers, CountOfMade DEF TypeOK
<1>3. CASE b.kind = "sync" /\ CountOf(b, p) > 0
  <2>1. PICK u \in b.new : u.email = p
    BY <1>1, <1>3, CountOfMade DEF Lists, SyncInv
  <2>2. role[p] = "none" /\ role'[p] = "manager"
    BY <1>1, <1>3, <2>1, CommittedUsers DEF Unused
  <2>3. synced[p] = 0
    BY <1>2, <2>2 DEF ListedInv
  <2>4. CountOf(b, p) = 1
    BY <1>1, <1>2, <1>3, CountOfMade
  <2>5. QED
    BY <1>2, <1>3, <2>1, <2>2, <2>3, <2>4
<1>4. CASE ~ (b.kind = "sync" /\ CountOf(b, p) > 0)
  <2>1. synced'[p] = synced[p]
    BY <1>2, <1>4
  <2>2. role[p] # "none" /\ synced[p] = 1
    BY <2>1 DEF ListedInv
  <2>3. role'[p] # "none"
    BY <1>1, <2>2, CommittedUsers, NamedByNew DEF Unused
  <2>4. QED
    BY <2>1, <2>2, <2>3
<1>5. QED
  BY <1>3, <1>4

\* Nothing but a commit changes what the syncs have listed, and nobody stops to be a user.
LEMMA ListedStay ==
  ASSUME Inv, [Next]_vars, ~ \E j \in Imports : Commit(j), NEW p \in Phones
  PROVE  synced' = synced /\ (role[p] # "none" => role'[p] # "none")
<1>1. p \in Emails
  BY DEF Emails
<1>2. CASE UNCHANGED vars
  BY <1>2 DEF vars, others, users
<1>3. ASSUME NEW j \in Imports, Work(j) PROVE UNCHANGED <<role, synced>>
  <2>1. OverRow(j)
    BY <1>3 DEF Work, OverRow
  <2>2. QED
    BY <2>1, SyncStep DEF others, users
<1>4. ASSUME NEW j \in Imports, NEW source, NEW radius, NEW failed,
             Search(j, source, radius, failed)
      PROVE  UNCHANGED <<role, synced>>
  BY <1>4 DEF Search, users
<1>5. ASSUME NEW j \in Imports, NEW kind, NEW rows, Start(j, kind, rows)
      PROVE  UNCHANGED <<role, synced>>
  BY <1>5 DEF Start, users
<1>6. ASSUME NEW j \in Imports, Die(j) PROVE UNCHANGED <<role, synced>>
  BY <1>6 DEF Die, others, users
<1>7. ASSUME NEW u \in Registrants, Register(u)
      PROVE  synced' = synced /\ (role[p] # "none" => role'[p] # "none")
  BY <1>1, <1>7 DEF Register, Inv, TypeOK
<1>8. ASSUME NEW c \in PhoneChanges, UpdatePhone(c[1], c[2])
      PROVE  UNCHANGED <<role, synced>>
  BY <1>8 DEF UpdatePhone
<1>9. QED
  BY <1>2, <1>3, <1>4, <1>5, <1>6, <1>7, <1>8 DEF Next, StartSheet, StartSync

LEMMA ListedNext == Inv /\ ListedInv /\ [Next]_vars => ListedInv'
<1> SUFFICES ASSUME Inv, ListedInv, [Next]_vars, NEW p \in Phones, synced'[p] > 0
             PROVE  role'[p] # "none" /\ synced'[p] = 1
  BY DEF ListedInv
<1>1. CASE \E j \in Imports : Commit(j)
  BY <1>1, CommitLists
<1>2. CASE ~ \E j \in Imports : Commit(j)
  BY <1>2, ListedStay DEF ListedInv
<1>3. QED
  BY <1>1, <1>2

LEMMA OwnersNext == Inv /\ ListedInv /\ OwnersInv /\ [Next]_vars => OwnersInv'
<1> SUFFICES ASSUME Inv, ListedInv, OwnersInv, [Next]_vars PROVE OwnersInv'
  OBVIOUS
<1>1. ASSUME NEW j \in Imports PROVE NamesOf(job[j])'
  <2>1. PICK c : c = job'[j]
    OBVIOUS
  <2>2. NamesOf(c)
    BY <2>1, NamesNext
  <2>3. QED
    BY <2>1, <2>2, MappedStays DEF NamesOf
<1>2. ASSUME NEW p \in Phones, synced'[p] > 0 PROVE p \in Mapped
  <2>1. CASE synced[p] > 0
    BY <2>1 DEF OwnersInv
  <2>2. ASSUME NEW j \in Imports, Commit(j) PROVE p \in Mapped
    BY <1>2, <2>1, <2>2, CommitLists DEF OwnersInv, NamesOf
  <2>3. CASE ~ \E j \in Imports : Commit(j)
    BY <1>2, <2>1, <2>3, ListedStay
  <2>4. QED
    BY <2>2, <2>3
<1>3. QED
  BY <1>1, <1>2, MappedStays DEF OwnersInv

LEMMA SpecListed == Spec => []ListedInv
<1>1. Init => ListedInv
  BY DEF Init, ListedInv
<1>2. Spec => Init /\ [][Next]_vars
  BY PTL DEF Spec
<1>3. QED
  BY <1>1, <1>2, ListedNext, SpecInv, PTL

\* The syncs list no phone twice, in one batch, in a later one or in two at once
\* (osm_import_resorts, "prevents duplicate listings for the same owner"), however the
\* map services spell it.
THEOREM PhonesListOnce == Spec => [](\A p \in Phones : synced[p] <= 1)
<1>1. Inv /\ ListedInv => \A p \in Phones : synced[p] <= 1
  <2> SUFFICES ASSUME Inv, ListedInv, NEW p \in Phones PROVE synced[p] <= 1
    OBVIOUS
  <2>1. synced[p] \in Nat
    BY DEF Inv, TypeOK
  <2>2. QED
    BY <2>1 DEF ListedInv
<1>2. QED
  BY <1>1, SpecInv, SpecListed, PTL

\* An owner who is synced again, in one batch, in a later one or in two at once, gets
\* no second listing (osm_import_resorts), unless the services spell his number with
\* the trunk prefix in one place and without it in another.
THEOREM OwnersListOnce == Spec => []OneListingPerOwner
<1>1. Init => OwnersInv
  <2> SUFFICES ASSUME Init PROVE OwnersInv
    OBVIOUS
  <2>1. \A j \in Imports : NamesOf(job[j])
    BY DEF Init, Idle, NamesOf
  <2>2. \A p \in Phones : synced[p] = 0
    BY DEF Init
  <2>3. QED
    BY <2>1, <2>2 DEF OwnersInv
<1>2. Inv /\ ListedInv /\ OwnersInv => OneListingPerOwner
  <2> SUFFICES ASSUME Inv, ListedInv, OwnersInv PROVE OneListingPerOwner
    OBVIOUS
  <2>1. ASSUME NEW p \in Phones PROVE synced[p] <= 1
    BY <2>1 DEF Inv, TypeOK, ListedInv
  <2>2. ASSUME NEW n \in Numbers, synced[<<n, "91">>] > 0, synced[<<n, "0">>] > 0
        PROVE  "trunk" \in SpellingsOf(n)
               /\ SpellingsOf(n) \intersect {"local", "international"} # {}
    <3>1. <<n, "91">> \in Phones /\ <<n, "0">> \in Phones
      BY DEF Phones
    <3>2. <<n, "91">> \in Mapped /\ <<n, "0">> \in Mapped
      BY <2>2, <3>1 DEF OwnersInv
    <3>3. \A p \in Mapped : /\ p[2] = "0" => "trunk" \in SpellingsOf(p[1])
                         /\ p[2] # "0" => SpellingsOf(p[1]) \intersect {"local", "international"} # {}
      BY DEF Mapped
    <3>4. <<n, "91">>[1] = n /\ <<n, "0">>[1] = n /\ <<n, "91">>[2] # "0" /\ <<n, "0">>[2] = "0"
      OBVIOUS
    <3>5. "trunk" \in SpellingsOf(<<n, "0">>[1])
      <4>1. PICK p \in Mapped : p = <<n, "0">>
        BY <3>2
      <4>2. p[2] = "0"
        BY <3>4, <4>1
      <4>3. "trunk" \in SpellingsOf(p[1])
        BY <4>2, Zenon DEF Mapped
      <4>4. QED
        BY <4>1, <4>3
    <3>6. SpellingsOf(<<n, "91">>[1]) \intersect {"local", "international"} # {}
      <4>1. PICK p \in Mapped : p = <<n, "91">>
        BY <3>2
      <4>2. p[2] # "0"
        BY <3>4, <4>1
      <4>3. SpellingsOf(p[1]) \intersect {"local", "international"} # {}
        BY <3>3, <4>2
      <4>4. QED
        BY <4>1, <4>3
    <3>7. QED
      BY <3>4, <3>5, <3>6
  <2>3. QED
    BY <2>1, <2>2 DEF OneListingPerOwner
<1>3. Spec => Init /\ [][Next]_vars
  BY PTL DEF Spec
<1>4. QED
  BY <1>1, <1>2, <1>3, OwnersNext, SpecInv, SpecListed, PTL

--------------------------------------------------------------------------------
(***************************************************************************)
(* That batches end is a matter of fairness, but for two things that are   *)
(* proved: every step of a batch uses up a part of what it has left, and   *)
(* where batches are in flight one of them can go on.                      *)
(***************************************************************************)

\* The steps that a batch has left, at most: three for every row to come, and for the
\* one at hand those that are left of it.
StepsLeft(b) ==
  IF b.at = "idle" THEN 0
  ELSE 3 * (Len(b.rows) + 1 - b.next) +
         (CASE b.at = "row" -> 3 [] b.at = "manager" -> 2 [] b.at = "property" -> 1)

\* A batch stays within its rows, and one that has ended holds nothing.
PlaceOf(b) ==
  /\ b.next <= Len(b.rows) + 1
  /\ b.at = "idle" => b.new = {} /\ b.raised = {}

PlaceInv == \A j \in Imports : PlaceOf(job[j])

\* A step of a batch is over with the row at hand, or comes nearer to its end.
Onward(b, c) ==
  /\ b.next \in DOMAIN b.rows /\ c.rows = b.rows /\ b.at # "idle"
  /\ \/ c.at = "row" /\ c.next = b.next + 1
     \/ b.at = "row" /\ c.at \in {"manager", "property"} /\ c.next = b.next
     \/ b.at = "manager" /\ c.at = "property" /\ c.next = b.next

LEMMA StepGoesOn ==
  ASSUME Inv, NEW j \in Imports, OverRow(j), NEW b, b = job[j], NEW c, c = job'[j]
  PROVE  b \in Batches /\ c \in Batches /\ Onward(b, c)
<1>1. /\ b \in Batches /\ b \in Batch /\ HandInv(b) /\ SyncInv(b) /\ Hand(b) = Row(j)
      /\ job \in [Imports -> Batches]
  BY DEF Inv, Row, Hand, Batches, BatchInv
<1>2. c \in Batches
  BY SyncStep
<1>3. \A x : job' = [job EXCEPT ![j] = x] => c = x
  BY <1>1
<1> SUFFICES Onward(b, c)
  BY <1>1, <1>2
<1>4. b.rows \in Seq(SheetRow) /\ b.next \in Nat \ {0}
  BY <1>1 DEF Batch
<1>5. ASSUME b.next <= Len(b.rows)
      PROVE  b.next \in DOMAIN b.rows /\ Hand(b).phone \in PhonesOrNone
  <2>1. b.next \in DOMAIN b.rows /\ b.rows[b.next] \in SheetRow
    BY <1>4, <1>5
  <2>2. QED
    BY <2>1 DEF Hand, SheetRow
<1>6. Writing(b) => b.next \in DOMAIN b.rows
  BY <1>1 DEF HandInv
<1>7. ASSUME b.at # "idle", ~ b.fresh, b.next \in DOMAIN b.rows,
             job' = [job EXCEPT ![j] = Refused(b)]
      PROVE  Onward(b, c)
  BY <1>1, <1>3, <1>7, RefusedBatch DEF Onward
<1>8. CASE SkipRow(j)
  <2>1. b.at = "row" /\ b.next \in DOMAIN b.rows /\ Hand(b).phone \in PhonesOrNone
    BY <1>5, <1>8 DEF SkipRow, AtRow
  <2>2. job' = [job EXCEPT ![j] = Skipped(b, Hand(b).phone)]
    BY <1>1, <1>8 DEF SkipRow, RowDone, Goto, RowOver, Skipped
  <2>3. c = Skipped(b, Hand(b).phone)
    BY <1>3, <2>2
  <2>4. QED
    BY <1>1, <2>1, <2>3, SkippedBatch DEF Onward
<1>9. CASE TakeRow(j)
  <2>1. b.at = "row" /\ b.kind = "sync" /\ b.next <= Len(b.rows) /\ Hand(b).phone # NoPhone
    BY <1>1, <1>9 DEF TakeRow, AtRow, IsNew
  <2>2. job' = [job EXCEPT ![j] = Taken(b)]
    BY <1>9 DEF TakeRow, Goto, Taken
  <2>3. c = Taken(b) /\ b.next \in DOMAIN b.rows
    BY <1>3, <1>5, <2>1, <2>2
  <2>4. QED
    BY <1>1, <2>1, <2>3, TakenBatch DEF Onward
<1>10. CASE RefuseRow(j)
  <2>1. b.at # "idle" /\ ~ b.fresh /\ b.next \in DOMAIN b.rows
    BY <1>1, <1>5, <1>10 DEF RefuseRow, AtRow, HandInv
  <2>2. job' = [job EXCEPT ![j] = Refused(b)]
    BY <1>10 DEF RefuseRow, RowDone, Goto, RowOver, Refused
  <2>3. QED
    BY <1>7, <2>1, <2>2
<1>11. CASE ResolveManager(j)
  <2> DEFINE e == Row(j).email
             at == IF Known(j, e) THEN "property" ELSE "manager"
             lift == role[e] = "agent" /\ e \notin job[j].raised
  <2>1. /\ b.at = "row" /\ b.kind = "sheet" /\ b.next <= Len(b.rows)
        /\ job' = [job EXCEPT ![j] = Resolved(b, at, lift)]
    BY <1>11 DEF ResolveManager, AtRow, Goto, Resolved
  <2>2. /\ at \in {"manager", "property"} /\ lift \in BOOLEAN /\ (lift => at = "property")
    BY DEF Known
  <2> HIDE DEF at, lift
  <2>3. c = Resolved(b, at, lift) /\ b.next \in DOMAIN b.rows
    BY <1>3, <1>5, <2>1
  <2>4. c.rows = b.rows /\ c.next = b.next /\ c.at = at
    BY <1>1, <2>1, <2>2, <2>3, ResolvedBatch
  <2>5. QED
    BY <2>1, <2>2, <2>3, <2>4 DEF Onward
<1>12. CASE InsertManager(j)
  <2>1. b.at = "manager" /\ Waits(j) = {} /\ ~ b.fresh /\ b.next \in DOMAIN b.rows
    BY <1>1, <1>6, <1>12 DEF InsertManager, HandInv, Writing
  <2>2. CASE Known(j, Row(j).email) \/ PhoneTaken(j, Row(j).phone)
    <3>1. job' = [job EXCEPT ![j] = Refused(b)]
      BY <1>12, <2>2 DEF InsertManager, RowDone, Goto, RowOver, Refused
    <3>2. QED
      BY <1>7, <2>1, <3>1
  <2>3. CASE ~ Known(j, Row(j).email) /\ ~ PhoneTaken(j, Row(j).phone)
    <3>1. job' = [job EXCEPT ![j] = Entered(b)]
      BY <1>1, <1>12, <2>3 DEF InsertManager, Goto, Entered
    <3>2. c = Entered(b)
      BY <1>3, <3>1
    <3>3. \A u \in b.new : u.email # Hand(b).email
                           /\ (u.phone # Hand(b).phone \/ u.phone = NoPhone)
      BY <1>1, <2>1, <2>3, InsertedIsApart DEF Apart
    <3>4. c.rows = b.rows /\ c.next = b.next /\ c.at = "property"
      BY <1>1, <2>1, <3>2, <3>3, EnteredBatch
    <3>5. QED
      BY <2>1, <3>4 DEF Onward
  <2>4. QED
    BY <2>2, <2>3
<1>13. CASE InsertProperty(j)
  <2>1. b.at = "property" /\ b.next \in DOMAIN b.rows
    BY <1>1, <1>6, <1>13 DEF InsertProperty, Writing
  <2>2. job' = [job EXCEPT ![j] = Listing(b)]
    BY <1>1, <1>13 DEF InsertProperty, RowDone, Goto, RowOver, Listing
  <2>3. c = Listing(b)
    BY <1>3, <2>2
  <2>4. QED
    BY <1>1, <2>1, <2>3, MadeBatch DEF Onward
<1>14. CASE LoseProperty(j)
  <2>1. b.at = "property" /\ b.next \in DOMAIN b.rows
    BY <1>6, <1>14 DEF LoseProperty, Writing
  <2>2. job' = [job EXCEPT ![j] = Lost(b)]
    BY <1>1, <1>14 DEF LoseProperty, RowDone, Goto, RowOver, Lost
  <2>3. c = Lost(b)
    BY <1>3, <2>2
  <2>4. QED
    BY <1>1, <2>1, <2>3, LostBatch DEF Onward
<1>15. CASE BreakDeadlock(j)
  <2>1. Waits(j) # {}
    BY <1>15 DEF BreakDeadlock, Deadlocked
  <2>2. b.at # "idle" /\ ~ b.fresh /\ Writing(b)
    BY <2>1, WaitingIsBare DEF Waits, Writing
  <2>3. job' = [job EXCEPT ![j] = Refused(b)]
    BY <1>15 DEF BreakDeadlock, RowDone, Goto, RowOver, Refused
  <2>4. QED
    BY <1>6, <1>7, <2>2, <2>3
<1>16. QED
  BY <1>8, <1>9, <1>10, <1>11, <1>12, <1>13, <1>14, <1>15 DEF OverRow

LEMMA PlaceNext == Inv /\ PlaceInv /\ [Next]_vars => PlaceInv'
<1> SUFFICES ASSUME Inv, PlaceInv, [Next]_vars, NEW j \in Imports
             PROVE  PlaceOf(job[j])'
  BY DEF PlaceInv
<1>1. PICK c : c = job'[j]
  OBVIOUS
<1>2. PlaceOf(c)
  <2>1. CASE c = job[j]
    BY <2>1 DEF PlaceInv
  <2>2. CASE c = Idle
    BY <2>2 DEF Idle, PlaceOf
  <2>3. ASSUME NEW kind, NEW rows, NEW S, rows \in Seq(S), c = Begun(kind, rows)
        PROVE  PlaceOf(c)
    <3>1. c.rows = rows /\ c.next = 1 /\ c.at = "row"
      BY <2>3 DEF Begun, Idle
    <3>2. Len(rows) \in Nat
      BY <2>3
    <3>3. QED
      BY <3>1, <3>2 DEF PlaceOf
  <2>4. CASE \E batch \in SheetBatches : c = Begun("sheet", batch)
    BY <2>3, <2>4, SheetRows
  <2>5. CASE \E batch \in SyncBatches : \E source :
               c = Begun("sync", [i \in DOMAIN batch |-> SyncRow(source, batch[i])])
    <3>1. PICK rows : c = Begun("sync", rows) /\ rows \in Seq(SheetRow)
      BY <2>5, SyncRows
    <3>2. QED
      BY <2>3, <3>1
  <2>6. CASE OverRow(j)
    <3>1. PICK b : b = job[j]
      OBVIOUS
    <3>2. b \in Batches /\ c \in Batches /\ Onward(b, c)
      BY <1>1, <2>6, <3>1, StepGoesOn
    <3>3. b.rows \in Seq(SheetRow) /\ b.next \in Nat
      BY <3>2 DEF Batches, Batch
    <3>4. b.next <= Len(b.rows) /\ Len(b.rows) \in Nat
      BY <3>2, <3>3 DEF Onward
    <3>5. c.rows = b.rows /\ c.at # "idle" /\ (c.next = b.next \/ c.next = b.next + 1)
      BY <3>2 DEF Onward
    <3>6. QED
      BY <3>3, <3>4, <3>5 DEF PlaceOf
  <2>7. QED
    BY <1>1, <2>1, <2>2, <2>4, <2>5, <2>6, StepOfBatch
<1>3. QED
  BY <1>1, <1>2 DEF PlaceOf

LEMMA SpecPlace == Spec => [](Inv /\ PlaceInv)
<1>1. Init => PlaceInv
  <2>1. ASSUME Init, NEW j \in Imports PROVE PlaceOf(job[j])
    BY <2>1 DEF Init, Idle, PlaceOf
  <2>2. QED
    BY <2>1 DEF PlaceInv
<1>2. Spec => Init /\ [][Next]_vars
  BY PTL DEF Spec
<1>3. QED
  BY <1>1, <1>2, PlaceNext, SpecInv, PTL

\* The steps that are left are a number, and none are left of a batch that has ended.
LEMMA StepsLeftType ==
  ASSUME NEW b \in Batches, PlaceOf(b)
  PROVE  StepsLeft(b) \in Nat /\ (b.at # "idle" => StepsLeft(b) > 0)
<1>1. b.at \in {"idle", "row", "manager", "property"} /\ b.next \in Nat /\ b.rows \in Seq(SheetRow)
  BY DEF Batches, Batch
<1>2. Len(b.rows) \in Nat /\ b.next <= Len(b.rows) + 1
  BY <1>1 DEF PlaceOf
<1>3. Len(b.rows) + 1 - b.next \in Nat
  BY <1>1, <1>2
<1>4. PICK n \in Nat : n = Len(b.rows) + 1 - b.next
  BY <1>3
<1>5. CASE b.at = "idle"
  BY <1>5 DEF StepsLeft
<1>6. CASE b.at # "idle"
  <2>1. PICK k \in 1 .. 3 :
          k = CASE b.at = "row" -> 3 [] b.at = "manager" -> 2 [] b.at = "property" -> 1
    BY <1>1, <1>6
  <2>2. StepsLeft(b) = 3 * n + k
    BY <1>4, <1>6, <2>1, Zenon DEF StepsLeft
  <2>3. QED
    BY <2>2
<1>7. QED
  BY <1>5, <1>6

LEMMA OnwardUsesUp ==
  ASSUME NEW b \in Batches, NEW c \in Batches, Onward(b, c)
  PROVE  StepsLeft(c) < StepsLeft(b)
<1>1. b.next \in Nat /\ b.rows \in Seq(SheetRow) /\ b.next \in DOMAIN b.rows
  BY DEF Batches, Batch, Onward
<1>2. PICK m \in Nat : m = Len(b.rows)
  BY <1>1
<1>3. PICK n \in Nat : n = b.next
  BY <1>1
<1>4. Len(c.rows) = m
  BY <1>2 DEF Onward
<1>5. CASE c.at = "row" /\ c.next = b.next + 1
  <2>1. StepsLeft(c) = 3 * (m + 1 - (n + 1)) + 3
    BY <1>3, <1>4, <1>5 DEF StepsLeft
  <2>2. b.at \in {"row", "manager", "property"}
    BY DEF Batches, Batch, Onward
  <2>3. PICK k \in 1 .. 3 :
          k = CASE b.at = "row" -> 3 [] b.at = "manager" -> 2 [] b.at = "property" -> 1
    BY <2>2
  <2>4. StepsLeft(b) = 3 * (m + 1 - n) + k
    BY <1>2, <1>3, <2>2, <2>3 DEF StepsLeft
  <2>5. QED
    BY <2>1, <2>4
<1>6. CASE b.at = "row" /\ c.at \in {"manager", "property"} /\ c.next = b.next
  <2>1. StepsLeft(b) = 3 * (m + 1 - n) + 3
    BY <1>2, <1>3, <1>6 DEF StepsLeft
  <2>2. StepsLeft(c) \in {3 * (m + 1 - n) + 1, 3 * (m + 1 - n) + 2}
    BY <1>3, <1>4, <1>6 DEF StepsLeft
  <2>3. QED
    BY <2>1, <2>2
<1>7. CASE b.at = "manager" /\ c.at = "property" /\ c.next = b.next
  <2>1. StepsLeft(b) = 3 * (m + 1 - n) + 2
    BY <1>2, <1>3, <1>7 DEF StepsLeft
  <2>2. StepsLeft(c) = 3 * (m + 1 - n) + 1
    BY <1>3, <1>4, <1>7 DEF StepsLeft
  <2>3. QED
    BY <2>1, <2>2
<1>8. QED
  BY <1>5, <1>6, <1>7 DEF Onward

\* A batch is begun only where none is in flight.
LEMMA OnlyIdleStarts ==
  ASSUME Inv, [Next]_vars, NEW j \in Imports, job[j].at # "idle"
  PROVE  job'[j] = job[j] \/ job'[j] = Idle \/ OverRow(j)
<1>1. job \in [Imports -> Batches]
  BY DEF Inv
<1>2. ASSUME NEW k \in Imports, NEW x, job' = [job EXCEPT ![k] = x]
      PROVE  job'[j] = IF k = j THEN x ELSE job[j]
  BY <1>1, <1>2
<1>3. ASSUME NEW k \in Imports, NEW kind, NEW rows, Start(k, kind, rows)
      PROVE  job'[j] = job[j]
  <2>1. k # j /\ job' = [job EXCEPT ![k] = Begun(kind, rows)]
    BY <1>3 DEF Start, MayStart, Goto, Begun
  <2>2. QED
    BY <1>2, <2>1
<1>4. ASSUME NEW k \in Imports, Commit(k) \/ Die(k) PROVE job'[j] = job[j] \/ job'[j] = Idle
  <2>1. job' = [job EXCEPT ![k] = Idle]
    BY <1>4 DEF Commit, Die
  <2>2. QED
    BY <1>2, <2>1
<1>5. ASSUME NEW k \in Imports, OverRow(k) PROVE job'[j] = job[j] \/ OverRow(j)
  <2>1. job' = [job EXCEPT ![k] = job'[k]]
    BY <1>5, SyncStep
  <2>2. QED
    BY <1>2, <1>5, <2>1
<1>6. CASE UNCHANGED job
  BY <1>6
<1>7. ASSUME NEW k \in Imports, Work(k)
      PROVE  job'[j] = job[j] \/ job'[j] = Idle \/ OverRow(j)
  BY <1>4, <1>5, <1>7 DEF Work, OverRow
<1>8. CASE UNCHANGED vars
  BY <1>6, <1>8 DEF vars
<1>9. ASSUME NEW k, NEW source, NEW radius, NEW failed, Search(k, source, radius, failed)
      PROVE  UNCHANGED job
  BY <1>9 DEF Search
<1>10. ASSUME (\E u \in Registrants : Register(u)) \/ (\E c \in PhoneChanges : UpdatePhone(c[1], c[2]))
       PROVE  UNCHANGED job
  BY <1>10 DEF Register, UpdatePhone
<1>11. QED
  BY <1>3, <1>4, <1>6, <1>7, <1>8, <1>9, <1>10 DEF Next, StartSheet, StartSync

\* Whatever happens to a batch in flight uses up some of the steps it has left: it goes
\* on by a row or a part of one, or it ends.  No row is gone over twice, and none is
\* waited for again once the database has broken a deadlock (the loops of
\* import_properties and osm_import_resorts).
THEOREM BatchesRunOut ==
  Spec => [][\A j \in Imports :
               job[j].at # "idle" /\ (Work(j) \/ job'[j] # job[j]) =>
                 /\ StepsLeft(job[j]) \in Nat /\ StepsLeft(job'[j]) \in Nat
                 /\ StepsLeft(job'[j]) < StepsLeft(job[j])]_vars
<1> DEFINE Less(j) ==
      job[j].at # "idle" /\ (Work(j) \/ job'[j] # job[j]) =>
        /\ StepsLeft(job[j]) \in Nat /\ StepsLeft(job'[j]) \in Nat
        /\ StepsLeft(job'[j]) < StepsLeft(job[j])
<1>1. ASSUME Inv, PlaceInv, Inv', PlaceInv', [Next]_vars, NEW j \in Imports
      PROVE  Less(j)
  <2>1. SUFFICES ASSUME job[j].at # "idle", Work(j) \/ job'[j] # job[j] PROVE Less(j)
    OBVIOUS
  <2>2. PICK b : b = job[j]
    OBVIOUS
  <2>3. PICK c : c = job'[j]
    OBVIOUS
  <2>4. b \in Batches /\ c \in Batches
    BY <1>1, <2>2, <2>3 DEF Inv
  <2>5. PlaceOf(b)
    BY <1>1, <2>2 DEF PlaceInv
  <2>6. PlaceOf(c)
    BY <1>1, <2>3 DEF PlaceInv, PlaceOf
  <2>7. StepsLeft(b) \in Nat /\ StepsLeft(b) > 0 /\ StepsLeft(c) \in Nat
    BY <2>1, <2>2, <2>4, <2>5, <2>6, StepsLeftType
  <2>8. StepsLeft(c) < StepsLeft(b)
    <3>1. CASE OverRow(j)
      BY <1>1, <2>2, <2>3, <3>1, StepGoesOn, OnwardUsesUp
    <3>2. CASE c = Idle
      <4>1. StepsLeft(c) = 0
        BY <3>2 DEF Idle, StepsLeft
      <4>2. QED
        BY <2>7, <4>1
    <3>3. Work(j) => OverRow(j) \/ c = Idle
      <4>1. ASSUME Commit(j) PROVE c = Idle
        BY <1>1, <2>3, <4>1 DEF Commit, Inv
      <4>2. QED
        BY <4>1 DEF Work, OverRow
    <3>4. CASE c # b
      BY <1>1, <2>1, <2>2, <2>3, <3>1, <3>2, <3>4, OnlyIdleStarts
    <3>5. QED
      BY <2>1, <2>2, <2>3, <3>1, <3>2, <3>3, <3>4
  <2>9. QED
    BY <2>2, <2>3, <2>7, <2>8
<1>2. Inv /\ PlaceInv /\ Inv' /\ PlaceInv' /\ [Next]_vars => [\A j \in Imports : Less(j)]_vars
  BY <1>1
<1>3. Spec => [][Next]_vars
  BY PTL DEF Spec
<1>4. QED
  BY <1>2, <1>3, SpecPlace, PTL

\* The batches in flight, and those of them that can take a step.
Flying == {j \in Imports : job[j].at # "idle"}
GoesOn(j) == job[j].at = "row" \/ Waits(j) = {} \/ Deadlocked(j)

\* Where batches are in flight one of them can go on: it is between two rows, nothing
\* it writes is held by another, or it is in a circle that the database breaks.  No
\* batch waits for one that has ended (the locks of a transaction end with it).
THEOREM SomeBatchGoesOn == Spec => [](Flying # {} => \E j \in Flying : GoesOn(j))
<1> USE DEF Flying, GoesOn
<1>1. ASSUME Inv, PlaceInv, NEW j \in Flying
      PROVE  \E k \in Flying : GoesOn(k)
  <2>1. ASSUME NEW k \in Imports, NEW l \in Waits(k) PROVE l \in Flying
    <3>1. l \in Imports /\ (NewAddresses(l) # {} \/ NewPhones(l) # {} \/ job[l].raised # {})
      BY <2>1 DEF Waits
    <3>2. job[l].new # {} \/ job[l].raised # {}
      BY <3>1 DEF NewAddresses, NewPhones
    <3>3. QED
      BY <1>1, <3>1, <3>2 DEF PlaceInv, PlaceOf
  <2>2. CASE \A k \in Flying : Waits(k) # {}
    <3>1. \A k \in Flying : Waits(k) \intersect Flying # {}
      BY <2>1, <2>2
    <3>2. Flying \in SUBSET Imports /\ j \in Flying
      OBVIOUS
    <3>3. Deadlocked(j)
      BY <3>1, <3>2 DEF Deadlocked
    <3>4. QED
      BY <3>3
  <2>3. CASE \E k \in Flying : Waits(k) = {}
    BY <2>3
  <2>4. QED
    BY <2>2, <2>3
<1>2. Inv /\ PlaceInv => (Flying # {} => \E j \in Flying : GoesOn(j))
  BY <1>1
<1> HIDE DEF Flying, GoesOn
<1>3. QED
  BY <1>2, SpecPlace, PTL
================================================================================
