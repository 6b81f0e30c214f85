----------------------------- MODULE ListingProofs -----------------------------
(***************************************************************************)
(* Theorems about the life of a listing, for any number of managers, keys, *)
(* fields, prices and overlapping requests.                                *)
(***************************************************************************)
EXTENDS Listing, FiniteSetTheorems, TLAPS

--------------------------------------------------------------------------------
\* What a request carries at each of its steps.
Idle == [at |-> "idle"]
CreateRequest ==
  [at : Creating, manager : Managers, key : Keys, fields : SUBSET Fields,
   late : BOOLEAN, id : Ids \union {0}]
PublishRequest == [at : Publishing, id : Ids]
UpdateRequest == [at : {"updating"}, id : Ids, change : Changes, late : BOOLEAN]
UpsertRequest == [at : {"pricing"}, id : Ids, read : Nat \X Nat, price : Prices]
Request ==
  {Idle} \union CreateRequest \union PublishRequest \union UpdateRequest
    \union UpsertRequest

\* A request that names a property names one there is.
Named == Publishing \union {"created", "updating", "pricing"}
TypeInv ==
  /\ TypeOK
  /\ request \in [Requests -> Request]
  /\ \A r \in Requests :
       request[r].at \in Named
         => request[r].id \in Listed

\* The step of a request tells which of them it is, and what changes keeps.
LEMMA RequestKinds ==
  ASSUME NEW q \in Request
  PROVE  /\ q.at = "idle" => q = Idle
         /\ q.at \in Creating => q \in CreateRequest
         /\ q.at \in Publishing => q \in PublishRequest
         /\ q.at = "updating" => q \in UpdateRequest
         /\ q.at = "pricing" => q \in UpsertRequest
         /\ q.at \in {"idle", "updating", "pricing"} \union Creating \union Publishing
BY DEF Request, Idle, CreateRequest, PublishRequest, UpdateRequest, UpsertRequest,
       Creating, Publishing

LEMMA CreateMoves ==
  ASSUME NEW q \in CreateRequest, NEW at \in Creating
  PROVE  /\ [q EXCEPT !.at = at] \in CreateRequest
         /\ [q EXCEPT !.at = at].at = at
         /\ [q EXCEPT !.at = at].manager = q.manager
         /\ [q EXCEPT !.at = at].key = q.key
         /\ [q EXCEPT !.at = at].fields = q.fields
         /\ [q EXCEPT !.at = at].late = q.late
BY DEF CreateRequest

LEMMA CreateMade ==
  ASSUME NEW q \in CreateRequest, NEW id \in Ids
  PROVE  /\ [q EXCEPT !.at = "created", !.id = id] \in CreateRequest
         /\ [q EXCEPT !.at = "created", !.id = id].at = "created"
         /\ [q EXCEPT !.at = "created", !.id = id].id = id
         /\ [q EXCEPT !.at = "created", !.id = id].manager = q.manager
         /\ [q EXCEPT !.at = "created", !.id = id].key = q.key
         /\ [q EXCEPT !.at = "created", !.id = id].fields = q.fields
BY DEF CreateRequest, Creating

LEMMA PublishMoves ==
  ASSUME NEW q \in PublishRequest, NEW at \in Publishing
  PROVE  /\ [q EXCEPT !.at = at] \in PublishRequest
         /\ [q EXCEPT !.at = at].at = at
         /\ [q EXCEPT !.at = at].id = q.id
BY DEF PublishRequest

\* To be marked late changes nothing else of a request.
LEMMA LateMoves ==
  ASSUME NEW q \in CreateRequest \union UpdateRequest
  PROVE  /\ [q EXCEPT !.late = TRUE] \in Request
         /\ [q EXCEPT !.late = TRUE].late = TRUE
         /\ [q EXCEPT !.late = TRUE].at = q.at
         /\ [q EXCEPT !.late = TRUE].id = q.id
         /\ q \in CreateRequest => /\ [q EXCEPT !.late = TRUE].manager = q.manager
                                   /\ [q EXCEPT !.late = TRUE].key = q.key
                                   /\ [q EXCEPT !.late = TRUE].fields = q.fields
         /\ q \in UpdateRequest => [q EXCEPT !.late = TRUE].change = q.change
<1>1. CASE q \in CreateRequest
  <2>1. q.at # "updating"
    BY <1>1 DEF CreateRequest, Creating
  <2>2. q \notin UpdateRequest
    BY <2>1 DEF UpdateRequest
  <2>3. QED
    BY <1>1, <2>2 DEF Request, CreateRequest
<1>2. CASE q \in UpdateRequest
  <2>1. q.at = "updating"
    BY <1>2 DEF UpdateRequest
  <2>2. q \notin CreateRequest
    BY <2>1 DEF CreateRequest, Creating
  <2>3. QED
    BY <1>2, <2>2 DEF Request, UpdateRequest
<1>3. QED
  BY <1>1, <1>2

\* The properties are numbered without gaps; a new one is next.
LEMMA ListedIsInterval ==
  ASSUME TypeOK
  PROVE  \E n \in Nat : n <= MaxListings /\ Listed = 1 .. n /\ Cardinality(Listed) = n
<1>1. PICK n \in 0 .. MaxListings : Listed = 1 .. n
  BY DEF TypeOK
<1>2. Cardinality(1 .. n) = n
  BY <1>1, FS_Interval, BoundAssumption
<1>3. QED
  BY <1>1, <1>2, BoundAssumption

\* The insertion of property id: all that InsertListing says of it.
Adds(r, id) ==
  /\ id \in Ids \ Listed /\ Listed' = Listed \union {id}
  /\ Listed' \in {1 .. n : n \in 0 .. MaxListings}
  /\ request[r].at = "checked"
  /\ owner' = [i \in Listed' |-> IF i = id THEN request[r].manager ELSE owner[i]]
  /\ keyOf' = [i \in Listed' |-> IF i = id THEN request[r].key ELSE keyOf[i]]
  /\ status' = [i \in Listed' |-> IF i = id THEN "draft" ELSE status[i]]
  /\ filled' = [i \in Listed' |-> IF i = id THEN request[r].fields ELSE filled[i]]
  /\ dayPrice' = [i \in Listed' |-> IF i = id THEN NoPrice ELSE dayPrice[i]]
  /\ \E parts \in SUBSET {"rates"} : has' = [i \in Listed' |-> IF i = id THEN parts ELSE has[i]]
  /\ request' = [request EXCEPT ![r] = [request[r] EXCEPT !.at = "created", !.id = id]]
  /\ UNCHANGED <<cache, hidden, started, historyVars>>

LEMMA InsertAdds ==
  ASSUME TypeOK, NEW r \in Requests, InsertListing(r)
  PROVE  \E id \in Ids : Adds(r, id)
<1>1. PICK n \in Nat : n <= MaxListings /\ Listed = 1 .. n /\ Cardinality(Listed) = n
  BY ListedIsInterval
<1> DEFINE id == n + 1
<1>2. id \in Ids /\ id \notin Listed
  BY <1>1 DEF InsertListing, Ids
<1>3. 1 .. id = Listed \union {id}
  BY <1>1
<1>4. DOMAIN owner' = 1 .. id
  BY <1>1 DEF InsertListing
<1>5. Listed' = 1 .. id
  BY <1>4 DEF Listed
<1>6. Listed' \in {1 .. m : m \in 0 .. MaxListings}
  BY <1>2, <1>5, BoundAssumption DEF Ids
<1>7. Cardinality(Listed) + 1 = id
  BY <1>1
<1> HIDE DEF id
<1>8. /\ owner' = [i \in Listed' |-> IF i = id THEN request[r].manager ELSE owner[i]]
      /\ keyOf' = [i \in Listed' |-> IF i = id THEN request[r].key ELSE keyOf[i]]
      /\ status' = [i \in Listed' |-> IF i = id THEN "draft" ELSE status[i]]
      /\ filled' = [i \in Listed' |-> IF i = id THEN request[r].fields ELSE filled[i]]
      /\ dayPrice' = [i \in Listed' |-> IF i = id THEN NoPrice ELSE dayPrice[i]]
  BY <1>5, <1>7, Zenon DEF InsertListing
<1>9. \E parts \in SUBSET {"rates"} :
        has' = [i \in Listed' |-> IF i = id THEN parts ELSE has[i]]
  BY <1>5, <1>7, Zenon DEF InsertListing
<1>10. /\ request[r].at = "checked"
       /\ request' = [request EXCEPT ![r] = [request[r] EXCEPT !.at = "created", !.id = id]]
       /\ UNCHANGED <<cache, hidden, started, historyVars>>
  BY <1>7, Zenon DEF InsertListing, Goto
<1>11. QED
  BY <1>2, <1>3, <1>5, <1>6, <1>8, <1>9, <1>10, Zenon DEF Adds

LEMMA InitTypeInv == Init => TypeInv
<1> SUFFICES ASSUME Init PROVE TypeInv
  OBVIOUS
<1>1. Listed = {}
  BY DEF Init, Listed
<1>2. {} \in {1 .. n : n \in 0 .. MaxListings}
  <2>1. 0 \in 0 .. MaxListings /\ 1 .. 0 = {}
    BY BoundAssumption
  <2>2. QED
    BY <2>1
<1>3. TypeOK
  BY <1>1, <1>2 DEF Init, TypeOK
<1>4. request = [r \in Requests |-> Idle]
  BY DEF Init, Idle
<1>5. request \in [Requests -> Request]
  BY <1>4 DEF Request
<1>6. \A r \in Requests : request[r].at = "idle"
  BY <1>4 DEF Idle
<1>7. QED
  BY <1>3, <1>5, <1>6 DEF TypeInv, Named, Publishing

\* One request moves; every other one still names what it named.
LEMMA MovedTypeInv ==
  ASSUME TypeInv, TypeOK', Listed \subseteq Listed',
         NEW r \in Requests, NEW q \in Request, q.at \in Named => q.id \in Listed',
         request' = [request EXCEPT ![r] = q]
  PROVE  TypeInv'
BY DEF TypeInv, Named

\* The columns that a step leaves alone.
LEMMA SameTables ==
  ASSUME TypeOK, UNCHANGED <<rows, cache, hidden>>
  PROVE  TypeOK' /\ Listed' = Listed
BY DEF TypeOK, Listed, rows, contents

LEMMA SameRequests ==
  ASSUME TypeInv, TypeOK', Listed' = Listed, UNCHANGED request
  PROVE  TypeInv'
BY DEF TypeInv

LEMMA IdleIsRequest == Idle \in Request /\ Idle.at = "idle" /\ Idle.at \notin Named
BY DEF Idle, Request, Named, Publishing

LEMMA EndTypeInv ==
  ASSUME TypeInv, TypeOK', Listed' = Listed, NEW r \in Requests, End(r)
  PROVE  TypeInv'
BY MovedTypeInv, IdleIsRequest, Zenon DEF End, Goto, Idle

LEMMA CreateTypeInv ==
  ASSUME TypeInv, NEW r \in Requests
  PROVE  /\ \A m \in Managers, k \in Keys, fields \in SUBSET Fields :
              StartCreate(r, m, k, fields) => TypeInv'
         /\ CheckFields(r) => TypeInv'
         /\ InsertListing(r) => TypeInv'
         /\ SaveKey(r) => TypeInv'
<1>1. TypeOK /\ request \in [Requests -> Request] /\ request[r] \in Request
  BY DEF TypeInv
<1>2. ASSUME NEW m \in Managers, NEW k \in Keys, NEW fields \in SUBSET Fields,
             StartCreate(r, m, k, fields)
      PROVE  TypeInv'
  <2> DEFINE q == [at |-> "looked", manager |-> m, key |-> k, fields |-> fields,
                   late |-> FALSE, id |-> 0]
  <2>1. q \in Request /\ q.at = "looked"
    BY DEF Request, CreateRequest, Creating
  <2>2. q.at \notin Named
    BY <2>1 DEF Named, Publishing
  <2>3. TypeOK' /\ Listed' = Listed
    BY <1>1, <1>2, SameTables DEF StartCreate
  <2>4. request' = [request EXCEPT ![r] = q]
    BY <1>2 DEF StartCreate, Start
  <2> HIDE DEF q
  <2>5. QED
    BY <2>1, <2>2, <2>3, <2>4, MovedTypeInv
<1>3. ASSUME CheckFields(r) PROVE TypeInv'
  <2>1. TypeOK' /\ Listed' = Listed
    BY <1>1, <1>3, SameTables DEF CheckFields
  <2>2. CASE End(r)
    BY <2>1, <2>2, EndTypeInv
  <2>3. CASE Advance(r, "checked")
    <3>1. request[r] \in CreateRequest
      BY <1>1, <1>3, RequestKinds DEF CheckFields, Creating
    <3> DEFINE q == [request[r] EXCEPT !.at = "checked"]
    <3>2. q \in CreateRequest /\ q.at = "checked"
      BY <3>1, CreateMoves DEF Creating
    <3>3. q \in Request /\ q.at \notin Named
      BY <3>2 DEF Request, Named, Publishing
    <3>4. request' = [request EXCEPT ![r] = q]
      BY <2>3 DEF Advance
    <3> HIDE DEF q
    <3>5. QED
      BY <2>1, <3>3, <3>4, MovedTypeInv
  <2>4. QED
    BY <1>3, <2>2, <2>3 DEF CheckFields
<1>4. ASSUME InsertListing(r) PROVE TypeInv'
  <2>1. PICK id \in Ids : Adds(r, id)
    BY <1>1, <1>4, InsertAdds
  <2>2. request[r] \in CreateRequest
    BY <1>1, <2>1, RequestKinds DEF Adds, Creating
  <2>3. /\ request[r].manager \in Managers /\ request[r].key \in Keys
        /\ request[r].fields \in SUBSET Fields
    BY <2>2 DEF CreateRequest
  <2>4. Listed' = Listed \union {id}
    BY <2>1 DEF Adds
  <2>5. TypeOK'
    <3>1. /\ Listed' \in {1 .. n : n \in 0 .. MaxListings}
          /\ owner' \in [Listed' -> Managers] /\ keyOf' \in [Listed' -> Keys]
          /\ cache' \in [Keys -> Listed' \union {0}] /\ hidden' \in SUBSET Fields
      BY <1>1, <2>1, <2>3, <2>4 DEF TypeOK, Adds
    <3>2. status' \in [Listed' -> Statuses]
      BY <1>1, <2>1, <2>4 DEF TypeOK, Adds, Statuses
    <3>3. has' \in [Listed' -> SUBSET Parts]
      BY <1>1, <2>1, <2>4 DEF TypeOK, Adds, Parts
    <3>4. filled' \in [Listed' -> SUBSET Fields]
      BY <1>1, <2>1, <2>3, <2>4 DEF TypeOK, Adds
    <3>5. dayPrice' \in [Listed' -> Nat \X Nat]
      <4>1. NoPrice \in Nat \X Nat
        BY DEF NoPrice
      <4>2. QED
        BY <1>1, <2>1, <2>4, <4>1 DEF TypeOK, Adds
    <3>6. QED
      BY <3>1, <3>2, <3>3, <3>4, <3>5 DEF TypeOK
  <2> DEFINE q == [request[r] EXCEPT !.at = "created", !.id = id]
  <2>6. q \in CreateRequest /\ q.id = id
    BY <2>2, CreateMade
  <2>7. q \in Request
    BY <2>6 DEF Request
  <2>8. request' = [request EXCEPT ![r] = q]
    BY <2>1 DEF Adds
  <2> HIDE DEF q
  <2>9. QED
    BY <2>4, <2>5, <2>6, <2>7, <2>8, MovedTypeInv
<1>5. ASSUME SaveKey(r) PROVE TypeInv'
  <2>1. request[r] \in CreateRequest /\ request[r].id \in Listed
    BY <1>1, <1>5, RequestKinds DEF SaveKey, Creating, Named, TypeInv
  <2>2. request[r].key \in Keys
    BY <2>1 DEF CreateRequest
  <2>3. UNCHANGED rows /\ UNCHANGED hidden
        /\ cache' = [cache EXCEPT ![request[r].key] = request[r].id]
    BY <1>5 DEF SaveKey
  <2>4. TypeOK' /\ Listed' = Listed
    BY <1>1, <2>1, <2>2, <2>3 DEF TypeOK, Listed, rows, contents
  <2>5. QED
    BY <1>5, <2>4, EndTypeInv DEF SaveKey
<1>6. QED
  BY <1>2, <1>3, <1>4, <1>5

LEMMA PublishTypeInv ==
  ASSUME TypeInv, NEW r \in Requests
  PROVE  /\ \A i \in Edited \intersect Listed : StartPublish(r, i) => TypeInv'
         /\ CountPhotos(r) => TypeInv'
         /\ CountRooms(r) => TypeInv'
         /\ CommitPublish(r) => TypeInv'
<1>1. TypeOK /\ request \in [Requests -> Request] /\ request[r] \in Request
  BY DEF TypeInv
<1>2. ASSUME NEW i \in Edited \intersect Listed, StartPublish(r, i) PROVE TypeInv'
  <2> DEFINE q == [at |-> "priced", id |-> i]
  <2>1. q \in Request /\ q.id = i
    BY BoundAssumption DEF Request, PublishRequest, Publishing
  <2>2. TypeOK' /\ Listed' = Listed
    BY <1>1, <1>2, SameTables DEF StartPublish
  <2>3. request' = [request EXCEPT ![r] = q]
    BY <1>2 DEF StartPublish, Start
  <2> HIDE DEF q
  <2>4. QED
    BY <2>1, <2>2, <2>3, MovedTypeInv
<1>3. ASSUME request[r].at \in Publishing, NEW at \in Publishing, Advance(r, at),
             TypeOK', Listed' = Listed
      PROVE  TypeInv'
  <2> DEFINE q == [request[r] EXCEPT !.at = at]
  <2>1. request[r] \in PublishRequest /\ request[r].id \in Listed
    BY <1>1, <1>3, RequestKinds DEF Named, TypeInv
  <2>2. q \in PublishRequest /\ q.id = request[r].id
    BY <1>3, <2>1, PublishMoves
  <2>3. q \in Request
    BY <2>2 DEF Request
  <2>4. request' = [request EXCEPT ![r] = q]
    BY <1>3 DEF Advance
  <2> HIDE DEF q
  <2>5. QED
    BY <1>3, <2>1, <2>2, <2>3, <2>4, MovedTypeInv
<1>4. ASSUME CountPhotos(r) PROVE TypeInv'
  <2>1. TypeOK' /\ Listed' = Listed
    BY <1>1, <1>4, SameTables DEF CountPhotos
  <2>2. (request[r].at \in Publishing /\ Advance(r, "pictured")) \/ End(r)
    BY <1>4 DEF CountPhotos, Publishing
  <2>3. QED
    BY <1>3, <2>1, <2>2, EndTypeInv DEF Publishing
<1>5. ASSUME CountRooms(r) PROVE TypeInv'
  <2>1. TypeOK' /\ Listed' = Listed
    BY <1>1, <1>5, SameTables DEF CountRooms
  <2>2. (request[r].at \in Publishing /\ Advance(r, "furnished")) \/ End(r)
    BY <1>5 DEF CountRooms, Publishing
  <2>3. QED
    BY <1>3, <2>1, <2>2, EndTypeInv DEF Publishing
<1>6. ASSUME CommitPublish(r) PROVE TypeInv'
  <2>1. TypeOK' /\ Listed' = Listed
    BY <1>1, <1>6 DEF CommitPublish, TypeOK, Listed, Statuses
  <2>2. QED
    BY <1>6, <2>1, EndTypeInv DEF CommitPublish
<1>7. QED
  BY <1>2, <1>4, <1>5, <1>6

\* Where the values that an upsert writes come from.
LEMMA WrittenIsPrice ==
  ASSUME NEW read \in Nat \X Nat, NEW price \in Nat \X Nat, NEW now \in Nat \X Nat
  PROVE  Written(read, price, now) \in Nat \X Nat
BY DEF Written

LEMMA PricesAreTyped ==
  /\ Prices \subseteq Nat \X Nat
  /\ NoPrice \in Nat \X Nat
  /\ Ordered(NoPrice)
  /\ \A price \in Prices : Ordered(price) /\ price # NoPrice
BY PriceAssumption DEF NoPrice, Ordered

LEMMA UpdateTypeInv ==
  ASSUME TypeInv, NEW r \in Requests
  PROVE  /\ \A i \in Edited \intersect Listed, change \in Changes :
              StartUpdate(r, i, change) => TypeInv'
         /\ CommitUpdate(r) => TypeInv'
<1>1. TypeOK /\ request \in [Requests -> Request] /\ request[r] \in Request
  BY DEF TypeInv
<1>2. ASSUME NEW i \in Edited \intersect Listed, NEW change \in Changes,
             StartUpdate(r, i, change)
      PROVE  TypeInv'
  <2> DEFINE q == [at |-> "updating", id |-> i, change |-> change, late |-> FALSE]
  <2>1. q \in UpdateRequest /\ q.id = i
    BY BoundAssumption DEF UpdateRequest
  <2>2. q \in Request
    BY <2>1 DEF Request
  <2>3. TypeOK' /\ Listed' = Listed
    BY <1>1, <1>2, SameTables DEF StartUpdate
  <2>4. request' = [request EXCEPT ![r] = q]
    BY <1>2 DEF StartUpdate, Start
  <2> HIDE DEF q
  <2>5. QED
    BY <2>1, <2>2, <2>3, <2>4, MovedTypeInv
<1>3. ASSUME CommitUpdate(r) PROVE TypeInv'
  <2> DEFINE i == request[r].id
             change == request[r].change
  <2>1. request[r] \in UpdateRequest /\ i \in Listed
    BY <1>1, <1>3, RequestKinds DEF CommitUpdate, Named, TypeInv
  <2>2. change \in Changes
    BY <2>1 DEF UpdateRequest
  <2>3. /\ change.kind = "set" => change.field \in Fields
        /\ change.kind = "status" => change.status \in Statuses
    BY <2>2, BoundAssumption DEF Changes, SetField, ClearField, SetStatus, SetRates
  <2> HIDE DEF change, i
  <2>4. UNCHANGED <<owner, keyOf, dayPrice, cache, hidden>>
    BY <1>3 DEF CommitUpdate
  <2>5. CASE change.kind = "set" /\ filled' = [filled EXCEPT ![i] = @ \union {change.field}]
             /\ UNCHANGED <<status, has>>
    <3>1. TypeOK' /\ Listed' = Listed
      BY <1>1, <2>1, <2>3, <2>4, <2>5 DEF TypeOK, Listed
    <3>2. QED
      BY <1>3, <3>1, EndTypeInv DEF CommitUpdate
  <2>6. CASE filled' = [filled EXCEPT ![i] = @ \ {change.field}] /\ UNCHANGED <<status, has>>
    <3>1. TypeOK' /\ Listed' = Listed
      BY <1>1, <2>1, <2>3, <2>4, <2>6 DEF TypeOK, Listed
    <3>2. QED
      BY <1>3, <3>1, EndTypeInv DEF CommitUpdate
  <2>7. CASE change.kind = "status" /\ status' = [status EXCEPT ![i] = change.status]
             /\ UNCHANGED <<filled, has>>
    <3>1. TypeOK' /\ Listed' = Listed
      BY <1>1, <2>1, <2>3, <2>4, <2>7 DEF TypeOK, Listed
    <3>2. QED
      BY <1>3, <3>1, EndTypeInv DEF CommitUpdate
  <2>8. CASE /\ has' = [has EXCEPT ![i] = IF change.positive THEN @ \union {"rates"}
                                          ELSE @ \ {"rates"}]
             /\ UNCHANGED <<filled, status>>
    <3>1. TypeOK' /\ Listed' = Listed
      BY <1>1, <2>1, <2>3, <2>4, <2>8 DEF TypeOK, Listed, Parts
    <3>2. QED
      BY <1>3, <3>1, EndTypeInv DEF CommitUpdate
  <2>9. QED
    BY <1>3, <2>5, <2>6, <2>7, <2>8 DEF CommitUpdate, change, i
<1>4. QED
  BY <1>2, <1>3

LEMMA UpsertTypeInv ==
  ASSUME TypeInv, NEW r \in Requests
  PROVE  /\ \A i \in Edited \intersect Listed, price \in Prices :
              StartUpsert(r, i, price) => TypeInv'
         /\ CommitUpsert(r) => TypeInv'
<1>1. TypeOK /\ request \in [Requests -> Request] /\ request[r] \in Request
  BY DEF TypeInv
<1>2. ASSUME NEW i \in Edited \intersect Listed, NEW price \in Prices,
             StartUpsert(r, i, price)
      PROVE  TypeInv'
  <2> DEFINE q == [at |-> "pricing", id |-> i, read |-> dayPrice[i], price |-> price]
  <2>1. q \in UpsertRequest /\ q.id = i
    BY <1>1, BoundAssumption DEF UpsertRequest, TypeOK
  <2>2. q \in Request
    BY <2>1 DEF Request
  <2>3. TypeOK' /\ Listed' = Listed
    BY <1>1, <1>2, SameTables DEF StartUpsert
  <2>4. request' = [request EXCEPT ![r] = q]
    BY <1>2 DEF StartUpsert, Start
  <2> HIDE DEF q
  <2>5. QED
    BY <2>1, <2>2, <2>3, <2>4, MovedTypeInv
<1>3. ASSUME CommitUpsert(r) PROVE TypeInv'
  <2> DEFINE q == request[r]
  <2>1. q \in UpsertRequest /\ q.id \in Listed
    BY <1>1, <1>3, RequestKinds DEF CommitUpsert, Named, TypeInv
  <2>2. q.read \in Nat \X Nat /\ q.price \in Nat \X Nat /\ dayPrice[q.id] \in Nat \X Nat
    BY <1>1, <2>1, PricesAreTyped DEF UpsertRequest, TypeOK
  <2>3. Written(q.read, q.price, dayPrice[q.id]) \in Nat \X Nat
    BY <2>2, WrittenIsPrice
  <2>4. \E p \in Nat \X Nat : dayPrice' = [dayPrice EXCEPT ![q.id] = p] \/ UNCHANGED dayPrice
    BY <1>3, <2>2, <2>3 DEF CommitUpsert
  <2>5. dayPrice' \in [Listed -> Nat \X Nat]
    BY <1>1, <2>1, <2>4 DEF TypeOK
  <2>6. UNCHANGED <<owner, keyOf, status, has, filled, cache, hidden>>
    BY <1>3 DEF CommitUpsert
  <2>7. TypeOK' /\ Listed' = Listed
    BY <1>1, <2>5, <2>6 DEF TypeOK, Listed
  <2>8. QED
    BY <1>3, <2>7, EndTypeInv DEF CommitUpsert
<1>4. QED
  BY <1>2, <1>3

LEMMA EditTypeInv ==
  ASSUME TypeInv, NEW i \in Edited \intersect Listed, EditStep(i)
  PROVE  TypeInv' /\ Listed' = Listed
<1>1. TypeOK
  BY DEF TypeInv
<1>2. UNCHANGED <<owner, keyOf, filled, cache, hidden, request>>
  BY DEF EditStep, AddPart, RemovePart, SetPropertyActive, CloseProperty, DeleteDayPrice
<1>3. Listed' = Listed
  BY <1>2 DEF Listed
<1>4. has' \in [Listed -> SUBSET Parts]
  <2>1. has \in [Listed -> SUBSET Parts] /\ i \in Listed
    BY <1>1 DEF TypeOK
  <2>2. \A part \in {"photo", "room"} :
          has[i] \union {part} \in SUBSET Parts /\ has[i] \ {part} \in SUBSET Parts
    BY <2>1 DEF Parts
  <2>3. \/ UNCHANGED has
        \/ \E part \in {"photo", "room"} : \/ has' = [has EXCEPT ![i] = @ \union {part}]
                                          \/ has' = [has EXCEPT ![i] = @ \ {part}]
    BY DEF EditStep, AddPart, RemovePart, SetPropertyActive, CloseProperty, DeleteDayPrice
  <2>4. QED
    BY <2>1, <2>2, <2>3
<1>5. status' \in [Listed -> Statuses]
  BY <1>1 DEF TypeOK, Statuses, EditStep, AddPart, RemovePart, SetPropertyActive,
     CloseProperty, DeleteDayPrice
<1>6. dayPrice' \in [Listed -> Nat \X Nat]
  BY <1>1, PricesAreTyped DEF TypeOK, EditStep, AddPart, RemovePart, SetPropertyActive,
     CloseProperty, DeleteDayPrice
<1>7. TypeOK'
  BY <1>1, <1>2, <1>3, <1>4, <1>5, <1>6 DEF TypeOK
<1>8. QED
  BY <1>2, <1>3, <1>7, SameRequests

\* What an administrator's change does to a request: it may mark it late.
LEMMA MarkedRequest ==
  ASSUME TypeInv, NEW f \in Fields, UpdateFieldConfig(f), NEW r \in Requests
  PROVE  /\ request'[r] \in Request
         /\ request'[r].at = request[r].at
         /\ request[r].at \in Named => request'[r].id = request[r].id
         /\ request[r].at \in Creating => /\ request'[r].manager = request[r].manager
                                          /\ request'[r].key = request[r].key
                                          /\ request'[r].fields = request[r].fields
         /\ request[r].at = "updating" => request'[r].change = request[r].change
         /\ request[r].at \in Publishing \union {"pricing"} => request'[r] = request[r]
         /\ request[r].late => request'[r].late
<1>1. request[r] \in Request
  BY DEF TypeInv
<1>2. request'[r] = IF f \in Sets(r) THEN [request[r] EXCEPT !.late = TRUE] ELSE request[r]
  BY DEF UpdateFieldConfig
<1>3. CASE f \in Sets(r)
  <2>1. request[r].at \in {"looked", "checked", "updating"}
    BY <1>3 DEF Sets
  <2>2. /\ request[r].at # "updating" => request[r] \in CreateRequest
        /\ request[r].at = "updating" => request[r] \in UpdateRequest
    BY <1>1, <2>1, RequestKinds DEF Creating
  <2>3. request'[r] = [request[r] EXCEPT !.late = TRUE]
    BY <1>2, <1>3
  <2>4. request[r].at \notin Publishing \union {"pricing"}
    BY <2>1 DEF Publishing
  <2>5. request'[r] \in Request /\ request'[r].at = request[r].at
        /\ request'[r].id = request[r].id /\ request'[r].late = TRUE
    BY <2>2, <2>3, LateMoves
  <2>6. request[r].at \in Creating => request[r] \in CreateRequest
    BY <1>1, RequestKinds
  <2>7. QED
    BY <2>2, <2>3, <2>4, <2>5, <2>6, LateMoves
<1>4. CASE f \notin Sets(r)
  BY <1>1, <1>2, <1>4
<1>5. QED
  BY <1>3, <1>4

LEMMA NextTypeInv == TypeInv /\ [Next]_vars => TypeInv'
<1> SUFFICES ASSUME TypeInv, [Next]_vars PROVE TypeInv'
  OBVIOUS
<1>1. TypeOK
  BY DEF TypeInv
<1>2. ASSUME NEW r \in Requests, RequestStep(r) PROVE TypeInv'
  <2>1. CASE Die(r)
    <3>1. TypeOK' /\ Listed' = Listed
      BY <1>1, <2>1, SameTables DEF Die
    <3>2. QED
      BY <2>1, <3>1, EndTypeInv DEF Die
  <2>2. QED
    BY <1>2, <2>1, CreateTypeInv, PublishTypeInv, UpdateTypeInv, UpsertTypeInv
    DEF RequestStep
<1>3. ASSUME NEW i \in Edited \intersect Listed, EditStep(i) PROVE TypeInv'
  BY <1>3, EditTypeInv
<1>4. ASSUME NEW k \in Keys, ExpireKey(k) PROVE TypeInv'
  <2>1. TypeOK' /\ Listed' = Listed
    BY <1>1, <1>4 DEF ExpireKey, TypeOK, Listed, rows, contents
  <2>2. QED
    BY <1>4, <2>1, SameRequests DEF ExpireKey
<1>5. ASSUME NEW f \in Fields, UpdateFieldConfig(f) PROVE TypeInv'
  <2>1. UNCHANGED <<rows, cache>> /\ hidden' \in SUBSET Fields
    BY <1>1, <1>5 DEF UpdateFieldConfig, TypeOK
  <2>2. TypeOK' /\ Listed' = Listed
    BY <1>1, <2>1 DEF TypeOK, Listed, rows, contents
  <2>3. \A r \in Requests : request'[r] \in Request /\ request'[r].at = request[r].at
          /\ (request[r].at \in Named => request'[r].id = request[r].id)
    BY <1>5, MarkedRequest
  <2>4. DOMAIN request' = Requests /\ request' = [r \in Requests |-> request'[r]]
    BY <1>5 DEF UpdateFieldConfig
  <2>5. request' \in [Requests -> Request]
    BY <2>3, <2>4
  <2>6. QED
    BY <2>2, <2>3, <2>5 DEF TypeInv
<1>6. CASE UNCHANGED vars
  <2>1. TypeOK' /\ Listed' = Listed
    BY <1>1, <1>6, SameTables DEF vars
  <2>2. QED
    BY <1>6, <2>1, SameRequests DEF vars
<1>7. QED
  BY <1>2, <1>3, <1>4, <1>5, <1>6 DEF Next

\* The tables are well typed, and Redis knows no property that is not there
\* (api/v1/properties.py: create_property commits the row before it saves the key).
THEOREM ListingsTyped == Spec => []TypeOK
<1>1. TypeInv => TypeOK
  BY DEF TypeInv
<1>2. QED
  BY <1>1, InitTypeInv, NextTypeInv, PTL DEF Spec

--------------------------------------------------------------------------------
(***************************************************************************)
(* Keys.  As long as a key is used by one request at a time and nothing is *)
(* lost, Redis knows every property made under it, but the one whose       *)
(* request is about to save it.                                            *)
(***************************************************************************)
Uses(r, k) == request[r].at \in Creating /\ request[r].key = k
Saving(r, i) ==
  request[r].at = "created" /\ request[r].key = keyOf[i] /\ request[r].id = i

KeysInv ==
  /\ \A r \in Requests : request[r].at = "created" =>
       /\ owner[request[r].id] = request[r].manager
       /\ keyOf[request[r].id] = request[r].key
  /\ \A k \in Keys \ disturbed :
       /\ \A r, s \in Requests : Uses(r, k) /\ Uses(s, k) => r = s
       /\ \A r \in Requests : Uses(r, k) /\ cache[k] # 0 =>
            owner[cache[k]] # request[r].manager
       /\ \A i \in Listed : keyOf[i] = k =>
            cache[k] = i \/ \E r \in Requests : Saving(r, i)

\* What a step that neither starts, inserts nor saves does to a request for a key.
KeptCreate(r) ==
  /\ request'[r].at \in Creating =>
       /\ request[r].at \in Creating
       /\ request'[r].manager = request[r].manager /\ request'[r].key = request[r].key
       /\ request'[r].at = "created" =>
            request[r].at = "created" /\ request'[r].id = request[r].id
  /\ request[r].at = "created" /\ request[r].key \notin disturbed' =>
       request'[r].at = "created"

LEMMA KeptKeys ==
  ASSUME TypeInv, KeysInv, UNCHANGED <<owner, keyOf, cache>>, disturbed \subseteq disturbed',
         \A r \in Requests : KeptCreate(r)
  PROVE  KeysInv'
<1>1. Listed' = Listed
  BY DEF Listed
<1>2. \A r \in Requests : request'[r].at = "created" =>
        /\ owner[request'[r].id] = request'[r].manager
        /\ keyOf[request'[r].id] = request'[r].key
  BY DEF KeysInv, KeptCreate, Creating
<1>3. ASSUME NEW k \in Keys \ disturbed'
      PROVE  /\ \A r, s \in Requests : Uses(r, k)' /\ Uses(s, k)' => r = s
             /\ \A r \in Requests : Uses(r, k)' /\ cache[k] # 0 =>
                  owner[cache[k]] # request'[r].manager
             /\ \A i \in Listed : keyOf[i] = k =>
                  cache[k] = i \/ \E r \in Requests : Saving(r, i)'
  <2>1. k \in Keys \ disturbed
    BY <1>3
  <2>2. \A r \in Requests : Uses(r, k)' => Uses(r, k) /\ request'[r].manager = request[r].manager
    BY DEF Uses, KeptCreate
  <2>3. \A r \in Requests, i \in Listed : keyOf[i] = k /\ Saving(r, i) => Saving(r, i)'
    BY <1>3 DEF Saving, KeptCreate, Creating
  <2>4. QED
    BY <2>1, <2>2, <2>3 DEF KeysInv
<1>4. QED
  BY <1>1, <1>2, <1>3 DEF KeysInv

\* The request that steps is the only one that has to be looked at.
LEMMA OneKept ==
  ASSUME TypeInv, NEW r \in Requests, NEW q, request' = [request EXCEPT ![r] = q]
  PROVE  /\ request'[r] = q
         /\ \A s \in Requests \ {r} : request'[s] = request[s] /\ KeptCreate(s)
BY DEF TypeInv, KeptCreate

LEMMA EndKept ==
  ASSUME TypeInv, NEW r \in Requests, End(r),
         request[r].at = "created" => request[r].key \in disturbed'
  PROVE  \A s \in Requests : KeptCreate(s)
<1>1. request' = [request EXCEPT ![r] = Idle]
  BY DEF End, Goto, Idle
<1>2. request'[r] = Idle /\ \A s \in Requests \ {r} : KeptCreate(s)
  BY <1>1, OneKept
<1>3. KeptCreate(r)
  BY <1>2 DEF KeptCreate, Idle, Creating
<1>4. QED
  BY <1>2, <1>3

\* A request of another kind starts or goes on.
LEMMA OtherKept ==
  ASSUME TypeInv, NEW r \in Requests, NEW q, request' = [request EXCEPT ![r] = q],
         request[r].at # "created", q.at \notin Creating
  PROVE  \A s \in Requests : KeptCreate(s)
<1>1. request'[r] = q /\ \A s \in Requests \ {r} : KeptCreate(s)
  BY OneKept
<1>2. KeptCreate(r)
  BY <1>1 DEF KeptCreate, Creating
<1>3. QED
  BY <1>1, <1>2

LEMMA StartKeys ==
  ASSUME TypeInv, KeysInv, NEW r \in Requests, NEW m \in Managers, NEW k \in Keys,
         NEW fields \in SUBSET Fields, StartCreate(r, m, k, fields)
  PROVE  KeysInv'
<1> DEFINE q == [at |-> "looked", manager |-> m, key |-> k, fields |-> fields,
                 late |-> FALSE, id |-> 0]
<1>1. request[r].at = "idle" /\ request' = [request EXCEPT ![r] = q]
  BY DEF StartCreate, Start
<1>2. q.at = "looked" /\ q.key = k /\ q.manager = m
  OBVIOUS
<1> HIDE DEF q
<1>3. request'[r] = q /\ \A s \in Requests \ {r} : request'[s] = request[s]
  BY <1>1, OneKept
<1>4. /\ UNCHANGED <<owner, keyOf, cache>> /\ disturbed \subseteq disturbed'
      /\ SomeoneUses(k) => k \in disturbed'
      /\ cache[k] # 0 => owner[cache[k]] # m
  BY DEF StartCreate, rows
<1>5. Listed' = Listed
  BY <1>4 DEF Listed
<1>6. ASSUME NEW s \in Requests, request'[s].at = "created"
      PROVE  /\ owner[request'[s].id] = request'[s].manager
             /\ keyOf[request'[s].id] = request'[s].key
  BY <1>2, <1>3, <1>6 DEF KeysInv
<1>7. ASSUME NEW j \in Keys \ disturbed'
      PROVE  /\ \A s, t \in Requests : Uses(s, j)' /\ Uses(t, j)' => s = t
             /\ \A s \in Requests : Uses(s, j)' /\ cache[j] # 0 =>
                  owner[cache[j]] # request'[s].manager
             /\ \A i \in Listed : keyOf[i] = j =>
                  cache[j] = i \/ \E s \in Requests : Saving(s, i)'
  <2>1. j \in Keys \ disturbed
    BY <1>4, <1>7
  <2>2. j = k => \A s \in Requests : ~ Uses(s, k)
    BY <1>4, <1>7 DEF SomeoneUses, Uses
  <2>3. \A s \in Requests \ {r} : Uses(s, j)' = Uses(s, j)
    BY <1>3 DEF Uses
  <2>4. Uses(r, j)' => j = k /\ request'[r].manager = m
    BY <1>2, <1>3 DEF Uses
  <2>5. \A s \in Requests, i \in Listed : Saving(s, i) => Saving(s, i)'
    BY <1>1, <1>3, <1>4 DEF Saving
  <2>6. \A s, t \in Requests : Uses(s, j)' /\ Uses(t, j)' => s = t
    BY <2>1, <2>2, <2>3, <2>4 DEF KeysInv
  <2>7. \A s \in Requests : Uses(s, j)' /\ cache[j] # 0 => owner[cache[j]] # request'[s].manager
    BY <1>3, <1>4, <2>1, <2>3, <2>4 DEF KeysInv
  <2>8. QED
    BY <2>1, <2>5, <2>6, <2>7 DEF KeysInv
<1>8. QED
  BY <1>4, <1>5, <1>6, <1>7 DEF KeysInv

LEMMA InsertKeys ==
  ASSUME TypeInv, KeysInv, NEW r \in Requests, InsertListing(r)
  PROVE  KeysInv'
<1>1. PICK id \in Ids : Adds(r, id)
  BY InsertAdds DEF TypeInv
<1> DEFINE q == [request[r] EXCEPT !.at = "created", !.id = id]
<1>2. request[r].at = "checked" /\ request' = [request EXCEPT ![r] = q]
  BY <1>1 DEF Adds
<1>3. request[r] \in CreateRequest
  BY <1>2, RequestKinds DEF TypeInv, Creating
<1>4. q.at = "created" /\ q.id = id /\ q.key = request[r].key /\ q.manager = request[r].manager
  BY <1>3, CreateMade
<1> HIDE DEF q
<1>5. request'[r] = q /\ \A s \in Requests \ {r} : request'[s] = request[s]
  BY <1>2, OneKept
<1>6. /\ id \notin Listed /\ Listed' = Listed \union {id}
      /\ owner'[id] = request[r].manager /\ keyOf'[id] = request[r].key
      /\ \A i \in Listed : owner'[i] = owner[i] /\ keyOf'[i] = keyOf[i]
      /\ UNCHANGED <<cache, disturbed>>
  BY <1>1 DEF Adds, historyVars
<1>7. \A s \in Requests \ {r} : request[s].at = "created" => request[s].id \in Listed
  BY DEF TypeInv, Named
<1>8. ASSUME NEW s \in Requests, request'[s].at = "created"
      PROVE  /\ owner'[request'[s].id] = request'[s].manager
             /\ keyOf'[request'[s].id] = request'[s].key
  BY <1>4, <1>5, <1>6, <1>7, <1>8 DEF KeysInv
<1>9. ASSUME NEW j \in Keys \ disturbed
      PROVE  /\ \A s, t \in Requests : Uses(s, j)' /\ Uses(t, j)' => s = t
             /\ \A s \in Requests : Uses(s, j)' /\ cache[j] # 0 =>
                  owner'[cache[j]] # request'[s].manager
             /\ \A i \in Listed' : keyOf'[i] = j =>
                  cache[j] = i \/ \E s \in Requests : Saving(s, i)'
  <2>1. \A s \in Requests : Uses(s, j)' => Uses(s, j) /\ request'[s].manager = request[s].manager
    BY <1>2, <1>4, <1>5 DEF Uses, Creating
  <2>2. cache[j] # 0 => cache[j] \in Listed
    BY DEF TypeInv, TypeOK
  <2>3. \A s \in Requests, i \in Listed : Saving(s, i) => Saving(s, i)'
    BY <1>2, <1>5, <1>6 DEF Saving
  <2>4. Saving(r, id)'
    BY <1>4, <1>5, <1>6 DEF Saving
  <2>5. \A s \in Requests : Uses(s, j)' /\ cache[j] # 0 => owner'[cache[j]] # request'[s].manager
    BY <1>6, <1>9, <2>1, <2>2 DEF KeysInv
  <2>6. \A i \in Listed' : keyOf'[i] = j => cache[j] = i \/ \E s \in Requests : Saving(s, i)'
    BY <1>6, <1>9, <2>3, <2>4 DEF KeysInv
  <2>7. QED
    BY <1>9, <2>1, <2>5, <2>6 DEF KeysInv
<1>10. QED
  BY <1>6, <1>8, <1>9 DEF KeysInv

LEMMA SaveKeys ==
  ASSUME TypeInv, KeysInv, NEW r \in Requests, SaveKey(r)
  PROVE  KeysInv'
<1> DEFINE q == request[r]
<1>1. q.at = "created" /\ q \in CreateRequest /\ q.id \in Listed
  BY RequestKinds DEF TypeInv, SaveKey, Creating, Named
<1>2. q.key \in Keys
  BY <1>1 DEF CreateRequest
<1>3. /\ UNCHANGED <<owner, keyOf>> /\ cache' = [cache EXCEPT ![q.key] = q.id]
      /\ disturbed \subseteq disturbed'
      /\ cache[q.key] # 0 /\ owner[cache[q.key]] # q.manager => q.key \in disturbed'
  BY DEF SaveKey, rows
<1>4. Listed' = Listed
  BY <1>3 DEF Listed
<1>5. request' = [request EXCEPT ![r] = Idle]
  BY DEF SaveKey, End, Goto, Idle
<1>6. request'[r] = Idle /\ \A s \in Requests \ {r} : request'[s] = request[s]
  BY <1>5, OneKept
<1>7. Idle.at = "idle" /\ "idle" \notin Creating
  BY DEF Idle, Creating
<1>8. cache \in [Keys -> Listed \union {0}] /\ 0 \notin Listed
  BY DEF TypeInv, TypeOK
<1>9. ASSUME NEW s \in Requests, request'[s].at = "created"
      PROVE  /\ owner[request'[s].id] = request'[s].manager
             /\ keyOf[request'[s].id] = request'[s].key
  BY <1>6, <1>7, <1>9 DEF KeysInv
<1>10. ASSUME NEW j \in Keys \ disturbed'
       PROVE  /\ \A s, t \in Requests : Uses(s, j)' /\ Uses(t, j)' => s = t
              /\ \A s \in Requests : Uses(s, j)' /\ cache'[j] # 0 =>
                   owner[cache'[j]] # request'[s].manager
              /\ \A i \in Listed : keyOf[i] = j =>
                   cache'[j] = i \/ \E s \in Requests : Saving(s, i)'
  <2>1. j \in Keys \ disturbed
    BY <1>3, <1>10
  <2>2. ~ Uses(r, j)' /\ \A s \in Requests \ {r} : Uses(s, j)' = Uses(s, j)
    BY <1>6, <1>7 DEF Uses
  <2>3. \A s, t \in Requests : Uses(s, j)' /\ Uses(t, j)' => s = t
    BY <2>1, <2>2 DEF KeysInv
  <2>4. CASE j # q.key
    <3>1. cache'[j] = cache[j]
      BY <1>2, <1>3, <1>8, <2>4
    <3>2. \A s \in Requests, i \in Listed : keyOf[i] = j /\ Saving(s, i) => Saving(s, i)'
      BY <1>3, <1>6, <2>4 DEF Saving
    <3>3. QED
      BY <1>6, <2>1, <2>2, <2>3, <3>1, <3>2 DEF KeysInv
  <2>5. CASE j = q.key
    <3>1. Uses(r, j)
      BY <1>1, <2>5 DEF Uses, Creating
    <3>2. \A s \in Requests : ~ Uses(s, j)'
      BY <2>1, <2>2, <3>1 DEF KeysInv
    <3>3. cache[j] = 0
      BY <1>3, <1>10, <2>1, <2>5, <3>1 DEF KeysInv
    <3>4. cache'[j] = q.id
      BY <1>2, <1>3, <1>8, <2>5
    <3>5. \A s \in Requests, i \in Listed : keyOf[i] = j /\ Saving(s, i) => s = r /\ i = q.id
      BY <2>1, <3>1 DEF KeysInv, Saving, Uses, Creating
    <3>6. \A i \in Listed : keyOf[i] = j => cache'[j] = i
      BY <1>8, <2>1, <3>3, <3>4, <3>5 DEF KeysInv
    <3>7. QED
      BY <2>3, <3>2, <3>6
  <2>6. QED
    BY <2>4, <2>5
<1>11. QED
  BY <1>3, <1>4, <1>9, <1>10 DEF KeysInv

LEMMA ExpireKeys ==
  ASSUME TypeInv, KeysInv, NEW k \in Keys, ExpireKey(k)
  PROVE  KeysInv'
<1>1. /\ UNCHANGED <<owner, keyOf, request>> /\ k \in disturbed'
      /\ disturbed \subseteq disturbed'
      /\ \A j \in Keys \ {k} : cache'[j] = cache[j]
  BY DEF ExpireKey, rows, TypeInv, TypeOK
<1>2. Listed' = Listed
  BY <1>1 DEF Listed
<1>3. ASSUME NEW j \in Keys \ disturbed' PROVE j \in Keys \ disturbed /\ cache'[j] = cache[j]
  BY <1>1
<1>4. QED
  BY <1>1, <1>2, <1>3 DEF KeysInv, Uses, Saving

LEMMA InitKeysInv == Init => KeysInv
BY DEF Init, KeysInv, Listed, Uses, Creating

LEMMA NextKeysInv == TypeInv /\ KeysInv /\ [Next]_vars => KeysInv'
<1> SUFFICES ASSUME TypeInv, KeysInv, [Next]_vars PROVE KeysInv'
  OBVIOUS
<1>1. ASSUME NEW r \in Requests, RequestStep(r) PROVE KeysInv'
  <2>1. CASE \E m \in Managers, k \in Keys, fields \in SUBSET Fields :
               StartCreate(r, m, k, fields)
    BY <2>1, StartKeys
  <2>2. CASE InsertListing(r)
    BY <2>2, InsertKeys
  <2>3. CASE SaveKey(r)
    BY <2>3, SaveKeys
  <2>4. CASE CheckFields(r)
    <3>1. UNCHANGED <<owner, keyOf, cache, disturbed>> /\ request[r].at = "looked"
      BY <2>4 DEF CheckFields, rows, historyVars
    <3>2. CASE End(r)
      BY <3>1, <3>2, EndKept, KeptKeys
    <3>3. CASE Advance(r, "checked")
      <4> DEFINE q == [request[r] EXCEPT !.at = "checked"]
      <4>1. request[r] \in CreateRequest
        BY <3>1, RequestKinds DEF TypeInv, Creating
      <4>2. q.at = "checked" /\ q.key = request[r].key /\ q.manager = request[r].manager
        BY <4>1, CreateMoves DEF Creating
      <4>3. request' = [request EXCEPT ![r] = q]
        BY <3>3 DEF Advance
      <4> HIDE DEF q
      <4>4. request'[r] = q /\ \A s \in Requests \ {r} : KeptCreate(s)
        BY <4>3, OneKept
      <4>5. KeptCreate(r)
        BY <3>1, <4>2, <4>4 DEF KeptCreate, Creating
      <4>6. QED
        BY <3>1, <4>4, <4>5, KeptKeys
    <3>4. QED
      BY <2>4, <3>2, <3>3 DEF CheckFields
  <2>5. CASE \E i \in Edited \intersect Listed :
               \/ StartPublish(r, i)
               \/ \E change \in Changes : StartUpdate(r, i, change)
               \/ \E price \in Prices : StartUpsert(r, i, price)
    <3>1. UNCHANGED <<owner, keyOf, cache, disturbed>> /\ request[r].at # "created"
      BY <2>5 DEF StartPublish, StartUpdate, StartUpsert, Start, rows, historyVars
    <3>2. PICK q : request' = [request EXCEPT ![r] = q] /\ q.at \notin Creating
      BY <2>5 DEF StartPublish, StartUpdate, StartUpsert, Start, Creating
    <3>3. QED
      BY <3>1, <3>2, OtherKept, KeptKeys
  <2>6. CASE CountPhotos(r) \/ CountRooms(r)
    <3>1. UNCHANGED <<owner, keyOf, cache, disturbed>> /\ request[r].at \in Publishing
      BY <2>6 DEF CountPhotos, CountRooms, rows, historyVars, Publishing
    <3>2. request[r].at # "created"
      BY <3>1 DEF Publishing
    <3>3. CASE End(r)
      BY <3>1, <3>2, <3>3, EndKept, KeptKeys
    <3>4. CASE Advance(r, "pictured") \/ Advance(r, "furnished")
      <4>1. request[r] \in PublishRequest
        BY <3>1, RequestKinds DEF TypeInv
      <4>2. PICK q : request' = [request EXCEPT ![r] = q] /\ q.at \in Publishing
        BY <3>4, <4>1, PublishMoves DEF Advance, Publishing
      <4>3. q.at \notin Creating
        BY <4>2 DEF Publishing, Creating
      <4>4. QED
        BY <3>1, <3>2, <4>2, <4>3, OtherKept, KeptKeys
    <3>5. QED
      BY <2>6, <3>3, <3>4 DEF CountPhotos, CountRooms
  <2>7. CASE CommitPublish(r) \/ CommitUpdate(r) \/ CommitUpsert(r)
    <3>1. UNCHANGED <<owner, keyOf, cache, disturbed>> /\ request[r].at # "created" /\ End(r)
      BY <2>7 DEF CommitPublish, CommitUpdate, CommitUpsert, historyVars
    <3>2. QED
      BY <3>1, EndKept, KeptKeys
  <2>8. CASE Die(r)
    <3>1. /\ UNCHANGED <<owner, keyOf, cache>> /\ disturbed \subseteq disturbed'
          /\ request[r].at = "created" => request[r].key \in disturbed'
          /\ End(r)
      BY <2>8 DEF Die, rows
    <3>2. QED
      BY <3>1, EndKept, KeptKeys
  <2>9. QED
    BY <1>1, <2>1, <2>2, <2>3, <2>4, <2>5, <2>6, <2>7, <2>8 DEF RequestStep
<1>2. ASSUME UNCHANGED <<owner, keyOf, cache, disturbed, request>> PROVE KeysInv'
  <2>1. \A r \in Requests : KeptCreate(r)
    BY <1>2 DEF KeptCreate
  <2>2. QED
    BY <1>2, <2>1, KeptKeys
<1>3. ASSUME NEW i \in Edited \intersect Listed, EditStep(i) PROVE KeysInv'
  BY <1>2, <1>3 DEF EditStep, AddPart, RemovePart, SetPropertyActive, CloseProperty,
     DeleteDayPrice, historyVars
<1>4. ASSUME NEW k \in Keys, ExpireKey(k) PROVE KeysInv'
  BY <1>4, ExpireKeys
<1>5. ASSUME NEW f \in Fields, UpdateFieldConfig(f) PROVE KeysInv'
  <2>1. UNCHANGED <<owner, keyOf, cache, disturbed>>
    BY <1>5 DEF UpdateFieldConfig, rows, historyVars
  <2>2. \A r \in Requests : KeptCreate(r)
    BY <1>5, MarkedRequest DEF KeptCreate, Creating, Named
  <2>3. QED
    BY <2>1, <2>2, KeptKeys
<1>6. CASE UNCHANGED vars
  BY <1>2, <1>6 DEF vars, rows, historyVars
<1>7. QED
  BY <1>1, <1>3, <1>4, <1>5, <1>6 DEF Next

\* However often a manager repeats a create with one key, he has one property, as
\* long as no two of them run at once, none dies before it saved the key, the key
\* has not expired, and nobody else uses it (create_property looks the key up
\* first and saves it after the commit).
THEOREM KeysMakeOneListing == Spec => []OneListingPerKey
<1>1. TypeInv /\ KeysInv => OneListingPerKey
  <2> SUFFICES ASSUME TypeInv, KeysInv, NEW i \in Listed, NEW j \in Listed, i # j,
                      owner[i] = owner[j], keyOf[i] = keyOf[j], keyOf[i] \notin disturbed
               PROVE  FALSE
    BY DEF OneListingPerKey
  <2>1. keyOf[i] \in Keys \ disturbed /\ 0 \notin Listed
    BY DEF TypeInv, TypeOK
  <2>2. /\ cache[keyOf[i]] = i \/ \E r \in Requests : Saving(r, i)
        /\ cache[keyOf[i]] = j \/ \E r \in Requests : Saving(r, j)
    BY <2>1 DEF KeysInv
  <2>3. \A r \in Requests : Saving(r, i) \/ Saving(r, j) =>
          Uses(r, keyOf[i]) /\ request[r].manager = owner[i]
    BY DEF KeysInv, Saving, Uses, Creating
  <2>4. \A r \in Requests : Saving(r, i) \/ Saving(r, j) =>
          cache[keyOf[i]] # i /\ cache[keyOf[i]] # j
    BY <2>1, <2>3 DEF KeysInv
  <2>5. PICK r \in Requests : Saving(r, i)
    BY <2>2, <2>4
  <2>6. PICK s \in Requests : Saving(s, j)
    BY <2>2, <2>4, <2>5
  <2>7. r = s
    BY <2>1, <2>3, <2>5, <2>6 DEF KeysInv
  <2>8. QED
    BY <2>5, <2>6, <2>7 DEF Saving
<1>2. QED
  BY <1>1, InitTypeInv, NextTypeInv, InitKeysInv, NextKeysInv, PTL DEF Spec

--------------------------------------------------------------------------------
(***************************************************************************)
(* Publication.  What a publication has counted is still there.            *)
(***************************************************************************)
Counted(at) ==
  CASE at = "priced" -> {"rates"}
    [] at = "pictured" -> {"rates", "photo"}
    [] OTHER -> Parts

PublishInv ==
  \A i \in Listed \ loosened :
    /\ status[i] # "draft" => has[i] = Parts
    /\ \A r \in Requests : request[r].at \in Publishing /\ request[r].id = i =>
         Counted(request[r].at) \subseteq has[i]

\* What a step that neither inserts, checks nor publishes does to a property.
KeptListing(i) ==
  /\ status'[i] # "draft" => status[i] # "draft"
  /\ Unsettled(i) => has[i] \subseteq has'[i]
KeptPublish(r) ==
  request'[r].at \in Publishing => request'[r] = request[r]

LEMMA KeptPublication ==
  ASSUME TypeInv, TypeInv', PublishInv, Listed' = Listed, loosened \subseteq loosened',
         \A i \in Listed \ loosened' : KeptListing(i),
         \A r \in Requests : KeptPublish(r)
  PROVE  PublishInv'
<1>1. ASSUME NEW i \in Listed \ loosened'
      PROVE  /\ status'[i] # "draft" => has'[i] = Parts
             /\ \A r \in Requests : request'[r].at \in Publishing /\ request'[r].id = i =>
                  Counted(request'[r].at) \subseteq has'[i]
  <2>1. i \in Listed \ loosened /\ has'[i] \subseteq Parts
    BY <1>1 DEF TypeInv, TypeOK
  <2>2. status'[i] # "draft" => has'[i] = Parts
    BY <1>1, <2>1 DEF KeptListing, Unsettled, PublishInv
  <2>3. ASSUME NEW r \in Requests, request'[r].at \in Publishing, request'[r].id = i
        PROVE  Counted(request'[r].at) \subseteq has'[i]
    <3>1. request'[r] = request[r]
      BY <2>3 DEF KeptPublish
    <3>2. Counted(request[r].at) \subseteq has[i]
      BY <2>1, <2>3, <3>1 DEF PublishInv
    <3>3. has[i] \subseteq has'[i]
      BY <1>1, <2>3, <3>1 DEF KeptListing, Unsettled
    <3>4. QED
      BY <3>1, <3>2, <3>3
  <2>4. QED
    BY <2>2, <2>3
<1>2. QED
  BY <1>1 DEF PublishInv

LEMMA OnePublish ==
  ASSUME TypeInv, NEW r \in Requests, NEW q, request' = [request EXCEPT ![r] = q]
  PROVE  /\ request'[r] = q
         /\ \A s \in Requests \ {r} : request'[s] = request[s]
         /\ q.at \notin Publishing => \A s \in Requests : KeptPublish(s)
BY DEF TypeInv, KeptPublish

LEMMA EndPublish ==
  ASSUME TypeInv, NEW r \in Requests, End(r)
  PROVE  \A s \in Requests : KeptPublish(s)
<1>1. request' = [request EXCEPT ![r] = Idle] /\ Idle.at \notin Publishing
  BY DEF End, Goto, Idle, Publishing
<1>2. QED
  BY <1>1, OnePublish

\* A request that goes on with a publication has found the part it looked for.
LEMMA OnePublication ==
  ASSUME TypeInv, PublishInv, UNCHANGED <<owner, status, has, loosened>>,
         NEW r \in Requests, NEW q, request' = [request EXCEPT ![r] = q],
         q.at \in Publishing, q.id \in Listed,
         q.id \notin loosened => Counted(q.at) \subseteq has[q.id]
  PROVE  PublishInv'
BY OnePublish DEF PublishInv, Listed

LEMMA CheckPublication ==
  ASSUME TypeInv, TypeInv', PublishInv, NEW r \in Requests
  PROVE  /\ \A i \in Edited \intersect Listed : StartPublish(r, i) => PublishInv'
         /\ CountPhotos(r) => PublishInv'
         /\ CountRooms(r) => PublishInv'
         /\ CommitPublish(r) => PublishInv'
<1>1. ASSUME NEW i \in Edited \intersect Listed, StartPublish(r, i) PROVE PublishInv'
  <2> DEFINE q == [at |-> "priced", id |-> i]
  <2>1. /\ q.at \in Publishing /\ q.id \in Listed
        /\ request' = [request EXCEPT ![r] = q]
        /\ UNCHANGED <<owner, status, has, loosened>>
    BY <1>1 DEF StartPublish, Start, Publishing, rows, contents, historyVars
  <2>2. Counted(q.at) \subseteq has[q.id]
    BY <1>1 DEF StartPublish, Counted
  <2> HIDE DEF q
  <2>3. QED
    BY <2>1, <2>2, OnePublication
<1>2. ASSUME NEW at \in Publishing, Advance(r, at), UNCHANGED <<owner, status, has, loosened>>,
             request[r].at \in Publishing,
             request[r].id \notin loosened => Counted(at) \subseteq has[request[r].id]
      PROVE  PublishInv'
  <2> DEFINE q == [request[r] EXCEPT !.at = at]
  <2>1. request[r] \in PublishRequest /\ request[r].id \in Listed
    BY <1>2, RequestKinds DEF TypeInv, Named
  <2>2. q.at = at /\ q.id = request[r].id
    BY <2>1, PublishMoves
  <2>3. request' = [request EXCEPT ![r] = q]
    BY <1>2 DEF Advance
  <2> HIDE DEF q
  <2>4. QED
    BY <1>2, <2>1, <2>2, <2>3, OnePublication
<1>3. ASSUME End(r), UNCHANGED <<owner, status, has, loosened>> PROVE PublishInv'
  <2>1. Listed' = Listed /\ \A i \in Listed : KeptListing(i)
    BY <1>3 DEF Listed, KeptListing
  <2>2. QED
    BY <1>3, <2>1, EndPublish, KeptPublication
<1>4. request[r].at \in Publishing => request[r].id \in Listed
  BY DEF TypeInv, Named
<1>5. ASSUME CountPhotos(r) PROVE PublishInv'
  <2>1. UNCHANGED <<owner, status, has, loosened>> /\ request[r].at = "priced"
    BY <1>5 DEF CountPhotos, rows, contents, historyVars
  <2>2. ASSUME "photo" \in has[request[r].id], request[r].id \notin loosened
        PROVE  Counted("pictured") \subseteq has[request[r].id]
    BY <1>4, <2>1, <2>2 DEF PublishInv, Counted, Publishing
  <2>3. QED
    BY <1>2, <1>3, <1>5, <2>1, <2>2 DEF CountPhotos, Publishing
<1>6. ASSUME CountRooms(r) PROVE PublishInv'
  <2>1. UNCHANGED <<owner, status, has, loosened>> /\ request[r].at = "pictured"
    BY <1>6 DEF CountRooms, rows, contents, historyVars
  <2>2. ASSUME "room" \in has[request[r].id], request[r].id \notin loosened
        PROVE  Counted("furnished") \subseteq has[request[r].id]
    BY <1>4, <2>1, <2>2 DEF PublishInv, Counted, Publishing, Parts
  <2>3. QED
    BY <1>2, <1>3, <1>6, <2>1, <2>2 DEF CountRooms, Publishing
<1>7. ASSUME CommitPublish(r) PROVE PublishInv'
  <2> DEFINE j == request[r].id
  <2>1. /\ request[r].at = "furnished" /\ j \in Listed
        /\ status' = [status EXCEPT ![j] = "active"]
        /\ UNCHANGED <<owner, has, loosened>>
    BY <1>4, <1>7 DEF CommitPublish, Publishing, historyVars
  <2>2. Listed' = Listed
    BY <2>1 DEF Listed
  <2>3. \A s \in Requests : KeptPublish(s)
    BY <1>7, EndPublish DEF CommitPublish
  <2>4. \A i \in Listed \ {j} : status'[i] = status[i]
    BY <2>1 DEF TypeInv, TypeOK
  <2>5. j \notin loosened => has[j] = Parts
    <3>1. j \notin loosened => Parts \subseteq has[j]
      BY <2>1 DEF PublishInv, Counted, Publishing
    <3>2. QED
      BY <2>1, <3>1 DEF TypeInv, TypeOK
  <2>6. \A s \in Requests : request'[s].at \in Publishing => request'[s] = request[s]
    BY <2>3 DEF KeptPublish
  <2> HIDE DEF j
  <2>7. ASSUME NEW i \in Listed \ loosened
        PROVE  /\ status'[i] # "draft" => has[i] = Parts
               /\ \A s \in Requests : request'[s].at \in Publishing /\ request'[s].id = i =>
                    Counted(request'[s].at) \subseteq has[i]
    BY <2>4, <2>5, <2>6 DEF PublishInv
  <2>8. QED
    BY <2>1, <2>2, <2>7 DEF PublishInv
<1>8. QED
  BY <1>1, <1>5, <1>6, <1>7

LEMMA InsertPublication ==
  ASSUME TypeInv, TypeInv', PublishInv, NEW r \in Requests, InsertListing(r)
  PROVE  PublishInv'
<1>1. PICK id \in Ids : Adds(r, id)
  BY InsertAdds DEF TypeInv
<1>2. request[r] \in CreateRequest
  BY <1>1, RequestKinds DEF TypeInv, Adds, Creating
<1> DEFINE q == [request[r] EXCEPT !.at = "created", !.id = id]
<1>3. request' = [request EXCEPT ![r] = q]
  BY <1>1 DEF Adds
<1>4. q.at = "created"
  BY <1>2, CreateMade
<1> HIDE DEF q
<1>5. q.at \notin Publishing
  BY <1>4 DEF Publishing
<1>6. \A s \in Requests : request'[s].at \in Publishing => request'[s] = request[s]
  BY <1>3, <1>5, OnePublish DEF KeptPublish
<1>7. /\ id \notin Listed /\ Listed' = Listed \union {id} /\ UNCHANGED loosened
      /\ status'[id] = "draft"
      /\ \A i \in Listed : status'[i] = status[i] /\ has'[i] = has[i]
  BY <1>1 DEF Adds, historyVars
<1>8. \A s \in Requests : request[s].at \in Publishing => request[s].id \in Listed
  BY DEF TypeInv, Named
<1>9. ASSUME NEW i \in Listed' \ loosened'
      PROVE  /\ status'[i] # "draft" => has'[i] = Parts
             /\ \A s \in Requests : request'[s].at \in Publishing /\ request'[s].id = i =>
                  Counted(request'[s].at) \subseteq has'[i]
  BY <1>6, <1>7, <1>8, <1>9 DEF PublishInv
<1>10. QED
  BY <1>9 DEF PublishInv

LEMMA UpdatePublication ==
  ASSUME TypeInv, TypeInv', PublishInv, NEW r \in Requests, CommitUpdate(r)
  PROVE  PublishInv'
<1> DEFINE j == request[r].id
<1>1. j \in Listed /\ UNCHANGED owner /\ loosened \subseteq loosened' /\ End(r)
  BY DEF CommitUpdate, TypeInv, Named
<1>2. Listed' = Listed /\ \A s \in Requests : KeptPublish(s)
  BY <1>1, EndPublish DEF Listed
<1>3. \/ UNCHANGED <<status, has>>
      \/ \E s : status' = [status EXCEPT ![j] = s] /\ j \in loosened' /\ UNCHANGED has
      \/ has' = [has EXCEPT ![j] = @ \union {"rates"}] /\ UNCHANGED status
      \/ /\ has' = [has EXCEPT ![j] = @ \ {"rates"}] /\ UNCHANGED status
         /\ Unsettled(j) => j \in loosened'
  BY DEF CommitUpdate
<1> HIDE DEF j
<1>4. \A i \in Listed \ loosened' : KeptListing(i)
  BY <1>1, <1>3 DEF KeptListing, TypeInv, TypeOK
<1>5. QED
  BY <1>1, <1>2, <1>4, KeptPublication

LEMMA EditPublication ==
  ASSUME TypeInv, TypeInv', PublishInv, NEW j \in Edited \intersect Listed, EditStep(j)
  PROVE  PublishInv'
<1>1. UNCHANGED <<owner, request>> /\ loosened \subseteq loosened'
  BY DEF EditStep, AddPart, RemovePart, SetPropertyActive, CloseProperty, DeleteDayPrice,
     historyVars
<1>2. Listed' = Listed /\ \A s \in Requests : KeptPublish(s)
  BY <1>1 DEF Listed, KeptPublish
<1>3. \/ UNCHANGED <<status, has>>
      \/ \E s : /\ status' = [status EXCEPT ![j] = s] /\ status[j] # "draft"
                /\ UNCHANGED has
      \/ \E part : has' = [has EXCEPT ![j] = @ \union {part}] /\ UNCHANGED status
      \/ \E part : /\ has' = [has EXCEPT ![j] = @ \ {part}] /\ UNCHANGED status
                   /\ Unsettled(j) => j \in loosened'
  BY DEF EditStep, AddPart, RemovePart, SetPropertyActive, CloseProperty, DeleteDayPrice
<1>4. \A i \in Listed \ loosened' : KeptListing(i)
  BY <1>1, <1>3 DEF KeptListing, TypeInv, TypeOK
<1>5. QED
  BY <1>1, <1>2, <1>4, KeptPublication

LEMMA InitPublishInv == Init => PublishInv
BY DEF Init, PublishInv, Listed

LEMMA NextPublishInv == TypeInv /\ PublishInv /\ [Next]_vars => PublishInv'
<1> SUFFICES ASSUME TypeInv, PublishInv, [Next]_vars PROVE PublishInv'
  OBVIOUS
<1>1. TypeInv'
  BY NextTypeInv
<1>2. ASSUME UNCHANGED <<owner, status, has, loosened>>,
             \A r \in Requests : KeptPublish(r)
      PROVE  PublishInv'
  <2>1. Listed' = Listed /\ \A i \in Listed : KeptListing(i)
    BY <1>2 DEF Listed, KeptListing
  <2>2. QED
    BY <1>1, <1>2, <2>1, KeptPublication
<1>3. ASSUME NEW r \in Requests, RequestStep(r) PROVE PublishInv'
  <2>1. CASE \/ \E m \in Managers, k \in Keys, fields \in SUBSET Fields :
                  StartCreate(r, m, k, fields)
             \/ \E i \in Edited \intersect Listed :
                  \/ \E change \in Changes : StartUpdate(r, i, change)
                  \/ \E price \in Prices : StartUpsert(r, i, price)
    <3>1. UNCHANGED <<owner, status, has, loosened>>
      BY <2>1 DEF StartCreate, StartUpdate, StartUpsert, rows, contents, historyVars
    <3>2. \E q : request' = [request EXCEPT ![r] = q] /\ q.at \notin Publishing
      BY <2>1 DEF StartCreate, StartUpdate, StartUpsert, Start, Publishing
    <3>3. QED
      BY <1>2, <3>1, <3>2, OnePublish
  <2>2. CASE CheckFields(r)
    <3>1. UNCHANGED <<owner, status, has, loosened>> /\ request[r].at = "looked"
      BY <2>2 DEF CheckFields, rows, contents, historyVars
    <3>2. CASE End(r)
      BY <1>2, <3>1, <3>2, EndPublish
    <3>3. CASE Advance(r, "checked")
      <4> DEFINE q == [request[r] EXCEPT !.at = "checked"]
      <4>1. request[r] \in CreateRequest
        BY <3>1, RequestKinds DEF TypeInv, Creating
      <4>2. q.at = "checked"
        BY <4>1, CreateMoves DEF Creating
      <4>3. request' = [request EXCEPT ![r] = q]
        BY <3>3 DEF Advance
      <4>4. q.at \notin Publishing
        BY <4>2 DEF Publishing
      <4> HIDE DEF q
      <4>5. QED
        BY <1>2, <3>1, <4>3, <4>4, OnePublish
    <3>4. QED
      BY <2>2, <3>2, <3>3 DEF CheckFields
  <2>3. CASE SaveKey(r) \/ CommitUpsert(r) \/ Die(r)
    <3>1. UNCHANGED <<owner, status, has, loosened>> /\ End(r)
      BY <2>3 DEF SaveKey, CommitUpsert, Die, rows, contents, historyVars
    <3>2. QED
      BY <1>2, <3>1, EndPublish
  <2>4. CASE InsertListing(r)
    BY <1>1, <2>4, InsertPublication
  <2>5. CASE CommitUpdate(r)
    BY <1>1, <2>5, UpdatePublication
  <2>6. QED
    BY <1>1, <1>3, <2>1, <2>2, <2>3, <2>4, <2>5, CheckPublication DEF RequestStep
<1>4. ASSUME NEW i \in Edited \intersect Listed, EditStep(i) PROVE PublishInv'
  BY <1>1, <1>4, EditPublication
<1>5. ASSUME NEW k \in Keys, ExpireKey(k) PROVE PublishInv'
  BY <1>2, <1>5 DEF ExpireKey, KeptPublish, rows, contents
<1>6. ASSUME NEW f \in Fields, UpdateFieldConfig(f) PROVE PublishInv'
  <2>1. UNCHANGED <<owner, status, has, loosened>>
    BY <1>6 DEF UpdateFieldConfig, rows, contents, historyVars
  <2>2. \A r \in Requests : KeptPublish(r)
    BY <1>6, MarkedRequest DEF KeptPublish
  <2>3. QED
    BY <1>2, <2>1, <2>2
<1>7. CASE UNCHANGED vars
  BY <1>2, <1>7 DEF vars, KeptPublish, rows, contents, historyVars
<1>8. QED
  BY <1>3, <1>4, <1>5, <1>6, <1>7 DEF Next

\* What agents may be offered has rates, a photo and a room, unless an update wrote
\* the status past the checks or one of the three was taken away meanwhile
\* (publish_property counts them one after the other, and commits).
THEOREM PublishedAreComplete == Spec => []PublishedIsComplete
<1>1. PublishInv => PublishedIsComplete
  BY DEF PublishInv, PublishedIsComplete
<1>2. QED
  BY <1>1, InitTypeInv, NextTypeInv, InitPublishInv, NextPublishInv, PTL DEF Spec

--------------------------------------------------------------------------------
(***************************************************************************)
(* Day prices.  An upsert that is alone finds the row it read, or none.    *)
(***************************************************************************)
PriceInv ==
  \A i \in Listed \ raced :
    /\ Ordered(dayPrice[i])
    /\ \A r, s \in Upserting(i) : r = s
    /\ \A r \in Upserting(i) : request[r].read = dayPrice[i] \/ dayPrice[i] = NoPrice

KeptUpsert(r) == request'[r].at = "pricing" => request'[r] = request[r]

LEMMA OneUpsert ==
  ASSUME TypeInv, NEW r \in Requests, NEW q, request' = [request EXCEPT ![r] = q]
  PROVE  /\ request'[r] = q
         /\ \A s \in Requests \ {r} : request'[s] = request[s]
         /\ q.at # "pricing" => \A s \in Requests : KeptUpsert(s)
BY DEF TypeInv, KeptUpsert

LEMMA EndUpsert ==
  ASSUME TypeInv, NEW r \in Requests, End(r)
  PROVE  /\ request'[r].at = "idle"
         /\ \A s \in Requests : KeptUpsert(s)
<1>1. request' = [request EXCEPT ![r] = Idle] /\ Idle.at = "idle"
  BY DEF End, Goto, Idle
<1>2. QED
  BY <1>1, OneUpsert

LEMMA KeptPrices ==
  ASSUME PriceInv, UNCHANGED <<owner, dayPrice, raced>>, \A r \in Requests : KeptUpsert(r)
  PROVE  PriceInv'
<1>1. Listed' = Listed
  BY DEF Listed
<1>2. \A i \in Listed : \A r \in Upserting(i)' : r \in Upserting(i) /\ request'[r] = request[r]
  BY DEF Upserting, KeptUpsert
<1>3. QED
  BY <1>1, <1>2 DEF PriceInv

LEMMA StartPrices ==
  ASSUME TypeInv, PriceInv, NEW r \in Requests, NEW i \in Edited \intersect Listed,
         NEW price \in Prices, StartUpsert(r, i, price)
  PROVE  PriceInv'
<1> DEFINE q == [at |-> "pricing", id |-> i, read |-> dayPrice[i], price |-> price]
<1>1. q.id = i /\ q.read = dayPrice[i]
  OBVIOUS
<1>2. request' = [request EXCEPT ![r] = q] /\ request[r].at = "idle"
  BY DEF StartUpsert, Start
<1> HIDE DEF q
<1>3. request'[r] = q /\ \A s \in Requests \ {r} : request'[s] = request[s]
  BY <1>2, OneUpsert
<1>4. /\ UNCHANGED <<owner, dayPrice>> /\ raced \subseteq raced'
      /\ Upserting(i) # {} => i \in raced'
  BY DEF StartUpsert, rows, contents
<1>5. Listed' = Listed
  BY <1>4 DEF Listed
<1>6. \A j \in Listed : Upserting(j)' \subseteq Upserting(j) \union {r}
  BY <1>3 DEF Upserting
<1>7. \A j \in Listed \ {i} : r \notin Upserting(j)'
  BY <1>1, <1>3 DEF Upserting
<1>8. ASSUME NEW j \in Listed \ raced'
      PROVE  /\ Ordered(dayPrice[j])
             /\ \A s, t \in Upserting(j)' : s = t
             /\ \A s \in Upserting(j)' : request'[s].read = dayPrice[j] \/ dayPrice[j] = NoPrice
  <2>1. j \in Listed \ raced
    BY <1>4, <1>8
  <2>2. CASE j = i
    <3>1. Upserting(j)' \subseteq {r}
      BY <1>4, <1>6, <1>8, <2>2
    <3>2. QED
      BY <1>1, <1>3, <2>1, <2>2, <3>1 DEF PriceInv
  <2>3. CASE j # i
    <3>1. Upserting(j)' \subseteq Upserting(j) /\ r \notin Upserting(j)'
      BY <1>6, <1>7, <2>3
    <3>2. \A s \in Upserting(j) : s \in Requests
      BY DEF Upserting
    <3>3. QED
      BY <1>3, <2>1, <3>1, <3>2 DEF PriceInv
  <2>4. QED
    BY <2>2, <2>3
<1>9. QED
  BY <1>4, <1>5, <1>8 DEF PriceInv

\* Nothing of the row that was read is left when it has not changed since.
LEMMA WrittenAlone ==
  ASSUME NEW read \in Nat \X Nat, NEW price \in Nat \X Nat
  PROVE  Written(read, price, read) = price
BY DEF Written

LEMMA CommitPrices ==
  ASSUME TypeInv, PriceInv, NEW r \in Requests, CommitUpsert(r)
  PROVE  PriceInv'
<1> DEFINE q == request[r]
<1>1. PICK i \in Listed : i = q.id
  BY DEF TypeInv, CommitUpsert, Named
<1>2. q.at = "pricing" /\ q \in UpsertRequest /\ i = q.id
  BY <1>1, RequestKinds DEF TypeInv, CommitUpsert
<1>3. /\ q.price \in Prices /\ q.price \in Nat \X Nat /\ q.read \in Nat \X Nat
      /\ Ordered(q.price)
  BY <1>2, PricesAreTyped DEF UpsertRequest
<1>4. dayPrice \in [Listed -> Nat \X Nat]
  BY DEF TypeInv, TypeOK
<1>5. UNCHANGED <<owner, raced>> /\ End(r)
  BY DEF CommitUpsert, historyVars
<1>6. Listed' = Listed
  BY <1>5 DEF Listed
<1>7. request'[r].at = "idle" /\ \A s \in Requests : KeptUpsert(s)
  BY <1>5, EndUpsert
<1>8. \A j \in Listed : \A s \in Upserting(j)' :
        s # r /\ s \in Upserting(j) /\ request'[s] = request[s]
  BY <1>7 DEF Upserting, KeptUpsert
<1>9. \A j \in Listed \ {i} : dayPrice'[j] = dayPrice[j]
  BY <1>2, <1>4 DEF CommitUpsert
<1>10. r \in Upserting(i)
  BY <1>2 DEF Upserting
<1>11. ASSUME i \notin raced PROVE Ordered(dayPrice'[i]) /\ Upserting(i)' = {}
  <2>1. Ordered(dayPrice[i]) /\ (q.read = dayPrice[i] \/ dayPrice[i] = NoPrice)
    BY <1>2, <1>10, <1>11 DEF PriceInv
  <2>2. Upserting(i)' = {}
    <3>1. \A s \in Upserting(i) : s = r
      BY <1>2, <1>10, <1>11 DEF PriceInv
    <3>2. \A s \in Upserting(i)' : s # r /\ s \in Upserting(i)
      BY <1>2, <1>8
    <3>3. QED
      BY <3>1, <3>2
  <2>3. CASE q.read = NoPrice /\ dayPrice[i] = NoPrice
             /\ dayPrice' = [dayPrice EXCEPT ![i] = q.price]
    BY <1>2, <1>3, <1>4, <2>2, <2>3
  <2>4. CASE q.read # NoPrice /\ dayPrice[i] # NoPrice
             /\ dayPrice' = [dayPrice EXCEPT ![i] = Written(q.read, q.price, dayPrice[i])]
    <3>1. Written(q.read, q.price, dayPrice[i]) = q.price
      BY <1>3, <2>1, <2>4, WrittenAlone
    <3>2. QED
      BY <1>2, <1>3, <1>4, <2>2, <2>4, <3>1
  <2>5. CASE UNCHANGED dayPrice
    BY <2>1, <2>2, <2>5
  <2>6. QED
    BY <1>2, <2>3, <2>4, <2>5 DEF CommitUpsert
<1> HIDE DEF q
<1>12. ASSUME NEW j \in Listed \ raced
       PROVE  /\ Ordered(dayPrice'[j])
              /\ \A s, t \in Upserting(j)' : s = t
              /\ \A s \in Upserting(j)' :
                   request'[s].read = dayPrice'[j] \/ dayPrice'[j] = NoPrice
  <2>1. CASE j = i
    BY <1>11, <1>12, <2>1
  <2>2. CASE j # i
    <3>1. dayPrice'[j] = dayPrice[j]
      BY <1>9, <2>2
    <3>2. \A s \in Upserting(j)' : s \in Upserting(j) /\ request'[s] = request[s]
      BY <1>8
    <3>3. QED
      BY <1>12, <3>1, <3>2 DEF PriceInv
  <2>3. QED
    BY <2>1, <2>2
<1>13. QED
  BY <1>5, <1>6, <1>12 DEF PriceInv

LEMMA InsertPrices ==
  ASSUME TypeInv, PriceInv, NEW r \in Requests, InsertListing(r)
  PROVE  PriceInv'
<1>1. PICK id \in Ids : Adds(r, id)
  BY InsertAdds DEF TypeInv
<1>2. request[r] \in CreateRequest
  BY <1>1, RequestKinds DEF TypeInv, Adds, Creating
<1> DEFINE q == [request[r] EXCEPT !.at = "created", !.id = id]
<1>3. request' = [request EXCEPT ![r] = q]
  BY <1>1 DEF Adds
<1>4. q.at = "created"
  BY <1>2, CreateMade
<1> HIDE DEF q
<1>5. \A s \in Requests : KeptUpsert(s)
  BY <1>3, <1>4, OneUpsert
<1>6. /\ id \notin Listed /\ Listed' = Listed \union {id} /\ UNCHANGED raced
      /\ dayPrice'[id] = NoPrice /\ \A i \in Listed : dayPrice'[i] = dayPrice[i]
  BY <1>1 DEF Adds, historyVars
<1>7. \A j \in Listed' : \A s \in Upserting(j)' :
        j \in Listed /\ s \in Upserting(j) /\ request'[s] = request[s]
  BY <1>5 DEF Upserting, KeptUpsert, TypeInv, Named
<1>8. ASSUME NEW j \in Listed' \ raced'
      PROVE  /\ Ordered(dayPrice'[j])
             /\ \A s, t \in Upserting(j)' : s = t
             /\ \A s \in Upserting(j)' :
                  request'[s].read = dayPrice'[j] \/ dayPrice'[j] = NoPrice
  BY <1>6, <1>7, PricesAreTyped DEF PriceInv
<1>9. QED
  BY <1>8 DEF PriceInv

LEMMA InitPriceInv == Init => PriceInv
BY DEF Init, PriceInv, Listed

LEMMA NextPriceInv == TypeInv /\ PriceInv /\ [Next]_vars => PriceInv'
<1> SUFFICES ASSUME TypeInv, PriceInv, [Next]_vars PROVE PriceInv'
  OBVIOUS
<1>1. ASSUME NEW r \in Requests, RequestStep(r) PROVE PriceInv'
  <2>1. CASE \/ \E m \in Managers, k \in Keys, fields \in SUBSET Fields :
                  StartCreate(r, m, k, fields)
             \/ \E i \in Edited \intersect Listed :
                  \/ StartPublish(r, i)
                  \/ \E change \in Changes : StartUpdate(r, i, change)
    <3>1. UNCHANGED <<owner, dayPrice, raced>>
      BY <2>1 DEF StartCreate, StartPublish, StartUpdate, rows, contents, historyVars
    <3>2. \E q : request' = [request EXCEPT ![r] = q] /\ q.at # "pricing"
      BY <2>1 DEF StartCreate, StartPublish, StartUpdate, Start
    <3>3. QED
      BY <3>1, <3>2, OneUpsert, KeptPrices
  <2>2. CASE CheckFields(r) \/ CountPhotos(r) \/ CountRooms(r)
    <3>1. /\ UNCHANGED <<owner, dayPrice, raced>>
          /\ request[r].at \in {"looked"} \union Publishing
      BY <2>2 DEF CheckFields, CountPhotos, CountRooms, rows, contents, historyVars,
         Publishing
    <3>2. CASE End(r)
      BY <3>1, <3>2, EndUpsert, KeptPrices
    <3>3. CASE \E at \in {"checked", "pictured", "furnished"} : Advance(r, at)
      <4>1. PICK at \in {"checked", "pictured", "furnished"} : Advance(r, at)
        BY <3>3
      <4>2. request[r] \in CreateRequest \union PublishRequest
        BY <3>1, RequestKinds DEF TypeInv, Creating
      <4> DEFINE q == [request[r] EXCEPT !.at = at]
      <4>3. q.at = at
        BY <4>2 DEF CreateRequest, PublishRequest
      <4>4. request' = [request EXCEPT ![r] = q] /\ q.at # "pricing"
        BY <4>1, <4>3 DEF Advance
      <4> HIDE DEF q
      <4>5. QED
        BY <3>1, <4>4, OneUpsert, KeptPrices
    <3>4. QED
      BY <2>2, <3>2, <3>3 DEF CheckFields, CountPhotos, CountRooms
  <2>3. CASE SaveKey(r) \/ CommitPublish(r) \/ CommitUpdate(r) \/ Die(r)
    <3>1. UNCHANGED <<owner, dayPrice, raced>> /\ End(r)
      BY <2>3 DEF SaveKey, CommitPublish, CommitUpdate, Die, rows, contents, historyVars
    <3>2. QED
      BY <3>1, EndUpsert, KeptPrices
  <2>4. CASE \E i \in Edited \intersect Listed : \E price \in Prices : StartUpsert(r, i, price)
    BY <2>4, StartPrices
  <2>5. CASE InsertListing(r) \/ CommitUpsert(r)
    BY <2>5, InsertPrices, CommitPrices
  <2>6. QED
    BY <1>1, <2>1, <2>2, <2>3, <2>4, <2>5 DEF RequestStep
<1>2. ASSUME NEW i \in Edited \intersect Listed, EditStep(i) PROVE PriceInv'
  <2>1. UNCHANGED <<owner, request, raced>>
    BY <1>2 DEF EditStep, AddPart, RemovePart, SetPropertyActive, CloseProperty,
       DeleteDayPrice, historyVars
  <2>2. CASE UNCHANGED dayPrice
    BY <2>1, <2>2, KeptPrices DEF KeptUpsert
  <2>3. CASE dayPrice' = [dayPrice EXCEPT ![i] = NoPrice]
    <3>1. Listed' = Listed /\ \A j \in Listed : Upserting(j)' = Upserting(j)
      BY <2>1 DEF Listed, Upserting
    <3>2. \A j \in Listed : dayPrice'[j] = dayPrice[j] \/ dayPrice'[j] = NoPrice
      BY <2>3 DEF TypeInv, TypeOK
    <3>3. QED
      BY <2>1, <3>1, <3>2, PricesAreTyped DEF PriceInv
  <2>4. QED
    BY <1>2, <2>2, <2>3 DEF EditStep, AddPart, RemovePart, SetPropertyActive,
       CloseProperty, DeleteDayPrice
<1>3. ASSUME NEW k \in Keys, ExpireKey(k) PROVE PriceInv'
  BY <1>3, KeptPrices DEF ExpireKey, KeptUpsert, rows, contents
<1>4. ASSUME NEW f \in Fields, UpdateFieldConfig(f) PROVE PriceInv'
  <2>1. UNCHANGED <<owner, dayPrice, raced>>
    BY <1>4 DEF UpdateFieldConfig, rows, contents, historyVars
  <2>2. \A r \in Requests : KeptUpsert(r)
    BY <1>4, MarkedRequest DEF KeptUpsert
  <2>3. QED
    BY <2>1, <2>2, KeptPrices
<1>5. CASE UNCHANGED vars
  BY <1>5, KeptPrices DEF vars, KeptUpsert, rows, contents, historyVars
<1>6. QED
  BY <1>1, <1>2, <1>3, <1>4, <1>5 DEF Next

\* One after the other, the upserts of a day leave an asking rate no lower than the
\* floor, whatever was there before (upsert_day_price writes the columns that are
\* new to it onto the row as it is by then).
THEOREM DayPricesKeepFloor == Spec => []DayPriceKeepsFloor
<1>1. PriceInv => DayPriceKeepsFloor
  BY DEF PriceInv, DayPriceKeepsFloor
<1>2. QED
  BY <1>1, InitTypeInv, NextTypeInv, InitPriceInv, NextPriceInv, PTL DEF Spec

--------------------------------------------------------------------------------
(***************************************************************************)
(* Hidden fields.  A request that looked before its field was hidden knows *)
(* it; one that looked after did not go on.                                *)
(***************************************************************************)
HiddenInv ==
  \A r \in Requests : request[r].at \in {"checked", "updating"} /\ ~ request[r].late =>
    Sets(r) \intersect hidden = {}

KeptChange(r) ==
  request'[r].at \in {"checked", "updating"} => request'[r] = request[r]

LEMMA KeptHidden ==
  ASSUME HiddenInv, UNCHANGED hidden, \A r \in Requests : KeptChange(r)
  PROVE  HiddenInv'
BY DEF HiddenInv, KeptChange, Sets

LEMMA OneChange ==
  ASSUME TypeInv, NEW r \in Requests, NEW q, request' = [request EXCEPT ![r] = q]
  PROVE  /\ request'[r] = q
         /\ \A s \in Requests \ {r} : request'[s] = request[s]
         /\ q.at \notin {"checked", "updating"} => \A s \in Requests : KeptChange(s)
BY DEF TypeInv, KeptChange

LEMMA EndHidden ==
  ASSUME TypeInv, HiddenInv, UNCHANGED hidden, NEW r \in Requests, End(r)
  PROVE  HiddenInv'
<1>1. request' = [request EXCEPT ![r] = Idle] /\ Idle.at = "idle"
  BY DEF End, Goto, Idle
<1>2. QED
  BY <1>1, OneChange, KeptHidden

LEMMA CheckHidden ==
  ASSUME TypeInv, HiddenInv, NEW r \in Requests, CheckFields(r)
  PROVE  HiddenInv'
<1>1. UNCHANGED hidden /\ request[r].at = "looked"
  BY DEF CheckFields
<1>2. CASE End(r)
  BY <1>1, <1>2, EndHidden
<1>3. CASE Advance(r, "checked") /\ request[r].fields \intersect hidden = {}
  <2> DEFINE q == [request[r] EXCEPT !.at = "checked"]
  <2>1. request[r] \in CreateRequest
    BY <1>1, RequestKinds DEF TypeInv, Creating
  <2>2. q.at = "checked" /\ q.fields = request[r].fields
    BY <2>1, CreateMoves DEF Creating
  <2>3. request' = [request EXCEPT ![r] = q]
    BY <1>3 DEF Advance
  <2> HIDE DEF q
  <2>4. request'[r] = q /\ \A s \in Requests \ {r} : request'[s] = request[s]
    BY <2>3, OneChange
  <2>5. Sets(r)' \intersect hidden = {}
    BY <1>3, <2>2, <2>4 DEF Sets
  <2>6. \A s \in Requests \ {r} : Sets(s)' = Sets(s)
    BY <2>4 DEF Sets
  <2>7. QED
    BY <1>1, <2>4, <2>5, <2>6 DEF HiddenInv
<1>4. QED
  BY <1>2, <1>3 DEF CheckFields

LEMMA StartHidden ==
  ASSUME TypeInv, HiddenInv, NEW r \in Requests, NEW i \in Edited \intersect Listed,
         NEW change \in Changes, StartUpdate(r, i, change)
  PROVE  HiddenInv'
<1> DEFINE q == [at |-> "updating", id |-> i, change |-> change, late |-> FALSE]
<1>1. q.at = "updating" /\ q.change = change
  OBVIOUS
<1>2. request' = [request EXCEPT ![r] = q]
  BY DEF StartUpdate, Start
<1> HIDE DEF q
<1>3. request'[r] = q /\ \A s \in Requests \ {r} : request'[s] = request[s]
  BY <1>2, OneChange
<1>4. UNCHANGED hidden /\ \A f \in Fields : change = SetField(f) => f \notin hidden
  BY DEF StartUpdate, SetField
<1>5. Sets(r)' \intersect hidden = {}
  BY <1>1, <1>3, <1>4 DEF Sets
<1>6. \A s \in Requests \ {r} : Sets(s)' = Sets(s)
  BY <1>3 DEF Sets
<1>7. QED
  BY <1>3, <1>4, <1>5, <1>6 DEF HiddenInv

LEMMA InsertHidden ==
  ASSUME TypeInv, HiddenInv, NEW r \in Requests, InsertListing(r)
  PROVE  HiddenInv'
<1>1. PICK id \in Ids : Adds(r, id)
  BY InsertAdds DEF TypeInv
<1>2. request[r] \in CreateRequest
  BY <1>1, RequestKinds DEF TypeInv, Adds, Creating
<1> DEFINE q == [request[r] EXCEPT !.at = "created", !.id = id]
<1>3. request' = [request EXCEPT ![r] = q] /\ UNCHANGED hidden
  BY <1>1 DEF Adds
<1>4. q.at = "created"
  BY <1>2, CreateMade
<1> HIDE DEF q
<1>5. QED
  BY <1>3, <1>4, OneChange, KeptHidden

\* A field that is hidden now is not set by those who looked, or they are marked.
LEMMA ConfigHidden ==
  ASSUME TypeInv, HiddenInv, NEW f \in Fields, UpdateFieldConfig(f)
  PROVE  HiddenInv'
<1>1. hidden' \subseteq hidden \union {f}
  BY DEF UpdateFieldConfig
<1>2. ASSUME NEW r \in Requests, request'[r].at \in {"checked", "updating"}, ~ request'[r].late
      PROVE  Sets(r)' \intersect hidden' = {}
  <2>1. /\ request[r].at = request'[r].at /\ request[r].at \in {"checked", "updating"}
        /\ ~ request[r].late
    BY <1>2, MarkedRequest
  <2>2. f \notin Sets(r)
    <3>1. SUFFICES ASSUME f \in Sets(r) PROVE FALSE
      OBVIOUS
    <3>2. request'[r] = [request[r] EXCEPT !.late = TRUE]
      BY <3>1 DEF UpdateFieldConfig
    <3>3. request[r] \in CreateRequest \union UpdateRequest
      BY <2>1, RequestKinds DEF TypeInv, Creating
    <3>4. QED
      BY <1>2, <3>2, <3>3, LateMoves
  <2>3. request'[r] = request[r]
    BY <2>2 DEF UpdateFieldConfig
  <2>4. Sets(r)' = Sets(r)
    BY <2>3 DEF Sets
  <2>5. QED
    BY <1>1, <2>1, <2>2, <2>4 DEF HiddenInv
<1>3. QED
  BY <1>2 DEF HiddenInv

LEMMA InitHiddenInv == Init => HiddenInv
BY DEF Init, HiddenInv

LEMMA NextHiddenInv == TypeInv /\ HiddenInv /\ [Next]_vars => HiddenInv'
<1> SUFFICES ASSUME TypeInv, HiddenInv, [Next]_vars PROVE HiddenInv'
  OBVIOUS
<1>1. ASSUME NEW r \in Requests, RequestStep(r) PROVE HiddenInv'
  <2>1. CASE \/ \E m \in Managers, k \in Keys, fields \in SUBSET Fields :
                  StartCreate(r, m, k, fields)
             \/ \E i \in Edited \intersect Listed :
                  StartPublish(r, i) \/ \E price \in Prices : StartUpsert(r, i, price)
    <3>1. UNCHANGED hidden
      BY <2>1 DEF StartCreate, StartPublish, StartUpsert
    <3>2. \E q : request' = [request EXCEPT ![r] = q] /\ q.at \notin {"checked", "updating"}
      BY <2>1 DEF StartCreate, StartPublish, StartUpsert, Start
    <3>3. QED
      BY <3>1, <3>2, OneChange, KeptHidden
  <2>2. CASE CountPhotos(r) \/ CountRooms(r)
    <3>1. UNCHANGED hidden /\ request[r].at \in Publishing
      BY <2>2 DEF CountPhotos, CountRooms, Publishing
    <3>2. CASE End(r)
      BY <3>1, <3>2, EndHidden
    <3>3. CASE \E at \in {"pictured", "furnished"} : Advance(r, at)
      <4>1. PICK at \in {"pictured", "furnished"} : Advance(r, at)
        BY <3>3
      <4> DEFINE q == [request[r] EXCEPT !.at = at]
      <4>2. request[r] \in PublishRequest
        BY <3>1, RequestKinds DEF TypeInv
      <4>3. q.at = at
        BY <4>2 DEF PublishRequest
      <4>4. request' = [request EXCEPT ![r] = q] /\ q.at \notin {"checked", "updating"}
        BY <4>1, <4>3 DEF Advance
      <4> HIDE DEF q
      <4>5. QED
        BY <3>1, <4>4, OneChange, KeptHidden
    <3>4. QED
      BY <2>2, <3>2, <3>3 DEF CountPhotos, CountRooms
  <2>3. CASE SaveKey(r) \/ CommitPublish(r) \/ CommitUpdate(r) \/ CommitUpsert(r) \/ Die(r)
    <3>1. UNCHANGED hidden /\ End(r)
      BY <2>3 DEF SaveKey, CommitPublish, CommitUpdate, CommitUpsert, Die
    <3>2. QED
      BY <3>1, EndHidden
  <2>4. CASE \E i \in Edited \intersect Listed : \E change \in Changes : StartUpdate(r, i, change)
    BY <2>4, StartHidden
  <2>5. QED
    BY <1>1, <2>1, <2>2, <2>3, <2>4, CheckHidden, InsertHidden DEF RequestStep
<1>2. ASSUME UNCHANGED <<hidden, request>> PROVE HiddenInv'
  BY <1>2, KeptHidden DEF KeptChange
<1>3. ASSUME NEW i \in Edited \intersect Listed, EditStep(i) PROVE HiddenInv'
  BY <1>2, <1>3 DEF EditStep, AddPart, RemovePart, SetPropertyActive, CloseProperty,
     DeleteDayPrice
<1>4. ASSUME NEW k \in Keys, ExpireKey(k) PROVE HiddenInv'
  BY <1>2, <1>4 DEF ExpireKey
<1>5. ASSUME NEW f \in Fields, UpdateFieldConfig(f) PROVE HiddenInv'
  BY <1>5, ConfigHidden
<1>6. CASE UNCHANGED vars
  BY <1>2, <1>6 DEF vars
<1>7. QED
  BY <1>1, <1>3, <1>4, <1>5, <1>6 DEF Next

\* The only steps that fill fields are the insertion of a property and an update.
LEMMA FilledBy ==
  ASSUME TypeInv, [Next]_vars
  PROVE  \/ UNCHANGED <<owner, filled>>
         \/ \E r \in Requests : InsertListing(r) \/ CommitUpdate(r)
<1>1. ASSUME NEW r \in Requests, RequestStep(r), ~ InsertListing(r), ~ CommitUpdate(r)
      PROVE  UNCHANGED <<owner, filled>>
  BY <1>1 DEF RequestStep, StartCreate, CheckFields, SaveKey, StartPublish, StartUpdate,
     StartUpsert, CountPhotos, CountRooms, CommitPublish, CommitUpsert, Die, rows, contents
<1>2. ASSUME NEW i \in Edited \intersect Listed, EditStep(i) PROVE UNCHANGED <<owner, filled>>
  BY <1>2 DEF EditStep, AddPart, RemovePart, SetPropertyActive, CloseProperty, DeleteDayPrice
<1>3. ASSUME NEW k \in Keys, ExpireKey(k) PROVE UNCHANGED <<owner, filled>>
  BY <1>3 DEF ExpireKey, rows, contents
<1>4. ASSUME NEW f \in Fields, UpdateFieldConfig(f) PROVE UNCHANGED <<owner, filled>>
  BY <1>4 DEF UpdateFieldConfig, rows, contents
<1>5. CASE UNCHANGED vars
  BY <1>5 DEF vars, rows, contents
<1>6. QED
  BY <1>1, <1>2, <1>3, <1>4, <1>5 DEF Next

\* A hidden field does not get a value, but from a request that was under way when
\* it was hidden (FieldConfig: "the backend rejects requests that try to set it").
THEOREM HiddenFieldsAreRefused == Spec => HiddenFieldsStayUnset
<1> DEFINE Refused ==
      \A i \in DOMAIN filled' :
        \A f \in filled'[i] \intersect hidden :
          \/ i \in Listed /\ f \in filled[i]
          \/ \E r \in Requests : f \in Sets(r) /\ request[r].late
<1>1. ASSUME TypeInv, HiddenInv, [Next]_vars PROVE Refused
  <2>1. filled \in [Listed -> SUBSET Fields]
    BY <1>1 DEF TypeInv, TypeOK
  <2>2. CASE UNCHANGED <<owner, filled>>
    BY <2>1, <2>2
  <2>3. ASSUME NEW r \in Requests, InsertListing(r) PROVE Refused
    <3>1. PICK id \in Ids : Adds(r, id)
      BY <1>1, <2>3, InsertAdds DEF TypeInv
    <3>2. request[r].at = "checked" /\ request[r] \in CreateRequest
      BY <1>1, <3>1, RequestKinds DEF TypeInv, Adds, Creating
    <3>3. request[r].fields \subseteq Sets(r)
      BY <3>2 DEF Sets, CreateRequest
    <3>4. \A f \in request[r].fields \intersect hidden : f \in Sets(r) /\ request[r].late
      BY <1>1, <3>2, <3>3 DEF HiddenInv
    <3>5. /\ DOMAIN filled' = Listed \union {id} /\ filled'[id] = request[r].fields
          /\ \A i \in Listed : i # id /\ filled'[i] = filled[i]
      BY <3>1 DEF Adds
    <3>6. QED
      BY <3>4, <3>5
  <2>4. ASSUME NEW r \in Requests, CommitUpdate(r) PROVE Refused
    <3> DEFINE j == request[r].id
               change == request[r].change
    <3>1. request[r].at = "updating" /\ request[r] \in UpdateRequest /\ j \in Listed
      BY <1>1, <2>4, RequestKinds DEF TypeInv, CommitUpdate, Named
    <3>2. change \in Changes
      BY <3>1 DEF UpdateRequest
    <3>3. change.kind = "set" => change.field \in Fields /\ change = SetField(change.field)
      BY <3>2 DEF Changes, SetField, ClearField, SetStatus, SetRates
    <3>4. change.kind = "set" => change.field \in Sets(r)
      BY <3>1, <3>3 DEF Sets
    <3>5. change.kind = "set" /\ change.field \in hidden => request[r].late
      BY <1>1, <3>1, <3>4 DEF HiddenInv
    <3>6. \/ UNCHANGED filled
          \/ filled' = [filled EXCEPT ![j] = @ \ {change.field}]
          \/ change.kind = "set" /\ filled' = [filled EXCEPT ![j] = @ \union {change.field}]
      BY <2>4 DEF CommitUpdate
    <3> HIDE DEF j, change
    <3>7. QED
      BY <2>1, <3>1, <3>4, <3>5, <3>6
  <2>5. QED
    BY <1>1, <2>2, <2>3, <2>4, FilledBy
<1>2. TypeInv /\ HiddenInv /\ [Next]_vars => [Refused]_vars
  BY <1>1
<1> HIDE DEF Refused
<1>3. Spec => [][Refused]_vars
  BY <1>2, InitTypeInv, NextTypeInv, InitHiddenInv, NextHiddenInv, PTL DEF Spec
<1>4. QED
  BY <1>3 DEF HiddenFieldsStayUnset, Refused
================================================================================
