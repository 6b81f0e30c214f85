-------------------------------- MODULE Listing --------------------------------
(***************************************************************************)
(* The life of a listing before and around the bids on it                  *)
(* (api/v1/properties.py): created under an idempotency key, filled in,    *)
(* checked and published, edited field by field within what the            *)
(* administrators leave visible, and priced for single days.               *)
(*                                                                         *)
(* A request is cut at the awaits between what it reads and what it        *)
(* commits; the key lives in Redis, outside the transaction.  An update    *)
(* writes the columns whose value differs from the one that was read, and  *)
(* fails when its row is gone.                                             *)
(***************************************************************************)
EXTENDS Integers, FiniteSets

CONSTANTS
  Managers,     \* users who list properties
  Keys,         \* idempotency keys their clients draw
  Fields,       \* optional fields of a property that can be hidden
  Prices,       \* the pairs <<b2b_rate, b2c_rate>> a day is given, 0 for NULL
  Requests,     \* the requests that can be in flight at once
  MaxStarts,    \* bound: how many requests are started
  MaxListings,  \* bound: how many properties are created
  Edited,       \* bound: those of them that are changed later
  Patched       \* bound: the statuses that updates write

Ids == 1 .. MaxListings
Parts == {"rates", "photo", "room"}
Statuses == {"draft", "active", "inactive", "booked", "closed"}

\* The rule of DayPriceUpsert: one rate at least, and no asking rate below the
\* floor when both are there.
Ordered(price) == price[1] # 0 /\ price[2] # 0 => price[1] <= price[2]
NoPrice == <<0, 0>>

ASSUME PriceAssumption ==
  Prices \subseteq {price \in Nat \X Nat : price # NoPrice /\ Ordered(price)}
ASSUME BoundAssumption == MaxListings \in Nat /\ Edited \subseteq Ids /\ Patched \subseteq Statuses

VARIABLES
  owner,      \* Property.manager_id of the properties there are
  keyOf,      \* the key each was created under
  status,     \* Property.status
  has,        \* positive rates, a photo, a room: what publishing asks for
  filled,     \* the optional fields with a value
  dayPrice,   \* the override for one day, NoPrice without a row
  cache,      \* Redis: the property of each key, 0 for none
  hidden,     \* FieldConfig rows with visible = false
  request,    \* where each request is, and what it read
  started,    \* how many were started
  disturbed,  \* history: keys that were used twice at once, lost or shared
  loosened,   \* history: properties changed past, or since, their publication
  raced       \* history: properties with two upserts of the day at once

contents == <<status, has, filled, dayPrice>>
rows == <<owner, keyOf, contents>>
historyVars == <<disturbed, loosened, raced>>
vars == <<rows, cache, hidden, request, started, historyVars>>

Listed == DOMAIN owner

Init ==
  /\ owner = <<>> /\ keyOf = <<>> /\ status = <<>> /\ has = <<>> /\ filled = <<>>
  /\ dayPrice = <<>>
  /\ cache = [k \in Keys |-> 0]
  /\ hidden = {}
  /\ request = [r \in Requests |-> [at |-> "idle"]] /\ started = 0
  /\ disturbed = {} /\ loosened = {} /\ raced = {}

Start(r, locals) ==
  /\ request[r].at = "idle" /\ started < MaxStarts
  /\ request' = [request EXCEPT ![r] = locals]
  /\ started' = started + 1
Goto(r, locals) == request' = [request EXCEPT ![r] = locals] /\ UNCHANGED started
End(r) == Goto(r, [at |-> "idle"])
Advance(r, at) == request' = [request EXCEPT ![r].at = at] /\ UNCHANGED started

--------------------------------------------------------------------------------
\* create_property

Creating == {"looked", "checked", "created"}
SomeoneUses(k) == \E r \in Requests : request[r].at \in Creating /\ request[r].key = k

\* A key that is known to lead to a property of this manager answers with it
\* and changes nothing; otherwise the request goes on, ...  (It does so too when
\* the property is gone; it goes with its manager, delete_user, and all others
\* go on anyway.)
StartCreate(r, m, k, fields) ==
  /\ cache[k] # 0 => owner[cache[k]] # m
  /\ Start(r, [at |-> "looked", manager |-> m, key |-> k, fields |-> fields,
              late |-> FALSE, id |-> 0])
  /\ disturbed' = disturbed \union (IF SomeoneUses(k) THEN {k} ELSE {})
  /\ UNCHANGED <<rows, cache, hidden, loosened, raced>>

\* ... refuses fields that are hidden, ...
CheckFields(r) ==
  /\ request[r].at = "looked"
  /\ IF request[r].fields \intersect hidden = {} THEN Advance(r, "checked") ELSE End(r)
  /\ UNCHANGED <<rows, cache, hidden, historyVars>>

\* ... commits a draft, whose rates may be zero, ...
InsertListing(r) ==
  LET q == request[r]
      id == Cardinality(Listed) + 1
      With(f, v) == [i \in 1 .. id |-> IF i = id THEN v ELSE f[i]]
  IN
  /\ q.at = "checked" /\ id \in Ids
  /\ owner' = With(owner, q.manager) /\ keyOf' = With(keyOf, q.key)
  /\ status' = With(status, "draft") /\ filled' = With(filled, q.fields)
  /\ dayPrice' = With(dayPrice, NoPrice)
  /\ \E parts \in SUBSET {"rates"} : has' = With(has, parts)
  /\ Goto(r, [q EXCEPT !.at = "created", !.id = id])
  /\ UNCHANGED <<cache, hidden, historyVars>>

\* ... and only then saves the key.
ForgetKey(r) ==  \* variant
  request[r].at = "created" /\ End(r) /\ UNCHANGED <<rows, cache, hidden, historyVars>>
SaveKey(r) ==
  LET q == request[r]
      shared == cache[q.key] # 0 /\ owner[cache[q.key]] # q.manager
  IN
  /\ q.at = "created"
  /\ cache' = [cache EXCEPT ![q.key] = q.id]
  /\ disturbed' = disturbed \union (IF shared THEN {q.key} ELSE {})
  /\ End(r)
  /\ UNCHANGED <<rows, hidden, loosened, raced>>

\* A key lasts for a day.
ExpireKey(k) ==
  /\ cache[k] # 0
  /\ cache' = [cache EXCEPT ![k] = 0]
  /\ disturbed' = disturbed \union {k}
  /\ UNCHANGED <<rows, hidden, request, started, loosened, raced>>

--------------------------------------------------------------------------------
\* publish_property reads the status and the rates, counts the photos and the
\* rooms, and commits.
Publishing == {"priced", "pictured", "furnished"}

StartPublish(r, i) ==
  /\ status[i] = "draft" /\ "rates" \in has[i]
  /\ Start(r, [at |-> "priced", id |-> i])
  /\ UNCHANGED <<rows, cache, hidden, historyVars>>

CountPhotos(r) ==
  /\ request[r].at = "priced"
  /\ IF "photo" \in has[request[r].id] THEN Advance(r, "pictured") ELSE End(r)
  /\ UNCHANGED <<rows, cache, hidden, historyVars>>

CountRoomsLater(r) ==  \* variant
  /\ request[r].at = "pictured" /\ Advance(r, "furnished")
  /\ UNCHANGED <<rows, cache, hidden, historyVars>>
CountRooms(r) ==
  /\ request[r].at = "pictured"
  /\ IF "room" \in has[request[r].id] THEN Advance(r, "furnished") ELSE End(r)
  /\ UNCHANGED <<rows, cache, hidden, historyVars>>

CommitPublish(r) ==
  /\ request[r].at = "furnished"
  /\ status' = [status EXCEPT ![request[r].id] = "active"]
  /\ End(r)
  /\ UNCHANGED <<owner, keyOf, has, filled, dayPrice, cache, hidden, historyVars>>

\* Photos and rooms come and go at any time, the last ones too.
Unsettled(i) ==
  status[i] # "draft" \/ \E r \in Requests : request[r].at \in Publishing /\ request[r].id = i
AddPart(i, part) ==
  /\ has' = [has EXCEPT ![i] = @ \union {part}]
  /\ UNCHANGED <<owner, keyOf, status, filled, dayPrice, cache, hidden, request, started, historyVars>>

RemovePart(i, part) ==
  /\ has' = [has EXCEPT ![i] = @ \ {part}]
  /\ loosened' = loosened \union (IF Unsettled(i) THEN {i} ELSE {})
  /\ UNCHANGED <<owner, keyOf, status, filled, dayPrice, cache, hidden, request, started,
                 disturbed, raced>>

\* set_property_active and close_property.
SetPropertyActive(i, s) ==
  /\ status[i] \in {"active", "inactive"} /\ s \in {"active", "inactive"}
  /\ status' = [status EXCEPT ![i] = s]
  /\ UNCHANGED <<owner, keyOf, has, filled, dayPrice, cache, hidden, request, started, historyVars>>

CloseProperty(i) ==
  /\ status[i] = "active"
  /\ status' = [status EXCEPT ![i] = "booked"]
  /\ UNCHANGED <<owner, keyOf, has, filled, dayPrice, cache, hidden, request, started, historyVars>>

--------------------------------------------------------------------------------
\* update_property: one field of any kind, refused when it is hidden (clearing
\* it is not), then written.
SetField(f) == [kind |-> "set", field |-> f]
ClearField(f) == [kind |-> "clear", field |-> f]
SetStatus(s) == [kind |-> "status", status |-> s]
SetRates(positive) == [kind |-> "rates", positive |-> positive]
Changes ==
  {SetField(f) : f \in Fields} \union {ClearField(f) : f \in Fields}
    \union {SetStatus(s) : s \in Patched} \union {SetRates(b) : b \in BOOLEAN}

StartUpdateUnchecked(r, i, change) ==  \* variant
  /\ Start(r, [at |-> "updating", id |-> i, change |-> change, late |-> FALSE])
  /\ UNCHANGED <<rows, cache, hidden, historyVars>>
StartUpdate(r, i, change) ==
  /\ change.kind = "set" => change.field \notin hidden
  /\ Start(r, [at |-> "updating", id |-> i, change |-> change, late |-> FALSE])
  /\ UNCHANGED <<rows, cache, hidden, historyVars>>

CommitUpdate(r) ==
  LET i == request[r].id
      change == request[r].change
  IN
  /\ request[r].at = "updating"
  /\ \/ /\ change.kind = "set" /\ filled' = [filled EXCEPT ![i] = @ \union {change.field}]
        /\ UNCHANGED <<status, has, loosened>>
     \/ /\ change.kind = "clear" /\ filled' = [filled EXCEPT ![i] = @ \ {change.field}]
        /\ UNCHANGED <<status, has, loosened>>
     \/ /\ change.kind = "status" /\ status' = [status EXCEPT ![i] = change.status]
        /\ loosened' = loosened \union {i}
        /\ UNCHANGED <<filled, has>>
     \/ /\ change.kind = "rates"
        /\ has' = [has EXCEPT ![i] = IF change.positive THEN @ \union {"rates"} ELSE @ \ {"rates"}]
        /\ loosened' = loosened \union (IF Unsettled(i) /\ ~ change.positive THEN {i} ELSE {})
        /\ UNCHANGED <<filled, status>>
  /\ End(r)
  /\ UNCHANGED <<owner, keyOf, dayPrice, cache, hidden, disturbed, raced>>

\* The fields that request r is to give a value.
Sets(r) ==
  {f \in Fields :
     \/ request[r].at \in {"looked", "checked"} /\ f \in request[r].fields
     \/ request[r].at = "updating" /\ request[r].change = SetField(f)}

\* update_field_config of an administrator; requests under way may have read the
\* configuration as it was.
UpdateFieldConfig(f) ==
  /\ hidden' = IF f \in hidden THEN hidden \ {f} ELSE hidden \union {f}
  /\ request' = [r \in Requests |-> IF f \in Sets(r) THEN [request[r] EXCEPT !.late = TRUE]
                                    ELSE request[r]]
  /\ UNCHANGED <<rows, cache, started, historyVars>>

--------------------------------------------------------------------------------
\* upsert_day_price reads the row of the day, then inserts or updates it.
Upserting(i) == {r \in Requests : request[r].at = "pricing" /\ request[r].id = i}
StartUpsert(r, i, price) ==
  /\ Start(r, [at |-> "pricing", id |-> i, read |-> dayPrice[i], price |-> price])
  /\ raced' = raced \union (IF Upserting(i) # {} THEN {i} ELSE {})
  /\ UNCHANGED <<rows, cache, hidden, disturbed, loosened>>

\* The columns that were given, ...
WrittenIfGiven(read, price, now) ==  \* variant
  LET Column(c) == IF price[c] # 0 THEN price[c] ELSE now[c] IN <<Column(1), Column(2)>>
\* ... in fact those that are new to the request.
Written(read, price, now) ==
  LET Column(c) == IF price[c] # read[c] THEN price[c] ELSE now[c] IN <<Column(1), Column(2)>>

\* A second insert breaks the unique constraint; without a row the update fails.
CommitUpsert(r) ==
  LET q == request[r]
      now == dayPrice[q.id]
  IN
  /\ q.at = "pricing"
  /\ \/ q.read = NoPrice /\ now = NoPrice /\ dayPrice' = [dayPrice EXCEPT ![q.id] = q.price]
     \/ q.read # NoPrice /\ now # NoPrice
        /\ dayPrice' = [dayPrice EXCEPT ![q.id] = Written(q.read, q.price, now)]
     \/ (q.read = NoPrice) # (now = NoPrice) /\ UNCHANGED dayPrice
  /\ End(r)
  /\ UNCHANGED <<owner, keyOf, status, has, filled, cache, hidden, historyVars>>

DeleteDayPrice(i) ==
  /\ dayPrice' = [dayPrice EXCEPT ![i] = NoPrice]
  /\ UNCHANGED <<owner, keyOf, status, has, filled, cache, hidden, request, started, historyVars>>

--------------------------------------------------------------------------------
\* A request dies where it is; a key that is not saved by then is lost.
Die(r) ==
  /\ request[r].at # "idle"
  /\ disturbed' = disturbed \union (IF request[r].at = "created" THEN {request[r].key} ELSE {})
  /\ End(r)
  /\ UNCHANGED <<rows, cache, hidden, loosened, raced>>

RequestStep(r) ==
  \/ \E m \in Managers, k \in Keys, fields \in SUBSET Fields : StartCreate(r, m, k, fields)
  \/ CheckFields(r) \/ InsertListing(r) \/ SaveKey(r)
  \/ \E i \in Edited \intersect Listed :
       \/ StartPublish(r, i)
       \/ \E change \in Changes : StartUpdate(r, i, change)
       \/ \E price \in Prices : StartUpsert(r, i, price)
  \/ CountPhotos(r) \/ CountRooms(r) \/ CommitPublish(r)
  \/ CommitUpdate(r) \/ CommitUpsert(r)
  \/ Die(r)

EditStep(i) ==
  \/ \E part \in {"photo", "room"} : AddPart(i, part) \/ RemovePart(i, part)
  \/ \E s \in {"active", "inactive"} : SetPropertyActive(i, s)
  \/ CloseProperty(i) \/ DeleteDayPrice(i)

Next ==
  \/ \E r \in Requests : RequestStep(r)
  \/ \E i \in Edited \intersect Listed : EditStep(i)
  \/ \E k \in Keys : ExpireKey(k)
  \/ \E f \in Fields : UpdateFieldConfig(f)

Spec == Init /\ [][Next]_vars

--------------------------------------------------------------------------------
\* The tables are well typed, and Redis knows no property that is not there.
TypeOK ==
  /\ Listed \in {1 .. n : n \in 0 .. MaxListings}
  /\ owner \in [Listed -> Managers] /\ keyOf \in [Listed -> Keys]
  /\ status \in [Listed -> Statuses]
  /\ has \in [Listed -> SUBSET Parts] /\ filled \in [Listed -> SUBSET Fields]
  /\ dayPrice \in [Listed -> Nat \X Nat]
  /\ cache \in [Keys -> Listed \union {0}] /\ hidden \in SUBSET Fields

\* However often a manager repeats a create with one key, he has one property,
\* as long as no two of them run at once, none dies before it saved the key, the
\* key has not expired, and nobody else uses it.
OneListingPerKey ==
  \A i, j \in Listed : i # j /\ owner[i] = owner[j] /\ keyOf[i] = keyOf[j] =>
                         keyOf[i] \in disturbed

\* What agents may be offered has rates, a photo and a room, unless an update wrote
\* the status past the checks or one of the three was taken away meanwhile.
PublishedIsComplete ==
  \A i \in Listed \ loosened : status[i] # "draft" => has[i] = Parts

\* A hidden field does not get a value, but from a request that was under way when
\* it was hidden (FieldConfig: "the backend rejects requests that try to set it").
HiddenFieldsStayUnset ==
  [][\A i \in DOMAIN filled' :
       \A f \in filled'[i] \intersect hidden :
         \/ i \in Listed /\ f \in filled[i]
         \/ \E r \in Requests : f \in Sets(r) /\ request[r].late]_vars

\* One after the other, the upserts of a day leave an asking rate no lower than the
\* floor, whatever was there before.
DayPriceKeepsFloor == \A i \in Listed \ raced : Ordered(dayPrice[i])

\* schemas/property.py, DayPriceUpsert: "b2c_rate must be at least the b2b_rate
\* floor".
DayPriceAlwaysOrdered == \A i \in Listed : Ordered(dayPrice[i])
================================================================================
