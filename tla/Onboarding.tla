------------------------------- MODULE Onboarding -------------------------------
(***************************************************************************)
(* The bulk imports of the administrators (api/v1/admin.py): a sheet of    *)
(* properties with their managers, and a sync of resorts from a map        *)
(* service, chosen from a preview (module ResortSearch).  A batch is one   *)
(* transaction with a savepoint for every row, so a row that fails is      *)
(* undone alone and a batch that dies is undone as a whole.  Batches and   *)
(* registrations run side by side: a row is invisible to the others until  *)
(* its batch commits, but its unique columns already make them wait.       *)
(*                                                                         *)
(* A user is named by his e-mail address.  The address a sync makes from a *)
(* phone number is named by that number.                                   *)
(***************************************************************************)
EXTENDS ResortSearch

CONSTANTS
  Numbers,      \* the subscriber numbers of resort owners
  Spellings,    \* how a map service may spell them
  Addresses,    \* e-mail addresses that people have
  NoPhone,      \* a missing or unusable phone number
  Imports,      \* the batches that can be in flight at once
  SheetBatches, \* bound: the batches of rows [email, phone] that are uploaded
  SyncBatches,  \* bound: the batches of resorts that are synced
  Radii,        \* bound: the radii that are searched, in km
  Outages,      \* bound: the tiles whose calls fail together
  Registrants,  \* bound: those who may register meanwhile, as [email, phone, role]
  PhoneChanges, \* bound: the changes <<email, phone>> that users may make
  MaxListed     \* bound: no batch starts once a user has this many listings

KnownSpellings == {"local", "international", "trunk", "none"}

Phones == Numbers \X {"91", "0"}
Emails == Phones \union Addresses
PhonesOrNone == Phones \union {NoPhone}

ASSUME NamesAssumption ==
  /\ Spellings \subseteq KnownSpellings
  /\ NoPhone \notin Phones
  /\ Phones \cap Addresses = {}

\* _normalize_phone keeps the digits and puts 91 before ten of them; a number
\* spelled with the trunk prefix 0 has eleven and stays as it is.
NormalizeDigitsOnly(number, spelling) ==  \* variant
  CASE spelling = "international" -> <<number, "91">>
    [] spelling \in {"local", "trunk"} -> <<number, "0">>
    [] spelling = "none" -> NoPhone
NormalizePhone(number, spelling) ==
  CASE spelling \in {"local", "international"} -> <<number, "91">>
    [] spelling = "trunk" -> <<number, "0">>
    [] spelling = "none" -> NoPhone

\* A resort has the number of its owner as OpenStreetMap has it, and in the two
\* spellings of Google, of which the national one is preferred.
OsmPhone(resort) == resort.osm
GooglePhone(resort) == IF resort.national # "none" THEN resort.national ELSE resort.international
RawPhone(source, i) == IF source = "osm" THEN OsmPhone(Resorts[i]) ELSE GooglePhone(Resorts[i])

\* The rows of a sync as the importer works on them: the preview normalised the
\* phone, and the address follows from it.
SyncRow(source, i) ==
  LET p == NormalizePhone(Resorts[i].number, RawPhone(source, i))
  IN  [email |-> p, phone |-> p]

ASSUME BatchAssumption ==
  /\ \A b \in SheetBatches : b \in Seq([email : Emails, phone : PhonesOrNone])
  /\ \A b \in SyncBatches : b \in Seq(DOMAIN Resorts)
  /\ \A i \in DOMAIN Resorts :
       Resorts[i] \in [number : Numbers, osm : Spellings, national : Spellings,
                       international : Spellings, at : Int \X Int]
  /\ Radii \subseteq Nat \ {0} /\ PhoneChanges \subseteq Emails \X Phones
  /\ Registrants \subseteq [email : Addresses, phone : Phones, role : {"agent", "manager"}]

VARIABLES
  role,     \* User.role by address, "none" without a row
  phone,    \* User.phone by address
  listed,   \* how many properties each user has from imports
  synced,   \* how many properties the syncs made from each phone number
  preview,  \* what each administrator sees of his last search
  job,      \* where each batch is, and what its transaction holds
  imported, \* history: users that batches inserted
  given     \* history: phones that users gave up

users == <<role, phone>>
others == <<users, listed, synced, preview, imported, given>>
vars == <<others, job>>

\* A batch: its rows and the next one; whether the row at hand inserted its
\* manager (fresh) or makes an agent a manager (lift); the pending rows, that
\* is new managers, raised agents and the row of every new property; and the
\* counters of the answer.
Idle == [at |-> "idle", kind |-> "sheet", rows |-> <<>>, next |-> 1, seen |-> {},
         fresh |-> FALSE, lift |-> FALSE, new |-> {}, raised |-> {}, made |-> <<>>,
         managers |-> 0, properties |-> 0, skipped |-> 0, errors |-> 0]

NoPreview == [source |-> "none", radius |-> 0, failed |-> {}, shown |-> {}]

Init ==
  /\ role = [e \in Emails |-> "none"]
  /\ phone = [e \in Emails |-> NoPhone]
  /\ listed = [e \in Emails |-> 0]
  /\ synced = [p \in Phones |-> 0]
  /\ preview = [j \in Imports |-> NoPreview]
  /\ job = [j \in Imports |-> Idle]
  /\ imported = {} /\ given = {}

Row(j) == job[j].rows[job[j].next]
NewAddresses(j) == {u.email : u \in job[j].new}
NewPhones(j) == {u.phone : u \in job[j].new} \ {NoPhone}

\* What batch j sees: the committed users and its own.
Known(j, e) == role[e] # "none" \/ e \in NewAddresses(j)
PhoneTakenByCommitted(j, p) ==  \* variant
  p # NoPhone /\ \E e \in Emails : phone[e] = p
PhoneTaken(j, p) ==
  p # NoPhone /\ ((\E e \in Emails : phone[e] = p) \/ p \in NewPhones(j))

\* Batches whose open transaction holds what this one is about to write: the
\* address or phone of its new manager, or the agent it raises.
Waits(j) ==
  {k \in Imports \ {j} :
     \/ /\ job[j].at = "manager"
        /\ Row(j).email \in NewAddresses(k) \/ Row(j).phone \in NewPhones(k)
     \/ job[j].at = "property" /\ job[j].lift /\ Row(j).email \in job[k].raised}

Goto(j, at, locals) == job' = [job EXCEPT ![j] = [locals EXCEPT !.at = at]]

\* The row is over and the batch goes to the next one.
RowDone(j, locals) ==
  Goto(j, "row", [locals EXCEPT !.next = @ + 1, !.fresh = FALSE, !.lift = FALSE])

MayStart(j) == job[j].at = "idle" /\ \A e \in Emails : listed[e] < MaxListed

\* osm_preview_resorts and google_preview_resorts: the latter answers as long as
\* one of its calls does.
Search(j, source, radius, failed) ==
  /\ MayStart(j)
  /\ preview' = [preview EXCEPT ![j] =
       [source |-> source, radius |-> radius, failed |-> failed,
        shown |-> IF source = "osm" THEN OsmPreview(radius)
                  ELSE GooglePreview(radius, failed)]]
  /\ UNCHANGED <<users, listed, synced, job, imported, given>>

Start(j, kind, rows) ==
  /\ MayStart(j)
  /\ Goto(j, "row", [Idle EXCEPT !.kind = kind, !.rows = rows])
  /\ preview' = [preview EXCEPT ![j] = NoPreview]
  /\ UNCHANGED <<users, listed, synced, imported, given>>

\* The administrator uploads a sheet, or selects among what his last preview shows
\* him (the importer takes any items; that a client sends only such is assumed).
StartSheet(j, batch) == Start(j, "sheet", batch)
StartSync(j, batch) ==
  /\ \A i \in DOMAIN batch : batch[i] \in preview[j].shown
  /\ Start(j, "sync", [i \in DOMAIN batch |-> SyncRow(preview[j].source, batch[i])])

AtRow(j, kind) ==
  job[j].at = "row" /\ job[j].kind = kind /\ job[j].next <= Len(job[j].rows)

--------------------------------------------------------------------------------
IsNew(j, p) ==
  p # NoPhone /\ p \notin job[j].seen /\ ~ Known(j, p) /\ ~ PhoneTaken(j, p)

\* osm_import_resorts: a row without a phone, with a phone the batch has had, or
\* with one that some user has (by phone or by address) is skipped, ...
SkipSilently(j) ==  \* variant
  LET p == Row(j).phone IN
  /\ AtRow(j, "sync")
  /\ ~ IsNew(j, p)
  /\ RowDone(j, [job[j] EXCEPT !.seen = @ \union ({p} \ {NoPhone})])
  /\ UNCHANGED others

SkipRow(j) ==
  LET p == Row(j).phone IN
  /\ AtRow(j, "sync")
  /\ ~ IsNew(j, p)
  /\ RowDone(j, [job[j] EXCEPT !.skipped = @ + 1, !.seen = @ \union ({p} \ {NoPhone})])
  /\ UNCHANGED others

\* ... and any other gets a manager.
TakeRow(j) ==
  LET p == Row(j).phone IN
  /\ AtRow(j, "sync")
  /\ IsNew(j, p)
  /\ Goto(j, "manager", job[j])
  /\ UNCHANGED others

\* import_properties checks the row (whether it is sound is left open); a known
\* owner is taken as he is, an agent is to become a manager too, ...
RefuseRow(j) ==
  /\ AtRow(j, "sheet")
  /\ RowDone(j, [job[j] EXCEPT !.errors = @ + 1])
  /\ UNCHANGED others

ResolveManager(j) ==
  LET e == Row(j).email IN
  /\ AtRow(j, "sheet")
  /\ Goto(j, IF Known(j, e) THEN "property" ELSE "manager",
          [job[j] EXCEPT !.lift = role[e] = "agent" /\ e \notin job[j].raised])
  /\ UNCHANGED others

\* ... and an unknown one is inserted.  The insert waits for a batch that holds
\* its address or phone and fails when one is taken.  The sync counts the
\* manager and remembers the phone here, before the property is in.
InsertManager(j) ==
  LET row == Row(j)
      sync == job[j].kind = "sync"
  IN
  /\ job[j].at = "manager" /\ Waits(j) = {}
  /\ IF Known(j, row.email) \/ PhoneTaken(j, row.phone)
     THEN RowDone(j, [job[j] EXCEPT !.errors = @ + 1])
     ELSE Goto(j, "property",
            [job[j] EXCEPT !.new = @ \union {row}, !.fresh = TRUE,
                           !.managers = IF sync THEN @ + 1 ELSE @,
                           !.seen = IF sync THEN @ \union {row.phone} ELSE @])
  /\ UNCHANGED others

\* The savepoint ends with the property, ...
InsertProperty(j) ==
  LET counted == job[j].kind = "sheet" /\ job[j].fresh IN
  /\ job[j].at = "property" /\ Waits(j) = {}
  /\ RowDone(j, [job[j] EXCEPT
       !.made = Append(@, Row(j)), !.properties = @ + 1,
       !.raised = IF job[j].lift THEN @ \union {Row(j).email} ELSE @,
       !.managers = IF counted THEN @ + 1 ELSE @])
  /\ UNCHANGED others

\* ... or, when the database refuses it, with everything the row did undone,
\* but for the counter and the phone of the sync.
LeaveManager(j) ==  \* variant
  /\ job[j].at = "property"
  /\ RowDone(j, [job[j] EXCEPT !.errors = @ + 1])
  /\ UNCHANGED others

LosePropertySilently(j) ==  \* variant
  /\ job[j].at = "property"
  /\ RowDone(j, [job[j] EXCEPT !.skipped = @ + 1,
                               !.new = IF job[j].fresh THEN @ \ {Row(j)} ELSE @])
  /\ UNCHANGED others

LoseProperty(j) ==
  /\ job[j].at = "property"
  /\ RowDone(j, [job[j] EXCEPT !.errors = @ + 1,
                               !.new = IF job[j].fresh THEN @ \ {Row(j)} ELSE @])
  /\ UNCHANGED others

\* When batches wait for each other the database fails the row of one.
Deadlocked(j) ==
  \E S \in SUBSET Imports : j \in S /\ \A k \in S : Waits(k) \cap S # {}

RetryRow(j) ==  \* variant
  /\ Deadlocked(j)
  /\ Goto(j, "row", [job[j] EXCEPT !.lift = FALSE])
  /\ UNCHANGED others

BreakDeadlock(j) ==
  /\ Deadlocked(j)
  /\ RowDone(j, [job[j] EXCEPT !.errors = @ + 1])
  /\ UNCHANGED others

--------------------------------------------------------------------------------
\* The batch commits what its rows left, and answers; ...
Commit(j) ==
  LET b == job[j]
      Made(e) == Cardinality({i \in DOMAIN b.made : b.made[i].email = e})
  IN
  /\ b.at = "row" /\ b.next > Len(b.rows)
  /\ role' = [e \in Emails |-> IF e \in NewAddresses(j) THEN "manager"
                              ELSE IF e \in b.raised THEN "both" ELSE role[e]]
  /\ phone' = [e \in Emails |-> IF e \in NewAddresses(j)
                               THEN (CHOOSE u \in b.new : u.email = e).phone ELSE phone[e]]
  /\ listed' = [e \in Emails |-> listed[e] + Made(e)]
  /\ synced' = [p \in Phones |-> synced[p] + (IF b.kind = "sync" THEN Made(p) ELSE 0)]
  /\ imported' = imported \union NewAddresses(j)
  /\ job' = [job EXCEPT ![j] = Idle]
  /\ UNCHANGED <<preview, given>>

\* ... or dies, and all of it is rolled back.
Die(j) ==
  /\ job[j].at # "idle"
  /\ job' = [job EXCEPT ![j] = Idle]
  /\ UNCHANGED others

\* Meanwhile people register, waiting for batches as the batches do for them, ...
FreePhone(p) == (\A e \in Emails : phone[e] # p) /\ \A j \in Imports : p \notin NewPhones(j)

Register(u) ==
  /\ role[u.email] = "none" /\ FreePhone(u.phone)
  /\ \A j \in Imports : u.email \notin NewAddresses(j)
  /\ role' = [role EXCEPT ![u.email] = u.role]
  /\ phone' = [phone EXCEPT ![u.email] = u.phone]
  /\ UNCHANGED <<listed, synced, preview, job, imported, given>>

\* ... and users change their phone (update_me).
UpdatePhone(e, p) ==
  /\ role[e] # "none" /\ FreePhone(p)
  /\ phone' = [phone EXCEPT ![e] = p]
  /\ given' = given \union ({phone[e]} \ {NoPhone})
  /\ UNCHANGED <<role, listed, synced, preview, job, imported>>

Work(j) ==
  \/ SkipRow(j) \/ TakeRow(j)
  \/ RefuseRow(j) \/ ResolveManager(j)
  \/ InsertManager(j) \/ InsertProperty(j) \/ LoseProperty(j) \/ BreakDeadlock(j)
  \/ Commit(j)

Next ==
  \/ \E j \in Imports :
       \/ \E b \in SheetBatches : StartSheet(j, b)
       \/ \E radius \in Radii :
            \/ Search(j, "osm", radius, {})
            \/ \E out \in Outages :
                 /\ TileCentres(radius) \ out # {}
                 /\ Search(j, "google", radius, TileCentres(radius) \intersect out)
       \/ \E b \in SyncBatches : StartSync(j, b)
       \/ Work(j) \/ Die(j)
  \/ \E u \in Registrants : Register(u)
  \/ \E c \in PhoneChanges : UpdatePhone(c[1], c[2])

\* A batch in flight goes on by itself, and a row that waits is served before
\* those that come after it; nobody has to start a batch, or to register.
Spec == Init /\ [][Next]_vars /\ \A j \in Imports : SF_vars(Work(j))

--------------------------------------------------------------------------------
\* The tables are well typed, and no phone belongs to two users.
TypeOK ==
  /\ role \in [Emails -> {"none", "agent", "manager", "both"}]
  /\ phone \in [Emails -> PhonesOrNone]
  /\ \A e, o \in Emails : phone[e] = phone[o] /\ phone[e] # NoPhone => e = o
  /\ listed \in [Emails -> Nat] /\ synced \in [Phones -> Nat]
  /\ imported \in SUBSET Emails /\ given \in SUBSET Phones

\* How the number n of an owner reaches the syncs.
SpellingsOf(n) ==
  {RawPhone(source, i) : source \in {"osm", "google"},
                         i \in {k \in DOMAIN Resorts : Resorts[k].number = n}}

\* An owner who is synced again, in one batch, in a later one or in two at once,
\* gets no second listing (osm_import_resorts: the phone is "a hard unique key"),
\* unless the services spell his very number with the trunk prefix in one place
\* and without it in another.
OneListingPerOwner ==
  /\ \A p \in Phones : synced[p] <= 1
  /\ \A n \in Numbers : synced[<<n, "91">>] > 0 /\ synced[<<n, "0">>] > 0 =>
       "trunk" \in SpellingsOf(n) /\ SpellingsOf(n) \intersect {"local", "international"} # {}

\* No manager is left without the listing he was entered for, whichever row of
\* whichever batch fails or dies (the savepoint of every row).
ImportedManagersList == \A e \in imported : listed[e] > 0

\* What the answer of a batch counts is what the batch did: every row once, no
\* property that was undone, and a manager for every pending user (the sync
\* may count one more for a row that failed).
CountsAreTrue ==
  \A j \in Imports : job[j].at = "row" =>
    LET b == job[j] IN
    /\ b.properties + b.skipped + b.errors = b.next - 1
    /\ b.properties = Len(b.made)
    /\ Cardinality(b.new) <= b.managers
    /\ b.kind = "sheet" \/ b.errors = 0 => b.managers = Cardinality(b.new)

\* When no row of a sync failed, every owner of the batch with a phone is a user
\* at its end, also those it skipped for a row before; unless somebody had his
\* phone and gave it up.
SkippedOwnersAreUsers ==
  \A j \in Imports : job[j].kind = "sync" /\ job[j].errors = 0 =>
    \A i \in 1 .. job[j].next - 1 :
      LET p == job[j].rows[i].phone IN
      p = NoPhone \/ Known(j, p) \/ PhoneTaken(j, p) \/ p \in given

\* A preview hides no resort of the circle it was asked for, as far as the grid
\* reaches, unless the call that covers it failed or had more to answer than it
\* may ("leaves ~30km overlap so the union has no gaps"; "otherwise just continue
\* with whatever tiles succeeded"); and it shows none beyond.
PreviewHidesNothing ==
  \A j \in Imports :
    LET p == preview[j] IN
    /\ p.shown \subseteq Within(p.radius)
    /\ p.source = "osm" /\ p.radius <= OsmMaxRadius => p.shown = Within(p.radius)
    /\ p.source = "google" /\ p.radius <= GridReach =>
         \A i \in Within(p.radius) \ p.shown :
           \E t \in TileCentres(p.radius) :
             Covers(t, i) /\ (t \in p.failed \/ Cardinality(Circle(t)) > MaxResults)

\* Batches that meet on the same owners in opposite orders still end.
BatchesEnd == \A j \in Imports : job[j].at # "idle" ~> job[j].at = "idle"
================================================================================
