# A TLA+ development of the B2CAgent API

The repository is a FastAPI service for a lodging marketplace.  *Agents* hold
*leads*: a customer, his party and the dates of his stay.  A lead is matched with
the *properties* of *managers*; the agent bids, the manager accepts, counters or
rejects; the agent records the customer's payment, the manager confirms it, and
a *booking* lands.  Every handler is an `async` function with one SQLAlchemy
session over PostgreSQL (default isolation, no row locks), beside a Redis for
one-time codes and idempotency keys and an hourly job that expires leads.

This directory models that system, checks it with TLC on small instances and
proves theorems about it, for every instance, with TLAPS.

## 1. Inventory

| Component | Code (under `src/app`) | State | Operations | Correct when |
|---|---|---|---|---|
| Leads | `api/v1/leads.py` | `leads`: status, check-in, check-out | create, update, set status, rematch, list (expires inline) | a closed lead stays closed, an overdue one closes, its bids keep its dates and stay on its page |
| Matching | `services/lead_matching_service.py` | `lead_property_matches` | match (replace), rematch (add) | no match with a bid is lost |
| Bids | `api/v1/leads.py`, `api/v1/bids.py` | `bids`, unique per (lead, property): status, dates, amount, counter, stamps | place, withdraw, accept, reject, counter, accept counter, decline counter, recommend | accepting pauses rivals, giving up frees them, prices keep the floor and freeze |
| Payments and bookings | `api/v1/bid_payments.py`, `api/v1/bookings.py` | `bid_payments` (unique per bid), `bookings` | record, confirm, read invoices | a booking is a confirmed payment, and settles its lead |
| Expiry job | `services/lead_expiry_service.py`, `services/scheduler.py` | none of its own | one sweep, every hour | no overdue lead stays open |
| Quotas | `services/subscription_service.py` | plans and subscriptions | check before a bid, check before an accept | what is new in a month, and what is accepted in it, stays within the plan |
| Listing | `api/v1/properties.py` | `properties`, rooms, amenities, photos, day prices, blocks | create (idempotent), update, publish, set active, close, rooms, photos, blocks, prices | one listing per key, what is published is complete, the gallery has its files and its primary photo |
| Field configuration | `services/field_config_service.py`, `api/v1/admin.py` | `field_configs` | list, hide, show | a hidden field gets no value |
| Notifications, inbox | `services/notification_service.py`, `api/v1/inbox.py` | `notifications`, `bid_messages` | notify and mail at each event, list, count, mark, threads, messages | nothing is read unseen, the inbox has what the mail says, the last word is that of the bid |
| Login | `api/v1/auth.py`, `services/otp_service.py`, `core/security.py` | Redis codes, signed tokens, users | register, send and verify a code | a code is used once, for one session |
| Users and roles | `api/v1/users.py` | `users` | profile, added role, active role, avatar | an active role is held |
| Administration | `api/v1/admin.py` | all | plans, disable, delete, sheet import, resort previews and syncs, templates, field configuration | nobody locks the administrators out alone, imports list every owner once and count what they did, previews hide nothing |
| Outside clients | storage, geocoding, mail, Google, Overpass | none | calls | |

How they interact: a handler reads and writes the shared tables and commits
once or more; there are no locks, so components meet only in the tables.  The
expiry job and every reader of the lead list write leads too.  A rollback of an
accepted bid reaches into other leads' bids (those held behind it).  Quotas are
counts of stamps in the bid table.  The notifications of a decision are rows of the same
transaction, those of a new bid come in a second one, and the mail goes out before
either commits.  An import writes users and properties that registrations and other
imports are writing.

What is hard here:

* **long protocols over few columns** - a bid row lives through offers, counters,
  holds, withdrawals and *re-use*, and keeps its counter, stamps and payment
  across lives; a decision taken in one state is executed in another;
* **effects on other actors' rows** - accept, rollback and confirmation change
  bids of other leads or other properties, selected by date overlap (inclusive at
  both ends) or by lead;
* **two expiries** with the same name, different dates and different effects;
* **time** - monthly quotas, overdue leads, a job that must run;
* **check-then-act without locks** - two confirmations, an accept against an expiry,
  two primary photos, one code used twice, a field hidden after the check, two prices
  of one day;
* **two stores** - a code or a key in Redis and a row in the database, a photo row
  and its file, a mail and its notification;
* **several commits in one handler**, and savepoints in one transaction - a crash
  or a refused row between them.

Where each of these can go wrong is listed, with its lines, under `hazards` in
`PROJECT.json`.

## 2. Modules

| Module | What it is |
|---|---|
| `Marketplace` | leads, matches, bids, payments, bookings, listings, blocks, the expiry job and the calendar: the variables are tables, an action is a handler |
| `PaymentFlow` | abstract specification: every bid goes open, accepted, invoiced, booked, and never back |
| `MarketplaceProperties` | the properties; `Flow == INSTANCE PaymentFlow WITH stage <- ...` |
| `Races` | composes `Marketplace` with a second `INSTANCE` of itself: one request works on an old view of the tables |
| `Quotas` | composes `Marketplace` with a record of the months in which bids were placed and accepted |
| `LeadEdits` | the marketplace with the two transactions of creating and editing a lead told apart |
| `Announcements` | composes `LeadEdits` with what its handlers tell agents |
| `MCMarketplace`, `MCAnnouncements`, `MCRaces`, `MCQuotas` | small instances of them for TLC |
| `MarketplaceProofs` | its theorems: types, settled leads, the refinement of `PaymentFlow`, price, dates, matches, bookings, closed leads, rivals |
| `CompositionProofs` | theorems of `LeadEdits`, `Announcements`, `Races` and `Quotas`, on top of those of the marketplace |
| `OptimalBids`, `OptimalBidsProofs` | the dynamic program that recommends a set of bids, a step for each turn of its loops |
| `PropertyPhotos`, `MCPropertyPhotos`, `PropertyPhotosProofs` | the photo requests of a property, cut at their awaits, side by side and failing |
| `Listing`, `MCListing`, `ListingProofs` | a listing from its idempotent creation through publication, edits, hidden fields and day prices, cut at the awaits |
| `Accounts`, `MCAccounts`, `AccountsProofs` | users, login codes, sessions, roles and administrators, cut at the awaits |
| `Inbox`, `MCInbox`, `InboxProofs` | notifications, mail, messages and their marks, cut at the awaits |
| `ResortSearch` | the preview of resorts on a map: tiles, calls, merged answers |
| `Onboarding`, `MCOnboarding`, `OnboardingProofs` | sheet imports and resort syncs as transactions with savepoints, chosen from a preview of `ResortSearch` |

### 2.1 `Marketplace` and the code

A variable is a column, with the name of the column.  A bid row is named by its
lead and property because of the unique constraint on `(lead_id, property_id)`:
`bidStatus[<<l, p>>] = "none"` says that there is no row.  Dates are days numbered
from 1, and 0 is NULL.  Amounts are the members of a small set of numbers; the
comparisons with the rate are kept.  `bookings` is the set of active bookings (no
handler cancels one).

An action is a whole handler, from its first read to its last commit, with its
notifications left to `Announcements` and `Inbox`.  Its guards are the `4xx` exits of the handler; a request
that is refused is a stuttering step.  Notable correspondences:

* `CreateLead` and `UpdateLead` contain the matching they call, which the code commits
  in a second transaction (`LeadEdits` parts the two); `Candidates` keeps
  the matcher's exclusions (status, accepted bids, bookings, blocks), and its
  capacity test and score are the constant relation `Fits`.
* `PlaceBid` re-uses a withdrawn row: amount, dates and status are overwritten,
  counter, payment, `created_at` and `accepted_at` are not.
* `AcceptBid` and `AcceptCounter` share `AcceptFlow`: the stamp, the lead won, the
  overlapping *pending* bids of the property on hold.  `AcceptBid` leaves the
  counter alone; `AcceptCounter` checks no quota.
* `RollBackAcceptedBid` is what withdrawing and rejecting an accepted, unpaid bid
  have in common (`_revive_held_bids`, `_revert_lead_to_active`).
* `DeclineCounter` asks only that a counter is set, as the code does.
* `ConfirmBidPayment` asks only that the payment is initiated; it makes the
  booking unless the bid has one, and rejects the other live bids of the lead.
* `UpdateProperty` is the PATCH, which may write any status and any rate at any
  time; `lowestRate` is a history variable that remembers the least rate.
* `ListLeads` is the expiry that reading leads performs (by check-out, bids left
  alone); `ExpireOverdueLeads` is the job (by check-in, bids withdrawn).
* `Publish` leaves open whether the draft has its rates, photo and room (`Listing`
  has them).
* `LeadProperties` is the page of a lead: its matches, hidden ones included.  An edit
  deletes the matches and makes new ones, a rematch only adds.
* `Tick` lets a day pass.

Two modules refine the picture at one place each.  `Quotas` adds a record of what the
limits are about: in which months each bid was *placed* and *accepted by its manager*.
The handlers have no such record; they count the rows whose `created_at` or
`accepted_at` is of this month (`BidsThisMonth`, `AcceptsThisMonth`), and a row taken up
again keeps its `created_at`.  `LeadEdits` has `NewLead` and `EditLead`, which commit the
lead, and `ReplaceMatches`, which deletes and makes its matches later, for the dates its
request knows; anything may come between, another edit and the end of the request
(`BreakOff`) included; `MaxEdits` bounds how many edits are between the two at once.
The other handlers are those of `Marketplace`, and `early` is a history of the bids
placed between the two.

### 2.2 `OptimalBids` and the code

`optimal_property_bids` reads the pending bids of a property once, ordered by
check-out, and then computes alone: a sequential program.  `bids` is what the query
returned (any order of ties), `prev`, `best` and `take` are the lists of the code, and
the three loops are `FindPrevious`, `Weigh` and `Choose`, one turn a step; the inner
search of the first loop is what it finds.  Indices are shifted by one.

### 2.3 `PropertyPhotos` and the code

Uploading, deleting and choosing the primary photo each take several awaits, and
between two of them anything may happen: another request, or the end of this one.
`request[r]` is the place where request `r` waits and the locals it carries there, so
a decision read before an await is used after it.  `rows`, `primary` and `order` are
the table, `files` the photo store, `drawn` the keys in use.  `history` remembers
whether requests have overlapped, failed or deleted, for the properties that are
promised only without.  `SetPrimary` is one step because its first statement locks
every row of the gallery until the commit.

### 2.4 `Races` and the code

A handler reads its rows, decides, and commits; nothing is locked and no version is
compared.  `Races` says what that means for the handlers of `Marketplace` without
writing them again: `View == INSTANCE Marketplace` runs a handler on the copies of the
tables that a slow request took at `Begin`, while the handlers of others go on in
one step, and `Commit` writes *the difference* between the view before and after, cell
by cell (the unit of work of SQLAlchemy updates the columns that changed) and row by
row for sets of rows.  Where a table has a unique constraint, a conflicting insert
fails.  Nine handlers may be slow; after one slow commit the others go on.  `culprit`
remembers which it was.  The whole view is taken at one point and the other requests
are atomic: of the races of two requests this has those in which one is overtaken.

A race does harm when a handler writes what it decides on, or decides on what another
writes.  `DatesPartOnlyFromOldRows` lists, for the dates of a bid and its lead, what
that comes to: the offer that copies dates that are being edited, the edit that does not
see an offer, and the acceptance (or its end, which revives rivals) that writes a status
over a withdrawal, whose lead was free to be edited.

### 2.5 `Announcements` and `Inbox` and the code

Two questions about one service.  `Announcements` asks *what* an agent is told: each
action joins a handler of the marketplace with the helpers it calls, and `agentWord` is
the newest notification about each bid.  `Inbox` asks *how* it arrives: `place_bid`
commits the bid and reports it in a second transaction, later handlers do both in one,
`_email` goes out first and swallows its errors; and how it is read: marks one by one or
for all those of the present role, and threads whose messages are marked by opening them: `StartOpen` reads the thread,
`MarkOpened` commits the marks, `Answer` shows it, and a request may `Die` before each.  `Decide` leaves open
which decision a handler takes.

### 2.6 `Accounts` and the code

`request[r]` is where a request waits and what it carries: the user, the code it was
given, the role it will store, whether the user was unverified when he was loaded.
`VerifyCode`, `ReadCode`, `DeleteCode`, `StoreVerified`, `IssueToken` are `otp_verify`
between its awaits; a send replaces the code in between, `Fail` ends a request
anywhere.  A commit writes the columns the request changed.  `MayAdminister` is whom
the dependency of the admin routes lets through, accounts with both roles included
(section 5); a request to disable, enable or delete carries its sender in `by`.  `drawn`,
`spent`, `opened`, `welcomes` and `overlapped` are histories.

### 2.7 `Listing` and the code

`create_property` looks the key up in Redis, checks the fields against the
configuration, commits the draft and then saves the key; a request can die between any
two.  `publish_property` reads status and rates, counts photos, counts rooms and
commits.  `update_property` checks and writes one field, of which there are four kinds.
`upsert_day_price` writes the columns that differ from the row it read: `Written`.
`disturbed`, `loosened`, `raced` and the `late` of a request remember who was overtaken,
for properties that are promised only to those who were not.

### 2.8 `ResortSearch`, `Onboarding` and the code

A batch is a transaction, a row of it a savepoint: `made`, `new` and `raised` are pending
until `Commit`, a row that is refused takes back its own part, a batch that dies all of
it.  An insert waits for the transaction that holds the same address or phone
(`Waits`), which is what PostgreSQL does with unique columns; when they wait in a circle,
it fails one row.  Differences between the two importers are kept: the sync counts its
manager and remembers the phone before the property is in, the sheet after.

A sync takes its rows from what the administrator was shown (the importer would take
any).  `RawPhone` is how a service spells a number and `NormalizePhone` what becomes of
it: Google's national number, preferred to the international one, keeps its trunk 0 and
is another phone than the same number without.  `ResortSearch` computes
that on a flat map: the half width of the grid, the tiles, what each call answers (the
first `MaxResults` of its circle) and the cut at the radius.  The degrees of the code
are taken at the latitude of the centre; further from it a degree of longitude has a
slightly different length, which the flat map leaves out.

### 2.9 Variants

Definitions marked *variant* sit above the definition they are a faulty version
of.  The specification does not use them; putting one in the place of the
original makes the property listed with it under `mutants` fail, which is how we
know that the property depends on that piece of code.

## 3. What is checked

Deadlock is not checked: when every lead is closed and the bounded calendar has ended,
when the recommendation is replied, when ids, codes, notes or requests are used up,
nothing has to happen.

| Run | Instance | Shows |
|---|---|---|
| `negotiation` | 1 lead, 2 properties, two touching stays, rates 1 to 3, one property under PATCH | `BookedLeadIsSettled`: once a lead has a booking its only live bid, if any, is the booked one; `OnlyOldPaymentsBookAgain`: after that no payment is recorded for another bid of it, and only one that was invoiced before and lost, or was withdrawn, can still be booked; `BookingFollowsBid`, `NoDealBelowFloor`, and that the marketplace implements `PaymentFlow` |
| `rivals` | 2 leads, 1 property, two touching stays, edits in two transactions, with announcements | `UnlistedBidsWereEarly`: a bid that was not withdrawn is on the page of its lead unless it was placed between the two transactions of an edit; `LiveBidsKeepLeadDates`, `AcceptPausesRivals`, `RollbackFreesLeadAndRivals`; `LastWordIsTrue`: an agent's newest notification about an accepted, held or rejected bid says so, also when it was decided for the sake of another |
| `calendar` | 2 leads, 1 property with a changing listing, 3 days, months of 2 days, plans of 1 | `NewBidsWithinPlan`: of the bids an agent places in a month no more than his plan allows are new, what he withdrew included, and the rest are bids of earlier months taken up again; `AcceptancesWithinPlan`: a manager accepts no more than his plan allows, also when acceptances are given up and made anew; `ClosedLeadStaysClosed`, and under fairness `OverdueLeadsExpire` |
| `races` | 1 lead, 2 properties, nine handlers of which one is overtaken by up to two commits | `BookedIffConfirmed` survives every race; `DatesPartOnlyFromOldRows`: a live bid comes to have other dates than its lead only by an offer, an edit, or an acceptance or rollback that decided on rows changed meanwhile; `ClosedLeadReturnsOnlyFromOldRows`: a closed lead returns only by an acceptance or a rollback that read it earlier |
| `optimal` | every sorted list of up to 4 bids on 5 days worth 2 or 5 | `RecommendedBidsFit`: no two recommended bids share a day, so accepting one holds no other; `RecommendationIsBest`: the total is their worth and no set that fits is worth more |
| `photos` | 3 photos, 3 requests, symmetric in both | `RowsHaveFiles` and `UndeletedHasPrimary` under overlap and failure, `NoStrayFiles` under overlap, `OnePrimary` for requests one after the other |
| `listing` | 2 managers, 1 key, 1 field, 2 prices, 2 requests, 4 starts, 2 properties | `OneListingPerKey` under retries, crashes and expiry, `PublishedIsComplete`, `HiddenFieldsStayUnset`, `DayPriceKeepsFloor` |
| `accounts` | the seeded administrator and a user, 2 codes, 2 requests | `SpentCodeIsDead` always; `VerifiedOnce`, one session for a code and one welcome for a user, unless two verifications overlap; `ActiveRoleIsHeld`; `LastAdministratorFallsLate`: the last who may administer goes only by a request whose sender might when he sent it and may no longer |
| `inbox` | 1 bid, an agent who also manages, a manager, 2 requests, 3 notifications, 1 message | `ReadMessagesWereShown`: a message is read only when it was answered to its addressee, or his request, having marked it, is still to answer or died before; `NothingMarkedBlindly`, `InboxKeepsUpWithMail` |
| `onboarding` | 2 batches, 2 owners who own five resorts, one number with and without a trunk 0, a sheet and 2 syncs, a registration, a changed phone, previews with and without a failing call | `OneListingPerOwner`: no phone is listed twice, and no owner unless the services spell his number with the trunk 0 in one place and without it in another; `ImportedManagersList`, `CountsAreTrue`, `SkippedOwnersAreUsers`, `PreviewHidesNothing`, and `BatchesEnd` |

The type invariants, `AgreedPriceIsFrozen`, `LiveBidsStayListed` (of handlers in one
step), and the floor and the payment flow under races (`RacesRespectFloor`,
`RacesRefinePaymentFlow`) are theorems and are not run again; that of `Onboarding` says
that no phone belongs to two users.  Two more runs exhibit disagreements with the
documentation; see section 5.

**Bounds.**  `Horizon` ends the calendar; three days with months of two days and a
stay from day 1 to 2 contain an overdue lead by either rule and a change of month, and
with plans of one bid a bid withdrawn and placed again in either month; `calendar` has
one rate and so no counters, which the theorems about plans cover.  In `rivals` one edit
at a time is between its transactions; `EditInvariant` covers any number.
`negotiation` stays on the first day without blocks, when nothing expires and no block is
deleted (`NextToday`); those steps are all taken in `calendar`.
`Managed` names the properties whose listing changes and `NewRates`, `BlockRanges`
what their manager may write; elsewhere the listing is active from the start.
Two properties per lead are needed for a booking that displaces another bid, two
leads per property for an accepted bid with a rival, two stays that share only
one day for the inclusive overlap, and three rates for an offer at the floor, one
above it and a counter.  Requests are not bounded there: rows are re-used for ever and
the state space is still finite.

Four bids on five days contain a chain, a bid that overlaps two others and ties in the
order; two short bids at 2 lose to a long one at 5, and at 5 they beat it.  Three
photos and three requests contain a deletion that promotes the next photo while
that one is deleted or another is uploaded, and two deletions of one photo.

`MaxBetween` lets two commits come between the reads and the commit of the slow request:
one makes each of its decisions stale, two also set back what the first has done (a
payment that is recorded and confirmed, a bid that is withdrawn and the lead edited).  Four starts (`MaxStarts`) hold a
create, its retry, an edit and what overtakes it.  Two codes and two requests hold a
code that is replaced while it is verified and one that is verified twice.  Three
notifications and two requests hold a notification that arrives while others are marked.
`MaxListed` ends the batches; the two owners are met in both orders, one of them by all
three batches and in both spellings, and the map has three resorts in one circle of
which two are answered, and one behind the first ring of tiles.

**Fairness.**  `FairSpec` assumes weak fairness of the expiry job only: under
uvicorn `services/scheduler.py` runs it every hour, for ever, and catches what it
raises.  No person is obliged to act and days need not pass.  Under Passenger
(`passenger_wsgi.py`) the startup event that starts the scheduler does not run, and
`OverdueLeadsExpire` does not hold there.

`Onboarding` assumes strong fairness of the work of a batch in flight: it is one request
that goes on by itself, and what can hold it up for a while, again and again, is a
transaction that holds an address or phone; PostgreSQL serves those who wait for it in
the order they came.  Nobody has to start a batch.

## 4. What is proved

Every invariant that a passing run checks is a theorem, and so is every action property
and the refinement.  The two liveness properties stay with TLC; of `BatchesEnd` its variant
and its progress condition are proved.

The theorems of the marketplace, and of the four modules that compose it, are
about any sets of leads, properties and users, any rates and limits, under the
assumptions named in `Marketplace`: stays and blocks are ordered date ranges that start
after day 0, amounts bid are positive, rates natural, `Managed` a set of properties.  In
`Races` the slow request may be overtaken by any number of commits.  Those of the
recommendation hold for any list of bids on whole-numbered days with natural amounts,
those of the gallery for any photos and requests, those of accounts, inbox and listings
for any users, codes, bids, keys, fields, prices and requests in flight.  Those of the
imports hold for any number of batches with any rows, any registrations and changed
phones, those of the previews for any map, radius and failure.  No theorem has an
assumption of its own.

| Theorem | Module | Statement |
|---|---|---|
| `TypeCorrect` | `MarketplaceProofs` | `Spec => []TypeOK` |
| `SettledLeads` | | `Spec => []BookedLeadIsSettled` |
| `RefinesPaymentFlow` | | `Spec => ImplementsPaymentFlow` |
| `DealsRespectFloor`, `BookingsFollowBids` | | `Spec => []NoDealBelowFloor`, `Spec => []BookingFollowsBid` |
| `BidsKeepLeadDates`, `BidsStayListed` | | `Spec => []LiveBidsKeepLeadDates`, `Spec => []LiveBidsStayListed` |
| `LaterBookingsAreOld` | | `Spec => OnlyOldPaymentsBookAgain` |
| `ClosedLeads`, `FrozenPrices`, `AcceptsPauseRivals`, `RollbacksFree` | | `Spec =>` `ClosedLeadStaysClosed`, `AgreedPriceIsFrozen`, `AcceptPausesRivals`, `RollbackFreesLeadAndRivals` |
| `EarlyBidsGetLost`, `EditsRespectBids` | `CompositionProofs` | `SpecE => []` of `UnlistedBidsWereEarly`, `LiveBidsKeepLeadDates` |
| `EditsPauseRivals`, `EditsFreeRivals` | | `SpecE =>` `AcceptPausesRivals`, `RollbackFreesLeadAndRivals` |
| `WordsAreTrue` | | `SpecA => []LastWordIsTrue` |
| `RowsInOrder` | | `SpecR => []RaceInv` |
| `BookedStaysConfirmed`, `RacesRespectFloor` | | `SpecR => []` of `BookedIffConfirmed`, `NoDealBelowFloor` |
| `DatesPartFromOldRows`, `ClosedUnlessStale` | | `SpecR =>` `DatesPartOnlyFromOldRows`, `ClosedLeadReturnsOnlyFromOldRows` |
| `RacesRefinePaymentFlow` | | `SpecR => ImplementsPaymentFlow` |
| `NewBidsKeepPlan`, `AcceptancesKeepPlan` | | `SpecQ => []` of `NewBidsWithinPlan`, `AcceptancesWithinPlan` |
| `RecommendedBidsAlwaysFit`, `TotalIsAlwaysBest`, `RecommendationIsAlwaysBest` | `OptimalBidsProofs` | `Spec => []` of `RecommendedBidsFit`, `TotalIsBest`, `RecommendationIsBest` |
| `TurnsRunOut` | | the inner search finds a bid or that there is none, and every turn leaves fewer turns |
| `TypesAlwaysOK`, `RowsAlwaysHaveFiles`, `FilesNeverStray`, `OnePrimaryPhoto`, `UndeletedAlwaysHasPrimary` | `PropertyPhotosProofs` | `Spec => []` of `TypeOK`, `RowsHaveFiles`, `NoStrayFiles`, `OnePrimary`, `UndeletedHasPrimary` |
| `ListingsTyped`, `KeysMakeOneListing`, `PublishedAreComplete`, `DayPricesKeepFloor` | `ListingProofs` | `Spec => []` of `TypeOK`, `OneListingPerKey`, `PublishedIsComplete`, `DayPriceKeepsFloor` |
| `HiddenFieldsAreRefused` | | `Spec => HiddenFieldsStayUnset` |
| `TypesAlwaysOK`, `ActiveRolesAreHeld`, `SpentCodesAreDead`, `CodesOpenOnce` | `AccountsProofs` | `Spec => []` of `TypeOK`, `ActiveRoleIsHeld`, `SpentCodeIsDead`, `VerifiedOnce` |
| `AdministratorsFallLate` | | `Spec => LastAdministratorFallsLate` |
| `TypesAlwaysOK`, `ReadMessagesAreShown`, `MarksAreAskedFor`, `InboxKeepsUp` | `InboxProofs` | `Spec => []` of `TypeOK`, `ReadMessagesWereShown`, `NothingMarkedBlindly`, `InboxKeepsUpWithMail` |
| `TilesHaveNoGaps` | `OnboardingProofs` | every point of a circle within `GridReach` is in the circle of some tile |
| `PreviewsHideNothing` | | `Spec => []PreviewHidesNothing` |
| `PhonesBelongToOne`, `ImportsLeaveListings`, `AnswersAreTrue`, `SkippedOwnersStay` | | `Spec => []` of `TypeOK`, `ImportedManagersList`, `CountsAreTrue`, `SkippedOwnersAreUsers` |
| `OwnersListOnce` | | `Spec => []OneListingPerOwner` |
| `PhonesListOnce` | | all syncs together list a phone at most once, however it is spelled |
| `BatchesRunOut` | | every step of a batch in flight leaves it fewer steps (`StepsLeft`) |
| `SomeBatchGoesOn` | | of the batches in flight, one is between rows, waits for nobody or is deadlocked, which the database ends |

The arguments:

* `TypeOK` is inductive, one lemma for each group of actions.
* `BookedLeadIsSettled` is inductive given types: only `PlaceBid` brings a bid to
  life (`QuietStep` says so of all other actions), and it looks for a booking
  first; only `ConfirmBidPayment` makes a booking, and it rejects the others.
* Settled leads do not exclude a second booking, which is the finding `two_bookings`:
  an invoice outlives the rejection of its bid.  `LaterBookingsAreOld` says that this
  is the only way to one: only an accepted bid is invoiced, and on a booked lead no
  other bid is live (`NextOldPayments`).
* The refinement needs `FlowInv`, which relates the three columns the stage is
  read from: a payment has an accepted stamp, an accepted bid has one, and a
  booking has a confirmed payment.  Without it a re-used row could be open again.
* `NoDealBelowFloor` alone is not inductive: the amounts not yet paid have to be
  above the floor too, those of counters included, and a row that was never a bid
  has no payment.  `PriceInv` adds these, and that the least rate is below the
  present one.
* `LiveBidsKeepLeadDates` alone is not inductive: a lead could be created under an
  existing bid, and a booked bid re-opened with new dates.  `DatesInv` adds that
  the lead of a bid exists and that bookings have the dates of their bids.  That bids
  stay listed is part of it, because an edit, which makes the matches anew, is refused
  by the same bids that forbid new dates.
* The quotas speak of a record and the handlers of stamps; `QuotaInv` relates the two.  A
  bid was placed in the month of its `created_at` and never before, so what is new in a
  month is among the rows created in it; it was not accepted after the month of its
  `accepted_at`, which a rollback leaves, so what was accepted in a month is among the
  rows stamped in it or was stamped again later.  That stamps are not after today and
  months follow days makes a new month start empty, and that the stamped rows are
  finitely many lets one bid count one.
* With the edits in two transactions, `EditInv` adds that while matches are still to be
  replaced every bid of the lead that was not withdrawn is an early one: the first
  transaction wants none there, and what is placed later is remembered.  So the second
  transaction drops the matches of early bids only, whatever dates it works on.
* `LastWordIsTrue` is inductive given types, because a step that is silent decides no
  bid (`SilentDecidesNothing`) and bookings remain.
* Races: an old view is worth something because rows move one way (`Forward`): what
  exists goes on existing, a confirmed payment stays confirmed, an accepted stamp stays,
  the least rate only falls.  `OldRows` says that the view is an earlier state of the
  tables in this order, and `RaceInv` that the tables keep types, `FlowInv` and
  `PriceInv` also after the commit: a cell is either the present one or what the handler
  made of the view (`CellsMerged`).  From it follow the floor, the bookings and, stage by
  stage, the refinement.
  The other invariants of the marketplace are not in `RaceInv` because races do break
  them.  For the dates, `RaceDates` says that they are in order until the slow request
  commits, and `DatesPartFromOldRows` goes through what its commit may have written.
* The dynamic program is proved by its loop invariant `IInv`: what `prev` holds for
  the bids already searched, what `best` holds for the prefixes already weighed, and
  that the worth of the bids chosen plus the best of the prefix still to walk is the
  total.  That `best` bounds every set that fits is part of the invariant, so a turn
  of the loop is the induction step and no induction over lists is needed.
  `NothingBetween` is the heart: of a set that fits, a bid has no companion between
  the one `prev` names and itself.
* `TotalIsBest` speaks of any table `worth` that adds the amounts of a set up bid by bid
  (`Adds`), so the invariant never mentions a sum.  `RecommendationIsBest` says the same
  of the sum itself, a fold over the set.  What a fold is, is an induction over finite
  sets, and the induction theorems of the library take an operator; but a proper subset
  is a well-founded relation, so a set of counterexamples has a smallest member
  (`SmallestSet`), and that is a set like any other.  With it the table that the fold
  chooses exists (`FoldIsDefined`) and any two tables agree where both are defined
  (`FoldsAgree`), from which adding a bid adds its amount (`WorthOfPick`, `WorthOfOne`,
  `RunningAdds`).
* The loops end because `TurnsLeft` falls with every turn, by the indices of the three
  loops; the inner search finds what it looks for because of finitely many bids that end
  before another starts one is the last (`SearchFinds`).
* The gallery needs to know where each file is owned: an upload holds its own file
  before its row exists (`UploadsOwnFiles`), a delete erases only after its row is
  gone (`ErasedLast`), and a file without a row is in the hands of a request
  (`FilesInHand`).  For the primary photo, an upload that saw no rows and decided
  to be primary is the only way to the first row (`FirstIsPrimary`).  One request after
  the other, `OneByOne` says that what it has read is still so, and that the gallery has
  its primary photo except between a deletion and its promotion (`Orphaned`).
* An active role is held because a request may only carry, and a row only have, a role
  that is held or was (`RolesInv`), and the roles of a row only grow (`RolesGrow`).
  `SpentCodeIsDead` needs `CodesInv`: a code is drawn once, so it is stored for one user
  at most, and what a verification has matched can only be stored for its own user.
  `VerifiedOnce` needs that a verification past its match holds a code that opened
  nothing yet (`Proceeds`), which is so while it is alone (`AloneInv`).  The sender of an
  administrative request is not the user it is about (`SentInv`), so if he still may
  administer when it commits he remains (`AdministratorsKept`).
* A message is read only when shown because whoever has a thread open takes part in it
  and has read messages of no other thread (`ShownInv`); what it has marked it answers, or
  dies and is remembered.  Marks are asked for because what a request is about to mark
  was (`AskedInv`).  The inbox keeps up with the mail because
  whatever was mailed was heard of or has a request that is about to write it
  (`NewsInv`).
* One listing per key: while a key is undisturbed one request uses it, it has seen that
  Redis knows no property of its manager, and Redis knows every property made under the
  key but the one whose request is about to save it (`KeysInv`).  What a publication has
  counted is still there (`PublishInv`); an upsert that is alone finds the row it read,
  or none (`PriceInv`); a request that is not late has looked at the fields hidden now
  (`HiddenInv`).
* The tiles have no gaps because along each axis some tile is within half a spacing
  (`TileAlongAxis`, the rounding), and 2 * 35^2 <= 50^2.  A preview then misses a
  resort only if the call of that tile failed or had more to answer (`LimitHides`).
* The batches have two invariants.  `BatchInv` is what holds of a batch whatever the
  others do: its counters are right between and within rows, every pending user has a
  property but the one at hand, a sync names owners by their phones and makes one
  property for each new one; there is a lemma for each step of a row.  `Inv` relates
  batches to users: nobody else has the address or the phone of a pending user, in the
  table or in another batch (`PendingInv`).  `CountsAreTrue` alone is not inductive
  because the sheet counts a manager only with his property; `ImportedManagersList` needs
  that a new user has a property at the commit.
* An owner a sync has gone over stays met (`SeenInv`): users stay users, and a phone
  leaves the table only by being given up.  A phone is listed once (`ListedInv`) because a
  listing by a sync comes with a new user under that number, and is the first; an owner
  is once for each normal form of his spellings (`OwnersInv`, `Mapped`).
* A batch has at most three steps for every row to come and those left of the one at hand
  (`StepsLeft`); every step ends the row or moves on in it (`Onward`), and none begins a
  batch anew (`OnlyIdleStarts`).  Whoever a batch waits for holds something, and one that
  has ended holds nothing (`PlaceInv`): so if all in flight wait, they wait for each other,
  which is the deadlock that `BreakDeadlock` resolves.  With the fairness of section 3 the
  two give `BatchesEnd`; the step from the guards to ENABLED and fairness is left to TLC.

Model-checked only:

* `OverdueLeadsExpire` and `BatchesEnd`: liveness under fairness needs ENABLED, which is
  out of the prover's reach.
* The two runs of section 5, which are counterexamples.

## 5. Where documentation and handlers part

Two runs end in a counterexample, and each is a finding.

| Run | Documented | What happens |
|---|---|---|
| `two_bookings` | once a booking lands no other manager can take the lead (`bid_payments.py:262`) | two accepted bids of a lead both have payments; confirming the first rejects the second, confirming the second books it all the same (there is no other way to a second booking, `LaterBookingsAreOld`) |
| `day_rates` | `b2c_rate must be at least the b2b_rate floor` (`schemas/property.py:68`) | a day has 2/3; one request writes 2/2 and one 3/3 at once, each changes the one column that differs, and the day has 3/2 |

Noted while reading, and not made runs.  In the marketplace:

* "agents count bids they've placed this month" (`subscription_service.py:165`), but a
  withdrawn bid of an earlier month that is placed again keeps its `created_at` and is not
  counted (`leads.py:558`): with one bid a month an agent who withdrew one last month
  places it again and a new one.  Nothing else goes beyond a plan (`NewBidsKeepPlan`), and
  so `NewBidsWithinPlan` speaks of new bids;
* a bid is on hold "while another overlapping bid is in the accept-payment flow"
  (`models/enums.py:22`), but a bid placed *after* the accept is pending and can be
  accepted too; and a held bid "moves to rejected once the booking lands", but the
  booking rejects only bids of its own lead (`bid_payments.py:265`), so those of other
  leads, also those behind accepted bids it rejects, stay on hold;
* expiring a lead withdraws its open bids (`lead_expiry_service.py:7`), but reading
  leads expires them without (`lead_matching_service.py:160`), and the job then skips them;
* a counter is answered while "the bid stays pending" (`models/bid.py:68`), but accept
  and reject leave it, and declining it later withdraws an accepted, paid or rejected
  bid (`bids.py:802`);
* "confirming twice should not double-book" (`bid_payments.py:229`), but two confirmations
  at once both find no booking and insert one each; `bookings` is a set here, so the two
  equal rows are one;
* `accept_counter_endpoint` does not check the manager's quota that `accept_bid` checks;
  two bids at once can pass the agent's quota by one;
* a rollback makes a lead active although another of its bids is accepted; the module
  docstring of `bids.py` and a test still call accepting "auto-rejecting";
* an edit of a lead makes its matches anew and forgets which were hidden; a crash
  between the commit of a new lead and its matches leaves it without, and a bid placed
  between the two transactions of an edit vanishes from the page of its lead, unless its
  property is matched again (`UnlistedBidsWereEarly`; a rematch repairs both);
* a race can leave a live bid on other dates than its lead, and an accepted bid on a lead
  that was closed meanwhile (`DatesPartOnlyFromOldRows`, `ClosedLeadReturnsOnlyFromOldRows`);
* invoices are computed from the rate the property has when they are mailed, shown and
  printed.

Elsewhere:

* gallery: two first uploads side by side both become primary; deleting the primary
  photo beside an upload can leave a gallery without one; when the store fails after the
  row is deleted, the file stays and no photo is promoted;
* listing: the update of least and most guests is compared only within one payload; the
  floor of `place_bid` does not look at day prices; the seeding of the field
  configuration can run twice at once, of which one fails;
* inbox: `list_messages` commits the marks before it answers, so what a dying request has
  marked is read, and shown, as read, only the next time the thread is opened;
* badge: it has the "same fallback as the list endpoint" (`inbox.py:90`), but the badge
  falls back on both roles when nothing *unread* is for the present one, the list when
  nothing at all is, so the badge of a user with both roles may count what the list
  behind it does not show;
* the role check: "`require_role(super_admin)` still needs an exact match"
  (`security.py:140`), but the exception for accounts with both roles is made whatever
  role is asked for, and they pass; `MayAdminister` says who passes, so
  `LastAdministratorFallsLate` counts them among those who may administer;
* administrators: two who disable or delete each other at once leave none;
* imports: the docstring "prevents duplicate listings for the same owner from repeat
  syncs" (`admin.py:825`), but OpenStreetMap spells a number without the trunk 0 and
  Google's national number has it, so a sync from the other makes a second manager and
  listing (there is no other way to one, `OwnersListOnce`); `manager_exists` of a preview
  looks for the address only, while its comment says by phone (`admin.py:663`);
  a preview accepts radii beyond what its grid reaches (245 km), and more than 20 places
  in one circle are lost without a word.

## 6. Not modelled, and why

Text, layout and mail (templates, shells, invoice and checkout pages) have no protocol.
Pages that only read are modelled where something depends on them.  Storage, geocoding,
Google and Overpass are external; the catalog is a table in the code.  Schemas validate
inputs and are folded into the sets inputs are taken from.  `auth_service.py` and
`google_oauth.py` are reached by no route.  Hiding a match changes nothing but the flag
the page shows.  Amenities, avatars, names and the administrators' changes of plans are
single writes that no other handler's decision depends on, except that a plan is a limit:
limits are constants here.  Deleting a user cascades to his properties, leads and bids,
which `Accounts` leaves out and `Marketplace` does not offer (in `Listing` the key of a
listing deleted so is one whose property is gone, and the create begins anew as when
the key has expired).  Notifications that a chat message has landed are in `Inbox` and
not among the words of `Announcements`.  A client of the importer sends what its last
preview showed; the code would take other items.  Tokens do not expire in
`Accounts`.

## 7. What is left

1. Limits that change: the quota properties under changes of plan.
2. The cascade of a deleted user, with bids and bookings of others on his rows.
3. Two slow requests at once: `Races` has one, beside handlers that are atomic.
