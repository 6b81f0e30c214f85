---------------------------- MODULE PropertyPhotos -----------------------------
(***************************************************************************)
(* The photos of one property: rows in the database and files in the photo *)
(* store, changed by requests that run side by side.  A request is cut at  *)
(* every await that reads, writes or commits: PostgreSQL commits each      *)
(* statement group on its own and a read sees what is committed then.      *)
(* A request can also die between two of its steps, by a crash of the      *)
(* worker or an error of the store or the database.                        *)
(***************************************************************************)
EXTENDS Integers

CONSTANTS
  Photos,     \* photo ids: each upload draws a new one for its row and file
  Requests,   \* the requests that can be in flight at once
  NoPhoto     \* stands for the photo of an idle request

ASSUME NoPhotoAssumption == NoPhoto \notin Photos

VARIABLES
  rows,       \* the photos the database has a row of
  primary,    \* those of them with is_primary set
  order,      \* the sort_order of each row, 0 without a row
  files,      \* the photos the store holds
  drawn,      \* the ids drawn so far
  request,    \* where each request is, and the locals it carries
  history     \* history variable: what has happened to the gallery so far

vars == <<rows, primary, order, files, drawn, request, history>>

Uploading == {"stored", "ordered", "counted"}
Deleting == {"found", "deleted", "erased"}
Steps == {"idle", "promoting", "choosing"} \union Uploading \union Deleting
Events == {"overlap", "failure", "delete"}

\* The is_primary of a photo as a request carries it.
Marks == {"primary", "plain"}
Mark(isPrimary) == IF isPrimary THEN "primary" ELSE "plain"

Request == [at : Steps, photo : Photos \union {NoPhoto}, order : Nat, mark : Marks]
Idle == [at |-> "idle", photo |-> NoPhoto, order |-> 0, mark |-> "plain"]

Init ==
  /\ rows = {} /\ primary = {} /\ files = {} /\ drawn = {}
  /\ order = [p \in Photos |-> 0]
  /\ request = [r \in Requests |-> Idle]
  /\ history = {}

AllIdle == \A r \in Requests : request[r].at = "idle"

\* Request r goes on at the given step, or ends.
Go(r, at) == request' = [request EXCEPT ![r].at = at]
End(r) == request' = [request EXCEPT ![r] = Idle]

\* A new request on photo p: mark is is_primary as it reads it.
Start(r, at, p, events) ==
  /\ request[r].at = "idle"
  /\ request' = [request EXCEPT ![r] =
                   [at |-> at, photo |-> p, order |-> 0, mark |-> Mark(p \in primary)]]
  /\ history' = history \union events \union (IF AllIdle THEN {} ELSE {"overlap"})

\* upload_photo checks the file, stores it under a new key, ...
StartUpload(r) ==
  \E p \in Photos \ drawn :
    /\ Start(r, "stored", p, {})
    /\ drawn' = drawn \union {p} /\ files' = files \union {p}
    /\ UNCHANGED <<rows, primary, order>>

\* ... reads the highest sort_order (COALESCE gives -1 without rows, and the
\* next order is then 0), ...
NextAfterLowest(k) ==  \* variant
  \/ rows = {} /\ k = 0
  \/ \E p \in rows : (\A q \in rows : order[p] <= order[q]) /\ k = order[p] + 1

NextOrder(k) ==
  \/ rows = {} /\ k = 0
  \/ \E p \in rows : (\A q \in rows : order[q] <= order[p]) /\ k = order[p] + 1

ReadOrder(r) ==
  /\ request[r].at = "stored"
  /\ \E k \in {0} \union {order[p] + 1 : p \in rows} :
       /\ NextOrder(k)
       /\ request' = [request EXCEPT ![r] = [@ EXCEPT !.at = "ordered", !.order = k]]
  /\ UNCHANGED <<rows, primary, order, files, drawn, history>>

\* ... counts the rows, the first photo being the primary one, ...
ReadCountByOrder(r) ==  \* variant
  /\ request[r].at = "ordered"
  /\ request' = [request EXCEPT ![r] = [@ EXCEPT !.at = "counted", !.mark = Mark(request[r].order = 1)]]
  /\ UNCHANGED <<rows, primary, order, files, drawn, history>>

ReadCount(r) ==
  /\ request[r].at = "ordered"
  /\ request' = [request EXCEPT ![r] = [@ EXCEPT !.at = "counted", !.mark = Mark(rows = {})]]
  /\ UNCHANGED <<rows, primary, order, files, drawn, history>>

\* ... and inserts the row.
InsertPhoto(r) ==
  LET p == request[r].photo IN
  /\ request[r].at = "counted"
  /\ rows' = rows \union {p}
  /\ primary' = primary \union {q \in {p} : request[r].mark = "primary"}
  /\ order' = [order EXCEPT ![p] = request[r].order]
  /\ End(r)
  /\ UNCHANGED <<files, drawn, history>>

\* delete_photo reads the row and remembers whether it is primary, ...
StartDeleteByFile(r) ==  \* variant
  \E p \in rows :
    /\ Start(r, "found", p, {"delete"})
    /\ files' = files \ {p}
    /\ UNCHANGED <<rows, primary, order, drawn>>

StartDelete(r) ==
  \E p \in rows :
    /\ Start(r, "found", p, {"delete"})
    /\ UNCHANGED <<rows, primary, order, files, drawn>>

\* ... deletes it, unless another request already did (no error either way), ...
DeleteRow(r) ==
  LET p == request[r].photo IN
  /\ request[r].at = "found"
  /\ rows' = rows \ {p} /\ primary' = primary \ {p}
  /\ order' = [order EXCEPT ![p] = 0]
  /\ Go(r, "deleted")
  /\ UNCHANGED <<files, drawn, history>>

\* ... and only then the file.
ErasePrimaryFile(r) ==  \* variant
  /\ request[r].at = "deleted"
  /\ IF request[r].mark = "primary"
     THEN files' = files \ {request[r].photo} /\ Go(r, "erased")
     ELSE End(r) /\ UNCHANGED files
  /\ UNCHANGED <<rows, primary, order, drawn, history>>

EraseFile(r) ==
  /\ request[r].at = "deleted"
  /\ files' = files \ {request[r].photo}
  /\ IF request[r].mark = "primary" THEN Go(r, "erased") ELSE End(r)
  /\ UNCHANGED <<rows, primary, order, drawn, history>>

\* After the primary photo, the one with the lowest sort_order is promoted;
\* when it is primary already, there is nothing to write.
Lowest == {p \in rows : \A q \in rows : order[p] <= order[q]}

ReadNext(r) ==
  /\ request[r].at = "erased"
  /\ \/ rows = {} /\ End(r)
     \/ Lowest \intersect primary # {} /\ End(r)
     \/ \E p \in Lowest \ primary :
          request' = [request EXCEPT ![r] = [@ EXCEPT !.at = "promoting", !.photo = p]]
  /\ UNCHANGED <<rows, primary, order, files, drawn, history>>

\* The update of a row that is gone fails, and the request with it.
Promote(r) ==
  /\ request[r].at = "promoting"
  /\ primary' = primary \union ({request[r].photo} \intersect rows)
  /\ End(r)
  /\ UNCHANGED <<rows, order, files, drawn, history>>

\* set_primary_photo reads the row, ...
StartSetPrimary(r) ==
  \E p \in rows :
    /\ Start(r, "choosing", p, {})
    /\ UNCHANGED <<rows, primary, order, files, drawn>>

\* ... clears every flag and sets its own.  The first statement locks all the
\* rows until the commit, so the two are one step; without its row the second
\* fails and both are rolled back.
SetPrimary(r) ==
  LET p == request[r].photo IN
  /\ request[r].at = "choosing"
  /\ primary' = IF p \in rows THEN {p} ELSE primary
  /\ End(r)
  /\ UNCHANGED <<rows, order, files, drawn, history>>

\* A request dies where it is; what it has committed stays.
Fail(r) ==
  /\ request[r].at # "idle"
  /\ End(r)
  /\ history' = history \union {"failure"}
  /\ UNCHANGED <<rows, primary, order, files, drawn>>

Next ==
  \E r \in Requests :
    \/ StartUpload(r) \/ ReadOrder(r) \/ ReadCount(r) \/ InsertPhoto(r)
    \/ StartDelete(r) \/ DeleteRow(r) \/ EraseFile(r) \/ ReadNext(r) \/ Promote(r)
    \/ StartSetPrimary(r) \/ SetPrimary(r)
    \/ Fail(r)

Spec == Init /\ [][Next]_vars

--------------------------------------------------------------------------------
\* The tables are well typed, and only rows are primary.
TypeOK ==
  /\ rows \in SUBSET Photos /\ primary \in SUBSET rows
  /\ order \in [Photos -> Nat]
  /\ files \in SUBSET Photos /\ drawn \in SUBSET Photos
  /\ request \in [Requests -> Request]
  /\ \A r \in Requests : request[r].at = "idle" <=> request[r].photo = NoPhoto
  /\ history \in SUBSET Events

\* Whatever runs side by side and wherever requests die, no row points at a
\* file that is gone: upload stores before it inserts, delete commits before
\* it erases, and no two uploads share a key.
RowsHaveFiles == rows \subseteq files

\* Without failures no file is left behind: once the requests are done, the
\* store holds exactly the photos of the rows, also after two deletions of one
\* photo that ran side by side.
NoStrayFiles == AllIdle /\ "failure" \notin history => files = rows

\* One request after the other, a gallery has exactly one primary photo and
\* no two photos with one sort_order.
OnePrimary ==
  AllIdle /\ history \intersect {"overlap", "failure"} = {} /\ rows # {} =>
    /\ \E p \in rows : primary = {p}
    /\ \A p, q \in rows : p # q => order[p] # order[q]

\* As long as nothing was deleted, a gallery has a primary photo, however
\* uploads and changes of it overlap or fail.
UndeletedHasPrimary == "delete" \notin history /\ rows # {} => primary # {}
================================================================================
