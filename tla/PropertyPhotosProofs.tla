------------------------- MODULE PropertyPhotosProofs --------------------------
(***************************************************************************)
(* Rows and files agree, an undeleted gallery keeps a primary photo and    *)
(* one that is changed by one request at a time has exactly one, for any   *)
(* number of photos and of requests.                                       *)
(***************************************************************************)
EXTENDS PropertyPhotos, TLAPS

\* Whatever a request or a row is about has been drawn.
OnlyDrawn ==
  /\ rows \subseteq drawn /\ files \subseteq drawn
  /\ \A r \in Requests : request[r].at # "idle" => request[r].photo \in drawn

\* An upload is alone with its file until it inserts the row.
UploadsOwnFiles ==
  \A r \in Requests : request[r].at \in Uploading =>
    /\ request[r].photo \in files \ rows
    /\ \A s \in Requests \ {r} : request[s].photo # request[r].photo

\* A file is erased only after its row.
ErasedLast == \A r \in Requests : request[r].at = "deleted" => request[r].photo \notin rows

\* Without failures, a file without a row is in the hands of a request.
FilesInHand ==
  "failure" \notin history =>
    \A p \in files \ rows : \E r \in Requests :
      request[r].photo = p /\ request[r].at \in Uploading \union {"deleted"}

\* Without deletions rows only come, and the first one is primary.
FirstIsPrimary ==
  "delete" \notin history =>
    /\ \A r \in Requests : request[r].at \notin Deleting \union {"promoting"}
    /\ rows = {} => \A r \in Requests : request[r].at = "counted" => request[r].mark = "primary"
    /\ rows # {} => primary # {}

\* One request after the other: the gallery has its primary photo, or a deletion
\* has taken it and is about to promote the next one.
Serial == history \intersect {"overlap", "failure"} = {}
Orphaned(q) == q.at \in {"erased", "promoting"} \/ (q.at = "deleted" /\ q.mark = "primary")
Gallery == rows # {} => \E p \in rows : primary = {p}
Distinct == \A p, q \in rows : p # q => order[p] # order[q]

\* What a request has read is still so.
Current(q) ==
  /\ q.at \in {"ordered", "counted"} => \A p \in rows : order[p] < q.order
  /\ q.at = "counted" => (q.mark = "primary" <=> rows = {})
  /\ q.at = "found" => (q.mark = "primary" <=> q.photo \in primary)
  /\ q.at = "promoting" => q.photo \in rows

OneByOne ==
  Serial =>
    /\ \A r, s \in Requests : r = s \/ request[r].at = "idle" \/ request[s].at = "idle"
    /\ Distinct
    /\ \A r \in Requests : Current(request[r]) /\ (Orphaned(request[r]) => primary = {})
    /\ (\A r \in Requests : ~ Orphaned(request[r])) => Gallery

IInv == /\ TypeOK /\ OnlyDrawn /\ UploadsOwnFiles /\ ErasedLast
        /\ RowsHaveFiles /\ FilesInHand /\ FirstIsPrimary /\ OneByOne

--------------------------------------------------------------------------------
\* The invariant holds at first.
LEMMA InitEstablishes == Init => IInv
BY DEF Init, IInv, TypeOK, OnlyDrawn, UploadsOwnFiles, ErasedLast, RowsHaveFiles,
       FilesInHand, FirstIsPrimary, OneByOne, Distinct, Current, Orphaned, Gallery,
       Idle, Steps, Uploading, Deleting, Events, Mark, Marks, Request

\* One request moves to a well-typed place, the others stay.
LEMMA RequestTyped ==
  ASSUME TypeOK, NEW r \in Requests, NEW q \in Request, q.at = "idle" <=> q.photo = NoPhoto,
         request' = [request EXCEPT ![r] = q]
  PROVE  /\ request' \in [Requests -> Request]
         /\ \A s \in Requests : request'[s].at = "idle" <=> request'[s].photo = NoPhoto
BY DEF TypeOK

\* Reading the next photo ends the request, or points it at a row.
LEMMA NextRead ==
  ASSUME TypeOK, NEW r \in Requests, ReadNext(r)
  PROVE  /\ request[r].at = "erased"
         /\ rows' = rows /\ primary' = primary /\ order' = order
         /\ files' = files /\ drawn' = drawn /\ history' = history
         /\ \E q \in Request :
              /\ request' = [request EXCEPT ![r] = q]
              /\ \/ q = Idle
                 \/ q.at = "promoting" /\ q.photo \in rows
<1>. SUFFICES \E q \in Request :
                /\ request' = [request EXCEPT ![r] = q]
                /\ \/ q = Idle
                   \/ q.at = "promoting" /\ q.photo \in rows
  BY DEF ReadNext
<1>1. CASE End(r)
  <2>1. Idle \in Request
    BY DEF Idle, Request, Steps, Marks
  <2>2. request' = [request EXCEPT ![r] = Idle]
    BY <1>1 DEF End
  <2>. WITNESS Idle \in Request
  <2>. QED BY <2>2
<1>2. CASE \E p \in Lowest \ primary :
             request' = [request EXCEPT ![r] = [@ EXCEPT !.at = "promoting", !.photo = p]]
  <2>1. PICK p \in Lowest \ primary :
          request' = [request EXCEPT ![r] = [@ EXCEPT !.at = "promoting", !.photo = p]]
    BY <1>2
  <2>2. p \in rows
    BY DEF Lowest
  <2>. DEFINE q == [request[r] EXCEPT !.at = "promoting", !.photo = p]
  <2>3. q \in Request
    BY <2>2 DEF TypeOK, Request, Steps
  <2>4. q.at = "promoting" /\ q.photo = p
    BY DEF TypeOK, Request
  <2>5. request' = [request EXCEPT ![r] = q]
    BY <2>1
  <2>. HIDE DEF q
  <2>. QED BY <2>2, <2>3, <2>4, <2>5
<1>. QED BY <1>1, <1>2 DEF ReadNext

\* Every step keeps the tables well typed.
LEMMA TypeStep ==
  ASSUME TypeOK, [Next]_vars PROVE TypeOK'
<1>. USE NoPhotoAssumption DEF TypeOK, Go, End, Idle, Steps, Uploading, Deleting, Events, Mark, Marks, Request
<1>1. ASSUME NEW r \in Requests, StartUpload(r) PROVE TypeOK'
  BY <1>1 DEF StartUpload, Start
<1>2. ASSUME NEW r \in Requests, ReadOrder(r) PROVE TypeOK'
  <2>1. PICK k \in {0} \union {order[p] + 1 : p \in rows} :
          request' = [request EXCEPT ![r] = [@ EXCEPT !.at = "ordered", !.order = k]]
    BY <1>2 DEF ReadOrder
  <2>2. k \in Nat
    OBVIOUS
  <2>0. request[r] \in Request
    OBVIOUS
  <2>3. [request[r] EXCEPT !.at = "ordered", !.order = k] \in Request
    BY <2>0, <2>2
  <2>4. [request[r] EXCEPT !.at = "ordered", !.order = k].at # "idle"
    OBVIOUS
  <2>5. [request[r] EXCEPT !.at = "ordered", !.order = k].photo = request[r].photo
    OBVIOUS
  <2>6. request[r].photo # NoPhoto
    BY <1>2 DEF ReadOrder
  <2>7. /\ request' \in [Requests -> Request]
        /\ \A s \in Requests : request'[s].at = "idle" <=> request'[s].photo = NoPhoto
    BY <2>1, <2>3, <2>4, <2>5, <2>6, RequestTyped
  <2>. QED BY <1>2, <2>7 DEF ReadOrder
<1>3. ASSUME NEW r \in Requests, ReadCount(r) PROVE TypeOK'
  <2>1. PICK m \in Marks :
          request' = [request EXCEPT ![r] = [@ EXCEPT !.at = "counted", !.mark = m]]
    BY <1>3 DEF ReadCount
  <2>0. request[r] \in Request
    OBVIOUS
  <2>2. [request[r] EXCEPT !.at = "counted", !.mark = m] \in Request
    BY <2>0
  <2>3. [request[r] EXCEPT !.at = "counted", !.mark = m].at # "idle"
    OBVIOUS
  <2>4. [request[r] EXCEPT !.at = "counted", !.mark = m].photo = request[r].photo
    OBVIOUS
  <2>5. request[r].photo # NoPhoto
    BY <1>3 DEF ReadCount
  <2>6. /\ request' \in [Requests -> Request]
        /\ \A s \in Requests : request'[s].at = "idle" <=> request'[s].photo = NoPhoto
    BY <2>1, <2>2, <2>3, <2>4, <2>5, RequestTyped
  <2>. QED BY <1>3, <2>6 DEF ReadCount
<1>4. ASSUME NEW r \in Requests, InsertPhoto(r) PROVE TypeOK'
  <2>1. request[r].photo \in Photos /\ request[r].order \in Nat
    BY <1>4 DEF InsertPhoto
  <2>2. /\ rows' \in SUBSET Photos /\ primary' \in SUBSET rows'
        /\ order' \in [Photos -> Nat]
    BY <1>4, <2>1 DEF InsertPhoto
  <2>3. /\ request' \in [Requests -> Request]
        /\ \A s \in Requests : request'[s].at = "idle" <=> request'[s].photo = NoPhoto
    BY <1>4, RequestTyped DEF InsertPhoto
  <2>. QED BY <1>4, <2>2, <2>3 DEF InsertPhoto
<1>5. ASSUME NEW r \in Requests, StartDelete(r) PROVE TypeOK'
  BY <1>5 DEF StartDelete, Start
<1>6. ASSUME NEW r \in Requests, DeleteRow(r) PROVE TypeOK'
  BY <1>6 DEF DeleteRow
<1>7. ASSUME NEW r \in Requests, EraseFile(r) PROVE TypeOK'
  BY <1>7 DEF EraseFile
<1>8. ASSUME NEW r \in Requests, ReadNext(r) PROVE TypeOK'
  <2>1. PICK q \in Request : /\ request' = [request EXCEPT ![r] = q]
                             /\ \/ q = Idle
                                \/ q.at = "promoting" /\ q.photo \in rows
    BY <1>8, NextRead
  <2>2. request[r].at = "erased" /\ rows' = rows /\ primary' = primary /\ order' = order
        /\ files' = files /\ drawn' = drawn /\ history' = history
    BY <1>8, NextRead
  <2>3. q.at = "idle" <=> q.photo = NoPhoto
    BY <2>1
  <2>4. /\ request' \in [Requests -> Request]
        /\ \A s \in Requests : request'[s].at = "idle" <=> request'[s].photo = NoPhoto
    BY <2>1, <2>3, RequestTyped
  <2>. QED BY <2>2, <2>4
<1>9. ASSUME NEW r \in Requests, Promote(r) PROVE TypeOK'
  BY <1>9 DEF Promote
<1>10. ASSUME NEW r \in Requests, StartSetPrimary(r) PROVE TypeOK'
  BY <1>10 DEF StartSetPrimary, Start
<1>11. ASSUME NEW r \in Requests, SetPrimary(r) PROVE TypeOK'
  BY <1>11 DEF SetPrimary
<1>12. ASSUME NEW r \in Requests, Fail(r) PROVE TypeOK'
  BY <1>12 DEF Fail
<1>13. CASE UNCHANGED vars
  BY <1>13 DEF vars
<1>. QED
  BY <1>1, <1>2, <1>3, <1>4, <1>5, <1>6, <1>7, <1>8, <1>9, <1>10, <1>11, <1>12, <1>13 DEF Next

\* Every step works on ids that have been drawn.
LEMMA OnlyDrawnStep ==
  ASSUME TypeOK, OnlyDrawn, [Next]_vars PROVE OnlyDrawn'
<1>. USE DEF TypeOK, OnlyDrawn, Go, End, Idle, Request
<1>1. ASSUME NEW r \in Requests, StartUpload(r) PROVE OnlyDrawn'
  BY <1>1 DEF StartUpload, Start
<1>2. ASSUME NEW r \in Requests, ReadOrder(r) PROVE OnlyDrawn'
  BY <1>2 DEF ReadOrder
<1>3. ASSUME NEW r \in Requests, ReadCount(r) PROVE OnlyDrawn'
  BY <1>3 DEF ReadCount
<1>4. ASSUME NEW r \in Requests, InsertPhoto(r) PROVE OnlyDrawn'
  BY <1>4 DEF InsertPhoto
<1>5. ASSUME NEW r \in Requests, StartDelete(r) PROVE OnlyDrawn'
  BY <1>5 DEF StartDelete, Start
<1>6. ASSUME NEW r \in Requests, DeleteRow(r) PROVE OnlyDrawn'
  BY <1>6 DEF DeleteRow
<1>7. ASSUME NEW r \in Requests, EraseFile(r) PROVE OnlyDrawn'
  BY <1>7 DEF EraseFile
<1>8. ASSUME NEW r \in Requests, ReadNext(r) PROVE OnlyDrawn'
  <2>1. PICK q \in Request : /\ request' = [request EXCEPT ![r] = q]
                             /\ \/ q = Idle
                                \/ q.at = "promoting" /\ q.photo \in rows
    BY <1>8, NextRead
  <2>2. request[r].at = "erased" /\ rows' = rows /\ primary' = primary /\ order' = order
        /\ files' = files /\ drawn' = drawn /\ history' = history
    BY <1>8, NextRead
  <2>. QED BY <2>1, <2>2
<1>9. ASSUME NEW r \in Requests, Promote(r) PROVE OnlyDrawn'
  BY <1>9 DEF Promote
<1>10. ASSUME NEW r \in Requests, StartSetPrimary(r) PROVE OnlyDrawn'
  BY <1>10 DEF StartSetPrimary, Start
<1>11. ASSUME NEW r \in Requests, SetPrimary(r) PROVE OnlyDrawn'
  BY <1>11 DEF SetPrimary
<1>12. ASSUME NEW r \in Requests, Fail(r) PROVE OnlyDrawn'
  BY <1>12 DEF Fail
<1>13. CASE UNCHANGED vars
  BY <1>13 DEF vars
<1>. QED
  BY <1>1, <1>2, <1>3, <1>4, <1>5, <1>6, <1>7, <1>8, <1>9, <1>10, <1>11, <1>12, <1>13 DEF Next

\* No step lets a second request at the file of an upload.
LEMMA UploadsOwnFilesStep ==
  ASSUME TypeOK, OnlyDrawn, UploadsOwnFiles, ErasedLast, [Next]_vars PROVE UploadsOwnFiles'
<1>. USE NoPhotoAssumption DEF TypeOK, OnlyDrawn, UploadsOwnFiles, ErasedLast, Go, End, Idle, Request, Uploading
<1>1. ASSUME NEW r \in Requests, StartUpload(r) PROVE UploadsOwnFiles'
  <2>1. PICK p \in Photos \ drawn :
          /\ request' = [request EXCEPT ![r] = [at |-> "stored", photo |-> p, order |-> 0,
                                                mark |-> Mark(p \in primary)]]
          /\ files' = files \union {p} /\ rows' = rows
    BY <1>1 DEF StartUpload, Start
  <2>2. request'[r].photo = p /\ \A s \in Requests \ {r} : request'[s] = request[s]
    BY <2>1
  <2>3. ASSUME NEW s \in Requests \ {r}, request[s].at # "idle" PROVE request[s].photo # p
    BY <2>1, <2>3
  <2>. QED BY <2>1, <2>2, <2>3
<1>2. ASSUME NEW r \in Requests, ReadOrder(r) PROVE UploadsOwnFiles'
  BY <1>2 DEF ReadOrder
<1>3. ASSUME NEW r \in Requests, ReadCount(r) PROVE UploadsOwnFiles'
  BY <1>3 DEF ReadCount
<1>4. ASSUME NEW r \in Requests, InsertPhoto(r) PROVE UploadsOwnFiles'
  BY <1>4 DEF InsertPhoto
<1>5. ASSUME NEW r \in Requests, StartDelete(r) PROVE UploadsOwnFiles'
  BY <1>5 DEF StartDelete, Start
<1>6. ASSUME NEW r \in Requests, DeleteRow(r) PROVE UploadsOwnFiles'
  BY <1>6 DEF DeleteRow
<1>7. ASSUME NEW r \in Requests, EraseFile(r) PROVE UploadsOwnFiles'
  BY <1>7 DEF EraseFile
<1>8. ASSUME NEW r \in Requests, ReadNext(r) PROVE UploadsOwnFiles'
  <2>1. PICK q \in Request : /\ request' = [request EXCEPT ![r] = q]
                             /\ \/ q = Idle
                                \/ q.at = "promoting" /\ q.photo \in rows
    BY <1>8, NextRead
  <2>2. request[r].at = "erased" /\ rows' = rows /\ primary' = primary /\ order' = order
        /\ files' = files /\ drawn' = drawn /\ history' = history
    BY <1>8, NextRead
  <2>. QED BY <2>1, <2>2
<1>9. ASSUME NEW r \in Requests, Promote(r) PROVE UploadsOwnFiles'
  BY <1>9 DEF Promote
<1>10. ASSUME NEW r \in Requests, StartSetPrimary(r) PROVE UploadsOwnFiles'
  BY <1>10 DEF StartSetPrimary, Start
<1>11. ASSUME NEW r \in Requests, SetPrimary(r) PROVE UploadsOwnFiles'
  BY <1>11 DEF SetPrimary
<1>12. ASSUME NEW r \in Requests, Fail(r) PROVE UploadsOwnFiles'
  BY <1>12 DEF Fail
<1>13. CASE UNCHANGED vars
  BY <1>13 DEF vars
<1>. QED
  BY <1>1, <1>2, <1>3, <1>4, <1>5, <1>6, <1>7, <1>8, <1>9, <1>10, <1>11, <1>12, <1>13 DEF Next

\* No step erases the file of a row.
LEMMA RowsHaveFilesStep ==
  ASSUME TypeOK, UploadsOwnFiles, ErasedLast, RowsHaveFiles, [Next]_vars PROVE (ErasedLast /\ RowsHaveFiles)'
<1>. USE DEF TypeOK, UploadsOwnFiles, ErasedLast, RowsHaveFiles, Go, End, Idle, Request, Uploading
<1>1. ASSUME NEW r \in Requests, StartUpload(r) PROVE (ErasedLast /\ RowsHaveFiles)'
  BY <1>1 DEF StartUpload, Start
<1>2. ASSUME NEW r \in Requests, ReadOrder(r) PROVE (ErasedLast /\ RowsHaveFiles)'
  BY <1>2 DEF ReadOrder
<1>3. ASSUME NEW r \in Requests, ReadCount(r) PROVE (ErasedLast /\ RowsHaveFiles)'
  BY <1>3 DEF ReadCount
<1>4. ASSUME NEW r \in Requests, InsertPhoto(r) PROVE (ErasedLast /\ RowsHaveFiles)'
  BY <1>4 DEF InsertPhoto
<1>5. ASSUME NEW r \in Requests, StartDelete(r) PROVE (ErasedLast /\ RowsHaveFiles)'
  BY <1>5 DEF StartDelete, Start
<1>6. ASSUME NEW r \in Requests, DeleteRow(r) PROVE (ErasedLast /\ RowsHaveFiles)'
  BY <1>6 DEF DeleteRow
<1>7. ASSUME NEW r \in Requests, EraseFile(r) PROVE (ErasedLast /\ RowsHaveFiles)'
  BY <1>7 DEF EraseFile
<1>8. ASSUME NEW r \in Requests, ReadNext(r) PROVE (ErasedLast /\ RowsHaveFiles)'
  <2>1. PICK q \in Request : /\ request' = [request EXCEPT ![r] = q]
                             /\ \/ q = Idle
                                \/ q.at = "promoting" /\ q.photo \in rows
    BY <1>8, NextRead
  <2>2. request[r].at = "erased" /\ rows' = rows /\ primary' = primary /\ order' = order
        /\ files' = files /\ drawn' = drawn /\ history' = history
    BY <1>8, NextRead
  <2>. QED BY <2>1, <2>2
<1>9. ASSUME NEW r \in Requests, Promote(r) PROVE (ErasedLast /\ RowsHaveFiles)'
  BY <1>9 DEF Promote
<1>10. ASSUME NEW r \in Requests, StartSetPrimary(r) PROVE (ErasedLast /\ RowsHaveFiles)'
  BY <1>10 DEF StartSetPrimary, Start
<1>11. ASSUME NEW r \in Requests, SetPrimary(r) PROVE (ErasedLast /\ RowsHaveFiles)'
  BY <1>11 DEF SetPrimary
<1>12. ASSUME NEW r \in Requests, Fail(r) PROVE (ErasedLast /\ RowsHaveFiles)'
  BY <1>12 DEF Fail
<1>13. CASE UNCHANGED vars
  BY <1>13 DEF vars
<1>. QED
  BY <1>1, <1>2, <1>3, <1>4, <1>5, <1>6, <1>7, <1>8, <1>9, <1>10, <1>11, <1>12, <1>13 DEF Next

\* A step that is no failure drops no file without its row.
LEMMA FilesInHandStep ==
  ASSUME TypeOK, FilesInHand, [Next]_vars PROVE FilesInHand'
<1>. USE DEF TypeOK, FilesInHand, Go, End, Idle, Request, Uploading
<1>1. ASSUME NEW r \in Requests, StartUpload(r) PROVE FilesInHand'
  BY <1>1 DEF StartUpload, Start
<1>2. ASSUME NEW r \in Requests, ReadOrder(r) PROVE FilesInHand'
  BY <1>2 DEF ReadOrder
<1>3. ASSUME NEW r \in Requests, ReadCount(r) PROVE FilesInHand'
  BY <1>3 DEF ReadCount
<1>4. ASSUME NEW r \in Requests, InsertPhoto(r) PROVE FilesInHand'
  BY <1>4 DEF InsertPhoto
<1>5. ASSUME NEW r \in Requests, StartDelete(r) PROVE FilesInHand'
  BY <1>5 DEF StartDelete, Start
<1>6. ASSUME NEW r \in Requests, DeleteRow(r) PROVE FilesInHand'
  BY <1>6 DEF DeleteRow
<1>7. ASSUME NEW r \in Requests, EraseFile(r) PROVE FilesInHand'
  BY <1>7 DEF EraseFile
<1>8. ASSUME NEW r \in Requests, ReadNext(r) PROVE FilesInHand'
  <2>1. PICK q \in Request : /\ request' = [request EXCEPT ![r] = q]
                             /\ \/ q = Idle
                                \/ q.at = "promoting" /\ q.photo \in rows
    BY <1>8, NextRead
  <2>2. request[r].at = "erased" /\ rows' = rows /\ primary' = primary /\ order' = order
        /\ files' = files /\ drawn' = drawn /\ history' = history
    BY <1>8, NextRead
  <2>. QED BY <2>1, <2>2
<1>9. ASSUME NEW r \in Requests, Promote(r) PROVE FilesInHand'
  BY <1>9 DEF Promote
<1>10. ASSUME NEW r \in Requests, StartSetPrimary(r) PROVE FilesInHand'
  BY <1>10 DEF StartSetPrimary, Start
<1>11. ASSUME NEW r \in Requests, SetPrimary(r) PROVE FilesInHand'
  BY <1>11 DEF SetPrimary
<1>12. ASSUME NEW r \in Requests, Fail(r) PROVE FilesInHand'
  BY <1>12 DEF Fail
<1>13. CASE UNCHANGED vars
  BY <1>13 DEF vars
<1>. QED
  BY <1>1, <1>2, <1>3, <1>4, <1>5, <1>6, <1>7, <1>8, <1>9, <1>10, <1>11, <1>12, <1>13 DEF Next

\* Without deletions, no step takes the primary photo away.
LEMMA FirstIsPrimaryStep ==
  ASSUME TypeOK, FirstIsPrimary, [Next]_vars PROVE FirstIsPrimary'
<1>. USE DEF TypeOK, FirstIsPrimary, Go, End, Idle, Request, Uploading, Deleting, Mark
<1>1. ASSUME NEW r \in Requests, StartUpload(r) PROVE FirstIsPrimary'
  BY <1>1 DEF StartUpload, Start
<1>2. ASSUME NEW r \in Requests, ReadOrder(r) PROVE FirstIsPrimary'
  BY <1>2 DEF ReadOrder
<1>3. ASSUME NEW r \in Requests, ReadCount(r) PROVE FirstIsPrimary'
  BY <1>3 DEF ReadCount
<1>4. ASSUME NEW r \in Requests, InsertPhoto(r) PROVE FirstIsPrimary'
  BY <1>4 DEF InsertPhoto
<1>5. ASSUME NEW r \in Requests, StartDelete(r) PROVE FirstIsPrimary'
  BY <1>5 DEF StartDelete, Start
<1>6. ASSUME NEW r \in Requests, DeleteRow(r) PROVE FirstIsPrimary'
  BY <1>6 DEF DeleteRow
<1>7. ASSUME NEW r \in Requests, EraseFile(r) PROVE FirstIsPrimary'
  BY <1>7 DEF EraseFile
<1>8. ASSUME NEW r \in Requests, ReadNext(r) PROVE FirstIsPrimary'
  <2>1. PICK q \in Request : /\ request' = [request EXCEPT ![r] = q]
                             /\ \/ q = Idle
                                \/ q.at = "promoting" /\ q.photo \in rows
    BY <1>8, NextRead
  <2>2. request[r].at = "erased" /\ rows' = rows /\ primary' = primary /\ order' = order
        /\ files' = files /\ drawn' = drawn /\ history' = history
    BY <1>8, NextRead
  <2>. QED BY <2>1, <2>2
<1>9. ASSUME NEW r \in Requests, Promote(r) PROVE FirstIsPrimary'
  BY <1>9 DEF Promote
<1>10. ASSUME NEW r \in Requests, StartSetPrimary(r) PROVE FirstIsPrimary'
  BY <1>10 DEF StartSetPrimary, Start
<1>11. ASSUME NEW r \in Requests, SetPrimary(r) PROVE FirstIsPrimary'
  BY <1>11 DEF SetPrimary
<1>12. ASSUME NEW r \in Requests, Fail(r) PROVE FirstIsPrimary'
  BY <1>12 DEF Fail
<1>13. CASE UNCHANGED vars
  BY <1>13 DEF vars
<1>. QED
  BY <1>1, <1>2, <1>3, <1>4, <1>5, <1>6, <1>7, <1>8, <1>9, <1>10, <1>11, <1>12, <1>13 DEF Next

\* The request whose turn it is takes a step.
LEMMA TurnTaken ==
  ASSUME TypeOK, OneByOne, Serial, NEW r \in Requests, NEW q,
         request' = [request EXCEPT ![r] = q],
         \A s \in Requests \ {r} : request[s].at = "idle",
         Distinct', Current(q)',
         IF Orphaned(q) THEN primary' = {} ELSE Gallery'
  PROVE  OneByOne'
<1>1. request'[r] = q /\ \A s \in Requests \ {r} : request'[s] = request[s]
  BY DEF TypeOK
<1>2. \A s \in Requests \ {r} : ~ Orphaned(request'[s])
  BY <1>1 DEF Orphaned
<1>3. (\A s \in Requests : Current(request[s]) /\ (Orphaned(request[s]) => primary = {}))'
  BY <1>1, <1>2 DEF Current, Orphaned
<1>4. (\A s \in Requests : ~ Orphaned(request'[s])) => Gallery'
  BY <1>1
<1>5. \A s, t \in Requests : s = t \/ request'[s].at = "idle" \/ request'[t].at = "idle"
  BY <1>1
<1>6. QED
  BY <1>3, <1>4, <1>5 DEF OneByOne, Current, Orphaned

\* While requests do not overlap, the one that is under way is alone.
LEMMA Alone ==
  ASSUME TypeOK, OneByOne, Serial, NEW r \in Requests, request[r].at # "idle"
  PROVE  /\ \A s \in Requests \ {r} : request[s].at = "idle" /\ ~ Orphaned(request[s])
         /\ Distinct /\ Current(request[r])
         /\ IF Orphaned(request[r]) THEN primary = {} ELSE Gallery
<1>1. \A s \in Requests \ {r} : request[s].at = "idle"
  BY DEF OneByOne
<1>2. \A s \in Requests \ {r} : ~ Orphaned(request[s])
  BY <1>1 DEF Orphaned
<1>3. QED
  BY <1>1, <1>2 DEF OneByOne

\* A request that starts without overlap finds the gallery in order.
LEMMA StartsAlone ==
  ASSUME TypeOK, OneByOne, Serial', NEW r \in Requests, NEW at, NEW p, NEW events,
         at \in {"stored", "found", "choosing"},
         Start(r, at, p, events), UNCHANGED <<rows, primary, order>>
  PROVE  OneByOne'
<1>0. PICK q : q = [at |-> at, photo |-> p, order |-> 0, mark |-> Mark(p \in primary)]
  OBVIOUS
<1>1. Serial /\ AllIdle /\ request' = [request EXCEPT ![r] = q]
  BY <1>0 DEF Start, Serial
<1>2. Distinct /\ Gallery
  BY <1>1 DEF OneByOne, AllIdle, Orphaned
<1>3. q.at = at /\ q.photo = p /\ (q.mark = "primary" <=> p \in primary)
  BY <1>0 DEF Mark
<1>4. Distinct' /\ Gallery' /\ Current(q)' /\ ~ Orphaned(q)
  BY <1>2, <1>3 DEF Distinct, Gallery, Current, Orphaned
<1>5. QED
  BY <1>1, <1>4, TurnTaken DEF AllIdle

\* One request after the other keeps the gallery in order.
LEMMA OneByOneStep ==
  ASSUME TypeOK, OneByOne, OnlyDrawn, UploadsOwnFiles, [Next]_vars
  PROVE  OneByOne'
<1>0. SUFFICES ASSUME Serial' PROVE OneByOne'
  BY DEF OneByOne
<1>1. ASSUME NEW r \in Requests, StartUpload(r) \/ StartDelete(r) \/ StartSetPrimary(r)
      PROVE  OneByOne'
  BY <1>0, <1>1, StartsAlone DEF StartUpload, StartDelete, StartSetPrimary
<1>2. ASSUME NEW r \in Requests, ReadOrder(r) PROVE OneByOne'
  <2>1. PICK k \in {0} \union {order[p] + 1 : p \in rows} :
          /\ NextOrder(k)
          /\ request' = [request EXCEPT ![r] = [@ EXCEPT !.at = "ordered", !.order = k]]
    BY <1>2 DEF ReadOrder
  <2>2. request[r].at = "stored" /\ Serial /\ UNCHANGED <<rows, primary, order>>
    BY <1>0, <1>2 DEF ReadOrder, Serial
  <2>3. PICK q : request' = [request EXCEPT ![r] = q] /\ q.at = "ordered" /\ q.order = k
    <3>1. PICK q : q = [request[r] EXCEPT !.at = "ordered", !.order = k]
      OBVIOUS
    <3>2. q.at = "ordered" /\ q.order = k
      BY <3>1 DEF TypeOK, Request
    <3>3. request' = [request EXCEPT ![r] = q]
      BY <2>1, <3>1
    <3>4. QED
      BY <3>2, <3>3
  <2>4. \A p \in rows : order[p] < k
    BY <2>1 DEF NextOrder, TypeOK
  <2>5. Distinct' /\ Gallery' /\ Current(q)' /\ ~ Orphaned(q)
    BY <2>2, <2>3, <2>4, Alone DEF Distinct, Gallery, Current, Orphaned
  <2>6. QED
    BY <2>2, <2>3, <2>5, Alone, TurnTaken
<1>3. ASSUME NEW r \in Requests, ReadCount(r) PROVE OneByOne'
  <2>0. PICK q : q = [request[r] EXCEPT !.at = "counted", !.mark = Mark(rows = {})]
    OBVIOUS
  <2>1. /\ request[r].at = "ordered" /\ Serial /\ UNCHANGED <<rows, primary, order>>
        /\ request' = [request EXCEPT ![r] = q]
    BY <1>0, <1>3, <2>0 DEF ReadCount, Serial
  <2>2. /\ q.at = "counted" /\ q.order = request[r].order
        /\ (q.mark = "primary" <=> rows = {})
    BY <2>0 DEF TypeOK, Request, Mark
  <2>3. Distinct' /\ Gallery' /\ Current(q)' /\ ~ Orphaned(q)
    BY <2>1, <2>2, Alone DEF Distinct, Gallery, Current, Orphaned
  <2>4. QED
    BY <2>1, <2>3, Alone, TurnTaken
<1>4. ASSUME NEW r \in Requests, InsertPhoto(r) PROVE OneByOne'
  <2> DEFINE p == request[r].photo
  <2>1. /\ request[r].at = "counted" /\ Serial /\ request' = [request EXCEPT ![r] = Idle]
        /\ rows' = rows \union {p}
        /\ primary' = primary \union {x \in {p} : request[r].mark = "primary"}
        /\ order' = [order EXCEPT ![p] = request[r].order]
    BY <1>0, <1>4 DEF InsertPhoto, Serial, End
  <2>2. p \in Photos /\ p \notin rows /\ primary \subseteq rows /\ rows \subseteq Photos
    BY <2>1 DEF UploadsOwnFiles, Uploading, TypeOK
  <2>3. /\ Distinct /\ Gallery /\ \A x \in rows : order[x] < request[r].order
        /\ (request[r].mark = "primary" <=> rows = {})
    BY <2>1, Alone DEF Current, Orphaned
  <2>4. order'[p] = request[r].order /\ \A x \in rows : order'[x] = order[x]
    BY <2>1, <2>2 DEF TypeOK
  <2>5. \A x \in rows : order[x] \in Nat /\ order[x] # request[r].order
    BY <2>2, <2>3 DEF TypeOK, Request
  <2>6. Distinct'
    BY <2>1, <2>3, <2>4, <2>5 DEF Distinct
  <2>7. Gallery'
    BY <2>1, <2>2, <2>3 DEF Gallery
  <2>8. Current(Idle)' /\ ~ Orphaned(Idle)
    BY DEF Current, Orphaned, Idle
  <2>9. QED
    BY <2>1, <2>6, <2>7, <2>8, Alone, TurnTaken
<1>5. ASSUME NEW r \in Requests, DeleteRow(r) PROVE OneByOne'
  <2> DEFINE p == request[r].photo
  <2>0. PICK q : q = [request[r] EXCEPT !.at = "deleted"]
    OBVIOUS
  <2>1. /\ request[r].at = "found" /\ Serial /\ request' = [request EXCEPT ![r] = q]
        /\ rows' = rows \ {p} /\ primary' = primary \ {p}
        /\ order' = [order EXCEPT ![p] = 0]
    BY <1>0, <1>5, <2>0 DEF DeleteRow, Serial, Go
  <2>2. q.at = "deleted" /\ q.mark = request[r].mark
    BY <2>0 DEF TypeOK, Request
  <2>3. primary \subseteq rows /\ \A x \in rows \ {p} : order'[x] = order[x]
    BY <2>1 DEF TypeOK
  <2>4. Distinct /\ Gallery /\ (request[r].mark = "primary" <=> p \in primary)
    BY <2>1, Alone DEF Current, Orphaned
  <2>5. Distinct' /\ Current(q)'
    BY <2>1, <2>2, <2>3, <2>4 DEF Distinct, Current
  <2>6. IF Orphaned(q) THEN primary' = {} ELSE Gallery'
    BY <2>1, <2>2, <2>3, <2>4 DEF Orphaned, Gallery
  <2>7. QED
    BY <2>1, <2>5, <2>6, Alone, TurnTaken
<1>6. ASSUME NEW r \in Requests, EraseFile(r) PROVE OneByOne'
  <2>1. request[r].at = "deleted" /\ Serial /\ UNCHANGED <<rows, primary, order>>
    BY <1>0, <1>6 DEF EraseFile, Serial
  <2>2. Distinct' /\ IF request[r].mark = "primary" THEN primary' = {} ELSE Gallery'
    BY <2>1, Alone DEF Orphaned, Distinct, Gallery
  <2>3. CASE request[r].mark = "primary"
    <3>1. PICK q : request' = [request EXCEPT ![r] = q] /\ q.at = "erased"
      <4>1. request' = [request EXCEPT ![r] = [request[r] EXCEPT !.at = "erased"]]
        BY <1>6, <2>3 DEF EraseFile, Go
      <4>2. [request[r] EXCEPT !.at = "erased"].at = "erased"
        BY DEF TypeOK, Request
      <4>3. QED
        BY <4>1, <4>2
    <3>2. Orphaned(q) /\ Current(q)'
      BY <3>1 DEF Orphaned, Current
    <3>3. QED
      BY <2>1, <2>2, <2>3, <3>1, <3>2, Alone, TurnTaken
  <2>4. CASE request[r].mark # "primary"
    <3>1. request' = [request EXCEPT ![r] = Idle]
      BY <1>6, <2>4 DEF EraseFile, End
    <3>2. ~ Orphaned(Idle) /\ Current(Idle)'
      BY DEF Orphaned, Current, Idle
    <3>3. QED
      BY <2>1, <2>2, <2>4, <3>1, <3>2, Alone, TurnTaken
  <2>5. QED
    BY <2>3, <2>4
<1>7. ASSUME NEW r \in Requests, ReadNext(r) PROVE OneByOne'
  <2>1. request[r].at = "erased" /\ Serial /\ UNCHANGED <<rows, primary, order>>
    BY <1>0, <1>7 DEF ReadNext, Serial
  <2>2. Distinct' /\ primary = {} /\ primary' = {}
    BY <2>1, Alone DEF Orphaned, Distinct
  <2>3. CASE rows = {} /\ End(r)
    <3>1. request' = [request EXCEPT ![r] = Idle] /\ Gallery'
      BY <2>1, <2>3 DEF End, Gallery
    <3>2. ~ Orphaned(Idle) /\ Current(Idle)'
      BY DEF Orphaned, Current, Idle
    <3>3. QED
      BY <2>1, <2>2, <3>1, <3>2, Alone, TurnTaken
  <2>4. CASE \E p \in Lowest \ primary :
               request' = [request EXCEPT ![r] = [@ EXCEPT !.at = "promoting", !.photo = p]]
    <3>1. PICK p \in rows :
            request' = [request EXCEPT ![r] = [@ EXCEPT !.at = "promoting", !.photo = p]]
      BY <2>4 DEF Lowest
    <3>2. PICK q : request' = [request EXCEPT ![r] = q] /\ q.at = "promoting" /\ q.photo = p
      <4>1. PICK q : q = [request[r] EXCEPT !.at = "promoting", !.photo = p]
        OBVIOUS
      <4>2. q.at = "promoting" /\ q.photo = p
        BY <4>1 DEF TypeOK, Request
      <4>3. request' = [request EXCEPT ![r] = q]
        BY <3>1, <4>1
      <4>4. QED
        BY <4>2, <4>3
    <3>3. Orphaned(q) /\ Current(q)'
      BY <2>1, <3>2 DEF Orphaned, Current
    <3>4. QED
      BY <2>1, <2>2, <3>2, <3>3, Alone, TurnTaken
  <2>5. QED
    BY <1>7, <2>2, <2>3, <2>4 DEF ReadNext
<1>8. ASSUME NEW r \in Requests, Promote(r) PROVE OneByOne'
  <2>1. /\ request[r].at = "promoting" /\ Serial /\ UNCHANGED <<rows, order>>
        /\ primary' = primary \union ({request[r].photo} \intersect rows)
        /\ request' = [request EXCEPT ![r] = Idle]
    BY <1>0, <1>8 DEF Promote, Serial, End
  <2>2. Distinct /\ primary = {} /\ request[r].photo \in rows
    BY <2>1, Alone DEF Orphaned, Current
  <2>3. Distinct' /\ Gallery' /\ ~ Orphaned(Idle) /\ Current(Idle)'
    BY <2>1, <2>2 DEF Distinct, Gallery, Orphaned, Current, Idle
  <2>4. QED
    BY <2>1, <2>3, Alone, TurnTaken
<1>9. ASSUME NEW r \in Requests, SetPrimary(r) PROVE OneByOne'
  <2>1. /\ request[r].at = "choosing" /\ Serial /\ UNCHANGED <<rows, order>>
        /\ primary' = IF request[r].photo \in rows THEN {request[r].photo} ELSE primary
        /\ request' = [request EXCEPT ![r] = Idle]
    BY <1>0, <1>9 DEF SetPrimary, Serial, End
  <2>2. Distinct /\ Gallery
    BY <2>1, Alone DEF Orphaned
  <2>3. Distinct' /\ Gallery' /\ ~ Orphaned(Idle) /\ Current(Idle)'
    BY <2>1, <2>2 DEF Distinct, Gallery, Orphaned, Current, Idle
  <2>4. QED
    BY <2>1, <2>3, Alone, TurnTaken
<1>10. ASSUME NEW r \in Requests, Fail(r) PROVE OneByOne'
  BY <1>0, <1>10 DEF Fail, Serial
<1>11. CASE UNCHANGED vars
  BY <1>0, <1>11 DEF vars, OneByOne, Serial, Distinct, Current, Orphaned, Gallery
<1>. QED
  BY <1>1, <1>2, <1>3, <1>4, <1>5, <1>6, <1>7, <1>8, <1>9, <1>10, <1>11 DEF Next

\* The invariant holds in every reachable state.
LEMMA Invariant == Spec => []IInv
<1>1. IInv /\ [Next]_vars => IInv'
  BY TypeStep, OnlyDrawnStep, UploadsOwnFilesStep, RowsHaveFilesStep, FilesInHandStep,
     FirstIsPrimaryStep, OneByOneStep DEF IInv
<1>. QED BY InitEstablishes, <1>1, PTL DEF Spec

\* The tables are well typed, and only rows are primary.
THEOREM TypesAlwaysOK == Spec => []TypeOK
<1>1. IInv => TypeOK
  BY DEF IInv
<1>. QED BY Invariant, <1>1, PTL

\* No row ever points at a file that is gone, for any number of requests that
\* overlap and die.
THEOREM RowsAlwaysHaveFiles == Spec => []RowsHaveFiles
<1>1. IInv => RowsHaveFiles
  BY DEF IInv
<1>. QED BY Invariant, <1>1, PTL

\* Without failures, requests leave no file behind however they overlap.
THEOREM FilesNeverStray == Spec => []NoStrayFiles
<1>1. IInv => NoStrayFiles
  BY DEF IInv, NoStrayFiles, AllIdle, FilesInHand, RowsHaveFiles, Uploading
<1>. QED BY Invariant, <1>1, PTL

\* One request after the other, a gallery that is not empty has exactly one primary
\* photo and no two photos with one sort_order (upload_photo's count and highest
\* order, delete_photo's promotion of the next photo, set_primary_photo).
THEOREM OnePrimaryPhoto == Spec => []OnePrimary
<1>1. IInv => OnePrimary
  BY DEF IInv, OneByOne, OnePrimary, Serial, AllIdle, Orphaned, Gallery, Distinct
<1>. QED BY Invariant, <1>1, PTL

\* Before the first deletion a gallery that is not empty has a primary photo.
THEOREM UndeletedAlwaysHasPrimary == Spec => []UndeletedHasPrimary
<1>1. IInv => UndeletedHasPrimary
  BY DEF IInv, FirstIsPrimary, UndeletedHasPrimary
<1>. QED BY Invariant, <1>1, PTL
================================================================================
