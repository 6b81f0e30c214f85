------------------------------- MODULE InboxProofs -------------------------------
(***************************************************************************)
(* Theorems about the inbox, for any people, bids, roles and requests and  *)
(* any number of notifications and messages.                               *)
(***************************************************************************)
EXTENDS Inbox, SequenceTheorems, FiniteSetTheorems, TLAPS

--------------------------------------------------------------------------------
\* Marking rows changes nothing else of them.
LEMMA MarkedNotes ==
  ASSUME NEW rows \in Seq(Note), NEW ids
  PROVE  /\ Read(rows, ids) \in Seq(Note)
         /\ Len(Read(rows, ids)) = Len(rows) /\ DOMAIN Read(rows, ids) = DOMAIN rows
         /\ \A i \in DOMAIN rows :
              Read(rows, ids)[i] = [rows[i] EXCEPT !.read = @ \/ i \in ids]
<1>1. rows \in [1 .. Len(rows) -> Note] /\ DOMAIN rows = 1 .. Len(rows) /\ Len(rows) \in Nat
  OBVIOUS
<1>2. Read(rows, ids) \in [1 .. Len(rows) -> Note]
  BY <1>1 DEF Read, Note
<1>3. QED
  BY <1>1, <1>2, SeqDef DEF Read

LEMMA MarkedMessages ==
  ASSUME NEW rows \in Seq(Message), NEW ids
  PROVE  /\ Read(rows, ids) \in Seq(Message)
         /\ Len(Read(rows, ids)) = Len(rows) /\ DOMAIN Read(rows, ids) = DOMAIN rows
         /\ \A i \in DOMAIN rows :
              Read(rows, ids)[i] = [rows[i] EXCEPT !.read = @ \/ i \in ids]
<1>1. rows \in [1 .. Len(rows) -> Message] /\ DOMAIN rows = 1 .. Len(rows) /\ Len(rows) \in Nat
  OBVIOUS
<1>2. Read(rows, ids) \in [1 .. Len(rows) -> Message]
  BY <1>1 DEF Read, Message
<1>3. QED
  BY <1>1, <1>2, SeqDef DEF Read

--------------------------------------------------------------------------------
\* Type correctness

\* The locals of a request under way, by where it is.
LEMMA Locals ==
  ASSUME TypeOK, NEW r \in Requests
  PROVE  /\ request[r].at \in {"mailing", "reporting"} =>
              request[r] \in [at : {"mailing", "reporting"}, bid : Bids,
                             event : ToAgent \union ToManager]
         /\ request[r].at = "marking" =>
              request[r] \in [at : {"marking"}, user : People, rows : SUBSET (1 .. MaxNotes)]
         /\ request[r].at \in {"opened", "answering"} =>
              request[r] \in [at : {"opened", "answering"}, user : People, bid : Bids,
                             rows : SUBSET (1 .. MaxMessages)]
<1>1. request[r] \in Request
  BY DEF TypeOK
<1>2. QED
  BY <1>1 DEF Request

LEMMA InitTypeOK == Init => TypeOK
<1> SUFFICES ASSUME Init PROVE TypeOK
  OBVIOUS
<1>1. \A r \in Requests : request[r] = [at |-> "idle"] /\ request[r].at = "idle"
  BY DEF Init
<1>2. request \in [Requests -> Request]
  BY DEF Init, Request
<1>3. notes \in Seq(Note) /\ Len(notes) = 0 /\ messages \in Seq(Message) /\ Len(messages) = 0
  BY DEF Init
<1>4. QED
  BY <1>1, <1>2, <1>3, BoundsAssumption DEF Init, TypeOK

\* What the bounds and domains of requests ask of new locals.
RequestsOK ==
  /\ request \in [Requests -> Request]
  /\ \A r \in Requests :
       /\ request[r].at = "marking" => request[r].rows \subseteq DOMAIN notes
       /\ request[r].at \in {"opened", "answering"} => request[r].rows \subseteq DOMAIN messages

LEMMA GotoOK ==
  ASSUME TypeOK, NEW r \in Requests, NEW locals \in Request, Goto(r, locals),
         DOMAIN notes \subseteq DOMAIN notes', DOMAIN messages \subseteq DOMAIN messages',
         locals.at = "marking" => locals.rows \subseteq DOMAIN notes,
         locals.at \in {"opened", "answering"} => locals.rows \subseteq DOMAIN messages
  PROVE  RequestsOK'
BY DEF Goto, TypeOK, RequestsOK

LEMMA EndOK ==
  ASSUME TypeOK, NEW r \in Requests, End(r),
         DOMAIN notes \subseteq DOMAIN notes', DOMAIN messages \subseteq DOMAIN messages'
  PROVE  RequestsOK'
<1>1. [at |-> "idle"] \in Request /\ [at |-> "idle"].at = "idle"
  BY DEF Request
<1>2. QED
  BY <1>1, GotoOK DEF End

LEMMA NextTypeOK == TypeOK /\ [Next]_vars => TypeOK'
<1> SUFFICES ASSUME TypeOK, [Next]_vars PROVE TypeOK'
  OBVIOUS
<1>1. ASSUME NEW r \in Requests, NEW b \in Bids, PlaceBid(r, b)
      PROVE  TypeOK'
  <2> DEFINE locals == [at |-> "mailing", bid |-> b, event |-> "bid_placed"]
  <2>1. locals \in Request
    BY DEF Request, ToManager
  <2>2. RequestsOK'
    BY <1>1, <2>1, GotoOK DEF PlaceBid
  <2>3. QED
    BY <1>1, <2>2 DEF PlaceBid, TypeOK, RequestsOK, historyVars
<1>2. ASSUME NEW r \in Requests, NEW b \in Bids, NEW event \in Decisions, Decide(r, b, event)
      PROVE  TypeOK'
  <2> DEFINE locals == [at |-> "mailing", bid |-> b, event |-> event]
  <2>1. locals \in Request
    BY PartiesAssumption DEF Request
  <2>2. RequestsOK'
    BY <1>2, <2>1, GotoOK DEF Decide, rowVars
  <2>3. QED
    BY <1>2, <2>2 DEF Decide, TypeOK, RequestsOK, rowVars, historyVars
<1>3. ASSUME NEW r \in Requests, Mail(r)
      PROVE  TypeOK'
  <2> DEFINE locals == [request[r] EXCEPT !.at = "reporting"]
  <2>1. locals \in Request /\ locals.at = "reporting"
    BY <1>3, Locals DEF Mail, Request
  <2>2. RequestsOK'
    BY <1>3, <2>1, GotoOK DEF Mail, rowVars
  <2>3. QED
    BY <1>3, <2>2 DEF Mail, TypeOK, RequestsOK, rowVars
<1>4. ASSUME NEW n \in Note, Len(notes) < MaxNotes, notes' = Append(notes, n)
      PROVE  /\ notes' \in Seq(Note) /\ Len(notes') <= MaxNotes
             /\ DOMAIN notes \subseteq DOMAIN notes'
  BY <1>4, BoundsAssumption DEF TypeOK
<1>5. ASSUME NEW r \in Requests, Report(r)
      PROVE  TypeOK'
  <2>1. NewNote(request[r].bid, request[r].event, SideOf(request[r].event)) \in Note
    BY <1>5, Locals DEF Report, NewNote, SideOf, Note, Sides
  <2>2. RequestsOK'
    BY <1>4, <1>5, <2>1, EndOK DEF Report
  <2>3. QED
    BY <1>4, <1>5, <2>1, <2>2 DEF Report, TypeOK, RequestsOK, historyVars
<1>6. ASSUME NEW u \in People, NEW i \in DOMAIN notes, MarkRead(u, i)
      PROVE  TypeOK'
  BY <1>6, MarkedNotes DEF MarkRead, TypeOK
<1>7. ASSUME NEW r \in Requests, NEW u \in People, StartMarkAll(r, u)
      PROVE  TypeOK'
  <2> DEFINE ids == {i \in Unread(u) : InAudience(u, i)}
             locals == [at |-> "marking", user |-> u, rows |-> ids]
  <2>1. ids \subseteq DOMAIN notes
    BY DEF Unread, Of
  <2>2. ids \subseteq 1 .. MaxNotes
    BY <2>1, BoundsAssumption DEF TypeOK
  <2>3. locals \in Request
    BY <2>2 DEF Request
  <2>4. RequestsOK'
    BY <1>7, <2>1, <2>3, GotoOK DEF StartMarkAll, rowVars
  <2>5. QED
    BY <1>7, <2>1, <2>4 DEF StartMarkAll, TypeOK, RequestsOK, rowVars
<1>8. ASSUME NEW r \in Requests, MarkAll(r)
      PROVE  TypeOK'
  <2>1. /\ notes' \in Seq(Note) /\ Len(notes') = Len(notes) /\ DOMAIN notes' = DOMAIN notes
    BY <1>8, MarkedNotes DEF MarkAll, TypeOK
  <2>2. RequestsOK'
    BY <1>8, <2>1, EndOK DEF MarkAll
  <2>3. QED
    BY <1>8, <2>1, <2>2 DEF MarkAll, TypeOK, RequestsOK, historyVars
<1>9. ASSUME NEW u \in People, NEW b \in Bids, PostMessage(u, b)
      PROVE  TypeOK'
  <2>1. NewNote(b, "message", AddresseeSide(u, b)) \in Note
    BY DEF NewNote, AddresseeSide, Note, Sides
  <2>2. [bid |-> b, from |-> u, read |-> FALSE] \in Message
    BY DEF Message
  <2>3. /\ messages' \in Seq(Message) /\ Len(messages') <= MaxMessages
        /\ DOMAIN messages \subseteq DOMAIN messages'
    BY <1>9, <2>2, BoundsAssumption DEF PostMessage, TypeOK
  <2>4. \A i \in DOMAIN messages' : messages'[i].bid \in placed'
    BY <1>9, <2>2 DEF PostMessage, TypeOK
  <2>5. QED
    BY <1>4, <1>9, <2>1, <2>3, <2>4 DEF PostMessage, TypeOK, historyVars
<1>10. ASSUME NEW r \in Requests, NEW u \in People, NEW b \in Bids, StartOpen(r, u, b)
       PROVE  TypeOK'
  <2> DEFINE locals == [at |-> "opened", user |-> u, bid |-> b, rows |-> Thread(b)]
  <2>1. Thread(b) \subseteq DOMAIN messages
    BY DEF Thread
  <2>2. Thread(b) \subseteq 1 .. MaxMessages
    BY <2>1, BoundsAssumption DEF TypeOK
  <2>3. locals \in Request
    BY <2>2 DEF Request
  <2>4. RequestsOK'
    BY <1>10, <2>1, <2>3, GotoOK DEF StartOpen, rowVars
  <2>5. QED
    BY <1>10, <2>4 DEF StartOpen, TypeOK, RequestsOK, rowVars, historyVars
<1>11. ASSUME NEW r \in Requests, MarkOpened(r)
       PROVE  TypeOK'
  <2> DEFINE theirs == FromOthers(request[r].user, request[r].rows)
             locals == [request[r] EXCEPT !.at = "answering"]
  <2>1. locals \in Request /\ locals.at = "answering" /\ locals.rows = request[r].rows
    BY <1>11, Locals DEF MarkOpened, Request
  <2>2. /\ messages' \in Seq(Message) /\ Len(messages') = Len(messages)
        /\ DOMAIN messages' = DOMAIN messages
        /\ \A i \in DOMAIN messages :
             messages'[i] = [messages[i] EXCEPT !.read = @ \/ i \in theirs]
    BY <1>11, MarkedMessages DEF MarkOpened, TypeOK
  <2>3. RequestsOK'
    <3>1. Goto(r, locals) /\ UNCHANGED notes /\ request[r].rows \subseteq DOMAIN messages
      BY <1>11 DEF MarkOpened, TypeOK
    <3>2. QED
      BY <2>1, <2>2, <3>1, GotoOK
  <2>4. \A i \in DOMAIN messages' : messages'[i].bid \in placed'
    <3>1. \A i \in DOMAIN messages : messages[i] \in Message /\ messages[i].bid \in placed
      BY DEF TypeOK
    <3>2. \A i \in DOMAIN messages : messages'[i].bid = messages[i].bid
      BY <2>2, <3>1 DEF Message
    <3>3. QED
      BY <1>11, <2>2, <3>1, <3>2 DEF MarkOpened
  <2>5. QED
    BY <1>11, <2>2, <2>3, <2>4 DEF MarkOpened, TypeOK, RequestsOK, historyVars
<1>12. ASSUME NEW r \in Requests, request[r].at = "answering"
       PROVE  Opening(r) \subseteq People \X DOMAIN messages
  BY <1>12, Locals DEF TypeOK, Opening, FromOthers
<1>13. ASSUME NEW r \in Requests, Answer(r)
       PROVE  TypeOK'
  <2>1. RequestsOK'
    BY <1>13, EndOK DEF Answer, rowVars
  <2>2. shown' \subseteq People \X DOMAIN messages
    BY <1>12, <1>13 DEF Answer, TypeOK
  <2>3. QED
    BY <1>13, <2>1, <2>2 DEF Answer, TypeOK, RequestsOK, rowVars
<1>14. ASSUME NEW u \in People, NEW role \in Roles, SwitchRole(u, role)
       PROVE  TypeOK'
  BY <1>14 DEF SwitchRole, TypeOK, rowVars, historyVars
<1>15. ASSUME NEW r \in Requests, Die(r)
       PROVE  TypeOK'
  <2>1. RequestsOK'
    BY <1>15, EndOK DEF Die, rowVars
  <2>2. lost' \subseteq People \X DOMAIN messages
    BY <1>12, <1>15 DEF Die, TypeOK
  <2>3. QED
    BY <1>15, <2>1, <2>2 DEF Die, TypeOK, RequestsOK, rowVars
<1>16. CASE UNCHANGED vars
  BY <1>16 DEF vars, TypeOK, rowVars, historyVars
<1>17. QED
  BY <1>1, <1>2, <1>3, <1>5, <1>6, <1>7, <1>8, <1>9, <1>10, <1>11, <1>13, <1>14, <1>15, <1>16 DEF Next

\* The tables are always well typed, and what a request is about to mark exists.
THEOREM TypesAlwaysOK == Spec => []TypeOK
<1>1. Spec => Init /\ [][Next]_vars
  BY DEF Spec
<1>2. QED
  BY <1>1, InitTypeOK, NextTypeOK, PTL

--------------------------------------------------------------------------------
\* What is marked as read

\* Whoever opens a thread takes part in it and has read messages of no other.
Opens(r) == request[r].at \in {"opened", "answering"}
ShownInv ==
  /\ ReadMessagesWereShown
  /\ \A r \in Requests : Opens(r) =>
       /\ request[r].user \in Participants(request[r].bid)
       /\ \A i \in request[r].rows : messages[i].bid = request[r].bid

\* Steps that neither open a thread nor write a message.
LEMMA ShownKept ==
  ASSUME TypeOK, ShownInv, UNCHANGED <<messages, shown>>, lost \subseteq lost',
         NEW q \in Requests, request[q].at # "answering",
         \A r \in Requests \ {q} : request'[r] = request[r],
         request'[q].at \notin {"opened", "answering"}
  PROVE  ShownInv'
<1>1. \A u, i : Answering(u, i) => Answering(u, i)'
  BY DEF Answering
<1>2. ReadMessagesWereShown'
  BY <1>1 DEF ShownInv, ReadMessagesWereShown, Participants
<1>3. ASSUME NEW r \in Requests, Opens(r)'
      PROVE  /\ request'[r].user \in Participants(request'[r].bid)
             /\ \A i \in request'[r].rows : messages'[i].bid = request'[r].bid
  <2>1. request'[r] = request[r]
    BY <1>3 DEF Opens
  <2>2. QED
    BY <1>3, <2>1 DEF ShownInv, Opens
<1>4. QED
  BY <1>2, <1>3 DEF ShownInv, Participants

LEMMA NextShown == TypeOK /\ ShownInv /\ [Next]_vars => ShownInv'
<1> SUFFICES ASSUME TypeOK, ShownInv, [Next]_vars PROVE ShownInv'
  OBVIOUS
<1>1. ASSUME NEW r \in Requests, NEW locals, Goto(r, locals),
             locals.at \notin {"opened", "answering"}, request[r].at # "answering",
             UNCHANGED <<messages, shown, lost>>
      PROVE  ShownInv'
  BY <1>1, ShownKept DEF Goto, TypeOK
<1>2. ASSUME NEW r \in Requests, End(r), request[r].at # "answering",
             UNCHANGED <<messages, shown, lost>>
      PROVE  ShownInv'
  BY <1>1, <1>2 DEF End
<1>3. ASSUME NEW r \in Requests,
             \/ \E b \in Bids : PlaceBid(r, b) \/ \E event \in Decisions : Decide(r, b, event)
             \/ \E u \in People : StartMarkAll(r, u)
      PROVE  ShownInv'
  BY <1>1, <1>3 DEF PlaceBid, Decide, StartMarkAll, Idle, rowVars, historyVars
<1>4. ASSUME NEW r \in Requests, Mail(r)
      PROVE  ShownInv'
  <2>1. [request[r] EXCEPT !.at = "reporting"].at \notin {"opened", "answering"}
    BY <1>4, Locals DEF Mail
  <2>2. QED
    BY <1>1, <1>4, <2>1 DEF Mail, rowVars
<1>5. ASSUME NEW r \in Requests, Report(r) \/ MarkAll(r)
      PROVE  ShownInv'
  BY <1>2, <1>5 DEF Report, MarkAll, rowVars, historyVars
<1>6. ASSUME NEW u \in People, NEW b \in Bids, PostMessage(u, b)
      PROVE  ShownInv'
  <2> DEFINE new == [bid |-> b, from |-> u, read |-> FALSE]
  <2>1. /\ messages' = Append(messages, new) /\ messages \in Seq(Message)
        /\ UNCHANGED <<request, shown, lost>>
    BY <1>6 DEF PostMessage, TypeOK, historyVars
  <2>2. /\ DOMAIN messages' = DOMAIN messages \union {Len(messages) + 1}
        /\ \A i \in DOMAIN messages : messages'[i] = messages[i]
        /\ messages'[Len(messages) + 1].read = FALSE
    BY <2>1
  <2>3. \A r \in Requests : Opens(r) => request[r].rows \subseteq DOMAIN messages
    BY DEF TypeOK, Opens
  <2>4. ReadMessagesWereShown'
    <3>1. \A v, i : Answering(v, i) => Answering(v, i)'
      BY <2>1 DEF Answering
    <3>2. QED
      BY <2>1, <2>2, <3>1 DEF ShownInv, ReadMessagesWereShown, Participants
  <2>5. ASSUME NEW r \in Requests, Opens(r)'
        PROVE  /\ request'[r].user \in Participants(request'[r].bid)
               /\ \A i \in request'[r].rows : messages'[i].bid = request'[r].bid
    BY <2>1, <2>2, <2>3, <2>5 DEF ShownInv, Opens
  <2>6. QED
    BY <2>4, <2>5 DEF ShownInv, Participants
<1>7. ASSUME NEW r \in Requests, NEW u \in People, NEW b \in Bids, StartOpen(r, u, b)
      PROVE  ShownInv'
  <2> DEFINE locals == [at |-> "opened", user |-> u, bid |-> b, rows |-> Thread(b)]
  <2>1. /\ u \in Participants(b) /\ \A i \in Thread(b) : messages[i].bid = b
        /\ request[r].at = "idle" /\ UNCHANGED <<messages, shown, lost>>
    BY <1>7 DEF StartOpen, Idle, Thread, rowVars, historyVars
  <2>2. request' = [request EXCEPT ![r] = locals]
    BY <1>7 DEF StartOpen, Goto
  <2>3. \A v, i : Answering(v, i) => Answering(v, i)'
    BY <2>1, <2>2 DEF Answering, TypeOK
  <2>4. ReadMessagesWereShown'
    BY <2>1, <2>3 DEF ShownInv, ReadMessagesWereShown, Participants
  <2>5. QED
    BY <2>1, <2>2, <2>4 DEF ShownInv, Opens, Participants, TypeOK
<1>8. ASSUME NEW r \in Requests, MarkOpened(r)
      PROVE  ShownInv'
  <2> PICK u : u = request[r].user
    OBVIOUS
  <2> PICK theirs : theirs = FromOthers(u, request[r].rows)
    OBVIOUS
  <2>1. /\ messages' = Read(messages, theirs) /\ UNCHANGED <<shown, lost>>
        /\ request[r].at = "opened"
        /\ request[r] \in [at : {"opened", "answering"}, user : People, bid : Bids,
                           rows : SUBSET (1 .. MaxMessages)]
        /\ request' = [request EXCEPT ![r] = [@ EXCEPT !.at = "answering"]]
    BY <1>8, Locals DEF MarkOpened, Goto, historyVars
  <2>2. /\ DOMAIN messages' = DOMAIN messages
        /\ \A i \in DOMAIN messages :
             /\ messages'[i].bid = messages[i].bid /\ messages'[i].from = messages[i].from
             /\ messages'[i].read => messages[i].read \/ i \in theirs
    <3>1. /\ DOMAIN messages' = DOMAIN messages
          /\ \A i \in DOMAIN messages :
               messages'[i] = [messages[i] EXCEPT !.read = @ \/ i \in theirs]
      BY <2>1, MarkedMessages DEF TypeOK
    <3>2. \A i \in DOMAIN messages : messages[i] \in Message
      BY DEF TypeOK
    <3>3. QED
      BY <3>1, <3>2 DEF Message
  <2>3. /\ request'[r].at = "answering" /\ request'[r].user = u
        /\ request'[r].bid = request[r].bid /\ request'[r].rows = request[r].rows
        /\ \A q \in Requests \ {r} : request'[q] = request[q]
    BY <2>1 DEF TypeOK
  <2>4. \A v, i : Answering(v, i) => Answering(v, i)'
    BY <2>1, <2>3 DEF Answering
  <2>5. ASSUME NEW i \in theirs
        PROVE  u \in Participants(messages[i].bid) \ {messages[i].from} /\ Answering(u, i)'
    BY <2>1, <2>3, <2>5 DEF ShownInv, Opens, FromOthers, Answering
  <2>6. ReadMessagesWereShown'
    <3> SUFFICES ASSUME NEW i \in DOMAIN messages, messages'[i].read
                 PROVE  \E v \in Participants(messages'[i].bid) \ {messages'[i].from} :
                          <<v, i>> \in shown' \union lost' \/ Answering(v, i)'
      BY <2>2 DEF ReadMessagesWereShown, Participants
    <3>1. CASE i \in theirs
      <4>1. u \in Participants(messages'[i].bid) \ {messages'[i].from} /\ Answering(u, i)'
        BY <2>2, <2>5, <3>1
      <4>2. QED
        BY <4>1
    <3>2. CASE messages[i].read
      BY <2>1, <2>2, <2>4, <3>2 DEF ShownInv, ReadMessagesWereShown
    <3>3. QED
      BY <2>2, <3>1, <3>2
  <2>7. ASSUME NEW q \in Requests, Opens(q)'
        PROVE  /\ request'[q].user \in Participants(request'[q].bid)
               /\ \A i \in request'[q].rows : messages'[i].bid = request'[q].bid
    <3>1. /\ Opens(q) /\ request'[q].user = request[q].user
          /\ request'[q].bid = request[q].bid /\ request'[q].rows = request[q].rows
      BY <2>1, <2>3, <2>7 DEF Opens
    <3>2. request[q].rows \subseteq DOMAIN messages
      BY <3>1 DEF TypeOK, Opens
    <3>3. QED
      BY <2>2, <3>1, <3>2 DEF ShownInv
  <2>8. QED
    BY <2>6, <2>7 DEF ShownInv, Participants
<1>9. ASSUME NEW r \in Requests, Answer(r) \/ Die(r)
      PROVE  ShownInv'
  <2>1. /\ UNCHANGED messages /\ shown \subseteq shown' /\ lost \subseteq lost' /\ End(r)
        /\ request[r].at = "answering" => Opening(r) \subseteq shown' \union lost'
    BY <1>9 DEF Answer, Die, rowVars
  <2>2. /\ request'[r].at = "idle" /\ \A q \in Requests \ {r} : request'[q] = request[q]
    BY <2>1 DEF End, Goto, TypeOK
  <2>3. ASSUME NEW i \in DOMAIN messages,
               NEW u \in Participants(messages[i].bid) \ {messages[i].from}, Answering(u, i)
        PROVE  <<u, i>> \in shown' \union lost' \/ Answering(u, i)'
    <3>1. PICK q \in Requests :
            request[q].at = "answering" /\ request[q].user = u /\ i \in request[q].rows
      BY <2>3 DEF Answering
    <3>2. CASE q = r
      BY <2>1, <2>3, <3>1, <3>2 DEF Opening, FromOthers
    <3>3. CASE q # r
      BY <2>2, <3>1, <3>3 DEF Answering
    <3>4. QED
      BY <3>2, <3>3
  <2>4. ReadMessagesWereShown'
    BY <2>1, <2>3 DEF ShownInv, ReadMessagesWereShown, Participants
  <2>5. ASSUME NEW q \in Requests, Opens(q)'
        PROVE  /\ request'[q].user \in Participants(request'[q].bid)
               /\ \A i \in request'[q].rows : messages'[i].bid = request'[q].bid
    BY <2>1, <2>2, <2>5 DEF ShownInv, Opens
  <2>6. QED
    BY <2>4, <2>5 DEF ShownInv, Participants
<1>10. ASSUME UNCHANGED <<messages, shown, lost, request>>
       PROVE  ShownInv'
  <2>1. \A u, i : Answering(u, i) => Answering(u, i)'
    BY <1>10 DEF Answering
  <2>2. ReadMessagesWereShown'
    BY <1>10, <2>1 DEF ShownInv, ReadMessagesWereShown, Participants
  <2>3. QED
    BY <1>10, <2>2 DEF ShownInv, Opens, Participants
<1>11. ASSUME NEW u \in People,
              (\E i \in DOMAIN notes : MarkRead(u, i)) \/ (\E role \in Roles : SwitchRole(u, role))
       PROVE  ShownInv'
  BY <1>10, <1>11 DEF MarkRead, SwitchRole, rowVars, historyVars
<1>12. CASE UNCHANGED vars
  BY <1>10, <1>12 DEF vars, rowVars, historyVars
<1>13. QED
  BY <1>3, <1>4, <1>5, <1>6, <1>7, <1>8, <1>9, <1>11, <1>12 DEF Next

\* A message that counts as read was answered to somebody other than its sender, or
\* was marked by a request that had read it and is to answer it or has died.
THEOREM ReadMessagesAreShown == Spec => []ReadMessagesWereShown
<1>1. Spec => Init /\ [][Next]_vars /\ []TypeOK
  BY TypesAlwaysOK DEF Spec
<1>2. Init => ShownInv
  BY DEF Init, ShownInv, ReadMessagesWereShown, Opens
<1>3. ShownInv => ReadMessagesWereShown
  BY DEF ShownInv
<1>4. QED
  BY <1>1, <1>2, <1>3, NextShown, PTL

--------------------------------------------------------------------------------
\* What a request is about to mark was asked for.
AskedInv ==
  /\ NothingMarkedBlindly
  /\ \A r \in Requests : request[r].at = "marking" => request[r].rows \subseteq asked

\* Steps that leave the notifications alone and do not mark.
LEMMA AskedKept ==
  ASSUME AskedInv, UNCHANGED notes, asked \subseteq asked',
         \A r \in Requests : request'[r].at = "marking" => request'[r] = request[r]
  PROVE  AskedInv'
BY DEF AskedInv, NothingMarkedBlindly

\* A new notification is unread.
LEMMA AskedNew ==
  ASSUME TypeOK, AskedInv, NEW b, NEW event, NEW side,
         notes' = Append(notes, NewNote(b, event, side)), UNCHANGED asked,
         \A r \in Requests : request'[r].at = "marking" => request'[r] = request[r]
  PROVE  AskedInv'
<1>1. /\ DOMAIN notes' = DOMAIN notes \union {Len(notes) + 1}
      /\ \A i \in DOMAIN notes : notes'[i] = notes[i]
      /\ notes'[Len(notes) + 1].read = FALSE
  BY DEF TypeOK, NewNote
<1>2. QED
  BY <1>1 DEF AskedInv, NothingMarkedBlindly

\* Marking what was asked for.
LEMMA AskedMarked ==
  ASSUME TypeOK, AskedInv, NEW ids \in SUBSET asked', notes' = Read(notes, ids),
         asked \subseteq asked',
         \A r \in Requests : request'[r].at = "marking" => request'[r] = request[r]
  PROVE  AskedInv'
<1>1. /\ DOMAIN notes' = DOMAIN notes
      /\ \A i \in DOMAIN notes : notes'[i] = [notes[i] EXCEPT !.read = @ \/ i \in ids]
  BY MarkedNotes DEF TypeOK
<1>2. \A i \in DOMAIN notes : notes[i] \in Note
  BY DEF TypeOK
<1>3. \A i \in DOMAIN notes : notes'[i].read => notes[i].read \/ i \in ids
  BY <1>1, <1>2 DEF Note
<1>4. QED
  BY <1>1, <1>3 DEF AskedInv, NothingMarkedBlindly

LEMMA NextAsked == TypeOK /\ AskedInv /\ [Next]_vars => AskedInv'
<1> SUFFICES ASSUME TypeOK, AskedInv, [Next]_vars PROVE AskedInv'
  OBVIOUS
<1>1. ASSUME NEW r \in Requests, NEW locals, Goto(r, locals), locals.at # "marking"
      PROVE  \A q \in Requests : request'[q].at = "marking" => request'[q] = request[q]
  BY <1>1 DEF Goto, TypeOK
<1>2. ASSUME NEW r \in Requests, End(r)
      PROVE  \A q \in Requests : request'[q].at = "marking" => request'[q] = request[q]
  BY <1>1, <1>2 DEF End
<1>3. ASSUME NEW r \in Requests, NEW b \in Bids,
             \/ PlaceBid(r, b) \/ \E event \in Decisions : Decide(r, b, event)
             \/ \E u \in People : StartOpen(r, u, b)
      PROVE  AskedInv'
  BY <1>1, <1>3, AskedKept DEF PlaceBid, Decide, StartOpen, rowVars, historyVars
<1>4. ASSUME NEW r \in Requests, Mail(r)
      PROVE  AskedInv'
  <2>1. [request[r] EXCEPT !.at = "reporting"].at # "marking"
    BY <1>4, Locals DEF Mail
  <2>2. QED
    BY <1>1, <1>4, <2>1, AskedKept DEF Mail, rowVars
<1>5. ASSUME NEW r \in Requests, Report(r)
      PROVE  AskedInv'
  BY <1>2, <1>5, AskedNew DEF Report, historyVars
<1>6. ASSUME NEW r \in Requests, Answer(r) \/ Die(r)
      PROVE  AskedInv'
  BY <1>2, <1>6, AskedKept DEF Answer, Die, rowVars
<1>7. ASSUME NEW r \in Requests, MarkAll(r)
      PROVE  AskedInv'
  BY <1>2, <1>7, AskedMarked DEF MarkAll, AskedInv, historyVars
<1>8. ASSUME NEW r \in Requests, NEW u \in People, StartMarkAll(r, u)
      PROVE  AskedInv'
  <2> DEFINE ids == {i \in Unread(u) : InAudience(u, i)}
             locals == [at |-> "marking", user |-> u, rows |-> ids]
  <2>1. /\ request' = [request EXCEPT ![r] = locals]
        /\ asked' = asked \union ids /\ UNCHANGED notes
    BY <1>8 DEF StartMarkAll, Goto, rowVars
  <2>2. QED
    BY <2>1 DEF AskedInv, NothingMarkedBlindly, TypeOK
<1>9. ASSUME NEW u \in People, NEW i \in DOMAIN notes, MarkRead(u, i)
      PROVE  AskedInv'
  BY <1>9, AskedMarked DEF MarkRead
<1>10. ASSUME NEW u \in People, NEW b \in Bids, PostMessage(u, b)
       PROVE  AskedInv'
  BY <1>10, AskedNew DEF PostMessage, historyVars
<1>11. ASSUME NEW u \in People, NEW role \in Roles, SwitchRole(u, role)
       PROVE  AskedInv'
  BY <1>11, AskedKept DEF SwitchRole, rowVars, historyVars
<1>12. ASSUME NEW r \in Requests, MarkOpened(r)
       PROVE  AskedInv'
  <2>1. [request[r] EXCEPT !.at = "answering"].at # "marking"
    BY <1>12, Locals DEF MarkOpened
  <2>2. QED
    BY <1>1, <1>12, <2>1, AskedKept DEF MarkOpened, historyVars
<1>13. CASE UNCHANGED vars
  BY <1>13, AskedKept DEF vars, rowVars, historyVars
<1>14. QED
  BY <1>3, <1>4, <1>5, <1>6, <1>7, <1>8, <1>9, <1>10, <1>11, <1>12, <1>13 DEF Next

\* A notification is marked only when its user asked for it.
THEOREM MarksAreAskedFor == Spec => []NothingMarkedBlindly
<1>1. Spec => Init /\ [][Next]_vars /\ []TypeOK
  BY TypesAlwaysOK DEF Spec
<1>2. Init => AskedInv
  BY DEF Init, AskedInv, NothingMarkedBlindly
<1>3. AskedInv => NothingMarkedBlindly
  BY DEF AskedInv
<1>4. QED
  BY <1>1, <1>2, <1>3, NextAsked, PTL

--------------------------------------------------------------------------------
\* The inbox and the mail

\* A request that is still to write the notification of an event.
Pending == {"mailing", "reporting"}
Telling(b, event, steps) ==
  \E r \in Requests : request[r].at \in steps /\ request[r].bid = b /\ request[r].event = event

\* Whatever is placed or mailed was heard of, or some request is about to tell it.
NewsInv ==
  \A b \in Bids \ broken :
    /\ b \in placed => Heard(b, "bid_placed") \/ Telling(b, "bid_placed", Pending)
    /\ \A event \in ToAgent \union ToManager :
         <<b, event>> \in mailed => Heard(b, event) \/ Telling(b, event, {"reporting"})

\* The rows there are keep what they tell.
KeepsNotes ==
  /\ DOMAIN notes \subseteq DOMAIN notes'
  /\ \A i \in DOMAIN notes : notes'[i].bid = notes[i].bid /\ notes'[i].event = notes[i].event

LEMMA MarkingKeepsNotes ==
  ASSUME TypeOK, NEW ids, notes' = Read(notes, ids)
  PROVE  KeepsNotes
<1>1. notes \in Seq(Note)
  BY DEF TypeOK
<1>2. /\ DOMAIN notes' = DOMAIN notes
      /\ \A i \in DOMAIN notes : notes'[i] = [notes[i] EXCEPT !.read = @ \/ i \in ids]
  BY <1>1, MarkedNotes
<1>3. ASSUME NEW i \in DOMAIN notes
      PROVE  notes'[i].bid = notes[i].bid /\ notes'[i].event = notes[i].event
  <2>1. notes[i] \in Note
    BY <1>1
  <2>2. QED
    BY <1>2, <2>1 DEF Note
<1>4. QED
  BY <1>2, <1>3 DEF KeepsNotes

LEMMA AppendingKeepsNotes ==
  ASSUME TypeOK, NEW n \in Note, notes' = Append(notes, n)
  PROVE  /\ KeepsNotes
         /\ Len(notes) + 1 \in DOMAIN notes' /\ notes'[Len(notes) + 1] = n
<1>1. notes \in Seq(Note)
  BY DEF TypeOK
<1>2. QED
  BY <1>1 DEF KeepsNotes

LEMMA HeardStays ==
  ASSUME KeepsNotes, NEW b, NEW event, Heard(b, event)
  PROVE  Heard(b, event)'
BY DEF KeepsNotes, Heard

\* Nothing new is placed or mailed, and a request that has something to tell
\* stays as it is or breaks its bid.
LEMMA NewsKept ==
  ASSUME NewsInv, KeepsNotes, UNCHANGED <<placed, mailed>>, broken \subseteq broken',
         \A r \in Requests : request[r].at \in Pending /\ request[r].bid \notin broken' =>
                               request'[r] = request[r]
  PROVE  NewsInv'
<1>1. ASSUME NEW b \in Bids \ broken', NEW event, NEW steps \in SUBSET Pending,
             Telling(b, event, steps)
      PROVE  Telling(b, event, steps)'
  BY <1>1 DEF Telling, Pending
<1>2. QED
  BY <1>1, HeardStays DEF NewsInv, Pending

LEMMA NextNews == TypeOK /\ NewsInv /\ [Next]_vars => NewsInv'
<1> SUFFICES ASSUME TypeOK, NewsInv, [Next]_vars PROVE NewsInv'
  OBVIOUS
<1>1. UNCHANGED notes => KeepsNotes
  BY DEF KeepsNotes
<1>2. ASSUME NEW r \in Requests, request[r].at \notin Pending, UNCHANGED <<notes, placed, mailed>>,
             broken \subseteq broken', \A q \in Requests \ {r} : request'[q] = request[q]
      PROVE  NewsInv'
  BY <1>1, <1>2, NewsKept
<1>3. ASSUME NEW r \in Requests, NEW b \in Bids, PlaceBid(r, b)
      PROVE  NewsInv'
  <2> DEFINE locals == [at |-> "mailing", bid |-> b, event |-> "bid_placed"]
  <2>1. /\ request'[r] = locals /\ request[r].at = "idle"
        /\ \A q \in Requests \ {r} : request'[q] = request[q]
    BY <1>3 DEF PlaceBid, Idle, Goto, TypeOK
  <2>2. Telling(b, "bid_placed", Pending)'
    BY <2>1 DEF Telling, Pending
  <2>3. ASSUME NEW o, NEW event, NEW steps \in SUBSET Pending, Telling(o, event, steps)
        PROVE  Telling(o, event, steps)'
    BY <2>1, <2>3 DEF Telling, Pending
  <2>4. /\ placed' = placed \union {b} /\ UNCHANGED <<notes, mailed, broken>>
    BY <1>3 DEF PlaceBid, historyVars
  <2>5. QED
    BY <1>1, <2>2, <2>3, <2>4, HeardStays DEF NewsInv, Pending
<1>4. ASSUME NEW r \in Requests, Mail(r)
      PROVE  NewsInv'
  <2>1. /\ request[r].at = "mailing"
        /\ request[r] \in [at : {"mailing", "reporting"}, bid : Bids,
                           event : ToAgent \union ToManager]
    BY <1>4, Locals DEF Mail
  <2> PICK b \in Bids, event \in ToAgent \union ToManager :
        b = request[r].bid /\ event = request[r].event
    BY <2>1
  <2>2. /\ request'[r] = [request[r] EXCEPT !.at = "reporting"]
        /\ \A q \in Requests \ {r} : request'[q] = request[q]
    BY <1>4 DEF Mail, Goto, TypeOK
  <2>3. request'[r].at = "reporting" /\ request'[r].bid = b /\ request'[r].event = event
    BY <2>1, <2>2
  <2>4. ASSUME NEW o, NEW e, Telling(o, e, Pending)
        PROVE  Telling(o, e, Pending)'
    BY <2>2, <2>3, <2>4 DEF Telling, Pending
  <2>5. ASSUME NEW o, NEW e, Telling(o, e, {"reporting"})
        PROVE  Telling(o, e, {"reporting"})'
    BY <2>1, <2>2, <2>5 DEF Telling
  <2>6. Telling(b, event, {"reporting"})'
    BY <2>3 DEF Telling
  <2>7. /\ mailed' \subseteq mailed \union {<<b, event>>} /\ UNCHANGED <<placed, notes, broken>>
    BY <1>4 DEF Mail, rowVars
  <2>8. KeepsNotes
    BY <1>1, <2>7
  <2>9. ASSUME NEW o \in Bids \ broken, o \in placed
        PROVE  Heard(o, "bid_placed")' \/ Telling(o, "bid_placed", Pending)'
    BY <2>4, <2>8, <2>9, HeardStays DEF NewsInv
  <2>10. ASSUME NEW o \in Bids \ broken, NEW e \in ToAgent \union ToManager, <<o, e>> \in mailed
         PROVE  Heard(o, e)' \/ Telling(o, e, {"reporting"})'
    BY <2>5, <2>8, <2>10, HeardStays DEF NewsInv
  <2>11. QED
    BY <2>6, <2>7, <2>9, <2>10 DEF NewsInv, Pending
<1>5. ASSUME NEW r \in Requests, Report(r)
      PROVE  NewsInv'
  <2> PICK b \in Bids, event \in ToAgent \union ToManager :
        b = request[r].bid /\ event = request[r].event
    BY <1>5, Locals DEF Report
  <2> DEFINE new == NewNote(b, event, SideOf(event))
  <2>1. new \in Note /\ new.bid = b /\ new.event = event
    BY DEF NewNote, SideOf, Note, Sides
  <2>2. KeepsNotes /\ Heard(b, event)'
    <3>1. notes' = Append(notes, new)
      BY <1>5 DEF Report
    <3> HIDE DEF new
    <3>2. QED
      BY <2>1, <3>1, AppendingKeepsNotes DEF Heard
  <2>3. \A q \in Requests \ {r} : request'[q] = request[q]
    BY <1>5 DEF Report, End, Goto, TypeOK
  <2>4. ASSUME NEW o, NEW e, NEW steps, Telling(o, e, steps)
        PROVE  Heard(o, e)' \/ Telling(o, e, steps)'
    BY <2>2, <2>3, <2>4 DEF Telling
  <2>5. UNCHANGED <<placed, mailed, broken>>
    BY <1>5 DEF Report, historyVars
  <2>6. QED
    BY <2>2, <2>4, <2>5, HeardStays DEF NewsInv
<1>6. ASSUME NEW r \in Requests, NEW b \in Bids,
             \/ \E event \in Decisions : Decide(r, b, event)
             \/ \E u \in People : StartOpen(r, u, b)
      PROVE  NewsInv'
  BY <1>2, <1>6 DEF Decide, StartOpen, Idle, Goto, Pending, rowVars, historyVars, TypeOK
<1>7. ASSUME NEW r \in Requests, \E u \in People : StartMarkAll(r, u)
      PROVE  NewsInv'
  BY <1>2, <1>7 DEF StartMarkAll, Idle, Goto, Pending, rowVars, TypeOK
<1>8. ASSUME NEW r \in Requests, MarkAll(r) \/ MarkOpened(r) \/ Answer(r)
      PROVE  NewsInv'
  <2>1. request[r].at \notin Pending /\ \A q \in Requests \ {r} : request'[q] = request[q]
    BY <1>8 DEF MarkAll, MarkOpened, Answer, End, Goto, Pending, TypeOK
  <2>2. KeepsNotes
    BY <1>1, <1>8, MarkingKeepsNotes DEF MarkAll, MarkOpened, Answer, rowVars
  <2>3. UNCHANGED <<placed, mailed, broken>>
    BY <1>8 DEF MarkAll, MarkOpened, Answer, rowVars, historyVars
  <2>4. QED
    BY <2>1, <2>2, <2>3, NewsKept
<1>9. ASSUME NEW r \in Requests, Die(r)
      PROVE  NewsInv'
  <2>1. /\ broken \subseteq broken' /\ (request[r].at \in Pending => request[r].bid \in broken')
        /\ \A q \in Requests \ {r} : request'[q] = request[q]
        /\ UNCHANGED <<notes, placed, mailed>>
    BY <1>9 DEF Die, End, Goto, Pending, rowVars, TypeOK
  <2>2. QED
    BY <1>1, <2>1, NewsKept
<1>10. ASSUME NEW u \in People, NEW b \in Bids, PostMessage(u, b)
       PROVE  NewsInv'
  <2>1. NewNote(b, "message", AddresseeSide(u, b)) \in Note
    BY DEF NewNote, AddresseeSide, Note, Sides
  <2>2. KeepsNotes
    BY <1>10, <2>1, AppendingKeepsNotes DEF PostMessage
  <2>3. QED
    BY <1>10, <2>2, NewsKept DEF PostMessage, historyVars
<1>11. ASSUME NEW u \in People, NEW i \in DOMAIN notes, MarkRead(u, i)
       PROVE  NewsInv'
  BY <1>11, MarkingKeepsNotes, NewsKept DEF MarkRead
<1>12. ASSUME NEW u \in People, NEW role \in Roles, SwitchRole(u, role)
       PROVE  NewsInv'
  BY <1>1, <1>12, NewsKept DEF SwitchRole, rowVars, historyVars
<1>13. CASE UNCHANGED vars
  BY <1>1, <1>13, NewsKept DEF vars, rowVars, historyVars
<1>14. QED
  BY <1>3, <1>4, <1>5, <1>6, <1>7, <1>8, <1>9, <1>10, <1>11, <1>12, <1>13 DEF Next

\* The inbox has every bid and everything the mail says about it, unless a request on
\* the bid is under way or has died.
THEOREM InboxKeepsUp == Spec => []InboxKeepsUpWithMail
<1>1. Spec => Init /\ [][Next]_vars /\ []TypeOK
  BY TypesAlwaysOK DEF Spec
<1>2. Init => NewsInv
  BY DEF Init, NewsInv
<1>3. NewsInv => InboxKeepsUpWithMail
  <2>1. \A b, event : /\ Telling(b, event, Pending) => InFlight(b)
                      /\ Telling(b, event, {"reporting"}) => InFlight(b)
    BY DEF Telling, InFlight, Pending
  <2>2. Decisions \subseteq ToAgent \union ToManager
    BY PartiesAssumption
  <2>3. QED
    BY <2>1, <2>2 DEF NewsInv, InboxKeepsUpWithMail
<1>4. QED
  BY <1>1, <1>2, <1>3, NextNews, PTL
================================================================================
