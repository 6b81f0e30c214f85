--------------------------------- MODULE Inbox ---------------------------------
(***************************************************************************)
(* What people hear of each other: the notifications and e-mails that the  *)
(* handlers of bids send (services/notification_service.py) and the        *)
(* threads of messages on bids, with the endpoints that read and mark them *)
(* (api/v1/inbox.py).                                                      *)
(*                                                                         *)
(* A request is cut where another may come between its reads and its       *)
(* commit; what it changes is its own until then.  Which decision a        *)
(* handler takes on a bid is left open here (module Announcements has it). *)
(***************************************************************************)
EXTENDS Integers, Sequences, FiniteSets

CONSTANTS
  People,       \* users
  Bids,         \* the bids that can be placed: each is a thread as well
  AgentOf,      \* Bid.agent_id
  ManagerOf,    \* Property.manager_id of each bid
  RolesOf,      \* the roles each user can make active
  Requests,     \* the requests that can be in flight at once
  Decisions,    \* bound: the events besides bid_placed that are reported
  MaxNotes,     \* bound: how many notifications ...
  MaxMessages   \* bound: ... and messages are written

ToAgent == {"bid_accepted", "bid_held", "bid_rejected", "bid_countered", "payment_confirmed"}
ToManager == {"bid_placed", "bid_withdrawn", "payment_initiated"}
Sides == {"agent", "manager"}
Roles == Sides \union {"admin"}

ASSUME PartiesAssumption ==
  /\ AgentOf \in [Bids -> People] /\ ManagerOf \in [Bids -> People]
  /\ RolesOf \in [People -> SUBSET Roles]
  /\ Decisions \subseteq (ToAgent \union ToManager) \ {"bid_placed"}
ASSUME BoundsAssumption == MaxNotes \in Nat /\ MaxMessages \in Nat

VARIABLES
  activeRole, \* User.active_role
  placed,     \* the bids there are
  notes,      \* the notifications, oldest first
  messages,   \* the messages of all threads, oldest first
  request,    \* where each request is, and what it read
  mailed,     \* history: the e-mails that went out, as <<bid, event>>
  broken,     \* history: bids on which a request died
  shown,      \* history: <<user, message>> pairs that were answered
  lost,       \* history: pairs that were marked by a request that died unanswered
  asked       \* history: notifications their user has asked to mark

rowVars == <<placed, notes, messages>>
historyVars == <<mailed, broken, shown, lost, asked>>
vars == <<activeRole, rowVars, request, historyVars>>

Note == [bid : Bids, event : ToAgent \union ToManager \union {"message"}, side : Sides,
         read : BOOLEAN]
Message == [bid : Bids, from : People, read : BOOLEAN]

Init ==
  /\ activeRole \in [People -> Roles] /\ \A u \in People : activeRole[u] \in RolesOf[u]
  /\ placed = {} /\ notes = <<>> /\ messages = <<>>
  /\ request = [r \in Requests |-> [at |-> "idle"]]
  /\ mailed = {} /\ broken = {} /\ shown = {} /\ lost = {} /\ asked = {}

Idle(r) == request[r].at = "idle"
Goto(r, locals) == request' = [request EXCEPT ![r] = locals]
End(r) == Goto(r, [at |-> "idle"])

--------------------------------------------------------------------------------
\* Notifications and e-mails of the handlers (services/notification_service.py)

\* Each helper writes one notification, for the side of the bid it concerns.
SideOf(event) == IF event \in ToAgent THEN "agent" ELSE "manager"
Recipient(n) == IF n.side = "agent" THEN AgentOf[n.bid] ELSE ManagerOf[n.bid]
NewNote(b, event, side) == [bid |-> b, event |-> event, side |-> side, read |-> FALSE]

\* Most mail it as well; of a new bid the agent gets a copy.
HasMail(event) == event # "payment_initiated"

\* place_bid commits the bid and reports it in a second transaction; a later
\* handler writes its decision and its report in one.
PlaceBid(r, b) ==
  /\ Idle(r) /\ b \notin placed
  /\ placed' = placed \union {b}
  /\ Goto(r, [at |-> "mailing", bid |-> b, event |-> "bid_placed"])
  /\ UNCHANGED <<activeRole, notes, messages, historyVars>>

Decide(r, b, event) ==
  /\ Idle(r) /\ b \in placed
  /\ Goto(r, [at |-> "mailing", bid |-> b, event |-> event])
  /\ UNCHANGED <<activeRole, rowVars, historyVars>>

\* The e-mail goes out before the commit, unless its template is missing or
\* switched off or the mail server fails: the handler does not care.
MailOrGiveUp(r) ==  \* variant
  LET q == request[r] IN
  /\ q.at = "mailing"
  /\ \/ HasMail(q.event) /\ mailed' = mailed \union {<<q.bid, q.event>>}
        /\ Goto(r, [q EXCEPT !.at = "reporting"])
     \/ UNCHANGED mailed /\ End(r)
  /\ UNCHANGED <<activeRole, rowVars, broken, shown, lost, asked>>
Mail(r) ==
  LET q == request[r] IN
  /\ q.at = "mailing"
  /\ \/ HasMail(q.event) /\ mailed' = mailed \union {<<q.bid, q.event>>}
     \/ UNCHANGED mailed
  /\ Goto(r, [q EXCEPT !.at = "reporting"])
  /\ UNCHANGED <<activeRole, rowVars, broken, shown, lost, asked>>

Report(r) ==
  LET q == request[r] IN
  /\ q.at = "reporting" /\ Len(notes) < MaxNotes
  /\ notes' = Append(notes, NewNote(q.bid, q.event, SideOf(q.event)))
  /\ End(r)
  /\ UNCHANGED <<activeRole, placed, messages, historyVars>>

--------------------------------------------------------------------------------
\* Reading the notifications (api/v1/inbox.py)

Of(u) == {i \in DOMAIN notes : Recipient(notes[i]) = u}
Unread(u) == {i \in Of(u) : ~ notes[i].read}

\* An agent or a manager sees what is for his side, anyone else everything.
InAudience(u, i) == activeRole[u] \in Sides => notes[i].side = activeRole[u]

Read(rows, ids) == [i \in DOMAIN rows |-> [rows[i] EXCEPT !.read = @ \/ i \in ids]]

MarkRead(u, i) ==
  /\ i \in Unread(u)
  /\ notes' = Read(notes, {i})
  /\ asked' = asked \union {i}
  /\ UNCHANGED <<activeRole, placed, messages, request, mailed, broken, shown, lost>>

\* mark_all_read reads the unread rows of the present role and marks those.
StartMarkAll(r, u) ==
  LET ids == {i \in Unread(u) : InAudience(u, i)} IN
  /\ Idle(r) /\ ids # {}
  /\ Goto(r, [at |-> "marking", user |-> u, rows |-> ids])
  /\ asked' = asked \union ids
  /\ UNCHANGED <<activeRole, rowVars, mailed, broken, shown, lost>>

MarkAllUnread(r) ==  \* variant
  /\ request[r].at = "marking"
  /\ notes' = Read(notes, {i \in Unread(request[r].user) : InAudience(request[r].user, i)})
  /\ End(r)
  /\ UNCHANGED <<activeRole, placed, messages, historyVars>>
MarkAll(r) ==
  /\ request[r].at = "marking"
  /\ notes' = Read(notes, request[r].rows)
  /\ End(r)
  /\ UNCHANGED <<activeRole, placed, messages, historyVars>>

--------------------------------------------------------------------------------
\* Threads

Participants(b) == {AgentOf[b], ManagerOf[b]}

Thread(b) == {i \in DOMAIN messages : messages[i].bid = b}
FromOthers(u, ids) == {i \in ids : messages[i].from # u}

\* A message comes with a notification for the other side; who is both the
\* agent and the manager of a bid writes as its agent.
AddresseeSide(u, b) == IF u = AgentOf[b] THEN "manager" ELSE "agent"
PostMessage(u, b) ==
  /\ b \in placed /\ u \in Participants(b)
  /\ Len(messages) < MaxMessages /\ Len(notes) < MaxNotes
  /\ messages' = Append(messages, [bid |-> b, from |-> u, read |-> FALSE])
  /\ notes' = Append(notes, NewNote(b, "message", AddresseeSide(u, b)))
  /\ UNCHANGED <<activeRole, placed, request, historyVars>>

\* list_messages reads the thread, ...
StartOpen(r, u, b) ==
  /\ Idle(r) /\ b \in placed /\ u \in Participants(b)
  /\ Goto(r, [at |-> "opened", user |-> u, bid |-> b, rows |-> Thread(b)])
  /\ UNCHANGED <<activeRole, rowVars, historyVars>>

\* ... marks what the other one wrote and commits that, ...
MarkAtCommit(r) ==  \* variant
  LET q == request[r] IN
  /\ q.at = "opened"
  /\ messages' = Read(messages, FromOthers(q.user, Thread(q.bid)))
  /\ Goto(r, [q EXCEPT !.at = "answering"])
  /\ UNCHANGED <<activeRole, placed, notes, historyVars>>
MarkOpened(r) ==
  LET q == request[r] IN
  /\ q.at = "opened"
  /\ messages' = Read(messages, FromOthers(q.user, q.rows))
  /\ Goto(r, [q EXCEPT !.at = "answering"])
  /\ UNCHANGED <<activeRole, placed, notes, historyVars>>

\* ... and answers with the rows it read, which do not expire at the commit.
Opening(r) == {request[r].user} \X FromOthers(request[r].user, request[r].rows)
Answer(r) ==
  /\ request[r].at = "answering"
  /\ shown' = shown \union Opening(r)
  /\ End(r)
  /\ UNCHANGED <<activeRole, rowVars, mailed, broken, lost, asked>>

--------------------------------------------------------------------------------
\* People switch between the roles they have (api/v1/users.py).
SwitchRole(u, role) ==
  /\ role \in RolesOf[u] \ {activeRole[u]}
  /\ activeRole' = [activeRole EXCEPT ![u] = role]
  /\ UNCHANGED <<rowVars, request, historyVars>>

\* A request dies before its commit, though the mail it sent is out; or, opening a
\* thread, after its commit and before its answer.
Die(r) ==
  /\ ~ Idle(r)
  /\ broken' = broken \union (IF request[r].at \in {"mailing", "reporting"}
                              THEN {request[r].bid} ELSE {})
  /\ lost' = lost \union (IF request[r].at = "answering" THEN Opening(r) ELSE {})
  /\ End(r)
  /\ UNCHANGED <<activeRole, rowVars, mailed, shown, asked>>

Next ==
  \/ \E r \in Requests :
       \/ \E b \in Bids :
            \/ PlaceBid(r, b)
            \/ \E event \in Decisions : Decide(r, b, event)
            \/ \E u \in People : StartOpen(r, u, b)
       \/ \E u \in People : StartMarkAll(r, u)
       \/ Mail(r) \/ Report(r) \/ MarkAll(r) \/ MarkOpened(r) \/ Answer(r) \/ Die(r)
  \/ \E u \in People :
       \/ \E b \in Bids : PostMessage(u, b)
       \/ \E i \in DOMAIN notes : MarkRead(u, i)
       \/ \E role \in Roles : SwitchRole(u, role)

Spec == Init /\ [][Next]_vars

--------------------------------------------------------------------------------
Request ==
  [at : {"idle"}]
    \union [at : {"mailing", "reporting"}, bid : Bids, event : ToAgent \union ToManager]
    \union [at : {"marking"}, user : People, rows : SUBSET (1 .. MaxNotes)]
    \union [at : {"opened", "answering"}, user : People, bid : Bids, rows : SUBSET (1 .. MaxMessages)]

\* The tables are well typed, and what a request is about to mark exists.
TypeOK ==
  /\ activeRole \in [People -> Roles]
  /\ placed \in SUBSET Bids
  /\ notes \in Seq(Note) /\ Len(notes) <= MaxNotes
  /\ messages \in Seq(Message) /\ Len(messages) <= MaxMessages
  /\ \A i \in DOMAIN messages : messages[i].bid \in placed
  /\ request \in [Requests -> Request]
  /\ \A r \in Requests :
       /\ request[r].at = "marking" => request[r].rows \subseteq DOMAIN notes
       /\ request[r].at \in {"opened", "answering"} => request[r].rows \subseteq DOMAIN messages
  /\ shown \subseteq People \X DOMAIN messages /\ lost \subseteq People \X DOMAIN messages
  /\ asked \subseteq DOMAIN notes

\* A message counts as read only once it was answered to somebody other than its
\* sender: not when it arrived while he was opening the thread.  There is one way
\* around that, which list_messages has because it commits before it answers: the
\* request that marked it, having read it, is still to answer or died in between.
Answering(u, i) ==
  \E r \in Requests :
    request[r].at = "answering" /\ request[r].user = u /\ i \in request[r].rows
ReadMessagesWereShown ==
  \A i \in DOMAIN messages : messages[i].read =>
    \E u \in Participants(messages[i].bid) \ {messages[i].from} :
      <<u, i>> \in shown \union lost \/ Answering(u, i)

\* A notification is marked only when its user asked for it, one by one or as part
\* of the view of the role he then had: nothing that arrived since, and nothing
\* of his other role.
NothingMarkedBlindly == {i \in DOMAIN notes : notes[i].read} \subseteq asked

\* The inbox has every bid and everything the mail says about it, unless a request
\* on the bid is under way or has died ("external delivery is consistent with what
\* the user sees inside the app"; "a flaky SMTP server should never break the bid
\* action").
InFlight(b) ==
  \E r \in Requests : request[r].at \in {"mailing", "reporting"} /\ request[r].bid = b
Heard(b, event) == \E i \in DOMAIN notes : notes[i].bid = b /\ notes[i].event = event
InboxKeepsUpWithMail ==
  \A b \in Bids \ broken : ~ InFlight(b) =>
    /\ b \in placed => Heard(b, "bid_placed")
    /\ \A event \in Decisions : <<b, event>> \in mailed => Heard(b, event)
================================================================================
