----------------------------- MODULE AccountsProofs -----------------------------
(***************************************************************************)
(* Theorems about accounts, for any users, codes and requests in flight.   *)
(***************************************************************************)
EXTENDS Accounts, TLAPS

--------------------------------------------------------------------------------
\* Type correctness

LEMMA IdleIsRequest == Idle \in Request /\ Idle.at = "idle" /\ Idle.user = Nobody
BY DEF Idle, Request, Steps

LEMMA InitTypeOK == Init => TypeOK
<1> SUFFICES ASSUME Init PROVE TypeOK
  OBVIOUS
<1>1. Root \in Users
  BY RootAssumption
<1>2. request \in [Requests -> Request] /\ \A r \in Requests : request[r] = Idle
  BY IdleIsRequest DEF Init
<1>3. QED
  BY <1>1, <1>2, IdleIsRequest DEF Init, TypeOK, Roles, WorkRoles, Verifying

\* A request that starts, advances or ends is a request.
RequestsOK ==
  /\ request \in [Requests -> Request]
  /\ \A r \in Requests :
       /\ request[r].at = "idle" <=> request[r].user = Nobody
       /\ request[r].at \in Verifying => request[r].code \in drawn
       /\ request[r].at = "switching" => request[r].role # "none"

LEMMA StartOK ==
  ASSUME TypeOK, NEW r \in Requests, NEW locals \in Request, Start(r, locals),
         locals.at # "idle", locals.user # Nobody, UNCHANGED drawn,
         locals.at \in Verifying => locals.code \in drawn,
         locals.at = "switching" => locals.role # "none"
  PROVE  RequestsOK' /\ overlapped' \in BOOLEAN
<1>1. RequestsOK'
  BY DEF Start, TypeOK, RequestsOK
<1>2. overlapped' \in BOOLEAN
  BY DEF Start
<1>3. QED
  BY <1>1, <1>2

LEMMA GoOK ==
  ASSUME TypeOK, NEW r \in Requests, NEW at \in Steps \ {"idle"}, Go(r, at),
         request[r].at # "idle", UNCHANGED drawn, at # "switching",
         at \in Verifying => request[r].at \in Verifying
  PROVE  RequestsOK'
<1>1. request[r] \in Request
  BY DEF TypeOK
<1> DEFINE there == [request[r] EXCEPT !.at = at]
<1>2. there \in Request /\ there.at # "idle" /\ there.user = request[r].user
           /\ there.at = at /\ there.code = request[r].code
  BY <1>1 DEF Request
<1>3. QED
  BY <1>2 DEF Go, TypeOK, RequestsOK

LEMMA EndOK ==
  ASSUME TypeOK, NEW r \in Requests, End(r), drawn \subseteq drawn'
  PROVE  RequestsOK'
BY IdleIsRequest DEF End, TypeOK, RequestsOK, Idle, Verifying

\* The user of a request under way is one.
LEMMA UserOfRequest ==
  ASSUME TypeOK, NEW r \in Requests, request[r].at # "idle"
  PROVE  request[r].user \in Users
BY DEF TypeOK, Request

LEMMA BeginTypeOK ==
  ASSUME TypeOK, NEW r \in Requests, NEW u \in Users, Begin(r, u)
  PROVE  TypeOK'
<1>1. u # Nobody
  BY RootAssumption
<1>2. ASSUME NEW locals \in Request, locals.at # "idle", locals.user = u,
             locals.at \in Verifying => locals.code \in drawn,
             locals.at = "switching" => locals.role # "none",
             Start(r, locals), UNCHANGED <<tables, redis, signedIn, log>>
      PROVE  TypeOK'
  BY <1>1, <1>2, StartOK DEF TypeOK, RequestsOK, tables, redis, log
<1>3. ASSUME NEW at \in Steps \ {"idle"}, NEW w \in WorkRoles \union {"none"}
      PROVE  LET locals == [Idle EXCEPT !.at = at, !.user = u, !.role = w]
             IN  /\ locals \in Request /\ locals.at = at /\ locals.user = u
                 /\ locals.role = w
  BY <1>3, IdleIsRequest DEF Request
<1>4. ASSUME NEW w \in WorkRoles, Register(r, u, w) \/ AddRole(r, u, w) \/ SwitchRole(r, u, w)
      PROVE  TypeOK'
  <2>1. CASE Register(r, u, w)
    <3> DEFINE asks == [Idle EXCEPT !.at = "registering", !.user = u, !.role = w]
    <3>1. asks \in Request /\ asks.at = "registering" /\ asks.user = u /\ asks.role = w
      BY <1>3 DEF Steps
    <3>2. Start(r, asks) /\ UNCHANGED <<tables, redis, signedIn, log>>
      BY <2>1 DEF Register
    <3>3. asks.at # "idle" /\ asks.at \notin Verifying
          /\ (asks.at = "switching" => asks.role # "none")
      BY <3>1 DEF Verifying
    <3>4. QED
      BY <1>2, <3>1, <3>2, <3>3
  <2>2. CASE AddRole(r, u, w)
    <3> DEFINE chosen == (IF active[u] = "none" THEN w ELSE "none")
               asks == [Idle EXCEPT !.at = "adding", !.user = u, !.role = chosen]
    <3>0. chosen \in WorkRoles \union {"none"}
      OBVIOUS
    <3>1. /\ asks \in Request /\ asks.at = "adding" /\ asks.user = u
          /\ asks.role = chosen
      <4> HIDE DEF chosen
      <4>1. "adding" \in Steps \ {"idle"}
        BY DEF Steps
      <4>2. QED
        BY <1>3, <3>0, <4>1
    <3>2. Start(r, asks) /\ UNCHANGED <<tables, redis, signedIn, log>>
      BY <2>2 DEF AddRole
    <3>3. asks.at # "idle" /\ asks.at \notin Verifying
          /\ (asks.at = "switching" => asks.role # "none")
      BY <3>1 DEF Verifying
    <3>4. QED
      BY <1>2, <3>1, <3>2, <3>3
  <2>3. CASE SwitchRole(r, u, w)
    <3> DEFINE asks == [Idle EXCEPT !.at = "switching", !.user = u, !.role = w]
    <3>1. asks \in Request /\ asks.at = "switching" /\ asks.user = u /\ asks.role = w
      BY <1>3 DEF Steps
    <3>2. Start(r, asks) /\ UNCHANGED <<tables, redis, signedIn, log>>
      BY <2>3 DEF SwitchRole
    <3>3. asks.at # "idle" /\ asks.at \notin Verifying
          /\ (asks.at = "switching" => asks.role # "none")
      BY <3>1 DEF Verifying, WorkRoles
    <3>4. QED
      BY <1>2, <3>1, <3>2, <3>3
  <2>4. QED
    BY <1>4, <2>1, <2>2, <2>3
<1>5. ASSUME NEW at \in Steps \ {"idle"}
      PROVE  LET locals == [Idle EXCEPT !.at = at, !.user = u]
             IN  locals \in Request /\ locals.at = at /\ locals.user = u
  BY <1>5, IdleIsRequest DEF Request
<1>6. CASE SendCode(r, u)
  BY <1>2, <1>5, <1>6 DEF SendCode, Steps, Verifying
<1>7. ASSUME NEW at \in Administering, Administer(r, u, at)
      PROVE  TypeOK'
  <2>1. PICK a \in Users \ {u} : Start(r, [Idle EXCEPT !.at = at, !.user = u, !.by = a])
    BY <1>7 DEF Administer
  <2> DEFINE asks == [Idle EXCEPT !.at = at, !.user = u, !.by = a]
  <2>2. asks \in Request /\ asks.at = at /\ asks.user = u
    BY <1>7, IdleIsRequest DEF Request, Steps
  <2>3. at \in Steps \ {"idle", "switching"} /\ at \notin Verifying
    BY <1>7 DEF Steps, Administering, Verifying
  <2>4. UNCHANGED <<tables, redis, signedIn, log>>
    BY <1>7 DEF Administer
  <2>5. Start(r, asks)
    BY <2>1
  <2> HIDE DEF asks
  <2>6. QED
    BY <1>2, <2>2, <2>3, <2>4, <2>5
<1>8. ASSUME NEW c \in drawn, VerifyCode(r, u, c)
      PROVE  TypeOK'
  <2>1. PICK w \in WorkRoles \union {"none"}, f \in {"first", "again"} :
          Start(r, [Idle EXCEPT !.at = "finding", !.user = u, !.code = c, !.role = w, !.first = f])
    BY <1>8 DEF VerifyCode, ChosenRole, WorkRoles
  <2> DEFINE asks == [Idle EXCEPT !.at = "finding", !.user = u, !.code = c, !.role = w, !.first = f]
  <2>2. c \in Codes
    BY DEF TypeOK
  <2>3. asks \in Request /\ asks.at = "finding" /\ asks.user = u /\ asks.code = c
    BY <2>2, IdleIsRequest DEF Request, Steps, Verifying
  <2>4. Start(r, asks) /\ UNCHANGED <<tables, redis, signedIn, log>>
    BY <1>8, <2>1 DEF VerifyCode
  <2> HIDE DEF asks
  <2>5. QED
    BY <1>2, <2>3, <2>4
<1>9. QED
  BY <1>4, <1>6, <1>7, <1>8 DEF Begin

LEMMA ContinueTypeOK ==
  ASSUME TypeOK, NEW r \in Requests, Continue(r)
  PROVE  TypeOK'
<1>0. request[r].at # "idle" => /\ request[r].user \in Users
                                /\ request[r].role \in WorkRoles \union {"none"}
                                /\ request[r].code \in Codes \union {NoCode}
  BY UserOfRequest DEF TypeOK, Request
<1>1. CASE InsertUser(r)
  <2>1. RequestsOK'
    BY <1>1, EndOK, GoOK DEF InsertUser, Steps, Verifying, redis
  <2>2. request[r].role \in WorkRoles \union {"none"}
    BY <1>0, <1>1 DEF InsertUser
  <2>3. QED
    BY <1>0, <1>1, <2>1, <2>2 DEF InsertUser, TypeOK, RequestsOK, Roles, redis, log
<1>2. CASE DrawCode(r)
  BY <1>0, <1>2, EndOK DEF DrawCode, TypeOK, RequestsOK, tables, log
<1>3. CASE ReadCode(r)
  <2>1. RequestsOK'
    BY <1>3, EndOK, GoOK DEF ReadCode, Steps, Verifying, redis
  <2>2. QED
    BY <1>3, <2>1 DEF ReadCode, TypeOK, RequestsOK, tables, redis, log
<1>4. CASE DeleteCode(r)
  <2>1. RequestsOK'
    BY <1>4, GoOK DEF DeleteCode, Steps, Verifying
  <2>2. request[r].code \in Codes
    BY <1>4 DEF DeleteCode, TypeOK, Verifying
  <2>3. QED
    BY <1>0, <1>4, <2>1, <2>2 DEF DeleteCode, TypeOK, RequestsOK, tables
<1>5. CASE StoreVerified(r)
  <2>1. RequestsOK'
    BY <1>5, EndOK, GoOK DEF StoreVerified, Steps, Verifying, redis
  <2>2. QED
    BY <1>0, <1>5, <2>1 DEF StoreVerified, TypeOK, RequestsOK, redis, log
<1>6. CASE IssueToken(r)
  BY <1>0, <1>6, EndOK DEF IssueToken, TypeOK, RequestsOK, tables, redis
<1>7. CASE StoreRole(r)
  BY <1>0, <1>7, EndOK DEF StoreRole, TypeOK, RequestsOK, Roles, redis, log
<1>8. CASE StoreActiveRole(r)
  <2>1. request[r].role \in WorkRoles
    BY <1>0, <1>8 DEF StoreActiveRole, TypeOK
  <2>2. QED
    BY <1>0, <1>8, <2>1, EndOK DEF StoreActiveRole, TypeOK, RequestsOK, redis, log
<1>9. CASE StoreEnabled(r)
  BY <1>0, <1>9, EndOK DEF StoreEnabled, TypeOK, RequestsOK, redis, log
<1>10. CASE DeleteUser(r)
  BY <1>0, <1>10, EndOK DEF DeleteUser, TypeOK, RequestsOK, redis, log
<1>11. CASE Fail(r)
  BY <1>11, EndOK DEF Fail, TypeOK, RequestsOK, tables, redis, log
<1>12. QED
  BY <1>1, <1>2, <1>3, <1>4, <1>5, <1>6, <1>7, <1>8, <1>9, <1>10, <1>11 DEF Continue

LEMMA NextTypeOK == TypeOK /\ [Next]_vars => TypeOK'
<1> SUFFICES ASSUME TypeOK, [Next]_vars PROVE TypeOK'
  OBVIOUS
<1>1. ASSUME NEW r \in Requests, Continue(r) \/ \E u \in Users : Begin(r, u)
      PROVE  TypeOK'
  BY <1>1, ContinueTypeOK, BeginTypeOK
<1>2. ASSUME NEW u \in Users, ExpireCode(u)
      PROVE  TypeOK'
  BY <1>2 DEF ExpireCode, TypeOK, tables, log
<1>3. ASSUME NEW u \in Users, ImportManager(u)
      PROVE  TypeOK'
  BY <1>3 DEF ImportManager, TypeOK, Roles, WorkRoles, redis, log
<1>4. CASE UNCHANGED vars
  BY <1>4 DEF vars, TypeOK, tables, redis, log
<1>5. QED
  BY <1>1, <1>2, <1>3, <1>4 DEF Next

\* The tables, keys and requests are always well typed.
THEOREM TypesAlwaysOK == Spec => []TypeOK
<1>1. Spec => Init /\ [][Next]_vars
  BY DEF Spec
<1>2. QED
  BY <1>1, InitTypeOK, NextTypeOK, PTL

--------------------------------------------------------------------------------
\* The roles a user holds

\* Role w may be stored for u: his row is or was there, and if it is, he holds w.
Held(u, w) == role[u] # "none" /\ (Exists(u) /\ w # "none" => w \in RolesOf(role[u]))

\* The active role is one the user holds, and so is the role that a request carries,
\* as long as its user is there.
Carrying == Verifying \union {"switching"}
RolesInv ==
  /\ ActiveRoleIsHeld
  /\ \A u \in Users : role[u] = "none" => active[u] = "none"
  /\ \A r \in Requests :
       request[r].at \in Carrying => Held(request[r].user, request[r].role)

LEMMA InitRoles == Init => RolesInv
BY IdleIsRequest DEF Init, RolesInv, ActiveRoleIsHeld, Carrying, Verifying, WorkRoles

\* This holds since the roles of a row only grow, and a row that is deleted does not
\* come back.
RolesGrow ==
  \A u \in Users :
    \/ role'[u] = role[u]
    \/ role[u] = "none" /\ role'[u] \in Roles
    \/ role[u] \in Roles /\ role'[u] = "both"
    \/ role'[u] = "deleted"

LEMMA HeldStays ==
  ASSUME RolesGrow, NEW u \in Users, NEW w \in WorkRoles \union {"none"}, Held(u, w)
  PROVE  Held(u, w)'
<1>1. CASE role'[u] = role[u]
  BY <1>1 DEF Held, Exists
<1>2. CASE role[u] \in Roles /\ role'[u] = "both"
  BY <1>2 DEF Held, RolesOf, WorkRoles
<1>3. CASE role'[u] = "deleted"
  BY <1>3 DEF Held, Exists, Roles, WorkRoles
<1>4. QED
  BY <1>1, <1>2, <1>3 DEF RolesGrow, Held

\* A request goes on with what it carries, or starts with something held.
CarriesOn(r) ==
  request'[r].at \in Carrying =>
    \/ /\ request[r].at \in Carrying
       /\ request'[r].user = request[r].user /\ request'[r].role = request[r].role
    \/ /\ request'[r].user \in Users
       /\ UNCHANGED role /\ Held(request'[r].user, request'[r].role)

\* The active role of a user stays, goes, or becomes one that was held.
StoresHeld(u) ==
  \/ active'[u] = active[u]
  \/ active'[u] = "none"
  \/ role'[u] = "both"
  \/ active'[u] # "none" /\ Held(u, active'[u])

LEMMA RolesKept ==
  ASSUME TypeOK, TypeOK', RolesInv, RolesGrow,
         \A r \in Requests : CarriesOn(r), \A u \in Users : StoresHeld(u)
  PROVE  RolesInv'
<1>1. ASSUME NEW u \in Users
      PROVE  /\ Exists(u)' /\ active'[u] # "none" => active'[u] \in RolesOf(role'[u])
             /\ role'[u] = "none" => active'[u] = "none"
  <2>1. active'[u] \in WorkRoles \union {"none"}
    BY DEF TypeOK
  <2>2. CASE role'[u] = "both"
    BY <2>1, <2>2 DEF RolesOf, WorkRoles
  <2>3. CASE active'[u] # "none" /\ Held(u, active'[u])
    BY <2>1, <2>3, HeldStays DEF Held, Exists
  <2>4. CASE active'[u] = active[u]
    <3>1. CASE active[u] # "none"
      BY <2>1, <2>3, <2>4, <3>1 DEF RolesInv, ActiveRoleIsHeld, Held
    <3>2. QED
      BY <2>4, <3>1
  <2>5. QED
    BY <2>2, <2>3, <2>4 DEF StoresHeld
<1>2. ASSUME NEW r \in Requests, request'[r].at \in Carrying
      PROVE  Held(request[r].user, request[r].role)'
  <2>1. request'[r].at # "idle" /\ request'[r] \in Request
    BY <1>2 DEF TypeOK, Carrying, Verifying
  <2>2. request'[r].user \in Users /\ request'[r].role \in WorkRoles \union {"none"}
    BY <2>1 DEF TypeOK, Request
  <2>3. Held(request'[r].user, request'[r].role)
    BY <1>2 DEF CarriesOn, RolesInv
  <2>4. QED
    BY <2>2, <2>3, HeldStays DEF Held, Exists
<1>3. QED
  BY <1>1, <1>2 DEF RolesInv, ActiveRoleIsHeld, Exists

--------------------------------------------------------------------------------
LEMMA BeginRoles ==
  ASSUME TypeOK, TypeOK', RolesInv, NEW r \in Requests, NEW u \in Users, Begin(r, u)
  PROVE  RolesInv'
<1>1. UNCHANGED <<role, active>>
  BY DEF Begin, Register, AddRole, SwitchRole, SendCode, VerifyCode, Administer, tables
<1>2. \A q \in Requests \ {r} : request'[q] = request[q]
  <2>1. \E locals : Start(r, locals)
    BY DEF Begin, Register, AddRole, SwitchRole, SendCode, VerifyCode, Administer
  <2>2. PICK locals : request' = [request EXCEPT ![r] = locals]
    BY <2>1 DEF Start
  <2>3. DOMAIN request = Requests
    BY DEF TypeOK
  <2>4. QED
    BY <2>2, <2>3
<1>3. ASSUME request'[r].user = u, Exists(u), request'[r].role \in RolesOf(role[u]) \union {"none"}
      PROVE  CarriesOn(r)
  BY <1>1, <1>3 DEF CarriesOn, Held, Exists, Roles, WorkRoles
<1>4. ASSUME request'[r].at \in Steps \ Carrying
      PROVE  CarriesOn(r)
  BY <1>4 DEF CarriesOn
<1>5. ASSUME NEW w \in WorkRoles, Register(r, u, w) \/ AddRole(r, u, w) \/ SwitchRole(r, u, w)
      PROVE  CarriesOn(r)
  <2>1. CASE Register(r, u, w)
    <3>1. request'[r].at = "registering"
      BY <2>1 DEF Register, Start, Idle, TypeOK
    <3>2. QED
      BY <1>4, <3>1 DEF Steps, Carrying, Verifying
  <2>2. CASE AddRole(r, u, w)
    <3>1. request'[r].at = "adding"
      BY <2>2 DEF AddRole, Start, Idle, TypeOK
    <3>2. QED
      BY <1>4, <3>1 DEF Steps, Carrying, Verifying
  <2>3. CASE SwitchRole(r, u, w)
    <3>1. request'[r].user = u /\ request'[r].role = w
      BY <2>3 DEF SwitchRole, Start, Idle, TypeOK
    <3>2. QED
      BY <1>3, <2>3, <3>1 DEF SwitchRole, MayAct
  <2>4. QED
    BY <1>5, <2>1, <2>2, <2>3
<1>6. ASSUME SendCode(r, u) PROVE CarriesOn(r)
  <2>1. request'[r].at = "drawing"
    BY <1>6 DEF SendCode, Start, Idle, TypeOK
  <2>2. QED
    BY <1>4, <2>1 DEF Steps, Carrying, Verifying
<1>7. ASSUME NEW c \in drawn, VerifyCode(r, u, c)
      PROVE  CarriesOn(r)
  <2>1. request'[r].user = u /\ request'[r].role = ChosenRole(u)
    BY <1>7 DEF VerifyCode, Start, TypeOK, Idle
  <2>2. ChosenRole(u) \in RolesOf(role[u]) \union {"none"}
    BY DEF ChosenRole, RolesOf, WorkRoles
  <2>3. QED
    BY <1>3, <1>7, <2>1, <2>2 DEF VerifyCode
<1>8. ASSUME NEW at \in Administering, Administer(r, u, at)
      PROVE  CarriesOn(r)
  <2>1. request'[r].at \in Administering
    BY <1>8 DEF Administer, Start, Idle, TypeOK
  <2>2. QED
    BY <2>1 DEF CarriesOn, Carrying, Verifying, Administering
<1>9. CarriesOn(r)
  BY <1>5, <1>6, <1>7, <1>8 DEF Begin
<1>10. \A q \in Requests : CarriesOn(q)
  BY <1>2, <1>9 DEF CarriesOn
<1>11. QED
  BY <1>1, <1>10, RolesKept DEF RolesGrow, StoresHeld

LEMMA ContinueRoles ==
  ASSUME TypeOK, TypeOK', RolesInv, NEW r \in Requests, Continue(r)
  PROVE  RolesInv'
<1> DEFINE u == request[r].user
           Others == \A q \in Requests \ {r} : request'[q] = request[q]
<1>1. Others
  BY DEF Continue, InsertUser, DrawCode, ReadCode, DeleteCode, StoreVerified, IssueToken,
         StoreRole, StoreActiveRole, StoreEnabled, DeleteUser, Fail, Go, End, TypeOK
<1>2. ASSUME End(r) PROVE CarriesOn(r)
  BY <1>2, IdleIsRequest DEF End, TypeOK, CarriesOn, Carrying, Verifying
<1>3. ASSUME NEW at \in Steps, Go(r, at), request[r].at \in Verifying
      PROVE  CarriesOn(r)
  BY <1>3 DEF Go, TypeOK, CarriesOn, Carrying, Request
<1>4. ASSUME CarriesOn(r), UNCHANGED <<role, active>>
      PROVE  RolesInv'
  BY <1>1, <1>4, RolesKept DEF CarriesOn, RolesGrow, StoresHeld
<1>5. request[r].at # "idle" => u \in Users /\ request[r].role \in WorkRoles \union {"none"}
  BY UserOfRequest DEF TypeOK, Request
<1>6. CASE InsertUser(r)
  <2>1. CarriesOn(r)
    BY <1>2, <1>6 DEF InsertUser, Go, TypeOK, CarriesOn, Carrying, Verifying, Request
  <2>2. RolesGrow /\ UNCHANGED active
    BY <1>5, <1>6 DEF InsertUser, RolesGrow, TypeOK, Roles
  <2>3. QED
    BY <1>1, <2>1, <2>2, RolesKept DEF CarriesOn, StoresHeld
<1>7. CASE DrawCode(r) \/ Fail(r) \/ IssueToken(r) \/ StoreEnabled(r)
  BY <1>2, <1>4, <1>7 DEF DrawCode, Fail, IssueToken, StoreEnabled, tables
<1>8. CASE ReadCode(r) \/ DeleteCode(r)
  BY <1>2, <1>3, <1>4, <1>8 DEF ReadCode, DeleteCode, tables, Steps, Verifying
<1>9. CASE StoreVerified(r)
  <2>1. CarriesOn(r)
    BY <1>2, <1>3, <1>9 DEF StoreVerified, Steps, Verifying
  <2>2. \A v \in Users : StoresHeld(v)
    BY <1>5, <1>9 DEF StoreVerified, StoresHeld, RolesInv, Carrying, Verifying, TypeOK
  <2>3. QED
    BY <1>1, <1>9, <2>1, <2>2, RolesKept DEF StoreVerified, CarriesOn, RolesGrow
<1>10. CASE StoreRole(r)
  <2>1. CarriesOn(r)
    BY <1>2, <1>10 DEF StoreRole
  <2>2. RolesGrow /\ \A v \in Users : StoresHeld(v)
    BY <1>5, <1>10 DEF StoreRole, StoresHeld, RolesGrow, TypeOK, Exists
  <2>3. QED
    BY <1>1, <2>1, <2>2, RolesKept DEF CarriesOn
<1>11. CASE StoreActiveRole(r)
  <2>1. CarriesOn(r)
    BY <1>2, <1>11 DEF StoreActiveRole
  <2>2. \A v \in Users : StoresHeld(v)
    BY <1>5, <1>11 DEF StoreActiveRole, StoresHeld, RolesInv, Carrying, TypeOK
  <2>3. QED
    BY <1>1, <1>11, <2>1, <2>2, RolesKept DEF StoreActiveRole, CarriesOn, RolesGrow
<1>12. CASE DeleteUser(r)
  <2>1. CarriesOn(r)
    BY <1>2, <1>12 DEF DeleteUser
  <2>2. RolesGrow /\ \A v \in Users : StoresHeld(v)
    BY <1>5, <1>12 DEF DeleteUser, StoresHeld, RolesGrow, TypeOK
  <2>3. QED
    BY <1>1, <2>1, <2>2, RolesKept DEF CarriesOn
<1>13. QED
  BY <1>6, <1>7, <1>8, <1>9, <1>10, <1>11, <1>12 DEF Continue

LEMMA NextRoles == TypeOK /\ TypeOK' /\ RolesInv /\ [Next]_vars => RolesInv'
<1> SUFFICES ASSUME TypeOK, TypeOK', RolesInv, [Next]_vars PROVE RolesInv'
  OBVIOUS
<1>1. ASSUME NEW r \in Requests, Continue(r) \/ \E u \in Users : Begin(r, u)
      PROVE  RolesInv'
  BY <1>1, ContinueRoles, BeginRoles
<1>2. ASSUME UNCHANGED request
      PROVE  \A r \in Requests : CarriesOn(r)
  BY <1>2 DEF CarriesOn
<1>3. ASSUME NEW u \in Users, ExpireCode(u)
      PROVE  RolesInv'
  BY <1>2, <1>3, RolesKept DEF ExpireCode, tables, RolesGrow, StoresHeld
<1>4. ASSUME NEW u \in Users, ImportManager(u)
      PROVE  RolesInv'
  <2>1. RolesGrow
    BY <1>4 DEF ImportManager, RolesGrow, TypeOK, Roles, WorkRoles
  <2>2. QED
    BY <1>2, <1>4, <2>1, RolesKept DEF ImportManager, StoresHeld
<1>5. CASE UNCHANGED vars
  BY <1>2, <1>5, RolesKept DEF vars, tables, RolesGrow, StoresHeld
<1>6. QED
  BY <1>1, <1>3, <1>4, <1>5 DEF Next

\* The active role of every user is one he holds.
THEOREM ActiveRolesAreHeld == Spec => []ActiveRoleIsHeld
<1>1. Spec => Init /\ [][Next]_vars /\ []TypeOK
  BY TypesAlwaysOK DEF Spec
<1>2. RolesInv => ActiveRoleIsHeld
  BY DEF RolesInv
<1>3. QED
  BY <1>1, <1>2, InitRoles, NextRoles, PTL

--------------------------------------------------------------------------------
\* Login codes

\* A code is drawn once, so it is stored for one user at most, and what a
\* verification has matched can only be stored for its own user.
CodesInv ==
  /\ SpentCodeIsDead
  /\ spent \subseteq drawn
  /\ \A u \in Users : code[u] # NoCode => code[u] \in drawn
  /\ \A u, v \in Users : code[u] # NoCode /\ code[u] = code[v] => u = v
  /\ \A r \in Requests : request[r].at = "matched" =>
       \A u \in Users : code[u] = request[r].code => u = request[r].user

LEMMA InitCodes == Init => CodesInv
BY IdleIsRequest DEF Init, CodesInv, SpentCodeIsDead

\* No new match, and codes only go.
LEMMA CodesGo ==
  ASSUME TypeOK, CodesInv, UNCHANGED <<drawn, spent>>,
         \A u \in Users : code'[u] \in {code[u], NoCode},
         \A r \in Requests : request'[r].at = "matched" => request'[r] = request[r]
  PROVE  CodesInv'
<1>1. NoCode \notin drawn
  BY NoCodeAssumption DEF TypeOK
<1>2. \A r \in Requests : request[r].at = "matched" => request[r].code # NoCode
  BY <1>1 DEF TypeOK, Verifying
<1>3. QED
  BY <1>1, <1>2 DEF CodesInv, SpentCodeIsDead

LEMMA NextCodes == TypeOK /\ CodesInv /\ [Next]_vars => CodesInv'
<1> SUFFICES ASSUME TypeOK, CodesInv, [Next]_vars PROVE CodesInv'
  OBVIOUS
<1>1. ASSUME NEW r \in Requests, NEW u \in Users, Begin(r, u)
      PROVE  CodesInv'
  <2>1. UNCHANGED <<drawn, spent, code>>
    BY <1>1 DEF Begin, Register, AddRole, SwitchRole, SendCode, VerifyCode, Administer, redis, log
  <2>2. \A q \in Requests \ {r} : request'[q] = request[q]
    BY <1>1 DEF Begin, Register, AddRole, SwitchRole, SendCode, VerifyCode, Administer, Start, TypeOK
  <2>3. request'[r].at # "matched"
    <3>1. ASSUME NEW w \in WorkRoles, Register(r, u, w) \/ AddRole(r, u, w) \/ SwitchRole(r, u, w)
          PROVE  request'[r].at # "matched"
      <4>1. CASE Register(r, u, w)
        BY <4>1 DEF Register, Start, Idle, TypeOK
      <4>2. CASE AddRole(r, u, w)
        BY <4>2 DEF AddRole, Start, Idle, TypeOK
      <4>3. CASE SwitchRole(r, u, w)
        BY <4>3 DEF SwitchRole, Start, Idle, TypeOK
      <4>4. QED
        BY <3>1, <4>1, <4>2, <4>3
    <3>2. ASSUME SendCode(r, u)
          PROVE  request'[r].at # "matched"
      BY <3>2 DEF SendCode, Start, Idle, TypeOK
    <3>3. ASSUME NEW c \in drawn, VerifyCode(r, u, c)
          PROVE  request'[r].at # "matched"
      BY <3>3 DEF VerifyCode, Start, TypeOK, Idle
    <3>4. ASSUME NEW at \in Administering, Administer(r, u, at)
          PROVE  request'[r].at # "matched"
      BY <3>4 DEF Administer, Start, Idle, TypeOK, Administering
    <3>5. QED
      BY <1>1, <3>1, <3>2, <3>3, <3>4 DEF Begin
  <2>4. QED
    BY <2>1, <2>2, <2>3, CodesGo
<1>2. ASSUME NEW r \in Requests, Continue(r)
      PROVE  CodesInv'
  <2>1. \A q \in Requests \ {r} : request'[q] = request[q]
    BY <1>2 DEF Continue, InsertUser, DrawCode, ReadCode, DeleteCode, StoreVerified, IssueToken,
         StoreRole, StoreActiveRole, StoreEnabled, DeleteUser, Fail, Go, End, TypeOK
  <2>2. ASSUME UNCHANGED <<drawn, spent, code>>, End(r)
        PROVE  CodesInv'
    BY <2>1, <2>2, CodesGo, IdleIsRequest DEF End, TypeOK
  <2>3. ASSUME UNCHANGED <<drawn, spent, code>>, NEW at \in Steps \ {"matched"}, Go(r, at)
        PROVE  CodesInv'
    BY <2>1, <2>3, CodesGo DEF Go, TypeOK, Request
  <2>4. CASE InsertUser(r)
    BY <2>2, <2>3, <2>4 DEF InsertUser, Steps, redis, log
  <2>5. CASE DrawCode(r)
    <3>1. request[r].user \in Users /\ End(r)
      BY <2>5, UserOfRequest DEF DrawCode
    <3>2. PICK c \in Codes \ drawn : /\ drawn' = drawn \union {c}
                                    /\ code' = [code EXCEPT ![request[r].user] = c]
      BY <2>5 DEF DrawCode
    <3>3. \A q \in Requests : request'[q].at = "matched" =>
             request'[q] = request[q] /\ request[q].code \in drawn
      BY <2>1, <3>1, IdleIsRequest DEF End, TypeOK, Verifying
    <3>4. spent' = spent /\ c # NoCode
      BY <2>5, NoCodeAssumption DEF DrawCode, log
    <3>5. QED
      BY <3>1, <3>2, <3>3, <3>4 DEF CodesInv, SpentCodeIsDead, TypeOK
  <2>6. CASE ReadCode(r)
    <3>1. CASE End(r)
      BY <2>2, <2>6, <3>1 DEF ReadCode, redis, log
    <3>2. CASE Go(r, "matched") /\ code[request[r].user] = request[r].code
      <4>1. request[r].code \in drawn /\ request[r].user \in Users
        BY <2>6, UserOfRequest DEF ReadCode, TypeOK, Verifying
      <4>2. request'[r].code = request[r].code /\ request'[r].user = request[r].user
        BY <3>2 DEF Go, TypeOK, Request
      <4>3. request[r].code # NoCode /\ UNCHANGED <<drawn, spent, code>>
        BY <2>6, <4>1, NoCodeAssumption DEF ReadCode, TypeOK, redis, log
      <4>4. QED
        BY <2>1, <3>2, <4>1, <4>2, <4>3 DEF CodesInv, SpentCodeIsDead
    <3>3. QED
      BY <2>6, <3>1, <3>2 DEF ReadCode
  <2>7. CASE DeleteCode(r)
    <3>1. request[r].user \in Users /\ request[r].code \in drawn
      BY <2>7, UserOfRequest DEF DeleteCode, TypeOK, Verifying
    <3>2. \A q \in Requests : request'[q].at = "matched" =>
             request'[q] = request[q] /\ request[q].code \in drawn
      BY <2>1, <2>7 DEF DeleteCode, Go, TypeOK, Verifying, Request
    <3>3. /\ code' = [code EXCEPT ![request[r].user] = NoCode]
          /\ spent' = spent \union {request[r].code} /\ UNCHANGED drawn
      BY <2>7 DEF DeleteCode
    <3>4. \A u \in Users : code[u] = request[r].code => u = request[r].user
      BY <2>7 DEF DeleteCode, CodesInv
    <3>5. NoCode \notin drawn
      BY NoCodeAssumption DEF TypeOK
    <3>6. QED
      BY <3>1, <3>2, <3>3, <3>4, <3>5 DEF CodesInv, SpentCodeIsDead, TypeOK
  <2>8. CASE StoreVerified(r)
    BY <2>2, <2>3, <2>8 DEF StoreVerified, Steps, Verifying, redis, log
  <2>9. CASE IssueToken(r) \/ StoreRole(r) \/ StoreActiveRole(r)
    BY <2>2, <2>9 DEF IssueToken, StoreRole, StoreActiveRole, redis, log
  <2>10. CASE StoreEnabled(r) \/ DeleteUser(r) \/ Fail(r)
    BY <2>2, <2>10 DEF StoreEnabled, DeleteUser, Fail, redis, log
  <2>11. QED
    BY <1>2, <2>4, <2>5, <2>6, <2>7, <2>8, <2>9, <2>10 DEF Continue
<1>3. ASSUME NEW u \in Users, ExpireCode(u) \/ ImportManager(u)
      PROVE  CodesInv'
  BY <1>3, CodesGo DEF ExpireCode, ImportManager, TypeOK, redis, log
<1>4. CASE UNCHANGED vars
  BY <1>4, CodesGo DEF vars, redis, log
<1>5. QED
  BY <1>1, <1>2, <1>3, <1>4 DEF Next

\* A code that was used up is never stored again, for anybody.
THEOREM SpentCodesAreDead == Spec => []SpentCodeIsDead
<1>1. Spec => Init /\ [][Next]_vars /\ []TypeOK
  BY TypesAlwaysOK DEF Spec
<1>2. CodesInv => SpentCodeIsDead
  BY DEF CodesInv
<1>3. QED
  BY <1>1, <1>2, InitCodes, NextCodes, PTL

--------------------------------------------------------------------------------
\* Requests side by side

\* What a request starts with: a verification finds its user and knows whether he
\* is verified, an administrator acts on somebody else.
LEMMA BeginStarts ==
  ASSUME TypeOK, NEW r \in Requests, NEW u \in Users, Begin(r, u)
  PROVE  /\ UNCHANGED <<tables, redis, signedIn, log>>
         /\ Start(r, request'[r])
         /\ request'[r].user = u
         /\ request'[r].at \in Verifying =>
              /\ request'[r].at = "finding" /\ Exists(u)
              /\ request'[r].first = "first" => u \notin verified
         /\ request'[r].at \in Administering => request'[r].by \in Users \ {u}
<1> DEFINE Shape(at, w) == [Idle EXCEPT !.at = at, !.user = u, !.role = w]
           Plain(at) == [Idle EXCEPT !.at = at, !.user = u]
<1>1. ASSUME NEW locals, Start(r, locals) PROVE request'[r] = locals
  BY <1>1 DEF Start, TypeOK
<1>2. ASSUME NEW w \in WorkRoles, Register(r, u, w) \/ AddRole(r, u, w) \/ SwitchRole(r, u, w)
      PROVE  \E at \in {"registering", "adding", "switching"}, v \in WorkRoles \union {"none"} :
               Start(r, Shape(at, v))
  <2>1. CASE Register(r, u, w)
    BY <2>1 DEF Register
  <2>2. CASE AddRole(r, u, w)
    <3> DEFINE chosen == IF active[u] = "none" THEN w ELSE "none"
    <3>1. Start(r, Shape("adding", chosen)) /\ chosen \in WorkRoles \union {"none"}
      BY <2>2 DEF AddRole
    <3>2. QED
      BY <3>1
  <2>3. CASE SwitchRole(r, u, w)
    BY <2>3 DEF SwitchRole
  <2>4. QED
    BY <1>2, <2>1, <2>2, <2>3
<1>3. ASSUME NEW at, NEW w
      PROVE  Shape(at, w).at = at /\ Shape(at, w).user = u /\ Plain(at).at = at /\ Plain(at).user = u
  BY DEF Idle
<1>4. ASSUME NEW w \in WorkRoles, Register(r, u, w) \/ AddRole(r, u, w) \/ SwitchRole(r, u, w)
      PROVE  /\ Start(r, request'[r]) /\ request'[r].user = u
             /\ request'[r].at \notin Verifying \union Administering
  <2>1. PICK at \in {"registering", "adding", "switching"}, v \in WorkRoles \union {"none"} :
               Start(r, Shape(at, v))
    BY <1>2, <1>4
  <2>2. Shape(at, v).at = at /\ Shape(at, v).user = u
    BY <1>3
  <2> HIDE DEF Shape
  <2>3. request'[r] = Shape(at, v)
    BY <1>1, <2>1
  <2>4. QED
    BY <2>1, <2>2, <2>3 DEF Verifying, Administering
<1>5. ASSUME SendCode(r, u)
      PROVE  /\ Start(r, request'[r]) /\ request'[r].user = u
             /\ request'[r].at \notin Verifying \union Administering
  <2>1. Start(r, Plain("drawing"))
    BY <1>5 DEF SendCode
  <2>2. Plain("drawing").at = "drawing" /\ Plain("drawing").user = u
    BY <1>3
  <2> HIDE DEF Plain
  <2>3. request'[r] = Plain("drawing")
    BY <1>1, <2>1
  <2>4. QED
    BY <2>1, <2>2, <2>3 DEF Verifying, Administering
<1>6. ASSUME NEW c \in drawn, VerifyCode(r, u, c)
      PROVE  /\ Start(r, request'[r]) /\ request'[r].user = u /\ Exists(u)
             /\ request'[r].at = "finding"
             /\ request'[r].first = "first" => u \notin verified
  <2>0. PICK w, f : w = ChosenRole(u) /\ f = (IF u \in verified THEN "again" ELSE "first")
    OBVIOUS
  <2>1. /\ Start(r, [Idle EXCEPT !.at = "finding", !.user = u, !.code = c, !.role = w, !.first = f])
        /\ f = "first" => u \notin verified
    BY <1>6, <2>0 DEF VerifyCode
  <2>2. request'[r] = [Idle EXCEPT !.at = "finding", !.user = u, !.code = c, !.role = w, !.first = f]
    BY <1>1, <2>1
  <2>3. request'[r].at = "finding" /\ request'[r].user = u /\ request'[r].first = f
    BY <2>2 DEF Idle
  <2>4. Exists(u) /\ Start(r, request'[r])
    BY <1>6, <2>1, <2>2 DEF VerifyCode
  <2>5. QED
    BY <2>1, <2>3, <2>4
<1>7. ASSUME NEW at \in Administering, Administer(r, u, at)
      PROVE  /\ Start(r, request'[r]) /\ request'[r].user = u
             /\ request'[r].at \notin Verifying
             /\ request'[r].by \in Users \ {u}
  <2>1. PICK a \in Users \ {u} : Start(r, [Idle EXCEPT !.at = at, !.user = u, !.by = a])
    BY <1>7 DEF Administer
  <2> DEFINE asks == [Idle EXCEPT !.at = at, !.user = u, !.by = a]
  <2>2. asks.at = at /\ asks.user = u /\ asks.by = a
    BY DEF Idle
  <2>5. Start(r, asks)
    BY <2>1
  <2> HIDE DEF asks
  <2>3. request'[r] = asks
    BY <1>1, <2>5
  <2>4. QED
    BY <1>7, <2>2, <2>3, <2>5 DEF Verifying, Administering
<1>8. UNCHANGED <<tables, redis, signedIn, log>>
  BY DEF Begin, Register, AddRole, SwitchRole, SendCode, VerifyCode, Administer
<1>9. QED
  BY <1>4, <1>5, <1>6, <1>7, <1>8 DEF Begin, Verifying, Administering

\* The other requests stay where they are, and a step makes none a verification or
\* an act of administration.
Proceeding(r) ==
  /\ request'[r].at \in Verifying => request[r].at \in Verifying
  /\ request'[r].at \notin Administering
LEMMA ContinueGoesOn ==
  ASSUME TypeOK, NEW r \in Requests, Continue(r)
  PROVE  /\ UNCHANGED overlapped
         /\ \A q \in Requests \ {r} : request'[q] = request[q]
         /\ Proceeding(r)
<1>1. UNCHANGED overlapped
  BY DEF Continue, InsertUser, DrawCode, ReadCode, DeleteCode, StoreVerified, IssueToken,
         StoreRole, StoreActiveRole, StoreEnabled, DeleteUser, Fail
<1>2. \A q \in Requests \ {r} : request'[q] = request[q]
  BY DEF Continue, InsertUser, DrawCode, ReadCode, DeleteCode, StoreVerified, IssueToken,
         StoreRole, StoreActiveRole, StoreEnabled, DeleteUser, Fail, Go, End, TypeOK
<1>3. End(r) => Proceeding(r)
  BY IdleIsRequest DEF Proceeding, End, TypeOK, Verifying, Administering
<1>4. ASSUME NEW at \in Steps, Go(r, at) PROVE request'[r].at = at
  BY <1>4 DEF Go, TypeOK, Request
<1>5. ASSUME InsertUser(r) PROVE Proceeding(r)
  BY <1>3, <1>4, <1>5 DEF InsertUser, Steps, Proceeding, Verifying, Administering
<1>6. ASSUME ReadCode(r) \/ DeleteCode(r) \/ StoreVerified(r) PROVE Proceeding(r)
  <2>1. ASSUME NEW at \in Verifying, Go(r, at), request[r].at \in Verifying
        PROVE  Proceeding(r)
    BY <1>4, <2>1 DEF Steps, Proceeding, Verifying, Administering
  <2>2. QED
    BY <1>3, <1>6, <2>1 DEF ReadCode, DeleteCode, StoreVerified, Verifying
<1>7. ASSUME \/ DrawCode(r) \/ IssueToken(r) \/ StoreRole(r) \/ StoreActiveRole(r)
             \/ StoreEnabled(r) \/ DeleteUser(r) \/ Fail(r)
      PROVE  Proceeding(r)
  BY <1>3, <1>7 DEF DrawCode, IssueToken, StoreRole, StoreActiveRole, StoreEnabled, DeleteUser, Fail
<1>8. QED
  BY <1>1, <1>2, <1>5, <1>6, <1>7 DEF Continue

\* As long as no two verifications overlapped there is one at most.
AloneInv ==
  ~ overlapped =>
    \A q, r \in Requests : request[q].at \in Verifying /\ request[r].at \in Verifying => q = r

LEMMA NextAlone == TypeOK /\ AloneInv /\ [Next]_vars => AloneInv'
<1> SUFFICES ASSUME TypeOK, AloneInv, [Next]_vars PROVE AloneInv'
  OBVIOUS
<1>1. ASSUME NEW r \in Requests, NEW u \in Users, Begin(r, u)
      PROVE  AloneInv'
  <2>1. Start(r, request'[r])
    BY <1>1, BeginStarts
  <2>2. /\ \A q \in Requests \ {r} : request'[q] = request[q]
        /\ ~ overlapped' =>
             /\ ~ overlapped
             /\ request'[r].at \in Verifying =>
                  \A q \in Requests : request[q].at \notin Verifying
    BY <2>1 DEF Start, TypeOK
  <2>3. QED
    BY <2>2 DEF AloneInv
<1>2. ASSUME NEW r \in Requests, Continue(r)
      PROVE  AloneInv'
  BY <1>2, ContinueGoesOn DEF AloneInv, Proceeding
<1>3. ASSUME NEW u \in Users, ExpireCode(u) \/ ImportManager(u)
      PROVE  AloneInv'
  BY <1>3 DEF ExpireCode, ImportManager, AloneInv
<1>4. CASE UNCHANGED vars
  BY <1>4 DEF vars, AloneInv
<1>5. QED
  BY <1>1, <1>2, <1>3, <1>4 DEF Next

LEMMA InitAlone == Init => AloneInv
BY IdleIsRequest DEF Init, AloneInv, Verifying

--------------------------------------------------------------------------------
\* Sessions and welcomes

\* Nobody else will be told that u is verified for the first time.
Settled(u) == u \in verified \/ role[u] = "deleted"

\* A verification past its match has a code that opened nothing yet, and has yet to
\* welcome its user, if it is to; both unless there was another beside it.
Matched == {"matched", "spent", "verified"}
Proceeds(r) ==
  /\ request[r].at \in {"spent", "verified"} => request[r].code \in spent
  /\ request[r].at = "verified" => Settled(request[r].user)
  /\ ~ overlapped =>
       /\ request[r].at \in Matched => opened[request[r].code] = 0
       /\ request[r].at \in Verifying /\ request[r].first = "first" =>
            welcomes[request[r].user] = 0

OnceInv ==
  /\ VerifiedOnce
  /\ \A c \in Codes : opened[c] > 0 => c \in spent
  /\ \A u \in Users : welcomes[u] > 0 => Settled(u)
  /\ \A r \in Requests : Proceeds(r)

\* A user who is settled stays so, his row does not come back.
LEMMA SettledStays ==
  ASSUME TypeOK, [Next]_vars, NEW u \in Users, Settled(u)
  PROVE  Settled(u)'
<1>1. ASSUME NEW r \in Requests, NEW v \in Users, Begin(r, v)
      PROVE  UNCHANGED <<verified, role>>
  BY <1>1, BeginStarts DEF tables
<1>2. ASSUME NEW r \in Requests, Continue(r)
      PROVE  Settled(u)'
  <2>1. CASE DeleteUser(r)
    BY <2>1 DEF DeleteUser, Settled, TypeOK
  <2>2. CASE InsertUser(r)
    BY <2>2 DEF InsertUser, Settled, TypeOK
  <2>3. CASE StoreRole(r)
    BY <2>3 DEF StoreRole, Settled, Exists, Roles, WorkRoles, TypeOK
  <2>4. CASE \/ DrawCode(r) \/ ReadCode(r) \/ DeleteCode(r) \/ StoreVerified(r) \/ IssueToken(r)
             \/ StoreActiveRole(r) \/ StoreEnabled(r) \/ Fail(r)
    BY <2>4 DEF DrawCode, ReadCode, DeleteCode, StoreVerified, IssueToken, StoreActiveRole,
                StoreEnabled, Fail, Settled, tables
  <2>5. QED
    BY <1>2, <2>1, <2>2, <2>3, <2>4 DEF Continue
<1>3. ASSUME NEW v \in Users, ExpireCode(v) \/ ImportManager(v)
      PROVE  Settled(u)'
  BY <1>3 DEF ExpireCode, ImportManager, Settled, tables, TypeOK
<1>4. CASE UNCHANGED vars
  BY <1>4 DEF vars, tables, Settled
<1>5. QED
  BY <1>1, <1>2, <1>3, <1>4 DEF Next, Settled

\* Steps that open no session.
LEMMA OnceKept ==
  ASSUME TypeOK, [Next]_vars, OnceInv, UNCHANGED <<opened, welcomes>>, spent \subseteq spent',
         overlapped => overlapped',
         \A r \in Requests : request'[r] = request[r] \/ Proceeds(r)'
  PROVE  OnceInv'
<1>1. ASSUME NEW r \in Requests, request'[r] = request[r]
      PROVE  Proceeds(r)'
  <2>1. request[r].at = "verified" => request[r].user \in Users
    BY UserOfRequest
  <2>2. QED
    BY <1>1, <2>1, SettledStays DEF OnceInv, Proceeds
<1>2. QED
  BY <1>1, SettledStays DEF OnceInv, VerifiedOnce

LEMMA NextOnce == TypeOK /\ CodesInv /\ AloneInv /\ OnceInv /\ [Next]_vars => OnceInv'
<1> SUFFICES ASSUME TypeOK, CodesInv, AloneInv, OnceInv, [Next]_vars PROVE OnceInv'
  OBVIOUS
<1>1. ASSUME NEW r \in Requests, NEW u \in Users, Begin(r, u)
      PROVE  OnceInv'
  <2>1. /\ UNCHANGED <<opened, welcomes, spent>> /\ Start(r, request'[r])
        /\ request'[r].user = u
        /\ request'[r].at \in Verifying =>
             /\ request'[r].at = "finding" /\ Exists(u)
             /\ request'[r].first = "first" => u \notin verified
    BY <1>1, BeginStarts DEF log
  <2>2. /\ overlapped => overlapped'
        /\ \A q \in Requests \ {r} : request'[q] = request[q]
    BY <2>1 DEF Start, TypeOK
  <2>3. request'[r].at \in Verifying /\ request'[r].first = "first" => welcomes[u] = 0
    BY <2>1 DEF OnceInv, Settled, Exists, Roles, WorkRoles, TypeOK
  <2>4. Proceeds(r)'
    BY <2>1, <2>3 DEF Proceeds, Matched, Verifying
  <2>5. QED
    BY <2>1, <2>2, <2>4, OnceKept
<1>2. ASSUME NEW r \in Requests, Continue(r)
      PROVE  OnceInv'
  <2>1. /\ UNCHANGED overlapped /\ \A q \in Requests \ {r} : request'[q] = request[q]
    BY <1>2, ContinueGoesOn
  <2>2. ASSUME UNCHANGED <<opened, welcomes>>, spent \subseteq spent', Proceeds(r)'
        PROVE  OnceInv'
    BY <2>1, <2>2, OnceKept
  <2>3. End(r) => Proceeds(r)'
    BY IdleIsRequest DEF End, TypeOK, Proceeds, Verifying, Matched
  <2>4. ASSUME NEW at \in Steps, Go(r, at)
        PROVE  /\ request'[r].at = at /\ request'[r].user = request[r].user
               /\ request'[r].code = request[r].code /\ request'[r].first = request[r].first
    BY <2>4 DEF Go, TypeOK, Request
  <2>5. CASE InsertUser(r)
    <3>1. Go(r, "drawing") => Proceeds(r)'
      BY <2>4 DEF Steps, Proceeds, Verifying, Matched
    <3>2. QED
      BY <2>2, <2>3, <2>5, <3>1 DEF InsertUser, log
  <2>6. CASE ReadCode(r)
    <3>1. ASSUME Go(r, "matched"), code[request[r].user] = request[r].code
          PROVE  Proceeds(r)'
      <4>1. request[r].at = "finding" /\ request[r].code \in Codes /\ request[r].user \in Users
        BY <2>6, UserOfRequest DEF ReadCode, TypeOK, Verifying
      <4>2. request[r].code \notin spent
        BY <3>1, <4>1 DEF CodesInv, SpentCodeIsDead
      <4>3. opened[request[r].code] = 0
        BY <4>1, <4>2 DEF OnceInv, TypeOK
      <4>4. QED
        BY <2>1, <2>4, <2>6, <3>1, <4>1, <4>3 DEF ReadCode, log, Steps, OnceInv, Proceeds, Verifying
    <3>2. QED
      BY <2>2, <2>3, <2>6, <3>1 DEF ReadCode, log
  <2>7. CASE DeleteCode(r)
    <3>1. Go(r, "spent") /\ request[r].at = "matched" /\ request[r].code \in spent'
      BY <2>7 DEF DeleteCode
    <3>2. Proceeds(r)'
      BY <2>1, <2>4, <2>7, <3>1 DEF DeleteCode, Steps, OnceInv, Proceeds, Verifying, Matched
    <3>3. QED
      BY <2>2, <2>7, <3>2 DEF DeleteCode
  <2>8. CASE StoreVerified(r)
    <3>1. ASSUME Go(r, "verified"), verified' = verified \union {request[r].user}
          PROVE  Proceeds(r)'
      BY <2>1, <2>4, <2>8, <3>1
         DEF StoreVerified, log, Steps, OnceInv, Proceeds, Verifying, Matched, Settled
    <3>2. QED
      BY <2>2, <2>3, <2>8, <3>1 DEF StoreVerified, log
  <2>9. CASE IssueToken(r)
    <3>1. /\ request[r].at = "verified" /\ request[r].user \in Users /\ request[r].code \in Codes
          /\ request[r].code \in spent /\ Settled(request[r].user)
      BY <2>9, UserOfRequest DEF IssueToken, TypeOK, Verifying, OnceInv, Proceeds
    <3>2. End(r) /\ UNCHANGED <<verified, role, spent>>
      BY <2>9 DEF IssueToken, tables
    <3>3. CASE UNCHANGED <<opened, welcomes>>
      BY <2>2, <2>3, <3>2, <3>3
    <3>4. CASE /\ welcomes' = [welcomes EXCEPT ![request[r].user] =
                                 @ + (IF request[r].first = "first" THEN 1 ELSE 0)]
               /\ opened' = [opened EXCEPT ![request[r].code] = @ + 1]
      <4>1. /\ \A c \in Codes : opened'[c] > 0 => c \in spent'
            /\ \A u \in Users : welcomes'[u] > 0 => Settled(u)'
        BY <3>1, <3>2, <3>4 DEF OnceInv, TypeOK, Settled
      <4>2. ~ overlapped =>
               opened[request[r].code] = 0
               /\ (request[r].first = "first" => welcomes[request[r].user] = 0)
        BY <3>1 DEF OnceInv, Proceeds, Matched, Verifying
      <4>3. VerifiedOnce'
        BY <2>1, <3>1, <3>4, <4>2 DEF OnceInv, VerifiedOnce, TypeOK
      <4>4. ASSUME NEW q \in Requests \ {r} PROVE Proceeds(q)'
        <5>1. ~ overlapped => request[q].at \notin Verifying
          BY <3>1 DEF AloneInv, Verifying
        <5>2. request'[q] = request[q] /\ Proceeds(q)
          BY <2>1 DEF OnceInv
        <5>3. QED
          BY <2>1, <3>2, <5>1, <5>2 DEF Proceeds, Settled, Matched, Verifying
      <4>5. QED
        BY <2>3, <3>2, <4>1, <4>3, <4>4 DEF OnceInv
    <3>5. QED
      BY <2>9, <3>3, <3>4 DEF IssueToken
  <2>10. CASE \/ DrawCode(r) \/ StoreRole(r) \/ StoreActiveRole(r)
              \/ StoreEnabled(r) \/ DeleteUser(r) \/ Fail(r)
    BY <2>2, <2>3, <2>10 DEF DrawCode, StoreRole, StoreActiveRole, StoreEnabled, DeleteUser, Fail, log
  <2>11. QED
    BY <1>2, <2>5, <2>6, <2>7, <2>8, <2>9, <2>10 DEF Continue
<1>3. ASSUME NEW u \in Users, ExpireCode(u) \/ ImportManager(u)
      PROVE  OnceInv'
  BY <1>3, OnceKept DEF ExpireCode, ImportManager, log
<1>4. CASE UNCHANGED vars
  BY <1>4, OnceKept DEF vars, log
<1>5. QED
  BY <1>1, <1>2, <1>3, <1>4 DEF Next

LEMMA InitOnce == Init => OnceInv
BY IdleIsRequest DEF Init, OnceInv, VerifiedOnce, Proceeds, Verifying, Matched

\* One code opens one session and a user is welcomed once, unless two verifications
\* run side by side.
THEOREM CodesOpenOnce == Spec => []VerifiedOnce
<1>1. Spec => Init /\ [][Next]_vars /\ []TypeOK
  BY TypesAlwaysOK DEF Spec
<1>2. OnceInv => VerifiedOnce
  BY DEF OnceInv
<1>3. QED
  BY <1>1, <1>2, InitCodes, NextCodes, InitAlone, NextAlone, InitOnce, NextOnce, PTL

--------------------------------------------------------------------------------
\* Administrators

\* An administrator acts on somebody else.
SentInv ==
  \A r \in Requests : request[r].at \in Administering =>
    request[r].by \in Users \ {request[r].user}

LEMMA InitSent == Init => SentInv
BY IdleIsRequest DEF Init, SentInv, Administering

LEMMA NextSent == TypeOK /\ SentInv /\ [Next]_vars => SentInv'
<1> SUFFICES ASSUME TypeOK, SentInv, [Next]_vars PROVE SentInv'
  OBVIOUS
<1>1. ASSUME NEW r \in Requests, NEW u \in Users, Begin(r, u)
      PROVE  SentInv'
  <2>1. Start(r, request'[r])
    BY <1>1, BeginStarts
  <2>2. \A q \in Requests \ {r} : request'[q] = request[q]
    BY <2>1 DEF Start, TypeOK
  <2>3. request'[r].user = u /\ (request'[r].at \in Administering => request'[r].by \in Users \ {u})
    BY <1>1, BeginStarts
  <2>4. QED
    BY <2>2, <2>3 DEF SentInv
<1>2. ASSUME NEW r \in Requests, Continue(r)
      PROVE  SentInv'
  BY <1>2, ContinueGoesOn DEF SentInv, Proceeding
<1>3. ASSUME NEW u \in Users, ExpireCode(u) \/ ImportManager(u)
      PROVE  SentInv'
  BY <1>3 DEF ExpireCode, ImportManager, SentInv
<1>4. CASE UNCHANGED vars
  BY <1>4 DEF vars, SentInv
<1>5. QED
  BY <1>1, <1>2, <1>3, <1>4 DEF Next

\* Other steps take the right to administer from nobody.
LEMMA AdministratorsKept ==
  ASSUME signedIn \subseteq signedIn', enabled \subseteq enabled',
         \A u \in Users : role[u] \in {"super_admin", "both"} =>
                            role'[u] \in {"super_admin", "both"},
         NEW a \in Users, MayAdminister(a)
  PROVE  MayAdminister(a)'
BY DEF MayAdminister, MayAct, Exists, Roles

\* An act of administration ends its request and takes the right from its user only.
LEMMA OthersKept ==
  ASSUME TypeOK, NEW r \in Requests, StoreEnabled(r) \/ DeleteUser(r),
         NEW a \in Users \ {request[r].user}, MayAdminister(a)
  PROVE  MayAdminister(a)'
<1>1. UNCHANGED signedIn /\ role'[a] = role[a]
  BY DEF StoreEnabled, DeleteUser, TypeOK
<1>2. a \in enabled => a \in enabled'
  BY DEF StoreEnabled, DeleteUser
<1>3. QED
  BY <1>1, <1>2 DEF MayAdminister, MayAct, Exists

LEMMA LastFallsLate ==
  ASSUME TypeOK, SentInv, [Next]_vars,
         NEW a \in Users, MayAdminister(a), ~ (\E u \in Users : MayAdminister(u)')
  PROVE  \E r \in Requests :
           /\ request[r].at \in Administering /\ request'[r] = Idle
           /\ ~ MayAdminister(request[r].by)
<1>1. ASSUME NEW r \in Requests, StoreEnabled(r) \/ DeleteUser(r)
      PROVE  /\ request[r].at \in Administering /\ request'[r] = Idle
             /\ ~ MayAdminister(request[r].by)
  <2>1. request[r].at \in Administering /\ End(r)
    BY <1>1 DEF StoreEnabled, DeleteUser, Administering
  <2>2. request[r].by \in Users \ {request[r].user}
    BY <2>1 DEF SentInv
  <2>3. PICK b \in Users \ {request[r].user} : b = request[r].by
    BY <2>2
  <2>4. MayAdminister(b) => MayAdminister(b)'
    BY <1>1, OthersKept
  <2>5. ~ MayAdminister(b)
    BY <2>4
  <2>6. request'[r] = Idle
    BY <2>1 DEF End, TypeOK
  <2>7. QED
    BY <2>1, <2>3, <2>5, <2>6
<1>2. ASSUME NEW r \in Requests, NEW u \in Users, Begin(r, u)
      PROVE  FALSE
  BY <1>2, BeginStarts, AdministratorsKept DEF tables
<1>3. ASSUME NEW r \in Requests, Continue(r), ~ (StoreEnabled(r) \/ DeleteUser(r))
      PROVE  FALSE
  <2>1. /\ signedIn \subseteq signedIn' /\ enabled \subseteq enabled'
        /\ \A u \in Users : role[u] \in {"super_admin", "both"} =>
                              role'[u] \in {"super_admin", "both"}
    BY <1>3 DEF Continue, InsertUser, DrawCode, ReadCode, DeleteCode, StoreVerified,
       IssueToken, StoreRole, StoreActiveRole, Fail, tables, TypeOK
  <2>2. QED
    BY <2>1, AdministratorsKept
<1>4. ASSUME NEW u \in Users, ExpireCode(u) \/ ImportManager(u)
      PROVE  FALSE
  BY <1>4, AdministratorsKept DEF ExpireCode, ImportManager, TypeOK, tables
<1>5. CASE UNCHANGED vars
  BY <1>5, AdministratorsKept DEF vars, tables
<1>6. QED
  BY <1>1, <1>2, <1>3, <1>4, <1>5 DEF Next

\* The last user who passes the admin routes goes by a request of one who does not
\* pass them any more.
THEOREM AdministratorsFallLate == Spec => LastAdministratorFallsLate
<1>1. Spec => Init /\ [][Next]_vars /\ []TypeOK
  BY TypesAlwaysOK DEF Spec
<1>2. TypeOK /\ SentInv /\ [Next]_vars =>
        [(\E u \in Users : MayAdminister(u)) /\ ~ (\E u \in Users : MayAdminister(u)')
         => \E r \in Requests :
              /\ request[r].at \in Administering /\ request'[r] = Idle
              /\ ~ MayAdminister(request[r].by)]_vars
  BY LastFallsLate
<1>3. QED
  BY <1>1, <1>2, InitSent, NextSent, PTL DEF LastAdministratorFallsLate
================================================================================
