-------------------------------- MODULE Accounts --------------------------------
(***************************************************************************)
(* Users, their roles and their login codes.  Users are rows of the        *)
(* database, the codes are keys of Redis, and the requests that change     *)
(* either run side by side: each is cut at its awaits, works on the user   *)
(* it loaded at its start, and commits only the columns it changed.  A     *)
(* request can die between two steps.                                      *)
(*                                                                         *)
(* Two rows with one e-mail address never exist together; a deleted        *)
(* address can register again and then has a new row.  Tokens are signed   *)
(* and never revoked, so being signed in only grows; a token is refused    *)
(* when its user is gone or disabled.  Their expiry is left out, and so    *)
(* are phone numbers (they find the same row the address finds).  Six      *)
(* digits are abstracted to codes that are drawn once.                     *)
(***************************************************************************)
EXTENDS Integers

CONSTANTS
  Users,      \* row ids
  EmailOf,    \* User.email: a row never changes its address
  Root,       \* the administrator the database is seeded with
  Codes,      \* the login codes that can be drawn (bound)
  Requests,   \* the requests that can be in flight at once
  Nobody,     \* stands for the user of an idle request
  NoCode      \* no code under the user's key

ASSUME RootAssumption == Root \in Users /\ Nobody \notin Users
ASSUME NoCodeAssumption == NoCode \notin Codes

VARIABLES
  role,       \* User.role, "none" before the row and "deleted" after it
  active,     \* User.active_role
  verified,   \* users with email_verified
  enabled,    \* users with is_active
  code,       \* Redis: the code under otp:{id}
  drawn,      \* the codes drawn so far, each of them mailed to its user
  signedIn,   \* users a token was issued to
  request,    \* where each request is, and the locals it carries
  spent,      \* history: codes that a verification has deleted
  opened,     \* history: how many tokens were issued for each code
  welcomes,   \* history: welcome mails sent to each user
  overlapped  \* history: whether two verifications were in flight at once

tables == <<role, active, verified, enabled>>
redis == <<code, drawn>>
log == <<spent, opened, welcomes>>
vars == <<tables, redis, signedIn, request, log, overlapped>>

WorkRoles == {"agent", "manager"}
Roles == WorkRoles \union {"both", "super_admin"}

\* user_roles: both and super_admin unlock both surfaces.
RolesOf(r) == IF r \in WorkRoles THEN {r} ELSE WorkRoles

\* The steps a request waits at, by the kind of the request.
Verifying == {"finding", "matched", "spent", "verified"}
Administering == {"disabling", "enabling", "deleting"}
Steps == {"idle", "registering", "drawing", "adding", "switching"}
         \union Verifying \union Administering

\* role is the role asked for or "none"; first is the fate of the welcome mail;
\* by is the administrator who sent the request.
Request == [at : Steps, user : Users \union {Nobody}, code : Codes \union {NoCode},
            role : WorkRoles \union {"none"}, first : {"first", "again"},
            by : Users \union {Nobody}]
Idle == [at |-> "idle", user |-> Nobody, code |-> NoCode, role |-> "none", first |-> "again",
         by |-> Nobody]

Init ==
  /\ role = [u \in Users |-> IF u = Root THEN "super_admin" ELSE "none"]
  /\ active = [u \in Users |-> "none"]
  /\ verified = {} /\ enabled = {Root} /\ signedIn = {Root}
  /\ code = [u \in Users |-> NoCode]
  /\ drawn = {} /\ spent = {}
  /\ opened = [c \in Codes |-> 0]
  /\ welcomes = [u \in Users |-> 0]
  /\ request = [r \in Requests |-> Idle]
  /\ overlapped = FALSE

Exists(u) == role[u] \in Roles

\* No row has the address of u.
AddressFree(u) == \A v \in Users : EmailOf[v] = EmailOf[u] => ~ Exists(v)

\* _load_user behind every authenticated request: a token is good while its
\* user exists and is enabled.
MayAct(u) == u \in signedIn /\ Exists(u) /\ u \in enabled

Go(r, at) == request' = [request EXCEPT ![r].at = at]
End(r) == request' = [request EXCEPT ![r] = Idle]

Start(r, locals) ==
  /\ request[r].at = "idle"
  /\ request' = [request EXCEPT ![r] = locals]
  /\ overlapped' = (\/ overlapped
                    \/ locals.at \in Verifying
                       /\ \E q \in Requests : request[q].at \in Verifying)

--------------------------------------------------------------------------------
\* Registration and login codes (api/v1/auth.py, services/otp_service.py)

\* register refuses a known address, ...
Register(r, u, w) ==
  /\ role[u] = "none" /\ AddressFree(u)
  /\ Start(r, [Idle EXCEPT !.at = "registering", !.user = u, !.role = w])
  /\ UNCHANGED <<tables, redis, signedIn, log>>

\* ... inserts the row, which the unique address can still refuse, ...
InsertUser(r) ==
  LET u == request[r].user IN
  /\ request[r].at = "registering"
  /\ IF role[u] = "none" /\ AddressFree(u)
     THEN /\ role' = [role EXCEPT ![u] = request[r].role]
          /\ enabled' = enabled \union {u}
          /\ Go(r, "drawing")
     ELSE End(r) /\ UNCHANGED <<role, enabled>>
  /\ UNCHANGED <<active, verified, redis, signedIn, log, overlapped>>

\* ... and sends a code, as otp_send does for a user it finds.
SendCode(r, u) ==
  /\ Exists(u)
  /\ Start(r, [Idle EXCEPT !.at = "drawing", !.user = u])
  /\ UNCHANGED <<tables, redis, signedIn, log>>

\* send_email_otp replaces the code the user had, and mails the new one.
DrawCode(r) ==
  /\ request[r].at = "drawing"
  /\ \E c \in Codes \ drawn :
       /\ drawn' = drawn \union {c}
       /\ code' = [code EXCEPT ![request[r].user] = c]
  /\ End(r)
  /\ UNCHANGED <<tables, signedIn, log, overlapped>>

\* Redis drops a code after OTP_TTL_SECONDS.
ExpireCode(u) ==
  /\ code[u] # NoCode
  /\ code' = [code EXCEPT ![u] = NoCode]
  /\ UNCHANGED <<tables, drawn, signedIn, request, log, overlapped>>

\* otp_verify loads the user, to whom any mailed code may be presented.  The
\* role it will store is "none" when the one stored is still held.
ChosenRole(u) == IF active[u] \in RolesOf(role[u]) THEN "none"
                 ELSE IF "agent" \in RolesOf(role[u]) THEN "agent" ELSE "manager"

VerifyCode(r, u, c) ==
  /\ Exists(u)
  /\ Start(r, [Idle EXCEPT !.at = "finding", !.user = u, !.code = c, !.role = ChosenRole(u),
                           !.first = IF u \in verified THEN "again" ELSE "first"])
  /\ UNCHANGED <<tables, redis, signedIn, log>>

\* verify_otp reads the stored code and compares, ...
ReadCode(r) ==
  /\ request[r].at = "finding"
  /\ IF code[request[r].user] = request[r].code THEN Go(r, "matched") ELSE End(r)
  /\ UNCHANGED <<tables, redis, signedIn, log, overlapped>>

\* ... and deletes what is stored by then.
KeepCode(r) ==  \* variant
  /\ request[r].at = "matched"
  /\ spent' = spent \union {request[r].code}
  /\ Go(r, "spent")
  /\ UNCHANGED <<tables, redis, signedIn, opened, welcomes, overlapped>>

DeleteCode(r) ==
  /\ request[r].at = "matched"
  /\ code' = [code EXCEPT ![request[r].user] = NoCode]
  /\ spent' = spent \union {request[r].code}
  /\ Go(r, "spent")
  /\ UNCHANGED <<tables, drawn, signedIn, opened, welcomes, overlapped>>

\* Then otp_verify writes what it changed; a row that is gone fails it.
LeaveUnverified(r) ==  \* variant
  LET u == request[r].user IN
  /\ request[r].at = "spent"
  /\ Exists(u)
  /\ active' = [active EXCEPT ![u] = IF request[r].role = "none" THEN @ ELSE request[r].role]
  /\ Go(r, "verified")
  /\ UNCHANGED <<role, verified, enabled, redis, signedIn, log, overlapped>>

StoreVerified(r) ==
  LET u == request[r].user IN
  /\ request[r].at = "spent"
  /\ IF Exists(u)
     THEN /\ verified' = verified \union {u}
          /\ active' = [active EXCEPT ![u] = IF request[r].role = "none" THEN @ ELSE request[r].role]
          /\ Go(r, "verified")
     ELSE End(r) /\ UNCHANGED <<verified, active>>
  /\ UNCHANGED <<role, enabled, redis, signedIn, log, overlapped>>

\* It welcomes a user verified for the first time and answers with a token.
IssueToken(r) ==
  LET u == request[r].user IN
  /\ request[r].at = "verified"
  /\ IF Exists(u)
     THEN /\ welcomes' = [welcomes EXCEPT ![u] = @ + (IF request[r].first = "first" THEN 1 ELSE 0)]
          /\ opened' = [opened EXCEPT ![request[r].code] = @ + 1]
          /\ signedIn' = signedIn \union {u}
     ELSE UNCHANGED <<welcomes, opened, signedIn>>
  /\ End(r)
  /\ UNCHANGED <<tables, redis, spent, overlapped>>

--------------------------------------------------------------------------------
\* Roles (api/v1/users.py)

\* add_role turns an agent or a manager into both, ...
AddRole(r, u, w) ==
  /\ MayAct(u) /\ role[u] \in WorkRoles \ {w}
  /\ Start(r, [Idle EXCEPT !.at = "adding", !.user = u,
                           !.role = IF active[u] = "none" THEN w ELSE "none"])
  /\ UNCHANGED <<tables, redis, signedIn, log>>

ReplaceRole(r) ==  \* variant
  LET u == request[r].user IN
  /\ request[r].at = "adding"
  /\ Exists(u)
  /\ role' = [role EXCEPT ![u] = IF @ = "agent" THEN "manager" ELSE "agent"]
  /\ End(r)
  /\ UNCHANGED <<active, verified, enabled, redis, signedIn, log, overlapped>>

StoreRole(r) ==
  LET u == request[r].user IN
  /\ request[r].at = "adding"
  /\ IF Exists(u)
     THEN /\ role' = [role EXCEPT ![u] = "both"]
          /\ active' = [active EXCEPT ![u] = IF request[r].role = "none" THEN @ ELSE request[r].role]
     ELSE UNCHANGED <<role, active>>
  /\ End(r)
  /\ UNCHANGED <<verified, enabled, redis, signedIn, log, overlapped>>

\* ... and switch_role chooses among the roles the user had when it loaded him
\* (nothing is written when the choice is the stored one).
SwitchRole(r, u, w) ==
  /\ MayAct(u) /\ w \in RolesOf(role[u]) \ {active[u]}
  /\ Start(r, [Idle EXCEPT !.at = "switching", !.user = u, !.role = w])
  /\ UNCHANGED <<tables, redis, signedIn, log>>

StoreActiveRole(r) ==
  LET u == request[r].user IN
  /\ request[r].at = "switching"
  /\ active' = IF Exists(u) THEN [active EXCEPT ![u] = request[r].role] ELSE active
  /\ End(r)
  /\ UNCHANGED <<role, verified, enabled, redis, signedIn, log, overlapped>>

--------------------------------------------------------------------------------
\* Administration (api/v1/admin.py)

\* The bulk import makes the owner of a property a manager: a new row when the
\* address is unknown, and both when it is an agent's.
ImportManager(u) ==
  /\ \/ role[u] = "none" /\ AddressFree(u)
        /\ role' = [role EXCEPT ![u] = "manager"] /\ enabled' = enabled \union {u}
     \/ role[u] = "agent"
        /\ role' = [role EXCEPT ![u] = "both"] /\ UNCHANGED enabled
  /\ UNCHANGED <<active, verified, redis, signedIn, request, log, overlapped>>

\* The dependency of the admin routes, require_role(super_admin): both passes it
\* as well, for its exception is made for every role asked for.
MayAdminister(u) == MayAct(u) /\ role[u] \in {"super_admin", "both"}

\* An administrator disables, enables or deletes another user; setting the flag
\* to what it is writes nothing.
AdministerAnyone(r, u, at) ==  \* variant
  /\ Exists(u) /\ (at = "disabling" => u \in enabled) /\ (at = "enabling" => u \notin enabled)
  /\ \E a \in Users :
       /\ MayAdminister(a)
       /\ Start(r, [Idle EXCEPT !.at = at, !.user = u, !.by = a])
  /\ UNCHANGED <<tables, redis, signedIn, log>>

Administer(r, u, at) ==
  /\ Exists(u) /\ (at = "disabling" => u \in enabled) /\ (at = "enabling" => u \notin enabled)
  /\ \E a \in Users \ {u} :
       /\ MayAdminister(a)
       /\ Start(r, [Idle EXCEPT !.at = at, !.user = u, !.by = a])
  /\ UNCHANGED <<tables, redis, signedIn, log>>

StoreEnabled(r) ==
  LET u == request[r].user IN
  /\ request[r].at \in {"disabling", "enabling"}
  /\ enabled' = IF ~ Exists(u) THEN enabled
                ELSE IF request[r].at = "enabling" THEN enabled \union {u} ELSE enabled \ {u}
  /\ End(r)
  /\ UNCHANGED <<role, active, verified, redis, signedIn, log, overlapped>>

\* The row goes; its code stays in Redis until it expires, and its token is
\* refused from now on.
DeleteUser(r) ==
  LET u == request[r].user IN
  /\ request[r].at = "deleting"
  /\ role' = [role EXCEPT ![u] = "deleted"]
  /\ active' = [active EXCEPT ![u] = "none"]
  /\ verified' = verified \ {u} /\ enabled' = enabled \ {u}
  /\ End(r)
  /\ UNCHANGED <<redis, signedIn, log, overlapped>>

--------------------------------------------------------------------------------
\* A request dies where it is; what it has committed stays.
Fail(r) ==
  /\ request[r].at # "idle"
  /\ End(r)
  /\ UNCHANGED <<tables, redis, signedIn, log, overlapped>>

Begin(r, u) ==
  \/ \E w \in WorkRoles : Register(r, u, w) \/ AddRole(r, u, w) \/ SwitchRole(r, u, w)
  \/ SendCode(r, u)
  \/ \E c \in drawn : VerifyCode(r, u, c)
  \/ \E at \in Administering : Administer(r, u, at)

Continue(r) ==
  \/ InsertUser(r) \/ DrawCode(r)
  \/ ReadCode(r) \/ DeleteCode(r) \/ StoreVerified(r) \/ IssueToken(r)
  \/ StoreRole(r) \/ StoreActiveRole(r)
  \/ StoreEnabled(r) \/ DeleteUser(r)
  \/ Fail(r)

Next ==
  \/ \E r \in Requests : Continue(r) \/ \E u \in Users : Begin(r, u)
  \/ \E u \in Users : ExpireCode(u) \/ ImportManager(u)

Spec == Init /\ [][Next]_vars

--------------------------------------------------------------------------------
\* The tables, keys and requests are well typed; a verification carries a code
\* that was mailed, a switch the role to store.
TypeOK ==
  /\ role \in [Users -> Roles \union {"none", "deleted"}]
  /\ active \in [Users -> WorkRoles \union {"none"}]
  /\ verified \in SUBSET Users /\ enabled \in SUBSET Users /\ signedIn \in SUBSET Users
  /\ code \in [Users -> Codes \union {NoCode}]
  /\ drawn \in SUBSET Codes /\ spent \in SUBSET Codes
  /\ opened \in [Codes -> Nat] /\ welcomes \in [Users -> Nat]
  /\ request \in [Requests -> Request]
  /\ \A r \in Requests :
       /\ request[r].at = "idle" <=> request[r].user = Nobody
       /\ request[r].at \in Verifying => request[r].code \in drawn
       /\ request[r].at = "switching" => request[r].role # "none"
  /\ overlapped \in BOOLEAN

\* A code that a verification has used up is never again the stored one: not by
\* a second verification that read it in time, not by a send that crosses the
\* two, not when the first one dies half-way (verify_otp, send_email_otp).
SpentCodeIsDead == \A u \in Users : code[u] \notin spent

\* One code opens one session and a user is welcomed once, unless two verifications
\* run side by side; sends, failures and changes of the user in between make no
\* difference.
VerifiedOnce ==
  ~ overlapped =>
    (\A c \in Codes : opened[c] <= 1) /\ (\A u \in Users : welcomes[u] <= 1)

\* The active role is one the user holds, although add_role, switch_role,
\* otp_verify and the import each write on what they read earlier.
ActiveRoleIsHeld ==
  \A u \in Users : Exists(u) /\ active[u] # "none" => active[u] \in RolesOf(role[u])

\* Nobody locks the administrators out by himself: the last user who passes the
\* admin routes goes by a request of one who passed them when he sent it and
\* does not any more (_load_target_user refuses one's own account only; two
\* administrators can still act on each other at once).
LastAdministratorFallsLate ==
  [][(\E u \in Users : MayAdminister(u)) /\ ~ (\E u \in Users : MayAdminister(u)')
     => \E r \in Requests :
          /\ request[r].at \in Administering /\ request'[r] = Idle
          /\ ~ MayAdminister(request[r].by)]_vars
================================================================================
