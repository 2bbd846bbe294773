------------------------------- MODULE AdminAuth -------------------------------
(***************************************************************************)
(* The administrators' accounts: creation from the command line, the       *)
(* confirmation of the second factor, sign-in with password and code, the  *)
(* session middleware and sign-out, and the audit records they leave, one  *)
(* action per statement sent to the database.                              *)
(*                                                                         *)
(* An administrator is the address of the account and the person who knows *)
(* its password.  A code is the secret it was computed from and the time   *)
(* the authenticator showed: two counters never give one code.             *)
(***************************************************************************)
EXTENDS Integers, FiniteSets

CONSTANTS
    None,
    Admins,
    Period,             \* totpPeriod
    AdminSessionTTL,
    CodeTimes,          \* the times authenticators show
    MaxTime,            \* bound on the clock
    MaxOps              \* bound on the requests and commands

Roles == {"super_admin", "operator", "viewer"}
Secrets == 0 .. MaxOps - 1  \* of the command that created the account

\* A row of admin_accounts.
Account == [role : Roles, secret : Secrets, enabled : BOOLEAN, disabled : BOOLEAN]

ASSUME AdminsAssumption == IsFiniteSet(Admins)
ASSUME NoneAssumption == None \notin Nat \cup Account
ASSUME TimesAssumption ==
    /\ Period \in Nat \ {0} /\ AdminSessionTTL \in Nat
    /\ CodeTimes \subseteq Nat /\ MaxTime \in Nat /\ MaxOps \in Nat \ {0}

VARIABLES
    now,
    accounts,   \* accounts[a]: the row of a, or None
    sessions,   \* sessions[token] = [admin, expires, revoked]; tokens are 1, 2, ...
    audit,      \* audit records [action, admin, op]
    holds,      \* holds[a]: the secret in a's authenticator, or None
    request,    \* request[a]: a's request or command in flight, or Idle
    cookie,     \* cookie[a]: a's session token, or None
    ops,        \* requests and commands so far
    unaudited   \* history: ops whose audit record could not be appended
vars == <<now, accounts, sessions, audit, holds, request, cookie, ops, unaudited>>

Idle == [op |-> "idle"]
Tokens == DOMAIN sessions
CanWrite(role) == role \in {"super_admin", "operator"}

\* Before the first command, or with one administrator enrolled and nothing in flight.
Init ==
    /\ now = 0
    /\ sessions = [t \in {} |-> None]
    /\ audit = {}
    /\ request = [a \in Admins |-> Idle]
    /\ cookie = [a \in Admins |-> None]
    /\ unaudited = {}
    /\ \/ /\ ops = 0
          /\ accounts = [a \in Admins |-> None]
          /\ holds = [a \in Admins |-> None]
       \/ /\ ops = 1
          /\ \E a \in Admins :
                /\ accounts = [b \in Admins |-> IF b # a THEN None ELSE
                      [role |-> "super_admin", secret |-> 0, enabled |-> TRUE, disabled |-> FALSE]]
                /\ holds = [b \in Admins |-> IF b # a THEN None ELSE 0]

----------------------------------------------------------------------------
(* Time-based codes. *)

Counter(t) == t \div Period

(* Mutant: three windows instead of one on either side. *)
VerifyTOTP_WideSkew(secret, code, t) ==
    /\ code.secret = secret
    /\ \E skew \in -3 .. 3 : Counter(code.at) = Counter(t + skew * Period)

\* One window of drift on either side.
VerifyTOTP(secret, code, t) ==
    /\ code.secret = secret
    /\ \E skew \in -1 .. 1 : Counter(code.at) = Counter(t + skew * Period)

\* What a can type: a code of its authenticator, old or of a clock that is ahead, or a wrong one.
Codes(a) == [secret : {holds[a]}, at : CodeTimes] \cup {[secret |-> None, at |-> 0]}

----------------------------------------------------------------------------
Dead(t) ==
    \/ sessions[t].revoked
    \/ now >= sessions[t].expires
    \/ accounts[sessions[t].admin].disabled

\* A request or command as it arrives (history: its number, and the sessions and accounts
\* that were dead by then).
New(op, step) ==
    [op |-> op, step |-> step, account |-> None, token |-> None, row |-> None, code |-> None,
     write |-> FALSE, id |-> ops,
     dead |-> {t \in Tokens : Dead(t)},
     gone |-> {b \in Admins : accounts[b] # None /\ accounts[b].disabled}]

Begin(a, new) ==
    /\ request[a] = Idle
    /\ ops < MaxOps
    /\ ops' = ops + 1
    /\ request' = [request EXCEPT ![a] = new]
    /\ UNCHANGED <<now, accounts, sessions, audit, holds, cookie, unaudited>>

At(a, op, step) == request[a].op = op /\ request[a].step = step
Move(a, step) == request' = [request EXCEPT ![a].step = step]
Answer(a) == request' = [request EXCEPT ![a] = Idle]

\* appendAudit: a failed append is logged and the request goes on.
Record(a, action, admin) ==
    \/ /\ audit' = audit \cup {[action |-> action, admin |-> admin, op |-> request[a].id]}
       /\ UNCHANGED unaudited
    \/ unaudited' = unaudited \cup {request[a].id} /\ UNCHANGED audit

Tables == <<accounts, sessions, holds, cookie>>

----------------------------------------------------------------------------
(* umaas admin create *)

Create(a, role) == Begin(a, [New("create", "count") EXCEPT !.row = role])

\* The first account must be a super_admin.
MayCreate(count, role) == count = 0 => role = "super_admin"

CountAdmins(a) ==
    /\ At(a, "create", "count")
    /\ IF MayCreate(Cardinality({b \in Admins : accounts[b] # None}), request[a].row)
       THEN Move(a, "insert")
       ELSE Answer(a)
    /\ UNCHANGED <<now, Tables, audit, ops, unaudited>>

\* The account is created with its secret and two-factor authentication off.
CreateAdminAccount(a) ==
    /\ At(a, "create", "insert")
    /\ IF accounts[a] # None THEN Answer(a) /\ UNCHANGED accounts
       ELSE /\ accounts' = [accounts EXCEPT ![a] =
                  [role |-> request[a].row, secret |-> request[a].id, enabled |-> FALSE,
                   disabled |-> FALSE]]
            /\ Move(a, "audit")
    /\ UNCHANGED <<now, sessions, holds, cookie, audit, ops, unaudited>>

\* The enrolment is printed after the audit record: the secret is shown this once.
CreateAdmin(a) ==
    /\ At(a, "create", "audit")
    /\ Record(a, "admin.create", a)
    /\ holds' = [holds EXCEPT ![a] = accounts[a].secret]
    /\ Answer(a)
    /\ UNCHANGED <<now, accounts, sessions, cookie, ops>>

----------------------------------------------------------------------------
(* Confirmation of the second factor. *)

adminConfirmTOTP(a, b, code) ==
    Begin(a, [New("confirm", "find") EXCEPT !.account = b, !.code = code])

(* Mutant: the code is not checked before the factor is enabled. *)
MayConfirm_AnyCode(a, b, code) ==
    accounts[b] # None /\ a = b /\ ~accounts[b].enabled

\* Password, not enabled yet, and a code of the stored secret.
MayConfirm(a, b, code) ==
    /\ accounts[b] # None /\ a = b /\ ~accounts[b].enabled
    /\ VerifyTOTP(accounts[b].secret, code, now)

ReadForConfirm(a) ==
    LET r == request[a]
    IN  /\ At(a, "confirm", "find")
        /\ request' = [request EXCEPT ![a] =
              IF MayConfirm(a, r.account, r.code)
              THEN [r EXCEPT !.step = "set", !.row = accounts[r.account]]
              ELSE Idle]
        /\ UNCHANGED <<now, Tables, audit, ops, unaudited>>

\* The secret that was read is written back with the factor enabled.
SetAdminTOTP(a) ==
    LET r == request[a]
    IN  /\ At(a, "confirm", "set")
        /\ accounts' = [accounts EXCEPT ![r.account].secret = r.row.secret,
                                        ![r.account].enabled = TRUE]
        /\ Move(a, "audit")
        /\ UNCHANGED <<now, sessions, holds, cookie, audit, ops, unaudited>>

ConfirmAdminTOTP(a) ==
    /\ At(a, "confirm", "audit")
    /\ Record(a, "admin.totp_enabled", request[a].account)
    /\ Answer(a)
    /\ UNCHANGED <<now, Tables, ops>>

----------------------------------------------------------------------------
(* Sign-in. *)

adminLogin(a, b, code) ==
    Begin(a, [New("login", "find") EXCEPT !.account = b, !.code = code])

\* Nobody signs in before the second factor is set up.
Enrolled(row) == row.enabled /\ row.secret # None

\* One row is read and everything is checked on it; what fails is recorded, but for an
\* unknown address and an account without a second factor.
AdminLogin(a) ==
    LET r == request[a]
        row == accounts[r.account]
    IN  /\ At(a, "login", "find")
        /\ request' = [request EXCEPT ![a] =
              IF row = None THEN Idle
              ELSE IF a # r.account \/ row.disabled THEN [r EXCEPT !.step = "audit failure"]
              ELSE IF ~Enrolled(row) THEN Idle
              ELSE IF ~VerifyTOTP(row.secret, r.code, now)
                   THEN [r EXCEPT !.step = "audit failure"]
              ELSE [r EXCEPT !.step = "session", !.row = row]]
        /\ UNCHANGED <<now, Tables, audit, ops, unaudited>>

auditAdminLoginFailure(a) ==
    /\ At(a, "login", "audit failure")
    /\ Record(a, "admin.login_failed", request[a].account)
    /\ Answer(a)
    /\ UNCHANGED <<now, Tables, ops>>

CreateAdminSession(a) ==
    LET t == Cardinality(Tokens) + 1
    IN  /\ At(a, "login", "session")
        /\ sessions' = [u \in Tokens \cup {t} |->
              IF u \in Tokens THEN sessions[u]
              ELSE [admin |-> request[a].account, expires |-> now + AdminSessionTTL,
                    revoked |-> FALSE, op |-> request[a].id]]
        /\ request' = [request EXCEPT ![a].step = "touch", ![a].token = t]
        /\ UNCHANGED <<now, accounts, holds, cookie, audit, ops, unaudited>>

(* Mutant: a failed update of the last activity skips the audit record. *)
TouchAdminActivity_SkipsAudit(a) ==
    /\ At(a, "login", "touch")
    /\ Move(a, "audit") \/ Move(a, "lookup")
    /\ UNCHANGED <<now, Tables, audit, ops, unaudited>>

\* The outcome of the update is ignored.
TouchAdminActivity(a) ==
    /\ At(a, "login", "touch")
    /\ Move(a, "audit")
    /\ UNCHANGED <<now, Tables, audit, ops, unaudited>>

RecordLogin(a) ==
    /\ At(a, "login", "audit")
    /\ Record(a, "admin.login", request[a].account)
    /\ Move(a, "lookup")
    /\ UNCHANGED <<now, Tables, ops>>

(* Mutant: a disabled account is only noticed at sign-in. *)
LookupAdminSession_EvenDisabled(t) == ~sessions[t].revoked /\ now < sessions[t].expires

\* One row: the session joined with its account.
LookupAdminSession(t) ==
    /\ ~sessions[t].revoked
    /\ now < sessions[t].expires
    /\ ~accounts[sessions[t].admin].disabled

\* The sign-in's own lookup: its answer sets the cookie.
FinishLogin(a) ==
    /\ At(a, "login", "lookup")
    /\ request' = [request EXCEPT ![a] =
          IF LookupAdminSession(@.token) THEN [@ EXCEPT !.step = "admitted"] ELSE Idle]
    /\ UNCHANGED <<now, Tables, audit, ops, unaudited>>

----------------------------------------------------------------------------
(* The middleware of the other endpoints, and sign-out. *)

Serve(a, write) ==
    /\ cookie[a] # None
    /\ Begin(a, [New("serve", "lookup") EXCEPT !.token = cookie[a], !.write = write])

\* A viewer reads only.
RequireAdminWrite(a) ==
    request[a].write => CanWrite(accounts[sessions[request[a].token].admin].role)

RequireAdmin(a) ==
    /\ At(a, "serve", "lookup")
    /\ request' = [request EXCEPT ![a] =
          IF LookupAdminSession(@.token) /\ RequireAdminWrite(a)
          THEN [@ EXCEPT !.step = "admitted"] ELSE Idle]
    /\ UNCHANGED <<now, Tables, audit, ops, unaudited>>

\* The answer: the cookie of a sign-in, or the page.
Admitted(a) ==
    /\ request[a] # Idle /\ request[a].step = "admitted"
    /\ cookie' = IF request[a].op = "login" THEN [cookie EXCEPT ![a] = request[a].token]
                 ELSE cookie
    /\ Answer(a)
    /\ UNCHANGED <<now, accounts, sessions, holds, audit, ops, unaudited>>

adminLogout(a) ==
    /\ cookie[a] # None
    /\ Begin(a, [New("logout", "revoke") EXCEPT !.token = cookie[a]])

RevokeAdminSession(a) ==
    /\ At(a, "logout", "revoke")
    /\ sessions' = [sessions EXCEPT ![request[a].token].revoked = TRUE]
    /\ cookie' = [cookie EXCEPT ![a] = None]
    /\ Answer(a)
    /\ UNCHANGED <<now, accounts, holds, audit, ops, unaudited>>

\* A statement fails, the browser goes away or the command is killed.
Fail(a) ==
    /\ request[a] # Idle
    /\ Answer(a)
    /\ UNCHANGED <<now, Tables, audit, ops, unaudited>>

----------------------------------------------------------------------------
(* Outside the requests (no endpoint disables an account or revokes its sessions yet). *)

Tick ==
    /\ now < MaxTime
    /\ now' = now + 1
    /\ UNCHANGED <<Tables, audit, request, ops, unaudited>>

DisableAdmin(b) ==
    /\ accounts[b] # None
    /\ accounts' = [accounts EXCEPT ![b].disabled = TRUE]
    /\ UNCHANGED <<now, sessions, holds, cookie, audit, request, ops, unaudited>>

RevokeAllAdminSessions(b) ==
    /\ sessions' = [t \in Tokens |-> IF sessions[t].admin = b
                                     THEN [sessions[t] EXCEPT !.revoked = TRUE]
                                     ELSE sessions[t]]
    /\ UNCHANGED <<now, accounts, holds, cookie, audit, request, ops, unaudited>>

Next ==
    \/ \E a \in Admins :
        \/ \E role \in Roles : Create(a, role)
        \/ \E b \in Admins, code \in Codes(a) :
            adminConfirmTOTP(a, b, code) \/ adminLogin(a, b, code)
        \/ \E write \in BOOLEAN : Serve(a, write)
        \/ adminLogout(a)
        \/ CountAdmins(a) \/ CreateAdminAccount(a) \/ CreateAdmin(a)
        \/ ReadForConfirm(a) \/ SetAdminTOTP(a) \/ ConfirmAdminTOTP(a)
        \/ AdminLogin(a) \/ auditAdminLoginFailure(a) \/ CreateAdminSession(a)
        \/ TouchAdminActivity(a) \/ RecordLogin(a) \/ FinishLogin(a)
        \/ RequireAdmin(a) \/ Admitted(a) \/ RevokeAdminSession(a)
        \/ Fail(a)
    \/ Tick
    \/ \E b \in Admins : DisableAdmin(b) \/ RevokeAllAdminSessions(b)

Spec == Init /\ [][Next]_vars

----------------------------------------------------------------------------
\* The variables have the values they should: every account keeps the secret of the command
\* that created it, and no session outlives its eight hours.
TypeOK ==
    /\ now \in 0 .. MaxTime
    /\ accounts \in [Admins -> Account \cup {None}]
    /\ Tokens = 1 .. Cardinality(Tokens)
    /\ \A t \in Tokens :
        /\ accounts[sessions[t].admin] # None
        /\ sessions[t].expires \in AdminSessionTTL .. MaxTime + AdminSessionTTL
    /\ cookie \in [Admins -> Tokens \cup {None}]
    /\ \A a \in Admins : holds[a] # None => accounts[a] # None /\ holds[a] = accounts[a].secret

\* Two-factor authentication is only ever enabled for somebody whose authenticator has the
\* secret: an account whose secret was never shown cannot be locked behind it.
SecondFactorProved ==
    \A a \in Admins : (accounts[a] # None /\ accounts[a].enabled) => holds[a] = accounts[a].secret

\* No administrator has a session before the second factor is confirmed, though the secret a
\* code is computed from exists since the account does.
SessionsAreTwoFactor == \A t \in Tokens : accounts[sessions[t].admin].enabled

\* Nothing is served, and no cookie handed out, for a session that was revoked or expired when
\* the request arrived, or for an account disabled by then.
NoneAfterDisabled ==
    \A a \in Admins : (request[a] # Idle /\ request[a].step = "admitted") =>
        /\ request[a].token \notin request[a].dead
        /\ sessions[request[a].token].admin \notin request[a].gone

\* Every session somebody holds was recorded when it was opened, unless that very append
\* failed; and every recorded sign-in opened a session.
SignInsAudited ==
    /\ \A a \in Admins : cookie[a] # None =>
        LET s == sessions[cookie[a]]
        IN  \/ [action |-> "admin.login", admin |-> s.admin, op |-> s.op] \in audit
            \/ s.op \in unaudited
    /\ \A e \in audit : e.action = "admin.login" =>
        \E t \in Tokens : sessions[t].admin = e.admin /\ sessions[t].op = e.op

\* Whatever commands run side by side, there is a super_admin as soon as there is an
\* administrator.
SuperAdminExists ==
    (\E a \in Admins : accounts[a] # None) =>
        \E a \in Admins : accounts[a] # None /\ accounts[a].role = "super_admin"

\* A code is good for less than two windows before and after the time it shows, and always
\* within one: a slow request or a drifting clock of one window refuses nobody.
CodeWindow ==
    [][\A a \in Admins :
        At(a, "login", "find") =>
            LET r == request[a]
                age == IF now >= r.code.at THEN now - r.code.at ELSE r.code.at - now
            IN  /\ At(a, "login", "session")' => age < 2 * Period
                /\ (At(a, "login", "audit failure")' /\ a = r.account /\ ~accounts[a].disabled
                        /\ r.code.secret = accounts[a].secret) => age > Period]_vars

\* Enrolment: a super_admin comes first, and nobody gets a second factor or a session that
\* was not proved.
EnrolmentSound == TypeOK /\ SecondFactorProved /\ SessionsAreTwoFactor /\ SuperAdminExists

==============================================================================
