------------------------------- MODULE Sessions -------------------------------
(***************************************************************************)
(* The customers' accounts and sessions: registration, sign-in, the        *)
(* session middleware and sign-out (internal/auth, httpapi/auth and the    *)
(* identity repository), one action per statement sent to the database.    *)
(*                                                                         *)
(* Each client is a browser with at most one request in flight and one     *)
(* session cookie.  A request fails when a statement does, or when the     *)
(* browser goes away and its context is cancelled.  An account belongs to  *)
(* the client that registered it, who alone knows its password; hashing,   *)
(* the formats of names and passwords, and OAuth (which answers            *)
(* not_configured) are left out.                                           *)
(***************************************************************************)
EXTENDS Integers, FiniteSets

CONSTANTS
    None,
    Clients,
    Emails,          \* normalised
    Local(_),        \* what the slug keeps of an address
    Ticks,           \* nanoseconds within the second, the other half of the slug
    SessionTTL, SessionTTLRemember,
    MaxTime,         \* bound on the clock
    MaxOps           \* bound on the requests, and so on the sessions

\* A row of users.
User == [email : Emails, by : Clients]

workspaceSlug(email, tick) == <<Local(email), tick>>

Slug == {workspaceSlug(email, tick) : email \in Emails, tick \in Ticks}

\* What the transaction of a registration has written.
Tx == [user : User, slug : Slug \cup {None}, member : BOOLEAN]

ASSUME TTLAssumption ==
    /\ SessionTTL \in Nat \ {0} /\ SessionTTLRemember \in Nat /\ MaxTime \in Nat
    /\ SessionTTL <= SessionTTLRemember
ASSUME NoneAssumption == None \notin Nat \cup Slug \cup Tx

VARIABLES
    now,
    users,        \* committed rows [email, by]
    workspaces,   \* committed rows [slug, user]
    memberships,  \* committed rows [user, slug]
    suspended,    \* users whose status is suspended
    sessions,     \* sessions[token] = [user, expires, revoked]; tokens are 1, 2, ...
    tx,           \* tx[c]: what the open transaction of c has written, or None
    request,      \* request[c]: the request in flight, or Idle
    cookie,       \* cookie[c]: the session token the browser holds, or None
    ops,          \* requests made so far
    signedOut     \* history: tokens whose sign-out was answered 204
vars == <<now, users, workspaces, memberships, suspended, sessions, tx, request, cookie, ops,
          signedOut>>
tables == <<users, workspaces, memberships, suspended>>

Idle == [op |-> "idle"]
Tokens == DOMAIN sessions

Init ==
    /\ now = 0
    /\ users = {} /\ workspaces = {} /\ memberships = {} /\ suspended = {}
    /\ sessions = [t \in {} |-> None]
    /\ tx = [c \in Clients |-> None]
    /\ request = [c \in Clients |-> Idle]
    /\ cookie = [c \in Clients |-> None]
    /\ ops = 0
    /\ signedOut = {}

\* A session that lets nobody in: revoked, expired, or of a suspended account.
Dead(t) == sessions[t].revoked \/ now >= sessions[t].expires \/ sessions[t].user \in suspended

\* A request as it arrives (history: which tokens and accounts were already dead by then).
New(op, step) ==
    [op |-> op, step |-> step, email |-> None, user |-> None, token |-> None,
     ttl |-> SessionTTL, dead |-> {t \in Tokens : Dead(t)}, gone |-> suspended]

Begin(c, new) ==
    /\ request[c] = Idle
    /\ ops < MaxOps
    /\ ops' = ops + 1
    /\ request' = [request EXCEPT ![c] = new]
    /\ UNCHANGED <<now, tables, sessions, tx, cookie, signedOut>>

At(c, step) == request[c].op # "idle" /\ request[c].step = step
Move(c, step) == request' = [request EXCEPT ![c].step = step]
Answer(c) == request' = [request EXCEPT ![c] = Idle]
Keep == UNCHANGED <<now, ops, signedOut>>

----------------------------------------------------------------------------
(* Registration: one transaction, then a session outside it. *)

Register(c, e) ==
    Begin(c, [New("register", "user") EXCEPT !.email = e])

\* The unique index makes an insert wait for whoever inserted the address and not committed.
EmailBlocked(c, e) == \E d \in Clients \ {c} : tx[d] # None /\ tx[d].user.email = e

SlugBlocked(c, s) == \E d \in Clients \ {c} : tx[d] # None /\ tx[d].slug = s

(* Mutant: the user row is committed at once. *)
CreateUser_Autocommit(c) ==
    LET e == request[c].email
        u == [email |-> e, by |-> c]
    IN  /\ At(c, "user")
        /\ ~EmailBlocked(c, e)
        /\ IF \E v \in users : v.email = e
           THEN Answer(c) /\ UNCHANGED <<tx, users>>
           ELSE /\ tx' = [tx EXCEPT ![c] = [user |-> u, slug |-> None, member |-> FALSE]]
                /\ users' = users \cup {u}
                /\ Move(c, "workspace")
        /\ UNCHANGED <<workspaces, memberships, suspended, sessions, cookie>>
        /\ Keep

\* INSERT INTO users: 409 email_taken when a committed row has the address.
CreateUser(c) ==
    LET e == request[c].email
        u == [email |-> e, by |-> c]
    IN  /\ At(c, "user")
        /\ ~EmailBlocked(c, e)
        /\ IF \E v \in users : v.email = e
           THEN Answer(c) /\ UNCHANGED tx
           ELSE /\ tx' = [tx EXCEPT ![c] = [user |-> u, slug |-> None, member |-> FALSE]]
                /\ Move(c, "workspace")
        /\ UNCHANGED <<tables, sessions, cookie>>
        /\ Keep

\* INSERT INTO workspaces: 409 workspace_slug_taken rolls the user row back.
CreateWorkspace(c, tick) ==
    LET slug == workspaceSlug(request[c].email, tick)
    IN  /\ At(c, "workspace")
        /\ ~SlugBlocked(c, slug)
        /\ IF \E w \in workspaces : w.slug = slug
           THEN Answer(c) /\ tx' = [tx EXCEPT ![c] = None]
           ELSE Move(c, "membership") /\ tx' = [tx EXCEPT ![c].slug = slug]
        /\ UNCHANGED <<tables, sessions, cookie>>
        /\ Keep

CreateMembership(c) ==
    /\ At(c, "membership")
    /\ tx' = [tx EXCEPT ![c].member = TRUE]
    /\ Move(c, "commit")
    /\ UNCHANGED <<tables, sessions, cookie>>
    /\ Keep

\* The commit, whose answer may be lost: the account then exists and the client is told that
\* the registration failed.
Commit(c, answered) ==
    LET t == tx[c]
    IN  /\ At(c, "commit")
        /\ users' = users \cup {t.user}
        /\ workspaces' = workspaces \cup {[slug |-> t.slug, user |-> t.user]}
        /\ memberships' = memberships \cup {[user |-> t.user, slug |-> t.slug]}
        /\ tx' = [tx EXCEPT ![c] = None]
        /\ request' = [request EXCEPT ![c] =
                          IF answered THEN [@ EXCEPT !.step = "session", !.user = t.user]
                          ELSE Idle]
        /\ UNCHANGED <<suspended, sessions, cookie>>
        /\ Keep

----------------------------------------------------------------------------
(* Sign-in, and the session both ways in end with. *)

Login(c, e, remember) ==
    Begin(c, [New("login", "find") EXCEPT
                !.email = e, !.ttl = IF remember THEN SessionTTLRemember ELSE SessionTTL])

\* The row of the address: the password and the status are checked on what was read.
GetUserByEmail(c) ==
    LET found == {u \in users : u.email = request[c].email /\ u.by = c}
    IN  /\ At(c, "find")
        /\ request' = [request EXCEPT ![c] =
              IF found = {} \/ found \cap suspended # {} THEN Idle
              ELSE [@ EXCEPT !.step = "session", !.user = CHOOSE u \in found : TRUE]]
        /\ UNCHANGED <<tables, sessions, tx, cookie>>
        /\ Keep

\* issueSession, its insert ...
CreateSession(c) ==
    LET t == Cardinality(Tokens) + 1
    IN  /\ At(c, "session")
        /\ sessions' = [u \in Tokens \cup {t} |->
              IF u \in Tokens THEN sessions[u]
              ELSE [user |-> request[c].user, expires |-> now + request[c].ttl,
                    revoked |-> FALSE]]
        /\ request' = [request EXCEPT ![c].step = "lookup", ![c].token = t]
        /\ UNCHANGED <<tables, tx, cookie>>
        /\ Keep

(* Mutant: the status of the account is checked at sign-in only. *)
Valid_AnyStatus(t) == ~sessions[t].revoked /\ now < sessions[t].expires

\* What LookupSession asks of the row it reads, joined with its user.
Valid(t) ==
    /\ ~sessions[t].revoked
    /\ now < sessions[t].expires
    /\ sessions[t].user \notin suspended

\* ... and its lookup, which is also what the middleware does for every request.
GetSessionByTokenHash(c) ==
    /\ At(c, "lookup")
    /\ request' = [request EXCEPT ![c] =
          IF Valid(@.token)
          THEN [@ EXCEPT !.step = "membership of", !.user = sessions[request[c].token].user]
          ELSE Idle]
    /\ UNCHANGED <<tables, sessions, tx, cookie>>
    /\ Keep

\* A user without a workspace gets 404 no_workspace.  Otherwise the request is admitted: a
\* sign-in is answered with the cookie, a page is served.
ListMembershipsByUser(c) ==
    /\ At(c, "membership of")
    /\ IF \E m \in memberships : m.user = request[c].user
       THEN Move(c, "admitted")
       ELSE Answer(c)
    /\ UNCHANGED <<tables, sessions, tx, cookie>>
    /\ Keep

Admitted(c) ==
    /\ At(c, "admitted")
    /\ cookie' = IF request[c].op = "serve" THEN cookie
                 ELSE [cookie EXCEPT ![c] = request[c].token]
    /\ Answer(c)
    /\ UNCHANGED <<tables, sessions, tx>>
    /\ Keep

RequireSession(c) ==
    /\ cookie[c] # None
    /\ Begin(c, [New("serve", "lookup") EXCEPT !.token = cookie[c]])

Logout(c) ==
    /\ cookie[c] # None
    /\ Begin(c, [New("logout", "revoke") EXCEPT !.token = cookie[c]])

(* Mutant: 204 is answered although the statement failed. *)
RevokeSession_ErrorIgnored(c, done) ==
    /\ At(c, "revoke")
    /\ sessions' = [sessions EXCEPT ![request[c].token].revoked = @ \/ done]
    /\ signedOut' = signedOut \cup {request[c].token}
    /\ cookie' = [cookie EXCEPT ![c] = None]
    /\ Answer(c)
    /\ UNCHANGED <<now, ops, tables, tx>>

\* UPDATE ... WHERE revoked_at IS NULL, then 204 and the cookie is cleared.  When the answer of
\* either is lost the session is revoked and the browser, which is not told, keeps the cookie.
RevokeSession(c, answered) ==
    /\ At(c, "revoke")
    /\ sessions' = [sessions EXCEPT ![request[c].token].revoked = TRUE]
    /\ IF answered
       THEN /\ signedOut' = signedOut \cup {request[c].token}
            /\ cookie' = [cookie EXCEPT ![c] = None]
       ELSE UNCHANGED <<signedOut, cookie>>
    /\ Answer(c)
    /\ UNCHANGED <<now, ops, tables, tx>>

(* Mutant: a transaction left by an error is not rolled back. *)
Fail_NoRollback(c) ==
    /\ request[c] # Idle
    /\ Answer(c)
    /\ UNCHANGED <<tables, sessions, tx, cookie>>
    /\ Keep

\* A statement fails or the browser is gone: the deferred Rollback undoes the transaction,
\* the answer is an error and the cookie stays what it was.
Fail(c) ==
    /\ request[c] # Idle
    /\ Answer(c)
    /\ tx' = [tx EXCEPT ![c] = None]
    /\ UNCHANGED <<tables, sessions, cookie>>
    /\ Keep

----------------------------------------------------------------------------
(* Outside the requests: the clock, and an operator who suspends an account or revokes all of
   its sessions (no endpoint does yet). *)

Tick ==
    /\ now < MaxTime
    /\ now' = now + 1
    /\ UNCHANGED <<tables, sessions, tx, request, cookie, ops, signedOut>>

Suspend(u) ==
    /\ suspended' = suspended \cup {u}
    /\ UNCHANGED <<now, users, workspaces, memberships, sessions, tx, request, cookie, ops,
                   signedOut>>

RevokeAllUserSessions(u) ==
    /\ sessions' = [t \in Tokens |-> IF sessions[t].user = u
                                     THEN [sessions[t] EXCEPT !.revoked = TRUE]
                                     ELSE sessions[t]]
    /\ UNCHANGED <<now, tables, tx, request, cookie, ops, signedOut>>

Statement(c) ==
    \/ CreateUser(c)
    \/ \E tick \in Ticks : CreateWorkspace(c, tick)
    \/ CreateMembership(c)
    \/ \E answered \in BOOLEAN : Commit(c, answered)
    \/ GetUserByEmail(c)
    \/ CreateSession(c)
    \/ GetSessionByTokenHash(c)
    \/ ListMembershipsByUser(c)
    \/ Admitted(c)
    \/ \E answered \in BOOLEAN : RevokeSession(c, answered)

Next ==
    \/ \E c \in Clients :
        \/ \E e \in Emails : Register(c, e)
        \/ \E e \in Emails, remember \in BOOLEAN : Login(c, e, remember)
        \/ RequireSession(c)
        \/ Logout(c)
        \/ Statement(c)
        \/ Fail(c)
    \/ Tick
    \/ \E u \in users : Suspend(u) \/ RevokeAllUserSessions(u)

Spec == Init /\ [][Next]_vars

----------------------------------------------------------------------------
\* The variables have the values they should: no session outlives the longest lifetime a
\* sign-in at the end of time would give it, and every session is of a committed account.
TypeOK ==
    /\ now \in 0 .. MaxTime
    /\ users \subseteq [email : Emails, by : Clients]
    /\ \A w \in workspaces : w.user \in users
    /\ suspended \subseteq users
    /\ Tokens = 1 .. Cardinality(Tokens)
    /\ \A t \in Tokens :
        /\ sessions[t].user \in users
        /\ sessions[t].expires \in SessionTTL .. MaxTime + SessionTTLRemember
        /\ sessions[t].revoked \in BOOLEAN
    /\ cookie \in [Clients -> Tokens \cup {None}]
    /\ \A c \in Clients : tx[c] # None => tx[c].user.by = c

\* Two registrations of one address never both succeed, nor two with one slug.
OneAccountPerEmail ==
    /\ \A u, v \in users : u.email = v.email => u = v
    /\ \A v, w \in workspaces : v.slug = w.slug => v = w

\* An account that exists has the workspace and the membership without which no page works,
\* at whatever statement its registration stopped.
AccountIsWhole ==
    \A u \in users :
        \E w \in workspaces, m \in memberships : w.user = u /\ m = [user |-> u, slug |-> w.slug]

\* No page is served and no cookie handed out for a session that was revoked, expired or of a
\* suspended account when the request arrived, nor after a sign-in that began suspended.
AdmittedWhileValid ==
    \A c \in Clients : At(c, "admitted") =>
        request[c].token \notin request[c].dead /\ request[c].user \notin request[c].gone

\* A client that was told it is signed out has a session nobody can use: an answer of 204
\* and a cleared cookie mean that the revocation is in the database.
SignedOutIsRevoked == \A t \in signedOut : sessions[t].revoked

\* A browser only ever holds a session of an account whose password it knows.
CookieIsOwn == \A c \in Clients : cookie[c] # None => sessions[cookie[c]].user.by = c

\* A registration that waits for an address or a slug waits for a request in flight that
\* waits for nothing: nobody holds an address after its answer, and nobody waits in a circle.
WaitsEnd ==
    LET waits(c, d) ==
            /\ tx[d] # None /\ c # d
            /\ \/ At(c, "user") /\ tx[d].user.email = request[c].email
               \/ /\ At(c, "workspace")
                  /\ \E tick \in Ticks : tx[d].slug = workspaceSlug(request[c].email, tick)
    IN  \A c, d \in Clients :
            waits(c, d) => request[d] # Idle /\ \E e \in Clients : tx[e] # None /\ request[e] # Idle
                                                /\ \A b \in Clients : ~waits(e, b)

\* Accounts are unique and whole at every moment, whatever fails between the statements.
AccountsSound == TypeOK /\ OneAccountPerEmail /\ AccountIsWhole

\* A session admits its owner only, and only while it and the account are valid.
SessionsAdmitOwners == AdmittedWhileValid /\ CookieIsOwn

==============================================================================
