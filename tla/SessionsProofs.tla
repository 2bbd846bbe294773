----------------------------- MODULE SessionsProofs -----------------------------
(***************************************************************************)
(* What holds of customers' accounts and sessions for any number of        *)
(* browsers and addresses, and whichever statements fail.                  *)
(*                                                                         *)
(* The argument: users, suspensions, revocations and the clock only grow   *)
(* (Grow), so what a request has read stays true (Pending); and a          *)
(* transaction holds its address and its slug, against committed rows and  *)
(* other transactions, from its insert to its end (TxInv).                 *)
(***************************************************************************)
EXTENDS Sessions, TLAPS, FiniteSetTheorems

Session == [user : User, expires : SessionTTL .. MaxTime + SessionTTLRemember,
            revoked : BOOLEAN]

Ops == {"register", "login", "serve", "logout"}
InTx == {"workspace", "membership", "commit"}
Steps == InTx \cup {"user", "find", "session", "lookup", "membership of", "admitted", "revoke"}

Request == [op : Ops, step : Steps, email : Emails \cup {None}, user : User \cup {None},
            token : Nat \cup {None}, ttl : {SessionTTL, SessionTTLRemember},
            dead : SUBSET Nat, gone : SUBSET User]

(* What a request in flight relies on.                                     *)
Pending(c, r) ==
    /\ r.step \in InTx \cup {"user"} => r.email \in Emails
    /\ r.step = "session" => r.user \in users /\ r.user.by = c
    /\ r.step \in {"lookup", "membership of", "admitted"} =>
          r.token \in Tokens /\ sessions[r.token].user.by = c
    /\ r.step = "revoke" => r.token \in Tokens
    /\ r.step \in {"membership of", "admitted"} => r.token \notin r.dead /\ r.user \notin r.gone
    /\ \A t \in r.dead : t \in Tokens /\ Dead(t)
    /\ r.gone \subseteq suspended

InFlight(c) == request[c] = Idle \/ (request[c] \in Request /\ Pending(c, request[c]))

TypeInv ==
    /\ now \in 0 .. MaxTime
    /\ \E n \in Nat : sessions \in [1 .. n -> Session]
    /\ tx \in [Clients -> Tx \cup {None}]
    /\ cookie \in [Clients -> Tokens \cup {None}]
    /\ DOMAIN request = Clients

Accounts ==
    /\ users \subseteq User /\ suspended \subseteq users
    /\ \A w \in workspaces : w.user \in users
    /\ OneAccountPerEmail /\ AccountIsWhole

SessionsInv ==
    /\ \A t \in Tokens : sessions[t].user \in users
    /\ signedOut \subseteq Tokens /\ SignedOutIsRevoked
    /\ CookieIsOwn

Holding(c) == request[c] # Idle /\ request[c].step \in InTx

(* The open transaction of c holds an address and perhaps a slug.          *)
TxOk(c) ==
    /\ tx[c] # None <=> Holding(c)
    /\ tx[c] # None =>
          /\ tx[c].user = [email |-> request[c].email, by |-> c]
          /\ tx[c].slug = None <=> request[c].step = "workspace"
          /\ \A v \in users : v.email # tx[c].user.email
          /\ tx[c].slug # None => \A w \in workspaces : w.slug # tx[c].slug

TxApart(c, d) ==
    tx[c] # None /\ tx[d] # None =>
        /\ tx[c].user.email # tx[d].user.email
        /\ tx[c].slug # None => tx[c].slug # tx[d].slug

TxInv == \A c \in Clients : TxOk(c) /\ \A d \in Clients \ {c} : TxApart(c, d)

IInv == TypeInv /\ Accounts /\ SessionsInv /\ TxInv /\ \A c \in Clients : InFlight(c)

-----------------------------------------------------------------------------
LEMMA NoneIsNothing == None \notin Nat /\ None \notin Slug /\ None \notin Tx
  BY NoneAssumption

LEMMA SlugsAreSlugs ==
    \A c \in Clients : InFlight(c) /\ At(c, "workspace") =>
        \A tick \in Ticks : workspaceSlug(request[c].email, tick) \in Slug
  BY DEF InFlight, Pending, InTx, At, Idle, Slug

LEMMA Literals ==
    /\ "register" \in Ops /\ "login" \in Ops /\ "serve" \in Ops /\ "logout" \in Ops
    /\ "workspace" \in Steps /\ "membership" \in Steps /\ "commit" \in Steps
    /\ "user" \in Steps /\ "find" \in Steps /\ "session" \in Steps /\ "lookup" \in Steps
    /\ "membership of" \in Steps /\ "admitted" \in Steps /\ "revoke" \in Steps
  BY DEF Ops, Steps, InTx

LEMMA InitInv == Init => IInv
<1> SUFFICES ASSUME Init PROVE IInv
  OBVIOUS
<1>1. TypeInv
  <2>1. sessions \in [1 .. 0 -> Session]
    BY DEF Init
  <2> QED BY <2>1, TTLAssumption DEF Init, TypeInv
<1>2. Accounts
  BY DEF Init, Accounts, OneAccountPerEmail, AccountIsWhole
<1>3. SessionsInv
  BY DEF Init, SessionsInv, Tokens, SignedOutIsRevoked, CookieIsOwn
<1>4. TxInv
  BY DEF Init, TxInv, TxOk, TxApart, Holding
<1>5. \A c \in Clients : InFlight(c)
  BY DEF Init, InFlight
<1> QED BY <1>1, <1>2, <1>3, <1>4, <1>5 DEF IInv

-----------------------------------------------------------------------------
(* Nothing that a request has read is ever taken back.                     *)

Grow ==
    /\ users \subseteq users' /\ suspended \subseteq suspended'
    /\ now' \in Nat /\ now <= now'
    /\ Tokens \subseteq Tokens'
    /\ \A t \in Tokens :
          /\ sessions'[t].user = sessions[t].user /\ sessions'[t].expires = sessions[t].expires
          /\ sessions[t].revoked => sessions'[t].revoked

LEMMA SessionTyped ==
    ASSUME IInv, NEW t \in Tokens
    PROVE  sessions[t] \in Session /\ sessions[t].user \in User /\ sessions[t].expires \in Nat
<1>1. sessions[t] \in Session
  BY DEF IInv, TypeInv, Tokens
<1>2. SessionTTL .. MaxTime + SessionTTLRemember \subseteq Nat
  BY TTLAssumption
<1> QED BY <1>1, <1>2 DEF Session

LEMMA DeadStays ==
    ASSUME IInv, Grow, NEW t \in Tokens, Dead(t)
    PROVE  t \in Tokens' /\ Dead(t)'
<1>0. sessions[t].expires \in Nat
  BY SessionTyped
<1>5. now \in Nat
  BY DEF IInv, TypeInv
<1>1. sessions[t].expires \in Nat /\ now \in Nat /\ now' \in Nat /\ now <= now'
  BY <1>0, <1>5 DEF Grow
<1>2. CASE now >= sessions[t].expires
  <2>1. now' >= sessions'[t].expires
    BY <1>1, <1>2 DEF Grow
  <2> QED BY <2>1 DEF Grow, Dead
<1>3. CASE sessions[t].revoked
  BY <1>3 DEF Grow, Dead
<1>4. CASE sessions[t].user \in suspended
  BY <1>4 DEF Grow, Dead
<1> QED BY <1>2, <1>3, <1>4 DEF Dead

LEMMA PendingStays ==
    ASSUME IInv, Grow, NEW c \in Clients, NEW r, Pending(c, r)
    PROVE  Pending(c, r)'
<1>1. \A t \in r.dead : t \in Tokens' /\ Dead(t)'
  BY DeadStays DEF Pending
<1>2. \A t \in Tokens : t \in Tokens' /\ sessions'[t].user = sessions[t].user
  BY DEF Grow
<1>3. users \subseteq users' /\ suspended \subseteq suspended'
  BY DEF Grow
<1> QED BY <1>1, <1>2, <1>3 DEF Pending

LEMMA OthersStay ==
    ASSUME IInv, Grow, NEW c \in Clients, NEW r, request' = [request EXCEPT ![c] = r],
           r = Idle \/ (r \in Request /\ Pending(c, r)')
    PROVE  \A d \in Clients : InFlight(d)'
<1> TAKE d \in Clients
<1>1. CASE d = c
  BY <1>1 DEF InFlight, IInv, TypeInv
<1>2. CASE d # c
  <2>1. PICK q : q = request[d]
    OBVIOUS
  <2>2. request'[d] = q
    BY <1>2, <2>1 DEF IInv, TypeInv
  <2>3. q = Idle \/ (q \in Request /\ Pending(d, q))
    BY <2>1 DEF IInv, InFlight
  <2>4. q = Idle \/ (q \in Request /\ Pending(d, q)')
    BY <2>3, PendingStays
  <2> QED BY <2>2, <2>4 DEF InFlight
<1> QED BY <1>1, <1>2

LEMMA AllStay ==
    ASSUME IInv, Grow, UNCHANGED request
    PROVE  \A d \in Clients : InFlight(d)'
<1> TAKE d \in Clients
<1>1. PICK q : q = request[d]
  OBVIOUS
<1>2. q = Idle \/ (q \in Request /\ Pending(d, q))
  BY <1>1 DEF IInv, InFlight
<1>3. q = Idle \/ (q \in Request /\ Pending(d, q)')
  BY <1>2, PendingStays
<1> QED BY <1>1, <1>3 DEF InFlight

(* A request outside its transaction moves on.                             *)
LEMMA TxStays ==
    ASSUME IInv, UNCHANGED <<users, workspaces, tx>>, NEW c \in Clients, NEW r,
           request' = [request EXCEPT ![c] = r], ~Holding(c),
           r = Idle \/ r.step \notin InTx
    PROVE  TxInv'
<1>1. \A d \in Clients \ {c} : request'[d] = request[d]
  BY DEF IInv, TypeInv
<1>2. ~Holding(c)'
  BY DEF Holding, IInv, TypeInv
<1>3. ASSUME NEW d \in Clients PROVE TxOk(d)'
  <2>1. CASE d = c
    BY <1>2, <2>1 DEF IInv, TxInv, TxOk
  <2>2. CASE d # c
    BY <1>1, <2>2 DEF IInv, TxInv, TxOk, Holding
  <2> QED BY <2>1, <2>2
<1> QED BY <1>3 DEF IInv, TxInv, TxApart

LEMMA Moves ==
    ASSUME IInv, UNCHANGED <<now, tables, sessions, tx, cookie, signedOut>>, NEW c \in Clients,
           NEW r, request' = [request EXCEPT ![c] = r], ~Holding(c),
           r = Idle \/ (r \in Request /\ Pending(c, r) /\ r.step \notin InTx)
    PROVE  IInv'
<1>0. UNCHANGED <<now, users, workspaces, memberships, suspended, sessions, tx, cookie, signedOut>>
  BY DEF tables
<1>1. TypeInv' /\ Accounts' /\ SessionsInv'
  <2>1. DOMAIN request' = Clients
    BY DEF IInv, TypeInv
  <2>2. TypeInv'
    BY <1>0, <2>1 DEF IInv, TypeInv, Tokens
  <2>3. Accounts'
    BY <1>0 DEF IInv, Accounts, OneAccountPerEmail, AccountIsWhole
  <2>4. SessionsInv'
    BY <1>0 DEF IInv, SessionsInv, SignedOutIsRevoked, CookieIsOwn, Tokens
  <2> QED BY <2>2, <2>3, <2>4
<1>2. TxInv'
  BY <1>0, TxStays
<1>3. Grow
  BY <1>0, TTLAssumption DEF Grow, Tokens, IInv, TypeInv
<1>4. r = Idle \/ (r \in Request /\ Pending(c, r)')
  BY <1>3, PendingStays
<1>5. \A d \in Clients : InFlight(d)'
  BY <1>3, <1>4, OthersStay
<1> QED BY <1>1, <1>2, <1>5 DEF IInv

LEMMA AtStep ==
    ASSUME IInv, NEW c \in Clients, NEW step, At(c, step)
    PROVE  /\ request[c] \in Request /\ Pending(c, request[c]) /\ request[c].step = step
           /\ request[c] # Idle
  BY DEF IInv, InFlight, At, Idle

LEMMA MoveIsNested ==
    ASSUME IInv, NEW c \in Clients, NEW step, Move(c, step)
    PROVE  request' = [request EXCEPT ![c] = [request[c] EXCEPT !.step = step]]
  BY DEF Move, IInv, TypeInv

LEMMA StepTyped ==
    ASSUME NEW q \in Request, NEW step \in Steps, NEW r, r = [q EXCEPT !.step = step]
    PROVE  /\ r \in Request /\ r.step = step /\ r.op = q.op /\ r.email = q.email
           /\ r.user = q.user /\ r.token = q.token /\ r.dead = q.dead /\ r.gone = q.gone
  BY DEF Request

LEMMA UserTyped ==
    ASSUME NEW q \in Request, NEW user \in User, NEW r, r = [q EXCEPT !.user = user]
    PROVE  /\ r \in Request /\ r.step = q.step /\ r.op = q.op /\ r.email = q.email
           /\ r.user = user /\ r.token = q.token /\ r.dead = q.dead /\ r.gone = q.gone
  BY DEF Request

LEMMA TokenTyped ==
    ASSUME NEW q \in Request, NEW token \in Nat, NEW r, r = [q EXCEPT !.token = token]
    PROVE  /\ r \in Request /\ r.step = q.step /\ r.op = q.op /\ r.email = q.email
           /\ r.user = q.user /\ r.token = token /\ r.dead = q.dead /\ r.gone = q.gone
  BY DEF Request

-----------------------------------------------------------------------------
(* A request arrives.                                                      *)

LEMMA NewTyped ==
    ASSUME IInv, NEW op \in Ops, NEW step \in Steps
    PROVE  /\ New(op, step) \in Request /\ New(op, step).op = op /\ New(op, step).step = step
           /\ \A t \in New(op, step).dead : t \in Tokens /\ Dead(t)
           /\ New(op, step).gone \subseteq suspended
<1> DEFINE dead == {t \in Tokens : Dead(t)}
<1>1. Tokens \subseteq Nat
  BY DEF IInv, TypeInv, Tokens
<1>2. dead \in SUBSET Nat /\ \A t \in dead : t \in Tokens /\ Dead(t)
  BY <1>1
<1>3. suspended \in SUBSET User
  BY DEF IInv, Accounts
<1>4. New(op, step) =
         [op |-> op, step |-> step, email |-> None, user |-> None, token |-> None,
          ttl |-> SessionTTL, dead |-> dead, gone |-> suspended]
  BY DEF New
<1> HIDE DEF dead
<1> QED BY <1>2, <1>3, <1>4 DEF Request

LEMMA Arrives ==
    ASSUME IInv, NEW c \in Clients, NEW new, Begin(c, new),
           new \in Request, Pending(c, new), new.step \notin InTx
    PROVE  IInv'
<1>1. /\ UNCHANGED <<now, tables, sessions, tx, cookie, signedOut>> /\ ~Holding(c)
      /\ request' = [request EXCEPT ![c] = new]
  BY DEF Begin, Holding
<1> QED BY <1>1, Moves

LEMMA BeginInv ==
    ASSUME IInv, NEW c \in Clients,
           \/ \E e \in Emails : Register(c, e)
           \/ \E e \in Emails, remember \in BOOLEAN : Login(c, e, remember)
           \/ RequireSession(c) \/ Logout(c)
    PROVE  IInv'
<1>1. ASSUME NEW e \in Emails, Register(c, e) PROVE IInv'
  <2> DEFINE n == New("register", "user")
             r == [n EXCEPT !.email = e]
  <2>1. /\ n \in Request /\ n.step = "user"
        /\ \A t \in n.dead : t \in Tokens /\ Dead(t)
        /\ n.gone \subseteq suspended
    BY NewTyped, Literals
  <2>2. Begin(c, r)
    BY <1>1 DEF Register
  <2> HIDE DEF n
  <2>3. /\ r \in Request /\ r.step = "user" /\ r.email = e /\ r.dead = n.dead /\ r.gone = n.gone
    BY <2>1 DEF Request
  <2> HIDE DEF r
  <2>4. Pending(c, r) /\ r.step \notin InTx
    BY <2>1, <2>3 DEF Pending, InTx
  <2> QED BY <2>2, <2>3, <2>4, Arrives
<1>2. ASSUME NEW e \in Emails, NEW remember \in BOOLEAN, Login(c, e, remember) PROVE IInv'
  <2> DEFINE n == New("login", "find")
             ttl == IF remember THEN SessionTTLRemember ELSE SessionTTL
             r == [n EXCEPT !.email = e, !.ttl = ttl]
  <2>1. /\ n \in Request /\ n.step = "find"
        /\ \A t \in n.dead : t \in Tokens /\ Dead(t)
        /\ n.gone \subseteq suspended
    BY NewTyped, Literals
  <2>2. Begin(c, r)
    BY <1>2 DEF Login
  <2>3. ttl \in {SessionTTL, SessionTTLRemember}
    OBVIOUS
  <2> HIDE DEF n, ttl
  <2>4. /\ r \in Request /\ r.step = "find" /\ r.dead = n.dead /\ r.gone = n.gone
    BY <2>1, <2>3 DEF Request
  <2> HIDE DEF r
  <2>5. Pending(c, r) /\ r.step \notin InTx
    BY <2>1, <2>4 DEF Pending, InTx
  <2> QED BY <2>2, <2>4, <2>5, Arrives
<1>3. ASSUME NEW op \in Ops, NEW step \in Steps, step \in {"lookup", "revoke"}, cookie[c] # None,
             Begin(c, [New(op, step) EXCEPT !.token = cookie[c]])
      PROVE  IInv'
  <2> DEFINE n == New(op, step)
             r == [n EXCEPT !.token = cookie[c]]
  <2>1. /\ n \in Request /\ n.step = step
        /\ \A t \in n.dead : t \in Tokens /\ Dead(t)
        /\ n.gone \subseteq suspended
    BY NewTyped
  <2>2. Begin(c, r)
    BY <1>3
  <2>3. cookie[c] \in Tokens /\ cookie[c] \in Nat /\ sessions[cookie[c]].user.by = c
    BY <1>3 DEF IInv, TypeInv, Tokens, SessionsInv, CookieIsOwn
  <2> HIDE DEF n
  <2>4. /\ r \in Request /\ r.step = step /\ r.token = cookie[c] /\ r.dead = n.dead
        /\ r.gone = n.gone
    BY <2>1, <2>3 DEF Request
  <2> HIDE DEF r
  <2>5. Pending(c, r) /\ r.step \notin InTx
    BY <1>3, <2>1, <2>3, <2>4 DEF Pending, InTx
  <2> QED BY <2>2, <2>4, <2>5, Arrives
<1>4. RequireSession(c) => IInv'
  BY <1>3, Literals DEF RequireSession
<1>5. Logout(c) => IInv'
  BY <1>3, Literals DEF Logout
<1> QED BY <1>1, <1>2, <1>4, <1>5

-----------------------------------------------------------------------------
(* The statements of a registration's transaction.                         *)

(* c's transaction ends, its rows committed or not.                        *)
LEMMA TxEnds ==
    ASSUME IInv, NEW c \in Clients, NEW r, request' = [request EXCEPT ![c] = r],
           r = Idle \/ r.step \notin InTx, tx' = [tx EXCEPT ![c] = None],
           \/ UNCHANGED <<users, workspaces>>
           \/ /\ tx[c] # None /\ tx[c].slug # None
              /\ users' = users \cup {tx[c].user}
              /\ \A w \in workspaces' \ workspaces : w.slug = tx[c].slug
    PROVE  TxInv'
<1>1. /\ tx'[c] = None /\ ~Holding(c)'
      /\ \A d \in Clients \ {c} : tx'[d] = tx[d] /\ request'[d] = request[d]
  BY DEF Holding, IInv, TypeInv
<1>2. ASSUME NEW d \in Clients \ {c} PROVE TxOk(d)'
  <2>1. TxOk(d) /\ TxApart(c, d)
    BY DEF IInv, TxInv
  <2>2. CASE UNCHANGED <<users, workspaces>>
    BY <1>1, <2>1, <2>2 DEF TxOk, Holding
  <2>3. CASE /\ tx[c] # None /\ tx[c].slug # None
             /\ users' = users \cup {tx[c].user}
             /\ \A w \in workspaces' \ workspaces : w.slug = tx[c].slug
    BY <1>1, <2>1, <2>3 DEF TxOk, TxApart, Holding
  <2> QED BY <2>2, <2>3
<1>3. TxOk(c)'
  BY <1>1 DEF TxOk
<1>4. \A d, e \in Clients : d # e => TxApart(d, e)'
  BY <1>1 DEF IInv, TxInv, TxApart
<1> QED BY <1>2, <1>3, <1>4 DEF TxInv

(* c's transaction writes one more row, the address or slug of which       *)
(* nobody else has.                                                        *)
Writes(c, r, new) ==
    /\ request' = [request EXCEPT ![c] = r] /\ r # Idle /\ r.step \in InTx
    /\ tx' = [tx EXCEPT ![c] = new] /\ new \in Tx
    /\ UNCHANGED <<users, workspaces>>
    /\ new.user = [email |-> r.email, by |-> c]
    /\ new.slug = None <=> r.step = "workspace"
    /\ \A v \in users : v.email # new.user.email
    /\ \A d \in Clients \ {c} : tx[d] # None => tx[d].user.email # new.user.email
    /\ new.slug # None =>
          /\ \A w \in workspaces : w.slug # new.slug
          /\ \A d \in Clients \ {c} : tx[d] # None => tx[d].slug # new.slug

LEMMA TxWrites ==
    ASSUME IInv, NEW c \in Clients, NEW r, NEW new, Writes(c, r, new)
    PROVE  TxInv'
<1>1. /\ tx'[c] = new /\ request'[c] = r
      /\ \A d \in Clients \ {c} : tx'[d] = tx[d] /\ request'[d] = request[d]
  BY DEF Writes, IInv, TypeInv
<1>2. new # None
  BY NoneIsNothing DEF Writes
<1>3. TxOk(c)'
  BY <1>1, <1>2 DEF Writes, TxOk, Holding
<1>4. \A d \in Clients \ {c} : TxOk(d)'
  BY <1>1 DEF Writes, IInv, TxInv, TxOk, Holding
<1>5. \A d, e \in Clients : d # e => TxApart(d, e)'
  <2> SUFFICES ASSUME NEW d \in Clients, NEW e \in Clients, d # e PROVE TxApart(d, e)'
    OBVIOUS
  <2>1. CASE d # c /\ e # c
    BY <1>1, <2>1 DEF IInv, TxInv, TxApart
  <2>2. CASE d = c \/ e = c
    BY <1>1, <2>2 DEF Writes, TxApart
  <2> QED BY <2>1, <2>2
<1> QED BY <1>3, <1>4, <1>5 DEF TxInv

(* Steps that change no table but the transaction's own.                   *)
LEMMA TxMoves ==
    ASSUME IInv, UNCHANGED <<now, tables, sessions, cookie, signedOut>>, NEW c \in Clients,
           NEW r, request' = [request EXCEPT ![c] = r],
           r = Idle \/ (r \in Request /\ Pending(c, r)),
           tx' \in [Clients -> Tx \cup {None}], TxInv'
    PROVE  IInv'
<1>0. UNCHANGED <<now, users, workspaces, memberships, suspended, sessions, cookie, signedOut>>
  BY DEF tables
<1>1. TypeInv'
  BY <1>0 DEF IInv, TypeInv, Tokens
<1>2. Accounts'
  BY <1>0 DEF IInv, Accounts, OneAccountPerEmail, AccountIsWhole
<1>3. SessionsInv'
  BY <1>0 DEF IInv, SessionsInv, SignedOutIsRevoked, CookieIsOwn, Tokens
<1>4. Grow
  BY <1>0, TTLAssumption DEF Grow, Tokens, IInv, TypeInv
<1>5. \A d \in Clients : InFlight(d)'
  BY <1>4, PendingStays, OthersStay
<1> QED BY <1>1, <1>2, <1>3, <1>5 DEF IInv

LEMMA FailInv ==
    ASSUME IInv, NEW c \in Clients, Fail(c)
    PROVE  IInv'
<1>1. /\ UNCHANGED <<now, tables, sessions, cookie, signedOut>>
      /\ request' = [request EXCEPT ![c] = Idle] /\ tx' = [tx EXCEPT ![c] = None]
  BY DEF Fail, Answer, Keep
<1>2. tx' \in [Clients -> Tx \cup {None}]
  BY <1>1 DEF IInv, TypeInv
<1>3. UNCHANGED <<users, workspaces>>
  BY <1>1 DEF tables
<1>4. TxInv'
  BY <1>1, <1>3, TxEnds
<1> QED BY <1>1, <1>2, <1>4, TxMoves

LEMMA CreateUserInv ==
    ASSUME IInv, NEW c \in Clients, CreateUser(c)
    PROVE  IInv'
<1> DEFINE q == request[c]
           u == [email |-> q.email, by |-> c]
           new == [user |-> u, slug |-> None, member |-> FALSE]
<1>1. q \in Request /\ Pending(c, q) /\ q.step = "user" /\ q # Idle
  BY AtStep DEF CreateUser
<1>2. UNCHANGED <<now, tables, sessions, cookie, signedOut>>
  BY DEF CreateUser, Keep
<1>3. ~Holding(c) /\ q.email \in Emails
  BY <1>1 DEF Holding, Pending, InTx
<1>4. CASE \E v \in users : v.email = q.email
  <2>1. request' = [request EXCEPT ![c] = Idle] /\ UNCHANGED tx
    BY <1>4 DEF CreateUser, Answer
  <2> QED BY <1>2, <1>3, <2>1, Moves
<1>5. CASE ~ \E v \in users : v.email = q.email
  <2>0. PICK step \in Steps : step = "workspace"
    BY Literals
  <2>1. Move(c, "workspace") /\ tx' = [tx EXCEPT ![c] = new]
    BY <1>5 DEF CreateUser
  <2>2. PICK r : r = [q EXCEPT !.step = step] /\ request' = [request EXCEPT ![c] = r]
    BY <2>0, <2>1, MoveIsNested
  <2>3. u \in User /\ u.email = q.email
    BY <1>3 DEF User
  <2>4. new \in Tx /\ new.user = u /\ new.slug = None
    BY <2>3 DEF Tx
  <2>5. \A d \in Clients \ {c} : tx[d] # None => tx[d].user.email # q.email
    BY DEF CreateUser, EmailBlocked
  <2>6. u = [email |-> q.email, by |-> c]
    OBVIOUS
  <2> HIDE DEF q, new, u
  <2>7. /\ r \in Request /\ r.step = step /\ r.email = q.email
        /\ r.dead = q.dead /\ r.gone = q.gone
    BY <1>1, <2>2, StepTyped
  <2>8. Pending(c, r) /\ r # Idle
    <3>1. Pending(c, r)
      BY <1>1, <1>3, <2>0, <2>7 DEF Pending, InTx
    <3>2. r.step # "idle" => r # Idle
      BY <2>7, <2>0 DEF Request, Idle
    <3> QED BY <2>0, <2>7, <3>1, <3>2
  <2>9. TxInv'
    <3>1. UNCHANGED <<users, workspaces>>
      BY <1>2 DEF tables
    <3>2. r.step \in InTx /\ (new.slug = None <=> r.step = "workspace")
      BY <2>0, <2>4, <2>7 DEF InTx
    <3>3. new.user = [email |-> r.email, by |-> c]
      BY <2>4, <2>6, <2>7
    <3>4. \A v \in users : v.email # new.user.email
      BY <1>5, <2>3, <2>4
    <3>5. \A d \in Clients \ {c} : tx[d] # None => tx[d].user.email # new.user.email
      BY <2>3, <2>4, <2>5
    <3>6. new.slug = None
      BY <2>4
    <3>7. request' = [request EXCEPT ![c] = r] /\ r # Idle
      BY <2>2, <2>8
    <3>8. Writes(c, r, new)
      BY <2>1, <2>4, <3>1, <3>2, <3>3, <3>4, <3>5, <3>6, <3>7 DEF Writes
    <3> QED BY <3>8, TxWrites
  <2>10. tx' \in [Clients -> Tx \cup {None}]
    BY <2>1, <2>4 DEF IInv, TypeInv
  <2> QED BY <1>2, <2>2, <2>7, <2>8, <2>9, <2>10, TxMoves
<1> QED BY <1>4, <1>5

LEMMA HoldingFacts ==
    ASSUME IInv, NEW c \in Clients, request[c] # Idle, request[c].step \in InTx
    PROVE  /\ tx[c] # None /\ tx[c] \in Tx /\ tx[c].user \in User /\ Holding(c)
           /\ tx[c].user = [email |-> request[c].email, by |-> c]
           /\ tx[c].slug = None <=> request[c].step = "workspace"
           /\ \A v \in users : v.email # tx[c].user.email
           /\ tx[c].slug # None => \A w \in workspaces : w.slug # tx[c].slug
           /\ \A d \in Clients \ {c} : tx[d] # None =>
                 /\ tx[d].user.email # tx[c].user.email
                 /\ tx[c].slug # None => tx[d].slug # tx[c].slug
<1>1. Holding(c)
  BY DEF Holding
<1>2. TxOk(c) /\ \A d \in Clients \ {c} : TxApart(c, d)
  BY DEF IInv, TxInv
<1>3. tx[c] # None /\ tx[c] \in Tx
  BY <1>1, <1>2 DEF TxOk, IInv, TypeInv
<1>4. tx[c].user \in User
  BY <1>3 DEF Tx
<1> QED BY <1>1, <1>2, <1>3, <1>4 DEF TxOk, TxApart

LEMMA CreateWorkspaceInv ==
    ASSUME IInv, NEW c \in Clients, NEW tick \in Ticks, CreateWorkspace(c, tick)
    PROVE  IInv'
<1> DEFINE q == request[c]
           slug == workspaceSlug(q.email, tick)
<1>1. q \in Request /\ Pending(c, q) /\ q.step = "workspace" /\ q # Idle /\ q.step \in InTx
  BY AtStep DEF CreateWorkspace, InTx
<1>2. UNCHANGED <<now, tables, sessions, cookie, signedOut>>
  BY DEF CreateWorkspace, Keep
<1>2a. UNCHANGED <<users, workspaces>>
  BY <1>2 DEF tables
<1>3. q.email \in Emails
  BY <1>1 DEF Pending, InTx
<1>4. CASE \E w \in workspaces : w.slug = slug
  <2>1. request' = [request EXCEPT ![c] = Idle] /\ tx' = [tx EXCEPT ![c] = None]
    BY <1>4 DEF CreateWorkspace, Answer
  <2>2. tx' \in [Clients -> Tx \cup {None}]
    BY <2>1 DEF IInv, TypeInv
  <2>3. TxInv'
    BY <1>2a, <2>1, TxEnds
  <2> QED BY <1>2, <2>1, <2>2, <2>3, TxMoves
<1>5. CASE ~ \E w \in workspaces : w.slug = slug
  <2>0. PICK step \in Steps : step = "membership"
    BY Literals
  <2>1. Move(c, "membership") /\ tx' = [tx EXCEPT ![c].slug = slug]
    BY <1>5 DEF CreateWorkspace
  <2>2. PICK r : r = [q EXCEPT !.step = step] /\ request' = [request EXCEPT ![c] = r]
    BY <2>0, <2>1, MoveIsNested
  <2>3. slug \in Slug /\ slug # None
    <3>1. slug \in Slug
      BY <1>3 DEF Slug
    <3> QED BY <3>1, NoneIsNothing
  <2>4. \A d \in Clients \ {c} : tx[d] # None => tx[d].slug # slug
    BY DEF CreateWorkspace, SlugBlocked
  <2>5. PICK new : new = [tx[c] EXCEPT !.slug = slug] /\ tx' = [tx EXCEPT ![c] = new]
    BY <2>1 DEF IInv, TypeInv
  <2>6. /\ tx[c] \in Tx /\ tx[c].user = [email |-> q.email, by |-> c]
        /\ \A v \in users : v.email # tx[c].user.email
        /\ \A d \in Clients \ {c} : tx[d] # None => tx[d].user.email # tx[c].user.email
    BY <1>1, HoldingFacts
  <2> HIDE DEF slug
  <2>7. new \in Tx /\ new.user = tx[c].user /\ new.slug = slug
    BY <2>3, <2>5, <2>6 DEF Tx
  <2>8. \A w \in workspaces : w.slug # slug
    BY <1>5
  <2> HIDE DEF q
  <2>9. /\ r \in Request /\ r.step = step /\ r.email = q.email
        /\ r.dead = q.dead /\ r.gone = q.gone
    BY <1>1, <2>2, StepTyped
  <2>10. Pending(c, r) /\ r # Idle /\ r.step \in InTx
    <3>1. Pending(c, r) /\ r.step \in InTx
      BY <1>1, <1>3, <2>0, <2>9 DEF Pending, InTx
    <3>2. r.step # "idle" => r # Idle
      BY <2>9, <2>0 DEF Request, Idle
    <3> QED BY <2>0, <2>9, <3>1, <3>2
  <2>11. TxInv'
    <3>1. request' = [request EXCEPT ![c] = r] /\ r # Idle /\ r.step \in InTx
      BY <2>2, <2>10
    <3>2. new.slug = None <=> r.step = "workspace"
      BY <2>0, <2>3, <2>7, <2>9
    <3>3. new.user = [email |-> r.email, by |-> c]
      BY <2>6, <2>7, <2>9
    <3>4. \A v \in users : v.email # new.user.email
      BY <2>6, <2>7
    <3>5. \A d \in Clients \ {c} : tx[d] # None => tx[d].user.email # new.user.email
      BY <2>6, <2>7
    <3>6. /\ \A w \in workspaces : w.slug # new.slug
          /\ \A d \in Clients \ {c} : tx[d] # None => tx[d].slug # new.slug
      BY <2>4, <2>7, <2>8
    <3>7. new \in Tx /\ tx' = [tx EXCEPT ![c] = new]
      BY <2>5, <2>7
    <3>8. Writes(c, r, new)
      BY <1>2a, <3>1, <3>2, <3>3, <3>4, <3>5, <3>6, <3>7 DEF Writes
    <3> QED BY <3>8, TxWrites
  <2>12. tx' \in [Clients -> Tx \cup {None}]
    BY <2>5, <2>7 DEF IInv, TypeInv
  <2> QED BY <1>2, <2>2, <2>9, <2>10, <2>11, <2>12, TxMoves
<1> QED BY <1>4, <1>5

LEMMA CreateMembershipInv ==
    ASSUME IInv, NEW c \in Clients, CreateMembership(c)
    PROVE  IInv'
<1> DEFINE q == request[c]
<1>1. q \in Request /\ Pending(c, q) /\ q.step = "membership" /\ q # Idle /\ q.step \in InTx
  BY AtStep DEF CreateMembership, InTx
<1>2. UNCHANGED <<now, tables, sessions, cookie, signedOut>>
  BY DEF CreateMembership, Keep
<1>2a. UNCHANGED <<users, workspaces>>
  BY <1>2 DEF tables
<1>3. PICK step \in Steps : step = "commit"
  BY Literals
<1>4. PICK r : r = [q EXCEPT !.step = step] /\ request' = [request EXCEPT ![c] = r]
  BY <1>3, MoveIsNested DEF CreateMembership
<1>5. PICK new : new = [tx[c] EXCEPT !.member = TRUE] /\ tx' = [tx EXCEPT ![c] = new]
  BY DEF CreateMembership, IInv, TypeInv
<1>6. /\ tx[c] \in Tx /\ tx[c].user = [email |-> q.email, by |-> c] /\ tx[c].slug # None
      /\ \A v \in users : v.email # tx[c].user.email
      /\ \A w \in workspaces : w.slug # tx[c].slug
      /\ \A d \in Clients \ {c} : tx[d] # None =>
            tx[d].user.email # tx[c].user.email /\ tx[d].slug # tx[c].slug
  BY <1>1, HoldingFacts
<1>7. new \in Tx /\ new.user = tx[c].user /\ new.slug = tx[c].slug
  BY <1>5, <1>6 DEF Tx
<1> HIDE DEF q
<1>8. /\ r \in Request /\ r.step = step /\ r.email = q.email
      /\ r.dead = q.dead /\ r.gone = q.gone
  BY <1>1, <1>4, StepTyped
<1>9. Pending(c, r) /\ r # Idle /\ r.step \in InTx
  <2>1. Pending(c, r) /\ r.step \in InTx
    BY <1>1, <1>3, <1>8 DEF Pending, InTx
  <2>2. r.step # "idle" => r # Idle
    BY <1>3, <1>8 DEF Request, Idle
  <2> QED BY <1>3, <1>8, <2>1, <2>2
<1>10. TxInv'
  <2>1. request' = [request EXCEPT ![c] = r] /\ r # Idle /\ r.step \in InTx
    BY <1>4, <1>9
  <2>2. new.slug = None <=> r.step = "workspace"
    BY <1>3, <1>6, <1>7, <1>8
  <2>3. new.user = [email |-> r.email, by |-> c]
    BY <1>6, <1>7, <1>8
  <2>4. \A v \in users : v.email # new.user.email
    BY <1>6, <1>7
  <2>5. \A d \in Clients \ {c} : tx[d] # None => tx[d].user.email # new.user.email
    BY <1>6, <1>7
  <2>6. /\ \A w \in workspaces : w.slug # new.slug
        /\ \A d \in Clients \ {c} : tx[d] # None => tx[d].slug # new.slug
    BY <1>6, <1>7
  <2>7. new \in Tx /\ tx' = [tx EXCEPT ![c] = new]
    BY <1>5, <1>7
  <2>8. Writes(c, r, new)
    BY <1>2a, <2>1, <2>2, <2>3, <2>4, <2>5, <2>6, <2>7 DEF Writes
  <2> QED BY <2>8, TxWrites
<1>11. tx' \in [Clients -> Tx \cup {None}]
  BY <1>5, <1>7 DEF IInv, TypeInv
<1> QED BY <1>2, <1>4, <1>8, <1>9, <1>10, <1>11, TxMoves

LEMMA CommitInv ==
    ASSUME IInv, NEW c \in Clients, NEW answered \in BOOLEAN, Commit(c, answered)
    PROVE  IInv'
<1> DEFINE q == request[c]
           t == tx[c]
<1>1. q \in Request /\ Pending(c, q) /\ q.step = "commit" /\ q # Idle /\ q.step \in InTx
  BY AtStep DEF Commit, InTx
<1>2. /\ UNCHANGED <<now, suspended, sessions, cookie, signedOut>>
      /\ users' = users \cup {t.user}
      /\ workspaces' = workspaces \cup {[slug |-> t.slug, user |-> t.user]}
      /\ memberships' = memberships \cup {[user |-> t.user, slug |-> t.slug]}
      /\ tx' = [tx EXCEPT ![c] = None]
  BY DEF Commit, Keep
<1>3. /\ t # None /\ t.user \in User /\ t.user = [email |-> q.email, by |-> c] /\ t.slug # None
      /\ \A v \in users : v.email # t.user.email
      /\ \A w \in workspaces : w.slug # t.slug
  BY <1>1, HoldingFacts
<1>4. PICK r : /\ request' = [request EXCEPT ![c] = r]
               /\ \/ r = Idle
                  \/ r = [q EXCEPT !.step = "session", !.user = t.user]
  BY DEF Commit
<1> HIDE DEF t
<1>5. r = Idle \/ /\ r \in Request /\ r.step = "session" /\ r.user = t.user
                  /\ r.dead = q.dead /\ r.gone = q.gone
  <2>1. CASE r = [q EXCEPT !.step = "session", !.user = t.user]
    <3>0. PICK step \in Steps : step = "session"
      BY Literals
    <3>1. PICK p : p = [q EXCEPT !.step = step]
      OBVIOUS
    <3> HIDE DEF q
    <3>2. p \in Request /\ p.step = step /\ p.dead = q.dead /\ p.gone = q.gone
      BY <1>1, <3>1, StepTyped
    <3>3. r = [p EXCEPT !.user = t.user]
      BY <1>1, <2>1, <3>0, <3>1 DEF Request
    <3>4. PICK user \in User : user = t.user
      BY <1>3
    <3>5. r \in Request /\ r.step = p.step /\ r.user = user /\ r.dead = p.dead /\ r.gone = p.gone
      BY <3>2, <3>3, <3>4, UserTyped
    <3> QED BY <3>0, <3>2, <3>4, <3>5
  <2> QED BY <1>4, <2>1
<1>6. Accounts'
  <2>1. users' \subseteq User /\ suspended' \subseteq users' /\ \A w \in workspaces' : w.user \in users'
    BY <1>2, <1>3 DEF IInv, Accounts
  <2>2. OneAccountPerEmail'
    BY <1>2, <1>3 DEF IInv, Accounts, OneAccountPerEmail
  <2>3. AccountIsWhole'
    <3> SUFFICES ASSUME NEW u \in users'
                 PROVE  \E w \in workspaces', m \in memberships' :
                           w.user = u /\ m = [user |-> u, slug |-> w.slug]
      BY DEF AccountIsWhole
    <3>1. CASE u \in users
      BY <1>2, <3>1 DEF IInv, Accounts, AccountIsWhole
    <3>2. CASE u = t.user
      <4> DEFINE w == [slug |-> t.slug, user |-> t.user]
                 m == [user |-> t.user, slug |-> t.slug]
      <4>1. w \in workspaces' /\ m \in memberships'
        BY <1>2
      <4>2. w.user = u /\ m = [user |-> u, slug |-> w.slug]
        BY <3>2
      <4> QED BY <4>1, <4>2
    <3> QED BY <1>2, <3>1, <3>2
  <2> QED BY <2>1, <2>2, <2>3 DEF Accounts
<1>7. SessionsInv'
  BY <1>2 DEF IInv, SessionsInv, Tokens, SignedOutIsRevoked, CookieIsOwn
<1>8. TypeInv'
  BY <1>2, <1>4 DEF IInv, TypeInv, Tokens
<1>9. TxInv'
  <2>1. r = Idle \/ r.step \notin InTx
    BY <1>5 DEF InTx
  <2>2. /\ tx[c] # None /\ tx[c].slug # None /\ users' = users \cup {tx[c].user}
        /\ \A w \in workspaces' \ workspaces : w.slug = tx[c].slug
    BY <1>2, <1>3 DEF t
  <2> QED BY <1>2, <1>4, <2>1, <2>2, TxEnds
<1>10. Grow
  BY <1>2, TTLAssumption DEF Grow, Tokens, IInv, TypeInv
<1>11. \A d \in Clients : InFlight(d)'
  <2>1. r # Idle => Pending(c, r)'
    <3> SUFFICES ASSUME r # Idle PROVE Pending(c, r)'
      OBVIOUS
    <3>1. r.user \in users' /\ r.user.by = c
      BY <1>2, <1>3, <1>5
    <3>2. \A s \in r.dead : s \in Tokens' /\ Dead(s)'
      BY <1>1, <1>5, <1>10, DeadStays DEF Pending
    <3>3. r.gone \subseteq suspended'
      BY <1>1, <1>2, <1>5 DEF Pending
    <3> QED BY <1>5, <3>1, <3>2, <3>3 DEF Pending, InTx
  <2> QED BY <1>4, <1>5, <1>10, <2>1, OthersStay
<1> QED BY <1>6, <1>7, <1>8, <1>9, <1>11 DEF IInv

-----------------------------------------------------------------------------
(* The statements of the other requests.                                   *)

LEMMA GetUserByEmailInv ==
    ASSUME IInv, NEW c \in Clients, GetUserByEmail(c)
    PROVE  IInv'
<1> DEFINE q == request[c]
           found == {u \in users : u.email = q.email /\ u.by = c}
<1>1. q \in Request /\ Pending(c, q) /\ q.step = "find" /\ ~Holding(c)
  BY AtStep DEF GetUserByEmail, Holding, InTx
<1>2. UNCHANGED <<now, tables, sessions, tx, cookie, signedOut>>
  BY DEF GetUserByEmail, Keep
<1>3. CASE found = {} \/ found \cap suspended # {}
  <2>1. request' = [request EXCEPT ![c] = Idle]
    BY <1>3 DEF GetUserByEmail
  <2> QED BY <1>1, <1>2, <2>1, Moves
<1>4. CASE ~(found = {} \/ found \cap suspended # {})
  <2>0. PICK step \in Steps : step = "session"
    BY Literals
  <2>1. PICK user \in found : user = CHOOSE u \in found : TRUE
    BY <1>4
  <2>2. PICK r : r = [q EXCEPT !.step = step, !.user = user] /\ request' = [request EXCEPT ![c] = r]
    BY <1>4, <2>0, <2>1 DEF GetUserByEmail
  <2>3. user \in users /\ user.by = c /\ user \in User
    BY DEF IInv, Accounts
  <2>4. PICK p : p = [q EXCEPT !.step = step]
    OBVIOUS
  <2> HIDE DEF q
  <2>5. p \in Request /\ p.step = step /\ p.dead = q.dead /\ p.gone = q.gone
    BY <1>1, <2>4, StepTyped
  <2>6. r = [p EXCEPT !.user = user]
    BY <1>1, <2>2, <2>4 DEF Request
  <2>7. r \in Request /\ r.step = p.step /\ r.user = user /\ r.dead = p.dead /\ r.gone = p.gone
    BY <2>3, <2>5, <2>6, UserTyped
  <2>8. Pending(c, r) /\ r.step \notin InTx
    BY <1>1, <2>0, <2>3, <2>5, <2>7 DEF Pending, InTx
  <2> QED BY <1>1, <1>2, <2>2, <2>7, <2>8, Moves
<1> QED BY <1>3, <1>4

LEMMA CreateSessionInv ==
    ASSUME IInv, NEW c \in Clients, CreateSession(c)
    PROVE  IInv'
<1> DEFINE q == request[c]
<1>1. q \in Request /\ Pending(c, q) /\ q.step = "session" /\ ~Holding(c)
  BY AtStep DEF CreateSession, Holding, InTx
<1>2. UNCHANGED <<now, users, workspaces, memberships, suspended, tx, cookie, signedOut>>
  BY DEF CreateSession, Keep, tables
<1>3. PICK n \in Nat : sessions \in [1 .. n -> Session]
  BY DEF IInv, TypeInv
<1>4. Tokens = 1 .. n /\ Cardinality(Tokens) = n
  BY <1>3, FS_Interval DEF Tokens
<1>5. PICK s : s = [user |-> q.user, expires |-> now + q.ttl, revoked |-> FALSE]
  OBVIOUS
<1>6. q.user \in users /\ q.user \in User /\ q.user.by = c
  BY <1>1 DEF Pending, InTx, IInv, Accounts
<1>7. s \in Session /\ s.user = q.user
  <2>1. q.ttl \in {SessionTTL, SessionTTLRemember}
    BY <1>1 DEF Request
  <2>2. now + q.ttl \in SessionTTL .. MaxTime + SessionTTLRemember
    BY <2>1, TTLAssumption DEF IInv, TypeInv
  <2> QED BY <1>5, <1>6, <2>2 DEF Session
<1>8. sessions' = [u \in Tokens \cup {n + 1} |-> IF u \in Tokens THEN sessions[u] ELSE s]
  BY <1>4, <1>5 DEF CreateSession
<1>9. /\ sessions' \in [1 .. n + 1 -> Session] /\ sessions'[n + 1] = s
      /\ \A t \in Tokens : sessions'[t] = sessions[t]
      /\ Tokens' = 1 .. n + 1 /\ Tokens' = Tokens \cup {n + 1} /\ n + 1 \notin Tokens
  <2>1. (1 .. n) \cup {n + 1} = 1 .. n + 1 /\ n + 1 \notin 1 .. n
    BY <1>3
  <2>2. sessions' = [u \in 1 .. n + 1 |-> IF u \in 1 .. n THEN sessions[u] ELSE s]
    BY <1>4, <1>8, <2>1
  <2> QED BY <1>3, <1>4, <1>7, <2>1, <2>2 DEF Tokens
<1>10. PICK step \in Steps : step = "lookup"
  BY Literals
<1>11. PICK r : r = [q EXCEPT !.step = step, !.token = n + 1] /\ request' = [request EXCEPT ![c] = r]
  BY <1>4, <1>10 DEF CreateSession, IInv, TypeInv
<1> HIDE DEF q
<1>12. /\ r \in Request /\ r.step = step /\ r.token = n + 1
       /\ r.dead = q.dead /\ r.gone = q.gone
  <2>1. PICK p : p = [q EXCEPT !.step = step]
    OBVIOUS
  <2>2. p \in Request /\ p.step = step /\ p.dead = q.dead /\ p.gone = q.gone
    BY <1>1, <2>1, StepTyped
  <2>3. PICK t \in Nat : t = n + 1
    BY <1>3
  <2>4. r = [p EXCEPT !.token = t]
    BY <1>1, <1>11, <2>1, <2>3 DEF Request
  <2>5. r \in Request /\ r.step = p.step /\ r.token = t /\ r.dead = p.dead /\ r.gone = p.gone
    BY <2>2, <2>4, TokenTyped
  <2> QED BY <2>2, <2>3, <2>5
<1>13. TypeInv'
  <2>1. cookie' \in [Clients -> Tokens' \cup {None}]
    BY <1>2, <1>9 DEF IInv, TypeInv
  <2>2. \E m \in Nat : sessions' \in [1 .. m -> Session]
    BY <1>3, <1>9
  <2>3. DOMAIN request' = Clients
    BY <1>11 DEF IInv, TypeInv
  <2> QED BY <1>2, <2>1, <2>2, <2>3 DEF IInv, TypeInv
<1>14. Accounts'
  BY <1>2 DEF IInv, Accounts, OneAccountPerEmail, AccountIsWhole
<1>15. SessionsInv'
  <2>1. \A t \in Tokens' : sessions'[t].user \in users'
    BY <1>2, <1>6, <1>7, <1>9 DEF IInv, SessionsInv
  <2>2. CookieIsOwn'
    BY <1>2, <1>9 DEF IInv, TypeInv, SessionsInv, CookieIsOwn
  <2>3. signedOut' \subseteq Tokens' /\ SignedOutIsRevoked'
    BY <1>2, <1>9 DEF IInv, SessionsInv, SignedOutIsRevoked
  <2> QED BY <2>1, <2>2, <2>3 DEF SessionsInv
<1>16. TxInv'
  <2>1. r.step \notin InTx
    BY <1>10, <1>12 DEF InTx
  <2> QED BY <1>1, <1>2, <1>11, <2>1, TxStays
<1>17. Grow
  BY <1>2, <1>9, TTLAssumption DEF Grow, IInv, TypeInv
<1>18. Pending(c, r)'
  <2>1. r.token \in Tokens' /\ sessions'[r.token].user.by = c
    BY <1>6, <1>7, <1>9, <1>12
  <2>2. \A t \in r.dead : t \in Tokens' /\ Dead(t)'
    BY <1>1, <1>12, <1>17, DeadStays DEF Pending
  <2>3. r.gone \subseteq suspended'
    BY <1>1, <1>2, <1>12 DEF Pending
  <2> QED BY <1>10, <1>12, <2>1, <2>2, <2>3 DEF Pending, InTx
<1>19. \A d \in Clients : InFlight(d)'
  BY <1>11, <1>12, <1>17, <1>18, OthersStay
<1> QED BY <1>13, <1>14, <1>15, <1>16, <1>19 DEF IInv

LEMMA GetSessionByTokenHashInv ==
    ASSUME IInv, NEW c \in Clients, GetSessionByTokenHash(c)
    PROVE  IInv'
<1> DEFINE q == request[c]
<1>1. q \in Request /\ Pending(c, q) /\ q.step = "lookup" /\ ~Holding(c)
  BY AtStep DEF GetSessionByTokenHash, Holding, InTx
<1>2. UNCHANGED <<now, tables, sessions, tx, cookie, signedOut>>
  BY DEF GetSessionByTokenHash, Keep
<1>3. CASE ~Valid(q.token)
  <2>1. request' = [request EXCEPT ![c] = Idle]
    BY <1>3 DEF GetSessionByTokenHash
  <2> QED BY <1>1, <1>2, <2>1, Moves
<1>4. CASE Valid(q.token)
  <2>0. PICK step \in Steps : step = "membership of"
    BY Literals
  <2>1. q.token \in Tokens /\ sessions[q.token].user.by = c
    BY <1>1 DEF Pending
  <2>2. PICK user : user = sessions[q.token].user
    OBVIOUS
  <2>3. user \in User /\ user \notin suspended
    BY <1>4, <2>1, <2>2, SessionTyped DEF Valid
  <2>4. q.token \notin q.dead /\ user \notin q.gone
    <3>1. ~Dead(q.token)
      <4>1. now \in Nat /\ sessions[q.token].expires \in Nat
        BY <2>1, SessionTyped DEF IInv, TypeInv
      <4> QED BY <1>4, <4>1 DEF Valid, Dead
    <3> QED BY <1>1, <2>3, <3>1 DEF Pending
  <2>5. PICK r : r = [q EXCEPT !.step = step, !.user = user] /\ request' = [request EXCEPT ![c] = r]
    BY <1>4, <2>0, <2>2 DEF GetSessionByTokenHash
  <2>6. PICK p : p = [q EXCEPT !.step = step]
    OBVIOUS
  <2> HIDE DEF q
  <2>7. /\ p \in Request /\ p.step = step /\ p.token = q.token
        /\ p.dead = q.dead /\ p.gone = q.gone
    BY <1>1, <2>6, StepTyped
  <2>8. r = [p EXCEPT !.user = user]
    BY <1>1, <2>5, <2>6 DEF Request
  <2>9. /\ r \in Request /\ r.step = p.step /\ r.user = user /\ r.token = p.token
        /\ r.dead = p.dead /\ r.gone = p.gone
    BY <2>3, <2>7, <2>8, UserTyped
  <2>10. Pending(c, r) /\ r.step \notin InTx
    BY <1>1, <2>0, <2>1, <2>4, <2>7, <2>9 DEF Pending, InTx
  <2> QED BY <1>1, <1>2, <2>5, <2>9, <2>10, Moves
<1> QED BY <1>3, <1>4

LEMMA ListMembershipsByUserInv ==
    ASSUME IInv, NEW c \in Clients, ListMembershipsByUser(c)
    PROVE  IInv'
<1> DEFINE q == request[c]
<1>0. At(c, "membership of")
  BY DEF ListMembershipsByUser
<1>1. q \in Request /\ Pending(c, q) /\ q.step = "membership of" /\ ~Holding(c)
  <2>1. q \in Request /\ Pending(c, q) /\ q.step = "membership of"
    BY <1>0, AtStep
  <2>2. ~Holding(c)
    BY <2>1 DEF Holding, InTx
  <2> QED BY <2>1, <2>2
<1>2. UNCHANGED <<now, tables, sessions, tx, cookie, signedOut>>
  BY DEF ListMembershipsByUser, Keep
<1>3. CASE Answer(c)
  BY <1>1, <1>2, <1>3, Moves DEF Answer
<1>4. CASE Move(c, "admitted")
  <2>0. PICK step \in Steps : step = "admitted"
    BY Literals
  <2>1. PICK r : r = [q EXCEPT !.step = step] /\ request' = [request EXCEPT ![c] = r]
    BY <1>4, <2>0, MoveIsNested
  <2> HIDE DEF q
  <2>2. /\ r \in Request /\ r.step = step /\ r.user = q.user /\ r.token = q.token
        /\ r.dead = q.dead /\ r.gone = q.gone
    <3>1. q \in Request /\ r = [q EXCEPT !.step = step]
      BY <1>1, <2>1
    <3> QED BY <3>1, StepTyped
  <2>3. Pending(c, r) /\ r.step \notin InTx
    BY <1>1, <2>0, <2>2 DEF Pending, InTx
  <2> QED BY <1>1, <1>2, <2>1, <2>2, <2>3, Moves
<1> QED BY <1>3, <1>4 DEF ListMembershipsByUser

LEMMA AdmittedInv ==
    ASSUME IInv, NEW c \in Clients, Admitted(c)
    PROVE  IInv'
<1>1. /\ request[c] \in Request /\ Pending(c, request[c]) /\ request[c].step = "admitted"
      /\ ~Holding(c)
  BY AtStep DEF Admitted, Holding, InTx
<1>2. /\ UNCHANGED <<now, users, workspaces, memberships, suspended, sessions, tx, signedOut>>
      /\ request' = [request EXCEPT ![c] = Idle]
  BY DEF Admitted, Keep, tables, Answer
<1>3. request[c].token \in Tokens /\ sessions[request[c].token].user.by = c
  BY <1>1 DEF Pending
<1>4. /\ cookie' \in [Clients -> Tokens \cup {None}]
      /\ \A d \in Clients : cookie'[d] = cookie[d] \/ (d = c /\ cookie'[d] = request[c].token)
  <2>1. PICK t \in Tokens : t = request[c].token
    BY <1>3
  <2>2. cookie' = cookie \/ cookie' = [cookie EXCEPT ![c] = t]
    BY <2>1 DEF Admitted
  <2>3. cookie \in [Clients -> Tokens \cup {None}]
    BY DEF IInv, TypeInv
  <2>4. CASE cookie' = cookie
    BY <2>3, <2>4
  <2>5. CASE cookie' = [cookie EXCEPT ![c] = t]
    BY <2>1, <2>3, <2>5
  <2> QED BY <2>2, <2>4, <2>5
<1>5. TypeInv'
  BY <1>2, <1>4 DEF IInv, TypeInv, Tokens
<1>6. Accounts'
  BY <1>2 DEF IInv, Accounts, OneAccountPerEmail, AccountIsWhole
<1>7. SessionsInv'
  BY <1>2, <1>3, <1>4 DEF IInv, SessionsInv, SignedOutIsRevoked, CookieIsOwn, Tokens
<1>8. TxInv'
  BY <1>1, <1>2, TxStays
<1>9. Grow
  BY <1>2, TTLAssumption DEF Grow, Tokens, IInv, TypeInv
<1>10. \A d \in Clients : InFlight(d)'
  BY <1>2, <1>9, OthersStay
<1> QED BY <1>5, <1>6, <1>7, <1>8, <1>10 DEF IInv

(* Sessions that are revoked, one or all of a user's.                      *)
LEMMA Revocation ==
    ASSUME IInv, UNCHANGED <<now, users, workspaces, memberships, suspended, tx>>,
           NEW T \in SUBSET Tokens,
           sessions' = [t \in Tokens |-> IF t \in T THEN [sessions[t] EXCEPT !.revoked = TRUE]
                                         ELSE sessions[t]]
    PROVE  /\ \E n \in Nat : sessions' \in [1 .. n -> Session]
           /\ Tokens' = Tokens /\ Accounts' /\ Grow
           /\ \A t \in Tokens : sessions'[t].user = sessions[t].user
           /\ \A t \in Tokens : sessions[t].revoked \/ t \in T => sessions'[t].revoked
<1>1. PICK n \in Nat : sessions \in [1 .. n -> Session]
  BY DEF IInv, TypeInv
<1>2. Tokens = 1 .. n
  BY <1>1 DEF Tokens
<1>3. \A t \in Tokens : LET s == [sessions[t] EXCEPT !.revoked = TRUE]
                        IN  /\ s \in Session /\ s.revoked /\ s.user = sessions[t].user
                            /\ s.expires = sessions[t].expires
  BY <1>1, <1>2 DEF Session
<1>4. /\ sessions' \in [1 .. n -> Session] /\ Tokens' = Tokens
      /\ \A t \in Tokens : /\ sessions'[t].user = sessions[t].user
                           /\ sessions'[t].expires = sessions[t].expires
                           /\ sessions[t].revoked \/ t \in T => sessions'[t].revoked
  <2>1. sessions' = [t \in 1 .. n |-> IF t \in T THEN [sessions[t] EXCEPT !.revoked = TRUE]
                                      ELSE sessions[t]]
    BY <1>2
  <2> QED BY <1>1, <1>2, <1>3, <2>1 DEF Tokens
<1>5. Grow
  BY <1>4, TTLAssumption DEF Grow, IInv, TypeInv
<1>6. Accounts'
  BY DEF IInv, Accounts, OneAccountPerEmail, AccountIsWhole
<1> QED BY <1>4, <1>5, <1>6

LEMMA RevokeSessionInv ==
    ASSUME IInv, NEW c \in Clients, NEW answered \in BOOLEAN, RevokeSession(c, answered)
    PROVE  IInv'
<1> DEFINE tok == request[c].token
<1>1. /\ request[c] \in Request /\ Pending(c, request[c]) /\ request[c].step = "revoke"
      /\ ~Holding(c)
  BY AtStep DEF RevokeSession, Holding, InTx
<1>2. /\ UNCHANGED <<now, users, workspaces, memberships, suspended, tx>>
      /\ request' = [request EXCEPT ![c] = Idle]
      /\ signedOut' \in {signedOut, signedOut \cup {tok}}
      /\ cookie' \in {cookie, [cookie EXCEPT ![c] = None]}
  BY DEF RevokeSession, tables, Answer
<1>3. tok \in Tokens
  BY <1>1 DEF Pending
<1>4. sessions' = [t \in Tokens |-> IF t \in {tok} THEN [sessions[t] EXCEPT !.revoked = TRUE]
                                    ELSE sessions[t]]
  <2>1. \E n \in Nat : sessions \in [1 .. n -> Session]
    BY DEF IInv, TypeInv
  <2>2. sessions' = [sessions EXCEPT ![tok].revoked = TRUE]
    BY DEF RevokeSession
  <2> QED BY <1>3, <2>1, <2>2 DEF Tokens
<1>5. {tok} \in SUBSET Tokens
  BY <1>3
<1>6. /\ \E n \in Nat : sessions' \in [1 .. n -> Session]
      /\ Tokens' = Tokens /\ Accounts' /\ Grow
      /\ \A t \in Tokens : sessions'[t].user = sessions[t].user
      /\ \A t \in Tokens : sessions[t].revoked \/ t \in {tok} => sessions'[t].revoked
  BY <1>2, <1>4, <1>5, Revocation
<1>7. TypeInv'
  BY <1>2, <1>6 DEF IInv, TypeInv
<1>8. SessionsInv'
  <2>1. signedOut' \subseteq Tokens' /\ SignedOutIsRevoked'
    BY <1>2, <1>3, <1>6 DEF IInv, SessionsInv, SignedOutIsRevoked
  <2>2. CookieIsOwn'
    BY <1>2, <1>6, NoneIsNothing DEF IInv, TypeInv, SessionsInv, CookieIsOwn
  <2> QED BY <1>2, <1>6, <2>1, <2>2 DEF IInv, SessionsInv
<1>9. TxInv'
  BY <1>1, <1>2, TxStays
<1>10. \A d \in Clients : InFlight(d)'
  BY <1>2, <1>6, OthersStay
<1> QED BY <1>6, <1>7, <1>8, <1>9, <1>10 DEF IInv

-----------------------------------------------------------------------------
(* Outside the requests.                                                   *)

LEMMA OutsideInv ==
    ASSUME IInv, Tick \/ \E u \in users : Suspend(u) \/ RevokeAllUserSessions(u)
    PROVE  IInv'
<1>1. CASE Tick
  <2>1. /\ UNCHANGED <<users, workspaces, memberships, suspended, sessions, tx, request, cookie,
                       signedOut>>
        /\ now' \in 0 .. MaxTime /\ now' \in Nat /\ now <= now'
    BY <1>1, TTLAssumption DEF Tick, tables, IInv, TypeInv
  <2>2. TypeInv'
    BY <2>1 DEF IInv, TypeInv, Tokens
  <2>3. Accounts'
    BY <2>1 DEF IInv, Accounts, OneAccountPerEmail, AccountIsWhole
  <2>4. SessionsInv'
    BY <2>1 DEF IInv, SessionsInv, SignedOutIsRevoked, CookieIsOwn, Tokens
  <2>5. TxInv'
    BY <2>1 DEF IInv, TxInv, TxOk, TxApart, Holding
  <2>6. Grow
    BY <2>1 DEF Grow, Tokens
  <2> QED BY <2>1, <2>2, <2>3, <2>4, <2>5, <2>6, AllStay DEF IInv
<1>2. ASSUME NEW u \in users, Suspend(u) PROVE IInv'
  <2>1. /\ UNCHANGED <<now, users, workspaces, memberships, sessions, tx, request, cookie, signedOut>>
        /\ suspended' = suspended \cup {u}
    BY <1>2 DEF Suspend
  <2>2. TypeInv'
    BY <2>1 DEF IInv, TypeInv, Tokens
  <2>3. Accounts'
    BY <2>1 DEF IInv, Accounts, OneAccountPerEmail, AccountIsWhole
  <2>4. SessionsInv'
    BY <2>1 DEF IInv, SessionsInv, SignedOutIsRevoked, CookieIsOwn, Tokens
  <2>5. TxInv'
    BY <2>1 DEF IInv, TxInv, TxOk, TxApart, Holding
  <2>6. Grow
    BY <2>1, TTLAssumption DEF Grow, Tokens, IInv, TypeInv
  <2> QED BY <2>1, <2>2, <2>3, <2>4, <2>5, <2>6, AllStay DEF IInv
<1>3. ASSUME NEW u \in users, RevokeAllUserSessions(u) PROVE IInv'
  <2> DEFINE T == {t \in Tokens : sessions[t].user = u}
  <2>1. UNCHANGED <<now, users, workspaces, memberships, suspended, tx, request, cookie, signedOut>>
    BY <1>3 DEF RevokeAllUserSessions, tables
  <2>2. sessions' = [t \in Tokens |-> IF t \in T THEN [sessions[t] EXCEPT !.revoked = TRUE]
                                      ELSE sessions[t]]
    BY <1>3 DEF RevokeAllUserSessions
  <2>3. T \in SUBSET Tokens
    OBVIOUS
  <2> HIDE DEF T
  <2>4. /\ \E n \in Nat : sessions' \in [1 .. n -> Session]
        /\ Tokens' = Tokens /\ Accounts' /\ Grow
        /\ \A t \in Tokens : sessions'[t].user = sessions[t].user
        /\ \A t \in Tokens : sessions[t].revoked \/ t \in T => sessions'[t].revoked
    BY <2>1, <2>2, <2>3, Revocation
  <2>5. TypeInv'
    BY <2>1, <2>4 DEF IInv, TypeInv
  <2>6. SessionsInv'
    <3>1. SignedOutIsRevoked' /\ signedOut' \subseteq Tokens'
      BY <2>1, <2>4 DEF IInv, SessionsInv, SignedOutIsRevoked
    <3>2. CookieIsOwn'
      BY <2>1, <2>4 DEF IInv, TypeInv, SessionsInv, CookieIsOwn
    <3> QED BY <2>1, <2>4, <3>1, <3>2 DEF IInv, SessionsInv
  <2>7. TxInv'
    BY <2>1 DEF IInv, TxInv, TxOk, TxApart, Holding
  <2> QED BY <2>1, <2>4, <2>5, <2>6, <2>7, AllStay DEF IInv
<1> QED BY <1>1, <1>2, <1>3

LEMMA NextInv == IInv /\ [Next]_vars => IInv'
<1> SUFFICES ASSUME IInv, [Next]_vars PROVE IInv'
  OBVIOUS
<1>1. ASSUME NEW c \in Clients, Statement(c) PROVE IInv'
  BY <1>1, CreateUserInv, CreateWorkspaceInv, CreateMembershipInv, CommitInv, GetUserByEmailInv,
     CreateSessionInv, GetSessionByTokenHashInv, ListMembershipsByUserInv, AdmittedInv,
     RevokeSessionInv DEF Statement
<1>2. CASE Next
  BY <1>1, <1>2, BeginInv, FailInv, OutsideInv DEF Next
<1>3. CASE UNCHANGED vars
  <2>1. UNCHANGED <<now, users, workspaces, memberships, suspended, sessions, tx, request, cookie,
                    signedOut>>
    BY <1>3 DEF vars
  <2>2. TypeInv'
    BY <2>1 DEF IInv, TypeInv, Tokens
  <2>3. Accounts'
    BY <2>1 DEF IInv, Accounts, OneAccountPerEmail, AccountIsWhole
  <2>4. SessionsInv'
    BY <2>1 DEF IInv, SessionsInv, SignedOutIsRevoked, CookieIsOwn, Tokens
  <2>5. TxInv'
    BY <2>1 DEF IInv, TxInv, TxOk, TxApart, Holding
  <2>6. Grow
    BY <2>1, TTLAssumption DEF Grow, Tokens, IInv, TypeInv
  <2> QED BY <2>1, <2>2, <2>3, <2>4, <2>5, <2>6, AllStay DEF IInv
<1> QED BY <1>2, <1>3

-----------------------------------------------------------------------------
(* What the invariant says of the properties.                              *)

LEMMA Typed == IInv => TypeOK
<1> SUFFICES ASSUME IInv PROVE TypeOK
  OBVIOUS
<1>1. PICK n \in Nat : sessions \in [1 .. n -> Session]
  BY DEF IInv, TypeInv
<1>2. Tokens = 1 .. Cardinality(Tokens)
  <2>1. Tokens = 1 .. n
    BY <1>1 DEF Tokens
  <2>2. Cardinality(1 .. n) = n
    BY <1>1, FS_Interval
  <2> QED BY <2>1, <2>2
<1>3. ASSUME NEW t \in Tokens
      PROVE  /\ sessions[t].user \in users
             /\ sessions[t].expires \in SessionTTL .. MaxTime + SessionTTLRemember
             /\ sessions[t].revoked \in BOOLEAN
  BY <1>3, SessionTyped DEF IInv, SessionsInv, Session
<1>4. ASSUME NEW c \in Clients, tx[c] # None PROVE tx[c].user.by = c
  <2>1. TxOk(c)
    BY DEF IInv, TxInv
  <2>2. tx[c].user = [email |-> request[c].email, by |-> c]
    BY <1>4, <2>1 DEF TxOk
  <2> QED BY <2>2
<1>5. /\ now \in 0 .. MaxTime /\ cookie \in [Clients -> Tokens \cup {None}]
      /\ users \subseteq [email : Emails, by : Clients] /\ suspended \subseteq users
      /\ \A w \in workspaces : w.user \in users
  BY DEF IInv, TypeInv, Accounts, User
<1> QED BY <1>2, <1>3, <1>4, <1>5 DEF TypeOK

LEMMA Admission == IInv => SessionsAdmitOwners
<1> SUFFICES ASSUME IInv PROVE SessionsAdmitOwners
  OBVIOUS
<1>1. ASSUME NEW c \in Clients, At(c, "admitted")
      PROVE  request[c].token \notin request[c].dead /\ request[c].user \notin request[c].gone
  BY <1>1, AtStep DEF Pending
<1> QED BY <1>1 DEF IInv, SessionsInv, SessionsAdmitOwners, AdmittedWhileValid

(* Who waits has not got as far as the one it waits for.                   *)
LEMMA Waiting == IInv => WaitsEnd
<1> SUFFICES ASSUME IInv PROVE WaitsEnd
  OBVIOUS
<1> DEFINE slugs(c) == {workspaceSlug(request[c].email, tick) : tick \in Ticks}
           waits(c, d) ==
             /\ tx[d] # None /\ c # d
             /\ \/ At(c, "user") /\ tx[d].user.email = request[c].email
                \/ At(c, "workspace") /\ tx[d].slug \in slugs(c)
<1>1. \A c \in Clients : tx[c] # None => request[c] # Idle /\ ~At(c, "user")
  BY DEF IInv, TxInv, TxOk, Holding, InTx, At
<1>2. \A c, d \in Clients : waits(c, d) /\ tx[c] # None => At(c, "workspace") /\ tx[d].slug \in slugs(c)
  BY <1>1
<1>3. \A c \in Clients : At(c, "workspace") => None \notin slugs(c)
  <2>1. \A c \in Clients : InFlight(c)
    BY DEF IInv
  <2> QED BY <2>1, NoneIsNothing, SlugsAreSlugs
<1>4. \A c, d \in Clients : waits(c, d) /\ tx[c] # None => tx[c].slug = None /\ tx[d].slug # None
  <2>1. \A c \in Clients : At(c, "workspace") /\ tx[c] # None => tx[c].slug = None
    BY DEF IInv, TxInv, TxOk, At
  <2> QED BY <1>2, <1>3, <2>1
<1>5. ASSUME NEW c \in Clients, NEW d \in Clients, waits(c, d)
      PROVE  /\ request[d] # Idle
             /\ \E e \in Clients : /\ tx[e] # None /\ request[e] # Idle
                                   /\ \A b \in Clients : ~waits(e, b)
  <2>1. request[d] # Idle /\ tx[d] # None
    BY <1>1, <1>5
  <2>2. CASE \A b \in Clients : ~waits(d, b)
    BY <2>1, <2>2
  <2>3. CASE \E b \in Clients : waits(d, b)
    <3>1. PICK e \in Clients : waits(d, e)
      BY <2>3
    <3>2. tx[e] # None /\ tx[e].slug # None
      BY <1>4, <2>1, <3>1
    <3>3. \A b \in Clients : ~waits(e, b)
      BY <1>4, <3>2
    <3> QED BY <1>1, <2>1, <3>2, <3>3
  <2> QED BY <2>2, <2>3
<1> QED BY <1>5 DEF WaitsEnd

-----------------------------------------------------------------------------
LEMMA Invariance == Spec => []IInv
  BY InitInv, NextInv, PTL DEF Spec

(* Registration (service.go Register, CreateUserWithWorkspace): whatever   *)
(* statement fails, and however the registrations interleave, addresses    *)
(* and slugs stay unique and every account has its workspace.              *)
THEOREM AccountsProved == Spec => []AccountsSound
<1>1. IInv => AccountsSound
  BY Typed DEF IInv, Accounts, AccountsSound
<1> QED BY <1>1, Invariance, PTL

(* RequireSession and issueSession: nobody is admitted by a session that   *)
(* was dead when the request arrived, or that is not the browser's own.    *)
THEOREM AdmissionProved == Spec => []SessionsAdmitOwners
  BY Admission, Invariance, PTL

(* Logout: a 204 means that the session is revoked, and it stays so.       *)
THEOREM SignOutProved == Spec => []SignedOutIsRevoked
<1>1. IInv => SignedOutIsRevoked
  BY DEF IInv, SessionsInv
<1> QED BY <1>1, Invariance, PTL

(* The unique indexes on addresses and slugs: inserts that wait for one    *)
(* another's transaction never wait in a circle.                           *)
THEOREM WaitsProved == Spec => []WaitsEnd
  BY Waiting, Invariance, PTL

=============================================================================
