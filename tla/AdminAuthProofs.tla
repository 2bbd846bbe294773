---------------------------- MODULE AdminAuthProofs ----------------------------
(***************************************************************************)
(* What holds of administrators' accounts for any number of them, any      *)
(* length of the time windows and any number of requests.                  *)
(*                                                                         *)
(* The argument: an account, once it exists, keeps its secret, and its     *)
(* second factor is never switched off again.  So what a request has read  *)
(* of an account in one statement (Pending) is still true in the next.     *)
(* What was revoked, expired or disabled stays so, and records and         *)
(* sessions are only added (Wear): a request that is admitted still knows  *)
(* what was dead when it arrived (Know).  A code is computed from the      *)
(* number of a window, so how old an accepted one can be is a matter of    *)
(* division (NextWindow, SameWindow).                                      *)
(***************************************************************************)
EXTENDS AdminAuth, TLAPS, FiniteSetTheorems

Session == [admin : Admins, expires : AdminSessionTTL .. MaxTime + AdminSessionTTL,
            revoked : BOOLEAN, op : Nat]

Code == [secret : Secrets \cup {None}, at : Nat]

Ops == {"create", "confirm", "login", "serve", "logout"}
Steps == {"count", "insert", "audit", "find", "set", "audit failure", "session", "touch",
          "lookup", "admitted", "revoke"}

Request == [op : Ops, step : Steps,
            account : Admins \cup {None}, token : Nat \cup {None},
            row : Roles \cup Account \cup {None}, code : Code \cup {None},
            write : BOOLEAN, id : Secrets, dead : SUBSET Nat, gone : SUBSET Admins]

Exists(a) == accounts[a] # None

(* What a request in flight relies on.                                     *)
Pending(a, r) ==
    /\ r.op = "create" => /\ r.row \in Roles
                          /\ r.step = "insert" => r.row = "super_admin" \/ \E b \in Admins : Exists(b)
                          /\ r.step = "audit" => Exists(a)
    /\ r.op \in {"confirm", "login"} =>
          /\ r.account \in Admins /\ r.code \in Code
          /\ r.code.secret = None \/ r.code.secret = holds[a]
    /\ r.op = "confirm" /\ r.step = "set" =>
          /\ r.account = a /\ Exists(a)
          /\ r.row \in Account /\ r.row.secret = accounts[a].secret
          /\ holds[a] = accounts[a].secret
    /\ r.op = "login" /\ r.step = "session" =>
          Exists(r.account) /\ accounts[r.account].enabled
    /\ r.op = "login" /\ r.step \in {"touch", "audit", "lookup", "admitted"} => r.token \in Tokens
    /\ r.op \in {"serve", "logout"} => r.token \in Tokens

InFlight(a) == request[a] = Idle \/ (request[a] \in Request /\ Pending(a, request[a]))

TypeInv ==
    /\ now \in 0 .. MaxTime /\ ops \in 0 .. MaxOps
    /\ accounts \in [Admins -> Account \cup {None}]
    /\ holds \in [Admins -> Secrets \cup {None}]
    /\ \E n \in Nat : sessions \in [1 .. n -> Session]
    /\ cookie \in [Admins -> Tokens \cup {None}]
    /\ DOMAIN request = Admins

(* An authenticator has the secret of an account, or nothing.              *)
SecretKept == \A a \in Admins : holds[a] # None => Exists(a) /\ holds[a] = accounts[a].secret

TwoFactor == \A t \in Tokens : Exists(sessions[t].admin) /\ accounts[sessions[t].admin].enabled

AccountInv == SecretKept /\ SecondFactorProved /\ TwoFactor /\ SuperAdminExists

IInv == TypeInv /\ AccountInv /\ \A a \in Admins : InFlight(a)

-----------------------------------------------------------------------------
LEMMA NoneIsNothing == None \notin Secrets /\ None \notin Nat /\ None \notin Account
  BY NoneAssumption DEF Secrets

(* A step that only moves a request on keeps everything, when what the     *)
(* request now relies on is true.                                          *)
LEMMA RequestMoves ==
    ASSUME IInv, UNCHANGED Tables, now' \in 0 .. MaxTime, ops' \in 0 .. MaxOps,
           NEW a \in Admins, NEW r, request' = [request EXCEPT ![a] = r],
           r = Idle \/ (r \in Request /\ Pending(a, r))
    PROVE  IInv'
<1>1. TypeInv'
  BY DEF IInv, TypeInv, Tables, Tokens
<1>2. AccountInv'
  BY DEF IInv, AccountInv, SecretKept, SecondFactorProved, TwoFactor, SuperAdminExists,
         Exists, Tables, Tokens
<1>3. ASSUME NEW b \in Admins PROVE InFlight(b)'
  <2>1. \A q : Pending(b, q)' <=> Pending(b, q)
    BY DEF Pending, Exists, Tables, Tokens
  <2>2. CASE b = a
    BY <2>1, <2>2 DEF InFlight, IInv, TypeInv
  <2>3. CASE b # a
    BY <2>1, <2>3 DEF InFlight, IInv, TypeInv
  <2> QED BY <2>2, <2>3
<1> QED BY <1>1, <1>2, <1>3 DEF IInv

(* Accounts are only added to and enabled, and sessions only added.        *)
Grow ==
    /\ \A b \in Admins : Exists(b) =>
          /\ Exists(b)' /\ accounts'[b].secret = accounts[b].secret
          /\ accounts'[b].role = accounts[b].role
          /\ accounts[b].enabled => accounts'[b].enabled
    /\ Tokens \subseteq Tokens'
    /\ \A t \in Tokens : sessions'[t].admin = sessions[t].admin

(* So what a request relies on stays true.                                 *)
LEMMA PendingStays ==
    ASSUME Grow, NEW b \in Admins, holds'[b] = holds[b], NEW r, Pending(b, r)
    PROVE  Pending(b, r)'
  BY DEF Grow, Pending, Exists

LEMMA OthersStay ==
    ASSUME IInv, Grow, NEW a \in Admins, NEW r, request' = [request EXCEPT ![a] = r],
           \A b \in Admins \ {a} : holds'[b] = holds[b],
           r = Idle \/ (r \in Request /\ Pending(a, r)')
    PROVE  \A b \in Admins : InFlight(b)'
<1> TAKE b \in Admins
<1>1. CASE b = a
  BY <1>1 DEF InFlight, IInv, TypeInv
<1>2. CASE b # a
  BY <1>2, PendingStays DEF InFlight, IInv, TypeInv
<1> QED BY <1>1, <1>2

-----------------------------------------------------------------------------
First == [role |-> "super_admin", secret |-> 0, enabled |-> TRUE, disabled |-> FALSE]

(* The second disjunct of Init.                                            *)
OneEnrolled ==
    \E a \in Admins : /\ accounts = [b \in Admins |-> IF b # a THEN None ELSE First]
                      /\ holds = [b \in Admins |-> IF b # a THEN None ELSE 0]

LEMMA FirstTyped == First \in Account /\ 0 \in Secrets
<1>1. 0 \in Secrets
  BY TimesAssumption DEF Secrets
<1> QED BY <1>1 DEF First, Account, Roles

LEMMA InitInv == Init => IInv
<1> SUFFICES ASSUME Init PROVE IInv
  OBVIOUS
<1>1. TypeInv
  <2>1. sessions \in [1 .. 0 -> Session]
    BY DEF Init
  <2>2. accounts \in [Admins -> Account \cup {None}] /\ holds \in [Admins -> Secrets \cup {None}]
    <3>1. CASE accounts = [a \in Admins |-> None] /\ holds = [a \in Admins |-> None]
      BY <3>1
    <3>2. CASE OneEnrolled
      BY <3>2, FirstTyped DEF OneEnrolled
    <3> QED BY <3>1, <3>2 DEF Init, OneEnrolled, First
  <2> QED BY <2>1, <2>2, TimesAssumption DEF Init, TypeInv, Tokens
<1>2. AccountInv
  <2>1. Tokens = {}
    BY DEF Init, Tokens
  <2>2. SecretKept /\ SecondFactorProved /\ SuperAdminExists
    <3>1. CASE accounts = [a \in Admins |-> None] /\ holds = [a \in Admins |-> None]
      BY <3>1 DEF SecretKept, SecondFactorProved, SuperAdminExists
    <3>2. CASE OneEnrolled
      <4>1. PICK a \in Admins : /\ accounts = [b \in Admins |-> IF b # a THEN None ELSE First]
                                /\ holds = [b \in Admins |-> IF b # a THEN None ELSE 0]
        BY <3>2 DEF OneEnrolled
      <4>2. First # None /\ First.role = "super_admin" /\ First.secret = 0
        BY FirstTyped, NoneIsNothing DEF First
      <4> QED BY <4>1, <4>2 DEF SecretKept, SecondFactorProved, SuperAdminExists, Exists
    <3> QED BY <3>1, <3>2 DEF Init, OneEnrolled, First
  <2> QED BY <2>1, <2>2 DEF AccountInv, TwoFactor
<1>3. \A a \in Admins : InFlight(a)
  BY DEF Init, InFlight
<1> QED BY <1>1, <1>2, <1>3 DEF IInv

(* A request arrives.                                                      *)
LEMMA Arrives ==
    ASSUME IInv, NEW a \in Admins, NEW new, Begin(a, new), new \in Request, Pending(a, new)
    PROVE  IInv'
<1>1. ops' \in 0 .. MaxOps /\ now' \in 0 .. MaxTime
  BY TimesAssumption DEF Begin, IInv, TypeInv
<1> QED BY <1>1, RequestMoves DEF Begin, Tables

LEMMA Literals ==
    /\ "create" \in Ops /\ "confirm" \in Ops /\ "login" \in Ops /\ "serve" \in Ops
    /\ "logout" \in Ops
    /\ "count" \in Steps /\ "insert" \in Steps /\ "audit" \in Steps /\ "find" \in Steps
    /\ "set" \in Steps /\ "audit failure" \in Steps /\ "session" \in Steps
    /\ "touch" \in Steps /\ "lookup" \in Steps /\ "admitted" \in Steps
    /\ "revoke" \in Steps
  BY DEF Ops, Steps

LEMMA NewTyped ==
    ASSUME IInv, ops < MaxOps, NEW op \in Ops, NEW step \in Steps
    PROVE  New(op, step) \in Request /\ New(op, step).op = op /\ New(op, step).step = step
<1>1. ops \in Secrets
  BY TimesAssumption DEF IInv, TypeInv, Secrets
<1>2. Tokens \subseteq Nat
  BY DEF IInv, TypeInv, Tokens
<1> DEFINE dead == {t \in Tokens : Dead(t)}
           gone == {b \in Admins : accounts[b] # None /\ accounts[b].disabled}
<1>3. dead \in SUBSET Nat /\ gone \in SUBSET Admins
  BY <1>2
<1>4. New(op, step) =
         [op |-> op, step |-> step, account |-> None, token |-> None, row |-> None,
          code |-> None, write |-> FALSE, id |-> ops, dead |-> dead, gone |-> gone]
  BY DEF New
<1> HIDE DEF dead, gone
<1> QED BY <1>1, <1>3, <1>4 DEF Request

(* A request that only moves on.                                           *)
LEMMA StepTyped ==
    ASSUME NEW q \in Request, NEW step \in Steps, NEW r, r = [q EXCEPT !.step = step]
    PROVE  /\ r \in Request /\ r.step = step
           /\ r.op = q.op /\ r.row = q.row /\ r.token = q.token
           /\ r.account = q.account /\ r.code = q.code
  BY DEF Request

LEMMA CodesTyped ==
    ASSUME IInv, NEW a \in Admins, NEW code \in Codes(a)
    PROVE  code \in Code /\ (code.secret = None \/ code.secret = holds[a])
<1>1. holds[a] \in Secrets \cup {None} /\ CodeTimes \subseteq Nat
  BY TimesAssumption DEF IInv, TypeInv
<1>2. CASE code \in [secret : {holds[a]}, at : CodeTimes]
  BY <1>1, <1>2 DEF Code
<1>3. CASE code = [secret |-> None, at |-> 0]
  BY <1>3 DEF Code
<1> QED BY <1>2, <1>3 DEF Codes

LEMMA BeginInv ==
    ASSUME IInv, NEW a \in Admins,
           \/ \E role \in Roles : Create(a, role)
           \/ \E b \in Admins, code \in Codes(a) :
                 adminConfirmTOTP(a, b, code) \/ adminLogin(a, b, code)
           \/ \E write \in BOOLEAN : Serve(a, write)
           \/ adminLogout(a)
    PROVE  IInv'
<1>1. ASSUME NEW role \in Roles, Create(a, role) PROVE IInv'
  <2> DEFINE r == [New("create", "count") EXCEPT !.row = role]
  <2>1. Begin(a, r) /\ ops < MaxOps
    BY <1>1 DEF Create, Begin
  <2>2. /\ New("create", "count") \in Request
        /\ New("create", "count").op = "create" /\ New("create", "count").step = "count"
    BY <2>1, NewTyped, Literals
  <2>3. r \in Request /\ r.op = "create" /\ r.step = "count" /\ r.row = role
    BY <2>2 DEF Request
  <2>4. Pending(a, r)
    BY <2>3 DEF Pending
  <2> QED BY <2>1, <2>3, <2>4, Arrives
<1>2. ASSUME NEW b \in Admins, NEW code \in Codes(a), NEW op \in Ops, op \in {"confirm", "login"},
             Begin(a, [New(op, "find") EXCEPT !.account = b, !.code = code])
      PROVE  IInv'
  <2> DEFINE r == [New(op, "find") EXCEPT !.account = b, !.code = code]
  <2>1. Begin(a, r) /\ ops < MaxOps
    BY <1>2 DEF Begin
  <2>2. New(op, "find") \in Request /\ New(op, "find").op = op /\ New(op, "find").step = "find"
    BY <2>1, NewTyped, Literals
  <2>3. code \in Code /\ (code.secret = None \/ code.secret = holds[a])
    BY CodesTyped
  <2>4. r \in Request /\ r.op = op /\ r.step = "find" /\ r.account = b /\ r.code = code
    BY <2>2, <2>3 DEF Request
  <2> HIDE DEF r
  <2>5. Pending(a, r)
    BY <1>2, <2>3, <2>4 DEF Pending
  <2> QED BY <2>1, <2>4, <2>5, Arrives
<1>3. ASSUME NEW write \in BOOLEAN, Serve(a, write) PROVE IInv'
  <2> DEFINE r == [New("serve", "lookup") EXCEPT !.token = cookie[a], !.write = write]
  <2>1. Begin(a, r) /\ ops < MaxOps /\ cookie[a] # None
    BY <1>3 DEF Serve, Begin
  <2>2. /\ New("serve", "lookup") \in Request
        /\ New("serve", "lookup").op = "serve" /\ New("serve", "lookup").step = "lookup"
    BY <2>1, NewTyped, Literals
  <2>3. cookie[a] \in Tokens /\ cookie[a] \in Nat
    BY <2>1 DEF IInv, TypeInv, Tokens
  <2>4. r \in Request /\ r.op = "serve" /\ r.step = "lookup" /\ r.token = cookie[a]
    BY <2>2, <2>3 DEF Request
  <2>5. Pending(a, r)
    BY <2>3, <2>4 DEF Pending
  <2> QED BY <2>1, <2>4, <2>5, Arrives
<1>4. ASSUME adminLogout(a) PROVE IInv'
  <2> DEFINE r == [New("logout", "revoke") EXCEPT !.token = cookie[a]]
  <2>1. Begin(a, r) /\ ops < MaxOps /\ cookie[a] # None
    BY <1>4 DEF adminLogout, Begin
  <2>2. /\ New("logout", "revoke") \in Request
        /\ New("logout", "revoke").op = "logout" /\ New("logout", "revoke").step = "revoke"
    BY <2>1, NewTyped, Literals
  <2>3. cookie[a] \in Tokens /\ cookie[a] \in Nat
    BY <2>1 DEF IInv, TypeInv, Tokens
  <2>4. r \in Request /\ r.op = "logout" /\ r.step = "revoke" /\ r.token = cookie[a]
    BY <2>2, <2>3 DEF Request
  <2>5. Pending(a, r)
    BY <2>3, <2>4 DEF Pending
  <2> QED BY <2>1, <2>4, <2>5, Arrives
<1> QED BY <1>1, <1>2, <1>3, <1>4, Literals DEF adminConfirmTOTP, adminLogin

-----------------------------------------------------------------------------
(* Steps that move a request on or answer it, and leave the tables alone.  *)

LEMMA Admin ==
    ASSUME IInv, NEW a \in Admins, request[a].op # "idle"
    PROVE  request[a] \in Request /\ Pending(a, request[a])
  BY DEF IInv, InFlight, Idle

LEMMA Moves ==
    ASSUME IInv, UNCHANGED <<now, Tables, ops>>, NEW a \in Admins, NEW r,
           request' = [request EXCEPT ![a] = r],
           r = Idle \/ (r \in Request /\ Pending(a, r))
    PROVE  IInv'
  BY RequestMoves DEF IInv, TypeInv

LEMMA Answers ==
    ASSUME IInv, UNCHANGED <<now, Tables, ops>>, NEW a \in Admins, Answer(a)
    PROVE  IInv'
  BY Moves DEF Answer

(* Only the step changes, and what the request relies on there is true.    *)
LEMMA MovesOn ==
    ASSUME IInv, UNCHANGED <<now, Tables, ops>>, NEW a \in Admins, NEW step \in Steps,
           request[a] \in Request,
           request' = [request EXCEPT ![a] = [request[a] EXCEPT !.step = step]],
           \A r \in Request :
              (/\ r.step = step /\ r.op = request[a].op /\ r.row = request[a].row
               /\ r.token = request[a].token /\ r.account = request[a].account
               /\ r.code = request[a].code) => Pending(a, r)
    PROVE  IInv'
<1> DEFINE r == [request[a] EXCEPT !.step = step]
<1>1. r = [request[a] EXCEPT !.step = step] /\ request' = [request EXCEPT ![a] = r]
  OBVIOUS
<1> HIDE DEF r
<1>2. r \in Request /\ Pending(a, r)
  BY <1>1, StepTyped
<1> QED BY <1>1, <1>2, Moves

LEMMA MoveIsNested ==
    ASSUME IInv, NEW a \in Admins, NEW step, Move(a, step)
    PROVE  request' = [request EXCEPT ![a] = [request[a] EXCEPT !.step = step]]
  BY DEF Move, IInv, TypeInv

LEMMA CountAdminsInv ==
    ASSUME IInv, NEW a \in Admins, CountAdmins(a)
    PROVE  IInv'
<1> DEFINE there == {b \in Admins : accounts[b] # None}
<1>0. PICK step \in Steps : step = "insert"
  BY Literals
<1>1. /\ request[a] \in Request /\ Pending(a, request[a])
      /\ request[a].op = "create" /\ UNCHANGED <<now, Tables, ops>>
  BY Admin DEF CountAdmins, At
<1>2. CASE MayCreate(Cardinality(there), request[a].row)
  <2>1. IsFiniteSet(there)
    BY AdminsAssumption, FS_Subset
  <2>2. there = {} => request[a].row = "super_admin"
    BY <1>2, FS_EmptySet DEF MayCreate
  <2>3. request[a].row \in Roles /\ (request[a].row = "super_admin" \/ \E b \in Admins : Exists(b))
    BY <1>1, <2>2 DEF Pending, Exists
  <2>4. \A r \in Request :
           (r.step = step /\ r.op = request[a].op /\ r.row = request[a].row) => Pending(a, r)
    BY <1>0, <1>1, <2>3 DEF Pending
  <2>5. request' = [request EXCEPT ![a] = [request[a] EXCEPT !.step = step]]
    BY <1>0, <1>2, MoveIsNested DEF CountAdmins
  <2> QED BY <1>1, <2>4, <2>5, MovesOn
<1>3. CASE ~MayCreate(Cardinality(there), request[a].row)
  BY <1>1, <1>3, Answers DEF CountAdmins
<1> QED BY <1>2, <1>3

LEMMA ReadForConfirmInv ==
    ASSUME IInv, NEW a \in Admins, ReadForConfirm(a)
    PROVE  IInv'
<1> DEFINE q == request[a]
           r == [q EXCEPT !.step = "set", !.row = accounts[q.account]]
<1>1. q \in Request /\ Pending(a, q) /\ q.op = "confirm" /\ UNCHANGED <<now, Tables, ops>>
  BY Admin DEF ReadForConfirm, At
<1>2. PICK step \in Steps : step = "set"
  BY Literals
<1>3. CASE MayConfirm(a, q.account, q.code)
  <2>1. q.account = a /\ Exists(a) /\ q.code.secret = accounts[a].secret
    BY <1>3 DEF MayConfirm, VerifyTOTP, Exists
  <2>2. accounts[a] \in Account
    BY <2>1 DEF IInv, TypeInv, Exists
  <2>3. accounts[a].secret # None
    BY <2>2, NoneIsNothing DEF Account
  <2>4. holds[a] = accounts[a].secret
    BY <1>1, <2>1, <2>3 DEF Pending
  <2>5. r = [q EXCEPT !.step = step, !.row = accounts[a]] /\ request' = [request EXCEPT ![a] = r]
    BY <1>2, <1>3, <2>1 DEF ReadForConfirm
  <2> HIDE DEF r, q
  <2>6. /\ r \in Request /\ r.op = "confirm" /\ r.step = "set" /\ r.account = a
        /\ r.row = accounts[a] /\ r.code = q.code
    <3>1. PICK row \in Account : row = accounts[a]
      BY <2>2
    <3>2. r = [q EXCEPT !.step = step, !.row = row]
      BY <2>5, <3>1
    <3>3. /\ r \in Request /\ r.step = step /\ r.row = row
          /\ r.op = q.op /\ r.account = q.account /\ r.code = q.code
      BY <1>1, <3>2 DEF Request
    <3> QED BY <1>1, <1>2, <2>1, <3>1, <3>3
  <2>7. Pending(a, r)
    BY <1>1, <2>1, <2>2, <2>4, <2>6 DEF Pending
  <2> QED BY <1>1, <2>5, <2>6, <2>7, Moves
<1>4. CASE ~MayConfirm(a, q.account, q.code)
  BY <1>1, <1>4, Moves DEF ReadForConfirm
<1> QED BY <1>3, <1>4

LEMMA AdminLoginInv ==
    ASSUME IInv, NEW a \in Admins, AdminLogin(a)
    PROVE  IInv'
<1> DEFINE q == request[a]
           row == accounts[q.account]
           r == [q EXCEPT !.step = "session", !.row = row]
<1>1. q \in Request /\ Pending(a, q) /\ q.op = "login" /\ UNCHANGED <<now, Tables, ops>>
  BY Admin DEF AdminLogin, At
<1>2. \/ request' = [request EXCEPT ![a] = Idle]
      \/ request' = [request EXCEPT ![a] = [q EXCEPT !.step = "audit failure"]]
      \/ request' = [request EXCEPT ![a] = r] /\ row # None /\ Enrolled(row)
  BY DEF AdminLogin
<1>3. CASE request' = [request EXCEPT ![a] = Idle]
  BY <1>1, <1>3, Moves
<1>4. CASE request' = [request EXCEPT ![a] = [q EXCEPT !.step = "audit failure"]]
  <2>0. PICK step \in Steps : step = "audit failure"
    BY Literals
  <2>1. \A p \in Request :
           (/\ p.step = step /\ p.op = q.op
            /\ p.account = q.account /\ p.code = q.code) => Pending(a, p)
    BY <1>1, <2>0 DEF Pending
  <2>2. request' = [request EXCEPT ![a] = [request[a] EXCEPT !.step = step]]
    BY <1>4, <2>0
  <2> QED BY <1>1, <2>1, <2>2, MovesOn
<1>5. CASE request' = [request EXCEPT ![a] = r] /\ row # None /\ Enrolled(row)
  <2>1. q.account \in Admins
    BY <1>1 DEF Pending
  <2>2. row \in Account /\ Exists(q.account) /\ accounts[q.account].enabled
    BY <1>5, <2>1 DEF IInv, TypeInv, Exists, Enrolled
  <2>0. PICK step \in Steps : step = "session"
    BY Literals
  <2>3. r = [q EXCEPT !.step = step, !.row = row]
    BY <2>0
  <2> HIDE DEF r, row, q
  <2>4. /\ r \in Request /\ r.op = "login" /\ r.step = "session"
        /\ r.account = q.account /\ r.code = q.code
    <3>1. row \in Account
      BY <2>2
    <3>2. /\ r \in Request /\ r.step = step
          /\ r.op = q.op /\ r.account = q.account /\ r.code = q.code
      BY <1>1, <2>3, <3>1 DEF Request
    <3> QED BY <1>1, <2>0, <3>2
  <2>5. Pending(a, r)
    BY <1>1, <2>2, <2>4 DEF Pending
  <2> QED BY <1>1, <1>5, <2>4, <2>5, Moves
<1> QED BY <1>2, <1>3, <1>4, <1>5

LEMMA TouchAndRecordInv ==
    ASSUME IInv, NEW a \in Admins, TouchAdminActivity(a) \/ RecordLogin(a)
    PROVE  IInv'
<1>1. PICK step \in {"audit", "lookup"} : Move(a, step)
  BY DEF TouchAdminActivity, RecordLogin
<1>2. /\ request[a] \in Request /\ Pending(a, request[a]) /\ request[a].op = "login"
      /\ request[a].step \in {"touch", "audit"} /\ UNCHANGED <<now, Tables, ops>>
  BY Admin DEF TouchAdminActivity, RecordLogin, At
<1>3. \A r \in Request :
         (/\ r.step = step /\ r.op = request[a].op /\ r.token = request[a].token
          /\ r.account = request[a].account /\ r.code = request[a].code) => Pending(a, r)
  BY <1>2 DEF Pending
<1>4. request' = [request EXCEPT ![a] = [request[a] EXCEPT !.step = step]]
  BY <1>1, MoveIsNested
<1>5. step \in Steps
  BY Literals
<1> QED BY <1>2, <1>3, <1>4, <1>5, MovesOn

LEMMA LookupInv ==
    ASSUME IInv, NEW a \in Admins, FinishLogin(a) \/ RequireAdmin(a)
    PROVE  IInv'
<1>1. /\ request[a] \in Request /\ Pending(a, request[a])
      /\ request[a].op \in {"login", "serve"} /\ request[a].step = "lookup"
      /\ UNCHANGED <<now, Tables, ops>>
  BY Admin DEF FinishLogin, RequireAdmin, At
<1>0. PICK step \in Steps : step = "admitted"
  BY Literals
<1>2. \/ request' = [request EXCEPT ![a] = [request[a] EXCEPT !.step = step]]
      \/ request' = [request EXCEPT ![a] = Idle]
  BY <1>0 DEF FinishLogin, RequireAdmin, IInv, TypeInv
<1>3. \A r \in Request :
         (/\ r.step = step /\ r.op = request[a].op /\ r.token = request[a].token
          /\ r.account = request[a].account /\ r.code = request[a].code) => Pending(a, r)
  BY <1>0, <1>1 DEF Pending
<1>4. CASE request' = [request EXCEPT ![a] = [request[a] EXCEPT !.step = step]]
  BY <1>1, <1>3, <1>4, MovesOn
<1>5. CASE request' = [request EXCEPT ![a] = Idle]
  BY <1>1, <1>5, Moves
<1> QED BY <1>2, <1>4, <1>5

LEMMA AnswerInv ==
    ASSUME IInv, NEW a \in Admins,
           ConfirmAdminTOTP(a) \/ auditAdminLoginFailure(a) \/ Fail(a)
    PROVE  IInv'
  BY Answers DEF ConfirmAdminTOTP, auditAdminLoginFailure, Fail

-----------------------------------------------------------------------------
(* Steps that write the tables.                                            *)

LEMMA CreateAdminAccountInv ==
    ASSUME IInv, NEW a \in Admins, CreateAdminAccount(a)
    PROVE  IInv'
<1> DEFINE q == request[a]
           new == [role |-> q.row, secret |-> q.id, enabled |-> FALSE, disabled |-> FALSE]
<1>1. q \in Request /\ Pending(a, q) /\ q.op = "create" /\ q.step = "insert"
  BY Admin DEF CreateAdminAccount, At
<1>2. UNCHANGED <<now, sessions, holds, cookie, ops>>
  BY DEF CreateAdminAccount
<1>3. CASE Exists(a)
  BY <1>2, <1>3, Answers DEF CreateAdminAccount, Exists, Tables
<1>4. CASE ~Exists(a)
  <2>1. accounts' = [accounts EXCEPT ![a] = new] /\ Move(a, "audit")
    BY <1>4 DEF CreateAdminAccount, Exists
  <2>2. new \in Account /\ new.role = q.row /\ new.enabled = FALSE
    <3>1. q.row \in Roles /\ q.id \in Secrets
      BY <1>1 DEF Pending, Request
    <3> QED BY <3>1 DEF Account
  <2>3. new # None
    BY <2>2, NoneIsNothing
  <2> HIDE DEF new
  <2>4. /\ accounts \in [Admins -> Account \cup {None}]
        /\ accounts' \in [Admins -> Account \cup {None}]
        /\ accounts'[a] = new /\ \A b \in Admins \ {a} : accounts'[b] = accounts[b]
    BY <2>1, <2>2 DEF IInv, TypeInv
  <2>5. holds[a] = None
    BY <1>4 DEF IInv, AccountInv, SecretKept
  <2>6. \A t \in Tokens : sessions[t].admin \in Admins \ {a}
    <3>1. \A t \in Tokens : sessions[t] \in Session
      BY DEF IInv, TypeInv, Tokens
    <3>2. \A t \in Tokens : sessions[t].admin \in Admins
      BY <3>1 DEF Session
    <3> QED BY <1>4, <3>2 DEF IInv, AccountInv, TwoFactor
  <2>7. Grow
    BY <1>2, <1>4, <2>4 DEF Grow, Exists, Tokens
  <2>8. TypeInv'
    <3>1. DOMAIN request' = Admins
      BY <2>1 DEF Move, IInv, TypeInv
    <3> QED BY <1>2, <2>4, <3>1 DEF IInv, TypeInv, Tokens
  <2>9. AccountInv'
    <3>1. SecretKept' /\ SecondFactorProved'
      BY <1>2, <2>2, <2>3, <2>4, <2>5
      DEF IInv, AccountInv, SecretKept, SecondFactorProved, Exists
    <3>2. TwoFactor'
      BY <1>2, <2>4, <2>6 DEF IInv, AccountInv, TwoFactor, Exists, Tokens
    <3>3. SuperAdminExists'
      <4>1. CASE q.row = "super_admin"
        BY <2>2, <2>3, <2>4, <4>1 DEF SuperAdminExists
      <4>2. CASE \E b \in Admins : Exists(b)
        BY <1>4, <2>4, <4>2 DEF IInv, AccountInv, SuperAdminExists, Exists
      <4> QED BY <1>1, <4>1, <4>2 DEF Pending
    <3> QED BY <3>1, <3>2, <3>3 DEF AccountInv
  <2>10. \A b \in Admins : InFlight(b)'
    <3>0. PICK step \in Steps : step = "audit"
      BY Literals
    <3>1. PICK r : r = [q EXCEPT !.step = step] /\ request' = [request EXCEPT ![a] = r]
      BY <2>1, <3>0, MoveIsNested
    <3> HIDE DEF q
    <3>2. r \in Request /\ r.step = step /\ r.op = q.op /\ r.row = q.row
      BY <1>1, <3>1, StepTyped
    <3>3. Pending(a, r)'
      BY <1>1, <2>3, <2>4, <3>0, <3>2 DEF Pending, Exists
    <3> QED BY <1>2, <2>7, <3>1, <3>2, <3>3, OthersStay
  <2> QED BY <2>8, <2>9, <2>10 DEF IInv
<1> QED BY <1>3, <1>4

LEMMA CreateAdminInv ==
    ASSUME IInv, NEW a \in Admins, CreateAdmin(a)
    PROVE  IInv'
<1>1. request[a] \in Request /\ Pending(a, request[a]) /\ Exists(a)
  BY Admin DEF CreateAdmin, At, Pending
<1>2. /\ UNCHANGED <<now, accounts, sessions, cookie, ops>>
      /\ request' = [request EXCEPT ![a] = Idle]
      /\ holds' = [holds EXCEPT ![a] = accounts[a].secret]
  BY DEF CreateAdmin, Answer
<1>3. accounts[a].secret \in Secrets
  <2>1. accounts[a] \in Account
    BY <1>1 DEF IInv, TypeInv, Exists
  <2> QED BY <2>1 DEF Account
<1>4. /\ holds' \in [Admins -> Secrets \cup {None}] /\ holds'[a] = accounts[a].secret
      /\ \A b \in Admins \ {a} : holds'[b] = holds[b]
  BY <1>2, <1>3 DEF IInv, TypeInv
<1>5. TypeInv'
  BY <1>2, <1>4 DEF IInv, TypeInv, Tokens
<1>6. AccountInv'
  BY <1>1, <1>2, <1>4
  DEF IInv, AccountInv, SecretKept, SecondFactorProved, TwoFactor, SuperAdminExists, Exists, Tokens
<1>7. Grow
  BY <1>2 DEF Grow, Exists, Tokens
<1>8. \A b \in Admins : InFlight(b)'
  BY <1>2, <1>4, <1>7, OthersStay
<1> QED BY <1>5, <1>6, <1>8 DEF IInv

LEMMA SetAdminTOTPInv ==
    ASSUME IInv, NEW a \in Admins, SetAdminTOTP(a)
    PROVE  IInv'
<1> DEFINE q == request[a]
           new == [accounts[a] EXCEPT !.enabled = TRUE]
<1>1. /\ q \in Request /\ Pending(a, q) /\ q.op = "confirm" /\ q.step = "set"
      /\ UNCHANGED <<now, sessions, holds, cookie, ops>> /\ Move(a, "audit")
  BY Admin DEF SetAdminTOTP, At
<1>2. /\ q.account = a /\ Exists(a) /\ q.row.secret = accounts[a].secret
      /\ holds[a] = accounts[a].secret
  BY <1>1 DEF Pending
<1>3. accounts \in [Admins -> Account \cup {None}] /\ accounts[a] \in Account
  BY <1>2 DEF IInv, TypeInv, Exists
<1>4. /\ new \in Account /\ new.enabled = TRUE
      /\ new.secret = accounts[a].secret /\ new.role = accounts[a].role
  BY <1>3 DEF Account
<1>5. accounts' = [accounts EXCEPT ![a] = new]
  <2>1. accounts' = [accounts EXCEPT ![a].secret = accounts[a].secret, ![a].enabled = TRUE]
    BY <1>2 DEF SetAdminTOTP
  <2>2. [accounts[a] EXCEPT !.secret = accounts[a].secret] = accounts[a]
    BY <1>3 DEF Account
  <2> QED BY <1>3, <2>1, <2>2
<1> HIDE DEF new
<1>6. /\ accounts' \in [Admins -> Account \cup {None}]
      /\ accounts'[a] = new /\ \A b \in Admins \ {a} : accounts'[b] = accounts[b]
  BY <1>3, <1>4, <1>5
<1>7. new # None
  BY <1>4, NoneIsNothing
<1>8. Grow
  BY <1>1, <1>4, <1>6, <1>7 DEF Grow, Exists, Tokens
<1>9. TypeInv'
  <2>1. DOMAIN request' = Admins
    BY <1>1 DEF Move, IInv, TypeInv
  <2> QED BY <1>1, <1>6, <2>1 DEF IInv, TypeInv, Tokens
<1>10. AccountInv'
  <2>1. SecretKept' /\ SecondFactorProved'
    BY <1>1, <1>2, <1>4, <1>6, <1>7
    DEF IInv, AccountInv, SecretKept, SecondFactorProved, Exists
  <2>2. TwoFactor'
    <3>1. \A t \in Tokens : sessions[t] \in Session
      BY DEF IInv, TypeInv, Tokens
    <3>2. \A t \in Tokens : sessions[t].admin \in Admins
      BY <3>1 DEF Session
    <3> QED BY <1>1, <1>4, <1>6, <1>7, <3>2 DEF IInv, AccountInv, TwoFactor, Exists, Tokens
  <2>3. SuperAdminExists'
    BY <1>2, <1>4, <1>6, <1>7 DEF IInv, AccountInv, SuperAdminExists, Exists
  <2> QED BY <2>1, <2>2, <2>3 DEF AccountInv
<1>11. \A b \in Admins : InFlight(b)'
  <2>0. PICK step \in Steps : step = "audit"
    BY Literals
  <2>1. PICK r : r = [q EXCEPT !.step = step] /\ request' = [request EXCEPT ![a] = r]
    BY <1>1, <2>0, MoveIsNested
  <2> HIDE DEF q
  <2>2. /\ r \in Request /\ r.step = step /\ r.op = q.op
        /\ r.account = q.account /\ r.code = q.code
    BY <1>1, <2>1, StepTyped
  <2>3. Pending(a, r)'
    BY <1>1, <2>0, <2>2 DEF Pending
  <2> QED BY <1>1, <1>8, <2>1, <2>2, <2>3, OthersStay
<1> QED BY <1>9, <1>10, <1>11 DEF IInv

LEMMA CreateAdminSessionInv ==
    ASSUME IInv, NEW a \in Admins, CreateAdminSession(a)
    PROVE  IInv'
<1> DEFINE q == request[a]
<1>1. /\ q \in Request /\ Pending(a, q) /\ q.op = "login" /\ q.step = "session"
      /\ UNCHANGED <<now, accounts, holds, cookie, ops>>
  BY Admin DEF CreateAdminSession, At
<1>2. PICK n \in Nat : sessions \in [1 .. n -> Session]
  BY DEF IInv, TypeInv
<1>3. Tokens = 1 .. n /\ Cardinality(Tokens) = n
  BY <1>2, FS_Interval DEF Tokens
<1>4. PICK s : s = [admin |-> q.account, expires |-> now + AdminSessionTTL, revoked |-> FALSE,
                    op |-> q.id]
  OBVIOUS
<1>5. q.account \in Admins /\ Exists(q.account) /\ accounts[q.account].enabled
  BY <1>1 DEF Pending
<1>6. s \in Session /\ s.admin = q.account
  <2>1. q.id \in Nat
    BY <1>1, TimesAssumption DEF Request, Secrets
  <2>2. now + AdminSessionTTL \in AdminSessionTTL .. MaxTime + AdminSessionTTL
    BY TimesAssumption DEF IInv, TypeInv
  <2> QED BY <1>4, <1>5, <2>1, <2>2 DEF Session
<1>7. sessions' = [u \in Tokens \cup {n + 1} |-> IF u \in Tokens THEN sessions[u] ELSE s]
  BY <1>3, <1>4 DEF CreateAdminSession
<1>8. /\ sessions' \in [1 .. n + 1 -> Session] /\ sessions'[n + 1] = s
      /\ \A t \in Tokens : sessions'[t] = sessions[t]
      /\ Tokens' = 1 .. n + 1 /\ Tokens' = Tokens \cup {n + 1}
  <2>1. (1 .. n) \cup {n + 1} = 1 .. n + 1 /\ n + 1 \notin 1 .. n
    BY <1>2
  <2>2. sessions' = [u \in 1 .. n + 1 |-> IF u \in 1 .. n THEN sessions[u] ELSE s]
    BY <1>3, <1>7, <2>1
  <2> QED BY <1>2, <1>3, <1>6, <2>1, <2>2 DEF Tokens
<1>9. TypeInv'
  <2>1. cookie' \in [Admins -> Tokens' \cup {None}]
    BY <1>1, <1>8 DEF IInv, TypeInv
  <2>2. DOMAIN request' = Admins
    BY DEF CreateAdminSession, IInv, TypeInv
  <2>3. \E m \in Nat : sessions' \in [1 .. m -> Session]
    BY <1>2, <1>8
  <2> QED BY <1>1, <2>1, <2>2, <2>3 DEF IInv, TypeInv
<1>10. AccountInv'
  <2>1. TwoFactor'
    BY <1>1, <1>5, <1>6, <1>8 DEF IInv, AccountInv, TwoFactor, Exists
  <2> QED BY <1>1, <2>1 DEF IInv, AccountInv, SecretKept, SecondFactorProved, SuperAdminExists, Exists
<1>11. Grow
  BY <1>1, <1>8 DEF Grow, Exists
<1>12. \A b \in Admins : InFlight(b)'
  <2>0. PICK step \in Steps : step = "touch"
    BY Literals
  <2>1. PICK r : /\ r = [q EXCEPT !.step = step, !.token = n + 1]
                 /\ request' = [request EXCEPT ![a] = r]
    BY <1>3, <2>0 DEF CreateAdminSession, IInv, TypeInv
  <2> HIDE DEF q
  <2>2. /\ r \in Request /\ r.step = step /\ r.op = q.op /\ r.token = n + 1
        /\ r.account = q.account /\ r.code = q.code
    <3>1. PICK p : p = [q EXCEPT !.step = step]
      OBVIOUS
    <3>2. /\ p \in Request /\ p.step = step /\ p.op = q.op
          /\ p.account = q.account /\ p.code = q.code
      BY <1>1, <3>1, StepTyped
    <3>3. PICK t \in Nat : t = n + 1
      BY <1>2
    <3>4. r = [p EXCEPT !.token = t]
      BY <1>1, <2>1, <3>1, <3>3 DEF Request
    <3>5. /\ r \in Request /\ r.step = p.step /\ r.op = p.op /\ r.token = t
          /\ r.account = p.account /\ r.code = p.code
      BY <3>2, <3>4 DEF Request
    <3> QED BY <3>2, <3>3, <3>5
  <2>3. Pending(a, r)'
    BY <1>1, <1>8, <2>0, <2>2 DEF Pending
  <2> QED BY <1>1, <1>11, <2>1, <2>2, <2>3, OthersStay
<1> QED BY <1>9, <1>10, <1>12 DEF IInv

LEMMA AdmittedInv ==
    ASSUME IInv, NEW a \in Admins, Admitted(a)
    PROVE  IInv'
<1>1. /\ request[a] \in Request /\ Pending(a, request[a]) /\ request[a].step = "admitted"
      /\ UNCHANGED <<now, accounts, sessions, holds, ops>>
      /\ request' = [request EXCEPT ![a] = Idle]
  BY DEF Admitted, Answer, IInv, InFlight
<1>2. cookie' \in [Admins -> Tokens \cup {None}]
  <2>1. CASE request[a].op = "login"
    <3>1. request[a].token \in Tokens
      BY <1>1, <2>1 DEF Pending
    <3> QED BY <2>1, <3>1 DEF Admitted, IInv, TypeInv
  <2>2. CASE request[a].op # "login"
    BY <2>2 DEF Admitted, IInv, TypeInv
  <2> QED BY <2>1, <2>2
<1>3. TypeInv'
  BY <1>1, <1>2 DEF IInv, TypeInv, Tokens
<1>4. AccountInv'
  BY <1>1 DEF IInv, AccountInv, SecretKept, SecondFactorProved, TwoFactor, SuperAdminExists,
              Exists, Tokens
<1>5. Grow
  BY <1>1 DEF Grow, Exists, Tokens
<1>6. \A b \in Admins : InFlight(b)'
  BY <1>1, <1>5, OthersStay
<1> QED BY <1>3, <1>4, <1>6 DEF IInv

LEMMA RevokeAdminSessionInv ==
    ASSUME IInv, NEW a \in Admins, RevokeAdminSession(a)
    PROVE  IInv'
<1>1. /\ request[a] \in Request /\ Pending(a, request[a]) /\ request[a].op = "logout"
      /\ UNCHANGED <<now, accounts, holds, ops>>
      /\ request' = [request EXCEPT ![a] = Idle]
      /\ cookie' = [cookie EXCEPT ![a] = None]
  BY Admin DEF RevokeAdminSession, At, Answer
<1>2. request[a].token \in Tokens
  BY <1>1 DEF Pending
<1>3. PICK n \in Nat : sessions \in [1 .. n -> Session]
  BY DEF IInv, TypeInv
<1>4. Tokens = 1 .. n
  BY <1>3 DEF Tokens
<1>5. \A t \in Tokens : [sessions[t] EXCEPT !.revoked = TRUE] \in Session
                        /\ [sessions[t] EXCEPT !.revoked = TRUE].admin = sessions[t].admin
  BY <1>3, <1>4 DEF Session
<1>6. sessions' = [sessions EXCEPT ![request[a].token] =
                      [sessions[request[a].token] EXCEPT !.revoked = TRUE]]
  BY DEF RevokeAdminSession
<1>7. /\ sessions' \in [1 .. n -> Session] /\ Tokens' = Tokens
      /\ \A t \in Tokens : sessions'[t].admin = sessions[t].admin
  BY <1>2, <1>3, <1>4, <1>5, <1>6 DEF Tokens
<1>8. TypeInv'
  BY <1>1, <1>7 DEF IInv, TypeInv
<1>9. AccountInv'
  BY <1>1, <1>7 DEF IInv, AccountInv, SecretKept, SecondFactorProved, TwoFactor,
                    SuperAdminExists, Exists
<1>10. Grow
  BY <1>1, <1>7 DEF Grow, Exists
<1>11. \A b \in Admins : InFlight(b)'
  BY <1>1, <1>10, OthersStay
<1> QED BY <1>8, <1>9, <1>11 DEF IInv

-----------------------------------------------------------------------------
(* Steps outside the requests.                                             *)

LEMMA AllStay ==
    ASSUME IInv, Grow, UNCHANGED <<request, holds>>
    PROVE  \A b \in Admins : InFlight(b)'
<1> TAKE b \in Admins
<1>1. PICK r : r = request[b]
  OBVIOUS
<1>2. r = Idle \/ (r \in Request /\ Pending(b, r))
  BY <1>1 DEF IInv, InFlight
<1>3. r = Idle \/ (r \in Request /\ Pending(b, r)')
  BY <1>2, PendingStays
<1> QED BY <1>1, <1>3 DEF InFlight

LEMMA OutsideInv ==
    ASSUME IInv, Tick \/ \E b \in Admins : DisableAdmin(b) \/ RevokeAllAdminSessions(b)
    PROVE  IInv'
<1>1. CASE Tick
  <2>1. now' \in 0 .. MaxTime
    BY <1>1, TimesAssumption DEF Tick, IInv, TypeInv
  <2>2. UNCHANGED <<accounts, sessions, holds, cookie, request, ops>>
    BY <1>1 DEF Tick, Tables
  <2>3. TypeInv'
    BY <2>1, <2>2 DEF IInv, TypeInv, Tokens
  <2>4. AccountInv'
    BY <2>2 DEF IInv, AccountInv, SecretKept, SecondFactorProved, TwoFactor, SuperAdminExists,
                Exists, Tokens
  <2>5. Grow
    BY <2>2 DEF Grow, Exists, Tokens
  <2> QED BY <2>2, <2>3, <2>4, <2>5, AllStay DEF IInv
<1>2. ASSUME NEW b \in Admins, DisableAdmin(b) PROVE IInv'
  <2> DEFINE new == [accounts[b] EXCEPT !.disabled = TRUE]
  <2>1. /\ Exists(b) /\ accounts' = [accounts EXCEPT ![b] = new]
        /\ UNCHANGED <<now, sessions, holds, cookie, request, ops>>
    BY <1>2 DEF DisableAdmin, Exists
  <2>2. accounts \in [Admins -> Account \cup {None}] /\ accounts[b] \in Account
    BY <2>1 DEF IInv, TypeInv, Exists
  <2>3. /\ new \in Account /\ new.secret = accounts[b].secret
        /\ new.role = accounts[b].role /\ new.enabled = accounts[b].enabled
    BY <2>2 DEF Account
  <2> HIDE DEF new
  <2>4. new # None
    BY <2>3, NoneIsNothing
  <2>5. /\ accounts' \in [Admins -> Account \cup {None}]
        /\ accounts'[b] = new /\ \A c \in Admins \ {b} : accounts'[c] = accounts[c]
    BY <2>1, <2>2, <2>3
  <2>6. TypeInv'
    BY <2>1, <2>5 DEF IInv, TypeInv, Tokens
  <2>7. \A c \in Admins :
           /\ Exists(c)' <=> Exists(c)
           /\ Exists(c) => /\ accounts'[c].secret = accounts[c].secret
                           /\ accounts'[c].role = accounts[c].role
                           /\ accounts'[c].enabled <=> accounts[c].enabled
    BY <2>1, <2>3, <2>4, <2>5 DEF Exists
  <2>8. AccountInv'
    <3>1. \A t \in Tokens : sessions[t] \in Session
      BY DEF IInv, TypeInv, Tokens
    <3>2. \A t \in Tokens : sessions[t].admin \in Admins
      BY <3>1 DEF Session
    <3>3. TwoFactor'
      BY <2>1, <2>7, <3>2 DEF IInv, AccountInv, TwoFactor, Tokens
    <3>4. SecretKept' /\ SecondFactorProved' /\ SuperAdminExists'
      BY <2>1, <2>7
      DEF IInv, AccountInv, SecretKept, SecondFactorProved, SuperAdminExists, Exists
    <3> QED BY <3>3, <3>4 DEF AccountInv
  <2>9. Grow
    BY <2>1, <2>7 DEF Grow, Tokens
  <2> QED BY <2>1, <2>6, <2>8, <2>9, AllStay DEF IInv
<1>3. ASSUME NEW b \in Admins, RevokeAllAdminSessions(b) PROVE IInv'
  <2>1. UNCHANGED <<now, accounts, holds, cookie, request, ops>>
    BY <1>3 DEF RevokeAllAdminSessions
  <2>2. PICK n \in Nat : sessions \in [1 .. n -> Session]
    BY DEF IInv, TypeInv
  <2>3. Tokens = 1 .. n
    BY <2>2 DEF Tokens
  <2>4. \A t \in Tokens : /\ [sessions[t] EXCEPT !.revoked = TRUE] \in Session
                          /\ [sessions[t] EXCEPT !.revoked = TRUE].admin = sessions[t].admin
    BY <2>2, <2>3 DEF Session
  <2>5. /\ sessions' \in [1 .. n -> Session] /\ Tokens' = Tokens
        /\ \A t \in Tokens : sessions'[t].admin = sessions[t].admin
    BY <1>3, <2>2, <2>3, <2>4 DEF RevokeAllAdminSessions, Tokens
  <2>6. TypeInv'
    BY <2>1, <2>5 DEF IInv, TypeInv
  <2>7. AccountInv'
    BY <2>1, <2>5 DEF IInv, AccountInv, SecretKept, SecondFactorProved, TwoFactor,
                      SuperAdminExists, Exists
  <2>8. Grow
    BY <2>1, <2>5 DEF Grow, Exists
  <2> QED BY <2>1, <2>6, <2>7, <2>8, AllStay DEF IInv
<1> QED BY <1>1, <1>2, <1>3

-----------------------------------------------------------------------------
LEMMA NextInv == IInv /\ [Next]_vars => IInv'
<1> SUFFICES ASSUME IInv, [Next]_vars PROVE IInv'
  OBVIOUS
<1>1. CASE Next
  BY <1>1, BeginInv, CountAdminsInv, CreateAdminAccountInv, CreateAdminInv, ReadForConfirmInv,
     SetAdminTOTPInv, AdminLoginInv, CreateAdminSessionInv, TouchAndRecordInv, LookupInv,
     AdmittedInv, RevokeAdminSessionInv, AnswerInv, OutsideInv DEF Next
<1>2. CASE UNCHANGED vars
  <2>1. UNCHANGED <<now, accounts, sessions, holds, request, cookie, ops>>
    BY <1>2 DEF vars
  <2>2. TypeInv' /\ AccountInv'
    BY <2>1 DEF IInv, TypeInv, AccountInv, SecretKept, SecondFactorProved, TwoFactor,
                SuperAdminExists, Exists, Tokens
  <2>3. Grow
    BY <2>1 DEF Grow, Exists, Tokens
  <2> QED BY <2>1, <2>2, <2>3, AllStay DEF IInv
<1> QED BY <1>1, <1>2

LEMMA IInvSound == IInv => EnrolmentSound
<1> SUFFICES ASSUME IInv PROVE EnrolmentSound
  OBVIOUS
<1>1. PICK n \in Nat : sessions \in [1 .. n -> Session]
  BY DEF IInv, TypeInv
<1>2. Tokens = 1 .. n /\ Cardinality(Tokens) = n
  BY <1>1, FS_Interval DEF Tokens
<1>3. \A t \in Tokens : sessions[t] \in Session
  BY <1>1, <1>2
<1>4. \A t \in Tokens : sessions[t].expires \in AdminSessionTTL .. MaxTime + AdminSessionTTL
  BY <1>3 DEF Session
<1>5. TypeOK
  BY <1>2, <1>4 DEF TypeOK, IInv, TypeInv, AccountInv, TwoFactor, SecretKept, Exists
<1> QED BY <1>5 DEF EnrolmentSound, IInv, AccountInv, TwoFactor, SessionsAreTwoFactor

(* Whatever commands and sign-ins run side by side, for any number of       *)
(* administrators: a super_admin comes first, a second factor is enabled    *)
(* only for somebody whose authenticator has the account's secret, and a    *)
(* session belongs to an account whose second factor is enabled             *)
(* (cmd/umaas/admin.go, auth/admin.go).                                     *)
THEOREM EnrolmentProved == Spec => []EnrolmentSound
  BY InitInv, NextInv, IInvSound, PTL DEF Spec

-----------------------------------------------------------------------------
(* What a request that was admitted may rely on, and the audit of sign-ins. *)

Recorded(t) ==
    \/ [action |-> "admin.login", admin |-> sessions[t].admin, op |-> sessions[t].op] \in audit
    \/ sessions[t].op \in unaudited

(* The request r knows the sessions and accounts that were dead when it    *)
(* arrived, they still are, and a sign-in knows the session it opened.     *)
Know(r) ==
    /\ \A t \in r.dead : t \in Tokens /\ Dead(t)
    /\ \A b \in r.gone : Exists(b) /\ accounts[b].disabled
    /\ r.step = "admitted" =>
         /\ r.token \in Tokens /\ r.token \notin r.dead
         /\ sessions[r.token].admin \notin r.gone
    /\ r.op = "login" /\ r.step \in {"touch", "audit", "lookup", "admitted"} =>
         /\ r.token \in Tokens
         /\ sessions[r.token].admin = r.account /\ sessions[r.token].op = r.id
    /\ r.op = "login" /\ r.step \in {"lookup", "admitted"} => Recorded(r.token)

LoginsOpened ==
    \A e \in audit : e.action = "admin.login" =>
        \E t \in Tokens : sessions[t].admin = e.admin /\ sessions[t].op = e.op

KInv ==
    /\ \A a \in Admins : request[a] = Idle \/ Know(request[a])
    /\ \A a \in Admins : cookie[a] # None => cookie[a] \in Tokens /\ Recorded(cookie[a])
    /\ LoginsOpened

(* Nothing dead comes back, and no record and no session is taken away.    *)
Wear ==
    /\ Tokens \subseteq Tokens'
    /\ \A t \in Tokens : /\ sessions'[t].admin = sessions[t].admin
                         /\ sessions'[t].op = sessions[t].op
                         /\ Dead(t) => Dead(t)'
    /\ \A b \in Admins : Exists(b) /\ accounts[b].disabled => Exists(b)' /\ accounts'[b].disabled
    /\ audit \subseteq audit' /\ unaudited \subseteq unaudited'

LEMMA RecordedStays == ASSUME Wear, NEW t \in Tokens, Recorded(t) PROVE Recorded(t)'
  BY DEF Wear, Recorded

LEMMA KnowStays ==
    ASSUME Wear, NEW r \in Request, Know(r)
    PROVE  Know(r)'
<1>1. r.gone \subseteq Admins
  BY DEF Request
<1>2. \A t \in r.dead : t \in Tokens' /\ Dead(t)'
  BY DEF Wear, Know
<1>3. \A b \in r.gone : Exists(b)' /\ accounts'[b].disabled
  BY <1>1 DEF Wear, Know
<1>4. r.step = "admitted" =>
         /\ r.token \in Tokens' /\ r.token \notin r.dead
         /\ sessions'[r.token].admin \notin r.gone
  BY DEF Wear, Know
<1>5. r.op = "login" /\ r.step \in {"touch", "audit", "lookup", "admitted"} =>
         /\ r.token \in Tokens'
         /\ sessions'[r.token].admin = r.account /\ sessions'[r.token].op = r.id
  BY DEF Wear, Know
<1>6. r.op = "login" /\ r.step \in {"lookup", "admitted"} => Recorded(r.token)'
  BY RecordedStays DEF Know
<1> QED BY <1>2, <1>3, <1>4, <1>5, <1>6 DEF Know

LEMMA TokensTyped ==
    ASSUME IInv
    PROVE  \A t \in Tokens : /\ t \in Nat /\ sessions[t] \in Session
                             /\ sessions[t].admin \in Admins /\ Exists(sessions[t].admin)
                             /\ accounts[sessions[t].admin] \in Account
<1>1. \A t \in Tokens : t \in Nat /\ sessions[t] \in Session
  BY DEF IInv, TypeInv, Tokens
<1>2. \A t \in Tokens : sessions[t].admin \in Admins
  BY <1>1 DEF Session
<1> QED BY <1>1, <1>2 DEF IInv, TypeInv, AccountInv, TwoFactor, Exists

(* Steps that leave the tables of sessions and accounts and the clock.     *)
LEMMA WearQuiet ==
    ASSUME UNCHANGED <<now, accounts, sessions>>, audit \subseteq audit',
           unaudited \subseteq unaudited'
    PROVE  Wear
  BY DEF Wear, Tokens, Dead, Exists

LEMMA WearAccounts ==
    ASSUME IInv, UNCHANGED <<now, sessions, audit, unaudited>>, NEW b \in Admins, NEW row \in Account,
           accounts' = [accounts EXCEPT ![b] = row],
           Exists(b) /\ accounts[b].disabled => row.disabled
    PROVE  Wear
<1>1. row # None
  BY NoneIsNothing
<1>2. \A c \in Admins : accounts'[c] = IF c = b THEN row ELSE accounts[c]
  BY DEF IInv, TypeInv
<1> QED BY <1>1, <1>2, TokensTyped DEF Wear, Tokens, Dead, Exists

LEMMA WearAlways ==
    ASSUME IInv, [Next]_vars
    PROVE  Wear
<1>1. CASE UNCHANGED vars
  BY <1>1, WearQuiet DEF vars
<1>2. ASSUME NEW a \in Admins, NEW action, NEW admin, Record(a, action, admin)
      PROVE  audit \subseteq audit' /\ unaudited \subseteq unaudited'
  BY <1>2 DEF Record
<1>3. ASSUME NEW a \in Admins,
             \/ \E role \in Roles : Create(a, role)
             \/ \E b \in Admins, code \in Codes(a) :
                   adminConfirmTOTP(a, b, code) \/ adminLogin(a, b, code)
             \/ \E write \in BOOLEAN : Serve(a, write)
             \/ adminLogout(a)
      PROVE  Wear
  BY <1>3, WearQuiet DEF Create, adminConfirmTOTP, adminLogin, Serve, adminLogout, Begin
<1>4. ASSUME NEW a \in Admins,
             \/ CountAdmins(a) \/ ReadForConfirm(a) \/ AdminLogin(a) \/ TouchAdminActivity(a)
             \/ FinishLogin(a) \/ RequireAdmin(a) \/ Admitted(a) \/ Fail(a)
      PROVE  Wear
  BY <1>4, WearQuiet
  DEF CountAdmins, ReadForConfirm, AdminLogin, TouchAdminActivity, FinishLogin, RequireAdmin,
      Admitted, Fail, Tables
<1>5. ASSUME NEW a \in Admins,
             CreateAdmin(a) \/ ConfirmAdminTOTP(a) \/ auditAdminLoginFailure(a) \/ RecordLogin(a)
      PROVE  Wear
  BY <1>2, <1>5, WearQuiet DEF CreateAdmin, ConfirmAdminTOTP, auditAdminLoginFailure, RecordLogin, Tables
<1>6. ASSUME NEW a \in Admins, CreateAdminAccount(a) PROVE Wear
  <2>1. UNCHANGED <<now, sessions, audit, unaudited>>
    BY <1>6 DEF CreateAdminAccount
  <2>2. CASE accounts[a] # None
    BY <1>6, <2>1, <2>2, WearQuiet DEF CreateAdminAccount
  <2>3. CASE accounts[a] = None
    <3>1. PICK row : row = [role |-> request[a].row, secret |-> request[a].id,
                            enabled |-> FALSE, disabled |-> FALSE]
      OBVIOUS
    <3>2. accounts' = [accounts EXCEPT ![a] = row]
      BY <1>6, <2>3, <3>1 DEF CreateAdminAccount
    <3>3. request[a].row \in Roles /\ request[a].id \in Secrets
      <4>1. request[a].op = "create"
        BY <1>6 DEF CreateAdminAccount, At
      <4> QED BY <4>1, Admin DEF Pending, Request
    <3>4. row \in Account
      BY <3>1, <3>3 DEF Account
    <3> QED BY <2>1, <2>3, <3>2, <3>4, WearAccounts DEF Exists
  <2> QED BY <2>2, <2>3
<1>7. ASSUME NEW a \in Admins, SetAdminTOTP(a) PROVE Wear
  <2>1. PICK q \in Request : q = request[a] /\ Pending(a, q) /\ q.op = "confirm" /\ q.step = "set"
    BY <1>7, Admin DEF SetAdminTOTP, At
  <2>2. q.account = a /\ Exists(a) /\ q.row \in Account /\ accounts[a] \in Account
    BY <2>1 DEF Pending, IInv, TypeInv, Exists
  <2>3. PICK s \in Secrets : s = q.row.secret
    BY <2>2 DEF Account
  <2>4. PICK row : row = [accounts[a] EXCEPT !.secret = s, !.enabled = TRUE]
    OBVIOUS
  <2>0. row \in Account /\ row.disabled = accounts[a].disabled
    BY <2>2, <2>3, <2>4 DEF Account
  <2>5. accounts' = [accounts EXCEPT ![a] = row]
    BY <1>7, <2>1, <2>2, <2>3, <2>4 DEF SetAdminTOTP, IInv, TypeInv
  <2>6. UNCHANGED <<now, sessions, audit, unaudited>>
    BY <1>7 DEF SetAdminTOTP
  <2> QED BY <2>0, <2>5, <2>6, WearAccounts
<1>8. ASSUME NEW b \in Admins, DisableAdmin(b) PROVE Wear
  <2>1. accounts[b] \in Account
    BY <1>8 DEF DisableAdmin, IInv, TypeInv
  <2>0. PICK row : row = [accounts[b] EXCEPT !.disabled = TRUE]
    OBVIOUS
  <2>2. row \in Account /\ row.disabled = TRUE
    BY <2>0, <2>1 DEF Account
  <2>3. accounts' = [accounts EXCEPT ![b] = row]
    BY <1>8, <2>0 DEF DisableAdmin, IInv, TypeInv
  <2> QED BY <1>8, <2>2, <2>3, WearAccounts DEF DisableAdmin
<1>9. CASE Tick
  <2>1. now' > now /\ now \in Nat /\ now' \in Nat
    BY <1>9, TimesAssumption DEF Tick, IInv, TypeInv
  <2>2. \A t \in Tokens : sessions[t].expires \in Nat
    BY TokensTyped, TimesAssumption DEF Session
  <2> QED BY <1>9, <2>1, <2>2 DEF Tick, Tables, Wear, Tokens, Dead, Exists
<1>10. ASSUME NEW a \in Admins, CreateAdminSession(a) PROVE Wear
  BY <1>10 DEF CreateAdminSession, Wear, Tokens, Dead, Exists
<1>11. ASSUME NEW a \in Admins, RevokeAdminSession(a) PROVE Wear
  BY <1>11, TokensTyped DEF RevokeAdminSession, Wear, Tokens, Dead, Exists, Session
<1>12. ASSUME NEW b \in Admins, RevokeAllAdminSessions(b) PROVE Wear
  BY <1>12, TokensTyped DEF RevokeAllAdminSessions, Wear, Tokens, Dead, Exists, Session
<1> QED BY <1>1, <1>3, <1>4, <1>5, <1>6, <1>7, <1>8, <1>9, <1>10, <1>11, <1>12 DEF Next

-----------------------------------------------------------------------------
(* One request goes on, and the records of the sign-ins are kept.          *)

Settled == Wear /\ LoginsOpened'

LEMMA LoginsStay ==
    ASSUME KInv, Wear, \A e \in audit' : e \in audit \/ e.action # "admin.login"
    PROVE  Settled
  BY DEF KInv, Wear, LoginsOpened, Settled

LEMMA CookiesStay ==
    ASSUME KInv, Wear, UNCHANGED cookie
    PROVE  \A a \in Admins : cookie'[a] # None => cookie'[a] \in Tokens' /\ Recorded(cookie[a])'
<1> TAKE a \in Admins
<1> HAVE cookie'[a] # None
<1>1. PICK t \in Tokens : t = cookie[a] /\ Recorded(t)
  BY DEF KInv
<1>2. Recorded(t)' /\ t \in Tokens'
  BY <1>1, RecordedStays DEF Wear
<1> QED BY <1>1, <1>2

LEMMA OneKnows ==
    ASSUME IInv, KInv, Settled, NEW a \in Admins, NEW r, request' = [request EXCEPT ![a] = r],
           r = Idle \/ Know(r)'
    PROVE  \A b \in Admins : request'[b] = Idle \/ Know(request[b])'
<1> TAKE b \in Admins
<1>1. PICK p : p = request'[b]
  OBVIOUS
<1>2. CASE b = a
  <2>1. p = r
    BY <1>1, <1>2 DEF IInv, TypeInv
  <2> QED BY <1>1, <2>1
<1>3. CASE b # a
  <2>1. p = request[b] /\ (p = Idle \/ p \in Request)
    BY <1>1, <1>3 DEF IInv, TypeInv, InFlight
  <2>2. p = Idle \/ Know(p)
    BY <2>1 DEF KInv
  <2>3. p = Idle \/ Know(p)'
    BY <2>1, <2>2, KnowStays DEF Settled
  <2> QED BY <1>1, <2>3
<1> QED BY <1>2, <1>3

LEMMA OneGoesOn ==
    ASSUME IInv, KInv, Settled, UNCHANGED cookie, NEW a \in Admins, NEW r,
           request' = [request EXCEPT ![a] = r], r = Idle \/ Know(r)'
    PROVE  KInv'
  BY OneKnows, CookiesStay DEF KInv, Settled

(* A request that is not a sign-in past its session, and not admitted.     *)
Early(r) ==
    /\ r.step # "admitted"
    /\ r.op = "login" => r.step \notin {"touch", "audit", "lookup"}

(* Where it comes from does not matter as long as it knows of the dead.    *)
LEMMA EarlyKnows ==
    ASSUME Wear, NEW q \in Request, Know(q), NEW r, Early(r), r.dead = q.dead, r.gone = q.gone
    PROVE  Know(r)'
<1>1. q.gone \subseteq Admins
  BY DEF Request
<1>2. \A t \in r.dead : t \in Tokens' /\ Dead(t)'
  BY DEF Wear, Know
<1>3. \A b \in r.gone : Exists(b)' /\ accounts'[b].disabled
  BY <1>1 DEF Wear, Know
<1> QED BY <1>2, <1>3 DEF Know, Early

LEMMA ArrivesKnowing ==
    ASSUME IInv, KInv, Wear, NEW a \in Admins,
           \/ \E role \in Roles : Create(a, role)
           \/ \E b \in Admins, code \in Codes(a) :
                 adminConfirmTOTP(a, b, code) \/ adminLogin(a, b, code)
           \/ \E write \in BOOLEAN : Serve(a, write)
           \/ adminLogout(a)
    PROVE  KInv'
<1> DEFINE dead == {t \in Tokens : Dead(t)}
           gone == {b \in Admins : accounts[b] # None /\ accounts[b].disabled}
<1>0. PICK D, G : D = dead /\ G = gone
  OBVIOUS
<1>1. \E r : Begin(a, r) /\ Early(r) /\ r.dead = D /\ r.gone = G
  <2>1. \A o, st : New(o, st) =
           [op |-> o, step |-> st, account |-> None, token |-> None, row |-> None,
            code |-> None, write |-> FALSE, id |-> ops, dead |-> D, gone |-> G]
    BY <1>0 DEF New
  <2> HIDE DEF dead, gone
  <2>2. ASSUME NEW role, Create(a, role)
        PROVE  \E r : Begin(a, r) /\ Early(r) /\ r.dead = D /\ r.gone = G
    <3>1. PICK n : n = New("create", "count")
      OBVIOUS
    <3>2. PICK r : r = [n EXCEPT !.row = role]
      OBVIOUS
    <3>3. Early(r) /\ r.dead = D /\ r.gone = G
      BY <2>1, <3>1, <3>2 DEF Early
    <3> QED BY <2>2, <3>1, <3>2, <3>3 DEF Create
  <2>3. ASSUME NEW b, NEW code, NEW o \in {"confirm", "login"},
               Begin(a, [New(o, "find") EXCEPT !.account = b, !.code = code])
        PROVE  \E r : Begin(a, r) /\ Early(r) /\ r.dead = D /\ r.gone = G
    <3>1. PICK n : n = New(o, "find")
      OBVIOUS
    <3>2. PICK r : r = [n EXCEPT !.account = b, !.code = code]
      OBVIOUS
    <3>3. Early(r) /\ r.dead = D /\ r.gone = G
      BY <2>1, <3>1, <3>2 DEF Early
    <3> QED BY <2>3, <3>1, <3>2, <3>3
  <2>4. ASSUME NEW write, Serve(a, write)
        PROVE  \E r : Begin(a, r) /\ Early(r) /\ r.dead = D /\ r.gone = G
    <3>1. PICK n : n = New("serve", "lookup")
      OBVIOUS
    <3>2. PICK r : r = [n EXCEPT !.token = cookie[a], !.write = write]
      OBVIOUS
    <3>3. Early(r) /\ r.dead = D /\ r.gone = G
      BY <2>1, <3>1, <3>2 DEF Early
    <3> QED BY <2>4, <3>1, <3>2, <3>3 DEF Serve
  <2>5. ASSUME adminLogout(a)
        PROVE  \E r : Begin(a, r) /\ Early(r) /\ r.dead = D /\ r.gone = G
    <3>1. PICK n : n = New("logout", "revoke")
      OBVIOUS
    <3>2. PICK r : r = [n EXCEPT !.token = cookie[a]]
      OBVIOUS
    <3>3. Early(r) /\ r.dead = D /\ r.gone = G
      BY <2>1, <3>1, <3>2 DEF Early
    <3> QED BY <2>5, <3>1, <3>2, <3>3 DEF adminLogout
  <2> QED BY <2>2, <2>3, <2>4, <2>5 DEF adminConfirmTOTP, adminLogin
<1>2. PICK r : Begin(a, r) /\ Early(r) /\ r.dead = dead /\ r.gone = gone
  BY <1>0, <1>1
<1>3. UNCHANGED <<now, accounts, sessions, audit, cookie, unaudited>>
      /\ request' = [request EXCEPT ![a] = r]
  BY <1>2 DEF Begin
<1>4. Know(r)'
  BY <1>2, <1>3 DEF Know, Early, Dead, Tokens, Exists
<1>5. Settled
  BY <1>3, LoginsStay
<1> QED BY <1>3, <1>4, <1>5, OneGoesOn

(* Requests that stay early, or are over.                                  *)
LEMMA EarlyMoves ==
    ASSUME IInv, KInv, Settled, UNCHANGED cookie, NEW a \in Admins,
           request[a] \in Request, request[a] # Idle,
           NEW r, request' = [request EXCEPT ![a] = r],
           r = Idle \/ (Early(r) /\ r.dead = request[a].dead /\ r.gone = request[a].gone)
    PROVE  KInv'
<1>1. Know(request[a])
  BY DEF KInv
<1>2. r = Idle \/ Know(r)'
  BY <1>1, EarlyKnows DEF Settled
<1> QED BY <1>2, OneGoesOn

LEMMA IdleHasOp == \A q : q.op # "idle" => q # Idle
  BY DEF Idle

LEMMA AnswerKnows ==
    ASSUME IInv, KInv, Settled, UNCHANGED cookie, NEW a \in Admins, Answer(a)
    PROVE  KInv'
  BY OneGoesOn DEF Answer

(* A request that only changes its step.                                   *)
LEMMA MoveKnows ==
    ASSUME IInv, KInv, Settled, UNCHANGED cookie, NEW a \in Admins, NEW step \in Steps,
           Move(a, step), request[a].op # "idle",
           step # "admitted",
           request[a].op = "login" => step \notin {"touch", "audit", "lookup"}
    PROVE  KInv'
<1>1. request[a] \in Request /\ request[a] # Idle
  BY Admin, IdleHasOp
<1>2. PICK r : r = [request[a] EXCEPT !.step = step]
  OBVIOUS
<1>3. r.step = step /\ r.op = request[a].op /\ r.dead = request[a].dead /\ r.gone = request[a].gone
  BY <1>1, <1>2 DEF Request
<1>4. request' = [request EXCEPT ![a] = r]
  BY <1>2, MoveIsNested
<1> QED BY <1>1, <1>3, <1>4, EarlyMoves DEF Early

LEMMA EarlyStepsKnow ==
    ASSUME IInv, KInv, Wear, NEW a \in Admins,
           \/ CountAdmins(a) \/ CreateAdminAccount(a) \/ CreateAdmin(a)
           \/ ReadForConfirm(a) \/ SetAdminTOTP(a) \/ ConfirmAdminTOTP(a)
           \/ AdminLogin(a) \/ auditAdminLoginFailure(a)
    PROVE  KInv'
<1>1. \A e \in audit' : e \in audit \/ e.action # "admin.login"
  <2>1. ASSUME NEW action, NEW admin, Record(a, action, admin), action # "admin.login"
        PROVE  \A e \in audit' : e \in audit \/ e.action # "admin.login"
    BY <2>1 DEF Record
  <2>2. CASE UNCHANGED audit
    BY <2>2
  <2> QED BY <2>1, <2>2
      DEF CountAdmins, CreateAdminAccount, CreateAdmin, ReadForConfirm, SetAdminTOTP,
          ConfirmAdminTOTP, AdminLogin, auditAdminLoginFailure
<1>2. Settled
  BY <1>1, LoginsStay
<1>3. UNCHANGED cookie
  BY DEF CountAdmins, CreateAdminAccount, CreateAdmin, ReadForConfirm, SetAdminTOTP,
         ConfirmAdminTOTP, AdminLogin, auditAdminLoginFailure, Tables
<1>4. request[a].op # "idle"
  BY DEF CountAdmins, CreateAdminAccount, CreateAdmin, ReadForConfirm, SetAdminTOTP,
         ConfirmAdminTOTP, AdminLogin, auditAdminLoginFailure, At
<1>5. PICK q \in Request : q = request[a] /\ q # Idle
  BY <1>4, Admin, IdleHasOp
<1>6. CASE Answer(a)
  BY <1>2, <1>3, <1>6, AnswerKnows
<1>7. CASE q.op # "login" /\ \E step \in {"insert", "audit"} : Move(a, step)
  BY <1>2, <1>3, <1>4, <1>5, <1>7, MoveKnows, Literals
<1>8. CASE ReadForConfirm(a) \/ AdminLogin(a)
  <2>1. PICK r : request' = [request EXCEPT ![a] = r]
                 /\ (r = Idle \/ (Early(r) /\ r.dead = q.dead /\ r.gone = q.gone))
    <3>1. CASE ReadForConfirm(a)
      <4>1. PICK row, step : row = accounts[q.account] /\ step = "set"
        OBVIOUS
      <4>2. PICK r : r = [q EXCEPT !.step = step, !.row = row]
        OBVIOUS
      <4>3. r.step = step /\ r.op = q.op /\ r.dead = q.dead /\ r.gone = q.gone
        BY <4>2 DEF Request
      <4>4. q.op = "confirm"
        BY <1>5, <3>1 DEF ReadForConfirm, At
      <4> QED BY <1>5, <3>1, <4>1, <4>2, <4>3, <4>4 DEF ReadForConfirm, Early
    <3>2. CASE AdminLogin(a)
      <4>1. PICK row, failure, session :
                 row = accounts[q.account] /\ failure = "audit failure" /\ session = "session"
        OBVIOUS
      <4>2. PICK r : r = [q EXCEPT !.step = failure]
        OBVIOUS
      <4>3. PICK s : s = [q EXCEPT !.step = session, !.row = row]
        OBVIOUS
      <4>4. r.step = failure /\ r.dead = q.dead /\ r.gone = q.gone
        BY <4>2 DEF Request
      <4>5. s.step = session /\ s.dead = q.dead /\ s.gone = q.gone
        BY <4>3 DEF Request
      <4>6. \/ request' = [request EXCEPT ![a] = Idle]
            \/ request' = [request EXCEPT ![a] = r]
            \/ request' = [request EXCEPT ![a] = s]
        BY <1>5, <3>2, <4>1, <4>2, <4>3 DEF AdminLogin
      <4>7. Early(r) /\ Early(s)
        BY <4>1, <4>4, <4>5 DEF Early
      <4> QED BY <4>4, <4>5, <4>6, <4>7
    <3> QED BY <1>8, <3>1, <3>2
  <2> QED BY <1>2, <1>3, <1>5, <2>1, EarlyMoves
<1> QED BY <1>5, <1>6, <1>7, <1>8
    DEF CountAdmins, CreateAdminAccount, CreateAdmin, SetAdminTOTP, ConfirmAdminTOTP,
        auditAdminLoginFailure, At

-----------------------------------------------------------------------------
(* The last steps of a sign-in, and admission.                             *)

LEMMA CreateAdminSessionKnows ==
    ASSUME IInv, KInv, Wear, NEW a \in Admins, CreateAdminSession(a)
    PROVE  KInv'
<1>1. PICK q \in Request : /\ q = request[a] /\ q.op = "login" /\ q.step = "session"
                           /\ q # Idle /\ Know(q) /\ q.account \in Admins
  <2>1. request[a].op = "login" /\ request[a].step = "session"
    BY DEF CreateAdminSession, At
  <2> QED BY <2>1, Admin, IdleHasOp DEF KInv, Pending
<1>2. PICK n \in Nat : sessions \in [1 .. n -> Session]
  BY DEF IInv, TypeInv
<1>3. Tokens = 1 .. n /\ Cardinality(Tokens) = n
  BY <1>2, FS_Interval DEF Tokens
<1>0. PICK t \in Nat : t = n + 1
  BY <1>2
<1>4. PICK step \in Steps : t = n + 1 /\ step = "touch"
  BY <1>0, Literals
<1>5. /\ t \in Tokens' /\ sessions'[t].admin = q.account /\ sessions'[t].op = q.id
  <2>1. sessions' = [u \in Tokens \cup {t} |->
              IF u \in Tokens THEN sessions[u]
              ELSE [admin |-> q.account, expires |-> now + AdminSessionTTL,
                    revoked |-> FALSE, op |-> q.id]]
    BY <1>1, <1>3, <1>4 DEF CreateAdminSession
  <2>2. t \notin Tokens
    BY <1>3, <1>4
  <2> QED BY <2>1, <2>2 DEF Tokens
<1>6. PICK p : p = [q EXCEPT !.step = step]
  OBVIOUS
<1>7. PICK r : r = [p EXCEPT !.token = t]
  OBVIOUS
<1>8. /\ r.step = step /\ r.token = t /\ r.op = "login" /\ r.account = q.account /\ r.id = q.id
      /\ r.dead = q.dead /\ r.gone = q.gone
  <2>1. /\ p \in Request /\ p.step = step /\ p.op = "login" /\ p.account = q.account
        /\ p.id = q.id /\ p.dead = q.dead /\ p.gone = q.gone
    BY <1>1, <1>6 DEF Request
  <2> QED BY <1>7, <2>1 DEF Request
<1>9. request' = [request EXCEPT ![a] = r]
  BY <1>1, <1>3, <1>4, <1>6, <1>7 DEF CreateAdminSession, IInv, TypeInv
<1>10. UNCHANGED <<audit, unaudited, cookie>> /\ Settled
  BY LoginsStay DEF CreateAdminSession
<1>11. Know(r)'
  <2>1. q.gone \subseteq Admins
    BY DEF Request
  <2>2. \A u \in r.dead : u \in Tokens' /\ Dead(u)'
    BY <1>1, <1>8 DEF Wear, Know
  <2>3. \A b \in r.gone : Exists(b)' /\ accounts'[b].disabled
    BY <1>1, <1>8, <2>1 DEF Wear, Know
  <2> QED BY <1>4, <1>5, <1>8, <2>2, <2>3 DEF Know
<1> QED BY <1>9, <1>10, <1>11, OneGoesOn

(* The step of a sign-in that has its session.                             *)
LEMMA LoginMoves ==
    ASSUME IInv, KInv, Settled, UNCHANGED cookie, NEW a \in Admins,
           NEW q, q = request[a], q.op = "login", q.step \in {"touch", "audit"},
           NEW step \in {"audit", "lookup"}, Move(a, step),
           step = "lookup" => Recorded(q.token)'
    PROVE  KInv'
<1>1. q \in Request /\ q # Idle /\ Know(q)
  BY Admin, IdleHasOp DEF KInv
<1>2. PICK r : r = [q EXCEPT !.step = step]
  OBVIOUS
<1>3. /\ r.step = step /\ r.op = q.op /\ r.token = q.token /\ r.account = q.account
      /\ r.id = q.id /\ r.dead = q.dead /\ r.gone = q.gone
  BY <1>2 DEF Request
<1>4. request' = [request EXCEPT ![a] = r]
  BY <1>1, <1>2, MoveIsNested
<1>5. q.token \in Tokens /\ sessions[q.token].admin = q.account /\ sessions[q.token].op = q.id
  BY <1>1 DEF Know
<1>6. Know(r)'
  <2>1. Know(q)'
    BY <1>1, KnowStays DEF Settled
  <2>2. step = "lookup" => Recorded(r.token)'
    BY <1>1, <1>3
  <2> QED BY <1>1, <1>3, <1>5, <2>1, <2>2 DEF Know, Settled, Wear
<1> QED BY <1>4, <1>6, OneGoesOn

LEMMA TouchKnows ==
    ASSUME IInv, KInv, Wear, NEW a \in Admins, TouchAdminActivity(a)
    PROVE  KInv'
<1>1. PICK step \in {"audit", "lookup"} : step = "audit"
  OBVIOUS
<1>2. /\ request[a].op = "login" /\ request[a].step = "touch" /\ Move(a, step)
      /\ UNCHANGED <<audit, cookie>>
  BY <1>1 DEF TouchAdminActivity, At, Tables
<1>3. Settled
  BY <1>2, LoginsStay
<1>4. PICK q : q = request[a]
  OBVIOUS
<1> QED BY <1>1, <1>2, <1>3, <1>4, LoginMoves

LEMMA RecordLoginKnows ==
    ASSUME IInv, KInv, Wear, NEW a \in Admins, RecordLogin(a)
    PROVE  KInv'
<1>1. PICK step \in {"audit", "lookup"} : step = "lookup"
  OBVIOUS
<1>2. /\ request[a].op = "login" /\ request[a].step = "audit" /\ Move(a, step)
      /\ UNCHANGED <<sessions, cookie>>
  BY <1>1 DEF RecordLogin, At, Tables
<1>3. PICK q \in Request : q = request[a] /\ q # Idle /\ Know(q)
  BY <1>2, Admin, IdleHasOp DEF KInv
<1>4. q.token \in Tokens /\ sessions[q.token].admin = q.account /\ sessions[q.token].op = q.id
  BY <1>2, <1>3 DEF Know
<1>5. Tokens' = Tokens
  BY <1>2 DEF Tokens
<1>6. PICK e : e = [action |-> "admin.login", admin |-> q.account, op |-> q.id]
  OBVIOUS
<1>7. \/ audit' = audit \cup {e} /\ UNCHANGED unaudited
      \/ unaudited' = unaudited \cup {q.id} /\ UNCHANGED audit
  BY <1>3, <1>6 DEF RecordLogin, Record
<1>8. Recorded(q.token)'
  BY <1>2, <1>4, <1>6, <1>7 DEF Recorded
<1>9. LoginsOpened'
  <2> SUFFICES ASSUME NEW f \in audit', f.action = "admin.login"
               PROVE  \E t \in Tokens : sessions[t].admin = f.admin /\ sessions[t].op = f.op
    BY <1>2, <1>5 DEF LoginsOpened
  <2>1. CASE f \in audit
    BY <2>1 DEF KInv, LoginsOpened
  <2>2. CASE f = e
    BY <1>4, <1>6, <2>2
  <2> QED BY <1>7, <2>1, <2>2
<1> QED BY <1>1, <1>2, <1>3, <1>8, <1>9, LoginMoves DEF Settled

(* What the lookup admits was neither dead nor of a disabled account.      *)
LEMMA LookupKnows ==
    ASSUME IInv, KInv, Wear, NEW a \in Admins, FinishLogin(a) \/ RequireAdmin(a)
    PROVE  KInv'
<1>1. UNCHANGED <<now, accounts, sessions, cookie, audit, unaudited>>
  BY DEF FinishLogin, RequireAdmin, Tables
<1>2. Settled
  BY <1>1, LoginsStay
<1>3. /\ request[a].op \in {"login", "serve"} /\ request[a].step = "lookup"
  BY DEF FinishLogin, RequireAdmin, At
<1>4. PICK q \in Request : q = request[a] /\ q # Idle /\ Know(q) /\ Pending(a, q)
  BY <1>3, Admin, IdleHasOp DEF KInv
<1>5. q.token \in Tokens
  BY <1>3, <1>4 DEF Pending
<1>6. PICK step \in Steps : step = "admitted"
  BY Literals
<1>7. PICK r : r = [q EXCEPT !.step = step]
  OBVIOUS
<1>8. /\ r.step = step /\ r.op = q.op /\ r.token = q.token /\ r.account = q.account
      /\ r.id = q.id /\ r.dead = q.dead /\ r.gone = q.gone
  BY <1>7 DEF Request
<1>9. \/ request' = [request EXCEPT ![a] = Idle]
      \/ request' = [request EXCEPT ![a] = r] /\ LookupAdminSession(q.token)
  BY <1>4, <1>6, <1>7 DEF FinishLogin, RequireAdmin, IInv, TypeInv
<1>10. CASE request' = [request EXCEPT ![a] = r] /\ LookupAdminSession(q.token)
  <2>1. ~Dead(q.token)
    <3>1. sessions[q.token].expires \in Nat /\ now \in Nat
      BY <1>5, TokensTyped, TimesAssumption DEF Session, IInv, TypeInv
    <3> QED BY <1>10, <3>1 DEF LookupAdminSession, Dead
  <2>2. q.token \notin q.dead
    BY <1>4, <2>1 DEF Know
  <2>3. sessions[q.token].admin \notin q.gone
    BY <1>4, <1>10 DEF Know, LookupAdminSession
  <2>4. Know(r)
    BY <1>3, <1>4, <1>5, <1>6, <1>8, <2>2, <2>3 DEF Know
  <2>5. Know(r)'
    BY <1>1, <2>4 DEF Know, Tokens, Dead, Exists, Recorded
  <2> QED BY <1>1, <1>2, <1>10, <2>5, OneGoesOn
<1> QED BY <1>1, <1>2, <1>9, <1>10, OneGoesOn

LEMMA AdmittedKnows ==
    ASSUME IInv, KInv, Wear, NEW a \in Admins, Admitted(a)
    PROVE  KInv'
<1>1. /\ request[a] # Idle /\ request[a].step = "admitted"
      /\ request' = [request EXCEPT ![a] = Idle]
      /\ UNCHANGED <<sessions, audit, unaudited>>
      /\ cookie' = IF request[a].op = "login" THEN [cookie EXCEPT ![a] = request[a].token]
                   ELSE cookie
  BY DEF Admitted, Answer
<1>2. Settled
  BY <1>1, LoginsStay
<1>3. request[a].op = "login" => request[a].token \in Tokens /\ Recorded(request[a].token)
  BY <1>1 DEF KInv, Know
<1>4. \A b \in Admins : cookie'[b] # None => cookie'[b] \in Tokens /\ Recorded(cookie'[b])
  BY <1>1, <1>3 DEF KInv, IInv, TypeInv
<1>5. \A b \in Admins : cookie'[b] # None => cookie'[b] \in Tokens' /\ Recorded(cookie[b])'
  BY <1>1, <1>4 DEF Recorded, Tokens
<1>6. \A b \in Admins : request'[b] = Idle \/ Know(request[b])'
  BY <1>1, <1>2, OneKnows
<1> QED BY <1>2, <1>5, <1>6 DEF KInv, Settled

LEMMA RevokeKnows ==
    ASSUME IInv, KInv, Wear, NEW a \in Admins, RevokeAdminSession(a)
    PROVE  KInv'
<1>1. /\ request' = [request EXCEPT ![a] = Idle] /\ UNCHANGED audit
      /\ cookie' = [cookie EXCEPT ![a] = None]
  BY DEF RevokeAdminSession, Answer
<1>2. Settled
  BY <1>1, LoginsStay
<1>3. ASSUME NEW b \in Admins, cookie'[b] # None
      PROVE  cookie'[b] \in Tokens' /\ Recorded(cookie[b])'
  <2>1. cookie'[b] = cookie[b]
    BY <1>1, <1>3 DEF IInv, TypeInv
  <2>2. PICK t \in Tokens : t = cookie'[b] /\ Recorded(t)
    BY <1>3, <2>1 DEF KInv
  <2>3. Recorded(t)' /\ t \in Tokens'
    BY <2>2, RecordedStays DEF Wear
  <2> QED BY <2>2, <2>3
<1>4. \A b \in Admins : request'[b] = Idle \/ Know(request[b])'
  BY <1>1, <1>2, OneKnows
<1> QED BY <1>2, <1>3, <1>4 DEF KInv, Settled

(* Steps of nobody.                                                        *)
LEMMA NobodyKnows ==
    ASSUME IInv, KInv, Wear, UNCHANGED <<request, cookie, audit>>
    PROVE  KInv'
<1>1. Settled
  BY LoginsStay
<1>2. ASSUME NEW b \in Admins PROVE request'[b] = Idle \/ Know(request[b])'
  <2>1. PICK p : p = request'[b] /\ p = request[b] /\ (p = Idle \/ p \in Request)
    BY DEF IInv, InFlight
  <2>2. p = Idle \/ Know(p)
    BY <2>1 DEF KInv
  <2>3. p = Idle \/ Know(p)'
    BY <2>1, <2>2, KnowStays
  <2> QED BY <2>1, <2>3
<1> QED BY <1>1, <1>2, CookiesStay DEF KInv, Settled

LEMMA InitKnows == Init => KInv
<1> SUFFICES ASSUME Init PROVE KInv
  OBVIOUS
<1>1. \A a \in Admins : request[a] = Idle /\ cookie[a] = None
  BY DEF Init
<1>2. LoginsOpened
  BY DEF Init, LoginsOpened
<1> QED BY <1>1, <1>2 DEF KInv

LEMMA NextKnows == IInv /\ KInv /\ [Next]_vars => KInv'
<1> SUFFICES ASSUME IInv, KInv, [Next]_vars PROVE KInv'
  OBVIOUS
<1>1. Wear
  BY WearAlways
<1>2. CASE UNCHANGED vars
  BY <1>1, <1>2, NobodyKnows DEF vars
<1>3. CASE Tick \/ \E b \in Admins : DisableAdmin(b) \/ RevokeAllAdminSessions(b)
  BY <1>1, <1>3, NobodyKnows DEF Tick, DisableAdmin, RevokeAllAdminSessions, Tables
<1>4. ASSUME NEW a \in Admins, Fail(a) PROVE KInv'
  <2>1. UNCHANGED <<audit, cookie>> /\ Answer(a)
    BY <1>4 DEF Fail, Tables
  <2>2. Settled
    BY <1>1, <2>1, LoginsStay
  <2> QED BY <2>1, <2>2, AnswerKnows
<1> QED BY <1>1, <1>2, <1>3, <1>4, ArrivesKnowing, EarlyStepsKnow, CreateAdminSessionKnows, TouchKnows,
           RecordLoginKnows, LookupKnows, AdmittedKnows, RevokeKnows DEF Next

LEMMA KInvSound == KInv => NoneAfterDisabled /\ SignInsAudited
  BY DEF KInv, Know, Recorded, LoginsOpened, NoneAfterDisabled, SignInsAudited

(* Nothing is served and no cookie handed out for a session that was       *)
(* revoked or expired when the request arrived, or for an account disabled *)
(* by then (auth/admin.go: LookupAdminSession).                            *)
THEOREM AdmissionProved == Spec => []NoneAfterDisabled
  BY InitInv, InitKnows, NextInv, NextKnows, KInvSound, PTL DEF Spec

(* Every session that a browser holds was recorded when it was opened,     *)
(* unless that very append failed, and every recorded sign-in opened one   *)
(* (auth/admin.go: AdminLogin).                                            *)
THEOREM SignInsProved == Spec => []SignInsAudited
  BY InitInv, InitKnows, NextInv, NextKnows, KInvSound, PTL DEF Spec

-----------------------------------------------------------------------------
(* The windows of codes.                                                   *)

LEMMA Quotient ==
    ASSUME NEW p \in Nat \ {0}, NEW t \in Int
    PROVE  t \div p \in Int /\ p * (t \div p) <= t /\ t < p * (t \div p) + p
  OBVIOUS

LEMMA OnlyQuotient ==
    ASSUME NEW p \in Nat \ {0}, NEW t \in Int, NEW q \in Int, p * q <= t, t < p * q + p
    PROVE  t \div p = q
<1>1. PICK d \in Int : d = t \div p /\ p * d <= t /\ t < p * d + p
  BY Quotient
<1>2. ASSUME NEW x \in Int, NEW y \in Int, x < y PROVE p * x + p <= p * y
  <2>1. PICK k \in Nat : y = x + 1 + k
    <3>1. y - x - 1 \in Nat
      BY <1>2
    <3> QED BY <3>1
  <2>2. p * y = p * x + p + p * k
    BY <2>1
  <2>3. p * k >= 0
    OBVIOUS
  <2> QED BY <2>2, <2>3
<1>3. ~(d < q) /\ ~(q < d)
  BY <1>1, <1>2
<1> QED BY <1>1, <1>3

(* A window later is the next window, a window earlier the one before.     *)
LEMMA NextWindow ==
    ASSUME NEW t \in Int
    PROVE  Counter(t + Period) = Counter(t) + 1 /\ Counter(t - Period) = Counter(t) - 1
<1>1. PICK d \in Int : d = t \div Period /\ Period * d <= t /\ t < Period * d + Period
  BY Quotient, TimesAssumption
<1>2. Period * (d + 1) = Period * d + Period /\ Period * (d - 1) = Period * d - Period
  BY <1>1, TimesAssumption
<1>3. (t + Period) \div Period = d + 1
  BY <1>1, <1>2, OnlyQuotient, TimesAssumption
<1>4. (t - Period) \div Period = d - 1
  BY <1>1, <1>2, OnlyQuotient, TimesAssumption
<1> QED BY <1>1, <1>3, <1>4 DEF Counter

LEMMA SameWindow ==
    ASSUME NEW t \in Int, NEW u \in Int, Counter(t) = Counter(u)
    PROVE  t - u < Period /\ u - t < Period
<1>1. PICK d \in Int : d = t \div Period /\ Period * d <= t /\ t < Period * d + Period
  BY Quotient, TimesAssumption
<1>2. Period * d <= u /\ u < Period * d + Period
  BY <1>1, Quotient, TimesAssumption DEF Counter
<1> QED BY <1>1, <1>2, TimesAssumption

Age(t, u) == IF u >= t THEN u - t ELSE t - u

(* A code that is accepted is less than two windows old or ahead.          *)
LEMMA AcceptedIsRecent ==
    ASSUME NEW secret, NEW code, NEW u \in Nat, code.at \in Nat, VerifyTOTP(secret, code, u)
    PROVE  Age(code.at, u) < 2 * Period
<1>1. PICK at \in Nat : at = code.at
  OBVIOUS
<1>2. PICK skew \in -1 .. 1 : Counter(at) = Counter(u + skew * Period)
  BY <1>1 DEF VerifyTOTP
<1>3. PICK w \in {u - Period, u, u + Period} : Counter(at) = Counter(w)
  <2>1. u + skew * Period \in {u - Period, u, u + Period}
    <3>1. skew = -1 \/ skew = 0 \/ skew = 1
      OBVIOUS
    <3> QED BY <3>1, TimesAssumption
  <2> QED BY <1>2, <2>1
<1>4. w \in Int /\ at - w < Period /\ w - at < Period
  BY <1>3, SameWindow, TimesAssumption
<1> QED BY <1>1, <1>3, <1>4, TimesAssumption DEF Age

(* A code of the right secret that is refused is more than a window off.   *)
LEMMA RefusedIsOld ==
    ASSUME NEW secret, NEW code, NEW u \in Nat, code.at \in Nat, code.secret = secret,
           ~VerifyTOTP(secret, code, u)
    PROVE  Age(code.at, u) > Period
<1>1. PICK at \in Nat : at = code.at
  OBVIOUS
<1>2. \A skew \in -1 .. 1 : Counter(at) # Counter(u + skew * Period)
  BY <1>1 DEF VerifyTOTP
<1>3. /\ Counter(at) # Counter(u) /\ Counter(at) # Counter(u) + 1
      /\ Counter(at) # Counter(u) - 1
  <2>1. PICK m \in -1 .. 1, z \in -1 .. 1, o \in -1 .. 1 : m = -1 /\ z = 0 /\ o = 1
    OBVIOUS
  <2>2. /\ Counter(at) # Counter(u + m * Period)
        /\ Counter(at) # Counter(u + z * Period)
        /\ Counter(at) # Counter(u + o * Period)
    BY <1>2
  <2>3. u + m * Period = u - Period /\ u + z * Period = u /\ u + o * Period = u + Period
    BY <2>1, TimesAssumption
  <2>4. /\ Counter(at) # Counter(u - Period) /\ Counter(at) # Counter(u)
        /\ Counter(at) # Counter(u + Period)
    BY <2>2, <2>3
  <2> QED BY <2>4, NextWindow
<1>4. PICK c \in Int : c = Counter(at) /\ Period * c <= at /\ at < Period * c + Period
  BY Quotient, TimesAssumption DEF Counter
<1>5. PICK d \in Int : d = Counter(u) /\ Period * d <= u /\ u < Period * d + Period
  BY Quotient, TimesAssumption DEF Counter
<1>6. ASSUME NEW x \in Int, NEW y \in Int, x + 1 < y
      PROVE  Period * x + Period + Period <= Period * y
  <2>1. PICK k \in Nat : y = x + 2 + k
    <3>1. y - x - 2 \in Nat
      BY <1>6
    <3> QED BY <3>1
  <2>2. Period * y = Period * x + Period + Period + Period * k
    BY <2>1, TimesAssumption
  <2>3. Period * k >= 0
    BY TimesAssumption
  <2> QED BY <2>2, <2>3, TimesAssumption
<1>7. c + 1 < d \/ d + 1 < c
  BY <1>3, <1>4, <1>5
<1>8. CASE c + 1 < d
  <2>1. Period * c + Period + Period <= Period * d
    BY <1>6, <1>8
  <2> QED BY <1>1, <1>4, <1>5, <2>1, TimesAssumption DEF Age
<1>9. CASE d + 1 < c
  <2>1. Period * d + Period + Period <= Period * c
    BY <1>6, <1>9
  <2> QED BY <1>1, <1>4, <1>5, <2>1, TimesAssumption DEF Age
<1> QED BY <1>7, <1>8, <1>9

(* A step of b moves no request but its own.                               *)
Acts(a, b) == a # b => request'[a] = request[a]

(* A sign-in that has found its account is decided by AdminLogin alone.    *)
LEMMA DecidedByAdminLogin ==
    ASSUME IInv, [Next]_vars, NEW a \in Admins, At(a, "login", "find"),
           NEW step \in {"session", "audit failure"}, At(a, "login", step)'
    PROVE  AdminLogin(a)
<1>1. DOMAIN request = Admins /\ Idle.op = "idle"
  BY DEF IInv, TypeInv, Idle
<1>2. /\ request[a].op = "login" /\ request[a].step = "find"
      /\ request'[a].op = "login" /\ request'[a].step = step
  BY DEF At
<1>3. PICK b \in Admins :
         \/ \E role \in Roles : Create(b, role)
         \/ \E c \in Admins, code \in Codes(b) :
             adminConfirmTOTP(b, c, code) \/ adminLogin(b, c, code)
         \/ \E write \in BOOLEAN : Serve(b, write)
         \/ adminLogout(b)
         \/ CountAdmins(b) \/ CreateAdminAccount(b) \/ CreateAdmin(b)
         \/ ReadForConfirm(b) \/ SetAdminTOTP(b) \/ ConfirmAdminTOTP(b)
         \/ AdminLogin(b) \/ auditAdminLoginFailure(b) \/ CreateAdminSession(b)
         \/ TouchAdminActivity(b) \/ RecordLogin(b) \/ FinishLogin(b)
         \/ RequireAdmin(b) \/ Admitted(b) \/ RevokeAdminSession(b)
         \/ Fail(b)
  BY <1>2 DEF Next, vars, Tick, DisableAdmin, RevokeAllAdminSessions
<1>4. CASE ~AdminLogin(b)
  <2>1. Acts(a, b)
    BY <1>1, <1>3, <1>4
    DEF Acts, Create, adminConfirmTOTP, adminLogin, Serve, adminLogout, Begin, CountAdmins,
        CreateAdminAccount, CreateAdmin, ReadForConfirm, SetAdminTOTP,
       ConfirmAdminTOTP, auditAdminLoginFailure, CreateAdminSession, TouchAdminActivity,
       RecordLogin, FinishLogin, RequireAdmin, Admitted, RevokeAdminSession, Fail, Answer, Move
  <2>2. b = a
    BY <1>2, <2>1 DEF Acts
  <2>3. request'[a] = Idle
    BY <1>1, <1>2, <1>3, <1>4, <2>2
    DEF Create, adminConfirmTOTP, adminLogin, Serve, adminLogout, Begin,
       CountAdmins, CreateAdminAccount, CreateAdmin, ReadForConfirm, SetAdminTOTP,
       ConfirmAdminTOTP, auditAdminLoginFailure, CreateAdminSession, TouchAdminActivity,
       RecordLogin, FinishLogin, RequireAdmin, Admitted, RevokeAdminSession, Fail, Answer, At
  <2> QED BY <1>1, <1>2, <2>3
<1>5. CASE AdminLogin(b)
  <2>1. Acts(a, b)
    BY <1>1, <1>5 DEF Acts, AdminLogin
  <2> QED BY <1>2, <1>5, <2>1 DEF Acts
<1> QED BY <1>4, <1>5

(* One step of one sign-in: CodeWindow without the temporal operator.      *)
InWindow(a) ==
    At(a, "login", "find") =>
        LET r == request[a]
            age == IF now >= r.code.at THEN now - r.code.at ELSE r.code.at - now
        IN  /\ At(a, "login", "session")' => age < 2 * Period
            /\ (At(a, "login", "audit failure")' /\ a = r.account /\ ~accounts[a].disabled
                    /\ r.code.secret = accounts[a].secret) => age > Period

LEMMA StepInWindow == IInv /\ [Next]_vars => \A a \in Admins : InWindow(a)
<1> SUFFICES ASSUME IInv, [Next]_vars, NEW a \in Admins, At(a, "login", "find")
             PROVE  InWindow(a)
  BY DEF InWindow
<1>1. /\ request[a].op = "login" /\ request[a].step = "find"
      /\ DOMAIN request = Admins /\ Idle.op = "idle"
  BY DEF At, IInv, TypeInv, Idle
<1>2. PICK r \in Request : r = request[a] /\ r.code.at \in Nat /\ now \in Nat
  <2>1. request[a] \in Request /\ Pending(a, request[a])
    BY <1>1, Admin
  <2>2. request[a].code \in Code
    BY <1>1, <2>1 DEF Pending
  <2>3. request[a].code.at \in Nat
    BY <2>2 DEF Code
  <2> QED BY <2>1, <2>3 DEF IInv, TypeInv
<1>3. \A step \in Steps : [r EXCEPT !.step = step].step = step
  BY DEF Request
<1>4. /\ [r EXCEPT !.step = "session"].step = "session"
      /\ [r EXCEPT !.step = "audit failure"].step = "audit failure"
  BY <1>3 DEF Steps
<1>5. ASSUME At(a, "login", "session")' PROVE Age(r.code.at, now) < 2 * Period
  <2>1. AdminLogin(a)
    BY <1>5, DecidedByAdminLogin
  <2>2. VerifyTOTP(accounts[r.account].secret, r.code, now)
    BY <1>1, <1>2, <1>4, <1>5, <2>1 DEF AdminLogin, At
  <2> QED BY <1>2, <2>2, AcceptedIsRecent
<1>6. ASSUME At(a, "login", "audit failure")', a = r.account, ~accounts[a].disabled,
             r.code.secret = accounts[a].secret
      PROVE  Age(r.code.at, now) > Period
  <2>1. AdminLogin(a)
    BY <1>6, DecidedByAdminLogin
  <2>2. ~VerifyTOTP(accounts[a].secret, r.code, now)
    BY <1>1, <1>2, <1>4, <1>6, <2>1 DEF AdminLogin, At
  <2> QED BY <1>2, <1>6, <2>2, RefusedIsOld
<1> QED BY <1>2, <1>5, <1>6 DEF InWindow, Age

(* An administrator's code is good for less than two windows before and    *)
(* after the time it shows and always within one, whatever the length of a *)
(* window and however the statements of other requests fall between        *)
(* (auth/totp.go: VerifyTOTP; auth/admin.go: AdminLogin).                  *)
THEOREM CodeWindowProved == Spec => CodeWindow
<1>1. IInv /\ [Next]_vars => [\A a \in Admins : InWindow(a)]_vars
  BY StepInWindow
<1>2. CodeWindow <=> [][\A a \in Admins : InWindow(a)]_vars
  BY PTL DEF CodeWindow, InWindow
<1> QED BY <1>1, <1>2, InitInv, NextInv, PTL DEF Spec

=============================================================================
