--------------------------- MODULE PriceVersions ---------------------------
(***************************************************************************)
(* The versioned price list of the gateway: table model_prices, the SQL    *)
(* function pricing_effective_version that reads it, PricingRepo's         *)
(* PublishPrice transaction that writes it, and the two readers that use   *)
(* it for one request, at reception and at billing.                        *)
(*                                                                         *)
(* A row is identified by the unique index (billing_model, scope_kind,     *)
(* scope_id, effective_from); the first three columns are one Subject, and *)
(* the rates are whatever that row says.  Publishing runs as a READ        *)
(* COMMITTED transaction of two statements: an UPDATE closes the open      *)
(* versions of the subject, an INSERT adds the new one.                    *)
(***************************************************************************)
EXTENDS Naturals, Sequences

CONSTANTS
  Subjects,     (* (billing_model, scope_kind, scope_id) triples            *)
  Keys,         (* pricing.Key: the layers of Subjects, strongest first     *)
  Publishers,   (* concurrent admin requests that publish a price           *)
  Requests,     (* requests that are received and later billed              *)
  Explicit,     (* the effective_from values an admin may ask for           *)
  MaxTime,      (* bound on the clock                                       *)
  Null          (* SQL NULL: an open effective_to, or "not priced"          *)

Time == 0 .. MaxTime

ASSUME TimeAssumption == MaxTime \in Nat /\ Explicit \subseteq Time
ASSUME NullAssumption == Null \notin Nat /\ Null \notin Subjects \X Nat
ASSUME SubjectsAssumption == Subjects # {}
ASSUME KeysAssumption == Keys \subseteq Seq(Subjects) /\ Keys # {}

VARIABLES
  versions,   (* committed rows of model_prices                             *)
  tx,         (* the transaction each publisher has open                    *)
  req,        (* requests: when received and what they were billed under    *)
  clock

vars == <<versions, tx, req, clock>>

Row == [subject : Subjects, from : Time, to : Time \cup {Null}]

TxState == {"idle", "scanned", "closed", "inserted"}

Tx == [pc : TxState, subject : Subjects, from : Time,
       scanned : SUBSET Row, closing : SUBSET Row]

(* The primary identity of a row, as the unique index has it. *)
VersionId(v) == <<v.subject, v.from>>

-----------------------------------------------------------------------------
(* Reading: pricing_effective_version and ResolvePriceVersion.             *)

Covers(v, at) == v.from <= at /\ (v.to = Null \/ v.to > at)

(* WHERE subject AND covers ORDER BY effective_from DESC LIMIT 1. *)
Effective(s, at) ==
  LET covering == {v \in versions : v.subject = s /\ Covers(v, at)}
  IN  {v \in covering : \A w \in covering : w.from <= v.from}

(* coalesce over the layers of a key: the first layer with a version wins  *)
(* as a whole.                                                             *)
ResolveVersion(key, at) ==
  LET priced == {i \in DOMAIN key : Effective(key[i], at) # {}}
      first  == CHOOSE i \in priced : \A j \in priced : i <= j
  IN  IF priced = {} THEN Null
      ELSE VersionId(CHOOSE v \in Effective(key[first], at) : TRUE)

-----------------------------------------------------------------------------
(* Writing: PublishPrice.                                                  *)

Idle == [pc |-> "idle", subject |-> CHOOSE s \in Subjects : TRUE, from |-> 0,
         scanned |-> {}, closing |-> {}]

Init ==
  /\ versions = {}
  /\ tx = [p \in Publishers |-> Idle]
  /\ \E k \in Keys :
       req = [r \in Requests |-> [state |-> "new", key |-> k, received |-> 0,
                                  accepted |-> Null, billed |-> Null]]
  /\ clock = 0

(* The WHERE clause of ClosePriceVersions. *)
Matches(v, s, f) == v.subject = s /\ v.to = Null /\ v.from <= f

(* The transaction begins and its UPDATE takes the statement snapshot. An   *)
(* effective_from the admin leaves out is the current time.                *)
Begin(p, s, f) ==
  /\ tx[p].pc = "idle"
  /\ tx' = [tx EXCEPT ![p] = [pc |-> "scanned", subject |-> s, from |-> f,
                              scanned |-> {v \in versions : Matches(v, s, f)},
                              closing |-> {}]]
  /\ UNCHANGED <<versions, req, clock>>

LockedByOther(p, v) ==
  \E q \in Publishers \ {p} :
    \E w \in tx[q].closing : VersionId(w) = VersionId(v)

(* The UPDATE takes the rows of its snapshot one by one, in any order. It  *)
(* waits for the writer of a row and rechecks its WHERE clause on what     *)
(* that writer committed: a row closed in the meantime is skipped, a row   *)
(* inserted in the meantime is not seen.                                   *)
Lock(p, v) ==
  /\ tx[p].pc = "scanned"
  /\ v \in tx[p].scanned
  /\ ~ LockedByOther(p, v)
  /\ tx' = [tx EXCEPT ![p].scanned = @ \ {v},
                      ![p].closing = @ \cup ({v} \cap versions)]
  /\ UNCHANGED <<versions, req, clock>>

(* Mutant: no transaction; the UPDATE commits on its own. *)
Close_Autocommit(p) ==
  /\ tx[p].pc = "scanned"
  /\ tx[p].scanned = {}
  /\ tx' = [tx EXCEPT ![p].pc = "closed", ![p].closing = {}]
  /\ versions' = {IF v \in tx[p].closing THEN [v EXCEPT !.to = tx[p].from] ELSE v
                    : v \in versions}
  /\ UNCHANGED <<req, clock>>

(* The UPDATE ends; the rows stay locked until the transaction does. *)
Close(p) ==
  /\ tx[p].pc = "scanned"
  /\ tx[p].scanned = {}
  /\ tx' = [tx EXCEPT ![p].pc = "closed"]
  /\ UNCHANGED <<versions, req, clock>>

(* Whatever row each of these waits for, another of them has locked it. *)
WaitAmong(S) ==
  \A q \in S :
    /\ tx[q].pc = "scanned" /\ tx[q].scanned # {}
    /\ \A v \in tx[q].scanned :
         \E r \in S \ {q} : \E w \in tx[r].closing : VersionId(w) = VersionId(v)

(* They wait in a circle, and nobody who only waits for the circle is of them. *)
WaitInCircle(S) ==
  WaitAmong(S) /\ \A R \in SUBSET S : WaitAmong(R) => R \in {{}, S}

(* PostgreSQL finds the circle and makes the UPDATE of one of them fail,   *)
(* which rolls its transaction back.                                       *)
Deadlock(p) ==
  /\ \E S \in SUBSET Publishers : p \in S /\ WaitInCircle(S)
  /\ tx' = [tx EXCEPT ![p] = Idle]
  /\ UNCHANGED <<versions, req, clock>>

Taken(p) == \E v \in versions : VersionId(v) = <<tx[p].subject, tx[p].from>>

(* The INSERT: it waits for an uncommitted row of the same key. *)
Insert(p) ==
  /\ tx[p].pc = "closed"
  /\ ~ Taken(p)
  /\ \A q \in Publishers \ {p} :
       tx[q].pc = "inserted"
         => <<tx[q].subject, tx[q].from>> # <<tx[p].subject, tx[p].from>>
  /\ tx' = [tx EXCEPT ![p].pc = "inserted"]
  /\ UNCHANGED <<versions, req, clock>>

(* Mutant: the conflict is never reported and the handler hangs. *)
Conflict_Ignored(p) == FALSE /\ UNCHANGED vars

(* price_version_exists: the unique index refuses, the closing is undone.  *)
Conflict(p) ==
  /\ tx[p].pc = "closed"
  /\ Taken(p)
  /\ tx' = [tx EXCEPT ![p] = Idle]
  /\ UNCHANGED <<versions, req, clock>>

(* Mutant: the old versions end now instead of where the new one begins. *)
ClosedAt_Now(p) == clock

(* effective_to of the versions a publish closes. *)
ClosedAt(p) == tx[p].from

(* Mutant: the versions it closes are replaced instead of kept. *)
Commit_InPlace(p) ==
  /\ tx[p].pc = "inserted"
  /\ versions' = {v \in versions : v \notin tx[p].closing}
                 \cup {[subject |-> tx[p].subject, from |-> tx[p].from, to |-> Null]}
  /\ tx' = [tx EXCEPT ![p] = Idle]
  /\ UNCHANGED <<req, clock>>

Commit(p) ==
  /\ tx[p].pc = "inserted"
  /\ versions' = {IF v \in tx[p].closing THEN [v EXCEPT !.to = ClosedAt(p)] ELSE v
                    : v \in versions}
                 \cup {[subject |-> tx[p].subject, from |-> tx[p].from, to |-> Null]}
  /\ tx' = [tx EXCEPT ![p] = Idle]
  /\ UNCHANGED <<req, clock>>

(* Any other failure, such as the admin's request being cancelled. *)
Rollback(p) ==
  /\ tx[p].pc # "idle"
  /\ tx' = [tx EXCEPT ![p] = Idle]
  /\ UNCHANGED <<versions, req, clock>>

-----------------------------------------------------------------------------
(* Requests.                                                               *)

(* ServeHTTP notes received_at.  accepted is a history variable: the       *)
(* version that anyone who resolves the price at that moment is shown.     *)
Receive(r) ==
  /\ req[r].state = "new"
  /\ req' = [req EXCEPT ![r].state = "open", ![r].received = clock,
                        ![r].accepted = ResolveVersion(req[r].key, clock)]
  /\ UNCHANGED <<versions, tx, clock>>

(* Mutant: billing looks the price up at now() instead of received_at. *)
BilledAt_Now(r) == clock

BilledAt(r) == req[r].received

(* emitLog charges the version in force at received_at. *)
Bill(r) ==
  /\ req[r].state = "open"
  /\ req' = [req EXCEPT ![r].state = "billed",
                        ![r].billed = ResolveVersion(req[r].key, BilledAt(r))]
  /\ UNCHANGED <<versions, tx, clock>>

Tick ==
  /\ clock < MaxTime
  /\ clock' = clock + 1
  /\ UNCHANGED <<versions, tx, req>>

Next ==
  \/ \E p \in Publishers :
       \/ \E s \in Subjects, f \in Explicit \cup {clock} : Begin(p, s, f)
       \/ \E v \in tx[p].scanned : Lock(p, v)
       \/ Close(p)
       \/ Deadlock(p)
       \/ Insert(p)
       \/ Conflict(p)
       \/ Commit(p)
       \/ Rollback(p)
  \/ \E r \in Requests : Receive(r) \/ Bill(r)
  \/ Tick

(* The statements of a publish that its handler goes on to issue.          *)
Proceed(p) ==
  (\E v \in tx[p].scanned : Lock(p, v)) \/ Close(p) \/ Insert(p) \/ Conflict(p) \/ Commit(p)

(* A statement that can run does.  PostgreSQL queues lock waiters, so that *)
(* a statement that has to wait is not overtaken for ever, and fails one   *)
(* of those that wait in a circle, whichever.                              *)
Fairness ==
  /\ \A p \in Publishers : SF_vars(Proceed(p))
  /\ WF_vars(\E p \in Publishers : Deadlock(p))

Spec == Init /\ [][Next]_vars /\ Fairness

-----------------------------------------------------------------------------
(* Properties.                                                             *)

TypeOK ==
  /\ versions \subseteq Row
  /\ tx \in [Publishers -> Tx]
  /\ req \in [Requests -> [state : {"new", "open", "billed"}, key : Keys,
                            received : Time,
                            accepted : (Subjects \X Time) \cup {Null},
                            billed : (Subjects \X Time) \cup {Null}]]
  /\ clock \in Time

(* The latest version of a subject that has begun by `at', closed or not. *)
LatestStarted(s, at) ==
  LET started == {v \in versions : v.subject = s /\ v.from <= at}
  IN  {v \in started : \A w \in started : w.from <= v.from}

(* Whatever order prices are published in, backdated, future-dated or by    *)
(* two admins at once, a version ends exactly where a later version of the *)
(* same subject begins: closing a version never opens a gap.               *)
ClosedBySuccessor ==
  \A v \in versions :
    v.to # Null => /\ v.from < v.to
                   /\ \E w \in versions : w.subject = v.subject /\ w.from = v.to

(* Versions may overlap, but the overlap cannot be seen: at every instant  *)
(* pricing_effective_version answers the latest version that has begun, so *)
(* the end dates never decide a price.                                     *)
LatestStartedWins ==
  \A s \in Subjects, at \in Time : Effective(s, at) = LatestStarted(s, at)

(* No publish, concurrent publish, conflict or rollback leaves an instant  *)
(* that had a price without one: "a window in which no version is in       *)
(* force" never opens.                                                     *)
NeverUnpriced ==
  [][versions' # versions =>
       \A k \in Keys, at \in Time :
         ResolveVersion(k, at) # Null => ResolveVersion(k, at)' # Null]_vars

EffectiveIds(s, at) == {VersionId(v) : v \in Effective(s, at)}

(* A change of price reaches back no further than the effective_from of    *)
(* the version that a publish has just added.                              *)
NoChangeBeforeEffectiveFrom ==
  [][versions' # versions =>
       \A s \in Subjects, at \in Time :
         EffectiveIds(s, at)' # EffectiveIds(s, at) =>
           \E w \in versions' : /\ w.subject = s /\ w.from <= at
                              /\ \A v \in versions : VersionId(v) # VersionId(w)]_vars

(* A request is never billed under a version that begins after it was      *)
(* received, however long it runs and however prices change meanwhile; and *)
(* a request that had a price when it was received is not billed as free.  *)
NoRepricingMidRequest ==
  \A r \in Requests :
    req[r].state = "billed" =>
      /\ req[r].billed # Null => req[r].billed[2] <= req[r].received
      /\ req[r].accepted # Null => req[r].billed # Null

(* Every publish comes to an end: writers that wait for each other's rows, *)
(* in a circle too, and for each other's new keys never wait for ever.     *)
PublishEnds ==
  \A p \in Publishers : tx[p].pc # "idle" ~> tx[p].pc = "idle"

(* To a reader, locks, closings and rollbacks do not exist: the price list *)
(* is the PriceBook, to which a commit adds one version and no step does   *)
(* anything else.                                                          *)
Entry(v) == [subject |-> v.subject, from |-> v.from]

Book == INSTANCE PriceBook WITH
          Instants <- Time, book <- {Entry(v) : v \in versions}

ImplementsBook == Book!BookSpec

=============================================================================
