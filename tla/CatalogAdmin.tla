----------------------------- MODULE CatalogAdmin -----------------------------
(***************************************************************************)
(* The write side of the catalogue: admins edit models, publish prices and *)
(* publish or delist models, each operation a sequence of statements with  *)
(* no transaction around them.  The price list is a PriceBook, which       *)
(* PriceVersions implements; only the default scope is of interest here.   *)
(***************************************************************************)
EXTENDS PriceBook, Pricing

CONSTANTS
    Admins,   \* concurrent admin requests
    Models,   \* (provider, slug): a model is also the billing key of its public id
    Drafts,   \* those that exist to begin with, and
    FirstKey, \* what they are billed under
    Asked,    \* the operations that admins ask for
    Windows,  \* what model_stats may say of a model's last seven days
    MaxOps    \* bound on the operations begun

ASSUME ModelsAreKeys == Models \subseteq Subjects /\ Drafts \subseteq Models /\ FirstKey \in [Drafts -> Subjects]
ASSUME ClockAssumption == Instants \subseteq Nat /\ 0 \in Instants
ASSUME AdminsAssumption == IsFiniteSet(Admins)

VARIABLES
    models,   \* the table models
    cards,    \* the rates of every version in the book
    stats,    \* the window CountRecentCalls sums up, for each model
    audit,    \* audit_logs: how many entries a model has
    clock,
    op,       \* what each admin's handler is doing
    begun,    \* counts the operations, for MaxOps
    history   \* see History

vars == <<book, models, cards, stats, audit, clock, op, begun, history>>

Statuses == {"draft", "canary", "listed", "delisted"}
Callable == {"canary", "listed"}

Hostings == {"cloud", "self"}
Metadata == [hosting : Hostings, capabilities : SUBSET {"cache", "reasoning"}, billing : Subjects]
Row == [status : Statuses, canary : {None} \cup 1 .. 101, metadata : Metadata]

ASSUME NoneAssumption == None \notin Version \cup Subjects \cup Row \cup Asked

ASSUME AskedAssumption ==
    \A r \in Asked :
        /\ r.model \in Models
        /\ r.kind \in {"edit", "price", "publish", "delist"}
        /\ r.kind = "edit" => r.metadata \in Metadata
        /\ r.kind = "price" => r.from \in Instants \cup {None}
        /\ r.kind = "publish" => r.percent \in {None} \cup 1 .. 101

(* Only for the properties: under which billing key a model was published, *)
(* who has ever used a key, which models were edited after they were       *)
(* created, and which changes have not been, or were never, audited.       *)
History == [published : [Models -> Subjects \cup {None}],
            users     : [Subjects -> SUBSET Models],
            edited    : SUBSET Models,
            changes   : [Models -> Nat],
            lost      : [Models -> Nat]]

Idle == [pc |-> "idle", asked |-> None, row |-> None, price |-> None, window |-> None]

FirstMetadata(m) == [hosting |-> "cloud", capabilities |-> {"cache"}, billing |-> FirstKey[m]]

(* INSERT INTO models: a draft, whatever else is asked for.                *)
NewModel(metadata) == [status |-> "draft", canary |-> None, metadata |-> metadata]

StatsOK(s) == \A m \in Models : s[m] \in Windows[m]

Init ==
    /\ BookInit
    /\ models = [m \in Models |-> IF m \in Drafts THEN NewModel(FirstMetadata(m)) ELSE None]
    /\ cards = <<>>
    /\ stats \in {w \in [Models -> UNION {Windows[m] : m \in Models}] : StatsOK(w)}
    /\ audit = [m \in Models |-> 0]
    /\ clock = 0
    /\ op = [a \in Admins |-> Idle]
    /\ begun = 0
    /\ history = [published |-> [m \in Models |-> None],
                  users     |-> [s \in Subjects |-> {m \in Drafts : s \in {m, FirstKey[m]}}],
                  edited    |-> {},
                  changes   |-> [m \in Models |-> 0],
                  lost      |-> [m \in Models |-> 0]]

Target(a) == op[a].asked.model

-----------------------------------------------------------------------------
(* Resolving a price, now.                                                 *)

(* ResolvePriceVersion for a caller without plan or workspace price: the   *)
(* billing key's version, or else that of the model's public id.           *)
CurrentPrice(key, fallback) ==
    IF InForce(key, clock) # {} THEN CHOOSE v \in InForce(key, clock) : TRUE
    ELSE IF InForce(fallback, clock) # {} THEN CHOOSE v \in InForce(fallback, clock) : TRUE
    ELSE None

(* Mutant: the display shows the newest version, begun or not. *)
DisplayPrice_Newest(key) ==
    LET all == {v \in book : v.subject = key}
    IN  IF all = {} THEN None ELSE CHOOSE v \in all : \A w \in all : w.from <= v.from

(* The catalogue and the admin's list of models call                       *)
(* pricing_effective_version for the billing key and do not fall back.     *)
DisplayPrice(key) ==
    IF InForce(key, clock) # {} THEN CHOOSE v \in InForce(key, clock) : TRUE ELSE None

(* GetCallableModelByPath.                                                 *)
ResolveCallable(m) == models[m] # None /\ models[m].status \in Callable

(* The catalogue shows listed models only.                                 *)
OnTheWeb(m) == models[m] # None /\ models[m].status = "listed"

BilledPrice(m) == CurrentPrice(models[m].metadata.billing, m)

-----------------------------------------------------------------------------
(* Validation of a card for a model.                                       *)

(* ValidateInput: no upstream reference price is ever passed, and the      *)
(* thresholds of magnitude are not in question here.                       *)
Context(row, note, calls) ==
    [capabilities |-> row.metadata.capabilities, hosting |-> row.metadata.hosting,
     reference |-> 0, cheapest |-> 0, dearest |-> IntMax, recentCalls |-> calls, note |-> note]

(* margin: the projected revenue of the window, when there is one and it   *)
(* is known what it cost.                                                  *)
NegativeMargin(card, window) ==
    LET projected == Charge(Parsed(card),
                        [input |-> window.input, output |-> window.output, cache_read |-> 0,
                         cache_write |-> 0, reasoning |-> 0, ttl |-> None,
                         requests |-> window.calls]).total
    IN  /\ window.calls > 0 /\ window.cost > 0
        /\ projected \in Amount /\ projected < window.cost

Blocked(row, asked, window) ==
    Errors(Parsed(asked.card), Context(row, asked.note, window.calls)) # {}

NeedsConfirm(row, asked, window) ==
    \/ Warnings(Parsed(asked.card), Context(row, asked.note, window.calls)) # {}
    \/ NegativeMargin(asked.card, window)

-----------------------------------------------------------------------------
(* An operation begins, and reads the model it is about.                   *)

Goto(a, pc) == op' = [op EXCEPT ![a].pc = pc]

Return(a) == op' = [op EXCEPT ![a] = Idle]

(* The checks of Publish and PublishPrice that need no statement.          *)
ValidRequest(r) ==
    CASE r.kind = "publish" -> r.status \in Callable
      [] r.kind = "price" -> Parses(r.card)
      [] OTHER -> TRUE

Start(a, r) ==
    /\ op[a] = Idle /\ begun < MaxOps /\ ValidRequest(r)
    /\ begun' = begun + 1
    /\ op' = [op EXCEPT ![a] = [Idle EXCEPT !.pc = IF r.kind = "edit" THEN "write" ELSE "row",
                                            !.asked = r]]
    /\ UNCHANGED <<book, models, cards, stats, audit, clock, history>>

(* ModelByID is three statements: the row, its price now, its usage.       *)
ReadRow(a) ==
    /\ op[a].pc = "row" /\ models[Target(a)] # None
    /\ op' = [op EXCEPT ![a].pc = "price", ![a].row = models[Target(a)]]
    /\ UNCHANGED <<book, models, cards, stats, audit, clock, begun, history>>

ModelNotFound(a) ==
    /\ op[a].pc = "row" /\ models[Target(a)] = None
    /\ Return(a)
    /\ UNCHANGED <<book, models, cards, stats, audit, clock, begun, history>>

ReadPrice(a) ==
    /\ op[a].pc = "price"
    /\ op' = [op EXCEPT ![a].pc = IF op[a].asked.kind = "price" THEN "usage" ELSE "write",
                        ![a].price = CurrentPrice(op[a].row.metadata.billing, Target(a))]
    /\ UNCHANGED <<book, models, cards, stats, audit, clock, begun, history>>

(* RecentUsage, read once more by PreviewPrice.                            *)
ReadUsage(a) ==
    /\ op[a].pc = "usage"
    /\ op' = [op EXCEPT ![a].pc = "write", ![a].window = stats[Target(a)]]
    /\ UNCHANGED <<book, models, cards, stats, audit, clock, begun, history>>

-----------------------------------------------------------------------------
(* The statement that changes something.                                   *)

Writing(a, kind) == op[a].pc = "write" /\ op[a].asked.kind = kind

Changed(m) == [history EXCEPT !.changes[m] = @ + 1]

(* ON CONFLICT DO UPDATE: the status is not in its SET list.               *)
EditedRow(old, metadata) ==
    IF old = None THEN NewModel(metadata) ELSE [old EXCEPT !.metadata = metadata]

UpsertModel(a) ==
    LET m   == Target(a)
        new == EditedRow(models[m], op[a].asked.metadata)
    IN  /\ Writing(a, "edit")
        /\ models' = [models EXCEPT ![m] = new]
        /\ history' = [Changed(m) EXCEPT
                         !.edited = IF models[m] \in {None, new} THEN @ ELSE @ \cup {m},
                         !.users  = [s \in Subjects |->
                                        IF s \in {m, new.metadata.billing}
                                        THEN @[s] \cup {m} ELSE @[s]]]
        /\ Goto(a, "reread")
        /\ UNCHANGED <<book, cards, stats, audit, clock, begun>>

(* Mutant: any price will do, checked or not. *)
MayPublish_NoPriceCheck(a) == op[a].asked.status = "canary" => op[a].asked.percent \in 1 .. 100

(* What Publish asks of the model as it read it.                           *)
MayPublish(a) ==
    /\ op[a].asked.status = "canary" => op[a].asked.percent \in 1 .. 100
    /\ op[a].price # None
    /\ Errors(Parsed(cards[op[a].price]), Context(op[a].row, TRUE, 0)) = {}

SetStatus(a, status, percent) ==
    models' = [models EXCEPT ![Target(a)].status = status, ![Target(a)].canary = percent]

PublishModel(a) ==
    /\ Writing(a, "publish") /\ MayPublish(a)
    /\ SetStatus(a, op[a].asked.status, op[a].asked.percent)
    /\ history' = [Changed(Target(a)) EXCEPT !.published[Target(a)] =
                     IF op[a].price = None THEN None ELSE op[a].price.subject]
    /\ Goto(a, "reread")
    /\ UNCHANGED <<book, cards, stats, audit, clock, begun>>

(* Mutant: returns without a record. *)
Delist_Unrecorded(a) ==
    /\ Writing(a, "delist")
    /\ SetStatus(a, "delisted", None)
    /\ history' = Changed(Target(a))
    /\ Return(a)
    /\ UNCHANGED <<book, cards, stats, audit, clock, begun>>

(* Delist asks nothing of the status it read.                              *)
Delist(a) ==
    /\ Writing(a, "delist")
    /\ SetStatus(a, "delisted", None)
    /\ history' = Changed(Target(a))
    /\ Goto(a, "reread")
    /\ UNCHANGED <<book, cards, stats, audit, clock, begun>>

(* The version is published under the billing key as it was read.          *)
NewVersion(a) ==
    [subject |-> op[a].row.metadata.billing,
     from    |-> IF op[a].asked.from = None THEN clock ELSE op[a].asked.from]

MayPublishPrice(a) ==
    /\ ~Blocked(op[a].row, op[a].asked, op[a].window)
    /\ NeedsConfirm(op[a].row, op[a].asked, op[a].window) => op[a].asked.confirm
    /\ NewVersion(a) \notin book

PublishPrice(a) ==
    /\ Writing(a, "price") /\ MayPublishPrice(a)
    /\ Publish(NewVersion(a))
    /\ cards' = [v \in book' |-> IF v \in book THEN cards[v] ELSE op[a].asked.card]
    /\ history' = Changed(Target(a))
    /\ Goto(a, "record")
    /\ UNCHANGED <<models, stats, audit, clock, begun>>

(* A refusal: blocking issues, warnings not confirmed, a version that      *)
(* exists, a price that is missing or incomplete.                          *)
Refuse(a) ==
    /\ \/ Writing(a, "price") /\ ~MayPublishPrice(a)
       \/ Writing(a, "publish") /\ ~MayPublish(a)
    /\ Return(a)
    /\ UNCHANGED <<book, models, cards, stats, audit, clock, begun, history>>

(* SetStatus and UpsertModel read the model again for the answer.          *)
Reread(a) ==
    /\ op[a].pc = "reread"
    /\ Goto(a, "record")
    /\ UNCHANGED <<book, models, cards, stats, audit, clock, begun, history>>

(* record, after AppendActivity for a change that users are told of.       *)
Record(a) ==
    /\ op[a].pc = "record"
    /\ audit' = [audit EXCEPT ![Target(a)] = @ + 1]
    /\ Return(a)
    /\ UNCHANGED <<book, models, cards, stats, clock, begun, history>>

(* A statement fails, the request is cancelled or the process ends.  After *)
(* the change was made that means it is not audited: Publish and Delist    *)
(* return when the second reading fails, and record ignores its own error. *)
Fail(a) ==
    /\ op[a] # Idle
    /\ history' = IF op[a].pc \in {"reread", "record"}
                  THEN [history EXCEPT !.lost[Target(a)] = @ + 1] ELSE history
    /\ Return(a)
    /\ UNCHANGED <<book, models, cards, stats, audit, clock, begun>>

-----------------------------------------------------------------------------
(* The aggregation of usage, by a job outside this code.                   *)
UsageAggregated(m) ==
    /\ \E w \in Windows[m] : stats' = [stats EXCEPT ![m] = w]
    /\ UNCHANGED <<book, models, cards, audit, clock, op, begun, history>>

Tick ==
    /\ clock + 1 \in Instants
    /\ clock' = clock + 1
    /\ UNCHANGED <<book, models, cards, stats, audit, op, begun, history>>

Statement(a) ==
    \/ ReadRow(a) \/ ModelNotFound(a) \/ ReadPrice(a) \/ ReadUsage(a)
    \/ UpsertModel(a) \/ PublishModel(a) \/ Delist(a) \/ PublishPrice(a) \/ Refuse(a)
    \/ Reread(a) \/ Record(a) \/ Fail(a)

Next ==
    \/ \E a \in Admins : Statement(a) \/ \E r \in Asked : Start(a, r)
    \/ \E m \in Models : UsageAggregated(m)
    \/ Tick

Spec == Init /\ [][Next]_vars

-----------------------------------------------------------------------------
TypeOK ==
    /\ book \subseteq Version /\ DOMAIN cards = book
    /\ models \in [Models -> Row \cup {None}]
    /\ StatsOK(stats)
    /\ audit \in [Models -> Nat]
    /\ clock \in Instants
    /\ \A a \in Admins :
         /\ op[a].pc \in {"idle", "row", "price", "usage", "write", "reread", "record"}
         /\ op[a].asked \in Asked \cup {None}
         /\ op[a].row \in Row \cup {None}
         /\ op[a].price \in book \cup {None}
    /\ history.published \in [Models -> Subjects \cup {None}]
    /\ history.users \in [Subjects -> SUBSET Models]
    /\ history.edited \subseteq Models

(* What can be called was priced (service.go:395-430): the key under which *)
(* a model that can be called was published has a price in force, whatever *)
(* was published, edited, delisted or lost since, and however long the     *)
(* check was ago when the status was set.                                  *)
PublishedKeyPriced ==
    \A m \in Models :
        ResolveCallable(m) =>
            history.published[m] # None /\ InForce(history.published[m], clock) # {}

(* The price of a model that can be called passes the checks of Publish    *)
(* (service.go:428-437) at any later time and under any later version, as  *)
(* long as the model is not edited and no other model uses its key.        *)
CompleteIfUntouched ==
    \A m \in Models :
        LET key == models[m].metadata.billing IN
        ResolveCallable(m) /\ m \notin history.edited
        /\ history.users[key] = {m} /\ history.users[m] = {m} =>
            LET units == cards[BilledPrice(m)].units IN
            /\ Declared(units, "input") /\ Declared(units, "output")
            /\ "cache" \in models[m].metadata.capabilities => Has(units, "cache_read")

(* What the web shows is what is billed (migration :118-125): a price on   *)
(* the page of a model is the one that a call received now is billed by,   *)
(* the one that the admin sees, and the only one in force.                 *)
ShownPriceIsBilled ==
    \A m \in Models :
        LET key == models[m].metadata.billing IN
        OnTheWeb(m) /\ DisplayPrice(key) # None =>
            DisplayPrice(key) = BilledPrice(m) /\ InForce(key, clock) = {BilledPrice(m)}

(* Every change of a model or of its prices has its entry in the audit     *)
(* log, or is about to get it, or was followed by a failure.               *)
ChangesAudited ==
    \A m \in Models :
        history.changes[m] =
            audit[m] + history.lost[m]
            + Cardinality({a \in Admins : op[a].pc \in {"reread", "record"} /\ Target(a) = m})

(* The table of states (service.go:397-402): what is listed or in canary   *)
(* must have a price.  Violated: an edit may give a published model a      *)
(* billing key that has none.                                              *)
CallablePriced ==
    \A m \in Models : ResolveCallable(m) => BilledPrice(m) # None

(* What Publish checked stays true of the models it published.             *)
PublishChecksHold == TypeOK /\ PublishedKeyPriced /\ CompleteIfUntouched

===============================================================================
