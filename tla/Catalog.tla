------------------------------- MODULE Catalog -------------------------------
(***************************************************************************)
(* The public catalogue: the read-only endpoints of internal/catalog.      *)
(* A visitor either walks GET /models page by page with the cursor that    *)
(* each page returns, or asks for one of the other pages (a model, the     *)
(* summary, a benchmark, a ranking, the documentation).  No endpoint opens *)
(* a transaction, and a walk is many requests, so that administrators      *)
(* delist, relist and reprice models between any two statements.           *)
(*                                                                         *)
(* A model is its integer id, the value that decides ties in a listing.    *)
(* Its price is a record of two prices per million tokens, or None when no *)
(* version is in force.  Descriptions, logos and caching headers are left  *)
(* out.                                                                    *)
(***************************************************************************)
EXTENDS Integers, Sequences, FiniteSets, SequencesExt

CONSTANTS
    None,
    Infinity,        \* the double +Infinity: above every sort key
    ModelIds,        \* the integer ids
    Facts,           \* what an edit of the catalogue does not change: see FactsOf
    Results,         \* benchmark results: [benchmark, model, score, cost, duration]
    Benchmarks,
    Bodies,          \* documentation pages: sequences of kinds of line
    Navigations,     \* sets of [group, groupPosition, position]
    Catalogues,      \* initial [listed, price]
    Prices,          \* what a model may be repriced to
    Orders,          \* [sort, direction] a client asks for, "" when it says nothing
    Filters,         \* [provider, capabilities, minContext, maxPrice]
    PageSizes,
    Boards,          \* [dimension, period, unit, scope]
    FeaturedLimit, RelatedLimit, RankingCap, ActivityLimit,
    MaxCharge,       \* the most that a session may cost: Charge fails beyond
    MaxChanges       \* bound on the changes administrators make

Sorts == {"released_at", "price", "throughput", "usage"}
Directions == {"asc", "desc"}

\* What the boards rank by.
Sources == [usage |-> {"top-models", "market-share"}, quality |-> {"leaderboard", "benchmarks"},
            throughput |-> {"speed"}, context_length |-> {"context-length"},
            session_cost |-> {"session-cost"}]

\* The dimensions without a source of data answer an empty board.
Unsourced == {"task", "languages", "programming", "tool-calls", "images", "apps"}
Dimensions == UNION {Sources[s] : s \in DOMAIN Sources}
SourceOf(dimension) == CHOOSE s \in DOMAIN Sources : dimension \in Sources[s]

\* What a cursor holds: the last row's key and id, and the order it belongs to.
Cursor == [key : Int, id : ModelIds, sort : Sorts, direction : Directions]

ASSUME ModelsAreIds == ModelIds \subseteq Nat /\ IsFiniteSet(ModelIds)
ASSUME NothingAssumption ==
    None \notin Int \cup Cursor \cup Results \cup [sort : Sorts, direction : Directions]
ASSUME FactsOf ==
    \A m \in ModelIds :
        /\ {"provider", "capabilities", "open", "featured", "featuredRank"} \subseteq DOMAIN Facts[m]
        /\ {Facts[m].context, Facts[m].quality, Facts[m].throughput} \subseteq Nat \cup {None}
        /\ Facts[m].tokens \in [{"day", "week", "month"} -> Nat]
        /\ Facts[m].released \in Nat
        /\ IsFiniteSet(Facts[m].activity)
ASSUME PricesAssumption ==
    /\ Prices \subseteq [input : Nat, output : Nat] \cup {None}
    /\ \A c \in Catalogues : c.listed \subseteq ModelIds /\ c.price \in [ModelIds -> Prices]
\* No key reaches infinity, whichever way it is sorted.
ASSUME InfinityAssumption ==
    /\ Infinity \in Nat
    /\ \A m \in ModelIds :
        /\ Facts[m].released < Infinity /\ Facts[m].tokens["month"] < Infinity
        /\ Facts[m].throughput # None => Facts[m].throughput < Infinity
    /\ \A p \in Prices \ {None} : p.input < Infinity
\* A model has one result of a benchmark.
ASSUME ResultsAssumption ==
    /\ IsFiniteSet(Results)
    /\ \A r \in Results :
        r.model \in ModelIds /\ r.score \in Nat /\ r.cost \in Nat /\ r.duration \in Nat
    /\ \A r, x \in Results : r.benchmark = x.benchmark /\ r.model = x.model => r = x
ASSUME RequestsAssumption ==
    /\ PageSizes \subseteq Nat \ {0}
    /\ \A n \in {FeaturedLimit, RelatedLimit, RankingCap, ActivityLimit, MaxCharge, MaxChanges} :
        n \in Nat
    /\ \A b \in Boards :
        /\ b.dimension \in Dimensions \cup Unsourced
        /\ b.period \in {"", "day", "week", "month"}
    /\ \A b \in Bodies : b \in Seq({"fence", "heading", "text"})
    /\ \A n \in Navigations :
        IsFiniteSet(n) /\ \A item \in n : item.groupPosition \in Nat /\ item.position \in Nat

VARIABLES
    listed,    \* ids whose status is "listed"
    price,     \* price[m]: the version in force for the model's key, or None
    changes,   \* changes made so far
    walk,      \* a walk over GET /models, or NoRequest
    visit,     \* a request for another page, or NoRequest
    touched,   \* history: models changed since the walk or visit began
    present    \* history: models listed at some moment since it began
pagesVars == <<listed, price, changes, walk, visit, touched, present>>

NoRequest == [kind |-> "idle"]

PagesInit ==
    /\ \E c \in Catalogues : listed = c.listed /\ price = c.price
    /\ changes = 0
    /\ walk = NoRequest
    /\ visit = NoRequest
    /\ touched = {}
    /\ present = listed

----------------------------------------------------------------------------
(* The statements. *)

\* The WHERE clause of the listing.  A model without a price is not cheap.
Matches(m, f) ==
    /\ f.provider \in {None, Facts[m].provider}
    /\ f.capabilities \subseteq Facts[m].capabilities
    /\ f.minContext = None
       \/ (Facts[m].context # None /\ Facts[m].context >= f.minContext)
    /\ f.maxPrice = None \/ (price[m] # None /\ price[m].input <= f.maxPrice)

RawKey(m, sort) ==
    CASE sort = "price"      -> IF price[m] = None THEN None ELSE price[m].input
      [] sort = "throughput" -> Facts[m].throughput
      [] sort = "usage"      -> Facts[m].tokens["month"]
      [] OTHER               -> Facts[m].released

\* One key for both directions: whatever the direction, a missing value is +Infinity.
SortKey(m, order) ==
    LET dir == IF order.direction = "asc" THEN 1 ELSE -1
        raw == RawKey(m, order.sort)
    IN  dir * (IF raw = None THEN dir * Infinity ELSE raw)

(* Mutant: the cursor has no id to break ties with. *)
After_KeyOnly(m, order, cursor) == SortKey(m, order) > cursor.key

After(m, order, cursor) ==
    \/ SortKey(m, order) > cursor.key
    \/ SortKey(m, order) = cursor.key /\ m > cursor.id

First(s, n) == SubSeq(s, 1, IF Len(s) < n THEN Len(s) ELSE n)

\* The rows of a table in the order of pairs that leaves no ties: a row's place is the number
\* of rows before it.
Sorted(rows, before) ==
    LET place == [x \in rows |-> 1 + Cardinality({y \in rows : <<y, x>> \in before})]
    IN  [i \in 1 .. Cardinality(rows) |-> CHOOSE x \in rows : place[x] = i]

\* An order with ties: rows that have no order between them come in any.
Sortings(rows, before) ==
    {s \in Bijection(1 .. Cardinality(rows), rows) :
        \A i, j \in DOMAIN s : i < j => <<s[j], s[i]>> \notin before}

\* The part of a sequence that lies in a set.
Kept(s, set) ==
    LET places == {i \in DOMAIN s : s[i] \in set}
        kept == Sorted(places, {p \in places \X places : p[1] < p[2]})
    IN  [i \in DOMAIN kept |-> s[kept[i]]]

\* The listing: total counts the rows before the cursor is applied.
ListModels(q, cursor, limit) ==
    LET rows == {m \in listed : Matches(m, q.filter)}
        rest == {m \in rows : cursor = None \/ After(m, q, cursor)}
        before == {p \in rest \X rest :
                    \/ SortKey(p[1], q) < SortKey(p[2], q)
                    \/ SortKey(p[1], q) = SortKey(p[2], q) /\ p[1] < p[2]}
    IN  [ids |-> First(Sorted(rest, before), limit), total |-> Cardinality(rows)]

Counts == [models |-> Cardinality(listed),
           providers |-> Cardinality({Facts[m].provider : m \in listed})]

\* NULLS LAST, then the newest first; nothing orders equal release dates.
ListFeaturedModelIDs ==
    LET rank(m) == IF Facts[m].featuredRank = None THEN Infinity ELSE Facts[m].featuredRank
        rows == {m \in listed : Facts[m].featured}
        before == {p \in rows \X rows :
                    \/ rank(p[1]) < rank(p[2])
                    \/ /\ rank(p[1]) = rank(p[2])
                       /\ Facts[p[1]].released > Facts[p[2]].released}
    IN  {First(s, FeaturedLimit) : s \in Sortings(rows, before)}

\* Same provider first, then a common capability, then the newest.
ListRelatedModelIDs(m) ==
    LET near(x) == (IF Facts[x].provider = Facts[m].provider THEN 2 ELSE 0)
                   + (IF Facts[x].capabilities \cap Facts[m].capabilities # {} THEN 1 ELSE 0)
        rows == listed \ {m}
        before == {p \in rows \X rows :
                    \/ near(p[1]) > near(p[2])
                    \/ near(p[1]) = near(p[2]) /\ Facts[p[1]].released > Facts[p[2]].released}
    IN  {First(s, RelatedLimit) : s \in Sortings(rows, before)}

ListModelActivity(m) ==
    LET days == Facts[m].activity
    IN  First(Sorted(days, {p \in days \X days : p[1] > p[2]}), ActivityLimit)

ListModelBenchmarkScores(m) ==
    {[benchmark |-> r.benchmark, score |-> r.score] : r \in {x \in Results : x.model = m}}

\* The results of a benchmark, best score first, delisted models included: the rank and the
\* number of evaluated models count them too.  Nothing orders equal scores.
ListBenchmarkResults(b) ==
    LET rows == {r \in Results : r.benchmark = b}
    IN  Sortings(rows, {p \in rows \X rows : p[1].score > p[2].score})

RankOf(r) == 1 + Cardinality({x \in Results : x.benchmark = r.benchmark /\ x.score > r.score})

EvaluatedModels(b) == Cardinality({r \in Results : r.benchmark = b})

ListModelSummariesByIDs(ids) == ids \cap listed

InScope(m, scope) == scope = "open-source" => Facts[m].open

\* Nothing orders models of equal rank, and any of them may be cut off.
RankModelsByUsage(period, scope) ==
    LET tokens(m) == Facts[m].tokens[period]
        rows == {m \in listed : InScope(m, scope) /\ tokens(m) > 0}
    IN  {First(s, RankingCap) :
            s \in Sortings(rows, {p \in rows \X rows : tokens(p[1]) > tokens(p[2])})}

Metric(m, metric) ==
    CASE metric = "quality"        -> Facts[m].quality
      [] metric = "context_length" -> Facts[m].context
      [] metric = "throughput"     -> Facts[m].throughput
      [] metric = "price_input"    -> RawKey(m, "price")

\* DESC NULLS LAST for every metric, the price included.
RankModelsByColumn(metric, scope) ==
    LET key(m) == IF Metric(m, metric) = None THEN -Infinity ELSE Metric(m, metric)
        rows == {m \in listed : InScope(m, scope)}
    IN  {First(s, RankingCap) :
            s \in Sortings(rows, {p \in rows \X rows : key(p[1]) > key(p[2])})}

----------------------------------------------------------------------------
(* The walk over GET /models. *)

\* What the service takes a request to mean.
Defaults(order) ==
    [sort |-> IF order.sort = "" THEN "released_at" ELSE order.sort,
     direction |-> IF order.direction = "" THEN "desc" ELSE order.direction]

\* A request the service accepts: a cursor belongs to the order it was issued for.
ValidList(order, cursor) ==
    /\ order.sort \in Sorts
    /\ order.direction \in Directions
    /\ cursor # None => cursor.sort = order.sort /\ cursor.direction = order.direction

\* One page: a row more than the page holds is read, to tell whether there is a next one, and
\* the cursor is the last row shown.
ListPage(q, cursor, limit) ==
    LET rows == ListModels(q, cursor, limit + 1)
        page == First(rows.ids, limit)
    IN  [models |-> page,
         total |-> IF rows.ids = <<>> THEN 0 ELSE rows.total,
         next |-> IF Len(rows.ids) > limit
                  THEN [key |-> SortKey(Last(page), q), id |-> Last(page),
                        sort |-> q.sort, direction |-> q.direction]
                  ELSE None]

\* encoding/json has no infinity: encodeCursor fails on it.
Encodable(cursor) == cursor.key \notin {Infinity, -Infinity}

Begin == touched' = {} /\ present' = listed

StartWalk(f) ==
    /\ walk = NoRequest /\ visit = NoRequest
    /\ walk' = [kind |-> "walk", filter |-> f, order |-> None, cursor |-> None,
                seen |-> <<>>, totals |-> <<>>, state |-> "walking"]
    /\ Begin
    /\ UNCHANGED <<listed, price, changes, visit>>

Walking == walk.kind = "walk" /\ walk.state \in {"walking", "refused"}

\* A page refused by the service's validation: 422, and the client still has its cursor.
ListRefused(asked) ==
    /\ Walking
    /\ ~ValidList(Defaults(asked), walk.cursor)
    /\ walk' = [walk EXCEPT !.state = "refused"]
    /\ UNCHANGED <<listed, price, changes, visit, touched, present>>

\* GET /models: when the next cursor cannot be encoded the answer is an error, page included.
ListModelsEndpoint(asked, limit) ==
    /\ Walking
    /\ ValidList(Defaults(asked), walk.cursor)
    /\ LET order == Defaults(asked)
           q == [filter |-> walk.filter, sort |-> order.sort, direction |-> order.direction]
       IN  \E page \in {ListPage(q, walk.cursor, limit)} :
            LET served == [walk EXCEPT !.seen = @ \o page.models,
                                       !.totals = Append(@, page.total),
                                       !.order = IF @ = None THEN order ELSE @,
                                       !.cursor = page.next]
            IN  walk' = IF page.next = None THEN [served EXCEPT !.state = "finished"]
                        ELSE IF Encodable(page.next) THEN [served EXCEPT !.state = "walking"]
                        ELSE [walk EXCEPT !.state = "failed"]
    /\ UNCHANGED <<listed, price, changes, visit, touched, present>>

StopWalk ==
    /\ walk.kind = "walk"
    /\ walk' = NoRequest
    /\ Begin
    /\ UNCHANGED <<listed, price, changes, visit>>

----------------------------------------------------------------------------
(* The other pages: statements that name models, one statement that loads them, an answer. *)

Open(kind, arg) ==
    /\ walk = NoRequest /\ visit = NoRequest
    /\ visit' = [kind |-> kind, arg |-> arg, step |-> "first", head |-> None,
                 ids |-> <<>>, found |-> {}, shown |-> <<>>]
    /\ Begin
    /\ UNCHANGED <<listed, price, changes, walk>>

At(kind, step) == visit.kind = kind /\ visit.step = step
Read(v) == visit' = v /\ UNCHANGED <<listed, price, changes, walk, touched, present>>

\* The repository's model: what an answer shows of it, with the price it has now.
Model(m) == [id |-> m, price |-> price[m]]

\* The model of a path, when it is listed.
GetModelByPath(m) == m \in listed

GetModel ==
    /\ At("model", "first")
    /\ Read(IF GetModelByPath(visit.arg)
            THEN [visit EXCEPT !.step = "ids",
                               !.head = [model |-> Model(visit.arg),
                                         activity |-> ListModelActivity(visit.arg),
                                         scores |-> ListModelBenchmarkScores(visit.arg)]]
            ELSE [visit EXCEPT !.step = "not_found"])

RelatedModelIDs ==
    /\ At("model", "ids")
    /\ \E ids \in ListRelatedModelIDs(visit.arg) :
        Read([visit EXCEPT !.step = "models", !.ids = ids])

CatalogCounts ==
    /\ At("summary", "first")
    /\ Read([visit EXCEPT !.step = "ids", !.head = Counts])

FeaturedModelIDs ==
    /\ At("summary", "ids")
    /\ \E ids \in ListFeaturedModelIDs : Read([visit EXCEPT !.step = "models", !.ids = ids])

BenchmarkResults ==
    /\ At("benchmark", "first")
    /\ \E ids \in ListBenchmarkResults(visit.arg) :
        Read([visit EXCEPT !.step = "models", !.head = EvaluatedModels(visit.arg), !.ids = ids])

Period(p) == IF p = "" THEN "week" ELSE p

Ranked(board) ==
    LET source == SourceOf(board.dimension)
        metric == IF source = "session_cost" THEN "price_input" ELSE source
        tops == IF source = "usage" THEN RankModelsByUsage(Period(board.period), board.scope)
                ELSE RankModelsByColumn(metric, board.scope)
    IN  {[i \in DOMAIN top |->
            [model |-> top[i],
             value |-> IF source = "usage" THEN Facts[top[i]].tokens[Period(board.period)]
                       ELSE Metric(top[i], metric)]] : top \in tops}

RankModels ==
    /\ At("ranking", "first")
    /\ IF visit.arg.dimension \in Unsourced THEN Read([visit EXCEPT !.step = "answered"])
       ELSE \E ids \in Ranked(visit.arg) : Read([visit EXCEPT !.step = "models", !.ids = ids])

IdsOf(rows) == {rows[i].model : i \in DOMAIN rows}

\* The ids are loaded in one statement; what is no longer listed is not found.
ModelsByIDs ==
    /\ visit.kind \in {"model", "summary", "benchmark", "ranking"} /\ visit.step = "models"
    /\ LET ids == IF visit.kind \in {"model", "summary"} THEN ToSet(visit.ids)
                  ELSE IdsOf(visit.ids)
       IN  Read([visit EXCEPT !.step = "answer",
                              !.found = {Model(m) : m \in ListModelSummariesByIDs(ids)}])

Found == {x.id : x \in visit.found}
FoundModel(m) == CHOOSE x \in visit.found : x.id = m

(* Mutant: the models are shown in the order the database returned them. *)
orderByIDs_DatabaseOrder(ids) ==
    Sorted(visit.found, {p \in visit.found \X visit.found : p[1].id < p[2].id})

orderByIDs(ids) ==
    LET kept == Kept(ids, Found)
    IN  [i \in DOMAIN kept |-> FoundModel(kept[i])]

AnswerInOrder(kind) ==
    /\ At(kind, "answer")
    /\ Read([visit EXCEPT !.step = "answered", !.shown = orderByIDs(visit.ids)])

modelDetail == AnswerInOrder("model")
summary == AnswerInOrder("summary")

\* The first of the candidates that none of them beats.
Leader(rows, candidates, better) ==
    LET best[n \in 0 .. Len(rows)] ==
            IF n = 0 THEN None
            ELSE LET old == best[n - 1]
                 IN  IF rows[n] \in candidates /\ (old = None \/ <<rows[n], old>> \in better)
                     THEN rows[n] ELSE old
    IN  best[Len(rows)]

HigherScore == {p \in Results \X Results : p[1].score > p[2].score}
BetterValue == {p \in Results \X Results : p[1].score * p[2].cost > p[2].score * p[1].cost}
Faster == {p \in Results \X Results : p[1].duration < p[2].duration}

(* Mutant: the winners are chosen among the delisted models too. *)
buildView_Delisted(rows) ==
    [quality |-> Leader(rows, Results, HigherScore),
     value |-> Leader(rows, {r \in Results : r.cost > 0}, BetterValue),
     speed |-> Leader(rows, {r \in Results : r.duration > 0}, Faster)]

\* The three winners; a result without a cost or a duration cannot win on it.
buildView(rows) ==
    LET shown == {r \in Results : r.model \in Found}
    IN  [quality |-> Leader(rows, shown, HigherScore),
         value |-> Leader(rows, {r \in shown : r.cost > 0}, BetterValue),
         speed |-> Leader(rows, {r \in shown : r.duration > 0}, Faster)]

benchmarkDetail ==
    /\ At("benchmark", "answer")
    /\ LET rows == Kept(visit.ids, {r \in Results : r.model \in Found})
       IN  Read([visit EXCEPT !.step = "answered",
                              !.shown = [i \in DOMAIN rows |->
                                  [id |-> rows[i].model, rank |-> RankOf(rows[i])]],
                              !.head = [evaluated |-> visit.head,
                                        winners |-> buildView(visit.ids)]])

\* A session of ten thousand input and two thousand output tokens, at the price just loaded.
SessionCost(p) == 10 * p.input + 2 * p.output

\* A price that Charge can say the cost of a session at.
Chargeable(p) == p # None /\ SessionCost(p) <= MaxCharge

\* What an entry is ranked by, None when there is nothing to rank it by.
rankValue(source, row) ==
    IF source # "session_cost" THEN row.value
    ELSE IF Chargeable(FoundModel(row.model).price) THEN SessionCost(FoundModel(row.model).price)
    ELSE None

\* The entries of a board: the models found that have a value, in the order of the statement.
Entries(board, rows) ==
    LET source == SourceOf(board.dimension)
        kept == Kept(rows, {r \in ToSet(rows) : r.model \in Found /\ rankValue(source, r) # None})
    IN  [i \in DOMAIN kept |-> [id |-> kept[i].model, value |-> rankValue(source, kept[i])]]

(* Mutant: the order of the statement is kept where lower is better. *)
Board_StatementOrder(board, rows) == Entries(board, rows)

\* Where lower is better, they are sorted again, and the sort is stable.
Board(board, rows) ==
    LET entries == Entries(board, rows)
        places == DOMAIN entries
        stable == Sorted(places, {p \in places \X places :
                    \/ entries[p[1]].value < entries[p[2]].value
                    \/ entries[p[1]].value = entries[p[2]].value /\ p[1] < p[2]})
    IN  IF SourceOf(board.dimension) = "session_cost" THEN [i \in places |-> entries[stable[i]]]
        ELSE entries

\* Shares are asked for in percent, and given for usage only.
Shares(board, entries) ==
    LET sum[n \in 0 .. Len(entries)] ==
            IF n = 0 THEN 0 ELSE sum[n - 1] + entries[n].value
        total == sum[Len(entries)]
    IN  IF board.unit = "percentage" /\ SourceOf(board.dimension) = "usage" /\ total > 0
        THEN [i \in DOMAIN entries |->
                [entries[i] EXCEPT !.value = (@ * 100) \div total]]
        ELSE entries

ranking ==
    /\ At("ranking", "answer")
    /\ Read([visit EXCEPT !.step = "answered",
                          !.shown = Shares(visit.arg, Board(visit.arg, visit.ids))])

\* Neighbours with the same title form a group.
DocsNavigation(items) ==
    LET groups[n \in 0 .. Len(items)] ==
            IF n = 0 THEN <<>>
            ELSE LET old == groups[n - 1]
                 IN  IF old # <<>> /\ old[Len(old)].title = items[n].group
                     THEN [old EXCEPT ![Len(old)].items = Append(@, items[n])]
                     ELSE Append(old, [title |-> items[n].group, items |-> <<items[n]>>])
    IN  groups[Len(items)]

ListDocsNavigation(items) ==
    Sortings(items, {p \in items \X items :
        \/ p[1].groupPosition < p[2].groupPosition
        \/ p[1].groupPosition = p[2].groupPosition /\ p[1].position < p[2].position})

docsNavigation ==
    /\ At("navigation", "first")
    /\ \E items \in ListDocsNavigation(visit.arg) :
        Read([visit EXCEPT !.step = "answered", !.shown = DocsNavigation(items)])

\* The table of contents: the lines that are headings and not inside a fence.
extractHeadings(body) ==
    LET toc[n \in 0 .. Len(body)] ==
            IF n = 0 THEN [inFence |-> FALSE, lines |-> <<>>]
            ELSE LET old == toc[n - 1]
                 IN  IF body[n] = "fence" THEN [old EXCEPT !.inFence = ~@]
                     ELSE IF old.inFence \/ body[n] # "heading" THEN old
                     ELSE [old EXCEPT !.lines = Append(@, n)]
    IN  toc[Len(body)].lines

docsPage ==
    /\ At("page", "first")
    /\ Read([visit EXCEPT !.step = "answered", !.shown = extractHeadings(visit.arg)])

CloseVisit ==
    /\ visit # NoRequest /\ visit.step \in {"answered", "not_found"}
    /\ visit' = NoRequest
    /\ Begin
    /\ UNCHANGED <<listed, price, changes, walk>>

----------------------------------------------------------------------------
(* The administrators, between any two statements. *)

Change(m) ==
    /\ changes < MaxChanges
    /\ changes' = changes + 1
    /\ touched' = touched \cup {m}
    /\ present' = present \cup listed'
    /\ UNCHANGED <<walk, visit>>

SetModelStatus(m) ==
    /\ listed' = IF m \in listed THEN listed \ {m} ELSE listed \cup {m}
    /\ UNCHANGED price
    /\ Change(m)

Reprice(m, p) ==
    /\ p # price[m]
    /\ price' = [price EXCEPT ![m] = p]
    /\ UNCHANGED listed
    /\ Change(m)

Walks ==
    \/ \E f \in Filters : StartWalk(f)
    \/ \E o \in Orders : ListRefused(o)
    \/ \E o \in Orders, n \in PageSizes : ListModelsEndpoint(o, n)
    \/ StopWalk

Visits ==
    \/ \E m \in ModelIds : Open("model", m)
    \/ Open("summary", None)
    \/ \E b \in Benchmarks : Open("benchmark", b)
    \/ \E b \in Boards : Open("ranking", b)
    \/ \E n \in Navigations : Open("navigation", n)
    \/ \E b \in Bodies : Open("page", b)
    \/ GetModel \/ RelatedModelIDs \/ modelDetail
    \/ CatalogCounts \/ FeaturedModelIDs \/ summary
    \/ BenchmarkResults \/ benchmarkDetail
    \/ RankModels \/ ranking
    \/ ModelsByIDs
    \/ docsNavigation \/ docsPage
    \/ CloseVisit

PagesNext ==
    \/ Walks
    \/ Visits
    \/ \E m \in ModelIds : SetModelStatus(m)
    \/ \E m \in ModelIds, p \in Prices : Reprice(m, p)

PagesSpec == PagesInit /\ [][PagesNext]_pagesVars

----------------------------------------------------------------------------
Answered(kind) == visit.kind = kind /\ visit.step = "answered"
Steady == ModelIds \ touched

\* The variables have the values they should: an answer never shows more than its limit, a
\* walk never counts more models than there are, and a client only ever holds a cursor that
\* could be encoded.
PagesTypeOK ==
    /\ listed \subseteq ModelIds
    /\ price \in [ModelIds -> Prices \cup {None}]
    /\ changes \in 0 .. MaxChanges
    /\ walk.kind \in {"idle", "walk"}
    /\ walk.kind = "walk" =>
        /\ walk.state \in {"walking", "refused", "finished", "failed"}
        /\ walk.seen \in Seq(ModelIds)
        /\ \A i \in DOMAIN walk.totals : walk.totals[i] \in 0 .. Cardinality(ModelIds)
        /\ walk.cursor # None => walk.cursor.id \in ModelIds /\ walk.cursor.key < Infinity
    /\ Answered("summary") => Len(visit.shown) <= FeaturedLimit
    /\ Answered("model") => Len(visit.shown) <= RelatedLimit
    /\ Answered("ranking") => Len(visit.shown) <= RankingCap
    /\ touched \subseteq ModelIds /\ present \subseteq ModelIds

\* A walk shows a model that nobody changes at most once, and when it ends it has shown every
\* one that matches the filter: whatever ties the order has, whatever the other models do
\* between the pages and whatever sizes of page the client asks for.
SteadySeenOnce ==
    walk.kind = "walk" =>
        \A m \in Steady :
            LET times == Cardinality({i \in DOMAIN walk.seen : walk.seen[i] = m})
            IN  /\ times <= 1
                /\ walk.state = "finished" =>
                    (times = 1 <=> m \in listed /\ Matches(m, walk.filter))

\* In a walk the models come in the order of the first page, and those without a value come
\* last in both directions: an unpriced model is never listed as a free one.
UnknownLast ==
    walk.kind = "walk" =>
        \A i, j \in DOMAIN walk.seen :
            (i < j /\ walk.seen[i] \in Steady /\ walk.seen[j] \in Steady) =>
                LET a == RawKey(walk.seen[i], walk.order.sort)
                    b == RawKey(walk.seen[j], walk.order.sort)
                IN  \/ b = None
                    \/ /\ a # None
                       /\ IF walk.order.direction = "asc" THEN a <= b ELSE a >= b

\* While nothing changes, every page of a walk announces the same total.
TotalHolds ==
    (walk.kind = "walk" /\ touched = {}) =>
        \A i, j \in DOMAIN walk.totals : walk.totals[i] = walk.totals[j]

\* An answer shows only models that were listed at some moment since its request arrived: a
\* benchmark keeps the results of a delisted model, but the page does not show it.
OnlyListedShown ==
    /\ \A k \in {"model", "summary", "benchmark", "ranking"} :
        Answered(k) => {visit.shown[i].id : i \in DOMAIN visit.shown} \subseteq present
    /\ walk.kind = "walk" => ToSet(walk.seen) \subseteq present

\* The featured and the related models are shown in the order the statement chose them, and
\* none that stayed listed is missing.
OrderKept ==
    \A k \in {"model", "summary"} : Answered(k) =>
        LET at(m) == CHOOSE i \in DOMAIN visit.ids : visit.ids[i] = m
        IN  /\ \A i, j \in DOMAIN visit.shown :
                i < j => at(visit.shown[i].id) < at(visit.shown[j].id)
            /\ \A m \in ToSet(visit.ids) \cap Steady :
                \E i \in DOMAIN visit.shown : visit.shown[i].id = m

\* A benchmark's winners are among the results its page shows, no result shown beats them,
\* and a result that cost or took nothing never wins on cost or on speed.
WinnersAreShown ==
    Answered("benchmark") =>
        LET w == visit.head.winners
            on == {r \in Results : r.benchmark = visit.arg
                        /\ \E i \in DOMAIN visit.shown : visit.shown[i].id = r.model}
        IN  /\ IF w.quality = None THEN on = {}
               ELSE w.quality \in on /\ \A r \in on : r.score <= w.quality.score
            /\ w.value # None =>
                /\ w.value \in on /\ w.value.cost > 0
                /\ \A r \in on : r.cost > 0 => r.score * w.value.cost <= w.value.score * r.cost
            /\ w.speed # None =>
                /\ w.speed \in on /\ w.speed.duration > 0
                /\ \A r \in on : r.duration > 0 => r.duration >= w.speed.duration

\* The entries of a board are in the order their values say, also when the price changed
\* after the models were chosen.
BoardOrdered ==
    Answered("ranking") =>
        \A i, j \in DOMAIN visit.shown : i < j =>
            IF visit.arg.dimension = "session-cost"
            THEN visit.shown[i].value <= visit.shown[j].value
            ELSE visit.shown[i].value >= visit.shown[j].value

\* While no more models are listed than a board holds, it shows every listed model it has
\* data for, and no model it has none for: not tested is not last, not priced is not free, and
\* what Charge fails on is left out.
BoardComplete ==
    (Answered("ranking") /\ visit.arg.dimension \notin Unsourced
        /\ Cardinality(present) <= RankingCap) =>
        \A m \in Steady :
            LET source == SourceOf(visit.arg.dimension)
                known == CASE source = "usage" -> Facts[m].tokens[Period(visit.arg.period)] > 0
                           [] source = "session_cost" -> Chargeable(price[m])
                           [] OTHER -> Metric(m, source) # None
            IN  (\E i \in DOMAIN visit.shown : visit.shown[i].id = m)
                    <=> (m \in listed /\ InScope(m, visit.arg.scope) /\ known)

\* When the items of a group have one position in the navigation, its title appears once,
\* and every item is under its own title.
NavigationGrouped ==
    (Answered("navigation")
        /\ \A a, b \in visit.arg : (a.group = b.group) = (a.groupPosition = b.groupPosition)) =>
        /\ \A i, j \in DOMAIN visit.shown :
            visit.shown[i].title = visit.shown[j].title => i = j
        /\ \A item \in visit.arg : \E i \in DOMAIN visit.shown :
            visit.shown[i].title = item.group /\ item \in ToSet(visit.shown[i].items)

\* The table of contents has exactly the headings with an even number of fences above them.
HeadingsOutsideFences ==
    Answered("page") =>
        ToSet(visit.shown) =
            {i \in DOMAIN visit.arg :
                /\ visit.arg[i] = "heading"
                /\ Cardinality({j \in 1 .. i - 1 : visit.arg[j] = "fence"}) % 2 = 0}

\* "A model without a price sorts by plus or minus infinity: unknown comes last", says the
\* listing.  So its page must be reachable: no page of a walk fails.
EveryPageServed == walk.kind = "walk" => walk.state # "failed"

\* The pages of a walk are the pages of one listing: every steady model once, in the order
\* asked for with the unknown last, under one total.
WalkIsOneListing == PagesTypeOK /\ SteadySeenOnce /\ UnknownLast /\ TotalHolds

\* A page shows what its statements chose, in their order and under their titles.
PagesShowWhatWasChosen ==
    OnlyListedShown /\ OrderKept /\ NavigationGrouped /\ HeadingsOutsideFences

\* A board is ordered, and complete while it has room for every listed model.
BoardIsRanking == BoardOrdered /\ BoardComplete

==============================================================================
