# uMaaS in TLA+

A verification development for the Go backend of uMaaS (`src/backend`), the
gateway that resells models of many upstream channels behind one
OpenAI-compatible API. The modules model what the code does, TLC checks them
on small instances, and TLAPS proves the theorems of the modules named
`...Proofs` for every instance.

## The system

| Component | State | Operations | Interacts with |
|---|---|---|---|
| **Price versions** `store/postgres/pricing.go`, `db/queries/pricing.sql` | rows of `model_prices` | `PublishPrice` (one transaction: close, insert), `ResolveVersion` | written by the catalogue administration, read by the catalogue and, at `received_at`, by the log entry of every request |
| **Charging** `pricing/calc.go`, `rates.go`, `validate.go` | none | `ParseRates`, `Validate`, `Charge` | log entry, catalogue administration, session-cost ranking |
| **Completions handler** `gateway/completions.go`, `attempt.go` | one request: candidates, attempt index, written, log record | `ServeHTTP`, two fallback loops, two kinds of attempt | ranking, driver, watchdog (callback in another goroutine), stream reader and writer, channel health, request log |
| **Stream watchdog** `gateway/watchdog.go` | timer, two atomic flags | `newWatchdog`, `tick`, `stop`, the timer's callback | cancels the attempt's context |
| **SSE codec** `protocol/openai/stream.go` | queue, open blocks, pending finish and usage | `Next`, `pump`, `consume`, `finish`, `Write` | upstream body, handler, client |
| **Driver** `provider/openaicompat` | none; `BuildRequest` changes the request it is given | `BuildRequest`, `Do` | upstream |
| **Request log writer** `requestlog/writer.go` | channel of 4096, batch of 500, drop counter | `Enqueue`, `run`, `Close` | all handlers, the health checker, `main`'s shutdown |
| **Channel ranking** `gateway/route.go`, `health.go` | routing policies | `ResolvePolicy`, `ResolveWeights`, `Rank` | handler, channel health |
| **Channel health store** `db/queries/routing.sql` | per channel: failures, rate-limit window, last probe, interval, posterior, latency | `RecordSuccess`, `RecordFailure`, `TouchProbe` | handler, probes, ranking |
| **Health checker, probes** `gateway/healthcheck.go`, `probe.go` | the sweep under way | `tick`, `probeOne`, `AutoProbe`, `ManualTest` | channel health, request log |
| **Catalogue administration** `catalogadmin` | `models`, `activities`, `audit_logs` | `UpsertModel`, `PreviewPrice`, `PublishPrice`, `Publish`, `Delist` | price versions, charging, catalogue |
| **Catalogue reads** `catalog`, `store/postgres/catalog.go` | none; the client holds a cursor | listing, detail, summary, benchmarks, rankings, documents | reads what the administration writes |
| **Users' accounts and sessions** `auth`, `store/postgres/identity.go` | users, workspaces, memberships, sessions | register, sign in, `RequireSession`, sign out | browsers |
| **Administrators** `auth`, `store/postgres/admin.go`, `cmd/umaas/admin.go`, `platform/totp.go` | accounts, TOTP secrets, sessions, audit | create, confirm, sign in, guards, sign out | command line, browsers |
| **Negotiation, request and response codec, middleware, configuration, assembly, frontends** | little or none | | |

What is hard here: nearly every operation is several statements without a
transaction around them, so that price publishes race each other, edits race
publications, and suspensions race sign-ins; a stream may fail at any event,
while a timer's goroutine and the client's departure race the handler's loop;
every one of a dozen exits of an attempt has to agree on what the client, the
log and the channel's health are told; the health checker computes from rows
that requests change under it; the log writer races shutdown; and money is
computed in integers of limited width. `PROJECT.json` lists these hazards with
their lines.

What makes each part correct:

- *price versions*: a price never disappears, history is not rewritten, a
  request is billed as of its reception, publishes do not block each other;
- *charging*: the exact sum rounded once, an error only on overflow or on a
  quantity or price below zero;
- *codec*: events in contract order, blocks opened and closed once, content
  whole, no invented finish, usage neither lost nor waited for in vain;
- *handler*: one answer from one channel, no switch after the first byte,
  failures reported, attempts logged and channels judged consistently, an
  answer in the end;
- *log writer*: every entry accounted for exactly once, in order, eventually;
- *health and ranking*: no channel hidden or starved, every channel in service
  probed for ever, the backoff follows the failures;
- *administration*: a model is published only when checked and priced, what the
  web shows is what is billed, changes are audited;
- *catalogue reads*: a walk over the pages is one listing, and no page shows
  what is not listed;
- *accounts*: unique and whole, whatever fails; sessions admit their owners
  only, while valid; no administrator without a proved second factor, and no
  sign-in unrecorded.

## Modules

    PriceBook ◄─implements── PriceVersions ──── MCPriceVersions, PriceVersionsProofs
        └─────┐
    Pricing ──┴─ CatalogAdmin ──── MCCatalogAdmin ─┬─ PricingProofs
        └─────── Charging ──────── MCCharging ─────┘
    EventStream ◄─implements─ StreamReader ──── MCStreamReader, StreamReaderProofs
        └─────── Completions ───── MCCompletions ──────┬─ GatewayProofs
    RequestLogWriter ───────────── MCRequestLogWriter ─┘
    Ranking ──── ChannelHealth ─── MCChannelHealth, ChannelHealthProofs
    Catalog ────────────────────── MCCatalog, CatalogProofs
    Sessions ───────────────────── MCSessions, SessionsProofs
    AdminAuth ──────────────────── MCAdminAuth, AdminAuthProofs

**PriceBook** is what the price list promises its readers: versions are only
ever added, and the latest that has begun is in force. **PriceVersions**
implements it (`ImplementsBook`, checked and proved). There, `versions` is the
set of committed rows, a row being its subject (billing model and scope), `from`
and `to`; `Begin`, `Lock`, `Close`, `Insert`, `Conflict`, `Commit`, `Rollback` are
the steps of one `PublishPrice` transaction under READ COMMITTED: the `UPDATE`
picks its rows from a snapshot and locks them one by one in any order, waits for
the locks of other writers, and rechecks what they committed; the unique index
makes the `INSERT` wait or fail. Since backdated publishes leave several open
versions, two updates can wait for each other's rows; `Deadlock` is PostgreSQL's
answer, which fails one of them, and nobody who merely waits for them.
`Receive` and `Bill` are a request's two reads. Rates are not modelled there: a
version is its identity.

**Pricing** holds the operators on a price card: parsing and its errors,
`effective` with its eight hops of `same_as`, tiers, `Validate`, and `Charge`
with the 128-bit sum, its rounding and its two errors. Rates of units are not
negative, as the parser sees to; prices of tiers and quantities may be. All twelve units are there, because a
chain of references may lead through any of them; five are charged for, and one
is the fixed fee. `sort.Slice` is not stable, so `SortTiers` is the set of all
orders that ascend, and a parse returns any of them (`Parsings`). The widths of the integers are constants,
so that overflow happens within TLC's reach. **Charging** is the life of a card:
submitted, stored or refused, and applied to a usage.

**CatalogAdmin** is built on both: `book` is the price list, `cards` the rates
of its versions, `models` the table. An admin's handler is one action per
statement (`ReadRow`, `ReadPrice`, `ReadUsage`, the write, `Reread`, `Record`)
and may fail at each of them.

**EventStream** is the order in which a reader may hand out canonical events,
and which result of `Next` ends the stream. **StreamReader** implements it
(`StreamContract`): `reader` is the record of the Go struct; `Consume` is
`consume` as a composition of its steps; `Read...` are the ways `pump` meets a
line, `Deliver...` the ways `Next` returns. `Wire` is `StreamWriter.Write`. A
piece of content is a token, the number of the line it came in and its place in
that line's tool calls, so that what the client reassembles can be compared with
what was sent.

**Completions** is one request, with the reader as `EventStream`. `pc` is the
handler's place; `Build`, `Send`, `DoSucceeds`/`DoFails`, `ClassifyDo` are an
attempt up to the response header, `Decode...` the unary rest, `ReadNext`,
`Tick`, `Write...`, `StreamFails` the streaming loop. `TimerFires`,
`CallbackLoads`, `CallbackStores`, `CallbackCancels` are the watchdog's
goroutine, one atomic access per step. `ClientLeaves` first closes the
connection (writes may fail), then ends the request's context (the upstream
context ends too). Whether an outcome reaches the channel's health is left open
at every `Record`, because the code ignores the error of the statement. Several steps of the
handler that touch only its own variables are one action; between two reads of
what others change there is always a step.

**RequestLogWriter** has `Enqueue` and its three outcomes, the goroutine's
`select`, `writeBatch` with its two kinds of failure (before and after the
commit), `Close` with its timeout, `Kill`.

**Ranking** is a module of operators: policies and their precedence, weights,
speed and rate-limit factors, scores, the stable sort (an element's place is the
number of those that come before it). The sampler's draw is a
parameter, because a Beta posterior gives every interval some weight.
**ChannelHealth** puts it over the reachable rows: `RecordSuccess` and
`RecordFailure` of the data plane, the health checker's sweep (`ListDue`,
`LoadChannel`, `AutoProbe`, `TouchProbe`), the seed, operators, the process's
`Exit` and `Start`. A sweep works on rows it listed earlier, while requests
change them. `Candidates` is the router's list, which fails as a whole when the
credentials of one channel cannot be read.

**Catalog** is a visitor who walks `GET /models` with the cursor of each page,
or opens another page, statement by statement, while `SetModelStatus` and
`Reprice` change the tables in between. The listing's keyset condition, sort
keys with their infinities, defaults and refusals are operators; so are the
boards and the documentation's navigation and headings. Rows come in the order of
their statement (`Sorted`), and in any order that it leaves open (`Sortings`), as
the ties of benchmarks and boards. A board shows what it has data for; the board
of costs leaves out what `Charge` cannot compute (`Chargeable`).

**Sessions** has one action per statement of registration (a transaction, with
the waits of the unique indexes), sign-in, middleware and sign-out; a request
may fail at each, and the answer of a commit or of a sign-out may be lost. **AdminAuth** does the
same for the administrators: the command line's count and insert, the
confirmation, sign-in with a code computed from a secret and a time, audit
records, guards. Both keep, per request, which sessions and accounts were dead
when it arrived: that is what "admitted wrongly" means.

## Runs

| Run | Question | States | Result |
|---|---|---|---|
| `price_versions` | two admins, one subject, three instants, any `effective_from`, a request that outlives the changes | 194,126 | holds, the book is implemented, every publish ends |
| `stream` | three chunks, two tool calls, any order and any end | 235,336 | holds, the contract among it |
| `completions` | two channels in every ranking, both modes, two block events, under fairness | 300,352 | holds, every request ends |
| `request_log` | two handlers with three entries each, room for two, under fairness | 73,400 | accounted, in order, every entry leaves |
| `channel_health` | two channels, two probe intervals, one failure counted, under fairness | 186,560 | reachable, probed for ever, backoff as the row has it |
| `charging` | 678 cards with tiers, references, chains, cycles, edge rates and negative prices, 134 usages | 36,216 | charged exactly or refused, references end, the highest tier applies |
| `catalog_admin` | two admins, two models, one alias, eleven operations of which three are begun | 328,280 | holds |
| `catalog_unpriced` | a comment on the status table | | violated, see Findings |
| `catalog` | four models, six orders, four filters, seven boards, two changes by administrators | 680,797 | holds |
| `catalog_infinity` | a comment on the listing query | | violated, see Findings |
| `sessions` | two browsers, two addresses with like slugs, three requests | 1,770,622 | holds |
| `admin_auth` | two administrators, three requests or commands, codes of two times | 512,870 | holds |

Several properties are conjunctions of parts that one hazard puts together; the
parts are definitions of their own, each with its comment:

| Property | Parts |
|---|---|
| `ContentArrives` | `TypeOK`, `BlocksWellFormed`, `ContentPreserved` |
| `UsageAwaitedIfAsked` | `UsageAwaited`, `NoWaitForUsage` |
| `FailuresReported` | `ReadFailureReported`, `UnaryAttemptsLogged` |
| `EntriesAccounted` | `WriterTypeOK`, `Accounted`, `NothingLeftBehind` |
| `AlwaysReachable` | `TypeOK`, `NoneHidden`, `NeverStarved` |
| `ChargedExactly` | `CardTypeOK`, `ExactCharge`, `LinesAddUp` |
| `PublishChecksHold` | `TypeOK`, `PublishedKeyPriced`, `CompleteIfUntouched` |
| `WalkIsOneListing` | `PagesTypeOK`, `SteadySeenOnce`, `UnknownLast`, `TotalHolds` |
| `PagesShowWhatWasChosen` | `OnlyListedShown`, `OrderKept`, `NavigationGrouped`, `HeadingsOutsideFences` |
| `BoardIsRanking` | `BoardOrdered`, `BoardComplete` |
| `AccountsSound` | `TypeOK`, `OneAccountPerEmail`, `AccountIsWhole` |
| `SessionsAdmitOwners` | `AdmittedWhileValid`, `CookieIsOwn` |
| `EnrolmentSound` | `TypeOK`, `SecondFactorProved`, `SessionsAreTwoFactor`, `SuperAdminExists` |

The type invariants of `PriceVersions` and `Completions`, and
`ClosedBySuccessor`, are not in a run: they are proved.

**Bounds.** `MaxTime` bounds the clocks: three instants allow a version before,
between and after two others, and two ticks let a session of either lifetime be
alive and dead. Two publishers are enough for every pairwise conflict of locks,
and for a circle of two, which needs two open versions; longer circles, and
publishers who wait beside one, are modelled but not in the run. The proofs of
safety are for any number. Three chunks (`MaxLines`, with any end of the
body after them) let two tool calls interleave and let finish, usage and late
content come in every order. Two channels give one fallback with a predecessor
and a successor; `MaxBlocks` 2 puts two content events, hence two rearmings of
the timer, between start and finish. Channel capacity and batch size are 2 so
that both limits are met with three entries per handler. In `channel_health`
`Ceil` 2 and `MaxFailures` 1 give both intervals and the cap; a longer row of
failures changes nothing once the cap is reached. In `charging` an int64 is 31
and a million is 4, so that products, sums and the fixed fee overflow while all
values stay small; the proof is for every width.
`MaxOps` in the last three parts lets three operations overlap, the third to
find what two others left (two registrations and a sign-in, a creation, its
confirmation and a sign-in, an edit between a check and a publication).
`MaxChanges` 2 lets a model leave and return within a walk, or two change.
`RankingCap` 3 makes the cap of a board bite when all four models are listed, and
`MaxCharge` lies below the cost of one of the three prices.

**Symmetry** is used in `sessions` (browsers and addresses: no property or
action tells them apart) and `admin_auth` (administrators). Neither run has a
liveness property. **Deadlock** checking is off in these two runs only: people
may stop sending requests, and the bound on requests makes them. Everywhere
else a module of one finite run has an explicit step that stutters at its end
(`Ended`, `Answered`, `Exited`, ...), so that stopping anywhere else would be
reported.

**Mutants.** A definition named `X_Something` just before `X` is `X` with a
plausible mistake in it (a dropped guard, a missing reset, a flag set too late).
`PROJECT.json` pairs each property with one; with it in place of `X` the property
fails, so the run would notice that mistake in the code.

**Fairness.** Publishing: a statement that can run does, and PostgreSQL
queues lock waiters (SF); it fails one of the updates that wait in a circle,
whichever (WF). Completions: WF for the handler's own steps, for armed
timers and for the steps of a callback; an upstream call is assumed to return
only when its context has ended or the event is queued already, so a silent
upstream is covered. Writes to the client are assumed to return: the data plane
has no write timeout, so a client that reads nothing and stays connected can in
fact block the handler, which the hazard list says. Log writer: the goroutine
runs, the ticker ticks, a write ends by its ten seconds; Go's `select` chooses
at random among ready cases, hence SF for its cases. Health checker: time
passes, the ticker fires, a probe ends by its timeout, and the database does
not refuse to load one channel every time it comes up (SF). Nothing makes the
process end or start: `ProbedForEver` is about channels in service while it runs,
and says nothing of a process that stays down or is restarted without end. Sweeps
may end in every other way, with channels that cannot be probed too. Nothing is assumed of
clients, admins or upstreams.

## Findings

Each is a run that TLC refutes; `PROJECT.json` quotes the sentences.

1. `catalog_unpriced`: an edit gives a published model a billing key without a
   price, and its calls are charged nothing. The code's own table says that a
   listed model must have a price.
2. `catalog_infinity`: a page that ends with an unpriced model and has a
   successor cannot be served, because JSON has no infinity; the models after
   it cannot be reached.

## Observations

What the code does otherwise than a comment or a document has it, or than a
reader would expect. What lies in modelled code is in the models, and the
properties are stated so that they hold in spite of it; some points are about
what the models abstract from, such as the sampler's generator, stored texts and
the cutting of an excerpt, and are only described.

*Prices.*
Versions of one subject may overlap after backdated or concurrent publishes,
although `store/postgres/pricing.go:102` says they neither overlap nor leave a
gap; no reader can tell (`LatestStartedWins`).
A default `effective_from` is read from the clock before the transaction commits
(`catalogadmin/service.go:343`), so a new price also covers requests accepted in
between; `NoRepricingMidRequest` says what remains true of them.

*Charging.*
`ParseRates` refuses negative rates of units but does not look at those of tiers
(`rates.go:116`), nor does `Validate`. A call past the threshold of such a tier
fails with "negative quantity or rate" (`calc.go:84`), and is logged without a
price.
The lines of a bill may differ from its total by more than the one nano of
`pricing/calc.go:144`: each line is rounded, so up to half a nano each
(`LinesAddUp` has the true bound, and is proved). The usage of two tokens of
every unit in `MCCharging` is such a case: four lines that each end in half a
unit are two more than the total.
The 128-bit addition drops its last carry (`calc.go:170`); a sum that large has a
line that overflows, so the bill is refused all the same.
A unit whose `same_as` names a unit that the card does not declare, or is the
first of more than eight, has no rate and is left out of the bill without a
warning, although `calc_test.go:61` says that a reference must lead to a real
rate and not quietly count as 0 (`ReferencesResolve` names these two cases, and
proves that there is no third). Reasoning priced as output is billed at the base
rate of a card with tiers; the deviation check looks at input and output only;
and `sort.Slice` leaves the order of tiers with one threshold open, where
`HighestTierApplies` holds for each.

*Streams and completions.*
After an in-band error the client gets `[DONE]` twice, once from the error event
and once from the stop event.
An upstream's `finish_reason: "error"` makes the encoder panic
(`response.go:147`), half way through a stream and before the attempt is logged.
Streamed attempts that fail before their first event are not logged, unary ones
are. A stream that the upstream cuts off is logged as a success and credited to
the channel. An error event that the reader makes itself counts as a first byte,
so that there is no fallback; and so does the chunk that only names the role.
The `max_tokens` default one channel needs (`driver.go:43`) is written into the
request that the next attempt shares.
The watchdog's callback loads one flag and stores another, and can report a
first-byte timeout for a stream whose first event has just arrived. Content that
follows a `finish_reason` while usage is awaited comes in a block already
stopped (`BlocksWellFormed` demands the full life cycle only of upstreams that
send none).

*Channels.*
`db/queries/routing.sql:61` says that a success clears the rate-limit window,
and line 29 that the candidate query leaves out channels within theirs; neither
statement does. A comment in `health.go` (97-100) has it that a fast but broken
channel should not win; under `fastest`, where speed weighs more than
reliability, it can. A success of ordinary traffic does
not shorten the probe interval, only a probe does. `ManualTest` writes nothing to
the table. Credentials of one channel that cannot be decrypted make the candidate
list of every model it offers fail (`routing.go:42`; `NoneHidden` says so).
Outcomes are recorded without looking at the error (`attempt.go:81`), so that a
database that refuses leaves the channel's health as it was. Concurrent requests
share the sampler's generator without a lock (`health.go:34`).

*Catalogue administration.*
The administrator's detail view falls back to the model's own key when the
billing key has no price (`catalogadmin.go:98`), the lists and the web do not.
`canary_percent` is not validated for `listed`, and the gateway never reads it.
When the second read of a model fails after a write, the change stands without
activity or audit entry. Two models may share a billing key, and a price is
validated for the one it is submitted for.

*Catalogue reads.*
The session-cost ranking takes the twenty models with the dearest input and
then sorts these by cost. `total` is 0 on an empty last page. Percentages are of
the rows shown, not of all. Ranks and counts of a benchmark include models that
are not listed. Two like headings get one anchor. No page of several statements
has a transaction. The excerpt of a search finds its place in the lower-cased
text and cuts the original (`catalog/service.go:591`), whose bytes need not
correspond.

*Accounts.*
When the reply to a registration's commit is lost, a retry is told
`email_taken`, and signing in works. Slugs of like addresses collide when the
clocks agree to the nanosecond within their seconds, and the second registration
gets 409. A new sign-in does not revoke the session before it, and a session
whose cookie never arrived stays until it expires. An administrator whose secret
nobody wrote down cannot enrol again; a code can be used twice within its
window; failed audit records are logged only.

## Proofs

**`PriceVersionsProofs`**: for any sets of subjects, publishers, requests and
any clock bound, every safety property of the price run, and the refinement
(`RefinesBook`). The invariant `IInv` adds to `TypeOK` what a transaction under
way must guarantee: the rows it has found, and those it has locked so far, are
versions of its subject, open as it read them, that begin no later than its own,
and the key of an inserted row is neither in the table nor in another
transaction; a version in
the table is identified by subject and start; and every ended version has its
successor. With it, `LatestStartedWins` follows because a later version that has
begun always exists when an earlier one has ended (the least and greatest
elements of bounded sets of naturals come from well-founded induction).
`NeverUnpriced` and `NoChangeBeforeEffectiveFrom` are then statements about one
`Commit`, `NoRepricingMidRequest` follows from a resolved price never vanishing,
and the refinement from a commit adding one entry while a close changes none.

**`GatewayProofs`** is about `Completions` and `RequestLogWriter`.

*The handler*, for any set of channels, any ranking and streams of any length:
type correctness, `OneAnswer`, `FinalLogIsLast`, `ChannelsJudged` and
`FailuresReported`. None of them is inductive alone. `Silent` adds that nothing is written before the handler
reads an answer; `Phases` that a streamed answer which goes on after its first
event has that event on the connection, and that no error body or completion is
out while the request goes on; `LogInv` that the attempt under way has no entry
yet, and `HealthInv` that an attempt judges its channel only when it is over, so
that its entry and its outcome agree, unless the outcome is lost. The watchdog and the client disturb none of it, since they write neither to
the connection nor to the log: what they change, the error's classification and
whether a write succeeds, the proof leaves open.

*The log writer*, for any number of handlers, channel capacity and batch size:
`EntriesAccounted` and `InOrder`. The invariant follows one
sequence, what is stored, in the batch and in the channel: it has no entry twice,
its entries are those given and neither dropped, lost nor refused, and of one
handler they ascend; and what each place of `run` and `main` implies of the
channel being closed or empty.

**`StreamReaderProofs`**: for any tool calls, any chunks and bodies of any
length, `NeverFakesFinish`, `UsageAwaitedIfAsked`, `ContentArrives` and the
refinement `StreamContract`, which is the contract that `Completions` is modelled
over. The argument is about one sequence, the events delivered followed by those
in the queue. It only grows, and a line of the upstream appends events one by
one: each fits behind those before it (`Fits`, which is the contract event by
event), the blocks it opens and closes are the ones that the reader's fields name
(`Blocks`), and its fragments are those of the lines read so far (`Fragments`).
Together these are `Sound`; each step of `consume` preserves it for the part of
the line it has dealt with, and the tool calls of a line are folded one after the
other. `Deliver` moves the border between delivered and queued and leaves the
sequence alone. `OnWire` then reassembles what was delivered, and since tokens
are ordered as they were sent, every block reads as the upstream wrote it.

**`SessionsProofs`**: for any browsers, addresses, clock ticks and lifetimes,
`AccountsSound`, `SessionsAdmitOwners`, `SignedOutIsRevoked` and `WaitsEnd`. What
a request has read stays true because users, suspensions, revocations and the
clock only grow (`Grow`, `PendingStays`); an open transaction holds its address
and slug against committed rows and other transactions (`TxInv`), which gives
uniqueness at the commit. Who waits for a slug has none yet, so whoever it waits
for is past both waits: hence no circle.

**`AdminAuthProofs`**: for any number of administrators, commands, requests and
codes, `EnrolmentSound`, `NoneAfterDisabled`, `SignInsAudited` and `CodeWindow`.
The first invariant says of each request what it knows: a creation that passed
its count found an administrator or creates a `super_admin`, a confirmation that
verified a code holds the secret of the row or has been overtaken by a
confirmation, and a sign-in past the code belongs to an enabled account. The
second, `KInv`, rests on what only grows (`Wear`: the dead sessions, the disabled
accounts, the records): a request that is admitted still knows what was dead
when it arrived, and a sign-in past its record has that record, or its failure,
behind it. How old an accepted code can be is arithmetic: times whose windows are
neighbours are less than two periods apart, whatever the period (`NextWindow`,
`SameWindow`).

**`PricingProofs`** is about `CatalogAdmin` and `Charging`.

*Publication*, for any number of admins, models, keys and operations:
`PublishChecksHold`, `ChangesAudited` and `ShownPriceIsBilled`. `Pending` says
what an operation still knows of the model and the price it has read; an edit may
falsify it, and then the model counts as edited. `ModelInv` gives every published
key a version that has begun, and `BookInv` every version a model that uses its
key and for whose capabilities the card was checked. The audit is counted: a
change, a record or a failure moves exactly one admin into or out of the set of
those that still have to record. What the web shows and what is billed are two
definitions, of which one picks the latest version that has begun and the other
the one that is in force: there is one such version.

*Charges*, for any cards, usages and width of an integer: `ChargedExactly`,
`ReferencesResolve` and `HighestTierApplies`. The invariant, `CardInv`, only says
which card, rates and usage a result comes from; the matter is in `Charge`. The
recursive functions of `Pricing` are shown to be iterations
(`IterationExists`, by the least number for which none exists), and what holds of
their start and is kept by every step holds at the end (`Climb`). Then:

- a walk along references that goes on for as many steps as there are units has
  met a unit twice, so a card without a cycle lets every walk end, and within
  eight hops it ends at the rate that `effective` finds, or in one of the two
  ways that `ReferencesResolve` names;
- tiers in ascending order replace each other, so the last that the call has
  passed is the highest (`TopOfFirst` is kept by each tier);
- a line with a negative quantity or price refuses the call, so that all products
  of a call that is charged are natural numbers;
- the rounding of a product is within half a unit of it (`Near`), and is an
  amount only if the product is below the square of what an int64 may not reach.
  A 128-bit word holds four of these squares, and five products whose doubles are
  each below one of them do not fill it; so the sum of a call that is not refused
  has not wrapped around, its one rounding is exact, and the roundings of its
  parts add up to it within half a unit each. A sum that does wrap belongs to a
  call in which one product alone is too large, so that the refusal is right.

**`CatalogProofs`**: for any models, prices and results, any requests and any
changes by administrators, `WalkIsOneListing`, `PagesShowWhatWasChosen`,
`WinnersAreShown` and `BoardIsRanking`. All of them compare what a request has
shown with a catalogue that changes under it, and what makes that possible is the
*steady* models, those nobody has touched since it began. The invariant is stated
against the listing of the moment: a change of a model makes it unsteady and leaves
the order and the matching of all others alone (`ChangedOK`, `PickStays`,
`RankStays`).

- `WalkInv`: the steady models up to the cursor have been seen, each once, in
  order, and none beyond it. A page appends the next ones (`PageIsPage`,
  `ServedOK`), because the pair of key and id leaves no ties, so that a row's place
  is the number of rows before it.
- `PickInv`, `BenchInv`, `RankInv`: for each step of a request, what has been
  chosen, loaded and shown. A loaded model was listed when it was loaded, and a
  steady one that was chosen is loaded.
- Where a statement leaves ties open, the proof is for each of its orders: all that
  it uses of a row is that no later one comes before it (`SortingInOrder`).
- The winners, shares, groups and headings are computed by loops. They are
  iterations, and a fact kept by each step holds at the end (`Climb`): the leader
  beats every candidate so far (`Leads`; for cost and score the comparison of
  ratios is transitive only among results that cost something), a group takes in
  neighbours only, the fence is open after an odd number of fences.

**`ChannelHealthProofs`**: for any number of channels and any bound on the
failures, `BackoffMatchesRow` and `AlwaysReachable`. The invariant of the first,
`ListedInv`, says of every listed channel that nobody has disturbed that its row
has the failures it was listed with, and after the probe those the checker
reckons with; no other step makes a row younger. The second is about the ranking
of reachable rows: positions by the number of channels that come before form a
permutation, so nobody is lost or doubled of the candidates that can be read, and a policy that weighs reliability
above speed has a draw (the channel's own best, the others' worst) under which no
other score is higher. (That `nextProbeInterval` stays within its bounds needs a
power of two to be at least 1, which the number of subsets of a set gives.)

The proofs rest on the named assumptions of the modules, which TLC evaluates on
the instances. They say that bounds, periods and lifetimes are natural numbers,
that handlers, admins and channels are finitely many, that `None` and NULL are
none of the values they stand in for, that what admins, callers and upstreams
send is well formed, that a model has one result of a benchmark (a unique
constraint) and finite sort keys unless it has no value, and that there is at
least one subject, key and channel. Three are about values of this code: a million is even and its double is no more
than an int64 reaches (`WidthAssumption`), the weights of a policy are whole
hundredths (`VectorsAssumption`), and no upstream's finish reason is the word
that stands for none (`FinishAssumption`).

Only model-checked: liveness (`PublishEnds`, `EventuallyAnswered`, `EntriesLeave`,
`ProbedForEver`), which is out of the prover's reach, and the two findings, which
are counterexamples. Every invariant and every step property of a passing run is
a theorem.

## Not modelled

- *Capability negotiation, request and response codec*: conversions and checks
  of one request without state; a refusal is one of the rejections of
  `Completions`, and `mapFinishReason` is in `StreamReader`.
- *Search in the documents*: one query and the cutting of its excerpt.
- *Assembly, configuration, middleware, seed, migrations*: start-up wiring and
  fixed rows. The order of shutdown is in `RequestLogWriter`, the constraints of
  the tables in the modules that use them, `Recover` in `Completions`.
- *Platform and observability*: hashing, encryption, identifiers and metrics.
- *Frontends*: presentation over mock data or the HTTP API.
- *OAuth* answers `not_configured`; `auto` models, quotas and payment do not
  exist in the code yet.
- Within the modelled parts, payloads, messages and formats, status codes beyond
  what the code branches on, names and passwords and their rules, and times other
  than their order.

What could follow: an abstract lossy queue for the log writer, and the search in
the documents.
