---------------------------- MODULE ChannelHealth ----------------------------
(***************************************************************************)
(* The health of channels: the rows of the table channels, written by the  *)
(* data plane after each attempt and by the background health checker      *)
(* after each probe, and read back by the router and by the checker.       *)
(*                                                                         *)
(* Time is relative: a row holds what is left of its rate-limit window and *)
(* how long ago it was probed, in ticks of probeIntervalFloor seconds.     *)
(* health_alpha, health_beta and latency_ema_ms only feed the score, where *)
(* Ranking allows every value, and are left out.                           *)
(***************************************************************************)
EXTENDS Ranking, SequencesExt

CONSTANTS
    Channels,     \* rows of channels, all offering the one model asked for
    Reseeded,     \* bound: those the seed links to the model while the server runs
    Vectors,      \* weight vectors that admins ask for
    Ceil,         \* probeIntervalCeil / probeIntervalFloor
    MaxFailures   \* bound: more consecutive failures are counted as this many

ASSUME HealthAssumption ==
    /\ IsFiniteSet(Channels) /\ Reseeded \subseteq Channels
    /\ Ceil \in Nat \ {0}
    /\ MaxFailures \in Nat \ {0} /\ 2 ^ MaxFailures >= Ceil

(* Vectors in hundredths, as Ranking counts.                               *)
ASSUME VectorsAssumption ==
    Vectors \subseteq [reliability : Int, speed : Int, intelligence : Int]

VARIABLES
    channels,   \* the table
    links,      \* channel_models: what the row of a channel for the model says
    pc,         \* where HealthChecker.Run is; down: the process does not run
    due,        \* what is left of the sweep: rows as ListChannelsDueForProbe read them
    ok,         \* result.OverallOK of the probe at hand
    disturbed   \* history: those still in due whose row no longer is what it implies

vars == <<channels, links, pc, due, ok, disturbed>>

Floor == 1          \* probeIntervalFloor
MaxAge == Ceil + 1  \* a longer time since the last probe makes no difference

Row == [status   : {"active", "disabled"},
        failures : 0 .. MaxFailures,
        limited  : 0 .. RampWindow,
        interval : Floor .. Ceil,
        age      : 0 .. MaxAge]

DueChannel == [id : Channels, failures : 0 .. MaxFailures]

(* CreateChannel: active, never probed, with the defaults of the table.    *)
NewRow == [status |-> "active", failures |-> 0, limited |-> 0,
           interval |-> Floor, age |-> MaxAge]

Init ==
    /\ channels = [c \in Channels |-> NewRow]
    /\ links = [c \in Channels |-> IF c \in Reseeded THEN "none" ELSE "probe"]
    /\ pc = "select" /\ due = <<>> /\ ok = FALSE
    /\ disturbed = {}

-----------------------------------------------------------------------------
(* The statements on the table.                                            *)

UpTo(n, bound) == IF n > bound THEN bound ELSE n

(* RecordChannelSuccess: the rate-limit window is not touched.             *)
AfterSuccess(row) == [row EXCEPT !.failures = 0]

(* RecordChannelFailure: the window starts again from now().               *)
AfterFailure(row, rateLimited) ==
    [row EXCEPT !.failures = UpTo(@ + 1, MaxFailures),
                !.limited  = IF rateLimited THEN RampWindow ELSE @]

(* TouchChannelProbe.                                                      *)
AfterTouch(row, next) == [row EXCEPT !.age = 0, !.interval = next]

(* Mutant: a channel is not probed while it is failing. *)
IsDue_OnlyHealthy(row) ==
    row.status = "active" /\ row.failures < MaxFailures /\ row.age > row.interval

(* ListChannelsDueForProbe: never probed, or not for longer than interval. *)
IsDue(row) == row.status = "active" /\ row.age > row.interval

(* ListCandidateChannels: every active channel that offers the model.      *)
IsCandidate(c) == links[c] # "none" /\ channels[c].status = "active"

(* GetProbeChannelModel finds a row: ChannelDriverInfo has a model to ask. *)
GetProbeModel(c) == links[c] = "probe"

(* ListCandidates: what the router sees of the table, in any order of its  *)
(* rows.  There is no list, but an error, when the credentials or quirks   *)
(* of a single candidate cannot be read.                                   *)
Candidates(readable, speed) ==
    {[i \in DOMAIN s |-> [channel |-> s[i], priority |-> 0, weight |-> 100,
                          limited |-> channels[s[i]].limited, speed |-> speed[s[i]],
                          failures |-> channels[s[i]].failures]] :
        s \in {t \in SetToSeqs({c \in Channels : IsCandidate(c)}) : Range(t) \subseteq readable}}

-----------------------------------------------------------------------------
(* Time, and the data plane: any attempt of any request may record its     *)
(* outcome at any time, also on a channel disabled since it was ranked.    *)

Tick ==
    /\ channels' = [c \in Channels |->
                      [channels[c] EXCEPT !.age = UpTo(@ + 1, MaxAge),
                                          !.limited = IF @ = 0 THEN 0 ELSE @ - 1]]
    /\ UNCHANGED <<links, pc, due, ok, disturbed>>

Listed == {due[i].id : i \in DOMAIN due}

RecordSuccess(c) ==
    /\ channels' = [channels EXCEPT ![c] = AfterSuccess(@)]
    /\ disturbed' = disturbed \cup ({c} \cap Listed)
    /\ UNCHANGED <<links, pc, due, ok>>

RecordFailure(c) ==
    /\ \E rateLimited \in BOOLEAN :
         channels' = [channels EXCEPT ![c] = AfterFailure(@, rateLimited)]
    /\ disturbed' = disturbed \cup ({c} \cap Listed)
    /\ UNCHANGED <<links, pc, due, ok>>

(* UpsertChannelModel: the seed offers the model through a channel, and    *)
(* may mark it as the one to probe or take the mark away.                  *)
UpsertChannelModel(c) ==
    /\ c \in Reseeded
    /\ \E l \in {"serving", "probe"} : links' = [links EXCEPT ![c] = l]
    /\ UNCHANGED <<channels, pc, due, ok, disturbed>>

(* An operator takes a channel in or out of service; no code does.         *)
SetStatus(c) ==
    /\ \E s \in {"active", "disabled"} : channels' = [channels EXCEPT ![c].status = s]
    /\ UNCHANGED <<links, pc, due, ok, disturbed>>

-----------------------------------------------------------------------------
(* The health checker.                                                     *)

nextProbeInterval(failures) == UpTo(2 ^ failures * Floor, Ceil)

(* tick: the sweep goes through the rows as they were listed.              *)
ListDue ==
    /\ pc = "select"
    /\ \E s \in SetToSeqs({c \in Channels : IsDue(channels[c])}) :
         due' = [i \in DOMAIN s |-> [id |-> s[i], failures |-> channels[s[i]].failures]]
    /\ due' # <<>>
    /\ pc' = "load"
    /\ UNCHANGED <<channels, links, ok, disturbed>>

(* The checker goes on to the next channel, or back to its select.         *)
NextChannel ==
    /\ due' = Tail(due)
    /\ pc' = IF Len(due) = 1 THEN "select" ELSE "load"
    /\ ok' = FALSE
    /\ disturbed' = disturbed \ {Head(due).id}
    /\ UNCHANGED links

(* probeOne: the channel is passed over, and stays due, when its row or    *)
(* its probe model cannot be read, or it has no probe model.               *)
SkipChannel ==
    /\ pc = "load"
    /\ NextChannel /\ UNCHANGED channels

LoadChannel ==
    /\ pc = "load" /\ GetProbeModel(Head(due).id)
    /\ pc' = "probe"
    /\ UNCHANGED <<channels, links, due, ok, disturbed>>

(* How runProbe may end, and the checks of classifyProbeError that pass.   *)
ProbeOutcomes == {"not_built", "no_answer", "401", "402", "403", "404", "other", "undecoded", "answered"}

ChecksPassed(outcome) ==
    CASE outcome \in {"not_built", "no_answer"} -> {}
      [] outcome \in {"401", "402", "403"} -> {"connectivity"}
      [] outcome = "404" -> {"connectivity", "auth"}
      [] outcome \in {"other", "undecoded"} -> {"connectivity", "auth", "model"}
      [] outcome = "answered" -> {"connectivity", "auth", "model", "parse"}

OverallOK(outcome) == "parse" \in ChecksPassed(outcome)

(* AutoProbe: the outcome is recorded, though an error of the statement is *)
(* ignored.  The rate-limit window is left alone even after a 429.         *)
AutoProbe ==
    /\ pc = "probe"
    /\ \E outcome \in ProbeOutcomes :
         LET c == Head(due).id IN
         /\ ok' = OverallOK(outcome)
         /\ \/ /\ channels' = [channels EXCEPT ![c] =
                                 IF ok' THEN AfterSuccess(@) ELSE AfterFailure(@, FALSE)]
               /\ UNCHANGED disturbed
            \/ channels' = channels /\ disturbed' = disturbed \cup {c}
    /\ pc' = "touch"
    /\ UNCHANGED <<links, due>>

(* Mutant: the probe's own failure is not counted. *)
Failures_Listed(ch) == IF ok THEN 0 ELSE ch.failures

(* The checker's own count: as listed, plus this probe.                    *)
Failures(ch) == IF ok THEN 0 ELSE UpTo(ch.failures + 1, MaxFailures)

TouchProbe ==
    /\ pc = "touch"
    /\ channels' = [channels EXCEPT ![Head(due).id] =
                      AfterTouch(@, nextProbeInterval(Failures(Head(due))))]
    /\ NextChannel

(* The error is only logged: the channel is due again at the next tick.    *)
TouchProbeFails ==
    /\ pc = "touch"
    /\ NextChannel /\ UNCHANGED channels

(* The process ends, by a signal or a crash: what has been recorded stays, *)
(* the sweep is forgotten.  Statements it has sent may still commit.       *)
Exit ==
    /\ pc # "down" /\ pc' = "down"
    /\ due' = <<>> /\ ok' = FALSE /\ disturbed' = {}
    /\ UNCHANGED <<channels, links>>

Start ==
    /\ pc = "down" /\ pc' = "select"
    /\ UNCHANGED <<channels, links, due, ok, disturbed>>

-----------------------------------------------------------------------------
Check == SkipChannel \/ LoadChannel \/ AutoProbe \/ TouchProbe \/ TouchProbeFails

DataPlane == \E c \in Channels : RecordSuccess(c) \/ RecordFailure(c)

Next ==
    \/ Tick
    \/ DataPlane
    \/ \E c \in Channels : SetStatus(c) \/ UpsertChannelModel(c)
    \/ ListDue \/ Check
    \/ Exit \/ Start

(* Time passes; the ticker of Run fires and its listing does not fail for  *)
(* ever; every step of a sweep ends, the probe within probeTimeout; the    *)
(* database does not refuse every time to load a channel that comes up     *)
(* again and again, and its credentials can be read.  Nothing makes the    *)
(* process end or start.                                                   *)
Fairness ==
    /\ WF_vars(Tick)
    /\ WF_vars(ListDue)
    /\ WF_vars(Check)
    /\ \A c \in Channels : SF_vars(LoadChannel /\ Head(due).id = c)

Spec == Init /\ [][Next]_vars /\ Fairness

-----------------------------------------------------------------------------
(* Rows keep their ranges, and a sweep never holds a channel twice.        *)
TypeOK ==
    /\ channels \in [Channels -> Row]
    /\ links \in [Channels -> {"none", "serving", "probe"}]
    /\ pc \in {"down", "select", "load", "probe", "touch"}
    /\ due \in Seq(DueChannel)
    /\ pc \in {"down", "select"} <=> due = <<>>
    /\ \A i, j \in DOMAIN due : due[i].id = due[j].id => i = j
    /\ ok \in BOOLEAN
    /\ disturbed \subseteq Listed

(* Retired is not abandoned (healthcheck.go:38-40): a channel that stays   *)
(* in service and has a probe model is probed again and again, however     *)
(* often it fails and whatever becomes of the sweeps and of the channels   *)
(* listed beside it, as long as the process runs.                          *)
ProbedForEver ==
    \A c \in Channels :
        /\ <>[](channels[c].status = "active" /\ links[c] = "probe")
        /\ <>[](pc # "down")
        =>
            []<>(pc = "touch" /\ Head(due).id = c)

(* The interval a probe leaves follows the consecutive failures in the row *)
(* (healthcheck.go:33-37), unless an outcome was recorded by a request, or *)
(* was lost, since the row was listed: the checker reckons with the count  *)
(* it has read, the database with the one it holds.                        *)
BackoffMatchesRow ==
    [][\A c \in Channels \ disturbed :
         (pc = "touch" /\ c = Head(due).id /\ channels'[c].age < channels[c].age) =>
            channels'[c].interval = nextProbeInterval(channels[c].failures)]_vars

-----------------------------------------------------------------------------
(* The router over the reachable tables.                                   *)

Samples == [Channels -> {0, 100}]

Preset(strategy, depth) == [strategy |-> strategy, weights |-> <<>>, depth |-> depth]

(* The policies of one attempt: the presets, and those with a vector.      *)
Policies ==
    {p \in {Preset(s, 1) : s \in Strategies}
            \cup {[strategy |-> "custom", weights |-> <<w>>, depth |-> 1] : w \in Vectors} :
        StorablePolicy(p)}

(* What routing_policies may hold for a request: nothing, or policies of   *)
(* several scopes.                                                         *)
PolicyTables ==
    {<<>>, [global |-> Preset("priority", 0)],
     [global |-> Preset("balanced", 3), workspace |-> Preset("priority", 1)],
     [workspace |-> Preset("balanced", 1), model |-> Preset("reliable", 0)]}

(* Whatever the health of the channels, a request is offered one as long   *)
(* as one is in service, and with a depth of at least their number, or of  *)
(* 0, every one: a window, a run of failures or a long probe interval      *)
(* hides none.  Only the credentials can: those of one channel in service  *)
(* that cannot be read hide them all, those of any other channel none.     *)
NoneHidden ==
    LET active == {c \in Channels : channels[c].status = "active" /\ links[c] # "none"}
        speed  == [c \in Channels |-> speedFactor(<<>>)]
        sample == [c \in Channels |-> 0]
    IN  \A readable \in SUBSET Channels :
            /\ Candidates(readable, speed) # {} <=> active \subseteq readable
            /\ \A raw \in Candidates(readable, speed), policies \in PolicyTables :
                LET policy == ResolvePolicy(policies)
                    ranked == Rank(raw, policy, sample)
                IN  /\ active # {} => ranked # <<>>
                    /\ policy.depth <= 0 \/ policy.depth >= Cardinality(active) =>
                          {ranked[i].channel : i \in DOMAIN ranked} = active

(* No starvation (health.go:33-36, routing migration :48-50): under every  *)
(* policy that weighs reliability above speed, some draw puts a channel in *)
(* service whose window is closed before every other, however often it has *)
(* failed and however slow it is.                                          *)
NeverStarved ==
    \A c \in Channels : IsCandidate(c) /\ channels[c].limited = 0 =>
        LET speed == [d \in Channels |-> speedFactor(<<IF d = c THEN slowMs ELSE fastMs>>)] IN
        \A policy \in {p \in Policies : /\ p.strategy # "priority"
                                         /\ ResolveWeights(p).reliability > ResolveWeights(p).speed} :
            \E sample \in Samples :
                \A readable \in SUBSET Channels : \A raw \in Candidates(readable, speed) :
                    Rank(raw, policy, sample)[1].channel = c

(* Bad health lowers a channel in the order of a request, and never takes  *)
(* away every chance of it being tried.                                    *)
AlwaysReachable == TypeOK /\ NoneHidden /\ NeverStarved

=============================================================================
