------------------------------- MODULE Ranking -------------------------------
(***************************************************************************)
(* How one request orders the channels that offer its model: the policy    *)
(* that applies to it, the score of every candidate, and a stable sort.    *)
(*                                                                         *)
(* Scores are integers: weights and factors are in hundredths, so a base   *)
(* score is in ten-thousandths; the rate-limit guard is in tenths of the   *)
(* window.  The sampler's Beta draw is not computed: it may be any value,  *)
(* because a Beta posterior gives every interval of [0,1] some weight.     *)
(***************************************************************************)
EXTENDS Integers, Sequences, FiniteSets

CONSTANT
    RampWindow  \* rampWindow, and rateLimitBackoffSeconds, in ticks of the clock

ASSUME RampAssumption == RampWindow \in Nat \ {0}

Strategies == {"balanced", "smartest", "fastest", "reliable", "custom", "priority"}

presetWeights ==
    [balanced |-> [reliability |-> 50, speed |-> 25, intelligence |-> 25],
     smartest |-> [reliability |-> 35, speed |-> 10, intelligence |-> 55],
     fastest  |-> [reliability |-> 35, speed |-> 55, intelligence |-> 10],
     reliable |-> [reliability |-> 70, speed |-> 15, intelligence |-> 15]]

(* ValidateCustomWeights: what blocks a vector from being stored.          *)
ValidCustomWeights(w) ==
    /\ w.reliability + w.speed + w.intelligence = 100
    /\ w.reliability >= 0 /\ w.speed >= 0 /\ w.intelligence >= 0

(* ResolveWeights, with Rank's retreat to balanced when the strategy has   *)
(* no weights: an unknown name, or custom without a vector.                *)
ResolveWeights(policy) ==
    IF policy.strategy = "custom" /\ policy.weights # <<>> THEN policy.weights[1]
    ELSE IF policy.strategy \in DOMAIN presetWeights THEN presetWeights[policy.strategy]
    ELSE presetWeights.balanced

(* What UpsertRoutingPolicy refuses to store.                              *)
StorablePolicy(policy) ==
    policy.strategy = "custom" =>
        policy.weights # <<>> /\ ValidCustomWeights(policy.weights[1])

(* ResolveRoutingPolicy: model, then workspace, then global, as a whole.   *)
Precedence == [model |-> 1, workspace |-> 2, global |-> 3]

(* policies holds at most one policy for each scope; ResolvePolicy falls   *)
(* back to balanced and three attempts when no scope has one.              *)
ResolvePolicy(policies) ==
    LET scopes == DOMAIN policies
    IN  IF scopes = {} THEN [strategy |-> "balanced", weights |-> <<>>, depth |-> 3]
        ELSE policies[CHOOSE s \in scopes : \A t \in scopes : Precedence[s] <= Precedence[t]]

-----------------------------------------------------------------------------
(* A candidate is [channel, priority, weight, limited, speed, failures]:   *)
(* limited is what is left of its rate-limit window, speed is              *)
(* speedFactor(latency_ema_ms).                                            *)

(* speedFactor: neutral for a channel that has no latency yet.             *)
fastMs == 200
slowMs == 5000

speedFactor(latencyMs) ==
    IF latencyMs = <<>> THEN 50
    ELSE IF latencyMs[1] <= fastMs THEN 100
    ELSE IF latencyMs[1] >= slowMs THEN 0
    ELSE 100 - (100 * (latencyMs[1] - fastMs)) \div (slowMs - fastMs)

RateLimitFactor(remaining) ==
    IF remaining = 0 THEN 10 * RampWindow
    ELSE IF remaining >= RampWindow THEN RampWindow
    ELSE RampWindow + 9 * (RampWindow - remaining)

(* Mutant: FixedSampler's posterior mean instead of a draw. *)
Reliability_Mean(c, sample) == IF c.failures = 0 THEN 100 ELSE 0

(* BetaSample(alpha, beta): drawn anew for each decision.                  *)
Reliability(c, sample) == sample[c.channel]

intelligenceBaseline == 50

BaseScore(c, w, sample) ==
      w.reliability * Reliability(c, sample)
    + w.speed * c.speed
    + w.intelligence * intelligenceBaseline

ScoreChannel(c, w, sample) ==
    BaseScore(c, w, sample) * RateLimitFactor(c.limited)

(* The stable sort of raw: before has the pairs of its positions the first *)
(* of which is compared as less, and equals keep their order.  Every       *)
(* position gets its place by the number of those that come before it.     *)
ComesBefore(before, i, j) == <<i, j>> \in before \/ (<<j, i>> \notin before /\ i < j)

StableSort(raw, before) ==
    LET place == [j \in DOMAIN raw |->
                    1 + Cardinality({i \in DOMAIN raw : ComesBefore(before, i, j)})]
    IN  [k \in DOMAIN raw |-> raw[CHOOSE j \in DOMAIN raw : place[j] = k]]

Positions(raw) == (DOMAIN raw) \X (DOMAIN raw)

rankByPriority(raw) ==
    StableSort(raw, {p \in Positions(raw) :
        LET x == raw[p[1]]
            y == raw[p[2]]
        IN  x.priority > y.priority \/ (x.priority = y.priority /\ x.weight > y.weight)})

rankByScore(raw, w, sample) ==
    LET score == [i \in DOMAIN raw |-> ScoreChannel(raw[i], w, sample)]
    IN  StableSort(raw, {p \in Positions(raw) : score[p[1]] > score[p[2]]})

(* A depth that is not positive, or is too large, means all of them.       *)
Depth(policy, n) ==
    IF policy.depth <= 0 \/ policy.depth > n THEN n ELSE policy.depth

Rank(raw, policy, sample) ==
    LET ranked == IF policy.strategy = "priority" THEN rankByPriority(raw)
                  ELSE rankByScore(raw, ResolveWeights(policy), sample)
    IN  SubSeq(ranked, 1, Depth(policy, Len(raw)))

=============================================================================
