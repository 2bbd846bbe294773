------------------------------- MODULE Pricing -------------------------------
(***************************************************************************)
(* Price cards: how a submitted card is parsed and validated, and what it  *)
(* charges for the usage of a call.                                        *)
(*                                                                         *)
(* Amounts are integers of a width of the instance: IntMax for int64, the  *)
(* square of its unsigned range for the 128-bit sum, and Million for the   *)
(* divisor.                                                                *)
(***************************************************************************)
EXTENDS Integers, Sequences, FiniteSets, SequencesExt

CONSTANTS
    None,      \* no unit, no time to live, no rate: an empty string, a nil
    IntMax,    \* the largest int64
    Million    \* nanoPerMillionDivisor

(* A million is far below what an int64 holds.                             *)
ASSUME WidthAssumption ==
    /\ IntMax \in Nat \ {0}
    /\ Million \in Nat \ {0} /\ Million % 2 = 0
    /\ 2 * Million <= IntMax + 1

UnsignedBase == 2 * (IntMax + 1)        \* 2^64
WideBase == UnsignedBase * UnsignedBase  \* 2^128

(* Those that are charged for, in the order they are added up, and all:    *)
(* the last five are parsed and validated like the others.                 *)
TokenUnits == <<"input", "output", "cache_read", "cache_write", "reasoning">>
Units == {"input", "output", "cache_read", "cache_write", "reasoning",
          "request_fixed", "input_long_context", "image_per_unit", "audio_per_second",
          "video_per_second", "rerank_per_doc", "batch_discount"}

Amount == 0 .. IntMax

Int64 == -(IntMax + 1) .. IntMax

(* nano and fixed are per_million_nano and per_request_nano.  ParseRates   *)
(* refuses a negative one, as it does a misspelt reference.                *)
Rate == [nano : Amount, fixed : Amount, ttl : {None, "5m", "1h"}, threshold : Int64,
         sameAs : Units \cup {None, "misspelt"}]

(* What a call has used, as the upstream reports it, with the time to live *)
(* of what it wrote to caches.                                             *)
Usage == [input : Int64, output : Int64, cache_read : Int64, cache_write : Int64,
          reasoning : Int64, ttl : {None, "5m", "1h"}, requests : Int64]

ASSUME NoneIsNoRate == None \notin Units /\ None \notin Rate

(* The sign of a tier's prices is not checked.                             *)
Tier == [above : Int64, input : Int64, output : Int64]

IsCard(card) ==
    /\ DOMAIN card = {"units", "tiers"}
    /\ card.units \in [Units -> Seq(Rate)]
    /\ card.tiers \in Seq(Tier)

-----------------------------------------------------------------------------
(* Reading a card.                                                         *)

MaxHops == 8

(* The entry a unit offers for a time to live: the first if none matches.  *)
Entry(list, ttl) ==
    IF ttl # None /\ \E i \in DOMAIN list : list[i].ttl = ttl
    THEN list[CHOOSE i \in DOMAIN list :
                /\ list[i].ttl = ttl
                /\ \A j \in 1 .. (i - 1) : list[j].ttl # ttl]
    ELSE list[1]

Ends(units, u) == units[u] = <<>> \/ units[u][1].sameAs = None

(* Where n references lead, each through the first entry of a unit, or     *)
(* where they end before.                                                  *)
Followed(units, unit, n) ==
    LET at[k \in 0 .. n] ==
            IF k = 0 THEN unit
            ELSE LET v == at[k - 1]
                 IN  IF Ends(units, v) THEN v ELSE units[v][1].sameAs
    IN  at[n]

(* effective: the entry chosen for the time to live, or what its same_as   *)
(* leads to; a nil rate after eight entries.                               *)
effective(units, unit, ttl) ==
    IF units[unit] = <<>> THEN None
    ELSE LET first == Entry(units[unit], ttl)
             last  == Followed(units, first.sameAs, MaxHops - 2)
         IN  IF first.sameAs = None THEN first
             ELSE IF Ends(units, last) /\ units[last] # <<>> THEN units[last][1]
             ELSE None

Declared(units, unit) == effective(units, unit, None) # None

(* rateNano, and PerMillionNano of a declared unit.                        *)
RateNano(units, unit, ttl) ==
    LET r == effective(units, unit, ttl) IN IF r = None THEN 0 ELSE r.nano

(* Mutant: only a unit that refers to itself is a cycle. *)
SameAsCycle_Direct(units) ==
    \E u \in Units : units[u] # <<>> /\ units[u][1].sameAs = u

(* checkSameAsCycles: some chain through first entries comes back.         *)
SameAsCycle(units) ==
    \E u \in Units : ~Ends(units, Followed(units, u, Cardinality(Units)))

(* Mutant: tiers are applied as they were entered. *)
SortTiers_AsEntered(tiers) == {tiers}

(* sort.Slice: any order that ascends, for the sort is not stable.         *)
SortTiers(tiers) ==
    {s \in {[i \in DOMAIN tiers |-> tiers[p[i]]] : p \in Bijection(DOMAIN tiers, DOMAIN tiers)} :
        \A i, j \in DOMAIN s : i < j => s[i].above <= s[j].above}

(* input_long_context is one more tier, that keeps the output rate.        *)
LongContextTiers(units) ==
    [i \in DOMAIN units["input_long_context"] |->
        [above  |-> units["input_long_context"][i].threshold,
         input  |-> units["input_long_context"][i].nano,
         output |-> RateNano(units, "output", None)]]

KnownReferences(units) ==
    \A u \in Units : \A i \in DOMAIN units[u] : units[u][i].sameAs \in Units \cup {None}

Parses(card) == KnownReferences(card.units) /\ ~SameAsCycle(card.units)

(* What ParseRates may return when it does not fail, and one of these.     *)
Parsings(card) ==
    {[units |-> card.units, tiers |-> tiers] :
        tiers \in SortTiers(card.tiers \o LongContextTiers(card.units))}

Parsed(card) ==
    [units |-> card.units,
     tiers |-> CHOOSE tiers \in SortTiers(card.tiers \o LongContextTiers(card.units)) : TRUE]

-----------------------------------------------------------------------------
(* Validate: the issues that block a card and those that only warn.        *)

Has(units, unit) == units[unit] # <<>>

magnitudeOff(actual, reference) ==
    reference > 0 /\ (actual >= reference * 10 \/ actual * 10 <= reference)

Implausible(nano, context) ==
    nano # 0 /\ (nano < context.cheapest \/ nano > context.dearest)

Errors(rates, context) ==
    LET in  == RateNano(rates.units, "input", None)
        out == RateNano(rates.units, "output", None)
    IN  {code \in {"input_rate_missing", "output_rate_missing", "cache_rate_missing",
                   "rate_magnitude_implausible", "rate_deviates_from_upstream",
                   "self_hosted_needs_price", "note_required"} :
          CASE code = "input_rate_missing" -> ~Declared(rates.units, "input")
            [] code = "output_rate_missing" -> ~Declared(rates.units, "output")
            [] code = "cache_rate_missing" ->
                 "cache" \in context.capabilities /\ ~Has(rates.units, "cache_read")
            [] code = "rate_magnitude_implausible" ->
                 \E u \in {"input", "output", "cache_read"} :
                    Implausible(RateNano(rates.units, u, None), context)
            [] code = "rate_deviates_from_upstream" ->
                 \/ Declared(rates.units, "input") /\ magnitudeOff(in, context.reference)
                 \/ Declared(rates.units, "output") /\ magnitudeOff(out, context.reference)
            [] code = "self_hosted_needs_price" ->
                 /\ context.hosting = "self"
                 /\ ~(Declared(rates.units, "input") /\ Declared(rates.units, "output"))
            [] code = "note_required" -> context.recentCalls > 0 /\ ~context.note}

Warnings(rates, context) ==
    {code \in {"reasoning_rate_missing", "output_cheaper_than_input"} :
        IF code = "reasoning_rate_missing"
        THEN "reasoning" \in context.capabilities /\ ~Has(rates.units, "reasoning")
        ELSE /\ Declared(rates.units, "input") /\ Declared(rates.units, "output")
             /\ RateNano(rates.units, "output", None) < RateNano(rates.units, "input", None)}

-----------------------------------------------------------------------------
(* Charge.                                                                 *)

(* The errors of Charge are no amounts.                                    *)
ErrOverflow == -1
ErrNegative == -2

(* divRoundHalfUp(nanoPerMillionDivisor), before its check of the range.   *)
Rounded(a) == (a + Million \div 2) \div Million

(* divRoundHalfUp of a 128-bit value: an error beyond 2^128 or int64.      *)
DivRoundHalfUp(a) ==
    IF a + Million \div 2 >= WideBase \/ Rounded(a) > IntMax THEN ErrOverflow ELSE Rounded(a)

(* The rates of input and output: every tier that the call has passed      *)
(* replaces them, where an output rate of 0 means that it has none.        *)
TierRates(rates, usage) ==
    LET after[n \in 0 .. Len(rates.tiers)] ==
            IF n = 0 THEN [input  |-> RateNano(rates.units, "input", None),
                           output |-> RateNano(rates.units, "output", None)]
            ELSE LET t   == rates.tiers[n]
                     old == after[n - 1]
                 IN  IF usage.input <= t.above THEN old
                     ELSE [input  |-> t.input,
                           output |-> IF t.output > 0 THEN t.output ELSE old.output]
    IN  after[Len(rates.tiers)]

Ttl(usage, unit) == IF unit = "cache_write" THEN usage.ttl ELSE None

UnitNano(rates, usage, unit) ==
    IF unit \in {"input", "output"} THEN TierRates(rates, usage)[unit]
    ELSE RateNano(rates.units, unit, Ttl(usage, unit))

(* The line items of the token units: a unit that is not declared has none. *)
TokenLines(rates, usage) ==
    [u \in {v \in ToSet(TokenUnits) : effective(rates.units, v, Ttl(usage, v)) # None} |->
        [qty |-> usage[u], nano |-> UnitNano(rates, usage, u)]]

(* The amounts of line items, one unit after the other.                    *)
SumOf(amounts) ==
    LET sum[n \in 0 .. Len(TokenUnits)] ==
            IF n = 0 THEN 0
            ELSE sum[n - 1] + (IF TokenUnits[n] \in DOMAIN amounts
                               THEN amounts[TokenUnits[n]] ELSE 0)
    IN  sum[Len(TokenUnits)]

(* u128.add: the carry out of the 128th bit is dropped.                    *)
Wrapped(n) == n % WideBase

Product(line) == line.qty * line.nano

(* The fixed fee is charged for one request at least.                      *)
Requests(usage) == IF usage.requests <= 0 THEN 1 ELSE usage.requests

FixedFee(rates, usage) ==
    LET r == effective(rates.units, "request_fixed", None)
    IN  IF r = None THEN 0 ELSE r.fixed * Requests(usage)

(* Mutant: the sum of the line items, each rounded on its own. *)
Total_OfLines(rates, usage) ==
    LET lines == TokenLines(rates, usage)
    IN  SumOf([u \in DOMAIN lines |-> Rounded(Product(lines[u]))]) + FixedFee(rates, usage)

(* One rounding of the exact sum, then the fixed fee by mulInt64 and       *)
(* addInt64, which fail beyond int64.                                      *)
Total(rates, usage) ==
    LET lines  == TokenLines(rates, usage)
        tokens == DivRoundHalfUp(Wrapped(SumOf([u \in DOMAIN lines |-> Product(lines[u])])))
        fixed  == FixedFee(rates, usage)
    IN  IF tokens = ErrOverflow \/ fixed > IntMax THEN ErrOverflow
        ELSE IF tokens + fixed > IntMax THEN ErrOverflow
        ELSE tokens + fixed

LineAmount(line) == DivRoundHalfUp(Product(line))

Negative(line) == line.qty < 0 \/ line.nano < 0

ChargeFails(error) == [total |-> error, lines |-> <<>>, fixed |-> 0]

(* The total and the items shown to the user, whose amounts are rounded    *)
(* one by one; the whole call fails if one of them does, or is negative.   *)
Charge(rates, usage) ==
    LET lines == TokenLines(rates, usage)
        total == Total(rates, usage)
    IN  IF \E u \in DOMAIN lines : Negative(lines[u]) THEN ChargeFails(ErrNegative)
        ELSE IF total = ErrOverflow \/ \E u \in DOMAIN lines : LineAmount(lines[u]) = ErrOverflow
        THEN ChargeFails(ErrOverflow)
        ELSE [total |-> total,
              lines |-> [u \in DOMAIN lines |->
                            [qty |-> lines[u].qty, nano |-> lines[u].nano,
                             amount |-> LineAmount(lines[u])]],
              fixed |-> FixedFee(rates, usage)]

=============================================================================
