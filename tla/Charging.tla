------------------------------- MODULE Charging -------------------------------
(***************************************************************************)
(* What a price version charges for one call: a submitted price card is    *)
(* parsed, validated and then applied to a usage.                          *)
(***************************************************************************)
EXTENDS Pricing

CONSTANTS
    Cards,     \* the cards that may be submitted
    Contexts,  \* what Validate knows of their model
    Usages     \* the usages of calls

ASSUME CardsAssumption == \A c \in Cards : IsCard(c)
ASSUME UsagesAssumption == Usages \subseteq Usage

-----------------------------------------------------------------------------
(* The life of a card: ParseRates and Validate when it is submitted, then  *)
(* a call that is charged by it.                                           *)

VARIABLES
    card,     \* as submitted, and what Validate is told about its model
    context,
    stage,
    rates,    \* what ParseRates returned
    usage,    \* of a call
    result    \* of Charge

cardVars == <<card, context, stage, rates, usage, result>>

CardInit ==
    /\ card \in Cards /\ context \in Contexts
    /\ stage = "submitted" /\ rates = None /\ usage = None /\ result = None

Parse ==
    /\ stage = "submitted" /\ Parses(card)
    /\ rates' \in Parsings(card)
    /\ stage' = "parsed"
    /\ UNCHANGED <<card, context, usage, result>>

ParseFails ==
    /\ stage = "submitted" /\ ~Parses(card)
    /\ stage' = "refused"
    /\ UNCHANGED <<card, context, rates, usage, result>>

(* Warnings are shown to the admin and do not stop the card.               *)
Accept ==
    /\ stage = "parsed" /\ Errors(rates, context) = {}
    /\ stage' = IF Warnings(rates, context) = {} THEN "published" ELSE "published with warnings"
    /\ UNCHANGED <<card, context, rates, usage, result>>

HasErrors ==
    /\ stage = "parsed" /\ Errors(rates, context) # {}
    /\ stage' = "refused"
    /\ UNCHANGED <<card, context, rates, usage, result>>

Published == stage \in {"published", "published with warnings"}

Call ==
    /\ Published
    /\ usage' \in Usages
    /\ result' = Charge(rates, usage')
    /\ stage' = "charged"
    /\ UNCHANGED <<card, context, rates>>

Done == stage \in {"refused", "charged"} /\ UNCHANGED cardVars

CardNext == Parse \/ ParseFails \/ Accept \/ HasErrors \/ Call \/ Done

CardSpec == CardInit /\ [][CardNext]_cardVars

-----------------------------------------------------------------------------
CardTypeOK ==
    /\ IsCard(card)
    /\ stage \in {"submitted", "parsed", "refused", "published", "published with warnings", "charged"}
    /\ rates # None => IsCard(rates)
    /\ result # None => result.total \in Amount \cup {ErrOverflow, ErrNegative}

Charged == stage = "charged" /\ result.total \in Amount

Exact(lines) == SumOf([u \in DOMAIN lines |-> Product(lines[u])])

(* One rounding discipline (calc.go:42-56): what is charged for tokens is  *)
(* the exact sum rounded half up, once, and an error only if the amount    *)
(* cannot be an int64, or a quantity or a price of the call is negative,   *)
(* as that of a tier may be; no intermediate product or sum wraps around.  *)
ExactCharge ==
    LET lines == TokenLines(rates, usage)
        fixed == FixedFee(rates, usage)
        half  == Million \div 2
        negative == \E u \in DOMAIN lines : Negative(lines[u])
    IN  /\ Charged =>
             LET tokens == result.total - fixed IN
             /\ ~negative
             /\ Exact(lines) - Million * tokens < half
             /\ Million * tokens - Exact(lines) <= half
        /\ (stage = "charged" /\ ~Charged) =>
             negative \/ Exact(lines) + half >= Million * (IntMax + 1 - fixed)

Items(r) == SumOf([u \in DOMAIN r.lines |-> r.lines[u].amount]) + r.fixed

(* What the user can add up (calc.go:142-144): the items of a call differ  *)
(* from its total by no more than half a unit for each item and the total. *)
LinesAddUp ==
    Charged =>
        LET items == Items(result)
            slack == Cardinality(DOMAIN result.lines) + 1
        IN  2 * (items - result.total) <= slack /\ 2 * (result.total - items) <= slack

(* The units a unit's price may come from.                                 *)
SourcesOf(u) ==
    LET Refers(v, w) == card.units[v] # <<>> /\ card.units[v][1].sameAs = w
        within[n \in 0 .. Cardinality(Units)] ==
            IF n = 0 THEN {u}
            ELSE LET nearer == within[n - 1]
                 IN  nearer \cup {w \in Units : \E v \in nearer : Refers(v, w)}
    IN  within[Cardinality(Units)]

(* same_as is explicit (rates.go:100-103): in a card that was parsed every *)
(* declared unit has a rate, found in one of the units it refers to,       *)
(* unless one of those is not declared, or they are more than the eight    *)
(* that are followed: no unit is free because it refers to itself.         *)
ReferencesResolve ==
    stage # "submitted" /\ rates # None =>
        \A u \in Units : card.units[u] # <<>> =>
            \/ \E v \in SourcesOf(u) :
                 \E i \in DOMAIN card.units[v] : effective(rates.units, u, None) = card.units[v][i]
            \/ \E v \in SourcesOf(u) : card.units[v] = <<>>
            \/ Cardinality(SourcesOf(u)) > MaxHops

(* Long contexts (calc.go:66-75): the input price is that of the highest   *)
(* threshold the call has passed, in whatever order the card lists them,   *)
(* and the base price if it has passed none.                               *)
HighestTierApplies ==
    Charged =>
        LET all    == ToSet(card.tiers) \cup ToSet(LongContextTiers(card.units))
            passed == {t \in all : usage.input > t.above}
            top    == {t \in passed : \A s \in passed : s.above <= t.above}
        IN  "input" \in DOMAIN result.lines =>
                IF top = {} THEN result.lines["input"].nano = RateNano(card.units, "input", None)
                ELSE \E t \in top : result.lines["input"].nano = t.input

(* What a call costs, in total and line by line, is what the card says.    *)
ChargedExactly == CardTypeOK /\ ExactCharge /\ LinesAddUp

=============================================================================
