---------------------------- MODULE MCCatalogAdmin ----------------------------
(* Two admins, a model that exists and one that may be created, and an     *)
(* alias that both may be billed under.                                    *)
EXTENDS CatalogAdmin

CONSTANTS m1, m2, alias

MCSubjects == {m1, m2, alias}
MCModels == {m1, m2}
MCDrafts == {m1}
MCFirstKey == [m \in MCDrafts |-> alias]
MCInstants == 0 .. 1

Rates1(nano) == <<[nano |-> nano, fixed |-> 0, ttl |-> None, sameAs |-> None, threshold |-> 0]>>

Card(priced) ==
    [units |-> [u \in Units |-> IF u \in DOMAIN priced THEN Rates1(priced[u]) ELSE <<>>],
     tiers |-> <<>>]

Full == Card([input |-> 2, output |-> 4, cache_read |-> 1])
Plain == Card([input |-> 2, output |-> 4])
Dumping == Card([input |-> 1, output |-> 0, cache_read |-> 1])

Edit(m, key, capabilities) ==
    [kind |-> "edit", model |-> m,
     metadata |-> [hosting |-> "cloud", capabilities |-> capabilities, billing |-> key]]
Price(m, card, from, note, confirm) ==
    [kind |-> "price", model |-> m, card |-> card, from |-> from, note |-> note, confirm |-> confirm]
PublishAs(m, status, percent) ==
    [kind |-> "publish", model |-> m, status |-> status, percent |-> percent]

MCAsked ==
    {Edit(m1, alias, {}), Edit(m1, m1, {"cache"}), Edit(m2, alias, {}),
     Price(m1, Full, None, TRUE, FALSE), Price(m1, Plain, 1, TRUE, TRUE),
     Price(m1, Dumping, 1, FALSE, TRUE), Price(m2, Plain, None, FALSE, FALSE),
     PublishAs(m1, "listed", None), PublishAs(m1, "canary", 10), PublishAs(m1, "canary", 101),
     [kind |-> "delist", model |-> m1]}

(* Nobody called, or, as for m1 only, somebody did at a cost.              *)
Unused == [calls |-> 0, input |-> 0, output |-> 0, cost |-> 0]
Used == [calls |-> 1, input |-> 4, output |-> 4, cost |-> 5]
MCWindows == [m \in MCModels |-> IF m = m1 THEN {Unused, Used} ELSE {Unused}]

===============================================================================
