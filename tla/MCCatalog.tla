------------------------------ MODULE MCCatalog ------------------------------
(* Four models of two providers: two of them cost the same, one may have no price, and the
   order by input price is not the order by the price of a session.  A session at the dearest
   price costs more than can be charged. *)
EXTENDS Catalog

MCModels == 1 .. 4

Row(provider, capabilities, quality, throughput, tokens, released, rank) ==
    [provider |-> provider, capabilities |-> capabilities,
     context |-> IF quality = None THEN None ELSE 8 * quality, quality |-> quality,
     throughput |-> throughput,
     tokens |-> [day |-> tokens \div 10, week |-> tokens \div 2, month |-> tokens],
     released |-> released, open |-> quality # None, featured |-> released > 1,
     featuredRank |-> rank, activity |-> 1 .. released]

MCFacts == <<Row("pa", {"tools"}, 7, 30, 10, 1, None),
             Row("pa", {}, None, 30, 0, 2, 2),
             Row("pb", {"tools"}, 9, None, 40, 3, None),
             Row("pb", {"json"}, 7, 50, 40, 4, 1)>>

Cheap == [input |-> 1, output |-> 9]
Even == [input |-> 2, output |-> 2]
Dear == [input |-> 9, output |-> 9]
MCPrices == {Cheap, Even, Dear, None}

MCCatalogues == {[listed |-> l, price |-> <<Cheap, Even, p, Even>>] :
                    l \in {{1, 2, 3}, {1, 2, 3, 4}}, p \in {None, Even}}

Result(m, score, cost, duration) ==
    [benchmark |-> "b1", model |-> m, score |-> score, cost |-> cost, duration |-> duration]
MCResults == {Result(1, 9, 3, 5), Result(2, 7, 0, 4), Result(3, 9, 2, 0), Result(4, 5, 1, 4),
              [Result(2, 4, 2, 2) EXCEPT !.benchmark = "b2"]}

MCBodies == UNION {[1 .. n -> {"fence", "heading", "text"}] : n \in 0 .. 3}

Item(g, p, i) == [group |-> g, groupPosition |-> p, position |-> i]
MCNavigations ==
    {n \in SUBSET {Item("ga", 1, 1), Item("ga", 1, 2), Item("gb", 1, 3), Item("gb", 2, 1),
                   Item("gb", 2, 2)} : Cardinality(n) <= 3}

Order(s, d) == [sort |-> s, direction |-> d]
MCOrders == {Order("", ""), Order("price", "asc"),
             Order("price", "desc"), Order("throughput", "desc"), Order("usage", ""),
             Order("name", "asc")}

AnyModel == [provider |-> None, capabilities |-> {}, minContext |-> None, maxPrice |-> None]
MCFilters == {AnyModel, [AnyModel EXCEPT !.maxPrice = 2],
              [AnyModel EXCEPT !.provider = "pb"],
              [AnyModel EXCEPT !.capabilities = {"tools"}, !.minContext = 60]}

Ranking(d, p, u, s) == [dimension |-> d, period |-> p, unit |-> u, scope |-> s]
MCBoards == {Ranking("top-models", "", "absolute", "all"),
             Ranking("market-share", "month", "percentage", "open-source"),
             Ranking("leaderboard", "", "", ""), Ranking("speed", "", "", "open-source"),
             Ranking("context-length", "", "", ""), Ranking("session-cost", "", "", ""),
             Ranking("apps", "", "", "")}
==============================================================================
