----------------------------- MODULE MCCharging -----------------------------
(* int64 is 0 .. 31, a million is 4.  The cards combine, unit by unit, the *)
(* shapes a rate may have: missing, priced, free, a reference to another   *)
(* unit, to itself or in a circle, two times to live.                      *)
EXTENDS Charging

Plain(nano) == <<[nano |-> nano, fixed |-> 0, ttl |-> None, sameAs |-> None, threshold |-> 0]>>
Ref(u) == <<[nano |-> 0, fixed |-> 0, ttl |-> None, sameAs |-> u, threshold |-> 0]>>
Fixed(n) == <<[nano |-> 0, fixed |-> n, ttl |-> None, sameAs |-> None, threshold |-> 0]>>
Long(nano, above) ==
    <<[nano |-> nano, fixed |-> 0, ttl |-> None, sameAs |-> None, threshold |-> above]>>
TwoTtl ==
    <<[nano |-> 3, fixed |-> 0, ttl |-> "5m", sameAs |-> None, threshold |-> 0],
      [nano |-> 0, fixed |-> 0, ttl |-> "1h", sameAs |-> "input", threshold |-> 0]>>

Blank == [u \in Units |-> <<>>]

UnitCards ==
    {[Blank EXCEPT !.input = c.input, !.output = c.output, !.cache_read = c.cache_read,
                   !.cache_write = c.cache_write, !.reasoning = c.reasoning,
                   !.request_fixed = c.request_fixed,
                   !.input_long_context = c.input_long_context] :
        c \in [input : {<<>>, Plain(3)}, output : {Plain(5), Ref("reasoning")},
               cache_read : {<<>>, Ref("input")},
               cache_write : {TwoTtl, Ref("misspelt")},
               reasoning : {Plain(7), Ref("output"), Ref("reasoning")},
               request_fixed : {<<>>, Fixed(2), Fixed(9)},
               input_long_context : {<<>>, Long(6, 1)}]}

(* Every unit of a chain refers to the next; the last has a price, or is   *)
(* not declared.                                                           *)
Chain == <<"cache_read", "cache_write", "reasoning", "image_per_unit", "audio_per_second",
           "video_per_second", "rerank_per_doc", "batch_discount", "request_fixed">>

Chained(n, last) ==
    [u \in Units |->
        IF u \in {"input", "output"} THEN Plain(3)
        ELSE IF \E i \in 1 .. (n - 1) : Chain[i] = u
        THEN Ref(Chain[1 + CHOOSE i \in 1 .. (n - 1) : Chain[i] = u])
        ELSE IF u = Chain[n] THEN last ELSE <<>>]

Tiers(first, second) ==
    <<[above |-> first, input |-> 9, output |-> 9], [above |-> second, input |-> 7, output |-> 0]>>

(* A tier with negative prices, and one above it without.                  *)
Refund ==
    <<[above |-> -1, input |-> -2, output |-> -9], [above |-> 4, input |-> 7, output |-> 0]>>

MCCards ==
    {[units |-> u, tiers |-> t] : u \in UnitCards, t \in {<<>>, Tiers(5, 2)}}
    \cup {[units |-> u, tiers |-> Tiers(2, 2)] :
            u \in {c \in UnitCards : c.input = Plain(3) /\ c.cache_write = TwoTtl}}
    \cup {[units |-> u, tiers |-> Refund] :
            u \in {c \in UnitCards : c.input = Plain(3) /\ c.cache_write = TwoTtl
                                      /\ c.request_fixed = <<>>}}
    \cup {[units |-> Chained(n, last), tiers |-> <<>>] :
            n \in {2, 8, 9}, last \in {Plain(1), <<>>}}

MCContexts ==
    {[capabilities |-> {"cache", "reasoning"}, hosting |-> "cloud", reference |-> 3,
      cheapest |-> 1, dearest |-> 20, recentCalls |-> 1, note |-> TRUE],
     [capabilities |-> {}, hosting |-> "self", reference |-> 0,
      cheapest |-> 1, dearest |-> 20, recentCalls |-> 0, note |-> FALSE]}

(* Boundaries, two tokens of everything: halves of a unit that add up, and *)
(* quantities below zero.                                                  *)
MCUsages ==
    [input : {1, 4, 9, 31}, output : {1, 7}, cache_read : {0, 3}, cache_write : {2},
     reasoning : {1, 31}, ttl : {"1h", None}, requests : {0, 2}]
    \cup [input : {2}, output : {2}, cache_read : {2}, cache_write : {2}, reasoning : {2},
          ttl : {"1h", None}, requests : {1}]
    \cup [input : {-1, 5}, output : {2}, cache_read : {-1, 0}, cache_write : {2}, reasoning : {2},
          ttl : {None}, requests : {1}]

=============================================================================
