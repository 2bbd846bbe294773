--------------------------- MODULE MCStreamReader ---------------------------
(* StreamReader with two tool calls, whose chunks interleave. *)
EXTENDS StreamReader

MCTools == {0, 1}

MCToolDeltas ==
    {<<>>, <<[tool |-> 0, args |-> TRUE]>>, <<[tool |-> 1, args |-> TRUE]>>,
     <<[tool |-> 1, args |-> FALSE], [tool |-> 0, args |-> TRUE], [tool |-> 0, args |-> TRUE]>>}

=============================================================================
