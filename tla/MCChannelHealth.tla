--------------------------- MODULE MCChannelHealth ---------------------------
(* Two channels with intervals of one and two ticks; the second is linked  *)
(* to the model while the server runs, and may lose its probe mark.        *)
EXTENDS ChannelHealth

CONSTANTS c1, c2

MCChannels == {c1, c2}

MCReseeded == {c2}

(* The least that reliability may weigh above speed, and vectors that must *)
(* not be stored: a sum that is off, a negative weight.                    *)
MCVectors ==
    {[reliability |-> 26, speed |-> 25, intelligence |-> 49],
     [reliability |-> 51, speed |-> 49, intelligence |-> 0],
     [reliability |-> 90, speed |-> 20, intelligence |-> -10],
     [reliability |-> 100, speed |-> 99, intelligence |-> 0]}

=============================================================================
