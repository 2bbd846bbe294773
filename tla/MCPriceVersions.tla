-------------------------- MODULE MCPriceVersions --------------------------
(* Small instances of PriceVersions for TLC.                               *)
EXTENDS PriceVersions

CONSTANTS model, p1, p2, r1

OneSubject == {model}
OneKey == {<<model>>}

MCPublishers == {p1, p2}

MCRequests == {r1}

AnyTime == Time

=============================================================================
