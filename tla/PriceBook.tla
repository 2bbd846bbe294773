------------------------------ MODULE PriceBook ------------------------------
(***************************************************************************)
(* What the price list promises to everyone who reads it: versions are     *)
(* only ever added, one for each billing key and effective_from, and the   *)
(* version in force is the latest that has begun.  effective_to, locks and *)
(* transactions are matters of PriceVersions, which implements this.       *)
(***************************************************************************)
EXTENDS Naturals

CONSTANTS
    Subjects,  \* what a version may be a price of
    Instants   \* the effective_from values that occur

VARIABLE book  \* the versions that can be read

Version == [subject : Subjects, from : Instants]

BookInit == book = {}

Publish(v) ==
    /\ v \notin book
    /\ book' = book \cup {v}

BookNext == \E v \in Version : Publish(v)

BookSpec == BookInit /\ [][BookNext]_book

Started(s, at) == {v \in book : v.subject = s /\ v.from <= at}

InForce(s, at) == {v \in Started(s, at) : \A w \in Started(s, at) : w.from <= v.from}

==============================================================================
