------------------------------ MODULE MCSessions ------------------------------
(* Two browsers and two addresses whose slugs begin alike. *)
EXTENDS Sessions, TLC

MCLocal(email) == "local"
Alike == Permutations(Clients) \cup Permutations(Emails)
==============================================================================
