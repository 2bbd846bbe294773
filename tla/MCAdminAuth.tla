------------------------------ MODULE MCAdminAuth ------------------------------
(* Two administrators; windows and sessions of two time units. *)
EXTENDS AdminAuth, TLC

Alike == Permutations(Admins)
==============================================================================
