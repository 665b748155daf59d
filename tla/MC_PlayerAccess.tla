--------------------------- MODULE MC_PlayerAccess ---------------------------
(* Two people signing in at the same time, for TLC.                          *)
EXTENDS PlayerAccess, TLC

Sym == Permutations(Request)
=============================================================================
