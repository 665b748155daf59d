----------------------------- MODULE MC_Gateway -----------------------------
(* An instance of Gateway for TLC. *)
EXTENDS Gateway, TLC

MCSymmetry == Permutations(Server) \cup Permutations(Player) \cup Permutations(Connection)

(* Bound: with a third connection, one message at a time about a player to   *)
(* another from each server.                                                 *)
MCNext ==
    /\ GatewayNext
    /\ connects' <= 2 \/ \A s \in Server, topic \in Topic : Len(bus'[s][topic]) <= 1

MCSpec == GatewayInit /\ [][MCNext]_gatewayVars
=============================================================================
