------------------------------ MODULE MC_Servers ------------------------------
(* Instances for TLC of the game servers and of what they share: the         *)
(* challenges of players on two servers over one Redis, and the markets and  *)
(* positions in one database.  Each behaviour exercises one part, the others *)
(* stand still.                                                              *)
EXTENDS MC_DistributedChallenges, MarketPositions

VARIABLE part

(* A cancelled market is settled like one without an outcome, and "no"       *)
(* mirrors "yes".                                                            *)
MCReports == {Entry("open", "none"), Entry("resolved", "none"), Entry("resolved", "yes")}
MCStakes == [x \in Position |-> x]

serversVars == <<part, vars, marketVars>>

InChallenges(A) == part = "challenges" /\ A /\ UNCHANGED <<part, marketVars>>
InPositions(A) == part = "positions" /\ A /\ UNCHANGED <<part, vars>>

(* In the part about positions the players are on different servers, which   *)
(* keeps the servers symmetric.                                              *)
ServersInit ==
    /\ part \in {"challenges", "positions"}
    /\ Init /\ PositionsInit
    /\ part = "positions" => \A p, q \in Player : p # q => home[p] # home[q]
ServersNext == InChallenges(Next) \/ InPositions(PositionsNext)
ServersSafety == ServersInit /\ [][ServersNext]_serversVars
=============================================================================
