---------------------- MODULE MC_DistributedChallenges ----------------------
(* An instance of DistributedChallenges for TLC. *)
EXTENDS DistributedChallenges, TLC

CONSTANTS alice, bob, east, west

MCTwo == {alice, bob}
MCTargets == {bob, House}
MCServers == {east, west}
MCLate == {west}
MCSymmetryTwo == Permutations(MCTwo) \cup Permutations(MCServers)
=============================================================================
