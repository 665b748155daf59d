------------------------ MODULE MC_ChallengeDispatch ------------------------
(* Instances of ChallengeDispatch for TLC. *)
EXTENDS ChallengeDispatch

CONSTANTS alice, bob

MCTwo == {alice, bob}
=============================================================================
