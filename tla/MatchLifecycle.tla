--------------------------- MODULE MatchLifecycle ---------------------------
(***************************************************************************)
(* What the challenge service promises, without saying how.                *)
(*                                                                         *)
(* A match is proposed between two parties, may start, and closes exactly  *)
(* once: void (declined, expired, aborted, a party left) or decided, with  *)
(* one of its parties or nobody as the winner.  A party other than the     *)
(* house is never in two unfinished matches.  ChallengeService implements  *)
(* this with a player -> challenge index that it has to keep in step with  *)
(* the challenges themselves; here there is no index to go wrong.          *)
(***************************************************************************)
CONSTANTS
    Player,     \* the parties that play one match at a time
    House,      \* the party that plays any number of matches
    Nobody,     \* the winner of a match nobody won
    MatchId     \* the matches that can ever be proposed

VARIABLES
    phase,      \* phase[m]: how far match m has come
    parties,    \* parties[m]: who plays match m, {} before it is proposed
    winner      \* winner[m]: who won match m, Nobody until it is decided

vars == <<phase, parties, winner>>

Phase == {"unused", "proposed", "playing", "void", "decided"}
Unfinished == {"proposed", "playing"}

Engaged(p) == \E m \in MatchId : phase[m] \in Unfinished /\ p \in parties[m]

Init ==
    /\ phase = [m \in MatchId |-> "unused"]
    /\ parties = [m \in MatchId |-> {}]
    /\ winner = [m \in MatchId |-> Nobody]

Propose(m, p, q) ==
    /\ phase[m] = "unused"
    /\ p # q
    /\ ~Engaged(p)
    /\ q = House \/ ~Engaged(q)
    /\ phase' = [phase EXCEPT ![m] = "proposed"]
    /\ parties' = [parties EXCEPT ![m] = {p, q}]
    /\ UNCHANGED winner

Start(m) ==
    /\ phase[m] = "proposed"
    /\ phase' = [phase EXCEPT ![m] = "playing"]
    /\ UNCHANGED <<parties, winner>>

(* One step of the clock may close several matches, so closing takes the   *)
(* sets of the matches that end void and decided; the new winners are the  *)
(* only ones that change.                                                  *)
Close(voided, decided) ==
    /\ voided \cup decided # {}
    /\ voided \cap decided = {}
    /\ \A m \in voided : phase[m] \in Unfinished
    /\ \A m \in decided : phase[m] = "playing"
    /\ phase' = [m \in MatchId |-> IF m \in voided THEN "void"
                                   ELSE IF m \in decided THEN "decided"
                                   ELSE phase[m]]
    /\ \A m \in decided : winner'[m] \in parties[m] \cup {Nobody}
    /\ winner' = [m \in MatchId |-> IF m \in decided THEN winner'[m]
                                                     ELSE winner[m]]
    /\ UNCHANGED parties

Next ==
    \/ \E m \in MatchId, p \in Player, q \in Player \cup {House} :
          Propose(m, p, q)
    \/ \E m \in MatchId : Start(m)
    \/ \E voided, decided \in SUBSET MatchId : Close(voided, decided)

(* Every unfinished match is eventually closed. *)
Progress ==
    \A m \in MatchId : phase[m] \in Unfinished ~> phase[m] \notin Unfinished

Safety == Init /\ [][Next]_vars
Spec == Safety /\ Progress
=============================================================================
