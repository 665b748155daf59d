----------------------------- MODULE DealerRound -----------------------------
(***************************************************************************)
(* Rounds against the house at a dealer station: startRound and pickRound  *)
(* of apps/server/src/game/stations/router.ts on top of the challenge      *)
(* engine.                                                                 *)
(*                                                                         *)
(* A start draws a house seed and shows the player its hash.  A pick turns *)
(* the round into a challenge that the house accepts; its stakes are       *)
(* locked, the seed is revealed, both moves are made and the player is     *)
(* shown the result.  pickRound awaits the dispatch of each event on the   *)
(* way, so that the player's other messages, the main loop and a           *)
(* disconnect come in between.  The round stays pending to the end, and a  *)
(* second pick may start another challenge from it.                        *)
(*                                                                         *)
(* Seeds are numbers, equal when they are the same seed; what the hash of  *)
(* both seeds and the challenge id decides is drawn when the seed is       *)
(* revealed.  The dispatch of events, in ChallengeDispatch with the        *)
(* contract, is here only as far as the set of escrowed challenges.  A     *)
(* match with another player matters only by making its player busy, and   *)
(* so does an earlier round.                                               *)
(***************************************************************************)
EXTENDS ChallengeService

CONSTANTS
    RoundTicks,     \* 60 s, in units of Elapse
    MaxSeeds        \* bound: how many house seeds are ever drawn

ASSUME DealerAssumption == RoundTicks \in Nat /\ MaxSeeds \in Nat

VARIABLES
    pending,        \* pendingDealerRounds, by player
    preflighting,   \* the starts that await preflightStake
    nextSeed,       \* the next house seed
    round,          \* round[c]: the pick that created challenge c
    escrowed,       \* escrowLockedChallenges
    closing         \* closing[c]: the dispatch of c's closing event

dealerVars == <<vars, pending, preflighting, nextSeed, round, escrowed, closing>>

Seed == 1 .. MaxSeeds
NoRound == [seed |-> 0, game |-> CHOOSE g \in Game : TRUE, wager |-> 0, life |-> 0]
Pending ==
    [seed : Seed \cup {0}, game : Game, wager : 0 .. MaxWager, life : 0 .. RoundTicks]

(* Where a pick stands; what it awaits is named by the stage:              *)
(*   created    registration and dispatch of created                       *)
(*   staking    lockStake, in the dispatch of accepted                     *)
(*   accepted   the rest of the dispatch of accepted                       *)
(*   moved      dispatch of the player's move                              *)
(*   settling   dispatch of resolved      refused   of a refused move      *)
(*   answered, failed   the player was shown the result, or an error       *)
Stage == {"none", "created", "staking", "accepted", "moved", "settling",
          "refused", "answered", "failed"}
RoundRecord ==
    [stage : Stage, seed : Seed \cup {0}, pick : Move \cup {NoMove},
     drawn : Coin \cup DiceFace \cup {NoMove}, houseMove : Move \cup {NoMove},
     winner : Participant \cup {Nobody}, delta : -MaxWager .. MaxWager]
Idle == [stage |-> "none", seed |-> 0, pick |-> NoMove, drawn |-> NoMove,
         houseMove |-> NoMove, winner |-> Nobody, delta |-> 0]

DealerInit ==
    /\ Init
    /\ pending = [p \in Player |-> NoRound]
    /\ preflighting = {}
    /\ nextSeed = 1
    /\ round = [c \in ChallengeId |-> Idle]
    /\ escrowed = {}
    /\ closing = [c \in ChallengeId |-> "idle"]

Staked(c) == challenges[c].wager > 0
PlayerOf(c) == challenges[c].challenger
Goto(c, stage) == round' = [round EXCEPT ![c].stage = stage]

(* pendingDealerRounds.delete: whatever round the player has by now. *)
Forget(p) == pending' = [pending EXCEPT ![p] = NoRound]

(* The challenges this step closes enter the dispatch of their event. *)
DispatchClosed ==
    closing' = [c \in ChallengeId |->
        IF \E s \in Closed : Event(s, c) \in returned' THEN "started" ELSE closing[c]]

-----------------------------------------------------------------------------
(* startRound: a staked round waits for the wallet preflight, of which a   *)
(* player may have several under way.                                      *)

(* The round replaces the pending one, and its commitment is shown. *)
Ready(p, g, w) ==
    /\ nextSeed \in Seed
    /\ pending' = [pending EXCEPT ![p] =
          [seed |-> nextSeed, game |-> g, wager |-> w, life |-> RoundTicks]]
    /\ nextSeed' = nextSeed + 1
    /\ UNCHANGED <<vars, round, escrowed, closing>>

StartRound(p, g, w) ==
    LET wager == SafeWager(w)
    IN  \/ wager = 0 /\ Ready(p, g, wager) /\ UNCHANGED preflighting
        \/ /\ wager > 0
           /\ preflighting' = preflighting \cup {<<p, g, wager>>}
           /\ UNCHANGED <<vars, pending, nextSeed, round, escrowed, closing>>

PreflightReturns(start) ==
    /\ start \in preflighting
    /\ preflighting' = preflighting \ {start}
    /\ \/ Ready(start[1], start[2], start[3])
       \/ UNCHANGED <<vars, pending, nextSeed, round, escrowed, closing>>

-----------------------------------------------------------------------------
(* pickRound, to its first await: the round must be one of this station,   *)
(* not expired, and the player not in a challenge.                         *)

PickRound(p, m) ==
    LET r == pending[p]
    IN  /\ r # NoRound /\ m \in MovesOf(r.game)
        /\ \/ r.life = 0 /\ Forget(p) /\ Refuse /\ UNCHANGED round
           \/ r.life > 0 /\ CreateRefused(p, House) /\ Forget(p) /\ UNCHANGED round
           \/ /\ r.life > 0 /\ CreateAccepted(p, House, r.game, r.wager)
              /\ round' = [round EXCEPT ![counter] =
                    [Idle EXCEPT !.stage = "created", !.seed = r.seed, !.pick = m]]
              /\ UNCHANGED pending
        /\ UNCHANGED <<preflighting, nextSeed, escrowed, closing>>

(* The house accepts, unless the challenge has closed. *)
HouseAccepts(c) ==
    /\ round[c].stage = "created"
    /\ \/ RespondAccept(c, House) /\ Goto(c, IF Staked(c) THEN "staking" ELSE "accepted")
       \/ RespondRefused(c, House) /\ Goto(c, "accepted")
    /\ UNCHANGED <<pending, preflighting, nextSeed, escrowed, closing>>

StakeLocked(c) ==
    /\ round[c].stage = "staking"
    /\ Goto(c, "accepted")
    /\ escrowed' = escrowed \cup {c}
    /\ UNCHANGED <<vars, pending, preflighting, nextSeed, closing>>

(* No wallet, or lockStake failed: the challenge is aborted, without the   *)
(* dispatch that settles, or goes on unescrowed when policy is disabled.   *)
StakeRefused(c) ==
    /\ round[c].stage = "staking"
    /\ \/ /\ AbortChallenge(c, "declined")
          /\ closing' = IF IsOpen(c) THEN [closing EXCEPT ![c] = "done"] ELSE closing
       \/ UNCHANGED <<vars, closing>>
    /\ Goto(c, "accepted")
    /\ UNCHANGED <<pending, preflighting, nextSeed, escrowed>>

Locked(c) == ~Staked(c) \/ c \in escrowed

PickFails(c) ==
    /\ round[c].stage = "accepted" /\ ~Locked(c)
    /\ Goto(c, "failed")
    /\ Forget(PlayerOf(c))
    /\ UNCHANGED <<vars, preflighting, nextSeed, escrowed, closing>>

-----------------------------------------------------------------------------
(* The reveal and the two moves. *)

(* The moves the seeds may give the house; at coin flip, the other side.   *)
HouseMoves(c) ==
    IF challenges[c].game = "coinflip" THEN Coin \ {round[c].pick}
    ELSE MovesOf(challenges[c].game)

(* What the seeds may make the coin or the die show. *)
Draws(c) ==
    IF challenges[c].game = "coinflip" THEN Coin
    ELSE IF challenges[c].game = "dice_duel" THEN DiceFace ELSE {NoMove}

(* submitMove of the pick.  It closes nothing: the house has not moved.    *)
PlayerMoves(c) ==
    /\ challenges' = IF challenges[c].status = "active"
                     THEN [challenges EXCEPT ![c].challengerMove = round[c].pick]
                     ELSE challenges
    /\ returned' = IF challenges[c].status = "active"
                   THEN {Event("move_submitted", c)} ELSE {}
    /\ UNCHANGED <<timer, activeByPlayer, counter>>

(* Faulty variant of Reveal: the engine is not told the coin. *)
RevealOnly(c) ==
    /\ round[c].stage = "accepted" /\ Locked(c)
    /\ \E drawn \in Draws(c), m \in HouseMoves(c) :
          round' = [round EXCEPT ![c].stage = "moved", ![c].drawn = drawn,
                                 ![c].houseMove = m]
    /\ PlayerMoves(c)
    /\ UNCHANGED <<override, pending, preflighting, nextSeed, escrowed, closing>>

(* The seed is revealed, a coin drawn from it is set as the engine's, and  *)
(* the pick is submitted, over a move the player may have sent by itself.  *)
Reveal(c) ==
    /\ round[c].stage = "accepted" /\ Locked(c)
    /\ \E drawn \in Draws(c), m \in HouseMoves(c) :
          /\ round' = [round EXCEPT ![c].stage = "moved", ![c].drawn = drawn,
                                    ![c].houseMove = m]
          /\ override' = IF challenges[c].game = "coinflip"
                         THEN [override EXCEPT ![c] = drawn] ELSE override
    /\ PlayerMoves(c)
    /\ UNCHANGED <<pending, preflighting, nextSeed, escrowed, closing>>

(* Faulty variant of HouseSubmits: waits for the challenge to take a move. *)
HouseSubmitsIfActive(c) ==
    /\ round[c].stage = "moved"
    /\ MoveRecorded(c, House, round[c].houseMove) /\ Goto(c, "settling")
    /\ DispatchClosed
    /\ UNCHANGED <<pending, preflighting, nextSeed, escrowed>>

(* submitMove of the house, which resolves the challenge if it still is    *)
(* active.  The engine draws the die from the revealed seed.               *)
HouseSubmits(c) ==
    /\ round[c].stage = "moved"
    /\ \/ /\ MoveRecorded(c, House, round[c].houseMove)
          /\ challenges[c].game = "dice_duel" => challenges'[c].result = round[c].drawn
          /\ Goto(c, "settling")
       \/ MoveRefused(c, House, round[c].houseMove) /\ Goto(c, "refused")
    /\ DispatchClosed
    /\ UNCHANGED <<pending, preflighting, nextSeed, escrowed>>

(* The result is shown, and the round is no longer pending. *)
Answer(c) ==
    LET ch == challenges[c]
    IN  /\ round[c].stage \in {"refused", "settling"}
        /\ round[c].stage = "settling" => closing[c] = "done"
        /\ round' = [round EXCEPT ![c].stage = "answered", ![c].winner = ch.winner,
                        ![c].delta = IF ch.winner = PlayerOf(c) THEN ch.wager
                                     ELSE IF ch.winner # Nobody THEN -ch.wager ELSE 0]
        /\ Forget(PlayerOf(c))
        /\ UNCHANGED <<vars, preflighting, nextSeed, escrowed, closing>>

-----------------------------------------------------------------------------
(* What else happens meanwhile. *)

(* challenge_move of the player. *)
SendMove(c, p, m) ==
    /\ MoveRecorded(c, p, m)
    /\ DispatchClosed
    /\ UNCHANGED <<pending, preflighting, nextSeed, round, escrowed>>

(* Faulty variant of Kept: rounds do not expire. *)
KeptForever(p) == TRUE

(* clearExpired keeps the rounds that are not older than 60 s. *)
Kept(p) == pending[p].life > 0

(* The main loop: clearExpired, then tick. *)
MainLoop ==
    /\ Due # {} \/ \E p \in Player : pending[p] # NoRound /\ ~Kept(p)
    /\ pending' = [p \in Player |-> IF Kept(p) THEN pending[p] ELSE NoRound]
    /\ IF Due # {} THEN Tick ELSE Refuse
    /\ DispatchClosed
    /\ UNCHANGED <<preflighting, nextSeed, round, escrowed>>

Disconnect(p) ==
    /\ pending[p] # NoRound \/ Busy(p)
    /\ Forget(p)
    /\ IF Busy(p) THEN ClearDisconnectedPlayer(p) ELSE Refuse
    /\ DispatchClosed
    /\ UNCHANGED <<preflighting, nextSeed, round, escrowed>>

(* The dispatch of a closing event: what is recorded as escrowed is        *)
(* settled and then dropped; what is not is skipped.                       *)
Settle(c) ==
    /\ \/ /\ closing[c] = "started" /\ UNCHANGED escrowed
          /\ closing' = [closing EXCEPT ![c] = IF c \in escrowed THEN "settling" ELSE "done"]
       \/ /\ closing[c] = "settling" /\ escrowed' = escrowed \ {c}
          /\ closing' = [closing EXCEPT ![c] = "done"]
    /\ UNCHANGED <<vars, pending, preflighting, nextSeed, round>>

Clock ==
    /\ \/ \E c \in ChallengeId : timer[c] > 0
       \/ \E p \in Player : pending[p].life > 0
    /\ TimePasses
    /\ pending' = [p \in Player |->
          [pending[p] EXCEPT !.life = IF @ > 0 THEN @ - 1 ELSE 0]]
    /\ UNCHANGED <<preflighting, nextSeed, round, escrowed, closing>>

PickStep(c) ==
    \/ HouseAccepts(c) \/ StakeLocked(c) \/ StakeRefused(c) \/ PickFails(c)
    \/ Reveal(c) \/ HouseSubmits(c) \/ Answer(c)

DealerNext ==
    \/ \E p \in Player, g \in Game, w \in WagerInput \ {NotFinite} : StartRound(p, g, w)
    \/ \E start \in preflighting : PreflightReturns(start)
    \/ \E p \in Player, m \in Move : PickRound(p, m)
    \/ \E c \in ChallengeId : PickStep(c) \/ Settle(c)
    \/ \E c \in ChallengeId, p \in Player, m \in Move : SendMove(c, p, m)
    \/ \E p \in Player : Disconnect(p)
    \/ MainLoop
    \/ Clock

DealerSafety == DealerInit /\ [][DealerNext]_dealerVars

(* Awaited calls return and the event loop goes on; time passes.  Nothing  *)
(* is expected of players.                                                 *)
DealerFairness ==
    /\ \A c \in ChallengeId :
          WF_dealerVars(PickStep(c)) /\ WF_dealerVars(Settle(c))
    /\ WF_dealerVars(MainLoop) /\ WF_dealerVars(Clock)

DealerSpec == DealerSafety /\ DealerFairness

-----------------------------------------------------------------------------

Revealed(c) == round[c].stage \in {"moved", "settling", "refused", "answered"}

(* A coin flip that both sides played shows the coin drawn from the seeds   *)
(* that are revealed, whatever the player sends meanwhile and however the   *)
(* challenge is resolved: setCoinflipResultOverride comes before the last   *)
(* move, and nothing uses it up earlier.                                    *)
CoinAsRevealed ==
    \A c \in ChallengeId :
        LET ch == challenges[c]
        IN  ch.status = "resolved" /\ ch.game = "coinflip"
              /\ ch.challengerMove # NoMove /\ ch.opponentMove # NoMove =>
                ch.result = round[c].drawn

(* Every pick that is dealt is answered, with a result or an error.         *)
PickAnswered ==
    \A c \in ChallengeId :
        round[c].stage = "created" ~> round[c].stage \in {"answered", "failed"}

(* No round stays pending: it is played, replaced or expires, even when its *)
(* preflight ends after the player has left.                                *)
RoundDropped ==
    \A p \in Player, s \in Seed : pending[p].seed = s ~> pending[p].seed # s
=============================================================================
