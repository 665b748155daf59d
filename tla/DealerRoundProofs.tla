----------------------- MODULE DealerRoundProofs -----------------------
(*****************************************************************************)
(* Theorems about the rounds at a dealer's table, on top of those about the  *)
(* engine. The coin is set in the engine between two awaits of pickRound,    *)
(* while the player may move, leave or run out of time: what makes it the    *)
(* one that is used is that the house moves last, in this order and by this  *)
(* handler only.                                                             *)
(*****************************************************************************)
EXTENDS DealerRound, ChallengeServiceProofs

(* What a challenge of a round is to its round: it is against the house,     *)
(* awaits an answer only until the house is asked, and the house moves after *)
(* the seed is revealed; from then on the engine holds the coin that was     *)
(* drawn, until it has used it.                                              *)
Deals(c) ==
    LET ch == challenges[c]
    IN  /\ ch.status # "unused" => ch.opponent = House
        /\ ch.status = "pending" => round[c].stage = "created"
        /\ ~Revealed(c) => ch.opponentMove = NoMove
        /\ ch.status = "active" /\ ch.game = "coinflip" /\ Revealed(c) =>
              round[c].drawn # NoMove /\ override[c] = round[c].drawn
ShowsCoin(c) ==
    LET ch == challenges[c]
    IN  ch.status = "resolved" /\ ch.game = "coinflip"
          /\ ch.challengerMove # NoMove /\ ch.opponentMove # NoMove =>
            ch.result = round[c].drawn

RoundsOK == round \in [ChallengeId -> RoundRecord] /\ pending \in [Player -> Pending]
            /\ preflighting \subseteq Player \X Game \X (0 .. MaxWager) /\ nextSeed \in Nat
DealerTypeOK == TypeOK /\ RoundsOK
DealsFairly(c) == Deals(c) /\ ShowsCoin(c)
DealerInv == DealerTypeOK /\ \A c \in ChallengeId : DealsFairly(c)

(* The round of a challenge goes on without a reveal.                        *)
RoundGoes(c) ==
    /\ round'[c].drawn = round[c].drawn
    /\ Revealed(c)' <=> Revealed(c)
    /\ challenges'[c].status = "pending" => round'[c].stage = "created"

(* A challenge that stays as it is, with a round that goes on without a      *)
(* reveal.                                                                   *)
LEMMA ChallengeStays ==
    ASSUME NEW c \in ChallengeId, DealsFairly(c), RoundGoes(c),
           challenges'[c] = challenges[c], override'[c] = override[c]
    PROVE  DealsFairly(c)'
BY DEF DealsFairly, Deals, ShowsCoin, RoundGoes

(* It is accepted before the reveal, or closes without a result. *)
LEMMA ChallengeOnStatus ==
    ASSUME TypeOK, NEW c \in ChallengeId, DealsFairly(c), RoundGoes(c),
           NEW s \in {"declined", "expired", "active"}, s = "active" => ~Revealed(c),
           challenges[c].status # "unused",
           challenges'[c] = [challenges[c] EXCEPT !.status = s], override'[c] = override[c]
    PROVE  DealsFairly(c)'
<1>1. challenges[c] \in Challenge
  BY DEF TypeOK
<1>2. /\ challenges'[c].status = s /\ challenges'[c].opponent = challenges[c].opponent
      /\ challenges'[c].opponentMove = challenges[c].opponentMove
  BY <1>1 DEF Challenge
<1> QED
  BY <1>2 DEF DealsFairly, Deals, ShowsCoin, RoundGoes

(* It is resolved: the house has moved only if the coin was set. *)
LEMMA ChallengeResolved ==
    ASSUME TypeOK, NEW c \in ChallengeId, DealsFairly(c), RoundGoes(c),
           challenges[c].status = "active",
           challenges'[c].status = "resolved",
           challenges'[c].opponent = challenges[c].opponent,
           challenges'[c].game = challenges[c].game,
           Revealed(c) \/ challenges'[c].opponentMove = NoMove,
           challenges'[c].result \in Results(c)
    PROVE  DealsFairly(c)'
<1>1. Deals(c)'
  BY DEF DealsFairly, Deals, RoundGoes
<1>2. ShowsCoin(c)'
  <2>1. CASE Revealed(c) /\ challenges[c].game = "coinflip"
    BY <2>1 DEF DealsFairly, Deals, ShowsCoin, RoundGoes, Results
  <2>2. CASE ~Revealed(c) \/ challenges[c].game # "coinflip"
    BY <2>2 DEF DealsFairly, Deals, ShowsCoin, RoundGoes
  <2> QED
    BY <2>1, <2>2
<1> QED
  BY <1>1, <1>2 DEF DealsFairly

(* A move, of the house after the reveal or of anybody else. *)
LEMMA ChallengeMoves ==
    ASSUME TypeOK, NEW c \in ChallengeId, DealsFairly(c), RoundGoes(c),
           NEW p, NEW m, MoveRecorded(c, p, m), Revealed(c) \/ p # House
    PROVE  DealsFairly(c)'
<1> DEFINE moved == WithMove(c, p, m)
<1>1. challenges[c] \in Challenge /\ challenges \in [ChallengeId -> Challenge]
  BY DEF TypeOK
<1>2. /\ challenges[c].status = "active" /\ p \in Parties(challenges[c])
      /\ challenges[c].opponent = House
  BY DEF MoveRecorded, DealsFairly, Deals
<1>3. /\ moved.status = "active" /\ moved.opponent = House /\ moved.game = challenges[c].game
      /\ DOMAIN moved = DOMAIN challenges[c]
      /\ Revealed(c) \/ moved.opponentMove = NoMove
  BY <1>1, <1>2 DEF WithMove, Challenge, Parties, DealsFairly, Deals
<1>4. CASE moved.challengerMove = NoMove \/ moved.opponentMove = NoMove
  <2>1. challenges'[c] = moved /\ override'[c] = override[c]
    BY <1>1, <1>4 DEF MoveRecorded
  <2> QED
    BY <1>2, <1>3, <2>1 DEF DealsFairly, Deals, ShowsCoin, RoundGoes
<1>5. CASE moved.challengerMove # NoMove /\ moved.opponentMove # NoMove
  <2>1. PICK result \in Results(c) :
           challenges' = [challenges EXCEPT ![c] =
              [moved EXCEPT !.status = "resolved", !.result = result,
                            !.winner = Judge(moved, result)]]
    BY <1>5 DEF MoveRecorded
  <2>2. challenges'[c] = [moved EXCEPT !.status = "resolved", !.result = result,
                                       !.winner = Judge(moved, result)]
    BY <1>1, <2>1
  <2>3. DOMAIN moved = DOMAIN Unused /\ moved = [f \in DOMAIN moved |-> moved[f]]
    BY <1>1, <1>3 DEF Challenge, Unused, WithMove
  <2>4. /\ challenges'[c].status = "resolved" /\ challenges'[c].opponent = moved.opponent
        /\ challenges'[c].game = moved.game /\ challenges'[c].result = result
        /\ challenges'[c].opponentMove = moved.opponentMove
    BY <1>1, <2>2, <2>3 DEF Challenge, Unused, WithMove
  <2> QED
    BY <1>2, <1>3, <2>1, <2>4, ChallengeResolved
<1> QED
  BY <1>4, <1>5

(* A move leaves the other challenges alone. *)
LEMMA OthersByMove ==
    ASSUME TypeOK, NEW c \in ChallengeId, NEW p, NEW m, MoveRecorded(c, p, m), NEW d \in ChallengeId, d # c
    PROVE  challenges'[d] = challenges[d] /\ override'[d] = override[d]
<1>1. CASE WithMove(c, p, m).challengerMove = NoMove \/ WithMove(c, p, m).opponentMove = NoMove
  BY <1>1 DEF MoveRecorded, TypeOK
<1>2. CASE WithMove(c, p, m).challengerMove # NoMove /\ WithMove(c, p, m).opponentMove # NoMove
  BY <1>2 DEF MoveRecorded, TypeOK
<1> QED
  BY <1>1, <1>2

(* The tick of the engine may resolve a round, by the coin that was set if   *)
(* both have moved.                                                          *)
LEMMA ChallengesTicked ==
    ASSUME TypeOK, Tick, NEW c \in ChallengeId, DealsFairly(c), RoundGoes(c)
    PROVE  DealsFairly(c)'
<1>1. PICK result \in [DueActive -> Coin \cup DiceFace \cup {NoMove}] :
         /\ \A d \in DueActive : result[d] \in Results(d)
         /\ challenges' = [d \in ChallengeId |->
             IF d \in DueActive
             THEN [challenges[d] EXCEPT !.status = "resolved",
                      !.result = result[d],
                      !.winner = TimeoutWinner(challenges[d], result[d])]
             ELSE IF d \in Due THEN [challenges[d] EXCEPT !.status = "expired"]
             ELSE challenges[d]]
  BY DEF Tick
<1>2. challenges[c] \in Challenge
  BY DEF TypeOK
<1>3. CASE c \in DueActive
  <2>1. challenges'[c] = [challenges[c] EXCEPT !.status = "resolved", !.result = result[c],
                                   !.winner = TimeoutWinner(challenges[c], result[c])]
    BY <1>1, <1>3
  <2>2. /\ challenges'[c].status = "resolved" /\ challenges'[c].opponent = challenges[c].opponent
        /\ challenges'[c].game = challenges[c].game /\ challenges'[c].result = result[c]
        /\ challenges'[c].opponentMove = challenges[c].opponentMove
    BY <1>2, <2>1 DEF Challenge
  <2>3. challenges[c].status = "active" /\ (Revealed(c) \/ challenges[c].opponentMove = NoMove)
    BY <1>3 DEF DueActive, DealsFairly, Deals
  <2> QED
    BY <1>1, <1>3, <2>2, <2>3, ChallengeResolved
<1>4. CASE c \in Due \ DueActive
  <2>1. challenges'[c] = [challenges[c] EXCEPT !.status = "expired"] /\ override'[c] = override[c]
    BY <1>1, <1>4 DEF Tick
  <2>2. challenges[c].status # "unused"
    BY <1>4 DEF Due, IsOpen, Open
  <2>3. "expired" \in {"declined", "expired", "active"} /\ "expired" # "active"
    OBVIOUS
  <2> QED
    BY <2>1, <2>2, <2>3, ChallengeOnStatus
<1>5. CASE c \notin Due
  BY <1>1, <1>5, ChallengeStays DEF DueActive, Tick
<1> QED
  BY <1>3, <1>4, <1>5

(* A challenge that closes without a winner, and the others. *)
LEMMA ChallengesVoided ==
    ASSUME TypeOK, NEW d \in ChallengeId, NEW s \in {"declined", "expired"}, IsOpen(d), CloseVoid(d, s),
           NEW c \in ChallengeId, DealsFairly(c), RoundGoes(c)
    PROVE  DealsFairly(c)'
<1>1. CASE c = d
  <2>1. /\ challenges'[c] = [challenges[c] EXCEPT !.status = s] /\ override'[c] = override[c]
        /\ challenges[c].status # "unused"
    BY <1>1 DEF CloseVoid, TypeOK, IsOpen, Open
  <2>2. s \in {"declined", "expired", "active"} /\ s # "active"
    OBVIOUS
  <2> QED
    BY <2>1, <2>2, ChallengeOnStatus
<1>2. CASE c # d
  BY <1>2, ChallengeStays DEF CloseVoid, TypeOK
<1> QED
  BY <1>1, <1>2

-----------------------------------------------------------------------------
(* A call that is refused keeps the types of the engine. *)
LEMMA RefusedType ==
    ASSUME TypeOK, Refuse \/ UNCHANGED vars
    PROVE  TypeOK'
BY DEF TypeOK, Refuse, vars

(* A move of a game is a move. *)
LEMMA MovesAreMoves ==
    ASSUME NEW g \in Game, NEW m \in MovesOf(g)
    PROVE  m \in Move
BY DEF Move

(* No round is a round, in its two records. *)
LEMMA RoundTypes == NoRound \in Pending /\ Idle \in RoundRecord
<1>1. NoRound \in Pending
  <2>1. PICK g \in Game : g = NoRound.game
    BY GameAssumption DEF NoRound
  <2> QED
    BY <2>1, WagerAssumption, DealerAssumption DEF NoRound, Pending
<1>2. Idle \in RoundRecord
  BY WagerAssumption DEF Idle, RoundRecord, Stage
<1> QED
  BY <1>1, <1>2

(* What the reveal submits: the player's pick, when the challenge runs.      *)
LEMMA PickMoves ==
    ASSUME DealerTypeOK, NEW c \in ChallengeId, PlayerMoves(c)
    PROVE  /\ challenges' \in [ChallengeId -> Challenge]
           /\ returned' \subseteq [event : EventName, challenge : ChallengeId]
           /\ \A d \in ChallengeId :
                 /\ challenges'[d].status = challenges[d].status
                 /\ challenges'[d].opponent = challenges[d].opponent
                 /\ challenges'[d].game = challenges[d].game
                 /\ challenges'[d].opponentMove = challenges[d].opponentMove
                 /\ d # c => challenges'[d] = challenges[d]
<1>1. round[c].pick \in Move \cup {NoMove} /\ challenges \in [ChallengeId -> Challenge]
  BY DEF DealerTypeOK, RoundsOK, RoundRecord, TypeOK
<1>2. challenges' \in [ChallengeId -> Challenge]
  <2>1. [challenges[c] EXCEPT !.challengerMove = round[c].pick] \in Challenge
    BY <1>1 DEF Challenge
  <2> QED
    BY <1>1, <2>1 DEF PlayerMoves
<1>3. returned' \subseteq [event : EventName, challenge : ChallengeId]
  BY DEF PlayerMoves, Event, EventName
<1>4. ASSUME NEW d \in ChallengeId
      PROVE  /\ challenges'[d].status = challenges[d].status
             /\ challenges'[d].opponent = challenges[d].opponent
             /\ challenges'[d].game = challenges[d].game
             /\ challenges'[d].opponentMove = challenges[d].opponentMove
             /\ d # c => challenges'[d] = challenges[d]
  BY <1>1 DEF PlayerMoves, Challenge
<1> QED
  BY <1>2, <1>3, <1>4

(* Every step keeps the types of the engine. *)
LEMMA EngineTypes ==
    ASSUME DealerTypeOK, [DealerNext]_dealerVars
    PROVE  TypeOK'
<1>0. TypeOK
  BY DEF DealerTypeOK
<1>1. CASE UNCHANGED vars \/ Refuse
  BY <1>0, <1>1, RefusedType
<1>2. ASSUME NEW p \in Player, NEW m \in Move, PickRound(p, m)
      PROVE  TypeOK'
  <2>1. CASE CreateAccepted(p, House, pending[p].game, pending[p].wager)
    <3>1. pending[p].game \in Game /\ pending[p].wager \in Int \cup {NotFinite} /\ House \in Participant
      BY WagerAssumption DEF DealerTypeOK, RoundsOK, Pending, Participant
    <3> QED
      BY <1>0, <2>1, <3>1, CreateType
  <2>2. CASE Refuse \/ CreateRefused(p, House)
    BY <1>1, <2>2 DEF CreateRefused
  <2> QED
    BY <1>2, <2>1, <2>2 DEF PickRound
<1>3. ASSUME NEW c \in ChallengeId, HouseAccepts(c)
      PROVE  TypeOK'
  <2>1. CASE RespondAccept(c, House)
    <3>1. Respond(c, House, TRUE) /\ House \in Participant /\ TRUE \in BOOLEAN
      BY <2>1 DEF Respond, Participant
    <3>2. Next
      BY <3>1 DEF Next
    <3> QED
      BY <1>0, <3>2, TypeStep
  <2>2. CASE RespondRefused(c, House)
    BY <1>1, <2>2 DEF RespondRefused
  <2> QED
    BY <1>3, <2>1, <2>2 DEF HouseAccepts
<1>4. ASSUME NEW c \in ChallengeId, AbortChallenge(c, "declined")
      PROVE  TypeOK'
  <2>1. Next
    BY <1>4 DEF Next
  <2> QED
    BY <1>0, <2>1, TypeStep
<1>5. ASSUME NEW c \in ChallengeId, Reveal(c)
      PROVE  TypeOK'
  <2>1. PICK drawn \in Draws(c) :
            override' = IF challenges[c].game = "coinflip" THEN [override EXCEPT ![c] = drawn] ELSE override
    BY <1>5 DEF Reveal
  <2>2. override' \in [ChallengeId -> Coin \cup {NoMove}]
    BY <1>0, <2>1 DEF Draws, TypeOK
  <2>3. PlayerMoves(c)
    BY <1>5 DEF Reveal
  <2> QED
    BY <1>0, <2>2, <2>3, PickMoves DEF TypeOK, PlayerMoves
<1>6. ASSUME NEW c \in ChallengeId, NEW p \in Participant, NEW m, MoveRecorded(c, p, m)
      PROVE  TypeOK'
  <2>1. m \in Move
    BY <1>0, <1>6, MovesAreMoves DEF MoveRecorded, TypeOK, Challenge
  <2> QED
    BY <1>0, <1>6, <2>1, MoveType
<1>7. ASSUME NEW p \in Player, ClearDisconnectedPlayer(p)
      PROVE  TypeOK'
  <2>1. Next
    BY <1>7 DEF Next
  <2> QED
    BY <1>0, <2>1, TypeStep
<1>8. CASE Tick
  BY <1>0, <1>8, TickType
<1>9. CASE TimePasses
  BY <1>0, <1>9 DEF TimePasses, TypeOK
<1>10. ASSUME NEW c \in ChallengeId, PickStep(c)
       PROVE  TypeOK'
  <2>1. CASE StakeRefused(c) \/ PickFails(c) \/ StakeLocked(c) \/ Answer(c)
    BY <2>1, <1>1, <1>4 DEF StakeRefused, PickFails, StakeLocked, Answer
  <2>2. CASE HouseSubmits(c)
    BY <2>2, <1>1, <1>6 DEF HouseSubmits, MoveRefused, Participant
  <2> QED
    BY <1>3, <1>5, <1>10, <2>1, <2>2 DEF PickStep
<1>11. CASE MainLoop
  BY <1>1, <1>8, <1>11 DEF MainLoop
<1>12. ASSUME NEW p \in Player, Disconnect(p)
       PROVE  TypeOK'
  BY <1>1, <1>7, <1>12 DEF Disconnect
<1>13. ASSUME NEW c \in ChallengeId, NEW p \in Player, NEW m \in Move, SendMove(c, p, m)
       PROVE  TypeOK'
  BY <1>6, <1>13 DEF SendMove, Participant
<1>14. ASSUME NEW p \in Player, NEW g \in Game, NEW w \in WagerInput \ {NotFinite}, StartRound(p, g, w)
       PROVE  TypeOK'
  BY <1>1, <1>14 DEF StartRound, Ready
<1>15. ASSUME NEW start \in preflighting, PreflightReturns(start)
       PROVE  TypeOK'
  BY <1>1, <1>15 DEF PreflightReturns, Ready
<1>16. ASSUME NEW c \in ChallengeId, Settle(c)
       PROVE  TypeOK'
  BY <1>1, <1>16 DEF Settle
<1>17. CASE Clock
  BY <1>9, <1>17 DEF Clock
<1>18. CASE UNCHANGED dealerVars
  BY <1>1, <1>18 DEF dealerVars
<1> QED
  BY <1>2, <1>10, <1>11, <1>12, <1>13, <1>14, <1>15, <1>16, <1>17, <1>18 DEF DealerNext

(* A round that goes on is one.                                              *)
LEMMA RoundStaged ==
    ASSUME RoundsOK, NEW c \in ChallengeId, NEW s \in Stage, Goto(c, s)
    PROVE  round' \in [ChallengeId -> RoundRecord]
<1>1. [round[c] EXCEPT !.stage = s] \in RoundRecord
  BY DEF RoundsOK, RoundRecord
<1> QED
  BY <1>1 DEF Goto, RoundsOK

(* A round that is made ready is one. *)
LEMMA RoundsReadied ==
    ASSUME RoundsOK, NEW p \in Player, NEW g \in Game, NEW w \in 0 .. MaxWager, Ready(p, g, w)
    PROVE  pending' \in [Player -> Pending] /\ nextSeed' \in Nat /\ round' = round
<1>1. [seed |-> nextSeed, game |-> g, wager |-> w, life |-> RoundTicks] \in Pending
  BY DealerAssumption DEF Ready, Pending
<1> QED
  BY <1>1 DEF Ready, RoundsOK

(* Forgetting a round leaves rounds. *)
LEMMA RoundsForgotten ==
    ASSUME RoundsOK, NEW p, Forget(p)
    PROVE  pending' \in [Player -> Pending]
BY RoundTypes DEF RoundsOK, Forget

(* Every step keeps the types of the rounds. *)
LEMMA RoundsStep ==
    ASSUME DealerTypeOK, [DealerNext]_dealerVars
    PROVE  RoundsOK'
<1>0. RoundsOK /\ TypeOK
  BY DEF DealerTypeOK
<1>1. ASSUME NEW p \in Player, NEW g \in Game, NEW w \in WagerInput \ {NotFinite}, StartRound(p, g, w)
      PROVE  RoundsOK'
  <2>1. SafeWager(w) \in 0 .. MaxWager
    BY SafeWagerType, WagerAssumption
  <2>2. CASE Ready(p, g, SafeWager(w)) /\ UNCHANGED preflighting
    BY <1>0, <2>1, <2>2, RoundsReadied DEF RoundsOK
  <2>3. CASE ~(Ready(p, g, SafeWager(w)) /\ UNCHANGED preflighting)
    BY <1>0, <1>1, <2>1, <2>3 DEF StartRound, RoundsOK
  <2> QED
    BY <2>2, <2>3
<1>2. ASSUME NEW start \in preflighting, PreflightReturns(start)
      PROVE  RoundsOK'
  <2>1. start[1] \in Player /\ start[2] \in Game /\ start[3] \in 0 .. MaxWager
    BY <1>0 DEF RoundsOK
  <2>2. preflighting' \subseteq preflighting
    BY <1>2 DEF PreflightReturns
  <2>3. CASE Ready(start[1], start[2], start[3])
    BY <1>0, <2>1, <2>2, <2>3, RoundsReadied DEF RoundsOK
  <2>4. CASE UNCHANGED <<vars, pending, nextSeed, round, escrowed, closing>>
    BY <1>0, <2>2, <2>4 DEF RoundsOK
  <2> QED
    BY <1>2, <2>3, <2>4 DEF PreflightReturns
<1>3. ASSUME NEW p \in Player, NEW m \in Move, PickRound(p, m)
      PROVE  RoundsOK'
  <2>1. UNCHANGED <<preflighting, nextSeed>>
    BY <1>3 DEF PickRound
  <2>2. CASE Forget(p) /\ UNCHANGED round
    BY <1>0, <2>1, <2>2, RoundsForgotten DEF RoundsOK
  <2>3. CASE CreateAccepted(p, House, pending[p].game, pending[p].wager)
             /\ round' = [round EXCEPT ![counter] =
                    [Idle EXCEPT !.stage = "created", !.seed = pending[p].seed, !.pick = m]]
             /\ UNCHANGED pending
    <3>1. pending[p].seed \in Seed \cup {0}
      BY <1>0 DEF RoundsOK, Pending
    <3>2. [Idle EXCEPT !.stage = "created", !.seed = pending[p].seed, !.pick = m] \in RoundRecord
      BY <3>1, RoundTypes DEF RoundRecord, Stage
    <3>3. round' \in [ChallengeId -> RoundRecord]
      BY <1>0, <2>3, <3>2 DEF RoundsOK
    <3> QED
      BY <1>0, <2>1, <2>3, <3>3 DEF RoundsOK
  <2> QED
    BY <1>3, <2>2, <2>3 DEF PickRound
<1>4. ASSUME NEW c \in ChallengeId, HouseAccepts(c) \/ StakeLocked(c) \/ StakeRefused(c)
      PROVE  RoundsOK'
  <2>1. UNCHANGED <<pending, preflighting, nextSeed>> /\ (Goto(c, "staking") \/ Goto(c, "accepted"))
    BY <1>4 DEF HouseAccepts, StakeLocked, StakeRefused
  <2>2. "staking" \in Stage /\ "accepted" \in Stage
    BY DEF Stage
  <2> QED
    BY <1>0, <2>1, <2>2, RoundStaged DEF RoundsOK
<1>5. ASSUME NEW c \in ChallengeId, PickFails(c)
      PROVE  RoundsOK'
  <2>1. Goto(c, "failed") /\ Forget(PlayerOf(c)) /\ UNCHANGED <<preflighting, nextSeed>> /\ "failed" \in Stage
    BY <1>5 DEF PickFails, Stage
  <2> QED
    BY <1>0, <2>1, RoundStaged, RoundsForgotten DEF RoundsOK
<1>6. ASSUME NEW c \in ChallengeId, Reveal(c)
      PROVE  RoundsOK'
  <2>1. PICK drawn \in Draws(c), m \in HouseMoves(c) :
            round' = [round EXCEPT ![c].stage = "moved", ![c].drawn = drawn, ![c].houseMove = m]
    BY <1>6 DEF Reveal
  <2>2. challenges[c].game \in Game /\ challenges[c].game \in {"rps", "coinflip", "dice_duel"}
    BY <1>0, GameAssumption DEF TypeOK, Challenge
  <2>3. m \in Move
    <3>1. m \in MovesOf(challenges[c].game)
      BY <2>2 DEF HouseMoves, MovesOf
    <3> QED
      BY <2>2, <3>1, MovesAreMoves
  <2>4. drawn \in Coin \cup DiceFace \cup {NoMove}
    BY <2>2 DEF Draws
  <2>5. [round[c] EXCEPT !.stage = "moved", !.drawn = drawn, !.houseMove = m] \in RoundRecord
    BY <1>0, <2>3, <2>4 DEF RoundsOK, RoundRecord, Stage
  <2>6. round' = [round EXCEPT ![c] = [round[c] EXCEPT !.stage = "moved", !.drawn = drawn, !.houseMove = m]]
    BY <2>1
  <2>7. round' \in [ChallengeId -> RoundRecord] /\ UNCHANGED <<pending, preflighting, nextSeed>>
    BY <1>0, <1>6, <2>5, <2>6 DEF RoundsOK, Reveal
  <2> QED
    BY <1>0, <2>7 DEF RoundsOK
<1>7. ASSUME NEW c \in ChallengeId, HouseSubmits(c)
      PROVE  RoundsOK'
  <2>1. UNCHANGED <<pending, preflighting, nextSeed>> /\ (Goto(c, "settling") \/ Goto(c, "refused"))
    BY <1>7 DEF HouseSubmits
  <2>2. "settling" \in Stage /\ "refused" \in Stage
    BY DEF Stage
  <2> QED
    BY <1>0, <2>1, <2>2, RoundStaged DEF RoundsOK
<1>8. ASSUME NEW c \in ChallengeId, Answer(c)
      PROVE  RoundsOK'
  <2> DEFINE ch == challenges[c]
             delta == IF ch.winner = PlayerOf(c) THEN ch.wager ELSE IF ch.winner # Nobody THEN -ch.wager ELSE 0
  <2>1. round' = [round EXCEPT ![c].stage = "answered", ![c].winner = ch.winner, ![c].delta = delta]
    BY <1>8 DEF Answer
  <2>2. ch.winner \in Participant \cup {Nobody} /\ ch.wager \in 0 .. MaxWager
    BY <1>0 DEF TypeOK, Challenge
  <2>3. delta \in -MaxWager .. MaxWager
    <3>1. MaxWager \in Nat
      BY WagerAssumption
    <3>2. ch.wager \in -MaxWager .. MaxWager /\ -ch.wager \in -MaxWager .. MaxWager /\ 0 \in -MaxWager .. MaxWager
      BY <2>2, <3>1
    <3> QED
      BY <3>2
  <2> HIDE DEF delta
  <2>4. [round[c] EXCEPT !.stage = "answered", !.winner = ch.winner, !.delta = delta] \in RoundRecord
    BY <1>0, <2>2, <2>3 DEF RoundsOK, RoundRecord, Stage
  <2>5. round' = [round EXCEPT ![c] = [round[c] EXCEPT !.stage = "answered", !.winner = ch.winner, !.delta = delta]]
    BY <2>1
  <2>6. round' \in [ChallengeId -> RoundRecord] /\ Forget(PlayerOf(c)) /\ UNCHANGED <<preflighting, nextSeed>>
    BY <1>0, <1>8, <2>4, <2>5 DEF RoundsOK, Answer
  <2> QED
    BY <1>0, <2>6, RoundsForgotten DEF RoundsOK
<1>9. ASSUME NEW c \in ChallengeId, NEW p \in Player, NEW m \in Move, SendMove(c, p, m)
      PROVE  RoundsOK'
  BY <1>0, <1>9 DEF SendMove, RoundsOK
<1>10. ASSUME NEW c \in ChallengeId, Settle(c)
       PROVE  RoundsOK'
  BY <1>0, <1>10 DEF Settle, RoundsOK
<1>11. ASSUME NEW p \in Player, Disconnect(p)
       PROVE  RoundsOK'
  <2>1. Forget(p) /\ UNCHANGED <<preflighting, nextSeed, round>>
    BY <1>11 DEF Disconnect
  <2> QED
    BY <1>0, <2>1, RoundsForgotten DEF RoundsOK
<1>12. CASE MainLoop
  <2>1. pending' \in [Player -> Pending] /\ UNCHANGED <<preflighting, nextSeed, round>>
    BY <1>0, <1>12, RoundTypes DEF MainLoop, RoundsOK
  <2> QED
    BY <1>0, <2>1 DEF RoundsOK
<1>13. CASE Clock
  <2>1. ASSUME NEW p \in Player
        PROVE  pending'[p] \in Pending
    <3>1. pending[p] \in Pending /\ pending[p].life \in 0 .. RoundTicks /\ RoundTicks \in Nat
      BY <1>0, DealerAssumption DEF RoundsOK, Pending
    <3> DEFINE n == IF pending[p].life > 0 THEN pending[p].life - 1 ELSE 0
    <3>2. n \in 0 .. RoundTicks
      BY <3>1
    <3>3. pending'[p] = [pending[p] EXCEPT !.life = n]
      BY <1>13 DEF Clock
    <3> HIDE DEF n
    <3> QED
      BY <3>1, <3>2, <3>3 DEF Pending
  <2>2. pending' \in [Player -> Pending] /\ UNCHANGED <<preflighting, nextSeed, round>>
    BY <1>13, <2>1 DEF Clock
  <2> QED
    BY <1>0, <2>2 DEF RoundsOK
<1>14. CASE UNCHANGED dealerVars
  BY <1>0, <1>14 DEF dealerVars, RoundsOK
<1>15. ASSUME NEW c \in ChallengeId, PickStep(c)
       PROVE  RoundsOK'
  BY <1>4, <1>5, <1>6, <1>7, <1>8, <1>15 DEF PickStep
<1> QED
  BY <1>1, <1>2, <1>3, <1>9, <1>10, <1>11, <1>12, <1>13, <1>14, <1>15 DEF DealerNext

-----------------------------------------------------------------------------
(* A round that stands still, whatever its challenge becomes. *)
LEMMA RoundStays ==
    ASSUME NEW c \in ChallengeId, DealsFairly(c), UNCHANGED round,
           challenges'[c].status \in {challenges[c].status, "active", "declined", "expired", "resolved"}
    PROVE  RoundGoes(c)
BY DEF DealsFairly, Deals, RoundGoes, Revealed

(* From one stage to another on the same side of the reveal.                 *)
ReachesStage(from, to) ==
    \/ from \in {"created", "staking", "accepted"} /\ to \in {"staking", "accepted", "failed"}
    \/ from = "moved" /\ to \in {"settling", "refused"}

(* A round that passes to such a stage. *)
LEMMA RoundPasses ==
    ASSUME RoundsOK, NEW d \in ChallengeId, NEW s \in Stage, Goto(d, s),
           ReachesStage(round[d].stage, s),
           NEW c \in ChallengeId, DealsFairly(c),
           c = d => challenges'[c].status # "pending",
           c # d => challenges'[c].status = challenges[c].status
    PROVE  RoundGoes(c)
<1>1. c # d => round'[c] = round[c]
  BY DEF Goto, RoundsOK
<1>2. c = d => round'[c].stage = s /\ round'[c].drawn = round[c].drawn
  BY DEF Goto, RoundsOK, RoundRecord
<1> QED
  BY <1>1, <1>2 DEF DealsFairly, Deals, RoundGoes, Revealed, ReachesStage

(* The engine does nothing. *)
LEMMA EngineRests ==
    ASSUME NEW c \in ChallengeId, DealsFairly(c), RoundGoes(c), Refuse \/ UNCHANGED vars
    PROVE  DealsFairly(c)'
BY ChallengeStays DEF Refuse, vars

(* A pick creates the challenge of its round. *)
LEMMA CreatedDeals ==
    ASSUME DealerInv, NEW p \in Player, NEW m \in Move, PickRound(p, m), NEW c \in ChallengeId
    PROVE  DealsFairly(c)'
<1>0. DealsFairly(c) /\ TypeOK /\ RoundsOK /\ round \in [ChallengeId -> RoundRecord]
      /\ challenges \in [ChallengeId -> Challenge]
  BY DEF DealerInv, DealerTypeOK, RoundsOK, TypeOK
<1>1. CASE (Refuse \/ CreateRefused(p, House)) /\ UNCHANGED round
  BY <1>0, <1>1, RoundStays, EngineRests DEF CreateRefused, Refuse
<1>2. CASE CreateAccepted(p, House, pending[p].game, pending[p].wager)
           /\ round' = [round EXCEPT ![counter] =
                  [Idle EXCEPT !.stage = "created", !.seed = pending[p].seed, !.pick = m]]
  <2>1. CASE c = counter
    <3>1. challenges'[c] = [Unused EXCEPT !.status = "pending", !.challenger = p, !.opponent = House,
                         !.game = pending[p].game, !.wager = SafeWager(pending[p].wager)]
      BY <1>0, <1>2, <2>1 DEF CreateAccepted
    <3>2. challenges'[c].status = "pending" /\ challenges'[c].opponent = House
          /\ challenges'[c].opponentMove = NoMove
      BY <3>1 DEF Unused
    <3>3. round'[c].stage = "created"
      BY <1>0, <1>2, <2>1 DEF Idle
    <3> QED
      BY <3>2, <3>3 DEF DealsFairly, Deals, ShowsCoin, Revealed
  <2>2. CASE c # counter
    <3>1. round'[c] = round[c] /\ challenges'[c] = challenges[c] /\ override'[c] = override[c]
      BY <1>0, <1>2, <2>2 DEF CreateAccepted
    <3> QED
      BY <1>0, <3>1, ChallengeStays DEF RoundGoes, Revealed, DealsFairly, Deals
  <2> QED
    BY <2>1, <2>2
<1> QED
  BY <1>1, <1>2 DEF PickRound

(* The house accepts while the house has not moved and nothing is revealed. *)
LEMMA HouseAcceptsDeals ==
    ASSUME DealerInv, NEW d \in ChallengeId, HouseAccepts(d), NEW c \in ChallengeId
    PROVE  DealsFairly(c)'
<1>0. DealsFairly(c) /\ DealsFairly(d) /\ TypeOK /\ RoundsOK /\ challenges \in [ChallengeId -> Challenge]
  BY DEF DealerInv, DealerTypeOK, TypeOK
<1>1. PICK s \in {"staking", "accepted"} : Goto(d, s)
  BY DEF HouseAccepts
<1>2. round[d].stage = "created" /\ s \in Stage /\ ~Revealed(d) /\ ReachesStage(round[d].stage, s)
  BY DEF HouseAccepts, Stage, Revealed, ReachesStage
<1>3. CASE RespondAccept(d, House)
  <2>1. /\ c = d => challenges[c].status = "pending" /\ challenges'[c] = [challenges[c] EXCEPT !.status = "active"]
        /\ c # d => challenges'[c] = challenges[c]
        /\ override'[c] = override[c]
    BY <1>0, <1>3 DEF RespondAccept
  <2>2. c = d => challenges'[c].status = "active"
    BY <1>0, <2>1 DEF Challenge
  <2>3. RoundGoes(c)
    BY <1>0, <1>1, <1>2, <2>1, <2>2, RoundPasses
  <2>4. "active" \in {"declined", "expired", "active"} /\ "pending" # "unused"
    OBVIOUS
  <2>5. CASE c = d
    BY <1>0, <1>2, <2>1, <2>3, <2>4, <2>5, ChallengeOnStatus
  <2>6. CASE c # d
    BY <1>0, <2>1, <2>3, <2>6, ChallengeStays
  <2> QED
    BY <2>5, <2>6
<1>4. CASE RespondRefused(d, House)
  <2>1. challenges[d].status # "pending"
    BY <1>0, <1>4 DEF RespondRefused, DealsFairly, Deals
  <2>2. UNCHANGED <<challenges, override>>
    BY <1>4 DEF RespondRefused, Refuse
  <2>3. RoundGoes(c)
    BY <1>0, <1>1, <1>2, <2>1, <2>2, RoundPasses
  <2> QED
    BY <1>0, <2>2, <2>3, ChallengeStays
<1> QED
  BY <1>3, <1>4 DEF HouseAccepts

(* The stakes are locked, or the pick ends, before the reveal. *)
LEMMA StakeDeals ==
    ASSUME DealerInv, NEW d \in ChallengeId, StakeLocked(d) \/ StakeRefused(d) \/ PickFails(d), NEW c \in ChallengeId
    PROVE  DealsFairly(c)'
<1>0. DealsFairly(c) /\ DealsFairly(d) /\ TypeOK /\ RoundsOK /\ challenges \in [ChallengeId -> Challenge]
  BY DEF DealerInv, DealerTypeOK, TypeOK
<1>1. PICK s \in {"accepted", "failed"} : Goto(d, s)
  BY DEF StakeLocked, StakeRefused, PickFails
<1>2. ReachesStage(round[d].stage, s) /\ s \in Stage /\ challenges[d].status # "pending"
  BY <1>0 DEF StakeLocked, StakeRefused, PickFails, Stage, DealsFairly, Deals, ReachesStage
<1>3. CASE AbortChallenge(d, "declined") /\ IsOpen(d)
  <2>1. CloseVoid(d, "declined") /\ "declined" \in {"declined", "expired"}
    BY <1>3 DEF AbortChallenge
  <2>2. challenges'[d].status = "declined" /\ (c # d => challenges'[c] = challenges[c])
    BY <1>0, <2>1 DEF CloseVoid, Challenge
  <2>3. RoundGoes(c)
    BY <1>0, <1>1, <1>2, <2>2, RoundPasses
  <2> QED
    BY <1>0, <1>3, <2>1, <2>3, ChallengesVoided
<1>4. CASE Refuse \/ UNCHANGED vars
  <2>1. UNCHANGED <<challenges, override>>
    BY <1>4 DEF Refuse, vars
  <2>2. RoundGoes(c)
    BY <1>0, <1>1, <1>2, <2>1, RoundPasses
  <2> QED
    BY <1>0, <2>1, <2>2, ChallengeStays
<1> QED
  BY <1>3, <1>4 DEF StakeLocked, StakeRefused, PickFails, AbortChallenge

(* The seed is revealed: the engine is told the coin before the house moves. *)
LEMMA RevealDeals ==
    ASSUME DealerInv, NEW d \in ChallengeId, Reveal(d), NEW c \in ChallengeId
    PROVE  DealsFairly(c)'
<1>0. DealsFairly(c) /\ TypeOK /\ RoundsOK /\ DealerTypeOK /\ override \in [ChallengeId -> Coin \cup {NoMove}]
      /\ round \in [ChallengeId -> RoundRecord]
  BY DEF DealerInv, DealerTypeOK, RoundsOK, TypeOK
<1>1. PICK drawn \in Draws(d), m \in HouseMoves(d) :
         /\ round' = [round EXCEPT ![d].stage = "moved", ![d].drawn = drawn, ![d].houseMove = m]
         /\ override' = IF challenges[d].game = "coinflip" THEN [override EXCEPT ![d] = drawn] ELSE override
  BY DEF Reveal
<1>2. /\ challenges'[c].status = challenges[c].status
      /\ challenges'[c].opponent = challenges[c].opponent
      /\ challenges'[c].game = challenges[c].game
      /\ challenges'[c].opponentMove = challenges[c].opponentMove
      /\ c # d => challenges'[c] = challenges[c]
  BY <1>0, PickMoves DEF Reveal
<1>3. round[d].stage = "accepted"
  BY DEF Reveal
<1>4. CASE c = d
  <2>1. round'[c].stage = "moved" /\ round'[c].drawn = drawn
    BY <1>0, <1>1, <1>4 DEF RoundRecord
  <2>2. challenges[c].game = "coinflip" => drawn \in Coin /\ override'[c] = drawn
    BY <1>0, <1>1, <1>4 DEF Draws
  <2>3. challenges[c].opponentMove = NoMove /\ challenges[c].status # "pending"
    BY <1>0, <1>3, <1>4 DEF DealsFairly, Deals, Revealed
  <2>4. \A x \in Coin : x # NoMove
    BY DEF Coin, NoMove
  <2> QED
    BY <1>0, <1>2, <2>1, <2>2, <2>3, <2>4 DEF DealsFairly, Deals, ShowsCoin, Revealed
<1>5. CASE c # d
  <2>1. round'[c] = round[c] /\ override'[c] = override[c] /\ challenges'[c] = challenges[c]
    BY <1>0, <1>1, <1>2, <1>5
  <2> QED
    BY <1>0, <2>1, ChallengeStays DEF RoundGoes, Revealed, DealsFairly, Deals
<1> QED
  BY <1>4, <1>5

(* A move leaves a challenge active or resolved. *)
LEMMA MoveStatus ==
    ASSUME TypeOK, NEW d \in ChallengeId, NEW p, NEW m, MoveRecorded(d, p, m), NEW c \in ChallengeId
    PROVE  IF c = d THEN challenges'[c].status \in {"active", "resolved"} ELSE challenges'[c] = challenges[c]
<1>1. CASE c # d
  BY <1>1, OthersByMove
<1>2. CASE c = d
  <2> DEFINE moved == WithMove(d, p, m)
  <2>1. challenges[d] \in Challenge /\ challenges \in [ChallengeId -> Challenge]
    BY DEF TypeOK
  <2>2. moved.status = "active" /\ "status" \in DOMAIN moved
    BY <2>1 DEF MoveRecorded, WithMove, Challenge
  <2>3. CASE moved.challengerMove = NoMove \/ moved.opponentMove = NoMove
    <3>1. challenges'[c] = moved
      BY <1>2, <2>1, <2>3 DEF MoveRecorded
    <3> QED
      BY <1>2, <2>2, <3>1
  <2>4. CASE moved.challengerMove # NoMove /\ moved.opponentMove # NoMove
    <3>1. PICK result \in Results(d) :
             challenges' = [challenges EXCEPT ![d] =
                [moved EXCEPT !.status = "resolved", !.result = result,
                              !.winner = Judge(moved, result)]]
      BY <2>4 DEF MoveRecorded
    <3>2. challenges'[c].status = "resolved"
      BY <1>2, <2>1, <2>2, <3>1
    <3> QED
      BY <1>2, <3>2
  <2> QED
    BY <2>3, <2>4
<1> QED
  BY <1>1, <1>2

(* Every challenge, after a move in one. *)
LEMMA MoveDeals ==
    ASSUME DealerInv, NEW d \in ChallengeId, NEW p, NEW m, MoveRecorded(d, p, m), Revealed(d) \/ p # House,
           NEW c \in ChallengeId, RoundGoes(c)
    PROVE  DealsFairly(c)'
<1>0. DealsFairly(c) /\ TypeOK
  BY DEF DealerInv, DealerTypeOK
<1>1. CASE c = d
  BY <1>0, <1>1, ChallengeMoves
<1>2. CASE c # d
  BY <1>0, <1>2, OthersByMove, ChallengeStays
<1> QED
  BY <1>1, <1>2

(* The house moves, with the coin set. *)
LEMMA HouseDeals ==
    ASSUME DealerInv, NEW d \in ChallengeId, HouseSubmits(d), NEW c \in ChallengeId
    PROVE  DealsFairly(c)'
<1>0. DealsFairly(c) /\ DealsFairly(d) /\ TypeOK /\ RoundsOK /\ challenges \in [ChallengeId -> Challenge]
  BY DEF DealerInv, DealerTypeOK, TypeOK
<1>1. PICK s \in {"settling", "refused"} : Goto(d, s)
  BY DEF HouseSubmits
<1>2. round[d].stage = "moved" /\ s \in Stage /\ Revealed(d) /\ challenges[d].status # "pending"
      /\ ReachesStage(round[d].stage, s)
  BY <1>0 DEF HouseSubmits, Stage, Revealed, DealsFairly, Deals, ReachesStage
<1>3. CASE MoveRecorded(d, House, round[d].houseMove)
  <2>1. /\ c = d => challenges'[c].status # "pending"
        /\ c # d => challenges'[c].status = challenges[c].status
    <3>1. IF c = d THEN challenges'[c].status \in {"active", "resolved"} ELSE challenges'[c] = challenges[c]
      BY <1>0, <1>3, MoveStatus
    <3> QED
      BY <3>1
  <2>2. RoundGoes(c)
    BY <1>0, <1>1, <1>2, <2>1, RoundPasses
  <2> QED
    BY <1>2, <1>3, <2>2, MoveDeals
<1>4. CASE MoveRefused(d, House, round[d].houseMove)
  <2>1. UNCHANGED <<challenges, override>>
    BY <1>4 DEF MoveRefused, Refuse
  <2>2. RoundGoes(c)
    BY <1>0, <1>1, <1>2, <2>1, RoundPasses
  <2> QED
    BY <1>0, <2>1, <2>2, ChallengeStays
<1> QED
  BY <1>3, <1>4 DEF HouseSubmits

(* The answer to the player changes no challenge. *)
LEMMA AnswerDeals ==
    ASSUME DealerInv, NEW d \in ChallengeId, Answer(d), NEW c \in ChallengeId
    PROVE  DealsFairly(c)'
<1>0. DealsFairly(c) /\ DealsFairly(d) /\ round \in [ChallengeId -> RoundRecord]
  BY DEF DealerInv, DealerTypeOK, RoundsOK
<1>1. UNCHANGED <<challenges, override>> /\ round[d].stage \in {"refused", "settling"}
  BY DEF Answer, vars
<1>2. /\ c # d => round'[c] = round[c]
      /\ c = d => round'[c].stage = "answered" /\ round'[c].drawn = round[c].drawn
  BY <1>0 DEF Answer, RoundRecord
<1>3. RoundGoes(c)
  BY <1>0, <1>1, <1>2 DEF RoundGoes, Revealed, DealsFairly, Deals
<1> QED
  BY <1>0, <1>1, <1>3, ChallengeStays

(* Every step of the rounds and of what goes on around them keeps the        *)
(* invariant.                                                                *)
LEMMA DealerStep == DealerInv /\ [DealerNext]_dealerVars => DealerInv'
<1> SUFFICES ASSUME DealerInv, [DealerNext]_dealerVars PROVE DealerInv'
  OBVIOUS
<1>1. DealerTypeOK'
  BY EngineTypes, RoundsStep DEF DealerInv, DealerTypeOK
<1>2. ASSUME NEW c \in ChallengeId
      PROVE  DealsFairly(c)'
  <2>0. DealsFairly(c) /\ TypeOK /\ RoundsOK /\ challenges \in [ChallengeId -> Challenge]
    BY DEF DealerInv, DealerTypeOK, TypeOK
  <2>1. CASE UNCHANGED round /\ (Refuse \/ UNCHANGED vars)
    BY <2>0, <2>1, RoundStays, EngineRests DEF Refuse, vars
  <2>2. ASSUME NEW d \in ChallengeId, NEW p \in Player, NEW m \in Move, SendMove(d, p, m)
        PROVE  DealsFairly(c)'
    <3>1. MoveRecorded(d, p, m) /\ p # House /\ UNCHANGED round
      BY <2>2, HouseAssumption DEF SendMove
    <3>2. challenges'[c].status \in {challenges[c].status, "active", "resolved"}
      BY <2>0, <3>1, MoveStatus
    <3>3. RoundGoes(c)
      BY <2>0, <3>1, <3>2, RoundStays
    <3> QED
      BY <3>1, <3>3, MoveDeals
  <2>3. CASE MainLoop
    <3>1. CASE Tick /\ UNCHANGED round
      <4>1. challenges'[c].status \in {challenges[c].status, "expired", "resolved"}
        <5>1. challenges[c] \in Challenge
          BY <2>0
        <5>2. challenges'[c].status = IF c \in DueActive THEN "resolved"
                                      ELSE IF c \in Due THEN "expired" ELSE challenges[c].status
          BY <3>1, <5>1 DEF Tick, Challenge
        <5> QED
          BY <5>2
      <4>2. RoundGoes(c)
        BY <2>0, <3>1, <4>1, RoundStays
      <4> QED
        BY <2>0, <3>1, <4>2, ChallengesTicked
    <3> QED
      BY <2>1, <2>3, <3>1 DEF MainLoop
  <2>4. ASSUME NEW p \in Player, Disconnect(p)
        PROVE  DealsFairly(c)'
    <3>1. CASE ClearDisconnectedPlayer(p) /\ UNCHANGED round
      <4>1. activeByPlayer[p] \in ChallengeId /\ IsOpen(activeByPlayer[p]) /\ CloseVoid(activeByPlayer[p], "expired")
        BY <2>0, <3>1 DEF ClearDisconnectedPlayer, TypeOK
      <4>2. challenges'[c].status \in {challenges[c].status, "expired"} /\ "expired" \in {"declined", "expired"}
        BY <2>0, <4>1 DEF CloseVoid, Challenge
      <4>3. RoundGoes(c)
        BY <2>0, <3>1, <4>2, RoundStays
      <4> QED
        BY <2>0, <4>1, <4>2, <4>3, ChallengesVoided
    <3> QED
      BY <2>1, <2>4, <3>1 DEF Disconnect
  <2>5. ASSUME NEW p \in Player, NEW g \in Game, NEW w \in WagerInput \ {NotFinite}, StartRound(p, g, w)
        PROVE  DealsFairly(c)'
    BY <2>1, <2>5 DEF StartRound, Ready
  <2>6. ASSUME NEW start \in preflighting, PreflightReturns(start)
        PROVE  DealsFairly(c)'
    BY <2>1, <2>6 DEF PreflightReturns, Ready
  <2>7. ASSUME NEW d \in ChallengeId, Settle(d)
        PROVE  DealsFairly(c)'
    BY <2>1, <2>7 DEF Settle
  <2>8. CASE Clock
    <3>1. UNCHANGED <<challenges, override, round>>
      BY <2>8 DEF Clock, TimePasses
    <3> QED
      BY <2>0, <3>1, RoundStays, ChallengeStays
  <2>9. CASE UNCHANGED dealerVars
    BY <2>1, <2>9 DEF dealerVars
  <2>10. ASSUME NEW d \in ChallengeId, PickStep(d)
         PROVE  DealsFairly(c)'
    BY <2>10, HouseAcceptsDeals, StakeDeals, RevealDeals, HouseDeals, AnswerDeals DEF PickStep
  <2> QED
    BY <2>2, <2>3, <2>4, <2>5, <2>6, <2>7, <2>8, <2>9, <2>10, CreatedDeals DEF DealerNext
<1> QED
  BY <1>1, <1>2 DEF DealerInv

(* The invariant holds before the first round. *)
LEMMA DealerInitially == DealerInit => DealerInv
<1> SUFFICES ASSUME DealerInit PROVE DealerInv
  OBVIOUS
<1>1. TypeOK
  BY InitType DEF DealerInit
<1>2. RoundsOK
  BY RoundTypes DEF DealerInit, RoundsOK
<1>3. \A c \in ChallengeId : DealsFairly(c)
  BY DEF DealerInit, Init, DealsFairly, Deals, ShowsCoin, Idle, Unused, Revealed
<1> QED
  BY <1>1, <1>2, <1>3 DEF DealerInv, DealerTypeOK

(* A coin flip that both sides played shows the coin drawn from the revealed *)
(* seeds, for any players, seeds and wagers and however picks, moves, ticks  *)
(* and disconnects interleave with what pickRound awaits                     *)
(* (setCoinflipResultOverride before the last move of the round).            *)
THEOREM CoinIsTheRevealedOne == DealerSafety => []CoinAsRevealed
<1>1. DealerInv => CoinAsRevealed
  BY DEF DealerInv, DealsFairly, ShowsCoin, CoinAsRevealed
<1> QED
  BY <1>1, DealerInitially, DealerStep, PTL DEF DealerSafety
==============================================================================
