---------------------- MODULE ChallengeDispatchProofs ----------------------
(***************************************************************************)
(* Theorems about ChallengeDispatch, the server around the engine, for any *)
(* players, wagers, number of challenges and failing calls.                *)
(*                                                                         *)
(* Its steps are steps of the engine or leave it alone, so what is proved  *)
(* of the engine holds in it.  What it adds says how far the three         *)
(* dispatches of a challenge have come when a transaction of it is on the  *)
(* chain, whichever order answers, moves, deadlines and receipts came in.  *)
(***************************************************************************)
EXTENDS ChallengeDispatch, ChallengeServiceProofs

(* A step of the server is a step of the engine, or none.                  *)
LEMMA DispatchDrivesEngine == [DispatchNext]_allVars => [Next]_vars
<1> SUFFICES ASSUME DispatchNext, ~ UNCHANGED vars PROVE Next
  BY DEF allVars
<1> USE DEF Next
<1>1. ASSUME NEW p \in Player, NEW q \in Participant, NEW g \in Game, NEW w \in WagerInput,
             Send(p, q, g, w)
      PROVE  Next
  BY <1>1 DEF Send, Create, CreateChallenge
<1>2. ASSUME NEW c \in ChallengeId, NEW p \in Participant, Accept(c, p)
      PROVE  Next
  BY <1>2 DEF Accept, Respond
<1>3. ASSUME NEW c \in ChallengeId, NEW p \in Player, Decline(c, p)
      PROVE  Next
  <2>1. p \in Participant /\ FALSE \in BOOLEAN
    BY DEF Participant
  <2>2. Respond(c, p, FALSE)
    BY <1>3 DEF Decline, Respond
  <2> QED
    BY <2>1, <2>2
<1>4. ASSUME NEW c \in ChallengeId, NEW p \in Participant, NEW m \in Move, SendMove(c, p, m)
      PROVE  Next
  BY <1>4 DEF SendMove, SubmitMove
<1>5. ASSUME NEW p \in Player, Disconnect(p)
      PROVE  Next
  BY <1>5 DEF Disconnect
<1>6. ASSUME NEW c \in ChallengeId, ServerStep(c)
      PROVE  Next
  <2>1. AbortChallenge(c, "declined")
    BY <1>6 DEF ServerStep, RefuseRegistration, Announce, WalletMissing, LockStake, SendTx,
       StakeLocked, PolicyDisabled, StakeRefused, SkipSettlement, BeginSettlement,
       Settled, SettleFailed, Refunded, ReleasePlayers, AbortPlain
  <2> QED
    BY <2>1
<1>7. ASSUME NEW c \in ChallengeId, NEW kind \in TxKind, Mine(c, kind)
      PROVE  Next
  BY <1>7 DEF Mine
<1>8. CASE MainLoopTick
  BY <1>8 DEF MainLoopTick
<1>9. CASE Clock
  BY <1>9 DEF Clock, Elapse
<1> QED
  BY <1>1, <1>2, <1>3, <1>4, <1>5, <1>6, <1>7, <1>8, <1>9 DEF DispatchNext

(* The server uses the engine as its specification has it, so that every    *)
(* theorem about the engine holds of the challenges of a server.           *)
THEOREM ServerDrivesEngine == DispatchSafety => Safety
<1>1. DispatchInit => Init
  BY DEF DispatchInit
<1> QED
  BY <1>1, DispatchDrivesEngine, PTL DEF DispatchSafety, Safety

-----------------------------------------------------------------------------
(* What is agreed when a challenge is created stays.                        *)
Terms(ch) == <<ch.challenger, ch.opponent, ch.wager>>

TermsStay ==
    \A c \in ChallengeId :
        challenges[c].status # "unused" =>
            challenges'[c].status # "unused" /\ Terms(challenges'[c]) = Terms(challenges[c])

LEMMA TermsStep == IndInv /\ [Next]_vars => TermsStay
<1> SUFFICES ASSUME IndInv, [Next]_vars, NEW c \in ChallengeId,
                    challenges[c].status # "unused"
             PROVE  challenges'[c].status # "unused" /\ Terms(challenges'[c]) = Terms(challenges[c])
  BY DEF TermsStay
<1> DEFINE Stays == challenges'[c].status # "unused" /\ Terms(challenges'[c]) = Terms(challenges[c])
<1>0. challenges \in [ChallengeId -> Challenge]
  BY DEF IndInv, TypeOK
<1>1. CASE UNCHANGED challenges
  BY <1>1
<1>2. ASSUME NEW d \in ChallengeId, NEW s, s # "unused",
             challenges' = [challenges EXCEPT ![d].status = s]
      PROVE  Stays
  BY <1>0, <1>2 DEF Challenge, Terms
<1>3. ASSUME NEW d \in ChallengeId, NEW s \in {"declined", "expired"}, CloseVoid(d, s)
      PROVE  Stays
  BY <1>2, <1>3 DEF CloseVoid
<1>4. ASSUME NEW p \in Player, NEW q \in Participant, NEW g \in Game,
             NEW w \in WagerInput, CreateChallenge(p, q, g, w)
      PROVE  Stays
  <2>1. counter # c
    BY DEF CounterFresh, ChallengeId, IndInv, TypeOK
  <2> QED
    BY <1>0, <1>1, <1>4, <2>1 DEF CreateChallenge, CreateRefused, Refuse, CreateAccepted
<1>5. ASSUME NEW d \in ChallengeId, NEW p \in Participant, NEW accept \in BOOLEAN,
             Respond(d, p, accept)
      PROVE  Stays
  BY <1>1, <1>2, <1>3, <1>5 DEF Respond, RespondRefused, Refuse, RespondDecline, RespondAccept
<1>6. ASSUME NEW d \in ChallengeId, NEW s \in {"declined", "expired"}, AbortChallenge(d, s)
      PROVE  Stays
  BY <1>1, <1>3, <1>6 DEF AbortChallenge, Refuse
<1>7. ASSUME NEW d \in ChallengeId, NEW p \in Participant, NEW m \in Move,
             SubmitMove(d, p, m)
      PROVE  Stays
  <2>1. CASE MoveRefused(d, p, m)
    BY <1>1, <2>1 DEF MoveRefused, Refuse
  <2>2. CASE MoveRecorded(d, p, m)
    <3>1. /\ WithMove(d, p, m) \in Challenge
          /\ WithMove(d, p, m).status = challenges[d].status
          /\ Terms(WithMove(d, p, m)) = Terms(challenges[d])
      BY <1>0 DEF WithMove, Challenge, Terms
    <3>2. \/ challenges' = [challenges EXCEPT ![d] = WithMove(d, p, m)]
          \/ \E result \in Results(d) :
                challenges' = [challenges EXCEPT ![d] =
                    [WithMove(d, p, m) EXCEPT !.status = "resolved", !.result = result,
                                  !.winner = Judge(WithMove(d, p, m), result)]]
      BY <2>2 DEF MoveRecorded
    <3>3. CASE challenges' = [challenges EXCEPT ![d] = WithMove(d, p, m)]
      BY <1>0, <3>1, <3>3
    <3>4. ASSUME NEW result, 
                 challenges' = [challenges EXCEPT ![d] =
                    [WithMove(d, p, m) EXCEPT !.status = "resolved", !.result = result,
                                  !.winner = Judge(WithMove(d, p, m), result)]]
          PROVE  Stays
      BY <1>0, <3>1, <3>4 DEF Challenge, Terms
    <3> QED
      BY <3>2, <3>3, <3>4
  <2> QED
    BY <1>7, <2>1, <2>2 DEF SubmitMove
<1>8. CASE Tick
  <2>1. PICK result :
           challenges' = [d \in ChallengeId |->
               IF d \in DueActive
               THEN [challenges[d] EXCEPT !.status = "resolved",
                        !.result = result[d],
                        !.winner = TimeoutWinner(challenges[d], result[d])]
               ELSE IF d \in Due THEN [challenges[d] EXCEPT !.status = "expired"]
               ELSE challenges[d]]
    BY <1>8 DEF Tick
  <2> QED
    BY <1>0, <2>1 DEF Challenge, Terms
<1>9. ASSUME NEW p \in Player, ClearDisconnectedPlayer(p)
      PROVE  Stays
  <2>1. activeByPlayer[p] \in ChallengeId
    BY <1>9 DEF ClearDisconnectedPlayer, IndInv, TypeOK
  <2> QED
    BY <1>3, <1>9, <2>1 DEF ClearDisconnectedPlayer
<1>10. CASE Elapse
  BY <1>1, <1>10 DEF Elapse, TimePasses
<1>11. ASSUME NEW d \in ChallengeId, NEW side \in Coin, SetCoinflipResultOverride(d, side)
       PROVE  Stays
  BY <1>1, <1>11 DEF SetCoinflipResultOverride
<1>12. CASE UNCHANGED vars
  BY <1>1, <1>12 DEF vars
<1> QED
  BY <1>4, <1>5, <1>6, <1>7, <1>8, <1>9, <1>10, <1>11, <1>12 DEF Next


-----------------------------------------------------------------------------
(* How far the dispatches of a challenge are, against its status: its       *)
(* closing event is on its way once it has closed, a payout is only ever    *)
(* sent for one that was resolved, and a refund by its closing dispatch.    *)
StagesOK ==
    /\ creating \in [ChallengeId -> CreatingStage]
    /\ accepting \in [ChallengeId -> AcceptingStage]
    /\ closing \in [ChallengeId -> ClosingStage]
    /\ tx \in [ChallengeId -> [TxKind -> TxStatus]]

FitAt(c) ==
    /\ accepting[c] # "idle" => challenges[c].status # "unused"
    /\ closing[c] # "idle" => challenges[c].status \in Closed
    /\ closing[c] = "settling" => challenges[c].status = "resolved"
    /\ tx[c]["lock"] # "none" => accepting[c] # "idle"
    /\ tx[c]["settle"] # "none" => challenges[c].status = "resolved"
    /\ tx[c]["refund"] # "none" => closing[c] \in {"refunding", "releasing", "released"}

StagesFit == \A c \in ChallengeId : FitAt(c)

(* A bet on the chain is on the terms of its challenge.                     *)
BetsFit ==
    /\ bets \in [ChallengeId -> Contract!Bet]
    /\ balance \in [Account -> Int]
    /\ feeRecipient = Treasury /\ feeBps = FeeRate
    /\ \A c \in ChallengeId :
          bets[c].status # "None" =>
             /\ challenges[c].status # "unused"
             /\ bets[c].challenger = Challenger(c)
             /\ bets[c].opponent = Opponent(c)
             /\ bets[c].amount = challenges[c].wager

PartiesStay ==
    \A c \in ChallengeId :
        challenges[c].status # "unused" => Parties(challenges[c]) \subseteq Participant

DispatchInv == IndInv /\ StagesOK /\ StagesFit /\ PartiesStay /\ BetsFit

LEMMA PartiesStep == IndInv /\ PartiesStay /\ [Next]_vars => PartiesStay'
<1> SUFFICES ASSUME IndInv, PartiesStay, [Next]_vars, NEW c \in ChallengeId,
                    challenges'[c].status # "unused"
             PROVE  Parties(challenges'[c]) \subseteq Participant
  BY DEF PartiesStay
<1>1. IndInv'
  BY IndStep
<1>2. CASE challenges[c].status # "unused"
  BY <1>2, TermsStep DEF TermsStay, Terms, Parties, PartiesStay
<1>3. CASE challenges[c].status = "unused"
  <2>1. c >= counter /\ ~(c >= counter')
    BY <1>1, <1>3 DEF IndInv, CounterFresh
  <2>2. counter' # counter
    BY <2>1
  <2>3. PICK p \in Player, q \in Participant, g \in Game, w \in WagerInput :
           CreateAccepted(p, q, g, w)
    BY <2>2 DEF Next, vars, CreateChallenge, CreateRefused, Refuse, SetCoinflipResultOverride,
       Respond, RespondRefused, RespondDecline, RespondAccept, AbortChallenge, CloseVoid,
       SubmitMove, MoveRefused, MoveRecorded, Tick, ClearDisconnectedPlayer, Elapse, TimePasses
  <2>4. counter = c
    BY <2>1, <2>3, BoundAssumption DEF CreateAccepted, ChallengeId, IndInv, TypeOK
  <2>5. challenges'[c].status = "pending"
    BY <2>3, <2>4 DEF CreateAccepted, IndInv, TypeOK, Unused
  <2> QED
    BY <1>1, <2>5 DEF IndInv, PartiesKnown, IsOpen, Open
<1> QED
  BY <1>2, <1>3

LEMMA InitDispatch == DispatchInit => DispatchInv
<1> SUFFICES ASSUME DispatchInit PROVE DispatchInv
  OBVIOUS
<1>1. IndInv
  BY InitInd DEF DispatchInit
<1>2. StagesOK /\ StagesFit
  BY DEF DispatchInit, StagesOK, StagesFit, FitAt, CreatingStage, AcceptingStage, ClosingStage,
     TxKind, TxStatus
<1>3. PartiesStay
  BY DEF DispatchInit, Init, PartiesStay, Unused
<1>4. bets \in [ChallengeId -> Contract!Bet] /\ \A c \in ChallengeId : bets[c].status = "None"
  BY DEF DispatchInit, Contract!EscrowInit, Contract!NoBet, Contract!Bet, Contract!BetStatus
<1>5. balance \in [Account -> Int]
  BY DispatchAssumption DEF DispatchInit, Contract!EscrowInit
<1>6. feeRecipient = Treasury /\ feeBps = FeeRate
  BY DEF DispatchInit, Contract!EscrowInit
<1> QED
  BY <1>1, <1>2, <1>3, <1>4, <1>5, <1>6 DEF DispatchInv, BetsFit

-----------------------------------------------------------------------------
(* The steps of the server, sorted by what they do to the stages.           *)

(* The challenges that closed in this step enter their closing dispatch.    *)
LEMMA ClosedNowIs ==
    ASSUME IndInv, Next
    PROVE  ClosedNow = {c \in ChallengeId : IsOpen(c) /\ challenges'[c].status \in Closed}
BY AnnounceStep DEF ClosedNow, Announced

LEMMA ClosingMoves ==
    ASSUME DispatchInv, Next, NEW stage \in {"started", "plain"}, DispatchClosed(stage)
    PROVE  /\ closing' \in [ChallengeId -> ClosingStage]
           /\ \A c \in ChallengeId :
                 \/ closing'[c] = closing[c]
                 \/ /\ IsOpen(c) /\ challenges'[c].status \in Closed
                    /\ closing'[c] = stage
<1>1. closing' = [c \in ChallengeId |-> IF c \in ClosedNow THEN stage ELSE closing[c]]
  BY DEF DispatchClosed
<1>2. \A c \in ClosedNow : IsOpen(c) /\ challenges'[c].status \in Closed
  BY ClosedNowIs DEF DispatchInv
<1> HIDE DEF ClosedNow
<1> QED
  BY <1>1, <1>2 DEF DispatchInv, StagesOK, ClosingStage

(* A step of the engine, after which some challenges enter their closing    *)
(* dispatch and some the dispatch of their acceptance.                      *)
LEMMA EngineFits ==
    ASSUME DispatchInv, [Next]_vars, NEW c \in ChallengeId, tx' = tx,
           accepting[c] # "idle" => accepting'[c] # "idle",
           accepting'[c] # "idle" => accepting[c] # "idle" \/ challenges'[c].status # "unused",
           \/ closing'[c] = closing[c]
           \/ /\ IsOpen(c) /\ challenges'[c].status \in Closed
              /\ closing'[c] \in {"started", "plain"}
    PROVE  FitAt(c)'
<1>1. /\ FitAt(c)
      /\ challenges[c].status # "unused" => challenges'[c].status # "unused"
      /\ challenges[c].status \in Closed => challenges'[c] = challenges[c]
  BY TermsStep, FinalStep DEF DispatchInv, StagesFit, TermsStay, Final
<1>2. IsOpen(c) => challenges[c].status \notin Closed
  BY DEF IsOpen, Open, Closed
<1> QED
  BY <1>1, <1>2 DEF FitAt, Closed

(* The engine leaves the bets and their terms alone.                        *)
LEMMA EngineBets ==
    ASSUME DispatchInv, [Next]_vars, UNCHANGED chainVars
    PROVE  BetsFit'
<1>1. TermsStay
  BY TermsStep DEF DispatchInv
<1> QED
  BY <1>1 DEF DispatchInv, BetsFit, chainVars, TermsStay, Terms, Challenger, Opponent

(* The steps that drive the engine and write down what comes of it.         *)
LEMMA EngineStep ==
    ASSUME DispatchInv, Next, UNCHANGED <<tx, chainVars>>,
           creating' \in [ChallengeId -> CreatingStage],
           accepting' \in [ChallengeId -> AcceptingStage],
           \A c \in ChallengeId :
              /\ accepting[c] # "idle" => accepting'[c] # "idle"
              /\ accepting'[c] # "idle" => accepting[c] # "idle" \/ challenges'[c].status # "unused",
           closing' = closing \/ \E stage \in {"started", "plain"} : DispatchClosed(stage)
    PROVE  DispatchInv'
<1>1. \A c \in ChallengeId :
         /\ accepting[c] # "idle" => accepting'[c] # "idle"
         /\ accepting'[c] # "idle" => accepting[c] # "idle" \/ challenges'[c].status # "unused"
  OBVIOUS
<1>2. /\ closing' \in [ChallengeId -> ClosingStage]
      /\ \A c \in ChallengeId :
            \/ closing'[c] = closing[c]
            \/ /\ IsOpen(c) /\ challenges'[c].status \in Closed
               /\ closing'[c] \in {"started", "plain"}
  <2>1. CASE closing' = closing
    BY <2>1 DEF DispatchInv, StagesOK
  <2>2. ASSUME NEW stage \in {"started", "plain"}, DispatchClosed(stage)
        PROVE  <1>2
    BY <2>2, ClosingMoves
  <2> QED
    BY <2>1, <2>2
<1>3. StagesOK'
  BY <1>2 DEF DispatchInv, StagesOK
<1>4. StagesFit'
  <2> SUFFICES ASSUME NEW c \in ChallengeId PROVE FitAt(c)'
    BY DEF StagesFit
  <2> QED
    BY <1>1, <1>2, EngineFits
<1>5. IndInv' /\ PartiesStay'
  BY IndStep, PartiesStep DEF DispatchInv
<1>6. BetsFit'
  BY EngineBets
<1> QED
  BY <1>3, <1>4, <1>5, <1>6 DEF DispatchInv

(* The steps beside the engine.                                             *)
LEMMA QuietDispatch ==
    ASSUME DispatchInv, UNCHANGED vars, StagesOK', BetsFit', \A c \in ChallengeId : FitAt(c)'
    PROVE  DispatchInv'
<1>1. IndInv' /\ PartiesStay'
  BY IndStep, PartiesStep DEF DispatchInv
<1> QED
  BY <1>1 DEF DispatchInv, StagesFit

LEMMA AwaitedStep ==
    ASSUME DispatchInv, UNCHANGED <<vars, chainVars>>, StagesOK', \A c \in ChallengeId : FitAt(c)'
    PROVE  DispatchInv'
<1>1. BetsFit'
  BY EngineBets
<1>2. \A c \in ChallengeId : FitAt(c)'
  OBVIOUS
<1> QED
  BY <1>1, <1>2, QuietDispatch

LEMMA AbortIsNext ==
    ASSUME NEW c \in ChallengeId, AbortChallenge(c, "declined")
    PROVE  Next
BY DEF Next

(* The dispatch of a creation and of an acceptance.                         *)
LEMMA AcceptingStep ==
    ASSUME DispatchInv, NEW c \in ChallengeId,
           \/ RefuseRegistration(c) \/ Announce(c)
           \/ WalletMissing(c) \/ LockStake(c)
           \/ StakeLocked(c) \/ PolicyDisabled(c) \/ StakeRefused(c)
    PROVE  DispatchInv'
<1>0. /\ StagesOK
      /\ \A d \in ChallengeId : FitAt(d)
  BY DEF DispatchInv, StagesFit
<1>1. CASE RefuseRegistration(c)
  <2>1. Next /\ UNCHANGED <<tx, chainVars, accepting>> /\ DispatchClosed("started")
    BY <1>1, AbortIsNext DEF RefuseRegistration
  <2>2. creating' \in [ChallengeId -> CreatingStage] /\ accepting' \in [ChallengeId -> AcceptingStage]
    BY <1>0, <1>1 DEF RefuseRegistration, StagesOK, CreatingStage
  <2> QED
    BY <2>1, <2>2, EngineStep
<1>2. CASE WalletMissing(c) \/ StakeRefused(c)
  <2>1. Next /\ UNCHANGED <<tx, chainVars, creating>> /\ DispatchClosed("plain")
    BY <1>2, AbortIsNext DEF WalletMissing, StakeRefused, AbortPlain
  <2>2. accepting' = [accepting EXCEPT ![c] = "failed"] /\ accepting[c] \in {"started", "locking"}
    BY <1>2 DEF WalletMissing, StakeRefused
  <2>3. creating' \in [ChallengeId -> CreatingStage] /\ accepting' \in [ChallengeId -> AcceptingStage]
    BY <1>0, <2>1, <2>2 DEF StagesOK, AcceptingStage
  <2>4. \A d \in ChallengeId :
           /\ accepting[d] # "idle" => accepting'[d] # "idle"
           /\ accepting'[d] # "idle" => accepting[d] # "idle"
    BY <1>0, <2>2 DEF StagesOK
  <2> QED
    BY <2>1, <2>3, <2>4, EngineStep
<1>3. CASE Announce(c)
  <2>1. UNCHANGED <<vars, chainVars, accepting, closing, tx>>
    BY <1>3 DEF Announce
  <2>2. StagesOK'
    BY <1>0, <1>3 DEF Announce, StagesOK, CreatingStage
  <2>3. \A d \in ChallengeId : FitAt(d)'
    BY <1>0, <2>1 DEF FitAt, vars
  <2> QED
    BY <2>1, <2>2, <2>3, AwaitedStep
<1>4. CASE LockStake(c) \/ StakeLocked(c) \/ PolicyDisabled(c)
  <2>1. UNCHANGED <<vars, chainVars, creating, closing, tx>>
    BY <1>4 DEF LockStake, StakeLocked, PolicyDisabled
  <2>2. PICK stage \in {"locking", "locked", "unescrowed"} :
           accepting' = [accepting EXCEPT ![c] = stage] /\ accepting[c] # "idle"
    BY <1>4 DEF LockStake, StakeLocked, PolicyDisabled
  <2>3. StagesOK'
    BY <1>0, <2>1, <2>2 DEF StagesOK, AcceptingStage
  <2>4. \A d \in ChallengeId : accepting'[d] # "idle" <=> accepting[d] # "idle"
    BY <1>0, <2>2 DEF StagesOK
  <2>5. \A d \in ChallengeId : FitAt(d)'
    BY <1>0, <2>1, <2>4 DEF FitAt, vars
  <2> QED
    BY <2>1, <2>3, <2>5, AwaitedStep
<1> QED
  BY <1>1, <1>2, <1>3, <1>4

(* The dispatch of a closing event.                                         *)
LEMMA ClosingStep ==
    ASSUME DispatchInv, NEW c \in ChallengeId,
           \/ SkipSettlement(c) \/ BeginSettlement(c) \/ Settled(c)
           \/ SettleFailed(c) \/ Refunded(c) \/ ReleasePlayers(c)
    PROVE  DispatchInv'
<1>0. /\ StagesOK
      /\ \A d \in ChallengeId : FitAt(d)
  BY DEF DispatchInv, StagesFit
<1>1. UNCHANGED <<vars, chainVars, creating, accepting, tx>>
  BY DEF SkipSettlement, BeginSettlement, Settled, SettleFailed, Refunded, ReleasePlayers
<1>2. PICK stage \in ClosingStage :
         /\ closing' = [closing EXCEPT ![c] = stage]
         /\ closing[c] # "idle" /\ stage # "idle"
         /\ stage = "settling" => challenges[c].status = "resolved"
         /\ closing[c] \in {"refunding", "releasing", "released"} =>
               stage \in {"refunding", "releasing", "released"}
  BY DEF SkipSettlement, BeginSettlement, Settled, SettleFailed, Refunded, ReleasePlayers, To,
     ClosingStage
<1>3. StagesOK'
  BY <1>0, <1>1, <1>2 DEF StagesOK
<1>4. \A d \in ChallengeId : FitAt(d)'
  <2> SUFFICES ASSUME NEW d \in ChallengeId PROVE FitAt(d)'
    OBVIOUS
  <2>1. closing'[d] = IF d = c THEN stage ELSE closing[d]
    BY <1>0, <1>2 DEF StagesOK
  <2>2. FitAt(d)
    BY <1>0
  <2> QED
    BY <1>1, <1>2, <2>1, <2>2 DEF FitAt, vars
<1> QED
  BY <1>1, <1>3, <1>4, AwaitedStep

LEMMA SendTxStep ==
    ASSUME DispatchInv, NEW c \in ChallengeId,
           \/ SendTx(c, "lock", accepting[c] = "locking")
           \/ SendTx(c, "settle", closing[c] = "settling")
           \/ SendTx(c, "refund", closing[c] = "refunding")
    PROVE  DispatchInv'
<1>0. /\ StagesOK
      /\ \A d \in ChallengeId : FitAt(d)
  BY DEF DispatchInv, StagesFit
<1>1. UNCHANGED <<vars, chainVars, creating, accepting, closing>>
  BY DEF SendTx
<1>2. PICK kind \in TxKind :
         /\ tx' = [tx EXCEPT ![c][kind] = "sent"]
         /\ kind = "lock" => accepting[c] = "locking"
         /\ kind = "settle" => closing[c] = "settling"
         /\ kind = "refund" => closing[c] = "refunding"
  BY DEF SendTx, TxKind
<1>3. StagesOK'
  BY <1>0, <1>1, <1>2 DEF StagesOK, TxStatus
<1>4. \A d \in ChallengeId : FitAt(d)'
  <2> SUFFICES ASSUME NEW d \in ChallengeId PROVE FitAt(d)'
    OBVIOUS
  <2>1. \A k \in TxKind : tx'[d][k] = IF d = c /\ k = kind THEN "sent" ELSE tx[d][k]
    BY <1>0, <1>2 DEF StagesOK
  <2>2. FitAt(d)
    BY <1>0
  <2>3. tx'[d]["lock"] # "none" => tx[d]["lock"] # "none" \/ (d = c /\ accepting[c] = "locking")
    BY <1>2, <2>1 DEF TxKind
  <2>4. tx'[d]["settle"] # "none" => tx[d]["settle"] # "none" \/ (d = c /\ closing[c] = "settling")
    BY <1>2, <2>1 DEF TxKind
  <2>5. tx'[d]["refund"] # "none" => tx[d]["refund"] # "none" \/ (d = c /\ closing[c] = "refunding")
    BY <1>2, <2>1 DEF TxKind
  <2> QED
    BY <1>1, <2>2, <2>3, <2>4, <2>5 DEF FitAt, vars
<1> QED
  BY <1>1, <1>3, <1>4, AwaitedStep

-----------------------------------------------------------------------------
(* The chain. *)
LEMMA TransferType ==
    ASSUME NEW bal \in [Account -> Int], NEW from, NEW to, NEW amount \in Int
    PROVE  Contract!Transfer(bal, from, to, amount) \in [Account -> Int]
<1>1. \A f \in [Account -> Int], a \in Account, n \in Int :
         [f EXCEPT ![a] = f[a] + n] \in [Account -> Int]
  OBVIOUS
<1>2. \A a, v :
         a \notin Account => \A f \in [Account -> Int] : [f EXCEPT ![a] = v] \in [Account -> Int]
  OBVIOUS
<1>3. PICK debited : debited = [bal EXCEPT ![from] = bal[from] - amount]
  OBVIOUS
<1>4. debited \in [Account -> Int]
  BY <1>2, <1>3
<1>5. [debited EXCEPT ![to] = debited[to] + amount] \in [Account -> Int]
  BY <1>1, <1>2, <1>4
<1> QED
  BY <1>3, <1>5 DEF Contract!Transfer

LEMMA CreateBetKeeps ==
    ASSUME DispatchInv, UNCHANGED vars, NEW c \in ChallengeId, tx[c]["lock"] # "none",
           Contract!CreateBet(c, Challenger(c), Opponent(c), challenges[c].wager)
    PROVE  BetsFit'
<1>1. /\ bets \in [ChallengeId -> Contract!Bet] /\ balance \in [Account -> Int]
      /\ challenges \in [ChallengeId -> Challenge]
      /\ challenges[c].status # "unused"
  BY DEF DispatchInv, BetsFit, IndInv, TypeOK, StagesFit, FitAt
<1>2. challenges[c].wager \in Nat
  BY <1>1, WagerAssumption DEF Challenge
<1>3. {Challenger(c), Opponent(c)} \subseteq Account
  BY <1>1 DEF DispatchInv, PartiesStay, Parties, Challenger, Opponent, Account
<1>4. bets' = [bets EXCEPT ![c] =
              [challenger |-> Challenger(c), opponent |-> Opponent(c),
               amount |-> challenges[c].wager, status |-> "Locked"]]
  BY DEF Contract!CreateBet
<1>5. bets' \in [ChallengeId -> Contract!Bet]
  BY <1>1, <1>2, <1>3, <1>4 DEF Contract!Bet, Contract!BetStatus
<1>6. balance' \in [Account -> Int]
  BY <1>1, <1>2, TransferType DEF Contract!CreateBet
<1>7. UNCHANGED <<feeRecipient, feeBps, challenges>>
  BY DEF Contract!CreateBet, vars
<1> QED
  BY <1>1, <1>4, <1>5, <1>6, <1>7 DEF DispatchInv, BetsFit, Challenger, Opponent

(* A settlement changes the status of its bet and nothing else of a bet.    *)
LEMMA SettleKeeps ==
    ASSUME DispatchInv, UNCHANGED vars, NEW c \in ChallengeId, bets[c].status = "Locked",
           NEW s \in {"Resolved", "Refunded"}, bets' = [bets EXCEPT ![c].status = s],
           balance' \in [Account -> Int], UNCHANGED <<feeRecipient, feeBps>>
    PROVE  BetsFit'
<1>1. bets \in [ChallengeId -> Contract!Bet]
  BY DEF DispatchInv, BetsFit
<1>2. bets' \in [ChallengeId -> Contract!Bet]
  BY <1>1 DEF Contract!Bet, Contract!BetStatus
<1>3. \A d \in ChallengeId :
         /\ bets'[d].challenger = bets[d].challenger
         /\ bets'[d].opponent = bets[d].opponent
         /\ bets'[d].amount = bets[d].amount
         /\ bets'[d].status # "None" => bets[d].status # "None"
  BY <1>1 DEF Contract!Bet
<1> QED
  BY <1>2, <1>3 DEF DispatchInv, BetsFit, Challenger, Opponent, vars

LEMMA ResolveKeeps ==
    ASSUME DispatchInv, UNCHANGED vars, NEW c \in ChallengeId, NEW w,
           Contract!ResolveBet(Treasury, c, w)
    PROVE  BetsFit'
<1>1. /\ bets[c].amount \in Nat /\ feeBps \in Nat /\ balance \in [Account -> Int]
  BY DispatchAssumption DEF DispatchInv, BetsFit, Contract!Bet
<1>2. Contract!Pot(c) \in Int /\ Contract!FeeOf(Contract!Pot(c), feeBps) \in Int
  BY <1>1 DEF Contract!Pot, Contract!FeeOf, Contract!MaxBps
<1>3. Contract!Pot(c) - Contract!FeeOf(Contract!Pot(c), feeBps) \in Int
  BY <1>2
<1>4. balance' \in [Account -> Int]
  BY <1>1, <1>2, <1>3, TransferType DEF Contract!ResolveBet
<1> QED
  BY <1>4, SettleKeeps DEF Contract!ResolveBet

LEMMA RefundKeeps ==
    ASSUME DispatchInv, UNCHANGED vars, NEW c \in ChallengeId, Contract!RefundBet(Treasury, c)
    PROVE  BetsFit'
<1>1. bets[c].amount \in Int /\ balance \in [Account -> Int]
  BY DEF DispatchInv, BetsFit, Contract!Bet
<1>2. balance' \in [Account -> Int]
  BY <1>1, TransferType DEF Contract!RefundBet
<1> QED
  BY <1>2, SettleKeeps DEF Contract!RefundBet

LEMMA MineStep ==
    ASSUME DispatchInv, NEW c \in ChallengeId, NEW kind \in TxKind, Mine(c, kind)
    PROVE  DispatchInv'
<1>0. /\ StagesOK
      /\ \A d \in ChallengeId : FitAt(d)
  BY DEF DispatchInv, StagesFit
<1>1. UNCHANGED <<vars, creating, accepting, closing>> /\ tx[c][kind] = "sent"
  BY DEF Mine
<1>2. PICK s \in {"mined", "reverted"} : tx' = [tx EXCEPT ![c][kind] = s]
  BY DEF Mine
<1>3. StagesOK'
  BY <1>0, <1>1, <1>2 DEF StagesOK, TxStatus
<1>4. \A d \in ChallengeId : FitAt(d)'
  <2> SUFFICES ASSUME NEW d \in ChallengeId PROVE FitAt(d)'
    OBVIOUS
  <2>1. \A k \in TxKind : tx'[d][k] = IF d = c /\ k = kind THEN s ELSE tx[d][k]
    BY <1>0, <1>2 DEF StagesOK
  <2>2. \A k \in TxKind : tx'[d][k] # "none" => tx[d][k] # "none"
    BY <1>1, <2>1
  <2>3. FitAt(d) /\ \A k \in {"lock", "settle", "refund"} : tx'[d][k] # "none" => tx[d][k] # "none"
    BY <1>0, <2>2 DEF TxKind
  <2> QED
    BY <1>1, <2>3 DEF FitAt, vars
<1>5. BetsFit'
  <2>1. CASE UNCHANGED chainVars
    BY <1>1, <2>1, EngineBets
  <2>2. CASE Effect(c, kind)
    <3>1. CASE kind = "lock"
      BY <1>1, <2>2, <3>1, CreateBetKeeps DEF Effect
    <3>2. CASE kind # "lock"
      <4>1. Contract!RefundBet(Treasury, c) \/ \E w : Contract!ResolveBet(Treasury, c, w)
        BY <2>2, <3>2 DEF Effect, TxKind
      <4> QED
        BY <1>1, <4>1, RefundKeeps, ResolveKeeps
    <3> QED
      BY <3>1, <3>2
  <2> QED
    BY <2>1, <2>2 DEF Mine
<1> QED
  BY <1>1, <1>3, <1>4, <1>5, QuietDispatch

-----------------------------------------------------------------------------
LEMMA DispatchStep == DispatchInv /\ [DispatchNext]_allVars => DispatchInv'
<1> SUFFICES ASSUME DispatchInv, [DispatchNext]_allVars PROVE DispatchInv'
  OBVIOUS
<1>0. StagesOK
  BY DEF DispatchInv
<1>1. ASSUME NEW p \in Player, NEW q \in Participant, NEW g \in Game, NEW w \in WagerInput,
             Send(p, q, g, w)
      PROVE  DispatchInv'
  <2>1. Next /\ UNCHANGED <<accepting, closing, tx, chainVars>>
    BY <1>1 DEF Send, Create, CreateChallenge, Next
  <2>2. creating' \in [ChallengeId -> CreatingStage] /\ accepting' \in [ChallengeId -> AcceptingStage]
    BY <1>0, <1>1 DEF Send, Create, StagesOK, CreatingStage
  <2> QED
    BY <2>1, <2>2, EngineStep
<1>2. ASSUME NEW c \in ChallengeId, NEW p \in Participant, Accept(c, p)
      PROVE  DispatchInv'
  <2>1. Next /\ UNCHANGED <<creating, closing, tx, chainVars>>
    BY <1>2 DEF Accept, Respond, Next
  <2>2. PICK stage \in {"started", "unescrowed"} : accepting' = [accepting EXCEPT ![c] = stage]
    BY <1>2 DEF Accept
  <2>3. creating' \in [ChallengeId -> CreatingStage] /\ accepting' \in [ChallengeId -> AcceptingStage]
    BY <1>0, <2>1, <2>2 DEF StagesOK, AcceptingStage
  <2>4. challenges'[c].status = "active"
    BY <1>2 DEF Accept, RespondAccept, DispatchInv, IndInv, TypeOK, Challenge
  <2>5. \A d \in ChallengeId :
           /\ accepting[d] # "idle" => accepting'[d] # "idle"
           /\ accepting'[d] # "idle" => accepting[d] # "idle" \/ challenges'[d].status # "unused"
    BY <1>0, <2>2, <2>4 DEF StagesOK
  <2> QED
    BY <2>1, <2>3, <2>5, EngineStep
<1>3. ASSUME Next, UNCHANGED <<creating, accepting, tx, chainVars>>,
             closing' = closing \/ DispatchClosed("started")
      PROVE  DispatchInv'
  <2>1. creating' \in [ChallengeId -> CreatingStage] /\ accepting' \in [ChallengeId -> AcceptingStage]
    BY <1>0, <1>3 DEF StagesOK
  <2> QED
    BY <1>3, <2>1, EngineStep
<1>4. ASSUME NEW c \in ChallengeId, NEW p \in Player, Decline(c, p)
      PROVE  DispatchInv'
  <2>1. p \in Participant /\ FALSE \in BOOLEAN
    BY DEF Participant
  <2>2. Respond(c, p, FALSE)
    BY <1>4 DEF Decline, Respond
  <2>3. Next
    BY <2>1, <2>2 DEF Next
  <2> QED
    BY <1>3, <1>4, <2>3 DEF Decline
<1>5. ASSUME NEW c \in ChallengeId, NEW p \in Participant, NEW m \in Move, SendMove(c, p, m)
      PROVE  DispatchInv'
  BY <1>3, <1>5 DEF SendMove, SubmitMove, Next
<1>6. ASSUME NEW p \in Player, Disconnect(p)
      PROVE  DispatchInv'
  BY <1>3, <1>6 DEF Disconnect, Next
<1>7. ASSUME NEW c \in ChallengeId, ServerStep(c)
      PROVE  DispatchInv'
  BY <1>7, AcceptingStep, ClosingStep, SendTxStep DEF ServerStep
<1>8. ASSUME NEW c \in ChallengeId, NEW kind \in TxKind, Mine(c, kind)
      PROVE  DispatchInv'
  BY <1>8, MineStep
<1>9. CASE MainLoopTick
  BY <1>3, <1>9 DEF MainLoopTick, Next
<1>10. CASE Clock
  BY <1>3, <1>10 DEF Clock, Elapse, Next
<1>11. CASE UNCHANGED allVars
  <2>1. UNCHANGED <<vars, chainVars, creating, accepting, closing, tx>>
    BY <1>11 DEF allVars
  <2>2. StagesOK'
    BY <1>0, <2>1 DEF StagesOK
  <2>3. \A c \in ChallengeId : FitAt(c)'
    BY <2>1 DEF DispatchInv, StagesFit, FitAt, vars
  <2> QED
    BY <2>1, <2>2, <2>3, AwaitedStep
<1> QED
  BY <1>1, <1>2, <1>4, <1>5, <1>6, <1>7, <1>8, <1>9, <1>10, <1>11 DEF DispatchNext

THEOREM DispatchInvHolds == DispatchSafety => []DispatchInv
BY InitDispatch, DispatchStep, PTL DEF DispatchSafety

-----------------------------------------------------------------------------
(* What a settlement that is mined does with the bet of challenge c.        *)
FollowsOutcome(c) ==
    bets[c].status = "Locked" =>
       /\ bets'[c].status = "Resolved" =>
             /\ challenges[c].status = "resolved"
             /\ challenges[c].winner # Nobody
             /\ balance'[challenges[c].winner] - balance[challenges[c].winner]
                   = 2 * challenges[c].wager
                     - Contract!FeeOf(2 * challenges[c].wager, feeBps)
       /\ bets'[c].status = "Refunded" =>
             /\ challenges[c].status \in Closed
             /\ challenges[c].winner = Nobody \/ closing[c] = "refunding"
                                              \/ closing[c] = "releasing"
                                              \/ closing[c] = "released"

(* The winner's wallet is neither the contract's nor the fee recipient's,   *)
(* so that what it gains is the payout.                                     *)
LEMMA WinnerPaid ==
    ASSUME DispatchInv, NEW c \in ChallengeId, bets[c].status = "Locked",
           challenges[c].winner # Nobody,
           Contract!ResolveBet(Treasury, c, challenges[c].winner)
    PROVE  balance'[challenges[c].winner] - balance[challenges[c].winner]
              = 2 * challenges[c].wager - Contract!FeeOf(2 * challenges[c].wager, feeBps)
<1> DEFINE w == challenges[c].winner
           pot == 2 * challenges[c].wager
           fee == Contract!FeeOf(pot, feeBps)
<1>1. w \in Participant
  BY DEF DispatchInv, IndInv, TypeOK, Challenge
<1>2. w \in Account /\ w # EscrowAccount /\ w # Treasury /\ feeRecipient = Treasury
  BY <1>1, DispatchAssumption DEF Account, DispatchInv, BetsFit
<1>3. bets[c].amount = challenges[c].wager /\ Contract!Pot(c) = pot
  BY DEF DispatchInv, BetsFit, Contract!Pot
<1>4. challenges[c].wager \in Nat /\ feeBps \in Nat
  BY WagerAssumption, DispatchAssumption DEF DispatchInv, IndInv, TypeOK, Challenge, BetsFit
<1>5. pot \in Int /\ fee \in Int
  BY <1>4 DEF Contract!FeeOf, Contract!MaxBps
<1>6. balance \in [Account -> Int]
  BY DEF DispatchInv, BetsFit
<1>7. balance' = Contract!Transfer(Contract!Transfer(balance, EscrowAccount, feeRecipient, fee),
                                   EscrowAccount, w, pot - fee)
  BY <1>3 DEF Contract!ResolveBet
<1> HIDE DEF w, pot, fee
<1>8. balance'[w] = balance[w] + (pot - fee)
  BY <1>2, <1>5, <1>6, <1>7 DEF Contract!Transfer
<1>9. balance[w] \in Int
  BY <1>2, <1>6
<1>10. balance'[w] - balance[w] = pot - fee
  BY <1>5, <1>8, <1>9
<1> QED
  BY <1>10 DEF w, pot, fee

LEMMA SettlementStep ==
    DispatchInv /\ [DispatchNext]_allVars => \A c \in ChallengeId : FollowsOutcome(c)
<1> SUFFICES ASSUME DispatchInv, [DispatchNext]_allVars, NEW c \in ChallengeId,
                    bets[c].status = "Locked", bets'[c].status \in {"Resolved", "Refunded"}
             PROVE  FollowsOutcome(c)
  BY DEF FollowsOutcome
<1>0. bets' # bets /\ bets \in [ChallengeId -> Contract!Bet]
  BY DEF DispatchInv, BetsFit
<1>1. PICK d \in ChallengeId, kind \in TxKind : Mine(d, kind)
  BY <1>0 DEF DispatchNext, allVars, chainVars, Send, Accept, Decline, SendMove, Disconnect,
     MainLoopTick, Clock, ServerStep, RefuseRegistration, Announce, WalletMissing, LockStake,
     SendTx, StakeLocked, PolicyDisabled, StakeRefused, SkipSettlement, BeginSettlement, To,
     Settled, SettleFailed, Refunded, ReleasePlayers
<1>2. ~Reverts(d, kind) /\ Effect(d, kind) /\ tx[d][kind] = "sent"
  BY <1>0, <1>1 DEF Mine, chainVars
<1>3. \A r : bets' = [bets EXCEPT ![d] = r] => c = d
  BY <1>0
<1>4. kind # "lock"
  <2> SUFFICES ASSUME kind = "lock" PROVE FALSE
    OBVIOUS
  <2>1. bets[d].status = "None"
           /\ bets' = [bets EXCEPT ![d] =
                [challenger |-> Challenger(d), opponent |-> Opponent(d),
                 amount |-> challenges[d].wager, status |-> "Locked"]]
    BY <1>2 DEF Effect, Contract!CreateBet
  <2> QED
    BY <1>0, <1>3, <2>1
<1>5. CASE kind = "settle" /\ challenges[d].winner # Nobody
  <2>1. Contract!ResolveBet(Treasury, d, challenges[d].winner)
    BY <1>2, <1>5 DEF Effect
  <2>2. bets' = [bets EXCEPT ![d].status = "Resolved"]
    BY <2>1 DEF Contract!ResolveBet
  <2>3. c = d /\ bets'[c].status = "Resolved"
    BY <1>0, <2>2 DEF Contract!Bet
  <2>4. challenges[c].status = "resolved"
    BY <1>2, <1>5, <2>3 DEF DispatchInv, StagesFit, FitAt
  <2> QED
    BY <1>5, <2>1, <2>3, <2>4, WinnerPaid DEF FollowsOutcome
<1>6. CASE kind = "refund" \/ (kind = "settle" /\ challenges[d].winner = Nobody)
  <2>1. Contract!RefundBet(Treasury, d)
    BY <1>2, <1>6 DEF Effect
  <2>2. bets' = [bets EXCEPT ![d].status = "Refunded"]
    BY <2>1 DEF Contract!RefundBet
  <2>3. c = d /\ bets'[c].status = "Refunded"
    BY <1>0, <2>2 DEF Contract!Bet
  <2>4. /\ tx[c]["settle"] # "none" => challenges[c].status = "resolved"
        /\ tx[c]["refund"] # "none" => closing[c] \in {"refunding", "releasing", "released"}
        /\ closing[c] # "idle" => challenges[c].status \in Closed
    BY DEF DispatchInv, StagesFit, FitAt
  <2>5. challenges[c].status \in Closed
    BY <1>2, <1>6, <2>3, <2>4 DEF Closed
  <2> QED
    BY <1>2, <1>6, <2>3, <2>4, <2>5 DEF FollowsOutcome
<1> QED
  BY <1>4, <1>5, <1>6 DEF TxKind

(* A pot is only paid to the winner of a resolved challenge, in full but    *)
(* for the fee, and stakes only go back once the challenge has closed       *)
(* without a winner or after its payout failed, in whatever order answers,  *)
(* moves, deadlines, disconnects, transactions and receipts come in.        *)
THEOREM SettlementsFollow == DispatchSafety => SettlementFollowsOutcome
<1>1. DispatchInv /\ [DispatchNext]_allVars => [\A c \in ChallengeId : FollowsOutcome(c)]_allVars
  BY SettlementStep
<1> QED
  BY <1>1, DispatchInvHolds, PTL DEF DispatchSafety, SettlementFollowsOutcome, FollowsOutcome

-----------------------------------------------------------------------------
(* The record of escrowed challenges against the contract: what is recorded *)
(* was locked, what is being settled is recorded, and no transaction of a   *)
(* settlement is mined or reverts but over a bet that is settled by then.   *)
BetSettled(c) == bets[c].status \in {"Resolved", "Refunded"}

RecordFits(c) ==
    /\ c \in escrowLocked => tx[c]["lock"] = "mined"
    /\ tx[c]["lock"] = "mined" => bets[c].status # "None"
    /\ closing[c] \in {"settling", "refunding"} => c \in escrowLocked
    /\ \A k \in {"settle", "refund"} :
          /\ tx[c][k] # "none" => tx[c]["lock"] = "mined"
          /\ tx[c][k] \in {"mined", "reverted"} => BetSettled(c)
StakeOut(c) ==
    closing[c] \in {"releasing", "released"} /\ Staked(c) /\ ~rpcFaults => BetSettled(c)

RecordInv == \A c \in ChallengeId : RecordFits(c) /\ StakeOut(c)

LEMMA InitRecord == DispatchInit => RecordInv
<1> SUFFICES ASSUME DispatchInit, NEW c \in ChallengeId PROVE RecordFits(c) /\ StakeOut(c)
  BY DEF RecordInv
<1>1. /\ closing[c] = "idle" /\ c \notin escrowLocked
      /\ \A k \in {"lock", "settle", "refund"} : tx[c][k] = "none"
  BY DEF DispatchInit, TxKind
<1> QED
  BY <1>1 DEF RecordFits, StakeOut

(* A challenge of which neither its transactions nor its bet change, and    *)
(* which at most enters its closing dispatch.                               *)
LEMMA RecordKept ==
    ASSUME DispatchInv, [Next]_vars, NEW c \in ChallengeId, RecordFits(c), StakeOut(c),
           tx'[c] = tx[c], bets'[c] = bets[c], escrowLocked' = escrowLocked, rpcFaults' = rpcFaults,
           closing'[c] = closing[c] \/ closing'[c] \in {"started", "plain", "skipped"}
    PROVE  RecordFits(c)' /\ StakeOut(c)'
<1>1. RecordFits(c)'
  BY DEF RecordFits, BetSettled
<1>2. closing'[c] \in {"releasing", "released"} => closing'[c] = closing[c] /\ Staked(c)' = Staked(c)
  <2> SUFFICES ASSUME closing'[c] \in {"releasing", "released"}
               PROVE  closing'[c] = closing[c] /\ Staked(c)' = Staked(c)
    OBVIOUS
  <2>1. closing'[c] = closing[c]
    OBVIOUS
  <2>2. challenges[c].status \in Closed
    BY <2>1 DEF DispatchInv, StagesFit, FitAt
  <2>3. challenges[c].status # "unused"
    BY <2>2 DEF Closed
  <2>4. challenges'[c].wager = challenges[c].wager
    BY <2>3, TermsStep DEF DispatchInv, TermsStay, Terms
  <2> QED
    BY <2>1, <2>4 DEF Staked
<1>3. StakeOut(c)'
  BY <1>2 DEF StakeOut, BetSettled
<1> QED
  BY <1>1, <1>3

(* Steps with the engine, and of the dispatch of a creation or acceptance.  *)
LEMMA RecordEngineStep ==
    ASSUME DispatchInv, RecordInv, [Next]_vars,
           UNCHANGED <<tx, bets, escrowLocked, rpcFaults>>,
           closing' = closing \/ \E stage \in {"started", "plain"} : DispatchClosed(stage)
    PROVE  RecordInv'
<1> SUFFICES ASSUME NEW c \in ChallengeId PROVE RecordFits(c)' /\ StakeOut(c)'
  BY DEF RecordInv
<1>1. closing'[c] = closing[c] \/ closing'[c] \in {"started", "plain", "skipped"}
  BY DEF DispatchClosed
<1> QED
  BY <1>1, RecordKept DEF RecordInv

(* The stake is recorded when its transaction is known to be mined.         *)
LEMMA RecordLockedStep ==
    ASSUME DispatchInv, RecordInv, NEW c \in ChallengeId, StakeLocked(c)
    PROVE  RecordInv'
<1>1. /\ tx[c]["lock"] = "mined" /\ escrowLocked' = escrowLocked \cup {c}
      /\ UNCHANGED <<rpcFaults, challenges, closing, tx, bets>>
  BY DEF StakeLocked, Succeeded, vars, chainVars
<1> QED
  BY <1>1 DEF RecordInv, RecordFits, StakeOut, BetSettled, Staked

(* A transaction is sent, for a settlement only of what is recorded.        *)
LEMMA RecordSendStep ==
    ASSUME DispatchInv, RecordInv, NEW c \in ChallengeId,
           \/ SendTx(c, "lock", accepting[c] = "locking")
           \/ SendTx(c, "settle", closing[c] = "settling")
           \/ SendTx(c, "refund", closing[c] = "refunding")
    PROVE  RecordInv'
<1> SUFFICES ASSUME NEW d \in ChallengeId PROVE RecordFits(d)' /\ StakeOut(d)'
  BY DEF RecordInv
<1>1. UNCHANGED <<rpcFaults, challenges, closing, escrowLocked, bets>>
  BY DEF SendTx, vars, chainVars
<1>2. PICK kind \in TxKind :
         /\ tx[c][kind] = "none" /\ tx' = [tx EXCEPT ![c][kind] = "sent"]
         /\ kind = "settle" => closing[c] = "settling"
         /\ kind = "refund" => closing[c] = "refunding"
  BY DEF SendTx, TxKind
<1>3. \A k \in TxKind : tx'[d][k] = IF d = c /\ k = kind THEN "sent" ELSE tx[d][k]
  BY <1>2 DEF DispatchInv, StagesOK
<1>4. kind # "lock" => tx[c]["lock"] = "mined"
  BY <1>2 DEF RecordInv, RecordFits, TxKind
<1>5. RecordFits(d) /\ StakeOut(d)
  BY DEF RecordInv
<1>6. tx[d]["lock"] = "mined" => tx'[d]["lock"] = "mined"
  BY <1>2, <1>3 DEF TxKind
<1>7. tx'[d]["lock"] = "mined" => tx[d]["lock"] = "mined"
  BY <1>3 DEF TxKind
<1>8. ASSUME NEW k \in {"settle", "refund"}
      PROVE  /\ tx'[d][k] # "none" => tx'[d]["lock"] = "mined"
             /\ tx'[d][k] \in {"mined", "reverted"} => BetSettled(d)
  <2>1. k \in TxKind
    BY DEF TxKind
  <2> QED
    BY <1>3, <1>4, <1>5, <1>6, <2>1 DEF RecordFits
<1>9. RecordFits(d)'
  BY <1>1, <1>5, <1>6, <1>7, <1>8 DEF RecordFits, BetSettled
<1>10. StakeOut(d)'
  BY <1>1, <1>5 DEF StakeOut, Staked, BetSettled
<1> QED
  BY <1>9, <1>10

(* The dispatch of a closing event goes on.  It only leaves the settlement  *)
(* of a recorded stake when a transaction of it was mined or reverted,      *)
(* unless calls fail.                                                       *)
LEMMA RecordClosingStep ==
    ASSUME DispatchInv, RecordInv, NEW c \in ChallengeId,
           \/ SkipSettlement(c) \/ BeginSettlement(c) \/ Settled(c)
           \/ SettleFailed(c) \/ Refunded(c) \/ ReleasePlayers(c)
    PROVE  RecordInv'
<1> SUFFICES ASSUME NEW d \in ChallengeId PROVE RecordFits(d)' /\ StakeOut(d)'
  BY DEF RecordInv
<1>1. UNCHANGED <<rpcFaults, vars, tx, bets>>
  BY DEF SkipSettlement, BeginSettlement, Settled, SettleFailed, Refunded, ReleasePlayers, chainVars
<1>2. RecordFits(d) /\ StakeOut(d) /\ RecordFits(c) /\ StakeOut(c)
  BY DEF RecordInv
<1>3. PICK stage : closing' = [closing EXCEPT ![c] = stage]
  BY DEF SkipSettlement, BeginSettlement, Settled, SettleFailed, Refunded, ReleasePlayers, To
<1>4. closing'[d] = IF d = c THEN stage ELSE closing[d]
  BY <1>3 DEF DispatchInv, StagesOK
<1>5. escrowLocked' = escrowLocked \/ escrowLocked' = escrowLocked \ {c}
  BY DEF SkipSettlement, BeginSettlement, Settled, SettleFailed, Refunded, ReleasePlayers
<1>6. /\ stage \in {"settling", "refunding"} => c \in escrowLocked'
      /\ stage \in {"releasing", "released"} /\ Staked(c) /\ ~rpcFaults => BetSettled(c)
  <2>0. closing'[c] = stage
    BY <1>3 DEF DispatchInv, StagesOK
  <2>1. CASE SkipSettlement(c) \/ BeginSettlement(c)
    BY <2>0, <2>1 DEF SkipSettlement, BeginSettlement, To, DispatchInv, StagesOK
  <2>2. CASE Settled(c) \/ Refunded(c)
    <3>1. stage = "releasing"
      BY <2>0, <2>2 DEF Settled, Refunded, To, DispatchInv, StagesOK
    <3>2. rpcFaults \/ \E k \in {"settle", "refund"} : tx[c][k] \in {"mined", "reverted"}
      BY <2>2 DEF Settled, Refunded, Succeeded, Failed
    <3> QED
      BY <1>2, <3>1, <3>2 DEF RecordFits
  <2>3. CASE SettleFailed(c)
    BY <1>2, <2>0, <2>3 DEF SettleFailed, To, DispatchInv, StagesOK, RecordFits
  <2>4. CASE ReleasePlayers(c)
    BY <1>2, <2>0, <2>4 DEF ReleasePlayers, To, DispatchInv, StagesOK, StakeOut
  <2> QED
    BY <2>1, <2>2, <2>3, <2>4
<1>7. RecordFits(d)'
  BY <1>1, <1>2, <1>4, <1>5, <1>6 DEF RecordFits, BetSettled
<1>8. StakeOut(d)'
  BY <1>1, <1>2, <1>4, <1>6 DEF StakeOut, BetSettled, Staked, vars
<1> QED
  BY <1>7, <1>8

(* What the chain does with a transaction.                                  *)
LEMMA RecordMineStep ==
    ASSUME DispatchInv, RecordInv, NEW c \in ChallengeId, NEW kind \in TxKind, Mine(c, kind)
    PROVE  RecordInv'
<1> SUFFICES ASSUME NEW d \in ChallengeId PROVE RecordFits(d)' /\ StakeOut(d)'
  BY DEF RecordInv
<1>1. UNCHANGED <<rpcFaults, challenges, closing, escrowLocked>> /\ tx[c][kind] = "sent"
  BY DEF Mine, vars
<1>2. PICK s \in {"mined", "reverted"} :
         /\ tx' = [tx EXCEPT ![c][kind] = s]
         /\ s = "mined" => ~Reverts(c, kind) /\ Effect(c, kind)
         /\ s = "reverted" => Reverts(c, kind) /\ bets' = bets
  BY DEF Mine, chainVars
<1>3. \A k \in TxKind : tx'[d][k] = IF d = c /\ k = kind THEN s ELSE tx[d][k]
  BY <1>2 DEF DispatchInv, StagesOK
<1>4. RecordFits(d) /\ StakeOut(d) /\ RecordFits(c)
  BY DEF RecordInv
<1>5. /\ d # c => bets'[d] = bets[d]
      /\ s = "mined" /\ kind # "lock" => bets[c].status = "Locked" /\ BetSettled(c)'
      /\ s = "mined" /\ kind = "lock" => bets[c].status = "None" /\ bets'[c].status = "Locked"
  <2>0. bets \in [ChallengeId -> Contract!Bet]
    BY DEF DispatchInv, BetsFit
  <2>1. CASE s = "reverted"
    BY <1>2, <2>1
  <2>2. CASE s = "mined" /\ kind = "lock"
    <3>1. /\ bets[c].status = "None"
          /\ bets' = [bets EXCEPT ![c] =
                [challenger |-> Challenger(c), opponent |-> Opponent(c),
                 amount |-> challenges[c].wager, status |-> "Locked"]]
      BY <1>2, <2>2 DEF Effect, Contract!CreateBet
    <3> QED
      BY <2>0, <2>2, <3>1
  <2>3. CASE s = "mined" /\ kind # "lock"
    <3>1. Contract!RefundBet(Treasury, c) \/ \E w : Contract!ResolveBet(Treasury, c, w)
      BY <1>2, <2>3 DEF Effect, TxKind
    <3>2. /\ bets[c].status = "Locked"
          /\ \E t \in {"Resolved", "Refunded"} : bets' = [bets EXCEPT ![c].status = t]
      BY <3>1 DEF Contract!RefundBet, Contract!ResolveBet
    <3>3. PICK t \in {"Resolved", "Refunded"} : bets' = [bets EXCEPT ![c].status = t]
      BY <3>2
    <3>4. bets'[c].status = t
      BY <2>0, <3>3 DEF Contract!Bet
    <3> QED
      BY <2>0, <2>3, <3>2, <3>3, <3>4 DEF BetSettled
  <2> QED
    BY <2>1, <2>2, <2>3
<1>6. CASE d # c
  <2>1. \A k \in {"lock", "settle", "refund"} : tx'[d][k] = tx[d][k]
    BY <1>3, <1>6 DEF TxKind
  <2> QED
    BY <1>1, <1>4, <1>5, <1>6, <2>1 DEF RecordFits, StakeOut, BetSettled, Staked
<1>7. CASE d = c /\ kind = "lock"
  <2>1. /\ tx'[c]["lock"] = s
        /\ \A k \in {"settle", "refund"} : tx'[c][k] = tx[c][k] /\ tx[c][k] = "none"
    BY <1>1, <1>3, <1>4, <1>7 DEF TxKind, RecordFits
  <2>2. c \notin escrowLocked /\ closing[c] \notin {"settling", "refunding"}
    BY <1>1, <1>4, <1>7 DEF RecordFits
  <2>3. RecordFits(c)'
    BY <1>1, <1>5, <1>7, <2>1, <2>2 DEF RecordFits
  <2>4. StakeOut(c)'
    <3>1. CASE s = "reverted"
      BY <1>1, <1>2, <1>4, <1>7, <3>1 DEF StakeOut, BetSettled, Staked
    <3>2. CASE s = "mined"
      BY <1>1, <1>4, <1>5, <1>7, <3>2 DEF StakeOut, BetSettled, Staked
    <3> QED
      BY <3>1, <3>2
  <2> QED
    BY <1>7, <2>3, <2>4
<1>8. CASE d = c /\ kind # "lock"
  <2>1. tx[c]["lock"] = "mined" /\ tx'[c]["lock"] = "mined" /\ bets[c].status # "None"
    BY <1>1, <1>3, <1>4, <1>8 DEF TxKind, RecordFits
  <2>2. BetSettled(c)'
    <3>1. CASE s = "mined"
      BY <1>5, <1>8, <3>1
    <3>2. CASE s = "reverted"
      <4>1. bets[c].status # "Locked" /\ bets' = bets
        BY <1>2, <1>8, <3>2 DEF Reverts
      <4>2. bets[c].status \in {"None", "Locked", "Resolved", "Refunded"}
        BY DEF DispatchInv, BetsFit, Contract!Bet, Contract!BetStatus
      <4> QED
        BY <2>1, <4>1, <4>2 DEF BetSettled
    <3> QED
      BY <3>1, <3>2
  <2>3. RecordFits(c)' /\ StakeOut(c)'
    BY <1>1, <1>4, <1>8, <2>1, <2>2 DEF RecordFits, StakeOut, BetSettled
  <2> QED
    BY <1>8, <2>3
<1> QED
  BY <1>6, <1>7, <1>8

LEMMA RecordStep == DispatchInv /\ RecordInv /\ [DispatchNext]_allVars => RecordInv'
<1> SUFFICES ASSUME DispatchInv, RecordInv, [DispatchNext]_allVars PROVE RecordInv'
  OBVIOUS
<1>1. [Next]_vars
  BY DispatchDrivesEngine
<1>2. CASE \/ \E p \in Player, q \in Participant, g \in Game, w \in WagerInput : Send(p, q, g, w)
           \/ \E c \in ChallengeId, p \in Participant : Accept(c, p)
           \/ \E c \in ChallengeId, p \in Player : Decline(c, p)
           \/ \E c \in ChallengeId, p \in Participant, m \in Move : SendMove(c, p, m)
           \/ \E p \in Player : Disconnect(p)
           \/ MainLoopTick \/ Clock \/ UNCHANGED allVars
  <2>1. /\ UNCHANGED <<tx, bets, escrowLocked, rpcFaults>>
        /\ closing' = closing \/ DispatchClosed("started")
    BY <1>2 DEF Send, Accept, Decline, SendMove, Disconnect, MainLoopTick, Clock, allVars, chainVars
  <2> QED
    BY <1>1, <2>1, RecordEngineStep
<1>3. ASSUME NEW c \in ChallengeId,
             \/ RefuseRegistration(c) \/ Announce(c) \/ WalletMissing(c) \/ LockStake(c)
             \/ PolicyDisabled(c) \/ StakeRefused(c)
      PROVE  RecordInv'
  <2>1. /\ UNCHANGED <<tx, bets, escrowLocked, rpcFaults>>
        /\ closing' = closing \/ DispatchClosed("started") \/ DispatchClosed("plain")
    BY <1>3 DEF RefuseRegistration, Announce, WalletMissing, LockStake, PolicyDisabled,
       StakeRefused, AbortPlain, chainVars
  <2> QED
    BY <1>1, <2>1, RecordEngineStep
<1>4. ASSUME NEW c \in ChallengeId, ServerStep(c)
      PROVE  RecordInv'
  BY <1>3, <1>4, RecordLockedStep, RecordSendStep, RecordClosingStep DEF ServerStep
<1>5. ASSUME NEW c \in ChallengeId, NEW kind \in TxKind, Mine(c, kind)
      PROVE  RecordInv'
  BY <1>5, RecordMineStep
<1> QED
  BY <1>2, <1>4, <1>5 DEF DispatchNext

(* What the server has on record as escrowed was locked in the contract.    *)
RecordedWasLocked == \A c \in ChallengeId : c \in escrowLocked => bets[c].status # "None"

(* Unless calls fail, the players of a staked challenge are only released   *)
(* when their stakes have left the contract: when releasePlayers is called  *)
(* the payout or the refund is done, and nobody else does it.               *)
ReleasedWhenPaid ==
    \A c \in ChallengeId :
        ~rpcFaults /\ Staked(c) /\ closing[c] \in {"releasing", "released"} => BetSettled(c)

(* The record of escrowed challenges can be relied on: it only names stakes *)
(* that were locked, for any number of challenges and failing calls.        *)
THEOREM RecordIsReliable == DispatchSafety => []RecordedWasLocked
<1>1. DispatchSafety => []RecordInv
  BY InitRecord, RecordStep, DispatchInvHolds, PTL DEF DispatchSafety
<1>2. RecordInv => RecordedWasLocked
  BY DEF RecordInv, RecordFits, RecordedWasLocked
<1> QED
  BY <1>1, <1>2, PTL

(* Players are released after their stakes, unless calls to the chain fail. *)
THEOREM StakesBeforeRelease == DispatchSafety => []ReleasedWhenPaid
<1>1. DispatchSafety => []RecordInv
  BY InitRecord, RecordStep, DispatchInvHolds, PTL DEF DispatchSafety
<1>2. RecordInv => ReleasedWhenPaid
  BY DEF RecordInv, StakeOut, ReleasedWhenPaid
<1> QED
  BY <1>1, <1>2, PTL
=============================================================================
