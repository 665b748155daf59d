----------------------- MODULE ChallengeServiceProofs -----------------------
(***************************************************************************)
(* Theorems about ChallengeService, for every set of players, games and    *)
(* wagers, any number of challenges and any deadlines.                     *)
(*                                                                         *)
(* LockCoherence is not inductive alone: that the challenge createChallenge *)
(* is about to write is unused, and that an open challenge has two known   *)
(* parties, are the facts it takes to show that no step leaves a player's  *)
(* index entry behind.                                                     *)
(***************************************************************************)
EXTENDS ChallengeService, TLAPS

(* The ids from counter on are unused, all others are not. *)
CounterFresh == \A c \in ChallengeId : challenges[c].status = "unused" <=> c >= counter

(* An open challenge is between two known parties. *)
PartiesKnown == \A c \in ChallengeId : IsOpen(c) => Parties(challenges[c]) \subseteq Participant

(* The inductive invariant. *)
IndInv == TypeOK /\ CounterFresh /\ PartiesKnown /\ LockCoherence

-----------------------------------------------------------------------------
(* The record of a challenge that was never created is a challenge record. *)
LEMMA UnusedType == Unused \in Challenge
<1>1. PICK g \in Game : g = Unused.game
  BY GameAssumption DEF Unused
<1>2. Nobody \in Participant \cup {Nobody} /\ 0 \in 0 .. MaxWager
  BY WagerAssumption
<1> QED
  BY <1>1, <1>2 DEF Unused, Challenge

(* createChallenge clamps whatever number a client sends to the wagers it   *)
(* accepts.                                                                *)
LEMMA SafeWagerType ==
    ASSUME NEW w \in Int \cup {NotFinite}
    PROVE  SafeWager(w) \in 0 .. MaxWager
BY WagerAssumption DEF SafeWager

(* The winner, by the moves or by timeout, is a party or nobody. *)
LEMMA JudgeParty ==
    ASSUME NEW ch \in Challenge, NEW r
    PROVE  Judge(ch, r) \in Parties(ch) \cup {Nobody}
<1>1. ch.game \in {"rps", "coinflip", "dice_duel"}
  BY GameAssumption DEF Challenge
<1> QED
  BY <1>1 DEF Judge, RpsWinner, CoinflipWinner, DiceDuelWinner, Parties

LEMMA TimeoutParty ==
    ASSUME NEW ch \in Challenge, NEW r
    PROVE  TimeoutWinner(ch, r) \in Parties(ch) \cup {Nobody}
BY JudgeParty DEF TimeoutWinner, Parties

(* A party of a challenge record is a participant or nobody. *)
LEMMA PartiesType ==
    ASSUME NEW ch \in Challenge
    PROVE  Parties(ch) \subseteq Participant \cup {Nobody}
BY DEF Parties, Challenge

(* What the coin or the die shows. *)
LEMMA ResultsType ==
    ASSUME TypeOK, NEW c \in ChallengeId
    PROVE  Results(c) \subseteq Coin \cup DiceFace \cup {NoMove}
<1>1. challenges[c].game \in {"rps", "coinflip", "dice_duel"}
  BY GameAssumption DEF TypeOK, Challenge
<1>2. override[c] \in Coin \cup {NoMove}
  BY DEF TypeOK
<1> QED
  BY <1>1, <1>2 DEF Results

(* clearPlayerLocks frees players; it never makes one busy. *)
LEMMA LocksClearedType ==
    ASSUME TypeOK, NEW cs
    PROVE  LocksCleared(cs) \in [Player -> ChallengeId \cup {NoChallenge}]
BY DEF TypeOK, LocksCleared

-----------------------------------------------------------------------------
(* Type correctness: every method keeps the state well formed. *)

LEMMA InitType == Init => TypeOK
<1> SUFFICES ASSUME Init PROVE TypeOK
  OBVIOUS
<1>1. challenges \in [ChallengeId -> Challenge]
  BY UnusedType DEF Init
<1>2. 1 \in 1 .. MaxChallenges + 1
  BY BoundAssumption
<1> QED
  BY <1>1, <1>2 DEF Init, TypeOK

LEMMA CreateType ==
    ASSUME TypeOK, NEW p \in Player, NEW q \in Participant, NEW g \in Game,
           NEW w \in Int \cup {NotFinite}, CreateAccepted(p, q, g, w)
    PROVE  TypeOK'
<1> DEFINE new == [Unused EXCEPT !.status = "pending", !.challenger = p,
                      !.opponent = q, !.game = g, !.wager = SafeWager(w)]
<1>1. counter \in ChallengeId
  BY BoundAssumption DEF CreateAccepted, TypeOK, ChallengeId
<1>2. new \in Challenge
  BY UnusedType, SafeWagerType DEF Challenge, Participant, Open
<1>3. challenges' \in [ChallengeId -> Challenge]
  <2>1. challenges' = [challenges EXCEPT ![counter] = new]
    BY DEF CreateAccepted
  <2> QED
    BY <1>2, <2>1 DEF TypeOK
<1>4. timer' \in [ChallengeId -> Nat]
  BY TickAssumption DEF CreateAccepted, TypeOK
<1>5. activeByPlayer' \in [Player -> ChallengeId \cup {NoChallenge}]
  BY <1>1 DEF CreateAccepted, TypeOK
<1>6. counter' \in 1 .. MaxChallenges + 1
  BY BoundAssumption DEF CreateAccepted, TypeOK
<1>7. returned' \subseteq [event : EventName, challenge : ChallengeId]
  BY <1>1 DEF CreateAccepted, Event, EventName
<1> QED
  BY <1>3, <1>4, <1>5, <1>6, <1>7 DEF TypeOK, CreateAccepted

LEMMA CloseVoidType ==
    ASSUME TypeOK, NEW c \in ChallengeId, NEW s \in {"declined", "expired"},
           CloseVoid(c, s)
    PROVE  TypeOK'
<1>1. challenges' \in [ChallengeId -> Challenge]
  BY DEF CloseVoid, TypeOK, Challenge, Closed
<1>2. returned' \subseteq [event : EventName, challenge : ChallengeId]
  BY DEF CloseVoid, Event, EventName, Closed
<1> QED
  BY <1>1, <1>2, LocksClearedType DEF CloseVoid, TypeOK

LEMMA MoveType ==
    ASSUME TypeOK, NEW c \in ChallengeId, NEW p \in Participant, NEW m \in Move,
           MoveRecorded(c, p, m)
    PROVE  TypeOK'
<1> DEFINE moved == WithMove(c, p, m)
<1>1. moved \in Challenge
  BY DEF WithMove, TypeOK, Challenge
<1>2. CASE moved.challengerMove = NoMove \/ moved.opponentMove = NoMove
  <2>1. /\ challenges' = [challenges EXCEPT ![c] = moved]
        /\ returned' = {Event("move_submitted", c)}
        /\ UNCHANGED <<activeByPlayer, timer, override, counter>>
    BY <1>2 DEF MoveRecorded
  <2> QED
    BY <1>1, <2>1 DEF TypeOK, Event, EventName
<1>3. CASE moved.challengerMove # NoMove /\ moved.opponentMove # NoMove
  <2>1. PICK result \in Results(c) :
           challenges' = [challenges EXCEPT ![c] =
              [moved EXCEPT !.status = "resolved", !.result = result,
                            !.winner = Judge(moved, result)]]
    BY <1>3 DEF MoveRecorded
  <2>2. Judge(moved, result) \in Participant \cup {Nobody}
    BY <1>1, JudgeParty, PartiesType
  <2>3. [moved EXCEPT !.status = "resolved", !.result = result,
                      !.winner = Judge(moved, result)] \in Challenge
    BY <1>1, <2>2, ResultsType DEF Challenge, Closed
  <2>4. challenges' \in [ChallengeId -> Challenge]
    BY <2>1, <2>3 DEF TypeOK
  <2>5. returned' \subseteq [event : EventName, challenge : ChallengeId]
    <3>1. returned' = {Event("resolved", c)}
      BY <1>3 DEF MoveRecorded
    <3> QED
      BY <3>1 DEF Event, EventName, Closed
  <2>6. override' \in [ChallengeId -> Coin \cup {NoMove}]
    BY <1>3 DEF MoveRecorded, TypeOK
  <2>7. /\ timer' = [timer EXCEPT ![c] = 0]
        /\ activeByPlayer' = LocksCleared({c})
        /\ counter' = counter
    BY <1>3 DEF MoveRecorded
  <2> QED
    BY <2>4, <2>5, <2>6, <2>7, LocksClearedType DEF TypeOK
<1> QED
  BY <1>2, <1>3

LEMMA TickType == ASSUME TypeOK, Tick PROVE TypeOK'
<1>1. PICK result \in [DueActive -> Coin \cup DiceFace \cup {NoMove}] :
         challenges' = [c \in ChallengeId |->
             IF c \in DueActive
             THEN [challenges[c] EXCEPT !.status = "resolved",
                      !.result = result[c],
                      !.winner = TimeoutWinner(challenges[c], result[c])]
             ELSE IF c \in Due THEN [challenges[c] EXCEPT !.status = "expired"]
             ELSE challenges[c]]
  BY DEF Tick
<1>2. ASSUME NEW c \in ChallengeId PROVE challenges'[c] \in Challenge
  <2>1. challenges[c] \in Challenge
    BY DEF TypeOK
  <2>2. CASE c \in DueActive
    <3>1. TimeoutWinner(challenges[c], result[c]) \in Participant \cup {Nobody}
      BY <2>1, TimeoutParty, PartiesType
    <3> QED
      BY <1>1, <2>1, <2>2, <3>1 DEF Challenge, Closed
  <2>3. CASE c \notin DueActive
    BY <1>1, <2>1, <2>3 DEF Challenge, Closed
  <2> QED
    BY <2>2, <2>3
<1>3. challenges' \in [ChallengeId -> Challenge]
  BY <1>1, <1>2
<1>4. returned' \subseteq [event : EventName, challenge : ChallengeId]
  <2>1. returned' = {Event(IF c \in DueActive THEN "resolved" ELSE "expired", c) :
                        c \in Due}
    BY DEF Tick
  <2>2. ASSUME NEW c \in Due
        PROVE  Event(IF c \in DueActive THEN "resolved" ELSE "expired", c)
                  \in [event : EventName, challenge : ChallengeId]
    BY DEF Due, Event, EventName, Closed
  <2> QED
    BY <2>1, <2>2
<1>5. override' \in [ChallengeId -> Coin \cup {NoMove}]
  BY DEF Tick, TypeOK
<1> QED
  BY <1>3, <1>4, <1>5, LocksClearedType DEF TypeOK, Tick

LEMMA TypeStep == TypeOK /\ [Next]_vars => TypeOK'
<1> SUFFICES ASSUME TypeOK, [Next]_vars PROVE TypeOK'
  OBVIOUS
<1>1. CASE UNCHANGED vars
  BY <1>1 DEF vars, TypeOK
<1>2. CASE Refuse
  BY <1>2 DEF Refuse, TypeOK
<1>3. ASSUME NEW p \in Player, NEW q \in Participant, NEW g \in Game,
             NEW w \in WagerInput, CreateChallenge(p, q, g, w)
      PROVE  TypeOK'
  BY <1>2, <1>3, CreateType, WagerAssumption DEF CreateChallenge, CreateRefused
<1>4. ASSUME NEW c \in ChallengeId, NEW side \in Coin,
             SetCoinflipResultOverride(c, side)
      PROVE  TypeOK'
  BY <1>4 DEF SetCoinflipResultOverride, TypeOK
<1>5. ASSUME NEW c \in ChallengeId, NEW p \in Participant, NEW accept \in BOOLEAN,
             Respond(c, p, accept)
      PROVE  TypeOK'
  <2>1. CASE RespondRefused(c, p)
    BY <1>2, <2>1 DEF RespondRefused
  <2>2. CASE RespondDecline(c, p)
    BY <2>2, CloseVoidType DEF RespondDecline
  <2>3. CASE RespondAccept(c, p)
    <3>1. challenges' \in [ChallengeId -> Challenge]
      BY <2>3 DEF RespondAccept, TypeOK, Challenge, Open
    <3> QED
      BY <2>3, <3>1, TickAssumption DEF RespondAccept, TypeOK, Event, EventName
  <2> QED
    BY <1>5, <2>1, <2>2, <2>3 DEF Respond
<1>6. ASSUME NEW c \in ChallengeId, NEW status \in {"declined", "expired"},
             AbortChallenge(c, status)
      PROVE  TypeOK'
  BY <1>2, <1>6, CloseVoidType DEF AbortChallenge
<1>7. ASSUME NEW c \in ChallengeId, NEW p \in Participant, NEW m \in Move,
             SubmitMove(c, p, m)
      PROVE  TypeOK'
  BY <1>2, <1>7, MoveType DEF SubmitMove, MoveRefused
<1>8. CASE Tick
  BY <1>8, TickType
<1>9. ASSUME NEW p \in Player, ClearDisconnectedPlayer(p) PROVE TypeOK'
  <2>1. activeByPlayer[p] \in ChallengeId
    BY <1>9 DEF ClearDisconnectedPlayer, TypeOK
  <2> QED
    BY <1>9, <2>1, CloseVoidType DEF ClearDisconnectedPlayer
<1>10. CASE Elapse
  BY <1>10 DEF Elapse, TimePasses, TypeOK
<1> QED
  BY <1>1, <1>3, <1>4, <1>5, <1>6, <1>7, <1>8, <1>9, <1>10 DEF Next

(* Every reachable state of the service is well formed. *)
THEOREM TypeCorrect == Safety => []TypeOK
<1> QED
  BY InitType, TypeStep, PTL DEF Safety

-----------------------------------------------------------------------------
(* The player index and the challenges agree. *)

LEMMA InitInd == Init => IndInv
<1> SUFFICES ASSUME Init PROVE IndInv
  OBVIOUS
<1>1. \A c \in ChallengeId : challenges[c].status = "unused" /\ c >= counter
  BY DEF Init, Unused, ChallengeId
<1>2. \A p \in Player, c \in ChallengeId : activeByPlayer[p] # c
  BY DEF Init, NoChallenge, ChallengeId
<1> QED
  BY <1>1, <1>2, InitType
  DEF IndInv, CounterFresh, PartiesKnown, LockCoherence, IsOpen, Open

(* A step that closes the open challenges cs and clears the index entries   *)
(* of their parties; with cs empty, one that leaves the open ones open.     *)
Closing(cs) ==
    /\ \A c \in ChallengeId :
          /\ Parties(challenges'[c]) = Parties(challenges[c])
          /\ IsOpen(c)' <=> IsOpen(c) /\ c \notin cs
          /\ challenges'[c].status = "unused" <=> challenges[c].status = "unused"
    /\ \A p \in Player : activeByPlayer'[p] = LocksCleared(cs)[p]
    /\ counter' = counter

(* Clearing both parties of every closed challenge is exactly what keeps    *)
(* the index right: no entry of another open challenge is lost, because     *)
(* before the step no player was in two.                                   *)
LEMMA ClosingKeeps ==
    ASSUME IndInv, NEW cs \in SUBSET ChallengeId, \A c \in cs : IsOpen(c), Closing(cs)
    PROVE  CounterFresh' /\ PartiesKnown' /\ LockCoherence'
<1>1. CounterFresh' /\ PartiesKnown'
  BY DEF IndInv, CounterFresh, PartiesKnown, Closing
<1>2. ASSUME NEW p \in Player, NEW c \in ChallengeId
      PROVE  activeByPlayer'[p] = c <=> IsOpen(c)' /\ p \in Parties(challenges'[c])
  <2>1. \A d \in ChallengeId : activeByPlayer[p] = d
                                 <=> IsOpen(d) /\ p \in Parties(challenges[d])
    BY DEF IndInv, LockCoherence
  <2>2. CASE \E d \in cs : p \in Parties(challenges[d])
    <3>1. PICK d \in cs : p \in Parties(challenges[d])
      BY <2>2
    <3>2. activeByPlayer[p] = d
      BY <2>1, <3>1
    <3>3. activeByPlayer'[p] = NoChallenge
      BY <2>2 DEF Closing, LocksCleared
    <3>4. NoChallenge # c
      BY DEF NoChallenge, ChallengeId
    <3> QED
      BY <2>1, <3>2, <3>3, <3>4 DEF Closing
  <2>3. CASE ~ \E d \in cs : p \in Parties(challenges[d])
    <3>1. activeByPlayer'[p] = activeByPlayer[p]
      BY <2>3 DEF Closing, LocksCleared
    <3> QED
      BY <2>1, <2>3, <3>1 DEF Closing
  <2> QED
    BY <2>2, <2>3
<1> QED
  BY <1>1, <1>2 DEF LockCoherence

LEMMA CreateKeeps ==
    ASSUME IndInv, NEW p \in Player, NEW q \in Participant, NEW g \in Game,
           NEW w \in WagerInput, CreateAccepted(p, q, g, w)
    PROVE  CounterFresh' /\ PartiesKnown' /\ LockCoherence'
<1>1. counter \in ChallengeId /\ counter \in Nat
  BY BoundAssumption DEF CreateAccepted, IndInv, TypeOK, ChallengeId
<1>2. challenges' = [challenges EXCEPT ![counter] =
          [Unused EXCEPT !.status = "pending", !.challenger = p, !.opponent = q,
                         !.game = g, !.wager = SafeWager(w)]]
  BY DEF CreateAccepted
<1>3. /\ challenges'[counter].status = "pending"
      /\ Parties(challenges'[counter]) = {p, q}
  BY <1>1, <1>2 DEF IndInv, TypeOK, Unused, Parties
<1>4. \A c \in ChallengeId : c # counter => challenges'[c] = challenges[c]
  BY <1>1, <1>2 DEF IndInv, TypeOK
<1>5. challenges[counter].status = "unused"
  BY <1>1 DEF IndInv, CounterFresh
<1>6. CounterFresh'
  <2>1. counter' = counter + 1
    BY DEF CreateAccepted
  <2>2. \A c \in ChallengeId : c \in Nat
    BY DEF ChallengeId
  <2> QED
    BY <1>1, <1>3, <1>4, <1>5, <2>1, <2>2 DEF IndInv, CounterFresh
<1>7. PartiesKnown'
  BY <1>3, <1>4 DEF IndInv, PartiesKnown, IsOpen, Participant
<1>8. ASSUME NEW x \in Player, NEW c \in ChallengeId
      PROVE  activeByPlayer'[x] = c <=> IsOpen(c)' /\ x \in Parties(challenges'[c])
  <2>1. \A d \in ChallengeId : activeByPlayer[x] = d
                                 <=> IsOpen(d) /\ x \in Parties(challenges[d])
    BY DEF IndInv, LockCoherence
  <2>2. activeByPlayer'[x] = IF x \in {p, q} THEN counter ELSE activeByPlayer[x]
    BY DEF CreateAccepted
  <2>3. CASE x \in {p, q}
    <3>1. activeByPlayer[x] = NoChallenge
      BY <2>3 DEF CreateAccepted, Busy
    <3>2. ~(IsOpen(c) /\ x \in Parties(challenges[c]))
      BY <2>1, <3>1 DEF NoChallenge, ChallengeId
    <3> QED
      BY <1>3, <1>4, <2>2, <2>3, <3>2 DEF IsOpen, Open
  <2>4. CASE x \notin {p, q}
    <3>1. ~IsOpen(counter)
      BY <1>5 DEF IsOpen, Open
    <3> QED
      BY <1>1, <1>3, <1>4, <2>1, <2>2, <2>4, <3>1 DEF IsOpen
  <2> QED
    BY <2>3, <2>4
<1> QED
  BY <1>6, <1>7, <1>8 DEF LockCoherence

(* Clearing no challenge at all changes no entry. *)
LEMMA NothingCleared ==
    ASSUME NEW p \in Player PROVE LocksCleared({})[p] = activeByPlayer[p]
BY DEF LocksCleared

LEMMA CloseVoidKeeps ==
    ASSUME IndInv, NEW c \in ChallengeId, IsOpen(c),
           NEW s \in {"declined", "expired"}, CloseVoid(c, s)
    PROVE  CounterFresh' /\ PartiesKnown' /\ LockCoherence'
<1>1. challenges' = [challenges EXCEPT ![c].status = s]
  BY DEF CloseVoid
<1>2. \A d \in ChallengeId :
         /\ Parties(challenges'[d]) = Parties(challenges[d])
         /\ challenges'[d].status = IF d = c THEN s ELSE challenges[d].status
  BY <1>1 DEF IndInv, TypeOK, Challenge, Parties
<1>3. Closing({c})
  BY <1>2 DEF Closing, CloseVoid, IsOpen, Open
<1> QED
  BY <1>3, ClosingKeeps

LEMMA MoveKeeps ==
    ASSUME IndInv, NEW c \in ChallengeId, NEW p \in Participant, NEW m \in Move,
           MoveRecorded(c, p, m)
    PROVE  CounterFresh' /\ PartiesKnown' /\ LockCoherence'
<1> DEFINE moved == WithMove(c, p, m)
<1>1. /\ moved \in Challenge
      /\ moved.status = challenges[c].status
      /\ Parties(moved) = Parties(challenges[c])
  BY DEF WithMove, IndInv, TypeOK, Challenge, Parties
<1>2. challenges[c].status = "active" /\ IsOpen(c)
  BY DEF MoveRecorded, IsOpen, Open
<1>3. challenges \in [ChallengeId -> Challenge]
  BY DEF IndInv, TypeOK
<1>4. CASE moved.challengerMove = NoMove \/ moved.opponentMove = NoMove
  <2>1. /\ challenges' = [challenges EXCEPT ![c] = moved]
        /\ UNCHANGED <<activeByPlayer, counter>>
    BY <1>4 DEF MoveRecorded
  <2>2. \A d \in ChallengeId :
           /\ Parties(challenges'[d]) = Parties(challenges[d])
           /\ challenges'[d].status = challenges[d].status
    BY <1>1, <1>3, <2>1
  <2>3. Closing({})
    BY <2>1, <2>2, NothingCleared DEF Closing, IsOpen
  <2> QED
    BY <2>3, ClosingKeeps
<1>5. CASE moved.challengerMove # NoMove /\ moved.opponentMove # NoMove
  <2>1. PICK result \in Results(c) :
           challenges' = [challenges EXCEPT ![c] =
              [moved EXCEPT !.status = "resolved", !.result = result,
                            !.winner = Judge(moved, result)]]
    BY <1>5 DEF MoveRecorded
  <2>2. \A d \in ChallengeId :
           /\ Parties(challenges'[d]) = Parties(challenges[d])
           /\ challenges'[d].status = IF d = c THEN "resolved" ELSE challenges[d].status
    BY <1>1, <1>3, <2>1 DEF Challenge, Parties
  <2>3. activeByPlayer' = LocksCleared({c}) /\ counter' = counter
    BY <1>5 DEF MoveRecorded
  <2>4. Closing({c})
    BY <1>2, <2>2, <2>3 DEF Closing, IsOpen, Open
  <2> QED
    BY <1>2, <2>4, ClosingKeeps
<1> QED
  BY <1>4, <1>5

LEMMA TickKeeps ==
    ASSUME IndInv, Tick
    PROVE  CounterFresh' /\ PartiesKnown' /\ LockCoherence'
<1>1. PICK result \in [DueActive -> Coin \cup DiceFace \cup {NoMove}] :
         challenges' = [c \in ChallengeId |->
             IF c \in DueActive
             THEN [challenges[c] EXCEPT !.status = "resolved",
                      !.result = result[c],
                      !.winner = TimeoutWinner(challenges[c], result[c])]
             ELSE IF c \in Due THEN [challenges[c] EXCEPT !.status = "expired"]
             ELSE challenges[c]]
  BY DEF Tick
<1>2. Due \subseteq ChallengeId /\ DueActive \subseteq Due /\ \A c \in Due : IsOpen(c)
  BY DEF Due, DueActive
<1>3. \A c \in ChallengeId :
         /\ Parties(challenges'[c]) = Parties(challenges[c])
         /\ c \in Due => challenges'[c].status \in {"resolved", "expired"}
         /\ c \notin Due => challenges'[c] = challenges[c]
  BY <1>1, <1>2 DEF IndInv, TypeOK, Challenge, Parties
<1>4. activeByPlayer' = LocksCleared(Due) /\ counter' = counter
  BY DEF Tick
<1>5. Closing(Due)
  BY <1>2, <1>3, <1>4 DEF Closing, IsOpen, Open
<1> QED
  BY <1>2, <1>5, ClosingKeeps

LEMMA IndStep == IndInv /\ [Next]_vars => IndInv'
<1> SUFFICES ASSUME IndInv, [Next]_vars
             PROVE  CounterFresh' /\ PartiesKnown' /\ LockCoherence'
  BY TypeStep DEF IndInv
<1>1. CASE UNCHANGED <<challenges, activeByPlayer, counter>>
  <2>1. Closing({})
    BY <1>1, NothingCleared DEF Closing, IsOpen
  <2> QED
    BY <2>1, ClosingKeeps
<1>2. ASSUME NEW p \in Player, NEW q \in Participant, NEW g \in Game,
             NEW w \in WagerInput, CreateChallenge(p, q, g, w)
      PROVE  CounterFresh' /\ PartiesKnown' /\ LockCoherence'
  BY <1>1, <1>2, CreateKeeps DEF CreateChallenge, CreateRefused, Refuse
<1>3. ASSUME NEW c \in ChallengeId, NEW side \in Coin,
             SetCoinflipResultOverride(c, side)
      PROVE  CounterFresh' /\ PartiesKnown' /\ LockCoherence'
  BY <1>1, <1>3 DEF SetCoinflipResultOverride
<1>4. ASSUME NEW c \in ChallengeId, NEW p \in Participant, NEW accept \in BOOLEAN,
             Respond(c, p, accept)
      PROVE  CounterFresh' /\ PartiesKnown' /\ LockCoherence'
  <2>1. CASE RespondRefused(c, p)
    BY <1>1, <2>1 DEF RespondRefused, Refuse
  <2>2. CASE RespondDecline(c, p)
    BY <2>2, CloseVoidKeeps DEF RespondDecline, IsOpen, Open
  <2>3. CASE RespondAccept(c, p)
    <3>1. challenges' = [challenges EXCEPT ![c].status = "active"]
      BY <2>3 DEF RespondAccept
    <3>2. \A d \in ChallengeId :
             /\ Parties(challenges'[d]) = Parties(challenges[d])
             /\ challenges'[d].status = IF d = c THEN "active" ELSE challenges[d].status
      BY <3>1 DEF IndInv, TypeOK, Challenge, Parties
    <3>3. Closing({})
      BY <2>3, <3>2, NothingCleared DEF Closing, RespondAccept, IsOpen, Open
    <3> QED
      BY <3>3, ClosingKeeps
  <2> QED
    BY <1>4, <2>1, <2>2, <2>3 DEF Respond
<1>5. ASSUME NEW c \in ChallengeId, NEW status \in {"declined", "expired"},
             AbortChallenge(c, status)
      PROVE  CounterFresh' /\ PartiesKnown' /\ LockCoherence'
  BY <1>1, <1>5, CloseVoidKeeps DEF AbortChallenge, Refuse
<1>6. ASSUME NEW c \in ChallengeId, NEW p \in Participant, NEW m \in Move,
             SubmitMove(c, p, m)
      PROVE  CounterFresh' /\ PartiesKnown' /\ LockCoherence'
  BY <1>1, <1>6, MoveKeeps DEF SubmitMove, MoveRefused, Refuse
<1>7. CASE Tick
  BY <1>7, TickKeeps
<1>8. ASSUME NEW p \in Player, ClearDisconnectedPlayer(p)
      PROVE  CounterFresh' /\ PartiesKnown' /\ LockCoherence'
  <2>1. activeByPlayer[p] \in ChallengeId
    BY <1>8 DEF ClearDisconnectedPlayer, IndInv, TypeOK
  <2> QED
    BY <1>8, <2>1, CloseVoidKeeps DEF ClearDisconnectedPlayer
<1>9. CASE Elapse
  BY <1>1, <1>9 DEF Elapse, TimePasses
<1>10. CASE UNCHANGED vars
  BY <1>1, <1>10 DEF vars
<1> QED
  BY <1>2, <1>3, <1>4, <1>5, <1>6, <1>7, <1>8, <1>9, <1>10 DEF Next

THEOREM IndInvHolds == Safety => []IndInv
BY InitInd, IndStep, PTL DEF Safety

(* In every reachable state activeByPlayer[p] is a challenge exactly when   *)
(* that challenge is open and p is one of its parties.                     *)
THEOREM LocksCoherent == Safety => []LockCoherence
<1>1. IndInv => LockCoherence
  BY DEF IndInv
<1> QED
  BY <1>1, IndInvHolds, PTL

(* createChallenge's busy check keeps a player in one open challenge; only  *)
(* the house is ever in two.                                               *)
THEOREM OneOpen == Safety => []OneOpenChallenge
<1>1. IndInv => OneOpenChallenge
  <2> SUFFICES ASSUME IndInv, NEW c \in ChallengeId, NEW d \in ChallengeId,
                      c # d, IsOpen(c), IsOpen(d),
                      NEW p \in Parties(challenges[c]) \cap Parties(challenges[d]),
                      p # House
               PROVE  FALSE
    BY DEF OneOpenChallenge
  <2>1. p \in Player
    BY DEF IndInv, PartiesKnown, Participant
  <2>2. activeByPlayer[p] = c /\ activeByPlayer[p] = d
    BY <2>1 DEF IndInv, LockCoherence
  <2> QED
    BY <2>2
<1> QED
  BY <1>1, IndInvHolds, PTL

-----------------------------------------------------------------------------
(* What a step may never do. *)

Final == \A c \in ChallengeId :
            challenges[c].status \in Closed => challenges'[c] = challenges[c]

LEMMA FinalStep == IndInv /\ [Next]_vars => Final
<1> SUFFICES ASSUME IndInv, [Next]_vars, NEW c \in ChallengeId,
                    challenges[c].status \in Closed
             PROVE  challenges'[c] = challenges[c]
  BY DEF Final
<1> USE DEF IndInv, TypeOK
<1>1. ~IsOpen(c) /\ challenges[c].status \notin {"unused", "pending", "active"}
  BY DEF Closed, IsOpen, Open
<1>2. CASE UNCHANGED challenges
  BY <1>2
<1>3. ASSUME NEW d \in ChallengeId, NEW s, IsOpen(d), CloseVoid(d, s)
      PROVE  challenges'[c] = challenges[c]
  BY <1>1, <1>3 DEF CloseVoid
<1>4. ASSUME NEW p \in Player, NEW q \in Participant, NEW g \in Game,
             NEW w \in WagerInput, CreateChallenge(p, q, g, w)
      PROVE  challenges'[c] = challenges[c]
  <2>1. counter # c
    BY <1>1 DEF CounterFresh, ChallengeId
  <2> QED
    BY <1>2, <1>4, <2>1 DEF CreateChallenge, CreateRefused, Refuse, CreateAccepted
<1>5. ASSUME NEW d \in ChallengeId, NEW p \in Participant, NEW accept \in BOOLEAN,
             Respond(d, p, accept)
      PROVE  challenges'[c] = challenges[c]
  BY <1>1, <1>2, <1>3, <1>5 DEF Respond, RespondRefused, Refuse, RespondDecline,
     RespondAccept, IsOpen, Open
<1>6. ASSUME NEW d \in ChallengeId, NEW s \in {"declined", "expired"},
             AbortChallenge(d, s)
      PROVE  challenges'[c] = challenges[c]
  BY <1>2, <1>3, <1>6 DEF AbortChallenge, Refuse
<1>7. ASSUME NEW d \in ChallengeId, NEW p \in Participant, NEW m \in Move,
             SubmitMove(d, p, m)
      PROVE  challenges'[c] = challenges[c]
  <2>1. CASE MoveRefused(d, p, m)
    BY <1>2, <2>1 DEF MoveRefused, Refuse
  <2>2. CASE MoveRecorded(d, p, m)
    <3>1. d # c
      BY <1>1, <2>2 DEF MoveRecorded
    <3>2. \E r : challenges' = [challenges EXCEPT ![d] = r]
      BY <2>2 DEF MoveRecorded
    <3> QED
      BY <3>1, <3>2
  <2> QED
    BY <1>7, <2>1, <2>2 DEF SubmitMove
<1>8. CASE Tick
  <2>1. c \notin Due /\ c \notin DueActive
    BY <1>1 DEF Due, DueActive
  <2> QED
    BY <1>8, <2>1 DEF Tick
<1>9. ASSUME NEW p \in Player, ClearDisconnectedPlayer(p)
      PROVE  challenges'[c] = challenges[c]
  <2>1. activeByPlayer[p] \in ChallengeId
    BY <1>9 DEF ClearDisconnectedPlayer
  <2> QED
    BY <1>3, <1>9, <2>1 DEF ClearDisconnectedPlayer
<1>10. CASE Elapse
  BY <1>2, <1>10 DEF Elapse, TimePasses
<1>11. ASSUME NEW d \in ChallengeId, NEW side \in Coin,
              SetCoinflipResultOverride(d, side)
       PROVE  challenges'[c] = challenges[c]
  BY <1>2, <1>11 DEF SetCoinflipResultOverride
<1>12. CASE UNCHANGED vars
  BY <1>2, <1>12 DEF vars
<1> QED
  BY <1>4, <1>5, <1>6, <1>7, <1>8, <1>9, <1>10, <1>11, <1>12 DEF Next

(* A closed challenge never changes again: a late answer, move, abort,      *)
(* tick or disconnect leaves all of its record as it is.                   *)
THEOREM ClosedStaysFinal == Safety => ClosedIsFinal
<1>1. IndInv /\ [Next]_vars => [Final]_vars
  BY FinalStep
<1> QED
  BY <1>1, IndInvHolds, PTL DEF Safety, ClosedIsFinal, Final

(* Of challenge c, the step returns exactly the event of its closing. *)
Announced(c) ==
    \A s \in Closed : Event(s, c) \in returned' <=> IsOpen(c) /\ challenges'[c].status = s

LEMMA EventsDiffer ==
    \A c, d, s, t : Event(s, c) = Event(t, d) <=> s = t /\ c = d
BY DEF Event

(* A step that returns no closing event and closes nothing. *)
LEMMA NoneAnnounced ==
    ASSUME IndInv, NEW c \in ChallengeId,
           \A s \in Closed : Event(s, c) \notin returned',
           ~IsOpen(c) \/ challenges'[c].status \notin Closed
    PROVE  Announced(c)
BY DEF Announced

LEMMA VoidAnnounced ==
    ASSUME IndInv, NEW c \in ChallengeId, IsOpen(c),
           NEW s \in {"declined", "expired"}, CloseVoid(c, s), NEW d \in ChallengeId
    PROVE  Announced(d)
<1>1. /\ challenges'[d].status = IF d = c THEN s ELSE challenges[d].status
      /\ returned' = {Event(s, c)}
  BY DEF CloseVoid, IndInv, TypeOK, Challenge
<1> QED
  BY <1>1, EventsDiffer DEF Announced, Closed, IsOpen, Open

LEMMA AnnounceStep == IndInv /\ Next => \A c \in ChallengeId : Announced(c)
<1> SUFFICES ASSUME IndInv, Next, NEW c \in ChallengeId
             PROVE  Announced(c)
  OBVIOUS
<1>1. Open \cap Closed = {}
  BY DEF Open, Closed
<1>2. CASE returned' = {} /\ UNCHANGED challenges
  BY <1>1, <1>2, NoneAnnounced DEF IsOpen
<1>3. ASSUME NEW p \in Player, NEW q \in Participant, NEW g \in Game,
             NEW w \in WagerInput, CreateChallenge(p, q, g, w)
      PROVE  Announced(c)
  <2>1. CASE CreateRefused(p, q)
    BY <1>2, <2>1 DEF CreateRefused, Refuse
  <2>2. CASE CreateAccepted(p, q, g, w)
    <3>1. counter \in ChallengeId
      BY <2>2, BoundAssumption DEF CreateAccepted, IndInv, TypeOK, ChallengeId
    <3>2. ~IsOpen(counter)
      BY <3>1 DEF IndInv, CounterFresh, IsOpen, Open, ChallengeId
    <3>3. c # counter => challenges'[c] = challenges[c]
      BY <2>2, <3>1 DEF CreateAccepted, IndInv, TypeOK
    <3>4. returned' = {Event("created", counter)}
      BY <2>2 DEF CreateAccepted
    <3>5. \A s \in Closed : Event(s, c) \notin returned'
      BY <3>4, EventsDiffer DEF Closed
    <3>6. ~IsOpen(c) \/ challenges'[c].status \notin Closed
      BY <1>1, <3>2, <3>3 DEF IsOpen
    <3> QED
      BY <3>5, <3>6, NoneAnnounced
  <2> QED
    BY <1>3, <2>1, <2>2 DEF CreateChallenge
<1>4. ASSUME NEW d \in ChallengeId, NEW p \in Participant, NEW accept \in BOOLEAN,
             Respond(d, p, accept)
      PROVE  Announced(c)
  <2>1. CASE RespondRefused(d, p)
    BY <1>2, <2>1 DEF RespondRefused, Refuse
  <2>2. CASE RespondDecline(d, p)
    BY <2>2, VoidAnnounced DEF RespondDecline, IsOpen, Open
  <2>3. CASE RespondAccept(d, p)
    <3>1. /\ challenges'[c].status = IF c = d THEN "active" ELSE challenges[c].status
          /\ returned' = {Event("accepted", d)}
      BY <2>3 DEF RespondAccept, IndInv, TypeOK, Challenge
    <3> QED
      BY <3>1, EventsDiffer, NoneAnnounced DEF Closed, IsOpen, Open
  <2> QED
    BY <1>4, <2>1, <2>2, <2>3 DEF Respond
<1>5. ASSUME NEW d \in ChallengeId, NEW s \in {"declined", "expired"},
             AbortChallenge(d, s)
      PROVE  Announced(c)
  BY <1>2, <1>5, VoidAnnounced DEF AbortChallenge, Refuse
<1>6. ASSUME NEW d \in ChallengeId, NEW p \in Participant, NEW m \in Move,
             SubmitMove(d, p, m)
      PROVE  Announced(c)
  <2>1. CASE MoveRefused(d, p, m)
    BY <1>2, <2>1 DEF MoveRefused, Refuse
  <2>2. CASE MoveRecorded(d, p, m)
    <3> DEFINE moved == WithMove(d, p, m)
    <3>1. /\ moved \in Challenge /\ moved.status = "active"
          /\ challenges \in [ChallengeId -> Challenge]
          /\ challenges[d].status = "active"
      <4>1. challenges[d].status = "active"
        BY <2>2 DEF MoveRecorded
      <4> QED
        BY <4>1 DEF WithMove, IndInv, TypeOK, Challenge
    <3>2. CASE moved.challengerMove = NoMove \/ moved.opponentMove = NoMove
      <4>1. /\ challenges' = [challenges EXCEPT ![d] = moved]
            /\ returned' = {Event("move_submitted", d)}
        BY <2>2, <3>2 DEF MoveRecorded
      <4>2. challenges'[c].status = challenges[c].status
        BY <3>1, <4>1
      <4> QED
        BY <1>1, <4>1, <4>2, EventsDiffer, NoneAnnounced DEF Closed, IsOpen
    <3>3. CASE moved.challengerMove # NoMove /\ moved.opponentMove # NoMove
      <4>1. PICK result \in Results(d) :
               challenges' = [challenges EXCEPT ![d] =
                  [moved EXCEPT !.status = "resolved", !.result = result,
                                !.winner = Judge(moved, result)]]
        BY <2>2, <3>3 DEF MoveRecorded
      <4>2. challenges'[c].status = IF c = d THEN "resolved" ELSE challenges[c].status
        BY <3>1, <4>1 DEF Challenge
      <4>3. returned' = {Event("resolved", d)}
        BY <2>2, <3>3 DEF MoveRecorded
      <4> QED
        BY <3>1, <4>2, <4>3, EventsDiffer DEF Announced, Closed, IsOpen, Open
    <3> QED
      BY <3>2, <3>3
  <2> QED
    BY <1>6, <2>1, <2>2 DEF SubmitMove
<1>7. CASE Tick
  <2>1. PICK result \in [DueActive -> Coin \cup DiceFace \cup {NoMove}] :
           challenges' = [d \in ChallengeId |->
               IF d \in DueActive
               THEN [challenges[d] EXCEPT !.status = "resolved",
                        !.result = result[d],
                        !.winner = TimeoutWinner(challenges[d], result[d])]
               ELSE IF d \in Due THEN [challenges[d] EXCEPT !.status = "expired"]
               ELSE challenges[d]]
    BY <1>7 DEF Tick
  <2>2. challenges'[c].status = IF c \in DueActive THEN "resolved"
                                ELSE IF c \in Due THEN "expired"
                                ELSE challenges[c].status
    BY <2>1 DEF IndInv, TypeOK, Challenge
  <2>3. returned' = {Event(IF d \in DueActive THEN "resolved" ELSE "expired", d) :
                        d \in Due}
    BY <1>7 DEF Tick
  <2>4. \A s : Event(s, c) \in returned' <=>
                  c \in Due /\ s = IF c \in DueActive THEN "resolved" ELSE "expired"
    BY <2>3, EventsDiffer
  <2>5. (c \in Due => IsOpen(c)) /\ (c \in DueActive => c \in Due)
    BY DEF Due, DueActive
  <2> QED
    BY <1>1, <2>2, <2>4, <2>5 DEF Announced, Closed, IsOpen
<1>8. ASSUME NEW p \in Player, ClearDisconnectedPlayer(p)
      PROVE  Announced(c)
  <2>1. activeByPlayer[p] \in ChallengeId
    BY <1>8 DEF ClearDisconnectedPlayer, IndInv, TypeOK
  <2> QED
    BY <1>8, <2>1, VoidAnnounced DEF ClearDisconnectedPlayer
<1>9. CASE Elapse
  BY <1>2, <1>9 DEF Elapse, TimePasses
<1>10. ASSUME NEW d \in ChallengeId, NEW side \in Coin,
              SetCoinflipResultOverride(d, side)
       PROVE  Announced(c)
  BY <1>2, <1>10 DEF SetCoinflipResultOverride
<1> QED
  BY <1>3, <1>4, <1>5, <1>6, <1>7, <1>8, <1>9, <1>10 DEF Next

(* The caller of the service learns of every close, with the right status,  *)
(* exactly once, and of none that did not happen.                          *)
THEOREM EveryCloseAnnounced == Safety => CloseAnnouncedOnce
<1>1. IndInv /\ [Next]_vars => [\A c \in ChallengeId : Announced(c)]_vars
  BY AnnounceStep
<1>2. (\A c \in ChallengeId : Announced(c)) <=>
      \A c \in ChallengeId, s \in Closed :
          Event(s, c) \in returned' <=> IsOpen(c) /\ challenges'[c].status = s
  BY DEF Announced
<1> QED
  BY <1>1, <1>2, IndInvHolds, PTL DEF Safety, CloseAnnouncedOnce


------------------------------------------------------------------------------
(***************************************************************************)
(* The winners are the ones the rules name: resolveRps, resolveCoinflip,   *)
(* resolveDiceDuel and the timeout branches of tick against the relation   *)
(* Beats.  That a coin flip always has a winner when the moves differ      *)
(* depends on the moves being sides of a coin, and the coin one too:       *)
(* submitMove's check of the move and the type of the override are part of *)
(* the induction.                                                          *)
(***************************************************************************)
(* The moves made are moves of the challenge's game. *)
MovesFit(ch) ==
    /\ ch.challengerMove \in MovesOf(ch.game) \cup {NoMove}
    /\ ch.opponentMove \in MovesOf(ch.game) \cup {NoMove}

(* OutcomeJustified of one challenge. *)
WinnerByRules(ch) ==
    LET cm == ch.challengerMove
        om == ch.opponentMove
    IN  IF \/ cm # NoMove /\ om = NoMove
           \/ cm # NoMove /\ om # NoMove /\ Beats(ch.game, cm, om, ch.result)
        THEN ch.challenger
        ELSE IF \/ om # NoMove /\ cm = NoMove
                \/ om # NoMove /\ cm # NoMove /\ Beats(ch.game, om, cm, ch.result)
        THEN ch.opponent
        ELSE Nobody

Just(ch) ==
    /\ MovesFit(ch)
    /\ ch.status # "resolved" => ch.winner = Nobody
    /\ ch.status = "resolved" => ch.winner = WinnerByRules(ch)

AllJust == \A c \in ChallengeId : Just(challenges[c])

LEMMA JustIsJustified == AllJust => OutcomeJustified
BY DEF AllJust, Just, WinnerByRules, OutcomeJustified

-----------------------------------------------------------------------------
(* What the coin or the die may show in a game. *)
ResultsOf(g) == IF g = "rps" THEN {NoMove} ELSE IF g = "dice_duel" THEN DiceFace ELSE Coin

LEMMA ResultsFit ==
    ASSUME TypeOK, NEW c \in ChallengeId
    PROVE  Results(c) \subseteq ResultsOf(challenges[c].game)
<1>1. override[c] \in Coin \cup {NoMove}
  BY DEF TypeOK
<1> QED
  BY <1>1 DEF Results, ResultsOf

(* No move is not a move. *)
LEMMA NoMoveNotMove ==
    ASSUME NEW g \in Game
    PROVE  NoMove \notin MovesOf(g)
BY FaceAssumption DEF MovesOf, NoMove, RpsMove, Coin

(* Both have moved: the judge of each game agrees with its rules. *)
LEMMA JudgeByRules ==
    ASSUME NEW ch \in Challenge, MovesFit(ch),
           ch.challengerMove # NoMove, ch.opponentMove # NoMove,
           NEW r \in ResultsOf(ch.game),
           NEW new, new = [ch EXCEPT !.status = "resolved", !.result = r,
                                     !.winner = Judge(ch, r)]
    PROVE  new.winner = WinnerByRules(new)
<1>1. /\ new.game = ch.game /\ new.challengerMove = ch.challengerMove
      /\ new.opponentMove = ch.opponentMove /\ new.challenger = ch.challenger
      /\ new.opponent = ch.opponent /\ new.result = r
      /\ new.winner = Judge(ch, r)
  BY DEF Challenge
<1>2. ch.game \in {"rps", "coinflip", "dice_duel"}
  BY GameAssumption DEF Challenge
<1>3. CASE ch.game = "rps"
  <2>1. ch.challengerMove \in RpsMove /\ ch.opponentMove \in RpsMove
    BY <1>3 DEF MovesFit, MovesOf
  <2>2. Judge(ch, r) = RpsWinner(ch)
    BY <1>3 DEF Judge
  <2> QED
    BY <1>1, <1>3, <2>1, <2>2 DEF RpsMove, RpsWinner, WinnerByRules, Beats
<1>4. CASE ch.game = "coinflip"
  <2>1. ch.challengerMove \in Coin /\ ch.opponentMove \in Coin /\ r \in Coin
    BY <1>4 DEF MovesFit, MovesOf, ResultsOf
  <2>2. Judge(ch, r) = CoinflipWinner(ch, r)
    BY <1>4 DEF Judge
  <2> QED
    BY <1>1, <1>4, <2>1, <2>2 DEF Coin, CoinflipWinner, WinnerByRules, Beats
<1>5. CASE ch.game = "dice_duel"
  <2>1. Judge(ch, r) = DiceDuelWinner(ch, r)
    BY <1>5 DEF Judge
  <2> QED
    BY <1>1, <1>5, <2>1 DEF DiceDuelWinner, WinnerByRules, Beats
<1> QED
  BY <1>2, <1>3, <1>4, <1>5

(* The deadline has passed: also with fewer than two moves. *)
LEMMA TimeoutByRules ==
    ASSUME NEW ch \in Challenge, MovesFit(ch), NEW r \in ResultsOf(ch.game),
           NEW new, new = [ch EXCEPT !.status = "resolved", !.result = r,
                                     !.winner = TimeoutWinner(ch, r)]
    PROVE  new.winner = WinnerByRules(new)
<1>1. /\ new.challengerMove = ch.challengerMove /\ new.opponentMove = ch.opponentMove
      /\ new.challenger = ch.challenger /\ new.opponent = ch.opponent
      /\ new.winner = TimeoutWinner(ch, r)
  BY DEF Challenge
<1>2. CASE ch.challengerMove # NoMove /\ ch.opponentMove # NoMove
  <2>1. TimeoutWinner(ch, r) = Judge(ch, r)
    BY <1>2 DEF TimeoutWinner
  <2> QED
    BY <1>2, <2>1, JudgeByRules
<1>3. CASE ch.challengerMove = NoMove \/ ch.opponentMove = NoMove
  BY <1>1, <1>3 DEF TimeoutWinner, WinnerByRules
<1> QED
  BY <1>2, <1>3

(* A challenge closed as resolved, by moves or by the clock, is as the     *)
(* rules say.                                                              *)
LEMMA ResolvedJust ==
    ASSUME NEW ch \in Challenge, MovesFit(ch), NEW r, NEW w,
           NEW new, new = [ch EXCEPT !.status = "resolved", !.result = r, !.winner = w],
           new.winner = WinnerByRules(new)
    PROVE  Just(new)
<1>1. /\ new.game = ch.game /\ new.challengerMove = ch.challengerMove
      /\ new.opponentMove = ch.opponentMove /\ new.status = "resolved"
  BY DEF Challenge
<1> QED
  BY <1>1 DEF Just, MovesFit

(* A new status without a winner changes nothing of it. *)
LEMMA RestatedJust ==
    ASSUME NEW ch \in Challenge, Just(ch), ch.status # "resolved",
           NEW s, s # "resolved", NEW new, new = [ch EXCEPT !.status = s]
    PROVE  Just(new)
<1>1. /\ new.game = ch.game /\ new.challengerMove = ch.challengerMove
      /\ new.opponentMove = ch.opponentMove /\ new.status = s /\ new.winner = ch.winner
  BY DEF Challenge
<1> QED
  BY <1>1 DEF Just, MovesFit

-----------------------------------------------------------------------------
LEMMA CreateJust ==
    ASSUME TypeOK, AllJust, NEW p, NEW q, NEW g \in Game, NEW w, CreateAccepted(p, q, g, w)
    PROVE  AllJust'
<1> DEFINE new == [Unused EXCEPT !.status = "pending", !.challenger = p,
                      !.opponent = q, !.game = g, !.wager = SafeWager(w)]
<1>1. challenges' = [challenges EXCEPT ![counter] = new]
  BY DEF CreateAccepted
<1>2. /\ new.status = "pending" /\ new.winner = Nobody
      /\ new.challengerMove = NoMove /\ new.opponentMove = NoMove
  BY DEF Unused
<1>3. Just(new)
  BY <1>2 DEF Just, MovesFit
<1>4. \A c \in ChallengeId : challenges'[c] = IF c = counter THEN new ELSE challenges[c]
  BY <1>1 DEF TypeOK
<1> QED
  BY <1>3, <1>4 DEF AllJust

LEMMA CloseVoidJust ==
    ASSUME TypeOK, AllJust, NEW c \in ChallengeId, IsOpen(c),
           NEW s \in {"declined", "expired"}, CloseVoid(c, s)
    PROVE  AllJust'
<1>1. challenges' = [challenges EXCEPT ![c] = [challenges[c] EXCEPT !.status = s]]
  BY DEF CloseVoid
<1>2. challenges[c] \in Challenge /\ challenges[c].status # "resolved" /\ Just(challenges[c])
  BY DEF TypeOK, IsOpen, Open, AllJust
<1>3. Just([challenges[c] EXCEPT !.status = s])
  BY <1>2, RestatedJust
<1>4. \A d \in ChallengeId : challenges'[d] = IF d = c THEN [challenges[c] EXCEPT !.status = s]
                                              ELSE challenges[d]
  BY <1>1 DEF TypeOK
<1> QED
  BY <1>3, <1>4 DEF AllJust

LEMMA AcceptJust ==
    ASSUME TypeOK, AllJust, NEW c \in ChallengeId, NEW p, RespondAccept(c, p)
    PROVE  AllJust'
<1>1. challenges' = [challenges EXCEPT ![c] = [challenges[c] EXCEPT !.status = "active"]]
  BY DEF RespondAccept
<1>2. challenges[c] \in Challenge /\ challenges[c].status # "resolved" /\ Just(challenges[c])
  BY DEF TypeOK, RespondAccept, AllJust
<1>3. Just([challenges[c] EXCEPT !.status = "active"])
  BY <1>2, RestatedJust
<1>4. \A d \in ChallengeId : challenges'[d] = IF d = c THEN [challenges[c] EXCEPT !.status = "active"]
                                              ELSE challenges[d]
  BY <1>1 DEF TypeOK
<1> QED
  BY <1>3, <1>4 DEF AllJust

LEMMA MoveJust ==
    ASSUME TypeOK, AllJust, NEW c \in ChallengeId, NEW p, NEW m \in Move,
           MoveRecorded(c, p, m)
    PROVE  AllJust'
<1> DEFINE moved == WithMove(c, p, m)
<1>1. /\ challenges[c].status = "active" /\ m \in MovesOf(challenges[c].game)
      /\ challenges \in [ChallengeId -> Challenge] /\ Just(challenges[c])
  BY DEF MoveRecorded, TypeOK, AllJust
<1>2. moved \in Challenge /\ moved.status = "active" /\ moved.winner = challenges[c].winner
  BY <1>1 DEF WithMove, Challenge
<1>3. MovesFit(moved) /\ moved.game = challenges[c].game
  BY <1>1 DEF WithMove, Challenge, Just, MovesFit
<1>4. CASE moved.challengerMove = NoMove \/ moved.opponentMove = NoMove
  <2>1. challenges' = [challenges EXCEPT ![c] = moved]
    BY <1>4 DEF MoveRecorded
  <2>2. Just(moved)
    BY <1>1, <1>2, <1>3 DEF Just
  <2> QED
    BY <1>1, <2>1, <2>2 DEF AllJust
<1>5. CASE moved.challengerMove # NoMove /\ moved.opponentMove # NoMove
  <2>1. PICK result \in Results(c) :
           challenges' = [challenges EXCEPT ![c] =
              [moved EXCEPT !.status = "resolved", !.result = result,
                            !.winner = Judge(moved, result)]]
    BY <1>5 DEF MoveRecorded
  <2> DEFINE new == [moved EXCEPT !.status = "resolved", !.result = result,
                                  !.winner = Judge(moved, result)]
  <2>2. result \in ResultsOf(moved.game)
    BY <1>3, ResultsFit
  <2>3. new.winner = WinnerByRules(new)
    BY <1>2, <1>3, <1>5, <2>2, JudgeByRules
  <2>4. Just(new)
    BY <1>2, <1>3, <2>3, ResolvedJust
  <2>5. \A d \in ChallengeId : challenges'[d] = IF d = c THEN new ELSE challenges[d]
    BY <1>1, <2>1
  <2> QED
    BY <2>4, <2>5 DEF AllJust
<1> QED
  BY <1>4, <1>5

LEMMA TickJust == ASSUME TypeOK, AllJust, Tick PROVE AllJust'
<1>1. PICK result \in [DueActive -> Coin \cup DiceFace \cup {NoMove}] :
         /\ \A c \in DueActive : result[c] \in Results(c)
         /\ challenges' = [c \in ChallengeId |->
               IF c \in DueActive
               THEN [challenges[c] EXCEPT !.status = "resolved",
                        !.result = result[c],
                        !.winner = TimeoutWinner(challenges[c], result[c])]
               ELSE IF c \in Due THEN [challenges[c] EXCEPT !.status = "expired"]
               ELSE challenges[c]]
  BY DEF Tick
<1>2. ASSUME NEW c \in ChallengeId PROVE Just(challenges'[c])
  <2>1. challenges[c] \in Challenge /\ Just(challenges[c]) /\ MovesFit(challenges[c])
    BY DEF TypeOK, AllJust, Just
  <2>2. CASE c \in DueActive
    <3> DEFINE ch == challenges[c]
               new == [ch EXCEPT !.status = "resolved", !.result = result[c],
                                 !.winner = TimeoutWinner(ch, result[c])]
    <3>1. challenges'[c] = new
      BY <1>1, <2>2
    <3>2. result[c] \in ResultsOf(ch.game)
      BY <1>1, <2>2, ResultsFit
    <3>3. new.winner = WinnerByRules(new)
      BY <2>1, <3>2, TimeoutByRules
    <3>4. Just(new)
      BY <2>1, <3>3, ResolvedJust
    <3> QED
      BY <3>1, <3>4
  <2>3. CASE c \in Due \ DueActive
    <3>1. challenges'[c] = [challenges[c] EXCEPT !.status = "expired"]
      BY <1>1, <2>3
    <3>2. challenges[c].status # "resolved"
      BY <2>3 DEF Due, IsOpen, Open
    <3> QED
      BY <2>1, <3>1, <3>2, RestatedJust
  <2>4. CASE c \notin Due /\ c \notin DueActive
    BY <1>1, <2>1, <2>4
  <2> QED
    BY <2>2, <2>3, <2>4
<1> QED
  BY <1>2 DEF AllJust

LEMMA JustStep == TypeOK /\ AllJust /\ [Next]_vars => AllJust'
<1> SUFFICES ASSUME TypeOK, AllJust, [Next]_vars PROVE AllJust'
  OBVIOUS
<1>1. CASE UNCHANGED challenges
  BY <1>1 DEF AllJust
<1>2. ASSUME NEW p \in Player, NEW q \in Participant, NEW g \in Game,
             NEW w \in WagerInput, CreateChallenge(p, q, g, w)
      PROVE  AllJust'
  BY <1>1, <1>2, CreateJust DEF CreateChallenge, CreateRefused, Refuse
<1>3. ASSUME NEW c \in ChallengeId, NEW side \in Coin, SetCoinflipResultOverride(c, side)
      PROVE  AllJust'
  BY <1>1, <1>3 DEF SetCoinflipResultOverride
<1>4. ASSUME NEW c \in ChallengeId, NEW p \in Participant, NEW accept \in BOOLEAN,
             Respond(c, p, accept)
      PROVE  AllJust'
  BY <1>1, <1>4, AcceptJust, CloseVoidJust
  DEF Respond, RespondRefused, RespondDecline, Refuse, IsOpen, Open
<1>5. ASSUME NEW c \in ChallengeId, NEW status \in {"declined", "expired"},
             AbortChallenge(c, status)
      PROVE  AllJust'
  BY <1>1, <1>5, CloseVoidJust DEF AbortChallenge, Refuse
<1>6. ASSUME NEW c \in ChallengeId, NEW p \in Participant, NEW m \in Move,
             SubmitMove(c, p, m)
      PROVE  AllJust'
  BY <1>1, <1>6, MoveJust DEF SubmitMove, MoveRefused, Refuse
<1>7. CASE Tick
  BY <1>7, TickJust
<1>8. ASSUME NEW p \in Player, ClearDisconnectedPlayer(p)
      PROVE  AllJust'
  <2>1. activeByPlayer[p] \in ChallengeId
    BY <1>8 DEF ClearDisconnectedPlayer, TypeOK
  <2> QED
    BY <1>8, <2>1, CloseVoidJust DEF ClearDisconnectedPlayer
<1>9. CASE Elapse
  BY <1>1, <1>9 DEF Elapse, TimePasses
<1>10. CASE UNCHANGED vars
  BY <1>1, <1>10 DEF vars
<1> QED
  BY <1>2, <1>3, <1>4, <1>5, <1>6, <1>7, <1>8, <1>9, <1>10 DEF Next

LEMMA InitJust == Init => AllJust
<1> SUFFICES ASSUME Init, NEW c \in ChallengeId PROVE Just(challenges[c])
  BY DEF AllJust
<1>1. /\ challenges[c].status = "unused" /\ challenges[c].winner = Nobody
      /\ challenges[c].challengerMove = NoMove /\ challenges[c].opponentMove = NoMove
  BY DEF Init, Unused
<1> QED
  BY <1>1 DEF Just, MovesFit

(* A void challenge has no winner, and a resolved one has the winner the    *)
(* rules name, or the only party that moved.                               *)
THEOREM WinnersAreJustified == Safety => []OutcomeJustified
<1>1. TypeOK /\ AllJust /\ [Next]_vars => AllJust'
  BY JustStep
<1> QED
  BY InitJust, <1>1, JustIsJustified, TypeCorrect, PTL DEF Safety

------------------------------------------------------------------------------
(***************************************************************************)
(* The refinement: every step of ChallengeService is a step of             *)
(* MatchLifecycle or leaves the matches as they are.  The index from       *)
(* players to challenges, which the code consults before it creates a      *)
(* challenge, has no counterpart there: that its answer is the right one   *)
(* is what IndInv provides.                                                *)
(***************************************************************************)
(* The winner of a challenge that was never created, which creation leaves  *)
(* as it is.                                                               *)
Fresh ==
    \A c \in ChallengeId : challenges[c].status = "unused" => challenges[c].winner = Nobody

RefInv == IndInv /\ Fresh

(* A step that MatchLifecycle does not see. *)
Quiet ==
    \A c \in ChallengeId :
        /\ PhaseOf(challenges'[c]) = PhaseOf(challenges[c])
        /\ Parties(challenges'[c]) = Parties(challenges[c])
        /\ challenges'[c].winner = challenges[c].winner

(* A step that closes the challenges voided without a winner and those of   *)
(* decided with one, and does nothing else that MatchLifecycle sees.        *)
Closes(voided, decided) ==
    /\ voided \cup decided # {}
    /\ voided \cap decided = {}
    /\ \A c \in ChallengeId :
          /\ Parties(challenges'[c]) = Parties(challenges[c])
          /\ c \in voided =>
                /\ PhaseOf(challenges[c]) \in {"proposed", "playing"}
                /\ PhaseOf(challenges'[c]) = "void"
          /\ c \in decided =>
                /\ PhaseOf(challenges[c]) = "playing"
                /\ PhaseOf(challenges'[c]) = "decided"
                /\ challenges'[c].winner \in Parties(challenges[c]) \cup {Nobody}
          /\ c \notin decided => challenges'[c].winner = challenges[c].winner
          /\ c \notin voided \cup decided =>
                PhaseOf(challenges'[c]) = PhaseOf(challenges[c])

LEMMA PhaseUnused == \A ch : PhaseOf(ch) = "unused" <=> ch.status = "unused"
BY DEF PhaseOf

LEMMA QuietSim ==
    ASSUME Fresh, Quiet
    PROVE  UNCHANGED ML!vars /\ Fresh'
<1>1. \A c \in ChallengeId : challenges'[c].status = "unused" <=> challenges[c].status = "unused"
  BY PhaseUnused DEF Quiet
<1>2. Fresh'
  BY <1>1 DEF Fresh, Quiet
<1>3. [c \in ChallengeId |-> PhaseOf(challenges'[c])] = [c \in ChallengeId |-> PhaseOf(challenges[c])]
  BY DEF Quiet
<1>4. [c \in ChallengeId |-> IF challenges'[c].status = "unused" THEN {} ELSE Parties(challenges'[c])]
        = [c \in ChallengeId |-> IF challenges[c].status = "unused" THEN {} ELSE Parties(challenges[c])]
  BY <1>1 DEF Quiet
<1>5. [c \in ChallengeId |-> challenges'[c].winner] = [c \in ChallengeId |-> challenges[c].winner]
  BY DEF Quiet
<1> QED
  BY <1>2, <1>3, <1>4, <1>5 DEF ML!vars

LEMMA ClosesSim ==
    ASSUME Fresh, NEW voided \in SUBSET ChallengeId, NEW decided \in SUBSET ChallengeId,
           Closes(voided, decided)
    PROVE  ML!Next /\ Fresh'
<1>1. \A c \in ChallengeId : challenges'[c].status = "unused" <=> challenges[c].status = "unused"
  BY PhaseUnused DEF Closes
<1>2. \A c \in decided : challenges[c].status # "unused"
  BY PhaseUnused DEF Closes
<1>3. Fresh'
  BY <1>1, <1>2 DEF Fresh, Closes
<1>4. ML!Close(voided, decided)
  <2>1. \A c \in voided : PhaseOf(challenges[c]) \in {"proposed", "playing"}
    BY DEF Closes
  <2>2. \A c \in decided :
           /\ PhaseOf(challenges[c]) = "playing"
           /\ challenges'[c].winner \in Parties(challenges[c]) \cup {Nobody}
           /\ challenges[c].status # "unused"
    BY <1>2 DEF Closes
  <2>3. \A c \in ChallengeId :
           PhaseOf(challenges'[c]) = IF c \in voided THEN "void"
                                     ELSE IF c \in decided THEN "decided"
                                     ELSE PhaseOf(challenges[c])
    BY DEF Closes
  <2>4. \A c \in ChallengeId :
           challenges'[c].winner = IF c \in decided THEN challenges'[c].winner
                                                    ELSE challenges[c].winner
    BY DEF Closes
  <2>5. [c \in ChallengeId |-> IF challenges'[c].status = "unused" THEN {} ELSE Parties(challenges'[c])]
        = [c \in ChallengeId |-> IF challenges[c].status = "unused" THEN {} ELSE Parties(challenges[c])]
    BY <1>1 DEF Closes
  <2>6. voided \cup decided # {} /\ voided \cap decided = {}
    BY DEF Closes
  <2> QED
    BY <2>1, <2>2, <2>3, <2>4, <2>5, <2>6 DEF ML!Close, ML!Unfinished
<1> QED
  BY <1>3, <1>4 DEF ML!Next

-----------------------------------------------------------------------------
(* createChallenge is a proposal: the id is unused, and the index shows     *)
(* every unfinished match of a player.                                     *)
LEMMA CreateSim ==
    ASSUME RefInv, NEW p \in Player, NEW q \in Participant, NEW g \in Game,
           NEW w \in WagerInput, CreateAccepted(p, q, g, w)
    PROVE  ML!Next /\ Fresh'
<1> DEFINE new == [Unused EXCEPT !.status = "pending", !.challenger = p,
                      !.opponent = q, !.game = g, !.wager = SafeWager(w)]
<1>1. counter \in ChallengeId
  BY BoundAssumption DEF CreateAccepted, RefInv, IndInv, TypeOK, ChallengeId
<1>2. challenges' = [challenges EXCEPT ![counter] = new]
  BY DEF CreateAccepted
<1>3. new.status = "pending" /\ Parties(new) = {p, q} /\ new.winner = Nobody
  BY DEF Unused, Parties
<1>4. /\ challenges'[counter] = new
      /\ \A c \in ChallengeId : c # counter => challenges'[c] = challenges[c]
  BY <1>1, <1>2 DEF RefInv, IndInv, TypeOK
<1>5. challenges[counter].status = "unused" /\ challenges[counter].winner = Nobody
  BY <1>1 DEF RefInv, IndInv, CounterFresh, Fresh, ChallengeId
<1>6. Fresh'
  BY <1>3, <1>4 DEF Fresh, RefInv
<1>7. PhaseOf(challenges[counter]) = "unused" /\ PhaseOf(new) = "proposed"
  BY <1>3, <1>5 DEF PhaseOf
<1>8. ASSUME NEW x \in Player, ~Busy(x) PROVE ~ML!Engaged(x)
  <2>1. \A c \in ChallengeId : ~(IsOpen(c) /\ x \in Parties(challenges[c]))
    BY <1>8 DEF Busy, RefInv, IndInv, LockCoherence, NoChallenge, ChallengeId
  <2>2. \A c \in ChallengeId : PhaseOf(challenges[c]) \in {"proposed", "playing"}
                                 => IsOpen(c) /\ challenges[c].status # "unused"
    BY DEF PhaseOf, IsOpen, Open
  <2> QED
    BY <2>1, <2>2 DEF ML!Engaged, ML!Unfinished
<1>9. p # q /\ ~ML!Engaged(p) /\ (q = House \/ ~ML!Engaged(q))
  BY <1>8 DEF CreateAccepted, Participant
<1>10. [c \in ChallengeId |-> PhaseOf(challenges'[c])]
         = [[c \in ChallengeId |-> PhaseOf(challenges[c])] EXCEPT ![counter] = "proposed"]
  BY <1>1, <1>4, <1>7
<1>11. [c \in ChallengeId |-> IF challenges'[c].status = "unused" THEN {} ELSE Parties(challenges'[c])]
         = [[c \in ChallengeId |-> IF challenges[c].status = "unused" THEN {} ELSE Parties(challenges[c])]
               EXCEPT ![counter] = {p, q}]
  BY <1>1, <1>3, <1>4
<1>12. [c \in ChallengeId |-> challenges'[c].winner] = [c \in ChallengeId |-> challenges[c].winner]
  BY <1>3, <1>4, <1>5
<1>13. [c \in ChallengeId |-> PhaseOf(challenges[c])][counter] = "unused"
  BY <1>1, <1>7
<1>14. ML!Propose(counter, p, q)
  BY <1>9, <1>10, <1>11, <1>12, <1>13 DEF ML!Propose
<1> QED
  BY <1>1, <1>6, <1>14 DEF ML!Next, Participant

(* respond(.., true) starts the match. *)
LEMMA AcceptSim ==
    ASSUME RefInv, NEW c \in ChallengeId, NEW p, RespondAccept(c, p)
    PROVE  ML!Next /\ Fresh'
<1>1. /\ challenges[c].status = "pending"
      /\ challenges' = [challenges EXCEPT ![c].status = "active"]
  BY DEF RespondAccept
<1>2. \A d \in ChallengeId :
         /\ challenges'[d].status = IF d = c THEN "active" ELSE challenges[d].status
         /\ Parties(challenges'[d]) = Parties(challenges[d])
         /\ challenges'[d].winner = challenges[d].winner
  BY <1>1 DEF RefInv, IndInv, TypeOK, Challenge, Parties
<1>3. Fresh'
  BY <1>2 DEF Fresh, RefInv
<1>4. \A d \in ChallengeId :
         PhaseOf(challenges'[d]) = IF d = c THEN "playing" ELSE PhaseOf(challenges[d])
  BY <1>2 DEF PhaseOf
<1>5. PhaseOf(challenges[c]) = "proposed"
  BY <1>1 DEF PhaseOf
<1>6. [d \in ChallengeId |-> PhaseOf(challenges'[d])]
         = [[d \in ChallengeId |-> PhaseOf(challenges[d])] EXCEPT ![c] = "playing"]
  BY <1>4
<1>7. [d \in ChallengeId |-> IF challenges'[d].status = "unused" THEN {} ELSE Parties(challenges'[d])]
         = [d \in ChallengeId |-> IF challenges[d].status = "unused" THEN {} ELSE Parties(challenges[d])]
  BY <1>1, <1>2
<1>8. [d \in ChallengeId |-> challenges'[d].winner] = [d \in ChallengeId |-> challenges[d].winner]
  BY <1>2
<1>9. ML!Start(c)
  BY <1>5, <1>6, <1>7, <1>8 DEF ML!Start
<1> QED
  BY <1>3, <1>9 DEF ML!Next

LEMMA CloseVoidSim ==
    ASSUME RefInv, NEW c \in ChallengeId, IsOpen(c), NEW s \in {"declined", "expired"},
           CloseVoid(c, s)
    PROVE  ML!Next /\ Fresh'
<1>1. \A d \in ChallengeId :
         /\ challenges'[d].status = IF d = c THEN s ELSE challenges[d].status
         /\ Parties(challenges'[d]) = Parties(challenges[d])
         /\ challenges'[d].winner = challenges[d].winner
  BY DEF CloseVoid, RefInv, IndInv, TypeOK, Challenge, Parties
<1>2. /\ PhaseOf(challenges'[c]) = "void"
      /\ PhaseOf(challenges[c]) \in {"proposed", "playing"}
      /\ \A d \in ChallengeId : d # c => PhaseOf(challenges'[d]) = PhaseOf(challenges[d])
  BY <1>1 DEF PhaseOf, IsOpen, Open
<1>3. Closes({c}, {})
  BY <1>1, <1>2 DEF Closes
<1> QED
  BY <1>3, ClosesSim DEF RefInv

(* The first move is not seen; the second decides the match, for a party    *)
(* or for nobody.                                                          *)
LEMMA MoveSim ==
    ASSUME RefInv, NEW c \in ChallengeId, NEW p, NEW m \in Move,
           MoveRecorded(c, p, m)
    PROVE  (UNCHANGED ML!vars \/ ML!Next) /\ Fresh'
<1> DEFINE moved == WithMove(c, p, m)
<1>1. /\ moved \in Challenge /\ moved.status = "active"
      /\ Parties(moved) = Parties(challenges[c])
      /\ moved.winner = challenges[c].winner
      /\ challenges[c].status = "active"
      /\ challenges \in [ChallengeId -> Challenge]
  <2>1. challenges[c].status = "active" /\ challenges \in [ChallengeId -> Challenge]
    BY DEF MoveRecorded, RefInv, IndInv, TypeOK
  <2> QED
    BY <2>1 DEF WithMove, Challenge, Parties
<1>2. CASE moved.challengerMove = NoMove \/ moved.opponentMove = NoMove
  <2>1. challenges' = [challenges EXCEPT ![c] = moved]
    BY <1>2 DEF MoveRecorded
  <2>2. Quiet
    BY <1>1, <2>1 DEF Quiet, PhaseOf
  <2> QED
    BY <2>2, QuietSim DEF RefInv
<1>3. CASE moved.challengerMove # NoMove /\ moved.opponentMove # NoMove
  <2>1. PICK result \in Results(c) :
           challenges' = [challenges EXCEPT ![c] =
              [moved EXCEPT !.status = "resolved", !.result = result,
                            !.winner = Judge(moved, result)]]
    BY <1>3 DEF MoveRecorded
  <2>2. Judge(moved, result) \in Parties(challenges[c]) \cup {Nobody}
    BY <1>1, JudgeParty
  <2>3. /\ challenges'[c].status = "resolved"
        /\ challenges'[c].winner = Judge(moved, result)
        /\ Parties(challenges'[c]) = Parties(challenges[c])
    BY <1>1, <2>1 DEF Challenge, Parties
  <2>4. \A d \in ChallengeId : d # c => challenges'[d] = challenges[d]
    BY <1>1, <2>1
  <2>5. PhaseOf(challenges'[c]) = "decided" /\ PhaseOf(challenges[c]) = "playing"
    BY <1>1, <2>3 DEF PhaseOf
  <2>6. Closes({}, {c})
    BY <2>2, <2>3, <2>4, <2>5 DEF Closes
  <2> QED
    BY <2>6, ClosesSim DEF RefInv
<1> QED
  BY <1>2, <1>3

(* tick() closes every due challenge at once. *)
LEMMA TickSim ==
    ASSUME RefInv, Tick
    PROVE  ML!Next /\ Fresh'
<1>1. PICK result \in [DueActive -> Coin \cup DiceFace \cup {NoMove}] :
         challenges' = [c \in ChallengeId |->
             IF c \in DueActive
             THEN [challenges[c] EXCEPT !.status = "resolved",
                      !.result = result[c],
                      !.winner = TimeoutWinner(challenges[c], result[c])]
             ELSE IF c \in Due THEN [challenges[c] EXCEPT !.status = "expired"]
             ELSE challenges[c]]
  BY DEF Tick
<1>2. Due \subseteq ChallengeId /\ DueActive \subseteq Due /\ Due # {}
  BY DEF Due, DueActive, Tick
<1>3. ASSUME NEW c \in ChallengeId
      PROVE  /\ Parties(challenges'[c]) = Parties(challenges[c])
             /\ c \in Due \ DueActive =>
                   /\ PhaseOf(challenges[c]) \in {"proposed", "playing"}
                   /\ PhaseOf(challenges'[c]) = "void"
             /\ c \in DueActive =>
                   /\ PhaseOf(challenges[c]) = "playing"
                   /\ PhaseOf(challenges'[c]) = "decided"
                   /\ challenges'[c].winner \in Parties(challenges[c]) \cup {Nobody}
             /\ c \notin DueActive => challenges'[c].winner = challenges[c].winner
             /\ c \notin Due => PhaseOf(challenges'[c]) = PhaseOf(challenges[c])
  <2>1. challenges[c] \in Challenge
    BY DEF RefInv, IndInv, TypeOK
  <2>2. CASE c \in DueActive
    <3>1. /\ challenges'[c].status = "resolved"
          /\ challenges'[c].winner = TimeoutWinner(challenges[c], result[c])
          /\ Parties(challenges'[c]) = Parties(challenges[c])
      BY <1>1, <2>1, <2>2 DEF Challenge, Parties
    <3>2. TimeoutWinner(challenges[c], result[c]) \in Parties(challenges[c]) \cup {Nobody}
      BY <2>1, TimeoutParty
    <3>3. challenges[c].status = "active"
      BY <2>2 DEF DueActive
    <3>4. PhaseOf(challenges'[c]) = "decided" /\ PhaseOf(challenges[c]) = "playing"
      BY <3>1, <3>3 DEF PhaseOf
    <3> QED
      BY <1>2, <2>2, <3>1, <3>2, <3>4
  <2>3. CASE c \in Due \ DueActive
    <3>1. /\ challenges'[c].status = "expired"
          /\ challenges'[c].winner = challenges[c].winner
          /\ Parties(challenges'[c]) = Parties(challenges[c])
      BY <1>1, <2>1, <2>3 DEF Challenge, Parties
    <3>2. challenges[c].status = "pending"
      BY <2>3 DEF Due, DueActive, IsOpen, Open
    <3>3. PhaseOf(challenges'[c]) = "void" /\ PhaseOf(challenges[c]) = "proposed"
      BY <3>1, <3>2 DEF PhaseOf
    <3> QED
      BY <2>3, <3>1, <3>3
  <2>4. CASE c \notin Due
    BY <1>1, <1>2, <2>4
  <2> QED
    BY <2>2, <2>3, <2>4
<1>4. Closes(Due \ DueActive, DueActive)
  BY <1>2, <1>3 DEF Closes
<1> QED
  BY <1>2, <1>4, ClosesSim DEF RefInv

-----------------------------------------------------------------------------
LEMMA SimStep == RefInv /\ [Next]_vars => (UNCHANGED ML!vars \/ ML!Next) /\ Fresh'
<1> SUFFICES ASSUME RefInv, [Next]_vars
             PROVE  (UNCHANGED ML!vars \/ ML!Next) /\ Fresh'
  OBVIOUS
<1>1. CASE UNCHANGED challenges
  BY <1>1, QuietSim DEF Quiet, RefInv
<1>2. ASSUME NEW p \in Player, NEW q \in Participant, NEW g \in Game,
             NEW w \in WagerInput, CreateChallenge(p, q, g, w)
      PROVE  (UNCHANGED ML!vars \/ ML!Next) /\ Fresh'
  BY <1>1, <1>2, CreateSim DEF CreateChallenge, CreateRefused, Refuse
<1>3. ASSUME NEW c \in ChallengeId, NEW side \in Coin, SetCoinflipResultOverride(c, side)
      PROVE  (UNCHANGED ML!vars \/ ML!Next) /\ Fresh'
  BY <1>1, <1>3 DEF SetCoinflipResultOverride
<1>4. ASSUME NEW c \in ChallengeId, NEW p \in Participant, NEW accept \in BOOLEAN,
             Respond(c, p, accept)
      PROVE  (UNCHANGED ML!vars \/ ML!Next) /\ Fresh'
  BY <1>1, <1>4, AcceptSim, CloseVoidSim
  DEF Respond, RespondRefused, RespondDecline, Refuse, IsOpen, Open
<1>5. ASSUME NEW c \in ChallengeId, NEW status \in {"declined", "expired"},
             AbortChallenge(c, status)
      PROVE  (UNCHANGED ML!vars \/ ML!Next) /\ Fresh'
  BY <1>1, <1>5, CloseVoidSim DEF AbortChallenge, Refuse
<1>6. ASSUME NEW c \in ChallengeId, NEW p \in Participant, NEW m \in Move,
             SubmitMove(c, p, m)
      PROVE  (UNCHANGED ML!vars \/ ML!Next) /\ Fresh'
  BY <1>1, <1>6, MoveSim DEF SubmitMove, MoveRefused, Refuse
<1>7. CASE Tick
  BY <1>7, TickSim
<1>8. ASSUME NEW p \in Player, ClearDisconnectedPlayer(p)
      PROVE  (UNCHANGED ML!vars \/ ML!Next) /\ Fresh'
  <2>1. activeByPlayer[p] \in ChallengeId
    BY <1>8 DEF ClearDisconnectedPlayer, RefInv, IndInv, TypeOK
  <2> QED
    BY <1>8, <2>1, CloseVoidSim DEF ClearDisconnectedPlayer
<1>9. CASE Elapse
  BY <1>1, <1>9 DEF Elapse, TimePasses
<1>10. CASE UNCHANGED vars
  BY <1>1, <1>10 DEF vars
<1> QED
  BY <1>2, <1>3, <1>4, <1>5, <1>6, <1>7, <1>8, <1>9, <1>10 DEF Next

LEMMA InitSim == Init => ML!Init /\ Fresh
<1> SUFFICES ASSUME Init PROVE ML!Init /\ Fresh
  OBVIOUS
<1>1. \A c \in ChallengeId : challenges[c].status = "unused" /\ challenges[c].winner = Nobody
  BY DEF Init, Unused
<1>2. \A c \in ChallengeId : PhaseOf(challenges[c]) = "unused"
  BY <1>1 DEF PhaseOf
<1>3. Fresh
  BY <1>1 DEF Fresh
<1>4. /\ [c \in ChallengeId |-> PhaseOf(challenges[c])] = [c \in ChallengeId |-> "unused"]
      /\ [c \in ChallengeId |-> IF challenges[c].status = "unused" THEN {}
                                ELSE Parties(challenges[c])] = [c \in ChallengeId |-> {}]
      /\ [c \in ChallengeId |-> challenges[c].winner] = [c \in ChallengeId |-> Nobody]
  BY <1>1, <1>2
<1> QED
  BY <1>3, <1>4 DEF ML!Init

(* Seen without its index, the service is MatchLifecycle: it proposes only  *)
(* matches of parties that are not engaged, starts what was proposed, and   *)
(* closes what is unfinished, once, for a party or for nobody.             *)
THEOREM ServiceImplementsMatches == Safety => ML!Safety
<1>1. Init => RefInv
  BY InitInd, InitSim DEF RefInv
<1>2. RefInv /\ [Next]_vars => RefInv'
  BY IndStep, SimStep DEF RefInv
<1>3. RefInv /\ [Next]_vars => [ML!Next]_(ML!vars)
  BY SimStep
<1>4. Init => ML!Init
  BY InitSim
<1> QED
  BY <1>1, <1>2, <1>3, <1>4, PTL DEF Safety, ML!Safety
=============================================================================
