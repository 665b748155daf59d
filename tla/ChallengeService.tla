-------------------------- MODULE ChallengeService --------------------------
(***************************************************************************)
(* The in-process challenge engine of a game server: the class             *)
(* ChallengeService of apps/server/src/ChallengeService.ts.                *)
(*                                                                         *)
(* Every method runs to completion on the event loop, so a method is one   *)
(* action.  What a method returns, the challenge events its caller then    *)
(* dispatches, is kept in the variable returned.                           *)
(*                                                                         *)
(* Time.  A challenge carries a deadline (expiresAt); the code compares it *)
(* with the clock only when the 50 ms main loop calls tick().  timer[c] is *)
(* the time left to the deadline, 0 once it has been reached; Elapse lets  *)
(* time pass and Tick is the call, so that an answer may still arrive      *)
(* between the deadline and the tick that notices it.                      *)
(***************************************************************************)
EXTENDS Integers, FiniteSets

CONSTANTS
    Player,         \* connected players and agents
    House,          \* 'system_house', which is never busy
    Nobody,         \* winnerId = null
    Game,           \* the game types offered
    DiceFace,       \* the faces of the die
    WagerInput,     \* the wagers clients send
    NotFinite,      \* a wager that is not a finite number
    MaxWager,       \* the largest wager accepted
    MaxChallenges,  \* bound: how many challenges are ever created
    PendingTicks,   \* pendingTimeoutMs, in units of Elapse
    ActiveTicks     \* activeResolveMs, in units of Elapse

ASSUME GameAssumption ==
    Game # {} /\ Game \subseteq {"rps", "coinflip", "dice_duel"}
ASSUME FaceAssumption ==
    DiceFace \subseteq {"d1", "d2", "d3", "d4", "d5", "d6"}
ASSUME HouseAssumption == House \notin Player /\ Nobody \notin Player \cup {House}
ASSUME BoundAssumption == MaxChallenges \in Nat
ASSUME TickAssumption == PendingTicks \in Nat /\ ActiveTicks \in Nat
ASSUME WagerAssumption ==
    /\ MaxWager \in Nat \ {0}
    /\ NotFinite \notin Int
    /\ WagerInput \subseteq Int \cup {NotFinite}

VARIABLES
    challenges,     \* challenges[c]: the record of challenge c
    timer,          \* timer[c]: time left to expiresAt of an open challenge c
    activeByPlayer, \* activeByPlayer[p]: the challenge p is busy with
    counter,        \* challengeCounter: the next id to hand out
    override,       \* coinflipResultOverride[c]
    returned        \* the events about challenges the last call returned

vars == <<challenges, timer, activeByPlayer, counter, override, returned>>

-----------------------------------------------------------------------------
(* Moves, results and records. *)

NoMove == "none"
RpsMove == {"rock", "paper", "scissors"}
Coin == {"heads", "tails"}

MovesOf(g) == IF g = "rps" THEN RpsMove
              ELSE IF g = "coinflip" THEN Coin ELSE DiceFace

Move == UNION {MovesOf(g) : g \in Game}

ChallengeId == 1 .. MaxChallenges
NoChallenge == 0
Participant == Player \cup {House}
Open == {"pending", "active"}
Closed == {"declined", "expired", "resolved"}

Challenge ==
    [status : {"unused"} \cup Open \cup Closed,
     challenger : Participant \cup {Nobody},
     opponent : Participant \cup {Nobody},
     game : Game,
     wager : 0 .. MaxWager,
     challengerMove : Move \cup {NoMove},
     opponentMove : Move \cup {NoMove},
     result : Coin \cup DiceFace \cup {NoMove},
     winner : Participant \cup {Nobody}]

Unused ==
    [status |-> "unused", challenger |-> Nobody, opponent |-> Nobody,
     game |-> CHOOSE g \in Game : TRUE, wager |-> 0,
     challengerMove |-> NoMove, opponentMove |-> NoMove,
     result |-> NoMove, winner |-> Nobody]

Event(name, c) == [event |-> name, challenge |-> c]
EventName == {"created", "accepted", "move_submitted"} \cup Closed

IsOpen(c) == challenges[c].status \in Open
Parties(ch) == {ch.challenger, ch.opponent}

(* The wager a challenge is created with: clamped, 1 when it is no number. *)
SafeWager(w) ==
    IF w = NotFinite THEN 1
    ELSE IF w < 0 THEN 0
    ELSE IF w > MaxWager THEN MaxWager
    ELSE w

-----------------------------------------------------------------------------
(* Who wins, given the moves of the challenger and of the opponent. *)

RpsWinner(ch) ==
    IF ch.challengerMove = ch.opponentMove THEN Nobody
    ELSE IF \/ ch.challengerMove = "rock" /\ ch.opponentMove = "scissors"
            \/ ch.challengerMove = "paper" /\ ch.opponentMove = "rock"
            \/ ch.challengerMove = "scissors" /\ ch.opponentMove = "paper"
         THEN ch.challenger
         ELSE ch.opponent

CoinflipWinner(ch, side) ==
    IF ch.challengerMove = ch.opponentMove THEN Nobody
    ELSE IF ch.challengerMove = side THEN ch.challenger
    ELSE IF ch.opponentMove = side THEN ch.opponent
    ELSE Nobody

(* Faulty variant of DiceDuelWinner: the challenger wins when both hit. *)
DiceDuelFirstHit(ch, face) ==
    IF ch.challengerMove = face THEN ch.challenger
    ELSE IF ch.opponentMove = face THEN ch.opponent
    ELSE Nobody

DiceDuelWinner(ch, face) ==
    IF ch.challengerMove = face <=> ch.opponentMove = face THEN Nobody
    ELSE IF ch.challengerMove = face THEN ch.challenger
    ELSE ch.opponent

(* The winner when both have moved; the result is what the coin or the die *)
(* shows, and no part of rock-paper-scissors.                              *)
Judge(ch, result) ==
    IF ch.game = "rps" THEN RpsWinner(ch)
    ELSE IF ch.game = "dice_duel" THEN DiceDuelWinner(ch, result)
    ELSE CoinflipWinner(ch, result)

(* The winner when the deadline passes: whoever moved alone. *)
TimeoutWinner(ch, result) ==
    IF ch.challengerMove # NoMove /\ ch.opponentMove # NoMove THEN Judge(ch, result)
    ELSE IF ch.challengerMove # NoMove THEN ch.challenger
    ELSE IF ch.opponentMove # NoMove THEN ch.opponent
    ELSE Nobody

(* What the coin or the die of challenge c may show.  The override of a    *)
(* dealer round fixes the coin; the die is drawn from seeds or at random.  *)
Results(c) ==
    IF challenges[c].game = "rps" THEN {NoMove}
    ELSE IF challenges[c].game = "dice_duel" THEN DiceFace
    ELSE IF override[c] # NoMove THEN {override[c]} ELSE Coin

-----------------------------------------------------------------------------
Init ==
    /\ challenges = [c \in ChallengeId |-> Unused]
    /\ timer = [c \in ChallengeId |-> 0]
    /\ activeByPlayer = [p \in Player |-> NoChallenge]
    /\ counter = 1
    /\ override = [c \in ChallengeId |-> NoMove]
    /\ returned = {}

(* A call that changes nothing: its answer, invalid or busy, names no       *)
(* challenge and goes back to the caller only.                             *)
Refuse ==
    /\ returned' = {}
    /\ UNCHANGED <<challenges, timer, activeByPlayer, counter, override>>

(* Faulty variant of LocksCleared: only the challenger is freed. *)
LocksClearedOneSided(cs) ==
    [p \in Player |-> IF \E c \in cs : p = challenges[c].challenger
                      THEN NoChallenge ELSE activeByPlayer[p]]

(* activeByPlayer after clearPlayerLocks of the challenges cs: the entries *)
(* of both parties go, whatever they hold.                                 *)
LocksCleared(cs) ==
    [p \in Player |-> IF \E c \in cs : p \in Parties(challenges[c])
                      THEN NoChallenge ELSE activeByPlayer[p]]

Busy(p) == p \in Player /\ activeByPlayer[p] # NoChallenge

-----------------------------------------------------------------------------
(* createChallenge(challengerId, opponentId, gameType, wager) *)

CreateRefused(p, q) ==
    /\ p = q \/ Busy(p) \/ Busy(q)
    /\ Refuse

CreateAccepted(p, q, g, w) ==
    /\ p # q
    /\ ~Busy(p) /\ ~Busy(q)
    /\ counter <= MaxChallenges
    /\ challenges' = [challenges EXCEPT ![counter] =
          [Unused EXCEPT !.status = "pending", !.challenger = p, !.opponent = q,
                         !.game = g, !.wager = SafeWager(w)]]
    /\ timer' = [timer EXCEPT ![counter] = PendingTicks]
    /\ activeByPlayer' = [x \in Player |-> IF x \in {p, q} THEN counter
                                                           ELSE activeByPlayer[x]]
    /\ counter' = counter + 1
    /\ returned' = {Event("created", counter)}
    /\ UNCHANGED override

CreateChallenge(p, q, g, w) ==
    CreateRefused(p, q) \/ CreateAccepted(p, q, g, w)

-----------------------------------------------------------------------------
(* setCoinflipResultOverride(challengeId, result): called by a dealer round *)
(* for a coinflip against the house, which may have closed by then.        *)

SetCoinflipResultOverride(c, side) ==
    /\ challenges[c].status \notin {"unused", "pending"}
    /\ challenges[c].game = "coinflip" /\ challenges[c].opponent = House
    /\ override' = [override EXCEPT ![c] = side]
    /\ returned' = {}
    /\ UNCHANGED <<challenges, timer, activeByPlayer, counter>>

-----------------------------------------------------------------------------
(* Faulty variant of CloseVoid: the challenger wins by default. *)
CloseVoidForfeit(c, status) ==
    /\ challenges' = [challenges EXCEPT ![c].status = status,
                                        ![c].winner = challenges[c].challenger]
    /\ timer' = [timer EXCEPT ![c] = 0]
    /\ activeByPlayer' = LocksCleared({c})
    /\ returned' = {Event(status, c)}
    /\ UNCHANGED <<counter, override>>

(* Challenge c closes without a winner: status and locks, nothing else. *)
CloseVoid(c, status) ==
    /\ challenges' = [challenges EXCEPT ![c].status = status]
    /\ timer' = [timer EXCEPT ![c] = 0]
    /\ activeByPlayer' = LocksCleared({c})
    /\ returned' = {Event(status, c)}
    /\ UNCHANGED <<counter, override>>

(* respond(challengeId, responderId, accept) *)

RespondRefused(c, p) ==
    /\ challenges[c].status # "pending" \/ challenges[c].opponent # p
    /\ Refuse

RespondDecline(c, p) ==
    /\ challenges[c].status = "pending" /\ challenges[c].opponent = p
    /\ CloseVoid(c, "declined")

RespondAccept(c, p) ==
    /\ challenges[c].status = "pending" /\ challenges[c].opponent = p
    /\ challenges' = [challenges EXCEPT ![c].status = "active"]
    /\ timer' = [timer EXCEPT ![c] = ActiveTicks]
    /\ returned' = {Event("accepted", c)}
    /\ UNCHANGED <<activeByPlayer, counter, override>>

Respond(c, p, accept) ==
    \/ RespondRefused(c, p)
    \/ accept /\ RespondAccept(c, p)
    \/ ~accept /\ RespondDecline(c, p)

-----------------------------------------------------------------------------
(* Faulty variant of AbortChallenge: a closed challenge is aborted again. *)
AbortAgain(c, status) ==
    \/ ~IsOpen(c) /\ Refuse
    \/ challenges[c].status # "unused" /\ CloseVoid(c, status)

(* abortChallenge(challengeId, status, reason) *)

AbortChallenge(c, status) ==
    \/ ~IsOpen(c) /\ Refuse
    \/ IsOpen(c) /\ CloseVoid(c, status)

-----------------------------------------------------------------------------
(* submitMove(challengeId, playerId, move) *)

MoveRefused(c, p, m) ==
    /\ \/ challenges[c].status # "active"
       \/ m \notin MovesOf(challenges[c].game)
       \/ p \notin Parties(challenges[c])
    /\ Refuse

(* The challenge with p's move written over whatever p chose before. *)
WithMove(c, p, m) ==
    IF p = challenges[c].challenger
    THEN [challenges[c] EXCEPT !.challengerMove = m]
    ELSE [challenges[c] EXCEPT !.opponentMove = m]

MoveRecorded(c, p, m) ==
    /\ challenges[c].status = "active"
    /\ p \in Parties(challenges[c])
    /\ m \in MovesOf(challenges[c].game)
    /\ LET moved == WithMove(c, p, m)
       IN  \/ /\ moved.challengerMove = NoMove \/ moved.opponentMove = NoMove
              /\ challenges' = [challenges EXCEPT ![c] = moved]
              /\ returned' = {Event("move_submitted", c)}
              /\ UNCHANGED <<activeByPlayer, timer, override>>
           \/ /\ moved.challengerMove # NoMove /\ moved.opponentMove # NoMove
              /\ \E result \in Results(c) :
                    challenges' = [challenges EXCEPT ![c] =
                       [moved EXCEPT !.status = "resolved", !.result = result,
                                     !.winner = Judge(moved, result)]]
              /\ override' = [override EXCEPT ![c] =
                                 IF moved.game = "coinflip" THEN NoMove ELSE @]
              /\ timer' = [timer EXCEPT ![c] = 0]
              /\ activeByPlayer' = LocksCleared({c})
              /\ returned' = {Event("resolved", c)}
    /\ UNCHANGED counter

SubmitMove(c, p, m) == MoveRefused(c, p, m) \/ MoveRecorded(c, p, m)

-----------------------------------------------------------------------------
(* tick(): every open challenge whose deadline has been reached closes, a  *)
(* pending one as expired, an active one as resolved by timeout.           *)

(* Faulty variant of Due: a match in progress never times out. *)
DuePending == {c \in ChallengeId : challenges[c].status = "pending" /\ timer[c] = 0}

Due == {c \in ChallengeId : IsOpen(c) /\ timer[c] = 0}
DueActive == {c \in Due : challenges[c].status = "active"}

Tick ==
    /\ Due # {}
    /\ \E result \in [DueActive -> Coin \cup DiceFace \cup {NoMove}] :
          /\ \A c \in DueActive : result[c] \in Results(c)
          /\ challenges' = [c \in ChallengeId |->
                IF c \in DueActive
                THEN [challenges[c] EXCEPT !.status = "resolved",
                         !.result = result[c],
                         !.winner = TimeoutWinner(challenges[c], result[c])]
                ELSE IF c \in Due THEN [challenges[c] EXCEPT !.status = "expired"]
                ELSE challenges[c]]
    /\ activeByPlayer' = LocksCleared(Due)
    /\ override' = [c \in ChallengeId |->
          IF c \in DueActive /\ challenges[c].game = "coinflip"
          THEN NoMove ELSE override[c]]
    /\ returned' = {Event(IF c \in DueActive THEN "resolved" ELSE "expired", c) :
                       c \in Due}
    /\ UNCHANGED <<timer, counter>>

-----------------------------------------------------------------------------
(* clearDisconnectedPlayer(playerId) *)

ClearDisconnectedPlayer(p) ==
    /\ activeByPlayer[p] # NoChallenge
    /\ IsOpen(activeByPlayer[p])
    /\ CloseVoid(activeByPlayer[p], "expired")

-----------------------------------------------------------------------------
(* now() advances. *)
TimePasses ==
    /\ timer' = [c \in ChallengeId |-> IF timer[c] > 0 THEN timer[c] - 1 ELSE 0]
    /\ returned' = {}
    /\ UNCHANGED <<challenges, activeByPlayer, counter, override>>

Elapse == (\E c \in ChallengeId : timer[c] > 0) /\ TimePasses

Next ==
    \/ \E p \in Player, q \in Participant, g \in Game, w \in WagerInput :
          CreateChallenge(p, q, g, w)
    \/ \E c \in ChallengeId, side \in Coin : SetCoinflipResultOverride(c, side)
    \/ \E c \in ChallengeId, p \in Participant, accept \in BOOLEAN :
          Respond(c, p, accept)
    \/ \E c \in ChallengeId, status \in {"declined", "expired"} :
          AbortChallenge(c, status)
    \/ \E c \in ChallengeId, p \in Participant, m \in Move : SubmitMove(c, p, m)
    \/ Tick
    \/ \E p \in Player : ClearDisconnectedPlayer(p)
    \/ Elapse

(* The main loop calls tick() every 50 ms and time passes; what players do *)
(* is never guaranteed.                                                    *)
Fairness == WF_vars(Tick) /\ WF_vars(Elapse)

Safety == Init /\ [][Next]_vars
Spec == Safety /\ Fairness

-----------------------------------------------------------------------------
TypeOK ==
    /\ challenges \in [ChallengeId -> Challenge]
    /\ timer \in [ChallengeId -> Nat]
    /\ activeByPlayer \in [Player -> ChallengeId \cup {NoChallenge}]
    /\ counter \in 1 .. MaxChallenges + 1
    /\ override \in [ChallengeId -> Coin \cup {NoMove}]
    /\ returned \subseteq [event : EventName, challenge : ChallengeId]

(* The player index and the challenges agree: a player is busy with exactly *)
(* the open challenges it is a party of.  Every method of ChallengeService  *)
(* maintains the two separately.                                            *)
LockCoherence ==
    \A p \in Player, c \in ChallengeId :
        activeByPlayer[p] = c <=> IsOpen(c) /\ p \in Parties(challenges[c])

(* One open challenge per player: two open challenges share at most the     *)
(* house.  This is what createChallenge's busy check is for.                *)
OneOpenChallenge ==
    \A c, d \in ChallengeId :
        c # d /\ IsOpen(c) /\ IsOpen(d) =>
            Parties(challenges[c]) \cap Parties(challenges[d]) \subseteq {House}

(* A reference for the rules of the three games: does move a beat move b,   *)
(* when the coin or the die shows r?                                        *)
Beats(g, a, b, r) ==
    IF g = "rps"
    THEN <<a, b>> \in {<<"rock", "scissors">>, <<"scissors", "paper">>,
                       <<"paper", "rock">>}
    ELSE a = r /\ b # r

(* Nobody wins without having moved, a void challenge has no winner, and    *)
(* the winner of a resolved one is the party whose move beats the other's,  *)
(* or the only party that moved: resolveRps, resolveCoinflip,               *)
(* resolveDiceDuel and the timeout branches of tick agree with the rules.   *)
OutcomeJustified ==
    \A c \in ChallengeId :
        LET ch == challenges[c]
            cm == ch.challengerMove
            om == ch.opponentMove
            cWins == \/ cm # NoMove /\ om = NoMove
                     \/ cm # NoMove /\ om # NoMove /\ Beats(ch.game, cm, om, ch.result)
            oWins == \/ om # NoMove /\ cm = NoMove
                     \/ cm # NoMove /\ om # NoMove /\ Beats(ch.game, om, cm, ch.result)
        IN  /\ ch.status # "resolved" => ch.winner = Nobody
            /\ ch.status = "resolved" =>
                  ch.winner = IF cWins THEN ch.challenger
                              ELSE IF oWins THEN ch.opponent ELSE Nobody

(* A closed challenge is final: no late answer, move, abort, tick or        *)
(* disconnect changes any of it.                                            *)
ClosedIsFinal ==
    [][\A c \in ChallengeId :
          challenges[c].status \in Closed => challenges'[c] = challenges[c]]_vars

(* Closing a challenge and returning its closing event are the same thing:  *)
(* the caller learns of every close, with the right status, exactly once,   *)
(* and of none that did not happen.  Escrow settlement hangs on this.       *)
CloseAnnouncedOnce ==
    [][\A c \in ChallengeId, s \in Closed :
          Event(s, c) \in returned' <=> IsOpen(c) /\ challenges'[c].status = s]_vars

(* A busy player is eventually free again, whatever the other players do,   *)
(* because time passes and tick() is called.                                *)
PlayerEventuallyFree == \A p \in Player : Busy(p) ~> ~Busy(p)

-----------------------------------------------------------------------------
(* The service implements MatchLifecycle: the index is replaced by what it  *)
(* stands for.                                                              *)

PhaseOf(ch) ==
    IF ch.status = "unused" THEN "unused"
    ELSE IF ch.status = "pending" THEN "proposed"
    ELSE IF ch.status = "active" THEN "playing"
    ELSE IF ch.status = "resolved" THEN "decided" ELSE "void"

ML == INSTANCE MatchLifecycle WITH
    MatchId <- ChallengeId,
    phase <- [c \in ChallengeId |-> PhaseOf(challenges[c])],
    parties <- [c \in ChallengeId |->
                   IF challenges[c].status = "unused" THEN {}
                   ELSE Parties(challenges[c])],
    winner <- [c \in ChallengeId |-> challenges[c].winner]

(* Every behaviour of the service is a behaviour of MatchLifecycle; its     *)
(* guard on Propose speaks of the challenges, the code's of the index.      *)
ImplementsMatchLifecycle == ML!Spec
=============================================================================
