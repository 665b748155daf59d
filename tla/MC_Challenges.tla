---------------------------- MODULE MC_Challenges ----------------------------
(* An instance for TLC of matches, and of positions whose stakes are held in *)
(* escrow like theirs.  The engine is looked at twice: "matches" has two     *)
(* coin flips that may be under way at once, "games" one match of any game   *)
(* with any stake.  "dispatch" has one coin flip with everything the server  *)
(* does around the engine, "positions" a position and two settlement passes. *)
EXTENDS ChallengeDispatch, MarketPositions

CONSTANTS alice, bob

VARIABLE scope

MCTwo == {alice, bob}
(* One that becomes 0, one that is cut down to the largest.                  *)
MCWagers == {NotFinite, MaxWager + 1}

(* A cancelled market is settled like one without an outcome.                *)
MCReports == {Entry("open", "none"), Entry("resolved", "none"), Entry("resolved", "yes")}
MCStakes == [x \in Position |-> x]

matchesVars == <<scope, allVars, marketVars>>
aroundVars == <<creating, accepting, closing, escrowLocked, tx, rpcFaults, chainVars>>

Created == {c \in ChallengeId : c < counter'}

InEngine(A) ==
    scope \in {"matches", "games"} /\ A /\ UNCHANGED <<scope, aroundVars, marketVars>>

(* Next over the games, stakes and moves of a scope; the coin of the first   *)
(* challenge may be fixed.                                                   *)
EngineNext(games, wagers, moves) ==
    \/ \E p \in Player, q \in Participant, g \in games, w \in wagers :
          CreateChallenge(p, q, g, w)
    \/ \E side \in Coin : SetCoinflipResultOverride(1, side)
    \/ \E c \in ChallengeId, p \in Participant, accept \in BOOLEAN : Respond(c, p, accept)
    \/ \E c \in ChallengeId, status \in {"declined", "expired"} : AbortChallenge(c, status)
    \/ \E c \in ChallengeId, p \in Participant, m \in moves : SubmitMove(c, p, m)
    \/ Tick
    \/ \E p \in Player : ClearDisconnectedPlayer(p)
    \/ Elapse

InMatches == scope = "matches" /\ EngineNext({"coinflip"}, {1}, Coin)
InGames == scope = "games" /\ EngineNext(Game, WagerInput, Move) /\ counter' <= 2
InDispatch(A) ==
    /\ scope = "dispatch" /\ UNCHANGED <<scope, marketVars>>
    /\ A
    /\ counter' <= 2 /\ \A c \in Created : challenges'[c].game = "coinflip"

(* A position on "no" in the oracle's market, so that one that is decided    *)
(* either needs the house's wallet or gives both their stakes back.          *)
InPositions(A) ==
    /\ scope = "positions" /\ UNCHANGED <<scope, allVars>>
    /\ A
    /\ \A x \in Position : order'[x].stage \in {"quoted", "locking", "stored"} =>
                             order'[x].market # Fallback /\ order'[x].side = "no"
    /\ Fallback \notin due'

(* A guarantee has made the fallback before.  It may take the place of the   *)
(* other market in the lists until that one's close time has come.           *)
FallbackMade ==
    /\ oracle = [m \in OracleMarket |-> Entry("open", "none")]
    /\ delisted = {} /\ due = {}
    /\ row = [[m \in Market |-> Absent] EXCEPT ![Fallback] = Entry("open", "none")]
    /\ activation = [[m \in Market |-> NoRecord]
                       EXCEPT ![Fallback] = [active |-> TRUE, by |-> "system"]]
    /\ sync = [j \in SyncJob |-> SyncIdle] /\ ensure = [e \in EnsureJob |-> EnsureIdle]
    /\ adminActs = 0

MatchesInit ==
    /\ scope \in {"matches", "games", "dispatch", "positions"}
    /\ DispatchInit /\ FallbackMade /\ NoPositions
    /\ scope # "dispatch" => ~rpcFaults

MatchesNext ==
    \/ InEngine(InMatches)
    \/ InEngine(InGames)
    \/ InDispatch(DispatchNext)
    \/ InPositions(PositionsNext)

(* The fairness of the engine alone, with what is around it, and of the      *)
(* positions.                                                                *)
MatchesFairness ==
    /\ WF_matchesVars(InEngine(Tick)) /\ WF_matchesVars(InEngine(Elapse))
    /\ WF_matchesVars(InDispatch(MainLoopTick)) /\ WF_matchesVars(InDispatch(Clock))
    /\ \A c \in ChallengeId : WF_matchesVars(InDispatch(ServerStep(c)))
    /\ \A c \in ChallengeId, kind \in TxKind : WF_matchesVars(InDispatch(Mine(c, kind)))
    /\ \A j \in SyncJob :
          /\ WF_matchesVars(InPositions(SyncFetch(j) /\ UNCHANGED positionVars))
          /\ WF_matchesVars(InPositions(SyncStep(j) /\ UNCHANGED positionVars))
    /\ \A w \in Worker : WF_matchesVars(InPositions(PassStep(w)))

MatchesSpec == MatchesInit /\ [][MatchesNext]_matchesVars /\ MatchesFairness
=============================================================================
