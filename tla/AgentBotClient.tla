-------------------------- MODULE AgentBotClient ---------------------------
(* One bot of the agent runtime as a client of the game server: its socket,  *)
(* its reconnect timer, its decision loop, and its answers to challenges.    *)
(* agent-runtime/src/AgentBot.ts.  The events of a socket that has been      *)
(* closed still arrive after the bot has opened another one.                 *)
EXTENDS Integers, FiniteSets

CONSTANTS
    Socket,         \* sockets that exist at the same time; a closed one is used again
    Offered,        \* challenges another player sends to the bot
    MaxDrops,       \* bound on connections that fail or are dropped by the server
    MaxRenames      \* bound on new display names

NoSocket == "none"
ASSUME SocketAssumption == NoSocket \notin Socket

VARIABLES
    registered,     \* the bot is in the registry of the runtime
    running, ws, connected,
    looping,        \* decisionTimer # null
    timerSet,       \* reconnectTimer # null
    timers,         \* the reconnect timers that are set, those it has lost track of included
    welcomed,       \* playerId # null
    challengeEnabled,
    socketState,     \* socket -> its state
    answer,         \* challenge -> its answer on the way
    submitted,      \* submittedMoveByChallenge
    move,           \* challenge -> its move on the way
    drops,
    renames         \* how often the bot has been renamed while it was connected

linkVars == <<registered, running, ws, connected, looping, timerSet, timers, welcomed>>
matchVars == <<challengeEnabled, answer, submitted, move>>
agentVars == <<linkVars, matchVars, socketState, drops, renames>>

AgentInit ==
    /\ registered = TRUE /\ running = FALSE /\ ws = NoSocket /\ connected = FALSE /\ looping = FALSE
    /\ timerSet = FALSE /\ timers = 0 /\ welcomed = FALSE
    /\ challengeEnabled = FALSE
    /\ socketState = [s \in Socket |-> "closed"]
    /\ answer = [c \in Offered |-> "none"]
    /\ move = answer
    /\ submitted = {}
    /\ drops = 0
    /\ renames = 0

Free == {s \in Socket : socketState[s] = "closed"}
Live == {s \in Socket : socketState[s] \in {"connecting", "open"}}
CanSend == ws # NoSocket /\ socketState[ws] = "open"

-----------------------------------------------------------------------------
(* connect(): nothing while there is a socket.  The new socket is one that   *)
(* is closed in states, the sockets as the caller has left them.             *)
connect(states) ==
    \E s \in Free : ws' = s /\ socketState' = [states EXCEPT ![s] = "connecting"]
(* Faulty variant of connectUnlessOpen: the state of the socket is not looked at. *)
connectAlways == connect(socketState)

connectUnlessOpen == IF ws = NoSocket THEN connect(socketState) ELSE UNCHANGED <<ws, socketState>>

(* stop(), of a bot that is removed from the registry or renamed: the close  *)
(* of the socket is only asked for, its event comes later.                   *)
Closing == IF ws = NoSocket THEN socketState ELSE [socketState EXCEPT ![ws] = "closing"]
ClearTimers ==
    /\ connected' = FALSE /\ looping' = FALSE /\ timerSet' = FALSE
    /\ timers' = IF timerSet THEN timers - 1 ELSE timers

stop ==
    /\ registered
    /\ registered' = FALSE /\ running' = FALSE /\ ws' = NoSocket /\ socketState' = Closing
    /\ ClearTimers
    /\ UNCHANGED <<welcomed, matchVars, drops, renames>>

(* updateDisplayName of a connected bot: stop(); start().                    *)
updateDisplayName ==
    /\ registered /\ connected
    /\ renames < MaxRenames
    /\ connect(Closing)
    /\ ClearTimers
    /\ renames' = renames + 1
    /\ UNCHANGED <<registered, running, welcomed, matchVars, drops>>

(* ensureActive(), called by every delegation of the super agent; it and     *)
(* createBot start a bot that is not running.                                *)
ensureActive ==
    /\ registered /\ ~connected /\ ws = NoSocket
    /\ ~running \/ ~timerSet
    /\ running' = TRUE
    /\ connect(socketState)
    /\ UNCHANGED <<registered, connected, looping, timerSet, timers, welcomed, matchVars, drops,
                   renames>>

reconnectTimer ==
    /\ timers > 0
    /\ timers' = timers - 1
    /\ timerSet' = FALSE
    /\ IF running THEN connectUnlessOpen ELSE UNCHANGED <<ws, socketState>>
    /\ UNCHANGED <<registered, running, connected, looping, welcomed, matchVars, drops, renames>>

-----------------------------------------------------------------------------
(* The events of a socket.                                                   *)
onOpen(s) ==
    /\ socketState[s] = "connecting"
    /\ socketState' = [socketState EXCEPT ![s] = "open"]
    /\ connected' = TRUE /\ ws' = s /\ looping' = TRUE
    /\ UNCHANGED <<registered, running, timerSet, timers, welcomed, matchVars, drops, renames>>

(* Faulty variant of SocketAfterClose: the closed socket is kept. *)
SocketAfterCloseKept(s) == ws

SocketAfterClose(s) == IF ws = s THEN NoSocket ELSE ws

onClose(s) ==
    /\ socketState' = [socketState EXCEPT ![s] = "closed"]
    /\ connected' = FALSE
    /\ ws' = SocketAfterClose(s)
    /\ welcomed' = FALSE /\ submitted' = {} /\ looping' = FALSE
    /\ IF running THEN timerSet' = TRUE /\ timers' = timers + 1 ELSE UNCHANGED <<timerSet, timers>>
    /\ UNCHANGED <<registered, running, challengeEnabled, answer, move, renames>>

ClosingDone(s) == socketState[s] = "closing" /\ onClose(s) /\ UNCHANGED drops

(* The server cannot be reached, refuses the bot or closes its connection.   *)
Dropped(s) ==
    /\ socketState[s] \in {"connecting", "open"}
    /\ drops < MaxDrops
    /\ drops' = drops + 1
    /\ onClose(s)

onWelcome(s) ==
    /\ socketState[s] \in {"open", "closing"}
    /\ ~welcomed
    /\ welcomed' = TRUE
    /\ UNCHANGED <<registered, running, ws, connected, looping, timerSet, timers, matchVars,
                   socketState, drops, renames>>

-----------------------------------------------------------------------------
(* handleChallengeEvent.  A bot that takes no part declines; what it will    *)
(* answer is decided at once and sent later.  A bot that is not passive may  *)
(* decline as it likes.                                                      *)
AnswersOf(enabled) == IF enabled THEN {"accept", "decline"} ELSE {"decline"}

onCreated(c) ==
    /\ CanSend /\ welcomed
    /\ answer[c] = "none"
    /\ \E a \in AnswersOf(challengeEnabled) : answer' = [answer EXCEPT ![c] = a]
    /\ UNCHANGED <<linkVars, socketState, challengeEnabled, submitted, move, drops, renames>>

AnswerChallenge(c) ==
    /\ answer[c] \in {"accept", "decline"}
    /\ answer' = [answer EXCEPT ![c] =
            IF ~CanSend THEN "unsent" ELSE IF @ = "accept" THEN "accepted" ELSE "declined"]
    /\ UNCHANGED <<linkVars, socketState, challengeEnabled, submitted, move, drops, renames>>

(* maybeSubmitGameMove, for an accepted challenge and for every move         *)
(* submitted to it; the server may know the move already.                    *)
onAccepted(c, existingMove) ==
    /\ CanSend /\ welcomed
    /\ answer[c] = "accepted"
    /\ c \notin submitted
    /\ existingMove => move[c] = "sent"
    /\ submitted' = submitted \cup {c}
    /\ move' = IF existingMove THEN move ELSE [move EXCEPT ![c] = "chosen"]
    /\ UNCHANGED <<linkVars, socketState, challengeEnabled, answer, drops, renames>>

SubmitAgentMove(c) ==
    /\ move[c] = "chosen"
    /\ move' = [move EXCEPT ![c] = IF CanSend THEN "sent" ELSE "none"]
    /\ UNCHANGED <<linkVars, socketState, challengeEnabled, answer, submitted, drops, renames>>

(* A resolved, declined or expired challenge is forgotten.                   *)
onEnded(c) ==
    /\ CanSend /\ welcomed
    /\ answer[c] \in {"accepted", "declined", "unsent"} /\ move[c] # "chosen"
    /\ submitted' = submitted \ {c}
    /\ answer' = [answer EXCEPT ![c] = "none"]
    /\ move' = [move EXCEPT ![c] = "none"]
    /\ UNCHANGED <<linkVars, socketState, challengeEnabled, drops, renames>>

updateBehavior ==
    /\ challengeEnabled' = ~challengeEnabled
    /\ UNCHANGED <<linkVars, socketState, answer, submitted, move, drops, renames>>

AgentNext ==
    \/ stop \/ updateDisplayName \/ ensureActive \/ reconnectTimer \/ updateBehavior
    \/ \E s \in Socket : onOpen(s) \/ ClosingDone(s) \/ Dropped(s) \/ onWelcome(s)
    \/ \E c \in Offered : onCreated(c) \/ AnswerChallenge(c) \/ SubmitAgentMove(c) \/ onEnded(c)
    \/ \E c \in Offered, b \in BOOLEAN : onAccepted(c, b)

(* Timers run, a socket opens or closes in the end, the server welcomes who  *)
(* has connected, and the delegation of the super agent is periodic.         *)
AgentFairness ==
    /\ WF_agentVars(ensureActive) /\ WF_agentVars(reconnectTimer)
    /\ \A s \in Socket : WF_agentVars(onOpen(s)) /\ WF_agentVars(ClosingDone(s))
    /\ \A c \in Offered : WF_agentVars(AnswerChallenge(c)) /\ WF_agentVars(SubmitAgentMove(c))

AgentSpec == AgentInit /\ [][AgentNext]_agentVars /\ AgentFairness

-----------------------------------------------------------------------------
(* The bot is never on two connections at once: none of its timers opens a   *)
(* second one, and the one it has let go of is closing.                      *)
OneSocket == Cardinality(Live) <= 1 /\ (Live # {} => Live = {ws})

(* A running bot that loses its connection is connected again, with its      *)
(* decision loop, unless it has been renamed.                                *)
Reconnects == running ~> ((connected /\ looping) \/ ~running \/ renames > 0)
=============================================================================
