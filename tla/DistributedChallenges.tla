------------------------ MODULE DistributedChallenges ------------------------
(***************************************************************************)
(* Several game servers over one Redis: the player locks, the challenge    *)
(* metadata and the server heartbeats of DistributedChallengeStore.ts and  *)
(* PresenceStore.ts, the commands forwarded to the owner of a challenge    *)
(* (DistributedBus.ts), crashes, and the sweep that expires the challenges *)
(* of servers that are gone (index.ts, expireOrphanedChallenges).          *)
(*                                                                         *)
(* Each server runs its own engine.  Here an engine is taken at the level  *)
(* of MatchLifecycle, which ChallengeService implements: a player is busy  *)
(* on a server exactly with that server's open matches.                    *)
(*                                                                         *)
(* A handler that awaits Redis is a job.  A server sends its commands over *)
(* one connection, so they are executed in the order they were issued:     *)
(* queue[s] holds the job whose command is next, each with its step.       *)
(* Executing a command runs the job on to its next command, which is then  *)
(* issued behind those already waiting.  Jobs that await the chain are in  *)
(* onChain[s].                                                             *)
(*                                                                         *)
(* Redis answers within milliseconds, deadlines and expiries are seconds:  *)
(* Clock waits until no command is queued and no sweep is under way, until *)
(* tick(), which runs every 50 ms, has closed what is due, and, as         *)
(* heartbeats are sent every 2 s and live for 40 s, until every running    *)
(* server has sent one.                                                    *)
(***************************************************************************)
EXTENDS Integers, Sequences, FiniteSets, SequencesExt

CONSTANTS
    Server, Player,
    Targets,        \* who is challenged, players or the house
    House,          \* 'system_house', whose matches take no player lock
    Nobody, NoServer,
    MaxChallenges,  \* bound: how many challenges are ever created
    PendingTicks,   \* pendingTimeoutMs, in units of Clock
    ActiveTicks,    \* activeResolveMs
    LockTicks,      \* ttl of a player lock: max(6000, pendingTimeoutMs)
    BeatTicks,      \* ttl of a server's heartbeat, 10 s or more
    GraceTicks,     \* challengeOrphanGraceMs
    Roaming,        \* bound: may players reconnect to a server?
    MaxCrashes,     \* bound: how often servers crash
    MaxCommands,    \* bound: commands in flight between servers
    Late,           \* servers that start after the others
    Wagers,         \* {FALSE, TRUE}: are there unstaked, staked challenges?
    FixedIds        \* SERVER_INSTANCE_ID is set: a restarted server keeps its id

ASSUME DistributedAssumption ==
    /\ House \notin Player /\ Nobody \notin Player \cup {House}
    /\ NoServer \notin Server /\ Targets \subseteq Player \cup {House}
    /\ MaxChallenges \in Nat /\ PendingTicks \in Nat /\ ActiveTicks \in Nat
    /\ LockTicks \in Nat \ {0} /\ BeatTicks \in Nat \ {0, 1} /\ GraceTicks \in Nat \ {0}
    /\ PendingTicks <= LockTicks
    /\ MaxCommands \in Nat /\ MaxCrashes \in Nat /\ Late \subseteq Server
    /\ Wagers \subseteq BOOLEAN /\ FixedIds \in BOOLEAN /\ Roaming \in BOOLEAN

VARIABLES
    match,      \* match[c]: parties, owner, stake and phase of challenge c
    timer,      \* timer[c]: time left to its deadline
    moved,      \* moved[c]: the parties that have moved
    announced,  \* challenges the players have been told of
    escrowed,   \* escrowLockedChallenges of the owner
    run,        \* run[s]: "new", "up" or "down"
    home,       \* home[p]: the server p is connected to
    queue,      \* queue[s]: jobs with a Redis command issued, in order
    onChain,    \* onChain[s]: jobs that await the chain
    sweep,      \* sweep[s]: orphans the sweep of s has read and not yet expired
    lock,       \* arena:lock:player:p, [challenge, server]
    lockTtl,
    meta,       \* arena:challenge:c, what its status field says
    age,        \* age[c]: time since its updatedAt, up to GraceTicks
    beat,       \* arena:server:s, time left to its expiry
    commands,   \* commands published to servers and not yet received
    crashes,    \* how often a server has crashed
    told        \* challenges whose players were told owner_failover_expired

nodes == <<run, crashes>>
serverVars == <<match, timer, moved, announced, escrowed, nodes, home, queue, onChain>>
redisVars == <<lock, lockTtl, meta, age, beat>>
vars == <<serverVars, redisVars, sweep, commands, told>>

ChallengeId == 1 .. MaxChallenges
NoLock == [challenge |-> 0, server |-> NoServer]
Lock(c, s) == [challenge |-> c, server |-> s]
Unused == [phase |-> "unused", challenger |-> Nobody, opponent |-> Nobody,
           owner |-> NoServer, staked |-> FALSE]
Open == {"pending", "active"}

Parties(c) == {match[c].challenger, match[c].opponent}
Owner(c) == match[c].owner
IsOpen(c) == match[c].phase \in Open
OpenAt(s) == {c \in ChallengeId : IsOpen(c) /\ Owner(c) = s}
BusyAt(s, p) == p # House /\ \E c \in OpenAt(s) : p \in Parties(c)
Fresh == {c \in ChallengeId : match[c].phase = "unused"}
NextId == CHOOSE c \in Fresh : \A d \in Fresh : c <= d

Init ==
    /\ match = [c \in ChallengeId |-> Unused]
    /\ timer = [c \in ChallengeId |-> 0]
    /\ moved = [c \in ChallengeId |-> {}]
    /\ announced = {} /\ escrowed = {} /\ commands = {} /\ told = {} /\ crashes = 0
    /\ run = [s \in Server |-> IF s \in Late THEN "new" ELSE "up"]
    /\ home \in [Player -> Server \ Late]
    /\ queue = [s \in Server |-> <<>>]
    /\ onChain = [s \in Server |-> {}]
    /\ sweep = [s \in Server |-> {}]
    /\ lock = [p \in Player |-> NoLock]
    /\ lockTtl = [p \in Player |-> 0]
    /\ meta = [c \in ChallengeId |-> "none"]
    /\ age = [c \in ChallengeId |-> 0]
    /\ beat = [s \in Server |-> IF s \in Late THEN 0 ELSE BeatTicks]

-----------------------------------------------------------------------------
(* Jobs: handlers between two awaits. *)

Job(c, fn, step) == [c |-> c, fn |-> fn, step |-> step]
AnyJob == [c : ChallengeId, fn : {"create", "accept", "move", "close", "counter"},
           step : {"lockFirst", "lockSecond", "probeFirst", "probeSecond", "rollback",
                   "register", "push", "trim", "status", "getFirst", "delFirst",
                   "getSecond", "delSecond", "clear"}]
CreateJob(c, opponent) ==
    Job(c, "create", IF opponent = House THEN "register" ELSE "lockFirst")

(* A handler called outside any job issues its first command. *)
Issued(s, job) == [queue EXCEPT ![s] = Append(@, job)]

(* The job at the head of the queue goes on, or ends. *)
At(s, step) == run[s] = "up" /\ queue[s] # <<>> /\ Head(queue[s]).step = step
HeadOf(s) == Head(queue[s])
Continued(s, fn, step) ==
    [queue EXCEPT ![s] = Append(Tail(@), Job(HeadOf(s).c, fn, step))]
Ended(s) == [queue EXCEPT ![s] = Tail(@)]
GoOn(s, step) == queue' = Continued(s, HeadOf(s).fn, step)

-----------------------------------------------------------------------------
(* The engine of the owner, and the handlers that call it.                 *)

Created(s, p, q, staked) ==
    [match EXCEPT ![NextId] = [phase |-> "pending", challenger |-> p, opponent |-> q,
                               owner |-> s, staked |-> staked]]

(* challenge_send, or the pick of a dealer round, of a player connected to  *)
(* s, or one that left while its target and its wallet were looked up; the  *)
(* target's presence record may outlive its connection.                     *)
Send(s, p, q, staked) ==
    /\ run[s] = "up" /\ home[p] \in {s, NoServer}
    /\ p # q
    /\ ~BusyAt(s, p) /\ ~BusyAt(s, q)
    /\ Fresh # {}
    /\ match' = Created(s, p, q, staked)
    /\ timer' = [timer EXCEPT ![NextId] = PendingTicks]
    /\ queue' = Issued(s, CreateJob(NextId, q))
    /\ UNCHANGED <<moved, announced, escrowed, nodes, home, onChain, redisVars,
                   sweep, commands, told>>

(* c closes and the dispatch of its closing event starts. *)
Closes(s, c, phase, fn) ==
    /\ match' = [match EXCEPT ![c].phase = phase]
    /\ timer' = [timer EXCEPT ![c] = 0]
    /\ queue' = Issued(s, Job(c, fn, "push"))

Answer == {"accept", "decline", "counter", "move"}

Valid(c, p, answer) ==
    IF answer = "move" THEN match[c].phase = "active" /\ p \in Parties(c)
    ELSE match[c].phase = "pending" /\ p = match[c].opponent

(* Bound: a party that has moved moves again only when s has no job queued. *)
MoveBound(s, c, p) == p \notin moved[c] \/ queue[s] = <<>>

(* What the owner does with an answer of p: its own player's or one that    *)
(* another server forwarded.                                                *)
Handle(s, c, p, answer) ==
    /\ Valid(c, p, answer)
    /\ \/ /\ answer = "accept"
          /\ match' = [match EXCEPT ![c].phase = "active"]
          /\ timer' = [timer EXCEPT ![c] = ActiveTicks]
          /\ queue' = Issued(s, Job(c, "accept", "push"))
          /\ UNCHANGED moved
       \/ answer = "decline" /\ Closes(s, c, "void", "close") /\ UNCHANGED moved
       \/ answer = "counter" /\ Closes(s, c, "void", "counter") /\ UNCHANGED moved
       \/ /\ answer = "move" /\ MoveBound(s, c, p)
          /\ moved' = [moved EXCEPT ![c] = @ \cup {p}]
          /\ IF moved[c] \cup {p} = Parties(c) THEN Closes(s, c, "resolved", "close")
             ELSE /\ queue' = Issued(s, Job(c, "move", "push"))
                  /\ UNCHANGED <<match, timer>>
    /\ UNCHANGED <<announced, escrowed, nodes, home, onChain, redisVars, sweep, told>>

(* An answer of a player connected to the owner, or of the house. *)
AnswerHere(s, c, p, answer) ==
    /\ run[s] = "up" /\ c \in announced /\ Owner(c) = s
    /\ IF p = House THEN answer \in {"accept", "move"} ELSE home[p] = s
    /\ Handle(s, c, p, answer)
    /\ UNCHANGED commands

(* An answer of a player connected elsewhere: the owner is looked up in the *)
(* metadata and sent a command, which only a running server receives.       *)
(* Bound: only answers that are due when they are sent, and one move of     *)
(* each party; they may be stale when they arrive.                          *)
Forward(s, c, p, answer) ==
    /\ run[s] = "up" /\ home[p] = s /\ c \in announced
    /\ Valid(c, p, answer) /\ (answer = "move" => p \notin moved[c])
    /\ Owner(c) # s /\ meta[c] \in {"open", "closed"}
    /\ run[Owner(c)] = "up" /\ Cardinality(commands) < MaxCommands
    /\ commands' = commands \cup {[c |-> c, actor |-> p, answer |-> answer]}
    /\ UNCHANGED <<serverVars, redisVars, sweep, told>>

Receive(m) ==
    /\ commands' = commands \ {m}
    /\ \/ Handle(Owner(m.c), m.c, m.actor, m.answer)
       \/ /\ ~Valid(m.c, m.actor, m.answer)
          /\ UNCHANGED <<serverVars, redisVars, sweep, told>>

Due(s) == {c \in OpenAt(s) : timer[c] = 0}

(* tick() of one server. *)
Tick(s) ==
    LET due == Due(s)
    IN  /\ run[s] = "up" /\ due # {}
        /\ match' = [c \in ChallengeId |->
              IF c \in due
              THEN [match[c] EXCEPT !.phase = IF @ = "active" THEN "resolved" ELSE "void"]
              ELSE match[c]]
        /\ queue' = [queue EXCEPT ![s] = @ \o
                        SetToSeq({Job(c, "close", "push") : c \in due})]
        /\ UNCHANGED <<timer, moved, announced, escrowed, nodes, home, onChain, redisVars,
                       sweep, commands, told>>

(* A socket closes: its server drops the player's match, if it owns it.     *)
Disconnect(p) ==
    LET s == home[p]
        mine == {c \in OpenAt(s) : p \in Parties(c)}
    IN  /\ s # NoServer
        /\ home' = [home EXCEPT ![p] = NoServer]
        /\ \/ mine = {} /\ UNCHANGED <<match, timer, queue>>
           \/ \E c \in mine : Closes(s, c, "void", "close")
        /\ UNCHANGED <<moved, announced, escrowed, nodes, onChain, redisVars, sweep,
                       commands, told>>

Connect(p, s) ==
    /\ Roaming /\ home[p] = NoServer /\ run[s] = "up"
    /\ home' = [home EXCEPT ![p] = s]
    /\ UNCHANGED <<match, timer, moved, announced, escrowed, nodes, queue, onChain,
                   redisVars, sweep, commands, told>>

-----------------------------------------------------------------------------
(* Registration: tryLockPlayers, registerChallenge.                         *)

NotRedis == <<moved, announced, escrowed, nodes, home, onChain, sweep, commands, told>>
UnlessMatch == <<match, timer>>

(* Faulty variant of SetLock: without NX. *)
SetLockAlways(s, p, won, lost) ==
    /\ lock' = [lock EXCEPT ![p] = Lock(HeadOf(s).c, s)]
    /\ lockTtl' = [lockTtl EXCEPT ![p] = LockTicks]
    /\ GoOn(s, won)

(* SET NX PX *)
SetLock(s, p, won, lost) ==
    IF lock[p] = NoLock
    THEN /\ lock' = [lock EXCEPT ![p] = Lock(HeadOf(s).c, s)]
         /\ lockTtl' = [lockTtl EXCEPT ![p] = LockTicks]
         /\ GoOn(s, won)
    ELSE GoOn(s, lost) /\ UNCHANGED <<lock, lockTtl>>

LockFirst(s) ==
    /\ At(s, "lockFirst")
    /\ SetLock(s, match[HeadOf(s).c].challenger, "lockSecond", "probeFirst")
    /\ UNCHANGED <<meta, age, beat, UnlessMatch, NotRedis>>

LockSecond(s) ==
    /\ At(s, "lockSecond")
    /\ SetLock(s, match[HeadOf(s).c].opponent, "register", "probeSecond")
    /\ UNCHANGED <<meta, age, beat, UnlessMatch, NotRedis>>

(* Not locked: the challenge is aborted and its closing event dispatched,   *)
(* unless it has closed meanwhile.                                          *)
Refuse(s) ==
    LET c == HeadOf(s).c
    IN  IF IsOpen(c)
        THEN /\ match' = [match EXCEPT ![c].phase = "void"]
             /\ timer' = [timer EXCEPT ![c] = 0]
             /\ queue' = Continued(s, "close", "push")
        ELSE queue' = Ended(s) /\ UNCHANGED UnlessMatch

ProbeFirst(s) ==
    /\ At(s, "probeFirst")
    /\ Refuse(s)
    /\ UNCHANGED <<redisVars, NotRedis>>

(* Another challenge holds the second lock: the first is deleted. *)
ProbeSecond(s) ==
    /\ At(s, "probeSecond")
    /\ GoOn(s, "rollback")
    /\ UNCHANGED <<redisVars, UnlessMatch, NotRedis>>

(* DEL of the first lock, whoever holds it by now. *)
Rollback(s) ==
    LET p == match[HeadOf(s).c].challenger
    IN  /\ At(s, "rollback")
        /\ lock' = [lock EXCEPT ![p] = NoLock]
        /\ lockTtl' = [lockTtl EXCEPT ![p] = 0]
        /\ Refuse(s)
        /\ UNCHANGED <<meta, age, beat, NotRedis>>

Register(s) ==
    /\ At(s, "register")
    /\ meta' = [meta EXCEPT ![HeadOf(s).c] = "open"]
    /\ age' = [age EXCEPT ![HeadOf(s).c] = 0]
    /\ GoOn(s, "push")
    /\ UNCHANGED <<lock, lockTtl, beat, UnlessMatch, NotRedis>>

-----------------------------------------------------------------------------
(* dispatchChallengeEventWithEscrow: appendHistory (LPUSH, LTRIM), then     *)
(* updateStatus, then what the event asks for.                              *)

AppendHistory(s) ==
    /\ \/ At(s, "push") /\ GoOn(s, "trim")
       \/ At(s, "trim") /\ GoOn(s, "status")
    /\ UNCHANGED <<redisVars, UnlessMatch, NotRedis>>

(* The counter-offer: declined and dispatched, c is challenged back. *)
Counter(s, c) ==
    LET p == match[c].opponent
        q == match[c].challenger
    IN  IF BusyAt(s, p) \/ BusyAt(s, q) \/ Fresh = {}
        THEN queue' = Ended(s) /\ UNCHANGED UnlessMatch
        ELSE /\ match' = Created(s, p, q, TRUE)
             /\ timer' = [timer EXCEPT ![NextId] = PendingTicks]
             /\ queue' = [queue EXCEPT ![s] = Append(Tail(@), CreateJob(NextId, q))]

(* The dispatch of a closing event is over. *)
Finish(s) ==
    IF HeadOf(s).fn = "counter" THEN Counter(s, HeadOf(s).c)
    ELSE queue' = Ended(s) /\ UNCHANGED UnlessMatch

(* The dispatch goes on after the chain has answered. *)
Await(s) ==
    /\ queue' = Ended(s)
    /\ onChain' = [onChain EXCEPT ![s] = @ \cup {HeadOf(s)}]
    /\ UNCHANGED UnlessMatch

(* HSET of status and updatedAt, which creates the hash if there is none.   *)
UpdateStatus(s) ==
    LET j == HeadOf(s)
        closing == j.fn \in {"close", "counter"}
    IN  /\ At(s, "status")
        /\ meta' = [meta EXCEPT ![j.c] = IF @ \in {"none", "partial"} THEN "partial"
                                         ELSE IF closing THEN "closed" ELSE "open"]
        /\ age' = [age EXCEPT ![j.c] = 0]
        /\ \/ /\ j.fn = "create"
              /\ announced' = announced \cup {j.c}
              /\ queue' = Ended(s) /\ UNCHANGED <<UnlessMatch, onChain>>
           \/ /\ j.fn \in IF match[j.c].staked THEN {"move"} ELSE {"move", "accept"}
              /\ queue' = Ended(s) /\ UNCHANGED <<UnlessMatch, onChain, announced>>
           \/ /\ j.fn = "accept" /\ match[j.c].staked
              /\ Await(s) /\ UNCHANGED announced
           \/ /\ closing /\ ~match[j.c].staked
              /\ GoOn(s, "getFirst") /\ UNCHANGED <<UnlessMatch, onChain, announced>>
           \/ /\ closing /\ match[j.c].staked /\ j.c \in escrowed
              /\ Await(s) /\ UNCHANGED announced
           \/ /\ closing /\ match[j.c].staked /\ j.c \notin escrowed
              /\ Finish(s) /\ UNCHANGED <<onChain, announced>>
        /\ UNCHANGED <<lock, lockTtl, beat, moved, escrowed, nodes, home, sweep, commands, told>>

(* lockStake returns: the stakes are locked, the policy forbids it and the  *)
(* match goes on, or the challenge is aborted without any dispatch.         *)
StakeReturns(s, j) ==
    /\ j \in onChain[s] /\ j.fn = "accept"
    /\ onChain' = [onChain EXCEPT ![s] = @ \ {j}]
    /\ \/ escrowed' = escrowed \cup {j.c} /\ UNCHANGED UnlessMatch
       \/ UNCHANGED <<escrowed, UnlessMatch>>
       \/ /\ IsOpen(j.c)
          /\ match' = [match EXCEPT ![j.c].phase = "void"]
          /\ timer' = [timer EXCEPT ![j.c] = 0]
          /\ UNCHANGED escrowed
    /\ UNCHANGED <<moved, announced, nodes, home, queue, redisVars, sweep, commands, told>>

(* resolve or refund returns. *)
SettlementReturns(s, j) ==
    /\ j \in onChain[s] /\ j.fn # "accept"
    /\ onChain' = [onChain EXCEPT ![s] = @ \ {j}]
    /\ escrowed' = escrowed \ {j.c}
    /\ queue' = Issued(s, Job(j.c, j.fn, "getFirst"))
    /\ UNCHANGED <<UnlessMatch, moved, announced, nodes, home, redisVars, sweep, commands, told>>

(* releasePlayers: GET, and DEL if the value is the server's own.           *)
GetLock(s, step, p, hit, miss) ==
    /\ At(s, step)
    /\ GoOn(s, IF lock[p] = Lock(HeadOf(s).c, s) THEN hit ELSE miss)
    /\ UNCHANGED <<redisVars, UnlessMatch, NotRedis>>

DelLock(s, step, p, next) ==
    /\ At(s, step)
    /\ lock' = [lock EXCEPT ![p] = NoLock]
    /\ lockTtl' = [lockTtl EXCEPT ![p] = 0]
    /\ GoOn(s, next)
    /\ UNCHANGED <<meta, age, beat, UnlessMatch, NotRedis>>

(* Faulty variant of ReleasePlayers: only the challenger is released. *)
ReleaseFirst(s) ==
    /\ queue[s] # <<>>
    /\ \/ GetLock(s, "getFirst", match[HeadOf(s).c].challenger, "delFirst", "clear")
       \/ DelLock(s, "delFirst", match[HeadOf(s).c].challenger, "clear")

ReleasePlayers(s) ==
    /\ queue[s] # <<>>
    /\ LET m == match[HeadOf(s).c]
           second == IF m.opponent = House THEN "clear" ELSE "getSecond"
       IN  \/ GetLock(s, "getFirst", m.challenger, "delFirst", second)
           \/ DelLock(s, "delFirst", m.challenger, second)
           \/ GetLock(s, "getSecond", m.opponent, "delSecond", "clear")
           \/ DelLock(s, "delSecond", m.opponent, "clear")

Clear(s) ==
    /\ At(s, "clear")
    /\ meta' = [meta EXCEPT ![HeadOf(s).c] = "none"]
    /\ Finish(s)
    /\ UNCHANGED <<lock, lockTtl, age, beat, NotRedis>>

-----------------------------------------------------------------------------
(* expireOrphanedChallenges, every 3 s on every server.  It reads the live  *)
(* servers and then all metadata; read together here, because an entry older *)
(* than the grace period was there before either.  Then it expires each     *)
(* orphan it has read.                                                      *)

(* Faulty variant of Orphans: no grace period. *)
OrphansNoGrace == {c \in ChallengeId : meta[c] = "open" /\ beat[Owner(c)] = 0}

(* Faulty variant of Orphans: the comparison with the grace period swapped. *)
OrphansYoung ==
    {c \in ChallengeId : meta[c] = "open" /\ beat[Owner(c)] = 0 /\ age[c] < GraceTicks}

Orphans ==
    {c \in ChallengeId : meta[c] = "open" /\ beat[Owner(c)] = 0 /\ age[c] = GraceTicks}

SweepRead(s) ==
    /\ run[s] = "up" /\ sweep[s] = {} /\ Orphans # {}
    /\ sweep' = [sweep EXCEPT ![s] = Orphans]
    /\ UNCHANGED <<serverVars, redisVars, commands, told>>

(* The players are told, locks with this server's value released, and the   *)
(* metadata cleared.                                                        *)
ExpireOrphan(s, c) ==
    /\ run[s] = "up" /\ c \in sweep[s]
    /\ told' = told \cup {c}
    /\ lock' = [p \in Player |-> IF lock[p] = Lock(c, s) THEN NoLock ELSE lock[p]]
    /\ lockTtl' = [p \in Player |-> IF lock[p] = Lock(c, s) THEN 0 ELSE lockTtl[p]]
    /\ meta' = [meta EXCEPT ![c] = "none"]
    /\ sweep' = [sweep EXCEPT ![s] = @ \ {c}]
    /\ UNCHANGED <<serverVars, age, beat, commands>>

-----------------------------------------------------------------------------
(* Servers come and go. *)

Start(s) ==
    /\ run[s] \in IF FixedIds THEN {"new", "down"} ELSE {"new"}
    /\ run' = [run EXCEPT ![s] = "up"]
    /\ UNCHANGED <<crashes, match, timer, moved, announced, escrowed, home, queue, onChain,
                   redisVars, sweep, commands, told>>

(* The challenges for which a handler is under way. *)
Handled(s) == {j.c : j \in onChain[s]} \cup {queue[s][i].c : i \in DOMAIN queue[s]}

(* Everything in memory is gone, connections close, what Redis holds stays. *)
Crash(s) ==
    /\ run[s] = "up" /\ crashes < MaxCrashes
    /\ crashes' = crashes + 1
    /\ run' = [run EXCEPT ![s] = "down"]
    /\ match' = [c \in ChallengeId |-> IF c \in OpenAt(s) \cup Handled(s)
                                       THEN [match[c] EXCEPT !.phase = "lost"]
                                       ELSE match[c]]
    /\ timer' = [c \in ChallengeId |-> IF c \in OpenAt(s) THEN 0 ELSE timer[c]]
    /\ escrowed' = {c \in escrowed : Owner(c) # s}
    /\ home' = [p \in Player |-> IF home[p] = s THEN NoServer ELSE home[p]]
    /\ queue' = [queue EXCEPT ![s] = <<>>]
    /\ onChain' = [onChain EXCEPT ![s] = {}]
    /\ sweep' = [sweep EXCEPT ![s] = {}]
    /\ commands' = {m \in commands : Owner(m.c) # s}
    /\ UNCHANGED <<moved, announced, redisVars, told>>

HeartbeatServer(s) ==
    /\ run[s] = "up" /\ beat[s] < BeatTicks
    /\ beat' = [beat EXCEPT ![s] = BeatTicks]
    /\ UNCHANGED <<serverVars, lock, lockTtl, meta, age, sweep, commands, told>>

Down(n) == IF n > 0 THEN n - 1 ELSE 0

Clock ==
    /\ \A s \in Server : /\ queue[s] = <<>> /\ sweep[s] = {} /\ Due(s) = {}
                         /\ run[s] = "up" => beat[s] = BeatTicks
    /\ timer' = [c \in ChallengeId |-> Down(timer[c])]
    /\ lockTtl' = [p \in Player |-> Down(lockTtl[p])]
    /\ lock' = [p \in Player |-> IF lockTtl[p] <= 1 THEN NoLock ELSE lock[p]]
    /\ beat' = [s \in Server |-> Down(beat[s])]
    /\ age' = [c \in ChallengeId |-> IF meta[c] # "none" /\ age[c] < GraceTicks
                                     THEN age[c] + 1 ELSE age[c]]
    /\ UNCHANGED <<match, moved, announced, escrowed, nodes, home, queue, onChain, meta,
                   sweep, commands, told>>

Redis(s) ==
    \/ LockFirst(s) \/ LockSecond(s) \/ ProbeFirst(s) \/ ProbeSecond(s) \/ Rollback(s)
    \/ Register(s) \/ AppendHistory(s) \/ UpdateStatus(s) \/ ReleasePlayers(s) \/ Clear(s)

Sweep(s) ==
    SweepRead(s) \/ \E c \in ChallengeId : ExpireOrphan(s, c)

Next ==
    \/ \E s \in Server : Redis(s) \/ Sweep(s) \/ Start(s) \/ Crash(s)
                            \/ HeartbeatServer(s) \/ Tick(s)
    \/ \E s \in Server, p \in Player, q \in Targets, staked \in Wagers :
          Send(s, p, q, staked)
    \/ \E s \in Server, c \in ChallengeId, p \in Player \cup {House}, a \in Answer :
          AnswerHere(s, c, p, a)
    \/ \E s \in Server, c \in ChallengeId, p \in Player, a \in Answer : Forward(s, c, p, a)
    \/ \E m \in commands : Receive(m)
    \/ \E s \in Server : \E j \in onChain[s] : StakeReturns(s, j) \/ SettlementReturns(s, j)
    \/ \E p \in Player : Disconnect(p)
    \/ \E p \in Player, s \in Server : Connect(p, s)
    \/ Clock

(* Awaited commands return, timers fire and time passes; nobody has to act, *)
(* and a server may never start.  Clock is strongly fair because it waits   *)
(* for moments without commands under way, which keep coming.               *)
Fairness ==
    /\ \A s \in Server : /\ WF_vars(Redis(s)) /\ WF_vars(Sweep(s))
                         /\ WF_vars(HeartbeatServer(s)) /\ WF_vars(Tick(s))
    /\ SF_vars(Clock)

Safety == Init /\ [][Next]_vars
Spec == Safety /\ Fairness

-----------------------------------------------------------------------------
TypeOK ==
    /\ match \in [ChallengeId ->
          [phase : {"unused", "void", "resolved", "lost"} \cup Open,
           challenger : Player \cup {Nobody}, opponent : Player \cup {House, Nobody},
           owner : Server \cup {NoServer}, staked : BOOLEAN]]
    /\ timer \in [ChallengeId -> Nat]
    /\ moved \in [ChallengeId -> SUBSET (Player \cup {House})]
    /\ announced \cup escrowed \cup told \subseteq ChallengeId
    /\ run \in [Server -> {"new", "up", "down"}] /\ crashes \in 0 .. MaxCrashes
    /\ home \in [Player -> Server \cup {NoServer}]
    /\ \A s \in Server : /\ \A i \in DOMAIN queue[s] : queue[s][i] \in AnyJob
                         /\ onChain[s] \subseteq AnyJob
                         /\ sweep[s] \subseteq ChallengeId
    /\ lock \in [Player -> {NoLock} \cup {Lock(c, s) : c \in ChallengeId, s \in Server}]
    /\ lockTtl \in [Player -> 0 .. LockTicks]
    /\ meta \in [ChallengeId -> {"none", "partial", "open", "closed"}]
    /\ age \in [ChallengeId -> 0 .. GraceTicks]
    /\ beat \in [Server -> 0 .. BeatTicks]
    /\ commands \subseteq [c : ChallengeId, actor : Player, answer : Answer]

NotHouse(c) == match[c].opponent # House

(* Two servers never offer the same player two matches at once: announced   *)
(* challenges that still await an answer share no player, over all servers. *)
(* A player lock lives at least as long as an answer is awaited, and no     *)
(* rollback or release takes one from another challenge.                    *)
OnePendingAcrossServers ==
    \A c, d \in announced :
        /\ c # d /\ NotHouse(c) /\ NotHouse(d)
        /\ match[c].phase = "pending" /\ timer[c] > 0
        /\ match[d].phase = "pending" /\ timer[d] > 0
        => Parties(c) \cap Parties(d) = {}

(* "per-player distributed challenge locks prevent duplicate cross-node     *)
(* matches" (README.md): nor are two matches that were accepted and whose   *)
(* time is not up played at once if they share a player.                    *)
OneMatchAcrossServers ==
    \A c, d \in announced :
        /\ c # d /\ NotHouse(c) /\ NotHouse(d)
        /\ match[c].phase = "active" /\ timer[c] > 0
        /\ match[d].phase = "active" /\ timer[d] > 0
        => Parties(c) \cap Parties(d) = {}

(* Once everything a server does for a closed, unstaked challenge is done,  *)
(* nothing of it is left in Redis: whatever the order in which its          *)
(* registration, the dispatch of its creation and that of its closing came, *)
(* no lock is held and no metadata was written after it was cleared.        *)
NothingLeft ==
    \A c \in ChallengeId :
        match[c].phase \in {"void", "resolved"} /\ ~match[c].staked
          /\ c \notin Handled(Owner(c)) =>
            /\ meta[c] = "none"
            /\ \A p \in Player : lock[p].challenge # c

(* Players are told that the owner of their match failed only when it did:  *)
(* never while the match goes on.  A server that has just started has sent  *)
(* no heartbeat yet; the grace period protects its matches.                 *)
FailoverSound == \A c \in told : ~IsOpen(c)

(* "orphaned open challenges are auto-expired if owner server heartbeat     *)
(* disappears" (README.md), as long as some server runs and the owner does  *)
(* not come back under its old id.                                          *)
OrphanExpired ==
    \A c \in ChallengeId :
        meta[c] = "open" /\ run[Owner(c)] = "down"
            ~> \/ meta[c] = "none"
               \/ run[Owner(c)] = "up" \/ \A s \in Server : run[s] # "up"
=============================================================================
