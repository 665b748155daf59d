------------------------------ MODULE Gateway ------------------------------
(* The connections of the game servers: who is registered at which server    *)
(* under which socket, who is in whose world, what the presence stores hold, *)
(* and which players have been told that they are near one another, by their *)
(* own server or by another one over the bus.  server/src/index.ts,          *)
(* game/proximity.ts, PresenceStore.ts and DistributedBus.ts over one Redis. *)
EXTENDS Integers, Sequences, SequencesExt, FiniteSets

CONSTANTS
    Server,
    Player,         \* players, by the id their client asks for (clientId, agentId)
    Connection,     \* sockets that exist at the same time; a closed one is used again
    MaxConnects,    \* bound on the connections that are opened
    MaxOnBus        \* bound on what a server has underway to a player about another

NoConnection == "none"
ASSUME ConnectionAssumption == NoConnection \notin Connection
ASSUME MaxOnBusAssumption == MaxOnBus \in Nat

VARIABLES
    sockets,            \* server -> player -> the connection it is registered under
    host, holder,       \* connection -> its server, its player
    readyState,         \* connection -> its state
    joining,            \* connections whose presence lookup has not answered
    world,              \* server -> the players of its worldSim
    memory,             \* server -> what its presence store holds in memory
    redis,              \* the players with an entry in Redis
    cachedPresence,     \* server -> what it has last read of Redis
    pairs,              \* server -> its activeProximityPairs
    bus,                \* server -> what it has published, by addressee and subject
    nearby,             \* connection -> the players its client takes to be near (nearbyIds)
    unaware,            \* history: what servers think of whom, unknown to the connection
    connects

registryVars == <<sockets, host, holder, readyState, joining, connects>>
presenceVars == <<memory, redis, cachedPresence>>
nearVars == <<pairs, bus, nearby, unaware>>
gatewayVars == <<registryVars, world, presenceVars, nearVars>>

Pair == {{p, q} : p \in Player, q \in Player} \ {{p} : p \in Player}
Topic == Player \X Player       \* <<p, q>>: what is said to p about q
Event == {"enter", "exit"}

GatewayInit ==
    /\ sockets = [s \in Server |-> [p \in Player |-> NoConnection]]
    /\ host \in [Connection -> Server]
    /\ holder \in [Connection -> Player]
    /\ readyState = [c \in Connection |-> "closed"]
    /\ joining = {} /\ redis = {} /\ connects = 0
    /\ world = [s \in Server |-> {}]
    /\ memory = world /\ cachedPresence = world /\ pairs = world
    /\ bus = [s \in Server |-> [topic \in Topic |-> <<>>]]
    /\ nearby = [c \in Connection |-> {}]
    /\ unaware = nearby

Connected(s, p) == sockets[s][p] # NoConnection
PairsOf(s, p) == {pair \in pairs[s] : p \in pair}
Near(s, p, q) == {p, q} \in pairs[s]

(* The socket of p at s is there and open.                                   *)
Local(s, p) == Connected(s, p) /\ readyState[sockets[s][p]] = "open"
Hears(c) == sockets[host[c]][holder[c]] = c /\ readyState[c] = "open"

-----------------------------------------------------------------------------
(* What p will hear last of s about q, unless s says more.                   *)
Foretold(s, p, q) == bus[s][<<p, q>>] # <<>> /\ Last(bus[s][<<p, q>>]) = "enter"

(* What a connection of p with the pages' kept has not heard and will not.    *)
UnknownTo(p, kept) ==
    {u \in Server \X Player :
        u[2] \in kept \/ (Foretold(u[1], p, u[2]) # Near(u[1], p, u[2]))}

(* The connection handler of s.  The socket that is registered there under   *)
(* the same id is asked to close and forgotten, its pairs and matches stay.  *)
(* Where the player joins the world depends on its presence: at once when    *)
(* the store has it in memory, else when Redis has answered.  A page that    *)
(* connects again keeps whom it took to be near, a bot and a new page start  *)
(* with nobody.                                                              *)
Connect(s, p, c) ==
    /\ connects < MaxConnects
    /\ readyState[c] = "closed" /\ c \notin joining
    /\ connects' = connects + 1
    /\ host' = [host EXCEPT ![c] = s]
    /\ holder' = [holder EXCEPT ![c] = p]
    /\ readyState' = [d \in Connection |-> IF d = c THEN "open"
                                           ELSE IF d = sockets[s][p] THEN "closing" ELSE readyState[d]]
    /\ sockets' = [sockets EXCEPT ![s][p] = c]
    /\ IF p \in memory[s]
       THEN world' = [world EXCEPT ![s] = @ \cup {p}] /\ UNCHANGED joining
       ELSE /\ world' = IF Connected(s, p) THEN [world EXCEPT ![s] = @ \ {p}] ELSE world
            /\ joining' = joining \cup {c}
    /\ \E kept \in {{}} \cup {nearby[d] : d \in {e \in Connection : holder[e] = p}} :
          /\ nearby' = [nearby EXCEPT ![c] = kept]
          /\ unaware' = [d \in Connection |->
                IF d = c THEN UnknownTo(p, kept)
                ELSE IF d = sockets[s][p] THEN {} ELSE unaware[d]]
    /\ UNCHANGED <<presenceVars, pairs, bus>>

(* The presence lookup answers, or fails: the player joins, whether its      *)
(* connection is still there or not.                                         *)
Join(c) ==
    LET s == host[c]
        p == holder[c]
    IN  /\ c \in joining
        /\ joining' = joining \ {c}
        /\ world' = [world EXCEPT ![s] = @ \cup {p}]
        /\ memory' = IF p \in redis THEN [memory EXCEPT ![s] = @ \cup {p}] ELSE memory
        /\ UNCHANGED <<sockets, host, holder, readyState, connects, redis, cachedPresence, nearVars>>

(* The client goes away, or its network does.                                *)
HangUp(c) ==
    /\ readyState[c] = "open"
    /\ readyState' = [readyState EXCEPT ![c] = "closing"]
    /\ unaware' = [unaware EXCEPT ![c] = {}]
    /\ UNCHANGED <<sockets, host, holder, joining, connects, world, presenceVars, pairs, bus, nearby>>

(* The close handler: nothing for a connection that has been replaced.  The  *)
(* pairs of the player are dropped, and s tells nobody that it has left.     *)
Forget(s, p) ==
    /\ sockets' = [sockets EXCEPT ![s][p] = NoConnection]
    /\ world' = [world EXCEPT ![s] = @ \ {p}]
    /\ memory' = [memory EXCEPT ![s] = @ \ {p}]
    /\ redis' = redis \ {p}
    /\ pairs' = [pairs EXCEPT ![s] = @ \ PairsOf(s, p)]
    /\ unaware' = [c \in Connection |->
          IF readyState[c] # "open" THEN {}
          ELSE unaware[c] \cup {u \in {s} \X Player : {holder[c], u[2]} \in PairsOf(s, p)}]

(* Faulty variant of CloseHandler: the connection that has been taken over forgets the player too. *)
CloseHandlerAlways(c) == Forget(host[c], holder[c])

CloseHandler(c) ==
    IF sockets[host[c]][holder[c]] = c THEN Forget(host[c], holder[c])
    ELSE UNCHANGED <<sockets, world, memory, redis, pairs, unaware>>

ConnectionClosed(c) ==
    /\ readyState[c] = "closing"
    /\ readyState' = [readyState EXCEPT ![c] = "closed"]
    /\ CloseHandler(c)
    /\ UNCHANGED <<host, holder, joining, connects, cachedPresence, bus, nearby>>

-----------------------------------------------------------------------------
(* emitProximityEvents of s, which now finds near the pairs of near.         *)
Changed(s, near) == (near \ pairs[s]) \cup (pairs[s] \ near)

(* sendToDistributed: what is said to a player goes to its socket at s, or,  *)
(* without an open one, to all servers, which listen each on a subscription  *)
(* of its own.  A connection listens on one of them, so that taking them     *)
(* together, as below, leaves out nothing of what it can hear and when.      *)
SentTo(s, near, c) ==
    IF Hears(c) /\ host[c] = s THEN {q \in Player : {holder[c], q} \in Changed(s, near)} ELSE {}

(* Faulty variant of Published: sendTo in place of sendToDistributed. *)
PublishedNever(s, near, topic) == bus[s][topic]

Published(s, near, topic) ==
    IF {topic[1], topic[2]} \in Changed(s, near) /\ ~Local(s, topic[1])
    THEN Append(bus[s][topic], IF {topic[1], topic[2]} \in near THEN "enter" ELSE "exit")
    ELSE bus[s][topic]

(* c hears of a change, directly or later.  It does not if s sends it to     *)
(* another connection of the player, and it may hear older news after it.    *)
Reaches(s, c, q) ==
    Local(s, holder[c]) => host[c] = s /\ bus[s][<<holder[c], q>>] = <<>>

Missed(s, near, c) ==
    {q \in Player : {holder[c], q} \in Changed(s, near) /\ ~Reaches(s, c, q)}

(* What c hears makes up for what it has not heard before, except for what   *)
(* is still underway.                                                        *)
Lifted(s, near, c) ==
    {u \in Server \X Player :
        /\ {holder[c], u[2]} \in Changed(s, near) /\ Reaches(s, c, u[2])
        /\ u[1] # s => bus[u[1]][<<holder[c], u[2]>>] = <<>>}

emitProximityEvents(s, near) ==
    /\ pairs' = [pairs EXCEPT ![s] = near]
    /\ nearby' = [c \in Connection |->
          (nearby[c] \ SentTo(s, near, c)) \cup {q \in SentTo(s, near, c) : {holder[c], q} \in near}]
    /\ bus' = [bus EXCEPT ![s] = [topic \in Topic |-> Published(s, near, topic)]]
    /\ unaware' = [c \in Connection |->
          IF ~Hears(c) THEN {}
          ELSE (unaware[c] \ Lifted(s, near, c)) \cup ({s} \X Missed(s, near, c))]

(* Every 500 ms the players of the world that are registered are written to  *)
(* the store.                                                                *)
PresenceSync(s) ==
    LET local == {p \in world[s] : Connected(s, p)} IN
    /\ memory' = [memory EXCEPT ![s] = @ \cup local]
    /\ redis' = redis \cup local

(* The tick, over the players of the world and those the last reading of     *)
(* Redis has shown elsewhere.  Where they stand is left open, and so is      *)
(* where another server takes them to stand at that moment.  Bound: MaxOnBus. *)
Shown(s) == world[s] \cup cachedPresence[s]

Tick(s) ==
    /\ \A topic \in Topic : Len(bus[s][topic]) < MaxOnBus
    /\ \E near \in SUBSET {pair \in Pair : pair \subseteq Shown(s)} : emitProximityEvents(s, near)
    /\ PresenceSync(s) \/ UNCHANGED <<memory, redis>>
    /\ UNCHANGED <<registryVars, world, cachedPresence>>

(* The bus brings what s has published to whoever holds p by then.           *)
BusDelivers(s, p, q) ==
    /\ bus[s][<<p, q>>] # <<>>
    /\ bus' = [bus EXCEPT ![s][<<p, q>>] = Tail(@)]
    /\ nearby' = [c \in Connection |->
          IF ~(Hears(c) /\ holder[c] = p) THEN nearby[c]
          ELSE IF Head(bus[s][<<p, q>>]) = "enter" THEN nearby[c] \cup {q} ELSE nearby[c] \ {q}]
    /\ UNCHANGED <<registryVars, world, presenceVars, pairs, unaware>>

(* Every 500 ms all of Redis is read.  An entry that no server writes any    *)
(* more expires.  challenge_send looks a player up who is not at the server. *)
PresenceRefresh(s) ==
    /\ cachedPresence' = [cachedPresence EXCEPT ![s] = redis]
    /\ UNCHANGED <<registryVars, world, memory, redis, nearVars>>

PresenceExpires(p) ==
    /\ p \in redis /\ ~\E s \in Server : p \in world[s] /\ Connected(s, p)
    /\ redis' = redis \ {p}
    /\ UNCHANGED <<registryVars, world, memory, cachedPresence, nearVars>>

LookUp(s, p) ==
    /\ \E q \in Player \ {p} : Local(s, q)
    /\ ~Connected(s, p) /\ p \in redis
    /\ memory' = [memory EXCEPT ![s] = @ \cup {p}]
    /\ UNCHANGED <<registryVars, world, redis, cachedPresence, nearVars>>

-----------------------------------------------------------------------------
GatewayNext ==
    \/ \E s \in Server, p \in Player, c \in Connection : Connect(s, p, c)
    \/ \E c \in Connection : Join(c) \/ HangUp(c) \/ ConnectionClosed(c)
    \/ \E s \in Server : Tick(s) \/ PresenceRefresh(s)
    \/ \E s \in Server, p, q \in Player : BusDelivers(s, p, q)
    \/ \E p \in Player : PresenceExpires(p)
    \/ \E s \in Server, p \in Player : LookUp(s, p)

GatewaySpec == GatewayInit /\ [][GatewayNext]_gatewayVars

-----------------------------------------------------------------------------
(* A connection that is open is the one its player is registered under at    *)
(* its server, and its player is in the world there once its lookup is over: *)
(* neither the late close event of the connection it has replaced, nor a     *)
(* connection to another server, nor the order in which the lookups answer   *)
(* takes the player out.                                                     *)
OpenInWorld ==
    \A c \in Connection :
        readyState[c] = "open" => /\ Hears(c)
                                  /\ c \notin joining => holder[c] \in world[host[c]]

(* Players who are near one another on every server are told so, and those   *)
(* who are near on none: once nothing about q is underway to its player, a   *)
(* client takes q to be near as some server does.  Excused is a server that  *)
(* holds something the client could not hear: pairs that were there when its *)
(* connection opened or were dropped when a player left, and what was sent   *)
(* to another connection of the player, until that server has something new  *)
(* to say of q.                                                              *)
ToldWhoIsNear ==
    \A c \in Connection, q \in Player :
        /\ Hears(c)
        /\ \A s \in Server : <<s, q>> \notin unaware[c] /\ bus[s][<<holder[c], q>>] = <<>>
        => \E s \in Server : q \in nearby[c] <=> Near(s, holder[c], q)
=============================================================================
