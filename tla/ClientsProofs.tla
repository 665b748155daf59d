----------------------- MODULE ClientsProofs -----------------------
(*****************************************************************************)
(* Theorems about the clients and what serves them: the connections of the   *)
(* game servers, the bots of the agent runtime, its owners' presences, the   *)
(* card of the browser client and the page of a player. Nothing is assumed   *)
(* but that a presence lasts some ticks: the number of servers, connections, *)
(* bots, owners, challenges and messages is any. The five parts share no     *)
(* state and no step.                                                        *)
(*****************************************************************************)
EXTENDS Gateway, PlayClient, AgentBotClient, OwnerBots, PlayerCard, FiniteSetTheorems, TLAPS

------------------------------------------------------------------------------
(* The connections of the game servers and who is told that he is near whom. *)

(* Registered and in the worlds are players, near are pairs of two, and a    *)
(* connection belongs to a server and a player.                              *)
GatewayTypeOK ==
    /\ sockets \in [Server -> [Player -> Connection \cup {NoConnection}]]
    /\ host \in [Connection -> Server] /\ holder \in [Connection -> Player]
    /\ readyState \in [Connection -> {"open", "closing", "closed"}]
    /\ joining \subseteq Connection
    /\ world \in [Server -> SUBSET Player] /\ memory \in [Server -> SUBSET Player]
    /\ redis \subseteq Player
    /\ cachedPresence \in [Server -> SUBSET Player]
    /\ pairs \in [Server -> SUBSET Pair]
    /\ bus \in [Server -> [Topic -> Seq(Event)]]
    /\ nearby \in [Connection -> SUBSET Player]
    /\ unaware \in [Connection -> SUBSET (Server \X Player)]
    /\ connects \in Nat

(* What is underway agrees with what its server holds: the last event it has *)
(* published says whether the two are near there.                            *)
AsPublished ==
    \A c \in Connection, q \in Player, s \in Server :
        Hears(c) /\ <<s, q>> \notin unaware[c] /\ bus[s][<<holder[c], q>>] # <<>>
        => (Last(bus[s][<<holder[c], q>>]) = "enter" <=> Near(s, holder[c], q))

GatewayInv == GatewayTypeOK /\ OpenInWorld /\ AsPublished /\ ToldWhoIsNear

(* The last event of a channel stays last while earlier ones are delivered,  *)
(* and is the only one left before it is.                                    *)
LEMMA LastOfTail ==
    ASSUME NEW seq \in Seq(Event), seq # <<>>
    PROVE  /\ Tail(seq) \in Seq(Event)
           /\ Tail(seq) # <<>> => Last(Tail(seq)) = Last(seq)
           /\ Tail(seq) = <<>> => Head(seq) = Last(seq)
<1>1. Len(seq) \in Nat /\ Len(seq) # 0
  OBVIOUS
<1>2. Tail(seq) \in Seq(Event) /\ Len(Tail(seq)) = Len(seq) - 1
  OBVIOUS
<1>3. ASSUME Tail(seq) # <<>> PROVE Tail(seq)[Len(Tail(seq))] = seq[Len(seq)]
  <2>1. Len(Tail(seq)) \in Nat /\ Len(Tail(seq)) # 0
    BY <1>2, <1>3
  <2> QED
    BY <1>1, <1>2, <2>1
<1>4. ASSUME Tail(seq) = <<>> PROVE Head(seq) = seq[Len(seq)]
  <2>0. Len(<<>>) = 0
    OBVIOUS
  <2>1. Len(Tail(seq)) = 0
    BY <1>4, <2>0
  <2>2. Len(seq) = 1
    <3>1. Len(seq) - 1 = 0
      BY <1>2, <2>1
    <3>2. ASSUME NEW n \in Nat, n - 1 = 0 PROVE n = 1
      BY <3>2
    <3> QED
      BY <1>1, <3>1, <3>2
  <2>3. Head(seq) = seq[1]
    BY DEF Head
  <2> QED
    BY <2>2, <2>3
<1> QED
  BY <1>2, <1>3, <1>4 DEF Last

(* A published event becomes the last one of its channel. *)
LEMMA LastOfAppend ==
    ASSUME NEW seq \in Seq(Event), NEW e \in Event
    PROVE  /\ Append(seq, e) \in Seq(Event) /\ Append(seq, e) # <<>>
           /\ Last(Append(seq, e)) = e
<1>1. Append(seq, e) \in Seq(Event) /\ Len(Append(seq, e)) = Len(seq) + 1 /\ Len(seq) \in Nat
  OBVIOUS
<1>2. Append(seq, e)[Len(seq) + 1] = e
  BY <1>1
<1>3. Append(seq, e) # <<>>
  BY <1>1
<1> QED
  BY <1>1, <1>2, <1>3 DEF Last

(* The channels of a server hold events after a tick. *)
LEMMA PublishedEvents ==
    ASSUME GatewayTypeOK, NEW s \in Server, NEW near, NEW topic \in Topic
    PROVE  Published(s, near, topic) \in Seq(Event)
<1>1. bus[s][topic] \in Seq(Event)
  BY DEF GatewayTypeOK
<1>2. (IF {topic[1], topic[2]} \in near THEN "enter" ELSE "exit") \in Event
  BY DEF Event
<1> QED
  BY <1>1, <1>2, LastOfAppend DEF Published

(* Types are kept by every step of the gateway. *)
LEMMA GatewayTypeStep == GatewayTypeOK /\ [GatewayNext]_gatewayVars => GatewayTypeOK'
<1> SUFFICES ASSUME GatewayTypeOK, [GatewayNext]_gatewayVars PROVE GatewayTypeOK'
  OBVIOUS
<1> USE DEF GatewayTypeOK
<1>1. ASSUME NEW s \in Server, NEW p \in Player, NEW c \in Connection, Connect(s, p, c)
      PROVE  GatewayTypeOK'
  <2>1. PICK kept \in {{}} \cup {nearby[d] : d \in {e \in Connection : holder[e] = p}} :
            /\ nearby' = [nearby EXCEPT ![c] = kept]
            /\ unaware' = [d \in Connection |->
                  IF d = c THEN UnknownTo(p, kept)
                  ELSE IF d = sockets[s][p] THEN {} ELSE unaware[d]]
    BY <1>1 DEF Connect
  <2>2. kept \subseteq Player
    BY <2>1
  <2>3. UnknownTo(p, kept) \subseteq Server \X Player
    BY DEF UnknownTo
  <2>4. /\ nearby' \in [Connection -> SUBSET Player]
        /\ unaware' \in [Connection -> SUBSET (Server \X Player)]
    BY <2>1, <2>2, <2>3
  <2>5. /\ sockets' \in [Server -> [Player -> Connection \cup {NoConnection}]]
        /\ host' \in [Connection -> Server] /\ holder' \in [Connection -> Player]
        /\ readyState' \in [Connection -> {"open", "closing", "closed"}]
        /\ joining' \subseteq Connection /\ connects' \in Nat
    BY <1>1 DEF Connect
  <2>6. world' \in [Server -> SUBSET Player]
    <3>1. \/ world' = world
          \/ world' = [world EXCEPT ![s] = world[s] \cup {p}]
          \/ world' = [world EXCEPT ![s] = world[s] \ {p}]
      BY <1>1 DEF Connect
    <3>2. world[s] \cup {p} \subseteq Player /\ world[s] \ {p} \subseteq Player
      OBVIOUS
    <3> QED
      BY <3>1, <3>2
  <2>7. UNCHANGED <<memory, redis, cachedPresence, pairs, bus>>
    BY <1>1 DEF Connect, presenceVars
  <2> QED
    BY <2>4, <2>5, <2>6, <2>7
<1>2. ASSUME NEW c \in Connection, Join(c) PROVE GatewayTypeOK'
  BY <1>2 DEF Join, nearVars
<1>3. ASSUME NEW c \in Connection, HangUp(c) PROVE GatewayTypeOK'
  BY <1>3 DEF HangUp, presenceVars
<1>4. ASSUME NEW c \in Connection, ConnectionClosed(c) PROVE GatewayTypeOK'
  <2>1. CASE sockets[host[c]][holder[c]] = c
    <3>1. Forget(host[c], holder[c])
      BY <1>4, <2>1 DEF ConnectionClosed, CloseHandler
    <3>2. unaware' \in [Connection -> SUBSET (Server \X Player)]
      <4>1. unaware' = [d \in Connection |->
              IF readyState[d] # "open" THEN {}
              ELSE unaware[d] \cup {u \in {host[c]} \X Player :
                                       {holder[d], u[2]} \in PairsOf(host[c], holder[c])}]
        BY <3>1 DEF Forget
      <4>2. {host[c]} \X Player \subseteq Server \X Player
        OBVIOUS
      <4> QED
        BY <4>1, <4>2
    <3>3. /\ sockets' \in [Server -> [Player -> Connection \cup {NoConnection}]]
          /\ world' \in [Server -> SUBSET Player] /\ memory' \in [Server -> SUBSET Player]
          /\ redis' \subseteq Player /\ pairs' \in [Server -> SUBSET Pair]
      BY <3>1 DEF Forget
    <3> QED
      BY <1>4, <3>2, <3>3 DEF ConnectionClosed
  <2>2. CASE sockets[host[c]][holder[c]] # c
    BY <1>4, <2>2 DEF ConnectionClosed, CloseHandler
  <2> QED
    BY <2>1, <2>2
<1>5. ASSUME NEW s \in Server, Tick(s) PROVE GatewayTypeOK'
  <2>1. PICK near \in SUBSET {pair \in Pair : pair \subseteq Shown(s)} : emitProximityEvents(s, near)
    BY <1>5 DEF Tick
  <2>2. pairs' \in [Server -> SUBSET Pair]
    BY <2>1 DEF emitProximityEvents
  <2>3. nearby' \in [Connection -> SUBSET Player]
    <3>1. \A c \in Connection : SentTo(s, near, c) \subseteq Player
      BY DEF SentTo
    <3> QED
      BY <2>1, <3>1 DEF emitProximityEvents
  <2>4. bus' \in [Server -> [Topic -> Seq(Event)]]
    BY <2>1, PublishedEvents DEF emitProximityEvents
  <2>5. unaware' \in [Connection -> SUBSET (Server \X Player)]
    <3>1. \A c \in Connection : {s} \X Missed(s, near, c) \subseteq Server \X Player
      BY DEF Missed
    <3> QED
      BY <2>1, <3>1 DEF emitProximityEvents
  <2>6. memory' \in [Server -> SUBSET Player] /\ redis' \subseteq Player
    <3>1. CASE UNCHANGED <<memory, redis>>
      BY <3>1
    <3>2. CASE PresenceSync(s)
      <4> DEFINE local == {p \in world[s] : Connected(s, p)}
      <4>1. local \subseteq Player
        OBVIOUS
      <4>2. memory' = [memory EXCEPT ![s] = memory[s] \cup local] /\ redis' = redis \cup local
        BY <3>2 DEF PresenceSync
      <4> HIDE DEF local
      <4> QED
        BY <4>1, <4>2
    <3> QED
      BY <1>5, <3>1, <3>2 DEF Tick
  <2> QED
    BY <1>5, <2>2, <2>3, <2>4, <2>5, <2>6 DEF Tick, registryVars
<1>6. ASSUME NEW s \in Server, NEW p \in Player, NEW q \in Player, BusDelivers(s, p, q)
      PROVE  GatewayTypeOK'
  <2>1. <<p, q>> \in Topic /\ bus[s][<<p, q>>] \in Seq(Event) /\ bus[s][<<p, q>>] # <<>>
    BY <1>6 DEF BusDelivers, Topic
  <2>2. Tail(bus[s][<<p, q>>]) \in Seq(Event)
    BY <2>1, LastOfTail
  <2>3. bus' = [bus EXCEPT ![s][<<p, q>>] = Tail(bus[s][<<p, q>>])]
    BY <1>6 DEF BusDelivers
  <2>4. bus' \in [Server -> [Topic -> Seq(Event)]]
    BY <2>1, <2>2, <2>3
  <2>5. nearby' \in [Connection -> SUBSET Player]
    BY <1>6 DEF BusDelivers
  <2> QED
    BY <1>6, <2>4, <2>5 DEF BusDelivers, registryVars, presenceVars
<1>7. ASSUME NEW s \in Server, PresenceRefresh(s) PROVE GatewayTypeOK'
  BY <1>7 DEF PresenceRefresh, registryVars, nearVars
<1>8. ASSUME NEW p \in Player, PresenceExpires(p) PROVE GatewayTypeOK'
  BY <1>8 DEF PresenceExpires, registryVars, nearVars
<1>9. ASSUME NEW s \in Server, NEW p \in Player, LookUp(s, p) PROVE GatewayTypeOK'
  BY <1>9 DEF LookUp, registryVars, nearVars
<1>10. CASE UNCHANGED gatewayVars
  BY <1>10 DEF gatewayVars, registryVars, presenceVars, nearVars
<1> QED
  BY <1>1, <1>2, <1>3, <1>4, <1>5, <1>6, <1>7, <1>8, <1>9, <1>10 DEF GatewayNext

(* A player with an open connection stays in the world: a connection that    *)
(* closes takes the player out only where it is the registered one.          *)
LEMMA OpenInWorldStep ==
    GatewayTypeOK /\ OpenInWorld /\ [GatewayNext]_gatewayVars => OpenInWorld'
<1> SUFFICES ASSUME GatewayTypeOK, OpenInWorld, [GatewayNext]_gatewayVars PROVE OpenInWorld'
  OBVIOUS
<1> USE DEF GatewayTypeOK, OpenInWorld, Hears
<1>1. ASSUME NEW s \in Server, NEW p \in Player, NEW c \in Connection, Connect(s, p, c)
      PROVE  OpenInWorld'
  <2> SUFFICES ASSUME NEW d \in Connection, readyState'[d] = "open"
               PROVE  /\ sockets'[host'[d]][holder'[d]] = d
                      /\ d \notin joining' => holder'[d] \in world'[host'[d]]
    OBVIOUS
  <2>1. CASE d = c
    BY <1>1, <2>1 DEF Connect
  <2>2. CASE d # c
    <3>1. /\ readyState[d] = "open" /\ d # sockets[s][p]
          /\ host'[d] = host[d] /\ holder'[d] = holder[d]
      BY <1>1, <2>2 DEF Connect
    <3>2. host[d] # s \/ holder[d] # p
      BY <3>1
    <3>3. sockets'[host[d]][holder[d]] = sockets[host[d]][holder[d]]
      BY <1>1, <3>2 DEF Connect
    <3>4. holder[d] \in world[host[d]] => holder[d] \in world'[host[d]]
      BY <1>1, <3>2 DEF Connect
    <3>5. d \notin joining' => d \notin joining
      BY <1>1 DEF Connect
    <3> QED
      BY <3>1, <3>3, <3>4, <3>5
  <2> QED
    BY <2>1, <2>2
<1>2. ASSUME NEW c \in Connection, Join(c) PROVE OpenInWorld'
  BY <1>2 DEF Join
<1>3. ASSUME NEW c \in Connection, HangUp(c) PROVE OpenInWorld'
  BY <1>3 DEF HangUp
<1>4. ASSUME NEW c \in Connection, ConnectionClosed(c) PROVE OpenInWorld'
  <2>1. CASE sockets[host[c]][holder[c]] = c
    <3> SUFFICES ASSUME NEW d \in Connection, readyState'[d] = "open"
                 PROVE  /\ sockets'[host'[d]][holder'[d]] = d
                        /\ d \notin joining' => holder'[d] \in world'[host'[d]]
      OBVIOUS
    <3>1. Forget(host[c], holder[c])
      BY <1>4, <2>1 DEF ConnectionClosed, CloseHandler
    <3>2. d # c /\ readyState[d] = "open" /\ UNCHANGED <<host, holder, joining>>
      BY <1>4 DEF ConnectionClosed
    <3>3. host[d] # host[c] \/ holder[d] # holder[c]
      BY <2>1, <3>2
    <3>4. sockets'[host[d]][holder[d]] = sockets[host[d]][holder[d]]
      BY <3>1, <3>3 DEF Forget
    <3>5. holder[d] \in world[host[d]] => holder[d] \in world'[host[d]]
      BY <3>1, <3>3 DEF Forget
    <3> QED
      BY <3>2, <3>4, <3>5
  <2>2. CASE sockets[host[c]][holder[c]] # c
    BY <1>4, <2>2 DEF ConnectionClosed, CloseHandler
  <2> QED
    BY <2>1, <2>2
<1>5. ASSUME NEW s \in Server, Tick(s) PROVE OpenInWorld'
  BY <1>5 DEF Tick, registryVars
<1>6. ASSUME NEW s \in Server, NEW p \in Player, NEW q \in Player, BusDelivers(s, p, q)
      PROVE  OpenInWorld'
  BY <1>6 DEF BusDelivers, registryVars
<1>7. ASSUME NEW s \in Server, PresenceRefresh(s) PROVE OpenInWorld'
  BY <1>7 DEF PresenceRefresh, registryVars
<1>8. ASSUME NEW p \in Player, PresenceExpires(p) PROVE OpenInWorld'
  BY <1>8 DEF PresenceExpires, registryVars
<1>9. ASSUME NEW s \in Server, NEW p \in Player, LookUp(s, p) PROVE OpenInWorld'
  BY <1>9 DEF LookUp, registryVars
<1>10. CASE UNCHANGED gatewayVars
  BY <1>10 DEF gatewayVars, registryVars
<1> QED
  BY <1>1, <1>2, <1>3, <1>4, <1>5, <1>6, <1>7, <1>8, <1>9, <1>10 DEF GatewayNext

(* What s has said of q to c was heard: s is not excused, and nothing of it  *)
(* is underway.                                                              *)
Heard(s, c, q) == <<s, q>> \notin unaware[c] /\ bus[s][<<holder[c], q>>] = <<>>

(* What is published, and what a client has been told, follow the pairs of   *)
(* the servers: a change of a pair is told directly, published, or excused.  *)
LEMMA ToldStep ==
    GatewayTypeOK /\ AsPublished /\ ToldWhoIsNear /\ [GatewayNext]_gatewayVars
    => AsPublished' /\ ToldWhoIsNear'
<1> SUFFICES ASSUME GatewayTypeOK, AsPublished, ToldWhoIsNear, [GatewayNext]_gatewayVars,
                    NEW d \in Connection, Hears(d)', NEW q \in Player
             PROVE  /\ \A u \in Server : <<u, q>> \notin unaware'[d] /\ bus'[u][<<holder'[d], q>>] # <<>>
                          => (Last(bus'[u][<<holder'[d], q>>]) = "enter" <=> Near(u, holder[d], q)')
                    /\ (\A u \in Server : Heard(u, d, q)')
                          => \E u \in Server : q \in nearby'[d] <=> Near(u, holder[d], q)'
  BY DEF AsPublished, ToldWhoIsNear, Heard
<1> DEFINE Goal == /\ \A u \in Server : <<u, q>> \notin unaware'[d] /\ bus'[u][<<holder'[d], q>>] # <<>>
                          => (Last(bus'[u][<<holder'[d], q>>]) = "enter" <=> Near(u, holder[d], q)')
                   /\ (\A u \in Server : Heard(u, d, q)')
                          => \E u \in Server : q \in nearby'[d] <=> Near(u, holder[d], q)'
<1> USE DEF GatewayTypeOK
<1>a. ASSUME Hears(d)
      PROVE  /\ \A u \in Server : <<u, q>> \notin unaware[d] /\ bus[u][<<holder[d], q>>] # <<>>
                    => (Last(bus[u][<<holder[d], q>>]) = "enter" <=> Near(u, holder[d], q))
             /\ (\A u \in Server : Heard(u, d, q))
                    => \E u \in Server : q \in nearby[d] <=> Near(u, holder[d], q)
  BY <1>a DEF AsPublished, ToldWhoIsNear, Heard
<1>b. ASSUME Hears(d), UNCHANGED <<pairs, bus, nearby, unaware, holder>> PROVE Goal
  BY <1>a, <1>b DEF Near, Heard
<1>1. ASSUME NEW s \in Server, NEW p \in Player, NEW c \in Connection, Connect(s, p, c) PROVE Goal
  <2>1. PICK kept \in {{}} \cup {nearby[e] : e \in {f \in Connection : holder[f] = p}} :
            /\ nearby' = [nearby EXCEPT ![c] = kept]
            /\ unaware' = [e \in Connection |->
                  IF e = c THEN UnknownTo(p, kept)
                  ELSE IF e = sockets[s][p] THEN {} ELSE unaware[e]]
    BY <1>1 DEF Connect
  <2>2. bus' = bus /\ pairs' = pairs
    BY <1>1 DEF Connect
  <2>3. CASE d = c
    <3>1. holder'[d] = p /\ unaware'[d] = UnknownTo(p, kept) /\ nearby'[d] = kept
      BY <1>1, <2>1, <2>3 DEF Connect
    <3>2. ASSUME NEW u \in Server, <<u, q>> \notin unaware'[d]
          PROVE  q \notin kept /\ (Foretold(u, p, q) <=> Near(u, p, q))
      <4>1. <<u, q>> \in Server \X Player /\ <<u, q>>[1] = u /\ <<u, q>>[2] = q
        OBVIOUS
      <4>2. Foretold(u, p, q) \in BOOLEAN /\ Near(u, p, q) \in BOOLEAN
        BY DEF Foretold, Near
      <4> QED
        BY <3>1, <3>2, <4>1, <4>2 DEF UnknownTo
    <3>3. \A u \in Server : Near(u, holder[d], q)' <=> Near(u, p, q)
      BY <2>2, <3>1 DEF Near
    <3>4. host[d] \in Server
      OBVIOUS
    <3> QED
      BY <2>2, <3>1, <3>2, <3>3, <3>4 DEF Foretold, Heard
  <2>4. CASE d # c
    <3>1. d # sockets[s][p]
      BY <1>1, <2>4 DEF Connect, Hears
    <3>2. unaware'[d] = unaware[d] /\ nearby'[d] = nearby[d] /\ holder'[d] = holder[d]
      BY <1>1, <2>1, <2>4, <3>1 DEF Connect
    <3>3. Hears(d)
      BY <1>1, <2>4, <3>1 DEF Connect, Hears
    <3> QED
      BY <1>a, <2>2, <3>2, <3>3 DEF Near, Heard
  <2> QED
    BY <2>3, <2>4
<1>2. ASSUME NEW c \in Connection, Join(c) PROVE Goal
  BY <1>2, <1>b DEF Join, nearVars, Hears
<1>3. ASSUME NEW c \in Connection, HangUp(c) PROVE Goal
  <2>1. d # c /\ Hears(d)
    BY <1>3 DEF HangUp, Hears
  <2>2. unaware'[d] = unaware[d] /\ UNCHANGED <<pairs, bus, nearby, holder>>
    BY <1>3, <2>1 DEF HangUp
  <2> QED
    BY <1>a, <2>1, <2>2 DEF Near, Heard
<1>4. ASSUME NEW c \in Connection, ConnectionClosed(c) PROVE Goal
  <2>0. readyState[d] = "open" /\ UNCHANGED <<host, holder, bus, nearby>>
    BY <1>4 DEF ConnectionClosed, Hears
  <2>1. CASE sockets[host[c]][holder[c]] = c
    <3> DEFINE s == host[c]
               p == holder[c]
    <3>1. Forget(s, p)
      BY <1>4, <2>1 DEF ConnectionClosed, CloseHandler
    <3>2. Hears(d)
      BY <2>0, <3>1, ConnectionAssumption DEF Forget, Hears
    <3>3. unaware'[d] = unaware[d] \cup {u \in {s} \X Player : {holder[d], u[2]} \in PairsOf(s, p)}
      BY <2>0, <3>1 DEF Forget
    <3>4. ASSUME NEW u \in Server, <<u, q>> \notin unaware'[d]
          PROVE  <<u, q>> \notin unaware[d] /\ (Near(u, holder[d], q)' <=> Near(u, holder[d], q))
      <4>1. <<u, q>> \notin unaware[d] /\ (u = s => {holder[d], q} \notin PairsOf(s, p))
        BY <3>3, <3>4
      <4>2. pairs' = [pairs EXCEPT ![s] = pairs[s] \ PairsOf(s, p)]
        BY <3>1 DEF Forget
      <4> QED
        BY <2>0, <4>1, <4>2 DEF Near
    <3> QED
      BY <1>a, <2>0, <3>2, <3>4 DEF Heard
  <2>2. CASE sockets[host[c]][holder[c]] # c
    BY <1>4, <1>b, <2>2 DEF ConnectionClosed, CloseHandler, Hears
  <2> QED
    BY <2>1, <2>2
<1>5. ASSUME NEW s \in Server, Tick(s) PROVE Goal
  <2>1. PICK near \in SUBSET {pair \in Pair : pair \subseteq Shown(s)} : emitProximityEvents(s, near)
    BY <1>5 DEF Tick
  <2>2. Hears(d) /\ UNCHANGED <<host, holder, sockets, readyState>>
    BY <1>5 DEF Tick, registryVars, Hears
  <2> DEFINE p == holder[d]
             topic == <<p, q>>
  <2>3. topic \in Topic /\ topic[1] = p /\ topic[2] = q
    BY DEF Topic
  <2>4. /\ pairs' = [pairs EXCEPT ![s] = near]
        /\ \A u \in Server : u # s => bus'[u][topic] = bus[u][topic]
        /\ bus'[s][topic] = Published(s, near, topic)
        /\ unaware'[d] = (unaware[d] \ Lifted(s, near, d)) \cup ({s} \X Missed(s, near, d))
        /\ nearby'[d] = (nearby[d] \ SentTo(s, near, d)) \cup {r \in SentTo(s, near, d) : {p, r} \in near}
    BY <2>1, <2>2, <2>3 DEF emitProximityEvents
  <2>5. /\ \A u \in Server : u # s => (Near(u, p, q)' <=> Near(u, p, q))
        /\ Near(s, p, q)' <=> {p, q} \in near
    BY <2>2, <2>4 DEF Near
  <2>6. CASE {p, q} \notin Changed(s, near)
    <3>1. \A u \in Server : <<u, q>> \in unaware'[d] <=> <<u, q>> \in unaware[d]
      BY <2>4, <2>6 DEF Lifted, Missed
    <3>2. q \in nearby'[d] <=> q \in nearby[d]
      BY <2>4, <2>6 DEF SentTo
    <3>3. bus'[s][topic] = bus[s][topic]
      BY <2>3, <2>4, <2>6 DEF Published
    <3>4. Near(s, p, q)' <=> Near(s, p, q)
      BY <2>5, <2>6 DEF Changed, Near
    <3> QED
      BY <1>a, <2>2, <2>4, <2>5, <3>1, <3>2, <3>3, <3>4 DEF Heard
  <2>7. CASE {p, q} \in Changed(s, near)
    <3>1. <<s, q>> \notin unaware'[d] => Reaches(s, d, q)
      BY <2>4, <2>7 DEF Missed
    <3>2. bus[s][topic] \in Seq(Event)
      BY <2>3
    <3>3. ASSUME ~Local(s, p)
          PROVE  bus'[s][topic] # <<>> /\ (Last(bus'[s][topic]) = "enter" <=> Near(s, p, q)')
      <4> DEFINE e == IF {p, q} \in near THEN "enter" ELSE "exit"
      <4>1. e \in Event /\ (e = "enter" <=> {p, q} \in near)
        BY DEF Event
      <4>2. bus'[s][topic] = Append(bus[s][topic], e)
        BY <2>3, <2>4, <2>7, <3>3 DEF Published
      <4> HIDE DEF e
      <4> QED
        BY <2>5, <3>2, <4>1, <4>2, LastOfAppend
    <3>4. ASSUME Local(s, p), <<s, q>> \notin unaware'[d]
          PROVE  host[d] = s /\ bus'[s][topic] = <<>>
      BY <2>3, <2>4, <3>1, <3>4 DEF Reaches, Published
    <3>5. ASSUME NEW u \in Server, u # s, <<u, q>> \notin unaware'[d]
          PROVE  bus[u][topic] = <<>> \/ <<u, q>> \notin unaware[d]
      BY <2>4, <3>5 DEF Lifted
    <3>6. ASSUME NEW u \in Server, <<u, q>> \notin unaware'[d], bus'[u][topic] # <<>>
          PROVE  Last(bus'[u][topic]) = "enter" <=> Near(u, p, q)'
      <4>1. CASE u = s
        BY <3>3, <3>4, <3>6, <4>1
      <4>2. CASE u # s
        BY <1>a, <2>2, <2>4, <2>5, <3>5, <3>6, <4>2
      <4> QED
        BY <4>1, <4>2
    <3>7. ASSUME Heard(s, d, q)' PROVE q \in nearby'[d] <=> Near(s, p, q)'
      <4>1. <<s, q>> \notin unaware'[d] /\ bus'[s][topic] = <<>>
        BY <2>2, <3>7 DEF Heard
      <4>2. host[d] = s
        BY <3>3, <3>4, <4>1
      <4>3. q \in SentTo(s, near, d)
        BY <2>2, <2>7, <4>2 DEF SentTo
      <4> QED
        BY <2>4, <2>5, <4>3
    <3> QED
      BY <2>2, <3>6, <3>7 DEF Near
  <2> QED
    BY <2>6, <2>7
<1>6. ASSUME NEW s \in Server, NEW p \in Player, NEW r \in Player, BusDelivers(s, p, r) PROVE Goal
  <2>1. Hears(d) /\ UNCHANGED <<holder, pairs, unaware>>
    BY <1>6 DEF BusDelivers, registryVars, presenceVars, Hears
  <2>2. <<p, r>> \in Topic /\ <<holder[d], q>> \in Topic
    BY DEF Topic
  <2>3. bus[s][<<p, r>>] \in Seq(Event) /\ bus[s][<<p, r>>] # <<>>
    BY <1>6, <2>2 DEF BusDelivers
  <2>4. bus' = [bus EXCEPT ![s][<<p, r>>] = Tail(bus[s][<<p, r>>])]
    BY <1>6 DEF BusDelivers
  <2>5. \A u \in Server : Near(u, holder[d], q)' <=> Near(u, holder[d], q)
    BY <2>1 DEF Near
  <2>6. CASE holder[d] = p /\ q = r
    <3>1. bus'[s][<<p, q>>] = Tail(bus[s][<<p, q>>])
      BY <2>2, <2>4, <2>6
    <3>2. \A u \in Server : u # s => bus'[u][<<p, q>>] = bus[u][<<p, q>>]
      BY <2>4
    <3>3. /\ Tail(bus[s][<<p, q>>]) # <<>> => Last(Tail(bus[s][<<p, q>>])) = Last(bus[s][<<p, q>>])
          /\ Tail(bus[s][<<p, q>>]) = <<>> => Head(bus[s][<<p, q>>]) = Last(bus[s][<<p, q>>])
      BY <2>3, <2>6, LastOfTail
    <3>4. q \in nearby'[d] <=> Head(bus[s][<<p, q>>]) = "enter"
      BY <1>6, <2>1, <2>6 DEF BusDelivers
    <3>5. \A u \in Server : <<u, q>> \notin unaware[d] /\ bus[u][<<p, q>>] # <<>>
                    => (Last(bus[u][<<p, q>>]) = "enter" <=> Near(u, p, q))
      BY <1>a, <2>1, <2>6
    <3>6. Heard(s, d, q)' => (q \in nearby'[d] <=> Near(s, p, q))
      BY <2>1, <2>3, <2>6, <3>1, <3>3, <3>4, <3>5 DEF Heard
    <3>7. ASSUME NEW u \in Server, <<u, q>> \notin unaware'[d], bus'[u][<<p, q>>] # <<>>
          PROVE  Last(bus'[u][<<p, q>>]) = "enter" <=> Near(u, p, q)
      BY <2>1, <2>3, <2>6, <3>1, <3>2, <3>3, <3>5, <3>7
    <3> QED
      BY <2>1, <2>5, <2>6, <3>6, <3>7
  <2>7. CASE holder[d] # p \/ q # r
    <3>1. <<holder[d], q>> # <<p, r>>
      BY <2>7
    <3>2. \A u \in Server : bus'[u][<<holder[d], q>>] = bus[u][<<holder[d], q>>]
      BY <2>2, <2>4, <3>1
    <3>3. q \in nearby'[d] <=> q \in nearby[d]
      BY <1>6, <2>7 DEF BusDelivers
    <3> QED
      BY <1>a, <2>1, <2>5, <3>2, <3>3 DEF Heard
  <2> QED
    BY <2>6, <2>7
<1>7. ASSUME NEW s \in Server, PresenceRefresh(s) PROVE Goal
  BY <1>7, <1>b DEF PresenceRefresh, registryVars, nearVars, Hears
<1>8. ASSUME NEW p \in Player, PresenceExpires(p) PROVE Goal
  BY <1>8, <1>b DEF PresenceExpires, registryVars, nearVars, Hears
<1>9. ASSUME NEW s \in Server, NEW p \in Player, LookUp(s, p) PROVE Goal
  BY <1>9, <1>b DEF LookUp, registryVars, nearVars, Hears
<1>10. CASE UNCHANGED gatewayVars
  BY <1>10, <1>b DEF gatewayVars, registryVars, nearVars, Hears
<1> QED
  BY <1>1, <1>2, <1>3, <1>4, <1>5, <1>6, <1>7, <1>8, <1>9, <1>10 DEF GatewayNext

(* The invariant holds while nobody is connected. *)
LEMMA GatewayInitially == GatewayInit => GatewayInv
<1> SUFFICES ASSUME GatewayInit PROVE GatewayInv
  OBVIOUS
<1>0. <<>> \in Seq(Event)
  OBVIOUS
<1>1. GatewayTypeOK
  BY <1>0 DEF GatewayInit, GatewayTypeOK
<1>2. OpenInWorld /\ AsPublished /\ ToldWhoIsNear
  BY DEF GatewayInit, OpenInWorld, AsPublished, ToldWhoIsNear, Hears
<1> QED
  BY <1>1, <1>2 DEF GatewayInv

(* A player whose connection is open is registered under it and in the world *)
(* of its server, however connects to any server, lookups and late closes of *)
(* replaced connections interleave (the connection and close handlers).      *)
THEOREM StaysInWorld == GatewaySpec => []OpenInWorld
<1>1. GatewayInv /\ [GatewayNext]_gatewayVars => GatewayInv'
  BY GatewayTypeStep, OpenInWorldStep, ToldStep DEF GatewayInv
<1>2. GatewayInv => OpenInWorld
  BY DEF GatewayInv
<1> QED
  BY GatewayInitially, <1>1, <1>2, PTL DEF GatewaySpec

(* A client that no server is excused to takes a player to be near as some   *)
(* server does, once what the servers have sent it of that player, directly  *)
(* or over the bus, has arrived (emitProximityEvents and sendToDistributed   *)
(* of every server).                                                         *)
THEOREM NeighboursAreTold == GatewaySpec => []ToldWhoIsNear
<1>1. GatewayInv /\ [GatewayNext]_gatewayVars => GatewayInv'
  BY GatewayTypeStep, OpenInWorldStep, ToldStep DEF GatewayInv
<1>2. GatewayInv => ToldWhoIsNear
  BY DEF GatewayInv
<1> QED
  BY GatewayInitially, <1>1, <1>2, PTL DEF GatewaySpec

------------------------------------------------------------------------------
(* The one socket of a bot. *)

AgentTypeOK ==
    /\ ws \in Socket \cup {NoSocket}
    /\ socketState \in [Socket -> {"connecting", "open", "closing", "closed"}]
    /\ timerSet \in BOOLEAN

(* A timer the bot knows of is one that is set. *)
TimersCounted == timers \in Nat /\ (timerSet => timers > 0)

OnlyCurrentLive == \A s \in Live : s = ws

AgentInv == AgentTypeOK /\ TimersCounted /\ OnlyCurrentLive

(* The invariant holds of a bot that was not started. *)
LEMMA AgentInitially == AgentInit => AgentInv
<1>1. AgentInit => AgentTypeOK /\ OnlyCurrentLive
  BY DEF AgentInit, AgentTypeOK, OnlyCurrentLive, Live
<1>2. AgentInit => TimersCounted
  BY DEF AgentInit, TimersCounted
<1> QED
  BY <1>1, <1>2 DEF AgentInv

(* A reconnect timer the bot knows of stays one that is set. *)
LEMMA TimersStep == AgentInv /\ [AgentNext]_agentVars => TimersCounted'
<1> SUFFICES ASSUME AgentTypeOK, TimersCounted, [AgentNext]_agentVars PROVE TimersCounted'
  BY DEF AgentInv
<1>1. ASSUME ClearTimers PROVE TimersCounted'
  <2>1. CASE timerSet
    BY <1>1, <2>1 DEF ClearTimers, TimersCounted
  <2>2. CASE ~timerSet
    BY <1>1, <2>2 DEF ClearTimers, TimersCounted
  <2> QED
    BY <2>1, <2>2
<1>2. CASE reconnectTimer
  BY <1>2 DEF reconnectTimer, TimersCounted
<1>3. ASSUME NEW s \in Socket, onClose(s) PROVE TimersCounted'
  <2>1. CASE running
    BY <1>3, <2>1 DEF onClose, TimersCounted
  <2>2. CASE ~running
    BY <1>3, <2>2 DEF onClose, TimersCounted
  <2> QED
    BY <2>1, <2>2
<1>4. CASE UNCHANGED <<timers, timerSet>>
  BY <1>4 DEF TimersCounted
<1> QED
  BY <1>1, <1>2, <1>3, <1>4
  DEF AgentNext, stop, updateDisplayName, ensureActive, updateBehavior, onOpen, ClosingDone, Dropped,
      onWelcome, onCreated, AnswerChallenge, SubmitAgentMove, onEnded, onAccepted, agentVars, linkVars

(* No step leaves two sockets connecting or open: connect is called only     *)
(* when the current socket is neither.                                       *)
LEMMA SocketStep == AgentInv /\ [AgentNext]_agentVars => AgentTypeOK' /\ OnlyCurrentLive'
<1> DEFINE Inv == AgentTypeOK /\ OnlyCurrentLive
<1> SUFFICES ASSUME Inv, [AgentNext]_agentVars PROVE Inv'
  BY DEF AgentInv
<1> USE SocketAssumption DEF AgentTypeOK, OnlyCurrentLive, Live
<1>1. CASE stop
  BY <1>1 DEF stop, ClearTimers, Closing
<1>2. CASE updateDisplayName
  BY <1>2 DEF updateDisplayName, connect, ClearTimers, Closing, Free
<1>3. CASE ensureActive
  BY <1>3 DEF ensureActive, connect, Free
<1>4. CASE reconnectTimer
  BY <1>4 DEF reconnectTimer, connectUnlessOpen, connect, Free
<1>5. ASSUME NEW s \in Socket, onOpen(s) PROVE Inv'
  BY <1>5 DEF onOpen
<1>6. ASSUME NEW s \in Socket, onClose(s) PROVE Inv'
  <2>1. \A r \in Socket : r \in Live' => r \in Live /\ r # s
    BY <1>6 DEF onClose
  <2>2. /\ ws' \in Socket \cup {NoSocket}
        /\ \A r \in Live' : r = ws'
    BY <1>6, <2>1 DEF onClose, SocketAfterClose
  <2>3. socketState' \in [Socket -> {"connecting", "open", "closing", "closed"}]
    BY <1>6 DEF onClose
  <2>4. timerSet' \in BOOLEAN
    BY <1>6 DEF onClose
  <2> QED
    BY <2>2, <2>3, <2>4
<1>7. ASSUME NEW s \in Socket, onWelcome(s) PROVE Inv'
  BY <1>7 DEF onWelcome
<1>8. ASSUME NEW c \in Offered, onCreated(c) PROVE Inv'
  BY <1>8 DEF onCreated, linkVars
<1>9. ASSUME NEW c \in Offered, AnswerChallenge(c) PROVE Inv'
  BY <1>9 DEF AnswerChallenge, linkVars
<1>10. ASSUME NEW c \in Offered, SubmitAgentMove(c) PROVE Inv'
  BY <1>10 DEF SubmitAgentMove, linkVars
<1>11. ASSUME NEW c \in Offered, onEnded(c) PROVE Inv'
  BY <1>11 DEF onEnded, linkVars
<1>12. ASSUME NEW c \in Offered, NEW b \in BOOLEAN, onAccepted(c, b) PROVE Inv'
  BY <1>12 DEF onAccepted, linkVars
<1>13. CASE updateBehavior
  BY <1>13 DEF updateBehavior, linkVars
<1>14. CASE UNCHANGED agentVars
  BY <1>14 DEF agentVars, linkVars
<1>15. ASSUME NEW s \in Socket, ClosingDone(s) \/ Dropped(s) PROVE Inv'
  BY <1>6, <1>15 DEF ClosingDone, Dropped
<1> QED
  BY <1>1, <1>2, <1>3, <1>4, <1>5, <1>7, <1>8, <1>9, <1>10, <1>11, <1>12, <1>13, <1>14, <1>15
  DEF AgentNext

(* A bot has one socket connecting or open at most, whatever timers, closes  *)
(* and changes of its configuration interleave (connect and its callers in   *)
(* AgentBot).                                                                *)
THEOREM OneSocketAtATime == AgentSpec => []OneSocket
<1>1. AgentInv /\ [AgentNext]_agentVars => AgentInv'
  BY TimersStep, SocketStep DEF AgentInv
<1>2. AgentInv => OneSocket
  <2> SUFFICES ASSUME AgentInv PROVE OneSocket
    OBVIOUS
  <2>1. CASE Live = {}
    BY <2>1, FS_EmptySet DEF OneSocket
  <2>2. CASE Live # {}
    <3>1. Live = {ws}
      BY <2>2 DEF AgentInv, OnlyCurrentLive
    <3> QED
      BY <3>1, FS_Singleton DEF OneSocket
  <2> QED
    BY <2>1, <2>2
<1> QED
  BY AgentInitially, <1>1, <1>2, PTL DEF AgentSpec

------------------------------------------------------------------------------
(* The presence of an owner. *)

BotRecord == [autoplay : BOOLEAN, managed : BOOLEAN]
Settings == [behavior : [Profile -> Behavior], record : [Profile -> BotRecord], superEnabled : BOOLEAN]

BotsTypeOK ==
    /\ behavior \in [Profile -> Behavior]
    /\ record \in [Profile -> BotRecord]
    /\ ownerPresence \in [Profile -> [ttl : Nat \cup {-1}, saved : Behavior]]
    /\ superEnabled \in BOOLEAN
    /\ disk \in Settings
    /\ before \in [Profile -> Behavior]

(* A presence keeps what the bot did when its owner came online. *)
PresenceKept ==
    \A p \in Profile :
        Online(p) => ownerPresence[p].ttl \in Nat /\ ownerPresence[p].saved = before[p]

BotsInv == BotsTypeOK /\ PresenceKept

(* A parked bot is a behavior the record can hold. *)
LEMMA ParkedBehavior == Parked \in Behavior
BY DEF Parked, Behavior

(* So is a delegated one. *)
LEMMA DelegatedBehavior ==
    ASSUME NEW b \in Behavior, NEW r \in BotRecord, NEW enabled \in BOOLEAN
    PROVE  Delegated(b, r, enabled) \in Behavior
BY DEF Delegated, Behavior, Parked, BotRecord

(* Applying the delegation leaves behaviors. *)
LEMMA DelegationType ==
    ASSUME NEW bs \in [Profile -> Behavior], NEW rs \in [Profile -> BotRecord],
           NEW presence, NEW enabled \in BOOLEAN,
           applySuperAgentDelegation(bs, rs, presence, enabled)
    PROVE  behavior' \in [Profile -> Behavior]
BY ParkedBehavior, DelegatedBehavior DEF applySuperAgentDelegation

(* The invariant holds of a runtime that has just started. *)
LEMMA BotsInitially == BotsInit => BotsInv
<1> SUFFICES ASSUME BotsInit PROVE BotsInv
  OBVIOUS
<1>1. BotsTypeOK
  BY ParkedBehavior DEF BotsInit, BotsTypeOK, BotRecord, Settings, Snapshot, NoPresence
<1>2. PresenceKept
  BY DEF BotsInit, PresenceKept, Online
<1> QED
  BY <1>1, <1>2 DEF BotsInv

(* Every step of the runtime keeps what a presence has saved. *)
LEMMA BotsStep == BotsInv /\ [BotsNext]_botVars => BotsInv'
<1> SUFFICES ASSUME BotsInv, [BotsNext]_botVars PROVE BotsInv'
  OBVIOUS
<1> USE DEF BotsInv
<1>a. ASSUME UNCHANGED <<record, ownerPresence, disk, before>>, superEnabled' \in BOOLEAN,
             behavior' \in [Profile -> Behavior]
      PROVE  BotsInv'
  BY <1>a DEF BotsTypeOK, PresenceKept, Online
<1>1. ASSUME NEW enabled \in BOOLEAN, SuperAgentConfig(enabled) PROVE BotsInv'
  BY <1>1, <1>a, DelegationType DEF SuperAgentConfig, BotsTypeOK
<1>2. CASE ApplyDelegation
  BY <1>2, <1>a, DelegationType DEF ApplyDelegation, BotsTypeOK
<1>3. ASSUME NEW commands \in Message, SuperAgentChat(commands) PROVE BotsInv'
  <2>1. superEnabled' \in BOOLEAN
    BY <1>3 DEF SuperAgentChat, EnabledAfter
  <2>2. behavior' \in [Profile -> Behavior]
    BY <1>3, <2>1, DelegationType DEF SuperAgentChat, BotsTypeOK
  <2> QED
    BY <1>3, <1>a, <2>1, <2>2 DEF SuperAgentChat
<1>4. CASE SyncDone
  BY <1>4, <1>a, DelegationType DEF SyncDone, BotsTypeOK
<1>5. ASSUME NEW p \in Profile, NEW b \in Behavior, NEW r \in BotRecord, NEW given \in BOOLEAN,
             Config(p, b, r, given)
      PROVE  BotsInv'
  <2>1. Configured(b, r, given) \in Behavior
    BY ParkedBehavior DEF Configured
  <2>2. behavior' \in [Profile -> Behavior] /\ record' \in [Profile -> BotRecord]
    BY <1>5, <2>1 DEF Config, BotsTypeOK
  <2> QED
    BY <1>5, <2>2 DEF Config, BotsTypeOK, PresenceKept, Online
<1>6. ASSUME NEW p \in Profile, SetOwnerOnline(p) PROVE BotsInv'
  <2>1. PresenceAfter(p) \in [ttl : Nat \cup {-1}, saved : Behavior]
    BY PresenceAssumption DEF PresenceAfter, BotsTypeOK
  <2>2. PresenceAfter(p).ttl \in Nat /\ PresenceAfter(p).saved = before'[p]
    BY <1>6, PresenceAssumption DEF SetOwnerOnline, PresenceAfter, BotsTypeOK, PresenceKept
  <2>3. BotsTypeOK'
    BY <1>6, <2>1, ParkedBehavior DEF SetOwnerOnline, BotsTypeOK
  <2>4. \A q \in Profile \ {p} : ownerPresence'[q] = ownerPresence[q] /\ before'[q] = before[q]
    BY <1>6 DEF SetOwnerOnline, BotsTypeOK
  <2>5. ownerPresence'[p] = PresenceAfter(p)
    BY <1>6 DEF SetOwnerOnline, BotsTypeOK
  <2> QED
    BY <2>2, <2>3, <2>4, <2>5 DEF PresenceKept, Online
<1>b. ASSUME NEW ps \in SUBSET Profile
      PROVE  /\ Restored(ps) \in [Profile -> Behavior]
             /\ PresenceWithout(ps) \in [Profile -> [ttl : Nat \cup {-1}, saved : Behavior]]
  BY ParkedBehavior DEF Restored, PresenceWithout, BotsTypeOK, NoPresence
<1>c. ASSUME NEW ps \in SUBSET Profile, ownerPresence' = PresenceWithout(ps), before' = before
      PROVE  PresenceKept'
  BY <1>c DEF PresenceKept, Online, PresenceWithout
<1>7. ASSUME NEW p \in Profile, SetOwnerOffline(p) PROVE BotsInv'
  <2>1. BotsTypeOK'
    BY <1>7, <1>b DEF SetOwnerOffline, BotsTypeOK
  <2> QED
    BY <1>7, <1>c, <2>1 DEF SetOwnerOffline
<1>8. CASE RuntimeTick
  <2>1. Lapsed \in SUBSET Profile
    BY DEF Lapsed
  <2>2. behavior' \in [Profile -> Behavior]
    BY <1>8, <1>b, <2>1, DelegationType DEF RuntimeTick, BotsTypeOK
  <2>3. BotsTypeOK'
    BY <1>8, <1>b, <2>1, <2>2 DEF RuntimeTick, BotsTypeOK
  <2> QED
    BY <1>8, <1>c, <2>1, <2>3 DEF RuntimeTick
<1>9. CASE PresenceElapse
  <2>1. BotsTypeOK'
    BY <1>9 DEF PresenceElapse, BotsTypeOK
  <2>2. ASSUME NEW p \in Profile, Online(p)'
        PROVE  ownerPresence'[p].ttl \in Nat /\ ownerPresence'[p].saved = before[p]
    <3>1. CASE ownerPresence[p].ttl > 0
      <4>1. Online(p)
        BY <3>1 DEF Online, NoPresence
      <4>2. ownerPresence'[p] = [ownerPresence[p] EXCEPT !.ttl = @ - 1]
        BY <1>9, <3>1 DEF PresenceElapse
      <4> QED
        BY <3>1, <4>1, <4>2 DEF PresenceKept, BotsTypeOK
    <3>2. CASE ~(ownerPresence[p].ttl > 0)
      <4>1. ownerPresence'[p] = ownerPresence[p]
        BY <1>9, <3>2 DEF PresenceElapse
      <4> QED
        BY <2>2, <4>1 DEF PresenceKept, Online
    <3> QED
      BY <3>1, <3>2
  <2> QED
    BY <1>9, <2>1, <2>2 DEF PresenceElapse, PresenceKept
<1>10. CASE Save
  <2>1. disk' \in Settings
    BY <1>10 DEF Save, Snapshot, Settings, BotsTypeOK
  <2> QED
    BY <1>10, <2>1 DEF Save, BotsTypeOK, PresenceKept, Online
<1>11. CASE RuntimeCrash
  <2>1. /\ disk.behavior \in [Profile -> Behavior] /\ disk.record \in [Profile -> BotRecord]
        /\ disk.superEnabled \in BOOLEAN
    BY DEF BotsTypeOK, Settings
  <2>2. behavior' \in [Profile -> Behavior]
    BY <1>11, <2>1, DelegationType DEF RuntimeCrash
  <2>3. NoPresence \in [ttl : Nat \cup {-1}, saved : Behavior]
    BY ParkedBehavior DEF NoPresence
  <2> QED
    BY <1>11, <2>1, <2>2, <2>3 DEF RuntimeCrash, BotsTypeOK, PresenceKept, Online
<1>12. CASE UNCHANGED botVars
  BY <1>12 DEF botVars, BotsTypeOK, PresenceKept, Online
<1> QED
  BY <1>1, <1>2, <1>3, <1>4, <1>5, <1>6, <1>7, <1>8, <1>9, <1>10, <1>11, <1>12
  DEF BotsNext, BotRecord

(* A presence that ends, by the owner leaving or by its time running out,    *)
(* gives the bot back what it did before.                                    *)
LEMMA RestoredStep ==
    ASSUME BotsInv, [BotsNext]_botVars, NEW p \in Profile, Online(p), ownerPresence'[p] = NoPresence,
           ~RuntimeCrash
    PROVE  behavior'[p] \in {before[p], Delegated(before[p], record[p], superEnabled)}
<1>0. ownerPresence[p].saved = before[p] /\ ownerPresence[p].ttl \in Nat
  BY DEF BotsInv, PresenceKept
<1>1. CASE ownerPresence' = ownerPresence
  BY <1>1 DEF Online
<1>2. ASSUME NEW q \in Profile, SetOwnerOnline(q) PROVE FALSE
  <2>1. CASE q = p
    BY <1>2, <2>1, <1>0, PresenceAssumption
    DEF SetOwnerOnline, PresenceAfter, NoPresence, BotsInv, BotsTypeOK
  <2>2. CASE q # p
    BY <1>2, <2>2 DEF SetOwnerOnline, Online, BotsInv, BotsTypeOK
  <2> QED
    BY <2>1, <2>2
<1>3. ASSUME NEW q \in Profile, SetOwnerOffline(q)
      PROVE  behavior'[p] = before[p]
  BY <1>0, <1>3 DEF SetOwnerOffline, PresenceWithout, Restored, Online
<1>4. CASE RuntimeTick
  <2>1. p \in Lapsed
    BY <1>4 DEF RuntimeTick, PresenceWithout, Online
  <2>2. PresenceWithout(Lapsed)[p] = NoPresence /\ Restored(Lapsed)[p] = before[p]
    BY <1>0, <2>1 DEF PresenceWithout, Restored
  <2> QED
    BY <1>4, <2>2 DEF RuntimeTick, applySuperAgentDelegation
<1>5. CASE PresenceElapse
  <2>1. ownerPresence'[p] = IF ownerPresence[p].ttl > 0 THEN [ownerPresence[p] EXCEPT !.ttl = @ - 1]
                            ELSE ownerPresence[p]
    BY <1>5 DEF PresenceElapse
  <2>2. ownerPresence'[p].ttl \in Nat
    BY <1>0, <2>1 DEF BotsInv, BotsTypeOK
  <2> QED
    BY <2>2 DEF NoPresence
<1> QED
  BY <1>1, <1>2, <1>3, <1>4, <1>5
  DEF BotsNext, SuperAgentConfig, ApplyDelegation, SuperAgentChat, SyncDone, Config, Save, botVars

(* When the presence of an owner ends the bot does what it did before the    *)
(* owner came, as the delegation in force changes it, unless the runtime     *)
(* crashed (setOwnerPresence and its expiry in the agent runtime).           *)
THEOREM OwnersSettingsReturn == BotsSpec => PresenceRestores
<1>1. BotsInv /\ [BotsNext]_botVars =>
      [\A p \in Profile : Online(p) /\ ownerPresence'[p] = NoPresence =>
         \/ behavior'[p] \in {before[p], Delegated(before[p], record[p], superEnabled)}
         \/ RuntimeCrash]_botVars
  BY RestoredStep
<1> QED
  BY BotsInitially, BotsStep, <1>1, PTL DEF BotsSpec, PresenceRestores

------------------------------------------------------------------------------
(* The card of the player who is near. *)

(* The panel that is shown names the player its buttons were drawn for, and  *)
(* the key they were drawn by is about that player.                          *)
ButtonsMatchTitle ==
    /\ panelOf # NoTarget => renderedTarget = panelOf
    /\ drawn.target # NoTarget => renderedTarget = drawn.target

PanelInv == listed \subseteq Other /\ ButtonsMatchTitle /\ SentAsShown

(* Whatever is drawn for a player leaves the buttons with that player: they  *)
(* are drawn anew or were drawn by a key that names the player.              *)
LEMMA DrawnForTitle ==
    ASSUME ButtonsMatchTitle, NEW t \in Other, DrawPanel(t)
    PROVE  ButtonsMatchTitle'
<1>1. t # NoTarget /\ RenderKey(t).target = t
  BY PlayerCardAssumption DEF RenderKey
<1> QED
  BY <1>1 DEF DrawPanel, panelVars, ButtonsMatchTitle

(* A panel that shows nothing has no buttons of another player. *)
LEMMA NothingDrawn ==
    ASSUME ButtonsMatchTitle, NEW keep \in BOOLEAN, NoPanel(keep)
    PROVE  ButtonsMatchTitle'
BY DEF NoPanel, ButtonsMatchTitle, NoKey

(* A frame leaves the buttons with the player of the title. *)
LEMMA FrameKeepsPanel == PanelInv /\ CardFrame => ButtonsMatchTitle'
BY DrawnForTitle, NothingDrawn DEF PanelInv, CardFrame

(* Every step of the card keeps the buttons with the player its title names. *)
LEMMA PanelStep == PanelInv /\ [PlayerCardNext]_playerCardVars => PanelInv'
<1> SUFFICES ASSUME PanelInv, [PlayerCardNext]_playerCardVars PROVE PanelInv'
  OBVIOUS
<1> USE DEF PanelInv, SentAsShown, ButtonsMatchTitle
<1>1. CASE InteractKey
  BY <1>1 DEF InteractKey, panelVars, aroundVars
<1>2. CASE EscapeKey
  BY <1>2 DEF EscapeKey, panelVars, aroundVars
<1>3. CASE cycleNearbyTarget
  BY <1>3 DEF cycleNearbyTarget, panelVars, aroundVars
<1>4. CASE CardFrame
  BY <1>4, FrameKeepsPanel DEF CardFrame, aroundVars
<1>5. CASE PressSend
  BY <1>5 DEF PressSend, SendTo, aroundVars
<1>6. CASE SendTimeout
  BY <1>6 DEF SendTimeout, aroundVars
<1>7. CASE SendKey
  <2>1. PICK t \in UiTarget(view) : SendTo(t, NoTarget)
    BY <1>7 DEF SendKey
  <2>2. listed' = listed /\ SentAsShown'
    BY <2>1 DEF SendTo, aroundVars
  <2> QED
    BY <1>7, <2>2 DEF SendKey, panelVars
<1>8. ASSUME NEW a \in AllAnswers, PressAnswer(a) PROVE PanelInv'
  BY <1>8 DEF PressAnswer
<1>9. CASE AnswerTimeout
  BY <1>9 DEF AnswerTimeout, aroundVars
<1>10. ASSUME NEW w \in CardWager, TypeWager(w) PROVE PanelInv'
  BY <1>10 DEF TypeWager, panelVars, aroundVars
<1>11. CASE PressApprove
  BY <1>11 DEF PressApprove, panelVars, aroundVars
<1>12. ASSUME NEW w \in checking, Approved(w) PROVE PanelInv'
  BY <1>12 DEF Approved, panelVars, aroundVars
<1>13. CASE InRange
  BY <1>13 DEF InRange, panelVars
<1>14. CASE Snapshots
  BY <1>14 DEF Snapshots, panelVars
<1>15. CASE ApprovalPolicy \/ LinkChanges \/ DuelEvent \/ RefusedForApproval
  BY <1>15 DEF ApprovalPolicy, LinkChanges, DuelEvent, RefusedForApproval, panelVars, aroundVars
<1>16. CASE UNCHANGED playerCardVars
  BY <1>16 DEF playerCardVars, panelVars, aroundVars
<1> QED
  BY <1>1, <1>2, <1>3, <1>4, <1>5, <1>6, <1>7, <1>8, <1>9, <1>10, <1>11, <1>12, <1>13, <1>14,
     <1>15, <1>16 DEF PlayerCardNext

(* A challenge that is sent goes to the player the panel named when the      *)
(* button was pressed, although the panel is redrawn only when its key       *)
(* changes (the interaction panel of the browser client).                    *)
THEOREM ChallengesNamedPlayer == PlayerCardSpec => []SentAsShown
<1>1. PlayerCardInit => PanelInv
  BY DEF PlayerCardInit, PanelInv, ButtonsMatchTitle, SentAsShown, NoKey, NotSent
<1>2. PanelInv => SentAsShown
  BY DEF PanelInv
<1> QED
  BY <1>1, <1>2, PanelStep, PTL DEF PlayerCardSpec

------------------------------------------------------------------------------
(***************************************************************************)
(* The page of a player.  What it shows now is behind the server by what is *)
(* on its way, and the events on their way overtake acceptances.  So the    *)
(* invariant speaks of the page as it will be once it has handled all of    *)
(* its inbox: a chain of pages, one for each message, the first of them     *)
(* the page as it is.  The last of the chain is in step with the server but *)
(* for the dispatches under way, unless by then it has missed an event.     *)
(***************************************************************************)
EventName == {"created", "accepted", "move_submitted", "invalid"} \cup EndingEvent
Match == [id : Nat, mine : BOOLEAN, status : {"none", "pending", "active", "closed"},
          moved : SUBSET {"me", "other"}]
PageMessage == [event : EventName, challenge : Match, late : BOOLEAN]

PageTypeOK ==
    /\ match \in Match
    /\ dispatching \in Seq([event : EventName, id : Nat])
    /\ inbox \in Seq(PageMessage)
    /\ requests \in Seq([type : {"challenge_send", "challenge_response", "challenge_move"},
                         id : Nat, accept : BOOLEAN])
    /\ incoming \in Nat /\ active \in Match
    /\ known \in BOOLEAN /\ missed \in BOOLEAN

(* A page that is not connected has nothing under way, and the server knows *)
(* a socket of every page that is.                                         *)
LinkInv ==
    /\ link = "open" => known
    /\ link # "open" => inbox = <<>> /\ requests = <<>>

(* What the server is still to send.  Of an open match no end is on its way, *)
(* and one creation at most; creations and moves are of the match that is    *)
(* open or are followed by an end; an acceptance follows its creation.       *)
IsEnding(i) == dispatching[i].event \in EndingEvent
NoLaterIds == \A i \in DOMAIN dispatching : dispatching[i].id <= match.id
NoEndOfOpen == Open(match) => ~ClosingUnderWay
OfOpenOrEnded ==
    \A i \in DOMAIN dispatching :
       dispatching[i].event \in {"created", "move_submitted"} =>
          \/ Open(match) /\ dispatching[i].id = match.id
          \/ \E j \in DOMAIN dispatching : j > i /\ IsEnding(j)
CreatedOnce ==
    Open(match) =>
       \A i, j \in DOMAIN dispatching :
          dispatching[i].event = "created" /\ dispatching[j].event = "created" => i = j
AcceptedAfter ==
    match.status = "active" =>
       \A i \in DOMAIN dispatching : dispatching[i].event = "created" =>
          \E j \in DOMAIN dispatching :
             j > i /\ dispatching[j].event = "accepted" /\ dispatching[j].id = match.id
NotYetAccepted ==
    match.status = "pending" =>
       \A i \in DOMAIN dispatching :
          dispatching[i].event = "accepted" => dispatching[i].id # match.id
DispatchesFit ==
    /\ NoLaterIds /\ NoEndOfOpen /\ OfOpenOrEnded
    /\ CreatedOnce /\ AcceptedAfter /\ NotYetAccepted

(* An answer the page waits for is a request, a dispatch or in the inbox.    *)
Answering == {"created", "accepted", "invalid"} \cup EndingEvent
AnswerDue ==
    responding =>
       \/ missed
       \/ \E i \in DOMAIN requests : requests[i].type = "challenge_response"
       \/ \E i \in DOMAIN inbox : inbox[i].event \in Answering
       \/ \E i \in DOMAIN dispatching : dispatching[i].event \in Answering

(* The page after a message.                                                 *)
After(page, message) ==
    LET challenge == message.challenge IN
    IF message.event \in EndingEvent
    THEN [incoming |-> None, outgoing |-> None, active |-> Nothing, missed |-> message.late]
    ELSE [incoming |-> IF message.event = "accepted" THEN None
                       ELSE IF message.event = "created" /\ ~challenge.mine THEN challenge.id
                       ELSE page.incoming,
          outgoing |-> IF message.event = "accepted" THEN None
                       ELSE IF message.event = "created" /\ challenge.mine THEN challenge.id
                       ELSE page.outgoing,
          active |-> IF message.event = "invalid" THEN page.active ELSE challenge,
          missed |-> page.missed \/ message.late]

(* The page is in step but for what is dispatched.                           *)
Pending(event) ==
    \E i \in DOMAIN dispatching : dispatching[i].event = event /\ dispatching[i].id = match.id
InStep(page) ==
    /\ ~Open(match) /\ ~ClosingUnderWay =>
          page.incoming = None /\ page.outgoing = None /\ page.active = Nothing
    /\ match.status = "pending" =>
          IF Pending("created") THEN page.incoming = None /\ page.outgoing = None
          ELSE /\ page.incoming = (IF match.mine THEN None ELSE match.id)
               /\ page.outgoing = (IF match.mine THEN match.id ELSE None)
    /\ match.status = "active" =>
          Pending("accepted") \/ (page.incoming = None /\ page.outgoing = None)
    /\ Open(match) =>
          \/ page.active = match
          \/ Pending("created") \/ Pending("accepted") \/ Pending("move_submitted")

PageNow == [incoming |-> incoming, outgoing |-> outgoing, active |-> active, missed |-> missed]

Chain(pages) ==
    /\ pages[0] = PageNow
    /\ \A i \in 1 .. Len(inbox) : pages[i] = After(pages[i - 1], inbox[i])

WillBeInStep ==
    \E pages : Chain(pages) /\ (pages[Len(inbox)].missed \/ InStep(pages[Len(inbox)]))

PageInv == PageTypeOK /\ LinkInv /\ DispatchesFit /\ AnswerDue /\ WillBeInStep

-----------------------------------------------------------------------------
LEMMA PageFollows == PageInv => PageFollowsServer
<1> SUFFICES ASSUME PageInv, Settled
             PROVE  /\ incoming = IF match.status = "pending" /\ ~match.mine THEN match.id ELSE None
                    /\ outgoing = IF match.status = "pending" /\ match.mine THEN match.id ELSE None
                    /\ (active.status = "active") <=> (match.status = "active")
                    /\ Open(match) => active = match
                    /\ ~responding
  BY DEF PageFollowsServer
<1>1. PICK pages : Chain(pages) /\ (pages[Len(inbox)].missed \/ InStep(pages[Len(inbox)]))
  BY DEF PageInv, WillBeInStep
<1>2. Len(inbox) = 0 /\ ~missed /\ DOMAIN dispatching = {} /\ DOMAIN inbox = {} /\ DOMAIN requests = {}
  BY DEF Settled
<1>3. InStep(PageNow)
  BY <1>1, <1>2 DEF Chain, PageNow
<1>4. ~responding
  BY <1>2 DEF PageInv, AnswerDue
<1>5. match.status \in {"none", "pending", "active", "closed"}
  BY DEF PageInv, PageTypeOK, Match
<1>6. ~ClosingUnderWay /\ \A e : ~Pending(e)
  BY <1>2 DEF ClosingUnderWay, Pending
<1>7. /\ match.status = "pending" =>
            /\ incoming = (IF match.mine THEN None ELSE match.id)
            /\ outgoing = (IF match.mine THEN match.id ELSE None)
      /\ match.status # "pending" => incoming = None /\ outgoing = None
      /\ Open(match) => active = match
      /\ ~Open(match) => active = Nothing
  BY <1>3, <1>5, <1>6 DEF InStep, PageNow, Open
<1>8. Open(match) <=> match.status \in {"pending", "active"}
  BY DEF Open
<1>9. Nothing.status = "none"
  BY DEF Nothing
<1>10. match.mine \in BOOLEAN
  BY DEF PageInv, PageTypeOK, Match
<1> QED
  BY <1>4, <1>5, <1>7, <1>8, <1>9, <1>10

LEMMA InitPage == ClientInit => PageInv
<1> SUFFICES ASSUME ClientInit PROVE PageInv
  OBVIOUS
<1>1. Nothing \in Match /\ None \in Nat
  BY DEF Nothing, Match, None
<1>2. PageTypeOK
  <2>1. \A S : <<>> \in Seq(S)
    OBVIOUS
  <2>2. match \in Match /\ incoming \in Nat /\ active \in Match
    BY <1>1 DEF ClientInit
  <2>3. known \in BOOLEAN /\ missed \in BOOLEAN
    BY DEF ClientInit
  <2> QED
    BY <2>1, <2>2, <2>3 DEF ClientInit, PageTypeOK
<1>3. LinkInv /\ DispatchesFit /\ AnswerDue
  BY DEF ClientInit, LinkInv, DispatchesFit, AnswerDue, ClosingUnderWay, NoLaterIds, NoEndOfOpen,
     OfOpenOrEnded, CreatedOnce, AcceptedAfter, NotYetAccepted
<1>4. WillBeInStep
  <2>1. Chain([i \in {0} |-> PageNow])
    BY DEF ClientInit, Chain
  <2>2. Len(inbox) = 0 /\ ~Open(match) /\ match.status = "none"
    BY DEF ClientInit, Open, Nothing
  <2>3. InStep(PageNow)
    BY <2>2 DEF ClientInit, InStep, PageNow
  <2> QED
    BY <2>1, <2>2, <2>3 DEF WillBeInStep
<1> QED
  BY <1>2, <1>3, <1>4 DEF PageInv

-----------------------------------------------------------------------------
(* The server: a match changes and a dispatch begins.                       *)
Ends(e) ==
    /\ match'.status = "closed" /\ match'.id >= match.id
    /\ e.event \in EndingEvent /\ e.id = match'.id
    /\ match'.id # match.id \/ Open(match)
Begins(e) ==
    /\ ~Open(match) /\ ~ClosingUnderWay
    /\ match'.status = "pending" /\ match'.id = match.id + 1
    /\ e.event = "created" /\ e.id = match'.id
Starts(e) ==
    /\ match.status = "pending" /\ match' = [match EXCEPT !.status = "active"]
    /\ e.event = "accepted" /\ e.id = match.id
Moves(e) ==
    /\ match.status = "active" /\ match'.status = "active"
    /\ match'.id = match.id /\ match'.mine = match.mine
    /\ e.event = "move_submitted" /\ e.id = match.id
Objects(e) == match' = match /\ e.event = "invalid" /\ e.id = None

ServerActs(e) ==
    /\ e \in [event : EventName, id : Nat] /\ match' \in Match
    /\ dispatching' = Append(dispatching, e)
    /\ Ends(e) \/ Begins(e) \/ Starts(e) \/ Moves(e) \/ Objects(e)

LEMMA AppendedDispatch ==
    ASSUME PageTypeOK, NEW e \in [event : EventName, id : Nat],
           dispatching' = Append(dispatching, e)
    PROVE  /\ Len(dispatching) \in Nat
           /\ DOMAIN dispatching = 1 .. Len(dispatching)
           /\ DOMAIN dispatching' = 1 .. Len(dispatching) + 1
           /\ \A i \in 1 .. Len(dispatching) : dispatching'[i] = dispatching[i]
           /\ dispatching'[Len(dispatching) + 1] = e
           /\ dispatching' \in Seq([event : EventName, id : Nat])
           /\ \A i \in DOMAIN dispatching : dispatching[i] \in [event : EventName, id : Nat]
           /\ match \in Match
<1> DEFINE Waiting == [event : EventName, id : Nat]
<1>1. dispatching \in Seq(Waiting) /\ e \in Waiting /\ match \in Match
  BY DEF PageTypeOK
<1> HIDE DEF Waiting
<1>2. /\ Len(dispatching) \in Nat /\ DOMAIN dispatching = 1 .. Len(dispatching)
      /\ \A i \in DOMAIN dispatching : dispatching[i] \in Waiting
  BY <1>1
<1>3. dispatching' \in Seq(Waiting) /\ Len(dispatching') = Len(dispatching) + 1
  BY <1>1
<1>4. DOMAIN dispatching' = 1 .. Len(dispatching) + 1
  BY <1>3
<1>5. \A i \in 1 .. Len(dispatching) : dispatching'[i] = dispatching[i]
  BY <1>1
<1>6. dispatching'[Len(dispatching) + 1] = e
  BY <1>1
<1> QED
  BY <1>1, <1>2, <1>3, <1>4, <1>5, <1>6 DEF Waiting

LEMMA ServerKeepsFit ==
    ASSUME PageInv, NEW e, ServerActs(e)
    PROVE  DispatchesFit'
<1> DEFINE n == Len(dispatching)
<1>1. /\ n \in Nat /\ DOMAIN dispatching = 1 .. n /\ DOMAIN dispatching' = 1 .. n + 1
      /\ \A i \in 1 .. n : dispatching'[i] = dispatching[i]
      /\ dispatching'[n + 1] = e
      /\ e \in [event : EventName, id : Nat]
      /\ \A i \in 1 .. n : dispatching[i] \in [event : EventName, id : Nat]
      /\ match \in Match /\ match' \in Match
  BY AppendedDispatch DEF PageInv, ServerActs
<1> HIDE DEF n
<1>2. /\ NoLaterIds /\ NoEndOfOpen /\ OfOpenOrEnded
      /\ CreatedOnce /\ AcceptedAfter /\ NotYetAccepted
  BY DEF PageInv, DispatchesFit
<1>3. /\ match.id \in Nat /\ match'.id \in Nat /\ e.id \in Nat
      /\ \A i \in 1 .. n : dispatching[i].id \in Nat
  BY <1>1 DEF Match
<1>4. Ends(e) \/ Begins(e) \/ Starts(e) \/ Moves(e) \/ Objects(e)
  BY DEF ServerActs
<1>5. /\ Ends(e) => match'.status = "closed" /\ match'.id >= match.id /\ e.event \in EndingEvent
                     /\ e.id = match'.id
      /\ Begins(e) => /\ match'.status = "pending" /\ match'.id = match.id + 1
                      /\ e.event = "created" /\ e.id = match'.id
                      /\ ~Open(match) /\ ~ClosingUnderWay
      /\ Starts(e) => /\ match'.status = "active" /\ match'.id = match.id
                      /\ match.status = "pending" /\ e.event = "accepted" /\ e.id = match.id
      /\ Moves(e) => /\ match'.status = "active" /\ match'.id = match.id
                     /\ match.status = "active" /\ e.event = "move_submitted" /\ e.id = match.id
      /\ Objects(e) => match' = match /\ e.event = "invalid" /\ e.id = 0
  BY <1>1 DEF Ends, Begins, Starts, Moves, Objects, Match, None
<1>6. NoLaterIds'
  BY <1>1, <1>2, <1>3, <1>4, <1>5 DEF NoLaterIds
<1>7. NoEndOfOpen'
  BY <1>1, <1>2, <1>4, <1>5 DEF NoEndOfOpen, ClosingUnderWay, Open, EndingEvent
<1>8. OfOpenOrEnded'
  <2> SUFFICES ASSUME NEW i \in 1 .. n + 1,
                      dispatching'[i].event \in {"created", "move_submitted"}
               PROVE  \/ Open(match') /\ dispatching'[i].id = match'.id
                      \/ \E j \in 1 .. n + 1 : j > i /\ dispatching'[j].event \in EndingEvent
    BY <1>1 DEF OfOpenOrEnded, IsEnding
  <2>1. CASE Ends(e)
    <3>1. e.event \notin {"created", "move_submitted"}
      BY <2>1, <1>5 DEF EndingEvent
    <3>2. i \in 1 .. n
      BY <1>1, <3>1
    <3> QED
      BY <1>1, <1>5, <2>1, <3>2
  <2>2. CASE Begins(e) \/ Starts(e) \/ Moves(e) \/ Objects(e)
    <3>1. CASE i = n + 1
      BY <1>1, <1>5, <2>2, <3>1 DEF Open
    <3>2. CASE i \in 1 .. n
      <4>1. \/ Open(match) /\ dispatching[i].id = match.id
            \/ \E j \in 1 .. n : j > i /\ dispatching[j].event \in EndingEvent
        BY <1>1, <1>2, <3>2 DEF OfOpenOrEnded, IsEnding
      <4>2. CASE \E j \in 1 .. n : j > i /\ dispatching[j].event \in EndingEvent
        BY <1>1, <4>2
      <4>3. CASE Open(match) /\ dispatching[i].id = match.id
        BY <1>1, <1>5, <2>2, <3>2, <4>3 DEF Open
      <4> QED
        BY <4>1, <4>2, <4>3
    <3> QED
      BY <1>1, <3>1, <3>2
  <2> QED
    BY <1>4, <2>1, <2>2
<1>9. CreatedOnce'
  <2> SUFFICES ASSUME Open(match'), NEW i \in 1 .. n + 1, NEW j \in 1 .. n + 1,
                      dispatching'[i].event = "created", dispatching'[j].event = "created"
               PROVE  i = j
    BY <1>1 DEF CreatedOnce
  <2>1. ~Ends(e)
    BY <1>5 DEF Open
  <2>2. CASE Begins(e)
    <3>1. \A k \in 1 .. n : dispatching[k].event # "created"
      BY <1>1, <1>2, <1>5, <2>2 DEF OfOpenOrEnded, ClosingUnderWay, IsEnding
    <3> QED
      BY <1>1, <3>1
  <2>3. CASE Starts(e) \/ Moves(e) \/ Objects(e)
    <3>1. Open(match) /\ e.event # "created"
      BY <1>5, <2>3 DEF Open
    <3> QED
      BY <1>1, <1>2, <3>1 DEF CreatedOnce
  <2> QED
    BY <1>4, <2>1, <2>2, <2>3
<1>10. AcceptedAfter'
  <2> SUFFICES ASSUME match'.status = "active", NEW i \in 1 .. n + 1,
                      dispatching'[i].event = "created"
               PROVE  \E j \in 1 .. n + 1 :
                         /\ j > i /\ dispatching'[j].event = "accepted"
                         /\ dispatching'[j].id = match'.id
    BY <1>1 DEF AcceptedAfter
  <2>1. e.event # "created" /\ (Starts(e) \/ Moves(e) \/ Objects(e))
    BY <1>4, <1>5
  <2>2. i \in 1 .. n
    BY <1>1, <2>1
  <2>3. CASE Starts(e)
    BY <1>1, <1>5, <2>2, <2>3
  <2>4. CASE Moves(e) \/ Objects(e)
    <3>1. match.status = "active" /\ match'.id = match.id
      BY <1>5, <2>4
    <3>2. PICK j \in 1 .. n : /\ j > i /\ dispatching[j].event = "accepted"
                              /\ dispatching[j].id = match.id
      BY <1>1, <1>2, <2>2, <3>1 DEF AcceptedAfter
    <3> QED
      BY <1>1, <3>1, <3>2
  <2> QED
    BY <2>1, <2>3, <2>4
<1>11. NotYetAccepted'
  <2> SUFFICES ASSUME match'.status = "pending", NEW i \in 1 .. n + 1,
                      dispatching'[i].event = "accepted"
               PROVE  dispatching'[i].id # match'.id
    BY <1>1 DEF NotYetAccepted
  <2>1. e.event # "accepted" /\ (Begins(e) \/ Objects(e))
    BY <1>4, <1>5
  <2>2. i \in 1 .. n
    BY <1>1, <2>1
  <2>3. CASE Begins(e)
    <3>1. dispatching[i].id <= match.id
      BY <1>1, <1>2, <2>2 DEF NoLaterIds
    <3> QED
      BY <1>1, <1>3, <1>5, <2>2, <2>3, <3>1
  <2>4. CASE Objects(e)
    BY <1>1, <1>2, <1>5, <2>2, <2>4 DEF NotYetAccepted
  <2> QED
    BY <2>1, <2>3, <2>4
<1> QED
  BY <1>6, <1>7, <1>8, <1>9, <1>10, <1>11 DEF DispatchesFit

(* A page in step stays in step: what changed has just been dispatched.      *)
LEMMA ServerKeepsStep ==
    ASSUME PageInv, NEW e, ServerActs(e), NEW page, InStep(page)
    PROVE  InStep(page)'
<1> DEFINE n == Len(dispatching)
<1>1. /\ n \in Nat /\ DOMAIN dispatching = 1 .. n /\ DOMAIN dispatching' = 1 .. n + 1
      /\ \A i \in 1 .. n : dispatching'[i] = dispatching[i]
      /\ dispatching'[n + 1] = e
      /\ match \in Match /\ match' \in Match
  BY AppendedDispatch DEF PageInv, ServerActs
<1> HIDE DEF n
<1>2. /\ n + 1 \in DOMAIN dispatching'
      /\ \A i \in DOMAIN dispatching : i \in DOMAIN dispatching'
  BY <1>1
<1>3. Ends(e) \/ Begins(e) \/ Starts(e) \/ Moves(e) \/ Objects(e)
  BY DEF ServerActs
<1>4. \A event : match'.id = match.id => (Pending(event) => Pending(event)')
  BY <1>1, <1>2 DEF Pending
<1>5. e.id = match'.id => Pending(e.event)'
  BY <1>1, <1>2 DEF Pending
<1>6. e.event \notin {"created"} /\ match'.id = match.id => (Pending("created")' => Pending("created"))
  BY <1>1 DEF Pending
<1>7. ClosingUnderWay => ClosingUnderWay'
  BY <1>1, <1>2 DEF ClosingUnderWay
<1>8. CASE Ends(e)
  <2>1. ClosingUnderWay' /\ ~Open(match') /\ match'.status = "closed"
    BY <1>1, <1>2, <1>8 DEF Ends, ClosingUnderWay, Open
  <2> QED
    BY <2>1 DEF InStep
<1>9. CASE Begins(e)
  <2>1. Pending("created")' /\ match'.status = "pending"
    BY <1>5, <1>9 DEF Begins
  <2>2. page.incoming = None /\ page.outgoing = None
    BY <1>9 DEF Begins, InStep
  <2> QED
    BY <2>1, <2>2 DEF InStep, Open
<1>10. CASE Starts(e)
  <2>1. Pending("accepted")' /\ match'.status = "active"
    BY <1>1, <1>5, <1>10 DEF Starts, Match
  <2> QED
    BY <2>1 DEF InStep, Open
<1>11. CASE Moves(e)
  <2>1. /\ Pending("move_submitted")' /\ match'.status = "active" /\ match'.id = match.id
        /\ match.status = "active"
    BY <1>5, <1>11 DEF Moves
  <2> QED
    BY <1>4, <2>1 DEF InStep, Open
<1>12. CASE Objects(e)
  <2>1. match' = match /\ e.event = "invalid"
    BY <1>12 DEF Objects
  <2>2. ClosingUnderWay' => ClosingUnderWay
    BY <1>1, <2>1 DEF ClosingUnderWay, EndingEvent
  <2>3. \A event : Pending(event) => Pending(event)'
    BY <1>4, <2>1
  <2>4. Pending("created")' => Pending("created")
    BY <1>6, <2>1
  <2>5. Open(match)' <=> Open(match)
    BY <2>1
  <2> QED
    BY <1>7, <2>1, <2>2, <2>3, <2>4, <2>5 DEF InStep
<1> QED
  BY <1>3, <1>8, <1>9, <1>10, <1>11, <1>12

-----------------------------------------------------------------------------
(* A dispatch that is over leaves the list, overtaking acceptances only.     *)
Removed(i) ==
    /\ i \in DOMAIN dispatching /\ Ready(i)
    /\ dispatching' = [j \in 1 .. Len(dispatching) - 1 |->
                          dispatching[IF j < i THEN j ELSE j + 1]]
    /\ match' = match

MessageOf(i) ==
    LET d == dispatching[i]
        challenge == CurrentChallenge(d.id)
    IN  [event |-> d.event, challenge |-> challenge,
         late |-> d.event = "accepted" /\ ~Open(challenge)]

LEMMA RemovedDispatch ==
    ASSUME PageTypeOK, NEW i, Removed(i)
    PROVE  /\ Len(dispatching) \in Nat
           /\ DOMAIN dispatching = 1 .. Len(dispatching) /\ i \in 1 .. Len(dispatching)
           /\ DOMAIN dispatching' = 1 .. Len(dispatching) - 1
           /\ \A j \in 1 .. Len(dispatching) - 1 :
                 j < i => dispatching'[j] = dispatching[j]
           /\ \A j \in 1 .. Len(dispatching) - 1 :
                 j >= i => dispatching'[j] = dispatching[j + 1]
           /\ \A j \in 1 .. Len(dispatching) : j < i => j \in 1 .. Len(dispatching) - 1
           /\ \A j \in 1 .. Len(dispatching) :
                 j > i => j - 1 \in 1 .. Len(dispatching) - 1 /\ dispatching'[j - 1] = dispatching[j]
           /\ \A j \in 1 .. Len(dispatching) : j < i => dispatching[j].event = "accepted"
           /\ dispatching' \in Seq([event : EventName, id : Nat])
           /\ \A j \in DOMAIN dispatching : dispatching[j] \in [event : EventName, id : Nat]
           /\ match \in Match
<1> DEFINE Waiting == [event : EventName, id : Nat]
           n == Len(dispatching)
<1>1. dispatching \in Seq(Waiting) /\ match \in Match
  BY DEF PageTypeOK
<1> HIDE DEF Waiting
<1>2. /\ n \in Nat /\ DOMAIN dispatching = 1 .. n
      /\ \A j \in DOMAIN dispatching : dispatching[j] \in Waiting
  BY <1>1
<1> HIDE DEF n
<1>3. /\ i \in 1 .. n
      /\ dispatching' = [j \in 1 .. n - 1 |-> dispatching[IF j < i THEN j ELSE j + 1]]
  BY <1>2 DEF Removed, n
<1>4. DOMAIN dispatching' = 1 .. n - 1
  BY <1>3
<1>5. \A j \in 1 .. n - 1 : j < i => dispatching'[j] = dispatching[j]
  BY <1>3
<1>6. \A j \in 1 .. n - 1 : j >= i => dispatching'[j] = dispatching[j + 1]
  BY <1>2, <1>3
<1>7. \A j \in 1 .. n : j < i => j \in 1 .. n - 1
  BY <1>2, <1>3
<1>8. \A j \in 1 .. n : j > i => j - 1 \in 1 .. n - 1 /\ dispatching'[j - 1] = dispatching[j]
  <2> SUFFICES ASSUME NEW j \in 1 .. n, j > i
               PROVE  j - 1 \in 1 .. n - 1 /\ dispatching'[j - 1] = dispatching[j]
    OBVIOUS
  <2>1. j - 1 \in 1 .. n - 1 /\ j - 1 >= i /\ (j - 1) + 1 = j
    BY <1>2, <1>3
  <2> QED
    BY <1>6, <2>1
<1>9. \A j \in 1 .. n : j < i => dispatching[j].event = "accepted"
  <2> SUFFICES ASSUME NEW j \in 1 .. n, j < i PROVE dispatching[j].event = "accepted"
    OBVIOUS
  <2>1. j \in 1 .. i - 1
    BY <1>2, <1>3
  <2> QED
    BY <2>1 DEF Removed, Ready
<1>10. \A j \in 1 .. n - 1 : dispatching'[j] \in Waiting
  <2> SUFFICES ASSUME NEW j \in 1 .. n - 1 PROVE dispatching'[j] \in Waiting
    OBVIOUS
  <2>1. j \in 1 .. n /\ j + 1 \in 1 .. n
    BY <1>2
  <2> QED
    BY <1>2, <1>3, <1>5, <1>6, <2>1
<1>11. dispatching' \in Seq(Waiting)
  <2>1. dispatching' = [j \in 1 .. n - 1 |-> dispatching'[j]]
    BY <1>3
  <2>2. n - 1 \in Nat
    BY <1>2, <1>3
  <2> QED
    BY <1>10, <2>1, <2>2
<1> QED
  BY <1>1, <1>2, <1>3, <1>4, <1>5, <1>6, <1>7, <1>8, <1>9, <1>11 DEF Waiting, n

LEMMA DeliveryKeepsFit ==
    ASSUME PageInv, NEW i, Removed(i)
    PROVE  DispatchesFit'
<1> DEFINE n == Len(dispatching)
<1>1. /\ n \in Nat /\ DOMAIN dispatching = 1 .. n /\ i \in 1 .. n
      /\ DOMAIN dispatching' = 1 .. n - 1
      /\ \A j \in 1 .. n - 1 : j < i => dispatching'[j] = dispatching[j]
      /\ \A j \in 1 .. n - 1 : j >= i => dispatching'[j] = dispatching[j + 1]
      /\ \A j \in 1 .. n : j < i => j \in 1 .. n - 1
      /\ \A j \in 1 .. n : j > i => j - 1 \in 1 .. n - 1 /\ dispatching'[j - 1] = dispatching[j]
      /\ \A j \in 1 .. n : j < i => dispatching[j].event = "accepted"
  BY RemovedDispatch DEF PageInv
<1> HIDE DEF n
<1>2. /\ NoLaterIds /\ NoEndOfOpen /\ OfOpenOrEnded
      /\ CreatedOnce /\ AcceptedAfter /\ NotYetAccepted
  BY DEF PageInv, DispatchesFit
<1>3. match' = match
  BY DEF Removed
(* Every dispatch that is left was there before, in the same order. *)
<1>4. \A j \in 1 .. n - 1 : \E k \in 1 .. n :
         /\ dispatching'[j] = dispatching[k] /\ k # i
         /\ k = IF j < i THEN j ELSE j + 1
  <2> SUFFICES ASSUME NEW j \in 1 .. n - 1
               PROVE  \E k \in 1 .. n : /\ dispatching'[j] = dispatching[k] /\ k # i
                                        /\ k = IF j < i THEN j ELSE j + 1
    OBVIOUS
  <2>1. CASE j < i
    BY <1>1, <2>1
  <2>2. CASE j >= i
    <3>1. j + 1 \in 1 .. n /\ j + 1 # i
      BY <1>1, <2>2
    <3> QED
      BY <1>1, <2>2, <3>1
  <2> QED
    BY <1>1, <2>1, <2>2
<1>5. \A k \in 1 .. n : k # i =>
         \E j \in 1 .. n - 1 : /\ dispatching'[j] = dispatching[k]
                               /\ k = IF j < i THEN j ELSE j + 1
  <2> SUFFICES ASSUME NEW k \in 1 .. n, k # i
               PROVE  \E j \in 1 .. n - 1 : /\ dispatching'[j] = dispatching[k]
                                            /\ k = IF j < i THEN j ELSE j + 1
    OBVIOUS
  <2>1. CASE k < i
    BY <1>1, <2>1
  <2>2. CASE k > i
    <3>1. k - 1 \in 1 .. n - 1 /\ dispatching'[k - 1] = dispatching[k]
      BY <1>1, <2>2
    <3>2. ~(k - 1 < i) /\ k = (k - 1) + 1
      BY <1>1, <2>2
    <3> QED
      BY <3>1, <3>2
  <2> QED
    BY <1>1, <2>1, <2>2
<1>6. NoLaterIds'
  BY <1>1, <1>2, <1>3, <1>4 DEF NoLaterIds
<1>7. NoEndOfOpen'
  BY <1>1, <1>2, <1>3, <1>4 DEF NoEndOfOpen, ClosingUnderWay
<1>8. OfOpenOrEnded'
  <2> SUFFICES ASSUME NEW j \in 1 .. n - 1,
                      dispatching'[j].event \in {"created", "move_submitted"}
               PROVE  \/ Open(match) /\ dispatching'[j].id = match.id
                      \/ \E l \in 1 .. n - 1 : l > j /\ dispatching'[l].event \in EndingEvent
    BY <1>1, <1>3 DEF OfOpenOrEnded, IsEnding
  <2>1. PICK k \in 1 .. n : /\ dispatching'[j] = dispatching[k] /\ k # i
                            /\ k = IF j < i THEN j ELSE j + 1
    BY <1>4
  <2>2. ~(k < i)
    BY <1>1, <2>1
  <2>3. \/ Open(match) /\ dispatching[k].id = match.id
        \/ \E m \in 1 .. n : m > k /\ dispatching[m].event \in EndingEvent
    BY <1>1, <1>2, <2>1 DEF OfOpenOrEnded, IsEnding
  <2>4. ASSUME NEW m \in 1 .. n, m > k, dispatching[m].event \in EndingEvent
        PROVE  \E l \in 1 .. n - 1 : l > j /\ dispatching'[l].event \in EndingEvent
    <3>1. m # i
      BY <1>1, <2>1, <2>2, <2>4
    <3>2. PICK l \in 1 .. n - 1 : /\ dispatching'[l] = dispatching[m]
                                  /\ m = IF l < i THEN l ELSE l + 1
      BY <1>5, <3>1
    <3>3. l > j
      BY <1>1, <2>1, <2>2, <2>4, <3>2
    <3> QED
      BY <2>4, <3>2, <3>3
  <2> QED
    BY <2>1, <2>3, <2>4
<1>9. CreatedOnce'
  <2> SUFFICES ASSUME Open(match), NEW j \in 1 .. n - 1, NEW l \in 1 .. n - 1,
                      dispatching'[j].event = "created", dispatching'[l].event = "created"
               PROVE  j = l
    BY <1>1, <1>3 DEF CreatedOnce
  <2>1. PICK k \in 1 .. n : /\ dispatching'[j] = dispatching[k] /\ k # i
                            /\ k = IF j < i THEN j ELSE j + 1
    BY <1>4
  <2>2. PICK m \in 1 .. n : /\ dispatching'[l] = dispatching[m] /\ m # i
                            /\ m = IF l < i THEN l ELSE l + 1
    BY <1>4
  <2>3. k = m
    BY <1>1, <1>2, <2>1, <2>2 DEF CreatedOnce
  <2> QED
    BY <1>1, <2>1, <2>2, <2>3
<1>10. AcceptedAfter'
  <2> SUFFICES ASSUME match.status = "active", NEW j \in 1 .. n - 1,
                      dispatching'[j].event = "created"
               PROVE  \E l \in 1 .. n - 1 :
                         /\ l > j /\ dispatching'[l].event = "accepted"
                         /\ dispatching'[l].id = match.id
    BY <1>1, <1>3 DEF AcceptedAfter
  <2>1. PICK k \in 1 .. n : /\ dispatching'[j] = dispatching[k] /\ k # i
                            /\ k = IF j < i THEN j ELSE j + 1
    BY <1>4
  <2>2. ~(k < i)
    BY <1>1, <2>1
  <2>3. PICK m \in 1 .. n : /\ m > k /\ dispatching[m].event = "accepted"
                            /\ dispatching[m].id = match.id
    BY <1>1, <1>2, <2>1 DEF AcceptedAfter
  <2>4. m # i
    BY <1>1, <2>1, <2>2, <2>3
  <2>5. PICK l \in 1 .. n - 1 : /\ dispatching'[l] = dispatching[m]
                                /\ m = IF l < i THEN l ELSE l + 1
    BY <1>5, <2>4
  <2>6. l > j
    BY <1>1, <2>1, <2>2, <2>3, <2>5
  <2> QED
    BY <2>3, <2>5, <2>6
<1>11. NotYetAccepted'
  BY <1>1, <1>2, <1>3, <1>4 DEF NotYetAccepted
<1> QED
  BY <1>6, <1>7, <1>8, <1>9, <1>10, <1>11 DEF DispatchesFit

(* The page that handles a delivered event last is in step again, or has    *)
(* missed one.                                                             *)
LEMMA DeliveryKeepsStep ==
    ASSUME PageInv, NEW i, Removed(i), NEW page, page.missed \/ InStep(page),
           NEW after, after = After(page, MessageOf(i))
    PROVE  after.missed \/ InStep(after)'
<1> DEFINE n == Len(dispatching)
           d == dispatching[i]
<1>1. /\ n \in Nat /\ DOMAIN dispatching = 1 .. n /\ i \in 1 .. n
      /\ DOMAIN dispatching' = 1 .. n - 1
      /\ \A j \in 1 .. n - 1 : j < i => dispatching'[j] = dispatching[j]
      /\ \A j \in 1 .. n - 1 : j >= i => dispatching'[j] = dispatching[j + 1]
      /\ \A j \in 1 .. n : j < i => j \in 1 .. n - 1
      /\ \A j \in 1 .. n : j > i => j - 1 \in 1 .. n - 1 /\ dispatching'[j - 1] = dispatching[j]
      /\ \A j \in 1 .. n : j < i => dispatching[j].event = "accepted"
      /\ d \in [event : EventName, id : Nat]
      /\ match \in Match
  BY RemovedDispatch DEF PageInv
<1> HIDE DEF n
<1>2. /\ NoLaterIds /\ NoEndOfOpen /\ OfOpenOrEnded
      /\ CreatedOnce /\ AcceptedAfter /\ NotYetAccepted
  BY DEF PageInv, DispatchesFit
<1>3. match' = match
  BY DEF Removed
<1>4. \A k \in 1 .. n : k # i =>
         \E j \in DOMAIN dispatching' : dispatching'[j] = dispatching[k]
  <2> SUFFICES ASSUME NEW k \in 1 .. n, k # i
               PROVE  \E j \in DOMAIN dispatching' : dispatching'[j] = dispatching[k]
    OBVIOUS
  <2>1. CASE k < i
    BY <1>1, <2>1
  <2>2. CASE k > i
    BY <1>1, <2>2
  <2> QED
    BY <1>1, <2>1, <2>2
<1>5. \A j \in DOMAIN dispatching' : \E k \in 1 .. n : dispatching'[j] = dispatching[k] /\ k # i
  <2> SUFFICES ASSUME NEW j \in 1 .. n - 1
               PROVE  \E k \in 1 .. n : dispatching'[j] = dispatching[k] /\ k # i
    BY <1>1
  <2>1. CASE j < i
    BY <1>1, <2>1
  <2>2. CASE j >= i
    <3>1. j + 1 \in 1 .. n /\ j + 1 # i
      BY <1>1, <2>2
    <3> QED
      BY <1>1, <2>2, <3>1
  <2> QED
    BY <1>1, <2>1, <2>2
<1>6. /\ MessageOf(i).event = d.event
      /\ MessageOf(i).challenge = CurrentChallenge(d.id)
      /\ MessageOf(i).late = (d.event = "accepted" /\ ~Open(CurrentChallenge(d.id)))
  BY DEF MessageOf
<1>7. d.id = match.id => CurrentChallenge(d.id) = match
  BY DEF CurrentChallenge
<1>8. d.id # match.id => ~Open(CurrentChallenge(d.id))
  BY DEF CurrentChallenge, Open, Nothing
<1>9. ASSUME NEW event, event # d.event
      PROVE  Pending(event)' <=> Pending(event)
  <2>1. Pending(event) => Pending(event)'
    BY <1>1, <1>3, <1>4, <1>9 DEF Pending
  <2>2. Pending(event)' => Pending(event)
    BY <1>1, <1>3, <1>5 DEF Pending
  <2> QED
    BY <2>1, <2>2
<1>10. d.event \notin EndingEvent => (ClosingUnderWay' <=> ClosingUnderWay)
  <2>1. ClosingUnderWay' => ClosingUnderWay
    BY <1>1, <1>5 DEF ClosingUnderWay
  <2>2. d.event \notin EndingEvent /\ ClosingUnderWay => ClosingUnderWay'
    BY <1>1, <1>4 DEF ClosingUnderWay
  <2> QED
    BY <2>1, <2>2
<1> HIDE DEF d
<1>11. EndingEvent \cap {"created", "accepted", "move_submitted", "invalid"} = {}
  BY DEF EndingEvent
<1>12. CASE d.event \in EndingEvent
  <2>1. /\ after.incoming = None /\ after.outgoing = None /\ after.active = Nothing
    BY <1>6, <1>12 DEF After
  <2>2. ~Open(match)
    BY <1>1, <1>2, <1>12 DEF NoEndOfOpen, ClosingUnderWay, d
  <2>3. match.status # "pending" /\ match.status # "active"
    BY <2>2 DEF Open
  <2> QED
    BY <1>3, <2>1, <2>2, <2>3 DEF InStep
<1>13. CASE d.event \notin EndingEvent
  <2>1. /\ after.missed = (page.missed \/ MessageOf(i).late)
        /\ after.incoming = IF d.event = "accepted" THEN None
                            ELSE IF d.event = "created" /\ ~CurrentChallenge(d.id).mine
                            THEN CurrentChallenge(d.id).id ELSE page.incoming
        /\ after.outgoing = IF d.event = "accepted" THEN None
                            ELSE IF d.event = "created" /\ CurrentChallenge(d.id).mine
                            THEN CurrentChallenge(d.id).id ELSE page.outgoing
        /\ after.active = IF d.event = "invalid" THEN page.active ELSE CurrentChallenge(d.id)
    BY <1>6, <1>13 DEF After
  <2>2. SUFFICES ASSUME ~page.missed, ~MessageOf(i).late
                 PROVE  InStep(after)'
    BY <2>1
  <2>3. InStep(page)
    BY <2>2
  <2>4. d.event \in {"created", "accepted", "move_submitted", "invalid"}
    BY <1>1, <1>13 DEF EventName
  <2>5. ClosingUnderWay' <=> ClosingUnderWay
    BY <1>10, <1>13
  <2>6. CASE d.event = "invalid"
    <3>1. after.incoming = page.incoming /\ after.outgoing = page.outgoing
             /\ after.active = page.active
      BY <2>1, <2>6
    <3>2. /\ Pending("created")' <=> Pending("created")
          /\ Pending("accepted")' <=> Pending("accepted")
          /\ Pending("move_submitted")' <=> Pending("move_submitted")
      BY <1>9, <2>6
    <3> QED
      BY <1>3, <2>3, <2>5, <3>1, <3>2 DEF InStep
  <2>7. CASE d.event = "accepted"
    <3>1. Open(match) /\ d.id = match.id
      BY <1>6, <1>7, <1>8, <2>2, <2>7
    <3>2. match.status = "active"
      BY <1>1, <1>2, <2>7, <3>1 DEF NotYetAccepted, Open, d
    <3> QED
      BY <1>3, <1>7, <2>1, <2>7, <3>1, <3>2 DEF InStep
  <2>8. CASE d.event \in {"created", "move_submitted"}
    <3>1. CASE ~Open(match)
      <4>1. ClosingUnderWay
        BY <1>1, <1>2, <2>8, <3>1 DEF OfOpenOrEnded, ClosingUnderWay, IsEnding, d
      <4>2. match.status # "pending" /\ match.status # "active"
        BY <3>1 DEF Open
      <4> QED
        BY <1>3, <2>5, <3>1, <4>1, <4>2 DEF InStep
    <3>2. CASE Open(match)
      <4>1. d.id = match.id
        BY <1>1, <1>2, <2>8, <3>2 DEF OfOpenOrEnded, NoEndOfOpen, ClosingUnderWay, IsEnding, d
      <4>2. after.active = match
        BY <1>7, <2>1, <2>8, <4>1
      <4>3. Pending("accepted")' <=> Pending("accepted")
        BY <1>9, <2>8
      <4>4. CASE d.event = "move_submitted"
        <5>1. Pending("created")' <=> Pending("created")
          BY <1>9, <4>4
        <5>2. after.incoming = page.incoming /\ after.outgoing = page.outgoing
          BY <2>1, <4>4
        <5> QED
          BY <1>3, <2>3, <3>2, <4>2, <4>3, <5>1, <5>2 DEF InStep
      <4>5. CASE d.event = "created"
        <5>1. Pending("created")
          BY <1>1, <4>1, <4>5 DEF Pending, d
        <5>2. ~Pending("created")'
          BY <1>1, <1>2, <1>3, <1>5, <3>2, <4>5 DEF Pending, CreatedOnce, d
        <5>3. match.status = "active" => Pending("accepted")
          BY <1>1, <1>2, <4>5 DEF AcceptedAfter, Pending, d
        <5>4. match.status = "pending" =>
                 /\ after.incoming = (IF match.mine THEN None ELSE match.id)
                 /\ after.outgoing = (IF match.mine THEN match.id ELSE None)
          BY <1>7, <2>1, <2>3, <4>1, <4>5, <5>1 DEF InStep
        <5> QED
          BY <1>3, <3>2, <4>2, <4>3, <5>2, <5>3, <5>4 DEF InStep
      <4> QED
        BY <2>8, <4>4, <4>5
    <3> QED
      BY <3>1, <3>2
  <2> QED
    BY <2>4, <2>6, <2>7, <2>8
<1> QED
  BY <1>12, <1>13

-----------------------------------------------------------------------------
(* What the server does is to dispatch an event for each change.            *)
LEMMA CreateActs ==
    ASSUME PageTypeOK, NEW mine \in BOOLEAN, Create(mine)
    PROVE  \E e : ServerActs(e)
<1>1. match \in Match /\ match.id \in Nat /\ match.id + 1 \in Nat /\ None \in Nat
  BY DEF PageTypeOK, Match, None
<1>2. CASE Open(match)
  <2> DEFINE e == [event |-> "invalid", id |-> None]
  <2>1. e \in [event : EventName, id : Nat]
    BY <1>1 DEF EventName
  <2>2. dispatching' = Append(dispatching, e) /\ match' = match
    BY <1>2 DEF Create, Dispatch
  <2>3. ServerActs(e)
    BY <1>1, <2>1, <2>2 DEF ServerActs, Objects
  <2> QED
    BY <2>3
<1>3. CASE ~Open(match) /\ ClosingUnderWay
  <2> DEFINE e == [event |-> "declined", id |-> match.id + 1]
  <2>1. e \in [event : EventName, id : Nat]
    BY <1>1 DEF EventName, EndingEvent
  <2>2. /\ dispatching' = Append(dispatching, e)
        /\ match' = [Nothing EXCEPT !.id = match.id + 1, !.mine = mine, !.status = "closed"]
    BY <1>3 DEF Create, Dispatch
  <2>3. match' \in Match /\ match'.id = match.id + 1 /\ match'.status = "closed"
    BY <1>1, <2>2 DEF Nothing, Match
  <2>4. Ends(e)
    BY <1>1, <2>3 DEF Ends, EndingEvent
  <2>5. ServerActs(e)
    BY <2>1, <2>2, <2>3, <2>4 DEF ServerActs
  <2> QED
    BY <2>5
<1>4. CASE ~Open(match) /\ ~ClosingUnderWay
  <2> DEFINE e == [event |-> "created", id |-> match.id + 1]
  <2>1. e \in [event : EventName, id : Nat]
    BY <1>1 DEF EventName
  <2>2. /\ dispatching' = Append(dispatching, e)
        /\ match' = [Nothing EXCEPT !.id = match.id + 1, !.mine = mine, !.status = "pending"]
    BY <1>4 DEF Create, Dispatch
  <2>3. match' \in Match /\ match'.id = match.id + 1 /\ match'.status = "pending"
    BY <1>1, <2>2 DEF Nothing, Match
  <2>4. Begins(e)
    BY <1>4, <2>3 DEF Begins
  <2>5. ServerActs(e)
    BY <2>1, <2>2, <2>3, <2>4 DEF ServerActs
  <2> QED
    BY <2>5
<1> QED
  BY <1>2, <1>3, <1>4

LEMMA EndActs ==
    ASSUME PageTypeOK, NEW event \in EndingEvent, Open(match),
           match'.status = "closed", match' \in Match, match'.id = match.id,
           Dispatch(event, match.id)
    PROVE  \E e : ServerActs(e) /\ e.event \in Answering
<1> DEFINE e == [event |-> event, id |-> match.id]
<1>1. e \in [event : EventName, id : Nat] /\ dispatching' = Append(dispatching, e)
  BY DEF PageTypeOK, Match, EventName, Dispatch
<1>2. Ends(e)
  BY DEF Ends, PageTypeOK, Match
<1>3. ServerActs(e) /\ e.event \in Answering
  BY <1>1, <1>2 DEF ServerActs, Answering
<1> QED
  BY <1>3

LEMMA ObjectActs ==
    ASSUME PageTypeOK, Dispatch("invalid", None), match' = match
    PROVE  \E e : ServerActs(e) /\ e.event \in Answering
<1> DEFINE e == [event |-> "invalid", id |-> None]
<1>1. e \in [event : EventName, id : Nat] /\ dispatching' = Append(dispatching, e)
  BY DEF None, EventName, Dispatch
<1>2. ServerActs(e) /\ e.event \in Answering
  BY <1>1 DEF ServerActs, Answering, Objects, PageTypeOK
<1> QED
  BY <1>2

LEMMA AnswerActs ==
    ASSUME PageTypeOK, match.status = "pending", NEW accept \in BOOLEAN,
           match' = [match EXCEPT !.status = IF accept THEN "active" ELSE "closed"],
           Dispatch(IF accept THEN "accepted" ELSE "declined", match.id)
    PROVE  \E e : ServerActs(e) /\ e.event \in Answering
<1>1. match' \in Match /\ match \in Match /\ match'.id = match.id
  BY DEF PageTypeOK, Match
<1>2. CASE accept
  <2> DEFINE e == [event |-> "accepted", id |-> match.id]
  <2>1. e \in [event : EventName, id : Nat] /\ dispatching' = Append(dispatching, e)
    BY <1>1, <1>2 DEF Match, EventName, Dispatch
  <2>2. Starts(e)
    BY <1>2 DEF Starts
  <2>3. ServerActs(e) /\ e.event \in Answering
    BY <1>1, <2>1, <2>2 DEF ServerActs, Answering
  <2> QED
    BY <2>3
<1>3. CASE ~accept
  <2>1. match'.status = "closed" /\ Open(match) /\ Dispatch("declined", match.id)
    BY <1>1, <1>3 DEF Match, Open
  <2> QED
    BY <1>1, <2>1, EndActs DEF EndingEvent
<1> QED
  BY <1>2, <1>3

LEMMA RespondActs ==
    ASSUME PageTypeOK, NEW id, NEW accept \in BOOLEAN, Respond(id, accept)
    PROVE  \E e : ServerActs(e) /\ e.event \in Answering
BY AnswerActs, ObjectActs DEF Respond

LEMMA MoveActs ==
    ASSUME PageTypeOK, NEW who \in {"me", "other"}, NEW id, MoveTaken(who, id)
    PROVE  \E e : ServerActs(e)
<1>1. CASE match.id = id /\ match.status = "active" /\ who \notin match.moved
  <2> DEFINE moved == match.moved \cup {who}
  <2>1. match \in Match /\ moved \in SUBSET {"me", "other"} /\ Open(match)
    BY <1>1 DEF PageTypeOK, Match, Open
  <2>2. CASE moved = {"me", "other"}
    <3>1. /\ match' = [match EXCEPT !.moved = moved, !.status = "closed"]
          /\ Dispatch("resolved", match.id)
      BY <1>1, <2>2 DEF MoveTaken
    <3>2. match' \in Match /\ match'.id = match.id /\ match'.status = "closed"
      BY <2>1, <3>1 DEF Match
    <3> QED
      BY <2>1, <3>1, <3>2, EndActs DEF EndingEvent
  <2>3. CASE moved # {"me", "other"}
    <3> DEFINE e == [event |-> "move_submitted", id |-> match.id]
    <3>1. /\ match' = [match EXCEPT !.moved = moved, !.status = "active"]
          /\ dispatching' = Append(dispatching, e)
      BY <1>1, <2>3 DEF MoveTaken, Dispatch
    <3>2. /\ match' \in Match /\ match'.id = match.id /\ match'.status = "active"
          /\ match'.mine = match.mine
      BY <2>1, <3>1 DEF Match
    <3>3. e \in [event : EventName, id : Nat]
      BY <2>1 DEF Match, EventName
    <3>4. Moves(e)
      BY <1>1, <3>2 DEF Moves
    <3>5. ServerActs(e)
      BY <3>1, <3>2, <3>3, <3>4 DEF ServerActs
    <3> QED
      BY <3>5
  <2> QED
    BY <2>2, <2>3
<1>2. CASE ~(match.id = id /\ match.status = "active" /\ who \notin match.moved)
  <2>1. Dispatch("invalid", None) /\ match' = match
    BY <1>2 DEF MoveTaken
  <2> QED
    BY <2>1, ObjectActs
<1> QED
  BY <1>1, <1>2

LEMMA CloseActs ==
    ASSUME PageTypeOK, Open(match), CloseMatch
    PROVE  \E e : ServerActs(e)
<1>1. match' \in Match /\ match'.id = match.id /\ match'.status = "closed"
  BY DEF PageTypeOK, Match, CloseMatch
<1> QED
  BY <1>1, EndActs DEF CloseMatch, EndingEvent

Request == [type : {"challenge_send", "challenge_response", "challenge_move"},
            id : Nat, accept : BOOLEAN]

LEMMA TailFacts ==
    ASSUME NEW S, NEW s \in Seq(S), s # <<>>
    PROVE  /\ Len(s) \in Nat /\ Len(s) >= 1 /\ Head(s) = s[1] /\ Head(s) \in S
           /\ Tail(s) \in Seq(S) /\ Len(Tail(s)) = Len(s) - 1
           /\ DOMAIN s = 1 .. Len(s) /\ DOMAIN Tail(s) = 1 .. Len(s) - 1
           /\ \A i \in 1 .. Len(s) - 1 : Tail(s)[i] = s[i + 1]
<1>1. Len(s) \in Nat /\ Len(s) >= 1 /\ DOMAIN s = 1 .. Len(s)
  OBVIOUS
<1>2. Head(s) = s[1] /\ Head(s) \in S
  BY <1>1
<1>3. Tail(s) \in Seq(S) /\ Len(Tail(s)) = Len(s) - 1
  BY <1>1
<1>4. DOMAIN Tail(s) = 1 .. Len(s) - 1
  BY <1>3
<1>5. \A i \in 1 .. Len(s) - 1 : Tail(s)[i] = s[i + 1]
  BY <1>1
<1> QED
  BY <1>1, <1>2, <1>3, <1>4, <1>5

(* A step of the server, on a request of the page or on its own.             *)
LEMMA ServerStepKeeps ==
    ASSUME PageInv, NEW e, ServerActs(e), UNCHANGED <<pageVars, inbox, missed>>,
           \/ requests' = requests
           \/ /\ requests # <<>> /\ requests' = Tail(requests)
              /\ Head(requests).type = "challenge_response" => e.event \in Answering,
           LinkInv', known' \in BOOLEAN
    PROVE  PageInv'
<1>1. PageTypeOK /\ AnswerDue
  BY DEF PageInv
<1>2. /\ dispatching' \in Seq([event : EventName, id : Nat])
      /\ DOMAIN dispatching = 1 .. Len(dispatching) /\ Len(dispatching) \in Nat
      /\ DOMAIN dispatching' = 1 .. Len(dispatching) + 1
      /\ \A i \in 1 .. Len(dispatching) : dispatching'[i] = dispatching[i]
      /\ dispatching'[Len(dispatching) + 1] = e
  BY <1>1, AppendedDispatch DEF ServerActs
<1>3. requests \in Seq(Request)
  BY <1>1 DEF PageTypeOK, Request
<1>4. requests' \in Seq(Request)
  BY <1>3, TailFacts
<1>5. PageTypeOK'
  BY <1>1, <1>2, <1>4 DEF PageTypeOK, ServerActs, pageVars, Request
<1>6. DispatchesFit'
  BY ServerKeepsFit
<1>7. AnswerDue'
  <2>1. (\E i \in DOMAIN dispatching : dispatching[i].event \in Answering) =>
           \E i \in DOMAIN dispatching' : dispatching'[i].event \in Answering
    BY <1>2
  <2>2. e.event \in Answering =>
           \E i \in DOMAIN dispatching' : dispatching'[i].event \in Answering
    BY <1>2
  <2>3. (\E i \in DOMAIN requests : requests[i].type = "challenge_response") =>
           \/ \E i \in DOMAIN requests' : requests'[i].type = "challenge_response"
           \/ e.event \in Answering
    <3> SUFFICES ASSUME NEW i \in DOMAIN requests, requests[i].type = "challenge_response",
                        requests # <<>>, requests' = Tail(requests), ~(e.event \in Answering),
                        Head(requests).type # "challenge_response"
                 PROVE  \E j \in DOMAIN requests' : requests'[j].type = "challenge_response"
      OBVIOUS
    <3>1. /\ Len(requests) \in Nat /\ Head(requests) = requests[1]
          /\ DOMAIN requests = 1 .. Len(requests) /\ DOMAIN requests' = 1 .. Len(requests) - 1
          /\ \A j \in 1 .. Len(requests) - 1 : requests'[j] = requests[j + 1]
      BY <1>3, TailFacts
    <3>2. i # 1 /\ i \in 1 .. Len(requests)
      BY <3>1
    <3>5. Len(requests) \in Nat
      BY <3>1
    <3>3. i - 1 \in 1 .. Len(requests) - 1 /\ (i - 1) + 1 = i
      BY <3>2, <3>5
    <3>4. requests'[i - 1] = requests[i]
      BY <3>1, <3>3
    <3> QED
      BY <3>1, <3>3, <3>4
  <2> QED
    BY <1>1, <2>1, <2>2, <2>3 DEF AnswerDue, pageVars
<1>8. WillBeInStep'
  <2>1. PICK pages : Chain(pages) /\ (pages[Len(inbox)].missed \/ InStep(pages[Len(inbox)]))
    BY DEF PageInv, WillBeInStep
  <2>2. Chain(pages)'
    BY <2>1 DEF Chain, PageNow, pageVars
  <2>3. PICK last : last = pages[Len(inbox)]
    OBVIOUS
  <2>4. last.missed \/ InStep(last)'
    BY <2>1, <2>3, ServerKeepsStep
  <2>5. pages[Len(inbox')] = last
    BY <2>3
  <2> QED
    BY <2>2, <2>4, <2>5 DEF WillBeInStep
<1> QED
  BY <1>5, <1>6, <1>7, <1>8 DEF PageInv

-----------------------------------------------------------------------------
(* A step that neither the chain of pages nor the dispatches notice.         *)
LEMMA AsideKeeps ==
    ASSUME PageInv, UNCHANGED <<incoming, outgoing, active, inbox, match, dispatching, missed>>,
           requests' \in Seq(Request), known' \in BOOLEAN, LinkInv', AnswerDue'
    PROVE  PageInv'
<1>1. PageTypeOK'
  BY DEF PageInv, PageTypeOK, Request
<1>2. DispatchesFit'
  BY DEF PageInv, DispatchesFit, NoLaterIds, NoEndOfOpen, OfOpenOrEnded, CreatedOnce, AcceptedAfter,
     NotYetAccepted, IsEnding, ClosingUnderWay
<1>3. WillBeInStep'
  BY DEF PageInv, WillBeInStep, Chain, PageNow, InStep, Pending, ClosingUnderWay
<1> QED
  BY <1>1, <1>2, <1>3 DEF PageInv

LEMMA LinkKeeps ==
    ASSUME PageInv, AskSucceeds \/ AskFails \/ Retry \/ Opened
    PROVE  PageInv'
<1>1. /\ UNCHANGED <<pageVars, requests, inbox, match, dispatching, missed>>
      /\ known' \in {TRUE, known}
  BY DEF AskSucceeds, AskFails, Retry, Opened, serverVars
<1>2. requests' \in Seq(Request) /\ known' \in BOOLEAN
  BY <1>1 DEF PageInv, PageTypeOK, Request
<1>3. LinkInv'
  BY DEF PageInv, LinkInv, AskSucceeds, AskFails, Retry, Opened, serverVars
<1>4. AnswerDue'
  BY <1>1 DEF PageInv, AnswerDue, pageVars
<1> QED
  BY <1>1, <1>2, <1>3, <1>4, AsideKeeps DEF pageVars

LEMMA PlayerKeeps ==
    ASSUME PageInv,
           SendChallenge \/ SendGameMove \/ \E accept \in BOOLEAN : RespondToIncoming(accept)
    PROVE  PageInv'
<1> DEFINE Sent == \E request \in Request :
                      /\ link = "open" /\ requests' = Append(requests, request)
                      /\ responding' = responding \/ request.type = "challenge_response"
<1>0. Sent
  <2>1. None \in Nat /\ active.id \in Nat /\ CurrentIncoming \in Nat
    BY DEF PageInv, PageTypeOK, Match, None, CurrentIncoming
  <2>2. CASE SendChallenge
    <3> DEFINE r == [type |-> "challenge_send", id |-> None, accept |-> FALSE]
    <3>1. r \in Request
      BY <2>1 DEF Request
    <3> QED
      BY <2>2, <3>1 DEF SendChallenge, Send, pageVars
  <2>3. CASE SendGameMove
    <3> DEFINE r == [type |-> "challenge_move", id |-> active.id, accept |-> FALSE]
    <3>1. r \in Request
      BY <2>1 DEF Request
    <3> QED
      BY <2>3, <3>1 DEF SendGameMove, Send, pageVars
  <2>4. ASSUME NEW accept \in BOOLEAN, RespondToIncoming(accept)
        PROVE  Sent
    <3> DEFINE r == [type |-> "challenge_response", id |-> CurrentIncoming, accept |-> accept]
    <3>1. r \in Request /\ r.type = "challenge_response"
      BY <2>1 DEF Request
    <3> QED
      BY <2>4, <3>1 DEF RespondToIncoming, Send
  <2> QED
    BY <2>2, <2>3, <2>4
<1>1. PICK request \in Request :
         /\ link = "open" /\ requests' = Append(requests, request)
         /\ responding' = responding \/ request.type = "challenge_response"
  BY <1>0
<1> HIDE DEF Sent
<1>2. UNCHANGED <<link, incoming, outgoing, active, inbox, serverVars, missed>>
  BY DEF SendChallenge, SendGameMove, RespondToIncoming, pageVars
<1>3. requests \in Seq(Request) /\ known \in BOOLEAN
  BY DEF PageInv, PageTypeOK, Request
<1>4. /\ requests' \in Seq(Request) /\ Len(requests) \in Nat
      /\ DOMAIN requests = 1 .. Len(requests) /\ DOMAIN requests' = 1 .. Len(requests) + 1
      /\ \A i \in 1 .. Len(requests) : requests'[i] = requests[i]
      /\ requests'[Len(requests) + 1] = request
  <2>1. requests' \in Seq(Request) /\ Len(requests') = Len(requests) + 1 /\ Len(requests) \in Nat
    BY <1>1, <1>3
  <2>2. DOMAIN requests = 1 .. Len(requests) /\ DOMAIN requests' = 1 .. Len(requests) + 1
    BY <1>3, <2>1
  <2>3. \A i \in 1 .. Len(requests) : requests'[i] = requests[i]
    BY <1>1, <1>3
  <2>4. requests'[Len(requests) + 1] = request
    BY <1>1, <1>3
  <2> QED
    BY <2>1, <2>2, <2>3, <2>4
<1>5. LinkInv'
  BY <1>1, <1>2 DEF PageInv, LinkInv, serverVars
<1>6. AnswerDue'
  <2>1. \A i \in DOMAIN requests : i \in DOMAIN requests' /\ requests'[i] = requests[i]
    BY <1>4
  <2>2. Len(requests) + 1 \in DOMAIN requests'
    BY <1>4
  <2> QED
    BY <1>1, <1>2, <1>4, <2>1, <2>2 DEF PageInv, AnswerDue, serverVars
<1> QED
  BY <1>2, <1>3, <1>4, <1>5, <1>6, AsideKeeps DEF serverVars

(* What was on the way is lost with the connection, and the page knows only  *)
(* that it may have missed something.                                       *)
LEMMA DropKeeps == ASSUME PageInv, LinkDropped PROVE PageInv'
<1>1. /\ link' = "timer" /\ requests' = <<>> /\ inbox' = <<>>
      /\ missed' = (missed \/ inbox # <<>> \/ requests # <<>>)
      /\ UNCHANGED <<pageVars, serverVars>>
  BY DEF LinkDropped
<1>2. \A S : <<>> \in Seq(S)
  OBVIOUS
<1>3. PageTypeOK'
  BY <1>1, <1>2 DEF PageInv, PageTypeOK, pageVars, serverVars
<1>4. LinkInv'
  BY <1>1 DEF LinkInv
<1>5. DispatchesFit'
  BY <1>1 DEF PageInv, DispatchesFit, NoLaterIds, NoEndOfOpen, OfOpenOrEnded, CreatedOnce,
     AcceptedAfter, NotYetAccepted, IsEnding, ClosingUnderWay, serverVars
<1>6. AnswerDue'
  BY <1>1 DEF PageInv, AnswerDue, pageVars, serverVars
<1>7. WillBeInStep'
  <2>1. PICK pages : Chain(pages) /\ (pages[Len(inbox)].missed \/ InStep(pages[Len(inbox)]))
    BY DEF PageInv, WillBeInStep
  <2>a. PICK next : next = [i \in {0} |-> PageNow']
    OBVIOUS
  <2>2. Chain(next)' /\ next[0] = PageNow' /\ Len(inbox') = 0
    BY <1>1, <2>a DEF Chain
  <2>3. PageNow'.missed = missed'
    BY DEF PageNow
  <2>4. CASE inbox = <<>> /\ ~missed'
    <3>1. PageNow' = PageNow
      BY <1>1, <2>4 DEF PageNow, pageVars, PageInv, PageTypeOK
    <3>2. pages[Len(inbox)] = PageNow /\ ~PageNow.missed
      BY <1>1, <2>1, <2>4 DEF Chain, PageNow
    <3>3. PICK now : now = PageNow
      OBVIOUS
    <3>4. InStep(now)
      BY <2>1, <3>2, <3>3
    <3>5. InStep(now)'
      BY <1>1, <3>4 DEF InStep, Pending, ClosingUnderWay, serverVars
    <3> QED
      BY <2>2, <3>1, <3>3, <3>5 DEF WillBeInStep
  <2>5. CASE inbox # <<>> \/ missed'
    <3>1. missed'
      BY <1>1, <2>5
    <3> QED
      BY <2>2, <2>3, <3>1 DEF WillBeInStep
  <2> QED
    BY <2>4, <2>5
<1> QED
  BY <1>3, <1>4, <1>5, <1>6, <1>7 DEF PageInv

(* handleChallengeEvent makes of the page what After says.                   *)
LEMMA HandledPage ==
    ASSUME PageInv, Receive
    PROVE  /\ PageNow' = After(PageNow, Head(inbox))
           /\ Head(inbox).event \in Answering => ~responding'
           /\ Head(inbox).event \notin Answering => responding' = responding
           /\ incoming' \in Nat /\ active' \in Match /\ missed' \in BOOLEAN
<1> DEFINE m == Head(inbox)
<1>1. /\ m \in PageMessage /\ Handle(m)
      /\ missed' = ((missed /\ m.event \notin EndingEvent) \/ m.late)
  <2>1. inbox \in Seq(PageMessage) /\ inbox # <<>>
    BY DEF PageInv, PageTypeOK, Receive
  <2>2. m \in PageMessage
    BY <2>1, TailFacts
  <2> QED
    BY <2>2 DEF Receive
<1> HIDE DEF m
<1>2. /\ m.event \in EventName /\ m.challenge \in Match /\ m.late \in BOOLEAN
      /\ m.challenge.id \in Nat /\ m.challenge.mine \in BOOLEAN
      /\ incoming \in Nat /\ active \in Match /\ missed \in BOOLEAN
  BY <1>1 DEF PageMessage, Match, PageInv, PageTypeOK
<1>3. EndingEvent \cap {"created", "accepted", "move_submitted", "invalid"} = {}
  BY DEF EndingEvent
<1>4. None \in Nat /\ Nothing \in Match
  BY DEF None, Nothing, Match
<1>5. CASE m.event \in EndingEvent
  <2>1. Cleared /\ missed' = m.late
    BY <1>1, <1>2, <1>3, <1>5 DEF Handle
  <2>2. PageNow' = After(PageNow, m)
    BY <1>5, <2>1 DEF PageNow, After, Cleared
  <2> QED
    BY <1>2, <1>4, <1>5, <2>1, <2>2 DEF Cleared, Answering, m
<1>6. CASE m.event \notin EndingEvent
  <2>1. missed' = (missed \/ m.late)
    BY <1>1, <1>6
  <2>2. After(PageNow, m) =
          [incoming |-> IF m.event = "accepted" THEN None
                        ELSE IF m.event = "created" /\ ~m.challenge.mine THEN m.challenge.id
                        ELSE incoming,
           outgoing |-> IF m.event = "accepted" THEN None
                        ELSE IF m.event = "created" /\ m.challenge.mine THEN m.challenge.id
                        ELSE outgoing,
           active |-> IF m.event = "invalid" THEN active ELSE m.challenge,
           missed |-> missed \/ m.late]
    BY <1>6 DEF After, PageNow
  <2>3. CASE m.event = "created"
    <3>1. Created(m.challenge)
      BY <1>1, <1>6, <2>3 DEF Handle
    <3>2. PageNow' = After(PageNow, m)
      BY <2>1, <2>2, <2>3, <3>1 DEF PageNow, Created
    <3> QED
      BY <1>2, <2>1, <2>3, <3>1, <3>2 DEF Created, Answering, m
  <2>4. CASE m.event = "accepted"
    <3>1. Accepted(m.challenge)
      BY <1>1, <1>6, <2>4 DEF Handle
    <3>2. PageNow' = After(PageNow, m)
      BY <2>1, <2>2, <2>4, <3>1 DEF PageNow, Accepted
    <3> QED
      BY <1>2, <1>4, <2>1, <2>4, <3>1, <3>2 DEF Accepted, Answering, m
  <2>5. CASE m.event = "move_submitted"
    <3>1. MoveSubmitted(m.challenge)
      BY <1>1, <1>6, <2>5 DEF Handle
    <3>2. PageNow' = After(PageNow, m)
      BY <2>1, <2>2, <2>5, <3>1 DEF PageNow, MoveSubmitted
    <3> QED
      BY <1>2, <1>3, <2>1, <2>5, <3>1, <3>2 DEF MoveSubmitted, Answering, m
  <2>6. CASE m.event = "invalid"
    <3>1. Refused
      BY <1>1, <1>6, <2>6 DEF Handle
    <3>2. PageNow' = After(PageNow, m)
      BY <2>1, <2>2, <2>6, <3>1 DEF PageNow, Refused
    <3> QED
      BY <1>2, <2>1, <2>6, <3>1, <3>2 DEF Refused, Answering, m
  <2> QED
    BY <1>2, <1>6, <2>3, <2>4, <2>5, <2>6 DEF EventName
<1> QED
  BY <1>5, <1>6

LEMMA ReceiveKeeps == ASSUME PageInv, Receive PROVE PageInv'
<1>0. inbox \in Seq(PageMessage) /\ inbox # <<>> /\ link = "open"
  BY DEF PageInv, PageTypeOK, Receive
<1>1. /\ inbox' = Tail(inbox) /\ UNCHANGED <<link, requests, match, dispatching, known>>
  BY DEF Receive, serverVars
<1>2. /\ Len(inbox) \in Nat /\ Len(inbox) >= 1 /\ Head(inbox) = inbox[1]
      /\ Head(inbox) \in PageMessage
      /\ inbox' \in Seq(PageMessage) /\ Len(inbox') = Len(inbox) - 1
      /\ DOMAIN inbox = 1 .. Len(inbox) /\ DOMAIN inbox' = 1 .. Len(inbox) - 1
      /\ \A i \in 1 .. Len(inbox) - 1 : inbox'[i] = inbox[i + 1]
  BY <1>0, <1>1, TailFacts
<1>3. /\ PageNow' = After(PageNow, Head(inbox))
      /\ Head(inbox).event \in Answering => ~responding'
      /\ Head(inbox).event \notin Answering => responding' = responding
      /\ incoming' \in Nat /\ active' \in Match /\ missed' \in BOOLEAN
  BY HandledPage
<1>4. PageTypeOK'
  BY <1>1, <1>2, <1>3 DEF PageInv, PageTypeOK
<1>5. LinkInv'
  BY <1>0, <1>1 DEF PageInv, LinkInv
<1>6. DispatchesFit'
  BY <1>1 DEF PageInv, DispatchesFit, NoLaterIds, NoEndOfOpen, OfOpenOrEnded, CreatedOnce,
     AcceptedAfter, NotYetAccepted, IsEnding, ClosingUnderWay
<1>7. AnswerDue'
  <2> SUFFICES ASSUME responding', Head(inbox).event \notin Answering
               PROVE  \/ missed'
                      \/ \E i \in DOMAIN requests' : requests'[i].type = "challenge_response"
                      \/ \E i \in DOMAIN inbox' : inbox'[i].event \in Answering
                      \/ \E i \in DOMAIN dispatching' : dispatching'[i].event \in Answering
    BY <1>3 DEF AnswerDue
  <2>1. responding /\ (missed => missed')
    BY <1>3 DEF Receive, Answering
  <2>2. \A i \in DOMAIN inbox : inbox[i].event \in Answering =>
           \E j \in DOMAIN inbox' : inbox'[j].event \in Answering
    <3> SUFFICES ASSUME NEW i \in 1 .. Len(inbox), inbox[i].event \in Answering
                 PROVE  \E j \in DOMAIN inbox' : inbox'[j].event \in Answering
      BY <1>2
    <3>1. i # 1 /\ Len(inbox) \in Nat
      BY <1>2
    <3>2. i - 1 \in 1 .. Len(inbox) - 1 /\ (i - 1) + 1 = i
      BY <3>1
    <3>3. inbox'[i - 1] = inbox[i]
      BY <1>2, <3>2
    <3> QED
      BY <1>2, <3>2, <3>3
  <2> QED
    BY <1>1, <2>1, <2>2 DEF PageInv, AnswerDue
<1>8. WillBeInStep'
  <2>1. PICK pages : Chain(pages) /\ (pages[Len(inbox)].missed \/ InStep(pages[Len(inbox)]))
    BY DEF PageInv, WillBeInStep
  <2>2. PICK n \in Nat : n = Len(inbox) - 1
    BY <1>2
  <2>3. PICK next : next = [i \in 0 .. n |-> pages[i + 1]]
    OBVIOUS
  <2>4. Chain(next)'
    <3>1. 1 \in 1 .. Len(inbox) /\ 1 - 1 = 0
      BY <1>2
    <3>2. pages[1] = After(pages[0], inbox[1])
      BY <2>1, <3>1 DEF Chain
    <3>3. next[0] = PageNow'
      BY <1>2, <1>3, <2>1, <2>2, <2>3, <3>2 DEF Chain
    <3>4. ASSUME NEW i \in 1 .. n
          PROVE  next[i] = After(next[i - 1], inbox'[i])
      <4>1. /\ i \in 0 .. n /\ i - 1 \in 0 .. n /\ i + 1 \in 1 .. Len(inbox)
            /\ (i - 1) + 1 = i /\ (i + 1) - 1 = i
        BY <1>2, <2>2
      <4>2. next[i] = pages[i + 1] /\ next[i - 1] = pages[i]
        BY <2>3, <4>1
      <4>3. inbox'[i] = inbox[i + 1]
        BY <1>2, <2>2
      <4>4. pages[i + 1] = After(pages[i], inbox[i + 1])
        BY <2>1, <4>1 DEF Chain
      <4> QED
        BY <4>2, <4>3, <4>4
    <3> QED
      BY <1>2, <2>2, <3>3, <3>4 DEF Chain
  <2>5. next[Len(inbox')] = pages[Len(inbox)]
    <3>1. n \in 0 .. n /\ n + 1 = Len(inbox) /\ Len(inbox') = n
      BY <1>2, <2>2
    <3> QED
      BY <2>3, <3>1
  <2>6. PICK last : last = pages[Len(inbox)]
    OBVIOUS
  <2>7. last.missed \/ InStep(last)
    BY <2>1, <2>6
  <2>8. InStep(last) => InStep(last)'
    BY <1>1 DEF InStep, Pending, ClosingUnderWay
  <2> QED
    BY <2>4, <2>5, <2>6, <2>7, <2>8 DEF WillBeInStep
<1> QED
  BY <1>4, <1>5, <1>6, <1>7, <1>8 DEF PageInv

LEMMA DeliverKeeps ==
    ASSUME PageInv, NEW i \in DOMAIN dispatching, Deliver(i)
    PROVE  PageInv'
<1> DEFINE message == MessageOf(i)
<1>1. Removed(i) /\ UNCHANGED <<link, pageVars, requests, known>>
  BY DEF Deliver, Removed
<1>2. \/ known /\ link = "open" /\ inbox' = Append(inbox, message) /\ missed' = missed
      \/ ~(known /\ link = "open") /\ missed' = TRUE /\ inbox' = inbox
  BY DEF Deliver, MessageOf
<1>3. PageTypeOK
  BY DEF PageInv
<1>4. /\ dispatching' \in Seq([event : EventName, id : Nat])
      /\ dispatching[i] \in [event : EventName, id : Nat]
      /\ match \in Match /\ match' = match
      /\ DOMAIN dispatching = 1 .. Len(dispatching)
      /\ DOMAIN dispatching' = 1 .. Len(dispatching) - 1
      /\ \A j \in 1 .. Len(dispatching) : j < i => j \in 1 .. Len(dispatching) - 1
      /\ \A j \in 1 .. Len(dispatching) - 1 : j < i => dispatching'[j] = dispatching[j]
      /\ \A j \in 1 .. Len(dispatching) :
            j > i => j - 1 \in 1 .. Len(dispatching) - 1 /\ dispatching'[j - 1] = dispatching[j]
  BY <1>1, <1>3, RemovedDispatch DEF Removed
<1>5. message \in PageMessage
  <2>1. dispatching[i].event \in EventName /\ dispatching[i].id \in Nat
    BY <1>4
  <2>2. CurrentChallenge(dispatching[i].id) \in Match
    BY <1>4, <2>1 DEF CurrentChallenge, Nothing, Match
  <2> QED
    BY <2>1, <2>2 DEF MessageOf, PageMessage
<1>6. message.event = dispatching[i].event
  BY DEF MessageOf
<1> HIDE DEF message
<1>7. inbox \in Seq(PageMessage)
  BY <1>3 DEF PageTypeOK
<1>8. /\ Len(inbox) \in Nat /\ DOMAIN inbox = 1 .. Len(inbox)
      /\ Append(inbox, message) \in Seq(PageMessage)
      /\ Len(Append(inbox, message)) = Len(inbox) + 1
      /\ DOMAIN Append(inbox, message) = 1 .. Len(inbox) + 1
      /\ \A j \in 1 .. Len(inbox) : Append(inbox, message)[j] = inbox[j]
      /\ Append(inbox, message)[Len(inbox) + 1] = message
  <2>1. Len(inbox) \in Nat /\ DOMAIN inbox = 1 .. Len(inbox)
    BY <1>7
  <2>2. Append(inbox, message) \in Seq(PageMessage) /\ Len(Append(inbox, message)) = Len(inbox) + 1
    BY <1>5, <1>7
  <2>3. DOMAIN Append(inbox, message) = 1 .. Len(inbox) + 1
    BY <2>2
  <2>4. \A j \in 1 .. Len(inbox) : Append(inbox, message)[j] = inbox[j]
    BY <1>5, <1>7
  <2>5. Append(inbox, message)[Len(inbox) + 1] = message
    BY <1>5, <1>7
  <2> QED
    BY <2>1, <2>2, <2>3, <2>4, <2>5
<1>9. PageTypeOK'
  <2>1. inbox' \in Seq(PageMessage) /\ missed' \in BOOLEAN
    BY <1>2, <1>3, <1>7, <1>8 DEF PageTypeOK
  <2> QED
    BY <1>1, <1>3, <1>4, <2>1 DEF PageTypeOK, pageVars
<1>10. LinkInv'
  BY <1>1, <1>2 DEF PageInv, LinkInv
<1>11. DispatchesFit'
  BY <1>1, DeliveryKeepsFit
<1>12. AnswerDue'
  <2>1. CASE missed'
    BY <2>1 DEF AnswerDue
  <2>2. CASE ~missed' /\ inbox' = Append(inbox, message) /\ missed' = missed
    <3>1. \A j \in DOMAIN inbox : inbox[j].event \in Answering =>
             \E k \in DOMAIN inbox' : inbox'[k].event \in Answering
      BY <1>8, <2>2
    <3>2. \A j \in DOMAIN dispatching : dispatching[j].event \in Answering =>
             \/ \E k \in DOMAIN inbox' : inbox'[k].event \in Answering
             \/ \E k \in DOMAIN dispatching' : dispatching'[k].event \in Answering
      <4> SUFFICES ASSUME NEW j \in 1 .. Len(dispatching), dispatching[j].event \in Answering
                   PROVE  \/ \E k \in DOMAIN inbox' : inbox'[k].event \in Answering
                          \/ \E k \in DOMAIN dispatching' : dispatching'[k].event \in Answering
        BY <1>4
      <4>1. CASE j = i
        <5>1. Len(inbox) + 1 \in DOMAIN inbox' /\ inbox'[Len(inbox) + 1] = message
          BY <1>8, <2>2
        <5> QED
          BY <1>6, <4>1, <5>1
      <4>2. CASE j < i
        BY <1>4, <4>2
      <4>3. CASE j > i
        BY <1>4, <4>3
      <4>4. i \in 1 .. Len(dispatching)
        BY <1>4
      <4> QED
        BY <4>1, <4>2, <4>3, <4>4
    <3> QED
      BY <1>1, <2>2, <3>1, <3>2 DEF PageInv, AnswerDue, pageVars
  <2> QED
    BY <1>2, <2>1, <2>2
<1>13. WillBeInStep'
  <2>1. PICK pages : Chain(pages) /\ (pages[Len(inbox)].missed \/ InStep(pages[Len(inbox)]))
    BY DEF PageInv, WillBeInStep
  <2>2. CASE inbox' = Append(inbox, message) /\ missed' = missed
    <3>1. PICK n \in Nat : n = Len(inbox)
      BY <1>8
    <3>2. PICK last : last = After(pages[n], message)
      OBVIOUS
    <3>3. PICK next : next = [j \in 0 .. n + 1 |-> IF j = n + 1 THEN last ELSE pages[j]]
      OBVIOUS
    <3>4. /\ \A j \in 0 .. n : next[j] = pages[j]
          /\ next[n + 1] = last
      BY <3>1, <3>3
    <3>5. Chain(next)'
      <4>1. next[0] = PageNow'
        BY <1>1, <2>1, <2>2, <3>1, <3>4 DEF Chain, PageNow, pageVars
      <4>2. ASSUME NEW j \in 1 .. n + 1
            PROVE  next[j] = After(next[j - 1], inbox'[j])
        <5>1. CASE j = n + 1
          <6>1. j - 1 = n /\ n \in 0 .. n
            BY <3>1, <5>1
          <6>2. inbox'[j] = message
            BY <1>8, <2>2, <3>1, <5>1
          <6> QED
            BY <3>2, <3>4, <5>1, <6>1, <6>2
        <5>2. CASE j \in 1 .. n
          <6>1. j \in 0 .. n /\ j - 1 \in 0 .. n
            BY <3>1, <5>2
          <6>2. inbox'[j] = inbox[j]
            BY <1>8, <2>2, <3>1, <5>2
          <6>3. pages[j] = After(pages[j - 1], inbox[j])
            BY <2>1, <3>1, <5>2 DEF Chain
          <6> QED
            BY <3>4, <6>1, <6>2, <6>3
        <5> QED
          BY <3>1, <5>1, <5>2
      <4>3. Len(inbox') = n + 1
        BY <1>8, <2>2, <3>1
      <4> QED
        BY <4>1, <4>2, <4>3 DEF Chain
    <3>6. last.missed \/ InStep(last)'
      <4>1. PICK page : page = pages[n]
        OBVIOUS
      <4>2. page.missed \/ InStep(page)
        BY <2>1, <3>1, <4>1
      <4>3. last = After(page, MessageOf(i))
        BY <3>2, <4>1 DEF message
      <4> QED
        BY <1>1, <4>2, <4>3, DeliveryKeepsStep
    <3>7. next[Len(inbox')] = last
      BY <1>8, <2>2, <3>1, <3>4
    <3> QED
      BY <3>5, <3>6, <3>7 DEF WillBeInStep
  <2>3. CASE ~(known /\ link = "open") /\ missed' = TRUE /\ inbox' = inbox
    <3>1. inbox' = <<>>
      BY <2>3 DEF PageInv, LinkInv
    <3>2. PICK next : next = [j \in {0} |-> PageNow']
      OBVIOUS
    <3>3. Chain(next)' /\ next[Len(inbox')] = PageNow'
      BY <3>1, <3>2 DEF Chain
    <3>4. PageNow'.missed
      BY <2>3 DEF PageNow
    <3> QED
      BY <3>3, <3>4 DEF WillBeInStep
  <2> QED
    BY <1>2, <2>2, <2>3
<1> QED
  BY <1>9, <1>10, <1>11, <1>12, <1>13 DEF PageInv

LEMMA ServingKeeps ==
    ASSUME PageInv,
           \/ Serve \/ OtherChallenges \/ OtherMoves \/ TimesOut \/ ServerClose
           \/ \E accept \in BOOLEAN : OtherResponds(accept)
    PROVE  PageInv'
<1>0. PageTypeOK /\ LinkInv
  BY DEF PageInv
<1>1. UNCHANGED <<link, pageVars, inbox, missed>>
  BY DEF Serve, OtherChallenges, OtherMoves, TimesOut, ServerClose, OtherResponds
<1>2. CASE Serve
  <2>1. requests # <<>> /\ requests' = Tail(requests) /\ known' = known
    BY <1>2 DEF Serve
  <2>2. LinkInv'
    <3>1. link = "open"
      BY <1>0, <2>1 DEF LinkInv
    <3> QED
      BY <1>0, <1>1, <2>1, <3>1 DEF LinkInv
  <2>3. requests \in Seq(Request)
    BY <1>0 DEF PageTypeOK, Request
  <2>4. PICK request \in Request : request = Head(requests)
    BY <2>1, <2>3, TailFacts
  <2>5. \E e : ServerActs(e) /\ (request.type = "challenge_response" => e.event \in Answering)
    <3>1. CASE request.type = "challenge_send"
      <4>1. Create(TRUE)
        BY <1>2, <2>4, <3>1 DEF Serve
      <4> QED
        BY <1>0, <3>1, <4>1, CreateActs
    <3>2. CASE request.type = "challenge_response"
      <4>1. Respond(request.id, request.accept) /\ request.accept \in BOOLEAN
        BY <1>2, <2>4, <3>2 DEF Serve, Request
      <4> QED
        BY <1>0, <4>1, RespondActs
    <3>3. CASE request.type = "challenge_move"
      <4>1. MoveTaken("me", request.id)
        BY <1>2, <2>4, <3>3 DEF Serve
      <4> QED
        BY <1>0, <3>3, <4>1, MoveActs
    <3> QED
      BY <3>1, <3>2, <3>3 DEF Request
  <2>6. known' \in BOOLEAN
    BY <1>0, <2>1 DEF PageTypeOK
  <2> QED
    BY <1>1, <2>1, <2>2, <2>4, <2>5, <2>6, ServerStepKeeps
<1>3. CASE OtherChallenges \/ OtherMoves \/ TimesOut \/ \E accept \in BOOLEAN : OtherResponds(accept)
  <2>1. requests' = requests /\ known' = known
    BY <1>3 DEF OtherChallenges, OtherMoves, TimesOut, OtherResponds
  <2>2. LinkInv' /\ known' \in BOOLEAN
    BY <1>0, <1>1, <2>1 DEF LinkInv, PageTypeOK
  <2>3. \E e : ServerActs(e)
    <3>1. CASE OtherChallenges
      BY <1>0, <3>1, CreateActs DEF OtherChallenges
    <3>2. CASE OtherMoves
      BY <1>0, <3>2, MoveActs DEF OtherMoves
    <3>3. CASE TimesOut
      BY <1>0, <3>3, CloseActs DEF TimesOut
    <3>4. ASSUME NEW accept \in BOOLEAN, OtherResponds(accept)
          PROVE  \E e : ServerActs(e)
      BY <1>0, <3>4, AnswerActs DEF OtherResponds
    <3> QED
      BY <1>3, <3>1, <3>2, <3>3, <3>4
  <2> QED
    BY <1>1, <2>1, <2>2, <2>3, ServerStepKeeps
<1>4. CASE ServerClose
  <2>1. requests' = requests /\ known' = FALSE /\ link # "open"
    BY <1>4 DEF ServerClose
  <2>2. LinkInv'
    BY <1>0, <1>1, <2>1 DEF LinkInv
  <2>3. CASE Open(match)
    <3>1. \E e : ServerActs(e)
      BY <1>0, <1>4, <2>3, CloseActs DEF ServerClose
    <3> QED
      BY <1>1, <2>1, <2>2, <3>1, ServerStepKeeps
  <2>4. CASE ~Open(match)
    <3>1. UNCHANGED <<match, dispatching>>
      BY <1>4, <2>4 DEF ServerClose
    <3>2. AnswerDue'
      BY <1>1, <2>1, <3>1 DEF PageInv, AnswerDue, pageVars
    <3>3. requests' \in Seq(Request)
      BY <1>0, <2>1 DEF PageTypeOK, Request
    <3> QED
      BY <1>1, <2>1, <2>2, <3>1, <3>2, <3>3, AsideKeeps DEF pageVars
  <2> QED
    BY <2>3, <2>4
<1> QED
  BY <1>2, <1>3, <1>4

LEMMA PageStep == PageInv /\ [ClientNext]_clientVars => PageInv'
<1> SUFFICES ASSUME PageInv, [ClientNext]_clientVars PROVE PageInv'
  OBVIOUS
<1>1. CASE AskSucceeds \/ AskFails \/ Retry \/ Opened
  BY <1>1, LinkKeeps
<1>2. CASE LinkDropped
  BY <1>2, DropKeeps
<1>3. CASE SendChallenge \/ SendGameMove \/ \E accept \in BOOLEAN : RespondToIncoming(accept)
  BY <1>3, PlayerKeeps
<1>4. CASE Receive
  BY <1>4, ReceiveKeeps
<1>5. CASE \/ Serve \/ OtherChallenges \/ OtherMoves \/ TimesOut \/ ServerClose
           \/ \E accept \in BOOLEAN : OtherResponds(accept)
  BY <1>5, ServingKeeps
<1>6. ASSUME NEW i \in DOMAIN dispatching, Deliver(i) PROVE PageInv'
  BY <1>6, DeliverKeeps
<1>7. CASE UNCHANGED clientVars
  <2>1. UNCHANGED <<link, pageVars, requests, inbox, match, dispatching, known, missed>>
    BY <1>7 DEF clientVars, serverVars
  <2>2. requests' \in Seq(Request) /\ known' \in BOOLEAN
    BY <2>1 DEF PageInv, PageTypeOK, Request
  <2>3. LinkInv' /\ AnswerDue'
    BY <2>1 DEF PageInv, LinkInv, AnswerDue, pageVars
  <2> QED
    BY <2>1, <2>2, <2>3, AsideKeeps DEF pageVars
<1> QED
  BY <1>1, <1>2, <1>3, <1>4, <1>5, <1>6, <1>7 DEF ClientNext

(* When nothing is on its way the page shows the challenge the server has,   *)
(* unless it has missed an event, for any number of challenges, lost         *)
(* connections and messages under way: no order of answers, deadlines and    *)
(* late acceptances leaves a stale challenge on it.                          *)
THEOREM PageIsUpToDate == ClientSpec => []PageFollowsServer
<1>1. ClientSpec => []PageInv
  BY InitPage, PageStep, PTL DEF ClientSpec
<1> QED
  BY <1>1, PageFollows, PTL
=============================================================================
