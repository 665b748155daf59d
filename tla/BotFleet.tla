------------------------------ MODULE BotFleet ------------------------------
(* The bots the agent runtime keeps running: one of each player, and the     *)
(* NPCs the operator asks for.  What is saved is the players' part, in five  *)
(* tables written one after the other, and a runtime that goes down in       *)
(* between, or whose two saves under way share the connections of its pool,  *)
(* starts from a part of it.  agent-runtime/src/index.ts, routes/bots.ts,    *)
(* RuntimeDatabase.ts.                                                       *)
EXTENDS Integers, FiniteSets, Sequences, SequencesExt, Functions

CONSTANTS
    MaxBots,        \* the most NPCs reconcileBots keeps (60)
    BotCount,       \* BOT_COUNT, the NPCs a runtime starts with
    MaxFleetCalls   \* bound on profiles made, operator's calls and restarts

ASSUME FleetAssumption == MaxBots \in Nat /\ BotCount \in Nat

VARIABLES
    ownedBotIds,    \* profile -> the ids of its bots, its primary bot first
    bots,           \* the ids of the bots that run
    botRegistry,    \* id -> the record of a bot
    backgroundBotIds, \* the NPCs, in the order they were made
    counters,       \* the numbers of the next profile and of the next NPC
    fleetTables,    \* what the tables of the database hold
    fleetFile,      \* what the state file holds, written after the tables
    fleetCalls

fleetVars == <<ownedBotIds, bots, botRegistry, backgroundBotIds, counters,
               fleetTables, fleetFile, fleetCalls>>

NoOwner == 0
OwnerBot(p) == <<"agent_profile", p>>
BackgroundBot(i) == <<"agent_bg", i>>
OwnerRecord(p) == [owner |-> p, duty |-> "owner"]
NpcRecord == [owner |-> NoOwner, duty |-> "npc"]
NoProfiles == [p \in {} |-> <<>>]
NoBots == [id \in {} |-> NpcRecord]
FirstCounters == [profile |-> 1, background |-> 1]

(* buildPersistedState: every profile, and the bots that have an owner.      *)
OwnersBots(registry) ==
    Restrict(registry, {id \in DOMAIN registry : registry[id].owner # NoOwner})
PersistedFleet == [owned |-> ownedBotIds, registry |-> OwnersBots(botRegistry), counters |-> counters]

FleetCall == fleetCalls < MaxFleetCalls /\ fleetCalls' = fleetCalls + 1

-----------------------------------------------------------------------------
(* reconcileOwnerBotsViaSuperAgent, which begins each delegation: a profile  *)
(* without a bot gets the one of its name, and its primary bot is registered *)
(* (with its record if there is one) and runs.                               *)
WithPrimary(owned) ==
    [p \in DOMAIN owned |-> IF owned[p] = <<>> THEN <<OwnerBot(p)>> ELSE owned[p]]

(* Faulty variant of Primaries: a profile whose list was empty is passed over. *)
PrimariesListed(owned) == {Head(owned[p]) : p \in {q \in DOMAIN owned : owned[q] # <<>>}}

Primaries(owned) == {Head(WithPrimary(owned)[p]) : p \in DOMAIN owned}

Delegation(owned, running, registry) ==
    /\ ownedBotIds' = WithPrimary(owned)
    /\ bots' = running \cup Primaries(owned)
    /\ botRegistry' = [id \in DOMAIN registry \cup Primaries(owned) |->
            IF id \in DOMAIN registry THEN registry[id] ELSE OwnerRecord(id[2])]

(* reconcileBots: up to count NPCs, new ones under the next numbers; of too  *)
(* many the last made stop.  A delegation follows.                           *)
NpcsFor(count, background, next) ==
    LET wanted == IF count > MaxBots THEN MaxBots ELSE count
    IN  [i \in 1 .. wanted |->
            IF i <= Len(background) THEN background[i] ELSE BackgroundBot(next + i - 1 - Len(background))]

ReconcileTo(count, owned, running, registry, background, counted) ==
    LET npcs == NpcsFor(count, background, counted.background)
        stopped == ToSet(background) \ ToSet(npcs)
        made == ToSet(npcs) \ ToSet(background)
    IN  /\ backgroundBotIds' = npcs
        /\ counters' = [counted EXCEPT !.background = @ + Cardinality(made)]
        /\ Delegation(owned, (running \ stopped) \cup made,
                [id \in (DOMAIN registry \ stopped) \cup made |->
                    IF id \in made THEN NpcRecord ELSE registry[id]])

-----------------------------------------------------------------------------
FleetInit ==
    /\ ownedBotIds = NoProfiles
    /\ backgroundBotIds = NpcsFor(BotCount, <<>>, 1)
    /\ bots = ToSet(backgroundBotIds)
    /\ botRegistry = [id \in bots |-> NpcRecord]
    /\ counters = [FirstCounters EXCEPT !.background = @ + Len(backgroundBotIds)]
    /\ fleetTables = [owned |-> NoProfiles, registry |-> NoBots, counters |-> FirstCounters]
    /\ fleetFile = fleetTables
    /\ fleetCalls = 0

(* createProfileWithBot, for a name that is not taken.  After a restart that *)
(* found an old counter the number may be that of a profile there is: it is  *)
(* replaced, and its bot goes on under the record of the new one.            *)
CreateProfileWithBot ==
    /\ FleetCall
    /\ LET p == counters.profile
           owned == [q \in DOMAIN ownedBotIds \cup {p} |->
                        IF q = p THEN <<OwnerBot(p)>> ELSE ownedBotIds[q]]
       IN  Delegation(owned, bots \cup {OwnerBot(p)},
                      [id \in DOMAIN botRegistry \cup {OwnerBot(p)} |->
                          IF id = OwnerBot(p) THEN OwnerRecord(p) ELSE botRegistry[id]])
    /\ counters' = [counters EXCEPT !.profile = @ + 1]
    /\ UNCHANGED <<backgroundBotIds, fleetTables, fleetFile>>

(* POST /agents/reconcile, and "bot count" said to the super agent.          *)
AgentsReconcile(count) ==
    /\ FleetCall
    /\ ReconcileTo(count, ownedBotIds, bots, botRegistry, backgroundBotIds, counters)
    /\ UNCHANGED <<fleetTables, fleetFile>>

-----------------------------------------------------------------------------
(* persistRuntimeState: the tables, then the file.                           *)
SaveFleet ==
    /\ fleetTables' = PersistedFleet
    /\ fleetFile' = PersistedFleet
    /\ UNCHANGED <<ownedBotIds, bots, botRegistry, backgroundBotIds, counters, fleetCalls>>

(* What is there when a save stops half-way.  Its statements go through the  *)
(* pool one by one, and with two saves under way BEGIN may be on another     *)
(* connection than what follows: the tables are emptied, then the profiles,  *)
(* the bots and the counters are written.                                    *)
SavePart(profiles, owners) ==
    /\ owners = {} \/ profiles = DOMAIN ownedBotIds
    /\ fleetTables' = [fleetTables EXCEPT !.owned = Restrict(ownedBotIds, profiles),
                                          !.registry = Restrict(botRegistry, owners)]
    /\ UNCHANGED <<ownedBotIds, bots, botRegistry, backgroundBotIds, counters, fleetFile, fleetCalls>>

SaveProfilesDeleted ==
    /\ fleetTables' = [fleetTables EXCEPT !.owned = NoProfiles]
    /\ UNCHANGED <<ownedBotIds, bots, botRegistry, backgroundBotIds, counters, fleetFile, fleetCalls>>

(* loadState: the bots of a profile are those whose record names it.         *)
Loaded(tables) ==
    [tables EXCEPT !.owned =
        [p \in DOMAIN tables.owned |->
            SetToSeq({id \in DOMAIN tables.registry : tables.registry[id].owner = p})]]

(* The start of a runtime: what the tables hold, or the file when they are   *)
(* empty (applyPersistedState), then the NPCs it is configured for, which    *)
(* are made anew, and a delegation.  Without profiles and bots the tables    *)
(* may still hold links and wallets, which are saved before and after the    *)
(* profiles and are not kept here: then the runtime starts without profiles. *)
RestartFleet ==
    /\ FleetCall
    /\ LET bare == DOMAIN fleetTables.owned = {} /\ DOMAIN fleetTables.registry = {}
       IN  \E data \in {Loaded(fleetTables)} \cup (IF bare THEN {fleetFile} ELSE {}) :
              ReconcileTo(BotCount, data.owned, DOMAIN data.registry, data.registry,
                            <<>>, data.counters)
    /\ UNCHANGED <<fleetTables, fleetFile>>

FleetNext ==
    \/ CreateProfileWithBot
    \/ \E count \in 0 .. MaxBots + 1 : AgentsReconcile(count)
    \/ SaveFleet
    \/ \E profiles \in SUBSET DOMAIN ownedBotIds,
          owners \in SUBSET DOMAIN OwnersBots(botRegistry) : SavePart(profiles, owners)
    \/ SaveProfilesDeleted
    \/ RestartFleet

FleetSpec == FleetInit /\ [][FleetNext]_fleetVars

-----------------------------------------------------------------------------
(* Each player has a bot that runs, under a record that names him, and the   *)
(* NPCs are those that were asked for, at most MaxBots, whichever part of a  *)
(* save a restart has found and in whatever order players, operators and     *)
(* restarts came.  A bot is on record if and only if it runs.                *)
FleetComplete ==
    /\ DOMAIN botRegistry = bots
    /\ \A p \in DOMAIN ownedBotIds :
          ownedBotIds[p] # <<>> /\ Head(ownedBotIds[p]) \in bots
                                /\ botRegistry[Head(ownedBotIds[p])] = OwnerRecord(p)
    /\ {id \in bots : botRegistry[id].duty = "npc"} = ToSet(backgroundBotIds)
    /\ Len(backgroundBotIds) <= MaxBots
=============================================================================
