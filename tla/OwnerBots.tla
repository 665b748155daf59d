----------------------------- MODULE OwnerBots -----------------------------
(* The bot of a player in the agent runtime: what its owner and the operator *)
(* configure, what the super agent delegates to it every tick, how it is     *)
(* parked while its owner plays, and what of this outlives a crash.          *)
(* agent-runtime/src/index.ts, routes/bots.ts, house.ts, superAgent.ts.      *)
EXTENDS Integers

CONSTANTS
    Profile,        \* players, each with one primary bot
    PresenceTicks,  \* the time a heartbeat of the client keeps its owner online
    MaxChanges      \* bound on calls of players and operators, and crashes

ASSUME PresenceAssumption == PresenceTicks \in Nat

Behavior == [mode : {"active", "passive"}, challengeEnabled : BOOLEAN]
Parked == [mode |-> "passive", challengeEnabled |-> FALSE]
NoPresence == [ttl |-> -1, saved |-> Parked]

VARIABLES
    behavior,       \* profile -> what its bot does
    record,         \* profile -> autoplayEnabled and managedBySuperAgent
    ownerPresence,  \* profile -> time left and the behavior saved, or NoPresence
    superEnabled,   \* superAgentConfig.challengeEnabled
    syncing,        \* a chat with the super agent waits for the pages of its skills
    disk,           \* what was saved last
    before,         \* history: the behavior a bot had when its owner came online
    changes

botVars == <<behavior, record, ownerPresence, superEnabled, syncing, disk, before, changes>>

Online(p) == ownerPresence[p] # NoPresence
Snapshot == [behavior |-> behavior, record |-> record, superEnabled |-> superEnabled]

BotsInit ==
    /\ behavior = [p \in Profile |-> Parked]
    /\ record = [p \in Profile |-> [autoplay |-> FALSE, managed |-> TRUE]]
    /\ ownerPresence = [p \in Profile |-> NoPresence]
    /\ superEnabled = FALSE
    /\ syncing = FALSE
    /\ before = behavior
    /\ disk = Snapshot
    /\ changes = 0

Change == changes < MaxChanges /\ changes' = changes + 1

-----------------------------------------------------------------------------
(* buildWorkerDirectives and applySuperAgentDelegation for a bot of a player *)
(* (makeBehaviorForDuty gives one without autoplay no initiative), then the  *)
(* presence of its owner, which wins.                                        *)
Delegated(b, r, enabled) ==
    IF ~r.autoplay THEN Parked
    ELSE IF ~r.managed THEN b
    ELSE [mode |-> IF enabled THEN "active" ELSE "passive", challengeEnabled |-> enabled]

(* Faulty variant of applySuperAgentDelegation: owners who are online are not left out. *)
DelegationOverPresence(bs, rs, presence, enabled) ==
    behavior' = [p \in Profile |-> Delegated(bs[p], rs[p], enabled)]

applySuperAgentDelegation(bs, rs, presence, enabled) ==
    behavior' = [p \in Profile |->
        IF presence[p] # NoPresence THEN Parked ELSE Delegated(bs[p], rs[p], enabled)]

(* POST /super-agent/config and /capabilities/wallet, which end with a       *)
(* delegation (of the configuration only the challenges matter here), and    *)
(* /super-agent/delegate/apply, which is that delegation alone.              *)
SuperAgentConfig(enabled) ==
    /\ Change
    /\ superEnabled' = enabled
    /\ applySuperAgentDelegation(behavior, record, ownerPresence, enabled)
    /\ UNCHANGED <<record, ownerPresence, syncing, disk, before>>

ApplyDelegation ==
    /\ Change
    /\ applySuperAgentDelegation(behavior, record, ownerPresence, superEnabled)
    /\ UNCHANGED <<record, ownerPresence, superEnabled, syncing, disk, before>>

(* parseSuperAgentActions: the commands a message holds ("settings" for      *)
(* those that change nothing of this model).  Asked for help it does nothing *)
(* else.                                                                     *)
Command == {"enable", "disable", "settings", "delegate", "sync", "status", "help"}
Message == {{"help"}} \union SUBSET (Command \ {"help"})

(* applySuperAgentAction, in the order in which the commands are looked for. *)
EnabledAfter(commands) ==
    "disable" \notin commands /\ ("enable" \in commands \/ superEnabled)

(* POST /super-agent/chat.  Commands are obeyed at once; the delegation that *)
(* follows them waits until the pages of skills have been fetched.           *)
DelegatesAtOnce(commands) ==
    \/ "delegate" \in commands
    \/ "sync" \notin commands /\ ~(commands \subseteq {"status", "help"})

SuperAgentChat(commands) ==
    /\ Change
    /\ superEnabled' = EnabledAfter(commands)
    /\ IF DelegatesAtOnce(commands)
       THEN applySuperAgentDelegation(behavior, record, ownerPresence, superEnabled')
       ELSE UNCHANGED behavior
    /\ syncing' = (syncing \/ "sync" \in commands)
    /\ UNCHANGED <<record, ownerPresence, disk, before>>

(* syncEthSkillsKnowledge has ended, with whatever outcome, for one of the   *)
(* chats that wait for it: the delegation goes by what is configured now.    *)
SyncDone ==
    /\ syncing
    /\ syncing' \in BOOLEAN
    /\ applySuperAgentDelegation(behavior, record, ownerPresence, superEnabled)
    /\ UNCHANGED <<record, ownerPresence, superEnabled, disk, before, changes>>

(* POST /agents/:id/config.  It changes the bot at once, without a look at   *)
(* the presence of its owner.                                                *)
Configured(b, r, autoplayGiven) ==
    IF autoplayGiven /\ ~r.autoplay THEN Parked ELSE b

Config(p, b, r, autoplayGiven) ==
    /\ Change
    /\ autoplayGiven \/ r.autoplay = record[p].autoplay
    /\ record' = [record EXCEPT ![p] = r]
    /\ behavior' = [behavior EXCEPT ![p] = Configured(b, r, autoplayGiven)]
    /\ UNCHANGED <<ownerPresence, superEnabled, syncing, disk, before>>

-----------------------------------------------------------------------------
(* Faulty variant of PresenceAfter: every heartbeat saves the behavior anew. *)
PresenceAfterResaved(p) == [ttl |-> PresenceTicks, saved |-> behavior[p]]

(* setOwnerOnline: the first heartbeat saves what the bot did, later ones    *)
(* only extend the presence; each parks the bot.                             *)
PresenceAfter(p) ==
    [ttl |-> PresenceTicks, saved |-> IF Online(p) THEN ownerPresence[p].saved ELSE behavior[p]]

SetOwnerOnline(p) ==
    /\ ownerPresence' = [ownerPresence EXCEPT ![p] = PresenceAfter(p)]
    /\ before' = IF Online(p) THEN before ELSE [before EXCEPT ![p] = behavior[p]]
    /\ behavior' = [behavior EXCEPT ![p] = Parked]
    /\ UNCHANGED <<record, superEnabled, syncing, disk, changes>>

(* restoreOwnerPresence for the owners in ps, on a call or when the time of  *)
(* their last heartbeat is over.                                             *)
Restored(ps) ==
    [p \in Profile |-> IF p \in ps THEN ownerPresence[p].saved ELSE behavior[p]]
PresenceWithout(ps) ==
    [p \in Profile |-> IF p \in ps THEN NoPresence ELSE ownerPresence[p]]

SetOwnerOffline(p) ==
    /\ Online(p)
    /\ behavior' = Restored({p})
    /\ ownerPresence' = PresenceWithout({p})
    /\ UNCHANGED <<record, superEnabled, syncing, disk, before, changes>>

(* The timer: reconcileOwnerPresence, then a delegation.                     *)
Lapsed == {p \in Profile : ownerPresence[p].ttl = 0}
RuntimeTick ==
    /\ ownerPresence' = PresenceWithout(Lapsed)
    /\ applySuperAgentDelegation(Restored(Lapsed), record, PresenceWithout(Lapsed), superEnabled)
    /\ UNCHANGED <<record, superEnabled, syncing, disk, before, changes>>

PresenceElapse ==
    /\ ownerPresence' = [p \in Profile |->
            IF ownerPresence[p].ttl > 0 THEN [ownerPresence[p] EXCEPT !.ttl = @ - 1] ELSE ownerPresence[p]]
    /\ UNCHANGED <<behavior, record, superEnabled, syncing, disk, before, changes>>

-----------------------------------------------------------------------------
(* persistRuntimeState, and a crash with the start after it: presence and    *)
(* the behavior saved with it are not kept.                                  *)
Save ==
    /\ disk' = Snapshot
    /\ UNCHANGED <<behavior, record, ownerPresence, superEnabled, syncing, before, changes>>

RuntimeCrash ==
    /\ Change
    /\ record' = disk.record
    /\ superEnabled' = disk.superEnabled
    /\ ownerPresence' = [p \in Profile |-> NoPresence]
    /\ syncing' = FALSE
    /\ applySuperAgentDelegation(disk.behavior, disk.record,
                                 [p \in Profile |-> NoPresence], disk.superEnabled)
    /\ UNCHANGED <<disk, before>>

BotsNext ==
    \/ \E enabled \in BOOLEAN : SuperAgentConfig(enabled)
    \/ ApplyDelegation
    \/ \E commands \in Message : SuperAgentChat(commands)
    \/ SyncDone
    \/ \E p \in Profile :
        \/ \E b \in Behavior, r \in [autoplay : BOOLEAN, managed : BOOLEAN], given \in BOOLEAN :
              Config(p, b, r, given)
        \/ SetOwnerOnline(p)
        \/ SetOwnerOffline(p)
    \/ RuntimeTick \/ PresenceElapse \/ Save \/ RuntimeCrash

(* The timer of the runtime runs for ever; nobody has to come online, leave  *)
(* or let his heartbeats cease.                                              *)
BotsSpec == BotsInit /\ [][BotsNext]_botVars /\ WF_botVars(RuntimeTick)

-----------------------------------------------------------------------------
(* A bot is parked while its owner plays: whatever activates it in between   *)
(* (a configuration, a restart), it is parked again as long as he stays.     *)
OwnerTakesOver == \A p \in Profile : Online(p) ~> (behavior[p] = Parked \/ ~Online(p))

(* When a presence ends the bot goes back to what it did when its owner came *)
(* online, however many heartbeats and ticks there were in between; only     *)
(* what the super agent delegates to it comes on top.                        *)
PresenceRestores ==
    [][\A p \in Profile : Online(p) /\ ownerPresence'[p] = NoPresence =>
         \/ behavior'[p] \in {before[p], Delegated(before[p], record[p], superEnabled)}
         \/ RuntimeCrash]_botVars
=============================================================================
