# Arena verification

TLA+ models, model-checking runs and machine-checked proofs for the arena: a
multiplayer world in which players and agents challenge each other to small
games, stake tokens on them, and have an escrow contract pay the winner.
Everything is translated from the code under `apps/`, `packages/` and its tests;
source references are relative to the repository root.

Tools: TLC for the runs (`PROJECT.json`, "runs"), TLAPS 1.4.5 for the proofs.

    tlc -workers 2 -config Challenges.cfg MC_Challenges.tla
    tlapm ChallengeServiceProofs.tla


## 1. The system

A deployment has a web server, one or more game servers behind a load balancer,
one agent runtime, Redis, Postgres and an EVM chain. Without Redis or Postgres
every store falls back to memory.

| Component | Code | State | Operations | Talks to |
|---|---|---|---|---|
| Challenge engine | `apps/server/src/ChallengeService.ts` | challenges by id, player -> challenge index, id counter, coin override | createChallenge, respond, submitMove, abortChallenge, tick, clearDisconnectedPlayer, setCoinflipResultOverride | returns events to its caller; no I/O |
| Challenge dispatch | `apps/server/src/index.ts` | the set of escrowed challenges, sockets | websocket handlers, registerCreatedChallenge, dispatchChallengeEventWithEscrow, 50 ms main loop, 3 s orphan sweep | engine (calls), store and bus (await), escrow adapter (await), sockets |
| Connections, presence, proximity | `apps/server/src/index.ts`, `PresenceStore.ts` | sockets by player, players in the world, presence with a 40 s expiry, pairs in range | connect, takeover, close, presence sync and refresh, proximity of each tick | Redis, sockets |
| World simulation | `apps/server/src/WorldSim.ts` | positions and velocities | step, join, leave | main loop |
| Distributed challenge store | `apps/server/src/DistributedChallengeStore.ts` | player locks, metadata, owners, open set, server heartbeats; history | tryLockPlayers, registerChallenge, updateStatus, releasePlayers, clear, heartbeat, sweep queries | Redis or memory |
| Distributed bus | `apps/server/src/DistributedBus.ts` | subscriptions | publish and receive events and commands, drop own echoes | Redis pub/sub |
| Escrow adapter | `apps/server/src/EscrowAdapter.ts` | preflight cache, requests in flight | preflightStake, lockStake, resolve, refund | agent runtime (HTTP), chain (RPC) |
| Escrow contract | `apps/contracts/contracts/BettingEscrow.sol` | bets, fee rate and recipient | createBet, resolveBet, refundBet, setFeeConfig | ERC-20 token |
| Station router | `apps/server/src/game/stations/*` | pending dealer rounds | start, pick and reveal of rounds; lists, quotes and orders of the prediction station | engine, adapter, markets, runtime |
| Markets | `apps/server/src/markets/*` | markets, activations, positions (tables) | sync and auto-activation, guarantee of an active market, activate, quote, open position, settlement worker | Postgres, adapter, Polymarket |
| Database schema | `apps/server/src/migrations/*`, `Database.ts`, `scripts/migrate.ts` | the recorded versions and what they created | migrate at start, migrate, roll back or reset by hand | Postgres |
| Rate limiter, security middleware | `apps/server/src/middleware/*` | counters per key and window | check | HTTP, websockets |
| Agent runtime | `apps/agent-runtime/src/*` | profiles and links, wallets, internal escrow, house bank, bots, owner presence, super agent | HTTP routes, background loops, saves and start | game server as a client, chain, Postgres |
| Agent bots | `apps/agent-runtime/src/AgentBot.ts`, `PolicyEngine.ts` | socket, timers, open challenge | decide, answer, move, reconnect | game server by websocket |
| Web server | `apps/web/src/*` | sessions, identities and their indexes, pending confirmations | login, provisioning, wallet routes, purge, assistants, proxying | Redis, agent runtime, game server |
| Browser client | `apps/web/public/js/*` | socket, view of its challenges, cards and their timers | render, send, time out | game server, web server |
| Shared packages | `packages/*` | none | token signing, policy checks, types | all |

**How a match runs.** `challenge_send` calls `createChallenge`; the server then
registers the challenge: it takes one lock per player in Redis, writes the
metadata and announces the challenge to both players. An accept makes it active
and starts an asynchronous dispatch that looks both wallets up and has the
adapter lock both stakes in the contract. Moves go to the engine; when both have
moved, or when `tick()` finds the deadline passed, the engine closes the
challenge and returns an event, whose dispatch resolves or refunds the stakes,
releases the player locks and clears the metadata.

**What is hard.** The engine is synchronous and small, but every event it
returns is handled by an `async` function that awaits Redis, an HTTP service and
the chain, and the socket handlers, timers and other dispatches run at each of
those awaits. Up to three such functions are under way for one challenge. Locks
have a time to live, a server may die between any two steps, other servers see
only what is in Redis, and calls to the chain fail in three ways (before the
transaction is sent, by reverting, and after it was mined). The runtime answers
before it has saved, saves its tables one after the other, and starts again from
whatever part it finds. The page keeps one record of the last answer of a
station, whichever request that was the answer to, and buttons with timers that
do not know what has become of what they asked for. `PROJECT.json` "hazards" lists
these points with their lines.

**What makes each component correct.**

- *Engine*: the player index and the challenges agree; nobody plays two matches;
  winners are the ones the rules name; a close is final and reported exactly
  once; a busy player is eventually free.
- *Contract*: it holds the stakes of every locked bet; a bet settles at most
  once, on terms fixed when it was created; a settlement pays out the pot.
- *Dispatch*: money follows the match; a recorded stake is settled in the end.
- *Connections*: an open connection keeps its player in the world; players know
  who is near.
- *Store, several servers*: at most one open match per player over all servers;
  a dead server's challenges expire; nothing of a closed challenge remains.
- *Dealer rounds*: the result is the one the revealed seeds give; every pick is
  answered, on the server and on the card.
- *Adapter*: a preflight that says yes means the stakes are covered.
- *Markets*: there is always a market to play; what the operator switches off stays
  off; a position is stored only over a locked stake, settled once, as the oracle
  decided, and its record says what the chain paid; no order is placed twice.
- *Schema*: what is recorded as applied is there.
- *Runtime*: internal balances are conserved; a subject has one profile, a player one
  running bot that is parked while he plays and gets its settings back.
- *Web server*: a purge ends all sessions; an assistant does what was confirmed,
  and no more often than it may.
- *Page*: it shows the challenge the server has, and sends what it shows.


## 2. The modules

| Module | Models | Checked by | Proved about in |
|---|---|---|---|
| `MatchLifecycle` | what the engine promises, without its index | `challenges` | `ChallengeServiceProofs` |
| `ChallengeService` | the engine | `challenges` | `ChallengeServiceProofs` |
| `ChallengeDispatch` | one server and the money: engine + escrow dispatch + adapter + contract | `challenges`, `dispatch_stranded` | `ChallengeDispatchProofs` |
| `DistributedChallenges` | several servers over one Redis: player locks, metadata, heartbeats, forwarded answers, crashes, orphan sweep | `servers`, `failover`, `dist_crossnode` | `DistributedChallengesProofs` |
| `DealerRound` | rounds against the house: commit, pick, reveal, over the engine | `dealer` | `DealerRoundProofs` |
| `StationCard` | the card of a dealer's table in the page, and the router as the page sees it | `dealer` | |
| `BettingEscrow` | the contract over an ERC-20 token | `accounts` | `AccountsProofs` |
| `EscrowPreflight` | the preparation of wallets for a stake: adapter, runtime and chain | `accounts` | `AccountsProofs` |
| `RuntimeLedger` | wallets, house bank and escrow of the runtime without a chain | `accounts` | `AccountsProofs` |
| `PlayerAccess` | sessions, identities, links and profiles | `accounts`, `access_shared` | `AccountsProofs` |
| `OperationsChief` | both operations assistants and the operator's page | `accounts` | `AccountsProofs` |
| `BotFleet` | the bots that run, over saves table by table and restarts | `accounts` | `AccountsProofs` |
| `Gateway` | connections, presence and proximity of several game servers over one Redis and its bus | `gateway` | `ClientsProofs` |
| `PlayClient` | the page's socket and its view of its challenges | `clients` | `ClientsProofs` |
| `PlayerCard` | the page's card for challenging another player | `clients` | `ClientsProofs` |
| `AgentBotClient` | a bot's socket, timers and challenges | `clients` | `ClientsProofs` |
| `OwnerBots` | a player's bot: settings, delegation, parking, commands, crashes | `clients` | `ClientsProofs` |
| `MarketCatalog` | the markets of the prediction station: oracle syncs, activations, fallback market | `failover`, `catalog_overrides` | `MarketProofs` |
| `SchemaMigrations` | the versions of the database schema | `clients` | `TablesProofs` |
| `PredictionPanel` | the page's panel of the prediction station | `clients` | `TablesProofs` |
| `MarketPositions` | positions over the catalog: orders, stakes, settlement workers | `servers`, `challenges`, `positions_unsettled` | `MarketProofs` |
| `MC_*` | instances for TLC | | |

The instances of several modules (`MC_Accounts`, `MC_Clients`, `MC_Servers`, `MC_Failover`,
`MC_DealerRound`, `MC_Challenges`) put together components that do not step on one
another's state; a variable `part` (`scope`) fixed in the initial state says which of
them a behaviour exercises, and the others stand still. They share a run, not
variables. Components that do interact are composed: `ChallengeDispatch` over
`ChallengeService` and `BettingEscrow`, `DealerRound` over `ChallengeService`,
`MarketPositions` over `MarketCatalog`.

### `ChallengeService`

One action per method, because a method runs to completion on the event loop.

| Code | Model |
|---|---|
| `challenges` | `challenges[c]`, with status `"unused"` before the id is handed out |
| `expiresAt` against `now()` | `timer[c]`, the time left, 0 once the deadline has been reached |
| `activeByPlayer` | `activeByPlayer[p]`, `NoChallenge` for no entry; the house has none |
| `challengeCounter` | `counter` |
| `coinflipResultOverride` | `override[c]` |
| the array a method returns | `returned`, the events about challenges |
| `createChallenge` | `CreateChallenge` = `CreateRefused` or `CreateAccepted` |
| `respond` | `Respond` = `RespondRefused`, `RespondAccept` or `RespondDecline` |
| `submitMove` | `SubmitMove`; the second move resolves in the same step |
| `abortChallenge`, `tick`, `clearDisconnectedPlayer` | `AbortChallenge`, `Tick`, `ClearDisconnectedPlayer` |

`Elapse` lets time pass. It is separate from `Tick`, so an answer may arrive
after the deadline and before the tick that notices it, as in the code, which
compares deadlines only in `tick()`. A random coin, a die and a coin drawn from
the hash of two seeds (`coinflip.ts`) are a choice among the results. The texts
of reasons and the ring buffer of recent log entries are left out.

`MatchLifecycle` is the same service seen from outside: matches are proposed,
start, and close void or decided; nobody is in two unfinished ones; each is
eventually closed. `ChallengeService!ML` maps the engine to it.

### `ChallengeDispatch`

EXTENDS `ChallengeService` and INSTANCEs `BettingEscrow`. Three functions may be
under way for one challenge; how far each has come is a stage per challenge:

| Stage variable | Function | Awaits between stages |
|---|---|---|
| `creating[c]` | handler of `challenge_send` and `registerCreatedChallenge` | `tryLockPlayers`, `registerChallenge` |
| `accepting[c]` | dispatch of `accepted` | wallet look-up, `escrowAdapter.lockStake` |
| `closing[c]` | dispatch of the closing event | `resolve`, `refund`, `releasePlayers` |

Registration either succeeds or finds a player locked; its commands are in
`DistributedChallenges`. A `challenge_counter` is a decline and then a challenge
of its own (`Send`).
`tx[c][k]` is the transaction of kind lock, settle or refund: sent, then mined
with the effect of the contract's action, or reverted. With `rpcFaults`, fixed
for a behaviour, the adapter may report a failure of a transaction that is still in flight or
already mined, because `tx.wait()` may throw.
A dispatch that goes through `dispatchChallengeEvent` without escrow handling ends
in stage `plain`; one that returns early in `skipped`.

### `DistributedChallenges`

Every server runs its own engine, taken here at the level of `MatchLifecycle`: a
player is busy on a server exactly with that server's open matches, which is what
`ChallengeService` implements (`LocksCoherent`, `ImplementsMatchLifecycle`).

| Code | Model |
|---|---|
| an `async` handler between two Redis commands | a job `[c, fn, step]` in `queue[s]`; the commands of a server travel over one connection and are executed in the order they were issued, so the queue is first in, first out, and executing one issues the handler's next at the end |
| a handler that awaits `lockStake`, `resolve` or `refund` | a job in `onChain[s]` |
| `arena:lock:player:*` with its TTL | `lock`, `lockTtl` |
| `arena:challenge:*` | `meta[c]`: `none`, `open`, `closed`, or `partial` (a hash that only `updateStatus` has written, which `listMetas` skips); `age[c]` for `updatedAt` |
| `arena:server:*` | `beat[s]` |
| `tryLockPlayers` | `LockFirst`, `LockSecond`, `ProbeFirst`, `ProbeSecond`, `Rollback` |
| `dispatchChallengeEventWithEscrow` | `AppendHistory` (two commands), `UpdateStatus`, then `ReleasePlayers` (GET and DEL per player) and `Clear` |
| command channel of the bus | `commands`: `Forward`, `Receive`; only a running server receives |
| `expireOrphanedChallenges` | `SweepRead`, `ExpireOrphan` |

A crash empties the server's memory and queue and leaves Redis as it is. With
`FixedIds` a server may come back under its `SERVER_INSTANCE_ID`; ids of
challenges are fresh all the same, since their prefix contains the start time.
`SweepRead` reads the live servers and the metadata in one step although the code
reads them in two: an entry that is older than the grace period was there before
either, and its owner was either sending heartbeats for as long or is gone. The
sweep's own commands for one orphan are one step, because they concern keys of a
challenge nobody else writes any more.

Redis answers in milliseconds and deadlines are seconds, so `Clock` waits until no
command is queued, no sweep is under way and every running server has sent a
heartbeat (every 2 s, kept for 40 s). It also waits until no deadline is passed and
not noticed yet (`Due`): `Tick` runs every 50 ms, and a unit is seconds. Other steps
may still come between the deadline and its `Tick`. So an open challenge never outlives
its deadline by a unit, and a lock that lapses before its match is over does so because
it was taken for less time, 15 s against 45 s.

The store without Redis is not modelled: with a single server its locks follow the
engine's own index.

### `DealerRound`

EXTENDS `ChallengeService`. `pending[p]` is the router's `pendingDealerRounds`;
`round[c]` is the call of `pickRound` that created challenge `c`, with the stage it
awaits in. `StartRound` and `PreflightReturns` are `startRound` before and after the
preflight; `PickRound`, `HouseAccepts`, `StakeLocked` or `StakeRefused`, `Reveal` or
`PickFails`, `HouseSubmits` and `Answer` are `pickRound` from await to await.
`SendMove`, `Disconnect`, `MainLoop` and `Settle` (the dispatch of a closing event)
come in between. What the hash of both seeds decides is drawn at the reveal. One
station per game: two stations of the same game differ only in refusing each
other's rounds. The older copy of these handlers in `index.ts` (863-1143) runs only
with `STATION_PLUGIN_ROUTER_ENABLED` off, which the server refuses in production.
Since `pickRound` forgets the round only at its end, a second pick may be dealt from
the same commitment once the first challenge has closed, and a finishing pick
forgets a round that was started meanwhile; the model has both.

### `StationCard`

| Code | Model |
|---|---|
| `state.ui.dealer` | `dealer`: one record for the last answer, and not every answer sets its station |
| the card, opened and closed, following the closest station | `card`, `mounted`, `OpenCard`, `CloseCard`, `Walk` |
| the template, drawn every frame | `Frame`: buttons by the state of the record, timers cleared by it |
| Play, picks, their timers of 20 s and 45 s | `Play`, `Pick`, `CardTimeout` |
| hosts that stand for a station of the server | `Dealer`, `Station` |
| `startRound`, `pickRound` | `ServeStart`, `ServePick`, `ServeDeal`; `Break` loses any of them with the link |

A message arrives, or is lost with the link, within the timers, and requests arrive in
the order they were sent. `mixed` is history for what `CardAnswers` leaves out.

### `BettingEscrow`

One action per external function, whose guard is the conjunction of its checks:
a transaction that reverts changes nothing. The token is external and modelled
as balances and allowances; its two transfers in `createBet` follow each other,
so the second sees the balances the first left, also when both parties are the
same account. `FeeOf` keeps Solidity's truncating division. Roles are sets of
accounts; amounts are natural numbers, since no sum of the real token's supply
reaches 2^256.

### `EscrowPreflight`

| Code | Model |
|---|---|
| `preflightCache`, `preflightInFlight` | `cache`, `run`, both by the pair of wallets and the amount (`preflightKey`) |
| a call of `lockStake` or `preflightStake` | `call[k]`: asking, creating, over |
| an attempt of `prepareWalletsForOnchainEscrow` | `AttemptFails`, `AttemptAnswered`; at most `MaxAttempts`, and one that timed out goes on in the runtime |
| `POST /wallets/onchain/prepare-escrow` | `prep[q][a]`, wallet by wallet: `PrepareBalance` (mint), `PrepareAllowance`, `PrepareApprove`, `PrepareRecheck`, or `PrepareFails` |
| `createBet` | `StakesMined`, which takes both stakes or reverts |
| other uses of the wallets | `TransferOnchain`, `WithdrawOnchain`, `FundOnchain` |

`clean` is history: nothing other than this preparation has touched its wallets since
it was taken up. Retries may mint twice, which the model has and nothing forbids.

### `RuntimeLedger`

The runtime without a chain: its own wallets, house and escrow. (With a chain it holds
keys only, and copies the balance of the chain into what it shows.)

| Code | Model |
|---|---|
| `wallets[].balance`, `dailyTxCount` | `funds`, `dailyTx` |
| `escrowLocks` | `escrowLocks[c]` |
| routes `/wallets/*`, `/wallets/escrow/*`, `/house/*`, `/capabilities/wallet` | one action each: `Fund`, `Withdraw`, `TransferTo`, `EscrowLock`, `EscrowResolve`, `EscrowRefund`, `SetHouseConfig`, `HouseTransfer`, `HouseRefill`, `SetWalletPolicy` |
| `npcBudgetTimer` with `ensureSeedBalances` | `BudgetTick`, wallet by wallet in the order of the registry |
| `persistRuntimeState` | `BeginSave`, an `InsertRow` per wallet, `Commit`; what is written is the balance at that moment |
| `applyPersistedState` | `RuntimeRestart`, or `Unreadable` for a file that cannot be parsed |

A stake is admitted by `canLockStake` for both sides, and for the challenger that is
done before the top-up: when he is the bank, and his opponent a dry bot that the bank
then tops up, the stake is taken from what is left without another look
(`wallets.ts:729`, `782`). `overdraft` is the history of what was missing (`Uncovered`).

Escrow records are in memory only, so that a restart forgets them while the debits may
have been saved: a restart sets `supply`, what came in less what went out, to
what it has read back. One save at a time.

### `PlayerAccess`

| Code | Model |
|---|---|
| sessions, identities and their indexes in Redis | `sessions`, `sessionOf`, `sessionsBySub`, `identities`, `subsByProfile` |
| `subjectLinks`, `profileCounter` of the runtime, and their saved copies | `subjectLinks`, `profileCounter`, `runtimeDisk` (`SaveRuntime`, `RestartRuntime`) |
| a request of a signed-in player | `request[r]` with its stage: `Enter`, `Reconcile`, `LookUp`, `Provision` or `ProvisionFails`, `Store`, `OpenSession`, `IndexSession`, the answer |
| the routes | `LocalSignIn`, `EmailSignIn`, `FirebaseSignIn`, `GoogleSignIn`, `PlayerMe`, `Bootstrap`, `IdentityWallet`, `FundOwn`, `WithdrawOwn`, `TransferOwn`, and the others on own wallet and bots |
| `purgeSessionsForProfile` | `purge`: `PurgeStart`, `PurgeSub`, `PurgeSession`, `PurgeEnd`, one access to Redis each |

Which way a subject signs in is open to everyone, a superset of what addresses and
accounts allow. `/profiles/link` has no caller and is left out. Sessions last 7 days
and identities 30, so that either may expire at any time (`SessionExpires`,
`IdentityExpires`).

### `OperationsChief`

A message becomes a list of plans (`buildPlans`, `buildRunbookSelection`,
`buildChief2Plans`), each with the calls it makes and whether it is sensitive; which
plans the words ask for is a choice among the commands. A message's number is its
confirmation token in `pendingConfirmations`. `executePlans` goes plan by plan and call
by call (`runs`), tries a plan twice in chief and once in chief2, and each call may
fail before or after it took effect (`effects`). `page` is the operator's workspace:
what it shows and which token its button confirms, while `answers` are on their way.
chief tries a plan again whose answer was lost, so that a call may take effect twice;
`ActsOnce` bounds it there and excludes it in chief2. Messages that match no command go
to the super agent's chat, which acts at once (`OwnerBots`).

### `BotFleet`

| Code | Model |
|---|---|
| `profiles`, `ownedBotIds`, `bots`, `botRegistry`, `backgroundBotIds`, the counters | the variables of these names |
| `createProfileWithBot`, `reconcileBots`, `reconcileOwnerBotsViaSuperAgent` | `CreateProfileWithBot`, `AgentsReconcile`, and both at a start |
| `RuntimeDatabase.saveState` | `SavePart`, table by table: `BEGIN` goes to the pool and not to one connection, so that a crash, or two saves at once, leave any mixture |
| `loadState`, `applyPersistedState`, start | `RestartFleet`, from the tables or the state file |

A start reads the tables when they hold profiles or bots; with neither it may still
read them, since links and wallets count too, or the file. Every restart makes the
background bots anew, with new ids. `POST
/profiles/:profileId/bots/create` refuses whoever has a bot, which is everybody, and is
left out.

### `Gateway`

Several servers over one Redis. One action per event of a socket or timer: `Connect`
(with the takeover of an older socket of the same server), `Join` (after the awaited
`presenceStore.get`), `HangUp`, `ConnectionClosed` (the close handler, which may run long
after), `Tick` (the main loop: merge of presence, pairs, enter and leave events, the
presence write of every 500 ms), `PresenceRefresh`, `PresenceExpires`, `LookUp`, and
`BusDelivers`.

| Code | Model |
|---|---|
| `sockets`, `worldSim`, `cachedPresence`, `activeProximityPairs` of a server | `sockets[s]`, `world[s]`, `cachedPresence[s]`, `pairs[s]` |
| the memory of a presence store; its entries in Redis | `memory[s]`; `redis` |
| who stands near whom at a tick | any set of pairs of players the server sees (`Shown`): distances are floating point, and a server sees the other's players where its last reading had them |
| `sendToDistributed` | `SentTo` for an open socket at the server, `Published` for a player without one there: a message to all servers |
| the player channel of `DistributedBus` | `bus[s][<<p, q>>]`, what `s` has published to `p` about `q`, in order; `BusDelivers` gives it to whichever connection holds `p` then, or to nobody |
| `nearbyIds` of the page | `nearby[c]` |

Every server keeps its own pairs, and both emit an enter and an exit for the same two
players, each to the socket it has or over the bus. So a player may hear the old news of
the other server after the new one of his own, and while the servers disagree what he is
told depends on who spoke last. `ToldWhoIsNear` asks that, with nothing on its way, he
takes another to be near as some server does; when they agree that is the answer.
`unaware` is history, per server: pairs that were there when a connection opened
(`UnknownTo`), pairs a close handler has dropped without telling, and what a server has
sent to another connection of the player. It is lifted as soon as that server speaks
again. The bus loses nothing and servers do not crash in this model; without Redis
there is one server, and that case is contained in it.

### `PlayClient`

The page on one side and, on the other, what the server shows of it to this client:
the player's challenge, and events sent when their dispatch is over, so that the events
of two challenges may come interleaved (`dispatching`, `Deliver`). `link` is
`connectSocketRuntime` with its retry timer; `incoming`, `outgoing`, `active` and
`responding` are the fields of `state.challenge` and `state.ui`, written by `Handle`,
which is `handleChallenge` event by event. A player asks again only when what he can
have on the way is below `MaxOnTheWay`.

### `PlayerCard`

| Code | Model |
|---|---|
| `nearbyIds`, the last snapshot | `inRange`, `listed` |
| `getUiTargetId`, `closestNearby*` | `UiTarget`; who is closest is a choice among those in range |
| `setInteractOpenState`, keys E, Escape, C and Tab | `OpenedView`, `ClosedView`, `InteractKey`, `EscapeKey`, `SendKey`, `cycleNearbyTarget` |
| `renderInteractionCardTemplate`, every frame | `CardFrame`: the panel is drawn anew only when its key changes (`RenderKey`), the title always |
| `sendBtn`, `acceptBtn`, `declineBtn` with their timers | `PressSend`, `SendTimeout`, `PressAnswer`, `AnswerTimeout`: both answers share a timer |
| `ensureEscrowApproval` | `PressApprove`, `Approved`, with the amount it was asked for |

What the server and the rest of the page do to the state these read (proximity,
snapshots, challenge events, policy, the link) is free. The moment between opening a
card and its first frame is left out.

### `AgentBotClient`

A socket is a value that lives on after the bot has let go of it: its close event
arrives when another is open already. `timers` are the reconnect timers that are set,
those `reconnectTimer` has been overwritten by included. `stop`, `updateDisplayName`,
`ensureActive` (the watchdog), `reconnectTimer`, the handlers of the socket's events,
and the delayed answers and moves (`AnswerChallenge`, `SubmitAgentMove`) are an action
each. Renaming a connected bot opens a second socket while the
first is closing; the close handler of the first then ends the decision loop and
forgets the player of the second, and the bot stands still on an open connection.
`Reconnects` leaves renamed bots out.

### `OwnerBots`

| Code | Model |
|---|---|
| behaviour of a bot; its record | `behavior`, `record` (autoplay, managed by the super agent) |
| `ownerPresence` with its time to live and the saved behaviour | `ownerPresence[p]` |
| `applySuperAgentDelegation`, `/super-agent/config`, `/delegate/apply`, `/chat` | `SuperAgentConfig`, `ApplyDelegation`, `SuperAgentChat`, `SyncDone`: commands of a chat are obeyed at once, delegation follows the awaited sync of skills |
| `/agents/:botId/config`, `/owners/:profileId/presence` | `Config`, `SetOwnerOnline`, `SetOwnerOffline`, `PresenceElapse` |
| `npcBudgetTimer` | `RuntimeTick`: lapsed presences, delegation, parking |
| saves and start | `Save`, `RuntimeCrash` |

`before` is history: what a bot did when its owner came online. A restart may lose a
configuration that was not saved, which `PresenceRestores` excuses.

### `MarketCatalog`

| Code | Model |
|---|---|
| table `markets` (status, outcome) | `row[m]`, `Absent` for no row |
| `closeAt` against the clock | `m \in due` |
| what the oracle says of a market; whether it lists it as active and not closed | `oracle[m]`, `delisted` (`OracleMoves`, `OracleCloses`) |
| `fetchMarkets(limit)` with `active=true&closed=false` | `Fetches`: of the markets that are not delisted, any `FeedRows` |
| `listMarkets(limit)`, `ORDER BY close_at ASC LIMIT` | `Listings(limit)`: rows that are due come before the others; among equals the order is open |
| table `market_admin_activation` | `activation[m]`: active, and who wrote it last |
| `syncAndAutoActivate`, `syncFromOracle` | `sync[j]`: `SyncFetch`, a `SyncUpsert` per market, then `SyncList` and a `SyncActivate` per market, or `SyncOnly` |
| `ensureAtLeastOneActiveMarket` | `ensure[e]`: `EnsureRead`, `EnsureFetch` or `EnsureFetchFails`, `EnsureUpsert`, `EnsureChoose`, `EnsureFallback`, `EnsureActivate`; one at a time per server (`ensureActiveMarketInFlight`) |
| `activateMarket` | `ActivateMarket` |

Every call on the database or the oracle is a step of its own, and what a function
has read (`got`, `left`) it keeps while others run. Two lists that are asked for by
one `Promise.all` are read in one step. The order in which markets are written is
arbitrary, and any candidate may be the preferred one. A guarantee that finds a
market, a sync whose fetch fails, and one that stops half way because its server
does, change nothing more and are left out. Writes and reads of the catalog succeed.
The oracle decides a market and closes it in either order and at any distance: a
decision is fetched only while the market is still listed, and a market closed first is
never fetched again. No row is ever deleted.

`FeedRows` stands for the limits of the two fetches (60 and 80), `ListRows` for the 200
of the guarantee and of the list that players get, `SyncRows` for the 300 of a sync.
`StationUsable` is about the table; that what is usable is also in the list players get
is not true once rows that are over fill it (section 5).
### `SchemaMigrations`

`schema` is what exists, `records` the versions in `schema_migrations`. Each process, a
server at its start or the script of an operator, lists the pending versions once and
then goes through them, a query and its record apart (`ApplyUp`, `recordMigration`;
`ApplyDown`, `removeMigrationRecord`), and may stop anywhere. `ApplyCollides`: two
processes that create the same thing at once, of which one fails. `MIGRATIONS` gives what
each version adds and needs. `torn` is history: a rollback was interrupted or ran
beside another run.

### `PredictionPanel`

One record, `prediction`, holds the last answer whatever it was about; `DrawPrediction`, each
frame, gives the buttons back by it, `BuyTimer` (7 s) and `QuoteTimer` (5 s) by time.
`PressRefresh`, `PressQuote`, `PressBuy` send; `AnswerList`, `AnswerPositions`,
`AnswerQuote`, `OrderPending` and `OrderAnswered` are `handlePredictionStationAction`,
whose answers (`told`) come in any order of their requests; `PredictionUi` is the
handler of `station_ui`. Which markets are active is open. `excused` is history for what
`OneOrderAtATime` leaves out.

### `MarketPositions`

EXTENDS `MarketCatalog`. The bet of a position is reduced to where its stakes are:
not locked, locked, or paid to the player, the house or both (`BettingEscrow` has
the transfers).

| Code | Model |
|---|---|
| `refreshHouseWalletId`, and a restart that forgets it | `house`: the servers that know the wallet of the house; `HouseFound`, `Ends` |
| `listMarkets(500)` of a pass, of which it takes the decided ones | `DecisionsListed`, over `Listings(SettleRows)` |
| `openPosition` | `order[x]`: `Quote`, then `LockBet` or `TooManyOpen`, then `StorePosition` or `LockRefused` |
| `escrowAdapter.lockStake` | the stage `locking`, in which `MineLock` may come |
| table `market_positions` | `position[x]`: `open`, or the recorded `settlement_reason` |
| `SettlementWorker.tick`, `settleResolvedMarkets` | `pass[w]`, one at a time per server (`inFlight`): the two lists in either order, then position by position the transaction (`MineSettlement`, or `SettlementFailed` when it reverts) and the update (`Record`) |
| a call whose receipt does not come, a missing wallet, a failed insert or update, a crash | `AbandonOrder`, `SettlementFault`; the transaction may still be mined (`MineLock`, `MineLate`) |

A call that returns and the write that follows are one step: what others do in
between they may as well do before the return. Preflight and `createBet` are one
stage. Positions are settled in any order, and a pass that finds nothing is left
out. A quote that is refused, because the market is closed or the feed is stale, is
one nobody asked for. A pass decides from the rows and pools it has read, not from
the tables as they are when it pays: `Verdict` gets `rows` and `seen`. A lost position is paid to the house, and skipped by a server that
does not know its wallet (`Payable`). Stakes count
only in the pools, and estimated and recorded amounts are left out.

`StakesLeaveEscrow` is about the code's own part: once the table holds the decision, the
stakes are released. It excuses, by name in `StakeHeld`, the three ways in which the code
stops short of that: a late sync takes the decision back, older rows crowd the market
out of the list of `SettleRows`, and no server ever knows the wallet of the house. That
the decision gets into the table at all is `ResolvedMarketsSettle`, which fails (finding 5).


## 3. The runs

`expect` is `pass` unless said otherwise.

| Run | Instance | What it shows |
|---|---|---|
| `challenges` | *matches*: 2 players and the house, 2 coin flips; *games*: 1 match of any game with all moves, two kinds of wager; *dispatch*: 1 match with its stakes and chain calls that may fail at any point; *positions*: 1 position, 1 market and the fallback, a list of one row, workers of 2 servers, 1 fault; fairness | the index agrees with the challenges (`LockCoherence`); winners are those of a reference of the rules (`OutcomeJustified`); every close is returned exactly once (`CloseAnnouncedOnce`); busy players become free (`PlayerEventuallyFree`); the engine implements `MatchLifecycle`; stakes are paid out as the match ended (`SettlementFollowsOutcome`), and without faults every recorded stake is (`RecordedStakeSettled`); `StakesLeaveEscrow`: stakes of a position are released once the table holds the decision, but for the excuses of section 2 |
| `dispatch_stranded` (violation) | 1 staked match | `SkippedNeverLocked`, see Findings |
| `servers` | two parts: 2 servers, 2 players, 2 challenges, a crash and a restart; 2 positions of one player, 1 market, workers of both servers, 1 fault; symmetric | `OnePendingAcrossServers`: no player is offered matches on two servers at once; `NothingLeft`: nothing of an unstaked challenge that is over stays in Redis; `RecordBackedByChain`, `OutcomeOfOracle`: records, money and oracle agree; `SettledOnce` |
| `failover` | two parts: 2 servers of which one starts late, 2 players and the house, 1 challenge, a crash, reconnects, forwarded answers; a market of the oracle and the fallback with one sync, one guarantee and a change by the operator, the list of the guarantee cut at one row; fairness | `FailoverSound`: nobody is told of a failover while the match goes on; `OrphanExpired`: a gone server's challenges are expired; `StationUsable`: there is again and again a market in the table that is active and may be played |
| `dist_crossnode` (violation) | 2 servers, 2 players, 2 challenges, one forwarded command; locks of 2 units, pending challenges of 1, matches of 3 | `OneMatchAcrossServers`, see Findings |
| `dealer` | 1 player, 2 challenges, 1 seed, coin flip and dice; a card with a station of its own and a host that stands for another, one break of the link; fairness | `CoinAsRevealed`: a coin is the one its revealed seeds give, whatever comes between reveal and move; `PickAnswered`, `RoundDropped`; `CardAnswers`: the card gives the player a button back |
| `accounts` | six parts: 2 bets with rates 0, 3333, 10000, 10001 and stakes 0, 1, 3; 2 wallets, 2 calls and 2 stakes to prepare; 2 players, a bot and the house with 3 calls and bets of up to all of a bankroll; 2 subjects, 3 requests and a fault; 2 operators with 2 messages and 2 failures; 4 fleet calls | `Solvent`; `PreflightSound`; `MoneyConserved`; `OneProfileEach`; `PurgeLogsOut`; `ActsOnce`; `ConfirmsWhatIsShown`; `FleetComplete`: each player has a bot that runs and the NPCs are those asked for, whichever part of a save a start has found |
| `access_shared` (violation) | 2 subjects, a restart of the runtime | `NoSharedProfile`, see Findings |
| `gateway` | 2 servers, 2 players, 2 sockets that are opened three times, 2 messages to a player about another underway from each server, 1 with the third connection; symmetric | `OpenInWorld`: an open connection is registered and its player in the world; `ToldWhoIsNear`: a client ends up with the neighbours some server sees |
| `clients` | seven parts: a page with 2 challenges, and with 1 over a link that drops; a bot with 3 sockets, 2 drops, a rename; an owner with 4 changes or crashes; a card with 2 other players, a station and 6 acts; a panel with 3 requests and a cut; 2 servers and an operator that migrate, roll back and crash; fairness of the first five | `PageFollowsServer`, `AnswerComesBack`; `OneSocket`, `Reconnects`; `OwnerTakesOver`, `PresenceRestores`; `SentAsShown`; `OneOrderAtATime`; `SchemaAsRecorded` |
| `catalog_overrides` (violation) | the catalog with two syncs | `ManualOverridesPreserved`, see Findings |
| `positions_unsettled` (violation) | 1 position, 1 worker, no fault, fairness | `ResolvedMarketsSettle`, see Findings |

**Bounds.** `MaxChallenges` caps the id counter, a guard of `CreateAccepted`. Two
challenges suffice for every property of two, and that no number of players
changes the picture is proved. Deadlines are one unit: the code only compares
them with the clock, so that "not yet" and "reached" are what matters. A wager that is
no number and one above the maximum are the two the engine changes. Stakes 1
and 3 with a rate of 3333 make the division truncate; stake 0 and rate 10001 are
the refused boundary values. One match suffices for the dispatch properties, each
of which speaks of one challenge. In `DistributedChallenges` `MaxCrashes`,
`MaxCommands` and `MaxChallenges` bound what may happen, `MoveBound` how often a
party repeats its move, `Roaming` whether players reconnect, and `Late` lists
servers that start after the others. Units of time keep the order of the
code's defaults: a pending challenge and its locks 15 s (1), the grace period 30 s
(1 or 2), a heartbeat 40 s (2), an active match 45 s (1, so that the runs stay
small, and 3 in `dist_crossnode`, where locks last 2). In `DealerRound` `MaxSeeds` bounds the commitments;
one is enough for two challenges dealt from the same one.

In `EscrowPreflight` two stakes of different amounts over the same two wallets are what
it takes to meet another key's preparation, and `MaxEvents` bounds other uses of the
wallets. In `RuntimeLedger` three calls reach a lock, a payout or refund, and a call
between; balances and seeds are small enough for every refusal. `MaxRequests`,
`MaxProfiles`, `MaxSessions` and `MaxFaults` bound `PlayerAccess`: two people, three
requests of which two are under way at once, a restart. Two messages of the assistant give a
confirmation of one while the other is answered. `MaxFleetCalls` = 4 gives profiles, a
reconciliation, and a restart from a torn save. A third connection in `Gateway` is a
takeover of a takeover, or a player who goes to the other server and comes back; with it
`MC_Gateway` lets a server have one message underway to a player about another instead
of `MaxOnBus` = 2, which is what keeps the run small. Two drops and a rename in `AgentBotClient` set timers the bot
has lost track of. `MaxActs` = 6 in `PlayerCard` is opening, drawing, a change of who is
near, drawing, sending and what follows. In the catalog
`MaxAdmin` bounds the operator's changes, `Report` lists what the oracle may say. `FeedRows`, `ListRows`, `SyncRows` and
`SettleRows` are the limits of the queries: one row, with two markets, is what it takes to
leave one out. In
`SchemaMigrations` `MaxRuns`, `MaxRollbacks` and `MaxCrashes` bound runs; all eight
versions are there. In `PredictionPanel` one market suffices, since the number of
markets plays no part in the buttons, and `MaxAsked` is an order, another request and a
second order. `MaxPositions` bounds the positions, `MaxFaults`
failed calls and crashes. Two positions, with
stakes 1 and 2, give every case of the pools (nothing, less, as much or more on the
losing side); one player with room for one position makes the limit bite; in
`servers` a market is resolved yes, its outcome known at once or later, since
"no" mirrors it and a cancelled market is settled like one without an outcome, and
no server runs the guarantee (`EnsureJob` is empty). In `challenges` the position is on
"no", the side that needs the wallet of the house when the outcome is yes, and a
guarantee has made the fallback before: with a list of one row either market may be the
one a pass sees until the other's close time has come. In `failover` a
cancelled market is left out, being as little playable as a resolved one. Deadlock checking is off because an
instance rightly stops when its bounds are used up and nobody is left to act.

**Fairness.** Weak fairness of `Tick` and `Elapse`: the main loop runs every 50 ms
and clocks advance. In `ChallengeDispatch` also of each challenge's server steps
(awaited promises settle, and the event loop then continues the function) and of
`Mine` (the chain mines what it is sent). Players never owe a step. In
`DistributedChallenges` the queue, sweep, heartbeat and `Tick` of each server are weakly
fair, but not its start: a server that is down may stay down. In `DealerRound` the
steps of a pick, the dispatches, the main loop and the clock are weakly fair. In the
markets each sync and its start (a timer), each guarantee and its start (every request
for the list runs one), and each settlement pass (a timer) are weakly fair; players, the
operator and the oracle owe nothing, and no server owes learning the house's wallet. `Clock` is strongly fair in
`DistributedChallenges`, since it waits for moments without commands under way; commands
take milliseconds and new ones are bounded, so such moments keep coming. Settlement in
`ChallengeDispatch` is stated without `rpcFaults`: with them the code gives up on a
refund after one attempt, and nothing more can be promised.

In `StationCard` frames, timers and the delivery of messages are weakly fair, a round
once begun is not: it may never be answered, which is what the timers are for. In
`PlayClient` the retry timer, the fetch that precedes a connection, the server's handling and
the delivery of what is on its way; the link may drop at any time. In `AgentBotClient`
the reconnect timer, the periodic delegation that calls `ensureActive`, the opening and
closing of a socket. In `OwnerBots` the runtime's timer. `Gateway` has
safety properties only, and no fairness.

**Faulty variants.** The operators marked "Faulty variant" change one definition
the way a plausible bug would; putting one in place of the definition makes TLC
report a violation of the property it is listed with in `PROJECT.json` "mutants".


## 4. The proofs

| Theorem | States |
|---|---|
| *Engine* (`ChallengeServiceProofs`) | |
| `TypeCorrect` | `Safety => []TypeOK` |
| `LocksCoherent` | `Safety => []LockCoherence` |
| `OneOpen` | `Safety => []OneOpenChallenge` |
| `ClosedStaysFinal` | `Safety => ClosedIsFinal` |
| `EveryCloseAnnounced` | `Safety => CloseAnnouncedOnce` |
| `WinnersAreJustified` | `Safety => []OutcomeJustified` |
| `ServiceImplementsMatches` | `Safety => ML!Safety` |
| *The server around it* (`ChallengeDispatchProofs`) | |
| `ServerDrivesEngine` | `DispatchSafety => Safety` |
| `SettlementsFollow` | `DispatchSafety => SettlementFollowsOutcome` |
| `RecordIsReliable` | `DispatchSafety => []RecordedWasLocked` |
| `StakesBeforeRelease` | `DispatchSafety => []ReleasedWhenPaid` |
| *Rounds against the house* (`DealerRoundProofs`) | |
| `CoinIsTheRevealedOne` | `DealerSafety => []CoinAsRevealed` |
| *Several servers* (`DistributedChallengesProofs`) | |
| `DistributedTypesHold` | `Safety => []TypeOK` |
| `DistributedOnePending` | `Safety => []OnePendingAcrossServers` |
| `DistributedNothingLeft` | `Safety => []NothingLeft` |
| `DistributedFailoverSound` | `Safety => []FailoverSound` |
| `DistributedClosedByOneHandler` | `Safety => []ClosedByOneHandler` |
| *Money, accounts, operators* (`AccountsProofs`) | |
| `EscrowTypeCorrect` | `EscrowSpec => []EscrowTypeOK` |
| `BetTermsStayFixed` | `EscrowSpec => BetTermsFixed` |
| `PotIsPaidOut` | `EscrowSpec => PotPaidOut` |
| `ContractStaysSolvent` | `EscrowSpec => []Solvent` |
| `SettlementsNeverFail` | `EscrowSpec => []SettlementsCovered` |
| `LedgerBalances` | `LedgerSpec => []Balanced` |
| `MoneyIsConserved` | `LedgerSpec => []MoneyConserved` |
| `PreflightCanBeReliedOn` | `PreflightSpec => []PreflightSound` |
| `EverybodyHasOneProfile` | `AccessSpec => []OneProfileEach` |
| `PurgesAreComplete` | `AccessSpec => PurgeLogsOut` |
| `AssistantsActOnce` | `ChiefSpec => []ActsOnce` |
| `ButtonsConfirmWhatIsShown` | `ChiefSpec => []ConfirmsWhatIsShown` |
| `EveryPlayerHasABot` | `FleetSpec => []FleetComplete` |
| *Clients and what serves them* (`ClientsProofs`) | |
| `StaysInWorld` | `GatewaySpec => []OpenInWorld` |
| `NeighboursAreTold` | `GatewaySpec => []ToldWhoIsNear` |
| `PageIsUpToDate` | `ClientSpec => []PageFollowsServer` |
| `OneSocketAtATime` | `AgentSpec => []OneSocket` |
| `OwnersSettingsReturn` | `BotsSpec => PresenceRestores` |
| `ChallengesNamedPlayer` | `PlayerCardSpec => []SentAsShown` |
| *Tables and markets* (`TablesProofs`, `MarketProofs`) | |
| `SchemaMatchesRecords` | `SchemaSpec => []SchemaAsRecorded` |
| `OneOrderOutstanding` | `PanelSpec => []OneOrderAtATime` |
| `CatalogTypeCorrect` | `CatalogSafety => []CatalogTypeOK` |
| `PositionsTypeCorrect` | `PositionsSafety => []PositionsTypeOK` |
| `RecordsBacked` | `PositionsSafety => []RecordBackedByChain` |
| `PositionsSettledOnce` | `PositionsSafety => SettledOnce` |
| `OutcomesOfOracle` | `PositionsSafety => []OutcomeOfOracle` |

With these every safety property of the runs that expect to pass is proved for all
values of the constants that the assumptions below admit, and with any bounds: the
bounds of the runs are constants like the others, and the theorems about `Gateway` are
about `GatewaySpec`, without the further bound of `MC_Gateway`. `AccountsProofs` takes tlapm some six
minutes, `DistributedChallengesProofs` as long, the others a minute or two each.

**What is assumed.** Only what the modules name about their constants, which TLC
evaluates on the instances. Most of it says that a set has the type it is used with and
that a value that stands for "none" is not one of the others. These say more:

- `DistributedAssumption`: a heartbeat lasts at least two units (`BeatTicks`), a unit
  being the time in which each living server renews its own; the entry lives for at
  least 10 s (`config.ts:56`) and is renewed every 2 s (`index.ts:1553`). And a pending
  challenge does not outlive its locks (`PendingTicks <= LockTicks`): they are taken
  for `Math.max(6_000, challengePendingTimeoutMs)` (`index.ts:612`).
- `DispatchAssumption`: the contract and the fee recipient it was deployed with are no
  players' wallets. The runtime makes those, one for each player; the recipient is the
  configured address or the deployer (`deploy.ts:9`).
- `PreflightAssumption`: the approval and funding of a stake is tried at least once
  (`MaxAttempts`).
- `LedgerAssumption`: there are finitely many wallets, users' and NPCs' wallets are
  different ones, amounts are natural numbers and fees at most the amount.
  `MaxBetPercent` is any natural number: the default is 5 (`SuperAgent.ts:63`), an operator
  may set up to 100 (`superAgent.ts:194`), with which the run works.
- `OutcomesOfOracle` rests on the oracle not taking an outcome back, which is how
  `Later` models it: an assumption on an external service.

**The arguments.**

*Engine.* The inductive invariant `IndInv` is `TypeOK`, `LockCoherence` and two
facts it needs: ids at or above the counter are unused (`CounterFresh`), or a new
challenge could overwrite a live one; and an open challenge is between two known
parties (`PartiesKnown`), or the entries a close clears could be those of the wrong
player. `LocksCleared` removes entries whatever they hold; that it removes only entries
of the closing challenge is exactly `LockCoherence`. `OneOpenChallenge` follows
from coherence alone: an index holds one value per player. The two action
properties are proved action by action from `IndInv`.

*Outcomes.* `OutcomeJustified` alone is not inductive: that a flip with two
different moves has a winner needs that moves, and the coin, are sides of a coin.
`AllJust` adds `MovesFit`, every move made is one of the challenge's game; the
judge of each game is then compared with `Beats` once (`JudgeByRules`), and the
timeout of `tick` falls under the same lemma.

*Refinement.* Under the mapping of `ChallengeService!ML` each action is a step of
`MatchLifecycle` or changes no match. `RefInv` is `IndInv` and `Fresh`: an unused
challenge has no winner left from an earlier one. That a new match's players are
in no other open one is the use the proof makes of `LockCoherence`.

*The server around the engine.* Each step of `ChallengeDispatch` is a step of the engine
or leaves it alone (`ServerDrivesEngine`), so `IndInv` is there to build on.
`DispatchInv` adds the stages of the dispatches (`StagesOK`, `StagesFit`): a payout is
sent for resolved challenges only, a refund by the dispatch of a close only, when there is
no winner or the payout has failed, and a closing dispatch is at work for challenges that
are closed, for good. `BetsFit` says that a
bet in the contract carries the challenge's parties and wager, which is why paying "the
winner" pays a party of the bet; `PartiesStay` that they remain those of a known
challenge.

`RecordInv` relates three views of a stake, the server's record, its transactions and the
contract: what is recorded has a mined lock, what is being settled is recorded, and when a
transaction of a settlement has been mined or has reverted the bet is settled, by this or
the other one. So the record names locked stakes only (`RecordIsReliable`), and without
failing calls players are released after their stakes (`StakesBeforeRelease`). It is the
safety on which `RecordedStakeSettled` rests; finding 1 is about stakes that are locked
but not recorded in time.

*Rounds.* The router answers a pick by creating the challenge, revealing, and moving for
the house, with awaits between. `DealerInv` describes each round by its stage
(`Deals`): the challenge awaits an answer only until the reveal, the house has no move
before it, and from then on the engine holds the coin that was drawn as long as the
match is active. So a flip that both sides played shows that coin (`ShowsCoin`).

*Several servers.* The commands of a server's dispatches run one by one in the order
they were queued, one per round through the queue. `DistInv` gives each job a rank, the
number of rounds it has behind it; of two jobs of one challenge the one ahead has the
higher rank, so a close never overtakes what came before it, and there is one close
(`QueueOK`, `ChainOK`). A job at a step that deletes or rolls back a lock holds it
(`LocksOK`). A lock in Redis belongs to a challenge of the server written into it and of
the player it is kept under, and lasts at least as long as that challenge awaits an
answer (`LockOK`). `ChallengeOK` says that a closed, unstaked challenge is being closed
by some job or nothing of it is left (`ClosedOK`), that an announced challenge which
awaits an answer holds its locks (`AnnouncedOK`), and that once its metadata has some age
the owner of an open or handled challenge has a heartbeat (`BeatOK`), so that no sweep
takes it for an orphan (`SweepOK`). From this follows that a `DEL` that does not look at
what it deletes, in a release or a rollback, removes only locks of its own challenge.
The five theorems are consequences of `DistInv`.

*Contract.* `EscrowInv` is `EscrowTypeOK` and the fact that the parties of a bet
that is not `None` are accounts. Non-negative balances need that the sender covers
each transfer in turn, which is the second transfer's guard on the balances the
first leaves; `FeeBound` shows that a fee is between 0 and the pot for any rate
up to 10000.

*Sums.* `Solvent` and `MoneyConserved` speak of sums over sets of any size. The library's
induction over finite sets has an operator as a parameter, so the proofs do it with
sets in its place: the subsets for which a claim holds are a set that has the
empty one and grows by one element at a time. From this come the three facts that the
arguments need: the order in which a fold adds the summands does not matter, a sum
over a set with one element more is the sum and that element, and changing one
summand changes the sum by the difference. `SolventInv` then follows call by call, and with
it that no settlement or refund ever lacks the tokens (`SettlementsNeverFail`).
`LedgerInv` says that balances and stakes in escrow are the supply, that nobody but the
bank is overdrawn, and the bank by no more than `overdraft`. That `overdraft` stays 0 when
bets are at most half of a bankroll is arithmetic: what the bank had beyond the stake
covers the top-up, which is no more than the stake. The two wallets of a lock
or payout may be one, the bank, which takes its own case.

*Preflight.* `PreflightInv` marks preparations, cached results and answers that were made
before a wallet was touched as unclean (`clean` in the model). A clean one is covered by
the tokens and approvals of the moment. Approvals, transfers, withdrawals and `createBet`
make unclean what else speaks of the same wallet; all other steps, funding among them,
keep what covers a stake (`KeepsFunds`).

*Accounts.* While no profile is lost (`lost`), `Linking` holds: the links of
different subjects name different profiles, and identities and requests under way carry
the profile of the link (`AccessInv`). For a purge, `PurgeInv` says that each
session that existed when it began and still does is in what the purge has collected or
in the index of a subject it is still to visit.

*Assistants.* `ChiefInv` says that a token is run by one execution at most and never while
it is pending, that only plans run have acted, and that a plan's call has taken effect at
most as often as the position of its run allows (`MayHaveActed`). On the page, the
token a button sends and the plan shown change together, in the page and in every answer
on its way to it (`PageInv`).

*Bots.* `FleetInv` holds of the running fleet, and `SavedOK` of what tables and file
hold, for every mixture of old and new tables: the start repairs any of them.

*Gateway, bots' sockets, owners, card.* Here the property is nearly inductive. `GatewayInv`
is types and the two properties; `AgentInv` adds that only the current socket may be
connecting or open, and that a set timer is one of those counted, although it may have
lost track of others; `BotsInv` says that the
record of a presence holds what the bot did before; for the card, the title shown and
the buttons drawn name the same player, since the key that decides on redrawing holds
the player's id (`ButtonsMatchTitle`).

*The page.* What a page shows is behind the server by all that is on its way, so the
invariant speaks of the page as it will be: `WillBeInStep` says that there is a chain of
pages, the first being the page as it is and each next one what handling the next
message of the inbox makes of it, whose last is in step with the server but for the
events still to be dispatched, or has missed one. `DispatchesFit` says what these may
be: an acceptance follows its creation, of an open challenge no end is under way, and
creations and moves are of the open challenge or followed by an end. `AnswerDue` says
what a page that waits for an answer waits for.

*Migrations and the panel.* `SchemaInv`: unless a migration was torn, the records are an
initial segment of the versions, and each process is at the place its list and that
segment allow. `PanelInv`: unless the player was told otherwise, there is one order
among requests and answers, and the buttons are locked as long as there is.

*Markets.* The type invariant of the catalog holds the table's foreign key: what is
activated is there. A sync activates from a list it made earlier and a guarantee what
it chose earlier, so `CatalogInv` adds `InHand`: what a function is about to activate
is already in the table, and no step takes a row out. It also carries
`ReportsConfirmed`: every outcome in the table, or fetched and still to be written, is
the oracle's.

*Positions.* Nothing keeps two workers from settling the same position, and the update
of the table does not look at the status it replaces. The table is right all the same
because the contract settles a bet once and a worker writes only what its own
transaction did: `PaidHold` and `OneHolder` say that between the two the position is
open, its bet is paid as will be recorded, and no other worker holds it.
`RecordBackedByChain` and `SettledOnce` follow. For `OutcomeOfOracle` the invariant of
the catalog is taken over and carried into what a pass has read (`PassTrue`).

**Left to TLC.** Liveness, for which there is no prover of fairness and `ENABLED` here:
`PlayerEventuallyFree`, `RecordedStakeSettled`, `OrphanExpired`, `PickAnswered`,
`RoundDropped`, `CardAnswers`, `AnswerComesBack`, `Reconnects`, `OwnerTakesOver`,
`StationUsable`, `StakesLeaveEscrow`, and the fairness half of
`ImplementsMatchLifecycle`, whose safety half is `ServiceImplementsMatches`. `StationCard`
has liveness properties only, and so no theorem.


## 5. Findings

1. **A stake may be stranded** (`dispatch_stranded`). A match that closes while
   `lockStake` is being awaited (a disconnect, two quick moves, the timeout) is not in
   `escrowLockedChallenges` yet, so the closing dispatch skips its settlement
   (`index.ts:509`); the lock then succeeds, is recorded, and nothing settles it.
   `progress.md:378` says unnecessary attempts are prevented "when escrow lock never
   succeeded"; in this run it succeeds.
   `RecordedStakeSettled` shows that a stake recorded in time is always settled.
2. **Two servers, one player, two matches** (`dist_crossnode`). A player lock is taken
   for `max(6000, challengePendingTimeoutMs)` (`index.ts:612`), 15 s by default, and never
   renewed; an accepted match is open for 45 s (`ChallengeService.ts:156`). In the run a
   challenge is accepted, two units pass and its locks (2) lapse while the match (3) is
   being played; the second server, whose engine does not know the match, creates another
   with the same players, takes their locks and announces it.
   `README.md:112` says the locks "prevent duplicate cross-node matches".
   `OnePendingAcrossServers` shows what they do prevent: two offers at once.
3. **A sync overrides the operator** (`catalog_overrides`). `syncAndAutoActivate` reads
   the activation records once and then awaits a write per market. A market the
   operator switches off in between has no record in what was read, and the sync's
   write replaces the operator's (`MarketService.ts:357`). The comment above it says
   "Preserve manual overrides if this market already has an activation record."
4. **Two people, one player** (`access_shared`). The runtime answers a provisioning at
   once and saves 250 ms later (`agent-runtime/src/index.ts:2031`). When it restarts in
   between, it counts on from the number it saved last and gives the profile's number to
   the next subject, while the web server's stored identity of the first still names it,
   and is kept, since his subject has no link any more. `apps/web/src/server.ts:528` says
   of the lookup before provisioning: "This avoids duplicate subject->profile assignments
   during transient runtime failures." `OneProfileEach` shows what holds as long as no
   crash has lost a profile.
5. **A resolved market that does not settle** (`positions_unsettled`). The feed asks for
   markets with `active=true` and `closed=false` (`PolymarketFeed.ts:96`), and nothing asks
   for the outcome of one market. A market that the oracle resolves and closes between two
   syncs is never fetched again: its row stays open, and `settleResolvedMarkets` passes
   over it (`MarketService.ts:739`). The dealer of the station says "Resolved markets settle
   automatically and winnings land in your wallet." (`world-npc-hosts.js:73`).
   `StakesLeaveEscrow` shows what happens once the decision is in the table.

One more is visible in `MarketCatalog` and has no run of its own. `listMarkets(200)` takes
the rows with the earliest closing times (`Database.ts:511`), and nothing deletes
the rows of markets that are over, so they come first. Once they fill the limit
(`Listings(ListRows)`), the guarantee sees nothing active (`MarketService.ts:250`), renews
and activates the fallback, and the list that players get (`MarketService.ts:501`) still
lacks it, although `MarketService.ts:293` says "fallback market keeps station usable".
`StationUsable` shows that the table itself has a usable market.

Not findings, since nothing in the repository says otherwise, but visible in the models:

- *Staked challenges.* The dispatch of a staked challenge that closes before it was
  escrowed returns before `releasePlayers` and `clear` (`index.ts:519`, `566`), and one
  whose stakes cannot be locked is aborted without the store (`index.ts:495`). Its locks
  stay until they expire and its metadata stays, so that `NothingLeft` is stated for
  unstaked challenges, and a counter-offer to a staked challenge is refused as busy.
- *Dealers.* One commitment may be dealt twice, and a finishing pick may forget a newer
  round (`router.ts:432`). On the coin table's card an error after a ready round hides
  both Play and the picks although it says "Try again" (`interaction-card.js:457`, `803`).
  Answers to an earlier request, or about the table before, count as current, clear the
  timers and may be shown on the card of another table, and a stale pick timer fires there.
- *Positions.* A settlement that is mined but not recorded is
  never recorded: every later pass finds the bet settled, fails, and leaves the position
  open (`MarketService.ts:786`), so that `StakesLeaveEscrow` speaks of the stakes and
  not of the record. A stake locked by an order that is lost stays in the contract. The
  pools of a pass are those of the positions still open, so that a winner settled by a
  later pass than the losers is refunded only. The guarantee may activate a market the
  operator has switched off; it says so (`system:auto_activate`).
- *The prediction panel.* After 7 s it says "No server response. Try again." while the
  order may still fill; any error, and opening the panel anew, give the buttons back
  too. A quote replaces the list by its one market until Refresh, and a
  late one selects its market again. A selected market that a new list lacks leaves the
  drop-down blank: the preview is about the first market, an order would go to the old one.
- *The player's card.* Accept stays pressed when Decline, which has the same timer, is
  pressed after it on a panel that is not redrawn. `respondingIncoming` is
  not reset when the link is lost, and keeps the player from answering and challenging
  until the next challenge event.
- *Connections.* A player whose connection closes while his presence is read joins all
  the same. A connection that takes over is not told of those who are near already. A page
  that reconnects keeps the ids of its challenges, and an acceptance told late clears
  newer ones.
- *Bots.* A bot renamed while connected stands still. Each start makes NPCs with new ids
  and wallets, while the wallets of the old ones keep the house's money.
- *The runtime's tables.* `BEGIN`, the statements and `COMMIT` go to a pool
  (`RuntimeDatabase.ts:236`): two saves at once, or a crash, leave any part of one. New
  profiles with an old counter make the next profile replace another. Stakes in escrow
  are forgotten at a restart while the debits are saved.
- *Assistants.* chief tries a plan again whose answer was lost, also when only the record of
  the audit failed, so that a transfer may be made twice.
- *Migrations.* A rollback that is interrupted leaves a version on record that is gone, and
  one beside an upgrade can leave a gap. `migrate:reset` ends in failure: rolling back the
  first version drops the table of the records.


## 6. The plan

What is done: the modules of section 2. What is left, in this order:

1. Proofs: the invariants of `StationCard` (which timers belong to which button) and of
   the dealers' rounds beyond the coin; an abstract specification of the locks that
   `DistributedChallenges` implements.
2. The page's other cards (the cashier's table with its quotes and withdrawals), and the
   dashboard's actions on bots and wallets.
3. The stores without Redis, where one server keeps what several share.
4. A composition of `PlayClient` with `Gateway`, so that the page's link is the
   connection the server sees.


## 7. Not modelled

In `Gateway`: a server that crashes with its connections, messages of the bus that are
lost with a Redis connection, and challenge events over the bus (the commands for
challenges are in `DistributedChallenges`). Both presence store and bus without Redis.

World simulation beyond who is near whom (floating point), rendering and input of the
browser client, dashboards and guides, HTTP proxying and page serving, the reading of
intents from text and calls to external models, logging and metrics, message parsing and
validation of strings, token signing, configuration, the rate limiter (no property here
depends on it), hedging of positions on an outside exchange (nothing reads its result but
the operator). The copy of the coin table in `index.ts` (863-1143) runs only with
`STATION_PLUGIN_ROUTER_ENABLED` off, which the server refuses in production. The number
of requests an owner's language model may make per hour is configured and never enforced
by the code. `PROJECT.json` "components" lists each part with its reason.
