---------------------------- MODULE MarketCatalog ----------------------------
(***************************************************************************)
(* The markets of the prediction station and who keeps them: MarketService *)
(* (syncFromOracle, syncAndAutoActivate, ensureAtLeastOneActiveMarket,     *)
(* activateMarket) over the tables markets and market_admin_activation.    *)
(*                                                                         *)
(* Each of these is an async function that awaits the oracle and the       *)
(* database, and several run at once: the timer's sync, the operator's,    *)
(* those of other servers over the same database, and a guarantee that     *)
(* every request for the list runs first.  A step is the code between two  *)
(* awaits.  What a function has read it keeps, and writes later.           *)
(***************************************************************************)
EXTENDS FiniteSets, Naturals

CONSTANTS
    OracleMarket,   \* the markets of the oracle
    Fallback,       \* FALLBACK_MARKET_ID, which the oracle does not know
    SyncJob,        \* syncs that may be under way at once, on any server
    EnsureJob,      \* servers, each with one guarantee at a time
    Report,         \* what the oracle may say of a market
    FeedRows,       \* the limit the oracle is asked with
    ListRows,       \* the limit of the list a guarantee reads and a player gets
    SyncRows,       \* the limit of the list a sync reads
    MaxAdmin        \* bound: changes by the operator

VARIABLES
    oracle,         \* what the oracle says of each of its markets
    delisted,       \* the oracle's markets that are not active, or closed, there
    due,            \* the markets whose closeAt has been reached
    row,            \* table markets
    activation,     \* table market_admin_activation
    sync,           \* syncs under way
    ensure,         \* ensureActiveMarketInFlight of each server
    adminActs

catalogVars == <<oracle, delisted, due, row, activation, sync, ensure, adminActs>>

Market == OracleMarket \cup {Fallback}

Entry(s, o) == [status |-> s, outcome |-> o]
OracleEntries == [status : {"open", "cancelled"}, outcome : {"none"}]
                   \cup [status : {"resolved"}, outcome : {"none", "yes", "no"}]
ReportedClosed == Entry("closed", "none")
Entries == OracleEntries \cup {ReportedClosed}
Absent == Entry("absent", "none")

ASSUME CatalogAssumption ==
    /\ Fallback \notin OracleMarket
    /\ Report \subseteq OracleEntries /\ Entry("open", "none") \in Report
    /\ {FeedRows, ListRows, SyncRows} \subseteq Nat \ {0}
    /\ MaxAdmin \in Nat

Final == {"resolved", "cancelled"}

(* Who wrote an activation: updatedBy. *)
Writer == {"admin", "sync", "system"}
NoRecord == [active |-> FALSE, by |-> "nobody"]

NoFeed == [m \in {} |-> Absent]
Feed == UNION {[S -> Entries] : S \in SUBSET OracleMarket}

(* "left" are the markets still to be written, of those the oracle gave     *)
(* ("got") while upserting and of those to be activated afterwards.        *)
SyncIdle == [stage |-> "idle", got |-> NoFeed, left |-> {}]
EnsureIdle == [stage |-> "idle", got |-> NoFeed, left |-> {}, target |-> Fallback]

CatalogInit ==
    /\ oracle = [m \in OracleMarket |-> Entry("open", "none")]
    /\ delisted = {}
    /\ due = {}
    /\ row = [m \in Market |-> Absent]
    /\ activation = [m \in Market |-> NoRecord]
    /\ sync = [j \in SyncJob |-> SyncIdle]
    /\ ensure = [e \in EnsureJob |-> EnsureIdle]
    /\ adminActs = 0

-----------------------------------------------------------------------------
(* The oracle.  A market is resolved or cancelled; that it is resolved may   *)
(* be known before its outcome is.  Before that or after, it is closed.     *)
Later(old, new) ==
    \/ old.status = "open" /\ new.status \in Final
    \/ old.status = "resolved" /\ old.outcome = "none"
         /\ new.status = "resolved" /\ new.outcome # "none"

OracleMoves(m) ==
    /\ \E new \in Report :
          /\ Later(oracle[m], new)
          /\ oracle' = [oracle EXCEPT ![m] = new]
    /\ UNCHANGED <<delisted, due, row, activation, sync, ensure, adminActs>>

OracleCloses(m) ==
    /\ m \notin delisted
    /\ delisted' = delisted \cup {m}
    /\ UNCHANGED <<oracle, due, row, activation, sync, ensure, adminActs>>

CloseTime(m) ==
    /\ m \notin due
    /\ m = Fallback => row[m] # Absent
    /\ due' = due \cup {m}
    /\ UNCHANGED <<oracle, delisted, row, activation, sync, ensure, adminActs>>

(* The first n of a set, in an order this model does not know. *)
FirstOf(S, n) ==
    {T \in SUBSET S : Cardinality(T) = IF Cardinality(S) < n THEN Cardinality(S) ELSE n}

(* normalizeStatus reports an open market closed when its time is over.     *)
Reported(m) ==
    IF oracle[m].status = "open" /\ m \in due THEN ReportedClosed ELSE oracle[m]

(* What a fetch may return.  It asks for active markets that are not closed, *)
(* and for no more than its limit.                                          *)
Fetches == {[m \in S |-> Reported(m)] : S \in FirstOf(OracleMarket \ delisted, FeedRows)}

-----------------------------------------------------------------------------
(* listMarkets: the rows with the earliest close times, so those that are    *)
(* due before all others.                                                   *)
Rows == {m \in Market : row[m] # Absent}
Listings(limit) ==
    {L \in FirstOf(Rows, limit) : L \subseteq due \/ Rows \cap due \subseteq L}

(* A view of a market is active and may be played. *)
PlayableNow(m) == row[m] # Absent /\ row[m].status \notin Final /\ m \notin due
ActivePlayable(L) == \E m \in L : activation[m].active /\ PlayableNow(m)

(* The two writes insert a row or replace it, whatever it held. *)
Upsert(m, entry) == row' = [row EXCEPT ![m] = entry]

SetActivation(m, a, by) ==
    activation' = [activation EXCEPT ![m] = [active |-> a, by |-> by]]

(* Synchronisation: the fetch, an upsert per market, then the list of the    *)
(* markets without an activation and an activation for each of them.        *)
SyncFetch(j) ==
    /\ sync[j].stage = "idle"
    /\ \E got \in Fetches :
          sync' = [sync EXCEPT ![j] = [stage |-> "upsert", got |-> got, left |-> DOMAIN got]]
    /\ UNCHANGED <<oracle, delisted, due, row, activation, ensure, adminActs>>

SyncUpsert(j, m) ==
    /\ sync[j].stage = "upsert" /\ m \in sync[j].left
    /\ Upsert(m, sync[j].got[m])
    /\ sync' = [sync EXCEPT ![j].left = @ \ {m}]
    /\ UNCHANGED <<oracle, delisted, due, activation, ensure, adminActs>>

(* The markets to activate; with none left the sync is over.                *)
Activating(left) ==
    IF left = {} THEN SyncIdle ELSE [stage |-> "activate", got |-> NoFeed, left |-> left]

SyncList(j) ==
    /\ sync[j].stage = "upsert" /\ sync[j].left = {}
    /\ \E L \in Listings(SyncRows) :
          sync' = [sync EXCEPT ![j] = Activating({m \in L : /\ activation[m] = NoRecord
                                                            /\ row[m].status = "open"
                                                            /\ m \notin due})]
    /\ UNCHANGED <<oracle, delisted, due, row, activation, ensure, adminActs>>

SyncActivate(j, m) ==
    /\ sync[j].stage = "activate" /\ m \in sync[j].left
    /\ SetActivation(m, TRUE, "sync")
    /\ sync' = [sync EXCEPT ![j] = Activating(@.left \ {m})]
    /\ UNCHANGED <<oracle, delisted, due, row, ensure, adminActs>>

(* Only the upserts were asked for (syncFromOracle). *)
SyncOnly(j) ==
    /\ sync[j].stage = "upsert" /\ sync[j].left = {}
    /\ sync' = [sync EXCEPT ![j] = SyncIdle]
    /\ UNCHANGED <<oracle, delisted, due, row, activation, ensure, adminActs>>

-----------------------------------------------------------------------------
(* The guarantee. *)
EnsureTo(e, stage) == ensure' = [ensure EXCEPT ![e].stage = stage]

(* No listed market is active and playable: one that may be played is         *)
(* activated, whatever its record says, else the oracle is asked.           *)
EnsureRead(e) ==
    /\ ensure[e].stage = "idle"
    /\ \E L \in Listings(ListRows) :
          LET candidates == {m \in L \ {Fallback} : PlayableNow(m)}
          IN  /\ ~ActivePlayable(L)
              /\ \/ \E m \in candidates :
                       ensure' = [ensure EXCEPT ![e] = [EnsureIdle EXCEPT !.stage = "activate", !.target = m]]
                 \/ candidates = {} /\ EnsureTo(e, "fetch")
    /\ UNCHANGED <<oracle, delisted, due, row, activation, sync, adminActs>>

EnsureFetch(e) ==
    /\ ensure[e].stage = "fetch"
    /\ \E got \in Fetches :
          ensure' = [ensure EXCEPT ![e].stage = "upsert", ![e].got = got, ![e].left = DOMAIN got]
    /\ UNCHANGED <<oracle, delisted, due, row, activation, sync, adminActs>>

(* The oracle cannot be reached. *)
EnsureFetchFails(e) ==
    /\ ensure[e].stage = "fetch"
    /\ EnsureTo(e, "fallback")
    /\ UNCHANGED <<oracle, delisted, due, row, activation, sync, adminActs>>

EnsureUpsert(e, m) ==
    /\ ensure[e].stage = "upsert" /\ m \in ensure[e].left
    /\ Upsert(m, ensure[e].got[m])
    /\ ensure' = [ensure EXCEPT ![e].left = @ \ {m}]
    /\ UNCHANGED <<oracle, delisted, due, activation, sync, adminActs>>

(* Of the markets fetched, one that was open and is not due; or there is     *)
(* none, or nothing was fetched.                                            *)
OpenFetched(e) == {m \in DOMAIN ensure[e].got : ensure[e].got[m].status = "open" /\ m \notin due}

EnsureChoose(e) ==
    /\ ensure[e].stage = "upsert" /\ ensure[e].left = {}
    /\ \/ \E m \in OpenFetched(e) :
             ensure' = [ensure EXCEPT ![e] = [EnsureIdle EXCEPT !.stage = "activate", !.target = m]]
       \/ OpenFetched(e) = {} /\ EnsureTo(e, "fallback")
    /\ UNCHANGED <<oracle, delisted, due, row, activation, sync, adminActs>>

(* Faulty variant of EnsureFallback: an old close time is kept. *)
EnsureFallbackStale(e) ==
    /\ ensure[e].stage = "fallback"
    /\ Upsert(Fallback, Entry("open", "none"))
    /\ ensure' = [ensure EXCEPT ![e] = [EnsureIdle EXCEPT !.stage = "activate", !.target = Fallback]]
    /\ UNCHANGED <<oracle, delisted, due, activation, sync, adminActs>>

(* ensureFallbackMarket: written anew, with a close time in the future.     *)
EnsureFallback(e) ==
    /\ ensure[e].stage = "fallback"
    /\ Upsert(Fallback, Entry("open", "none"))
    /\ due' = due \ {Fallback}
    /\ ensure' = [ensure EXCEPT ![e] = [EnsureIdle EXCEPT !.stage = "activate", !.target = Fallback]]
    /\ UNCHANGED <<oracle, delisted, activation, sync, adminActs>>

EnsureActivate(e) ==
    /\ ensure[e].stage = "activate"
    /\ SetActivation(ensure[e].target, TRUE, "system")
    /\ ensure' = [ensure EXCEPT ![e] = EnsureIdle]
    /\ UNCHANGED <<oracle, delisted, due, row, sync, adminActs>>

-----------------------------------------------------------------------------

(* The operator switches a market that exists. *)
ActivateMarket(m, a) ==
    /\ adminActs < MaxAdmin
    /\ row[m] # Absent
    /\ SetActivation(m, a, "admin")
    /\ adminActs' = adminActs + 1
    /\ UNCHANGED <<oracle, delisted, due, row, sync, ensure>>

SyncStep(j) ==
    \/ \E m \in Market : SyncUpsert(j, m) \/ SyncActivate(j, m)
    \/ SyncList(j) \/ SyncOnly(j)

EnsureStep(e) ==
    \/ EnsureFetch(e) \/ EnsureFetchFails(e)
    \/ \E m \in OracleMarket : EnsureUpsert(e, m)
    \/ EnsureChoose(e) \/ EnsureFallback(e) \/ EnsureActivate(e)

CatalogNext ==
    \/ \E m \in OracleMarket : OracleMoves(m) \/ OracleCloses(m)
    \/ \E m \in Market : CloseTime(m)
    \/ \E j \in SyncJob : SyncFetch(j) \/ SyncStep(j)
    \/ \E e \in EnsureJob : EnsureRead(e) \/ EnsureStep(e)
    \/ \E m \in Market, a \in BOOLEAN : ActivateMarket(m, a)

CatalogSafety == CatalogInit /\ [][CatalogNext]_catalogVars

(* The timer starts syncs, players keep asking for the list (EnsureRead),   *)
(* and awaited calls return.                                                *)
CatalogFairness ==
    /\ \A j \in SyncJob : WF_catalogVars(SyncFetch(j)) /\ WF_catalogVars(SyncStep(j))
    /\ \A e \in EnsureJob : WF_catalogVars(EnsureRead(e)) /\ WF_catalogVars(EnsureStep(e))

CatalogSpec == CatalogSafety /\ CatalogFairness

-----------------------------------------------------------------------------
(* Only markets of the table are configured: the foreign key of             *)
(* market_admin_activation, which the database enforces by refusing.        *)
CatalogTypeOK ==
    /\ \A m \in Market : activation[m] # NoRecord => row[m] # Absent
    /\ oracle \in [OracleMarket -> OracleEntries]
    /\ delisted \subseteq OracleMarket
    /\ due \subseteq Market
    /\ row \in [Market -> Entries \cup {Absent}]
    /\ activation \in [Market -> [active : BOOLEAN, by : Writer] \cup {NoRecord}]
    /\ sync \in [SyncJob -> [stage : {"idle", "upsert", "activate"},
                             got : Feed, left : SUBSET Market]]
    /\ ensure \in [EnsureJob -> [stage : {"idle", "fetch", "upsert", "fallback", "activate"},
                                 got : Feed, left : SUBSET OracleMarket, target : Market]]
    /\ adminActs \in 0 .. MaxAdmin

(* The table does not stay without a market that is active and may be        *)
(* played, whatever closes, fails, is not listed or is switched off.        *)
StationUsable == []<>ActivePlayable(Market)

(* "Preserve manual overrides if this market already has an activation      *)
(* record" (MarketService.ts:354): no sync switches a market on that the    *)
(* operator has switched off.                                               *)
ManualOverridesPreserved ==
    [][\A m \in Market :
          activation[m] = [active |-> FALSE, by |-> "admin"] =>
              activation'[m].by # "sync"]_catalogVars
=============================================================================
