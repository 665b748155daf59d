---------------------------- MODULE MarketProofs ---------------------------
(***************************************************************************)
(* Theorems about the prediction markets: the catalog, then the positions  *)
(* over it.                                                                *)
(***************************************************************************)
EXTENDS MarketPositions, TLAPS

-----------------------------------------------------------------------------
(***************************************************************************)
(* Theorems about MarketCatalog, for any markets, syncs, guarantees and    *)
(* reports of the oracle.                                                  *)
(*                                                                         *)
(* A function writes what it has read earlier, and activates a market      *)
(* after others have written: that it is there by then needs what each     *)
(* function still has in hand (InHand).  That nothing the table says of an *)
(* outcome is ever wrong (ReportsConfirmed), however late it was written,  *)
(* needs that the oracle does not take back an outcome.                    *)
(***************************************************************************)

SyncRecord == [stage : {"idle", "upsert", "activate"}, got : Feed, left : SUBSET Market]
EnsureRecord == [stage : {"idle", "fetch", "upsert", "fallback", "activate"},
                 got : Feed, left : SUBSET OracleMarket, target : Market]

(* What a sync or a guarantee still writes is in what it has fetched, and   *)
(* what it will activate is in the table.                                   *)
SyncInHand(s, table) ==
    /\ s.stage = "upsert" => s.left \subseteq DOMAIN s.got
    /\ s.stage = "activate" => \A m \in s.left : table[m] # Absent

EnsureInHand(s, table) ==
    /\ s.stage = "upsert" =>
          /\ DOMAIN s.got \subseteq OracleMarket /\ s.left \subseteq DOMAIN s.got
          /\ \A m \in DOMAIN s.got \ s.left : table[m] # Absent
    /\ s.stage = "activate" => table[s.target] # Absent

InHand ==
    /\ \A j \in SyncJob : SyncInHand(sync[j], row)
    /\ \A e \in EnsureJob : EnsureInHand(ensure[e], row)

(* An outcome that is reported is the oracle's. *)
Confirmed(m, r) == r.outcome # "none" => m \in OracleMarket /\ oracle[m].outcome = r.outcome

ReportsConfirmed ==
    /\ \A m \in Market : Confirmed(m, row[m])
    /\ \A j \in SyncJob : \A m \in DOMAIN sync[j].got : Confirmed(m, sync[j].got[m])
    /\ \A e \in EnsureJob : \A m \in DOMAIN ensure[e].got : Confirmed(m, ensure[e].got[m])

(* The inductive invariant. *)
CatalogInv == CatalogTypeOK /\ InHand /\ ReportsConfirmed

-----------------------------------------------------------------------------
LEMMA FeedOfMarkets ==
    ASSUME NEW f \in Feed
    PROVE  DOMAIN f \subseteq OracleMarket /\ \A m \in DOMAIN f : f[m] \in Entries
BY DEF Feed

LEMMA EmptyFeed == NoFeed \in Feed /\ DOMAIN NoFeed = {}
<1>1. NoFeed \in [{} -> Entries]
  BY DEF NoFeed
<1>2. {} \in SUBSET OracleMarket
  OBVIOUS
<1> QED
  BY <1>1, <1>2 DEF Feed, NoFeed

(* No entry is the absent one. *)
LEMMA EntriesPresent == ASSUME NEW r \in Entries PROVE r # Absent
BY DEF Entries, OracleEntries, ReportedClosed, Entry, Absent

(* A fetch returns entries with the oracle's outcome or none. *)
LEMMA FetchedReports ==
    ASSUME CatalogTypeOK, NEW got \in Fetches
    PROVE  /\ got \in Feed /\ DOMAIN got \subseteq OracleMarket
           /\ \A m \in DOMAIN got : Confirmed(m, got[m])
<1>1. PICK S \in FirstOf(OracleMarket \ delisted, FeedRows) : got = [m \in S |-> Reported(m)]
  BY DEF Fetches
<1>2. S \subseteq OracleMarket
  BY DEF FirstOf
<1>3. \A m \in OracleMarket : Reported(m) \in Entries
  BY DEF CatalogTypeOK, Reported, Entries
<1>4. got \in [S -> Entries] /\ DOMAIN got = S
  BY <1>1, <1>2, <1>3
<1>5. got \in Feed
  BY <1>2, <1>4 DEF Feed
<1>6. \A m \in S : Confirmed(m, got[m])
  BY <1>1, <1>2 DEF Reported, Confirmed, ReportedClosed, Entry
<1> QED
  BY <1>2, <1>4, <1>5, <1>6

(* A list is one of rows of the table. *)
LEMMA ListedRows ==
    ASSUME NEW limit, NEW L \in Listings(limit)
    PROVE  L \subseteq Market /\ \A m \in L : row[m] # Absent
BY DEF Listings, FirstOf, Rows

(* The oracle does not take an outcome back. *)
LEMMA OutcomeStays ==
    ASSUME CatalogTypeOK, NEW m \in OracleMarket, OracleMoves(m)
    PROVE  /\ oracle' \in [OracleMarket -> OracleEntries]
           /\ \A n, r : Confirmed(n, r) => Confirmed(n, r)'
<1>1. PICK new \in Report : Later(oracle[m], new) /\ oracle' = [oracle EXCEPT ![m] = new]
  BY DEF OracleMoves
<1>2. new \in OracleEntries /\ oracle[m] \in OracleEntries
  BY CatalogAssumption DEF CatalogTypeOK
<1>3. oracle[m].outcome = "none"
  BY <1>1, <1>2 DEF Later, OracleEntries, Final
<1>4. oracle' \in [OracleMarket -> OracleEntries]
  BY <1>1, <1>2 DEF CatalogTypeOK
<1>5. ASSUME NEW n, NEW r, Confirmed(n, r), r.outcome # "none"
      PROVE  n \in OracleMarket /\ oracle'[n].outcome = r.outcome
  BY <1>1, <1>3, <1>5 DEF Confirmed, CatalogTypeOK
<1> QED
  BY <1>4, <1>5 DEF Confirmed

LEMMA InitCatalog == CatalogInit => CatalogInv
<1> SUFFICES ASSUME CatalogInit PROVE CatalogInv
  OBVIOUS
<1>1. SyncIdle \in SyncRecord /\ EnsureIdle \in EnsureRecord
  BY EmptyFeed DEF SyncIdle, EnsureIdle, SyncRecord, EnsureRecord, Market
<1>2. CatalogTypeOK
  BY <1>1, CatalogAssumption
  DEF CatalogInit, CatalogTypeOK, SyncRecord, EnsureRecord, Entry, OracleEntries, NoRecord
<1>3. InHand
  BY DEF CatalogInit, InHand, SyncInHand, EnsureInHand, SyncIdle, EnsureIdle
<1>4. ReportsConfirmed
  BY EmptyFeed DEF CatalogInit, ReportsConfirmed, Confirmed, Absent, Entry, SyncIdle, EnsureIdle
<1> QED
  BY <1>2, <1>3, <1>4 DEF CatalogInv

-----------------------------------------------------------------------------
LEMMA OracleKeeps ==
    ASSUME CatalogInv, NEW m \in OracleMarket, OracleMoves(m)
    PROVE  CatalogInv'
<1>1. UNCHANGED <<delisted, due, row, activation, sync, ensure, adminActs>>
  BY DEF OracleMoves
<1>2. /\ oracle' \in [OracleMarket -> OracleEntries]
      /\ \A n, r : Confirmed(n, r) => Confirmed(n, r)'
  BY OutcomeStays DEF CatalogInv
<1>3. CatalogTypeOK'
  BY <1>1, <1>2 DEF CatalogInv, CatalogTypeOK
<1>4. InHand'
  BY <1>1 DEF CatalogInv, InHand, SyncInHand, EnsureInHand
<1>5. ReportsConfirmed'
  BY <1>1, <1>2 DEF CatalogInv, ReportsConfirmed
<1> QED
  BY <1>3, <1>4, <1>5 DEF CatalogInv

(* Steps that only change the clock, the oracle's list or the activations.  *)
LEMMA RestUntouched ==
    ASSUME CatalogInv, CatalogTypeOK', UNCHANGED <<oracle, row, sync, ensure>>
    PROVE  CatalogInv'
BY DEF CatalogInv, InHand, SyncInHand, EnsureInHand, ReportsConfirmed, Confirmed

(* A function writes an entry it has fetched. *)
LEMMA UpsertKeeps ==
    ASSUME CatalogInv, NEW m \in Market, NEW r \in Entries, Confirmed(m, r), Upsert(m, r)
    PROVE  /\ row' \in [Market -> Entries \cup {Absent}]
           /\ row'[m] # Absent
           /\ \A n \in Market : row[n] # Absent => row'[n] # Absent
           /\ UNCHANGED oracle => \A n \in Market : Confirmed(n, row'[n])
BY EntriesPresent DEF CatalogInv, CatalogTypeOK, ReportsConfirmed, Upsert

-----------------------------------------------------------------------------
(* A sync gets another record, and the table and the activations change by  *)
(* what it writes.                                                          *)
LEMMA SyncMoves ==
    ASSUME CatalogInv, NEW j \in SyncJob, NEW s \in SyncRecord,
           sync' = [sync EXCEPT ![j] = s],
           UNCHANGED <<oracle, delisted, due, ensure, adminActs>>,
           row' \in [Market -> Entries \cup {Absent}],
           \A n \in Market : (row[n] # Absent => row'[n] # Absent) /\ Confirmed(n, row'[n]),
           activation' \in [Market -> [active : BOOLEAN, by : Writer] \cup {NoRecord}],
           \A n \in Market : activation'[n] # NoRecord => row'[n] # Absent,
           SyncInHand(s, row'), \A n \in DOMAIN s.got : Confirmed(n, s.got[n])
    PROVE  CatalogInv'
<1>1. /\ sync' \in [SyncJob -> SyncRecord] /\ sync'[j] = s
      /\ \A i \in SyncJob : i # j => sync'[i] = sync[i]
  BY DEF CatalogInv, CatalogTypeOK, SyncRecord
<1>2. CatalogTypeOK'
  BY <1>1 DEF CatalogInv, CatalogTypeOK, SyncRecord
<1>3. InHand'
  <2>1. ASSUME NEW i \in SyncJob PROVE SyncInHand(sync[i], row)'
    <3>1. CASE i = j
      BY <1>1, <3>1
    <3>2. CASE i # j
      BY <1>1, <3>2 DEF CatalogInv, CatalogTypeOK, InHand, SyncInHand
    <3> QED
      BY <3>1, <3>2
  <2>2. ASSUME NEW e \in EnsureJob PROVE EnsureInHand(ensure[e], row)'
    BY DEF CatalogInv, CatalogTypeOK, InHand, EnsureInHand, Market
  <2> QED
    BY <2>1, <2>2 DEF InHand
<1>4. ReportsConfirmed'
  BY <1>1 DEF CatalogInv, ReportsConfirmed, Confirmed
<1> QED
  BY <1>2, <1>3, <1>4 DEF CatalogInv

LEMMA SyncStepKeeps ==
    ASSUME CatalogInv, NEW j \in SyncJob, SyncFetch(j) \/ SyncStep(j)
    PROVE  CatalogInv'
<1> DEFINE s == sync[j]
<1>1. /\ sync \in [SyncJob -> SyncRecord] /\ s \in SyncRecord
      /\ row \in [Market -> Entries \cup {Absent}]
      /\ activation \in [Market -> [active : BOOLEAN, by : Writer] \cup {NoRecord}]
      /\ \A n \in Market : activation[n] # NoRecord => row[n] # Absent
      /\ \A n \in Market : Confirmed(n, row[n])
      /\ \A n \in DOMAIN s.got : Confirmed(n, s.got[n])
      /\ SyncInHand(s, row)
  BY DEF CatalogInv, CatalogTypeOK, SyncRecord, ReportsConfirmed, InHand
<1>2. SyncIdle \in SyncRecord /\ SyncIdle.got = NoFeed /\ SyncIdle.stage = "idle"
  BY EmptyFeed DEF SyncIdle, SyncRecord
<1>3. ASSUME NEW left \in SUBSET Market
      PROVE  /\ Activating(left) \in SyncRecord /\ Activating(left).got = NoFeed
             /\ Activating(left).stage # "upsert"
             /\ Activating(left).stage = "activate" => Activating(left).left = left
  BY <1>2, EmptyFeed DEF Activating, SyncRecord, SyncIdle
<1>4. CASE SyncFetch(j)
  <2>0. PICK got \in Fetches :
            sync' = [sync EXCEPT ![j] = [stage |-> "upsert", got |-> got, left |-> DOMAIN got]]
    BY <1>4 DEF SyncFetch
  <2> DEFINE t == [stage |-> "upsert", got |-> got, left |-> DOMAIN got]
  <2>1. /\ got \in Feed /\ DOMAIN got \subseteq OracleMarket
        /\ \A m \in DOMAIN got : Confirmed(m, got[m])
    BY FetchedReports DEF CatalogInv
  <2>2. /\ t \in SyncRecord /\ SyncInHand(t, row')
        /\ \A n \in DOMAIN t.got : Confirmed(n, t.got[n])
    BY <2>1 DEF SyncRecord, SyncInHand, Market
  <2>3. sync' = [sync EXCEPT ![j] = t]
    BY <2>0
  <2>4. UNCHANGED <<oracle, delisted, due, row, activation, ensure, adminActs>>
    BY <1>4 DEF SyncFetch
  <2> HIDE DEF t
  <2> QED
    BY <1>1, <2>2, <2>3, <2>4, SyncMoves
<1>5. ASSUME NEW m \in Market, SyncUpsert(j, m)
      PROVE  CatalogInv'
  <2> DEFINE t == [s EXCEPT !.left = @ \ {m}]
  <2>1. /\ s.stage = "upsert" /\ m \in s.left /\ Upsert(m, s.got[m])
        /\ sync' = [sync EXCEPT ![j].left = @ \ {m}]
        /\ UNCHANGED <<oracle, delisted, due, activation, ensure, adminActs>>
    BY <1>5 DEF SyncUpsert
  <2>2. m \in DOMAIN s.got /\ s.got[m] \in Entries /\ Confirmed(m, s.got[m])
    BY <1>1, <2>1, FeedOfMarkets DEF SyncInHand, SyncRecord
  <2>3. /\ row' \in [Market -> Entries \cup {Absent}]
        /\ \A n \in Market : row[n] # Absent => row'[n] # Absent
        /\ \A n \in Market : Confirmed(n, row'[n])
    BY <2>1, <2>2, UpsertKeeps
  <2> HIDE DEF s
  <2>4. /\ t \in SyncRecord /\ t.stage = "upsert" /\ t.got = s.got /\ t.left = s.left \ {m}
    BY <1>1, <2>1 DEF SyncRecord
  <2>5. sync' = [sync EXCEPT ![j] = t]
    BY <1>1, <2>1 DEF s, SyncRecord
  <2> HIDE DEF t
  <2>6. SyncInHand(t, row')
    BY <1>1, <2>1, <2>4 DEF SyncInHand
  <2> QED
    BY <1>1, <2>1, <2>3, <2>4, <2>5, <2>6, SyncMoves
<1>6. ASSUME NEW t \in SyncRecord, sync' = [sync EXCEPT ![j] = t], t.got = NoFeed,
             t.stage # "upsert", t.stage = "activate" => \A m \in t.left : row[m] # Absent,
             UNCHANGED <<oracle, delisted, due, row, ensure, adminActs>>,
             activation' \in [Market -> [active : BOOLEAN, by : Writer] \cup {NoRecord}],
             \A n \in Market : activation'[n] # NoRecord => row[n] # Absent
      PROVE  CatalogInv'
  <2>1. SyncInHand(t, row')
    BY <1>6 DEF SyncInHand
  <2>2. \A n \in DOMAIN t.got : Confirmed(n, t.got[n])
    BY <1>6, EmptyFeed
  <2> QED
    BY <1>1, <1>6, <2>1, <2>2, SyncMoves
<1>7. CASE SyncList(j)
  <2>0. PICK L \in Listings(SyncRows) :
            sync' = [sync EXCEPT ![j] = Activating({m \in L : /\ activation[m] = NoRecord
                                                              /\ row[m].status = "open"
                                                              /\ m \notin due})]
    BY <1>7 DEF SyncList
  <2> DEFINE left == {m \in L : activation[m] = NoRecord /\ row[m].status = "open" /\ m \notin due}
  <2>1. /\ sync' = [sync EXCEPT ![j] = Activating(left)]
        /\ UNCHANGED <<oracle, delisted, due, row, activation, ensure, adminActs>>
    BY <1>7, <2>0 DEF SyncList
  <2>2. left \subseteq Market /\ \A m \in left : row[m] # Absent
    BY ListedRows
  <2> HIDE DEF left
  <2> QED
    BY <1>1, <1>3, <1>6, <2>1, <2>2
<1>8. ASSUME NEW m \in Market, SyncActivate(j, m)
      PROVE  CatalogInv'
  <2>1. /\ s.stage = "activate" /\ m \in s.left
        /\ activation' = [activation EXCEPT ![m] = [active |-> TRUE, by |-> "sync"]]
        /\ sync' = [sync EXCEPT ![j] = Activating(s.left \ {m})]
        /\ UNCHANGED <<oracle, delisted, due, row, ensure, adminActs>>
    BY <1>8 DEF SyncActivate, SetActivation
  <2>2. \A n \in s.left : row[n] # Absent
    BY <1>1, <2>1 DEF SyncInHand
  <2>3. s.left \ {m} \in SUBSET Market
    BY <1>1 DEF SyncRecord
  <2>4. /\ activation' \in [Market -> [active : BOOLEAN, by : Writer] \cup {NoRecord}]
        /\ \A n \in Market : activation'[n] # NoRecord => row[n] # Absent
    BY <1>1, <2>1, <2>2 DEF Writer
  <2> HIDE DEF s
  <2> QED
    BY <1>3, <1>6, <2>1, <2>2, <2>3, <2>4
<1>9. CASE SyncOnly(j)
  BY <1>1, <1>2, <1>6, <1>9 DEF SyncOnly
<1> QED
  BY <1>4, <1>5, <1>7, <1>8, <1>9 DEF SyncStep

-----------------------------------------------------------------------------
LEMMA EnsureMoves ==
    ASSUME CatalogInv, NEW e \in EnsureJob, NEW s \in EnsureRecord,
           ensure' = [ensure EXCEPT ![e] = s],
           due' \subseteq Market,
           UNCHANGED <<oracle, delisted, sync, adminActs>>,
           row' \in [Market -> Entries \cup {Absent}],
           \A n \in Market : (row[n] # Absent => row'[n] # Absent) /\ Confirmed(n, row'[n]),
           activation' \in [Market -> [active : BOOLEAN, by : Writer] \cup {NoRecord}],
           \A n \in Market : activation'[n] # NoRecord => row'[n] # Absent,
           EnsureInHand(s, row'), \A n \in DOMAIN s.got : Confirmed(n, s.got[n])
    PROVE  CatalogInv'
<1>1. /\ ensure' \in [EnsureJob -> EnsureRecord] /\ ensure'[e] = s
      /\ \A i \in EnsureJob : i # e => ensure'[i] = ensure[i]
  BY DEF CatalogInv, CatalogTypeOK, EnsureRecord
<1>2. CatalogTypeOK'
  BY <1>1 DEF CatalogInv, CatalogTypeOK, EnsureRecord
<1>3. InHand'
  <2>1. ASSUME NEW j \in SyncJob PROVE SyncInHand(sync[j], row)'
    BY DEF CatalogInv, CatalogTypeOK, InHand, SyncInHand
  <2>2. ASSUME NEW i \in EnsureJob PROVE EnsureInHand(ensure[i], row)'
    <3>1. CASE i = e
      BY <1>1, <3>1
    <3>2. CASE i # e
      BY <1>1, <3>2 DEF CatalogInv, CatalogTypeOK, InHand, EnsureInHand, Market
    <3> QED
      BY <3>1, <3>2
  <2> QED
    BY <2>1, <2>2 DEF InHand
<1>4. ReportsConfirmed'
  BY <1>1 DEF CatalogInv, ReportsConfirmed, Confirmed
<1> QED
  BY <1>2, <1>3, <1>4 DEF CatalogInv

LEMMA EnsureStepKeeps ==
    ASSUME CatalogInv, NEW e \in EnsureJob, EnsureRead(e) \/ EnsureStep(e)
    PROVE  CatalogInv'
<1> DEFINE s == ensure[e]
<1>1. /\ ensure \in [EnsureJob -> EnsureRecord] /\ s \in EnsureRecord
      /\ due \subseteq Market
      /\ row \in [Market -> Entries \cup {Absent}]
      /\ activation \in [Market -> [active : BOOLEAN, by : Writer] \cup {NoRecord}]
      /\ \A n \in Market : activation[n] # NoRecord => row[n] # Absent
      /\ \A n \in Market : Confirmed(n, row[n])
      /\ \A n \in DOMAIN s.got : Confirmed(n, s.got[n])
      /\ EnsureInHand(s, row)
  BY DEF CatalogInv, CatalogTypeOK, EnsureRecord, ReportsConfirmed, InHand
<1>2. ASSUME NEW stage \in {"fetch", "fallback"}, EnsureTo(e, stage),
             UNCHANGED <<oracle, delisted, due, row, activation, sync, adminActs>>
      PROVE  CatalogInv'
  <2> DEFINE t == [s EXCEPT !.stage = stage]
  <2>1. ensure' = [ensure EXCEPT ![e] = t]
    BY <1>1, <1>2 DEF EnsureTo
  <2> HIDE DEF s
  <2>2. t \in EnsureRecord /\ t.stage = stage /\ t.got = s.got
    BY <1>1 DEF EnsureRecord
  <2> HIDE DEF t
  <2>3. EnsureInHand(t, row')
    BY <2>2 DEF EnsureInHand
  <2> QED
    BY <1>1, <1>2, <2>1, <2>2, <2>3, EnsureMoves
<1>3. ASSUME NEW m \in Market,
             ensure' = [ensure EXCEPT ![e] = [EnsureIdle EXCEPT !.stage = "activate", !.target = m]],
             due' \subseteq Market, UNCHANGED <<oracle, delisted, activation, sync, adminActs>>,
             row' \in [Market -> Entries \cup {Absent}], row'[m] # Absent,
             \A n \in Market : (row[n] # Absent => row'[n] # Absent) /\ Confirmed(n, row'[n])
      PROVE  CatalogInv'
  <2> DEFINE t == [EnsureIdle EXCEPT !.stage = "activate", !.target = m]
  <2>1. t \in EnsureRecord /\ t.stage = "activate" /\ t.got = NoFeed /\ t.target = m
    BY EmptyFeed DEF EnsureRecord, EnsureIdle
  <2> HIDE DEF t
  <2>2. EnsureInHand(t, row') /\ \A n \in DOMAIN t.got : Confirmed(n, t.got[n])
    BY <1>3, <2>1, EmptyFeed DEF EnsureInHand
  <2>3. ensure' = [ensure EXCEPT ![e] = t]
    BY <1>3 DEF t
  <2> QED
    BY <1>1, <1>3, <2>1, <2>2, <2>3, EnsureMoves
<1>4. CASE EnsureRead(e)
  <2>0. PICK L \in Listings(ListRows) :
            \/ \E m \in {n \in L \ {Fallback} : PlayableNow(n)} :
                  ensure' = [ensure EXCEPT ![e] = [EnsureIdle EXCEPT !.stage = "activate", !.target = m]]
            \/ EnsureTo(e, "fetch")
    BY <1>4 DEF EnsureRead
  <2>1. ASSUME NEW m \in {n \in L \ {Fallback} : PlayableNow(n)},
               ensure' = [ensure EXCEPT ![e] = [EnsureIdle EXCEPT !.stage = "activate", !.target = m]]
        PROVE  CatalogInv'
    <3>1. m \in Market /\ row[m] # Absent
      BY ListedRows
    <3>2. UNCHANGED <<oracle, delisted, due, row, activation, sync, adminActs>>
      BY <1>4 DEF EnsureRead
    <3> QED
      BY <1>1, <1>3, <2>1, <3>1, <3>2
  <2> QED
    BY <1>2, <1>4, <2>0, <2>1 DEF EnsureRead
<1>5. CASE EnsureFetch(e)
  <2>0. PICK got \in Fetches :
            ensure' = [ensure EXCEPT ![e].stage = "upsert", ![e].got = got, ![e].left = DOMAIN got]
    BY <1>5 DEF EnsureFetch
  <2> DEFINE t == [s EXCEPT !.stage = "upsert", !.got = got, !.left = DOMAIN got]
  <2>1. /\ got \in Feed /\ DOMAIN got \subseteq OracleMarket
        /\ \A m \in DOMAIN got : Confirmed(m, got[m])
    BY FetchedReports DEF CatalogInv
  <2>2. /\ ensure' = [ensure EXCEPT ![e] = t]
        /\ UNCHANGED <<oracle, delisted, due, row, activation, sync, adminActs>>
    BY <1>1, <1>5, <2>0 DEF EnsureFetch
  <2> HIDE DEF s
  <2>3. t \in EnsureRecord /\ t.stage = "upsert" /\ t.got = got /\ t.left = DOMAIN got
    BY <1>1, <2>1 DEF EnsureRecord
  <2> HIDE DEF t
  <2>4. EnsureInHand(t, row') /\ \A n \in DOMAIN t.got : Confirmed(n, t.got[n])
    BY <2>1, <2>3 DEF EnsureInHand
  <2> QED
    BY <1>1, <2>2, <2>3, <2>4, EnsureMoves
<1>6. CASE EnsureFetchFails(e)
  BY <1>2, <1>6 DEF EnsureFetchFails
<1>7. ASSUME NEW m \in OracleMarket, EnsureUpsert(e, m)
      PROVE  CatalogInv'
  <2> DEFINE t == [s EXCEPT !.left = @ \ {m}]
  <2>1. /\ s.stage = "upsert" /\ m \in s.left /\ Upsert(m, s.got[m])
        /\ ensure' = [ensure EXCEPT ![e].left = @ \ {m}]
        /\ UNCHANGED <<oracle, delisted, due, activation, sync, adminActs>>
    BY <1>7 DEF EnsureUpsert
  <2>2. m \in DOMAIN s.got /\ s.got[m] \in Entries /\ Confirmed(m, s.got[m]) /\ m \in Market
    BY <1>1, <2>1, FeedOfMarkets DEF EnsureInHand, EnsureRecord, Market
  <2>3. /\ row' \in [Market -> Entries \cup {Absent}] /\ row'[m] # Absent
        /\ \A n \in Market : row[n] # Absent => row'[n] # Absent
        /\ \A n \in Market : Confirmed(n, row'[n])
    BY <2>1, <2>2, UpsertKeeps
  <2>4. ensure' = [ensure EXCEPT ![e] = t]
    BY <1>1, <2>1 DEF EnsureRecord
  <2> HIDE DEF s
  <2>5. /\ t \in EnsureRecord /\ t.stage = "upsert" /\ t.got = s.got /\ t.left = s.left \ {m}
    BY <1>1, <2>1 DEF EnsureRecord
  <2> HIDE DEF t
  <2>6. EnsureInHand(t, row')
    BY <1>1, <2>1, <2>3, <2>5 DEF EnsureInHand, Market
  <2> QED
    BY <1>1, <2>1, <2>3, <2>4, <2>5, <2>6, EnsureMoves
<1>8. CASE EnsureChoose(e)
  <2>1. ASSUME NEW m \in OpenFetched(e),
               ensure' = [ensure EXCEPT ![e] = [EnsureIdle EXCEPT !.stage = "activate", !.target = m]]
        PROVE  CatalogInv'
    <3>1. m \in DOMAIN s.got /\ m \in Market
      BY <1>1, FeedOfMarkets DEF OpenFetched, Market, EnsureRecord
    <3>2. row[m] # Absent
      BY <1>1, <1>8, <3>1 DEF EnsureChoose, EnsureInHand
    <3>3. UNCHANGED <<oracle, delisted, due, row, activation, sync, adminActs>>
      BY <1>8 DEF EnsureChoose
    <3> QED
      BY <1>1, <1>3, <2>1, <3>1, <3>2, <3>3
  <2> QED
    BY <1>2, <1>8, <2>1 DEF EnsureChoose
<1>9. CASE EnsureFallback(e)
  <2>1. Entry("open", "none") \in Entries /\ Entry("open", "none").outcome = "none"
    BY DEF Entries, OracleEntries, Entry
  <2>2. Confirmed(Fallback, Entry("open", "none")) /\ Fallback \in Market
    BY <2>1 DEF Confirmed, Market
  <2>3. /\ Upsert(Fallback, Entry("open", "none")) /\ due' = due \ {Fallback}
        /\ ensure' = [ensure EXCEPT ![e] = [EnsureIdle EXCEPT !.stage = "activate", !.target = Fallback]]
        /\ UNCHANGED <<oracle, delisted, activation, sync, adminActs>>
    BY <1>9 DEF EnsureFallback
  <2>4. /\ row' \in [Market -> Entries \cup {Absent}] /\ row'[Fallback] # Absent
        /\ \A n \in Market : row[n] # Absent => row'[n] # Absent
        /\ \A n \in Market : Confirmed(n, row'[n])
    BY <2>1, <2>2, <2>3, UpsertKeeps
  <2> QED
    BY <1>1, <1>3, <2>2, <2>3, <2>4
<1>10. CASE EnsureActivate(e)
  <2>1. /\ s.stage = "activate"
        /\ activation' = [activation EXCEPT ![s.target] = [active |-> TRUE, by |-> "system"]]
        /\ ensure' = [ensure EXCEPT ![e] = EnsureIdle]
        /\ UNCHANGED <<oracle, delisted, due, row, sync, adminActs>>
    BY <1>10 DEF EnsureActivate, SetActivation
  <2>2. s.target \in Market /\ row[s.target] # Absent
    BY <1>1, <2>1 DEF EnsureRecord, EnsureInHand
  <2>3. /\ activation' \in [Market -> [active : BOOLEAN, by : Writer] \cup {NoRecord}]
        /\ \A n \in Market : activation'[n] # NoRecord => row[n] # Absent
    BY <1>1, <2>1, <2>2 DEF Writer
  <2>4. EnsureIdle \in EnsureRecord /\ EnsureIdle.stage = "idle" /\ EnsureIdle.got = NoFeed
    BY EmptyFeed DEF EnsureIdle, EnsureRecord, Market
  <2>5. EnsureInHand(EnsureIdle, row') /\ \A n \in DOMAIN EnsureIdle.got : Confirmed(n, EnsureIdle.got[n])
    BY <2>4, EmptyFeed DEF EnsureInHand
  <2> QED
    BY <1>1, <2>1, <2>3, <2>4, <2>5, EnsureMoves
<1> QED
  BY <1>4, <1>5, <1>6, <1>7, <1>8, <1>9, <1>10 DEF EnsureStep

-----------------------------------------------------------------------------
LEMMA CatalogNextKeeps == CatalogInv /\ [CatalogNext]_catalogVars => CatalogInv'
<1> SUFFICES ASSUME CatalogInv, [CatalogNext]_catalogVars
             PROVE  CatalogInv'
  OBVIOUS
<1>1. ASSUME NEW m \in Market, CloseTime(m)
      PROVE  CatalogInv'
  <2>1. CatalogTypeOK'
    BY <1>1 DEF CatalogInv, CatalogTypeOK, CloseTime
  <2> QED
    BY <1>1, <2>1, RestUntouched DEF CloseTime
<1>2. ASSUME NEW m \in Market, NEW a \in BOOLEAN, ActivateMarket(m, a)
      PROVE  CatalogInv'
  <2>1. CatalogTypeOK'
    BY <1>2, CatalogAssumption DEF CatalogInv, CatalogTypeOK, ActivateMarket, SetActivation, Writer
  <2> QED
    BY <1>2, <2>1, RestUntouched DEF ActivateMarket
<1>3. ASSUME NEW m \in OracleMarket, OracleCloses(m)
      PROVE  CatalogInv'
  <2>1. CatalogTypeOK'
    BY <1>3 DEF CatalogInv, CatalogTypeOK, OracleCloses
  <2> QED
    BY <1>3, <2>1, RestUntouched DEF OracleCloses
<1>4. CASE UNCHANGED catalogVars
  <2>1. CatalogTypeOK'
    BY <1>4 DEF CatalogInv, CatalogTypeOK, catalogVars
  <2> QED
    BY <1>4, <2>1, RestUntouched DEF catalogVars
<1> QED
  BY <1>1, <1>2, <1>3, <1>4, OracleKeeps, SyncStepKeeps, EnsureStepKeeps DEF CatalogNext

LEMMA CatalogAlways == CatalogSafety => []CatalogInv
BY InitCatalog, CatalogNextKeeps, PTL DEF CatalogSafety

(* Type correctness, with the foreign key of market_admin_activation: no    *)
(* market is activated before it is in the table, however syncs, guarantees *)
(* and the operator interleave.                                             *)
THEOREM CatalogTypeCorrect == CatalogSafety => []CatalogTypeOK
<1>1. CatalogInv => CatalogTypeOK
  BY DEF CatalogInv
<1> QED
  BY <1>1, CatalogAlways, PTL

-----------------------------------------------------------------------------
(***************************************************************************)
(* Theorems about MarketPositions, for any players, markets, number of     *)
(* positions and of servers, and any number of faults.                     *)
(*                                                                         *)
(* Nothing stops two workers from settling the same position, and the      *)
(* update of the table does not look at the status it replaces.  That the  *)
(* table is right all the same rests on the contract, which settles a bet  *)
(* once, and on a worker writing only what its own transaction did:        *)
(* PaidHold says that between the two the position is still open and no    *)
(* other worker holds it.  That a settlement is the oracle's decision      *)
(* although the pass settles by what it has read long ago rests on the     *)
(* oracle not taking an outcome back.                                      *)
(***************************************************************************)

PassDomain == {"stage", "rows", "seen", "todo", "cur", "verdict"}

(* Every worker has a record of its pass, which settles stored positions.   *)
PassesWellFormed ==
    /\ DOMAIN pass = Worker
    /\ \A w \in Worker :
          /\ pass[w] = [f \in PassDomain |-> pass[w][f]]
          /\ \A x \in pass[w].rows : position[x] # "none"

(* A worker whose transaction was mined holds the position: its bet is paid *)
(* as the worker will record, and the record is still to be made.           *)
PaidHold ==
    \A w \in Worker :
        pass[w].stage = "paid" =>
            /\ position[pass[w].cur] = "open"
            /\ pass[w].verdict \in Reason
            /\ bet[pass[w].cur] = GoesTo(pass[w].verdict)

OneHolder ==
    \A v, w \in Worker :
        pass[v].stage = "paid" /\ pass[w].stage = "paid" /\ v # w => pass[v].cur # pass[w].cur

(* The inductive invariant. *)
PositionsInv ==
    PositionsTypeOK /\ PassesWellFormed /\ PaidHold /\ OneHolder /\ RecordBackedByChain

OrderRecord == [stage : {"none", "refused", "abandoned"}] \cup
               [stage : {"quoted", "locking", "stored"}, player : Bettor, market : Market,
                side : Side]
Stakes == {"none", "locked", "player", "house", "both"}

-----------------------------------------------------------------------------
(* A pass decides on one of the reasons, and pays somebody. *)
LEMMA VerdictIsReason ==
    ASSUME NEW x, NEW rows, NEW seen
    PROVE  Verdict(x, rows, seen) \in Reason
BY DEF Verdict, Reason, Won

LEMMA SettlementPays ==
    ASSUME NEW v
    PROVE  GoesTo(v) \in {"player", "house", "both"}
BY DEF GoesTo

(* The stages of an order are told apart by its record. *)
LEMMA OrderStages ==
    ASSUME NEW o \in OrderRecord
    PROVE  /\ o.stage \in {"none", "refused", "abandoned", "quoted", "locking", "stored"}
           /\ o.stage \in {"quoted", "locking", "stored"} =>
                 /\ o \in [stage : {"quoted", "locking", "stored"}, player : Bettor,
                           market : Market, side : Side]
                 /\ \A s \in {"quoted", "locking", "stored"} :
                       /\ [o EXCEPT !.stage = s] \in OrderRecord
                       /\ [o EXCEPT !.stage = s].stage = s
BY DEF OrderRecord

(* An empty list of what is left ends the pass. *)
LEMMA SettlingPass ==
    ASSUME NEW rows, NEW seen, NEW todo
    PROVE  LET p == Settling(rows, seen, todo)
           IN  /\ p = [f \in PassDomain |-> p[f]]
               /\ p.stage \in {"idle", "settling"}
               /\ p.rows \in {{}, rows} /\ p.todo \in {{}, todo}
               /\ p.todo # {} => p.rows = rows
BY DEF Settling, PassIdle, PassDomain

LEMMA InitInv == PositionsInit => PositionsInv
<1> SUFFICES ASSUME PositionsInit PROVE PositionsInv
  OBVIOUS
<1>1. PositionsTypeOK
  <2>1. order \in [Position -> OrderRecord]
    BY DEF PositionsInit, NoPositions, NoOrder, OrderRecord
  <2> QED
    BY <2>1, PositionAssumption
    DEF PositionsInit, NoPositions, PositionsTypeOK, OrderRecord, NoOrder, PassIdle, PassStage
<1>2. PassesWellFormed
  BY DEF PositionsInit, NoPositions, PassesWellFormed, PassIdle, PassDomain
<1>3. PaidHold /\ OneHolder
  BY DEF PositionsInit, NoPositions, PaidHold, OneHolder, PassIdle
<1>4. RecordBackedByChain
  BY DEF PositionsInit, NoPositions, RecordBackedByChain, Reason, Won
<1> QED
  BY <1>1, <1>2, <1>3, <1>4 DEF PositionsInv

-----------------------------------------------------------------------------
(* What a step may not do to a settled position. *)
SettledKept == \A y \in Position : position[y] \in Reason => position'[y] = position[y]

(* A step that leaves the table, the bets and the passes alone. *)
LEMMA RecordsUntouched ==
    ASSUME PositionsInv, PositionsTypeOK', UNCHANGED <<bet, position, pass>>
    PROVE  PositionsInv' /\ SettledKept
<1>1. PassesWellFormed' /\ PaidHold' /\ OneHolder' /\ RecordBackedByChain'
  BY DEF PositionsInv, PassesWellFormed, PaidHold, OneHolder, RecordBackedByChain
<1> QED
  BY <1>1 DEF PositionsInv, SettledKept

LEMMA CatalogKeeps ==
    ASSUME PositionsInv, UNCHANGED positionVars
    PROVE  PositionsInv' /\ SettledKept
<1>1. PositionsTypeOK'
  BY DEF PositionsInv, PositionsTypeOK, positionVars
<1> QED
  BY <1>1, RecordsUntouched DEF positionVars

(* An order that is not stored gets another record: the table is as before. *)
LEMMA OrderMoves ==
    ASSUME PositionsInv, NEW x \in Position, NEW o \in OrderRecord,
           order' = [order EXCEPT ![x] = o],
           position[x] = "none", o.stage # "stored",
           UNCHANGED <<bet, position, house, pass, late>>, faults' \in 0 .. MaxFaults
    PROVE  PositionsInv' /\ SettledKept
<1>1. order' \in [Position -> OrderRecord]
  BY DEF PositionsInv, PositionsTypeOK, OrderRecord
<1>2. ASSUME NEW y \in Position PROVE position'[y] # "none" <=> order'[y].stage = "stored"
  <2>1. CASE y = x
    BY <2>1 DEF PositionsInv, PositionsTypeOK
  <2>2. CASE y # x
    BY <2>2 DEF PositionsInv, PositionsTypeOK
  <2> QED
    BY <2>1, <2>2
<1>3. PositionsTypeOK'
  BY <1>1, <1>2 DEF PositionsInv, PositionsTypeOK, OrderRecord
<1> QED
  BY <1>3, RecordsUntouched

(* Opening a position. *)
LEMMA OpeningKeeps ==
    ASSUME PositionsInv, NEW x \in Position,
           \/ \E p \in Bettor, m \in Market, side \in Side : Quote(x, p, m, side)
           \/ LockBet(x) \/ TooManyOpen(x) \/ LockRefused(x) \/ AbandonOrder(x)
    PROVE  PositionsInv' /\ SettledKept
<1> DEFINE s == order[x].stage
<1>1. /\ order[x] \in OrderRecord
      /\ position[x] # "none" <=> order[x].stage = "stored"
      /\ faults \in 0 .. MaxFaults
  BY DEF PositionsInv, PositionsTypeOK, OrderRecord
<1>2. ASSUME NEW p \in Bettor, NEW m \in Market, NEW side \in Side, Quote(x, p, m, side)
      PROVE  PositionsInv' /\ SettledKept
  <2>1. [stage |-> "quoted", player |-> p, market |-> m, side |-> side] \in OrderRecord
    BY DEF OrderRecord
  <2>2. position[x] = "none"
    BY <1>1, <1>2 DEF Quote, NoOrder
  <2> QED
    BY <1>1, <1>2, <2>1, <2>2, OrderMoves DEF Quote
<1>3. CASE LockBet(x)
  <2> DEFINE o == [order[x] EXCEPT !.stage = "locking"]
  <2>1. s = "quoted"
    BY <1>3 DEF LockBet
  <2>2. o \in OrderRecord /\ o.stage = "locking"
    BY <1>1, <2>1, OrderStages
  <2>3. order' = [order EXCEPT ![x] = o]
    BY <1>3 DEF LockBet, OrderTo
  <2>4. position[x] = "none"
    BY <1>1, <2>1
  <2> HIDE DEF o
  <2> QED
    BY <1>1, <1>3, <2>2, <2>3, <2>4, OrderMoves DEF LockBet
<1>4. ASSUME NEW how \in {"refused", "abandoned"}, OrderOver(x, how), s \in {"quoted", "locking"},
             UNCHANGED <<bet, position, house, pass, late>>, faults' \in 0 .. MaxFaults
      PROVE  PositionsInv' /\ SettledKept
  <2>1. [stage |-> how] \in OrderRecord
    BY DEF OrderRecord
  <2>2. position[x] = "none"
    BY <1>1, <1>4
  <2> QED
    BY <1>1, <1>4, <2>1, <2>2, OrderMoves DEF OrderOver
<1>5. CASE TooManyOpen(x)
  BY <1>1, <1>4, <1>5 DEF TooManyOpen
<1>6. CASE LockRefused(x)
  BY <1>1, <1>4, <1>6 DEF LockRefused
<1>7. CASE AbandonOrder(x)
  <2>1. faults' \in 0 .. MaxFaults
    BY <1>1, <1>7, PositionAssumption DEF AbandonOrder, Fault
  <2> QED
    BY <1>4, <1>7, <2>1 DEF AbandonOrder
<1> QED
  BY <1>2, <1>3, <1>5, <1>6, <1>7

(* A stake is locked, or its position stored over it. *)
LEMMA MineLockKeeps ==
    ASSUME PositionsInv, NEW x \in Position, MineLock(x)
    PROVE  PositionsInv' /\ SettledKept
<1>1. PositionsTypeOK'
  BY DEF PositionsInv, PositionsTypeOK, MineLock
<1>2. PassesWellFormed'
  BY DEF PositionsInv, PassesWellFormed, MineLock
<1>3. \A y \in Position : bet[y] # "none" => bet'[y] = bet[y]
  BY DEF PositionsInv, PositionsTypeOK, MineLock
<1>4. ASSUME NEW w \in Worker, pass[w].stage = "paid"
      PROVE  pass[w].cur \in Position /\ bet[pass[w].cur] # "none"
  BY <1>4, SettlementPays DEF PositionsInv, PositionsTypeOK, PaidHold
<1>5. PaidHold' /\ OneHolder'
  BY <1>3, <1>4 DEF PositionsInv, PaidHold, OneHolder, MineLock
<1>6. RecordBackedByChain'
  BY <1>3, SettlementPays DEF PositionsInv, PositionsTypeOK, RecordBackedByChain, MineLock
<1> QED
  BY <1>1, <1>2, <1>5, <1>6 DEF PositionsInv, SettledKept, MineLock

LEMMA StorePositionKeeps ==
    ASSUME PositionsInv, NEW x \in Position, StorePosition(x)
    PROVE  PositionsInv' /\ SettledKept
<1> DEFINE o == [order[x] EXCEPT !.stage = "stored"]
<1>1. order[x] \in OrderRecord /\ order[x].stage = "locking" /\ position[x] = "none"
  BY DEF PositionsInv, PositionsTypeOK, OrderRecord, StorePosition
<1>2. o \in OrderRecord /\ o.stage = "stored"
  BY <1>1, OrderStages
<1>3. order' = [order EXCEPT ![x] = o] /\ position' = [position EXCEPT ![x] = "open"]
  BY DEF StorePosition, OrderTo
<1> HIDE DEF o
<1>4. PositionsTypeOK'
  <2>1. order' \in [Position -> OrderRecord]
    BY <1>2, <1>3 DEF PositionsInv, PositionsTypeOK, OrderRecord
  <2>2. ASSUME NEW y \in Position PROVE position'[y] # "none" <=> order'[y].stage = "stored"
    BY <1>2, <1>3 DEF PositionsInv, PositionsTypeOK
  <2> QED
    BY <1>3, <2>1, <2>2 DEF PositionsInv, PositionsTypeOK, OrderRecord, StorePosition
<1>5. \A y \in Position : position[y] # "none" => position'[y] = position[y]
  BY <1>1, <1>3 DEF PositionsInv, PositionsTypeOK
<1>6. PassesWellFormed'
  BY <1>5 DEF PositionsInv, PositionsTypeOK, PassesWellFormed, StorePosition
<1>7. PaidHold' /\ OneHolder'
  BY <1>5 DEF PositionsInv, PositionsTypeOK, PaidHold, OneHolder, StorePosition
<1>8. RecordBackedByChain'
  BY <1>3 DEF PositionsInv, PositionsTypeOK, RecordBackedByChain, StorePosition, Reason, Won
<1>9. SettledKept
  BY <1>5 DEF SettledKept, Reason, Won
<1> QED
  BY <1>4, <1>6, <1>7, <1>8, <1>9 DEF PositionsInv

-----------------------------------------------------------------------------
(* A transaction pays a bet that was locked: no worker holds it, and its    *)
(* position is not settled.                                                 *)
LEMMA BetPaid ==
    ASSUME PositionsInv, NEW x \in Position, bet[x] = "locked",
           NEW to \in {"player", "house", "both"},
           bet' = [bet EXCEPT ![x] = to]
    PROVE  /\ bet' \in [Position -> Stakes] /\ bet'[x] = to
           /\ position[x] \notin Reason
           /\ \A y \in Position : bet[y] # "locked" => bet'[y] = bet[y]
           /\ \A w \in Worker : pass[w].stage = "paid" =>
                 /\ pass[w].cur \in Position /\ pass[w].cur # x
                 /\ bet'[pass[w].cur] = bet[pass[w].cur]
           /\ UNCHANGED position => RecordBackedByChain'
<1>1. bet' \in [Position -> Stakes] /\ bet'[x] = to
  BY DEF PositionsInv, PositionsTypeOK, Stakes
<1>2. position[x] \notin Reason
  BY SettlementPays DEF PositionsInv, RecordBackedByChain
<1>3. \A y \in Position : bet[y] # "locked" => bet'[y] = bet[y]
  BY DEF PositionsInv, PositionsTypeOK
<1>4. ASSUME NEW w \in Worker, pass[w].stage = "paid"
      PROVE  /\ pass[w].cur \in Position /\ pass[w].cur # x
             /\ bet'[pass[w].cur] = bet[pass[w].cur]
  <2>1. pass[w].cur \in Position
    BY <1>4 DEF PositionsInv, PositionsTypeOK
  <2>2. bet[pass[w].cur] # "locked"
    BY <1>4, SettlementPays DEF PositionsInv, PaidHold
  <2> QED
    BY <1>3, <2>1, <2>2
<1>5. ASSUME UNCHANGED position PROVE RecordBackedByChain'
  BY <1>1, <1>2, <1>3, <1>5, SettlementPays DEF PositionsInv, RecordBackedByChain
<1> QED
  BY <1>1, <1>2, <1>3, <1>4, <1>5

LEMMA MineLateKeeps ==
    ASSUME PositionsInv, NEW x \in Position, MineLate(x)
    PROVE  PositionsInv' /\ SettledKept
<1>1. PICK t \in late : /\ t.position = x /\ late' = late \ {t}
                        /\ bet' = [bet EXCEPT ![x] = IF @ = "locked" THEN t.to ELSE @]
  BY DEF MineLate
<1>2. t.to \in {"player", "house", "both"}
  BY DEF PositionsInv, PositionsTypeOK
<1>3. UNCHANGED <<order, position, house, pass, faults>>
  BY DEF MineLate
<1>4. CASE bet[x] = "locked"
  <2>1. bet' = [bet EXCEPT ![x] = t.to]
    BY <1>1, <1>4
  <2>2. /\ bet' \in [Position -> Stakes]
        /\ \A w \in Worker : pass[w].stage = "paid" => bet'[pass[w].cur] = bet[pass[w].cur]
        /\ RecordBackedByChain'
    BY <1>2, <1>3, <1>4, <2>1, BetPaid
  <2>3. PositionsTypeOK'
    BY <1>1, <1>3, <2>2 DEF PositionsInv, PositionsTypeOK, Stakes
  <2>4. PaidHold' /\ OneHolder'
    BY <1>3, <2>2 DEF PositionsInv, PaidHold, OneHolder
  <2>5. PassesWellFormed'
    BY <1>3 DEF PositionsInv, PassesWellFormed
  <2> QED
    BY <1>3, <2>2, <2>3, <2>4, <2>5 DEF PositionsInv, SettledKept
<1>5. CASE bet[x] # "locked"
  <2>1. bet' = bet
    BY <1>1, <1>5 DEF PositionsInv, PositionsTypeOK
  <2>2. PositionsTypeOK'
    BY <1>1, <1>3, <2>1 DEF PositionsInv, PositionsTypeOK
  <2> QED
    BY <1>3, <2>1, <2>2, RecordsUntouched
<1> QED
  BY <1>4, <1>5

(* A pass that goes on, over positions of the table and without holding     *)
(* one.                                                                     *)
LEMMA PassGoesOn ==
    ASSUME PositionsInv, NEW w \in Worker, NEW p,
           PassTo(w, p), p = [f \in PassDomain |-> p[f]],
           p.stage \in PassStage \ {"paid"}, p.todo \subseteq p.rows, p.rows \subseteq Position,
           \A x \in p.rows : position[x] # "none",
           UNCHANGED <<order, bet, position>>, house' \subseteq Worker,
           late' \subseteq [position : Position, to : {"player", "house", "both"}],
           faults' \in 0 .. MaxFaults
    PROVE  PositionsInv' /\ SettledKept
<1>1. /\ DOMAIN pass' = Worker /\ pass'[w] = p
      /\ \A v \in Worker : v # w => pass'[v] = pass[v]
  BY DEF PositionsInv, PassesWellFormed, PassTo
<1>2. PositionsTypeOK'
  BY <1>1 DEF PositionsInv, PositionsTypeOK
<1>3. PassesWellFormed'
  BY <1>1 DEF PositionsInv, PassesWellFormed
<1>4. PaidHold' /\ OneHolder'
  BY <1>1 DEF PositionsInv, PaidHold, OneHolder
<1>5. RecordBackedByChain' /\ SettledKept
  BY DEF PositionsInv, RecordBackedByChain, SettledKept
<1> QED
  BY <1>2, <1>3, <1>4, <1>5 DEF PositionsInv

(* What a pass may go on as: over, or with fewer positions to settle.       *)
LEMMA ContinueKeeps ==
    ASSUME PositionsInv, NEW w \in Worker, NEW x,
           Continue(w, x) \/ PassTo(w, PassIdle),
           UNCHANGED <<order, bet, position>>, house' \subseteq Worker,
           late' \subseteq [position : Position, to : {"player", "house", "both"}],
           faults' \in 0 .. MaxFaults
    PROVE  PositionsInv' /\ SettledKept
<1>1. /\ pass[w].todo \subseteq pass[w].rows /\ pass[w].rows \subseteq Position
      /\ \A y \in pass[w].rows : position[y] # "none"
  BY DEF PositionsInv, PositionsTypeOK, PassesWellFormed
<1>2. CASE Continue(w, x)
  <2> DEFINE p == Settling(pass[w].rows, pass[w].seen, pass[w].todo \ {x})
  <2>1. PassTo(w, p)
    BY <1>2 DEF Continue
  <2>2. /\ p = [f \in PassDomain |-> p[f]]
        /\ p.stage \in {"idle", "settling"}
        /\ p.rows \in {{}, pass[w].rows} /\ p.todo \in {{}, pass[w].todo \ {x}}
        /\ p.todo # {} => p.rows = pass[w].rows
    BY SettlingPass
  <2> HIDE DEF p
  <2> QED
    BY <1>1, <2>1, <2>2, PassGoesOn DEF PassStage
<1>3. CASE PassTo(w, PassIdle)
  <2>1. PassIdle = [f \in PassDomain |-> PassIdle[f]]
    BY DEF PassIdle, PassDomain
  <2>2. PassIdle.stage = "idle" /\ PassIdle.rows = {} /\ PassIdle.todo = {}
    BY DEF PassIdle
  <2> QED
    BY <1>3, <2>1, <2>2, PassGoesOn DEF PassStage
<1> QED
  BY <1>2, <1>3

-----------------------------------------------------------------------------
(* The two lists of a pass, read in either order. *)
LEMMA ReadingKeeps ==
    ASSUME PositionsInv, NEW w \in Worker,
           ReadPositionsFirst(w) \/ ReadMarketsFirst(w) \/ ReadOther(w)
    PROVE  PositionsInv' /\ SettledKept
<1>1. /\ pass[w].todo \subseteq pass[w].rows /\ pass[w].rows \subseteq Position
      /\ \A y \in pass[w].rows : position[y] # "none"
      /\ OpenPositions \subseteq Position /\ \A y \in OpenPositions : position[y] # "none"
  BY DEF PositionsInv, PositionsTypeOK, PassesWellFormed, OpenPositions
<1>2. /\ UNCHANGED <<order, bet, position>> /\ house' \subseteq Worker
      /\ late' \subseteq [position : Position, to : {"player", "house", "both"}]
      /\ faults' \in 0 .. MaxFaults
  BY DEF ReadPositionsFirst, ReadMarketsFirst, ReadOther, PositionsInv, PositionsTypeOK
<1>3. ASSUME NEW p, PassTo(w, p), p = [f \in PassDomain |-> p[f]],
             p.stage \in PassStage \ {"paid"}, p.todo = {},
             p.rows \in {{}, OpenPositions}
      PROVE  PositionsInv' /\ SettledKept
  BY <1>1, <1>2, <1>3, PassGoesOn
<1>4. CASE ReadPositionsFirst(w)
  <2> DEFINE p == [PassIdle EXCEPT !.stage = "positions", !.rows = OpenPositions]
  <2>1. PassTo(w, p)
    BY <1>4 DEF ReadPositionsFirst
  <2>2. /\ p = [f \in PassDomain |-> p[f]] /\ p.stage = "positions"
        /\ p.todo = {} /\ p.rows = OpenPositions
    BY DEF PassIdle, PassDomain
  <2> HIDE DEF p
  <2> QED
    BY <1>3, <2>1, <2>2 DEF PassStage
<1>5. CASE ReadMarketsFirst(w)
  <2>0. PICK seen : PassTo(w, [PassIdle EXCEPT !.stage = "markets", !.seen = seen])
    BY <1>5 DEF ReadMarketsFirst
  <2> DEFINE p == [PassIdle EXCEPT !.stage = "markets", !.seen = seen]
  <2>1. PassTo(w, p)
    BY <2>0
  <2>2. /\ p = [f \in PassDomain |-> p[f]] /\ p.stage = "markets"
        /\ p.todo = {} /\ p.rows = {}
    BY DEF PassIdle, PassDomain
  <2> HIDE DEF p
  <2> QED
    BY <1>3, <2>1, <2>2 DEF PassStage
<1>6. CASE ReadOther(w)
  <2>1. \E rows \in {pass[w].rows, OpenPositions} : \E seen :
           PassTo(w, Settling(rows, seen, Decided(rows, seen)))
    BY <1>6 DEF ReadOther
  <2>2. PICK rows \in {pass[w].rows, OpenPositions} :
           \E seen : PassTo(w, Settling(rows, seen, Decided(rows, seen)))
    BY <2>1
  <2>3. PICK seen : PassTo(w, Settling(rows, seen, Decided(rows, seen)))
    BY <2>2
  <2> DEFINE todo == Decided(rows, seen)
             p == Settling(rows, seen, todo)
  <2>4. todo \subseteq rows
    BY DEF Decided
  <2> HIDE DEF todo
  <2>5. /\ p = [f \in PassDomain |-> p[f]]
        /\ p.stage \in {"idle", "settling"}
        /\ p.rows \in {{}, rows} /\ p.todo \in {{}, todo}
        /\ p.todo # {} => p.rows = rows
    BY SettlingPass
  <2>6. PassTo(w, p)
    BY <2>3 DEF todo
  <2> HIDE DEF p
  <2>7. p.todo \subseteq p.rows /\ p.rows \subseteq Position /\ \A x \in p.rows : position[x] # "none"
    BY <1>1, <2>4, <2>5
  <2> QED
    BY <1>2, <2>5, <2>6, <2>7, PassGoesOn DEF PassStage
<1> QED
  BY <1>4, <1>5, <1>6

(* The transaction is mined: the worker holds the position from now on.     *)
LEMMA MineSettlementKeeps ==
    ASSUME PositionsInv, NEW w \in Worker, NEW x \in Position, MineSettlement(w, x)
    PROVE  PositionsInv' /\ SettledKept
<1> DEFINE v == Verdict(x, pass[w].rows, pass[w].seen)
           p == [pass[w] EXCEPT !.stage = "paid", !.cur = x, !.verdict = v]
<1>1. v \in Reason
  BY VerdictIsReason
<1>2. GoesTo(v) \in {"player", "house", "both"}
  BY SettlementPays
<1>3. /\ pass[w].stage = "settling" /\ x \in pass[w].todo /\ bet[x] = "locked"
      /\ bet' = [bet EXCEPT ![x] = GoesTo(v)]
      /\ UNCHANGED <<order, position, house, late, faults>>
      /\ pass' = [pass EXCEPT ![w].stage = "paid", ![w].cur = x, ![w].verdict = v]
  BY DEF MineSettlement
<1> HIDE DEF v
<1>4. /\ bet' \in [Position -> Stakes] /\ bet'[x] = GoesTo(v)
      /\ position[x] \notin Reason
      /\ \A u \in Worker : pass[u].stage = "paid" =>
            pass[u].cur # x /\ bet'[pass[u].cur] = bet[pass[u].cur]
      /\ RecordBackedByChain'
  BY <1>2, <1>3, BetPaid
<1>5. /\ pass[w] = [f \in PassDomain |-> pass[w][f]] /\ DOMAIN pass = Worker
      /\ pass[w].todo \subseteq pass[w].rows /\ pass[w].rows \subseteq Position
      /\ \A y \in pass[w].rows : position[y] # "none"
  BY DEF PositionsInv, PositionsTypeOK, PassesWellFormed
<1>6. position[x] = "open"
  BY <1>3, <1>4, <1>5 DEF PositionsInv, PositionsTypeOK
<1>7. /\ p = [f \in PassDomain |-> p[f]] /\ p.stage = "paid" /\ p.cur = x /\ p.verdict = v
      /\ p.rows = pass[w].rows /\ p.todo = pass[w].todo
  <2> DEFINE q == pass[w]
  <2>1. q = [f \in PassDomain |-> q[f]]
    BY <1>5
  <2> HIDE DEF q
  <2>2. LET r == [q EXCEPT !.stage = "paid", !.cur = x, !.verdict = v]
        IN  /\ r = [f \in PassDomain |-> r[f]] /\ r.stage = "paid" /\ r.cur = x /\ r.verdict = v
            /\ r.rows = q.rows /\ r.todo = q.todo
    BY <2>1 DEF PassDomain
  <2> QED
    BY <2>2 DEF q
<1>8. /\ DOMAIN pass' = Worker /\ pass'[w] = p
      /\ \A u \in Worker : u # w => pass'[u] = pass[u]
  BY <1>3, <1>5
<1> HIDE DEF p
<1>9. PositionsTypeOK'
  <2>1. ASSUME NEW u \in Worker
        PROVE  /\ pass'[u].stage \in PassStage
               /\ pass'[u].todo \subseteq pass'[u].rows /\ pass'[u].rows \subseteq Position
               /\ pass'[u].stage = "paid" => pass'[u].cur \in pass'[u].todo
    BY <1>3, <1>5, <1>7, <1>8 DEF PositionsInv, PositionsTypeOK, PassStage
  <2> QED
    BY <1>3, <1>4, <2>1 DEF PositionsInv, PositionsTypeOK, Stakes
<1>10. PassesWellFormed'
  <2>1. ASSUME NEW u \in Worker
        PROVE  pass'[u] = [f \in PassDomain |-> pass'[u][f]] /\ pass'[u].rows = pass[u].rows
    <3>1. CASE u = w
      BY <1>7, <1>8, <3>1
    <3>2. CASE u # w
      BY <1>8, <3>2 DEF PositionsInv, PassesWellFormed
    <3> QED
      BY <3>1, <3>2
  <2>2. \A u \in Worker : \A y \in pass[u].rows : position[y] # "none"
    BY DEF PositionsInv, PassesWellFormed
  <2> QED
    BY <1>3, <1>8, <2>1, <2>2 DEF PassesWellFormed
<1>11. PaidHold'
  BY <1>1, <1>3, <1>4, <1>6, <1>7, <1>8 DEF PositionsInv, PaidHold
<1>12. OneHolder'
  BY <1>4, <1>7, <1>8 DEF PositionsInv, OneHolder
<1> QED
  BY <1>3, <1>4, <1>9, <1>10, <1>11, <1>12 DEF PositionsInv, SettledKept

(* The record is made: only the holder of an open position makes it. *)
LEMMA RecordKeeps ==
    ASSUME PositionsInv, NEW w \in Worker, Record(w)
    PROVE  PositionsInv' /\ SettledKept
<1> DEFINE x == pass[w].cur
           v == pass[w].verdict
           p == Settling(pass[w].rows, pass[w].seen, pass[w].todo \ {x})
<1>1. /\ pass[w].stage = "paid" /\ position' = [position EXCEPT ![x] = v]
      /\ pass' = [pass EXCEPT ![w] = p]
      /\ UNCHANGED <<order, bet, house, late, faults>>
  BY DEF Record, Continue, PassTo
<1>2. /\ x \in Position /\ position[x] = "open" /\ v \in Reason /\ bet[x] = GoesTo(v)
      /\ pass[w].todo \subseteq pass[w].rows /\ pass[w].rows \subseteq Position
      /\ \A u \in Worker : pass[u].stage = "paid" /\ u # w => pass[u].cur # x
      /\ DOMAIN pass = Worker
  BY <1>1 DEF PositionsInv, PositionsTypeOK, PaidHold, OneHolder, PassesWellFormed
<1>3. /\ p = [f \in PassDomain |-> p[f]]
      /\ p.stage \in {"idle", "settling"}
      /\ p.rows \in {{}, pass[w].rows} /\ p.todo \in {{}, pass[w].todo \ {x}}
      /\ p.todo # {} => p.rows = pass[w].rows
  BY SettlingPass
<1> HIDE DEF p, x, v
<1>4. /\ DOMAIN pass' = Worker /\ pass'[w] = p
      /\ \A u \in Worker : u # w => pass'[u] = pass[u]
  BY <1>1, <1>2
<1>5. /\ position' \in [Position -> {"none", "open"} \cup Reason] /\ position'[x] = v
      /\ \A y \in Position : y # x => position'[y] = position[y]
      /\ \A y \in Position : position'[y] # "none" <=> position[y] # "none"
  BY <1>1, <1>2 DEF PositionsInv, PositionsTypeOK, Reason, Won
<1>6. PositionsTypeOK'
  <2>1. ASSUME NEW u \in Worker
        PROVE  /\ pass'[u].stage \in PassStage
               /\ pass'[u].todo \subseteq pass'[u].rows /\ pass'[u].rows \subseteq Position
               /\ pass'[u].stage = "paid" => pass'[u].cur \in pass'[u].todo
    BY <1>2, <1>3, <1>4 DEF PositionsInv, PositionsTypeOK, PassStage
  <2> QED
    BY <1>1, <1>5, <2>1 DEF PositionsInv, PositionsTypeOK
<1>7. PassesWellFormed'
  <2>1. ASSUME NEW u \in Worker
        PROVE  /\ pass'[u] = [f \in PassDomain |-> pass'[u][f]]
               /\ pass'[u].rows \in {{}, pass[u].rows}
    BY <1>3, <1>4 DEF PositionsInv, PassesWellFormed
  <2>2. \A u \in Worker : pass[u].rows \subseteq Position /\ \A y \in pass[u].rows : position[y] # "none"
    BY DEF PositionsInv, PositionsTypeOK, PassesWellFormed
  <2> QED
    BY <1>4, <1>5, <2>1, <2>2 DEF PassesWellFormed
<1>8. PaidHold'
  <2> SUFFICES ASSUME NEW u \in Worker, pass'[u].stage = "paid"
               PROVE  /\ position'[pass'[u].cur] = "open" /\ pass'[u].verdict \in Reason
                      /\ bet'[pass'[u].cur] = GoesTo(pass'[u].verdict)
    BY DEF PaidHold
  <2>1. u # w /\ pass'[u] = pass[u]
    BY <1>3, <1>4
  <2>2. pass[u].cur \in Position /\ pass[u].cur # x
    BY <1>2, <2>1 DEF PositionsInv, PositionsTypeOK
  <2> QED
    BY <1>1, <1>5, <2>1, <2>2 DEF PositionsInv, PaidHold
<1>9. OneHolder'
  BY <1>3, <1>4 DEF PositionsInv, OneHolder
<1>10. RecordBackedByChain'
  BY <1>1, <1>2, <1>5 DEF PositionsInv, RecordBackedByChain, Reason, Won
<1>11. SettledKept
  BY <1>2, <1>5 DEF SettledKept, Reason, Won
<1> QED
  BY <1>6, <1>7, <1>8, <1>9, <1>10, <1>11 DEF PositionsInv

LEMMA FailureKeeps ==
    ASSUME PositionsInv, NEW w \in Worker,
           (\E x \in Position : SettlementFailed(w, x)) \/ SettlementFault(w)
    PROVE  PositionsInv' /\ SettledKept
<1>1. /\ late \subseteq [position : Position, to : {"player", "house", "both"}]
      /\ pass[w].todo \subseteq Position /\ faults \in 0 .. MaxFaults
      /\ house \subseteq Worker
  BY DEF PositionsInv, PositionsTypeOK
<1>2. ASSUME NEW x \in Position, SettlementFailed(w, x)
      PROVE  PositionsInv' /\ SettledKept
  BY <1>1, <1>2, ContinueKeeps DEF SettlementFailed
<1>3. CASE SettlementFault(w)
  <2>1. /\ faults' \in 0 .. MaxFaults
        /\ UNCHANGED <<order, bet, position>>
    BY <1>1, <1>3, PositionAssumption DEF SettlementFault, Fault
  <2>2. \E x : Continue(w, x) \/ PassTo(w, PassIdle)
    BY <1>3 DEF SettlementFault, Ends
  <2>4. house' \subseteq Worker
    BY <1>1, <1>3 DEF SettlementFault, Ends
  <2>3. late' \subseteq [position : Position, to : {"player", "house", "both"}]
    <3>1. ASSUME NEW x \in pass[w].todo, GivenUp(w, x)
          PROVE  late' \subseteq [position : Position, to : {"player", "house", "both"}]
      BY <1>1, <3>1, SettlementPays DEF GivenUp
    <3> QED
      BY <1>1, <1>3, <3>1 DEF SettlementFault
  <2> QED
    BY <2>1, <2>2, <2>3, <2>4, ContinueKeeps
<1> QED
  BY <1>2, <1>3

-----------------------------------------------------------------------------
(* Every step keeps the invariant and leaves settled positions alone. *)
LEMMA NextKeeps == PositionsInv /\ [PositionsNext]_marketVars => PositionsInv' /\ SettledKept
<1> SUFFICES ASSUME PositionsInv, [PositionsNext]_marketVars
             PROVE  PositionsInv' /\ SettledKept
  OBVIOUS
<1>1. CASE UNCHANGED positionVars
  BY <1>1, CatalogKeeps
<1>2. ASSUME NEW x \in Position,
             \/ \E p \in Bettor, m \in Market, side \in Side : Quote(x, p, m, side)
             \/ LockBet(x) \/ TooManyOpen(x) \/ LockRefused(x) \/ AbandonOrder(x)
      PROVE  PositionsInv' /\ SettledKept
  BY <1>2, OpeningKeeps
<1>3. ASSUME NEW x \in Position, MineLock(x) \/ StorePosition(x) \/ MineLate(x)
      PROVE  PositionsInv' /\ SettledKept
  BY <1>3, MineLockKeeps, StorePositionKeeps, MineLateKeeps
<1>4. ASSUME NEW w \in Worker, PassStep(w) \/ SettlementFault(w)
      PROVE  PositionsInv' /\ SettledKept
  BY <1>4, ReadingKeeps, MineSettlementKeeps, RecordKeeps, FailureKeeps DEF PassStep
<1>5. ASSUME NEW w \in Worker, HouseFound(w)
      PROVE  PositionsInv' /\ SettledKept
  <2>1. PositionsTypeOK'
    BY <1>5 DEF HouseFound, PositionsInv, PositionsTypeOK
  <2> QED
    BY <1>5, <2>1, RecordsUntouched DEF HouseFound
<1>6. CASE UNCHANGED marketVars
  BY <1>1, <1>6 DEF marketVars
<1> QED
  BY <1>1, <1>2, <1>3, <1>4, <1>5, <1>6 DEF PositionsNext

LEMMA PositionsAlways == PositionsSafety => []PositionsInv
<1>1. PositionsInv /\ [PositionsNext]_marketVars => PositionsInv'
  BY NextKeeps
<1> QED
  BY <1>1, InitInv, PTL DEF PositionsSafety

(* Type correctness: orders, positions and passes are well formed, and a    *)
(* position is in the table exactly when its order was filled.              *)
THEOREM PositionsTypeCorrect == PositionsSafety => []PositionsTypeOK
<1>1. PositionsInv => PositionsTypeOK
  BY DEF PositionsInv
<1> QED
  BY <1>1, PositionsAlways, PTL

(* The table tells the truth about the money, for any number of servers     *)
(* that settle at the same time and any number of faults: a recorded        *)
(* settlement is the one the chain has paid.                                *)
THEOREM RecordsBacked == PositionsSafety => []RecordBackedByChain
<1>1. PositionsInv => RecordBackedByChain
  BY DEF PositionsInv
<1> QED
  BY <1>1, PositionsAlways, PTL

(* No pass of any server changes the record of a settled position.          *)
THEOREM PositionsSettledOnce == PositionsSafety => SettledOnce
<1>1. PositionsInv /\ [PositionsNext]_marketVars =>
        [\A x \in Position : position[x] \in Reason => position'[x] = position[x]]_marketVars
  BY NextKeeps DEF SettledKept
<1> QED
  BY <1>1, PositionsAlways, PTL DEF PositionsSafety, SettledOnce

-----------------------------------------------------------------------------
(* Outcomes.  A settlement decides by what its pass has read of the markets *)
(* before; that this is still what the oracle says when the record is made  *)
(* follows from the oracle never taking an outcome back.                    *)
Said(table, m, out) == m \in OracleMarket /\ table[m].outcome = out

Fits(o, v, table) ==
    /\ v \in Won => Said(table, o.market, o.side)
    /\ v = "lost" => Said(table, o.market, Opposite(o.side))

SeenTrue(seen, table) ==
    \A m \in DOMAIN seen :
        /\ seen[m] \in Entries \cup {Absent}
        /\ seen[m].outcome # "none" => Said(table, m, seen[m].outcome)

(* What a pass has seen is true, covers what it still has to settle, and    *)
(* is what it has paid by.                                                  *)
PassTrue(p, orders, table) ==
    /\ SeenTrue(p.seen, table)
    /\ \A x \in p.todo : orders[x].market \in DOMAIN p.seen
    /\ p.stage = "paid" => Fits(orders[p.cur], p.verdict, table)

(* The inductive invariant for outcomes. *)
OutcomeInv ==
    /\ PositionsInv /\ CatalogInv
    /\ \A w \in Worker : PassTrue(pass[w], order, oracle)
    /\ \A x \in Position : Fits(order[x], position[x], oracle)

OutcomesKept(old, new) ==
    \A m \in OracleMarket : old[m].outcome # "none" => new[m].outcome = old[m].outcome

LEMMA FitsKept ==
    ASSUME NEW o, NEW v, o.side \in Side, NEW t, NEW u, OutcomesKept(t, u), Fits(o, v, t)
    PROVE  Fits(o, v, u)
BY DEF Fits, Said, OutcomesKept, Side, Opposite

LEMMA SeenKept ==
    ASSUME NEW seen, NEW t, NEW u, OutcomesKept(t, u), SeenTrue(seen, t)
    PROVE  SeenTrue(seen, u)
BY DEF SeenTrue, Said, OutcomesKept

(* What a pass decides by markets it has seen fits the oracle. *)
LEMMA VerdictFits ==
    ASSUME NEW x, NEW rows, NEW seen, order[x].side \in Side,
           SeenTrue(seen, oracle), order[x].market \in DOMAIN seen
    PROVE  Fits(order[x], Verdict(x, rows, seen), oracle)
<1> DEFINE out == seen[order[x].market].outcome
           v == Verdict(x, rows, seen)
<1>1. out \in {"none", "yes", "no"}
  BY DEF SeenTrue, Entries, OracleEntries, ReportedClosed, Absent, Entry
<1>2. out # "none" => Said(oracle, order[x].market, out)
  BY DEF SeenTrue
<1>3. v \in Won => out # "none" /\ order[x].side = out
  BY DEF Verdict, Won
<1>4. v = "lost" => out # "none" /\ order[x].side # out
  BY DEF Verdict
<1> HIDE DEF v, out
<1>5. v = "lost" => out = Opposite(order[x].side)
  BY <1>1, <1>4 DEF Opposite, Side
<1> QED
  BY <1>2, <1>3, <1>4, <1>5 DEF Fits, v

(* The markets as a pass reads them. *)
LEMMA DecidedSeen ==
    ASSUME CatalogInv, NEW seen \in DecisionsListed
    PROVE  SeenTrue(seen, oracle)
<1>1. PICK L \in Listings(SettleRows) : seen = [m \in DecidedMarkets(L) |-> row[m]]
  BY DEF DecisionsListed
<1>2. \A m \in DecidedMarkets(L) : m \in Market /\ row[m] \in Entries \cup {Absent}
  BY ListedRows DEF CatalogInv, CatalogTypeOK, DecidedMarkets
<1>3. \A m \in Market : row[m].outcome # "none" => Said(oracle, m, row[m].outcome)
  BY DEF CatalogInv, ReportsConfirmed, Confirmed, Said
<1> QED
  BY <1>1, <1>2, <1>3 DEF SeenTrue

LEMMA IdleTrue == ASSUME NEW orders, NEW table PROVE PassTrue(PassIdle, orders, table)
BY EmptyFeed DEF PassTrue, PassIdle, SeenTrue

LEMMA SettlingTrue ==
    ASSUME NEW rows, NEW seen, NEW todo, NEW orders, NEW table,
           SeenTrue(seen, table), \A x \in todo : orders[x].market \in DOMAIN seen
    PROVE  PassTrue(Settling(rows, seen, todo), orders, table)
<1>1. CASE todo = {}
  BY <1>1, IdleTrue DEF Settling
<1>2. CASE todo # {}
  <2> DEFINE p == Settling(rows, seen, todo)
  <2>1. p.seen = seen /\ p.todo = todo /\ p.stage = "settling"
    BY <1>2 DEF Settling, PassIdle
  <2> HIDE DEF p
  <2>2. PassTrue(p, orders, table)
    BY <2>1 DEF PassTrue
  <2> QED
    BY <2>2 DEF p
<1> QED
  BY <1>1, <1>2

-----------------------------------------------------------------------------
(* Stored orders and reported outcomes do not change. *)
LEMMA OraclesWord ==
    ASSUME CatalogTypeOK, [CatalogNext]_catalogVars
    PROVE  OutcomesKept(oracle, oracle')
<1>1. ASSUME NEW m \in OracleMarket, OracleMoves(m)
      PROVE  OutcomesKept(oracle, oracle')
  BY <1>1, OutcomeStays DEF OutcomesKept, Confirmed
<1>2. ASSUME oracle' = oracle
      PROVE  OutcomesKept(oracle, oracle')
  BY <1>2 DEF OutcomesKept
<1>3. CASE UNCHANGED catalogVars
  BY <1>2, <1>3 DEF catalogVars
<1>4. ASSUME NEW j \in SyncJob, SyncFetch(j) \/ SyncStep(j) PROVE oracle' = oracle
  BY <1>4 DEF SyncFetch, SyncStep, SyncUpsert, SyncActivate, SyncList, SyncOnly
<1>5. ASSUME NEW e \in EnsureJob, EnsureRead(e) \/ EnsureStep(e) PROVE oracle' = oracle
  BY <1>5 DEF EnsureRead, EnsureStep, EnsureFetch, EnsureFetchFails, EnsureUpsert, EnsureChoose,
              EnsureFallback, EnsureActivate
<1> QED
  BY <1>1, <1>2, <1>3, <1>4, <1>5 DEF CatalogNext, OracleCloses, CloseTime, ActivateMarket

(* Of an order that is stored. *)
LEMMA StoredOrder ==
    ASSUME PositionsInv, NEW x \in Position, position[x] # "none"
    PROVE  order[x].stage = "stored" /\ order[x].side \in Side
BY OrderStages DEF PositionsInv, PositionsTypeOK, OrderRecord

OrdersKept == \A x \in Position : position[x] # "none" => order'[x] = order[x]

(* A step that does not touch the passes, and settles nothing. *)
LEMMA OutcomesUntouched ==
    ASSUME OutcomeInv, PositionsInv', CatalogInv', OrdersKept, OutcomesKept(oracle, oracle'),
           NEW w \in Worker
    PROVE  PassTrue(pass[w], order', oracle')
<1>1. PassTrue(pass[w], order, oracle)
  BY DEF OutcomeInv
<1>2. /\ pass[w].todo \subseteq pass[w].rows /\ pass[w].rows \subseteq Position
      /\ \A y \in pass[w].rows : position[y] # "none"
      /\ pass[w].stage = "paid" => pass[w].cur \in pass[w].todo
  BY DEF OutcomeInv, PositionsInv, PositionsTypeOK, PassesWellFormed
<1>3. \A x \in pass[w].todo : order'[x] = order[x] /\ order[x].side \in Side
  BY <1>2, StoredOrder DEF OrdersKept, OutcomeInv
<1>4. SeenTrue(pass[w].seen, oracle')
  BY <1>1, SeenKept DEF PassTrue
<1>5. ASSUME pass[w].stage = "paid"
      PROVE  Fits(order'[pass[w].cur], pass[w].verdict, oracle')
  BY <1>1, <1>2, <1>3, <1>5, FitsKept DEF PassTrue
<1> QED
  BY <1>1, <1>3, <1>4, <1>5 DEF PassTrue

LEMMA NothingSettled ==
    ASSUME OutcomeInv, PositionsInv', CatalogInv', OrdersKept, OutcomesKept(oracle, oracle'),
           pass' = pass, \A x \in Position : position'[x] \in {position[x], "open"}
    PROVE  OutcomeInv'
<1>1. \A w \in Worker : PassTrue(pass'[w], order', oracle')
  BY OutcomesUntouched
<1>2. ASSUME NEW x \in Position PROVE Fits(order'[x], position'[x], oracle')
  <2>1. CASE position'[x] \in {"none", "open"}
    BY <2>1 DEF Fits, Won
  <2>2. CASE position'[x] \notin {"none", "open"}
    <3>1. position'[x] = position[x] /\ position[x] # "none"
      BY <2>2
    <3>2. order'[x] = order[x] /\ order[x].side \in Side
      BY <3>1, StoredOrder DEF OrdersKept, OutcomeInv
    <3> QED
      BY <3>1, <3>2, FitsKept DEF OutcomeInv
  <2> QED
    BY <2>1, <2>2
<1> QED
  BY <1>1, <1>2 DEF OutcomeInv

(* A pass moves, and perhaps writes the record it holds. *)
LEMMA PassMoves ==
    ASSUME OutcomeInv, PositionsInv', CatalogInv', UNCHANGED <<order, oracle>>,
           NEW w \in Worker, NEW p, PassTo(w, p), PassTrue(p, order, oracle),
           \A x \in Position : Fits(order[x], position'[x], oracle)
    PROVE  OutcomeInv'
<1>1. \A u \in Worker : pass'[u] = p \/ pass'[u] = pass[u]
  BY DEF PassTo, OutcomeInv, PositionsInv, PassesWellFormed
<1> QED
  BY <1>1 DEF OutcomeInv

-----------------------------------------------------------------------------
LEMMA PassOutcomes ==
    ASSUME OutcomeInv, PositionsInv', CatalogInv', NEW w \in Worker,
           PassStep(w) \/ SettlementFault(w)
    PROVE  OutcomeInv'
<1>1. /\ PassTrue(pass[w], order, oracle)
      /\ \A x \in Position : Fits(order[x], position[x], oracle)
      /\ CatalogInv /\ PositionsInv
  BY DEF OutcomeInv
<1>2. UNCHANGED <<order, oracle>>
  BY DEF PassStep, SettlementFault, ReadPositionsFirst, ReadMarketsFirst, ReadOther,
         MineSettlement, SettlementFailed, Record, catalogVars
<1>3. ASSUME NEW x, Continue(w, x) \/ PassTo(w, PassIdle), UNCHANGED position
      PROVE  OutcomeInv'
  <2> DEFINE p == Settling(pass[w].rows, pass[w].seen, pass[w].todo \ {x})
  <2>1. PassTrue(p, order, oracle)
    BY <1>1, SettlingTrue DEF PassTrue
  <2>2. PassTrue(PassIdle, order, oracle)
    BY IdleTrue
  <2>3. PassTo(w, p) \/ PassTo(w, PassIdle)
    BY <1>3 DEF Continue
  <2> HIDE DEF p
  <2> QED
    BY <1>1, <1>2, <1>3, <2>1, <2>2, <2>3, PassMoves
<1>4. CASE ReadPositionsFirst(w)
  <2> DEFINE p == [PassIdle EXCEPT !.stage = "positions", !.rows = OpenPositions]
  <2>1. PassTrue(p, order, oracle)
    BY EmptyFeed DEF PassTrue, PassIdle, SeenTrue
  <2>2. PassTo(w, p) /\ UNCHANGED position
    BY <1>4 DEF ReadPositionsFirst
  <2> HIDE DEF p
  <2> QED
    BY <1>1, <1>2, <2>1, <2>2, PassMoves
<1>5. CASE ReadMarketsFirst(w)
  <2>0. PICK seen \in DecisionsListed :
            PassTo(w, [PassIdle EXCEPT !.stage = "markets", !.seen = seen])
    BY <1>5 DEF ReadMarketsFirst
  <2> DEFINE p == [PassIdle EXCEPT !.stage = "markets", !.seen = seen]
  <2>1. SeenTrue(seen, oracle)
    BY <1>1, DecidedSeen
  <2>2. PassTo(w, p) /\ UNCHANGED position
    BY <1>5, <2>0 DEF ReadMarketsFirst
  <2>3. PassTrue(p, order, oracle)
    BY <2>1 DEF PassTrue, PassIdle
  <2> HIDE DEF p
  <2> QED
    BY <1>1, <1>2, <2>2, <2>3, PassMoves
<1>6. CASE ReadOther(w)
  <2>1. \E rows, seen : /\ SeenTrue(seen, oracle)
                        /\ PassTo(w, Settling(rows, seen, Decided(rows, seen)))
    BY <1>1, <1>6, DecidedSeen DEF ReadOther, PassTrue
  <2>2. PICK rows, seen : /\ SeenTrue(seen, oracle)
                          /\ PassTo(w, Settling(rows, seen, Decided(rows, seen)))
    BY <2>1
  <2>3. \A x \in Decided(rows, seen) : order[x].market \in DOMAIN seen
    BY DEF Decided
  <2>4. PassTrue(Settling(rows, seen, Decided(rows, seen)), order, oracle)
    BY <2>2, <2>3, SettlingTrue
  <2>5. UNCHANGED position
    BY <1>6 DEF ReadOther
  <2> QED
    BY <1>1, <1>2, <2>2, <2>4, <2>5, PassMoves
<1>7. ASSUME NEW x \in Position, MineSettlement(w, x)
      PROVE  OutcomeInv'
  <2> DEFINE v == Verdict(x, pass[w].rows, pass[w].seen)
             p == [pass[w] EXCEPT !.stage = "paid", !.cur = x, !.verdict = v]
  <2>1. x \in pass[w].todo /\ UNCHANGED position
    BY <1>7 DEF MineSettlement
  <2>2. order[x].side \in Side
    BY <1>1, <2>1, StoredOrder DEF PositionsInv, PositionsTypeOK, PassesWellFormed
  <2>3. Fits(order[x], v, oracle)
    BY <1>1, <2>1, <2>2, VerdictFits DEF PassTrue
  <2>4. PassTo(w, p)
    BY <1>1, <1>7 DEF MineSettlement, PassTo, PositionsInv, PassesWellFormed
  <2> HIDE DEF v
  <2>5. p.seen = pass[w].seen /\ p.todo = pass[w].todo /\ p.cur = x /\ p.verdict = v
    BY <1>1 DEF PositionsInv, PassesWellFormed, PassDomain
  <2> HIDE DEF p
  <2>6. PassTrue(p, order, oracle)
    BY <1>1, <2>3, <2>5 DEF PassTrue
  <2> QED
    BY <1>1, <1>2, <2>1, <2>4, <2>6, PassMoves
<1>8. CASE Record(w)
  <2> DEFINE x == pass[w].cur
             p == Settling(pass[w].rows, pass[w].seen, pass[w].todo \ {x})
  <2>1. PassTo(w, p) /\ position' = [position EXCEPT ![x] = pass[w].verdict]
    BY <1>8 DEF Record, Continue
  <2>2. PassTrue(p, order, oracle)
    BY <1>1, SettlingTrue DEF PassTrue
  <2>3. Fits(order[x], pass[w].verdict, oracle)
    BY <1>1, <1>8 DEF PassTrue, Record
  <2>4. \A y \in Position : Fits(order[y], position'[y], oracle)
    BY <1>1, <2>1, <2>3 DEF PositionsInv, PositionsTypeOK
  <2> HIDE DEF p
  <2> QED
    BY <1>2, <2>1, <2>2, <2>4, PassMoves
<1>9. ASSUME NEW x \in Position, SettlementFailed(w, x)
      PROVE  OutcomeInv'
  BY <1>3, <1>9 DEF SettlementFailed
<1>10. CASE SettlementFault(w)
  BY <1>3, <1>10 DEF SettlementFault, Ends
<1> QED
  BY <1>4, <1>5, <1>6, <1>7, <1>8, <1>9, <1>10 DEF PassStep

LEMMA OutcomeNextKeeps == OutcomeInv /\ [PositionsNext]_marketVars => OutcomeInv'
<1> SUFFICES ASSUME OutcomeInv, [PositionsNext]_marketVars
             PROVE  OutcomeInv'
  OBVIOUS
<1>1. PositionsInv'
  BY NextKeeps DEF OutcomeInv
<1>2. [CatalogNext]_catalogVars
  BY DEF PositionsNext, marketVars, Quote, LockBet, TooManyOpen, LockRefused, MineLock,
         StorePosition, AbandonOrder, MineLate, PassStep, SettlementFault, ReadPositionsFirst,
         ReadMarketsFirst, ReadOther, MineSettlement, SettlementFailed, Record, HouseFound
<1>3. CatalogInv' /\ OutcomesKept(oracle, oracle')
  BY <1>2, CatalogNextKeeps, OraclesWord DEF OutcomeInv, CatalogInv
<1>4. CASE UNCHANGED positionVars
  <2>1. OrdersKept /\ pass' = pass /\ position' = position
    BY <1>4 DEF positionVars, OrdersKept
  <2> QED
    BY <1>1, <1>3, <2>1, NothingSettled
<1>5. ASSUME NEW x \in Position,
             \/ \E p \in Bettor, m \in Market, side \in Side : Quote(x, p, m, side)
             \/ LockBet(x) \/ TooManyOpen(x) \/ LockRefused(x) \/ AbandonOrder(x)
             \/ MineLock(x) \/ StorePosition(x) \/ MineLate(x)
      PROVE  OutcomeInv'
  <2>1. pass' = pass
    BY <1>5 DEF Quote, LockBet, TooManyOpen, LockRefused, MineLock, StorePosition,
                AbandonOrder, MineLate
  <2>2. \A y \in Position : position'[y] \in {position[y], "open"}
    BY <1>5 DEF Quote, LockBet, TooManyOpen, LockRefused, MineLock, StorePosition,
                AbandonOrder, MineLate, OutcomeInv, PositionsInv, PositionsTypeOK
  <2>3. order[x].stage # "stored" \/ order' = order
    BY <1>5 DEF Quote, LockBet, TooManyOpen, LockRefused, MineLock, StorePosition,
                AbandonOrder, MineLate, NoOrder
  <2>4. \A y \in Position : y # x => order'[y] = order[y]
    BY <1>5 DEF Quote, LockBet, TooManyOpen, LockRefused, MineLock, StorePosition,
                AbandonOrder, MineLate, OrderTo, OrderOver, OutcomeInv, PositionsInv,
                PositionsTypeOK
  <2>5. OrdersKept
    BY <2>3, <2>4, StoredOrder DEF OrdersKept, OutcomeInv
  <2> QED
    BY <1>1, <1>3, <2>1, <2>2, <2>5, NothingSettled
<1>6. ASSUME NEW w \in Worker, PassStep(w) \/ SettlementFault(w)
      PROVE  OutcomeInv'
  BY <1>1, <1>3, <1>6, PassOutcomes
<1>7. ASSUME NEW w \in Worker, HouseFound(w)
      PROVE  OutcomeInv'
  <2>1. OrdersKept /\ pass' = pass /\ position' = position
    BY <1>7 DEF HouseFound, OrdersKept
  <2> QED
    BY <1>1, <1>3, <2>1, NothingSettled
<1>8. CASE UNCHANGED marketVars
  BY <1>4, <1>8 DEF marketVars
<1> QED
  BY <1>4, <1>5, <1>6, <1>7, <1>8 DEF PositionsNext

LEMMA InitOutcome == PositionsInit => OutcomeInv
<1> SUFFICES ASSUME PositionsInit PROVE OutcomeInv
  OBVIOUS
<1>1. \A w \in Worker : PassTrue(pass[w], order, oracle)
  BY IdleTrue DEF PositionsInit, NoPositions
<1>2. \A x \in Position : Fits(order[x], position[x], oracle)
  BY DEF PositionsInit, NoPositions, Fits, Won
<1> QED
  BY <1>1, <1>2, InitInv, InitCatalog DEF OutcomeInv, PositionsInit, NoPositions

(* Nobody loses against the oracle: whatever workers, syncs and guarantees  *)
(* run at once and however old the list of markets a pass settles by, a     *)
(* recorded win or loss is what the oracle decided.                         *)
THEOREM OutcomesOfOracle == PositionsSafety => []OutcomeOfOracle
<1>1. OutcomeInv => OutcomeOfOracle
  BY DEF OutcomeInv, OutcomeOfOracle, Fits, Said
<1> QED
  BY <1>1, InitOutcome, OutcomeNextKeeps, PTL DEF PositionsSafety
=============================================================================
