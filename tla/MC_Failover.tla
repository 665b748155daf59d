----------------------------- MODULE MC_Failover -----------------------------
(* An instance for TLC of what keeps going when something fails: servers     *)
(* that crash and the sweeps that expire their challenges, and the markets   *)
(* of the prediction station, which stays usable while the oracle's close or *)
(* cannot be fetched.  Each behaviour exercises one, the other stands still. *)
EXTENDS MC_DistributedChallenges, MarketCatalog

VARIABLE part

(* A cancelled market is as little playable as a resolved one.               *)
MCReports == {Entry("open", "none"), Entry("resolved", "none")}

failoverVars == <<part, vars, catalogVars>>

InChallenges(A) == part = "challenges" /\ A /\ UNCHANGED <<part, catalogVars>>
InCatalog(A) == part = "catalog" /\ A /\ UNCHANGED <<part, vars>>

(* Where nobody asks for a list, a guarantee has made the fallback before.   *)
FallbackMade ==
    /\ oracle = [m \in OracleMarket |-> Entry("open", "none")]
    /\ delisted = {} /\ due = {}
    /\ row = [[m \in Market |-> Absent] EXCEPT ![Fallback] = Entry("open", "none")]
    /\ activation = [[m \in Market |-> NoRecord]
                       EXCEPT ![Fallback] = [active |-> TRUE, by |-> "system"]]
    /\ sync = [j \in SyncJob |-> SyncIdle] /\ ensure = [e \in EnsureJob |-> EnsureIdle]
    /\ adminActs = 0

FailoverInit ==
    /\ part \in {"challenges", "catalog"}
    /\ Init
    /\ IF part = "catalog" THEN CatalogInit ELSE FallbackMade

FailoverNext == InChallenges(Next) \/ InCatalog(CatalogNext)

(* The fairness of both specifications.                                      *)
FailoverFairness ==
    /\ \A s \in Server :
          /\ WF_failoverVars(InChallenges(Redis(s))) /\ WF_failoverVars(InChallenges(Sweep(s)))
          /\ WF_failoverVars(InChallenges(HeartbeatServer(s)))
          /\ WF_failoverVars(InChallenges(Tick(s)))
    /\ SF_failoverVars(InChallenges(Clock))
    /\ \A j \in SyncJob :
          WF_failoverVars(InCatalog(SyncFetch(j))) /\ WF_failoverVars(InCatalog(SyncStep(j)))
    /\ \A e \in EnsureJob :
          WF_failoverVars(InCatalog(EnsureRead(e))) /\ WF_failoverVars(InCatalog(EnsureStep(e)))

FailoverSpec == FailoverInit /\ [][FailoverNext]_failoverVars /\ FailoverFairness
=============================================================================
