------------------------- MODULE MC_MarketPositions -------------------------
(* An instance of MarketPositions for TLC: a market is resolved, its outcome *)
(* may be known at once or later.  A cancelled market is settled like one    *)
(* without an outcome, and "no" mirrors "yes".                               *)
EXTENDS MarketPositions

MCReports ==
    {Entry("open", "none"), Entry("resolved", "none"), Entry("resolved", "yes")}
MCStakes == [x \in 1 .. MaxPositions |-> x]
=============================================================================
