-------------------------- MODULE MC_MarketCatalog --------------------------
(* An instance of MarketCatalog for TLC. *)
EXTENDS MarketCatalog

MCReports == OracleEntries
=============================================================================
