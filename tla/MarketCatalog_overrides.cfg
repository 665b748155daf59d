SPECIFICATION CatalogSafety
CONSTANTS
    OracleMarket = {m1}
    Fallback = fallback
    SyncJob = {j1, j2}
    EnsureJob = {e1}
    Report <- MCReports
    FeedRows = 1
    ListRows = 2
    SyncRows = 2
    MaxAdmin = 1
PROPERTIES
    ManualOverridesPreserved
CHECK_DEADLOCK FALSE
