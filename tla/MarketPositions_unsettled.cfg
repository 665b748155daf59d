SPECIFICATION PositionsSpec
CONSTANTS
    OracleMarket = {m1}
    Fallback = fallback
    SyncJob = {j1}
    EnsureJob = {}
    Report <- MCReports
    FeedRows = 1
    ListRows = 1
    SyncRows = 1
    MaxAdmin = 0
    MaxPositions = 1
    Bettor = {p1}
    StakeOf <- MCStakes
    Worker = {w1}
    SettleRows = 1
    MaxOpen = 1
    MaxFaults = 0
PROPERTIES
    ResolvedMarketsSettle
CHECK_DEADLOCK FALSE
