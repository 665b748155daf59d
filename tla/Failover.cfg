SPECIFICATION FailoverSpec
CONSTANTS
    alice = alice
    bob = bob
    east = east
    west = west
    House = House
    Nobody = Nobody
    NoServer = NoServer
    Server <- MCServers
    Player <- MCTwo
    Targets <- MCTargets
    MaxChallenges = 1
    PendingTicks = 1
    ActiveTicks = 1
    LockTicks = 1
    BeatTicks = 2
    GraceTicks = 1
    MaxCommands = 1
    MaxCrashes = 1
    Late <- MCLate
    Roaming = TRUE
    Wagers = {FALSE}
    FixedIds = FALSE
    OracleMarket = {m1}
    Fallback = fallback
    SyncJob = {j1}
    EnsureJob = {e1}
    Report <- MCReports
    FeedRows = 1
    ListRows = 1
    SyncRows = 2
    MaxAdmin = 1
INVARIANTS
    FailoverSound
PROPERTIES
    OrphanExpired
    StationUsable
CHECK_DEADLOCK FALSE
