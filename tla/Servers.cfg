SPECIFICATION ServersSafety
CONSTANTS
    alice = alice
    bob = bob
    east = east
    west = west
    House = House
    Nobody = Nobody
    NoServer = NoServer
    Server <- MCServers
    Player <- MCTwo
    Targets <- MCTwo
    MaxChallenges = 2
    PendingTicks = 1
    ActiveTicks = 1
    LockTicks = 1
    BeatTicks = 2
    GraceTicks = 2
    MaxCommands = 0
    MaxCrashes = 1
    Late = {}
    Roaming = FALSE
    Wagers = {FALSE}
    FixedIds = TRUE
    OracleMarket = {m1}
    Fallback = fallback
    SyncJob = {j1}
    EnsureJob = {}
    Report <- MCReports
    FeedRows = 1
    ListRows = 1
    SyncRows = 1
    MaxAdmin = 0
    MaxPositions = 2
    Bettor = {p1}
    StakeOf <- MCStakes
    Worker <- MCServers
    SettleRows = 1
    MaxOpen = 1
    MaxFaults = 1
SYMMETRY MCSymmetryTwo
INVARIANTS
    OnePendingAcrossServers
    NothingLeft
    RecordBackedByChain
    OutcomeOfOracle
PROPERTIES
    SettledOnce
CHECK_DEADLOCK FALSE
