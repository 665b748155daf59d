SPECIFICATION MatchesSpec

CONSTANTS
    alice = alice
    bob = bob
    House = House
    Nobody = Nobody
    NotFinite = NotFinite
    NoAccount = NoAccount
    EscrowAccount = EscrowAccount
    Treasury = Treasury
    Player <- MCTwo
    Game = {"rps", "coinflip", "dice_duel"}
    DiceFace = {"d1", "d2"}
    WagerInput <- MCWagers
    MaxWager = 1
    MaxChallenges = 2
    PendingTicks = 1
    ActiveTicks = 1
    Funds = 1
    FeeRate = 5000
    OracleMarket = {m1}
    Fallback = fallback
    SyncJob = {j1}
    EnsureJob = {}
    Report <- MCReports
    FeedRows = 1
    ListRows = 1
    SyncRows = 1
    MaxAdmin = 0
    MaxPositions = 1
    Bettor = {p1}
    StakeOf <- MCStakes
    Worker = {w1, w2}
    SettleRows = 1
    MaxOpen = 1
    MaxFaults = 1

INVARIANTS
    LockCoherence
    OutcomeJustified

PROPERTIES
    CloseAnnouncedOnce
    PlayerEventuallyFree
    ImplementsMatchLifecycle
    SettlementFollowsOutcome
    RecordedStakeSettled
    StakesLeaveEscrow

CHECK_DEADLOCK FALSE
