SPECIFICATION AccountsSpec

CONSTANTS
    alice = alice
    bob = bob
    treasury = treasury
    escrow = escrow
    NoAccount = NoAccount
    BetId = {b1, b2}
    Account <- MCAccount
    Escrow <- escrow
    Treasury <- treasury
    Admin <- MCAdmin
    Resolver <- MCAdmin
    Stake = {0, 1, 3}
    Bps <- MCBps
    InitialBps = 500
    Funds = 4
    h1 = h1
    h2 = h2
    Holder = {h1, h2}
    Caller = {k1, k2}
    Offer <- MCOffer
    TokenStart = 1
    MaxAttempts = 2
    MaxEvents = 1
    u1 = u1
    u2 = u2
    n1 = n1
    bank = bank
    User = {u1, u2}
    Npc = {n1}
    Bank = bank
    BotOrder <- MCBotOrder
    WalletOrder <- MCWalletOrder
    Stakeable = {c1}
    Sum = {1, 2}
    FeeBps = {0, 10000}
    MaxDaily = 2
    MaxBetPercent = 100
    BankStart = 2
    UserSeed = 2
    NpcSeed = 2
    TopupAmount = 1
    AutoFloor = TRUE
    WithDatabase = TRUE
    MaxCalls = 3
    Subject = {a, b}
    AdminSubject = {a}
    Request = {r1, r2}
    MaxProfiles = 2
    MaxRequests = 3
    MaxSessions = 2
    MaxFaults = 1
    Operator = {o1, o2}
    Administrator = {o1}
    MaxMessages = 2
    MaxFailures = 2
    MaxBots = 2
    BotCount = 1
    MaxFleetCalls = 4

SYMMETRY MCSymmetry

INVARIANTS
    Solvent
    PreflightSound
    MoneyConserved
    OneProfileEach
    ActsOnce
    ConfirmsWhatIsShown
    FleetComplete

PROPERTIES
    PurgeLogsOut

CHECK_DEADLOCK FALSE
