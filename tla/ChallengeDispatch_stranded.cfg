SPECIFICATION DispatchSafety
CONSTANTS
    alice = alice
    bob = bob
    House = House
    Nobody = Nobody
    NotFinite = NotFinite
    NoAccount = NoAccount
    EscrowAccount = EscrowAccount
    Treasury = Treasury
    Player <- MCTwo
    Game = {"coinflip"}
    DiceFace = {}
    WagerInput = {1}
    MaxWager = 1
    MaxChallenges = 1
    PendingTicks = 1
    ActiveTicks = 1
    Funds = 1
    FeeRate = 5000
INVARIANTS
    SkippedNeverLocked
CHECK_DEADLOCK FALSE
