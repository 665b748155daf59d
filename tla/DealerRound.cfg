SPECIFICATION DealersSpec
CONSTANTS
    alice = alice
    House = House
    Nobody = Nobody
    NotFinite = NotFinite
    Player <- MCOne
    Game = {"coinflip", "dice_duel"}
    DiceFace = {"d1"}
    WagerInput = {0, 2}
    MaxWager = 1
    MaxChallenges = 2
    PendingTicks = 1
    ActiveTicks = 1
    RoundTicks = 1
    MaxSeeds = 1
    rpsTable = rpsTable
    coinHost = coinHost
    coinStation = coinStation
    NoTable = NoTable
    Table = {rpsTable, coinHost}
    Dealer <- MCDealer
    CoinTable = {coinHost}
    MaxPlays = 2
    MaxBreaks = 1
INVARIANTS
    CoinAsRevealed
PROPERTIES
    PickAnswered
    RoundDropped
    CardAnswers
CHECK_DEADLOCK FALSE
