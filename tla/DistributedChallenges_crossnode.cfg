SPECIFICATION Safety
CONSTANTS
    alice = alice
    bob = bob
    east = east
    west = west
    House = House
    Nobody = Nobody
    NoServer = NoServer
    Server <- MCServers
    Player <- MCTwo
    Targets <- MCTwo
    MaxChallenges = 2
    PendingTicks = 1
    ActiveTicks = 3
    LockTicks = 2
    BeatTicks = 2
    GraceTicks = 2
    MaxCommands = 1
    MaxCrashes = 0
    Late = {}
    Roaming = FALSE
    Wagers = {FALSE}
    FixedIds = FALSE
SYMMETRY MCSymmetryTwo
INVARIANTS
    OneMatchAcrossServers
CHECK_DEADLOCK FALSE
