SPECIFICATION ClientsSpec

CONSTANTS
    MaxChallenges = 2
    MaxLinkDrops = 1
    MaxOnTheWay = 2
    Socket = {s1, s2, s3}
    Offered = {o1}
    MaxDrops = 2
    MaxRenames = 1
    Profile = {p1}
    PresenceTicks = 1
    MaxChanges = 4
    Other = {o2, o3}
    Host = {h1}
    NoTarget = NoTarget
    CardWager = {0, 1}
    MaxActs = 6
    Question = {q1}
    NoQuestion = NoQuestion
    MaxAsked = 3
    MaxCuts = 1
    Server = {db1, db2}
    Operator = {op}
    MaxRuns = 2
    MaxRollbacks = 1
    MaxCrashes = 1

INVARIANTS
    PageFollowsServer
    OneSocket
    SentAsShown
    OneOrderAtATime
    SchemaAsRecorded

PROPERTIES
    AnswerComesBack
    Reconnects
    OwnerTakesOver
    PresenceRestores

CHECK_DEADLOCK FALSE
