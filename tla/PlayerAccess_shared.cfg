SPECIFICATION AccessSpec
CONSTANTS
    Subject = {a, b}
    AdminSubject = {a}
    Request = {r1, r2}
    MaxProfiles = 2
    MaxRequests = 3
    MaxSessions = 2
    MaxFaults = 1
INVARIANTS NoSharedProfile
SYMMETRY Sym
CHECK_DEADLOCK FALSE
