SPECIFICATION MCSpec

CONSTANTS
    Server = {s1, s2}
    Player = {p, q}
    Connection = {c1, c2}
    MaxConnects = 3
    MaxOnBus = 2

SYMMETRY MCSymmetry

INVARIANTS
    OpenInWorld
    ToldWhoIsNear

CHECK_DEADLOCK FALSE
