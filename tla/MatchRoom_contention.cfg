\* Two rooms of four seats compete for four players.  It ends when both are over.
SPECIFICATION Spec
CONSTANTS
    Players = {p1, p2, p3, p4}
    Rooms = {r1, r2}
    Maps = {m1, m2}
    TeamSize = 2
    MaxRound = 2
    Volatile = {}
    NoPlayer = NoPlayer
    NoMap = NoMap
SYMMETRY Symmetry
INVARIANTS
    Seating
    LockedRosterConsented
PROPERTIES
    ImplementsLifecycle
CHECK_DEADLOCK FALSE
