\* A bridge repeats a result it has already posted.
SPECIFICATION Spec
CONSTANTS
    Rooms = {r1, r2}
    LegacyRooms = {}
    s1 = s1
    s2 = s2
    n1 = n1
    n2 = n2
    Servers = {s1, s2}
    Nodes = {n1, n2}
    NodeOf <- TwoNodes
    Bodies = {b1}
    MaxAttempts = 2
    Volatile = {}
    NoServer = NoServer
    NoBody = NoBody
INVARIANT ExactReplayAccepted
CHECK_DEADLOCK FALSE
