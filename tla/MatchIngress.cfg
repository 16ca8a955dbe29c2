\* Three requests in flight carry the end of a match, its copies and its rivals.
SPECIFICATION Spec
CONSTANTS
    e1 = e1
    e2 = e2
    i1 = i1
    r1 = r1
    Requests = {q1, q2, q3}
    Sources = {e1, e2}
    EventIds = {i1}
    Rooms = {r1}
    EdgeOf <- OnFirstEdge
    Messages <- Sent
    MaxCrashes = 2
    NoRoom = NoRoom
    Nothing = Nothing
INVARIANTS
    AcknowledgedIsKept
    AcceptedOnce
PROPERTY EndArrives
