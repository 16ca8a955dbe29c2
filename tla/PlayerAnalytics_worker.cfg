\* Three announced generations, two workers, one of which may run on when the
\* other takes over.  It may all come to rest.
SPECIFICATION BacklogSpec
CONSTANTS
    g1 = g1  g2 = g2  g3 = g3
    p1 = p1  p2 = p2  p3 = p3  q1 = q1  x1 = x1
    Generations = {g1, g2, g3}
    Packages = {p1, q1, p2, p3}
    For <- GenerationOf
    Time <- GeneratedAt
    IdRank <- IdOrder
    WellFormed = {p1, q1, p2, p3}
    Valid = {p1, q1, p2, p3}
    Uploads = {}
    Publishers = {}
    Workers = {w1, w2}
    Retained = 1
    DeliveryLimit = 1
    MaxCopies = 1
    NoGeneration = NoGeneration
    NoPackage = NoPackage
SYMMETRY Symmetry
CHECK_DEADLOCK FALSE
INVARIANTS
    CurrentStands
    NewestKept
PROPERTIES
    NeverOlder
