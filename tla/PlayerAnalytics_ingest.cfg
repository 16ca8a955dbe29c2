\* One generation from its upload to its verdict, through failures, crashes,
\* lost channels and duplicate messages.
SPECIFICATION FairSpec
CONSTANTS
    g1 = g1  g2 = g2  g3 = g3
    p1 = p1  p2 = p2  p3 = p3  q1 = q1  x1 = x1
    Generations = {g1}
    Packages = {p1, q1, x1}
    For <- GenerationOf
    Time <- GeneratedAt
    IdRank <- IdOrder
    WellFormed = {p1, q1}
    Valid = {p1}
    Uploads = {u1}
    Publishers = {b1}
    Workers = {w1}
    Retained = 1
    DeliveryLimit = 1
    MaxCopies = 1
    NoGeneration = NoGeneration
    NoPackage = NoPackage
INVARIANTS ReceiptMatches OneVerdict
PROPERTIES
    DecidedInTheEnd
