\* Three rooms, one of which an earlier release left prepared but not joinable,
\* two servers behind two bridge nodes; a player of the old room plays again.
SPECIFICATION AccessSpec
CONSTANTS
    r1 = r1
    r2 = r2
    r3 = r3
    s1 = s1
    s2 = s2
    n1 = n1
    n2 = n2
    ana = ana
    bia = bia
    Rooms = {r1, r2, r3}
    LegacyRooms = {r3}
    Servers = {s1, s2}
    Nodes = {n1, n2}
    NodeOf <- TwoNodes
    Players = {ana, bia}
    Roster <- Rosters
    Bodies = {b1}
    MaxAttempts = 2
    Volatile = {s1, r1}
    NoServer = NoServer
    NoBody = NoBody
INVARIANTS
    ServerExclusive
    SagaCoherent
    FifoService
    AccessChecksAgree
    OneWayIn
PROPERTIES
    ResultStands
    ProvisioningResolves
    ReadyServed
