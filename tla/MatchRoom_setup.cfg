\* One room of six, just locked or left by an earlier release after its draft,
\* its veto or its match, drafts teams of three and bans two of three maps;
\* nobody is obliged to act, clients keep reading.
SPECIFICATION UpgradeSpec
CONSTANTS
    Players = {p1, p2, p3, p4, p5, p6}
    Rooms = {r1}
    Maps = {m1, m2, m3}
    TeamSize = 3
    MaxRound = 1
    Volatile = {p1}
    SeatOrders <- FirstOrLast
    NoPlayer = NoPlayer
    NoMap = NoMap
INVARIANTS
    SetupFair
    RecoveredMatchFaithful
PROPERTY SetupEnds
