\* Two administrators, one of them created, demoted and promoted again, one
\* link, and two overlapping requests that change one membership.
SPECIFICATION Spec
CONSTANTS
    Users = {root, bob}
    Players = {ana}
    Articles = {n1}
    Links = {l1}
    Sessions = {t1, t2}
    Requests = {q1, q2}
    Root = root
    Key = Key
    MaxEntries = 4
    NoOne = NoOne
    NoLink = NoLink
INVARIANT
    DatesTellTheStory
PROPERTIES
    LinkSpent
    DemotionCutsOff
    ImplementsLedger
