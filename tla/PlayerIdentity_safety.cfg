\* Two accounts compete for two addresses and two Steam ids; verification,
\* resets, links followed late, sign-ins in two steps, disabling.
SPECIFICATION Spec
CONSTANTS
    Accounts = {a1, a2}
    Emails = {e1, e2}
    SteamIds = {i1, i2}
    Tokens = {t1, t2, t3, t4}
    Sessions = {s1, s2}
    MaxResets = 1
    MaxPending = 2
    NoAccount = NoAccount
    NoEmail = NoEmail
    NoSteam = NoSteam
    NoToken = NoToken
SYMMETRY Symmetry
INVARIANTS
    IdentityModel
    LinksSpent
    SessionsFollowReset
    DisablingEndsSessions
PROPERTIES
    IdentitiesKept
