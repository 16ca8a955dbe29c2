\* A Steam sign-in under way while its account is disabled.
SPECIFICATION Spec
CONSTANTS
    Accounts = {a1}
    Emails = {e1}
    SteamIds = {i1}
    Tokens = {t1}
    Sessions = {s1}
    MaxResets = 0
    MaxPending = 1
    NoAccount = NoAccount
    NoEmail = NoEmail
    NoSteam = NoSteam
    NoToken = NoToken
PROPERTY ReactivationRestoresNothing
CHECK_DEADLOCK FALSE
