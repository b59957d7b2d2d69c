SPECIFICATION FairSessionsSpec
CONSTANTS
    Sessions = {s1}
    Tokens = {t1, t2}
    Databases = {d1}
    Requests = {r1}
    None = None
    InProcess = FALSE
    MaxRestarts = 1
    MaxLate = 1
    AuthTimeout = 1
    IdleTimeout = 2
    CheckPeriod = 2
    Updaters = {u1}
    Checks = {b}
    BootCheck = b
    Nobody = Nobody
    MaxVersion = 1
    MaxCrashes = 1
PROPERTIES
    StaleSessionEnds
    OldSessionEnds
    LeftoverCleared
CHECK_DEADLOCK FALSE
