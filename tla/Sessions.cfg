SPECIFICATION SessionsSpec
CONSTANTS
    Sessions = {s1, s2}
    Tokens = {t1, t2}
    Databases = {d1}
    Requests = {r1}
    None = None
    InProcess = TRUE
    MaxRestarts = 0
    MaxLate = 0
    AuthTimeout = 1
    IdleTimeout = 6
    CheckPeriod = 2
    Updaters = {u1, u2}
    Checks = {b}
    BootCheck = b
    Nobody = Nobody
    MaxVersion = 1
    MaxCrashes = 1
SYMMETRY Symmetry
INVARIANTS
    RegistryExact
    DisconnectComplete
    BoundedIdle
    UpdateReported
    UpToDateUnlessUnbuilt
PROPERTY
    NoAuthAfterAnswer
CHECK_DEADLOCK FALSE
