SPECIFICATION Spec
CONSTANTS
    Sessions = {s1}
    Tokens = {t1, t2}
    Databases = {d1}
    Requests = {r1}
    None = None
    InProcess = TRUE
    MaxRestarts = 0
    MaxLate = 0
INVARIANT RevokedImmediately
CHECK_DEADLOCK FALSE
