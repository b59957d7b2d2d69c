SPECIFICATION DatabasesSpec
CONSTANTS
    r1 = r1
    r2 = r2
    d1 = d1
    b1 = b1
    n1 = n1
    Databases = {d1}
    Branches <- OneBranch
    Parent <- ParentOfOne
    Names = {n1}
    Requests <- TwoRequests
    NoUnit = NoUnit
    NoName = NoName
    MaxCrashes = 1
    Jobs = {j1, j2}
    Buckets = {main, other}
    None = None
    MaxPart = 2
    MaxRows = 1
    MaxVersion = 1
    MaxBackupCrashes = 1
    Migrations = {q1, q2}
    Old = Old
    NoContainer = NoContainer
    MaxDeaths = 1
SYMMETRY Alike
INVARIANTS
    DatabasesTypeOK
    RowsMatchContainers
    DeletedStaysDeleted
    CompletedHasObject
    PendingIsWorkedOn
    OneServerOnTheVolume
    RecordHasContainer
    ServiceBack
PROPERTY RestoredExactly
CHECK_DEADLOCK FALSE
