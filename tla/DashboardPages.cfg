SPECIFICATION PagesSpec
CONSTANTS
    Dbs = {d1, d2}
    None = None
    Ok = Ok
    Failed = Failed
    Vals = {1, 2}
    Default = 1
    Items = {i1, i2}
    Branches = {b1}
    Backups = {k1}
    Automations = {a1}
    Windows = {w1, w2}
    HistoryMax = 2
    MaxNet = 2
    Unreliable = {"monitoring", "preferences", "connections", "limits", "webserver", "updates", "users", "projects", "containers"}
    Pages = {"monitoring", "notifications", "preferences", "connections", "limits", "branches", "webserver", "sql", "profile", "users", "updates", "backup settings", "backups", "tables", "relations", "database", "connection string", "project", "navigation", "projects", "user access", "containers", "moves", "logs", "terminal", "cards", "card removal"}
CHECK_DEADLOCK FALSE
SYMMETRY Alike
INVARIANTS
    SpinnerHasRequest
    OneWriteAtATime
    KnowsWhatIsStored
    SavedToItsOwnDatabase
    MasterComesLast
