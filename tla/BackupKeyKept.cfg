SPECIFICATION PagesSpec
CONSTANTS
    Dbs = {d1, d2}
    None = None
    Ok = Ok
    Failed = Failed
    Vals = {1, 2}
    Default = 1
    Items = {i1, i2}
    Branches = {b1}
    Backups = {k1}
    Automations = {a1}
    Windows = {w1, w2}
    HistoryMax = 2
    MaxNet = 2
    Unreliable = {}
    Pages = {"backup settings"}
CHECK_DEADLOCK FALSE
INVARIANT KeyReplacedOnlyByNewKey
