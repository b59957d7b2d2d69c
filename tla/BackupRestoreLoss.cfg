SPECIFICATION BackupSpec
CONSTANTS
    Jobs = {j1}
    Buckets = {main, other}
    None = None
    MaxPart = 2
    MaxRows = 1
    MaxVersion = 1
    MaxBackupCrashes = 0
PROPERTY
    RestoreBringsBack
CHECK_DEADLOCK FALSE
