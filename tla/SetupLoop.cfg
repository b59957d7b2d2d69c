SPECIFICATION SessionSpec
CONSTANTS
    Users = {u1}
    None = None
    Failed = Failed
    MaxNet = 2
    MaxHash = 0
CHECK_DEADLOCK FALSE
PROPERTY
    OnlySetupRegisters
