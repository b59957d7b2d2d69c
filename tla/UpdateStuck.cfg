SPECIFICATION FairUpdateSpec
CONSTANTS
    Updaters = {u1}
    Checks = {b}
    BootCheck = b
    Nobody = Nobody
    MaxVersion = 1
    MaxCrashes = 0
PROPERTY
    FailedUpdateUnstuck
CHECK_DEADLOCK FALSE
