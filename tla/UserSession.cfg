SPECIFICATION SessionSpec
CONSTANTS
    Users = {u1, u2}
    None = None
    Failed = Failed
    MaxNet = 3
    MaxHash = 1
CHECK_DEADLOCK FALSE
INVARIANTS
    SignedInTogether
    SessionAgrees
PROPERTIES
    LoadingEnds VisitorLeaves OverlayEnds
