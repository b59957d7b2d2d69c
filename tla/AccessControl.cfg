SPECIFICATION Spec
CONSTANTS
    Users = {u1, u2}
    Projects = {p1}
    Databases = {d1}
    Requests = {r1, r2}
    None = None
    Unassigned = Unassigned
INVARIANTS
    OneAdmin
    AdminRemains
    ReferencesResolve
CHECK_DEADLOCK FALSE
