\* Three connections, two addresses: either limit can be the one that refuses.
\* Two pooled connections, four handlers that nest: the pool can come to a standstill.
SPECIFICATION ProcessSpec
CONSTANTS
    Conns = {c1, c2, c3}
    IPs = {ip1, ip2}
    None = None
    MaxConnections = 2
    MaxConnectionsIP = 1
    Listers = {l1, l2}
    Rotators = {k1, k2}
    Others = {}
    MaxOpen = 2
    NoOne = NoOne
INVARIANTS
    BooksAgree
    HeldUpOnlyByNesting
PROPERTIES
    RefusedOnlyWhenFull
    AcceptorReturns
    ImplementsAdmission
    RequestsEnd
\* At the standstill nothing moves any more.
CHECK_DEADLOCK FALSE
