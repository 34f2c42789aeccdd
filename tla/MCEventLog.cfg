SPECIFICATION Spec
CONSTANTS
    c1 = c1
    c2 = c2
    g1 = g1
    g2 = g2
    None = None
    Clients <- MCClients
    Logs <- MCLogs
    MaxEvents = 3
    StorageFails = TRUE
SYMMETRY MCSymmetry
INVARIANTS
    TypeOK
    LogNumbered
    NothingTwice
    OnlyWrittenDelivered
CHECK_DEADLOCK FALSE
