SPECIFICATION Spec
CONSTANTS
    c1 = c1
    c2 = c2
    g1 = g1
    g2 = g2
    None = None
    Clients <- MCClients
    Logs <- MCLogs
    MaxEvents = 3
    StorageFails = FALSE
SYMMETRY MCSymmetry
INVARIANTS
    NothingSkipped
CHECK_DEADLOCK FALSE
