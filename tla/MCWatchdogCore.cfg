SPECIFICATION Spec
CONSTANTS
    h1 = h1
    h2 = h2
    t1 = t1
    t2 = t2
    l1 = l1
    l2 = l2
    b1 = b1
    b2 = b2
    Blank = Blank
    None = None
    Hosts <- MCHosts
    HostId = h1
    Txs <- MCTxs
    Leases <- MCLeases
    Bases <- MCBases
    MaxEpoch = 2
    LEASE_WINDOW = 2
    SizeOf <- MCSizeOf
    MAX_RECORD_BYTES = 3
    Clocks <- MCClocks
    Deadlines <- MCDeadlines
    Invariants <- MCInvariants
    BASE_MANDATORY_INVARIANTS <- MCBase
    Floors <- MCFloors
SYMMETRY MCSymmetry
INVARIANTS
    TypeOK
    LogAccepted
    MemoryMatchesLog
    SingleAuthority
    EpochMatchesLog
    BoundEpochIsNext
PROPERTIES
    EpochMonotone
    SafeModeIsFinal
    DecisionInWindow
    ImplementsAuthority
CHECK_DEADLOCK FALSE
