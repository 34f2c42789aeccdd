SPECIFICATION Spec
CONSTANTS
    t1 = t1
    t2 = t2
    a1 = a1
    d1 = d1
    k1 = k1
    k2 = k2
    c1 = c1
    b1 = b1
    b2 = b2
    None = None
    Txs <- MCTxs
    Agents <- MCAgents
    Digests <- MCDigests
    Keys <- MCKeys
    Changes <- MCChanges
    Bases <- MCBases
    MaxSeq = 3
    LastStates <- MCAnyState
    StorageFails = TRUE
SYMMETRY MCSymmetry
INVARIANTS
    AnswersDurable
CHECK_DEADLOCK FALSE
