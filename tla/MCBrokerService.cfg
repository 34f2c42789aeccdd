\* Two concurrent connections with one request each, among them up to two
\* calls of the gateway; an agent with one call a day, and two days.
SPECIFICATION Spec
CONSTANTS
    None = None
    Unusable = Unusable
    NoCeiling = NoCeiling
    a1 = a1
    t1 = t1
    t2 = t2
    t3 = t3
    r1 = r1
    c1 = c1
    c2 = c2
    Agents <- MCAgents
    Days <- MCDays
    Conns <- MCConns
    Frames <- MCFrames
    Tokens <- MCTokens
    Refs <- MCRefs
    Manifests <- MCManifests
    HostVector <- MCVector
    Lines <- MCLines
    MaxConnections = 2
    MaxRequests = 1
    MaxGatewayCalls = 2
INVARIANTS
    TypeOK
    BudgetKept
    RefusedCallsAreFree
    RunAsJudged
    AnswerIsMine
SYMMETRY MCSymmetry
CHECK_DEADLOCK FALSE
