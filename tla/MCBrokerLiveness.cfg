\* Two connections for one slot, two requests on each, a signal that may
\* arrive at any time.
SPECIFICATION Spec
CONSTANTS
    None = None
    Unusable = Unusable
    NoCeiling = NoCeiling
    a1 = a1
    t1 = t1
    t2 = t2
    t3 = t3
    r1 = r1
    c1 = c1
    c2 = c2
    Agents <- MCAgents
    Days <- MCOneDay
    Conns <- MCConns
    Frames <- MCOneFrame
    Tokens <- MCTokens
    Refs <- MCRefs
    Manifests <- MCOneManifest
    HostVector <- MCVector
    Lines <- MCLines
    MaxConnections = 1
    MaxRequests = 2
    MaxGatewayCalls = 1
INVARIANTS
    SlotsMatch
PROPERTIES
    SlotsComeBack
    StopsInTime
CHECK_DEADLOCK FALSE
