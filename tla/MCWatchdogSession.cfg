\* Two clients, up to two sessions before clients stop connecting, three
\* requests, two kinds of decision.
SPECIFICATION Spec
CONSTANTS
    None = None
    c1 = c1
    c2 = c2
    t1 = t1
    t2 = t2
    l1 = l1
    l2 = l2
    Clients <- MCClients
    Binds <- MCBinds
    Kinds <- MCKinds
    MAX_TAG = 2
    MaxSessions = 2
    MaxRequests = 3
INVARIANTS
    TypeOK
    HandledOnce
    OneBindingPerProcess
    AckedSurvives
PROPERTIES
    ServeEnds
CHECK_DEADLOCK FALSE
