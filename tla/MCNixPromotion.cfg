\* Two threads, two candidates, one of them the installed system, one edit of /etc and any number of crashes.
SPECIFICATION Spec
CONSTANTS
    None = None
    c1 = c1
    c2 = c2
    k0 = k0
    k1 = k1
    Callers <- MCCallers
    Proposals <- MCProposals
    BaseSystem = k0
    MaxEdits = 1
SYMMETRY MCSymmetry
INVARIANTS
    TestedAtMostOnce
    CaptureIsFinal
    PromotedStaysPinned
