SPECIFICATION Spec
CONSTANTS
    Requests = {a1, a2}
    Rebuilders = {b1, b2}
    Prewarmer = Prewarmer
    InstanceOf <- SameInstance
    NoSession = NoSession
    Disabled = Disabled
    Failed = Failed
    NoThread = NoThread
    g1 = g1
    g2 = g2
    i1 = i1
SYMMETRY Symmetry
INVARIANTS
    SingleFlight
    WaitersOnFlight
    RefreshOnlyWhenNeeded
    OneRebuild
    Watched
CHECK_DEADLOCK FALSE
