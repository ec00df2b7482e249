SPECIFICATION FairSpec
CONSTANTS
    Requests = {a1}
    Rebuilders = {b1}
    Prewarmer = Prewarmer
    InstanceOf <- OneGrant
    NoSession = NoSession
    Disabled = Disabled
    Failed = Failed
    NoThread = NoThread
    g1 = g1
    g2 = g2
    i1 = i1
PROPERTIES
    ExpiredLeaves
    RebuildEnds
    WaitEnds
    KeepsSessionLife
CHECK_DEADLOCK FALSE
