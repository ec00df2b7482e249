SPECIFICATION Spec
CONSTANTS
    Attempts = {a1, a2}
    Agents = {g1}
    Prewarmed = {}
    Runs = {r1, r2, r3}
    NoRun = NoRun
    NoAgent = NoAgent
    Maintainer = Maintainer
    Prewarmer = Prewarmer
SYMMETRY Symmetry
INVARIANTS
    TypeOK
    InflightCountsLeases
    NoFinishUnderLease
    ActiveRunKept
    OneFinisher
    
PROPERTIES
    OneWay
CHECK_DEADLOCK FALSE
