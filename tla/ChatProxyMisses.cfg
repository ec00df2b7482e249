SPECIFICATION Spec
CONSTANTS
    Requests = {r1}
    Pools = {p1, p2}
    Priority <- OneGroup
    NoPool = NoPool
    p1 = p1
    p2 = p2
    p3 = p3
INVARIANTS
    NoneAvailable
