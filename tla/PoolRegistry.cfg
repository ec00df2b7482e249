SPECIFICATION Spec
CONSTANTS
    Accounts = {a1, a2, a3}
    Priority <- Level
    Weight <- Weights
    Label <- Labels
    Pools = {p1, p2}
    Runs = {r1, r2}
    Requests = {q1}
    NoAccount = NoAccount
    NoPool = NoPool
    NoRun = NoRun
    SeedCount = 4
    a1 = a1
    a2 = a2
    a3 = a3
SYMMETRY Symmetry
INVARIANTS
    LetGoEmpty
    RetiredNotListed
    
    OrderCoversAll
    RoundIsFair
CHECK_DEADLOCK FALSE
