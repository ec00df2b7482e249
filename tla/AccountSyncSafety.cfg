SPECIFICATION Spec
CONSTANTS
    Threads = {t1, t2}
    Accounts = {a1, a2}
    Tokens = {k1, k2}
    ConfigTokens = {k1, k2}
    MaxTotal = 1
    NoToken = NoToken
    NoRow = NoRow
SYMMETRY Symmetry
INVARIANTS
    PoolsFollowRows
PROPERTIES
    DeletedStaysDeleted
