SPECIFICATION Spec
CONSTANTS
    Threads = {t1, t2}
    Accounts = {a1}
    Tokens = {k1}
    ConfigTokens = {k1}
    MaxTotal = 2
    NoToken = NoToken
    NoRow = NoRow
SYMMETRY Symmetry
PROPERTIES
    CountersGrow
