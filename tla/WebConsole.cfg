SPECIFICATION Spec
CONSTANTS
    Requests = {q1, q2}
    Tokens = {t1, t2}
    NoToken = NoToken
    Ttl = 2
    CookieLife = 2
    MaxTime = 3
    Agents = {g1, g2}
    NoAgent = NoAgent
    Models = {m1, m2}
    NoModel = NoModel
    Sources <- Files
    Fallback <- WrittenDown
    MaxVersion = 2
    g1 = g1
    g2 = g2
    m1 = m1
    m2 = m2
SYMMETRY Symmetry
INVARIANTS
    AliveIsHeld
    
    MapsAgree
    ListedIsSupported
PROPERTY
    LogoutIsFinal
CHECK_DEADLOCK FALSE
