SPECIFICATION FairSpec
CONSTANTS
    Attempts = {a1}
    Agents = {g1, g2}
    Prewarmed = {g1}
    Runs = {r1, r2}
    NoRun = NoRun
    NoAgent = NoAgent
    Maintainer = Maintainer
    Prewarmer = Prewarmer
PROPERTIES
    DrainingEnds
    RetiredLetGo
    KeepsRunLife
CHECK_DEADLOCK FALSE
