SPECIFICATION Spec
CONSTANTS
    Schemas <- Tools
    Arguments <- Values
    MaxDepth = 12
    Runs = {r1}
    Instances = {i1, i2}
    NoInstance = NoInstance
    ClientInstance = ClientInstance
    MapTo <- normalizeSchemaMap
    PartsOf <- Parts
    AllowedBy <- Allows
    HeirsOf <- KeysFor
INVARIANTS
    NoNullLeft
    NoDanglingReference
    
    NothingKept
CHECK_DEADLOCK FALSE
