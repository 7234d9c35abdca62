SPECIFICATION MCSpec
CONSTANTS
    Keys = {k1, k2}
    Ops = {"insert", "delete", "update"}
    MaxXid = 4
    MaxCid = 3
    MaxTid = 4
    MaxLevel = 2
    MaxEnv = 2
    None = None
    NRows = 3
    Scopes <- MCScopes
    NHandles = 3
    Null = Null
    Texts = {"a", "b"}
    MaxHandle = 3
    MaxDocs = 5
    MaxTran = 2
    MaxFrames = 3
    MaxRows = 1
    MaxTables = 2
INVARIANTS
    ScanSound
    
    
    
    ContextMatchesStatement
PROPERTIES
    ImplementsContents
    InsertExecAtomic
SYMMETRY KeySymmetry
CHECK_DEADLOCK FALSE
