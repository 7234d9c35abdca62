SPECIFICATION MCSpec
CONSTANTS
    Tables = {t1}
    Functions = {f1}
    Grantees = {g1}
    TablePrivs = {"select", "insert"}
    StmtSets <- MCSets
    Scopes <- MCScopes
    MaxDbid = 6
    Programs <- MCPrograms
    Operands <- MCOperands
    Texts <- MCTexts
    Inputs <- MCInputs
    Base = 4
    ShortScale = 1
    Half16 = 8
    Half32 = 128
    Half64 = 32768
    Workers = {w1, w2}
    MaxRows = 2
INVARIANTS
    AccessIsRecorded
    
    NobodyLockedOut
    
    HandlersMatchNesting
    
    
    SumExact
CHECK_DEADLOCK FALSE
