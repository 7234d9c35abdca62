SPECIFICATION Spec
CONSTANTS
    Options <- TransactionSessions
    ErrorIds <- Names
    MaxFrames = 2
    MaxBlocks = 1
    MaxTran = 2
    MaxLevels = 3
INVARIANTS
    WholeOrDoomed
PROPERTIES
    UserSavepointsKept
    FailureLeavesNoTran
    KeepsPromise
