SPECIFICATION FairSpec
CONSTANTS
    Options <- ErrorSessions
    ErrorIds <- Names
    MaxFrames = 2
    MaxBlocks = 2
    MaxTran = 0
    MaxLevels = 1
INVARIANTS
    HandlerIsInnermostTry
    CatchSeesItsError
    ResponseWellFormed
PROPERTIES
    ErrorSettles
