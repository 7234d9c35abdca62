SPECIFICATION Spec
CONSTANTS
    Options <- NestedSessions
    ErrorIds <- Names
    MaxFrames = 3
    MaxBlocks = 1
    MaxTran = 1
    MaxLevels = 3
PROPERTIES
    CommitsAreClean
