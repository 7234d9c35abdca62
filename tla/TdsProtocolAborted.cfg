SPECIFICATION Spec
CONSTANTS
    Messages <- Flawed
    MaxRequests = 3
    Resetting = FALSE
    Timeouts = FALSE
INVARIANTS
    NoAbortedBlock
CHECK_DEADLOCK FALSE
