SPECIFICATION MCSpec
CONSTANTS
    Messages <- AllMessages
    MaxRequests = 4
    Resetting = TRUE
    Timeouts = TRUE
    HeaderSize = 2
    BufferSize = 4
    Requests = {"query", "bulk"}
    FirstSizes = {2, 3}
    MoreSizes = {1, 2}
    ResetBits = {TRUE, FALSE}
    Interrupted = {"bulk"}
    MaxSent = 4
    InitSize = 6
    Granule = 2
    MinSize = 4
    MaxSize = 9
    Peers <- MCPeers
    Cuts <- MCCuts
    Lengths = {1, 4, 9}
    Writes = {1, 3, 7}
    MaxBytes = 7
INVARIANTS
    ServesInTurn
    ServedAfterReset
    BufferSound
    MessagesArrive
    HandshakeInOrder
PROPERTIES
    Answered
    
    
