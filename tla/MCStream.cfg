CONSTANTS
    Bytes <- Positions
    Zero = 0
    kCheapPrepend = 1
    Registered <- Calls
    Peers <- ThePeers
SPECIFICATION Spec
INVARIANTS
    ReadsIntoEmptyBuffer
    ResponsesWhole
    ParsedAsSent
    PiecesUnderstood
CHECK_DEADLOCK FALSE
