CONSTANTS
    Bytes = {0, 1}
    Zero = 0
    kCheapPrepend = 2
    kInitialSize = 3
    MaxSize = 7
    MaxLen = 3
SPECIFICATION Spec
INVARIANTS
    IndicesInOrder
    SpaceIsMade
PROPERTIES
    IsFifo
