CONSTANTS
    Msgs = {m1, m2, m3}
    MaxSize = 0
    MaxDay = 2
    NoFile = NoFile
SPECIFICATION FairSpec

INVARIANTS
    MessagesConserved
    RotationInOrder
PROPERTIES
    MessagesReachFile
    IsLog
CHECK_DEADLOCK FALSE
