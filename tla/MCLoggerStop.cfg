CONSTANTS
    Msgs = {m1}
    MaxSize = 1
    MaxDay = 1
    NoFile = NoFile
SPECIFICATION FairSpec
PROPERTIES
    StopReturns
CHECK_DEADLOCK FALSE
