CONSTANTS
    Users = {a, k1, k2, k3, u1}
    Connections = {a, k1, k2, k3}
    AcceptCor = a
    PoolSize = 2
    MaxMemory = 2
    None = None
    Size = 2
    Null = Null
SPECIFICATION ASpec
INVARIANTS
    SlotExclusive
    MarkedIffHeld
    OwnReactor
PROPERTIES
    ClientsServed
    JoinReturns
CHECK_DEADLOCK FALSE
