CONSTANTS
    Conns = {k1, k2}
    Fds = {f1, f2}
    Buckets = 2
    MaxTasks = 2
    None = None
SPECIFICATION FairSpec
INVARIANTS
    UsesOwnSocket
    ShutdownHitsOwn
    SocketHasConnection
    IdleIsWatched
PROPERTIES
    TimedOutEnds
    IsIdleTimer
