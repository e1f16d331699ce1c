CONSTANTS
    Clients = {c1}
    Tasks = {t1, t2, t3}
    Fds = {timer}
    TimerFd = timer
    Masks = { {"IN"} }
    None = None
    MaxDel = 0
    MaxVector = 2
    MaxEvents = 1
SPECIFICATION FairSpec
INVARIANTS
    TasksExactlyOnce
PROPERTIES
    IsMailbox
    TasksAreServed
    StopEnds
