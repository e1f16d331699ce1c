CONSTANTS
    Clients = {c1, c2}
    Tasks = {t1}
    Fds = {timer, f1}
    TimerFd = timer
    Masks = { {"IN"}, {"OUT"} }
    None = None
    MaxDel = 1
    MaxVector = 0
    MaxEvents = 2
SPECIFICATION Spec
SYMMETRY Symmetry
INVARIANTS
    NoLostWakeup
    RegisteredAsAsked
