CONSTANTS
    Events = {e1, e2, r1}
    HookEvents = {e1, e2}
    Repeated = {r1}
    Intervals = {1, 2}
    MaxTime = 3
    Off = Off
    Coroutines = {c1, c2}
    ConnectTimeout = 2
    Nobody = Nobody
SPECIFICATION HSpec
INVARIANTS
    EventsConserved
    PendingSorted
    DeletedStaysDeleted
    FrameAlive
    TimerArmed
PROPERTIES
    NotWokenEarly
    SleepersWake
CHECK_DEADLOCK FALSE
