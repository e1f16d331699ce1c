CONSTANTS
    Reactors = {r1, r2}
    Conns = {c1, c2}
    Nobody = Nobody
SPECIFICATION FairSpec
INVARIANTS
    OneResume
    OneHome
    QueueNotStranded
PROPERTIES
    ResumedWithData
    ReadersResumed
