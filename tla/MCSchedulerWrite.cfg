CONSTANTS
    Reactors = {r1}
    Conns = {c1}
    Nobody = Nobody
SPECIFICATION FairSpec
PROPERTIES
    WritersResumed
