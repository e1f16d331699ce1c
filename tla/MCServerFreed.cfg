CONSTANTS
    Conns = {k1, k2}
    Fds = {f1}
    Buckets = 2
    MaxTasks = 2
    None = None
SPECIFICATION Spec
INVARIANTS
    FreedAfterYield
