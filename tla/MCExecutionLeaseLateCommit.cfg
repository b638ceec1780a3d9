\* Every run is shorter than the lease, but the upsert may wait.
CONSTANTS
    Executor = {e1, e2}
    Rule = {r1}
    Token = {t1, t2, t3, t4}
    None = None
    Lease = 3
    MaxWait = 1
    MaxRun = 2
    MaxClock = 8
SPECIFICATION Spec
SYMMETRY Symmetry
INVARIANTS
    MutualExclusion
