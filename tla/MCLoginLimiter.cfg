\* More keys than the table holds, and two requests that may meet at a gate.
CONSTANTS
    Thread = {t1, t2}
    Key = {k1, k2, k3}
    Obj = {o1, o2, o3}
    None = None
    MaxFailures = 2
    Window = 2
    Lockout = 1
    MaxStates = 2
    Interval = 1
    Batch = 1
SPECIFICATION FairSpec
INVARIANTS
    TypeOK
    HeldStateIsKept
    OneAttemptPerKey
PROPERTIES
    ImplementsLoginPolicy
    StaleStatesGo
