\* deployment.md:289: ready after at least one synchronization.
CONSTANTS
    r1 = r1
    r2 = r2
    c1 = c1
    c2 = c2
    Rule = {r1, r2}
    Cron = {c1, c2}
    Given <- MCGiven
    Off = Off
    None = None
    Timeout = 1
SPECIFICATION Spec
INVARIANTS
    ReadyMeansSynced
