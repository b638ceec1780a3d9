\* Two rules, any failure of any operation.
CONSTANTS
    Rule = {r1, r2}
    Cron = {c1, c2}
    r1 = r1
    r2 = r2
    c1 = c1
    c2 = c2
    Given <- MCGiven
    Off = Off
    None = None
    Timeout = 1
SPECIFICATION FairSpec
INVARIANTS
    NoStaleJob
    SuccessMeansScheduled
PROPERTIES
    JobsConverge
    DeadWorkerIsNoticed
    FailingWorkerIsNoticed
