CONSTANTS
    Executor = {e1, e2}
    Rule = {r1}
    Token = {t1, t2, t3, t4}
    None = None
    Lease = 3
    MaxWait = 1
    MaxRun = 1
    MaxClock = 4
SPECIFICATION FairSpec
INVARIANTS
    NoLeakedLease
PROPERTIES
    LeaseEndsByOwnerOrExpiry
    ImplementsRuleMutex
    AbandonedRuleRunsAgain
