\* One rule with suppression, in either send mode; executions never overlap.
CONSTANTS
    Executor = {e1, e2}
    Rule = {r1}
    Key = {k1}
    Blank = Blank
    None = None
    SuppressingRules = {r1}
    Window = 1
    MaxAttempts = 2
    MaxRows = 2
    MaxClock = 2
    Overrun = FALSE
SPECIFICATION FairSpec
\* Once its rules are archived and the clock has run out, nothing is left to do.
CHECK_DEADLOCK FALSE
INVARIANTS
    LoggedMailsAreTheMailsTaken
    NoKeyMailedTwiceInACall
    SuppressionIsLogged
PROPERTIES
    LastSeenNeverGoesBack
    NoRepeatAfterSuccess
    ArchivedRuleFallsSilent
