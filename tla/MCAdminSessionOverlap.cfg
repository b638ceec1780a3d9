\* A change of the password on the page, and another one beside it, by the page or the command line.
CONSTANTS
    Browser = {b1}
    Request = {q1, q2}
    None = None
    MaxAge = 3
    IdleTimeout = 2
    MaxChanges = 3
    MaxClock = 1
SPECIFICATION Spec
INVARIANTS
    OldSessionsAlwaysEnd
