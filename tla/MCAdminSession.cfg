\* One browser and the command line, two of their calls under way at once.
CONSTANTS
    Browser = {b1}
    Request = {q1, q2}
    None = None
    MaxAge = 3
    IdleTimeout = 2
    MaxChanges = 3
    MaxClock = 3
SPECIFICATION Spec
SYMMETRY Symmetry
INVARIANTS
    OldSessionsEnd
PROPERTIES
    ChangeKeepsOwnSession
    SessionsAge
    IdleSessionsEnd
