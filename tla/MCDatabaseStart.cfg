\* Every small old database; two threads of the web process and the worker
\* start; then two requests at once.
CONSTANTS
    Admin = {a1, a2}
    MaxConfigs = 2
    Old = {1, 2}
    Web = {w1, w2}
    Tool = {worker}
    Table = {"alertrule"}
    Pair = {k1, k2}
    None = None
    MaxRows = 3
SPECIFICATION StartSpec
SYMMETRY Symmetry
INVARIANTS
    AtMostOneEnabled
PROPERTIES
    QuietSaveDecides
    StartsKeepLatest
    StartsAreAtomic
    NoKeyForgotten
    ImplementsSmtpSettings
