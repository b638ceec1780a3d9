\* Ids come back when a batch takes the last rows, also under an export.
CONSTANTS
    Retention = 1
    MaxRun = 1
    CleanupBatch = 1
    ExportBatch = 1
    MaxMails = 2
    MaxId = 2
    MaxClock = 4
SPECIFICATION FairSpec
INVARIANTS
    KeptWhole
    EachRowOnce
    StableUnlessCleaned
PROPERTIES
    OnlyExpiredGo
    ExportEnds
