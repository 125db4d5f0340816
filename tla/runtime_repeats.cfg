SPECIFICATION FairSpec
CONSTANTS
    r1 = r1
    r2 = r2
    Releases = {r1}
    Feed <- OneRelease
    QueueCapacity = 1
    TriageConcurrency = 2
    CaptureConcurrency = 2
    DiffConcurrency = 1
    AuditEnabled = FALSE
    MaxObservations = 2
    MaxSweeps = 0
INVARIANTS CapturesResolved DiffsResolved
PROPERTY ShutdownCompletes
CHECK_DEADLOCK TRUE
