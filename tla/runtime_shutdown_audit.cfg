SPECIFICATION FairSpec
CONSTANTS
    r1 = r1
    r2 = r2
    Releases = {r1, r2}
    Feed <- HighAndMedium
    QueueCapacity = 1
    TriageConcurrency = 1
    CaptureConcurrency = 1
    DiffConcurrency = 1
    AuditEnabled = TRUE
    MaxObservations = 1
    MaxSweeps = 0
PROPERTY ShutdownCompletes
\* The counterexample is a run that stops for good.
CHECK_DEADLOCK FALSE
