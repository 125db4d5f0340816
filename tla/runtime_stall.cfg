SPECIFICATION FairSpec
CONSTANTS
    r1 = r1
    r2 = r2
    Releases = {r1, r2}
    Feed <- HighAndMedium
    QueueCapacity = 1
    TriageConcurrency = 2
    CaptureConcurrency = 2
    DiffConcurrency = 1
    AuditEnabled = FALSE
    MaxObservations = 1
    MaxSweeps = 0
PROPERTY CaptureIsAnalysed
