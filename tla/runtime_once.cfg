SPECIFICATION Spec
CONSTANTS
    r1 = r1
    r2 = r2
    Releases = {r1, r2}
    Feed <- HighAndOther
    QueueCapacity = 1
    TriageConcurrency = 1
    CaptureConcurrency = 1
    DiffConcurrency = 1
    AuditEnabled = TRUE
    MaxObservations = 1
    MaxSweeps = 1
INVARIANTS ReadyHasEvidence DroppedLeavesNothing KeptIsAnalysed DiffFollowsCapture
PROPERTY DroppedStaysDropped
\* With the audit on, the run ends waiting for it: see runtime_shutdown_audit.
CHECK_DEADLOCK FALSE
