SPECIFICATION FairSpec
CONSTANTS
    observer = observer
    importer = importer
    worker_task = worker_task
    r1 = r1
    r2 = r2
    Clients = {observer, importer, worker_task}
    Releases = {r1, r2}
    Commands <- SmallCommands
    BatchMax = 2
    MaxCalls = 3
    MaxCrashes = 1
INVARIANTS
    InOrder
    AcceptedOnce
    StopsEmptyHanded
PROPERTIES
    RowsOnlyAdvance
    CallsAnswered
    ImplementsAtomicStore
\* The thread ends when the last clone of the store is gone.
CHECK_DEADLOCK FALSE
