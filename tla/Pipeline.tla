------------------------------ MODULE Pipeline ------------------------------
(***************************************************************************)
(* The state the workers of one run share: the operational index, the      *)
(* evidence directories, the bounded channels between the workers and the  *)
(* tasks each worker has in flight.  The workers' own steps are in         *)
(* TriageWorker, CaptureWorker and DiffWorker; Runtime composes them.      *)
(***************************************************************************)
EXTENDS Naturals, Sequences, FiniteSets, ReleaseIndex

CONSTANTS
    Releases,            \* event_ids; an event_id also names its directories
    Feed,                \* the events the sources may send
    QueueCapacity,       \* capacity of the triage, capture and diff channels
    TriageConcurrency,
    CaptureConcurrency,
    DiffConcurrency,
    AuditEnabled,        \* dropped_audit_interval is set (the default)
    MaxObservations,     \* bound of the model: times one release is observed
    MaxSweeps            \* bound of the model: directories the sweeper prunes

\* `graph`: the evidence the local graph held when the event was dispatched.
Event == [release : Releases, tier : Tiers, graph : BOOLEAN]

ASSUME PipelineAssumption ==
    /\ Feed \subseteq Event
    /\ QueueCapacity \in Nat \ {0}
    /\ TriageConcurrency \in Nat \ {0}
    /\ CaptureConcurrency \in Nat \ {0}
    /\ DiffConcurrency \in Nat \ {0}
    /\ AuditEnabled \in BOOLEAN
    /\ MaxObservations \in Nat
    /\ MaxSweeps \in Nat

VARIABLES
    index,           \* release_index: a row, or NoRow, for each release
    final, staging,  \* what captures/<...> and staging/<event_id> hold
    hand,            \* the event the main loop is dispatching, if any
    triage_queue, capture_queue, diff_queue,
    triages,         \* triage tasks in flight, by request id
    captures, posts, \* the capture worker's two JoinSets
    diffs,           \* diff tasks in flight
    audit_hand,      \* skipped releases the audit is about to enqueue
    audited,         \* its recently_seen map
    intake,          \* "open" until the sources have ended
    up,              \* the tasks of lib.rs that are still running
    observations,    \* times each release was observed
    next_id,
    abandoned,       \* releases whose triage ended in an error
    sweeps

evidence == <<index, final, staging>>
channels == <<hand, triage_queue, capture_queue, diff_queue>>
inflight == <<triages, captures, posts, diffs>>
auditing == <<audit_hand, audited>>
control  == <<intake, up>>
counters == <<observations, next_id, abandoned, sweeps>>
vars == <<evidence, channels, inflight, auditing, control, counters>>

-----------------------------------------------------------------------------
\* A directory is the set of the files it holds and "dir" itself; "scan"
\* stands for the content_risk verdict inside capture.json.
Files == {"dir", "capture", "scan", "bundle", "diff"}

TriageRequest  == [id : Nat, event : Event, notify_diff : BOOLEAN]
CaptureRequest == [id : Nat, event : Event, notify_diff : BOOLEAN,
                   retention : {"permanent", "ephemeral"}]
DiffRequest    == [id : Nat, event : Event, forced : BOOLEAN]

\* CaptureRequest::observed and CaptureRequest::triaged.
Observed(id, event, notify) ==
    [id |-> id, event |-> event, notify_diff |-> notify, retention |-> "permanent"]

Triaged(id, event, notify) ==
    [id |-> id, event |-> event, notify_diff |-> notify, retention |-> "ephemeral"]

HasRoom(queue) == Len(queue) < QueueCapacity

\* JoinSets, as functions from request ids to tasks.
Spawn(set, id, task) ==
    [i \in DOMAIN set \cup {id} |-> IF i = id THEN task ELSE set[i]]

Reap(set, id) == [i \in DOMAIN set \ {id} |-> set[i]]

Size(set) == Cardinality(DOMAIN set)

At(set, id, pc) == id \in DOMAIN set /\ set[id].pc = pc

\* A write to the index: the row of one release changes.
Write(release, row) == index' = [index EXCEPT ![release] = row]

=============================================================================
