------------------------------ MODULE Runtime -------------------------------
(***************************************************************************)
(* One run of the service (lib.rs): the main loop dispatches observed      *)
(* releases to the workers and, when the sources end, stops them in the    *)
(* order of their channels.                                                *)
(***************************************************************************)
EXTENDS TriageWorker, CaptureWorker, DiffWorker

\* The audit loop ends at once when it has no interval.
Workers == {"main", "triage", "capture", "diff"} \cup
           (IF AuditEnabled THEN {"audit"} ELSE {})

Init ==
    /\ index = [r \in Releases |-> NoRow]
    /\ final = [r \in Releases |-> {}]
    /\ staging = [r \in Releases |-> {}]
    /\ hand = <<>>
    /\ triage_queue = <<>> /\ capture_queue = <<>> /\ diff_queue = <<>>
    /\ triages = <<>> /\ captures = <<>> /\ posts = <<>> /\ diffs = <<>>
    /\ audit_hand = {} /\ audited = {}
    /\ intake = "open"
    /\ up = Workers
    /\ observations = [r \in Releases |-> 0]
    /\ next_id = 1
    /\ abandoned = {}
    /\ sweeps = 0

-----------------------------------------------------------------------------
(* The main loop.                                                          *)

\* A source sends a release: ledger append, then record_event.
Observe(event) ==
    LET r == event.release
    IN  /\ intake = "open"
        /\ hand = <<>>
        /\ observations[r] < MaxObservations
        /\ observations' = [observations EXCEPT ![r] = @ + 1]
        /\ Write(r, UpsertEventRow(index[r], "observed", event.tier))
        /\ hand' = <<event>>
        /\ UNCHANGED <<final, staging, triage_queue, capture_queue, diff_queue,
                       inflight, auditing, control, next_id, abandoned, sweeps>>

\* High goes to the capture worker, the rest through triage.
Dispatch ==
    /\ hand # <<>>
    /\ LET event  == Head(hand)
           notify == DiffRequestedWithGraph(event.tier, event.graph)
       IN  IF event.tier = "high"
           THEN /\ HasRoom(capture_queue)
                /\ capture_queue' = Append(capture_queue, Observed(next_id, event, notify))
                /\ UNCHANGED triage_queue
           ELSE /\ HasRoom(triage_queue)
                /\ triage_queue' = Append(triage_queue,
                       [id |-> next_id, event |-> event, notify_diff |-> notify])
                /\ UNCHANGED capture_queue
    /\ hand' = <<>>
    /\ next_id' = next_id + 1
    /\ UNCHANGED <<evidence, diff_queue, inflight, auditing, control,
                   observations, abandoned, sweeps>>

\* Ctrl-c, or every source has finished its one cycle.
CloseIntake ==
    /\ intake = "open"
    /\ intake' = "closed"
    /\ UNCHANGED <<evidence, channels, inflight, auditing, up, counters>>

-----------------------------------------------------------------------------
(* Shutdown: main drops triage_tx and waits for triage, drops capture_tx   *)
(* and waits for capture, drops diff_tx and waits for diff, and only then  *)
(* cancels the audit loop, which holds a capture_tx of its own.  "main" in *)
(* `up` stands for main's capture_tx.                                      *)

Stop(worker) ==
    /\ up' = up \ {worker}
    /\ UNCHANGED <<evidence, channels, inflight, auditing, intake, counters>>

TriageDrained ==
    intake = "closed" /\ hand = <<>> /\ triage_queue = <<>> /\ triages = <<>>

\* Mutants: the analyses, the diffs in flight are not waited for; main keeps
\* its capture_tx until the capture worker has stopped.
FetchesDrained == Finishing /\ captures = <<>>

CaptureDrained == Finishing /\ captures = <<>> /\ posts = <<>>

DiffQueueDrained == "capture" \notin up /\ diff_queue = <<>>

DiffDrained == "capture" \notin up /\ diff_queue = <<>> /\ diffs = <<>>

AuditCancelled == "diff" \notin up /\ audit_hand = {}

MainWaitsForCapture(worker) ==
    CASE worker = "triage"  -> TriageDrained
      [] worker = "main"    -> "capture" \notin up
      [] worker = "capture" -> CaptureDrained
      [] worker = "diff"    -> DiffDrained
      [] worker = "audit"   -> AuditCancelled

MayStop(worker) ==
    CASE worker = "triage"  -> TriageDrained
      [] worker = "main"    -> "triage" \notin up
      [] worker = "capture" -> CaptureDrained
      [] worker = "diff"    -> DiffDrained
      [] worker = "audit"   -> AuditCancelled

ShutdownStep == \E worker \in up : MayStop(worker) /\ Stop(worker)

\* Everything has stopped.
Stopped == up = {} /\ UNCHANGED vars

Next ==
    \/ \E event \in Feed : Observe(event)
    \/ Dispatch
    \/ CloseIntake
    \/ TriageStep
    \/ CaptureStep
    \/ DiffStep
    \/ AuditSelect
    \/ \E r \in Releases : AuditSend(r)
    \/ \E r \in Releases : Sweep(r)
    \/ ShutdownStep
    \/ Stopped

Spec == Init /\ [][Next]_vars

\* Tokio runs every ready task, and every request in flight ends: HTTP calls
\* have timeouts.  Nothing obliges a source to send, the user to interrupt,
\* the audit to find a candidate or the sweeper to find an old directory.
Fairness ==
    /\ WF_vars(Dispatch)
    /\ WF_vars(TriageStep)
    /\ WF_vars(CaptureStep)
    /\ WF_vars(DiffStep)
    /\ WF_vars(\E r \in Releases : AuditSend(r))
    /\ WF_vars(ShutdownStep)

FairSpec == Spec /\ Fairness

-----------------------------------------------------------------------------
(* Properties.                                                             *)

\* Every variable has its type.
TypeOK ==
    /\ index \in [Releases -> Row \cup {NoRow}]
    /\ final \in [Releases -> SUBSET Files]
    /\ staging \in [Releases -> SUBSET Files]
    /\ hand \in Seq(Event) /\ Len(hand) <= 1
    /\ triage_queue \in Seq(TriageRequest)
    /\ capture_queue \in Seq(CaptureRequest)
    /\ diff_queue \in Seq(DiffRequest)
    /\ \A id \in DOMAIN triages : triages[id].request \in TriageRequest
    /\ \A id \in DOMAIN captures : captures[id].request \in CaptureRequest
    /\ \A id \in DOMAIN posts : posts[id].request \in CaptureRequest
    /\ \A id \in DOMAIN diffs : diffs[id].request \in DiffRequest
    /\ audit_hand \subseteq audited /\ audited \subseteq Releases
    /\ intake \in {"open", "closed"}
    /\ up \subseteq {"main", "triage", "capture", "diff", "audit"}
    /\ observations \in [Releases -> 0..MaxObservations]
    /\ next_id \in Nat
    /\ abandoned \subseteq Releases
    /\ sweeps \in 0..MaxSweeps

\* No receive loop holds more tasks than its limit, and the fetches and the
\* analyses of the capture worker are limited separately (capture.rs 216-251,
\* triage.rs 92-114, autodiff.rs 79-90).
InFlightBounded ==
    /\ Size(triages) <= TriageConcurrency
    /\ Size(captures) <= CaptureConcurrency
    /\ Size(posts) <= CaptureConcurrency
    /\ Size(diffs) <= DiffConcurrency

\* The capture worker still has work on a release.
Busy(r) ==
    \/ \E i \in DOMAIN capture_queue : capture_queue[i].event.release = r
    \/ \E id \in DOMAIN captures : captures[id].request.event.release = r
    \/ \E id \in DOMAIN posts : posts[id].request.event.release = r

\* A row says `ready` only of evidence that is on disk: the index never runs
\* ahead of the directories, through promotion, sweeping and failure.
ReadyHasEvidence ==
    \A r \in Releases :
        /\ index[r].capture = "ready" => "capture" \in final[r]
        /\ index[r].diff = "ready" => "diff" \in final[r]

\* A capture dropped for its low signal leaves neither staged nor retained
\* evidence behind (capture.rs 682-692).
DroppedLeavesNothing ==
    \A r \in Releases :
        index[r].capture_reason = "post_analysis" /\ ~Busy(r)
            => staging[r] = {} /\ "capture" \notin final[r]

\* Once the capture worker is done with a release, a ready capture has been
\* analysed and has left staging.
KeptIsAnalysed ==
    \A r \in Releases :
        index[r].capture = "ready" /\ ~Busy(r)
            => "scan" \in final[r] /\ staging[r] = {}

\* A release that triage or the analysis has dropped is never taken up again,
\* although the audit keeps looking for skipped releases (triage.rs 399-458,
\* store.rs 881-883).
DroppedStaysDropped ==
    [][\A r \in Releases :
         index[r].capture_reason \in {"triage", "post_analysis"}
             => index'[r].capture = "skipped"]_vars

\* The diff worker only ever meets releases whose capture is on disk: their
\* requests are sent last.
DiffFollowsCapture ==
    /\ \A i \in DOMAIN diff_queue : "capture" \in final[diff_queue[i].event.release]
    /\ \A id \in DOMAIN diffs : "capture" \in final[diffs[id].request.event.release]

\* When the capture worker has stopped, every observed release has a settled
\* capture job, save those whose metadata could not be fetched in triage.
CapturesResolved ==
    "capture" \notin up =>
        \A r \in Releases : index[r].capture = "pending" => r \in abandoned

\* When the diff worker has stopped, a diff is still pending only for a
\* release whose capture failed.
DiffsResolved ==
    "diff" \notin up =>
        \A r \in Releases : index[r].diff = "pending" => index[r].capture = "failed"

\* Once the sources have ended, every worker stops: no two of them wait for
\* each other's channel (lib.rs 272-326).
ShutdownCompletes == intake = "closed" ~> up = {}

\* A fetched capture is analysed, or its failure is recorded, without waiting
\* for another release or for the shutdown.
CaptureIsAnalysed ==
    \A r \in Releases :
        "capture" \in final[r] ~> ("scan" \in final[r] \/ index[r].capture = "failed")

=============================================================================
