----------------------------- MODULE DiffWorker -----------------------------
(***************************************************************************)
(* The diff worker (autodiff.rs): one task per request, at most            *)
(* DiffConcurrency of them at a time.                                      *)
(***************************************************************************)
EXTENDS Pipeline

DiffEvent(id) == diffs[id].request.event

DiffRelease(id) == DiffEvent(id).release

GoDiff(id, pc) == diffs' = [diffs EXCEPT ![id].pc = pc]

OnlyDiff ==
    UNCHANGED <<staging, hand, triage_queue, capture_queue, triages, captures,
                posts, auditing, control, counters>>

ReceiveDiff ==
    /\ diff_queue # <<>>
    /\ Size(diffs) < DiffConcurrency
    /\ LET request == Head(diff_queue)
       IN  diffs' = Spawn(diffs, request.id, [request |-> request, scanned |-> FALSE, pc |-> "policy"])
    /\ diff_queue' = Tail(diff_queue)
    /\ OnlyDiff
    /\ UNCHANGED <<index, final>>

\* The event's own tier decides, or a forced request; the graph does not.
CheckPolicy(id) ==
    /\ At(diffs, id, "policy")
    /\ GoDiff(id, IF DiffRequested(DiffEvent(id).tier) \/ diffs[id].request.forced
                  THEN "prepare" ELSE "skip")
    /\ OnlyDiff
    /\ UNCHANGED <<index, final, diff_queue>>

SkipDiff(id) ==
    /\ At(diffs, id, "skip")
    /\ Write(DiffRelease(id), MarkDiffSkipped(index[DiffRelease(id)]))
    /\ diffs' = Reap(diffs, id)
    /\ OnlyDiff
    /\ UNCHANGED <<final, diff_queue>>

\* Create the directory; an existing diff.json ends the task, save one
\* without a baseline when lineage backfill is on.
PrepareDiff(id) ==
    /\ At(diffs, id, "prepare")
    /\ final' = [final EXCEPT ![DiffRelease(id)] = @ \cup {"dir"}]
    /\ \/ GoDiff(id, "build")
       \/ "diff" \in final[DiffRelease(id)] /\ diffs' = Reap(diffs, id)
    /\ OnlyDiff
    /\ UNCHANGED <<index, diff_queue>>

BuildDiff(id) ==
    /\ At(diffs, id, "build")
    /\ \E pc \in {"load", "write"} : GoDiff(id, pc)
    /\ OnlyDiff
    /\ UNCHANGED <<index, final, diff_queue>>

\* reconcile_crate_commit_provenance, for a crate whose repository looked
\* suspicious: load capture.json, ask upstream, then put the corrected copy
\* back and record it.
LoadCapture(id) ==
    /\ At(diffs, id, "load")
    /\ "capture" \in final[DiffRelease(id)]
    /\ \E pc \in {"rewrite", "write"} :
           diffs' = [diffs EXCEPT ![id].scanned = "scan" \in final[DiffRelease(id)],
                                  ![id].pc = pc]
    /\ OnlyDiff
    /\ UNCHANGED <<index, final, diff_queue>>

RewriteCapture(id) ==
    /\ At(diffs, id, "rewrite")
    /\ "dir" \in final[DiffRelease(id)]
    /\ final' = [final EXCEPT ![DiffRelease(id)] =
           (@ \ {"scan"}) \cup {"capture"} \cup IF diffs[id].scanned THEN {"scan"} ELSE {}]
    /\ GoDiff(id, "rerecord")
    /\ OnlyDiff
    /\ UNCHANGED <<index, diff_queue>>

RecordRewritten(id) ==
    /\ At(diffs, id, "rerecord")
    /\ LET r == DiffRelease(id)
       IN  Write(r, RecordCapture(index[r], "observed", DiffEvent(id).tier))
    /\ GoDiff(id, "write")
    /\ OnlyDiff
    /\ UNCHANGED <<final, diff_queue>>

WriteDiff(id) ==
    /\ At(diffs, id, "write")
    /\ "dir" \in final[DiffRelease(id)]
    /\ final' = [final EXCEPT ![DiffRelease(id)] = @ \cup {"diff"}]
    /\ GoDiff(id, "record")
    /\ OnlyDiff
    /\ UNCHANGED <<index, diff_queue>>

\* A build, a lookup upstream or a write failed, or a file is gone.
DiffFails(id) ==
    /\ \E pc \in {"prepare", "build", "load", "rewrite", "write"} : At(diffs, id, pc)
    /\ GoDiff(id, "failed")
    /\ OnlyDiff
    /\ UNCHANGED <<index, final, diff_queue>>

RecordBuiltDiff(id) ==
    /\ At(diffs, id, "record")
    /\ LET r == DiffRelease(id)
       IN  Write(r, RecordDiff(index[r], "observed", DiffEvent(id).tier))
    /\ GoDiff(id, "bundle")
    /\ OnlyDiff
    /\ UNCHANGED <<final, diff_queue>>

\* The bundle is rewritten with the diff; a failure is only logged.
RewriteBundle(id) ==
    /\ At(diffs, id, "bundle")
    /\ \/ final' = [final EXCEPT ![DiffRelease(id)] = @ \cup {"dir", "bundle"}]
       \/ UNCHANGED final
    /\ diffs' = Reap(diffs, id)
    /\ OnlyDiff
    /\ UNCHANGED <<index, diff_queue>>

MarkBuildFailed(id) ==
    /\ At(diffs, id, "failed")
    /\ Write(DiffRelease(id), MarkDiffFailed(index[DiffRelease(id)]))
    /\ diffs' = Reap(diffs, id)
    /\ OnlyDiff
    /\ UNCHANGED <<final, diff_queue>>

DiffStep ==
    \/ ReceiveDiff
    \/ \E id \in DOMAIN diffs :
           \/ CheckPolicy(id) \/ SkipDiff(id) \/ PrepareDiff(id) \/ BuildDiff(id)
           \/ LoadCapture(id) \/ RewriteCapture(id) \/ RecordRewritten(id)
           \/ WriteDiff(id) \/ DiffFails(id) \/ RecordBuiltDiff(id)
           \/ RewriteBundle(id) \/ MarkBuildFailed(id)

=============================================================================
