---------------------------- MODULE TriageWorker ----------------------------
(***************************************************************************)
(* The metadata triage worker and the dropped-capture audit (triage.rs).   *)
(* What metadata says of a release is a choice of the environment.         *)
(***************************************************************************)
EXTENDS Pipeline

\* Task steps: "check" reads the row, "decide" hydrates and decides, "send"
\* and "skip" carry the decision out.
TriageRelease(id) == triages[id].request.event.release

OnlyTriage ==
    UNCHANGED <<final, staging, hand, diff_queue, captures, posts, diffs,
                auditing, control, observations, next_id, sweeps>>

ReceiveTriage ==
    /\ triage_queue # <<>>
    /\ Size(triages) < TriageConcurrency
    /\ LET request == Head(triage_queue)
       IN  triages' = Spawn(triages, request.id, [request |-> request, pc |-> "check"])
    /\ triage_queue' = Tail(triage_queue)
    /\ OnlyTriage
    /\ UNCHANGED <<index, capture_queue, abandoned>>

\* A release that is already ready or skipped is left alone.
CheckRow(id) ==
    /\ At(triages, id, "check")
    /\ triages' = IF index[TriageRelease(id)].capture \in {"ready", "skipped"}
                  THEN Reap(triages, id)
                  ELSE [triages EXCEPT ![id].pc = "decide"]
    /\ OnlyTriage
    /\ UNCHANGED <<index, capture_queue, triage_queue, abandoned>>

Decide(id) ==
    /\ At(triages, id, "decide")
    /\ \E decision \in {"send", "skip"} :
           triages' = [triages EXCEPT ![id].pc = decision]
    /\ OnlyTriage
    /\ UNCHANGED <<index, capture_queue, triage_queue, abandoned>>

\* A hydrate error ends the task; the row is not written.
HydrateFails(id) ==
    /\ At(triages, id, "decide")
    /\ triages' = Reap(triages, id)
    /\ abandoned' = abandoned \cup {TriageRelease(id)}
    /\ OnlyTriage
    /\ UNCHANGED <<index, capture_queue, triage_queue>>

PromoteTriaged(id) ==
    /\ At(triages, id, "send")
    /\ HasRoom(capture_queue)
    /\ LET request == triages[id].request
       IN  capture_queue' = Append(capture_queue,
               Triaged(id, request.event, request.notify_diff))
    /\ triages' = Reap(triages, id)
    /\ OnlyTriage
    /\ UNCHANGED <<index, triage_queue, abandoned>>

DropTriaged(id) ==
    /\ At(triages, id, "skip")
    /\ Write(TriageRelease(id), MarkCaptureSkipped(index[TriageRelease(id)], "triage"))
    /\ triages' = Reap(triages, id)
    /\ OnlyTriage
    /\ UNCHANGED <<capture_queue, triage_queue, abandoned>>

TriageStep ==
    \/ ReceiveTriage
    \/ \E id \in DOMAIN triages :
           \/ CheckRow(id) \/ Decide(id) \/ HydrateFails(id)
           \/ PromoteTriaged(id) \/ DropTriaged(id)

-----------------------------------------------------------------------------
(* run_dropped_capture_audit_once: load the releases the policy skipped,   *)
(* remember them, then enqueue them one by one.                            *)

\* Mutant: any skipped release is a candidate, whoever skipped it.
AllSkipped ==
    {r \in Releases \ audited :
        index[r].origin = "observed" /\ index[r].capture = "skipped"}

AuditCandidates ==
    {r \in Releases \ audited :
        /\ index[r].origin = "observed"
        /\ index[r].capture = "skipped"
        /\ index[r].capture_reason = "policy"}

OnlyAudit ==
    UNCHANGED <<evidence, hand, triage_queue, diff_queue, inflight, control,
                observations, abandoned, sweeps>>

AuditSelect ==
    /\ "audit" \in up
    /\ audit_hand = {}
    /\ audit_hand' \in (SUBSET AuditCandidates) \ {{}}
    /\ audited' = audited \cup audit_hand'
    /\ OnlyAudit
    /\ UNCHANGED <<capture_queue, next_id>>

AuditSend(r) ==
    /\ r \in audit_hand
    /\ HasRoom(capture_queue)
    /\ capture_queue' = Append(capture_queue,
           Triaged(next_id, [release |-> r, tier |-> index[r].tier, graph |-> FALSE], FALSE))
    /\ next_id' = next_id + 1
    /\ audit_hand' = audit_hand \ {r}
    /\ OnlyAudit
    /\ UNCHANGED audited

=============================================================================
