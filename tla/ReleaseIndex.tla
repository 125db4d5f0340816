---------------------------- MODULE ReleaseIndex ----------------------------
(***************************************************************************)
(* The job-status part of a row of release_index (store.rs): which writes  *)
(* the writer thread performs on it and what each leaves behind.  A row is *)
(* a value; the modules that hold rows decide when the writes happen.      *)
(***************************************************************************)

Tiers     == {"high", "medium", "low"}
Origins   == {"observed", "reconstructed"}
JobStates == {"pending", "ready", "skipped", "failed"}
Settled   == JobStates \ {"pending"}

\* Who gave the job its state: nobody, the priority policy, metadata triage,
\* the analysis of the capture, the reconstruction of history, an error.
Reasons == {"none", "policy", "triage", "post_analysis", "reconstructed", "error"}

\* What the table holds of an event_id it has never seen.
NoRow == [origin |-> "none", tier |-> "none",
          capture |-> "none", capture_reason |-> "none",
          diff |-> "none", diff_reason |-> "none"]

Row == [origin : Origins, tier : Tiers,
        capture : JobStates, capture_reason : Reasons,
        diff : JobStates, diff_reason : Reasons]

-----------------------------------------------------------------------------
(* The priority policy.                                                    *)

CaptureRequested(tier) == tier # "low"

DiffRequested(tier) == tier = "high"

\* `graph`: the package is known to the local graph, has reverse dependents
\* and was observed at least twice.
DiffRequestedWithGraph(tier, graph) == DiffRequested(tier) \/ graph

DefaultCaptureState(origin, tier) ==
    IF origin = "observed" /\ ~CaptureRequested(tier) THEN "skipped" ELSE "pending"

DefaultDiffState(origin, tier) ==
    IF origin = "observed" /\ DiffRequested(tier) THEN "pending" ELSE "skipped"

CaptureSkipReason(origin, tier) ==
    IF origin = "observed" /\ ~CaptureRequested(tier) THEN "policy" ELSE "none"

DiffSkipReason(origin, tier) ==
    IF origin # "observed" THEN "reconstructed"
    ELSE IF DiffRequested(tier) THEN "none"
    ELSE "policy"

-----------------------------------------------------------------------------
(* The writes.                                                             *)

\* Mutant: a failed job does not count as settled.
UpsertReopensFailed(row, origin, tier) ==
    [origin |-> IF row # NoRow /\ origin # "observed" THEN row.origin ELSE origin,
     tier |-> tier,
     capture |-> IF row.capture \in {"ready", "skipped"} THEN row.capture
                 ELSE DefaultCaptureState(origin, tier),
     capture_reason |-> IF row.capture \in Settled THEN row.capture_reason
                        ELSE CaptureSkipReason(origin, tier),
     diff |-> IF row.diff \in Settled THEN row.diff
              ELSE DefaultDiffState(origin, tier),
     diff_reason |-> IF row.diff \in Settled THEN row.diff_reason
                     ELSE DiffSkipReason(origin, tier)]

\* An insertion, or an update that leaves a settled job as it is.
UpsertEventRow(row, origin, tier) ==
    [origin |-> IF row # NoRow /\ origin # "observed" THEN row.origin ELSE origin,
     tier |-> tier,
     capture |-> IF row.capture \in Settled THEN row.capture
                 ELSE DefaultCaptureState(origin, tier),
     capture_reason |-> IF row.capture \in Settled THEN row.capture_reason
                        ELSE CaptureSkipReason(origin, tier),
     diff |-> IF row.diff \in Settled THEN row.diff
              ELSE DefaultDiffState(origin, tier),
     diff_reason |-> IF row.diff \in Settled THEN row.diff_reason
                     ELSE DiffSkipReason(origin, tier)]

\* UPDATE ... WHERE event_id = ?: no row, no effect; otherwise unconditional.
SetCapture(row, state, reason) ==
    IF row = NoRow THEN row
    ELSE [row EXCEPT !.capture = state, !.capture_reason = reason]

SetDiff(row, state, reason) ==
    IF row = NoRow THEN row
    ELSE [row EXCEPT !.diff = state, !.diff_reason = reason]

RecordCapture(row, origin, tier) ==
    SetCapture(UpsertEventRow(row, origin, tier), "ready", "none")

MarkCaptureSkipped(row, reason) == SetCapture(row, "skipped", reason)

MarkCaptureFailed(row) == SetCapture(row, "failed", "error")

RecordDiff(row, origin, tier) ==
    SetDiff(UpsertEventRow(row, origin, tier), "ready", "none")

MarkDiffSkipped(row) == SetDiff(row, "skipped", "policy")

MarkDiffFailed(row) == SetDiff(row, "failed", "error")

=============================================================================
