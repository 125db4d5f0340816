---------------------------- MODULE ReleasePolicy ----------------------------
(***************************************************************************)
(* What becomes of a release: the plan it is announced with (event.rs),    *)
(* metadata triage (triage.rs), and what the analysis of its capture keeps,*)
(* escalates and signals (capture.rs).                                     *)
(*                                                                         *)
(* graph: [known, dependents, observed].  limits: [ephemeral, small], the  *)
(* largest artifact that is scanned anyway (0: none) and the largest one   *)
(* that counts as small.                                                   *)
(***************************************************************************)
EXTENDS ReleaseIndex, ReleaseMetadata, Assessment

-----------------------------------------------------------------------------
(* The announcement.                                                       *)

GraphEscalation(graph) == graph.known /\ graph.dependents > 0 /\ graph.observed >= 2

PlannedCapture(tier, graph) ==
    IF CaptureRequested(tier) \/ GraphEscalation(graph) THEN "pending" ELSE "skipped"

PlannedDiff(tier, graph) ==
    IF DiffRequestedWithGraph(tier, GraphEscalation(graph)) THEN "pending" ELSE "skipped"

PlanReason(requested, graph) ==
    CASE ~requested /\ GraphEscalation(graph) -> "graph_escalated"
      [] requested -> "priority_requested"
      [] OTHER -> "priority_skipped"

Knowledge ==
    [offline_score_file |-> "scored", local_graph |-> "local_graph",
     package_census |-> "package_existence", known_package_stub |-> "runtime_observed",
     deps_dev_dependents_api |-> "external", ecosyste_ms_counts_api |-> "external",
     default_unknown |-> "unknown"]

\* Everything but an offline score is provisional.
EmittedResolution(source) ==
    [knowledge |-> Knowledge[source], provisional |-> source # "offline_score_file"]

-----------------------------------------------------------------------------
(* Triage.                                                                 *)

SmallestArtifact(release) ==
    LET sizes == {release.artifacts[i].size : i \in DOMAIN release.artifacts} \ {NoSize}
    IN  IF sizes = {} THEN NoSize ELSE Min(sizes)

\* Without an ephemeral scan, crates nobody depends on are not looked at.
FastTriageDrops(ecosystem, tier, graph, limits) ==
    /\ limits.ephemeral = 0
    /\ ecosystem = "crates" /\ tier = "medium" /\ graph.dependents = 0

ThrowawayInstaller(graph, release, limits) ==
    /\ release.has_install_scripts
    /\ graph.dependents = 0
    /\ release.repository = "none" /\ ~release.names_repository
    /\ SmallestArtifact(release) # NoSize /\ SmallestArtifact(release) <= limits.small
    /\ Cardinality(release.dependencies) <= 1

BroadScan(release, limits) ==
    /\ limits.ephemeral > 0
    /\ SmallestArtifact(release) # NoSize /\ SmallestArtifact(release) <= limits.ephemeral

\* Why a release is promoted, of all the reasons in their order, or "low_signal".
Promotion(graph, release, risk, limits) ==
    IF risk.suspicious THEN "metadata"
    ELSE IF ThrowawayInstaller(graph, release, limits) THEN "throwaway_installer"
    ELSE IF release.has_install_scripts THEN "install_execution"
    ELSE IF graph.dependents > 0 /\ risk.score > 0 THEN "graph_impact"
    ELSE IF BroadScan(release, limits) THEN "ephemeral_scan"
    ELSE "low_signal"

\* handle_triage_request: a row already settled is not looked at.
TriageFate(row_capture, ecosystem, tier, graph, outcome, release, risk, limits) ==
    IF row_capture \in {"ready", "skipped"} THEN "not_examined"
    ELSE IF FastTriageDrops(ecosystem, tier, graph, limits) THEN "dropped"
    ELSE IF outcome = "error" THEN "failed"
    ELSE IF tier = "high" THEN "promoted"
    ELSE IF outcome = "absent" THEN "dropped"
    ELSE IF Promotion(graph, release, risk, limits) = "low_signal" THEN "dropped"
                  ELSE "promoted"

-----------------------------------------------------------------------------
(* After the capture.  evidence is that of an assessment without a diff.   *)

EvidenceOf(tier, graph, release, risk, prerelease, content, burst) ==
    [tier |-> tier, dependents |-> graph.dependents, status |-> release.status,
     prerelease |-> prerelease, scripts |-> release.has_install_scripts,
     longstanding |-> FALSE, benign |-> release.install_scripts_benign, metadata |-> risk,
     content |-> content, burst |-> burst, mismatch |-> release.repository = "mismatch",
     diff |-> NoDiff]

\* previous: the releases, at most one, captured last before.
NewDependencies(previous, current) ==
    IF previous = {} THEN {} ELSE current \ UNION {r.dependencies : r \in previous}

\* diff_escalation_reason.
DiffEscalation(evidence, new_dependencies) ==
    IF evidence.metadata.suspicious THEN "metadata"
    ELSE IF ContentSuspicious(evidence.content) THEN "content"
    ELSE IF RiskyInstall(evidence) THEN "install_execution"
    ELSE IF evidence.mismatch /\ ~evidence.prerelease /\ Impacted(evidence) THEN "upstream_mismatch"
    ELSE IF new_dependencies # {} /\ Impacted(evidence) THEN "new_dependencies"
    ELSE "none"

ShouldRetain(evidence) ==
    \/ evidence.status \in {"removed", "yanked"}
    \/ evidence.metadata.suspicious
    \/ ContentSuspicious(evidence.content)
    \/ evidence.mismatch
    \/ RiskyInstall(evidence)

\* Mutant: a burst is not a reason to keep a capture.
RetainWithoutBurst(evidence, permanent, notify_diff, new_dependencies) ==
    \/ permanent \/ notify_diff
    \/ ShouldRetain(evidence)
    \/ DiffEscalation(evidence, new_dependencies) # "none"

\* Mutant: the announced diff is not a reason to keep a capture.
RetainUnannounced(evidence, permanent, notify_diff, new_dependencies) ==
    \/ permanent
    \/ ShouldRetain(evidence)
    \/ DiffEscalation(evidence, new_dependencies) # "none"
    \/ evidence.burst

RetainCapture(evidence, permanent, notify_diff, new_dependencies) ==
    \/ permanent \/ notify_diff
    \/ ShouldRetain(evidence)
    \/ DiffEscalation(evidence, new_dependencies) # "none"
    \/ evidence.burst

NotifiesDiff(evidence, notify_diff, new_dependencies) ==
    notify_diff \/ DiffEscalation(evidence, new_dependencies) # "none"

\* The times a burst is measured from: the package's rows since the window
\* began, and the captured release itself -- which has a row, too.
BurstTimes(rows, candidate, now, window) ==
    SetToSeq({r \in rows : r.at >= now - window}) \o <<candidate>>

-----------------------------------------------------------------------------
(* Signals.                                                                *)

\* No signal without an upstream repository.
RepositorySignal(evidence) ==
    IF ~evidence.mismatch THEN "informational"
    ELSE IF RiskyInstall(evidence) THEN "high"
    ELSE IF evidence.prerelease THEN "informational"
    ELSE "warning"

\* Priorities that captures have just turned into scores of the local graph.
SignalsPromotion(previous, current) ==
    current = "local_graph" /\ previous \notin {"none", "local_graph"}

-----------------------------------------------------------------------------
(* From the announcement on.  triaged: [outcome, release, risk], what the  *)
(* registry answers triage; captured: [outcome, evidence, new_dependencies],*)
(* what it answers the capture after that.  Both answers may differ.       *)

ReleaseFate(ecosystem, tier, graph, limits, triaged, captured) ==
    LET notify_diff == PlannedDiff(tier, graph) = "pending"
        triage == TriageFate(DefaultCaptureState("observed", tier), ecosystem, tier, graph,
                             triaged.outcome, triaged.release, triaged.risk, limits)
    IN  IF tier # "high" /\ triage # "promoted" THEN triage
        ELSE IF captured.outcome = "error" THEN "failed"
        ELSE IF RetainCapture(captured.evidence, tier = "high", notify_diff,
                              captured.new_dependencies)
             THEN "kept"
        ELSE "discarded"

=============================================================================
