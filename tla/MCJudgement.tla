----------------------------- MODULE MCJudgement ------------------------------
(***************************************************************************)
(* The judgement of releases, for TLC: releases, what their analysis finds,*)
(* and what must hold of their fate and of the verdict.                    *)
(***************************************************************************)
EXTENDS MCRules, ReleasePolicy

-----------------------------------------------------------------------------
(* Constants.                                                              *)

\* Names 1 and 2 give something away; names 3 and 4 do not.
MCCapability == [n \in Names |-> CASE n = 1 -> "native" [] n = 2 -> "browser" [] OTHER -> "plain"]

\* Known names are words of two letters.
MCKnownCores == {<<"a", "b", "a", "b", "a">>, <<"a", "a", "b", "b", "a", "b">>}

MCRuleset ==
    {[name |-> "npm_wallet_or_session_theft_markers", tags |-> {"malware", "npm", "theft"}, score |-> 7],
     [name |-> "generic_discord_or_telegram_exfil", tags |-> {"malware", "exfil"}, score |-> 6],
     [name |-> "npm_downloader_and_exec_installer",
      tags |-> {"suspicious", "npm", "downloader", "installer"}, score |-> 6],
     [name |-> "npm_mcp_server_injection", tags |-> {"malware", "npm", "persistence", "ai"}, score |-> 10],
     [name |-> "generic_cloud_credential_paths", tags |-> {"suspicious", "theft", "cloud"}, score |-> 7]}

\* The rules over package files hold of a module; the others match patterns.
ModuleRules == {"npm_wallet_or_session_theft_markers", "npm_downloader_and_exec_installer",
                "npm_mcp_server_injection"}
MatchOf(rule) == [rule |-> rule, pattern |-> rule.name \notin ModuleRules]

Contents ==
    {[matches |-> {MatchOf(r) : r \in rules}, iocs |-> iocs] :
        rules \in {s \in SUBSET Rules : Cardinality(s) <= 2}, iocs \in BOOLEAN}

QuietContent == [matches |-> {}, iocs |-> FALSE]

-----------------------------------------------------------------------------
(* Evidence, for the assessment.                                           *)

LowRisk == [score |-> 2, suspicious |-> FALSE]
HighRisk == [score |-> 7, suspicious |-> TRUE]

Hook(target, longstanding, changed) ==
    [known |-> TRUE, target |-> target, longstanding |-> longstanding, changed |-> changed]
DiffOf(changed, manifest_only, hook) ==
    [added |-> 0, removed |-> 0, changed |-> changed, manifest_only |-> manifest_only, hook |-> hook]

Diffs == {NoDiff, DiffOf(1, TRUE, NoHook), DiffOf(2, FALSE, NoHook), DiffOf(5, FALSE, NoHook),
          DiffOf(2, FALSE, Hook(TRUE, TRUE, FALSE))}

\* Whether there are install scripts, and whether they look benign.
ScriptKinds == {<<FALSE, FALSE>>, <<TRUE, TRUE>>, <<TRUE, FALSE>>}

EvidenceInputs ==
    {[part |-> "evidence",
      evidence |-> [tier |-> t, dependents |-> d, status |-> s, prerelease |-> p,
                    scripts |-> k[1], longstanding |-> FALSE, benign |-> k[2], metadata |-> r,
                    content |-> c, burst |-> b, mismatch |-> m, diff |-> f]] :
        t \in {"low", "medium"}, d \in {0, 1}, s \in {"active", "yanked"}, p \in BOOLEAN,
        k \in ScriptKinds, r \in {LowRisk, HighRisk}, c \in {x \in Contents : ~x.iocs},
        b \in BOOLEAN, m \in BOOLEAN, f \in Diffs}

\* The evidence with one thing more against the release.
Worse(evidence) ==
    {[evidence EXCEPT !.tier = "high"], [evidence EXCEPT !.dependents = 1],
     [evidence EXCEPT !.status = "yanked"], [evidence EXCEPT !.burst = TRUE],
     [evidence EXCEPT !.scripts = TRUE, !.benign = FALSE], [evidence EXCEPT !.metadata = HighRisk],
     [evidence EXCEPT !.mismatch = TRUE], [evidence EXCEPT !.content.iocs = TRUE],
     [evidence EXCEPT !.diff.changed = @ + 3, !.diff.manifest_only = FALSE],
     [evidence EXCEPT !.diff.hook = Hook(TRUE, FALSE, FALSE)],
     [evidence EXCEPT !.diff.hook = Hook(TRUE, TRUE, TRUE)]} \cup
    {[evidence EXCEPT !.content.matches = @ \cup {MatchOf(r)}] : r \in Rules}

\* Where a mismatch with the repository explains what has changed away.
Excused(evidence) ==
    /\ evidence.mismatch /\ ~evidence.prerelease
    /\ ContentChanged(evidence) /\ ~evidence.diff.manifest_only

\* Nothing more against a release makes its verdict milder -- with one
\* exception that the order of assess_release makes: a stable release whose
\* repository does not match is let off for changes that would otherwise count.
MoreEvidenceNeverLowers ==
    input.part = "evidence" =>
        \A worse \in Worse(input.evidence) :
            \/ SeverityRank[AssessRelease(worse).severity]
                   >= SeverityRank[AssessRelease(input.evidence).severity]
            \/ Excused(worse)

-----------------------------------------------------------------------------
(* Fates.                                                                  *)

NpmDocument(dependencies, scripts, size) ==
    [dependencies |-> dependencies, scripts |-> scripts, bin |-> "text", main |-> "js",
     windows_target |-> FALSE, core |-> <<"b", "b">>, repository |-> FALSE,
     tarball |-> TRUE, unpacked_size |-> size]
PypiDocument(yanked) == [requires |-> {1, 3}, yanked |-> yanked, urls |-> <<>>]
CratesDocument(entry) ==
    [entry |-> entry, downloads |-> 5,
     edges |-> {[crate |-> 1, kind |-> "normal", optional |-> FALSE]}]

\* Which document, of which ecosystem.
Documents ==
    {<<"npm", NpmDocument(d, s, 10)>> : d \in {{}, {1, 2}, {3}},
        s \in {[test |-> "other"], [install |-> "informational"], [postinstall |-> "risky"],
               [preinstall |-> "not_text", install |-> "informational"]}} \cup
    {<<"pypi", PypiDocument(y)>> : y \in {"yes", "no"}} \cup
    {<<"crates", CratesDocument(e)>> : e \in {"listed", "yanked", "missing"}}

\* What the registry answers triage, and then the capture.
AnswerPairs == {<<"found", "found">>, <<"found", "absent">>, <<"found", "error">>,
                <<"absent", "absent">>, <<"error", "found">>}

\* The rows of the package when version 3 is captured: its own, with one of a
\* day long past, or with another version of the day.
RowAt(version, major, at) == [version |-> version, major |-> major, at |-> at]
RowSets == {{RowAt(3, "v2", 5), RowAt(1, "v1", 1)}, {RowAt(3, "v2", 5), RowAt(2, "v1", 4)}}
BurstConfig == [window |-> 2, min_versions |-> 3, min_major_lines |-> 2]
BurstOf(rows) ==
    VersionBurst(BurstTimes(rows, RowAt(3, "v2", 5), 5, BurstConfig.window), BurstConfig)

FateInputs ==
    {[part |-> "fate", ecosystem |-> d[1], document |-> d[2], tier |-> t, graph |-> g,
      answers |-> a, limits |-> l, content |-> c, rows |-> v, repository |-> r,
      prerelease |-> FALSE, previous |-> p] :
        d \in Documents, t \in Tiers,
        g \in {[known |-> FALSE, dependents |-> 0, observed |-> 1],
               [known |-> TRUE, dependents |-> 1, observed |-> 1],
               [known |-> TRUE, dependents |-> 1, observed |-> 2]},
        a \in AnswerPairs, l \in {[ephemeral |-> 0, small |-> 20], [ephemeral |-> 20, small |-> 5]},
        c \in {x \in Contents : ~x.iocs /\ Cardinality(x.matches) < 2}, v \in RowSets,
        r \in {"none", "mismatch"}, p \in {{}, {[dependencies |-> {1}]}}}

Hydrated(i) == HydratedRelease(i.ecosystem, 3, i.document)
Captured(i) == CaptureRelease(i.ecosystem, 3, i.answers[2], i.document, i.repository)
RiskOf(release) == CapturedMetadataRisk(release, <<"b", "b">>)

\* A release that is gone, or has no artifact to open, is not scanned.
ContentOf(i) ==
    IF i.answers[2] = "absent" \/ Captured(i).artifacts = <<>> THEN QuietContent ELSE i.content

TriageEvidence(i) ==
    EvidenceOf(i.tier, i.graph, Hydrated(i), RiskOf(Hydrated(i)), i.prerelease, QuietContent, FALSE)
CaptureEvidence(i) ==
    EvidenceOf(i.tier, i.graph, Captured(i), RiskOf(Captured(i)), i.prerelease, ContentOf(i),
               BurstOf(i.rows))

FateOf(i) ==
    ReleaseFate(i.ecosystem, i.tier, i.graph, i.limits,
        [outcome |-> i.answers[1], release |-> Hydrated(i), risk |-> RiskOf(Hydrated(i))],
        [outcome |-> i.answers[2], evidence |-> CaptureEvidence(i),
         new_dependencies |-> NewDependencies(i.previous, Captured(i).dependencies)])

\* What is let go was nothing to report: metadata triage drops no release whose
\* metadata alone the assessment would call suspicious, and the analysis of a
\* capture discards none -- unless it is the content that is suspicious to the
\* assessment, and its matches score less than the content scan wants.
LostIsUnremarkable ==
    input.part = "fate" =>
        /\ FateOf(input) = "dropped" /\ input.answers[1] = "found" =>
               ~AssessRelease(TriageEvidence(input)).suspicious
        /\ FateOf(input) = "discarded" =>
               LET evidence == CaptureEvidence(input)
               IN  /\ ~ContentSuspicious(evidence.content)
                   /\ ~AssessRelease([evidence EXCEPT !.content = QuietContent]).suspicious

\* The plan a release is announced with, and what becomes of it: one planned to
\* be skipped is never looked at; one never looked at is of low tier, be it
\* planned or not; one announced with a diff is not discarded after a capture.
FateFollowsPlan ==
    input.part = "fate" =>
        /\ PlannedCapture(input.tier, input.graph) = "skipped" => FateOf(input) = "not_examined"
        /\ FateOf(input) = "not_examined" => input.tier = "low"
        /\ FateOf(input) = "discarded" => PlannedDiff(input.tier, input.graph) = "skipped"

-----------------------------------------------------------------------------

JudgementInputs == EvidenceInputs \cup FateInputs

=============================================================================
