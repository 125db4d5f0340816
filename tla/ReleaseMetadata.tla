--------------------------- MODULE ReleaseMetadata ---------------------------
(***************************************************************************)
(* What the collector makes of a registry's metadata (capture.rs,          *)
(* install_scripts.rs): the captured release, its status, dependencies,    *)
(* install hooks and artifacts, the metadata risk of an npm release, and   *)
(* the graph records a release leaves.  Names are those of ScoreGraph; a   *)
(* word, for the look-alike names, is a sequence of letters.               *)
(*                                                                         *)
(* A document is a record: of npm, [dependencies, scripts, bin, main,      *)
(* windows_target, core, repository, tarball, unpacked_size]; of PyPI,     *)
(* [requires, yanked, urls]; of crates.io, [entry, edges, downloads].      *)
(***************************************************************************)
EXTENDS ScoreGraph, FiniteSetsExt

CONSTANTS
    Capability,     \* Capability[name]: what depending on a name gives away
    KnownCores      \* the names whose look-alikes are counted

-----------------------------------------------------------------------------
(* Fetching: "ok", "not_found", and the ways to fail.                      *)

MetadataMaxAttempts == 2    \* METADATA_FETCH_MAX_ATTEMPTS

RetryableAnswers == {"transport", "truncated", "undecodable", "server_error",
                     "too_many_requests", "request_timeout"}

\* The answer that counts, of those the attempts get.
FetchAnswer(answers) ==
    LET settled == {i \in 1..MetadataMaxAttempts : answers[i] \notin RetryableAnswers}
    IN  IF settled = {} THEN answers[MetadataMaxAttempts] ELSE answers[Min(settled)]

\* fetch_json_metadata: a document, its absence, or an error.
FetchOutcome(answers) ==
    CASE FetchAnswer(answers) = "ok"        -> "found"
      [] FetchAnswer(answers) = "not_found" -> "absent"
      [] OTHER                              -> "error"

\* A capture asks crates.io once, triage as often as the others.
CaptureOutcome(ecosystem, answers) ==
    FetchOutcome(IF ecosystem = "crates" THEN [i \in 1..MetadataMaxAttempts |-> answers[1]]
                 ELSE answers)

-----------------------------------------------------------------------------
(* npm: hooks that run at installation.                                    *)

InstallHooks == {"preinstall", "install", "postinstall"}

HasInstallScript(scripts) == DOMAIN scripts \cap InstallHooks # {}

\* The hooks with a text.  A script is "not_text", or what its text looks like.
InstallScripts(scripts) ==
    [h \in {k \in DOMAIN scripts \cap InstallHooks : scripts[k] # "not_text"} |-> scripts[h]]

\* A text that fetches, spawns or installs is never benign, whatever else it has.
ScriptLooksBenign(text) == text \in {"informational", "permission_fix"}

InstallScriptsBenign(scripts) ==
    LET texts == InstallScripts(scripts)
    IN  DOMAIN texts # {} /\ \A h \in DOMAIN texts : ScriptLooksBenign(texts[h])

\* versions: the scripts of every version of the package.
InstallScriptsLongstanding(versions, current) ==
    /\ current \in DOMAIN versions
    /\ DOMAIN InstallScripts(versions[current]) # {}
    /\ \E v \in DOMAIN versions \ {current} :
           InstallScripts(versions[v]) = InstallScripts(versions[current])

-----------------------------------------------------------------------------
(* npm: risk of the metadata.                                              *)

CapabilityWeight ==
    [native |-> 5, browser |-> 2, screen |-> 2, tooling |-> 2, archive |-> 1, realtime |-> 1]

RiskyCapabilities == DOMAIN CapabilityWeight
SuspiciousRisk == 6

NoRisk == [score |-> 0, suspicious |-> FALSE]

EditDistance(left, right) ==
    LET d[i \in 0..Len(left), j \in 0..Len(right)] ==
            IF i = 0 THEN j ELSE IF j = 0 THEN i
            ELSE Min({d[i, j - 1] + 1, d[i - 1, j] + 1,
                      d[i - 1, j - 1] + IF left[i] = right[j] THEN 0 ELSE 1})
    IN  d[Len(left), Len(right)]

ConfusableMinLength == 5

\* core: the first part of the name without its scope, in lower case.
ConfusableCore(core) ==
    /\ Len(core) >= ConfusableMinLength
    /\ \E known \in KnownCores : core # known /\ EditDistance(core, known) <= 1

RiskScore(capabilities, windows_target, executable_cli, confusable) ==
    LET stealing == /\ "native" \in capabilities
                    /\ capabilities \cap {"browser", "screen", "tooling"} # {}
    IN  MapThenSumSet(LAMBDA c : CapabilityWeight[c], capabilities)
            + (IF windows_target THEN 1 ELSE 0)
            + (IF executable_cli THEN 1 ELSE 0)
            + (IF confusable THEN 2 ELSE 0)
            + (IF stealing THEN 2 ELSE 0)

Risk(score) == [score |-> score, suspicious |-> score >= SuspiciousRisk]

CapabilitiesOf(dependencies) == {Capability[d] : d \in dependencies} \cap RiskyCapabilities

NpmMetadataRisk(document) ==
    Risk(RiskScore(CapabilitiesOf(document.dependencies), document.windows_target,
                   document.bin \in {"text", "map"} /\ document.main = "js",
                   ConfusableCore(document.core)))

NotStored == [score |-> -1, suspicious |-> FALSE]

\* What a capture stores wins; of an npm release without details -- one that is
\* gone -- the name is left to judge.
CapturedMetadataRisk(capture, core) ==
    IF capture.metadata_risk # NotStored THEN capture.metadata_risk
    ELSE IF capture.ecosystem = "npm"
         THEN Risk(RiskScore(CapabilitiesOf(capture.dependencies), FALSE, FALSE,
                             ConfusableCore(core)))
    ELSE NoRisk

-----------------------------------------------------------------------------
(* PyPI and crates.io.                                                     *)

\* A file without a name is left out.
PypiArtifacts(document) == SelectSeq(document.urls, LAMBDA a : a.filename # "none")

\* What the release says of itself, or else what any of its files says.
PypiYanked(document) ==
    CASE document.yanked = "yes" -> TRUE
      [] document.yanked = "no"  -> FALSE
      [] OTHER -> \E i \in DOMAIN PypiArtifacts(document) : PypiArtifacts(document)[i].yanked

CratesStatus(document) ==
    CASE document.entry = "yanked" -> "yanked"
      [] document.entry = "listed" -> "active"
      [] OTHER                     -> "unknown"     \* no such version, or no word on it

CratesDependencies(edges) == {Norm[e.crate] : e \in {x \in edges :
                                  x.kind \in {"absent", "normal"} /\ ~x.optional}}

-----------------------------------------------------------------------------
(* The captured release.                                                   *)

StatusOf(ecosystem, document) ==
    CASE ecosystem = "npm"  -> "active"
      [] ecosystem = "pypi" -> IF PypiYanked(document) THEN "yanked" ELSE "active"
      [] OTHER              -> CratesStatus(document)

DependencyNames(ecosystem, document) ==
    CASE ecosystem = "npm"  -> {Norm[d] : d \in document.dependencies}
      [] ecosystem = "pypi" -> {Norm[d] : d \in document.requires}
      [] OTHER              -> CratesDependencies(document.edges)

NoSize == -1

\* npm names one tarball, crates.io one file of a version it lists.
ArtifactsOf(ecosystem, document) ==
    IF ecosystem = "npm"
    THEN <<[filename |-> "tarball", kind |-> "archive", url |-> document.tarball,
            size |-> document.unpacked_size, yanked |-> FALSE]>>
    ELSE IF ecosystem = "pypi" THEN PypiArtifacts(document)
    ELSE IF document.entry = "missing" THEN <<>>
    ELSE <<[filename |-> "crate", kind |-> "archive", url |-> TRUE, size |-> NoSize,
            yanked |-> document.entry = "yanked"]>>

RemovedRelease(ecosystem, package) ==
    [ecosystem |-> ecosystem, package |-> package, status |-> "removed",
     dependencies |-> {}, artifacts |-> <<>>, has_install_scripts |-> FALSE,
     install_scripts_benign |-> FALSE, metadata_risk |-> NotStored,
     names_repository |-> FALSE, repository |-> "none", popularity |-> 0]

\* The packument is not read, so no hook is called longstanding.
ReleaseFrom(ecosystem, package, document, repository) ==
    [ecosystem |-> ecosystem, package |-> package, status |-> StatusOf(ecosystem, document),
     dependencies |-> DependencyNames(ecosystem, document),
     artifacts |-> ArtifactsOf(ecosystem, document),
     has_install_scripts |-> ecosystem = "npm" /\ HasInstallScript(document.scripts),
     install_scripts_benign |-> ecosystem = "npm" /\ InstallScriptsBenign(document.scripts),
     metadata_risk |-> IF ecosystem = "npm" THEN NpmMetadataRisk(document) ELSE NotStored,
     names_repository |-> ecosystem = "npm" /\ document.repository,
     repository |-> repository,
     popularity |-> IF ecosystem = "crates" THEN document.downloads ELSE 0]

\* capture_pypi, capture_npm, capture_crates_io.  A release the registry does
\* not have is captured as removed; where its repository stands is looked up,
\* and taken as "none" when that fails.
CaptureRelease(ecosystem, package, outcome, document, repository) ==
    IF outcome = "absent" THEN RemovedRelease(ecosystem, package)
    ELSE ReleaseFrom(ecosystem, package, document, repository)

\* hydrate_priority_*, for triage: the same release, without its repository.
\* A release the registry does not have leaves nothing.
HydratedRelease(ecosystem, package, document) ==
    ReleaseFrom(ecosystem, package, document, "none")

-----------------------------------------------------------------------------
(* Artifacts.  kind is "archive" for what the content scan can open.       *)

NoArtifact == 0

\* materialize_primary_artifact_into_capture_dir: the first with a link.
PrimaryArtifact(artifacts) ==
    LET linked == {i \in DOMAIN artifacts : artifacts[i].url}
    IN  IF linked = {} THEN NoArtifact ELSE Min(linked)

\* artifact_source_for_capture: a stored artifact hides the others, even when
\* the scan cannot open it.
ScanSource(artifacts, stored) ==
    LET primary  == PrimaryArtifact(artifacts)
        scannable == {i \in DOMAIN artifacts : artifacts[i].url /\ artifacts[i].kind = "archive"}
    IN  IF stored /\ primary # NoArtifact
        THEN IF artifacts[primary].kind = "archive" THEN primary ELSE NoArtifact
        ELSE IF scannable = {} THEN NoArtifact ELSE Min(scannable)

-----------------------------------------------------------------------------
(* What a capture leaves in the graph.                                     *)

GraphRecordsOf(capture) ==
    IF capture.status \notin {"active", "yanked"} THEN {}
    ELSE {PackageRecord(Norm[capture.package], capture.popularity)} \cup
         {DependencyRecord(Norm[capture.package], Norm[d], 1) : d \in capture.dependencies}

=============================================================================
