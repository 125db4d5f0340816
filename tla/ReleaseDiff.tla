----------------------------- MODULE ReleaseDiff ------------------------------
(***************************************************************************)
(* The comparison of two releases: which two, which of their artifacts, and*)
(* what has changed in them (diff.rs).                                     *)
(*                                                                         *)
(* An artifact is [filename, kind, url, archive, listed]: kind is what the *)
(* registry calls it; url "served" yields archive, "gone" fails, "none" is *)
(* no URL; listed is which of "size", "sha256", "sha512" and "other" the   *)
(* registry tells.  A filename is [project, version, suffix].              *)
(* An archive is [format, files]: format "gzip" or "zip", and files maps a *)
(* path, a sequence of names, to a content [text, parsed, body]: parsed is *)
(* FALSE for a JSON file that is none.  Names are numbers whose order is   *)
(* that of their texts.                                                    *)
(***************************************************************************)
EXTENDS PackageHistory

PackageJson == 1
VcsInfo     == 2    \* .cargo_vcs_info.json

-----------------------------------------------------------------------------
(* Kinds of archives.                                                      *)

\* The first kind both releases have is compared.
KindOrder == <<"npm-tarball", "crate", "tar.gz", "wheel", "zip">>

\* classify_filename; what follows the known suffix of a name is ignored.
ClassifyFilename(filename) ==
    CASE filename.suffix = "tgz"    -> "npm-tarball"
      [] filename.suffix = "crate"  -> "crate"
      [] filename.suffix = "tar.gz" -> "tar.gz"
      [] filename.suffix = "whl"    -> "wheel"
      [] filename.suffix = "zip"    -> "zip"
      [] OTHER                      -> "none"

\* The kind the registry names comes first: an sdist is a tar.gz, even a .zip.
ClassifyArtifact(artifact) ==
    CASE artifact.kind \in {"npm-tarball", "crate"} -> artifact.kind
      [] artifact.kind = "sdist"                    -> "tar.gz"
      [] artifact.kind = "bdist_wheel"              -> "wheel"
      [] OTHER                                      -> ClassifyFilename(artifact.filename)

OfKind(capture, kind) ==
    {i \in DOMAIN capture.artifacts : ClassifyArtifact(capture.artifacts[i]) = kind}

\* select_artifact_pair: at most one pair, [kind, baseline, target].
ArtifactPair(baseline, target) ==
    LET common == {k \in DOMAIN KindOrder : /\ OfKind(baseline, KindOrder[k]) # {}
                                            /\ OfKind(target, KindOrder[k]) # {}}
        kind   == KindOrder[Min(common)]
    IN  IF common = {} THEN {}
        ELSE {[kind |-> kind, baseline |-> baseline.artifacts[Min(OfKind(baseline, kind))],
               target |-> target.artifacts[Min(OfKind(target, kind))]]}

\* extract_artifact: unzip for wheel and zip, tar -xzf for the others.
Extracts(archive, kind) == archive.format = (IF kind \in {"wheel", "zip"} THEN "zip" ELSE "gzip")

-----------------------------------------------------------------------------
(* The files of an archive.                                                *)

\* common_top_level_dir: the first component of every path, a file's name too.
CommonTop(paths) == {n \in {p[1] : p \in paths} : \A p \in paths : p[1] = n}

\* collect_files
Collected(files) ==
    IF CommonTop(DOMAIN files) = {} THEN files
    ELSE [p \in {Tail(q) : q \in DOMAIN files} |->
             files[CHOOSE q \in DOMAIN files : Tail(q) = p]]

PathBefore(left, right) ==
    \E i \in 1..Len(right) :
        /\ \A j \in 1..(i - 1) : j <= Len(left) /\ left[j] = right[j]
        /\ i > Len(left) \/ left[i] < right[i]

AddedFiles(baseline, target) == DOMAIN target \ DOMAIN baseline
RemovedFiles(baseline, target) == DOMAIN baseline \ DOMAIN target
ChangedFiles(baseline, target) ==
    {p \in DOMAIN baseline \cap DOMAIN target : baseline[p] # target[p]}

\* What a path became: [path, change].
PathChanges(baseline, target) ==
    {[path |-> p, change |-> "added"] : p \in AddedFiles(baseline, target)} \cup
    {[path |-> p, change |-> "removed"] : p \in RemovedFiles(baseline, target)} \cup
    {[path |-> p, change |-> "changed"] : p \in ChangedFiles(baseline, target)}

\* build_file_patch: only two texts have a patch, and a missing file is one.
FilePatches(baseline, target) ==
    LET text(files, p) == p \notin DOMAIN files \/ files[p].text
    IN  {[path |-> c.path, change |-> c.change,
          text |-> text(baseline, c.path) /\ text(target, c.path)] :
            c \in PathChanges(baseline, target)}

-----------------------------------------------------------------------------
(* Install hooks.  The body of a package.json is its install scripts, a    *)
(* function from hooks to sequences of words [path, file, option, suffix]: *)
(* path is how the script writes it, option whether it is a flag, a        *)
(* variable or a URL, suffix whether it has one of the eleven of           *)
(* looks_like_local_script_path.  file is what runs when the script does:  *)
(* another path after a cd or a --prefix, or when the path has a .. in it. *)
(* The code does not know it.                                              *)

NoScripts == [h \in {} |-> <<>>]

ScriptsOf(files) ==
    IF <<PackageJson>> \in DOMAIN files THEN files[<<PackageJson>>].body ELSE NoScripts

WordsOf(scripts) == UNION {ToSet(scripts[h]) : h \in DOMAIN scripts}

\* What install_script_file_refs takes for a script file.
NamesScript(word) == ~word.option /\ word.suffix

\* install_script_file_refs: of the scripts of both releases.  A leading ./ is
\* not part of the path; nothing else of it is resolved.
ScriptFileRefs(baseline_scripts, target_scripts) ==
    {w.path : w \in {x \in WordsOf(baseline_scripts) \cup WordsOf(target_scripts) : NamesScript(x)}}

HookDiff(baseline, target, touched) ==
    LET before == ScriptsOf(baseline)
        after  == ScriptsOf(target)
        changed == before # after \/ ScriptFileRefs(before, after) \cap touched # {}
    IN  [known |-> TRUE, target |-> DOMAIN after # {}, changed |-> changed,
         longstanding |-> DOMAIN after # {} /\ DOMAIN before # {} /\ ~changed]

\* Mutant: a script file that is new or gone has not changed.
NpmInstallHookDiffChangedOnly(baseline, target) ==
    IF <<PackageJson>> \notin DOMAIN baseline \cup DOMAIN target THEN [known |-> FALSE]
    ELSE HookDiff(baseline, target, ChangedFiles(baseline, target))

\* derive_npm_install_hook_diff
NpmInstallHookDiff(baseline, target) ==
    IF <<PackageJson>> \notin DOMAIN baseline \cup DOMAIN target THEN [known |-> FALSE]
    ELSE HookDiff(baseline, target, {c.path : c \in PathChanges(baseline, target)})

-----------------------------------------------------------------------------
(* The commit a crate was published from.  The body of its file is a set   *)
(* of at most one commit.                                                  *)

VcsFiles(files) == {p \in DOMAIN files : p # <<>> /\ p[Len(p)] = VcsInfo}

\* The one at the top, or else the first.
VcsFile(files) ==
    IF <<VcsInfo>> \in VcsFiles(files) THEN {<<VcsInfo>>}
    ELSE {p \in VcsFiles(files) : \A q \in VcsFiles(files) \ {p} : PathBefore(p, q)}

CommitOf(files) == UNION {files[p].body : p \in VcsFile(files)}

RepositoryCommitDiff(baseline, target) ==
    IF CommitOf(baseline) \cup CommitOf(target) = {} THEN [known |-> FALSE]
    ELSE [known |-> TRUE, changed |-> CommitOf(baseline) # CommitOf(target)]

-----------------------------------------------------------------------------
(* The content.                                                            *)

Unavailable(reason) == [available |-> FALSE, reason |-> reason]

\* A JSON file that does not parse fails the comparison.
Unparsed(files) ==
    \E p \in VcsFile(files) \cup (DOMAIN files \cap {<<PackageJson>>}) : ~files[p].parsed

\* compare_extracted_dirs, of the extracted files.
CompareExtracted(baseline, target, patches) ==
    IF Unparsed(baseline) \/ Unparsed(target) THEN Unavailable("compare")
    ELSE [available |-> TRUE,
          changes |-> PathChanges(baseline, target),
          patches |-> IF patches THEN FilePatches(baseline, target) ELSE {},
          hook |-> NpmInstallHookDiff(baseline, target),
          commit |-> RepositoryCommitDiff(baseline, target)]

\* materialize_primary_artifact_into_capture_dir: the first artifact with a URL
\* is what a capture stores, whatever its kind.
StoredArtifact(capture) ==
    LET served == {i \in DOMAIN capture.artifacts : capture.artifacts[i].url # "none"}
    IN  IF served = {} THEN {} ELSE {capture.artifacts[Min(served)]}

\* artifact_ref: what the diff says of an artifact.  path is the local file's
\* archive if there is one, read what was compared.
ArtifactRef(artifact, path, read) ==
    LET hashed == path # {} \/ artifact.listed = {}
        told(what) == IF what \in artifact.listed THEN {artifact.archive}
                      ELSE IF hashed THEN {read} ELSE {}
    IN  [filename |-> artifact.filename, size |-> told("size"),
         sha256 |-> told("sha256"), sha512 |-> told("sha512")]

\* The two archives once they are on disk.
CompareArchives(pair, baseline_path, target_path, patches) ==
    LET archive(artifact, path) == IF path = {} THEN artifact.archive
                                   ELSE CHOOSE a \in path : TRUE
        baseline == archive(pair.baseline, baseline_path)
        target   == archive(pair.target, target_path)
        compared == CompareExtracted(Collected(baseline.files), Collected(target.files), patches)
    IN  IF ~Extracts(baseline, pair.kind) THEN Unavailable("extract baseline")
        ELSE IF ~Extracts(target, pair.kind) THEN Unavailable("extract target")
        ELSE IF ~compared.available THEN compared
        ELSE compared @@
                 [kind |-> pair.kind,
                  baseline |-> ArtifactRef(pair.baseline, baseline_path, baseline),
                  target |-> ArtifactRef(pair.target, target_path, target)]

\* build_content_diff: a path, when there is one, stands for the artifact.
ContentDiff(baseline, target, baseline_path, target_path, patches) ==
    LET pairs == ArtifactPair(baseline, target)
        pair  == CHOOSE p \in pairs : TRUE
        no_source(artifact, path) == path = {} /\ artifact.url = "none"
        fails(artifact, path)     == path = {} /\ artifact.url = "gone"
    IN  IF target = NoCapture THEN Unavailable("target capture")
        ELSE IF baseline = NoCapture THEN Unavailable("baseline capture")
        ELSE IF pairs = {} THEN Unavailable("no pair")
        ELSE IF no_source(pair.baseline, baseline_path) THEN Unavailable("baseline source")
        ELSE IF no_source(pair.target, target_path) THEN Unavailable("target source")
        ELSE IF fails(pair.baseline, baseline_path) THEN Unavailable("fetch baseline")
        ELSE IF fails(pair.target, target_path) THEN Unavailable("fetch target")
        ELSE CompareArchives(pair, baseline_path, target_path, patches)

-----------------------------------------------------------------------------
(* What the registry says of the two.                                      *)

StatusDiff(baseline, target) ==
    [baseline |-> baseline.status, target |-> target.status,
     changed |-> baseline.status # target.status]

\* artifact_map: the last artifact of a name, with the capture's local file.
ArtifactMap(capture) ==
    LET artifacts == IF capture = NoCapture THEN <<>> ELSE capture.artifacts
        named(f)  == {i \in DOMAIN artifacts : artifacts[i].filename = f}
    IN  [f \in {artifacts[i].filename : i \in DOMAIN artifacts} |->
            [artifact |-> artifacts[Max(named(f))],
             path |-> IF capture.stored = "no" THEN {}
                      ELSE {a.filename : a \in StoredArtifact(capture)}]]

\* The same of artifacts and of details.
KeyDiff(before, after) ==
    [added |-> DOMAIN after \ DOMAIN before, removed |-> DOMAIN before \ DOMAIN after,
     changed |-> {k \in DOMAIN before \cap DOMAIN after : before[k] # after[k]}]

ArtifactDiff(baseline, target) == KeyDiff(ArtifactMap(baseline), ArtifactMap(target))

\* build_details_diff: a value is a set, and told unless it is null, the empty set.
DetailsDiff(baseline, target) ==
    LET details(capture) == IF capture = NoCapture THEN <<>> ELSE capture.details
        before == details(baseline)
        after  == details(target)
        keys   == KeyDiff(before, after)
    IN  keys @@ [told_added |-> {k \in keys.added : after[k] # {}},
                 told_removed |-> {k \in keys.removed : before[k] # {}}]

-----------------------------------------------------------------------------
(* The two sides.  An input is [event, capture, path, lookup]: path is the *)
(* archive on disk, lookup the version to find in the history; each is a   *)
(* set of at most one.  Without an input there is an error.                *)

\* history_input: the stored file stands for the whole release.
HistoryInput(entry) ==
    [event |-> entry.event, capture |-> entry.capture, lookup |-> {entry.event.version},
     path |-> IF entry.capture = NoCapture \/ entry.capture.stored # "file" THEN {}
              ELSE {a.archive : a \in StoredArtifact(entry.capture)}]

\* infer_version_from_filename: one of the spellings of the package, and after
\* it the version.
InferredVersion(package, filename) ==
    IF filename.suffix = "other" \/ filename.project # package THEN {} ELSE {filename.version}

\* synthesize_local_input: file is [there, filename, archive], there telling
\* whether it is a file.  Its digests and its size are the file's own.  MaxVersion
\* stands for the label of a file whose version is not known.
LocalInput(ecosystem, package, explicit, file, now) ==
    LET lookup  == IF explicit # {} THEN explicit ELSE InferredVersion(package, file.filename)
        version == IF lookup = {} THEN MaxVersion ELSE Min(lookup)
    IN  IF ~file.there THEN {}
        ELSE {[event |-> OnlineEvent(ecosystem, package, version, NoTime, now),
               capture |-> [status |-> "unknown", stored |-> "file", at |-> now,
                            details |-> [local_artifact |-> {file.archive}],
                            artifacts |-> <<[filename |-> file.filename, url |-> "none",
                                             kind |-> ClassifyFilename(file.filename),
                                             archive |-> file.archive,
                                             listed |-> {"size", "sha256", "sha512"}]>>],
               path |-> {file.archive}, lookup |-> lookup]}

InHistory(entries, versions) ==
    {HistoryInput(entries[IndexOf(entries, v)]) : v \in versions \cap VersionsOf(entries)}

\* resolve_target_input: file is a set of at most one.
TargetInput(ecosystem, package, version, file, entries, now) ==
    IF file = {} THEN InHistory(entries, version)
    ELSE UNION {LocalInput(ecosystem, package, version, f, now) : f \in file}

\* resolve_baseline_input: selector is {}, {"previous"} or a set of one version.
\* A version of the target's own is refused only if it is found.
BaselineInput(ecosystem, package, selector, file, entries, target, now) ==
    LET explicit == IF selector = {"previous"} THEN {} ELSE selector
    IN  IF file # {} THEN UNION {LocalInput(ecosystem, package, explicit, f, now) : f \in file}
        ELSE IF explicit = {}
             THEN {HistoryInput(e) : e \in
                       UNION {PreviousEntry(entries, v) : v \in target.lookup}}
        ELSE InHistory(entries, explicit \ target.lookup)

\* build_notes
DiffNotes(baseline, target, content) ==
    LET sides == {[side |-> "baseline", input |-> baseline], [side |-> "target", input |-> target]}
    IN  {[side |-> s.side, note |-> "no capture"] : s \in {x \in sides : x.input.capture = NoCapture}}
        \cup {[side |-> s.side, note |-> "local file"] : s \in {x \in sides : x.input.path # {}}}
        \cup (IF content.available THEN {} ELSE {[side |-> "content", note |-> content.reason]})

\* build_release_diff_from_inputs
DiffOfInputs(baseline, target, patches) ==
    LET content == ContentDiff(baseline.capture, target.capture, baseline.path, target.path, patches)
        status(capture) == IF capture = NoCapture THEN [status |-> "uncaptured"] ELSE capture
    IN  [baseline |-> baseline.event.id, target |-> target.event.id,
         status |-> StatusDiff(status(baseline.capture), status(target.capture)),
         artifacts |-> ArtifactDiff(baseline.capture, target.capture),
         details |-> DetailsDiff(baseline.capture, target.capture),
         content |-> content, notes |-> DiffNotes(baseline, target, content)]

\* load_release_diff, of the local history or the one of the registry: at most
\* one diff.
ReleaseDiffs(ecosystem, package, request, history, now) ==
    LET entries == DedupedHistory(history)
    IN  UNION {{DiffOfInputs(b, t, request.patches) :
                   b \in BaselineInput(ecosystem, package, request.selector,
                                       request.baseline_file, entries, t, now)} :
               t \in TargetInput(ecosystem, package, request.version, request.target_file,
                                 entries, now)}

\* build_stored_release_diff: the status of diff.json, and the diff.
StoredReleaseDiff(data, ecosystem, package, target) ==
    LET entries  == DedupedHistory(LocalHistory(data, ecosystem, package))
        baseline == PreviousEntry(entries, target)
    IN  IF target \notin VersionsOf(entries) THEN [status |-> "error"]
        ELSE IF baseline = {} THEN [status |-> "no_baseline"]
        ELSE [status |-> "ready",
              diff |-> DiffOfInputs(HistoryInput(CHOOSE b \in baseline : TRUE),
                                    HistoryInput(entries[IndexOf(entries, target)]),
                                    FALSE)]

=============================================================================
