------------------------------ MODULE MCHistory -------------------------------
(***************************************************************************)
(* What is read from the collected data, and diffs, for TLC: the data they *)
(* are applied to, and what must hold of the results.                      *)
(***************************************************************************)
EXTENDS MCJudgement, ReleaseDiff

Seen(id, ecosystem, package, version, published, observed, source, tier) ==
    [id |-> id, ecosystem |-> ecosystem, package |-> package, version |-> version,
     published |-> published, observed |-> observed, source |-> source, tier |-> tier]

Ledgers(observed) ==
    [observed |-> observed, legacy |-> <<>>, reconstructed |-> <<>>, torn |-> {}]

-----------------------------------------------------------------------------
(* Backfill.  Release 2 is the target of a diff; it and others are known   *)
(* locally, and the registry shows some of three releases.                 *)

BackfillInputs ==
    {[part |-> "backfill", kind |-> k, local |-> l \cup {2}, dated |-> d, shown |-> s, times |-> t,
      existing |-> e, lineage |-> b] :
        k \in {"npm", "pypi", "down"}, l \in SUBSET {1, 3}, d \in BOOLEAN, s \in SUBSET (1..3),
        t \in [1..3 -> 1..2], e \in {"none", "no_baseline", "ready", "unreadable", "no_markdown"}, b \in BOOLEAN}

BackfillNow == 9

Registry(i) ==
    [kind |-> i.kind,
     releases |-> {[version |-> v, time |-> i.times[v], yanked |-> FALSE, artifact |-> v,
                    details |-> [k \in {} |-> {}],
                    files |-> IF v = 1 /\ ~i.dated THEN <<>>
                              ELSE <<[upload |-> i.times[v], yanked |-> FALSE, artifact |-> v]>>] :
                       v \in i.shown}]

BackfillData(i) ==
    LET event(v) == Seen(EventId(1, v), 1, 1, v, IF i.dated THEN i.times[v] ELSE NoTime, 4 + v,
                         "none", "high")
    IN  [records |-> UNION {UpsertRecord({}, event(v), "observed") : v \in i.local},
         ledgers |-> Ledgers(SetToSortSeq({event(v) : v \in i.local}, Older)),
         files |-> [id \in {EventId(1, v) : v \in 1..3} |-> [capture |-> NoCapture, diff |-> FALSE,
                                                             half |-> {}]]]

\* When the backfill says that it has found the release before the target, the
\* diff that is built again has that release as its baseline -- if the registry
\* dates it before the target.  A release without a date or of the same moment
\* counts as released when it was looked up, and comes after the target.
BackfillGivesBaseline ==
    input.part = "backfill" =>
        \A data \in {BackfillData(input)}, registry \in {Registry(input)} :
            \A result \in {DiffWithLineage(data, 1, 1, 2, registry, BackfillNow, input.existing,
                                           input.lineage)},
               target \in {r \in data.records : r.version = 2},
               before \in PreviousEntry(OnlineHistory(1, 1, registry, BackfillNow), 2) :
                result.outcome = "backfilled" /\ ReleasedAt(before.event) < ReleasedAt(target) =>
                    {e.event.version : e \in result.baseline} = {before.event.version}

-----------------------------------------------------------------------------
(* Install hooks.                                                          *)

Content(body) == [text |-> TRUE, parsed |-> TRUE, body |-> body]

Up == 0     \* ..

Word(path, file, option, suffix) == [path |-> path, file |-> file, option |-> option, suffix |-> suffix]

\* Two words that name what they run, and five that do not: one relative to
\* another directory, one with a .., one without a suffix, one after a = and one
\* of a file of another name.
HookWords ==
    {Word(<<4>>, <<4>>, FALSE, TRUE), Word(<<7, 4>>, <<7, 4>>, FALSE, TRUE),
     Word(<<4>>, <<7, 4>>, FALSE, TRUE), Word(<<7, Up, 4>>, <<4>>, FALSE, TRUE),
     Word(<<4>>, <<4>>, FALSE, FALSE), Word(<<4>>, <<4>>, TRUE, TRUE),
     Word(<<4>>, <<7, 4>>, FALSE, FALSE)}

HookScripts ==
    {NoScripts, [h \in {"install"} |-> <<Word(<<4>>, <<4>>, FALSE, TRUE),
                                         Word(<<7, 4>>, <<7, 4>>, FALSE, FALSE)>>]}
    \cup {[h \in {"install"} |-> <<w>>] : w \in HookWords}

\* A release's files but its package.json: the states of those that are there.
HookFiles == UNION {[paths -> 1..2] : paths \in SUBSET {<<4>>, <<7, 4>>}}

HookTrees ==
    {[scripts |-> s, files |-> f, beside |-> b] : s \in HookScripts, f \in HookFiles, b \in BOOLEAN}

\* The states only tell a file of one release from that of the other: those of
\* the baseline are all 1.
FirstTrees == {t \in HookTrees : \A p \in DOMAIN t.files : t.files[p] = 1}

\* The archive: its top directory is 9, and beside it there may be a file 8.
InArchive(tree) ==
    {<<9>> \o p : p \in {<<PackageJson>>} \cup DOMAIN tree.files}
    \cup (IF tree.beside THEN {<<8>>} ELSE {})

Tree(tree) ==
    [q \in InArchive(tree) |->
        IF q = <<8>> THEN Content({0})
        ELSE IF Tail(q) = <<PackageJson>> THEN Content(tree.scripts)
        ELSE Content({tree.files[Tail(q)]})]

HookInputs == {[part |-> "hook", baseline |-> b, target |-> t] : b \in FirstTrees, t \in HookTrees}

\* A file is in the same state in both releases, or in neither.
SameIn(baseline, target, path) ==
    /\ path \in DOMAIN baseline.files <=> path \in DOMAIN target.files
    /\ path \in DOMAIN baseline.files => baseline.files[path] = target.files[path]

\* What the code does not see of a word: it takes it for none of a script file,
\* or for another file than the one that runs.
Overlooked(word) == ~NamesScript(word) \/ word.path # word.file

\* A hook that is called longstanding has the same scripts in both releases, and
\* what they run is the same, wherever the archive has its files -- but for the
\* words that the code overlooks: behind them a file may change unnoticed.  A hook
\* of two releases with scripts that is not called so has other scripts, or
\* a file that these name is another one.
LongstandingIsUnchanged ==
    input.part = "hook" =>
        LET old == input.baseline
            new == input.target
            hook == NpmInstallHookDiff(Collected(Tree(old)), Collected(Tree(new)))
            named == {w \in WordsOf(old.scripts) \cup WordsOf(new.scripts) : NamesScript(w)}
        IN  /\ hook.known /\ hook.longstanding =>
                   /\ DOMAIN new.scripts # {} /\ old.scripts = new.scripts
                   /\ \A w \in WordsOf(new.scripts) : SameIn(old, new, w.file) \/ Overlooked(w)
            /\ /\ hook.known /\ ~hook.longstanding /\ ~old.beside /\ ~new.beside
               /\ DOMAIN old.scripts # {} /\ DOMAIN new.scripts # {}
               => old.scripts # new.scripts \/ \E w \in named : ~SameIn(old, new, w.path)

-----------------------------------------------------------------------------
(* Stored artifacts.                                                       *)

Artifact(kind, suffix, format, body) ==
    [filename |-> [project |-> 1, version |-> body, suffix |-> suffix], kind |-> kind,
     url |-> "served", listed |-> {"sha256"},
     archive |-> [format |-> format, files |-> [p \in {<<9, 4>>} |-> Content({body})]]]

Artifacts(body) ==
    LET wheel == Artifact("bdist_wheel", "whl", "zip", body)
        sdist == Artifact("sdist", "tar.gz", "gzip", body)
        egg   == Artifact("bdist_egg", "other", "zip", body + 10)
    IN  {<<wheel>>, <<sdist>>, <<wheel, sdist>>, <<sdist, wheel>>, <<egg, wheel>>}

ReleaseCapture(artifacts, stored) ==
    [status |-> "active", artifacts |-> artifacts, details |-> [k \in {} |-> {}],
     stored |-> stored, at |-> 1]

StoredInputs ==
    {[part |-> "stored", baseline |-> b, target |-> t, patches |-> FALSE] :
        b \in {ReleaseCapture(a, s) : a \in Artifacts(1), s \in {"no", "file"}},
        t \in {ReleaseCapture(a, s) : a \in Artifacts(1) \cup Artifacts(2), s \in {"no", "file"}}}

ContentOfCaptures(baseline, target) ==
    LET side(capture) == HistoryInput([event |-> [version |-> 1], capture |-> capture])
    IN  ContentDiff(baseline, target, side(baseline).path, side(target).path, FALSE)

\* What the comment says: the artifact on disk is preferred to downloading it
\* again -- so that the diff is the one of the downloads.
StoredCopyStands ==
    input.part = "stored" =>
        LET fetched == ContentOfCaptures([input.baseline EXCEPT !.stored = "no"],
                                         [input.target EXCEPT !.stored = "no"])
            stored == ContentOfCaptures(input.baseline, input.target)
        IN  fetched.available => stored.available /\ stored.changes = fetched.changes

StoredSpec == input \in StoredInputs /\ [][UNCHANGED input]_input

HistoryInputs == BackfillInputs \cup HookInputs

=============================================================================
