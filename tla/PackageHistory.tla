---------------------------- MODULE PackageHistory ----------------------------
(***************************************************************************)
(* The history of a package, local and as the registry shows it, and the   *)
(* backfill of the release before another (history.rs, autodiff.rs).       *)
(*                                                                         *)
(* data: what the collector keeps, [records, ledgers, files], as in        *)
(* ReleaseQueries.  An entry is an event and its capture, if there is one. *)
(* A capture is [status, artifacts, details, stored, at]: stored is "file" *)
(* when it has an artifact on disk.                                        *)
(* A registry shows a set of releases: of PyPI, [version, files], a file   *)
(* being [upload, yanked, artifact]; of npm and crates.io, [version, time, *)
(* yanked, artifact]; each with the details kept of it.                    *)
(***************************************************************************)
EXTENDS ReleaseQueries

MaxVersion == 9     \* the versions of a package are 1 to 9

\* The id of an event names package and version.
EventId(package, version) == (MaxVersion + 1) * package + version

-----------------------------------------------------------------------------
(* Local history.                                                          *)

Entry(data, event) == [event |-> event, capture |-> data.files[event.id].capture]

\* local_store: an empty table is rebuilt before it is read, and when that stops
\* nothing is read; nor is anything where a capture of the package does not parse.
LocalStore(data) ==
    [data EXCEPT !.records = ReconcileIfEmpty(@, data.ledgers, data.files)]

StoreOpens(data) == data.records # {} \/ ReconcileEnds(data.ledgers, data.files)

HistoryOpens(data, ecosystem, package) ==
    /\ StoreOpens(data)
    /\ \A r \in LocalStore(data).records :
           r.ecosystem = ecosystem /\ r.package = package => "capture" \notin data.files[r.id].half

LocalHistory(data, ecosystem, package) ==
    LET events == PackageEvents(LocalStore(data).records, ecosystem, package)
    IN  [i \in DOMAIN events |-> Entry(data, events[i])]

\* load_recent_history: the ones observed last, the ones released last first.
RecentHistory(data, ecosystem, limit) ==
    LET events == RecentEvents(LocalStore(data).records, ecosystem, {limit})
        sorted == Reverse(SetToSortSeq(ToSet(events), Older))
    IN  [i \in DOMAIN sorted |-> Entry(data, sorted[i])]

\* dedupe_history_entries: the last entry of each version.
DedupedHistory(entries) ==
    LET last == {i \in DOMAIN entries : \A j \in DOMAIN entries :
                     j > i => entries[j].event.version # entries[i].event.version}
        kept == SetToSortSeq(last, <)
    IN  [k \in DOMAIN kept |-> entries[kept[k]]]

VersionsOf(entries) == {entries[i].event.version : i \in DOMAIN entries}

\* release_index; an entry exists.
IndexOf(entries, version) == Min({i \in DOMAIN entries : entries[i].event.version = version})

\* What precedes a version in a history without doubles: at most one entry.
PreviousEntry(entries, version) ==
    IF version \notin VersionsOf(entries) \/ IndexOf(entries, version) = 1 THEN {}
    ELSE {entries[IndexOf(entries, version) - 1]}

-----------------------------------------------------------------------------
(* The history a registry shows.  Every release has a capture, made now.   *)

OnlineEvent(ecosystem, package, version, published, now) ==
    [id |-> EventId(package, version), ecosystem |-> ecosystem, package |-> package,
     version |-> version, published |-> published, observed |-> now, source |-> "none",
     tier |-> "low"]

\* A release without files has no time of publication; one yanked file is enough.
PypiEntry(ecosystem, package, release, now) ==
    LET files == release.files
        times == {files[i].upload : i \in DOMAIN files} \ {NoTime}
    IN  [event |-> OnlineEvent(ecosystem, package, release.version,
                               IF times = {} THEN NoTime ELSE Min(times), now),
         capture |-> [status |-> IF \E i \in DOMAIN files : files[i].yanked THEN "yanked"
                                 ELSE "active",
                      artifacts |-> [i \in DOMAIN files |-> files[i].artifact],
                      details |-> release.details, stored |-> "no", at |-> now]]

\* A deprecated npm release is as active as any other.
NpmEntry(ecosystem, package, release, now) ==
    [event |-> OnlineEvent(ecosystem, package, release.version, release.time, now),
     capture |-> [status |-> "active", artifacts |-> <<release.artifact>>,
                  details |-> release.details, stored |-> "no", at |-> now]]

CratesEntry(ecosystem, package, release, now) ==
    [event |-> OnlineEvent(ecosystem, package, release.version, release.time, now),
     capture |-> [status |-> IF release.yanked THEN "yanked" ELSE "active",
                  artifacts |-> <<release.artifact>>, details |-> release.details, stored |-> "no", at |-> now]]

\* load_package_history_online.  registry: [kind, releases].
OnlineHistory(ecosystem, package, registry, now) ==
    LET entry(r) == CASE registry.kind = "pypi" -> PypiEntry(ecosystem, package, r, now)
                      [] registry.kind = "npm"  -> NpmEntry(ecosystem, package, r, now)
                      [] OTHER                  -> CratesEntry(ecosystem, package, r, now)
        Before(l, r) == Older(l.event, r.event)
    IN  SetToSortSeq({entry(r) : r \in registry.releases}, Before)

-----------------------------------------------------------------------------
(* Backfill.                                                               *)

\* What the registry shows before the target, unless it is known locally.
LineageCandidate(local, online, target) ==
    {e \in PreviousEntry(online, target) : e.event.version \notin VersionsOf(local)}

\* The writes of persist_history_entries, in their order: the line of a release
\* that no ledger has, its row, its capture unless there is a file, and the row of
\* that in any case.
AppendEntry(data, event) == [data EXCEPT !.ledgers.reconstructed = Append(@, event)]

UpsertEntry(data, event) == [data EXCEPT !.records = UpsertRecord(@, event, "reconstructed")]

WriteEntry(data, id, capture) ==
    [data EXCEPT !.files[id].capture = IF @ = NoCapture THEN capture ELSE @]

RecordEntry(data, event, capture) ==
    [data EXCEPT !.records =
        CaptureRecord(UpsertRecord(@, event, "reconstructed"), event.id, capture)]

\* Mutant: only the files are written.
PersistEntryFilesOnly(data, entry) ==
    WriteEntry(AppendEntry(LocalStore(data), entry.event), entry.event.id, entry.capture)

\* All of it, where nothing fails and nothing comes in between.
PersistEntry(data, entry) ==
    LET store  == LocalStore(data)
        logged == IF entry.event.id \in LoggedIds(data.ledgers) THEN store
                  ELSE AppendEntry(store, entry.event)
    IN  RecordEntry(WriteEntry(UpsertEntry(logged, entry.event), entry.event.id, entry.capture),
                    entry.event, entry.capture)

\* backfill_previous_lineage: its outcome and what it leaves.  It is unavailable
\* where the registry does not answer or a ledger does not parse.
Backfill(data, ecosystem, package, target, registry, now) ==
    LET online == DedupedHistory(OnlineHistory(ecosystem, package, registry, now))
        candidate == LineageCandidate(LocalHistory(data, ecosystem, package), online, target)
    IN  IF registry.kind = "down" \/ (candidate # {} /\ data.ledgers.torn # {})
        THEN [outcome |-> "unavailable", data |-> LocalStore(data)]
        ELSE IF candidate # {}
             THEN [outcome |-> "backfilled",
                   data |-> PersistEntry(data, CHOOSE e \in candidate : TRUE)]
        ELSE IF target \in VersionsOf(online)
             THEN [outcome |-> "no_previous_release", data |-> LocalStore(data)]
        ELSE [outcome |-> "target_not_visible_online", data |-> LocalStore(data)]

\* The baseline of a stored diff: the local release before the target's.
StoredBaseline(data, ecosystem, package, target) ==
    PreviousEntry(DedupedHistory(LocalHistory(data, ecosystem, package)), target)

\* generate_if_missing, as far as the baseline goes.  existing is what there is of
\* the diff on disk: "none", its status, "unreadable", or "no_markdown" where the
\* text it should have beside it is missing; outcome "kept" leaves it there.
DiffWithLineage(data, ecosystem, package, target, registry, now, existing, lineage) ==
    LET backfill == Backfill(data, ecosystem, package, target, registry, now)
        before   == StoredBaseline(data, ecosystem, package, target)
        missing  == target \notin VersionsOf(LocalHistory(data, ecosystem, package))
    IN  IF existing = "unreadable" /\ lineage
        THEN [outcome |-> "failed", baseline |-> {}, data |-> data]
        ELSE IF existing \notin {"none", "no_markdown"} /\ ~(lineage /\ existing = "no_baseline")
             THEN [outcome |-> "kept", baseline |-> {}, data |-> data]
        ELSE IF ~HistoryOpens(data, ecosystem, package) \/ missing
             THEN [outcome |-> "failed", baseline |-> {}, data |-> LocalStore(data)]
        ELSE IF before = {} /\ lineage
             THEN [outcome |-> backfill.outcome, data |-> backfill.data,
                   baseline |-> IF backfill.outcome = "backfilled"
                                THEN StoredBaseline(backfill.data, ecosystem, package, target)
                                ELSE {}]
        ELSE [outcome |-> "built", baseline |-> before, data |-> LocalStore(data)]

=============================================================================
