--------------------------- MODULE PriorityPolicy ---------------------------
(***************************************************************************)
(* The decisions of the priority resolver (priority.rs): how snapshots are *)
(* ranked and merged, how counts become tiers, when a package is expanded. *)
(* Metrics are integers; an absent one is NoMetric.  Hidden leverage is    *)
(* ln((impact + 1) / (popularity + 1)), kept as that pair and compared as  *)
(* a ratio, which ln preserves.                                            *)
(***************************************************************************)
EXTENDS Integers, Sequences, FiniteSets, SequencesExt

NoMetric == -1

TierRank == [low |-> 0, medium |-> 1, high |-> 2]

SourceRank ==
    [default_unknown |-> 0, known_package_stub |-> 1, package_census |-> 2,
     local_graph |-> 3, deps_dev_dependents_api |-> 4,
     ecosyste_ms_counts_api |-> 4, offline_score_file |-> 5]

PriorityTiers == DOMAIN TierRank
PrioritySources == DOMAIN SourceRank

MetricOrZero(metric) == IF metric = NoMetric THEN 0 ELSE metric

NoLeverage == <<1, 1>>
Leverage(impact, popularity) == <<impact + 1, popularity + 1>>
HigherLeverage(l1, l2) == l1[1] * l2[2] > l2[1] * l1[2]

Snapshot(tier, source, popularity, impact) ==
    [tier |-> tier, source |-> source, popularity |-> popularity,
     impact |-> impact, leverage |-> Leverage(MetricOrZero(impact), MetricOrZero(popularity))]

DefaultUnknown == Snapshot("medium", "default_unknown", NoMetric, NoMetric)
KnownPackageStub == Snapshot("medium", "known_package_stub", 0, 0)
CensusSnapshot == Snapshot("medium", "package_census", 0, 0)

SnapshotCaptureRequested(snapshot) == snapshot.tier # "low"
SnapshotDiffRequested(snapshot) == snapshot.tier = "high"
Bucket(snapshot) ==
    IF snapshot.source = "default_unknown" THEN "unknown" ELSE snapshot.tier

-----------------------------------------------------------------------------
(* Replacing what is known of a package.                                   *)

ShouldReplace(existing, candidate) ==
    LET er == SourceRank[existing.source]
        cr == SourceRank[candidate.source]
        et == TierRank[existing.tier]
        ct == TierRank[candidate.tier]
    IN  \/ cr > er
        \/ cr = er /\ ct > et
        \/ /\ cr = er /\ ct = et
           /\ \/ MetricOrZero(candidate.impact) > MetricOrZero(existing.impact)
              \/ MetricOrZero(candidate.popularity) > MetricOrZero(existing.popularity)
              \/ HigherLeverage(candidate.leverage, existing.leverage)

\* Suspicious metadata raises a tier; it never lowers one.
ApplyMetadataRiskOverride(snapshot, suspicious, score) ==
    LET tier == IF score >= 8 THEN "high" ELSE "medium"
    IN  IF suspicious /\ TierRank[tier] > TierRank[snapshot.tier]
        THEN [snapshot EXCEPT !.tier = tier]
        ELSE snapshot

\* Mutant: scores of the local graph are not persisted either.
RequiresLessPersistence(snapshot) ==
    snapshot.source \notin {"known_package_stub", "package_census", "local_graph"}

RequiresRuntimePersistence(snapshot) ==
    snapshot.source \notin {"known_package_stub", "package_census"}

PersistsToScoreFile(snapshot) ==
    snapshot.source \in {"local_graph", "offline_score_file"}

\* A record that names no source comes from the offline score file.
SnapshotFromScoreRecord(record) ==
    [record EXCEPT !.source = IF @ = "none" THEN "offline_score_file" ELSE @]

\* The file's records, by package; the last line of a package counts.  The
\* updates are taken in order, each against what the ones before it left.
\* Mutant: an update always wins.
OverwriteScoreRecords(existing, updates) ==
    FoldLeft(LAMBDA merged, update :
                 [p \in DOMAIN merged \cup {update.package} |->
                     IF p = update.package THEN update.record ELSE merged[p]],
             existing, updates)

MergeScoreRecord(merged, update) ==
    [p \in DOMAIN merged \cup {update.package} |->
        IF /\ p = update.package
           /\ \/ p \notin DOMAIN merged
              \/ ShouldReplace(SnapshotFromScoreRecord(merged[p]),
                               SnapshotFromScoreRecord(update.record))
        THEN update.record
        ELSE merged[p]]

MergeScoreRecords(existing, updates) ==
    LET merged[n \in 0..Len(updates)] ==
            IF n = 0 THEN existing ELSE MergeScoreRecord(merged[n - 1], updates[n])
    IN  merged[Len(updates)]

\* The score file: [exists, lines], a line being "blank", "broken" or a
\* [package, record].  What is read of it is <<>>, when it cannot be read, or
\* <<the records in their order>>.
LoadScoreRecords(file) ==
    IF ~file.exists THEN << <<>> >>
    ELSE IF "broken" \in {l.line : l \in ToSet(file.lines)} THEN <<>>
    ELSE <<SelectSeq(file.lines, LAMBDA l : l.line = "record")>>

WriteScoreRecords(records) == [exists |-> TRUE, lines |-> records]

\* The last line of a package is the one that an update replaces.
UpdatedLines(lines, update) ==
    LET same == {i \in DOMAIN lines : lines[i].package = update.package}
        last == CHOOSE i \in same : \A j \in same : j <= i
    IN  IF same = {} THEN Append(lines, update)
        ELSE IF ShouldReplace(SnapshotFromScoreRecord(lines[last].record),
                              SnapshotFromScoreRecord(update.record))
        THEN [lines EXCEPT ![last] = update]
        ELSE lines

\* merge_priority_score_records on the lines of a file: sorted by package,
\* those of one package in their order.
MergedLines(lines, updates) ==
    LET updated == FoldLeft(UpdatedLines, lines, updates)
        packages == SetToSortSeq({l.package : l \in ToSet(updated)}, LAMBDA p, q : p < q)
        of(p) == SelectSeq(updated, LAMBDA l : l.package = p)
    IN  FlattenSeq([i \in DOMAIN packages |-> of(packages[i])])

UpsertScoreRecords(file, updates) ==
    LET lines == LoadScoreRecords(file)
    IN  IF lines = <<>> THEN file ELSE WriteScoreRecords(MergedLines(lines[1], updates))

\* What the store holds is merged into the file.
ExportScoreRecords(file, rows) ==
    LET lines == LoadScoreRecords(file)
    IN  IF lines = <<>> THEN file
        ELSE WriteScoreRecords(IF rows = <<>> THEN lines[1] ELSE MergedLines(lines[1], rows))

\* By package: the last line counts.
RecordsOfLines(lines) ==
    [p \in {l.package : l \in ToSet(lines)} |->
        LET same == {i \in DOMAIN lines : lines[i].package = p}
        IN  SnapshotFromScoreRecord(lines[CHOOSE i \in same : \A j \in same : j <= i].record)]

-----------------------------------------------------------------------------
(* From counts to tiers.                                                   *)

MinMediumImpact == 10
MinHighImpact == 100

\* Index of a quantile (in percent) of n sorted values, from 0: half rounds up.
QuantileIndex(n, percent) == (2 * (n - 1) * percent + 100) \div 200

\* impacts: the sorted positive impacts of an ecosystem's score records.
FallbackThresholds(impacts) ==
    [high   |-> impacts[QuantileIndex(Len(impacts), 99) + 1],
     medium |-> impacts[QuantileIndex(Len(impacts), 90) + 1]]

\* The impact of a score record that takes part in the thresholds, or 0.
RecordImpact(record) ==
    IF record.impact # NoMetric THEN record.impact ELSE MetricOrZero(record.popularity)

TierAt(impact, high, medium) ==
    IF impact >= high THEN "high" ELSE IF impact >= medium THEN "medium" ELSE "low"

Greatest(a, b) == IF a >= b THEN a ELSE b

\* The online services' counts never make a small package important.
FallbackTier(impact, thresholds) ==
    IF thresholds = <<>>
    THEN TierAt(impact, MinHighImpact, MinMediumImpact)
    ELSE TierAt(impact, Greatest(thresholds[1].high, MinHighImpact),
                        Greatest(thresholds[1].medium, MinMediumImpact))

\* The local graph's own counts; `otherwise` is the tier without thresholds.
LocalTier(impact, thresholds, otherwise) ==
    IF thresholds = <<>> THEN otherwise
    ELSE TierAt(impact, thresholds[1].high, thresholds[1].medium)

SnapshotFromValues(popularity, dependents, thresholds) ==
    LET impact == Greatest(dependents, popularity)
    IN  Snapshot(LocalTier(impact, thresholds, "medium"), "local_graph", popularity, impact)

SnapshotFromDependentsCounts(dependents, direct, thresholds) ==
    Snapshot(FallbackTier(dependents, thresholds), "deps_dev_dependents_api",
             direct, dependents)

\* repositories: <<>> or <<count>>.
SnapshotFromEcosystemsCounts(packages, repositories, thresholds) ==
    LET impact == IF repositories = <<>> THEN packages ELSE Greatest(repositories[1], packages)
    IN  Snapshot(FallbackTier(impact, thresholds), "ecosyste_ms_counts_api", packages, impact)

\* deps.dev first; ecosyste.ms when it fails.  An answer is <<>> (failed) or
\* <<snapshot>>.
ResolveOnline(deps_dev, ecosystems) == IF deps_dev # <<>> THEN deps_dev ELSE ecosystems

\* In the service it is unknown when both of them fail.
OnlineSnapshot(deps_dev, ecosystems) ==
    LET told == ResolveOnline(deps_dev, ecosystems)
    IN  IF told # <<>> THEN told[1] ELSE DefaultUnknown

\* What resolve_for_event makes of it: an unknown package becomes a stub.
FallbackOrStub(snapshot) ==
    IF snapshot.source = "default_unknown" THEN KnownPackageStub ELSE snapshot

\* versions: a sequence of [default, published]; the flagged one, or the last
\* published, the later of equals; 0 when there is none.
DefaultVersion(versions) ==
    LET flagged == {i \in DOMAIN versions : versions[i].default}
        latest  == {i \in DOMAIN versions :
                       \A j \in DOMAIN versions :
                           \/ versions[i].published > versions[j].published
                           \/ versions[i].published = versions[j].published /\ i >= j}
    IN  IF versions = <<>> THEN 0
        ELSE IF flagged # {} THEN CHOOSE i \in flagged : \A j \in flagged : i <= j
        ELSE CHOOSE i \in latest : TRUE

\* A count that is told is {n}, one that is not is {}; what is fetched is <<>>
\* when it fails.  `dependents` is asked of the default version alone.
DepsDevFallback(package, dependents, thresholds) ==
    LET version == DefaultVersion(package.versions)
        answer  == dependents[version]
    IN  IF ~package.found \/ version = 0 \/ ~answer.found \/ answer.total = {} THEN <<>>
        ELSE <<SnapshotFromDependentsCounts(
                   CHOOSE n \in answer.total : TRUE,
                   IF answer.direct = {} THEN 0 ELSE CHOOSE n \in answer.direct : TRUE,
                   thresholds)>>

\* The usage by repositories is asked for only when the package does not tell
\* it; a refusal of that is no failure, no answer or a garbled one is.
EcosystemsFallback(package, usage, thresholds) ==
    LET repositories == IF package.repositories # {} THEN SetToSeq(package.repositories)
                        ELSE IF usage.status = "ok" THEN SetToSeq(usage.count) ELSE <<>>
    IN  IF \/ ~package.found \/ package.packages = {}
           \/ package.repositories = {} /\ usage.status = "broken"
        THEN <<>>
        ELSE <<SnapshotFromEcosystemsCounts(CHOOSE n \in package.packages : TRUE,
                                            repositories, thresholds)>>

-----------------------------------------------------------------------------
(* Expansion of the graph around a package.                                *)

ShouldExpand(snapshot, observations, minimum) ==
    CASE snapshot.source = "local_graph" ->
             snapshot.tier = "high" /\ observations >= minimum
      [] snapshot.source \in {"deps_dev_dependents_api", "ecosyste_ms_counts_api"} ->
             snapshot.tier = "high" \/ observations >= minimum
      [] snapshot.source \in {"package_census", "known_package_stub"} ->
             observations >= minimum
      [] OTHER -> FALSE

\* remember_snapshot, against what is known by then: <<>> or <<snapshot>>.
RememberedOver(known, snapshot) ==
    IF known # <<>> /\ ~ShouldReplace(known[1], snapshot) THEN known[1] ELSE snapshot

\* A package that is resolved: what was known of it, or else what the local
\* graph makes of it, the census, or `otherwise`; `meanwhile` is what is known
\* when that is remembered.  Only what was not known is worth an expansion.
Resolution(known, local, in_census, otherwise, meanwhile, observations, minimum) ==
    LET found == IF local # <<>> THEN local[1] ELSE IF in_census THEN CensusSnapshot ELSE otherwise
        snapshot == RememberedOver(meanwhile, found)
    IN  IF known # <<>> THEN [snapshot |-> known[1], expand |-> FALSE]
        ELSE [snapshot |-> snapshot, expand |-> ShouldExpand(snapshot, observations, minimum)]

ResolveObservedRelease(known, local, in_census, meanwhile, observations, minimum) ==
    Resolution(known, local, in_census, KnownPackageStub, meanwhile, observations, minimum)

ResolveForEvent(known, local, in_census, online, meanwhile, observations, minimum) ==
    Resolution(known, local, in_census, FallbackOrStub(online), meanwhile, observations, minimum)

-----------------------------------------------------------------------------
(* The census: a record per package with when it was discovered (0 when    *)
(* unknown) and by what ("none" when unknown).                             *)

CensusSourceRank(source) ==
    CASE source \in {"pypi_simple_index", "npm_all_docs", "crates_io_native"} -> 5
      [] source = "graph_input" -> 4
      [] source \in {"offline_score_file", "local_graph"} -> 3
      [] source \in {"known_package_stub", "runtime_observed_v1"} -> 1
      [] source = "none" -> 0
      [] OTHER -> 2

MergeCensusRecord(target, candidate) ==
    LET known == {target.discovered_at, candidate.discovered_at} \ {0}
    IN  [discovered_at |-> IF known = {} THEN 0
                           ELSE CHOOSE t \in known : \A u \in known : t <= u,
         source |-> IF CensusSourceRank(candidate.source) > CensusSourceRank(target.source)
                    THEN candidate.source ELSE target.source]

\* records: a sequence of [package, record].
MergeCensusRecords(records) ==
    FoldLeft(LAMBDA merged, entry :
                 [p \in DOMAIN merged \cup {entry.package} |->
                     IF p # entry.package THEN merged[p]
                     ELSE IF p \in DOMAIN merged
                     THEN MergeCensusRecord(merged[p], entry.record)
                     ELSE entry.record],
             [p \in {} |-> 0], records)

-----------------------------------------------------------------------------
(* Listings.                                                               *)

\* Rank, from 1, of a package by a metric: descending, then by name.
RankBy(metric, packages, package) ==
    1 + Cardinality({p \in packages : \/ metric[p] > metric[package]
                                      \/ metric[p] = metric[package] /\ p < package})

\* The `limit` first packages in that order.
TopPackages(metric, packages, limit) ==
    {p \in packages : RankBy(metric, packages, p) <= limit}

\* How many records of each tier.
TierCounts(records) ==
    [t \in PriorityTiers |-> Cardinality({p \in DOMAIN records : records[p].tier = t})]

=============================================================================
