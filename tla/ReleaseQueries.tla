---------------------------- MODULE ReleaseQueries ----------------------------
(***************************************************************************)
(* What the store reads from release_index, and how the table is rebuilt   *)
(* from the ledgers and captures on disk (store.rs).                       *)
(*                                                                         *)
(* An event: [id, ecosystem, package, version, published, observed, source,*)
(* tier].  A record is an event with its origin, its `job` (a row of       *)
(* ReleaseIndex) and `capture_at`, the time its capture was settled.       *)
(* Ecosystems, ids and times are numbers, and the order of their texts is  *)
(* theirs.  A choice that may be left open is a set with at most one       *)
(* member.                                                                 *)
(***************************************************************************)
EXTENDS ReleaseIndex, ScoreGraph, FiniteSetsExt

NoTime == 0
NoCapture == [status |-> "uncaptured"]

ReleasedAt(event) == IF event.published = NoTime THEN event.observed ELSE event.published

\* The (ecosystem, package, time) order of load_package_events.
Older(left, right) ==
    \/ ReleasedAt(left) < ReleasedAt(right)
    \/ /\ ReleasedAt(left) = ReleasedAt(right)
       /\ \/ left.observed < right.observed
          \/ left.observed = right.observed /\ left.id < right.id

Newer(left, right) ==
    left.observed > right.observed \/ (left.observed = right.observed /\ left.id > right.id)

Matches(value, choice) == choice = {} \/ value \in choice

Limited(sequence, limit) ==
    IF limit = {} THEN sequence
    ELSE SubSeq(sequence, 1, Min(limit \cup {Len(sequence)}))

NewestFirst(records, limit) == Limited(SetToSortSeq(records, Newer), limit)

-----------------------------------------------------------------------------
(* Releases.                                                               *)

\* load_package_events: the package as it is spelled.
PackageEvents(records, ecosystem, package) ==
    SetToSortSeq({r \in records : r.ecosystem = ecosystem /\ r.package = package}, Older)

\* load_package_release_times_since: the package's normal form, which the rows
\* of a package spelled otherwise do not have.
ReleaseTimesSince(records, ecosystem, package, since) ==
    {[id |-> r.id, version |-> r.version, at |-> ReleasedAt(r)] :
        r \in {x \in records : /\ x.ecosystem = ecosystem /\ x.package = Norm[package]
                               /\ ReleasedAt(x) >= since}}

ReleaseRecord(records, id) == {r \in records : r.id = id}

RecentEvents(records, ecosystem, limit) ==
    NewestFirst({r \in records : Matches(r.ecosystem, ecosystem)}, limit)

RecordsSince(records, ecosystem, since, limit) ==
    NewestFirst({r \in records : Matches(r.ecosystem, ecosystem) /\ r.observed >= since}, limit)

SettledAt(record) == IF record.capture_at = NoTime THEN record.observed ELSE record.capture_at

FailedCaptures(records, limit) ==
    LET Before(l, r) == SettledAt(l) > SettledAt(r) \/ (SettledAt(l) = SettledAt(r) /\ l.id > r.id)
    IN  Limited(SetToSortSeq({r \in records : r.job.capture = "failed"}, Before), limit)

SkippedByPolicy(record) ==
    /\ record.job.origin = "observed"
    /\ record.job.capture = "skipped" /\ record.job.capture_reason = "policy"

\* load_skipped_capture_records: without an ecosystem, a package is not
\* normalized.
SkippedInEcosystem(records, ecosystem, package, since, limit) ==
    NewestFirst({r \in records : /\ SkippedByPolicy(r) /\ r.ecosystem = ecosystem
                                 /\ Matches(r.package, {Norm[p] : p \in package})
                                 /\ \A s \in since : r.observed >= s}, limit)

SkippedAnywhere(records, package, since, limit) ==
    NewestFirst({r \in records : /\ SkippedByPolicy(r) /\ Matches(r.package, package)
                                 /\ \A s \in since : r.observed >= s}, limit)

SkippedCaptures(records, ecosystem, package, since, limit) ==
    IF ecosystem = {} THEN SkippedAnywhere(records, package, since, limit)
    ELSE SkippedInEcosystem(records, CHOOSE e \in ecosystem : TRUE, package, since, limit)

-----------------------------------------------------------------------------
(* Packages that keep appearing without evidence.                          *)

Stubs(records, ecosystem, since) ==
    {r \in records : /\ r.job.origin = "observed" /\ r.source = "known_package_stub"
                     /\ r.observed >= since /\ r.ecosystem = ecosystem}

\* One ecosystem's, as spelled: the most observed first, then the latest.
StubGroups(records, ecosystem, since, limit) ==
    LET stubs  == Stubs(records, ecosystem, since)
        of(p)  == {r \in stubs : r.package = p}
        groups == {[package |-> p, observations |-> Cardinality(of(p)),
                    last |-> Max({r.observed : r \in of(p)})] : p \in {r.package : r \in stubs}}
        Before(l, r) == \/ l.observations > r.observations
                        \/ l.observations = r.observations /\ l.last > r.last
                        \/ l.observations = r.observations /\ l.last = r.last
                               /\ l.package < r.package
    IN  Limited(SetToSortSeq(groups, Before), {limit})

\* load_hot_stub_packages: the limit holds for each ecosystem, and for all.
\* Two spellings of a package stay apart.
HotStubs(records, ecosystems, since, limit) ==
    LET group(e) == StubGroups(records, e, since, limit)
        all == UNION {{[ecosystem |-> e, package |-> Norm[group(e)[i].package],
                        observations |-> group(e)[i].observations, place |-> <<e, i>>] :
                           i \in DOMAIN group(e)} : e \in ecosystems}
        Before(l, r) ==
            \/ l.observations > r.observations
            \/ /\ l.observations = r.observations
               /\ \/ l.ecosystem < r.ecosystem
                  \/ l.ecosystem = r.ecosystem /\ l.package < r.package
                  \/ l.ecosystem = r.ecosystem /\ l.package = r.package
                         /\ l.place[2] < r.place[2]
    IN  Limited(SetToSortSeq(all, Before), {limit})

-----------------------------------------------------------------------------
(* Counts.                                                                 *)

NoEvidence == {"none", "default_unknown"}

Counts(records) ==
    LET number(S) == Cardinality(S)
    IN  [events |-> number(records),
         origin |-> [o \in Origins |-> number({r \in records : r.job.origin = o})],
         capture |-> [s \in JobStates |-> number({r \in records : r.job.capture = s})],
         diff |-> [s \in JobStates |-> number({r \in records : r.job.diff = s})],
         tier |-> [t \in Tiers |-> number({r \in records : /\ r.source \notin NoEvidence
                                                           /\ r.job.tier = t})],
         unknown |-> number({r \in records : r.source \in NoEvidence})]

\* stats: of all, and of every ecosystem that has a row.
StoreStatistics(records) ==
    [all |-> Counts(records),
     ecosystem |-> [e \in {r.ecosystem : r \in records} |->
                       Counts({r \in records : r.ecosystem = e})]]

-----------------------------------------------------------------------------
(* Writing a record, and writing all of them anew.                         *)

\* upsert_event_row, with the columns of the event: what a later event does
\* not say of the publication, an earlier one has said.
UpsertRecord(records, event, origin) ==
    LET old == ReleaseRecord(records, event.id)
        job == IF old = {} THEN NoRow ELSE (CHOOSE r \in old : TRUE).job
        kept(field) == IF event[field] # NoTime \/ old = {} THEN event[field]
                       ELSE (CHOOSE r \in old : TRUE)[field]
        new == [id |-> event.id, ecosystem |-> event.ecosystem, package |-> event.package,
                version |-> event.version, published |-> kept("published"),
                observed |-> event.observed, source |-> event.source,
                job |-> UpsertEventRow(job, origin, event.tier),
                capture_at |-> IF old = {} THEN NoTime ELSE (CHOOSE r \in old : TRUE).capture_at]
    IN  (records \ old) \cup {new}

\* update_capture_row and update_diff_row, on the record of an id if there is one.
CaptureRecord(records, id, capture) ==
    {IF r.id # id THEN r
     ELSE [r EXCEPT !.job = SetCapture(@, "ready", "none"), !.capture_at = capture.at] :
        r \in records}

DiffRecord(records, id) ==
    {IF r.id # id THEN r ELSE [r EXCEPT !.job = SetDiff(@, "ready", "none")] : r \in records}

\* ledgers: [observed, legacy, reconstructed, torn], three sequences of events and
\* those of the three that have a line that does not parse.  Of the observed
\* ledger the last line of a release counts, of the others the first.
LedgerNames == {"observed", "legacy", "reconstructed"}

LedgerIds(ledger) == {ledger[i].id : i \in DOMAIN ledger}
LinesOf(ledger, id) == {i \in DOMAIN ledger : ledger[i].id = id}
LoggedIds(ledgers) == UNION {LedgerIds(ledgers[l]) : l \in LedgerNames}

\* Mutant: what was discovered after the fact goes before what was observed.
LedgerEventReconstructedFirst(ledgers, id) ==
    IF id \in LedgerIds(ledgers.reconstructed)
    THEN [event |-> ledgers.reconstructed[Min(LinesOf(ledgers.reconstructed, id))],
          origin |-> "reconstructed"]
    ELSE IF id \in LedgerIds(ledgers.observed)
         THEN [event |-> ledgers.observed[Max(LinesOf(ledgers.observed, id))], origin |-> "observed"]
    ELSE [event |-> ledgers.legacy[Min(LinesOf(ledgers.legacy, id))], origin |-> "observed"]

LedgerEvent(ledgers, id) ==
    IF id \in LedgerIds(ledgers.observed)
    THEN [event |-> ledgers.observed[Max(LinesOf(ledgers.observed, id))], origin |-> "observed"]
    ELSE IF id \in LedgerIds(ledgers.legacy)
         THEN [event |-> ledgers.legacy[Min(LinesOf(ledgers.legacy, id))], origin |-> "observed"]
    ELSE [event |-> ledgers.reconstructed[Min(LinesOf(ledgers.reconstructed, id))],
          origin |-> "reconstructed"]

\* files[id]: [capture, diff, half] on disk, half being those of the two that are
\* there and do not parse.  A rebuild writes one row after the other, in the order
\* of the ids, and each statement at once.  It ends at the first of its stops: a
\* pair of a release and of what it is about to do for it.
RebuildSteps == {"event", "capture", "diff"}

Unreadable(files) == UNION {{id} \X files[id].half : id \in DOMAIN files}

\* The releases whose turn comes.
ReachedBefore(stops, ledgers) ==
    IF ledgers.torn # {} THEN {}
    ELSE {id \in LoggedIds(ledgers) :
              \A s \in stops : s[1] \in LoggedIds(ledgers) => id <= s[1]}

\* What a rebuild leaves that ends at the given stops.  A capture or a diff makes
\* its job ready whatever the row says.
ReconcileUntil(records, ledgers, files, stops) ==
    LET reached == ReachedBefore(stops, ledgers)
        ends(id, steps) == \E step \in steps : <<id, step>> \in stops
        known(id) == {r \in records : r.id = id}
        seen(id) == LedgerEvent(ledgers, id)
        upserted(id) == IF ends(id, {"event"}) THEN known(id)
                        ELSE UpsertRecord(known(id), seen(id).event, seen(id).origin)
        captured(id) == IF files[id].capture = NoCapture \/ ends(id, {"event", "capture"})
                        THEN upserted(id)
                        ELSE CaptureRecord(upserted(id), id, files[id].capture)
        compared(id) == IF ~files[id].diff \/ ends(id, RebuildSteps) THEN captured(id)
                        ELSE DiffRecord(captured(id), id)
    IN  {r \in records : r.id \notin reached} \cup UNION {compared(id) : id \in reached}

\* reconcile_local_data: a ledger with a torn line stops it before the first row,
\* a half-written file at that file, and what it wrote until then stays.
Reconcile(records, ledgers, files) ==
    ReconcileUntil(records, ledgers, files, Unreadable(files))

ReconcileEnds(ledgers, files) ==
    ledgers.torn = {} /\ \A id \in LoggedIds(ledgers) : files[id].half = {}

\* Where a history is read, and when the service starts: the table is rebuilt
\* only when it is empty, so that what a stopped rebuild left is never completed.
ReconcileIfEmpty(records, ledgers, files) ==
    IF records = {} THEN Reconcile(records, ledgers, files) ELSE records

=============================================================================
