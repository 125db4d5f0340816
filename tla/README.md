# A verification project for supply-stream

supply-stream watches package registries (PyPI, npm, crates.io), logs every
release it observes, ranks it, captures its metadata and artifact, scans them,
compares the release with its predecessor and keeps the evidence. This
directory holds TLA+ modules translated from its Rust code, the TLC
configurations that check them on small instances, and theorems about them
that TLAPS proves for every value of the constants. `PROJECT.json` maps each
definition to the source lines it stands for.

Paths below are relative to `src/crates/supply-stream-core/src/` unless they
say otherwise.

## 1. Inventory

| part | code | state | operations | what makes it correct |
|---|---|---|---|---|
| event sources | `sources/pypi.rs`, `npm.rs`, `crates_io.rs` | cursor (serial, sequence, head), dedupe window, both saved in one state file | bootstrap, poll, fall back, emit, save | no release is passed over or sent twice within the window |
| source state | `state.rs` | a JSON file per source; `RecentKeys` | load, save by rename, insert with eviction | the window is as wide as configured |
| throttle and backoff | `sources/mod.rs` | time of the next request, failures, backoff, shared by all requests of a source | wait, note a failure, note a success | requests keep their distance; a failure delays whoever comes next |
| main loop | `lib.rs` | the event in hand, channels | log, index, publish, dispatch, shut down | ledger before index before queue; the shutdown ends and leaves no work behind |
| event ledger | `ledger.rs` | append-only file | append, read | what anybody else knows is in it |
| operational store | `store.rs` | `release_index`, graph and score tables in SQLite, one writer thread | upsert, record, mark, query, rebuild | a row never claims what is not on disk; settled jobs are not reset |
| priority resolver | `priority.rs`, `bounded_map.rs` | scores and evidence in memory, their rows, the graph, caches bounded by recency | apply, hydrate, record a capture, expand in the background | memory, file and table agree; caches keep their bound and their recent entries |
| package census | `priority.rs` | a file of names that grows, and a copy of it | look up, read again, remember | a copy that says no has been compared lately |
| release scoring | `scoring.rs`, `priority.rs` | none; score files and graph tables | merge records, propagate, rank | merging has no order; impact is bounded |
| release metadata | `capture.rs`, `install_scripts.rs` | none | turn registry documents into a captured release | status, hooks and risk follow from the document |
| metadata triage and audit | `triage.rs` | requests in flight; releases audited recently | check, hydrate, promote or drop; sample what the policy skipped | what was dropped stays dropped, and was nothing to report |
| capture worker | `capture.rs` | two JoinSets, staging and final directories | fetch, analyse, promote, discard | what is kept was analysed; what is dropped leaves nothing |
| staging sweeper | `capture.rs` | staging directories | prune by age and size | never costs retained evidence |
| diff worker | `autodiff.rs` | requests in flight | build, reconcile provenance, write, record | follows the capture; always settles its row |
| diff engine | `diff.rs` | none; archives on disk | choose two releases and two artifacts, compare files, hooks, commits | what is called unchanged is |
| assessment, detection | `assessment.rs`, `detection.rs`, `content_risk.rs`, `bundle.rs` | none | verdict from metadata, content, diff and provenance; bursts | more evidence never makes a verdict milder |
| history and lineage | `history.rs`, `autodiff.rs` | the ledgers and files | list a package's releases, find the one before, backfill it | a backfill gives the next diff its baseline |
| repository provenance | `repo_provenance.rs` | caches of tags, releases and refusals; a backoff | find the repository, check tag, release or commit | a match is real; a refusal is never held against a release |
| collector, deps.dev | `collector.rs`, `deps_dev.rs` | a level of fetches, the graph so far | collect by levels, import an export, focus on dependents | nearest first, whatever the order of the answers |
| priority view, health, statistics, sink | `perf.rs`, `health.rs`, ... | counters, a ranking of recent events | print, serve | nothing in the pipeline reads them |
| configuration, command line, visibility, offline census | `config.rs`, `src/src/*.rs`, `visibility.rs`, ... | none | parse, query, compare, enumerate | not modelled |

How the parts meet: a source sends events through a bounded channel to the main
loop, which appends them to the ledger, writes the index and sends them to the
capture worker (High priority) or the triage worker (everything else). Triage
sends what it promotes to the capture worker; so does the audit, which holds a
sender of its own. The capture worker tells the diff worker once a capture is
recorded. All of them write the same index rows and the same directories; none
holds a lock across an await. The index's writes are serialised by one thread.

What is hard here: tasks of one release overlap (a registry may announce it
twice, the audit may take it up while triage holds it); directories are shared,
removed and renamed by several tasks and by the sweeper; rows are read before an
await and written after it; every hand-over is a bounded channel, and the
shutdown depends on the order in which its ends are dropped; the cursor, the
ledger, the index and the directories are four persistent places with no
transaction around them. Beside the pipeline, scores, census, throttle and
provenance caches are shared by tasks that read, wait and then write. And the
rules about one release are spread over several modules, each with an order of
precedence of its own, that must agree with one another. `PROJECT.json`
lists each hazard at its line, with the properties that cover it.

## 2. The modules

```
The pipeline
  EventIntake  <-- EventIntakeProofs
  ReleaseIndex <-- Pipeline <-- TriageWorker  \
                            <-- CaptureWorker  > Runtime <-- MCRuntime
                                                         <-- RuntimeProofs <-- EvidenceProofs
                            <-- DiffWorker    /
               <-- AtomicStore
               <-- StoreWriter <-- MCStoreWriter   (StoreWriter implements AtomicStore)
                   ^-- StoreWriterProofs

The rules about a release
  PriorityPolicy <-- PriorityResolver
  ScoreGraph <-- Scoring, ReleaseMetadata, ReleaseQueries
  ReleaseIndex, ReleaseMetadata, Assessment <-- ReleasePolicy
  ReleaseIndex, ReleaseQueries <-- PackageHistory <-- ReleaseDiff
                                                  <-- DataDirectory

Beside the pipeline
  BoundedMap        <-- MCBoundedMap
  PriorityResolver  <-- PriorityResolverProofs
  PackageCensus, RepoProvenance, BoundedMap   <-- ServiceProofs
  RequestThrottle, NpmSource, CratesIoSource, GraphCollector

Instances
  MCRules (PriorityPolicy, Scoring) <-- MCJudgement (+ ReleasePolicy)
      <-- MCHistory (+ ReleaseDiff)
      <-- MCServices (+ DataDirectory, all beside the pipeline)
  MCHistory, DataDirectory <-- RuleProofs
  MCServices <-- SourceProofs   (the focus is stated with the instances)
```

**BoundedMap** (`bounded_map.rs`). `generation` is the map with the values left
out (0 for an absent key), `order` the eviction queue with its stale pairs,
`next_generation` the counter. One action per method; each contains the pushes,
the compaction and the eviction in the code's order, because it is the order of
push, compaction and entry update that matters. The sort of a compaction is
described by its result. The threshold is a constant, 4n+16 in the code.

**ReleaseIndex** (`store.rs`, `event.rs`, `priority.rs`). The job columns of one
row and every write to them, as functions from row to row: the upsert whose CASE
expressions keep a settled state, `record_*`, `mark_*`. Reasons are kept as far
as queries tell them apart.

**AtomicStore** says what callers may rely on: a write takes effect in full at
one moment between call and answer, or fails without effect. **StoreWriter**
(`store.rs`) is the writer thread: the unbounded channel `queue`, the command
`held` back by a batch (`pending` in the code), the round in progress (`batch`,
`executed`, `txn`), and the answers. A command is the pair of its caller and a
number; a caller has one call open at a time, as an awaiting task has. `HangUp`
is a dropped future: its command stays in the channel and its answer goes
nowhere. The batch window is a choice (`StopCollecting` may happen at any time).
A failing statement, a failing commit and a transaction that cannot begin are
all `RollBack`. The refinement counts a call as answered from the moment its
round has ended, before the answers are sent one by one. The repository,
graph and priority-score commands are left out: they touch other tables, in the
same transaction shape. The workers above use ReleaseIndex directly, which
StoreWriter justifies as far as successful writes are concerned.

**Pipeline**. The variables the workers share. A directory is the set of the
files in it that some step looks for; `scan` is the content verdict inside
`capture.json`. JoinSets are functions from request ids to tasks with a program
counter; a request keeps its id from worker to worker.

**TriageWorker**, **CaptureWorker**, **DiffWorker** (`triage.rs`, `capture.rs`,
`autodiff.rs`). One action per step between awaits at which another task can
interfere: each read of a row, each change of a directory, each store write,
each send. Outcomes of HTTP calls, scans and builds are choices. The capture
worker's JoinSets are joined exactly where its loop joins them, which is what
`CaptureIsAnalysed` is about. Triage and diff tasks leave their sets when they
end: their loops only use a join to make room. `Sweep` is the staging sweeper.
Removing a directory that exists always succeeds in the model (the code only
warns otherwise).

**Runtime** (`lib.rs`) composes them: dispatch, the end of the sources, and the
shutdown as the order in which workers may stop. `up` contains the tasks that
still run; "main" in it stands for the main function's `capture_tx`. Init is the
first start on an empty data directory.

**EventIntake** (`sources/pypi.rs`, `state.rs`, `ledger.rs`, `lib.rs`). A
release is its journal serial. The source's loop is bootstrap, poll of journal
or feed, emission entry by entry, save; the main loop is receive, append,
record, dispatch; `Crash` drops what is in memory at any point and `Restart`
loads what is on disk. `baseline` is a history variable: what the first boot
takes as already seen. The delivery of the journal is complete and ordered, as
the code expects of it; the feed shows the last `FeedWindow` releases. A failed
append ends the run in the code (`?`), and is a crash here; a failing state file
is not modelled.

**RequestThrottle** (`sources/mod.rs`). A caller looks at the shared state under
the lock, sleeps without it and looks again. The doubling of the backoff is a
table, since the code caps the shift at eight. `last_sent` and `last_failure` are
history.

**NpmSource** (`sources/npm.rs`), **CratesIoSource** (`sources/crates_io.rs`). The
two other sources in the manner of EventIntake, up to the channel: npm's
replication feed by pages, whose packuments are fetched concurrently, may fail
and show a package as it is when they are fetched; the crates.io index as a
history of commits, shallow fetches that may not reach the last head, and the
summary that stands in. Both may crash between any two steps, and start again
from the file. The baselines, `missed` and `fell_back` are history variables.

**PriorityPolicy** (`priority.rs`): ranks, tiers, replacement and merging of
snapshots, when to expand. **PriorityResolver** (`priority.rs`): the jobs of an
observation, a hydration and a capture, and the background expansion they may
start, one action per lock or store call. A graph is represented by how many
dependents it has seen of each package. The history variables `contended` and
`raced` record the races that the properties excuse by name. **PackageCensus**:
the copy, the time it was read and checked, and lookups that overlap.

**ScoreGraph** (`store.rs`, `scoring.rs`, `priority.rs`): one ecosystem's graph
three times, as merged records, as tables and as a cached file, with the queries
on the last two. **Scoring** (`scoring.rs`): propagation as integers in a unit the
caller chooses.

**ReleaseMetadata** (`capture.rs`, `install_scripts.rs`): what a registry's
document becomes. **Assessment** (`assessment.rs`, `detection.rs`,
`content_risk.rs`, `bundle.rs`): rule profiles, content risk, bursts and the
verdict, branch by branch. **ReleasePolicy** (`event.rs`, `triage.rs`,
`capture.rs`): announcement, triage, retention, escalation, signals. In
TriageWorker and CaptureWorker these decisions are choices of the environment, so
that what holds there holds for any rules; ReleasePolicy says which they are.

**ReleaseQueries** (`store.rs`, `ledger.rs`): which record of an id wins, the
queries, and the rebuilding of an empty index: release by release, up to a write
before which it ends (`ReconcileUntil`), because a line or a file does not parse
(`Unreadable`, a torn ledger) or because the process is killed. **PackageHistory**
(`history.rs`, `autodiff.rs`): local history, a registry's history, the release
before another and the backfill, with what each leaves where the registry, a
ledger or a file cannot be read. **ReleaseDiff** (`diff.rs`): the pair of releases
and artifacts, the kinds of archives, added, removed and changed files, install
hooks with the local files they name, commits. A word of a script is a path, the
file that it runs, and whether the code takes it for an option and sees one of its
eleven endings; `NamesScript` is what the code makes of these.

**DataDirectory** (`lib.rs`, `ledger.rs`, `capture.rs`, `autodiff.rs`,
`history.rs`, `store.rs`): everything the service keeps of releases, write by
write. `data` is the table, the three ledgers and the files; `task` what the main
loop and each captor and comparer are doing. Each `await` between two writes is a
step boundary: the ledger line, the row, `capture.json` begun, ended and recorded,
twice (`BeginCapture` ... `RecordScanned`), the promotion that removes and renames
(`Clear`, `Rename`), the backfill under its lock (`OpenEntry` ... `SettleEntry`),
the amended capture, the diff. A file is `half` while it is written, a ledger is
`torn` once part of a line has stayed. `End` is the kill of the process, or a
failing append or store call in the main loop, at any of these points; `Start` and
`StartKilled` are the rebuild, which may end at any of its writes. That the writes
of one row are atomic is what StoreWriter shows. Two tasks that write one file at
a time are taken to leave what the last of them wrote; the longer of two documents
leaving a tail is not in the model. What the workers decide on the way (tiers
apart) is a choice, as in the pipeline.

**RepoProvenance** (`repo_provenance.rs`): checks that run at once and share
caches. A repository's tags and releases only grow. **GraphCollector**
(`collector.rs`, `deps_dev.rs`): levels of concurrent fetches answered in any
order; what each registry tells of a package; the import and focus of an export.

**MCRules, MCJudgement, MCHistory** hold the bounded inputs of the rules and
the properties about them, one on top of the other. **MCServices** adds the
components with state. Its variable `part` says which of them a behaviour runs;
the others rest. None of them interacts with another in the code except through
what is a choice in each (what the census answers the resolver, what a source's
request meets), so a product would only multiply states.

## 3. Properties and runs

A state property holds in every state, an action property (`[][...]_vars`) of
every step, a leads-to property under the fairness given below.

| run | module | question | result |
|---|---|---|---|
| `runtime_once` | MCRuntime | two releases, each observed once, with audit and sweeper, concurrency one | holds |
| `runtime_repeats` | MCRuntime | one release observed twice with any tier and graph standing, concurrency two, no audit | holds |
| `runtime_shutdown_audit` | MCRuntime | the shutdown with the audit on | `ShutdownCompletes` violated |
| `runtime_stall` | MCRuntime | is a fetched capture analysed without further events? concurrency two | `CaptureIsAnalysed` violated |
| `runtime_repeats_evidence` | MCRuntime | evidence behind `ready` rows when a release is observed twice | `ReadyHasEvidence` violated |
| `intake` | EventIntake | three releases, feed of two, window of two, one crash anywhere | holds |
| `intake_loss` | EventIntake | does every noted release reach the ledger across a crash? | `ObservedIsLogged` violated |
| `intake_replay` | EventIntake | is every logged release captured in the end? | `LoggedIsCaptured` violated |
| `store_writer` | MCStoreWriter | three tasks, two releases, batches of two, failures, callers that hang up, one crash | holds |
| `services` | MCServices | every component beside the pipeline on its instance, and every rule on its inputs | holds |
| `bounded_map_recent` | MCBoundedMap | the code's own threshold (24 pairs), a hot key read again and again | `RecentEntryKept` violated |
| `diff_stored` | MCHistory | can a diff be built from the artifact a capture has stored? | `StoredCopyStands` violated |

What holds, in words:

- *Evidence* (`runtime_once`). With one observation per release, a row says
  `ready` only of files that exist (`ReadyHasEvidence`), a kept capture was scanned
  and left staging (`KeptIsAnalysed`), a dropped one leaves nothing
  (`DroppedLeavesNothing`) and is never taken up again by the audit
  (`DroppedStaysDropped`), and the diff worker only meets captured releases
  (`DiffFollowsCapture`). This includes the sweeper pruning a workspace in use.
- *Shutdown without the audit* (`runtime_repeats`). Every worker stops
  (`ShutdownCompletes`). When the capture worker has stopped, only releases whose
  triage ended in an error are pending (`CapturesResolved`); when the diff worker
  has, only the diffs of failed captures are (`DiffsResolved`).
- *Intake.* Ledger first, across crashes (`LoggedFirst`); without a crash the
  cursor passes nothing over (`CursorSkipsNothing`) and the overlap of feed and
  journal is logged once per window (`DedupeWindow`); the journal delivers what
  is beyond the cursor (`JournalDelivers`).
- *Store writer.* To its callers the thread is the atomic store
  (`ImplementsAtomicStore`): a failed batch leaves nothing behind, a successful
  one everything, in one order. The command held back keeps its place
  (`InOrder`), none is lost or doubled (`AcceptedOnce`), every caller is answered
  (`CallsAnswered`), and the thread ends only with nothing left to do
  (`StopsEmptyHanded`). No order of writes makes a settled job pending again
  (`RowsOnlyAdvance`).
- *Cache.* The queue stays below its threshold (`OrderBounded`); eviction takes
  the least recently used key it can reach (`EvictsOldestReachable`).
- *Priority resolver.* At rest, memory and a restart give the same scores, unless
  writes of one package overlapped or one failed (`ScoresAgree`); evidence sent
  with a release is that of the graph as it is, unless a write overtook the read
  that filled the cache or an expansion grew the graph (`StaleOnlyByRace`); a
  package is expanded by one task at a time (`OneExpansionPerPackage`); a score
  drops only where an expansion publishes, and a tier raised for suspicious
  metadata outlives every other job (`ScoresDropOnlyOnPublish`).
- *Census.* A copy that answers by itself misses only what was appended after
  the stat it was last compared with (`MissIsRecent`). What the code remembers
  makes a copy look checked, so this can be older than the interval.
- *Sources.* Requests keep the interval and a failure's delay (`RequestsSpaced`).
  npm's cursor passes over only what a fetch failed to show or showed too late
  (`NpmCursorSkipsNothing`). The crates.io head leaves nothing behind, and
  nothing older than the first boot is sent unless by the summary or across a gap
  of the shallow clone (`HeadSkipsNothing`).
- *Scores and graph.* No order of records leaves a package weaker than its best
  one (`MergeKeepsStrongest`); tables and file tell the same of a package, limits
  and weights apart (`StoreAgreesWithFile`); in any graph, circles included, the
  total impact is bounded by the popularity, and duplicates add nothing
  (`ImpactBounded`).
- *Judgement.* More evidence never makes a verdict milder, with the one exception
  that the code makes: a repository mismatch on a stable release excuses changes
  (`MoreEvidenceNeverLowers`). Triage and retention drop nothing that the
  assessment would call suspicious (`LostIsUnremarkable`). The plan a release is
  announced with is kept (`FateFollowsPlan`).
- *History and diffs.* Every row has a ledger line. A rebuild that comes to a
  release finds it as observed, and its capture and diff ready if they were so or
  have only been written, whatever tasks overlapped and within whichever write the
  process ended (`RebuildKeepsReady`). It comes to every release as long as no line
  is torn and no file half-written. With a torn line it comes to none and the
  service does not start; a half-written file ends it there (`store.rs` 1998,
  2021), the rows before it are committed, and a table with rows is never
  completed (`lib.rs` 64, `history.rs` 173). The property states this and no more;
  of a promotion that removes a directory it does not say that what was in it
  comes back. A successful
  backfill is the baseline of the diff built after it (`BackfillGivesBaseline`),
  unless the registry gives no date before the target's: such a release counts as
  released when it was looked up. A hook called longstanding has the same scripts
  in both releases, and every file their words name is the same, or missing in
  both (`LongstandingIsUnchanged`), but for words the code overlooks: one that
  starts with `-` or `$`, has none of eleven endings, or is relative to another
  directory (`diff.rs` 2551-2581). The inputs have such words; a file behind one
  may change and the hook is longstanding all the same. Conversely a hook that is
  not called so, with its scripts unchanged, names a file that is not the same.
- *Provenance.* What a release is said to match is there (`MatchIsReal`). A
  refusal is never held against a release; on GitHub it outlives its backoff in no
  verdict, on GitLab it is remembered (`repo_provenance.rs` 1192-1201) and answers
  every later check of the same tag with "unknown" (`RefusalIsUnknown`).
- *Collecting.* Whatever the order of the answers, the packages nearest to the
  seeds are collected, within depth and capacity (`GrowsNearestFirst`).

What does not hold is recorded under "findings": the compaction that orphans a
hot entry, the shutdown that waits for a channel the audit keeps open, fetched
captures that wait for the next event, a promotion that removes evidence already
recorded, events lost between cursor and ledger, the ledger replay the service
does not run, and the stored wheel that is unpacked as a source archive.

### Departures seen while modelling that no run refutes

The models follow the code in these, and no document states the contrary
clearly enough for a run to be about it:

- A captured release counts once more in its burst of versions: the service has
  recorded it before (`capture.rs` 81; the comment at 53-55 speaks of others).
- Of a rebuild that ends early the table keeps the rows up to there, and since it
  is not empty no later start completes it; a torn line in any ledger, which a kill
  within an append leaves, ends every start of a service without a table.
- A refusal by GitLab (403, 429) is cached like an answer, without a time limit:
  only the cache's bound or a restart drops it.
- GitHub tags once cached are never asked for again (`repo_provenance.rs` 820,
  894): a tag pushed after the first look is missed until a restart.
- The online resolution is not tried on `apply`, whatever the order of fallbacks
  at `src/README.md` 176 and 205 suggests; hydration does it.
- `should_replace_snapshot` is no order among snapshots of equal source and tier.
- A focus counts the rows of an export, an import its distinct dependents.
- A local previous release without a capture gives a `ready` diff whose content
  is unavailable; only a release the store does not know is backfilled.
- A backfilled event of a known id resets its row's tier to low.
- The index is rebuilt at start only when it is empty (`LoggedFirst` shows that
  the ledger is the side that is ahead).
- The package.json of a bundled dependency may be taken for the package's own,
  and a stored egg is compared as a wheel.

### Bounds

- `runtime_once`: with each release observed once, at most the audit and triage
  share a release, so two releases (one High, one Medium or Low) meet every pair
  of workers; capacity one makes every channel block. One sweep may fall between
  any two steps. The run stops waiting for the audit, so it checks no deadlock.
- `runtime_repeats`: two observations of one release with all tiers, two tasks
  of each kind: every overlap of two tasks in one directory. More would only add
  a third task.
- `intake`: three serials are one more than the feed and the window hold, so
  that both forget; a channel of one makes the source wait for the main loop.
- `store_writer`: a batch of two and three commands give a full batch with a
  command behind it, and a batch ended by a held command; every kind of command
  meets an event before or after it on the same row. One crash may fall in the
  middle of a transaction. Numbers are only used up, never reused after a crash.
- `bounded_map_recent` needs 26 uses because it keeps the code's threshold; it
  restricts the workload, not the operations.
- `services`. *Cache*: capacity two is the least that separates the hot key from
  the recent one; a slack of two lets a compaction happen within a few uses, and
  nine generations allow three compactions between evictions and removals.
  *Resolver*: two packages, one depending on the other, and two jobs with the
  expansions they start: every pair of tasks on one score. *Census*: two packages, two
  inquirers, an interval of two in three ticks, so that a copy can be recent,
  overdue, and changed within one tick. *Throttle*: two callers, interval two,
  delays one to three, until moment eight: two failures, a good answer and
  both callers asleep at once. *npm*: three changes of two packages, pages of
  two, windows shorter than the feed, one crash. *crates.io*: four commits with
  a clone of depth two, so that a gap happens, one crash. *Provenance*: two
  concurrent checks of three releases (GitHub, GitLab, a local npm archive) and
  two tags pushed at any time. *Collector*: every graph over seven edges of five
  packages with cycles and detours, depth two, capacity four, two fetches at a
  time. *Rules*: four names, one of them another spelling and two of one scope;
  inputs of up to three records; every combination of the attributes a rule
  distinguishes; hooks of two files and seven kinds of words, two of which the code
  reads as they are meant. *Data directory*: two releases of one package, one
  captured at once and one also in the legacy ledger that triage may drop, a task
  of each worker, so that observing, capturing, comparing and backfilling overlap
  in every order; two lines of the observed ledger, of both releases or of one that
  is observed again, and two ends of the process, within a write, between two or
  within the rebuild. Every part ends at its bounds, so the run checks no deadlock.
  Each part has states in which its property's hard case occurs: the mutants in
  `PROJECT.json` reach it.
- `diff_stored`: one release with a wheel and a source archive.

### Fairness

Tokio runs every task that is ready, each channel hands over in order, and every
HTTP call has a timeout (`lib.rs` 51-52): weak fairness of each worker's steps
and of the dispatch. Within a worker one weak fairness condition covers all its
tasks, which the code gives each of them; the runs need no more. Nothing obliges
a source to send, the user to interrupt, the audit to find a candidate or the
sweeper to find an old directory. The store's thread takes its steps (weak
fairness of `ThreadStep`): its waits have a time limit or a sender. In EventIntake the journal is asked again and
again (strong fairness of `PollJournal`): a registry that refuses it for ever is
not a case the code claims to handle. `Restart` is fair because `JournalDelivers`
and `LoggedIsCaptured` speak of a service that is started again.

## 4. Proofs

Eight modules hold theorems, all checked by TLAPS to the last leaf. Constants are
only assumed to be what the named assumptions of their modules say
(`BoundsAssumption`, `IntakeAssumption`, `WriterAssumption`,
`CommandsAssumption`, `ThrottleAssumption`, `NpmAssumption`,
`CratesAssumption`, `CensusAssumption`, `ResolverAssumption`,
`CollectorAssumption`, `PipelineAssumption` and `DataAssumption`: numbers, non-zero
where the code adds or divides, commands of the code's kinds, a package among those
it touches, a registry of finitely many packages, which are numbers so that they
have the order of names, releases with an event and a capture each); `Keys` is any finite set, `Clients`, `Releases`, `Tracked`,
callers and checkers are any sets. RepoProvenance needs no assumption. The
theorems about rules and about a focus say of their input what the code's types
say of it: evidence of any size (`AssessedEvidence`), an export of any rows
(`FocusAsked`), graph and score records in any number (`GraphRows`,
`ScoreUpdates`; of a graph with fewer edges than the store's limit), releases with
any scripts and files (`IsHookTree`). One hypothesis more is stated in
the theorems themselves: those of EvidenceProofs speak of a runtime in which a release is
observed once (`MaxObservations = 1`). That is what the sources' dedupe window
is there for (`WindowHolds` says what it does), and without it they are false:
`runtime_repeats_evidence` shows a second observation clearing what the first
one promoted.

- `ServiceProofs!MapTypeCorrect`, `OneOrphan`, `CapacityKept`, `QueueBounded`.
  "At most one orphan" is inductive together with the types and the fact that
  generations stay below `next_generation` and pairs of the queue are never newer
  than it: an orphan can only arise in a compaction, which puts a pair of every
  other entry into the queue, so there was none left besides the key in use. The
  capacity follows from it: an insertion into a full map of capacity two or more
  always finds a live pair to evict.
- `ServiceProofs!OldestIsEvicted`. An eviction takes the first live pair of the
  queue, which is the least recently used entry only as long as the queue, with
  its stale pairs and whatever a compaction has left of it, is in the order of
  the generations and none is newer than the counter: `UsesInOrder`. A
  compaction keeps this because it sorts what it keeps.
- `EventIntakeProofs!TypeCorrect`, `LedgerComesFirst`, `NothingSkipped`.
  `LedgerComesFirst` needs the release in hand to be logged when its stage is
  past "append". `NothingSkipped` needs more: what the dedupe window holds has
  been handed over or belongs to the baseline, and everything up to the cursor
  of the poll in progress is either handed over, in the baseline, or still in
  the batch. The lemmas before it say what `ToSet` makes of an append, a tail, a
  concatenation and of `Insert`.
- `EventIntakeProofs!WindowHolds`. Until a crash, what was handed over last stands
  at the end of the dedupe window, in its order, with keys of the first boot
  before it at most (`WindowInv`): a release that is handed over again has left
  the window, so as many others came in between.
- `StoreWriterProofs!TypeCorrect`, `OrderKept`, `NoneLostOrDoubled`,
  `NothingLeft`, `SettledStaysSettled`. The argument is about `Line`, what stands
  in the batch, the held command and the channel together: a send appends to it,
  an answer takes its head, and every other step of the thread leaves it as it
  is. `Stages` says what the thread holds at each stage (nothing is held while it
  collects, and a closed channel leaves nothing behind), which makes this
  inductive. For the rows, `TxnAdvances` relates the open transaction to what is
  committed; each statement is shown to take nothing back.
- `StoreWriterProofs!StoreIsAtomic`, the refinement: `Spec => ImplementsAtomicStore`,
  the initial states and every step. All but two kinds of step are stutters or map
  to one call, answer or crash. The end of a round maps to one `TakeEffect` or
  `Fail` of everything in the batch, which needs `TxnOK`: what the open transaction
  holds is the committed rows with the first `executed` commands performed in
  order, and `RoundOK`: a round is a batch of events or one other command, of
  which a part of the statements may have been executed. What a batch does to the rows is defined by recursion over its length, and that the
  parts add up is shown for the least length at which they would not.
- `SourceProofs!SpacingKept` (and `ThrottleTypeCorrect`). `RequestsSpaced` is about
  the time of the last request and of the last failure that counts, and neither is
  in the throttle's state. `PastIsKept` ties them to it: the next request is at
  least the interval after the last one, and while a failure counts, the backoff is
  the one it has set.
- `SourceProofs!NpmNothingSkipped`. The cursor may only pass what was sent, was
  there at the first boot or was passed over by a fetch. `PageIsCovered` says the
  same of the page in hand, at whichever change it stands and in whatever order the
  packuments arrive; `WindowIsSent` that the dedupe window, in memory or on disk,
  holds nothing that was not sent, so that what it suppresses is no loss.
- `SourceProofs!CratesNothingSkipped`. `CratesKnown` says that the dedupe window
  knows only what was sent or is older than the first boot; `ListIsCovered` that
  the list being sent, with what has been sent, covers everything up to the head
  it leads to, and goes back behind the first boot only after a fallback;
  `ColdIsEmpty` that nothing has happened before that boot is over. The lemmas on
  `ReleasesSince` say what a walk of the clone finds, cut off by its depth or not.
- `ServiceProofs!MatchesAreReal`, `RefusalsAreUnknown`. A verdict is as
  good as the cache it was read from: `CachesReal` says that what is cached of a
  repository is there (tags and releases are never withdrawn), `Good` that a check
  knows the details it was given and that a refusal, met or remembered, ends it.
  The caches are shared, so the invariant has to hold of them for every interleaving.
- `ServiceProofs!MissesAreRecent`. `CopyComplete` says what a copy knows
  (all the file had at the stat it is compared with), `LookupTold` the same of the
  stat a lookup holds while it waits. That a set of ticks has a latest one comes
  from the well-foundedness of the numbers.
- `SourceProofs!NearestIsCollected`. A collection goes from level to level, and
  the fetches of a level are answered in any order. `BetweenLevels` says that when
  level n starts, what is collected is what is less than n steps from the seeds by
  the edges there are so far (or as many packages as there may be, the last level
  in part), and that the frontier adds what is n steps away; `InLevel` that what is
  scheduled is all of the level, or fills the capacity. What makes this inductive
  is that an edge that is added starts in the level that ends, so no distance
  measured before changes (`WithinKept`), and that a failed fetch adds none.
- `SourceProofs!NearestIsGrown` adds the focus on a package, an export of any
  length. `FocusInv` holds after every step of its search: the queue is in the
  order of at most two levels, each of its packages stands at the distance it is
  said to, and what has been asked is known with all that depends on it. When the
  head of the queue turns to the next level, the whole of that level is known; when
  the room runs out, all of the levels before are. A step takes one package from
  the queue, so the search is over after as many as there are packages.
- `RuleProofs!VerdictsAreMonotone`, `MoreEvidenceNeverHelps`. A verdict is the
  first branch of `assess_release` that applies. `Alarming` names what makes it
  at least a warning, and the lemmas show of each part of the evidence (content, metadata,
  diff, burst, tier) that more of it never undoes it (`AtLeast`); the excuse that
  a mismatch of the repository is, is the one exception, and stated. Content has
  any finite set of matches and diffs any number of files.
- `RuleProofs!FatesFollowPlans`, `LostWasUnremarkable`. `FateOf` is traced back
  through triage, capture and retention to what each looked at; a release that was
  dropped was looked at by the same rules that would have reported it.
- `RuleProofs!RebuildingKeepsReady`, about DataSpec: any number of releases,
  captors and comparers. `DirectoryInv` is inductive where the property is not. A
  row says only what the directory says too (`RowIn`): its release has a line, one
  of the main loop's if it was observed, a capture on disk if that is ready, a diff
  if that is; or its directory has been replaced. `TaskIn` says the same of what a
  task is about to record, place by place, since another task may remove, write or
  rebuild in between: it is enough that the directory `Grows`, apart from what is
  `removed`. `RebuiltIsIn` shows that a rebuild, wherever it ends, writes nothing
  the directory does not say; `RebuiltRecord` what it writes of a release it comes
  to, from which the property follows.
- `RuleProofs!StoreAndFileAgree`. A graph is read record by record, so that what it
  holds is a function of how many have been read (`GraphRunOf`), and `IsGraphOf`
  says what that is: the packages and edges of these records, each package with
  the greatest of its popularities. The file's cache takes all records at once and
  gets the same (`StoreIsCache`). What a query makes of either then agrees: a
  count of neighbours is one of edges (`EndsAreEdges`), and a limit that is not
  reached cuts nothing (`NoneIsCut`). The theorem is about files with fewer edges
  than that limit and with names in normal form, as the property is.
- `RuleProofs!MergingKeepsStrongest`, `ResolvedIsNotWeaker`. The same way of
  reading, of score records (`Strongest`), and the snapshot that a resolution
  remembers against what has been learned meanwhile. They are what
  `MergeKeepsStrongest` says of merging and of resolving; that the lines of the
  score file come to the same stays with TLC.
- `RuleProofs!LongstandingRunsTheSame`. A path that `PathChanges` does not name is
  the same in both trees or in neither, and taking away the directory that all
  files are in loses none of them. The scripts are any, of any words, and the files
  any number in any directories (`IsHookTree`): the words the code overlooks are
  among them, and the theorem excepts just those.
- `PriorityResolverProofs!ExpandedOnce`. The set of packages being expanded is
  exactly that of the running expansions, one each (`ExpansionInv`); a new task has
  an id of its own because a finite set of tasks cannot use up the ids
  (`NextIdIsNew`).
- `PriorityResolverProofs!ScoresAndRowsAgree`, `StaleEvidenceRaced`,
  `OnlyPublishWeakens`, `ResolverTypeCorrect`. The two invariants speak of moments at
  which no task is under way; `ResolverInv` says what holds in between.
  `Settling`: of a package that is not contended at most one task has changed the
  score and not its row, and the score is the one that task will write, or one
  that needs no row, and there is none (this last part is what a census score over
  a stub depends on). `UpToDate`: evidence that is not that of the graph has been
  raced, or belongs to a task that has yet to drop it (`ToBeForgotten`; a captured
  release drops it only after its neighbourhood is scored, so every step in
  between counts). `FileWins`: a score of the file is never replaced, so the
  tasks only ever compare scores of the graph, the census and the stub, whose
  ranks decide (`StrongScoresStay`, `ReplacingIsNoWeaker`).
- `RuntimeProofs!TypeCorrect`, `CapturesAreResolved`, `DiffsAreResolved`. A job that
  is pending in a row is in somebody's hands: an event or a request in a queue, or a
  task (`PendingIsHeld`, and `PendingDiffIsHeld` without the audit). To keep this,
  a task must not be overwritten by another (`UniqueIds`: an id is in one place at
  a time), and a worker that stops must leave nothing behind (`StopOrder`: what has
  stopped has nothing left, and neither has what feeds it). A high event sets the
  diff of its row to pending before any diff is requested, and only a high event
  asks for that diff: `HighWaits` says that whatever is underway for a release
  waiting for a diff is high, `HighIsUrgent` that its capture request is permanent
  and asks for the diff, and `DiffIsRecorded` that a diff on disk is recorded or
  about to be. With the audit on, `StopOrder` says that
  neither worker ever stops, and both theorems hold for that reason alone
  (`runtime_shutdown_audit` shows the other side of it). The effect lemmas
  (`FetchStepEffect`, `PostStepEffect`, `DiffStepEffect`) say once what a step of a
  task may do to rows and files; the steps of every worker cite them.
- `EvidenceProofs!EvidenceIsThere`, `DroppedIsGone`, `KeptWasAnalysed`,
  `DiffHasCapture`, `DroppedIsFinal`. One invariant, `Custody`, for each release by
  itself. `Alone`: at most one request on a release is acted on, by whichever
  worker, and at most one waits or is in the main loop's hand. `RowOK` and
  `CleanOK` relate the row to the directories when nobody acts; `HoldersOK` says
  what each step of each worker may count on: that a fetch finds the final
  directory empty, that an analysis of a staged capture has its scan in the
  workspace before it decides, that a diff task has an analysed capture. A release
  of low priority may be taken up by the audit while its own event still waits:
  `PassivesOK` and `AuditOK` say that nobody has touched it then, and that is why
  the promotion of an audited release never meets another request. The proof has
  one lemma per step of a worker; each step concerns one release, and
  `UntouchedStays` keeps all the others.

Numbers and lists: what a recursive function over the numbers computes is shown
by its least counterexample (the well-foundedness of the numbers), since no
prover here does induction; folds of the community modules are used only where
nothing is proved about them.

Only model-checked:

- liveness (`ShutdownCompletes`, `CallsAnswered`, `JournalDelivers`,
  `LoggedIsCaptured`): temporal reasoning about fairness and ENABLED is out of the
  prover's reach;
- `MergeKeepsStrongest` as a whole and `ImpactBounded`: the lines of the score
  file are sorted and filtered, and scores are propagated, by operators that take
  an operator as a parameter, and what these yield for every input needs an
  induction the provers cannot instantiate;
- `BackfillGivesBaseline`: the same, of a sort of the releases of a package.

`OneOrphan`, `CapacityKept` and `QueueBounded` of the bounded map are stated as
theorems only, and so are the type invariants of the modules.

## 5. Not modelled, and why

- The priority view, health state, runtime statistics and event sink: counters
  and output that no decision reads. Configuration and command line: parsing, and
  queries over what is modelled. `visibility.rs` and the offline enumeration of a
  registry's census: one pass of reads each, without state.
- The scanner's engine (vendored YARA-X), its rules, the unpacking of archives
  and the fixtures of the rule corpus: what a scan finds is an input.
- Parsing of feeds, XML-RPC answers, requirement strings and documents; the
  BigQuery client; reading compressed files; wording of bundles and details.
- The store's pool of read connections and the tables of package repositories.
  In Runtime and EventIntake every write succeeds; StoreWriter has the failures.
- Crashes inside Runtime: EventIntake, NpmSource and CratesIoSource have crashes,
  and DataDirectory has them at every write of overlapping workers, but without
  their queues' bounds, the audit and the sweeper.
- Smaller things that the modules leave out: a diff.md that cannot be written
  (DiffWorker; off by default, `autodiff.rs` 211); releases of feed and journal
  whose names are spelled differently, since `event.rs` 279 does not normalise them
  (EventIntake has one key for both); the normalisation of an npm document's
  dependency names (`capture.rs` 2028, ReleaseMetadata); an expansion that stores
  the graph and then fails (`priority.rs` 2551-2594, PriorityResolver); a second
  repository on the same host (RepoProvenance), so that a cache key without the
  repository's name would not be noticed.
- The background expansion without a store (it rewrites the score file); the
  start-up replay `backfill_from_ledger`, which the service never calls; the
  repair of a stale git lock.
- A power failure (the ledger is synced every so many events or seconds): the
  model's disk keeps what was written.

## 6. What could come next

1. `RuntimeRestart`: the workers with crashes, the index and the directories
   surviving; which half-finished states a second start repairs.
2. An abstract specification of a source (what is sent, what is remembered) that
   EventIntake, NpmSource and CratesIoSource implement.
3. Proofs of what the score file's lines and the propagation of scores yield for
   files of any length, with the sorting and the folds written as functions of the
   length, as GraphCollector and ScoreGraph have them.
