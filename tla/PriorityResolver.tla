-------------------------- MODULE PriorityResolver --------------------------
(***************************************************************************)
(* The priority resolver (priority.rs): scores in memory, their rows in    *)
(* the store, the dependency graph, and the cache of the evidence that is  *)
(* emitted with a release.  The main loop, the triage and capture workers  *)
(* and background expansions all work on them.  A graph is represented by  *)
(* how many dependents it has seen of each package; its score by that      *)
(* number.  The census answers as it pleases (PackageCensus models it).    *)
(***************************************************************************)
EXTENDS PriorityPolicy

CONSTANTS
    Tracked,            \* packages
    Touches,            \* Touches[p]: p and what a release of p depends on
    TierOf,             \* TierOf[n]: tier of a package with n dependents
    OfflineTier,        \* OfflineTier[p]: tier in the score file, or "none"
    MinObservations,    \* online_expand_min_observations
    MaxSeen,            \* bound on the dependents counted
    MaxJobs             \* bound on the jobs started

ASSUME ResolverAssumption ==
    /\ Touches \in [Tracked -> SUBSET Tracked] /\ \A p \in Tracked : p \in Touches[p]
    /\ MaxSeen \in Nat /\ TierOf \in [0..MaxSeen -> PriorityTiers]
    /\ OfflineTier \in [Tracked -> PriorityTiers \cup {"none"}]
    /\ MinObservations \in Nat /\ MaxJobs \in Nat

Unscored == [source |-> "none"]
LocalScore(n) == Snapshot(TierOf[n], "local_graph", 0, n)
OfflineScore(p) ==
    IF OfflineTier[p] = "none" THEN Unscored
    ELSE Snapshot(OfflineTier[p], "offline_score_file", 0, MaxSeen)

Scores == {Unscored, KnownPackageStub, CensusSnapshot}
          \cup {LocalScore(n) : n \in 0..MaxSeen} \cup {OfflineScore(p) : p \in Tracked}
          \cup {ApplyMetadataRiskOverride(LocalScore(n), TRUE, 8) : n \in 0..MaxSeen}

NotCached == -1

VARIABLES
    scores,         \* scores[p]: PriorityResolverInner.scores
    stored,         \* stored[p]: p's row of priority_score_index
    graph,          \* graph[p]: dependents of p in the graph tables
    evidence,       \* evidence[p]: the emitted_graph_cache entry of p
    observed,       \* observed[p]: observation_counts
    in_flight,      \* packages being expanded
    update_lock,    \* the expansion that holds the update lock, or 0
    tasks,          \* tasks[id]: what a task is doing
    jobs,           \* jobs started so far
    contended,      \* history: packages whose score writes overlapped or failed
    raced           \* history: packages whose cached evidence missed a write

store == <<stored, graph>>
locks == <<in_flight, update_lock>>
priorityHistory == <<contended, raced>>
priorityVars == <<scores, store, evidence, observed, locks, tasks, jobs, priorityHistory>>

\* A task: its kind, its package, its step, the packages it has yet to
\* remember, the one it is remembering, the snapshots it has computed, whether
\* they come from metadata it fetched, and the evidence it has read.
Task(kind, package, pc) ==
    [kind |-> kind, package |-> package, pc |-> pc, todo |-> {}, now |-> {},
     read |-> [p \in Tracked |-> Unscored], hydrated |-> kind = "hydrate",
     count |-> NotCached]

NextId(running) ==
    CHOOSE n \in 1..(Cardinality(DOMAIN running) + 1) : n \notin DOMAIN running

Started(running, task) ==
    [t \in DOMAIN running \cup {NextId(running)} |->
        IF t = NextId(running) THEN task ELSE running[t]]
Ended(id) == tasks' = [t \in DOMAIN tasks \ {id} |-> tasks[t]]
At(id, pc) == id \in DOMAIN tasks /\ tasks[id].pc = pc
Goto(id, pc) == tasks' = [tasks EXCEPT ![id].pc = pc]

\* What becomes of a package's row and score after a restart: the score file,
\* then the store's rows, the stronger of the two.
Reloaded(p, row) ==
    IF row = Unscored THEN OfflineScore(p)
    ELSE IF OfflineScore(p) = Unscored \/ ShouldReplace(OfflineScore(p), row) THEN row
    ELSE OfflineScore(p)

PriorityInit ==
    /\ scores = [p \in Tracked |-> OfflineScore(p)]
    /\ stored = [p \in Tracked |-> Unscored]
    /\ graph = [p \in Tracked |-> 0]
    /\ evidence = [p \in Tracked |-> NotCached]
    /\ observed = [p \in Tracked |-> 0]
    /\ in_flight = {} /\ update_lock = 0
    /\ tasks = <<>> /\ jobs = 0
    /\ contended = {} /\ raced = {}

\* Packages whose score some other task changed and has yet to persist.
Unpersisted(id) ==
    UNION {tasks[t].now : t \in {u \in DOMAIN tasks \ {id} :
                                    tasks[u].pc \in {"invalidate", "persist"}}}

\* A release of p adds its edges.
Grown(p) ==
    [q \in Tracked |-> IF q \in Touches[p] /\ graph[q] < MaxSeen
                       THEN graph[q] + 1 ELSE graph[q]]

-----------------------------------------------------------------------------
(* Jobs: the main loop observes a release, the triage worker records the   *)
(* metadata of one it drops, the capture worker a captured one.            *)

FirstStep == [observe |-> "lookup", hydrate |-> "material", capture |-> "record"]

StartJob(kind, p) ==
    /\ jobs < MaxJobs
    /\ kind = "observe" => \A id \in DOMAIN tasks : tasks[id].kind # "observe"
    /\ jobs' = jobs + 1
    /\ tasks' = Started(tasks, Task(kind, p, FirstStep[kind]))
    /\ UNCHANGED <<scores, store, evidence, observed, locks, priorityHistory>>

\* The score in memory answers, unless it is a stub seen twice.
Lookup(id) ==
    /\ At(id, "lookup")
    /\ LET p == tasks[id].package
       IN  /\ observed' = [observed EXCEPT ![p] = @ + 1]
           /\ IF /\ scores[p] # Unscored
                 /\ scores[p].source # "known_package_stub" \/ observed'[p] < 2
              THEN Goto(id, "evidence")
              ELSE Goto(id, "resolve")
    /\ UNCHANGED <<scores, store, evidence, locks, jobs, priorityHistory>>

\* The task will remember one snapshot, of its own package.
Remembering(id, snapshot) ==
    LET p == tasks[id].package
    IN  tasks' = [tasks EXCEPT ![id].pc = "remember", ![id].todo = {p},
                               ![id].read[p] = snapshot]

\* The local graph, or metadata fetched inline for a package seen twice (the
\* fetch may fail, or find the hydrator busy), or the census, or a stub.
Resolve(id) ==
    /\ At(id, "resolve")
    /\ LET p == tasks[id].package
       IN  IF graph[p] > 0
           THEN Remembering(id, LocalScore(graph[p]))
           ELSE \/ /\ observed[p] >= 2
                   /\ tasks' = [tasks EXCEPT ![id].pc = "material", ![id].hydrated = TRUE]
                \/ Remembering(id, CensusSnapshot)
                \/ Remembering(id, KnownPackageStub)
    /\ UNCHANGED <<scores, store, evidence, observed, locks, jobs, priorityHistory>>

\* apply_hydrated_release_metadata: the graph material is persisted under the
\* update lock, then the cached evidence of what it touches is dropped.  When
\* that fails, an observed package is looked up in the census after all.
PersistMaterial(id) ==
    /\ At(id, "material")
    /\ update_lock = 0
    /\ \/ graph' = Grown(tasks[id].package) /\ Goto(id, "forget")
       \/ /\ UNCHANGED graph
          /\ IF tasks[id].kind = "hydrate" THEN Ended(id)
             ELSE \E s \in {CensusSnapshot, KnownPackageStub} : Remembering(id, s)
    /\ UNCHANGED <<scores, stored, evidence, observed, locks, jobs, priorityHistory>>

\* The capture worker writes the graph without that lock.
RecordGraph(id) ==
    /\ At(id, "record")
    /\ graph' = Grown(tasks[id].package)
    /\ Goto(id, "score")
    /\ UNCHANGED <<scores, stored, evidence, observed, locks, jobs, priorityHistory>>

\* A captured release is scored before this, a hydrated one after it.
AfterForget(id) ==
    IF tasks[id].kind = "capture" THEN Goto(id, "evidence") ELSE Goto(id, "score")

\* invalidate_emitted_graph_cache for every touched package; each is dropped
\* by itself, which no other step can tell from all at once.
\* Mutant: the cache is left alone.
ForgetsNothing(id) ==
    /\ At(id, "forget")
    /\ AfterForget(id)
    /\ UNCHANGED <<scores, store, evidence, observed, locks, jobs, priorityHistory>>

Forget(id) ==
    /\ At(id, "forget")
    /\ LET touched == Touches[tasks[id].package]
       IN  /\ evidence' = [q \in Tracked |-> IF q \in touched THEN NotCached ELSE evidence[q]]
           /\ raced' = raced \ touched
    /\ AfterForget(id)
    /\ UNCHANGED <<scores, store, observed, locks, jobs, contended>>

\* score_neighborhood: every touched package that the graph knows.  Metadata
\* that looks like malware raises the tier of its own package.
ScoreNeighborhood(id) ==
    /\ At(id, "score")
    /\ LET p == tasks[id].package
           known == {q \in Touches[p] : graph[q] > 0}
       IN  \E suspicious \in {FALSE, tasks[id].hydrated} :
               tasks' = [tasks EXCEPT
                   ![id].pc = "remember", ![id].todo = known,
                   ![id].read = [q \in Tracked |->
                       IF q \notin known THEN Unscored
                       ELSE IF q = p
                       THEN ApplyMetadataRiskOverride(LocalScore(graph[q]), suspicious, 8)
                       ELSE LocalScore(graph[q])]]
    /\ UNCHANGED <<scores, store, evidence, observed, locks, jobs, priorityHistory>>

-----------------------------------------------------------------------------
(* remember_snapshot, package by package.                                  *)

\* Under the lock of the scores.  A weaker snapshot changes nothing.
\* Mutant: it replaces what is known.
RememberAnything(id, q) ==
    /\ At(id, "remember") /\ q \in tasks[id].todo
    /\ scores' = [scores EXCEPT ![q] = tasks[id].read[q]]
    /\ tasks' = [tasks EXCEPT ![id].pc = "invalidate", ![id].todo = @ \ {q}, ![id].now = {q}]
    /\ contended' = IF q \in Unpersisted(id) THEN contended \cup {q} ELSE contended
    /\ UNCHANGED <<store, evidence, observed, locks, jobs, raced>>

Remember(id, q) ==
    /\ At(id, "remember") /\ q \in tasks[id].todo
    /\ IF scores[q] # Unscored /\ ~ShouldReplace(scores[q], tasks[id].read[q])
       THEN /\ tasks' = [tasks EXCEPT ![id].todo = @ \ {q},
                                      ![id].read[q] = IF tasks[id].hydrated THEN @ ELSE scores[q]]
            /\ UNCHANGED <<scores, contended>>
       ELSE /\ scores' = [scores EXCEPT ![q] = tasks[id].read[q]]
            /\ tasks' = [tasks EXCEPT ![id].pc = "invalidate", ![id].todo = @ \ {q},
                                      ![id].now = {q}]
            /\ contended' = IF q \in Unpersisted(id) THEN contended \cup {q} ELSE contended
    /\ UNCHANGED <<store, evidence, observed, locks, jobs, raced>>

\* The cached evidence goes; a snapshot that need not be persisted is done.
Invalidate(id) ==
    /\ At(id, "invalidate")
    /\ \E q \in tasks[id].now :
           /\ evidence' = [evidence EXCEPT ![q] = NotCached]
           /\ raced' = raced \ {q}
           /\ tasks' = IF RequiresRuntimePersistence(tasks[id].read[q])
                       THEN [tasks EXCEPT ![id].pc = "persist"]
                       ELSE [tasks EXCEPT ![id].pc = "remember", ![id].now = {}]
    /\ UNCHANGED <<scores, store, observed, locks, jobs, contended>>

\* persist_snapshot: under the update lock the row is overwritten, whatever it
\* says; a failure is logged and the score stays in memory only.
Persist(id) ==
    /\ At(id, "persist")
    /\ update_lock = 0
    /\ \E q \in tasks[id].now :
           \/ /\ stored' = [stored EXCEPT ![q] = IF PersistsToScoreFile(tasks[id].read[q])
                                                 THEN tasks[id].read[q] ELSE @]
              /\ UNCHANGED contended
           \/ contended' = contended \cup {q} /\ UNCHANGED stored
    /\ tasks' = [tasks EXCEPT ![id].pc = "remember", ![id].now = {}]
    /\ UNCHANGED <<scores, graph, evidence, observed, locks, jobs, raced>>

\* All is remembered.  An observed package may now be expanded, in a task of
\* its own, unless one is at it already.
\* Mutant: nobody looks whether one is.
RememberedUnchecked(id) ==
    LET p == tasks[id].package
    IN  /\ At(id, "remember") /\ tasks[id].todo = {}
        /\ IF tasks[id].kind = "observe" /\ tasks[id].read[p] # Unscored
              /\ ShouldExpand(tasks[id].read[p], observed[p], MinObservations)
           THEN /\ in_flight' = in_flight \cup {p}
                /\ tasks' = Started([tasks EXCEPT ![id].pc = "evidence"], Task("expand", p, "lock"))
           ELSE /\ IF tasks[id].kind = "hydrate" THEN Ended(id)
                   ELSE Goto(id, IF tasks[id].kind = "capture" THEN "forget" ELSE "evidence")
                /\ UNCHANGED in_flight
        /\ UNCHANGED <<scores, store, evidence, observed, update_lock, jobs, priorityHistory>>

Remembered(id) ==
    LET p == tasks[id].package
    IN  /\ At(id, "remember") /\ tasks[id].todo = {}
        /\ IF /\ tasks[id].kind = "observe" /\ tasks[id].read[p] # Unscored
              /\ ShouldExpand(tasks[id].read[p], observed[p], MinObservations)
              /\ p \notin in_flight
           THEN /\ in_flight' = in_flight \cup {p}
                /\ tasks' = Started([tasks EXCEPT ![id].pc = "evidence"], Task("expand", p, "lock"))
           ELSE /\ IF tasks[id].kind = "hydrate" THEN Ended(id)
                   ELSE Goto(id, IF tasks[id].kind = "capture" THEN "forget" ELSE "evidence")
                /\ UNCHANGED in_flight
        /\ UNCHANGED <<scores, store, evidence, observed, update_lock, jobs, priorityHistory>>

-----------------------------------------------------------------------------
(* emitted_graph_evidence, after an observation and after a capture.       *)

FindEvidence(id) ==
    /\ At(id, "evidence")
    /\ IF evidence[tasks[id].package] # NotCached THEN Ended(id) ELSE Goto(id, "read")
    /\ UNCHANGED <<scores, store, evidence, observed, locks, jobs, priorityHistory>>

ReadEvidence(id) ==
    /\ At(id, "read")
    /\ tasks' = [tasks EXCEPT ![id].pc = "cache", ![id].count = graph[tasks[id].package]]
    /\ UNCHANGED <<scores, store, evidence, observed, locks, jobs, priorityHistory>>

\* What was read is cached, however old it is by now.
FillEvidence(id) ==
    /\ At(id, "cache")
    /\ LET p == tasks[id].package
       IN  /\ evidence' = [evidence EXCEPT ![p] = tasks[id].count]
           /\ raced' = IF tasks[id].count # graph[p] THEN raced \cup {p} ELSE raced \ {p}
    /\ Ended(id)
    /\ UNCHANGED <<scores, store, observed, locks, jobs, contended>>

-----------------------------------------------------------------------------
(* An expansion (spawn_expand, expand_priority_graph with a store).        *)

TakeLock(id) ==
    /\ At(id, "lock")
    /\ update_lock = 0
    /\ update_lock' = id
    /\ Goto(id, "collect")
    /\ UNCHANGED <<scores, store, evidence, observed, in_flight, jobs, priorityHistory>>

\* The online services' graph material is stored; no cached evidence is dropped.
Collect(id) ==
    /\ At(id, "collect")
    /\ \/ Goto(id, "unlock") /\ UNCHANGED <<graph, raced>>
       \/ /\ graph' = Grown(tasks[id].package)
          /\ raced' = raced \cup {q \in Tracked : evidence[q] # NotCached /\ evidence[q] # graph'[q]}
          /\ Goto(id, "rescore")
    /\ UNCHANGED <<scores, stored, evidence, observed, locks, jobs, contended>>

Rescore(id) ==
    /\ At(id, "rescore")
    /\ tasks' = [tasks EXCEPT
           ![id].pc = "publish",
           ![id].read = [q \in Tracked |-> IF q \in Touches[tasks[id].package]
                                           THEN LocalScore(graph[q]) ELSE Unscored]]
    /\ UNCHANGED <<scores, store, evidence, observed, locks, jobs, priorityHistory>>

\* The rows are overwritten, all scores loaded again, and what is in memory
\* replaced by them; the load may fail.
Publish(id) ==
    /\ At(id, "publish")
    /\ stored' = [q \in Tracked |-> IF tasks[id].read[q] # Unscored THEN tasks[id].read[q]
                                     ELSE stored[q]]
    /\ \/ /\ scores' = [q \in Tracked |-> Reloaded(q, stored'[q])]
          /\ contended' = contended \cup Unpersisted(id)
       \/ /\ contended' = contended \cup Touches[tasks[id].package]
          /\ UNCHANGED scores
    /\ Goto(id, "unlock")
    /\ UNCHANGED <<graph, evidence, observed, locks, jobs, raced>>

Unlock(id) ==
    /\ At(id, "unlock")
    /\ update_lock' = 0
    /\ Goto(id, "leave")
    /\ UNCHANGED <<scores, store, evidence, observed, in_flight, jobs, priorityHistory>>

Leave(id) ==
    /\ At(id, "leave")
    /\ in_flight' = in_flight \ {tasks[id].package}
    /\ Ended(id)
    /\ UNCHANGED <<scores, store, evidence, observed, update_lock, jobs, priorityHistory>>

-----------------------------------------------------------------------------

RememberStep(id) ==
    \/ \E q \in Tracked : Remember(id, q)
    \/ Invalidate(id) \/ Persist(id) \/ Remembered(id)

ExpansionStep(id) ==
    TakeLock(id) \/ Collect(id) \/ Rescore(id) \/ Publish(id) \/ Unlock(id) \/ Leave(id)

TaskStep(id) ==
    \/ Lookup(id) \/ Resolve(id) \/ PersistMaterial(id) \/ RecordGraph(id)
    \/ Forget(id) \/ ScoreNeighborhood(id)
    \/ RememberStep(id)
    \/ FindEvidence(id) \/ ReadEvidence(id) \/ FillEvidence(id)
    \/ ExpansionStep(id)

PriorityNext ==
    \/ \E kind \in DOMAIN FirstStep, p \in Tracked : StartJob(kind, p)
    \/ \E id \in DOMAIN tasks : TaskStep(id)

PrioritySpec == PriorityInit /\ [][PriorityNext]_priorityVars

-----------------------------------------------------------------------------

PriorityTypeOK ==
    /\ scores \in [Tracked -> Scores] /\ stored \in [Tracked -> Scores]
    /\ graph \in [Tracked -> 0..MaxSeen]
    /\ evidence \in [Tracked -> {NotCached} \cup 0..MaxSeen]
    /\ observed \in [Tracked -> 0..MaxJobs]
    /\ in_flight \subseteq Tracked
    /\ update_lock \in {0} \cup DOMAIN tasks
    /\ contended \subseteq Tracked /\ raced \subseteq Tracked

AtRest == DOMAIN tasks = {}

\* A restart brings back every score that deserves it.  When nothing is going
\* on, a score in memory of a kind that is persisted is the one that loading
\* the file and the store would give, and there is no row behind a score of
\* another kind -- unless writes of that package overlapped, or one failed.
\* (remember_snapshot releases the scores before it persists; an expansion
\* replaces them all.)
ScoresAgree ==
    AtRest => \A p \in Tracked \ contended :
        IF scores[p] # Unscored /\ PersistsToScoreFile(scores[p])
        THEN scores[p] = Reloaded(p, stored[p])
        ELSE stored[p] = Unscored

\* The evidence emitted with a release is that of the graph as it is, unless
\* the cache was filled by a read that a write overtook, or the graph was grown
\* by an expansion, which drops nothing from the cache.
StaleOnlyByRace ==
    AtRest => \A p \in Tracked :
        evidence[p] \in {NotCached, graph[p]} \/ p \in raced

\* Only an expansion that publishes the reloaded scores may weaken what is known
\* of a package: its source, or the tier at the same source.  In particular a
\* tier raised for suspicious metadata outlives every other job.
Weaker(s, t) ==
    \/ t = Unscored /\ s # Unscored
    \/ /\ s # Unscored /\ t # Unscored
       /\ \/ SourceRank[t.source] < SourceRank[s.source]
          \/ /\ SourceRank[t.source] = SourceRank[s.source]
             /\ TierRank[t.tier] < TierRank[s.tier]

ScoresDropOnlyOnPublish ==
    [][(\E p \in Tracked : Weaker(scores[p], scores'[p]))
          => \E id \in DOMAIN tasks : Publish(id)]_priorityVars

\* A package is expanded by one task at a time, and whoever finds nobody at work
\* on it may expand it again.
OneExpansionPerPackage ==
    LET expanding == {id \in DOMAIN tasks : tasks[id].kind = "expand"}
    IN  /\ in_flight = {tasks[id].package : id \in expanding}
        /\ \A i, j \in expanding : tasks[i].package = tasks[j].package => i = j

=============================================================================
