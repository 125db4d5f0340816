------------------------ MODULE PriorityResolverProofs ------------------------
(***************************************************************************)
(* Proofs about PriorityResolver.  ExpansionInv says who is being expanded.*)
(* ResolverInv relates, package by package, the score in memory, its row,  *)
(* the graph and the cached evidence to what the tasks under way have yet  *)
(* to do about them.                                                       *)
(***************************************************************************)
EXTENDS PriorityResolver, TLAPS, FiniteSetTheorems

TaskFields == {"kind", "package", "pc", "todo", "now", "read", "hydrated", "count"}
ExpandSteps == {"lock", "collect", "rescore", "publish", "unlock", "leave"}

Expanding == {id \in DOMAIN tasks : tasks[id].kind = "expand"}

TasksOK ==
    /\ IsFiniteSet(DOMAIN tasks)
    /\ \A id \in DOMAIN tasks :
           /\ DOMAIN tasks[id] = TaskFields
           /\ tasks[id].kind = "expand" <=> tasks[id].pc \in ExpandSteps

ExpansionInv ==
    /\ TasksOK
    /\ in_flight = {tasks[id].package : id \in Expanding}
    /\ \A i, j \in Expanding : tasks[i].package = tasks[j].package => i = j

-----------------------------------------------------------------------------
(* What a step does to the tasks.                                          *)

\* There is always an id that no task has.
LEMMA NextIdIsNew ==
    ASSUME NEW running, IsFiniteSet(DOMAIN running)
    PROVE  NextId(running) \notin DOMAIN running
<1> DEFINE n == Cardinality(DOMAIN running)
<1>1. n \in Nat
  BY FS_CardinalityType
<1>2. ~(1..(n + 1) \subseteq DOMAIN running)
  <2>1. Cardinality(1..(n + 1)) = n + 1
    BY <1>1, FS_Interval
  <2>2. ASSUME 1..(n + 1) \in SUBSET DOMAIN running PROVE FALSE
    <3>1. Cardinality(1..(n + 1)) <= n
      BY <2>2, FS_Subset
    <3>2. QED  BY <1>1, <2>1, <3>1
  <2>3. QED  BY <2>2
<1>3. \E i \in 1..(n + 1) : i \notin DOMAIN running
  BY <1>2
<1>4. QED  BY <1>3 DEF NextId

LEMMA StartedTasks ==
    ASSUME NEW running, IsFiniteSet(DOMAIN running), NEW task
    PROVE  LET id    == NextId(running)
               after == Started(running, task)
           IN  /\ id \notin DOMAIN running
               /\ DOMAIN after = DOMAIN running \cup {id}
               /\ IsFiniteSet(DOMAIN after)
               /\ after[id] = task
               /\ \A t \in DOMAIN running : after[t] = running[t]
<1> DEFINE id == NextId(running)
           after == Started(running, task)
<1>1. id \notin DOMAIN running
  BY NextIdIsNew
<1>2. after = [t \in DOMAIN running \cup {id} |-> IF t = id THEN task ELSE running[t]]
  BY DEF Started
<1> HIDE DEF id, after
<1>3. DOMAIN after = DOMAIN running \cup {id}
  BY <1>2
<1>4. IsFiniteSet(DOMAIN after)
  BY <1>3, FS_AddElement
<1>5. after[id] = task /\ \A t \in DOMAIN running : after[t] = running[t]
  BY <1>1, <1>2
<1>6. QED  BY <1>1, <1>3, <1>4, <1>5 DEF id, after

\* A task goes on as what it is, and no other moves.
Advances(id) ==
    /\ DOMAIN tasks' = DOMAIN tasks
    /\ \A j \in DOMAIN tasks \ {id} : tasks'[j] = tasks[j]
    /\ DOMAIN tasks'[id] = TaskFields
    /\ tasks'[id].kind = tasks[id].kind /\ tasks'[id].package = tasks[id].package
    /\ tasks'[id].pc \in ExpandSteps <=> tasks[id].pc \in ExpandSteps

LEMMA AdvanceKeeps ==
    ASSUME ExpansionInv, NEW id \in DOMAIN tasks, Advances(id), UNCHANGED in_flight
    PROVE  ExpansionInv'
<1>1. \A j \in DOMAIN tasks : tasks'[j].kind = tasks[j].kind /\ tasks'[j].package = tasks[j].package
  BY DEF Advances
<1>2. Expanding' = Expanding
  BY <1>1 DEF Advances, Expanding
<1>3. TasksOK'
  BY DEF ExpansionInv, TasksOK, Advances
<1>4. QED  BY <1>1, <1>2, <1>3 DEF ExpansionInv, Expanding

LEMMA GotoAdvances ==
    ASSUME ExpansionInv, NEW id \in DOMAIN tasks, NEW pc, Goto(id, pc),
           pc \in ExpandSteps <=> tasks[id].pc \in ExpandSteps
    PROVE  Advances(id)
BY DEF ExpansionInv, TasksOK, Goto, Advances, TaskFields

\* A task that was no expansion ends.
LEMMA EndKeeps ==
    ASSUME ExpansionInv, NEW id \in DOMAIN tasks, Ended(id), UNCHANGED in_flight,
           tasks[id].pc \notin ExpandSteps
    PROVE  ExpansionInv'
<1>1. DOMAIN tasks' = DOMAIN tasks \ {id} /\ \A j \in DOMAIN tasks \ {id} : tasks'[j] = tasks[j]
  BY DEF Ended
<1>2. IsFiniteSet(DOMAIN tasks')
  BY <1>1, FS_RemoveElement DEF ExpansionInv, TasksOK
<1>3. Expanding' = Expanding /\ id \notin Expanding
  BY <1>1 DEF ExpansionInv, TasksOK, Expanding
<1>4. TasksOK'
  BY <1>1, <1>2 DEF ExpansionInv, TasksOK
<1>5. QED  BY <1>1, <1>3, <1>4 DEF ExpansionInv, Expanding

\* A task that is no expansion begins.
LEMMA StartKeeps ==
    ASSUME ExpansionInv, NEW kind \in DOMAIN FirstStep, NEW p, StartJob(kind, p)
    PROVE  ExpansionInv'
<1> DEFINE task == Task(kind, p, FirstStep[kind])
           id == NextId(tasks)
<1>1. DOMAIN task = TaskFields /\ task.kind # "expand" /\ task.pc \notin ExpandSteps
  BY DEF Task, TaskFields, FirstStep, ExpandSteps
<1>2. tasks' = Started(tasks, task) /\ UNCHANGED in_flight
  BY DEF StartJob, locks
<1> HIDE DEF task
<1>3. /\ id \notin DOMAIN tasks /\ DOMAIN tasks' = DOMAIN tasks \cup {id}
      /\ IsFiniteSet(DOMAIN tasks') /\ tasks'[id] = task
      /\ \A t \in DOMAIN tasks : tasks'[t] = tasks[t]
  <2>1. IsFiniteSet(DOMAIN tasks)
    BY DEF ExpansionInv, TasksOK
  <2>2. QED  BY SMTT(40), <1>2, <2>1, StartedTasks
<1> HIDE DEF id
<1>4. Expanding' = Expanding
  BY <1>1, <1>3 DEF Expanding
<1>5. TasksOK'
  BY <1>1, <1>3 DEF ExpansionInv, TasksOK
<1>6. QED  BY <1>2, <1>3, <1>4, <1>5 DEF ExpansionInv, Expanding

-----------------------------------------------------------------------------
(* The steps of a task.                                                    *)

LEMMA RememberingAdvances ==
    ASSUME ExpansionInv, NEW id \in DOMAIN tasks, tasks[id].pc \notin ExpandSteps,
           NEW snapshot, Remembering(id, snapshot)
    PROVE  Advances(id)
BY ZenonT(60) DEF ExpansionInv, TasksOK, Remembering, Advances, TaskFields, ExpandSteps

\* Observing, up to the snapshots that are to be remembered.
LEMMA ResolvingKeeps ==
    ASSUME ExpansionInv, NEW id \in DOMAIN tasks,
           \/ Lookup(id) \/ Resolve(id) \/ PersistMaterial(id) \/ RecordGraph(id)
           \/ Forget(id) \/ ScoreNeighborhood(id)
    PROVE  ExpansionInv'
<1> USE DEF At, locks
<1>1. tasks[id].pc \notin ExpandSteps /\ UNCHANGED in_flight
  BY DEF Lookup, Resolve, PersistMaterial, RecordGraph, Forget, ScoreNeighborhood, ExpandSteps
<1>2. /\ "evidence" \notin ExpandSteps /\ "resolve" \notin ExpandSteps /\ "forget" \notin ExpandSteps
      /\ "score" \notin ExpandSteps /\ "material" \notin ExpandSteps /\ "remember" \notin ExpandSteps
  BY DEF ExpandSteps
<1>3. CASE Lookup(id)
  <2>1. Goto(id, "evidence") \/ Goto(id, "resolve")
    BY <1>3 DEF Lookup
  <2>2. QED  BY <1>1, <1>2, <2>1, GotoAdvances, AdvanceKeeps
<1>4. CASE Resolve(id)
  <2>1. CASE \E s : Remembering(id, s)
    BY <1>1, <2>1, RememberingAdvances, AdvanceKeeps
  <2>2. CASE tasks' = [tasks EXCEPT ![id].pc = "material", ![id].hydrated = TRUE]
    <3>1. Advances(id)
      BY <1>1, <1>2, <2>2 DEF ExpansionInv, TasksOK, Advances, TaskFields
    <3>2. QED  BY <1>1, <3>1, AdvanceKeeps
  <2>3. QED  BY <1>4, <2>1, <2>2 DEF Resolve
<1>5. CASE PersistMaterial(id)
  <2>1. Goto(id, "forget") \/ Ended(id) \/ \E s : Remembering(id, s)
    BY <1>5 DEF PersistMaterial
  <2>2. QED  BY <1>1, <1>2, <2>1, GotoAdvances, RememberingAdvances, EndKeeps, AdvanceKeeps
<1>6. CASE RecordGraph(id)
  <2>1. Goto(id, "score")
    BY <1>6 DEF RecordGraph
  <2>2. QED  BY <1>1, <1>2, <2>1, GotoAdvances, AdvanceKeeps
<1>7. CASE Forget(id)
  <2>1. Goto(id, "evidence") \/ Goto(id, "score")
    BY <1>7 DEF Forget, AfterForget
  <2>2. QED  BY <1>1, <1>2, <2>1, GotoAdvances, AdvanceKeeps
<1>8. CASE ScoreNeighborhood(id)
  <2> DEFINE p == tasks[id].package
             known == {q \in Touches[p] : graph[q] > 0}
  <2>0. PICK suspicious \in {FALSE, tasks[id].hydrated} :
            tasks' = [tasks EXCEPT
                ![id].pc = "remember", ![id].todo = known,
                ![id].read = [q \in Tracked |->
                    IF q \notin known THEN Unscored
                    ELSE IF q = p
                    THEN ApplyMetadataRiskOverride(LocalScore(graph[q]), suspicious, 8)
                    ELSE LocalScore(graph[q])]]
    BY ZenonT(60), <1>8 DEF ScoreNeighborhood
  <2>1. PICK read : tasks' = [tasks EXCEPT ![id].pc = "remember", ![id].todo = known,
                                           ![id].read = read]
    BY <2>0
  <2>2. Advances(id)
    BY ZenonT(60), <1>1, <1>2, <2>1 DEF ExpansionInv, TasksOK, Advances, TaskFields
  <2>3. QED  BY <1>1, <2>2, AdvanceKeeps
<1>9. QED  BY <1>3, <1>4, <1>5, <1>6, <1>7, <1>8

LEMMA RememberKeeps ==
    ASSUME ExpansionInv, NEW id \in DOMAIN tasks,
           (\E q \in Tracked : Remember(id, q)) \/ Invalidate(id) \/ Persist(id)
    PROVE  ExpansionInv'
<1>1. tasks[id].pc \notin ExpandSteps /\ UNCHANGED in_flight
  BY ZenonT(60) DEF At, locks, Remember, Invalidate, Persist, ExpandSteps
<1>2. "remember" \notin ExpandSteps /\ "invalidate" \notin ExpandSteps /\ "persist" \notin ExpandSteps
  BY DEF ExpandSteps
<1>3. ASSUME NEW q \in Tracked, Remember(id, q) PROVE Advances(id)
  <2>1. CASE tasks' = [tasks EXCEPT ![id].todo = @ \ {q},
                                    ![id].read[q] = IF tasks[id].hydrated THEN @ ELSE scores[q]]
    BY <2>1 DEF ExpansionInv, TasksOK, Advances, TaskFields
  <2>2. CASE tasks' = [tasks EXCEPT ![id].pc = "invalidate", ![id].todo = @ \ {q}, ![id].now = {q}]
    BY <1>1, <1>2, <2>2 DEF ExpansionInv, TasksOK, Advances, TaskFields
  <2>3. QED  BY <1>3, <2>1, <2>2 DEF Remember
<1>4. ASSUME Invalidate(id) \/ Persist(id) PROVE Advances(id)
  <2>1. \/ tasks' = [tasks EXCEPT ![id].pc = "persist"]
        \/ tasks' = [tasks EXCEPT ![id].pc = "remember", ![id].now = {}]
    BY <1>4 DEF Invalidate, Persist
  <2>2. QED  BY <1>1, <1>2, <2>1 DEF ExpansionInv, TasksOK, Advances, TaskFields
<1>5. QED  BY <1>1, <1>3, <1>4, AdvanceKeeps

\* An expansion begins only of a package that nobody is at.
LEMMA RememberedKeeps ==
    ASSUME ExpansionInv, NEW id \in DOMAIN tasks, Remembered(id)
    PROVE  ExpansionInv'
<1> DEFINE p == tasks[id].package
           moved == [tasks EXCEPT ![id].pc = "evidence"]
           task == Task("expand", p, "lock")
           new == NextId(moved)
<1>1. /\ tasks[id].pc \notin ExpandSteps
      /\ "evidence" \notin ExpandSteps /\ "forget" \notin ExpandSteps /\ "lock" \in ExpandSteps
  BY DEF At, Remembered, ExpandSteps
<1>2. CASE UNCHANGED in_flight /\ (Ended(id) \/ \E pc \in {"forget", "evidence"} : Goto(id, pc))
  BY <1>1, <1>2, GotoAdvances, EndKeeps, AdvanceKeeps
<1>3. CASE p \notin in_flight /\ in_flight' = in_flight \cup {p} /\ tasks' = Started(moved, task)
  <2>1. DOMAIN moved = DOMAIN tasks /\ IsFiniteSet(DOMAIN moved)
    BY DEF ExpansionInv, TasksOK
  <2>2. DOMAIN task = TaskFields /\ task.kind = "expand" /\ task.pc = "lock" /\ task.package = p
    BY DEF Task, TaskFields
  <2>3. /\ DOMAIN moved[id] = TaskFields /\ moved[id].kind = tasks[id].kind
        /\ moved[id].package = tasks[id].package /\ moved[id].pc = "evidence"
        /\ \A t \in DOMAIN tasks \ {id} : moved[t] = tasks[t]
    BY DEF ExpansionInv, TasksOK, TaskFields
  <2> HIDE DEF moved, task
  <2>4. /\ new \notin DOMAIN moved /\ DOMAIN tasks' = DOMAIN moved \cup {new}
        /\ IsFiniteSet(DOMAIN tasks') /\ tasks'[new] = task
        /\ \A t \in DOMAIN moved : tasks'[t] = moved[t]
    <3>1. tasks' = Started(moved, task)
      BY <1>3
    <3>2. LET after == Started(moved, task)
          IN  /\ new \notin DOMAIN moved /\ DOMAIN after = DOMAIN moved \cup {new}
              /\ IsFiniteSet(DOMAIN after) /\ after[new] = task
              /\ \A t \in DOMAIN moved : after[t] = moved[t]
      BY <2>1, StartedTasks
    <3>3. QED  BY <3>1, <3>2
  <2> HIDE DEF new
  <2>5. Expanding' = Expanding \cup {new} /\ new \notin Expanding
    BY <2>1, <2>2, <2>3, <2>4 DEF Expanding
  <2>6. TasksOK'
    BY <1>1, <2>1, <2>2, <2>3, <2>4 DEF ExpansionInv, TasksOK
  <2>7. /\ tasks'[new].package = p
        /\ \A t \in Expanding : tasks'[t].package = tasks[t].package
    BY <2>1, <2>2, <2>3, <2>4 DEF Expanding
  <2>8. in_flight' = {tasks'[t].package : t \in Expanding'}
    BY <1>3, <2>5, <2>7 DEF ExpansionInv
  <2>9. \A t \in Expanding : tasks[t].package # p
    BY <1>3 DEF ExpansionInv
  <2>10. \A i, j \in Expanding' : tasks'[i].package = tasks'[j].package => i = j
    BY <2>5, <2>7, <2>9 DEF ExpansionInv
  <2>11. QED  BY <2>6, <2>8, <2>10 DEF ExpansionInv, Expanding
<1>4. QED  BY <1>2, <1>3 DEF Remembered

LEMMA EvidenceKeeps ==
    ASSUME ExpansionInv, NEW id \in DOMAIN tasks,
           FindEvidence(id) \/ ReadEvidence(id) \/ FillEvidence(id)
    PROVE  ExpansionInv'
<1>1. /\ tasks[id].pc \notin ExpandSteps /\ UNCHANGED in_flight
      /\ "read" \notin ExpandSteps /\ "cache" \notin ExpandSteps
  BY DEF At, locks, FindEvidence, ReadEvidence, FillEvidence, ExpandSteps
<1>2. CASE FindEvidence(id)
  <2>1. Ended(id) \/ Goto(id, "read")
    BY <1>2 DEF FindEvidence
  <2>2. QED  BY <1>1, <2>1, GotoAdvances, EndKeeps, AdvanceKeeps
<1>3. CASE ReadEvidence(id)
  <2>1. \E n : tasks' = [tasks EXCEPT ![id].pc = "cache", ![id].count = n]
    BY <1>3 DEF ReadEvidence
  <2>2. Advances(id)
    BY <1>1, <2>1 DEF ExpansionInv, TasksOK, Advances, TaskFields
  <2>3. QED  BY <1>1, <2>2, AdvanceKeeps
<1>4. CASE FillEvidence(id)
  BY <1>1, <1>4, EndKeeps DEF FillEvidence
<1>5. QED  BY <1>2, <1>3, <1>4

\* An expansion stays one until it leaves, and then it is no longer in flight.
LEMMA ExpandingKeeps ==
    ASSUME ExpansionInv, NEW id \in DOMAIN tasks,
           TakeLock(id) \/ Collect(id) \/ Rescore(id) \/ Publish(id) \/ Unlock(id)
    PROVE  ExpansionInv'
<1>1. tasks[id].pc \in ExpandSteps /\ UNCHANGED in_flight
  BY DEF At, locks, TakeLock, Collect, Rescore, Publish, Unlock, ExpandSteps
<1>2. /\ "collect" \in ExpandSteps /\ "unlock" \in ExpandSteps /\ "rescore" \in ExpandSteps
      /\ "publish" \in ExpandSteps /\ "leave" \in ExpandSteps
  BY DEF ExpandSteps
<1>3. CASE Rescore(id)
  <2>1. \E read : tasks' = [tasks EXCEPT ![id].pc = "publish", ![id].read = read]
    BY <1>3 DEF Rescore
  <2>2. Advances(id)
    BY <1>1, <1>2, <2>1 DEF ExpansionInv, TasksOK, Advances, TaskFields
  <2>3. QED  BY SMTT(40), <1>1, <2>2, AdvanceKeeps
<1>4. CASE TakeLock(id) \/ Collect(id) \/ Publish(id) \/ Unlock(id)
  <2>1. \E pc \in ExpandSteps : Goto(id, pc)
    BY <1>2, <1>4 DEF TakeLock, Collect, Publish, Unlock
  <2>2. QED  BY <1>1, <2>1, GotoAdvances, AdvanceKeeps
<1>5. QED  BY <1>3, <1>4

LEMMA LeaveKeeps ==
    ASSUME ExpansionInv, NEW id \in DOMAIN tasks, Leave(id)
    PROVE  ExpansionInv'
<1>1. id \in Expanding
  BY DEF ExpansionInv, TasksOK, Expanding, Leave, At, ExpandSteps
<1>2. /\ DOMAIN tasks' = DOMAIN tasks \ {id}
      /\ \A j \in DOMAIN tasks \ {id} : tasks'[j] = tasks[j]
      /\ in_flight' = in_flight \ {tasks[id].package}
  BY DEF Leave, Ended
<1>3. IsFiniteSet(DOMAIN tasks')
  BY <1>2, FS_RemoveElement DEF ExpansionInv, TasksOK
<1>4. TasksOK'
  BY <1>2, <1>3 DEF ExpansionInv, TasksOK
<1>5. Expanding' = Expanding \ {id}
  BY <1>2 DEF Expanding
<1>6. \A t \in Expanding \ {id} : tasks'[t].package = tasks[t].package /\ tasks[t].package # tasks[id].package
  BY <1>1, <1>2 DEF ExpansionInv, Expanding
<1>7. in_flight' = {tasks'[t].package : t \in Expanding'}
  BY <1>1, <1>2, <1>5, <1>6 DEF ExpansionInv
<1>8. \A i, j \in Expanding' : tasks'[i].package = tasks'[j].package => i = j
  BY <1>5, <1>6 DEF ExpansionInv
<1>9. QED  BY <1>4, <1>7, <1>8 DEF ExpansionInv, Expanding

LEMMA ExpansionStart == PriorityInit => ExpansionInv
<1> SUFFICES ASSUME PriorityInit PROVE ExpansionInv
  OBVIOUS
<1>1. DOMAIN tasks = {} /\ in_flight = {}
  BY DEF PriorityInit
<1>2. IsFiniteSet(DOMAIN tasks)
  BY <1>1, FS_EmptySet
<1>3. QED  BY <1>1, <1>2 DEF ExpansionInv, TasksOK, Expanding

LEMMA PriorityStep == ExpansionInv /\ [PriorityNext]_priorityVars => ExpansionInv'
<1> SUFFICES ASSUME ExpansionInv, [PriorityNext]_priorityVars
             PROVE  ExpansionInv'
  OBVIOUS
<1>1. ASSUME NEW kind \in DOMAIN FirstStep, NEW p \in Tracked, StartJob(kind, p)
      PROVE  ExpansionInv'
  BY <1>1, StartKeeps
<1>2. ASSUME NEW id \in DOMAIN tasks, TaskStep(id)
      PROVE  ExpansionInv'
  BY <1>2, ResolvingKeeps, RememberKeeps, RememberedKeeps, EvidenceKeeps, ExpandingKeeps, LeaveKeeps
     DEF TaskStep, RememberStep, ExpansionStep
<1>3. CASE UNCHANGED priorityVars
  BY <1>3 DEF priorityVars, locks, ExpansionInv, TasksOK, Expanding
<1>4. QED  BY <1>1, <1>2, <1>3 DEF PriorityNext

-----------------------------------------------------------------------------

\* spawn_expand, for any packages and any number of tasks: the packages marked as
\* being expanded are exactly those that a running expansion is at, one each, so
\* that none is expanded twice at a time and none is left marked by an expansion
\* that is gone.
THEOREM ExpandedOnce == PrioritySpec => []OneExpansionPerPackage
<1>1. ExpansionInv => OneExpansionPerPackage
  BY DEF ExpansionInv, OneExpansionPerPackage, Expanding
<1>2. QED  BY <1>1, ExpansionStart, PriorityStep, PTL DEF PrioritySpec

-----------------------------------------------------------------------------
(* Scores, rows and cached evidence.                                       *)

\* What a task may remember of a package: the local graph's score, which
\* suspicious metadata may have raised, and what is said without it.
GraphScores ==
    {LocalScore(n) : n \in 0..MaxSeen}
    \cup {ApplyMetadataRiskOverride(LocalScore(n), TRUE, 8) : n \in 0..MaxSeen}

Candidates == {KnownPackageStub, CensusSnapshot} \cup GraphScores

Writing == {"invalidate", "persist"}
Locked == {"collect", "rescore", "publish", "unlock"}
Scoring == {"score", "remember"} \cup Writing

TaskType ==
    [kind : {"observe", "hydrate", "capture", "expand"}, package : Tracked,
     pc : {"lookup", "resolve", "material", "record", "forget", "evidence", "read", "cache"}
          \cup Scoring \cup ExpandSteps,
     todo : SUBSET Tracked, now : SUBSET Tracked,
     read : [Tracked -> Scores], hydrated : BOOLEAN, count : {NotCached} \cup 0..MaxSeen]

\* A task is writing one score at a time, and what it has left to remember are
\* candidates; an expansion publishes what its graph scores.
TaskOK(t) ==
    /\ t \in TaskType
    /\ t.pc \notin Writing => t.now = {}
    /\ t.pc \in Writing => \E q \in Tracked : t.now = {q}
    /\ t.pc \in {"remember"} \cup Writing => \A q \in t.todo \cup t.now : t.read[q] \in Candidates
    /\ t.pc = "record" => t.kind = "capture"
    /\ t.pc = "lookup" => t.kind = "observe"
    /\ t.pc = "publish" =>
           \A q \in Tracked : t.read[q] \in IF q \in Touches[t.package] THEN GraphScores
                                                                      ELSE {Unscored}

\* The tasks that have changed the score of a package and not yet its row.
Writers(p) == {id \in DOMAIN tasks : tasks[id].pc \in Writing /\ p \in tasks[id].now}

\* A task that has grown the graph and will drop the evidence it touched.
Forgetting(t) == t.pc = "forget" \/ (t.kind = "capture" /\ t.pc \in Scoring)

ToBeForgotten(p) ==
    \E id \in DOMAIN tasks : Forgetting(tasks[id]) /\ p \in Touches[tasks[id].package]

\* Who holds the update lock is at work under it.
LockHeld == update_lock # 0 => update_lock \in DOMAIN tasks /\ tasks[update_lock].pc \in Locked

ResolverTypes ==
    /\ \A id \in DOMAIN tasks : TaskOK(tasks[id])
    /\ scores \in [Tracked -> Scores]
    /\ stored \in [Tracked -> {Unscored} \cup GraphScores]
    /\ graph \in [Tracked -> 0..MaxSeen]
    /\ evidence \in [Tracked -> {NotCached} \cup 0..MaxSeen]
    /\ observed \in [Tracked -> Nat] /\ jobs \in 0..MaxJobs
    /\ in_flight \subseteq Tracked /\ contended \subseteq Tracked /\ raced \subseteq Tracked
    /\ LockHeld

\* A job counts its package once.
Counted ==
    /\ \A i, j \in DOMAIN tasks : tasks[i].kind = "observe" /\ tasks[j].kind = "observe" => i = j
    /\ \A p \in Tracked : observed[p] <= jobs
    /\ \A id \in DOMAIN tasks : tasks[id].pc = "lookup" => \A p \in Tracked : observed[p] < jobs

\* Nothing replaces a score of the file.
FileWins(p) ==
    scores[p] \in IF OfflineScore(p) = Unscored THEN {Unscored} \cup Candidates
                                                ELSE {OfflineScore(p)}

Agreed(p) ==
    IF scores[p] # Unscored /\ PersistsToScoreFile(scores[p])
    THEN scores[p] = Reloaded(p, stored[p])
    ELSE stored[p] = Unscored

\* While one task writes a score, and no other, the row lags behind.
Settling(p) ==
    /\ \A i, j \in Writers(p) : i = j
    /\ \A id \in Writers(p) :
           /\ scores[p] = tasks[id].read[p]
           /\ PersistsToScoreFile(scores[p]) \/ stored[p] = Unscored
    /\ Writers(p) = {} => Agreed(p)

UpToDate(p) == evidence[p] \in {NotCached, graph[p]} \/ p \in raced \/ ToBeForgotten(p)

PackagesOK ==
    \A p \in Tracked : FileWins(p) /\ (p \notin contended => Settling(p)) /\ UpToDate(p)

ResolverInv == ResolverTypes /\ Counted /\ PackagesOK

\* What the scores are made of.
LEMMA GraphScoreFields ==
    ASSUME ResolverAssumption, NEW s \in GraphScores
    PROVE  s.source = "local_graph" /\ s.tier \in PriorityTiers /\ s # Unscored
<1>1. ASSUME NEW n \in 0..MaxSeen
      PROVE  /\ LocalScore(n).source = "local_graph" /\ LocalScore(n).tier \in PriorityTiers
             /\ ApplyMetadataRiskOverride(LocalScore(n), TRUE, 8).source = "local_graph"
             /\ ApplyMetadataRiskOverride(LocalScore(n), TRUE, 8).tier \in PriorityTiers
  <2>1. TierOf[n] \in PriorityTiers
    BY DEF ResolverAssumption
  <2>2. "high" \in PriorityTiers
    BY DEF PriorityTiers, TierRank
  <2>3. QED  BY <2>1, <2>2 DEF LocalScore, Snapshot, ApplyMetadataRiskOverride
<1>2. s.source = "local_graph" /\ s.tier \in PriorityTiers
  BY <1>1 DEF GraphScores
<1>3. QED  BY <1>2 DEF Unscored

LEMMA CandidateFields ==
    ASSUME ResolverAssumption, NEW s \in Candidates
    PROVE  /\ s.source \in {"known_package_stub", "package_census", "local_graph"}
           /\ s.tier \in PriorityTiers /\ s # Unscored
           /\ PersistsToScoreFile(s) <=> s \in GraphScores
           /\ RequiresRuntimePersistence(s) <=> s \in GraphScores
<1>1. CASE s \in GraphScores
  BY <1>1, GraphScoreFields DEF PersistsToScoreFile, RequiresRuntimePersistence
<1>2. CASE s \notin GraphScores
  <2>1. s = KnownPackageStub \/ s = CensusSnapshot
    BY <1>2 DEF Candidates
  <2>2. /\ s.source \in {"known_package_stub", "package_census"} /\ s.tier = "medium"
    BY <2>1 DEF KnownPackageStub, CensusSnapshot, Snapshot
  <2>3. "medium" \in PriorityTiers
    BY DEF PriorityTiers, TierRank
  <2>4. QED  BY <1>2, <2>2, <2>3 DEF Unscored, PersistsToScoreFile, RequiresRuntimePersistence
<1>3. QED  BY <1>1, <1>2

LEMMA OfflineFields ==
    ASSUME ResolverAssumption, NEW p \in Tracked, OfflineScore(p) # Unscored
    PROVE  /\ OfflineScore(p).source = "offline_score_file" /\ OfflineScore(p).tier \in PriorityTiers
           /\ PersistsToScoreFile(OfflineScore(p))
<1>1. /\ OfflineTier[p] \in PriorityTiers
      /\ OfflineScore(p) = Snapshot(OfflineTier[p], "offline_score_file", 0, MaxSeen)
  BY DEF ResolverAssumption, OfflineScore
<1>2. QED  BY <1>1 DEF Snapshot, PersistsToScoreFile

LEMMA ScoreMembers ==
    ASSUME ResolverAssumption
    PROVE  /\ Unscored \in Scores /\ Candidates \subseteq Scores /\ GraphScores \subseteq Candidates
           /\ \A p \in Tracked : OfflineScore(p) \in Scores
BY DEF Scores, Candidates, GraphScores

LEMMA Ranks ==
    /\ SourceRank["known_package_stub"] = 1 /\ SourceRank["package_census"] = 2
    /\ SourceRank["local_graph"] = 3 /\ SourceRank["offline_score_file"] = 5
    /\ \A t \in PriorityTiers : TierRank[t] \in Int
BY DEF SourceRank, TierRank, PriorityTiers

\* A score of the file yields to none that a task remembers, and one of the
\* graph to none that is said without it.
LEMMA StrongScoresStay ==
    ASSUME ResolverAssumption, NEW s \in Candidates
    PROVE  /\ \A p \in Tracked : OfflineScore(p) # Unscored => ~ShouldReplace(OfflineScore(p), s)
           /\ \A g \in GraphScores : s \notin GraphScores => ~ShouldReplace(g, s)
<1>1. s.source \in {"known_package_stub", "package_census", "local_graph"}
  BY CandidateFields
<1>2. SourceRank[s.source] \in 1..3
  BY <1>1, Ranks
<1>3. ASSUME NEW p \in Tracked, OfflineScore(p) # Unscored PROVE ~ShouldReplace(OfflineScore(p), s)
  <2>1. SourceRank[OfflineScore(p).source] = 5
    BY <1>3, OfflineFields, Ranks
  <2>2. QED  BY <1>2, <2>1 DEF ShouldReplace
<1>4. ASSUME NEW g \in GraphScores, s \notin GraphScores PROVE ~ShouldReplace(g, s)
  <2>1. SourceRank[g.source] = 3
    BY GraphScoreFields, Ranks
  <2>2. s = KnownPackageStub \/ s = CensusSnapshot
    BY <1>4 DEF Candidates
  <2>3. SourceRank[s.source] \in 1..2
    BY <2>2, Ranks DEF KnownPackageStub, CensusSnapshot, Snapshot
  <2>4. QED  BY <2>1, <2>3 DEF ShouldReplace
<1>5. QED  BY <1>3, <1>4

\* What replaces a score is not weaker.
LEMMA ReplacingIsNoWeaker ==
    ASSUME ResolverAssumption, NEW t \in Candidates, NEW s,
           s = Unscored \/ ShouldReplace(s, t),
           s = Unscored \/ s \in Candidates \/ \E p \in Tracked : s = OfflineScore(p)
    PROVE  ~Weaker(s, t)
<1>1. t # Unscored
  BY CandidateFields
<1>2. CASE s = Unscored
  BY <1>1, <1>2 DEF Weaker
<1>3. CASE s # Unscored
  <2>1. SourceRank[s.source] \in Int /\ TierRank[s.tier] \in Int
    BY <1>3, CandidateFields, OfflineFields, Ranks
  <2>2. SourceRank[t.source] \in Int /\ TierRank[t.tier] \in Int
    BY CandidateFields, Ranks
  <2>3. \/ SourceRank[t.source] > SourceRank[s.source]
        \/ SourceRank[t.source] = SourceRank[s.source] /\ TierRank[t.tier] >= TierRank[s.tier]
    BY <1>3, <2>1, <2>2 DEF ShouldReplace
  <2>4. QED  BY <1>1, <2>1, <2>2, <2>3 DEF Weaker
<1>4. QED  BY <1>2, <1>3

\* What is loaded of a row: the file's score, if there is one.
LEMMA ReloadedScore ==
    ASSUME ResolverAssumption, NEW p \in Tracked, NEW row \in {Unscored} \cup GraphScores
    PROVE  Reloaded(p, row) = IF OfflineScore(p) = Unscored THEN row ELSE OfflineScore(p)
<1>1. CASE row = Unscored
  BY <1>1 DEF Reloaded
<1>2. CASE row \in GraphScores
  <2>1. OfflineScore(p) # Unscored => ~ShouldReplace(OfflineScore(p), row)
    BY <1>2, StrongScoresStay, ScoreMembers
  <2>2. row # Unscored
    BY <1>2, GraphScoreFields
  <2>3. QED  BY <2>1, <2>2 DEF Reloaded
<1>3. QED  BY <1>1, <1>2

\* What is loaded agrees with the row it is loaded from.
LEMMA ReloadedAgrees ==
    ASSUME ResolverAssumption, NEW p \in Tracked, NEW row \in {Unscored} \cup GraphScores
    PROVE  LET score == Reloaded(p, row)
           IN  /\ (score # Unscored /\ PersistsToScoreFile(score)) \/ row = Unscored
               /\ score \in Scores
               /\ score \in IF OfflineScore(p) = Unscored THEN {Unscored} \cup Candidates
                                                          ELSE {OfflineScore(p)}
<1>1. Reloaded(p, row) = IF OfflineScore(p) = Unscored THEN row ELSE OfflineScore(p)
  BY ReloadedScore
<1>2. CASE OfflineScore(p) # Unscored
  BY <1>1, <1>2, OfflineFields, ScoreMembers
<1>3. CASE OfflineScore(p) = Unscored
  <2>1. row \in GraphScores => row # Unscored /\ PersistsToScoreFile(row)
    BY GraphScoreFields, CandidateFields, ScoreMembers
  <2>2. QED  BY <1>1, <1>3, <2>1, ScoreMembers
<1>4. QED  BY <1>2, <1>3

-----------------------------------------------------------------------------
(* What a step does to the tasks and what they have left to do.            *)

\* Only the task moves; one that is new has only started.
Moves(id) ==
    /\ \A j \in DOMAIN tasks \ {id} : j \in DOMAIN tasks' /\ tasks'[j] = tasks[j]
    /\ \A j \in DOMAIN tasks' \ DOMAIN tasks :
           TaskOK(tasks'[j]) /\ tasks'[j].pc \in {"lookup", "material", "record", "lock"}
    /\ id \in DOMAIN tasks \cap DOMAIN tasks' =>
           /\ TaskOK(tasks'[id])
           /\ tasks'[id].kind = tasks[id].kind /\ tasks'[id].package = tasks[id].package

\* The moving task is not between a score and its row.
WritesNothing(id) ==
    /\ id \in DOMAIN tasks => tasks[id].pc \notin Writing
    /\ id \in DOMAIN tasks' => tasks'[id].pc \notin Writing

\* It still has to drop the evidence it touched.
StillForgets(id) ==
    id \in DOMAIN tasks /\ Forgetting(tasks[id]) => id \in DOMAIN tasks' /\ Forgetting(tasks'[id])

\* Nobody starts to observe, and the task is not about to look up.
ObservesNothing(id) ==
    /\ \A j \in DOMAIN tasks' \ DOMAIN tasks : tasks'[j].kind # "observe" /\ tasks'[j].pc # "lookup"
    /\ id \in DOMAIN tasks' => tasks'[id].pc # "lookup"

LEMMA TasksStayOK ==
    ASSUME ResolverTypes, NEW id, Moves(id)
    PROVE  \A j \in DOMAIN tasks' : TaskOK(tasks'[j])
BY DEF ResolverTypes, Moves

LEMMA WritersKept ==
    ASSUME ResolverTypes, NEW id, Moves(id), WritesNothing(id), NEW p
    PROVE  Writers(p)' = Writers(p) /\ \A j \in Writers(p) : tasks'[j] = tasks[j]
<1>1. \A j \in DOMAIN tasks' \ DOMAIN tasks : tasks'[j].pc \notin Writing
  BY DEF Moves, Writing
<1>2. \A j \in Writers(p) : j # id /\ j \in DOMAIN tasks' /\ tasks'[j] = tasks[j]
  BY DEF Moves, WritesNothing, Writers
<1>3. \A j \in Writers(p)' : j # id /\ j \in DOMAIN tasks
  BY <1>1 DEF WritesNothing, Writers
<1>4. \A j \in Writers(p)' : j \in Writers(p)
  BY <1>3 DEF Moves, Writers
<1>5. \A j \in Writers(p) : j \in Writers(p)'
  BY <1>2 DEF Writers
<1>6. QED  BY <1>2, <1>4, <1>5 DEF Writers

LEMMA ForgettingKept ==
    ASSUME NEW id, Moves(id), StillForgets(id), NEW p, ToBeForgotten(p)
    PROVE  ToBeForgotten(p)'
<1>1. PICK j \in DOMAIN tasks : Forgetting(tasks[j]) /\ p \in Touches[tasks[j].package]
  BY DEF ToBeForgotten
<1>2. /\ j \in DOMAIN tasks' /\ tasks'[j].package = tasks[j].package /\ Forgetting(tasks'[j])
  BY <1>1 DEF Moves, StillForgets
<1>3. QED  BY <1>1, <1>2 DEF ToBeForgotten

LEMMA CountedKept ==
    ASSUME ResolverTypes, Counted, NEW id, Moves(id), ObservesNothing(id), UNCHANGED <<observed, jobs>>
    PROVE  Counted'
<1>1. \A j \in DOMAIN tasks' : j \in DOMAIN tasks => tasks'[j].kind = tasks[j].kind
  BY DEF Moves
<1>2. \A i, j \in DOMAIN tasks' : tasks'[i].kind = "observe" /\ tasks'[j].kind = "observe" => i = j
  BY <1>1 DEF Counted, ObservesNothing
<1>3. \A j \in DOMAIN tasks' : tasks'[j].pc = "lookup" => j \in DOMAIN tasks /\ tasks[j].pc = "lookup"
  BY DEF Moves, ObservesNothing
<1>4. QED  BY <1>2, <1>3 DEF Counted

\* A package whose score, row and writers are as they were.
LEMMA SettlingKept ==
    ASSUME ResolverTypes, NEW id, Moves(id), WritesNothing(id), NEW p \in Tracked, Settling(p),
           scores'[p] = scores[p], stored'[p] = stored[p]
    PROVE  Settling(p)'
<1>1. Writers(p)' = Writers(p) /\ \A j \in Writers(p) : tasks'[j] = tasks[j]
  BY WritersKept
<1>2. Agreed(p)' <=> Agreed(p)
  BY DEF Agreed, Reloaded
<1>3. QED  BY <1>1, <1>2 DEF Settling

\* A package whose graph and evidence are as they were.
LEMMA UpToDateKept ==
    ASSUME NEW id, Moves(id), StillForgets(id), NEW p \in Tracked, UpToDate(p),
           graph'[p] = graph[p], evidence'[p] \in {NotCached, evidence[p]}, p \in raced => p \in raced'
    PROVE  UpToDate(p)'
BY ForgettingKept DEF UpToDate

\* A step that leaves scores, rows, graph and evidence alone.
LEMMA QuietKeeps ==
    ASSUME ResolverTypes, PackagesOK, NEW id, Moves(id), WritesNothing(id), StillForgets(id),
           UNCHANGED <<scores, store, evidence, priorityHistory>>
    PROVE  PackagesOK'
<1> USE DEF store, priorityHistory
<1>1. ASSUME NEW p \in Tracked PROVE FileWins(p)'
  BY DEF PackagesOK, FileWins
<1>2. ASSUME NEW p \in Tracked, p \notin contended' PROVE Settling(p)'
  BY <1>2, SettlingKept DEF PackagesOK
<1>3. ASSUME NEW p \in Tracked PROVE UpToDate(p)'
  BY UpToDateKept DEF PackagesOK
<1>4. QED  BY <1>1, <1>2, <1>3 DEF PackagesOK

LEMMA LockKept ==
    ASSUME LockHeld, NEW id, Moves(id), UNCHANGED update_lock,
           id \in DOMAIN tasks /\ tasks[id].pc \in Locked => id \in DOMAIN tasks' /\ tasks'[id].pc \in Locked
    PROVE  LockHeld'
BY DEF LockHeld, Moves

LEMMA QuietStep ==
    ASSUME ResolverInv, NEW id, Moves(id), WritesNothing(id), StillForgets(id), ObservesNothing(id),
           LockHeld', in_flight' \subseteq Tracked,
           UNCHANGED <<scores, store, evidence, observed, jobs, priorityHistory>>
    PROVE  ResolverInv'
<1>1. ResolverTypes /\ Counted /\ PackagesOK
  BY DEF ResolverInv
<1>2. \A j \in DOMAIN tasks' : TaskOK(tasks'[j])
  BY <1>1, TasksStayOK
<1>3. ResolverTypes'
  BY <1>1, <1>2 DEF ResolverTypes, store, priorityHistory
<1>4. Counted'
  BY <1>1, CountedKept
<1>5. PackagesOK'
  BY <1>1, QuietKeeps
<1>6. QED  BY <1>3, <1>4, <1>5 DEF ResolverInv

\* The task goes on to a step at which it writes nothing.
CalmlyGoes(id, pc) ==
    /\ Moves(id) /\ DOMAIN tasks' = DOMAIN tasks
    /\ tasks'[id].pc = pc /\ tasks'[id].kind = tasks[id].kind
    /\ ObservesNothing(id) /\ WritesNothing(id)
    /\ (Forgetting(tasks[id]) => Forgetting(tasks'[id])) => StillForgets(id)

\* How a task changes.
TaskBecomes(t, u, pc) == TaskOK(u) /\ u.pc = pc /\ u.kind = t.kind /\ u.package = t.package

LEMMA TaskGoes ==
    ASSUME NEW t, TaskOK(t), t.pc \notin Writing,
           NEW pc \in {"resolve", "material", "forget", "evidence", "read", "score",
                       "lock", "collect", "rescore", "unlock", "leave"},
           NEW u, u = [t EXCEPT !.pc = pc]
    PROVE  TaskBecomes(t, u, pc)
<1>1. u \in TaskType
  BY DEF TaskOK, TaskType, Scoring, ExpandSteps
<1>2. /\ u.pc = pc /\ u.kind = t.kind /\ u.package = t.package
      /\ u.todo = t.todo /\ u.read = t.read /\ u.now = t.now
  BY DEF TaskOK, TaskType
<1>3. TaskOK(u)
  BY <1>1, <1>2 DEF TaskOK, Writing
<1>4. QED  BY <1>2, <1>3 DEF TaskBecomes

\* Snapshots that may be remembered of some packages.
Memories(todo, read) ==
    todo \subseteq Tracked /\ read \in [Tracked -> Scores] /\ \A q \in todo : read[q] \in Candidates

Recalls(t, todo, read) == [t EXCEPT !.pc = "remember", !.todo = todo, !.read = read]

LEMMA TaskRemembers ==
    ASSUME NEW t, TaskOK(t), t.pc \notin Writing,
           NEW todo, NEW read, Memories(todo, read),
           NEW u, u = Recalls(t, todo, read)
    PROVE  TaskBecomes(t, u, "remember")
<1>1. u \in TaskType
  BY DEF TaskOK, TaskType, Scoring, Memories, Recalls
<1>2. /\ u.pc = "remember" /\ u.kind = t.kind /\ u.package = t.package
      /\ u.todo = todo /\ u.read = read /\ u.now = {}
  BY DEF TaskOK, TaskType, Recalls
<1>3. TaskOK(u)
  BY <1>1, <1>2 DEF TaskOK, Writing, Memories
<1>4. QED  BY <1>2, <1>3 DEF TaskBecomes

LEMMA TaskChanged ==
    ASSUME ResolverTypes, NEW id \in DOMAIN tasks, NEW t, NEW pc, TaskBecomes(tasks[id], t, pc),
           pc \notin Writing \cup {"lookup"}, tasks[id].pc \notin Writing,
           tasks' = [tasks EXCEPT ![id] = t]
    PROVE  CalmlyGoes(id, pc)
<1>1. DOMAIN tasks' = DOMAIN tasks /\ tasks'[id] = t /\ \A j \in DOMAIN tasks \ {id} : tasks'[j] = tasks[j]
  OBVIOUS
<1>2. Moves(id)
  BY <1>1 DEF Moves, TaskBecomes
<1>3. ObservesNothing(id) /\ WritesNothing(id) /\ t.pc = pc /\ t.kind = tasks[id].kind
  BY <1>1 DEF TaskBecomes, ObservesNothing, WritesNothing
<1>4. (Forgetting(tasks[id]) => Forgetting(tasks'[id])) => StillForgets(id)
  BY <1>1 DEF StillForgets
<1>5. QED  BY <1>1, <1>2, <1>3, <1>4 DEF CalmlyGoes

LEMMA TaskEnded ==
    ASSUME NEW id \in DOMAIN tasks, Ended(id), tasks[id].pc \notin Writing, ~Forgetting(tasks[id])
    PROVE  /\ DOMAIN tasks' = DOMAIN tasks \ {id}
           /\ Moves(id) /\ ObservesNothing(id) /\ WritesNothing(id) /\ StillForgets(id)
BY DEF Ended, Moves, ObservesNothing, WritesNothing, StillForgets

LEMMA TaskWent ==
    ASSUME ResolverTypes, NEW id \in DOMAIN tasks, tasks[id].pc \notin Writing,
           NEW pc \in {"resolve", "material", "forget", "evidence", "read", "score",
                       "lock", "collect", "rescore", "unlock", "leave"},
           Goto(id, pc)
    PROVE  CalmlyGoes(id, pc)
<1>1. PICK t : t = [tasks[id] EXCEPT !.pc = pc]
  OBVIOUS
<1>2. TaskBecomes(tasks[id], t, pc)
  BY <1>1, TaskGoes DEF ResolverTypes
<1>3. tasks' = [tasks EXCEPT ![id] = t]
  BY <1>1 DEF Goto
<1>4. pc \notin Writing \cup {"lookup"}
  BY DEF Writing
<1>5. QED  BY <1>2, <1>3, <1>4, TaskChanged

LEMMA TaskRemembering ==
    ASSUME ResolverTypes, NEW id \in DOMAIN tasks, tasks[id].pc \notin Writing,
           NEW todo, NEW read, Memories(todo, read),
           tasks' = [tasks EXCEPT ![id] = Recalls(tasks[id], todo, read)]
    PROVE  CalmlyGoes(id, "remember")
<1>1. PICK t : t = Recalls(tasks[id], todo, read)
  OBVIOUS
<1>2. TaskBecomes(tasks[id], t, "remember")
  BY <1>1, TaskRemembers DEF ResolverTypes
<1>3. tasks' = [tasks EXCEPT ![id] = t]
  BY <1>1
<1>4. "remember" \notin Writing \cup {"lookup"}
  BY DEF Writing
<1>5. QED  BY <1>2, <1>3, <1>4, TaskChanged

LEMMA RememberingOne ==
    ASSUME ResolverAssumption, ResolverTypes, NEW id \in DOMAIN tasks, tasks[id].pc \notin Writing,
           NEW snapshot \in Candidates, Remembering(id, snapshot)
    PROVE  CalmlyGoes(id, "remember")
<1>1. PICK p, read : p = tasks[id].package /\ read = [tasks[id].read EXCEPT ![p] = snapshot]
  OBVIOUS
<1>2. p \in Tracked /\ tasks[id].read \in [Tracked -> Scores]
  BY <1>1 DEF ResolverTypes, TaskOK, TaskType
<1>3. read \in [Tracked -> Scores] /\ \A q \in {p} : read[q] \in Candidates
  BY <1>1, <1>2, ScoreMembers
<1>4. tasks' = [tasks EXCEPT ![id] = Recalls(tasks[id], {p}, read)]
  BY ZenonT(60), <1>1 DEF Remembering, Recalls
<1>5. Memories({p}, read)
  BY <1>2, <1>3 DEF Memories
<1>6. QED  BY <1>4, <1>5, TaskRemembering

-----------------------------------------------------------------------------
(* Steps that change no score, row, graph or evidence.                     *)

LEMMA CalmStep ==
    ASSUME ResolverInv, NEW id \in DOMAIN tasks, NEW pc, CalmlyGoes(id, pc),
           Forgetting(tasks[id]) => Forgetting(tasks'[id]), tasks[id].pc \notin Locked,
           UNCHANGED <<scores, store, evidence, observed, locks, jobs, priorityHistory>>
    PROVE  ResolverInv'
<1>1. Moves(id) /\ ObservesNothing(id) /\ WritesNothing(id) /\ StillForgets(id)
  BY DEF CalmlyGoes
<1>2. LockHeld' /\ in_flight' \subseteq Tracked
  BY <1>1, LockKept DEF ResolverInv, ResolverTypes, locks
<1>3. QED  BY <1>1, <1>2, QuietStep

LEMMA CalmEnd ==
    ASSUME ResolverInv, NEW id \in DOMAIN tasks, Ended(id),
           tasks[id].pc \notin Writing \cup Locked, ~Forgetting(tasks[id]),
           UNCHANGED <<scores, store, evidence, observed, locks, jobs, priorityHistory>>
    PROVE  ResolverInv'
<1>1. Moves(id) /\ ObservesNothing(id) /\ WritesNothing(id) /\ StillForgets(id)
  BY TaskEnded
<1>2. LockHeld' /\ in_flight' \subseteq Tracked
  BY <1>1, LockKept DEF ResolverInv, ResolverTypes, locks
<1>3. QED  BY <1>1, <1>2, QuietStep

\* A task at a step outside remember_snapshot and the update lock.
LEMMA Steps ==
    /\ \A pc \in {"lookup", "resolve", "material", "record", "forget", "evidence", "read",
                  "cache", "score", "remember", "lock", "leave"} : pc \notin Writing \cup Locked
    /\ \A pc \in {"lookup", "resolve", "material", "record", "evidence", "read", "cache"} \cup ExpandSteps :
           pc # "forget" /\ pc \notin Scoring
    /\ \A pc \in Locked : pc \notin Writing
    /\ \A pc \in Writing : pc \notin Locked /\ pc \in Scoring
BY DEF Writing, Locked, Scoring, ExpandSteps

LEMMA ResolveStep ==
    ASSUME ResolverAssumption, ResolverInv, NEW id \in DOMAIN tasks, Resolve(id)
    PROVE  ResolverInv'
<1>1. /\ tasks[id].pc = "resolve" /\ ResolverTypes
      /\ UNCHANGED <<scores, store, evidence, observed, locks, jobs, priorityHistory>>
  BY DEF Resolve, At, ResolverInv
<1>2. tasks[id].pc \notin Writing \cup Locked /\ ~Forgetting(tasks[id])
  BY <1>1, Steps DEF Forgetting
<1>3. TaskOK(tasks[id])
  BY <1>1 DEF ResolverTypes
<1>4. CASE \E snapshot \in Candidates : Remembering(id, snapshot)
  <2>1. CalmlyGoes(id, "remember")
    BY <1>1, <1>2, <1>4, RememberingOne
  <2>2. QED  BY <1>1, <1>2, <2>1, CalmStep
<1>5. CASE tasks' = [tasks EXCEPT ![id].pc = "material", ![id].hydrated = TRUE]
  <2>1. PICK t : t = [tasks[id] EXCEPT !.pc = "material", !.hydrated = TRUE]
    OBVIOUS
  <2>2. t \in TaskType
    BY <1>3, <2>1 DEF TaskOK, TaskType
  <2>3. /\ t.pc = "material" /\ t.kind = tasks[id].kind /\ t.package = tasks[id].package
        /\ t.todo = tasks[id].todo /\ t.read = tasks[id].read /\ t.now = tasks[id].now
    BY <1>3, <2>1 DEF TaskOK, TaskType
  <2>4. TaskBecomes(tasks[id], t, "material")
    BY <1>2, <1>3, <2>2, <2>3 DEF TaskOK, TaskBecomes, Writing
  <2>5. CalmlyGoes(id, "material")
    <3>1. tasks' = [tasks EXCEPT ![id] = t]
      BY <1>5, <2>1
    <3>2. "material" \notin Writing \cup {"lookup"}
      BY DEF Writing
    <3>3. QED  BY <1>1, <1>2, <2>4, <3>1, <3>2, TaskChanged
  <2>6. QED  BY <1>1, <1>2, <2>5, CalmStep
<1>6. QED
  <2>1. tasks[id].package \in Tracked
    BY <1>3 DEF TaskOK, TaskType
  <2>2. graph[tasks[id].package] > 0 => LocalScore(graph[tasks[id].package]) \in Candidates
    BY <1>1, <2>1 DEF ResolverTypes, Candidates, GraphScores
  <2>3. CensusSnapshot \in Candidates /\ KnownPackageStub \in Candidates
    BY DEF Candidates
  <2>4. QED  BY <1>4, <1>5, <2>2, <2>3 DEF Resolve

LEMMA ScoreStep ==
    ASSUME ResolverAssumption, ResolverInv, NEW id \in DOMAIN tasks, ScoreNeighborhood(id)
    PROVE  ResolverInv'
<1>1. /\ tasks[id].pc = "score" /\ ResolverTypes
      /\ UNCHANGED <<scores, store, evidence, observed, locks, jobs, priorityHistory>>
  BY DEF ScoreNeighborhood, At, ResolverInv
<1>2. tasks[id].pc \notin Writing \cup Locked
  BY <1>1, Steps
<1>3. TaskOK(tasks[id])
  BY <1>1 DEF ResolverTypes
<1> DEFINE p == tasks[id].package
           known == {q \in Touches[p] : graph[q] > 0}
           Read(suspicious) ==
               [q \in Tracked |->
                   IF q \notin known THEN Unscored
                   ELSE IF q = p
                   THEN ApplyMetadataRiskOverride(LocalScore(graph[q]), suspicious, 8)
                   ELSE LocalScore(graph[q])]
<1>4. PICK suspicious \in {FALSE, tasks[id].hydrated} :
          tasks' = [tasks EXCEPT ![id].pc = "remember", ![id].todo = known,
                                 ![id].read = Read(suspicious)]
  BY DEF ScoreNeighborhood
<1>5. suspicious \in BOOLEAN
  BY <1>3 DEF TaskOK, TaskType
<1>6. PICK read : read = Read(suspicious)
  OBVIOUS
<1>7. tasks' = [tasks EXCEPT ![id] = Recalls(tasks[id], known, read)]
  <2> HIDE DEF p, known, Read
  <2>1. QED  BY <1>4, <1>6 DEF Recalls
<1>8. Memories(known, read)
  <2>1. p \in Tracked /\ known \subseteq Tracked
    BY <1>3 DEF TaskOK, TaskType, ResolverAssumption
  <2>2. ASSUME NEW q \in Tracked PROVE q \in known => read[q] \in Candidates
    <3>1. graph[q] \in 0..MaxSeen
      BY <1>1 DEF ResolverTypes
    <3>2. LocalScore(graph[q]) \in Candidates
      BY <3>1 DEF Candidates, GraphScores
    <3>3. ApplyMetadataRiskOverride(LocalScore(graph[q]), TRUE, 8) \in Candidates
      BY <3>1 DEF Candidates, GraphScores
    <3>4. ApplyMetadataRiskOverride(LocalScore(graph[q]), FALSE, 8) = LocalScore(graph[q])
      BY DEF ApplyMetadataRiskOverride
    <3>5. QED  BY <1>5, <1>6, <3>2, <3>3, <3>4
  <2>3. \A q \in Tracked : q \notin known => read[q] = Unscored
    BY <1>6
  <2>4. read \in [Tracked -> Scores]
    <3>1. \A q \in Tracked : read[q] \in Scores
      BY <2>2, <2>3, ScoreMembers
    <3>2. read = [q \in Tracked |-> read[q]]
      BY <1>6
    <3>3. QED  BY <3>1, <3>2
  <2>5. QED  BY <2>1, <2>2, <2>4 DEF Memories
<1>9. CalmlyGoes(id, "remember")
  BY <1>1, <1>2, <1>7, <1>8, TaskRemembering
<1>10. Forgetting(tasks[id]) => Forgetting(tasks'[id])
  BY <1>1, <1>9 DEF CalmlyGoes, Forgetting, Scoring
<1>11. QED  BY <1>1, <1>2, <1>9, <1>10, CalmStep

\* Only the one task that observes looks up, and once.
LEMMA LookupStep ==
    ASSUME ResolverAssumption, ResolverInv, NEW id \in DOMAIN tasks, Lookup(id)
    PROVE  ResolverInv'
<1>1. /\ tasks[id].pc = "lookup" /\ ResolverTypes /\ Counted /\ PackagesOK
      /\ UNCHANGED <<scores, store, evidence, locks, jobs, priorityHistory>>
  BY DEF Lookup, At, ResolverInv
<1>2. tasks[id].pc \notin Writing \cup Locked /\ ~Forgetting(tasks[id])
  BY <1>1, Steps DEF Forgetting
<1>3. TaskOK(tasks[id]) /\ tasks[id].package \in Tracked
  BY <1>1 DEF ResolverTypes, TaskOK, TaskType
<1>4. PICK pc \in {"evidence", "resolve"} : Goto(id, pc)
  BY DEF Lookup
<1>5. CalmlyGoes(id, pc)
  BY <1>1, <1>2, <1>4, TaskWent
<1>6. Moves(id) /\ WritesNothing(id) /\ StillForgets(id)
  BY <1>2, <1>5 DEF CalmlyGoes
<1>7. PackagesOK'
  BY <1>1, <1>6, QuietKeeps
<1>8. observed' = [observed EXCEPT ![tasks[id].package] = @ + 1]
  BY DEF Lookup
<1>9. \A p \in Tracked : observed'[p] \in Nat /\ observed'[p] <= observed[p] + 1
  BY <1>1, <1>8 DEF ResolverTypes
<1>10. ResolverTypes'
  <2>1. LockHeld'
    BY <1>1, <1>2, <1>6, LockKept DEF ResolverTypes, locks
  <2>2. observed' \in [Tracked -> Nat]
    BY <1>1, <1>3, <1>8 DEF ResolverTypes
  <2>3. QED  BY <1>1, <1>6, <2>1, <2>2, TasksStayOK DEF ResolverTypes, store, locks, priorityHistory
<1>11. Counted'
  <2>1. \A p \in Tracked : observed[p] < jobs /\ jobs' = jobs /\ jobs \in Nat /\ observed[p] \in Nat
    BY <1>1 DEF Counted, ResolverTypes
  <2>2. \A p \in Tracked : observed'[p] <= jobs'
    BY <1>9, <2>1
  <2>3. DOMAIN tasks' = DOMAIN tasks /\ \A j \in DOMAIN tasks : tasks'[j].kind = tasks[j].kind
    BY <1>5 DEF CalmlyGoes, Moves
  <2>4. \A i, j \in DOMAIN tasks' : tasks'[i].kind = "observe" /\ tasks'[j].kind = "observe" => i = j
    BY <1>1, <2>3 DEF Counted
  <2>5. \A j \in DOMAIN tasks' : tasks'[j].pc # "lookup"
    <3>1. \A j \in DOMAIN tasks : tasks[j].pc = "lookup" => tasks[j].kind = "observe"
      BY <1>1 DEF ResolverTypes, TaskOK
    <3>2. \A j \in DOMAIN tasks : tasks[j].pc = "lookup" => j = id
      BY <1>1, <3>1 DEF Counted
    <3>3. \A j \in DOMAIN tasks \ {id} : tasks'[j] = tasks[j]
      BY <1>6 DEF Moves
    <3>4. tasks'[id].pc # "lookup"
      BY <1>5 DEF CalmlyGoes
    <3>5. QED  BY <2>3, <3>2, <3>3, <3>4
  <2>6. QED  BY <2>2, <2>4, <2>5 DEF Counted
<1>12. QED  BY <1>7, <1>10, <1>11 DEF ResolverInv

LEMMA EvidenceLookupStep ==
    ASSUME ResolverAssumption, ResolverInv, NEW id \in DOMAIN tasks, FindEvidence(id) \/ ReadEvidence(id)
    PROVE  ResolverInv'
<1>1. /\ tasks[id].pc \in {"evidence", "read"} /\ ResolverTypes
      /\ UNCHANGED <<scores, store, evidence, observed, locks, jobs, priorityHistory>>
  BY DEF FindEvidence, ReadEvidence, At, ResolverInv
<1>2. tasks[id].pc \notin Writing \cup Locked /\ ~Forgetting(tasks[id])
  BY <1>1, Steps DEF Forgetting
<1>3. TaskOK(tasks[id])
  BY <1>1 DEF ResolverTypes
<1>4. CASE Ended(id)
  BY <1>1, <1>2, <1>4, CalmEnd
<1>5. CASE Goto(id, "read")
  <2>1. CalmlyGoes(id, "read")
    BY <1>1, <1>2, <1>5, TaskWent
  <2>2. QED  BY <1>1, <1>2, <2>1, CalmStep
<1>6. CASE ReadEvidence(id)
  <2>1. PICK t : t = [tasks[id] EXCEPT !.pc = "cache", !.count = graph[tasks[id].package]]
    OBVIOUS
  <2>2. graph[tasks[id].package] \in 0..MaxSeen
    BY <1>1, <1>3 DEF ResolverTypes, TaskOK, TaskType
  <2>3. t \in TaskType
    BY <1>3, <2>1, <2>2 DEF TaskOK, TaskType
  <2>4. /\ t.pc = "cache" /\ t.kind = tasks[id].kind /\ t.package = tasks[id].package
        /\ t.todo = tasks[id].todo /\ t.read = tasks[id].read /\ t.now = tasks[id].now
    BY <1>3, <2>1 DEF TaskOK, TaskType
  <2>5. TaskBecomes(tasks[id], t, "cache")
    BY <1>2, <1>3, <2>3, <2>4 DEF TaskOK, TaskBecomes, Writing
  <2>6. CalmlyGoes(id, "cache")
    <3>1. tasks' = [tasks EXCEPT ![id] = t]
      BY <1>6, <2>1 DEF ReadEvidence
    <3>2. "cache" \notin Writing \cup {"lookup"}
      BY DEF Writing
    <3>3. QED  BY <1>1, <1>2, <2>5, <3>1, <3>2, TaskChanged
  <2>7. QED  BY <1>1, <1>2, <2>6, CalmStep
<1>7. QED  BY <1>4, <1>5, <1>6 DEF FindEvidence

\* What a new task is.
LEMMA NewTaskOK ==
    ASSUME ResolverAssumption, NEW p \in Tracked,
           NEW kind \in {"observe", "hydrate", "capture", "expand"},
           NEW pc \in {"lookup", "material", "record", "lock"},
           pc = "record" => kind = "capture", pc = "lookup" => kind = "observe"
    PROVE  /\ TaskOK(Task(kind, p, pc)) /\ Task(kind, p, pc).pc = pc
           /\ Task(kind, p, pc).kind = kind /\ Task(kind, p, pc).package = p
<1> DEFINE t == Task(kind, p, pc)
<1>1. /\ t.pc = pc /\ t.kind = kind /\ t.package = p /\ t.todo = {} /\ t.now = {}
  BY DEF Task
<1>2. t \in TaskType
  <2>1. [q \in Tracked |-> Unscored] \in [Tracked -> Scores]
    BY ScoreMembers
  <2>2. pc \in {"lookup", "resolve", "material", "record", "forget", "evidence", "read", "cache"}
              \cup Scoring \cup ExpandSteps
    BY DEF ExpandSteps
  <2>3. QED  BY <2>1, <2>2 DEF Task, TaskType
<1> HIDE DEF t
<1>3. pc \notin Writing /\ pc # "publish"
  BY DEF Writing
<1>4. TaskOK(t)
  BY <1>1, <1>2, <1>3 DEF TaskOK
<1>5. QED  BY <1>1, <1>4 DEF t

LEMMA StartStep ==
    ASSUME ResolverAssumption, ExpansionInv, ResolverInv,
           NEW kind \in DOMAIN FirstStep, NEW p \in Tracked, StartJob(kind, p)
    PROVE  ResolverInv'
<1>1. /\ ResolverTypes /\ Counted /\ PackagesOK /\ jobs < MaxJobs /\ jobs' = jobs + 1
      /\ UNCHANGED <<scores, store, evidence, observed, locks, priorityHistory>>
  BY DEF StartJob, ResolverInv
<1>2. PICK id, task : id = NextId(tasks) /\ task = Task(kind, p, FirstStep[kind])
  OBVIOUS
<1>3. /\ kind \in {"observe", "hydrate", "capture"}
      /\ FirstStep[kind] \in {"lookup", "material", "record"}
      /\ FirstStep[kind] = "lookup" => kind = "observe"
      /\ FirstStep[kind] = "record" => kind = "capture"
  BY DEF FirstStep
<1>4. TaskOK(task) /\ task.pc = FirstStep[kind] /\ task.kind = kind
  BY <1>2, <1>3, NewTaskOK
<1>5. /\ id \notin DOMAIN tasks /\ DOMAIN tasks' = DOMAIN tasks \cup {id}
      /\ tasks'[id] = task /\ \A t \in DOMAIN tasks : tasks'[t] = tasks[t]
  <2>1. tasks' = Started(tasks, task) /\ IsFiniteSet(DOMAIN tasks)
    BY <1>2 DEF StartJob, ExpansionInv, TasksOK
  <2>2. LET after == Started(tasks, task)
            new == NextId(tasks)
        IN  /\ new \notin DOMAIN tasks /\ DOMAIN after = DOMAIN tasks \cup {new}
            /\ after[new] = task /\ \A t \in DOMAIN tasks : after[t] = tasks[t]
    BY <2>1, StartedTasks
  <2>3. QED  BY <1>2, <2>1, <2>2
<1>6. Moves(id)
  BY <1>3, <1>4, <1>5 DEF Moves
<1>7. WritesNothing(id) /\ StillForgets(id)
  BY <1>3, <1>4, <1>5 DEF WritesNothing, StillForgets, Writing
<1>8. PackagesOK'
  BY <1>1, <1>6, <1>7, QuietKeeps
<1>9. jobs \in Nat /\ jobs' \in 0..MaxJobs
  BY <1>1 DEF ResolverTypes, ResolverAssumption
<1>10. ResolverTypes'
  <2>1. LockHeld'
    BY <1>1, <1>5, <1>6, LockKept DEF ResolverTypes, locks
  <2>2. QED  BY <1>1, <1>6, <1>9, <2>1, TasksStayOK DEF ResolverTypes, store, locks, priorityHistory
<1>11. Counted'
  <2>1. \A i, j \in DOMAIN tasks' : tasks'[i].kind = "observe" /\ tasks'[j].kind = "observe" => i = j
    <3>1. kind = "observe" => \A j \in DOMAIN tasks : tasks[j].kind # "observe"
      BY DEF StartJob
    <3>2. QED  BY <1>1, <1>4, <1>5, <3>1 DEF Counted
  <2>2. \A q \in Tracked : observed'[q] \in Nat /\ observed'[q] < jobs'
    BY <1>1, <1>9 DEF Counted, ResolverTypes
  <2>3. \A q \in Tracked : observed'[q] <= jobs'
    BY <1>1, <1>9, <2>2
  <2>4. QED  BY <2>1, <2>2, <2>3 DEF Counted
<1>12. QED  BY <1>8, <1>10, <1>11 DEF ResolverInv

LEMMA RememberedStep ==
    ASSUME ResolverAssumption, ExpansionInv, ResolverInv, NEW id \in DOMAIN tasks, Remembered(id)
    PROVE  ResolverInv'
<1>1. /\ tasks[id].pc = "remember" /\ ResolverTypes
      /\ UNCHANGED <<scores, store, evidence, observed, update_lock, jobs, priorityHistory>>
  BY DEF Remembered, At, ResolverInv
<1>2. tasks[id].pc \notin Writing \cup Locked
  BY <1>1, Steps
<1>3. TaskOK(tasks[id]) /\ tasks[id].package \in Tracked
  BY <1>1 DEF ResolverTypes, TaskOK, TaskType
<1>4. tasks[id].kind # "capture" => ~Forgetting(tasks[id])
  BY <1>1 DEF Forgetting
<1>5. CASE /\ tasks[id].kind = "observe" /\ in_flight' = in_flight \cup {tasks[id].package}
           /\ tasks' = Started([tasks EXCEPT ![id].pc = "evidence"],
                               Task("expand", tasks[id].package, "lock"))
  <2>1. PICK moved, task, t : /\ moved = [tasks EXCEPT ![id].pc = "evidence"]
                              /\ task = Task("expand", tasks[id].package, "lock")
                              /\ t = [tasks[id] EXCEPT !.pc = "evidence"]
    OBVIOUS
  <2>2. TaskOK(task) /\ task.pc = "lock" /\ task.kind = "expand"
    BY <1>3, <2>1, NewTaskOK
  <2>3. TaskBecomes(tasks[id], t, "evidence")
    BY <1>2, <1>3, <2>1, TaskGoes
  <2>4. /\ DOMAIN moved = DOMAIN tasks /\ moved[id] = t
        /\ \A j \in DOMAIN tasks \ {id} : moved[j] = tasks[j]
    BY <2>1
  <2>5. PICK new : new = NextId(moved)
    OBVIOUS
  <2>6. /\ new \notin DOMAIN tasks /\ DOMAIN tasks' = DOMAIN tasks \cup {new}
        /\ tasks'[new] = task /\ \A j \in DOMAIN tasks : tasks'[j] = moved[j]
    <3>1. tasks' = Started(moved, task) /\ IsFiniteSet(DOMAIN moved)
      BY <1>5, <2>1, <2>4 DEF ExpansionInv, TasksOK
    <3>2. LET after == Started(moved, task)
              next == NextId(moved)
          IN  /\ next \notin DOMAIN moved /\ DOMAIN after = DOMAIN moved \cup {next}
              /\ after[next] = task /\ \A j \in DOMAIN moved : after[j] = moved[j]
      BY <3>1, StartedTasks
    <3>3. QED  BY <2>4, <2>5, <3>1, <3>2
  <2>7. tasks'[id] = t /\ \A j \in DOMAIN tasks \ {id} : tasks'[j] = tasks[j]
    BY <2>4, <2>6
  <2>8. Moves(id)
    BY <2>2, <2>3, <2>6, <2>7 DEF Moves, TaskBecomes
  <2>9. "evidence" \notin Writing
    BY DEF Writing
  <2>10. WritesNothing(id) /\ ObservesNothing(id)
    BY <1>2, <2>2, <2>3, <2>6, <2>7, <2>9 DEF WritesNothing, ObservesNothing, TaskBecomes
  <2>11. StillForgets(id)
    BY <1>4, <1>5 DEF StillForgets
  <2>12. LockHeld'
    BY <1>1, <1>2, <2>8, LockKept DEF ResolverTypes
  <2>13. in_flight' \subseteq Tracked
    BY <1>1, <1>3, <1>5 DEF ResolverTypes
  <2>14. QED  BY <1>1, <2>8, <2>10, <2>11, <2>12, <2>13, QuietStep
<1>6. CASE UNCHANGED in_flight /\ tasks[id].kind = "hydrate" /\ Ended(id)
  BY <1>1, <1>2, <1>4, <1>6, CalmEnd DEF locks
<1>7. CASE UNCHANGED in_flight /\ tasks[id].kind = "capture" /\ Goto(id, "forget")
  <2>1. CalmlyGoes(id, "forget")
    BY <1>1, <1>2, <1>7, TaskWent
  <2>2. Forgetting(tasks'[id])
    BY <2>1 DEF CalmlyGoes, Forgetting
  <2>3. QED  BY <1>1, <1>2, <1>7, <2>1, <2>2, CalmStep DEF locks
<1>8. CASE UNCHANGED in_flight /\ tasks[id].kind # "capture" /\ Goto(id, "evidence")
  <2>1. CalmlyGoes(id, "evidence")
    BY <1>1, <1>2, <1>8, TaskWent
  <2>2. QED  BY <1>1, <1>2, <1>4, <1>8, <2>1, CalmStep DEF locks
<1>9. QED
  <2>1. \/ /\ tasks[id].kind = "observe" /\ in_flight' = in_flight \cup {tasks[id].package}
           /\ tasks' = Started([tasks EXCEPT ![id].pc = "evidence"],
                               Task("expand", tasks[id].package, "lock"))
        \/ /\ UNCHANGED in_flight
           /\ IF tasks[id].kind = "hydrate" THEN Ended(id)
              ELSE Goto(id, IF tasks[id].kind = "capture" THEN "forget" ELSE "evidence")
    BY DEF Remembered
  <2>2. QED  BY <1>5, <1>6, <1>7, <1>8, <2>1

\* The steps of an expansion under the update lock, but for those that write.
LEMMA LockSteps ==
    ASSUME ResolverAssumption, ResolverInv, NEW id \in DOMAIN tasks,
           TakeLock(id) \/ Rescore(id) \/ Unlock(id) \/ Leave(id)
    PROVE  ResolverInv'
<1>1. /\ tasks[id].pc \in {"lock", "rescore", "unlock", "leave"} /\ ResolverTypes
      /\ UNCHANGED <<scores, store, evidence, observed, jobs, priorityHistory>>
  BY DEF TakeLock, Rescore, Unlock, Leave, At, ResolverInv, locks
<1>2. tasks[id].pc \notin Writing /\ ~Forgetting(tasks[id])
  BY <1>1, Steps DEF Forgetting, Locked, ExpandSteps
<1>3. TaskOK(tasks[id])
  BY <1>1 DEF ResolverTypes
<1>4. ASSUME NEW pc, CalmlyGoes(id, pc), LockHeld', UNCHANGED in_flight
      PROVE  ResolverInv'
  <2>1. Moves(id) /\ ObservesNothing(id) /\ WritesNothing(id) /\ StillForgets(id)
    BY <1>2, <1>4 DEF CalmlyGoes
  <2>2. in_flight' \subseteq Tracked
    BY <1>1, <1>4 DEF ResolverTypes
  <2>3. QED  BY <1>1, <1>4, <2>1, <2>2, QuietStep
<1>5. CASE TakeLock(id)
  <2>1. CalmlyGoes(id, "collect")
    BY <1>1, <1>2, <1>5, TaskWent DEF TakeLock
  <2>2. LockHeld'
    BY <1>5, <2>1 DEF TakeLock, CalmlyGoes, LockHeld, Locked
  <2>3. UNCHANGED in_flight
    BY <1>5 DEF TakeLock
  <2>4. QED  BY <1>4, <2>1, <2>2, <2>3
<1>6. CASE Unlock(id)
  <2>1. CalmlyGoes(id, "leave")
    BY <1>1, <1>2, <1>6, TaskWent DEF Unlock
  <2>2. LockHeld' /\ UNCHANGED in_flight
    BY <1>6 DEF Unlock, LockHeld
  <2>3. QED  BY <1>4, <2>1, <2>2
<1>7. CASE Rescore(id)
  <2>1. PICK read : read = [q \in Tracked |-> IF q \in Touches[tasks[id].package]
                                              THEN LocalScore(graph[q]) ELSE Unscored]
    OBVIOUS
  <2>2. PICK t : t = [tasks[id] EXCEPT !.pc = "publish", !.read = read]
    OBVIOUS
  <2>3. \A q \in Tracked : read[q] \in IF q \in Touches[tasks[id].package] THEN GraphScores ELSE {Unscored}
    <3>1. \A q \in Tracked : graph[q] \in 0..MaxSeen
      BY <1>1 DEF ResolverTypes
    <3>2. \A q \in Tracked : LocalScore(graph[q]) \in GraphScores
      BY <3>1 DEF GraphScores
    <3>3. QED  BY <2>1, <3>2
  <2>4. read \in [Tracked -> Scores]
    <3>1. \A q \in Tracked : read[q] \in Scores
      BY <2>3, ScoreMembers
    <3>2. read = [q \in Tracked |-> read[q]]
      BY <2>1
    <3>3. QED  BY <3>1, <3>2
  <2>5. t \in TaskType
    BY <1>3, <2>2, <2>4 DEF TaskOK, TaskType, ExpandSteps
  <2>6. /\ t.pc = "publish" /\ t.kind = tasks[id].kind /\ t.package = tasks[id].package
        /\ t.todo = tasks[id].todo /\ t.read = read /\ t.now = {}
    BY <1>2, <1>3, <2>2 DEF TaskOK, TaskType
  <2>7. TaskBecomes(tasks[id], t, "publish")
    <3>1. t.pc \notin {"remember"} \cup Writing
      BY <2>6 DEF Writing
    <3>2. QED  BY <1>2, <1>3, <2>3, <2>5, <2>6, <3>1 DEF TaskOK, TaskBecomes
  <2>8. CalmlyGoes(id, "publish")
    <3>1. tasks' = [tasks EXCEPT ![id] = t]
      BY <1>7, <2>1, <2>2 DEF Rescore
    <3>2. "publish" \notin Writing \cup {"lookup"}
      BY DEF Writing
    <3>3. QED  BY <1>1, <1>2, <2>7, <3>1, <3>2, TaskChanged
  <2>9. LockHeld' /\ UNCHANGED in_flight
    <3>1. UNCHANGED <<update_lock, in_flight>>
      BY <1>7 DEF Rescore, locks
    <3>2. tasks'[id].pc \in Locked /\ Moves(id) /\ DOMAIN tasks' = DOMAIN tasks
      BY <2>8 DEF CalmlyGoes, Locked
    <3>3. QED  BY <1>1, <3>1, <3>2, LockKept DEF ResolverTypes
  <2>10. QED  BY <1>4, <2>8, <2>9
<1>8. CASE Leave(id)
  <2>1. Moves(id) /\ ObservesNothing(id) /\ WritesNothing(id) /\ StillForgets(id)
    BY <1>2, <1>8, TaskEnded DEF Leave
  <2>2. in_flight' \subseteq Tracked /\ UNCHANGED update_lock
    BY <1>1, <1>8 DEF Leave, ResolverTypes
  <2>3. tasks[id].pc \notin Locked
    BY <1>8 DEF Leave, At, Locked
  <2>4. LockHeld'
    BY <1>1, <2>1, <2>2, <2>3, LockKept DEF ResolverTypes
  <2>5. QED  BY <1>1, <2>1, <2>2, <2>4, QuietStep
<1>9. QED  BY <1>5, <1>6, <1>7, <1>8

-----------------------------------------------------------------------------
(* Steps that grow the graph, and those that drop or fill cached evidence. *)

StatesTyped ==
    /\ scores \in [Tracked -> Scores]
    /\ stored \in [Tracked -> {Unscored} \cup GraphScores]
    /\ graph \in [Tracked -> 0..MaxSeen]
    /\ evidence \in [Tracked -> {NotCached} \cup 0..MaxSeen]
    /\ contended \subseteq Tracked /\ raced \subseteq Tracked

LEMMA WritingStep ==
    ASSUME ResolverInv, NEW id, Moves(id), ObservesNothing(id), LockHeld',
           UNCHANGED <<observed, jobs, in_flight>>, StatesTyped', PackagesOK'
    PROVE  ResolverInv'
<1>1. ResolverTypes /\ Counted
  BY DEF ResolverInv
<1>2. ResolverTypes'
  BY <1>1, TasksStayOK DEF ResolverTypes, StatesTyped
<1>3. QED  BY <1>1, <1>2, CountedKept DEF ResolverInv

LEMMA GrownGraph ==
    ASSUME ResolverAssumption, ResolverTypes, NEW p \in Tracked
    PROVE  /\ Grown(p) \in [Tracked -> 0..MaxSeen]
           /\ \A q \in Tracked : q \notin Touches[p] => Grown(p)[q] = graph[q]
<1>1. MaxSeen \in Nat /\ \A q \in Tracked : graph[q] \in 0..MaxSeen
  BY DEF ResolverAssumption, ResolverTypes
<1>2. QED  BY <1>1 DEF Grown

\* The graph has grown, and the task will drop the evidence of what it touched.
LEMMA GrowingStep ==
    ASSUME ResolverAssumption, ResolverInv, NEW id \in DOMAIN tasks,
           tasks[id].pc \notin Locked, ~Forgetting(tasks[id]),
           NEW pc, CalmlyGoes(id, pc), Forgetting(tasks'[id]),
           graph' = Grown(tasks[id].package),
           UNCHANGED <<scores, stored, evidence, observed, locks, jobs, priorityHistory>>
    PROVE  ResolverInv'
<1>1. ResolverTypes /\ PackagesOK
  BY DEF ResolverInv
<1>2. /\ Moves(id) /\ ObservesNothing(id) /\ WritesNothing(id) /\ StillForgets(id)
      /\ DOMAIN tasks' = DOMAIN tasks
  BY DEF CalmlyGoes
<1>3. tasks[id].package \in Tracked /\ tasks'[id].package = tasks[id].package
  BY <1>1, <1>2 DEF ResolverTypes, TaskOK, TaskType, Moves
<1>4. StatesTyped'
  BY <1>1, <1>3, GrownGraph DEF ResolverTypes, StatesTyped, priorityHistory
<1>5. ASSUME NEW p \in Tracked PROVE FileWins(p)'
  BY <1>1 DEF PackagesOK, FileWins
<1>6. ASSUME NEW p \in Tracked, p \notin contended' PROVE Settling(p)'
  BY <1>1, <1>2, <1>6, SettlingKept DEF PackagesOK, priorityHistory
<1>7. ASSUME NEW p \in Tracked PROVE UpToDate(p)'
  <2>1. CASE p \in Touches[tasks[id].package]
    BY <1>2, <1>3, <2>1 DEF UpToDate, ToBeForgotten
  <2>2. CASE p \notin Touches[tasks[id].package]
    <3>1. graph'[p] = graph[p]
      BY <1>1, <1>3, <2>2, GrownGraph
    <3>2. QED  BY <1>1, <1>2, <3>1, UpToDateKept DEF PackagesOK, priorityHistory
  <2>3. QED  BY <2>1, <2>2
<1>8. PackagesOK'
  BY <1>5, <1>6, <1>7 DEF PackagesOK
<1>9. LockHeld'
  BY <1>1, <1>2, LockKept DEF ResolverTypes, locks
<1>10. QED  BY <1>2, <1>4, <1>8, <1>9, WritingStep DEF locks

LEMMA MaterialStep ==
    ASSUME ResolverAssumption, ResolverInv, NEW id \in DOMAIN tasks, PersistMaterial(id)
    PROVE  ResolverInv'
<1>1. /\ tasks[id].pc = "material" /\ ResolverTypes
      /\ UNCHANGED <<scores, stored, evidence, observed, locks, jobs, priorityHistory>>
  BY DEF PersistMaterial, At, ResolverInv
<1>2. tasks[id].pc \notin Writing \cup Locked /\ ~Forgetting(tasks[id])
  BY <1>1, Steps DEF Forgetting
<1>3. CASE graph' = Grown(tasks[id].package) /\ Goto(id, "forget")
  <2>1. CalmlyGoes(id, "forget")
    BY <1>1, <1>2, <1>3, TaskWent
  <2>2. Forgetting(tasks'[id])
    BY <2>1 DEF CalmlyGoes, Forgetting
  <2>3. QED  BY <1>1, <1>2, <1>3, <2>1, <2>2, GrowingStep
<1>4. CASE UNCHANGED graph /\ Ended(id)
  BY <1>1, <1>2, <1>4, CalmEnd DEF store
<1>5. CASE UNCHANGED graph /\ \E s \in {CensusSnapshot, KnownPackageStub} : Remembering(id, s)
  <2>1. CalmlyGoes(id, "remember")
    <3>1. \E s \in Candidates : Remembering(id, s)
      BY <1>5 DEF Candidates
    <3>2. QED  BY <1>1, <1>2, <3>1, RememberingOne
  <2>2. QED  BY <1>1, <1>2, <1>5, <2>1, CalmStep DEF store
<1>6. QED  BY <1>3, <1>4, <1>5 DEF PersistMaterial

LEMMA RecordStep ==
    ASSUME ResolverAssumption, ResolverInv, NEW id \in DOMAIN tasks, RecordGraph(id)
    PROVE  ResolverInv'
<1>1. /\ tasks[id].pc = "record" /\ ResolverTypes /\ Goto(id, "score")
      /\ graph' = Grown(tasks[id].package)
      /\ UNCHANGED <<scores, stored, evidence, observed, locks, jobs, priorityHistory>>
  BY DEF RecordGraph, At, ResolverInv
<1>2. tasks[id].pc \notin Writing \cup Locked /\ ~Forgetting(tasks[id])
  BY <1>1, Steps DEF Forgetting
<1>3. CalmlyGoes(id, "score")
  BY <1>1, <1>2, TaskWent
<1>4. tasks[id].kind = "capture"
  BY <1>1 DEF ResolverTypes, TaskOK
<1>5. Forgetting(tasks'[id])
  BY <1>3, <1>4 DEF CalmlyGoes, Forgetting, Scoring
<1>6. QED  BY <1>1, <1>2, <1>3, <1>5, GrowingStep

LEMMA CollectStep ==
    ASSUME ResolverAssumption, ResolverInv, NEW id \in DOMAIN tasks, Collect(id)
    PROVE  ResolverInv'
<1>1. /\ tasks[id].pc = "collect" /\ ResolverTypes /\ PackagesOK
      /\ UNCHANGED <<scores, stored, evidence, observed, locks, jobs, contended>>
  BY DEF Collect, At, ResolverInv
<1>2. tasks[id].pc \notin Writing /\ ~Forgetting(tasks[id])
  BY <1>1, Steps DEF Forgetting, Locked, ExpandSteps
<1>3. PICK pc \in {"unlock", "rescore"} : Goto(id, pc)
  BY DEF Collect
<1>4. CalmlyGoes(id, pc)
  BY <1>1, <1>2, <1>3, TaskWent
<1>5. /\ Moves(id) /\ ObservesNothing(id) /\ WritesNothing(id) /\ StillForgets(id)
      /\ id \in DOMAIN tasks' /\ tasks'[id].pc \in Locked
  BY <1>2, <1>4 DEF CalmlyGoes, Locked
<1>6. LockHeld'
  BY <1>1, <1>5, LockKept DEF ResolverTypes, locks
<1>7. CASE UNCHANGED <<graph, raced>>
  <2>1. in_flight' \subseteq Tracked
    BY <1>1 DEF ResolverTypes, locks
  <2>2. QED  BY <1>1, <1>5, <1>6, <1>7, <2>1, QuietStep DEF store, priorityHistory
<1>8. CASE /\ graph' = Grown(tasks[id].package)
           /\ raced' = raced \cup {q \in Tracked : evidence[q] # NotCached /\ evidence[q] # graph'[q]}
  <2>1. tasks[id].package \in Tracked
    BY <1>1 DEF ResolverTypes, TaskOK, TaskType
  <2>2. StatesTyped'
    BY <1>1, <1>8, <2>1, GrownGraph DEF ResolverTypes, StatesTyped
  <2>3. ASSUME NEW p \in Tracked PROVE FileWins(p)'
    BY <1>1 DEF PackagesOK, FileWins
  <2>4. ASSUME NEW p \in Tracked, p \notin contended' PROVE Settling(p)'
    BY <1>1, <1>5, <2>4, SettlingKept DEF PackagesOK
  <2>5. ASSUME NEW p \in Tracked PROVE UpToDate(p)'
    BY <1>1, <1>8 DEF UpToDate
  <2>6. PackagesOK'
    BY <2>3, <2>4, <2>5 DEF PackagesOK
  <2>7. QED  BY <1>1, <1>5, <1>6, <2>2, <2>6, WritingStep DEF locks
<1>9. QED  BY <1>7, <1>8 DEF Collect

\* A task whose evidence step leaves scores, rows and graph alone.
LEMMA EvidenceStep ==
    ASSUME ResolverInv, NEW id, Moves(id), ObservesNothing(id), WritesNothing(id), LockHeld',
           evidence' \in [Tracked -> {NotCached} \cup 0..MaxSeen], raced' \subseteq Tracked,
           \A p \in Tracked : UpToDate(p)',
           UNCHANGED <<scores, store, observed, jobs, in_flight, contended>>
    PROVE  ResolverInv'
<1>1. ResolverTypes /\ PackagesOK
  BY DEF ResolverInv
<1>2. StatesTyped'
  BY <1>1 DEF ResolverTypes, StatesTyped, store
<1>3. ASSUME NEW p \in Tracked PROVE FileWins(p)'
  BY <1>1 DEF PackagesOK, FileWins
<1>4. ASSUME NEW p \in Tracked, p \notin contended' PROVE Settling(p)'
  BY <1>1, <1>4, SettlingKept DEF PackagesOK, store
<1>5. PackagesOK'
  BY <1>3, <1>4 DEF PackagesOK
<1>6. QED  BY <1>2, <1>5, WritingStep

LEMMA ForgetStep ==
    ASSUME ResolverAssumption, ResolverInv, NEW id \in DOMAIN tasks, Forget(id)
    PROVE  ResolverInv'
<1>1. /\ tasks[id].pc = "forget" /\ ResolverTypes /\ PackagesOK
      /\ UNCHANGED <<scores, store, observed, locks, jobs, contended>>
  BY DEF Forget, At, ResolverInv
<1>2. PICK touched : /\ touched = Touches[tasks[id].package]
                     /\ evidence' = [q \in Tracked |-> IF q \in touched THEN NotCached ELSE evidence[q]]
                     /\ raced' = raced \ touched
  BY DEF Forget
<1>3. tasks[id].pc \notin Writing \cup Locked
  BY <1>1, Steps
<1>4. PICK pc \in {"evidence", "score"} : Goto(id, pc)
  BY DEF Forget, AfterForget
<1>5. CalmlyGoes(id, pc)
  BY <1>1, <1>3, <1>4, TaskWent
<1>6. Moves(id) /\ ObservesNothing(id) /\ WritesNothing(id)
  BY <1>5 DEF CalmlyGoes
<1>7. LockHeld'
  BY <1>1, <1>3, <1>6, LockKept DEF ResolverTypes, locks
<1>8. ASSUME NEW p \in Tracked PROVE UpToDate(p)'
  <2>1. CASE p \in touched
    BY <1>2, <2>1 DEF UpToDate
  <2>2. CASE p \notin touched
    <3>1. /\ evidence'[p] = evidence[p] /\ graph'[p] = graph[p] /\ (p \in raced => p \in raced')
      BY <1>1, <1>2, <2>2 DEF store
    <3>2. ToBeForgotten(p) => ToBeForgotten(p)'
      <4>1. ASSUME NEW j \in DOMAIN tasks, Forgetting(tasks[j]), p \in Touches[tasks[j].package]
            PROVE  j \in DOMAIN tasks' /\ tasks'[j] = tasks[j]
        BY <1>2, <1>6, <2>2, <4>1 DEF Moves
      <4>2. QED  BY <4>1 DEF ToBeForgotten
    <3>3. UpToDate(p)
      BY <1>1 DEF PackagesOK
    <3>4. QED  BY <3>1, <3>2, <3>3 DEF UpToDate
  <2>3. QED  BY <2>1, <2>2
<1>9. evidence' \in [Tracked -> {NotCached} \cup 0..MaxSeen] /\ raced' \subseteq Tracked
  BY <1>1, <1>2 DEF ResolverTypes
<1>10. QED  BY <1>1, <1>6, <1>7, <1>8, <1>9, EvidenceStep DEF locks

LEMMA FillStep ==
    ASSUME ResolverAssumption, ResolverInv, NEW id \in DOMAIN tasks, FillEvidence(id)
    PROVE  ResolverInv'
<1>1. /\ tasks[id].pc = "cache" /\ ResolverTypes /\ PackagesOK /\ Ended(id)
      /\ UNCHANGED <<scores, store, observed, locks, jobs, contended>>
  BY DEF FillEvidence, At, ResolverInv
<1>2. PICK p : /\ p = tasks[id].package
               /\ evidence' = [evidence EXCEPT ![p] = tasks[id].count]
               /\ raced' = IF tasks[id].count # graph[p] THEN raced \cup {p} ELSE raced \ {p}
  BY DEF FillEvidence
<1>3. tasks[id].pc \notin Writing \cup Locked /\ ~Forgetting(tasks[id])
  BY <1>1, Steps DEF Forgetting
<1>4. Moves(id) /\ ObservesNothing(id) /\ WritesNothing(id) /\ StillForgets(id)
  BY <1>1, <1>3, TaskEnded
<1>5. LockHeld'
  BY <1>1, <1>3, <1>4, LockKept DEF ResolverTypes, locks
<1>6. p \in Tracked /\ tasks[id].count \in {NotCached} \cup 0..MaxSeen
  BY <1>1, <1>2 DEF ResolverTypes, TaskOK, TaskType
<1>7. ASSUME NEW q \in Tracked PROVE UpToDate(q)'
  <2>1. CASE q = p
    BY <1>1, <1>2, <1>6, <2>1 DEF UpToDate, ResolverTypes, store
  <2>2. CASE q # p
    <3>1. evidence'[q] = evidence[q] /\ graph'[q] = graph[q] /\ (q \in raced => q \in raced')
      BY <1>1, <1>2, <2>2 DEF ResolverTypes, store
    <3>2. QED  BY <1>1, <1>4, <3>1, UpToDateKept DEF PackagesOK
  <2>3. QED  BY <2>1, <2>2
<1>8. evidence' \in [Tracked -> {NotCached} \cup 0..MaxSeen] /\ raced' \subseteq Tracked
  BY <1>1, <1>2, <1>6 DEF ResolverTypes
<1>9. QED  BY <1>1, <1>4, <1>5, <1>7, <1>8, EvidenceStep DEF locks

-----------------------------------------------------------------------------
(* remember_snapshot, and what an expansion publishes.                     *)

\* The task goes on, at whatever step.
GoesAs(id, t) ==
    /\ Moves(id) /\ ObservesNothing(id)
    /\ DOMAIN tasks' = DOMAIN tasks /\ tasks'[id] = t

LEMMA TaskReplaced ==
    ASSUME ResolverTypes, NEW id \in DOMAIN tasks, NEW t, NEW pc, TaskBecomes(tasks[id], t, pc),
           pc # "lookup", tasks' = [tasks EXCEPT ![id] = t]
    PROVE  GoesAs(id, t)
<1>1. DOMAIN tasks' = DOMAIN tasks /\ tasks'[id] = t /\ \A j \in DOMAIN tasks \ {id} : tasks'[j] = tasks[j]
  OBVIOUS
<1>2. Moves(id)
  BY <1>1 DEF Moves, TaskBecomes
<1>3. ObservesNothing(id)
  BY <1>1 DEF TaskBecomes, ObservesNothing
<1>4. QED  BY <1>1, <1>2, <1>3 DEF GoesAs

LEMMA OtherWriters ==
    ASSUME NEW id, Moves(id), NEW p
    PROVE  /\ Writers(p)' \ {id} = Writers(p) \ {id}
           /\ \A j \in Writers(p) \ {id} : tasks'[j] = tasks[j]
<1>1. \A j \in DOMAIN tasks' \ DOMAIN tasks : tasks'[j].pc \notin Writing
  BY DEF Moves, Writing
<1>2. \A j \in Writers(p) \ {id} : j \in DOMAIN tasks' /\ tasks'[j] = tasks[j]
  BY DEF Moves, Writers
<1>3. \A j \in Writers(p)' \ {id} : j \in Writers(p)
  BY <1>1 DEF Moves, Writers
<1>4. \A j \in Writers(p) \ {id} : j \in Writers(p)'
  BY <1>2 DEF Writers
<1>5. QED  BY <1>2, <1>3, <1>4

\* A package that the moving task does not write.
LEMMA SettlingElsewhere ==
    ASSUME NEW id, Moves(id), NEW p \in Tracked, Settling(p),
           id \notin Writers(p), id \notin Writers(p)',
           scores'[p] = scores[p], stored'[p] = stored[p]
    PROVE  Settling(p)'
<1>1. Writers(p)' = Writers(p) /\ \A j \in Writers(p) : tasks'[j] = tasks[j]
  BY OtherWriters
<1>2. Agreed(p)' <=> Agreed(p)
  BY DEF Agreed, Reloaded
<1>3. QED  BY <1>1, <1>2 DEF Settling

\* A package that a task alone was writing has settled.
LEMMA Settles ==
    ASSUME NEW id, Moves(id), NEW p \in Tracked, Writers(p) \subseteq {id}, id \notin Writers(p)', Agreed(p)'
    PROVE  Settling(p)'
<1>1. Writers(p)' = {}
  BY OtherWriters
<1>2. QED  BY <1>1 DEF Settling

\* Whoever else has changed a score and not its row.
LEMMA UnpersistedWriters ==
    ASSUME NEW id, NEW p, p \notin Unpersisted(id)
    PROVE  Writers(p) \subseteq {id}
<1>1. ASSUME NEW j \in DOMAIN tasks, j # id, tasks[j].pc \in Writing, p \in tasks[j].now PROVE FALSE
  BY <1>1 DEF Unpersisted, Writing
<1>2. QED  BY <1>1 DEF Writers

Stays(id, q) ==
    /\ tasks' = [tasks EXCEPT ![id].todo = @ \ {q},
                              ![id].read[q] = IF tasks[id].hydrated THEN @ ELSE scores[q]]
    /\ UNCHANGED <<scores, contended, store, evidence, observed, locks, jobs, raced>>

Replaces(id, q) ==
    /\ scores[q] = Unscored \/ ShouldReplace(scores[q], tasks[id].read[q])
    /\ scores' = [scores EXCEPT ![q] = tasks[id].read[q]]
    /\ tasks' = [tasks EXCEPT ![id].pc = "invalidate", ![id].todo = @ \ {q}, ![id].now = {q}]
    /\ contended' = IF q \in Unpersisted(id) THEN contended \cup {q} ELSE contended
    /\ UNCHANGED <<store, evidence, observed, locks, jobs, raced>>

\* One package less to remember: the score in memory was stronger.
LEMMA StrongerStep ==
    ASSUME ResolverAssumption, ResolverInv, NEW id \in DOMAIN tasks, At(id, "remember"),
           NEW q, q \in tasks[id].todo, Stays(id, q)
    PROVE  ResolverInv'
<1>1. /\ tasks[id].pc = "remember" /\ ResolverTypes
      /\ UNCHANGED <<scores, contended, store, evidence, observed, locks, jobs, raced>>
  BY DEF At, ResolverInv, Stays
<1>2. tasks[id].pc \notin Writing \cup Locked
  BY <1>1, Steps
<1>3. TaskOK(tasks[id])
  BY <1>1 DEF ResolverTypes
<1>4. PICK score : score = IF tasks[id].hydrated THEN tasks[id].read[q] ELSE scores[q]
  OBVIOUS
<1>5. q \in Tracked /\ score \in Scores
  BY <1>1, <1>3, <1>4 DEF ResolverTypes, TaskOK, TaskType
<1>6. PICK todo, read : todo = tasks[id].todo \ {q} /\ read = [tasks[id].read EXCEPT ![q] = score]
  OBVIOUS
<1>7. Memories(todo, read)
  BY <1>1, <1>3, <1>5, <1>6 DEF TaskOK, TaskType, Memories
<1>8. tasks' = [tasks EXCEPT ![id] = Recalls(tasks[id], todo, read)]
  <2>1. tasks' = [tasks EXCEPT ![id] = [tasks[id] EXCEPT !.todo = todo, !.read = read]]
    <3>1. PICK t : t = [tasks[id] EXCEPT !.todo = todo]
      OBVIOUS
    <3>2. t.read = tasks[id].read
      BY <1>3, <3>1 DEF TaskOK, TaskType
    <3>3. tasks' = [tasks EXCEPT ![id] = [t EXCEPT !.read[q] = IF tasks[id].hydrated THEN @ ELSE scores[q]]]
      BY <1>6, <3>1 DEF Stays
    <3>4. tasks' = [tasks EXCEPT ![id] = [t EXCEPT !.read = read]]
      BY <1>4, <1>6, <3>2, <3>3
    <3>5. QED  BY <3>1, <3>4
  <2>2. Recalls(tasks[id], todo, read) = [tasks[id] EXCEPT !.todo = todo, !.read = read]
    BY <1>1, <1>3 DEF Recalls, TaskOK, TaskType
  <2>3. QED  BY <2>1, <2>2
<1>9. CalmlyGoes(id, "remember")
  BY <1>1, <1>2, <1>7, <1>8, TaskRemembering
<1>10. Forgetting(tasks[id]) => Forgetting(tasks'[id])
  BY <1>1, <1>9 DEF CalmlyGoes, Forgetting, Scoring
<1>11. QED  BY <1>1, <1>2, <1>9, <1>10, CalmStep DEF priorityHistory

\* The score changes, and its row has yet to follow.
LEMMA ReplacedStep ==
    ASSUME ResolverAssumption, ResolverInv, NEW id \in DOMAIN tasks, At(id, "remember"),
           NEW q, q \in tasks[id].todo, Replaces(id, q)
    PROVE  ResolverInv'
<1>1. /\ tasks[id].pc = "remember" /\ ResolverTypes /\ PackagesOK
      /\ scores[q] = Unscored \/ ShouldReplace(scores[q], tasks[id].read[q])
      /\ scores' = [scores EXCEPT ![q] = tasks[id].read[q]]
      /\ contended' = IF q \in Unpersisted(id) THEN contended \cup {q} ELSE contended
      /\ UNCHANGED <<store, evidence, observed, locks, jobs, raced>>
  BY DEF At, ResolverInv, Replaces
<1>2. tasks[id].pc \notin Writing \cup Locked
  BY <1>1, Steps
<1>3. TaskOK(tasks[id])
  BY <1>1 DEF ResolverTypes
<1>4. q \in Tracked /\ tasks[id].read[q] \in Candidates
  BY <1>1, <1>3 DEF TaskOK, TaskType
<1>5. PICK t : t = [tasks[id] EXCEPT !.pc = "invalidate", !.todo = @ \ {q}, !.now = {q}]
  OBVIOUS
<1>6. /\ t.pc = "invalidate" /\ t.kind = tasks[id].kind /\ t.package = tasks[id].package
      /\ t.todo = tasks[id].todo \ {q} /\ t.read = tasks[id].read /\ t.now = {q}
  BY <1>3, <1>5 DEF TaskOK, TaskType
<1>7. TaskBecomes(tasks[id], t, "invalidate")
  <2>1. t \in TaskType
    BY <1>3, <1>4, <1>5 DEF TaskOK, TaskType, Scoring, Writing
  <2>2. t.pc \in Writing
    BY <1>6 DEF Writing
  <2>3. QED  BY <1>1, <1>3, <1>4, <1>6, <2>1, <2>2 DEF TaskOK, TaskBecomes
<1>8. GoesAs(id, t)
  <2>1. tasks' = [tasks EXCEPT ![id] = t]
    BY <1>5 DEF Replaces
  <2>2. QED  BY <1>1, <1>7, <2>1, TaskReplaced
<1>9. Moves(id) /\ ObservesNothing(id) /\ DOMAIN tasks' = DOMAIN tasks /\ tasks'[id] = t
  BY <1>8 DEF GoesAs
<1>10. StillForgets(id)
  BY <1>1, <1>6, <1>9 DEF StillForgets, Forgetting, Scoring, Writing
<1>11. LockHeld'
  BY <1>1, <1>2, <1>9, LockKept DEF ResolverTypes, locks
<1>12. StatesTyped'
  BY <1>1, <1>4, ScoreMembers DEF ResolverTypes, StatesTyped, store
<1>13. FileWins(q) /\ (OfflineScore(q) # Unscored => scores[q] = OfflineScore(q))
  BY <1>1, <1>4 DEF PackagesOK, FileWins
<1>14. OfflineScore(q) = Unscored
  BY <1>1, <1>4, <1>13, StrongScoresStay
<1>15. scores'[q] = tasks[id].read[q]
  BY <1>1, <1>4 DEF ResolverTypes
<1>16. ASSUME NEW p \in Tracked PROVE FileWins(p)'
  <2>1. CASE p = q
    BY <1>4, <1>14, <1>15, <2>1 DEF FileWins
  <2>2. CASE p # q
    BY <1>1, <2>2 DEF PackagesOK, FileWins, ResolverTypes
  <2>3. QED  BY <2>1, <2>2
<1>17. ASSUME NEW p \in Tracked, p \notin contended' PROVE Settling(p)'
  <2>1. p \notin contended /\ (p = q => p \notin Unpersisted(id))
    BY <1>1, <1>17
  <2>2. Settling(p) /\ id \notin Writers(p)
    BY <1>1, <1>2, <2>1 DEF PackagesOK, Writers
  <2>3. CASE p # q
    <3>1. id \notin Writers(p)'
      BY <1>6, <1>9, <2>3 DEF Writers
    <3>2. scores'[p] = scores[p] /\ stored'[p] = stored[p]
      BY <1>1, <2>3 DEF ResolverTypes, store
    <3>3. QED  BY <1>9, <2>2, <3>1, <3>2, SettlingElsewhere
  <2>4. CASE p = q
    <3>1. Writers(p) = {}
      BY <2>1, <2>2, <2>4, UnpersistedWriters
    <3>2. Writers(p)' = {id}
      <4>1. id \in Writers(p)'
        BY <1>6, <1>9, <2>4 DEF Writers, Writing
      <4>2. QED  BY <1>9, <3>1, <4>1, OtherWriters
    <3>3. Agreed(p)
      BY <2>2, <3>1 DEF Settling
    <3>4. PersistsToScoreFile(scores'[q]) \/ stored[q] = Unscored
      <4>1. CASE tasks[id].read[q] \in GraphScores
        BY <1>4, <1>15, <4>1, CandidateFields
      <4>2. CASE tasks[id].read[q] \notin GraphScores
        <5>1. scores[q] \in {Unscored} \cup Candidates
          BY <1>13, <1>14 DEF FileWins
        <5>2. scores[q] \notin GraphScores
          BY <1>1, <1>4, <4>2, GraphScoreFields, StrongScoresStay
        <5>3. scores[q] # Unscored => ~PersistsToScoreFile(scores[q])
          BY <5>1, <5>2, CandidateFields
        <5>4. QED  BY <2>4, <3>3, <5>3 DEF Agreed
      <4>3. QED  BY <4>1, <4>2
    <3>5. stored' = stored /\ tasks'[id].read[q] = scores'[q]
      BY <1>1, <1>6, <1>9, <1>15 DEF store
    <3>6. QED  BY <2>4, <3>2, <3>4, <3>5 DEF Settling
  <2>5. QED  BY <2>3, <2>4
<1>18. ASSUME NEW p \in Tracked PROVE UpToDate(p)'
  BY <1>1, <1>9, <1>10, UpToDateKept DEF PackagesOK, store
<1>19. PackagesOK'
  BY <1>16, <1>17, <1>18 DEF PackagesOK
<1>20. QED  BY <1>1, <1>9, <1>11, <1>12, <1>19, WritingStep DEF locks

LEMMA RememberStepKeeps ==
    ASSUME ResolverAssumption, ResolverInv, NEW id \in DOMAIN tasks, NEW q \in Tracked, Remember(id, q)
    PROVE  ResolverInv'
<1>1. At(id, "remember") /\ q \in tasks[id].todo
  BY DEF Remember
<1>2. Stays(id, q) \/ Replaces(id, q)
  BY DEF Remember, Stays, Replaces
<1>3. QED  BY <1>1, <1>2, StrongerStep, ReplacedStep

\* What a task has just remembered is no longer cached.
LEMMA InvalidateStep ==
    ASSUME ResolverAssumption, ResolverInv, NEW id \in DOMAIN tasks, Invalidate(id)
    PROVE  ResolverInv'
<1>1. /\ tasks[id].pc = "invalidate" /\ ResolverTypes /\ PackagesOK
      /\ UNCHANGED <<scores, store, observed, locks, jobs, contended>>
  BY DEF Invalidate, At, ResolverInv
<1>2. PICK q \in tasks[id].now :
          /\ evidence' = [evidence EXCEPT ![q] = NotCached]
          /\ raced' = raced \ {q}
          /\ tasks' = IF RequiresRuntimePersistence(tasks[id].read[q])
                      THEN [tasks EXCEPT ![id].pc = "persist"]
                      ELSE [tasks EXCEPT ![id].pc = "remember", ![id].now = {}]
  BY DEF Invalidate
<1>3. TaskOK(tasks[id]) /\ tasks[id].pc \in Writing /\ tasks[id].pc \notin Locked
  BY <1>1 DEF ResolverTypes, Writing, Locked
<1>4. tasks[id].now = {q} /\ q \in Tracked /\ tasks[id].read[q] \in Candidates
  BY <1>2, <1>3 DEF TaskOK
<1>5. PICK t : t = IF RequiresRuntimePersistence(tasks[id].read[q])
                   THEN [tasks[id] EXCEPT !.pc = "persist"]
                   ELSE [tasks[id] EXCEPT !.pc = "remember", !.now = {}]
  OBVIOUS
<1>6. /\ t.kind = tasks[id].kind /\ t.package = tasks[id].package
      /\ t.todo = tasks[id].todo /\ t.read = tasks[id].read
      /\ IF RequiresRuntimePersistence(tasks[id].read[q]) THEN t.pc = "persist" /\ t.now = {q}
                                                          ELSE t.pc = "remember" /\ t.now = {}
  BY <1>3, <1>4, <1>5 DEF TaskOK, TaskType
<1>7. TaskBecomes(tasks[id], t, t.pc) /\ t.pc # "lookup"
  <2>1. t \in TaskType
    BY <1>3, <1>5 DEF TaskOK, TaskType, Scoring, Writing
  <2>2. "persist" \in Writing /\ "remember" \notin Writing
    BY DEF Writing
  <2>3. QED  BY <1>3, <1>4, <1>6, <2>1, <2>2 DEF TaskOK, TaskBecomes
<1>8. GoesAs(id, t)
  <2>1. tasks' = [tasks EXCEPT ![id] = t]
    BY <1>2, <1>5
  <2>2. QED  BY <1>1, <1>7, <2>1, TaskReplaced
<1>9. Moves(id) /\ ObservesNothing(id) /\ DOMAIN tasks' = DOMAIN tasks /\ tasks'[id] = t
  BY <1>8 DEF GoesAs
<1>10. StillForgets(id)
  BY <1>1, <1>6, <1>9 DEF StillForgets, Forgetting, Scoring, Writing
<1>11. LockHeld'
  BY <1>1, <1>3, <1>9, LockKept DEF ResolverTypes, locks
<1>12. StatesTyped'
  BY <1>1, <1>2, <1>4 DEF ResolverTypes, StatesTyped, store
<1>13. ASSUME NEW p \in Tracked PROVE FileWins(p)'
  BY <1>1 DEF PackagesOK, FileWins
<1>14. ASSUME NEW p \in Tracked, p \notin contended' PROVE Settling(p)'
  <2>1. Settling(p) /\ scores'[p] = scores[p] /\ stored'[p] = stored[p]
    BY <1>1, <1>14 DEF PackagesOK, store
  <2>2. CASE p # q
    <3>1. id \notin Writers(p) /\ id \notin Writers(p)'
      BY <1>4, <1>6, <1>9, <2>2 DEF Writers
    <3>2. QED  BY <1>9, <2>1, <3>1, SettlingElsewhere
  <2>3. CASE p = q
    <3>1. Writers(p) = {id} /\ scores[p] = tasks[id].read[p]
          /\ (PersistsToScoreFile(scores[p]) \/ stored[p] = Unscored)
      BY <1>3, <1>4, <2>1, <2>3 DEF Settling, Writers
    <3>2. CASE t.pc = "persist"
      <4>1. Writers(p)' = {id}
        <5>1. id \in Writers(p)'
          BY <1>6, <1>9, <2>3, <3>2 DEF Writers, Writing
        <5>2. QED  BY <1>9, <3>1, <5>1, OtherWriters
      <4>2. scores'[p] = tasks'[id].read[p]
        BY <1>6, <1>9, <2>1, <3>1
      <4>3. QED  BY <2>1, <3>1, <4>1, <4>2 DEF Settling
    <3>3. CASE t.pc = "remember"
      <4>1. id \notin Writers(p)'
        BY <1>9, <3>3 DEF Writers, Writing
      <4>2. ~PersistsToScoreFile(scores[p])
        BY <1>4, <1>6, <2>3, <3>1, <3>3, CandidateFields
      <4>3. Agreed(p)'
        BY <2>1, <3>1, <4>2 DEF Agreed
      <4>4. QED  BY <1>9, <3>1, <4>1, <4>3, Settles
    <3>4. QED  BY <1>6, <3>2, <3>3
  <2>4. QED  BY <2>2, <2>3
<1>15. ASSUME NEW p \in Tracked PROVE UpToDate(p)'
  <2>1. CASE p = q
    BY <1>1, <1>2, <2>1 DEF UpToDate, ResolverTypes
  <2>2. CASE p # q
    <3>1. evidence'[p] = evidence[p] /\ graph'[p] = graph[p] /\ (p \in raced => p \in raced')
      BY <1>1, <1>2, <2>2 DEF ResolverTypes, store
    <3>2. QED  BY <1>1, <1>9, <1>10, <3>1, UpToDateKept DEF PackagesOK
  <2>3. QED  BY <2>1, <2>2
<1>16. PackagesOK'
  BY <1>13, <1>14, <1>15 DEF PackagesOK
<1>17. QED  BY <1>1, <1>9, <1>11, <1>12, <1>16, WritingStep DEF locks

\* The row follows the score, or is lost.
LEMMA PersistStep ==
    ASSUME ResolverAssumption, ResolverInv, NEW id \in DOMAIN tasks, Persist(id)
    PROVE  ResolverInv'
<1>1. /\ tasks[id].pc = "persist" /\ ResolverTypes /\ PackagesOK
      /\ UNCHANGED <<scores, graph, evidence, observed, locks, jobs, raced>>
      /\ tasks' = [tasks EXCEPT ![id].pc = "remember", ![id].now = {}]
  BY DEF Persist, At, ResolverInv
<1>2. PICK q \in tasks[id].now :
          \/ /\ stored' = [stored EXCEPT ![q] = IF PersistsToScoreFile(tasks[id].read[q])
                                                THEN tasks[id].read[q] ELSE @]
             /\ UNCHANGED contended
          \/ contended' = contended \cup {q} /\ UNCHANGED stored
  BY DEF Persist
<1>3. TaskOK(tasks[id]) /\ tasks[id].pc \in Writing /\ tasks[id].pc \notin Locked
  BY <1>1 DEF ResolverTypes, Writing, Locked
<1>4. tasks[id].now = {q} /\ q \in Tracked /\ tasks[id].read[q] \in Candidates
  BY <1>2, <1>3 DEF TaskOK
<1>5. PICK t : t = [tasks[id] EXCEPT !.pc = "remember", !.now = {}]
  OBVIOUS
<1>6. /\ t.pc = "remember" /\ t.kind = tasks[id].kind /\ t.package = tasks[id].package
      /\ t.todo = tasks[id].todo /\ t.read = tasks[id].read /\ t.now = {}
  BY <1>3, <1>5 DEF TaskOK, TaskType
<1>7. TaskBecomes(tasks[id], t, "remember")
  <2>1. t \in TaskType
    BY <1>3, <1>5 DEF TaskOK, TaskType, Scoring
  <2>2. "remember" \notin Writing
    BY DEF Writing
  <2>3. QED  BY <1>3, <1>4, <1>6, <2>1, <2>2 DEF TaskOK, TaskBecomes
<1>8. GoesAs(id, t)
  <2>1. tasks' = [tasks EXCEPT ![id] = t]
    BY <1>1, <1>5
  <2>2. QED  BY <1>1, <1>7, <2>1, TaskReplaced
<1>9. Moves(id) /\ ObservesNothing(id) /\ DOMAIN tasks' = DOMAIN tasks /\ tasks'[id] = t
  BY <1>8 DEF GoesAs
<1>10. StillForgets(id)
  BY <1>1, <1>6, <1>9 DEF StillForgets, Forgetting, Scoring, Writing
<1>11. LockHeld'
  BY <1>1, <1>3, <1>9, LockKept DEF ResolverTypes, locks
<1>12. PersistsToScoreFile(tasks[id].read[q]) => tasks[id].read[q] \in GraphScores
  BY <1>4, CandidateFields
<1>13. StatesTyped'
  <2>1. stored' \in [Tracked -> {Unscored} \cup GraphScores]
    BY <1>1, <1>2, <1>4, <1>12 DEF ResolverTypes
  <2>2. QED  BY <1>1, <1>2, <1>4, <2>1 DEF ResolverTypes, StatesTyped
<1>14. ASSUME NEW p \in Tracked PROVE FileWins(p)'
  BY <1>1 DEF PackagesOK, FileWins
<1>15. ASSUME NEW p \in Tracked, p \notin contended' PROVE Settling(p)'
  <2>1. Settling(p) /\ scores'[p] = scores[p] /\ id \notin Writers(p)'
    BY <1>1, <1>2, <1>6, <1>9, <1>15 DEF PackagesOK, Writers
  <2>2. CASE p # q
    <3>1. id \notin Writers(p)
      BY <1>4, <2>2 DEF Writers
    <3>2. stored'[p] = stored[p]
      BY <1>1, <1>2, <2>2 DEF ResolverTypes
    <3>3. QED  BY <1>9, <2>1, <3>1, <3>2, SettlingElsewhere
  <2>3. CASE p = q
    <3>1. /\ Writers(p) = {id} /\ scores[p] = tasks[id].read[p]
          /\ PersistsToScoreFile(scores[p]) \/ stored[p] = Unscored
      BY <1>3, <1>4, <2>1, <2>3 DEF Settling, Writers
    <3>2. stored'[p] = IF PersistsToScoreFile(scores[p]) THEN scores[p] ELSE stored[p]
      BY <1>1, <1>2, <1>15, <2>3, <3>1 DEF ResolverTypes
    <3>3. CASE PersistsToScoreFile(scores[p])
      <4>1. scores[p] \in GraphScores /\ stored'[p] = scores'[p]
        BY <1>12, <2>1, <2>3, <3>1, <3>2, <3>3
      <4>2. OfflineScore(p) = Unscored
        <5>1. FileWins(p)
          BY <1>1 DEF PackagesOK
        <5>2. OfflineScore(p) # Unscored => scores[p] = OfflineScore(p)
          BY <5>1 DEF FileWins
        <5>3. scores[p].source = "local_graph"
          BY <4>1, GraphScoreFields
        <5>4. QED  BY <5>2, <5>3, OfflineFields
      <4>3. Reloaded(p, stored'[p]) = scores'[p]
        BY <4>1, <4>2, <2>1, ReloadedScore
      <4>4. scores'[p] # Unscored
        BY <4>1, <2>1, GraphScoreFields
      <4>5. Agreed(p)'
        <5>1. Agreed(p)' <=> IF scores'[p] # Unscored /\ PersistsToScoreFile(scores'[p])
                             THEN scores'[p] = Reloaded(p, stored'[p])
                             ELSE stored'[p] = Unscored
          BY DEF Agreed, Reloaded
        <5>2. QED  BY <2>1, <3>3, <4>3, <4>4, <5>1
      <4>6. QED  BY <1>9, <2>1, <3>1, <4>5, Settles
    <3>4. CASE ~PersistsToScoreFile(scores[p])
      <4>1. Agreed(p)'
        BY <2>1, <3>1, <3>2, <3>4 DEF Agreed
      <4>2. QED  BY <1>9, <2>1, <3>1, <4>1, Settles
    <3>5. QED  BY <3>3, <3>4
  <2>4. QED  BY <2>2, <2>3
<1>16. ASSUME NEW p \in Tracked PROVE UpToDate(p)'
  BY <1>1, <1>9, <1>10, UpToDateKept DEF PackagesOK
<1>17. PackagesOK'
  BY <1>14, <1>15, <1>16 DEF PackagesOK
<1>18. QED  BY <1>1, <1>9, <1>11, <1>13, <1>17, WritingStep DEF locks

\* What an expansion stores is what it loads, or else its packages are contended.
LEMMA PublishStep ==
    ASSUME ResolverAssumption, ResolverInv, NEW id \in DOMAIN tasks, Publish(id)
    PROVE  ResolverInv'
<1>1. /\ tasks[id].pc = "publish" /\ ResolverTypes /\ PackagesOK /\ Goto(id, "unlock")
      /\ stored' = [q \in Tracked |-> IF tasks[id].read[q] # Unscored THEN tasks[id].read[q]
                                      ELSE stored[q]]
      /\ UNCHANGED <<graph, evidence, observed, locks, jobs, raced>>
  BY DEF Publish, At, ResolverInv
<1>2. tasks[id].pc \notin Writing /\ ~Forgetting(tasks[id])
  BY <1>1, Steps DEF Forgetting, Locked, ExpandSteps
<1>3. \A q \in Tracked : tasks[id].read[q] \in IF q \in Touches[tasks[id].package] THEN GraphScores
                                                                                 ELSE {Unscored}
  BY <1>1 DEF ResolverTypes, TaskOK
<1>4. CalmlyGoes(id, "unlock")
  BY <1>1, <1>2, TaskWent
<1>5. /\ Moves(id) /\ ObservesNothing(id) /\ WritesNothing(id) /\ StillForgets(id)
      /\ id \in DOMAIN tasks' /\ tasks'[id].pc \in Locked
  BY <1>2, <1>4 DEF CalmlyGoes, Locked
<1>6. LockHeld'
  BY <1>1, <1>5, LockKept DEF ResolverTypes, locks
<1>7. ASSUME NEW q \in Tracked PROVE stored'[q] \in {Unscored} \cup GraphScores
  BY <1>1, <1>3, <1>7 DEF ResolverTypes
<1>8. stored' \in [Tracked -> {Unscored} \cup GraphScores]
  <2>1. stored' = [q \in Tracked |-> stored'[q]]
    BY <1>1
  <2>2. QED  BY <1>7, <2>1
<1>9. ASSUME NEW p \in Tracked PROVE UpToDate(p)'
  BY <1>1, <1>5, UpToDateKept DEF PackagesOK
<1>10. ASSUME NEW p \in Tracked
       PROVE  /\ id \notin Writers(p) /\ Writers(p)' = Writers(p)
              /\ \A j \in Writers(p) : tasks'[j] = tasks[j]
  BY <1>1, <1>2, <1>5, WritersKept DEF Writers
<1>11. CASE /\ scores' = [q \in Tracked |-> Reloaded(q, stored'[q])]
            /\ contended' = contended \cup Unpersisted(id)
  <2>1. ASSUME NEW p \in Tracked
        PROVE  /\ scores'[p] = Reloaded(p, stored'[p])
               /\ (scores'[p] # Unscored /\ PersistsToScoreFile(scores'[p])) \/ stored'[p] = Unscored
               /\ scores'[p] \in Scores
               /\ scores'[p] \in IF OfflineScore(p) = Unscored THEN {Unscored} \cup Candidates
                                                              ELSE {OfflineScore(p)}
    <3>1. PICK row \in {Unscored} \cup GraphScores : row = stored'[p]
      BY <1>7
    <3>2. scores'[p] = Reloaded(p, row)
      BY <1>11, <3>1
    <3>3. QED  BY <3>1, <3>2, ReloadedAgrees
  <2>2. scores' \in [Tracked -> Scores]
    <3>1. scores' = [q \in Tracked |-> scores'[q]]
      BY <1>11
    <3>2. QED  BY <2>1, <3>1
  <2>3. contended' \subseteq Tracked
    <3>1. \A j \in DOMAIN tasks : tasks[j].now \subseteq Tracked
      BY <1>1 DEF ResolverTypes, TaskOK, TaskType
    <3>2. QED  BY <1>1, <1>11, <3>1 DEF ResolverTypes, Unpersisted
  <2>4. StatesTyped'
    BY <1>1, <1>8, <2>2, <2>3 DEF ResolverTypes, StatesTyped
  <2>5. ASSUME NEW p \in Tracked PROVE FileWins(p)'
    <3>1. FileWins(p)' <=> scores'[p] \in IF OfflineScore(p) = Unscored THEN {Unscored} \cup Candidates
                                                                      ELSE {OfflineScore(p)}
      BY DEF FileWins
    <3>2. QED  BY <2>1, <3>1
  <2>6. ASSUME NEW p \in Tracked, p \notin contended' PROVE Settling(p)'
    <3>1. Writers(p) \subseteq {id}
      BY <1>11, <2>6, UnpersistedWriters
    <3>2. id \notin Writers(p)'
      BY <1>10
    <3>3. Agreed(p)'
      <4>1. Agreed(p)' <=> IF scores'[p] # Unscored /\ PersistsToScoreFile(scores'[p])
                           THEN scores'[p] = Reloaded(p, stored'[p])
                           ELSE stored'[p] = Unscored
        BY DEF Agreed, Reloaded
      <4>2. QED  BY <2>1, <4>1
    <3>4. QED  BY <1>5, <3>1, <3>2, <3>3, Settles
  <2>7. PackagesOK'
    BY <1>9, <2>5, <2>6 DEF PackagesOK
  <2>8. QED  BY <1>1, <1>5, <1>6, <2>4, <2>7, WritingStep DEF locks
<1>12. CASE contended' = contended \cup Touches[tasks[id].package] /\ UNCHANGED scores
  <2>1. tasks[id].package \in Tracked /\ Touches[tasks[id].package] \subseteq Tracked
    BY <1>1 DEF ResolverTypes, TaskOK, TaskType, ResolverAssumption
  <2>2. StatesTyped'
    BY <1>1, <1>8, <1>12, <2>1 DEF ResolverTypes, StatesTyped
  <2>3. ASSUME NEW p \in Tracked PROVE FileWins(p)'
    BY <1>1, <1>12 DEF PackagesOK, FileWins
  <2>4. ASSUME NEW p \in Tracked, p \notin contended' PROVE Settling(p)'
    <3>1. p \notin contended /\ p \notin Touches[tasks[id].package]
      BY <1>12, <2>4
    <3>2. stored'[p] = stored[p]
      BY <1>1, <1>3, <3>1
    <3>3. Settling(p) /\ scores'[p] = scores[p]
      BY <1>1, <1>12, <3>1 DEF PackagesOK
    <3>4. QED  BY <1>1, <1>5, <3>2, <3>3, SettlingKept
  <2>5. PackagesOK'
    BY <1>9, <2>3, <2>4 DEF PackagesOK
  <2>6. QED  BY <1>1, <1>5, <1>6, <2>2, <2>5, WritingStep DEF locks
<1>13. QED  BY <1>11, <1>12 DEF Publish

-----------------------------------------------------------------------------

LEMMA ResolverStart == ASSUME ResolverAssumption PROVE PriorityInit => ResolverInv
<1> SUFFICES ASSUME PriorityInit PROVE ResolverInv
  OBVIOUS
<1>1. /\ DOMAIN tasks = {} /\ update_lock = 0 /\ in_flight = {} /\ contended = {} /\ raced = {} /\ jobs = 0
      /\ scores = [p \in Tracked |-> OfflineScore(p)] /\ stored = [p \in Tracked |-> Unscored]
      /\ graph = [p \in Tracked |-> 0] /\ evidence = [p \in Tracked |-> NotCached]
      /\ observed = [p \in Tracked |-> 0]
  BY DEF PriorityInit
<1>2. MaxSeen \in Nat /\ MaxJobs \in Nat
  BY DEF ResolverAssumption
<1>3. ResolverTypes
  <2>1. scores \in [Tracked -> Scores]
    BY <1>1, ScoreMembers
  <2>2. QED  BY <1>1, <1>2, <2>1 DEF ResolverTypes, LockHeld
<1>4. Counted
  BY <1>1 DEF Counted
<1>5. ASSUME NEW p \in Tracked PROVE FileWins(p) /\ Settling(p) /\ UpToDate(p)
  <2>1. FileWins(p) /\ UpToDate(p)
    BY <1>1 DEF FileWins, UpToDate
  <2>2. Writers(p) = {} /\ stored[p] = Unscored
    BY <1>1 DEF Writers
  <2>3. Reloaded(p, Unscored) = OfflineScore(p)
    BY DEF Reloaded
  <2>4. Agreed(p)
    BY <1>1, <2>2, <2>3 DEF Agreed
  <2>5. QED  BY <2>1, <2>2, <2>4 DEF Settling
<1>6. QED  BY <1>3, <1>4, <1>5 DEF ResolverInv, PackagesOK

LEMMA ResolverKept ==
    ASSUME ResolverAssumption, ExpansionInv, ResolverInv, [PriorityNext]_priorityVars
    PROVE  ResolverInv'
<1>1. ASSUME NEW kind \in DOMAIN FirstStep, NEW p \in Tracked, StartJob(kind, p)
      PROVE  ResolverInv'
  BY <1>1, StartStep
<1>2. ASSUME NEW id \in DOMAIN tasks, TaskStep(id)
      PROVE  ResolverInv'
  <2>1. CASE Lookup(id) \/ Resolve(id) \/ PersistMaterial(id) \/ RecordGraph(id)
    BY <2>1, LookupStep, ResolveStep, MaterialStep, RecordStep
  <2>2. CASE Forget(id) \/ ScoreNeighborhood(id) \/ FindEvidence(id) \/ ReadEvidence(id) \/ FillEvidence(id)
    BY <2>2, ForgetStep, ScoreStep, EvidenceLookupStep, FillStep
  <2>3. CASE RememberStep(id)
    BY <2>3, RememberStepKeeps, InvalidateStep, PersistStep, RememberedStep DEF RememberStep
  <2>4. CASE ExpansionStep(id)
    BY <2>4, LockSteps, CollectStep, PublishStep DEF ExpansionStep
  <2>5. QED  BY <1>2, <2>1, <2>2, <2>3, <2>4 DEF TaskStep
<1>3. CASE UNCHANGED priorityVars
  BY <1>3
     DEF priorityVars, store, locks, priorityHistory, ResolverInv, ResolverTypes, LockHeld, Counted,
         PackagesOK, FileWins, Settling, Agreed, Reloaded, Writers, UpToDate, ToBeForgotten
<1>4. QED  BY <1>1, <1>2, <1>3 DEF PriorityNext

LEMMA ResolverAlways == PrioritySpec => [](ExpansionInv /\ ResolverInv)
<1>1. ResolverAssumption
  BY ResolverAssumption
<1>2. PriorityInit => ExpansionInv /\ ResolverInv
  BY <1>1, ExpansionStart, ResolverStart
<1>3. ExpansionInv /\ ResolverInv /\ [PriorityNext]_priorityVars => (ExpansionInv /\ ResolverInv)'
  BY <1>1, PriorityStep, ResolverKept
<1>4. QED  BY <1>2, <1>3, PTL DEF PrioritySpec

\* The resolver's state has its types; a package is never counted more often
\* than there were jobs.
THEOREM ResolverTypeCorrect == PrioritySpec => []PriorityTypeOK
<1>1. ASSUME ResolverInv PROVE PriorityTypeOK
  <2>1. ResolverTypes /\ Counted
    BY <1>1 DEF ResolverInv
  <2>2. {Unscored} \cup GraphScores \subseteq Scores
    BY ScoreMembers, ResolverAssumption
  <2>3. stored \in [Tracked -> Scores]
    BY <2>1, <2>2 DEF ResolverTypes
  <2>4. observed \in [Tracked -> 0..MaxJobs]
    <3>1. \A p \in Tracked : observed[p] \in 0..MaxJobs
      BY <2>1, ResolverAssumption DEF ResolverTypes, Counted, ResolverAssumption
    <3>2. QED  BY <2>1, <3>1 DEF ResolverTypes
  <2>5. QED  BY <2>1, <2>3, <2>4 DEF ResolverTypes, LockHeld, PriorityTypeOK
<1>2. QED  BY <1>1, ResolverAlways, PTL

\* remember_snapshot and persist_snapshot: whenever no task is under way, the
\* score in memory of a package is the one that a restart would load of its row
\* and the score file, but for the packages whose writes overlapped or failed.
THEOREM ScoresAndRowsAgree == PrioritySpec => []ScoresAgree
<1>1. ASSUME ResolverInv PROVE ScoresAgree
  <2>1. ASSUME AtRest, NEW p \in Tracked \ contended PROVE Agreed(p)
    <3>1. Writers(p) = {}
      BY <2>1 DEF AtRest, Writers
    <3>2. Settling(p)
      BY <1>1, <2>1 DEF ResolverInv, PackagesOK
    <3>3. QED  BY <3>1, <3>2 DEF Settling
  <2>2. QED  BY <2>1 DEF ScoresAgree, Agreed
<1>2. QED  BY <1>1, ResolverAlways, PTL

\* emitted_graph_cache: whenever no task is under way, the cached evidence is
\* that of the graph, but for the packages whose cache missed a write: each task
\* that grows the graph, other than an expansion, has dropped what it touched.
THEOREM StaleEvidenceRaced == PrioritySpec => []StaleOnlyByRace
<1>1. ASSUME ResolverInv PROVE StaleOnlyByRace
  <2>1. ASSUME AtRest, NEW p \in Tracked PROVE evidence[p] \in {NotCached, graph[p]} \/ p \in raced
    BY <1>1, <2>1 DEF ResolverInv, PackagesOK, UpToDate, ToBeForgotten, AtRest
  <2>2. QED  BY <2>1 DEF StaleOnlyByRace
<1>2. QED  BY <1>1, ResolverAlways, PTL

\* What is known of a package is no weaker than itself.
LEMMA SameIsNoWeaker ==
    ASSUME ResolverAssumption, ResolverInv, NEW p \in Tracked
    PROVE  ~Weaker(scores[p], scores[p])
<1>1. FileWins(p)
  BY DEF ResolverInv, PackagesOK
<1>2. CASE scores[p] = Unscored
  BY <1>2 DEF Weaker
<1>3. CASE scores[p] # Unscored
  <2>1. scores[p] \in Candidates \/ scores[p] = OfflineScore(p)
    BY <1>1, <1>3 DEF FileWins
  <2>2. SourceRank[scores[p].source] \in Int /\ TierRank[scores[p].tier] \in Int
    BY <1>3, <2>1, CandidateFields, OfflineFields, Ranks
  <2>3. QED  BY <1>3, <2>2 DEF Weaker
<1>4. QED  BY <1>2, <1>3

LEMMA RememberedIsNoWeaker ==
    ASSUME ResolverAssumption, ResolverInv, NEW id \in DOMAIN tasks, NEW q \in Tracked, Remember(id, q),
           NEW p \in Tracked
    PROVE  ~Weaker(scores[p], scores'[p])
<1>1. At(id, "remember") /\ q \in tasks[id].todo /\ (Stays(id, q) \/ Replaces(id, q))
  BY DEF Remember, Stays, Replaces
<1>2. CASE Stays(id, q) \/ p # q
  <2>1. scores'[p] = scores[p]
    BY <1>1, <1>2 DEF Stays, Replaces, ResolverInv, ResolverTypes
  <2>2. QED  BY <2>1, SameIsNoWeaker
<1>3. CASE Replaces(id, q) /\ p = q
  <2>1. scores[q] = Unscored \/ ShouldReplace(scores[q], tasks[id].read[q])
    BY <1>3 DEF Replaces
  <2>2. scores'[q] = tasks[id].read[q]
    BY <1>3 DEF Replaces, ResolverInv, ResolverTypes
  <2>3. tasks[id].read[q] \in Candidates
    BY <1>1 DEF At, ResolverInv, ResolverTypes, TaskOK
  <2>4. scores[q] = Unscored \/ scores[q] \in Candidates \/ \E r \in Tracked : scores[q] = OfflineScore(r)
    BY DEF ResolverInv, PackagesOK, FileWins
  <2>5. QED  BY <1>3, <2>1, <2>2, <2>3, <2>4, ReplacingIsNoWeaker
<1>4. QED  BY <1>1, <1>2, <1>3

\* should_replace: whatever the tasks do and in whatever order, only an expansion
\* that publishes what it loaded lowers what is known of a package.
THEOREM OnlyPublishWeakens == PrioritySpec => ScoresDropOnlyOnPublish
<1>1. ASSUME ResolverInv, [PriorityNext]_priorityVars,
             NEW p \in Tracked, Weaker(scores[p], scores'[p])
      PROVE  \E id \in DOMAIN tasks : Publish(id)
  <2>1. ResolverAssumption
    BY ResolverAssumption
  <2>2. scores' # scores
    BY <1>1, <2>1, SameIsNoWeaker
  <2>3. PICK id \in DOMAIN tasks : TaskStep(id)
    BY SMTT(40), <1>1, <2>2 DEF PriorityNext, StartJob, priorityVars
  <2>4. (\E q \in Tracked : Remember(id, q)) \/ Publish(id)
    BY <2>2, <2>3
       DEF TaskStep, RememberStep, ExpansionStep, Lookup, Resolve, PersistMaterial, RecordGraph, Forget,
           ScoreNeighborhood, Invalidate, Persist, Remembered, FindEvidence, ReadEvidence, FillEvidence,
           TakeLock, Collect, Rescore, Unlock, Leave
  <2>5. QED  BY <1>1, <2>1, <2>4, RememberedIsNoWeaker
<1>2. ResolverInv /\ [PriorityNext]_priorityVars
        => [(\E p \in Tracked : Weaker(scores[p], scores'[p]))
              => \E id \in DOMAIN tasks : Publish(id)]_priorityVars
  BY <1>1
<1>3. QED  BY <1>2, ResolverAlways, PTL DEF PrioritySpec, ScoresDropOnlyOnPublish
=============================================================================
