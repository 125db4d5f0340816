---------------------------- MODULE RuntimeProofs -----------------------------
(***************************************************************************)
(* Proofs about Runtime: whatever the releases, the limits and the         *)
(* interleaving of the workers, a job that is pending is in somebody's     *)
(* hands, and the shutdown leaves none behind.                             *)
(***************************************************************************)
EXTENDS Runtime, TLAPS

\* What a queue holds, whatever its order.
Elements(q) == {q[i] : i \in DOMAIN q}

Distinct(q) == \A i, j \in DOMAIN q : q[i].id = q[j].id => i = j

Ids(q) == {e.id : e \in Elements(q)}

-----------------------------------------------------------------------------
(* Types.                                                                  *)

TriageTask == [request : TriageRequest, pc : {"check", "decide", "send", "skip"}]

FetchTask ==
    [request : CaptureRequest,
     pc : {"check", "index", "notify", "clear", "create", "fetch", "record", "fetched",
           "failed", "none"}]

PostTask ==
    [request : CaptureRequest, forced : BOOLEAN,
     pc : {"materialize", "scan", "decide", "drop", "discard", "promote", "rename", "record",
           "bundle", "notify", "failed", "none"}]

DiffTask ==
    [request : DiffRequest, scanned : BOOLEAN,
     pc : {"policy", "skip", "prepare", "build", "load", "rewrite", "rerecord", "write",
           "record", "bundle", "failed"}]

QueueTypes ==
    /\ hand \in Seq(Event) /\ Len(hand) <= 1
    /\ triage_queue \in Seq(TriageRequest)
    /\ capture_queue \in Seq(CaptureRequest)
    /\ diff_queue \in Seq(DiffRequest)

TaskTypes ==
    /\ \A id \in DOMAIN triages : id \in Nat /\ triages[id] \in TriageTask
    /\ \A id \in DOMAIN captures : id \in Nat /\ captures[id] \in FetchTask
    /\ \A id \in DOMAIN posts : id \in Nat /\ posts[id] \in PostTask
    /\ \A id \in DOMAIN diffs : id \in Nat /\ diffs[id] \in DiffTask

StoreTypes ==
    /\ index \in [Releases -> Row \cup {NoRow}]
    /\ final \in [Releases -> SUBSET Files]
    /\ staging \in [Releases -> SUBSET Files]

ControlTypes ==
    /\ audit_hand \subseteq audited /\ audited \subseteq Releases
    /\ \A r \in audit_hand : index[r] # NoRow
    /\ intake \in {"open", "closed"}
    /\ up \subseteq {"main", "triage", "capture", "diff", "audit"}
    /\ observations \in [Releases -> 0..MaxObservations]
    /\ next_id \in Nat
    /\ abandoned \subseteq Releases
    /\ sweeps \in 0..MaxSweeps

TypeInv == QueueTypes /\ TaskTypes /\ StoreTypes /\ ControlTypes

-----------------------------------------------------------------------------
(* The invariants.                                                         *)

\* A request keeps its id, and is in one place at a time.
CaptureSide == Ids(capture_queue) \cup DOMAIN captures \cup DOMAIN posts
TriageSide  == Ids(triage_queue) \cup DOMAIN triages
DiffSide    == Ids(diff_queue) \cup DOMAIN diffs

\* Requests that may still be handed to the diff worker.
BeforeDiff ==
    TriageSide \cup Ids(capture_queue)
    \cup {id \in DOMAIN captures : captures[id].pc # "none"}
    \cup {id \in DOMAIN posts : posts[id].pc # "none"}

UniqueIds ==
    /\ Distinct(triage_queue) /\ Distinct(capture_queue) /\ Distinct(diff_queue)
    /\ \A id \in TriageSide \cup CaptureSide \cup DiffSide : id \in Nat /\ id < next_id
    /\ Ids(triage_queue) \cap DOMAIN triages = {}
    /\ TriageSide \cap CaptureSide = {}
    /\ Ids(capture_queue) \cap (DOMAIN captures \cup DOMAIN posts) = {}
    /\ DOMAIN captures \cap DOMAIN posts = {}
    /\ Ids(diff_queue) \cap DOMAIN diffs = {}
    /\ BeforeDiff \cap DiffSide = {}

\* What has stopped has nothing left, and neither has what feeds it.
StopOrder ==
    /\ "audit" \notin up => audit_hand = {}
    /\ "triage" \notin up => /\ intake = "closed" /\ hand = <<>>
                             /\ triage_queue = <<>> /\ DOMAIN triages = {}
    /\ "main" \notin up => "triage" \notin up
    /\ "capture" \notin up => /\ up \cap {"main", "triage", "audit"} = {}
                              /\ capture_queue = <<>>
                              /\ DOMAIN captures = {} /\ DOMAIN posts = {}
    /\ "diff" \notin up => /\ "capture" \notin up
                           /\ diff_queue = <<>> /\ DOMAIN diffs = {}
    /\ AuditEnabled => {"audit", "capture", "diff"} \subseteq up
    /\ "audit" \in up => AuditEnabled

\* Somebody has the release in hand and will settle its capture.
InHand(r) == hand # <<>> /\ Head(hand).release = r

Queued(q, r) == \E e \in Elements(q) : e.event.release = r

HeldForCapture(r) ==
    \/ InHand(r)
    \/ Queued(triage_queue, r)
    \/ \E id \in DOMAIN triages : triages[id].request.event.release = r
    \/ Queued(capture_queue, r)
    \/ \E id \in DOMAIN captures :
           /\ captures[id].request.event.release = r
           /\ captures[id].pc \notin {"notify", "none"}
    \/ \E id \in DOMAIN posts :
           /\ posts[id].request.event.release = r
           /\ posts[id].pc \notin {"discard", "bundle", "notify", "none"}

PendingIsHeld ==
    \A r \in Releases :
        index[r].capture = "pending" => r \in abandoned \/ HeldForCapture(r)

\* A capture request for an event of high tier is permanent and asks for a diff.
Urgent(request) ==
    request.event.tier = "high" => request.notify_diff /\ request.retention = "permanent"

HighIsUrgent ==
    /\ \A e \in Elements(triage_queue) : e.event.tier # "high"
    /\ \A id \in DOMAIN triages : triages[id].request.event.tier # "high"
    /\ \A e \in Elements(capture_queue) : Urgent(e)
    /\ \A id \in DOMAIN captures : Urgent(captures[id].request)
    /\ \A id \in DOMAIN posts :
           /\ Urgent(posts[id].request)
           /\ posts[id].pc \in {"drop", "discard", "promote", "rename"}
                  => posts[id].request.event.tier # "high"

\* The rows of what is on its way exist, and wait for a diff only if it is of
\* high tier, however often it was observed.
WaitingIsHigh(event) ==
    /\ index[event.release] # NoRow
    /\ ~AuditEnabled /\ index[event.release].diff = "pending" => event.tier = "high"

HighWaits ==
    /\ hand # <<>> => WaitingIsHigh(Head(hand))
    /\ \A e \in Elements(triage_queue) : WaitingIsHigh(e.event)
    /\ \A id \in DOMAIN triages : WaitingIsHigh(triages[id].request.event)
    /\ \A e \in Elements(capture_queue) : WaitingIsHigh(e.event)
    /\ \A id \in DOMAIN captures : WaitingIsHigh(captures[id].request.event)
    /\ \A id \in DOMAIN posts : WaitingIsHigh(posts[id].request.event)
    /\ \A e \in Elements(diff_queue) : WaitingIsHigh(e.event)
    /\ \A id \in DOMAIN diffs : WaitingIsHigh(diffs[id].request.event)

\* A diff on disk is in its row, or about to be.
DiffIsRecorded ==
    \A r \in Releases :
        /\ "diff" \notin staging[r]
        /\ "diff" \in final[r] =>
               \/ index[r].diff \in Settled
               \/ \E id \in DOMAIN diffs :
                      diffs[id].request.event.release = r /\ diffs[id].pc = "record"

HeldForDiff(r) ==
    \/ InHand(r)
    \/ Queued(capture_queue, r)
    \/ \E id \in DOMAIN captures :
           captures[id].request.event.release = r /\ captures[id].pc # "none"
    \/ \E id \in DOMAIN posts :
           posts[id].request.event.release = r /\ posts[id].pc # "none"
    \/ Queued(diff_queue, r)
    \/ \E id \in DOMAIN diffs :
           diffs[id].request.event.release = r /\ diffs[id].pc # "bundle"

PendingDiffIsHeld ==
    \A r \in Releases :
        index[r].diff = "pending" => index[r].capture = "failed" \/ HeldForDiff(r)

WithoutAudit ==
    ~AuditEnabled => /\ HighIsUrgent
                     /\ DiffIsRecorded
                     /\ PendingDiffIsHeld


IInv ==
    /\ TypeInv
    /\ UniqueIds
    /\ StopOrder
    /\ HighWaits
    /\ PendingIsHeld
    /\ WithoutAudit

-----------------------------------------------------------------------------
(* The steps of one task.                                                  *)

TriageTaskStep(id) ==
    CheckRow(id) \/ Decide(id) \/ HydrateFails(id) \/ PromoteTriaged(id) \/ DropTriaged(id)

FetchStep(id) ==
    \/ JoinCapture(id) \/ CheckFinal(id) \/ IndexExisting(id)
    \/ NotifyExisting(id) \/ ClearStaging(id) \/ CreateWorkspace(id)
    \/ Fetch(id) \/ FetchFails(id) \/ RecordFetched(id) \/ MarkFetchFailed(id)

PostStep(id) ==
    \/ JoinPost(id) \/ Materialize(id) \/ Scan(id) \/ DecideRetention(id) \/ DecideFails(id)
    \/ DropCapture(id) \/ DiscardWorkspace(id) \/ ClearFinal(id) \/ Promote(id)
    \/ RecordRetained(id) \/ WriteBundle(id) \/ NotifyDiff(id)
    \/ MarkPostFailed(id)

DiffTaskStep(id) ==
    \/ CheckPolicy(id) \/ SkipDiff(id) \/ PrepareDiff(id) \/ BuildDiff(id)
    \/ LoadCapture(id) \/ RewriteCapture(id) \/ RecordRewritten(id)
    \/ WriteDiff(id) \/ DiffFails(id) \/ RecordBuiltDiff(id)
    \/ RewriteBundle(id) \/ MarkBuildFailed(id)

-----------------------------------------------------------------------------
(* Queues and JoinSets.                                                    *)

LEMMA AppendHolds ==
    ASSUME NEW S, NEW q \in Seq(S), NEW e \in S
    PROVE  /\ Append(q, e) \in Seq(S)
           /\ Elements(Append(q, e)) = Elements(q) \cup {e}
           /\ (Distinct(q) /\ e.id \notin Ids(q)) => Distinct(Append(q, e))
<1>1. Append(q, e) \in Seq(S) /\ DOMAIN Append(q, e) = 1..(Len(q) + 1) /\ DOMAIN q = 1..Len(q)
  OBVIOUS
<1>2. \A i \in 1..Len(q) : Append(q, e)[i] = q[i]
  OBVIOUS
<1>3. Append(q, e)[Len(q) + 1] = e
  OBVIOUS
<1>4. Elements(Append(q, e)) = Elements(q) \cup {e}
  BY <1>1, <1>2, <1>3 DEF Elements
<1>5. ASSUME Distinct(q), e.id \notin Ids(q)  PROVE Distinct(Append(q, e))
  <2>1. \A i \in 1..Len(q) : q[i].id # e.id
    BY <1>5, <1>1 DEF Ids, Elements
  <2>2. SUFFICES ASSUME NEW i \in 1..(Len(q) + 1), NEW j \in 1..(Len(q) + 1),
                        Append(q, e)[i].id = Append(q, e)[j].id
                 PROVE  i = j
    BY <1>1 DEF Distinct
  <2>3. CASE i \in 1..Len(q) /\ j \in 1..Len(q)
    BY <2>2, <2>3, <1>1, <1>2, <1>5 DEF Distinct
  <2>4. CASE i = Len(q) + 1 \/ j = Len(q) + 1
    BY <2>1, <2>2, <2>4, <1>2, <1>3
  <2>5. QED  BY <2>3, <2>4
<1>6. QED  BY <1>1, <1>4, <1>5

LEMMA TailHolds ==
    ASSUME NEW S, NEW q \in Seq(S), q # <<>>
    PROVE  /\ Head(q) \in S /\ Tail(q) \in Seq(S)
           /\ Elements(q) = Elements(Tail(q)) \cup {Head(q)}
           /\ Distinct(q) => Distinct(Tail(q)) /\ Head(q).id \notin Ids(Tail(q))
<1>1. /\ Head(q) \in S /\ Tail(q) \in Seq(S) /\ Len(q) \in Nat /\ Len(q) > 0
      /\ DOMAIN q = 1..Len(q) /\ DOMAIN Tail(q) = 1..(Len(q) - 1)
  OBVIOUS
<1>2. \A i \in 1..(Len(q) - 1) : Tail(q)[i] = q[i + 1]
  OBVIOUS
<1>3. Head(q) = q[1]
  OBVIOUS
<1>4. Elements(Tail(q)) \cup {Head(q)} \subseteq Elements(q)
  BY <1>1, <1>2, <1>3 DEF Elements
<1>5. \A i \in 1..Len(q) : q[i] \in Elements(Tail(q)) \cup {Head(q)}
  <2>1. TAKE i \in 1..Len(q)
  <2>2. CASE i = 1
    BY <2>2, <1>3
  <2>3. CASE i # 1
    <3>1. i - 1 \in DOMAIN Tail(q) /\ Tail(q)[i - 1] = q[i]
      BY <2>3, <1>1, <1>2
    <3>2. QED  BY <3>1 DEF Elements
  <2>4. QED  BY <2>2, <2>3
<1>6. ASSUME Distinct(q)  PROVE Distinct(Tail(q)) /\ Head(q).id \notin Ids(Tail(q))
  <2>1. \A i, j \in 1..Len(q) : q[i].id = q[j].id => i = j
    BY <1>6, <1>1 DEF Distinct
  <2>2. Distinct(Tail(q))
    <3>1. SUFFICES ASSUME NEW i \in 1..(Len(q) - 1), NEW j \in 1..(Len(q) - 1),
                          Tail(q)[i].id = Tail(q)[j].id
                   PROVE  i = j
      BY <1>1 DEF Distinct
    <3>2. i + 1 = j + 1
      BY <3>1, <2>1, <1>1, <1>2
    <3>3. QED  BY <3>2
  <2>3. \A i \in 1..(Len(q) - 1) : Tail(q)[i].id # Head(q).id
    <3>1. TAKE i \in 1..(Len(q) - 1)
    <3>2. i + 1 \in 1..Len(q) /\ 1 \in 1..Len(q) /\ i + 1 # 1
      BY <1>1
    <3>3. QED  BY <3>2, <2>1, <1>2, <1>3
  <2>4. QED  BY <2>2, <2>3, <1>1 DEF Ids, Elements
<1>7. QED  BY <1>1, <1>4, <1>5, <1>6 DEF Elements

\* One task of a set goes on; its request stays.
LEMMA SpawnAdds ==
    ASSUME NEW set, NEW id, NEW task
    PROVE  /\ DOMAIN Spawn(set, id, task) = DOMAIN set \cup {id}
           /\ Spawn(set, id, task)[id] = task
           /\ \A i \in DOMAIN set \ {id} : Spawn(set, id, task)[i] = set[i]
BY DEF Spawn

LEMMA ReapRemoves ==
    ASSUME NEW set, NEW id
    PROVE  /\ DOMAIN Reap(set, id) = DOMAIN set \ {id}
           /\ \A i \in DOMAIN set \ {id} : Reap(set, id)[i] = set[i]
BY DEF Reap

-----------------------------------------------------------------------------
(* The writes to a row.                                                    *)

LEMMA UpsertRow ==
    ASSUME NEW row \in Row \cup {NoRow}, NEW tier \in Tiers
    PROVE  LET new == UpsertEventRow(row, "observed", tier)
           IN  /\ new \in Row
               /\ new.diff = "pending" =>
                      tier = "high" /\ (row.diff = "pending" \/ row = NoRow)
               /\ row.diff \in Settled => new.diff \in Settled
               /\ row.capture = "failed" => new.capture = "failed"
               /\ new.capture = "pending" => row.capture \in {"none", "pending"}
BY SMTT(60) DEF UpsertEventRow, Row, NoRow, Settled, JobStates, Origins, Reasons, Tiers,
   DefaultCaptureState, DefaultDiffState, CaptureSkipReason, DiffSkipReason, CaptureRequested,
   DiffRequested

LEMMA NoRowIsNone == NoRow \notin Row /\ NoRow.capture = "none" /\ NoRow.diff = "none"
BY DEF NoRow, Row, JobStates, Origins

LEMMA RecordRow ==
    ASSUME NEW row \in Row \cup {NoRow}, NEW tier \in Tiers
    PROVE  /\ LET new == RecordCapture(row, "observed", tier)
              IN  /\ new \in Row /\ new.capture = "ready"
                  /\ new.diff = "pending" =>
                         tier = "high" /\ (row.diff = "pending" \/ row = NoRow)
                  /\ row.diff \in Settled => new.diff \in Settled
           /\ LET new == RecordDiff(row, "observed", tier)
              IN  /\ new \in Row /\ new.diff = "ready"
                  /\ new.capture = "pending" => row.capture = "pending" \/ row = NoRow
<1> DEFINE up0 == UpsertEventRow(row, "observed", tier)
<1>1. up0 \in Row /\ up0 # NoRow
  BY UpsertRow, NoRowIsNone
<1> HIDE DEF up0
<1>2. /\ SetCapture(up0, "ready", "none") = [up0 EXCEPT !.capture = "ready", !.capture_reason = "none"]
      /\ SetDiff(up0, "ready", "none") = [up0 EXCEPT !.diff = "ready", !.diff_reason = "none"]
  BY <1>1 DEF SetCapture, SetDiff
<1>3. /\ SetCapture(up0, "ready", "none") \in Row
      /\ SetCapture(up0, "ready", "none").capture = "ready"
      /\ SetCapture(up0, "ready", "none").diff = up0.diff
      /\ SetDiff(up0, "ready", "none") \in Row
      /\ SetDiff(up0, "ready", "none").diff = "ready"
      /\ SetDiff(up0, "ready", "none").capture = up0.capture
  BY <1>1, <1>2 DEF Row, JobStates, Reasons
<1>4. up0.capture = "pending" => row.capture = "pending" \/ row = NoRow
  BY UpsertRow DEF up0, Row, JobStates
<1>5. QED  BY <1>3, <1>4, UpsertRow DEF RecordCapture, RecordDiff, up0

LEMMA MarkRow ==
    ASSUME NEW row \in Row \cup {NoRow}
    PROVE  /\ \A reason \in {"triage", "post_analysis"} :
                  LET new == MarkCaptureSkipped(row, reason)
                  IN  /\ new \in Row \cup {NoRow} /\ (row # NoRow => new # NoRow)
                      /\ new.capture # "pending" /\ new.diff = row.diff
           /\ LET new == MarkCaptureFailed(row)
              IN  /\ new \in Row \cup {NoRow} /\ (row # NoRow => new # NoRow)
                  /\ new.capture # "pending" /\ new.diff = row.diff
                  /\ (row # NoRow => new.capture = "failed")
           /\ \A new \in {MarkDiffSkipped(row), MarkDiffFailed(row)} :
                  /\ new \in Row \cup {NoRow} /\ (row # NoRow => new # NoRow)
                  /\ new.diff # "pending" /\ new.capture = row.capture
                  /\ (row # NoRow => new.diff \in Settled)
<1>1. CASE row = NoRow
  BY <1>1, NoRowIsNone DEF MarkCaptureSkipped, MarkCaptureFailed, MarkDiffSkipped, MarkDiffFailed,
     SetCapture, SetDiff
<1>2. CASE row \in Row
  <2>1. row # NoRow
    BY <1>2, NoRowIsNone
  <2>2. \A reason \in {"triage", "post_analysis"} :
            LET new == MarkCaptureSkipped(row, reason)
            IN  new \in Row /\ new.capture = "skipped" /\ new.diff = row.diff
    BY <1>2, <2>1 DEF MarkCaptureSkipped, SetCapture, Row, JobStates, Reasons
  <2>3. LET new == MarkCaptureFailed(row)
        IN  new \in Row /\ new.capture = "failed" /\ new.diff = row.diff
    BY <1>2, <2>1 DEF MarkCaptureFailed, SetCapture, Row, JobStates, Reasons
  <2>4. LET new == MarkDiffSkipped(row)
        IN  new \in Row /\ new.diff = "skipped" /\ new.capture = row.capture
    BY <1>2, <2>1 DEF MarkDiffSkipped, SetDiff, Row, JobStates, Reasons
  <2>5. LET new == MarkDiffFailed(row)
        IN  new \in Row /\ new.diff = "failed" /\ new.capture = row.capture
    BY <1>2, <2>1 DEF MarkDiffFailed, SetDiff, Row, JobStates, Reasons
  <2>6. QED  BY <2>2, <2>3, <2>4, <2>5, NoRowIsNone DEF Settled, JobStates
<1>3. QED  BY <1>1, <1>2

-----------------------------------------------------------------------------
(* What the step of a task does to the rest.                               *)

\* A row that exists stays, a settled job stays settled, and nobody but the
\* main loop opens a job.
RowAdvances(row, new) ==
    /\ new \in Row
    /\ new.diff = "pending" => row.diff = "pending"
    /\ row.diff \in Settled => new.diff \in Settled
    /\ new.capture = "pending" => row.capture = "pending"

RowsAdvance(r) ==
    /\ index' \in [Releases -> Row \cup {NoRow}]
    /\ \A x \in Releases : x # r => index'[x] = index[x]
    /\ RowAdvances(index[r], index'[r])

\* Directories, and no diff out of nowhere.
FilesMove ==
    /\ final' \in [Releases -> SUBSET Files] /\ staging' \in [Releases -> SUBSET Files]
    /\ \A x \in Releases :
           /\ "diff" \in staging'[x] => "diff" \in staging[x]
           /\ "diff" \in final'[x] => "diff" \in final[x] \cup staging[x]

GoesOn(set, new, id) ==
    /\ DOMAIN new = DOMAIN set
    /\ new[id].request = set[id].request
    /\ \A i \in DOMAIN set \ {id} : new[i] = set[i]

\* The diff worker is told, or nothing is.
Tells(id, event) ==
    \E e \in DiffRequest : e.id = id /\ e.event = event /\ diff_queue' = Append(diff_queue, e)

FetchEffect(id) ==
    LET request == captures[id].request
        r == request.event.release
    IN  /\ GoesOn(captures, captures', id) /\ captures'[id] \in FetchTask
        /\ captures[id].pc # "none"
        /\ RowsAdvance(r) /\ FilesMove
        /\ UNCHANGED <<hand, triage_queue, triages, capture_queue, posts, diffs, auditing,
                       control, counters>>
        /\ \/ diff_queue' = diff_queue
           \/ Tells(id, request.event) /\ captures'[id].pc = "none"
        /\ (captures[id].pc \notin {"notify", "none"} /\ captures'[id].pc \in {"notify", "none"}
                => index'[r].capture # "pending")
        /\ captures'[id].pc = "none" =>
               \/ Tells(id, request.event)
               \/ index'[r].capture = "failed"
               \/ ~request.notify_diff

\* Steps of an analysis after which the row is not the task's concern.
Settling == {"discard", "bundle", "notify", "none"}

Discarding == {"drop", "discard", "promote", "rename"}

PostEffect(id) ==
    LET request == posts[id].request
        r == request.event.release
    IN  /\ GoesOn(posts, posts', id) /\ posts'[id] \in PostTask
        /\ posts[id].pc # "none"
        /\ RowsAdvance(r) /\ FilesMove
        /\ UNCHANGED <<hand, triage_queue, triages, capture_queue, captures, diffs, auditing,
                       control, counters>>
        /\ \/ diff_queue' = diff_queue
           \/ Tells(id, request.event) /\ posts'[id].pc = "none"
        /\ posts[id].pc \notin Settling /\ posts'[id].pc \in Settling
               => index'[r].capture # "pending"
        /\ posts'[id].pc = "none" =>
               \/ Tells(id, request.event)
               \/ index'[r].capture = "failed"
               \/ ~request.notify_diff \/ posts[id].pc = "discard"
        /\ posts'[id].pc \in Discarding =>
               posts[id].pc \in Discarding \/ request.retention = "ephemeral"

DiffEffect(id) ==
    LET r == diffs[id].request.event.release
        going == id \in DOMAIN diffs'
    IN  /\ DOMAIN diffs' \cup {id} = DOMAIN diffs
        /\ \A i \in DOMAIN diffs \ {id} : diffs'[i] = diffs[i]
        /\ going => diffs'[id] \in DiffTask /\ diffs'[id].request = diffs[id].request
        /\ RowsAdvance(r) /\ final' \in [Releases -> SUBSET Files]
        /\ UNCHANGED <<staging, hand, triage_queue, triages, capture_queue, captures, posts,
                       auditing, control, counters, diff_queue>>
        /\ \A x \in Releases :
               "diff" \in final'[x] =>
                   "diff" \in final[x] \/ (x = r /\ going /\ diffs'[id].pc = "record")
        /\ diffs[id].pc = "record" => index'[r].diff \in Settled
        /\ diffs[id].pc # "bundle" /\ (going => diffs'[id].pc = "bundle") =>
               index'[r].diff # "pending" \/ ("diff" \in final[r] /\ diffs[id].pc = "prepare")
        /\ index[r].capture = "failed" =>
               \/ index'[r].capture = "failed"
               \/ index'[r].diff # "pending"
               \/ going /\ diffs'[id].pc # "bundle"

LEMMA RowStays == ASSUME NEW row \in Row PROVE RowAdvances(row, row)
BY DEF RowAdvances

LEMMA ReadyAdvances ==
    ASSUME NEW row \in Row, NEW tier \in Tiers
    PROVE  /\ RowAdvances(row, RecordCapture(row, "observed", tier))
           /\ RowAdvances(row, RecordDiff(row, "observed", tier))
BY RecordRow, NoRowIsNone, MarkRow DEF RowAdvances, Settled, JobStates

LEMMA MarkAdvances ==
    ASSUME NEW row \in Row
    PROVE  /\ \A reason \in {"triage", "post_analysis"} :
                  LET new == MarkCaptureSkipped(row, reason)
                  IN  RowAdvances(row, new) /\ new.capture # "pending"
           /\ LET new == MarkCaptureFailed(row)
              IN  RowAdvances(row, new) /\ new.capture = "failed"
           /\ LET new == MarkDiffSkipped(row)
              IN  RowAdvances(row, new) /\ new.diff # "pending"
           /\ LET new == MarkDiffFailed(row)
              IN  RowAdvances(row, new) /\ new.diff # "pending"
BY MarkRow, NoRowIsNone DEF RowAdvances

LEMMA RowWritten ==
    ASSUME StoreTypes, NEW r \in Releases, NEW new, RowAdvances(index[r], new), Write(r, new)
    PROVE  RowsAdvance(r) /\ index'[r] = new
BY DEF StoreTypes, Write, RowsAdvance, RowAdvances

LEMMA RowsStay ==
    ASSUME StoreTypes, NEW r \in Releases, index[r] # NoRow, UNCHANGED index
    PROVE  RowsAdvance(r) /\ index'[r] = index[r]
BY DEF StoreTypes, RowsAdvance, RowAdvances

LEMMA FilesStay == ASSUME StoreTypes, UNCHANGED <<final, staging>> PROVE FilesMove
BY DEF StoreTypes, FilesMove

LEMMA FetchStepEffect ==
    ASSUME TypeInv, HighWaits, NEW id \in DOMAIN captures, FetchStep(id), ~JoinCapture(id)
    PROVE  FetchEffect(id)
<1> DEFINE request == captures[id].request
           r == request.event.release
<1>1. /\ captures[id] \in FetchTask /\ id \in Nat
      /\ CaptureRequestOf(id) = request /\ CaptureEvent(id) = request.event
      /\ CaptureRelease(id) = r /\ r \in Releases
      /\ request.event \in Event /\ request.event.tier \in Tiers /\ index[r] \in Row
      /\ index[r] # NoRow
  BY DEF TypeInv, TaskTypes, StoreTypes, FetchTask, CaptureRequestOf, CaptureRelease, CaptureEvent,
     CaptureRequest, Event, HighWaits, WaitingIsHigh
<1>2. StoreTypes
  BY DEF TypeInv
<1>3. \A pc \in {"check", "index", "notify", "clear", "create", "fetch", "record", "fetched",
                 "failed", "none"} :
          GoFetch(id, pc) =>
              GoesOn(captures, captures', id) /\ captures'[id] \in FetchTask /\ captures'[id].pc = pc
  BY <1>1 DEF GoFetch, GoesOn, FetchTask
<1>4. CASE CheckFinal(id)
  BY <1>1, <1>2, <1>3, <1>4, RowsStay, FilesStay
  DEF FetchEffect, CheckFinal, At, OnlyCapture, NoChannel, evidence
<1>5. CASE IndexExisting(id)
  BY <1>1, <1>2, <1>3, <1>5, RowsStay, RowWritten, ReadyAdvances, RecordRow, FilesStay
  DEF FetchEffect, IndexExisting, At, WriteReady, OnlyCapture, NoChannel
<1>6. CASE NotifyExisting(id)
  <2>1. Tells(id, request.event)
    BY <1>1, <1>6 DEF NotifyExisting, Tells, DiffRequest
  <2>2. QED
    BY <1>1, <1>2, <1>3, <1>6, <2>1, RowsStay, FilesStay
    DEF FetchEffect, NotifyExisting, At, OnlyCapture, evidence
<1>7. CASE ClearStaging(id)
  <2>1. FilesMove
    BY <1>1, <1>2, <1>7 DEF ClearStaging, FilesMove, StoreTypes, Files
  <2>2. QED
    BY <1>1, <1>2, <1>3, <1>7, <2>1, RowsStay
    DEF FetchEffect, ClearStaging, At, OnlyCapture, NoChannel
<1>8. CASE CreateWorkspace(id)
  <2>1. FilesMove
    BY <1>1, <1>2, <1>8 DEF CreateWorkspace, SetWorkspace, Workspace, FilesMove, StoreTypes, Files
  <2>2. QED
    BY <1>1, <1>2, <1>3, <1>8, <2>1, RowsStay
    DEF FetchEffect, CreateWorkspace, At, OnlyCapture, NoChannel
<1>9. CASE Fetch(id)
  <2>1. FilesMove
    BY <1>1, <1>2, <1>9 DEF Fetch, SetWorkspace, Workspace, FilesMove, StoreTypes, Files
  <2>2. QED
    BY <1>1, <1>2, <1>3, <1>9, <2>1, RowsStay
    DEF FetchEffect, Fetch, At, OnlyCapture, NoChannel
<1>10. CASE FetchFails(id)
  BY <1>1, <1>2, <1>3, <1>10, RowsStay, FilesStay
  DEF FetchEffect, FetchFails, At, OnlyCapture, NoChannel, evidence
<1>11. CASE RecordFetched(id)
  BY <1>1, <1>2, <1>3, <1>11, RowWritten, ReadyAdvances, FilesStay
  DEF FetchEffect, RecordFetched, At, WriteReady, OnlyCapture, NoChannel
<1>12. CASE MarkFetchFailed(id)
  <2>1. RowsAdvance(r) /\ index'[r].capture = "failed"
    BY <1>1, <1>2, <1>12, RowWritten, MarkAdvances DEF MarkFetchFailed, WriteFailed
  <2>2. QED
    BY <1>1, <1>2, <1>3, <1>12, <2>1, FilesStay
    DEF FetchEffect, MarkFetchFailed, At, OnlyCapture, NoChannel
<1>13. QED
  BY <1>4, <1>5, <1>6, <1>7, <1>8, <1>9, <1>10, <1>11, <1>12 DEF FetchStep

LEMMA PostStepEffect ==
    ASSUME TypeInv, UniqueIds, HighWaits, NEW id \in DOMAIN posts, PostStep(id), ~JoinPost(id)
    PROVE  PostEffect(id)
<1> DEFINE request == posts[id].request
           r == request.event.release
<1>1. /\ posts[id] \in PostTask /\ id \in Nat
      /\ CaptureRequestOf(id) = request /\ CaptureEvent(id) = request.event
      /\ CaptureRelease(id) = r /\ r \in Releases
      /\ request.event \in Event /\ request.event.tier \in Tiers /\ index[r] \in Row
      /\ index[r] # NoRow
  BY DEF TypeInv, TaskTypes, StoreTypes, PostTask, CaptureRequestOf, CaptureRelease, CaptureEvent,
     CaptureRequest, Event, HighWaits, WaitingIsHigh, UniqueIds
<1>2. StoreTypes
  BY DEF TypeInv
<1>3. \A pc \in {"materialize", "scan", "decide", "drop", "discard", "promote", "rename", "record",
                 "bundle", "notify", "failed", "none"} :
          GoPost(id, pc) =>
              GoesOn(posts, posts', id) /\ posts'[id] \in PostTask /\ posts'[id].pc = pc
  BY <1>1 DEF GoPost, GoesOn, PostTask
<1>4. CASE Materialize(id)
  <2>1. FilesMove
    BY <1>1, <1>2, <1>4 DEF Materialize, SetWorkspace, Workspace, FilesMove, StoreTypes, Files
  <2>2. QED
    BY <1>1, <1>2, <1>3, <1>4, <2>1, RowsStay
    DEF PostEffect, Settling, Discarding, Materialize, At, OnlyCapture, NoChannel
<1>5. CASE Scan(id)
  <2>1. FilesMove
    BY <1>1, <1>2, <1>5 DEF Scan, SetWorkspace, Workspace, FilesMove, StoreTypes, Files
  <2>2. QED
    BY <1>1, <1>2, <1>3, <1>5, <2>1, RowsStay
    DEF PostEffect, Settling, Discarding, Scan, At, OnlyCapture, NoChannel
<1>6. CASE DecideRetention(id)
  <2>1. PICK forced \in BOOLEAN, pc \in {"drop", "promote", "record"} :
            /\ posts' = [posts EXCEPT ![id].forced = forced, ![id].pc = pc]
            /\ pc \in {"drop", "promote"} => Ephemeral(id)
    BY <1>6 DEF DecideRetention
  <2>2. GoesOn(posts, posts', id) /\ posts'[id] \in PostTask /\ posts'[id].pc = pc
    BY <1>1, <2>1 DEF GoesOn, PostTask
  <2>3. QED
    BY <1>1, <1>2, <1>6, <2>1, <2>2, RowsStay, FilesStay
    DEF PostEffect, Settling, Discarding, DecideRetention, At, Ephemeral, OnlyCapture, NoChannel,
        evidence
<1>7. CASE DecideFails(id)
  BY <1>1, <1>2, <1>3, <1>7, RowsStay, FilesStay
  DEF PostEffect, Settling, Discarding, DecideFails, At, OnlyCapture, NoChannel, evidence
<1>8. CASE DropCapture(id)
  <2>1. RowsAdvance(r) /\ index'[r].capture # "pending"
    BY <1>1, <1>2, <1>8, RowWritten, MarkAdvances DEF DropCapture
  <2>2. QED
    BY <1>1, <1>2, <1>3, <1>8, <2>1, FilesStay
    DEF PostEffect, Settling, Discarding, DropCapture, At, OnlyCapture, NoChannel
<1>9. CASE DiscardWorkspace(id)
  <2>1. FilesMove
    BY <1>1, <1>2, <1>9 DEF DiscardWorkspace, SetWorkspace, FilesMove, StoreTypes, Files
  <2>2. QED
    BY <1>1, <1>2, <1>3, <1>9, <2>1, RowsStay
    DEF PostEffect, Settling, Discarding, DiscardWorkspace, At, OnlyCapture, NoChannel
<1>10. CASE ClearFinal(id)
  <2>1. FilesMove
    BY <1>1, <1>2, <1>10 DEF ClearFinal, FilesMove, StoreTypes, Files
  <2>2. QED
    BY <1>1, <1>2, <1>3, <1>10, <2>1, RowsStay
    DEF PostEffect, Settling, Discarding, ClearFinal, At, OnlyCapture, NoChannel
<1>11. CASE Promote(id)
  <2>1. FilesMove
    BY <1>1, <1>2, <1>11 DEF Promote, FilesMove, StoreTypes, Files
  <2>2. QED
    BY <1>1, <1>2, <1>3, <1>11, <2>1, RowsStay
    DEF PostEffect, Settling, Discarding, Promote, At, OnlyCapture, NoChannel
<1>12. CASE RecordRetained(id)
  <2>1. RowsAdvance(r) /\ index'[r].capture # "pending"
    BY <1>1, <1>2, <1>12, RowWritten, ReadyAdvances, RecordRow DEF RecordRetained, WriteReady
  <2>2. QED
    BY <1>1, <1>2, <1>3, <1>12, <2>1, FilesStay
    DEF PostEffect, Settling, Discarding, RecordRetained, At, OnlyCapture, NoChannel
<1>13. CASE WriteBundle(id)
  <2>1. FilesMove
    BY <1>1, <1>2, <1>13 DEF WriteBundle, FilesMove, StoreTypes, Files
  <2>2. QED
    BY <1>1, <1>2, <1>3, <1>13, <2>1, RowsStay
    DEF PostEffect, Settling, Discarding, WriteBundle, At, OnlyCapture, NoChannel
<1>14. CASE NotifyDiff(id)
  <2>1. Tells(id, request.event)
    BY <1>1, <1>14 DEF NotifyDiff, Tells, DiffRequest, PostTask
  <2>2. QED
    BY <1>1, <1>2, <1>3, <1>14, <2>1, RowsStay, FilesStay
    DEF PostEffect, Settling, Discarding, NotifyDiff, At, OnlyCapture, evidence
<1>15. CASE MarkPostFailed(id)
  <2>1. RowsAdvance(r) /\ index'[r].capture = "failed"
    BY <1>1, <1>2, <1>15, RowWritten, MarkAdvances DEF MarkPostFailed, WriteFailed
  <2>2. QED
    BY <1>1, <1>2, <1>3, <1>15, <2>1, FilesStay
    DEF PostEffect, Settling, Discarding, MarkPostFailed, At, OnlyCapture, NoChannel
<1>16. QED
  BY <1>4, <1>5, <1>6, <1>7, <1>8, <1>9, <1>10, <1>11, <1>12, <1>13, <1>14, <1>15 DEF PostStep

LEMMA DiffStepEffect ==
    ASSUME TypeInv, HighWaits, NEW id \in DOMAIN diffs, DiffTaskStep(id)
    PROVE  DiffEffect(id)
<1> DEFINE request == diffs[id].request
           r == request.event.release
<1>1. /\ diffs[id] \in DiffTask /\ id \in Nat
      /\ DiffEvent(id) = request.event /\ DiffRelease(id) = r /\ r \in Releases
      /\ request.event.tier \in Tiers /\ index[r] \in Row /\ index[r] # NoRow
  BY DEF TypeInv, TaskTypes, StoreTypes, DiffTask, DiffEvent, DiffRelease, DiffRequest, Event,
     HighWaits, WaitingIsHigh
<1>2. StoreTypes
  BY DEF TypeInv
<1>3. \A pc \in {"policy", "skip", "prepare", "build", "load", "rewrite", "rerecord", "write",
                 "record", "bundle", "failed"} :
          GoDiff(id, pc) =>
              GoesOn(diffs, diffs', id) /\ diffs'[id] \in DiffTask /\ diffs'[id].pc = pc
  BY <1>1 DEF GoDiff, GoesOn, DiffTask
<1>4. diffs' = Reap(diffs, id) =>
          /\ id \notin DOMAIN diffs' /\ DOMAIN diffs' \cup {id} = DOMAIN diffs
          /\ \A i \in DOMAIN diffs \ {id} : diffs'[i] = diffs[i]
  BY DEF Reap
<1>5. CASE CheckPolicy(id)
  BY <1>1, <1>2, <1>3, <1>5, RowsStay
  DEF DiffEffect, GoesOn, CheckPolicy, At, OnlyDiff, StoreTypes
<1>6. CASE SkipDiff(id)
  <2>1. RowsAdvance(r) /\ index'[r].diff # "pending"
    BY <1>1, <1>2, <1>6, RowWritten, MarkAdvances DEF SkipDiff
  <2>2. final' \in [Releases -> SUBSET Files] /\ final' = final /\ id \notin DOMAIN diffs'
    BY <1>2, <1>4, <1>6 DEF SkipDiff, StoreTypes
  <2>3. QED
    BY <1>1, <1>4, <1>6, <2>1, <2>2 DEF DiffEffect, SkipDiff, At, OnlyDiff
<1>7. CASE PrepareDiff(id)
  <2>1. /\ final' \in [Releases -> SUBSET Files]
        /\ \A x \in Releases : "diff" \in final'[x] => "diff" \in final[x]
    BY <1>1, <1>2, <1>7 DEF PrepareDiff, StoreTypes, Files
  <2>2. QED
    BY <1>1, <1>2, <1>3, <1>4, <1>7, <2>1, RowsStay
    DEF DiffEffect, GoesOn, PrepareDiff, At, OnlyDiff
<1>8. CASE BuildDiff(id)
  BY SMTT(40), <1>1, <1>2, <1>3, <1>8, RowsStay DEF DiffEffect, GoesOn, BuildDiff, At, OnlyDiff, StoreTypes
<1>9. CASE LoadCapture(id)
  <2> DEFINE scanned == "scan" \in final[DiffRelease(id)]
  <2>1. PICK pc \in {"rewrite", "write"} :
            diffs' = [diffs EXCEPT ![id].scanned = scanned, ![id].pc = pc]
    BY <1>9 DEF LoadCapture
  <2>2. GoesOn(diffs, diffs', id) /\ diffs'[id] \in DiffTask /\ diffs'[id].pc = pc
    <3>1. scanned \in BOOLEAN
      OBVIOUS
    <3> HIDE DEF scanned
    <3>2. QED  BY <1>1, <2>1, <3>1 DEF GoesOn, DiffTask
  <2>3. QED
    BY ZenonT(60), <1>1, <1>2, <1>9, <2>2, RowsStay DEF DiffEffect, GoesOn, LoadCapture, At, OnlyDiff, StoreTypes
<1>10. CASE RewriteCapture(id)
  <2>1. /\ final' \in [Releases -> SUBSET Files]
        /\ \A x \in Releases : "diff" \in final'[x] => "diff" \in final[x]
    BY <1>1, <1>2, <1>10 DEF RewriteCapture, StoreTypes, Files
  <2>2. QED
    BY <1>1, <1>2, <1>3, <1>10, <2>1, RowsStay DEF DiffEffect, GoesOn, RewriteCapture, At, OnlyDiff
<1>11. CASE RecordRewritten(id)
  <2>1. RowsAdvance(r)
    BY <1>1, <1>2, <1>11, RowWritten, ReadyAdvances DEF RecordRewritten
  <2>2. QED
    BY <1>1, <1>2, <1>3, <1>11, <2>1 DEF DiffEffect, GoesOn, RecordRewritten, At, OnlyDiff, StoreTypes
<1>12. CASE WriteDiff(id)
  <2>1. /\ final' \in [Releases -> SUBSET Files]
        /\ \A x \in Releases : "diff" \in final'[x] => "diff" \in final[x] \/ x = r
    BY <1>1, <1>2, <1>12 DEF WriteDiff, StoreTypes, Files
  <2>2. QED
    BY <1>1, <1>2, <1>3, <1>12, <2>1, RowsStay DEF DiffEffect, GoesOn, WriteDiff, At, OnlyDiff
<1>13. CASE DiffFails(id)
  BY <1>1, <1>2, <1>3, <1>13, RowsStay DEF DiffEffect, GoesOn, DiffFails, At, OnlyDiff, StoreTypes
<1>14. CASE RecordBuiltDiff(id)
  <2>1. RowsAdvance(r) /\ index'[r].diff = "ready"
    BY <1>1, <1>2, <1>14, RowWritten, ReadyAdvances, RecordRow DEF RecordBuiltDiff
  <2>2. "ready" \in Settled
    BY DEF Settled, JobStates
  <2>3. final' \in [Releases -> SUBSET Files] /\ final' = final
    BY <1>2, <1>14 DEF RecordBuiltDiff, StoreTypes
  <2>4. GoesOn(diffs, diffs', id) /\ diffs'[id] \in DiffTask /\ diffs'[id].pc = "bundle"
    BY <1>3, <1>14 DEF RecordBuiltDiff
  <2>5. QED
    BY <1>1, <1>14, <2>1, <2>2, <2>3, <2>4 DEF DiffEffect, GoesOn, RecordBuiltDiff, At, OnlyDiff
<1>15. CASE RewriteBundle(id)
  <2>1. /\ final' \in [Releases -> SUBSET Files]
        /\ \A x \in Releases : "diff" \in final'[x] => "diff" \in final[x]
    BY <1>1, <1>2, <1>15 DEF RewriteBundle, StoreTypes, Files
  <2>2. QED
    BY <1>1, <1>2, <1>4, <1>15, <2>1, RowsStay DEF DiffEffect, RewriteBundle, At, OnlyDiff
<1>16. CASE MarkBuildFailed(id)
  <2>1. RowsAdvance(r) /\ index'[r].diff # "pending"
    BY <1>1, <1>2, <1>16, RowWritten, MarkAdvances DEF MarkBuildFailed
  <2>2. final' \in [Releases -> SUBSET Files] /\ final' = final /\ id \notin DOMAIN diffs'
    BY <1>2, <1>4, <1>16 DEF MarkBuildFailed, StoreTypes
  <2>3. QED
    BY <1>1, <1>4, <1>16, <2>1, <2>2 DEF DiffEffect, MarkBuildFailed, At, OnlyDiff
<1>17. QED
  BY <1>5, <1>6, <1>7, <1>8, <1>9, <1>10, <1>11, <1>12, <1>13, <1>14, <1>15, <1>16
  DEF DiffTaskStep

-----------------------------------------------------------------------------
(* A step of a task keeps the invariants.                                  *)

LEMMA Told ==
    ASSUME diff_queue \in Seq(DiffRequest), NEW id, NEW event, Tells(id, event)
    PROVE  \E e \in DiffRequest :
               /\ e.id = id /\ e.event = event
               /\ diff_queue' \in Seq(DiffRequest)
               /\ Elements(diff_queue') = Elements(diff_queue) \cup {e}
               /\ Distinct(diff_queue) /\ id \notin Ids(diff_queue) => Distinct(diff_queue')
<1>1. PICK e \in DiffRequest : e.id = id /\ e.event = event /\ diff_queue' = Append(diff_queue, e)
  BY DEF Tells
<1>2. QED  BY <1>1, AppendHolds

LEMMA RowsKeepWaiting ==
    ASSUME TypeInv, NEW r \in Releases, RowsAdvance(r), NEW event, event.release \in Releases,
           WaitingIsHigh(event)
    PROVE  WaitingIsHigh(event)'
BY NoRowIsNone DEF RowsAdvance, RowAdvances, WaitingIsHigh, TypeInv, StoreTypes

LEMMA EventsHaveReleases ==
    ASSUME TypeInv
    PROVE  /\ hand # <<>> => Head(hand).release \in Releases
           /\ \A e \in Elements(triage_queue) : e.event.release \in Releases /\ e.id \in Nat
           /\ \A id \in DOMAIN triages : triages[id].request.event.release \in Releases
           /\ \A e \in Elements(capture_queue) : e.event.release \in Releases /\ e.id \in Nat
           /\ \A id \in DOMAIN captures : captures[id].request.event.release \in Releases
           /\ \A id \in DOMAIN posts : posts[id].request.event.release \in Releases
           /\ \A e \in Elements(diff_queue) : e.event.release \in Releases /\ e.id \in Nat
           /\ \A id \in DOMAIN diffs : diffs[id].request.event.release \in Releases
<1>1. hand # <<>> => Head(hand).release \in Releases
  <2>1. hand \in Seq(Event)
    BY DEF TypeInv, QueueTypes
  <2>2. hand # <<>> => Head(hand) \in Event
    BY <2>1
  <2>3. QED  BY <2>2 DEF Event
<1>2. /\ \A e \in Elements(triage_queue) : e \in TriageRequest
      /\ \A e \in Elements(capture_queue) : e \in CaptureRequest
      /\ \A e \in Elements(diff_queue) : e \in DiffRequest
  BY DEF TypeInv, QueueTypes, Elements
<1>3. /\ \A id \in DOMAIN triages : triages[id].request.event.release \in Releases
      /\ \A id \in DOMAIN captures : captures[id].request.event.release \in Releases
      /\ \A id \in DOMAIN posts : posts[id].request.event.release \in Releases
      /\ \A id \in DOMAIN diffs : diffs[id].request.event.release \in Releases
  BY DEF TypeInv, TaskTypes, TriageTask, FetchTask, PostTask, DiffTask, TriageRequest,
     CaptureRequest, DiffRequest, Event
<1>4. QED  BY <1>1, <1>2, <1>3 DEF TriageRequest, CaptureRequest, DiffRequest, Event

LEMMA FetchKeeps ==
    ASSUME IInv, NEW id \in DOMAIN captures, FetchEffect(id)
    PROVE  IInv'
<1> DEFINE request == captures[id].request
           r == request.event.release
<1>1. /\ TypeInv /\ UniqueIds /\ StopOrder /\ HighWaits /\ PendingIsHeld /\ WithoutAudit
      /\ captures[id] \in FetchTask /\ id \in Nat /\ r \in Releases
      /\ request.event.release \in Releases
  BY EventsHaveReleases DEF IInv, TypeInv, TaskTypes
<1>2. /\ GoesOn(captures, captures', id) /\ captures'[id] \in FetchTask
      /\ captures[id].pc # "none" /\ RowsAdvance(r) /\ FilesMove
      /\ UNCHANGED <<hand, triage_queue, triages, capture_queue, posts, diffs, audit_hand, audited,
                     intake, up, observations, next_id, abandoned, sweeps>>
  BY DEF FetchEffect, auditing, control, counters
<1>3. \/ diff_queue' = diff_queue
      \/ /\ captures'[id].pc = "none"
         /\ \E e \in DiffRequest :
               /\ e.id = id /\ e.event = request.event
               /\ diff_queue' \in Seq(DiffRequest)
               /\ Elements(diff_queue') = Elements(diff_queue) \cup {e}
               /\ Distinct(diff_queue) /\ id \notin Ids(diff_queue) => Distinct(diff_queue')
  <2>1. diff_queue \in Seq(DiffRequest)
    BY <1>1 DEF TypeInv, QueueTypes
  <2>2. QED  BY <2>1, Told DEF FetchEffect
<1>4. TypeInv'
  <2>1. QueueTypes'
    BY <1>1, <1>2, <1>3 DEF TypeInv, QueueTypes
  <2>2. TaskTypes'
    BY <1>1, <1>2 DEF TypeInv, TaskTypes, GoesOn
  <2>3. StoreTypes' /\ ControlTypes'
    BY <1>1, <1>2, NoRowIsNone DEF TypeInv, StoreTypes, ControlTypes, RowsAdvance, RowAdvances, FilesMove
  <2>4. QED  BY <2>1, <2>2, <2>3 DEF TypeInv
<1>5. UniqueIds'
  <2>1. id \in BeforeDiff /\ id \notin DiffSide
    BY <1>1, <1>2 DEF UniqueIds, BeforeDiff
  <2>2. /\ DOMAIN captures' = DOMAIN captures /\ BeforeDiff' \subseteq BeforeDiff
        /\ captures'[id].pc = "none" => id \notin BeforeDiff'
    BY <1>1, <1>2 DEF GoesOn, BeforeDiff, TriageSide, UniqueIds, CaptureSide
  <2>3. CASE diff_queue' = diff_queue
    BY <1>1, <1>2, <2>2, <2>3 DEF UniqueIds, TriageSide, CaptureSide, DiffSide
  <2>4. CASE diff_queue' # diff_queue
    <3>1. /\ captures'[id].pc = "none" /\ Distinct(diff_queue')
          /\ Ids(diff_queue') = Ids(diff_queue) \cup {id}
      BY <1>1, <1>3, <2>1, <2>4 DEF UniqueIds, DiffSide, Ids
    <3>2. QED
      BY <1>1, <1>2, <2>1, <2>2, <3>1 DEF UniqueIds, TriageSide, CaptureSide, DiffSide
  <2>5. QED  BY <2>3, <2>4
<1>6. StopOrder'
  BY <1>1, <1>2, <1>3 DEF StopOrder, GoesOn
<1>7. HighWaits'
  <2>1. \A e \in Elements(diff_queue') :
            e.event.release \in Releases /\ WaitingIsHigh(e.event)
    BY <1>1, <1>3, EventsHaveReleases DEF HighWaits
  <2>2. QED
    BY <1>1, <1>2, <2>1, RowsKeepWaiting, EventsHaveReleases DEF HighWaits, GoesOn
<1>8. PendingIsHeld'
  BY <1>1, <1>2 DEF FetchEffect, PendingIsHeld, HeldForCapture, InHand, Queued, GoesOn, RowsAdvance,
     RowAdvances
<1>9. WithoutAudit'
  <2>1. SUFFICES ASSUME ~AuditEnabled
                 PROVE  HighIsUrgent' /\ DiffIsRecorded' /\ PendingDiffIsHeld'
    BY DEF WithoutAudit
  <2>2. HighIsUrgent /\ DiffIsRecorded /\ PendingDiffIsHeld
    BY <1>1, <2>1 DEF WithoutAudit
  <2>3. HighIsUrgent'
    BY <1>2, <2>2 DEF HighIsUrgent, GoesOn
  <2>4. DiffIsRecorded'
    BY <1>1, <1>2, <2>2 DEF DiffIsRecorded, FilesMove, RowsAdvance, RowAdvances
  <2>5. PendingDiffIsHeld'
    <3>1. SUFFICES ASSUME NEW x \in Releases, index'[x].diff = "pending"
                   PROVE  index'[x].capture = "failed" \/ HeldForDiff(x)'
      BY DEF PendingDiffIsHeld
    <3>2. index[x].diff = "pending" /\ (index[x].capture = "failed" \/ HeldForDiff(x))
      BY <1>1, <1>2, <2>2, <3>1 DEF PendingDiffIsHeld, RowsAdvance, RowAdvances
    <3>3. CASE x = r /\ captures'[id].pc = "none"
      <4>1. request.notify_diff
        BY <1>1, <2>1, <2>2, <3>2, <3>3 DEF HighWaits, WaitingIsHigh, HighIsUrgent, Urgent
      <4>2. Tells(id, request.event) \/ index'[x].capture = "failed"
        BY <3>3, <4>1 DEF FetchEffect
      <4>3. CASE Tells(id, request.event)
        <5>1. \E e \in Elements(diff_queue') : e.event = request.event
          BY SMTT(40), <1>1, <4>3, Told DEF TypeInv, QueueTypes
        <5>2. QED  BY <3>3, <5>1 DEF HeldForDiff, Queued
      <4>4. QED  BY <4>2, <4>3
    <3>4. CASE x = r /\ captures'[id].pc # "none"
      BY <1>2, <3>4 DEF HeldForDiff, GoesOn
    <3>5. CASE x # r
      <4>1. index'[x] = index[x] /\ Elements(diff_queue) \subseteq Elements(diff_queue')
        BY <1>2, <1>3, <3>5 DEF RowsAdvance
      <4>2. QED
        BY <1>2, <3>2, <3>5, <4>1 DEF HeldForDiff, InHand, Queued, GoesOn
    <3>6. QED  BY <3>3, <3>4, <3>5
  <2>6. QED  BY <2>3, <2>4, <2>5
<1>10. QED  BY <1>4, <1>5, <1>6, <1>7, <1>8, <1>9 DEF IInv

LEMMA PostKeeps ==
    ASSUME IInv, NEW id \in DOMAIN posts, PostEffect(id)
    PROVE  IInv'
<1> DEFINE request == posts[id].request
           r == request.event.release
<1>1. /\ TypeInv /\ UniqueIds /\ StopOrder /\ HighWaits /\ PendingIsHeld /\ WithoutAudit
      /\ posts[id] \in PostTask /\ id \in Nat /\ r \in Releases
      /\ request.event.release \in Releases
  BY EventsHaveReleases DEF IInv, TypeInv, TaskTypes
<1>2. /\ GoesOn(posts, posts', id) /\ posts'[id] \in PostTask
      /\ posts[id].pc # "none" /\ RowsAdvance(r) /\ FilesMove
      /\ UNCHANGED <<hand, triage_queue, triages, capture_queue, captures, diffs, audit_hand, audited,
                     intake, up, observations, next_id, abandoned, sweeps>>
  BY DEF PostEffect, auditing, control, counters
<1>3. \/ diff_queue' = diff_queue
      \/ /\ posts'[id].pc = "none"
         /\ \E e \in DiffRequest :
               /\ e.id = id /\ e.event = request.event
               /\ diff_queue' \in Seq(DiffRequest)
               /\ Elements(diff_queue') = Elements(diff_queue) \cup {e}
               /\ Distinct(diff_queue) /\ id \notin Ids(diff_queue) => Distinct(diff_queue')
  <2>1. diff_queue \in Seq(DiffRequest)
    BY <1>1 DEF TypeInv, QueueTypes
  <2>2. QED  BY <2>1, Told DEF PostEffect
<1>4. TypeInv'
  <2>1. QueueTypes'
    BY <1>1, <1>2, <1>3 DEF TypeInv, QueueTypes
  <2>2. TaskTypes'
    BY <1>1, <1>2 DEF TypeInv, TaskTypes, GoesOn
  <2>3. StoreTypes' /\ ControlTypes'
    BY <1>1, <1>2, NoRowIsNone DEF TypeInv, StoreTypes, ControlTypes, RowsAdvance, RowAdvances, FilesMove
  <2>4. QED  BY <2>1, <2>2, <2>3 DEF TypeInv
<1>5. UniqueIds'
  <2>1. id \in BeforeDiff /\ id \notin DiffSide
    BY <1>1, <1>2 DEF UniqueIds, BeforeDiff
  <2>2. /\ DOMAIN posts' = DOMAIN posts /\ BeforeDiff' \subseteq BeforeDiff
        /\ posts'[id].pc = "none" => id \notin BeforeDiff'
    BY <1>1, <1>2 DEF GoesOn, BeforeDiff, TriageSide, UniqueIds, CaptureSide
  <2>3. CASE diff_queue' = diff_queue
    BY <1>1, <1>2, <2>2, <2>3 DEF UniqueIds, TriageSide, CaptureSide, DiffSide
  <2>4. CASE diff_queue' # diff_queue
    <3>1. /\ posts'[id].pc = "none" /\ Distinct(diff_queue')
          /\ Ids(diff_queue') = Ids(diff_queue) \cup {id}
      BY <1>1, <1>3, <2>1, <2>4 DEF UniqueIds, DiffSide, Ids
    <3>2. QED
      BY <1>1, <1>2, <2>1, <2>2, <3>1 DEF UniqueIds, TriageSide, CaptureSide, DiffSide
  <2>5. QED  BY <2>3, <2>4
<1>6. StopOrder'
  BY <1>1, <1>2, <1>3 DEF StopOrder, GoesOn
<1>7. HighWaits'
  <2>1. \A e \in Elements(diff_queue') :
            e.event.release \in Releases /\ WaitingIsHigh(e.event)
    BY <1>1, <1>3, EventsHaveReleases DEF HighWaits
  <2>2. QED
    BY <1>1, <1>2, <2>1, RowsKeepWaiting, EventsHaveReleases DEF HighWaits, GoesOn
<1>8. PendingIsHeld'
  BY <1>1, <1>2 DEF PostEffect, Settling, PendingIsHeld, HeldForCapture, InHand, Queued, GoesOn, RowsAdvance,
     RowAdvances
<1>9. WithoutAudit'
  <2>1. SUFFICES ASSUME ~AuditEnabled
                 PROVE  HighIsUrgent' /\ DiffIsRecorded' /\ PendingDiffIsHeld'
    BY DEF WithoutAudit
  <2>2. HighIsUrgent /\ DiffIsRecorded /\ PendingDiffIsHeld
    BY <1>1, <2>1 DEF WithoutAudit
  <2>3. HighIsUrgent'
    <3>1. posts'[id].pc \in Discarding => request.event.tier # "high"
      BY <2>2 DEF PostEffect, HighIsUrgent, Urgent, Discarding
    <3>2. QED  BY <1>2, <2>2, <3>1 DEF HighIsUrgent, GoesOn, Discarding
  <2>4. DiffIsRecorded'
    BY <1>1, <1>2, <2>2 DEF DiffIsRecorded, FilesMove, RowsAdvance, RowAdvances
  <2>5. PendingDiffIsHeld'
    <3>1. SUFFICES ASSUME NEW x \in Releases, index'[x].diff = "pending"
                   PROVE  index'[x].capture = "failed" \/ HeldForDiff(x)'
      BY DEF PendingDiffIsHeld
    <3>2. index[x].diff = "pending" /\ (index[x].capture = "failed" \/ HeldForDiff(x))
      BY <1>1, <1>2, <2>2, <3>1 DEF PendingDiffIsHeld, RowsAdvance, RowAdvances
    <3>3. CASE x = r /\ posts'[id].pc = "none"
      <4>1. request.notify_diff /\ posts[id].pc # "discard"
        BY <1>1, <2>1, <2>2, <3>2, <3>3 DEF HighWaits, WaitingIsHigh, HighIsUrgent, Urgent
      <4>2. Tells(id, request.event) \/ index'[x].capture = "failed"
        BY <3>3, <4>1 DEF PostEffect
      <4>3. CASE Tells(id, request.event)
        <5>1. \E e \in Elements(diff_queue') : e.event = request.event
          BY <1>1, <4>3, Told DEF TypeInv, QueueTypes
        <5>2. QED  BY <3>3, <5>1 DEF HeldForDiff, Queued
      <4>4. QED  BY <4>2, <4>3
    <3>4. CASE x = r /\ posts'[id].pc # "none"
      BY <1>2, <3>4 DEF HeldForDiff, GoesOn
    <3>5. CASE x # r
      <4>1. index'[x] = index[x] /\ Elements(diff_queue) \subseteq Elements(diff_queue')
        BY <1>2, <1>3, <3>5 DEF RowsAdvance
      <4>2. QED
        BY <1>2, <3>2, <3>5, <4>1 DEF HeldForDiff, InHand, Queued, GoesOn
    <3>6. QED  BY <3>3, <3>4, <3>5
  <2>6. QED  BY <2>3, <2>4, <2>5
<1>10. QED  BY <1>4, <1>5, <1>6, <1>7, <1>8, <1>9 DEF IInv

LEMMA DiffKeeps ==
    ASSUME IInv, NEW id \in DOMAIN diffs, DiffEffect(id)
    PROVE  IInv'
<1> DEFINE request == diffs[id].request
           r == request.event.release
<1>1. /\ TypeInv /\ UniqueIds /\ StopOrder /\ HighWaits /\ PendingIsHeld /\ WithoutAudit
      /\ diffs[id] \in DiffTask /\ id \in Nat /\ r \in Releases
  BY EventsHaveReleases DEF IInv, TypeInv, TaskTypes
<1>2. /\ DOMAIN diffs' \cup {id} = DOMAIN diffs
      /\ \A i \in DOMAIN diffs \ {id} : diffs'[i] = diffs[i]
      /\ id \in DOMAIN diffs' => diffs'[id] \in DiffTask /\ diffs'[id].request = request
      /\ RowsAdvance(r) /\ final' \in [Releases -> SUBSET Files]
      /\ UNCHANGED <<staging, hand, triage_queue, triages, capture_queue, captures, posts,
                     audit_hand, audited, intake, up, observations, next_id, abandoned, sweeps,
                     diff_queue>>
  BY DEF DiffEffect, auditing, control, counters
<1>3. TypeInv'
  <2>1. QueueTypes' /\ TaskTypes'
    BY <1>1, <1>2 DEF TypeInv, QueueTypes, TaskTypes
  <2>2. StoreTypes' /\ ControlTypes'
    BY <1>1, <1>2, NoRowIsNone DEF TypeInv, StoreTypes, ControlTypes, RowsAdvance, RowAdvances
  <2>3. QED  BY <2>1, <2>2 DEF TypeInv
<1>4. UniqueIds'
  BY <1>1, <1>2 DEF UniqueIds, BeforeDiff, TriageSide, CaptureSide, DiffSide
<1>5. StopOrder'
  BY <1>1, <1>2 DEF StopOrder
<1>6. HighWaits'
  BY <1>1, <1>2, RowsKeepWaiting, EventsHaveReleases DEF HighWaits
<1>7. PendingIsHeld'
  BY <1>1, <1>2 DEF PendingIsHeld, HeldForCapture, InHand, Queued, RowsAdvance, RowAdvances
<1>8. WithoutAudit'
  <2>1. SUFFICES ASSUME ~AuditEnabled
                 PROVE  HighIsUrgent' /\ DiffIsRecorded' /\ PendingDiffIsHeld'
    BY DEF WithoutAudit
  <2>2. HighIsUrgent /\ DiffIsRecorded /\ PendingDiffIsHeld
    BY <1>1, <2>1 DEF WithoutAudit
  <2>3. HighIsUrgent'
    BY <1>2, <2>2 DEF HighIsUrgent
  <2>4. DiffIsRecorded'
    <3>1. SUFFICES ASSUME NEW x \in Releases, "diff" \in final'[x]
                   PROVE  \/ index'[x].diff \in Settled
                          \/ \E i \in DOMAIN diffs' :
                                 diffs'[i].request.event.release = x /\ diffs'[i].pc = "record"
      BY SMTT(40), <1>2, <2>2 DEF DiffIsRecorded
    <3>2. CASE "diff" \in final[x]
      BY <1>1, <1>2, <2>2, <3>2 DEF DiffEffect, DiffIsRecorded, RowsAdvance, RowAdvances
    <3>3. CASE "diff" \notin final[x]
      BY <1>2, <3>1, <3>3 DEF DiffEffect
    <3>4. QED  BY <3>2, <3>3
  <2>5. PendingDiffIsHeld'
    <3>1. SUFFICES ASSUME NEW x \in Releases, index'[x].diff = "pending"
                   PROVE  index'[x].capture = "failed" \/ HeldForDiff(x)'
      BY DEF PendingDiffIsHeld
    <3>2. index[x].diff = "pending" /\ (index[x].capture = "failed" \/ HeldForDiff(x))
      BY <1>1, <1>2, <2>2, <3>1 DEF PendingDiffIsHeld, RowsAdvance, RowAdvances
    <3>3. CASE x # r
      <4>1. index'[x] = index[x]
        BY <1>2, <3>3 DEF RowsAdvance
      <4>2. QED  BY <1>2, <3>2, <3>3, <4>1 DEF HeldForDiff, InHand, Queued
    <3>4. CASE x = r /\ id \in DOMAIN diffs' /\ diffs'[id].pc # "bundle"
      BY <1>2, <3>4 DEF HeldForDiff
    <3>5. CASE x = r /\ (id \in DOMAIN diffs' => diffs'[id].pc = "bundle")
      <4>1. CASE diffs[id].pc = "bundle"
        <5>1. index[x].capture = "failed" => index'[x].capture = "failed"
          BY <3>1, <3>5 DEF DiffEffect
        <5>2. QED  BY <1>2, <3>2, <4>1, <5>1 DEF HeldForDiff, InHand, Queued
      <4>2. CASE diffs[id].pc # "bundle"
        <5>1. "diff" \in final[r] /\ diffs[id].pc = "prepare"
          BY <3>1, <3>5, <4>2 DEF DiffEffect
        <5>2. PICK i \in DOMAIN diffs :
                  diffs[i].request.event.release = r /\ diffs[i].pc = "record"
          BY <1>1, <2>2, <3>2, <3>5, <5>1 DEF DiffIsRecorded, Settled
        <5>3. i \in DOMAIN diffs' /\ diffs'[i] = diffs[i]
          BY <1>2, <5>1, <5>2
        <5>4. QED  BY <3>5, <5>2, <5>3 DEF HeldForDiff
      <4>3. QED  BY <4>1, <4>2
    <3>6. QED  BY <3>3, <3>4, <3>5
  <2>6. QED  BY <2>3, <2>4, <2>5
<1>9. QED  BY <1>3, <1>4, <1>5, <1>6, <1>7, <1>8 DEF IInv

LEMMA JoinKeeps ==
    ASSUME IInv, NEW id, JoinCapture(id) \/ JoinPost(id)
    PROVE  IInv'
<1>1. /\ TypeInv /\ UniqueIds /\ StopOrder /\ HighWaits /\ PendingIsHeld /\ WithoutAudit
      /\ id \in DOMAIN captures => captures[id] \in FetchTask /\ id \in Nat
      /\ id \in DOMAIN captures => id \notin DOMAIN posts
  BY DEF IInv, TypeInv, TaskTypes, UniqueIds
<1>2. /\ DOMAIN captures' \subseteq DOMAIN captures
      /\ DOMAIN captures' \cup DOMAIN posts' \subseteq DOMAIN captures \cup DOMAIN posts
      /\ DOMAIN captures' \cap DOMAIN posts' = {}
      /\ \A i \in DOMAIN captures' : captures'[i] = captures[i]
      /\ \A i \in DOMAIN captures \ DOMAIN captures' :
             \/ captures[i].pc = "none"
             \/ /\ i \in DOMAIN posts' /\ captures[i].pc = "fetched"
                /\ posts'[i].request = captures[i].request /\ posts'[i].pc = "materialize"
      /\ \A i \in DOMAIN posts' :
             \/ i \in DOMAIN posts /\ posts'[i] = posts[i]
             \/ /\ i \in DOMAIN captures /\ posts'[i] \in PostTask
                /\ captures[i].pc # "none"
                /\ posts'[i].request = captures[i].request /\ posts'[i].pc = "materialize"
      /\ \A i \in DOMAIN posts \ DOMAIN posts' : posts[i].pc = "none"
  <2>1. CASE JoinCapture(id) /\ captures[id].pc = "none"
    <3>1. captures' = Reap(captures, id) /\ posts' = posts /\ id \in DOMAIN captures
      BY <2>1 DEF JoinCapture
    <3>2. /\ DOMAIN captures' = DOMAIN captures \ {id}
          /\ \A i \in DOMAIN captures \ {id} : captures'[i] = captures[i]
      BY <3>1, ReapRemoves
    <3>3. QED  BY <1>1, <2>1, <3>1, <3>2 DEF UniqueIds
  <2>2. CASE JoinCapture(id) /\ captures[id].pc = "fetched"
    <3> DEFINE task == [request |-> captures[id].request, forced |-> FALSE, pc |-> "materialize"]
    <3>1. captures' = Reap(captures, id) /\ posts' = Spawn(posts, id, task) /\ id \in DOMAIN captures
      BY <2>2 DEF JoinCapture
    <3>2. task \in PostTask /\ task.request = captures[id].request /\ task.pc = "materialize"
      BY <1>1, <3>1 DEF FetchTask, PostTask
    <3> HIDE DEF task
    <3>3. /\ DOMAIN captures' = DOMAIN captures \ {id}
          /\ \A i \in DOMAIN captures \ {id} : captures'[i] = captures[i]
      BY <3>1, ReapRemoves
    <3>4. /\ DOMAIN posts' = DOMAIN posts \cup {id} /\ posts'[id] = task
          /\ \A i \in DOMAIN posts \ {id} : posts'[i] = posts[i]
      BY <3>1 DEF Spawn
    <3>5. QED  BY <1>1, <2>2, <3>1, <3>2, <3>3, <3>4 DEF UniqueIds
  <2>3. CASE JoinPost(id)
    <3>1. /\ captures' = captures /\ posts' = Reap(posts, id)
          /\ id \in DOMAIN posts /\ posts[id].pc = "none"
      BY <2>3 DEF JoinPost, At
    <3>2. /\ DOMAIN posts' = DOMAIN posts \ {id}
          /\ \A i \in DOMAIN posts \ {id} : posts'[i] = posts[i]
      BY <3>1, ReapRemoves
    <3>3. QED  BY <1>1, <3>1, <3>2 DEF UniqueIds
  <2>4. QED  BY <2>1, <2>2, <2>3 DEF JoinCapture
<1>3. UNCHANGED <<index, final, staging, hand, triage_queue, triages, capture_queue, diff_queue,
                  diffs, audit_hand, audited, intake, up, observations, next_id, abandoned, sweeps>>
  BY DEF JoinCapture, JoinPost, OnlyCapture, NoChannel, evidence, auditing, control, counters
<1>4. TypeInv'
  <2>1. TaskTypes'
    BY <1>1, <1>2, <1>3 DEF TypeInv, TaskTypes
  <2>2. QED
    BY <1>1, <1>3, <2>1 DEF TypeInv, QueueTypes, StoreTypes, ControlTypes
<1>5. UniqueIds'
  BY <1>1, <1>2, <1>3 DEF UniqueIds, BeforeDiff, TriageSide, CaptureSide, DiffSide
<1>6. StopOrder'
  BY <1>1, <1>2, <1>3 DEF StopOrder
<1>7. HighWaits'
  BY <1>1, <1>2, <1>3 DEF HighWaits, WaitingIsHigh
<1>8. PendingIsHeld'
  <2>1. SUFFICES ASSUME NEW r \in Releases, HeldForCapture(r)  PROVE HeldForCapture(r)'
    BY <1>1, <1>3 DEF PendingIsHeld
  <2>2. ASSUME NEW i \in DOMAIN captures, captures[i].request.event.release = r,
               captures[i].pc \notin {"notify", "none"}
        PROVE  HeldForCapture(r)'
    <3>1. CASE i \in DOMAIN captures'
      BY <1>2, <2>2, <3>1 DEF HeldForCapture
    <3>2. CASE i \notin DOMAIN captures'
      BY <1>2, <2>2, <3>2 DEF HeldForCapture
    <3>3. QED  BY <3>1, <3>2
  <2>3. ASSUME NEW i \in DOMAIN posts, posts[i].request.event.release = r,
               posts[i].pc \notin {"discard", "bundle", "notify", "none"}
        PROVE  HeldForCapture(r)'
    BY <1>1, <1>2, <2>3 DEF HeldForCapture, UniqueIds
  <2>4. QED  BY <1>3, <2>1, <2>2, <2>3 DEF HeldForCapture, InHand, Queued
<1>9. WithoutAudit'
  <2>1. HighIsUrgent => HighIsUrgent'
    BY <1>2, <1>3 DEF HighIsUrgent
  <2>2. PendingDiffIsHeld => PendingDiffIsHeld'
    <3>1. SUFFICES ASSUME NEW r \in Releases, HeldForDiff(r)  PROVE HeldForDiff(r)'
      BY <1>3 DEF PendingDiffIsHeld
    <3>2. ASSUME NEW i \in DOMAIN captures, captures[i].request.event.release = r,
                 captures[i].pc # "none"
          PROVE  HeldForDiff(r)'
      <4>1. CASE i \in DOMAIN captures'
        BY <1>2, <3>2, <4>1 DEF HeldForDiff
      <4>2. CASE i \notin DOMAIN captures'
        BY <1>2, <3>2, <4>2 DEF HeldForDiff
      <4>3. QED  BY <4>1, <4>2
    <3>3. ASSUME NEW i \in DOMAIN posts, posts[i].request.event.release = r, posts[i].pc # "none"
          PROVE  HeldForDiff(r)'
      BY <1>1, <1>2, <3>3 DEF HeldForDiff, UniqueIds
    <3>4. QED  BY <1>3, <3>1, <3>2, <3>3 DEF HeldForDiff, InHand, Queued
  <2>3. DiffIsRecorded => DiffIsRecorded'
    BY <1>3 DEF DiffIsRecorded
  <2>4. QED  BY <1>1, <2>1, <2>2, <2>3 DEF WithoutAudit
<1>10. QED  BY <1>4, <1>5, <1>6, <1>7, <1>8, <1>9 DEF IInv

LEMMA ReceiveTriageKeeps == ASSUME IInv, ReceiveTriage  PROVE IInv'
<1> DEFINE e == Head(triage_queue)
           task == [request |-> e, pc |-> "check"]
<1>1. /\ TypeInv /\ UniqueIds /\ StopOrder /\ HighWaits /\ PendingIsHeld /\ WithoutAudit
      /\ triage_queue \in Seq(TriageRequest) /\ triage_queue # <<>>
  BY DEF IInv, TypeInv, QueueTypes, ReceiveTriage
<1>2. /\ e \in TriageRequest /\ triage_queue' \in Seq(TriageRequest)
      /\ Elements(triage_queue) = Elements(triage_queue') \cup {e}
      /\ Distinct(triage_queue') /\ e.id \notin Ids(triage_queue')
  BY <1>1, TailHolds DEF ReceiveTriage, UniqueIds
<1>3. /\ DOMAIN triages' = DOMAIN triages \cup {e.id} /\ triages'[e.id] = task
      /\ \A i \in DOMAIN triages \ {e.id} : triages'[i] = triages[i]
  BY DEF ReceiveTriage, Spawn
<1>4. UNCHANGED <<index, final, staging, hand, capture_queue, captures, posts, diff_queue, diffs,
                  audit_hand, audited, intake, up, observations, next_id, abandoned, sweeps>>
  BY DEF ReceiveTriage, OnlyTriage, auditing, control
<1>5. /\ task \in TriageTask /\ task.request = e /\ e.id \in Nat
      /\ e.id \notin DOMAIN triages /\ Ids(triage_queue) = Ids(triage_queue') \cup {e.id}
  BY <1>1, <1>2 DEF TriageTask, TriageRequest, UniqueIds, Ids
<1> HIDE DEF e, task
<1>6. TypeInv'
  <2>1. QueueTypes' /\ TaskTypes'
    BY <1>1, <1>2, <1>3, <1>4, <1>5 DEF TypeInv, QueueTypes, TaskTypes
  <2>2. StoreTypes' /\ ControlTypes'
    BY <1>1, <1>4 DEF TypeInv, StoreTypes, ControlTypes
  <2>3. QED  BY <2>1, <2>2 DEF TypeInv
<1>7. UniqueIds'
  BY <1>1, <1>2, <1>3, <1>4, <1>5 DEF UniqueIds, BeforeDiff, TriageSide, CaptureSide, DiffSide
<1>8. StopOrder'
  <2>1. "triage" \in up
    BY <1>1 DEF StopOrder
  <2>2. QED  BY <1>1, <1>4, <2>1 DEF StopOrder
<1>9. HighWaits'
  BY <1>1, <1>2, <1>3, <1>4, <1>5 DEF HighWaits, WaitingIsHigh
<1>10. PendingIsHeld'
  <2>1. SUFFICES ASSUME NEW r \in Releases, HeldForCapture(r)  PROVE HeldForCapture(r)'
    BY <1>1, <1>4 DEF PendingIsHeld
  <2>2. ASSUME Queued(triage_queue, r)  PROVE HeldForCapture(r)'
    BY <1>2, <1>3, <1>5, <2>2 DEF HeldForCapture, Queued
  <2>3. ASSUME NEW i \in DOMAIN triages, triages[i].request.event.release = r
        PROVE  HeldForCapture(r)'
    BY <1>3, <1>5, <2>3 DEF HeldForCapture
  <2>4. QED  BY <1>4, <2>1, <2>2, <2>3 DEF HeldForCapture, InHand, Queued
<1>11. WithoutAudit'
  <2>1. HighIsUrgent => HighIsUrgent'
    BY <1>2, <1>3, <1>4, <1>5 DEF HighIsUrgent
  <2>2. PendingDiffIsHeld => PendingDiffIsHeld'
    BY <1>4 DEF PendingDiffIsHeld, HeldForDiff, InHand, Queued
  <2>3. DiffIsRecorded => DiffIsRecorded'
    BY <1>4 DEF DiffIsRecorded
  <2>4. QED  BY <1>1, <2>1, <2>2, <2>3 DEF WithoutAudit
<1>12. QED  BY <1>6, <1>7, <1>8, <1>9, <1>10, <1>11 DEF IInv

LEMMA ReceiveCaptureKeeps == ASSUME IInv, ReceiveCapture  PROVE IInv'
<1> DEFINE e == Head(capture_queue)
           task == [request |-> e, pc |-> "check"]
<1>1. /\ TypeInv /\ UniqueIds /\ StopOrder /\ HighWaits /\ PendingIsHeld /\ WithoutAudit
      /\ capture_queue \in Seq(CaptureRequest) /\ capture_queue # <<>>
  BY DEF IInv, TypeInv, QueueTypes, ReceiveCapture
<1>2. /\ e \in CaptureRequest /\ capture_queue' \in Seq(CaptureRequest)
      /\ Elements(capture_queue) = Elements(capture_queue') \cup {e}
      /\ Distinct(capture_queue') /\ e.id \notin Ids(capture_queue')
  BY <1>1, TailHolds DEF ReceiveCapture, UniqueIds
<1>3. /\ DOMAIN captures' = DOMAIN captures \cup {e.id} /\ captures'[e.id] = task
      /\ \A i \in DOMAIN captures \ {e.id} : captures'[i] = captures[i]
  BY DEF ReceiveCapture, Spawn
<1>4. UNCHANGED <<index, final, staging, hand, triage_queue, triages, posts, diff_queue, diffs,
                  audit_hand, audited, intake, up, observations, next_id, abandoned, sweeps>>
  BY DEF ReceiveCapture, OnlyCapture, evidence, auditing, control, counters
<1>5. /\ task \in FetchTask /\ task.request = e /\ task.pc = "check" /\ e.id \in Nat
      /\ e.id \notin DOMAIN captures /\ Ids(capture_queue) = Ids(capture_queue') \cup {e.id}
  BY <1>1, <1>2 DEF FetchTask, CaptureRequest, UniqueIds, Ids
<1> HIDE DEF e, task
<1>6. TypeInv'
  <2>1. QueueTypes' /\ TaskTypes'
    BY <1>1, <1>2, <1>3, <1>4, <1>5 DEF TypeInv, QueueTypes, TaskTypes
  <2>2. StoreTypes' /\ ControlTypes'
    BY <1>1, <1>4 DEF TypeInv, StoreTypes, ControlTypes
  <2>3. QED  BY <2>1, <2>2 DEF TypeInv
<1>7. UniqueIds'
  <2>1. CaptureSide' = CaptureSide /\ BeforeDiff' \subseteq BeforeDiff
    BY <1>3, <1>4, <1>5 DEF CaptureSide, BeforeDiff, TriageSide
  <2>2. QED
    BY <1>1, <1>2, <1>3, <1>4, <1>5, <2>1 DEF UniqueIds, TriageSide, CaptureSide, DiffSide
<1>8. StopOrder'
  <2>1. "capture" \in up
    BY <1>1 DEF StopOrder
  <2>2. QED  BY <1>1, <1>4, <2>1 DEF StopOrder
<1>9. HighWaits'
  BY <1>1, <1>2, <1>3, <1>4, <1>5 DEF HighWaits, WaitingIsHigh
<1>10. \A i \in DOMAIN captures : i \in DOMAIN captures' /\ captures'[i] = captures[i]
  BY <1>3, <1>5
<1>11. PendingIsHeld'
  <2>1. SUFFICES ASSUME NEW r \in Releases, HeldForCapture(r)  PROVE HeldForCapture(r)'
    BY <1>1, <1>4 DEF PendingIsHeld
  <2>2. ASSUME Queued(capture_queue, r)  PROVE HeldForCapture(r)'
    BY <1>2, <1>3, <1>5, <2>2 DEF HeldForCapture, Queued
  <2>3. QED  BY <1>4, <1>10, <2>1, <2>2 DEF HeldForCapture, InHand, Queued
<1>12. WithoutAudit'
  <2>1. HighIsUrgent => HighIsUrgent'
    BY <1>2, <1>3, <1>4, <1>5 DEF HighIsUrgent
  <2>2. PendingDiffIsHeld => PendingDiffIsHeld'
    <3>1. SUFFICES ASSUME NEW r \in Releases, HeldForDiff(r)  PROVE HeldForDiff(r)'
      BY <1>4 DEF PendingDiffIsHeld
    <3>2. ASSUME Queued(capture_queue, r)  PROVE HeldForDiff(r)'
      BY <1>2, <1>3, <1>5, <3>2 DEF HeldForDiff, Queued
    <3>3. QED  BY <1>4, <1>10, <3>1, <3>2 DEF HeldForDiff, InHand, Queued
  <2>3. DiffIsRecorded => DiffIsRecorded'
    BY <1>4 DEF DiffIsRecorded
  <2>4. QED  BY <1>1, <2>1, <2>2, <2>3 DEF WithoutAudit
<1>13. QED  BY <1>6, <1>7, <1>8, <1>9, <1>11, <1>12 DEF IInv

LEMMA ReceiveDiffKeeps == ASSUME IInv, ReceiveDiff  PROVE IInv'
<1> DEFINE e == Head(diff_queue)
           task == [request |-> e, scanned |-> FALSE, pc |-> "policy"]
<1>1. /\ TypeInv /\ UniqueIds /\ StopOrder /\ HighWaits /\ PendingIsHeld /\ WithoutAudit
      /\ diff_queue \in Seq(DiffRequest) /\ diff_queue # <<>>
  BY DEF IInv, TypeInv, QueueTypes, ReceiveDiff
<1>2. /\ e \in DiffRequest /\ diff_queue' \in Seq(DiffRequest)
      /\ Elements(diff_queue) = Elements(diff_queue') \cup {e}
      /\ Distinct(diff_queue') /\ e.id \notin Ids(diff_queue')
  BY <1>1, TailHolds DEF ReceiveDiff, UniqueIds
<1>3. /\ DOMAIN diffs' = DOMAIN diffs \cup {e.id} /\ diffs'[e.id] = task
      /\ \A i \in DOMAIN diffs \ {e.id} : diffs'[i] = diffs[i]
  BY DEF ReceiveDiff, Spawn
<1>4. UNCHANGED <<index, final, staging, hand, triage_queue, triages, capture_queue, captures, posts,
                  audit_hand, audited, intake, up, observations, next_id, abandoned, sweeps>>
  BY DEF ReceiveDiff, OnlyDiff, auditing, control, counters
<1>5. /\ task \in DiffTask /\ task.request = e /\ task.pc = "policy" /\ e.id \in Nat
      /\ e.id \notin DOMAIN diffs /\ Ids(diff_queue) = Ids(diff_queue') \cup {e.id}
  BY <1>1, <1>2 DEF DiffTask, DiffRequest, UniqueIds, Ids
<1> HIDE DEF e, task
<1>6. TypeInv'
  <2>1. QueueTypes' /\ TaskTypes'
    BY <1>1, <1>2, <1>3, <1>4, <1>5 DEF TypeInv, QueueTypes, TaskTypes
  <2>2. StoreTypes' /\ ControlTypes'
    BY <1>1, <1>4 DEF TypeInv, StoreTypes, ControlTypes
  <2>3. QED  BY <2>1, <2>2 DEF TypeInv
<1>7. UniqueIds'
  <2>1. DiffSide' = DiffSide /\ BeforeDiff' = BeforeDiff
    BY <1>3, <1>4, <1>5 DEF DiffSide, BeforeDiff, TriageSide
  <2>2. QED
    BY <1>1, <1>2, <1>3, <1>4, <1>5, <2>1 DEF UniqueIds, TriageSide, CaptureSide
<1>8. StopOrder'
  <2>1. "diff" \in up
    BY <1>1 DEF StopOrder
  <2>2. QED  BY <1>1, <1>4, <2>1 DEF StopOrder
<1>9. HighWaits'
  BY <1>1, <1>2, <1>3, <1>4, <1>5 DEF HighWaits, WaitingIsHigh
<1>10. \A i \in DOMAIN diffs : i \in DOMAIN diffs' /\ diffs'[i] = diffs[i]
  BY <1>3, <1>5
<1>11. PendingIsHeld'
  BY <1>1, <1>4 DEF PendingIsHeld, HeldForCapture, InHand, Queued
<1>12. WithoutAudit'
  <2>1. HighIsUrgent => HighIsUrgent'
    BY <1>4 DEF HighIsUrgent
  <2>2. PendingDiffIsHeld => PendingDiffIsHeld'
    <3>1. SUFFICES ASSUME NEW r \in Releases, HeldForDiff(r)  PROVE HeldForDiff(r)'
      BY <1>4 DEF PendingDiffIsHeld
    <3>2. ASSUME Queued(diff_queue, r)  PROVE HeldForDiff(r)'
      BY <1>2, <1>3, <1>5, <3>2 DEF HeldForDiff, Queued
    <3>3. QED  BY <1>4, <1>10, <3>1, <3>2 DEF HeldForDiff, InHand, Queued
  <2>3. DiffIsRecorded => DiffIsRecorded'
    BY <1>4, <1>10 DEF DiffIsRecorded
  <2>4. QED  BY <1>1, <2>1, <2>2, <2>3 DEF WithoutAudit
<1>13. QED  BY <1>6, <1>7, <1>8, <1>9, <1>11, <1>12 DEF IInv

LEMMA TriageTaskKeeps ==
    ASSUME IInv, NEW id \in DOMAIN triages, TriageTaskStep(id)
    PROVE  IInv'
<1> DEFINE request == triages[id].request
           r == request.event.release
<1>1. /\ TypeInv /\ UniqueIds /\ StopOrder /\ HighWaits /\ PendingIsHeld /\ WithoutAudit
      /\ triages[id] \in TriageTask /\ id \in Nat /\ r \in Releases /\ r = TriageRelease(id)
      /\ request \in TriageRequest /\ index[r] \in Row /\ index[r] # NoRow /\ StoreTypes
      /\ capture_queue \in Seq(CaptureRequest)
  BY EventsHaveReleases DEF IInv, TypeInv, TaskTypes, TriageTask, TriageRelease, HighWaits,
     WaitingIsHigh, StoreTypes, QueueTypes
<1>2. UNCHANGED <<final, staging, hand, diff_queue, captures, posts, diffs, audit_hand, audited,
                  intake, up, observations, next_id, sweeps, triage_queue>>
  BY DEF TriageTaskStep, CheckRow, Decide, HydrateFails, PromoteTriaged, DropTriaged, OnlyTriage,
     auditing, control
<1>3. triages' = Reap(triages, id) =>
          /\ id \notin DOMAIN triages' /\ DOMAIN triages' \cup {id} = DOMAIN triages
          /\ \A i \in DOMAIN triages \ {id} : triages'[i] = triages[i]
  BY DEF Reap
<1>4. \A pc \in {"decide", "send", "skip"} :
          triages' = [triages EXCEPT ![id].pc = pc] =>
              /\ DOMAIN triages' = DOMAIN triages
              /\ triages'[id] \in TriageTask /\ triages'[id].request = request
              /\ \A i \in DOMAIN triages \ {id} : triages'[i] = triages[i]
  BY <1>1 DEF TriageTask
<1>5. /\ DOMAIN triages' \cup {id} = DOMAIN triages
      /\ \A i \in DOMAIN triages \ {id} : triages'[i] = triages[i]
      /\ id \in DOMAIN triages' => triages'[id] \in TriageTask /\ triages'[id].request = request
      /\ RowsAdvance(r)
      /\ abandoned \subseteq abandoned' /\ abandoned' \subseteq Releases
      /\ \/ /\ capture_queue' = capture_queue
            /\ id \notin DOMAIN triages' => index'[r].capture # "pending" \/ r \in abandoned'
         \/ /\ id \notin DOMAIN triages'
            /\ \E e \in CaptureRequest : /\ e.id = id /\ e.event = request.event
                                         /\ capture_queue' = Append(capture_queue, e)
  <2>1. abandoned \subseteq Releases
    BY <1>1 DEF TypeInv, ControlTypes
  <2>2. CASE CheckRow(id)
    <3>1. CASE index[r].capture \in {"ready", "skipped"}
      BY <1>1, <1>3, <2>1, <2>2, <3>1, RowsStay DEF CheckRow
    <3>2. CASE index[r].capture \notin {"ready", "skipped"}
      BY <1>1, <1>4, <2>1, <2>2, <3>2, RowsStay DEF CheckRow
    <3>3. QED  BY <3>1, <3>2
  <2>3. CASE Decide(id)
    BY <1>1, <1>4, <2>1, <2>3, RowsStay DEF Decide
  <2>4. CASE HydrateFails(id)
    BY <1>1, <1>3, <2>1, <2>4, RowsStay DEF HydrateFails
  <2>5. CASE PromoteTriaged(id)
    <3>1. \E e \in CaptureRequest : /\ e.id = id /\ e.event = request.event
                                    /\ capture_queue' = Append(capture_queue, e)
      BY <1>1, <2>5 DEF PromoteTriaged, Triaged, CaptureRequest, TriageRequest
    <3>2. QED
      BY <1>1, <1>3, <2>1, <2>5, <3>1, RowsStay DEF PromoteTriaged
  <2>6. CASE DropTriaged(id)
    <3>1. RowsAdvance(r) /\ index'[r].capture # "pending"
      BY <1>1, <2>6, RowWritten, MarkAdvances DEF DropTriaged
    <3>2. QED  BY <1>3, <2>1, <2>6, <3>1 DEF DropTriaged
  <2>7. QED  BY <2>2, <2>3, <2>4, <2>5, <2>6 DEF TriageTaskStep
<1>6. /\ capture_queue' \in Seq(CaptureRequest)
      /\ \/ Elements(capture_queue') = Elements(capture_queue) /\ capture_queue' = capture_queue
         \/ /\ id \notin DOMAIN triages'
            /\ \E e \in CaptureRequest :
                   /\ e.id = id /\ e.event = request.event
                   /\ Elements(capture_queue') = Elements(capture_queue) \cup {e}
                   /\ Ids(capture_queue') = Ids(capture_queue) \cup {id}
                   /\ id \notin Ids(capture_queue) => Distinct(capture_queue')
  <2>1. CASE capture_queue' = capture_queue
    BY <1>1, <2>1
  <2>2. CASE capture_queue' # capture_queue
    <3>1. /\ id \notin DOMAIN triages'
          /\ \E e \in CaptureRequest : /\ e.id = id /\ e.event = request.event
                                       /\ capture_queue' = Append(capture_queue, e)
      BY <1>5, <2>2
    <3>2. PICK e \in CaptureRequest : /\ e.id = id /\ e.event = request.event
                                      /\ capture_queue' = Append(capture_queue, e)
      BY <3>1
    <3>3. /\ capture_queue' \in Seq(CaptureRequest)
          /\ Elements(capture_queue') = Elements(capture_queue) \cup {e}
          /\ Distinct(capture_queue) /\ e.id \notin Ids(capture_queue) => Distinct(capture_queue')
      BY <1>1, <3>2, AppendHolds
    <3>4. Ids(capture_queue') = Ids(capture_queue) \cup {id}
      BY <3>2, <3>3 DEF Ids
    <3>5. QED  BY <1>1, <3>1, <3>2, <3>3, <3>4 DEF UniqueIds
  <2>3. QED  BY <2>1, <2>2
<1>7. TypeInv'
  <2>1. QueueTypes' /\ TaskTypes'
    BY <1>1, <1>2, <1>5, <1>6 DEF TypeInv, QueueTypes, TaskTypes
  <2>2. StoreTypes' /\ ControlTypes'
    BY <1>1, <1>2, <1>5, NoRowIsNone DEF TypeInv, StoreTypes, ControlTypes, RowsAdvance, RowAdvances
  <2>3. QED  BY <2>1, <2>2 DEF TypeInv
<1>8. UniqueIds'
  <2>1. TriageSide' \subseteq TriageSide /\ DiffSide' = DiffSide
    BY <1>2, <1>5 DEF TriageSide, DiffSide
  <2>2. CASE capture_queue' = capture_queue
    BY <1>1, <1>2, <1>5, <2>1, <2>2 DEF UniqueIds, BeforeDiff, TriageSide, CaptureSide, DiffSide
  <2>3. CASE capture_queue' # capture_queue
    <3>1. /\ id \in TriageSide /\ id \notin CaptureSide /\ id \notin TriageSide'
          /\ id \in BeforeDiff
      BY <1>1, <1>2, <1>6, <2>3 DEF UniqueIds, TriageSide, BeforeDiff
    <3>2. /\ Distinct(capture_queue') /\ Ids(capture_queue') = Ids(capture_queue) \cup {id}
      BY <1>6, <2>3, <3>1 DEF CaptureSide
    <3>3. CaptureSide' = CaptureSide \cup {id} /\ BeforeDiff' \subseteq BeforeDiff
      BY <1>2, <2>1, <3>1, <3>2 DEF CaptureSide, BeforeDiff
    <3>4. QED
      BY <1>1, <1>2, <1>5, <2>1, <3>1, <3>2, <3>3 DEF UniqueIds, TriageSide, CaptureSide
  <2>4. QED  BY <2>2, <2>3
<1>9. StopOrder'
  <2>1. "triage" \in up /\ "capture" \in up
    BY <1>1 DEF StopOrder
  <2>2. QED  BY <1>1, <1>2, <1>5, <2>1 DEF StopOrder
<1>10. HighWaits'
  <2>1. \A e \in Elements(capture_queue') : e.event.release \in Releases /\ WaitingIsHigh(e.event)
    BY <1>1, <1>6, EventsHaveReleases DEF HighWaits
  <2>2. QED
    BY ZenonT(60), <1>1, <1>2, <1>5, <2>1, RowsKeepWaiting, EventsHaveReleases DEF HighWaits
<1>11. PendingIsHeld'
  <2>1. SUFFICES ASSUME NEW x \in Releases, index'[x].capture = "pending", x \notin abandoned'
                 PROVE  HeldForCapture(x)'
    BY DEF PendingIsHeld
  <2>2. HeldForCapture(x)
    BY <1>1, <1>5, <2>1 DEF PendingIsHeld, RowsAdvance, RowAdvances
  <2>3. ASSUME NEW i \in DOMAIN triages, triages[i].request.event.release = x
        PROVE  HeldForCapture(x)'
    <3>1. CASE i \in DOMAIN triages'
      BY <1>5, <2>3, <3>1 DEF HeldForCapture
    <3>2. CASE i \notin DOMAIN triages'
      <4>1. i = id /\ x = r /\ capture_queue' # capture_queue
        BY <1>5, <2>1, <2>3, <3>2
      <4>2. QED  BY <1>6, <4>1 DEF HeldForCapture, Queued
    <3>3. QED  BY <3>1, <3>2
  <2>4. Queued(capture_queue, x) => Queued(capture_queue', x)
    BY <1>6 DEF Queued
  <2>5. QED  BY <1>2, <2>2, <2>3, <2>4 DEF HeldForCapture, InHand, Queued
<1>12. WithoutAudit'
  <2>1. SUFFICES ASSUME ~AuditEnabled
                 PROVE  HighIsUrgent' /\ DiffIsRecorded' /\ PendingDiffIsHeld'
    BY DEF WithoutAudit
  <2>2. HighIsUrgent /\ DiffIsRecorded /\ PendingDiffIsHeld /\ request.event.tier # "high"
    BY <1>1, <2>1 DEF WithoutAudit, HighIsUrgent
  <2>3. HighIsUrgent'
    BY <1>2, <1>5, <1>6, <2>2 DEF HighIsUrgent, Urgent
  <2>4. DiffIsRecorded'
    BY <1>1, <1>2, <1>5, <2>2 DEF DiffIsRecorded, RowsAdvance, RowAdvances
  <2>5. PendingDiffIsHeld'
    <3>1. SUFFICES ASSUME NEW x \in Releases, index'[x].diff = "pending"
                   PROVE  index'[x].capture = "failed" \/ HeldForDiff(x)'
      BY DEF PendingDiffIsHeld
    <3>2. index[x].diff = "pending" /\ (index[x].capture = "failed" \/ HeldForDiff(x))
      BY <1>1, <1>5, <2>2, <3>1 DEF PendingDiffIsHeld, RowsAdvance, RowAdvances
    <3>3. x # r
      BY <1>1, <2>1, <2>2, <3>2 DEF HighWaits, WaitingIsHigh
    <3>4. index'[x] = index[x]
      BY <1>5, <3>3 DEF RowsAdvance
    <3>5. Queued(capture_queue, x) => Queued(capture_queue', x)
      BY <1>6 DEF Queued
    <3>6. QED  BY <1>2, <3>2, <3>4, <3>5 DEF HeldForDiff, InHand, Queued
  <2>6. QED  BY <2>3, <2>4, <2>5
<1>13. QED  BY <1>7, <1>8, <1>9, <1>10, <1>11, <1>12 DEF IInv

LEMMA ObserveKeeps ==
    ASSUME PipelineAssumption, IInv, NEW event \in Feed, Observe(event)
    PROVE  IInv'
<1> DEFINE r == event.release
           new == UpsertEventRow(index[r], "observed", event.tier)
<1>1. /\ TypeInv /\ UniqueIds /\ StopOrder /\ HighWaits /\ PendingIsHeld /\ WithoutAudit
      /\ event \in Event /\ r \in Releases /\ event.tier \in Tiers
      /\ index[r] \in Row \cup {NoRow} /\ StoreTypes /\ "triage" \in up
  BY DEF IInv, TypeInv, StoreTypes, PipelineAssumption, Event, Observe, StopOrder
<1>2. /\ new \in Row /\ new # NoRow
      /\ new.diff = "pending" => event.tier = "high" /\ (index[r].diff = "pending" \/ index[r] = NoRow)
      /\ index[r].diff \in Settled => new.diff \in Settled
  BY <1>1, UpsertRow, NoRowIsNone
<1>3. /\ index' \in [Releases -> Row \cup {NoRow}] /\ index'[r] = new
      /\ \A x \in Releases : x # r => index'[x] = index[x]
  BY <1>1, <1>2 DEF Observe, Write, StoreTypes
<1>4. /\ hand = <<>> /\ hand' = <<event>> /\ hand' # <<>> /\ Head(hand') = event
      /\ hand' \in Seq(Event) /\ Len(hand') = 1
      /\ observations' = [observations EXCEPT ![r] = @ + 1] /\ observations[r] < MaxObservations
  BY <1>1 DEF Observe
<1>5. UNCHANGED <<final, staging, triage_queue, triages, capture_queue, captures, posts, diff_queue,
                  diffs, audit_hand, audited, intake, up, next_id, abandoned, sweeps>>
  BY DEF Observe, inflight, auditing, control
<1> HIDE DEF new
<1>6. TypeInv'
  <2>1. QueueTypes' /\ TaskTypes'
    BY <1>1, <1>4, <1>5 DEF TypeInv, QueueTypes, TaskTypes
  <2>2. observations' \in [Releases -> 0..MaxObservations]
    BY <1>1, <1>4 DEF TypeInv, ControlTypes, PipelineAssumption
  <2>3. StoreTypes' /\ ControlTypes'
    BY <1>1, <1>2, <1>3, <1>5, <2>2 DEF TypeInv, StoreTypes, ControlTypes
  <2>4. QED  BY <2>1, <2>3 DEF TypeInv
<1>7. UniqueIds'
  BY <1>1, <1>5 DEF UniqueIds, BeforeDiff, TriageSide, CaptureSide, DiffSide
<1>8. StopOrder'
  BY <1>1, <1>5 DEF StopOrder
<1>9. HighWaits'
  <2>1. ASSUME NEW other, other.release \in Releases, WaitingIsHigh(other)
        PROVE  WaitingIsHigh(other)'
    BY <1>1, <1>2, <1>3, <2>1 DEF WaitingIsHigh
  <2>2. WaitingIsHigh(event)'
    BY <1>2, <1>3 DEF WaitingIsHigh
  <2>3. QED
    BY <1>1, <1>4, <1>5, <2>1, <2>2, EventsHaveReleases DEF HighWaits
<1>10. PendingIsHeld'
  BY <1>1, <1>3, <1>4, <1>5 DEF PendingIsHeld, HeldForCapture, InHand, Queued
<1>11. WithoutAudit'
  <2>1. HighIsUrgent => HighIsUrgent'
    BY <1>5 DEF HighIsUrgent
  <2>2. PendingDiffIsHeld => PendingDiffIsHeld'
    BY <1>3, <1>4, <1>5 DEF PendingDiffIsHeld, HeldForDiff, InHand, Queued
  <2>3. DiffIsRecorded => DiffIsRecorded'
    BY <1>2, <1>3, <1>5 DEF DiffIsRecorded
  <2>4. QED  BY <1>1, <2>1, <2>2, <2>3 DEF WithoutAudit
<1>12. QED  BY <1>6, <1>7, <1>8, <1>9, <1>10, <1>11 DEF IInv

LEMMA DispatchKeeps == ASSUME IInv, Dispatch  PROVE IInv'
<1> DEFINE event == Head(hand)
           notify == DiffRequestedWithGraph(event.tier, event.graph)
           urgent == Observed(next_id, event, notify)
           other == [id |-> next_id, event |-> event, notify_diff |-> notify]
<1>1. /\ TypeInv /\ UniqueIds /\ StopOrder /\ HighWaits /\ PendingIsHeld /\ WithoutAudit
      /\ hand \in Seq(Event) /\ hand # <<>> /\ "triage" \in up /\ "capture" \in up
      /\ next_id \in Nat /\ capture_queue \in Seq(CaptureRequest) /\ triage_queue \in Seq(TriageRequest)
  BY DEF IInv, TypeInv, QueueTypes, ControlTypes, Dispatch, StopOrder
<1>2. event \in Event /\ notify \in BOOLEAN /\ (event.tier = "high" => notify)
  <2>1. event \in Event
    BY <1>1
  <2>2. QED  BY <2>1 DEF Event, DiffRequestedWithGraph, DiffRequested
<1> HIDE DEF notify
<1>3. /\ urgent \in CaptureRequest /\ urgent.id = next_id /\ urgent.event = event
      /\ event.tier = "high" => Urgent(urgent)
  BY <1>1, <1>2 DEF Observed, CaptureRequest, Urgent
<1>4. other \in TriageRequest /\ other.id = next_id /\ other.event = event
  BY <1>1, <1>2 DEF TriageRequest
<1>5. /\ hand' = <<>> /\ next_id' = next_id + 1
      /\ \/ /\ event.tier = "high" /\ triage_queue' = triage_queue
            /\ capture_queue' = Append(capture_queue, urgent)
         \/ /\ event.tier # "high" /\ capture_queue' = capture_queue
            /\ triage_queue' = Append(triage_queue, other)
  BY DEF Dispatch, notify
<1>6. UNCHANGED <<index, final, staging, triages, captures, posts, diff_queue, diffs, audit_hand,
                  audited, intake, up, observations, abandoned, sweeps>>
  BY DEF Dispatch, evidence, inflight, auditing, control
<1> HIDE DEF event, urgent, other
<1>7. next_id \notin TriageSide \cup CaptureSide \cup DiffSide
  BY <1>1 DEF UniqueIds
<1>8. \/ /\ event.tier = "high" /\ triage_queue' = triage_queue
         /\ capture_queue' \in Seq(CaptureRequest)
         /\ Elements(capture_queue') = Elements(capture_queue) \cup {urgent}
         /\ Ids(capture_queue') = Ids(capture_queue) \cup {next_id}
         /\ Distinct(capture_queue')
      \/ /\ event.tier # "high" /\ capture_queue' = capture_queue
         /\ triage_queue' \in Seq(TriageRequest)
         /\ Elements(triage_queue') = Elements(triage_queue) \cup {other}
         /\ Ids(triage_queue') = Ids(triage_queue) \cup {next_id}
         /\ Distinct(triage_queue')
  <2>1. CASE event.tier = "high"
    <3>1. capture_queue' = Append(capture_queue, urgent) /\ triage_queue' = triage_queue
      BY <1>5, <2>1
    <3>2. /\ capture_queue' \in Seq(CaptureRequest)
          /\ Elements(capture_queue') = Elements(capture_queue) \cup {urgent}
          /\ Distinct(capture_queue) /\ urgent.id \notin Ids(capture_queue) => Distinct(capture_queue')
      BY <1>1, <1>3, <3>1, AppendHolds
    <3>3. QED  BY <1>1, <1>3, <1>7, <2>1, <3>1, <3>2 DEF UniqueIds, CaptureSide, Ids
  <2>2. CASE event.tier # "high"
    <3>1. triage_queue' = Append(triage_queue, other) /\ capture_queue' = capture_queue
      BY <1>5, <2>2
    <3>2. /\ triage_queue' \in Seq(TriageRequest)
          /\ Elements(triage_queue') = Elements(triage_queue) \cup {other}
          /\ Distinct(triage_queue) /\ other.id \notin Ids(triage_queue) => Distinct(triage_queue')
      BY <1>1, <1>4, <3>1, AppendHolds
    <3>3. QED  BY <1>1, <1>4, <1>7, <2>2, <3>1, <3>2 DEF UniqueIds, TriageSide, Ids
  <2>3. QED  BY <2>1, <2>2
<1>9. TypeInv'
  <2>1. QueueTypes'
    BY <1>1, <1>5, <1>6, <1>8 DEF TypeInv, QueueTypes
  <2>2. TaskTypes' /\ StoreTypes' /\ ControlTypes'
    BY <1>1, <1>5, <1>6 DEF TypeInv, TaskTypes, StoreTypes, ControlTypes
  <2>3. QED  BY <2>1, <2>2 DEF TypeInv
<1>10. UniqueIds'
  <2>1. CASE event.tier = "high"
    BY <1>1, <1>5, <1>6, <1>7, <1>8, <2>1 DEF UniqueIds, BeforeDiff, TriageSide, CaptureSide, DiffSide
  <2>2. CASE event.tier # "high"
    BY SMTT(40), <1>1, <1>5, <1>6, <1>7, <1>8, <2>2 DEF UniqueIds, BeforeDiff, TriageSide, CaptureSide, DiffSide
  <2>3. QED  BY <2>1, <2>2
<1>11. StopOrder'
  BY <1>1, <1>6 DEF StopOrder
<1>12. HighWaits'
  BY <1>1, <1>3, <1>4, <1>5, <1>6, <1>8 DEF HighWaits, WaitingIsHigh, event
<1>13. Elements(triage_queue) \subseteq Elements(triage_queue')
       /\ Elements(capture_queue) \subseteq Elements(capture_queue')
  BY <1>8
<1>14. PendingIsHeld'
  <2>1. SUFFICES ASSUME NEW r \in Releases, HeldForCapture(r)  PROVE HeldForCapture(r)'
    BY <1>1, <1>6 DEF PendingIsHeld
  <2>2. InHand(r) => HeldForCapture(r)'
    BY <1>3, <1>4, <1>8 DEF HeldForCapture, InHand, Queued, event
  <2>3. QED  BY <1>6, <1>13, <2>1, <2>2 DEF HeldForCapture, Queued
<1>15. WithoutAudit'
  <2>1. SUFFICES ASSUME ~AuditEnabled
                 PROVE  HighIsUrgent' /\ DiffIsRecorded' /\ PendingDiffIsHeld'
    BY DEF WithoutAudit
  <2>2. HighIsUrgent /\ DiffIsRecorded /\ PendingDiffIsHeld
    BY <1>1, <2>1 DEF WithoutAudit
  <2>3. HighIsUrgent'
    BY <1>3, <1>4, <1>6, <1>8, <2>2 DEF HighIsUrgent
  <2>4. DiffIsRecorded'
    BY <1>6, <2>2 DEF DiffIsRecorded
  <2>5. PendingDiffIsHeld'
    <3>1. SUFFICES ASSUME NEW r \in Releases, index[r].diff = "pending", HeldForDiff(r)
                   PROVE  HeldForDiff(r)'
      BY <1>6, <2>2 DEF PendingDiffIsHeld
    <3>2. InHand(r) => HeldForDiff(r)'
      <4>1. InHand(r) => event.tier = "high" /\ event.release = r
        BY <1>1, <2>1, <3>1 DEF HighWaits, WaitingIsHigh, InHand, event
      <4>2. QED  BY <1>3, <1>8, <4>1 DEF HeldForDiff, Queued
    <3>3. QED  BY <1>6, <1>13, <3>1, <3>2 DEF HeldForDiff, Queued
  <2>6. QED  BY <2>3, <2>4, <2>5
<1>16. QED  BY <1>9, <1>10, <1>11, <1>12, <1>14, <1>15 DEF IInv

LEMMA AuditSendKeeps == ASSUME IInv, NEW r \in Releases, AuditSend(r)  PROVE IInv'
<1> DEFINE event == [release |-> r, tier |-> index[r].tier, graph |-> FALSE]
           e == Triaged(next_id, event, FALSE)
<1>1. /\ TypeInv /\ UniqueIds /\ StopOrder /\ HighWaits /\ PendingIsHeld
      /\ r \in audit_hand /\ index[r] \in Row /\ index[r] # NoRow
      /\ "audit" \in up /\ "capture" \in up /\ AuditEnabled
      /\ next_id \in Nat /\ capture_queue \in Seq(CaptureRequest)
  BY DEF IInv, TypeInv, QueueTypes, StoreTypes, ControlTypes, AuditSend, StopOrder
<1>2. /\ e \in CaptureRequest /\ e.id = next_id /\ e.event.release = r
  BY <1>1 DEF Triaged, CaptureRequest, Event, Row
<1>3. /\ capture_queue' = Append(capture_queue, e) /\ next_id' = next_id + 1
      /\ audit_hand' = audit_hand \ {r}
  BY DEF AuditSend
<1>4. UNCHANGED <<index, final, staging, hand, triage_queue, triages, captures, posts, diff_queue,
                  diffs, audited, intake, up, observations, abandoned, sweeps>>
  BY DEF AuditSend, OnlyAudit, evidence, inflight, control
<1> HIDE DEF event, e
<1>5. next_id \notin TriageSide \cup CaptureSide \cup DiffSide
  BY <1>1 DEF UniqueIds
<1>6. /\ capture_queue' \in Seq(CaptureRequest)
      /\ Elements(capture_queue') = Elements(capture_queue) \cup {e}
      /\ Distinct(capture_queue')
      /\ Ids(capture_queue') = Ids(capture_queue) \cup {next_id}
  <2>1. /\ capture_queue' \in Seq(CaptureRequest)
        /\ Elements(capture_queue') = Elements(capture_queue) \cup {e}
        /\ Distinct(capture_queue) /\ e.id \notin Ids(capture_queue) => Distinct(capture_queue')
    BY <1>1, <1>2, <1>3, AppendHolds
  <2>2. QED  BY <1>1, <1>2, <1>5, <2>1 DEF UniqueIds, CaptureSide, Ids
<1>7. TypeInv'
  <2>1. QueueTypes'
    BY <1>1, <1>4, <1>6 DEF TypeInv, QueueTypes
  <2>2. TaskTypes' /\ StoreTypes' /\ ControlTypes'
    BY <1>1, <1>3, <1>4 DEF TypeInv, TaskTypes, StoreTypes, ControlTypes
  <2>3. QED  BY <2>1, <2>2 DEF TypeInv
<1>8. UniqueIds'
  BY <1>1, <1>3, <1>4, <1>5, <1>6 DEF UniqueIds, BeforeDiff, TriageSide, CaptureSide, DiffSide
<1>9. StopOrder'
  BY <1>1, <1>4 DEF StopOrder
<1>10. HighWaits'
  BY <1>1, <1>2, <1>4, <1>6 DEF HighWaits, WaitingIsHigh
<1>11. PendingIsHeld'
  BY <1>1, <1>4, <1>6 DEF PendingIsHeld, HeldForCapture, InHand, Queued
<1>12. WithoutAudit'
  BY <1>1 DEF WithoutAudit
<1>13. QED  BY <1>7, <1>8, <1>9, <1>10, <1>11, <1>12 DEF IInv

\* Steps that leave the requests and the rows as they are.
LEMMA QuietKeeps ==
    ASSUME IInv,
           UNCHANGED <<index, final, hand, triage_queue, triages, capture_queue, captures, posts,
                       diff_queue, diffs, observations, next_id, abandoned>>,
           staging' \in [Releases -> SUBSET Files],
           \A x \in Releases : "diff" \in staging'[x] => "diff" \in staging[x],
           ControlTypes', StopOrder'
    PROVE  IInv'
<1>1. TypeInv /\ UniqueIds /\ HighWaits /\ PendingIsHeld /\ WithoutAudit
  BY DEF IInv
<1>2. TypeInv'
  BY <1>1 DEF TypeInv, QueueTypes, TaskTypes, StoreTypes
<1>3. UniqueIds'
  BY <1>1 DEF UniqueIds, BeforeDiff, TriageSide, CaptureSide, DiffSide
<1>4. HighWaits'
  BY <1>1 DEF HighWaits, WaitingIsHigh
<1>5. PendingIsHeld'
  BY <1>1 DEF PendingIsHeld, HeldForCapture, InHand, Queued
<1>6. WithoutAudit'
  <2>1. HighIsUrgent => HighIsUrgent'
    BY DEF HighIsUrgent
  <2>2. PendingDiffIsHeld => PendingDiffIsHeld'
    BY DEF PendingDiffIsHeld, HeldForDiff, InHand, Queued
  <2>3. DiffIsRecorded => DiffIsRecorded'
    BY DEF DiffIsRecorded
  <2>4. QED  BY <1>1, <2>1, <2>2, <2>3 DEF WithoutAudit
<1>7. QED  BY <1>2, <1>3, <1>4, <1>5, <1>6 DEF IInv

LEMMA ControlKeeps ==
    ASSUME IInv,
           \/ CloseIntake \/ AuditSelect \/ (\E r \in Releases : Sweep(r)) \/ ShutdownStep
           \/ UNCHANGED vars
    PROVE  IInv'
<1>1. TypeInv /\ StopOrder /\ ControlTypes /\ StoreTypes
  BY DEF IInv, TypeInv
<1>2. CASE CloseIntake
  <2>1. ControlTypes' /\ StopOrder'
    BY <1>1, <1>2 DEF CloseIntake, ControlTypes, StopOrder, evidence, channels, inflight, auditing,
       counters
  <2>2. QED
    BY <1>1, <1>2, <2>1, QuietKeeps
    DEF CloseIntake, StoreTypes, evidence, channels, inflight, auditing, counters
<1>3. CASE AuditSelect
  <2>1. \A r \in AuditCandidates : r \in Releases /\ index[r] # NoRow
    BY DEF AuditCandidates, NoRow
  <2>2. ControlTypes' /\ StopOrder'
    BY <1>1, <1>3, <2>1 DEF AuditSelect, ControlTypes, StopOrder, OnlyAudit, evidence, inflight,
       control
  <2>3. QED
    BY <1>1, <1>3, <2>2, QuietKeeps DEF AuditSelect, OnlyAudit, StoreTypes, evidence, inflight
<1>4. CASE \E r \in Releases : Sweep(r)
  <2>1. PICK r \in Releases : Sweep(r)
    BY <1>4
  <2>2. ControlTypes' /\ StopOrder'
    BY <1>1, <2>1, PipelineAssumption
    DEF Sweep, ControlTypes, StopOrder, channels, inflight, auditing, control, PipelineAssumption
  <2>3. /\ staging' \in [Releases -> SUBSET Files]
        /\ \A x \in Releases : "diff" \in staging'[x] => "diff" \in staging[x]
    BY <1>1, <2>1 DEF Sweep, StoreTypes
  <2>4. QED  BY <2>1, <2>2, <2>3, QuietKeeps DEF Sweep, channels, inflight
<1>5. CASE ShutdownStep
  <2>1. PICK worker \in up : MayStop(worker) /\ Stop(worker)
    BY <1>5 DEF ShutdownStep
  <2>2. worker \in {"main", "triage", "capture", "diff", "audit"}
    BY <1>1 DEF ControlTypes
  <2>3. /\ up' = up \ {worker}
        /\ UNCHANGED <<evidence, channels, inflight, auditing, intake, counters>>
    BY <2>1 DEF Stop
  <2>4. ControlTypes'
    BY <1>1, <2>3 DEF ControlTypes, evidence, auditing, counters
  <2>5. StopOrder'
    <3>1. CASE worker = "triage"
      <4>1. TriageDrained
        BY <2>1, <3>1 DEF MayStop
      <4>2. QED
        BY <1>1, <2>3, <3>1, <4>1 DEF StopOrder, TriageDrained, channels, inflight, auditing
    <3>2. CASE worker = "main"
      <4>1. "triage" \notin up
        BY <2>1, <3>2 DEF MayStop
      <4>2. QED  BY <1>1, <2>3, <3>2, <4>1 DEF StopOrder, channels, inflight, auditing
    <3>3. CASE worker = "capture"
      <4>1. CaptureDrained
        BY <2>1, <3>3 DEF MayStop
      <4>2. QED
        BY <1>1, <2>3, <3>3, <4>1 DEF StopOrder, CaptureDrained, Finishing, CaptureChannelClosed,
           channels, inflight, auditing
    <3>4. CASE worker = "diff"
      <4>1. DiffDrained
        BY <2>1, <3>4 DEF MayStop
      <4>2. QED
        BY <1>1, <2>3, <3>4, <4>1 DEF StopOrder, DiffDrained, channels, inflight, auditing
    <3>5. CASE worker = "audit"
      <4>1. AuditCancelled
        BY <2>1, <3>5 DEF MayStop
      <4>2. QED
        BY <1>1, <2>3, <3>5, <4>1 DEF StopOrder, AuditCancelled, channels, inflight, auditing
    <3>6. QED  BY <2>2, <3>1, <3>2, <3>3, <3>4, <3>5
  <2>6. QED
    BY <1>1, <2>3, <2>4, <2>5, QuietKeeps DEF StoreTypes, evidence, channels, inflight, counters
<1>6. CASE UNCHANGED vars
  <2>1. ControlTypes' /\ StopOrder'
    BY <1>1, <1>6 DEF ControlTypes, StopOrder, vars, evidence, channels, inflight, auditing, control,
       counters
  <2>2. QED
    BY <1>1, <1>6, <2>1, QuietKeeps DEF StoreTypes, vars, evidence, channels, inflight, counters
<1>7. QED  BY <1>2, <1>3, <1>4, <1>5, <1>6

-----------------------------------------------------------------------------
(* The theorems.                                                           *)

LEMMA InitHolds == Init => IInv
<1> SUFFICES ASSUME Init  PROVE IInv
  OBVIOUS
<1>1. /\ hand = <<>> /\ triage_queue = <<>> /\ capture_queue = <<>> /\ diff_queue = <<>>
      /\ DOMAIN triages = {} /\ DOMAIN captures = {} /\ DOMAIN posts = {} /\ DOMAIN diffs = {}
      /\ audit_hand = {} /\ audited = {} /\ intake = "open" /\ up = Workers
      /\ next_id = 1 /\ abandoned = {} /\ sweeps = 0
  BY DEF Init
<1>2. /\ index = [r \in Releases |-> NoRow] /\ final = [r \in Releases |-> {}]
      /\ staging = [r \in Releases |-> {}] /\ observations = [r \in Releases |-> 0]
  BY DEF Init
<1>3. /\ Elements(<<>>) = {} /\ Ids(<<>>) = {} /\ Distinct(<<>>)
  BY DEF Elements, Ids, Distinct
<1>4. TypeInv
  <2>1. QueueTypes /\ TaskTypes /\ StoreTypes
    BY <1>1, <1>2 DEF QueueTypes, TaskTypes, StoreTypes
  <2>2. up \subseteq {"main", "triage", "capture", "diff", "audit"}
    BY <1>1 DEF Workers
  <2>3. ControlTypes
    BY <1>1, <1>2, <2>2, PipelineAssumption DEF ControlTypes, PipelineAssumption
  <2>4. QED  BY <2>1, <2>3 DEF TypeInv
<1>5. UniqueIds
  BY <1>1, <1>3 DEF UniqueIds, BeforeDiff, TriageSide, CaptureSide, DiffSide
<1>6. StopOrder
  BY <1>1 DEF StopOrder, Workers
<1>7. HighWaits
  BY <1>1, <1>3 DEF HighWaits
<1>8. PendingIsHeld
  BY <1>2, NoRowIsNone DEF PendingIsHeld
<1>9. WithoutAudit
  BY <1>1, <1>2, <1>3, NoRowIsNone DEF WithoutAudit, HighIsUrgent, DiffIsRecorded, PendingDiffIsHeld
<1>10. QED  BY <1>4, <1>5, <1>6, <1>7, <1>8, <1>9 DEF IInv

LEMMA NextKeeps == IInv /\ [Next]_vars => IInv'
<1> SUFFICES ASSUME IInv, [Next]_vars  PROVE IInv'
  OBVIOUS
<1>1. TypeInv /\ UniqueIds /\ HighWaits
  BY DEF IInv
<1>2. ASSUME NEW event \in Feed, Observe(event)  PROVE IInv'
  BY <1>2, ObserveKeeps, PipelineAssumption
<1>3. CASE TriageStep
  BY <1>3, ReceiveTriageKeeps, TriageTaskKeeps DEF TriageStep, TriageTaskStep
<1>4. CASE CaptureStep
  <2>1. ASSUME NEW id \in DOMAIN captures, FetchStep(id)  PROVE IInv'
    BY <1>1, <2>1, JoinKeeps, FetchStepEffect, FetchKeeps
  <2>2. ASSUME NEW id \in DOMAIN posts, PostStep(id)  PROVE IInv'
    BY <1>1, <2>2, JoinKeeps, PostStepEffect, PostKeeps
  <2>3. \/ ReceiveCapture
        \/ \E id \in DOMAIN captures : FetchStep(id)
        \/ \E id \in DOMAIN posts : PostStep(id)
    BY <1>4 DEF CaptureStep, FetchStep, PostStep
  <2>4. QED  BY <2>1, <2>2, <2>3, ReceiveCaptureKeeps
<1>5. CASE DiffStep
  <2>1. ASSUME NEW id \in DOMAIN diffs, DiffTaskStep(id)  PROVE IInv'
    BY <1>1, <2>1, DiffStepEffect, DiffKeeps
  <2>2. ReceiveDiff \/ \E id \in DOMAIN diffs : DiffTaskStep(id)
    BY <1>5 DEF DiffStep, DiffTaskStep
  <2>3. QED  BY <2>1, <2>2, ReceiveDiffKeeps
<1>6. ASSUME NEW r \in Releases, AuditSend(r)  PROVE IInv'
  BY <1>6, AuditSendKeeps
<1>7. CASE Dispatch
  BY <1>7, DispatchKeeps
<1>8. CASE \/ CloseIntake \/ AuditSelect \/ (\E r \in Releases : Sweep(r)) \/ ShutdownStep
           \/ UNCHANGED vars
  BY <1>8, ControlKeeps
<1>9. QED  BY <1>2, <1>3, <1>4, <1>5, <1>6, <1>7, <1>8 DEF Next, Stopped

\* The runtime's variables have their types, for any releases, limits and
\* number of observations.
THEOREM TypeCorrect == Spec => []TypeOK
<1>1. IInv => TypeOK
  BY DEF IInv, TypeInv, QueueTypes, TaskTypes, StoreTypes, ControlTypes, TypeOK, TriageTask,
     FetchTask, PostTask, DiffTask
<1>2. QED  BY <1>1, InitHolds, NextKeeps, PTL DEF Spec

\* When the capture worker has stopped, no observed release is left with a
\* pending capture, save those whose triage ended in an error: somebody always
\* has the release in hand, and the worker stops last of those (lib.rs 272-300).
\* (With the audit on, it does not stop: runtime_shutdown_audit.)
THEOREM CapturesAreResolved == Spec => []CapturesResolved
<1>1. IInv => CapturesResolved
  <2>1. SUFFICES ASSUME IInv, "capture" \notin up, NEW r \in Releases, index[r].capture = "pending"
                 PROVE  r \in abandoned
    BY DEF CapturesResolved
  <2>2. /\ hand = <<>> /\ triage_queue = <<>> /\ capture_queue = <<>>
        /\ DOMAIN triages = {} /\ DOMAIN captures = {} /\ DOMAIN posts = {}
    BY <2>1 DEF IInv, StopOrder
  <2>3. Elements(<<>>) = {}
    BY DEF Elements
  <2>4. ~HeldForCapture(r)
    BY <2>2, <2>3 DEF HeldForCapture, InHand, Queued
  <2>5. QED  BY <2>1, <2>4 DEF IInv, PendingIsHeld
<1>2. QED  BY <1>1, InitHolds, NextKeeps, PTL DEF Spec

\* When the diff worker has stopped, a diff is pending only where the capture
\* failed, however often and with whatever tiers a release was observed. (With
\* the audit on, the diff worker does not stop: runtime_shutdown_audit.)
THEOREM DiffsAreResolved == Spec => []DiffsResolved
<1>1. IInv => DiffsResolved
  <2>1. SUFFICES ASSUME IInv, "diff" \notin up, NEW r \in Releases, index[r].diff = "pending"
                 PROVE  index[r].capture = "failed"
    BY DEF DiffsResolved
  <2>2. /\ ~AuditEnabled /\ hand = <<>> /\ capture_queue = <<>> /\ diff_queue = <<>>
        /\ DOMAIN captures = {} /\ DOMAIN posts = {} /\ DOMAIN diffs = {}
    BY <2>1 DEF IInv, StopOrder
  <2>3. Elements(<<>>) = {}
    BY DEF Elements
  <2>4. ~HeldForDiff(r)
    BY <2>2, <2>3 DEF HeldForDiff, InHand, Queued
  <2>5. QED  BY <2>1, <2>2, <2>4 DEF IInv, WithoutAudit, PendingDiffIsHeld
<1>2. QED  BY <1>1, InitHolds, NextKeeps, PTL DEF Spec

=============================================================================
