--------------------------- MODULE EvidenceProofs ----------------------------
(***************************************************************************)
(* Proofs about Runtime where every release is observed once, which the    *)
(* dedupe window of the sources is there for: one worker at a time acts on *)
(* a release, and what the index says of its evidence is so.  (With        *)
(* repeated observations it need not be: runtime_repeats_evidence.)        *)
(***************************************************************************)
EXTENDS RuntimeProofs

\* What the queues and the JoinSets hold of one release.
OfRelease(q, r) == {e \in Elements(q) : e.event.release = r}

TasksOf(set, r) == {id \in DOMAIN set : set[id].request.event.release = r}

\* The requests on a release that wait for their turn, or for triage to look
\* at its row, and the tiers of their events.
PassiveIds(r) ==
    {e.id : e \in OfRelease(triage_queue, r)}
    \cup {id \in TasksOf(triages, r) : triages[id].pc = "check"}

Passive(r) == InHand(r) \/ PassiveIds(r) # {}

PassiveTiers(r) ==
    {tier \in Tiers :
        \/ InHand(r) /\ Head(hand).tier = tier
        \/ \E e \in OfRelease(triage_queue, r) : e.event.tier = tier
        \/ \E id \in TasksOf(triages, r) :
               triages[id].pc = "check" /\ triages[id].request.event.tier = tier}

\* The requests on a release that some worker is acting on.
TriageHolders(r) == {id \in TasksOf(triages, r) : triages[id].pc # "check"}

CaptureHolders(r) ==
    {e.id : e \in OfRelease(capture_queue, r)}
    \cup {id \in TasksOf(captures, r) : captures[id].pc # "none"}
    \cup {id \in TasksOf(posts, r) : posts[id].pc # "none"}

DiffHolders(r) == {e.id : e \in OfRelease(diff_queue, r)} \cup TasksOf(diffs, r)

Holders(r) == TriageHolders(r) \cup CaptureHolders(r) \cup DiffHolders(r)

-----------------------------------------------------------------------------
(* The invariant, for one release.                                         *)

Dropped == {"triage", "post_analysis"}

SkippedByPolicy(r) == index[r].capture = "skipped" /\ index[r].capture_reason = "policy"

\* One request at a time is acted on, and one waits.
Alone(r) ==
    /\ \A i, j \in Holders(r) : i = j
    /\ \A i, j \in PassiveIds(r) : i = j
    /\ InHand(r) => PassiveIds(r) = {}

\* A row and its directories, whoever has them.
RowOK(r) ==
    /\ index[r].capture_reason \in Dropped => index[r].capture = "skipped"
    /\ index[r].capture = "ready" => "capture" \in final[r]
    /\ index[r].diff = "ready" => index[r].capture = "ready" /\ "diff" \in final[r]
    /\ observations[r] = 0 =>
           index[r] = NoRow /\ final[r] = {} /\ staging[r] = {} /\ r \notin audited

\* What the audit takes up, or may, nobody has touched.
AuditOK(r) ==
    r \in audit_hand \/ (r \notin audited /\ SkippedByPolicy(r)) =>
        SkippedByPolicy(r) /\ Holders(r) = {} /\ final[r] = {}

\* Once the capture worker is done.
CleanOK(r) ==
    CaptureHolders(r) = {} =>
        /\ index[r].capture = "ready" => "scan" \in final[r] /\ staging[r] = {}
        /\ index[r].capture_reason = "post_analysis" =>
               staging[r] = {} /\ "capture" \notin final[r]

\* Only a release of low priority, which the policy skips, may be in the hands
\* of the audit while its event waits.
PassiveOK(r, tier) ==
    /\ tier # "low" =>
           /\ index[r].capture = "pending" /\ r \notin audited
           /\ final[r] = {} /\ staging[r] = {} /\ Holders(r) = {}
    /\ tier = "low" =>
           /\ index[r].capture # "pending"
           /\ index[r].capture = "failed" => final[r] = {} /\ Holders(r) = {}

TriageOK(r) == index[r].capture \in {"pending", "failed"} /\ final[r] = {}

\* A capture request: no diff before it, and nothing waits behind a permanent
\* one.
CarryOK(r, retention) ==
    /\ index[r].diff # "ready"
    /\ retention = "permanent" => staging[r] = {} /\ ~Passive(r)

QueuedOK(r, retention) ==
    /\ CarryOK(r, retention) /\ final[r] = {}
    /\ index[r].capture # "ready" /\ index[r].capture_reason \notin Dropped

\* A fetch finds no earlier capture, and brings the first.
FetchOK(r, task) ==
    LET ephemeral == task.request.retention = "ephemeral"
    IN  /\ CarryOK(r, task.request.retention) /\ index[r].capture_reason \notin Dropped
        /\ task.pc \notin {"index", "notify"}
        /\ task.pc \in {"check", "clear", "create"} => final[r] = {}
        /\ task.pc = "clear" => ephemeral
        /\ ephemeral => final[r] = {} /\ index[r].capture # "ready" /\ task.pc # "record"
        /\ ~ephemeral /\ task.pc \in {"record", "fetched"} => "capture" \in final[r]

Kept == {"record", "bundle", "notify"}

\* An analysis scans the workspace before it decides, and what it keeps is in
\* the final directory.
PostOK(r, task) ==
    LET ephemeral == task.request.retention = "ephemeral"
    IN  /\ CarryOK(r, task.request.retention)
        /\ index[r].capture_reason \in Dropped => task.pc = "discard"
        /\ task.pc \in Discarding => ephemeral
        /\ ephemeral /\ task.pc \notin Kept => final[r] = {} /\ index[r].capture # "ready"
        /\ ephemeral /\ task.pc \in {"decide", "promote", "rename"} /\ "dir" \in staging[r] =>
               {"capture", "scan"} \subseteq staging[r]
        /\ ~ephemeral /\ task.pc # "failed" => "capture" \in final[r]
        /\ ~ephemeral /\ task.pc = "decide" => "scan" \in final[r]
        /\ task.pc \in Kept => {"capture", "scan"} \subseteq final[r] /\ staging[r] = {}
        /\ task.pc \in {"bundle", "notify"} => index[r].capture = "ready"

\* The diff worker meets analysed captures only.
Analysed(r) ==
    /\ index[r].capture = "ready"
    /\ {"capture", "scan"} \subseteq final[r] /\ staging[r] = {}

DiffOK(r, task) ==
    /\ Analysed(r)
    /\ task.pc = "rewrite" => task.scanned
    /\ task.pc = "record" => "diff" \in final[r]

PassivesOK(r) == \A tier \in PassiveTiers(r) : PassiveOK(r, tier)

HoldersOK(r) ==
    /\ TriageHolders(r) # {} => TriageOK(r)
    /\ \A e \in OfRelease(capture_queue, r) : QueuedOK(r, e.retention)
    /\ \A id \in TasksOf(captures, r) : captures[id].pc # "none" => FetchOK(r, captures[id])
    /\ \A id \in TasksOf(posts, r) : posts[id].pc # "none" => PostOK(r, posts[id])
    /\ OfRelease(diff_queue, r) # {} => Analysed(r)
    /\ \A id \in TasksOf(diffs, r) : DiffOK(r, diffs[id])

InCustody(r) ==
    /\ Alone(r) /\ RowOK(r) /\ AuditOK(r) /\ CleanOK(r)
    /\ PassivesOK(r) /\ HoldersOK(r)

Custody == \A r \in Releases : InCustody(r)

-----------------------------------------------------------------------------
(* What happens to one release, and what does not happen to the others.    *)

Same(set, new, r) ==
    /\ TasksOf(new, r) = TasksOf(set, r)
    /\ \A id \in TasksOf(set, r) : new[id] = set[id]

\* The step is not about the release.
Untouched(r) ==
    /\ index'[r] = index[r] /\ final'[r] = final[r] /\ staging'[r] = staging[r]
    /\ observations'[r] = observations[r]
    /\ (r \in audited') = (r \in audited) /\ (r \in audit_hand') = (r \in audit_hand)
    /\ hand' = hand \/ (~InHand(r) /\ ~InHand(r)')
    /\ OfRelease(triage_queue', r) = OfRelease(triage_queue, r)
    /\ OfRelease(capture_queue', r) = OfRelease(capture_queue, r)
    /\ OfRelease(diff_queue', r) = OfRelease(diff_queue, r)
    /\ Same(triages, triages', r) /\ Same(captures, captures', r)
    /\ Same(posts, posts', r) /\ Same(diffs, diffs', r)

LEMMA PassivesStay ==
    ASSUME NEW r, hand' = hand \/ (~InHand(r) /\ ~InHand(r)'),
           OfRelease(triage_queue', r) = OfRelease(triage_queue, r), Same(triages, triages', r)
    PROVE  /\ InHand(r)' = InHand(r) /\ PassiveIds(r)' = PassiveIds(r)
           /\ Passive(r)' = Passive(r) /\ PassiveTiers(r)' = PassiveTiers(r)
           /\ TriageHolders(r)' = TriageHolders(r)
<1>1. InHand(r)' = InHand(r)
  BY DEF InHand
<1>2. PassiveIds(r)' = PassiveIds(r) /\ TriageHolders(r)' = TriageHolders(r)
  BY DEF PassiveIds, TriageHolders, Same
<1>3. InHand(r) => Head(hand)' = Head(hand)
  OBVIOUS
<1>4. PassiveTiers(r)' = PassiveTiers(r)
  BY <1>1, <1>3 DEF PassiveTiers, Same
<1>5. QED  BY <1>1, <1>2, <1>4 DEF Passive

LEMMA UntouchedStays ==
    ASSUME NEW r, Untouched(r), InCustody(r)
    PROVE  InCustody(r)'
<1>1. /\ InHand(r)' = InHand(r) /\ PassiveIds(r)' = PassiveIds(r)
      /\ Passive(r)' = Passive(r) /\ PassiveTiers(r)' = PassiveTiers(r)
      /\ TriageHolders(r)' = TriageHolders(r)
  BY PassivesStay DEF Untouched
<1>2. CaptureHolders(r)' = CaptureHolders(r) /\ DiffHolders(r)' = DiffHolders(r)
  BY DEF Untouched, Same, CaptureHolders, DiffHolders
<1>3. Holders(r)' = Holders(r)
  BY <1>1, <1>2 DEF Holders
<1>4. (Alone(r) /\ RowOK(r) /\ AuditOK(r) /\ CleanOK(r))'
  BY <1>1, <1>2, <1>3 DEF InCustody, Alone, RowOK, AuditOK, CleanOK, SkippedByPolicy, Untouched
<1>5. PassivesOK(r)'
  BY <1>1, <1>3 DEF InCustody, PassivesOK, PassiveOK, Untouched
<1>6. HoldersOK(r)'
  <2>1. /\ index'[r] = index[r] /\ final'[r] = final[r] /\ staging'[r] = staging[r]
        /\ OfRelease(capture_queue', r) = OfRelease(capture_queue, r)
        /\ OfRelease(diff_queue', r) = OfRelease(diff_queue, r)
        /\ Same(captures, captures', r) /\ Same(posts, posts', r) /\ Same(diffs, diffs', r)
        /\ HoldersOK(r)
    BY DEF Untouched, InCustody
  <2>2. TriageOK(r)' = TriageOK(r) /\ Analysed(r)' = Analysed(r)
    BY <2>1 DEF TriageOK, Analysed
  <2>3. \A e \in OfRelease(capture_queue, r) : QueuedOK(r, e.retention)'
    BY <1>1, <2>1 DEF HoldersOK, QueuedOK, CarryOK
  <2>4. \A id \in TasksOf(captures, r) : captures[id].pc # "none" => FetchOK(r, captures[id])'
    BY <1>1, <2>1 DEF HoldersOK, FetchOK, CarryOK, Same
  <2>5. \A id \in TasksOf(posts, r) : posts[id].pc # "none" => PostOK(r, posts[id])'
    BY <1>1, <2>1 DEF HoldersOK, PostOK, CarryOK, Same
  <2>6. \A id \in TasksOf(diffs, r) : DiffOK(r, diffs[id])'
    BY <2>1, <2>2 DEF HoldersOK, DiffOK, Same
  <2>7. QED  BY <1>1, <2>1, <2>2, <2>3, <2>4, <2>5, <2>6 DEF HoldersOK, Same
<1>7. QED  BY <1>4, <1>5, <1>6 DEF InCustody

LEMMA TiersArePassive ==
    ASSUME NEW r, NEW tier \in PassiveTiers(r)
    PROVE  Passive(r)
<1>1. CASE InHand(r)
  BY <1>1 DEF Passive
<1>2. CASE \E e \in OfRelease(triage_queue, r) : e.event.tier = tier
  <2>1. PICK e \in OfRelease(triage_queue, r) : e.event.tier = tier
    BY <1>2
  <2>2. e.id \in PassiveIds(r)
    BY DEF PassiveIds
  <2>3. QED  BY <2>2 DEF Passive
<1>3. CASE \E id \in TasksOf(triages, r) : triages[id].pc = "check"
  BY <1>3 DEF Passive, PassiveIds
<1>4. QED  BY <1>1, <1>2, <1>3 DEF PassiveTiers

\* Whoever holds a release goes on with it: what is left to show is that the
\* row, the directories and the request fit.
LEMMA HolderGoesOn ==
    ASSUME NEW r, InCustody(r), Holders(r) # {}, Holders(r)' \subseteq Holders(r),
           observations[r] # 0,
           UNCHANGED <<observations, hand, triage_queue, audited, audit_hand>>,
           PassiveIds(r)' = PassiveIds(r), PassiveTiers(r)' = PassiveTiers(r),
           SkippedByPolicy(r)' => SkippedByPolicy(r),
           index'[r].capture = "pending" => index[r].capture = "pending",
           Passive(r) /\ index'[r].capture = "failed" => Holders(r)' = {} /\ final'[r] = {},
           index'[r].capture_reason \in Dropped => index'[r].capture = "skipped",
           index'[r].capture = "ready" => "capture" \in final'[r],
           index'[r].diff = "ready" => index'[r].capture = "ready" /\ "diff" \in final'[r],
           CleanOK(r)', HoldersOK(r)'
    PROVE  InCustody(r)'
<1>1. InHand(r)' = InHand(r) /\ Passive(r)' = Passive(r)
  BY DEF InHand, Passive
<1>2. Alone(r)'
  BY <1>1 DEF InCustody, Alone
<1>3. RowOK(r)'
  BY DEF RowOK
<1>4. AuditOK(r)'
  BY DEF InCustody, AuditOK
<1>5. PassivesOK(r)'
  <2>1. SUFFICES ASSUME NEW tier \in PassiveTiers(r)  PROVE PassiveOK(r, tier)'
    BY DEF PassivesOK
  <2>2. tier \in PassiveTiers(r) /\ PassiveOK(r, tier)
    BY DEF InCustody, PassivesOK
  <2>3. Passive(r)
    BY <2>2, TiersArePassive
  <2>4. tier = "low" /\ index[r].capture # "pending"
    BY <2>2 DEF PassiveOK
  <2>5. QED  BY <2>2, <2>3, <2>4 DEF PassiveOK
<1>6. QED  BY <1>2, <1>3, <1>4, <1>5 DEF InCustody

LEMMA WaitingHasTier ==
    ASSUME TypeInv, NEW r \in Releases, InCustody(r), Holders(r) # {}, Passive(r)
    PROVE  index[r].capture \notin {"failed", "pending"}
<1>1. \E tier \in Tiers : tier \in PassiveTiers(r)
  <2>1. CASE InHand(r)
    <3>1. Head(hand) \in Event
      BY <2>1 DEF TypeInv, QueueTypes, InHand
    <3>2. QED  BY <2>1, <3>1 DEF PassiveTiers, Event
  <2>2. CASE OfRelease(triage_queue, r) # {}
    <3>1. PICK e \in OfRelease(triage_queue, r) : TRUE
      BY <2>2
    <3>2. e \in TriageRequest
      BY DEF TypeInv, QueueTypes, OfRelease, Elements
    <3>3. e.event.tier \in Tiers
      BY <3>2 DEF TriageRequest, Event
    <3>4. QED  BY <3>3 DEF PassiveTiers
  <2>3. CASE \E id \in TasksOf(triages, r) : triages[id].pc = "check"
    <3>1. PICK id \in TasksOf(triages, r) : triages[id].pc = "check"
      BY <2>3
    <3>2. triages[id].request.event.tier \in Tiers
      BY DEF TypeInv, TaskTypes, TasksOf, TriageTask, TriageRequest, Event
    <3>3. QED  BY <3>1, <3>2 DEF PassiveTiers
  <2>4. QED  BY <2>1, <2>2, <2>3 DEF Passive, PassiveIds
<1>2. PICK tier \in Tiers : tier \in PassiveTiers(r)
  BY <1>1
<1>3. PassiveOK(r, tier)
  BY <1>2 DEF InCustody, PassivesOK
<1>4. QED  BY <1>3 DEF PassiveOK

-----------------------------------------------------------------------------
(* Who holds a release is alone with it.                                   *)

LEMMA FetchIsAlone ==
    ASSUME UniqueIds, NEW r, InCustody(r), NEW id \in TasksOf(captures, r),
           captures[id].pc # "none"
    PROVE  /\ TriageHolders(r) = {} /\ OfRelease(capture_queue, r) = {}
           /\ \A i \in TasksOf(captures, r) \ {id} : captures[i].pc = "none"
           /\ \A i \in TasksOf(posts, r) : posts[i].pc = "none"
           /\ OfRelease(diff_queue, r) = {} /\ TasksOf(diffs, r) = {}
           /\ Holders(r) = {id} /\ FetchOK(r, captures[id])
<1>1. id \in CaptureHolders(r) /\ id \in Holders(r)
  BY DEF CaptureHolders, Holders
<1>2. \A i \in Holders(r) : i = id
  BY <1>1 DEF InCustody, Alone
<1>3. /\ id \notin Ids(capture_queue) /\ id \notin DOMAIN posts /\ id \notin TriageSide
      /\ id \notin DiffSide
  <2>1. id \in BeforeDiff /\ id \in CaptureSide /\ id \in DOMAIN captures
    BY DEF BeforeDiff, CaptureSide, TasksOf
  <2>2. QED  BY <2>1 DEF UniqueIds
<1>4. \A q : \A e \in OfRelease(q, r) : e.id \in Ids(q)
  BY DEF OfRelease, Ids
<1>5. TriageHolders(r) = {}
  BY <1>2, <1>3 DEF Holders, TriageHolders, TriageSide, TasksOf
<1>6. OfRelease(capture_queue, r) = {}
  BY <1>2, <1>3, <1>4 DEF Holders, CaptureHolders
<1>7. \A i \in TasksOf(captures, r) \ {id} : captures[i].pc = "none"
  BY <1>2 DEF Holders, CaptureHolders
<1>8. \A i \in TasksOf(posts, r) : posts[i].pc = "none"
  BY <1>2, <1>3 DEF Holders, CaptureHolders, TasksOf
<1>9. OfRelease(diff_queue, r) = {}
  BY <1>2, <1>3, <1>4 DEF Holders, DiffHolders, DiffSide
<1>10. TasksOf(diffs, r) = {}
  BY <1>2, <1>3 DEF Holders, DiffHolders, DiffSide, TasksOf
<1>11. QED
  BY <1>1, <1>2, <1>5, <1>6, <1>7, <1>8, <1>9, <1>10 DEF InCustody, HoldersOK

LEMMA PostIsAlone ==
    ASSUME UniqueIds, NEW r, InCustody(r), NEW id \in TasksOf(posts, r), posts[id].pc # "none"
    PROVE  /\ TriageHolders(r) = {} /\ OfRelease(capture_queue, r) = {}
           /\ \A i \in TasksOf(captures, r) : captures[i].pc = "none"
           /\ \A i \in TasksOf(posts, r) \ {id} : posts[i].pc = "none"
           /\ OfRelease(diff_queue, r) = {} /\ TasksOf(diffs, r) = {}
           /\ Holders(r) = {id} /\ PostOK(r, posts[id])
<1>1. id \in CaptureHolders(r) /\ id \in Holders(r)
  BY DEF CaptureHolders, Holders
<1>2. \A i \in Holders(r) : i = id
  BY <1>1 DEF InCustody, Alone
<1>3. /\ id \notin Ids(capture_queue) /\ id \notin DOMAIN captures /\ id \notin TriageSide
      /\ id \notin DiffSide
  <2>1. id \in BeforeDiff /\ id \in CaptureSide /\ id \in DOMAIN posts
    BY DEF BeforeDiff, CaptureSide, TasksOf
  <2>2. QED  BY <2>1 DEF UniqueIds
<1>4. \A q : \A e \in OfRelease(q, r) : e.id \in Ids(q)
  BY DEF OfRelease, Ids
<1>5. TriageHolders(r) = {}
  BY <1>2, <1>3 DEF Holders, TriageHolders, TriageSide, TasksOf
<1>6. OfRelease(capture_queue, r) = {}
  BY <1>2, <1>3, <1>4 DEF Holders, CaptureHolders
<1>7. \A i \in TasksOf(captures, r) : captures[i].pc = "none"
  BY <1>2, <1>3 DEF Holders, CaptureHolders, TasksOf
<1>8. \A i \in TasksOf(posts, r) \ {id} : posts[i].pc = "none"
  BY <1>2 DEF Holders, CaptureHolders
<1>9. OfRelease(diff_queue, r) = {}
  BY <1>2, <1>3, <1>4 DEF Holders, DiffHolders, DiffSide
<1>10. TasksOf(diffs, r) = {}
  BY <1>2, <1>3 DEF Holders, DiffHolders, DiffSide, TasksOf
<1>11. QED
  BY <1>1, <1>2, <1>5, <1>6, <1>7, <1>8, <1>9, <1>10 DEF InCustody, HoldersOK

LEMMA DiffIsAlone ==
    ASSUME UniqueIds, NEW r, InCustody(r), NEW id \in TasksOf(diffs, r)
    PROVE  /\ TriageHolders(r) = {} /\ CaptureHolders(r) = {}
           /\ OfRelease(diff_queue, r) = {} /\ TasksOf(diffs, r) = {id}
           /\ Holders(r) = {id} /\ DiffOK(r, diffs[id])
<1>1. id \in DiffHolders(r) /\ id \in Holders(r)
  BY DEF DiffHolders, Holders
<1>2. \A i \in Holders(r) : i = id
  BY <1>1 DEF InCustody, Alone
<1>3. id \notin Ids(diff_queue) /\ id \notin BeforeDiff
  <2>1. id \in DiffSide /\ id \in DOMAIN diffs
    BY DEF DiffSide, TasksOf
  <2>2. QED  BY <2>1 DEF UniqueIds
<1>4. \A q : \A e \in OfRelease(q, r) : e.id \in Ids(q)
  BY DEF OfRelease, Ids
<1>5. TriageHolders(r) \subseteq BeforeDiff /\ CaptureHolders(r) \subseteq BeforeDiff
  BY <1>4 DEF TriageHolders, CaptureHolders, BeforeDiff, TriageSide, TasksOf
<1>6. TriageHolders(r) = {} /\ CaptureHolders(r) = {}
  BY <1>2, <1>3, <1>5 DEF Holders
<1>7. OfRelease(diff_queue, r) = {}
  BY <1>2, <1>3, <1>4 DEF Holders, DiffHolders
<1>8. TasksOf(diffs, r) = {id}
  BY <1>2 DEF Holders, DiffHolders
<1>9. QED  BY <1>1, <1>2, <1>6, <1>7, <1>8 DEF InCustody, HoldersOK

-----------------------------------------------------------------------------
(* The writes to a row, and what they say of the evidence.                 *)

LEMMA ReadyRow ==
    ASSUME NEW row \in Row, NEW tier \in Tiers
    PROVE  /\ LET new == RecordCapture(row, "observed", tier)
              IN  /\ new.capture = "ready" /\ new.capture_reason = "none"
                  /\ new.diff = "ready" => row.diff = "ready"
           /\ LET new == RecordDiff(row, "observed", tier)
              IN  row.capture = "ready" =>
                      new.capture = "ready" /\ new.capture_reason = row.capture_reason
<1> DEFINE up0 == UpsertEventRow(row, "observed", tier)
<1>1. /\ up0 \in Row /\ up0 # NoRow
      /\ up0.diff = "ready" => row.diff = "ready"
      /\ row.capture = "ready" => up0.capture = "ready" /\ up0.capture_reason = row.capture_reason
  <2>1. up0 \in Row /\ up0 # NoRow
    BY UpsertRow, NoRowIsNone
  <2>2. QED
    BY <2>1 DEF UpsertEventRow, Row, Settled, JobStates, DefaultDiffState
<1> HIDE DEF up0
<1>2. /\ SetCapture(up0, "ready", "none") = [up0 EXCEPT !.capture = "ready", !.capture_reason = "none"]
      /\ SetDiff(up0, "ready", "none") = [up0 EXCEPT !.diff = "ready", !.diff_reason = "none"]
  BY <1>1 DEF SetCapture, SetDiff
<1>3. QED  BY <1>1, <1>2 DEF RecordCapture, RecordDiff, up0, Row

LEMMA MarkedRow ==
    ASSUME NEW row \in Row
    PROVE  /\ \A reason :
                  LET new == MarkCaptureSkipped(row, reason)
                  IN  /\ new.capture = "skipped" /\ new.capture_reason = reason
                      /\ new.diff = row.diff
           /\ LET new == MarkCaptureFailed(row)
              IN  /\ new.capture = "failed" /\ new.capture_reason = "error"
                  /\ new.diff = row.diff
           /\ \A new \in {MarkDiffSkipped(row), MarkDiffFailed(row)} :
                  /\ new.capture = row.capture /\ new.capture_reason = row.capture_reason
                  /\ new.diff # "ready"
<1>1. row # NoRow
  BY NoRowIsNone
<1>2. /\ \A reason : LET new == MarkCaptureSkipped(row, reason)
                     IN  /\ new.capture = "skipped" /\ new.capture_reason = reason
                         /\ new.diff = row.diff
      /\ LET new == MarkCaptureFailed(row)
         IN  /\ new.capture = "failed" /\ new.capture_reason = "error" /\ new.diff = row.diff
  BY <1>1 DEF MarkCaptureSkipped, MarkCaptureFailed, SetCapture, Row
<1>3. \A new \in {MarkDiffSkipped(row), MarkDiffFailed(row)} :
          /\ new.capture = row.capture /\ new.capture_reason = row.capture_reason
          /\ new.diff # "ready"
  BY <1>1 DEF MarkDiffSkipped, MarkDiffFailed, SetDiff, Row
<1>4. QED  BY <1>2, <1>3

\* A row that is written for a release that has one.
LEMMA WrittenRow ==
    ASSUME StoreTypes, NEW r \in Releases, NEW new, Write(r, new)
    PROVE  index'[r] = new /\ \A x \in Releases \ {r} : index'[x] = index[x]
BY DEF StoreTypes, Write

-----------------------------------------------------------------------------
(* A fetch.                                                                *)

OthersKeepFiles(r) ==
    \A x \in Releases \ {r} : final'[x] = final[x] /\ staging'[x] = staging[x]

FetchOutcome(r, id) ==
    /\ diff_queue' = diff_queue /\ OthersKeepFiles(r)
    /\ index'[r].capture_reason \in Dropped => index'[r].capture = "skipped"
    /\ index'[r].capture = "ready" => "capture" \in final'[r]
    /\ index'[r].diff # "ready"
    /\ SkippedByPolicy(r)' => SkippedByPolicy(r)
    /\ \/ /\ captures'[id].pc # "none" /\ FetchOK(r, captures[id])'
          /\ index'[r].capture = "failed" => index[r].capture = "failed"
       \/ /\ captures'[id].pc = "none" /\ final'[r] = final[r]
          /\ index'[r].capture = "failed" /\ index'[r].capture_reason = "error"

LEMMA FetchHasOutcome ==
    ASSUME TypeInv, HighWaits, NEW r \in Releases, InCustody(r),
           NEW id \in TasksOf(captures, r), captures[id].pc # "none",
           FetchOK(r, captures[id]), Passive(r)' = Passive(r), FetchStep(id), ~JoinCapture(id)
    PROVE  FetchOutcome(r, id)
<1> DEFINE request == captures[id].request
           ephemeral == request.retention = "ephemeral"
<1>1. /\ captures[id] \in FetchTask /\ id \in DOMAIN captures
      /\ CaptureRequestOf(id) = request /\ CaptureEvent(id) = request.event
      /\ CaptureRelease(id) = r /\ Ephemeral(id) = ephemeral
      /\ request.retention \in {"permanent", "ephemeral"}
      /\ request.event.tier \in Tiers /\ index[r] \in Row
  BY DEF TypeInv, TaskTypes, StoreTypes, FetchTask, CaptureRequestOf, CaptureRelease, CaptureEvent,
     CaptureRequest, Event, HighWaits, WaitingIsHigh, TasksOf, Ephemeral
<1>2. StoreTypes
  BY DEF TypeInv
<1>3. \A pc : GoFetch(id, pc) => captures'[id].pc = pc /\ captures'[id].request = request
  BY <1>1 DEF GoFetch, FetchTask
<1>4. FetchOK(r, captures[id]) /\ CarryOK(r, request.retention) /\ RowOK(r)
  BY DEF FetchOK, InCustody
<1>5. CASE CheckFinal(id)
  <2>1. captures'[id].pc = IF ephemeral THEN "clear" ELSE "create"
    BY <1>1, <1>3, <1>4, <1>5 DEF CheckFinal, At, FetchOK
  <2>2. captures'[id].request = request /\ UNCHANGED <<index, final, staging, diff_queue>>
    BY <1>3, <1>5 DEF CheckFinal, NoChannel, evidence
  <2>3. QED
    BY <1>1, <1>4, <1>5, <2>1, <2>2
    DEF CheckFinal, At, FetchOutcome, OthersKeepFiles, FetchOK, CarryOK, RowOK, SkippedByPolicy
<1>6. CASE IndexExisting(id) \/ NotifyExisting(id)
  BY <1>4, <1>6 DEF FetchOK, IndexExisting, NotifyExisting, At
<1>7. CASE ClearStaging(id)
  <2>1. /\ captures'[id].pc = "create" /\ captures'[id].request = request
        /\ captures[id].pc = "clear"
        /\ UNCHANGED <<index, final, diff_queue>> /\ OthersKeepFiles(r)
        /\ staging'[r] = {}
    BY <1>1, <1>2, <1>3, <1>7 DEF ClearStaging, NoChannel, OthersKeepFiles, StoreTypes, At
  <2>2. QED
    BY <1>1, <1>4, <2>1 DEF FetchOutcome, FetchOK, CarryOK, RowOK, SkippedByPolicy
<1>8. CASE CreateWorkspace(id)
  <2>1. /\ captures'[id].pc = "fetch" /\ captures'[id].request = request
        /\ captures[id].pc = "create"
        /\ UNCHANGED <<index, diff_queue>> /\ OthersKeepFiles(r)
        /\ ephemeral => final'[r] = final[r]
        /\ ~ephemeral => final'[r] = final[r] \cup {"dir"} /\ staging'[r] = staging[r]
    BY <1>1, <1>2, <1>3, <1>8
    DEF CreateWorkspace, SetWorkspace, Workspace, NoChannel, OthersKeepFiles, StoreTypes, At
  <2>2. QED
    BY <1>1, <1>4, <2>1 DEF FetchOutcome, FetchOK, CarryOK, RowOK, SkippedByPolicy
<1>9. CASE Fetch(id)
  <2>1. /\ captures'[id].pc = (IF ephemeral THEN "fetched" ELSE "record")
        /\ captures'[id].request = request /\ captures[id].pc = "fetch"
        /\ UNCHANGED <<index, diff_queue>> /\ OthersKeepFiles(r)
        /\ ephemeral => final'[r] = final[r]
        /\ ~ephemeral => /\ final'[r] = (final[r] \cup {"capture"}) \ {"scan"}
                         /\ staging'[r] = staging[r]
    BY <1>1, <1>2, <1>3, <1>9
    DEF Fetch, SetWorkspace, Workspace, NoChannel, OthersKeepFiles, StoreTypes, At
  <2>2. QED
    BY <1>1, <1>4, <2>1 DEF FetchOutcome, FetchOK, CarryOK, RowOK, SkippedByPolicy
<1>10. CASE FetchFails(id)
  <2>1. /\ captures'[id].pc = "failed" /\ captures'[id].request = request
        /\ UNCHANGED <<index, final, staging, diff_queue>>
    BY <1>3, <1>10 DEF FetchFails, NoChannel, evidence
  <2>2. QED
    BY <1>1, <1>4, <2>1 DEF FetchOutcome, OthersKeepFiles, FetchOK, CarryOK, RowOK, SkippedByPolicy
<1>11. CASE RecordFetched(id)
  <2>1. /\ captures'[id].pc = "fetched" /\ captures'[id].request = request
        /\ captures[id].pc = "record" /\ UNCHANGED <<final, staging, diff_queue>>
    BY <1>3, <1>11 DEF RecordFetched, NoChannel, At
  <2>2. /\ index'[r].capture = "ready" /\ index'[r].capture_reason = "none"
        /\ index'[r].diff = "ready" => index[r].diff = "ready"
    BY <1>1, <1>2, <1>11, WrittenRow, ReadyRow DEF RecordFetched, WriteReady
  <2>3. QED
    BY <1>1, <1>4, <2>1, <2>2
    DEF FetchOutcome, OthersKeepFiles, FetchOK, CarryOK, RowOK, SkippedByPolicy, Dropped
<1>12. CASE MarkFetchFailed(id)
  <2>1. /\ captures'[id].pc = "none" /\ UNCHANGED <<final, staging, diff_queue>>
    BY <1>3, <1>12 DEF MarkFetchFailed, NoChannel
  <2>2. /\ index'[r].capture = "failed" /\ index'[r].capture_reason = "error"
        /\ index'[r].diff = index[r].diff
    BY <1>1, <1>2, <1>12, WrittenRow, MarkedRow DEF MarkFetchFailed, WriteFailed
  <2>3. QED
    BY <1>4, <2>1, <2>2 DEF FetchOutcome, OthersKeepFiles, CarryOK, SkippedByPolicy, Dropped
<1>13. QED
  BY <1>5, <1>6, <1>7, <1>8, <1>9, <1>10, <1>11, <1>12 DEF FetchStep

LEMMA TaskGoesOn ==
    ASSUME NEW set, NEW new, NEW id \in DOMAIN set, GoesOn(set, new, id)
    PROVE  /\ \A x : TasksOf(new, x) = TasksOf(set, x)
           /\ \A x : x # set[id].request.event.release => Same(set, new, x)
<1>1. \A i \in DOMAIN set : new[i].request = set[i].request
  BY DEF GoesOn
<1>2. \A x : TasksOf(new, x) = TasksOf(set, x)
  BY <1>1 DEF GoesOn, TasksOf
<1>3. QED  BY <1>2 DEF GoesOn, Same, TasksOf

LEMMA FetchStays ==
    ASSUME IInv, Custody, NEW r \in Releases, NEW id \in TasksOf(captures, r),
           FetchStep(id), ~JoinCapture(id)
    PROVE  Custody'
<1>1. /\ TypeInv /\ UniqueIds /\ HighWaits
      /\ id \in DOMAIN captures /\ captures[id].request.event.release = r
      /\ InCustody(r) /\ observations[r] # 0
  <2>1. /\ TypeInv /\ UniqueIds /\ HighWaits
        /\ id \in DOMAIN captures /\ captures[id].request.event.release = r
    BY DEF IInv, TasksOf
  <2>2. InCustody(r) /\ index[r] # NoRow
    BY <2>1 DEF Custody, HighWaits, WaitingIsHigh
  <2>3. QED  BY <2>1, <2>2 DEF InCustody, RowOK
<1>2. FetchEffect(id)
  BY <1>1, FetchStepEffect
<1>3. /\ GoesOn(captures, captures', id) /\ captures[id].pc # "none" /\ RowsAdvance(r)
      /\ UNCHANGED <<hand, triage_queue, triages, capture_queue, posts, diffs, audited, audit_hand,
                     observations>>
  BY <1>1, <1>2 DEF FetchEffect, auditing, counters
<1>4. /\ \A x : TasksOf(captures', x) = TasksOf(captures, x)
      /\ \A x : x # r => Same(captures, captures', x)
  BY <1>1, <1>3, TaskGoesOn
<1>5. \A x : Same(triages, triages', x) /\ Same(posts, posts', x) /\ Same(diffs, diffs', x)
  BY <1>3 DEF Same
<1>6. /\ TriageHolders(r) = {} /\ OfRelease(capture_queue, r) = {}
      /\ \A i \in TasksOf(captures, r) \ {id} : captures[i].pc = "none"
      /\ \A i \in TasksOf(posts, r) : posts[i].pc = "none"
      /\ OfRelease(diff_queue, r) = {} /\ TasksOf(diffs, r) = {}
      /\ Holders(r) = {id} /\ FetchOK(r, captures[id])
  BY <1>1, <1>3, FetchIsAlone
<1>7. /\ Passive(r)' = Passive(r) /\ PassiveIds(r)' = PassiveIds(r)
      /\ PassiveTiers(r)' = PassiveTiers(r) /\ TriageHolders(r)' = TriageHolders(r)
  BY <1>3, <1>5, PassivesStay
<1>8. FetchOutcome(r, id)
  BY <1>1, <1>3, <1>6, <1>7, FetchHasOutcome
<1>9. ASSUME NEW x \in Releases, x # r  PROVE InCustody(x)'
  <2>1. Untouched(x)
    BY <1>3, <1>4, <1>5, <1>8, <1>9 DEF Untouched, FetchOutcome, OthersKeepFiles, RowsAdvance
  <2>2. QED  BY <1>9, <2>1, UntouchedStays DEF Custody
<1>10. InCustody(r)'
  <2>1. /\ CaptureHolders(r)' = {i \in {id} : captures'[id].pc # "none"}
        /\ Holders(r)' = {i \in {id} : captures'[id].pc # "none"}
    <3>1. /\ OfRelease(capture_queue, r)' = {} /\ OfRelease(diff_queue, r)' = {}
          /\ TasksOf(diffs, r)' = {} /\ TriageHolders(r)' = {}
          /\ \A i \in TasksOf(posts, r)' : posts'[i].pc = "none"
          /\ \A i \in TasksOf(captures, r)' \ {id} : captures'[i].pc = "none"
          /\ id \in TasksOf(captures, r)'
      BY <1>1, <1>3, <1>4, <1>6, <1>7, <1>8 DEF FetchOutcome, GoesOn, TasksOf
    <3>2. QED  BY <3>1 DEF CaptureHolders, DiffHolders, Holders
  <2>2. HoldersOK(r)'
    <3>1. /\ OfRelease(capture_queue, r)' = {} /\ OfRelease(diff_queue, r)' = {}
          /\ TasksOf(diffs, r)' = {} /\ TriageHolders(r)' = {}
          /\ \A i \in TasksOf(posts, r)' : posts'[i].pc = "none"
          /\ \A i \in TasksOf(captures, r)' \ {id} : captures'[i].pc = "none"
      BY <1>1, <1>3, <1>4, <1>6, <1>7, <1>8 DEF FetchOutcome, GoesOn, TasksOf
    <3>2. captures'[id].pc # "none" => FetchOK(r, captures[id])'
      BY <1>8 DEF FetchOutcome
    <3>3. QED  BY <3>1, <3>2 DEF HoldersOK
  <2>3. CleanOK(r)'
    BY <1>8, <2>1 DEF CleanOK, FetchOutcome
  <2>4. Passive(r) /\ index'[r].capture = "failed" => Holders(r)' = {} /\ final'[r] = {}
    <3>1. Passive(r) => captures[id].request.retention # "permanent"
      BY <1>6 DEF FetchOK, CarryOK
    <3>2. captures[id].request.retention \in {"permanent", "ephemeral"}
      BY <1>1 DEF TypeInv, TaskTypes, FetchTask, CaptureRequest, TasksOf
    <3>3. Passive(r) => final[r] = {} /\ index[r].capture # "failed"
      BY <1>1, <1>6, <3>1, <3>2, WaitingHasTier DEF FetchOK
    <3>4. QED  BY <1>8, <2>1, <3>3 DEF FetchOutcome
  <2>5. /\ index'[r].capture = "pending" => index[r].capture = "pending"
        /\ Holders(r) # {} /\ Holders(r)' \subseteq Holders(r)
    BY <1>3, <1>6, <2>1 DEF RowsAdvance, RowAdvances
  <2>6. QED
    BY <1>1, <1>3, <1>7, <1>8, <2>2, <2>3, <2>4, <2>5, HolderGoesOn DEF FetchOutcome
<1>11. QED  BY <1>9, <1>10 DEF Custody

-----------------------------------------------------------------------------
(* An analysis.                                                            *)

\* It goes on, ends with a failure, ends with the workspace discarded, or ends
\* with a capture it keeps, of which the diff worker may be told.
PostOutcome(r, id) ==
    /\ OthersKeepFiles(r)
    /\ index'[r].capture_reason \in Dropped => index'[r].capture = "skipped"
    /\ index'[r].capture = "ready" => "capture" \in final'[r]
    /\ index'[r].diff # "ready"
    /\ SkippedByPolicy(r)' => SkippedByPolicy(r)
    /\ index'[r].capture = "failed" =>
           \/ index[r].capture = "failed"
           \/ posts[id].pc = "failed" /\ posts'[id].pc = "none" /\ final'[r] = final[r]
    /\ \/ posts'[id].pc # "none" /\ PostOK(r, posts[id])' /\ diff_queue' = diff_queue
       \/ /\ posts'[id].pc = "none"
          /\ index'[r].capture = "failed" /\ index'[r].capture_reason = "error"
          /\ diff_queue' = diff_queue
       \/ /\ posts'[id].pc = "none"
          /\ index'[r].capture # "ready" /\ staging'[r] = {} /\ final'[r] = {}
          /\ diff_queue' = diff_queue
       \/ posts'[id].pc = "none" /\ Analysed(r)'

LEMMA PostHasOutcome ==
    ASSUME TypeInv, UniqueIds, HighWaits, NEW r \in Releases, InCustody(r),
           NEW id \in TasksOf(posts, r), posts[id].pc # "none",
           PostOK(r, posts[id]), Passive(r)' = Passive(r), PostStep(id), ~JoinPost(id)
    PROVE  PostOutcome(r, id)
<1> DEFINE request == posts[id].request
           ephemeral == request.retention = "ephemeral"
<1>1. /\ posts[id] \in PostTask /\ id \in DOMAIN posts /\ id \notin DOMAIN captures
      /\ CaptureRequestOf(id) = request /\ CaptureEvent(id) = request.event
      /\ CaptureRelease(id) = r /\ Ephemeral(id) = ephemeral
      /\ request.retention \in {"permanent", "ephemeral"}
      /\ request.event.tier \in Tiers /\ index[r] \in Row
  BY DEF TypeInv, TaskTypes, StoreTypes, PostTask, CaptureRequestOf, CaptureRelease, CaptureEvent,
     CaptureRequest, Event, HighWaits, WaitingIsHigh, TasksOf, Ephemeral, UniqueIds
<1>2. StoreTypes
  BY DEF TypeInv
<1>3. \A pc : GoPost(id, pc) => posts'[id].pc = pc /\ posts'[id].request = request
  BY <1>1 DEF GoPost, PostTask
<1>4. PostOK(r, posts[id]) /\ CarryOK(r, request.retention) /\ RowOK(r)
  BY DEF PostOK, InCustody
<1>5. CASE Materialize(id)
  <2>1. /\ posts'[id].pc = "scan" /\ posts'[id].request = request /\ posts[id].pc = "materialize"
        /\ UNCHANGED <<index, diff_queue>> /\ OthersKeepFiles(r)
        /\ ephemeral => final'[r] = final[r]
        /\ ~ephemeral => final[r] \subseteq final'[r] /\ staging'[r] = staging[r]
    BY ZenonT(60), <1>1, <1>2, <1>3, <1>5
    DEF Materialize, SetWorkspace, Workspace, NoChannel, OthersKeepFiles, StoreTypes, At
  <2>2. QED
    BY <1>1, <1>4, <2>1
    DEF PostOutcome, PostOK, CarryOK, RowOK, SkippedByPolicy, Kept, Discarding
<1>6. CASE Scan(id)
  <2>1. CASE "dir" \in Workspace(id)
    <3>1. /\ posts'[id].pc = "decide" /\ posts'[id].request = request /\ posts[id].pc = "scan"
          /\ UNCHANGED <<index, diff_queue>> /\ OthersKeepFiles(r)
          /\ ephemeral => /\ final'[r] = final[r]
                          /\ staging'[r] = staging[r] \cup {"capture", "scan"}
          /\ ~ephemeral => /\ final'[r] = final[r] \cup {"capture", "scan"}
                           /\ staging'[r] = staging[r]
      BY <1>1, <1>2, <1>3, <1>6, <2>1
      DEF Scan, SetWorkspace, Workspace, NoChannel, OthersKeepFiles, StoreTypes, At
    <3>2. QED
      BY <1>1, <1>4, <3>1
      DEF PostOutcome, PostOK, CarryOK, RowOK, SkippedByPolicy, Kept, Discarding
  <2>2. CASE "dir" \notin Workspace(id)
    <3>1. /\ posts'[id].pc = "failed" /\ posts'[id].request = request /\ posts[id].pc = "scan"
          /\ UNCHANGED <<index, final, staging, diff_queue>>
      BY <1>3, <1>6, <2>2 DEF Scan, NoChannel, At
    <3>2. QED
      BY <1>1, <1>4, <3>1
      DEF PostOutcome, OthersKeepFiles, PostOK, CarryOK, RowOK, SkippedByPolicy, Kept, Discarding
  <2>3. QED  BY <2>1, <2>2
<1>7. CASE DecideRetention(id)
  <2>1. PICK forced \in BOOLEAN, pc \in {"drop", "promote", "record"} :
            /\ posts' = [posts EXCEPT ![id].forced = forced, ![id].pc = pc]
            /\ pc \in {"drop", "promote"} => ephemeral
            /\ pc = "record" => ~ephemeral
    BY <1>1, <1>7 DEF DecideRetention
  <2>2. /\ posts'[id].pc = pc /\ posts'[id].request = request /\ posts[id].pc = "decide"
        /\ UNCHANGED <<index, final, staging, diff_queue>>
    BY <1>1, <1>7, <2>1 DEF DecideRetention, PostTask, NoChannel, evidence, At
  <2>3. QED
    BY <1>1, <1>4, <2>1, <2>2
    DEF PostOutcome, OthersKeepFiles, PostOK, CarryOK, RowOK, SkippedByPolicy, Kept, Discarding
<1>8. CASE DecideFails(id)
  <2>1. /\ posts'[id].pc = "failed" /\ posts'[id].request = request /\ posts[id].pc = "decide"
        /\ UNCHANGED <<index, final, staging, diff_queue>>
    BY <1>3, <1>8 DEF DecideFails, NoChannel, evidence, At
  <2>2. QED
    BY <1>1, <1>4, <2>1
    DEF PostOutcome, OthersKeepFiles, PostOK, CarryOK, RowOK, SkippedByPolicy, Kept, Discarding
<1>9. CASE DropCapture(id)
  <2>1. /\ posts'[id].pc = "discard" /\ posts'[id].request = request /\ posts[id].pc = "drop"
        /\ UNCHANGED <<final, staging, diff_queue>>
    BY <1>3, <1>9 DEF DropCapture, NoChannel, At
  <2>2. /\ index'[r].capture = "skipped" /\ index'[r].capture_reason = "post_analysis"
        /\ index'[r].diff = index[r].diff
    BY <1>1, <1>2, <1>9, WrittenRow, MarkedRow DEF DropCapture
  <2>3. QED
    BY <1>1, <1>4, <2>1, <2>2
    DEF PostOutcome, OthersKeepFiles, PostOK, CarryOK, RowOK, SkippedByPolicy, Kept, Discarding
<1>10. CASE DiscardWorkspace(id)
  <2>1. ephemeral /\ final[r] = {} /\ index[r].capture # "ready"
    BY <1>4, <1>10 DEF DiscardWorkspace, At, PostOK, Discarding, Kept
  <2>2. /\ posts'[id].pc = "none" /\ staging'[r] = {}
        /\ UNCHANGED <<index, final, diff_queue>> /\ OthersKeepFiles(r)
    BY ZenonT(60), <1>1, <1>2, <1>3, <1>10, <2>1
    DEF DiscardWorkspace, SetWorkspace, NoChannel, OthersKeepFiles, StoreTypes
  <2>3. QED
    BY <1>4, <2>1, <2>2 DEF PostOutcome, CarryOK, RowOK, SkippedByPolicy
<1>11. CASE ClearFinal(id)
  <2>1. /\ posts'[id].pc = "rename" /\ posts'[id].request = request /\ posts[id].pc = "promote"
        /\ UNCHANGED <<index, staging, diff_queue>> /\ OthersKeepFiles(r) /\ final'[r] = {}
    BY <1>1, <1>2, <1>3, <1>11 DEF ClearFinal, NoChannel, OthersKeepFiles, StoreTypes, At
  <2>2. QED
    BY <1>1, <1>4, <2>1
    DEF PostOutcome, PostOK, CarryOK, RowOK, SkippedByPolicy, Kept, Discarding
<1>12. CASE Promote(id)
  <2>1. CASE "dir" \in staging[r]
    <3>1. /\ posts'[id].pc = "record" /\ posts'[id].request = request /\ posts[id].pc = "rename"
          /\ UNCHANGED <<index, diff_queue>> /\ OthersKeepFiles(r)
          /\ final'[r] = staging[r] /\ staging'[r] = {}
      BY <1>1, <1>2, <1>3, <1>12, <2>1 DEF Promote, NoChannel, OthersKeepFiles, StoreTypes, At
    <3>2. QED
      BY <1>1, <1>4, <2>1, <3>1
      DEF PostOutcome, PostOK, CarryOK, RowOK, SkippedByPolicy, Kept, Discarding
  <2>2. CASE "dir" \notin staging[r]
    <3>1. /\ posts'[id].pc = "failed" /\ posts'[id].request = request /\ posts[id].pc = "rename"
          /\ UNCHANGED <<index, final, staging, diff_queue>>
      BY <1>1, <1>3, <1>12, <2>2 DEF Promote, NoChannel, At
    <3>2. QED
      BY <1>1, <1>4, <3>1
      DEF PostOutcome, OthersKeepFiles, PostOK, CarryOK, RowOK, SkippedByPolicy, Kept, Discarding
  <2>3. QED  BY <2>1, <2>2
<1>13. CASE RecordRetained(id)
  <2>1. /\ posts'[id].pc = "bundle" /\ posts'[id].request = request /\ posts[id].pc = "record"
        /\ UNCHANGED <<final, staging, diff_queue>>
    BY <1>3, <1>13 DEF RecordRetained, NoChannel, At
  <2>2. /\ index'[r].capture = "ready" /\ index'[r].capture_reason = "none"
        /\ index'[r].diff = "ready" => index[r].diff = "ready"
    BY <1>1, <1>2, <1>13, WrittenRow, ReadyRow DEF RecordRetained, WriteReady
  <2>3. QED
    BY <1>1, <1>4, <2>1, <2>2
    DEF PostOutcome, OthersKeepFiles, PostOK, CarryOK, RowOK, SkippedByPolicy, Kept, Discarding,
        Dropped
<1>14. CASE WriteBundle(id)
  <2>1. /\ posts'[id].pc \in {"notify", "none"} /\ posts'[id].request = request
        /\ posts[id].pc = "bundle" /\ UNCHANGED <<index, staging, diff_queue>>
        /\ OthersKeepFiles(r) /\ final[r] \subseteq final'[r]
    BY <1>1, <1>2, <1>3, <1>14 DEF WriteBundle, NoChannel, OthersKeepFiles, StoreTypes, At
  <2>2. QED
    BY <1>1, <1>4, <2>1
    DEF PostOutcome, PostOK, CarryOK, RowOK, SkippedByPolicy, Kept, Discarding, Analysed
<1>15. CASE NotifyDiff(id)
  <2>1. /\ posts'[id].pc = "none" /\ posts[id].pc = "notify" /\ UNCHANGED <<index, final, staging>>
    BY <1>3, <1>15 DEF NotifyDiff, evidence, At
  <2>2. QED
    BY <1>1, <1>4, <2>1
    DEF PostOutcome, OthersKeepFiles, PostOK, CarryOK, RowOK, SkippedByPolicy, Kept, Analysed
<1>16. CASE MarkPostFailed(id)
  <2>1. /\ posts'[id].pc = "none" /\ posts[id].pc = "failed"
        /\ UNCHANGED <<final, staging, diff_queue>>
    BY <1>3, <1>16 DEF MarkPostFailed, NoChannel, At
  <2>2. /\ index'[r].capture = "failed" /\ index'[r].capture_reason = "error"
        /\ index'[r].diff = index[r].diff
    BY <1>1, <1>2, <1>16, WrittenRow, MarkedRow DEF MarkPostFailed, WriteFailed
  <2>3. QED
    BY <1>4, <2>1, <2>2 DEF PostOutcome, OthersKeepFiles, CarryOK, SkippedByPolicy, Dropped
<1>17. QED
  BY <1>5, <1>6, <1>7, <1>8, <1>9, <1>10, <1>11, <1>12, <1>13, <1>14, <1>15, <1>16 DEF PostStep

LEMMA PostStays ==
    ASSUME IInv, Custody, NEW r \in Releases, NEW id \in TasksOf(posts, r),
           PostStep(id), ~JoinPost(id)
    PROVE  Custody'
<1>1. /\ TypeInv /\ UniqueIds /\ HighWaits
      /\ id \in DOMAIN posts /\ posts[id].request.event.release = r
      /\ InCustody(r) /\ observations[r] # 0
  <2>1. /\ TypeInv /\ UniqueIds /\ HighWaits
        /\ id \in DOMAIN posts /\ posts[id].request.event.release = r
    BY DEF IInv, TasksOf
  <2>2. InCustody(r) /\ index[r] # NoRow
    BY <2>1 DEF Custody, HighWaits, WaitingIsHigh
  <2>3. QED  BY <2>1, <2>2 DEF InCustody, RowOK
<1>2. PostEffect(id)
  BY <1>1, PostStepEffect
<1>3. /\ GoesOn(posts, posts', id) /\ posts[id].pc # "none" /\ RowsAdvance(r)
      /\ UNCHANGED <<hand, triage_queue, triages, capture_queue, captures, diffs, audited, audit_hand,
                     observations>>
      /\ \/ diff_queue' = diff_queue
         \/ Tells(id, posts[id].request.event) /\ posts'[id].pc = "none"
  BY <1>1, <1>2 DEF PostEffect, auditing, counters
<1>4. /\ \A x : TasksOf(posts', x) = TasksOf(posts, x)
      /\ \A x : x # r => Same(posts, posts', x)
  BY <1>1, <1>3, TaskGoesOn
<1>5. \A x : Same(triages, triages', x) /\ Same(captures, captures', x) /\ Same(diffs, diffs', x)
  BY <1>3 DEF Same
<1>6. /\ TriageHolders(r) = {} /\ OfRelease(capture_queue, r) = {}
      /\ \A i \in TasksOf(captures, r) : captures[i].pc = "none"
      /\ \A i \in TasksOf(posts, r) \ {id} : posts[i].pc = "none"
      /\ OfRelease(diff_queue, r) = {} /\ TasksOf(diffs, r) = {}
      /\ Holders(r) = {id} /\ PostOK(r, posts[id])
  BY <1>1, <1>3, PostIsAlone
<1>7. /\ Passive(r)' = Passive(r) /\ PassiveIds(r)' = PassiveIds(r)
      /\ PassiveTiers(r)' = PassiveTiers(r) /\ TriageHolders(r)' = TriageHolders(r)
  BY <1>3, <1>5, PassivesStay
<1>8. PostOutcome(r, id)
  BY <1>1, <1>3, <1>6, <1>7, PostHasOutcome
\* What the step adds to the diff queue is a request of this task.
<1>9. /\ \A x \in Releases : x # r => OfRelease(diff_queue', x) = OfRelease(diff_queue, x)
      /\ \A e \in OfRelease(diff_queue', r) : e.id = id
      /\ OfRelease(diff_queue', r) # {} => diff_queue' # diff_queue /\ posts'[id].pc = "none"
  <2>1. CASE diff_queue' = diff_queue
    BY <1>6, <2>1
  <2>2. CASE diff_queue' # diff_queue
    <3>1. diff_queue \in Seq(DiffRequest)
      BY <1>1 DEF TypeInv, QueueTypes
    <3>2. PICK e : /\ e.id = id /\ e.event = posts[id].request.event
                   /\ Elements(diff_queue') = Elements(diff_queue) \cup {e}
      BY <1>3, <2>2, <3>1, Told
    <3>3. QED  BY <1>1, <1>3, <1>6, <2>2, <3>2 DEF OfRelease
  <2>3. QED  BY <2>1, <2>2
<1>10. ASSUME NEW x \in Releases, x # r  PROVE InCustody(x)'
  <2>1. Untouched(x)
    BY <1>3, <1>4, <1>5, <1>8, <1>9, <1>10 DEF Untouched, PostOutcome, OthersKeepFiles, RowsAdvance
  <2>2. QED  BY <1>10, <2>1, UntouchedStays DEF Custody
<1>11. /\ OfRelease(capture_queue, r)' = {} /\ TasksOf(diffs, r)' = {} /\ TriageHolders(r)' = {}
       /\ \A i \in TasksOf(captures, r)' : captures'[i].pc = "none"
       /\ \A i \in TasksOf(posts, r)' \ {id} : posts'[i].pc = "none"
       /\ id \in TasksOf(posts, r)'
  BY <1>1, <1>3, <1>4, <1>6, <1>7 DEF GoesOn, TasksOf
<1>12. InCustody(r)'
  <2>1. /\ CaptureHolders(r)' = {i \in {id} : posts'[id].pc # "none"}
        /\ Holders(r)' \subseteq {id}
        /\ diff_queue' = diff_queue /\ posts'[id].pc = "none" => Holders(r)' = {}
    BY <1>6, <1>9, <1>11 DEF CaptureHolders, DiffHolders, Holders
  <2>2. HoldersOK(r)'
    <3>1. posts'[id].pc # "none" => PostOK(r, posts[id])'
      BY <1>8 DEF PostOutcome
    <3>2. OfRelease(diff_queue', r) # {} => Analysed(r)'
      BY <1>8, <1>9 DEF PostOutcome
    <3>3. QED  BY <1>11, <3>1, <3>2 DEF HoldersOK
  <2>3. CleanOK(r)'
    BY <1>8, <2>1 DEF CleanOK, PostOutcome, Analysed, Dropped
  <2>4. Passive(r) /\ index'[r].capture = "failed" => Holders(r)' = {} /\ final'[r] = {}
    <3>1. Passive(r) => posts[id].request.retention # "permanent"
      BY <1>6 DEF PostOK, CarryOK
    <3>2. posts[id].request.retention \in {"permanent", "ephemeral"}
      BY <1>1 DEF TypeInv, TaskTypes, PostTask, CaptureRequest, TasksOf
    <3>3. Passive(r) => index[r].capture # "failed" /\ (posts[id].pc = "failed" => final[r] = {})
      BY <1>1, <1>6, <3>1, <3>2, WaitingHasTier DEF PostOK, Kept
    <3>4. QED  BY <1>8, <2>1, <3>3 DEF PostOutcome, Analysed
  <2>5. /\ index'[r].capture = "pending" => index[r].capture = "pending"
        /\ Holders(r) # {} /\ Holders(r)' \subseteq Holders(r)
    BY <1>3, <1>6, <2>1 DEF RowsAdvance, RowAdvances
  <2>6. QED
    BY <1>1, <1>3, <1>7, <1>8, <2>2, <2>3, <2>4, <2>5, HolderGoesOn DEF PostOutcome
<1>13. QED  BY <1>10, <1>12 DEF Custody

-----------------------------------------------------------------------------
(* A diff.                                                                 *)

DiffOutcome(r, id) ==
    /\ OthersKeepFiles(r) /\ Analysed(r)'
    /\ index'[r].capture_reason = index[r].capture_reason \/ index'[r].capture_reason = "none"
    /\ index'[r].diff = "ready" => "diff" \in final'[r]
    /\ id \in DOMAIN diffs' => DiffOK(r, diffs[id])'

LEMMA DiffHasOutcome ==
    ASSUME TypeInv, HighWaits, NEW r \in Releases, InCustody(r), NEW id \in TasksOf(diffs, r),
           DiffOK(r, diffs[id]), DiffTaskStep(id)
    PROVE  DiffOutcome(r, id)
<1>1. /\ diffs[id] \in DiffTask /\ id \in DOMAIN diffs
      /\ DiffEvent(id) = diffs[id].request.event /\ DiffRelease(id) = r
      /\ DiffEvent(id).tier \in Tiers /\ index[r] \in Row
  BY DEF TypeInv, TaskTypes, StoreTypes, DiffTask, DiffEvent, DiffRelease, DiffRequest, Event,
     HighWaits, WaitingIsHigh, TasksOf
<1>2. StoreTypes
  BY DEF TypeInv
<1>3. \A pc : GoDiff(id, pc) => diffs'[id].pc = pc /\ diffs'[id].scanned = diffs[id].scanned
  BY <1>1 DEF GoDiff, DiffTask
<1>4. diffs' = Reap(diffs, id) => id \notin DOMAIN diffs'
  BY DEF Reap
<1>5. Analysed(r) /\ (index[r].diff = "ready" => "diff" \in final[r])
  BY DEF DiffOK, InCustody, RowOK
<1>6. CASE CheckPolicy(id) \/ BuildDiff(id) \/ DiffFails(id)
  <2>1. /\ UNCHANGED <<index, final, staging>>
        /\ \E pc \in {"prepare", "skip", "load", "write", "failed"} : GoDiff(id, pc)
    BY <1>6 DEF CheckPolicy, BuildDiff, DiffFails, OnlyDiff
  <2>2. QED  BY <1>3, <1>5, <2>1 DEF DiffOutcome, OthersKeepFiles, DiffOK, Analysed
<1>7. CASE SkipDiff(id) \/ MarkBuildFailed(id)
  <2>1. \/ Write(r, MarkDiffSkipped(index[r]))
        \/ Write(r, MarkDiffFailed(index[r]))
    BY <1>1, <1>7 DEF SkipDiff, MarkBuildFailed
  <2>2. /\ index'[r].capture = index[r].capture
        /\ index'[r].capture_reason = index[r].capture_reason /\ index'[r].diff # "ready"
    BY <1>1, <1>2, <2>1, WrittenRow, MarkedRow
  <2>3. UNCHANGED <<final, staging>> /\ id \notin DOMAIN diffs'
    BY <1>4, <1>7 DEF SkipDiff, MarkBuildFailed, OnlyDiff
  <2>4. QED  BY <1>5, <2>2, <2>3 DEF DiffOutcome, OthersKeepFiles, Analysed
<1>8. CASE PrepareDiff(id)
  <2>1. /\ UNCHANGED <<index, staging>> /\ OthersKeepFiles(r) /\ final[r] \subseteq final'[r]
        /\ id \in DOMAIN diffs' => diffs'[id].pc = "build"
    BY <1>1, <1>2, <1>3, <1>4, <1>8 DEF PrepareDiff, OnlyDiff, OthersKeepFiles, StoreTypes
  <2>2. QED  BY <1>5, <2>1 DEF DiffOutcome, DiffOK, Analysed
<1>9. CASE LoadCapture(id)
  <2> DEFINE scanned == "scan" \in final[DiffRelease(id)]
  <2>1. PICK pc \in {"rewrite", "write"} :
            diffs' = [diffs EXCEPT ![id].scanned = scanned, ![id].pc = pc]
    BY <1>9 DEF LoadCapture
  <2>2. scanned
    BY <1>1, <1>5 DEF Analysed
  <2> HIDE DEF scanned
  <2>3. diffs'[id].pc = pc /\ diffs'[id].scanned /\ UNCHANGED <<index, final, staging>>
    BY <1>1, <1>9, <2>1, <2>2 DEF DiffTask, LoadCapture, OnlyDiff
  <2>4. QED  BY <1>5, <2>3 DEF DiffOutcome, OthersKeepFiles, DiffOK, Analysed
<1>10. CASE RewriteCapture(id)
  <2>1. /\ UNCHANGED <<index, staging>> /\ OthersKeepFiles(r) /\ diffs'[id].pc = "rerecord"
        /\ final'[r] = (final[r] \ {"scan"}) \cup {"capture"}
                       \cup (IF diffs[id].scanned THEN {"scan"} ELSE {})
    BY <1>1, <1>2, <1>3, <1>10 DEF RewriteCapture, OnlyDiff, OthersKeepFiles, StoreTypes
  <2>2. diffs[id].scanned
    BY <1>10 DEF RewriteCapture, At, DiffOK
  <2>3. QED  BY <1>5, <2>1, <2>2 DEF DiffOutcome, DiffOK, Analysed
<1>11. CASE RecordRewritten(id)
  <2>1. /\ index'[r].capture = "ready" /\ index'[r].capture_reason = "none"
        /\ index'[r].diff = "ready" => index[r].diff = "ready"
    BY <1>1, <1>2, <1>11, WrittenRow, ReadyRow DEF RecordRewritten
  <2>2. UNCHANGED <<final, staging>> /\ diffs'[id].pc = "write"
    BY <1>3, <1>11 DEF RecordRewritten, OnlyDiff
  <2>3. QED  BY <1>5, <2>1, <2>2 DEF DiffOutcome, OthersKeepFiles, DiffOK, Analysed
<1>12. CASE WriteDiff(id)
  <2>1. /\ UNCHANGED <<index, staging>> /\ OthersKeepFiles(r) /\ diffs'[id].pc = "record"
        /\ final'[r] = final[r] \cup {"diff"}
    BY <1>1, <1>2, <1>3, <1>12 DEF WriteDiff, OnlyDiff, OthersKeepFiles, StoreTypes
  <2>2. QED  BY <1>5, <2>1 DEF DiffOutcome, DiffOK, Analysed
<1>13. CASE RecordBuiltDiff(id)
  <2>1. /\ index'[r].capture = "ready" /\ index'[r].capture_reason = index[r].capture_reason
    BY <1>1, <1>2, <1>5, <1>13, WrittenRow, ReadyRow DEF RecordBuiltDiff, Analysed
  <2>2. UNCHANGED <<final, staging>> /\ diffs'[id].pc = "bundle" /\ "diff" \in final[r]
    BY <1>3, <1>13 DEF RecordBuiltDiff, OnlyDiff, At, DiffOK
  <2>3. QED  BY <1>5, <2>1, <2>2 DEF DiffOutcome, OthersKeepFiles, DiffOK, Analysed
<1>14. CASE RewriteBundle(id)
  <2>1. /\ UNCHANGED <<index, staging>> /\ OthersKeepFiles(r) /\ final[r] \subseteq final'[r]
        /\ id \notin DOMAIN diffs'
    BY <1>1, <1>2, <1>4, <1>14 DEF RewriteBundle, OnlyDiff, OthersKeepFiles, StoreTypes
  <2>2. QED  BY <1>5, <2>1 DEF DiffOutcome, Analysed
<1>15. QED
  BY <1>6, <1>7, <1>8, <1>9, <1>10, <1>11, <1>12, <1>13, <1>14 DEF DiffTaskStep

LEMMA DiffStays ==
    ASSUME IInv, Custody, NEW r \in Releases, NEW id \in TasksOf(diffs, r), DiffTaskStep(id)
    PROVE  Custody'
<1>1. /\ TypeInv /\ UniqueIds /\ HighWaits
      /\ id \in DOMAIN diffs /\ diffs[id].request.event.release = r
      /\ InCustody(r) /\ observations[r] # 0
  <2>1. /\ TypeInv /\ UniqueIds /\ HighWaits
        /\ id \in DOMAIN diffs /\ diffs[id].request.event.release = r
    BY DEF IInv, TasksOf
  <2>2. InCustody(r) /\ index[r] # NoRow
    BY <2>1 DEF Custody, HighWaits, WaitingIsHigh
  <2>3. QED  BY <2>1, <2>2 DEF InCustody, RowOK
<1>2. DiffEffect(id)
  BY <1>1, DiffStepEffect
<1>3. /\ DOMAIN diffs' \cup {id} = DOMAIN diffs
      /\ \A i \in DOMAIN diffs \ {id} : diffs'[i] = diffs[i]
      /\ id \in DOMAIN diffs' => diffs'[id].request = diffs[id].request
      /\ RowsAdvance(r)
      /\ UNCHANGED <<hand, triage_queue, triages, capture_queue, captures, posts, diff_queue,
                     audited, audit_hand, observations>>
  BY <1>1, <1>2 DEF DiffEffect, auditing, counters
<1>4. /\ \A x \in Releases : x # r => Same(diffs, diffs', x)
      /\ TasksOf(diffs', r) \subseteq TasksOf(diffs, r)
  BY <1>1, <1>3 DEF Same, TasksOf
<1>5. \A x : Same(triages, triages', x) /\ Same(captures, captures', x) /\ Same(posts, posts', x)
  BY <1>3 DEF Same
<1>6. /\ TriageHolders(r) = {} /\ CaptureHolders(r) = {}
      /\ OfRelease(diff_queue, r) = {} /\ TasksOf(diffs, r) = {id}
      /\ Holders(r) = {id} /\ DiffOK(r, diffs[id])
  BY <1>1, DiffIsAlone
<1>7. /\ Passive(r)' = Passive(r) /\ PassiveIds(r)' = PassiveIds(r)
      /\ PassiveTiers(r)' = PassiveTiers(r) /\ TriageHolders(r)' = TriageHolders(r)
  BY <1>3, <1>5, PassivesStay
<1>8. DiffOutcome(r, id)
  BY <1>1, <1>6, DiffHasOutcome
<1>9. ASSUME NEW x \in Releases, x # r  PROVE InCustody(x)'
  <2>1. Untouched(x)
    BY <1>3, <1>4, <1>5, <1>8, <1>9 DEF Untouched, DiffOutcome, OthersKeepFiles, RowsAdvance
  <2>2. QED  BY <1>9, <2>1, UntouchedStays DEF Custody
<1>10. InCustody(r)'
  <2>1. CaptureHolders(r)' = {} /\ Holders(r)' \subseteq {id}
    BY <1>3, <1>4, <1>6, <1>7 DEF CaptureHolders, DiffHolders, Holders
  <2>2. HoldersOK(r)'
    <3>1. /\ \A e \in OfRelease(capture_queue, r)' : FALSE
          /\ \A i \in TasksOf(captures, r)' : captures'[i].pc = "none"
          /\ \A i \in TasksOf(posts, r)' : posts'[i].pc = "none"
      BY <2>1 DEF CaptureHolders
    <3>2. \A i \in TasksOf(diffs, r)' : i = id /\ DiffOK(r, diffs[i])'
      BY <1>4, <1>6, <1>8 DEF DiffOutcome, TasksOf
    <3>3. QED  BY <1>3, <1>6, <1>7, <3>1, <3>2 DEF HoldersOK
  <2>3. index[r].capture_reason \notin Dropped /\ index[r].capture = "ready"
    BY <1>1, <1>6 DEF DiffOK, Analysed, InCustody, RowOK
  <2>4. index'[r].capture = "ready" /\ index'[r].capture_reason \notin Dropped
    BY <1>8, <2>3 DEF DiffOutcome, Analysed, Dropped
  <2>5. CleanOK(r)'
    BY <1>8, <2>4 DEF CleanOK, DiffOutcome, Analysed, Dropped
  <2>6. QED
    BY <1>1, <1>3, <1>6, <1>7, <1>8, <2>1, <2>2, <2>4, <2>5, HolderGoesOn
    DEF DiffOutcome, Analysed, SkippedByPolicy
<1>11. QED  BY <1>9, <1>10 DEF Custody

-----------------------------------------------------------------------------
(* A request moves on, and the release stays as it is.                     *)

LEMMA AppendOf ==
    ASSUME NEW S, NEW q \in Seq(S), NEW e \in S
    PROVE  \A x : OfRelease(Append(q, e), x) =
                      OfRelease(q, x) \cup {f \in {e} : f.event.release = x}
BY AppendHolds DEF OfRelease

LEMMA TailOf ==
    ASSUME NEW S, NEW q \in Seq(S), q # <<>>
    PROVE  /\ Head(q) \in S /\ Head(q) \in Elements(q)
           /\ \A x : OfRelease(q, x) =
                         OfRelease(Tail(q), x) \cup {f \in {Head(q)} : f.event.release = x}
BY TailHolds DEF OfRelease

LEMMA SpawnOf ==
    ASSUME NEW set, NEW new, NEW id, NEW task, id \notin DOMAIN set, new = Spawn(set, id, task)
    PROVE  /\ \A x : TasksOf(new, x) =
                          TasksOf(set, x) \cup {i \in {id} : task.request.event.release = x}
           /\ \A i \in DOMAIN set : new[i] = set[i]
           /\ new[id] = task
<1>1. /\ DOMAIN new = DOMAIN set \cup {id} /\ new[id] = task
      /\ \A i \in DOMAIN set : new[i] = set[i]
  BY DEF Spawn
<1>2. ASSUME NEW x
      PROVE  TasksOf(new, x) = TasksOf(set, x) \cup {i \in {id} : task.request.event.release = x}
  <2>1. \A i \in DOMAIN set : i \in TasksOf(new, x) <=> i \in TasksOf(set, x)
    BY <1>1 DEF TasksOf
  <2>2. id \in TasksOf(new, x) <=> task.request.event.release = x
    BY <1>1 DEF TasksOf
  <2>3. TasksOf(new, x) \subseteq DOMAIN set \cup {id} /\ TasksOf(set, x) \subseteq DOMAIN set
    BY <1>1 DEF TasksOf
  <2>4. QED  BY <2>1, <2>2, <2>3
<1>3. QED  BY <1>1, <1>2

Reaped(set, new, id) ==
    /\ \A x : TasksOf(new, x) = TasksOf(set, x) \ {id}
    /\ \A i \in DOMAIN set \ {id} : new[i] = set[i]

LEMMA ReapOf ==
    ASSUME NEW set, NEW new, NEW id, new = Reap(set, id)
    PROVE  Reaped(set, new, id)
<1>1. DOMAIN new = DOMAIN set \ {id} /\ \A i \in DOMAIN set \ {id} : new[i] = set[i]
  BY DEF Reap
<1>2. ASSUME NEW x  PROVE TasksOf(new, x) = TasksOf(set, x) \ {id}
  BY <1>1 DEF TasksOf
<1>3. QED  BY <1>1, <1>2 DEF Reaped

\* The row and the final directory stay, the staging directory may be swept.
Steady(r) ==
    /\ index'[r] = index[r] /\ final'[r] = final[r]
    /\ staging'[r] = staging[r] \/ staging'[r] = {}
    /\ Passive(r)' => Passive(r)

LEMMA RequestsStayOK ==
    ASSUME NEW r, Steady(r)
    PROVE  /\ TriageOK(r) => TriageOK(r)'
           /\ Analysed(r) => Analysed(r)'
           /\ \A retention : QueuedOK(r, retention) => QueuedOK(r, retention)'
           /\ \A task : FetchOK(r, task) => FetchOK(r, task)'
           /\ \A task : PostOK(r, task) => PostOK(r, task)'
           /\ \A task : DiffOK(r, task) => DiffOK(r, task)'
<1>1. \A retention : CarryOK(r, retention) => CarryOK(r, retention)'
  BY DEF Steady, CarryOK
<1>2. TriageOK(r) => TriageOK(r)'
  BY DEF Steady, TriageOK
<1>3. Analysed(r) => Analysed(r)'
  BY DEF Steady, Analysed
<1>4. \A retention : QueuedOK(r, retention) => QueuedOK(r, retention)'
  BY <1>1 DEF Steady, QueuedOK
<1>5. \A task : FetchOK(r, task) => FetchOK(r, task)'
  BY <1>1 DEF Steady, FetchOK
<1>6. \A task : PostOK(r, task) => PostOK(r, task)'
  BY <1>1 DEF Steady, PostOK
<1>7. \A task : DiffOK(r, task) => DiffOK(r, task)'
  BY <1>3 DEF Steady, DiffOK
<1>8. QED  BY <1>2, <1>3, <1>4, <1>5, <1>6, <1>7

\* Requests that were there before, or fewer.
Fewer(set, new, r) ==
    /\ TasksOf(new, r) \subseteq TasksOf(set, r)
    /\ \A id \in TasksOf(new, r) : new[id] = set[id]

LEMMA HoldersStayOK ==
    ASSUME NEW r, Steady(r), HoldersOK(r), TriageHolders(r)' \subseteq TriageHolders(r),
           OfRelease(capture_queue', r) \subseteq OfRelease(capture_queue, r),
           Fewer(captures, captures', r), Fewer(posts, posts', r),
           OfRelease(diff_queue', r) \subseteq OfRelease(diff_queue, r),
           Fewer(diffs, diffs', r)
    PROVE  HoldersOK(r)'
<1>1. TriageHolders(r)' # {} => TriageOK(r)'
  BY RequestsStayOK DEF HoldersOK
<1>2. \A e \in OfRelease(capture_queue', r) : QueuedOK(r, e.retention)'
  BY RequestsStayOK DEF HoldersOK
<1>3. \A id \in TasksOf(captures', r) : captures'[id].pc # "none" => FetchOK(r, captures[id])'
  BY RequestsStayOK DEF HoldersOK, Fewer
<1>4. \A id \in TasksOf(posts', r) : posts'[id].pc # "none" => PostOK(r, posts[id])'
  BY RequestsStayOK DEF HoldersOK, Fewer
<1>5. OfRelease(diff_queue', r) # {} => Analysed(r)'
  BY RequestsStayOK DEF HoldersOK
<1>6. \A id \in TasksOf(diffs', r) : DiffOK(r, diffs[id])'
  BY RequestsStayOK DEF HoldersOK, Fewer
<1>7. QED  BY <1>1, <1>2, <1>3, <1>4, <1>5, <1>6 DEF HoldersOK

LEMMA RequestMovesOn ==
    ASSUME NEW r, InCustody(r), Steady(r),
           observations'[r] = observations[r],
           (r \in audited') = (r \in audited), r \in audit_hand' => r \in audit_hand,
           InHand(r)' => InHand(r), PassiveIds(r)' \subseteq PassiveIds(r),
           PassiveTiers(r)' \subseteq PassiveTiers(r), Holders(r)' \subseteq Holders(r),
           CaptureHolders(r)' = {} => CaptureHolders(r) = {},
           HoldersOK(r)'
    PROVE  InCustody(r)'
<1>1. Alone(r)'
  BY DEF InCustody, Alone
<1>2. RowOK(r)'
  BY DEF InCustody, RowOK, Steady
<1>3. AuditOK(r)'
  BY DEF InCustody, AuditOK, SkippedByPolicy, Steady
<1>4. CleanOK(r)'
  BY DEF InCustody, CleanOK, Steady
<1>5. PassivesOK(r)'
  <2>1. SUFFICES ASSUME NEW tier \in PassiveTiers(r)'  PROVE PassiveOK(r, tier)'
    BY DEF PassivesOK
  <2>2. PassiveOK(r, tier)
    BY DEF InCustody, PassivesOK
  <2>3. QED  BY <2>2 DEF PassiveOK, Steady
<1>6. QED  BY <1>1, <1>2, <1>3, <1>4, <1>5 DEF InCustody

LEMMA ReceiveTriageStays ==
    ASSUME IInv, Custody, ReceiveTriage
    PROVE  Custody'
<1>1. TypeInv /\ UniqueIds /\ triage_queue \in Seq(TriageRequest) /\ triage_queue # <<>>
  BY DEF IInv, TypeInv, QueueTypes, ReceiveTriage
<1>2. PICK e \in TriageRequest : e = Head(triage_queue) /\ e \in Elements(triage_queue)
  BY <1>1, TailOf
<1>3. PICK r \in Releases : r = e.event.release
  BY DEF TriageRequest, Event
<1>4. /\ triages' = Spawn(triages, e.id, [request |-> e, pc |-> "check"])
      /\ triage_queue' = Tail(triage_queue)
      /\ UNCHANGED <<index, final, staging, hand, capture_queue, diff_queue, captures, posts, diffs,
                     audited, audit_hand, observations>>
  BY <1>2 DEF ReceiveTriage, OnlyTriage, auditing
<1>5. e.id \notin DOMAIN triages
  BY <1>1, <1>2 DEF UniqueIds, Ids
<1>6. \A x : OfRelease(triage_queue, x) =
                 OfRelease(triage_queue', x) \cup {f \in {e} : f.event.release = x}
  BY <1>1, <1>2, <1>4, TailOf
<1>7. /\ \A x : TasksOf(triages', x) = TasksOf(triages, x) \cup {i \in {e.id} : e.event.release = x}
      /\ \A i \in DOMAIN triages : triages'[i] = triages[i]
      /\ triages'[e.id] = [request |-> e, pc |-> "check"]
  <2> DEFINE task == [request |-> e, pc |-> "check"]
  <2>1. task.request = e /\ triages' = Spawn(triages, e.id, task)
    BY <1>4
  <2>2. task = [request |-> e, pc |-> "check"]
    OBVIOUS
  <2> HIDE DEF task
  <2>3. /\ \A x : TasksOf(triages', x) =
                      TasksOf(triages, x) \cup {i \in {e.id} : task.request.event.release = x}
        /\ \A i \in DOMAIN triages : triages'[i] = triages[i]
        /\ triages'[e.id] = task
    BY <1>5, <2>1, SpawnOf
  <2>4. QED  BY <2>1, <2>2, <2>3
<1>8. \A x : Same(captures, captures', x) /\ Same(posts, posts', x) /\ Same(diffs, diffs', x)
  BY <1>4 DEF Same
<1>9. ASSUME NEW x \in Releases, x # r  PROVE InCustody(x)'
  <2>1. Same(triages, triages', x)
    BY <1>3, <1>7, <1>9 DEF Same, TasksOf
  <2>2. OfRelease(triage_queue', x) = OfRelease(triage_queue, x)
    BY <1>3, <1>6, <1>9
  <2>3. Untouched(x)
    BY <1>4, <1>8, <2>1, <2>2 DEF Untouched
  <2>4. QED  BY <1>9, <2>3, UntouchedStays DEF Custody
<1>10. InCustody(r)'
  <2>1. /\ OfRelease(triage_queue, r) = OfRelease(triage_queue', r) \cup {e}
        /\ TasksOf(triages', r) = TasksOf(triages, r) \cup {e.id}
        /\ \A i \in TasksOf(triages, r) : triages'[i] = triages[i]
        /\ triages'[e.id].request = e /\ triages'[e.id].pc = "check"
        /\ e.id \notin TasksOf(triages, r)
    <3>1. /\ OfRelease(triage_queue, r) = OfRelease(triage_queue', r) \cup {e}
          /\ TasksOf(triages', r) = TasksOf(triages, r) \cup {e.id}
      BY <1>3, <1>6, <1>7
    <3>2. /\ \A i \in TasksOf(triages, r) : triages'[i] = triages[i]
          /\ e.id \notin TasksOf(triages, r)
      BY <1>5, <1>7 DEF TasksOf
    <3>3. triages'[e.id].request = e /\ triages'[e.id].pc = "check"
      BY <1>7
    <3>4. QED  BY <3>1, <3>2, <3>3
  <2>2. InHand(r)' = InHand(r) /\ PassiveIds(r)' = PassiveIds(r)
    BY <1>4, <2>1 DEF InHand, PassiveIds
  <2>3. TriageHolders(r)' = TriageHolders(r)
    BY <2>1 DEF TriageHolders
  <2>4. PassiveTiers(r)' \subseteq PassiveTiers(r)
    BY <1>4, <2>1, <2>2 DEF PassiveTiers
  <2>5. CaptureHolders(r)' = CaptureHolders(r) /\ DiffHolders(r)' = DiffHolders(r)
    BY <1>4 DEF CaptureHolders, DiffHolders
  <2>6. Steady(r)
    BY <1>4, <2>2 DEF Steady, Passive
  <2>7. HoldersOK(r)'
    BY <1>4, <1>8, <2>3, <2>6, HoldersStayOK DEF Custody, InCustody, Fewer, Same
  <2>8. Holders(r)' = Holders(r)
    BY <2>3, <2>5 DEF Holders
  <2>9. QED
    BY <1>4, <2>2, <2>4, <2>5, <2>6, <2>7, <2>8, RequestMovesOn DEF Custody
<1>11. QED  BY <1>9, <1>10 DEF Custody

LEMMA ReceiveCaptureStays ==
    ASSUME IInv, Custody, ReceiveCapture
    PROVE  Custody'
<1>1. TypeInv /\ UniqueIds /\ capture_queue \in Seq(CaptureRequest) /\ capture_queue # <<>>
  BY DEF IInv, TypeInv, QueueTypes, ReceiveCapture
<1>2. PICK e \in CaptureRequest : e = Head(capture_queue) /\ e \in Elements(capture_queue)
  BY <1>1, TailOf
<1>3. PICK r \in Releases : r = e.event.release
  BY DEF CaptureRequest, Event
<1>4. /\ captures' = Spawn(captures, e.id, [request |-> e, pc |-> "check"])
      /\ capture_queue' = Tail(capture_queue)
      /\ UNCHANGED <<index, final, staging, hand, triage_queue, diff_queue, triages, posts, diffs,
                     audited, audit_hand, observations>>
  BY <1>2 DEF ReceiveCapture, OnlyCapture, auditing, evidence, counters
<1>5. e.id \notin DOMAIN captures
  BY <1>1, <1>2 DEF UniqueIds, Ids
<1>6. \A x : OfRelease(capture_queue, x) =
                 OfRelease(capture_queue', x) \cup {f \in {e} : f.event.release = x}
  BY <1>1, <1>2, <1>4, TailOf
<1>7. /\ \A x : TasksOf(captures', x) =
                    TasksOf(captures, x) \cup {i \in {e.id} : e.event.release = x}
      /\ \A i \in DOMAIN captures : captures'[i] = captures[i]
      /\ captures'[e.id] = [request |-> e, pc |-> "check"]
  <2> DEFINE task == [request |-> e, pc |-> "check"]
  <2>1. task.request = e /\ captures' = Spawn(captures, e.id, task)
    BY <1>4
  <2>2. task = [request |-> e, pc |-> "check"]
    OBVIOUS
  <2> HIDE DEF task
  <2>3. /\ \A x : TasksOf(captures', x) =
                      TasksOf(captures, x) \cup {i \in {e.id} : task.request.event.release = x}
        /\ \A i \in DOMAIN captures : captures'[i] = captures[i]
        /\ captures'[e.id] = task
    BY <1>5, <2>1, SpawnOf
  <2>4. QED  BY <2>1, <2>2, <2>3
<1>8. \A x : Same(triages, triages', x) /\ Same(posts, posts', x) /\ Same(diffs, diffs', x)
  BY <1>4 DEF Same
<1>9. ASSUME NEW x \in Releases, x # r  PROVE InCustody(x)'
  <2>1. Same(captures, captures', x)
    BY <1>3, <1>7, <1>9 DEF Same, TasksOf
  <2>2. OfRelease(capture_queue', x) = OfRelease(capture_queue, x)
    BY <1>3, <1>6, <1>9
  <2>3. Untouched(x)
    BY <1>4, <1>8, <2>1, <2>2 DEF Untouched
  <2>4. QED  BY <1>9, <2>3, UntouchedStays DEF Custody
<1>10. InCustody(r)'
  <2>1. /\ OfRelease(capture_queue, r) = OfRelease(capture_queue', r) \cup {e}
        /\ TasksOf(captures', r) = TasksOf(captures, r) \cup {e.id}
        /\ \A i \in TasksOf(captures, r) : captures'[i] = captures[i]
        /\ captures'[e.id].request = e /\ captures'[e.id].pc = "check"
        /\ e.id \notin TasksOf(captures, r)
    <3>1. /\ OfRelease(capture_queue, r) = OfRelease(capture_queue', r) \cup {e}
          /\ TasksOf(captures', r) = TasksOf(captures, r) \cup {e.id}
      BY <1>3, <1>6, <1>7
    <3>2. /\ \A i \in TasksOf(captures, r) : captures'[i] = captures[i]
          /\ e.id \notin TasksOf(captures, r)
      BY <1>5, <1>7 DEF TasksOf
    <3>3. captures'[e.id].request = e /\ captures'[e.id].pc = "check"
      BY <1>7
    <3>4. QED  BY <3>1, <3>2, <3>3
  <2>2. /\ InHand(r)' = InHand(r) /\ PassiveIds(r)' = PassiveIds(r) /\ Passive(r)' = Passive(r)
        /\ PassiveTiers(r)' = PassiveTiers(r) /\ TriageHolders(r)' = TriageHolders(r)
    BY <1>4, <1>8, PassivesStay
  <2>3. CaptureHolders(r)' = CaptureHolders(r)
    BY <1>4, <2>1 DEF CaptureHolders
  <2>4. Holders(r)' = Holders(r)
    BY <1>4, <2>2, <2>3 DEF Holders, DiffHolders
  <2>5. Steady(r)
    BY <1>4, <2>2 DEF Steady
  <2>6. HoldersOK(r)'
    <3>1. HoldersOK(r)
      BY DEF Custody, InCustody
    <3>2. FetchOK(r, captures[e.id])'
      <4>1. QueuedOK(r, e.retention)'
        BY <2>1, <2>5, <3>1, RequestsStayOK DEF HoldersOK
      <4>2. e.retention \in {"permanent", "ephemeral"}
        BY DEF CaptureRequest
      <4>3. QED  BY <2>1, <4>1, <4>2 DEF FetchOK, QueuedOK
    <3>3. \A i \in TasksOf(captures', r) : captures'[i].pc # "none" => FetchOK(r, captures[i])'
      BY <2>1, <2>5, <3>1, <3>2, RequestsStayOK DEF HoldersOK
    <3>4. \A f \in OfRelease(capture_queue', r) : QueuedOK(r, f.retention)'
      BY <2>1, <2>5, <3>1, RequestsStayOK DEF HoldersOK
    <3>5. QED
      BY <1>4, <2>2, <2>5, <3>1, <3>3, <3>4, RequestsStayOK DEF HoldersOK
  <2>7. QED
    BY <1>4, <2>2, <2>3, <2>4, <2>5, <2>6, RequestMovesOn DEF Custody
<1>11. QED  BY <1>9, <1>10 DEF Custody

LEMMA ReceiveDiffStays ==
    ASSUME IInv, Custody, ReceiveDiff
    PROVE  Custody'
<1>1. TypeInv /\ UniqueIds /\ diff_queue \in Seq(DiffRequest) /\ diff_queue # <<>>
  BY DEF IInv, TypeInv, QueueTypes, ReceiveDiff
<1>2. PICK e \in DiffRequest : e = Head(diff_queue) /\ e \in Elements(diff_queue)
  BY <1>1, TailOf
<1>3. PICK r \in Releases : r = e.event.release
  BY DEF DiffRequest, Event
<1>4. /\ diffs' = Spawn(diffs, e.id, [request |-> e, scanned |-> FALSE, pc |-> "policy"])
      /\ diff_queue' = Tail(diff_queue)
      /\ UNCHANGED <<index, final, staging, hand, triage_queue, capture_queue, triages, captures,
                     posts, audited, audit_hand, observations>>
  BY <1>2 DEF ReceiveDiff, OnlyDiff, auditing, counters
<1>5. e.id \notin DOMAIN diffs
  BY <1>1, <1>2 DEF UniqueIds, Ids
<1>6. \A x : OfRelease(diff_queue, x) =
                 OfRelease(diff_queue', x) \cup {f \in {e} : f.event.release = x}
  BY <1>1, <1>2, <1>4, TailOf
<1>7. /\ \A x : TasksOf(diffs', x) = TasksOf(diffs, x) \cup {i \in {e.id} : e.event.release = x}
      /\ \A i \in DOMAIN diffs : diffs'[i] = diffs[i]
      /\ diffs'[e.id] = [request |-> e, scanned |-> FALSE, pc |-> "policy"]
  <2> DEFINE task == [request |-> e, scanned |-> FALSE, pc |-> "policy"]
  <2>1. task.request = e /\ diffs' = Spawn(diffs, e.id, task)
    BY <1>4
  <2>2. task = [request |-> e, scanned |-> FALSE, pc |-> "policy"]
    OBVIOUS
  <2> HIDE DEF task
  <2>3. /\ \A x : TasksOf(diffs', x) =
                      TasksOf(diffs, x) \cup {i \in {e.id} : task.request.event.release = x}
        /\ \A i \in DOMAIN diffs : diffs'[i] = diffs[i]
        /\ diffs'[e.id] = task
    BY <1>5, <2>1, SpawnOf
  <2>4. QED  BY ZenonT(60), <2>1, <2>2, <2>3
<1>8. \A x : Same(triages, triages', x) /\ Same(captures, captures', x) /\ Same(posts, posts', x)
  BY <1>4 DEF Same
<1>9. ASSUME NEW x \in Releases, x # r  PROVE InCustody(x)'
  <2>1. Same(diffs, diffs', x)
    BY <1>3, <1>7, <1>9 DEF Same, TasksOf
  <2>2. OfRelease(diff_queue', x) = OfRelease(diff_queue, x)
    BY <1>3, <1>6, <1>9
  <2>3. Untouched(x)
    BY <1>4, <1>8, <2>1, <2>2 DEF Untouched
  <2>4. QED  BY <1>9, <2>3, UntouchedStays DEF Custody
<1>10. InCustody(r)'
  <2>1. /\ OfRelease(diff_queue, r) = OfRelease(diff_queue', r) \cup {e}
        /\ TasksOf(diffs', r) = TasksOf(diffs, r) \cup {e.id}
        /\ \A i \in TasksOf(diffs, r) : diffs'[i] = diffs[i]
        /\ diffs'[e.id].pc = "policy"
    BY <1>3, <1>5, <1>6, <1>7 DEF TasksOf
  <2>2. /\ InHand(r)' = InHand(r) /\ PassiveIds(r)' = PassiveIds(r) /\ Passive(r)' = Passive(r)
        /\ PassiveTiers(r)' = PassiveTiers(r) /\ TriageHolders(r)' = TriageHolders(r)
    BY <1>4, <1>8, PassivesStay
  <2>3. CaptureHolders(r)' = CaptureHolders(r) /\ DiffHolders(r)' = DiffHolders(r)
    BY ZenonT(60), <1>4, <2>1 DEF CaptureHolders, DiffHolders
  <2>4. Holders(r)' = Holders(r)
    BY <2>2, <2>3 DEF Holders
  <2>5. Steady(r)
    BY <1>4, <2>2 DEF Steady
  <2>6. HoldersOK(r)'
    <3>1. HoldersOK(r)
      BY DEF Custody, InCustody
    <3>2. Analysed(r)'
      BY <2>1, <2>5, <3>1, RequestsStayOK DEF HoldersOK
    <3>3. \A i \in TasksOf(diffs', r) : DiffOK(r, diffs[i])'
      BY <2>1, <2>5, <3>1, <3>2, RequestsStayOK DEF HoldersOK, DiffOK
    <3>4. QED
      BY <1>4, <2>2, <2>5, <3>1, <3>2, <3>3, RequestsStayOK DEF HoldersOK
  <2>7. QED
    BY <1>4, <2>2, <2>3, <2>4, <2>5, <2>6, RequestMovesOn DEF Custody
<1>11. QED  BY <1>9, <1>10 DEF Custody

LEMMA JoinCaptureStays ==
    ASSUME IInv, Custody, NEW r \in Releases, NEW id \in TasksOf(captures, r), JoinCapture(id)
    PROVE  Custody'
<1>1. /\ UniqueIds /\ id \in DOMAIN captures /\ id \notin DOMAIN posts
      /\ captures[id].request.event.release = r /\ captures[id].pc \in {"fetched", "none"}
      /\ captures[id].request.retention \in {"permanent", "ephemeral"}
  BY DEF IInv, TypeInv, TaskTypes, FetchTask, CaptureRequest, UniqueIds, TasksOf, JoinCapture
<1>2. /\ captures' = Reap(captures, id)
      /\ UNCHANGED <<index, final, staging, hand, triage_queue, capture_queue, diff_queue, triages,
                     diffs, audited, audit_hand, observations>>
  BY DEF JoinCapture, OnlyCapture, NoChannel, auditing, evidence, counters
<1>3. /\ \A x : TasksOf(captures', x) = TasksOf(captures, x) \ {id}
      /\ \A i \in DOMAIN captures \ {id} : captures'[i] = captures[i]
  <2>1. Reaped(captures, captures', id)
    BY <1>2, ReapOf
  <2>2. QED  BY <2>1 DEF Reaped
<1>4. \A x : Same(triages, triages', x) /\ Same(diffs, diffs', x) /\ Fewer(captures, captures', x)
  BY ZenonT(60), <1>2, <1>3 DEF Same, Fewer, TasksOf
<1>5. /\ Passive(r)' = Passive(r) /\ PassiveIds(r)' = PassiveIds(r) /\ InHand(r)' = InHand(r)
      /\ PassiveTiers(r)' = PassiveTiers(r) /\ TriageHolders(r)' = TriageHolders(r)
  BY <1>2, <1>4, PassivesStay
<1>6. Steady(r) /\ HoldersOK(r) /\ InCustody(r)
  BY <1>2, <1>5 DEF Steady, Custody, InCustody
<1>7. ASSUME NEW x \in Releases, x # r, Same(posts, posts', x)  PROVE InCustody(x)'
  <2>1. Same(captures, captures', x)
    BY <1>1, <1>3, <1>7 DEF Same, TasksOf
  <2>2. Untouched(x)
    BY <1>2, <1>4, <1>7, <2>1 DEF Untouched
  <2>3. QED  BY <1>7, <2>2, UntouchedStays DEF Custody
<1>8. CASE captures[id].pc = "none"
  <2>1. posts' = posts
    BY <1>8 DEF JoinCapture
  <2>2. \A x : Same(posts, posts', x)
    BY <2>1 DEF Same
  <2>3. CaptureHolders(r)' = CaptureHolders(r)
    BY <1>2, <1>3, <1>8, <2>1 DEF CaptureHolders, TasksOf
  <2>4. Holders(r)' = Holders(r)
    BY <1>2, <1>5, <2>3 DEF Holders, DiffHolders
  <2>5. HoldersOK(r)'
    BY <1>2, <1>4, <1>5, <1>6, <2>2, HoldersStayOK DEF Fewer, Same
  <2>6. InCustody(r)'
    BY <1>2, <1>5, <1>6, <2>3, <2>4, <2>5, RequestMovesOn
  <2>7. QED  BY <1>7, <2>2, <2>6 DEF Custody
<1>9. CASE captures[id].pc = "fetched"
  <2>1. PICK e : e = captures[id].request
    OBVIOUS
  <2>2. PICK task : task = [request |-> e, forced |-> FALSE, pc |-> "materialize"]
    OBVIOUS
  <2>3. posts' = Spawn(posts, id, task)
    BY <1>9, <2>1, <2>2 DEF JoinCapture
  <2>4. /\ task.request = e /\ e.event.release = r /\ task.pc = "materialize"
        /\ e.retention \in {"permanent", "ephemeral"}
    BY <1>1, <2>1, <2>2
  <2>5. /\ \A x : TasksOf(posts', x) =
                      TasksOf(posts, x) \cup {i \in {id} : task.request.event.release = x}
        /\ \A i \in DOMAIN posts : posts'[i] = posts[i]
        /\ posts'[id] = task
    BY <1>1, <2>3, SpawnOf
  <2>6. \A x \in Releases : x # r => Same(posts, posts', x)
    BY <2>4, <2>5 DEF Same, TasksOf
  <2>7. /\ TasksOf(posts', r) = TasksOf(posts, r) \cup {id}
        /\ TasksOf(captures', r) = TasksOf(captures, r) \ {id}
    BY <1>3, <2>4, <2>5
  <2>8. /\ \A i \in TasksOf(posts, r) : posts'[i] = posts[i]
        /\ \A i \in TasksOf(captures, r) \ {id} : captures'[i] = captures[i]
    BY <1>3, <2>5 DEF TasksOf
  <2>9. CaptureHolders(r)' = CaptureHolders(r)
    BY <1>2, <1>9, <2>4, <2>5, <2>7, <2>8 DEF CaptureHolders
  <2>10. Holders(r)' = Holders(r)
    BY <1>2, <1>5, <2>9 DEF Holders, DiffHolders
  <2>11. HoldersOK(r)'
    <3>1. PostOK(r, task)'
      <4>1. FetchOK(r, captures[id])
        BY <1>6, <1>9 DEF HoldersOK
      <4>2. FetchOK(r, captures[id]) /\ captures[id].request = e /\ captures[id].pc = "fetched"
        BY <1>9, <2>1, <4>1
      <4>3. PostOK(r, task)
        BY <2>4, <4>2 DEF FetchOK, PostOK, Kept, Discarding
      <4>4. QED  BY <1>6, <4>3, RequestsStayOK
    <3>2. \A i \in TasksOf(posts', r) : posts'[i].pc # "none" => PostOK(r, posts[i])'
      BY <1>6, <2>5, <2>7, <2>8, <3>1, RequestsStayOK DEF HoldersOK
    <3>3. \A i \in TasksOf(captures', r) : captures'[i].pc # "none" => FetchOK(r, captures[i])'
      BY <1>6, <2>7, <2>8, RequestsStayOK DEF HoldersOK
    <3>4. QED
      BY <1>2, <1>5, <1>6, <3>2, <3>3, RequestsStayOK DEF HoldersOK
  <2>12. InCustody(r)'
    BY <1>2, <1>5, <1>6, <2>9, <2>10, <2>11, RequestMovesOn
  <2>13. QED  BY <1>7, <2>6, <2>12 DEF Custody
<1>10. QED  BY <1>1, <1>8, <1>9

LEMMA JoinPostStays ==
    ASSUME IInv, Custody, NEW r \in Releases, NEW id \in TasksOf(posts, r), JoinPost(id)
    PROVE  Custody'
<1>1. id \in DOMAIN posts /\ posts[id].request.event.release = r /\ posts[id].pc = "none"
  BY DEF TasksOf, JoinPost, At
<1>2. /\ posts' = Reap(posts, id)
      /\ UNCHANGED <<index, final, staging, hand, triage_queue, capture_queue, diff_queue, triages,
                     captures, diffs, audited, audit_hand, observations>>
  BY DEF JoinPost, OnlyCapture, NoChannel, auditing, evidence, counters
<1>3. /\ \A x : TasksOf(posts', x) = TasksOf(posts, x) \ {id}
      /\ \A i \in DOMAIN posts \ {id} : posts'[i] = posts[i]
  <2>1. Reaped(posts, posts', id)
    BY <1>2, ReapOf
  <2>2. QED  BY <2>1 DEF Reaped
<1>4. \A x : /\ Same(triages, triages', x) /\ Same(captures, captures', x)
             /\ Same(diffs, diffs', x) /\ Fewer(posts, posts', x)
  BY <1>2, <1>3 DEF Same, Fewer, TasksOf
<1>5. /\ Passive(r)' = Passive(r) /\ PassiveIds(r)' = PassiveIds(r) /\ InHand(r)' = InHand(r)
      /\ PassiveTiers(r)' = PassiveTiers(r) /\ TriageHolders(r)' = TriageHolders(r)
  BY <1>2, <1>4, PassivesStay
<1>6. Steady(r) /\ HoldersOK(r) /\ InCustody(r)
  BY <1>2, <1>5 DEF Steady, Custody, InCustody
<1>7. ASSUME NEW x \in Releases, x # r  PROVE InCustody(x)'
  <2>1. Same(posts, posts', x)
    BY <1>1, <1>3, <1>7 DEF Same, TasksOf
  <2>2. Untouched(x)
    BY <1>2, <1>4, <1>7, <2>1 DEF Untouched
  <2>3. QED  BY <1>7, <2>2, UntouchedStays DEF Custody
<1>8. CaptureHolders(r)' = CaptureHolders(r)
  BY <1>1, <1>2, <1>3 DEF CaptureHolders, TasksOf
<1>9. Holders(r)' = Holders(r)
  BY <1>2, <1>5, <1>8 DEF Holders, DiffHolders
<1>10. HoldersOK(r)'
  BY <1>2, <1>4, <1>5, <1>6, HoldersStayOK DEF Fewer, Same
<1>11. InCustody(r)'
  BY <1>2, <1>5, <1>6, <1>8, <1>9, <1>10, RequestMovesOn
<1>12. QED  BY <1>7, <1>11 DEF Custody

-----------------------------------------------------------------------------
(* A triage.                                                               *)

\* Nothing but this task and what it says it changes.
TriageTouches(r, id) ==
    /\ Reaped(triages, triages', id) \/ GoesOn(triages, triages', id)
    /\ UNCHANGED <<final, staging, hand, triage_queue, diff_queue, captures, posts, diffs,
                   audited, audit_hand, observations>>
    /\ \A x \in Releases \ {r} : index'[x] = index[x]
    /\ \A x \in Releases \ {r} : OfRelease(capture_queue', x) = OfRelease(capture_queue, x)

LEMMA OthersInTriage ==
    ASSUME Custody, NEW r \in Releases, NEW id \in TasksOf(triages, r), TriageTouches(r, id),
           NEW x \in Releases, x # r
    PROVE  InCustody(x)'
<1>1. Same(triages, triages', x)
  <2>1. CASE Reaped(triages, triages', id)
    BY <2>1 DEF Reaped, Same, TasksOf
  <2>2. CASE GoesOn(triages, triages', id)
    BY <2>2, TaskGoesOn DEF TasksOf
  <2>3. QED  BY <2>1, <2>2 DEF TriageTouches
<1>2. Same(captures, captures', x) /\ Same(posts, posts', x) /\ Same(diffs, diffs', x)
  BY DEF TriageTouches, Same
<1>3. Untouched(x)
  BY <1>1, <1>2 DEF TriageTouches, Untouched
<1>4. QED  BY <1>3, UntouchedStays DEF Custody

\* Who acts on a release is not waiting for it.
LEMMA TriageIsAlone ==
    ASSUME UniqueIds, NEW r, InCustody(r), NEW id \in TasksOf(triages, r), triages[id].pc # "check"
    PROVE  /\ TriageHolders(r) = {id} /\ CaptureHolders(r) = {} /\ DiffHolders(r) = {}
           /\ Holders(r) = {id} /\ TriageOK(r)
<1>1. id \in TriageHolders(r) /\ id \in Holders(r)
  BY DEF TriageHolders, Holders
<1>2. \A i \in Holders(r) : i = id
  BY <1>1 DEF InCustody, Alone
<1>3. id \notin CaptureSide /\ id \notin DiffSide
  <2>1. id \in TriageSide /\ id \in BeforeDiff
    BY DEF TriageSide, BeforeDiff, TasksOf
  <2>2. QED  BY <2>1 DEF UniqueIds
<1>4. \A q : \A e \in OfRelease(q, r) : e.id \in Ids(q)
  BY DEF OfRelease, Ids
<1>5. CaptureHolders(r) \subseteq CaptureSide /\ DiffHolders(r) \subseteq DiffSide
  BY <1>4 DEF CaptureHolders, CaptureSide, DiffHolders, DiffSide, TasksOf
<1>6. QED  BY <1>1, <1>2, <1>3, <1>5 DEF Holders, InCustody, HoldersOK

\* A task leaves, or goes on with the release in hand.
LEMMA QuietTriage ==
    ASSUME Custody, NEW r \in Releases, NEW id \in TasksOf(triages, r), TriageTouches(r, id),
           UNCHANGED <<index, capture_queue>>,
           GoesOn(triages, triages', id) => triages[id].pc # "check" /\ triages'[id].pc # "check"
    PROVE  Custody'
<1>1. /\ UNCHANGED <<final, staging, hand, triage_queue, diff_queue, captures, posts, diffs,
                     audited, audit_hand, observations>>
      /\ InCustody(r) /\ HoldersOK(r)
  BY DEF TriageTouches, Custody, InCustody
<1>2. /\ TasksOf(triages', r) \subseteq TasksOf(triages, r)
      /\ \A i \in TasksOf(triages', r) :
             \/ triages'[i] = triages[i]
             \/ i = id /\ triages[id].pc # "check" /\ triages'[id].pc # "check"
  <2>1. CASE Reaped(triages, triages', id)
    BY <2>1 DEF Reaped, TasksOf
  <2>2. CASE GoesOn(triages, triages', id)
    BY <2>2, TaskGoesOn DEF TasksOf, GoesOn
  <2>3. QED  BY <2>1, <2>2 DEF TriageTouches
<1>3. /\ InHand(r)' = InHand(r) /\ PassiveIds(r)' \subseteq PassiveIds(r)
      /\ TriageHolders(r)' \subseteq TriageHolders(r)
  BY <1>1, <1>2 DEF InHand, PassiveIds, TriageHolders
<1>4. PassiveTiers(r)' \subseteq PassiveTiers(r)
  BY <1>1, <1>2, <1>3 DEF PassiveTiers
<1>5. CaptureHolders(r)' = CaptureHolders(r) /\ DiffHolders(r)' = DiffHolders(r)
  BY <1>1 DEF CaptureHolders, DiffHolders
<1>6. Steady(r)
  BY <1>1, <1>3 DEF Steady, Passive
<1>7. HoldersOK(r)'
  BY <1>1, <1>3, <1>6, HoldersStayOK DEF Fewer
<1>8. Holders(r)' \subseteq Holders(r)
  BY <1>3, <1>5 DEF Holders
<1>9. InCustody(r)'
  BY <1>1, <1>3, <1>4, <1>5, <1>6, <1>7, <1>8, RequestMovesOn
<1>10. QED  BY <1>9, OthersInTriage DEF Custody

\* Triage looks at the row and takes the release in hand.
LEMMA TriageTakesUp ==
    ASSUME IInv, Custody, NEW r \in Releases, NEW id \in TasksOf(triages, r),
           TriageTouches(r, id), UNCHANGED <<index, capture_queue>>,
           GoesOn(triages, triages', id), triages[id].pc = "check", triages'[id].pc # "check",
           index[r].capture \notin {"ready", "skipped"}
    PROVE  Custody'
<1>1. /\ UNCHANGED <<final, staging, hand, triage_queue, diff_queue, captures, posts, diffs,
                     audited, audit_hand, observations>>
      /\ InCustody(r) /\ HoldersOK(r) /\ UniqueIds /\ id \in DOMAIN triages
      /\ triages[id].request.event.release = r
      /\ triages[id].request.event.tier \in Tiers
  BY DEF TriageTouches, Custody, InCustody, IInv, TypeInv, TaskTypes, TriageTask, TriageRequest,
     Event, TasksOf
<1>2. index[r] \in Row /\ index[r].capture \in {"pending", "failed"}
  <2>1. index[r] \in Row
    BY <1>1 DEF IInv, HighWaits, WaitingIsHigh, TypeInv, StoreTypes
  <2>2. QED  BY <2>1 DEF Row, JobStates
\* Nobody had it, and no other request waits.
<1>3. Holders(r) = {} /\ final[r] = {} /\ ~InHand(r) /\ PassiveIds(r) = {id}
  <2>1. id \in PassiveIds(r) /\ triages[id].request.event.tier \in PassiveTiers(r)
    BY <1>1 DEF PassiveIds, PassiveTiers
  <2>2. PassiveOK(r, triages[id].request.event.tier)
    BY <1>1, <2>1 DEF InCustody, PassivesOK
  <2>3. QED  BY <1>1, <1>2, <2>1, <2>2 DEF PassiveOK, InCustody, Alone
<1>4. /\ TasksOf(triages', r) = TasksOf(triages, r)
      /\ \A i \in TasksOf(triages, r) \ {id} : triages'[i] = triages[i]
  BY <1>1, TaskGoesOn DEF GoesOn, TasksOf
<1>5. OfRelease(triage_queue, r) = {} /\ \A i \in TasksOf(triages, r) : i # id => triages[i].pc # "check"
  <2>1. id \notin Ids(triage_queue)
    BY <1>1 DEF UniqueIds
  <2>2. \A e \in OfRelease(triage_queue, r) : e.id \in PassiveIds(r) /\ e.id \in Ids(triage_queue)
    BY DEF PassiveIds, OfRelease, Ids
  <2>3. QED  BY SMTT(40), <1>3, <2>1, <2>2 DEF PassiveIds
<1>6. TriageHolders(r)' = {id} /\ PassiveIds(r)' = {} /\ ~InHand(r)' /\ PassiveTiers(r)' = {}
  <2>1. /\ id \in TasksOf(triages', r) /\ OfRelease(triage_queue', r) = {}
        /\ \A i \in TasksOf(triages', r) : triages'[i].pc # "check"
        /\ \A i \in TasksOf(triages', r) : i = id
    BY <1>1, <1>3, <1>4, <1>5 DEF Holders, TriageHolders
  <2>2. ~InHand(r)'
    BY <1>1, <1>3 DEF InHand
  <2>3. QED  BY <2>1, <2>2 DEF TriageHolders, PassiveIds, PassiveTiers
<1>7. CaptureHolders(r)' = {} /\ DiffHolders(r)' = {} /\ CaptureHolders(r) = {}
  BY ZenonT(60), <1>1, <1>3 DEF CaptureHolders, DiffHolders, Holders
<1>8. Alone(r)' /\ RowOK(r)' /\ AuditOK(r)' /\ CleanOK(r)'
  <2>1. Alone(r)'
    BY <1>6, <1>7 DEF Alone, Holders
  <2>2. RowOK(r)'
    BY <1>1 DEF InCustody, RowOK
  <2>3. AuditOK(r)'
    BY <1>1, <1>2 DEF InCustody, AuditOK, SkippedByPolicy
  <2>4. CleanOK(r)'
    BY <1>1, <1>7 DEF InCustody, CleanOK
  <2>5. QED  BY <2>1, <2>2, <2>3, <2>4
<1>9. HoldersOK(r)'
  <2>1. TriageOK(r)'
    BY <1>1, <1>2, <1>3 DEF TriageOK
  <2>2. /\ \A e \in OfRelease(capture_queue, r)' : FALSE
        /\ \A i \in TasksOf(captures, r)' : captures'[i].pc = "none"
        /\ \A i \in TasksOf(posts, r)' : posts'[i].pc = "none"
    BY <1>7 DEF CaptureHolders
  <2>3. (\A e \in OfRelease(diff_queue, r)' : FALSE) /\ TasksOf(diffs, r)' = {}
    BY <1>7 DEF DiffHolders
  <2>4. QED  BY <2>1, <2>2, <2>3 DEF HoldersOK
<1>10. InCustody(r)'
  BY <1>6, <1>8, <1>9 DEF InCustody, PassivesOK
<1>11. QED  BY <1>10, OthersInTriage DEF Custody

\* A candidate goes on to the capture worker.
LEMMA PromoteStays ==
    ASSUME IInv, Custody, NEW r \in Releases, NEW id \in TasksOf(triages, r), PromoteTriaged(id)
    PROVE  Custody'
<1>1. /\ UniqueIds /\ capture_queue \in Seq(CaptureRequest) /\ InCustody(r)
      /\ triages[id].request \in TriageRequest /\ id \in Nat
      /\ triages[id].request.event.release = r /\ triages[id].pc # "check"
  BY DEF IInv, TypeInv, QueueTypes, TaskTypes, TriageTask, TasksOf, Custody, PromoteTriaged, At
<1>2. /\ triages' = Reap(triages, id)
      /\ UNCHANGED <<index, final, staging, hand, triage_queue, diff_queue, captures, posts, diffs,
                     audited, audit_hand, observations>>
  BY DEF PromoteTriaged, OnlyTriage, auditing
<1>3. PICK e : e = Triaged(id, triages[id].request.event, triages[id].request.notify_diff)
  OBVIOUS
<1>4. /\ e \in CaptureRequest /\ e.id = id /\ e.event.release = r /\ e.retention = "ephemeral"
      /\ capture_queue' = Append(capture_queue, e)
  BY <1>1, <1>3 DEF PromoteTriaged, Triaged, CaptureRequest, TriageRequest
<1>5. \A x : OfRelease(capture_queue', x) =
                 OfRelease(capture_queue, x) \cup {f \in {e} : f.event.release = x}
  BY <1>1, <1>4, AppendOf
<1>6. Reaped(triages, triages', id)
  BY <1>2, ReapOf
<1>7. \A x \in Releases \ {r} : OfRelease(capture_queue', x) = OfRelease(capture_queue, x)
  BY ZenonT(60), <1>4, <1>5
<1>8. TriageTouches(r, id)
  BY <1>2, <1>6, <1>7 DEF TriageTouches
<1>9. /\ TriageHolders(r) = {id} /\ CaptureHolders(r) = {} /\ DiffHolders(r) = {}
      /\ Holders(r) = {id} /\ TriageOK(r)
  BY <1>1, TriageIsAlone
<1>10. /\ TasksOf(triages', r) = TasksOf(triages, r) \ {id}
       /\ \A i \in TasksOf(triages', r) : triages'[i] = triages[i]
  BY <1>6 DEF Reaped, TasksOf
<1>11. /\ InHand(r)' = InHand(r) /\ PassiveIds(r)' = PassiveIds(r) /\ TriageHolders(r)' = {}
       /\ PassiveTiers(r)' \subseteq PassiveTiers(r)
  <2>1. InHand(r)' = InHand(r)
    BY <1>2 DEF InHand
  <2>2. PassiveIds(r)' = PassiveIds(r)
    BY ZenonT(60), <1>1, <1>2, <1>10 DEF PassiveIds
  <2>3. TriageHolders(r)' = {}
    BY <1>9, <1>10 DEF TriageHolders
  <2>4. PassiveTiers(r)' \subseteq PassiveTiers(r)
    BY <1>2, <1>10, <2>1 DEF PassiveTiers
  <2>5. QED  BY <2>1, <2>2, <2>3, <2>4
<1>12. OfRelease(capture_queue', r) = {e}
  <2>1. OfRelease(capture_queue, r) = {}
    BY <1>9 DEF CaptureHolders
  <2>2. QED  BY <1>4, <1>5, <2>1
<1>13. CaptureHolders(r)' = {id} /\ Holders(r)' = {id}
  <2>1. /\ \A i \in TasksOf(captures, r) : captures[i].pc = "none"
        /\ \A i \in TasksOf(posts, r) : posts[i].pc = "none"
    BY <1>9 DEF CaptureHolders
  <2>2. CaptureHolders(r)' = {id}
    BY <1>2, <1>4, <1>12, <2>1 DEF CaptureHolders
  <2>3. DiffHolders(r)' = {}
    BY <1>2, <1>9 DEF DiffHolders
  <2>4. QED  BY <1>11, <2>2, <2>3 DEF Holders
<1>14. HoldersOK(r)'
  <2>1. QueuedOK(r, "ephemeral")'
    BY <1>1, <1>2, <1>9 DEF InCustody, RowOK, TriageOK, QueuedOK, CarryOK
  <2>2. \A f \in OfRelease(capture_queue', r) : QueuedOK(r, f.retention)'
    BY <1>4, <1>12, <2>1
  <2>3. /\ \A i \in TasksOf(captures, r) : captures[i].pc = "none"
        /\ \A i \in TasksOf(posts, r) : posts[i].pc = "none"
    BY <1>9 DEF CaptureHolders
  <2>4. (\A f \in OfRelease(diff_queue, r) : FALSE) /\ TasksOf(diffs, r) = {}
    BY <1>9 DEF DiffHolders
  <2>5. QED  BY <1>2, <1>11, <2>2, <2>3, <2>4 DEF HoldersOK
<1>15. Steady(r)
  BY <1>2, <1>11 DEF Steady, Passive
<1>16. InCustody(r)'
  BY <1>1, <1>2, <1>9, <1>11, <1>13, <1>14, <1>15, RequestMovesOn
<1>17. QED  BY <1>8, <1>16, OthersInTriage DEF Custody

\* A release of no interest is skipped.
LEMMA DropStays ==
    ASSUME IInv, Custody, NEW r \in Releases, NEW id \in TasksOf(triages, r), DropTriaged(id)
    PROVE  Custody'
<1>1. /\ UniqueIds /\ InCustody(r) /\ StoreTypes /\ TypeInv
      /\ triages[id].request.event.release = r /\ triages[id].pc # "check"
      /\ TriageRelease(id) = r /\ index[r] \in Row /\ index[r] # NoRow
  <2>1. /\ UniqueIds /\ InCustody(r) /\ StoreTypes /\ TypeInv /\ HighWaits /\ id \in DOMAIN triages
        /\ triages[id].request.event.release = r /\ triages[id].pc # "check"
    BY DEF IInv, TypeInv, TasksOf, Custody, DropTriaged, At
  <2>2. index[r] # NoRow
    BY <2>1 DEF HighWaits, WaitingIsHigh
  <2>3. QED  BY <2>1, <2>2 DEF StoreTypes, TriageRelease
<1>2. /\ triages' = Reap(triages, id)
      /\ UNCHANGED <<final, staging, hand, triage_queue, capture_queue, diff_queue, captures, posts,
                     diffs, audited, audit_hand, observations>>
  BY DEF DropTriaged, OnlyTriage, auditing
<1>3. /\ index'[r].capture = "skipped" /\ index'[r].capture_reason = "triage"
      /\ index'[r].diff = index[r].diff
      /\ \A x \in Releases \ {r} : index'[x] = index[x]
  BY <1>1, WrittenRow, MarkedRow DEF DropTriaged
<1>4. Reaped(triages, triages', id)
  BY <1>2, ReapOf
<1>5. TriageTouches(r, id)
  BY <1>2, <1>3, <1>4 DEF TriageTouches
<1>6. /\ TriageHolders(r) = {id} /\ CaptureHolders(r) = {} /\ DiffHolders(r) = {}
      /\ Holders(r) = {id} /\ TriageOK(r)
  BY <1>1, TriageIsAlone
<1>7. /\ TasksOf(triages', r) = TasksOf(triages, r) \ {id}
      /\ \A i \in TasksOf(triages', r) : triages'[i] = triages[i]
  BY <1>4 DEF Reaped, TasksOf
<1>8. TriageHolders(r)' = {} /\ CaptureHolders(r)' = {} /\ DiffHolders(r)' = {} /\ Holders(r)' = {}
  <2>1. TriageHolders(r)' = {}
    BY <1>6, <1>7 DEF TriageHolders
  <2>2. CaptureHolders(r)' = {} /\ DiffHolders(r)' = {}
    BY <1>2, <1>6 DEF CaptureHolders, DiffHolders
  <2>3. QED  BY <2>1, <2>2 DEF Holders
<1>9. PassiveIds(r)' = PassiveIds(r)
  BY <1>1, <1>2, <1>7 DEF PassiveIds
<1>10. PassiveTiers(r)' = PassiveTiers(r)
  <2>1. InHand(r)' = InHand(r)
    BY <1>2 DEF InHand
  <2>2. QED  BY <1>1, <1>2, <1>7, <2>1 DEF PassiveTiers
<1>11. HoldersOK(r)'
  <2>1. /\ \A f \in OfRelease(capture_queue, r) : FALSE
        /\ \A i \in TasksOf(captures, r) : captures[i].pc = "none"
        /\ \A i \in TasksOf(posts, r) : posts[i].pc = "none"
    BY <1>6 DEF CaptureHolders
  <2>2. (\A f \in OfRelease(diff_queue, r) : FALSE) /\ TasksOf(diffs, r) = {}
    BY <1>6 DEF DiffHolders
  <2>3. QED  BY <1>2, <1>8, <2>1, <2>2 DEF HoldersOK
<1>12. index'[r].diff # "ready"
  BY <1>1, <1>3, <1>6 DEF InCustody, RowOK, TriageOK
<1>13. CleanOK(r)'
  BY <1>3 DEF CleanOK
<1>14. observations[r] # 0
  BY <1>1 DEF InCustody, RowOK
<1>15. InCustody(r)'
  BY <1>1, <1>2, <1>3, <1>6, <1>8, <1>9, <1>10, <1>11, <1>12, <1>13, <1>14, HolderGoesOn
  DEF SkippedByPolicy, Dropped
<1>16. QED  BY <1>5, <1>15, OthersInTriage DEF Custody

LEMMA TriageTaskStays ==
    ASSUME IInv, Custody, NEW r \in Releases, NEW id \in TasksOf(triages, r), TriageTaskStep(id)
    PROVE  Custody'
<1>1. /\ id \in DOMAIN triages /\ triages[id].request.event.release = r /\ TriageRelease(id) = r
      /\ triages[id] \in TriageTask
  BY DEF TasksOf, TriageRelease, IInv, TypeInv, TaskTypes
<1>2. triages' = Reap(triages, id) => Reaped(triages, triages', id) /\ ~GoesOn(triages, triages', id)
  <2>1. triages' = Reap(triages, id) => Reaped(triages, triages', id)
    BY ReapOf
  <2>2. triages' = Reap(triages, id) => DOMAIN triages' # DOMAIN triages
    BY <1>1 DEF Reap
  <2>3. QED  BY <2>1, <2>2 DEF GoesOn
<1>3. \A pc : triages' = [triages EXCEPT ![id].pc = pc] =>
                  GoesOn(triages, triages', id) /\ triages'[id].pc = pc
  BY <1>1 DEF GoesOn, TriageTask
<1>4. CASE CheckRow(id)
  <2>1. triages[id].pc = "check" /\ UNCHANGED <<index, capture_queue>>
    BY <1>4 DEF CheckRow, At
  <2>2. CASE index[r].capture \in {"ready", "skipped"}
    <3>1. triages' = Reap(triages, id)
      BY <1>1, <1>4, <2>2 DEF CheckRow
    <3>2. TriageTouches(r, id)
      BY <1>2, <1>4, <2>1, <3>1 DEF CheckRow, OnlyTriage, TriageTouches, auditing
    <3>3. QED  BY <1>2, <2>1, <3>1, <3>2, QuietTriage
  <2>3. CASE index[r].capture \notin {"ready", "skipped"}
    <3>1. triages' = [triages EXCEPT ![id].pc = "decide"]
      BY <1>1, <1>4, <2>3 DEF CheckRow
    <3>2. TriageTouches(r, id)
      BY <1>3, <1>4, <2>1, <3>1 DEF CheckRow, OnlyTriage, TriageTouches, auditing
    <3>3. QED  BY <1>3, <2>1, <2>3, <3>1, <3>2, TriageTakesUp
  <2>4. QED  BY <2>2, <2>3
<1>5. CASE Decide(id)
  <2>1. /\ triages[id].pc = "decide" /\ UNCHANGED <<index, capture_queue>>
        /\ \E pc \in {"send", "skip"} : triages' = [triages EXCEPT ![id].pc = pc]
    BY <1>5 DEF Decide, At
  <2>2. TriageTouches(r, id)
    BY <1>3, <1>5, <2>1 DEF Decide, OnlyTriage, TriageTouches, auditing
  <2>3. QED  BY <1>3, <2>1, <2>2, QuietTriage
<1>6. CASE HydrateFails(id)
  <2>1. triages' = Reap(triages, id) /\ UNCHANGED <<index, capture_queue>>
    BY <1>6 DEF HydrateFails
  <2>2. TriageTouches(r, id)
    BY <1>2, <1>6, <2>1 DEF HydrateFails, OnlyTriage, TriageTouches, auditing
  <2>3. QED  BY <1>2, <2>1, <2>2, QuietTriage
<1>7. QED  BY <1>4, <1>5, <1>6, PromoteStays, DropStays DEF TriageTaskStep

-----------------------------------------------------------------------------
(* The main loop and the audit.                                            *)

\* A release that was never observed is in nobody's hands.
LEMMA UnseenIsFree ==
    ASSUME TypeInv, HighWaits, NEW r \in Releases, index[r] = NoRow
    PROVE  Holders(r) = {} /\ PassiveIds(r) = {} /\ ~InHand(r) /\ r \notin audit_hand
<1>1. /\ ~InHand(r) /\ OfRelease(triage_queue, r) = {} /\ TasksOf(triages, r) = {}
      /\ OfRelease(capture_queue, r) = {} /\ TasksOf(captures, r) = {} /\ TasksOf(posts, r) = {}
      /\ OfRelease(diff_queue, r) = {} /\ TasksOf(diffs, r) = {}
  BY DEF HighWaits, WaitingIsHigh, InHand, OfRelease, TasksOf
<1>2. Holders(r) = {} /\ PassiveIds(r) = {}
  BY <1>1 DEF Holders, TriageHolders, CaptureHolders, DiffHolders, PassiveIds
<1>3. QED  BY <1>1, <1>2 DEF TypeInv, ControlTypes

LEMMA FirstRow ==
    ASSUME NEW tier \in Tiers
    PROVE  LET new == UpsertEventRow(NoRow, "observed", tier)
           IN  /\ new.diff # "ready" /\ new.capture_reason \notin Dropped
               /\ tier # "low" => new.capture = "pending"
               /\ tier = "low" => new.capture = "skipped" /\ new.capture_reason = "policy"
BY DEF UpsertEventRow, NoRow, Settled, JobStates, Tiers, DefaultCaptureState, DefaultDiffState,
   CaptureSkipReason, CaptureRequested, DiffRequested, Dropped

\* The only place where it matters that a release is observed once.
LEMMA ObserveStays ==
    ASSUME MaxObservations = 1, IInv, Custody, NEW event \in Event, Observe(event)
    PROVE  Custody'
<1>1. PICK r \in Releases : r = event.release
  BY DEF Event
<1>2. PICK tier \in Tiers : tier = event.tier
  BY DEF Event
<1>3. /\ TypeInv /\ HighWaits /\ StoreTypes /\ InCustody(r)
      /\ observations \in [Releases -> 0..1]
  BY DEF IInv, TypeInv, Custody, ControlTypes
<1>4. /\ observations' = [observations EXCEPT ![r] = @ + 1] /\ observations[r] = 0
      /\ hand = <<>> /\ hand' = <<event>>
      /\ Write(r, UpsertEventRow(index[r], "observed", tier))
      /\ UNCHANGED <<final, staging, triage_queue, capture_queue, diff_queue, triages, captures,
                     posts, diffs, audited, audit_hand>>
  BY <1>1, <1>2, <1>3 DEF Observe, inflight, auditing
<1>5. index[r] = NoRow /\ final[r] = {} /\ staging[r] = {} /\ r \notin audited
  BY <1>3, <1>4 DEF InCustody, RowOK
<1>6. /\ index'[r].diff # "ready" /\ index'[r].capture_reason \notin Dropped
      /\ tier # "low" => index'[r].capture = "pending"
      /\ tier = "low" => index'[r].capture = "skipped" /\ index'[r].capture_reason = "policy"
      /\ \A x \in Releases \ {r} : index'[x] = index[x]
  BY <1>3, <1>4, <1>5, WrittenRow, FirstRow
<1>7. observations'[r] # 0 /\ \A x \in Releases \ {r} : observations'[x] = observations[x]
  BY <1>3, <1>4
<1>8. hand' # <<>> /\ Head(hand') = event
  BY <1>4
<1>9. \A x : /\ Same(triages, triages', x) /\ Same(captures, captures', x)
             /\ Same(posts, posts', x) /\ Same(diffs, diffs', x)
  BY <1>4 DEF Same
<1>10. ASSUME NEW x \in Releases, x # r  PROVE InCustody(x)'
  <2>1. ~InHand(x) /\ ~InHand(x)'
    BY <1>1, <1>4, <1>8, <1>10 DEF InHand
  <2>2. Untouched(x)
    BY <1>4, <1>6, <1>7, <1>9, <1>10, <2>1 DEF Untouched
  <2>3. QED  BY <1>10, <2>2, UntouchedStays DEF Custody
<1>11. InCustody(r)'
  <2>1. Holders(r) = {} /\ PassiveIds(r) = {} /\ r \notin audit_hand
    BY <1>3, <1>5, UnseenIsFree
  <2>2. /\ OfRelease(triage_queue, r) = {}
        /\ \A i \in TasksOf(triages, r) : triages[i].pc # "check"
        /\ TriageHolders(r) = {} /\ CaptureHolders(r) = {} /\ DiffHolders(r) = {}
    BY <2>1 DEF PassiveIds, Holders
  <2>3. /\ TriageHolders(r)' = {} /\ CaptureHolders(r)' = {} /\ DiffHolders(r)' = {}
        /\ PassiveIds(r)' = {}
    BY <1>4, <2>1, <2>2 DEF TriageHolders, CaptureHolders, DiffHolders, PassiveIds
  <2>4. Holders(r)' = {}
    BY <2>3 DEF Holders
  <2>5. PassiveTiers(r)' \subseteq {tier}
    BY <1>2, <1>4, <1>8, <2>2 DEF PassiveTiers
  <2>6. Alone(r)' /\ RowOK(r)' /\ AuditOK(r)' /\ CleanOK(r)'
    <3>1. Alone(r)'
      BY <2>3, <2>4 DEF Alone
    <3>2. RowOK(r)'
      BY <1>6, <1>7 DEF RowOK
    <3>3. AuditOK(r)'
      BY <1>4, <1>5, <2>1, <2>4 DEF AuditOK
    <3>4. CleanOK(r)'
      BY <1>6 DEF CleanOK, Dropped
    <3>5. QED  BY <3>1, <3>2, <3>3, <3>4
  <2>7. PassiveOK(r, tier)'
    BY <1>4, <1>5, <1>6, <2>4 DEF PassiveOK
  <2>8. PassivesOK(r)'
    BY <2>5, <2>7 DEF PassivesOK
  <2>9. HoldersOK(r)'
    <3>1. /\ \A f \in OfRelease(capture_queue, r) : FALSE
          /\ \A i \in TasksOf(captures, r) : captures[i].pc = "none"
          /\ \A i \in TasksOf(posts, r) : posts[i].pc = "none"
      BY <2>2 DEF CaptureHolders
    <3>2. (\A f \in OfRelease(diff_queue, r) : FALSE) /\ TasksOf(diffs, r) = {}
      BY <2>2 DEF DiffHolders
    <3>3. QED  BY <1>4, <2>3, <3>1, <3>2 DEF HoldersOK
  <2>10. QED  BY <2>6, <2>8, <2>9 DEF InCustody
<1>12. QED  BY <1>10, <1>11 DEF Custody

\* The main loop hands the release on: nobody had one of high or medium
\* priority before, and an event of low priority changes nothing.
LEMMA DispatchStays ==
    ASSUME IInv, Custody, Dispatch
    PROVE  Custody'
<1>1. /\ TypeInv /\ hand # <<>> /\ Head(hand) \in Event /\ next_id \in Nat
      /\ triage_queue \in Seq(TriageRequest) /\ capture_queue \in Seq(CaptureRequest)
  BY DEF IInv, TypeInv, QueueTypes, ControlTypes, Dispatch
<1>2. PICK event \in Event : event = Head(hand)
  BY <1>1
<1>3. PICK r \in Releases : r = event.release
  BY DEF Event
<1>4. /\ hand' = <<>>
      /\ UNCHANGED <<index, final, staging, diff_queue, triages, captures, posts, diffs, audited,
                     audit_hand, observations>>
  BY DEF Dispatch, evidence, inflight, auditing
<1>5. \A x : /\ Same(triages, triages', x) /\ Same(captures, captures', x)
             /\ Same(posts, posts', x) /\ Same(diffs, diffs', x)
  BY <1>4 DEF Same
<1>6. /\ InCustody(r) /\ InHand(r) /\ ~InHand(r)' /\ PassiveIds(r) = {}
  BY <1>1, <1>2, <1>3, <1>4 DEF Custody, InHand, InCustody, Alone
<1>7. /\ OfRelease(triage_queue, r) = {}
      /\ \A i \in TasksOf(triages, r) : triages[i].pc # "check"
      /\ event.tier \in PassiveTiers(r) /\ PassiveOK(r, event.tier)
  <2>1. /\ OfRelease(triage_queue, r) = {}
        /\ \A i \in TasksOf(triages, r) : triages[i].pc # "check"
    BY <1>6 DEF PassiveIds
  <2>2. event.tier \in PassiveTiers(r)
    BY <1>2, <1>6 DEF PassiveTiers, Event
  <2>3. QED  BY <1>6, <2>1, <2>2 DEF InCustody, PassivesOK
<1>8. \A x : x # r => ~InHand(x) /\ ~InHand(x)'
  BY <1>2, <1>3, <1>4 DEF InHand
<1>9. ASSUME NEW x \in Releases, x # r,
             OfRelease(triage_queue', x) = OfRelease(triage_queue, x),
             OfRelease(capture_queue', x) = OfRelease(capture_queue, x)
      PROVE  InCustody(x)'
  <2>1. Untouched(x)
    BY <1>4, <1>5, <1>8, <1>9 DEF Untouched
  <2>2. QED  BY <2>1, UntouchedStays DEF Custody
<1>10. CASE event.tier = "high"
  <2>1. PICK e : e = Observed(next_id, event, DiffRequestedWithGraph(event.tier, event.graph))
    OBVIOUS
  <2>2. /\ e \in CaptureRequest /\ e.event.release = r /\ e.retention = "permanent"
        /\ capture_queue' = Append(capture_queue, e) /\ triage_queue' = triage_queue
    BY <1>1, <1>2, <1>3, <1>10, <2>1
    DEF Dispatch, Observed, CaptureRequest, DiffRequestedWithGraph, DiffRequested
  <2>3. \A x : OfRelease(capture_queue', x) =
                   OfRelease(capture_queue, x) \cup {f \in {e} : f.event.release = x}
    BY <1>1, <2>2, AppendOf
  <2>4. ASSUME NEW x \in Releases, x # r  PROVE InCustody(x)'
    BY <1>9, <2>2, <2>3, <2>4
  <2>5. /\ index[r].capture = "pending" /\ r \notin audited /\ final[r] = {} /\ staging[r] = {}
        /\ Holders(r) = {} /\ r \notin audit_hand
    BY <1>1, <1>7, <1>10 DEF PassiveOK, TypeInv, ControlTypes
  <2>6. /\ TriageHolders(r) = {} /\ OfRelease(capture_queue, r) = {}
        /\ \A i \in TasksOf(captures, r) : captures[i].pc = "none"
        /\ \A i \in TasksOf(posts, r) : posts[i].pc = "none"
        /\ OfRelease(diff_queue, r) = {} /\ TasksOf(diffs, r) = {}
    BY SMTT(40), <2>5 DEF Holders, CaptureHolders, DiffHolders
  <2>7. OfRelease(capture_queue', r) = {e}
    BY <2>2, <2>3, <2>6
  <2>8. /\ TriageHolders(r)' = {} /\ PassiveIds(r)' = {} /\ PassiveTiers(r)' = {}
        /\ Holders(r)' = {e.id}
    <3>1. TriageHolders(r)' = {}
      BY <1>4, <2>6 DEF TriageHolders
    <3>2. PassiveIds(r)' = {} /\ PassiveTiers(r)' = {}
      BY <1>4, <1>6, <1>7, <2>2 DEF PassiveIds, PassiveTiers
    <3>3. CaptureHolders(r)' = {e.id}
      BY <1>4, <2>6, <2>7 DEF CaptureHolders
    <3>4. DiffHolders(r)' = {}
      BY <1>4, <2>6 DEF DiffHolders
    <3>5. QED  BY <3>1, <3>2, <3>3, <3>4 DEF Holders
  <2>9. Alone(r)' /\ RowOK(r)' /\ AuditOK(r)' /\ CleanOK(r)'
    <3>1. Alone(r)'
      BY <1>6, <2>8 DEF Alone
    <3>2. RowOK(r)'
      BY <1>4, <1>6 DEF InCustody, RowOK
    <3>3. AuditOK(r)'
      BY <1>4, <2>5 DEF AuditOK, SkippedByPolicy
    <3>4. CleanOK(r)'
      BY <1>4, <2>5 DEF CleanOK
    <3>5. QED  BY <3>1, <3>2, <3>3, <3>4
  <2>10. HoldersOK(r)'
    <3>1. ~Passive(r)'
      BY <1>6, <2>8 DEF Passive
    <3>2. index[r].diff # "ready" /\ index[r].capture_reason \notin Dropped
      BY <1>6, <2>5 DEF InCustody, RowOK
    <3>3. QueuedOK(r, "permanent")'
      BY <1>4, <2>5, <3>1, <3>2 DEF QueuedOK, CarryOK
    <3>4. \A f \in OfRelease(capture_queue', r) : QueuedOK(r, f.retention)'
      BY <2>2, <2>7, <3>3
    <3>5. QED  BY <1>4, <2>6, <2>8, <3>4 DEF HoldersOK
  <2>11. InCustody(r)'
    BY <2>8, <2>9, <2>10 DEF InCustody, PassivesOK
  <2>12. QED  BY <2>4, <2>11 DEF Custody
<1>11. CASE event.tier # "high"
  <2>1. PICK e : e = [id |-> next_id, event |-> event,
                      notify_diff |-> DiffRequestedWithGraph(event.tier, event.graph)]
    OBVIOUS
  <2>2. /\ e \in TriageRequest /\ e.event = event
        /\ triage_queue' = Append(triage_queue, e) /\ capture_queue' = capture_queue
    BY <1>1, <1>2, <1>11, <2>1
    DEF Dispatch, TriageRequest, DiffRequestedWithGraph, DiffRequested
  <2>3. \A x : OfRelease(triage_queue', x) =
                   OfRelease(triage_queue, x) \cup {f \in {e} : f.event.release = x}
    BY <1>1, <2>2, AppendOf
  <2>4. ASSUME NEW x \in Releases, x # r  PROVE InCustody(x)'
    BY <1>3, <1>9, <2>2, <2>3, <2>4
  <2>5. OfRelease(triage_queue', r) = {e}
    BY <1>3, <1>7, <2>2, <2>3
  <2>6. /\ PassiveIds(r)' = {e.id} /\ PassiveTiers(r)' \subseteq {event.tier}
        /\ TriageHolders(r)' = TriageHolders(r)
    <3>1. PassiveIds(r)' = {e.id}
      BY <1>4, <1>7, <2>5 DEF PassiveIds
    <3>2. PassiveTiers(r)' \subseteq {event.tier}
      BY <1>4, <1>6, <1>7, <2>2, <2>5 DEF PassiveTiers
    <3>3. TriageHolders(r)' = TriageHolders(r)
      BY <1>4 DEF TriageHolders
    <3>4. QED  BY <3>1, <3>2, <3>3
  <2>7. CaptureHolders(r)' = CaptureHolders(r) /\ DiffHolders(r)' = DiffHolders(r)
    BY <1>4, <2>2 DEF CaptureHolders, DiffHolders
  <2>8. Holders(r)' = Holders(r)
    BY <2>6, <2>7 DEF Holders
  <2>9. Alone(r)' /\ RowOK(r)' /\ AuditOK(r)' /\ CleanOK(r)'
    <3>1. Alone(r)'
      BY <1>6, <2>6, <2>8 DEF InCustody, Alone
    <3>2. RowOK(r)'
      BY <1>4, <1>6 DEF InCustody, RowOK
    <3>3. AuditOK(r)'
      BY <1>4, <1>6, <2>8 DEF InCustody, AuditOK, SkippedByPolicy
    <3>4. CleanOK(r)'
      BY <1>4, <1>6, <2>7 DEF InCustody, CleanOK
    <3>5. QED  BY <3>1, <3>2, <3>3, <3>4
  <2>10. PassivesOK(r)'
    <3>1. PassiveOK(r, event.tier)'
      BY <1>4, <1>7, <2>8 DEF PassiveOK
    <3>2. QED  BY <2>6, <3>1 DEF PassivesOK
  <2>11. HoldersOK(r)'
    <3>1. Steady(r)
      BY <1>4, <1>6 DEF Steady, Passive
    <3>2. QED
      BY <1>4, <1>5, <1>6, <2>2, <2>6, <3>1, HoldersStayOK DEF InCustody, Fewer, Same
  <2>12. InCustody(r)'
    BY <2>9, <2>10, <2>11 DEF InCustody
  <2>13. QED  BY <2>4, <2>12 DEF Custody
<1>12. QED  BY <1>10, <1>11

\* The audit remembers what it takes up, and takes up what nobody has.
LEMMA AuditSelectStays ==
    ASSUME IInv, Custody, AuditSelect
    PROVE  Custody'
<1>1. /\ audit_hand = {} /\ audit_hand' \subseteq AuditCandidates
      /\ audited' = audited \cup audit_hand'
      /\ UNCHANGED <<index, final, staging, hand, triage_queue, capture_queue, diff_queue, triages,
                     captures, posts, diffs, observations>>
  BY DEF AuditSelect, OnlyAudit, evidence, inflight
<1>2. \A x : /\ Same(triages, triages', x) /\ Same(captures, captures', x)
             /\ Same(posts, posts', x) /\ Same(diffs, diffs', x)
  BY <1>1 DEF Same
<1>3. ASSUME NEW r \in Releases  PROVE InCustody(r)'
  <2>1. InCustody(r)
    BY DEF Custody
  <2>2. CASE r \notin audit_hand'
    <3>1. Untouched(r)
      BY <1>1, <1>2, <2>2 DEF Untouched
    <3>2. QED  BY <2>1, <3>1, UntouchedStays
  <2>3. CASE r \in audit_hand'
    <3>1. r \notin audited /\ SkippedByPolicy(r)
      BY <1>1, <2>3 DEF AuditCandidates, SkippedByPolicy
    <3>2. Holders(r) = {} /\ final[r] = {} /\ index[r].capture = "skipped" /\ index[r] # NoRow
      BY <2>1, <3>1 DEF InCustody, AuditOK, SkippedByPolicy, NoRow
    <3>3. /\ InHand(r)' = InHand(r) /\ PassiveIds(r)' = PassiveIds(r)
          /\ PassiveTiers(r)' = PassiveTiers(r) /\ TriageHolders(r)' = TriageHolders(r)
          /\ Passive(r)' = Passive(r)
      BY <1>1, <1>2, PassivesStay
    <3>4. CaptureHolders(r)' = CaptureHolders(r) /\ DiffHolders(r)' = DiffHolders(r)
      BY <1>1 DEF CaptureHolders, DiffHolders
    <3>5. Holders(r)' = Holders(r)
      BY <3>3, <3>4 DEF Holders
    <3>6. Alone(r)' /\ RowOK(r)' /\ AuditOK(r)' /\ CleanOK(r)'
      <4>1. Alone(r)'
        BY <2>1, <3>3, <3>5 DEF InCustody, Alone
      <4>2. RowOK(r)'
        BY <1>1, <2>1, <3>2 DEF InCustody, RowOK
      <4>3. AuditOK(r)'
        BY <1>1, <3>1, <3>2, <3>5 DEF AuditOK, SkippedByPolicy
      <4>4. CleanOK(r)'
        BY <1>1, <2>1, <3>4 DEF InCustody, CleanOK
      <4>5. QED  BY <4>1, <4>2, <4>3, <4>4
    <3>7. PassivesOK(r)'
      <4>1. SUFFICES ASSUME NEW tier \in PassiveTiers(r)  PROVE PassiveOK(r, tier)'
        BY <3>3 DEF PassivesOK
      <4>2. PassiveOK(r, tier)
        BY <2>1 DEF InCustody, PassivesOK
      <4>3. QED  BY <1>1, <3>2, <4>2 DEF PassiveOK
    <3>8. HoldersOK(r)'
      <4>1. Steady(r)
        BY <1>1, <3>3 DEF Steady
      <4>2. QED  BY <1>1, <1>2, <2>1, <3>3, <4>1, HoldersStayOK DEF InCustody, Fewer, Same
    <3>9. QED  BY <3>6, <3>7, <3>8 DEF InCustody
  <2>4. QED  BY <2>2, <2>3
<1>4. QED  BY <1>3 DEF Custody

LEMMA AuditSendStays ==
    ASSUME IInv, Custody, NEW r \in Releases, AuditSend(r)
    PROVE  Custody'
<1>1. /\ InCustody(r) /\ r \in audit_hand /\ r \in audited /\ index[r] \in Row
      /\ next_id \in Nat /\ capture_queue \in Seq(CaptureRequest)
  BY DEF Custody, IInv, TypeInv, QueueTypes, StoreTypes, ControlTypes, AuditSend
<1>2. PICK e : e = Triaged(next_id, [release |-> r, tier |-> index[r].tier, graph |-> FALSE], FALSE)
  OBVIOUS
<1>3. e \in CaptureRequest /\ e.event.release = r /\ e.retention = "ephemeral"
  BY <1>1, <1>2 DEF Triaged, CaptureRequest, Event, Row
<1>4. /\ capture_queue' = Append(capture_queue, e) /\ audit_hand' = audit_hand \ {r}
      /\ UNCHANGED <<index, final, staging, hand, triage_queue, diff_queue, triages, captures, posts,
                     diffs, audited, observations>>
  BY <1>2 DEF AuditSend, OnlyAudit, evidence, inflight
<1>5. \A x : /\ Same(triages, triages', x) /\ Same(captures, captures', x)
             /\ Same(posts, posts', x) /\ Same(diffs, diffs', x)
  BY <1>4 DEF Same
<1>6. \A x : OfRelease(capture_queue', x) =
                 OfRelease(capture_queue, x) \cup {f \in {e} : f.event.release = x}
  BY <1>1, <1>3, <1>4, AppendOf
<1>7. ASSUME NEW x \in Releases, x # r  PROVE InCustody(x)'
  <2>1. OfRelease(capture_queue', x) = OfRelease(capture_queue, x)
    BY <1>3, <1>6, <1>7
  <2>2. Untouched(x)
    BY <1>4, <1>5, <1>7, <2>1 DEF Untouched
  <2>3. QED  BY <2>2, UntouchedStays DEF Custody
<1>8. /\ SkippedByPolicy(r) /\ Holders(r) = {} /\ final[r] = {}
      /\ index[r].capture = "skipped" /\ index[r].capture_reason = "policy"
  BY <1>1 DEF InCustody, AuditOK, SkippedByPolicy
<1>9. /\ TriageHolders(r) = {} /\ OfRelease(capture_queue, r) = {}
      /\ \A i \in TasksOf(captures, r) : captures[i].pc = "none"
      /\ \A i \in TasksOf(posts, r) : posts[i].pc = "none"
      /\ OfRelease(diff_queue, r) = {} /\ TasksOf(diffs, r) = {}
  BY <1>8 DEF Holders, CaptureHolders, DiffHolders
<1>10. OfRelease(capture_queue', r) = {e}
  BY <1>3, <1>6, <1>9
<1>11. /\ InHand(r)' = InHand(r) /\ PassiveIds(r)' = PassiveIds(r)
       /\ PassiveTiers(r)' = PassiveTiers(r) /\ TriageHolders(r)' = TriageHolders(r)
  BY <1>4, <1>5, PassivesStay
<1>12. Holders(r)' = {e.id}
  <2>1. CaptureHolders(r)' = {e.id}
    BY <1>4, <1>9, <1>10 DEF CaptureHolders
  <2>2. DiffHolders(r)' = {}
    BY <1>4, <1>9 DEF DiffHolders
  <2>3. QED  BY <1>9, <1>11, <2>1, <2>2 DEF Holders
<1>13. Alone(r)' /\ RowOK(r)' /\ AuditOK(r)' /\ CleanOK(r)'
  <2>1. Alone(r)'
    BY <1>1, <1>11, <1>12 DEF InCustody, Alone
  <2>2. RowOK(r)'
    BY <1>1, <1>4 DEF InCustody, RowOK
  <2>3. AuditOK(r)'
    BY <1>1, <1>4 DEF AuditOK
  <2>4. CleanOK(r)'
    BY <1>4, <1>8 DEF CleanOK
  <2>5. QED  BY <2>1, <2>2, <2>3, <2>4
<1>14. PassivesOK(r)'
  <2>1. SUFFICES ASSUME NEW tier \in PassiveTiers(r)  PROVE PassiveOK(r, tier)'
    BY <1>11 DEF PassivesOK
  <2>2. PassiveOK(r, tier)
    BY <1>1 DEF InCustody, PassivesOK
  <2>3. QED  BY <1>4, <1>8, <2>2 DEF PassiveOK
<1>15. HoldersOK(r)'
  <2>1. QueuedOK(r, "ephemeral")'
    BY <1>1, <1>4, <1>8 DEF InCustody, RowOK, QueuedOK, CarryOK, Dropped
  <2>2. \A f \in OfRelease(capture_queue', r) : QueuedOK(r, f.retention)'
    BY <1>3, <1>10, <2>1
  <2>3. QED  BY <1>4, <1>9, <1>11, <2>2 DEF HoldersOK
<1>16. InCustody(r)'
  BY <1>13, <1>14, <1>15 DEF InCustody
<1>17. QED  BY <1>7, <1>16 DEF Custody

\* The sweeper may take the workspace of any task: nothing is promised of it
\* but to a release that has left staging.
LEMMA SweepStays ==
    ASSUME IInv, Custody, NEW r \in Releases, Sweep(r)
    PROVE  Custody'
<1>1. /\ staging' = [staging EXCEPT ![r] = {}]
      /\ UNCHANGED <<index, final, hand, triage_queue, capture_queue, diff_queue, triages,
                     captures, posts, diffs, audited, audit_hand, observations>>
  BY DEF Sweep, channels, inflight, auditing
<1>2. \A x : /\ Same(triages, triages', x) /\ Same(captures, captures', x)
             /\ Same(posts, posts', x) /\ Same(diffs, diffs', x)
  BY <1>1 DEF Same
<1>3. staging'[r] = {} /\ \A x \in Releases \ {r} : staging'[x] = staging[x]
  BY <1>1 DEF IInv, TypeInv, StoreTypes
<1>4. ASSUME NEW x \in Releases, x # r  PROVE InCustody(x)'
  <2>1. Untouched(x)
    BY <1>1, <1>2, <1>3, <1>4 DEF Untouched
  <2>2. QED  BY <2>1, UntouchedStays DEF Custody
<1>5. InCustody(r)'
  <2>1. /\ InHand(r)' = InHand(r) /\ PassiveIds(r)' = PassiveIds(r)
        /\ PassiveTiers(r)' = PassiveTiers(r) /\ TriageHolders(r)' = TriageHolders(r)
        /\ Passive(r)' = Passive(r)
    BY <1>1, <1>2, PassivesStay
  <2>2. CaptureHolders(r)' = CaptureHolders(r) /\ DiffHolders(r)' = DiffHolders(r)
    BY <1>1 DEF CaptureHolders, DiffHolders
  <2>3. Holders(r)' = Holders(r)
    BY <2>1, <2>2 DEF Holders
  <2>4. Steady(r) /\ InCustody(r)
    BY <1>1, <1>3, <2>1 DEF Steady, Custody
  <2>5. HoldersOK(r)'
    BY <1>1, <1>2, <2>1, <2>4, HoldersStayOK DEF InCustody, Fewer, Same
  <2>6. QED  BY <1>1, <2>1, <2>2, <2>3, <2>4, <2>5, RequestMovesOn
<1>6. QED  BY <1>4, <1>5 DEF Custody

LEMMA ControlStays ==
    ASSUME Custody, CloseIntake \/ ShutdownStep \/ UNCHANGED vars
    PROVE  Custody'
<1>1. UNCHANGED <<index, final, staging, hand, triage_queue, capture_queue, diff_queue, triages,
                  captures, posts, diffs, audited, audit_hand, observations>>
  BY DEF CloseIntake, ShutdownStep, Stop, vars, evidence, channels, inflight, auditing, counters
<1>2. \A x : /\ Same(triages, triages', x) /\ Same(captures, captures', x)
             /\ Same(posts, posts', x) /\ Same(diffs, diffs', x)
  BY <1>1 DEF Same
<1>3. \A x \in Releases : Untouched(x)
  BY <1>1, <1>2 DEF Untouched
<1>4. QED  BY <1>3, UntouchedStays DEF Custody

-----------------------------------------------------------------------------
(* The invariant holds throughout.                                         *)

LEMMA InitCustody == Init => Custody
<1> SUFFICES ASSUME Init, NEW r \in Releases  PROVE InCustody(r)
  BY DEF Custody
<1>1. /\ index[r] = NoRow /\ final[r] = {} /\ staging[r] = {} /\ observations[r] = 0
      /\ hand = <<>> /\ audit_hand = {} /\ audited = {}
  BY DEF Init
<1>2. Elements(<<>>) = {} /\ DOMAIN <<>> = {}
  BY DEF Elements
<1>3. /\ OfRelease(triage_queue, r) = {} /\ OfRelease(capture_queue, r) = {}
      /\ OfRelease(diff_queue, r) = {} /\ TasksOf(triages, r) = {} /\ TasksOf(captures, r) = {}
      /\ TasksOf(posts, r) = {} /\ TasksOf(diffs, r) = {} /\ ~InHand(r)
  BY <1>1, <1>2 DEF Init, OfRelease, TasksOf, InHand
<1>4. /\ TriageHolders(r) = {} /\ PassiveIds(r) = {} /\ Holders(r) = {} /\ PassiveTiers(r) = {}
  BY <1>3 DEF TriageHolders, PassiveIds, Holders, CaptureHolders, DiffHolders, PassiveTiers
<1>5. Alone(r) /\ PassivesOK(r)
  BY <1>3, <1>4 DEF Alone, PassivesOK
<1>6. RowOK(r) /\ AuditOK(r) /\ CleanOK(r)
  BY <1>1 DEF RowOK, AuditOK, CleanOK, SkippedByPolicy, NoRow, Dropped
<1>7. HoldersOK(r)
  BY <1>3, <1>4 DEF HoldersOK
<1>8. QED  BY <1>5, <1>6, <1>7 DEF InCustody

\* Every release observed at most once, every step leaves the releases in order.
LEMMA CustodyKept ==
    ASSUME MaxObservations = 1
    PROVE  IInv /\ Custody /\ [Next]_vars => Custody'
<1> SUFFICES ASSUME IInv, Custody, [Next]_vars  PROVE Custody'
  OBVIOUS
<1>1. TypeInv
  BY DEF IInv
<1>2. ASSUME NEW event \in Feed, Observe(event)  PROVE Custody'
  BY <1>2, ObserveStays, PipelineAssumption DEF PipelineAssumption
<1>3. CASE TriageStep
  <2>1. ASSUME NEW id \in DOMAIN triages, TriageTaskStep(id)  PROVE Custody'
    <3>1. PICK r \in Releases : id \in TasksOf(triages, r)
      BY <1>1, EventsHaveReleases DEF TasksOf
    <3>2. QED  BY <2>1, <3>1, TriageTaskStays
  <2>2. QED  BY <1>3, <2>1, ReceiveTriageStays DEF TriageStep, TriageTaskStep
<1>4. CASE CaptureStep
  <2>1. ASSUME NEW id \in DOMAIN captures, FetchStep(id)  PROVE Custody'
    <3>1. PICK r \in Releases : id \in TasksOf(captures, r)
      BY <1>1, EventsHaveReleases DEF TasksOf
    <3>2. QED  BY <2>1, <3>1, FetchStays, JoinCaptureStays
  <2>2. ASSUME NEW id \in DOMAIN posts, PostStep(id)  PROVE Custody'
    <3>1. PICK r \in Releases : id \in TasksOf(posts, r)
      BY <1>1, EventsHaveReleases DEF TasksOf
    <3>2. QED  BY <2>2, <3>1, PostStays, JoinPostStays
  <2>3. \/ ReceiveCapture
        \/ \E id \in DOMAIN captures : FetchStep(id)
        \/ \E id \in DOMAIN posts : PostStep(id)
    BY <1>4 DEF CaptureStep, FetchStep, PostStep
  <2>4. QED  BY <2>1, <2>2, <2>3, ReceiveCaptureStays
<1>5. CASE DiffStep
  <2>1. ASSUME NEW id \in DOMAIN diffs, DiffTaskStep(id)  PROVE Custody'
    <3>1. PICK r \in Releases : id \in TasksOf(diffs, r)
      BY <1>1, EventsHaveReleases DEF TasksOf
    <3>2. QED  BY <2>1, <3>1, DiffStays
  <2>2. ReceiveDiff \/ \E id \in DOMAIN diffs : DiffTaskStep(id)
    BY <1>5 DEF DiffStep, DiffTaskStep
  <2>3. QED  BY <2>1, <2>2, ReceiveDiffStays
<1>6. ASSUME NEW r \in Releases, AuditSend(r) \/ Sweep(r)  PROVE Custody'
  BY <1>6, AuditSendStays, SweepStays
<1>7. CASE Dispatch \/ AuditSelect
  BY <1>7, DispatchStays, AuditSelectStays
<1>8. CASE CloseIntake \/ ShutdownStep \/ UNCHANGED vars
  BY <1>8, ControlStays
<1>9. QED  BY <1>2, <1>3, <1>4, <1>5, <1>6, <1>7, <1>8 DEF Next, Stopped

-----------------------------------------------------------------------------
(* What was dropped is out of everybody's hands but the discarding task's. *)

LEMMA DroppedRowStays ==
    ASSUME MaxObservations = 1, IInv, Custody, [Next]_vars,
           NEW r \in Releases, index[r].capture_reason \in Dropped
    PROVE  index'[r] = index[r]
<1>1. /\ TypeInv /\ StoreTypes /\ UniqueIds /\ HighWaits /\ InCustody(r)
      /\ index[r].capture = "skipped" /\ observations[r] # 0
  <2>1. /\ TypeInv /\ StoreTypes /\ UniqueIds /\ HighWaits /\ InCustody(r)
    BY DEF IInv, TypeInv, Custody
  <2>2. QED  BY <2>1 DEF InCustody, RowOK, NoRow, Dropped
<1>2. ASSUME NEW event \in Feed, Observe(event)  PROVE index'[r] = index[r]
  <2>1. event.release # r /\ event.release \in Releases
    <3>1. observations \in [Releases -> 0..1] /\ event \in Event
      BY <1>1, PipelineAssumption DEF TypeInv, ControlTypes, PipelineAssumption
    <3>2. QED  BY <1>1, <1>2, <3>1 DEF Observe, Event
  <2>2. QED  BY <1>1, <1>2, <2>1 DEF Observe, Write, StoreTypes
<1>3. CASE TriageStep
  <2>1. ASSUME NEW id \in DOMAIN triages, TriageTaskStep(id)  PROVE index'[r] = index[r]
    <3>1. CASE DropTriaged(id)
      <4>1. TriageRelease(id) \in Releases /\ TriageRelease(id) # r
        <5>1. TriageRelease(id) \in Releases
          BY <1>1, EventsHaveReleases DEF TriageRelease
        <5>2. TriageRelease(id) = r => id \in TasksOf(triages, r) /\ triages[id].pc # "check"
          BY <3>1 DEF TriageRelease, TasksOf, DropTriaged, At
        <5>3. TriageRelease(id) = r => TriageOK(r)
          BY <1>1, <5>2, TriageIsAlone
        <5>4. QED  BY <1>1, <5>1, <5>3 DEF TriageOK
      <4>2. QED  BY <1>1, <3>1, <4>1 DEF DropTriaged, Write, StoreTypes
    <3>2. CASE ~DropTriaged(id)
      BY <2>1, <3>2 DEF TriageTaskStep, CheckRow, Decide, HydrateFails, PromoteTriaged
    <3>3. QED  BY <3>1, <3>2
  <2>2. QED  BY <1>3, <2>1 DEF TriageStep, TriageTaskStep, ReceiveTriage
<1>4. CASE CaptureStep
  <2>1. ASSUME NEW id \in DOMAIN captures, FetchStep(id)  PROVE index'[r] = index[r]
    <3>1. CASE JoinCapture(id)
      BY <3>1 DEF JoinCapture, evidence
    <3>2. CASE ~JoinCapture(id)
      <4>1. FetchEffect(id)
        BY <1>1, <2>1, <3>2, FetchStepEffect
      <4>2. captures[id].request.event.release = r => FetchOK(r, captures[id])
        <5>1. captures[id].request.event.release = r => id \in TasksOf(captures, r)
          BY DEF TasksOf
        <5>2. QED  BY <1>1, <4>1, <5>1, FetchIsAlone DEF FetchEffect
      <4>3. captures[id].request.event.release # r
        BY <4>2 DEF FetchOK
      <4>4. QED  BY <4>1, <4>3 DEF FetchEffect, RowsAdvance
    <3>3. QED  BY <3>1, <3>2
  <2>2. ASSUME NEW id \in DOMAIN posts, PostStep(id)  PROVE index'[r] = index[r]
    <3>1. CASE JoinPost(id)
      BY <3>1 DEF JoinPost, evidence
    <3>2. CASE ~JoinPost(id)
      <4>1. PostEffect(id)
        BY <1>1, <2>2, <3>2, PostStepEffect
      <4>2. CASE posts[id].request.event.release = r
        <5>1. id \in TasksOf(posts, r) /\ posts[id].pc # "none"
          BY <4>1, <4>2 DEF TasksOf, PostEffect
        <5>2. PostOK(r, posts[id])
          BY <1>1, <5>1, PostIsAlone
        <5>3. posts[id].pc = "discard"
          BY <5>2 DEF PostOK
        <5>4. DiscardWorkspace(id)
          BY <2>2, <5>3
          DEF PostStep, JoinPost, Materialize, Scan, DecideRetention, DecideFails, DropCapture,
              ClearFinal, Promote, RecordRetained, WriteBundle, NotifyDiff, MarkPostFailed, At
        <5>5. QED  BY <5>4 DEF DiscardWorkspace
      <4>3. QED  BY <4>1, <4>2 DEF PostEffect, RowsAdvance
    <3>3. QED  BY <3>1, <3>2
  <2>3. \/ ReceiveCapture
        \/ \E id \in DOMAIN captures : FetchStep(id)
        \/ \E id \in DOMAIN posts : PostStep(id)
    BY <1>4 DEF CaptureStep, FetchStep, PostStep
  <2>4. QED  BY <2>1, <2>2, <2>3 DEF ReceiveCapture, evidence
<1>5. CASE DiffStep
  <2>1. ASSUME NEW id \in DOMAIN diffs, DiffTaskStep(id)  PROVE index'[r] = index[r]
    <3>1. DiffEffect(id)
      BY <1>1, <2>1, DiffStepEffect
    <3>2. diffs[id].request.event.release # r
      <4>1. SUFFICES ASSUME diffs[id].request.event.release = r  PROVE FALSE
        OBVIOUS
      <4>2. id \in TasksOf(diffs, r)
        BY <4>1 DEF TasksOf
      <4>3. DiffOK(r, diffs[id])
        BY <1>1, <4>2, DiffIsAlone
      <4>4. QED  BY <1>1, <4>3 DEF DiffOK, Analysed
    <3>3. QED  BY <3>1, <3>2 DEF DiffEffect, RowsAdvance
  <2>2. ReceiveDiff \/ \E id \in DOMAIN diffs : DiffTaskStep(id)
    BY <1>5 DEF DiffStep, DiffTaskStep
  <2>3. QED  BY <2>1, <2>2 DEF ReceiveDiff, OnlyDiff, evidence
<1>6. CASE Dispatch \/ AuditSelect \/ \E x \in Releases : AuditSend(x) \/ Sweep(x)
  BY <1>6 DEF Dispatch, AuditSelect, AuditSend, Sweep, OnlyAudit, evidence
<1>7. CASE CloseIntake \/ ShutdownStep \/ UNCHANGED vars
  BY <1>7 DEF CloseIntake, ShutdownStep, Stop, vars, evidence
<1>8. QED  BY <1>2, <1>3, <1>4, <1>5, <1>6, <1>7 DEF Next, Stopped

-----------------------------------------------------------------------------
(* The theorems.  Each is about a service that observes a release once.    *)

LEMMA CustodyAlways ==
    ASSUME MaxObservations = 1
    PROVE  Spec => [](IInv /\ Custody)
<1>1. Init => IInv /\ Custody
  BY InitHolds, InitCustody
<1>2. IInv /\ Custody /\ [Next]_vars => (IInv /\ Custody)'
  BY NextKeeps, CustodyKept
<1>3. QED  BY <1>1, <1>2, PTL DEF Spec

\* A row is marked ready (record_capture, record_diff) only when what it
\* promises is in the final directory, and nobody removes it from there
\* afterwards: promote_capture_dir, which clears it, meets no ready row.
THEOREM EvidenceIsThere ==
    ASSUME MaxObservations = 1
    PROVE  Spec => []ReadyHasEvidence
<1>1. Custody => ReadyHasEvidence
  BY DEF Custody, InCustody, RowOK, ReadyHasEvidence
<1>2. QED  BY <1>1, CustodyAlways, PTL

\* Whom the capture worker holds, it is busy with.
LEMMA IdleHoldsNothing ==
    ASSUME NEW r, ~Busy(r)
    PROVE  CaptureHolders(r) = {}
<1>1. OfRelease(capture_queue, r) = {}
  BY DEF Busy, OfRelease, Elements
<1>2. QED  BY <1>1 DEF Busy, CaptureHolders, TasksOf

\* Once the task of a capture that was dropped after its analysis has ended,
\* staging holds nothing of the release and the final directory no capture
\* (capture.rs 682-692).
THEOREM DroppedIsGone ==
    ASSUME MaxObservations = 1
    PROVE  Spec => []DroppedLeavesNothing
<1>1. Custody => DroppedLeavesNothing
  BY IdleHoldsNothing DEF Custody, InCustody, CleanOK, DroppedLeavesNothing
<1>2. QED  BY <1>1, CustodyAlways, PTL

\* A capture that stays has its content_risk verdict and has left staging,
\* whichever way its requests went (fetch_capture_if_missing,
\* post_process_capture), and whatever the sweeper took.
THEOREM KeptWasAnalysed ==
    ASSUME MaxObservations = 1
    PROVE  Spec => []KeptIsAnalysed
<1>1. Custody => KeptIsAnalysed
  BY IdleHoldsNothing DEF Custody, InCustody, CleanOK, KeptIsAnalysed
<1>2. QED  BY <1>1, CustodyAlways, PTL

\* The diff worker never looks for a capture that is not there: its requests
\* are sent after the promotion, and nothing is promoted behind them.
THEOREM DiffHasCapture ==
    ASSUME MaxObservations = 1
    PROVE  Spec => []DiffFollowsCapture
<1>1. IInv /\ Custody => DiffFollowsCapture
  <2>1. SUFFICES ASSUME IInv, Custody  PROVE DiffFollowsCapture
    OBVIOUS
  <2>2. TypeInv
    BY <2>1 DEF IInv
  <2>3. ASSUME NEW i \in DOMAIN diff_queue
        PROVE  "capture" \in final[diff_queue[i].event.release]
    <3>1. diff_queue[i] \in Elements(diff_queue)
      BY DEF Elements
    <3>2. PICK r \in Releases : r = diff_queue[i].event.release
      BY <2>2, <3>1, EventsHaveReleases
    <3>3. OfRelease(diff_queue, r) # {} /\ HoldersOK(r)
      BY <2>1, <3>1, <3>2 DEF OfRelease, Custody, InCustody
    <3>4. QED  BY <3>2, <3>3 DEF HoldersOK, Analysed
  <2>4. ASSUME NEW id \in DOMAIN diffs
        PROVE  "capture" \in final[diffs[id].request.event.release]
    <3>1. PICK r \in Releases : r = diffs[id].request.event.release
      BY <2>2, EventsHaveReleases
    <3>2. id \in TasksOf(diffs, r) /\ HoldersOK(r)
      BY <2>1, <3>1 DEF TasksOf, Custody, InCustody
    <3>3. QED  BY <3>1, <3>2 DEF HoldersOK, DiffOK, Analysed
  <2>5. QED  BY <2>3, <2>4 DEF DiffFollowsCapture
<1>2. QED  BY <1>1, CustodyAlways, PTL

\* The row of a dropped release is not written again: the audit looks for the
\* releases the policy skipped, not for those triage or the analysis did
\* (triage.rs 399-458), and no request of the release is left behind the drop.
THEOREM DroppedIsFinal ==
    ASSUME MaxObservations = 1
    PROVE  Spec => DroppedStaysDropped
<1>1. IInv /\ Custody /\ [Next]_vars =>
          [\A r \in Releases :
               index[r].capture_reason \in {"triage", "post_analysis"}
                   => index'[r].capture = "skipped"]_vars
  <2>1. SUFFICES ASSUME IInv, Custody, [Next]_vars, NEW r \in Releases,
                        index[r].capture_reason \in Dropped
                 PROVE  index'[r].capture = "skipped"
    BY DEF Dropped
  <2>2. index'[r] = index[r]
    BY <2>1, DroppedRowStays
  <2>3. QED  BY <2>1, <2>2 DEF Custody, InCustody, RowOK
<1>2. QED  BY <1>1, CustodyAlways, PTL DEF Spec, DroppedStaysDropped

=============================================================================
