---------------------------- MODULE CaptureWorker ---------------------------
(***************************************************************************)
(* The capture worker (capture.rs): a receive loop over two JoinSets.  A   *)
(* fetch task brings the metadata of a release into its workspace; when    *)
(* the loop joins it, a post-capture task analyses the workspace and keeps *)
(* or discards it.  A permanent request works in the final directory, an   *)
(* ephemeral one in a staging directory named after the event_id, which    *)
(* the sweeper may prune.  Store writes succeed; the registries and the    *)
(* graph log may fail, a bundle may go unwritten, and an operation on a    *)
(* directory fails when it is gone.                                        *)
(***************************************************************************)
EXTENDS Pipeline

CaptureRequestOf(id) == IF id \in DOMAIN captures THEN captures[id].request
                                                 ELSE posts[id].request

CaptureEvent(id) == CaptureRequestOf(id).event

CaptureRelease(id) == CaptureEvent(id).release

Ephemeral(id) == CaptureRequestOf(id).retention = "ephemeral"

\* The directory a task works in.
Workspace(id) == IF Ephemeral(id) THEN staging[CaptureRelease(id)]
                                  ELSE final[CaptureRelease(id)]

SetWorkspace(id, files) ==
    IF Ephemeral(id)
    THEN /\ staging' = [staging EXCEPT ![CaptureRelease(id)] = files]
         /\ UNCHANGED final
    ELSE /\ final' = [final EXCEPT ![CaptureRelease(id)] = files]
         /\ UNCHANGED staging

\* record_capture for the event of a task.
WriteReady(id) ==
    LET r == CaptureRelease(id)
    IN  Write(r, RecordCapture(index[r], "observed", CaptureEvent(id).tier))

WriteFailed(id) ==
    Write(CaptureRelease(id), MarkCaptureFailed(index[CaptureRelease(id)]))

GoFetch(id, pc) == captures' = [captures EXCEPT ![id].pc = pc]

GoPost(id, pc) == posts' = [posts EXCEPT ![id].pc = pc]

\* What no step of the capture worker touches.
OnlyCapture ==
    UNCHANGED <<hand, triage_queue, triages, diffs, auditing, control, counters>>

NoChannel == UNCHANGED <<capture_queue, diff_queue>>

-----------------------------------------------------------------------------
(* The receive loop.  It takes a request only while both sets are below    *)
(* the limit, and joins only while a set is at the limit or, the channel   *)
(* closed and drained, at the end.                                         *)

CaptureChannelClosed == up \cap {"main", "triage", "audit"} = {}

Finishing == CaptureChannelClosed /\ capture_queue = <<>>

ReceiveCapture ==
    /\ capture_queue # <<>>
    /\ Size(captures) < CaptureConcurrency
    /\ Size(posts) < CaptureConcurrency
    /\ LET request == Head(capture_queue)
       IN  captures' = Spawn(captures, request.id, [request |-> request, pc |-> "check"])
    /\ capture_queue' = Tail(capture_queue)
    /\ OnlyCapture
    /\ UNCHANGED <<evidence, diff_queue, posts>>

\* Mutant: a permanent capture counts as done once it is recorded.
JoinAndForget(id) ==
    /\ id \in DOMAIN captures
    /\ captures[id].pc \in {"fetched", "none"}
    /\ Size(captures) >= CaptureConcurrency \/ Finishing
    /\ Size(posts) < CaptureConcurrency
    /\ captures' = Reap(captures, id)
    /\ posts' = IF captures[id].pc = "fetched" /\ Ephemeral(id)
                THEN Spawn(posts, id, [request |-> captures[id].request,
                                       forced |-> FALSE, pc |-> "materialize"])
                ELSE posts
    /\ OnlyCapture
    /\ NoChannel
    /\ UNCHANGED evidence

\* join_next_capture; a fetched release goes on to its analysis.
JoinCapture(id) ==
    /\ id \in DOMAIN captures
    /\ captures[id].pc \in {"fetched", "none"}
    /\ Size(captures) >= CaptureConcurrency \/ Finishing
    /\ Size(posts) < CaptureConcurrency
    /\ captures' = Reap(captures, id)
    /\ posts' = IF captures[id].pc = "fetched"
                THEN Spawn(posts, id, [request |-> captures[id].request,
                                       forced |-> FALSE, pc |-> "materialize"])
                ELSE posts
    /\ OnlyCapture
    /\ NoChannel
    /\ UNCHANGED evidence

JoinPost(id) ==
    /\ At(posts, id, "none")
    /\ Size(posts) >= CaptureConcurrency \/ (Finishing /\ DOMAIN captures = {})
    /\ posts' = Reap(posts, id)
    /\ OnlyCapture
    /\ NoChannel
    /\ UNCHANGED <<evidence, captures>>

-----------------------------------------------------------------------------
(* fetch_capture_if_missing.  A task ends "fetched" with a request for     *)
(* post-capture analysis, or "none" without one.                           *)

CheckFinal(id) ==
    /\ At(captures, id, "check")
    /\ GoFetch(id, IF "capture" \in final[CaptureRelease(id)] THEN "index"
                   ELSE IF Ephemeral(id) THEN "clear" ELSE "create")
    /\ OnlyCapture
    /\ NoChannel
    /\ UNCHANGED <<evidence, posts>>

\* index_existing_capture reads capture.json again.
IndexExisting(id) ==
    /\ At(captures, id, "index")
    /\ IF "capture" \in final[CaptureRelease(id)]
       THEN /\ WriteReady(id)
            /\ GoFetch(id, IF CaptureRequestOf(id).notify_diff THEN "notify" ELSE "none")
       ELSE GoFetch(id, "failed") /\ UNCHANGED index
    /\ OnlyCapture
    /\ NoChannel
    /\ UNCHANGED <<final, staging, posts>>

NotifyExisting(id) ==
    /\ At(captures, id, "notify")
    /\ HasRoom(diff_queue)
    /\ diff_queue' = Append(diff_queue,
           [id |-> id, event |-> CaptureEvent(id), forced |-> FALSE])
    /\ GoFetch(id, "none")
    /\ OnlyCapture
    /\ UNCHANGED <<evidence, capture_queue, posts>>

ClearStaging(id) ==
    /\ At(captures, id, "clear")
    /\ staging' = [staging EXCEPT ![CaptureRelease(id)] = {}]
    /\ GoFetch(id, "create")
    /\ OnlyCapture
    /\ NoChannel
    /\ UNCHANGED <<index, final, posts>>

CreateWorkspace(id) ==
    /\ At(captures, id, "create")
    /\ SetWorkspace(id, Workspace(id) \cup {"dir"})
    /\ GoFetch(id, "fetch")
    /\ OnlyCapture
    /\ NoChannel
    /\ UNCHANGED <<index, posts>>

\* The registry answered: capture.json is written, without a scan verdict.
Fetch(id) ==
    /\ At(captures, id, "fetch")
    /\ "dir" \in Workspace(id)
    /\ SetWorkspace(id, (Workspace(id) \cup {"capture"}) \ {"scan"})
    /\ GoFetch(id, IF Ephemeral(id) THEN "fetched" ELSE "record")
    /\ OnlyCapture
    /\ NoChannel
    /\ UNCHANGED <<index, posts>>

\* The registry failed, or the workspace is gone.
FetchFails(id) ==
    /\ At(captures, id, "fetch")
    /\ GoFetch(id, "failed")
    /\ OnlyCapture
    /\ NoChannel
    /\ UNCHANGED <<evidence, posts>>

RecordFetched(id) ==
    /\ At(captures, id, "record")
    /\ WriteReady(id)
    /\ GoFetch(id, "fetched")
    /\ OnlyCapture
    /\ NoChannel
    /\ UNCHANGED <<final, staging, posts>>

MarkFetchFailed(id) ==
    /\ At(captures, id, "failed")
    /\ WriteFailed(id)
    /\ GoFetch(id, "none")
    /\ OnlyCapture
    /\ NoChannel
    /\ UNCHANGED <<final, staging, posts>>

-----------------------------------------------------------------------------
(* post_process_capture.                                                   *)

\* The artifact is downloaded into the workspace, which that brings back if it
\* is gone; a release without an artifact has nothing to download.
Materialize(id) ==
    /\ At(posts, id, "materialize")
    /\ \/ SetWorkspace(id, Workspace(id) \cup {"dir"})
       \/ UNCHANGED <<final, staging>>
    /\ GoPost(id, "scan")
    /\ OnlyCapture
    /\ NoChannel
    /\ UNCHANGED <<index, captures>>

\* Scan the artifact, then rewrite capture.json with the verdict.
Scan(id) ==
    /\ At(posts, id, "scan")
    /\ IF "dir" \in Workspace(id)
       THEN /\ SetWorkspace(id, Workspace(id) \cup {"capture", "scan"})
            /\ GoPost(id, "decide")
       ELSE GoPost(id, "failed") /\ UNCHANGED <<final, staging>>
    /\ OnlyCapture
    /\ NoChannel
    /\ UNCHANGED <<index, captures>>

\* Retention, and whether the analysis forces a diff: that is only asked of
\* a capture whose request does not already ask for one.
DecideRetention(id) ==
    /\ At(posts, id, "decide")
    /\ \E suspicious, forced \in BOOLEAN :
         LET notify == CaptureRequestOf(id).notify_diff
             retain == ~Ephemeral(id) \/ suspicious \/ notify \/ forced
         IN  /\ notify => ~forced
             /\ posts' = [posts EXCEPT
                    ![id].forced = forced,
                    ![id].pc = IF ~retain THEN "drop"
                               ELSE IF Ephemeral(id) THEN "promote" ELSE "record"]
    /\ OnlyCapture
    /\ NoChannel
    /\ UNCHANGED <<evidence, captures>>

\* Appending graph records or reading the history failed.
DecideFails(id) ==
    /\ At(posts, id, "decide")
    /\ GoPost(id, "failed")
    /\ OnlyCapture
    /\ NoChannel
    /\ UNCHANGED <<evidence, captures>>

DropCapture(id) ==
    /\ At(posts, id, "drop")
    /\ Write(CaptureRelease(id),
             MarkCaptureSkipped(index[CaptureRelease(id)], "post_analysis"))
    /\ GoPost(id, "discard")
    /\ OnlyCapture
    /\ NoChannel
    /\ UNCHANGED <<final, staging, captures>>

\* Mutant: the workspace of a dropped capture stays.
KeepWorkspace(id) ==
    /\ At(posts, id, "discard")
    /\ GoPost(id, "none")
    /\ OnlyCapture
    /\ NoChannel
    /\ UNCHANGED <<evidence, captures>>

DiscardWorkspace(id) ==
    /\ At(posts, id, "discard")
    /\ SetWorkspace(id, {})
    /\ GoPost(id, "none")
    /\ OnlyCapture
    /\ NoChannel
    /\ UNCHANGED <<index, captures>>

\* promote_capture_dir: remove the final directory, then rename over it.
ClearFinal(id) ==
    /\ At(posts, id, "promote")
    /\ final' = [final EXCEPT ![CaptureRelease(id)] = {}]
    /\ GoPost(id, "rename")
    /\ OnlyCapture
    /\ NoChannel
    /\ UNCHANGED <<index, staging, captures>>

\* Mutant: a failed rename goes unnoticed.
PromoteOrNot(id) ==
    /\ At(posts, id, "rename")
    /\ LET r == CaptureRelease(id)
       IN  /\ final' = [final EXCEPT ![r] = staging[r]]
           /\ staging' = [staging EXCEPT ![r] = {}]
    /\ GoPost(id, "record")
    /\ OnlyCapture
    /\ NoChannel
    /\ UNCHANGED <<index, captures>>

Promote(id) ==
    /\ At(posts, id, "rename")
    /\ LET r == CaptureRelease(id)
       IN  IF "dir" \in staging[r]
           THEN /\ final' = [final EXCEPT ![r] = staging[r]]
                /\ staging' = [staging EXCEPT ![r] = {}]
                /\ GoPost(id, "record")
           ELSE GoPost(id, "failed") /\ UNCHANGED <<final, staging>>
    /\ OnlyCapture
    /\ NoChannel
    /\ UNCHANGED <<index, captures>>

RecordRetained(id) ==
    /\ At(posts, id, "record")
    /\ WriteReady(id)
    /\ GoPost(id, "bundle")
    /\ OnlyCapture
    /\ NoChannel
    /\ UNCHANGED <<final, staging, captures>>

\* emit_release_bundle only warns when it cannot write bundle.json.
WriteBundle(id) ==
    /\ At(posts, id, "bundle")
    /\ \/ final' = [final EXCEPT ![CaptureRelease(id)] = @ \cup {"dir", "bundle"}]
       \/ UNCHANGED final
    /\ GoPost(id, IF CaptureRequestOf(id).notify_diff \/ posts[id].forced
                  THEN "notify" ELSE "none")
    /\ OnlyCapture
    /\ NoChannel
    /\ UNCHANGED <<index, staging, captures>>

NotifyDiff(id) ==
    /\ At(posts, id, "notify")
    /\ HasRoom(diff_queue)
    /\ diff_queue' = Append(diff_queue,
           [id |-> id, event |-> CaptureEvent(id), forced |-> posts[id].forced])
    /\ GoPost(id, "none")
    /\ OnlyCapture
    /\ UNCHANGED <<evidence, capture_queue, captures>>

\* Mutant: the diff worker is told all the same.
FailedButNotified(id) ==
    /\ At(posts, id, "failed")
    /\ WriteFailed(id)
    /\ GoPost(id, IF CaptureRequestOf(id).notify_diff THEN "notify" ELSE "none")
    /\ OnlyCapture
    /\ NoChannel
    /\ UNCHANGED <<final, staging, captures>>

MarkPostFailed(id) ==
    /\ At(posts, id, "failed")
    /\ WriteFailed(id)
    /\ GoPost(id, "none")
    /\ OnlyCapture
    /\ NoChannel
    /\ UNCHANGED <<final, staging, captures>>

-----------------------------------------------------------------------------
CaptureStep ==
    \/ ReceiveCapture
    \/ \E id \in DOMAIN captures :
           \/ JoinCapture(id) \/ CheckFinal(id) \/ IndexExisting(id)
           \/ NotifyExisting(id) \/ ClearStaging(id) \/ CreateWorkspace(id)
           \/ Fetch(id) \/ FetchFails(id) \/ RecordFetched(id) \/ MarkFetchFailed(id)
    \/ \E id \in DOMAIN posts :
           \/ JoinPost(id) \/ Materialize(id) \/ Scan(id) \/ DecideRetention(id) \/ DecideFails(id)
           \/ DropCapture(id) \/ DiscardWorkspace(id) \/ ClearFinal(id) \/ Promote(id)
           \/ RecordRetained(id) \/ WriteBundle(id) \/ NotifyDiff(id)
           \/ MarkPostFailed(id)

\* The sweeper removes a directory past its TTL or over the cache cap; it
\* does not ask whether a task is using it.
Sweep(r) ==
    /\ sweeps < MaxSweeps
    /\ "dir" \in staging[r]
    /\ staging' = [staging EXCEPT ![r] = {}]
    /\ sweeps' = sweeps + 1
    /\ UNCHANGED <<index, final, channels, inflight, auditing, control,
                   observations, next_id, abandoned>>

=============================================================================
