---------------------------- MODULE DataDirectory ----------------------------
(***************************************************************************)
(* What the service keeps of a release -- a line of a ledger, a row, a     *)
(* capture, a diff -- write by write: by the loop that observes events, by *)
(* the workers that capture and compare, by a backfill, and by the rebuild *)
(* of the table, each of which may be cut off within a write (lib.rs,      *)
(* capture.rs, autodiff.rs, history.rs, store.rs).                         *)
(*                                                                         *)
(* A worker does one thing at a time for one release; what waits for it is *)
(* in memory.  A file or a line is half-written from the beginning of the  *)
(* write to its end; if the write fails or the process is killed, it stays *)
(* so.  When two tasks write one file at a time, the last to end counts.   *)
(* The releases are of one package.                                        *)
(***************************************************************************)
EXTENDS PackageHistory

CONSTANTS
    EventOf,            \* the event of each release, by its id
    CaptureOf,          \* and its capture
    Legacy,             \* the ledger an earlier version of the service left
    Captors, Differs,   \* the tasks of the capture and of the diff worker
    BackfillLineage,    \* config: a diff without a baseline asks for one
    MaxLines,           \* bounds the lines of the observed ledger
    MaxCrashes          \* bounds how often the process ends

Releases == DOMAIN EventOf

ASSUME DataAssumption ==
    /\ Releases \subseteq Nat
    /\ \A id \in Releases : /\ EventOf[id].id = id /\ EventOf[id].tier \in Tiers
                            /\ CaptureOf[id] # NoCapture
    /\ Legacy \in Seq({EventOf[id] : id \in Releases})

VARIABLES
    data,       \* [records, ledgers, files], as PackageHistory has them
    running,
    task,       \* what each worker is doing: [at, id, entry]
    waiting,    \* [capture, diff]: the releases in the queues of the two workers
    removed,    \* history: the releases of whose files a promotion has removed some
    crashes     \* bound

dataVars == <<data, running, task, waiting, removed, crashes>>

Workers == {"intake"} \cup Captors \cup Differs

NoTask == [at |-> "idle", id |-> 0, entry |-> 0]

NothingWaits == [capture |-> {}, diff |-> {}]

DataInit ==
    /\ data = [records |-> {},
               ledgers |-> [observed |-> <<>>, legacy |-> Legacy, reconstructed |-> <<>>,
                            torn |-> {}],
               files |-> [id \in Releases |-> [capture |-> NoCapture, diff |-> FALSE,
                                               half |-> {}]]]
    /\ running = FALSE
    /\ task = [w \in Workers |-> NoTask]
    /\ waiting = NothingWaits
    /\ removed = {}
    /\ crashes = 0

-----------------------------------------------------------------------------
(* Steps that several have in common.                                      *)

Stands(w, place) == running /\ task[w].at = place

Goes(w, place) == task' = [task EXCEPT ![w].at = place]
Rests(w) == task' = [task EXCEPT ![w] = NoTask]

\* The writing of a file of a release, by the place of the one that writes it.
Writes(file) == IF file = "diff" THEN {"compose"} ELSE {"write", "rewrite", "amend"}

WritesTo(w, file, id) ==
    \/ task[w].at \in Writes(file) /\ task[w].id = id
    \/ file = "capture" /\ task[w].at = "fill" /\ task[w].entry = id

Opened(file, id) ==
    IF file = "diff" THEN [data EXCEPT !.files[id].diff = TRUE, !.files[id].half = @ \cup {file}]
    ELSE [data EXCEPT !.files[id].capture = CaptureOf[id], !.files[id].half = @ \cup {file}]

Closed(w, file, id) ==
    IF \E v \in Workers \ {w} : WritesTo(v, file, id) THEN data
    ELSE [data EXCEPT !.files[id].half = @ \ {file}]

\* record_capture and record_diff: the event is upserted with them.
WithCapture(id, origin) ==
    [data EXCEPT !.records =
        CaptureRecord(UpsertRecord(@, EventOf[id], origin), id, CaptureOf[id])]

WithDiff(id) ==
    [data EXCEPT !.records = DiffRecord(UpsertRecord(@, EventOf[id], "observed"), id)]

\* A job that is skipped or has failed.
CaptureSetIn(records, id, state, reason) ==
    {IF r.id # id THEN r ELSE [r EXCEPT !.job = SetCapture(@, state, reason)] : r \in records}

DiffFailedIn(records, id) ==
    {IF r.id # id THEN r ELSE [r EXCEPT !.job = MarkDiffFailed(@)] : r \in records}

CaptureSet(id, state, reason) ==
    [data EXCEPT !.records = CaptureSetIn(@, id, state, reason)]

DiffFailed(id) == [data EXCEPT !.records = DiffFailedIn(@, id)]

-----------------------------------------------------------------------------
(* Observing: the line, the row, and the event is handed on.               *)

Observe(id) ==
    /\ Stands("intake", "idle") /\ Len(data.ledgers.observed) < MaxLines
    /\ task' = [task EXCEPT !["intake"].at = "append", !["intake"].id = id]
    /\ UNCHANGED <<data, running, waiting, removed, crashes>>

Logged ==
    /\ Stands("intake", "append")
    /\ data' = [data EXCEPT !.ledgers.observed = Append(@, EventOf[task["intake"].id])]
    /\ Goes("intake", "record")
    /\ UNCHANGED <<running, waiting, removed, crashes>>

Recorded ==
    LET id == task["intake"].id
    IN  /\ Stands("intake", "record")
        /\ data' = [data EXCEPT !.records = UpsertRecord(@, EventOf[id], "observed")]
        /\ waiting' = [waiting EXCEPT !.capture = @ \cup {id}]
        /\ Rests("intake")
        /\ UNCHANGED <<running, removed, crashes>>

\* Triage drops an event that is not high.
Dropped(id) ==
    /\ running /\ id \in waiting.capture /\ EventOf[id].tier # "high"
    /\ data' = CaptureSet(id, "skipped", "triage")
    /\ waiting' = [waiting EXCEPT !.capture = @ \ {id}]
    /\ UNCHANGED <<running, task, removed, crashes>>

-----------------------------------------------------------------------------
(* Capturing.                                                              *)

\* A capture that is there is indexed; otherwise a high release is captured in
\* its directory, another beside it.
TakeCapture(w, id) ==
    /\ Stands(w, "idle") /\ id \in waiting.capture
    /\ waiting' = [waiting EXCEPT !.capture = @ \ {id}]
    /\ task' = [task EXCEPT ![w].id = id,
                            ![w].at = IF data.files[id].capture # NoCapture THEN "index"
                                      ELSE IF EventOf[id].tier = "high" THEN "fetch" ELSE "stage"]
    /\ UNCHANGED <<data, running, removed, crashes>>

\* A capture that is settled may be compared.
MayCompare(id) ==
    \/ UNCHANGED waiting
    \/ waiting' = [waiting EXCEPT !.diff = @ \cup {id}]

Index(w) ==
    LET id == task[w].id
    IN  /\ Stands(w, "index")
        /\ data.files[id].capture # NoCapture /\ "capture" \notin data.files[id].half
        /\ data' = WithCapture(id, "observed")
        /\ Rests(w) /\ MayCompare(id)
        /\ UNCHANGED <<running, removed, crashes>>

\* The capture is written when it is fetched and again when it is scanned, and
\* recorded after each.
BeginCapture(w) ==
    /\ \/ Stands(w, "fetch") /\ Goes(w, "write")
       \/ Stands(w, "scan") /\ Goes(w, "rewrite")
    /\ data' = Opened("capture", task[w].id)
    /\ UNCHANGED <<running, waiting, removed, crashes>>

EndCapture(w) ==
    /\ \/ Stands(w, "write") /\ Goes(w, "record_fetched")
       \/ Stands(w, "rewrite") /\ Goes(w, "record_scanned")
    /\ data' = Closed(w, "capture", task[w].id)
    /\ UNCHANGED <<running, waiting, removed, crashes>>

RecordFetched(w) ==
    /\ Stands(w, "record_fetched")
    /\ data' = WithCapture(task[w].id, "observed")
    /\ Goes(w, "scan")
    /\ UNCHANGED <<running, waiting, removed, crashes>>

RecordScanned(w) ==
    /\ Stands(w, "record_scanned")
    /\ data' = WithCapture(task[w].id, "observed")
    /\ Rests(w) /\ MayCompare(task[w].id)
    /\ UNCHANGED <<running, removed, crashes>>

\* What was staged is discarded, or takes the place of the release's directory.
Discard(w) ==
    /\ Stands(w, "stage")
    /\ data' = CaptureSet(task[w].id, "skipped", "post_analysis")
    /\ Rests(w)
    /\ UNCHANGED <<running, waiting, removed, crashes>>

Retain(w) ==
    /\ Stands(w, "stage")
    /\ Goes(w, "clear")
    /\ UNCHANGED <<data, running, waiting, removed, crashes>>

NoFiles(id) == data.files[id].capture = NoCapture /\ ~data.files[id].diff

\* remove_capture_dir, one file after the other.
Clear(w) ==
    LET id == task[w].id
    IN  /\ Stands(w, "clear")
        /\ \/ /\ NoFiles(id) /\ Goes(w, "rename")
              /\ UNCHANGED <<data, removed>>
           \/ /\ ~NoFiles(id) /\ removed' = removed \cup {id}
              /\ \/ data' = [data EXCEPT !.files[id].capture = NoCapture,
                                         !.files[id].half = @ \ {"capture"}]
                 \/ data' = [data EXCEPT !.files[id].diff = FALSE,
                                         !.files[id].half = @ \ {"diff"}]
              /\ UNCHANGED task
        /\ UNCHANGED <<running, waiting, crashes>>

\* A directory that has been filled again is not replaced.
Rename(w) ==
    /\ Stands(w, "rename") /\ NoFiles(task[w].id)
    /\ data' = [data EXCEPT !.files[task[w].id].capture = CaptureOf[task[w].id]]
    /\ Goes(w, "record_scanned")
    /\ UNCHANGED <<running, waiting, removed, crashes>>

\* Any step may fail; what it was writing stays as it is.
FailCapture(w) ==
    /\ running /\ task[w].at # "idle"
    /\ data' = CaptureSet(task[w].id, "failed", "error")
    /\ Rests(w)
    /\ UNCHANGED <<running, waiting, removed, crashes>>

-----------------------------------------------------------------------------
(* Comparing, and the backfill of a release before the one compared.       *)

\* A diff that is there is kept, or built again if it has no baseline.
TakeDiff(w, id) ==
    /\ Stands(w, "idle") /\ id \in waiting.diff
    /\ waiting' = [waiting EXCEPT !.diff = @ \ {id}]
    /\ \/ /\ data.files[id].diff /\ (BackfillLineage => "diff" \notin data.files[id].half)
          /\ UNCHANGED task
       \/ /\ data.files[id].diff => BackfillLineage /\ "diff" \notin data.files[id].half
          /\ task' = [task EXCEPT ![w].at = "build", ![w].id = id]
       \/ /\ BackfillLineage /\ "diff" \in data.files[id].half
          /\ task' = [task EXCEPT ![w].at = "unreadable", ![w].id = id]
    /\ UNCHANGED <<data, running, removed, crashes>>

\* The history is read with its captures; there may be a release before that is
\* not in it.
Build(w) ==
    /\ Stands(w, "build")
    /\ \A r \in data.records : "capture" \notin data.files[r.id].half
    /\ \/ Goes(w, "built")
       \/ /\ BackfillLineage
          /\ \E entry \in Releases \ {r.id : r \in data.records} :
                 task' = [task EXCEPT ![w].at = "open", ![w].entry = entry]
    /\ UNCHANGED <<data, running, waiting, removed, crashes>>

HoldsReconstruction(w) ==
    task[w].at \in {"append_entry", "record_entry", "look_entry", "fill", "record_filled"}

\* The table has the row of the release compared, so local_store leaves it.
OpenEntry(w) ==
    /\ Stands(w, "open") /\ ~\E v \in Differs : HoldsReconstruction(v)
    /\ data.ledgers.torn = {}
    /\ Goes(w, IF task[w].entry \in LoggedIds(data.ledgers) THEN "record_entry"
               ELSE "append_entry")
    /\ UNCHANGED <<data, running, waiting, removed, crashes>>

LogEntry(w) ==
    /\ Stands(w, "append_entry")
    /\ data' = AppendEntry(data, EventOf[task[w].entry])
    /\ Goes(w, "record_entry")
    /\ UNCHANGED <<running, waiting, removed, crashes>>

EnterEntry(w) ==
    /\ Stands(w, "record_entry")
    /\ data' = UpsertEntry(data, EventOf[task[w].entry])
    /\ Goes(w, "look_entry")
    /\ UNCHANGED <<running, waiting, removed, crashes>>

FillEntry(w) ==
    LET id == task[w].entry
    IN  /\ Stands(w, "look_entry")
        /\ IF data.files[id].capture = NoCapture
           THEN data' = Opened("capture", id) /\ Goes(w, "fill")
           ELSE Goes(w, "record_filled") /\ UNCHANGED data
        /\ UNCHANGED <<running, waiting, removed, crashes>>

FilledEntry(w) ==
    /\ Stands(w, "fill")
    /\ data' = Closed(w, "capture", task[w].entry)
    /\ Goes(w, "record_filled")
    /\ UNCHANGED <<running, waiting, removed, crashes>>

SettleEntry(w) ==
    /\ Stands(w, "record_filled")
    /\ data' = RecordEntry(data, EventOf[task[w].entry], CaptureOf[task[w].entry])
    /\ Goes(w, "build_again")
    /\ UNCHANGED <<running, waiting, removed, crashes>>

\* A backfill that fails, or finds a torn ledger, leaves the diff without one.
GiveUpEntry(w) ==
    /\ running /\ (task[w].at = "open" \/ HoldsReconstruction(w))
    /\ \/ UNCHANGED data
       \/ /\ task[w].at = "append_entry"
          /\ data' = [data EXCEPT !.ledgers.torn = @ \cup {"reconstructed"}]
    /\ Goes(w, "built")
    /\ UNCHANGED <<running, waiting, removed, crashes>>

BuildAgain(w) ==
    /\ Stands(w, "build_again")
    /\ \A r \in data.records : "capture" \notin data.files[r.id].half
    /\ Goes(w, "built")
    /\ UNCHANGED <<data, running, waiting, removed, crashes>>

\* reconcile_crate_commit_provenance: a capture whose doubt is lifted is written anew.
BeginAmend(w) ==
    LET id == task[w].id
    IN  /\ Stands(w, "built")
        /\ data.files[id].capture # NoCapture /\ "capture" \notin data.files[id].half
        /\ data' = Opened("capture", id)
        /\ Goes(w, "amend")
        /\ UNCHANGED <<running, waiting, removed, crashes>>

EndAmend(w) ==
    /\ Stands(w, "amend")
    /\ data' = Closed(w, "capture", task[w].id)
    /\ Goes(w, "record_amended")
    /\ UNCHANGED <<running, waiting, removed, crashes>>

RecordAmended(w) ==
    /\ Stands(w, "record_amended")
    /\ data' = WithCapture(task[w].id, "observed")
    /\ Goes(w, "amended")
    /\ UNCHANGED <<running, waiting, removed, crashes>>

BeginDiff(w) ==
    /\ Stands(w, "built") \/ Stands(w, "amended")
    /\ data' = Opened("diff", task[w].id)
    /\ Goes(w, "compose")
    /\ UNCHANGED <<running, waiting, removed, crashes>>

EndDiff(w) ==
    /\ Stands(w, "compose")
    /\ data' = Closed(w, "diff", task[w].id)
    /\ Goes(w, "record_diff")
    /\ UNCHANGED <<running, waiting, removed, crashes>>

RecordDiffOf(w) ==
    /\ Stands(w, "record_diff")
    /\ data' = WithDiff(task[w].id)
    /\ Rests(w)
    /\ UNCHANGED <<running, waiting, removed, crashes>>

FailDiff(w) ==
    /\ running /\ task[w].at \notin {"idle", "open"} /\ ~HoldsReconstruction(w)
    /\ data' = DiffFailed(task[w].id)
    /\ Rests(w)
    /\ UNCHANGED <<running, waiting, removed, crashes>>

-----------------------------------------------------------------------------
(* The process ends, the table is lost, and the service starts.            *)

\* The ledgers that are being appended to.
Appending ==
    (IF task["intake"].at = "append" THEN {"observed"} ELSE {}) \cup
    (IF \E w \in Differs : task[w].at = "append_entry" THEN {"reconstructed"} ELSE {})

\* Killed, or ended by the loop whose append or store call fails: a line that is
\* being written is there in part or not at all.  What comes after a part of a
\* line continues it.
End ==
    /\ running /\ crashes < MaxCrashes
    /\ \E torn \in SUBSET Appending : data' = [data EXCEPT !.ledgers.torn = @ \cup torn]
    /\ running' = FALSE
    /\ task' = [w \in Workers |-> NoTask]
    /\ waiting' = NothingWaits
    /\ crashes' = crashes + 1
    /\ UNCHANGED removed

LoseTable ==
    /\ ~running
    /\ data' = [data EXCEPT !.records = {}]
    /\ UNCHANGED <<running, task, waiting, removed, crashes>>

\* run: a table that is empty is rebuilt, and without that the service does not
\* start.
Start ==
    /\ ~running
    /\ data' = LocalStore(data)
    /\ running' = StoreOpens(data)
    /\ UNCHANGED <<task, waiting, removed, crashes>>

\* A rebuild is killed before one of its writes.
StartKilled(id, step) ==
    /\ ~running /\ data.records = {} /\ crashes < MaxCrashes
    /\ data' = [data EXCEPT !.records =
                   ReconcileUntil(@, data.ledgers, data.files,
                                  Unreadable(data.files) \cup {<<id, step>>})]
    /\ crashes' = crashes + 1
    /\ UNCHANGED <<running, task, waiting, removed>>

DataNext ==
    \/ \E id \in Releases : Observe(id) \/ Dropped(id)
    \/ Logged \/ Recorded
    \/ \E w \in Captors :
           \/ \E id \in Releases : TakeCapture(w, id)
           \/ Index(w) \/ BeginCapture(w) \/ EndCapture(w) \/ RecordFetched(w)
           \/ RecordScanned(w) \/ Discard(w) \/ Retain(w) \/ Clear(w) \/ Rename(w)
           \/ FailCapture(w)
    \/ \E w \in Differs :
           \/ \E id \in Releases : TakeDiff(w, id)
           \/ Build(w) \/ OpenEntry(w) \/ LogEntry(w) \/ EnterEntry(w) \/ FillEntry(w)
           \/ FilledEntry(w) \/ SettleEntry(w) \/ GiveUpEntry(w) \/ BuildAgain(w)
           \/ BeginAmend(w) \/ EndAmend(w) \/ RecordAmended(w)
           \/ BeginDiff(w) \/ EndDiff(w) \/ RecordDiffOf(w) \/ FailDiff(w)
    \/ End \/ LoseTable \/ Start
    \/ \E id \in Releases, step \in RebuildSteps : StartKilled(id, step)

DataSpec == DataInit /\ [][DataNext]_dataVars

-----------------------------------------------------------------------------
(* Properties.                                                             *)

\* If the table were lost at any moment, within a write or between two, the one
\* rebuilt from the ledgers and the files would have every release of the lost one
\* that the rebuild comes to: as observed if it was that, and with its capture and
\* its diff as ready if they were so or had only been written (store.rs,
\* reconcile_local_data).  What it does not come to is lost: everything once a
\* ledger has a torn line, otherwise the releases after the first with a file that
\* is half-written, and of that one the file and what follows.  A promotion that
\* replaces a directory takes what was in it along.
RebuildKeepsReady ==
    \A live \in data.records :
        LET written == data.files[live.id]
            had(job) == live.job[job] = "ready" /\ live.id \notin removed
        IN  /\ live.id \in LoggedIds(data.ledgers)
            /\ live.id \in ReachedBefore(Unreadable(data.files), data.ledgers) =>
                   \E rebuilt \in Reconcile({}, data.ledgers, data.files) :
                       /\ rebuilt.id = live.id
                       /\ live.job.origin = "observed" => rebuilt.job.origin = "observed"
                       /\ (had("capture") \/ written.capture # NoCapture)
                          /\ "capture" \notin written.half => rebuilt.job.capture = "ready"
                       /\ (had("diff") \/ written.diff) /\ written.half = {} =>
                              rebuilt.job.diff = "ready"

=============================================================================
