---------------------------- MODULE AtomicStore -----------------------------
(***************************************************************************)
(* What the operational store promises to its callers: a write takes       *)
(* effect at one moment between its call and its answer, in full when the  *)
(* answer is Ok and not at all when it is an error.  Several writes may    *)
(* take effect at the same moment, one after the other.                    *)
(***************************************************************************)
EXTENDS SequencesExt, ReleaseIndex

CONSTANTS
    Clients,    \* tasks that hold a clone of the store
    Releases,
    Commands    \* the writes each of them may ask for

VARIABLES
    rows,       \* release_index
    calls       \* the call of each client

vars == <<rows, calls>>

Operations == {"record_event", "record_capture", "skip_capture", "fail_capture",
               "record_diff", "skip_diff", "fail_diff"}

Command == [op : Operations, release : Releases, origin : Origins, tier : Tiers]

NoCommand == [op |-> "none"]

\* What a client knows of its last call.
Answered(state) == [state |-> state, command |-> NoCommand]

NoCall == Answered("idle")

-----------------------------------------------------------------------------
\* The whole effect of a command on the row of its release.
Perform(row, c) ==
    CASE c.op = "record_event"   -> UpsertEventRow(row, c.origin, c.tier)
      [] c.op = "record_capture" -> RecordCapture(row, c.origin, c.tier)
      [] c.op = "skip_capture"   -> MarkCaptureSkipped(row, "triage")
      [] c.op = "fail_capture"   -> MarkCaptureFailed(row)
      [] c.op = "record_diff"    -> RecordDiff(row, c.origin, c.tier)
      [] c.op = "skip_diff"      -> MarkDiffSkipped(row)
      [] c.op = "fail_diff"      -> MarkDiffFailed(row)

\* What commands make of the table, one after the other.
PerformAll(table, commands) ==
    LET after[n \in 0..Len(commands)] ==
            IF n = 0 THEN table
            ELSE [after[n - 1] EXCEPT ![commands[n].release] = Perform(@, commands[n])]
    IN  after[Len(commands)]

Called == {c \in Clients : calls[c].state = "called"}

Answer(clients, state) ==
    calls' = [c \in Clients |->
                 IF c \in clients THEN Answered(state) ELSE calls[c]]

Init == rows = [r \in Releases |-> NoRow] /\ calls = [c \in Clients |-> NoCall]

Call(c, command) ==
    /\ c \notin Called
    /\ calls' = [calls EXCEPT ![c] = [state |-> "called", command |-> command]]
    /\ UNCHANGED rows

TakeEffect ==
    \E clients \in (SUBSET Called) \ {{}} :
        /\ \E order \in SetToSeqs(clients) :
               rows' = PerformAll(rows, [i \in DOMAIN order |-> calls[order[i]].command])
        /\ Answer(clients, "ok")

Fail ==
    \E clients \in (SUBSET Called) \ {{}} : Answer(clients, "error") /\ UNCHANGED rows

\* The store is closed to new writes.
Refuse(c) ==
    /\ c \notin Called
    /\ calls' = [calls EXCEPT ![c] = Answered("error")]
    /\ UNCHANGED rows

\* The process dies; what has taken effect stays.
Crash == calls' = [c \in Clients |-> NoCall] /\ UNCHANGED rows

Next ==
    \/ \E c \in Clients : \E command \in Commands[c] : Call(c, command)
    \/ TakeEffect
    \/ Fail
    \/ \E c \in Clients : Refuse(c)
    \/ Crash

Spec == Init /\ [][Next]_vars

=============================================================================
