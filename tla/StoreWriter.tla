---------------------------- MODULE StoreWriter -----------------------------
(***************************************************************************)
(* The writer thread of the operational store (store.rs): callers send     *)
(* commands over an unbounded channel and wait for the answer.  The thread *)
(* takes one command at a time, but gathers record_event commands that     *)
(* follow each other into one transaction; the command that ends such a    *)
(* batch is held back for the next round.                                  *)
(***************************************************************************)
EXTENDS Naturals, SequencesExt, ReleaseIndex

CONSTANTS
    Clients, Releases,
    Commands,     \* the writes each client may ask for
    BatchMax,     \* STORE_EVENT_WRITE_BATCH_MAX
    MaxCalls,     \* bound of the model: writes ever asked for
    MaxCrashes    \* bound of the model

ASSUME WriterAssumption ==
    /\ BatchMax \in Nat \ {0}
    /\ MaxCalls \in Nat
    /\ MaxCrashes \in Nat

VARIABLES
    rows,          \* release_index, as committed
    calls,         \* the call of each client, until it has its answer
    gone,          \* clients whose future was dropped while they waited
    senders,       \* some clone of the store is alive
    queue,         \* the command channel
    held,          \* the thread's `pending` command, if any
    batch,         \* the commands of the current round
    worker,        \* where the thread is
    disconnected,  \* collecting found the channel closed
    executed,      \* statements of the round executed so far
    txn,           \* release_index as the open transaction sees it
    result,        \* how the round ended
    sent,          \* number of the last command
    crashes

callers == <<calls, gone, senders>>
thread  == <<held, batch, worker, disconnected, executed, txn, result>>
vars    == <<rows, callers, queue, thread, sent, crashes>>

NoCommand == [op |-> "none"]

\* What a client knows of its last call.
Answered(state) == [state |-> state, command |-> NoCommand]

NoCall == Answered("idle")

Waiting(c) == calls[c].state = "called"

Atomic == INSTANCE AtomicStore WITH
    calls <- [c \in Clients |->
                 IF worker = "respond" /\ \E i \in DOMAIN batch : batch[i].client = c
                 THEN Answered(result)
                 ELSE calls[c]]

ASSUME CommandsAssumption == Commands \in [Clients -> SUBSET Atomic!Command]

\* A command in the channel: who sent it, and as which one.
Entry == [client : Clients, number : 1..MaxCalls]

CommandOf(entry) == calls[entry.client].command

IsEvent(entry) == CommandOf(entry).op = "record_event"

\* Every command the thread has still to answer, in its order.
Line == batch \o held \o queue

-----------------------------------------------------------------------------
(* The statements of a command, and what each does to its row.             *)

Upsert(entry) == [entry |-> entry, part |-> "upsert"]

Statements(entry) ==
    LET op == CommandOf(entry).op
    IN  CASE op = "record_capture" -> <<Upsert(entry), [entry |-> entry, part |-> "capture_ready"]>>
          [] op = "record_diff"    -> <<Upsert(entry), [entry |-> entry, part |-> "diff_ready"]>>
          [] OTHER                 -> <<[entry |-> entry, part |-> op]>>

\* The round is a batch of events, or one other command.
Work ==
    IF IsEvent(Head(batch)) THEN [i \in DOMAIN batch |-> Upsert(batch[i])]
    ELSE Statements(Head(batch))

Execute(row, statement) ==
    LET command == CommandOf(statement.entry)
    IN  CASE statement.part = "upsert"        -> UpsertEventRow(row, command.origin, command.tier)
          [] statement.part = "capture_ready" -> SetCapture(row, "ready", "none")
          [] statement.part = "diff_ready"    -> SetDiff(row, "ready", "none")
          [] statement.part = "skip_capture"  -> MarkCaptureSkipped(row, "triage")
          [] statement.part = "fail_capture"  -> MarkCaptureFailed(row)
          [] statement.part = "skip_diff"     -> MarkDiffSkipped(row)
          [] statement.part = "fail_diff"     -> MarkDiffFailed(row)

-----------------------------------------------------------------------------
(* The callers.                                                            *)

OnlyCallers == UNCHANGED <<rows, held, batch, worker, disconnected, executed, txn,
                           result, crashes>>

\* After the thread has stopped, a send fails.
Send(c, command) ==
    /\ senders /\ ~Waiting(c)
    /\ sent < MaxCalls
    /\ sent' = sent + 1
    /\ IF worker = "stopped"
       THEN /\ calls' = [calls EXCEPT ![c] = Answered("error")]
            /\ UNCHANGED queue
       ELSE /\ calls' = [calls EXCEPT ![c] = [state |-> "called", command |-> command]]
            /\ queue' = Append(queue, [client |-> c, number |-> sent'])
    /\ OnlyCallers
    /\ UNCHANGED <<gone, senders>>

\* The caller's future is dropped; the command stays in the channel.
HangUp(c) ==
    /\ Waiting(c) /\ c \notin gone
    /\ gone' = gone \cup {c}
    /\ OnlyCallers
    /\ UNCHANGED <<calls, senders, queue, sent>>

\* The last clone of the store is dropped: nobody waits any more.
Close ==
    /\ senders
    /\ \A c \in Clients : Waiting(c) => c \in gone
    /\ senders' = FALSE
    /\ OnlyCallers
    /\ UNCHANGED <<calls, gone, queue, sent>>

-----------------------------------------------------------------------------
(* The thread.                                                             *)

OnlyThread == UNCHANGED <<senders, sent, crashes>>

Reply(clients, state) ==
    /\ calls' = [c \in Clients |-> IF c \in clients THEN Answered(state) ELSE calls[c]]
    /\ gone' = gone \ clients

\* The connection opens, or the thread ends and the channel with it.
Open ==
    /\ worker = "start"
    /\ \/ worker' = "recv" /\ UNCHANGED <<calls, gone, queue>>
       \/ /\ worker' = "stopped"
          /\ queue' = <<>>
          /\ Reply({c \in Clients : Waiting(c)}, "error")
    /\ OnlyThread
    /\ UNCHANGED <<rows, held, batch, disconnected, executed, txn, result>>

Begin(entry) ==
    /\ batch' = <<entry>>
    /\ worker' = IF IsEvent(entry) THEN "collect" ELSE "write"
    /\ OnlyThread
    /\ UNCHANGED <<rows, calls, gone, disconnected, executed, txn, result>>

\* Mutant: the channel is asked before the command held back.
TakeQueuedFirst ==
    /\ worker = "recv"
    /\ IF queue # <<>>
       THEN Begin(Head(queue)) /\ queue' = Tail(queue) /\ UNCHANGED held
       ELSE held # <<>> /\ Begin(Head(held)) /\ held' = <<>> /\ UNCHANGED queue

\* next_write_command: the command held back comes first.
NextWriteCommand ==
    /\ worker = "recv"
    /\ IF held # <<>>
       THEN Begin(Head(held)) /\ held' = <<>> /\ UNCHANGED queue
       ELSE queue # <<>> /\ Begin(Head(queue)) /\ queue' = Tail(queue) /\ UNCHANGED held

Collecting == worker = "collect" /\ OnlyThread /\ UNCHANGED <<rows, calls, gone, executed, txn, result>>

CollectEvent ==
    /\ Collecting
    /\ queue # <<>> /\ IsEvent(Head(queue))
    /\ Len(batch) < BatchMax
    /\ batch' = Append(batch, Head(queue))
    /\ queue' = Tail(queue)
    /\ UNCHANGED <<held, worker, disconnected>>

\* Mutant: the command that ends the batch is kept where no round looks for it.
CollectAndForget ==
    /\ Collecting
    /\ queue # <<>> /\ ~IsEvent(Head(queue))
    /\ Len(batch) < BatchMax
    /\ queue' = Tail(queue)
    /\ worker' = "write"
    /\ UNCHANGED <<held, batch, disconnected>>

CollectOther ==
    /\ Collecting
    /\ queue # <<>> /\ ~IsEvent(Head(queue))
    /\ Len(batch) < BatchMax
    /\ held' = <<Head(queue)>>
    /\ queue' = Tail(queue)
    /\ worker' = "write"
    /\ UNCHANGED <<batch, disconnected>>

\* Mutant: no sender is taken for no more commands.
StopCollectingEarly ==
    /\ Collecting
    /\ worker' = "write"
    /\ disconnected' = ~senders
    /\ UNCHANGED <<held, batch, queue>>

\* Mutant: the thread waits for a full batch without a time limit.
WaitForFullBatch ==
    /\ Collecting
    /\ worker' = "write"
    /\ \/ Len(batch) = BatchMax /\ UNCHANGED disconnected
       \/ /\ queue = <<>> /\ ~senders /\ Len(batch) < BatchMax
          /\ disconnected' = TRUE
    /\ UNCHANGED <<held, batch, queue>>

\* The batch is full or its window has passed; or the channel is closed.
StopCollecting ==
    /\ Collecting
    /\ worker' = "write"
    /\ \/ UNCHANGED disconnected
       \/ /\ queue = <<>> /\ ~senders /\ Len(batch) < BatchMax
          /\ disconnected' = TRUE
    /\ UNCHANGED <<held, batch, queue>>

Writing == worker = "write" /\ OnlyThread /\ UNCHANGED <<calls, gone, queue, held, batch, disconnected>>

ExecuteStatement ==
    /\ Writing
    /\ executed < Len(Work)
    /\ LET statement == Work[executed + 1]
       IN  txn' = [txn EXCEPT ![CommandOf(statement.entry).release] = Execute(@, statement)]
    /\ executed' = executed + 1
    /\ UNCHANGED <<rows, worker, result>>

Commit ==
    /\ Writing
    /\ executed = Len(Work)
    /\ rows' = txn
    /\ worker' = "respond" /\ result' = "ok"
    /\ executed' = 0
    /\ UNCHANGED txn

\* Mutant: each statement commits by itself.
KeepPartial ==
    /\ Writing
    /\ rows' = txn
    /\ worker' = "respond" /\ result' = "error"
    /\ executed' = 0
    /\ UNCHANGED txn

\* A statement or the commit fails: the whole round is rolled back.
RollBack ==
    /\ Writing
    /\ worker' = "respond" /\ result' = "error"
    /\ executed' = 0
    /\ txn' = rows
    /\ UNCHANGED rows

\* The callers are answered one by one.
Respond ==
    /\ worker = "respond" /\ batch # <<>>
    /\ Reply({Head(batch).client}, result)
    /\ batch' = Tail(batch)
    /\ OnlyThread
    /\ UNCHANGED <<rows, queue, held, worker, disconnected, executed, txn, result>>

\* The round is over: the next one, or the end after a closed channel.
EndRound ==
    /\ worker = "respond" /\ batch = <<>>
    /\ worker' = IF disconnected THEN "stopped" ELSE "recv"
    /\ result' = "ok"
    /\ OnlyThread
    /\ UNCHANGED <<rows, calls, gone, queue, held, batch, disconnected, executed, txn>>

Stop ==
    /\ worker = "recv" /\ held = <<>> /\ queue = <<>> /\ ~senders
    /\ worker' = "stopped"
    /\ OnlyThread
    /\ UNCHANGED <<rows, calls, gone, queue, held, batch, disconnected, executed, txn, result>>

ThreadStep ==
    Open \/ NextWriteCommand \/ CollectEvent \/ CollectOther \/ StopCollecting
    \/ ExecuteStatement \/ Commit \/ RollBack \/ Respond \/ EndRound \/ Stop

-----------------------------------------------------------------------------
Volatile ==
    [calls |-> [c \in Clients |-> NoCall], gone |-> {}, senders |-> TRUE,
     queue |-> <<>>, held |-> <<>>, batch |-> <<>>, worker |-> "start",
     disconnected |-> FALSE, executed |-> 0, result |-> "ok"]

\* The process dies and is started again: only committed rows are left.
Crash ==
    /\ crashes < MaxCrashes
    /\ crashes' = crashes + 1
    /\ calls' = Volatile.calls /\ gone' = Volatile.gone /\ senders' = Volatile.senders
    /\ queue' = Volatile.queue /\ held' = Volatile.held /\ batch' = Volatile.batch
    /\ worker' = Volatile.worker /\ disconnected' = Volatile.disconnected
    /\ executed' = Volatile.executed /\ result' = Volatile.result
    /\ txn' = rows
    /\ UNCHANGED <<rows, sent>>

Init ==
    /\ rows = [r \in Releases |-> NoRow]
    /\ calls = Volatile.calls /\ gone = Volatile.gone /\ senders = Volatile.senders
    /\ queue = Volatile.queue /\ held = Volatile.held /\ batch = Volatile.batch
    /\ worker = Volatile.worker /\ disconnected = Volatile.disconnected
    /\ executed = Volatile.executed /\ result = Volatile.result
    /\ txn = rows
    /\ sent = 0 /\ crashes = 0

Next ==
    \/ \E c \in Clients : \E command \in Commands[c] : Send(c, command)
    \/ \E c \in Clients : HangUp(c)
    \/ Close
    \/ ThreadStep
    \/ Crash

Spec == Init /\ [][Next]_vars

\* The operating system runs the thread; its SQL statements end.
FairSpec == Spec /\ WF_vars(ThreadStep)

-----------------------------------------------------------------------------
(* Properties.                                                             *)

\* Every variable has its type; a batch keeps to its limit.
TypeOK ==
    /\ rows \in [Releases -> Row \cup {NoRow}]
    /\ txn \in [Releases -> Row \cup {NoRow}]
    /\ DOMAIN calls = Clients
    /\ \A c \in Clients :
           calls[c] \in [state : {"called"}, command : Commands[c]] \cup
                       {Answered(state) : state \in {"idle", "ok", "error"}}
    /\ gone \subseteq Clients
    /\ queue \in Seq(Entry) /\ held \in Seq(Entry) /\ batch \in Seq(Entry)
    /\ Len(held) <= 1 /\ Len(batch) <= BatchMax
    /\ worker \in {"start", "recv", "collect", "write", "respond", "stopped"}
    /\ senders \in BOOLEAN /\ disconnected \in BOOLEAN
    /\ executed \in Nat /\ result \in {"ok", "error"}
    /\ sent \in 0..MaxCalls /\ crashes \in 0..MaxCrashes

\* The command held back by a batch keeps its place: commands are executed in
\* the order in which they were sent (store.rs 1606-1645).
InOrder ==
    \A i, j \in DOMAIN Line : i < j => Line[i].number < Line[j].number

\* Between the channel, the held command and the batch no command of a waiting
\* caller is lost or doubled, also when the caller has hung up.
AcceptedOnce ==
    /\ \A c \in Clients : Waiting(c) <=> \E i \in DOMAIN Line : Line[i].client = c
    /\ \A i, j \in DOMAIN Line : Line[i].client = Line[j].client => i = j

\* The thread ends only when every command has been executed, although a
\* batch that finds the channel closed ends it without another look
\* (store.rs 1593-1599).
StopsEmptyHanded == worker = "stopped" => Line = <<>>

\* Whatever writes of several tasks reach a row in whatever order, a settled
\* job is never pending again and an observed release stays observed
\* (store.rs 2092-2115).
RowsOnlyAdvance ==
    [][\A r \in Releases :
         /\ rows[r].capture \in Settled => rows'[r].capture \in Settled
         /\ rows[r].diff \in Settled => rows'[r].diff \in Settled
         /\ rows[r].origin = "observed" => rows'[r].origin = "observed"]_vars

\* Every caller is answered, whichever way its round ends.
CallsAnswered ==
    \A c \in Clients : Waiting(c) ~> ~Waiting(c)

\* Batches, held commands and statements in transactions are to the callers
\* what AtomicStore promises.
ImplementsAtomicStore == Atomic!Spec

=============================================================================
