------------------------- MODULE StoreWriterProofs --------------------------
(***************************************************************************)
(* Proofs about StoreWriter, for any clients, releases, commands, batch    *)
(* limit and number of crashes.                                            *)
(***************************************************************************)
EXTENDS StoreWriter, FiniteSetTheorems, WellFoundedInduction, NaturalsInduction, TLAPS

-----------------------------------------------------------------------------
(* The line of commands: it grows at its end and shrinks at its head.      *)

WaitingClients == {c \in Clients : Waiting(c)}

\* The commands of a line are in the order of their numbers, none beyond n.
Ordered(line, n) ==
    /\ \A i \in DOMAIN line : line[i].number <= n
    /\ \A i, j \in DOMAIN line : i < j => line[i].number < line[j].number

\* A line holds one command of each client that waits, and no other.
Faithful(line, waiting) ==
    /\ \A c \in Clients : c \in waiting <=> \E i \in DOMAIN line : line[i].client = c
    /\ \A i, j \in DOMAIN line : line[i].client = line[j].client => i = j

\* A sequence appended to is one longer.
LEMMA AppendFacts ==
    ASSUME NEW S, NEW s \in Seq(S), NEW e \in S
    PROVE  /\ Append(s, e) \in Seq(S)
           /\ DOMAIN s = 1..Len(s) /\ Len(s) \in Nat
           /\ DOMAIN Append(s, e) = 1..(Len(s) + 1)
           /\ \A i \in DOMAIN s : Append(s, e)[i] = s[i]
           /\ Append(s, e)[Len(s) + 1] = e
OBVIOUS

\* A sequence without its head is one shorter.
LEMMA TailFacts ==
    ASSUME NEW S, NEW s \in Seq(S), s # <<>>
    PROVE  /\ Head(s) \in S /\ Head(s) = s[1]
           /\ Tail(s) \in Seq(S)
           /\ DOMAIN s = 1..Len(s) /\ Len(s) \in Nat \ {0}
           /\ DOMAIN Tail(s) = 1..(Len(s) - 1)
           /\ Len(Tail(s)) = Len(s) - 1
           /\ \A i \in DOMAIN Tail(s) : Tail(s)[i] = s[i + 1]
OBVIOUS

\* A command sent goes to the end of the line.
LEMMA AppendToLine ==
    ASSUME NEW S, NEW a \in Seq(S), NEW q \in Seq(S), NEW e \in S
    PROVE  a \o Append(q, e) = Append(a \o q, e)
OBVIOUS

\* Moving the head of the queue to the end of what stands before it does not
\* disturb the line.
LEMMA MoveHead ==
    ASSUME NEW S, NEW a \in Seq(S), NEW q \in Seq(S), q # <<>>
    PROVE  /\ <<Head(q)>> \o Tail(q) = q
           /\ (a \o <<Head(q)>>) \o Tail(q) = a \o q
           /\ Append(a, Head(q)) \o Tail(q) = a \o q
BY SMTT(40)

\* What is taken from the front part is taken from the line.
LEMMA TailOfLine ==
    ASSUME NEW S, NEW b \in Seq(S), NEW q \in Seq(S), b # <<>>
    PROVE  /\ Tail(b) \o q = Tail(b \o q)
           /\ b \o q # <<>>
           /\ Head(b \o q) = Head(b)
           /\ \A i \in DOMAIN b : i \in DOMAIN (b \o q) /\ (b \o q)[i] = b[i]
BY SMTT(40)

\* The next command of a client that does not wait keeps the line in order.
LEMMA LineGrows ==
    ASSUME NEW line \in Seq(Entry), NEW n \in Nat, n < MaxCalls,
           NEW waiting, NEW c \in Clients, c \notin waiting,
           Ordered(line, n), Faithful(line, waiting)
    PROVE  LET e == [client |-> c, number |-> n + 1]
           IN  /\ Append(line, e) \in Seq(Entry)
               /\ Ordered(Append(line, e), n + 1)
               /\ Faithful(Append(line, e), waiting \cup {c})
<1> DEFINE e == [client |-> c, number |-> n + 1]
<1>1. e \in Entry /\ e.client = c /\ e.number = n + 1
  BY WriterAssumption DEF Entry
<1> HIDE DEF e
<1>2. /\ Append(line, e) \in Seq(Entry)
      /\ DOMAIN line = 1..Len(line) /\ Len(line) \in Nat
      /\ DOMAIN Append(line, e) = 1..(Len(line) + 1)
      /\ \A i \in DOMAIN line : Append(line, e)[i] = line[i]
      /\ Append(line, e)[Len(line) + 1] = e
  BY <1>1, AppendFacts
<1>3. \A i \in DOMAIN line : line[i].number \in Nat
  <2>1. \A i \in DOMAIN line : line[i] \in Entry
    OBVIOUS
  <2>2. QED  BY <2>1, WriterAssumption DEF Entry
<1>4. Ordered(Append(line, e), n + 1)
  BY <1>1, <1>2, <1>3 DEF Ordered
<1>5. Faithful(Append(line, e), waiting \cup {c})
  <2>1. ASSUME NEW d \in Clients
        PROVE  d \in waiting \cup {c}
                   <=> \E i \in DOMAIN Append(line, e) : Append(line, e)[i].client = d
    BY <1>1, <1>2 DEF Faithful
  <2>2. \A i \in DOMAIN line : line[i].client # c
    BY DEF Faithful
  <2>3. ASSUME NEW i \in DOMAIN Append(line, e), NEW j \in DOMAIN Append(line, e),
               Append(line, e)[i].client = Append(line, e)[j].client
        PROVE  i = j
    BY <1>1, <1>2, <2>2, <2>3 DEF Faithful
  <2>4. QED  BY <2>1, <2>3 DEF Faithful
<1>6. QED  BY <1>2, <1>4, <1>5 DEF e

\* The first of the line is answered.
LEMMA LineShrinks ==
    ASSUME NEW line \in Seq(Entry), line # <<>>, NEW n \in Nat, NEW waiting,
           Ordered(line, n), Faithful(line, waiting)
    PROVE  /\ Tail(line) \in Seq(Entry)
           /\ Ordered(Tail(line), n)
           /\ Faithful(Tail(line), waiting \ {Head(line).client})
<1>1. /\ Head(line) \in Entry /\ Head(line) = line[1]
      /\ Tail(line) \in Seq(Entry)
      /\ DOMAIN line = 1..Len(line) /\ Len(line) \in Nat \ {0}
      /\ DOMAIN Tail(line) = 1..(Len(line) - 1)
      /\ \A i \in DOMAIN Tail(line) : Tail(line)[i] = line[i + 1]
  BY TailFacts
<1>2. \A i \in DOMAIN Tail(line) : i + 1 \in DOMAIN line /\ i \in Nat \ {0}
  BY <1>1
<1>3. Ordered(Tail(line), n)
  BY SMTT(40), <1>1, <1>2 DEF Ordered
<1>4. ASSUME NEW c \in Clients
      PROVE  c \in waiting \ {Head(line).client}
                 <=> \E i \in DOMAIN Tail(line) : Tail(line)[i].client = c
  <2>1. ASSUME NEW i \in DOMAIN line, i # 1
        PROVE  i - 1 \in DOMAIN Tail(line) /\ Tail(line)[i - 1] = line[i]
    BY <1>1, <2>1
  <2>2. 1 \in DOMAIN line
    BY <1>1
  <2>3. ASSUME c \in waiting, c # Head(line).client
        PROVE  \E i \in DOMAIN Tail(line) : Tail(line)[i].client = c
    <3>1. PICK k \in DOMAIN line : line[k].client = c
      BY <2>3 DEF Faithful
    <3>2. QED  BY <1>1, <2>1, <2>3, <3>1
  <2>4. ASSUME NEW i \in DOMAIN Tail(line), Tail(line)[i].client = c
        PROVE  c \in waiting /\ c # Head(line).client
    <3>1. i + 1 \in DOMAIN line /\ line[i + 1].client = c /\ i + 1 # 1
      BY <1>1, <1>2, <2>4
    <3>2. c \in waiting
      BY <3>1 DEF Faithful
    <3>3. line[1].client # c
      BY <2>2, <3>1 DEF Faithful
    <3>4. QED  BY <1>1, <3>2, <3>3
  <2>5. QED  BY <2>3, <2>4
<1>5. ASSUME NEW i \in DOMAIN Tail(line), NEW j \in DOMAIN Tail(line),
             Tail(line)[i].client = Tail(line)[j].client
      PROVE  i = j
  <2>1. i + 1 = j + 1
    BY <1>1, <1>2, <1>5 DEF Faithful
  <2>2. QED  BY <1>2, <2>1
<1>6. QED  BY <1>1, <1>3, <1>4, <1>5 DEF Faithful

\* Nobody waits in an empty line.
LEMMA LineEmpty ==
    ASSUME NEW n
    PROVE  Ordered(<<>>, n) /\ Faithful(<<>>, {})
BY DEF Ordered, Faithful

-----------------------------------------------------------------------------
(* Rows: no statement takes back what a row has settled.                   *)

Rows == Row \cup {NoRow}

Parts == {"upsert", "capture_ready", "diff_ready",
          "skip_capture", "fail_capture", "skip_diff", "fail_diff"}

Advanced(old, new) ==
    /\ old.capture \in Settled => new.capture \in Settled
    /\ old.diff \in Settled => new.diff \in Settled
    /\ old.origin = "observed" => new.origin = "observed"

\* An upsert keeps the states of settled jobs and the origin observed.
LEMMA UpsertAdvances ==
    ASSUME NEW row \in Rows, NEW origin \in Origins, NEW tier \in Tiers
    PROVE  /\ UpsertEventRow(row, origin, tier) \in Row
           /\ Advanced(row, UpsertEventRow(row, origin, tier))
<1>1. /\ DefaultCaptureState(origin, tier) \in JobStates
      /\ CaptureSkipReason(origin, tier) \in Reasons
      /\ DefaultDiffState(origin, tier) \in JobStates
      /\ DiffSkipReason(origin, tier) \in Reasons
  BY DEF DefaultCaptureState, CaptureSkipReason, DefaultDiffState, DiffSkipReason,
         JobStates, Reasons
<1>2. /\ row.capture \in Settled => row # NoRow
      /\ row.diff \in Settled => row # NoRow
      /\ row.origin = "observed" => row # NoRow
  BY DEF NoRow, Settled, JobStates
<1>3. row # NoRow => row \in Row
  BY DEF Rows
<1>4. /\ row.capture \in Settled => row.capture_reason \in Reasons
      /\ row.diff \in Settled => row.diff_reason \in Reasons
      /\ row # NoRow => row.origin \in Origins
      /\ Settled \subseteq JobStates
  BY <1>2, <1>3 DEF Row, Settled
<1>5. UpsertEventRow(row, origin, tier) \in Row
  BY <1>1, <1>4 DEF UpsertEventRow, Row
<1>6. Advanced(row, UpsertEventRow(row, origin, tier))
  <2> DEFINE new == UpsertEventRow(row, origin, tier)
  <2>1. row.capture \in Settled => new.capture = row.capture
    BY DEF UpsertEventRow
  <2>2. row.diff \in Settled => new.diff = row.diff
    BY DEF UpsertEventRow
  <2>3. new.origin = IF row # NoRow /\ origin # "observed" THEN row.origin ELSE origin
    BY DEF UpsertEventRow
  <2>4. row.origin = "observed" => new.origin = "observed"
    BY <1>2, <2>3
  <2> HIDE DEF new
  <2>5. Advanced(row, new)
    BY <2>1, <2>2, <2>4 DEF Advanced
  <2>6. QED  BY <2>5 DEF new
<1>7. QED  BY <1>5, <1>6

\* The updates of one job settle it.
LEMMA UpdateAdvances ==
    ASSUME NEW row \in Rows, NEW state \in Settled, NEW reason \in Reasons
    PROVE  /\ SetCapture(row, state, reason) \in Rows
           /\ Advanced(row, SetCapture(row, state, reason))
           /\ SetDiff(row, state, reason) \in Rows
           /\ Advanced(row, SetDiff(row, state, reason))
BY DEF SetCapture, SetDiff, Advanced, Rows, Row, Settled

LEMMA ExecuteAdvances ==
    ASSUME NEW row \in Rows, NEW statement, statement.part \in Parts,
           CommandOf(statement.entry) \in Atomic!Command
    PROVE  /\ Execute(row, statement) \in Rows
           /\ Advanced(row, Execute(row, statement))
<1>1. /\ CommandOf(statement.entry).origin \in Origins
      /\ CommandOf(statement.entry).tier \in Tiers
  BY DEF Atomic!Command, Atomic!Origins, Origins, Atomic!Tiers, Tiers
<1>2. /\ "ready" \in Settled /\ "skipped" \in Settled /\ "failed" \in Settled
      /\ "none" \in Reasons /\ "triage" \in Reasons /\ "policy" \in Reasons
      /\ "error" \in Reasons
  BY DEF Settled, JobStates, Reasons
<1>3. CASE statement.part = "upsert"
  BY <1>1, <1>3, UpsertAdvances DEF Execute, Rows
<1>4. CASE statement.part = "capture_ready"
  BY <1>2, <1>4, UpdateAdvances DEF Execute
<1>5. CASE statement.part = "diff_ready"
  BY <1>2, <1>5, UpdateAdvances DEF Execute
<1>6. CASE statement.part = "skip_capture"
  BY <1>2, <1>6, UpdateAdvances DEF Execute, MarkCaptureSkipped
<1>7. CASE statement.part = "fail_capture"
  BY <1>2, <1>7, UpdateAdvances DEF Execute, MarkCaptureFailed
<1>8. CASE statement.part = "skip_diff"
  BY <1>2, <1>8, UpdateAdvances DEF Execute, MarkDiffSkipped
<1>9. CASE statement.part = "fail_diff"
  BY <1>2, <1>9, UpdateAdvances DEF Execute, MarkDiffFailed
<1>10. QED  BY <1>3, <1>4, <1>5, <1>6, <1>7, <1>8, <1>9 DEF Parts

-----------------------------------------------------------------------------
(* The inductive invariant.                                                *)

\* What the thread holds at each stage of a round.
Stages ==
    /\ worker \in {"start", "recv"} => batch = <<>> /\ ~disconnected
    /\ worker \in {"start", "collect", "stopped"} => held = <<>>
    /\ worker \in {"collect", "write"} => batch # <<>>
    /\ worker = "collect" => ~disconnected
    /\ worker = "stopped" => batch = <<>> /\ queue = <<>>
    /\ disconnected => queue = <<>> /\ held = <<>> /\ ~senders

\* The open transaction takes nothing back of what is committed.
TxnAdvances == \A r \in Releases : Advanced(rows[r], txn[r])

LineOK == Ordered(Line, sent) /\ Faithful(Line, WaitingClients)

IInv == TypeOK /\ LineOK /\ Stages /\ TxnAdvances

LEMMA InitIInv == Init => IInv
<1> SUFFICES ASSUME Init PROVE IInv
  OBVIOUS
<1> USE DEF Init, Volatile
<1>1. TypeOK
  BY WriterAssumption DEF TypeOK, NoCall, Rows
<1>2. Line = <<>> /\ WaitingClients = {}
  BY DEF Line, WaitingClients, Waiting, NoCall, Answered
<1>3. LineOK
  BY <1>2, LineEmpty DEF LineOK
<1>4. Stages
  BY DEF Stages
<1>5. TxnAdvances
  BY DEF TxnAdvances, Advanced
<1>6. QED  BY <1>1, <1>3, <1>4, <1>5 DEF IInv

\* The line is a sequence of entries, the batch its front, and every command in
\* it is one its client may ask for.
LEMMA LineFacts ==
    ASSUME TypeOK
    PROVE  /\ Line \in Seq(Entry)
           /\ batch \in Seq(Entry) /\ held \in Seq(Entry) /\ queue \in Seq(Entry)
           /\ batch \o held \in Seq(Entry)
           /\ \A i \in DOMAIN batch : i \in DOMAIN Line /\ Line[i] = batch[i]
<1>1. batch \in Seq(Entry) /\ held \in Seq(Entry) /\ queue \in Seq(Entry)
  BY DEF TypeOK
<1>2. batch \o held \in Seq(Entry) /\ Line \in Seq(Entry)
  BY <1>1 DEF Line
<1>3. \A i \in DOMAIN batch : i \in DOMAIN Line /\ Line[i] = batch[i]
  BY <1>1 DEF Line
<1>4. QED  BY <1>1, <1>2, <1>3

LEMMA BatchCommands ==
    ASSUME TypeOK, LineOK, NEW i \in DOMAIN batch
    PROVE  /\ batch[i].client \in Clients
           /\ Waiting(batch[i].client)
           /\ CommandOf(batch[i]) \in Atomic!Command
<1>1. batch[i] \in Entry /\ i \in DOMAIN Line /\ Line[i] = batch[i]
  BY LineFacts
<1>2. batch[i].client \in Clients
  BY <1>1 DEF Entry
<1>3. Waiting(batch[i].client)
  BY <1>1, <1>2 DEF LineOK, Faithful, WaitingClients
<1>4. calls[batch[i].client].command \in Commands[batch[i].client]
  BY <1>2, <1>3 DEF TypeOK, Waiting, Answered
<1>5. QED  BY <1>2, <1>3, <1>4, CommandsAssumption DEF CommandOf

LEMMA WorkFacts ==
    ASSUME TypeOK, LineOK, batch # <<>>, executed < Len(Work)
    PROVE  /\ Work[executed + 1].part \in Parts
           /\ CommandOf(Work[executed + 1].entry) \in Atomic!Command
<1>1. /\ executed \in Nat /\ batch \in Seq(Entry)
      /\ DOMAIN batch = 1..Len(batch) /\ Len(batch) \in Nat
      /\ 1 \in DOMAIN batch /\ Head(batch) = batch[1]
  BY DEF TypeOK
<1>2. CASE IsEvent(Head(batch))
  <2>1. Work = [i \in 1..Len(batch) |-> Upsert(batch[i])]
    BY <1>1, <1>2 DEF Work
  <2>2. Len(Work) = Len(batch)
    BY <1>1, <2>1
  <2>3. executed + 1 \in DOMAIN batch
    BY <1>1, <2>2
  <2>4. Work[executed + 1] = Upsert(batch[executed + 1])
    BY <1>1, <2>1, <2>3
  <2>5. QED  BY <2>3, <2>4, BatchCommands DEF Upsert, Parts
<1>3. CASE ~IsEvent(Head(batch))
  <2> DEFINE first == Head(batch)
  <2>1. CommandOf(first) \in Atomic!Command /\ CommandOf(first).op # "record_event"
    BY <1>1, <1>3, BatchCommands DEF IsEvent
  <2>2. Work = Statements(first)
    BY <1>3 DEF Work
  <2>3. CommandOf(first).op \in Atomic!Operations \ {"record_event"}
    BY <2>1 DEF Atomic!Command
  <2> HIDE DEF first
  <2>4. CASE CommandOf(first).op = "record_capture"
    <3>1. Work = <<Upsert(first), [entry |-> first, part |-> "capture_ready"]>>
      BY <2>2, <2>4 DEF Statements
    <3>2. executed = 0 \/ executed = 1
      BY <1>1, <3>1
    <3>3. QED  BY <2>1, <3>1, <3>2 DEF Upsert, Parts
  <2>5. CASE CommandOf(first).op = "record_diff"
    <3>1. Work = <<Upsert(first), [entry |-> first, part |-> "diff_ready"]>>
      BY <2>2, <2>5 DEF Statements
    <3>2. executed = 0 \/ executed = 1
      BY <1>1, <3>1
    <3>3. QED  BY <2>1, <3>1, <3>2 DEF Upsert, Parts
  <2>6. CASE CommandOf(first).op \notin {"record_capture", "record_diff"}
    <3>1. Work = <<[entry |-> first, part |-> CommandOf(first).op]>>
      BY <2>2, <2>6 DEF Statements
    <3>2. executed = 0
      BY <1>1, <3>1
    <3>3. CommandOf(first).op \in Parts
      BY <2>3, <2>6 DEF Atomic!Operations, Parts
    <3>4. QED  BY <2>1, <3>1, <3>2, <3>3
  <2>7. QED  BY <2>4, <2>5, <2>6
<1>4. QED  BY <1>2, <1>3

-----------------------------------------------------------------------------
(* What the parts of the invariant owe to steps that do not concern them.  *)

LEMMA LineKept ==
    ASSUME LineOK, UNCHANGED <<calls, sent>>, Line' = Line
    PROVE  LineOK'
BY DEF LineOK, Ordered, Faithful, WaitingClients, Waiting

LEMMA RowsKept ==
    ASSUME TxnAdvances, UNCHANGED <<rows, txn>>
    PROVE  TxnAdvances'
BY DEF TxnAdvances

\* The callers of some commands are answered.
LEMMA ReplyFacts ==
    ASSUME TypeOK, NEW clients \in SUBSET Clients, NEW state \in {"ok", "error"},
           Reply(clients, state)
    PROVE  /\ WaitingClients' = WaitingClients \ clients
           /\ gone' \subseteq Clients
           /\ DOMAIN calls' = Clients
           /\ \A c \in Clients :
                  calls'[c] \in [state : {"called"}, command : Commands[c]] \cup
                                {Answered(s) : s \in {"idle", "ok", "error"}}
<1>1. \A c \in Clients : calls'[c] = IF c \in clients THEN Answered(state) ELSE calls[c]
  BY DEF Reply
<1>2. ~(Answered(state).state = "called")
  BY DEF Answered
<1>3. WaitingClients' = WaitingClients \ clients
  BY <1>1, <1>2 DEF WaitingClients, Waiting
<1>4. QED  BY <1>1, <1>3 DEF TypeOK, Reply

-----------------------------------------------------------------------------
(* The callers' steps.                                                     *)

LEMMA SendStep ==
    ASSUME IInv, NEW c \in Clients, NEW command \in Commands[c], Send(c, command)
    PROVE  IInv'
<1> USE DEF IInv
<1>1. /\ senders /\ ~Waiting(c) /\ sent < MaxCalls /\ sent' = sent + 1 /\ sent \in Nat
      /\ UNCHANGED <<rows, held, batch, worker, disconnected, executed, txn, result,
                     crashes, gone, senders>>
  BY WriterAssumption DEF Send, OnlyCallers, TypeOK
<1>2. c \notin WaitingClients
  BY <1>1 DEF WaitingClients
<1>3. CASE worker = "stopped"
  <2>1. calls' = [calls EXCEPT ![c] = Answered("error")] /\ queue' = queue
    BY <1>3 DEF Send
  <2>2. TypeOK'
    BY <1>1, <2>1, WriterAssumption DEF TypeOK
  <2>3. Line' = Line
    BY <1>1, <2>1 DEF Line
  <2>4. WaitingClients' = WaitingClients
    <3>1. \A d \in Clients : calls'[d] = IF d = c THEN Answered("error") ELSE calls[d]
      BY <2>1, <2>2 DEF TypeOK
    <3>2. Answered("error").state # "called"
      BY DEF Answered
    <3>3. QED  BY <1>1, <3>1, <3>2 DEF WaitingClients, Waiting
  <2>5. LineOK'
    <3>1. \A i \in DOMAIN Line : Line[i] \in Entry
      BY LineFacts
    <3>2. \A i \in DOMAIN Line : Line[i].number \in Nat
      BY <3>1, WriterAssumption DEF Entry
    <3>3. \A i \in DOMAIN Line : Line[i].number <= sent + 1
      BY <1>1, <3>2 DEF LineOK, Ordered
    <3>4. QED  BY <1>1, <2>3, <2>4, <3>3 DEF LineOK, Ordered, Faithful
  <2>6. Stages'
    BY <1>1, <2>1 DEF Stages
  <2>7. TxnAdvances'
    BY <1>1, RowsKept
  <2>8. QED  BY <2>2, <2>5, <2>6, <2>7
<1>4. CASE worker # "stopped"
  <2> DEFINE e == [client |-> c, number |-> sent + 1]
  <2>1. /\ calls' = [calls EXCEPT ![c] = [state |-> "called", command |-> command]]
        /\ queue' = Append(queue, e)
    BY <1>1, <1>4 DEF Send
  <2>2. e \in Entry
    BY <1>1, WriterAssumption DEF Entry
  <2> HIDE DEF e
  <2>3. TypeOK'
    BY <1>1, <2>1, <2>2, WriterAssumption DEF TypeOK
  <2>4. Line' = Append(Line, e)
    BY SMTT(40), <1>1, <2>1, <2>2, LineFacts, AppendToLine DEF Line
  <2>5. WaitingClients' = WaitingClients \cup {c}
    <3>1. \A d \in Clients :
              calls'[d] = IF d = c THEN [state |-> "called", command |-> command] ELSE calls[d]
      BY <2>1, <2>3 DEF TypeOK
    <3>2. Waiting(c)' /\ \A d \in Clients \ {c} : Waiting(d)' <=> Waiting(d)
      BY <3>1 DEF Waiting
    <3>3. QED  BY <3>2 DEF WaitingClients
  <2>6. LineOK'
    BY <1>1, <1>2, <2>4, <2>5, LineFacts, LineGrows DEF LineOK, e
  <2>7. Stages'
    BY <1>1, <1>4 DEF Stages
  <2>8. TxnAdvances'
    BY <1>1, RowsKept
  <2>9. QED  BY <2>3, <2>6, <2>7, <2>8
<1>5. QED  BY <1>3, <1>4

LEMMA HangUpStep ==
    ASSUME IInv, NEW c \in Clients, HangUp(c)
    PROVE  IInv'
<1> USE DEF IInv, HangUp, OnlyCallers
<1>1. TypeOK'
  BY DEF TypeOK
<1>2. LineOK'
  BY LineKept DEF Line
<1>3. Stages'
  BY DEF Stages
<1>4. TxnAdvances'
  BY RowsKept
<1>5. QED  BY <1>1, <1>2, <1>3, <1>4

LEMMA CloseStep ==
    ASSUME IInv, Close
    PROVE  IInv'
<1> USE DEF IInv, Close, OnlyCallers
<1>1. TypeOK'
  BY DEF TypeOK
<1>2. LineOK'
  BY LineKept DEF Line
<1>3. Stages'
  BY DEF Stages
<1>4. TxnAdvances'
  BY RowsKept
<1>5. QED  BY <1>1, <1>2, <1>3, <1>4

-----------------------------------------------------------------------------
(* The thread's steps.                                                     *)

LEMMA OpenStep ==
    ASSUME IInv, Open
    PROVE  IInv'
<1> USE DEF IInv
<1>1. /\ worker = "start" /\ batch = <<>> /\ held = <<>> /\ ~disconnected
      /\ UNCHANGED <<rows, held, batch, disconnected, executed, txn, result,
                     senders, sent, crashes>>
  BY DEF Open, OnlyThread, Stages
<1>2. TxnAdvances'
  BY <1>1, RowsKept
<1>3. CASE worker' = "recv" /\ UNCHANGED <<calls, gone, queue>>
  <2>1. TypeOK'
    BY <1>1, <1>3 DEF TypeOK
  <2>2. LineOK'
    BY <1>1, <1>3, LineKept DEF Line
  <2>3. Stages'
    BY <1>1, <1>3 DEF Stages
  <2>4. QED  BY <1>2, <2>1, <2>2, <2>3
<1>4. CASE worker' = "stopped" /\ queue' = <<>> /\ Reply(WaitingClients, "error")
  <2>1. /\ WaitingClients' = {} /\ gone' \subseteq Clients /\ DOMAIN calls' = Clients
        /\ \A c \in Clients :
               calls'[c] \in [state : {"called"}, command : Commands[c]] \cup
                             {Answered(s) : s \in {"idle", "ok", "error"}}
    BY <1>4, ReplyFacts DEF WaitingClients
  <2>2. TypeOK'
    BY <1>1, <1>4, <2>1 DEF TypeOK
  <2>3. Line' = <<>>
    BY <1>1, <1>4 DEF Line
  <2>4. LineOK'
    BY <2>1, <2>3, LineEmpty DEF LineOK
  <2>5. Stages'
    BY <1>1, <1>4 DEF Stages
  <2>6. QED  BY <1>2, <2>2, <2>4, <2>5
<1>5. QED  BY <1>3, <1>4 DEF Open, WaitingClients

LEMMA NextWriteCommandStep ==
    ASSUME IInv, NextWriteCommand
    PROVE  IInv'
<1> USE DEF IInv
<1>1. /\ worker = "recv" /\ batch = <<>> /\ ~disconnected
      /\ UNCHANGED <<rows, calls, gone, disconnected, executed, txn, result,
                     senders, sent, crashes>>
      /\ worker' \in {"collect", "write"}
  BY DEF NextWriteCommand, Begin, OnlyThread, Stages
<1>2. CASE held # <<>>
  <2>1. batch' = <<Head(held)>> /\ held' = <<>> /\ queue' = queue
    BY <1>2 DEF NextWriteCommand, Begin
  <2>2. held \in Seq(Entry) /\ Len(held) <= 1
    BY DEF TypeOK
  <2>3. Head(held) \in Entry /\ batch' \in Seq(Entry) /\ Len(batch') = 1 /\ held = <<Head(held)>>
    BY <1>2, <2>1, <2>2
  <2>4. TypeOK'
    BY <1>1, <2>1, <2>3, WriterAssumption DEF TypeOK
  <2>5. Line' = Line
    <3>1. batch \o held = held /\ batch' \o held' = held
      BY <1>1, <2>1, <2>2, <2>3
    <3>2. QED  BY <2>1, <3>1 DEF Line
  <2>6. LineOK'
    BY <1>1, <2>5, LineKept
  <2>7. Stages'
    BY <1>1, <2>1 DEF Stages
  <2>8. QED  BY <1>1, <2>4, <2>6, <2>7, RowsKept
<1>3. CASE held = <<>>
  <2>1. /\ queue # <<>> /\ batch' = <<Head(queue)>> /\ queue' = Tail(queue)
        /\ held' = held
    BY <1>3 DEF NextWriteCommand, Begin
  <2>2. queue \in Seq(Entry)
    BY DEF TypeOK
  <2>3. /\ Head(queue) \in Entry /\ Tail(queue) \in Seq(Entry)
        /\ batch' \in Seq(Entry) /\ Len(batch') = 1
    BY <2>1, <2>2
  <2>4. TypeOK'
    BY <1>1, <2>1, <2>3, WriterAssumption DEF TypeOK
  <2>5. Line' = Line
    <3>1. batch \o held = <<>> /\ batch' \o held' = batch'
      BY <1>1, <1>3, <2>1, <2>3
    <3>2. <<>> \o queue = queue /\ <<Head(queue)>> \o Tail(queue) = queue
      BY <2>1, <2>2, MoveHead
    <3>3. QED  BY <2>1, <3>1, <3>2 DEF Line
  <2>6. LineOK'
    BY <1>1, <2>5, LineKept
  <2>7. Stages'
    BY <1>1, <1>3, <2>1 DEF Stages
  <2>8. QED  BY <1>1, <2>4, <2>6, <2>7, RowsKept
<1>4. QED  BY <1>2, <1>3

LEMMA CollectEventStep ==
    ASSUME IInv, CollectEvent
    PROVE  IInv'
<1> USE DEF IInv
<1>1. /\ worker = "collect" /\ held = <<>> /\ ~disconnected
      /\ queue # <<>> /\ Len(batch) < BatchMax
      /\ batch' = Append(batch, Head(queue)) /\ queue' = Tail(queue)
      /\ UNCHANGED <<rows, calls, gone, held, worker, disconnected, executed, txn, result,
                     senders, sent, crashes>>
  BY DEF CollectEvent, Collecting, OnlyThread, Stages
<1>2. queue \in Seq(Entry) /\ batch \in Seq(Entry)
  BY DEF TypeOK
<1>3. /\ Tail(queue) \in Seq(Entry) /\ batch' \in Seq(Entry)
      /\ Len(batch') = Len(batch) + 1 /\ Len(batch) \in Nat /\ batch' # <<>>
  BY <1>1, <1>2
<1>4. TypeOK'
  BY <1>1, <1>3, WriterAssumption DEF TypeOK
<1>5. Line' = Line
  <2>1. batch \o held = batch /\ batch' \o held' = batch'
    BY <1>1, <1>2, <1>3
  <2>2. QED  BY <1>1, <1>2, <2>1, MoveHead DEF Line
<1>6. LineOK'
  BY <1>1, <1>5, LineKept
<1>7. Stages'
  BY <1>1, <1>3 DEF Stages
<1>8. QED  BY <1>1, <1>4, <1>6, <1>7, RowsKept

LEMMA CollectOtherStep ==
    ASSUME IInv, CollectOther
    PROVE  IInv'
<1> USE DEF IInv
<1>1. /\ worker = "collect" /\ held = <<>> /\ ~disconnected /\ batch # <<>>
      /\ queue # <<>> /\ held' = <<Head(queue)>> /\ queue' = Tail(queue)
      /\ worker' = "write"
      /\ UNCHANGED <<rows, calls, gone, batch, disconnected, executed, txn, result,
                     senders, sent, crashes>>
  BY DEF CollectOther, Collecting, OnlyThread, Stages
<1>2. queue \in Seq(Entry) /\ batch \in Seq(Entry)
  BY DEF TypeOK
<1>3. Tail(queue) \in Seq(Entry) /\ held' \in Seq(Entry) /\ Len(held') = 1
  BY <1>1, <1>2
<1>4. TypeOK'
  BY <1>1, <1>3 DEF TypeOK
<1>5. Line' = Line
  <2>1. batch \o held = batch
    BY <1>1, <1>2
  <2>2. QED  BY <1>1, <1>2, <2>1, MoveHead DEF Line
<1>6. LineOK'
  BY <1>1, <1>5, LineKept
<1>7. Stages'
  BY <1>1 DEF Stages
<1>8. QED  BY <1>1, <1>4, <1>6, <1>7, RowsKept

LEMMA StopCollectingStep ==
    ASSUME IInv, StopCollecting
    PROVE  IInv'
<1> USE DEF IInv
<1>1. /\ worker = "collect" /\ worker' = "write" /\ held = <<>> /\ batch # <<>>
      /\ UNCHANGED <<rows, calls, gone, held, batch, queue, executed, txn, result,
                     senders, sent, crashes>>
  BY DEF StopCollecting, Collecting, OnlyThread, Stages
<1>2. disconnected' \in BOOLEAN /\ (disconnected' => queue = <<>> /\ ~senders)
  <2>1. CASE UNCHANGED disconnected
    <3>1. disconnected \in BOOLEAN /\ ~disconnected
      BY DEF TypeOK, Stages, StopCollecting, Collecting
    <3>2. QED  BY <2>1, <3>1
  <2>2. CASE queue = <<>> /\ ~senders /\ disconnected' = TRUE
    BY <2>2
  <2>3. QED  BY <2>1, <2>2 DEF StopCollecting
<1>3. TypeOK'
  BY <1>1, <1>2 DEF TypeOK
<1>4. LineOK'
  BY <1>1, LineKept DEF Line
<1>5. Stages'
  BY <1>1, <1>2 DEF Stages
<1>6. QED  BY <1>1, <1>3, <1>4, <1>5, RowsKept

LEMMA ExecuteStatementStep ==
    ASSUME IInv, ExecuteStatement
    PROVE  IInv'
<1> USE DEF IInv
<1> DEFINE statement == Work[executed + 1]
           release   == CommandOf(statement.entry).release
<1>1. /\ worker = "write" /\ batch # <<>> /\ executed < Len(Work)
      /\ txn' = [txn EXCEPT ![release] = Execute(txn[release], statement)]
      /\ executed' = executed + 1
      /\ UNCHANGED <<rows, calls, gone, queue, held, batch, worker, disconnected, result,
                     senders, sent, crashes>>
  BY DEF ExecuteStatement, Writing, OnlyThread, Stages
<1>2. statement.part \in Parts /\ CommandOf(statement.entry) \in Atomic!Command
  BY <1>1, WorkFacts
<1>3. release \in Releases
  BY <1>2 DEF Atomic!Command
<1> HIDE DEF statement, release
<1>4. /\ Execute(txn[release], statement) \in Rows
      /\ Advanced(txn[release], Execute(txn[release], statement))
  BY <1>2, <1>3, ExecuteAdvances DEF TypeOK, Rows
<1>5. TypeOK'
  BY <1>1, <1>3, <1>4 DEF TypeOK, Rows
<1>6. LineOK'
  BY <1>1, LineKept DEF Line
<1>7. Stages'
  BY <1>1 DEF Stages
<1>8. TxnAdvances'
  <2>1. \A r \in Releases :
            txn'[r] = IF r = release THEN Execute(txn[release], statement) ELSE txn[r]
    BY <1>1, <1>3 DEF TypeOK
  <2>2. QED  BY <1>1, <1>3, <1>4, <2>1 DEF TxnAdvances, Advanced
<1>9. QED  BY <1>5, <1>6, <1>7, <1>8

LEMMA CommitStep ==
    ASSUME IInv, Commit
    PROVE  IInv'
<1> USE DEF IInv
<1>1. /\ worker = "write" /\ rows' = txn /\ txn' = txn
      /\ worker' = "respond" /\ result' = "ok" /\ executed' = 0
      /\ UNCHANGED <<calls, gone, queue, held, batch, disconnected, senders, sent, crashes>>
  BY DEF Commit, Writing, OnlyThread
<1>2. TypeOK'
  BY <1>1 DEF TypeOK
<1>3. LineOK'
  BY <1>1, LineKept DEF Line
<1>4. Stages'
  BY <1>1 DEF Stages
<1>5. TxnAdvances'
  BY <1>1 DEF TxnAdvances, Advanced
<1>6. QED  BY <1>2, <1>3, <1>4, <1>5

LEMMA RollBackStep ==
    ASSUME IInv, RollBack
    PROVE  IInv'
<1> USE DEF IInv
<1>1. /\ worker = "write" /\ txn' = rows /\ rows' = rows
      /\ worker' = "respond" /\ result' = "error" /\ executed' = 0
      /\ UNCHANGED <<calls, gone, queue, held, batch, disconnected, senders, sent, crashes>>
  BY DEF RollBack, Writing, OnlyThread
<1>2. TypeOK'
  BY <1>1 DEF TypeOK
<1>3. LineOK'
  BY <1>1, LineKept DEF Line
<1>4. Stages'
  BY <1>1 DEF Stages
<1>5. TxnAdvances'
  BY <1>1 DEF TxnAdvances, Advanced
<1>6. QED  BY <1>2, <1>3, <1>4, <1>5

LEMMA RespondStep ==
    ASSUME IInv, Respond
    PROVE  IInv'
<1> USE DEF IInv
<1>1. /\ worker = "respond" /\ batch # <<>> /\ batch' = Tail(batch)
      /\ Reply({Head(batch).client}, result)
      /\ UNCHANGED <<rows, queue, held, worker, disconnected, executed, txn, result,
                     senders, sent, crashes>>
  BY DEF Respond, OnlyThread
<1>2. batch \in Seq(Entry) /\ held \in Seq(Entry) /\ queue \in Seq(Entry)
  BY DEF TypeOK
<1>3. /\ Head(batch) \in Entry /\ Tail(batch) \in Seq(Entry)
      /\ Len(Tail(batch)) = Len(batch) - 1 /\ Len(batch) \in Nat
  BY <1>1, <1>2
<1>4. {Head(batch).client} \in SUBSET Clients /\ result \in {"ok", "error"}
  BY <1>3 DEF Entry, TypeOK
<1>5. /\ WaitingClients' = WaitingClients \ {Head(batch).client}
      /\ gone' \subseteq Clients /\ DOMAIN calls' = Clients
      /\ \A c \in Clients :
             calls'[c] \in [state : {"called"}, command : Commands[c]] \cup
                           {Answered(s) : s \in {"idle", "ok", "error"}}
  BY <1>1, <1>4, ReplyFacts
<1>6. TypeOK'
  BY <1>1, <1>3, <1>5, WriterAssumption DEF TypeOK
<1>7. /\ Line # <<>> /\ Line' = Tail(Line) /\ Head(Line) = Head(batch)
  <2>1. held \o queue \in Seq(Entry)
    BY <1>2
  <2>2. /\ Line = batch \o (held \o queue)
        /\ Line' = Tail(batch) \o (held \o queue)
    BY SMTT(40), <1>1, <1>2, <1>3 DEF Line
  <2>3. QED  BY ZenonT(60), <1>1, <1>2, <2>1, <2>2, TailOfLine
<1>8. LineOK'
  <2>1. Line \in Seq(Entry) /\ sent \in Nat
    BY LineFacts, WriterAssumption DEF TypeOK
  <2>2. QED  BY <1>1, <1>5, <1>7, <2>1, LineShrinks DEF LineOK
<1>9. Stages'
  BY <1>1 DEF Stages
<1>10. QED  BY <1>1, <1>6, <1>8, <1>9, RowsKept

LEMMA EndRoundStep ==
    ASSUME IInv, EndRound
    PROVE  IInv'
<1> USE DEF IInv
<1>1. /\ worker = "respond" /\ batch = <<>> /\ result' = "ok"
      /\ worker' = IF disconnected THEN "stopped" ELSE "recv"
      /\ UNCHANGED <<rows, calls, gone, queue, held, batch, disconnected, executed, txn,
                     senders, sent, crashes>>
  BY DEF EndRound, OnlyThread
<1>2. TypeOK'
  BY <1>1 DEF TypeOK
<1>3. LineOK'
  BY <1>1, LineKept DEF Line
<1>4. Stages'
  <2>1. CASE disconnected
    BY <1>1, <2>1 DEF Stages
  <2>2. CASE ~disconnected
    BY <1>1, <2>2 DEF Stages
  <2>3. QED  BY <2>1, <2>2
<1>5. QED  BY <1>1, <1>2, <1>3, <1>4, RowsKept

LEMMA StopStep ==
    ASSUME IInv, Stop
    PROVE  IInv'
<1> USE DEF IInv
<1>1. /\ worker = "recv" /\ worker' = "stopped" /\ held = <<>> /\ queue = <<>>
      /\ UNCHANGED <<rows, calls, gone, queue, held, batch, disconnected, executed, txn,
                     result, senders, sent, crashes>>
  BY DEF Stop, OnlyThread
<1>2. TypeOK'
  BY <1>1 DEF TypeOK
<1>3. LineOK'
  BY <1>1, LineKept DEF Line
<1>4. Stages'
  BY <1>1 DEF Stages
<1>5. QED  BY <1>1, <1>2, <1>3, <1>4, RowsKept

LEMMA CrashStep ==
    ASSUME IInv, Crash
    PROVE  IInv'
<1> USE DEF IInv, Crash, Volatile
<1>1. TypeOK'
  BY WriterAssumption DEF TypeOK, NoCall
<1>2. Line' = <<>> /\ WaitingClients' = {}
  BY DEF Line, WaitingClients, Waiting, NoCall, Answered
<1>3. LineOK'
  BY <1>2, LineEmpty DEF LineOK
<1>4. Stages'
  BY DEF Stages
<1>5. TxnAdvances'
  BY DEF TxnAdvances, Advanced
<1>6. QED  BY <1>1, <1>3, <1>4, <1>5

LEMMA StepIInv == IInv /\ [Next]_vars => IInv'
<1> SUFFICES ASSUME IInv, [Next]_vars PROVE IInv'
  OBVIOUS
<1>1. CASE \E c \in Clients : \E command \in Commands[c] : Send(c, command)
  BY <1>1, SendStep
<1>2. CASE \E c \in Clients : HangUp(c)
  BY <1>2, HangUpStep
<1>3. CASE Close
  BY <1>3, CloseStep
<1>4. CASE Open
  BY <1>4, OpenStep
<1>5. CASE NextWriteCommand
  BY <1>5, NextWriteCommandStep
<1>6. CASE CollectEvent
  BY <1>6, CollectEventStep
<1>7. CASE CollectOther
  BY <1>7, CollectOtherStep
<1>8. CASE StopCollecting
  BY <1>8, StopCollectingStep
<1>9. CASE ExecuteStatement
  BY <1>9, ExecuteStatementStep
<1>10. CASE Commit
  BY <1>10, CommitStep
<1>11. CASE RollBack
  BY <1>11, RollBackStep
<1>12. CASE Respond
  BY <1>12, RespondStep
<1>13. CASE EndRound
  BY <1>13, EndRoundStep
<1>14. CASE Stop
  BY <1>14, StopStep
<1>15. CASE Crash
  BY <1>15, CrashStep
<1>16. CASE UNCHANGED vars
  <2> USE <1>16 DEF IInv, vars, callers, thread
  <2>1. TypeOK'
    BY DEF TypeOK
  <2>2. LineOK'
    BY LineKept DEF Line
  <2>3. Stages'
    BY DEF Stages
  <2>4. QED  BY <2>1, <2>2, <2>3, RowsKept
<1>17. QED
  BY <1>1, <1>2, <1>3, <1>4, <1>5, <1>6, <1>7, <1>8, <1>9, <1>10, <1>11, <1>12, <1>13,
     <1>14, <1>15, <1>16 DEF Next, ThreadStep

-----------------------------------------------------------------------------
(* The theorems.                                                           *)

THEOREM Invariant == Spec => []IInv
BY InitIInv, StepIInv, PTL DEF Spec

\* The variables keep their types and a batch its limit
\* (collect_event_write_batch), whatever the limit is.
THEOREM TypeCorrect == Spec => []TypeOK
<1>1. IInv => TypeOK
  BY DEF IInv
<1>2. QED  BY <1>1, Invariant, PTL

\* Commands are executed in the order in which they were sent, the one held
\* back by a batch (next_write_command, collect_event_write_batch) included.
THEOREM OrderKept == Spec => []InOrder
<1>1. IInv => InOrder
  BY DEF IInv, LineOK, Ordered, InOrder
<1>2. QED  BY <1>1, Invariant, PTL

\* No command of a waiting caller is lost or doubled on its way through the
\* channel, the held command and the batch.
THEOREM NoneLostOrDoubled == Spec => []AcceptedOnce
<1>1. IInv => AcceptedOnce
  BY DEF IInv, LineOK, Faithful, WaitingClients, AcceptedOnce
<1>2. QED  BY <1>1, Invariant, PTL

\* The thread (run_store_write_worker) ends with nothing left to execute.
THEOREM NothingLeft == Spec => []StopsEmptyHanded
<1>1. IInv => StopsEmptyHanded
  BY LineFacts DEF IInv, Stages, StopsEmptyHanded, Line
<1>2. QED  BY <1>1, Invariant, PTL

\* No sequence of writes, batches, failures and crashes makes a settled job
\* pending again or an observed release reconstructed (upsert_event_row).
THEOREM SettledStaysSettled == Spec => RowsOnlyAdvance
<1> DEFINE Kept == \A r \in Releases : Advanced(rows[r], rows'[r])
<1>1. ASSUME IInv, [Next]_vars
      PROVE  Kept
  <2>1. CASE Commit
    BY <1>1, <2>1 DEF Commit, IInv, TxnAdvances
  <2>2. CASE UNCHANGED rows
    BY <2>2 DEF Advanced
  <2>3. Commit \/ UNCHANGED rows
    BY <1>1 DEF Next, ThreadStep, vars, callers, thread, Send, HangUp, Close, OnlyCallers,
                Open, NextWriteCommand, Begin, CollectEvent, CollectOther, StopCollecting,
                Collecting, ExecuteStatement, RollBack, Respond, EndRound, Stop, Crash
  <2>4. QED  BY <2>1, <2>2, <2>3
<1>2. Kept => \A r \in Releases :
                  /\ rows[r].capture \in Settled => rows'[r].capture \in Settled
                  /\ rows[r].diff \in Settled => rows'[r].diff \in Settled
                  /\ rows[r].origin = "observed" => rows'[r].origin = "observed"
  BY DEF Advanced
<1>3. QED  BY <1>1, <1>2, Invariant, PTL DEF Spec, RowsOnlyAdvance

-----------------------------------------------------------------------------
(* What commands make of a table.                                           *)

\* A non-empty set of natural numbers has a least one: what stands in for
\* induction in what follows.
LEMMA Least ==
    ASSUME NEW S \in SUBSET Nat, S # {}
    PROVE  \E n \in S : \A m \in S : n <= m
<1> DEFINE R == OpToRel(<, Nat)
<1>1. IsWellFoundedOn(R, Nat)
  BY NatLessThanWellFounded
<1>2. \E n \in S : \A m \in S : <<m, n>> \notin R
  <2> HIDE DEF R
  <2>1. QED  BY <1>1, WFMin
<1>3. \A m, n \in Nat : <<m, n>> \notin R => n <= m
  BY DEF OpToRel
<1>4. QED  BY <1>2, <1>3

\* A table with the effect of one more command.
After(table, command) ==
    [table EXCEPT ![command.release] = Atomic!Perform(@, command)]

\* The tables one after the other, up to the n-th command.
Tables(table, commands, n, g) ==
    g = [i \in 0..n |-> IF i = 0 THEN table ELSE After(g[i - 1], commands[i])]

LEMMA TablesExist ==
    ASSUME NEW table, NEW commands, NEW L \in Nat
    PROVE  \E g : Tables(table, commands, L, g)
<1> DEFINE S == {n \in Nat : ~ \E g : Tables(table, commands, n, g)}
<1>1. SUFFICES ASSUME S # {} PROVE FALSE
  OBVIOUS
<1>2. PICK n \in S : \A m \in S : n <= m
  BY <1>1, Least
<1>3. CASE n = 0
  <2> DEFINE g == [i \in 0..0 |-> table]
  <2>1. Tables(table, commands, 0, g)
    BY DEF Tables
  <2>2. QED  BY <1>3, <2>1
<1>4. CASE n # 0
  <2>1. n - 1 \in Nat /\ n - 1 \notin S
    BY <1>2, <1>4
  <2>2. PICK g : Tables(table, commands, n - 1, g)
    BY <2>1
  <2> DEFINE h == [i \in 0..n |-> IF i = 0 THEN table ELSE After(g[i - 1], commands[i])]
  <2>3. \A i \in 0..n - 1 : h[i] = g[i]
    BY <2>1, <2>2 DEF Tables
  <2>4. \A i \in 0..n : i # 0 => i - 1 \in 0..n - 1
    BY <1>4
  <2>5. \A i \in 0..n : i # 0 => h[i - 1] = g[i - 1]
    BY <2>3, <2>4
  <2>6. \A i \in 0..n : h[i] = IF i = 0 THEN table ELSE After(h[i - 1], commands[i])
    BY <2>5
  <2>7. DOMAIN h = 0..n /\ h = [i \in DOMAIN h |-> h[i]]
    OBVIOUS
  <2> HIDE DEF h
  <2>8. Tables(table, commands, n, h)
    BY <2>6, <2>7 DEF Tables
  <2>9. QED  BY <2>8
<1>5. QED  BY <1>3, <1>4

\* The abstract store performs commands table by table.
LEMMA PerformAllIsLast ==
    ASSUME NEW table, NEW commands, Len(commands) \in Nat
    PROVE  \E g : /\ Tables(table, commands, Len(commands), g)
                  /\ Atomic!PerformAll(table, commands) = g[Len(commands)]
<1> DEFINE a == CHOOSE g : g = [n \in 0..Len(commands) |->
                    IF n = 0 THEN table
                    ELSE [g[n - 1] EXCEPT ![commands[n].release] =
                              Atomic!Perform(@, commands[n])]]
<1>1. \E g : Tables(table, commands, Len(commands), g)
  BY SMTT(40), TablesExist
<1>2. Tables(table, commands, Len(commands), a)
  <2>1. \E g : g = [n \in 0..Len(commands) |->
                    IF n = 0 THEN table
                    ELSE [g[n - 1] EXCEPT ![commands[n].release] =
                              Atomic!Perform(@, commands[n])]]
    BY <1>1 DEF Tables, After
  <2>2. QED  BY <2>1 DEF Tables, After
<1>3. Atomic!PerformAll(table, commands) = a[Len(commands)]
  BY DEF Atomic!PerformAll
<1>4. QED  BY <1>2, <1>3

LEMMA TablesStep ==
    ASSUME NEW table, NEW commands, NEW L \in Nat, NEW g, Tables(table, commands, L, g)
    PROVE  /\ g[0] = table
           /\ \A n \in 1..L : g[n] = After(g[n - 1], commands[n])
<1>1. g = [i \in 0..L |-> IF i = 0 THEN table ELSE After(g[i - 1], commands[i])]
  BY DEF Tables
<1>2. \A i \in 0..L : g[i] = IF i = 0 THEN table ELSE After(g[i - 1], commands[i])
  BY <1>1
<1>3. 0 \in 0..L /\ \A n \in 1..L : n \in 0..L /\ n # 0
  OBVIOUS
<1>4. QED  BY <1>2, <1>3

-----------------------------------------------------------------------------
(* The open transaction.                                                    *)

\* The commands of the round.
Asked == [i \in DOMAIN batch |-> CommandOf(batch[i])]

\* A round is a batch of events or one other command.
RoundOK ==
    /\ worker = "collect" => \A i \in DOMAIN batch : IsEvent(batch[i])
    /\ worker = "write" => \/ \A i \in DOMAIN batch : IsEvent(batch[i])
                           \/ DOMAIN batch = {1} /\ ~IsEvent(batch[1])

TwoStatements == {"record_capture", "record_diff"}

\* The effect of the first n statements of a command that is not an event.
Partly(row, command, n) ==
    IF n = 0 THEN row
    ELSE IF n = 1 /\ command.op \in TwoStatements
    THEN UpsertEventRow(row, command.origin, command.tier)
    ELSE Atomic!Perform(row, command)

\* The transaction holds the effect of what has been executed, on the rows as
\* they are committed.
TxnOK ==
    /\ worker # "write" => txn = rows /\ executed = 0
    /\ worker = "write" /\ IsEvent(batch[1]) =>
           /\ executed <= Len(batch)
           /\ \A g : Tables(rows, Asked, Len(batch), g) => txn = g[executed]
    /\ worker = "write" /\ ~IsEvent(batch[1]) =>
           LET command == CommandOf(batch[1])
           IN  /\ executed <= Len(Statements(batch[1]))
               /\ txn = [rows EXCEPT ![command.release] = Partly(@, command, executed)]

RInv == IInv /\ RoundOK /\ TxnOK

LEMMA BatchFacts ==
    ASSUME IInv
    PROVE  /\ Len(batch) \in Nat /\ DOMAIN batch = 1..Len(batch) /\ executed \in Nat
           /\ batch # <<>> => 1 \in DOMAIN batch /\ Head(batch) = batch[1]
           /\ rows \in [Releases -> Rows] /\ txn \in [Releases -> Rows]
           /\ \A i \in DOMAIN batch : batch[i].client \in Clients
           /\ \A i, j \in DOMAIN batch : batch[i].client = batch[j].client => i = j
<1>1. batch \in Seq(Entry) /\ executed \in Nat
      /\ rows \in [Releases -> Rows] /\ txn \in [Releases -> Rows]
  BY DEF IInv, TypeOK, Rows
<1>2. \A i \in DOMAIN batch : i \in DOMAIN Line /\ Line[i] = batch[i]
  BY LineFacts DEF IInv
<1>3. \A i, j \in DOMAIN batch : batch[i].client = batch[j].client => i = j
  BY <1>2 DEF IInv, LineOK, Faithful
<1>4. \A i \in DOMAIN batch : batch[i].client \in Clients
  BY BatchCommands DEF IInv
<1>5. QED  BY <1>1, <1>3, <1>4

\* The statements do to a row what the abstract store does to it.
LEMMA SameUpsert ==
    ASSUME NEW row, NEW origin, NEW tier
    PROVE  Atomic!UpsertEventRow(row, origin, tier) = UpsertEventRow(row, origin, tier)
BY DEF Atomic!UpsertEventRow, UpsertEventRow, Atomic!NoRow, NoRow, Atomic!Settled, Settled,
       Atomic!JobStates, JobStates, Atomic!DefaultCaptureState, DefaultCaptureState,
       Atomic!CaptureSkipReason, CaptureSkipReason, Atomic!DefaultDiffState, DefaultDiffState,
       Atomic!DiffSkipReason, DiffSkipReason, Atomic!CaptureRequested, CaptureRequested,
       Atomic!DiffRequested, DiffRequested

LEMMA EventIsPerformed ==
    ASSUME NEW row, NEW command, command.op = "record_event"
    PROVE  Atomic!Perform(row, command) = UpsertEventRow(row, command.origin, command.tier)
BY SameUpsert DEF Atomic!Perform

LEMMA SameUpdates ==
    ASSUME NEW row, NEW state, NEW reason
    PROVE  /\ Atomic!SetCapture(row, state, reason) = SetCapture(row, state, reason)
           /\ Atomic!SetDiff(row, state, reason) = SetDiff(row, state, reason)
BY DEF Atomic!SetCapture, SetCapture, Atomic!SetDiff, SetDiff, Atomic!NoRow, NoRow

\* Executing the statements of a command one by one performs it.
LEMMA StatementsPerform ==
    ASSUME NEW entry, CommandOf(entry) \in Atomic!Command, ~IsEvent(entry),
           NEW row, NEW n \in Nat, n < Len(Statements(entry))
    PROVE  /\ Statements(entry)[n + 1].entry = entry
           /\ Execute(Partly(row, CommandOf(entry), n), Statements(entry)[n + 1])
                = Partly(row, CommandOf(entry), n + 1)
           /\ n + 1 = Len(Statements(entry)) =>
                  Partly(row, CommandOf(entry), n + 1) = Atomic!Perform(row, CommandOf(entry))
<1> DEFINE command == CommandOf(entry)
<1>1. command.op \in Atomic!Operations \ {"record_event"}
  BY DEF IsEvent, Atomic!Command
<1>2. CASE command.op = "record_capture"
  <2>1. Statements(entry) = <<Upsert(entry), [entry |-> entry, part |-> "capture_ready"]>>
    BY <1>2 DEF Statements
  <2>2. n = 0 \/ n = 1
    BY <2>1
  <2>3. Atomic!Perform(row, command)
          = SetCapture(UpsertEventRow(row, command.origin, command.tier), "ready", "none")
    BY <1>2, SameUpsert, SameUpdates DEF Atomic!Perform, Atomic!RecordCapture
  <2>4. CASE n = 0
    BY <1>2, <2>1, <2>4 DEF Upsert, Execute, Partly, TwoStatements
  <2>5. CASE n = 1
    BY <1>2, <2>1, <2>3, <2>5 DEF Upsert, Execute, Partly, TwoStatements
  <2>6. QED  BY <2>2, <2>4, <2>5
<1>3. CASE command.op = "record_diff"
  <2>1. Statements(entry) = <<Upsert(entry), [entry |-> entry, part |-> "diff_ready"]>>
    BY <1>3 DEF Statements
  <2>2. n = 0 \/ n = 1
    BY <2>1
  <2>3. Atomic!Perform(row, command)
          = SetDiff(UpsertEventRow(row, command.origin, command.tier), "ready", "none")
    BY <1>3, SameUpsert, SameUpdates DEF Atomic!Perform, Atomic!RecordDiff
  <2>4. CASE n = 0
    BY <1>3, <2>1, <2>4 DEF Upsert, Execute, Partly, TwoStatements
  <2>5. CASE n = 1
    BY <1>3, <2>1, <2>3, <2>5 DEF Upsert, Execute, Partly, TwoStatements
  <2>6. QED  BY <2>2, <2>4, <2>5
<1>4. CASE command.op \notin TwoStatements
  <2>1. Statements(entry) = <<[entry |-> entry, part |-> command.op]>>
    BY <1>4 DEF Statements, TwoStatements
  <2>2. n = 0
    BY <2>1
  <2>3. Execute(row, [entry |-> entry, part |-> command.op]) = Atomic!Perform(row, command)
    <3>1. CASE command.op = "skip_capture"
      BY <3>1, SameUpdates DEF Execute, Atomic!Perform, MarkCaptureSkipped, Atomic!MarkCaptureSkipped
    <3>2. CASE command.op = "fail_capture"
      BY <3>2, SameUpdates DEF Execute, Atomic!Perform, MarkCaptureFailed, Atomic!MarkCaptureFailed
    <3>3. CASE command.op = "skip_diff"
      BY <3>3, SameUpdates DEF Execute, Atomic!Perform, MarkDiffSkipped, Atomic!MarkDiffSkipped
    <3>4. CASE command.op = "fail_diff"
      BY <3>4, SameUpdates DEF Execute, Atomic!Perform, MarkDiffFailed, Atomic!MarkDiffFailed
    <3>5. QED  BY <1>1, <1>4, <3>1, <3>2, <3>3, <3>4 DEF TwoStatements, Atomic!Operations
  <2>4. QED  BY <1>4, <2>1, <2>2, <2>3 DEF Partly
<1>5. QED  BY <1>2, <1>3, <1>4 DEF TwoStatements

-----------------------------------------------------------------------------
(* The transaction keeps to its commands.                                   *)

\* A step that leaves the round alone leaves what it asks for alone.
LEMMA RoundKept ==
    ASSUME IInv, RoundOK, TxnOK,
           UNCHANGED <<rows, txn, batch, worker, executed>>,
           \A i \in DOMAIN batch : calls'[batch[i].client] = calls[batch[i].client]
    PROVE  RoundOK' /\ TxnOK'
<1>1. \A i \in DOMAIN batch : CommandOf(batch[i])' = CommandOf(batch[i])
  BY DEF CommandOf
<1>2. \A i \in DOMAIN batch : IsEvent(batch[i])' <=> IsEvent(batch[i])
  BY <1>1 DEF IsEvent
<1>3. Asked' = Asked
  BY <1>1 DEF Asked
<1>4. RoundOK'
  <2>1. DOMAIN batch = {1} => 1 \in DOMAIN batch
    OBVIOUS
  <2>2. QED  BY <1>2, <2>1 DEF RoundOK
<1>5. CASE worker # "write"
  BY <1>4, <1>5 DEF TxnOK
<1>6. CASE worker = "write"
  <2>1. 1 \in DOMAIN batch
    BY <1>6, BatchFacts DEF IInv, Stages
  <2>2. IsEvent(batch[1])' <=> IsEvent(batch[1])
    BY <1>2, <2>1
  <2>3. CommandOf(batch[1])' = CommandOf(batch[1])
    BY <1>1, <2>1
  <2>4. Statements(batch[1])' = Statements(batch[1])
    BY <2>3 DEF Statements
  <2>5. CASE IsEvent(batch[1])
    <3>1. /\ executed <= Len(batch)
          /\ \A g : Tables(rows, Asked, Len(batch), g) => txn = g[executed]
      BY <1>6, <2>5 DEF TxnOK
    <3>2. \A g : Tables(rows, Asked, Len(batch), g)' => txn' = g[executed]'
      BY <1>3, <3>1 DEF Tables, After
    <3>3. QED  BY <1>4, <1>6, <2>2, <2>5, <3>1, <3>2 DEF TxnOK
  <2>6. CASE ~IsEvent(batch[1])
    BY <1>4, <1>6, <2>2, <2>3, <2>4, <2>6 DEF TxnOK
  <2>7. QED  BY <2>5, <2>6
<1>7. QED  BY <1>5, <1>6

\* A round that begins to write has executed nothing.
LEMMA WriteBegins ==
    ASSUME IInv, IInv', TxnOK, worker # "write", worker' = "write", RoundOK',
           UNCHANGED <<rows, txn, executed>>
    PROVE  TxnOK'
<1>1. txn = rows /\ executed = 0
  BY DEF TxnOK
<1>2. \A g : Tables(rows', Asked', Len(batch'), g) => txn' = g[executed']
  <2>1. SUFFICES ASSUME NEW g, Tables(rows', Asked', Len(batch'), g) PROVE txn' = g[executed']
    OBVIOUS
  <2>2. Len(batch') \in Nat
    BY DEF IInv, TypeOK
  <2>3. g[0] = rows'
    BY <2>1, <2>2, TablesStep
  <2>4. QED  BY <1>1, <2>3
<1>3. Len(batch') \in Nat /\ Len(Statements(batch[1])') \in Nat
  BY DEF IInv, TypeOK, Statements
<1>4. \A r, command : rows' = [rows' EXCEPT ![r] = Partly(@, command, 0)]
  BY DEF Partly, IInv, TypeOK
<1>5. QED  BY SMTT(40), <1>1, <1>2, <1>3, <1>4 DEF TxnOK

LEMMA ExecuteKeepsTxn ==
    ASSUME IInv, RoundOK, TxnOK, ExecuteStatement
    PROVE  RoundOK' /\ TxnOK'
<1> DEFINE statement == Work[executed + 1]
           release   == CommandOf(statement.entry).release
<1>1. /\ worker = "write" /\ executed < Len(Work) /\ batch # <<>>
      /\ txn' = [txn EXCEPT ![release] = Execute(txn[release], statement)]
      /\ executed' = executed + 1
      /\ UNCHANGED <<rows, calls, batch, worker>>
  BY DEF ExecuteStatement, Writing, IInv, Stages
<1>2. /\ Len(batch) \in Nat /\ DOMAIN batch = 1..Len(batch) /\ executed \in Nat
      /\ 1 \in DOMAIN batch /\ Head(batch) = batch[1]
      /\ rows \in [Releases -> Rows]
  BY SMTT(40), <1>1, BatchFacts
<1>3. RoundOK'
  BY <1>1 DEF RoundOK, IsEvent, CommandOf
<1>4. CASE IsEvent(batch[1])
  <2>1. /\ executed <= Len(batch)
        /\ \A g : Tables(rows, Asked, Len(batch), g) => txn = g[executed]
    BY <1>1, <1>4 DEF TxnOK
  <2>2. Work = [i \in DOMAIN batch |-> Upsert(batch[i])] /\ Len(Work) = Len(batch)
    BY <1>2, <1>4 DEF Work
  <2>3. executed + 1 \in DOMAIN batch /\ executed + 1 <= Len(batch)
    BY <1>1, <1>2, <2>2
  <2>4. /\ statement = Upsert(batch[executed + 1])
        /\ statement.part = "upsert" /\ statement.entry = batch[executed + 1]
    BY <2>2, <2>3 DEF Upsert
  <2>5. IsEvent(batch[executed + 1])
    BY <1>1, <1>2, <1>4, <2>3 DEF RoundOK
  <2> DEFINE command == CommandOf(batch[executed + 1])
  <2>6. command.op = "record_event" /\ Asked[executed + 1] = command
    BY <2>3, <2>5 DEF IsEvent, Asked
  <2>7. /\ release = command.release
        /\ Execute(txn[release], statement) = Atomic!Perform(txn[release], command)
    BY <2>4, <2>6, EventIsPerformed DEF Execute
  <2> HIDE DEF statement, release, command
  <2>8. txn' = After(txn, command)
    BY <1>1, <2>7 DEF After
  <2>9. ASSUME NEW g, Tables(rows, Asked, Len(batch), g)
        PROVE  txn' = g[executed']
    <3>1. txn = g[executed]
      BY <2>1, <2>9
    <3>2. \A n \in 1..Len(batch) : g[n] = After(g[n - 1], Asked[n])
      <4>1. Len(batch) \in Nat
        BY <1>2
      <4>2. QED  BY <2>9, <4>1, TablesStep
    <3>3. executed + 1 \in 1..Len(batch) /\ (executed + 1) - 1 = executed
      BY <1>2, <2>3
    <3>4. g[executed + 1] = After(g[executed], Asked[executed + 1])
      BY <3>2, <3>3
    <3>5. QED  BY <1>1, <2>6, <2>8, <3>1, <3>4
  <2>10. /\ Asked' = Asked /\ IsEvent(batch[1])' /\ Len(batch') = Len(batch) /\ rows' = rows
         /\ worker' = "write"
    BY <1>1, <1>4 DEF Asked, IsEvent, CommandOf
  <2>11. \A g : Tables(rows, Asked, Len(batch), g)' => txn' = g[executed']
    BY <2>9, <2>10 DEF Tables, After
  <2>12. QED  BY <1>1, <1>3, <2>3, <2>10, <2>11 DEF TxnOK
<1>5. CASE ~IsEvent(batch[1])
  <2> DEFINE entry   == batch[1]
             command == CommandOf(entry)
  <2>1. /\ executed <= Len(Statements(entry))
        /\ txn = [rows EXCEPT ![command.release] = Partly(rows[command.release], command, executed)]
    BY <1>1, <1>5 DEF TxnOK
  <2>2. Work = Statements(entry)
    BY <1>2, <1>5 DEF Work
  <2>3. command \in Atomic!Command
    BY <1>2, BatchCommands DEF IInv
  <2>4. command.release \in Releases
    BY <2>3 DEF Atomic!Command
  <2>5. /\ statement.entry = entry
        /\ \A row : Execute(Partly(row, command, executed), statement) = Partly(row, command, executed + 1)
    BY <1>1, <1>2, <1>5, <2>2, <2>3, StatementsPerform
  <2>6. release = command.release
    BY <2>5
  <2>7. Len(Statements(entry)) \in Nat
    BY DEF Statements
  <2> HIDE DEF statement, release
  <2>8. txn[release] = Partly(rows[command.release], command, executed)
    BY <1>2, <2>1, <2>4, <2>6
  <2>9. txn' = [rows EXCEPT ![command.release] = Partly(rows[command.release], command, executed + 1)]
    <3>1. Execute(txn[release], statement) = Partly(rows[command.release], command, executed + 1)
      BY <2>5, <2>8
    <3> HIDE DEF command
    <3>2. QED  BY <1>1, <1>2, <2>1, <2>4, <2>6, <3>1
  <2>10. /\ CommandOf(batch[1])' = command /\ ~IsEvent(batch[1])'
         /\ Statements(batch[1])' = Statements(entry) /\ rows' = rows
    BY <1>1, <1>5 DEF IsEvent, CommandOf, Statements
  <2>11. executed + 1 <= Len(Statements(entry))
    BY <1>1, <1>2, <2>2, <2>7
  <2>12. QED  BY <1>1, <1>3, <2>9, <2>10, <2>11 DEF TxnOK
<1>6. QED  BY <1>4, <1>5

\* The head of the line is an event or not whatever the others do.
LEMMA RoundBegins ==
    ASSUME IInv, RoundOK, TxnOK, NextWriteCommand
    PROVE  RoundOK' /\ TxnOK'
<1>1. /\ worker = "recv" /\ UNCHANGED <<rows, calls, txn, executed>>
      /\ \E entry : /\ batch' = <<entry>>
                    /\ worker' = IF IsEvent(entry) THEN "collect" ELSE "write"
  BY DEF NextWriteCommand, Begin, OnlyThread
<1>2. PICK entry : /\ batch' = <<entry>>
                   /\ worker' = IF IsEvent(entry) THEN "collect" ELSE "write"
  BY <1>1
<1>3. DOMAIN batch' = {1} /\ batch'[1] = entry
  BY <1>2
<1>4. IsEvent(batch[1])' <=> IsEvent(entry)
  BY <1>1, <1>3 DEF IsEvent, CommandOf
<1>5. RoundOK'
  BY <1>2, <1>3, <1>4 DEF RoundOK
<1>6. IInv'
  BY NextWriteCommandStep
<1>7. CASE worker' = "write"
  BY <1>1, <1>5, <1>6, <1>7, WriteBegins
<1>8. CASE worker' # "write"
  BY <1>1, <1>5, <1>8 DEF TxnOK
<1>9. QED  BY <1>7, <1>8

LEMMA CollectKeepsRound ==
    ASSUME IInv, RoundOK, TxnOK, CollectEvent
    PROVE  RoundOK' /\ TxnOK'
<1>1. /\ worker = "collect" /\ worker' = "collect" /\ queue # <<>> /\ IsEvent(Head(queue))
      /\ batch' = Append(batch, Head(queue))
      /\ UNCHANGED <<rows, calls, txn, executed>>
  BY DEF CollectEvent, Collecting
<1>2. queue \in Seq(Entry) /\ batch \in Seq(Entry)
  BY DEF IInv, TypeOK
<1>3. /\ DOMAIN batch' = 1..(Len(batch) + 1) /\ DOMAIN batch = 1..Len(batch) /\ Len(batch) \in Nat
      /\ \A i \in DOMAIN batch : batch'[i] = batch[i]
      /\ batch'[Len(batch) + 1] = Head(queue)
  <2>1. Head(queue) \in Entry
    BY <1>1, <1>2
  <2>2. QED  BY <1>1, <1>2, <2>1, AppendFacts
<1>4. ASSUME NEW i \in DOMAIN batch' PROVE IsEvent(batch'[i])
  <2>1. i \in DOMAIN batch \/ i = Len(batch) + 1
    BY <1>3
  <2>2. QED  BY <1>1, <1>3, <2>1 DEF RoundOK
<1>5. \A i \in DOMAIN batch' : IsEvent(batch[i])'
  BY <1>1, <1>4 DEF IsEvent, CommandOf
<1>6. QED  BY <1>1, <1>5 DEF RoundOK, TxnOK

LEMMA InitRInv == Init => RInv
<1> SUFFICES ASSUME Init PROVE RInv
  OBVIOUS
<1>1. IInv
  BY InitIInv
<1>2. worker = "start" /\ txn = rows /\ executed = 0
  BY DEF Init, Volatile
<1>3. QED  BY <1>1, <1>2 DEF RInv, RoundOK, TxnOK

LEMMA StepRInv == RInv /\ [Next]_vars => RInv'
<1> SUFFICES ASSUME RInv, [Next]_vars PROVE RInv'
  OBVIOUS
<1>1. IInv /\ RoundOK /\ TxnOK /\ IInv'
  BY StepIInv DEF RInv
<1>2. SUFFICES RoundOK' /\ TxnOK'
  BY <1>1 DEF RInv
<1>3. ASSUME NEW c \in Clients, NEW command \in Commands[c], Send(c, command)
      PROVE  RoundOK' /\ TxnOK'
  <2>1. /\ ~Waiting(c) /\ UNCHANGED <<rows, txn, batch, worker, executed>>
        /\ \A d \in Clients \ {c} : calls'[d] = calls[d]
    BY <1>1, <1>3 DEF Send, OnlyCallers, IInv, TypeOK
  <2>2. \A i \in DOMAIN batch : batch[i].client \in Clients /\ batch[i].client # c
    BY <1>1, <2>1, BatchCommands DEF IInv
  <2>3. QED  BY <1>1, <2>1, <2>2, RoundKept
<1>4. ASSUME UNCHANGED <<rows, txn, batch, worker, executed, calls>>
      PROVE  RoundOK' /\ TxnOK'
  BY <1>1, <1>4, RoundKept
<1>5. CASE \E c \in Clients : HangUp(c)
  BY <1>4, <1>5 DEF HangUp, OnlyCallers
<1>6. CASE Close
  BY <1>4, <1>6 DEF Close, OnlyCallers
<1>7. ASSUME worker' \notin {"collect", "write"}, txn' = rows', executed' = 0
      PROVE  RoundOK' /\ TxnOK'
  BY <1>7 DEF RoundOK, TxnOK
<1>8. CASE Open
  <2>1. worker' \in {"recv", "stopped"} /\ worker = "start" /\ UNCHANGED <<rows, txn, executed>>
    BY <1>8 DEF Open
  <2>2. QED  BY <1>1, <1>7, <2>1 DEF TxnOK
<1>9. CASE CollectOther \/ StopCollecting
  <2>1. /\ worker = "collect" /\ worker' = "write"
        /\ UNCHANGED <<rows, calls, txn, executed, batch>>
    BY <1>9 DEF CollectOther, StopCollecting, Collecting
  <2>2. \A i \in DOMAIN batch : IsEvent(batch[i])'
    BY <1>1, <2>1 DEF RoundOK, IsEvent, CommandOf
  <2>3. RoundOK'
    BY <2>1, <2>2 DEF RoundOK
  <2>4. QED  BY <1>1, <2>1, <2>3, WriteBegins
<1>10. CASE Commit
  BY <1>7, <1>10 DEF Commit
<1>11. CASE RollBack
  BY <1>7, <1>11 DEF RollBack
<1>12. CASE Respond
  <2>1. worker = "respond" /\ UNCHANGED <<rows, worker, executed, txn>>
    BY <1>12 DEF Respond
  <2>2. QED  BY <1>1, <1>7, <2>1 DEF TxnOK
<1>13. CASE EndRound
  <2>1. /\ worker = "respond" /\ worker' \in {"stopped", "recv"}
        /\ UNCHANGED <<rows, executed, txn>>
    BY <1>13 DEF EndRound
  <2>2. QED  BY <1>1, <1>7, <2>1 DEF TxnOK
<1>14. CASE Stop
  <2>1. worker = "recv" /\ worker' = "stopped" /\ UNCHANGED <<rows, executed, txn>>
    BY <1>14 DEF Stop
  <2>2. QED  BY <1>1, <1>7, <2>1 DEF TxnOK
<1>15. CASE Crash
  BY <1>7, <1>15 DEF Crash, Volatile
<1>16. CASE UNCHANGED vars
  BY <1>4, <1>16 DEF vars, callers, thread
<1>17. QED
  BY <1>1, <1>3, <1>5, <1>6, <1>8, <1>9, <1>10, <1>11, <1>12, <1>13, <1>14, <1>15, <1>16,
     RoundBegins, CollectKeepsRound, ExecuteKeepsTxn
     DEF Next, ThreadStep

-----------------------------------------------------------------------------
(* The writer thread implements the atomic store.                           *)

\* What has been executed of a round that commits is all its commands ask for.
LEMMA CommittedEffect ==
    ASSUME RInv, worker = "write", executed = Len(Work)
    PROVE  txn = Atomic!PerformAll(rows, Asked)
<1>1. /\ IInv /\ RoundOK /\ TxnOK /\ batch # <<>>
      /\ Len(batch) \in Nat /\ DOMAIN batch = 1..Len(batch) /\ executed \in Nat
      /\ 1 \in DOMAIN batch /\ Head(batch) = batch[1]
      /\ rows \in [Releases -> Rows]
  BY BatchFacts DEF RInv, IInv, Stages
<1>2. Len(Asked) = Len(batch) /\ \A i \in DOMAIN batch : Asked[i] = CommandOf(batch[i])
  BY <1>1 DEF Asked
<1>3. PICK g : /\ Tables(rows, Asked, Len(batch), g)
               /\ Atomic!PerformAll(rows, Asked) = g[Len(batch)]
  BY <1>1, <1>2, PerformAllIsLast
<1>4. CASE IsEvent(batch[1])
  <2>1. Len(Work) = Len(batch)
    BY <1>1, <1>4 DEF Work
  <2>2. txn = g[executed]
    BY <1>1, <1>3, <1>4 DEF TxnOK
  <2>3. QED  BY <1>3, <2>1, <2>2
<1>5. CASE ~IsEvent(batch[1])
  <2> DEFINE command == CommandOf(batch[1])
  <2>1. Len(batch) = 1
    <3>1. DOMAIN batch = {1}
      BY <1>1, <1>5 DEF RoundOK
    <3>2. QED  BY <1>1, <3>1
  <2>2. Work = Statements(batch[1])
    BY <1>1, <1>5 DEF Work
  <2>3. txn = [rows EXCEPT ![command.release] = Partly(rows[command.release], command, executed)]
    BY <1>1, <1>5 DEF TxnOK
  <2>4. command \in Atomic!Command
    BY <1>1, BatchCommands DEF IInv
  <2>5. executed \in Nat \ {0}
    <3>1. Len(Statements(batch[1])) # 0
      BY DEF Statements
    <3>2. QED  BY <1>1, <2>2, <3>1
  <2>6. \A row : Partly(row, command, executed) = Atomic!Perform(row, command)
    <3>1. executed - 1 \in Nat /\ executed - 1 < Len(Statements(batch[1]))
          /\ (executed - 1) + 1 = executed /\ executed = Len(Statements(batch[1]))
      BY <2>2, <2>5
    <3>2. \A row : (executed - 1) + 1 = Len(Statements(batch[1])) =>
              Partly(row, command, (executed - 1) + 1) = Atomic!Perform(row, command)
      BY <1>5, <2>4, <3>1, StatementsPerform
    <3>3. QED  BY <3>1, <3>2
  <2>7. txn = After(rows, command)
    BY <2>3, <2>6 DEF After
  <2>8. g[1] = After(rows, command)
    <3>1. g[0] = rows /\ \A n \in 1..1 : g[n] = After(g[n - 1], Asked[n])
      BY <1>3, <2>1, TablesStep
    <3>2. g[1] = After(g[0], Asked[1])
      BY <3>1
    <3>3. QED  BY <1>1, <1>2, <3>1, <3>2
  <2>9. QED  BY <1>3, <2>1, <2>7, <2>8
<1>6. QED  BY <1>4, <1>5

BatchClients == {batch[i].client : i \in DOMAIN batch}

BatchOrder == [i \in DOMAIN batch |-> batch[i].client]

\* The clients of a batch, in its order.
LEMMA BatchIsOrdered ==
    ASSUME IInv
    PROVE  BatchOrder \in Atomic!SetToSeqs(BatchClients)
<1>1. /\ Len(batch) \in Nat /\ DOMAIN batch = 1..Len(batch)
      /\ \A i, j \in DOMAIN batch : batch[i].client = batch[j].client => i = j
  BY BatchFacts
<1>2. BatchOrder \in Bijection(1..Len(batch), BatchClients)
  <2>1. BatchOrder \in [1..Len(batch) -> BatchClients]
    BY <1>1 DEF BatchOrder, BatchClients
  <2>2. \A i, j \in 1..Len(batch) : BatchOrder[i] = BatchOrder[j] => i = j
    BY <1>1 DEF BatchOrder
  <2>3. \A c \in BatchClients : \E i \in 1..Len(batch) : BatchOrder[i] = c
    BY <1>1 DEF BatchOrder, BatchClients
  <2>4. QED  BY <2>1, <2>2, <2>3 DEF Bijection, Injection, Surjection, IsInjective
<1>3. IsFiniteSet(1..Len(batch)) /\ Cardinality(1..Len(batch)) = Len(batch)
  BY SMTT(40), <1>1, FS_Interval
<1>4. Cardinality(BatchClients) = Len(batch)
  <2>1. ExistsBijection(1..Len(batch), BatchClients)
    BY <1>2 DEF ExistsBijection
  <2>2. QED  BY <1>3, <2>1, FS_Bijection
<1>5. /\ BatchOrder \in [1..Len(batch) -> BatchClients]
      /\ \A i, j \in 1..Len(batch) : i # j => BatchOrder[i] # BatchOrder[j]
  BY <1>2 DEF Bijection, Injection, IsInjective
<1>6. Atomic!Cardinality(BatchClients) = Cardinality(BatchClients)
  BY DEF Atomic!Cardinality, Cardinality
<1>7. QED  BY <1>4, <1>5, <1>6 DEF Atomic!SetToSeqs

\* What the clients know of their calls: the answers of a round arrive together
\* with its end.
Seen ==
    [c \in Clients |->
        IF worker = "respond" /\ \E i \in DOMAIN batch : batch[i].client = c
        THEN Answered(result)
        ELSE calls[c]]

LEMMA SeenIs ==
    /\ worker # "respond" \/ batch = <<>> => Seen = [c \in Clients |-> calls[c]]
    /\ worker' # "respond" \/ batch' = <<>> => Seen' = [c \in Clients |-> calls'[c]]
BY DEF Seen

LEMMA CalledIs == Atomic!Called = {c \in Clients : Seen[c].state = "called"}
BY DEF Atomic!Called, Seen

\* A step between rounds that answers nobody is not seen.
LEMMA Unseen ==
    ASSUME UNCHANGED <<rows, calls>>,
           worker # "respond" \/ batch = <<>>, worker' # "respond" \/ batch' = <<>>
    PROVE  UNCHANGED Atomic!vars
<1>1. Seen' = Seen
  BY SeenIs
<1>2. QED  BY <1>1 DEF Atomic!vars, Seen

LEMMA UnseenInRound ==
    ASSUME UNCHANGED <<rows, calls, worker, batch, result>>
    PROVE  UNCHANGED Atomic!vars
BY DEF Atomic!vars

LEMMA SendRefines ==
    ASSUME IInv, NEW c \in Clients, NEW command \in Commands[c], Send(c, command)
    PROVE  [Atomic!Next]_(Atomic!vars)
<1>1. /\ ~Waiting(c) /\ UNCHANGED <<rows, batch, worker, result>>
      /\ \/ calls' = [calls EXCEPT ![c] = Answered("error")]
         \/ calls' = [calls EXCEPT ![c] = [state |-> "called", command |-> command]]
  BY DEF Send, OnlyCallers
<1>2. \A i \in DOMAIN batch : batch[i].client # c
  BY <1>1, BatchCommands DEF IInv
<1>3. Seen[c] = calls[c] /\ Seen'[c] = calls'[c]
      /\ \A d \in Clients \ {c} : Seen'[d] = Seen[d]
  BY <1>1, <1>2 DEF Seen, IInv, TypeOK
<1>4. c \notin Atomic!Called
  BY <1>1, <1>3, CalledIs DEF Waiting
<1>5. calls'[c] \in {Answered("error"), [state |-> "called", command |-> command]}
  BY <1>1 DEF IInv, TypeOK
<1>6. Seen' = [Seen EXCEPT ![c] = calls'[c]]
  <2>1. DOMAIN Seen = Clients /\ DOMAIN Seen' = Clients
        /\ Seen = [d \in Clients |-> Seen[d]] /\ Seen' = [d \in Clients |-> Seen'[d]]
    BY DEF Seen
  <2>2. \A d \in Clients : Seen'[d] = [Seen EXCEPT ![c] = calls'[c]][d]
    BY <1>3, <2>1
  <2>3. QED  BY <2>1, <2>2
<1>7. CASE calls'[c] = Answered("error")
  <2>1. Atomic!Refuse(c)
    BY <1>1, <1>4, <1>6, <1>7
       DEF Atomic!Refuse, Seen, Atomic!Answered, Answered, Atomic!NoCommand, NoCommand
  <2>2. QED  BY <2>1 DEF Atomic!Next
<1>8. CASE calls'[c] = [state |-> "called", command |-> command]
  <2>1. Atomic!Call(c, command)
    BY <1>1, <1>4, <1>6, <1>8 DEF Atomic!Call, Seen
  <2>2. QED  BY <2>1 DEF Atomic!Next
<1>9. QED  BY <1>5, <1>7, <1>8

\* The answers a round ends with reach its clients.
LEMMA RoundAnswered ==
    ASSUME IInv, worker # "respond", worker' = "respond", UNCHANGED <<batch, calls>>,
           NEW state, result' = state
    PROVE  Atomic!Answer(BatchClients, state)
<1>1. Seen = [c \in Clients |-> calls[c]]
  BY SeenIs
<1>2. Seen' = [c \in Clients |-> IF c \in BatchClients THEN Answered(state) ELSE Seen[c]]
  BY <1>1 DEF Seen, BatchClients
<1>3. QED
  BY <1>2 DEF Atomic!Answer, Seen, Atomic!Answered, Answered, Atomic!NoCommand, NoCommand

\* While a round is written its clients wait.
LEMMA RoundCalled ==
    ASSUME IInv, worker = "write"
    PROVE  BatchClients \in (SUBSET Atomic!Called) \ {{}}
<1>1. Seen = [c \in Clients |-> calls[c]]
  BY SeenIs
<1>2. \A i \in DOMAIN batch : batch[i].client \in Clients /\ Waiting(batch[i].client)
  BY BatchCommands DEF IInv
<1>3. BatchClients \subseteq Atomic!Called
  BY <1>1, <1>2, CalledIs DEF BatchClients, Waiting
<1>4. 1 \in DOMAIN batch
  BY BatchFacts DEF IInv, Stages
<1>5. QED  BY <1>3, <1>4 DEF BatchClients

LEMMA CommitRefines ==
    ASSUME RInv, Commit
    PROVE  Atomic!TakeEffect
<1>1. /\ worker = "write" /\ executed = Len(Work) /\ rows' = txn
      /\ worker' = "respond" /\ result' = "ok" /\ UNCHANGED <<batch, calls>>
      /\ IInv
  BY DEF Commit, Writing, RInv
<1>2. rows' = Atomic!PerformAll(rows, Asked)
  BY <1>1, CommittedEffect
<1>3. Asked = [i \in DOMAIN BatchOrder |-> Seen[BatchOrder[i]].command]
  <2>1. \A i \in DOMAIN batch : batch[i].client \in Clients
    BY <1>1, BatchFacts
  <2>2. \A i \in DOMAIN batch : Seen[batch[i].client] = calls[batch[i].client]
    BY <1>1, <2>1, SeenIs
  <2>3. QED  BY <2>2 DEF Asked, BatchOrder, CommandOf
<1>4. /\ BatchClients \in (SUBSET Atomic!Called) \ {{}}
      /\ BatchOrder \in Atomic!SetToSeqs(BatchClients)
      /\ Atomic!Answer(BatchClients, "ok")
  BY <1>1, RoundCalled, BatchIsOrdered, RoundAnswered
<1>5. rows' = Atomic!PerformAll(rows, [i \in DOMAIN BatchOrder |-> Seen[BatchOrder[i]].command])
  BY <1>2, <1>3
<1>6. QED
  BY <1>4, <1>5 DEF Atomic!TakeEffect, Atomic!Answer, Seen

LEMMA RollBackRefines ==
    ASSUME IInv, RollBack
    PROVE  Atomic!Fail
<1>1. /\ worker = "write" /\ worker' = "respond" /\ result' = "error"
      /\ UNCHANGED <<rows, batch, calls>>
  BY DEF RollBack, Writing
<1>2. BatchClients \in (SUBSET Atomic!Called) \ {{}} /\ Atomic!Answer(BatchClients, "error")
  BY <1>1, RoundCalled, RoundAnswered
<1>3. QED  BY <1>1, <1>2 DEF Atomic!Fail, Atomic!Answer

\* A connection that does not open is a write that failed for all who wait.
LEMMA OpenRefines ==
    ASSUME IInv, Open
    PROVE  [Atomic!Next]_(Atomic!vars)
<1>1. worker = "start" /\ worker' # "respond" /\ UNCHANGED rows
  BY DEF Open
<1>2. CASE UNCHANGED calls
  BY <1>1, <1>2, Unseen
<1>3. CASE Reply(WaitingClients, "error")
  <2>1. /\ Seen = [c \in Clients |-> calls[c]]
        /\ Seen' = [c \in Clients |-> calls'[c]]
    BY <1>1, SeenIs
  <2>2. Seen' = [c \in Clients |-> IF c \in WaitingClients THEN Answered("error") ELSE Seen[c]]
    BY <1>3, <2>1 DEF Reply
  <2>3. CASE WaitingClients = {}
    <3>1. Seen' = Seen
      BY <2>1, <2>2, <2>3
    <3>2. QED  BY <1>1, <3>1 DEF Atomic!vars, Seen
  <2>4. CASE WaitingClients # {}
    <3>1. WaitingClients \in (SUBSET Atomic!Called) \ {{}}
      BY <2>1, <2>4, CalledIs DEF WaitingClients, Waiting
    <3>2. Atomic!Answer(WaitingClients, "error")
      BY <2>2 DEF Atomic!Answer, Seen, Atomic!Answered, Answered, Atomic!NoCommand, NoCommand
    <3>3. Atomic!Fail
      BY <1>1, <3>1, <3>2 DEF Atomic!Fail, Atomic!Answer
    <3>4. QED  BY <3>3 DEF Atomic!Next
  <2>5. QED  BY <2>3, <2>4
<1>4. QED  BY <1>2, <1>3 DEF Open, WaitingClients

\* Who is answered knew the answer when the round ended.
LEMMA RespondRefines ==
    ASSUME IInv, Respond
    PROVE  UNCHANGED Atomic!vars
<1> DEFINE first == Head(batch).client
<1>1. /\ worker = "respond" /\ worker' = "respond" /\ batch # <<>> /\ batch' = Tail(batch)
      /\ calls' = [c \in Clients |-> IF c = first THEN Answered(result) ELSE calls[c]]
      /\ UNCHANGED <<rows, result>>
  BY DEF Respond, Reply
<1>2. /\ Head(batch) = batch[1] /\ DOMAIN batch = 1..Len(batch) /\ Len(batch) \in Nat \ {0}
      /\ DOMAIN Tail(batch) = 1..(Len(batch) - 1)
      /\ \A i \in DOMAIN Tail(batch) : Tail(batch)[i] = batch[i + 1]
  BY <1>1, TailFacts DEF IInv, TypeOK
<1>3. ASSUME NEW c \in Clients
      PROVE  (\E i \in DOMAIN batch : batch[i].client = c)
                <=> c = first \/ \E i \in DOMAIN Tail(batch) : Tail(batch)[i].client = c
  <2>1. ASSUME NEW i \in DOMAIN batch, i # 1
        PROVE  i - 1 \in DOMAIN Tail(batch) /\ Tail(batch)[i - 1] = batch[i]
    BY <1>2, <2>1
  <2>2. ASSUME NEW i \in DOMAIN Tail(batch)
        PROVE  i + 1 \in DOMAIN batch /\ batch[i + 1] = Tail(batch)[i]
    BY <1>2, <2>2
  <2>3. 1 \in DOMAIN batch /\ first = batch[1].client
    BY <1>2
  <2> HIDE DEF first
  <2>4. QED  BY ZenonT(60), <2>1, <2>2, <2>3
<1> HIDE DEF first
<1>4. \A c \in Clients :
          Seen'[c] = IF \E i \in DOMAIN Tail(batch) : Tail(batch)[i].client = c
                     THEN Answered(result)
                     ELSE IF c = first THEN Answered(result) ELSE calls[c]
  BY <1>1 DEF Seen
<1>5. \A c \in Clients : Seen'[c] = Seen[c]
  BY <1>1, <1>3, <1>4 DEF Seen
<1>6. Seen' = Seen
  BY <1>5 DEF Seen
<1>7. QED  BY <1>1, <1>6 DEF Atomic!vars, Seen

LEMMA CrashRefines ==
    ASSUME Crash
    PROVE  Atomic!Crash
<1>1. UNCHANGED rows /\ worker' = "start" /\ calls' = [c \in Clients |-> NoCall]
  BY DEF Crash, Volatile
<1>2. Seen' = [c \in Clients |-> NoCall]
  BY <1>1 DEF Seen
<1>3. QED
  BY <1>1, <1>2 DEF Atomic!Crash, Seen, Atomic!NoCall, NoCall, Atomic!Answered, Answered,
                    Atomic!NoCommand, NoCommand

LEMMA InitRefines == Init => Atomic!Init
<1> SUFFICES ASSUME Init PROVE Atomic!Init
  OBVIOUS
<1>1. /\ rows = [r \in Releases |-> NoRow] /\ worker = "start"
      /\ calls = [c \in Clients |-> NoCall]
  BY DEF Init, Volatile
<1>2. Seen = [c \in Clients |-> NoCall]
  BY <1>1 DEF Seen
<1>3. QED
  BY <1>1, <1>2 DEF Atomic!Init, Seen, Atomic!NoCall, NoCall, Atomic!Answered, Answered,
                    Atomic!NoCommand, NoCommand, Atomic!NoRow, NoRow

LEMMA StepRefines == RInv /\ [Next]_vars => [Atomic!Next]_(Atomic!vars)
<1> SUFFICES ASSUME RInv, [Next]_vars PROVE [Atomic!Next]_(Atomic!vars)
  OBVIOUS
<1>1. IInv
  BY DEF RInv
<1>2. CASE \E c \in Clients : \E command \in Commands[c] : Send(c, command)
  BY <1>1, <1>2, SendRefines
<1>3. CASE (\E c \in Clients : HangUp(c)) \/ Close
  <2>1. UNCHANGED <<rows, calls, worker, batch, result>>
    BY <1>3 DEF HangUp, Close, OnlyCallers
  <2>2. QED  BY <2>1, UnseenInRound
<1>4. CASE Open
  BY <1>1, <1>4, OpenRefines
<1>5. CASE NextWriteCommand \/ CollectEvent \/ CollectOther \/ StopCollecting
           \/ ExecuteStatement \/ EndRound \/ Stop
  <2>1. /\ UNCHANGED <<rows, calls>>
        /\ worker # "respond" \/ batch = <<>>
        /\ worker' # "respond" \/ batch' = <<>>
    BY <1>5 DEF NextWriteCommand, Begin, CollectEvent, CollectOther, StopCollecting, Collecting,
                ExecuteStatement, Writing, EndRound, Stop
  <2>2. QED  BY <2>1, Unseen
<1>6. CASE Commit
  BY <1>6, CommitRefines DEF Atomic!Next
<1>7. CASE RollBack
  BY <1>1, <1>7, RollBackRefines DEF Atomic!Next
<1>8. CASE Respond
  BY <1>1, <1>8, RespondRefines
<1>9. CASE Crash
  BY <1>9, CrashRefines DEF Atomic!Next
<1>10. CASE UNCHANGED vars
  BY <1>10, UnseenInRound DEF vars, callers, thread
<1>11. QED
  BY <1>2, <1>3, <1>4, <1>5, <1>6, <1>7, <1>8, <1>9, <1>10 DEF Next, ThreadStep

\* To its callers the writer thread is the atomic store: a write takes effect
\* at the commit of its round, together with the others of its batch and in
\* their order, or not at all, whatever the batch limit, the interleaving, the
\* failures and the crashes (run_store_write_worker, execute_event_write_batch).
THEOREM StoreIsAtomic == Spec => ImplementsAtomicStore
<1>1. Spec => []RInv
  BY InitRInv, StepRInv, PTL DEF Spec
<1>2. QED
  BY <1>1, InitRefines, StepRefines, PTL DEF Spec, ImplementsAtomicStore, Atomic!Spec

=============================================================================
