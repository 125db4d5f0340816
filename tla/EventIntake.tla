---------------------------- MODULE EventIntake -----------------------------
(***************************************************************************)
(* From an upstream registry to the ledger: the PyPI source (pypi.rs; the  *)
(* crates.io source has the same loop over the index's git history), its   *)
(* saved cursor and dedupe window (state.rs), the channel to the main loop *)
(* (lib.rs), the event ledger (ledger.rs), the operational index and the   *)
(* capture queue, with crashes of the process.  A release is its journal   *)
(* serial.                                                                 *)
(***************************************************************************)
EXTENDS Integers, SequencesExt

CONSTANTS
    MaxSerial,        \* bound of the model: releases ever published
    FeedWindow,       \* releases the RSS feed shows
    RecentCapacity,   \* recent_key_capacity
    ChannelCapacity,
    MaxCrashes        \* bound of the model

ASSUME IntakeAssumption ==
    /\ MaxSerial \in Nat
    /\ FeedWindow \in Nat
    /\ RecentCapacity \in Nat
    /\ ChannelCapacity \in Nat \ {0}
    /\ MaxCrashes \in Nat

NoSerial == -1      \* last_serial: None

VARIABLES
    published,        \* upstream: serials 1..published exist
    saved,            \* on disk: the state file of the source
    ledger,           \* on disk: the releases appended, in order
    rows,             \* on disk: the releases in the index
    captured,         \* on disk: the releases captured
    warmed_up, last_serial,  \* the source's state in memory
    recent,           \* its RecentKeys queue, oldest first
    batch, cursor,    \* entries still to be emitted, and where they end
    source,           \* where the source's loop is
    channel,
    hand, stage,      \* the release the main loop holds, if any, and its next step
    jobs,             \* capture requests in memory
    baseline,         \* history: what the first boot took as already seen
    crashes

disk   == <<saved, ledger, rows, captured>>
memory == <<warmed_up, last_serial, recent, batch, cursor>>
main   == <<hand, stage, jobs>>
vars   == <<published, disk, memory, source, channel, main, baseline, crashes>>

Serials == 1..MaxSerial

State == [warmed_up : BOOLEAN, last_serial : {NoSerial} \cup 0..MaxSerial,
          keys : Seq(Serials)]

-----------------------------------------------------------------------------
(* RecentKeys::insert: a new key may push the oldest one out.              *)

\* Mutant: the window is one key short.
InsertShort(queue, key) ==
    LET pushed == Append(queue, key)
    IN  IF Contains(queue, key) THEN queue
        ELSE IF Len(pushed) >= RecentCapacity THEN Tail(pushed) ELSE pushed

Insert(queue, key) ==
    LET pushed == Append(queue, key)
    IN  IF Contains(queue, key) THEN queue
        ELSE IF Len(pushed) > RecentCapacity THEN Tail(pushed) ELSE pushed

\* What fetch_events returns of the RSS feed: its releases, oldest first.
Feed ==
    LET size == IF published < FeedWindow THEN published ELSE FeedWindow
    IN  [i \in 1..size |-> published - size + i]

\* Mutant: the journal is asked from one serial too far.
JournalAfterNext(serial) ==
    [i \in 1..(published - serial - 1) |-> serial + 1 + i]

\* What changelog_since_serial answers.
JournalSince(serial) == [i \in 1..(published - serial) |-> serial + i]

-----------------------------------------------------------------------------
(* Upstream.                                                               *)

Publish ==
    /\ published < MaxSerial
    /\ published' = published + 1
    /\ UNCHANGED <<disk, memory, source, channel, main, baseline, crashes>>

-----------------------------------------------------------------------------
(* The source: first boot.                                                 *)

OnlySource == UNCHANGED <<published, ledger, rows, captured, main, crashes>>

\* fetch_last_serial succeeds.
BootstrapJournal ==
    /\ source = "poll" /\ ~warmed_up
    /\ cursor' = published
    /\ baseline' = 1..published
    /\ source' = "prime"
    /\ OnlySource
    /\ UNCHANGED <<saved, warmed_up, last_serial, recent, batch, channel>>

\* The feed is to prime the dedupe window; its failure is ignored.
FetchPrimer ==
    /\ source = "prime" /\ ~warmed_up
    /\ \/ batch' = Feed /\ baseline' = baseline \cup ToSet(Feed)
       \/ UNCHANGED <<batch, baseline>>
    /\ warmed_up' = TRUE
    /\ OnlySource
    /\ UNCHANGED <<saved, last_serial, recent, cursor, source, channel>>

\* fetch_last_serial failed and the feed answered.
BootstrapFeed ==
    /\ source = "poll" /\ ~warmed_up
    /\ batch' = Feed
    /\ baseline' = 1..published
    /\ warmed_up' = TRUE
    /\ source' = "prime"
    /\ OnlySource
    /\ UNCHANGED <<saved, last_serial, recent, cursor, channel>>

\* A release of the feed is taken as seen, without being emitted.
PrimeKey ==
    /\ source = "prime" /\ warmed_up /\ batch # <<>>
    /\ recent' = Insert(recent, Head(batch))
    /\ batch' = Tail(batch)
    /\ OnlySource
    /\ UNCHANGED <<saved, warmed_up, last_serial, cursor, source, channel, baseline>>

-----------------------------------------------------------------------------
(* The source: polling.  A round ends, with nothing left to emit, when the *)
(* state file is replaced.                                                 *)

PollJournal ==
    /\ source = "poll" /\ warmed_up
    /\ last_serial # NoSerial
    /\ batch' = JournalSince(last_serial)
    /\ cursor' = published
    /\ source' = "emit"
    /\ OnlySource
    /\ UNCHANGED <<saved, warmed_up, last_serial, recent, channel, baseline>>

\* The journal failed, or there is no serial to ask it for.
PollFeed ==
    /\ source = "poll" /\ warmed_up
    /\ batch' = Feed
    /\ source' = "emit"
    /\ OnlySource
    /\ UNCHANGED <<saved, warmed_up, last_serial, recent, cursor, channel, baseline>>

Emit ==
    /\ source = "emit" /\ batch # <<>>
    /\ IF Contains(recent, Head(batch))
       THEN UNCHANGED <<recent, channel>>
       ELSE /\ Len(channel) < ChannelCapacity
            /\ channel' = Append(channel, Head(batch))
            /\ recent' = Insert(recent, Head(batch))
    /\ batch' = Tail(batch)
    /\ OnlySource
    /\ UNCHANGED <<saved, warmed_up, last_serial, cursor, source, baseline>>

\* Mutant: the cursor is asked for again once the entries have been emitted.
SaveLatestSerial ==
    /\ source \in {"prime", "emit"} /\ warmed_up /\ batch = <<>>
    /\ last_serial' = published
    /\ saved' = [warmed_up |-> warmed_up, last_serial |-> published, keys |-> recent]
    /\ source' = "poll"
    /\ OnlySource
    /\ UNCHANGED <<warmed_up, recent, batch, cursor, channel, baseline>>

SaveState ==
    /\ source \in {"prime", "emit"} /\ warmed_up /\ batch = <<>>
    /\ last_serial' = cursor
    /\ saved' = [warmed_up |-> warmed_up, last_serial |-> cursor, keys |-> recent]
    /\ source' = "poll"
    /\ OnlySource
    /\ UNCHANGED <<warmed_up, recent, batch, cursor, channel, baseline>>

SourceStep ==
    BootstrapJournal \/ FetchPrimer \/ BootstrapFeed \/ PrimeKey
    \/ PollJournal \/ PollFeed \/ Emit \/ SaveState

-----------------------------------------------------------------------------
(* The main loop: ledger, index, capture queue, in that order.             *)

OnlyMain == UNCHANGED <<published, saved, memory, source, baseline, crashes>>

Receive ==
    /\ hand = <<>> /\ channel # <<>>
    /\ hand' = <<Head(channel)>> /\ stage' = "append"
    /\ channel' = Tail(channel)
    /\ OnlyMain
    /\ UNCHANGED <<ledger, rows, captured, jobs>>

\* Mutant: a failed append is only logged.
AppendOrWarn ==
    /\ hand # <<>> /\ stage = "append"
    /\ ledger' \in {ledger, Append(ledger, Head(hand))}
    /\ stage' = "record"
    /\ OnlyMain
    /\ UNCHANGED <<rows, captured, channel, hand, jobs>>

AppendLedger ==
    /\ hand # <<>> /\ stage = "append"
    /\ ledger' = Append(ledger, Head(hand))
    /\ stage' = "record"
    /\ OnlyMain
    /\ UNCHANGED <<rows, captured, channel, hand, jobs>>

RecordEvent ==
    /\ hand # <<>> /\ stage = "record"
    /\ rows' = rows \cup {Head(hand)}
    /\ stage' = "dispatch"
    /\ OnlyMain
    /\ UNCHANGED <<ledger, captured, channel, hand, jobs>>

Dispatch ==
    /\ hand # <<>> /\ stage = "dispatch"
    /\ jobs' = jobs \cup {Head(hand)}
    /\ hand' = <<>>
    /\ OnlyMain
    /\ UNCHANGED <<ledger, rows, captured, channel, stage>>

\* The capture worker finishes a request.
Capture(r) ==
    /\ r \in jobs
    /\ jobs' = jobs \ {r}
    /\ captured' = captured \cup {r}
    /\ OnlyMain
    /\ UNCHANGED <<ledger, rows, channel, hand, stage>>

MainStep == Receive \/ AppendLedger \/ RecordEvent \/ Dispatch

-----------------------------------------------------------------------------
\* The process dies: what is in memory is gone.
Crash ==
    /\ source # "down" /\ crashes < MaxCrashes
    /\ crashes' = crashes + 1
    /\ source' = "down"
    /\ channel' = <<>> /\ hand' = <<>> /\ jobs' = {}
    /\ UNCHANGED <<published, disk, memory, stage, baseline>>

\* The next start: the source loads its state file, and an empty index, only
\* that, is rebuilt from the ledger.  The capture worker runs requests only.
Restart ==
    /\ source = "down"
    /\ warmed_up' = saved.warmed_up
    /\ last_serial' = saved.last_serial
    /\ cursor' = saved.last_serial
    /\ recent' = saved.keys
    /\ batch' = <<>>
    /\ source' = "poll"
    /\ rows' = IF rows = {} THEN ToSet(ledger) ELSE rows
    /\ UNCHANGED <<published, saved, ledger, captured, channel, main, baseline, crashes>>

Init ==
    /\ published \in 0..MaxSerial
    /\ saved = [warmed_up |-> FALSE, last_serial |-> NoSerial, keys |-> <<>>]
    /\ ledger = <<>> /\ rows = {} /\ captured = {}
    /\ warmed_up = FALSE /\ last_serial = NoSerial /\ recent = <<>>
    /\ batch = <<>> /\ cursor = NoSerial
    /\ source = "down"
    /\ channel = <<>> /\ hand = <<>> /\ stage = "append" /\ jobs = {}
    /\ baseline = {}
    /\ crashes = 0

Next ==
    \/ Publish \/ SourceStep \/ MainStep
    \/ \E r \in Serials : Capture(r)
    \/ Crash \/ Restart

Spec == Init /\ [][Next]_vars

\* Tokio runs every ready task, a supervisor starts the process again, and
\* upstream does not refuse every request for the journal.
Fairness ==
    /\ WF_vars(SourceStep) /\ SF_vars(PollJournal)
    /\ WF_vars(MainStep)
    /\ WF_vars(\E r \in Serials : Capture(r))
    /\ WF_vars(Restart)

FairSpec == Spec /\ Fairness

-----------------------------------------------------------------------------
(* Properties.                                                             *)

\* Every variable has its type.
TypeOK ==
    /\ published \in 0..MaxSerial
    /\ saved \in State
    /\ ledger \in Seq(Serials)
    /\ rows \subseteq Serials /\ captured \subseteq Serials /\ jobs \subseteq Serials
    /\ warmed_up \in BOOLEAN
    /\ last_serial \in {NoSerial} \cup 0..MaxSerial
    /\ cursor \in {NoSerial} \cup 0..MaxSerial
    /\ recent \in Seq(Serials) /\ Len(recent) <= RecentCapacity
    /\ batch \in Seq(Serials)
    /\ source \in {"poll", "prime", "emit", "down"}
    /\ channel \in Seq(Serials) /\ Len(channel) <= ChannelCapacity
    /\ hand \in Seq(Serials) /\ Len(hand) <= 1
    /\ stage \in {"append", "record", "dispatch"}
    /\ baseline \subseteq Serials
    /\ crashes \in 0..MaxCrashes

\* What a source has handed over: in the ledger, or on its way there.
Handed == ledger \o (IF stage = "append" THEN hand ELSE <<>>) \o channel

\* Whatever the index, the capture queue or the capture tree know has first
\* been logged, across crashes (lib.rs 220-236): the ledger can rebuild them.
LoggedFirst == rows \cup jobs \cup captured \subseteq ToSet(ledger)

\* While the process has not crashed, the cursor passes no release that was
\* published after the first boot without handing it over, whichever of
\* journal and feed answers each poll (pypi.rs 236-306).
CursorSkipsNothing ==
    crashes = 0 =>
        \A s \in Serials : s <= last_serial => s \in baseline \cup ToSet(Handed)

\* While the process has not crashed, a release is logged again, by a feed
\* and a journal that overlap, only after RecentCapacity others
\* (state.rs 99-115): the dedupe window is as wide as it says.
DedupeWindow ==
    crashes = 0 =>
        \A i, j \in DOMAIN Handed :
            i < j /\ Handed[i] = Handed[j] => j - i > RecentCapacity

\* Once the process has stopped crashing, a release beyond the cursor that the
\* source does not know when it is about to poll is logged in the end, however
\* often the feed has to stand in for the journal (pypi.rs 236-306).
JournalDelivers ==
    \A s \in Serials :
        /\ crashes = MaxCrashes /\ source = "poll"
        /\ last_serial # NoSerial /\ last_serial < s /\ s <= published
        /\ ~Contains(recent, s)
        ~> s \in ToSet(ledger)

\* Every release a source has taken note of, and does not count as seen at
\* its first boot, reaches the ledger; README.md 24 says so of every observed
\* release.
ObservedIsLogged ==
    \A s \in ToSet(saved.keys) : s \in baseline \cup ToSet(Handed)

\* README.md 525: a logged release whose capture a crash prevented is
\* captured after the next start.
LoggedIsCaptured ==
    \A s \in Serials : s \in ToSet(ledger) ~> s \in captured

=============================================================================
