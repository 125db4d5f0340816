---------------------------- MODULE CratesIoSource ----------------------------
(***************************************************************************)
(* The crates.io source (sources/crates_io.rs).  Release s is the commit s *)
(* of the index.  The source follows the index's head with shallow fetches *)
(* and falls back to the site's summary of the latest releases.            *)
(***************************************************************************)
EXTENDS Integers, Sequences, SequencesExt

CONSTANTS
    MaxCommit,          \* bound on the index
    FetchDepth,         \* CRATES_INDEX_FETCH_DEPTH
    SummaryWindow,      \* releases the summary shows
    CratesRecentCapacity,
    MaxCratesCrashes    \* bound on the crashes

ASSUME CratesAssumption ==
    /\ MaxCommit \in Nat /\ FetchDepth \in Nat \ {0} /\ SummaryWindow \in Nat
    /\ CratesRecentCapacity \in Nat \ {0} /\ MaxCratesCrashes \in Nat

NoHead == -1

VARIABLES
    index_head,         \* commits 1..index_head exist
    crates_saved,       \* the state file
    crates_warm, last_index_head, crates_recent,    \* CratesState in memory
    crates_pc,
    outgoing, next_head,    \* releases to send, and the head once they are
    cooling,            \* index_sync_cooldown_until is in the future
    crates_sent,        \* releases sent to the main loop
    crates_baseline,    \* history: releases before the first boot
    fell_back,          \* history: a summary was sent, or a walk met the depth
    crates_crashes

cratesState == <<crates_warm, last_index_head, crates_recent>>
cratesLoop == <<crates_pc, outgoing, next_head, cooling>>
cratesHistory == <<crates_sent, crates_baseline, fell_back>>
cratesVars == <<index_head, crates_saved, cratesState, cratesLoop, cratesHistory,
                crates_crashes>>

RecentCrate(queue, key) ==
    LET pushed == Append(queue, key)
    IN  IF Contains(queue, key) THEN queue
        ELSE IF Len(pushed) > CratesRecentCapacity THEN Tail(pushed) ELSE pushed

\* What a window is after every release of a list has been inserted.
RecentCrates(queue, releases) ==
    LET after[n \in 0..Len(releases)] ==
            IF n = 0 THEN queue ELSE RecentCrate(after[n - 1], releases[n])
    IN  after[Len(releases)]

Upto(first, last) == [i \in 1..(last - first + 1) |-> first + i - 1]

\* summary_to_events: the latest releases, oldest first.
Summary ==
    Upto(IF index_head > SummaryWindow THEN index_head - SummaryWindow + 1 ELSE 1, index_head)

\* collect_index_release_events, of a clone that ends at the fetch depth: the
\* last commit it has looks like a root, whose whole tree is new.
CutOff(since_head) == since_head < index_head - FetchDepth + 1 /\ index_head > FetchDepth

ReleasesSince(since_head) ==
    IF since_head = index_head THEN <<>>
    ELSE IF CutOff(since_head) THEN Upto(1, index_head)
    ELSE Upto(since_head + 1, index_head)

CratesInit ==
    /\ index_head \in 0..1
    /\ crates_saved = [warm |-> FALSE, head |-> NoHead, keys |-> <<>>]
    /\ crates_warm = FALSE /\ last_index_head = NoHead /\ crates_recent = <<>>
    /\ crates_pc = "poll" /\ outgoing = <<>> /\ next_head = NoHead /\ cooling = FALSE
    /\ crates_sent = {} /\ crates_baseline = 0 /\ fell_back = FALSE
    /\ crates_crashes = 0

PublishCrate ==
    /\ index_head < MaxCommit
    /\ index_head' = index_head + 1
    /\ UNCHANGED <<crates_saved, cratesState, cratesLoop, cratesHistory, crates_crashes>>

Warm(head, keys) ==
    /\ crates_warm' = TRUE /\ last_index_head' = head /\ crates_recent' = keys
    /\ crates_saved' = [warm |-> TRUE, head |-> head, keys |-> keys]
    /\ crates_baseline' = index_head
    /\ UNCHANGED <<index_head, cratesLoop, crates_sent, fell_back, crates_crashes>>

\* fetch_remote_index_head answers: only what comes after it is new.  The
\* dedupe window stays empty, so a summary may bring older releases.
BootstrapHead ==
    /\ crates_pc = "poll" /\ ~crates_warm
    /\ Warm(index_head, crates_recent)

\* It fails: the summary's releases count as seen, and there is no head.
BootstrapSummary ==
    /\ crates_pc = "poll" /\ ~crates_warm
    /\ Warm(last_index_head, RecentCrates(crates_recent, Summary))

SyncIndex ==
    /\ crates_pc = "poll" /\ crates_warm
    /\ last_index_head # NoHead /\ ~cooling
    /\ \/ /\ outgoing' = ReleasesSince(last_index_head)
          /\ next_head' = index_head
          /\ fell_back' = (fell_back \/ CutOff(last_index_head))
          /\ crates_pc' = "send"
          /\ UNCHANGED cooling
       \/ /\ cooling' = TRUE                    \* INDEX_SYNC_FAILURE_COOLDOWN
          /\ crates_pc' = "summary"
          /\ UNCHANGED <<outgoing, next_head, fell_back>>
    /\ UNCHANGED <<index_head, crates_saved, cratesState, crates_sent, crates_baseline,
                   crates_crashes>>

EndCooldown ==
    /\ cooling
    /\ cooling' = FALSE
    /\ UNCHANGED <<index_head, crates_saved, cratesState, crates_pc, outgoing, next_head,
                   cratesHistory, crates_crashes>>

\* The summary is polled when the sync failed, while it cools down, and when
\* there is no head; the head stays.
\* Mutant: the head moves on.
PollSummaryAndMove ==
    /\ \/ crates_pc = "summary"
       \/ crates_pc = "poll" /\ crates_warm /\ (last_index_head = NoHead \/ cooling)
    /\ \/ /\ outgoing' = Summary
          /\ next_head' = index_head
          /\ fell_back' = TRUE
          /\ crates_pc' = "send"
       \/ /\ crates_pc' = "poll"
          /\ UNCHANGED <<outgoing, next_head, fell_back>>
    /\ UNCHANGED <<index_head, crates_saved, cratesState, cooling, crates_sent, crates_baseline,
                   crates_crashes>>

PollSummary ==
    /\ \/ crates_pc = "summary"
       \/ crates_pc = "poll" /\ crates_warm /\ (last_index_head = NoHead \/ cooling)
    /\ \/ /\ outgoing' = Summary
          /\ next_head' = last_index_head
          /\ fell_back' = TRUE
          /\ crates_pc' = "send"
       \/ /\ crates_pc' = "poll"
          /\ UNCHANGED <<outgoing, next_head, fell_back>>
    /\ UNCHANGED <<index_head, crates_saved, cratesState, cooling, crates_sent, crates_baseline,
                   crates_crashes>>

SendCrate ==
    /\ crates_pc = "send" /\ outgoing # <<>>
    /\ outgoing' = Tail(outgoing)
    /\ crates_recent' = RecentCrate(crates_recent, Head(outgoing))
    /\ crates_sent' = crates_sent \cup
           (IF Contains(crates_recent, Head(outgoing)) THEN {} ELSE {Head(outgoing)})
    /\ UNCHANGED <<index_head, crates_saved, crates_warm, last_index_head, crates_pc, next_head,
                   cooling, crates_baseline, fell_back, crates_crashes>>

SaveCrates ==
    /\ crates_pc = "send" /\ outgoing = <<>>
    /\ last_index_head' = next_head
    /\ crates_saved' = [warm |-> TRUE, head |-> next_head, keys |-> crates_recent]
    /\ crates_pc' = "poll"
    /\ UNCHANGED <<index_head, crates_warm, crates_recent, outgoing, next_head, cooling,
                   cratesHistory, crates_crashes>>

\* A crash and the next start; the cooldown is forgotten.
RestartCrates ==
    /\ crates_crashes < MaxCratesCrashes
    /\ crates_crashes' = crates_crashes + 1
    /\ crates_warm' = crates_saved.warm /\ last_index_head' = crates_saved.head
    /\ crates_recent' = crates_saved.keys
    /\ crates_pc' = "poll" /\ outgoing' = <<>> /\ next_head' = NoHead /\ cooling' = FALSE
    /\ UNCHANGED <<index_head, crates_saved, cratesHistory>>

CratesNext ==
    \/ PublishCrate \/ BootstrapHead \/ BootstrapSummary \/ SyncIndex \/ EndCooldown
    \/ PollSummary \/ SendCrate \/ SaveCrates \/ RestartCrates

CratesSpec == CratesInit /\ [][CratesNext]_cratesVars

-----------------------------------------------------------------------------

\* Whatever mixture of index and summary, of failures and crashes: a head on
\* disk leaves no release behind that has not been sent, even when the shallow
\* clone no longer reaches back to the last head.  And a release older than the
\* first boot is sent only when a summary was, or the clone did not reach back.
HeadSkipsNothing ==
    /\ \A s \in crates_baseline + 1..crates_saved.head : s \in crates_sent
    /\ \A s \in crates_sent : s > crates_baseline \/ fell_back

=============================================================================
