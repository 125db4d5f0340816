------------------------------ MODULE NpmSource -------------------------------
(***************************************************************************)
(* The npm source (sources/npm.rs).  Change s of the replication feed is   *)
(* change number s of the registry; it publishes a version of a package,   *)
(* or touches a package, or deletes it.  A packument shows the package as  *)
(* it is when it is fetched, and of its versions only those are taken that *)
(* are recent compared with the package's last modification.               *)
(***************************************************************************)
EXTENDS Integers, Sequences, FiniteSets, SequencesExt

CONSTANTS
    NpmPackages,
    MaxChange,          \* bound on the registry's changes
    BatchSize,          \* batch_size
    PublishWindow,      \* recent_publish_window, in changes
    NpmRecentCapacity,  \* recent_key_capacity
    MaxNpmCrashes       \* bound on the crashes

ASSUME NpmAssumption ==
    /\ IsFiniteSet(NpmPackages)
    /\ MaxChange \in Nat /\ BatchSize \in Nat \ {0} /\ PublishWindow \in Nat
    /\ NpmRecentCapacity \in Nat \ {0} /\ MaxNpmCrashes \in Nat

NoCursor == -1

VARIABLES
    changes,            \* changes[s]: the package and the kind of change s
    npm_saved,          \* the state file: since and recent_release_keys
    since,              \* the cursor in memory, or NoCursor
    npm_recent,         \* RecentKeys, oldest first
    npm_pc,
    page,               \* changes of the page whose packument is yet to be fetched
    next_since,
    found,              \* releases found, in the order the fetches end
    npm_sent,           \* releases sent to the main loop
    npm_baseline,       \* history: changes before the first boot
    missed,             \* history: releases a failed or late fetch passed over
    npm_crashes

npmMemory == <<since, npm_recent, npm_pc, page, next_since, found>>
npmHistory == <<npm_sent, npm_baseline, missed>>
npmVars == <<changes, npm_saved, npmMemory, npmHistory, npm_crashes>>

Kinds == {"version", "touch", "deleted"}

\* RecentKeys::insert.
RecentInsert(queue, key) ==
    LET pushed == Append(queue, key)
    IN  IF Contains(queue, key) THEN queue
        ELSE IF Len(pushed) > NpmRecentCapacity THEN Tail(pushed) ELSE pushed

\* A set of numbers, sorted: the place of a number is how many are no greater.
Ascending(S) ==
    [i \in 1..Cardinality(S) |->
        CHOOSE s \in S : Cardinality({t \in S : t <= s}) = i]

\* extract_recent_releases of a package's packument as it is now: versions that
\* are no older than the window before its last modification, oldest first.
ChangesOf(p) == {s \in DOMAIN changes : changes[s].package = p}
ModifiedOf(p) == CHOOSE s \in ChangesOf(p) : \A t \in ChangesOf(p) : t <= s
RecentReleases(p) ==
    Ascending({s \in ChangesOf(p) : /\ changes[s].kind = "version"
                                    /\ s >= ModifiedOf(p) - PublishWindow})

NpmInit ==
    /\ changes = <<>>
    /\ npm_saved = [since |-> NoCursor, keys |-> <<>>]
    /\ since = NoCursor /\ npm_recent = <<>> /\ npm_pc = "poll"
    /\ page = {} /\ next_since = 0 /\ found = <<>>
    /\ npm_sent = {} /\ npm_baseline = 0 /\ missed = {}
    /\ npm_crashes = 0

Change(p, kind) ==
    /\ Len(changes) < MaxChange
    /\ changes' = Append(changes, [package |-> p, kind |-> kind])
    /\ UNCHANGED <<npm_saved, npmMemory, npmHistory, npm_crashes>>

\* bootstrap_state: the cursor starts at the head of the feed.
BootstrapNpm ==
    /\ npm_pc = "poll" /\ since = NoCursor
    /\ since' = Len(changes)
    /\ npm_saved' = [since |-> Len(changes), keys |-> npm_saved.keys]
    /\ npm_baseline' = Len(changes)
    /\ UNCHANGED <<changes, npm_recent, npm_pc, page, next_since, found, npm_sent, missed,
                   npm_crashes>>

\* fetch_changes; an empty page, or a failed one, is asked for again.
FetchPage ==
    /\ npm_pc = "poll" /\ since # NoCursor /\ since < Len(changes)
    /\ next_since' = IF since + BatchSize < Len(changes) THEN since + BatchSize ELSE Len(changes)
    /\ page' = {s \in since + 1..next_since' : changes[s].kind # "deleted"}
    /\ found' = <<>>
    /\ npm_pc' = "fetch"
    /\ UNCHANGED <<changes, npm_saved, since, npm_recent, npmHistory, npm_crashes>>

\* What of this change a packument without it passes over.
Unseen(s, releases) ==
    IF changes[s].kind = "version" /\ ~Contains(releases, s) THEN {s} ELSE {}

\* The packuments are fetched concurrently, so they end in any order; one that
\* cannot be fetched is only logged.
FetchPackument(s) ==
    /\ npm_pc = "fetch" /\ s \in page
    /\ page' = page \ {s}
    /\ \/ /\ found' = found \o RecentReleases(changes[s].package)
          /\ missed' = missed \cup Unseen(s, RecentReleases(changes[s].package))
       \/ found' = found /\ missed' = missed \cup Unseen(s, <<>>)
    /\ UNCHANGED <<changes, npm_saved, since, npm_recent, npm_pc, next_since, npm_sent,
                   npm_baseline, npm_crashes>>

Fetched ==
    /\ npm_pc = "fetch" /\ page = {}
    /\ npm_pc' = "send"
    /\ UNCHANGED <<changes, npm_saved, since, npm_recent, page, next_since, found, npmHistory,
                   npm_crashes>>

SendRelease ==
    /\ npm_pc = "send" /\ found # <<>>
    /\ found' = Tail(found)
    /\ npm_recent' = RecentInsert(npm_recent, Head(found))
    /\ npm_sent' = npm_sent \cup (IF Contains(npm_recent, Head(found)) THEN {} ELSE {Head(found)})
    /\ UNCHANGED <<changes, npm_saved, since, npm_pc, page, next_since, npm_baseline, missed,
                   npm_crashes>>

\* The cursor moves past the page, whatever became of its packuments.
\* Mutant: it moves to the head of the feed as it is by now.
SaveHead ==
    /\ npm_pc = "send" /\ found = <<>>
    /\ since' = Len(changes)
    /\ npm_saved' = [since |-> Len(changes), keys |-> npm_recent]
    /\ npm_pc' = "poll"
    /\ UNCHANGED <<changes, npm_recent, page, next_since, found, npmHistory, npm_crashes>>

SaveCursor ==
    /\ npm_pc = "send" /\ found = <<>>
    /\ since' = next_since
    /\ npm_saved' = [since |-> next_since, keys |-> npm_recent]
    /\ npm_pc' = "poll"
    /\ UNCHANGED <<changes, npm_recent, page, next_since, found, npmHistory, npm_crashes>>

\* A crash and the next start.
RestartNpm ==
    /\ npm_crashes < MaxNpmCrashes
    /\ npm_crashes' = npm_crashes + 1
    /\ since' = npm_saved.since /\ npm_recent' = npm_saved.keys
    /\ npm_pc' = "poll" /\ page' = {} /\ next_since' = 0 /\ found' = <<>>
    /\ UNCHANGED <<changes, npm_saved, npmHistory>>

NpmNext ==
    \/ \E p \in NpmPackages, kind \in Kinds : Change(p, kind)
    \/ BootstrapNpm \/ FetchPage
    \/ \E s \in page : FetchPackument(s)
    \/ Fetched \/ SendRelease \/ SaveCursor \/ RestartNpm

NpmSpec == NpmInit /\ [][NpmNext]_npmVars

-----------------------------------------------------------------------------

\* The cursor on disk leaves behind only what was sent or was already there on
\* the first boot -- and what a fetch passed over: one that failed, or one so
\* late that its package had been touched again, more than the window after the
\* version was published.  No crash, batch or order of the fetches loses more.
NpmCursorSkipsNothing ==
    \A s \in npm_baseline + 1..npm_saved.since :
        changes[s].kind = "version" => s \in npm_sent \cup missed

=============================================================================
