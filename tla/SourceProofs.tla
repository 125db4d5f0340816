---------------------------- MODULE SourceProofs -----------------------------
(***************************************************************************)
(* Proofs about the sources of npm and of crates.io, about the throttle    *)
(* every source sends its requests through, and about the graphs that are  *)
(* collected from the registries and from deps.dev.                        *)
(*                                                                         *)
(* A collection goes from level to level.  Its invariant says how far it   *)
(* has come: all that is within n steps of the seeds, by the edges it has  *)
(* so far, is collected when level n starts, and the frontier is what is   *)
(* one step further; an edge that is added starts in the level that ends,  *)
(* so that no distance changes that was measured before.                   *)
(***************************************************************************)
EXTENDS MCServices, SequenceTheorems, FiniteSetTheorems, WellFoundedInduction,
        NaturalsInduction, TLAPS

-----------------------------------------------------------------------------
(* The throttle.                                                            *)

\* However many failures there were, the delay is a number: the multiplier is
\* looked up among nine (the shift of note_failure is capped at eight).
LEMMA DelayIsNat == ASSUME NEW n \in Nat PROVE BackoffDelay(n) \in Nat
<1>1. Sooner(n, 8) + 1 \in 1..9
  BY DEF Sooner
<1>2. \A i \in 1..9 : Multiplier[i] \in Nat
  BY DEF Multiplier
<1>3. \A i, j \in Nat : i * j \in Nat
  OBVIOUS
<1>4. BackoffInitial * Multiplier[Sooner(n, 8) + 1] \in Nat
  BY <1>1, <1>2, <1>3, ThrottleAssumption DEF ThrottleAssumption
<1>5. QED  BY <1>4, ThrottleAssumption DEF BackoffDelay, Sooner, Later, ThrottleAssumption

\* What the requests and failures of the past have left in the throttle's state:
\* the next request is at least the interval after the last one, and as long as
\* a failure counts, the backoff is the one that it has set.
PastIsKept ==
    /\ last_sent \in {Never} \cup Nat
    /\ last_failure \in [at : {Never} \cup Nat, delay : Nat]
    /\ last_sent # Never => next_request_at >= last_sent + MinInterval
    /\ last_failure.at # Never => backoff_until = last_failure.at + last_failure.delay

SpacingInv == ThrottleTypeOK /\ PastIsKept

LEMMA SpacingInit == ThrottleInit => SpacingInv
BY ThrottleAssumption
   DEF ThrottleAssumption, ThrottleInit, SpacingInv, ThrottleTypeOK, PastIsKept, NoFailure, Never

\* The least interval and the backoff are kept by every step: only a request
\* moves the one, and only answers the other.
LEMMA SpacingStep == SpacingInv /\ [ThrottleNext]_throttleVars => SpacingInv'
<1> SUFFICES ASSUME SpacingInv, [ThrottleNext]_throttleVars
             PROVE  SpacingInv'
  OBVIOUS
<1> USE ThrottleAssumption
<1>1. CASE ThrottleTick
  BY <1>1 DEF ThrottleAssumption, SpacingInv, ThrottleTypeOK, PastIsKept, ThrottleTick,
              throttleState, Never
<1>2. ASSUME NEW c \in Callers, WaitTurn(c)
      PROVE  SpacingInv'
  <2>1. ReadyAt \in Nat
    BY DEF SpacingInv, ThrottleTypeOK, ReadyAt, Later, Never
  <2>2. callers' \in [Callers -> [pc : {"idle", "waiting", "sent"}, until : Nat]]
    BY <1>2, <2>1 DEF WaitTurn, SpacingInv, ThrottleTypeOK
  <2>3. QED
    BY <1>2, <2>2 DEF ThrottleAssumption, WaitTurn, SpacingInv, ThrottleTypeOK, PastIsKept, Never
<1>3. ASSUME NEW c \in Callers, GiveUp(c)
      PROVE  SpacingInv'
  BY <1>3 DEF GiveUp, SpacingInv, ThrottleTypeOK, PastIsKept, throttleState, Never
<1>4. ASSUME NEW c \in Callers, NoteSuccess(c)
      PROVE  SpacingInv'
  BY <1>4 DEF NoteSuccess, SpacingInv, ThrottleTypeOK, PastIsKept, NoFailure, Never
<1>5. ASSUME NEW c \in Callers, NoteFailure(c)
      PROVE  SpacingInv'
  <2>1. BackoffDelay(failures) \in Nat
    BY DelayIsNat DEF SpacingInv, ThrottleTypeOK
  <2>2. QED
    BY <1>5, <2>1 DEF ThrottleAssumption, NoteFailure, SpacingInv, ThrottleTypeOK, PastIsKept, Never
<1>6. CASE UNCHANGED throttleVars
  BY <1>6 DEF throttleVars, throttleState, SpacingInv, ThrottleTypeOK, PastIsKept
<1>7. QED  BY <1>1, <1>2, <1>3, <1>4, <1>5, <1>6 DEF ThrottleNext

\* A caller comes to send only by wait_turn, and not before ReadyAt.
LEMMA SentInTurn ==
    ASSUME SpacingInv, [ThrottleNext]_throttleVars,
           NEW c \in Callers, callers[c].pc # "sent", callers'[c].pc = "sent"
    PROVE  ReadyAt <= moment
<1>1. ASSUME NEW d \in Callers, WaitTurn(d) PROVE ReadyAt <= moment
  BY <1>1 DEF WaitTurn, SpacingInv, ThrottleTypeOK
<1>2. ASSUME NEW d \in Callers, GiveUp(d) \/ NoteSuccess(d) \/ NoteFailure(d) PROVE FALSE
  BY <1>2 DEF GiveUp, NoteSuccess, NoteFailure, SpacingInv, ThrottleTypeOK
<1>3. ~ThrottleTick /\ ~UNCHANGED throttleVars
  BY DEF ThrottleTick, throttleVars
<1>4. QED  BY <1>1, <1>2, <1>3 DEF ThrottleNext

LEMMA SpacingOfStep ==
    ASSUME SpacingInv, [ThrottleNext]_throttleVars,
           NEW c \in Callers, callers[c].pc # "sent", callers'[c].pc = "sent"
    PROVE  /\ last_sent = Never \/ moment - last_sent >= MinInterval
           /\ last_failure.at = Never \/ moment - last_failure.at >= last_failure.delay
<1>1. ReadyAt <= moment
  BY SentInTurn
<1>2. next_request_at <= moment /\ (backoff_until # Never => backoff_until <= moment)
  BY <1>1, ThrottleAssumption
     DEF ReadyAt, Later, Never, SpacingInv, ThrottleTypeOK, ThrottleAssumption
<1>3. last_failure.at # Never => backoff_until # Never
  BY DEF SpacingInv, PastIsKept, Never
<1>4. QED
  BY <1>2, <1>3, ThrottleAssumption
     DEF SpacingInv, PastIsKept, ThrottleTypeOK, Never, ThrottleAssumption

\* The throttle's state is of its types at all times (SourceHttpThrottle).
THEOREM ThrottleTypeCorrect == ThrottleSpec => []ThrottleTypeOK
<1>1. SpacingInv => ThrottleTypeOK
  BY DEF SpacingInv
<1>2. QED  BY <1>1, SpacingInit, SpacingStep, PTL DEF ThrottleSpec

\* wait_turn keeps all requests of a source apart, for any number of callers,
\* any interval and any backoff: two requests by the least interval, and every
\* request from the last failure that no good answer has lifted by its delay.
THEOREM SpacingKept == ThrottleSpec => RequestsSpaced
<1>1. SpacingInv /\ [ThrottleNext]_throttleVars =>
        [\A c \in Callers : callers[c].pc # "sent" /\ callers'[c].pc = "sent" =>
            /\ last_sent = Never \/ moment - last_sent >= MinInterval
            /\ last_failure.at = Never \/ moment - last_failure.at >= last_failure.delay
        ]_throttleVars
  BY SpacingOfStep
<1>2. QED  BY <1>1, SpacingInit, SpacingStep, PTL DEF ThrottleSpec, RequestsSpaced

-----------------------------------------------------------------------------
(* Sequences and their elements.                                            *)

LEMMA AppendHas ==
    ASSUME NEW S, NEW s \in Seq(S), NEW e \in S
    PROVE  Append(s, e) \in Seq(S) /\ ToSet(Append(s, e)) = ToSet(s) \cup {e}
<1>1. /\ Append(s, e) \in Seq(S) /\ Len(Append(s, e)) = Len(s) + 1 /\ Len(s) \in Nat
      /\ \A i \in 1..Len(s) : Append(s, e)[i] = s[i]
      /\ Append(s, e)[Len(s) + 1] = e
      /\ DOMAIN s = 1..Len(s) /\ DOMAIN Append(s, e) = 1..(Len(s) + 1)
  BY AppendProperties, LenProperties
<1>2. QED  BY <1>1 DEF ToSet

LEMMA TailHas ==
    ASSUME NEW S, NEW s \in Seq(S), s # <<>>
    PROVE  /\ Head(s) \in S /\ Tail(s) \in Seq(S)
           /\ ToSet(s) = {Head(s)} \cup ToSet(Tail(s))
<1>1. /\ Head(s) = s[1] /\ Head(s) \in S /\ Tail(s) \in Seq(S) /\ Len(s) \in Nat \ {0}
      /\ Len(Tail(s)) = Len(s) - 1
      /\ \A i \in 1..(Len(s) - 1) : Tail(s)[i] = s[i + 1]
      /\ DOMAIN s = 1..Len(s) /\ DOMAIN Tail(s) = 1..(Len(s) - 1)
  BY HeadTailProperties, EmptySeq, LenProperties
<1>2. ASSUME NEW i \in 1..Len(s), i # 1 PROVE s[i] \in ToSet(Tail(s))
  <2>1. i - 1 \in 1..(Len(s) - 1) /\ s[i] = Tail(s)[i - 1]
    BY <1>1, <1>2
  <2>2. QED  BY <1>1, <2>1 DEF ToSet
<1>3. ASSUME NEW i \in 1..(Len(s) - 1) PROVE Tail(s)[i] \in ToSet(s)
  <2>1. i + 1 \in 1..Len(s) /\ Tail(s)[i] = s[i + 1]
    BY <1>1, <1>3
  <2>2. QED  BY <1>1, <2>1 DEF ToSet
<1>4. QED  BY <1>1, <1>2, <1>3 DEF ToSet

LEMMA JoinHas ==
    ASSUME NEW S, NEW s \in Seq(S), NEW t \in Seq(S)
    PROVE  s \o t \in Seq(S) /\ ToSet(s \o t) = ToSet(s) \cup ToSet(t)
<1>1. s \o t \in Seq(S) /\ Range(s \o t) = Range(s) \cup Range(t)
  BY ConcatProperties, RangeConcatenation
<1>2. \A u : Range(u) = ToSet(u)
  BY DEF Range, ToSet
<1>3. QED  BY <1>1, <1>2

LEMMA EmptyHas == ToSet(<<>>) = {} /\ \A S : <<>> \in Seq(S)
BY DEF ToSet

-----------------------------------------------------------------------------
(* The npm source.                                                          *)

\* The sorted numbers of a finite set are all of them, and only them.
LEMMA AscendingHas ==
    ASSUME NEW S \in SUBSET Nat, IsFiniteSet(S)
    PROVE  Ascending(S) \in Seq(S)
<1> DEFINE upto(s) == {t \in S : t <= s}
           n == Cardinality(S)
           rank == [s \in S |-> Cardinality(upto(s))]
<1>1. n \in Nat /\ IsFiniteSet(1..n) /\ Cardinality(1..n) = n
  BY FS_CardinalityType, FS_Interval
<1>2. ASSUME NEW s \in S PROVE rank[s] \in 1..n
  <2>1. upto(s) \in SUBSET S /\ IsFiniteSet(upto(s)) /\ Cardinality(upto(s)) <= n
    BY FS_Subset
  <2>2. Cardinality(upto(s)) \in Nat /\ upto(s) # {}
    BY <2>1, FS_CardinalityType
  <2>3. Cardinality(upto(s)) # 0
    BY <2>1, <2>2, FS_EmptySet
  <2> HIDE DEF upto, n
  <2>4. QED  BY <1>1, <2>1, <2>2, <2>3
<1>3. ASSUME NEW s \in S, NEW t \in S, s < t PROVE rank[s] # rank[t]
  <2>1. IsFiniteSet(upto(t)) /\ upto(s) \in SUBSET upto(t)
    <3>1. upto(t) \in SUBSET S
      OBVIOUS
    <3>2. ASSUME NEW u \in S, u <= s PROVE u <= t
      BY <1>3, <3>2
    <3>3. QED  BY <3>1, <3>2, FS_Subset
  <2>2. t \in upto(t) /\ t \notin upto(s)
    BY <1>3
  <2> HIDE DEF upto
  <2>3. Cardinality(upto(s)) # Cardinality(upto(t))
    BY <2>1, <2>2, FS_Subset
  <2>4. QED  BY <2>3
<1>4. rank \in Injection(S, 1..n)
  <2>1. \A s, t \in S : s # t => s < t \/ t < s
    OBVIOUS
  <2>2. \A s, t \in S : rank[s] = rank[t] => s = t
    BY <1>3, <2>1
  <2>3. rank \in [S -> 1..n]
    BY <1>2
  <2> HIDE DEF rank, n
  <2>4. QED  BY <2>2, <2>3 DEF Injection, IsInjective
<1>5. rank \in Surjection(S, 1..n)
  <2> HIDE DEF rank
  <2>1. QED  BY <1>1, <1>4, FS_Injection DEF n
<1>6. \A i \in 1..n : \E s \in S : Cardinality({t \in S : t <= s}) = i
  BY <1>5 DEF Surjection
<1>7. \A i \in 1..n : (CHOOSE s \in S : Cardinality({t \in S : t <= s}) = i) \in S
  BY <1>6
<1>8. Ascending(S) = [i \in 1..n |-> CHOOSE s \in S : Cardinality({t \in S : t <= s}) = i]
  BY DEF Ascending
<1> DEFINE f == [i \in 1..n |-> CHOOSE s \in S : Cardinality({t \in S : t <= s}) = i]
<1>9. f \in [1..n -> S]
  <2> HIDE DEF n
  <2>1. \A i \in 1..n : f[i] \in S
    BY <1>7
  <2>2. QED  BY <2>1
<1> HIDE DEF n, f
<1>10. f \in Seq(S)
  BY <1>1, <1>9
<1>11. Ascending(S) = f
  BY <1>8 DEF f
<1>12. QED  BY <1>10, <1>11

\* A page of the feed, whose packuments are being fetched or sent, is covered:
\* each of its releases is still to be fetched or sent, has been sent, or was
\* passed over by its fetch.
PageIsCovered ==
    \A s \in npm_baseline + 1..next_since :
        changes[s].kind = "version" =>
            s \in page \cup ToSet(found) \cup npm_sent \cup missed

NpmTypes ==
    /\ changes \in Seq([package : NpmPackages, kind : Kinds])
    /\ npm_saved \in [since : {NoCursor} \cup 0..Len(changes), keys : Seq(Nat)]
    /\ since = npm_saved.since
    /\ npm_recent \in Seq(Nat)
    /\ npm_pc \in {"poll", "fetch", "send"}
    /\ npm_pc # "poll" => since # NoCursor /\ next_since \in since..Len(changes)
    /\ page \subseteq 1..Len(changes)
    /\ npm_pc # "fetch" => page = {}
    /\ found \in Seq(Nat)
    /\ npm_baseline \in 0..Len(changes)

\* What the dedupe window knows, in memory and on disk, has been sent.
WindowIsSent == ToSet(npm_recent) \cup ToSet(npm_saved.keys) \subseteq npm_sent

NpmInv ==
    /\ NpmTypes
    /\ WindowIsSent
    /\ NpmCursorSkipsNothing
    /\ npm_pc # "poll" => PageIsCovered

LEMMA NpmWindowGrows ==
    ASSUME NEW q \in Seq(Nat), NEW k \in Nat
    PROVE  /\ RecentInsert(q, k) \in Seq(Nat)
           /\ ToSet(RecentInsert(q, k)) \subseteq ToSet(q) \cup {k}
<1> DEFINE pushed == Append(q, k)
<1>1. pushed \in Seq(Nat) /\ ToSet(pushed) = ToSet(q) \cup {k} /\ pushed # <<>>
  BY AppendHas, AppendProperties
<1>2. RecentInsert(q, k) \in {q, pushed, Tail(pushed)}
  BY DEF RecentInsert
<1> HIDE DEF pushed
<1>3. Tail(pushed) \in Seq(Nat) /\ ToSet(Tail(pushed)) \subseteq ToSet(pushed)
  BY <1>1, TailHas
<1>4. QED  BY <1>1, <1>2, <1>3

LEMMA RecentReleasesAreChanges ==
    ASSUME NpmTypes, NEW p
    PROVE  RecentReleases(p) \in Seq(Nat)
<1> DEFINE S == {s \in ChangesOf(p) : /\ changes[s].kind = "version"
                                      /\ s >= ModifiedOf(p) - PublishWindow}
<1>1. Len(changes) \in Nat /\ DOMAIN changes = 1..Len(changes)
  BY LenProperties DEF NpmTypes
<1>2. S \in SUBSET (1..Len(changes)) /\ IsFiniteSet(1..Len(changes))
  <2>1. S \in SUBSET (DOMAIN changes)
    BY DEF ChangesOf
  <2>2. IsFiniteSet(1..Len(changes))
    BY <1>1, FS_Interval
  <2>3. QED  BY <1>1, <2>1, <2>2
<1>3. S \in SUBSET Nat /\ IsFiniteSet(S)
  BY <1>1, <1>2, FS_Subset
<1>4. RecentReleases(p) = Ascending(S)
  BY DEF RecentReleases
<1> HIDE DEF S
<1>5. QED  BY <1>3, <1>4, AscendingHas, SeqMonotonic

LEMMA NpmInitInv == NpmInit => NpmInv
<1> SUFFICES ASSUME NpmInit PROVE NpmInv
  OBVIOUS
<1>1. NpmTypes
  BY EmptyHas DEF NpmInit, NpmTypes, NoCursor
<1>2. npm_baseline + 1..npm_saved.since = {}
  BY DEF NpmInit, NoCursor
<1>3. QED
  BY <1>1, <1>2, EmptyHas DEF NpmInit, NpmInv, WindowIsSent, NpmCursorSkipsNothing

\* The registry goes on; what it was stays.
LEMMA NpmChangeKeeps ==
    ASSUME NpmInv, NEW p \in NpmPackages, NEW kind \in Kinds, Change(p, kind)
    PROVE  NpmInv'
<1> DEFINE c == [package |-> p, kind |-> kind]
<1>1. /\ changes \in Seq([package : NpmPackages, kind : Kinds])
      /\ c \in [package : NpmPackages, kind : Kinds] /\ changes' = Append(changes, c)
      /\ Len(changes) \in Nat
  BY LenProperties DEF Change, NpmInv, NpmTypes
<1> HIDE DEF c
<1>2. /\ changes' \in Seq([package : NpmPackages, kind : Kinds])
      /\ Len(changes') = Len(changes) + 1
      /\ \A s \in 1..Len(changes) : changes'[s] = changes[s]
  BY <1>1, AppendProperties
<1>3. UNCHANGED <<npm_saved, since, npm_recent, npm_pc, page, next_since, found, npm_sent,
                  npm_baseline, missed>>
  BY DEF Change, npmMemory, npmHistory
<1>4. NpmTypes'
  BY <1>1, <1>2, <1>3 DEF NpmInv, NpmTypes, NoCursor
<1>5. /\ \A s \in npm_baseline + 1..npm_saved.since : s \in 1..Len(changes)
      /\ npm_pc # "poll" => \A s \in npm_baseline + 1..next_since : s \in 1..Len(changes)
  BY <1>1 DEF NpmInv, NpmTypes, NoCursor
<1>6. QED
  BY <1>2, <1>3, <1>4, <1>5 DEF NpmInv, WindowIsSent, NpmCursorSkipsNothing, PageIsCovered

\* A page is taken from the cursor on, so that together with what lies before
\* the cursor nothing is left out.
LEMMA NpmFetchPageKeeps == ASSUME NpmInv, FetchPage PROVE NpmInv'
<1>1. /\ npm_pc = "poll" /\ npm_pc' = "fetch" /\ since # NoCursor /\ since < Len(changes)
      /\ next_since' = IF since + BatchSize < Len(changes) THEN since + BatchSize ELSE Len(changes)
      /\ page' = {s \in since + 1..next_since' : changes[s].kind # "deleted"}
      /\ found' = <<>>
      /\ UNCHANGED <<changes, npm_saved, since, npm_recent, npm_sent, npm_baseline, missed>>
  BY DEF FetchPage, npmHistory
<1>2. Len(changes) \in Nat /\ since \in 0..Len(changes) /\ BatchSize \in Nat
      /\ npm_saved.since = since /\ npm_baseline \in Nat
  BY <1>1, LenProperties, NpmAssumption DEF NpmInv, NpmTypes, NpmAssumption
<1>3. next_since' \in since..Len(changes) /\ page' \subseteq 1..Len(changes)
  BY <1>1, <1>2
<1>4. NpmTypes'
  BY <1>1, <1>3, EmptyHas DEF NpmInv, NpmTypes
<1>5. ASSUME NEW s \in npm_baseline + 1..next_since', changes[s].kind = "version"
      PROVE  s \in page' \cup npm_sent \cup missed
  <2>1. CASE s <= since
    BY <1>2, <1>5, <2>1 DEF NpmInv, NpmCursorSkipsNothing
  <2>2. CASE s > since
    BY <1>1, <1>2, <1>3, <1>5, <2>2
  <2>3. QED  BY <1>2, <1>3, <1>5, <2>1, <2>2
<1>6. QED
  BY <1>1, <1>4, <1>5 DEF NpmInv, WindowIsSent, NpmCursorSkipsNothing, PageIsCovered

\* What a fetch does not find of its change is passed over.
LEMMA NpmFetchKeeps == ASSUME NpmInv, NEW s \in page, FetchPackument(s) PROVE NpmInv'
<1> DEFINE releases == RecentReleases(changes[s].package)
<1>1. /\ npm_pc = "fetch" /\ page' = page \ {s}
      /\ \/ found' = found \o releases /\ missed' = missed \cup Unseen(s, releases)
         \/ found' = found /\ missed' = missed \cup Unseen(s, <<>>)
      /\ UNCHANGED <<changes, npm_saved, since, npm_recent, npm_pc, next_since, npm_sent,
                     npm_baseline>>
  BY DEF FetchPackument
<1>2. releases \in Seq(Nat) /\ found \in Seq(Nat)
  BY RecentReleasesAreChanges DEF NpmInv, NpmTypes
<1>3. \A q : Unseen(s, q) = IF changes[s].kind = "version" /\ ~Contains(q, s) THEN {s} ELSE {}
  BY DEF Unseen
<1>4. Contains(releases, s) => s \in ToSet(releases)
  BY DEF Contains, ToSet
<1>5. ~Contains(<<>>, s)
  BY DEF Contains
<1> HIDE DEF releases
<1>6. found' \in Seq(Nat) /\ ToSet(found) \subseteq ToSet(found')
      /\ (changes[s].kind = "version" => s \in ToSet(found') \cup missed')
      /\ missed \subseteq missed'
  <2>1. CASE found' = found \o releases /\ missed' = missed \cup Unseen(s, releases)
    BY <1>2, <1>3, <1>4, <2>1, JoinHas
  <2>2. CASE found' = found /\ missed' = missed \cup Unseen(s, <<>>)
    BY <1>2, <1>3, <1>5, <2>2
  <2>3. QED  BY <1>1, <2>1, <2>2
<1>7. NpmTypes'
  BY <1>1, <1>6 DEF NpmInv, NpmTypes
<1>8. PageIsCovered'
  BY <1>1, <1>6 DEF NpmInv, PageIsCovered
<1>9. QED
  BY <1>1, <1>6, <1>7, <1>8 DEF NpmInv, WindowIsSent, NpmCursorSkipsNothing

\* A release that is sent, or that the window knows, has been sent.
LEMMA NpmSendKeeps == ASSUME NpmInv, SendRelease PROVE NpmInv'
<1> DEFINE s == Head(found)
<1>1. /\ npm_pc = "send" /\ found # <<>> /\ found' = Tail(found)
      /\ npm_recent' = RecentInsert(npm_recent, s)
      /\ npm_sent' = npm_sent \cup (IF Contains(npm_recent, s) THEN {} ELSE {s})
      /\ UNCHANGED <<changes, npm_saved, since, npm_pc, page, next_since, npm_baseline, missed>>
  BY DEF SendRelease
<1>2. found \in Seq(Nat) /\ npm_recent \in Seq(Nat)
  BY DEF NpmInv, NpmTypes
<1>3. s \in Nat /\ found' \in Seq(Nat) /\ ToSet(found) = {s} \cup ToSet(found')
  BY <1>1, <1>2, TailHas
<1>4. Contains(npm_recent, s) => s \in ToSet(npm_recent)
  BY DEF Contains, ToSet
<1> HIDE DEF s
<1>5. npm_recent' \in Seq(Nat) /\ ToSet(npm_recent') \subseteq ToSet(npm_recent) \cup {s}
  BY <1>1, <1>2, <1>3, NpmWindowGrows
<1>6. s \in npm_sent' /\ npm_sent \subseteq npm_sent'
  BY <1>1, <1>4 DEF NpmInv, WindowIsSent
<1>7. NpmTypes'
  BY <1>1, <1>3, <1>5 DEF NpmInv, NpmTypes
<1>8. PageIsCovered' /\ NpmCursorSkipsNothing' /\ WindowIsSent'
  BY <1>1, <1>3, <1>5, <1>6 DEF NpmInv, PageIsCovered, NpmCursorSkipsNothing, WindowIsSent
<1>9. QED  BY <1>7, <1>8 DEF NpmInv

LEMMA NpmNextInv == NpmInv /\ [NpmNext]_npmVars => NpmInv'
<1> SUFFICES ASSUME NpmInv, [NpmNext]_npmVars PROVE NpmInv'
  OBVIOUS
<1>1. CASE BootstrapNpm
  <2>1. /\ npm_pc = "poll" /\ npm_pc' = "poll" /\ since' = Len(changes)
        /\ npm_saved' = [since |-> Len(changes), keys |-> npm_saved.keys]
        /\ npm_baseline' = Len(changes)
        /\ UNCHANGED <<changes, npm_recent, page, next_since, found, npm_sent, missed>>
    BY <1>1 DEF BootstrapNpm
  <2>2. Len(changes) \in Nat
    BY LenProperties DEF NpmInv, NpmTypes
  <2>3. NpmTypes'
    BY <2>1, <2>2 DEF NpmInv, NpmTypes
  <2>4. Len(changes) + 1..Len(changes) = {}
    BY <2>2
  <2>5. QED
    BY <2>1, <2>3, <2>4 DEF NpmInv, WindowIsSent, NpmCursorSkipsNothing
<1>2. CASE Fetched
  <2>1. /\ npm_pc = "fetch" /\ npm_pc' = "send" /\ page = {}
        /\ UNCHANGED <<changes, npm_saved, since, npm_recent, page, next_since, found, npm_sent,
                       npm_baseline, missed>>
    BY <1>2 DEF Fetched, npmHistory
  <2>2. QED
    BY <2>1 DEF NpmInv, NpmTypes, WindowIsSent, NpmCursorSkipsNothing, PageIsCovered
<1>3. CASE SaveCursor
  <2>1. /\ npm_pc = "send" /\ npm_pc' = "poll" /\ found = <<>> /\ since' = next_since
        /\ npm_saved' = [since |-> next_since, keys |-> npm_recent]
        /\ UNCHANGED <<changes, npm_recent, page, next_since, found, npm_sent, npm_baseline,
                       missed>>
    BY <1>3 DEF SaveCursor, npmHistory
  <2>2. page = {} /\ next_since \in 0..Len(changes) /\ npm_recent \in Seq(Nat)
    BY <2>1, LenProperties DEF NpmInv, NpmTypes, NoCursor
  <2>3. NpmTypes'
    BY <2>1, <2>2 DEF NpmInv, NpmTypes
  <2>4. QED
    BY <2>1, <2>2, <2>3, EmptyHas
       DEF NpmInv, WindowIsSent, NpmCursorSkipsNothing, PageIsCovered
<1>4. CASE RestartNpm
  <2>1. /\ since' = npm_saved.since /\ npm_recent' = npm_saved.keys /\ npm_pc' = "poll"
        /\ page' = {} /\ next_since' = 0 /\ found' = <<>>
        /\ UNCHANGED <<changes, npm_saved, npm_sent, npm_baseline, missed>>
    BY <1>4 DEF RestartNpm, npmHistory
  <2>2. NpmTypes'
    BY <2>1, EmptyHas DEF NpmInv, NpmTypes
  <2>3. QED  BY <2>1, <2>2 DEF NpmInv, WindowIsSent, NpmCursorSkipsNothing
<1>5. CASE UNCHANGED npmVars
  BY <1>5 DEF npmVars, npmMemory, npmHistory, NpmInv, NpmTypes, WindowIsSent,
              NpmCursorSkipsNothing, PageIsCovered
<1>6. QED
  BY <1>1, <1>2, <1>3, <1>4, <1>5, NpmChangeKeeps, NpmFetchPageKeeps, NpmFetchKeeps, NpmSendKeeps
     DEF NpmNext

\* The cursor in the npm source's state file leaves behind only what was sent,
\* what was there on the first boot, and what a fetch passed over: for any
\* batch size, window and dedupe capacity, any order in which the packuments
\* arrive and any number of crashes (npm.rs 152-255).
THEOREM NpmNothingSkipped == NpmSpec => []NpmCursorSkipsNothing
<1>1. NpmInv => NpmCursorSkipsNothing
  BY DEF NpmInv
<1>2. QED  BY <1>1, NpmInitInv, NpmNextInv, PTL DEF NpmSpec

-----------------------------------------------------------------------------
(* The crates.io source.                                                    *)

\* A non-empty set of natural numbers has a least one: what stands in for
\* induction in what follows.
LEMMA Least ==
    ASSUME NEW S \in SUBSET Nat, S # {}
    PROVE  \E n \in S : \A m \in S : n <= m
<1> DEFINE R == OpToRel(<, Nat)
<1>1. IsWellFoundedOn(R, Nat)
  BY NatLessThanWellFounded
<1>2. \E n \in S : \A m \in S : <<m, n>> \notin R
  <2> HIDE DEF R
  <2>1. QED  BY <1>1, WFMin
<1>3. \A m, n \in Nat : <<m, n>> \notin R => n <= m
  BY DEF OpToRel
<1>4. QED  BY <1>2, <1>3

\* The windows one after the other, up to the n-th release.
Windows(queue, releases, n, g) ==
    g = [i \in 0..n |-> IF i = 0 THEN queue ELSE RecentCrate(g[i - 1], releases[i])]

LEMMA WindowsExist ==
    ASSUME NEW queue, NEW releases, NEW L \in Nat
    PROVE  \E g : Windows(queue, releases, L, g)
<1> DEFINE S == {n \in Nat : ~ \E g : Windows(queue, releases, n, g)}
<1>1. SUFFICES ASSUME S # {} PROVE FALSE
  OBVIOUS
<1>2. PICK n \in S : \A m \in S : n <= m
  BY <1>1, Least
<1>3. CASE n = 0
  <2> DEFINE g == [i \in 0..0 |-> queue]
  <2>1. Windows(queue, releases, 0, g)
    BY DEF Windows
  <2>2. QED  BY <1>3, <2>1
<1>4. CASE n # 0
  <2>1. n - 1 \in Nat /\ n - 1 \notin S
    BY <1>2, <1>4
  <2>2. PICK g : Windows(queue, releases, n - 1, g)
    BY <2>1
  <2> DEFINE h == [i \in 0..n |-> IF i = 0 THEN queue ELSE RecentCrate(g[i - 1], releases[i])]
  <2>3. \A i \in 0..n - 1 : h[i] = g[i]
    BY <2>1, <2>2 DEF Windows
  <2>4. \A i \in 0..n : i # 0 => i - 1 \in 0..n - 1
    BY <1>4
  <2>5. \A i \in 0..n : i # 0 => h[i - 1] = g[i - 1]
    BY <2>3, <2>4
  <2>6. \A i \in 0..n : h[i] = IF i = 0 THEN queue ELSE RecentCrate(h[i - 1], releases[i])
    BY <2>5
  <2>7. DOMAIN h = 0..n /\ h = [i \in DOMAIN h |-> h[i]]
    OBVIOUS
  <2> HIDE DEF h
  <2>8. Windows(queue, releases, n, h)
    BY <2>6, <2>7 DEF Windows
  <2>9. QED  BY <2>8
<1>5. QED  BY <1>3, <1>4

LEMMA RecentCratesIsLast ==
    ASSUME NEW queue, NEW releases, Len(releases) \in Nat
    PROVE  \E g : /\ Windows(queue, releases, Len(releases), g)
                  /\ RecentCrates(queue, releases) = g[Len(releases)]
<1> DEFINE a == CHOOSE g : g = [n \in 0..Len(releases) |->
                    IF n = 0 THEN queue ELSE RecentCrate(g[n - 1], releases[n])]
<1>1. \E g : Windows(queue, releases, Len(releases), g)
  BY WindowsExist
<1>2. Windows(queue, releases, Len(releases), a)
  <2>1. \E g : g = [n \in 0..Len(releases) |->
                    IF n = 0 THEN queue ELSE RecentCrate(g[n - 1], releases[n])]
    BY <1>1 DEF Windows
  <2>2. QED  BY <2>1 DEF Windows
<1>3. RecentCrates(queue, releases) = a[Len(releases)]
  BY DEF RecentCrates
<1>4. QED  BY <1>2, <1>3

LEMMA CrateWindowGrows ==
    ASSUME NEW q \in Seq(Nat), NEW k \in Nat
    PROVE  /\ RecentCrate(q, k) \in Seq(Nat)
           /\ ToSet(RecentCrate(q, k)) \subseteq ToSet(q) \cup {k}
<1> DEFINE pushed == Append(q, k)
<1>1. pushed \in Seq(Nat) /\ ToSet(pushed) = ToSet(q) \cup {k} /\ pushed # <<>>
  BY AppendHas, AppendProperties
<1>2. RecentCrate(q, k) \in {q, pushed, Tail(pushed)}
  BY DEF RecentCrate
<1> HIDE DEF pushed
<1>3. Tail(pushed) \in Seq(Nat) /\ ToSet(Tail(pushed)) \subseteq ToSet(pushed)
  BY <1>1, TailHas
<1>4. QED  BY <1>1, <1>2, <1>3

\* A window that has taken in a list holds nothing but what it held and what
\* the list holds.
LEMMA RecentCratesHas ==
    ASSUME NEW q \in Seq(Nat), NEW releases \in Seq(Nat)
    PROVE  /\ RecentCrates(q, releases) \in Seq(Nat)
           /\ ToSet(RecentCrates(q, releases)) \subseteq ToSet(q) \cup ToSet(releases)
<1> DEFINE L == Len(releases)
           Good(w) == w \in Seq(Nat) /\ ToSet(w) \subseteq ToSet(q) \cup ToSet(releases)
<1>1. L \in Nat /\ DOMAIN releases = 1..L
  BY LenProperties
<1>2. PICK g : Windows(q, releases, L, g) /\ RecentCrates(q, releases) = g[L]
  BY <1>1, RecentCratesIsLast
<1>3. /\ g[0] = q
      /\ \A n \in 1..L : g[n] = RecentCrate(g[n - 1], releases[n])
  <2> HIDE DEF L
  <2>1. g = [i \in 0..L |-> IF i = 0 THEN q ELSE RecentCrate(g[i - 1], releases[i])]
    BY <1>2 DEF Windows
  <2>2. \A i \in 0..L : g[i] = IF i = 0 THEN q ELSE RecentCrate(g[i - 1], releases[i])
    BY <2>1
  <2>3. 0 \in 0..L /\ \A n \in 1..L : n \in 0..L /\ n # 0
    BY <1>1
  <2>4. QED  BY <2>2, <2>3
<1>4. \A n \in 1..L : releases[n] \in Nat /\ releases[n] \in ToSet(releases)
  BY <1>1, ElementOfSeq DEF ToSet
<1>5. \A n \in 0..L : Good(g[n])
  <2> DEFINE S == {n \in 0..L : ~ Good(g[n])}
  <2>1. SUFFICES ASSUME S # {} PROVE FALSE
    OBVIOUS
  <2>2. S \in SUBSET Nat
    BY <1>1
  <2>3. PICK n \in S : \A m \in S : n <= m
    <3> HIDE DEF S
    <3>1. QED  BY <2>1, <2>2, Least
  <2>4. n # 0
    BY <1>3, <2>3
  <2>5. n - 1 \in 0..L /\ n \in 1..L /\ n - 1 \notin S
    BY <1>1, <2>3, <2>4
  <2>6. Good(g[n - 1])
    BY <2>5
  <2>7. /\ RecentCrate(g[n - 1], releases[n]) \in Seq(Nat)
        /\ ToSet(RecentCrate(g[n - 1], releases[n])) \subseteq ToSet(g[n - 1]) \cup {releases[n]}
    BY <1>4, <2>5, <2>6, CrateWindowGrows
  <2>8. Good(g[n])
    BY <1>3, <1>4, <2>5, <2>6, <2>7
  <2>9. QED  BY <2>3, <2>8
<1>6. QED  BY <1>1, <1>2, <1>5

LEMMA UptoHas ==
    ASSUME NEW a \in Nat, NEW b \in Nat
    PROVE  Upto(a, b) \in Seq(Nat) /\ ToSet(Upto(a, b)) = a..b
<1> DEFINE n == b - a + 1
           f == [i \in 1..n |-> a + i - 1]
<1>1. Upto(a, b) = f
  BY DEF Upto
<1>2. f \in Seq(Nat)
  <2>1. CASE n \in Nat
    <3>1. f \in [1..n -> Nat]
      OBVIOUS
    <3>2. QED  BY <2>1, <3>1
  <2>2. CASE n \notin Nat
    <3>1. 1..n = {} /\ 1..0 = {} 
      BY <2>2
    <3>2. f \in [1..0 -> Nat]
      BY <3>1
    <3>3. QED  BY <3>2
  <2>3. QED  BY <2>1, <2>2
<1>3. DOMAIN f = 1..n
  OBVIOUS
<1>4. ASSUME NEW s \in a..b PROVE s - a + 1 \in 1..n /\ f[s - a + 1] = s
  OBVIOUS
<1>5. ASSUME NEW i \in 1..n PROVE f[i] \in a..b
  OBVIOUS
<1> HIDE DEF n, f
<1>6. ToSet(f) = a..b
  BY <1>3, <1>4, <1>5 DEF ToSet
<1>7. QED  BY <1>1, <1>2, <1>6

LEMMA SummaryHas ==
    ASSUME index_head \in Nat
    PROVE  Summary \in Seq(Nat) /\ ToSet(Summary) \subseteq 1..index_head
<1> DEFINE first == IF index_head > SummaryWindow THEN index_head - SummaryWindow + 1 ELSE 1
<1>1. first \in Nat /\ first >= 1
  BY CratesAssumption DEF CratesAssumption
<1>2. Summary = Upto(first, index_head)
  BY DEF Summary
<1> HIDE DEF first
<1>3. Upto(first, index_head) \in Seq(Nat) /\ ToSet(Upto(first, index_head)) = first..index_head
  BY <1>1, UptoHas
<1>4. QED  BY <1>1, <1>2, <1>3

\* A walk of the index reaches from the old head to the new one, and further
\* back only when the clone is cut off.
LEMMA ReleasesSinceHas ==
    ASSUME index_head \in Nat, NEW h \in 0..index_head
    PROVE  /\ ReleasesSince(h) \in Seq(Nat)
           /\ h + 1..index_head \subseteq ToSet(ReleasesSince(h))
           /\ CutOff(h) \/ ToSet(ReleasesSince(h)) \subseteq h + 1..index_head
<1>1. CASE h = index_head
  <2>1. ReleasesSince(h) = <<>> /\ h + 1..index_head = {}
    BY <1>1 DEF ReleasesSince
  <2>2. QED  BY <2>1, EmptyHas
<1>2. CASE h # index_head /\ CutOff(h)
  <2>1. ReleasesSince(h) = Upto(1, index_head)
    BY <1>2 DEF ReleasesSince
  <2>2. Upto(1, index_head) \in Seq(Nat) /\ ToSet(Upto(1, index_head)) = 1..index_head
    BY UptoHas
  <2>3. h + 1..index_head \subseteq 1..index_head
    OBVIOUS
  <2>4. QED  BY <1>2, <2>1, <2>2, <2>3
<1>3. CASE h # index_head /\ ~CutOff(h)
  <2>1. ReleasesSince(h) = Upto(h + 1, index_head)
    BY <1>3 DEF ReleasesSince
  <2>2. /\ Upto(h + 1, index_head) \in Seq(Nat)
        /\ ToSet(Upto(h + 1, index_head)) = h + 1..index_head
    BY UptoHas
  <2>3. QED  BY <2>1, <2>2
<1>4. QED  BY <1>1, <1>2, <1>3

CratesHeads == {NoHead} \cup crates_baseline..index_head

CratesTypes ==
    /\ index_head \in Nat /\ crates_baseline \in 0..index_head
    /\ crates_saved \in [warm : BOOLEAN, head : CratesHeads, keys : Seq(Nat)]
    /\ crates_warm = crates_saved.warm /\ last_index_head = crates_saved.head
    /\ crates_recent \in Seq(Nat) /\ outgoing \in Seq(Nat)
    /\ crates_pc \in {"poll", "summary", "send"}
    /\ next_head \in CratesHeads
    /\ fell_back \in BOOLEAN

\* Before the first boot is over nothing has happened.
ColdIsEmpty ==
    ~crates_warm => /\ crates_pc = "poll" /\ next_head = NoHead /\ crates_sent = {}
                    /\ crates_recent = <<>> /\ last_index_head = NoHead
                    /\ crates_saved.keys = <<>>

\* What the dedupe window knows, in memory and on disk, has been sent or is
\* older than the first boot.
CratesKnown ==
    ToSet(crates_recent) \cup ToSet(crates_saved.keys) \subseteq crates_sent \cup 1..crates_baseline

\* While a list is being sent, what is up to the head it leads to has been sent
\* or is still on it; and it goes back behind the first boot only after a
\* fallback.
ListIsCovered ==
    crates_pc = "send" =>
        /\ \A s \in crates_baseline + 1..next_head : s \in ToSet(outgoing) \cup crates_sent
        /\ \A s \in ToSet(outgoing) : s > crates_baseline \/ fell_back

CratesInv == CratesTypes /\ ColdIsEmpty /\ CratesKnown /\ ListIsCovered /\ HeadSkipsNothing

LEMMA CratesInitInv == CratesInit => CratesInv
<1> SUFFICES ASSUME CratesInit PROVE CratesInv
  OBVIOUS
<1>1. CratesTypes
  <2>1. index_head \in Nat /\ crates_baseline \in 0..index_head
    BY DEF CratesInit
  <2>2. crates_saved \in [warm : BOOLEAN, head : CratesHeads, keys : Seq(Nat)]
    BY EmptyHas DEF CratesInit, CratesHeads
  <2>3. QED  BY <2>1, <2>2, EmptyHas DEF CratesInit, CratesTypes, CratesHeads
<1>2. crates_baseline + 1..crates_saved.head = {}
  BY DEF CratesInit, NoHead
<1>3. QED
  BY <1>1, <1>2, EmptyHas
     DEF CratesInit, CratesInv, ColdIsEmpty, CratesKnown, ListIsCovered, HeadSkipsNothing

\* Whatever a boot takes as known is older than it.
LEMMA CratesWarmKeeps ==
    ASSUME CratesInv, ~crates_warm,
           NEW head \in {NoHead, index_head}, NEW keys \in Seq(Nat),
           ToSet(keys) \subseteq 1..index_head, Warm(head, keys)
    PROVE  CratesInv'
<1>1. /\ crates_warm' = TRUE /\ last_index_head' = head /\ crates_recent' = keys
      /\ crates_saved' = [warm |-> TRUE, head |-> head, keys |-> keys]
      /\ crates_baseline' = index_head
      /\ UNCHANGED <<index_head, crates_pc, outgoing, next_head, cooling, crates_sent, fell_back>>
  BY DEF Warm, cratesLoop
<1>2. crates_pc = "poll" /\ crates_sent = {} 
  BY DEF CratesInv, ColdIsEmpty
<1>3. index_head \in Nat
  BY DEF CratesInv, CratesTypes
<1>4. index_head + 1..head = {}
  BY <1>3 DEF NoHead
<1>5. QED
  BY <1>1, <1>2, <1>3, <1>4
     DEF CratesInv, CratesTypes, CratesHeads, ColdIsEmpty, CratesKnown, ListIsCovered,
         HeadSkipsNothing

LEMMA CratesPublishKeeps == ASSUME CratesInv, PublishCrate PROVE CratesInv'
<1>1. /\ index_head' = index_head + 1
      /\ UNCHANGED <<crates_saved, crates_warm, last_index_head, crates_recent, crates_pc,
                     outgoing, next_head, crates_sent, crates_baseline, fell_back>>
  BY DEF PublishCrate, cratesState, cratesLoop, cratesHistory
<1>2. CratesTypes'
  <2>1. CratesHeads \subseteq CratesHeads'
    BY <1>1 DEF CratesInv, CratesTypes, CratesHeads
  <2>2. QED  BY <1>1, <2>1 DEF CratesInv, CratesTypes
<1>3. QED
  BY <1>1, <1>2 DEF CratesInv, ColdIsEmpty, CratesKnown, ListIsCovered, HeadSkipsNothing

\* A walk starts from the head on disk, up to which everything has been sent.
LEMMA CratesSyncKeeps == ASSUME CratesInv, SyncIndex PROVE CratesInv'
<1>1. /\ crates_warm /\ last_index_head # NoHead
      /\ UNCHANGED <<index_head, crates_saved, crates_warm, last_index_head, crates_recent,
                     crates_sent, crates_baseline>>
  BY DEF SyncIndex, cratesState
<1>2. /\ index_head \in Nat /\ crates_baseline \in Nat
      /\ last_index_head \in crates_baseline..index_head /\ crates_saved.head = last_index_head
      /\ last_index_head \in 0..index_head
  BY <1>1 DEF CratesInv, CratesTypes, CratesHeads
<1>3. CASE /\ outgoing' = ReleasesSince(last_index_head) /\ next_head' = index_head
           /\ fell_back' = (fell_back \/ CutOff(last_index_head)) /\ crates_pc' = "send"
  <2> DEFINE list == ReleasesSince(last_index_head)
  <2>1. /\ list \in Seq(Nat) /\ last_index_head + 1..index_head \subseteq ToSet(list)
        /\ CutOff(last_index_head) \/ ToSet(list) \subseteq last_index_head + 1..index_head
    BY <1>2, ReleasesSinceHas
  <2> HIDE DEF list
  <2>2. outgoing' = list
    BY <1>3 DEF list
  <2>3. \A s \in crates_baseline + 1..index_head : s \in ToSet(list) \cup crates_sent
    <3>1. \A s \in crates_baseline + 1..last_index_head : s \in crates_sent
      BY <1>2 DEF CratesInv, HeadSkipsNothing
    <3>2. \A s \in crates_baseline + 1..index_head :
              s \in crates_baseline + 1..last_index_head \/ s \in last_index_head + 1..index_head
      BY <1>2
    <3>3. QED  BY <2>1, <3>1, <3>2
  <2>4. \A s \in last_index_head + 1..index_head : s > crates_baseline
    BY <1>2
  <2>5. \A s \in ToSet(list) : s > crates_baseline \/ fell_back'
    BY <1>3, <2>1, <2>4
  <2>6. CratesTypes'
    <3>1. fell_back' \in BOOLEAN
      BY <1>3
    <3>2. outgoing' \in Seq(Nat) /\ next_head' \in CratesHeads' /\ CratesHeads' = CratesHeads
      BY <1>1, <1>2, <1>3, <2>1, <2>2 DEF CratesHeads
    <3>3. QED  BY <1>1, <1>3, <3>1, <3>2 DEF CratesInv, CratesTypes
  <2>7. ListIsCovered'
    BY <1>1, <1>3, <2>2, <2>3, <2>5 DEF ListIsCovered
  <2>8. QED
    BY <1>1, <1>3, <2>6, <2>7
       DEF CratesInv, ColdIsEmpty, CratesKnown, HeadSkipsNothing
<1>4. CASE crates_pc' = "summary" /\ UNCHANGED <<outgoing, next_head, fell_back>>
  BY <1>1, <1>4 DEF CratesInv, CratesTypes, CratesHeads, ColdIsEmpty, CratesKnown, ListIsCovered,
                    HeadSkipsNothing
<1>5. QED  BY <1>3, <1>4 DEF SyncIndex

\* A summary leads nowhere: the head stays.
LEMMA CratesSummaryKeeps == ASSUME CratesInv, PollSummary PROVE CratesInv'
<1>1. /\ UNCHANGED <<index_head, crates_saved, crates_warm, last_index_head, crates_recent,
                     crates_sent, crates_baseline>>
      /\ crates_warm
  BY DEF PollSummary, cratesState, CratesInv, ColdIsEmpty
<1>2. CASE /\ outgoing' = Summary /\ next_head' = last_index_head
           /\ fell_back' = TRUE /\ crates_pc' = "send"
  <2>1. Summary \in Seq(Nat)
    BY SummaryHas DEF CratesInv, CratesTypes
  <2>2. CratesTypes'
    BY <1>1, <1>2, <2>1 DEF CratesInv, CratesTypes, CratesHeads
  <2>3. ListIsCovered'
    BY <1>1, <1>2 DEF CratesInv, CratesTypes, HeadSkipsNothing, ListIsCovered
  <2>4. QED
    BY <1>1, <1>2, <2>2, <2>3
       DEF CratesInv, ColdIsEmpty, CratesKnown, HeadSkipsNothing
<1>3. CASE crates_pc' = "poll" /\ UNCHANGED <<outgoing, next_head, fell_back>>
  BY <1>1, <1>3 DEF CratesInv, CratesTypes, CratesHeads, ColdIsEmpty, CratesKnown, ListIsCovered,
                    HeadSkipsNothing
<1>4. QED  BY <1>2, <1>3 DEF PollSummary

LEMMA CratesSendKeeps == ASSUME CratesInv, SendCrate PROVE CratesInv'
<1> DEFINE s == Head(outgoing)
<1>1. /\ crates_pc = "send" /\ outgoing # <<>> /\ outgoing' = Tail(outgoing)
      /\ crates_recent' = RecentCrate(crates_recent, s)
      /\ crates_sent' = crates_sent \cup (IF Contains(crates_recent, s) THEN {} ELSE {s})
      /\ UNCHANGED <<index_head, crates_saved, crates_warm, last_index_head, crates_pc, next_head,
                     crates_baseline, fell_back>>
  BY DEF SendCrate
<1>2. /\ s \in Nat /\ Tail(outgoing) \in Seq(Nat)
      /\ ToSet(outgoing) = {s} \cup ToSet(Tail(outgoing))
  BY <1>1, TailHas DEF CratesInv, CratesTypes
<1>3. Contains(crates_recent, s) => s \in ToSet(crates_recent)
  BY DEF Contains, ToSet
<1> HIDE DEF s
<1>4. /\ crates_recent' \in Seq(Nat)
      /\ ToSet(crates_recent') \subseteq ToSet(crates_recent) \cup {s}
  BY <1>1, <1>2, CrateWindowGrows DEF CratesInv, CratesTypes
<1>5. crates_warm
  BY <1>1 DEF CratesInv, ColdIsEmpty
<1>6. crates_sent \subseteq crates_sent' /\ s \in crates_sent' \cup 1..crates_baseline
  BY <1>1, <1>3 DEF CratesInv, CratesKnown
<1>7. \A r \in crates_sent' : r \in crates_sent \/ r = s
  BY <1>1
<1>8. s > crates_baseline \/ fell_back
  BY <1>1, <1>2 DEF CratesInv, ListIsCovered
<1>9. CratesTypes'
  BY <1>1, <1>2, <1>4 DEF CratesInv, CratesTypes, CratesHeads
<1>10. CratesKnown'
  BY <1>1, <1>4, <1>6 DEF CratesInv, CratesKnown
<1>11. HeadSkipsNothing'
  BY <1>1, <1>6, <1>7, <1>8 DEF CratesInv, HeadSkipsNothing
<1>12. ListIsCovered'
  <2>1. ASSUME NEW r \in crates_baseline + 1..next_head
        PROVE  r \in ToSet(outgoing') \cup crates_sent'
    <3>1. r \in ToSet(outgoing) \cup crates_sent
      BY <1>1 DEF CratesInv, ListIsCovered
    <3>2. r \notin 1..crates_baseline
      BY DEF CratesInv, CratesTypes
    <3>3. QED  BY <1>1, <1>2, <1>6, <3>1, <3>2
  <2>2. QED  BY <1>1, <1>2, <2>1 DEF CratesInv, ListIsCovered
<1>13. QED  BY <1>1, <1>5, <1>9, <1>10, <1>11, <1>12 DEF CratesInv, ColdIsEmpty

LEMMA CratesSaveKeeps == ASSUME CratesInv, SaveCrates PROVE CratesInv'
<1>1. /\ crates_pc = "send" /\ outgoing = <<>> /\ last_index_head' = next_head
      /\ crates_saved' = [warm |-> TRUE, head |-> next_head, keys |-> crates_recent]
      /\ crates_pc' = "poll"
      /\ UNCHANGED <<index_head, crates_warm, crates_recent, outgoing, next_head, crates_sent,
                     crates_baseline, fell_back>>
  BY DEF SaveCrates, cratesHistory
<1>2. crates_warm
  BY <1>1 DEF CratesInv, ColdIsEmpty
<1>3. CratesTypes'
  BY <1>1, <1>2 DEF CratesInv, CratesTypes, CratesHeads
<1>4. \A s \in crates_baseline + 1..next_head : s \in crates_sent
  BY <1>1, EmptyHas DEF CratesInv, ListIsCovered
<1>5. QED
  BY <1>1, <1>2, <1>3, <1>4
     DEF CratesInv, ColdIsEmpty, CratesKnown, ListIsCovered, HeadSkipsNothing

LEMMA CratesNextInv == CratesInv /\ [CratesNext]_cratesVars => CratesInv'
<1> SUFFICES ASSUME CratesInv, [CratesNext]_cratesVars PROVE CratesInv'
  OBVIOUS
<1>1. CASE BootstrapHead
  <2>1. ~crates_warm /\ crates_recent = <<>> /\ Warm(index_head, <<>>)
    BY <1>1 DEF BootstrapHead, CratesInv, ColdIsEmpty
  <2>2. QED  BY <2>1, CratesWarmKeeps, EmptyHas
<1>2. CASE BootstrapSummary
  <2> DEFINE keys == RecentCrates(crates_recent, Summary)
  <2>1. ~crates_warm /\ crates_recent = <<>> /\ Warm(NoHead, keys)
    BY <1>2 DEF BootstrapSummary, CratesInv, ColdIsEmpty
  <2>2. index_head \in Nat /\ crates_recent \in Seq(Nat)
    BY DEF CratesInv, CratesTypes
  <2>3. keys \in Seq(Nat) /\ ToSet(keys) \subseteq ToSet(crates_recent) \cup ToSet(Summary)
        /\ ToSet(Summary) \subseteq 1..index_head
    BY <2>2, SummaryHas, RecentCratesHas
  <2>4. ToSet(keys) \subseteq 1..index_head
    BY <2>1, <2>3, EmptyHas
  <2> HIDE DEF keys
  <2>5. QED  BY <2>1, <2>3, <2>4, CratesWarmKeeps
<1>3. CASE EndCooldown
  BY <1>3 DEF EndCooldown, cratesState, cratesHistory, CratesInv, CratesTypes, CratesHeads,
              ColdIsEmpty, CratesKnown, ListIsCovered, HeadSkipsNothing
<1>4. CASE RestartCrates
  <2>1. /\ crates_warm' = crates_saved.warm /\ last_index_head' = crates_saved.head
        /\ crates_recent' = crates_saved.keys
        /\ crates_pc' = "poll" /\ outgoing' = <<>> /\ next_head' = NoHead
        /\ UNCHANGED <<index_head, crates_saved, crates_sent, crates_baseline, fell_back>>
    BY <1>4 DEF RestartCrates, cratesHistory
  <2>2. CratesTypes'
    BY <2>1, EmptyHas DEF CratesInv, CratesTypes, CratesHeads
  <2>3. ColdIsEmpty'
    BY <2>1 DEF CratesInv, CratesTypes, ColdIsEmpty
  <2>4. QED
    BY <2>1, <2>2, <2>3 DEF CratesInv, CratesKnown, ListIsCovered, HeadSkipsNothing
<1>5. CASE UNCHANGED cratesVars
  BY <1>5 DEF cratesVars, cratesState, cratesLoop, cratesHistory, CratesInv, CratesTypes,
              CratesHeads, ColdIsEmpty, CratesKnown, ListIsCovered, HeadSkipsNothing
<1>6. QED
  BY <1>1, <1>2, <1>3, <1>4, <1>5, CratesPublishKeeps, CratesSyncKeeps, CratesSummaryKeeps,
     CratesSendKeeps, CratesSaveKeeps
     DEF CratesNext

\* A head in the state file of the crates.io source leaves no release behind
\* that was not sent, and a release older than the first boot is sent only
\* after a summary or a cut-off walk: for any depth of the shallow fetch, any
\* size of the summary and of the window, any mixture of the two ways to poll
\* and any number of crashes (crates_io.rs).
THEOREM CratesNothingSkipped == CratesSpec => []HeadSkipsNothing
<1>1. CratesInv => HeadSkipsNothing
  BY DEF CratesInv
<1>2. QED  BY <1>1, CratesInitInv, CratesNextInv, PTL DEF CratesSpec

-----------------------------------------------------------------------------
(* Collecting a graph.                                                     *)

\* A set of naturals has a least element.
LEMMA LeastNatural ==
    ASSUME NEW T \in SUBSET Nat, T # {}
    PROVE  \E x \in T : \A y \in T : x <= y
<1> DEFINE R == OpToRel(<, Nat)
<1>1. IsWellFoundedOn(R, Nat)
  BY NatLessThanWellFounded
<1>2. PICK x \in T : \A y \in T : ~ (<<y, x>> \in R)
  <2> HIDE DEF R
  <2>1. QED  BY <1>1, WFMin
<1>3. ASSUME NEW y \in T PROVE x <= y
  <2>1. ~(<<y, x>> \in R)
    BY <1>2
  <2>2. x \in Nat /\ y \in Nat
    OBVIOUS
  <2>3. ~(y < x)
    BY <2>1, <2>2 DEF OpToRel
  <2>4. QED  BY <2>2, <2>3
<1>4. QED  BY <1>3

\* Steps over a set of states, and a run of them from the first.
StepsOver(V, n) == [1..n -> [V -> V]]

IsRun(f, V, first, n, step) ==
    f \in [0..n -> V] /\ f[0] = first /\ \A i \in 1..n : f[i] = step[i][f[i - 1]]

\* Steps over a set, one after the other, lead somewhere.
LEMMA StepsExist ==
    ASSUME NEW V, NEW first, NEW n, NEW step, n \in Nat, step \in StepsOver(V, n), first \in V
    PROVE  \E f : IsRun(f, V, first, n, step)
<1> DEFINE Runs(f, m) == f[0] = first /\ \A i \in 1..m : f[i] = step[i][f[i - 1]]
           bad == {m \in 0..n : ~\E f \in [0..m -> V] : Runs(f, m)}
<1>1. SUFFICES ASSUME bad # {} PROVE FALSE
  <2>1. SUFFICES \E f \in [0..n -> V] : Runs(f, n)
    BY DEF IsRun
  <2> HIDE DEF Runs
  <2>2. n \in 0..n
    OBVIOUS
  <2>3. QED  BY <2>2
<1>2. PICK m \in bad : \A k \in bad : m <= k
  <2>1. bad \in SUBSET Nat
    OBVIOUS
  <2> HIDE DEF bad
  <2>2. QED  BY <1>1, <2>1, LeastNatural
<1>3. m \in 0..n /\ ~\E f \in [0..m -> V] : Runs(f, m)
  OBVIOUS
<1>4. CASE m = 0
  <2> DEFINE f == [i \in 0..0 |-> first]
  <2>1. f \in [0..m -> V] /\ Runs(f, m)
    BY <1>4
  <2> HIDE DEF f, Runs
  <2>2. QED  BY <1>3, <2>1
<1>5. CASE m # 0
  <2>1. m - 1 \in 0..n /\ ~(m <= m - 1) /\ m \in 1..n
    BY <1>3, <1>5
  <2>2. m - 1 \notin bad
    BY <1>2, <2>1
  <2>3. PICK f \in [0..(m - 1) -> V] : Runs(f, m - 1)
    BY <2>1, <2>2
  <2> DEFINE longer == [i \in 0..m |-> IF i = m THEN step[m][f[m - 1]] ELSE f[i]]
  <2>4. f[m - 1] \in V /\ step[m] \in [V -> V] /\ step[m][f[m - 1]] \in V
    <3>1. m - 1 \in 0..(m - 1)
      BY <2>1
    <3>2. f[m - 1] \in V
      BY <3>1
    <3>3. step[m] \in [V -> V]
      BY <2>1 DEF StepsOver
    <3>4. QED  BY <3>2, <3>3
  <2>5. longer \in [0..m -> V]
    BY <2>1, <2>4
  <2>6. longer[0] = first
    BY SMTT(40), <1>5, <2>1, <2>3
  <2>7. ASSUME NEW i \in 1..m PROVE longer[i] = step[i][longer[i - 1]]
    <3>1. i \in 0..m /\ i - 1 \in 0..m /\ i - 1 # m
      BY <2>1
    <3>2. longer[i - 1] = f[i - 1]
      BY <3>1
    <3>3. CASE i = m
      BY <3>1, <3>2, <3>3
    <3>4. CASE i # m
      <4>1. i \in 1..(m - 1)
        BY <2>1, <3>4
      <4>2. f[i] = step[i][f[i - 1]]
        BY <2>3, <4>1
      <4>3. QED  BY <3>1, <3>2, <3>4, <4>2
    <3>5. QED  BY <3>3, <3>4
  <2>8. Runs(longer, m)
    BY <2>6, <2>7
  <2> HIDE DEF longer, Runs
  <2>9. QED  BY <1>3, <2>5, <2>8
<1>6. QED  BY <1>4, <1>5

\* What a set leads to in one step.
Led(edges, R) == {e[2] : e \in {x \in edges : x[1] \in R}}

IsReach(f, start, edges, n) ==
    f = [i \in 0..n |-> IF i = 0 THEN start ELSE f[i - 1] \cup Led(edges, f[i - 1])]

\* There is such a function, however far it goes.
LEMMA ReachExists ==
    ASSUME NEW start, NEW edges, NEW n \in Nat
    PROVE  \E f : IsReach(f, start, edges, n)
<1> DEFINE V == SUBSET (start \cup {e[2] : e \in edges})
           grow == [v \in V |-> v \cup Led(edges, v)]
           step == [i \in 1..n |-> grow]
<1>1. start \in V
  OBVIOUS
<1>2. grow \in [V -> V]
  BY DEF Led
<1>3. step \in [1..n -> [V -> V]]
  BY <1>2
<1>4. PICK f \in [0..n -> V] : f[0] = start /\ \A i \in 1..n : f[i] = step[i][f[i - 1]]
  <2> HIDE DEF V, step
  <2>1. step \in StepsOver(V, n)
    BY <1>3 DEF StepsOver
  <2>2. PICK f : IsRun(f, V, start, n, step)
    BY <1>1, <2>1, StepsExist
  <2>3. QED  BY <2>2 DEF IsRun
<1>5. ASSUME NEW i \in 0..n
      PROVE  f[i] = IF i = 0 THEN start ELSE f[i - 1] \cup Led(edges, f[i - 1])
  <2>1. CASE i = 0
    BY <1>4, <2>1
  <2>2. CASE i # 0
    <3>1. i \in 1..n /\ i - 1 \in 0..n
      BY <2>2
    <3>2. f[i] = step[i][f[i - 1]]
      BY <1>4, <3>1
    <3>3. f[i - 1] \in V
      BY <3>1
    <3>4. step[i] = grow
      BY <3>1
    <3> HIDE DEF V
    <3>5. QED  BY <2>2, <3>2, <3>3, <3>4
  <2>3. QED  BY <2>1, <2>2
<1>6. f = [i \in 0..n |-> f[i]]
  OBVIOUS
<1>7. IsReach(f, start, edges, n)
  BY <1>5, <1>6 DEF IsReach
<1>8. QED  BY <1>7

\* However far two of them go, they agree.
LEMMA ReachUnique ==
    ASSUME NEW start, NEW edges, NEW n \in Nat, NEW m \in Nat, NEW f, NEW g,
           IsReach(f, start, edges, n), IsReach(g, start, edges, m), NEW k \in Nat, k <= n, k <= m
    PROVE  f[k] = g[k]
<1> DEFINE bad == {i \in Nat : i <= n /\ i <= m /\ f[i] # g[i]}
<1>1. SUFFICES ASSUME bad # {} PROVE FALSE
  OBVIOUS
<1>2. PICK i \in bad : \A j \in bad : i <= j
  <2>1. bad \in SUBSET Nat
    OBVIOUS
  <2> HIDE DEF bad
  <2>2. QED  BY <1>1, <2>1, LeastNatural
<1>3. i \in 0..n /\ i \in 0..m /\ f[i] # g[i]
  OBVIOUS
<1>4. /\ f[i] = IF i = 0 THEN start ELSE f[i - 1] \cup Led(edges, f[i - 1])
      /\ g[i] = IF i = 0 THEN start ELSE g[i - 1] \cup Led(edges, g[i - 1])
  BY <1>3 DEF IsReach
<1>5. i # 0
  BY <1>3, <1>4
<1>6. i - 1 \in Nat /\ i - 1 <= n /\ i - 1 <= m /\ ~(i <= i - 1)
  BY <1>3, <1>5
<1>7. f[i - 1] = g[i - 1]
  BY <1>2, <1>6
<1>8. QED  BY <1>3, <1>4, <1>7

\* What is within one step more.
LEMMA WithinIs ==
    ASSUME NEW start, NEW edges
    PROVE  /\ Within(start, edges, 0) = start
           /\ \A n \in Nat : Within(start, edges, n + 1) =
                  Within(start, edges, n) \cup Led(edges, Within(start, edges, n))
<1> DEFINE Reach(n) == CHOOSE f : IsReach(f, start, edges, n)
<1>1. ASSUME NEW n \in Nat
      PROVE  /\ IsReach(Reach(n), start, edges, n)
             /\ Within(start, edges, n) = Reach(n)[n]
  <2>1. IsReach(Reach(n), start, edges, n)
    BY ReachExists
  <2>2. Within(start, edges, n) = Reach(n)[n]
    BY DEF Within, IsReach, Led
  <2>3. QED  BY <2>1, <2>2
<1>2. Within(start, edges, 0) = start
  <2>1. 0 \in Nat /\ 0 \in 0..0
    OBVIOUS
  <2>2. IsReach(Reach(0), start, edges, 0) /\ Within(start, edges, 0) = Reach(0)[0]
    BY <1>1, <2>1
  <2> HIDE DEF Reach
  <2>3. QED  BY <2>1, <2>2 DEF IsReach
<1>3. ASSUME NEW n \in Nat
      PROVE  Within(start, edges, n + 1) = Within(start, edges, n) \cup Led(edges, Within(start, edges, n))
  <2>1. n + 1 \in Nat /\ n <= n + 1 /\ n <= n /\ n + 1 \in 0..(n + 1) /\ n + 1 # 0 /\ (n + 1) - 1 = n
    OBVIOUS
  <2>2. /\ IsReach(Reach(n), start, edges, n) /\ Within(start, edges, n) = Reach(n)[n]
        /\ IsReach(Reach(n + 1), start, edges, n + 1)
        /\ Within(start, edges, n + 1) = Reach(n + 1)[n + 1]
    BY <1>1, <2>1
  <2> HIDE DEF Reach
  <2>3. Reach(n)[n] = Reach(n + 1)[n]
    BY <2>1, <2>2, ReachUnique
  <2>4. Reach(n + 1)[n + 1] = Reach(n + 1)[n] \cup Led(edges, Reach(n + 1)[n])
    BY <2>1, <2>2 DEF IsReach
  <2>5. QED  BY <2>2, <2>3, <2>4
<1>4. QED  BY <1>2, <1>3

\* The same for one number of steps.
LEMMA WithinStart == ASSUME NEW start, NEW edges PROVE Within(start, edges, 0) = start
BY WithinIs

LEMMA WithinNext ==
    ASSUME NEW start, NEW edges, NEW n, n \in Nat, NEW m, m = n + 1
    PROVE  Within(start, edges, m) = Within(start, edges, n) \cup Led(edges, Within(start, edges, n))
<1>1. \A k \in Nat : Within(start, edges, k + 1) =
                         Within(start, edges, k) \cup Led(edges, Within(start, edges, k))
  BY WithinIs
<1>2. QED  BY <1>1

\* What is near is within more steps, too.
LEMMA WithinGrows ==
    ASSUME NEW start, NEW edges, NEW n \in Nat, NEW m \in Nat, n <= m
    PROVE  Within(start, edges, n) \subseteq Within(start, edges, m)
<1> DEFINE bad == {i \in Nat : n <= i /\ ~(Within(start, edges, n) \subseteq Within(start, edges, i))}
<1>1. SUFFICES ASSUME bad # {} PROVE FALSE
  OBVIOUS
<1>2. PICK i \in bad : \A j \in bad : i <= j
  <2>1. bad \in SUBSET Nat
    OBVIOUS
  <2> HIDE DEF bad
  <2>2. QED  BY <1>1, <2>1, LeastNatural
<1>3. i \in Nat /\ n <= i /\ i # n /\ ~(Within(start, edges, n) \subseteq Within(start, edges, i))
  OBVIOUS
<1>4. i - 1 \in Nat /\ n <= i - 1 /\ ~(i <= i - 1) /\ (i - 1) + 1 = i
  BY <1>3
<1>5. Within(start, edges, n) \subseteq Within(start, edges, i - 1)
  BY <1>2, <1>4
<1>6. Within(start, edges, i - 1) \subseteq Within(start, edges, (i - 1) + 1)
  BY <1>4, WithinIs
<1>7. QED  BY <1>3, <1>4, <1>5, <1>6

\* A set that leads nowhere else has all there is.
LEMMA WithinClosed ==
    ASSUME NEW start, NEW edges, NEW R, start \subseteq R, Led(edges, R) \subseteq R, NEW n \in Nat
    PROVE  Within(start, edges, n) \subseteq R
<1> DEFINE bad == {i \in Nat : ~(Within(start, edges, i) \subseteq R)}
<1>1. SUFFICES ASSUME bad # {} PROVE FALSE
  OBVIOUS
<1>2. PICK i \in bad : \A j \in bad : i <= j
  <2>1. bad \in SUBSET Nat
    OBVIOUS
  <2> HIDE DEF bad
  <2>2. QED  BY <1>1, <2>1, LeastNatural
<1>3. i \in Nat /\ ~(Within(start, edges, i) \subseteq R)
  OBVIOUS
<1>4. i # 0
  BY <1>3, WithinIs
<1>5. i - 1 \in Nat /\ ~(i <= i - 1) /\ (i - 1) + 1 = i
  BY <1>3, <1>4
<1>6. Within(start, edges, i - 1) \subseteq R
  BY <1>2, <1>5
<1>7. Within(start, edges, (i - 1) + 1) =
          Within(start, edges, i - 1) \cup Led(edges, Within(start, edges, i - 1))
  BY <1>5, WithinIs
<1>8. Led(edges, Within(start, edges, i - 1)) \subseteq Led(edges, R)
  BY <1>6 DEF Led
<1>9. QED  BY <1>3, <1>5, <1>6, <1>7, <1>8

\* All that is nearer than n steps is in R; and no edge starts in R.
Inside(start, edges, n, R) == \A k \in Nat : k < n => Within(start, edges, k) \subseteq R
Outside(edges, R) == \A e \in edges : e[1] \notin R

\* Edges from farther away than that change nothing of it.
LEMMA WithinKept ==
    ASSUME NEW start, NEW edges, NEW more, edges \subseteq more, NEW n \in Nat, NEW R,
           Inside(start, edges, n, R), Outside(more \ edges, R)
    PROVE  Within(start, more, n) = Within(start, edges, n)
<1> DEFINE bad == {i \in Nat : i <= n /\ Within(start, more, i) # Within(start, edges, i)}
<1>1. SUFFICES ASSUME bad # {} PROVE FALSE
  OBVIOUS
<1>2. PICK i \in bad : \A j \in bad : i <= j
  <2>1. bad \in SUBSET Nat
    OBVIOUS
  <2> HIDE DEF bad
  <2>2. QED  BY <1>1, <2>1, LeastNatural
<1>3. i \in Nat /\ i <= n /\ Within(start, more, i) # Within(start, edges, i)
  OBVIOUS
<1>4. i # 0
  BY <1>3, WithinIs
<1>5. i - 1 \in Nat /\ i - 1 < n /\ i - 1 <= n /\ ~(i <= i - 1) /\ (i - 1) + 1 = i
  BY <1>3, <1>4
<1>6. Within(start, more, i - 1) = Within(start, edges, i - 1)
  BY <1>2, <1>5
<1>7. Led(more, Within(start, edges, i - 1)) = Led(edges, Within(start, edges, i - 1))
  <2>1. Within(start, edges, i - 1) \subseteq R
    BY <1>5 DEF Inside
  <2>2. \A e \in more : e[1] \in Within(start, edges, i - 1) => e \in edges
    BY <2>1 DEF Outside
  <2>3. QED  BY <2>2 DEF Led
<1>8. Within(start, edges, (i - 1) + 1) =
          Within(start, edges, i - 1) \cup Led(edges, Within(start, edges, i - 1))
  BY <1>5, WithinIs
<1>9. Within(start, more, (i - 1) + 1) =
          Within(start, more, i - 1) \cup Led(more, Within(start, more, i - 1))
  BY SMTT(40), <1>5, WithinIs
<1>10. QED  BY <1>3, <1>5, <1>6, <1>7, <1>8, <1>9

-----------------------------------------------------------------------------
(* The queues of a level.                                                  *)

\* The elements of a longer sequence.
LEMMA SetOfAppended ==
    ASSUME NEW S, NEW s \in Seq(S), NEW e \in S
    PROVE  Append(s, e) \in Seq(S) /\ ToSet(Append(s, e)) = ToSet(s) \cup {e}
<1>1. /\ Append(s, e) \in Seq(S) /\ Len(s) \in Nat /\ DOMAIN s = 1..Len(s)
      /\ DOMAIN Append(s, e) = 1..(Len(s) + 1)
      /\ \A i \in 1..(Len(s) + 1) : Append(s, e)[i] = IF i = Len(s) + 1 THEN e ELSE s[i]
  BY SMTT(40)
<1>2. PICK n \in Nat : n = Len(s)
  BY <1>1
<1> DEFINE longer == Append(s, e)
<1>3. \A i \in 1..n : i \in 1..(n + 1) /\ i # n + 1
  OBVIOUS
<1>4. n + 1 \in 1..(n + 1)
  OBVIOUS
<1>5. \A i \in 1..(n + 1) : i # n + 1 => i \in 1..n
  OBVIOUS
<1>6. ToSet(longer) = ToSet(s) \cup {e}
  BY <1>1, <1>2, <1>3, <1>4, <1>5 DEF ToSet
<1>7. QED  BY <1>1, <1>2, <1>6

\* The elements of two sequences, joined.
LEMMA SetOfJoined ==
    ASSUME NEW S, NEW s \in Seq(S), NEW t \in Seq(S)
    PROVE  s \o t \in Seq(S) /\ ToSet(s \o t) = ToSet(s) \cup ToSet(t)
<1>1. PICK n \in Nat, m \in Nat : n = Len(s) /\ m = Len(t)
  OBVIOUS
<1>2. PICK joined : joined = s \o t
  OBVIOUS
<1>3. /\ joined \in Seq(S) /\ DOMAIN s = 1..n /\ DOMAIN t = 1..m /\ DOMAIN joined = 1..(n + m)
      /\ \A i \in 1..(n + m) : joined[i] = IF i <= n THEN s[i] ELSE t[i - n]
  BY <1>1, <1>2
<1>4. ASSUME NEW e \in ToSet(joined) PROVE e \in ToSet(s) \cup ToSet(t)
  <2>1. PICK i \in 1..(n + m) : e = joined[i]
    BY <1>3 DEF ToSet
  <2>2. CASE i <= n
    <3>1. i \in 1..n
      BY <2>2
    <3>2. QED  BY <1>3, <2>1, <2>2, <3>1 DEF ToSet
  <2>3. CASE ~(i <= n)
    <3>1. i - n \in 1..m
      BY <2>3
    <3>2. QED  BY <1>3, <2>1, <2>3, <3>1 DEF ToSet
  <2>4. QED  BY <2>2, <2>3
<1>5. ASSUME NEW i \in 1..n PROVE s[i] \in ToSet(joined)
  <2>1. i \in 1..(n + m) /\ i <= n
    OBVIOUS
  <2>2. QED  BY <1>3, <2>1 DEF ToSet
<1>6. ASSUME NEW i \in 1..m PROVE t[i] \in ToSet(joined)
  <2>1. i + n \in 1..(n + m) /\ ~(i + n <= n) /\ (i + n) - n = i
    OBVIOUS
  <2>2. joined[i + n] = t[i]
    BY <1>3, <2>1
  <2>3. QED  BY <1>3, <2>1, <2>2 DEF ToSet
<1>7. ToSet(joined) = ToSet(s) \cup ToSet(t)
  <2>1. ToSet(s) \subseteq ToSet(joined) /\ ToSet(t) \subseteq ToSet(joined)
    BY <1>3, <1>5, <1>6 DEF ToSet
  <2>2. QED  BY <1>4, <2>1
<1>8. QED  BY <1>2, <1>3, <1>7

\* No element occurs twice.
Distinct(s) == \A i, j \in DOMAIN s : s[i] = s[j] => i = j

\* What is chosen of the first n of a queue.
Chosen(s, n, queue, seen, room) ==
    /\ s \in Seq(Registered) /\ Distinct(s) /\ Len(s) <= room
    /\ ToSet(s) \cap seen = {} /\ ToSet(s) \subseteq {queue[i] : i \in 1..n}
    /\ Len(s) = room \/ {queue[i] : i \in 1..n} \subseteq seen \cup ToSet(s)

\* One package more of the queue (the loop over the frontier, collector.rs).
LEMMA ChosenStep ==
    ASSUME NEW s, NEW n \in Nat, NEW queue \in Seq(Registered), NEW seen, NEW room \in Nat,
           n < Len(queue), Chosen(s, n, queue, seen, room)
    PROVE  Chosen(IF queue[n + 1] \in seen \cup ToSet(s) \/ Len(s) >= room THEN s
                  ELSE Append(s, queue[n + 1]), n + 1, queue, seen, room)
<1>1. s \in Seq(Registered) /\ Distinct(s) /\ Len(s) \in Nat /\ DOMAIN s = 1..Len(s)
  BY DEF Chosen
<1>2. PICK p : p = queue[n + 1]
  OBVIOUS
<1>3. p \in Registered
  <2>1. n + 1 \in 1..Len(queue)
    OBVIOUS
  <2>2. QED  BY <1>2, <2>1
<1>4. PICK before : before = {queue[i] : i \in 1..n}
  OBVIOUS
<1>5. {queue[i] : i \in 1..(n + 1)} = before \cup {p}
  <2>1. \A i \in 1..(n + 1) : i \in 1..n \/ i = n + 1
    OBVIOUS
  <2>2. 1..n \subseteq 1..(n + 1) /\ n + 1 \in 1..(n + 1)
    OBVIOUS
  <2>3. QED  BY <1>2, <1>4, <2>1, <2>2
<1>6. CASE p \in seen \cup ToSet(s) \/ Len(s) >= room
  <2>1. Len(s) = room \/ before \cup {p} \subseteq seen \cup ToSet(s)
    BY <1>1, <1>4, <1>6 DEF Chosen
  <2>2. ToSet(s) \subseteq before \cup {p}
    BY <1>4 DEF Chosen
  <2>3. Chosen(s, n + 1, queue, seen, room)
    BY <1>5, <2>1, <2>2 DEF Chosen
  <2>4. QED  BY <1>2, <1>6, <2>3
<1>7. CASE ~(p \in seen \cup ToSet(s) \/ Len(s) >= room)
  <2>1. PICK longer : longer = Append(s, p)
    OBVIOUS
  <2>2. longer \in Seq(Registered) /\ ToSet(longer) = ToSet(s) \cup {p}
    BY <1>1, <1>3, <2>1, SetOfAppended
  <2>3. /\ Len(longer) = Len(s) + 1 /\ DOMAIN longer = 1..(Len(s) + 1)
        /\ \A i \in 1..(Len(s) + 1) : longer[i] = IF i = Len(s) + 1 THEN p ELSE s[i]
    BY <1>1, <1>3, <2>1
  <2>4. Distinct(longer)
    <3>1. ASSUME NEW i \in 1..(Len(s) + 1), NEW j \in 1..(Len(s) + 1), longer[i] = longer[j]
          PROVE  i = j
      <4>1. ASSUME NEW k \in 1..(Len(s) + 1), k # Len(s) + 1
            PROVE  k \in 1..Len(s) /\ longer[k] = s[k] /\ s[k] # p
        <5>1. k \in 1..Len(s)
          BY <1>1, <4>1
        <5>2. s[k] \in ToSet(s)
          BY <1>1, <5>1 DEF ToSet
        <5>3. QED  BY <1>7, <2>3, <4>1, <5>1, <5>2
      <4>2. CASE i = Len(s) + 1 /\ j = Len(s) + 1
        BY <4>2
      <4>3. CASE i = Len(s) + 1 /\ j # Len(s) + 1
        BY <2>3, <3>1, <4>1, <4>3
      <4>4. CASE i # Len(s) + 1 /\ j = Len(s) + 1
        BY <2>3, <3>1, <4>1, <4>4
      <4>5. CASE i # Len(s) + 1 /\ j # Len(s) + 1
        BY <1>1, <3>1, <4>1, <4>5 DEF Distinct
      <4>6. QED  BY <4>2, <4>3, <4>4, <4>5
    <3>2. QED  BY <2>3, <3>1 DEF Distinct
  <2>5. ASSUME Len(s) = room PROVE FALSE
    <3>1. Len(s) >= room
      BY <2>5
    <3>2. QED  BY <1>7, <3>1
  <2>6. before \subseteq seen \cup ToSet(s) /\ ToSet(s) \subseteq before /\ ToSet(s) \cap seen = {}
    BY <1>4, <2>5 DEF Chosen
  <2>7. Len(longer) <= room
    BY <1>1, <1>7, <2>3
  <2>8. Chosen(longer, n + 1, queue, seen, room)
    <3>1. ToSet(longer) \cap seen = {}
      BY <1>7, <2>2, <2>6
    <3>2. ToSet(longer) \subseteq before \cup {p} /\ before \cup {p} \subseteq seen \cup ToSet(longer)
      BY <2>2, <2>6
    <3>3. QED  BY <1>5, <2>2, <2>4, <2>7, <3>1, <3>2 DEF Chosen
  <2>9. QED  BY <1>2, <1>7, <2>1, <2>8
<1>8. QED  BY <1>6, <1>7

\* Of none of the queue, nothing is chosen.
LEMMA ChosenStart ==
    ASSUME NEW queue, NEW seen, NEW room \in Nat
    PROVE  Chosen(<<>>, 0, queue, seen, room)
<1>1. ToSet(<<>>) = {} /\ Len(<<>>) = 0 /\ DOMAIN <<>> = {} /\ 1..0 = {} /\ <<>> \in Seq(Registered)
  BY DEF ToSet
<1>2. QED  BY <1>1 DEF Chosen, Distinct

\* The schedule of a level: all that is new, or as much as there is room for.
LEMMA ScheduledIs ==
    ASSUME NEW queue \in Seq(Registered), NEW seen, RemainingCapacity(seen) \in Nat
    PROVE  Chosen(ScheduledOf(queue, seen), Len(queue), queue, seen, RemainingCapacity(seen))
<1>1. PICK room \in Nat : room = RemainingCapacity(seen)
  OBVIOUS
<1>2. PICK n \in Nat : n = Len(queue)
  OBVIOUS
<1> DEFINE Next1(s, i) == IF queue[i] \in seen \cup ToSet(s) \/ Len(s) >= room THEN s
                          ELSE Append(s, queue[i])
           V == Seq(Registered)
           step == [i \in 1..n |-> [s \in V |-> Next1(s, i)]]
           Is(f) == f = [i \in 0..n |-> IF i = 0 THEN <<>> ELSE Next1(f[i - 1], i)]
<1>3. step \in [1..n -> [V -> V]]
  <2>1. ASSUME NEW i \in 1..n, NEW s \in V PROVE Next1(s, i) \in V
    <3>1. queue[i] \in Registered
      BY <1>2
    <3>2. Append(s, queue[i]) \in V
      BY <3>1
    <3>3. QED  BY <3>2
  <2> HIDE DEF V, Next1
  <2>2. QED  BY <2>1
<1>4. PICK f \in [0..n -> V] : f[0] = <<>> /\ \A i \in 1..n : f[i] = step[i][f[i - 1]]
  <2>1. PICK none : none = <<>>
    OBVIOUS
  <2>2. none \in V
    BY <2>1
  <2> HIDE DEF V, step, Next1, Is
  <2>3. \E f \in [0..n -> V] : f[0] = none /\ \A i \in 1..n : f[i] = step[i][f[i - 1]]
    <3>1. step \in StepsOver(V, n)
      BY <1>3 DEF StepsOver
    <3>2. PICK f : IsRun(f, V, none, n, step)
      BY <2>2, <3>1, StepsExist
    <3>3. QED  BY <3>2 DEF IsRun
  <2>4. QED  BY <2>1, <2>3
<1>5. ASSUME NEW i \in 0..n
      PROVE  f[i] = IF i = 0 THEN <<>> ELSE Next1(f[i - 1], i)
  <2>1. CASE i = 0
    BY <1>4, <2>1
  <2>2. CASE i # 0
    <3>1. i \in 1..n /\ i - 1 \in 0..n
      BY <2>2
    <3>2. f[i] = step[i][f[i - 1]]
      BY <1>4, <3>1
    <3>3. f[i - 1] \in V
      BY <3>1
    <3> HIDE DEF V, Next1
    <3>4. step[i] = [s \in V |-> Next1(s, i)]
      BY <3>1
    <3>5. QED  BY <2>2, <3>2, <3>3, <3>4
  <2>3. QED  BY <2>1, <2>2
<1>6. Is(f)
  <2>1. f = [i \in 0..n |-> f[i]]
    OBVIOUS
  <2> HIDE DEF Next1
  <2>2. QED  BY <1>5, <2>1
<1> DEFINE g == CHOOSE h : Is(h)
<1>7. Is(g)
  <2> HIDE DEF Is
  <2>1. QED  BY <1>6
<1>8. ScheduledOf(queue, seen) = g[n]
  BY <1>1, <1>2 DEF ScheduledOf
<1>9. \A i \in 0..n : g[i] = IF i = 0 THEN <<>> ELSE Next1(g[i - 1], i)
  <2> HIDE DEF g, Next1
  <2>1. QED  BY <1>7
<1> HIDE DEF g
<1> DEFINE bad == {i \in 0..n : ~Chosen(g[i], i, queue, seen, room)}
<1>10. ASSUME bad # {} PROVE FALSE
  <2>1. PICK i \in bad : \A j \in bad : i <= j
    <3>1. bad \in SUBSET Nat
      OBVIOUS
    <3> HIDE DEF bad
    <3>2. QED  BY <1>10, <3>1, LeastNatural
  <2>2. i \in 0..n /\ ~Chosen(g[i], i, queue, seen, room)
    OBVIOUS
  <2>3. CASE i = 0
    <3>1. g[0] = <<>>
      BY <1>9, <2>2, <2>3
    <3>2. QED  BY <2>2, <2>3, <3>1, ChosenStart
  <2>4. CASE i # 0
    <3>1. i - 1 \in 0..n /\ ~(i <= i - 1) /\ i - 1 \in Nat /\ i - 1 < Len(queue) /\ (i - 1) + 1 = i
      BY <1>2, <2>2, <2>4
    <3>2. Chosen(g[i - 1], i - 1, queue, seen, room)
      BY <2>1, <3>1
    <3>3. PICK s : s = g[i - 1]
      OBVIOUS
    <3>4. Chosen(IF queue[(i - 1) + 1] \in seen \cup ToSet(s) \/ Len(s) >= room THEN s
                  ELSE Append(s, queue[(i - 1) + 1]), (i - 1) + 1, queue, seen, room)
      BY <3>1, <3>2, <3>3, ChosenStep
    <3>5. g[i] = Next1(s, i)
      BY <1>9, <2>2, <2>4, <3>3
    <3>6. QED  BY <2>2, <3>1, <3>4, <3>5
  <2>5. QED  BY <2>3, <2>4
<1>11. n \in 0..n
  OBVIOUS
<1>12. Chosen(g[n], n, queue, seen, room)
  BY <1>10, <1>11
<1>13. QED  BY <1>1, <1>2, <1>8, <1>12

-----------------------------------------------------------------------------

\* What a fetch can answer, and an answer.
AnyNode == [found : {TRUE}, dependencies : SUBSET Registered, popularity : {{}},
          repository : SUBSET Registered, external : BOOLEAN]

NodeAnswers == [package : Registered, node : AnyNode \cup {NoNode}]

\* What an answer adds to the next frontier.
Offers(answer) ==
    IF ~answer.node.found \/ collect_level >= MaxDepth THEN {}
    ELSE answer.node.dependencies \ seen_packages

\* A node that was not found is NoNode.
LEMMA NodeIs ==
    ASSUME NEW answer \in NodeAnswers
    PROVE  /\ answer.package \in Registered /\ answer.node.found \in BOOLEAN
           /\ answer.node.found => answer.node.dependencies \in SUBSET Registered
<1>1. PICK package \in Registered, node \in AnyNode \cup {NoNode} :
          answer = [package |-> package, node |-> node]
  BY DEF NodeAnswers
<1>2. answer.package = package /\ answer.node = node
  BY <1>1
<1>3. CASE node = NoNode
  <2>1. node.found = FALSE
    BY <1>3 DEF NoNode
  <2>2. QED  BY <1>2, <2>1
<1>4. CASE node \in AnyNode
  <2>1. node.found = TRUE /\ node.dependencies \in SUBSET Registered
    BY <1>4 DEF AnyNode
  <2>2. QED  BY <1>2, <2>1
<1>5. QED  BY <1>3, <1>4

\* What is discovered is what the answer offers, in some order.
LEMMA DiscoveredIs ==
    ASSUME NEW answer \in NodeAnswers, NEW d \in Discovered(answer)
    PROVE  d \in Seq(Registered) /\ ToSet(d) = Offers(answer)
<1>1. CASE ~answer.node.found \/ collect_level >= MaxDepth
  <2>1. d = <<>>
    BY <1>1 DEF Discovered
  <2>2. d \in Seq(Registered) /\ ToSet(d) = {}
    BY <2>1 DEF ToSet
  <2>3. QED  BY <1>1, <2>2 DEF Offers
<1>2. CASE ~(~answer.node.found \/ collect_level >= MaxDepth)
  <2> DEFINE new == answer.node.dependencies \ seen_packages
  <2>1. new \in SUBSET Registered
    BY <1>2, NodeIs
  <2>2. Cardinality(new) \in Nat
    BY <2>1, CollectorAssumption, FS_Subset, FS_CardinalityType
  <2>3. d \in {s \in [1..Cardinality(new) -> new] : ToSet(s) = new}
    BY <1>2 DEF Discovered
  <2> HIDE DEF new
  <2>4. d \in Seq(Registered)
    BY <2>1, <2>2, <2>3
  <2>5. ToSet(d) = new
    BY <2>3
  <2>6. Offers(answer) = new
    BY <1>2 DEF Offers, new
  <2>7. QED  BY <2>4, <2>5, <2>6
<1>3. QED  BY <1>1, <1>2

\* Frontiers that hold what the first n answers offer.
Fronts(queues, n) ==
    /\ queues \in SUBSET Seq(Registered)
    /\ \A q \in queues : ToSet(q) = UNION {Offers(fetch_answers[j]) : j \in 1..n}

Joined(queues, answer) == {q \o d : q \in queues, d \in Discovered(answer)}

\* What is joined is a queue and an order of what an answer offers.
LEMMA JoinedIs ==
    ASSUME NEW queues, NEW answer, NEW l \in Joined(queues, answer)
    PROVE  \E q \in queues : \E d \in Discovered(answer) : l = q \o d
BY DEF Joined

\* What is joined consists of packages.
LEMMA JoinedOver ==
    ASSUME NEW queues \in SUBSET Seq(Registered), NEW answer \in NodeAnswers
    PROVE  Joined(queues, answer) \in SUBSET Seq(Registered)
<1>1. ASSUME NEW l \in Joined(queues, answer) PROVE l \in Seq(Registered)
  <2>1. PICK q \in queues : \E d \in Discovered(answer) : l = q \o d
    BY JoinedIs
  <2>2. PICK d \in Discovered(answer) : l = q \o d
    BY <2>1
  <2>3. d \in Seq(Registered) /\ q \in Seq(Registered)
    BY DiscoveredIs
  <2>4. QED  BY <2>2, <2>3, SetOfJoined
<1>2. QED  BY <1>1

\* One answer more: what it offers is added to each queue.
LEMMA FrontsStep ==
    ASSUME NEW queues, NEW n \in Nat, NEW answer, answer = fetch_answers[n + 1],
           fetch_answers \in Seq(NodeAnswers), n < Len(fetch_answers), Fronts(queues, n)
    PROVE  Fronts(Joined(queues, answer), n + 1)
<1>1. answer \in NodeAnswers
  <2>1. n + 1 \in 1..Len(fetch_answers)
    OBVIOUS
  <2>2. QED  BY <2>1
<1>2. PICK before : before = UNION {Offers(fetch_answers[j]) : j \in 1..n}
  OBVIOUS
<1>3. UNION {Offers(fetch_answers[j]) : j \in 1..(n + 1)} = before \cup Offers(answer)
  <2>1. \A j \in 1..(n + 1) : j \in 1..n \/ j = n + 1
    OBVIOUS
  <2>2. 1..n \subseteq 1..(n + 1) /\ n + 1 \in 1..(n + 1)
    OBVIOUS
  <2>3. QED  BY <1>1, <1>2, <2>1, <2>2
<1>4. ASSUME NEW q \in queues, NEW d \in Discovered(answer)
      PROVE  q \o d \in Seq(Registered) /\ ToSet(q \o d) = before \cup Offers(answer)
  <2>1. q \in Seq(Registered) /\ ToSet(q) = before
    BY <1>2 DEF Fronts
  <2>2. d \in Seq(Registered) /\ ToSet(d) = Offers(answer)
    BY <1>1, DiscoveredIs
  <2>3. q \o d \in Seq(Registered) /\ ToSet(q \o d) = ToSet(q) \cup ToSet(d)
    BY <2>1, <2>2, SetOfJoined
  <2>4. QED  BY <2>1, <2>2, <2>3
<1>5. PICK longer : longer = Joined(queues, answer)
  OBVIOUS
<1>6. ASSUME NEW l \in longer
      PROVE  l \in Seq(Registered) /\ ToSet(l) = before \cup Offers(answer)
  <2>1. PICK q \in queues : \E d \in Discovered(answer) : l = q \o d
    BY <1>5, JoinedIs
  <2>2. PICK d \in Discovered(answer) : l = q \o d
    BY <2>1
  <2>3. QED  BY <1>4, <2>2
<1>7. Fronts(longer, n + 1)
  BY <1>3, <1>6 DEF Fronts
<1>8. QED  BY <1>5, <1>7

\* The next frontier holds what the answers offer, whatever its order is.
LEMMA FrontierIs ==
    ASSUME fetch_answers \in Seq(NodeAnswers), NEW queue \in NextFrontiers
    PROVE  /\ queue \in Seq(Registered)
           /\ ToSet(queue) = UNION {Offers(fetch_answers[j]) : j \in 1..Len(fetch_answers)}
<1>1. PICK n \in Nat : n = Len(fetch_answers)
  OBVIOUS
<1> DEFINE Longer(qs, i) == Joined(qs, fetch_answers[i])
           V == SUBSET Seq(Registered)
           step == [i \in 1..n |-> [qs \in V |-> Longer(qs, i)]]
           Is(f) == f = [i \in 0..n |-> IF i = 0 THEN {<<>>} ELSE Longer(f[i - 1], i)]
<1>2. step \in StepsOver(V, n)
  <2>1. ASSUME NEW i \in 1..n, NEW qs \in V PROVE Longer(qs, i) \in V
    <3>1. fetch_answers[i] \in NodeAnswers
      BY <1>1
    <3>2. QED  BY <3>1, JoinedOver
  <2> HIDE DEF V, Longer
  <2>2. QED  BY <2>1 DEF StepsOver
<1>3. PICK f : IsRun(f, V, {<<>>}, n, step)
  <2>1. PICK none : none = {<<>>}
    OBVIOUS
  <2>2. none \in V
    BY <2>1
  <2> HIDE DEF V, step
  <2>3. \E f : IsRun(f, V, none, n, step)
    BY <1>2, <2>2, StepsExist
  <2>4. QED  BY <2>1, <2>3
<1>4. ASSUME NEW i \in 0..n
      PROVE  f[i] = IF i = 0 THEN {<<>>} ELSE Longer(f[i - 1], i)
  <2>1. CASE i = 0
    BY <1>3, <2>1 DEF IsRun
  <2>2. CASE i # 0
    <3>1. i \in 1..n /\ i - 1 \in 0..n
      BY <2>2
    <3> HIDE DEF V, Longer
    <3>2. f[i] = step[i][f[i - 1]] /\ f[i - 1] \in V
      <4> HIDE DEF step
      <4>1. QED  BY <1>3, <3>1 DEF IsRun
    <3>3. step[i] = [qs \in V |-> Longer(qs, i)]
      BY <3>1
    <3>4. QED  BY <2>2, <3>2, <3>3
  <2>3. QED  BY <2>1, <2>2
<1>5. Is(f)
  <2>1. f = [i \in 0..n |-> f[i]]
    BY <1>3 DEF IsRun
  <2> HIDE DEF Longer
  <2>2. QED  BY <1>4, <2>1
<1> DEFINE g == CHOOSE h : Is(h)
<1>6. Is(g)
  <2> HIDE DEF Is
  <2>1. QED  BY <1>5
<1>7. NextFrontiers = g[n]
  BY <1>1 DEF NextFrontiers, Joined
<1>8. \A i \in 0..n : g[i] = IF i = 0 THEN {<<>>} ELSE Longer(g[i - 1], i)
  <2> HIDE DEF g, Longer
  <2>1. QED  BY <1>6
<1> HIDE DEF g
<1> DEFINE bad == {i \in 0..n : ~Fronts(g[i], i)}
<1>9. ASSUME bad # {} PROVE FALSE
  <2>1. PICK i \in bad : \A j \in bad : i <= j
    <3>1. bad \in SUBSET Nat
      OBVIOUS
    <3> HIDE DEF bad
    <3>2. QED  BY <1>9, <3>1, LeastNatural
  <2>2. i \in 0..n /\ ~Fronts(g[i], i)
    OBVIOUS
  <2>3. CASE i = 0
    <3>1. g[0] = {<<>>}
      <4> HIDE DEF Longer
      <4>1. QED  BY <1>8, <2>2, <2>3
    <3>2. ToSet(<<>>) = {} /\ 1..0 = {}
      BY DEF ToSet
    <3>3. Fronts({<<>>}, 0)
      BY <3>2 DEF Fronts
    <3>4. QED  BY <2>2, <2>3, <3>1, <3>3
  <2>4. CASE i # 0
    <3>1. /\ i - 1 \in 0..n /\ ~(i <= i - 1) /\ i - 1 \in Nat /\ i - 1 < Len(fetch_answers)
          /\ (i - 1) + 1 = i
      BY <1>1, <2>2, <2>4
    <3>2. Fronts(g[i - 1], i - 1)
      BY <2>1, <3>1
    <3>3. PICK qs, k : qs = g[i - 1] /\ k = i - 1
      OBVIOUS
    <3>4. Fronts(qs, k) /\ k \in Nat /\ k < Len(fetch_answers)
      BY <3>1, <3>2, <3>3
    <3>5. k + 1 = i
      BY <3>1, <3>3
    <3>6. Fronts(Joined(qs, fetch_answers[k + 1]), k + 1)
      BY <3>4, FrontsStep
    <3>7. Fronts(Longer(qs, i), i)
      BY <3>5, <3>6
    <3>8. g[i] = Longer(qs, i)
      <4> HIDE DEF Longer
      <4>1. QED  BY <1>8, <2>2, <2>4, <3>3
    <3> HIDE DEF Longer
    <3>9. QED  BY <2>2, <3>7, <3>8
  <2>5. QED  BY <2>3, <2>4
<1>10. Fronts(g[n], n)
  <2>1. n \in 0..n
    OBVIOUS
  <2>2. QED  BY <1>9, <2>1
<1>11. QED  BY <1>1, <1>7, <1>10 DEF Fronts

-----------------------------------------------------------------------------
(* The levels of a collection.                                             *)

Seeds == ToSet(SeedPackages)

\* What is fewer than n steps away from the seeds.
Before(edges, n) == IF n = 0 THEN {} ELSE Within(Seeds, edges, n - 1)

\* The type invariant of a collection.
CollectorTypes ==
    /\ registry_graph \in [Registered -> SUBSET Registered]
    /\ seen_packages \in SUBSET Registered /\ DOMAIN collected_packages \in SUBSET Registered
    /\ \A e \in collected_edges : e[1] \in DOMAIN collected_packages
    /\ frontier_packages \in Seq(Registered) /\ scheduled_packages \in Seq(Registered)
    /\ fetch_answers \in Seq(NodeAnswers)
    /\ collect_level \in 0..(MaxDepth + 1) /\ collecting \in BOOLEAN

\* What is scheduled is not yet collected, and what is answered is scheduled.
ScheduleInv ==
    /\ Distinct(scheduled_packages)
    /\ seen_packages = DOMAIN collected_packages \cup ToSet(scheduled_packages)
    /\ DOMAIN collected_packages \cap ToSet(scheduled_packages) = {}
    /\ scheduled_packages = <<>> => fetch_answers = <<>>
    /\ \A i, j \in DOMAIN fetch_answers : fetch_answers[i].package = fetch_answers[j].package => i = j
    /\ \A i \in DOMAIN fetch_answers : fetch_answers[i].package \in ToSet(scheduled_packages)

\* Between two levels: all of the levels before, or as many as there may be,
\* and all of the levels but the last; the frontier is the level to come.
BetweenLevels ==
    LET collected == DOMAIN collected_packages
        level     == collect_level
    IN  /\ collected \subseteq Before(collected_edges, level)
        /\ level # 0 => Before(collected_edges, level - 1) \subseteq collected
        /\ Cardinality(collected) = MaxPackages \/ collected = Before(collected_edges, level)
        /\ \/ Cardinality(collected) = MaxPackages \/ level > MaxDepth
           \/ collected \cup ToSet(frontier_packages) = Within(Seeds, collected_edges, level)

\* In a level: all of the levels before, and of this one all that is new or as
\* much as there was room for.
InLevel ==
    LET level == collect_level
    IN  /\ collecting /\ level <= MaxDepth
        /\ DOMAIN collected_packages = Before(collected_edges, level)
        /\ seen_packages \subseteq Within(Seeds, collected_edges, level)
        /\ \/ Cardinality(seen_packages) = MaxPackages
           \/ seen_packages = Within(Seeds, collected_edges, level)

\* The inductive invariant of a collection.
CollectorInv ==
    /\ CollectorTypes
    /\ Cardinality(seen_packages) <= MaxPackages
    /\ ScheduleInv
    /\ IF scheduled_packages = <<>> THEN BetweenLevels ELSE InLevel
    /\ CollectsNearest

\* A sequence without repetitions has as many elements as it is long.
LEMMA DistinctLength ==
    ASSUME NEW s \in Seq(Registered), Distinct(s)
    PROVE  IsFiniteSet(ToSet(s)) /\ Cardinality(ToSet(s)) = Len(s)
<1>1. PICK n \in Nat : n = Len(s) /\ DOMAIN s = 1..n
  OBVIOUS
<1> DEFINE f == [i \in 1..n |-> s[i]]
<1>2. f \in Bijection(1..n, ToSet(s))
  BY <1>1 DEF Bijection, Injection, Surjection, IsInjective, ToSet, Distinct
<1>3. ExistsBijection(1..n, ToSet(s))
  BY <1>2 DEF ExistsBijection
<1>4. IsFiniteSet(1..n) /\ Cardinality(1..n) = n
  BY FS_Interval
<1>5. QED  BY <1>1, <1>3, <1>4, FS_Bijection

\* What runs is scheduled and has no answer yet.
LEMMA RunningIs ==
    ASSUME CollectorTypes, NEW p \in Running
    PROVE  /\ p \in ToSet(scheduled_packages)
           /\ \A i \in DOMAIN fetch_answers : fetch_answers[i].package # p
<1> DEFINE room  == Len(fetch_answers) + RequestConcurrency
           total == Len(scheduled_packages)
           limit == IF room < total THEN room ELSE total
<1>1. room \in Nat /\ total \in Nat
  BY CollectorAssumption DEF CollectorTypes
<1>2. limit \in Nat /\ limit <= total
  BY <1>1
<1>3. p \in ToSet(SubSeq(scheduled_packages, 1, limit))
  BY DEF Running
<1>4. \A i \in DOMAIN fetch_answers : fetch_answers[i].package # p
  BY DEF Running
<1> HIDE DEF limit
<1>5. PICK n \in Nat : n = limit /\ n <= Len(scheduled_packages)
  BY <1>2
<1>6. PICK started : started = SubSeq(scheduled_packages, 1, n)
  OBVIOUS
<1>7. scheduled_packages \in Seq(Registered)
  BY DEF CollectorTypes
<1>8. DOMAIN started = 1..n /\ \A i \in 1..n : started[i] = scheduled_packages[i]
  BY <1>5, <1>6, <1>7
<1>9. PICK i \in 1..n : p = scheduled_packages[i]
  BY <1>3, <1>5, <1>6, <1>8 DEF ToSet
<1>10. i \in DOMAIN scheduled_packages
  BY <1>5, <1>7
<1>11. QED  BY <1>4, <1>9, <1>10 DEF ToSet

\* A level is answered when it has as many answers as packages.
LEMMA LevelAnswered ==
    ASSUME CollectorTypes, ScheduleInv, Len(fetch_answers) = Len(scheduled_packages)
    PROVE  {a.package : a \in ToSet(fetch_answers)} = ToSet(scheduled_packages)
<1>1. PICK n \in Nat : /\ n = Len(scheduled_packages) /\ DOMAIN fetch_answers = 1..n
                       /\ DOMAIN scheduled_packages = 1..n
  BY DEF CollectorTypes
<1>2. PICK T : T = ToSet(scheduled_packages)
  OBVIOUS
<1> DEFINE f == [i \in 1..n |-> fetch_answers[i].package]
<1>3. f \in Injection(1..n, T)
  BY <1>1, <1>2 DEF Injection, IsInjective, ScheduleInv
<1>4. IsFiniteSet(T) /\ Cardinality(T) = n
  BY <1>1, <1>2, DistinctLength DEF CollectorTypes, ScheduleInv
<1>5. Cardinality(1..n) = n
  BY FS_Interval
<1>6. f \in Surjection(1..n, T)
  <2> HIDE DEF f
  <2>1. QED  BY <1>3, <1>4, <1>5, FS_Injection
<1>7. \A t \in T : \E i \in 1..n : fetch_answers[i].package = t
  BY <1>6 DEF Surjection
<1>8. \A i \in 1..n : fetch_answers[i].package \in T
  BY <1>1, <1>2 DEF ScheduleInv
<1>9. ToSet(fetch_answers) = {fetch_answers[i] : i \in 1..n}
  BY <1>1 DEF ToSet
<1>10. {a.package : a \in ToSet(fetch_answers)} = T
  BY <1>7, <1>8, <1>9
<1>11. QED  BY <1>2, <1>10

\* One level more, by edges from it.
LEMMA NextLevel ==
    ASSUME NEW E, NEW more, NEW level, level \in Nat, NEW C, NEW seen, E \subseteq more, C \subseteq seen,
           \A e \in E : e[1] \in C,
           \A e \in more \ E : e[1] \in seen \ C,
           C = Before(E, level), seen \subseteq Within(Seeds, E, level)
    PROVE  /\ Before(more, level) = C
           /\ Before(more, level + 1) = Within(Seeds, E, level)
           /\ Led(E, seen) \subseteq Within(Seeds, E, level)
           /\ seen = Within(Seeds, E, level) =>
                  Within(Seeds, more, level + 1) = seen \cup Led(more, seen)
<1>1. ASSUME NEW k \in Nat, k < level PROVE Within(Seeds, E, k) \subseteq C
  <2>1. level # 0 /\ level - 1 \in Nat /\ k <= level - 1
    BY <1>1
  <2>2. C = Within(Seeds, E, level - 1)
    BY <2>1 DEF Before
  <2>3. QED  BY <2>1, <2>2, WithinGrows
<1>2. ASSUME NEW n \in Nat, n <= level PROVE Within(Seeds, more, n) = Within(Seeds, E, n)
  <2>1. Inside(Seeds, E, n, C)
    BY <1>1, <1>2 DEF Inside
  <2>2. Outside(more \ E, C)
    BY DEF Outside
  <2>3. QED  BY <2>1, <2>2, WithinKept
<1>3. Before(more, level) = C
  <2>1. CASE level = 0
    BY <2>1 DEF Before
  <2>2. CASE level # 0
    <3>1. level - 1 \in Nat /\ level - 1 <= level
      BY <2>2
    <3>2. Within(Seeds, more, level - 1) = Within(Seeds, E, level - 1)
      BY <1>2, <3>1
    <3>3. QED  BY <2>2, <3>2 DEF Before
  <2>3. QED  BY <2>1, <2>2
<1>4. Within(Seeds, more, level) = Within(Seeds, E, level)
  BY <1>2
<1>5. Before(more, level + 1) = Within(Seeds, E, level)
  <2>1. level + 1 # 0 /\ (level + 1) - 1 = level
    OBVIOUS
  <2>2. QED  BY <1>4, <2>1 DEF Before
<1>6. Led(E, seen) \subseteq Within(Seeds, E, level)
  <2>1. Led(E, seen) \subseteq Led(E, C)
    BY DEF Led
  <2>2. CASE level = 0
    <3>1. C = {}
      BY <2>2 DEF Before
    <3>2. QED  BY <2>1, <3>1 DEF Led
  <2>3. CASE level # 0
    <3>1. PICK k : k \in Nat /\ k = level - 1 /\ level = k + 1
      BY <2>3
    <3>2. Within(Seeds, E, level) = Within(Seeds, E, k) \cup Led(E, Within(Seeds, E, k))
      BY ZenonT(60), <3>1, WithinNext
    <3>3. C = Within(Seeds, E, level - 1)
      BY <2>3 DEF Before
    <3>4. QED  BY <2>1, <3>1, <3>2, <3>3
  <2>4. QED  BY <2>2, <2>3
<1>7. Within(Seeds, more, level + 1) =
          Within(Seeds, more, level) \cup Led(more, Within(Seeds, more, level))
  <2>1. level + 1 = level + 1
    OBVIOUS
  <2>2. QED  BY <2>1, WithinNext
<1>8. QED  BY <1>3, <1>4, <1>5, <1>6, <1>7

\* A collection that stops has what is nearest.
LEMMA StoppedIsNearest ==
    ASSUME CollectorInv, scheduled_packages = <<>>,
           \/ collect_level > MaxDepth \/ Cardinality(seen_packages) >= MaxPackages
           \/ ScheduledOf(frontier_packages, seen_packages) = <<>>
    PROVE  /\ NearestFirst(DOMAIN collected_packages, Seeds, collected_edges, MaxDepth, MaxPackages)
           /\ Cardinality(DOMAIN collected_packages) <= MaxPackages
<1>1. PICK C, E, level :
          /\ C = DOMAIN collected_packages /\ E = collected_edges
          /\ level = collect_level /\ level \in Nat
  BY CollectorAssumption DEF CollectorInv, CollectorTypes
<1>2. level <= MaxDepth + 1 /\ MaxDepth \in Nat /\ MaxPackages \in Nat \ {0}
  BY <1>1, CollectorAssumption DEF CollectorInv, CollectorTypes
<1>3. seen_packages = C /\ Cardinality(C) <= MaxPackages /\ C \in SUBSET Registered
  <2>1. ToSet(scheduled_packages) = {}
    BY DEF ToSet
  <2>2. seen_packages = C
    BY <1>1, <2>1 DEF CollectorInv, ScheduleInv
  <2>3. QED  BY <2>2 DEF CollectorInv, CollectorTypes
<1>4. IsFiniteSet(C) /\ Cardinality(C) \in Nat
  BY <1>3, CollectorAssumption, FS_Subset, FS_CardinalityType
<1>5. /\ C \subseteq Before(E, level)
      /\ level # 0 => Before(E, level - 1) \subseteq C
      /\ Cardinality(C) = MaxPackages \/ C = Before(E, level)
      /\ \/ Cardinality(C) = MaxPackages \/ level > MaxDepth
         \/ C \cup ToSet(frontier_packages) = Within(Seeds, E, level)
  BY <1>1 DEF CollectorInv, BetweenLevels
<1>6. CASE level = 0
  <2>1. C = {} /\ Cardinality(C) # MaxPackages
    BY <1>2, <1>5, <1>6, FS_EmptySet DEF Before
  <2>2. ToSet(frontier_packages) \subseteq C
    <3>1. ScheduledOf(frontier_packages, seen_packages) = <<>>
      BY <1>1, <1>2, <1>3, <1>4, <1>6, <2>1
    <3>2. PICK room \in Nat : room = RemainingCapacity(seen_packages) /\ room # 0
      BY <1>2, <1>3, <1>4, <2>1 DEF RemainingCapacity
    <3>3. frontier_packages \in Seq(Registered)
      BY DEF CollectorInv, CollectorTypes
    <3>4. Chosen(<<>>, Len(frontier_packages), frontier_packages, seen_packages, room)
      BY <3>1, <3>2, <3>3, ScheduledIs
    <3>5. Len(<<>>) = 0 /\ ToSet(<<>>) = {}
      BY DEF ToSet
    <3>6. {frontier_packages[i] : i \in 1..Len(frontier_packages)} \subseteq seen_packages
      BY <3>2, <3>4, <3>5 DEF Chosen
    <3>7. QED  BY <1>3, <3>3, <3>6 DEF ToSet
  <2>3. Seeds = {}
    BY <1>2, <1>5, <1>6, <2>1, <2>2, WithinStart
  <2>4. Within(Seeds, E, MaxDepth) = {}
    <3>1. Led(E, {}) \subseteq {}
      BY DEF Led
    <3>2. QED  BY <1>2, <2>3, <3>1, WithinClosed
  <2>5. 0 \in 0..MaxDepth /\ Within(Seeds, E, 0) = {}
    BY <1>2, <2>3, WithinStart
  <2>6. NearestFirst(C, Seeds, E, MaxDepth, MaxPackages)
    BY <2>1, <2>4, <2>5 DEF NearestFirst
  <2>7. QED  BY <1>1, <1>3, <2>6
<1>7. CASE level # 0
  <2>1. PICK n \in Nat : n = level - 1 /\ n \in 0..MaxDepth
    BY <1>1, <1>2, <1>7
  <2>2. C \subseteq Within(Seeds, E, n)
    BY <1>5, <1>7, <2>1 DEF Before
  <2>3. n # 0 => Within(Seeds, E, n - 1) \subseteq C
    BY <1>5, <1>7, <2>1 DEF Before
  <2>4. C = Within(Seeds, E, MaxDepth) \/ Cardinality(C) = MaxPackages
    <3>1. SUFFICES ASSUME Cardinality(C) # MaxPackages PROVE C = Within(Seeds, E, MaxDepth)
      OBVIOUS
    <3>2. C = Within(Seeds, E, n)
      BY <1>5, <1>7, <2>1, <3>1 DEF Before
    <3>3. CASE level > MaxDepth
      <4>1. n = MaxDepth
        BY <1>1, <1>2, <2>1, <3>3
      <4>2. QED  BY <3>2, <4>1
    <3>4. CASE ~(level > MaxDepth)
      <4>1. ScheduledOf(frontier_packages, seen_packages) = <<>>
        BY <1>1, <1>2, <1>3, <1>4, <3>1, <3>4
      <4>2. PICK room \in Nat : room = RemainingCapacity(seen_packages) /\ room # 0
        BY <1>2, <1>3, <1>4, <3>1 DEF RemainingCapacity
      <4>3. frontier_packages \in Seq(Registered)
        BY DEF CollectorInv, CollectorTypes
      <4>4. Chosen(<<>>, Len(frontier_packages), frontier_packages, seen_packages, room)
        BY <4>1, <4>2, <4>3, ScheduledIs
      <4>5. Len(<<>>) = 0 /\ ToSet(<<>>) = {}
        BY DEF ToSet
      <4>6. {frontier_packages[i] : i \in 1..Len(frontier_packages)} \subseteq seen_packages
        BY <4>2, <4>4, <4>5 DEF Chosen
      <4>7. ToSet(frontier_packages) \subseteq C
        BY <1>3, <4>3, <4>6 DEF ToSet
      <4>8. C = Within(Seeds, E, n + 1)
        <5>1. n + 1 = level
          BY <1>1, <2>1
        <5>2. C \cup ToSet(frontier_packages) = Within(Seeds, E, level)
          BY <1>5, <3>1, <3>4
        <5>3. QED  BY <4>7, <5>1, <5>2
      <4>9. Within(Seeds, E, n + 1) = Within(Seeds, E, n) \cup Led(E, Within(Seeds, E, n))
        BY <2>1, WithinNext
      <4>10. Led(E, C) \subseteq C
        BY <3>2, <4>8, <4>9
      <4>11. Seeds \subseteq C
        <5>1. Within(Seeds, E, 0) = Seeds
          BY WithinStart
        <5>2. 0 \in Nat /\ n \in Nat /\ 0 <= n
          BY <2>1
        <5>3. Within(Seeds, E, 0) \subseteq Within(Seeds, E, n)
          BY <5>2, WithinGrows
        <5>4. QED  BY <3>2, <5>1, <5>3
      <4>12. Within(Seeds, E, MaxDepth) \subseteq C
        BY <1>2, <4>10, <4>11, WithinClosed
      <4>13. Within(Seeds, E, n) \subseteq Within(Seeds, E, MaxDepth)
        BY <1>2, <2>1, WithinGrows
      <4>14. QED  BY <3>2, <4>12, <4>13
    <3>5. QED  BY <3>3, <3>4
  <2>5. NearestFirst(C, Seeds, E, MaxDepth, MaxPackages)
    BY <2>1, <2>2, <2>3, <2>4 DEF NearestFirst
  <2>6. QED  BY <1>1, <1>3, <2>5
<1>8. QED  BY <1>6, <1>7

\* It holds of the seeds.
LEMMA CollectorInitial == CollectorInit => CollectorInv
<1>1. SUFFICES ASSUME CollectorInit PROVE CollectorInv
  OBVIOUS
<1>2. /\ registry_graph \in Requirements /\ seen_packages = {} /\ DOMAIN collected_packages = {}
      /\ collected_edges = {} /\ frontier_packages = SeedPackages /\ scheduled_packages = <<>>
      /\ fetch_answers = <<>> /\ collect_level = 0 /\ collecting = TRUE
  BY <1>1 DEF CollectorInit, CollectorStart
<1>3. CollectorTypes
  <2>1. <<>> \in Seq(Registered) /\ <<>> \in Seq(NodeAnswers)
    OBVIOUS
  <2>2. 0 \in 0..(MaxDepth + 1)
    BY CollectorAssumption
  <2>3. QED  BY <1>2, <2>1, <2>2, CollectorAssumption DEF CollectorTypes
<1>4. ScheduleInv
  BY <1>2 DEF ScheduleInv, Distinct, ToSet
<1>5. Cardinality(seen_packages) <= MaxPackages
  BY <1>2, FS_EmptySet, CollectorAssumption
<1>6. BetweenLevels
  BY <1>2, WithinStart DEF BetweenLevels, Before, Seeds
<1>7. CollectsNearest
  BY <1>2 DEF CollectsNearest
<1>8. QED  BY <1>2, <1>3, <1>4, <1>5, <1>6, <1>7 DEF CollectorInv

\* A level is scheduled: what is chosen is new, and all of it if there is room.
LEMMA ScheduleKeeps == ASSUME CollectorInv, Schedule PROVE CollectorInv'
<1> DEFINE chosen == ScheduledOf(frontier_packages, seen_packages)
           stops  == \/ collect_level > MaxDepth \/ Cardinality(seen_packages) >= MaxPackages
                     \/ chosen = <<>>
<1>1. /\ collecting /\ scheduled_packages = <<>>
      /\ UNCHANGED <<registry_graph, collected_packages, collected_edges, fetch_answers, collect_level>>
  BY DEF Schedule
<1>2. CASE stops
  <2>1. collecting' = FALSE /\ UNCHANGED <<seen_packages, frontier_packages, scheduled_packages>>
    BY <1>2 DEF Schedule
  <2>2. CollectorTypes' /\ ScheduleInv'
    BY <1>1, <2>1 DEF CollectorInv, CollectorTypes, ScheduleInv
  <2>3. BetweenLevels /\ Cardinality(seen_packages) <= MaxPackages
    BY <1>1 DEF CollectorInv
  <2>4. BetweenLevels'
    BY <1>1, <2>1, <2>3 DEF BetweenLevels
  <2>5. /\ NearestFirst(DOMAIN collected_packages, Seeds, collected_edges, MaxDepth, MaxPackages)
        /\ Cardinality(DOMAIN collected_packages) <= MaxPackages
    BY <1>1, <1>2, StoppedIsNearest
  <2>6. CollectsNearest'
    BY <1>1, <2>5 DEF CollectsNearest, Seeds
  <2>7. QED  BY <1>1, <2>1, <2>2, <2>3, <2>4, <2>6 DEF CollectorInv
<1>3. CASE ~stops
  <2>1. /\ scheduled_packages' = chosen /\ seen_packages' = seen_packages \cup ToSet(chosen)
        /\ frontier_packages' = <<>> /\ UNCHANGED collecting
    BY <1>3 DEF Schedule
  <2>2. PICK C : C = DOMAIN collected_packages
    OBVIOUS
  <2>3. seen_packages = C /\ C \in SUBSET Registered /\ fetch_answers = <<>>
    <3>1. ToSet(scheduled_packages) = {}
      BY <1>1 DEF ToSet
    <3>2. QED  BY <1>1, <2>2, <3>1 DEF CollectorInv, CollectorTypes, ScheduleInv
  <2>4. IsFiniteSet(C) /\ Cardinality(C) \in Nat /\ Cardinality(C) < MaxPackages
    <3>1. IsFiniteSet(C)
      BY <2>3, CollectorAssumption, FS_Subset
    <3>2. Cardinality(C) \in Nat
      BY <3>1, FS_CardinalityType
    <3>3. PICK n \in Nat, m \in Nat : n = Cardinality(C) /\ m = MaxPackages
      BY <3>2, CollectorAssumption
    <3>4. ~(n >= m)
      BY <1>3, <2>3, <3>3
    <3>5. n < m
      BY <3>4
    <3>6. QED  BY <3>1, <3>2, <3>3, <3>5
  <2>5. PICK room \in Nat : room = RemainingCapacity(seen_packages) /\ room = MaxPackages - Cardinality(C)
    BY <2>3, <2>4, CollectorAssumption DEF RemainingCapacity
  <2>6. PICK s : s = chosen
    OBVIOUS
  <2>7. frontier_packages \in Seq(Registered)
    BY DEF CollectorInv, CollectorTypes
  <2>8. Chosen(s, Len(frontier_packages), frontier_packages, C, room)
    BY <2>3, <2>5, <2>6, <2>7, ScheduledIs
  <2>9. ToSet(frontier_packages) = {frontier_packages[i] : i \in 1..Len(frontier_packages)}
    BY <2>7 DEF ToSet
  <2>10. /\ s \in Seq(Registered) /\ Distinct(s) /\ Len(s) <= room /\ ToSet(s) \cap C = {}
         /\ ToSet(s) \subseteq ToSet(frontier_packages)
         /\ Len(s) = room \/ ToSet(frontier_packages) \subseteq C \cup ToSet(s)
    BY <2>8, <2>9 DEF Chosen
  <2>11. IsFiniteSet(ToSet(s)) /\ Cardinality(ToSet(s)) = Len(s) /\ Len(s) \in Nat
    BY <2>10, DistinctLength
  <2>12. Cardinality(C \cup ToSet(s)) = Cardinality(C) + Len(s)
    <3>1. C \cap ToSet(s) = {}
      BY <2>10
    <3>2. PICK T : T = ToSet(s)
      OBVIOUS
    <3>3. IsFiniteSet(C) /\ IsFiniteSet(T) /\ C \cap T = {} /\ Cardinality({}) = 0
      BY <2>4, <2>11, <3>1, <3>2, FS_EmptySet
    <3>4. Cardinality(C \cup T) = Cardinality(C) + Cardinality(T) - Cardinality(C \cap T)
      BY <3>3, FS_Union
    <3>5. Cardinality(C \cap T) = 0 /\ Cardinality(T) = Len(s)
      BY <2>11, <3>2, <3>3
    <3>6. PICK k \in Nat, l \in Nat : k = Cardinality(C) /\ l = Len(s)
      BY <2>4, <2>11
    <3>7. Cardinality(C \cup T) = k + l - 0
      BY <3>4, <3>5, <3>6
    <3>8. Cardinality(C \cup T) = k + l
      BY <3>7
    <3>9. QED  BY <3>2, <3>6, <3>8
  <2>13. ToSet(s) \subseteq Registered
    BY <2>10 DEF ToSet
  <2>14. CollectorTypes'
    <3>1. <<>> \in Seq(Registered)
      OBVIOUS
    <3>2. QED  BY <1>1, <2>1, <2>3, <2>6, <2>10, <2>13, <3>1 DEF CollectorInv, CollectorTypes
  <2>15. ScheduleInv'
    BY <1>1, <2>1, <2>2, <2>3, <2>6, <2>10 DEF ScheduleInv
  <2>16. Cardinality(seen_packages') <= MaxPackages
    BY <2>1, <2>3, <2>4, <2>5, <2>6, <2>10, <2>11, <2>12, CollectorAssumption
  <2>17. InLevel'
    <3>1. PICK E, level : E = collected_edges /\ level = collect_level
      OBVIOUS
    <3>2. /\ C = Before(E, level) /\ C \cup ToSet(frontier_packages) = Within(Seeds, E, level)
          /\ level <= MaxDepth
      <4>1. level \in Nat /\ MaxDepth \in Nat /\ Cardinality(C) # MaxPackages /\ ~(level > MaxDepth)
        BY <1>3, <2>4, <3>1, CollectorAssumption DEF CollectorInv, CollectorTypes
      <4>2. QED  BY <1>1, <2>2, <3>1, <4>1 DEF CollectorInv, BetweenLevels
    <3>3. C \cup ToSet(s) \subseteq Within(Seeds, E, level)
      BY <2>10, <3>2
    <3>4. \/ Cardinality(C \cup ToSet(s)) = MaxPackages \/ C \cup ToSet(s) = Within(Seeds, E, level)
      <4>1. CASE Len(s) = room
        BY <2>4, <2>5, <2>12, <4>1, CollectorAssumption
      <4>2. CASE ToSet(frontier_packages) \subseteq C \cup ToSet(s)
        BY <3>2, <3>3, <4>2
      <4>3. QED  BY <2>10, <4>1, <4>2
    <3>5. QED  BY <1>1, <2>1, <2>2, <2>3, <2>6, <3>1, <3>2, <3>3, <3>4 DEF InLevel
  <2>18. CollectsNearest'
    BY <1>1, <2>1 DEF CollectsNearest
  <2>19. scheduled_packages' # <<>>
    BY <1>3, <2>1
  <2>20. QED  BY <2>14, <2>15, <2>16, <2>17, <2>18, <2>19 DEF CollectorInv
<1>4. QED  BY <1>2, <1>3

\* A fetch is answered, with dependencies or with a failure.
LEMMA FetchKeeps == ASSUME CollectorInv, NEW p \in Registered, FetchOne(p) PROVE CollectorInv'
<1>1. /\ collecting /\ p \in Running
      /\ UNCHANGED <<registry_graph, seen_packages, collected_packages, collected_edges,
                     frontier_packages, scheduled_packages, collect_level, collecting>>
  BY DEF FetchOne
<1>2. PICK node \in PossibleNodes(p) :
          fetch_answers' = Append(fetch_answers, [package |-> p, node |-> node])
  BY DEF FetchOne
<1>3. node \in AnyNode \cup {NoNode}
  <2>1. registry_graph[p] \in SUBSET Registered
    BY DEF CollectorInv, CollectorTypes
  <2>2. NodeOf(registry_graph[p], {}, {p}, FALSE) \in AnyNode
    BY <2>1 DEF NodeOf, AnyNode
  <2>3. NodeOf(registry_graph[p], {}, {}, TRUE) \in AnyNode
    BY <2>1 DEF NodeOf, AnyNode
  <2>4. PICK told, said : /\ told = NodeOf(registry_graph[p], {}, {p}, FALSE)
                          /\ said = NodeOf(registry_graph[p], {}, {}, TRUE)
    OBVIOUS
  <2>5. PossibleNodes(p) = {FetchNode(registry, external) :
                                registry \in {told, NoNode}, external \in {said, NoNode}}
    BY <2>4 DEF PossibleNodes, NodeOf
  <2>6. PossibleNodes(p) \subseteq {told, NoNode} \cup {said, NoNode}
    BY <2>5 DEF FetchNode
  <2>7. QED  BY <1>2, <2>2, <2>3, <2>4, <2>6
<1>4. PICK answer : answer = [package |-> p, node |-> node]
  OBVIOUS
<1>5. answer \in NodeAnswers /\ answer.package = p
  BY <1>3, <1>4 DEF NodeAnswers
<1>6. fetch_answers \in Seq(NodeAnswers)
  BY DEF CollectorInv, CollectorTypes
<1>7. PICK n \in Nat : n = Len(fetch_answers) /\ DOMAIN fetch_answers = 1..n
  BY <1>6
<1>8. /\ fetch_answers' \in Seq(NodeAnswers) /\ DOMAIN fetch_answers' = 1..(n + 1)
      /\ \A i \in 1..(n + 1) : fetch_answers'[i] = IF i = n + 1 THEN answer ELSE fetch_answers[i]
  BY <1>2, <1>4, <1>5, <1>6, <1>7
<1>9. p \in ToSet(scheduled_packages) /\ \A i \in 1..n : fetch_answers[i].package # p
  BY <1>1, <1>7, RunningIs DEF CollectorInv
<1>10. CollectorTypes'
  BY <1>1, <1>8 DEF CollectorInv, CollectorTypes
<1>11. ASSUME NEW i \in 1..(n + 1)
       PROVE  /\ fetch_answers'[i].package \in ToSet(scheduled_packages)
              /\ i # n + 1 => i \in 1..n /\ fetch_answers'[i] = fetch_answers[i]
              /\ i = n + 1 => fetch_answers'[i].package = p
  <2>1. CASE i = n + 1
    BY <1>5, <1>8, <1>9, <2>1
  <2>2. CASE i # n + 1
    <3>1. i \in 1..n
      BY <2>2
    <3>2. QED  BY <1>7, <1>8, <2>2, <3>1 DEF CollectorInv, ScheduleInv
  <2>3. QED  BY <2>1, <2>2
<1>12. ASSUME NEW i \in 1..(n + 1), NEW j \in 1..(n + 1),
              fetch_answers'[i].package = fetch_answers'[j].package
       PROVE  i = j
  <2>1. CASE i = n + 1 /\ j = n + 1
    BY <2>1
  <2>2. CASE i = n + 1 /\ j # n + 1
    BY <1>9, <1>11, <1>12, <2>2
  <2>3. CASE i # n + 1 /\ j = n + 1
    BY <1>9, <1>11, <1>12, <2>3
  <2>4. CASE i # n + 1 /\ j # n + 1
    BY <1>7, <1>11, <1>12, <2>4 DEF CollectorInv, ScheduleInv
  <2>5. QED  BY <2>1, <2>2, <2>3, <2>4
<1>13. scheduled_packages # <<>>
  BY <1>9 DEF ToSet
<1>14. ScheduleInv'
  BY <1>1, <1>8, <1>11, <1>12, <1>13 DEF CollectorInv, ScheduleInv
<1>15. InLevel'
  BY <1>1, <1>13 DEF CollectorInv, InLevel
<1>16. CollectsNearest'
  BY <1>1 DEF CollectsNearest
<1>17. QED  BY <1>1, <1>10, <1>13, <1>14, <1>15, <1>16 DEF CollectorInv

\* A level ends: its edges start in it, so that what is nearer stays as it was,
\* and what they lead to is the next frontier.
LEMMA EndLevelKeeps == ASSUME CollectorInv, EndLevel PROVE CollectorInv'
<1> DEFINE hits == {a \in ToSet(fetch_answers) : a.node.found}
           new   == {a.package : a \in ToSet(fetch_answers)}
           added == UNION {{a.package} \X a.node.dependencies : a \in hits}
<1>1. /\ collecting /\ scheduled_packages # <<>> /\ Len(fetch_answers) = Len(scheduled_packages)
      /\ DOMAIN collected_packages' = DOMAIN collected_packages \cup new
      /\ collected_edges' = collected_edges \cup added
      /\ frontier_packages' \in NextFrontiers
      /\ scheduled_packages' = <<>> /\ fetch_answers' = <<>> /\ collect_level' = collect_level + 1
      /\ UNCHANGED <<registry_graph, seen_packages, collecting>>
  BY DEF EndLevel
<1>2. CollectorTypes /\ ScheduleInv /\ InLevel /\ Cardinality(seen_packages) <= MaxPackages
  BY <1>1 DEF CollectorInv
<1>3. new = ToSet(scheduled_packages)
  BY <1>1, <1>2, LevelAnswered
<1>4. DOMAIN collected_packages' = seen_packages
  BY <1>1, <1>2, <1>3 DEF ScheduleInv
<1>5. fetch_answers \in Seq(NodeAnswers) /\ seen_packages \in SUBSET Registered
  BY <1>2 DEF CollectorTypes
<1>6. ToSet(fetch_answers) \subseteq NodeAnswers
  BY <1>5 DEF ToSet
<1>7. PICK E, more, C, seen, level :
          /\ E = collected_edges /\ more = E \cup added /\ C = DOMAIN collected_packages
          /\ seen = seen_packages /\ level = collect_level
  OBVIOUS
<1>8. level \in Nat /\ level <= MaxDepth /\ MaxDepth \in Nat
  BY <1>2, <1>7, CollectorAssumption DEF CollectorTypes, InLevel
<1>9. /\ C = Before(E, level) /\ seen \subseteq Within(Seeds, E, level)
      /\ Cardinality(seen) = MaxPackages \/ seen = Within(Seeds, E, level)
      /\ C \subseteq seen /\ \A e \in E : e[1] \in C
  BY <1>2, <1>7 DEF InLevel, CollectorTypes, ScheduleInv
<1>10. ASSUME NEW e \in added
       PROVE  \E a \in hits : e[1] = a.package /\ e[2] \in a.node.dependencies
  <2>1. PICK a \in hits : e \in {a.package} \X a.node.dependencies
    OBVIOUS
  <2> HIDE DEF hits
  <2>2. QED  BY <2>1
<1>11. \A e \in added : e[1] \in seen \ C
  <2>1. \A a \in hits : a.package \in new
    OBVIOUS
  <2>2. new \subseteq seen \ C
    BY <1>2, <1>3, <1>7 DEF ScheduleInv
  <2> HIDE DEF hits, new, added
  <2>3. QED  BY <1>10, <2>1, <2>2
<1>12. /\ Before(more, level) = C /\ Before(more, level + 1) = Within(Seeds, E, level)
       /\ Led(E, seen) \subseteq Within(Seeds, E, level)
       /\ seen = Within(Seeds, E, level) =>
              Within(Seeds, more, level + 1) = seen \cup Led(more, seen)
  <2>1. \A e \in more \ E : e[1] \in seen \ C
    <3> HIDE DEF added
    <3>1. QED  BY <1>7, <1>11
  <2>2. E \subseteq more
    BY <1>7
  <2> HIDE DEF added
  <2>3. QED  BY SMTT(40), <1>8, <1>9, <2>1, <2>2, NextLevel
<1>13. /\ frontier_packages' \in Seq(Registered)
       /\ ToSet(frontier_packages') = UNION {Offers(fetch_answers[j]) : j \in 1..Len(fetch_answers)}
  BY <1>1, <1>5, FrontierIs
<1>14. CollectorTypes'
  <2>1. \A e \in more : e[1] \in seen
    <3> HIDE DEF added
    <3>1. QED  BY <1>7, <1>9, <1>11
  <2>2. <<>> \in Seq(Registered) /\ <<>> \in Seq(NodeAnswers)
    OBVIOUS
  <2>3. collect_level + 1 \in 0..(MaxDepth + 1)
    BY <1>7, <1>8
  <2> HIDE DEF added, new
  <2>4. QED  BY <1>1, <1>2, <1>4, <1>7, <1>13, <2>1, <2>2, <2>3 DEF CollectorTypes
<1>15. ScheduleInv'
  <2>1. ToSet(<<>>) = {} /\ DOMAIN <<>> = {}
    BY DEF ToSet
  <2> HIDE DEF added, new
  <2>2. QED  BY <1>1, <1>4, <2>1 DEF ScheduleInv, Distinct
<1>16. ASSUME level + 1 <= MaxDepth, seen = Within(Seeds, E, level)
       PROVE  seen \cup ToSet(frontier_packages') = Within(Seeds, more, level + 1)
  <2>1. PICK deps : deps = UNION {a.node.dependencies : a \in hits}
    OBVIOUS
  <2>2. Led(more, seen) = Led(E, seen) \cup deps
    <3>1. Led(more, seen) \subseteq Led(E, seen) \cup deps
      <4>1. ASSUME NEW e \in more, e[1] \in seen PROVE e[2] \in Led(E, seen) \cup deps
        <5>1. CASE e \in E
          BY <4>1, <5>1 DEF Led
        <5>2. CASE e \in added
          <6> HIDE DEF added, hits
          <6>1. QED  BY <1>10, <2>1, <5>2
        <5>3. QED
          <6> HIDE DEF added
          <6>1. QED  BY <1>7, <5>1, <5>2
      <4>2. QED  BY <4>1 DEF Led
    <3>2. Led(E, seen) \subseteq Led(more, seen)
      <4> HIDE DEF added
      <4>1. QED  BY <1>7 DEF Led
    <3>3. ASSUME NEW d \in deps PROVE d \in Led(more, seen)
      <4>1. PICK a \in hits : d \in a.node.dependencies
        BY <2>1
      <4>2. PICK e : e = <<a.package, d>>
        OBVIOUS
      <4>3. e \in added
        BY <4>1, <4>2
      <4>4. e \in more /\ e[1] \in seen /\ e[2] = d
        <5> HIDE DEF added
        <5>1. QED  BY <1>7, <1>11, <4>2, <4>3
      <4>5. QED  BY <4>4 DEF Led
    <3>4. QED  BY <3>1, <3>2, <3>3
  <2>3. ToSet(frontier_packages') = deps \ seen
    <3>1. \A a : Offers(a) = IF a.node.found THEN a.node.dependencies \ seen ELSE {}
      <4>1. ~(collect_level >= MaxDepth)
        BY <1>7, <1>8, <1>16
      <4>2. QED  BY <1>7, <4>1 DEF Offers
    <3>2. ToSet(frontier_packages') = UNION {Offers(a) : a \in ToSet(fetch_answers)}
      <4>1. ToSet(fetch_answers) = {fetch_answers[j] : j \in 1..Len(fetch_answers)}
        BY <1>5 DEF ToSet
      <4>2. QED  BY <1>13, <4>1
    <3>3. ASSUME NEW d \in ToSet(frontier_packages') PROVE d \in deps \ seen
      <4>1. PICK a \in ToSet(fetch_answers) : d \in Offers(a)
        BY <3>2
      <4>2. a.node.found /\ d \in a.node.dependencies \ seen
        BY <3>1, <4>1
      <4>3. QED  BY <2>1, <4>2
    <3>4. ASSUME NEW d \in deps \ seen PROVE d \in ToSet(frontier_packages')
      <4>1. PICK a \in ToSet(fetch_answers) : a.node.found /\ d \in a.node.dependencies
        BY <2>1
      <4>2. d \in Offers(a)
        BY <3>1, <4>1
      <4>3. QED  BY <3>2, <4>2
    <3>5. QED  BY <3>3, <3>4
  <2>4. QED  BY <1>12, <1>16, <2>2, <2>3
<1>17. BetweenLevels'
  <2>1. /\ DOMAIN collected_packages' = seen /\ collected_edges' = more /\ collect_level' = level + 1
    <3> HIDE DEF added, new
    <3>1. QED  BY <1>1, <1>4, <1>7
  <2>2. level + 1 # 0 /\ (level + 1) - 1 = level
    BY <1>8
  <2>3. seen \subseteq Before(more, level + 1) /\ Before(more, (level + 1) - 1) \subseteq seen
    BY <1>9, <1>12, <2>2
  <2>4. Cardinality(seen) = MaxPackages \/ seen = Before(more, level + 1)
    BY <1>9, <1>12
  <2>5. \/ Cardinality(seen) = MaxPackages \/ level + 1 > MaxDepth
        \/ seen \cup ToSet(frontier_packages') = Within(Seeds, more, level + 1)
    <3>1. level + 1 > MaxDepth \/ level + 1 <= MaxDepth
      BY <1>8
    <3>2. QED  BY <1>9, <1>16, <3>1
  <2> HIDE DEF added, new
  <2>6. QED  BY <2>1, <2>3, <2>4, <2>5 DEF BetweenLevels, Seeds
<1>18. CollectsNearest'
  BY <1>1 DEF CollectsNearest
<1>19. QED  BY <1>1, <1>2, <1>14, <1>15, <1>17, <1>18 DEF CollectorInv

\* Every step keeps the invariant.
LEMMA CollectorStep == CollectorInv /\ [CollectorNext]_collectorVars => CollectorInv'
<1>1. SUFFICES ASSUME CollectorInv, [CollectorNext]_collectorVars PROVE CollectorInv'
  OBVIOUS
<1>2. CASE Schedule
  BY <1>1, <1>2, ScheduleKeeps
<1>3. CASE \E p \in Registered : FetchOne(p)
  BY <1>1, <1>3, FetchKeeps
<1>4. CASE EndLevel
  BY <1>1, <1>4, EndLevelKeeps
<1>5. CASE UNCHANGED collectorVars
  BY <1>1, <1>5 DEF collectorVars, CollectorInv, CollectorTypes, ScheduleInv, BetweenLevels, InLevel,
                    CollectsNearest, NodeAnswers
<1>6. QED  BY <1>1, <1>2, <1>3, <1>4, <1>5 DEF CollectorNext

\* What a collection gathers is what is nearest to its seeds, whatever the
\* registries are, however the fetches of a level interleave and fail, and at
\* any depth and number of packages (the loop of collect, collector.rs).
THEOREM NearestIsCollected == CollectorSpec => []CollectsNearest
<1>1. CollectorInv => CollectsNearest
  BY DEF CollectorInv
<1>2. QED  BY CollectorInitial, CollectorStep, <1>1, PTL DEF CollectorSpec

-----------------------------------------------------------------------------
(* A focus on a package.                                                   *)

\* How many of a set of names come before one.
RankIn(S, p) == Cardinality({q \in S : q < p})

\* The ranks are numbers below the size of the set, in the order of the names.
LEMMA RanksDiffer ==
    ASSUME NEW S \in SUBSET Nat, IsFiniteSet(S)
    PROVE  /\ \A p \in S : RankIn(S, p) \in 0..(Cardinality(S) - 1)
           /\ \A p, q \in S : p < q => RankIn(S, p) < RankIn(S, q)
           /\ \A p, q \in S : RankIn(S, p) = RankIn(S, q) => p = q
<1>1. Cardinality(S) \in Nat
  BY FS_CardinalityType
<1>2. ASSUME NEW p \in S
      PROVE  RankIn(S, p) \in Nat /\ RankIn(S, p) <= Cardinality(S) - 1
  <2> DEFINE T == {q \in S : q < p}
  <2>1. p \notin T
    OBVIOUS
  <2>2. PICK U : U = S \ {p}
    OBVIOUS
  <2>3. IsFiniteSet(U) /\ Cardinality(U) = Cardinality(S) - 1
    BY <2>2, FS_RemoveElement
  <2>4. T \in SUBSET U
    BY <2>1, <2>2
  <2> HIDE DEF T
  <2>5. IsFiniteSet(T) /\ Cardinality(T) <= Cardinality(U)
    BY <2>3, <2>4, FS_Subset
  <2>6. Cardinality(T) \in Nat
    BY <2>5, FS_CardinalityType
  <2>7. QED  BY <1>1, <2>3, <2>5, <2>6 DEF RankIn, T
<1>3. ASSUME NEW p \in S, NEW q \in S, p < q PROVE RankIn(S, p) < RankIn(S, q)
  <2> DEFINE T == {r \in S : r < p}
           U == {r \in S : r < q}
  <2>1. p \notin T /\ T \in SUBSET S /\ U \in SUBSET S
    OBVIOUS
  <2>2. ASSUME NEW r \in T PROVE r \in U
    <3>1. r \in Nat /\ p \in Nat /\ q \in Nat /\ r < p
      OBVIOUS
    <3>2. r < q
      BY <1>3, <3>1
    <3>3. QED  BY <3>2
  <2>3. T \cup {p} \in SUBSET U
    BY <1>3, <2>2
  <2> HIDE DEF T, U
  <2>4. IsFiniteSet(T) /\ IsFiniteSet(U)
    BY <2>1, FS_Subset
  <2>5. IsFiniteSet(T \cup {p}) /\ Cardinality(T \cup {p}) = Cardinality(T) + 1
    BY <2>1, <2>4, FS_AddElement
  <2>6. Cardinality(T \cup {p}) <= Cardinality(U)
    BY <2>3, <2>4, FS_Subset
  <2>7. Cardinality(T) \in Nat /\ Cardinality(U) \in Nat
    BY <2>4, FS_CardinalityType
  <2>8. QED  BY <2>5, <2>6, <2>7 DEF RankIn, T, U
<1>4. ASSUME NEW p \in S, NEW q \in S, RankIn(S, p) = RankIn(S, q) PROVE p = q
  <2>1. p < q \/ q < p \/ p = q
    OBVIOUS
  <2>2. RankIn(S, p) \in Nat /\ RankIn(S, q) \in Nat
    BY <1>2
  <2>3. QED  BY <1>3, <1>4, <2>1, <2>2
<1>5. \A p \in S : RankIn(S, p) \in 0..(Cardinality(S) - 1)
  BY <1>1, <1>2
<1>6. QED  BY <1>3, <1>4, <1>5

\* Each rank is taken, and by one name.
LEMMA RanksAreTaken ==
    ASSUME NEW S \in SUBSET Nat, IsFiniteSet(S), NEW k \in 0..(Cardinality(S) - 1)
    PROVE  \E p \in S : RankIn(S, p) = k
<1>1. PICK n \in Nat : n = Cardinality(S)
  BY FS_CardinalityType
<1> DEFINE f == [p \in S |-> RankIn(S, p)]
<1>2. f \in Injection(S, 0..(n - 1))
  BY <1>1, RanksDiffer DEF Injection, IsInjective
<1>3. IsFiniteSet(0..(n - 1)) /\ Cardinality(0..(n - 1)) = n
  BY FS_Interval
<1>4. f \in Surjection(S, 0..(n - 1))
  <2> HIDE DEF f
  <2>1. QED  BY <1>1, <1>2, <1>3, FS_Injection
<1>5. \E p \in S : f[p] = k
  BY <1>1, <1>4 DEF Surjection
<1>6. QED  BY <1>5

\* The first of a set, as many as there is room for.
LEMMA FirstOfSet ==
    ASSUME NEW S \in SUBSET Nat, IsFiniteSet(S), NEW room \in Nat
    PROVE  LET first == {p \in S : RankIn(S, p) < room}
           IN  IF Cardinality(S) <= room THEN first = S
               ELSE first # S /\ Cardinality(first) = room
<1> DEFINE first == {p \in S : RankIn(S, p) < room}
<1>1. PICK n \in Nat : n = Cardinality(S)
  BY FS_CardinalityType
<1>2. \A p \in S : RankIn(S, p) \in 0..(n - 1)
  BY <1>1, RanksDiffer
<1>3. CASE n <= room
  <2>1. ASSUME NEW p \in S PROVE RankIn(S, p) < room
    <3>1. PICK k \in 0..(n - 1) : k = RankIn(S, p)
      BY <1>2
    <3>2. k < room
      BY <1>3
    <3>3. QED  BY <3>1, <3>2
  <2>2. first = S
    BY <2>1
  <2>3. QED  BY <1>1, <1>3, <2>2
<1>4. CASE ~(n <= room)
  <2>1. 0..(room - 1) \subseteq 0..(n - 1) /\ room \in 0..(n - 1)
    BY <1>4
  <2>2. first # S
    <3>1. PICK p \in S : RankIn(S, p) = room
      BY <1>1, <2>1, RanksAreTaken
    <3>2. p \notin first
      BY <3>1
    <3>3. QED  BY <3>2
  <2> DEFINE f == [p \in first |-> RankIn(S, p)]
  <2>3. f \in Injection(first, 0..(room - 1))
    <3>1. ASSUME NEW p \in first PROVE p \in S /\ RankIn(S, p) \in 0..(room - 1)
      <4>1. PICK k \in 0..(n - 1) : k = RankIn(S, p) /\ k < room
        BY <1>2
      <4>2. QED  BY <4>1
    <3>2. \A p, q \in S : RankIn(S, p) = RankIn(S, q) => p = q
      BY RanksDiffer
    <3> HIDE DEF first
    <3>3. QED  BY <3>1, <3>2 DEF Injection, IsInjective
  <2>4. IsFiniteSet(0..(room - 1)) /\ Cardinality(0..(room - 1)) = room
    BY FS_Interval
  <2>5. f \in Surjection(first, 0..(room - 1))
    <3>1. ASSUME NEW k \in 0..(room - 1) PROVE \E p \in first : f[p] = k
      <4>1. k \in 0..(Cardinality(S) - 1)
        BY <1>1, <2>1
      <4>2. PICK p \in S : RankIn(S, p) = k
        BY <4>1, RanksAreTaken
      <4>3. p \in first
        BY <4>2
      <4>4. QED  BY <4>2, <4>3
    <3>2. f \in [first -> 0..(room - 1)]
      BY <2>3 DEF Injection
    <3> HIDE DEF f
    <3>3. QED  BY <3>1, <3>2 DEF Surjection
  <2>6. Cardinality(first) = room
    <3> HIDE DEF f, first
    <3>1. Cardinality(first) = Cardinality(0..(room - 1))
      BY <2>3, <2>4, <2>5, FS_Injection
    <3>2. QED  BY <2>4, <3>1
  <2>7. QED  BY <1>1, <1>4, <2>2, <2>6
<1>5. QED  BY <1>3, <1>4

\* A set in the order of its names.
Ordered(S, level) ==
    [i \in 1..Cardinality(S) |-> <<CHOOSE p \in S : Cardinality({q \in S : q < p}) = i - 1, level>>]

\* A sequence has all of a set, and says of each that it is of the level.
IsOrder(o, S, level) ==
    /\ o \in Seq(Registered \X Nat) /\ Len(o) = Cardinality(S)
    /\ \A i \in DOMAIN o : o[i][1] \in S /\ o[i][2] = level
    /\ \A p \in S : \E i \in DOMAIN o : o[i][1] = p

LEMMA OrderedIs ==
    ASSUME NEW S \in SUBSET Registered, NEW level \in Nat
    PROVE  IsOrder(Ordered(S, level), S, level)
<1>1. S \in SUBSET Nat /\ IsFiniteSet(S)
  BY CollectorAssumption, FS_Subset
<1>2. PICK n \in Nat : n = Cardinality(S)
  BY <1>1, FS_CardinalityType
<1> DEFINE name(i) == CHOOSE p \in S : RankIn(S, p) = i - 1
<1>3. ASSUME NEW i \in 1..n PROVE name(i) \in S /\ RankIn(S, name(i)) = i - 1
  <2>1. i - 1 \in 0..(Cardinality(S) - 1)
    BY <1>2
  <2>2. \E p \in S : RankIn(S, p) = i - 1
    BY <1>1, <2>1, RanksAreTaken
  <2>3. QED  BY <2>2
<1>4. Ordered(S, level) = [i \in 1..n |-> <<name(i), level>>]
  BY <1>2 DEF Ordered, RankIn
<1>5. ASSUME NEW p \in S PROVE \E i \in 1..n : name(i) = p
  <2>1. RankIn(S, p) \in 0..(n - 1)
    BY <1>1, <1>2, RanksDiffer
  <2>2. PICK i \in 1..n : i - 1 = RankIn(S, p)
    <3>1. RankIn(S, p) + 1 \in 1..n /\ (RankIn(S, p) + 1) - 1 = RankIn(S, p)
      BY <2>1
    <3>2. QED  BY <3>1
  <2>3. name(i) \in S /\ RankIn(S, name(i)) = RankIn(S, p)
    BY <1>3, <2>2
  <2> HIDE DEF name
  <2>4. name(i) = p
    BY <1>1, <2>3, RanksDiffer
  <2>5. QED  BY <2>4
<1>6. PICK o : o = Ordered(S, level)
  OBVIOUS
<1> HIDE DEF name
<1>7. /\ o \in Seq(Registered \X Nat) /\ Len(o) = n /\ DOMAIN o = 1..n
      /\ \A i \in 1..n : o[i] = <<name(i), level>>
  <2>1. \A i \in 1..n : <<name(i), level>> \in Registered \X Nat
    BY <1>3
  <2>2. o = [i \in 1..n |-> <<name(i), level>>]
    BY <1>4, <1>6
  <2>3. QED  BY <2>1, <2>2
<1>8. \A i \in 1..n : o[i][1] \in S /\ o[i][2] = level /\ o[i][1] = name(i)
  BY <1>3, <1>7
<1>9. \A p \in S : \E i \in 1..n : o[i][1] = p
  BY <1>5, <1>8
<1>10. IsOrder(o, S, level)
  BY <1>2, <1>7, <1>8, <1>9 DEF IsOrder
<1>11. QED  BY <1>6, <1>10

\* Two sequences, the one after the other.
LEMMA Joining ==
    ASSUME NEW S, NEW s \in Seq(S), NEW t \in Seq(S), NEW n, n = Len(s), NEW m, m = Len(t),
           NEW joined, joined = s \o t
    PROVE  /\ joined \in Seq(S) /\ Len(joined) = n + m /\ DOMAIN joined = 1..(n + m)
           /\ \A i \in 1..(n + m) : joined[i] = IF i <= n THEN s[i] ELSE t[i - n]
OBVIOUS

\* A focus, after a number of steps.
FocusTypes == [visited : SUBSET Registered, truncated : BOOLEAN, queue : Seq(Registered \X Nat)]

\* The packages of a queue, which are still to be asked.
AskedOf(queue) == {queue[i][1] : i \in DOMAIN queue}

\* It has stopped for want of room, in the midst of a level.
Cut(edges, depth, limit, target, visited) ==
    /\ Cardinality(visited) = limit
    /\ \E d \in 0..depth : /\ d = 0 \/ Within({target}, edges, d - 1) \subseteq visited
                           /\ visited \subseteq Within({target}, edges, d)

\* What is asked next: a package of the level it is said to be of, in an order
\* of levels of which there are at most two.
QueueInv(edges, depth, target, visited, queue) ==
    /\ \A i \in DOMAIN queue :
           /\ queue[i][1] \in visited /\ queue[i][2] <= depth
           /\ queue[i][1] \in Within({target}, edges, queue[i][2])
           /\ queue[i][2] # 0 => queue[i][1] \notin Within({target}, edges, queue[i][2] - 1)
    /\ \A i, j \in DOMAIN queue :
           i <= j => queue[i][2] <= queue[j][2] /\ queue[j][2] <= queue[i][2] + 1
    /\ queue # <<>> => /\ Within({target}, edges, queue[1][2]) \subseteq visited
                       /\ visited \subseteq Within({target}, edges, queue[1][2] + 1)

\* What was asked is known with what depends on it, or is of the last level.
AskedInv(edges, depth, target, visited, queue) ==
    \A x \in visited \ AskedOf(queue) :
        \/ depth = 0 \/ x \notin Within({target}, edges, depth - 1)
        \/ Led(edges, {x}) \subseteq visited

\* What holds of a focus after n steps.  Each of them has taken a package from
\* the queue, so that there are not more of them than packages.
FocusInv(edges, depth, limit, target, n, s) ==
    /\ s \in FocusTypes /\ Cardinality(s.visited) <= limit /\ target \in s.visited
    /\ s.queue = <<>> \/ n + Len(s.queue) <= Cardinality(s.visited)
    /\ IF s.truncated THEN s.queue = <<>> /\ Cut(edges, depth, limit, target, s.visited)
       ELSE /\ s.visited \subseteq Within({target}, edges, depth)
            /\ QueueInv(edges, depth, target, s.visited, s.queue)
            /\ AskedInv(edges, depth, target, s.visited, s.queue)

\* The queue without its head, and with a level more at its end.
IsGrown(longer, queue, S, level, m, c) ==
    /\ m + 1 = Len(queue) /\ c = Cardinality(S) /\ Len(longer) = m + c
    /\ DOMAIN longer = 1..(m + c) /\ DOMAIN queue = 1..(m + 1)
    /\ \A i \in 1..m : i + 1 \in 1..(m + 1) /\ longer[i] = queue[i + 1]
    /\ \A i \in 1..(m + c) : i \notin 1..m => longer[i][1] \in S /\ longer[i][2] = level
    /\ AskedOf(longer) = {queue[i][1] : i \in 2..(m + 1)} \cup S

LEMMA QueueGrows ==
    ASSUME NEW queue \in Seq(Registered \X Nat), queue # <<>>, NEW S \in SUBSET Registered,
           NEW level \in Nat
    PROVE  \E m \in Nat, c \in Nat :
               IsGrown(Tail(queue) \o Ordered(S, level), queue, S, level, m, c)
<1>1. PICK m \in Nat : m + 1 = Len(queue) /\ DOMAIN queue = 1..(m + 1)
  <2>1. Len(queue) \in Nat /\ Len(queue) # 0 /\ DOMAIN queue = 1..Len(queue)
    OBVIOUS
  <2>2. Len(queue) - 1 \in Nat /\ (Len(queue) - 1) + 1 = Len(queue)
    BY <2>1
  <2>3. QED  BY <2>1, <2>2
<1>2. PICK tail : tail = Tail(queue)
  OBVIOUS
<1>3. /\ tail \in Seq(Registered \X Nat) /\ Len(tail) = m /\ DOMAIN tail = 1..m
      /\ \A i \in 1..m : tail[i] = queue[i + 1]
  BY <1>1, <1>2
<1>4. PICK o : o = Ordered(S, level)
  OBVIOUS
<1>5. PICK c \in Nat : c = Cardinality(S)
  BY CollectorAssumption, FS_Subset, FS_CardinalityType
<1>6. /\ o \in Seq(Registered \X Nat) /\ Len(o) = c /\ DOMAIN o = 1..c
      /\ \A i \in 1..c : o[i][1] \in S /\ o[i][2] = level
      /\ \A p \in S : \E i \in 1..c : o[i][1] = p
  <2>1. IsOrder(o, S, level)
    BY <1>4, OrderedIs
  <2>2. o \in Seq(Registered \X Nat) /\ Len(o) = c /\ DOMAIN o = 1..Len(o)
    BY <1>5, <2>1 DEF IsOrder
  <2>3. DOMAIN o = 1..c
    BY <2>2
  <2>4. QED  BY <2>1, <2>2, <2>3 DEF IsOrder
<1>7. PICK longer : longer = tail \o o
  OBVIOUS
<1>8. /\ longer \in Seq(Registered \X Nat) /\ Len(longer) = m + c /\ DOMAIN longer = 1..(m + c)
      /\ \A i \in 1..(m + c) : longer[i] = IF i <= m THEN tail[i] ELSE o[i - m]
  BY <1>3, <1>6, <1>7, Joining
<1>9. ASSUME NEW i \in 1..m PROVE i + 1 \in 1..(m + 1) /\ longer[i] = queue[i + 1] /\ i \in 1..(m + c)
  <2>1. i \in 1..(m + c) /\ i <= m
    BY <1>5
  <2>2. QED  BY SMTT(40), <1>3, <1>8, <2>1
<1>10. ASSUME NEW i \in 1..(m + c), i \notin 1..m
       PROVE  i - m \in 1..c /\ longer[i] = o[i - m]
  <2>1. ~(i <= m) /\ i - m \in 1..c
    BY <1>10
  <2>2. QED  BY <1>8, <2>1
<1>11. \A i \in 1..(m + c) : i \notin 1..m => longer[i][1] \in S /\ longer[i][2] = level
  BY <1>6, <1>10
<1>12. ASSUME NEW x \in AskedOf(longer) PROVE x \in {queue[i][1] : i \in 2..(m + 1)} \cup S
  <2>1. PICK i \in 1..(m + c) : x = longer[i][1]
    BY <1>8 DEF AskedOf
  <2>2. CASE i \in 1..m
    <3>1. i + 1 \in 2..(m + 1)
      BY <2>2
    <3>2. QED  BY <1>9, <2>1, <2>2, <3>1
  <2>3. QED  BY <1>11, <2>1, <2>2
<1>13. ASSUME NEW i \in 2..(m + 1) PROVE queue[i][1] \in AskedOf(longer)
  <2>1. i - 1 \in 1..m /\ (i - 1) + 1 = i
    OBVIOUS
  <2>2. longer[i - 1] = queue[i] /\ i - 1 \in 1..(m + c)
    BY <1>9, <2>1
  <2>3. QED  BY <1>8, <2>2 DEF AskedOf
<1>14. ASSUME NEW p \in S PROVE p \in AskedOf(longer)
  <2>1. PICK i \in 1..c : o[i][1] = p
    BY <1>6
  <2>2. i + m \in 1..(m + c) /\ i + m \notin 1..m /\ (i + m) - m = i
    OBVIOUS
  <2>3. longer[i + m] = o[i]
    BY <1>10, <2>2
  <2>4. QED  BY <1>8, <2>1, <2>2, <2>3 DEF AskedOf
<1>15. AskedOf(longer) = {queue[i][1] : i \in 2..(m + 1)} \cup S
  BY <1>12, <1>13, <1>14
<1>16. IsGrown(longer, queue, S, level, m, c)
  BY <1>1, <1>5, <1>8, <1>9, <1>11, <1>15 DEF IsGrown
<1>17. QED  BY SMTT(40), <1>2, <1>4, <1>7, <1>16

\* What a step does: its package, what is new of its dependents, and what is
\* chosen of that.
IsFocusStep(edges, depth, limit, s, t, p, d, new, chosen) ==
    /\ s.queue[1] = <<p, d>>
    /\ new = IF d >= depth THEN {} ELSE Led(edges, {p}) \ s.visited
    /\ chosen \subseteq new
    /\ chosen = new \/ Cardinality(s.visited \cup chosen) = limit
    /\ Cardinality(s.visited \cup chosen) = Cardinality(s.visited) + Cardinality(chosen)
    /\ Cardinality(s.visited \cup chosen) <= limit
    /\ t.visited = s.visited \cup chosen /\ t.truncated = (chosen # new)
    /\ t.queue = IF chosen # new THEN <<>> ELSE Tail(s.queue) \o Ordered(chosen, d + 1)

\* A step is of that kind.
LEMMA FocusStepIs ==
    ASSUME NEW edges \in SUBSET (Registered \X Registered), NEW depth \in Nat, NEW limit \in Nat,
           NEW s \in FocusTypes, s.queue # <<>>, Cardinality(s.visited) <= limit
    PROVE  /\ FocusStep(edges, depth, limit, s) \in FocusTypes
           /\ \E p \in Registered, d \in Nat, new \in SUBSET Registered, chosen \in SUBSET Registered :
                  IsFocusStep(edges, depth, limit, s, FocusStep(edges, depth, limit, s),
                              p, d, new, chosen)
<1>1. PICK known \in SUBSET Registered, queue \in Seq(Registered \X Nat) :
          known = s.visited /\ queue = s.queue /\ queue # <<>>
  BY DEF FocusTypes
<1>2. PICK p \in Registered, d \in Nat : queue[1] = <<p, d>> /\ Head(queue) = queue[1]
  <2>1. queue[1] \in Registered \X Nat /\ Head(queue) = queue[1]
    BY <1>1
  <2>2. QED  BY <2>1
<1>3. PICK new : new = IF d >= depth THEN {} ELSE Led(edges, {p}) \ known
  OBVIOUS
<1>4. new \in SUBSET Registered /\ new \cap known = {}
  BY <1>3 DEF Led
<1>5. /\ IsFiniteSet(new) /\ new \in SUBSET Nat /\ IsFiniteSet(known)
      /\ Cardinality(known) \in Nat
  BY <1>4, CollectorAssumption, FS_Subset, FS_CardinalityType
<1>6. PICK k \in Nat : k = Cardinality(known)
  BY <1>5
<1>60. k <= limit
  BY <1>1, <1>6
<1>61. PICK room \in Nat : room = limit - k
  BY <1>60
<1>62. ASSUME NEW c \in Nat, c <= room PROVE k + c <= limit /\ (c = room => k + c = limit)
  BY <1>60, <1>61, <1>62
<1>7. PICK chosen : chosen = {q \in new : RankIn(new, q) < room}
  OBVIOUS
<1>8. IF Cardinality(new) <= room THEN chosen = new ELSE chosen # new /\ Cardinality(chosen) = room
  BY <1>5, <1>7, FirstOfSet
<1>9. chosen \in SUBSET new /\ chosen \in SUBSET Registered
  BY <1>4, <1>7
<1>10. PICK c \in Nat : c = Cardinality(chosen) /\ c <= room /\ (chosen # new => c = room)
  <2>1. IsFiniteSet(chosen) /\ Cardinality(chosen) \in Nat
    BY <1>5, <1>9, FS_Subset, FS_CardinalityType
  <2>2. QED  BY <1>8, <2>1
<1>11. Cardinality(known \cup chosen) = k + c
  <2>1. IsFiniteSet(chosen)
    BY <1>5, <1>9, FS_Subset
  <2>2. known \cap chosen = {}
    BY <1>4, <1>9
  <2>3. Cardinality(known \cap chosen) = 0
    BY <2>2, FS_EmptySet
  <2>4. Cardinality(known \cup chosen) = Cardinality(known) + Cardinality(chosen) - Cardinality(known \cap chosen)
    BY <1>5, <2>1, FS_Union
  <2>5. QED  BY <1>6, <1>10, <2>3, <2>4
<1>12. PICK t : t = [visited |-> known \cup chosen, truncated |-> chosen # new,
                     queue |-> IF chosen # new THEN <<>> ELSE Tail(queue) \o Ordered(chosen, d + 1)]
  OBVIOUS
<1>13. t = FocusStep(edges, depth, limit, s)
  <2>1. {e[2] : e \in {x \in edges : x[1] = p}} = Led(edges, {p})
    BY DEF Led
  <2>2. Head(s.queue) = <<p, d>> /\ s.visited = known /\ s.queue = queue
    BY <1>1, <1>2
  <2>3. limit - Cardinality(known) = room
    BY <1>6, <1>61
  <2>4. <<p, d>>[1] = p /\ <<p, d>>[2] = d
    OBVIOUS
  <2>5. chosen = {q \in new : Cardinality({r \in new : r < q}) < room}
    BY <1>7 DEF RankIn
  <2>6. FocusStep(edges, depth, limit, s) =
            [visited |-> known \cup chosen, truncated |-> chosen # new,
             queue |-> IF chosen # new THEN <<>>
                       ELSE Tail(queue) \o [i \in 1..Cardinality(chosen) |->
                           <<CHOOSE q \in chosen : Cardinality({r \in chosen : r < q}) = i - 1, d + 1>>]]
    <3> DEFINE head == Head(s.queue)
               new0 == IF head[2] >= depth THEN {}
                       ELSE {e[2] : e \in {x \in edges : x[1] = head[1]}} \ s.visited
               chosen0 == {q \in new0 : Cardinality({r \in new0 : r < q}) < limit - Cardinality(s.visited)}
               places(S, level) ==
                   [i \in 1..Cardinality(S) |->
                       <<CHOOSE q \in S : Cardinality({r \in S : r < q}) = i - 1, level>>]
    <3>1. FocusStep(edges, depth, limit, s) =
              [visited |-> s.visited \cup chosen0, truncated |-> chosen0 # new0,
               queue |-> IF chosen0 # new0 THEN <<>>
                         ELSE Tail(s.queue) \o places(chosen0, head[2] + 1)]
      BY DEF FocusStep
    <3>2. head[1] = p /\ head[2] = d
      BY <2>2, <2>4
    <3> HIDE DEF head
    <3>3. new0 = new
      BY <1>3, <2>1, <2>2, <3>2
    <3> HIDE DEF new0
    <3>4. chosen0 = chosen
      BY <2>2, <2>3, <2>5, <3>3
    <3> HIDE DEF chosen0, places
    <3>5. FocusStep(edges, depth, limit, s) =
              [visited |-> known \cup chosen, truncated |-> chosen # new,
               queue |-> IF chosen # new THEN <<>> ELSE Tail(queue) \o places(chosen, d + 1)]
      BY <2>2, <3>1, <3>2, <3>3, <3>4
    <3>6. QED  BY <3>5 DEF places
  <2>7. QED  BY <1>12, <2>6 DEF Ordered
<1>14. t \in FocusTypes
  <2>1. d + 1 \in Nat
    OBVIOUS
  <2>2. Ordered(chosen, d + 1) \in Seq(Registered \X Nat)
    BY <1>9, <2>1, OrderedIs DEF IsOrder
  <2>3. PICK o \in Seq(Registered \X Nat) : o = Ordered(chosen, d + 1)
    BY <2>2
  <2>4. Tail(queue) \o o \in Seq(Registered \X Nat) /\ <<>> \in Seq(Registered \X Nat)
    BY <1>1
  <2>5. t.queue \in Seq(Registered \X Nat)
    BY <1>12, <2>3, <2>4
  <2>6. QED  BY <1>9, <1>12, <2>5 DEF FocusTypes
<1>15. IsFocusStep(edges, depth, limit, s, t, p, d, new, chosen)
  <2>1. /\ t.visited = known \cup chosen /\ t.truncated = (chosen # new)
        /\ t.queue = IF chosen # new THEN <<>> ELSE Tail(queue) \o Ordered(chosen, d + 1)
    BY <1>12
  <2>2. k + c <= limit /\ (c = room => k + c = limit)
    BY <1>10, <1>62
  <2>3. QED  BY <1>1, <1>2, <1>3, <1>6, <1>9, <1>10, <1>11, <2>1, <2>2 DEF IsFocusStep
<1>16. QED  BY <1>4, <1>9, <1>13, <1>14, <1>15

\* The head of the queue, what is new of it, and the queue without it.
Asks(edges, depth, known, queue, p, d, new, longer) ==
    /\ queue # <<>> /\ queue[1] = <<p, d>>
    /\ new = IF d >= depth THEN {} ELSE Led(edges, {p}) \ known
    /\ longer = Tail(queue) \o Ordered(new, d + 1)

\* After a step the queue is in the order of its levels still, and what was
\* asked is known with what depends on it.
LEMMA QueueKept ==
    ASSUME NEW edges \in SUBSET (Registered \X Registered), NEW depth \in Nat, NEW target \in Registered,
           NEW known \in SUBSET Registered, NEW queue \in Seq(Registered \X Nat),
           QueueInv(edges, depth, target, known, queue), AskedInv(edges, depth, target, known, queue),
           known \subseteq Within({target}, edges, depth),
           NEW p \in Registered, NEW d \in Nat, NEW new \in SUBSET Registered,
           NEW longer, Asks(edges, depth, known, queue, p, d, new, longer)
    PROVE  /\ known \cup new \subseteq Within({target}, edges, depth)
           /\ QueueInv(edges, depth, target, known \cup new, longer)
           /\ AskedInv(edges, depth, target, known \cup new, longer)
<1> DEFINE W(i) == Within({target}, edges, i)
<1>1. PICK lvl \in Nat : lvl = d + 1
  OBVIOUS
<1>2. PICK m \in Nat, c \in Nat :
          /\ m + 1 = Len(queue) /\ c = Cardinality(new) /\ Len(longer) = m + c
          /\ DOMAIN longer = 1..(m + c) /\ DOMAIN queue = 1..(m + 1)
          /\ \A i \in 1..m : i + 1 \in 1..(m + 1) /\ longer[i] = queue[i + 1]
          /\ \A i \in 1..(m + c) : i \notin 1..m => longer[i][1] \in new /\ longer[i][2] = lvl
          /\ AskedOf(longer) = {queue[i][1] : i \in 2..(m + 1)} \cup new
  <2>1. longer = Tail(queue) \o Ordered(new, lvl) /\ queue # <<>>
    BY <1>1 DEF Asks
  <2>2. PICK m \in Nat, c \in Nat : IsGrown(longer, queue, new, lvl, m, c)
    BY <2>1, QueueGrows
  <2>3. QED  BY <2>2 DEF IsGrown
<1>3. /\ \A i \in 1..(m + 1) :
             /\ queue[i][1] \in known /\ queue[i][2] <= depth /\ queue[i][1] \in W(queue[i][2])
             /\ queue[i][2] # 0 => queue[i][1] \notin W(queue[i][2] - 1)
      /\ \A i, j \in 1..(m + 1) : i <= j => queue[i][2] <= queue[j][2] /\ queue[j][2] <= queue[i][2] + 1
  BY <1>2 DEF QueueInv
<1>4. 1 \in 1..(m + 1) /\ queue[1][1] = p /\ queue[1][2] = d /\ queue # <<>>
  BY DEF Asks
<1>5. W(d) \subseteq known /\ known \subseteq W(lvl)
  BY <1>1, <1>4 DEF QueueInv
<1>6. p \in known /\ d <= depth /\ p \in W(d) /\ (d # 0 => p \notin W(d - 1))
  BY <1>3, <1>4
<1>7. \A i \in 1..(m + 1) : queue[i][2] \in Nat /\ d <= queue[i][2] /\ queue[i][2] <= lvl
  <2>1. ASSUME NEW i \in 1..(m + 1) PROVE queue[i][2] \in Nat /\ d <= queue[i][2] /\ queue[i][2] <= d + 1
    <3>1. queue[i] \in Registered \X Nat
      BY SMTT(40), <1>2
    <3>2. 1 <= i /\ 1 \in 1..(m + 1)
      OBVIOUS
    <3>3. QED  BY <1>3, <1>4, <3>1, <3>2
  <2>2. QED  BY <1>1, <2>1
<1>8. W(lvl) = W(d) \cup Led(edges, W(d))
  BY ZenonT(60), <1>1, WithinNext
<1>9. Led(edges, {p}) \subseteq W(lvl)
  BY <1>6, <1>8 DEF Led
<1>10. ASSUME NEW x \in new PROVE d < depth /\ lvl <= depth /\ x \in W(lvl) /\ x \notin known /\ x \notin W(d)
  <2>1. d < depth /\ x \in Led(edges, {p}) /\ x \notin known
    BY DEF Asks
  <2>2. lvl <= depth
    BY <1>1, <2>1
  <2>3. x \in W(lvl) /\ x \notin W(d)
    <3> HIDE DEF W
    <3>1. QED  BY <1>5, <1>9, <2>1
  <2>4. QED  BY <2>1, <2>2, <2>3
<1>11. known \cup new \subseteq W(depth)
  <2>1. ASSUME NEW x \in new PROVE x \in W(depth)
    <3>1. W(lvl) \subseteq W(depth)
      BY <1>10, WithinGrows
    <3>2. QED  BY <1>10, <3>1
  <2>2. QED  BY <2>1
<1> HIDE DEF W
<1>12. ASSUME NEW x \in (known \cup new) \ AskedOf(longer)
       PROVE  \/ depth = 0 \/ x \notin W(depth - 1)
              \/ Led(edges, {x}) \subseteq known \cup new
  <2>1. x \in known
    BY <1>2
  <2>2. CASE x \in AskedOf(queue)
    <3>1. PICK i \in 1..(m + 1) : queue[i][1] = x
      BY <1>2, <2>2 DEF AskedOf
    <3>2. i = 1
      <4>1. i \notin 2..(m + 1)
        BY <1>2, <3>1
      <4>2. QED  BY <4>1
    <3>3. x = p
      BY <1>4, <3>1, <3>2
    <3>4. CASE d >= depth
      <4>1. d = depth
        BY <1>6, <3>4
      <4>2. QED  BY <1>6, <3>3, <4>1
    <3>5. CASE ~(d >= depth)
      BY <3>3, <3>5 DEF Asks
    <3>6. QED  BY <3>4, <3>5
  <2>3. CASE x \notin AskedOf(queue)
    BY <2>1, <2>3 DEF AskedInv, W
  <2>4. QED  BY <2>2, <2>3
<1>13. AskedInv(edges, depth, target, known \cup new, longer)
  BY <1>12 DEF AskedInv, W
<1>14. ASSUME NEW i \in 1..(m + c), i \notin 1..m
       PROVE  longer[i][1] \in new /\ longer[i][2] = lvl
  BY <1>2, <1>14
<1>15. ASSUME NEW i \in 1..m PROVE i + 1 \in 1..(m + 1) /\ longer[i] = queue[i + 1]
  BY <1>2
<1>16. ASSUME NEW i \in 1..(m + c)
       PROVE  /\ longer[i][1] \in known \cup new /\ longer[i][2] <= depth
              /\ longer[i][2] \in Nat /\ d <= longer[i][2] /\ longer[i][2] <= lvl
              /\ longer[i][1] \in W(longer[i][2])
              /\ longer[i][2] # 0 => longer[i][1] \notin W(longer[i][2] - 1)
  <2>1. CASE i \in 1..m
    <3>1. PICK k \in 1..(m + 1) : k = i + 1 /\ longer[i] = queue[k]
      BY <1>15, <2>1
    <3>2. QED  BY <1>3, <1>7, <3>1
  <2>2. CASE i \notin 1..m
    <3>1. longer[i][1] \in new /\ longer[i][2] = lvl
      BY <1>14, <2>2
    <3>2. d <= lvl /\ lvl <= lvl /\ lvl # 0 /\ lvl - 1 = d
      BY <1>1
    <3>3. QED  BY <1>10, <3>1, <3>2
  <2>3. QED  BY <2>1, <2>2
<1>17. ASSUME NEW i \in 1..(m + c), NEW j \in 1..(m + c), i <= j
       PROVE  longer[i][2] <= longer[j][2] /\ longer[j][2] <= longer[i][2] + 1
  <2>1. CASE i \notin 1..m
    <3>1. j \notin 1..m
      BY <1>17, <2>1
    <3>2. longer[i][2] = lvl /\ longer[j][2] = lvl
      BY <1>14, <2>1, <3>1
    <3>3. QED  BY <3>2
  <2>2. CASE i \in 1..m /\ j \notin 1..m
    <3>1. longer[j][2] = lvl
      BY <1>14, <2>2
    <3>2. PICK a \in Nat : a = longer[i][2] /\ d <= a /\ a <= lvl
      BY <1>16
    <3>3. QED  BY <1>1, <3>1, <3>2
  <2>3. CASE i \in 1..m /\ j \in 1..m
    <3>1. PICK k \in 1..(m + 1) : k = i + 1 /\ longer[i] = queue[k]
      BY <1>15, <2>3
    <3>2. PICK l \in 1..(m + 1) : l = j + 1 /\ longer[j] = queue[l]
      BY <1>15, <2>3
    <3>3. k <= l
      BY <1>17, <3>1, <3>2
    <3>4. QED  BY <1>3, <3>1, <3>2, <3>3
  <2>4. QED  BY <2>1, <2>2, <2>3
<1>18. ASSUME longer # <<>>
       PROVE  W(longer[1][2]) \subseteq known \cup new /\ known \cup new \subseteq W(longer[1][2] + 1)
  <2>1. 1 \in 1..(m + c)
    <3>1. longer \in Seq(Registered \X Nat)
      <4>1. Ordered(new, d + 1) \in Seq(Registered \X Nat)
        BY <1>1, OrderedIs DEF IsOrder
      <4>2. PICK o \in Seq(Registered \X Nat) : o = Ordered(new, d + 1)
        BY <4>1
      <4>3. longer = Tail(queue) \o o
        BY <4>2 DEF Asks
      <4>4. QED  BY <1>4, <4>3
    <3>2. Len(longer) # 0
      BY <1>18, <3>1
    <3>3. QED  BY <1>2, <3>2
  <2>2. PICK h \in Nat : h = longer[1][2] /\ d <= h /\ h <= lvl
    BY <1>16, <2>1
  <2>3. known \cup new \subseteq W(lvl)
    BY <1>5, <1>10
  <2>4. CASE h = d
    BY <1>1, <1>5, <2>2, <2>3, <2>4
  <2>5. CASE h # d
    <3>1. h = lvl
      BY <1>1, <2>2, <2>5
    <3>2. W(lvl) \subseteq W(lvl + 1)
      BY WithinGrows DEF W
    <3>3. ASSUME NEW x \in W(d) PROVE Led(edges, {x}) \subseteq known \cup new
      <4>1. x \notin AskedOf(longer)
        <5>1. SUFFICES ASSUME NEW i \in 1..(m + c), longer[i][1] = x PROVE FALSE
          BY <1>2 DEF AskedOf
        <5>2. longer[1][2] <= longer[i][2]
          BY <1>17, <2>1
        <5>3. PICK a \in Nat : a = longer[i][2] /\ a <= lvl /\ (a # 0 => x \notin W(a - 1))
          BY <1>16, <5>1
        <5>4. a = lvl /\ a # 0 /\ a - 1 = d
          BY <1>1, <2>2, <3>1, <5>2, <5>3
        <5>5. QED  BY <3>3, <5>3, <5>4
      <4>2. x \in known
        BY <1>5
      <4>3. lvl <= depth
        BY <1>16, <2>1, <2>2, <3>1
      <4>4. depth # 0 /\ depth - 1 \in Nat /\ d <= depth - 1
        BY <1>1, <4>3
      <4>5. W(d) \subseteq W(depth - 1)
        BY <4>4, WithinGrows DEF W
      <4>6. QED  BY <1>12, <4>1, <4>2, <4>4, <4>5
    <3>4. Led(edges, W(d)) \subseteq known \cup new
      BY <3>3 DEF Led
    <3>5. QED  BY <1>5, <1>8, <2>2, <2>3, <3>1, <3>2, <3>4 DEF W
  <2>6. QED  BY <2>4, <2>5
<1>19. QueueInv(edges, depth, target, known \cup new, longer)
  BY <1>2, <1>16, <1>17, <1>18 DEF QueueInv, W
<1>20. QED  BY <1>11, <1>13, <1>19 DEF W

\* A step keeps the invariant.
LEMMA FocusKept ==
    ASSUME NEW edges \in SUBSET (Registered \X Registered), NEW depth \in Nat, NEW limit \in Nat,
           NEW target \in Registered, NEW n \in Nat, NEW s, FocusInv(edges, depth, limit, target, n, s),
           s.queue # <<>>
    PROVE  FocusInv(edges, depth, limit, target, n + 1, FocusStep(edges, depth, limit, s))
<1> DEFINE W(i) == Within({target}, edges, i)
<1>1. /\ s \in FocusTypes /\ Cardinality(s.visited) <= limit /\ target \in s.visited
      /\ n + Len(s.queue) <= Cardinality(s.visited) /\ ~s.truncated
      /\ s.visited \subseteq W(depth)
      /\ QueueInv(edges, depth, target, s.visited, s.queue)
      /\ AskedInv(edges, depth, target, s.visited, s.queue)
  BY DEF FocusInv
<1>2. PICK t : t = FocusStep(edges, depth, limit, s)
  OBVIOUS
<1>3. t \in FocusTypes /\ \E p \in Registered, d \in Nat, new \in SUBSET Registered, chosen \in SUBSET Registered :
          IsFocusStep(edges, depth, limit, s, t, p, d, new, chosen)
  BY <1>1, <1>2, FocusStepIs
<1>4. PICK p \in Registered, d \in Nat, new \in SUBSET Registered, chosen \in SUBSET Registered :
          IsFocusStep(edges, depth, limit, s, t, p, d, new, chosen)
  BY <1>3
<1>5. PICK known \in SUBSET Registered, queue \in Seq(Registered \X Nat) :
          known = s.visited /\ queue = s.queue /\ queue # <<>>
  BY <1>1 DEF FocusTypes
<1>6. target \in t.visited /\ Cardinality(t.visited) <= limit
  BY <1>1, <1>4 DEF IsFocusStep
<1>7. CASE chosen # new
  <2>1. t.queue = <<>> /\ t.truncated /\ t.visited = known \cup chosen /\ Cardinality(t.visited) = limit
    BY <1>4, <1>5, <1>7 DEF IsFocusStep
  <2>2. /\ queue[1] = <<p, d>> /\ new = IF d >= depth THEN {} ELSE Led(edges, {p}) \ known
        /\ 1 \in DOMAIN queue
    BY <1>4, <1>5 DEF IsFocusStep
  <2>3. QueueInv(edges, depth, target, known, queue)
    BY <1>1, <1>5
  <2>4. p \in W(d) /\ W(d) \subseteq known /\ known \subseteq W(d + 1)
    <3>1. queue[1][1] = p /\ queue[1][2] = d
      BY <2>2
    <3>2. QED  BY <1>5, <2>2, <2>3, <3>1 DEF QueueInv
  <2>5. chosen \subseteq new
    BY <1>4, <1>7 DEF IsFocusStep
  <2>6. d < depth /\ chosen \subseteq Led(edges, {p})
    <3>1. ASSUME d >= depth PROVE FALSE
      <4>1. new = {}
        BY <2>2, <3>1
      <4>2. QED  BY <1>7, <2>5, <4>1
    <3>2. new \subseteq Led(edges, {p})
      BY <2>2, <3>1
    <3>3. d < depth
      BY <3>1
    <3>4. QED  BY <2>5, <3>2, <3>3
  <2>7. W(d + 1) = W(d) \cup Led(edges, W(d))
    BY WithinNext
  <2>8. Led(edges, {p}) \subseteq W(d + 1)
    <3> HIDE DEF W
    <3>1. QED  BY <2>4, <2>7 DEF Led
  <2>9. d + 1 \in 0..depth /\ (d + 1) - 1 = d
    BY <2>6
  <2> HIDE DEF W
  <2>10. W((d + 1) - 1) \subseteq t.visited /\ t.visited \subseteq W(d + 1)
    BY <2>1, <2>4, <2>6, <2>8, <2>9
  <2>11. Cut(edges, depth, limit, target, t.visited)
    BY <2>1, <2>9, <2>10 DEF Cut, W
  <2>12. QED  BY <1>2, <1>3, <1>6, <2>1, <2>11 DEF FocusInv
<1>8. CASE chosen = new
  <2>1. /\ t.visited = known \cup new /\ ~t.truncated /\ t.queue = Tail(queue) \o Ordered(new, d + 1)
        /\ queue[1] = <<p, d>> /\ new = IF d >= depth THEN {} ELSE Led(edges, {p}) \ known
        /\ Cardinality(t.visited) = Cardinality(known) + Cardinality(new)
    BY <1>4, <1>5, <1>8 DEF IsFocusStep
  <2>2. PICK longer : longer = t.queue
    OBVIOUS
  <2>3. Asks(edges, depth, known, queue, p, d, new, longer)
    BY <1>5, <2>1, <2>2 DEF Asks
  <2>4. /\ QueueInv(edges, depth, target, known, queue) /\ AskedInv(edges, depth, target, known, queue)
        /\ known \subseteq Within({target}, edges, depth)
    BY <1>1, <1>5
  <2>5. /\ known \cup new \subseteq Within({target}, edges, depth)
        /\ QueueInv(edges, depth, target, known \cup new, longer)
        /\ AskedInv(edges, depth, target, known \cup new, longer)
    BY <2>3, <2>4, QueueKept
  <2>6. n + 1 + Len(longer) <= Cardinality(t.visited)
    <3>1. PICK lvl \in Nat : lvl = d + 1
      OBVIOUS
    <3>2. longer = Tail(queue) \o Ordered(new, lvl)
      BY <2>1, <2>2, <3>1
    <3>3. PICK m \in Nat, c \in Nat : IsGrown(longer, queue, new, lvl, m, c)
      BY <1>5, <3>2, QueueGrows
    <3>4. m + 1 = Len(queue) /\ c = Cardinality(new) /\ Len(longer) = m + c
      BY <3>3 DEF IsGrown
    <3>5. PICK k \in Nat : k = Cardinality(known)
      BY CollectorAssumption, FS_Subset, FS_CardinalityType
    <3>6. n + (m + 1) <= k
      BY <1>1, <1>5, <3>4, <3>5
    <3>7. n + 1 + (m + c) <= k + c
      BY <3>6
    <3>8. QED  BY <2>1, <3>4, <3>5, <3>7
  <2>7. FocusInv(edges, depth, limit, target, n + 1, t)
    BY <1>3, <1>6, <2>1, <2>2, <2>5, <2>6 DEF FocusInv
  <2>8. QED  BY <1>2, <2>7
<1>9. QED  BY <1>7, <1>8

\* Once nobody is left to ask, all are known that are within the depth.
LEMMA AllAsked ==
    ASSUME NEW edges, NEW depth \in Nat, NEW target, NEW visited, target \in visited,
           AskedInv(edges, depth, target, visited, <<>>), NEW k \in Nat, k <= depth
    PROVE  Within({target}, edges, k) \subseteq visited
<1> DEFINE W(i) == Within({target}, edges, i)
           bad == {i \in Nat : i <= depth /\ ~(W(i) \subseteq visited)}
<1>1. SUFFICES ASSUME bad # {} PROVE FALSE
  OBVIOUS
<1>2. PICK i \in bad : \A j \in bad : i <= j
  <2>1. bad \in SUBSET Nat
    OBVIOUS
  <2> HIDE DEF bad
  <2>2. QED  BY <1>1, <2>1, LeastNatural
<1>3. i \in Nat /\ i <= depth /\ ~(W(i) \subseteq visited)
  OBVIOUS
<1>4. i # 0
  BY <1>3, WithinIs
<1>5. PICK h \in Nat : i = h + 1
  <2>1. i - 1 \in Nat /\ i = (i - 1) + 1
    BY <1>3, <1>4
  <2>2. QED  BY <2>1
<1>6. h \in Nat /\ h <= depth /\ ~(i <= h) /\ depth # 0 /\ depth - 1 \in Nat /\ h <= depth - 1
  BY <1>3, <1>5
<1>7. W(h) \subseteq visited
  BY <1>2, <1>6
<1>8. W(h) \subseteq W(depth - 1)
  BY <1>6, WithinGrows
<1>9. AskedOf(<<>>) = {}
  BY DEF AskedOf
<1>10. W(i) = W(h) \cup Led(edges, W(h))
  BY ZenonT(60), <1>5, WithinNext
<1> HIDE DEF bad, W
<1>11. ASSUME NEW x \in W(h) PROVE Led(edges, {x}) \subseteq visited
  <2>1. x \in visited \ AskedOf(<<>>) /\ x \in W(depth - 1)
    BY <1>7, <1>8, <1>9
  <2>2. QED  BY <1>6, <2>1 DEF AskedInv, W
<1>12. Led(edges, W(h)) \subseteq visited
  BY <1>11 DEF Led
<1>13. QED  BY <1>3, <1>7, <1>10, <1>12

\* How a focus starts.
FocusFirst(target) == [visited |-> {target}, truncated |-> FALSE, queue |-> <<<<target, 0>>>>]

LEMMA FocusStarts ==
    ASSUME NEW edges, NEW depth \in Nat, NEW limit \in Nat \ {0}, NEW target \in Registered
    PROVE  FocusInv(edges, depth, limit, target, 0, FocusFirst(target))
<1>1. PICK queue \in Seq(Registered \X Nat) : queue = <<<<target, 0>>>>
  <2>1. PICK first \in Registered \X Nat : first = <<target, 0>>
    OBVIOUS
  <2>2. <<first>> \in Seq(Registered \X Nat)
    OBVIOUS
  <2>3. QED  BY <2>1, <2>2
<1>2. /\ queue # <<>> /\ Len(queue) = 1 /\ DOMAIN queue = {1}
      /\ queue[1][1] = target /\ queue[1][2] = 0
  BY <1>1
<1>3. PICK s : s = FocusFirst(target)
  OBVIOUS
<1>4. s.visited = {target} /\ s.truncated = FALSE /\ s.queue = queue /\ s \in FocusTypes
  BY <1>1, <1>3 DEF FocusFirst, FocusTypes
<1>5. Cardinality({target}) = 1
  BY FS_Singleton
<1>6. Within({target}, edges, 0) = {target}
  BY WithinStart
<1>7. {target} \subseteq Within({target}, edges, 1) /\ {target} \subseteq Within({target}, edges, depth)
  <2>1. 0 \in Nat /\ 1 \in Nat /\ 0 <= 1 /\ 0 <= depth
    OBVIOUS
  <2>2. /\ Within({target}, edges, 0) \subseteq Within({target}, edges, 1)
        /\ Within({target}, edges, 0) \subseteq Within({target}, edges, depth)
    BY <2>1, WithinGrows
  <2>3. QED  BY <1>6, <2>2
<1>8. QueueInv(edges, depth, target, {target}, queue)
  <2>1. /\ queue[1][1] \in {target} /\ queue[1][2] <= depth
        /\ queue[1][1] \in Within({target}, edges, queue[1][2]) /\ ~(queue[1][2] # 0)
        /\ queue[1][2] <= queue[1][2] /\ queue[1][2] <= queue[1][2] + 1
    <3>1. queue[1][1] = target /\ queue[1][2] = 0
      BY <1>2
    <3>2. 0 <= depth /\ 0 <= 0 /\ 0 <= 0 + 1 /\ target \in {target}
      OBVIOUS
    <3>3. target \in Within({target}, edges, 0)
      BY <1>6
    <3>4. QED  BY <3>1, <3>2, <3>3
  <2>2. /\ Within({target}, edges, queue[1][2]) \subseteq {target}
        /\ {target} \subseteq Within({target}, edges, queue[1][2] + 1)
    <3>1. queue[1][2] = 0 /\ queue[1][2] + 1 = 1
      BY <1>2
    <3>2. QED  BY <1>6, <1>7, <3>1
  <2>3. \A i \in DOMAIN queue : i = 1
    BY <1>2
  <2>4. QED  BY <2>1, <2>2, <2>3 DEF QueueInv
<1>9. AskedInv(edges, depth, target, {target}, queue)
  BY <1>2 DEF AskedInv, AskedOf
<1>10. FocusInv(edges, depth, limit, target, 0, s)
  BY <1>2, <1>4, <1>5, <1>7, <1>8, <1>9 DEF FocusInv
<1>11. QED  BY <1>3, <1>10

\* A package may be left out of the queue for good: nothing more is done then.
FocusNext(edges, depth, limit, s) == IF s.queue = <<>> THEN s ELSE FocusStep(edges, depth, limit, s)

\* Nor does doing nothing break the invariant.
LEMMA FocusNextKept ==
    ASSUME NEW edges \in SUBSET (Registered \X Registered), NEW depth \in Nat, NEW limit \in Nat,
           NEW target \in Registered, NEW n \in Nat, NEW s, FocusInv(edges, depth, limit, target, n, s)
    PROVE  FocusInv(edges, depth, limit, target, n + 1, FocusNext(edges, depth, limit, s))
<1>1. CASE s.queue = <<>>
  BY <1>1 DEF FocusInv, FocusNext
<1>2. CASE s.queue # <<>>
  BY <1>2, FocusKept DEF FocusNext
<1>3. QED  BY <1>1, <1>2

\* The states a focus can be in; every step leads to one.
FocusFits(limit) == {s \in FocusTypes : Cardinality(s.visited) <= limit}

LEMMA FocusNextTypes ==
    ASSUME NEW edges \in SUBSET (Registered \X Registered), NEW depth \in Nat, NEW limit \in Nat,
           NEW s \in FocusFits(limit)
    PROVE  FocusNext(edges, depth, limit, s) \in FocusFits(limit)
<1>1. CASE s.queue = <<>>
  BY <1>1 DEF FocusNext
<1>2. CASE s.queue # <<>>
  <2>1. s \in FocusTypes /\ Cardinality(s.visited) <= limit
    BY DEF FocusFits
  <2>2. PICK t : t = FocusStep(edges, depth, limit, s)
    OBVIOUS
  <2>3. t \in FocusTypes /\ \E p \in Registered, d \in Nat, new \in SUBSET Registered, chosen \in SUBSET Registered :
          IsFocusStep(edges, depth, limit, s, t, p, d, new, chosen)
    BY <1>2, <2>1, <2>2, FocusStepIs
  <2>4. Cardinality(t.visited) <= limit
    BY <2>3 DEF IsFocusStep
  <2>5. t \in FocusFits(limit)
    BY <2>3, <2>4 DEF FocusFits
  <2>6. QED  BY <1>2, <2>2, <2>5 DEF FocusNext
<1>3. QED  BY <1>1, <1>2

\* The states of a focus, one after the other; they exist.
IsFocus(f, edges, depth, limit, target, n) ==
    f = [i \in 0..n |-> IF i = 0 THEN FocusFirst(target) ELSE FocusNext(edges, depth, limit, f[i - 1])]

LEMMA FocusExists ==
    ASSUME NEW edges \in SUBSET (Registered \X Registered), NEW depth \in Nat, NEW limit \in Nat \ {0},
           NEW target \in Registered, NEW n \in Nat
    PROVE  \E f : IsFocus(f, edges, depth, limit, target, n)
<1> DEFINE V == FocusFits(limit)
           move == [s \in V |-> FocusNext(edges, depth, limit, s)]
           step == [i \in 1..n |-> move]
<1>1. FocusFirst(target) \in V
  BY FocusStarts DEF FocusInv, FocusFits
<1>2. move \in [V -> V]
  BY FocusNextTypes
<1>3. step \in [1..n -> [V -> V]]
  BY <1>2
<1>4. PICK f \in [0..n -> V] : f[0] = FocusFirst(target) /\ \A i \in 1..n : f[i] = step[i][f[i - 1]]
  <2> HIDE DEF V, step
  <2>1. step \in StepsOver(V, n)
    BY <1>3 DEF StepsOver
  <2>2. PICK f : IsRun(f, V, FocusFirst(target), n, step)
    BY <1>1, <2>1, StepsExist
  <2>3. QED  BY <2>2 DEF IsRun
<1> HIDE DEF V
<1>5. ASSUME NEW i \in 0..n
      PROVE  f[i] = IF i = 0 THEN FocusFirst(target) ELSE FocusNext(edges, depth, limit, f[i - 1])
  <2>1. CASE i = 0
    BY <1>4, <2>1
  <2>2. CASE i # 0
    <3>1. i \in 1..n /\ i - 1 \in 0..n
      BY <2>2
    <3>2. f[i] = step[i][f[i - 1]]
      BY <1>4, <3>1
    <3>3. f[i - 1] \in V
      BY <3>1
    <3>4. step[i] = move
      BY <3>1
    <3>5. QED  BY <2>2, <3>2, <3>3, <3>4
  <2>3. QED  BY <2>1, <2>2
<1>6. f = [i \in 0..n |-> f[i]]
  OBVIOUS
<1>7. IsFocus(f, edges, depth, limit, target, n)
  BY <1>5, <1>6 DEF IsFocus
<1>8. QED  BY <1>7

\* The search has ended by then, and holds what it should.
EndsWell(end, edges, depth, limit, target) ==
    /\ NearestFirst(end.visited, {target}, edges, depth, limit)
    /\ end.truncated => Cardinality(end.visited) = limit
    /\ end.visited \subseteq Registered

LEMMA FocusEnds ==
    ASSUME NEW edges \in SUBSET (Registered \X Registered), NEW depth \in Nat, NEW limit \in Nat \ {0},
           NEW target \in Registered, NEW end,
           end = FocusStates(edges, depth, limit, target)[Cardinality(Registered)]
    PROVE  EndsWell(end, edges, depth, limit, target)
<1>1. PICK total \in Nat : total = Cardinality(Registered) /\ IsFiniteSet(Registered)
  BY CollectorAssumption, FS_CardinalityType
<1> DEFINE after == CHOOSE f : IsFocus(f, edges, depth, limit, target, total)
<1>2. FocusStates(edges, depth, limit, target) = after
  BY <1>1 DEF FocusStates, IsFocus, FocusFirst, FocusNext
<1>3. IsFocus(after, edges, depth, limit, target, total)
  BY FocusExists
<1> HIDE DEF after
<1>4. \A i \in 0..total : after[i] = IF i = 0 THEN FocusFirst(target)
                                     ELSE FocusNext(edges, depth, limit, after[i - 1])
  BY <1>3 DEF IsFocus
<1> DEFINE bad == {i \in Nat : i <= total /\ ~FocusInv(edges, depth, limit, target, i, after[i])}
<1>5. bad = {}
  <2>1. SUFFICES ASSUME bad # {} PROVE FALSE
    OBVIOUS
  <2>2. PICK i \in bad : \A j \in bad : i <= j
    <3>1. bad \in SUBSET Nat
      OBVIOUS
    <3> HIDE DEF bad
    <3>2. QED  BY <2>1, <3>1, LeastNatural
  <2>3. i \in Nat /\ i <= total /\ ~FocusInv(edges, depth, limit, target, i, after[i])
    OBVIOUS
  <2>4. i # 0
    BY <1>4, <2>3, FocusStarts
  <2>5. PICK h \in Nat : i = h + 1
    <3>1. i - 1 \in Nat /\ i = (i - 1) + 1
      BY <2>3, <2>4
    <3>2. QED  BY <3>1
  <2>6. h <= total /\ ~(i <= h) /\ i \in 0..total /\ i - 1 = h
    BY <2>3, <2>5
  <2>7. FocusInv(edges, depth, limit, target, h, after[h])
    BY <2>2, <2>6
  <2>8. after[i] = FocusNext(edges, depth, limit, after[h])
    BY <1>4, <2>4, <2>6
  <2> HIDE DEF bad
  <2>9. FocusInv(edges, depth, limit, target, h + 1, FocusNext(edges, depth, limit, after[h]))
    BY <2>7, FocusNextKept
  <2>10. QED  BY <2>3, <2>5, <2>8, <2>9
<1>6. FocusInv(edges, depth, limit, target, total, end)
  <2>1. total \in Nat /\ total <= total
    OBVIOUS
  <2>2. end = after[total]
    BY <1>1, <1>2
  <2>3. QED  BY <1>5, <2>1, <2>2
<1>7. PICK visited \in SUBSET Registered : visited = end.visited
  BY <1>6 DEF FocusInv, FocusTypes
<1>8. end.queue = <<>>
  <2>1. SUFFICES ASSUME end.queue # <<>> PROVE FALSE
    OBVIOUS
  <2>2. PICK queue \in Seq(Registered \X Nat) : queue = end.queue /\ queue # <<>>
    BY <1>6, <2>1 DEF FocusInv, FocusTypes
  <2>3. Len(queue) \in Nat /\ Len(queue) # 0
    BY <2>2
  <2>4. total + Len(queue) <= Cardinality(visited)
    BY <1>6, <1>7, <2>2 DEF FocusInv
  <2>5. Cardinality(visited) \in Nat /\ Cardinality(visited) <= total
    BY <1>1, FS_Subset, FS_CardinalityType
  <2>6. QED  BY <2>3, <2>4, <2>5
<1>9. CASE end.truncated
  <2>1. Cut(edges, depth, limit, target, visited)
    BY <1>6, <1>7, <1>9 DEF FocusInv
  <2>2. QED  BY <1>7, <2>1 DEF Cut, NearestFirst, EndsWell
<1>10. CASE ~end.truncated
  <2>1. /\ visited \subseteq Within({target}, edges, depth) /\ target \in visited
        /\ AskedInv(edges, depth, target, visited, <<>>)
    BY <1>6, <1>7, <1>8, <1>10 DEF FocusInv
  <2>2. Within({target}, edges, depth) \subseteq visited
    BY <2>1, AllAsked
  <2>3. depth = 0 \/ Within({target}, edges, depth - 1) \subseteq visited
    <3>1. CASE depth # 0
      <4>1. depth - 1 \in Nat /\ depth - 1 <= depth
        BY <3>1
      <4>2. QED  BY <2>1, <4>1, AllAsked
    <3>2. QED  BY <3>1
  <2>4. NearestFirst(visited, {target}, edges, depth, limit)
    <3>1. depth \in 0..depth
      OBVIOUS
    <3>2. QED  BY <2>1, <2>2, <2>3, <3>1 DEF NearestFirst
  <2>5. QED  BY <1>7, <1>10, <2>4 DEF EndsWell
<1>11. QED  BY <1>9, <1>10

\* The rows of an export: those of the ecosystem in focus, whatever they depend on.
FocusRows ==
    [system : {"npm"}, name : Registered, dependent_system : Systems, dependent : Registered,
     depth : Nat, highest : {"no", "none", "yes"}]

\* What a focus may be asked for (max_frontier_packages is not zero, deps_dev.rs).
FocusAsked ==
    input.part = "focus" =>
        /\ input.rows \in Seq(FocusRows) /\ input.depth \in Nat /\ input.limit \in Nat \ {0}
        /\ 5 \in Registered

\* The edges of a focus are those of the import between its packages.
LEMMA FocusEdges ==
    ASSUME NEW rows \in Seq(FocusRows), NEW visited
    PROVE  {<<e[2], e[1]>> : e \in {x \in ReverseEdges(rows, "npm", FALSE) :
                                       x[1] \in visited /\ x[2] \in visited}} =
           {<<e[2], e[3]>> : e \in {x \in ImportDependents(rows, FALSE, FALSE, 0, TRUE).edges :
                                       x[2] \in visited /\ x[3] \in visited}}
<1>1. PICK R \in SUBSET FocusRows : R = ToSet(rows)
  <2>1. \A i \in DOMAIN rows : rows[i] \in FocusRows
    OBVIOUS
  <2>2. ToSet(rows) \in SUBSET FocusRows
    BY <2>1 DEF ToSet
  <2>3. QED  BY <2>2
<1>2. PICK used : used = {r \in R : /\ r.dependent_system = "npm" /\ r.depth = 1
                                    /\ r.highest # "no" /\ r.name # r.dependent}
  OBVIOUS
<1>3. ReverseEdges(rows, "npm", FALSE) = {<<r.name, r.dependent>> : r \in used}
  <2>1. {r \in {x \in R : Focused(x, "npm", FALSE) /\ x.name # x.dependent} : TRUE} = used
    BY <1>2 DEF Focused, HighestRelease, FocusRows
  <2>2. {x \in R : Focused(x, "npm", FALSE) /\ x.name # x.dependent} = used
    BY <2>1
  <2>3. QED  BY <1>1, <2>2 DEF ReverseEdges
<1>4. ImportDependents(rows, FALSE, FALSE, 0, TRUE).edges = {<<r.system, r.dependent, r.name>> : r \in used}
  <2>1. {r \in {x \in R : Imported(x, FALSE, FALSE)} : r.dependent # r.name} = used
    <3>1. \A r \in FocusRows : Imported(r, FALSE, FALSE) <=>
              r.dependent_system = "npm" /\ r.depth = 1 /\ r.highest # "no"
      BY DEF Imported, HighestRelease, FocusRows, Systems
    <3>2. QED  BY <1>2, <3>1
  <2>2. ImportDependents(rows, FALSE, FALSE, 0, TRUE).edges =
            {<<r.system, r.dependent, r.name>> :
                r \in {x \in {y \in ToSet(rows) : Imported(y, FALSE, FALSE)} : x.dependent # x.name}}
    BY DEF ImportDependents
  <2>3. QED  BY <1>1, <2>1, <2>2
<1>5. \A r \in used : r \in R
  BY <1>2
<1>6. PICK within : within = {r \in used : r.name \in visited /\ r.dependent \in visited}
  OBVIOUS
<1>7. {<<e[2], e[1]>> : e \in {x \in {<<r.name, r.dependent>> : r \in used} :
                                  x[1] \in visited /\ x[2] \in visited}} =
      {<<r.dependent, r.name>> : r \in within}
  <2>1. {x \in {<<r.name, r.dependent>> : r \in used} : x[1] \in visited /\ x[2] \in visited} =
            {<<r.name, r.dependent>> : r \in within}
    BY <1>6
  <2>2. {<<e[2], e[1]>> : e \in {<<r.name, r.dependent>> : r \in within}} =
            {<<r.dependent, r.name>> : r \in within}
    <3> DEFINE L == {<<r.name, r.dependent>> : r \in within}
               T == {<<r.dependent, r.name>> : r \in within}
    <3>1. ASSUME NEW e \in L PROVE <<e[2], e[1]>> \in T
      OBVIOUS
    <3>2. ASSUME NEW t \in T PROVE \E e \in L : t = <<e[2], e[1]>>
      <4>1. PICK r \in within : t = <<r.dependent, r.name>>
        OBVIOUS
      <4>2. <<r.name, r.dependent>> \in L
        OBVIOUS
      <4> HIDE DEF L, T
      <4>3. QED  BY <4>1, <4>2
    <3> HIDE DEF L, T
    <3>3. {<<e[2], e[1]>> : e \in L} = T
      BY <3>1, <3>2
    <3>4. QED  BY <3>3 DEF L, T
  <2>3. QED  BY <2>1, <2>2
<1>8. {<<e[2], e[3]>> : e \in {x \in {<<r.system, r.dependent, r.name>> : r \in used} :
                                  x[2] \in visited /\ x[3] \in visited}} =
      {<<r.dependent, r.name>> : r \in within}
  <2>1. {x \in {<<r.system, r.dependent, r.name>> : r \in used} : x[2] \in visited /\ x[3] \in visited} =
            {<<r.system, r.dependent, r.name>> : r \in within}
    BY <1>6
  <2>2. {<<e[2], e[3]>> : e \in {<<r.system, r.dependent, r.name>> : r \in within}} =
            {<<r.dependent, r.name>> : r \in within}
    <3> DEFINE L == {<<r.system, r.dependent, r.name>> : r \in within}
               T == {<<r.dependent, r.name>> : r \in within}
    <3>1. ASSUME NEW e \in L PROVE <<e[2], e[3]>> \in T
      OBVIOUS
    <3>2. ASSUME NEW t \in T PROVE \E e \in L : t = <<e[2], e[3]>>
      <4>1. PICK r \in within : t = <<r.dependent, r.name>>
        OBVIOUS
      <4>2. <<r.system, r.dependent, r.name>> \in L
        OBVIOUS
      <4> HIDE DEF L, T
      <4>3. QED  BY <4>1, <4>2
    <3> HIDE DEF L, T
    <3>3. {<<e[2], e[3]>> : e \in L} = T
      BY <3>1, <3>2
    <3>4. QED  BY <3>3 DEF L, T
  <2>3. QED  BY <2>1, <2>2
<1>9. QED  BY <1>3, <1>4, <1>7, <1>8

\* The property follows from the two searches.
LEMMA FocusGrows ==
    ASSUME CollectsNearest, FocusAsked
    PROVE  GrowsNearestFirst
<1>1. SUFFICES ASSUME input.part = "focus"
               PROVE  LET focus == FocusDependents(input.rows, "npm", 5, FALSE, input.depth,
                                                   input.limit, 0, TRUE)
                          whole == ImportDependents(input.rows, FALSE, FALSE, 0, TRUE)
                      IN  /\ NearestFirst(focus.visited, {5}, ReverseEdges(input.rows, "npm", FALSE),
                                          input.depth, input.limit)
                          /\ focus.truncated => Cardinality(focus.visited) = input.limit
                          /\ focus.edges = {<<e[2], e[3]>> : e \in {x \in whole.edges :
                                                x[2] \in focus.visited /\ x[3] \in focus.visited}}
  BY DEF GrowsNearestFirst
<1>2. PICK rows \in Seq(FocusRows), depth \in Nat, limit \in Nat \ {0} :
          rows = input.rows /\ depth = input.depth /\ limit = input.limit /\ 5 \in Registered
  BY <1>1 DEF FocusAsked
<1>3. PICK edges : edges = ReverseEdges(rows, "npm", FALSE)
  OBVIOUS
<1>4. edges \in SUBSET (Registered \X Registered)
  <2>1. ToSet(rows) \subseteq FocusRows
    BY DEF ToSet
  <2>2. \A r \in FocusRows : <<r.name, r.dependent>> \in Registered \X Registered
    BY DEF FocusRows
  <2>3. QED  BY <1>3, <2>1, <2>2 DEF ReverseEdges
<1>5. PICK end : end = FocusStates(edges, depth, limit, 5)[Cardinality(Registered)]
  OBVIOUS
<1>6. /\ NearestFirst(end.visited, {5}, edges, depth, limit)
      /\ end.truncated => Cardinality(end.visited) = limit
  <2>1. 5 \in Registered
    BY <1>2
  <2>2. EndsWell(end, edges, depth, limit, 5)
    BY <1>4, <1>5, <2>1, FocusEnds
  <2>3. QED  BY <2>2 DEF EndsWell
<1>7. PICK focus : focus = FocusDependents(rows, "npm", 5, FALSE, depth, limit, 0, TRUE)
  OBVIOUS
<1>8. /\ focus.visited = end.visited /\ focus.truncated = end.truncated
      /\ focus.edges = {<<e[2], e[1]>> : e \in {x \in edges : x[1] \in end.visited /\ x[2] \in end.visited}}
  BY <1>3, <1>5, <1>7 DEF FocusDependents
<1>9. PICK visited : visited = end.visited
  OBVIOUS
<1>10. {<<e[2], e[1]>> : e \in {x \in edges : x[1] \in visited /\ x[2] \in visited}} =
       {<<e[2], e[3]>> : e \in {x \in ImportDependents(rows, FALSE, FALSE, 0, TRUE).edges :
                                    x[2] \in visited /\ x[3] \in visited}}
  BY <1>3, FocusEdges
<1>11. QED  BY <1>2, <1>3, <1>6, <1>7, <1>8, <1>9, <1>10

\* However its fetches fail and in which order they are answered, and for every
\* graph and every export: the packages of a collection are those nearest to
\* its seeds, those of a focus the nearest dependents of its target
\* (collect_graph_material_with_context, collector.rs;
\* focus_dependents_subgraph_from_inputs, deps_dev.rs).
THEOREM NearestIsGrown == CollectorSpec /\ []FocusAsked => []GrowsNearestFirst
<1>1. CollectsNearest /\ FocusAsked => GrowsNearestFirst
  BY FocusGrows
<1>2. QED  BY <1>1, NearestIsCollected, PTL

===============================================================================
