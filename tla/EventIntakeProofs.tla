------------------------- MODULE EventIntakeProofs --------------------------
(***************************************************************************)
(* Proofs about EventIntake.                                               *)
(***************************************************************************)
EXTENDS EventIntake, SequenceTheorems, TLAPS

\* What a sequence holds after it has been extended, joined or shortened.
LEMMA AppendElements ==
    ASSUME NEW S, NEW s \in Seq(S), NEW e \in S
    PROVE  /\ Append(s, e) \in Seq(S)
           /\ ToSet(Append(s, e)) = ToSet(s) \cup {e}
           /\ Len(Append(s, e)) = Len(s) + 1
<1>1. /\ Append(s, e) \in Seq(S)
      /\ Len(Append(s, e)) = Len(s) + 1
      /\ \A i \in 1..Len(s) : Append(s, e)[i] = s[i]
      /\ Append(s, e)[Len(s) + 1] = e
      /\ Len(s) \in Nat
      /\ DOMAIN s = 1..Len(s)
      /\ DOMAIN Append(s, e) = 1..(Len(s) + 1)
  OBVIOUS
<1>2. QED  BY <1>1 DEF ToSet

LEMMA TailElements ==
    ASSUME NEW S, NEW s \in Seq(S), s # <<>>
    PROVE  /\ Head(s) \in S
           /\ Tail(s) \in Seq(S)
           /\ ToSet(s) = {Head(s)} \cup ToSet(Tail(s))
           /\ Len(Tail(s)) = Len(s) - 1
<1>1. /\ Head(s) = s[1] /\ s[1] \in S
      /\ Tail(s) \in Seq(S)
      /\ Len(s) \in Nat \ {0}
      /\ Len(Tail(s)) = Len(s) - 1
      /\ \A i \in 1..(Len(s) - 1) : Tail(s)[i] = s[i + 1]
      /\ DOMAIN s = 1..Len(s)
      /\ DOMAIN Tail(s) = 1..(Len(s) - 1)
  OBVIOUS
<1>2. ToSet(s) \subseteq {Head(s)} \cup ToSet(Tail(s))
  <2>1. SUFFICES ASSUME NEW i \in 1..Len(s), i # 1
                 PROVE  s[i] \in ToSet(Tail(s))
    BY <1>1 DEF ToSet
  <2>2. i - 1 \in 1..(Len(s) - 1) /\ s[i] = Tail(s)[i - 1]
    BY <1>1, <2>1
  <2>3. QED  BY <1>1, <2>2 DEF ToSet
<1>3. {Head(s)} \cup ToSet(Tail(s)) \subseteq ToSet(s)
  <2>1. SUFFICES ASSUME NEW i \in 1..(Len(s) - 1)
                 PROVE  Tail(s)[i] \in ToSet(s)
    BY <1>1 DEF ToSet
  <2>2. i + 1 \in 1..Len(s) /\ Tail(s)[i] = s[i + 1]
    BY <1>1, <2>1
  <2>3. QED  BY <1>1, <2>2 DEF ToSet
<1>4. QED  BY <1>1, <1>2, <1>3

LEMMA JoinedElements ==
    ASSUME NEW S, NEW s \in Seq(S), NEW t \in Seq(S)
    PROVE  /\ s \o t \in Seq(S)
           /\ ToSet(s \o t) = ToSet(s) \cup ToSet(t)
<1>1. /\ s \o t \in Seq(S)
      /\ Len(s) \in Nat /\ Len(t) \in Nat
      /\ Len(s \o t) = Len(s) + Len(t)
      /\ \A i \in 1..Len(s) : (s \o t)[i] = s[i]
      /\ \A i \in 1..Len(t) : (s \o t)[Len(s) + i] = t[i]
      /\ DOMAIN s = 1..Len(s)
      /\ DOMAIN t = 1..Len(t)
      /\ DOMAIN (s \o t) = 1..(Len(s) + Len(t))
  OBVIOUS
<1>2. ToSet(s \o t) \subseteq ToSet(s) \cup ToSet(t)
  <2>1. SUFFICES ASSUME NEW i \in 1..(Len(s) + Len(t)), i > Len(s)
                 PROVE  (s \o t)[i] \in ToSet(t)
    BY <1>1 DEF ToSet
  <2>2. i - Len(s) \in 1..Len(t) /\ i = Len(s) + (i - Len(s))
    BY <1>1, <2>1
  <2>3. QED  BY <1>1, <2>2 DEF ToSet
<1>3. ToSet(s) \cup ToSet(t) \subseteq ToSet(s \o t)
  <2>1. ASSUME NEW i \in 1..Len(t) PROVE t[i] \in ToSet(s \o t)
    <3>1. Len(s) + i \in 1..(Len(s) + Len(t))
      BY <1>1
    <3>2. QED  BY <1>1, <3>1 DEF ToSet
  <2>2. ASSUME NEW i \in 1..Len(s) PROVE s[i] \in ToSet(s \o t)
    <3>1. i \in 1..(Len(s) + Len(t))
      BY <1>1
    <3>2. QED  BY <1>1, <3>1 DEF ToSet
  <2>3. QED  BY <1>1, <2>1, <2>2 DEF ToSet
<1>4. QED  BY <1>1, <1>2, <1>3

LEMMA ContainsElement ==
    ASSUME NEW S, NEW s \in Seq(S), NEW e
    PROVE  Contains(s, e) <=> e \in ToSet(s)
BY DEF Contains, ToSet

LEMMA HandedElements ==
    ASSUME NEW l \in Seq(Serials), NEW h \in Seq(Serials), NEW c \in Seq(Serials)
    PROVE  /\ ToSet(l \o h \o c) = ToSet(l) \cup ToSet(h) \cup ToSet(c)
           /\ ToSet(l \o <<>> \o c) = ToSet(l) \cup ToSet(c)
<1>1. \A t \in Seq(Serials) : ToSet(t \o c) = ToSet(t) \cup ToSet(c)
  BY JoinedElements
<1>2. l \o h \in Seq(Serials) /\ ToSet(l \o h) = ToSet(l) \cup ToSet(h)
  BY JoinedElements
<1>3. l \o <<>> = l
  OBVIOUS
<1>4. QED  BY <1>1, <1>2, <1>3

\* A key enters the dedupe window, which stays within its capacity.
LEMMA InsertElements ==
    ASSUME NEW q \in Seq(Serials), Len(q) <= RecentCapacity, NEW k \in Serials
    PROVE  /\ Insert(q, k) \in Seq(Serials)
           /\ Len(Insert(q, k)) <= RecentCapacity
           /\ ToSet(Insert(q, k)) \subseteq ToSet(q) \cup {k}
<1> DEFINE pushed == Append(q, k)
<1>1. /\ pushed \in Seq(Serials) /\ Len(pushed) = Len(q) + 1
      /\ ToSet(pushed) = ToSet(q) \cup {k}
  BY AppendElements
<1>2. pushed # <<>>
  OBVIOUS
<1>3. /\ Tail(pushed) \in Seq(Serials) /\ Len(Tail(pushed)) = Len(q)
      /\ ToSet(Tail(pushed)) \subseteq ToSet(q) \cup {k}
  <2> HIDE DEF pushed
  <2>1. /\ Tail(pushed) \in Seq(Serials)
        /\ ToSet(pushed) = {Head(pushed)} \cup ToSet(Tail(pushed))
        /\ Len(Tail(pushed)) = Len(pushed) - 1
    BY <1>1, <1>2, TailElements
  <2>2. Len(q) \in Nat
    OBVIOUS
  <2>3. QED  BY <1>1, <2>1, <2>2
<1>4. RecentCapacity \in Nat /\ Len(q) \in Nat
  BY IntakeAssumption
<1> HIDE DEF pushed
<1>5. Insert(q, k) = IF Contains(q, k) THEN q
                     ELSE IF Len(pushed) > RecentCapacity THEN Tail(pushed) ELSE pushed
  BY DEF Insert, pushed
<1>6. QED  BY <1>1, <1>3, <1>4, <1>5

\* What upstream answers: the releases published, by feed and by journal.
LEMMA FeedElements ==
    ASSUME published \in 0..MaxSerial
    PROVE  Feed \in Seq(Serials) /\ ToSet(Feed) \subseteq 1..published
<1> DEFINE size == IF published < FeedWindow THEN published ELSE FeedWindow
<1>1. size \in Nat /\ size <= published /\ published \in Nat /\ MaxSerial \in Nat
  BY IntakeAssumption
<1>2. Feed = [i \in 1..size |-> published - size + i]
  BY DEF Feed
<1> HIDE DEF size
<1>3. \A i \in 1..size : published - size + i \in 1..published
  BY <1>1
<1>4. 1..published \subseteq Serials
  BY <1>1 DEF Serials
<1>5. Feed \in [1..size -> 1..published] /\ Feed \in [1..size -> Serials]
  BY <1>2, <1>3, <1>4
<1>6. ToSet(Feed) \subseteq 1..published
  BY <1>5 DEF ToSet
<1>7. QED  BY <1>1, <1>5, <1>6

LEMMA JournalElements ==
    ASSUME published \in 0..MaxSerial, NEW from \in 0..MaxSerial
    PROVE  /\ JournalSince(from) \in Seq(Serials)
           /\ \A s \in Serials : from < s /\ s <= published => s \in ToSet(JournalSince(from))
<1>1. MaxSerial \in Nat /\ published \in Nat /\ from \in Nat
  BY IntakeAssumption
<1>2. \A i \in 1..(published - from) : from + i \in Serials
  BY <1>1 DEF Serials
<1>3. JournalSince(from) \in [1..(published - from) -> Serials]
  BY <1>2 DEF JournalSince
<1>4. JournalSince(from) \in Seq(Serials)
  <2>1. CASE published - from \in Nat
    BY <1>3, <2>1
  <2>2. CASE published - from < 0
    <3>1. 1..(published - from) = 1..0
      BY <1>1, <2>2
    <3>2. JournalSince(from) \in [1..0 -> Serials]
      BY <1>3, <3>1
    <3>3. QED  BY <3>2
  <2>3. QED  BY <1>1, <2>1, <2>2
<1>5. ASSUME NEW s \in Serials, from < s, s <= published
      PROVE  s \in ToSet(JournalSince(from))
  <2>1. s - from \in 1..(published - from) /\ from + (s - from) = s
    BY <1>1, <1>5 DEF Serials
  <2>2. QED  BY <2>1 DEF JournalSince, ToSet
<1>6. QED  BY <1>4, <1>5

-----------------------------------------------------------------------------
(* Type correctness.  The window in the state file is one the source had in *)
(* memory, so reading it back keeps within the capacity.                    *)

TypeInv == TypeOK /\ Len(saved.keys) <= RecentCapacity

LEMMA InitTypeInv == Init => TypeInv
<1> SUFFICES ASSUME Init PROVE TypeInv
  OBVIOUS
<1>1. saved \in State /\ Len(saved.keys) = 0
  BY DEF Init, State
<1>2. <<>> \in Seq(Serials) /\ Len(<<>>) = 0 /\ ChannelCapacity \in Nat /\ MaxCrashes \in Nat
  BY IntakeAssumption
<1>3. /\ ledger = <<>> /\ recent = <<>> /\ batch = <<>> /\ channel = <<>> /\ hand = <<>>
      /\ rows = {} /\ captured = {} /\ jobs = {} /\ baseline = {}
      /\ published \in 0..MaxSerial /\ crashes = 0 /\ warmed_up = FALSE
      /\ last_serial = NoSerial /\ cursor = NoSerial
      /\ source = "down" /\ stage = "append"
  BY DEF Init
<1>4. /\ recent \in Seq(Serials) /\ Len(recent) <= RecentCapacity
      /\ channel \in Seq(Serials) /\ Len(channel) <= ChannelCapacity
      /\ hand \in Seq(Serials) /\ Len(hand) <= 1
      /\ Len(saved.keys) <= RecentCapacity
      /\ crashes \in 0..MaxCrashes
  BY <1>1, <1>2, <1>3, IntakeAssumption
<1>5. QED  BY <1>1, <1>2, <1>3, <1>4 DEF TypeInv, TypeOK

LEMMA NextTypeInv == TypeInv /\ [Next]_vars => TypeInv'
<1> SUFFICES ASSUME TypeInv, [Next]_vars PROVE TypeInv'
  OBVIOUS
<1> USE IntakeAssumption DEF TypeInv, TypeOK
<1>1. CASE Publish
  <2>1. published' \in 0..MaxSerial
    BY <1>1 DEF Publish
  <2>2. QED  BY <1>1, <2>1 DEF Publish, disk, memory, main
<1>2. CASE BootstrapJournal
  <2>1. baseline' \subseteq Serials /\ cursor' \in 0..MaxSerial
    BY <1>2 DEF BootstrapJournal, Serials
  <2>2. QED  BY <1>2, <2>1 DEF BootstrapJournal, OnlySource, main
<1>3. CASE FetchPrimer
  <2>1. baseline' \subseteq Serials /\ batch' \in Seq(Serials)
    <3>1. Feed \in Seq(Serials) /\ ToSet(Feed) \subseteq Serials
      BY FeedElements DEF ToSet
    <3>2. QED  BY <1>3, <3>1 DEF FetchPrimer
  <2>2. QED  BY <1>3, <2>1 DEF FetchPrimer, OnlySource, main
<1>4. CASE BootstrapFeed
  <2>1. baseline' \subseteq Serials /\ batch' \in Seq(Serials)
    <3>1. Feed \in Seq(Serials) /\ 1..published \subseteq Serials
      BY FeedElements DEF Serials
    <3>2. QED  BY <1>4, <3>1 DEF BootstrapFeed
  <2>2. QED  BY <1>4, <2>1 DEF BootstrapFeed, OnlySource, main
<1>5. CASE PrimeKey
  <2>1. batch' \in Seq(Serials) /\ Head(batch) \in Serials
    BY <1>5, TailElements DEF PrimeKey
  <2>2. recent' \in Seq(Serials) /\ Len(recent') <= RecentCapacity
    BY <1>5, <2>1, InsertElements DEF PrimeKey
  <2>3. QED  BY <1>5, <2>1, <2>2 DEF PrimeKey, OnlySource, main
<1>6. CASE PollJournal
  <2>1. batch' \in Seq(Serials) /\ cursor' \in 0..MaxSerial
    BY <1>6, JournalElements DEF PollJournal
  <2>2. QED  BY <1>6, <2>1 DEF PollJournal, OnlySource, main
<1>7. CASE PollFeed
  <2>1. batch' \in Seq(Serials)
    BY <1>7, FeedElements DEF PollFeed
  <2>2. QED  BY <1>7, <2>1 DEF PollFeed, OnlySource, main
<1>8. CASE Emit
  <2>1. batch' \in Seq(Serials) /\ Head(batch) \in Serials
    BY <1>8, TailElements DEF Emit
  <2>2. recent' = recent \/ recent' = Insert(recent, Head(batch))
    BY <1>8 DEF Emit
  <2>3. recent' \in Seq(Serials) /\ Len(recent') <= RecentCapacity
    BY <2>1, <2>2, InsertElements
  <2>4. \/ channel' = channel
        \/ channel' = Append(channel, Head(batch)) /\ Len(channel) < ChannelCapacity
    BY <1>8 DEF Emit
  <2>5. channel' \in Seq(Serials) /\ Len(channel') <= ChannelCapacity
    <3>1. CASE channel' = Append(channel, Head(batch)) /\ Len(channel) < ChannelCapacity
      <4>1. channel' \in Seq(Serials) /\ Len(channel') = Len(channel) + 1
        BY <2>1, <3>1, AppendElements
      <4>2. Len(channel) \in Nat
        OBVIOUS
      <4>3. QED  BY <3>1, <4>1, <4>2
    <3>2. QED  BY <2>4, <3>1
  <2>6. QED  BY <1>8, <2>1, <2>3, <2>5 DEF Emit, OnlySource, main
<1>9. CASE SaveState
  <2>1. saved' \in State /\ Len(saved'.keys) <= RecentCapacity
    BY <1>9 DEF SaveState, State
  <2>2. QED  BY <1>9, <2>1 DEF SaveState, OnlySource, main
<1>10. CASE Receive
  <2>1. channel' \in Seq(Serials) /\ Len(channel') <= ChannelCapacity
    BY <1>10, TailElements DEF Receive
  <2>2. hand' \in Seq(Serials) /\ Len(hand') = 1
    BY <1>10, TailElements DEF Receive
  <2>3. QED  BY <1>10, <2>1, <2>2 DEF Receive, OnlyMain, memory
<1>11. CASE AppendLedger
  <2>1. ledger' \in Seq(Serials)
    BY <1>11, TailElements, AppendElements DEF AppendLedger
  <2>2. QED  BY <1>11, <2>1 DEF AppendLedger, OnlyMain, memory
<1>12. CASE RecordEvent
  <2>1. rows' \subseteq Serials
    BY <1>12, TailElements DEF RecordEvent
  <2>2. QED  BY <1>12, <2>1 DEF RecordEvent, OnlyMain, memory
<1>13. CASE Dispatch
  <2>1. jobs' \subseteq Serials
    BY <1>13, TailElements DEF Dispatch
  <2>2. QED  BY <1>13, <2>1 DEF Dispatch, OnlyMain, memory
<1>14. ASSUME NEW r \in Serials, Capture(r) PROVE TypeInv'
  BY <1>14 DEF Capture, OnlyMain, memory
<1>15. CASE Crash
  BY <1>15 DEF Crash, disk, memory
<1>16. CASE Restart
  <2>1. /\ saved.warmed_up \in BOOLEAN
        /\ saved.last_serial \in {NoSerial} \cup 0..MaxSerial
        /\ saved.keys \in Seq(Serials)
    BY DEF State
  <2>2. rows' \subseteq Serials
    BY <1>16 DEF Restart, ToSet
  <2>3. QED  BY <1>16, <2>1, <2>2 DEF Restart, main
<1>17. CASE UNCHANGED vars
  BY <1>17 DEF vars, disk, memory, main
<1>18. QED
  BY <1>1, <1>2, <1>3, <1>4, <1>5, <1>6, <1>7, <1>8, <1>9, <1>10, <1>11, <1>12,
     <1>13, <1>14, <1>15, <1>16, <1>17 DEF Next, SourceStep, MainStep

\* Every variable keeps its type, whatever upstream answers and whenever the
\* process crashes; the dedupe window and the channel keep their capacity.
THEOREM TypeCorrect == Spec => []TypeOK
<1>1. TypeInv => TypeOK
  BY DEF TypeInv
<1>2. QED  BY InitTypeInv, NextTypeInv, <1>1, PTL DEF Spec

-----------------------------------------------------------------------------
(* The ledger comes first.  Once the main loop has appended the release it  *)
(* holds, the index and the queue may learn of it.                          *)

LogInv ==
    /\ LoggedFirst
    /\ hand # <<>> /\ stage # "append" => Head(hand) \in ToSet(ledger)

LEMMA NextLogInv == TypeInv /\ LogInv /\ [Next]_vars => LogInv'
<1> SUFFICES ASSUME TypeInv, LogInv, [Next]_vars PROVE LogInv'
  OBVIOUS
<1> USE DEF LogInv, LoggedFirst
<1>1. CASE Publish
  BY <1>1 DEF Publish, disk, memory, main
<1>2. CASE SourceStep
  <2>1. UNCHANGED <<ledger, rows, captured, main>>
    BY <1>2 DEF SourceStep, BootstrapJournal, FetchPrimer, BootstrapFeed, PrimeKey,
                PollJournal, PollFeed, Emit, SaveState, OnlySource
  <2>2. QED  BY <2>1 DEF main
<1>3. CASE Receive
  BY <1>3 DEF Receive, OnlyMain
<1>4. CASE AppendLedger
  <2>1. Head(hand) \in Serials /\ ledger \in Seq(Serials)
    BY <1>4, TailElements DEF AppendLedger, TypeInv, TypeOK
  <2>2. ToSet(ledger') = ToSet(ledger) \cup {Head(hand)}
    BY <1>4, <2>1, AppendElements DEF AppendLedger
  <2>3. QED  BY <1>4, <2>2 DEF AppendLedger, OnlyMain
<1>5. CASE RecordEvent
  BY <1>5 DEF RecordEvent, OnlyMain
<1>6. CASE Dispatch
  BY <1>6 DEF Dispatch, OnlyMain
<1>7. ASSUME NEW r \in Serials, Capture(r) PROVE LogInv'
  BY <1>7 DEF Capture, OnlyMain
<1>8. CASE Crash
  BY <1>8 DEF Crash, disk
<1>9. CASE Restart
  BY <1>9 DEF Restart, main
<1>10. CASE UNCHANGED vars
  BY <1>10 DEF vars, disk, memory, main
<1>11. QED
  BY <1>1, <1>2, <1>3, <1>4, <1>5, <1>6, <1>7, <1>8, <1>9, <1>10 DEF Next, MainStep

\* Nothing the index, the capture queue or the capture tree knows is missing
\* from the ledger, whenever the process crashes.
THEOREM LedgerComesFirst == Spec => []LoggedFirst
<1>1. Init => LogInv
  BY DEF Init, LogInv, LoggedFirst
<1>2. LogInv => LoggedFirst
  BY DEF LogInv
<1>3. QED
  BY InitTypeInv, NextTypeInv, NextLogInv, <1>1, <1>2, PTL DEF Spec

-----------------------------------------------------------------------------
(* The cursor.  A round of the source knows where it will put the cursor    *)
(* before it has emitted what lies in between: that is still in its batch.  *)
(* A key of the dedupe window has been handed over or belongs to the first  *)
(* boot's baseline, so the window hides nothing else from the batch.        *)

Accounted == baseline \cup ToSet(Handed)

CoverInv ==
    /\ baseline \subseteq 1..published
    /\ crashes = 0 =>
        /\ source = "down" => saved.last_serial = NoSerial /\ saved.keys = <<>>
        /\ source = "poll" => cursor = last_serial /\ batch = <<>>
        /\ source = "prime" => ToSet(batch) \subseteq baseline
        /\ ToSet(recent) \subseteq Accounted
        /\ \A s \in Serials : s <= last_serial => s \in Accounted
        /\ source \in {"prime", "emit"} =>
               \A s \in Serials : s <= cursor => s \in Accounted \cup ToSet(batch)

\* What has been handed over, by where it is.
HandedAt(l, h, st, c) ==
    ToSet(l) \cup (IF st = "append" THEN ToSet(h) ELSE {}) \cup ToSet(c)

LEMMA HandedSet ==
    ASSUME TypeInv, TypeInv'
    PROVE  /\ ToSet(Handed) = HandedAt(ledger, hand, stage, channel)
           /\ ToSet(Handed') = HandedAt(ledger', hand', stage', channel')
<1>1. ToSet(Handed) = HandedAt(ledger, hand, stage, channel)
  <2>1. ledger \in Seq(Serials) /\ hand \in Seq(Serials) /\ channel \in Seq(Serials)
    BY DEF TypeInv, TypeOK
  <2>2. CASE stage = "append"
    <3>1. Handed = ledger \o hand \o channel
      BY <2>2 DEF Handed
    <3>2. QED  BY <2>1, <2>2, <3>1, HandedElements DEF HandedAt
  <2>3. CASE stage # "append"
    <3>1. Handed = ledger \o <<>> \o channel
      BY <2>3 DEF Handed
    <3>2. QED  BY <2>1, <2>3, <3>1, HandedElements DEF HandedAt
  <2>4. QED  BY <2>2, <2>3
<1>2. ToSet(Handed') = HandedAt(ledger', hand', stage', channel')
  <2>1. ledger' \in Seq(Serials) /\ hand' \in Seq(Serials) /\ channel' \in Seq(Serials)
    BY DEF TypeInv, TypeOK
  <2>2. CASE stage' = "append"
    <3>1. Handed' = ledger' \o hand' \o channel'
      BY <2>2 DEF Handed
    <3>2. QED  BY <2>1, <2>2, <3>1, HandedElements DEF HandedAt
  <2>3. CASE stage' # "append"
    <3>1. Handed' = ledger' \o <<>> \o channel'
      BY <2>3 DEF Handed
    <3>2. QED  BY <2>1, <2>3, <3>1, HandedElements DEF HandedAt
  <2>4. QED  BY <2>2, <2>3
<1>3. QED  BY <1>1, <1>2

LEMMA InitCoverInv == Init => CoverInv
<1> SUFFICES ASSUME Init PROVE CoverInv
  OBVIOUS
<1>1. ToSet(<<>>) = {}
  BY DEF ToSet
<1>2. \A s \in Serials : ~(s <= NoSerial)
  BY DEF Serials, NoSerial
<1>3. QED  BY <1>1, <1>2 DEF Init, CoverInv

\* The main loop passes releases on without losing one.
LEMMA MainKeepsHanded ==
    ASSUME TypeInv, TypeInv', MainStep
    PROVE  ToSet(Handed') = ToSet(Handed)
<1>1. SUFFICES HandedAt(ledger', hand', stage', channel')
                 = HandedAt(ledger, hand, stage, channel)
  BY HandedSet
<1>2. CASE Receive
  <2>1. /\ ToSet(channel) = {Head(channel)} \cup ToSet(channel')
        /\ Head(channel) \in Serials
    BY <1>2, TailElements DEF Receive, TypeInv, TypeOK
  <2>2. ToSet(hand') = {Head(channel)} /\ ToSet(hand) = {}
    BY <1>2 DEF Receive, ToSet
  <2>3. QED  BY <1>2, <2>1, <2>2 DEF Receive, HandedAt
<1>3. CASE AppendLedger
  <2>1. hand \in Seq(Serials) /\ hand # <<>> /\ Len(hand) <= 1 /\ ledger \in Seq(Serials)
    BY <1>3 DEF AppendLedger, TypeInv, TypeOK
  <2>2. ToSet(hand) = {Head(hand)} /\ Head(hand) \in Serials
    <3>1. Len(hand) = 1 /\ DOMAIN hand = 1..1 /\ Head(hand) = hand[1]
      BY <2>1
    <3>2. QED  BY <2>1, <3>1 DEF ToSet
  <2>3. ToSet(ledger') = ToSet(ledger) \cup {Head(hand)}
    BY <1>3, <2>1, <2>2, AppendElements DEF AppendLedger
  <2>4. QED  BY <1>3, <2>2, <2>3 DEF AppendLedger, HandedAt
<1>4. CASE RecordEvent
  BY <1>4 DEF RecordEvent, HandedAt
<1>5. CASE Dispatch
  BY <1>5 DEF Dispatch, HandedAt
<1>6. QED  BY <1>2, <1>3, <1>4, <1>5 DEF MainStep

LEMMA NextCoverInv == TypeInv /\ TypeInv' /\ CoverInv /\ [Next]_vars => CoverInv'
<1> SUFFICES ASSUME TypeInv, TypeInv', CoverInv, [Next]_vars PROVE CoverInv'
  OBVIOUS
<1> DEFINE Old == HandedAt(ledger, hand, stage, channel)
           New == HandedAt(ledger', hand', stage', channel')
<1>a. Accounted = baseline \cup Old /\ Accounted' = baseline' \cup New
  BY HandedSet DEF Accounted
<1>1. CASE Publish
  <2>1. Accounted' = Accounted
    BY <1>1, <1>a DEF Publish, disk, main
  <2>2. 1..published \subseteq 1..published'
    BY <1>1 DEF Publish, TypeInv, TypeOK
  <2>3. QED  BY <1>1, <2>1, <2>2 DEF Publish, disk, memory, CoverInv
<1>2. CASE MainStep
  <2>1. UNCHANGED <<published, saved, memory, source, baseline, crashes>>
    BY <1>2 DEF MainStep, Receive, AppendLedger, RecordEvent, Dispatch, OnlyMain
  <2>2. Accounted' = Accounted
    BY <1>2, <2>1, MainKeepsHanded DEF Accounted
  <2>3. QED  BY <2>1, <2>2 DEF memory, CoverInv
<1>3. ASSUME NEW r \in Serials, Capture(r) PROVE CoverInv'
  <2>1. Accounted' = Accounted
    BY <1>3, <1>a DEF Capture, OnlyMain
  <2>2. QED  BY <1>3, <2>1 DEF Capture, OnlyMain, memory, CoverInv
<1>4. CASE Crash
  <2>1. crashes' # 0
    BY <1>4 DEF Crash, TypeInv, TypeOK
  <2>2. QED  BY <1>4, <2>1 DEF Crash, CoverInv
<1>5. CASE Restart
  <2>1. Accounted' = Accounted
    BY <1>5, <1>a DEF Restart, main
  <2>2. ToSet(<<>>) = {} /\ \A s \in Serials : ~(s <= NoSerial)
    BY DEF ToSet, Serials, NoSerial
  <2>3. QED  BY <1>5, <2>1, <2>2 DEF Restart, CoverInv
<1>6. CASE UNCHANGED vars
  <2>1. Accounted' = Accounted
    BY <1>6, <1>a DEF vars, disk, main
  <2>2. QED  BY <1>6, <2>1 DEF vars, disk, memory, CoverInv
<1>7. CASE SourceStep
  <2>u. UNCHANGED <<published, ledger, hand, stage, crashes>>
    BY <1>7 DEF SourceStep, BootstrapJournal, FetchPrimer, BootstrapFeed, PrimeKey,
                PollJournal, PollFeed, Emit, SaveState, OnlySource, main
  <2>1. CASE BootstrapJournal
    <3>1. Accounted \subseteq Accounted'
      BY <1>a, <2>1, <2>u DEF BootstrapJournal, CoverInv
    <3>2. \A s \in Serials : s <= published => s \in baseline'
      BY <2>1 DEF BootstrapJournal, Serials, TypeInv, TypeOK
    <3>3. ToSet(<<>>) = {}
      BY DEF ToSet
    <3>4. QED  BY <1>a, <2>1, <2>u, <3>1, <3>2, <3>3 DEF BootstrapJournal, CoverInv
  <2>2. CASE FetchPrimer
    <3>1. Accounted \subseteq Accounted' /\ baseline \subseteq baseline'
      BY <1>a, <2>2, <2>u DEF FetchPrimer
    <3>2. ToSet(Feed) \subseteq 1..published
      BY FeedElements DEF TypeInv, TypeOK
    <3>3. baseline' \subseteq 1..published'
      BY <2>2, <2>u, <3>2 DEF FetchPrimer, CoverInv
    <3>4. crashes = 0 => ToSet(batch') \subseteq baseline'
      BY <2>2 DEF FetchPrimer, CoverInv
    <3>5. crashes = 0 => \A s \in Serials : s <= cursor => s \in Accounted'
      BY <2>2, <3>1, <1>a DEF FetchPrimer, CoverInv
    <3>6. QED  BY <2>2, <2>u, <3>1, <3>3, <3>4, <3>5 DEF FetchPrimer, CoverInv
  <2>3. CASE BootstrapFeed
    <3>1. Accounted \subseteq Accounted'
      BY <1>a, <2>3, <2>u DEF BootstrapFeed, CoverInv
    <3>2. ToSet(Feed) \subseteq 1..published
      BY FeedElements DEF TypeInv, TypeOK
    <3>3. QED  BY <2>3, <2>u, <3>1, <3>2 DEF BootstrapFeed, CoverInv
  <2>4. CASE PrimeKey
    <3>1. Accounted' = Accounted
      BY <1>a, <2>4, <2>u DEF PrimeKey
    <3>2. Head(batch) \in Serials /\ ToSet(batch) = {Head(batch)} \cup ToSet(batch')
      BY <2>4, TailElements DEF PrimeKey, TypeInv, TypeOK
    <3>3. ToSet(recent') \subseteq ToSet(recent) \cup {Head(batch)}
      BY <2>4, <3>2, InsertElements DEF PrimeKey, TypeInv, TypeOK
    <3>4. QED
      BY <2>4, <2>u, <3>1, <3>2, <3>3 DEF PrimeKey, CoverInv, Accounted
  <2>5. CASE PollJournal
    <3>1. Accounted' = Accounted
      BY <1>a, <2>5, <2>u DEF PollJournal
    <3>2. last_serial \in 0..MaxSerial /\ MaxSerial \in Nat /\ published \in Nat
      BY <2>5, IntakeAssumption DEF PollJournal, TypeInv, TypeOK
    <3>3. \A s \in Serials : last_serial < s /\ s <= published => s \in ToSet(batch')
      BY <2>5, <3>2, JournalElements DEF PollJournal, TypeInv, TypeOK
    <3>4. crashes = 0 =>
            \A s \in Serials : s <= published => s \in Accounted \cup ToSet(batch')
      BY <3>2, <3>3 DEF CoverInv, Serials
    <3>5. QED  BY <2>5, <2>u, <3>1, <3>4 DEF PollJournal, CoverInv
  <2>6. CASE PollFeed
    <3>1. Accounted' = Accounted
      BY <1>a, <2>6, <2>u DEF PollFeed
    <3>2. QED  BY <2>6, <2>u, <3>1 DEF PollFeed, CoverInv
  <2>7. CASE Emit
    <3>1. Head(batch) \in Serials /\ ToSet(batch) = {Head(batch)} \cup ToSet(batch')
      BY <2>7, TailElements DEF Emit, TypeInv, TypeOK
    <3>2. CASE Contains(recent, Head(batch))
      <4>1. Accounted' = Accounted
        BY <1>a, <2>7, <2>u, <3>2 DEF Emit
      <4>2. Head(batch) \in ToSet(recent)
        BY <3>2, ContainsElement DEF TypeInv, TypeOK
      <4>3. QED  BY <2>7, <2>u, <3>1, <3>2, <4>1, <4>2 DEF Emit, CoverInv
    <3>3. CASE ~Contains(recent, Head(batch))
      <4>1. ToSet(channel') = ToSet(channel) \cup {Head(batch)}
        <5>1. channel \in Seq(Serials) /\ channel' = Append(channel, Head(batch))
          BY <2>7, <3>3 DEF Emit, TypeInv, TypeOK
        <5>2. QED  BY <3>1, <5>1, AppendElements
      <4>2. Accounted' = Accounted \cup {Head(batch)}
        BY <1>a, <2>7, <2>u, <4>1 DEF Emit, HandedAt
      <4>3. ToSet(recent') \subseteq ToSet(recent) \cup {Head(batch)}
        BY <2>7, <3>1, <3>3, InsertElements DEF Emit, TypeInv, TypeOK
      <4>4. QED  BY <2>7, <2>u, <3>1, <3>3, <4>2, <4>3 DEF Emit, CoverInv
    <3>4. QED  BY <3>2, <3>3
  <2>8. CASE SaveState
    <3>1. Accounted' = Accounted
      BY <1>a, <2>8, <2>u DEF SaveState
    <3>2. ToSet(<<>>) = {}
      BY DEF ToSet
    <3>3. QED  BY <2>8, <2>u, <3>1, <3>2 DEF SaveState, CoverInv
  <2>9. QED
    BY <1>7, <2>1, <2>2, <2>3, <2>4, <2>5, <2>6, <2>7, <2>8 DEF SourceStep
<1>8. QED
  BY <1>1, <1>2, <1>3, <1>4, <1>5, <1>6, <1>7 DEF Next

\* As long as the process has not crashed, the cursor of a source passes no
\* release published since the first boot without handing it over.
THEOREM NothingSkipped == Spec => []CursorSkipsNothing
<1>1. CoverInv => CursorSkipsNothing
  BY DEF CoverInv, CursorSkipsNothing, Accounted
<1>2. QED
  BY InitTypeInv, InitCoverInv, NextTypeInv, NextCoverInv, <1>1, PTL DEF Spec

-----------------------------------------------------------------------------
(* The dedupe window.  What has been handed over last stands in the window,  *)
(* in the same order and at its end; keys of the first boot may come before. *)

WindowInv ==
    crashes = 0 =>
        /\ source = "emit" => warmed_up
        /\ source \in {"down", "prime"} \/ ~warmed_up => Handed = <<>>
        /\ \A i \in DOMAIN Handed :
               Len(Handed) - i < RecentCapacity =>
                   /\ Len(Handed) - i < Len(recent)
                   /\ recent[Len(recent) - (Len(Handed) - i)] = Handed[i]
        /\ \A i, j \in DOMAIN Handed :
               i < j /\ Handed[i] = Handed[j] => j - i > RecentCapacity

\* A sequence begins with its head.
LEMMA HeadFirst ==
    ASSUME NEW S, NEW s \in Seq(S), s # <<>>
    PROVE  s = <<Head(s)>> \o Tail(s)
<1>1. /\ Head(s) \in S /\ Tail(s) \in Seq(S) /\ Len(Tail(s)) = Len(s) - 1
      /\ \A i \in 1..Len(Tail(s)) : Tail(s)[i] = s[i + 1]
      /\ Len(s) \in Nat \ {0} /\ Head(s) = s[1]
  BY HeadTailProperties, EmptySeq
<1>2. <<Head(s)>> \in Seq(S) /\ Len(<<Head(s)>>) = 1 /\ <<Head(s)>>[1] = Head(s)
  BY <1>1
<1> DEFINE t == <<Head(s)>>
<1> HIDE DEF t
<1>3. /\ t \o Tail(s) \in Seq(S) /\ Len(t \o Tail(s)) = Len(s)
      /\ \A i \in 1..Len(s) : (t \o Tail(s))[i] = IF i <= 1 THEN t[i] ELSE Tail(s)[i - 1]
  BY <1>1, <1>2, ConcatProperties DEF t
<1>4. \A i \in 1..Len(s) : (t \o Tail(s))[i] = s[i]
  BY <1>1, <1>2, <1>3 DEF t
<1>5. t \o Tail(s) = s
  BY <1>3, <1>4, SeqEqual
<1>6. QED  BY <1>5 DEF t

LEMMA HandedIsSeq ==
    ASSUME TypeInv
    PROVE  Handed \in Seq(Serials)
<1>1. /\ ledger \in Seq(Serials) /\ hand \in Seq(Serials) /\ channel \in Seq(Serials)
      /\ <<>> \in Seq(Serials)
  BY DEF TypeInv, TypeOK
<1>2. QED  BY <1>1, ConcatProperties DEF Handed

\* The main loop only moves releases on.
LEMMA MainKeepsOrder ==
    ASSUME TypeInv, MainStep
    PROVE  Handed' = Handed
<1>t. /\ ledger \in Seq(Serials) /\ hand \in Seq(Serials) /\ channel \in Seq(Serials)
      /\ Len(hand) <= 1
  BY DEF TypeInv, TypeOK
<1>1. CASE Receive
  <2>1. /\ channel # <<>> /\ hand = <<>> /\ ledger' = ledger
        /\ hand' = <<Head(channel)>> /\ stage' = "append" /\ channel' = Tail(channel)
    BY <1>1 DEF Receive
  <2>2. Handed = ledger \o channel
    BY <1>t, <2>1, ConcatEmptySeq DEF Handed
  <2>3. Handed' = (ledger \o <<Head(channel)>>) \o Tail(channel)
    BY <2>1 DEF Handed
  <2>4. <<Head(channel)>> \in Seq(Serials) /\ Tail(channel) \in Seq(Serials)
    BY <1>t, <2>1, HeadTailProperties
  <2>5. (ledger \o <<Head(channel)>>) \o Tail(channel)
          = ledger \o (<<Head(channel)>> \o Tail(channel))
    BY <1>t, <2>4, ConcatAssociative
  <2>6. QED  BY <1>t, <2>1, <2>2, <2>3, <2>5, HeadFirst
<1>2. CASE AppendLedger
  <2>1. /\ hand # <<>> /\ stage = "append" /\ stage' = "record"
        /\ ledger' = Append(ledger, Head(hand)) /\ hand' = hand /\ channel' = channel
    BY <1>2 DEF AppendLedger
  <2>2. hand = <<Head(hand)>> /\ Head(hand) \in Serials
    <3>1. Head(hand) \in Serials /\ Tail(hand) \in Seq(Serials) /\ Len(Tail(hand)) = Len(hand) - 1
      BY <1>t, <2>1, HeadTailProperties
    <3>2. Len(hand) \in Nat \ {0}
      BY <1>t, <2>1, EmptySeq
    <3>3. Tail(hand) = <<>>
      BY <1>t, <3>1, <3>2, EmptySeq
    <3>4. <<Head(hand)>> \in Seq(Serials)
      BY <3>1
    <3>5. QED  BY <1>t, <2>1, <3>1, <3>3, <3>4, HeadFirst, ConcatEmptySeq
  <2>3. Append(ledger, Head(hand)) = ledger \o <<Head(hand)>>
    BY <1>t, <2>2, AppendIsConcat
  <2>4. ledger' = ledger \o hand
    BY <2>1, <2>2, <2>3
  <2>5. ledger \o hand \in Seq(Serials)
    BY <1>t, ConcatProperties
  <2>6. Handed' = ((ledger \o hand) \o <<>>) \o channel
    BY <2>1, <2>4 DEF Handed
  <2>7. QED  BY <2>1, <2>5, <2>6, ConcatEmptySeq DEF Handed
<1>3. CASE RecordEvent
  BY <1>3 DEF RecordEvent, Handed
<1>4. CASE Dispatch
  BY <1>4 DEF Dispatch, Handed
<1>5. QED  BY <1>1, <1>2, <1>3, <1>4 DEF MainStep

\* A new release goes to the end of what has been handed over.
LEMMA EmitAppends ==
    ASSUME TypeInv, Emit, ~Contains(recent, Head(batch))
    PROVE  Handed' = Append(Handed, Head(batch))
<1> DEFINE first == ledger \o (IF stage = "append" THEN hand ELSE <<>>)
<1>1. /\ ledger \in Seq(Serials) /\ hand \in Seq(Serials) /\ channel \in Seq(Serials)
      /\ <<>> \in Seq(Serials)
  BY DEF TypeInv, TypeOK
<1>2. first \in Seq(Serials)
  BY <1>1, ConcatProperties
<1>3. Head(batch) \in Serials
  BY TailElements DEF Emit, TypeInv, TypeOK
<1>4. /\ channel' = Append(channel, Head(batch))
      /\ ledger' = ledger /\ hand' = hand /\ stage' = stage
  BY DEF Emit, OnlySource, main
<1> DEFINE e == Head(batch)
<1>5. Handed = first \o channel /\ Handed' = first \o Append(channel, e)
  BY <1>4 DEF Handed
<1> HIDE DEF first, e
<1>6. e \in Serials /\ <<e>> \in Seq(Serials)
  BY <1>3 DEF e
<1>7. Append(channel, e) = channel \o <<e>>
  BY <1>1, <1>6, AppendIsConcat
<1>8. first \o (channel \o <<e>>) = (first \o channel) \o <<e>>
  BY <1>1, <1>2, <1>6, ConcatAssociative
<1>9. first \o channel \in Seq(Serials)
  BY <1>1, <1>2, ConcatProperties
<1>10. (first \o channel) \o <<e>> = Append(first \o channel, e)
  BY <1>6, <1>9, AppendIsConcat
<1>11. QED  BY <1>5, <1>7, <1>8, <1>10 DEF e

\* Where a new key of the window stands, and where the ones before it go.
LEMMA InsertShifts ==
    ASSUME NEW q \in Seq(Serials), Len(q) <= RecentCapacity, NEW k \in Serials, ~Contains(q, k),
           RecentCapacity > 0
    PROVE  /\ Insert(q, k)[Len(Insert(q, k))] = k
           /\ Len(Insert(q, k)) >= 1
           /\ \A n \in 0..(RecentCapacity - 2) :
                  n < Len(q) => /\ n + 1 < Len(Insert(q, k))
                                /\ Insert(q, k)[Len(Insert(q, k)) - (n + 1)] = q[Len(q) - n]
<1> DEFINE pushed == Append(q, k)
<1>1. /\ pushed \in Seq(Serials) /\ pushed # <<>> /\ Len(pushed) = Len(q) + 1
      /\ \A i \in 1..Len(q) : pushed[i] = q[i]
      /\ pushed[Len(q) + 1] = k
  BY AppendProperties
<1>2. Insert(q, k) = IF Len(pushed) > RecentCapacity THEN Tail(pushed) ELSE pushed
  BY DEF Insert
<1> HIDE DEF pushed
<1>3. RecentCapacity \in Nat /\ Len(q) \in Nat
  BY IntakeAssumption
<1>4. CASE Len(pushed) > RecentCapacity
  <2>1. /\ Len(Tail(pushed)) = Len(q)
        /\ \A i \in 1..Len(q) : Tail(pushed)[i] = pushed[i + 1]
    BY <1>1, <1>3, HeadTailProperties
  <2>2. Insert(q, k) = Tail(pushed) /\ Len(q) = RecentCapacity
    BY <1>1, <1>2, <1>3, <1>4
  <2>3. Tail(pushed)[Len(q)] = k
    BY <1>1, <1>3, <2>1, <2>2
  <2>4. ASSUME NEW n \in 0..(RecentCapacity - 2), n < Len(q)
        PROVE  Tail(pushed)[Len(q) - (n + 1)] = q[Len(q) - n] /\ n + 1 < Len(q)
    <3>1. Len(q) - (n + 1) \in 1..Len(q) /\ (Len(q) - (n + 1)) + 1 = Len(q) - n
          /\ Len(q) - n \in 1..Len(q)
      BY <1>3, <2>2, <2>4
    <3>2. Tail(pushed)[Len(q) - (n + 1)] = pushed[Len(q) - n]
      BY <2>1, <3>1
    <3>3. QED  BY <1>1, <1>3, <2>2, <2>4, <3>1, <3>2
  <2>5. QED  BY <1>3, <2>1, <2>2, <2>3, <2>4
<1>5. CASE ~(Len(pushed) > RecentCapacity)
  <2>1. Insert(q, k) = pushed
    BY <1>2, <1>5
  <2>2. ASSUME NEW n \in 0..(RecentCapacity - 2), n < Len(q)
        PROVE  pushed[Len(q) + 1 - (n + 1)] = q[Len(q) - n] /\ n + 1 < Len(q) + 1
    <3>1. Len(q) + 1 - (n + 1) = Len(q) - n /\ Len(q) - n \in 1..Len(q)
      BY <1>3, <2>2
    <3>2. QED  BY <1>1, <1>3, <2>2, <3>1
  <2>3. QED  BY <1>1, <1>3, <2>1, <2>2
<1>6. QED  BY <1>4, <1>5

\* A release that is not in the window is at its end once it is handed over,
\* and has not been among the last RecentCapacity ones.
LEMMA EmitKeepsWindow ==
    ASSUME TypeInv, WindowInv, Emit, crashes = 0, ~Contains(recent, Head(batch))
    PROVE  WindowInv'
<1> DEFINE e == Head(batch)
           old == Handed
           new == Handed'
<1>1. new = Append(old, e)
  BY EmitAppends
<1>2. recent' = Insert(recent, e) /\ source' = source /\ warmed_up' = warmed_up /\ source = "emit"
  BY DEF Emit
<1>3. e \in Serials /\ old \in Seq(Serials) /\ recent \in Seq(Serials)
      /\ Len(recent) <= RecentCapacity /\ RecentCapacity \in Nat
  BY HandedIsSeq, TailElements, IntakeAssumption DEF Emit, TypeInv, TypeOK
<1>4. /\ Len(new) = Len(old) + 1 /\ Len(old) \in Nat
      /\ DOMAIN new = 1..(Len(old) + 1) /\ DOMAIN old = 1..Len(old)
      /\ \A i \in 1..Len(old) : new[i] = old[i]
      /\ new[Len(old) + 1] = e
  BY <1>1, <1>3
<1>5. /\ \A i \in DOMAIN old :
             Len(old) - i < RecentCapacity =>
                 /\ Len(old) - i < Len(recent)
                 /\ recent[Len(recent) - (Len(old) - i)] = old[i]
      /\ \A i, j \in DOMAIN old : i < j /\ old[i] = old[j] => j - i > RecentCapacity
      /\ ~(source \in {"down", "prime"} \/ ~warmed_up) \/ old = <<>>
  BY DEF WindowInv
<1>6. ~Contains(recent, e)
  OBVIOUS
<1> DEFINE q == recent'
<1>7. /\ RecentCapacity > 0 =>
             /\ q[Len(q)] = e /\ Len(q) >= 1
             /\ \A n \in 0..(RecentCapacity - 2) :
                    n < Len(recent) => n + 1 < Len(q) /\ q[Len(q) - (n + 1)] = recent[Len(recent) - n]
      /\ Len(q) \in Nat
  <2>1. q \in Seq(Serials)
    BY <1>2, <1>3, InsertElements
  <2>2. ASSUME RecentCapacity > 0
        PROVE  /\ Insert(recent, e)[Len(Insert(recent, e))] = e /\ Len(Insert(recent, e)) >= 1
               /\ \A n \in 0..(RecentCapacity - 2) :
                      n < Len(recent) =>
                          /\ n + 1 < Len(Insert(recent, e))
                          /\ Insert(recent, e)[Len(Insert(recent, e)) - (n + 1)] = recent[Len(recent) - n]
    <3> HIDE DEF e
    <3>1. QED  BY <1>3, <1>6, <2>2, InsertShifts
  <2>3. QED  BY <1>2, <2>1, <2>2
<1>w. warmed_up
  BY <1>2 DEF WindowInv
<1> HIDE DEF e, old, new, q
<1>8. ASSUME NEW i \in DOMAIN new, Len(new) - i < RecentCapacity
      PROVE  Len(new) - i < Len(q) /\ q[Len(q) - (Len(new) - i)] = new[i]
  <2>1. CASE i = Len(old) + 1
    BY <1>3, <1>4, <1>7, <1>8, <2>1
  <2>2. CASE i \in 1..Len(old)
    <3> DEFINE n == Len(old) - i
    <3>1. n \in 0..(RecentCapacity - 2) /\ n < RecentCapacity /\ Len(new) - i = n + 1
      BY <1>3, <1>4, <1>8, <2>2
    <3>2. n < Len(recent) /\ recent[Len(recent) - n] = old[i]
      BY <1>4, <1>5, <2>2, <3>1
    <3> HIDE DEF n
    <3>3. n + 1 < Len(q) /\ q[Len(q) - (n + 1)] = recent[Len(recent) - n]
      BY SMTT(40), <1>3, <1>7, <3>1, <3>2
    <3>4. QED  BY <1>4, <2>2, <3>1, <3>2, <3>3
  <2>3. QED  BY <1>4, <1>8, <2>1, <2>2
<1>9. ASSUME NEW i \in DOMAIN new, NEW j \in DOMAIN new, i < j, new[i] = new[j]
      PROVE  j - i > RecentCapacity
  <2>1. CASE j \in 1..Len(old)
    BY <1>4, <1>5, <1>9, <2>1
  <2>2. CASE j = Len(old) + 1
    <3>1. i \in 1..Len(old) /\ old[i] = e
      BY <1>4, <1>9, <2>2
    <3>2. ASSUME j - i <= RecentCapacity PROVE FALSE
      <4>1. Len(old) - i < RecentCapacity
        BY <1>3, <1>4, <2>2, <3>1, <3>2
      <4>2. Len(old) - i < Len(recent) /\ recent[Len(recent) - (Len(old) - i)] = e
        BY <1>4, <1>5, <3>1, <4>1
      <4>3. Len(recent) - (Len(old) - i) \in 1..Len(recent) /\ Len(recent) \in Nat
        BY <1>3, <1>4, <3>1, <4>2
      <4>4. e \in ToSet(recent)
        BY <1>3, <4>2, <4>3 DEF ToSet
      <4>5. QED  BY <1>3, <1>6, <4>4, ContainsElement
    <3>3. QED  BY <1>3, <1>4, <2>2, <3>1, <3>2
  <2>3. QED  BY <1>4, <1>9, <2>1, <2>2
<1>10. QED  BY <1>2, <1>8, <1>9, <1>w DEF WindowInv, new, q

LEMMA NextWindowInv == TypeInv /\ WindowInv /\ [Next]_vars => WindowInv'
<1> SUFFICES ASSUME TypeInv, WindowInv, [Next]_vars, crashes' = 0 PROVE WindowInv'
  BY DEF WindowInv
<1>1. CASE UNCHANGED vars \/ Publish \/ \E r \in Serials : Capture(r)
  <2>1. UNCHANGED <<ledger, hand, stage, channel, recent, source, warmed_up, crashes>>
    BY <1>1 DEF Publish, Capture, OnlyMain, vars, disk, memory, main
  <2>2. Handed' = Handed
    BY <2>1 DEF Handed
  <2>3. QED  BY <2>1, <2>2 DEF WindowInv
<1>2. CASE MainStep
  <2>1. UNCHANGED <<recent, source, warmed_up, crashes>>
    BY <1>2 DEF MainStep, Receive, AppendLedger, RecordEvent, Dispatch, OnlyMain, memory
  <2>2. Handed' = Handed
    BY <1>2, MainKeepsOrder
  <2>3. QED  BY <2>1, <2>2 DEF WindowInv
<1>3. CASE Crash
  BY <1>3 DEF Crash, TypeInv, TypeOK
<1>4. CASE Restart
  <2>1. /\ crashes = 0 /\ source = "down" /\ source' = "poll"
        /\ UNCHANGED <<ledger, hand, stage, channel>>
    BY <1>4 DEF Restart, main
  <2>2. Handed = <<>> /\ Handed' = Handed
    BY <2>1 DEF Handed, WindowInv
  <2>3. QED  BY <2>1, <2>2 DEF WindowInv
<1>5. CASE SourceStep
  <2>u. UNCHANGED <<ledger, hand, stage, crashes>>
    BY <1>5 DEF SourceStep, BootstrapJournal, FetchPrimer, BootstrapFeed, PrimeKey,
                PollJournal, PollFeed, Emit, SaveState, OnlySource, main
  <2>c. channel' = channel => Handed' = Handed
    BY <2>u DEF Handed
  <2>1. CASE BootstrapJournal \/ BootstrapFeed
    <3>1. ~warmed_up /\ channel' = channel /\ source' = "prime"
      BY <2>1 DEF BootstrapJournal, BootstrapFeed
    <3>2. Handed' = <<>>
      BY <2>c, <2>u, <3>1 DEF WindowInv
    <3>3. QED  BY <3>1, <3>2 DEF WindowInv
  <2>2. CASE FetchPrimer \/ PrimeKey
    <3>1. source = "prime" /\ channel' = channel /\ source' = "prime"
      BY <2>2 DEF FetchPrimer, PrimeKey
    <3>2. Handed' = <<>>
      BY <2>c, <2>u, <3>1 DEF WindowInv
    <3>3. QED  BY <3>1, <3>2 DEF WindowInv
  <2>3. CASE PollJournal \/ PollFeed \/ SaveState
    <3>1. /\ warmed_up /\ source' \in {"emit", "poll"}
          /\ UNCHANGED <<channel, recent, warmed_up>>
      BY <2>3 DEF PollJournal, PollFeed, SaveState
    <3>2. Handed' = Handed
      BY <2>c, <3>1
    <3>3. QED  BY <2>u, <3>1, <3>2 DEF WindowInv
  <2>4. CASE Emit
    <3>1. CASE Contains(recent, Head(batch))
      <4>1. UNCHANGED <<channel, recent, warmed_up, source>>
        BY <2>4, <3>1 DEF Emit
      <4>2. Handed' = Handed
        BY <2>c, <4>1
      <4>3. QED  BY <2>u, <4>1, <4>2 DEF WindowInv
    <3>2. CASE ~Contains(recent, Head(batch))
      BY <2>4, <2>u, <3>2, EmitKeepsWindow
    <3>3. QED  BY <3>1, <3>2
  <2>5. QED  BY <1>5, <2>1, <2>2, <2>3, <2>4 DEF SourceStep
<1>6. QED  BY <1>1, <1>2, <1>3, <1>4, <1>5 DEF Next

\* As long as the process has not crashed, a release is handed over again only
\* after RecentCapacity others, for any capacity and however feed and journal
\* overlap: the dedupe window is as wide as it says (state.rs 99-115).
THEOREM WindowHolds == Spec => []DedupeWindow
<1>1. Init => WindowInv
  <2>1. SUFFICES ASSUME Init PROVE WindowInv
    OBVIOUS
  <2>2. Handed = <<>> /\ source = "down"
    BY <2>1 DEF Init, Handed
  <2>3. QED  BY <2>2 DEF WindowInv
<1>2. WindowInv => DedupeWindow
  BY DEF WindowInv, DedupeWindow
<1>3. QED
  BY InitTypeInv, NextTypeInv, NextWindowInv, <1>1, <1>2, PTL DEF Spec

=============================================================================
