----------------------------- MODULE BoundedMap -----------------------------
(***************************************************************************)
(* BoundedMap (bounded_map.rs): the bounded recency cache behind the       *)
(* priority, provenance and dropped-audit caches.  The map assigns every   *)
(* present key the generation of its last use; `order` is the queue of     *)
(* (key, generation) pairs from which evict_oldest takes its victim.  A    *)
(* use of a key leaves its earlier pairs in the queue as stale pairs, and  *)
(* compact_order_if_needed rebuilds the queue once it has grown too long.  *)
(* Values are opaque to the map and are left out.                          *)
(***************************************************************************)
EXTENDS Naturals, Sequences, FiniteSets

CONSTANTS
    Keys,           \* the keys callers use
    MaxEntries,     \* argument of BoundedMap::new
    CompactFactor,  \* 4 in the code
    CompactSlack,   \* 16 in the code
    MaxGeneration   \* bound of the model: generations allocated in one run

\* `new` raises a capacity of zero to one.
Capacity == IF MaxEntries = 0 THEN 1 ELSE MaxEntries

MaxOrderLen == Capacity * CompactFactor + CompactSlack

ASSUME BoundsAssumption ==
    /\ MaxEntries \in Nat
    /\ CompactFactor \in Nat \ {0}
    /\ CompactSlack \in Nat \ {0}
    /\ MaxGeneration \in Nat

VARIABLES
    generation,       \* generation of each present key, 0 for an absent key
    order,            \* the eviction queue, a sequence of pairs
    next_generation

vars == <<generation, order, next_generation>>

Pair(k, g) == [key |-> k, generation |-> g]

Present(gen) == {k \in Keys : gen[k] # 0}

LivePairs(gen) == {Pair(k, gen[k]) : k \in Present(gen)}

\* The pairs of a queue that still name the last use of their key.
LiveIndices(gen, queue) ==
    {i \in DOMAIN queue : gen[queue[i].key] = queue[i].generation}

-----------------------------------------------------------------------------
(* compact_order_if_needed: beyond the threshold the queue becomes the     *)
(* entries of the map sorted by generation, and the pair pushed just       *)
(* before survives only if the map already holds it.                       *)

SortedQueues(gen) ==
    {s \in [1..Cardinality(Present(gen)) -> LivePairs(gen)] :
        /\ {s[i] : i \in DOMAIN s} = LivePairs(gen)
        /\ \A i, j \in DOMAIN s : i < j => s[i].generation < s[j].generation}

\* Mutant: the queue is never compacted.
NeverCompact(gen, queue) == {queue}

CompactOrderIfNeeded(gen, queue) ==
    IF Len(queue) <= MaxOrderLen THEN {queue} ELSE SortedQueues(gen)

(* evict_oldest: pop until a live pair is found; its key leaves the map.   *)

\* Mutant: pairs are popped from the wrong end.
NewestLive(gen, queue) ==
    {i \in LiveIndices(gen, queue) :
        \A j \in LiveIndices(gen, queue) : j <= i}

OldestLive(gen, queue) ==
    {i \in LiveIndices(gen, queue) :
        \A j \in LiveIndices(gen, queue) : i <= j}

EvictOldest(gen, queue) ==
    IF LiveIndices(gen, queue) = {}
    THEN {[generation |-> gen, order |-> <<>>]}
    ELSE {[generation |-> [gen EXCEPT ![queue[i].key] = 0],
           order |-> SubSeq(queue, i + 1, Len(queue))] :
              i \in OldestLive(gen, queue)}

\* Before a new key enters: a full map gives up an entry.
MakeRoom(gen, queue) ==
    IF Cardinality(Present(gen)) >= Capacity
    THEN EvictOldest(gen, queue)
    ELSE {[generation |-> gen, order |-> queue]}

-----------------------------------------------------------------------------
AllocateGeneration ==
    /\ next_generation <= MaxGeneration
    /\ next_generation' = next_generation + 1

\* A use of a present key: push the new pair, compact, then update the entry.
Refresh(k) ==
    /\ generation[k] # 0
    /\ AllocateGeneration
    /\ order' \in CompactOrderIfNeeded(generation,
                      Append(order, Pair(k, next_generation)))
    /\ generation' = [generation EXCEPT ![k] = next_generation]

GetMut(k) == Refresh(k)

GetClonedRefresh(k) == Refresh(k)

\* insert of an absent key: evict first if the map is full.
InsertNew(k) ==
    /\ generation[k] = 0
    /\ AllocateGeneration
    /\ \E room \in MakeRoom(generation, order) :
           /\ order' \in CompactOrderIfNeeded(room.generation,
                             Append(room.order, Pair(k, next_generation)))
           /\ generation' = [room.generation EXCEPT ![k] = next_generation]

Insert(k) == Refresh(k) \/ InsertNew(k)

RemoveKey(k) ==
    /\ generation[k] # 0
    /\ generation' = [generation EXCEPT ![k] = 0]
    /\ order' \in CompactOrderIfNeeded(generation', order)
    /\ UNCHANGED next_generation

Init ==
    /\ generation = [k \in Keys |-> 0]
    /\ order = <<>>
    /\ next_generation = 1

Next ==
    \E k \in Keys : Insert(k) \/ GetMut(k) \/ GetClonedRefresh(k) \/ RemoveKey(k)

Spec == Init /\ [][Next]_vars

-----------------------------------------------------------------------------
(* Properties.                                                             *)

\* Keys in the map that no pair of the queue can evict: compaction runs
\* before the entry is updated, so the key being used loses its pair.
OrphansOf(gen, queue) ==
    {k \in Present(gen) : \A i \in DOMAIN queue : queue[i] # Pair(k, gen[k])}

Orphans == OrphansOf(generation, order)

Pairs == [key : Keys, generation : Nat \ {0}]

\* Every variable has its type.
TypeOK ==
    /\ generation \in [Keys -> Nat]
    /\ order \in Seq(Pairs)
    /\ next_generation \in Nat \ {0}

\* However the uses, insertions, removals and compactions interleave, at most
\* one key is ever out of evict_oldest's reach (bounded_map.rs 114-145).
AtMostOneOrphan == \A j, k \in Orphans : j = k

\* The promise `max_entries` can keep: a map of capacity two or more never
\* holds more entries than that, and one of capacity one never more than two.
LenBounded ==
    Cardinality(Present(generation)) <= IF Capacity = 1 THEN 2 ELSE Capacity

\* The queue cannot outgrow the compaction threshold, whatever share of its
\* pairs is stale (bounded_map.rs 132-145).
OrderBounded == Len(order) <= MaxOrderLen

\* Pairs leave the queue in generation order, so an insertion that evicts
\* takes the least recently used of the keys the queue still reaches.
EvictsOldestReachable ==
    [][next_generation' # next_generation =>
         \A v, k \in Present(generation) \ Orphans :
             generation'[v] = 0 /\ generation[k] < generation[v]
                 => generation'[k] = 0]_vars

\* What the test stale_order_entries_do_not_evict_recent_value asks of a map
\* of capacity two: inserting another key does not evict the entry used last.
RecentEntryKept ==
    [][Capacity >= 2 /\ next_generation' # next_generation =>
         \A k \in Present(generation) :
             generation[k] = next_generation - 1 => generation'[k] # 0]_vars

=============================================================================
