--------------------------- MODULE EdgeCacheProofs ---------------------------
(***************************************************************************)
(* The edge cache keeps its promises for every set of CIDs, every sizes,   *)
(* every budget and TTLs, and every sequence of calls with any `now`.  The *)
(* inductive invariant is soundness of the cache record (CacheOpsProofs),  *)
(* the balance of the counters and the order of the entries' times; none   *)
(* of BytesExact, WithinBudget, RecencyStrict and CountersBalance is       *)
(* inductive alone.                                                        *)
(***************************************************************************)
EXTENDS EdgeCache, CacheOpsProofs

IInv ==
    /\ Sound(cache)
    /\ ledger \in Ledger
    /\ CountersBalance
    /\ ExpiryNotBeforeInsertion

-----------------------------------------------------------------------------
(* The ledger.                                                             *)

\* The balance, in terms of what the cache lemmas count.
LEMMA BalanceMeans ==
    ASSUME IsCache(cache), ledger \in Ledger
    PROVE  /\ CountersBalance <=>
                 /\ Reads(cache) = ledger.reads
                 /\ ledger.inserted = Tally(cache) + ledger.replaced + ledger.purged
           /\ Reads(cache) \in Nat /\ Tally(cache) \in Nat
           /\ ledger.reads \in Nat /\ ledger.inserted \in Nat
           /\ ledger.replaced \in Nat /\ ledger.purged \in Nat
           /\ ledger.last \in SUBSET Cids
<1>1. /\ Cardinality(Held(cache)) \in Nat /\ cache.expirations \in Nat
      /\ cache.evictions \in Nat /\ cache.hits \in Nat /\ cache.misses \in Nat
  BY CacheParts, FS_CardinalityType
<1>2. QED
  BY <1>1 DEF CountersBalance, Reads, Tally, Ledger

\* A step that moves the two sides of each balance alike keeps it.
LEMMA BalanceKept ==
    ASSUME IsCache(cache), IsCache(cache'), ledger \in Ledger, ledger' \in Ledger,
           CountersBalance,
           Reads(cache') - Reads(cache) = ledger'.reads - ledger.reads,
           (Tally(cache') - Tally(cache)) + (ledger'.replaced - ledger.replaced)
               + (ledger'.purged - ledger.purged) = ledger'.inserted - ledger.inserted
    PROVE  CountersBalance'
<1>1. /\ Reads(cache) = ledger.reads
      /\ ledger.inserted = Tally(cache) + ledger.replaced + ledger.purged
      /\ Reads(cache) \in Nat /\ Tally(cache) \in Nat
      /\ ledger.reads \in Nat /\ ledger.inserted \in Nat
      /\ ledger.replaced \in Nat /\ ledger.purged \in Nat
  BY BalanceMeans
<1>2. /\ Cardinality(Held(cache')) \in Nat /\ cache'.expirations \in Nat
      /\ cache'.evictions \in Nat /\ cache'.hits \in Nat /\ cache'.misses \in Nat
  BY CacheParts, FS_CardinalityType
<1>3. /\ ledger'.reads \in Nat /\ ledger'.inserted \in Nat
      /\ ledger'.replaced \in Nat /\ ledger'.purged \in Nat
  BY DEF Ledger
<1>4. Reads(cache') \in Nat /\ Tally(cache') \in Nat
  BY <1>2 DEF Reads, Tally
<1>5. Reads(cache') = ledger'.reads
  <2> DEFINE a == Reads(cache')
             b == Reads(cache)
             x == ledger'.reads
             y == ledger.reads
  <2>1. a \in Int /\ b \in Int /\ x \in Int /\ y \in Int /\ a - b = x - y /\ b = y
    BY <1>1, <1>3, <1>4
  <2> HIDE DEF a, b, x, y
  <2>2. a = x
    BY <2>1
  <2>3. QED
    BY <2>2 DEF a, x
<1>6. ledger'.inserted = Tally(cache') + ledger'.replaced + ledger'.purged
  BY <1>1, <1>3, <1>4
<1>7. QED
  BY <1>2, <1>5, <1>6 DEF CountersBalance, Reads, Tally

\* Entries that keep their times keep them in order.
LEMMA TimesKept ==
    ASSUME ExpiryNotBeforeInsertion,
           \A d \in Held(cache') : d \in Held(cache) /\ SameTimes(cache, cache', d)
    PROVE  ExpiryNotBeforeInsertion'
BY DEF ExpiryNotBeforeInsertion, SameTimes

-----------------------------------------------------------------------------
\* A get keeps the invariant: it is counted, and so is what it expires.
LEMMA GetKeeps ==
    ASSUME IInv, NEW c \in Cids, NEW now \in Times, DoGet(c, now)
    PROVE  IInv'
<1>1. now \in U64 /\ Sound(cache) /\ ledger \in Ledger /\ cache' = Get(cache, c, now)
  BY EdgeCacheAssumption DEF IInv, DoGet
<1>2. Sound(cache')
  BY <1>1, GetSound
<1>3. /\ Reads(cache') = Reads(cache) + 1 /\ Tally(cache') = Tally(cache)
      /\ \A d \in Held(cache') : d \in Held(cache) /\ SameTimes(cache, cache', d)
  BY <1>1, GetCounts
<1>4. /\ Reads(cache) \in Nat /\ Tally(cache) \in Nat
      /\ ledger.reads \in Nat /\ ledger.inserted \in Nat
      /\ ledger.replaced \in Nat /\ ledger.purged \in Nat
      /\ ledger.last \in SUBSET Cids
  BY <1>1, BalanceMeans DEF Sound
<1>5. PICK used \in SUBSET Cids : ledger' = [ledger EXCEPT !.reads = @ + 1, !.last = used]
  <2>1. (IF ContainsFresh(cache, c, now) THEN {c} ELSE ledger.last) \in SUBSET Cids
    BY <1>4
  <2>2. QED
    BY <2>1 DEF DoGet
<1>6. /\ ledger' \in Ledger
      /\ ledger'.reads = ledger.reads + 1 /\ ledger'.inserted = ledger.inserted
      /\ ledger'.replaced = ledger.replaced /\ ledger'.purged = ledger.purged
  <2>1. ledger.reads + 1 \in Nat
    BY <1>4
  <2>2. ledger' \in Ledger
    BY <1>1, <1>5, <2>1 DEF Ledger
  <2>3. QED
    BY <1>1, <1>5, <2>2 DEF Ledger
<1>7. CountersBalance'
  BY <1>1, <1>2, <1>3, <1>4, <1>6, BalanceKept DEF IInv, Sound
<1>8. ExpiryNotBeforeInsertion'
  BY <1>3, TimesKept DEF IInv
<1>9. QED
  BY <1>2, <1>6, <1>7, <1>8 DEF IInv

\* So does an insert: one more entry came in, and the one it replaces and the
\* ones it evicts are accounted for.
LEMMA InsertKeeps ==
    ASSUME IInv, NEW c \in Cids, NEW now \in Times, NEW ttl \in Ttls,
           DoInsert(c, ttl, now)
    PROVE  IInv'
<1>1. /\ now \in U64 /\ ttl \in U64 /\ Sound(cache) /\ ledger \in Ledger
      /\ cache' = InsertWithTtl(cache, c, ttl, now)
  BY EdgeCacheAssumption DEF IInv, DoInsert
<1>2. Sound(cache')
  BY <1>1, InsertSound
<1>3. CASE ~Cacheable(c)
  <2>1. cache' = cache /\ ledger' = ledger
    BY <1>1, <1>3 DEF DoInsert, InsertWithTtl
  <2>2. QED
    BY <2>1 DEF IInv, CountersBalance, ExpiryNotBeforeInsertion
<1>4. CASE Cacheable(c)
  <2>1. /\ Reads(cache') = Reads(cache)
        /\ c \in Held(cache) => Tally(cache') = Tally(cache)
        /\ c \notin Held(cache) => Tally(cache') = Tally(cache) + 1
        /\ cache'.entries[c].inserted = now
        /\ cache'.entries[c].expires = ExpiresAt(now, ttl)
        /\ \A d \in Held(cache') \ {c} :
              d \in Held(cache) /\ cache'.entries[d] = cache.entries[d]
    <3>1. Sound(cache) /\ ttl \in U64 /\ now \in U64 /\ Cacheable(c)
          /\ cache' = InsertWithTtl(cache, c, ttl, now)
      BY <1>1, <1>4
    <3>2. QED
      BY <3>1, InsertCounts
  <2>2. /\ Reads(cache) \in Nat /\ Tally(cache) \in Nat
        /\ ledger.reads \in Nat /\ ledger.inserted \in Nat
        /\ ledger.replaced \in Nat /\ ledger.purged \in Nat
    BY <1>1, BalanceMeans DEF Sound
  <2>3. Occupied(c) \in Nat /\ Tally(cache') - Tally(cache) = 1 - Occupied(c)
    BY <2>1, <2>2 DEF Occupied
  <2>4. ledger' = [ledger EXCEPT !.inserted = @ + 1, !.replaced = @ + Occupied(c),
                                 !.last = {c}]
    BY <1>4 DEF DoInsert
  <2>5. /\ ledger' \in Ledger
        /\ ledger'.reads = ledger.reads /\ ledger'.inserted = ledger.inserted + 1
        /\ ledger'.replaced = ledger.replaced + Occupied(c)
        /\ ledger'.purged = ledger.purged
    <3>1. ledger.inserted + 1 \in Nat /\ ledger.replaced + Occupied(c) \in Nat
      BY <2>2, <2>3
    <3>2. ledger' \in Ledger
      BY <1>1, <2>4, <3>1 DEF Ledger
    <3>3. QED
      BY <1>1, <2>4, <3>2 DEF Ledger
  <2>6. CountersBalance'
    <3>1. /\ Reads(cache') - Reads(cache) = ledger'.reads - ledger.reads
          /\ (Tally(cache') - Tally(cache)) + (ledger'.replaced - ledger.replaced)
               + (ledger'.purged - ledger.purged) = ledger'.inserted - ledger.inserted
      BY <2>1, <2>2, <2>3, <2>5
    <3>2. QED
      BY <1>1, <1>2, <2>5, <3>1, BalanceKept DEF IInv, Sound
  <2>7. ExpiryNotBeforeInsertion'
    BY <1>1, <2>1, ExpiryNotBefore DEF IInv, ExpiryNotBeforeInsertion
  <2>8. QED
    BY <1>2, <2>5, <2>6, <2>7 DEF IInv
<1>5. QED
  BY <1>3, <1>4

\* So does a purge, which the ledger counts and the cache does not.
LEMMA PurgeKeeps ==
    ASSUME IInv, NEW c \in Cids, DoPurge(c)
    PROVE  IInv'
<1>1. Sound(cache) /\ ledger \in Ledger /\ cache' = Purge(cache, c)
  BY DEF IInv, DoPurge
<1>2. Sound(cache')
  BY <1>1, PurgeSound
<1>3. /\ Reads(cache') = Reads(cache)
      /\ c \in Held(cache) => Tally(cache') = Tally(cache) - 1
      /\ c \notin Held(cache) => Tally(cache') = Tally(cache)
      /\ Held(cache') = Held(cache) \ {c}
      /\ \A d \in Held(cache') : cache'.entries[d] = cache.entries[d]
  BY <1>1, PurgeCounts
<1>4. /\ Reads(cache) \in Nat /\ Tally(cache) \in Nat
      /\ ledger.reads \in Nat /\ ledger.inserted \in Nat
      /\ ledger.replaced \in Nat /\ ledger.purged \in Nat
  BY <1>1, BalanceMeans DEF Sound
<1>5. Occupied(c) \in Nat /\ Tally(cache') - Tally(cache) = 0 - Occupied(c)
  BY <1>3, <1>4 DEF Occupied
<1>6. ledger' = [ledger EXCEPT !.purged = @ + Occupied(c)]
  BY DEF DoPurge
<1>7. /\ ledger' \in Ledger
      /\ ledger'.reads = ledger.reads /\ ledger'.inserted = ledger.inserted
      /\ ledger'.replaced = ledger.replaced
      /\ ledger'.purged = ledger.purged + Occupied(c)
  BY <1>1, <1>4, <1>5, <1>6 DEF Ledger
<1>8. CountersBalance'
  <2>1. /\ Reads(cache') - Reads(cache) = ledger'.reads - ledger.reads
        /\ (Tally(cache') - Tally(cache)) + (ledger'.replaced - ledger.replaced)
             + (ledger'.purged - ledger.purged) = ledger'.inserted - ledger.inserted
    <3> DEFINE o == Occupied(c)
               x == ledger.purged
    <3>1. o \in Nat /\ x \in Nat /\ ledger'.purged = x + o
      BY <1>4, <1>5, <1>7
    <3>2. Tally(cache') - Tally(cache) = 0 - o
      BY <1>5
    <3> HIDE DEF o
    <3>3. QED
      BY <1>3, <1>4, <1>7, <3>1, <3>2
  <2>2. QED
    BY <1>1, <1>2, <1>7, <2>1, BalanceKept DEF IInv, Sound
<1>9. ExpiryNotBeforeInsertion'
  BY <1>3, TimesKept DEF IInv, SameTimes
<1>10. QED
  BY <1>2, <1>7, <1>8, <1>9 DEF IInv

\* So does every step that leaves the ledger alone and counts what it drops.
LEMMA UnledgeredKeeps ==
    ASSUME IInv, Sound(cache'), UNCHANGED ledger,
           Reads(cache') = Reads(cache), Tally(cache') = Tally(cache),
           \A d \in Held(cache') : d \in Held(cache) /\ SameTimes(cache, cache', d)
    PROVE  IInv'
<1>1. /\ Reads(cache) \in Nat /\ Tally(cache) \in Nat
      /\ ledger.reads \in Nat /\ ledger.inserted \in Nat
      /\ ledger.replaced \in Nat /\ ledger.purged \in Nat
  BY BalanceMeans DEF IInv, Sound
<1>2. /\ Reads(cache') - Reads(cache) = ledger'.reads - ledger.reads
      /\ (Tally(cache') - Tally(cache)) + (ledger'.replaced - ledger.replaced)
           + (ledger'.purged - ledger.purged) = ledger'.inserted - ledger.inserted
  BY <1>1
<1>3. ledger' \in Ledger
  BY DEF IInv
<1>4. CountersBalance'
  BY <1>2, <1>3, BalanceKept DEF IInv, Sound
<1>5. ExpiryNotBeforeInsertion'
  BY TimesKept DEF IInv
<1>6. QED
  BY <1>3, <1>4, <1>5 DEF IInv

\* The inductive invariant holds initially and is kept by every operation of
\* the cache.
THEOREM InvariantHolds == Spec => []IInv
<1>1. Init => IInv
  <2> SUFFICES ASSUME Init
               PROVE  IInv
    OBVIOUS
  <2>1. Sound(cache) /\ ledger \in Ledger
    BY NewCacheSound DEF Init, Ledger
  <2>2. Held(cache) = {} /\ Cardinality(Held(cache)) = 0
    BY FS_EmptySet DEF Init, NewCache, EmptyFcn, Held
  <2>3. /\ cache.hits = 0 /\ cache.misses = 0 /\ cache.expirations = 0
        /\ cache.evictions = 0
    BY DEF Init, NewCache
  <2>4. CountersBalance
    BY <2>2, <2>3 DEF Init, CountersBalance
  <2>5. ExpiryNotBeforeInsertion
    BY <2>2 DEF ExpiryNotBeforeInsertion
  <2>6. QED
    BY <2>1, <2>4, <2>5 DEF IInv
<1>2. IInv /\ [Next]_vars => IInv'
  <2> SUFFICES ASSUME IInv, [Next]_vars
               PROVE  IInv'
    OBVIOUS
  <2>1. ASSUME NEW c \in Cids, NEW now \in Times, DoGet(c, now)
        PROVE  IInv'
    BY <2>1, GetKeeps
  <2>2. ASSUME NEW c \in Cids, NEW now \in Times, NEW ttl \in Ttls,
               DoInsert(c, ttl, now)
        PROVE  IInv'
    BY <2>2, InsertKeeps
  <2>3. ASSUME NEW c \in Cids, NEW now \in Times,
               DoNoteAbsent(c, now) \/ DoIsNegative(c, now)
        PROVE  IInv'
    <3>1. /\ now \in U64 /\ Sound(cache) /\ UNCHANGED ledger
          /\ cache' = IsNegative(cache, c, now) \/ cache' \in NoteAbsent(cache, c, now)
      BY <2>3, EdgeCacheAssumption DEF IInv, DoNoteAbsent, DoIsNegative
    <3>2. Sound(cache')
      BY <3>1, NoteAbsentSound, IsNegativeSound
    <3>3. /\ Reads(cache') = Reads(cache) /\ Tally(cache') = Tally(cache)
          /\ cache'.entries = cache.entries
      BY <3>1, TombstoneCounts
    <3>4. QED
      BY <3>1, <3>2, <3>3, UnledgeredKeeps DEF SameTimes, Held
  <2>4. ASSUME NEW c \in Cids, DoPurge(c)
        PROVE  IInv'
    BY <2>4, PurgeKeeps
  <2>5. ASSUME NEW now \in Times, DoSweep(now)
        PROVE  IInv'
    <3>1. /\ now \in U64 /\ Sound(cache) /\ UNCHANGED ledger
          /\ cache' = SweepExpired(cache, now)
      BY <2>5, EdgeCacheAssumption DEF IInv, DoSweep
    <3>2. Sound(cache')
      BY <3>1, SweepSound
    <3>3. /\ Reads(cache') = Reads(cache) /\ Tally(cache') = Tally(cache)
          /\ Held(cache') = Held(cache) \ {c \in Held(cache) : now > cache.entries[c].expires}
          /\ \A d \in Held(cache') : cache'.entries[d] = cache.entries[d]
      BY <3>1, SweepCounts
    <3>4. QED
      BY <3>1, <3>2, <3>3, UnledgeredKeeps DEF SameTimes
  <2>6. CASE UNCHANGED vars
    BY <2>6 DEF vars, IInv, CountersBalance, ExpiryNotBeforeInsertion
  <2>7. QED
    BY <2>1, <2>2, <2>3, <2>4, <2>5, <2>6 DEF Next
<1>3. QED
  BY <1>1, <1>2, PTL DEF Spec

\* The cache record and the ledger keep their types.
THEOREM TypeCorrect == Spec => []TypeOK
<1>1. IInv => TypeOK
  BY DEF IInv, Sound, TypeOK
<1>2. QED
  BY <1>1, InvariantHolds, PTL

\* cur_bytes, kept by increments and saturating decrements, never drifts from
\* the number of bytes really held.
THEOREM CounterExact == Spec => []BytesExact
<1>1. IInv => BytesExact
  BY DEF IInv, Sound, BytesExact
<1>2. QED
  BY <1>1, InvariantHolds, PTL

\* No sequence of calls makes the cache hold more than max_bytes.
THEOREM BudgetHolds == Spec => []WithinBudget
<1>1. IInv => WithinBudget
  BY DEF IInv, Sound, WithinBudget
<1>2. QED
  BY <1>1, InvariantHolds, PTL

\* No two entries ever share a recency tick: the LRU victim is unique.
THEOREM VictimUnique == Spec => []RecencyStrict
<1>1. IInv => RecencyStrict
  BY DEF IInv, Sound, DistinctTicks, RecencyStrict
<1>2. QED
  BY <1>1, InvariantHolds, PTL

\* The negative cache never outgrows max_tombstones.
THEOREM NegativeCacheBounded == Spec => []TombstonesBounded
<1>1. IInv => TombstonesBounded
  BY DEF IInv, Sound, TombstonesBounded
<1>2. QED
  BY <1>1, InvariantHolds, PTL

\* Entries and tombstones keep their limits together, in every reachable cache.
THEOREM BoundsHold == Spec => []WithinBounds
<1>1. WithinBudget /\ TombstonesBounded <=> WithinBounds
  BY DEF WithinBounds
<1>2. QED
  BY <1>1, BudgetHolds, NegativeCacheBounded, PTL

\* The operator's counters add up: every get is a hit or a miss, and every
\* entry that came in is held, expired, evicted, replaced or purged.
THEOREM CountersAddUp == Spec => []CountersBalance
<1>1. IInv => CountersBalance
  BY DEF IInv
<1>2. QED
  BY <1>1, InvariantHolds, PTL

\* No expiry time wraps around: an entry never expires before it was put in,
\* also at the end of the u64 range.
THEOREM ExpiryInOrder == Spec => []ExpiryNotBeforeInsertion
<1>1. IInv => ExpiryNotBeforeInsertion
  BY DEF IInv
<1>2. QED
  BY <1>1, InvariantHolds, PTL

\* The closed form every model uses for the eviction is the loop of
\* insert_with_ttl, in every cache that can arise.
THEOREM EvictionLoops == Spec => []EvictionIsTheLoop
<1>1. IInv => EvictionIsTheLoop
  <2> SUFFICES ASSUME IInv, NEW len \in 0 .. MaxBytes
               PROVE  /\ EvictLoop(cache, len) = EvictToFit(cache, len)
                      /\ ~Evicts(EvictLoop(cache, len), len)
    BY DEF EvictionIsTheLoop
  <2>1. len \in Nat
    BY CacheAssumption DEF U64
  <2>2. QED
    BY <2>1, LoopRuns DEF IInv
<1>2. QED
  BY <1>1, InvariantHolds, PTL

-----------------------------------------------------------------------------
(* The refinement of the LRU list.                                         *)

\* The list's bytes are the bytes the cache counts.
LEMMA BytesAgree ==
    ASSUME NEW S \in SUBSET Cids
    PROVE  Lru!Bytes(S) = TotalBytes(S)
<1>1. \A c \in S : Size[c] \in Nat /\ Size[c] <= U64Max /\ U64Max \in Nat
  BY CacheAssumption DEF U64
<1>2. UNION {{c} \X (1 .. Size[c]) : c \in S} = Content(S)
  <2>1. ASSUME NEW p \in UNION {{c} \X (1 .. Size[c]) : c \in S}
        PROVE  p \in Content(S)
    BY <1>1 DEF Content
  <2>2. ASSUME NEW p \in Content(S)
        PROVE  p \in UNION {{c} \X (1 .. Size[c]) : c \in S}
    <3>1. /\ p[1] \in S /\ p[2] \in 1 .. U64Max /\ p[2] <= Size[p[1]]
          /\ p = <<p[1], p[2]>>
      BY DEF Content
    <3>2. p[2] \in 1 .. Size[p[1]]
      BY <1>1, <3>1
    <3>3. p \in {p[1]} \X (1 .. Size[p[1]])
      BY <3>1, <3>2
    <3>4. QED
      BY <3>1, <3>3
  <2>3. QED
    BY <2>1, <2>2
<1>3. \A X : Lru!Cardinality(X) = Cardinality(X)
  BY DEF Lru!Cardinality, Cardinality
<1>4. QED
  BY <1>2, <1>3 DEF Lru!Bytes, TotalBytes

\* Entries that go, or none, are discarded from the list when the others keep
\* their ticks.
LEMMA DiscardStep ==
    ASSUME IsCache(cache), Held(cache') \in SUBSET Held(cache),
           \A d \in Held(cache') : cache'.entries[d].tick = cache.entries[d].tick,
           ledger'.last = ledger.last
    PROVE  Lru!Next
<1> DEFINE S == Held(cache) \ Held(cache')
<1>1. S \in SUBSET Cids
  BY CacheParts
<1>2. Held(cache)' = Held(cache) \ S
  OBVIOUS
<1>3. Before' = Before \cap (Held(cache)' \X Held(cache)')
  BY DEF Before
<1>4. Lru!Discard(S)
  BY <1>2, <1>3 DEF Lru!Discard
<1>5. QED
  BY <1>1, <1>4 DEF Lru!Next

\* An entry whose tick is beyond all others is put last in the order.
LEMMA LastInOrder ==
    ASSUME IsCache(cache), NEW c, NEW S \in SUBSET (Held(cache) \ {c}),
           Held(cache') = S \cup {c},
           \A d \in S : cache'.entries[d].tick = cache.entries[d].tick,
           cache'.entries[c].tick = cache.tick + 1,
           \A d \in Held(cache) : cache.entries[d].tick <= cache.tick
    PROVE  Before' = Lru!PutLast(S, c)
<1>1. cache.tick \in Nat /\ \A d \in Held(cache) : cache.entries[d].tick \in Nat
  BY CacheParts DEF Entry
<1>2. ASSUME NEW a \in S, NEW b \in S
      PROVE  <<a, b>> \in Before' <=> <<a, b>> \in Before
  BY DEF Before
<1>3. ASSUME NEW a \in S
      PROVE  <<a, c>> \in Before' /\ ~(<<c, a>> \in Before')
  BY <1>1 DEF Before
<1>4. ~(<<c, c>> \in Before')
  BY <1>1 DEF Before
<1>5. Before' \subseteq (S \cup {c}) \X (S \cup {c})
  BY DEF Before
<1> DEFINE B == Before
           N == Before'
<1> HIDE DEF B, N
<1>6. \A a \in S, b \in S : <<a, b>> \in N <=> <<a, b>> \in B
  BY <1>2 DEF N, B
<1>7. /\ \A a \in S : <<a, c>> \in N /\ ~(<<c, a>> \in N)
      /\ ~(<<c, c>> \in N) /\ N \subseteq (S \cup {c}) \X (S \cup {c})
  BY <1>3, <1>4, <1>5 DEF N
<1>8. Lru!PutLast(S, c) = (B \cap (S \X S)) \cup (S \X {c})
  BY DEF Lru!PutLast, B
<1>9. N \subseteq (B \cap (S \X S)) \cup (S \X {c})
  <2> SUFFICES ASSUME NEW p \in N PROVE p \in (B \cap (S \X S)) \cup (S \X {c})
    OBVIOUS
  <2>1. PICK a \in S \cup {c}, b \in S \cup {c} : p = <<a, b>>
    BY <1>7
  <2>2. a \in S
    BY <1>7, <2>1
  <2>3. QED
    BY <1>6, <2>1, <2>2
<1>10. (B \cap (S \X S)) \cup (S \X {c}) \subseteq N
  <2> SUFFICES ASSUME NEW p \in (B \cap (S \X S)) \cup (S \X {c}) PROVE p \in N
    OBVIOUS
  <2>1. CASE p \in B \cap (S \X S)
    <3>1. PICK a \in S, b \in S : p = <<a, b>>
      BY <2>1
    <3>2. QED
      BY <1>6, <2>1, <3>1
  <2>2. CASE p \in S \X {c}
    <3>1. PICK a \in S : p = <<a, c>>
      BY <2>2
    <3>2. QED
      BY <1>7, <3>1
  <2>3. QED
    BY <2>1, <2>2
<1>11. QED
  BY <1>8, <1>9, <1>10 DEF N

\* A fresh get is a use.
LEMMA UseStep ==
    ASSUME IInv, NEW c \in Cids, NEW now \in Times, DoGet(c, now),
           ContainsFresh(cache, c, now)
    PROVE  Lru!Use(c)
<1>1. /\ now \in U64 /\ Sound(cache) /\ IsCache(cache) /\ cache' = Get(cache, c, now)
  BY EdgeCacheAssumption DEF IInv, DoGet, Sound
<1>2. /\ c \in Held(cache) /\ Held(cache') = Held(cache)
      /\ cache'.entries[c].tick = cache.tick + 1
      /\ \A d \in Held(cache) \ {c} : cache'.entries[d].tick = cache.entries[d].tick
  BY <1>1, GetTicks
<1>3. \A d \in Held(cache) : cache.entries[d].tick <= cache.tick
  BY <1>1 DEF Sound, DistinctTicks
<1>4. Before' = Lru!PutLast(Held(cache) \ {c}, c)
  <2>1. Held(cache') = (Held(cache) \ {c}) \cup {c}
    BY <1>2
  <2>2. QED
    BY <1>1, <1>2, <1>3, <2>1, LastInOrder
<1>5. ledger'.last = {c}
  BY DEF IInv, DoGet, Ledger
<1>6. QED
  BY <1>2, <1>4, <1>5 DEF Lru!Use

\* An insert that caches its object is a store.
LEMMA StoreStep ==
    ASSUME IInv, NEW c \in Cids, NEW now \in Times, NEW ttl \in Ttls,
           DoInsert(c, ttl, now), Cacheable(c)
    PROVE  Lru!Store(c)
<1>1. /\ now \in U64 /\ ttl \in U64 /\ Sound(cache) /\ IsCache(cache)
      /\ cache' = InsertWithTtl(cache, c, ttl, now)
  BY EdgeCacheAssumption DEF IInv, DoInsert, Sound
<1>2. Held(cache) \in SUBSET Cids /\ Size[c] \in Nat /\ Size[c] <= MaxBytes
  BY <1>1, CacheParts, CacheAssumption DEF Cacheable, U64
<1>3. PICK D : Leaves(cache, c, cache', D)
  BY <1>1, InsertLeaves
<1>4. /\ Sound(D) /\ Held(D) = Held(cache) \ {c}
      /\ \A d \in Held(D) : D.entries[d] = cache.entries[d]
      /\ Held(cache') = (Held(D) \ Victims(D, Size[c])) \cup {c}
      /\ cache'.entries[c].tick = cache.tick + 1
  BY <1>3 DEF Leaves
<1> DEFINE others == Held(cache) \ {c}
           S == Held(D) \ Victims(D, Size[c])
           n == Size[c]
<1>5. n \in Nat /\ n <= MaxBytes /\ S = Held(D) \ Victims(D, n)
  BY <1>2
<1> HIDE DEF S, n
<1>6. /\ \A x \in S, y \in Held(D) \ S : D.entries[y].tick < D.entries[x].tick
      /\ TotalBytes(S) + Size[c] <= MaxBytes
      /\ \A T \in SUBSET Held(D) :
            /\ \A x \in T, y \in Held(D) \ T : D.entries[y].tick < D.entries[x].tick
            /\ TotalBytes(T) + Size[c] <= MaxBytes
            => T \subseteq S
  <2>1. /\ \A x \in S, y \in Held(D) \ S : D.entries[y].tick < D.entries[x].tick
        /\ TotalBytes(S) + n <= MaxBytes
        /\ \A T \in SUBSET Held(D) :
              /\ \A x \in T, y \in Held(D) \ T : D.entries[y].tick < D.entries[x].tick
              /\ TotalBytes(T) + n <= MaxBytes
              => T \subseteq S
    BY <1>4, <1>5, SurvivorsAreLatest
  <2>2. QED
    BY <2>1 DEF n
<1>7. S \in SUBSET others
  BY <1>4 DEF S
<1>8. \A T \in SUBSET others :
         Lru!Latest(T, others)
            <=> \A x \in T, y \in Held(D) \ T : D.entries[y].tick < D.entries[x].tick
  BY <1>4 DEF Lru!Latest, Before
<1>9. \A T \in SUBSET others : Lru!Bytes(T) = TotalBytes(T)
  BY <1>2, BytesAgree
<1>10. S \in Lru!Rooms(c)
  BY <1>6, <1>7, <1>8, <1>9 DEF Lru!Rooms
<1>11. \A T \in Lru!Rooms(c) : T \subseteq S
  BY <1>4, <1>6, <1>8, <1>9 DEF Lru!Rooms
<1>12. Held(cache') = S \cup {c}
  BY <1>4 DEF S
<1>13. Before' = Lru!PutLast(S, c)
  <2>1. \A d \in Held(cache') \ {c} :
           d \in Held(cache) /\ cache'.entries[d] = cache.entries[d]
    BY <1>1, InsertCounts
  <2>2. \A d \in S : cache'.entries[d].tick = cache.entries[d].tick
    BY <1>7, <1>12, <2>1
  <2>3. \A d \in Held(cache) : cache.entries[d].tick <= cache.tick
    BY <1>1 DEF Sound, DistinctTicks
  <2>4. QED
    BY <1>1, <1>4, <1>7, <1>12, <2>2, <2>3, LastInOrder
<1>14. ledger'.last = {c}
  BY DEF IInv, DoInsert, Ledger
<1>15. QED
  BY <1>2, <1>10, <1>11, <1>12, <1>13, <1>14 DEF Lru!Store

\* Every step of the cache is a step of the list or leaves it alone.
LEMMA StepRefines ==
    ASSUME IInv, [Next]_vars
    PROVE  [Lru!Next]_<<Held(cache), Before, ledger.last>>
<1> USE DEF IInv
<1>1. ASSUME NEW c \in Cids, NEW now \in Times, DoGet(c, now)
      PROVE  Lru!Next
  <2>1. CASE ContainsFresh(cache, c, now)
    BY <1>1, <2>1, UseStep DEF Lru!Next
  <2>2. CASE ~ContainsFresh(cache, c, now)
    <3>1. now \in U64 /\ cache' = Get(cache, c, now) /\ IsCache(cache)
      BY <1>1, EdgeCacheAssumption DEF DoGet, Sound
    <3>2. /\ Held(cache') \in SUBSET Held(cache)
          /\ \A d \in Held(cache') : cache'.entries[d].tick = cache.entries[d].tick
      BY <2>2, <3>1, GetTicks
    <3>3. ledger'.last = ledger.last
      BY <1>1, <2>2 DEF DoGet, Ledger
    <3>4. QED
      BY <3>1, <3>2, <3>3, DiscardStep
  <2>3. QED
    BY <2>1, <2>2
<1>2. ASSUME NEW c \in Cids, NEW now \in Times, NEW ttl \in Ttls,
             DoInsert(c, ttl, now)
      PROVE  Lru!Next \/ UNCHANGED vars
  <2>1. CASE Cacheable(c)
    BY <1>2, <2>1, StoreStep DEF Lru!Next
  <2>2. CASE ~Cacheable(c)
    BY <1>2, <2>2 DEF DoInsert, InsertWithTtl, vars
  <2>3. QED
    BY <2>1, <2>2
<1>3. ASSUME NEW c \in Cids, NEW now \in Times,
             DoNoteAbsent(c, now) \/ DoIsNegative(c, now)
      PROVE  Lru!Next
  <2>1. /\ now \in U64 /\ UNCHANGED ledger /\ IsCache(cache)
        /\ cache' = IsNegative(cache, c, now) \/ cache' \in NoteAbsent(cache, c, now)
    BY <1>3, EdgeCacheAssumption DEF DoNoteAbsent, DoIsNegative, Sound
  <2>2. cache'.entries = cache.entries
    BY <2>1, TombstoneCounts
  <2>3. QED
    BY <2>1, <2>2, DiscardStep DEF Held
<1>4. ASSUME NEW c \in Cids, DoPurge(c)
      PROVE  Lru!Next
  <2>1. /\ cache' = Purge(cache, c) /\ IsCache(cache) /\ ledger'.last = ledger.last
    BY <1>4 DEF DoPurge, Sound, Ledger
  <2>2. /\ Held(cache') = Held(cache) \ {c}
        /\ \A d \in Held(cache') : cache'.entries[d] = cache.entries[d]
    BY <2>1, PurgeCounts
  <2>3. QED
    BY <2>1, <2>2, DiscardStep
<1>5. ASSUME NEW now \in Times, DoSweep(now)
      PROVE  Lru!Next
  <2>1. /\ now \in U64 /\ UNCHANGED ledger /\ IsCache(cache)
        /\ cache' = SweepExpired(cache, now)
    BY <1>5, EdgeCacheAssumption DEF DoSweep, Sound
  <2>2. /\ Held(cache') \in SUBSET Held(cache)
        /\ \A d \in Held(cache') : cache'.entries[d] = cache.entries[d]
    <3>1. /\ Held(cache')
               = Held(cache) \ {c \in Held(cache) : now > cache.entries[c].expires}
          /\ \A d \in Held(cache') : cache'.entries[d] = cache.entries[d]
      BY <2>1, SweepCounts
    <3>2. QED
      BY <3>1
  <2>3. QED
    BY <2>1, <2>2, DiscardStep
<1>6. UNCHANGED vars => UNCHANGED <<Held(cache), Before, ledger.last>>
  BY DEF vars, Before
<1>7. QED
  BY <1>1, <1>2, <1>3, <1>4, <1>5, <1>6 DEF Next

\* The cache is a byte-budgeted LRU list: whatever the order of the calls, a
\* fresh get only moves its CID to the most recent end, an insert drops the
\* shortest least recently used prefix that makes room, and nothing else ever
\* reorders the entries.
THEOREM CacheIsLru == Spec => ImplementsLru
<1>1. Init => Lru!Init
  BY DEF Init, Lru!Init, NewCache, EmptyFcn, Held, Before
<1>2. IInv /\ [Next]_vars => [Lru!Next]_<<Held(cache), Before, ledger.last>>
  BY StepRefines
<1>3. QED
  BY <1>1, <1>2, InvariantHolds, PTL DEF Spec, ImplementsLru, Lru!Spec
=============================================================================
