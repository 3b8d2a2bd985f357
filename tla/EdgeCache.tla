------------------------------ MODULE EdgeCache ------------------------------
(***************************************************************************)
(* The edge cache of src/src/cache.rs as a state machine: one action per   *)
(* method that changes it, called in any order and with any `now`.  The    *)
(* callers really do pass times out of order: the HTTP handler reads the   *)
(* clock once, when a request arrives, and uses that value after waiting   *)
(* for locks and for the origin (server.rs:415), so calls with an older    *)
(* `now` follow calls with a newer one.                                    *)
(***************************************************************************)
EXTENDS CacheOps

CONSTANTS
    Times,     \* the values of `now` that callers pass
    Ttls,      \* the TTLs of inserts (`insert` passes DefaultTtl)
    MaxTick,   \* bound on the recency counter: gets and inserts performed
    MaxNegHits \* bound on the negative-hit counter

ASSUME EdgeCacheAssumption ==
    /\ Times \subseteq U64
    /\ Ttls \subseteq U64
    /\ MaxTick \in Nat
    /\ MaxNegHits \in Nat

VARIABLES
    cache,     \* the cache record (CacheOps)
    ledger     \* history: what the callers did, to audit the counters with

vars == <<cache, ledger>>

Ledger == [reads : Nat, inserted : Nat, replaced : Nat, purged : Nat,
           last : SUBSET Cids]   \* the CID read or stored last, once there is one

\* 1 when c is held, else 0: how many entries drop_entry(c) removes
Occupied(c) == IF c \in Held(cache) THEN 1 ELSE 0

-----------------------------------------------------------------------------
Init ==
    /\ cache = NewCache
    /\ ledger = [reads |-> 0, inserted |-> 0, replaced |-> 0, purged |-> 0,
                 last |-> {}]

DoGet(c, now) ==
    /\ cache.tick < MaxTick
    /\ cache' = Get(cache, c, now)
    /\ ledger' = [ledger EXCEPT !.reads = @ + 1,
                                !.last = IF ContainsFresh(cache, c, now) THEN {c} ELSE @]

DoInsert(c, ttl, now) ==
    /\ cache.tick < MaxTick
    /\ cache' = InsertWithTtl(cache, c, ttl, now)
    /\ ledger' = IF Cacheable(c)
                 THEN [ledger EXCEPT !.inserted = @ + 1,
                                     !.replaced = @ + Occupied(c),
                                     !.last = {c}]
                 ELSE ledger

DoNoteAbsent(c, now) ==
    /\ cache' \in NoteAbsent(cache, c, now)
    /\ UNCHANGED ledger

DoIsNegative(c, now) ==
    /\ cache.negativeHits < MaxNegHits
    /\ cache' = IsNegative(cache, c, now)
    /\ UNCHANGED ledger

DoPurge(c) ==
    /\ cache' = Purge(cache, c)
    /\ ledger' = [ledger EXCEPT !.purged = @ + Occupied(c)]

DoSweep(now) ==
    /\ cache' = SweepExpired(cache, now)
    /\ UNCHANGED ledger

Next ==
    \/ \E c \in Cids, now \in Times :
          \/ DoGet(c, now)
          \/ \E ttl \in Ttls : DoInsert(c, ttl, now)
          \/ DoNoteAbsent(c, now)
          \/ DoIsNegative(c, now)
    \/ \E c \in Cids : DoPurge(c)
    \/ \E now \in Times : DoSweep(now)

Spec == Init /\ [][Next]_vars

-----------------------------------------------------------------------------
(* Properties.                                                             *)

\* The cache record and the ledger keep their shape.
TypeOK == IsCache(cache) /\ ledger \in Ledger

\* cur_bytes, which insert and drop_entry maintain by adding and (saturating)
\* subtracting, is at all times the exact number of bytes held: no sequence
\* of replaces, evictions, expiries, sweeps and purges makes it drift.
BytesExact == cache.curBytes = TotalBytes(Held(cache))

\* The bytes really held never exceed max_bytes: the eviction loop always
\* makes enough room before an insert (its `break` on an empty cache
\* included).
WithinBudget == TotalBytes(Held(cache)) <= MaxBytes

\* Recency is a strict order on the entries: no two share a tick and none is
\* ahead of the counter, so evict_one's min_by_key has one answer whatever
\* order the HashMap iterates in.
RecencyStrict ==
    \A c, d \in Held(cache) :
        /\ cache.entries[c].tick <= cache.tick
        /\ cache.entries[c].tick = cache.entries[d].tick => c = d

\* The negative cache is bounded by max_tombstones under any flood of
\* distinct missing CIDs, even when nobody sweeps it.
TombstonesBounded == Cardinality(Tombstoned(cache)) <= MaxTombs

\* Both maps of the cache stay within their limits, whatever the sequence of
\* inserts, replaces, misses and lapses.
WithinBounds == WithinBudget /\ TombstonesBounded

\* Every get is either a hit or a miss, and every entry ever inserted is
\* still held or left in exactly one counted way: expired, evicted,
\* replaced by a new insert, or purged.
CountersBalance ==
    /\ cache.hits + cache.misses = ledger.reads
    /\ ledger.inserted = Cardinality(Held(cache)) + cache.expirations
                            + cache.evictions + ledger.replaced + ledger.purged

\* Saturating expiry times never lie before the insertion they belong to,
\* also at the end of the u64 range.
ExpiryNotBeforeInsertion ==
    \A c \in Held(cache) : cache.entries[c].inserted <= cache.entries[c].expires

\* The closed form of the eviction used by every model of the cache is what
\* the loop in insert_with_ttl computes, entry by entry, for every length
\* that insert_with_ttl lets through; and the loop is over by then.
EvictionIsTheLoop ==
    \A len \in 0 .. MaxBytes :
        /\ EvictLoop(cache, len) = EvictToFit(cache, len)
        /\ ~Evicts(EvictLoop(cache, len), len)

-----------------------------------------------------------------------------
(* The cache as an LRU list.                                               *)

\* the entries in the order of their ticks
Before == {p \in Held(cache) \X Held(cache) :
              cache.entries[p[1]].tick < cache.entries[p[2]].tick}

Lru == INSTANCE LruSpec
       WITH held <- Held(cache), before <- Before, last <- ledger.last

\* Map, ticks and byte counter together implement the LRU list: a fresh get
\* only moves its CID to the most recent end, an insert drops the shortest
\* least-recently-used prefix that makes room and nothing else, and no other
\* operation reorders the survivors.
ImplementsLru == Lru!Spec
=============================================================================
