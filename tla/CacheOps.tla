------------------------------ MODULE CacheOps ------------------------------
(***************************************************************************)
(* The operations of `EdgeCache` (src/src/cache.rs) as operators on a      *)
(* cache record.  The Rust cache is pure: every method takes the caller's  *)
(* `now`, so each operator here maps a cache record (and a `now`) to the   *)
(* record the method leaves behind, and the methods that answer something  *)
(* without changing the cache are predicates.                              *)
(*                                                                         *)
(* A cache record C has                                                    *)
(*   C.entries       CID -> [inserted, expires, tick]  (its domain: the    *)
(*                   CIDs held)                                            *)
(*   C.tombs         CID -> expiry second of its negative-cache tombstone  *)
(*   C.curBytes      the byte total the code maintains incrementally       *)
(*   C.tick          the recency counter                                   *)
(*   C.hits, C.misses, C.expirations, C.evictions, C.negativeHits          *)
(* Content is content-addressed, so an entry's length is a function of its *)
(* CID: Size[c].  The per-entry hit and miss counters, which feed nothing  *)
(* but the metrics text, are left out.                                     *)
(*                                                                         *)
(* An operator marked "Wrong variant" is the definition that follows it    *)
(* with a plausible slip; the properties are shown to notice it.           *)
(***************************************************************************)
EXTENDS Integers, FiniteSets

CONSTANTS
    Cids,        \* the content identifiers
    Size,        \* Size[c]: length in bytes of the object c names
    MaxBytes,    \* max_bytes: the byte budget
    DefaultTtl,  \* default_ttl_secs (0 = entries never expire)
    NegTtl,      \* negative_ttl_secs (0 = no negative caching)
    MaxTombs,    \* max_tombstones
    U64Max       \* u64::MAX, the value additions saturate at and "never"

U64 == 0 .. U64Max

ASSUME CacheAssumption ==
    /\ IsFiniteSet(Cids)
    /\ U64Max \in Nat
    /\ Size \in [Cids -> U64]
    /\ MaxBytes \in U64
    /\ DefaultTtl \in U64
    /\ NegTtl \in U64
    /\ MaxTombs \in Nat \ {0}

-----------------------------------------------------------------------------
(* u64 arithmetic.                                                         *)

SatAdd(a, b) == IF a + b > U64Max THEN U64Max ELSE a + b
SatSub(a, b) == IF a >= b THEN a - b ELSE 0

(***************************************************************************)
(* The bytes of a set of objects, as the set of their <<cid, position>>    *)
(* pairs, and how many there are.  Counting a set of pairs rather than     *)
(* adding up a recursion keeps the byte total within reach of the prover.  *)
(***************************************************************************)
Content(S) == {p \in S \X (1 .. U64Max) : p[2] <= Size[p[1]]}
TotalBytes(S) == Cardinality(Content(S))

-----------------------------------------------------------------------------
(* The shape of a cache.                                                   *)

Entry == [inserted : U64, expires : U64, tick : Nat]

Held(C) == DOMAIN C.entries
Tombstoned(C) == DOMAIN C.tombs

IsCache(C) ==
    /\ C = [entries |-> C.entries, tombs |-> C.tombs, curBytes |-> C.curBytes,
            tick |-> C.tick, hits |-> C.hits, misses |-> C.misses,
            expirations |-> C.expirations, evictions |-> C.evictions,
            negativeHits |-> C.negativeHits]
    /\ Held(C) \subseteq Cids /\ C.entries \in [Held(C) -> Entry]
    /\ Tombstoned(C) \subseteq Cids /\ C.tombs \in [Tombstoned(C) -> U64]
    /\ {C.curBytes, C.tick, C.hits, C.misses, C.expirations, C.evictions,
        C.negativeHits} \subseteq Nat

EmptyFcn == [c \in {} |-> 0]

\* EdgeCache::new
NewCache ==
    [entries |-> EmptyFcn, tombs |-> EmptyFcn, curBytes |-> 0, tick |-> 0,
     hits |-> 0, misses |-> 0, expirations |-> 0, evictions |-> 0,
     negativeHits |-> 0]

Without(f, S) == [x \in DOMAIN f \ S |-> f[x]]
With(f, x, v) == [y \in DOMAIN f \cup {x} |-> IF y = x THEN v ELSE f[y]]

-----------------------------------------------------------------------------
(* Reads that leave the cache alone.                                       *)

\* contains_fresh
ContainsFresh(C, c, now) == c \in Held(C) /\ now <= C.entries[c].expires

\* the test inside is_negative: a tombstone that has not expired
FreshTombstone(C, c, now) == c \in Tombstoned(C) /\ now <= C.tombs[c]

-----------------------------------------------------------------------------
(* The internals: drop_entry for each CID of S, and eviction.              *)

\* Wrong variant: the byte total is not brought down.
DropEntriesKeepBytes(C, S) == [C EXCEPT !.entries = Without(C.entries, S)]

DropEntries(C, S) ==
    [C EXCEPT !.entries = Without(C.entries, S),
              !.curBytes = SatSub(C.curBytes, TotalBytes(S \cap Held(C)))]

Older(C, v) == {w \in Held(C) : C.entries[w].tick < C.entries[v].tick}

\* evict_one, of a cache that holds at least one entry
EvictOne(C) ==
    LET victim == CHOOSE v \in Held(C) :
                    \A w \in Held(C) : C.entries[v].tick <= C.entries[w].tick
    IN  [DropEntries(C, {victim}) EXCEPT !.evictions = @ + 1]

\* Wrong variant: stops evicting one byte too early.
VictimsOneShort(C, len) ==
    {v \in Held(C) : SatSub(C.curBytes, TotalBytes(Older(C, v))) + len > MaxBytes + 1}

\* Wrong variant: also evicts when the newcomer just fits.
VictimsOneMore(C, len) ==
    {v \in Held(C) : SatSub(C.curBytes, TotalBytes(Older(C, v))) + len >= MaxBytes}

\* the loop's condition: over the budget, and there is an entry to evict
Evicts(C, len) == C.curBytes + len > MaxBytes /\ Held(C) # {}

\* the loop `while cur_bytes + len > max_bytes { if !evict_one() { break; } }`,
\* which takes at most one turn per entry
EvictLoop(C, len) ==
    LET turns == 0 .. Cardinality(Held(C))
        after[i \in turns] ==
            IF i = 0 THEN C
            ELSE IF Evicts(after[i - 1], len) THEN EvictOne(after[i - 1])
            ELSE after[i - 1]
    IN  after[Cardinality(Held(C))]

(***************************************************************************)
(* What the loop evicts, in closed form.  evict_one takes the entry with   *)
(* the smallest tick, so v is evicted exactly when the budget is still     *)
(* exceeded once every older entry is gone.  The models use EvictToFit;    *)
(* EvictionIsTheLoop of EdgeCache says that it is the loop.                *)
(***************************************************************************)
Victims(C, len) ==
    {v \in Held(C) : SatSub(C.curBytes, TotalBytes(Older(C, v))) + len > MaxBytes}

EvictToFit(C, len) ==
    LET V == Victims(C, len)
    IN  [DropEntries(C, V) EXCEPT !.evictions = @ + Cardinality(V)]

-----------------------------------------------------------------------------
(* The operations that change the cache.                                   *)

\* insert_with_ttl's answer: whether the object was cached
Cacheable(c) == Size[c] <= MaxBytes

\* Wrong variants: the expiry time is added without saturating, so that it
\* leaves the u64 range, or wraps around.
ExpiresAtUnbounded(now, ttl) == IF ttl = 0 THEN U64Max ELSE now + ttl
ExpiresAtWrapping(now, ttl) == IF ttl = 0 THEN U64Max ELSE (now + ttl) % (U64Max + 1)

\* 0 stands for "never expires"
ExpiresAt(now, ttl) == IF ttl = 0 THEN U64Max ELSE SatAdd(now, ttl)

\* insert_with_ttl: an object that cannot fit changes nothing; otherwise the
\* prior entry goes first, room is made, and the CID's tombstone is cleared
InsertWithTtl(C, c, ttl, now) ==
    LET R == EvictToFit(DropEntries(C, {c}), Size[c])
    IN  IF ~Cacheable(c) THEN C
        ELSE [R EXCEPT
                !.tombs = Without(R.tombs, {c}),
                !.tick = R.tick + 1,
                !.curBytes = R.curBytes + Size[c],
                !.entries = With(R.entries, c,
                                 [inserted |-> now,
                                  expires  |-> ExpiresAt(now, ttl),
                                  tick     |-> R.tick + 1])]

\* insert
Insert(C, c, now) == InsertWithTtl(C, c, DefaultTtl, now)

\* Wrong variant: a full negative cache is not made room in.
TombVictimsNone(C, c) == {{}}

\* the tombstones note_absent may evict for c: one that expires soonest, when
\* the map is full and c is not in it (HashMap order decides between ties)
TombVictims(C, c) ==
    IF Cardinality(Tombstoned(C)) >= MaxTombs /\ c \notin Tombstoned(C)
    THEN {{t} : t \in {u \in Tombstoned(C) :
                        \A w \in Tombstoned(C) : C.tombs[u] <= C.tombs[w]}}
    ELSE {{}}

\* note_absent: the caches it may leave behind
NoteAbsent(C, c, now) ==
    IF NegTtl = 0 THEN {C}
    ELSE {[C EXCEPT !.tombs = With(Without(C.tombs, V), c, SatAdd(now, NegTtl))] :
            V \in TombVictims(C, c)}

\* is_negative: its effect (its answer is FreshTombstone)
IsNegative(C, c, now) ==
    IF FreshTombstone(C, c, now)
    THEN [C EXCEPT !.negativeHits = @ + 1]
    ELSE [C EXCEPT !.tombs = Without(C.tombs, {c})]

\* Wrong variant: a hit keeps the tick of the read before it.
GetLateTick(C, c, now) ==
    LET T == [C EXCEPT !.tick = @ + 1]
    IN  IF ContainsFresh(C, c, now)
        THEN [T EXCEPT !.entries[c].tick = C.tick, !.hits = @ + 1]
        ELSE IF c \in Held(C)
        THEN [DropEntries(T, {c}) EXCEPT !.expirations = @ + 1, !.misses = @ + 1]
        ELSE [T EXCEPT !.misses = @ + 1]

\* Wrong variant: a hit does not refresh the entry's recency.
GetNoRecency(C, c, now) ==
    LET T == [C EXCEPT !.tick = @ + 1]
    IN  IF ContainsFresh(C, c, now)
        THEN [T EXCEPT !.hits = @ + 1]
        ELSE IF c \in Held(C)
        THEN [DropEntries(T, {c}) EXCEPT !.expirations = @ + 1, !.misses = @ + 1]
        ELSE [T EXCEPT !.misses = @ + 1]

\* get: its effect (it returns the bytes exactly when ContainsFresh)
Get(C, c, now) ==
    LET T == [C EXCEPT !.tick = @ + 1]
    IN  IF ContainsFresh(C, c, now)
        THEN [T EXCEPT !.entries[c].tick = T.tick, !.hits = @ + 1]
        ELSE IF c \in Held(C)
        THEN [DropEntries(T, {c}) EXCEPT !.expirations = @ + 1, !.misses = @ + 1]
        ELSE [T EXCEPT !.misses = @ + 1]

\* purge
Purge(C, c) == DropEntries(C, {c})

\* Wrong variant: swept entries are not counted as expired.
SweepUncounted(C, now) ==
    DropEntries(C, {c \in Held(C) : now > C.entries[c].expires})

\* sweep_expired
SweepExpired(C, now) ==
    LET dead == {c \in Held(C) : now > C.entries[c].expires}
    IN  [DropEntries(C, dead) EXCEPT
            !.expirations = @ + Cardinality(dead),
            !.tombs = Without(C.tombs, {c \in Tombstoned(C) : now > C.tombs[c]})]
=============================================================================
