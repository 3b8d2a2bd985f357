--------------------------- MODULE CacheOpsProofs ---------------------------
(***************************************************************************)
(* What the operations of CacheOps preserve, for every set of CIDs, every  *)
(* assignment of sizes and every budget.  A cache is Sound when it has the *)
(* shape of a cache, its byte counter is exact and within the budget, its  *)
(* ticks are distinct and its negative cache within its bound.  The parts  *)
(* depend on each other: the eviction loop makes enough room only because  *)
(* the counter is exact, and evicts an LRU prefix only because no two      *)
(* ticks are equal.                                                        *)
(***************************************************************************)
EXTENDS CacheOps, FifoSet, TLAPS, FiniteSetTheorems, FunctionTheorems, SequenceTheorems,
        WellFoundedInduction

DistinctTicks(C) ==
    \A c, d \in Held(C) :
        /\ C.entries[c].tick <= C.tick
        /\ C.entries[c].tick = C.entries[d].tick => c = d

Sound(C) ==
    /\ IsCache(C)
    /\ C.curBytes = TotalBytes(Held(C))
    /\ C.curBytes <= MaxBytes
    /\ DistinctTicks(C)
    /\ Cardinality(Tombstoned(C)) <= MaxTombs

-----------------------------------------------------------------------------
(* The byte total.                                                         *)

\* The bytes of any set of CIDs are finitely many.
LEMMA BytesFinite ==
    ASSUME NEW S \in SUBSET Cids
    PROVE  IsFiniteSet(Content(S)) /\ TotalBytes(S) \in Nat
<1>1. IsFiniteSet(S)
  BY CacheAssumption, FS_Subset
<1>2. IsFiniteSet(1 .. U64Max)
  BY CacheAssumption, FS_Interval
<1>3. IsFiniteSet(S \X (1 .. U64Max))
  BY <1>1, <1>2, FS_Product
<1>4. Content(S) \in SUBSET (S \X (1 .. U64Max))
  BY DEF Content
<1>5. IsFiniteSet(Content(S))
  BY <1>3, <1>4, FS_Subset
<1>6. QED
  BY <1>5, FS_CardinalityType DEF TotalBytes

\* Taking a subset T out of S takes exactly T's bytes out of the total.
LEMMA BytesDifference ==
    ASSUME NEW S \in SUBSET Cids, NEW T \in SUBSET S
    PROVE  /\ TotalBytes(S \ T) = TotalBytes(S) - TotalBytes(T)
           /\ TotalBytes(T) <= TotalBytes(S)
<1>1. Content(S \ T) = Content(S) \ Content(T)
  BY DEF Content
<1>2. Content(S) \cap Content(T) = Content(T)
  BY DEF Content
<1>3. Content(T) \in SUBSET Content(S)
  BY DEF Content
<1>4. IsFiniteSet(Content(S))
  BY BytesFinite
<1>5. Cardinality(Content(S) \ Content(T))
          = Cardinality(Content(S)) - Cardinality(Content(S) \cap Content(T))
  BY <1>4, FS_Difference
<1>6. Cardinality(Content(T)) <= Cardinality(Content(S))
  BY <1>3, <1>4, FS_Subset
<1>7. QED
  BY <1>1, <1>2, <1>5, <1>6 DEF TotalBytes

\* One object has as many bytes as its size says.
LEMMA BytesOfOne ==
    ASSUME NEW c \in Cids
    PROVE  TotalBytes({c}) = Size[c]
<1>1. Size[c] \in Nat /\ Size[c] <= U64Max /\ U64Max \in Nat
  BY CacheAssumption DEF U64
<1>2. Content({c}) = {c} \X (1 .. Size[c])
  BY <1>1 DEF Content
<1>3. IsFiniteSet({c}) /\ Cardinality({c}) = 1
  BY FS_Singleton
<1>4. IsFiniteSet(1 .. Size[c]) /\ Cardinality(1 .. Size[c]) = Size[c]
  <2>1. 1 \in Int /\ Size[c] \in Int
    BY <1>1
  <2>2. /\ IsFiniteSet(1 .. Size[c])
        /\ Cardinality(1 .. Size[c]) = IF 1 > Size[c] THEN 0 ELSE Size[c] - 1 + 1
    BY <2>1, FS_Interval
  <2>3. QED
    BY <1>1, <2>2
<1>5. Cardinality({c} \X (1 .. Size[c])) = Cardinality({c}) * Cardinality(1 .. Size[c])
  BY <1>3, <1>4, FS_Product
<1>6. Cardinality({c} \X (1 .. Size[c])) = Size[c]
  BY <1>1, <1>3, <1>4, <1>5
<1>7. QED
  BY <1>2, <1>6 DEF TotalBytes

\* Adding a CID that was not there adds its size.
LEMMA BytesAdd ==
    ASSUME NEW S \in SUBSET Cids, NEW c \in Cids \ S
    PROVE  TotalBytes(S \cup {c}) = TotalBytes(S) + Size[c]
<1>1. (S \cup {c}) \ {c} = S
  OBVIOUS
<1>2. TotalBytes(S) = TotalBytes(S \cup {c}) - TotalBytes({c})
  BY <1>1, BytesDifference
<1>3. TotalBytes(S) \in Nat /\ TotalBytes(S \cup {c}) \in Nat
  BY BytesFinite
<1>4. TotalBytes({c}) = Size[c] /\ Size[c] \in Nat
  BY BytesOfOne, CacheAssumption DEF U64
<1>5. QED
  BY <1>2, <1>3, <1>4

-----------------------------------------------------------------------------
(* Cache records field by field.                                           *)

\* the cache with entries e, tombstones t, byte counter b, tick k, and the
\* counters h, m, x, v, n of hits, misses, expirations, evictions, negatives
MkCache(e, t, b, k, h, m, x, v, n) ==
    [entries |-> e, tombs |-> t, curBytes |-> b, tick |-> k, hits |-> h,
     misses |-> m, expirations |-> x, evictions |-> v, negativeHits |-> n]

\* A record made of parts of the right types is a cache.
LEMMA MkIsCache ==
    ASSUME NEW e, DOMAIN e \subseteq Cids, e \in [DOMAIN e -> Entry],
           NEW t, DOMAIN t \subseteq Cids, t \in [DOMAIN t -> U64],
           NEW b \in Nat, NEW k \in Nat, NEW h \in Nat, NEW m \in Nat,
           NEW x \in Nat, NEW v \in Nat, NEW n \in Nat
    PROVE  IsCache(MkCache(e, t, b, k, h, m, x, v, n))
<1> DEFINE C == MkCache(e, t, b, k, h, m, x, v, n)
<1>1. /\ C.entries = e /\ C.tombs = t /\ C.curBytes = b /\ C.tick = k /\ C.hits = h
      /\ C.misses = m /\ C.expirations = x /\ C.evictions = v /\ C.negativeHits = n
  BY DEF MkCache
<1>2. C = [entries |-> C.entries, tombs |-> C.tombs, curBytes |-> C.curBytes,
           tick |-> C.tick, hits |-> C.hits, misses |-> C.misses,
           expirations |-> C.expirations, evictions |-> C.evictions,
           negativeHits |-> C.negativeHits]
  BY <1>1 DEF MkCache
<1> HIDE DEF C
<1>3. Held(C) \subseteq Cids /\ C.entries \in [Held(C) -> Entry]
  BY <1>1 DEF Held
<1>4. Tombstoned(C) \subseteq Cids /\ C.tombs \in [Tombstoned(C) -> U64]
  BY <1>1 DEF Tombstoned
<1>5. {C.curBytes, C.tick, C.hits, C.misses, C.expirations, C.evictions,
       C.negativeHits} \subseteq Nat
  BY <1>1
<1>6. IsCache(C)
  BY <1>2, <1>3, <1>4, <1>5 DEF IsCache
<1>7. QED
  BY <1>6 DEF C

\* Every cache is the record of its parts, and the parts have their types.
LEMMA CacheParts ==
    ASSUME NEW C, IsCache(C)
    PROVE  /\ C = MkCache(C.entries, C.tombs, C.curBytes, C.tick, C.hits, C.misses,
                          C.expirations, C.evictions, C.negativeHits)
           /\ Held(C) \in SUBSET Cids /\ C.entries \in [Held(C) -> Entry]
           /\ Tombstoned(C) \in SUBSET Cids /\ C.tombs \in [Tombstoned(C) -> U64]
           /\ C.curBytes \in Nat /\ C.tick \in Nat /\ C.hits \in Nat
           /\ C.misses \in Nat /\ C.expirations \in Nat /\ C.evictions \in Nat
           /\ C.negativeHits \in Nat
           /\ IsFiniteSet(Held(C)) /\ IsFiniteSet(Tombstoned(C))
<1>1. Held(C) \in SUBSET Cids /\ Tombstoned(C) \in SUBSET Cids
  BY DEF IsCache
<1>2. IsFiniteSet(Held(C)) /\ IsFiniteSet(Tombstoned(C))
  BY <1>1, CacheAssumption, FS_Subset
<1>3. QED
  BY <1>2 DEF IsCache, MkCache

-----------------------------------------------------------------------------
(* Dropping entries and evicting.                                          *)

\* drop_entry leaves every field but entries and curBytes alone.
LEMMA DropFields ==
    ASSUME NEW C, IsCache(C), NEW S
    PROVE  /\ DropEntries(C, S)
                = MkCache(Without(C.entries, S), C.tombs,
                          SatSub(C.curBytes, TotalBytes(S \cap Held(C))),
                          C.tick, C.hits, C.misses, C.expirations, C.evictions,
                          C.negativeHits)
           /\ Held(DropEntries(C, S)) = Held(C) \ S
           /\ DropEntries(C, S).entries \in [Held(C) \ S -> Entry]
           /\ \A c \in Held(C) \ S : DropEntries(C, S).entries[c] = C.entries[c]
<1> DEFINE D == DropEntries(C, S)
<1>1. /\ C = MkCache(C.entries, C.tombs, C.curBytes, C.tick, C.hits, C.misses,
                     C.expirations, C.evictions, C.negativeHits)
      /\ C.entries \in [Held(C) -> Entry]
  BY CacheParts
<1>2. D = [C EXCEPT !.entries = Without(C.entries, S),
                    !.curBytes = SatSub(C.curBytes, TotalBytes(S \cap Held(C)))]
  BY DEF DropEntries
<1>3. D = MkCache(Without(C.entries, S), C.tombs,
                  SatSub(C.curBytes, TotalBytes(S \cap Held(C))),
                  C.tick, C.hits, C.misses, C.expirations, C.evictions,
                  C.negativeHits)
  BY <1>1, <1>2 DEF MkCache
<1>4. D.entries = Without(C.entries, S)
  BY <1>3 DEF MkCache
<1>5. /\ Held(D) = Held(C) \ S
      /\ D.entries \in [Held(C) \ S -> Entry]
      /\ \A c \in Held(C) \ S : D.entries[c] = C.entries[c]
  BY <1>1, <1>4 DEF Without, Held
<1>6. QED
  BY <1>3, <1>5

\* drop_entry keeps the byte counter exact: the saturating subtraction never
\* saturates.
LEMMA DropSound ==
    ASSUME NEW C, Sound(C), NEW S
    PROVE  /\ Sound(DropEntries(C, S))
           /\ DropEntries(C, S).curBytes
                = C.curBytes - TotalBytes(S \cap Held(C))
<1> DEFINE D == DropEntries(C, S)
           T == S \cap Held(C)
           b == SatSub(C.curBytes, TotalBytes(T))
<1>1. IsCache(C) /\ C.curBytes = TotalBytes(Held(C)) /\ C.curBytes <= MaxBytes
      /\ DistinctTicks(C) /\ Cardinality(Tombstoned(C)) <= MaxTombs
  BY DEF Sound
<1>2. /\ Held(C) \in SUBSET Cids /\ C.entries \in [Held(C) -> Entry]
      /\ Tombstoned(C) \in SUBSET Cids /\ C.tombs \in [Tombstoned(C) -> U64]
      /\ C.curBytes \in Nat /\ C.tick \in Nat /\ C.hits \in Nat
      /\ C.misses \in Nat /\ C.expirations \in Nat /\ C.evictions \in Nat
      /\ C.negativeHits \in Nat
  BY <1>1, CacheParts
<1>3. /\ D = MkCache(Without(C.entries, S), C.tombs, b, C.tick, C.hits, C.misses,
                     C.expirations, C.evictions, C.negativeHits)
      /\ Held(D) = Held(C) \ S
      /\ D.entries \in [Held(C) \ S -> Entry]
      /\ \A c \in Held(C) \ S : D.entries[c] = C.entries[c]
  BY <1>1, DropFields
<1>4. /\ D.entries = Without(C.entries, S) /\ D.tombs = C.tombs
      /\ D.curBytes = b /\ D.tick = C.tick
  BY <1>3 DEF MkCache
<1> HIDE DEF D
<1>5. /\ TotalBytes(Held(C) \ T) = TotalBytes(Held(C)) - TotalBytes(T)
      /\ TotalBytes(T) <= TotalBytes(Held(C))
  BY <1>2, BytesDifference
<1>6. TotalBytes(Held(C)) \in Nat /\ TotalBytes(T) \in Nat
  BY <1>2, BytesFinite
<1>7. Held(C) \ T = Held(D)
  BY <1>3
<1>8. /\ b = TotalBytes(Held(D)) /\ b \in Nat /\ b <= MaxBytes
      /\ b = C.curBytes - TotalBytes(T)
  BY <1>1, <1>5, <1>6, <1>7, CacheAssumption DEF SatSub, U64
<1> HIDE DEF b
<1>9. IsCache(D)
  <2>1. DOMAIN Without(C.entries, S) \subseteq Cids
        /\ Without(C.entries, S) \in [DOMAIN Without(C.entries, S) -> Entry]
    BY <1>2, <1>3, <1>4 DEF Held
  <2>2. DOMAIN C.tombs \subseteq Cids /\ C.tombs \in [DOMAIN C.tombs -> U64]
    BY <1>2 DEF Tombstoned
  <2>3. QED
    BY <1>2, <1>3, <1>8, <2>1, <2>2, MkIsCache
<1>10. DistinctTicks(D)
  BY <1>1, <1>3, <1>4 DEF DistinctTicks
<1>11. Tombstoned(D) = Tombstoned(C)
  BY <1>4 DEF Tombstoned
<1>12. Sound(D) /\ D.curBytes = C.curBytes - TotalBytes(T)
  BY <1>1, <1>4, <1>8, <1>9, <1>10, <1>11 DEF Sound
<1>13. QED
  BY <1>12 DEF D

\* A nonempty set of entries has a least recently used one (what evict_one's
\* min_by_key returns).
LEMMA LeastTick ==
    ASSUME NEW C, IsCache(C), NEW T \in SUBSET Held(C), T # {}
    PROVE  \E v \in T : \A w \in T : C.entries[v].tick <= C.entries[w].tick
<1> DEFINE N == {C.entries[v].tick : v \in T}
<1>1. \A v \in T : C.entries[v].tick \in Nat
  BY CacheParts DEF Entry
<1>2. N \subseteq Nat /\ N # {}
  BY <1>1
<1>3. PICK x \in N : \A y \in N : ~(<<y, x>> \in OpToRel(<, Nat))
  BY <1>2, NatLessThanWellFounded, WFMin
<1>4. \A y \in N : ~(y < x)
  BY <1>2, <1>3 DEF OpToRel
<1>5. PICK v \in T : x = C.entries[v].tick
  BY <1>3
<1>6. ASSUME NEW w \in T
      PROVE  C.entries[v].tick <= C.entries[w].tick
  <2>1. C.entries[w].tick \in N
    OBVIOUS
  <2>2. ~(C.entries[w].tick < C.entries[v].tick)
    BY <1>4, <1>5, <2>1
  <2>3. QED
    BY <1>1, <2>2
<1>7. QED
  BY <1>6

\* If the loop stops short of evicting everything, what it evicts is exactly
\* what is older than the least recently used survivor.
LEMMA VictimsArePrefix ==
    ASSUME NEW C, Sound(C), NEW len \in Nat, Victims(C, len) # Held(C)
    PROVE  \E v \in Held(C) \ Victims(C, len) : Victims(C, len) = Older(C, v)
<1>1. IsCache(C) /\ DistinctTicks(C) /\ C.curBytes = TotalBytes(Held(C))
  BY DEF Sound
<1>2. Held(C) \in SUBSET Cids /\ \A c \in Held(C) : C.entries[c].tick \in Nat
  BY <1>1, CacheParts DEF Entry
<1>3. Held(C) \ Victims(C, len) # {} /\ Held(C) \ Victims(C, len) \in SUBSET Held(C)
  BY DEF Victims
<1>4. PICK v \in Held(C) \ Victims(C, len) :
         \A w \in Held(C) \ Victims(C, len) : C.entries[v].tick <= C.entries[w].tick
  BY <1>1, <1>3, LeastTick
<1>5. Older(C, v) \subseteq Victims(C, len)
  BY <1>2, <1>4 DEF Older
<1>6. ASSUME NEW w \in Victims(C, len)
      PROVE  w \in Older(C, v)
  <2>1. w \in Held(C) /\ w # v
    BY <1>4 DEF Victims
  <2>2. CASE C.entries[w].tick < C.entries[v].tick
    BY <2>1, <2>2 DEF Older
  <2>3. CASE ~(C.entries[w].tick < C.entries[v].tick)
    <3>1. C.entries[v].tick < C.entries[w].tick
      BY <1>1, <1>2, <1>4, <2>1, <2>3 DEF DistinctTicks
    <3>2. Older(C, v) \subseteq Older(C, w) /\ Older(C, w) \in SUBSET Held(C)
      BY <1>2, <1>4, <2>1, <3>1 DEF Older
    <3>3. /\ TotalBytes(Older(C, v)) <= TotalBytes(Older(C, w))
          /\ TotalBytes(Older(C, v)) \in Nat /\ TotalBytes(Older(C, w)) \in Nat
      BY <1>2, <3>2, BytesDifference, BytesFinite
    <3>4. /\ SatSub(C.curBytes, TotalBytes(Older(C, w))) + len > MaxBytes
          /\ ~(SatSub(C.curBytes, TotalBytes(Older(C, v))) + len > MaxBytes)
      BY <1>4 DEF Victims
    <3>5. C.curBytes \in Nat /\ MaxBytes \in Nat
      BY <1>1, CacheParts, CacheAssumption DEF U64
    <3>6. QED
      BY <3>3, <3>4, <3>5 DEF SatSub
  <2>4. QED
    BY <2>2, <2>3
<1>7. QED
  BY <1>4, <1>5, <1>6

\* After the eviction loop the newcomer fits, and the cache is still sound.
LEMMA EvictSound ==
    ASSUME NEW C, Sound(C), NEW len \in Nat, len <= MaxBytes
    PROVE  /\ Sound(EvictToFit(C, len))
           /\ EvictToFit(C, len).curBytes + len <= MaxBytes
           /\ Held(EvictToFit(C, len)) \subseteq Held(C)
           /\ EvictToFit(C, len).tombs = C.tombs
           /\ EvictToFit(C, len).tick = C.tick
<1> DEFINE V == Victims(C, len)
           D == DropEntries(C, V)
           E == EvictToFit(C, len)
<1>1. IsCache(C) /\ C.curBytes = TotalBytes(Held(C)) /\ V \in SUBSET Held(C)
  BY DEF Sound, Victims
<1>2. Held(C) \in SUBSET Cids /\ IsFiniteSet(Held(C))
  BY <1>1, CacheParts
<1>3. Sound(D) /\ D.curBytes = C.curBytes - TotalBytes(V \cap Held(C))
  BY DropSound
<1>4. V \cap Held(C) = V
  BY <1>1
<1>5. Held(D) = Held(C) \ V /\ D.tombs = C.tombs /\ D.tick = C.tick
  <2>1. /\ D = MkCache(Without(C.entries, V), C.tombs,
                       SatSub(C.curBytes, TotalBytes(V \cap Held(C))),
                       C.tick, C.hits, C.misses, C.expirations, C.evictions,
                       C.negativeHits)
        /\ Held(D) = Held(C) \ V
    BY <1>1, DropFields
  <2>2. QED
    BY <2>1 DEF MkCache
<1>6. IsCache(D) /\ Cardinality(V) \in Nat
  BY <1>1, <1>2, <1>3, FS_Subset, FS_CardinalityType DEF Sound
<1>7. TotalBytes(Held(C)) \in Nat /\ TotalBytes(V) \in Nat /\ MaxBytes \in Nat
  BY <1>1, <1>2, BytesFinite, CacheAssumption DEF U64
<1>8. D.curBytes + len <= MaxBytes
  <2> HIDE DEF D, V
  <2> D.curBytes = C.curBytes - TotalBytes(V)
    BY <1>3, <1>4
  <2>1. CASE V = Held(C)
    BY <1>1, <1>7, <2>1
  <2>2. CASE V # Held(C)
    <3>1. PICK v \in Held(C) \ V : V = Older(C, v)
      BY <2>2, VictimsArePrefix DEF V
    <3>2. ~(SatSub(C.curBytes, TotalBytes(V)) + len > MaxBytes)
      BY <3>1 DEF Victims, V
    <3>3. TotalBytes(V) <= TotalBytes(Held(C))
      BY <1>1, <1>2, BytesDifference
    <3>4. QED
      BY <1>1, <1>7, <3>2, <3>3 DEF SatSub
  <2>3. QED
    BY <2>1, <2>2
<1> HIDE DEF D
<1>9. E = [D EXCEPT !.evictions = @ + Cardinality(V)]
  BY DEF EvictToFit, D
<1> HIDE DEF V, E
<1>10. E = MkCache(D.entries, D.tombs, D.curBytes, D.tick, D.hits, D.misses,
                   D.expirations, D.evictions + Cardinality(V), D.negativeHits)
  BY <1>6, <1>9, CacheParts DEF MkCache
<1>11. E.entries = D.entries /\ E.tombs = D.tombs /\ E.curBytes = D.curBytes
       /\ E.tick = D.tick
  BY <1>10 DEF MkCache
<1>12. IsCache(E)
  <2>1. /\ DOMAIN D.entries \subseteq Cids /\ D.entries \in [DOMAIN D.entries -> Entry]
        /\ DOMAIN D.tombs \subseteq Cids /\ D.tombs \in [DOMAIN D.tombs -> U64]
    BY <1>6, CacheParts DEF Held, Tombstoned
  <2>2. D.evictions + Cardinality(V) \in Nat
    BY <1>6, CacheParts
  <2>3. QED
    BY <1>6, <1>10, <2>1, <2>2, CacheParts, MkIsCache
<1>13. Sound(E)
  BY <1>3, <1>11, <1>12 DEF Sound, Held, Tombstoned, DistinctTicks
<1>14. QED
  BY <1>5, <1>8, <1>11, <1>13 DEF E, Held

-----------------------------------------------------------------------------
(* Each operation keeps a sound cache sound.                               *)

\* Expiry times stay within the u64 range.
LEMMA ExpiryRange ==
    ASSUME NEW now \in U64, NEW ttl \in U64
    PROVE  ExpiresAt(now, ttl) \in U64 /\ SatAdd(now, ttl) \in U64
BY CacheAssumption DEF ExpiresAt, SatAdd, U64

\* An entry's expiry, as insert_with_ttl computes it, is no earlier than now.
LEMMA ExpiryNotBefore ==
    ASSUME NEW now \in U64, NEW ttl \in U64
    PROVE  now <= ExpiresAt(now, ttl)
BY CacheAssumption DEF ExpiresAt, SatAdd, U64

\* The empty cache is sound.
LEMMA NewCacheSound == Sound(NewCache)
<1>1. NewCache = MkCache(EmptyFcn, EmptyFcn, 0, 0, 0, 0, 0, 0, 0)
  BY DEF NewCache, MkCache
<1>2. DOMAIN EmptyFcn = {}
  BY DEF EmptyFcn
<1>3. EmptyFcn \in [DOMAIN EmptyFcn -> Entry] /\ EmptyFcn \in [DOMAIN EmptyFcn -> U64]
  BY DEF EmptyFcn
<1>4. IsCache(NewCache)
  BY <1>1, <1>2, <1>3, MkIsCache
<1>5. Held(NewCache) = {} /\ Tombstoned(NewCache) = {} /\ NewCache.curBytes = 0
  BY <1>1, <1>2 DEF MkCache, Held, Tombstoned
<1>6. TotalBytes({}) = 0
  <2>1. Content({}) = {}
    BY DEF Content
  <2>2. QED
    BY <2>1, FS_EmptySet DEF TotalBytes
<1>7. DistinctTicks(NewCache)
  BY <1>5 DEF DistinctTicks
<1>8. 0 <= MaxBytes /\ Cardinality(Tombstoned(NewCache)) <= MaxTombs
  BY <1>5, FS_EmptySet, CacheAssumption DEF U64
<1>9. QED
  BY <1>4, <1>5, <1>6, <1>7, <1>8 DEF Sound

\* insert_with_ttl keeps the cache sound, and adds at most its CID.
LEMMA InsertSound ==
    ASSUME NEW C, Sound(C), NEW c \in Cids, NEW ttl \in U64, NEW now \in U64
    PROVE  /\ Sound(InsertWithTtl(C, c, ttl, now))
           /\ Held(InsertWithTtl(C, c, ttl, now)) \subseteq Held(C) \cup {c}
           /\ Tombstoned(InsertWithTtl(C, c, ttl, now)) \subseteq Tombstoned(C)
           /\ Cacheable(c) => /\ c \in Held(InsertWithTtl(C, c, ttl, now))
                              /\ c \notin Tombstoned(InsertWithTtl(C, c, ttl, now))
                              /\ InsertWithTtl(C, c, ttl, now).entries[c].expires
                                    = ExpiresAt(now, ttl)
<1>1. CASE ~Cacheable(c)
  BY <1>1 DEF InsertWithTtl
<1>2. CASE Cacheable(c)
  <2> DEFINE D == DropEntries(C, {c})
             R == EvictToFit(D, Size[c])
             new == [inserted |-> now, expires |-> ExpiresAt(now, ttl),
                     tick |-> R.tick + 1]
             e == With(R.entries, c, new)
             t == Without(R.tombs, {c})
             F == InsertWithTtl(C, c, ttl, now)
  <2>1. Sound(D) /\ Held(D) = Held(C) \ {c} /\ Tombstoned(D) = Tombstoned(C)
    <3>1. IsCache(C)
      BY DEF Sound
    <3>2. /\ D = MkCache(Without(C.entries, {c}), C.tombs,
                         SatSub(C.curBytes, TotalBytes({c} \cap Held(C))),
                         C.tick, C.hits, C.misses, C.expirations, C.evictions,
                         C.negativeHits)
          /\ Held(D) = Held(C) \ {c}
      BY <3>1, DropFields
    <3>3. D.tombs = C.tombs
      BY <3>2 DEF MkCache
    <3>4. QED
      BY <3>2, <3>3, DropSound DEF Tombstoned
  <2> HIDE DEF D
  <2>2. Size[c] \in Nat /\ Size[c] <= MaxBytes /\ MaxBytes \in Nat
    BY <1>2, CacheAssumption DEF Cacheable, U64
  <2>3. /\ Sound(R) /\ R.curBytes + Size[c] <= MaxBytes
        /\ Held(R) \subseteq Held(D) /\ R.tombs = D.tombs
    BY <2>1, <2>2, EvictSound
  <2> HIDE DEF R
  <2>4. IsCache(R) /\ R.curBytes = TotalBytes(Held(R)) /\ DistinctTicks(R)
    BY <2>3 DEF Sound
  <2>5. /\ Held(R) \in SUBSET Cids /\ R.entries \in [Held(R) -> Entry]
        /\ Tombstoned(R) \in SUBSET Cids /\ R.tombs \in [Tombstoned(R) -> U64]
        /\ R.curBytes \in Nat /\ R.tick \in Nat /\ R.hits \in Nat
        /\ R.misses \in Nat /\ R.expirations \in Nat /\ R.evictions \in Nat
        /\ R.negativeHits \in Nat /\ IsFiniteSet(Tombstoned(R))
    BY <2>4, CacheParts
  <2>6. F = [R EXCEPT !.tombs = t, !.tick = R.tick + 1,
                      !.curBytes = R.curBytes + Size[c], !.entries = e]
    BY <1>2 DEF InsertWithTtl, D, R
  <2> HIDE DEF F
  <2>7. F = MkCache(e, t, R.curBytes + Size[c], R.tick + 1, R.hits, R.misses,
                    R.expirations, R.evictions, R.negativeHits)
    <3> HIDE DEF e, t
    <3>1. R = MkCache(R.entries, R.tombs, R.curBytes, R.tick, R.hits, R.misses,
                      R.expirations, R.evictions, R.negativeHits)
      BY <2>4, CacheParts
    <3>2. QED
      BY <2>6, <3>1 DEF MkCache
  <2>8. /\ F.entries = e /\ F.tombs = t /\ F.curBytes = R.curBytes + Size[c]
        /\ F.tick = R.tick + 1
    BY <2>7 DEF MkCache
  <2>9. new \in Entry /\ new.tick = R.tick + 1 /\ new.expires = ExpiresAt(now, ttl)
    BY <2>5, ExpiryRange DEF Entry
  <2> HIDE DEF new
  <2>10. /\ DOMAIN e = Held(R) \cup {c} /\ e \in [DOMAIN e -> Entry]
         /\ e[c] = new /\ \A d \in Held(R) \ {c} : e[d] = R.entries[d]
    BY <2>5, <2>9 DEF With, Held
  <2>11. DOMAIN t = Tombstoned(R) \ {c} /\ t \in [DOMAIN t -> U64]
    BY <2>5 DEF Without, Tombstoned
  <2> HIDE DEF e, t
  <2>12. c \notin Held(R)
    BY <2>1, <2>3
  <2>13. R.curBytes + Size[c] \in Nat /\ R.tick + 1 \in Nat
    BY <2>2, <2>5
  <2>14. IsCache(F)
    BY <2>5, <2>7, <2>10, <2>11, <2>13, MkIsCache
  <2>15. Held(F) = Held(R) \cup {c} /\ Tombstoned(F) = Tombstoned(R) \ {c}
    BY <2>8, <2>10, <2>11 DEF Held, Tombstoned
  <2>16. F.curBytes = TotalBytes(Held(F)) /\ F.curBytes <= MaxBytes
    BY <2>3, <2>4, <2>5, <2>8, <2>12, <2>15, BytesAdd
  <2>17. DistinctTicks(F)
    <3>1. \A d \in Held(R) : F.entries[d] = R.entries[d] /\ R.entries[d].tick \in Nat
      BY <2>5, <2>8, <2>10, <2>12 DEF Entry
    <3>2. F.entries[c].tick = R.tick + 1 /\ F.tick = R.tick + 1
      BY <2>8, <2>9, <2>10
    <3>3. QED
      BY <2>4, <2>5, <2>15, <3>1, <3>2 DEF DistinctTicks
  <2>18. Cardinality(Tombstoned(F)) <= MaxTombs
    <3>1. Cardinality(Tombstoned(R)) <= MaxTombs
      BY <2>3 DEF Sound
    <3>2. Cardinality(Tombstoned(R) \ {c}) <= Cardinality(Tombstoned(R))
      BY <2>5, FS_Subset
    <3>3. /\ Cardinality(Tombstoned(R)) \in Nat /\ MaxTombs \in Nat
          /\ Cardinality(Tombstoned(R) \ {c}) \in Nat
      BY <2>5, FS_CardinalityType, FS_Subset, CacheAssumption
    <3>4. QED
      BY <2>15, <3>1, <3>2, <3>3
  <2>19. Sound(F)
    BY <2>14, <2>16, <2>17, <2>18 DEF Sound
  <2>20. Tombstoned(R) = Tombstoned(C)
    BY <2>1, <2>3 DEF Tombstoned
  <2>21. F.entries[c].expires = ExpiresAt(now, ttl)
    BY <2>8, <2>9, <2>10
  <2>22. QED
    BY <2>1, <2>3, <2>15, <2>19, <2>20, <2>21 DEF F
<1>3. QED
  BY <1>1, <1>2

\* get keeps the cache sound; it drops its CID exactly when it was not fresh,
\* and changes no expiry time.
LEMMA GetSound ==
    ASSUME NEW C, Sound(C), NEW c \in Cids, NEW now \in U64
    PROVE  /\ Sound(Get(C, c, now))
           /\ Held(Get(C, c, now)) = IF ContainsFresh(C, c, now)
                                     THEN Held(C) ELSE Held(C) \ {c}
           /\ Get(C, c, now).tombs = C.tombs
           /\ \A d \in Held(Get(C, c, now)) :
                 Get(C, c, now).entries[d].expires = C.entries[d].expires
<1> DEFINE T == [C EXCEPT !.tick = @ + 1]
           G == Get(C, c, now)
<1>1. IsCache(C) /\ C.curBytes = TotalBytes(Held(C)) /\ C.curBytes <= MaxBytes
      /\ DistinctTicks(C) /\ Cardinality(Tombstoned(C)) <= MaxTombs
  BY DEF Sound
<1>2. /\ C = MkCache(C.entries, C.tombs, C.curBytes, C.tick, C.hits, C.misses,
                     C.expirations, C.evictions, C.negativeHits)
      /\ Held(C) \in SUBSET Cids /\ C.entries \in [Held(C) -> Entry]
      /\ Tombstoned(C) \in SUBSET Cids /\ C.tombs \in [Tombstoned(C) -> U64]
      /\ C.curBytes \in Nat /\ C.tick \in Nat /\ C.hits \in Nat
      /\ C.misses \in Nat /\ C.expirations \in Nat /\ C.evictions \in Nat
      /\ C.negativeHits \in Nat
  BY <1>1, CacheParts
<1>3. T = MkCache(C.entries, C.tombs, C.curBytes, C.tick + 1, C.hits, C.misses,
                  C.expirations, C.evictions, C.negativeHits)
  BY <1>2 DEF MkCache
<1>4. /\ T.entries = C.entries /\ T.tombs = C.tombs /\ T.curBytes = C.curBytes
      /\ T.tick = C.tick + 1 /\ T.hits = C.hits /\ T.misses = C.misses
      /\ T.expirations = C.expirations /\ T.evictions = C.evictions
      /\ T.negativeHits = C.negativeHits
  BY <1>3 DEF MkCache
<1> HIDE DEF T
<1>5. /\ DOMAIN C.entries \subseteq Cids /\ C.entries \in [DOMAIN C.entries -> Entry]
      /\ DOMAIN C.tombs \subseteq Cids /\ C.tombs \in [DOMAIN C.tombs -> U64]
  BY <1>2 DEF Held, Tombstoned
<1>6. C.tick + 1 \in Nat
  BY <1>2
<1>7. IsCache(T)
  BY <1>2, <1>3, <1>5, <1>6, MkIsCache
<1>8. Sound(T) /\ Held(T) = Held(C)
  <2>1. Held(T) = Held(C) /\ Tombstoned(T) = Tombstoned(C)
    BY <1>4 DEF Held, Tombstoned
  <2>2. \A d \in Held(C) : C.entries[d].tick \in Nat
    BY <1>2 DEF Entry
  <2>3. DistinctTicks(T)
    BY <1>1, <1>2, <1>4, <2>1, <2>2 DEF DistinctTicks
  <2>4. QED
    BY <1>1, <1>4, <1>7, <2>1, <2>3 DEF Sound
<1>9. CASE ContainsFresh(C, c, now)
  <2> DEFINE e == [C.entries EXCEPT ![c].tick = T.tick]
  <2>1. G = [T EXCEPT !.entries[c].tick = T.tick, !.hits = @ + 1]
    BY <1>9 DEF Get, T
  <2> HIDE DEF G
  <2>2. G = MkCache(e, C.tombs, C.curBytes, C.tick + 1, C.hits + 1, C.misses,
                    C.expirations, C.evictions, C.negativeHits)
    BY <1>3, <1>4, <2>1 DEF MkCache
  <2>3. /\ G.entries = e /\ G.tombs = C.tombs /\ G.curBytes = C.curBytes
        /\ G.tick = C.tick + 1
    BY <2>2 DEF MkCache
  <2>4. c \in Held(C)
    BY <1>9 DEF ContainsFresh
  <2>5. /\ DOMAIN e = Held(C) /\ e \in [Held(C) -> Entry]
        /\ e[c].tick = C.tick + 1 /\ e[c].expires = C.entries[c].expires
        /\ \A d \in Held(C) \ {c} : e[d] = C.entries[d]
    BY <1>2, <1>4, <1>6, <2>4 DEF Entry, Held
  <2> HIDE DEF e
  <2>6. IsCache(G)
    <3>1. C.hits + 1 \in Nat
      BY <1>2
    <3>2. DOMAIN e \subseteq Cids /\ e \in [DOMAIN e -> Entry]
      BY <1>2, <2>5
    <3>3. QED
      BY <1>2, <1>5, <1>6, <2>2, <3>1, <3>2, MkIsCache
  <2>7. Held(G) = Held(C) /\ Tombstoned(G) = Tombstoned(C)
    BY <2>3, <2>5 DEF Held, Tombstoned
  <2>8. DistinctTicks(G)
    <3>1. \A d \in Held(C) : C.entries[d].tick \in Nat /\ C.entries[d].tick <= C.tick
      BY <1>1, <1>2 DEF Entry, DistinctTicks
    <3>2. QED
      BY <1>1, <1>2, <2>3, <2>4, <2>5, <2>7, <3>1 DEF DistinctTicks
  <2>9. Sound(G)
    BY <1>1, <2>3, <2>6, <2>7, <2>8 DEF Sound
  <2>10. \A d \in Held(G) : G.entries[d].expires = C.entries[d].expires
    BY <2>3, <2>5, <2>7
  <2>11. QED
    BY <1>9, <2>3, <2>7, <2>9, <2>10 DEF G
<1>10. CASE ~ContainsFresh(C, c, now) /\ c \in Held(C)
  <2> DEFINE D == DropEntries(T, {c})
  <2>1. G = [D EXCEPT !.expirations = @ + 1, !.misses = @ + 1]
    BY <1>10 DEF Get, T
  <2> HIDE DEF G
  <2>2. Sound(D)
    BY <1>8, DropSound
  <2>3. /\ D = MkCache(Without(T.entries, {c}), T.tombs,
                       SatSub(T.curBytes, TotalBytes({c} \cap Held(T))),
                       T.tick, T.hits, T.misses, T.expirations, T.evictions,
                       T.negativeHits)
        /\ Held(D) = Held(T) \ {c}
        /\ \A d \in Held(T) \ {c} : D.entries[d] = T.entries[d]
    BY <1>7, DropFields
  <2>4. D.tombs = T.tombs
    BY <2>3 DEF MkCache
  <2> HIDE DEF D
  <2>5. Sound(G) /\ G.entries = D.entries /\ G.tombs = D.tombs
    <3>1. IsCache(D)
      BY <2>2 DEF Sound
    <3>2. G = MkCache(D.entries, D.tombs, D.curBytes, D.tick, D.hits, D.misses + 1,
                      D.expirations + 1, D.evictions, D.negativeHits)
      <4>1. D = MkCache(D.entries, D.tombs, D.curBytes, D.tick, D.hits, D.misses,
                        D.expirations, D.evictions, D.negativeHits)
        BY <3>1, CacheParts
      <4>2. QED
        BY <2>1, <4>1 DEF MkCache
    <3>3. /\ G.entries = D.entries /\ G.tombs = D.tombs /\ G.curBytes = D.curBytes
          /\ G.tick = D.tick
      BY <3>2 DEF MkCache
    <3>4. /\ DOMAIN D.entries \subseteq Cids /\ D.entries \in [DOMAIN D.entries -> Entry]
          /\ DOMAIN D.tombs \subseteq Cids /\ D.tombs \in [DOMAIN D.tombs -> U64]
      BY <3>1, CacheParts DEF Held, Tombstoned
    <3>5. D.misses + 1 \in Nat /\ D.expirations + 1 \in Nat
      BY <3>1, CacheParts
    <3>6. IsCache(G)
      BY <3>1, <3>2, <3>4, <3>5, CacheParts, MkIsCache
    <3>7. QED
      BY <2>2, <3>3, <3>6 DEF Sound, Held, Tombstoned, DistinctTicks
  <2>6. QED
    BY <1>4, <1>8, <1>10, <2>3, <2>4, <2>5 DEF G, Held
<1>11. CASE c \notin Held(C)
  <2>1. G = [T EXCEPT !.misses = @ + 1]
    BY <1>11 DEF Get, T, ContainsFresh
  <2> HIDE DEF G
  <2>2. G = MkCache(C.entries, C.tombs, C.curBytes, C.tick + 1, C.hits, C.misses + 1,
                    C.expirations, C.evictions, C.negativeHits)
    BY <1>3, <2>1 DEF MkCache
  <2>3. /\ G.entries = T.entries /\ G.tombs = T.tombs /\ G.curBytes = T.curBytes
        /\ G.tick = T.tick
    BY <1>4, <2>2 DEF MkCache
  <2>4. C.misses + 1 \in Nat
    BY <1>2
  <2>5. IsCache(G)
    BY <1>2, <1>5, <1>6, <2>2, <2>4, MkIsCache
  <2>6. Sound(G)
    BY <1>8, <2>3, <2>5 DEF Sound, Held, Tombstoned, DistinctTicks
  <2>7. QED
    BY <1>4, <1>11, <2>3, <2>6 DEF G, Held, ContainsFresh
<1>12. QED
  BY <1>9, <1>10, <1>11 DEF ContainsFresh

\* purge keeps the cache sound.
LEMMA PurgeSound ==
    ASSUME NEW C, Sound(C), NEW c \in Cids
    PROVE  Sound(Purge(C, c))
BY DropSound DEF Purge

\* A cache whose tombstones are replaced by a bounded map is still sound.
LEMMA TombsSound ==
    ASSUME NEW C, Sound(C), NEW t, DOMAIN t \in SUBSET Cids, t \in [DOMAIN t -> U64],
           Cardinality(DOMAIN t) <= MaxTombs, NEW n \in Nat,
           NEW D, D = MkCache(C.entries, t, C.curBytes, C.tick, C.hits, C.misses,
                              C.expirations, C.evictions, n)
    PROVE  Sound(D) /\ D.entries = C.entries /\ D.tombs = t
<1>1. IsCache(C)
  BY DEF Sound
<1>2. /\ Held(C) \in SUBSET Cids /\ C.entries \in [Held(C) -> Entry]
      /\ C.curBytes \in Nat /\ C.tick \in Nat /\ C.hits \in Nat
      /\ C.misses \in Nat /\ C.expirations \in Nat /\ C.evictions \in Nat
  BY <1>1, CacheParts
<1>4. D.entries = C.entries /\ D.tombs = t /\ D.curBytes = C.curBytes /\ D.tick = C.tick
  BY DEF MkCache
<1>5. DOMAIN C.entries \subseteq Cids /\ C.entries \in [DOMAIN C.entries -> Entry]
  BY <1>2 DEF Held
<1>6. IsCache(D)
  BY <1>2, <1>5, MkIsCache
<1>7. Sound(D)
  BY <1>4, <1>6 DEF Sound, Held, Tombstoned, DistinctTicks
<1>8. QED
  BY <1>4, <1>7

\* Forgetting tombstones keeps the map's type and bound.
LEMMA FewerTombs ==
    ASSUME NEW C, Sound(C), NEW S
    PROVE  /\ DOMAIN Without(C.tombs, S) = Tombstoned(C) \ S
           /\ DOMAIN Without(C.tombs, S) \in SUBSET Cids
           /\ Without(C.tombs, S) \in [DOMAIN Without(C.tombs, S) -> U64]
           /\ \A d \in Tombstoned(C) \ S : Without(C.tombs, S)[d] = C.tombs[d]
           /\ Cardinality(Tombstoned(C) \ S) <= MaxTombs
<1>1. /\ Tombstoned(C) \in SUBSET Cids /\ C.tombs \in [Tombstoned(C) -> U64]
      /\ IsFiniteSet(Tombstoned(C))
  BY CacheParts DEF Sound
<1>2. /\ DOMAIN Without(C.tombs, S) = Tombstoned(C) \ S
      /\ Without(C.tombs, S) \in [DOMAIN Without(C.tombs, S) -> U64]
      /\ \A d \in Tombstoned(C) \ S : Without(C.tombs, S)[d] = C.tombs[d]
  BY <1>1 DEF Without, Tombstoned
<1>3. Tombstoned(C) \ S \in SUBSET Tombstoned(C)
  OBVIOUS
<1>4. /\ Cardinality(Tombstoned(C) \ S) <= Cardinality(Tombstoned(C))
      /\ Cardinality(Tombstoned(C) \ S) \in Nat /\ Cardinality(Tombstoned(C)) \in Nat
  BY <1>1, <1>3, FS_Subset, FS_CardinalityType
<1>5. Cardinality(Tombstoned(C)) <= MaxTombs /\ MaxTombs \in Nat
  BY CacheAssumption DEF Sound
<1>6. QED
  BY <1>1, <1>2, <1>4, <1>5

\* is_negative keeps the cache sound; it forgets its CID's tombstone exactly
\* when that has expired.
LEMMA IsNegativeSound ==
    ASSUME NEW C, Sound(C), NEW c \in Cids, NEW now \in U64
    PROVE  /\ Sound(IsNegative(C, c, now))
           /\ IsNegative(C, c, now).entries = C.entries
           /\ Tombstoned(IsNegative(C, c, now)) = IF FreshTombstone(C, c, now)
                                                  THEN Tombstoned(C)
                                                  ELSE Tombstoned(C) \ {c}
           /\ \A d \in Tombstoned(IsNegative(C, c, now)) :
                 IsNegative(C, c, now).tombs[d] = C.tombs[d]
<1>1. IsCache(C) /\ C.negativeHits \in Nat
  BY CacheParts DEF Sound
<1>2. CASE FreshTombstone(C, c, now)
  <2> DEFINE D == IsNegative(C, c, now)
  <2>1. /\ C = MkCache(C.entries, C.tombs, C.curBytes, C.tick, C.hits, C.misses,
                       C.expirations, C.evictions, C.negativeHits)
    BY <1>1, CacheParts
  <2>2. D = MkCache(C.entries, C.tombs, C.curBytes, C.tick, C.hits, C.misses,
                       C.expirations, C.evictions, C.negativeHits + 1)
    BY <1>2, <2>1 DEF IsNegative, MkCache
  <2> HIDE DEF D
  <2>3. /\ DOMAIN C.tombs \in SUBSET Cids /\ C.tombs \in [DOMAIN C.tombs -> U64]
        /\ Cardinality(DOMAIN C.tombs) <= MaxTombs
    BY <1>1, CacheParts DEF Sound, Tombstoned
  <2>4. C.negativeHits + 1 \in Nat
    BY <1>1
  <2>5. Sound(D) /\ D.entries = C.entries /\ D.tombs = C.tombs
    BY <2>2, <2>3, <2>4, TombsSound
  <2>6. QED
    BY <1>2, <2>5 DEF Tombstoned, D
<1>3. CASE ~FreshTombstone(C, c, now)
  <2> DEFINE t == Without(C.tombs, {c})
             D == IsNegative(C, c, now)
  <2>1. /\ C = MkCache(C.entries, C.tombs, C.curBytes, C.tick, C.hits, C.misses,
                       C.expirations, C.evictions, C.negativeHits)
    BY <1>1, CacheParts
  <2>2. D = MkCache(C.entries, t, C.curBytes, C.tick, C.hits, C.misses,
                       C.expirations, C.evictions, C.negativeHits)
    <3>1. D = [C EXCEPT !.tombs = t]
      BY <1>3 DEF IsNegative
    <3> HIDE DEF t, D
    <3>2. QED
      BY <2>1, <3>1 DEF MkCache
  <2>3. /\ DOMAIN t = Tombstoned(C) \ {c} /\ DOMAIN t \in SUBSET Cids
        /\ t \in [DOMAIN t -> U64] /\ \A d \in Tombstoned(C) \ {c} : t[d] = C.tombs[d]
        /\ Cardinality(DOMAIN t) <= MaxTombs
    BY FewerTombs
  <2> HIDE DEF t, D
  <2>4. Sound(D) /\ D.entries = C.entries /\ D.tombs = t
    BY <1>1, <2>2, <2>3, TombsSound
  <2>5. QED
    BY <1>3, <2>3, <2>4 DEF Tombstoned, D
<1>4. QED
  BY <1>2, <1>3

\* note_absent keeps the cache sound: a full negative cache makes room first.
LEMMA NoteAbsentSound ==
    ASSUME NEW C, Sound(C), NEW c \in Cids, NEW now \in U64,
           NEW D \in NoteAbsent(C, c, now)
    PROVE  /\ Sound(D)
           /\ D.entries = C.entries
           /\ Tombstoned(D) \subseteq Tombstoned(C) \cup {c}
           /\ \A d \in Tombstoned(D) \ {c} : D.tombs[d] = C.tombs[d]
           /\ NegTtl # 0 => c \in Tombstoned(D) /\ D.tombs[c] = SatAdd(now, NegTtl)
<1>1. /\ IsCache(C) /\ C.negativeHits \in Nat /\ IsFiniteSet(Tombstoned(C))
      /\ C = MkCache(C.entries, C.tombs, C.curBytes, C.tick, C.hits, C.misses,
                     C.expirations, C.evictions, C.negativeHits)
  BY CacheParts DEF Sound
<1>2. CASE NegTtl = 0
  BY <1>2 DEF NoteAbsent
<1>3. CASE NegTtl # 0
  <2>1. PICK V \in TombVictims(C, c) :
           D = [C EXCEPT !.tombs = With(Without(C.tombs, V), c, SatAdd(now, NegTtl))]
    BY <1>3 DEF NoteAbsent
  <2> DEFINE w == Without(C.tombs, V)
             t == With(w, c, SatAdd(now, NegTtl))
  <2>2. /\ DOMAIN w = Tombstoned(C) \ V /\ DOMAIN w \in SUBSET Cids
        /\ w \in [DOMAIN w -> U64] /\ \A d \in Tombstoned(C) \ V : w[d] = C.tombs[d]
        /\ Cardinality(DOMAIN w) <= MaxTombs
    BY FewerTombs
  <2> HIDE DEF w
  <2>3. /\ DOMAIN t = DOMAIN w \cup {c} /\ t \in [DOMAIN t -> U64]
        /\ t[c] = SatAdd(now, NegTtl) /\ \A d \in DOMAIN w \ {c} : t[d] = w[d]
    BY <2>2, ExpiryRange, CacheAssumption DEF With
  <2>4. D = [C EXCEPT !.tombs = t]
    BY <2>1 DEF w
  <2> HIDE DEF t
  <2>5. D = MkCache(C.entries, t, C.curBytes, C.tick, C.hits, C.misses,
                       C.expirations, C.evictions, C.negativeHits)
    BY <1>1, <2>4 DEF MkCache
  <2>6. Cardinality(DOMAIN t) <= MaxTombs
    <3>1. /\ IsFiniteSet(DOMAIN w) /\ Cardinality(DOMAIN w) \in Nat /\ MaxTombs \in Nat
          /\ Cardinality(Tombstoned(C)) \in Nat
      BY <1>1, <2>2, FS_Subset, FS_CardinalityType, CacheAssumption
    <3>2. Cardinality(DOMAIN w \cup {c})
            = IF c \in DOMAIN w THEN Cardinality(DOMAIN w) ELSE Cardinality(DOMAIN w) + 1
      BY <3>1, FS_AddElement
    <3>3. CASE c \in DOMAIN w
      BY <2>2, <2>3, <3>2, <3>3
    <3>4. CASE c \notin DOMAIN w /\ Cardinality(Tombstoned(C)) < MaxTombs
      <4>1. Cardinality(DOMAIN w) <= Cardinality(Tombstoned(C))
        BY <1>1, <2>2, FS_Subset
      <4>2. QED
        BY <2>3, <3>1, <3>2, <3>4, <4>1
    <3>5. CASE c \notin DOMAIN w /\ ~(Cardinality(Tombstoned(C)) < MaxTombs)
               /\ c \notin Tombstoned(C)
      <4>1. PICK u \in Tombstoned(C) : V = {u}
        BY <2>1, <3>1, <3>5 DEF TombVictims
      <4>2. Cardinality(Tombstoned(C) \ {u}) = Cardinality(Tombstoned(C)) - 1
        BY <1>1, <4>1, FS_RemoveElement
      <4>3. Cardinality(Tombstoned(C)) <= MaxTombs
        BY DEF Sound
      <4>4. QED
        BY <2>2, <2>3, <3>1, <3>2, <3>5, <4>1, <4>2, <4>3
    <3>6. CASE c \notin DOMAIN w /\ c \in Tombstoned(C)
      <4>1. V = {}
        BY <2>1, <3>6 DEF TombVictims
      <4>2. QED
        BY <2>2, <3>6, <4>1
    <3>7. QED
      BY <3>3, <3>4, <3>5, <3>6
  <2>7. DOMAIN t \in SUBSET Cids
    BY <2>2, <2>3
  <2>8. Sound(D) /\ D.entries = C.entries /\ D.tombs = t
    BY <1>1, <2>3, <2>5, <2>6, <2>7, TombsSound
  <2>9. QED
    BY <2>2, <2>3, <2>8 DEF Tombstoned
<1>4. QED
  BY <1>2, <1>3

\* sweep_expired keeps the cache sound.
LEMMA SweepSound ==
    ASSUME NEW C, Sound(C), NEW now \in U64
    PROVE  Sound(SweepExpired(C, now))
<1> DEFINE dead == {c \in Held(C) : now > C.entries[c].expires}
           gone == {c \in Tombstoned(C) : now > C.tombs[c]}
           D == DropEntries(C, dead)
           t == Without(C.tombs, gone)
           E == SweepExpired(C, now)
<1>1. IsCache(C)
  BY DEF Sound
<1>2. Sound(D)
  BY DropSound
<1>3. D = MkCache(Without(C.entries, dead), C.tombs,
                  SatSub(C.curBytes, TotalBytes(dead \cap Held(C))),
                  C.tick, C.hits, C.misses, C.expirations, C.evictions,
                  C.negativeHits)
  BY <1>1, DropFields
<1>4. IsCache(D)
  BY <1>2 DEF Sound
<1>5. /\ D = MkCache(D.entries, D.tombs, D.curBytes, D.tick, D.hits, D.misses,
                     D.expirations, D.evictions, D.negativeHits)
      /\ Held(D) \in SUBSET Cids /\ D.entries \in [Held(D) -> Entry]
      /\ D.curBytes \in Nat /\ D.tick \in Nat /\ D.hits \in Nat
      /\ D.misses \in Nat /\ D.expirations \in Nat /\ D.evictions \in Nat
      /\ D.negativeHits \in Nat
  BY <1>4, CacheParts
<1>6. E = [D EXCEPT !.expirations = @ + Cardinality(dead), !.tombs = t]
  BY DEF SweepExpired
<1>7. Cardinality(dead) \in Nat
  BY <1>1, CacheParts, FS_Subset, FS_CardinalityType
<1>8. /\ DOMAIN t \in SUBSET Cids /\ t \in [DOMAIN t -> U64]
      /\ Cardinality(DOMAIN t) <= MaxTombs
  BY FewerTombs
<1> HIDE DEF D, E, t, dead
<1>9. E = MkCache(D.entries, t, D.curBytes, D.tick, D.hits, D.misses,
                  D.expirations + Cardinality(dead), D.evictions, D.negativeHits)
  BY <1>5, <1>6 DEF MkCache
<1>10. /\ E.entries = D.entries /\ E.tombs = t /\ E.curBytes = D.curBytes
       /\ E.tick = D.tick
  BY <1>9 DEF MkCache
<1>11. IsCache(E)
  <2>1. DOMAIN D.entries \subseteq Cids /\ D.entries \in [DOMAIN D.entries -> Entry]
    BY <1>5 DEF Held
  <2>2. D.expirations + Cardinality(dead) \in Nat
    BY <1>5, <1>7
  <2>3. QED
    BY <1>5, <1>8, <1>9, <2>1, <2>2, MkIsCache
<1>12. Sound(E)
  BY <1>2, <1>8, <1>10, <1>11 DEF Sound, Held, Tombstoned, DistinctTicks
<1>13. QED
  BY <1>12 DEF E
-----------------------------------------------------------------------------
(* Counters and entry times: what each operation adds to the counters, and *)
(* which entries it leaves as they were.                                   *)

\* the entries accounted for: held, expired or evicted
Tally(C) == Cardinality(Held(C)) + C.expirations + C.evictions

\* the gets accounted for
Reads(C) == C.hits + C.misses

\* the entry of d is the same in both caches but for its tick
SameTimes(C, D, d) ==
    /\ D.entries[d].inserted = C.entries[d].inserted
    /\ D.entries[d].expires = C.entries[d].expires

\* Taking a part of the entries out takes as many out of their number.
LEMMA HeldDifference ==
    ASSUME NEW C, IsCache(C), NEW S
    PROVE  /\ Cardinality(Held(C) \ S) = Cardinality(Held(C)) - Cardinality(S \cap Held(C))
           /\ Cardinality(Held(C) \ S) \in Nat /\ Cardinality(Held(C)) \in Nat
           /\ Cardinality(S \cap Held(C)) \in Nat
<1>1. IsFiniteSet(Held(C))
  BY CacheParts
<1>2. Held(C) \cap S = S \cap Held(C)
  OBVIOUS
<1>3. Cardinality(Held(C) \ S) = Cardinality(Held(C)) - Cardinality(Held(C) \cap S)
  BY <1>1, FS_Difference
<1>4. IsFiniteSet(Held(C) \ S) /\ IsFiniteSet(S \cap Held(C))
  BY <1>1, FS_Subset
<1>5. QED
  BY <1>1, <1>2, <1>3, <1>4, FS_CardinalityType

\* The eviction loop counts every entry it drops, and changes no other.
LEMMA EvictCounts ==
    ASSUME NEW C, Sound(C), NEW len \in Nat
    PROVE  /\ Tally(EvictToFit(C, len)) = Tally(C)
           /\ Reads(EvictToFit(C, len)) = Reads(C)
           /\ Held(EvictToFit(C, len)) = Held(C) \ Victims(C, len)
           /\ \A d \in Held(EvictToFit(C, len)) :
                 EvictToFit(C, len).entries[d] = C.entries[d]
<1> DEFINE V == Victims(C, len)
           D == DropEntries(C, V)
           E == EvictToFit(C, len)
<1>1. IsCache(C) /\ V \in SUBSET Held(C)
  BY DEF Sound, Victims
<1>2. /\ D = MkCache(Without(C.entries, V), C.tombs,
                     SatSub(C.curBytes, TotalBytes(V \cap Held(C))),
                     C.tick, C.hits, C.misses, C.expirations, C.evictions,
                     C.negativeHits)
      /\ Held(D) = Held(C) \ V
      /\ \A d \in Held(C) \ V : D.entries[d] = C.entries[d]
  BY <1>1, DropFields
<1>3. E = [D EXCEPT !.evictions = @ + Cardinality(V)]
  BY DEF EvictToFit
<1>4. /\ D.hits = C.hits /\ D.misses = C.misses /\ D.expirations = C.expirations
      /\ D.evictions = C.evictions
  BY <1>2 DEF MkCache
<1> HIDE DEF E, V
<1>5. /\ E.entries = D.entries /\ E.hits = D.hits /\ E.misses = D.misses
      /\ E.expirations = D.expirations /\ E.evictions = D.evictions + Cardinality(V)
  BY <1>2, <1>3 DEF MkCache
<1> HIDE DEF D
<1>6. /\ Cardinality(Held(C) \ V) = Cardinality(Held(C)) - Cardinality(V \cap Held(C))
      /\ Cardinality(Held(C) \ V) \in Nat /\ Cardinality(Held(C)) \in Nat
      /\ Cardinality(V \cap Held(C)) \in Nat /\ V \cap Held(C) = V
  BY <1>1, HeldDifference
<1>7. C.expirations \in Nat /\ C.evictions \in Nat
  BY <1>1, CacheParts
<1>8. Held(E) = Held(C) \ V
  BY <1>2, <1>5 DEF Held
<1>9. Tally(E) = Tally(C) /\ Reads(E) = Reads(C)
  <2>1. /\ Cardinality(Held(E)) = Cardinality(Held(C)) - Cardinality(V)
        /\ Cardinality(Held(C)) \in Nat /\ Cardinality(V) \in Nat
    BY <1>6, <1>8
  <2>2. /\ E.expirations = C.expirations /\ E.evictions = C.evictions + Cardinality(V)
        /\ E.hits = C.hits /\ E.misses = C.misses
    BY <1>4, <1>5
  <2>3. QED
    BY <1>7, <2>1, <2>2 DEF Tally, Reads
<1>10. QED
  BY <1>2, <1>5, <1>8, <1>9 DEF E, V

\* An insert replaces or adds one entry, with times of its own, and changes
\* no other; what makes room for it is counted.
LEMMA InsertCounts ==
    ASSUME NEW C, Sound(C), NEW c \in Cids, NEW ttl \in U64, NEW now \in U64,
           Cacheable(c), NEW F, F = InsertWithTtl(C, c, ttl, now)
    PROVE  /\ Reads(F) = Reads(C)
           /\ c \in Held(C) => Tally(F) = Tally(C)
           /\ c \notin Held(C) => Tally(F) = Tally(C) + 1
           /\ F.entries[c].inserted = now
           /\ F.entries[c].expires = ExpiresAt(now, ttl)
           /\ \A d \in Held(F) \ {c} : d \in Held(C) /\ F.entries[d] = C.entries[d]
<1> DEFINE D == DropEntries(C, {c})
           R == EvictToFit(D, Size[c])
           new == [inserted |-> now, expires |-> ExpiresAt(now, ttl),
                   tick |-> R.tick + 1]
           e == With(R.entries, c, new)
           t == Without(R.tombs, {c})
           V == Victims(D, Size[c])
<1>1. IsCache(C)
  BY DEF Sound
<1>2. /\ D = MkCache(Without(C.entries, {c}), C.tombs,
                     SatSub(C.curBytes, TotalBytes({c} \cap Held(C))),
                     C.tick, C.hits, C.misses, C.expirations, C.evictions,
                     C.negativeHits)
      /\ Held(D) = Held(C) \ {c}
      /\ \A d \in Held(C) \ {c} : D.entries[d] = C.entries[d]
  BY <1>1, DropFields
<1>3. Sound(D)
  BY DropSound
<1>4. /\ D.hits = C.hits /\ D.misses = C.misses /\ D.expirations = C.expirations
      /\ D.evictions = C.evictions
  BY <1>2 DEF MkCache
<1> HIDE DEF D
<1>5. Size[c] \in Nat /\ Size[c] <= MaxBytes
  BY CacheAssumption DEF Cacheable, U64
<1>6. /\ Tally(R) = Tally(D) /\ Reads(R) = Reads(D) /\ Held(R) = Held(D) \ V
      /\ \A d \in Held(R) : R.entries[d] = D.entries[d]
  BY <1>3, <1>5, EvictCounts
<1>7. Sound(R)
  BY <1>3, <1>5, EvictSound
<1> HIDE DEF R
<1>8. F = [R EXCEPT !.tombs = t, !.tick = R.tick + 1,
                    !.curBytes = R.curBytes + Size[c], !.entries = e]
  BY DEF InsertWithTtl, D, R
<1>9. e[c] = new /\ DOMAIN e = Held(R) \cup {c}
      /\ \A d \in Held(R) \ {c} : e[d] = R.entries[d]
  BY DEF With, Held
<1>10. new.inserted = now /\ new.expires = ExpiresAt(now, ttl)
  OBVIOUS
<1> HIDE DEF V, e, t, new
<1>11. IsCache(R) /\ IsFiniteSet(Held(R))
       /\ R = MkCache(R.entries, R.tombs, R.curBytes, R.tick, R.hits, R.misses,
                      R.expirations, R.evictions, R.negativeHits)
  BY <1>7, CacheParts DEF Sound
<1>12. /\ F.entries = e /\ F.hits = R.hits /\ F.misses = R.misses
       /\ F.expirations = R.expirations /\ F.evictions = R.evictions
  BY <1>8, <1>11 DEF MkCache
<1>13. Held(F) = Held(R) \cup {c} /\ c \notin Held(R)
  BY <1>2, <1>6, <1>9, <1>12 DEF Held
<1>14. Cardinality(Held(F)) = Cardinality(Held(R)) + 1 /\ Cardinality(Held(R)) \in Nat
  BY <1>11, <1>13, FS_AddElement, FS_CardinalityType
<1>15. R.expirations \in Nat /\ R.evictions \in Nat
       /\ C.expirations \in Nat /\ C.evictions \in Nat
  BY <1>1, <1>11, CacheParts
<1>16. Tally(F) = Tally(D) + 1 /\ Reads(F) = Reads(C)
  <2>1. Tally(F) = Tally(R) + 1
    BY <1>12, <1>14, <1>15 DEF Tally
  <2>2. Reads(F) = Reads(R)
    BY <1>12 DEF Reads
  <2>3. Reads(D) = Reads(C)
    BY <1>4 DEF Reads
  <2>4. QED
    BY <1>6, <2>1, <2>2, <2>3
<1>17. /\ Cardinality(Held(C) \ {c}) = Cardinality(Held(C)) - Cardinality({c} \cap Held(C))
       /\ Cardinality(Held(C) \ {c}) \in Nat /\ Cardinality(Held(C)) \in Nat
  BY <1>1, HeldDifference
<1>18. c \in Held(C) => Tally(F) = Tally(C)
  <2> HAVE c \in Held(C)
  <2>1. {c} \cap Held(C) = {c} /\ Cardinality({c}) = 1
    BY FS_Singleton
  <2>2. Tally(D) = Tally(C) - 1
    <3>1. Cardinality(Held(D)) = Cardinality(Held(C)) - 1
      BY <1>2, <1>17, <2>1
    <3>2. QED
      BY <1>4, <1>15, <1>17, <3>1 DEF Tally
  <2>3. Tally(C) \in Int
    BY <1>15, <1>17 DEF Tally
  <2>4. QED
    BY <1>16, <2>2, <2>3
<1>19. c \notin Held(C) => Tally(F) = Tally(C) + 1
  <2> HAVE c \notin Held(C)
  <2>1. Held(C) \ {c} = Held(C)
    OBVIOUS
  <2>2. Tally(D) = Tally(C)
    BY <1>2, <1>4, <2>1 DEF Tally
  <2>3. QED
    BY <1>16, <2>2
<1>20. \A d \in Held(F) \ {c} : d \in Held(C) /\ F.entries[d] = C.entries[d]
  BY <1>2, <1>6, <1>9, <1>12, <1>13
<1>21. F.entries[c].inserted = now /\ F.entries[c].expires = ExpiresAt(now, ttl)
  BY <1>9, <1>10, <1>12
<1>22. QED
  BY <1>16, <1>18, <1>19, <1>20, <1>21

\* An insert clears the CID's tombstone and touches no other.
LEMMA InsertTombs ==
    ASSUME NEW C, Sound(C), NEW c \in Cids, NEW ttl \in U64, NEW now \in U64,
           Cacheable(c), NEW F, F = InsertWithTtl(C, c, ttl, now)
    PROVE  \A d \in Tombstoned(C) \ {c} :
              d \in Tombstoned(F) /\ F.tombs[d] = C.tombs[d]
<1> DEFINE D == DropEntries(C, {c})
           R == EvictToFit(D, Size[c])
           t == Without(R.tombs, {c})
<1>1. IsCache(C)
  BY DEF Sound
<1>2. D = MkCache(Without(C.entries, {c}), C.tombs,
                  SatSub(C.curBytes, TotalBytes({c} \cap Held(C))),
                  C.tick, C.hits, C.misses, C.expirations, C.evictions,
                  C.negativeHits)
  BY <1>1, DropFields
<1>3. Sound(D) /\ D.tombs = C.tombs
  BY <1>2, DropSound DEF MkCache
<1> HIDE DEF D
<1>4. Size[c] \in Nat /\ Size[c] <= MaxBytes
  BY CacheAssumption DEF Cacheable, U64
<1>5. Sound(R) /\ R.tombs = C.tombs
  BY <1>3, <1>4, EvictSound
<1> HIDE DEF R
<1>6. F = [R EXCEPT !.tombs = t, !.tick = R.tick + 1,
                    !.curBytes = R.curBytes + Size[c],
                    !.entries = With(R.entries, c,
                                     [inserted |-> now, expires |-> ExpiresAt(now, ttl),
                                      tick |-> R.tick + 1])]
  BY DEF InsertWithTtl, D, R
<1>7. \A d \in Tombstoned(C) \ {c} : d \in DOMAIN t /\ t[d] = C.tombs[d]
  BY <1>5 DEF Without, Tombstoned
<1> HIDE DEF t
<1>8. R = MkCache(R.entries, R.tombs, R.curBytes, R.tick, R.hits, R.misses,
                  R.expirations, R.evictions, R.negativeHits)
  BY <1>5, CacheParts DEF Sound
<1>9. F.tombs = t
  BY <1>6, <1>8 DEF MkCache
<1>10. QED
  BY <1>7, <1>9 DEF Tombstoned

\* A get counts one hit or one miss, and the expired entry it drops.
LEMMA GetCounts ==
    ASSUME NEW C, Sound(C), NEW c \in Cids, NEW now \in U64
    PROVE  /\ Reads(Get(C, c, now)) = Reads(C) + 1
           /\ Tally(Get(C, c, now)) = Tally(C)
           /\ \A d \in Held(Get(C, c, now)) :
                 d \in Held(C) /\ SameTimes(C, Get(C, c, now), d)
<1> DEFINE T == [C EXCEPT !.tick = @ + 1]
           G == Get(C, c, now)
<1>1. /\ IsCache(C) /\ C.hits \in Nat /\ C.misses \in Nat
      /\ C.expirations \in Nat /\ C.evictions \in Nat
      /\ C = MkCache(C.entries, C.tombs, C.curBytes, C.tick, C.hits, C.misses,
                     C.expirations, C.evictions, C.negativeHits)
      /\ C.entries \in [Held(C) -> Entry]
  BY CacheParts DEF Sound
<1>2. T = MkCache(C.entries, C.tombs, C.curBytes, C.tick + 1, C.hits, C.misses,
                  C.expirations, C.evictions, C.negativeHits)
  BY <1>1 DEF MkCache
<1>3. CASE ContainsFresh(C, c, now)
  <2> DEFINE e == [T.entries EXCEPT ![c].tick = T.tick]
  <2>1. G = [T EXCEPT !.entries = e, !.hits = @ + 1]
    BY <1>3 DEF Get
  <2>2. c \in Held(C)
    BY <1>3 DEF ContainsFresh
  <2>3. T.entries = C.entries
    BY <1>2 DEF MkCache
  <2>4. /\ DOMAIN e = Held(C)
        /\ \A d \in Held(C) : /\ e[d].inserted = C.entries[d].inserted
                              /\ e[d].expires = C.entries[d].expires
    BY <1>1, <2>2, <2>3 DEF Held, Entry
  <2> HIDE DEF G, e
  <2>5. /\ G.entries = e /\ G.hits = C.hits + 1 /\ G.misses = C.misses
        /\ G.expirations = C.expirations /\ G.evictions = C.evictions
    BY <1>2, <2>1 DEF MkCache
  <2>6. Held(G) = Held(C)
    BY <2>4, <2>5 DEF Held
  <2>7. Reads(G) = Reads(C) + 1 /\ Tally(G) = Tally(C)
    BY <1>1, <2>5, <2>6 DEF Reads, Tally
  <2>8. QED
    BY <2>4, <2>5, <2>6, <2>7 DEF G, SameTimes
<1>4. CASE ~ContainsFresh(C, c, now) /\ c \in Held(C)
  <2> DEFINE D == DropEntries(T, {c})
  <2>1. G = [D EXCEPT !.expirations = @ + 1, !.misses = @ + 1]
    BY <1>4 DEF Get
  <2>2. D = [T EXCEPT !.entries = Without(T.entries, {c}),
                      !.curBytes = SatSub(T.curBytes, TotalBytes({c} \cap Held(T)))]
    BY DEF DropEntries
  <2>3. T.entries = C.entries
    BY <1>2 DEF MkCache
  <2> HIDE DEF G, D
  <2>4. /\ D.entries = Without(C.entries, {c}) /\ D.hits = C.hits /\ D.misses = C.misses
        /\ D.expirations = C.expirations /\ D.evictions = C.evictions
        /\ G.entries = D.entries /\ G.hits = D.hits /\ G.misses = D.misses + 1
        /\ G.expirations = D.expirations + 1 /\ G.evictions = D.evictions
    BY <1>2, <2>1, <2>2, <2>3 DEF MkCache
  <2>5. /\ Held(G) = Held(C) \ {c}
        /\ \A d \in Held(C) \ {c} : G.entries[d] = C.entries[d]
    BY <1>1, <2>4 DEF Held, Without
  <2>6. /\ Cardinality(Held(C) \ {c}) = Cardinality(Held(C)) - Cardinality({c} \cap Held(C))
        /\ Cardinality(Held(C)) \in Nat
    BY <1>1, HeldDifference
  <2>7. {c} \cap Held(C) = {c} /\ Cardinality({c}) = 1
    BY <1>4, FS_Singleton
  <2>8. Cardinality(Held(G)) = Cardinality(Held(C)) - 1
    BY <2>5, <2>6, <2>7
  <2>9. Reads(G) = Reads(C) + 1 /\ Tally(G) = Tally(C)
    BY <1>1, <2>4, <2>6, <2>8 DEF Reads, Tally
  <2>10. QED
    BY <2>5, <2>9 DEF G, SameTimes
<1>5. CASE c \notin Held(C)
  <2>1. G = [T EXCEPT !.misses = @ + 1]
    BY <1>5 DEF Get, ContainsFresh
  <2> HIDE DEF G
  <2>2. /\ G.entries = C.entries /\ G.hits = C.hits /\ G.misses = C.misses + 1
        /\ G.expirations = C.expirations /\ G.evictions = C.evictions
    BY <1>2, <2>1 DEF MkCache
  <2>3. Reads(G) = Reads(C) + 1 /\ Tally(G) = Tally(C)
    BY <1>1, <2>2 DEF Reads, Tally, Held
  <2>4. QED
    BY <2>2, <2>3 DEF G, SameTimes, Held
<1>6. QED
  BY <1>3, <1>4, <1>5

\* A purge takes one entry out if its CID is held, and counts nothing.
LEMMA PurgeCounts ==
    ASSUME NEW C, Sound(C), NEW c \in Cids
    PROVE  /\ Reads(Purge(C, c)) = Reads(C)
           /\ c \in Held(C) => Tally(Purge(C, c)) = Tally(C) - 1
           /\ c \notin Held(C) => Tally(Purge(C, c)) = Tally(C)
           /\ Held(Purge(C, c)) = Held(C) \ {c}
           /\ \A d \in Held(Purge(C, c)) : Purge(C, c).entries[d] = C.entries[d]
<1> DEFINE D == Purge(C, c)
<1>1. /\ IsCache(C) /\ C.expirations \in Nat /\ C.evictions \in Nat
  BY CacheParts DEF Sound
<1>2. /\ D = MkCache(Without(C.entries, {c}), C.tombs,
                     SatSub(C.curBytes, TotalBytes({c} \cap Held(C))),
                     C.tick, C.hits, C.misses, C.expirations, C.evictions,
                     C.negativeHits)
      /\ Held(D) = Held(C) \ {c}
      /\ \A d \in Held(C) \ {c} : D.entries[d] = C.entries[d]
  BY <1>1, DropFields DEF Purge
<1>3. /\ D.hits = C.hits /\ D.misses = C.misses /\ D.expirations = C.expirations
      /\ D.evictions = C.evictions
  BY <1>2 DEF MkCache
<1> HIDE DEF D
<1>4. /\ Cardinality(Held(C) \ {c}) = Cardinality(Held(C)) - Cardinality({c} \cap Held(C))
      /\ Cardinality(Held(C)) \in Nat
  BY <1>1, HeldDifference
<1>5. c \in Held(C) => Tally(D) = Tally(C) - 1
  <2> HAVE c \in Held(C)
  <2>1. {c} \cap Held(C) = {c} /\ Cardinality({c}) = 1
    BY FS_Singleton
  <2>2. Cardinality(Held(D)) = Cardinality(Held(C)) - 1
    BY <1>2, <1>4, <2>1
  <2>3. QED
    BY <1>1, <1>3, <1>4, <2>2 DEF Tally
<1>6. c \notin Held(C) => Tally(D) = Tally(C)
  <2> HAVE c \notin Held(C)
  <2>1. Held(D) = Held(C)
    BY <1>2
  <2>2. QED
    BY <1>3, <2>1 DEF Tally
<1>7. QED
  BY <1>2, <1>3, <1>5, <1>6 DEF D, Reads

\* A sweep counts what it drops, and leaves exactly the entries still good.
LEMMA SweepCounts ==
    ASSUME NEW C, Sound(C), NEW now \in U64
    PROVE  /\ Reads(SweepExpired(C, now)) = Reads(C)
           /\ Tally(SweepExpired(C, now)) = Tally(C)
           /\ Held(SweepExpired(C, now))
                = Held(C) \ {c \in Held(C) : now > C.entries[c].expires}
           /\ \A d \in Held(SweepExpired(C, now)) :
                 SweepExpired(C, now).entries[d] = C.entries[d]
<1> DEFINE dead == {c \in Held(C) : now > C.entries[c].expires}
           gone == {c \in Tombstoned(C) : now > C.tombs[c]}
           D == DropEntries(C, dead)
           t == Without(C.tombs, gone)
           E == SweepExpired(C, now)
<1>1. /\ IsCache(C) /\ C.expirations \in Nat /\ C.evictions \in Nat
  BY CacheParts DEF Sound
<1>2. /\ D = MkCache(Without(C.entries, dead), C.tombs,
                     SatSub(C.curBytes, TotalBytes(dead \cap Held(C))),
                     C.tick, C.hits, C.misses, C.expirations, C.evictions,
                     C.negativeHits)
      /\ Held(D) = Held(C) \ dead
      /\ \A d \in Held(C) \ dead : D.entries[d] = C.entries[d]
  BY <1>1, DropFields
<1>3. E = [D EXCEPT !.expirations = @ + Cardinality(dead), !.tombs = t]
  BY DEF SweepExpired
<1>4. dead \cap Held(C) = dead
  OBVIOUS
<1> HIDE DEF E, t, dead
<1>5. /\ D.hits = C.hits /\ D.misses = C.misses /\ D.expirations = C.expirations
      /\ D.evictions = C.evictions
      /\ E.entries = D.entries /\ E.hits = D.hits /\ E.misses = D.misses
      /\ E.expirations = D.expirations + Cardinality(dead)
      /\ E.evictions = D.evictions
  BY <1>2, <1>3 DEF MkCache
<1> HIDE DEF D
<1>6. /\ Cardinality(Held(C) \ dead) = Cardinality(Held(C)) - Cardinality(dead \cap Held(C))
      /\ Cardinality(Held(C)) \in Nat /\ Cardinality(dead \cap Held(C)) \in Nat
  BY <1>1, HeldDifference
<1>7. Held(E) = Held(C) \ dead /\ \A d \in Held(E) : E.entries[d] = C.entries[d]
  BY <1>2, <1>5 DEF Held
<1>8. Reads(E) = Reads(C)
  BY <1>5 DEF Reads
<1>9. Tally(E) = Tally(C)
  <2>1. Cardinality(Held(E)) = Cardinality(Held(C)) - Cardinality(dead)
        /\ Cardinality(dead) \in Nat
    BY <1>4, <1>6, <1>7
  <2>2. QED
    BY <1>1, <1>5, <1>6, <2>1 DEF Tally
<1>10. QED
  BY <1>7, <1>8, <1>9 DEF E, dead

\* Neither is_negative nor note_absent touches entries or their counters.
LEMMA TombstoneCounts ==
    ASSUME NEW C, Sound(C), NEW c \in Cids, NEW now \in U64, NEW D,
           D = IsNegative(C, c, now) \/ D \in NoteAbsent(C, c, now)
    PROVE  Reads(D) = Reads(C) /\ Tally(D) = Tally(C) /\ D.entries = C.entries
<1>1. C = MkCache(C.entries, C.tombs, C.curBytes, C.tick, C.hits, C.misses,
                  C.expirations, C.evictions, C.negativeHits)
  BY CacheParts DEF Sound
<1>2. \/ D = C
      \/ \E t : D = [C EXCEPT !.tombs = t]
      \/ D = [C EXCEPT !.negativeHits = @ + 1]
  BY DEF IsNegative, NoteAbsent
<1>3. /\ D.entries = C.entries /\ D.hits = C.hits /\ D.misses = C.misses
      /\ D.expirations = C.expirations /\ D.evictions = C.evictions
  BY <1>1, <1>2 DEF MkCache
<1>4. QED
  BY <1>3 DEF Reads, Tally, Held

-----------------------------------------------------------------------------
(* The bounded set of the replay guard and the seen tokens (FifoSet), as   *)
(* the tail of the sequence of the keys it took in.                        *)

\* F holds the last keys of A, all of them unless it is full
Window(F, A, K, cap) ==
    /\ F.order \in Seq(K)
    /\ Len(F.order) <= cap /\ Len(F.order) <= Len(A)
    /\ Len(F.order) < cap => Len(F.order) = Len(A)
    /\ \A i \in 1 .. Len(F.order) : F.order[i] = A[Len(A) - Len(F.order) + i]
    /\ \A i, j \in 1 .. Len(F.order) : F.order[i] = F.order[j] => i = j
    /\ F.seen = {F.order[i] : i \in 1 .. Len(F.order)}

\* A key that is new keeps the window a window, with the key at its end.
LEMMA AcceptWindow ==
    ASSUME NEW K, NEW F, NEW A \in Seq(K), NEW key \in K, NEW cap \in Nat \ {0},
           Window(F, A, K, cap), IsNew(F, key)
    PROVE  Window(Accept(F, key, cap), Append(A, key), K, cap)
<1> DEFINE full == Append(F.order, key)
           n == Len(F.order)
           B == Append(A, key)
<1>1. F.order \in Seq(K) /\ n \in Nat /\ n <= cap /\ n <= Len(A) /\ Len(A) \in Nat
  BY DEF Window
<1>2. /\ full \in Seq(K) /\ Len(full) = n + 1 /\ full # << >>
      /\ \A i \in 1 .. n : full[i] = F.order[i]
      /\ full[n + 1] = key
  BY <1>1, AppendProperties
<1>3. /\ B \in Seq(K) /\ Len(B) = Len(A) + 1
      /\ \A i \in 1 .. Len(A) : B[i] = A[i]
      /\ B[Len(A) + 1] = key
  BY AppendProperties
<1> HIDE DEF full, n, B
<1>4. \A i \in 1 .. n + 1 : full[i] = B[Len(B) - (n + 1) + i]
  <2>1. \A i \in 1 .. n : F.order[i] = A[Len(A) - n + i]
    BY DEF Window, n
  <2>2. ASSUME NEW i \in 1 .. n + 1 PROVE full[i] = B[Len(B) - (n + 1) + i]
    <3>1. CASE i = n + 1
      BY <1>1, <1>2, <1>3, <3>1
    <3>2. CASE i \in 1 .. n
      <4>1. Len(A) - n + i \in 1 .. Len(A) /\ Len(B) - (n + 1) + i = Len(A) - n + i
        BY <1>1, <1>3, <3>2
      <4>2. QED
        BY <1>2, <1>3, <2>1, <3>2, <4>1
    <3>3. QED
      BY <1>1, <3>1, <3>2
  <2>3. QED
    BY <2>2
<1>5. \A i, j \in 1 .. n + 1 : full[i] = full[j] => i = j
  <2>1. \A i \in 1 .. n : full[i] # key
    BY <1>2 DEF Window, IsNew, n
  <2>2. QED
    <3> SUFFICES ASSUME NEW i \in 1 .. n + 1, NEW j \in 1 .. n + 1, full[i] = full[j]
                 PROVE  i = j
      OBVIOUS
    <3>1. CASE i = n + 1 /\ j = n + 1
      BY <3>1
    <3>2. CASE i \in 1 .. n /\ j = n + 1
      BY <1>2, <2>1, <3>2
    <3>3. CASE i = n + 1 /\ j \in 1 .. n
      BY <1>2, <2>1, <3>3
    <3>4. CASE i \in 1 .. n /\ j \in 1 .. n
      BY <1>2, <3>4 DEF Window, n
    <3>5. QED
      BY <1>1, <3>1, <3>2, <3>3, <3>4
<1>6. F.seen \cup {key} = {full[i] : i \in 1 .. n + 1}
  <2>1. F.seen = {F.order[i] : i \in 1 .. n}
    BY DEF Window, n
  <2>2. ASSUME NEW x \in F.seen \cup {key} PROVE \E i \in 1 .. n + 1 : x = full[i]
    <3>1. CASE x = key
      BY <1>1, <1>2, <3>1
    <3>2. CASE x # key
      <4>1. PICK i \in 1 .. n : x = F.order[i]
        BY <2>1, <3>2
      <4>2. QED
        BY <1>1, <1>2, <4>1
    <3>3. QED
      BY <3>1, <3>2
  <2>3. ASSUME NEW i \in 1 .. n + 1 PROVE full[i] \in F.seen \cup {key}
    <3>1. CASE i = n + 1
      BY <1>2, <3>1
    <3>2. CASE i \in 1 .. n
      BY <1>2, <2>1, <3>2
    <3>3. QED
      BY <1>1, <3>1, <3>2
  <2>4. QED
    BY <2>2, <2>3
<1>7. CASE ~(Len(full) > cap)
  <2> DEFINE G == [seen |-> F.seen \cup {key}, order |-> full]
  <2>1. Accept(F, key, cap) = G
    BY <1>7 DEF Accept, full
  <2>2. n = Len(A)
    BY <1>1, <1>2, <1>7 DEF Window, n
  <2>3. Window(G, B, K, cap)
    <3>1. G.order = full /\ G.seen = {full[i] : i \in 1 .. n + 1}
      BY <1>6
    <3> HIDE DEF G
    <3>2. G.order \in Seq(K) /\ Len(G.order) = n + 1
      BY <1>2, <3>1
    <3>3. \A l \in 1 .. n + 1 : G.order[l] = B[Len(B) - (n + 1) + l]
      BY <1>4, <3>1
    <3>4. \A l, k \in 1 .. n + 1 : G.order[l] = G.order[k] => l = k
      BY <1>5, <3>1
    <3>5. G.seen = {G.order[l] : l \in 1 .. n + 1}
      BY <3>1
    <3>6. Len(G.order) <= cap /\ Len(G.order) = Len(B)
      BY <1>1, <1>2, <1>3, <1>7, <2>2, <3>2
    <3>7. Len(B) \in Nat
      BY <1>3
    <3>8. QED
      BY <3>2, <3>3, <3>4, <3>5, <3>6, <3>7 DEF Window
  <2>4. QED
    BY <2>1, <2>3 DEF B
<1>8. CASE Len(full) > cap
  <2> DEFINE rest == Tail(full)
             G == [seen |-> (F.seen \cup {key}) \ {Head(full)}, order |-> rest]
  <2>1. Accept(F, key, cap) = G
    BY <1>8 DEF Accept, full
  <2>2. n = cap
    BY <1>1, <1>2, <1>8
  <2>3. /\ rest \in Seq(K) /\ Len(rest) = n
        /\ \A i \in 1 .. n : rest[i] = full[i + 1]
        /\ Head(full) = full[1]
    <3>1. /\ Tail(full) \in Seq(K) /\ Len(Tail(full)) = Len(full) - 1
          /\ \A i \in 1 .. Len(Tail(full)) : Tail(full)[i] = full[i + 1]
      BY <1>2, HeadTailProperties
    <3>2. Head(full) = full[1]
      BY <1>2
    <3>3. QED
      BY <1>1, <1>2, <3>1, <3>2
  <2> HIDE DEF rest
  <2>4. ASSUME NEW i \in 1 .. n PROVE rest[i] = B[Len(B) - n + i]
    <3>1. i + 1 \in 1 .. n + 1 /\ Len(B) - (n + 1) + (i + 1) = Len(B) - n + i
      BY <1>1, <1>3
    <3>2. QED
      BY <1>4, <2>3, <3>1
  <2>5. \A i, j \in 1 .. n : rest[i] = rest[j] => i = j
    BY <1>1, <1>5, <2>3
  <2>6. (F.seen \cup {key}) \ {Head(full)} = {rest[i] : i \in 1 .. n}
    <3>1. ASSUME NEW x \in (F.seen \cup {key}) \ {Head(full)}
          PROVE  \E i \in 1 .. n : x = rest[i]
      <4>1. PICK i \in 1 .. n + 1 : x = full[i]
        BY <1>6
      <4>2. i - 1 \in 1 .. n
        BY <1>1, <2>3, <4>1
      <4>3. rest[i - 1] = full[i]
        BY <1>1, <2>3, <4>2
      <4>4. QED
        BY <4>1, <4>2, <4>3
    <3>2. ASSUME NEW i \in 1 .. n PROVE rest[i] \in (F.seen \cup {key}) \ {Head(full)}
      <4>1. rest[i] = full[i + 1] /\ i + 1 \in 1 .. n + 1 /\ 1 \in 1 .. n + 1 /\ i + 1 # 1
        BY <1>1, <2>3
      <4>2. full[i + 1] # full[1]
        BY <1>5, <4>1
      <4>3. QED
        BY <1>6, <2>3, <4>1, <4>2
    <3>3. QED
      BY <3>1, <3>2
  <2>7. Window(G, B, K, cap)
    <3>1. Len(rest) <= cap /\ Len(rest) <= Len(B) /\ ~(Len(rest) < cap)
      BY <1>1, <1>3, <2>2, <2>3
    <3>2. G.order = rest /\ G.seen = {rest[i] : i \in 1 .. n}
      BY <2>6
    <3> HIDE DEF G
    <3>3. /\ G.order \in Seq(K) /\ Len(G.order) = n
          /\ \A l \in 1 .. n : G.order[l] = B[Len(B) - n + l]
          /\ \A l, k \in 1 .. n : G.order[l] = G.order[k] => l = k
          /\ G.seen = {G.order[l] : l \in 1 .. n}
      <4>1. G.order \in Seq(K) /\ Len(G.order) = n
        BY <2>3, <3>2
      <4>2. \A l \in 1 .. n : G.order[l] = B[Len(B) - n + l]
        BY <2>4, <3>2
      <4>3. \A l, k \in 1 .. n : G.order[l] = G.order[k] => l = k
        BY <2>5, <3>2
      <4>4. G.seen = {G.order[l] : l \in 1 .. n}
        BY <3>2
      <4>5. QED
        BY <4>1, <4>2, <4>3, <4>4
    <3>4. Len(G.order) <= cap /\ Len(G.order) <= Len(B) /\ ~(Len(G.order) < cap)
      BY <3>1, <3>2
    <3>5. QED
      BY <3>3, <3>4 DEF Window
  <2>8. QED
    BY <2>1, <2>7 DEF B
<1>9. QED
  BY <1>7, <1>8

\* The empty set is the window of the empty sequence.
LEMMA NewWindow ==
    ASSUME NEW K, NEW cap \in Nat \ {0}
    PROVE  Window(NewFifoSet, << >>, K, cap)
BY DEF Window, NewFifoSet

\* A window's parts have their types.
LEMMA WindowTyped ==
    ASSUME NEW K, NEW F, NEW A \in Seq(K), NEW cap \in Nat \ {0}, Window(F, A, K, cap)
    PROVE  F.seen \subseteq K /\ F.order \in Seq(K)
BY DEF Window

\* A key that is taken for new, though it was taken in before, was pushed out
\* by a full capacity of other keys since.
LEMMA PushedOut ==
    ASSUME NEW K, NEW F, NEW A \in Seq(K), NEW cap \in Nat \ {0}, Window(F, A, K, cap),
           NEW i \in 1 .. Len(A), IsNew(F, A[i])
    PROVE  Cardinality({A[k] : k \in i + 1 .. Len(A)}) >= cap
<1> DEFINE m == Len(A)
           n == Len(F.order)
           T == {A[k] : k \in i + 1 .. m}
           f == [k \in 1 .. cap |-> A[m - n + k]]
<1>1. m \in Nat /\ n \in Nat /\ i \in 1 .. m
  BY DEF Window
<1>2. /\ n <= cap /\ n <= m /\ (n < cap => n = m)
      /\ \A k \in 1 .. n : F.order[k] = A[m - n + k]
      /\ \A k, l \in 1 .. n : F.order[k] = F.order[l] => k = l
      /\ F.seen = {F.order[k] : k \in 1 .. n}
  BY DEF Window
<1> HIDE DEF m, n
<1>3. i <= m - n
  <2> SUFFICES ASSUME i > m - n PROVE FALSE
    BY <1>1
  <2>1. i - (m - n) \in 1 .. n /\ m - n + (i - (m - n)) = i
    BY <1>1, <1>2
  <2>2. F.order[i - (m - n)] = A[i]
    BY <1>2, <2>1
  <2>3. QED
    BY <1>2, <2>1, <2>2 DEF IsNew
<1>4. n = cap
  BY <1>1, <1>2, <1>3
<1>5. IsFiniteSet(T)
  <2>1. IsFiniteSet(i + 1 .. m)
    BY <1>1, FS_Interval
  <2> DEFINE g == [k \in i + 1 .. m |-> A[k]]
  <2>2. g \in [i + 1 .. m -> T] /\ \A t \in T : \E k \in i + 1 .. m : g[k] = t
    OBVIOUS
  <2> HIDE DEF g, T
  <2>3. g \in Surjection(i + 1 .. m, T)
    BY <2>2, Fun_IsSurj
  <2>4. QED
    BY <2>1, <2>3, FS_Surjection
<1>6. \A k \in 1 .. n : m - n + k \in i + 1 .. m
  BY <1>1, <1>2, <1>3
<1>7. f \in [1 .. cap -> T]
  <2>1. ASSUME NEW k \in 1 .. cap PROVE A[m - n + k] \in T
    BY <1>4, <1>6
  <2> HIDE DEF T
  <2>2. QED
    BY <2>1
<1>8. ASSUME NEW k \in 1 .. cap, NEW l \in 1 .. cap, f[k] = f[l]
      PROVE  k = l
  <2>1. A[m - n + k] = A[m - n + l]
    BY <1>8
  <2>2. F.order[k] = F.order[l]
    BY <1>2, <1>4, <2>1
  <2>3. QED
    BY <1>2, <1>4, <2>2
<1>9. f \in Injection(1 .. cap, T)
  <2> HIDE DEF f, T
  <2>1. QED
    BY <1>7, <1>8, Fun_IsInj
<1> HIDE DEF f, T
<1>10. Cardinality(1 .. cap) <= Cardinality(T)
  BY <1>5, <1>9, FS_Injection
<1>11. Cardinality(1 .. cap) = cap
  BY FS_Interval
<1>12. Cardinality(T) \in Nat
  BY <1>5, FS_CardinalityType
<1>13. QED
  BY <1>10, <1>11, <1>12 DEF T, m
-----------------------------------------------------------------------------
(* The eviction loop.  The models use the closed form EvictToFit; the loop *)
(* in insert_with_ttl evicts entry by entry, and comes to the same.        *)

\* the cache after evict_one has taken v
DropVictim(C, v) == [DropEntries(C, {v}) EXCEPT !.evictions = @ + 1]

\* v was read or inserted before every other entry
LeastRecent(C, v) == \A w \in Held(C) \ {v} : v \in Older(C, w)

\* evict_one takes the entry that every other is more recent than, which is
\* one of the victims.
LEMMA FirstVictim ==
    ASSUME NEW C, Sound(C), NEW len \in Nat, Evicts(C, len)
    PROVE  \E v \in Held(C) :
              /\ EvictOne(C) = DropVictim(C, v)
              /\ v \in Victims(C, len)
              /\ LeastRecent(C, v)
<1> DEFINE v == CHOOSE x \in Held(C) :
                  \A w \in Held(C) : C.entries[x].tick <= C.entries[w].tick
<1>1. IsCache(C) /\ DistinctTicks(C) /\ Held(C) # {} /\ C.curBytes + len > MaxBytes
  BY DEF Sound, Evicts
<1>2. C.curBytes \in Nat /\ \A c \in Held(C) : C.entries[c].tick \in Nat
  BY <1>1, CacheParts DEF Entry
<1>3. v \in Held(C) /\ \A w \in Held(C) : C.entries[v].tick <= C.entries[w].tick
  BY <1>1, LeastTick
<1>4. EvictOne(C) = DropVictim(C, v)
  BY DEF EvictOne, DropVictim
<1> HIDE DEF v
<1>5. \A w \in Held(C) \ {v} : C.entries[v].tick < C.entries[w].tick
  BY <1>1, <1>2, <1>3 DEF DistinctTicks
<1>6. Older(C, v) = {}
  BY <1>2, <1>3 DEF Older
<1>7. TotalBytes({}) = 0
  <2>1. Content({}) = {}
    BY DEF Content
  <2>2. QED
    BY <2>1, FS_EmptySet DEF TotalBytes
<1>8. SatSub(C.curBytes, TotalBytes(Older(C, v))) = C.curBytes
  BY <1>2, <1>6, <1>7 DEF SatSub
<1>9. v \in Victims(C, len)
  BY <1>1, <1>3, <1>8 DEF Victims
<1>10. QED
  BY <1>3, <1>4, <1>5, <1>9 DEF Older, LeastRecent

\* What evict_one leaves: a sound cache without the victim, with one more
\* eviction counted.
LEMMA EvictOneParts ==
    ASSUME NEW C, Sound(C), NEW v \in Held(C), NEW D,
           D = DropVictim(C, v)
    PROVE  /\ Sound(D)
           /\ D = MkCache(Without(C.entries, {v}), C.tombs, C.curBytes - Size[v],
                          C.tick, C.hits, C.misses, C.expirations, C.evictions + 1,
                          C.negativeHits)
           /\ Held(D) = Held(C) \ {v}
           /\ \A w \in Held(C) \ {v} : D.entries[w] = C.entries[w]
           /\ D.curBytes = C.curBytes - Size[v] /\ D.curBytes \in Nat
<1> DEFINE E == DropEntries(C, {v})
<1>1. IsCache(C) /\ C.evictions \in Nat /\ v \in Cids
  BY CacheParts DEF Sound
<1>2. {v} \cap Held(C) = {v} /\ TotalBytes({v}) = Size[v]
  BY <1>1, BytesOfOne
<1>3. Sound(E) /\ E.curBytes = C.curBytes - Size[v]
  BY <1>2, DropSound
<1>4. /\ E = MkCache(Without(C.entries, {v}), C.tombs, E.curBytes,
                     C.tick, C.hits, C.misses, C.expirations, C.evictions,
                     C.negativeHits)
      /\ Held(E) = Held(C) \ {v}
      /\ \A w \in Held(C) \ {v} : E.entries[w] = C.entries[w]
  <2> DEFINE b == SatSub(C.curBytes, TotalBytes({v} \cap Held(C)))
  <2>1. /\ E = MkCache(Without(C.entries, {v}), C.tombs, b,
                       C.tick, C.hits, C.misses, C.expirations, C.evictions,
                       C.negativeHits)
        /\ Held(E) = Held(C) \ {v}
        /\ \A w \in Held(C) \ {v} : E.entries[w] = C.entries[w]
    BY <1>1, DropFields
  <2> HIDE DEF b, E
  <2>2. E.curBytes = b
    BY <2>1 DEF MkCache
  <2>3. QED
    BY <2>1, <2>2
<1> DEFINE e == Without(C.entries, {v})
<1> HIDE DEF E, e
<1>5. /\ E.entries = e /\ E.tombs = C.tombs /\ E.tick = C.tick
  BY <1>4 DEF MkCache, e
<1>6. D = MkCache(Without(C.entries, {v}), C.tombs, E.curBytes,
                  C.tick, C.hits, C.misses, C.expirations, C.evictions + 1,
                  C.negativeHits)
  BY <1>4 DEF MkCache, E, DropVictim
<1> DEFINE x == C.evictions + 1
           b == E.curBytes
<1> HIDE DEF x, b
<1>7. D = MkCache(e, C.tombs, b, C.tick, C.hits, C.misses, C.expirations, x,
                   C.negativeHits)
  BY <1>6 DEF e, x, b
<1>8. /\ D.entries = e /\ D.tombs = C.tombs /\ D.curBytes = b
      /\ D.tick = C.tick
  <2> DEFINE M == MkCache(e, C.tombs, b, C.tick, C.hits, C.misses, C.expirations, x,
                          C.negativeHits)
  <2>1. M.entries = e /\ M.tombs = C.tombs /\ M.curBytes = b /\ M.tick = C.tick
    BY DEF MkCache
  <2> HIDE DEF M
  <2>2. D = M
    BY <1>7 DEF M
  <2>3. QED
    BY <2>1, <2>2
<1>9. /\ D.entries = E.entries /\ D.tombs = E.tombs /\ D.curBytes = E.curBytes
      /\ D.tick = E.tick
  BY <1>5, <1>8 DEF b
<1>10. IsCache(E) /\ E.curBytes \in Nat
  BY <1>3, CacheParts DEF Sound
<1>11. IsCache(D)
  <2>1. /\ DOMAIN e \subseteq Cids /\ e \in [DOMAIN e -> Entry]
        /\ DOMAIN C.tombs \subseteq Cids /\ C.tombs \in [DOMAIN C.tombs -> U64]
    BY <1>5, <1>10, CacheParts DEF Held, Tombstoned
  <2>2. /\ x \in Nat /\ b \in Nat /\ C.tick \in Nat /\ C.hits \in Nat
        /\ C.misses \in Nat /\ C.expirations \in Nat /\ C.negativeHits \in Nat
    BY <1>1, <1>10, CacheParts DEF x, b
  <2>3. IsCache(MkCache(e, C.tombs, b, C.tick, C.hits, C.misses, C.expirations, x,
                        C.negativeHits))
    BY <2>1, <2>2, MkIsCache
  <2>4. QED
    BY <1>7, <2>3
<1>12. Sound(D)
  <2>1. Held(D) = Held(E) /\ Tombstoned(D) = Tombstoned(E)
    BY <1>9 DEF Held, Tombstoned
  <2>2. DistinctTicks(D)
    BY <1>3, <1>9, <2>1 DEF Sound, DistinctTicks
  <2>3. QED
    BY <1>3, <1>9, <1>11, <2>1, <2>2 DEF Sound
<1>13. QED
  BY <1>3, <1>4, <1>6, <1>9, <1>10, <1>12 DEF Held

\* The closed form, field by field.
LEMMA EvictFields ==
    ASSUME NEW C, Sound(C), NEW len \in Nat, NEW V, V = Victims(C, len)
    PROVE  EvictToFit(C, len)
             = MkCache(Without(C.entries, V), C.tombs, C.curBytes - TotalBytes(V),
                       C.tick, C.hits, C.misses, C.expirations,
                       C.evictions + Cardinality(V), C.negativeHits)
<1> DEFINE D == DropEntries(C, V)
           b == C.curBytes - TotalBytes(V)
           s == SatSub(C.curBytes, TotalBytes(V))
<1>1. IsCache(C) /\ C.curBytes = TotalBytes(Held(C)) /\ V \in SUBSET Held(C)
      /\ V \cap Held(C) = V /\ Held(C) \in SUBSET Cids
  BY CacheParts DEF Sound, Victims
<1>2. s = b
  <2>1. /\ TotalBytes(V) <= TotalBytes(Held(C)) /\ TotalBytes(V) \in Nat
        /\ TotalBytes(Held(C)) \in Nat
    BY <1>1, BytesDifference, BytesFinite
  <2>2. QED
    BY <1>1, <2>1 DEF SatSub
<1>3. D = MkCache(Without(C.entries, V), C.tombs, s, C.tick, C.hits, C.misses,
                  C.expirations, C.evictions, C.negativeHits)
  BY <1>1, DropFields
<1> HIDE DEF b, s
<1>4. EvictToFit(C, len) = [D EXCEPT !.evictions = @ + Cardinality(V)]
  BY DEF EvictToFit
<1> HIDE DEF D
<1>5. EvictToFit(C, len)
        = MkCache(Without(C.entries, V), C.tombs, s, C.tick, C.hits, C.misses,
                  C.expirations, C.evictions + Cardinality(V), C.negativeHits)
  BY <1>3, <1>4 DEF MkCache
<1>6. QED
  BY <1>2, <1>5 DEF b

\* Within the budget, or empty, the cache has no victims.
LEMMA LoopEnd ==
    ASSUME NEW C, Sound(C), NEW len \in Nat, ~Evicts(C, len)
    PROVE  EvictToFit(C, len) = C
<1> DEFINE V == Victims(C, len)
<1>1. IsCache(C) /\ C.curBytes \in Nat /\ MaxBytes \in Nat /\ C.evictions \in Nat
  BY CacheParts, CacheAssumption DEF Sound, U64
<1>2. V = {}
  <2> SUFFICES ASSUME NEW v \in V PROVE FALSE
    OBVIOUS
  <2>1. /\ v \in Held(C) /\ Older(C, v) \in SUBSET Cids
        /\ SatSub(C.curBytes, TotalBytes(Older(C, v))) + len > MaxBytes
    BY <1>1, CacheParts DEF Victims, Older
  <2>2. TotalBytes(Older(C, v)) \in Nat
    BY <2>1, BytesFinite
  <2>3. C.curBytes + len > MaxBytes
    BY <1>1, <2>1, <2>2 DEF SatSub
  <2>4. QED
    BY <2>1, <2>3 DEF Evicts
<1>3. EvictToFit(C, len)
        = MkCache(Without(C.entries, {}), C.tombs, C.curBytes - TotalBytes({}),
                  C.tick, C.hits, C.misses, C.expirations,
                  C.evictions + Cardinality({}), C.negativeHits)
  BY <1>2, EvictFields
<1>4. Without(C.entries, {}) = C.entries
  <2>1. C.entries \in [Held(C) -> Entry]
    BY <1>1, CacheParts
  <2>2. QED
    BY <2>1 DEF Without, Held
<1>5. TotalBytes({}) = 0 /\ Cardinality({}) = 0
  <2>1. Content({}) = {}
    BY DEF Content
  <2>2. QED
    BY <2>1, FS_EmptySet DEF TotalBytes
<1>6. C.curBytes - TotalBytes({}) = C.curBytes /\ C.evictions + Cardinality({}) = C.evictions
  BY <1>1, <1>5
<1>7. C = MkCache(C.entries, C.tombs, C.curBytes, C.tick, C.hits, C.misses,
                  C.expirations, C.evictions, C.negativeHits)
  BY <1>1, CacheParts
<1>8. QED
  BY <1>3, <1>4, <1>6, <1>7

\* Once the least recently used entry is gone, the victims are the others.
LEMMA OtherVictims ==
    ASSUME NEW C, Sound(C), NEW len \in Nat, NEW v \in Held(C), LeastRecent(C, v),
           NEW D, Held(D) = Held(C) \ {v},
           \A w \in Held(C) \ {v} : D.entries[w] = C.entries[w],
           D.curBytes = C.curBytes - Size[v], D.curBytes \in Nat
    PROVE  Victims(D, len) = Victims(C, len) \ {v}
<1>1. v \in Cids
  BY CacheParts DEF Sound
<1>2. C.curBytes \in Nat /\ Size[v] \in Nat /\ Held(C) \in SUBSET Cids
  BY <1>1, CacheParts, CacheAssumption DEF Sound, U64
<1>3. ASSUME NEW w \in Held(C) \ {v}
      PROVE  SatSub(D.curBytes, TotalBytes(Older(D, w)))
               = SatSub(C.curBytes, TotalBytes(Older(C, w)))
  <2>1. Older(D, w) = Older(C, w) \ {v} /\ v \in Older(C, w) /\ Older(C, w) \in SUBSET Cids
    BY <1>2 DEF Older, LeastRecent
  <2> DEFINE p == TotalBytes(Older(C, w))
             q == TotalBytes(Older(D, w))
             a == C.curBytes
             z == Size[v]
  <2>2. q = p - z /\ z <= p
    <3>1. {v} \in SUBSET Older(C, w)
      BY <2>1
    <3>2. /\ TotalBytes(Older(C, w) \ {v}) = TotalBytes(Older(C, w)) - TotalBytes({v})
          /\ TotalBytes({v}) <= TotalBytes(Older(C, w))
      BY <2>1, <3>1, BytesDifference
    <3>3. QED
      BY <1>1, <2>1, <3>2, BytesOfOne
  <2>3. p \in Nat /\ a \in Nat /\ z \in Nat /\ a - z \in Nat /\ D.curBytes = a - z
    BY <1>2, <2>1, BytesFinite
  <2> HIDE DEF p, q, a, z
  <2>4. SatSub(a - z, q) = SatSub(a, p)
    BY <2>2, <2>3 DEF SatSub
  <2>5. QED
    BY <2>3, <2>4 DEF p, q, a
<1>4. Victims(D, len)
        = {w \in Held(C) \ {v} : SatSub(C.curBytes, TotalBytes(Older(C, w))) + len > MaxBytes}
  BY <1>3 DEF Victims
<1>5. QED
  BY <1>4 DEF Victims

\* A turn of the eviction loop takes one entry, and what the closed form
\* evicts from there on is what it would have evicted before.
THEOREM LoopTurn ==
    ASSUME NEW C, Sound(C), NEW len \in Nat, Evicts(C, len)
    PROVE  /\ Sound(EvictOne(C))
           /\ EvictToFit(EvictOne(C), len) = EvictToFit(C, len)
           /\ Cardinality(Held(EvictOne(C))) = Cardinality(Held(C)) - 1
<1>1. PICK v \in Held(C) :
         /\ EvictOne(C) = DropVictim(C, v)
         /\ v \in Victims(C, len)
         /\ LeastRecent(C, v)
  BY FirstVictim
<1> DEFINE D == EvictOne(C)
           V == Victims(C, len)
           W == Victims(D, len)
<1>2. D = DropVictim(C, v)
  BY <1>1
<1> HIDE DEF D
<1>3. /\ Sound(D) /\ Held(D) = Held(C) \ {v}
      /\ D = MkCache(Without(C.entries, {v}), C.tombs, C.curBytes - Size[v],
                     C.tick, C.hits, C.misses, C.expirations, C.evictions + 1,
                     C.negativeHits)
  BY <1>2, EvictOneParts
<1>4. /\ D.entries = Without(C.entries, {v}) /\ D.tombs = C.tombs
      /\ D.curBytes = C.curBytes - Size[v] /\ D.tick = C.tick /\ D.hits = C.hits
      /\ D.misses = C.misses /\ D.expirations = C.expirations
      /\ D.evictions = C.evictions + 1 /\ D.negativeHits = C.negativeHits
  <2> DEFINE e == Without(C.entries, {v})
             b == C.curBytes - Size[v]
             x == C.evictions + 1
  <2> HIDE DEF e, b, x
  <2>1. D = MkCache(e, C.tombs, b, C.tick, C.hits, C.misses, C.expirations, x,
                    C.negativeHits)
    BY <1>3 DEF e, b, x
  <2>2. /\ D.entries = e /\ D.tombs = C.tombs /\ D.curBytes = b /\ D.tick = C.tick
        /\ D.hits = C.hits /\ D.misses = C.misses /\ D.expirations = C.expirations
        /\ D.evictions = x /\ D.negativeHits = C.negativeHits
    BY <2>1 DEF MkCache
  <2>3. QED
    BY <2>2 DEF e, b, x
<1>5. W = V \ {v}
  <2>1. D.curBytes \in Nat
    BY <1>3, CacheParts DEF Sound
  <2>2. /\ Held(D) = Held(C) \ {v} /\ D.curBytes = C.curBytes - Size[v]
        /\ \A w \in Held(C) \ {v} : D.entries[w] = C.entries[w]
    BY <1>3, <1>4 DEF Without, Held
  <2>3. QED
    BY <1>1, <2>1, <2>2, OtherVictims
<1>6. /\ V \in SUBSET Held(C) /\ Held(C) \in SUBSET Cids /\ IsFiniteSet(Held(C))
      /\ C.curBytes \in Nat /\ C.evictions \in Nat
  BY CacheParts DEF Sound, Victims
<1>7. /\ IsFiniteSet(V) /\ Cardinality(V) \in Nat /\ V \in SUBSET Cids /\ v \in V
      /\ Cardinality(Held(C)) \in Nat
  BY <1>1, <1>6, FS_Subset, FS_CardinalityType
<1> HIDE DEF V, W
<1>8. Cardinality(W) = Cardinality(V) - 1
  BY <1>5, <1>7, FS_RemoveElement
<1>9. Cardinality(Held(D)) = Cardinality(Held(C)) - 1
  BY <1>3, <1>6, FS_RemoveElement
<1>10. TotalBytes(W) = TotalBytes(V) - Size[v] /\ TotalBytes(V) \in Nat /\ Size[v] \in Nat
  <2>1. {v} \in SUBSET V /\ v \in Cids
    BY <1>7
  <2>2. TotalBytes(V \ {v}) = TotalBytes(V) - TotalBytes({v})
    BY <1>7, <2>1, BytesDifference
  <2>3. QED
    BY <1>5, <1>7, <2>1, <2>2, BytesOfOne, BytesFinite, CacheAssumption DEF U64
<1>11. Without(D.entries, W) = Without(C.entries, V)
  <2>1. DOMAIN D.entries = Held(C) \ {v} /\ \A w \in Held(C) \ {v} : D.entries[w] = C.entries[w]
    BY <1>4 DEF Without, Held
  <2>2. (Held(C) \ {v}) \ W = Held(C) \ V
    BY <1>5, <1>7
  <2>3. Without(D.entries, W) = [w \in Held(C) \ V |-> D.entries[w]]
    BY <2>1, <2>2 DEF Without
  <2>4. Without(C.entries, V) = [w \in Held(C) \ V |-> C.entries[w]]
    BY DEF Without, Held
  <2>5. \A w \in Held(C) \ V : D.entries[w] = C.entries[w]
    BY <1>7, <2>1
  <2>6. QED
    BY <2>3, <2>4, <2>5
<1>12. /\ D.curBytes - TotalBytes(W) = C.curBytes - TotalBytes(V)
       /\ D.evictions + Cardinality(W) = C.evictions + Cardinality(V)
  BY <1>6, <1>7, <1>8, <1>10, <1>4
<1>13. EvictToFit(C, len)
         = MkCache(Without(C.entries, V), C.tombs, C.curBytes - TotalBytes(V),
                   C.tick, C.hits, C.misses, C.expirations,
                   C.evictions + Cardinality(V), C.negativeHits)
  BY EvictFields DEF V
<1>14. EvictToFit(D, len)
         = MkCache(Without(D.entries, W), D.tombs, D.curBytes - TotalBytes(W),
                   D.tick, D.hits, D.misses, D.expirations,
                   D.evictions + Cardinality(W), D.negativeHits)
  BY <1>3, EvictFields DEF W
<1>15. EvictToFit(D, len) = EvictToFit(C, len)
  BY <1>4, <1>11, <1>12, <1>13, <1>14
<1>16. QED
  BY <1>3, <1>9, <1>15 DEF D

\* A set that has 0 and with every number its successor has all of them.
LEMMA CountUp ==
    ASSUME NEW n \in Nat, NEW S, 0 \in S, \A i \in 0 .. n - 1 : i \in S => i + 1 \in S
    PROVE  \A i \in 0 .. n : i \in S
<1> SUFFICES ASSUME NEW k \in 0 .. n, k \notin S PROVE FALSE
  OBVIOUS
<1> DEFINE N == {i \in 0 .. n : i \notin S}
<1>1. N \subseteq Nat /\ N # {}
  OBVIOUS
<1>2. PICK x \in N : \A y \in N : ~(<<y, x>> \in OpToRel(<, Nat))
  BY <1>1, NatLessThanWellFounded, WFMin
<1>3. \A y \in N : ~(y < x)
  BY <1>1, <1>2 DEF OpToRel
<1>4. x \in 0 .. n /\ x \notin S /\ x # 0
  OBVIOUS
<1>5. x - 1 \in 0 .. n - 1 /\ x - 1 \in 0 .. n /\ x - 1 < x /\ (x - 1) + 1 = x
  BY <1>4
<1>6. x - 1 \in S
  BY <1>3, <1>5
<1>7. QED
  BY <1>4, <1>5, <1>6

\* the cache after one more turn of the loop, if there is one to take
Turn(C, len) == IF Evicts(C, len) THEN EvictOne(C) ELSE C

\* f is the loop, started with C, after 0 to k turns
Records(f, k, C, len) ==
    f = [i \in 0 .. k |-> IF i = 0 THEN C ELSE Turn(f[i - 1], len)]

\* The recursion of EvictLoop defines a function.
LEMMA LoopDefined ==
    ASSUME NEW C, NEW len, NEW n \in Nat
    PROVE  \E f : Records(f, n, C, len)
<1> DEFINE S == {k \in 0 .. n : \E f : Records(f, k, C, len)}
<1>1. 0 \in S
  <2>1. Records([i \in 0 .. 0 |-> C], 0, C, len)
    BY DEF Records
  <2>2. QED
    BY <2>1
<1>2. ASSUME NEW k \in 0 .. n - 1, k \in S PROVE k + 1 \in S
  <2>1. PICK f : Records(f, k, C, len)
    BY <1>2
  <2> DEFINE g == [i \in 0 .. k + 1 |-> IF i = k + 1 THEN Turn(f[k], len) ELSE f[i]]
  <2>2. \A i \in 0 .. k : f[i] = IF i = 0 THEN C ELSE Turn(f[i - 1], len)
    <3> DEFINE h == [i \in 0 .. k |-> IF i = 0 THEN C ELSE Turn(f[i - 1], len)]
    <3>1. f = h
      BY <2>1 DEF Records
    <3>2. \A i \in 0 .. k : h[i] = IF i = 0 THEN C ELSE Turn(f[i - 1], len)
      OBVIOUS
    <3> HIDE DEF h
    <3>3. QED
      BY <3>1, <3>2
  <2>3. ASSUME NEW i \in 0 .. k + 1
        PROVE  g[i] = IF i = 0 THEN C ELSE Turn(g[i - 1], len)
    <3>1. CASE i = k + 1
      <4>1. i # 0 /\ i - 1 = k /\ k \in 0 .. k + 1 /\ k # k + 1
        BY <3>1
      <4>2. g[i] = Turn(f[k], len) /\ g[k] = f[k]
        BY <3>1, <4>1
      <4>3. QED
        BY <4>1, <4>2
    <3>2. CASE i \in 0 .. k
      <4>1. i # k + 1 /\ (i # 0 => i - 1 \in 0 .. k + 1 /\ i - 1 # k + 1)
        BY <3>2
      <4>2. g[i] = f[i] /\ (i # 0 => g[i - 1] = f[i - 1])
        BY <4>1
      <4> HIDE DEF g
      <4>3. QED
        BY <2>2, <3>2, <4>2
    <3>3. QED
      BY <3>1, <3>2
  <2>4. Records(g, k + 1, C, len)
    <3>1. g = [i \in 0 .. k + 1 |-> g[i]]
      OBVIOUS
    <3> HIDE DEF g
    <3>2. QED
      BY <2>3, <3>1 DEF Records
  <2> HIDE DEF g
  <2>5. k + 1 \in 0 .. n
    OBVIOUS
  <2>6. QED
    BY <2>4, <2>5
<1> HIDE DEF S
<1>3. n \in S
  BY <1>1, <1>2, CountUp
<1>4. QED
  BY <1>3 DEF S

\* The loop ends, within a turn per entry, in what EvictToFit computes.
THEOREM LoopRuns ==
    ASSUME NEW C, Sound(C), NEW len \in Nat
    PROVE  /\ EvictLoop(C, len) = EvictToFit(C, len)
           /\ ~Evicts(EvictLoop(C, len), len)
<1> DEFINE n == Cardinality(Held(C))
           L == CHOOSE f : Records(f, n, C, len)
<1>1. n \in Nat
  BY CacheParts, FS_CardinalityType DEF Sound
<1>2. EvictLoop(C, len) = L[n]
  BY DEF EvictLoop, Records, Turn
<1> HIDE DEF n
<1>3. Records(L, n, C, len)
  BY <1>1, LoopDefined
<1> HIDE DEF L
<1>4. L[0] = C /\ \A i \in 0 .. n - 1 : L[i + 1] = Turn(L[i], len)
  <2> DEFINE h == [i \in 0 .. n |-> IF i = 0 THEN C ELSE Turn(L[i - 1], len)]
  <2>1. L = h
    BY <1>3 DEF Records
  <2>2. h[0] = C
    BY <1>1
  <2>3. ASSUME NEW i \in 0 .. n - 1 PROVE h[i + 1] = Turn(L[i], len)
    <3>1. i + 1 \in 0 .. n /\ i + 1 # 0 /\ (i + 1) - 1 = i
      BY <1>1
    <3>2. QED
      BY <3>1
  <2> HIDE DEF h
  <2>4. QED
    BY <2>1, <2>2, <2>3
<1> DEFINE Good(i) == /\ Sound(L[i]) /\ EvictToFit(L[i], len) = EvictToFit(C, len)
                      /\ Evicts(L[i], len) => Cardinality(Held(L[i])) = n - i
           S == {i \in 0 .. n : Good(i)}
<1>5. 0 \in S
  BY <1>1, <1>4 DEF n
<1>6. ASSUME NEW i \in 0 .. n - 1, i \in S PROVE i + 1 \in S
  <2>1. Good(i) /\ i + 1 \in 0 .. n /\ (n - i) - 1 = n - (i + 1)
    BY <1>1, <1>6
  <2>2. CASE Evicts(L[i], len)
    <3>1. L[i + 1] = EvictOne(L[i])
      BY <1>4, <2>2 DEF Turn
    <3>2. /\ Sound(EvictOne(L[i]))
          /\ EvictToFit(EvictOne(L[i]), len) = EvictToFit(L[i], len)
          /\ Cardinality(Held(EvictOne(L[i]))) = Cardinality(Held(L[i])) - 1
      BY <2>1, <2>2, LoopTurn
    <3>3. QED
      BY <2>1, <2>2, <3>1, <3>2
  <2>3. CASE ~Evicts(L[i], len)
    <3>1. L[i + 1] = L[i]
      BY <1>4, <2>3 DEF Turn
    <3>2. QED
      BY <2>1, <2>3, <3>1
  <2>4. QED
    BY <2>2, <2>3
<1>7. Good(n)
  <2> HIDE DEF Good
  <2>1. n \in S
    <3> HIDE DEF S
    <3>1. QED
      BY <1>1, <1>5, <1>6, CountUp
  <2>2. QED
    BY <2>1
<1>8. ~Evicts(L[n], len)
  <2> SUFFICES ASSUME Evicts(L[n], len) PROVE FALSE
    OBVIOUS
  <2>1. Cardinality(Held(L[n])) = 0
    BY <1>1, <1>7
  <2>2. IsFiniteSet(Held(L[n]))
    BY <1>7, CacheParts DEF Sound
  <2>3. Held(L[n]) = {}
    BY <2>1, <2>2, FS_EmptySet
  <2>4. QED
    BY <2>3 DEF Evicts
<1>9. EvictToFit(L[n], len) = L[n]
  BY <1>7, <1>8, LoopEnd
<1>10. QED
  BY <1>2, <1>7, <1>8, <1>9
-----------------------------------------------------------------------------
(* Recency: what a get and an insert do to the order of the entries.       *)

\* A fresh get makes its entry the most recent one and leaves the others
\* alone; any other get leaves all that stays as it was.
LEMMA GetTicks ==
    ASSUME NEW C, Sound(C), NEW c \in Cids, NEW now \in U64, NEW G,
           G = Get(C, c, now)
    PROVE  /\ ContainsFresh(C, c, now) =>
                 /\ c \in Held(C) /\ Held(G) = Held(C)
                 /\ G.entries[c].tick = C.tick + 1
                 /\ \A d \in Held(C) \ {c} : G.entries[d].tick = C.entries[d].tick
           /\ ~ContainsFresh(C, c, now) =>
                 /\ Held(G) \in SUBSET Held(C)
                 /\ \A d \in Held(G) : G.entries[d].tick = C.entries[d].tick
<1> DEFINE T == [C EXCEPT !.tick = @ + 1]
<1>1. /\ C = MkCache(C.entries, C.tombs, C.curBytes, C.tick, C.hits, C.misses,
                     C.expirations, C.evictions, C.negativeHits)
      /\ C.entries \in [Held(C) -> Entry]
  BY CacheParts DEF Sound
<1>2. T = MkCache(C.entries, C.tombs, C.curBytes, C.tick + 1, C.hits, C.misses,
                  C.expirations, C.evictions, C.negativeHits)
  BY <1>1 DEF MkCache
<1>3. CASE ContainsFresh(C, c, now)
  <2> DEFINE e == [T.entries EXCEPT ![c].tick = T.tick]
  <2>1. G = [T EXCEPT !.entries = e, !.hits = @ + 1]
    BY <1>3 DEF Get
  <2>2. c \in Held(C)
    BY <1>3 DEF ContainsFresh
  <2>3. T.entries = C.entries /\ T.tick = C.tick + 1
    BY <1>2 DEF MkCache
  <2>4. /\ DOMAIN e = Held(C) /\ e[c].tick = C.tick + 1
        /\ \A d \in Held(C) \ {c} : e[d].tick = C.entries[d].tick
    BY <1>1, <2>2, <2>3 DEF Held, Entry
  <2> HIDE DEF e
  <2>5. G.entries = e
    BY <1>2, <2>1 DEF MkCache
  <2>6. QED
    BY <1>3, <2>2, <2>4, <2>5 DEF Held
<1>4. CASE ~ContainsFresh(C, c, now) /\ c \in Held(C)
  <2> DEFINE D == DropEntries(T, {c})
  <2>1. G = [D EXCEPT !.expirations = @ + 1, !.misses = @ + 1]
    BY <1>4 DEF Get
  <2>2. D = [T EXCEPT !.entries = Without(T.entries, {c}),
                      !.curBytes = SatSub(T.curBytes, TotalBytes({c} \cap Held(T)))]
    BY DEF DropEntries
  <2>3. T.entries = C.entries
    BY <1>2 DEF MkCache
  <2> HIDE DEF D
  <2>4. G.entries = Without(C.entries, {c})
    BY <1>2, <2>1, <2>2, <2>3 DEF MkCache
  <2>5. /\ Held(G) = Held(C) \ {c}
        /\ \A d \in Held(C) \ {c} : G.entries[d] = C.entries[d]
    BY <1>1, <2>4 DEF Held, Without
  <2>6. QED
    BY <1>4, <2>5
<1>5. CASE c \notin Held(C)
  <2>1. G = [T EXCEPT !.misses = @ + 1]
    BY <1>5 DEF Get, ContainsFresh
  <2>2. G.entries = C.entries
    BY <1>2, <2>1 DEF MkCache
  <2>3. ~ContainsFresh(C, c, now)
    BY <1>5 DEF ContainsFresh
  <2>4. QED
    BY <2>2, <2>3 DEF Held
<1>6. QED
  BY <1>3, <1>4, <1>5

\* D is C without c, and F what is left of D, with c after it
Leaves(C, c, F, D) ==
    /\ Sound(D) /\ Held(D) = Held(C) \ {c}
    /\ \A d \in Held(D) : D.entries[d] = C.entries[d]
    /\ Held(F) = (Held(D) \ Victims(D, Size[c])) \cup {c}
    /\ F.entries[c].tick = C.tick + 1

\* An insert keeps the entries that need not go, and puts its own after them.
LEMMA InsertLeaves ==
    ASSUME NEW C, Sound(C), NEW c \in Cids, NEW ttl \in U64, NEW now \in U64,
           Cacheable(c), NEW F, F = InsertWithTtl(C, c, ttl, now)
    PROVE  \E D : Leaves(C, c, F, D)
<1> DEFINE D == DropEntries(C, {c})
           R == EvictToFit(D, Size[c])
           new == [inserted |-> now, expires |-> ExpiresAt(now, ttl),
                   tick |-> R.tick + 1]
           e == With(R.entries, c, new)
           t == Without(R.tombs, {c})
           V == Victims(D, Size[c])
<1>1. IsCache(C)
  BY DEF Sound
<1>2. /\ D = MkCache(Without(C.entries, {c}), C.tombs,
                     SatSub(C.curBytes, TotalBytes({c} \cap Held(C))),
                     C.tick, C.hits, C.misses, C.expirations, C.evictions,
                     C.negativeHits)
      /\ Held(D) = Held(C) \ {c}
      /\ \A d \in Held(C) \ {c} : D.entries[d] = C.entries[d]
  BY <1>1, DropFields
<1>3. Sound(D) /\ D.tick = C.tick
  BY <1>2, DropSound DEF MkCache
<1> HIDE DEF D
<1>4. Size[c] \in Nat /\ Size[c] <= MaxBytes
  BY CacheAssumption DEF Cacheable, U64
<1>5. Sound(R) /\ R.tick = D.tick /\ Held(R) = Held(D) \ V
  BY <1>3, <1>4, EvictSound, EvictCounts
<1>6. F = [R EXCEPT !.tombs = t, !.tick = R.tick + 1,
                    !.curBytes = R.curBytes + Size[c], !.entries = e]
  BY DEF InsertWithTtl, D
<1> HIDE DEF R
<1>7. e[c] = new /\ DOMAIN e = Held(R) \cup {c} /\ new.tick = R.tick + 1
  BY DEF With, Held
<1> HIDE DEF V, e, t, new
<1>8. R = MkCache(R.entries, R.tombs, R.curBytes, R.tick, R.hits, R.misses,
                  R.expirations, R.evictions, R.negativeHits)
  BY <1>5, CacheParts DEF Sound
<1>9. F.entries = e
  BY <1>6, <1>8 DEF MkCache
<1>10. QED
  <2>1. Leaves(C, c, F, D)
    BY <1>2, <1>3, <1>5, <1>7, <1>9 DEF Held, V, Leaves
  <2>2. QED
    BY <2>1

\* What stays when room is made for len bytes is the longest most recent part
\* of the entries that leaves that room.
LEMMA SurvivorsAreLatest ==
    ASSUME NEW C, Sound(C), NEW len \in Nat, len <= MaxBytes, NEW S,
           S = Held(C) \ Victims(C, len)
    PROVE  /\ \A x \in S, y \in Held(C) \ S : C.entries[y].tick < C.entries[x].tick
           /\ TotalBytes(S) + len <= MaxBytes
           /\ \A T \in SUBSET Held(C) :
                 /\ \A x \in T, y \in Held(C) \ T : C.entries[y].tick < C.entries[x].tick
                 /\ TotalBytes(T) + len <= MaxBytes
                 => T \subseteq S
<1> DEFINE V == Victims(C, len)
<1>1. /\ IsCache(C) /\ C.curBytes = TotalBytes(Held(C)) /\ Held(C) \in SUBSET Cids
      /\ V \in SUBSET Held(C) /\ MaxBytes \in Nat
      /\ \A d \in Held(C) : C.entries[d].tick \in Nat
  BY CacheParts, CacheAssumption DEF Sound, Victims, U64, Entry
<1>2. \A x \in S, y \in Held(C) \ S : C.entries[y].tick < C.entries[x].tick
  <2> SUFFICES ASSUME NEW x \in S, NEW y \in Held(C) \ S
               PROVE  C.entries[y].tick < C.entries[x].tick
    OBVIOUS
  <2>1. V # Held(C) /\ x \notin V /\ y \in V
    OBVIOUS
  <2>2. PICK v \in Held(C) \ V : V = Older(C, v)
    BY <2>1, VictimsArePrefix
  <2> HIDE DEF V
  <2>3. C.entries[y].tick < C.entries[v].tick /\ ~(C.entries[x].tick < C.entries[v].tick)
    BY <2>1, <2>2 DEF Older
  <2>4. QED
    BY <1>1, <2>3
<1>3. TotalBytes(S) + len <= MaxBytes
  <2> DEFINE E == EvictToFit(C, len)
  <2>1. Sound(E) /\ E.curBytes + len <= MaxBytes /\ Held(E) = S
    BY EvictSound, EvictCounts
  <2>2. E.curBytes = TotalBytes(S)
    BY <2>1 DEF Sound
  <2>3. QED
    BY <2>1, <2>2
<1>4. ASSUME NEW T \in SUBSET Held(C),
             \A x \in T, y \in Held(C) \ T : C.entries[y].tick < C.entries[x].tick,
             TotalBytes(T) + len <= MaxBytes, NEW y \in T, y \notin S
      PROVE  FALSE
  <2> DEFINE O == Older(C, y)
  <2>1. y \in Held(C) /\ SatSub(C.curBytes, TotalBytes(O)) + len > MaxBytes
    BY <1>4 DEF Victims
  <2>2. O \in SUBSET Held(C) /\ Held(C) \ O \in SUBSET T
    <3> SUFFICES ASSUME NEW z \in Held(C) \ O PROVE z \in T
      BY DEF Older
    <3>1. ~(C.entries[z].tick < C.entries[y].tick)
      BY DEF Older
    <3>2. QED
      BY <1>4, <3>1
  <2> HIDE DEF O
  <2>3. /\ TotalBytes(Held(C) \ O) = TotalBytes(Held(C)) - TotalBytes(O)
        /\ TotalBytes(O) <= TotalBytes(Held(C))
    BY <1>1, <2>2, BytesDifference
  <2>4. TotalBytes(Held(C) \ O) <= TotalBytes(T)
    BY <1>1, <2>2, BytesDifference
  <2>5. TotalBytes(Held(C)) \in Nat /\ TotalBytes(O) \in Nat /\ TotalBytes(T) \in Nat
    BY <1>1, <2>2, BytesFinite
  <2>6. SatSub(C.curBytes, TotalBytes(O)) = TotalBytes(Held(C) \ O)
    BY <1>1, <2>3, <2>5 DEF SatSub
  <2>7. QED
    BY <1>1, <1>4, <2>1, <2>3, <2>4, <2>5, <2>6
<1>5. QED
  BY <1>2, <1>3, <1>4
=============================================================================
