--------------------------- MODULE MeshHostProofs ---------------------------
(***************************************************************************)
(* The mesh loop, for any requests, capabilities and revocations, every    *)
(* size, TTL and budget, any capacity of the seen tokens and any period of *)
(* the refresh.                                                            *)
(*                                                                         *)
(* Why the invariant is stronger than the properties.  A purge holds       *)
(* because a redelivered request is handled again only once its token was  *)
(* pushed out of the seen tokens: they must be the tail of the tokens      *)
(* handled (Window).  A revocation takes hold because the turns begun      *)
(* since it was announced are bounded by the position of the turn counter  *)
(* between two refreshes (NotLate), also where the counter wraps.  The     *)
(* entries outlive the last sweep because it was not in the future.        *)
(***************************************************************************)
EXTENDS MeshHost, CacheOpsProofs

\* the tokens handled, in order
Handled == [i \in 1 .. Len(handled) |-> handled[i].token]

\* turns of the loop begun since the last refresh was due, as the counter has
\* it when it stands at t
Phase(t) == IF t = 0 THEN RefreshEvery - 1 ELSE (t - 1) % RefreshEvery

NotLate ==
    \A k \in Caps :
        /\ k \notin announced => late[k] = 0
        /\ k \in announced \ revoked => late[k] <= Phase(tick)

LoopOK ==
    /\ revoked \subseteq announced /\ announced \subseteq Caps
    /\ tick \in 0 .. TickWrap - 1
    /\ pc \in {"top", "messages"}
    /\ clock \in 1 .. MaxClock
    /\ late \in [Caps -> 0 .. RefreshEvery]
    /\ swept \in 0 .. clock

IInv ==
    /\ LoopOK
    /\ Sound(cache)
    /\ handled \in Seq(Outcomes)
    /\ Window(seen, Handled, Tokens, SeenCap)
    /\ NotLate
    /\ SweptMeansFresh
    /\ PurgeHolds
    /\ RevocationTakesHold

-----------------------------------------------------------------------------
(* The constants, and the operators of the loop.                           *)

LEMMA ConstantFacts ==
    /\ SeenCap \in Nat \ {0} /\ RefreshEvery \in Nat \ {0} /\ TickWrap \in Nat \ {0}
    /\ \A t \in Tokens : /\ RequestOf[t] \in Request
                         /\ RequestOf[t].cid \in Cids /\ RequestOf[t].ttl \in U64
                         /\ RequestOf[t].part \in U64
    /\ \A c \in Cids : Size[c] \in U64
    /\ 0 \in U64 /\ DefaultTtl \in U64
    /\ \A n \in 1 .. MaxClock : n \in U64
BY MeshAssumption, CacheAssumption DEF Request, U64

\* The remainder is the one below the divisor.
LEMMA Remainder ==
    ASSUME NEW n \in Nat \ {0}, NEW q \in Int, NEW m \in 0 .. n - 1, n * q + m >= 0
    PROVE  (n * q + m) % n = m
<1> DEFINE x == n * q + m
           p == x \div n
           k == x % n
<1>1. x \in Nat
  OBVIOUS
<1> HIDE DEF x
<1>2. x = n * p + k /\ k \in 0 .. n - 1 /\ p \in Int
  BY <1>1
<1> HIDE DEF p, k
<1>3. n * q + m = n * p + k
  BY <1>2 DEF x
<1>4. n * (q - p) = k - m
  <2>1. n * (q - p) = n * q - n * p
    BY <1>2
  <2>2. n * q \in Int /\ n * p \in Int
    BY <1>2
  <2> DEFINE a == n * q
             b == n * p
  <2> HIDE DEF a, b
  <2>3. a + m = b + k /\ a \in Int /\ b \in Int
    BY <1>3, <2>2 DEF a, b
  <2>4. a - b = k - m
    BY <1>2, <2>3
  <2>5. QED
    BY <2>1, <2>4 DEF a, b
<1>5. q - p = 0
  <2> DEFINE d == q - p
  <2>1. d \in Int /\ n * d = k - m
    BY <1>2, <1>4
  <2> HIDE DEF d
  <2>2. ~(d >= 1)
    <3> SUFFICES ASSUME d >= 1 PROVE FALSE
      OBVIOUS
    <3>1. n * d >= n
      BY <2>1
    <3>2. QED
      BY <1>2, <2>1, <3>1
  <2>3. ~(d <= -1)
    <3> SUFFICES ASSUME d <= -1 PROVE FALSE
      OBVIOUS
    <3>1. n * d <= -n
      BY <2>1
    <3>2. QED
      BY <1>2, <2>1, <3>1
  <2>4. QED
    BY <2>1, <2>2, <2>3 DEF d
<1>6. k = m
  BY <1>2, <1>4, <1>5
<1>7. QED
  BY <1>6 DEF k, x

\* The phase is a number of turns short of a full period.
LEMMA PhaseRange ==
    ASSUME NEW t \in Nat
    PROVE  Phase(t) \in 0 .. RefreshEvery - 1
<1>1. RefreshEvery \in Nat \ {0}
  BY ConstantFacts
<1>2. CASE t = 0
  BY <1>1, <1>2 DEF Phase
<1>3. CASE t # 0
  <2>1. t - 1 \in Nat
    BY <1>3
  <2>2. (t - 1) % RefreshEvery \in 0 .. RefreshEvery - 1
    BY <1>1, <2>1
  <2>3. QED
    BY <1>3, <2>2 DEF Phase
<1>4. QED
  BY <1>2, <1>3

\* A turn at which no refresh is due adds one to the phase, also where the
\* counter wraps.
LEMMA PhaseStep ==
    ASSUME NEW t \in 0 .. TickWrap - 1, t % RefreshEvery # 0
    PROVE  Phase((t + 1) % TickWrap) >= Phase(t) + 1
<1> DEFINE R == RefreshEvery
           q == t \div R
           m == t % R
<1>1. R \in Nat \ {0} /\ TickWrap \in Nat \ {0} /\ t \in Nat
  BY ConstantFacts
<1> HIDE DEF R
<1>2. t = R * q + m /\ m \in 1 .. R - 1 /\ q \in Int
  BY <1>1 DEF R
<1> HIDE DEF q, m
<1>3. t - 1 = R * q + (m - 1) /\ m - 1 \in 0 .. R - 1 /\ R * q \in Int
  BY <1>1, <1>2
<1>4. t # 0
  <2>1. 0 % R = 0
    BY <1>1
  <2>2. QED
    BY <2>1 DEF R
<1>5. (t - 1) % R = m - 1
  <2>1. t - 1 >= 0
    BY <1>1, <1>4
  <2> DEFINE s == R * q + (m - 1)
  <2>2. s % R = m - 1
    BY <1>1, <1>2, <1>3, <2>1, Remainder
  <2> HIDE DEF s
  <2>3. t - 1 = s
    BY <1>3 DEF s
  <2>4. QED
    BY <2>2, <2>3
<1>6. Phase(t) = m - 1
  BY <1>4, <1>5 DEF Phase, R
<1>7. CASE t + 1 < TickWrap
  <2>1. (t + 1) % TickWrap = t + 1
    BY <1>1, <1>7
  <2>2. Phase(t + 1) = m
    <3>1. t + 1 # 0 /\ (t + 1) - 1 = t /\ t % R = m
      BY <1>1 DEF m
    <3>2. QED
      BY <3>1 DEF Phase, R
  <2>3. QED
    BY <1>2, <1>6, <2>1, <2>2
<1>8. CASE t + 1 = TickWrap
  <2>1. (t + 1) % TickWrap = 0
    BY <1>1, <1>8
  <2>2. Phase(0) = R - 1
    BY DEF Phase, R
  <2>3. QED
    BY <1>1, <1>2, <1>6, <2>1, <2>2
<1>9. QED
  BY <1>1, <1>7, <1>8
-----------------------------------------------------------------------------
(* Entries that outlive the last sweep.                                    *)

\* every entry of C is good at second s
FreshAt(C, s) == \A c \in Held(C) : s <= C.entries[c].expires

\* An entry that comes in after the sweep is good at the sweep.
LEMMA InsertFresh ==
    ASSUME NEW C, Sound(C), NEW c \in Cids, NEW ttl \in U64, NEW now \in U64,
           NEW s \in Nat, s <= now, FreshAt(C, s), NEW F,
           F = InsertWithTtl(C, c, ttl, now)
    PROVE  FreshAt(F, s)
<1>1. CASE ~Cacheable(c)
  BY <1>1 DEF InsertWithTtl
<1>2. CASE Cacheable(c)
  <2>1. /\ F.entries[c].expires = ExpiresAt(now, ttl)
        /\ \A d \in Held(F) \ {c} : d \in Held(C) /\ F.entries[d] = C.entries[d]
    BY <1>2, InsertCounts
  <2>2. s <= ExpiresAt(now, ttl)
    <3>1. now <= ExpiresAt(now, ttl) /\ ExpiresAt(now, ttl) \in U64
      BY ExpiryNotBefore, ExpiryRange
    <3>2. QED
      BY <3>1, CacheAssumption DEF U64
  <2>3. QED
    BY <2>1, <2>2 DEF FreshAt
<1>3. QED
  BY <1>1, <1>2

\* Reads and purges leave the expiry times alone.
LEMMA GetFresh ==
    ASSUME NEW C, Sound(C), NEW c \in Cids, NEW now \in U64, NEW s, FreshAt(C, s)
    PROVE  FreshAt(Get(C, c, now), s) /\ Held(Get(C, c, now)) \subseteq Held(C)
BY GetCounts DEF FreshAt, SameTimes

LEMMA PurgeFresh ==
    ASSUME NEW C, Sound(C), NEW c \in Cids, NEW s, FreshAt(C, s)
    PROVE  FreshAt(Purge(C, c), s) /\ Held(Purge(C, c)) = Held(C) \ {c}
BY PurgeCounts DEF FreshAt

\* What a sweep leaves is good at the time of the sweep.
LEMMA SweepFresh ==
    ASSUME NEW C, Sound(C), NEW now \in U64
    PROVE  FreshAt(SweepExpired(C, now), now) /\ Held(SweepExpired(C, now)) \subseteq Held(C)
<1> DEFINE S == SweepExpired(C, now)
<1>1. /\ Held(S) = Held(C) \ {c \in Held(C) : now > C.entries[c].expires}
      /\ \A d \in Held(S) : S.entries[d] = C.entries[d]
  BY SweepCounts
<1> HIDE DEF S
<1>2. C.entries \in [Held(C) -> Entry]
  BY CacheParts DEF Sound
<1>3. ASSUME NEW d \in Held(S) PROVE now <= S.entries[d].expires
  <2>1. C.entries[d].expires \in Nat /\ now \in Nat
    BY <1>1, <1>2, CacheAssumption DEF Entry, U64
  <2>2. QED
    BY <1>1, <2>1
<1>4. QED
  BY <1>1, <1>3 DEF FreshAt, S

-----------------------------------------------------------------------------
(* Handling a request.                                                     *)

\* t is handled, recorded as o, and D is the cache afterwards: only an object
\* that o says was stored is new to the cache, a purged one is gone, and
\* everything held outlives the last sweep.
Handles(t, o, D) ==
    /\ o \in Outcomes /\ o.token = t
    /\ Sound(D) /\ FreshAt(D, swept)
    /\ \A c \in Held(D) : c \in Held(cache) \/ (o.stored /\ c = RequestOf[t].cid)
    /\ RequestOf[t].topic = "purge" /\ o.allowed => RequestOf[t].cid \notin Held(D)
    /\ o.allowed => Decide(RequestOf[t])
    /\ o.overdue = (RequestOf[t].cap \in Caps /\ late[RequestOf[t].cap] >= RefreshEvery)

\* what Record appends
Outcome(t, allowed, stored, bytes) ==
    [token |-> t, allowed |-> allowed, stored |-> stored, bytes |-> bytes,
     overdue |-> RequestOf[t].cap \in Caps /\ late[RequestOf[t].cap] >= RefreshEvery]

LEMMA OutcomeParts ==
    ASSUME NEW t \in Tokens, NEW a \in BOOLEAN, NEW s \in BOOLEAN, NEW b \in U64,
           NEW o, o = Outcome(t, a, s, b)
    PROVE  /\ o \in Outcomes /\ o.token = t
           /\ o.allowed = a
           /\ o.stored = s
           /\ o.overdue = (RequestOf[t].cap \in Caps
                             /\ late[RequestOf[t].cap] >= RefreshEvery)
<1> DEFINE v == RequestOf[t].cap \in Caps /\ late[RequestOf[t].cap] >= RefreshEvery
<1>1. v \in BOOLEAN
  OBVIOUS
<1>2. o = [token |-> t, allowed |-> a, stored |-> s, bytes |-> b, overdue |-> v]
  BY DEF Outcome
<1> HIDE DEF v
<1>3. o \in Outcomes
  BY <1>1, <1>2 DEF Outcomes
<1>4. o.token = t /\ o.allowed = a /\ o.stored = s /\ o.overdue = v
  BY <1>2
<1>5. QED
  BY <1>3, <1>4 DEF v

\* A handler that records a and s does what it says if the cache agrees.
LEMMA RecordHandles ==
    ASSUME NEW t \in Tokens, NEW a \in BOOLEAN, NEW s \in BOOLEAN, NEW b \in U64,
           Record(t, a, s, b), Sound(cache'), FreshAt(cache', swept),
           \A c \in Held(cache') : c \in Held(cache) \/ (s /\ c = RequestOf[t].cid),
           RequestOf[t].topic = "purge" /\ a => RequestOf[t].cid \notin Held(cache'),
           a => Decide(RequestOf[t])
    PROVE  \E o : handled' = Append(handled, o) /\ Handles(t, o, cache')
<1> DEFINE o == Outcome(t, a, s, b)
<1>1. handled' = Append(handled, o)
  BY DEF Record, Outcome
<1>2. o = Outcome(t, a, s, b)
  OBVIOUS
<1> HIDE DEF o
<1>3. /\ o \in Outcomes /\ o.token = t /\ o.allowed = a /\ o.stored = s
      /\ o.overdue = (RequestOf[t].cap \in Caps /\ late[RequestOf[t].cap] >= RefreshEvery)
  BY <1>2, OutcomeParts
<1>4. Handles(t, o, cache')
  BY <1>3 DEF Handles
<1>5. QED
  BY <1>1, <1>4

\* What each handler does.
Handle(t) ==
    \/ Refuse(t) \/ CacheObject(t) \/ ReadObject(t) \/ ReadRange(t)
    \/ PurgeObject(t) \/ Status(t)

LEMMA HandleEffect ==
    ASSUME LoopOK, Sound(cache), FreshAt(cache, swept), NEW t \in Tokens, Handle(t)
    PROVE  Take(t) /\ \E o : handled' = Append(handled, o) /\ Handles(t, o, cache')
<1> DEFINE q == RequestOf[t]
           c == q.cid
           G == Get(cache, c, clock)
           yes == TRUE
           no == FALSE
           Done == \E o : handled' = Append(handled, o) /\ Handles(t, o, cache')
<1>1. /\ c \in Cids /\ q.ttl \in U64 /\ q.part \in U64 /\ Size[c] \in U64
      /\ 0 \in U64 /\ DefaultTtl \in U64 /\ clock \in U64
      /\ swept \in Nat /\ swept <= clock
  BY ConstantFacts DEF LoopOK
<1>2. /\ yes \in BOOLEAN /\ no \in BOOLEAN /\ yes /\ ~no
      /\ Cacheable(c) \in BOOLEAN
  BY DEF Cacheable
<1>3. Take(t)
  BY DEF Handle, Refuse, CacheObject, ReadObject, ReadRange, PurgeObject, Status
<1> SUFFICES Done
  BY <1>3
<1>4. ASSUME NEW a \in BOOLEAN, NEW s \in BOOLEAN, NEW b \in U64,
             Record(t, a, s, b), Sound(cache'), FreshAt(cache', swept),
             \A d \in Held(cache') : d \in Held(cache) \/ (s /\ d = c),
             q.topic = "purge" /\ a => c \notin Held(cache'), a => Decide(q)
      PROVE  Done
  BY <1>4, RecordHandles
<1>5. Sound(G) /\ FreshAt(G, swept) /\ Held(G) \subseteq Held(cache)
  BY <1>1, GetSound, GetFresh
<1> HIDE DEF G, yes, no, Done
<1>6. ASSUME NEW a \in BOOLEAN, NEW b \in U64, Record(t, a, no, b),
             cache' = cache \/ cache' = G,
             q.topic # "purge" \/ ~a, a => Decide(q)
      PROVE  Done
  BY <1>2, <1>4, <1>5, <1>6
<1>7. ASSUME NEW b \in U64, NEW ttl \in U64, NEW C, C = cache \/ C = G,
             cache' = InsertWithTtl(C, c, ttl, clock),
             Record(t, yes, Cacheable(c), b), q.topic # "purge", Decide(q)
      PROVE  Done
  <2>1. Sound(C) /\ FreshAt(C, swept) /\ Held(C) \subseteq Held(cache)
    BY <1>5, <1>7
  <2>2. Sound(cache') /\ Held(cache') \subseteq Held(C) \cup {c}
    BY <1>1, <1>7, <2>1, InsertSound
  <2>3. FreshAt(cache', swept)
    BY <1>1, <1>7, <2>1, InsertFresh
  <2>4. ~Cacheable(c) => cache' = C
    BY <1>7 DEF InsertWithTtl
  <2>5. \A d \in Held(cache') : d \in Held(cache) \/ (Cacheable(c) /\ d = c)
    BY <2>1, <2>2, <2>4
  <2>6. QED
    BY <1>2, <1>4, <1>7, <2>2, <2>3, <2>5
<1>8. CASE Refuse(t)
  BY <1>1, <1>2, <1>6, <1>8 DEF Refuse, no
<1>9. CASE Status(t)
  BY <1>1, <1>2, <1>6, <1>9 DEF Status, Allowed, yes, no
<1>10. CASE ReadRange(t)
  <2>1. q.topic = "read" /\ Decide(q)
    BY <1>10 DEF ReadRange, Allowed
  <2>2. \/ cache' = cache /\ Record(t, yes, no, 0)
        \/ cache' = G /\ Record(t, yes, no, q.part)
        \/ cache' = G /\ Record(t, yes, no, 0)
    BY <1>10 DEF ReadRange, G, yes, no
  <2>3. QED
    BY <1>1, <1>2, <1>6, <2>1, <2>2
<1>11. CASE PurgeObject(t)
  <2>1. /\ Decide(q) /\ cache' = Purge(cache, c) /\ Record(t, yes, no, 0)
    BY <1>11 DEF PurgeObject, Allowed, yes, no
  <2>2. Sound(cache') /\ FreshAt(cache', swept) /\ Held(cache') = Held(cache) \ {c}
    BY <1>1, <2>1, PurgeSound, PurgeFresh
  <2>3. QED
    BY <1>1, <1>2, <1>4, <2>1, <2>2
<1>12. CASE CacheObject(t)
  <2> DEFINE ttl == IF q.ttl = 0 THEN DefaultTtl ELSE q.ttl
  <2>1. q.topic = "cache" /\ Decide(q) /\ ttl \in U64
    BY <1>1, <1>12 DEF CacheObject, Allowed
  <2>2. \/ /\ cache' = InsertWithTtl(cache, c, ttl, clock)
           /\ Record(t, yes, Cacheable(c), 0)
        \/ cache' = cache /\ Record(t, yes, no, 0)
    <3>1. \/ /\ Cacheable(c) /\ cache' = InsertWithTtl(cache, c, ttl, clock)
             /\ Record(t, TRUE, TRUE, 0)
          \/ cache' = cache /\ Record(t, TRUE, FALSE, 0)
      BY <1>12 DEF CacheObject
    <3>2. Cacheable(c) => (Cacheable(c) = TRUE)
      BY <1>2
    <3>3. QED
      BY <3>1, <3>2 DEF yes, no
  <2> HIDE DEF ttl
  <2>3. CASE cache' = cache /\ Record(t, yes, no, 0)
    BY <1>1, <1>2, <1>6, <2>1, <2>3
  <2>4. CASE /\ cache' = InsertWithTtl(cache, c, ttl, clock)
             /\ Record(t, yes, Cacheable(c), 0)
    BY <1>1, <1>7, <2>1, <2>4
  <2>5. QED
    BY <2>2, <2>3, <2>4
<1>13. CASE ReadObject(t)
  <2>1. q.topic = "read" /\ Decide(q)
    BY <1>13 DEF ReadObject, Allowed
  <2>2. \/ cache' = G /\ Record(t, yes, no, Size[c])
        \/ cache' = G /\ Record(t, yes, no, 0)
        \/ /\ cache' = InsertWithTtl(G, c, DefaultTtl, clock)
           /\ Record(t, yes, Cacheable(c), Size[c])
    BY <1>13 DEF ReadObject, Insert, G, yes, no
  <2>3. CASE \/ cache' = G /\ Record(t, yes, no, Size[c])
             \/ cache' = G /\ Record(t, yes, no, 0)
    BY <1>1, <1>2, <1>6, <2>1, <2>3
  <2>4. CASE /\ cache' = InsertWithTtl(G, c, DefaultTtl, clock)
             /\ Record(t, yes, Cacheable(c), Size[c])
    BY <1>1, <1>7, <2>1, <2>4
  <2>5. QED
    BY <2>2, <2>3, <2>4
<1>14. QED
  BY <1>8, <1>9, <1>10, <1>11, <1>12, <1>13 DEF Handle
-----------------------------------------------------------------------------
(* Handling keeps the invariant.                                           *)

\* Recording one more request records one more token.
LEMMA AppendTokens ==
    ASSUME handled \in Seq(Outcomes), NEW o \in Outcomes, handled' = Append(handled, o)
    PROVE  /\ handled' \in Seq(Outcomes) /\ Len(handled) \in Nat
           /\ Len(handled') = Len(handled) + 1
           /\ handled'[Len(handled) + 1] = o
           /\ \A i \in 1 .. Len(handled) : handled'[i] = handled[i]
           /\ Handled \in Seq(Tokens) /\ Len(Handled) = Len(handled)
           /\ \A i \in 1 .. Len(handled) : Handled[i] = handled[i].token
           /\ Handled' = Append(Handled, o.token)
<1> DEFINE n == Len(handled)
<1>1. /\ handled' \in Seq(Outcomes) /\ n \in Nat /\ Len(handled') = n + 1
      /\ handled'[n + 1] = o /\ \A i \in 1 .. n : handled'[i] = handled[i]
  BY AppendProperties
<1>2. \A i \in 1 .. n : handled[i] \in Outcomes
  OBVIOUS
<1>3. o.token \in Tokens /\ \A i \in 1 .. n : handled[i].token \in Tokens
  BY <1>2 DEF Outcomes
<1>4. Handled = [i \in 1 .. n |-> handled[i].token]
  BY DEF Handled
<1>5. Handled' = [i \in 1 .. n + 1 |-> handled'[i].token]
  BY <1>1 DEF Handled
<1> HIDE DEF n
<1>6. /\ Handled \in Seq(Tokens) /\ Len(Handled) = n
      /\ \A i \in 1 .. n : Handled[i] = handled[i].token
  BY <1>1, <1>3, <1>4
<1> DEFINE B == Append(Handled, o.token)
<1>7. /\ B \in Seq(Tokens) /\ Len(B) = n + 1 /\ B[n + 1] = o.token
      /\ \A i \in 1 .. n : B[i] = Handled[i]
  BY <1>3, <1>6, AppendProperties
<1>8. \A i \in 1 .. n + 1 : Handled'[i] = B[i]
  <2> SUFFICES ASSUME NEW i \in 1 .. n + 1 PROVE Handled'[i] = B[i]
    OBVIOUS
  <2>1. Handled'[i] = handled'[i].token
    BY <1>5
  <2>2. CASE i \in 1 .. n
    BY <1>1, <1>6, <1>7, <2>1, <2>2
  <2>3. CASE i = n + 1
    BY <1>1, <1>7, <2>1, <2>3
  <2>4. i \in 1 .. n \/ i = n + 1
    BY <1>1
  <2>5. QED
    BY <2>2, <2>3, <2>4
<1> HIDE DEF B
<1>9. Handled' = B
  <2>1. B = [i \in 1 .. n + 1 |-> B[i]]
    BY <1>1, <1>7
  <2>2. QED
    BY <1>5, <1>8, <2>1
<1>10. QED
  BY <1>1, <1>6, <1>9 DEF n, B

\* A capability not known to be revoked was not announced too long ago.
LEMMA NotOverdue ==
    ASSUME LoopOK, NotLate, NEW k \in Caps \ revoked
    PROVE  ~(late[k] >= RefreshEvery)
<1>1. tick \in Nat /\ RefreshEvery \in Nat \ {0} /\ late[k] \in Nat
  BY ConstantFacts DEF LoopOK
<1>2. Phase(tick) \in 0 .. RefreshEvery - 1
  BY <1>1, PhaseRange
<1>3. CASE k \notin announced
  BY <1>1, <1>3 DEF NotLate
<1>4. CASE k \in announced
  <2>1. late[k] <= Phase(tick)
    BY <1>4 DEF NotLate
  <2>2. QED
    BY <1>1, <1>2, <2>1
<1>5. QED
  BY <1>3, <1>4

\* Whoever is allowed has a capability in force or asks for a public object.
LEMMA HandleInForce ==
    ASSUME IInv, NEW t \in Tokens, NEW o, Handles(t, o, cache'),
           handled' = Append(handled, o)
    PROVE  RevocationTakesHold'
<1> DEFINE n == Len(handled)
<1>1. /\ Len(handled') = n + 1 /\ handled'[n + 1] = o /\ n \in Nat
      /\ \A i \in 1 .. n : handled'[i] = handled[i]
  BY AppendTokens DEF IInv, Handles
<1> HIDE DEF n
<1> DEFINE Holds(x) == LET q == RequestOf[x.token]
                       IN  x.allowed => \/ ~x.overdue
                                        \/ q.topic \in {"read", "status"} /\ q.cid \in PublicCids
<1>2. \A i \in 1 .. n : Holds(handled[i])
  BY DEF IInv, RevocationTakesHold, n
<1>3. Holds(o)
  <2> SUFFICES ASSUME o.allowed, o.overdue
               PROVE  RequestOf[t].topic \in {"read", "status"} /\ RequestOf[t].cid \in PublicCids
    BY DEF Handles
  <2>1. Decide(RequestOf[t]) /\ RequestOf[t].cap \in Caps
        /\ late[RequestOf[t].cap] >= RefreshEvery
    BY DEF Handles
  <2>2. RequestOf[t].cap \notin Caps \ revoked
    BY <2>1, NotOverdue DEF IInv
  <2>3. /\ AbilityFor(RequestOf[t].topic) = "cdn:read" /\ RequestOf[t].cid \in PublicCids
    BY <2>1, <2>2 DEF Decide, Authorize
  <2>4. QED
    BY <2>3 DEF AbilityFor
<1>4. \A i \in 1 .. n + 1 : Holds(handled'[i])
  <2> SUFFICES ASSUME NEW i \in 1 .. n + 1 PROVE Holds(handled'[i])
    OBVIOUS
  <2> HIDE DEF Holds
  <2>1. CASE i \in 1 .. n
    BY <1>1, <1>2, <2>1
  <2>2. CASE i = n + 1
    BY <1>1, <1>3, <2>2
  <2>3. QED
    BY <1>1, <2>1, <2>2
<1>5. DOMAIN handled' = 1 .. n + 1
  <2>1. handled' \in Seq(Outcomes)
    BY AppendTokens DEF IInv, Handles
  <2>2. QED
    BY <1>1, <2>1
<1>6. QED
  BY <1>4, <1>5 DEF RevocationTakesHold

\* What a purge removed comes back only with a request that stores it and
\* whose token had to be forgotten, if it was handled before.
LEMMA HandlePurges ==
    ASSUME IInv, NEW t \in Tokens, NEW o, Handles(t, o, cache'),
           handled' = Append(handled, o), IsNew(seen, t)
    PROVE  PurgeHolds'
<1> DEFINE n == Len(handled)
<1>1. /\ Len(handled') = n + 1 /\ handled'[n + 1] = o /\ n \in Nat
      /\ \A i \in 1 .. n : handled'[i] = handled[i]
      /\ handled' \in Seq(Outcomes) /\ handled \in Seq(Outcomes)
      /\ Handled \in Seq(Tokens) /\ Len(Handled) = n
      /\ \A i \in 1 .. n : Handled[i] = handled[i].token
      /\ o.token = t
  BY AppendTokens DEF IInv, Handles
<1>2. DOMAIN handled = 1 .. n /\ DOMAIN handled' = 1 .. n + 1
  BY <1>1
<1>3. Window(seen, Handled, Tokens, SeenCap) /\ SeenCap \in Nat \ {0}
  BY ConstantFacts DEF IInv
<1> HIDE DEF n
<1>4. \A i, j \in 1 .. n + 1 :
         {handled'[m].token : m \in i + 1 .. j - 1} = {handled[m].token : m \in i + 1 .. j - 1}
  <2> SUFFICES ASSUME NEW i \in 1 .. n + 1, NEW j \in 1 .. n + 1
               PROVE  {handled'[m].token : m \in i + 1 .. j - 1}
                        = {handled[m].token : m \in i + 1 .. j - 1}
    OBVIOUS
  <2>1. \A m \in i + 1 .. j - 1 : handled'[m] = handled[m]
    BY <1>1
  <2>2. QED
    BY <2>1
<1> SUFFICES ASSUME NEW p \in 1 .. n + 1,
                    RequestOf[handled'[p].token].topic = "purge", handled'[p].allowed,
                    RequestOf[handled'[p].token].cid \in Held(cache')
             PROVE  \E j \in p + 1 .. n + 1 :
                       /\ handled'[j].stored
                       /\ RequestOf[handled'[j].token].cid = RequestOf[handled'[p].token].cid
                       /\ \A i \in 1 .. p :
                             handled'[i].token = handled'[j].token =>
                                Cardinality({handled'[m].token : m \in i + 1 .. j - 1}) >= SeenCap
  BY <1>1, <1>2, Zenon DEF PurgeHolds, cidOf, Forgotten
<1>5. p \in 1 .. n /\ handled'[p] = handled[p]
  <2>1. p # n + 1
    BY <1>1 DEF Handles
  <2>2. QED
    BY <1>1, <2>1
<1> DEFINE c == RequestOf[handled[p].token].cid
<1>6. CASE c \in Held(cache)
  <2>1. PICK j \in p + 1 .. n : /\ handled[j].stored /\ cidOf(j) = cidOf(p)
                                /\ \A i \in 1 .. p :
                                      handled[i].token = handled[j].token => Forgotten(i, j)
    BY <1>2, <1>5, <1>6 DEF IInv, PurgeHolds, cidOf, n
  <2>2. j \in p + 1 .. n + 1 /\ j \in 1 .. n /\ handled'[j] = handled[j]
    BY <1>1, <1>5
  <2>3. \A i \in 1 .. p : i \in 1 .. n + 1 /\ handled'[i] = handled[i]
    BY <1>1, <1>5
  <2>4. ASSUME NEW i \in 1 .. p, handled'[i].token = handled'[j].token
        PROVE  Cardinality({handled'[m].token : m \in i + 1 .. j - 1}) >= SeenCap
    <3>1. Cardinality({handled[m].token : m \in i + 1 .. j - 1}) >= SeenCap
      BY <2>1, <2>2, <2>3, <2>4 DEF Forgotten
    <3>2. {handled'[m].token : m \in i + 1 .. j - 1} = {handled[m].token : m \in i + 1 .. j - 1}
      <4>1. i \in 1 .. n + 1 /\ j \in 1 .. n + 1
        BY <1>1, <2>2, <2>3
      <4>2. QED
        BY <1>4, <4>1, Zenon
    <3>3. QED
      BY <3>1, <3>2
  <2>5. QED
    BY <1>5, <2>1, <2>2, <2>4 DEF cidOf
<1>7. CASE c \notin Held(cache)
  <2>1. o.stored /\ c = RequestOf[t].cid
    BY <1>5, <1>7 DEF Handles
  <2>2. n + 1 \in p + 1 .. n + 1 /\ n + 1 \in 1 .. n + 1 /\ (n + 1) - 1 = n
    BY <1>1, <1>5
  <2>3. ASSUME NEW i \in 1 .. p, handled'[i].token = handled'[n + 1].token
        PROVE  Cardinality({handled'[m].token : m \in i + 1 .. (n + 1) - 1}) >= SeenCap
    <3>1. i \in 1 .. n /\ i \in 1 .. n + 1 /\ Handled[i] = t
      BY <1>1, <1>5, <2>3
    <3>2. Cardinality({Handled[m] : m \in i + 1 .. Len(Handled)}) >= SeenCap
      <4>1. i \in 1 .. Len(Handled) /\ IsNew(seen, Handled[i]) /\ Handled \in Seq(Tokens)
        BY <1>1, <3>1
      <4>2. QED
        BY <1>3, <4>1, PushedOut
    <3>3. {Handled[m] : m \in i + 1 .. n} = {handled[m].token : m \in i + 1 .. n}
      <4>1. \A m \in i + 1 .. n : Handled[m] = handled[m].token
        BY <1>1, <3>1
      <4>2. QED
        BY <4>1
    <3>4. {handled'[m].token : m \in i + 1 .. (n + 1) - 1}
            = {handled[m].token : m \in i + 1 .. n}
      <4>1. {handled'[m].token : m \in i + 1 .. (n + 1) - 1}
              = {handled[m].token : m \in i + 1 .. (n + 1) - 1}
        BY <1>4, <2>2, <3>1
      <4>2. QED
        BY <2>2, <4>1
    <3>5. QED
      BY <1>1, <3>2, <3>3, <3>4
  <2> DEFINE Good(j) ==
               /\ handled'[j].stored
               /\ RequestOf[handled'[j].token].cid = RequestOf[handled'[p].token].cid
               /\ \A i \in 1 .. p :
                     handled'[i].token = handled'[j].token =>
                        Cardinality({handled'[m].token : m \in i + 1 .. j - 1}) >= SeenCap
  <2>4. Good(n + 1)
    BY <1>1, <1>5, <2>1, <2>3
  <2> HIDE DEF Good
  <2>5. \E j \in p + 1 .. n + 1 : Good(j)
    BY <2>2, <2>4
  <2>6. QED
    BY <2>5 DEF Good
<1>8. QED
  BY <1>6, <1>7
\* Handling a request keeps the invariant.
LEMMA HandleKeeps ==
    ASSUME IInv, NEW t \in Tokens, Handle(t)
    PROVE  IInv'
<1>1. LoopOK /\ Sound(cache) /\ FreshAt(cache, swept)
  BY DEF IInv, SweptMeansFresh, FreshAt
<1>2. Take(t)
  BY <1>1, HandleEffect
<1>3. PICK o : handled' = Append(handled, o) /\ Handles(t, o, cache')
  BY <1>1, HandleEffect
<1>4. /\ UNCHANGED <<revoked, tick, pc, clock, announced, late, swept>>
      /\ IsNew(seen, t) /\ seen' = Accept(seen, t, SeenCap)
  BY <1>2 DEF Take
<1>5. /\ o \in Outcomes /\ o.token = t /\ Sound(cache') /\ FreshAt(cache', swept)
  BY <1>3 DEF Handles
<1>6. LoopOK' /\ NotLate'
  BY <1>4 DEF IInv, LoopOK, NotLate
<1>7. SweptMeansFresh'
  BY <1>4, <1>5 DEF SweptMeansFresh, FreshAt
<1>8. /\ handled' \in Seq(Outcomes) /\ Handled \in Seq(Tokens)
      /\ Handled' = Append(Handled, t)
  BY <1>3, <1>5, AppendTokens DEF IInv
<1>9. Window(seen', Handled', Tokens, SeenCap)
  <2>1. Window(Accept(seen, t, SeenCap), Append(Handled, t), Tokens, SeenCap)
    BY <1>4, <1>8, AcceptWindow, ConstantFacts DEF IInv
  <2>2. QED
    BY <1>4, <1>8, <2>1
<1>10. PurgeHolds' /\ RevocationTakesHold'
  BY <1>3, <1>4, HandlePurges, HandleInForce
<1>11. QED
  BY <1>5, <1>6, <1>7, <1>8, <1>9, <1>10 DEF IInv

-----------------------------------------------------------------------------
(* The loop itself.                                                        *)

\* A step that handles nothing and adds nothing to the cache.
LEMMA QuietKeeps ==
    ASSUME IInv, UNCHANGED <<seen, handled>>, LoopOK', NotLate', Sound(cache'),
           Held(cache') \subseteq Held(cache), SweptMeansFresh'
    PROVE  IInv'
<1>1. handled' \in Seq(Outcomes) /\ Window(seen', Handled', Tokens, SeenCap)
  BY DEF IInv, Handled
<1>2. PurgeHolds'
  <2> DEFINE Back(p) ==
               \E j \in p + 1 .. Len(handled) :
                  /\ handled[j].stored /\ cidOf(j) = cidOf(p)
                  /\ \A i \in 1 .. p :
                        handled[i].token = handled[j].token => Forgotten(i, j)
             Purged(p) == RequestOf[handled[p].token].topic = "purge" /\ handled[p].allowed
             Purges(C) ==
               \A p \in DOMAIN handled : Purged(p) /\ cidOf(p) \in Held(C) => Back(p)
  <2>1. Purges(cache)
    BY Zenon DEF IInv, PurgeHolds
  <2>2. PurgeHolds' <=> Purges(cache')
    BY DEF PurgeHolds, cidOf, Forgotten
  <2> HIDE DEF Back, Purged
  <2>3. Purges(cache')
    BY <2>1
  <2>4. QED
    BY <2>2, <2>3
<1>3. RevocationTakesHold'
  BY DEF IInv, RevocationTakesHold
<1>4. QED
  BY <1>1, <1>2, <1>3 DEF IInv

\* The turn counter stays within its range.
LEMMA NextTick ==
    ASSUME LoopOK
    PROVE  (tick + 1) % TickWrap \in 0 .. TickWrap - 1 /\ tick \in Nat
BY ConstantFacts DEF LoopOK

\* A turn with a refresh: the revocations are taken in, or the count of turns
\* starts again, and the sweep leaves what is good now.
LEMMA RefreshKeeps ==
    ASSUME IInv, StartTurn, NEW ok \in BOOLEAN, Refresh(ok)
    PROVE  IInv'
<1>1. /\ LoopOK /\ NotLate /\ Sound(cache)
      /\ tick' = (tick + 1) % TickWrap /\ pc' = "messages"
      /\ revoked' = (IF ok THEN announced ELSE revoked)
      /\ late' = (IF ok THEN Later ELSE [k \in Caps |-> 0])
      /\ cache' = SweepExpired(cache, clock) /\ swept' = clock
      /\ UNCHANGED <<seen, clock, announced, handled>>
  BY DEF IInv, StartTurn, Refresh
<1>2. clock \in U64 /\ clock \in Nat /\ RefreshEvery \in Nat \ {0}
  BY <1>1, ConstantFacts DEF LoopOK
<1>3. /\ Sound(cache') /\ Held(cache') \subseteq Held(cache)
      /\ FreshAt(cache', clock)
  BY <1>1, <1>2, SweepSound, SweepFresh
<1>4. SweptMeansFresh'
  BY <1>1, <1>3 DEF SweptMeansFresh, FreshAt
<1>5. /\ Later \in [Caps -> 0 .. RefreshEvery]
      /\ \A k \in Caps : k \notin announced => Later[k] = late[k]
  BY <1>1, <1>2 DEF LoopOK, Later
<1>6. tick' \in 0 .. TickWrap - 1 /\ tick' \in Nat
  BY <1>1, NextTick, ConstantFacts
<1>7. LoopOK'
  <2>1. late' \in [Caps -> 0 .. RefreshEvery]
    BY <1>1, <1>2, <1>5
  <2>2. revoked' \subseteq announced'
    BY <1>1 DEF LoopOK
  <2>3. swept' \in 0 .. clock'
    BY <1>1, <1>2
  <2>4. QED
    BY <1>1, <1>6, <2>1, <2>2, <2>3 DEF LoopOK
<1>8. NotLate'
  <2>1. Phase(tick') \in 0 .. RefreshEvery - 1
    BY <1>6, PhaseRange
  <2>2. CASE ok
    BY <1>1, <1>5, <2>2 DEF NotLate
  <2>3. CASE ~ok
    BY <1>1, <1>2, <2>1, <2>3 DEF NotLate
  <2>4. QED
    BY <2>2, <2>3
<1>9. QED
  BY <1>1, <1>3, <1>4, <1>7, <1>8, QuietKeeps

\* A turn without: one more turn begun, and one more of the phase.
LEMMA PlainTurnKeeps ==
    ASSUME IInv, StartTurn, ~RefreshDue
    PROVE  IInv'
<1>1. /\ LoopOK /\ NotLate /\ Sound(cache) /\ SweptMeansFresh
      /\ tick' = (tick + 1) % TickWrap /\ pc' = "messages" /\ late' = Later
      /\ UNCHANGED <<revoked, cache, swept, seen, clock, announced, handled>>
  BY DEF IInv, StartTurn, Refresh
<1>2. tick \in 0 .. TickWrap - 1 /\ tick % RefreshEvery # 0 /\ RefreshEvery \in Nat \ {0}
  BY <1>1, ConstantFacts DEF LoopOK, RefreshDue
<1>3. tick' \in 0 .. TickWrap - 1 /\ tick \in Nat /\ tick' \in Nat
  BY <1>1, NextTick, ConstantFacts
<1>4. /\ Phase(tick') >= Phase(tick) + 1
      /\ Phase(tick) \in 0 .. RefreshEvery - 1 /\ Phase(tick') \in 0 .. RefreshEvery - 1
  BY <1>1, <1>2, <1>3, PhaseStep, PhaseRange
<1>5. /\ late' \in [Caps -> 0 .. RefreshEvery]
      /\ \A k \in Caps : k \notin announced => late'[k] = late[k]
      /\ \A k \in Caps : late'[k] <= late[k] + 1
  BY <1>1, <1>2 DEF LoopOK, Later
<1>6. LoopOK'
  BY <1>1, <1>3, <1>5 DEF LoopOK
<1>7. NotLate'
  <2>1. ASSUME NEW k \in announced \ revoked
        PROVE  late'[k] <= Phase(tick')
    <3>1. /\ k \in Caps /\ late[k] \in Nat /\ late'[k] \in Nat
          /\ late[k] <= Phase(tick) /\ late'[k] <= late[k] + 1
      BY <1>1, <1>5 DEF LoopOK, NotLate
    <3>2. QED
      BY <1>4, <3>1
  <2>2. QED
    BY <1>1, <1>5, <2>1 DEF NotLate
<1>8. SweptMeansFresh'
  BY <1>1 DEF SweptMeansFresh
<1>9. QED
  BY <1>1, <1>6, <1>7, <1>8, QuietKeeps

\* The other steps leave the loop's counters alone; a chain that is newly
\* announced to be revoked has been late for no turn.
LEMMA OutsideKeeps ==
    ASSUME IInv, EndTurn \/ Tick \/ (\E k \in Caps : Revoke(k)) \/ UNCHANGED vars
    PROVE  IInv'
<1>1. /\ LoopOK /\ NotLate /\ Sound(cache) /\ SweptMeansFresh
      /\ UNCHANGED <<cache, seen, revoked, tick, late, swept, handled>>
  BY DEF IInv, EndTurn, Tick, Revoke, vars
<1>2. LoopOK'
  <2>1. MaxClock \in Nat /\ clock \in Nat
    BY <1>1, MeshAssumption, CacheAssumption DEF LoopOK, U64
  <2>2. CASE EndTurn \/ UNCHANGED vars
    BY <1>1, <2>2 DEF LoopOK, EndTurn, vars
  <2>3. CASE Tick
    BY <1>1, <2>1, <2>3 DEF LoopOK, Tick
  <2>4. CASE \E k \in Caps : Revoke(k)
    BY <1>1, <2>4 DEF LoopOK, Revoke
  <2>5. QED
    BY <2>2, <2>3, <2>4
<1>3. NotLate'
  <2>1. CASE EndTurn \/ Tick \/ UNCHANGED vars
    BY <1>1, <2>1 DEF NotLate, EndTurn, Tick, vars
  <2>2. ASSUME NEW k \in Caps, Revoke(k) PROVE NotLate'
    <3>1. announced' = announced \cup {k} /\ k \notin announced
      BY <2>2 DEF Revoke
    <3>2. late[k] = 0 /\ Phase(tick) \in 0 .. RefreshEvery - 1 /\ RefreshEvery \in Nat
      BY <1>1, <3>1, PhaseRange, ConstantFacts DEF NotLate, LoopOK
    <3>3. QED
      BY <1>1, <3>1, <3>2 DEF NotLate
  <2>3. QED
    BY <2>1, <2>2
<1>4. SweptMeansFresh'
  BY <1>1 DEF SweptMeansFresh
<1>5. QED
  BY <1>1, <1>2, <1>3, <1>4, QuietKeeps

\* The invariant holds of every behaviour of the mesh loop.
THEOREM InvariantHolds == Spec => []IInv
<1>1. Init => IInv
  <2> SUFFICES ASSUME Init PROVE IInv
    OBVIOUS
  <2>1. LoopOK /\ NotLate
    BY ConstantFacts, MeshAssumption, CacheAssumption DEF Init, LoopOK, NotLate, U64
  <2>2. Sound(cache)
    BY NewCacheSound DEF Init
  <2>3. handled \in Seq(Outcomes) /\ Handled = << >> /\ DOMAIN handled = {}
    BY DEF Init, Handled
  <2>4. Window(seen, Handled, Tokens, SeenCap)
    BY <2>3, NewWindow, ConstantFacts DEF Init
  <2>5. SweptMeansFresh
    BY DEF Init, SweptMeansFresh, NewCache, EmptyFcn, Held
  <2>6. PurgeHolds /\ RevocationTakesHold
    BY <2>3 DEF PurgeHolds, RevocationTakesHold
  <2>7. QED
    BY <2>1, <2>2, <2>3, <2>4, <2>5, <2>6 DEF IInv
<1>2. IInv /\ [Next]_vars => IInv'
  <2> SUFFICES ASSUME IInv, [Next]_vars PROVE IInv'
    OBVIOUS
  <2>1. CASE StartTurn
    <3>1. CASE \E ok \in BOOLEAN : Refresh(ok)
      BY <2>1, <3>1, RefreshKeeps
    <3>2. CASE ~RefreshDue
      BY <2>1, <3>2, PlainTurnKeeps
    <3>3. QED
      BY <2>1, <3>1, <3>2 DEF StartTurn
  <2>2. CASE EndTurn \/ Tick \/ (\E k \in Caps : Revoke(k)) \/ UNCHANGED vars
    BY <2>2, OutsideKeeps
  <2>3. CASE \E t \in Tokens : Handle(t)
    BY <2>3, HandleKeeps
  <2>4. QED
    BY <2>1, <2>2, <2>3 DEF Next, Handle
<1>3. QED
  BY <1>1, <1>2, PTL DEF Spec

\* The mesh loop's state keeps its type.
THEOREM TypeCorrect == Spec => []TypeOK
<1>1. IInv => TypeOK
  <2> SUFFICES ASSUME IInv PROVE TypeOK
    OBVIOUS
  <2>1. IsCache(cache)
    BY DEF IInv, Sound
  <2>2. Handled \in Seq(Tokens)
    <3>1. \A i \in 1 .. Len(handled) : handled[i].token \in Tokens
      <4>1. \A i \in 1 .. Len(handled) : handled[i] \in Outcomes
        BY DEF IInv
      <4>2. QED
        BY <4>1 DEF Outcomes
    <3>2. Len(handled) \in Nat
      BY DEF IInv
    <3>3. QED
      BY <3>1, <3>2 DEF Handled
  <2>3. seen.seen \subseteq Tokens /\ seen.order \in Seq(Tokens)
    BY <2>2, WindowTyped, ConstantFacts DEF IInv
  <2>4. swept \in 0 .. MaxClock
    BY MeshAssumption, CacheAssumption DEF IInv, LoopOK, U64
  <2>5. QED
    BY <2>1, <2>3, <2>4 DEF IInv, LoopOK, TypeOK
<1>2. QED
  BY <1>1, InvariantHolds, PTL

\* A purge holds against redelivery: what it removed comes back only with a
\* later request that stores it, and one handled before the purge is handled
\* again only after a full capacity of other requests.
THEOREM PurgeHoldsAlways == Spec => []PurgeHolds
<1>1. IInv => PurgeHolds
  BY DEF IInv
<1>2. QED
  BY <1>1, InvariantHolds, PTL

\* A revoked capability allows nothing once RefreshEvery turns have begun
\* since its announcement or the last refresh that failed.
THEOREM RevocationHolds == Spec => []RevocationTakesHold
<1>1. IInv => RevocationTakesHold
  BY DEF IInv
<1>2. QED
  BY <1>1, InvariantHolds, PTL

\* Every entry held was good at the last sweep.
THEOREM SweepHolds == Spec => []SweptMeansFresh
<1>1. IInv => SweptMeansFresh
  BY DEF IInv
<1>2. QED
  BY <1>1, InvariantHolds, PTL

\* The edge that serves the mesh keeps its byte count exact and within the
\* budget, its ticks distinct and its negative cache bounded.
THEOREM CacheSound == Spec => []Sound(cache)
<1>1. IInv => Sound(cache)
  BY DEF IInv
<1>2. QED
  BY <1>1, InvariantHolds, PTL
=============================================================================
