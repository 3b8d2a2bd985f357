------------------------------ MODULE MeshHost ------------------------------
(***************************************************************************)
(* The mesh loop of an edge: `serve` and `handle` of src/src/host.rs.  One *)
(* task polls the node's inbox and handles one request after the other, so *)
(* a request is one action.  The node delivers requests in any order and   *)
(* any number of times; a request whose token is still remembered is       *)
(* skipped and changes nothing.  The origin may fail any fetch.            *)
(*                                                                         *)
(* A request is [topic, cid, cap, ttl, part]: part is the number of bytes  *)
(* of the range it reads, 0 for the whole object.  The topic "other"       *)
(* stands for requests that fail before the access decision: an unknown    *)
(* topic, a malformed payload or CID.                                      *)
(***************************************************************************)
EXTENDS CacheOps, FifoSet

CONSTANTS
    Tokens,         \* reply tokens, one for each request sent to this edge
    RequestOf,      \* RequestOf[t]: the request with token t
    Caps,           \* capability chains
    NoCap,          \* the empty chain
    Grants,         \* Grants[k]: the abilities chain k grants while not revoked
    PublicCids,     \* the PublicSet
    SeenCap,        \* SEEN_TOKENS_CAPACITY
    RefreshEvery,   \* turns of the loop between two refreshes (20)
    TickWrap,       \* number of values of the u32 turn counter
    MaxMeshObject,  \* MAX_MESH_OBJECT_BYTES
    MaxClock,       \* bound on the clock
    MaxHandled      \* bound on the requests handled

Abilities == {"cdn:cache", "cdn:read", "cdn:purge"}
Topics == {"cache", "read", "purge", "status", "other"}
Request == [topic : Topics, cid : Cids, cap : Caps \cup {NoCap}, ttl : U64, part : U64]

ASSUME MeshAssumption ==
    /\ RequestOf \in [Tokens -> Request]
    /\ \A t \in Tokens : RequestOf[t].part <= Size[RequestOf[t].cid]
    /\ NoCap \notin Caps
    /\ Grants \in [Caps -> SUBSET Abilities]
    /\ PublicCids \subseteq Cids
    /\ {SeenCap, RefreshEvery, TickWrap} \subseteq Nat \ {0}
    /\ MaxMeshObject \in Nat
    /\ MaxClock \in U64 \ {0}
    /\ MaxHandled \in Nat

VARIABLES
    cache,     \* EdgeState.cache
    seen,      \* SeenTokens
    revoked,   \* the revocations the loop knows of
    tick,      \* the turn counter
    pc,        \* "top" of the loop or its "messages"
    clock,     \* the second now_secs() returns
    announced, \* the revocations the node knows of
    late,      \* history: late[k]: turns begun since the revocation of k was
               \* announced or the last failed refresh after that, up to
               \* RefreshEvery
    swept,     \* history: when the cache was last swept
    handled    \* history: the requests handled, with their outcome

vars == <<cache, seen, revoked, tick, pc, clock, announced, late, swept, handled>>

Outcomes == [token : Tokens, allowed : BOOLEAN, stored : BOOLEAN,
             bytes : U64, overdue : BOOLEAN]

-----------------------------------------------------------------------------
Init ==
    /\ cache = NewCache
    /\ seen = NewFifoSet
    /\ revoked = {}
    /\ tick = 0
    /\ pc = "top"
    /\ clock = 1
    /\ announced = {}
    /\ late = [k \in Caps |-> 0]
    /\ swept = 0
    /\ handled = << >>

\* the mesh learns that a chain was revoked
Revoke(k) ==
    /\ k \notin announced
    /\ announced' = announced \cup {k}
    /\ UNCHANGED <<cache, seen, revoked, tick, pc, clock, late, swept, handled>>

Tick ==
    /\ clock < MaxClock
    /\ clock' = clock + 1
    /\ UNCHANGED <<cache, seen, revoked, tick, pc, announced, late, swept, handled>>

\* Wrong variant: one turn later than the counter's multiples.
RefreshDueLate == tick % (RefreshEvery + 1) = 0

RefreshDue == tick % RefreshEvery = 0

\* one more turn for every announced revocation
Later == [k \in Caps |-> IF k \in announced /\ late[k] < RefreshEvery
                         THEN late[k] + 1 ELSE late[k]]

\* Wrong variant: the sweep is left out when the refresh fails.
RefreshSweepIfOk(ok) ==
    /\ RefreshDue
    /\ revoked' = IF ok THEN announced ELSE revoked
    /\ late' = IF ok THEN Later ELSE [k \in Caps |-> 0]
    /\ cache' = IF ok THEN SweepExpired(cache, clock) ELSE cache
    /\ swept' = clock

\* the periodic work at the top of the loop: the revocations, kept when the
\* node does not answer, and the sweep
Refresh(ok) ==
    /\ RefreshDue
    /\ revoked' = IF ok THEN announced ELSE revoked
    /\ late' = IF ok THEN Later ELSE [k \in Caps |-> 0]
    /\ cache' = SweepExpired(cache, clock)
    /\ swept' = clock

StartTurn ==
    /\ pc = "top"
    /\ pc' = "messages"
    /\ tick' = (tick + 1) % TickWrap
    /\ \/ \E ok \in BOOLEAN : Refresh(ok)
       \/ ~RefreshDue /\ late' = Later /\ UNCHANGED <<revoked, cache, swept>>
    /\ UNCHANGED <<seen, clock, announced, handled>>

EndTurn ==
    /\ pc = "messages"
    /\ pc' = "top"
    /\ UNCHANGED <<cache, seen, revoked, tick, clock, announced, late, swept, handled>>

-----------------------------------------------------------------------------
(* The access decision.                                                    *)

\* ability_for
AbilityFor(topic) ==
    CASE topic = "cache" -> "cdn:cache"
      [] topic = "purge" -> "cdn:purge"
      [] topic \in {"read", "status"} -> "cdn:read"
      [] OTHER -> "none"

\* ce_iam_core's authorize, as far as this loop depends on it
Authorize(k, ability) == k \in Caps \ revoked /\ ability \in Grants[k]

\* decide
Decide(q) ==
    \/ AbilityFor(q.topic) = "cdn:read" /\ q.cid \in PublicCids
    \/ Authorize(q.cap, AbilityFor(q.topic))

-----------------------------------------------------------------------------
(* Handling one request.  seen.insert comes first, whatever follows.       *)

Take(t) ==
    /\ pc = "messages"
    /\ Len(handled) < MaxHandled
    /\ IsNew(seen, t)
    /\ seen' = Accept(seen, t, SeenCap)
    /\ UNCHANGED <<revoked, tick, pc, clock, announced, late, swept>>

\* what is recorded of t: whether it was allowed, whether it stored its
\* object, the bytes of the reply, and whether its capability should have
\* been known to be revoked
Record(t, allowed, stored, bytes) ==
    handled' = Append(handled,
        [token |-> t, allowed |-> allowed, stored |-> stored, bytes |-> bytes,
         overdue |-> RequestOf[t].cap \in Caps /\ late[RequestOf[t].cap] >= RefreshEvery])

Allowed(t, topic) == RequestOf[t].topic = topic /\ Decide(RequestOf[t])

\* handle_inner returns an error before or at the access decision
Refuse(t) ==
    /\ ~Decide(RequestOf[t])
    /\ Take(t)
    /\ Record(t, FALSE, FALSE, 0)
    /\ UNCHANGED cache

\* cdn/cache: cache_object; an object over the budget is refused
CacheObject(t) ==
    LET q == RequestOf[t]
        ttl == IF q.ttl = 0 THEN DefaultTtl ELSE q.ttl
    IN  /\ Allowed(t, "cache")
        /\ Take(t)
        /\ \E up \in BOOLEAN :
              IF up /\ Cacheable(q.cid)
              THEN /\ cache' = InsertWithTtl(cache, q.cid, ttl, clock)
                   /\ Record(t, TRUE, TRUE, 0)
              ELSE UNCHANGED cache /\ Record(t, TRUE, FALSE, 0)

\* cdn/read of the whole object: read_object, which stores what it fetches
ReadObject(t) ==
    LET q == RequestOf[t]
        C == Get(cache, q.cid, clock)
    IN  /\ Allowed(t, "read")
        /\ q.part = 0
        /\ Take(t)
        /\ IF ContainsFresh(cache, q.cid, clock)
           THEN cache' = C /\ Record(t, TRUE, FALSE, Size[q.cid])
           ELSE \E up \in BOOLEAN :
                  IF up /\ Size[q.cid] <= MaxMeshObject
                  THEN /\ cache' = Insert(C, q.cid, clock)
                       /\ Record(t, TRUE, Cacheable(q.cid), Size[q.cid])
                  ELSE cache' = C /\ Record(t, TRUE, FALSE, 0)

\* cdn/read of a range: the manifest first, then read_range, which stores
\* nothing (RangeRead has its arithmetic and limits)
ReadRange(t) ==
    LET q == RequestOf[t]
        C == Get(cache, q.cid, clock)
    IN  /\ Allowed(t, "read")
        /\ q.part > 0
        /\ Take(t)
        /\ \/ UNCHANGED cache /\ Record(t, TRUE, FALSE, 0)
           \/ /\ ContainsFresh(cache, q.cid, clock) \/ q.part <= MaxMeshObject
              /\ cache' = C
              /\ Record(t, TRUE, FALSE, q.part)
           \/ /\ ~ContainsFresh(cache, q.cid, clock)
              /\ cache' = C
              /\ Record(t, TRUE, FALSE, 0)

\* cdn/purge
PurgeObject(t) ==
    /\ Allowed(t, "purge")
    /\ Take(t)
    /\ cache' = Purge(cache, RequestOf[t].cid)
    /\ Record(t, TRUE, FALSE, 0)

\* cdn/status looks without touching
Status(t) ==
    /\ Allowed(t, "status")
    /\ Take(t)
    /\ Record(t, TRUE, FALSE, 0)
    /\ UNCHANGED cache

Next ==
    \/ StartTurn
    \/ EndTurn
    \/ Tick
    \/ \E k \in Caps : Revoke(k)
    \/ \E t \in Tokens :
          \/ Refuse(t)
          \/ CacheObject(t)
          \/ ReadObject(t)
          \/ ReadRange(t)
          \/ PurgeObject(t)
          \/ Status(t)

Spec == Init /\ [][Next]_vars

-----------------------------------------------------------------------------
(* Properties.                                                             *)

\* The shape of the state.
TypeOK ==
    /\ IsCache(cache)
    /\ seen.seen \subseteq Tokens /\ seen.order \in Seq(Tokens)
    /\ revoked \subseteq announced /\ announced \subseteq Caps
    /\ tick \in 0 .. TickWrap - 1
    /\ pc \in {"top", "messages"}
    /\ clock \in 1 .. MaxClock
    /\ late \in [Caps -> 0 .. RefreshEvery]
    /\ swept \in 0 .. MaxClock
    /\ handled \in Seq(Outcomes)

cidOf(i) == RequestOf[handled[i].token].cid

\* at least SeenCap other requests were handled between i and j
Forgotten(i, j) ==
    Cardinality({handled[m].token : m \in i + 1 .. j - 1}) >= SeenCap

\* A purge holds against redelivery: an object that is held after it was
\* purged was stored by a later request, and by one the edge had not handled
\* before the purge or had to forget since (SeenTokens, host.rs:276).
PurgeHolds ==
    \A p \in DOMAIN handled :
        /\ RequestOf[handled[p].token].topic = "purge"
        /\ handled[p].allowed
        /\ cidOf(p) \in Held(cache)
        => \E j \in p + 1 .. Len(handled) :
              /\ handled[j].stored /\ cidOf(j) = cidOf(p)
              /\ \A i \in 1 .. p :
                    handled[i].token = handled[j].token => Forgotten(i, j)

\* A revoked capability loses its force: no later than RefreshEvery turns of
\* the loop after the announcement, or after the last refresh that failed,
\* no request is allowed by it, also across the wrap of the turn counter.
RevocationTakesHold ==
    \A i \in DOMAIN handled :
        LET q == RequestOf[handled[i].token]
        IN  handled[i].allowed =>
                \/ ~handled[i].overdue
                \/ q.topic \in {"read", "status"} /\ q.cid \in PublicCids

\* "Sweep expired entries so dead bytes don't hold the budget hostage": every
\* entry held was good at the last sweep, however it came in since.
SweptMeansFresh == \A c \in Held(cache) : swept <= cache.entries[c].expires

\* What host.rs:568 says of do_read, "no single reply can balloon past the
\* mesh wire ceiling".
ReplyWithinCeiling == \A i \in DOMAIN handled : handled[i].bytes <= MaxMeshObject
=============================================================================
