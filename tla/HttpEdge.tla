------------------------------ MODULE HttpEdge ------------------------------
(***************************************************************************)
(* The HTTP front-end of an edge: concurrent runs of `serve_cid`           *)
(* (src/src/server.rs) over one shared cache.  A connection serves one     *)
(* request at a time; an action is the code between two awaits at which    *)
(* another task can change what the handler looks at next.                 *)
(*                                                                         *)
(*   idle         no request: the last one was answered or went away       *)
(*   replay       granted by proof and capability; the replay guard next   *)
(*   checked      access decided; conditional and negative checks next     *)
(*   read         the first cache read next                                *)
(*   cold         missed; the single-flight lock of the CID is looked up   *)
(*   flight       holds a reference to the lock, has not asked for it yet  *)
(*   waiting      asked for the lock (owner[flight] is the task it is      *)
(*                granted to)                                              *)
(*   fetch        owns the lock; the origin fetch is under way             *)
(*   insert, note owns the lock; the origin answered, the cache write next *)
(*   serve        has the bytes; the response is shaped next               *)
(*                                                                         *)
(* req[r] holds the handler's locals: the CID, the `now` that serve_cid    *)
(* reads once, when the request arrives, and the proof presented.          *)
(***************************************************************************)
EXTENDS CacheOps, FifoSet

CONSTANTS
    Conns,        \* the connections
    Proofs,       \* the proofs of possession clients present
    GuardCap,     \* capacity of the replay guard
    MaxObjectCfg, \* max_object_bytes (0 = the cache budget)
    InflightCap,  \* size above which the single-flight map is cleaned (1024)
    MaxLocks,     \* bound on lock identities alive at the same time
    MaxClock,     \* bound on the clock
    MaxRequests,  \* bound on the requests that arrive
    NoConn, NoCid, NoProof

ASSUME HttpAssumption ==
    /\ IsFiniteSet(Conns)
    /\ NoConn \notin Conns
    /\ NoCid \notin Cids
    /\ NoProof \notin Proofs
    /\ GuardCap \in Nat \ {0}
    /\ MaxObjectCfg \in U64
    /\ InflightCap \in Nat
    /\ MaxLocks \in Nat
    /\ MaxClock \in U64 \ {0}
    /\ MaxRequests \in Nat

VARIABLES
    cache,    \* EdgeState.cache
    guard,    \* ServerState.replay
    inflight, \* ServerState.inflight: CID -> lock
    owner,    \* owner[l]: the connection lock l is granted to, or NoConn
    waiters,  \* waiters[l]: those queued on l, first come first served
    pc,       \* pc[r]: where the handler of connection r is
    req,      \* req[r]: its request
    flight,   \* flight[r]: the single-flight lock it has a reference to
    clock,    \* the second now_secs() returns
    arrived,  \* history: requests that arrived
    accepted, \* history: the proofs accepted, in order
    known     \* history: until when the origin's last answer about a CID is
              \* to be remembered (0: nothing is)

handler == <<pc, req, flight>>
locks == <<inflight, owner, waiters>>
history == <<arrived, accepted, known>>
vars == <<cache, guard, locks, handler, clock, history>>

Locks == 1 .. MaxLocks
NoLock == 0

Critical == {"fetch", "insert", "note"}    \* run under the single-flight lock
Flying == {"flight", "waiting"} \cup Critical
Steps == {"idle", "replay", "checked", "read", "cold", "serve"} \cup Flying

Request == [cid : Cids, at : U64, proof : Proofs \cup {NoProof}]
NoReq == [cid |-> NoCid, at |-> 0, proof |-> NoProof]

\* serve_cid's max_object
MaxObject == IF MaxObjectCfg = 0 THEN MaxBytes ELSE MaxObjectCfg

-----------------------------------------------------------------------------
Init ==
    /\ cache = NewCache
    /\ guard = NewFifoSet
    /\ inflight = EmptyFcn
    /\ owner = [l \in Locks |-> NoConn]
    /\ waiters = [l \in Locks |-> << >>]
    /\ pc = [r \in Conns |-> "idle"]
    /\ req = [r \in Conns |-> NoReq]
    /\ flight = [r \in Conns |-> NoLock]
    /\ clock = 1
    /\ arrived = 0
    /\ accepted = << >>
    /\ known = [c \in Cids |-> 0]

Goto(r, step) == pc' = [pc EXCEPT ![r] = step] /\ UNCHANGED req

\* the handler returns a response, or is dropped: its locals are gone
End(r) ==
    /\ pc' = [pc EXCEPT ![r] = "idle"]
    /\ req' = [req EXCEPT ![r] = NoReq]

(***************************************************************************)
(* A request arrives and serve_cid runs up to its access decision.  A      *)
(* request granted by proof and capability goes to the replay guard, a     *)
(* public or presigned one does not.  (A denied request is answered 403    *)
(* here and leaves no trace.)                                              *)
(***************************************************************************)
Arrive(r, c, p, step) ==
    /\ pc[r] = "idle"
    /\ arrived < MaxRequests
    /\ arrived' = arrived + 1
    /\ pc' = [pc EXCEPT ![r] = step]
    /\ req' = [req EXCEPT ![r] = [cid |-> c, at |-> clock, proof |-> p]]
    /\ UNCHANGED <<cache, guard, locks, flight, clock, accepted, known>>

ArriveOpen(r, c) == Arrive(r, c, NoProof, "checked")
ArrivePop(r, c, p) == Arrive(r, c, p, "replay")

\* verify_pop_once: the proof is consumed, or refused as a replay (403)
CheckReplay(r) ==
    /\ pc[r] = "replay"
    /\ guard' = Accept(guard, req[r].proof, GuardCap)
    /\ IF IsNew(guard, req[r].proof)
       THEN Goto(r, "checked") /\ accepted' = Append(accepted, req[r].proof)
       ELSE End(r) /\ UNCHANGED accepted
    /\ UNCHANGED <<cache, locks, flight, clock, arrived, known>>

\* If-None-Match names the CID: 304 with the cache's metadata, nothing changes
NotModified(r) ==
    /\ pc[r] = "checked"
    /\ End(r)
    /\ UNCHANGED <<cache, guard, locks, flight, clock, history>>

\* `!contains_fresh && is_negative`: 404 from the tombstone
CheckNegative(r) ==
    LET c == req[r].cid
        asks == ~ContainsFresh(cache, c, req[r].at)
    IN  /\ pc[r] = "checked"
        /\ cache' = IF asks THEN IsNegative(cache, c, req[r].at) ELSE cache
        /\ IF asks /\ FreshTombstone(cache, c, req[r].at) THEN End(r) ELSE Goto(r, "read")
        /\ UNCHANGED <<guard, locks, flight, clock, history>>

\* the first cache read
Read(r) ==
    /\ pc[r] = "read"
    /\ cache' = Get(cache, req[r].cid, req[r].at)
    /\ Goto(r, IF ContainsFresh(cache, req[r].cid, req[r].at) THEN "serve" ELSE "cold")
    /\ UNCHANGED <<guard, locks, flight, clock, history>>

-----------------------------------------------------------------------------
(* Single flight.                                                          *)

Referenced(l) == \E r \in Conns : flight[r] = l    \* Arc::strong_count > 1

\* Wrong variants: the clean-up also drops locks that handlers hold a
\* reference to, or there is no clean-up.
CleanedAll == IF Cardinality(DOMAIN inflight) > InflightCap THEN EmptyFcn ELSE inflight
CleanedNever == inflight

\* the map after the opportunistic clean-up at the head of inflight_lock
Cleaned ==
    IF Cardinality(DOMAIN inflight) > InflightCap
    THEN Without(inflight, {c \in DOMAIN inflight : ~Referenced(inflight[c])})
    ELSE inflight

\* an identity no lock alive has: neither in the map nor held by a handler
FreshLocks ==
    {l \in Locks : ~Referenced(l) /\ \A c \in DOMAIN Cleaned : Cleaned[c] # l}

\* inflight_lock: the lock of the map, or a new one (named by the least
\* identity that is free)
TakeFlight(r) ==
    LET c == req[r].cid
    IN  /\ pc[r] = "cold"
        /\ \/ /\ c \in DOMAIN Cleaned
              /\ inflight' = Cleaned
              /\ flight' = [flight EXCEPT ![r] = Cleaned[c]]
              /\ UNCHANGED <<owner, waiters>>
           \/ /\ c \notin DOMAIN Cleaned
              /\ \E l \in FreshLocks :
                    /\ \A m \in FreshLocks : l <= m
                    /\ inflight' = With(Cleaned, c, l)
                    /\ flight' = [flight EXCEPT ![r] = l]
                    /\ owner' = [owner EXCEPT ![l] = NoConn]
                    /\ waiters' = [waiters EXCEPT ![l] = << >>]
        /\ Goto(r, "flight")
        /\ UNCHANGED <<cache, guard, clock, history>>

\* the first poll of flight.lock(): tokio's mutex is granted if free, and
\* queues first come first served otherwise
AskLock(r) ==
    LET l == flight[r]
    IN  /\ pc[r] = "flight"
        /\ IF owner[l] = NoConn
           THEN owner' = [owner EXCEPT ![l] = r] /\ UNCHANGED waiters
           ELSE waiters' = [waiters EXCEPT ![l] = Append(@, r)] /\ UNCHANGED owner
        /\ Goto(r, "waiting")
        /\ UNCHANGED <<cache, guard, inflight, flight, clock, history>>

\* queue W without r, which is queued at most once
Withdraw(W, r) ==
    IF \E i \in 1 .. Len(W) : W[i] = r
    THEN LET i == CHOOSE j \in 1 .. Len(W) : W[j] = r
         IN  SubSeq(W, 1, i - 1) \o SubSeq(W, i + 1, Len(W))
    ELSE W

\* Wrong variant: the lock is freed without waking the first waiter.
DropFlightNoWake(r) ==
    LET l == flight[r]
    IN  /\ flight' = [flight EXCEPT ![r] = NoLock]
        /\ owner' = IF l # NoLock /\ owner[l] = r
                    THEN [owner EXCEPT ![l] = NoConn] ELSE owner
        /\ UNCHANGED <<inflight, waiters>>

\* Wrong variant: only the lock is given up, the handler keeps its reference.
DropFlightKeepRef(r) ==
    LET l == flight[r]
    IN  /\ owner' = IF l # NoLock /\ owner[l] = r
                    THEN [owner EXCEPT ![l] = NoConn] ELSE owner
        /\ UNCHANGED <<inflight, waiters, flight>>

(***************************************************************************)
(* `flight` and `_guard` go out of scope: an owned lock is handed to the   *)
(* first waiter, a queued request for it is withdrawn.                     *)
(***************************************************************************)
DropFlight(r) ==
    LET l == flight[r]
        W == waiters[l]
    IN  /\ flight' = [flight EXCEPT ![r] = NoLock]
        /\ IF l = NoLock THEN UNCHANGED <<owner, waiters>>
           ELSE IF owner[l] # r
           THEN /\ waiters' = [waiters EXCEPT ![l] = Withdraw(W, r)]
                /\ UNCHANGED owner
           ELSE IF W = << >>
           THEN owner' = [owner EXCEPT ![l] = NoConn] /\ UNCHANGED waiters
           ELSE /\ owner' = [owner EXCEPT ![l] = Head(W)]
                /\ waiters' = [waiters EXCEPT ![l] = Tail(W)]
        /\ UNCHANGED inflight

\* Wrong variant: the cache is not read again under the lock.
RecheckNoGet(r) ==
    LET c == req[r].cid
    IN  /\ pc[r] = "waiting"
        /\ owner[flight[r]] = r
        /\ cache' = IsNegative(cache, c, req[r].at)
        /\ IF FreshTombstone(cache, c, req[r].at)
           THEN End(r) /\ DropFlight(r)
           ELSE Goto(r, "fetch") /\ UNCHANGED <<locks, flight>>
        /\ UNCHANGED <<guard, clock, history>>

\* Wrong variant: the tombstone is not looked at again under the lock.
RecheckNoNegative(r) ==
    LET c == req[r].cid
    IN  /\ pc[r] = "waiting"
        /\ owner[flight[r]] = r
        /\ cache' = Get(cache, c, req[r].at)
        /\ IF ContainsFresh(cache, c, req[r].at)
           THEN Goto(r, "serve") /\ DropFlight(r)
           ELSE Goto(r, "fetch") /\ UNCHANGED <<locks, flight>>
        /\ UNCHANGED <<guard, clock, history>>

\* the lock is granted: look again, since a sibling may have filled the cache
\* or left a tombstone; otherwise start the origin fetch
Recheck(r) ==
    LET c == req[r].cid
        G == Get(cache, c, req[r].at)
    IN  /\ pc[r] = "waiting"
        /\ owner[flight[r]] = r
        /\ IF ContainsFresh(cache, c, req[r].at)
           THEN cache' = G /\ Goto(r, "serve") /\ DropFlight(r)
           ELSE /\ cache' = IsNegative(G, c, req[r].at)
                /\ IF FreshTombstone(G, c, req[r].at)
                   THEN End(r) /\ DropFlight(r)
                   ELSE Goto(r, "fetch") /\ UNCHANGED <<locks, flight>>
        /\ UNCHANGED <<guard, clock, history>>

-----------------------------------------------------------------------------
(* The origin's answers (any of them, whatever it answered before).        *)

FetchOk(r) ==
    /\ pc[r] = "fetch"
    /\ Size[req[r].cid] <= MaxObject
    /\ Goto(r, "insert")
    /\ UNCHANGED <<cache, guard, locks, flight, clock, history>>

\* 413: neither cached nor remembered as absent
FetchTooLarge(r) ==
    /\ pc[r] = "fetch"
    /\ Size[req[r].cid] > MaxObject
    /\ End(r)
    /\ DropFlight(r)
    /\ UNCHANGED <<cache, guard, clock, history>>

FetchErr(r) ==
    /\ pc[r] = "fetch"
    /\ Goto(r, "note")
    /\ UNCHANGED <<cache, guard, locks, flight, clock, history>>

\* what is lost from a cache is no longer to be remembered
Forget(K, C, D) ==
    [d \in Cids |->
        IF d \in (Held(C) \cup Tombstoned(C)) \ (Held(D) \cup Tombstoned(D))
        THEN 0 ELSE K[d]]

\* the fetched bytes are cached with the `now` of the request's arrival
InsertFetched(r) ==
    LET c == req[r].cid
    IN  /\ pc[r] = "insert"
        /\ cache' = Insert(cache, c, req[r].at)
        /\ known' = IF Cacheable(c)
                    THEN [Forget(known, cache, cache') EXCEPT
                            ![c] = ExpiresAt(req[r].at, DefaultTtl)]
                    ELSE known
        /\ Goto(r, "serve")
        /\ DropFlight(r)
        /\ UNCHANGED <<guard, clock, arrived, accepted>>

\* the failed fetch is noted, again with the `now` of the arrival; 404
NoteFetchFailed(r) ==
    LET c == req[r].cid
    IN  /\ pc[r] = "note"
        /\ cache' \in NoteAbsent(cache, c, req[r].at)
        /\ known' = IF NegTtl = 0 THEN known
                    ELSE [Forget(known, cache, cache') EXCEPT
                            ![c] = SatAdd(req[r].at, NegTtl)]
        /\ End(r)
        /\ DropFlight(r)
        /\ UNCHANGED <<guard, clock, arrived, accepted>>

\* edge::serve shapes the answer; it only reads the cache
Serve(r) ==
    /\ pc[r] = "serve"
    /\ End(r)
    /\ UNCHANGED <<cache, guard, locks, flight, clock, history>>

-----------------------------------------------------------------------------
\* the client goes away: hyper drops the handler's future at its await
Cancel(r) ==
    /\ pc[r] # "idle"
    /\ End(r)
    /\ DropFlight(r)
    /\ UNCHANGED <<cache, guard, clock, history>>

Tick ==
    /\ clock < MaxClock
    /\ clock' = clock + 1
    /\ UNCHANGED <<cache, guard, locks, handler, history>>

\* the handler's own next step, the origin's answer included
Step(r) ==
    \/ CheckReplay(r)
    \/ CheckNegative(r)
    \/ Read(r)
    \/ TakeFlight(r)
    \/ AskLock(r)
    \/ Recheck(r)
    \/ FetchOk(r)
    \/ FetchTooLarge(r)
    \/ FetchErr(r)
    \/ InsertFetched(r)
    \/ NoteFetchFailed(r)
    \/ Serve(r)

Next ==
    \/ \E r \in Conns :
          \/ \E c \in Cids :
                \/ ArriveOpen(r, c)
                \/ \E p \in Proofs : ArrivePop(r, c, p)
          \/ NotModified(r)
          \/ Step(r)
          \/ Cancel(r)
    \/ Tick

Spec == Init /\ [][Next]_vars

(***************************************************************************)
(* The runtime polls every ready handler again, the origin client answers  *)
(* or fails in the end, and a granted lock is a ready handler.  Nobody has *)
(* to send requests, go away, or be conditional.                           *)
(***************************************************************************)
FairSpec == Spec /\ \A r \in Conns : WF_vars(Step(r))

-----------------------------------------------------------------------------
(* Properties.                                                             *)

\* The shape of the state: a handler past inflight_lock, and no other, has a
\* reference to a lock; times are read from the clock.
TypeOK ==
    /\ IsCache(cache)
    /\ DOMAIN inflight \subseteq Cids /\ inflight \in [DOMAIN inflight -> Locks]
    /\ owner \in [Locks -> Conns \cup {NoConn}]
    /\ waiters \in [Locks -> Seq(Conns)]
    /\ pc \in [Conns -> Steps]
    /\ req \in [Conns -> Request \cup {NoReq}]
    /\ flight \in [Conns -> Locks \cup {NoLock}]
    /\ \A r \in Conns :
          /\ pc[r] # "idle" => req[r] \in Request /\ req[r].at <= clock
          /\ pc[r] = "replay" => req[r].proof \in Proofs
          /\ pc[r] \in Flying <=> flight[r] # NoLock
    /\ clock \in 1 .. MaxClock
    /\ guard \in [seen : SUBSET Proofs, order : Seq(Proofs)]
    /\ arrived \in Nat
    /\ accepted \in Seq(Proofs)
    /\ known \in [Cids -> U64]

\* Single flight: no two requests fetch (or write back) the same CID at the
\* same time, however the clean-up of the inflight map, cancelled requests
\* and hand-overs of the lock interleave.
SingleFlight ==
    \A r, q \in Conns :
        pc[r] \in Critical /\ pc[q] \in Critical /\ req[r].cid = req[q].cid => r = q

\* The HTTP edge never holds an object and a "known absent" tombstone for it
\* together: note_absent does not look at the entries, and insert and
\* note_absent write with times read long before; only the single-flight
\* lock and the look again under it keep the two apart.
NeverBoth == Held(cache) \cap Tombstoned(cache) = {}

\* Every answer of the origin is remembered for its TTL, counted from the
\* arrival of the request that asked, unless the cache evicted it for room:
\* no fetch of a CID starts while such an answer is still good, whichever
\* requests wait, give up or arrive in between.
AskedOnce ==
    [][\A r \in Conns :
          pc[r] = "waiting" /\ pc'[r] = "fetch" => known[req[r].cid] < clock]_vars

\* A proof is accepted twice only after the replay guard took in a full
\* capacity of other proofs since.
ReplayOnlyAfterCapacity ==
    \A i, j \in 1 .. Len(accepted) :
        i < j /\ accepted[i] = accepted[j] =>
            Cardinality({accepted[k] : k \in i + 1 .. j - 1}) >= GuardCap

\* The single-flight map grows past its clean-up threshold only as far as
\* there are requests in flight: however many CIDs are asked for over time,
\* locks nobody refers to any more never add up.
InflightBounded ==
    [][LET n == Cardinality(DOMAIN inflight')
       IN  n > Cardinality(DOMAIN inflight) =>
              \/ n <= InflightCap + 1
              \/ n <= Cardinality({r \in Conns : flight'[r] # NoLock})]_vars

\* Every request is answered (or its client goes away): nobody waits for
\* ever on a single-flight lock, also when owners are cancelled.
EventuallyAnswered ==
    \A r \in Conns : pc[r] # "idle" ~> pc[r] = "idle"

-----------------------------------------------------------------------------
(* The read path as its specification sees it.                             *)

Stage(step) ==
    CASE step = "idle" -> "quiet"
      [] step = "serve" -> "telling"
      [] step \in Critical -> "asking"
      [] OTHER -> "looking"

\* what cache C knows about c
NoFact == [kind |-> "unknown", until |-> 0]
Fact(C, c) ==
    IF c \in Held(C) THEN [kind |-> "here", until |-> C.entries[c].expires]
    ELSE IF c \in Tombstoned(C) THEN [kind |-> "gone", until |-> C.tombs[c]]
    ELSE NoFact

Facts == [c \in Cids |-> Fact(cache, c)]
Asks == [r \in Conns |-> [stage |-> Stage(pc[r]), cid |-> req[r].cid, since |-> req[r].at]]

Fits == {S \in SUBSET Cids : TotalBytes(S) <= MaxBytes}
MaxGone == IF NegTtl = 0 THEN 0 ELSE MaxTombs
HereUntil == [t \in U64 |-> ExpiresAt(t, DefaultTtl)]
GoneUntil == [t \in U64 |-> SatAdd(t, NegTtl)]

ReadPath == INSTANCE ReadSpec
            WITH now <- clock, fact <- Facts, ask <- Asks, Fitting <- Fits

\* Locks, looks and write-backs together implement the read path: the origin
\* is asked about a CID by one request at a time and only when nothing still
\* good is known, what it answers is known until its time from the arrival of
\* the request that asked, and it is forgotten before that only to make room:
\* for an object among objects, for an absence among absences.
ImplementsReads == ReadPath!Spec
=============================================================================
