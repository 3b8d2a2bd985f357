# ce-cdn in TLA+

ce-cdn is a content-delivery network built on the CE node SDK: edges keep a
byte-budgeted cache of content-addressed objects and serve them over HTTP and
over the mesh, publishers replicate objects to edges, keep a catalog file of
what is where, and run a maintenance loop. This directory holds TLA+ models of
its core, the TLC runs that check them and TLAPS proofs about them. Paths below
are relative to the repository.

## Inventory

| component | state | operations | talks to | what is hard |
|---|---|---|---|---|
| `cache.rs` edge cache | entries, tombstones, byte total, recency tick, counters | insert, get, note_absent, is_negative, purge, sweep_expired | called under one mutex by `server.rs` and `host.rs` | incremental byte total, eviction at the limit, caller's `now` out of order, saturation |
| `server.rs` HTTP front-end | shared cache, replay guard, map of per-CID single-flight locks | GET/HEAD of a CID, status, metrics, health | cache, origin, `pop`, `presign`, `edge` | concurrent handlers, locks released between checks, cancelled handlers, stale `now` |
| `pop.rs`, `presign.rs` access | bounded set of accepted nonces | verify, verify once, mint | `server.rs` | credentials of one request used in another, check and use of a proof apart, capacity of the replay guard, restarts, time windows |
| `host.rs` mesh host | shared cache, public set, seen reply tokens, revocations | poll loop: cache, read, purge, status, sweep, re-advertise | CE client, cache | redelivery, lost replies, stale revocations |
| `edge.rs`, `cidrange.rs` | none (pure) | response shaping, range parsing, chunk spans | `server.rs`, `host.rs`, `client.rs` | boundaries |
| `catalog.rs` catalog | JSON file, lock file, temporary file | load, save, update | every CLI command | processes side by side, crashes, stale locks |
| `replication.rs`, `maintain.rs` | none; catalog snapshot during a pass | rank, select, plan, run_once, run_forever | client, catalog | snapshot versus commit, other commands meanwhile, probe failures, an edge that always declines |
| `client.rs` | none | put, get, range, replicate, probe, purge | CE client | timeouts with late success |
| `main.rs` commands | none; the catalog file | put, purge, forget, status, maintain, presign, serve | client, catalog | kills between talking to edges and updating the catalog, commands side by side |
| `lib.rs`, `caps.rs`, `limits.rs`, `proto.rs` | none | constants, wire types, lookups | all | - |

What makes them correct: the cache never holds more than its budget and its
byte total never drifts; concurrent reads of one missing object ask the origin
once and everybody is answered in the end; an object and a "known absent" mark
for it do not coexist; a proof is single-use within the guard's capacity;
catalog updates are atomic, isolated and not lost; a range answer is exactly the
bytes asked for; private content goes out only on a credential made for it; what
the catalog records as a replica was one, what was purged is gone from the edges that
advertised it and stays off the catalog, and
maintenance settles at the target or for a reason.
`PROJECT.json` lists the hazards line by line with the properties that cover
them.

## Modules

| module | models | notes |
|---|---|---|
| `CacheOps` | the methods of `EdgeCache` as operators on a cache record | shared by every model that has a cache |
| `EdgeCache` | the cache as a state machine, one action per method | any `now` in any order, as its callers really pass |
| `LruSpec` | abstract: a byte-budgeted LRU list, as a set and its order | no ticks, no counter, no clock; the refinement mapping is in `EdgeCache` |
| `MCEdgeCache` | TLC instance | |
| `FifoSet` | `ReplayGuard` and `SeenTokens`, which are the same structure | |
| `HttpEdge` | concurrent `serve_cid` handlers over one cache, guard and inflight map | one action per stretch of code between awaits that matter |
| `ReadSpec` | abstract: what is known about each CID and who is asking | no locks, queues, guard, ticks or tombstone map; the refinement mapping is in `HttpEdge` |
| `MCHttpEdge`, `MCHttpHerd` | TLC instances; the second adds a history of who waited behind whom | |
| `MeshHost`, `MCMeshHost` | the mesh loop `serve` of `host.rs` with the handling of each topic, over `CacheOps` and `FifoSet` | sequential, so one action per request |
| `CidRange` | `cidrange.rs` as operators | |
| `RangeRead` | one read, whole or by range: `get_range`, `do_read` with `read_range`, `edge::serve` | one action per chunk |
| `CatalogLock`, `MCCatalogLock` | processes in `Catalog::update` with kills and I/O errors | |
| `Maintain`, `MCMaintain` | the commands put, purge, forget, status and maintain over one catalog, with the edges they talk to | one action per request to an edge; `Catalog::update` is one step |
| `Access`, `MCAccess` | minting and checking of proofs, links and chains: `resolve_grant` and the replay check of `serve_cid`, over `FifoSet` | |
| `CacheOpsProofs`, `EdgeCacheProofs`, `HttpEdgeProofs`, `CatalogLockProofs`, `RangeReadProofs`, `MeshHostProofs`, `AccessProofs`, `MaintainProofs` | lemmas and theorems | |

**Cache.** A cache record holds `entries` (CID to insertion time, expiry and
tick), `tombs`, `curBytes`, `tick` and the counters. Contents are abstracted to
their length, a function `Size` of the CID because content is
content-addressed. The eviction loop `while cur_bytes + len > max_bytes` is the
closed form `Victims`: an entry goes exactly when the budget is still exceeded
with all older entries gone. `EvictLoop` is the loop turn by turn (a function on
the number of turns, of which there is at most one per entry), and
`EvictionIsTheLoop` says that the two agree and that the loop has ended.
`TotalBytes` counts a set of (CID, position) pairs instead of adding
up recursively, so that cardinality facts carry the proofs.
`note_absent` returns a set of results because several tombstones may share the
earliest expiry and HashMap order picks one.

**HTTP.** A handler is `pc` (its place in `serve_cid`), `req` (CID, the `now` of
arrival, the proof) and `flight` (its reference to a single-flight lock). The
grant is an input here (`Access` decides it): a request either needs no proof or
presents one that the guard must consume. `inflight` maps CIDs to lock identities; `Cleaned` is the
clean-up that `inflight_lock` does above its threshold; tokio's mutex is
`owner` and a FIFO queue `waiters`. Dropping a handler at any await (`Cancel`)
releases what it has and withdraws it from the queue. The origin may answer any
fetch with the object or an error. `known` is history: until when the last
answer of the origin should be remembered. `ReadSpec` sees none of this: there
the edge knows one fact per CID (here, gone or nothing, until some second) and a
request looks, asks or is told. `Facts` reads the facts off the entries and
tombstones and `Asks` the stages off `pc`. The steps that show there are arrival,
end and cancellation, a hit, the step into the fetch (`Ask`), the write-back of an
object (`Found`) or of a failure (`Missing`), an answer over the limits (`PassOn`)
and the removal of what has expired (`Forget`); all the others stutter.

**Catalog.** Each process runs one `update`, whose edit adds an entry of its
own, so the catalog is the set of edits in it. A process may be killed before
any step, leaving its lock and temporary; any step that does I/O may fail.
Removing a lock file removes the file of that name, whoever created it, both in
`acquire` and in `Drop`. A live holder is assumed to finish within
`LOCK_STALE_SECS` (the guard of `Tick`): the update edits a small local file.

**Mesh loop.** A turn starts with the periodic work when the turn counter is a
multiple of `RefreshEvery` (20 in the code): the node's revocations are taken
over, or kept when it does not answer, and the cache is swept. Then requests are
handled one after the other. The node is modelled as delivering any request of
`RequestOf` at any time and any number of times; a delivery whose token is still
in `SeenTokens` changes nothing and is a stuttering step. Because one task does
everything, a request is one action at the time `now_secs` is read. A capability
chain is what it grants; signature, expiry and attenuation belong to the
library. The clock does not run backwards. `handled` and `late` are history: the
requests handled with their outcome, and how many turns a revocation has been
out. (`cmd_serve` with `--http` starts the HTTP server and not this loop, though
its comment at main.rs:199 says that both run over one shared state; the models
of the two front-ends are therefore separate.)

**Range reads.** A header is what the parser finds in it: absent, ignored (other
unit or several ranges), malformed, a suffix, an open range or a span; the
characters are left out. Byte i of the object is the number i, so a misplaced
byte shows. The store may fail every fetch; a chunk with the wrong bytes is
refused by its CID, which is the same failure. Manifests are the ones
`put_object` writes, except that the chunk size stated may be 0, which the code
checks for. u64 arithmetic does not overflow here: every sum is at most the
object's size plus one chunk.

**Access.** A signature is the pair of the key that made it and the message; any
key signs proofs (`MintProof`, any expiry) and links (`Presign`, any ttl) at any
time, and a request presents any signature made so far, under any name, beside
the expiry and nonce it was made over or those of another, with any chain. The
two messages differ in their domain tag. `Arrive` is `serve_cid` up to the grant;
a request granted by proof and chain then waits for the guard (`CheckReplay`),
where it is checked again with the `now` of its arrival and marked as used;
another connection may present the same proof in between, and the client may go
away (`Finish`). A denied request leaves no trace and is a stuttering step.
`Restart` empties the guard. A nonce is fresh per proof: SHA-256 over counter,
nanoseconds and process id is taken to be free of collisions.

**Publisher.** `catalog` is the file; `holds` and `adverts` are the edges' caches
and the DHT; `pc` and `job` are the place and the locals of every command that
runs (`snap` and `res` are run_once's snapshot and results, `ask` the edges still
to talk to, `up` and `down` what they answered). Several command-line processes
and daemons run side by side. A request and its answer are one step (`Request`);
otherwise the answer is lost after the effect (`AnswerLost`), the edge declines
(`EdgeDeclines`), or the sender gives up first and the request takes effect later
or never (`GiveUp`, `LateArrives`, `LateLost`). An edge may forget an object
(`Lose`), discovery may answer in part (`PickBlindly`, and the empty answer in
`FoundFor`), and a process may be killed anywhere or fail its update (`Abort`):
these count as faults, at most `MaxFaults`. Edges in `Refusing` decline every
`cdn/cache`. Ranking is a strict order on the four criteria, and `select` takes
those with fewer than n better candidates. An edge advertises an object when it
caches it on request, and one whose `--public` names it does so on its own from
the first turn of its loop on, whether it holds it or not (host.rs:381-390;
`Announcing`). The code never withdraws an advertisement; a lookup that fails, or finds that
the advertisements have lapsed, is the empty answer, which a purge meets as a
fault. The advertisement put makes for the publisher's own node, which is no edge,
is left out: a purge asks that node too, and nothing there changes.
A command asks its edges one at a time, in any order: probes follow the record,
recruits the ranking and purges the record and then discovery, and nothing
depends on it. An edge comes to hold an object through `cdn/cache`, which
advertises it, or because a reader came (`ReadThrough`: a cold `cdn/read`,
host.rs:170-174, or a cold GET over HTTP, server.rs:514-519), which does not;
`ReadAt` are the edges that readers come to.
Two variables are history: `during`, who held what since a command began, and
`missed`, the edges that the purge at work did not reach: it failed there,
discovery left them out, or the object was stored there after they were asked.

Operators marked "Wrong variant" are plausible slips of the definition they
precede; `PROJECT.json` pairs each property with one that it must catch.

## Runs

| run | expects | shows |
|---|---|---|
| `EdgeCache` | pass | `BytesExact`, `WithinBounds` (`WithinBudget` and `TombstonesBounded`), `RecencyStrict`, `CountersBalance`, `ExpiryNotBeforeInsertion`, `EvictionIsTheLoop`, and `ImplementsLru` (refinement of `LruSpec`) |
| `HttpEdge` | pass | `SingleFlight`, `NeverBoth`, `AskedOnce`, `InflightBounded`, and `ImplementsReads` (refinement of `ReadSpec`), with three handlers, two objects that evict each other, a moving clock |
| `HttpEdgeLive` | pass | `EventuallyAnswered`, behind owners of the flight lock that are cancelled |
| `HttpHerd` | violation | requests waiting behind the fetch of an oversize object each fetch it again (README.md:133 promises one fetch) |
| `HttpSlowOrigin` | violation | a failure that takes longer than the negative TTL leaves a tombstone that has expired (README.md:134) |
| `MeshHost` | pass | `PurgeHolds`, `RevocationTakesHold`, `SweptMeansFresh` |
| `MeshReply` | violation | an object over the mesh ceiling that was cached on request is sent whole in one reply (host.rs:568 says no reply exceeds the ceiling) |
| `RangeRead` | pass | `ExactBytes`, `OnlyCoveringChunks`, `MeshBounded`, `RefusedForAReason` |
| `Access` | pass | `PrivateOnlyOnAuthority`, `ReplayNeedsBurst`, `NoFalseReplay` |
| `Maintain` | pass | `PurgeLeavesNoReplica`, `MeasuredWhileRunning`, `NoResurrection`, `DroppedForCause`, and `MaintenanceSettles` under fairness |
| `CatalogLock` | pass | `CatalogWhole`, `NoEffectBeforeRename`, `ExclusiveUntilSecondSteal`, `EveryUpdateEnds` |
| `CatalogSteal` | violation | two processes that both find a killed process's lock stale end up in the catalog together and one successful update is lost (catalog.rs:166) |

Bounds. `EdgeCache`: objects of 0, 1, 2 and 3 bytes against a budget of 2 cover
the empty, the fitting, the exactly fitting and the impossible object; `U64Max`
is 3 with times 0 and 3, so that every TTL both fits and saturates; four ticks
let an entry be inserted, read, evicted and replaced; one tombstone fills the
negative cache. `HttpEdge`: three handlers are an owner, a waiter and a
newcomer; `InflightCap` 0 makes the clean-up run on every miss, which is the
adverse case; the clock reaches 3 with both TTLs 1, so answers expire while
handlers wait; `MaxLocks` 5 is never exhausted (at most one identity per handler
and per CID is alive); sizes 1 and 2 against a budget of 2 make an object give way
to the other, and the one tombstone makes an absence give way. With three
requests the third finds what the first two left. `HttpEdgeLive`: an object over
the size limit in place of one that fits, one proof, so that handlers end at the
guard as well, and a clock that stands, for no ending depends on it. (The guard
itself is checked in `Access`, where two proofs drive each other out.)
`Access`: a private and a public object, a client with a good, an overlong and a
self-issued chain, a publisher whose links are honoured; two signatures and a
guard of capacity 1 let a proof be forgotten and presented again; four requests
over two connections let two carry the same proof past the first check; the
clock reaches the last u64, 3, with windows of 1 and 2, so they are open, closed
and saturated; one restart. `Maintain`: one object, a daemon and a command-line
process with two commands, one fault; three edges of which the best-ranked always
declines, with targets of one (met or not, depending on who was picked) and of
three (never met). Readers come to one edge, the worst-ranked: an object with
target three is recorded and advertised there, one with target one is not, so
copies of both kinds arise. The middle edge announces the object whether it
holds it or not, so purges ask an edge in vain. Two commands are the pairs that matter (put and purge, put and
put again, purge and put, forget and purge) beside a pass that never stops. That is 690,019 states.
`MeshHost`: one
request of each kind, among them a store, a range read and a purge of the same
private object by the same capability; a seen set of two tokens and four
requests handled let a token be forgotten and its request run again; a refresh
every second turn of a counter that wraps at three puts refreshes on both sides
of a wrap that is no multiple; three seconds of clock with a TTL of one let an
entry expire. `RangeRead`: totals 0, 1, 3, 4, 5 and chunk sizes 1 to 3 give the
empty object, whole and short last chunks and single chunks; offsets reach one
beyond the largest object; the limits lie within these sizes.
`CatalogLock`: three processes are the killed holder and two thieves; three
attempts let each of them wait, steal and create.

Symmetry (`ConnSymmetry`) is used in the runs `HttpEdge` and `Access` only, which
check no liveness.
Deadlock checking is off where requests or processes are bounded: the system
stops when all are done.

Fairness. `HttpEdge!FairSpec` is weak fairness of each handler's own next step:
tokio polls every ready task again, its mutex is FIFO, and the origin client
answers or fails in the end. Arrivals, cancellations and conditional requests
are not assumed. `CatalogLock!FairSpec` is weak fairness of each live process,
which the operating system's scheduler gives; time need not pass.
`Maintain!FairSpec` is weak fairness of the next step of a running command and of
the start of a daemon's next pass: a request is answered or times out,
`run_forever` sleeps and starts again, also after a failed pass. Commands, late
deliveries and faults are not assumed; that faults end is the bound on them, and
without it nothing could settle. `MaintenanceSettles` allows a shortfall only
when the best-ranked edges not on record, as many as are missing, all decline:
that is what the code gives, for a pass asks no further edges.

## Proofs

All constants are arbitrary within the named assumptions
(`CacheAssumption`: finitely many CIDs, sizes and TTLs within u64, room for at
least one tombstone; `EdgeCacheAssumption`, `HttpAssumption`,
`CatalogAssumption`: types of the other constants, absent values that are not
members, and finitely many connections; `MeshAssumption`: the same for requests
and capabilities, a range no longer than its object, a seen set, a refresh period
and a counter that are not empty; `RangeAssumption`: sizes, offsets and limits are
naturals and chunks are not empty).

* `CacheOpsProofs`: every cache operation preserves `Sound`: types, exact byte
  total, budget, distinct ticks not ahead of the counter, bounded tombstones.
  These are inductive only together: the budget after an eviction follows from
  the exact byte total, and that the victims are a prefix in recency order from
  distinct ticks. The eviction loop, for any length, ends in `EvictToFit`
  (`LoopRuns`): that its turns exist as a function (`LoopDefined`) and that each
  takes one of the victims and leaves the others the same (`LoopTurn`) carry over
  from turn to turn. `CountUp` does the counting: induction for a set of numbers
  in place of a predicate, from the well-foundedness of the naturals as the prover
  has it. The lemmas on counters, entry times, ticks and the window
  of a `FifoSet` that the other proofs cite are here too.
* `EdgeCacheProofs`: hence `TypeOK`, `BytesExact`, `WithinBudget`,
  `RecencyStrict` and `TombstonesBounded` (so `WithinBounds`) for every cache, and by what each
  operation adds to the two sides of the books `CountersBalance` and
  `ExpiryNotBeforeInsertion`, and by `LoopRuns` `EvictionIsTheLoop`. `CacheIsLru` is the refinement of `LruSpec`, step by
  step: a fresh get is a `Use`, an insert that caches is a `Store` that keeps the
  longest most recent part with room for the newcomer (`SurvivorsAreLatest`), an
  insert of an object that cannot fit stutters, and everything else is a
  `Discard`.
* `HttpEdgeProofs`: `TypeOK`, `SingleFlight` and `NeverBoth` for any number of
  connections. Mutual exclusion per CID needs that the lock a handler refers to
  is the one the map has for its CID (`FlightMapped`), which is what the
  clean-up could break and `Arc::strong_count` protects; that a handler in its
  critical section owns that lock (`CriticalOwns`); and for `NeverBoth` that the
  CID being fetched stays out of the cache (`AbsentInCritical`). That no two CIDs
  share a lock (`LocksApartHolds`) and the clean-up bound the map
  (`InflightBounded`). `AskedOnce` needs that what is `known` from the origin is
  in the cache or its tombstones for as long (`AnswersRemembered`), unless it was
  evicted. `ReplayOnlyAfterCapacity`, for which no run of this module has room and
  which is proved only, needs that the guard is the tail of what it accepted
  (`AcceptWindow`); its like `ReplayNeedsBurst` is also checked, in `Access`. `ReadPathKept` is the refinement of `ReadSpec`, one
  lemma per handler step. Its parts are how each cache operation changes the
  facts: `InsertFacts` (a victim gives way only if the newcomer did not fit,
  `VictimMeansFull`, `InsertNeedsRoom`), `NoteFacts`, `GetFacts` and
  `NegativeFacts`. Where they meet, the invariant is needed: that nobody else asks
  about the CID is `SingleFlight`, that nothing good is known when the origin is
  asked is what the two looks of `Recheck` leave, that a write-back finds nothing
  to overwrite is `AbsentInCritical`, and that a hit or a failure changes one fact
  only, since an entry could hide a tombstone, is `NeverBoth` (`HereAndGone`).
* `CatalogLockProofs`: `TypeOK`, `CatalogWhole`, `NoEffectBeforeRename` and
  `ExclusiveUntilSecondSteal` for any number of processes and kills. The lock
  file names its holder (`HolderNamed`) and, before the first steal, whoever
  decided to steal decided so about a killed process (`VictimKilled`). Hence
  every change of the file until the second steal adds one edit to what the file
  holds at that moment (`UpdatesAreAtomic`), which is how `Maintain` models an
  update.
* `RangeReadProofs`: a partial outcome lies within the object
  (`PartialInBounds`), the span holds exactly the chunks with bytes of the range
  (`SpanCovers`), and slicing them gives the range (`SliceIsRange`), from
  quotient and remainder; and all properties of `RangeRead` for every object
  size, chunk size, header and limit. What is joined so far is the run of bytes from the
  first covering chunk to the one the loop is at (`Progress`), the span is the
  right one for the outcome (`RightSpan`), and the outcome is what the header
  means (`OutcomeMeans`).
* `MeshHostProofs`: all safety properties of `MeshHost` for any requests,
  capabilities, refresh period and capacity of the seen set. A request runs again
  only when the seen set, which is the tail of the tokens handled, has forgotten
  its token (`Window`), which gives `PurgeHolds`. How long a revocation can be out
  unnoticed is bounded by the place in the refresh period (`NotLate`, on the turn
  counter's phase, which a wrap can only bring forward): `RevocationTakesHold`.
  `SweptMeansFresh` needs that the clock does not run back between a sweep and
  the inserts after it.
* `AccessProofs`: all properties of `Access` for any keys, objects, chains,
  connections, windows and capacity (`AccessAssumption`: the zero id is nobody's
  key, finitely many keys, bounds within u64). The guard knows names and nonces
  only, so nonces must tell proofs apart (`NonceInv`) and the guard must be the
  tail of what was accepted, all of it unless it is full (`GuardInv`, from the
  lemma `AcceptWindow` about `FifoSet`); a request past the first check holds
  something that was signed before it arrived (`ReqInv`).
* `MaintainProofs`: all safety properties of `Maintain` for any processes,
  objects, edges, rankings and targets (`MaintainAssumption`: finitely many
  edges, distinct ids, `Refusing`, `ReadAt` and `Announcing` are edges). What a command writes was gathered
  many steps before: it is tied to the command's place (`Located`), to what held
  since it began (`Gathered`, `HoldingInv`) and to the snapshot (`Accounted`:
  every recorded replica has answered, failed or is still to be asked).
  `PurgeLeavesNoReplica` needs `PurgeAsks`: while a purge is at work, an edge that
  advertised its object and holds it is still to be asked or was missed. It holds
  when the purge takes the object, since recorded and advertised edges are its
  targets, and no later step of anybody makes an edge a holder without counting
  it. The three action properties follow from the invariant step by step.

Model-checked only: the liveness properties `EventuallyAnswered`,
`EveryUpdateEnds` and `MaintenanceSettles`, for liveness under fairness is out of
the prover's reach. Every other property of a passing run is a theorem. The
properties of the four runs that expect a violation are not, of course.

## Not modelled

Cryptography itself (a signature is key and message; chains are what they
grant), the CE node and its client, object storage behind `put` and `get`, JSON
and hex encodings, the character checks of `limits.rs`, the lookup of
capabilities in `caps.rs`, response headers, `/status`, `/health` and the metrics
text, per-entry hit counters, `ls` and the CLI's arguments and printing. None of
these keeps state that another part reads. The revocations of the HTTP edge are
not modelled because it has none: `resolve_grant` calls `authorize` with
`never_revoked`.

## Where code and words differ

Four runs of the table above show a difference; these were met while modelling
and have no run of their own:

* `cmd_status` writes `healthy = advertised.contains(edge)` and not the outcome
  of its probes (main.rs:586-590), although the comment there says "freshly-measured
  health" and catalog.rs:59 "Result of the most recent status probe".
* maintain.rs:5 speaks of probing recorded and discovered edges; `run_once` probes
  the recorded ones.
* maintain.rs:62 counts targets that "could not be fully met (no more candidate
  edges available)"; a shortfall also arises when a well-ranked edge declines while
  others were never asked, in every pass anew.
* A cold `cdn/read` stores the object at its edge without advertising it
  (host.rs:170-174; the `TOPIC_READ` arm, 537-541, does not call
  `advertise_service`), and so does the write-back of an HTTP read
  (server.rs:514-519); only an edge whose `--public` names the object advertises it on
  its own. After put, a read at another edge and a purge that copy is
  still served until it expires, with no failure involved; main.rs:414 says "Fan out
  to ALL edges". `PurgeLeavesNoReplica` speaks of edges that advertised, and it
  fails without that condition.
* A malformed Range header on an empty object is answered 416: `parse_range` looks
  at the size (cidrange.rs:90) before it splits the header, while cidrange.rs:53 and
  68-70 and edge.rs:103-104 say that a malformed header is ignored and the whole
  object served. `RefusedForAReason` names that case as its exception: otherwise a
  header is refused only if it is a range without a byte, and then always.
* server.rs:25 says that HTTP and mesh share one authorization rule; the mesh
  consults revocations and HTTP does not.
* presign.rs:14 lets the edge's own key sign links; only `presign_keys` are accepted.
* A link minted for longer than seven days is refused until it is within seven
  days of its end.
* A proof is single-use for one lifetime of one edge, and a request that is
  cancelled after the guard took its proof has used it up.
* `cmd_serve --http` runs the HTTP server only (see Mesh loop above).

## Plan

`Maintain` over the steps of `CatalogLock` with steals is left, to see what a
second steal does to the properties of `Maintain`; up to it, `UpdatesAreAtomic`
covers the composition. An abstract specification of the mesh loop beside
`ReadSpec` would say of `cdn/read` what that says of the HTTP front-end.
