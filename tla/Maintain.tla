------------------------------ MODULE Maintain ------------------------------
(***************************************************************************)
(* The publisher's side: the commands put, purge, forget, status and       *)
(* maintain (src/src/main.rs, src/src/maintain.rs) over one catalog file,  *)
(* and the edges they talk to.  Processes run commands side by side; a     *)
(* daemon runs `maintain --watch`.  Catalog::update is one step here       *)
(* (CatalogLock opens it up); between loading the catalog and updating it  *)
(* a command talks to edges, one request at a time.                        *)
(*                                                                         *)
(*   idle    no command                                                    *)
(*   next    takes the next CID of a pass or of a purge                    *)
(*   probe   cdn/status to the recorded edges of the CID                   *)
(*   pick    chooses edges to replicate to                                 *)
(*   cache   cdn/cache to the chosen edges                                 *)
(*   purge   cdn/purge to the known holders                                *)
(*   commit  Catalog::update next                                          *)
(*                                                                         *)
(* A request and its answer are one step, for what the sender learns is    *)
(* its own; or the answer is lost after the effect, or the sender gives up *)
(* first and the request takes effect afterwards (`late`), or never.       *)
(***************************************************************************)
EXTENDS Naturals, FiniteSets

CONSTANTS
    Cids,        \* the objects
    Edges,       \* the edges on the mesh
    Clis,        \* processes that run single commands
    Daemons,     \* processes that run maintain --watch
    Signals,     \* Signals[e]: what the atlas and the history say of edge e
    Refusing,    \* edges that decline every cdn/cache (no capability there)
    ReadAt,      \* edges that readers come to
    Announcing,  \* edges that list the objects as public and so advertise
                 \* them from their first turn on, held or not
    Targets,     \* values of --replication
    TagsOf,      \* TagsOf[c]: the tags c is put with
    MaxCommands, \* bound on the commands of Clis
    MaxFaults,   \* bound on failures: losses, timeouts, refusals, kills
    U64Max,      \* last_seen_secs of an edge the atlas does not know
    NoCid

Procs == Clis \cup Daemons

EdgeCandidate == [id : Nat, work : Nat, seen : 0 .. U64Max, mem : Nat]

ASSUME MaintainAssumption ==
    /\ IsFiniteSet(Edges)
    /\ NoCid \notin Cids
    /\ Clis \cap Daemons = {}
    /\ U64Max \in Nat
    /\ Signals \in [Edges -> EdgeCandidate]
    /\ \A e, f \in Edges : Signals[e].id = Signals[f].id => e = f
    /\ Refusing \subseteq Edges
    /\ ReadAt \subseteq Edges /\ Announcing \subseteq Edges
    /\ Targets \subseteq Nat
    /\ MaxCommands \in Nat /\ MaxFaults \in Nat

VARIABLES
    catalog,  \* the catalog file: CID -> entry, for the CIDs it lists
    holds,    \* holds[e]: the CIDs edge e holds and would serve
    adverts,  \* adverts[c]: the edges that advertised cdn:<c> on the DHT
    pc,       \* pc[p]: where process p is
    job,      \* job[p]: the locals of its command
    late,     \* requests given up by their sender and not handled yet
    commands, \* commands started
    faults,   \* failures so far
    during,   \* history: during[p]: the <<edge, CID>> pairs that held at some
              \* moment since the command of p began
    missed    \* history: missed[p]: the edges that the purge of p at work has
              \* not reached: it failed there, discovery left them out, or the
              \* object was stored there when they had been asked

vars == <<catalog, holds, adverts, pc, job, late, commands, faults, during, missed>>
history == <<during, missed>>
edgeState == <<holds, adverts>>
progress == <<pc, job>>

-----------------------------------------------------------------------------
(* The catalog (src/src/catalog.rs).                                       *)

Entry == [target : Targets, edges : SUBSET Edges, healthy : SUBSET Edges]
EmptyCatalog == [c \in {} |-> [target |-> 0, edges |-> {}, healthy |-> {}]]

Upsert(cat, c, entry) ==
    [d \in DOMAIN cat \cup {c} |-> IF d = c THEN entry ELSE cat[d]]
Remove(cat, c) == [d \in DOMAIN cat \ {c} |-> cat[d]]
CidsWithTag(cat, t) == {c \in DOMAIN cat : t \in TagsOf[c]}
EdgeIds(cat, c) == IF c \in DOMAIN cat THEN cat[c].edges ELSE {}

-----------------------------------------------------------------------------
(* Placement (src/src/replication.rs).                                     *)

\* rank: a comes before b
Before(a, b) ==
    \/ a.work > b.work
    \/ a.work = b.work /\ a.seen < b.seen
    \/ a.work = b.work /\ a.seen = b.seen /\ a.mem > b.mem
    \/ a.work = b.work /\ a.seen = b.seen /\ a.mem = b.mem /\ a.id < b.id

\* select: the n best candidates that are not excluded
Select(cand, n, exclude) ==
    LET free == DOMAIN cand \ exclude
    IN  {e \in free : Cardinality({f \in free : Before(cand[f], cand[e])}) < n}

ReplicasNeeded(target, healthy) == IF healthy < target THEN target - healthy ELSE 0

\* pick_edges' candidates: the edges D that find_service returned, those not
\* in H without a history and those not in A unknown to the atlas
Candidates(D, H, A) ==
    [e \in D |->
        [id   |-> Signals[e].id,
         work |-> IF e \in H THEN Signals[e].work ELSE 0,
         seen |-> IF e \in A THEN Signals[e].seen ELSE U64Max,
         mem  |-> IF e \in A THEN Signals[e].mem ELSE 0]]

-----------------------------------------------------------------------------
NoResults == [c \in {} |-> {}]
NoJob == [cmd |-> "none", snap |-> EmptyCatalog, todo |-> {}, cid |-> NoCid, target |-> 0,
          ask |-> {}, up |-> {}, down |-> {}, res |-> NoResults, keep |-> FALSE, only |-> {}]

\* put ran before, without a failure, for the CIDs that are listed
Init ==
    /\ \E listed \in SUBSET Cids : \E n \in [listed -> Targets] :
          LET placed(c) == Select(Signals, n[c], {}) \ Refusing
          IN  /\ catalog = [c \in listed |-> [target |-> n[c], edges |-> placed(c),
                                             healthy |-> placed(c)]]
              /\ adverts = [c \in Cids |-> Announcing \cup IF c \in listed THEN placed(c) ELSE {}]
              /\ holds = [e \in Edges |-> {c \in listed : e \in placed(c)}]
    /\ pc = [p \in Procs |-> "idle"]
    /\ job = [p \in Procs |-> NoJob]
    /\ late = {}
    /\ commands = 0
    /\ faults = 0
    /\ during = [p \in Procs |-> {}]
    /\ missed = [p \in Procs |-> {}]

\* a failure is one of at most MaxFaults
Fault == faults < MaxFaults /\ faults' = faults + 1
NoFault == UNCHANGED faults

Holding == {x \in Edges \X Cids : x[2] \in holds[x[1]]}

\* process p begins a command with locals j at step
Begin(p, j, step) ==
    /\ pc[p] = "idle"
    /\ pc' = [pc EXCEPT ![p] = step]
    /\ job' = [job EXCEPT ![p] = j]
    /\ during' = [during EXCEPT ![p] = Holding]
    /\ UNCHANGED <<late, edgeState, faults, missed>>

Command(p) == p \in Clis /\ commands < MaxCommands /\ commands' = commands + 1

Goto(p, step) == pc' = [pc EXCEPT ![p] = step]

End(p) ==
    /\ pc' = [pc EXCEPT ![p] = "idle"]
    /\ job' = [job EXCEPT ![p] = NoJob]
    /\ during' = [during EXCEPT ![p] = {}]
    /\ missed' = [missed EXCEPT ![p] = {}]

-----------------------------------------------------------------------------
(* Commands begin.                                                         *)

\* cmd_put: the object is stored, then n edges are asked to cache it
StartPut(p, c, n, replicate) ==
    /\ Command(p)
    /\ Begin(p, [NoJob EXCEPT !.cmd = "put", !.cid = c, !.target = n],
             IF replicate /\ n > 0 THEN "pick" ELSE "commit")
    /\ UNCHANGED catalog

\* cmd_purge of the CIDs C, at every known holder or at one edge only
StartPurge(p, C, only, keep) ==
    /\ Command(p)
    /\ C # {}
    /\ Begin(p, [NoJob EXCEPT !.cmd = "purge", !.todo = C, !.only = only, !.keep = keep], "next")
    /\ UNCHANGED catalog

\* find_service("cdn:<c>"): the advertised holders, or an error read as none
FoundFor(c) == {adverts[c], {}}

\* cmd_status: its probes change nothing; F is what find_service returned.
\* With no edge to ask it returns early.
StartStatus(p, c, F) ==
    /\ Command(p)
    /\ F \in FoundFor(c)
    /\ F \cup EdgeIds(catalog, c) # {}
    /\ Begin(p, [NoJob EXCEPT !.cmd = "status", !.cid = c, !.only = F], "commit")
    /\ UNCHANGED catalog

\* cmd_forget: one update, no edge is asked
Forget(p, c) ==
    /\ Command(p)
    /\ pc[p] = "idle"
    /\ catalog' = Remove(catalog, c)
    /\ UNCHANGED <<edgeState, progress, late, faults, history>>

\* run_once takes its snapshot without the lock
StartPass(p) ==
    /\ Command(p) \/ (p \in Daemons /\ UNCHANGED commands)
    /\ Begin(p, [NoJob EXCEPT !.cmd = "maintain", !.snap = catalog, !.todo = DOMAIN catalog],
             "next")
    /\ UNCHANGED catalog

-----------------------------------------------------------------------------
(* Requests to edges: client.probe, replicate_to and purge_at.  Each edge  *)
(* of the list is asked once; the order of the lists (rank for the picks,  *)
(* as recorded for probes, then as advertised for purges) is left open.    *)

\* edge e comes to hold object c
Store(c, e) ==
    /\ holds' = [holds EXCEPT ![e] = @ \cup {c}]
    /\ during' = [p \in Procs |-> IF pc[p] = "idle" THEN {} ELSE during[p] \cup {<<e, c>>}]
    /\ missed' = [p \in Procs |-> IF pc[p] = "purge" /\ job[p].cid = c /\ e \notin job[p].ask
                                  THEN missed[p] \cup {e} ELSE missed[p]]

\* what the edge does with a request (src/src/host.rs, in MeshHost)
Handle(op, c, e) ==
    \/ /\ op = "cache" /\ e \notin Refusing
       /\ Store(c, e)
       /\ adverts' = [adverts EXCEPT ![c] = @ \cup {e}]
    \/ /\ op = "purge"
       /\ holds' = [holds EXCEPT ![e] = @ \ {c}]
       /\ UNCHANGED <<adverts, history>>
    \/ /\ op = "probe" \/ (op = "cache" /\ e \in Refusing)
       /\ UNCHANGED <<edgeState, history>>

\* its answer: cached, purged or held
Says(op, c, e) == IF op = "cache" THEN e \notin Refusing ELSE c \in holds[e]

\* Wrong variant: an edge is taken for a replica whatever it answered.
LearnAny(p, e, yes) ==
    job' = [job EXCEPT ![p].ask = @ \ {e},
                       ![p].up = IF yes \/ pc[p] = "cache" THEN @ \cup {e} ELSE @,
                       ![p].down = IF yes THEN @ ELSE @ \cup {<<e, job[p].cid>>}]

\* the sender goes on to its next edge, with this one as a replica or not
Learn(p, e, yes) ==
    job' = [job EXCEPT ![p].ask = @ \ {e},
                       ![p].up = IF yes THEN @ \cup {e} ELSE @,
                       ![p].down = IF yes THEN @ ELSE @ \cup {<<e, job[p].cid>>}]

Asking(p, e) ==
    /\ pc[p] \in {"probe", "cache", "purge"}
    /\ e \in job[p].ask

Request(p, e) ==
    /\ Asking(p, e)
    /\ Handle(pc[p], job[p].cid, e)
    /\ Learn(p, e, Says(pc[p], job[p].cid, e))
    /\ NoFault
    /\ UNCHANGED <<catalog, pc, late, commands>>

\* the edge handles the request and its answer does not come through
AnswerLost(p, e) ==
    /\ Asking(p, e)
    /\ Handle(pc[p], job[p].cid, e)
    /\ Learn(p, e, FALSE)
    /\ Fault
    /\ UNCHANGED <<catalog, pc, late, commands>>

\* a request of p to e had no effect when p went on
Unreached(p, e) ==
    missed' = IF pc[p] = "purge" THEN [missed EXCEPT ![p] = @ \cup {e}] ELSE missed

\* a negative answer of `handle`: the edge refuses or its own fetch fails
EdgeDeclines(p, e) ==
    /\ Asking(p, e)
    /\ Learn(p, e, FALSE)
    /\ Unreached(p, e)
    /\ Fault
    /\ UNCHANGED <<catalog, edgeState, pc, late, commands, during>>

\* the requests of which nobody waits for the answer, with that of p to e
\* (a probe has no effect)
Stray(p, e) ==
    IF pc[p] = "probe" THEN late
    ELSE late \cup {[op |-> pc[p], cid |-> job[p].cid, edge |-> e]}

\* 30 s or 15 s pass before the request reaches its edge
GiveUp(p, e) ==
    /\ Asking(p, e)
    /\ Learn(p, e, FALSE)
    /\ late' = Stray(p, e)
    /\ Unreached(p, e)
    /\ Fault
    /\ UNCHANGED <<catalog, edgeState, pc, commands, during>>

\* a request arrives after its sender gave up
LateArrives(m) ==
    /\ Handle(m.op, m.cid, m.edge)
    /\ late' = late \ {m}
    /\ NoFault
    /\ UNCHANGED <<catalog, progress, commands>>

LateLost(m) ==
    /\ late' = late \ {m}
    /\ UNCHANGED <<catalog, edgeState, progress, commands, faults, history>>

\* A reader comes to an edge that does not hold the object: a cold cdn/read,
\* or a cold GET over HTTP, stores it there.  Neither advertises the edge, which
\* only an edge that lists the object as public does on its own.
ReadThrough(e, c) ==
    /\ e \in ReadAt
    /\ c \notin holds[e]
    /\ Store(c, e)
    /\ UNCHANGED <<catalog, adverts, progress, late, commands, faults>>

\* an edge restarts, evicts the object or lets it expire
Lose(e, c) ==
    /\ c \in holds[e]
    /\ Fault
    /\ holds' = [holds EXCEPT ![e] = @ \ {c}]
    /\ UNCHANGED <<catalog, adverts, progress, late, commands, history>>

-----------------------------------------------------------------------------
(* A pass, entry by entry.                                                 *)

TakeEntry(p) ==
    /\ pc[p] = "next"
    /\ job[p].cmd = "maintain"
    /\ \/ \E c \in job[p].todo :
             /\ job' = [job EXCEPT ![p].todo = @ \ {c},
                                   ![p].cid = c,
                                   ![p].target = job[p].snap[c].target,
                                   ![p].ask = job[p].snap[c].edges,
                                   ![p].up = {}]
             /\ Goto(p, "probe")
       \/ /\ job[p].todo = {}
          /\ Goto(p, "commit")
          /\ UNCHANGED job
    /\ UNCHANGED <<catalog, edgeState, late, commands, faults, history>>

Idle(p) == job[p].ask = {}

\* Wrong variant: replicas that answered count only until recruits replace them.
ResolveRecruits(p) ==
    /\ job' = [job EXCEPT ![p].res =
                   Upsert(@, job[p].cid, IF pc[p] = "cache"
                                         THEN job[p].up \ EdgeIds(job[p].snap, job[p].cid)
                                         ELSE job[p].up)]
    /\ Goto(p, "next")

\* the entry's new edges are ready
Resolve(p) ==
    /\ job' = [job EXCEPT ![p].res = Upsert(@, job[p].cid, job[p].up)]
    /\ Goto(p, "next")

\* plan_entry
Plan(p) ==
    /\ pc[p] = "probe"
    /\ Idle(p)
    /\ IF ReplicasNeeded(job[p].target, Cardinality(job[p].up)) > 0
       THEN Goto(p, "pick") /\ UNCHANGED job
       ELSE Resolve(p)
    /\ UNCHANGED <<catalog, edgeState, late, commands, faults, history>>

\* pick_edges, by a pass with its recorded edges excluded, by put with none
PickFrom(p, cand) ==
    /\ pc[p] = "pick"
    /\ job' = [job EXCEPT ![p].ask =
                  Select(cand, ReplicasNeeded(job[p].target, Cardinality(job[p].up)),
                         EdgeIds(job[p].snap, job[p].cid))]
    /\ Goto(p, "cache")
    /\ UNCHANGED <<catalog, edgeState, late, commands, history>>

Pick(p) == PickFrom(p, Candidates(Edges, Edges, Edges)) /\ NoFault

\* find_service, history or atlas answers in part or not at all
PickBlindly(p) ==
    /\ Fault
    /\ \E D, H \in SUBSET Edges, A \in {Edges, {}} : PickFrom(p, Candidates(D, H, A))

\* every pick was asked
Recruited(p) ==
    /\ pc[p] = "cache"
    /\ Idle(p)
    /\ IF job[p].cmd = "put" THEN Goto(p, "commit") /\ UNCHANGED job ELSE Resolve(p)
    /\ UNCHANGED <<catalog, edgeState, late, commands, faults, history>>

-----------------------------------------------------------------------------
(* A purge, CID by CID.                                                    *)

\* Wrong variant: only the recorded edges are asked.
PurgeTargetsRecorded(c, F) == EdgeIds(catalog, c)

\* recorded replicas and advertised holders
PurgeTargets(c, F) == EdgeIds(catalog, c) \cup F

TakePurge(p) ==
    /\ pc[p] = "next"
    /\ job[p].cmd = "purge"
    /\ \E c \in job[p].todo : \E F \in FoundFor(c) :
          /\ IF F = adverts[c] THEN NoFault ELSE Fault
          /\ job' = [job EXCEPT ![p].todo = @ \ {c},
                                ![p].cid = c,
                                ![p].ask = IF job[p].only = {} THEN PurgeTargets(c, F)
                                           ELSE job[p].only]
          /\ missed' = [missed EXCEPT ![p] = (adverts[c] \ F) \ EdgeIds(catalog, c)]
    /\ Goto(p, "purge")
    /\ UNCHANGED <<catalog, edgeState, late, commands, during>>

\* every holder was asked: the entry is forgotten, whatever they answered
Purged(p) ==
    /\ pc[p] = "purge"
    /\ Idle(p)
    /\ catalog' = IF job[p].keep THEN catalog ELSE Remove(catalog, job[p].cid)
    /\ IF job[p].todo = {} THEN End(p)
       ELSE Goto(p, "next") /\ missed' = [missed EXCEPT ![p] = {}] /\ UNCHANGED <<job, during>>
    /\ UNCHANGED <<edgeState, late, commands, faults>>

-----------------------------------------------------------------------------
(* Catalog::update at the end of put, maintain and status.                 *)

CommitPut(p) ==
    /\ pc[p] = "commit" /\ job[p].cmd = "put"
    /\ catalog' = Upsert(catalog, job[p].cid,
                         [target |-> job[p].target, edges |-> job[p].up, healthy |-> job[p].up])
    /\ End(p)
    /\ UNCHANGED <<edgeState, late, commands, faults>>

\* Wrong variant: entries a purge has removed meanwhile come back.
MergedAll(cat, res) ==
    [c \in DOMAIN cat \cup DOMAIN res |->
        IF c \in DOMAIN res
        THEN [target |-> IF c \in DOMAIN cat THEN cat[c].target ELSE 0,
              edges |-> res[c], healthy |-> res[c]]
        ELSE cat[c]]

\* the results of a pass, for the entries that still exist
Merged(cat, res) ==
    [c \in DOMAIN cat |->
        IF c \in DOMAIN res
        THEN [cat[c] EXCEPT !.edges = res[c], !.healthy = res[c]]
        ELSE cat[c]]

CommitPass(p) ==
    /\ pc[p] = "commit" /\ job[p].cmd = "maintain"
    /\ catalog' = Merged(catalog, job[p].res)
    /\ End(p)
    /\ UNCHANGED <<edgeState, late, commands, faults>>

\* the advertised edges are noted as healthy
CommitStatus(p) ==
    LET c == job[p].cid
    IN  /\ pc[p] = "commit" /\ job[p].cmd = "status"
        /\ catalog' = IF c \in DOMAIN catalog
                      THEN [catalog EXCEPT ![c].healthy = catalog[c].edges \cap job[p].only]
                      ELSE catalog
        /\ End(p)
        /\ UNCHANGED <<edgeState, late, commands, faults>>

\* the process is killed, with a request under way or not, or its catalog
\* update fails
Abort(p) ==
    /\ pc[p] # "idle"
    /\ Fault
    /\ \/ UNCHANGED late
       \/ \E e \in Edges : Asking(p, e) /\ late' = Stray(p, e)
    /\ End(p)
    /\ UNCHANGED <<catalog, edgeState, commands>>

Step(p) ==
    \/ \E e \in Edges : Request(p, e)
    \/ TakeEntry(p) \/ Plan(p) \/ Pick(p) \/ Recruited(p)
    \/ TakePurge(p) \/ Purged(p)
    \/ CommitPut(p) \/ CommitPass(p) \/ CommitStatus(p)

Start(p, c) ==
    \/ \E n \in Targets, r \in BOOLEAN : StartPut(p, c, n, r)
    \/ \E F \in FoundFor(c) : StartStatus(p, c, F)
    \/ \E k \in BOOLEAN :
          \/ StartPurge(p, {c}, {}, k)
          \/ \E e \in Edges : StartPurge(p, {c}, {e}, k)
          \/ \E t \in TagsOf[c] : StartPurge(p, CidsWithTag(catalog, t), {}, k)
    \/ Forget(p, c)

Next ==
    \/ \E p \in Procs :
          \/ Step(p) \/ StartPass(p) \/ PickBlindly(p) \/ Abort(p)
          \/ \E e \in Edges : AnswerLost(p, e) \/ EdgeDeclines(p, e) \/ GiveUp(p, e)
          \/ \E c \in Cids : Start(p, c)
    \/ \E m \in late : LateArrives(m) \/ LateLost(m)
    \/ \E e \in Edges, c \in Cids : ReadThrough(e, c) \/ Lose(e, c)

Spec == Init /\ [][Next]_vars

(***************************************************************************)
(* A running command goes on, an edge that is reached answers in the end,  *)
(* and the daemon wakes up again.  Nobody has to start a command, and      *)
(* failures, of which there are finitely many, are not assumed.            *)
(***************************************************************************)
FairSpec ==
    /\ Spec
    /\ \A p \in Procs : WF_vars(Step(p))
    /\ \A p \in Daemons : WF_vars(StartPass(p))

-----------------------------------------------------------------------------
(* Properties.                                                             *)

\* The shape of the state; what a pass works on was in its snapshot.
TypeOK ==
    /\ DOMAIN catalog \subseteq Cids /\ catalog \in [DOMAIN catalog -> Entry]
    /\ \A c \in DOMAIN catalog : catalog[c].healthy \subseteq catalog[c].edges
    /\ holds \in [Edges -> SUBSET Cids]
    /\ adverts \in [Cids -> SUBSET Edges]
    /\ pc \in [Procs -> {"idle", "next", "probe", "pick", "cache", "purge", "commit"}]
    /\ late \subseteq [op : {"cache", "purge"}, cid : Cids, edge : Edges]
    /\ commands \in 0 .. MaxCommands /\ faults \in 0 .. MaxFaults
    /\ during \in [Procs -> SUBSET (Edges \X Cids)]
    /\ missed \in [Procs -> SUBSET Edges]
    /\ \A p \in Procs :
          /\ job[p].todo \subseteq Cids
          /\ {job[p].ask, job[p].up, job[p].only} \subseteq SUBSET Edges
          /\ DOMAIN job[p].res \subseteq DOMAIN job[p].snap
          /\ pc[p] \in {"probe", "pick", "cache", "purge"} => job[p].cid \in Cids

\* the processes that update the catalog in this step
Committing == {p \in Procs : pc[p] = "commit" /\ pc'[p] = "idle" /\ catalog' # catalog}

\* the edges that a command of p puts on record in this step held the object
\* while it ran
RecordsMeasured ==
    \A p \in Committing : \A c \in DOMAIN catalog' :
        job[p].cmd \in {"put", "maintain"} =>
            \A e \in catalog'[c].edges \ EdgeIds(catalog, c) : <<e, c>> \in during[p]

\* A replica is put on record by put or by a pass only if its edge held the
\* object at some moment while that command ran: neither refusals nor lost
\* answers nor what another command did before count as a replica.
MeasuredWhileRunning == [][RecordsMeasured]_vars

\* the CIDs listed in this step are listed by put
ListsOnlyPut ==
    \A c \in DOMAIN catalog' \ DOMAIN catalog :
        \E p \in Procs : pc[p] = "commit" /\ job[p].cmd = "put" /\ job[p].cid = c

\* A pass that was under way while an entry was purged or forgotten does not
\* bring it back (maintain.rs:132): only put lists a CID.
NoResurrection == [][ListsOnlyPut]_vars

\* the replicas that leave the record of a listed CID in this step
DropsWithCause ==
    \A c \in DOMAIN catalog \cap DOMAIN catalog' :
        \A e \in catalog[c].edges \ catalog'[c].edges :
            \E p \in Committing :
                \/ job[p].cmd = "put" /\ job[p].cid = c
                \/ /\ job[p].cmd = "maintain"
                   /\ <<e, c>> \in job[p].down \/ e \notin EdgeIds(job[p].snap, c)

\* A recorded replica leaves the record of a listed CID only when put lists
\* the CID anew, when a pass probed the edge in vain, or when a pass commits
\* that took its snapshot before the replica was recorded: a replica that
\* answers its probe is never dropped.
DroppedForCause == [][DropsWithCause]_vars

\* A purge that has asked everybody leaves the object at no edge that ever
\* advertised it, but for those where it failed, that discovery left out, or
\* where the object was stored again after they were asked.  Replicas that
\* no record shows (their put was killed or gave up on them, another put or
\* pass overwrote them) are purged all the same, through their advertisement.
\* Copies that reads left at edges that never advertised are not found:
\* main.rs:414 says ALL edges.
PurgeLeavesNoReplica ==
    \A p \in Procs : pc[p] = "purge" /\ Idle(p) /\ job[p].only = {} =>
        \A e \in Edges : job[p].cid \in holds[e] =>
            e \notin adverts[job[p].cid] \/ e \in missed[p]

\* nothing a pass could improve: every replica on record is there, and the
\* edges it would recruit all decline
Settled(c) ==
    LET rec == catalog[c].edges
        better(e) == {f \in Edges \ rec : Before(Signals[f], Signals[e])}
    IN  /\ \A e \in rec : c \in holds[e]
        /\ \A e \in Edges \ rec :
              Cardinality(rec) + Cardinality(better(e)) < catalog[c].target => e \in Refusing

\* Maintenance settles: once failures and commands have ended, every listed
\* object is at its target or short of it only because the best-ranked edges
\* not on record decline.  (A willing edge that ranks below them is never
\* asked: the picks are as many as replicas are missing.)
MaintenanceSettles == <>[](\A c \in DOMAIN catalog : Settled(c))
=============================================================================
