--------------------------- MODULE MaintainProofs ---------------------------
(***************************************************************************)
(* The publisher's commands, for any number of CIDs, edges and processes,  *)
(* any ranking and any targets.                                            *)
(*                                                                         *)
(* Why the invariant is stronger than the properties: what a command       *)
(* writes to the catalog was gathered in its locals many steps before, so  *)
(* the locals must be tied to what happened since the command began        *)
(* (Gathered) and to the snapshot it works from (Accounted); and what a    *)
(* purge leaves behind when everybody was asked rests on what holds while  *)
(* it asks: an advertised holder is still to be asked or was missed        *)
(* (PurgeAsks).                                                            *)
(***************************************************************************)
EXTENDS Maintain, FiniteSetTheorems, TLAPS

GoodEntry == {x \in Entry : x.healthy \subseteq x.edges}
Catalogs == UNION {[D -> GoodEntry] : D \in SUBSET Cids}
Results == UNION {[D -> SUBSET Edges] : D \in SUBSET Cids}

Steps == {"idle", "next", "probe", "pick", "cache", "purge", "commit"}
Talking == {"probe", "pick", "cache", "purge"}
Commands == {"none", "put", "purge", "status", "maintain"}

Job ==
    [cmd : Commands, snap : Catalogs, todo : SUBSET Cids, cid : Cids \cup {NoCid},
     target : Targets \cup {0}, ask : SUBSET Edges, up : SUBSET Edges,
     down : SUBSET (Edges \X Cids), res : Results, keep : BOOLEAN, only : SUBSET Edges]

StateInv ==
    /\ catalog \in Catalogs
    /\ holds \in [Edges -> SUBSET Cids]
    /\ adverts \in [Cids -> SUBSET Edges]
    /\ pc \in [Procs -> Steps]
    /\ job \in [Procs -> Job]
    /\ late \subseteq [op : {"cache", "purge"}, cid : Cids, edge : Edges]
    /\ commands \in 0 .. MaxCommands /\ faults \in 0 .. MaxFaults
    /\ during \in [Procs -> SUBSET (Edges \X Cids)]

\* the locals j of a command at step s
Located(s, j) ==
    /\ s = "idle" => j = NoJob
    /\ s \in Talking => j.cid \in Cids
    /\ s = "next" => j.cmd \in {"maintain", "purge"}
    /\ s = "probe" => j.cmd = "maintain"
    /\ s \in {"pick", "cache"} => j.cmd \in {"put", "maintain"}
    /\ s = "purge" => j.cmd = "purge"
    /\ s = "commit" => j.cmd \in {"put", "maintain", "status"}
    /\ j.cmd = "put" => j.cid \in Cids /\ j.target \in Targets
    /\ j.todo \subseteq Cids
    /\ j.cmd = "maintain" => j.todo \subseteq DOMAIN j.snap
    /\ j.cmd = "maintain" /\ s \in Talking => j.cid \in DOMAIN j.snap
    /\ DOMAIN j.res \subseteq DOMAIN j.snap

\* what was learnt held at some moment since the command began, D
Gathered(j, D) ==
    /\ j.cmd \in {"put", "maintain"} => \A e \in j.up : <<e, j.cid>> \in D
    /\ \A c \in DOMAIN j.res : \A e \in j.res[c] : <<e, c>> \in D

\* a pass accounts for every replica of its snapshot
Accounted(s, j) ==
    j.cmd = "maintain" =>
        /\ \A c \in DOMAIN j.res : \A e \in j.snap[c].edges \ j.res[c] : <<e, c>> \in j.down
        /\ s \in Talking =>
              \A e \in j.snap[j.cid].edges :
                  e \in j.up \/ <<e, j.cid>> \in j.down \/ (s = "probe" /\ e \in j.ask)

ProcInv(s, j, D) == Located(s, j) /\ Gathered(j, D) /\ Accounted(s, j)

HoldingInv == \A p \in Procs : pc[p] # "idle" => Holding \subseteq during[p]

CoreInv ==
    /\ StateInv
    /\ \A p \in Procs : ProcInv(pc[p], job[p], during[p])
    /\ HoldingInv

\* an advertised holder of the CID that p purges is still to be asked, or was
\* missed
PurgeAsks ==
    \A p \in Procs : pc[p] = "purge" /\ job[p].only = {} =>
        \A e \in Edges : job[p].cid \in holds[e] /\ e \in adverts[job[p].cid] =>
            e \in job[p].ask \cup missed[p]

PurgeInv == missed \in [Procs -> SUBSET Edges] /\ PurgeAsks

IInv == CoreInv /\ PurgeInv

-----------------------------------------------------------------------------
(* Catalogs and results.                                                   *)

\* A catalog lists CIDs, each with an entry.
LEMMA CatalogShape ==
    ASSUME NEW cat
    PROVE  cat \in Catalogs <=> DOMAIN cat \subseteq Cids /\ cat \in [DOMAIN cat -> GoodEntry]
  BY DEF Catalogs

\* The results of a pass list CIDs, each with its edges.
LEMMA ResultsShape ==
    ASSUME NEW res
    PROVE  res \in Results <=> DOMAIN res \subseteq Cids /\ res \in [DOMAIN res -> SUBSET Edges]
  BY DEF Results

\* put lists a CID.
LEMMA UpsertCatalog ==
    ASSUME NEW cat \in Catalogs, NEW c \in Cids, NEW x \in GoodEntry
    PROVE  /\ Upsert(cat, c, x) \in Catalogs
           /\ DOMAIN Upsert(cat, c, x) = DOMAIN cat \cup {c}
           /\ Upsert(cat, c, x)[c] = x
           /\ \A d \in DOMAIN cat \ {c} : Upsert(cat, c, x)[d] = cat[d]
<1> DEFINE U == Upsert(cat, c, x)
<1>1. DOMAIN cat \subseteq Cids /\ cat \in [DOMAIN cat -> GoodEntry]
  BY CatalogShape
<1>2. /\ DOMAIN U = DOMAIN cat \cup {c} /\ U[c] = x
      /\ \A d \in DOMAIN cat \ {c} : U[d] = cat[d]
      /\ U \in [DOMAIN cat \cup {c} -> GoodEntry]
  BY <1>1 DEF Upsert
<1> HIDE DEF U
<1>3. U \in Catalogs
  BY <1>1, <1>2, CatalogShape
<1>4. QED
  BY <1>2, <1>3 DEF U

\* A pass notes the edges of one more CID.
LEMMA UpsertResults ==
    ASSUME NEW res \in Results, NEW c \in Cids, NEW E \in SUBSET Edges
    PROVE  /\ Upsert(res, c, E) \in Results
           /\ DOMAIN Upsert(res, c, E) = DOMAIN res \cup {c}
           /\ Upsert(res, c, E)[c] = E
           /\ \A d \in DOMAIN res \ {c} : Upsert(res, c, E)[d] = res[d]
<1> DEFINE U == Upsert(res, c, E)
<1>1. DOMAIN res \subseteq Cids /\ res \in [DOMAIN res -> SUBSET Edges]
  BY ResultsShape
<1>2. /\ DOMAIN U = DOMAIN res \cup {c} /\ U[c] = E
      /\ \A d \in DOMAIN res \ {c} : U[d] = res[d]
      /\ U \in [DOMAIN res \cup {c} -> SUBSET Edges]
  BY <1>1 DEF Upsert
<1> HIDE DEF U
<1>3. U \in Results
  BY <1>1, <1>2, ResultsShape
<1>4. QED
  BY <1>2, <1>3 DEF U

\* forget and purge remove a CID and change no other entry.
LEMMA RemoveCatalog ==
    ASSUME NEW cat \in Catalogs, NEW c
    PROVE  /\ Remove(cat, c) \in Catalogs
           /\ DOMAIN Remove(cat, c) = DOMAIN cat \ {c}
           /\ \A d \in DOMAIN cat \ {c} : Remove(cat, c)[d] = cat[d]
<1> DEFINE U == Remove(cat, c)
<1>1. DOMAIN cat \subseteq Cids /\ cat \in [DOMAIN cat -> GoodEntry]
  BY CatalogShape
<1>2. /\ DOMAIN U = DOMAIN cat \ {c}
      /\ \A d \in DOMAIN cat \ {c} : U[d] = cat[d]
      /\ U \in [DOMAIN cat \ {c} -> GoodEntry]
  BY <1>1 DEF Remove
<1> HIDE DEF U
<1>3. U \in Catalogs
  BY <1>1, <1>2, CatalogShape
<1>4. QED
  BY <1>2, <1>3 DEF U

\* A pass commits the edges it found for the CIDs that are still listed.
LEMMA MergedCatalog ==
    ASSUME NEW cat \in Catalogs, NEW res \in Results
    PROVE  /\ Merged(cat, res) \in Catalogs
           /\ DOMAIN Merged(cat, res) = DOMAIN cat
           /\ \A c \in DOMAIN cat :
                 Merged(cat, res)[c].edges = IF c \in DOMAIN res THEN res[c] ELSE cat[c].edges
<1> DEFINE U == Merged(cat, res)
<1>1. DOMAIN cat \subseteq Cids /\ cat \in [DOMAIN cat -> GoodEntry]
  BY CatalogShape
<1>2. DOMAIN U = DOMAIN cat /\ U = [c \in DOMAIN cat |-> U[c]]
  BY DEF Merged
<1>3. ASSUME NEW c \in DOMAIN cat
      PROVE  /\ U[c] \in GoodEntry
             /\ U[c].edges = IF c \in DOMAIN res THEN res[c] ELSE cat[c].edges
  <2>1. cat[c] \in Entry
    BY <1>1 DEF GoodEntry
  <2>2. CASE c \in DOMAIN res
    <3>1. U[c] = [cat[c] EXCEPT !.edges = res[c], !.healthy = res[c]]
      BY <2>2 DEF Merged
    <3>2. res[c] \in SUBSET Edges
      BY <2>2, ResultsShape
    <3> HIDE DEF U
    <3>3. U[c] \in Entry /\ U[c].edges = res[c] /\ U[c].healthy = res[c]
      BY <2>1, <3>1, <3>2 DEF Entry
    <3>4. QED
      BY <2>2, <3>3 DEF GoodEntry
  <2>3. CASE c \notin DOMAIN res
    BY <1>1, <2>3 DEF Merged
  <2>4. QED
    BY <2>2, <2>3
<1> HIDE DEF U
<1>4. U \in Catalogs
  BY <1>1, <1>2, <1>3, CatalogShape
<1>5. QED
  BY <1>2, <1>3, <1>4 DEF U

\* A process without a command.
LEMMA NoJobFacts ==
    /\ NoJob \in Job
    /\ NoJob.cmd = "none" /\ NoJob.up = {} /\ DOMAIN NoJob.res = {}
    /\ \A D : ProcInv("idle", NoJob, D)
<1>1. EmptyCatalog \in Catalogs /\ DOMAIN EmptyCatalog = {}
  BY CatalogShape DEF EmptyCatalog
<1>2. NoResults \in Results /\ DOMAIN NoResults = {}
  BY ResultsShape DEF NoResults
<1>3. /\ NoJob \in Job /\ NoJob.cmd = "none" /\ NoJob.up = {} /\ NoJob.todo = {}
      /\ NoJob.res = NoResults
  BY <1>1, <1>2 DEF NoJob, Job, Commands
<1> HIDE DEF NoJob
<1>4. QED
  BY <1>2, <1>3 DEF ProcInv, Located, Gathered, Accounted, Talking

-----------------------------------------------------------------------------
(* One process and its locals.                                             *)

\* The constants as the provers want them.
LEMMA ConstantFacts ==
    /\ IsFiniteSet(Edges) /\ NoCid \notin Cids /\ U64Max \in Nat
    /\ Signals \in [Edges -> EdgeCandidate]
    /\ {Refusing, Announcing} \subseteq SUBSET Edges /\ Targets \subseteq Nat
    /\ MaxCommands \in Nat /\ MaxFaults \in Nat
  BY MaintainAssumption

\* What a command learnt stays learnt as time goes on.
LEMMA GrowKeeps ==
    ASSUME NEW s, NEW j, NEW D, NEW D2, ProcInv(s, j, D), D \subseteq D2
    PROVE  ProcInv(s, j, D2)
  BY DEF ProcInv, Gathered

\* A step of p leaves the other processes as they were: their locals are
\* their own, and what held during a command stays in its history.
LEMMA OthersKeep ==
    ASSUME \A q \in Procs : ProcInv(pc[q], job[q], during[q]),
           NEW p \in Procs, ProcInv(pc'[p], job'[p], during'[p]),
           \A q \in Procs \ {p} :
               /\ pc'[q] = pc[q] /\ job'[q] = job[q]
               /\ pc[q] # "idle" => during[q] \subseteq during'[q]
    PROVE  \A q \in Procs : ProcInv(pc'[q], job'[q], during'[q])
<1> SUFFICES ASSUME NEW q \in Procs PROVE ProcInv(pc'[q], job'[q], during'[q])
  OBVIOUS
<1>1. CASE q = p
  BY <1>1
<1>2. CASE q # p /\ pc[q] # "idle"
  BY <1>2, GrowKeeps
<1>3. CASE q # p /\ pc[q] = "idle"
  <2>1. ProcInv(pc[q], job[q], during[q])
    OBVIOUS
  <2>2. job[q] = NoJob
    BY <1>3, <2>1 DEF ProcInv, Located
  <2>3. QED
    BY <1>3, <2>2, NoJobFacts
<1>4. QED
  BY <1>1, <1>2, <1>3

\* A step in which no process takes part.
LEMMA AllKeep ==
    ASSUME \A q \in Procs : ProcInv(pc[q], job[q], during[q]),
           \A q \in Procs :
               /\ pc'[q] = pc[q] /\ job'[q] = job[q]
               /\ pc[q] # "idle" => during[q] \subseteq during'[q]
    PROVE  \A q \in Procs : ProcInv(pc'[q], job'[q], during'[q])
<1> SUFFICES ASSUME NEW q \in Procs PROVE ProcInv(pc'[q], job'[q], during'[q])
  OBVIOUS
<1>1. CASE pc[q] # "idle"
  BY <1>1, GrowKeeps
<1>2. CASE pc[q] = "idle"
  <2>1. ProcInv(pc[q], job[q], during[q])
    OBVIOUS
  <2>2. job[q] = NoJob
    BY <1>2, <2>1 DEF ProcInv, Located
  <2>3. QED
    BY <1>2, <2>2, NoJobFacts
<1>3. QED
  BY <1>1, <1>2

\* the locals j of a sender after the answer of e
Learnt(j, e, yes) ==
    [j EXCEPT !.ask = @ \ {e},
              !.up = IF yes THEN @ \cup {e} ELSE @,
              !.down = IF yes THEN @ ELSE @ \cup {<<e, j.cid>>}]

\* What an answer changes in the locals of its sender.
LEMMA LearnEffect ==
    ASSUME StateInv, NEW p \in Procs, NEW e \in Edges, NEW yes \in BOOLEAN,
           job[p].cid \in Cids, Learn(p, e, yes)
    PROVE  /\ job' \in [Procs -> Job]
           /\ \A q \in Procs \ {p} : job'[q] = job[q]
           /\ job'[p] = Learnt(job[p], e, yes)
<1> DEFINE j == job[p]
           k == Learnt(j, e, yes)
<1>1. job \in [Procs -> Job] /\ j \in Job
  BY DEF StateInv
<1>2. job' = [job EXCEPT ![p] = k]
  BY <1>1 DEF Learn, Learnt
<1>3. k \in Job
  <2>1. <<e, j.cid>> \in Edges \X Cids
    OBVIOUS
  <2> HIDE DEF j
  <2>2. QED
    BY <1>1, <2>1 DEF Job, Learnt
<1> HIDE DEF k
<1>4. job' \in [Procs -> Job] /\ job'[p] = k /\ \A q \in Procs \ {p} : job'[q] = job[q]
  BY <1>1, <1>2, <1>3
<1>5. QED
  BY <1>4 DEF k

\* An answer keeps the locals of its sender in order: a positive one was true
\* when it was given, a negative one is kept as the cause of a drop.
LEMMA LearnKeepsProc ==
    ASSUME NEW s \in {"probe", "cache", "purge"}, NEW j \in Job, NEW D, NEW D2,
           ProcInv(s, j, D), D \subseteq D2,
           NEW e \in Edges, NEW yes \in BOOLEAN,
           yes /\ s # "purge" => <<e, j.cid>> \in D2
    PROVE  ProcInv(s, Learnt(j, e, yes), D2)
<1> DEFINE k == Learnt(j, e, yes)
<1>1. /\ k.cmd = j.cmd /\ k.snap = j.snap /\ k.todo = j.todo /\ k.cid = j.cid
      /\ k.target = j.target /\ k.res = j.res /\ k.only = j.only
      /\ k.ask = j.ask \ {e}
      /\ k.up = (IF yes THEN j.up \cup {e} ELSE j.up)
      /\ k.down = (IF yes THEN j.down ELSE j.down \cup {<<e, j.cid>>})
  BY DEF Job, Learnt
<1> HIDE DEF k
<1>2. Located(s, k)
  BY <1>1 DEF ProcInv, Located
<1>3. Gathered(k, D2)
  BY <1>1 DEF ProcInv, Located, Gathered
<1>4. Accounted(s, k)
  <2> SUFFICES ASSUME j.cmd = "maintain"
               PROVE  /\ \A c \in DOMAIN j.res : \A f \in j.snap[c].edges \ j.res[c] :
                            <<f, c>> \in k.down
                      /\ s \in Talking =>
                            \A f \in j.snap[j.cid].edges :
                                f \in k.up \/ <<f, j.cid>> \in k.down
                                \/ (s = "probe" /\ f \in k.ask)
    BY <1>1 DEF Accounted
  <2>1. j.down \subseteq k.down /\ j.up \subseteq k.up
    BY <1>1
  <2>2. ASSUME s \in Talking, NEW f \in j.snap[j.cid].edges
        PROVE  f \in k.up \/ <<f, j.cid>> \in k.down \/ (s = "probe" /\ f \in k.ask)
    <3>1. f \in j.up \/ <<f, j.cid>> \in j.down \/ (s = "probe" /\ f \in j.ask)
      BY <2>2 DEF ProcInv, Accounted
    <3>2. CASE f # e
      BY <1>1, <2>1, <3>1, <3>2
    <3>3. CASE f = e
      BY <1>1, <3>3
    <3>4. QED
      BY <3>2, <3>3
  <2>3. QED
    BY <2>1, <2>2 DEF ProcInv, Accounted
<1>5. QED
  BY <1>2, <1>3, <1>4 DEF ProcInv, k

-----------------------------------------------------------------------------
(* Requests.                                                               *)

\* What an edge comes to hold is noted in the history of every running
\* command.
LEMMA StoreEffect ==
    ASSUME CoreInv, NEW c \in Cids, NEW e \in Edges, Store(c, e), UNCHANGED pc
    PROVE  /\ holds' \in [Edges -> SUBSET Cids]
           /\ during' \in [Procs -> SUBSET (Edges \X Cids)]
           /\ \A p \in Procs : pc[p] # "idle" =>
                 during[p] \subseteq during'[p] /\ <<e, c>> \in during'[p]
           /\ HoldingInv'
<1>0. /\ holds \in [Edges -> SUBSET Cids]
      /\ during \in [Procs -> SUBSET (Edges \X Cids)] /\ <<e, c>> \in Edges \X Cids
      /\ \A p \in Procs : pc[p] # "idle" => Holding \subseteq during[p]
  BY DEF CoreInv, StateInv, HoldingInv
<1>1. /\ holds' = [holds EXCEPT ![e] = @ \cup {c}]
      /\ during' = [p \in Procs |-> IF pc[p] = "idle" THEN {} ELSE during[p] \cup {<<e, c>>}]
  BY DEF Store
<1>2. holds' \in [Edges -> SUBSET Cids]
  BY <1>0, <1>1
<1>3. \A p \in Procs : pc[p] # "idle" => during'[p] = during[p] \cup {<<e, c>>}
  BY <1>1
<1>4. during' \in [Procs -> SUBSET (Edges \X Cids)]
  BY <1>0, <1>1
<1>5. Holding' \subseteq Holding \cup {<<e, c>>}
  BY <1>0, <1>1 DEF Holding
<1>6. HoldingInv'
  BY <1>0, <1>3, <1>5 DEF HoldingInv
<1>7. QED
  BY <1>2, <1>3, <1>4, <1>6

\* What an edge does with a request: whatever it comes to hold is noted in
\* the history of every running command.
LEMMA HandleEffect ==
    ASSUME CoreInv, NEW op, NEW c \in Cids, NEW e \in Edges, Handle(op, c, e), UNCHANGED pc
    PROVE  /\ holds' \in [Edges -> SUBSET Cids]
           /\ adverts' \in [Cids -> SUBSET Edges]
           /\ during' \in [Procs -> SUBSET (Edges \X Cids)]
           /\ \A p \in Procs : pc[p] # "idle" => during[p] \subseteq during'[p]
           /\ \A p \in Procs : pc[p] # "idle" /\ op = "cache" /\ e \notin Refusing =>
                 <<e, c>> \in during'[p]
           /\ HoldingInv'
<1>0. /\ holds \in [Edges -> SUBSET Cids] /\ adverts \in [Cids -> SUBSET Edges]
      /\ during \in [Procs -> SUBSET (Edges \X Cids)] /\ <<e, c>> \in Edges \X Cids
      /\ \A p \in Procs : pc[p] # "idle" => Holding \subseteq during[p]
  BY DEF CoreInv, StateInv, HoldingInv
<1>1. CASE /\ op = "cache" /\ e \notin Refusing
           /\ Store(c, e)
           /\ adverts' = [adverts EXCEPT ![c] = @ \cup {e}]
  <2>1. adverts' \in [Cids -> SUBSET Edges]
    BY <1>0, <1>1
  <2>2. QED
    BY <1>1, <2>1, StoreEffect
<1>2. CASE /\ op = "purge"
           /\ holds' = [holds EXCEPT ![e] = @ \ {c}]
           /\ UNCHANGED <<adverts, history>>
  <2>1. holds' \in [Edges -> SUBSET Cids] /\ Holding' \subseteq Holding
    BY <1>0, <1>2 DEF Holding
  <2>2. HoldingInv'
    BY <1>0, <1>2, <2>1 DEF HoldingInv, history
  <2>3. QED
    BY <1>0, <1>2, <2>1, <2>2 DEF history
<1>3. CASE /\ op = "probe" \/ (op = "cache" /\ e \in Refusing)
           /\ UNCHANGED <<edgeState, history>>
  <2>1. UNCHANGED <<holds, adverts, during>>
    BY <1>3 DEF edgeState, history
  <2>2. HoldingInv'
    BY <1>0, <2>1 DEF HoldingInv, Holding
  <2>3. QED
    BY <1>0, <1>3, <2>1, <2>2
<1>4. QED
  BY <1>1, <1>2, <1>3 DEF Handle

\* A positive answer was true at some moment since the command began.
LEMMA SaysTrue ==
    ASSUME CoreInv, NEW p \in Procs, NEW e \in Edges, Asking(p, e),
           Handle(pc[p], job[p].cid, e), UNCHANGED pc,
           Says(pc[p], job[p].cid, e), pc[p] # "purge"
    PROVE  <<e, job[p].cid>> \in during'[p]
<1>1. pc[p] \in {"probe", "cache", "purge"} /\ job[p].cid \in Cids
  BY DEF Asking, CoreInv, ProcInv, Located, Talking
<1>2. /\ during[p] \subseteq during'[p]
      /\ pc[p] = "cache" /\ e \notin Refusing => <<e, job[p].cid>> \in during'[p]
  BY <1>1, HandleEffect
<1>3. CASE pc[p] = "cache"
  BY <1>2, <1>3 DEF Says
<1>4. CASE pc[p] = "probe"
  <2>1. job[p].cid \in holds[e]
    BY <1>4 DEF Says
  <2>2. <<e, job[p].cid>> \in Holding
    BY <1>1, <2>1 DEF Holding
  <2>3. QED
    BY <1>1, <1>2, <2>2 DEF CoreInv, HoldingInv
<1>5. QED
  BY <1>1, <1>3, <1>4

\* The asking process is in order, and goes on to its next edge.
LEMMA AskedKeeps ==
    ASSUME CoreInv, NEW p \in Procs, NEW e \in Edges, NEW yes \in BOOLEAN,
           Asking(p, e), Learn(p, e, yes), UNCHANGED <<catalog, pc>>,
           holds' \in [Edges -> SUBSET Cids], adverts' \in [Cids -> SUBSET Edges],
           during' \in [Procs -> SUBSET (Edges \X Cids)],
           \A q \in Procs : pc[q] # "idle" => during[q] \subseteq during'[q],
           yes /\ pc[p] # "purge" => <<e, job[p].cid>> \in during'[p],
           HoldingInv',
           late' \subseteq [op : {"cache", "purge"}, cid : Cids, edge : Edges],
           commands' \in 0 .. MaxCommands, faults' \in 0 .. MaxFaults
    PROVE  CoreInv'
<1>1. /\ pc[p] \in {"probe", "cache", "purge"} /\ job[p].cid \in Cids
      /\ StateInv /\ job[p] \in Job
      /\ ProcInv(pc[p], job[p], during[p]) /\ during[p] \subseteq during'[p]
  BY DEF Asking, CoreInv, StateInv, ProcInv, Located, Talking
<1>2. /\ job' \in [Procs -> Job]
      /\ \A q \in Procs \ {p} : job'[q] = job[q]
      /\ job'[p] = Learnt(job[p], e, yes)
  BY <1>1, LearnEffect
<1>3. ProcInv(pc'[p], job'[p], during'[p])
  <2>1. ProcInv(pc[p], Learnt(job[p], e, yes), during'[p])
    BY <1>1, LearnKeepsProc
  <2>2. QED
    BY <1>2, <2>1
<1>4. \A q \in Procs : ProcInv(pc'[q], job'[q], during'[q])
  <2>1. \A q \in Procs : ProcInv(pc[q], job[q], during[q])
    BY DEF CoreInv
  <2>2. \A q \in Procs \ {p} :
            /\ pc'[q] = pc[q] /\ job'[q] = job[q]
            /\ pc[q] # "idle" => during[q] \subseteq during'[q]
    BY <1>2
  <2>3. QED
    BY <1>3, <2>1, <2>2, OthersKeep
<1>5. StateInv'
  BY <1>1, <1>2 DEF StateInv
<1>6. QED
  BY <1>4, <1>5 DEF CoreInv

\* A request given up, or left behind by a killed process, is one that an
\* edge can still handle.
LEMMA StrayTyped ==
    ASSUME CoreInv, NEW p \in Procs, NEW e \in Edges, Asking(p, e)
    PROVE  Stray(p, e) \subseteq [op : {"cache", "purge"}, cid : Cids, edge : Edges]
<1>1. pc[p] \in {"probe", "cache", "purge"} /\ job[p].cid \in Cids
  BY DEF Asking, CoreInv, ProcInv, Located, Talking
<1>2. QED
  BY <1>1 DEF Stray, CoreInv, StateInv

\* A failure is one of at most MaxFaults.
LEMMA FaultEffect == StateInv /\ Fault => faults' \in 0 .. MaxFaults
  BY ConstantFacts DEF Fault, StateInv

-----------------------------------------------------------------------------
(* Steps of one process.                                                   *)

\* the part of the state that is counted or written by a command at its end
RestTyped ==
    /\ catalog \in Catalogs
    /\ late \subseteq [op : {"cache", "purge"}, cid : Cids, edge : Edges]
    /\ commands \in 0 .. MaxCommands /\ faults \in 0 .. MaxFaults

\* A running command takes a step that no edge takes part in.
LEMMA LocalKeeps ==
    ASSUME CoreInv, NEW p \in Procs, NEW s \in Steps, NEW j \in Job,
           pc[p] # "idle", ProcInv(s, j, during[p]),
           pc' = [pc EXCEPT ![p] = s], job' = [job EXCEPT ![p] = j],
           UNCHANGED <<holds, adverts, during>>, RestTyped'
    PROVE  CoreInv'
<1>1. /\ pc' \in [Procs -> Steps] /\ job' \in [Procs -> Job]
      /\ pc'[p] = s /\ job'[p] = j
      /\ \A q \in Procs \ {p} : pc'[q] = pc[q] /\ job'[q] = job[q]
  BY DEF CoreInv, StateInv
<1>2. StateInv'
  BY <1>1 DEF CoreInv, StateInv, RestTyped
<1>3. \A q \in Procs : ProcInv(pc'[q], job'[q], during'[q])
  <2>1. ProcInv(pc'[p], job'[p], during'[p])
    BY <1>1
  <2>2. QED
    BY <1>1, <2>1, OthersKeep DEF CoreInv
<1>4. HoldingInv'
  <2>1. \A q \in Procs : pc'[q] # "idle" => pc[q] # "idle"
    BY <1>1
  <2>2. Holding' = Holding
    BY DEF Holding
  <2>3. QED
    BY <2>1, <2>2 DEF CoreInv, HoldingInv
<1>5. QED
  BY <1>2, <1>3, <1>4 DEF CoreInv

\* A command begins: its history is what is held now.
LEMMA BeginKeeps ==
    ASSUME CoreInv, NEW p \in Procs, NEW s \in Steps, NEW j \in Job,
           \A D : ProcInv(s, j, D), Begin(p, j, s),
           catalog' \in Catalogs, commands' \in 0 .. MaxCommands
    PROVE  CoreInv'
<1>0. Holding \in SUBSET (Edges \X Cids)
  BY DEF Holding
<1>1. /\ pc' = [pc EXCEPT ![p] = s] /\ job' = [job EXCEPT ![p] = j]
      /\ during' = [during EXCEPT ![p] = Holding]
      /\ UNCHANGED <<late, holds, adverts, faults>>
  BY DEF Begin, edgeState
<1>2. /\ pc' \in [Procs -> Steps] /\ job' \in [Procs -> Job]
      /\ during' \in [Procs -> SUBSET (Edges \X Cids)]
      /\ pc'[p] = s /\ job'[p] = j /\ during'[p] = Holding
      /\ \A q \in Procs \ {p} : pc'[q] = pc[q] /\ job'[q] = job[q] /\ during'[q] = during[q]
  BY <1>0, <1>1 DEF CoreInv, StateInv
<1>4. StateInv'
  BY <1>1, <1>2 DEF CoreInv, StateInv
<1>5. \A q \in Procs : ProcInv(pc'[q], job'[q], during'[q])
  <2>1. ProcInv(pc'[p], job'[p], during'[p])
    BY <1>2
  <2>2. QED
    BY <1>2, <2>1, OthersKeep DEF CoreInv
<1>6. HoldingInv'
  <2>1. Holding' = Holding
    BY <1>1 DEF Holding
  <2>2. QED
    BY <1>2, <2>1 DEF CoreInv, HoldingInv
<1>7. QED
  BY <1>4, <1>5, <1>6 DEF CoreInv

\* A command ends and leaves no locals.
LEMMA EndKeeps ==
    ASSUME CoreInv, NEW p \in Procs, End(p), UNCHANGED <<holds, adverts>>, RestTyped'
    PROVE  CoreInv'
<1>1. /\ pc' \in [Procs -> Steps] /\ job' \in [Procs -> Job]
      /\ during' \in [Procs -> SUBSET (Edges \X Cids)]
      /\ pc'[p] = "idle" /\ job'[p] = NoJob
      /\ \A q \in Procs \ {p} : pc'[q] = pc[q] /\ job'[q] = job[q] /\ during'[q] = during[q]
  <2>1. NoJob \in Job /\ "idle" \in Steps
    BY NoJobFacts DEF Steps
  <2>2. QED
    BY <2>1 DEF End, CoreInv, StateInv
<1>2. StateInv'
  BY <1>1 DEF CoreInv, StateInv, RestTyped
<1>3. \A q \in Procs : ProcInv(pc'[q], job'[q], during'[q])
  <2>1. ProcInv(pc'[p], job'[p], during'[p])
    BY <1>1, NoJobFacts
  <2>2. QED
    BY <1>1, <2>1, OthersKeep DEF CoreInv
<1>4. HoldingInv'
  <2>1. Holding' = Holding
    BY DEF Holding
  <2>2. QED
    BY <1>1, <2>1 DEF CoreInv, HoldingInv
<1>5. QED
  BY <1>2, <1>3, <1>4 DEF CoreInv

\* The commands begin with nothing learnt.
LEMMA StartKeeps ==
    ASSUME CoreInv, NEW p \in Procs,
           \/ \E c \in Cids : Start(p, c)
           \/ StartPass(p)
    PROVE  CoreInv'
<1>0. /\ catalog \in Catalogs /\ DOMAIN catalog \subseteq Cids
      /\ commands \in 0 .. MaxCommands
  BY CatalogShape DEF CoreInv, StateInv
<1>1. Command(p) => commands' \in 0 .. MaxCommands
  BY <1>0, ConstantFacts DEF Command
<1>2. ASSUME NEW c \in Cids, NEW n \in Targets, NEW r \in BOOLEAN, StartPut(p, c, n, r)
      PROVE  CoreInv'
  <2> DEFINE j == [NoJob EXCEPT !.cmd = "put", !.cid = c, !.target = n]
             s == IF r /\ n > 0 THEN "pick" ELSE "commit"
  <2>1. /\ j \in Job /\ j.cmd = "put" /\ j.cid = c /\ j.target = n
        /\ j.up = {} /\ DOMAIN j.res = {} /\ j.todo = {}
    BY NoJobFacts DEF Job, NoJob, Commands
  <2>2. s \in {"pick", "commit"} /\ s \in Steps
    BY DEF Steps
  <2>3. Begin(p, j, s) /\ commands' \in 0 .. MaxCommands /\ UNCHANGED catalog
    BY <1>1, <1>2 DEF StartPut
  <2> HIDE DEF j, s
  <2>4. \A D : ProcInv(s, j, D)
    BY <2>1, <2>2 DEF ProcInv, Located, Gathered, Accounted, Talking
  <2>5. QED
    BY <1>0, <2>1, <2>2, <2>3, <2>4, BeginKeeps
<1>3. ASSUME NEW C \in SUBSET Cids, NEW only \in SUBSET Edges, NEW keep \in BOOLEAN,
             StartPurge(p, C, only, keep)
      PROVE  CoreInv'
  <2> DEFINE j == [NoJob EXCEPT !.cmd = "purge", !.todo = C, !.only = only, !.keep = keep]
  <2>1. /\ j \in Job /\ j.cmd = "purge" /\ j.todo = C /\ DOMAIN j.res = {}
    BY NoJobFacts DEF Job, NoJob, Commands
  <2>2. Begin(p, j, "next") /\ commands' \in 0 .. MaxCommands /\ UNCHANGED catalog
    BY <1>1, <1>3 DEF StartPurge
  <2> HIDE DEF j
  <2>3. "next" \in Steps /\ \A D : ProcInv("next", j, D)
    BY <2>1 DEF ProcInv, Located, Gathered, Accounted, Talking, Steps
  <2>4. QED
    BY <1>0, <2>1, <2>2, <2>3, BeginKeeps
<1>4. ASSUME NEW c \in Cids, NEW F \in FoundFor(c), StartStatus(p, c, F)
      PROVE  CoreInv'
  <2> DEFINE j == [NoJob EXCEPT !.cmd = "status", !.cid = c, !.only = F]
  <2>0. F \in SUBSET Edges
    BY DEF FoundFor, CoreInv, StateInv
  <2>1. j \in Job /\ j.cmd = "status" /\ DOMAIN j.res = {} /\ j.todo = {}
    BY <2>0, NoJobFacts DEF Job, NoJob, Commands
  <2>2. Begin(p, j, "commit") /\ commands' \in 0 .. MaxCommands /\ UNCHANGED catalog
    BY <1>1, <1>4 DEF StartStatus
  <2> HIDE DEF j
  <2>3. "commit" \in Steps /\ \A D : ProcInv("commit", j, D)
    BY <2>1 DEF ProcInv, Located, Gathered, Accounted, Talking, Steps
  <2>4. QED
    BY <1>0, <2>1, <2>2, <2>3, BeginKeeps
<1>5. ASSUME NEW c \in Cids, Forget(p, c)
      PROVE  CoreInv'
  <2>1. /\ UNCHANGED <<holds, adverts, pc, job, late, faults, during>>
        /\ commands' \in 0 .. MaxCommands
    BY <1>1, <1>5 DEF Forget, edgeState, progress, history
  <2>2. catalog' \in Catalogs
    BY <1>0, <1>5, RemoveCatalog DEF Forget
  <2>3. StateInv' /\ HoldingInv'
    BY <2>1, <2>2 DEF CoreInv, StateInv, HoldingInv, Holding
  <2>4. \A q \in Procs : ProcInv(pc'[q], job'[q], during'[q])
    BY <2>1, AllKeep DEF CoreInv
  <2>5. QED
    BY <2>3, <2>4 DEF CoreInv
<1>6. CASE StartPass(p)
  <2> DEFINE j == [NoJob EXCEPT !.cmd = "maintain", !.snap = catalog, !.todo = DOMAIN catalog]
  <2>1. /\ j \in Job /\ j.cmd = "maintain" /\ j.snap = catalog /\ j.todo = DOMAIN catalog
        /\ DOMAIN j.res = {} /\ j.up = {}
    BY <1>0, NoJobFacts DEF Job, NoJob, Commands
  <2>2. Begin(p, j, "next") /\ commands' \in 0 .. MaxCommands /\ UNCHANGED catalog
    BY <1>0, <1>1, <1>6 DEF StartPass
  <2> HIDE DEF j
  <2>3. "next" \in Steps /\ \A D : ProcInv("next", j, D)
    BY <1>0, <2>1 DEF ProcInv, Located, Gathered, Accounted, Talking, Steps
  <2>4. QED
    BY <1>0, <2>1, <2>2, <2>3, BeginKeeps
<1>7. ASSUME NEW c \in Cids, Start(p, c) PROVE CoreInv'
  <2>1. \A t : CidsWithTag(catalog, t) \in SUBSET Cids
    BY <1>0 DEF CidsWithTag
  <2>2. QED
    BY <1>2, <1>3, <1>4, <1>5, <1>7, <2>1 DEF Start
<1>8. QED
  BY <1>6, <1>7

\* A request, answered or not, on time or late.
LEMMA RequestKeeps ==
    ASSUME CoreInv, NEW p \in Procs, NEW e \in Edges,
           Request(p, e) \/ AnswerLost(p, e) \/ EdgeDeclines(p, e) \/ GiveUp(p, e)
    PROVE  CoreInv'
<1>0. Asking(p, e) /\ StateInv /\ HoldingInv
  BY DEF Request, AnswerLost, EdgeDeclines, GiveUp, CoreInv
<1>1. job[p].cid \in Cids /\ pc[p] # "idle"
  BY <1>0 DEF Asking, CoreInv, ProcInv, Located, Talking
<1>2. CASE Request(p, e)
  <2> DEFINE yes == Says(pc[p], job[p].cid, e)
  <2>1. /\ Handle(pc[p], job[p].cid, e) /\ Learn(p, e, yes)
        /\ UNCHANGED <<catalog, pc, late, commands, faults>>
    BY <1>2 DEF Request, NoFault
  <2>2. yes \in BOOLEAN
    <3>1. CASE pc[p] = "cache"
      <4>1. yes = (e \notin Refusing)
        BY <3>1 DEF Says
      <4>2. QED
        BY <4>1
    <3>2. CASE pc[p] # "cache"
      <4>1. yes = (job[p].cid \in holds[e])
        BY <3>2 DEF Says
      <4>2. QED
        BY <4>1
    <3>3. QED
      BY <3>1, <3>2
  <2>3. yes /\ pc[p] # "purge" => <<e, job[p].cid>> \in during'[p]
    BY <1>0, <2>1, SaysTrue
  <2> HIDE DEF yes
  <2>4. RestTyped'
    BY <1>0, <2>1 DEF StateInv, RestTyped
  <2>5. QED
    BY <1>0, <1>1, <2>1, <2>2, <2>3, <2>4, HandleEffect, AskedKeeps DEF RestTyped
<1>3. CASE AnswerLost(p, e)
  <2>1. /\ Handle(pc[p], job[p].cid, e) /\ Learn(p, e, FALSE)
        /\ UNCHANGED <<catalog, pc, late, commands>> /\ Fault
    BY <1>3 DEF AnswerLost
  <2>2. RestTyped'
    BY <1>0, <2>1, FaultEffect DEF StateInv, RestTyped
  <2>3. QED
    BY <1>0, <1>1, <2>1, <2>2, HandleEffect, AskedKeeps DEF RestTyped
<1>4. ASSUME Learn(p, e, FALSE), UNCHANGED <<catalog, edgeState, pc, commands, during>>, Fault,
             late' \subseteq [op : {"cache", "purge"}, cid : Cids, edge : Edges]
      PROVE  CoreInv'
  <2>1. RestTyped' /\ HoldingInv'
    BY <1>0, <1>4, FaultEffect DEF StateInv, RestTyped, HoldingInv, Holding, edgeState
  <2>2. /\ holds' \in [Edges -> SUBSET Cids] /\ adverts' \in [Cids -> SUBSET Edges]
        /\ during' \in [Procs -> SUBSET (Edges \X Cids)]
        /\ \A q \in Procs : pc[q] # "idle" => during[q] \subseteq during'[q]
    BY <1>0, <1>4 DEF StateInv, edgeState
  <2>3. QED
    BY <1>0, <1>4, <2>1, <2>2, AskedKeeps DEF RestTyped
<1>5. CASE EdgeDeclines(p, e)
  BY <1>0, <1>4, <1>5 DEF EdgeDeclines, StateInv
<1>6. CASE GiveUp(p, e)
  <2>1. late' \subseteq [op : {"cache", "purge"}, cid : Cids, edge : Edges]
    BY <1>0, <1>6, StrayTyped DEF GiveUp
  <2>2. QED
    BY <1>4, <1>6, <2>1 DEF GiveUp
<1>7. QED
  BY <1>2, <1>3, <1>5, <1>6

\* A request takes effect, or is lost, when nobody waits for it; a read leaves
\* a copy; an edge loses an object.
LEMMA WorldKeeps ==
    ASSUME CoreInv,
           \/ \E m \in late : LateArrives(m) \/ LateLost(m)
           \/ \E e \in Edges, c \in Cids : ReadThrough(e, c) \/ Lose(e, c)
    PROVE  CoreInv'
<1>0. /\ StateInv /\ HoldingInv
      /\ late \subseteq [op : {"cache", "purge"}, cid : Cids, edge : Edges]
  BY DEF CoreInv, StateInv
<1>1. ASSUME NEW m \in late, LateArrives(m) PROVE CoreInv'
  <2>1. m.cid \in Cids /\ m.edge \in Edges
    BY <1>0
  <2>2. /\ Handle(m.op, m.cid, m.edge) /\ late' \subseteq late
        /\ UNCHANGED <<catalog, pc, job, commands, faults>>
    BY <1>1 DEF LateArrives, NoFault, progress
  <2>3. /\ holds' \in [Edges -> SUBSET Cids]
        /\ adverts' \in [Cids -> SUBSET Edges]
        /\ during' \in [Procs -> SUBSET (Edges \X Cids)]
        /\ \A p \in Procs : pc[p] # "idle" => during[p] \subseteq during'[p]
        /\ HoldingInv'
    BY <2>1, <2>2, HandleEffect
  <2>4. StateInv'
    BY <1>0, <2>2, <2>3 DEF StateInv
  <2>5. \A q \in Procs : ProcInv(pc'[q], job'[q], during'[q])
    BY <2>2, <2>3, AllKeep DEF CoreInv
  <2>6. QED
    BY <2>3, <2>4, <2>5 DEF CoreInv
<1>2. ASSUME NEW m \in late, LateLost(m) PROVE CoreInv'
  <2>1. /\ late' \subseteq late
        /\ UNCHANGED <<catalog, holds, adverts, pc, job, commands, faults, during>>
    BY <1>2 DEF LateLost, edgeState, progress, history
  <2>2. StateInv' /\ HoldingInv'
    BY <1>0, <2>1 DEF StateInv, HoldingInv, Holding
  <2>3. \A q \in Procs : ProcInv(pc'[q], job'[q], during'[q])
    BY <2>1, AllKeep DEF CoreInv
  <2>4. QED
    BY <2>2, <2>3 DEF CoreInv
<1>3. ASSUME NEW e \in Edges, NEW c \in Cids, Lose(e, c) PROVE CoreInv'
  <2>1. /\ holds' = [holds EXCEPT ![e] = @ \ {c}]
        /\ UNCHANGED <<catalog, adverts, pc, job, late, commands, during>> /\ Fault
    BY <1>3 DEF Lose, progress, history
  <2>2. holds' \in [Edges -> SUBSET Cids] /\ Holding' \subseteq Holding
    BY <1>0, <2>1 DEF StateInv, Holding
  <2>3. StateInv' /\ HoldingInv'
    BY <1>0, <2>1, <2>2, FaultEffect DEF StateInv, HoldingInv
  <2>4. \A q \in Procs : ProcInv(pc'[q], job'[q], during'[q])
    BY <2>1, AllKeep DEF CoreInv
  <2>5. QED
    BY <2>3, <2>4 DEF CoreInv
<1>4. ASSUME NEW e \in Edges, NEW c \in Cids, ReadThrough(e, c) PROVE CoreInv'
  <2>1. Store(c, e) /\ UNCHANGED <<catalog, adverts, pc, job, late, commands, faults>>
    BY <1>4 DEF ReadThrough, progress
  <2>2. /\ holds' \in [Edges -> SUBSET Cids]
        /\ during' \in [Procs -> SUBSET (Edges \X Cids)]
        /\ \A p \in Procs : pc[p] # "idle" => during[p] \subseteq during'[p]
        /\ HoldingInv'
    BY <2>1, StoreEffect
  <2>3. StateInv'
    BY <1>0, <2>1, <2>2 DEF StateInv
  <2>4. \A q \in Procs : ProcInv(pc'[q], job'[q], during'[q])
    BY <2>1, <2>2, AllKeep DEF CoreInv
  <2>5. QED
    BY <2>2, <2>3, <2>4 DEF CoreInv
<1>5. QED
  BY <1>1, <1>2, <1>3, <1>4

\* The edges of an entry are ready: those that answered, and the recruits.
LEMMA ResolveKeeps ==
    ASSUME CoreInv, NEW p \in Procs, Resolve(p), job[p].cmd = "maintain",
           pc[p] \in {"probe", "cache"}, Idle(p),
           UNCHANGED <<catalog, edgeState, late, commands, faults, history>>
    PROVE  CoreInv'
<1> DEFINE j == job[p]
           U == Upsert(j.res, j.cid, j.up)
           k == [j EXCEPT !.res = U]
<1>1. /\ job \in [Procs -> Job] /\ j \in Job
      /\ Located(pc[p], j) /\ Gathered(j, during[p]) /\ Accounted(pc[p], j)
  BY DEF CoreInv, StateInv, ProcInv
<1>2. /\ pc' = [pc EXCEPT ![p] = "next"]
      /\ job' = [job EXCEPT ![p] = k]
  BY <1>1 DEF Resolve, Goto
<1>3. j.cid \in Cids /\ j.cid \in DOMAIN j.snap /\ j.res \in Results /\ j.up \in SUBSET Edges
  BY <1>1 DEF Located, Talking, Job
<1>4. /\ U \in Results /\ DOMAIN U = DOMAIN j.res \cup {j.cid} /\ U[j.cid] = j.up
      /\ \A d \in DOMAIN j.res \ {j.cid} : U[d] = j.res[d]
  <2> HIDE DEF j
  <2>1. U \in Results
    BY <1>3, UpsertResults
  <2>2. DOMAIN U = DOMAIN j.res \cup {j.cid}
    BY DEF Upsert
  <2>3. U[j.cid] = j.up
    BY DEF Upsert
  <2>4. \A d \in DOMAIN j.res \ {j.cid} : U[d] = j.res[d]
    BY <1>3, UpsertResults
  <2>5. QED
    BY <2>1, <2>2, <2>3, <2>4
<1> HIDE DEF U
<1>5. /\ k \in Job /\ k.res = U /\ k.cmd = j.cmd /\ k.snap = j.snap /\ k.todo = j.todo
      /\ k.cid = j.cid /\ k.up = j.up /\ k.down = j.down
  BY <1>1, <1>4 DEF Job
<1>6. \A e \in j.snap[j.cid].edges : e \in j.up \/ <<e, j.cid>> \in j.down
  BY <1>1 DEF Accounted, Idle, Talking
<1> HIDE DEF k, j
<1>7. Located("next", k)
  BY <1>1, <1>3, <1>4, <1>5 DEF Located, Talking, j
<1>8. Gathered(k, during[p])
  <2>1. \A e \in j.up : <<e, j.cid>> \in during[p]
    BY <1>1 DEF Gathered, j
  <2>2. ASSUME NEW c \in DOMAIN U, NEW e \in U[c] PROVE <<e, c>> \in during[p]
    <3>1. CASE c = j.cid
      BY <1>4, <2>1, <3>1
    <3>2. CASE c # j.cid
      BY <1>1, <1>4, <3>2 DEF Gathered
    <3>3. QED
      BY <3>1, <3>2
  <2>3. QED
    BY <1>5, <2>1, <2>2 DEF Gathered
<1>9. Accounted("next", k)
  <2>1. ASSUME NEW c \in DOMAIN U, NEW e \in j.snap[c].edges \ U[c] PROVE <<e, c>> \in j.down
    <3>1. CASE c = j.cid
      BY <1>4, <1>6, <3>1
    <3>2. CASE c # j.cid
      BY <1>1, <1>4, <3>2 DEF Accounted, j
    <3>3. QED
      BY <3>1, <3>2
  <2>2. QED
    BY <1>5, <2>1 DEF Accounted, Talking
<1>10. RestTyped'
  BY DEF CoreInv, StateInv, RestTyped
<1>11. ProcInv("next", k, during[p]) /\ "next" \in Steps /\ pc[p] # "idle"
  BY <1>7, <1>8, <1>9 DEF ProcInv, Steps
<1>12. UNCHANGED <<holds, adverts, during>>
  BY DEF edgeState, NoFault, history
<1>13. QED
  BY <1>2, <1>5, <1>10, <1>11, <1>12, LocalKeeps

\* A step of p on the way leaves what it does not name.
LEMMA OnTheWay ==
    ASSUME CoreInv, UNCHANGED <<catalog, late, commands>>, NoFault \/ Fault
    PROVE  RestTyped'
  BY FaultEffect DEF CoreInv, StateInv, RestTyped, NoFault

\* A pass takes its next entry, or has none left.
LEMMA TakeEntryKeeps ==
    ASSUME CoreInv, NEW p \in Procs, TakeEntry(p)
    PROVE  CoreInv'
<1> DEFINE j == job[p]
<1>1. /\ job \in [Procs -> Job] /\ j \in Job /\ pc[p] = "next" /\ j.cmd = "maintain"
      /\ Located("next", j) /\ Gathered(j, during[p]) /\ Accounted("next", j)
      /\ UNCHANGED <<holds, adverts, during>> /\ RestTyped'
  BY OnTheWay DEF CoreInv, StateInv, ProcInv, TakeEntry, edgeState, NoFault, history
<1>2. ASSUME NEW c \in j.todo,
             job' = [job EXCEPT ![p].todo = @ \ {c},
                                ![p].cid = c,
                                ![p].target = job[p].snap[c].target,
                                ![p].ask = job[p].snap[c].edges,
                                ![p].up = {}],
             Goto(p, "probe")
      PROVE  CoreInv'
  <2> DEFINE k == [j EXCEPT !.todo = @ \ {c}, !.cid = c, !.target = j.snap[c].target,
                            !.ask = j.snap[c].edges, !.up = {}]
  <2>1. job' = [job EXCEPT ![p] = k] /\ pc' = [pc EXCEPT ![p] = "probe"]
    BY <1>1, <1>2 DEF Goto
  <2>2. c \in Cids /\ c \in DOMAIN j.snap /\ j.snap \in Catalogs
    BY <1>1 DEF Located, Job
  <2>3. j.snap[c] \in Entry
    BY <2>2, CatalogShape DEF GoodEntry
  <2>4. j.snap[c].target \in Targets /\ j.snap[c].edges \in SUBSET Edges
    BY <2>3 DEF Entry
  <2> HIDE DEF j
  <2>5. /\ k \in Job /\ k.cmd = j.cmd /\ k.snap = j.snap /\ k.todo = j.todo \ {c}
        /\ k.cid = c /\ k.ask = j.snap[c].edges /\ k.up = {} /\ k.down = j.down
        /\ k.res = j.res
    BY <1>1, <2>2, <2>4 DEF Job
  <2> HIDE DEF k
  <2>6. Located("probe", k)
    BY <1>1, <2>2, <2>5 DEF Located, Talking
  <2>7. Gathered(k, during[p]) /\ Accounted("probe", k)
    BY <1>1, <2>5 DEF Gathered, Accounted, Talking
  <2>8. ProcInv("probe", k, during[p]) /\ "probe" \in Steps
    BY <2>6, <2>7 DEF ProcInv, Steps
  <2>9. QED
    BY <1>1, <2>1, <2>5, <2>8, LocalKeeps
<1>3. ASSUME Goto(p, "commit"), UNCHANGED job
      PROVE  CoreInv'
  <2>1. job' = [job EXCEPT ![p] = j] /\ pc' = [pc EXCEPT ![p] = "commit"]
    BY <1>1, <1>3 DEF Goto
  <2> HIDE DEF j
  <2>2. ProcInv("commit", j, during[p]) /\ "commit" \in Steps
    BY <1>1 DEF ProcInv, Located, Accounted, Talking, Steps
  <2>3. QED
    BY <1>1, <2>1, <2>2, LocalKeeps
<1>4. QED
  BY <1>2, <1>3 DEF TakeEntry

\* A plan, with every recorded edge probed.
LEMMA PlanKeeps ==
    ASSUME CoreInv, NEW p \in Procs, Plan(p)
    PROVE  CoreInv'
<1> DEFINE j == job[p]
<1>1. /\ job \in [Procs -> Job] /\ j \in Job /\ pc[p] = "probe" /\ Idle(p)
      /\ Located("probe", j) /\ Gathered(j, during[p]) /\ Accounted("probe", j)
      /\ j.cmd = "maintain" /\ j.ask = {}
      /\ UNCHANGED <<holds, adverts, during>> /\ RestTyped'
  BY OnTheWay DEF CoreInv, StateInv, ProcInv, Located, Plan, Idle, edgeState, NoFault, history
<1>2. CASE Resolve(p)
  BY <1>1, <1>2, ResolveKeeps DEF Plan
<1>3. CASE Goto(p, "pick") /\ UNCHANGED job
  <2>1. job' = [job EXCEPT ![p] = j] /\ pc' = [pc EXCEPT ![p] = "pick"]
    BY <1>1, <1>3 DEF Goto
  <2> HIDE DEF j
  <2>2. ProcInv("pick", j, during[p]) /\ "pick" \in Steps
    BY <1>1 DEF ProcInv, Located, Accounted, Talking, Steps
  <2>3. QED
    BY <1>1, <2>1, <2>2, LocalKeeps
<1>4. QED
  BY <1>2, <1>3 DEF Plan

\* Picks change only whom to ask.
LEMMA PickKeeps ==
    ASSUME CoreInv, NEW p \in Procs, Pick(p) \/ PickBlindly(p)
    PROVE  CoreInv'
<1> DEFINE j == job[p]
<1>0. PICK D \in SUBSET Edges, H \in SUBSET Edges, A \in SUBSET Edges :
          PickFrom(p, Candidates(D, H, A))
  BY DEF Pick, PickBlindly
<1> DEFINE E == Select(Candidates(D, H, A),
                       ReplicasNeeded(j.target, Cardinality(j.up)), EdgeIds(j.snap, j.cid))
           k == [j EXCEPT !.ask = E]
<1>1. /\ job \in [Procs -> Job] /\ j \in Job /\ pc[p] = "pick"
      /\ Located("pick", j) /\ Gathered(j, during[p]) /\ Accounted("pick", j)
      /\ UNCHANGED <<holds, adverts, during, catalog, late, commands>>
  BY <1>0 DEF CoreInv, StateInv, ProcInv, PickFrom, edgeState, history
<1>2. RestTyped'
  BY <1>1, OnTheWay DEF Pick, PickBlindly
<1>3. E \in SUBSET Edges
  BY DEF Select, Candidates
<1> HIDE DEF E
<1>4. job' = [job EXCEPT ![p] = k] /\ pc' = [pc EXCEPT ![p] = "cache"]
  BY <1>0, <1>1 DEF PickFrom, Goto, E
<1> HIDE DEF j
<1>5. /\ k \in Job /\ k.cmd = j.cmd /\ k.snap = j.snap /\ k.todo = j.todo /\ k.cid = j.cid
      /\ k.up = j.up /\ k.down = j.down /\ k.res = j.res /\ k.target = j.target
  BY <1>1, <1>3 DEF Job
<1> HIDE DEF k
<1>6. ProcInv("cache", k, during[p]) /\ "cache" \in Steps
  BY <1>1, <1>5 DEF ProcInv, Located, Gathered, Accounted, Talking, Steps
<1>7. QED
  BY <1>1, <1>2, <1>4, <1>5, <1>6, LocalKeeps

\* Every pick was asked.
LEMMA RecruitedKeeps ==
    ASSUME CoreInv, NEW p \in Procs, Recruited(p)
    PROVE  CoreInv'
<1> DEFINE j == job[p]
<1>1. /\ job \in [Procs -> Job] /\ j \in Job /\ pc[p] = "cache" /\ Idle(p)
      /\ Located("cache", j) /\ Gathered(j, during[p])
      /\ j.cmd \in {"put", "maintain"}
      /\ UNCHANGED <<holds, adverts, during>> /\ RestTyped'
  BY OnTheWay DEF CoreInv, StateInv, ProcInv, Located, Recruited, edgeState, NoFault, history
<1>2. CASE j.cmd = "maintain"
  BY <1>1, <1>2, ResolveKeeps DEF Recruited
<1>3. CASE j.cmd = "put"
  <2>1. job' = [job EXCEPT ![p] = j] /\ pc' = [pc EXCEPT ![p] = "commit"]
    BY <1>1, <1>3 DEF Recruited, Goto
  <2> HIDE DEF j
  <2>2. ProcInv("commit", j, during[p]) /\ "commit" \in Steps
    BY <1>1, <1>3 DEF ProcInv, Located, Accounted, Talking, Steps
  <2>3. QED
    BY <1>1, <2>1, <2>2, LocalKeeps
<1>4. QED
  BY <1>1, <1>2, <1>3

\* A purge takes its next CID.
LEMMA TakePurgeKeeps ==
    ASSUME CoreInv, NEW p \in Procs, TakePurge(p)
    PROVE  CoreInv'
<1> DEFINE j == job[p]
<1>1. /\ job \in [Procs -> Job] /\ j \in Job /\ pc[p] = "next" /\ j.cmd = "purge"
      /\ Located("next", j) /\ Gathered(j, during[p])
      /\ UNCHANGED <<holds, adverts, during, catalog, late, commands>>
      /\ catalog \in Catalogs /\ adverts \in [Cids -> SUBSET Edges]
  BY DEF CoreInv, StateInv, ProcInv, TakePurge, edgeState
<1>c. PICK c \in j.todo : \E F \in FoundFor(c) :
          /\ IF F = adverts[c] THEN NoFault ELSE Fault
          /\ job' = [job EXCEPT ![p].todo = @ \ {c},
                                ![p].cid = c,
                                ![p].ask = IF job[p].only = {} THEN PurgeTargets(c, F)
                                           ELSE job[p].only]
  BY DEF TakePurge
<1>2. PICK F \in FoundFor(c) :
          /\ IF F = adverts[c] THEN NoFault ELSE Fault
          /\ job' = [job EXCEPT ![p].todo = @ \ {c},
                                ![p].cid = c,
                                ![p].ask = IF job[p].only = {} THEN PurgeTargets(c, F)
                                           ELSE job[p].only]
  BY <1>c
<1>3. RestTyped'
  BY <1>1, <1>2, OnTheWay
<1> DEFINE E == IF j.only = {} THEN PurgeTargets(c, F) ELSE j.only
           k == [j EXCEPT !.todo = @ \ {c}, !.cid = c, !.ask = E]
<1>4. job' = [job EXCEPT ![p] = k] /\ pc' = [pc EXCEPT ![p] = "purge"]
  BY <1>1, <1>2 DEF TakePurge, Goto
<1> HIDE DEF j
<1>5. c \in Cids /\ F \subseteq Edges /\ j.only \subseteq Edges
  BY <1>1 DEF Located, Job, FoundFor
<1>6. EdgeIds(catalog, c) \subseteq Edges
  BY <1>1, CatalogShape DEF EdgeIds, GoodEntry, Entry
<1>7. E \subseteq Edges
  BY <1>5, <1>6 DEF PurgeTargets
<1> HIDE DEF E
<1>8. /\ k \in Job /\ k.cmd = j.cmd /\ k.snap = j.snap /\ k.todo = j.todo \ {c} /\ k.cid = c
      /\ k.res = j.res
  BY <1>1, <1>5, <1>7 DEF Job
<1> HIDE DEF k
<1>9. ProcInv("purge", k, during[p]) /\ "purge" \in Steps
  BY <1>1, <1>5, <1>8 DEF ProcInv, Located, Gathered, Accounted, Talking, Steps
<1>10. QED
  BY <1>1, <1>3, <1>4, <1>8, <1>9, LocalKeeps

\* The CID is forgotten, and the purge goes on or ends.
LEMMA PurgedKeeps ==
    ASSUME CoreInv, NEW p \in Procs, Purged(p)
    PROVE  CoreInv'
<1> DEFINE j == job[p]
<1>1. /\ job \in [Procs -> Job] /\ j \in Job /\ pc[p] = "purge"
      /\ Located("purge", j) /\ Gathered(j, during[p]) /\ j.cmd = "purge"
      /\ UNCHANGED <<holds, adverts, late, commands, faults>> /\ catalog \in Catalogs
  BY DEF CoreInv, StateInv, ProcInv, Located, Purged, edgeState
<1>2. catalog' \in Catalogs
  BY <1>1, RemoveCatalog DEF Purged
<1>4. RestTyped'
  BY <1>1, <1>2 DEF CoreInv, StateInv, RestTyped
<1>5. CASE End(p)
  BY <1>1, <1>4, <1>5, EndKeeps
<1>6. CASE Goto(p, "next") /\ UNCHANGED <<job, during>>
  <2>1. job' = [job EXCEPT ![p] = j] /\ pc' = [pc EXCEPT ![p] = "next"]
    BY <1>1, <1>6 DEF Goto
  <2> HIDE DEF j
  <2>2. ProcInv("next", j, during[p]) /\ "next" \in Steps
    BY <1>1 DEF ProcInv, Located, Accounted, Talking, Steps
  <2>3. QED
    BY <1>1, <1>4, <1>6, <2>1, <2>2, LocalKeeps
<1>7. QED
  BY <1>5, <1>6 DEF Purged

\* What put and status write is an entry.
LEMMA CommitsTyped ==
    ASSUME CoreInv, NEW p \in Procs, CommitPut(p) \/ CommitPass(p) \/ CommitStatus(p)
    PROVE  catalog' \in Catalogs
<1> DEFINE j == job[p]
<1>1. j \in Job /\ catalog \in Catalogs /\ Located("commit", j)
  BY DEF CoreInv, StateInv, ProcInv, CommitPut, CommitPass, CommitStatus
<1>2. CASE CommitPut(p)
  <2> DEFINE x == [target |-> j.target, edges |-> j.up, healthy |-> j.up]
  <2>1. j.cid \in Cids /\ j.target \in Targets /\ j.up \in SUBSET Edges
    BY <1>1, <1>2 DEF Located, Job, CommitPut
  <2>2. x \in GoodEntry
    BY <2>1 DEF GoodEntry, Entry
  <2>3. catalog' = Upsert(catalog, j.cid, x)
    BY <1>2 DEF CommitPut
  <2> HIDE DEF x, j
  <2>4. QED
    BY <1>1, <2>1, <2>2, <2>3, UpsertCatalog
<1>3. CASE CommitPass(p)
  <2>1. j.res \in Results /\ catalog' = Merged(catalog, j.res)
    BY <1>1, <1>3 DEF Job, CommitPass
  <2>2. QED
    BY <1>1, <2>1, MergedCatalog
<1>4. CASE CommitStatus(p)
  <2>1. CASE j.cid \notin DOMAIN catalog
    BY <1>1, <1>4, <2>1 DEF CommitStatus
  <2>2. CASE j.cid \in DOMAIN catalog
    <3> DEFINE x == [catalog[j.cid] EXCEPT !.healthy = catalog[j.cid].edges \cap j.only]
    <3>0. DOMAIN catalog \subseteq Cids /\ catalog \in [DOMAIN catalog -> GoodEntry]
      BY <1>1, CatalogShape
    <3>1. catalog' = [catalog EXCEPT ![j.cid] = x]
      BY <1>4, <2>2, <3>0 DEF CommitStatus
    <3>2. x \in GoodEntry
      BY <2>2, <3>0 DEF GoodEntry, Entry
    <3> HIDE DEF x, j
    <3>3. DOMAIN catalog' = DOMAIN catalog /\ catalog' \in [DOMAIN catalog -> GoodEntry]
      BY <2>2, <3>0, <3>1, <3>2
    <3>4. QED
      BY <3>0, <3>3, CatalogShape
  <2>3. QED
    BY <2>1, <2>2
<1>5. QED
  BY <1>2, <1>3, <1>4

\* A command commits, or is killed.
LEMMA EndingKeeps ==
    ASSUME CoreInv, NEW p \in Procs,
           CommitPut(p) \/ CommitPass(p) \/ CommitStatus(p) \/ Abort(p)
    PROVE  CoreInv'
<1>1. CASE CommitPut(p) \/ CommitPass(p) \/ CommitStatus(p)
  <2>1. End(p) /\ UNCHANGED <<holds, adverts, late, commands, faults>>
    BY <1>1 DEF CommitPut, CommitPass, CommitStatus, edgeState
  <2>2. RestTyped'
    BY <1>1, <2>1, CommitsTyped DEF CoreInv, StateInv, RestTyped
  <2>3. QED
    BY <2>1, <2>2, EndKeeps
<1>2. CASE Abort(p)
  <2>1. End(p) /\ UNCHANGED <<holds, adverts, catalog, commands>> /\ Fault
    BY <1>2 DEF Abort, edgeState
  <2>2. late' \subseteq [op : {"cache", "purge"}, cid : Cids, edge : Edges]
    BY <1>2, StrayTyped DEF Abort, CoreInv, StateInv
  <2>3. RestTyped'
    BY <2>1, <2>2, FaultEffect DEF CoreInv, StateInv, RestTyped
  <2>4. QED
    BY <2>1, <2>3, EndKeeps
<1>3. QED
  BY <1>1, <1>2

-----------------------------------------------------------------------------
\* The initial states: what put left behind.
LEMMA InitCore == Init => CoreInv
<1> SUFFICES ASSUME Init PROVE CoreInv
  OBVIOUS
<1>1. PICK listed \in SUBSET Cids : \E n \in [listed -> Targets] :
          LET placed(c) == Select(Signals, n[c], {}) \ Refusing
          IN  /\ catalog = [c \in listed |-> [target |-> n[c], edges |-> placed(c),
                                             healthy |-> placed(c)]]
              /\ adverts = [c \in Cids |-> Announcing \cup IF c \in listed THEN placed(c) ELSE {}]
              /\ holds = [e \in Edges |-> {c \in listed : e \in placed(c)}]
  BY DEF Init
<1>2. PICK n \in [listed -> Targets] :
          LET placed(c) == Select(Signals, n[c], {}) \ Refusing
          IN  /\ catalog = [c \in listed |-> [target |-> n[c], edges |-> placed(c),
                                             healthy |-> placed(c)]]
              /\ adverts = [c \in Cids |-> Announcing \cup IF c \in listed THEN placed(c) ELSE {}]
              /\ holds = [e \in Edges |-> {c \in listed : e \in placed(c)}]
  BY <1>1
<1> DEFINE placed(c) == Select(Signals, n[c], {}) \ Refusing
<1>3. \A c \in listed : placed(c) \subseteq Edges
  BY ConstantFacts DEF Select
<1>4. /\ catalog = [c \in listed |-> [target |-> n[c], edges |-> placed(c),
                                      healthy |-> placed(c)]]
      /\ adverts = [c \in Cids |-> Announcing \cup IF c \in listed THEN placed(c) ELSE {}]
      /\ holds = [e \in Edges |-> {c \in listed : e \in placed(c)}]
  BY <1>2
<1> HIDE DEF placed
<1>5. catalog \in Catalogs
  <2>1. \A c \in listed : catalog[c] \in GoodEntry
    BY <1>3, <1>4 DEF GoodEntry, Entry
  <2>2. DOMAIN catalog = listed /\ catalog \in [listed -> GoodEntry]
    BY <1>4, <2>1
  <2>3. QED
    BY <2>2, CatalogShape
<1>6. holds \in [Edges -> SUBSET Cids] /\ adverts \in [Cids -> SUBSET Edges]
  BY <1>3, <1>4, ConstantFacts
<1>7. StateInv
  BY <1>5, <1>6, NoJobFacts, ConstantFacts DEF Init, StateInv, Steps
<1>8. \A p \in Procs : ProcInv(pc[p], job[p], during[p])
  BY NoJobFacts DEF Init
<1>9. HoldingInv
  BY DEF Init, HoldingInv
<1>10. QED
  BY <1>7, <1>8, <1>9 DEF CoreInv

\* Every step keeps the core of the invariant: one case per action.
LEMMA StepCore == CoreInv /\ [Next]_vars => CoreInv'
<1> SUFFICES ASSUME CoreInv, [Next]_vars PROVE CoreInv'
  OBVIOUS
<1>1. ASSUME NEW p \in Procs, Step(p) PROVE CoreInv'
  BY <1>1, RequestKeeps, TakeEntryKeeps, PlanKeeps, PickKeeps, RecruitedKeeps,
     TakePurgeKeeps, PurgedKeeps, EndingKeeps DEF Step
<1>2. ASSUME NEW p \in Procs,
             StartPass(p) \/ PickBlindly(p) \/ Abort(p) \/ \E c \in Cids : Start(p, c)
      PROVE  CoreInv'
  BY <1>2, StartKeeps, PickKeeps, EndingKeeps
<1>3. ASSUME NEW p \in Procs, NEW e \in Edges,
             AnswerLost(p, e) \/ EdgeDeclines(p, e) \/ GiveUp(p, e)
      PROVE  CoreInv'
  BY <1>3, RequestKeeps
<1>4. CASE UNCHANGED vars
  <2>1. StateInv' /\ HoldingInv'
    BY <1>4 DEF CoreInv, StateInv, HoldingInv, Holding, vars
  <2>2. \A q \in Procs : ProcInv(pc'[q], job'[q], during'[q])
    BY <1>4, AllKeep DEF CoreInv, vars
  <2>3. QED
    BY <2>1, <2>2 DEF CoreInv
<1>5. QED
  BY <1>1, <1>2, <1>3, <1>4, WorldKeeps DEF Next

-----------------------------------------------------------------------------
(* What a step may do to the catalog.                                      *)

\* Only these actions write the catalog file.
LEMMA WritersOnly ==
    ASSUME [Next]_vars, catalog' # catalog
    PROVE  \E p \in Procs :
              \/ \E c \in Cids : Forget(p, c)
              \/ Purged(p) \/ CommitPut(p) \/ CommitPass(p) \/ CommitStatus(p)
<1>1. Next
  BY DEF vars
<1>2. ASSUME NEW p \in Procs,
             Step(p) \/ StartPass(p) \/ PickBlindly(p) \/ Abort(p)
             \/ (\E e \in Edges : AnswerLost(p, e) \/ EdgeDeclines(p, e) \/ GiveUp(p, e))
             \/ (\E c \in Cids : Start(p, c))
      PROVE  \/ \E c \in Cids : Forget(p, c)
             \/ Purged(p) \/ CommitPut(p) \/ CommitPass(p) \/ CommitStatus(p)
  <2>1. CASE Step(p)
    BY <2>1 DEF Step, Request, TakeEntry, Plan, Pick, PickFrom, Recruited, TakePurge
  <2>2. CASE StartPass(p) \/ PickBlindly(p) \/ Abort(p)
    BY <2>2 DEF StartPass, PickBlindly, PickFrom, Abort
  <2>3. CASE \E e \in Edges : AnswerLost(p, e) \/ EdgeDeclines(p, e) \/ GiveUp(p, e)
    BY <2>3 DEF AnswerLost, EdgeDeclines, GiveUp
  <2>4. CASE \E c \in Cids : Start(p, c)
    BY <2>4 DEF Start, StartPut, StartPurge, StartStatus
  <2>5. QED
    BY <1>2, <2>1, <2>2, <2>3, <2>4
<1>3. ~(\E m \in late : LateArrives(m) \/ LateLost(m))
  BY DEF LateArrives, LateLost
<1>4. ~(\E e \in Edges, c \in Cids : ReadThrough(e, c) \/ Lose(e, c))
  BY DEF ReadThrough, Lose
<1>5. QED
  BY <1>1, <1>2, <1>3, <1>4 DEF Next

\* A process that commits: the writer itself, for a step moves one process.
LEMMA CommitterIs ==
    ASSUME CoreInv, NEW p \in Procs, NEW q \in Procs, q \in Committing,
           \/ \E c \in Cids : Forget(p, c)
           \/ Purged(p) \/ CommitPut(p) \/ CommitPass(p) \/ CommitStatus(p)
    PROVE  q = p /\ (CommitPut(p) \/ CommitPass(p) \/ CommitStatus(p))
<1>1. pc[q] = "commit" /\ pc'[q] = "idle" /\ pc \in [Procs -> Steps]
  BY DEF Committing, CoreInv, StateInv
<1>2. CASE \E c \in Cids : Forget(p, c)
  BY <1>1, <1>2 DEF Forget, progress
<1>3. CASE Purged(p)
  BY <1>1, <1>3 DEF Purged, End, Goto
<1>4. CASE CommitPut(p) \/ CommitPass(p) \/ CommitStatus(p)
  BY <1>1, <1>4 DEF CommitPut, CommitPass, CommitStatus, End
<1>5. QED
  BY <1>2, <1>3, <1>4

\* status changes no record of edges.
LEMMA StatusKeepsEdges ==
    ASSUME CoreInv, NEW p \in Procs, CommitStatus(p)
    PROVE  /\ DOMAIN catalog' = DOMAIN catalog
           /\ \A c \in DOMAIN catalog : catalog'[c].edges = catalog[c].edges
<1>1. catalog \in [DOMAIN catalog -> GoodEntry]
  BY CatalogShape DEF CoreInv, StateInv
<1>2. CASE job[p].cid \notin DOMAIN catalog
  BY <1>2 DEF CommitStatus
<1>3. CASE job[p].cid \in DOMAIN catalog
  BY <1>1, <1>3 DEF CommitStatus, GoodEntry, Entry
<1>4. QED
  BY <1>2, <1>3

\* put and a pass record only edges that held the object while they ran.
LEMMA MeasuredStep == CoreInv /\ [Next]_vars => [RecordsMeasured]_vars
<1> SUFFICES ASSUME CoreInv, [Next]_vars, NEW q \in Committing, NEW c \in DOMAIN catalog',
                    job[q].cmd \in {"put", "maintain"},
                    NEW e \in catalog'[c].edges \ EdgeIds(catalog, c)
             PROVE  <<e, c>> \in during[q]
  BY DEF RecordsMeasured
<1>1. q \in Procs /\ catalog' # catalog
  BY DEF Committing
<1>2. PICK p \in Procs : \/ \E d \in Cids : Forget(p, d)
                         \/ Purged(p) \/ CommitPut(p) \/ CommitPass(p) \/ CommitStatus(p)
  BY <1>1, WritersOnly
<1>3. q = p /\ (CommitPut(p) \/ CommitPass(p) \/ CommitStatus(p))
  BY <1>1, <1>2, CommitterIs
<1> DEFINE j == job[p]
<1>4. /\ j \in Job /\ catalog \in Catalogs /\ pc[p] = "commit"
      /\ Located("commit", j) /\ Gathered(j, during[p])
  BY <1>3 DEF CoreInv, StateInv, ProcInv, CommitPut, CommitPass, CommitStatus
<1>5. CASE CommitPut(p)
  <2> DEFINE x == [target |-> j.target, edges |-> j.up, healthy |-> j.up]
  <2>1. j.cmd = "put" /\ catalog' = Upsert(catalog, j.cid, x)
    BY <1>5 DEF CommitPut
  <2>2. CASE c = j.cid
    <3>1. catalog'[c] = x
      BY <2>1, <2>2 DEF Upsert
    <3>2. e \in j.up
      BY <3>1
    <3>3. QED
      BY <1>3, <1>4, <2>1, <2>2, <3>2 DEF Gathered
  <2>3. CASE c # j.cid
    <3>1. c \in DOMAIN catalog /\ catalog'[c] = catalog[c]
      BY <2>1, <2>3 DEF Upsert
    <3>2. QED
      BY <3>1 DEF EdgeIds
  <2>4. QED
    BY <2>2, <2>3
<1>6. CASE CommitPass(p)
  <2>1. j.res \in Results /\ catalog' = Merged(catalog, j.res)
    BY <1>4, <1>6 DEF CommitPass, Job
  <2>2. /\ c \in DOMAIN catalog
        /\ catalog'[c].edges = IF c \in DOMAIN j.res THEN j.res[c] ELSE catalog[c].edges
    BY <1>4, <2>1, MergedCatalog
  <2>3. CASE c \in DOMAIN j.res
    BY <1>3, <1>4, <2>2, <2>3 DEF Gathered
  <2>4. CASE c \notin DOMAIN j.res
    BY <2>2, <2>4 DEF EdgeIds
  <2>5. QED
    BY <2>3, <2>4
<1>7. CASE CommitStatus(p)
  BY <1>7, <1>3 DEF CommitStatus
<1>8. QED
  BY <1>3, <1>5, <1>6, <1>7

\* Only put lists a CID.
LEMMA ListedStep == CoreInv /\ [Next]_vars => [ListsOnlyPut]_vars
<1> SUFFICES ASSUME CoreInv, [Next]_vars, NEW c \in DOMAIN catalog' \ DOMAIN catalog
             PROVE  \E p \in Procs : pc[p] = "commit" /\ job[p].cmd = "put" /\ job[p].cid = c
  BY DEF ListsOnlyPut
<1>0. catalog \in Catalogs /\ catalog' # catalog
  BY DEF CoreInv, StateInv
<1>1. PICK p \in Procs : \/ \E d \in Cids : Forget(p, d)
                         \/ Purged(p) \/ CommitPut(p) \/ CommitPass(p) \/ CommitStatus(p)
  BY <1>0, WritersOnly
<1>2. CASE (\E d \in Cids : Forget(p, d)) \/ Purged(p)
  BY <1>0, <1>2 DEF Forget, Purged, Remove
<1>3. CASE CommitPut(p)
  BY <1>3 DEF CommitPut, Upsert
<1>4. CASE CommitPass(p)
  BY <1>4 DEF CommitPass, Merged
<1>5. CASE CommitStatus(p)
  BY <1>5, StatusKeepsEdges
<1>6. QED
  BY <1>1, <1>2, <1>3, <1>4, <1>5

\* A replica is dropped by put, or by a pass that probed it in vain or did
\* not know of it.
LEMMA DroppedStep == CoreInv /\ [Next]_vars => [DropsWithCause]_vars
<1> SUFFICES ASSUME CoreInv, [Next]_vars,
                    NEW c \in DOMAIN catalog \cap DOMAIN catalog',
                    NEW e \in catalog[c].edges \ catalog'[c].edges
             PROVE  \E p \in Committing :
                        \/ job[p].cmd = "put" /\ job[p].cid = c
                        \/ /\ job[p].cmd = "maintain"
                           /\ <<e, c>> \in job[p].down \/ e \notin EdgeIds(job[p].snap, c)
  BY DEF DropsWithCause
<1>0. catalog \in Catalogs /\ catalog' # catalog /\ catalog'[c] # catalog[c]
  BY DEF CoreInv, StateInv
<1>1. PICK p \in Procs : \/ \E d \in Cids : Forget(p, d)
                         \/ Purged(p) \/ CommitPut(p) \/ CommitPass(p) \/ CommitStatus(p)
  BY <1>0, WritersOnly
<1> DEFINE j == job[p]
<1>2. CASE (\E d \in Cids : Forget(p, d)) \/ Purged(p)
  BY <1>0, <1>2 DEF Forget, Purged, Remove
<1>3. CASE CommitPut(p)
  <2>1. p \in Committing /\ j.cmd = "put"
    BY <1>0, <1>3 DEF CommitPut, End, Committing, CoreInv, StateInv
  <2>2. j.cid = c
    BY <1>0, <1>3 DEF CommitPut, Upsert
  <2>3. QED
    BY <2>1, <2>2
<1>4. CASE CommitPass(p)
  <2>1. /\ p \in Committing /\ j.cmd = "maintain" /\ j \in Job
        /\ Located("commit", j) /\ Accounted("commit", j) /\ catalog' = Merged(catalog, j.res)
    BY <1>0, <1>4 DEF CommitPass, End, Committing, CoreInv, StateInv, ProcInv
  <2>2. j.res \in Results
    BY <2>1 DEF Job
  <2>3. catalog'[c].edges = IF c \in DOMAIN j.res THEN j.res[c] ELSE catalog[c].edges
    BY <1>0, <2>1, <2>2, MergedCatalog
  <2>4. c \in DOMAIN j.res /\ e \notin j.res[c]
    BY <2>3
  <2>5. c \in DOMAIN j.snap
    BY <2>1, <2>4 DEF Located
  <2>6. <<e, c>> \in j.down \/ e \notin EdgeIds(j.snap, c)
    BY <2>1, <2>4, <2>5 DEF Accounted, EdgeIds
  <2>7. QED
    BY <2>1, <2>6
<1>5. CASE CommitStatus(p)
  BY <1>5, StatusKeepsEdges
<1>6. QED
  BY <1>1, <1>2, <1>3, <1>4, <1>5

-----------------------------------------------------------------------------
(* What a purge leaves behind.                                             *)

\* A step that leaves the edges and the other processes alone, after which p
\* asks nobody to purge.
LEMMA AwayKeeps ==
    ASSUME PurgeInv, NEW p \in Procs, pc'[p] # "purge",
           \A q \in Procs \ {p} : pc'[q] = pc[q] /\ job'[q] = job[q],
           missed' = missed \/ missed' = [missed EXCEPT ![p] = {}],
           UNCHANGED <<holds, adverts>>
    PROVE  PurgeInv'
<1>1. missed' \in [Procs -> SUBSET Edges] /\ \A q \in Procs \ {p} : missed'[q] = missed[q]
  BY DEF PurgeInv
<1>2. PurgeAsks'
  BY <1>1 DEF PurgeInv, PurgeAsks
<1>3. QED
  BY <1>1, <1>2 DEF PurgeInv

\* Where an object comes to be held during a purge, the edge is still to be
\* asked or was missed; only c at e may be held or advertised anew.
LEMMA StoreAsks ==
    ASSUME CoreInv, PurgeInv, NEW c \in Cids, NEW e \in Edges, Store(c, e),
           \/ adverts' = adverts
           \/ adverts' = [adverts EXCEPT ![c] = @ \cup {e}],
           UNCHANGED <<pc, job>>
    PROVE  PurgeInv'
<1>1. /\ holds' = [holds EXCEPT ![e] = @ \cup {c}]
      /\ missed' = [p \in Procs |-> IF pc[p] = "purge" /\ job[p].cid = c /\ e \notin job[p].ask
                                   THEN missed[p] \cup {e} ELSE missed[p]]
      /\ holds \in [Edges -> SUBSET Cids] /\ adverts \in [Cids -> SUBSET Edges]
  BY DEF Store, CoreInv, StateInv
<1>2. missed' \in [Procs -> SUBSET Edges]
  BY <1>1 DEF PurgeInv
<1>3. ASSUME NEW p \in Procs, pc[p] = "purge", job[p].only = {},
             NEW f \in Edges, job[p].cid \in holds'[f], f \in adverts'[job[p].cid]
      PROVE  f \in job[p].ask \cup missed'[p]
  <2>1. missed'[p] = IF job[p].cid = c /\ e \notin job[p].ask THEN missed[p] \cup {e} ELSE missed[p]
    BY <1>1, <1>3
  <2>2. CASE job[p].cid = c /\ f = e
    BY <2>1, <2>2
  <2>3. CASE ~(job[p].cid = c /\ f = e)
    <3>1. job[p].cid \in Cids
      BY <1>3 DEF CoreInv, ProcInv, Located, Talking
    <3>2. job[p].cid \in holds[f] /\ f \in adverts[job[p].cid]
      BY <1>1, <1>3, <2>3, <3>1
    <3>3. f \in job[p].ask \cup missed[p]
      BY <1>3, <3>2 DEF PurgeInv, PurgeAsks
    <3>4. QED
      BY <2>1, <3>3
  <2>4. QED
    BY <2>2, <2>3
<1>4. QED
  BY <1>2, <1>3 DEF PurgeInv, PurgeAsks

\* A request that an edge handles, as the senders see it before they go on.
LEMMA HandleAsks ==
    ASSUME CoreInv, PurgeInv, NEW op, NEW c \in Cids, NEW e \in Edges, Handle(op, c, e)
    PROVE  /\ missed' \in [Procs -> SUBSET Edges]
           /\ \A p \in Procs : pc[p] = "purge" /\ job[p].only = {} =>
                 \A f \in Edges : job[p].cid \in holds'[f] /\ f \in adverts'[job[p].cid] =>
                     f \in job[p].ask \cup missed'[p]
           /\ op = "purge" => c \notin holds'[e]
<1>1. holds \in [Edges -> SUBSET Cids] /\ adverts \in [Cids -> SUBSET Edges]
  BY DEF CoreInv, StateInv
<1>2. CASE /\ op = "cache" /\ e \notin Refusing
           /\ Store(c, e)
           /\ adverts' = [adverts EXCEPT ![c] = @ \cup {e}]
  <2>1. /\ holds' = [holds EXCEPT ![e] = @ \cup {c}]
        /\ missed' = [p \in Procs |->
                        IF pc[p] = "purge" /\ job[p].cid = c /\ e \notin job[p].ask
                        THEN missed[p] \cup {e} ELSE missed[p]]
    BY <1>2 DEF Store
  <2>2. QED
    BY <1>1, <1>2, <2>1 DEF PurgeInv, PurgeAsks
<1>3. CASE /\ op = "purge"
           /\ holds' = [holds EXCEPT ![e] = @ \ {c}]
           /\ UNCHANGED <<adverts, history>>
  <2>1. /\ missed' = missed /\ adverts' = adverts /\ c \notin holds'[e]
        /\ \A f \in Edges : holds'[f] \subseteq holds[f]
    BY <1>1, <1>3 DEF history
  <2>2. QED
    BY <2>1 DEF PurgeInv, PurgeAsks
<1>4. CASE /\ op = "probe" \/ (op = "cache" /\ e \in Refusing)
           /\ UNCHANGED <<edgeState, history>>
  BY <1>4 DEF PurgeInv, PurgeAsks, edgeState, history
<1>5. QED
  BY <1>2, <1>3, <1>4 DEF Handle

\* A purge takes a CID: whom discovery left out it has missed.
LEMMA TakePurgeAsks ==
    ASSUME CoreInv, PurgeInv, NEW p \in Procs, TakePurge(p)
    PROVE  PurgeInv'
<1>1. /\ job \in [Procs -> Job] /\ pc \in [Procs -> Steps] /\ job[p] \in Job
      /\ adverts \in [Cids -> SUBSET Edges]
      /\ UNCHANGED <<holds, adverts, catalog>> /\ Located(pc[p], job[p])
  BY DEF CoreInv, StateInv, ProcInv, TakePurge, edgeState
<1>2. PICK c \in job[p].todo : \E F \in FoundFor(c) :
          /\ job' = [job EXCEPT ![p].todo = @ \ {c},
                                ![p].cid = c,
                                ![p].ask = IF job[p].only = {} THEN PurgeTargets(c, F)
                                           ELSE job[p].only]
          /\ missed' = [missed EXCEPT ![p] = (adverts[c] \ F) \ EdgeIds(catalog, c)]
  BY DEF TakePurge
<1>3. PICK F \in FoundFor(c) :
          /\ job' = [job EXCEPT ![p].todo = @ \ {c},
                                ![p].cid = c,
                                ![p].ask = IF job[p].only = {} THEN PurgeTargets(c, F)
                                           ELSE job[p].only]
          /\ missed' = [missed EXCEPT ![p] = (adverts[c] \ F) \ EdgeIds(catalog, c)]
  BY <1>2
<1>4. c \in Cids
  BY <1>1, <1>2 DEF Located
<1>5. /\ missed' \in [Procs -> SUBSET Edges]
      /\ missed'[p] = (adverts[c] \ F) \ EdgeIds(catalog, c)
      /\ \A q \in Procs \ {p} : missed'[q] = missed[q]
  BY <1>1, <1>3, <1>4 DEF PurgeInv
<1>6. /\ pc'[p] = "purge"
      /\ \A q \in Procs \ {p} : pc'[q] = pc[q] /\ job'[q] = job[q]
  BY <1>1, <1>3 DEF TakePurge, Goto
<1>7. /\ job'[p].cid = c /\ job'[p].only = job[p].only
      /\ job[p].only = {} => job'[p].ask = EdgeIds(catalog, c) \cup F
  BY <1>1, <1>3 DEF Job, PurgeTargets
<1>8. PurgeAsks'
  <2> SUFFICES ASSUME NEW q \in Procs, pc'[q] = "purge", job'[q].only = {},
                      NEW e \in Edges, job'[q].cid \in holds[e], e \in adverts[job'[q].cid]
               PROVE  e \in job'[q].ask \cup missed'[q]
    BY <1>1 DEF PurgeAsks
  <2>1. CASE q = p
    BY <1>5, <1>7, <2>1
  <2>2. CASE q # p
    BY <1>5, <1>6, <2>2 DEF PurgeInv, PurgeAsks
  <2>3. QED
    BY <2>1, <2>2
<1>9. QED
  BY <1>5, <1>8 DEF PurgeInv

\* An edge that was asked holds the CID no more, or was missed.
LEMMA RequestAsks ==
    ASSUME CoreInv, PurgeInv, NEW p \in Procs, NEW e \in Edges,
           Request(p, e) \/ AnswerLost(p, e) \/ EdgeDeclines(p, e) \/ GiveUp(p, e)
    PROVE  PurgeInv'
<1>1. /\ Asking(p, e) /\ StateInv /\ pc' = pc
      /\ pc[p] \in {"probe", "cache", "purge"}
  BY DEF Request, AnswerLost, EdgeDeclines, GiveUp, CoreInv, Asking
<1>2. job[p].cid \in Cids /\ job[p] \in Job
  BY <1>1 DEF CoreInv, StateInv, ProcInv, Located, Talking
<1>3. PICK yes \in BOOLEAN : Learn(p, e, yes)
  <2>1. Says(pc[p], job[p].cid, e) \in BOOLEAN
    <3>1. CASE pc[p] = "cache"
      <4>1. Says(pc[p], job[p].cid, e) = (e \notin Refusing)
        BY <3>1 DEF Says
      <4>2. QED
        BY <4>1
    <3>2. CASE pc[p] # "cache"
      <4>1. Says(pc[p], job[p].cid, e) = (job[p].cid \in holds[e])
        BY <3>2 DEF Says
      <4>2. QED
        BY <4>1
    <3>3. QED
      BY <3>1, <3>2
  <2>2. QED
    BY <2>1 DEF Request, AnswerLost, EdgeDeclines, GiveUp
<1>4. /\ \A q \in Procs \ {p} : job'[q] = job[q]
      /\ job'[p].cid = job[p].cid /\ job'[p].only = job[p].only
      /\ job'[p].ask = job[p].ask \ {e}
  <2>1. job'[p] = Learnt(job[p], e, yes) /\ \A q \in Procs \ {p} : job'[q] = job[q]
    BY <1>1, <1>2, <1>3, LearnEffect
  <2>2. QED
    BY <1>2, <2>1 DEF Job, Learnt
<1>5. CASE Request(p, e) \/ AnswerLost(p, e)
  <2>1. Handle(pc[p], job[p].cid, e)
    BY <1>5 DEF Request, AnswerLost
  <2>2. /\ missed' \in [Procs -> SUBSET Edges]
        /\ \A q \in Procs : pc[q] = "purge" /\ job[q].only = {} =>
              \A f \in Edges : job[q].cid \in holds'[f] /\ f \in adverts'[job[q].cid] =>
                  f \in job[q].ask \cup missed'[q]
        /\ pc[p] = "purge" => job[p].cid \notin holds'[e]
    BY <1>2, <2>1, HandleAsks
  <2>3. ASSUME NEW q \in Procs, pc'[q] = "purge", job'[q].only = {},
               NEW f \in Edges, job'[q].cid \in holds'[f], f \in adverts'[job'[q].cid]
        PROVE  f \in job'[q].ask \cup missed'[q]
    <3>1. CASE q = p
      BY <1>1, <1>4, <2>2, <2>3, <3>1
    <3>2. CASE q # p
      BY <1>1, <1>4, <2>2, <2>3, <3>2
    <3>3. QED
      BY <3>1, <3>2
  <2>4. QED
    BY <2>2, <2>3 DEF PurgeInv, PurgeAsks
<1>6. CASE EdgeDeclines(p, e) \/ GiveUp(p, e)
  <2>1. holds' = holds /\ adverts' = adverts /\ Unreached(p, e)
    BY <1>6 DEF EdgeDeclines, GiveUp, edgeState
  <2>2. /\ missed' \in [Procs -> SUBSET Edges]
        /\ \A q \in Procs : missed[q] \subseteq missed'[q]
        /\ pc[p] = "purge" => e \in missed'[p]
    BY <2>1 DEF PurgeInv, Unreached
  <2>3. ASSUME NEW q \in Procs, pc'[q] = "purge", job'[q].only = {},
               NEW f \in Edges, job'[q].cid \in holds'[f], f \in adverts'[job'[q].cid]
        PROVE  f \in job'[q].ask \cup missed'[q]
    <3>1. f \in job[q].ask \cup missed[q]
      BY <1>1, <1>4, <2>1, <2>3 DEF PurgeInv, PurgeAsks
    <3>2. QED
      BY <1>1, <1>4, <2>2, <2>3, <3>1
  <2>4. QED
    BY <2>2, <2>3 DEF PurgeInv, PurgeAsks
<1>7. QED
  BY <1>5, <1>6

\* Late requests, reads and losses at the edges.
LEMMA WorldAsks ==
    ASSUME CoreInv, PurgeInv,
           \/ \E m \in late : LateArrives(m) \/ LateLost(m)
           \/ \E e \in Edges, c \in Cids : ReadThrough(e, c) \/ Lose(e, c)
    PROVE  PurgeInv'
<1>0. /\ late \subseteq [op : {"cache", "purge"}, cid : Cids, edge : Edges]
      /\ holds \in [Edges -> SUBSET Cids]
  BY DEF CoreInv, StateInv
<1>1. ASSUME NEW m \in late, LateArrives(m) PROVE PurgeInv'
  <2>1. m.cid \in Cids /\ m.edge \in Edges
    BY <1>0
  <2>2. Handle(m.op, m.cid, m.edge) /\ UNCHANGED <<pc, job>>
    BY <1>1 DEF LateArrives, progress
  <2>3. QED
    BY <2>1, <2>2, HandleAsks DEF PurgeInv, PurgeAsks
<1>2. ASSUME NEW m \in late, LateLost(m) PROVE PurgeInv'
  BY <1>2 DEF LateLost, edgeState, progress, history, PurgeInv, PurgeAsks
<1>3. ASSUME NEW e \in Edges, NEW c \in Cids, Lose(e, c) PROVE PurgeInv'
  <2>1. /\ \A f \in Edges : holds'[f] \subseteq holds[f]
        /\ UNCHANGED <<adverts, pc, job, missed>>
    BY <1>0, <1>3 DEF Lose, progress, history
  <2>2. QED
    BY <2>1 DEF PurgeInv, PurgeAsks
<1>4. ASSUME NEW e \in Edges, NEW c \in Cids, ReadThrough(e, c) PROVE PurgeInv'
  BY <1>4, StoreAsks DEF ReadThrough, progress
<1>5. QED
  BY <1>1, <1>2, <1>3, <1>4

\* A process goes on to a step that asks nobody, to its next CID or to its end.
LEMMA GotoAway ==
    ASSUME CoreInv, PurgeInv, NEW p \in Procs, NEW s, s # "purge",
           pc' = [pc EXCEPT ![p] = s],
           job' = job \/ (\E k : job' = [job EXCEPT ![p] = k]),
           missed' = missed \/ missed' = [missed EXCEPT ![p] = {}],
           UNCHANGED <<holds, adverts>>
    PROVE  PurgeInv'
<1>1. pc'[p] # "purge" /\ \A q \in Procs \ {p} : pc'[q] = pc[q] /\ job'[q] = job[q]
  BY DEF CoreInv, StateInv
<1>2. QED
  BY <1>1, AwayKeeps

\* Commands begin, or do what asks no edge to purge.
LEMMA ElseAsks ==
    ASSUME CoreInv, PurgeInv, NEW p \in Procs,
           \/ TakeEntry(p) \/ Plan(p) \/ Pick(p) \/ PickBlindly(p) \/ Recruited(p)
           \/ Purged(p) \/ CommitPut(p) \/ CommitPass(p) \/ CommitStatus(p) \/ Abort(p)
           \/ StartPass(p) \/ \E c \in Cids : Start(p, c)
    PROVE  PurgeInv'
<1>0. job \in [Procs -> Job] /\ pc \in [Procs -> Steps]
  BY DEF CoreInv, StateInv
<1>1. ASSUME Resolve(p), UNCHANGED <<edgeState, history>> PROVE PurgeInv'
  <2>1. \E k : job' = [job EXCEPT ![p] = k]
    BY <1>0, <1>1 DEF Resolve
  <2>2. QED
    BY <1>1, <2>1, GotoAway DEF Resolve, Goto, edgeState, history
<1>2. CASE TakeEntry(p)
  <2>1. CASE Goto(p, "commit") /\ UNCHANGED job
    BY <1>2, <2>1, GotoAway DEF TakeEntry, Goto, edgeState, history
  <2>2. ASSUME NEW c \in job[p].todo, Goto(p, "probe"),
               job' = [job EXCEPT ![p].todo = @ \ {c},
                                  ![p].cid = c,
                                  ![p].target = job[p].snap[c].target,
                                  ![p].ask = job[p].snap[c].edges,
                                  ![p].up = {}]
        PROVE  PurgeInv'
    <3>1. \E k : job' = [job EXCEPT ![p] = k]
      BY <1>0, <2>2
    <3>2. QED
      BY <1>2, <2>2, <3>1, GotoAway DEF TakeEntry, Goto, edgeState, history
  <2>3. QED
    BY <1>2, <2>1, <2>2 DEF TakeEntry
<1>3. CASE Plan(p)
  <2>1. CASE Goto(p, "pick") /\ UNCHANGED job
    BY <1>3, <2>1, GotoAway DEF Plan, Goto, edgeState, history
  <2>2. QED
    BY <1>1, <1>3, <2>1 DEF Plan
<1>4. CASE Pick(p) \/ PickBlindly(p)
  <2>1. PICK cand : PickFrom(p, cand)
    BY <1>4 DEF Pick, PickBlindly
  <2>2. \E k : job' = [job EXCEPT ![p] = k]
    BY <1>0, <2>1 DEF PickFrom
  <2>3. QED
    BY <2>1, <2>2, GotoAway DEF PickFrom, Goto, edgeState, history
<1>5. CASE Recruited(p)
  <2>1. CASE Goto(p, "commit") /\ UNCHANGED job
    BY <1>5, <2>1, GotoAway DEF Recruited, Goto, edgeState, history
  <2>2. QED
    BY <1>1, <1>5, <2>1 DEF Recruited
<1>6. ASSUME End(p), UNCHANGED edgeState PROVE PurgeInv'
  BY <1>6, GotoAway DEF End, edgeState
<1>7. CASE Purged(p)
  <2>1. CASE Goto(p, "next") /\ missed' = [missed EXCEPT ![p] = {}] /\ UNCHANGED job
    BY <1>7, <2>1, GotoAway DEF Purged, Goto, edgeState
  <2>2. QED
    BY <1>6, <1>7, <2>1 DEF Purged
<1>8. CASE CommitPut(p) \/ CommitPass(p) \/ CommitStatus(p) \/ Abort(p)
  BY <1>6, <1>8 DEF CommitPut, CommitPass, CommitStatus, Abort
<1>9. ASSUME NEW j, NEW s, s # "purge", Begin(p, j, s) PROVE PurgeInv'
  BY <1>9, GotoAway DEF Begin, edgeState
<1>10. CASE StartPass(p)
  BY <1>9, <1>10 DEF StartPass
<1>11. ASSUME NEW c \in Cids, Start(p, c) PROVE PurgeInv'
  <2>1. ASSUME NEW n, NEW r, StartPut(p, c, n, r) PROVE PurgeInv'
    BY <1>9, <2>1 DEF StartPut
  <2>2. ASSUME NEW C, NEW only, NEW keep, StartPurge(p, C, only, keep) PROVE PurgeInv'
    BY <1>9, <2>2 DEF StartPurge
  <2>3. ASSUME NEW F, StartStatus(p, c, F) PROVE PurgeInv'
    BY <1>9, <2>3 DEF StartStatus
  <2>4. CASE Forget(p, c)
    BY <2>4 DEF Forget, edgeState, progress, history, PurgeInv, PurgeAsks
  <2>5. QED
    BY <1>11, <2>1, <2>2, <2>3, <2>4 DEF Start
<1>12. QED
  BY <1>2, <1>3, <1>4, <1>5, <1>7, <1>8, <1>10, <1>11

\* Nobody purges yet.
LEMMA InitPurge == Init => PurgeInv
  BY DEF Init, PurgeInv, PurgeAsks

\* Every step keeps what a purge may leave behind.
LEMMA PurgeStep == IInv /\ [Next]_vars => PurgeInv'
<1> SUFFICES ASSUME CoreInv, PurgeInv, [Next]_vars PROVE PurgeInv'
  BY DEF IInv
<1>1. ASSUME NEW p \in Procs, Step(p) PROVE PurgeInv'
  BY <1>1, RequestAsks, TakePurgeAsks, ElseAsks DEF Step
<1>2. ASSUME NEW p \in Procs,
             StartPass(p) \/ PickBlindly(p) \/ Abort(p) \/ \E c \in Cids : Start(p, c)
      PROVE  PurgeInv'
  BY <1>2, ElseAsks
<1>3. ASSUME NEW p \in Procs, NEW e \in Edges,
             AnswerLost(p, e) \/ EdgeDeclines(p, e) \/ GiveUp(p, e)
      PROVE  PurgeInv'
  BY <1>3, RequestAsks
<1>4. CASE UNCHANGED vars
  BY <1>4 DEF PurgeInv, PurgeAsks, vars
<1>5. QED
  BY <1>1, <1>2, <1>3, <1>4, WorldAsks DEF Next

\* The invariant holds the state to its shape.
LEMMA IInvTypeOK == IInv => TypeOK
<1> SUFFICES ASSUME IInv PROVE TypeOK
  OBVIOUS
<1>1. /\ StateInv /\ \A p \in Procs : Located(pc[p], job[p])
      /\ missed \in [Procs -> SUBSET Edges]
  BY DEF IInv, CoreInv, ProcInv, PurgeInv
<1>2. /\ DOMAIN catalog \subseteq Cids /\ catalog \in [DOMAIN catalog -> Entry]
      /\ \A c \in DOMAIN catalog : catalog[c].healthy \subseteq catalog[c].edges
  <2>1. DOMAIN catalog \subseteq Cids /\ catalog \in [DOMAIN catalog -> GoodEntry]
    BY <1>1, CatalogShape DEF StateInv
  <2>2. QED
    BY <2>1 DEF GoodEntry
<1>3. ASSUME NEW p \in Procs
      PROVE  /\ job[p].todo \subseteq Cids
             /\ {job[p].ask, job[p].up, job[p].only} \subseteq SUBSET Edges
             /\ DOMAIN job[p].res \subseteq DOMAIN job[p].snap
             /\ pc[p] \in {"probe", "pick", "cache", "purge"} => job[p].cid \in Cids
  BY <1>1, <1>3 DEF StateInv, Job, Located, Talking
<1>4. QED
  BY <1>1, <1>2, <1>3 DEF TypeOK, StateInv, Steps

\* When nobody is left to ask, an advertised holder was missed.
LEMMA AskedAll == IInv => PurgeLeavesNoReplica
  BY DEF IInv, PurgeInv, PurgeAsks, PurgeLeavesNoReplica, Idle

\* The inductive invariant: the locals of every command are tied to what
\* happened since it began, and a purge has still to ask, or has missed,
\* every advertised holder.
THEOREM InvariantHolds == Spec => []IInv
<1>1. Init => IInv
  BY InitCore, InitPurge DEF IInv
<1>2. IInv /\ [Next]_vars => IInv'
  BY StepCore, PurgeStep DEF IInv
<1>3. QED
  BY <1>1, <1>2, PTL DEF Spec

\* The catalog, the edges and the locals of every command keep their shape,
\* and the results of a pass are for entries of its snapshot
\* (src/src/maintain.rs, run_once).
THEOREM TypeCorrect == Spec => []TypeOK
  BY InvariantHolds, IInvTypeOK, PTL

\* Once cmd_purge has asked every recorded and advertised edge, no edge that
\* ever advertised the object holds it, but for those that the purge is known
\* to have missed: whatever puts, passes, reads, failures and late requests
\* go on beside it, and whether or not a record shows the replica.
THEOREM PurgeHolds == Spec => []PurgeLeavesNoReplica
  BY InvariantHolds, AskedAll, PTL

\* put and run_once record as replicas only edges that held the object while
\* the command ran, whatever was lost, refused or given up.
THEOREM MeasuredHolds == Spec => MeasuredWhileRunning
<1>1. IInv /\ [Next]_vars => [RecordsMeasured]_vars
  BY MeasuredStep DEF IInv
<1>2. QED
  BY <1>1, InvariantHolds, PTL DEF Spec, MeasuredWhileRunning

\* A pass under way while an entry is purged or forgotten does not bring it
\* back: its update skips what is no longer listed.
THEOREM NoResurrectionHolds == Spec => NoResurrection
<1>1. IInv /\ [Next]_vars => [ListsOnlyPut]_vars
  BY ListedStep DEF IInv
<1>2. QED
  BY <1>1, InvariantHolds, PTL DEF Spec, NoResurrection

\* A replica that answers its probe is never dropped from the record by a
\* pass; what leaves the record was probed in vain, put anew, or recorded
\* after the snapshot of the pass.
THEOREM DroppedHolds == Spec => DroppedForCause
<1>1. IInv /\ [Next]_vars => [DropsWithCause]_vars
  BY DroppedStep DEF IInv
<1>2. QED
  BY <1>1, InvariantHolds, PTL DEF Spec, DroppedForCause
=============================================================================
