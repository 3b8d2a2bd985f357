-------------------------- MODULE CatalogLockProofs --------------------------
(***************************************************************************)
(* What the catalog's lock file and its atomic save guarantee for any      *)
(* number of processes, any staleness limit, any number of attempts and    *)
(* any number of processes killed.                                         *)
(*                                                                         *)
(* Exclusion rests on the lock file naming the process that holds it       *)
(* (HolderNamed), which a steal could break.  The first steal does not,    *)
(* because a process decides to steal only from a process that was killed  *)
(* (VictimKilled), and a killed process's lock file stays until it is      *)
(* stolen.  A second process that decided the same before the first acted  *)
(* is what breaks it: VictimKilled is about the time before any steal.     *)
(***************************************************************************)
EXTENDS CatalogLock, TLAPS

Committed == {p \in Procs : pc[p] \in {"commit", "done"}}

\* holders and the lock file agree
HolderNamed ==
    /\ \A p \in Procs : pc[p] \in Holding => lockBy = p
    /\ lockBy # NoProc => pc[lockBy] \in Holding \cup {"killed"}

HolderPrompt ==
    lockBy # NoProc /\ pc[lockBy] \in Holding => clock - lockAt <= StaleSecs

VictimKilled ==
    steals = 0 =>
        \A p \in Procs : pc[p] = "steal" => lockBy # NoProc /\ pc[lockBy] = "killed"

\* what a holder is about to write is the catalog, with all that is committed,
\* and its own edit
NothingLost ==
    /\ Committed \subseteq catalog.items
    /\ \A p \in Procs :
          /\ pc[p] \in {"write", "sync", "rename"} => local[p] = catalog.items \cup {p}
          /\ pc[p] = "rename" => tmp[p].items = local[p]

Exclusive == steals <= 1 => HolderNamed /\ HolderPrompt /\ VictimKilled /\ NothingLost

\* only whole files are renamed over the catalog
SaveWhole == catalog.whole /\ \A p \in Procs : pc[p] = "rename" => tmp[p].whole

\* nobody has seen the edit of a process that has not renamed
Unseen ==
    \A p \in Procs : pc[p] \notin {"commit", "done", "killed"} =>
        /\ p \notin catalog.items
        /\ \A q \in Procs \ {p} : p \notin local[q] /\ p \notin tmp[q].items

TriesLeft ==
    \A p \in Procs : pc[p] \in {"create", "stat", "steal"} => tries[p] < MaxTries

IInv == TypeOK /\ TriesLeft /\ Exclusive /\ SaveWhole /\ Unseen

-----------------------------------------------------------------------------
\* Every step keeps the types, and a process that tries has attempts left.
LEMMA TypeKept ==
    ASSUME TypeOK, TriesLeft, [Next]_vars
    PROVE  TypeOK' /\ TriesLeft'
<1> USE CatalogAssumption
<1>0. /\ \A p \in Procs : pc[p] \in Steps /\ tries[p] \in 0 .. MaxTries
      /\ MaxTries \in Nat /\ clock \in Nat
  BY DEF TypeOK
<1>1. ASSUME NEW p \in Procs, TryCreate(p)
      PROVE  TypeOK' /\ TriesLeft'
  BY <1>0, <1>1 DEF TypeOK, TriesLeft, TryCreate, Goto, Steps, Holding, Ended
<1>2. ASSUME NEW p \in Procs, Stat(p) \/ Steal(p)
      PROVE  TypeOK' /\ TriesLeft'
  <2>1. tries[p] < MaxTries
    BY <1>2 DEF TriesLeft, Stat, Steal
  <2>2. /\ UNCHANGED <<catalog, lockAt, tmp, local, clock>>
        /\ lockBy' \in Procs \cup {NoProc} /\ steals' \in Nat
    BY <1>2 DEF TypeOK, Stat, Steal
  <2>3. CASE Retry(p)
    <3>1. tries' = [tries EXCEPT ![p] = @ + 1] /\ tries' \in [Procs -> 0 .. MaxTries]
      BY <1>0, <2>1, <2>3 DEF TypeOK, Retry
    <3>2. pc' \in [Procs -> Steps] /\ TriesLeft'
      BY <1>0, <2>1, <2>3, <3>1 DEF TypeOK, TriesLeft, Retry, Goto, Steps, Holding, Ended
    <3>3. QED
      BY <2>2, <3>1, <3>2 DEF TypeOK
  <2>4. CASE Goto(p, "steal") /\ UNCHANGED tries
    BY <1>0, <2>1, <2>2, <2>4 DEF TypeOK, TriesLeft, Goto, Steps, Holding, Ended
  <2>5. QED
    BY <1>2, <2>3, <2>4 DEF Stat, Steal
<1>3. ASSUME NEW p \in Procs, Load(p)
      PROVE  TypeOK' /\ TriesLeft'
  BY <1>3 DEF TypeOK, TriesLeft, Load, Goto, Steps, Holding, Ended, Files
<1>4. ASSUME NEW p \in Procs, CreateTmp(p) \/ WriteTmp(p) \/ Rename(p)
      PROVE  TypeOK' /\ TriesLeft'
  <2>1. NoFile \in Files /\ Whole(local[p]) \in Files /\ tmp[p] \in Files
    BY DEF TypeOK, Files, NoFile, Whole
  <2>2. QED
    BY <1>4, <2>1 DEF TypeOK, TriesLeft, CreateTmp, WriteTmp, Rename, Goto, Steps, Holding, Ended
<1>5. ASSUME NEW p \in Procs, Fail(p) \/ Drop(p) \/ Kill(p)
      PROVE  TypeOK' /\ TriesLeft'
  BY <1>5 DEF TypeOK, TriesLeft, Fail, Drop, Kill, Goto, Steps, Holding, Ended
<1>6. CASE Tick
  BY <1>0, <1>6 DEF TypeOK, TriesLeft, Tick
<1>7. CASE UNCHANGED vars
  BY <1>7 DEF TypeOK, TriesLeft, vars
<1>8. QED
  BY <1>1, <1>2, <1>3, <1>4, <1>5, <1>6, <1>7 DEF Next, Run

\* The save stays atomic: a killed or failed save leaves the catalog whole.
LEMMA WholeKept ==
    ASSUME TypeOK, SaveWhole, [Next]_vars
    PROVE  SaveWhole'
<1>1. ASSUME NEW p \in Procs, Run(p) \/ Kill(p)
      PROVE  SaveWhole'
  BY <1>1 DEF SaveWhole, TypeOK, Run, TryCreate, Stat, Steal, Retry, Load, CreateTmp,
              WriteTmp, Rename, Fail, Drop, Kill, Goto, Whole
<1>2. CASE Tick \/ UNCHANGED vars
  BY <1>2 DEF SaveWhole, Tick, vars
<1>3. QED
  BY <1>1, <1>2 DEF Next

\* An edit stays unseen until its process renames.
LEMMA UnseenKept ==
    ASSUME TypeOK, Unseen, [Next]_vars
    PROVE  Unseen'
<1>1. ASSUME NEW p \in Procs, TryCreate(p) \/ Stat(p) \/ Steal(p) \/ Fail(p) \/ Drop(p)
                                \/ Kill(p)
      PROVE  Unseen'
  <2>1. UNCHANGED <<catalog, local, tmp>>
    BY <1>1 DEF TryCreate, Stat, Steal, Fail, Drop, Kill
  <2>2. \A q \in Procs : pc'[q] \notin {"commit", "done", "killed"} =>
                            pc[q] \notin {"commit", "done", "killed"}
    BY <1>1 DEF TypeOK, TryCreate, Stat, Steal, Retry, Fail, Drop, Kill, Goto, Ended
  <2>3. QED
    BY <2>1, <2>2 DEF Unseen
<1>2. ASSUME NEW p \in Procs, Load(p)
      PROVE  Unseen'
  <2>1. /\ UNCHANGED <<catalog, tmp>>
        /\ \A q \in Procs \ {p} : pc'[q] = pc[q] /\ local'[q] = local[q]
        /\ pc[p] = "load" /\ local'[p] = catalog.items \cup {p}
    BY <1>2 DEF TypeOK, Load, Goto
  <2>2. QED
    BY <2>1 DEF Unseen
<1>6. ASSUME NEW p \in Procs, CreateTmp(p)
      PROVE  Unseen'
  BY <1>6 DEF Unseen, TypeOK, CreateTmp, Goto, NoFile, Files
<1>3. ASSUME NEW p \in Procs, WriteTmp(p)
      PROVE  Unseen'
  BY <1>3 DEF Unseen, TypeOK, WriteTmp, Goto, Whole, Files
<1>4. ASSUME NEW p \in Procs, Rename(p)
      PROVE  Unseen'
  BY <1>4 DEF Unseen, TypeOK, Rename, Goto, NoFile, Files
<1>5. CASE Tick \/ UNCHANGED vars
  BY <1>5 DEF Unseen, Tick, vars
<1>7. QED
  BY <1>1, <1>2, <1>3, <1>4, <1>5, <1>6 DEF Next, Run

\* Up to the second steal, the lock excludes and no committed edit is lost.
LEMMA ExclusiveKept ==
    ASSUME TypeOK, Exclusive, [Next]_vars
    PROVE  Exclusive'
<1> USE CatalogAssumption
<1>0. steals \in Nat /\ \A p \in Procs : p # NoProc /\ pc[p] \in Steps
  BY DEF TypeOK
<1>1. ASSUME NEW p \in Procs, TryCreate(p)
      PROVE  Exclusive'
  <2> SUFFICES ASSUME steals' <= 1
               PROVE  HolderNamed' /\ HolderPrompt' /\ VictimKilled' /\ NothingLost'
    BY DEF Exclusive
  <2>0. HolderNamed /\ HolderPrompt /\ VictimKilled /\ NothingLost /\ steals' = steals
    BY <1>1 DEF Exclusive, TryCreate
  <2>1. CASE lockBy = NoProc
    <3>1. /\ lockBy' = p /\ lockAt' = clock /\ clock' = clock
          /\ pc' = [pc EXCEPT ![p] = "load"] /\ UNCHANGED <<catalog, tmp, local>>
          /\ pc[p] = "create"
      BY <1>1, <2>1 DEF TryCreate, Goto
    <3>2. \A q \in Procs : pc[q] \notin Holding /\ ~(steals = 0 /\ pc[q] = "steal")
      BY <1>0, <2>0, <2>1 DEF HolderNamed, VictimKilled
    <3>3. HolderNamed'
      BY <1>0, <3>1, <3>2 DEF TypeOK, HolderNamed, Holding
    <3>4. HolderPrompt'
      BY <3>1 DEF TypeOK, HolderPrompt
    <3>5. VictimKilled'
      BY <2>0, <3>1, <3>2 DEF TypeOK, VictimKilled
    <3>6. NothingLost'
      BY <2>0, <3>1 DEF TypeOK, NothingLost, Committed
    <3>7. QED
      BY <3>3, <3>4, <3>5, <3>6
  <2>2. CASE lockBy # NoProc
    <3>1. /\ pc' = [pc EXCEPT ![p] = "stat"] /\ pc[p] = "create"
          /\ UNCHANGED <<catalog, tmp, local, lockBy, lockAt, clock>>
      BY <1>1, <2>2 DEF TryCreate, Goto
    <3>2. lockBy # p
      BY <2>0, <2>2, <3>1 DEF HolderNamed, Holding
    <3>3. QED
      BY <1>0, <2>0, <2>2, <3>1, <3>2
         DEF TypeOK, HolderNamed, HolderPrompt, VictimKilled, NothingLost, Committed, Holding
  <2>3. QED
    BY <2>1, <2>2
<1>2. ASSUME NEW p \in Procs, Stat(p)
      PROVE  Exclusive'
  <2> SUFFICES ASSUME steals' <= 1
               PROVE  HolderNamed' /\ HolderPrompt' /\ VictimKilled' /\ NothingLost'
    BY DEF Exclusive
  <2>0. /\ HolderNamed /\ HolderPrompt /\ VictimKilled /\ NothingLost
        /\ pc[p] = "stat" /\ UNCHANGED <<catalog, lockBy, lockAt, tmp, local, clock, steals>>
    BY <1>2 DEF Exclusive, Stat
  <2>1. PICK step \in {"steal", "create", "failed"} :
          /\ pc' = [pc EXCEPT ![p] = step]
          /\ step = "steal" => IsStale
    BY <1>2 DEF Stat, Retry, Goto
  <2>2. lockBy # p
    BY <2>0 DEF HolderNamed, Holding
  <2>3. step = "steal" => lockBy # NoProc /\ pc[lockBy] = "killed"
    BY <2>0, <2>1 DEF IsStale, HolderNamed, HolderPrompt, TypeOK
  <2>4. HolderNamed' /\ HolderPrompt'
    BY <1>0, <2>0, <2>1, <2>2 DEF TypeOK, HolderNamed, HolderPrompt, Holding
  <2>5. VictimKilled'
    BY <2>0, <2>1, <2>2, <2>3 DEF TypeOK, VictimKilled
  <2>6. NothingLost'
    BY <2>0, <2>1 DEF TypeOK, NothingLost, Committed
  <2>7. QED
    BY <2>4, <2>5, <2>6
<1>3. ASSUME NEW p \in Procs, Steal(p)
      PROVE  Exclusive'
  <2> SUFFICES ASSUME steals' <= 1
               PROVE  HolderNamed' /\ HolderPrompt' /\ VictimKilled' /\ NothingLost'
    BY DEF Exclusive
  <2>0. /\ steals = 0 /\ steals' = 1 /\ pc[p] = "steal" /\ lockBy' = NoProc
        /\ UNCHANGED <<catalog, lockAt, tmp, local, clock>>
    BY <1>0, <1>3 DEF Steal
  <2>1. HolderNamed /\ VictimKilled /\ NothingLost
    BY <2>0 DEF Exclusive
  <2>2. PICK step \in {"create", "failed"} : pc' = [pc EXCEPT ![p] = step]
    BY <1>3 DEF Steal, Retry, Goto
  <2>3. \A q \in Procs : pc[q] \notin Holding
    BY <2>0, <2>1 DEF HolderNamed, VictimKilled, Holding
  <2>4. HolderNamed' /\ HolderPrompt' /\ VictimKilled'
    BY <2>0, <2>2, <2>3 DEF TypeOK, HolderNamed, HolderPrompt, VictimKilled, Holding
  <2>5. NothingLost'
    BY <2>0, <2>1, <2>2 DEF TypeOK, NothingLost, Committed
  <2>6. QED
    BY <2>4, <2>5
<1>4. ASSUME NEW p \in Procs, Load(p) \/ CreateTmp(p) \/ WriteTmp(p) \/ Rename(p)
                                \/ (Fail(p) /\ pc[p] # "create")
      PROVE  Exclusive'
  <2> SUFFICES ASSUME steals' <= 1
               PROVE  HolderNamed' /\ HolderPrompt' /\ VictimKilled' /\ NothingLost'
    BY DEF Exclusive
  <2>0. /\ pc[p] \in Holding
        /\ UNCHANGED <<lockBy, lockAt, clock, steals>>
        /\ \E step \in Holding : pc' = [pc EXCEPT ![p] = step]
    BY <1>4 DEF Load, CreateTmp, WriteTmp, Rename, Fail, Goto, Holding
  <2>1. HolderNamed /\ HolderPrompt /\ VictimKilled /\ NothingLost
    BY <2>0 DEF Exclusive
  <2>2. lockBy = p /\ p # NoProc /\ (\A q \in Procs \ {p} : pc[q] \notin Holding)
    BY <1>0, <2>0, <2>1 DEF HolderNamed
  <2>3. \A q \in Procs : ~(steals = 0 /\ pc[q] = "steal")
    BY <2>0, <2>1, <2>2 DEF VictimKilled, Holding
  <2>4. HolderNamed' /\ HolderPrompt'
    BY <2>0, <2>1, <2>2 DEF TypeOK, HolderNamed, HolderPrompt
  <2>5. VictimKilled'
    BY <2>0, <2>3 DEF TypeOK, VictimKilled, Holding
  <2>6. NothingLost'
    <3>1. CASE Load(p)
      BY <2>1, <3>1 DEF TypeOK, Load, Goto, NothingLost, Committed
    <3>2. CASE CreateTmp(p)
      BY <2>1, <2>2, <3>2 DEF TypeOK, CreateTmp, Goto, NothingLost, Committed, Holding
    <3>3. CASE WriteTmp(p)
      BY <2>1, <2>2, <3>3 DEF TypeOK, WriteTmp, Goto, NothingLost, Committed, Holding, Whole
    <3>4. CASE Rename(p)
      BY <2>1, <2>2, <3>4 DEF TypeOK, Rename, Goto, NothingLost, Committed, Holding
    <3>5. CASE Fail(p) /\ pc[p] # "create"
      BY <2>1, <3>5 DEF TypeOK, Fail, Goto, NothingLost, Committed
    <3>6. QED
      BY <1>4, <3>1, <3>2, <3>3, <3>4, <3>5
  <2>7. QED
    BY <2>4, <2>5, <2>6
<1>5. ASSUME NEW p \in Procs, (Fail(p) /\ pc[p] = "create") \/ Kill(p)
      PROVE  Exclusive'
  <2> SUFFICES ASSUME steals' <= 1
               PROVE  HolderNamed' /\ HolderPrompt' /\ VictimKilled' /\ NothingLost'
    BY DEF Exclusive
  <2>0. /\ UNCHANGED <<catalog, lockBy, lockAt, tmp, local, clock, steals>>
        /\ pc[p] \notin Ended
        /\ \/ pc' = [pc EXCEPT ![p] = "killed"]
           \/ pc' = [pc EXCEPT ![p] = "failed"] /\ pc[p] = "create"
    BY <1>5 DEF Fail, Kill, Goto, Ended
  <2>1. HolderNamed /\ HolderPrompt /\ VictimKilled /\ NothingLost
    BY <2>0 DEF Exclusive
  <2>2. HolderNamed' /\ HolderPrompt'
    BY <2>0, <2>1 DEF TypeOK, HolderNamed, HolderPrompt, Holding
  <2>3. VictimKilled'
    BY <2>0, <2>1 DEF TypeOK, VictimKilled
  <2>4. NothingLost'
    BY <2>0, <2>1 DEF TypeOK, NothingLost, Committed
  <2>5. QED
    BY <2>2, <2>3, <2>4
<1>6. ASSUME NEW p \in Procs, Drop(p)
      PROVE  Exclusive'
  <2> SUFFICES ASSUME steals' <= 1
               PROVE  HolderNamed' /\ HolderPrompt' /\ VictimKilled' /\ NothingLost'
    BY DEF Exclusive
  <2>0. /\ pc[p] \in {"commit", "abort"} /\ lockBy' = NoProc
        /\ UNCHANGED <<catalog, lockAt, tmp, local, clock, steals>>
        /\ pc' = [pc EXCEPT ![p] = IF pc[p] = "commit" THEN "done" ELSE "failed"]
    BY <1>6 DEF Drop, Goto
  <2>1. HolderNamed /\ HolderPrompt /\ VictimKilled /\ NothingLost
    BY <2>0 DEF Exclusive
  <2>2. lockBy = p /\ \A q \in Procs \ {p} : pc[q] \notin Holding
    BY <2>0, <2>1 DEF HolderNamed, Holding
  <2>3. HolderNamed' /\ HolderPrompt'
    BY <2>0, <2>2 DEF TypeOK, HolderNamed, HolderPrompt, Holding
  <2>4. VictimKilled'
    BY <2>0, <2>1, <2>2 DEF TypeOK, VictimKilled
  <2>5. NothingLost'
    BY <2>0, <2>1 DEF TypeOK, NothingLost, Committed
  <2>6. QED
    BY <2>3, <2>4, <2>5
<1>7. CASE Tick \/ UNCHANGED vars
  <2>1. UNCHANGED <<catalog, lockBy, lockAt, tmp, local, pc, steals>>
    BY <1>7 DEF Tick, vars
  <2>2. HolderPrompt => HolderPrompt'
    <3>1. CASE UNCHANGED vars
      BY <3>1 DEF vars, HolderPrompt
    <3>2. CASE Tick
      <4>1. lockBy # NoProc /\ pc[lockBy] \in Holding => clock' - lockAt <= StaleSecs
        <5>1. clock \in Nat /\ lockAt \in Nat
          BY DEF TypeOK
        <5>2. QED
          BY <3>2, <5>1 DEF Tick
      <4>2. QED
        BY <2>1, <4>1 DEF HolderPrompt
    <3>3. QED
      BY <1>7, <3>1, <3>2
  <2>3. /\ HolderNamed => HolderNamed'
        /\ VictimKilled => VictimKilled'
        /\ NothingLost => NothingLost'
    BY <2>1 DEF HolderNamed, VictimKilled, NothingLost, Committed
  <2>4. QED
    BY <2>1, <2>2, <2>3 DEF Exclusive
<1>8. QED
  BY <1>1, <1>2, <1>3, <1>4, <1>5, <1>6, <1>7 DEF Next, Run

-----------------------------------------------------------------------------
\* IInv is an inductive invariant of the catalog updates.
THEOREM InvariantHolds == Spec => []IInv
<1>1. Init => IInv
  <2> SUFFICES ASSUME Init
               PROVE  IInv
    OBVIOUS
  <2>1. TypeOK /\ TriesLeft
    BY CatalogAssumption DEF Init, TypeOK, TriesLeft, Steps, Holding, Files, NoFile, Whole
  <2>2. HolderNamed /\ HolderPrompt /\ VictimKilled /\ NothingLost
    BY DEF Init, HolderNamed, HolderPrompt, VictimKilled, NothingLost, Committed, Holding
  <2>3. SaveWhole /\ Unseen
    BY DEF Init, SaveWhole, Unseen, Whole, NoFile
  <2>4. QED
    BY <2>1, <2>2, <2>3 DEF IInv, Exclusive
<1>2. IInv /\ [Next]_vars => IInv'
  BY TypeKept, ExclusiveKept, WholeKept, UnseenKept DEF IInv
<1>3. QED
  BY <1>1, <1>2, PTL DEF Spec

\* The files, the lock and the processes keep their types.
THEOREM TypeCorrect == Spec => []TypeOK
<1>1. IInv => TypeOK
  BY DEF IInv
<1>2. QED
  BY <1>1, InvariantHolds, PTL

\* Catalog::save is atomic: whatever is killed or fails when, the catalog
\* file parses.
THEOREM SaveAtomic == Spec => []CatalogWhole
<1>1. IInv => CatalogWhole
  BY DEF IInv, SaveWhole, CatalogWhole
<1>2. QED
  BY <1>1, InvariantHolds, PTL

\* An update that failed has no effect, whoever overlapped it.
THEOREM FailureHasNoEffect == Spec => []NoEffectBeforeRename
<1>1. IInv => NoEffectBeforeRename
  BY DEF IInv, Unseen, NoEffectBeforeRename
<1>2. QED
  BY <1>1, InvariantHolds, PTL

\* The lock file excludes, and no successful update is lost, until a second
\* lock file is taken for abandoned.
THEOREM LockHolds == Spec => []ExclusiveUntilSecondSteal
<1>1. IInv => ExclusiveUntilSecondSteal
  BY DEF IInv, Exclusive, HolderNamed, NothingLost, Committed, ExclusiveUntilSecondSteal
<1>2. QED
  BY <1>1, InvariantHolds, PTL

\* Every change of the catalog file adds the edit of one update to what the
\* file holds at that moment, until a second lock file is taken for
\* abandoned: `Catalog::update` is a single step to everybody else, which is
\* how the commands of Maintain take it.
UpdatesAtomic ==
    [][steals' <= 1 =>
          \/ catalog' = catalog
          \/ \E p \in Procs : /\ pc[p] = "rename"
                              /\ catalog' = Whole(catalog.items \cup {p})]_vars

\* Until the second steal, updates take effect one at a time and whole.
THEOREM UpdatesAreAtomic == Spec => UpdatesAtomic
<1> DEFINE Atomic ==
             \/ catalog' = catalog
             \/ \E p \in Procs : /\ pc[p] = "rename"
                                 /\ catalog' = Whole(catalog.items \cup {p})
<1>1. IInv /\ [Next]_vars => [steals' <= 1 => Atomic]_vars
  <2> SUFFICES ASSUME IInv, Next, steals' <= 1
               PROVE  Atomic
    BY DEF vars
  <2>1. CASE Tick
    BY <2>1 DEF Tick
  <2>2. ASSUME NEW p \in Procs, Run(p) \/ Kill(p)
        PROVE  Atomic
    <3>1. CASE Rename(p)
      <4>1. steals <= 1 /\ pc[p] = "rename" /\ catalog' = tmp[p]
        BY <3>1 DEF Rename
      <4>2. tmp[p].whole /\ tmp[p].items = catalog.items \cup {p} /\ tmp[p] \in Files
        BY <4>1 DEF IInv, Exclusive, NothingLost, SaveWhole, TypeOK
      <4>3. tmp[p] = Whole(catalog.items \cup {p})
        BY <4>2 DEF Files, Whole
      <4>4. QED
        BY <4>1, <4>3
    <3>2. CASE ~Rename(p)
      BY <2>2, <3>2 DEF Run, TryCreate, Stat, Steal, Load, CreateTmp, WriteTmp, Fail,
                        Drop, Kill
    <3>3. QED
      BY <3>1, <3>2
  <2>3. QED
    BY <2>1, <2>2 DEF Next
<1>2. QED
  BY <1>1, InvariantHolds, PTL DEF Spec, UpdatesAtomic
=============================================================================
