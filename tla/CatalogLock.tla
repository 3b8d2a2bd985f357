----------------------------- MODULE CatalogLock -----------------------------
(***************************************************************************)
(* Concurrent `ce-cdn` commands that change the catalog file, each through *)
(* `Catalog::update` (src/src/catalog.rs): take the advisory lock file,    *)
(* load, edit, save over a temporary file, drop the lock.  A process runs  *)
(* one update; its edit adds an entry of its own.  Any process may be      *)
(* killed at any step, which leaves its lock file and temporary behind.    *)
(*                                                                         *)
(*   create   FileLock::acquire: create_new the lock file                  *)
(*   stat     it existed: how old is it                                    *)
(*   steal    it looked abandoned: remove it                               *)
(*   load     holds the lock, as far as it knows; reads the catalog        *)
(*   write, sync, rename   Catalog::save: create the temporary, fill it,   *)
(*            rename it over the catalog                                   *)
(*   commit, abort         the FileLock is dropped, after success / error  *)
(***************************************************************************)
EXTENDS Integers, FiniteSets

CONSTANTS
    Procs,      \* the processes
    NoProc,
    StaleSecs,  \* LOCK_STALE_SECS
    MaxTries,   \* attempts of FileLock::acquire (200)
    MaxClock,   \* bound on the clock
    MaxCrashes  \* bound on the processes killed

ASSUME CatalogAssumption ==
    /\ NoProc \notin Procs
    /\ StaleSecs \in Nat
    /\ MaxTries \in Nat \ {0}
    /\ MaxClock \in Nat
    /\ MaxCrashes \in Nat

VARIABLES
    catalog,  \* the catalog file: is it whole, and whose entries it has
    lockBy,   \* who created the lock file that exists, or NoProc
    lockAt,   \* its modification time
    tmp,      \* tmp[p]: the temporary file of p
    local,    \* local[p]: the catalog p loaded, with p's edit
    pc,
    tries,    \* tries[p]: failed attempts to take the lock
    clock,
    steals    \* history: lock files removed as abandoned

vars == <<catalog, lockBy, lockAt, tmp, local, pc, tries, clock, steals>>

Holding == {"load", "write", "sync", "rename", "commit", "abort"}
Ended == {"done", "failed", "killed"}
Steps == {"create", "stat", "steal"} \cup Holding \cup Ended

Files == [whole : BOOLEAN, items : SUBSET Procs]
NoFile == [whole |-> FALSE, items |-> {}]     \* also: created, not filled yet
Whole(S) == [whole |-> TRUE, items |-> S]

Killed == {p \in Procs : pc[p] = "killed"}

Goto(p, step) == pc' = [pc EXCEPT ![p] = step]

-----------------------------------------------------------------------------
Init ==
    /\ catalog = Whole({})
    /\ lockBy = NoProc
    /\ lockAt = 0
    /\ tmp = [p \in Procs |-> NoFile]
    /\ local = [p \in Procs |-> {}]
    /\ pc = [p \in Procs |-> "create"]
    /\ tries = [p \in Procs |-> 0]
    /\ clock = 0
    /\ steals = 0

\* Wrong variant: the lock file is opened whether it exists or not.
TryCreateAnyway(p) ==
    /\ pc[p] = "create"
    /\ lockBy' = p
    /\ lockAt' = clock
    /\ Goto(p, "load")
    /\ UNCHANGED <<catalog, tmp, local, tries, clock, steals>>

\* create_new succeeds, or answers AlreadyExists
TryCreate(p) ==
    /\ pc[p] = "create"
    /\ IF lockBy = NoProc
       THEN lockBy' = p /\ lockAt' = clock /\ Goto(p, "load")
       ELSE Goto(p, "stat") /\ UNCHANGED <<lockBy, lockAt>>
    /\ UNCHANGED <<catalog, tmp, local, tries, clock, steals>>

\* Wrong variant: the attempts are not bounded.
RetryForever(p) ==
    /\ tries' = [tries EXCEPT ![p] = @ + 1]
    /\ Goto(p, "create")

\* the next of the bounded attempts, or the timeout error
Retry(p) ==
    /\ tries' = [tries EXCEPT ![p] = @ + 1]
    /\ Goto(p, IF tries[p] + 1 < MaxTries THEN "create" ELSE "failed")

\* lock_is_stale; a lock file that is gone by now is not
IsStale == lockBy # NoProc /\ clock - lockAt > StaleSecs

\* Wrong variant: a wait for the lock does not count as an attempt.
StatUncounted(p) ==
    /\ pc[p] = "stat"
    /\ Goto(p, IF IsStale THEN "steal" ELSE "create")
    /\ UNCHANGED <<catalog, lockBy, lockAt, tmp, local, tries, clock, steals>>

\* back off and try again, unless the lock file looks abandoned
Stat(p) ==
    /\ pc[p] = "stat"
    /\ IF IsStale THEN Goto(p, "steal") /\ UNCHANGED tries ELSE Retry(p)
    /\ UNCHANGED <<catalog, lockBy, lockAt, tmp, local, clock, steals>>

\* remove_file removes the lock file of that name, whoever created it
Steal(p) ==
    /\ pc[p] = "steal"
    /\ lockBy' = NoProc
    /\ steals' = steals + 1
    /\ Retry(p)
    /\ UNCHANGED <<catalog, lockAt, tmp, local, clock>>

-----------------------------------------------------------------------------
\* Catalog::load, then the closure's edit
Load(p) ==
    /\ pc[p] = "load"
    /\ catalog.whole
    /\ local' = [local EXCEPT ![p] = catalog.items \cup {p}]
    /\ Goto(p, "write")
    /\ UNCHANGED <<catalog, lockBy, lockAt, tmp, tries, clock, steals>>

\* Wrong variant: save truncates the catalog itself.
CreateTmpInPlace(p) ==
    /\ pc[p] = "write"
    /\ catalog' = NoFile
    /\ Goto(p, "sync")
    /\ UNCHANGED <<lockBy, lockAt, tmp, local, tries, clock, steals>>

\* File::create of the temporary
CreateTmp(p) ==
    /\ pc[p] = "write"
    /\ tmp' = [tmp EXCEPT ![p] = NoFile]
    /\ Goto(p, "sync")
    /\ UNCHANGED <<catalog, lockBy, lockAt, local, tries, clock, steals>>

\* Wrong variant: the new catalog is in place before the last step that can fail.
WriteTmpInPlace(p) ==
    /\ pc[p] = "sync"
    /\ tmp' = [tmp EXCEPT ![p] = Whole(local[p])]
    /\ catalog' = Whole(local[p])
    /\ Goto(p, "rename")
    /\ UNCHANGED <<lockBy, lockAt, local, tries, clock, steals>>

\* write_all, flush and sync_all
WriteTmp(p) ==
    /\ pc[p] = "sync"
    /\ tmp' = [tmp EXCEPT ![p] = Whole(local[p])]
    /\ Goto(p, "rename")
    /\ UNCHANGED <<catalog, lockBy, lockAt, local, tries, clock, steals>>

Rename(p) ==
    /\ pc[p] = "rename"
    /\ catalog' = tmp[p]
    /\ tmp' = [tmp EXCEPT ![p] = NoFile]
    /\ Goto(p, "commit")
    /\ UNCHANGED <<lockBy, lockAt, local, tries, clock, steals>>

\* creating the lock file, load, the edit or save returns an error (a full
\* disk, say); in the first case there is no lock to drop
Fail(p) ==
    /\ pc[p] \in {"create", "load", "write", "sync", "rename"}
    /\ Goto(p, IF pc[p] = "create" THEN "failed" ELSE "abort")
    /\ UNCHANGED <<catalog, lockBy, lockAt, tmp, local, tries, clock, steals>>

\* Drop for FileLock: removes the lock file of that name, whoever created it
Drop(p) ==
    /\ pc[p] \in {"commit", "abort"}
    /\ lockBy' = NoProc
    /\ Goto(p, IF pc[p] = "commit" THEN "done" ELSE "failed")
    /\ UNCHANGED <<catalog, lockAt, tmp, local, tries, clock, steals>>

-----------------------------------------------------------------------------
\* the process is killed: nothing is dropped
Kill(p) ==
    /\ pc[p] \notin Ended
    /\ Cardinality(Killed) < MaxCrashes
    /\ Goto(p, "killed")
    /\ UNCHANGED <<catalog, lockBy, lockAt, tmp, local, tries, clock, steals>>

(***************************************************************************)
(* Time passes.  An update edits a small file and is assumed not to take   *)
(* LOCK_STALE_SECS: the lock of a process that is alive never grows stale. *)
(***************************************************************************)
Tick ==
    /\ clock < MaxClock
    /\ lockBy # NoProc /\ pc[lockBy] \in Holding => clock + 1 - lockAt <= StaleSecs
    /\ clock' = clock + 1
    /\ UNCHANGED <<catalog, lockBy, lockAt, tmp, local, pc, tries, steals>>

Run(p) ==
    \/ TryCreate(p)
    \/ Stat(p)
    \/ Steal(p)
    \/ Load(p)
    \/ CreateTmp(p)
    \/ WriteTmp(p)
    \/ Rename(p)
    \/ Fail(p)
    \/ Drop(p)

Next ==
    \/ \E p \in Procs : Run(p) \/ Kill(p)
    \/ Tick

Spec == Init /\ [][Next]_vars

\* a process that is alive keeps running
FairSpec == Spec /\ \A p \in Procs : WF_vars(Run(p))

-----------------------------------------------------------------------------
(* Properties.                                                             *)

\* The shape of the state.
TypeOK ==
    /\ catalog \in Files
    /\ lockBy \in Procs \cup {NoProc}
    /\ lockAt \in 0 .. clock
    /\ tmp \in [Procs -> Files]
    /\ local \in [Procs -> SUBSET Procs]
    /\ pc \in [Procs -> Steps]
    /\ tries \in [Procs -> 0 .. MaxTries]
    /\ clock \in 0 .. MaxClock
    /\ steals \in Nat

\* A process killed half way through a save, and any number of updates that
\* overlap it, leave a catalog that parses.
CatalogWhole == catalog.whole

\* An update that reported an error, or has not come to its rename yet, has
\* changed nothing, neither itself nor through an update that overlaps it.
NoEffectBeforeRename ==
    \A p \in Procs :
        pc[p] \notin {"commit", "done", "killed"} => p \notin catalog.items

\* An update that reported success is never lost again, at most one live
\* process is between load and rename, and what it is about to write is the
\* catalog as it still is with its own edit, as long as no more than one lock
\* file was ever taken for abandoned: the lock works until the second steal.
ExclusiveUntilSecondSteal ==
    steals <= 1 =>
        /\ \A p \in Procs : pc[p] \in {"commit", "done"} => p \in catalog.items
        /\ \A p, q \in Procs : pc[p] \in Holding /\ pc[q] \in Holding => p = q
        /\ \A p \in Procs : pc[p] \in {"write", "sync", "rename"} =>
                               local[p] = catalog.items \cup {p}

\* Every update ends, also behind a lock file whose owner was killed: the
\* attempts are bounded.
EveryUpdateEnds == \A p \in Procs : <>(pc[p] \in Ended)

\* What catalog.rs:165 says of `update`: "two concurrent `ce-cdn` processes
\* cannot lose each other's updates".
NoLostUpdate == \A p \in Procs : pc[p] = "done" => p \in catalog.items
=============================================================================
