--------------------------- MODULE HttpEdgeProofs ---------------------------
(***************************************************************************)
(* Single flight, and what rests on it, for any number of connections,     *)
(* CIDs and locks, every size and TTL, and any threshold of the inflight   *)
(* map's clean-up.                                                         *)
(*                                                                         *)
(* Why the invariant is stronger than SingleFlight: two handlers exclude   *)
(* each other only if they hold a reference to the same lock object.  The  *)
(* clean-up removes map entries, so it must be shown that the lock a       *)
(* handler refers to is always the one the map has for its CID             *)
(* (FlightMapped); that a handler in its critical section owns that lock   *)
(* (CriticalOwns); and, for NeverBoth, that the CID it fetches stays out   *)
(* of the cache until it writes it back (AbsentInCritical).                *)
(***************************************************************************)
EXTENDS HttpEdge, CacheOpsProofs, SequenceTheorems

HandlerOK ==
    /\ pc \in [Conns -> Steps]
    /\ req \in [Conns -> Request \cup {NoReq}]
    /\ flight \in [Conns -> Locks \cup {NoLock}]
    /\ clock \in 1 .. MaxClock
    /\ \A r \in Conns :
          /\ pc[r] # "idle" => req[r] \in Request /\ req[r].at <= clock
          /\ pc[r] = "replay" => req[r].proof \in Proofs
          /\ pc[r] \in Flying <=> flight[r] # NoLock

LocksOK ==
    /\ DOMAIN inflight \subseteq Cids /\ inflight \in [DOMAIN inflight -> Locks]
    /\ owner \in [Locks -> Conns \cup {NoConn}]
    /\ waiters \in [Locks -> Seq(Conns)]

HistoryOK ==
    /\ known \in [Cids -> U64]
    /\ guard \in [seen : SUBSET Proofs, order : Seq(Proofs)]
    /\ arrived \in Nat
    /\ accepted \in Seq(Proofs)

FlightMapped ==
    \A r \in Conns : flight[r] # NoLock =>
        /\ req[r].cid \in DOMAIN inflight
        /\ inflight[req[r].cid] = flight[r]

CriticalOwns ==
    \A r \in Conns : pc[r] \in Critical => owner[flight[r]] = r

AbsentInCritical ==
    \A r \in Conns : pc[r] \in Critical => req[r].cid \notin Held(cache)

IInv ==
    /\ HandlerOK
    /\ LocksOK
    /\ HistoryOK
    /\ Sound(cache)
    /\ FlightMapped
    /\ CriticalOwns
    /\ AbsentInCritical
    /\ NeverBoth

-----------------------------------------------------------------------------
\* The invariant gives mutual exclusion per CID.
LEMMA OneCritical == HandlerOK /\ FlightMapped /\ CriticalOwns => SingleFlight
<1> SUFFICES ASSUME HandlerOK, FlightMapped, CriticalOwns,
                    NEW r \in Conns, NEW q \in Conns,
                    pc[r] \in Critical, pc[q] \in Critical, req[r].cid = req[q].cid
             PROVE  r = q
  BY DEF SingleFlight
<1>1. flight[r] # NoLock /\ flight[q] # NoLock
  BY DEF HandlerOK, Flying
<1>2. flight[r] = flight[q]
  BY <1>1 DEF FlightMapped
<1>3. QED
  BY <1>2 DEF CriticalOwns

\* Withdrawing from a queue leaves a queue.
LEMMA WithdrawSeq ==
    ASSUME NEW W \in Seq(Conns), NEW r \in Conns
    PROVE  Withdraw(W, r) \in Seq(Conns)
<1>1. CASE \E i \in 1 .. Len(W) : W[i] = r
  <2> DEFINE i == CHOOSE j \in 1 .. Len(W) : W[j] = r
  <2>1. i \in 1 .. Len(W)
    BY <1>1
  <2> HIDE DEF i
  <2>2. Len(W) \in Nat /\ \A k \in 1 .. Len(W) : W[k] \in Conns
    OBVIOUS
  <2>3. SubSeq(W, 1, i - 1) \in Seq(Conns)
    <3>1. 1 \in Int /\ i - 1 \in Int /\ \A k \in 1 .. i - 1 : W[k] \in Conns
      BY <2>1, <2>2
    <3>2. QED
      BY <3>1, SubSeqProperties
  <2>4. SubSeq(W, i + 1, Len(W)) \in Seq(Conns)
    <3>1. i + 1 \in Int /\ Len(W) \in Int /\ \A k \in i + 1 .. Len(W) : W[k] \in Conns
      BY <2>1, <2>2
    <3>2. QED
      BY <3>1, SubSeqProperties
  <2>5. Withdraw(W, r) = SubSeq(W, 1, i - 1) \o SubSeq(W, i + 1, Len(W))
    BY <1>1 DEF Withdraw, i
  <2>6. QED
    BY <2>3, <2>4, <2>5, ConcatProperties
<1>2. CASE ~(\E i \in 1 .. Len(W) : W[i] = r)
  BY <1>2 DEF Withdraw
<1>3. QED
  BY <1>1, <1>2

\* Giving up the lock (returning, or being cancelled) keeps the locks typed
\* and takes it from nobody else.
LEMMA DropFlightKeeps ==
    ASSUME HandlerOK, LocksOK, CriticalOwns, NEW r \in Conns, DropFlight(r)
    PROVE  /\ LocksOK'
           /\ inflight' = inflight
           /\ flight' = [flight EXCEPT ![r] = NoLock]
           /\ \A q \in Conns \ {r} :
                 pc[q] \in Critical => owner'[flight[q]] = q
<1> DEFINE l == flight[r]
<1>1. flight' = [flight EXCEPT ![r] = NoLock] /\ inflight' = inflight
  BY DEF DropFlight
<1>2. /\ owner \in [Locks -> Conns \cup {NoConn}] /\ waiters \in [Locks -> Seq(Conns)]
      /\ flight[r] \in Locks \cup {NoLock}
  BY DEF LocksOK, HandlerOK
<1>3. CASE l = NoLock
  <2>1. owner' = owner /\ waiters' = waiters
    BY <1>3 DEF DropFlight
  <2>2. QED
    BY <1>1, <2>1 DEF LocksOK, CriticalOwns
<1>4. CASE l # NoLock /\ owner[l] # r
  <2>1. owner' = owner /\ waiters' = [waiters EXCEPT ![l] = Withdraw(waiters[l], r)]
    BY <1>4 DEF DropFlight
  <2>2. Withdraw(waiters[l], r) \in Seq(Conns)
    BY <1>2, <1>4, WithdrawSeq
  <2>3. waiters' \in [Locks -> Seq(Conns)]
    BY <1>2, <2>1, <2>2
  <2>4. QED
    BY <1>1, <2>1, <2>3 DEF LocksOK, CriticalOwns
<1>5. CASE l # NoLock /\ owner[l] = r
  <2>1. \A q \in Conns \ {r} : pc[q] \in Critical => flight[q] # l /\ owner[flight[q]] = q
    BY <1>5 DEF CriticalOwns
  <2>2. CASE waiters[l] = << >>
    <3>1. owner' = [owner EXCEPT ![l] = NoConn] /\ waiters' = waiters
      BY <1>5, <2>2 DEF DropFlight
    <3>2. \A q \in Conns \ {r} : pc[q] \in Critical => owner'[flight[q]] = q
      BY <1>2, <2>1, <3>1
    <3>3. owner' \in [Locks -> Conns \cup {NoConn}]
      BY <1>2, <3>1
    <3>4. QED
      BY <1>1, <3>1, <3>2, <3>3 DEF LocksOK
  <2>3. CASE waiters[l] # << >>
    <3>1. /\ owner' = [owner EXCEPT ![l] = Head(waiters[l])]
          /\ waiters' = [waiters EXCEPT ![l] = Tail(waiters[l])]
      BY <1>5, <2>3 DEF DropFlight
    <3>2. Head(waiters[l]) \in Conns /\ Tail(waiters[l]) \in Seq(Conns)
      BY <1>2, <1>5, <2>3, HeadTailProperties
    <3>3. \A q \in Conns \ {r} : pc[q] \in Critical => owner'[flight[q]] = q
      BY <1>2, <2>1, <3>1
    <3>4. /\ owner' \in [Locks -> Conns \cup {NoConn}]
          /\ waiters' \in [Locks -> Seq(Conns)]
      BY <1>2, <3>1, <3>2
    <3>5. QED
      BY <1>1, <3>3, <3>4 DEF LocksOK
  <2>4. QED
    BY <2>2, <2>3
<1>6. QED
  BY <1>3, <1>4, <1>5

-----------------------------------------------------------------------------
(* The three ways a handler moves on.                                      *)

Keeps == HandlerOK' /\ LocksOK' /\ FlightMapped' /\ CriticalOwns'

\* The handler goes to another step; locks and references stay as they are.
LEMMA MoveKeeps ==
    ASSUME HandlerOK, LocksOK, FlightMapped, CriticalOwns,
           NEW r \in Conns, NEW step \in Steps \ {"idle", "replay"}, pc[r] # "idle",
           Goto(r, step), UNCHANGED <<locks, flight, clock>>,
           step \in Flying <=> pc[r] \in Flying,
           step \in Critical => owner[flight[r]] = r
    PROVE  Keeps
<1>1. /\ pc' = [pc EXCEPT ![r] = step] /\ req' = req /\ flight' = flight
      /\ clock' = clock /\ inflight' = inflight /\ owner' = owner /\ waiters' = waiters
  BY DEF Goto, locks
<1>2. HandlerOK'
  BY <1>1 DEF HandlerOK
<1>3. LocksOK' /\ FlightMapped'
  BY <1>1 DEF LocksOK, FlightMapped
<1>4. CriticalOwns'
  BY <1>1 DEF CriticalOwns, HandlerOK
<1>5. QED
  BY <1>2, <1>3, <1>4 DEF Keeps

\* The handler ends outside its single flight.
LEMMA EndKeeps ==
    ASSUME HandlerOK, LocksOK, FlightMapped, CriticalOwns,
           NEW r \in Conns, pc[r] \notin Flying,
           End(r), UNCHANGED <<locks, flight, clock>>
    PROVE  Keeps
<1>1. /\ pc' = [pc EXCEPT ![r] = "idle"] /\ req' = [req EXCEPT ![r] = NoReq]
      /\ flight' = flight /\ clock' = clock
      /\ inflight' = inflight /\ owner' = owner /\ waiters' = waiters
  BY DEF End, locks
<1>2. flight[r] = NoLock
  BY DEF HandlerOK
<1>3. HandlerOK'
  BY <1>1, <1>2 DEF HandlerOK, Steps, Flying, Critical
<1>4. LocksOK'
  BY <1>1 DEF LocksOK
<1>5. FlightMapped'
  BY <1>1, <1>2 DEF FlightMapped, HandlerOK
<1>6. CriticalOwns'
  BY <1>1 DEF CriticalOwns, HandlerOK, Critical
<1>7. QED
  BY <1>3, <1>4, <1>5, <1>6 DEF Keeps

\* The handler gives up its lock and ends, or goes on to serve the bytes.
LEMMA LeaveKeeps ==
    ASSUME HandlerOK, LocksOK, FlightMapped, CriticalOwns,
           NEW r \in Conns, pc[r] # "idle",
           End(r) \/ Goto(r, "serve"), DropFlight(r), UNCHANGED clock
    PROVE  Keeps
<1>1. /\ LocksOK' /\ inflight' = inflight
      /\ flight' = [flight EXCEPT ![r] = NoLock]
      /\ \A q \in Conns \ {r} : pc[q] \in Critical => owner'[flight[q]] = q
  BY DropFlightKeeps
<1>2. /\ \A q \in Conns \ {r} : pc'[q] = pc[q] /\ req'[q] = req[q] /\ flight'[q] = flight[q]
      /\ pc'[r] \in {"idle", "serve"} /\ flight'[r] = NoLock
  BY <1>1 DEF End, Goto, HandlerOK
<1>3. HandlerOK'
  BY <1>1 DEF HandlerOK, End, Goto, Steps, Flying, Critical
<1>4. FlightMapped'
  BY <1>1, <1>2 DEF FlightMapped
<1>5. CriticalOwns'
  BY <1>1, <1>2 DEF CriticalOwns, Critical
<1>6. QED
  BY <1>1, <1>3, <1>4, <1>5 DEF Keeps

-----------------------------------------------------------------------------
(* Each action keeps the invariant.                                        *)

\* What a request carries, in a form the cache lemmas use.
LEMMA RequestTyped ==
    ASSUME HandlerOK, NEW r \in Conns, pc[r] # "idle"
    PROVE  req[r].cid \in Cids /\ req[r].at \in U64
BY DEF HandlerOK, Request

\* A step that changes neither cache nor history.
LEMMA QuietStep ==
    ASSUME IInv, Keeps, AbsentInCritical', UNCHANGED <<cache, guard, history>>
    PROVE  IInv'
BY DEF IInv, Keeps, HistoryOK, history, NeverBoth, Held, Tombstoned

\* A request that arrives keeps the invariant.
LEMMA ArriveKeeps ==
    ASSUME IInv, NEW r \in Conns, NEW c \in Cids,
           ArriveOpen(r, c) \/ \E p \in Proofs : ArrivePop(r, c, p)
    PROVE  IInv'
<1>1. PICK p \in Proofs \cup {NoProof}, step \in {"checked", "replay"} :
         /\ Arrive(r, c, p, step)
         /\ step = "replay" => p \in Proofs
  BY DEF ArriveOpen, ArrivePop
<1>2. /\ pc[r] = "idle" /\ pc' = [pc EXCEPT ![r] = step]
      /\ req' = [req EXCEPT ![r] = [cid |-> c, at |-> clock, proof |-> p]]
      /\ flight' = flight /\ clock' = clock /\ arrived' = arrived + 1
      /\ inflight' = inflight /\ owner' = owner /\ waiters' = waiters
      /\ cache' = cache /\ guard' = guard /\ accepted' = accepted /\ known' = known
  BY <1>1 DEF Arrive, locks
<1>3. HandlerOK /\ LocksOK /\ FlightMapped /\ CriticalOwns /\ flight[r] = NoLock
  BY <1>2 DEF IInv, HandlerOK, Flying, Critical
<1>4. clock \in U64 /\ clock \in 1 .. MaxClock
  BY <1>3, HttpAssumption, CacheAssumption DEF HandlerOK, U64
<1>5. [cid |-> c, at |-> clock, proof |-> p] \in Request
  BY <1>1, <1>4 DEF Request
<1>6. HandlerOK'
  BY <1>1, <1>2, <1>3, <1>4, <1>5 DEF HandlerOK, Steps, Flying, Critical
<1>7. LocksOK' /\ FlightMapped' /\ CriticalOwns'
  BY <1>1, <1>2, <1>3 DEF LocksOK, FlightMapped, CriticalOwns, HandlerOK, Critical
<1>8. HistoryOK'
  BY <1>2 DEF IInv, HistoryOK
<1>9. AbsentInCritical' /\ NeverBoth'
  BY <1>1, <1>2, <1>3 DEF IInv, AbsentInCritical, NeverBoth, HandlerOK, Critical
<1>10. QED
  BY <1>2, <1>6, <1>7, <1>8, <1>9 DEF IInv

\* So does the replay check, which touches the guard and one handler only.
LEMMA CheckReplayKeeps ==
    ASSUME IInv, NEW r \in Conns, CheckReplay(r)
    PROVE  IInv'
<1>1. /\ pc[r] = "replay" /\ guard' = Accept(guard, req[r].proof, GuardCap)
      /\ cache' = cache /\ arrived' = arrived /\ known' = known
      /\ UNCHANGED <<locks, flight, clock>>
  BY DEF CheckReplay
<1>2. HandlerOK /\ LocksOK /\ FlightMapped /\ CriticalOwns /\ HistoryOK
      /\ AbsentInCritical /\ NeverBoth /\ Sound(cache)
  BY DEF IInv
<1>3. req[r].proof \in Proofs
  BY <1>1, <1>2 DEF HandlerOK
<1>4. Keeps /\ pc'[r] \notin Critical
      /\ \A q \in Conns \ {r} : pc'[q] = pc[q] /\ req'[q] = req[q]
  <2>1. CASE IsNew(guard, req[r].proof)
    <3>1. Goto(r, "checked")
      BY <2>1 DEF CheckReplay
    <3>2. Keeps
      BY <1>1, <1>2, <3>1, MoveKeeps DEF Steps, Flying, Critical
    <3>3. QED
      BY <1>2, <3>1, <3>2 DEF Goto, HandlerOK, Critical
  <2>2. CASE ~IsNew(guard, req[r].proof)
    <3>1. End(r)
      BY <2>2 DEF CheckReplay
    <3>2. Keeps
      BY <1>1, <1>2, <3>1, EndKeeps DEF Flying, Critical
    <3>3. QED
      BY <1>2, <3>1, <3>2 DEF End, HandlerOK, Critical
  <2>3. QED
    BY <2>1, <2>2
<1>5. AbsentInCritical' /\ NeverBoth'
  BY <1>1, <1>2, <1>4 DEF AbsentInCritical, NeverBoth
<1>6. accepted' \in Seq(Proofs)
  <2>1. accepted \in Seq(Proofs)
    BY <1>2 DEF HistoryOK
  <2>2. accepted' = accepted \/ accepted' = Append(accepted, req[r].proof)
    BY DEF CheckReplay
  <2>3. QED
    BY <1>3, <2>1, <2>2
<1>7. guard' \in [seen : SUBSET Proofs, order : Seq(Proofs)]
  <2> DEFINE full == Append(guard.order, req[r].proof)
  <2>1. guard.seen \in SUBSET Proofs /\ guard.order \in Seq(Proofs)
        /\ guard \in [seen : SUBSET Proofs, order : Seq(Proofs)]
    BY <1>2 DEF HistoryOK
  <2>2. full \in Seq(Proofs) /\ full # << >>
    BY <1>3, <2>1, AppendProperties
  <2>3. Tail(full) \in Seq(Proofs)
    BY <2>2, HeadTailProperties
  <2>4. /\ (guard.seen \cup {req[r].proof}) \ {Head(full)} \in SUBSET Proofs
        /\ guard.seen \cup {req[r].proof} \in SUBSET Proofs
    BY <1>3, <2>1
  <2>5. \/ guard' = guard
        \/ guard' = [seen |-> (guard.seen \cup {req[r].proof}) \ {Head(full)},
                     order |-> Tail(full)]
        \/ guard' = [seen |-> guard.seen \cup {req[r].proof}, order |-> full]
    BY <1>1 DEF Accept
  <2> DEFINE less == (guard.seen \cup {req[r].proof}) \ {Head(full)}
             more == guard.seen \cup {req[r].proof}
             rest == Tail(full)
  <2> HIDE DEF full, less, more, rest
  <2>6. guard' = guard \/ guard' = [seen |-> less, order |-> rest]
        \/ guard' = [seen |-> more, order |-> full]
    BY <2>5 DEF less, more, rest
  <2>7. less \in SUBSET Proofs /\ more \in SUBSET Proofs
        /\ rest \in Seq(Proofs) /\ full \in Seq(Proofs)
    BY <2>2, <2>3, <2>4 DEF less, more, rest
  <2>8. QED
    BY <2>1, <2>6, <2>7
<1>8. HistoryOK'
  BY <1>1, <1>2, <1>6, <1>7 DEF HistoryOK
<1>9. QED
  BY <1>1, <1>2, <1>4, <1>5, <1>8 DEF IInv, Keeps

\* The steps that touch nothing but the handler.
LEMMA LocalKeeps ==
    ASSUME IInv, NEW r \in Conns, NotModified(r) \/ FetchOk(r) \/ FetchErr(r) \/ Serve(r)
    PROVE  IInv'
<1>1. HandlerOK /\ LocksOK /\ FlightMapped /\ CriticalOwns /\ AbsentInCritical
  BY DEF IInv
<1>2. UNCHANGED <<cache, guard, history>> /\ UNCHANGED <<locks, flight, clock>>
  BY DEF NotModified, FetchOk, FetchErr, Serve
<1>3. CASE End(r) /\ pc[r] \in {"checked", "serve"}
  <2>1. Keeps
    BY <1>1, <1>2, <1>3, EndKeeps DEF Flying, Critical
  <2>2. AbsentInCritical'
    BY <1>1, <1>2, <1>3 DEF AbsentInCritical, End, HandlerOK, Critical
  <2>3. QED
    BY <1>2, <2>1, <2>2, QuietStep
<1>4. CASE pc[r] = "fetch" /\ \E step \in {"insert", "note"} : Goto(r, step)
  <2>1. PICK step \in {"insert", "note"} : Goto(r, step)
    BY <1>4
  <2>2. owner[flight[r]] = r
    BY <1>1, <1>4 DEF CriticalOwns, Critical
  <2>3. Keeps
    BY <1>1, <1>2, <1>4, <2>1, <2>2, MoveKeeps DEF Steps, Flying, Critical
  <2>4. AbsentInCritical'
    BY <1>1, <1>2, <1>4, <2>1 DEF AbsentInCritical, Goto, HandlerOK, Critical
  <2>5. QED
    BY <1>2, <2>3, <2>4, QuietStep
<1>5. QED
  BY <1>3, <1>4 DEF NotModified, FetchOk, FetchErr, Serve

\* 413, or the client goes away.
LEMMA GiveUpKeeps ==
    ASSUME IInv, NEW r \in Conns, FetchTooLarge(r) \/ Cancel(r)
    PROVE  IInv'
<1>1. HandlerOK /\ LocksOK /\ FlightMapped /\ CriticalOwns /\ AbsentInCritical
  BY DEF IInv
<1>2. /\ UNCHANGED <<cache, guard, history>> /\ UNCHANGED clock
      /\ End(r) /\ DropFlight(r) /\ pc[r] # "idle"
  BY DEF FetchTooLarge, Cancel
<1>3. Keeps
  BY <1>1, <1>2, LeaveKeeps
<1>4. AbsentInCritical'
  BY <1>1, <1>2 DEF AbsentInCritical, End, HandlerOK, Critical
<1>5. QED
  BY <1>2, <1>3, <1>4, QuietStep

\* A step of r that may change the cache, but adds nothing to it and does not
\* enter the critical section.
LEMMA CacheStep ==
    ASSUME IInv, NEW r \in Conns, Keeps, Sound(cache'),
           Held(cache') \subseteq Held(cache),
           Tombstoned(cache') \subseteq Tombstoned(cache),
           \A q \in Conns \ {r} : pc'[q] = pc[q] /\ req'[q] = req[q],
           pc'[r] \notin Critical, UNCHANGED <<guard, history>>
    PROVE  IInv'
<1>1. AbsentInCritical'
  BY DEF IInv, AbsentInCritical, HandlerOK
<1>2. NeverBoth'
  BY DEF IInv, NeverBoth
<1>3. HistoryOK'
  BY DEF IInv, HistoryOK, history
<1>4. QED
  BY <1>1, <1>2, <1>3 DEF IInv, Keeps

\* So does the negative check: it removes tombstones at most.
LEMMA CheckNegativeKeeps ==
    ASSUME IInv, NEW r \in Conns, CheckNegative(r)
    PROVE  IInv'
<1>1. /\ HandlerOK /\ LocksOK /\ FlightMapped /\ CriticalOwns /\ Sound(cache)
      /\ pc[r] = "checked" /\ UNCHANGED <<locks, flight, clock>>
      /\ UNCHANGED <<guard, history>>
  BY DEF IInv, CheckNegative
<1>2. req[r].cid \in Cids /\ req[r].at \in U64
  BY <1>1, RequestTyped
<1>3. cache' = cache \/ cache' = IsNegative(cache, req[r].cid, req[r].at)
  BY DEF CheckNegative
<1>4. /\ Sound(cache') /\ Held(cache') \subseteq Held(cache)
      /\ Tombstoned(cache') \subseteq Tombstoned(cache)
  BY <1>1, <1>2, <1>3, IsNegativeSound DEF Held
<1>5. End(r) \/ Goto(r, "read")
  BY DEF CheckNegative
<1>6. Keeps
  BY <1>1, <1>5, EndKeeps, MoveKeeps DEF Steps, Flying, Critical
<1>7. /\ \A q \in Conns \ {r} : pc'[q] = pc[q] /\ req'[q] = req[q]
      /\ pc'[r] \notin Critical
  BY <1>1, <1>5 DEF End, Goto, HandlerOK, Critical
<1>8. QED
  BY <1>1, <1>4, <1>6, <1>7, CacheStep

\* So does the first read: it removes the expired entry at most.
LEMMA ReadKeeps ==
    ASSUME IInv, NEW r \in Conns, Read(r)
    PROVE  IInv'
<1>1. /\ HandlerOK /\ LocksOK /\ FlightMapped /\ CriticalOwns /\ Sound(cache)
      /\ pc[r] = "read" /\ UNCHANGED <<locks, flight, clock>>
      /\ UNCHANGED <<guard, history>> /\ cache' = Get(cache, req[r].cid, req[r].at)
  BY DEF IInv, Read
<1>2. req[r].cid \in Cids /\ req[r].at \in U64
  BY <1>1, RequestTyped
<1>3. /\ Sound(cache') /\ Held(cache') \subseteq Held(cache)
      /\ Tombstoned(cache') \subseteq Tombstoned(cache)
  BY <1>1, <1>2, GetSound DEF Tombstoned
<1>4. PICK step \in {"serve", "cold"} : Goto(r, step)
  BY DEF Read
<1>5. Keeps
  BY <1>1, <1>4, MoveKeeps DEF Steps, Flying, Critical
<1>6. /\ \A q \in Conns \ {r} : pc'[q] = pc[q] /\ req'[q] = req[q]
      /\ pc'[r] \notin Critical
  BY <1>1, <1>4 DEF Goto, HandlerOK, Critical
<1>7. QED
  BY <1>1, <1>3, <1>5, <1>6, CacheStep

\* Cleaning the map up leaves every lock in it that a handler refers to.
LEMMA CleanedKeeps ==
    ASSUME HandlerOK, LocksOK, FlightMapped
    PROVE  /\ DOMAIN Cleaned \subseteq Cids /\ Cleaned \in [DOMAIN Cleaned -> Locks]
           /\ \A q \in Conns : flight[q] # NoLock =>
                 /\ req[q].cid \in DOMAIN Cleaned
                 /\ Cleaned[req[q].cid] = flight[q]
<1> DEFINE S == {c \in DOMAIN inflight : ~Referenced(inflight[c])}
<1>1. DOMAIN inflight \subseteq Cids /\ inflight \in [DOMAIN inflight -> Locks]
  BY DEF LocksOK
<1>2. CASE Cleaned = inflight
  BY <1>1, <1>2 DEF FlightMapped
<1>3. CASE Cleaned = Without(inflight, S)
  <2>1. /\ DOMAIN Cleaned = DOMAIN inflight \ S
        /\ \A c \in DOMAIN inflight \ S : Cleaned[c] = inflight[c]
        /\ Cleaned \in [DOMAIN Cleaned -> Locks]
    BY <1>1, <1>3 DEF Without
  <2>2. ASSUME NEW q \in Conns, flight[q] # NoLock
        PROVE  req[q].cid \in DOMAIN inflight \ S /\ inflight[req[q].cid] = flight[q]
    BY <2>2 DEF FlightMapped, Referenced
  <2>3. QED
    BY <1>1, <2>1, <2>2
<1>4. QED
  BY <1>2, <1>3 DEF Cleaned

\* So does inflight_lock: the clean-up spares every lock that is referred to,
\* and a new lock is one nobody else refers to.
LEMMA TakeFlightKeeps ==
    ASSUME IInv, NEW r \in Conns, TakeFlight(r)
    PROVE  IInv'
<1> DEFINE c == req[r].cid
<1>1. /\ HandlerOK /\ LocksOK /\ FlightMapped /\ CriticalOwns /\ AbsentInCritical
      /\ pc[r] = "cold" /\ Goto(r, "flight") /\ UNCHANGED <<cache, guard, clock, history>>
  BY DEF IInv, TakeFlight
<1>2. c \in Cids /\ flight[r] = NoLock
  BY <1>1, RequestTyped DEF HandlerOK, Flying, Critical
<1>3. /\ DOMAIN Cleaned \subseteq Cids /\ Cleaned \in [DOMAIN Cleaned -> Locks]
      /\ \A q \in Conns : flight[q] # NoLock =>
            /\ req[q].cid \in DOMAIN Cleaned
            /\ Cleaned[req[q].cid] = flight[q]
  BY <1>1, CleanedKeeps
<1>4. /\ pc' = [pc EXCEPT ![r] = "flight"] /\ req' = req /\ clock' = clock
  BY <1>1 DEF Goto
<1>5. PICK l \in Locks :
         /\ flight' = [flight EXCEPT ![r] = l]
         /\ c \in DOMAIN inflight' /\ inflight'[c] = l
         /\ DOMAIN inflight' \subseteq Cids /\ inflight' \in [DOMAIN inflight' -> Locks]
         /\ \A d \in DOMAIN Cleaned : d \in DOMAIN inflight' /\ inflight'[d] = Cleaned[d]
         /\ owner' \in [Locks -> Conns \cup {NoConn}]
         /\ waiters' \in [Locks -> Seq(Conns)]
         /\ \A q \in Conns : pc[q] \in Critical => owner'[flight[q]] = owner[flight[q]]
  <2>1. CASE /\ c \in DOMAIN Cleaned
             /\ inflight' = Cleaned
             /\ flight' = [flight EXCEPT ![r] = Cleaned[c]]
             /\ UNCHANGED <<owner, waiters>>
    BY <1>1, <1>3, <2>1 DEF LocksOK
  <2>2. ASSUME c \notin DOMAIN Cleaned, NEW l \in FreshLocks,
               inflight' = With(Cleaned, c, l),
               flight' = [flight EXCEPT ![r] = l],
               owner' = [owner EXCEPT ![l] = NoConn],
               waiters' = [waiters EXCEPT ![l] = << >>]
        PROVE  /\ l \in Locks
               /\ c \in DOMAIN inflight' /\ inflight'[c] = l
               /\ DOMAIN inflight' \subseteq Cids /\ inflight' \in [DOMAIN inflight' -> Locks]
               /\ \A d \in DOMAIN Cleaned : d \in DOMAIN inflight' /\ inflight'[d] = Cleaned[d]
               /\ owner' \in [Locks -> Conns \cup {NoConn}]
               /\ waiters' \in [Locks -> Seq(Conns)]
               /\ \A q \in Conns : pc[q] \in Critical => owner'[flight[q]] = owner[flight[q]]
    <3>1. l \in Locks /\ \A q \in Conns : flight[q] # l
      BY DEF FreshLocks, Referenced
    <3>2. /\ c \in DOMAIN inflight' /\ inflight'[c] = l
          /\ DOMAIN inflight' \subseteq Cids /\ inflight' \in [DOMAIN inflight' -> Locks]
          /\ \A d \in DOMAIN Cleaned : d \in DOMAIN inflight' /\ inflight'[d] = Cleaned[d]
      BY <1>2, <1>3, <2>2, <3>1 DEF With
    <3>3. << >> \in Seq(Conns)
      OBVIOUS
    <3>4. /\ owner' \in [Locks -> Conns \cup {NoConn}]
          /\ waiters' \in [Locks -> Seq(Conns)]
      BY <1>1, <2>2, <3>1, <3>3 DEF LocksOK
    <3>5. \A q \in Conns : pc[q] \in Critical => owner'[flight[q]] = owner[flight[q]]
      <4>1. \A q \in Conns : pc[q] \in Critical => flight[q] \in Locks
        BY <1>1 DEF HandlerOK, Flying
      <4>2. QED
        BY <1>1, <2>2, <3>1, <4>1 DEF LocksOK
    <3>6. QED
      BY <3>1, <3>2, <3>4, <3>5
  <2>3. QED
    BY <2>1, <2>2 DEF TakeFlight
<1>6. l # NoLock
  BY DEF Locks, NoLock
<1>7. HandlerOK'
  BY <1>1, <1>4, <1>5, <1>6 DEF HandlerOK, Steps, Flying, Critical
<1>8. LocksOK'
  BY <1>5 DEF LocksOK
<1>9. FlightMapped'
  BY <1>1, <1>3, <1>4, <1>5 DEF FlightMapped, HandlerOK
<1>10. CriticalOwns'
  BY <1>1, <1>4, <1>5 DEF CriticalOwns, HandlerOK, Critical
<1>11. AbsentInCritical'
  BY <1>1, <1>4 DEF AbsentInCritical, HandlerOK, Critical
<1>12. QED
  BY <1>1, <1>7, <1>8, <1>9, <1>10, <1>11, QuietStep DEF Keeps

\* So does asking for the lock: the first to ask owns it.
LEMMA AskLockKeeps ==
    ASSUME IInv, NEW r \in Conns, AskLock(r)
    PROVE  IInv'
<1> DEFINE l == flight[r]
<1>1. /\ HandlerOK /\ LocksOK /\ FlightMapped /\ CriticalOwns /\ AbsentInCritical
      /\ pc[r] = "flight" /\ Goto(r, "waiting")
      /\ UNCHANGED <<cache, guard, history>> /\ UNCHANGED <<inflight, flight, clock>>
  BY DEF IInv, AskLock
<1>2. l \in Locks
  BY <1>1 DEF HandlerOK, Flying, Critical
<1>3. pc' = [pc EXCEPT ![r] = "waiting"] /\ req' = req
  BY <1>1 DEF Goto
<1>4. /\ LocksOK'
      /\ \A q \in Conns : pc[q] \in Critical => owner'[flight[q]] = owner[flight[q]]
  <2>1. CASE owner[l] = NoConn
    <3>1. owner' = [owner EXCEPT ![l] = r] /\ waiters' = waiters
      BY <2>1 DEF AskLock
    <3>2. \A q \in Conns : pc[q] \in Critical => flight[q] # l
      BY <1>1, <2>1, HttpAssumption DEF CriticalOwns
    <3>3. QED
      BY <1>1, <1>2, <3>1, <3>2 DEF LocksOK, HandlerOK
  <2>2. CASE owner[l] # NoConn
    <3>1. waiters' = [waiters EXCEPT ![l] = Append(waiters[l], r)] /\ owner' = owner
      BY <2>2 DEF AskLock
    <3>2. Append(waiters[l], r) \in Seq(Conns)
      BY <1>1, <1>2, AppendProperties DEF LocksOK
    <3>3. QED
      BY <1>1, <1>2, <3>1, <3>2 DEF LocksOK
  <2>3. QED
    BY <2>1, <2>2
<1>5. HandlerOK'
  BY <1>1, <1>3 DEF HandlerOK, Steps, Flying, Critical
<1>6. FlightMapped' /\ CriticalOwns' /\ AbsentInCritical'
  BY <1>1, <1>3, <1>4 DEF FlightMapped, CriticalOwns, AbsentInCritical, HandlerOK, Critical
<1>7. QED
  BY <1>1, <1>4, <1>5, <1>6, QuietStep DEF Keeps

\* So does the clock.
LEMMA TickKeeps ==
    ASSUME IInv, Tick
    PROVE  IInv'
<1>1. /\ clock' = clock + 1 /\ clock < MaxClock
      /\ UNCHANGED <<cache, guard, history>> /\ UNCHANGED <<locks, handler>>
  BY DEF Tick
<1>2. HandlerOK'
  <2>1. clock' \in 1 .. MaxClock
    BY <1>1, HttpAssumption, CacheAssumption DEF IInv, HandlerOK, U64
  <2>2. \A r \in Conns : pc[r] # "idle" => req[r].at <= clock'
    BY <1>1, RequestTyped, CacheAssumption DEF IInv, HandlerOK, U64
  <2>3. QED
    BY <1>1, <2>1, <2>2 DEF IInv, HandlerOK, handler
<1>3. LocksOK' /\ FlightMapped' /\ CriticalOwns' /\ AbsentInCritical'
  BY <1>1 DEF IInv, LocksOK, FlightMapped, CriticalOwns, AbsentInCritical, handler, locks
<1>4. QED
  BY <1>1, <1>2, <1>3, QuietStep DEF Keeps

\* What the look again under the lock leaves in the cache: after a hit nothing
\* is lost, after a miss the CID is not held and no tombstone is new.
LEMMA LookAgain ==
    ASSUME NEW C, Sound(C), NEW c \in Cids, NEW now \in U64
    PROVE  /\ Sound(Get(C, c, now))
           /\ Held(Get(C, c, now)) \subseteq Held(C)
           /\ Tombstoned(Get(C, c, now)) = Tombstoned(C)
           /\ Sound(IsNegative(Get(C, c, now), c, now))
           /\ Tombstoned(IsNegative(Get(C, c, now), c, now)) \subseteq Tombstoned(C)
           /\ ~ContainsFresh(C, c, now) =>
                 Held(IsNegative(Get(C, c, now), c, now)) = Held(C) \ {c}
<1> DEFINE G == Get(C, c, now)
           N == IsNegative(G, c, now)
<1>1. /\ Sound(G)
      /\ Held(G) = IF ContainsFresh(C, c, now) THEN Held(C) ELSE Held(C) \ {c}
      /\ G.tombs = C.tombs
  BY GetSound
<1> HIDE DEF G
<1>2. /\ Sound(N) /\ N.entries = G.entries
      /\ Tombstoned(N) = IF FreshTombstone(G, c, now)
                         THEN Tombstoned(G) ELSE Tombstoned(G) \ {c}
  BY <1>1, IsNegativeSound
<1> HIDE DEF N
<1>3. Held(N) = Held(G) /\ Tombstoned(G) = Tombstoned(C)
  BY <1>1, <1>2 DEF Held, Tombstoned
<1>4. Held(G) \subseteq Held(C) /\ Tombstoned(N) \subseteq Tombstoned(C)
  BY <1>1, <1>2, <1>3
<1>5. QED
  BY <1>1, <1>2, <1>3, <1>4 DEF G, N

\* So does the look again under the lock: who goes on to fetch has seen that
\* the CID is not held.
LEMMA RecheckKeeps ==
    ASSUME IInv, NEW r \in Conns, Recheck(r)
    PROVE  IInv'
<1> DEFINE c == req[r].cid
           G == Get(cache, c, req[r].at)
<1>1. /\ HandlerOK /\ LocksOK /\ FlightMapped /\ CriticalOwns /\ AbsentInCritical
      /\ NeverBoth /\ HistoryOK /\ Sound(cache)
      /\ pc[r] = "waiting" /\ owner[flight[r]] = r
      /\ UNCHANGED <<guard, history>> /\ UNCHANGED clock
  BY DEF IInv, Recheck
<1>2. c \in Cids /\ req[r].at \in U64
  BY <1>1, RequestTyped
<1>3. /\ Sound(G) /\ Held(G) \subseteq Held(cache)
      /\ Tombstoned(G) = Tombstoned(cache)
      /\ Sound(IsNegative(G, c, req[r].at))
      /\ Tombstoned(IsNegative(G, c, req[r].at)) \subseteq Tombstoned(cache)
      /\ ~ContainsFresh(cache, c, req[r].at) =>
            Held(IsNegative(G, c, req[r].at)) = Held(cache) \ {c}
  <2> HIDE DEF c
  <2>1. Sound(cache)
    BY <1>1
  <2>2. QED
    BY <2>1, <1>2, LookAgain
<1> HIDE DEF G
<1>4. CASE ContainsFresh(cache, c, req[r].at)
  <2>1. cache' = G /\ Goto(r, "serve") /\ DropFlight(r)
    BY <1>4 DEF Recheck, G
  <2>2. Keeps
    BY <1>1, <2>1, LeaveKeeps
  <2>3. /\ Held(cache') \subseteq Held(cache) /\ Sound(cache')
        /\ Tombstoned(cache') \subseteq Tombstoned(cache)
    BY <1>3, <2>1
  <2>4. /\ \A q \in Conns \ {r} : pc'[q] = pc[q] /\ req'[q] = req[q]
        /\ pc'[r] \notin Critical
    BY <1>1, <2>1 DEF Goto, HandlerOK, Critical
  <2>5. QED
    BY <1>1, <2>2, <2>3, <2>4, CacheStep
<1>5. CASE ~ContainsFresh(cache, c, req[r].at)
  <2>1. cache' = IsNegative(G, c, req[r].at)
    BY <1>5 DEF Recheck, G
  <2>2. /\ Sound(cache') /\ Held(cache') = Held(cache) \ {c}
        /\ Tombstoned(cache') \subseteq Tombstoned(cache)
    BY <1>3, <1>5, <2>1
  <2>3. CASE FreshTombstone(G, c, req[r].at)
    <3>1. End(r) /\ DropFlight(r)
      BY <1>5, <2>3 DEF Recheck, G
    <3>2. Keeps
      BY <1>1, <3>1, LeaveKeeps
    <3>3. /\ \A q \in Conns \ {r} : pc'[q] = pc[q] /\ req'[q] = req[q]
          /\ pc'[r] \notin Critical
      BY <1>1, <3>1 DEF End, HandlerOK, Critical
    <3>4. QED
      BY <1>1, <2>2, <3>2, <3>3, CacheStep
  <2>4. CASE ~FreshTombstone(G, c, req[r].at)
    <3>1. Goto(r, "fetch") /\ UNCHANGED <<locks, flight>>
      BY <1>5, <2>4 DEF Recheck, G
    <3>2. Keeps
      BY <1>1, <3>1, MoveKeeps DEF Steps, Flying, Critical
    <3>3. AbsentInCritical'
      <4>1. /\ \A q \in Conns \ {r} : pc'[q] = pc[q] /\ req'[q] = req[q]
            /\ req'[r].cid = c
        BY <1>1, <3>1 DEF Goto, HandlerOK
      <4>2. QED
        BY <1>1, <2>2, <4>1 DEF AbsentInCritical
    <3>4. NeverBoth' /\ HistoryOK'
      BY <1>1, <2>2 DEF NeverBoth, HistoryOK, history
    <3>5. QED
      BY <2>2, <3>2, <3>3, <3>4 DEF IInv, Keeps
  <2>5. QED
    BY <2>3, <2>4
<1>6. QED
  BY <1>4, <1>5

\* Forgetting keeps the type of the record of known answers.
LEMMA ForgetTyped ==
    ASSUME NEW K \in [Cids -> U64], NEW C, NEW D
    PROVE  Forget(K, C, D) \in [Cids -> U64]
BY CacheAssumption DEF Forget, U64

\* So does the write-back of fetched bytes: insert clears the tombstone.
LEMMA InsertFetchedKeeps ==
    ASSUME IInv, NEW r \in Conns, InsertFetched(r)
    PROVE  IInv'
<1> DEFINE c == req[r].cid
<1>1. /\ HandlerOK /\ LocksOK /\ FlightMapped /\ CriticalOwns /\ AbsentInCritical
      /\ NeverBoth /\ HistoryOK /\ Sound(cache)
      /\ pc[r] = "insert" /\ Goto(r, "serve") /\ DropFlight(r)
      /\ UNCHANGED <<guard, clock, arrived, accepted>>
      /\ cache' = InsertWithTtl(cache, c, DefaultTtl, req[r].at)
  BY DEF IInv, InsertFetched, Insert
<1>2. c \in Cids /\ req[r].at \in U64 /\ DefaultTtl \in U64
  BY <1>1, RequestTyped, CacheAssumption
<1>3. /\ Sound(cache') /\ Held(cache') \subseteq Held(cache) \cup {c}
      /\ Tombstoned(cache') \subseteq Tombstoned(cache)
      /\ Cacheable(c) => c \notin Tombstoned(cache')
  BY <1>1, <1>2, InsertSound
<1>4. ~Cacheable(c) => cache' = cache
  BY <1>1 DEF InsertWithTtl
<1>5. Keeps
  BY <1>1, LeaveKeeps
<1>6. NeverBoth'
  BY <1>1, <1>3, <1>4 DEF NeverBoth
<1>7. AbsentInCritical'
  <2>1. SingleFlight
    BY <1>1, OneCritical
  <2>2. /\ \A q \in Conns \ {r} : pc'[q] = pc[q] /\ req'[q] = req[q]
        /\ pc'[r] \notin Critical
    BY <1>1 DEF Goto, HandlerOK, Critical
  <2>3. \A q \in Conns \ {r} : pc[q] \in Critical => req[q].cid # c
    BY <1>1, <2>1 DEF SingleFlight, Critical
  <2>4. QED
    BY <1>1, <1>3, <2>2, <2>3 DEF AbsentInCritical
<1>8. known' \in [Cids -> U64]
  <2>1. known \in [Cids -> U64] /\ ExpiresAt(req[r].at, DefaultTtl) \in U64
    BY <1>1, <1>2, ExpiryRange DEF HistoryOK
  <2>2. Forget(known, cache, cache') \in [Cids -> U64]
    BY <2>1, ForgetTyped
  <2>3. \/ known' = known
        \/ known' = [Forget(known, cache, cache') EXCEPT
                        ![c] = ExpiresAt(req[r].at, DefaultTtl)]
    BY DEF InsertFetched
  <2>4. QED
    BY <2>1, <2>2, <2>3
<1>9. HistoryOK'
  BY <1>1, <1>8 DEF HistoryOK
<1>10. QED
  BY <1>3, <1>5, <1>6, <1>7, <1>9 DEF IInv, Keeps

\* So does noting a failed fetch: the CID is not held, as seen under the lock.
LEMMA NoteFetchFailedKeeps ==
    ASSUME IInv, NEW r \in Conns, NoteFetchFailed(r)
    PROVE  IInv'
<1> DEFINE c == req[r].cid
<1>1. /\ HandlerOK /\ LocksOK /\ FlightMapped /\ CriticalOwns /\ AbsentInCritical
      /\ NeverBoth /\ HistoryOK /\ Sound(cache)
      /\ pc[r] = "note" /\ End(r) /\ DropFlight(r)
      /\ UNCHANGED <<guard, clock, arrived, accepted>>
      /\ cache' \in NoteAbsent(cache, c, req[r].at)
  BY DEF IInv, NoteFetchFailed
<1>2. c \in Cids /\ req[r].at \in U64 /\ NegTtl \in U64
  BY <1>1, RequestTyped, CacheAssumption
<1>3. /\ Sound(cache') /\ Held(cache') = Held(cache)
      /\ Tombstoned(cache') \subseteq Tombstoned(cache) \cup {c}
  BY <1>1, <1>2, NoteAbsentSound DEF Held
<1>4. Keeps
  BY <1>1, LeaveKeeps
<1>5. NeverBoth'
  BY <1>1, <1>3 DEF NeverBoth, AbsentInCritical, Critical
<1>6. AbsentInCritical'
  <2>1. /\ \A q \in Conns \ {r} : pc'[q] = pc[q] /\ req'[q] = req[q]
        /\ pc'[r] \notin Critical
    BY <1>1 DEF End, HandlerOK, Critical
  <2>2. QED
    BY <1>1, <1>3, <2>1 DEF AbsentInCritical
<1>7. known' \in [Cids -> U64]
  <2>1. known \in [Cids -> U64] /\ SatAdd(req[r].at, NegTtl) \in U64
    BY <1>1, <1>2, ExpiryRange DEF HistoryOK
  <2>2. Forget(known, cache, cache') \in [Cids -> U64]
    BY <2>1, ForgetTyped
  <2>3. \/ known' = known
        \/ known' = [Forget(known, cache, cache') EXCEPT ![c] = SatAdd(req[r].at, NegTtl)]
    BY DEF NoteFetchFailed
  <2>4. QED
    BY <2>1, <2>2, <2>3
<1>8. HistoryOK'
  BY <1>1, <1>7 DEF HistoryOK
<1>9. QED
  BY <1>3, <1>4, <1>5, <1>6, <1>8 DEF IInv, Keeps

-----------------------------------------------------------------------------
(* The theorems.                                                           *)

\* The inductive invariant of the HTTP edge.
THEOREM InvariantHolds == Spec => []IInv
<1>1. Init => IInv
  <2> SUFFICES ASSUME Init
               PROVE  IInv
    OBVIOUS
  <2>1. HandlerOK
    BY HttpAssumption, CacheAssumption
       DEF Init, HandlerOK, Steps, Flying, Critical, U64
  <2>2. LocksOK
    <3>1. DOMAIN inflight = {} /\ inflight \in [DOMAIN inflight -> Locks]
      BY DEF Init, EmptyFcn
    <3>2. << >> \in Seq(Conns)
      OBVIOUS
    <3>3. QED
      BY <3>1, <3>2 DEF Init, LocksOK
  <2>3. HistoryOK
    BY CacheAssumption DEF Init, HistoryOK, NewFifoSet, U64
  <2>4. Sound(cache)
    BY NewCacheSound DEF Init
  <2>5. FlightMapped /\ CriticalOwns /\ AbsentInCritical
    BY DEF Init, FlightMapped, CriticalOwns, AbsentInCritical, Critical
  <2>6. NeverBoth
    BY DEF Init, NeverBoth, NewCache, EmptyFcn, Held, Tombstoned
  <2>7. QED
    BY <2>1, <2>2, <2>3, <2>4, <2>5, <2>6 DEF IInv
<1>2. IInv /\ [Next]_vars => IInv'
  <2> SUFFICES ASSUME IInv, [Next]_vars
               PROVE  IInv'
    OBVIOUS
  <2>1. ASSUME NEW r \in Conns, Step(r)
        PROVE  IInv'
    BY <2>1, CheckReplayKeeps, CheckNegativeKeeps, ReadKeeps, TakeFlightKeeps,
       AskLockKeeps, RecheckKeeps, LocalKeeps, GiveUpKeeps, InsertFetchedKeeps,
       NoteFetchFailedKeeps DEF Step
  <2>2. ASSUME NEW r \in Conns, NotModified(r) \/ Cancel(r)
        PROVE  IInv'
    BY <2>2, LocalKeeps, GiveUpKeeps
  <2>3. ASSUME NEW r \in Conns, NEW c \in Cids,
               ArriveOpen(r, c) \/ \E p \in Proofs : ArrivePop(r, c, p)
        PROVE  IInv'
    BY <2>3, ArriveKeeps
  <2>4. CASE Tick
    BY <2>4, TickKeeps
  <2>5. CASE UNCHANGED vars
    <3>1. UNCHANGED <<cache, guard, history>> /\ UNCHANGED <<locks, handler>>
          /\ UNCHANGED clock
      BY <2>5 DEF vars
    <3>2. Keeps /\ AbsentInCritical'
      BY <3>1 DEF IInv, Keeps, HandlerOK, LocksOK, FlightMapped, CriticalOwns,
                  AbsentInCritical, handler, locks
    <3>3. QED
      BY <3>1, <3>2, QuietStep
  <2>6. QED
    BY <2>1, <2>2, <2>3, <2>4, <2>5 DEF Next
<1>3. QED
  BY <1>1, <1>2, PTL DEF Spec

\* The state of handlers, locks and cache keeps its types.
THEOREM TypeCorrect == Spec => []TypeOK
<1>1. IInv => TypeOK
  BY DEF IInv, HandlerOK, LocksOK, HistoryOK, Sound, TypeOK
<1>2. QED
  BY <1>1, InvariantHolds, PTL

\* At most one origin fetch (and write-back) per CID is ever under way, for
\* any number of connections, any clean-up threshold and any cancellations.
THEOREM SingleFlightHolds == Spec => []SingleFlight
<1>1. IInv => SingleFlight
  BY OneCritical DEF IInv
<1>2. QED
  BY <1>1, InvariantHolds, PTL

\* The HTTP edge never holds an object together with a tombstone for it.
THEOREM NeverBothHolds == Spec => []NeverBoth
<1>1. IInv => NeverBoth
  BY DEF IInv
<1>2. QED
  BY <1>1, InvariantHolds, PTL
-----------------------------------------------------------------------------
(* The replay guard.                                                       *)

\* the guard is the tail of the proofs accepted, and no acceptance so far was
\* a replay that the guard could have known
GuardInv ==
    /\ Window(guard, accepted, Proofs, GuardCap)
    /\ ReplayOnlyAfterCapacity

\* Only the replay check touches the guard.
LEMMA GuardUntouched ==
    ASSUME [Next]_vars, \A r \in Conns : ~CheckReplay(r)
    PROVE  guard' = guard /\ accepted' = accepted
<1>1. ASSUME NEW r \in Conns, Step(r)
      PROVE  guard' = guard /\ accepted' = accepted
  BY <1>1 DEF Step, CheckNegative, Read, TakeFlight, AskLock, Recheck, FetchOk,
              FetchTooLarge, FetchErr, InsertFetched, NoteFetchFailed, Serve, history
<1>2. ASSUME NEW r \in Conns, NotModified(r) \/ Cancel(r)
      PROVE  guard' = guard /\ accepted' = accepted
  BY <1>2 DEF NotModified, Cancel, history
<1>3. ASSUME NEW r \in Conns, NEW c \in Cids,
             ArriveOpen(r, c) \/ \E p \in Proofs : ArrivePop(r, c, p)
      PROVE  guard' = guard /\ accepted' = accepted
  BY <1>3 DEF ArriveOpen, ArrivePop, Arrive
<1>4. CASE Tick \/ UNCHANGED vars
  BY <1>4 DEF Tick, vars, history
<1>5. QED
  BY <1>1, <1>2, <1>3, <1>4 DEF Next

\* The replay check keeps the guard the tail of what was accepted, and what it
\* accepts again was pushed out.
LEMMA CheckReplayGuards ==
    ASSUME IInv, GuardInv, NEW r \in Conns, CheckReplay(r)
    PROVE  GuardInv'
<1> DEFINE p == req[r].proof
           n == Len(accepted)
<1>1. /\ p \in Proofs /\ accepted \in Seq(Proofs) /\ n \in Nat
      /\ GuardCap \in Nat \ {0} /\ Window(guard, accepted, Proofs, GuardCap)
  BY HttpAssumption DEF IInv, HandlerOK, HistoryOK, GuardInv, CheckReplay
<1>2. guard' = Accept(guard, p, GuardCap)
  BY DEF CheckReplay
<1>3. CASE ~IsNew(guard, p)
  <2>1. guard' = guard /\ accepted' = accepted
    BY <1>2, <1>3 DEF Accept, CheckReplay
  <2>2. QED
    BY <2>1 DEF GuardInv, ReplayOnlyAfterCapacity
<1>4. CASE IsNew(guard, p)
  <2>1. accepted' = Append(accepted, p)
    BY <1>4 DEF CheckReplay
  <2> HIDE DEF p
  <2>2. Window(guard', accepted', Proofs, GuardCap)
    BY <1>1, <1>2, <1>4, <2>1, AcceptWindow
  <2>3. /\ Len(accepted') = n + 1 /\ accepted'[n + 1] = p
        /\ \A i \in 1 .. n : accepted'[i] = accepted[i]
    BY <1>1, <2>1, AppendProperties
  <2> HIDE DEF n
  <2>4. ASSUME NEW i \in 1 .. n + 1, NEW j \in 1 .. n + 1, i < j,
               accepted'[i] = accepted'[j]
        PROVE  Cardinality({accepted'[k] : k \in i + 1 .. j - 1}) >= GuardCap
    <3>1. i \in 1 .. n /\ accepted'[i] = accepted[i]
      BY <1>1, <2>3, <2>4
    <3>2. {accepted'[k] : k \in i + 1 .. j - 1} = {accepted[k] : k \in i + 1 .. j - 1}
      <4>1. \A k \in i + 1 .. j - 1 : accepted'[k] = accepted[k]
        BY <1>1, <2>3
      <4>2. QED
        BY <4>1
    <3>3. CASE j \in 1 .. n
      <4>1. accepted'[j] = accepted[j]
        BY <2>3, <3>3
      <4>2. QED
        BY <2>4, <3>1, <3>2, <3>3, <4>1 DEF GuardInv, ReplayOnlyAfterCapacity, n
    <3>4. CASE j = n + 1
      <4>0. accepted'[j] = p /\ j - 1 = n
        BY <1>1, <2>3, <3>4
      <4>1. accepted[i] = p /\ j - 1 = n
        BY <2>4, <3>1, <4>0
      <4>2. i \in 1 .. Len(accepted) /\ IsNew(guard, accepted[i])
        BY <1>4, <3>1, <4>1 DEF n
      <4>3. Cardinality({accepted[k] : k \in i + 1 .. Len(accepted)}) >= GuardCap
        BY <1>1, <4>2, PushedOut
      <4>4. QED
        BY <3>2, <4>1, <4>3 DEF n
    <3>5. QED
      BY <1>1, <3>3, <3>4
  <2>5. ReplayOnlyAfterCapacity'
    BY <2>3, <2>4 DEF ReplayOnlyAfterCapacity
  <2>6. QED
    BY <2>2, <2>5 DEF GuardInv
<1>5. QED
  BY <1>3, <1>4

\* A proof of possession is accepted twice only after the guard took in a full
\* capacity of other proofs in between, for every capacity and every order of
\* requests, cancellations included.
THEOREM ReplayHolds == Spec => []ReplayOnlyAfterCapacity
<1>1. Init => GuardInv
  <2> SUFFICES ASSUME Init PROVE GuardInv
    OBVIOUS
  <2>1. guard = NewFifoSet /\ accepted = << >>
    BY DEF Init
  <2>2. Window(guard, accepted, Proofs, GuardCap)
    BY <2>1, NewWindow, HttpAssumption
  <2>3. QED
    BY <2>1, <2>2 DEF GuardInv, ReplayOnlyAfterCapacity
<1>2. IInv /\ GuardInv /\ [Next]_vars => GuardInv'
  <2> SUFFICES ASSUME IInv, GuardInv, [Next]_vars PROVE GuardInv'
    OBVIOUS
  <2>1. CASE \E r \in Conns : CheckReplay(r)
    BY <2>1, CheckReplayGuards
  <2>2. CASE \A r \in Conns : ~CheckReplay(r)
    <3>1. guard' = guard /\ accepted' = accepted
      BY <2>2, GuardUntouched
    <3>2. QED
      BY <3>1 DEF GuardInv, ReplayOnlyAfterCapacity
  <2>3. QED
    BY <2>1, <2>2
<1>3. GuardInv => ReplayOnlyAfterCapacity
  BY DEF GuardInv
<1>4. QED
  BY <1>1, <1>2, <1>3, InvariantHolds, PTL DEF Spec

-----------------------------------------------------------------------------
(* The single-flight map.                                                  *)

\* no two CIDs share a lock
OneLockEach ==
    \A c, d \in DOMAIN inflight : inflight[c] = inflight[d] => c = d

\* What inflight_lock does to the map: nothing, or it cleans it up, or it adds
\* one CID to the map cleaned up.
LEMMA MapStep ==
    ASSUME IInv, [Next]_vars
    PROVE  \/ inflight' = inflight
           \/ \E r \in Conns :
                 /\ pc[r] = "cold" /\ req' = req /\ req[r].cid \in Cids
                 /\ \/ /\ inflight' = Cleaned
                       /\ req[r].cid \in DOMAIN Cleaned
                    \/ \E l \in FreshLocks :
                          /\ req[r].cid \notin DOMAIN Cleaned
                          /\ inflight' = With(Cleaned, req[r].cid, l)
                          /\ flight' = [flight EXCEPT ![r] = l]
<1>1. ASSUME NEW r \in Conns, TakeFlight(r)
      PROVE  /\ pc[r] = "cold" /\ req' = req /\ req[r].cid \in Cids
             /\ \/ /\ inflight' = Cleaned
                   /\ req[r].cid \in DOMAIN Cleaned
                \/ \E l \in FreshLocks :
                      /\ req[r].cid \notin DOMAIN Cleaned
                      /\ inflight' = With(Cleaned, req[r].cid, l)
                      /\ flight' = [flight EXCEPT ![r] = l]
  <2>1. pc[r] = "cold" /\ req' = req
    BY <1>1 DEF TakeFlight, Goto
  <2>2. req[r].cid \in Cids
    BY <2>1, RequestTyped DEF IInv
  <2>3. QED
    BY <1>1, <2>1, <2>2 DEF TakeFlight
<1>2. ASSUME NEW r \in Conns, Step(r), ~TakeFlight(r)
      PROVE  inflight' = inflight
  BY <1>2 DEF Step, CheckReplay, CheckNegative, Read, AskLock, Recheck, FetchOk,
              FetchTooLarge, FetchErr, InsertFetched, NoteFetchFailed, Serve,
              DropFlight, locks
<1>3. ASSUME NEW r \in Conns, NotModified(r) \/ Cancel(r)
      PROVE  inflight' = inflight
  BY <1>3 DEF NotModified, Cancel, DropFlight, locks
<1>4. ASSUME NEW r \in Conns, NEW c \in Cids,
             ArriveOpen(r, c) \/ \E p \in Proofs : ArrivePop(r, c, p)
      PROVE  inflight' = inflight
  BY <1>4 DEF ArriveOpen, ArrivePop, Arrive, locks
<1>5. CASE Tick \/ UNCHANGED vars
  BY <1>5 DEF Tick, vars, locks
<1>6. QED
  BY <1>1, <1>2, <1>3, <1>4, <1>5 DEF Next

\* The map cleaned up is a part of the map.
LEMMA CleanedPart ==
    /\ DOMAIN Cleaned \subseteq DOMAIN inflight
    /\ \A c \in DOMAIN Cleaned : Cleaned[c] = inflight[c]
    /\ Cardinality(DOMAIN inflight) > InflightCap =>
          \A c \in DOMAIN Cleaned : Referenced(Cleaned[c])
    /\ ~(Cardinality(DOMAIN inflight) > InflightCap) => Cleaned = inflight
<1> DEFINE S == {c \in DOMAIN inflight : ~Referenced(inflight[c])}
<1>1. CASE Cardinality(DOMAIN inflight) > InflightCap
  <2>1. Cleaned = Without(inflight, S)
    BY <1>1 DEF Cleaned
  <2>2. /\ DOMAIN Cleaned = DOMAIN inflight \ S
        /\ \A c \in DOMAIN inflight \ S : Cleaned[c] = inflight[c]
    BY <2>1 DEF Without
  <2>3. QED
    BY <1>1, <2>2
<1>2. CASE ~(Cardinality(DOMAIN inflight) > InflightCap)
  BY <1>2 DEF Cleaned
<1>3. QED
  BY <1>1, <1>2

\* A new lock is none of the map's: locks stay apart.
LEMMA LocksApart ==
    ASSUME IInv, OneLockEach, [Next]_vars
    PROVE  OneLockEach'
<1>1. CASE inflight' = inflight
  BY <1>1 DEF OneLockEach
<1>2. CASE inflight' = Cleaned
  BY <1>2, CleanedPart DEF OneLockEach
<1>3. ASSUME NEW c, NEW l \in FreshLocks, inflight' = With(Cleaned, c, l),
             c \notin DOMAIN Cleaned
      PROVE  OneLockEach'
  <2>1. \A d \in DOMAIN Cleaned : Cleaned[d] # l
    BY DEF FreshLocks
  <2>2. /\ DOMAIN inflight' = DOMAIN Cleaned \cup {c} /\ inflight'[c] = l
        /\ \A d \in DOMAIN Cleaned : inflight'[d] = Cleaned[d]
    BY <1>3 DEF With
  <2>3. \A d, e \in DOMAIN Cleaned : Cleaned[d] = Cleaned[e] => d = e
    BY CleanedPart DEF OneLockEach
  <2>4. QED
    BY <2>1, <2>2, <2>3 DEF OneLockEach
<1>4. QED
  BY <1>1, <1>2, <1>3, MapStep

\* No two CIDs ever share a single-flight lock.
THEOREM LocksApartHolds == Spec => []OneLockEach
<1>1. Init => OneLockEach
  BY DEF Init, OneLockEach, EmptyFcn
<1>2. QED
  BY <1>1, LocksApart, InvariantHolds, PTL DEF Spec

\* Once the map has been cleaned up, each of its locks is one that a handler
\* refers to, so it is no larger than the number of those handlers.
LEMMA MapGrowth ==
    ASSUME IInv, OneLockEach, [Next]_vars,
           Cardinality(DOMAIN inflight') > Cardinality(DOMAIN inflight)
    PROVE  \/ Cardinality(DOMAIN inflight') <= InflightCap + 1
           \/ Cardinality(DOMAIN inflight')
                 <= Cardinality({r \in Conns : flight'[r] # NoLock})
<1> DEFINE D == DOMAIN inflight
           E == DOMAIN inflight'
           T == {r \in Conns : flight'[r] # NoLock}
<1>1. /\ IsFiniteSet(D) /\ Cardinality(D) \in Nat /\ InflightCap \in Nat
      /\ IsFiniteSet(Conns) /\ IsFiniteSet(T) /\ Cardinality(T) \in Nat
  <2>1. D \subseteq Cids /\ T \subseteq Conns
    BY DEF IInv, LocksOK
  <2>2. QED
    BY <2>1, FS_Subset, FS_CardinalityType, HttpAssumption, CacheAssumption
<1>2. /\ IsFiniteSet(DOMAIN Cleaned) /\ Cardinality(DOMAIN Cleaned) \in Nat
      /\ Cardinality(DOMAIN Cleaned) <= Cardinality(D)
  BY <1>1, CleanedPart, FS_Subset, FS_CardinalityType
<1>3. inflight' # inflight /\ inflight' # Cleaned
  BY <1>1, <1>2
<1>4. PICK r \in Conns, l \in FreshLocks :
         /\ pc[r] = "cold" /\ req[r].cid \notin DOMAIN Cleaned
         /\ inflight' = With(Cleaned, req[r].cid, l)
         /\ flight' = [flight EXCEPT ![r] = l]
  BY <1>3, MapStep
<1> DEFINE c == req[r].cid
<1>5. /\ E = DOMAIN Cleaned \cup {c} /\ inflight'[c] = l
      /\ \A d \in DOMAIN Cleaned : inflight'[d] = Cleaned[d]
  BY <1>4 DEF With
<1>6. /\ IsFiniteSet(E) /\ Cardinality(E) \in Nat
      /\ Cardinality(E) = Cardinality(DOMAIN Cleaned) + 1
  BY <1>2, <1>4, <1>5, FS_AddElement, FS_CardinalityType
<1>7. CASE ~(Cardinality(D) > InflightCap)
  <2>1. Cardinality(E) <= InflightCap + 1
    BY <1>1, <1>2, <1>6, <1>7
  <2>2. QED
    BY <2>1
<1>8. CASE Cardinality(D) > InflightCap
  <2>1. ASSUME NEW d \in E
        PROVE  \E q \in T : flight'[q] = inflight'[d]
    <3>1. flight \in [Conns -> Locks \cup {NoLock}] /\ l \in Locks /\ NoLock \notin Locks
      BY DEF IInv, HandlerOK, FreshLocks, Locks, NoLock
    <3>2. CASE d = c
      BY <1>4, <1>5, <3>1, <3>2
    <3>3. CASE d \in DOMAIN Cleaned
      <4>1. PICK q \in Conns : flight[q] = Cleaned[d]
        BY <1>8, <3>3, CleanedPart DEF Referenced
      <4>2. Cleaned[d] \in Locks
        BY <3>3, CleanedPart DEF IInv, LocksOK
      <4>3. flight[r] = NoLock
        BY <1>4 DEF IInv, HandlerOK, Flying, Critical
      <4>4. q # r /\ flight'[q] = flight[q]
        BY <1>4, <3>1, <4>1, <4>2, <4>3
      <4>5. QED
        BY <1>5, <3>1, <3>3, <4>1, <4>2, <4>4
    <3>4. QED
      BY <1>5, <3>2, <3>3
  <2> DEFINE f == [d \in E |-> CHOOSE q \in T : flight'[q] = inflight'[d]]
  <2>2. f \in [E -> T] /\ \A d \in E : flight'[f[d]] = inflight'[d]
    BY <2>1
  <2>3. \A d, e \in E : inflight'[d] = inflight'[e] => d = e
    BY LocksApart DEF OneLockEach
  <2> HIDE DEF f, E, T
  <2>4. ~(Cardinality(T) < Cardinality(E))
    <3>1. SUFFICES ASSUME Cardinality(T) < Cardinality(E) PROVE FALSE
      OBVIOUS
    <3>2. \E d, e \in E : d # e /\ f[d] = f[e]
      BY <1>1, <1>6, <2>2, <3>1, FS_PigeonHole
    <3>3. QED
      BY <2>2, <2>3, <3>2
  <2>5. Cardinality(E) <= Cardinality(T)
    BY <1>1, <1>6, <2>4
  <2>6. QED
    BY <2>5 DEF E, T
<1>9. QED
  BY <1>7, <1>8

\* The single-flight map grows past its clean-up threshold only as far as
\* there are requests in flight.
THEOREM MapBounded == Spec => InflightBounded
<1>1. IInv /\ OneLockEach /\ [Next]_vars =>
        [LET n == Cardinality(DOMAIN inflight')
         IN  n > Cardinality(DOMAIN inflight) =>
                \/ n <= InflightCap + 1
                \/ n <= Cardinality({r \in Conns : flight'[r] # NoLock})]_vars
  BY MapGrowth
<1>2. QED
  BY <1>1, InvariantHolds, LocksApartHolds, PTL DEF Spec, InflightBounded

-----------------------------------------------------------------------------
(* Answers are remembered.                                                 *)

\* cache C remembers about c, at least until second s
Remembers(C, c, s) ==
    \/ c \in Held(C) /\ s <= C.entries[c].expires
    \/ c \in Tombstoned(C) /\ s <= C.tombs[c]

\* what K says is to be remembered at second t or later, C remembers
AllRemembered(C, K, t) == \A c \in Cids : K[c] >= t => Remembers(C, c, K[c])

\* A get drops the entry it finds expired, which was not to be remembered.
LEMMA GetRemembers ==
    ASSUME NEW C, Sound(C), NEW c \in Cids, NEW now \in U64,
           NEW K \in [Cids -> U64], NEW t \in Nat, now <= t, AllRemembered(C, K, t)
    PROVE  AllRemembered(Get(C, c, now), K, t)
<1> DEFINE G == Get(C, c, now)
<1>1. /\ Held(G) = IF ContainsFresh(C, c, now) THEN Held(C) ELSE Held(C) \ {c}
      /\ G.tombs = C.tombs
      /\ \A d \in Held(G) : G.entries[d].expires = C.entries[d].expires
  BY GetSound
<1> HIDE DEF G
<1>2. ASSUME NEW d \in Cids, K[d] >= t
      PROVE  Remembers(G, d, K[d])
  <2>1. Remembers(C, d, K[d])
    BY <1>2 DEF AllRemembered
  <2>2. CASE d \in Tombstoned(C) /\ K[d] <= C.tombs[d]
    BY <1>1, <2>2 DEF Remembers, Tombstoned
  <2>3. CASE d \in Held(C) /\ K[d] <= C.entries[d].expires
    <3>1. C.entries[d].expires \in Nat /\ K[d] \in Nat /\ now \in Nat
      <4>1. C.entries \in [Held(C) -> Entry]
        BY CacheParts DEF Sound
      <4>2. QED
        BY <2>3, <4>1, CacheAssumption DEF Entry, U64
    <3>2. now <= C.entries[d].expires
      BY <1>2, <2>3, <3>1
    <3>3. d \in Held(G)
      BY <1>1, <2>3, <3>2 DEF ContainsFresh
    <3>4. QED
      BY <1>1, <2>3, <3>3 DEF Remembers
  <2>4. QED
    BY <2>1, <2>2, <2>3 DEF Remembers
<1>3. QED
  BY <1>2 DEF AllRemembered, G

\* Nor was the expired tombstone that is_negative drops.
LEMMA NegativeRemembers ==
    ASSUME NEW C, Sound(C), NEW c \in Cids, NEW now \in U64,
           NEW K \in [Cids -> U64], NEW t \in Nat, now <= t, AllRemembered(C, K, t)
    PROVE  AllRemembered(IsNegative(C, c, now), K, t)
<1> DEFINE N == IsNegative(C, c, now)
<1>1. /\ N.entries = C.entries
      /\ Tombstoned(N) = IF FreshTombstone(C, c, now)
                         THEN Tombstoned(C) ELSE Tombstoned(C) \ {c}
      /\ \A d \in Tombstoned(N) : N.tombs[d] = C.tombs[d]
  BY IsNegativeSound
<1> HIDE DEF N
<1>2. ASSUME NEW d \in Cids, K[d] >= t
      PROVE  Remembers(N, d, K[d])
  <2>1. Remembers(C, d, K[d])
    BY <1>2 DEF AllRemembered
  <2>2. CASE d \in Held(C) /\ K[d] <= C.entries[d].expires
    BY <1>1, <2>2 DEF Remembers, Held
  <2>3. CASE d \in Tombstoned(C) /\ K[d] <= C.tombs[d]
    <3>1. C.tombs[d] \in Nat /\ K[d] \in Nat /\ now \in Nat
      <4>1. C.tombs \in [Tombstoned(C) -> U64]
        BY CacheParts DEF Sound
      <4>2. QED
        BY <2>3, <4>1, CacheAssumption DEF U64
    <3>2. now <= C.tombs[d]
      BY <1>2, <2>3, <3>1
    <3>3. d \in Tombstoned(N)
      BY <1>1, <2>3, <3>2 DEF FreshTombstone
    <3>4. QED
      BY <1>1, <2>3, <3>3 DEF Remembers
  <2>4. QED
    BY <2>1, <2>2, <2>3 DEF Remembers
<1>3. QED
  BY <1>2 DEF AllRemembered, N
\* A write-back about c that leaves the other answers it keeps as they were:
\* what it pushes out is forgotten.
LEMMA WriteRemembers ==
    ASSUME NEW C, NEW F, NEW c \in Cids, NEW s \in U64, NEW K \in [Cids -> U64],
           NEW t \in Nat \ {0}, AllRemembered(C, K, t),
           Held(C) \cap Tombstoned(C) = {}, Remembers(F, c, s),
           \A d \in Held(F) \ {c} : d \in Held(C) /\ F.entries[d] = C.entries[d],
           \A d \in Tombstoned(F) \ {c} : d \in Tombstoned(C) /\ F.tombs[d] = C.tombs[d]
    PROVE  AllRemembered(F, [Forget(K, C, F) EXCEPT ![c] = s], t)
<1> DEFINE L == [Forget(K, C, F) EXCEPT ![c] = s]
           lost == (Held(C) \cup Tombstoned(C)) \ (Held(F) \cup Tombstoned(F))
<1>1. L[c] = s /\ \A d \in Cids \ {c} : L[d] = IF d \in lost THEN 0 ELSE K[d]
  BY DEF Forget
<1> HIDE DEF L
<1>2. ASSUME NEW d \in Cids \ {c}, L[d] >= t
      PROVE  Remembers(F, d, L[d])
  <2>1. d \notin lost
    BY <1>1, <1>2
  <2>2. L[d] = K[d] /\ Remembers(C, d, K[d])
    BY <1>1, <1>2, <2>1 DEF AllRemembered
  <2>3. d \in Held(F) \cup Tombstoned(F)
    BY <2>1, <2>2 DEF Remembers
  <2>4. CASE d \in Held(F)
    BY <2>2, <2>4 DEF Remembers
  <2>5. CASE d \in Tombstoned(F)
    BY <2>2, <2>5 DEF Remembers
  <2>6. QED
    BY <2>3, <2>4, <2>5
<1>3. QED
  BY <1>1, <1>2 DEF AllRemembered, L

\* The write-back of fetched bytes.
LEMMA InsertRemembers ==
    ASSUME IInv, AllRemembered(cache, known, clock), NEW r \in Conns, InsertFetched(r)
    PROVE  AllRemembered(cache', known', clock')
<1> DEFINE c == req[r].cid
<1>1. /\ Sound(cache) /\ known \in [Cids -> U64] /\ clock \in Nat \ {0}
      /\ clock' = clock /\ Held(cache) \cap Tombstoned(cache) = {}
      /\ cache' = InsertWithTtl(cache, c, DefaultTtl, req[r].at)
  BY DEF IInv, HandlerOK, HistoryOK, NeverBoth, InsertFetched, Insert
<1>2. c \in Cids /\ req[r].at \in U64 /\ DefaultTtl \in U64
  BY RequestTyped, CacheAssumption DEF IInv, InsertFetched
<1>3. CASE ~Cacheable(c)
  <2>1. cache' = cache /\ known' = known
    BY <1>1, <1>3 DEF InsertFetched, InsertWithTtl
  <2>2. QED
    BY <1>1, <2>1
<1>4. CASE Cacheable(c)
  <2> DEFINE s == ExpiresAt(req[r].at, DefaultTtl)
  <2>1. s \in U64
    BY <1>2, ExpiryRange
  <2>2. known' = [Forget(known, cache, cache') EXCEPT ![c] = s]
    BY <1>4 DEF InsertFetched
  <2> HIDE DEF c
  <2>3. \A d \in Held(cache') \ {c} :
           d \in Held(cache) /\ cache'.entries[d] = cache.entries[d]
    BY <1>1, <1>2, <1>4, InsertCounts
  <2>4. /\ Tombstoned(cache') \subseteq Tombstoned(cache)
        /\ c \in Held(cache') /\ cache'.entries[c].expires = s
    BY <1>1, <1>2, <1>4, InsertSound
  <2>5. \A d \in Tombstoned(cache') \ {c} :
           d \in Tombstoned(cache) /\ cache'.tombs[d] = cache.tombs[d]
    BY <1>1, <1>2, <1>4, <2>4, InsertTombs
  <2> HIDE DEF s
  <2>6. Remembers(cache', c, s)
    BY <2>1, <2>4, CacheAssumption DEF Remembers, U64
  <2>7. QED
    BY <1>1, <1>2, <2>1, <2>2, <2>3, <2>5, <2>6, WriteRemembers
<1>5. QED
  BY <1>3, <1>4

\* The tombstone of a failed fetch.
LEMMA NoteRemembers ==
    ASSUME IInv, AllRemembered(cache, known, clock), NEW r \in Conns, NoteFetchFailed(r)
    PROVE  AllRemembered(cache', known', clock')
<1> DEFINE c == req[r].cid
<1>1. /\ Sound(cache) /\ known \in [Cids -> U64] /\ clock \in Nat \ {0}
      /\ clock' = clock /\ Held(cache) \cap Tombstoned(cache) = {}
      /\ cache' \in NoteAbsent(cache, c, req[r].at)
  BY DEF IInv, HandlerOK, HistoryOK, NeverBoth, NoteFetchFailed
<1>2. c \in Cids /\ req[r].at \in U64
  BY RequestTyped DEF IInv, NoteFetchFailed
<1>3. CASE NegTtl = 0
  <2>1. cache' = cache /\ known' = known
    BY <1>1, <1>3 DEF NoteFetchFailed, NoteAbsent
  <2>2. QED
    BY <1>1, <2>1
<1>4. CASE NegTtl # 0
  <2> DEFINE s == SatAdd(req[r].at, NegTtl)
  <2>1. s \in U64
    BY <1>2, CacheAssumption DEF SatAdd, U64
  <2>2. known' = [Forget(known, cache, cache') EXCEPT ![c] = s]
    BY <1>4 DEF NoteFetchFailed
  <2> HIDE DEF c
  <2>3. /\ cache'.entries = cache.entries
        /\ Tombstoned(cache') \subseteq Tombstoned(cache) \cup {c}
        /\ \A d \in Tombstoned(cache') \ {c} : cache'.tombs[d] = cache.tombs[d]
        /\ c \in Tombstoned(cache') /\ cache'.tombs[c] = s
    BY <1>1, <1>2, <1>4, NoteAbsentSound
  <2>4. \A d \in Held(cache') \ {c} :
           d \in Held(cache) /\ cache'.entries[d] = cache.entries[d]
    BY <2>3 DEF Held
  <2>5. \A d \in Tombstoned(cache') \ {c} :
           d \in Tombstoned(cache) /\ cache'.tombs[d] = cache.tombs[d]
    BY <2>3
  <2> HIDE DEF s
  <2>6. Remembers(cache', c, s)
    BY <2>1, <2>3, CacheAssumption DEF Remembers, U64
  <2>7. QED
    BY <1>1, <1>2, <2>1, <2>2, <2>4, <2>5, <2>6, WriteRemembers
<1>5. QED
  BY <1>3, <1>4

\* The reads: the two before the lock, and the look again under it.
LEMMA LookRemembers ==
    ASSUME IInv, AllRemembered(cache, known, clock), NEW r \in Conns,
           CheckNegative(r) \/ Read(r) \/ Recheck(r)
    PROVE  AllRemembered(cache', known', clock')
<1> DEFINE c == req[r].cid
           now == req[r].at
           G == Get(cache, c, now)
<1>1. /\ Sound(cache) /\ known \in [Cids -> U64] /\ clock \in Nat
      /\ clock' = clock /\ known' = known
  BY DEF IInv, HandlerOK, HistoryOK, CheckNegative, Read, Recheck, history
<1>2. c \in Cids /\ now \in U64 /\ now <= clock
  <2>1. pc[r] # "idle"
    BY DEF CheckNegative, Read, Recheck
  <2>2. QED
    BY <2>1, RequestTyped DEF IInv, HandlerOK
<1>3. \/ cache' = cache \/ cache' = IsNegative(cache, c, now)
      \/ cache' = G \/ cache' = IsNegative(G, c, now)
  BY DEF CheckNegative, Read, Recheck
<1> HIDE DEF c, now
<1>4. Sound(G)
  BY <1>1, <1>2, GetSound
<1>5. AllRemembered(G, known, clock)
  BY <1>1, <1>2, GetRemembers
<1> HIDE DEF G
<1>6. AllRemembered(IsNegative(cache, c, now), known, clock)
  BY <1>1, <1>2, NegativeRemembers
<1>7. AllRemembered(IsNegative(G, c, now), known, clock)
  BY <1>1, <1>2, <1>4, <1>5, NegativeRemembers
<1>8. QED
  BY <1>1, <1>3, <1>5, <1>6, <1>7
\* Every other step leaves the cache and the answers alone, and the clock only
\* goes on.
LEMMA RememberedStep ==
    ASSUME IInv, AllRemembered(cache, known, clock), [Next]_vars
    PROVE  AllRemembered(cache', known', clock')
<1> DEFINE Quiet == cache' = cache /\ known' = known /\ clock' \in {clock, clock + 1}
<1>1. ASSUME Quiet PROVE AllRemembered(cache', known', clock')
  <2>1. \A c \in Cids : known[c] \in Nat
    BY CacheAssumption DEF IInv, HistoryOK, U64
  <2>2. \A c \in Cids : known[c] >= clock' => known[c] >= clock
    BY <1>1, <2>1 DEF IInv, HandlerOK
  <2>3. QED
    BY <1>1, <2>2 DEF AllRemembered
<1>2. ASSUME NEW r \in Conns, Step(r)
      PROVE  AllRemembered(cache', known', clock')
  <2>1. CASE CheckNegative(r) \/ Read(r) \/ Recheck(r)
    BY <2>1, LookRemembers
  <2>2. CASE InsertFetched(r)
    BY <2>2, InsertRemembers
  <2>3. CASE NoteFetchFailed(r)
    BY <2>3, NoteRemembers
  <2>4. CASE \/ CheckReplay(r) \/ TakeFlight(r) \/ AskLock(r) \/ FetchOk(r)
             \/ FetchTooLarge(r) \/ FetchErr(r) \/ Serve(r)
    BY <1>1, <2>4 DEF CheckReplay, TakeFlight, AskLock, FetchOk, FetchTooLarge,
                      FetchErr, Serve, history
  <2>5. QED
    BY <1>2, <2>1, <2>2, <2>3, <2>4 DEF Step
<1>3. ASSUME NEW r \in Conns, NotModified(r) \/ Cancel(r) PROVE Quiet
  BY <1>3 DEF NotModified, Cancel, history
<1>4. ASSUME NEW r \in Conns, NEW c \in Cids,
             ArriveOpen(r, c) \/ \E p \in Proofs : ArrivePop(r, c, p)
      PROVE  Quiet
  BY <1>4 DEF ArriveOpen, ArrivePop, Arrive
<1>5. CASE Tick \/ UNCHANGED vars
  BY <1>1, <1>5 DEF Tick, vars, history
<1>6. QED
  BY <1>1, <1>2, <1>3, <1>4, <1>5 DEF Next

\* Only the look again under the lock starts a fetch.
LEMMA FetchStarts ==
    ASSUME IInv, [Next]_vars, NEW r \in Conns, pc[r] = "waiting", pc'[r] = "fetch"
    PROVE  Recheck(r)
<1>1. pc \in [Conns -> Steps]
  BY DEF IInv, HandlerOK
<1>2. ASSUME NEW q \in Conns, Step(q) PROVE q = r
  <2>1. \E step : pc' = [pc EXCEPT ![q] = step]
    BY <1>2 DEF Step, CheckReplay, CheckNegative, Read, TakeFlight, AskLock, Recheck,
                FetchOk, FetchTooLarge, FetchErr, InsertFetched, NoteFetchFailed, Serve,
                Goto, End
  <2>2. QED
    BY <1>1, <2>1
<1>3. ASSUME Step(r) PROVE Recheck(r)
  BY <1>3 DEF Step, CheckReplay, CheckNegative, Read, TakeFlight, AskLock,
              FetchOk, FetchTooLarge, FetchErr, InsertFetched, NoteFetchFailed, Serve
<1>4. ASSUME NEW q \in Conns, NotModified(q) \/ Cancel(q) PROVE FALSE
  BY <1>1, <1>4 DEF NotModified, Cancel, End
<1>5. ASSUME NEW q \in Conns, NEW c \in Cids,
             ArriveOpen(q, c) \/ \E p \in Proofs : ArrivePop(q, c, p)
      PROVE  FALSE
  BY <1>1, <1>5 DEF ArriveOpen, ArrivePop, Arrive
<1>6. ASSUME Tick \/ UNCHANGED vars PROVE FALSE
  BY <1>6 DEF Tick, vars, handler
<1>7. QED
  BY <1>2, <1>3, <1>4, <1>5, <1>6 DEF Next

\* Who goes on to fetch has looked: nothing still good is remembered.
LEMMA FetchNeeded ==
    ASSUME IInv, AllRemembered(cache, known, clock), NEW r \in Conns, Recheck(r),
           pc'[r] = "fetch"
    PROVE  known[req[r].cid] < clock
<1> DEFINE c == req[r].cid
           now == req[r].at
           G == Get(cache, c, now)
<1>1. /\ Sound(cache) /\ known \in [Cids -> U64] /\ clock \in Nat
      /\ pc \in [Conns -> Steps] /\ pc[r] = "waiting"
  BY DEF IInv, HandlerOK, HistoryOK, Recheck
<1>2. c \in Cids /\ now \in U64 /\ now <= clock
  BY <1>1, RequestTyped DEF IInv, HandlerOK
<1>3. ~ContainsFresh(cache, c, now) /\ ~FreshTombstone(G, c, now)
  BY <1>1 DEF Recheck, Goto, End
<1> HIDE DEF c, now
<1>4. G.tombs = cache.tombs
  BY <1>1, <1>2, GetSound
<1> HIDE DEF G
<1>5. SUFFICES ASSUME known[c] >= clock PROVE FALSE
  <2>1. known[c] \in Nat
    BY <1>1, <1>2, CacheAssumption DEF U64
  <2>2. QED
    BY <1>1, <1>5, <2>1 DEF c
<1>6. Remembers(cache, c, known[c]) /\ known[c] \in Nat /\ now \in Nat
  BY <1>1, <1>2, <1>5, CacheAssumption DEF AllRemembered, U64
<1>7. cache.entries \in [Held(cache) -> Entry] /\ cache.tombs \in [Tombstoned(cache) -> U64]
  BY <1>1, CacheParts DEF Sound
<1>8. CASE c \in Held(cache) /\ known[c] <= cache.entries[c].expires
  <2>1. cache.entries[c].expires \in Nat
    BY <1>7, <1>8, CacheAssumption DEF Entry, U64
  <2>2. now <= cache.entries[c].expires
    BY <1>1, <1>2, <1>5, <1>6, <1>8, <2>1
  <2>3. QED
    BY <1>3, <1>8, <2>2 DEF ContainsFresh
<1>9. CASE c \in Tombstoned(cache) /\ known[c] <= cache.tombs[c]
  <2>1. cache.tombs[c] \in Nat
    BY <1>7, <1>9, CacheAssumption DEF U64
  <2>2. now <= cache.tombs[c]
    BY <1>1, <1>2, <1>5, <1>6, <1>9, <2>1
  <2>3. QED
    BY <1>3, <1>4, <1>9, <2>2 DEF FreshTombstone, Tombstoned
<1>10. QED
  BY <1>6, <1>8, <1>9 DEF Remembers

\* Every answer of the origin that the history says is to be remembered is in
\* the cache until it is too old.
THEOREM AnswersRemembered == Spec => []AllRemembered(cache, known, clock)
<1>1. Init => AllRemembered(cache, known, clock)
  BY DEF Init, AllRemembered
<1>2. IInv /\ AllRemembered(cache, known, clock) /\ [Next]_vars
        => AllRemembered(cache, known, clock)'
  BY RememberedStep
<1>3. QED
  BY <1>1, <1>2, InvariantHolds, PTL DEF Spec

\* No fetch of a CID starts while an earlier answer about it is still good.
THEOREM AskedOnceHolds == Spec => AskedOnce
<1>1. IInv /\ AllRemembered(cache, known, clock) /\ [Next]_vars =>
        [\A r \in Conns :
            pc[r] = "waiting" /\ pc'[r] = "fetch" => known[req[r].cid] < clock]_vars
  BY FetchStarts, FetchNeeded
<1>2. QED
  BY <1>1, InvariantHolds, AnswersRemembered, PTL DEF Spec, AskedOnce
-----------------------------------------------------------------------------
(* The refinement of the read path.  First what the cache's operations do  *)
(* to the facts it stands for.                                             *)

\* D knows what C knows
SameFacts(C, D) == \A d \in Cids : Fact(D, d) = Fact(C, d)

\* D knows what C knows, unless it has forgotten something about c that was
\* outdated at second t
KeepsFacts(C, D, c, t) ==
    /\ \A d \in Cids \ {c} : Fact(D, d) = Fact(C, d)
    /\ Fact(D, c) = Fact(C, c) \/ (Fact(D, c) = NoFact /\ Fact(C, c).until < t)

\* A get leaves what is known as it is, or forgets the expired entry.
LEMMA GetFacts ==
    ASSUME NEW C, Sound(C), Held(C) \cap Tombstoned(C) = {}, NEW c \in Cids,
           NEW now \in U64, NEW t \in Nat, now <= t, NEW G, G = Get(C, c, now)
    PROVE  /\ ContainsFresh(C, c, now) \/ c \notin Held(C) => SameFacts(C, G)
           /\ KeepsFacts(C, G, c, t)
           /\ Sound(G) /\ Tombstoned(G) = Tombstoned(C) /\ Held(G) \cap Tombstoned(G) = {}
           /\ ~ContainsFresh(C, c, now) => c \notin Held(G)
<1>1. /\ Sound(G) /\ G.tombs = C.tombs
      /\ Held(G) = IF ContainsFresh(C, c, now) THEN Held(C) ELSE Held(C) \ {c}
      /\ \A d \in Held(G) : G.entries[d].expires = C.entries[d].expires
  BY GetSound
<1>2. Tombstoned(G) = Tombstoned(C) /\ Held(G) \cap Tombstoned(G) = {}
  BY <1>1 DEF Tombstoned
<1>3. ASSUME NEW d \in Cids, d \in Held(C) => d \in Held(G)
      PROVE  Fact(G, d) = Fact(C, d)
  BY <1>1, <1>2, <1>3 DEF Fact
<1>4. CASE ContainsFresh(C, c, now) \/ c \notin Held(C)
  <2>1. Held(G) = Held(C)
    BY <1>1, <1>4 DEF ContainsFresh
  <2>2. SameFacts(C, G)
    BY <1>3, <2>1 DEF SameFacts
  <2>3. QED
    BY <1>1, <1>2, <2>2 DEF SameFacts, KeepsFacts
<1>5. CASE ~ContainsFresh(C, c, now) /\ c \in Held(C)
  <2>1. \A d \in Cids \ {c} : Fact(G, d) = Fact(C, d)
    BY <1>1, <1>3, <1>5
  <2>2. Fact(G, c) = NoFact
    BY <1>1, <1>2, <1>5 DEF Fact
  <2>3. Fact(C, c).until = C.entries[c].expires /\ C.entries[c].expires \in Nat
    <3>1. C.entries \in [Held(C) -> Entry]
      BY CacheParts DEF Sound
    <3>2. QED
      BY <1>5, <3>1, CacheAssumption DEF Fact, Entry, U64
  <2>4. C.entries[c].expires < t
    BY <1>5, <2>3, CacheAssumption DEF ContainsFresh, U64
  <2>5. QED
    BY <1>1, <1>2, <1>5, <2>1, <2>2, <2>3, <2>4 DEF KeepsFacts
<1>6. QED
  BY <1>4, <1>5

\* is_negative leaves what is known as it is, or forgets the expired tombstone.
LEMMA NegativeFacts ==
    ASSUME NEW C, Sound(C), Held(C) \cap Tombstoned(C) = {}, NEW c \in Cids,
           NEW now \in U64, NEW t \in Nat, now <= t, NEW N, N = IsNegative(C, c, now)
    PROVE  /\ FreshTombstone(C, c, now) => SameFacts(C, N)
           /\ KeepsFacts(C, N, c, t)
           /\ Held(N) = Held(C)
           /\ ~FreshTombstone(C, c, now) => c \notin Tombstoned(N)
<1>1. /\ Sound(N) /\ N.entries = C.entries
      /\ Tombstoned(N) = IF FreshTombstone(C, c, now)
                         THEN Tombstoned(C) ELSE Tombstoned(C) \ {c}
      /\ \A d \in Tombstoned(N) : N.tombs[d] = C.tombs[d]
  BY IsNegativeSound
<1>2. Held(N) = Held(C)
  BY <1>1 DEF Held
<1>3. ASSUME NEW d \in Cids, d \in Tombstoned(C) => d \in Tombstoned(N)
      PROVE  Fact(N, d) = Fact(C, d)
  BY <1>1, <1>2, <1>3 DEF Fact
<1>4. CASE FreshTombstone(C, c, now) \/ c \notin Tombstoned(C)
  <2>1. Tombstoned(N) = Tombstoned(C)
    BY <1>1, <1>4 DEF FreshTombstone
  <2>2. SameFacts(C, N)
    BY <1>3, <2>1 DEF SameFacts
  <2>3. QED
    BY <1>1, <1>2, <2>1, <2>2 DEF SameFacts, KeepsFacts, FreshTombstone
<1>5. CASE ~FreshTombstone(C, c, now) /\ c \in Tombstoned(C)
  <2>1. \A d \in Cids \ {c} : Fact(N, d) = Fact(C, d)
    BY <1>1, <1>3, <1>5
  <2>2. c \notin Held(C) /\ c \notin Tombstoned(N)
    BY <1>1, <1>5
  <2>3. Fact(N, c) = NoFact
    BY <1>2, <2>2 DEF Fact
  <2>4. Fact(C, c).until = C.tombs[c] /\ C.tombs[c] \in Nat
    <3>1. C.tombs \in [Tombstoned(C) -> U64]
      BY CacheParts DEF Sound
    <3>2. QED
      BY <1>5, <2>2, <3>1, CacheAssumption DEF Fact, U64
  <2>5. C.tombs[c] < t
    BY <1>5, <2>4, CacheAssumption DEF FreshTombstone, U64
  <2>6. QED
    BY <1>2, <1>5, <2>1, <2>2, <2>3, <2>4, <2>5 DEF KeepsFacts
<1>6. QED
  BY <1>4, <1>5

\* What both do together: the look under the lock.
LEMMA LookFacts ==
    ASSUME NEW C, Sound(C), Held(C) \cap Tombstoned(C) = {}, NEW c \in Cids,
           NEW now \in U64, NEW t \in Nat \ {0}, now <= t,
           NEW G, G = Get(C, c, now), NEW N, N = IsNegative(G, c, now),
           ~ContainsFresh(C, c, now)
    PROVE  /\ FreshTombstone(G, c, now) => SameFacts(C, N)
           /\ ~FreshTombstone(G, c, now) =>
                 /\ \A d \in Cids \ {c} : Fact(N, d) = Fact(C, d)
                 /\ Fact(N, c) = NoFact
                 /\ Fact(C, c).until < t
<1>1. /\ c \notin Held(C) => SameFacts(C, G)
      /\ KeepsFacts(C, G, c, t)
      /\ Sound(G) /\ Tombstoned(G) = Tombstoned(C) /\ Held(G) \cap Tombstoned(G) = {}
      /\ c \notin Held(G)
  BY GetFacts
<1>2. /\ FreshTombstone(G, c, now) => SameFacts(G, N)
      /\ KeepsFacts(G, N, c, t)
      /\ Held(N) = Held(G)
      /\ ~FreshTombstone(G, c, now) => c \notin Tombstoned(N)
  BY <1>1, NegativeFacts
<1>3. ASSUME FreshTombstone(G, c, now) PROVE SameFacts(C, N)
  <2>1. c \notin Held(C)
    BY <1>1, <1>3 DEF FreshTombstone
  <2>2. QED
    BY <1>1, <1>2, <1>3, <2>1 DEF SameFacts
<1>4. ASSUME ~FreshTombstone(G, c, now)
      PROVE  /\ \A d \in Cids \ {c} : Fact(N, d) = Fact(C, d)
             /\ Fact(N, c) = NoFact
             /\ Fact(C, c).until < t
  <2>1. Fact(N, c) = NoFact
    BY <1>1, <1>2, <1>4 DEF Fact
  <2>2. NoFact.until < t
    BY DEF NoFact
  <2>3. QED
    BY <1>1, <1>2, <2>1, <2>2 DEF KeepsFacts
<1>5. QED
  BY <1>3, <1>4

\* A victim of the eviction shows that the newcomer does not fit beside the
\* rest.
LEMMA VictimMeansFull ==
    ASSUME NEW C, Sound(C), NEW len \in Nat, NEW v \in Victims(C, len)
    PROVE  C.curBytes + len > MaxBytes
<1>1. /\ Older(C, v) \in SUBSET Cids /\ C.curBytes \in Nat /\ MaxBytes \in Nat
      /\ SatSub(C.curBytes, TotalBytes(Older(C, v))) + len > MaxBytes
  BY CacheParts, CacheAssumption DEF Sound, Victims, Older, U64
<1>2. TotalBytes(Older(C, v)) \in Nat
  BY <1>1, BytesFinite
<1>3. QED
  BY <1>1, <1>2 DEF SatSub

\* An insert of a CID that was not held lets others go only if all would not
\* fit together.
LEMMA InsertNeedsRoom ==
    ASSUME NEW C, Sound(C), NEW c \in Cids \ Held(C), NEW ttl \in U64, NEW now \in U64,
           Cacheable(c), NEW F, F = InsertWithTtl(C, c, ttl, now), ~(Held(C) \subseteq Held(F))
    PROVE  TotalBytes(Held(C) \cup {c}) > MaxBytes
<1>1. PICK D : Leaves(C, c, F, D)
  BY InsertLeaves
<1>2. /\ Sound(D) /\ Held(D) = Held(C)
      /\ Held(F) = (Held(D) \ Victims(D, Size[c])) \cup {c}
  BY <1>1 DEF Leaves
<1>3. Victims(D, Size[c]) # {}
  BY <1>2
<1>4. Size[c] \in Nat /\ D.curBytes = TotalBytes(Held(C)) /\ Held(C) \in SUBSET Cids
  BY <1>2, CacheParts, CacheAssumption DEF Sound, U64
<1>5. D.curBytes + Size[c] > MaxBytes
  BY <1>2, <1>3, <1>4, VictimMeansFull
<1>6. TotalBytes(Held(C) \cup {c}) = TotalBytes(Held(C)) + Size[c]
  BY <1>4, BytesAdd
<1>7. QED
  BY <1>4, <1>5, <1>6

\* What an insert of a CID that was not held does to the facts: its own is
\* known, and those it evicts are forgotten.
LEMMA InsertFacts ==
    ASSUME NEW C, Sound(C), Held(C) \cap Tombstoned(C) = {},
           NEW c \in Cids \ Held(C), NEW ttl \in U64, NEW now \in U64,
           Cacheable(c), NEW F, F = InsertWithTtl(C, c, ttl, now)
    PROVE  /\ Sound(F)
           /\ Held(F) = (Held(C) \ (Held(C) \ Held(F))) \cup {c}
           /\ \A d \in Cids : Fact(F, d) =
                 IF d = c THEN [kind |-> "here", until |-> ExpiresAt(now, ttl)]
                 ELSE IF d \in Held(C) \ Held(F) THEN NoFact
                 ELSE Fact(C, d)
<1>1. /\ Sound(F) /\ Held(F) \subseteq Held(C) \cup {c}
      /\ Tombstoned(F) \subseteq Tombstoned(C)
      /\ c \in Held(F) /\ c \notin Tombstoned(F)
      /\ F.entries[c].expires = ExpiresAt(now, ttl)
  BY InsertSound
<1>2. \A d \in Held(F) \ {c} : d \in Held(C) /\ F.entries[d] = C.entries[d]
  BY InsertCounts
<1>3. \A d \in Tombstoned(C) \ {c} : d \in Tombstoned(F) /\ F.tombs[d] = C.tombs[d]
  BY InsertTombs
<1>4. Fact(F, c) = [kind |-> "here", until |-> ExpiresAt(now, ttl)]
  BY <1>1 DEF Fact
<1>5. ASSUME NEW d \in Held(C) \ Held(F) PROVE Fact(F, d) = NoFact
  BY <1>1 DEF Fact
<1>6. ASSUME NEW d \in Cids \ {c}, d \notin Held(C) \ Held(F)
      PROVE  Fact(F, d) = Fact(C, d)
  <2>1. CASE d \in Held(F)
    BY <1>2, <2>1 DEF Fact
  <2>2. CASE d \notin Held(F)
    <3>1. d \notin Held(C)
      BY <1>6, <2>2
    <3>2. d \in Tombstoned(F) <=> d \in Tombstoned(C)
      BY <1>1, <1>3
    <3>3. QED
      BY <1>3, <2>2, <3>1, <3>2 DEF Fact
  <2>3. QED
    BY <2>1, <2>2
<1>7. QED
  BY <1>1, <1>4, <1>5, <1>6

\* F is C with the absence of c noted at now and those of D forgotten
NotedFacts(C, c, now, F, D) ==
    /\ Cardinality((Tombstoned(C) \ D) \cup {c}) <= MaxTombs
    /\ D # {} => Cardinality(D) = 1 /\ Cardinality(Tombstoned(C) \cup {c}) > MaxTombs
    /\ \A d \in Cids : Fact(F, d) =
          IF d = c THEN [kind |-> "gone", until |-> SatAdd(now, NegTtl)]
          ELSE IF d \in D THEN NoFact
          ELSE Fact(C, d)

\* What noting an absence does to the facts: one absence is known, and the
\* one it evicts, if the negative cache was full, is forgotten.
LEMMA NoteFacts ==
    ASSUME NEW C, Sound(C), Held(C) \cap Tombstoned(C) = {},
           NEW c \in Cids \ Held(C), NEW now \in U64, NegTtl # 0,
           NEW F \in NoteAbsent(C, c, now)
    PROVE  \E D \in SUBSET (Tombstoned(C) \ {c}) : NotedFacts(C, c, now, F, D)
<1>1. PICK V \in TombVictims(C, c) :
         F = [C EXCEPT !.tombs = With(Without(C.tombs, V), c, SatAdd(now, NegTtl))]
  BY DEF NoteAbsent
<1>2. Sound(F) /\ F.entries = C.entries
  BY NoteAbsentSound
<1> DEFINE w == With(Without(C.tombs, V), c, SatAdd(now, NegTtl))
<1>3. /\ DOMAIN w = (Tombstoned(C) \ V) \cup {c}
      /\ w[c] = SatAdd(now, NegTtl)
      /\ \A d \in (Tombstoned(C) \ V) \ {c} : w[d] = C.tombs[d]
  BY DEF With, Without, Tombstoned
<1>4. F.tombs = w
  <2> HIDE DEF w
  <2>1. C = MkCache(C.entries, C.tombs, C.curBytes, C.tick, C.hits, C.misses,
                    C.expirations, C.evictions, C.negativeHits)
    BY CacheParts DEF Sound
  <2>2. F = [C EXCEPT !.tombs = w]
    BY <1>1 DEF w
  <2>3. QED
    BY <2>1, <2>2 DEF MkCache
<1> HIDE DEF w
<1>5. Held(F) = Held(C) /\ Tombstoned(F) = (Tombstoned(C) \ V) \cup {c}
  BY <1>2, <1>3, <1>4 DEF Held, Tombstoned
<1>6. IsFiniteSet(Tombstoned(C)) /\ MaxTombs \in Nat
  BY CacheParts, CacheAssumption DEF Sound
<1>7. /\ V \in SUBSET (Tombstoned(C) \ {c})
      /\ V # {} => Cardinality(V) = 1 /\ Cardinality(Tombstoned(C) \cup {c}) > MaxTombs
  <2>1. CASE Cardinality(Tombstoned(C)) >= MaxTombs /\ c \notin Tombstoned(C)
    <3>1. PICK v \in Tombstoned(C) : V = {v}
      BY <1>1, <2>1 DEF TombVictims
    <3>2. Cardinality({v}) = 1
      BY FS_Singleton
    <3>3. /\ Cardinality(Tombstoned(C) \cup {c}) = Cardinality(Tombstoned(C)) + 1
          /\ Cardinality(Tombstoned(C)) \in Nat
      BY <1>6, <2>1, FS_AddElement, FS_CardinalityType
    <3>4. QED
      BY <1>6, <2>1, <3>1, <3>2, <3>3
  <2>2. CASE ~(Cardinality(Tombstoned(C)) >= MaxTombs /\ c \notin Tombstoned(C))
    BY <1>1, <2>2 DEF TombVictims
  <2>3. QED
    BY <2>1, <2>2
<1>8. Cardinality((Tombstoned(C) \ V) \cup {c}) <= MaxTombs
  BY <1>2, <1>5 DEF Sound
<1>9. ASSUME NEW d \in Cids
      PROVE  Fact(F, d) = IF d = c THEN [kind |-> "gone", until |-> SatAdd(now, NegTtl)]
                          ELSE IF d \in V THEN NoFact
                          ELSE Fact(C, d)
  <2>1. CASE d = c
    BY <1>3, <1>4, <1>5, <2>1 DEF Fact
  <2>2. CASE d # c /\ d \in V
    <3>1. d \notin Held(C)
      BY <1>7, <2>2
    <3>2. QED
      BY <1>5, <2>2, <3>1 DEF Fact
  <2>3. CASE d # c /\ d \notin V
    <3>1. d \in Tombstoned(F) <=> d \in Tombstoned(C)
      BY <1>5, <2>3
    <3>2. d \in Tombstoned(C) => F.tombs[d] = C.tombs[d]
      BY <1>3, <1>4, <2>3
    <3>3. QED
      BY <1>2, <1>5, <2>3, <3>1, <3>2 DEF Fact
  <2>4. QED
    BY <2>1, <2>2, <2>3
<1>10. NotedFacts(C, c, now, F, V)
  BY <1>7, <1>8, <1>9 DEF NotedFacts
<1>11. QED
  BY <1>7, <1>10

-----------------------------------------------------------------------------
(* The steps of the handlers as steps of the read path.                    *)

\* A handler that moves on takes its request to the stage of the step it is at.
LEMMA AsksMove ==
    ASSUME HandlerOK, NEW r \in Conns, NEW step, Goto(r, step)
    PROVE  /\ Asks' = [Asks EXCEPT ![r].stage = Stage(step)]
           /\ Asks[r] = [stage |-> Stage(pc[r]), cid |-> req[r].cid, since |-> req[r].at]
           /\ Stage(step) = Stage(pc[r]) => Asks' = Asks
<1>1. pc' = [pc EXCEPT ![r] = step] /\ req' = req /\ pc \in [Conns -> Steps]
  BY DEF Goto, HandlerOK
<1>2. Asks[r] = [stage |-> Stage(pc[r]), cid |-> req[r].cid, since |-> req[r].at]
  BY DEF Asks
<1>3. \A q \in Conns : Asks'[q] = [stage |-> Stage(pc'[q]), cid |-> req[q].cid,
                                   since |-> req[q].at]
  BY <1>1 DEF Asks, Stage
<1>4. Asks'[r] = [Asks[r] EXCEPT !.stage = Stage(step)]
  BY <1>1, <1>2, <1>3
<1>5. \A q \in Conns \ {r} : Asks'[q] = Asks[q]
  BY <1>1, <1>3 DEF Asks
<1>6. Asks' \in [Conns -> {Asks'[q] : q \in Conns}] /\ DOMAIN Asks = Conns
  BY DEF Asks
<1>7. Asks' = [Asks EXCEPT ![r].stage = Stage(step)]
  BY <1>4, <1>5, <1>6
<1>8. ASSUME Stage(step) = Stage(pc[r]) PROVE Asks' = Asks
  <2>1. Asks'[r] = Asks[r]
    BY <1>2, <1>4, <1>8
  <2>2. QED
    BY <1>5, <1>6, <2>1 DEF Asks
<1>9. QED
  BY <1>2, <1>7, <1>8

\* A handler that ends leaves no request.
LEMMA AsksEnd ==
    ASSUME HandlerOK, NEW r \in Conns, End(r)
    PROVE  Asks' = [Asks EXCEPT ![r] = ReadPath!Quiet]
<1>1. /\ pc' = [pc EXCEPT ![r] = "idle"] /\ req' = [req EXCEPT ![r] = NoReq]
      /\ DOMAIN pc = Conns /\ DOMAIN req = Conns
  BY DEF End, HandlerOK
<1>2. /\ pc'[r] = "idle" /\ req'[r].cid = NoCid /\ req'[r].at = 0
      /\ \A q \in Conns \ {r} : pc'[q] = pc[q] /\ req'[q] = req[q]
  BY <1>1 DEF NoReq
<1>3. Stage("idle") = "quiet"
  BY DEF Stage, Critical
<1>4. Asks' = [q \in Conns |-> [stage |-> Stage(pc'[q]), cid |-> req'[q].cid,
                                since |-> req'[q].at]]
  BY DEF Asks, Stage
<1>5. QED
  BY <1>2, <1>3, <1>4 DEF Asks, ReadPath!Quiet

\* Facts stay when the cache knows the same.
LEMMA FactsSame ==
    ASSUME SameFacts(cache, cache')
    PROVE  Facts' = Facts
BY DEF SameFacts, Facts, Fact

\* The facts of the read path, in terms of the cache.
LEMMA HereAndGone ==
    ASSUME IInv
    PROVE  ReadPath!Here = Held(cache) /\ ReadPath!Gone = Tombstoned(cache)
<1>1. Held(cache) \in SUBSET Cids /\ Tombstoned(cache) \in SUBSET Cids
      /\ Held(cache) \cap Tombstoned(cache) = {}
  BY CacheParts DEF IInv, Sound, NeverBoth
<1>2. \A c \in Cids : /\ Facts[c].kind = "here" <=> c \in Held(cache)
                      /\ Facts[c].kind = "gone" <=> c \in Tombstoned(cache)
  BY <1>1 DEF Facts, Fact, NoFact
<1>3. QED
  BY <1>1, <1>2 DEF ReadPath!Here, ReadPath!Gone

Mapped == <<clock, Facts, Asks>>

\* A request that arrives begins.
LEMMA ArriveRefines ==
    ASSUME IInv, NEW r \in Conns, NEW c \in Cids,
           ArriveOpen(r, c) \/ \E p \in Proofs : ArrivePop(r, c, p)
    PROVE  ReadPath!Next
<1>1. PICK p \in Proofs \cup {NoProof}, step \in {"checked", "replay"} : Arrive(r, c, p, step)
  BY DEF ArriveOpen, ArrivePop
<1>2. /\ pc[r] = "idle" /\ pc' = [pc EXCEPT ![r] = step]
      /\ req' = [req EXCEPT ![r] = [cid |-> c, at |-> clock, proof |-> p]]
      /\ cache' = cache /\ clock' = clock
      /\ DOMAIN pc = Conns /\ DOMAIN req = Conns
  BY <1>1 DEF Arrive, IInv, HandlerOK
<1>3. Stage(step) = "looking" /\ Stage("idle") = "quiet"
  BY DEF Stage, Critical
<1>4. Asks' = [q \in Conns |-> [stage |-> Stage(pc'[q]), cid |-> req'[q].cid,
                                since |-> req'[q].at]]
  BY DEF Asks, Stage
<1>5. /\ pc'[r] = step /\ req'[r].cid = c /\ req'[r].at = clock
      /\ \A q \in Conns \ {r} : pc'[q] = pc[q] /\ req'[q] = req[q]
  BY <1>2
<1>6. Asks' = [Asks EXCEPT ![r] = [stage |-> "looking", cid |-> c, since |-> clock]]
  BY <1>3, <1>4, <1>5 DEF Asks
<1>7. Asks[r].stage = "quiet"
  BY <1>2, <1>3 DEF Asks
<1>8. Facts' = Facts
  BY <1>2 DEF Facts
<1>9. ReadPath!Begin(r, c)
  BY <1>2, <1>6, <1>7, <1>8 DEF ReadPath!Begin
<1>10. QED
  BY <1>9 DEF ReadPath!Next

\* A handler that ends and leaves what is known alone leaves.
LEMMA EndRefines ==
    ASSUME IInv, NEW r \in Conns, End(r), clock' = clock, SameFacts(cache, cache')
    PROVE  ReadPath!Next
<1>1. Asks' = [Asks EXCEPT ![r] = ReadPath!Quiet] /\ Facts' = Facts
  BY AsksEnd, FactsSame DEF IInv
<1>2. ReadPath!Leave(r)
  BY <1>1 DEF ReadPath!Leave
<1>3. QED
  BY <1>2 DEF ReadPath!Next

\* A handler that moves on within a stage, and forgets at most something
\* outdated, is not seen, or forgets.
LEMMA LookRefines ==
    ASSUME IInv, NEW r \in Conns, pc[r] # "idle", NEW step, Goto(r, step),
           Stage(step) = Stage(pc[r]), clock' = clock,
           KeepsFacts(cache, cache', req[r].cid, clock)
    PROVE  [ReadPath!Next]_Mapped
<1> DEFINE c == req[r].cid
<1>1. c \in Cids
  BY RequestTyped DEF IInv
<1>2. Asks' = Asks
  BY AsksMove DEF IInv
<1>3. CASE Fact(cache', c) = Fact(cache, c)
  <2>1. SameFacts(cache, cache')
    BY <1>3 DEF KeepsFacts, SameFacts
  <2>2. QED
    BY <1>2, <2>1, FactsSame DEF Mapped
<1>4. CASE Fact(cache', c) = NoFact /\ Fact(cache, c).until < clock
  <2>1. Facts[c].until < clock
    BY <1>1, <1>4 DEF Facts
  <2>2. Facts' = [d \in Cids |-> Fact(cache', d)]
    BY DEF Facts, Fact
  <2>3. \A d \in Cids \ {c} : Fact(cache', d) = Fact(cache, d)
    BY DEF KeepsFacts
  <2>4. Facts' = [Facts EXCEPT ![c] = NoFact]
    BY <1>4, <2>2, <2>3 DEF Facts
  <2>5. ReadPath!Forget(c)
    BY <1>2, <2>1, <2>4 DEF ReadPath!Forget, ReadPath!Outdated, ReadPath!Unknown, NoFact
  <2>6. QED
    BY <1>1, <2>5 DEF ReadPath!Next
<1>5. QED
  BY <1>3, <1>4 DEF KeepsFacts

\* The stages of the steps.
LEMMA Stages ==
    /\ Stage("idle") = "quiet" /\ Stage("serve") = "telling"
    /\ \A step \in {"replay", "checked", "read", "cold", "flight", "waiting"} :
          Stage(step) = "looking"
    /\ \A step \in Critical : Stage(step) = "asking"
BY DEF Stage, Critical

\* What every look starts from.
LEMMA LookStarts ==
    ASSUME IInv, NEW r \in Conns, pc[r] # "idle"
    PROVE  /\ HandlerOK /\ Sound(cache) /\ Held(cache) \cap Tombstoned(cache) = {}
           /\ req[r].cid \in Cids /\ req[r].at \in U64 /\ req[r].at <= clock
           /\ clock \in Nat \ {0}
<1>1. req[r].cid \in Cids /\ req[r].at \in U64 /\ req[r].at <= clock
  BY RequestTyped DEF IInv, HandlerOK
<1>2. QED
  BY <1>1 DEF IInv, HandlerOK, NeverBoth

\* The negative check.
LEMMA CheckNegativeRefines ==
    ASSUME IInv, NEW r \in Conns, CheckNegative(r)
    PROVE  [ReadPath!Next]_Mapped
<1> DEFINE c == req[r].cid
           now == req[r].at
<1>1. pc[r] = "checked" /\ clock' = clock
  BY DEF CheckNegative
<1>2. /\ Sound(cache) /\ Held(cache) \cap Tombstoned(cache) = {}
      /\ c \in Cids /\ now \in U64 /\ now <= clock /\ clock \in Nat
  BY <1>1, LookStarts
<1>3. \/ cache' = cache
      \/ cache' = IsNegative(cache, c, now)
  BY DEF CheckNegative
<1>4. KeepsFacts(cache, cache', c, clock)
  <2> HIDE DEF c, now
  <2>1. CASE cache' = cache
    BY <2>1 DEF KeepsFacts
  <2>2. CASE cache' = IsNegative(cache, c, now)
    BY <1>2, <2>2, NegativeFacts
  <2>3. QED
    BY <1>3, <2>1, <2>2
<1>5. CASE Goto(r, "read")
  BY <1>1, <1>4, <1>5, Stages, LookRefines
<1>6. CASE End(r)
  <2>1. pc'[r] = "idle"
    BY <1>1, <1>2, <1>6 DEF End, IInv, HandlerOK
  <2>2. ~Goto(r, "read")
    BY <2>1 DEF Goto, IInv, HandlerOK
  <2>3. FreshTombstone(cache, c, now) /\ cache' = IsNegative(cache, c, now)
    BY <2>2 DEF CheckNegative
  <2>4. SameFacts(cache, cache')
    <3> HIDE DEF c, now
    <3>1. QED
      BY <1>2, <2>3, NegativeFacts
  <2>5. QED
    BY <1>1, <1>6, <2>4, EndRefines
<1>7. QED
  BY <1>5, <1>6 DEF CheckNegative

\* A read that finds the object is a hit.
LEMMA HitRefines ==
    ASSUME IInv, NEW r \in Conns, pc[r] \in {"read", "waiting"}, clock' = clock,
           ContainsFresh(cache, req[r].cid, req[r].at),
           cache' = Get(cache, req[r].cid, req[r].at), Goto(r, "serve")
    PROVE  ReadPath!Next
<1> DEFINE c == req[r].cid
           now == req[r].at
<1>1. /\ Sound(cache) /\ Held(cache) \cap Tombstoned(cache) = {}
      /\ c \in Cids /\ now \in U64 /\ now <= clock /\ clock \in Nat
  BY LookStarts
<1>2. SameFacts(cache, cache')
  <2> HIDE DEF c, now
  <2>1. ContainsFresh(cache, c, now) /\ cache' = Get(cache, c, now)
    BY DEF c, now
  <2>2. QED
    BY <1>1, <2>1, GetFacts
<1>3. Facts' = Facts
  BY <1>2, FactsSame
<1>4. Facts[c].kind = "here" /\ now <= Facts[c].until
  BY <1>1 DEF Facts, Fact, ContainsFresh
<1>5. Asks' = [Asks EXCEPT ![r].stage = "telling"]
  <2>1. Asks' = [Asks EXCEPT ![r].stage = Stage("serve")] /\ Stage("serve") = "telling"
    BY AsksMove, Stages DEF IInv
  <2>2. QED
    BY <2>1
<1>6. Asks[r] = [stage |-> "looking", cid |-> c, since |-> now]
  <2>1. Stage(pc[r]) = "looking"
    BY Stages
  <2>2. QED
    BY <2>1 DEF Asks
<1>7. ReadPath!Hit(r)
  <2> HIDE DEF c, now
  <2>1. ReadPath!Advance(r, "looking", "telling")
    BY <1>5, <1>6 DEF ReadPath!Advance
  <2>2. QED
    BY <1>3, <1>4, <1>6, <2>1 DEF ReadPath!Hit
<1>8. QED
  BY <1>7 DEF ReadPath!Next

\* The first read.
LEMMA ReadRefines ==
    ASSUME IInv, NEW r \in Conns, Read(r)
    PROVE  [ReadPath!Next]_Mapped
<1> DEFINE c == req[r].cid
           now == req[r].at
<1>1. pc[r] = "read" /\ clock' = clock /\ cache' = Get(cache, c, now)
  BY DEF Read
<1>2. CASE ContainsFresh(cache, c, now)
  <2>1. Goto(r, "serve")
    BY <1>2 DEF Read
  <2>2. QED
    BY <1>1, <1>2, <2>1, HitRefines
<1>3. CASE ~ContainsFresh(cache, c, now)
  <2>1. Goto(r, "cold")
    BY <1>3 DEF Read
  <2>2. /\ Sound(cache) /\ Held(cache) \cap Tombstoned(cache) = {}
        /\ c \in Cids /\ now \in U64 /\ now <= clock /\ clock \in Nat
    BY <1>1, LookStarts
  <2>3. KeepsFacts(cache, cache', c, clock)
    <3> HIDE DEF c, now
    <3>1. QED
      BY <1>1, <2>2, GetFacts
  <2>4. QED
    BY <1>1, <2>1, <2>3, Stages, LookRefines
<1>4. QED
  BY <1>2, <1>3

\* The look under the lock: a hit, an answer from a tombstone, or the origin is
\* asked.  Nobody else asks about the CID, for who does owns its lock.
LEMMA RecheckRefines ==
    ASSUME IInv, NEW r \in Conns, Recheck(r)
    PROVE  ReadPath!Next
<1> DEFINE c == req[r].cid
           now == req[r].at
           G == Get(cache, c, now)
           N == IsNegative(G, c, now)
<1>1. pc[r] = "waiting" /\ clock' = clock
  BY DEF Recheck
<1>2. /\ HandlerOK /\ Sound(cache) /\ Held(cache) \cap Tombstoned(cache) = {}
      /\ c \in Cids /\ now \in U64 /\ now <= clock /\ clock \in Nat \ {0}
  BY <1>1, LookStarts
<1>3. CASE ContainsFresh(cache, c, now)
  <2>1. cache' = G /\ Goto(r, "serve")
    BY <1>3 DEF Recheck
  <2>2. QED
    BY <1>1, <1>3, <2>1, HitRefines
<1>4. CASE ~ContainsFresh(cache, c, now)
  <2>1. cache' = N
    BY <1>4 DEF Recheck
  <2>2. /\ FreshTombstone(G, c, now) => SameFacts(cache, N)
        /\ ~FreshTombstone(G, c, now) =>
              /\ \A d \in Cids \ {c} : Fact(N, d) = Fact(cache, d)
              /\ Fact(N, c) = NoFact
              /\ Fact(cache, c).until < clock
    <3> HIDE DEF c, now
    <3>1. QED
      BY <1>2, <1>4, LookFacts
  <2>3. CASE FreshTombstone(G, c, now)
    <3>1. End(r)
      BY <1>4, <2>3 DEF Recheck
    <3>2. SameFacts(cache, cache')
      BY <2>1, <2>2, <2>3
    <3>3. QED
      BY <1>1, <3>1, <3>2, EndRefines
  <2>4. CASE ~FreshTombstone(G, c, now)
    <3>1. Goto(r, "fetch")
      BY <1>4, <2>4 DEF Recheck
    <3>2. /\ \A d \in Cids \ {c} : Fact(cache', d) = Fact(cache, d)
          /\ Fact(cache', c) = NoFact
          /\ Fact(cache, c).until < clock
      BY <2>1, <2>2, <2>4
    <3> HIDE DEF G, N
    <3>3. /\ Asks' = [Asks EXCEPT ![r].stage = "asking"]
          /\ Asks[r].stage = "looking" /\ Asks[r].cid = c
      <4>1. Stage("fetch") = "asking" /\ Stage(pc[r]) = "looking"
        BY <1>1, Stages DEF Critical
      <4>2. Asks[r] = [stage |-> "looking", cid |-> c, since |-> now]
        BY <1>2, <3>1, <4>1, AsksMove
      <4>3. Asks' = [Asks EXCEPT ![r].stage = "asking"]
        <5> HIDE DEF c, now
        <5>1. Asks' = [Asks EXCEPT ![r].stage = Stage("fetch")]
          BY <1>2, <3>1, AsksMove
        <5>2. QED
          BY <4>1, <5>1
      <4>4. QED
        BY <4>2, <4>3
    <3>4. Facts' = [Facts EXCEPT ![c] = NoFact]
      <4>1. Facts' = [d \in Cids |-> Fact(cache', d)]
        BY DEF Facts, Fact
      <4>2. QED
        BY <3>2, <4>1 DEF Facts
    <3>5. Facts[c].until < clock
      BY <1>2, <3>2 DEF Facts
    <3>6. ASSUME NEW q \in Conns, Asks[q].stage = "asking" PROVE Asks[q].cid # c
      <4>1. pc[q] \in Critical
        BY <3>6 DEF Asks, Stage
      <4>2. q # r
        BY <1>1, <4>1 DEF Critical
      <4>3. owner[flight[r]] = r /\ owner[flight[q]] = q
        BY <4>1 DEF Recheck, IInv, CriticalOwns
      <4>4. flight[r] # NoLock /\ flight[q] # NoLock
        BY <1>1, <1>2, <4>1 DEF HandlerOK, Flying
      <4>5. req[q].cid # c
        BY <4>2, <4>3, <4>4 DEF IInv, FlightMapped
      <4>6. QED
        BY <4>5 DEF Asks
    <3>7. ReadPath!Ask(r)
      <4> HIDE DEF c
      <4>1. QED
        BY <1>1, <3>3, <3>4, <3>5, <3>6
           DEF ReadPath!Ask, ReadPath!Advance, ReadPath!Outdated, ReadPath!Unknown, NoFact
    <3>8. QED
      BY <3>7 DEF ReadPath!Next
  <2>5. QED
    BY <2>3, <2>4
<1>5. QED
  BY <1>3, <1>4

\* A handler in its critical section: its CID is not held, and its request is
\* one that asks.
LEMMA AsksInCritical ==
    ASSUME IInv, NEW r \in Conns, pc[r] \in Critical
    PROVE  /\ req[r].cid \in Cids \ Held(cache) /\ req[r].at \in U64
           /\ Asks[r] = [stage |-> "asking", cid |-> req[r].cid, since |-> req[r].at]
<1>1. req[r].cid \in Cids \ Held(cache) /\ req[r].at \in U64
  <2>1. pc[r] # "idle"
    BY DEF Critical
  <2>2. QED
    BY <2>1, RequestTyped DEF IInv, AbsentInCritical
<1>2. Stage(pc[r]) = "asking"
  BY Stages
<1>3. QED
  BY <1>1, <1>2 DEF Asks

\* The write-back of fetched bytes.
LEMMA InsertFetchedRefines ==
    ASSUME IInv, NEW r \in Conns, InsertFetched(r)
    PROVE  ReadPath!Next
<1> DEFINE c == req[r].cid
           now == req[r].at
           X == Held(cache) \ Held(cache')
<1>1. /\ pc[r] \in Critical /\ clock' = clock /\ Goto(r, "serve")
      /\ cache' = InsertWithTtl(cache, c, DefaultTtl, now)
  BY DEF InsertFetched, Insert, Critical
<1>2. /\ c \in Cids \ Held(cache) /\ now \in U64 /\ DefaultTtl \in U64
      /\ Asks[r] = [stage |-> "asking", cid |-> c, since |-> now]
  BY <1>1, AsksInCritical, CacheAssumption
<1>3. Asks' = [Asks EXCEPT ![r].stage = "telling"]
  <2>1. Asks' = [Asks EXCEPT ![r].stage = Stage("serve")] /\ Stage("serve") = "telling"
    BY <1>1, AsksMove, Stages DEF IInv
  <2>2. QED
    BY <2>1
<1>4. Sound(cache) /\ Held(cache) \cap Tombstoned(cache) = {} /\ Held(cache) \in SUBSET Cids
  BY CacheParts DEF IInv, NeverBoth, Sound
<1>5. \A S \in SUBSET Cids : S \in Fits <=> TotalBytes(S) <= MaxBytes
  BY DEF Fits
<1>6. Size[c] \in Nat /\ MaxBytes \in Nat /\ TotalBytes({c}) = Size[c]
  BY <1>2, BytesOfOne, CacheAssumption DEF U64
<1> HIDE DEF c, now
<1>7. CASE ~Cacheable(c)
  <2>1. {c} \notin Fits
    BY <1>2, <1>5, <1>6, <1>7 DEF Cacheable
  <2>2. Facts' = Facts
    BY <1>1, <1>7 DEF InsertWithTtl, Facts
  <2>3. ReadPath!PassOn(r)
    BY <1>1, <1>2, <1>3, <2>1, <2>2 DEF ReadPath!PassOn, ReadPath!Advance
  <2>4. QED
    BY <2>3 DEF ReadPath!Next
<1>8. CASE Cacheable(c)
  <2>1. /\ Sound(cache') /\ Held(cache') = (Held(cache) \ X) \cup {c}
        /\ \A d \in Cids : Fact(cache', d) =
              IF d = c THEN [kind |-> "here", until |-> ExpiresAt(now, DefaultTtl)]
              ELSE IF d \in X THEN NoFact
              ELSE Fact(cache, d)
    BY <1>1, <1>2, <1>4, <1>8, InsertFacts
  <2>2. (Held(cache) \ X) \cup {c} \in Fits
    BY <1>2, <1>4, <1>5, <2>1 DEF Sound
  <2>3. X # {} => Held(cache) \cup {c} \notin Fits
    <3> SUFFICES ASSUME X # {} PROVE Held(cache) \cup {c} \notin Fits
      OBVIOUS
    <3>1. TotalBytes(Held(cache) \cup {c}) > MaxBytes
      BY <1>1, <1>2, <1>4, <1>8, InsertNeedsRoom
    <3>2. TotalBytes(Held(cache) \cup {c}) \in Nat
      BY <1>2, <1>4, BytesFinite
    <3>3. QED
      BY <1>2, <1>4, <1>5, <1>6, <3>1, <3>2
  <2>4. HereUntil[now] = ExpiresAt(now, DefaultTtl)
    BY <1>2 DEF HereUntil
  <2>5. Facts' = [d \in Cids |->
                    IF d = c THEN [kind |-> "here", until |-> HereUntil[now]]
                    ELSE IF d \in X THEN NoFact ELSE Facts[d]]
    <3>1. Facts' = [d \in Cids |-> Fact(cache', d)]
      BY DEF Facts, Fact
    <3>2. QED
      BY <2>1, <2>4, <3>1 DEF Facts
  <2>6. ReadPath!Learn(c, [kind |-> "here", until |-> HereUntil[now]], X)
    BY <2>5 DEF ReadPath!Learn, ReadPath!Unknown, NoFact
  <2>7. X \in SUBSET (ReadPath!Here \ {c}) /\ ReadPath!Here = Held(cache)
    BY <1>2, HereAndGone
  <2> HIDE DEF X
  <2>8. ReadPath!Found(r)
    <3>1. Asks[r].cid = c /\ Asks[r].since = now /\ Asks[r].stage = "asking"
      BY <1>2
    <3>2. ReadPath!Advance(r, "asking", "telling")
      BY <1>1, <1>3, <3>1 DEF ReadPath!Advance
    <3>3. /\ (ReadPath!Here \ X) \cup {c} \in Fits
          /\ X # {} => ReadPath!Here \cup {c} \notin Fits
      BY <2>2, <2>3, <2>7
    <3>4. QED
      BY <2>6, <2>7, <3>1, <3>2, <3>3 DEF ReadPath!Found
  <2>9. QED
    BY <2>8 DEF ReadPath!Next
<1>9. QED
  BY <1>7, <1>8

\* The tombstone of a failed fetch.
LEMMA NoteFetchFailedRefines ==
    ASSUME IInv, NEW r \in Conns, NoteFetchFailed(r)
    PROVE  ReadPath!Next
<1> DEFINE c == req[r].cid
           now == req[r].at
<1>1. /\ pc[r] \in Critical /\ clock' = clock /\ End(r)
      /\ cache' \in NoteAbsent(cache, c, now)
  BY DEF NoteFetchFailed, Critical
<1>2. /\ c \in Cids \ Held(cache) /\ now \in U64
      /\ Asks[r] = [stage |-> "asking", cid |-> c, since |-> now]
  BY <1>1, AsksInCritical
<1>3. Asks' = [Asks EXCEPT ![r] = ReadPath!Quiet]
  BY <1>1, AsksEnd DEF IInv
<1>4. Sound(cache) /\ Held(cache) \cap Tombstoned(cache) = {}
  BY DEF IInv, NeverBoth
<1> HIDE DEF c, now
<1>5. CASE NegTtl = 0
  <2>1. SameFacts(cache, cache')
    BY <1>1, <1>5 DEF NoteAbsent, SameFacts
  <2>2. QED
    BY <1>1, <2>1, EndRefines
<1>6. CASE NegTtl # 0
  <2>1. PICK D \in SUBSET (Tombstoned(cache) \ {c}) :
           NotedFacts(cache, c, now, cache', D)
    BY <1>1, <1>2, <1>4, <1>6, NoteFacts
  <2>2. GoneUntil[now] = SatAdd(now, NegTtl) /\ MaxGone = MaxTombs
    BY <1>2, <1>6 DEF GoneUntil, MaxGone
  <2>3. Facts' = [d \in Cids |->
                    IF d = c THEN [kind |-> "gone", until |-> GoneUntil[now]]
                    ELSE IF d \in D THEN NoFact ELSE Facts[d]]
    <3>1. Facts' = [d \in Cids |-> Fact(cache', d)]
      BY DEF Facts, Fact
    <3>2. QED
      BY <2>1, <2>2, <3>1 DEF Facts, NotedFacts
  <2>4. ReadPath!Learn(c, [kind |-> "gone", until |-> GoneUntil[now]], D)
    BY <2>3 DEF ReadPath!Learn, ReadPath!Unknown, NoFact
  <2>5. ReadPath!Gone = Tombstoned(cache)
    BY HereAndGone
  <2>6. \A S : ReadPath!Cardinality(S) = Cardinality(S)
    BY DEF ReadPath!Cardinality, Cardinality
  <2>7. /\ D \in SUBSET (ReadPath!Gone \ {c})
        /\ ReadPath!Cardinality((ReadPath!Gone \ D) \cup {c}) <= MaxGone
        /\ D # {} => /\ ReadPath!Cardinality(D) = 1
                     /\ ReadPath!Cardinality(ReadPath!Gone \cup {c}) > MaxGone
    BY <2>1, <2>2, <2>5, <2>6 DEF NotedFacts
  <2>8. ReadPath!Missing(r)
    <3>1. Asks[r].cid = c /\ Asks[r].since = now /\ Asks[r].stage = "asking"
      BY <1>2
    <3>2. QED
      BY <1>1, <1>3, <2>4, <2>7, <3>1 DEF ReadPath!Missing
  <2>9. QED
    BY <2>8 DEF ReadPath!Next
<1>7. QED
  BY <1>5, <1>6

\* Every step of the HTTP edge is a step of the read path or is not seen.
LEMMA StepRefines ==
    ASSUME IInv, [Next]_vars
    PROVE  [ReadPath!Next]_Mapped
<1>1. \A r \in Conns : KeepsFacts(cache, cache, req[r].cid, clock) /\ SameFacts(cache, cache)
  BY DEF KeepsFacts, SameFacts
<1>2. ASSUME NEW r \in Conns,
             CheckReplay(r) \/ TakeFlight(r) \/ AskLock(r) \/ FetchOk(r) \/ FetchErr(r)
      PROVE  [ReadPath!Next]_Mapped
  <2>1. cache' = cache /\ clock' = clock /\ pc[r] # "idle"
    BY <1>2 DEF CheckReplay, TakeFlight, AskLock, FetchOk, FetchErr
  <2>2. \/ pc[r] = "replay" /\ Goto(r, "checked")
        \/ pc[r] = "cold" /\ Goto(r, "flight")
        \/ pc[r] = "flight" /\ Goto(r, "waiting")
        \/ pc[r] = "fetch" /\ (Goto(r, "insert") \/ Goto(r, "note"))
        \/ End(r)
    BY <1>2 DEF CheckReplay, TakeFlight, AskLock, FetchOk, FetchErr
  <2>3. PICK step \in Steps :
           End(r) \/ (Goto(r, step) /\ Stage(step) = Stage(pc[r]))
    BY <2>2, Stages DEF Critical, Steps, Flying
  <2>4. CASE End(r)
    BY <1>1, <2>1, <2>4, EndRefines
  <2>5. CASE Goto(r, step) /\ Stage(step) = Stage(pc[r])
    BY <1>1, <2>1, <2>5, LookRefines
  <2>6. QED
    BY <2>3, <2>4, <2>5
<1>3. ASSUME NEW r \in Conns,
             FetchTooLarge(r) \/ Serve(r) \/ NotModified(r) \/ Cancel(r)
      PROVE  ReadPath!Next
  <2>1. cache' = cache /\ clock' = clock /\ End(r)
    BY <1>3 DEF FetchTooLarge, Serve, NotModified, Cancel
  <2>2. QED
    BY <1>1, <2>1, EndRefines
<1>4. ASSUME NEW r \in Conns, Step(r)
      PROVE  [ReadPath!Next]_Mapped
  BY <1>2, <1>3, <1>4, CheckNegativeRefines, ReadRefines, RecheckRefines,
     InsertFetchedRefines, NoteFetchFailedRefines DEF Step
<1>5. CASE Tick
  <2>1. clock' = clock + 1 /\ Facts' = Facts /\ Asks' = Asks
    BY <1>5 DEF Tick, handler, Facts, Asks
  <2>2. ReadPath!Tick
    BY <2>1 DEF ReadPath!Tick
  <2>3. QED
    BY <2>2 DEF ReadPath!Next
<1>6. CASE UNCHANGED vars
  <2>1. clock' = clock /\ Facts' = Facts /\ Asks' = Asks
    BY <1>6 DEF vars, handler, Facts, Asks
  <2>2. QED
    BY <2>1 DEF Mapped
<1>7. ASSUME NEW r \in Conns, NEW c \in Cids,
             ArriveOpen(r, c) \/ \E p \in Proofs : ArrivePop(r, c, p)
      PROVE  ReadPath!Next
  BY <1>7, ArriveRefines
<1>8. QED
  BY <1>3, <1>4, <1>5, <1>6, <1>7 DEF Next

\* The HTTP edge implements the read path: whatever the interleaving of
\* requests, clean-ups, cancelled handlers and stale clocks, the origin is
\* asked about a CID by one request at a time and only when nothing still good
\* is known, and an answer is known for its time unless it must make room.
THEOREM ReadPathKept == Spec => ImplementsReads
<1>1. Init => ReadPath!Init
  <2> SUFFICES ASSUME Init PROVE ReadPath!Init
    OBVIOUS
  <2>1. Facts = [c \in Cids |-> ReadPath!Unknown]
    BY DEF Init, Facts, Fact, NoFact, NewCache, EmptyFcn, Held, Tombstoned, ReadPath!Unknown
  <2>2. Asks = [r \in Conns |-> ReadPath!Quiet]
    BY Stages DEF Init, Asks, NoReq, ReadPath!Quiet
  <2>3. QED
    BY <2>1, <2>2 DEF Init, ReadPath!Init
<1>2. IInv /\ [Next]_vars => [ReadPath!Next]_<<clock, Facts, Asks>>
  BY StepRefines DEF Mapped
<1>3. QED
  BY <1>1, <1>2, InvariantHolds, PTL DEF Spec, ImplementsReads, ReadPath!Spec
=============================================================================
