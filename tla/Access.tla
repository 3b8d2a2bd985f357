-------------------------------- MODULE Access --------------------------------
(***************************************************************************)
(* Who may read a private CID over HTTP: proofs of possession              *)
(* (src/src/pop.rs), presigned links (src/src/presign.rs), capability      *)
(* chains, and the order in which `resolve_grant` and `serve_cid`          *)
(* (src/src/server.rs) consult them and the replay guard.                  *)
(*                                                                         *)
(* A signature is the pair of the key that made it and the message it was  *)
(* made over; signatures and headers travel, so a request may present any  *)
(* that was ever made, under any claimed identity and with other fields    *)
(* beside it than were signed.                                             *)
(*                                                                         *)
(* A connection is idle, or its request waits for the replay guard, or the *)
(* request is granted (what follows is HttpEdge).                          *)
(***************************************************************************)
EXTENDS FifoSet, FiniteSets

CONSTANTS
    Cids,          \* the objects
    PublicCids,    \* EdgeState.public
    Keys,          \* node keys: clients and publishers
    ZeroId,        \* the id of an absent or malformed X-Ce-Node-Id
    PresignKeys,   \* ServerState.presign_keys
    Roots,         \* the edge's own id and ServerState.roots
    Chains,        \* the capability chains handed out
    Conns,         \* connections to the edge
    GuardCap,      \* REPLAY_GUARD_CAPACITY
    MaxProofTtl,   \* MAX_PROOF_TTL_SECS
    MaxPresignTtl, \* MAX_PRESIGN_TTL_SECS
    MaxCapsLen,    \* MAX_CAPS_HEX_LEN
    U64Max,        \* the largest u64
    MaxClock,      \* bound on the clock
    MaxMinted,     \* bound on signatures made
    MaxRequests,   \* bound on requests granted
    MaxRestarts,   \* bound on restarts of the edge
    None           \* no header, query or chain, or a malformed one

U64 == 0 .. U64Max
Chain == [issuer : Keys \cup Roots, audience : Keys, read : BOOLEAN, until : U64, len : Nat]

ASSUME AccessAssumption ==
    /\ PublicCids \subseteq Cids
    /\ ZeroId \notin Keys
    /\ PresignKeys \subseteq Keys
    /\ IsFiniteSet(Keys)
    /\ Chains \subseteq Chain
    /\ GuardCap \in Nat \ {0}
    /\ U64Max \in Nat /\ {MaxProofTtl, MaxPresignTtl, MaxClock} \subseteq U64
    /\ {MaxCapsLen, MaxMinted, MaxRequests, MaxRestarts} \subseteq Nat
    /\ None \notin Chain

VARIABLES
    sigs,     \* the signatures made so far
    guard,    \* ServerState.replay
    pc,       \* pc[r]: where connection r is
    req,      \* req[r]: its request
    clock,    \* the second now_secs() returns
    accepted, \* history: the proofs the edge accepted since it started
    granted,  \* history: requests granted
    restarts  \* history: restarts of the edge

vars == <<sigs, guard, pc, req, clock, accepted, granted, restarts>>

SatAdd(a, b) == IF a + b > U64Max THEN U64Max ELSE a + b

-----------------------------------------------------------------------------
(* What is signed.  The domain tag keeps the two kinds of message apart.   *)

\* pop::challenge, for the ability cdn:read
Challenge(requester, cid, nonce, expires) ==
    [domain |-> "pop", requester |-> requester, cid |-> cid, nonce |-> nonce, expires |-> expires]

PresignChallenge(cid, expires) == [domain |-> "presign", cid |-> cid, expires |-> expires]

Sign(key, msg) == [key |-> key, msg |-> msg]
Verify(key, msg, sig) == sig = Sign(key, msg)

\* the proofs minted so far
Proofs == {s \in sigs : s.msg.domain = "pop"}
Links == sigs \ Proofs

-----------------------------------------------------------------------------
(* The checks.                                                             *)

\* both windows: not expired, and not further ahead than the edge honours
InWindow(expires, now, max) == expires >= now /\ expires <= SatAdd(now, max)

\* verify_presign, query a pair of expiry and signature
VerifyPresign(query, cid, now) ==
    /\ query # None
    /\ InWindow(query.expires, now, MaxPresignTtl)
    /\ \E key \in PresignKeys : Verify(key, PresignChallenge(cid, query.expires), query.sig)

\* Wrong variant: a proof made for one object opens another.
VerifyPopAnyCid(proof, requester, cid, now) ==
    /\ proof # None
    /\ InWindow(proof.expires, now, MaxProofTtl)
    /\ \E c \in Cids :
          Verify(requester, Challenge(requester, c, proof.nonce, proof.expires), proof.sig)

\* verify_pop, proof a triple of expiry, nonce and signature
VerifyPop(proof, requester, cid, now) ==
    /\ proof # None
    /\ InWindow(proof.expires, now, MaxProofTtl)
    /\ Verify(requester, Challenge(requester, cid, proof.nonce, proof.expires), proof.sig)

\* ce_iam_core::authorize with never_revoked
Authorize(requester, now, chain) ==
    /\ chain.issuer \in Roots
    /\ chain.audience = requester
    /\ chain.read
    /\ now <= chain.until

\* resolve_grant
ResolveGrant(q, now) ==
    IF q.cid \in PublicCids THEN "Public"
    ELSE IF VerifyPresign(q.query, q.cid, now) THEN "Presigned"
    ELSE IF /\ VerifyPop(q.proof, q.requester, q.cid, now)
            /\ q.chain # None
            /\ q.chain.len <= MaxCapsLen
            /\ Authorize(q.requester, now, q.chain)
    THEN "PopAndCap"
    ELSE "Denied"

-----------------------------------------------------------------------------
NoReq == [cid |-> None, requester |-> ZeroId, proof |-> None, query |-> None, chain |-> None,
          at |-> 0]

Init ==
    /\ sigs = {}
    /\ guard = NewFifoSet
    /\ pc = [r \in Conns |-> "idle"]
    /\ req = [r \in Conns |-> NoReq]
    /\ clock = 0
    /\ accepted = << >>
    /\ granted = 0
    /\ restarts = 0

edge == <<guard, pc, req, accepted, granted, restarts>>

Minted(sig) ==
    /\ Cardinality(sigs) < MaxMinted
    /\ sigs' = sigs \cup {sig}
    /\ UNCHANGED <<edge, clock>>

\* gen_nonce: no proof has it yet
FreshNonce == Cardinality(Proofs)

\* Wrong variant: every proof has the same nonce.
MintProofNonce0(key, cid, expires) == Minted(Sign(key, Challenge(key, cid, 0, expires)))

\* mint_proof: the client chooses the expiry
MintProof(key, cid, expires) == Minted(Sign(key, Challenge(key, cid, FreshNonce, expires)))

\* presign_query
PresignQuery(key, cid, expires) == Minted(Sign(key, PresignChallenge(cid, expires)))

\* Wrong variant: the expiry is past the end of u64.
PresignPast(key, cid, ttl) == PresignQuery(key, cid, clock + ttl)

\* cmd_presign
Presign(key, cid, ttl) == PresignQuery(key, cid, SatAdd(clock, ttl))

\* What requests present: a signature beside the expiry and the nonce it was
\* made over or those of another.  A request for a public CID presents
\* nothing, for nothing would be looked at; one for a private CID a link or a
\* proof, for with both it is decided by the link alone if that is good and
\* as if without it otherwise.  `handle` sends here only a GET or HEAD of
\* /cdn/ and an acceptable CID; every other request it answers from what it
\* reads, without a change of state.
Expiries == {s.msg.expires : s \in sigs}
Nonces == {s.msg.nonce : s \in Proofs}
Queries == [expires : Expiries, sig : sigs]
Headers == [expires : Expiries, nonce : Nonces, sig : sigs]
Presented ==
    [cid : PublicCids, requester : {ZeroId}, proof : {None}, query : {None}, chain : {None},
     at : {clock}]
    \cup
    [cid : Cids \ PublicCids, requester : {ZeroId}, proof : {None}, query : Queries,
     chain : {None}, at : {clock}]
    \cup
    [cid : Cids \ PublicCids, requester : Keys \cup {ZeroId}, proof : Headers, query : {None},
     chain : Chains \cup {None}, at : {clock}]

\* serve_cid up to the replay guard, or to the 403 that leaves no trace
Arrive(r, q) ==
    LET grant == ResolveGrant(q, clock)
    IN  /\ pc[r] = "idle"
        /\ granted < MaxRequests
        /\ grant # "Denied"
        /\ pc' = [pc EXCEPT ![r] = IF grant = "PopAndCap" THEN "replay" ELSE "granted"]
        /\ req' = [req EXCEPT ![r] = q]
        /\ granted' = granted + 1
        /\ UNCHANGED <<sigs, guard, clock, accepted, restarts>>

End(r) ==
    /\ pc' = [pc EXCEPT ![r] = "idle"]
    /\ req' = [req EXCEPT ![r] = NoReq]

\* what the guard remembers of a proof
GuardKey(q) == <<q.requester, q.proof.nonce>>

\* verify_pop_once, with the `now` of the arrival
CheckReplay(r) ==
    /\ pc[r] = "replay"
    /\ IF /\ VerifyPop(req[r].proof, req[r].requester, req[r].cid, req[r].at)
          /\ IsNew(guard, GuardKey(req[r]))
       THEN /\ guard' = Accept(guard, GuardKey(req[r]), GuardCap)
            /\ accepted' = Append(accepted, [sig |-> req[r].proof.sig, at |-> req[r].at])
            /\ pc' = [pc EXCEPT ![r] = "granted"]
            /\ UNCHANGED req
       ELSE End(r) /\ UNCHANGED <<guard, accepted>>
    /\ UNCHANGED <<sigs, clock, granted, restarts>>

\* the answer is sent, or the client goes away first
Finish(r) ==
    /\ pc[r] # "idle"
    /\ End(r)
    /\ UNCHANGED <<sigs, guard, clock, accepted, granted, restarts>>

\* the edge starts anew, with an empty guard
Restart ==
    /\ restarts < MaxRestarts
    /\ restarts' = restarts + 1
    /\ guard' = NewFifoSet
    /\ accepted' = << >>
    /\ pc' = [r \in Conns |-> "idle"]
    /\ req' = [r \in Conns |-> NoReq]
    /\ UNCHANGED <<sigs, clock, granted>>

Tick ==
    /\ clock < MaxClock
    /\ clock' = clock + 1
    /\ UNCHANGED <<sigs, edge>>

Next ==
    \/ \E key \in Keys, cid \in Cids :
          \/ \E expires \in U64 : MintProof(key, cid, expires)
          \/ \E ttl \in U64 : Presign(key, cid, ttl)
    \/ \E r \in Conns :
          \/ \E q \in Presented : Arrive(r, q)
          \/ CheckReplay(r)
          \/ Finish(r)
    \/ Restart
    \/ Tick

Spec == Init /\ [][Next]_vars

-----------------------------------------------------------------------------
(* Properties.                                                             *)

Message ==
    [domain : {"pop"}, requester : Keys, cid : Cids, nonce : Nat, expires : U64]
    \cup [domain : {"presign"}, cid : Cids, expires : U64]
Signature == [key : Keys, msg : Message]

\* The shape of the state: every expiry that is signed is a u64, also that of
\* a link whose ttl reaches past the end of time; the guard keeps its queue
\* and its set together and within capacity.
TypeOK ==
    /\ sigs \subseteq Signature
    /\ guard.seen \subseteq Keys \X Nat
    /\ {guard.order[i] : i \in 1 .. Len(guard.order)} = guard.seen
    /\ Len(guard.order) <= GuardCap
    /\ pc \in [Conns -> {"idle", "replay", "granted"}]
    /\ \A r \in Conns : pc[r] # "idle" => req[r].cid \in Cids /\ req[r].at <= clock
    /\ clock \in 0 .. MaxClock
    /\ accepted \in Seq([sig : Signature, at : U64])
    /\ granted \in 0 .. MaxRequests
    /\ restarts \in 0 .. MaxRestarts

\* a publisher the edge trusts signed a link to the object of q that was good
\* when q arrived and at most MaxPresignTtl from its end
LinkedBy(q) ==
    \E s \in Links :
        /\ s.key \in PresignKeys
        /\ s.msg.cid = q.cid
        /\ q.at <= s.msg.expires /\ s.msg.expires <= q.at + MaxPresignTtl

\* the client whose name q bears signed a proof for just this object, good
\* for at most MaxProofTtl more, and a root gave this client a chain
ProvedBy(q) ==
    /\ \E s \in Proofs :
          /\ s.key = q.requester
          /\ s.msg.cid = q.cid
          /\ q.at <= s.msg.expires /\ s.msg.expires <= q.at + MaxProofTtl
    /\ \E c \in Chains : c.audience = q.requester /\ c.issuer \in Roots /\ q.at <= c.until

\* Private content goes out on somebody's authority only: however proofs,
\* links and chains leak, are mixed or presented under other names, for other
\* objects and at other times, a granted request for a private CID is backed
\* by a link or by a proof and a chain that were made for it.
PrivateOnlyOnAuthority ==
    \A r \in Conns :
        pc[r] = "granted" /\ req[r].cid \notin PublicCids => LinkedBy(req[r]) \/ ProvedBy(req[r])

\* A proof is accepted twice between two restarts only in a burst: the edge
\* accepted a full capacity of other proofs in between, and the two requests
\* arrived within MaxProofTtl of each other (pop.rs:156, "which the short
\* proof TTL makes a non-issue").
ReplayNeedsBurst ==
    \A i, j \in 1 .. Len(accepted) :
        i < j /\ accepted[i].sig = accepted[j].sig =>
            /\ Cardinality({accepted[k].sig : k \in i + 1 .. j - 1}) >= GuardCap
            /\ accepted[j].at <= accepted[i].at + MaxProofTtl
            /\ accepted[i].at <= accepted[j].at + MaxProofTtl

\* A request that resolve_grant let through is turned away as a replay only if
\* its very proof was accepted before: what the guard remembers of proofs
\* (requester and nonce) never takes one for another, and a proof that was
\* refused, or whose client left before the guard saw it, can still be used.
NoFalseReplay ==
    \A r \in Conns :
        pc[r] = "replay" /\ ~IsNew(guard, GuardKey(req[r])) =>
            \E i \in 1 .. Len(accepted) : accepted[i].sig = req[r].proof.sig
===============================================================================
