---------------------------- MODULE AccessProofs ----------------------------
(***************************************************************************)
(* Access to private content, for any number of CIDs, keys, connections    *)
(* and chains, any capacity of the guard and any windows.                  *)
(*                                                                         *)
(* Why the invariant is stronger than the properties: the guard remembers  *)
(* only names and nonces, so that it says anything about proofs rests on   *)
(* the nonces telling the proofs apart (NonceInv) and on the guard being   *)
(* the tail of what was accepted (GuardInv); what a request may rely on    *)
(* was checked before an await and must still be true after it (ReqInv).   *)
(***************************************************************************)
EXTENDS Access, FiniteSetTheorems, FunctionTheorems, SequenceTheorems, TLAPS

-----------------------------------------------------------------------------
(* The bounded set as the tail of the sequence of accepted keys.           *)

\* F holds the last keys of A, all of them unless it is full
Window(F, A, K, cap) ==
    /\ F.order \in Seq(K)
    /\ Len(F.order) <= cap /\ Len(F.order) <= Len(A)
    /\ Len(F.order) < cap => Len(F.order) = Len(A)
    /\ \A i \in 1 .. Len(F.order) : F.order[i] = A[Len(A) - Len(F.order) + i]
    /\ \A i, j \in 1 .. Len(F.order) : F.order[i] = F.order[j] => i = j
    /\ F.seen = {F.order[i] : i \in 1 .. Len(F.order)}

\* A key that is new keeps the window a window, with the key at its end.
LEMMA AcceptWindow ==
    ASSUME NEW K, NEW F, NEW A \in Seq(K), NEW key \in K, NEW cap \in Nat \ {0},
           Window(F, A, K, cap), IsNew(F, key)
    PROVE  Window(Accept(F, key, cap), Append(A, key), K, cap)
<1> DEFINE full == Append(F.order, key)
           n == Len(F.order)
           B == Append(A, key)
<1>1. F.order \in Seq(K) /\ n \in Nat /\ n <= cap /\ n <= Len(A) /\ Len(A) \in Nat
  BY DEF Window
<1>2. /\ full \in Seq(K) /\ Len(full) = n + 1 /\ full # << >>
      /\ \A i \in 1 .. n : full[i] = F.order[i]
      /\ full[n + 1] = key
  BY <1>1, AppendProperties
<1>3. /\ B \in Seq(K) /\ Len(B) = Len(A) + 1
      /\ \A i \in 1 .. Len(A) : B[i] = A[i]
      /\ B[Len(A) + 1] = key
  BY AppendProperties
<1> HIDE DEF full, n, B
<1>4. \A i \in 1 .. n + 1 : full[i] = B[Len(B) - (n + 1) + i]
  <2>1. \A i \in 1 .. n : F.order[i] = A[Len(A) - n + i]
    BY DEF Window, n
  <2>2. ASSUME NEW i \in 1 .. n + 1 PROVE full[i] = B[Len(B) - (n + 1) + i]
    <3>1. CASE i = n + 1
      BY <1>1, <1>2, <1>3, <3>1
    <3>2. CASE i \in 1 .. n
      <4>1. Len(A) - n + i \in 1 .. Len(A) /\ Len(B) - (n + 1) + i = Len(A) - n + i
        BY <1>1, <1>3, <3>2
      <4>2. QED
        BY <1>2, <1>3, <2>1, <3>2, <4>1
    <3>3. QED
      BY <1>1, <3>1, <3>2
  <2>3. QED
    BY <2>2
<1>5. \A i, j \in 1 .. n + 1 : full[i] = full[j] => i = j
  <2>1. \A i \in 1 .. n : full[i] # key
    BY <1>2 DEF Window, IsNew, n
  <2>2. QED
    <3> SUFFICES ASSUME NEW i \in 1 .. n + 1, NEW j \in 1 .. n + 1, full[i] = full[j]
                 PROVE  i = j
      OBVIOUS
    <3>1. CASE i = n + 1 /\ j = n + 1
      BY <3>1
    <3>2. CASE i \in 1 .. n /\ j = n + 1
      BY <1>2, <2>1, <3>2
    <3>3. CASE i = n + 1 /\ j \in 1 .. n
      BY <1>2, <2>1, <3>3
    <3>4. CASE i \in 1 .. n /\ j \in 1 .. n
      BY <1>2, <3>4 DEF Window, n
    <3>5. QED
      BY <1>1, <3>1, <3>2, <3>3, <3>4
<1>6. F.seen \cup {key} = {full[i] : i \in 1 .. n + 1}
  <2>1. F.seen = {F.order[i] : i \in 1 .. n}
    BY DEF Window, n
  <2>2. ASSUME NEW x \in F.seen \cup {key} PROVE \E i \in 1 .. n + 1 : x = full[i]
    <3>1. CASE x = key
      BY <1>1, <1>2, <3>1
    <3>2. CASE x # key
      <4>1. PICK i \in 1 .. n : x = F.order[i]
        BY <2>1, <3>2
      <4>2. QED
        BY <1>1, <1>2, <4>1
    <3>3. QED
      BY <3>1, <3>2
  <2>3. ASSUME NEW i \in 1 .. n + 1 PROVE full[i] \in F.seen \cup {key}
    <3>1. CASE i = n + 1
      BY <1>2, <3>1
    <3>2. CASE i \in 1 .. n
      BY <1>2, <2>1, <3>2
    <3>3. QED
      BY <1>1, <3>1, <3>2
  <2>4. QED
    BY <2>2, <2>3
<1>7. CASE ~(Len(full) > cap)
  <2> DEFINE G == [seen |-> F.seen \cup {key}, order |-> full]
  <2>1. Accept(F, key, cap) = G
    BY <1>7 DEF Accept, full
  <2>2. n = Len(A)
    BY <1>1, <1>2, <1>7 DEF Window, n
  <2>3. Window(G, B, K, cap)
    <3>1. G.order = full /\ G.seen = {full[i] : i \in 1 .. n + 1}
      BY <1>6
    <3> HIDE DEF G
    <3>2. G.order \in Seq(K) /\ Len(G.order) = n + 1
      BY <1>2, <3>1
    <3>3. \A l \in 1 .. n + 1 : G.order[l] = B[Len(B) - (n + 1) + l]
      BY <1>4, <3>1
    <3>4. \A l, k \in 1 .. n + 1 : G.order[l] = G.order[k] => l = k
      BY <1>5, <3>1
    <3>5. G.seen = {G.order[l] : l \in 1 .. n + 1}
      BY <3>1
    <3>6. Len(G.order) <= cap /\ Len(G.order) = Len(B)
      BY <1>1, <1>2, <1>3, <1>7, <2>2, <3>2
    <3>7. Len(B) \in Nat
      BY <1>3
    <3>8. QED
      BY <3>2, <3>3, <3>4, <3>5, <3>6, <3>7 DEF Window
  <2>4. QED
    BY <2>1, <2>3 DEF B
<1>8. CASE Len(full) > cap
  <2> DEFINE rest == Tail(full)
             G == [seen |-> (F.seen \cup {key}) \ {Head(full)}, order |-> rest]
  <2>1. Accept(F, key, cap) = G
    BY <1>8 DEF Accept, full
  <2>2. n = cap
    BY <1>1, <1>2, <1>8
  <2>3. /\ rest \in Seq(K) /\ Len(rest) = n
        /\ \A i \in 1 .. n : rest[i] = full[i + 1]
        /\ Head(full) = full[1]
    <3>1. /\ Tail(full) \in Seq(K) /\ Len(Tail(full)) = Len(full) - 1
          /\ \A i \in 1 .. Len(Tail(full)) : Tail(full)[i] = full[i + 1]
      BY <1>2, HeadTailProperties
    <3>2. Head(full) = full[1]
      BY <1>2
    <3>3. QED
      BY <1>1, <1>2, <3>1, <3>2
  <2> HIDE DEF rest
  <2>4. ASSUME NEW i \in 1 .. n PROVE rest[i] = B[Len(B) - n + i]
    <3>1. i + 1 \in 1 .. n + 1 /\ Len(B) - (n + 1) + (i + 1) = Len(B) - n + i
      BY <1>1, <1>3
    <3>2. QED
      BY <1>4, <2>3, <3>1
  <2>5. \A i, j \in 1 .. n : rest[i] = rest[j] => i = j
    BY <1>1, <1>5, <2>3
  <2>6. (F.seen \cup {key}) \ {Head(full)} = {rest[i] : i \in 1 .. n}
    <3>1. ASSUME NEW x \in (F.seen \cup {key}) \ {Head(full)}
          PROVE  \E i \in 1 .. n : x = rest[i]
      <4>1. PICK i \in 1 .. n + 1 : x = full[i]
        BY <1>6
      <4>2. i - 1 \in 1 .. n
        BY <1>1, <2>3, <4>1
      <4>3. rest[i - 1] = full[i]
        BY <1>1, <2>3, <4>2
      <4>4. QED
        BY <4>1, <4>2, <4>3
    <3>2. ASSUME NEW i \in 1 .. n PROVE rest[i] \in (F.seen \cup {key}) \ {Head(full)}
      <4>1. rest[i] = full[i + 1] /\ i + 1 \in 1 .. n + 1 /\ 1 \in 1 .. n + 1 /\ i + 1 # 1
        BY <1>1, <2>3
      <4>2. full[i + 1] # full[1]
        BY <1>5, <4>1
      <4>3. QED
        BY <1>6, <2>3, <4>1, <4>2
    <3>3. QED
      BY <3>1, <3>2
  <2>7. Window(G, B, K, cap)
    <3>1. Len(rest) <= cap /\ Len(rest) <= Len(B) /\ ~(Len(rest) < cap)
      BY <1>1, <1>3, <2>2, <2>3
    <3>2. G.order = rest /\ G.seen = {rest[i] : i \in 1 .. n}
      BY <2>6
    <3> HIDE DEF G
    <3>3. /\ G.order \in Seq(K) /\ Len(G.order) = n
          /\ \A l \in 1 .. n : G.order[l] = B[Len(B) - n + l]
          /\ \A l, k \in 1 .. n : G.order[l] = G.order[k] => l = k
          /\ G.seen = {G.order[l] : l \in 1 .. n}
      <4>1. G.order \in Seq(K) /\ Len(G.order) = n
        BY <2>3, <3>2
      <4>2. \A l \in 1 .. n : G.order[l] = B[Len(B) - n + l]
        BY <2>4, <3>2
      <4>3. \A l, k \in 1 .. n : G.order[l] = G.order[k] => l = k
        BY <2>5, <3>2
      <4>4. G.seen = {G.order[l] : l \in 1 .. n}
        BY <3>2
      <4>5. QED
        BY <4>1, <4>2, <4>3, <4>4
    <3>4. Len(G.order) <= cap /\ Len(G.order) <= Len(B) /\ ~(Len(G.order) < cap)
      BY <3>1, <3>2
    <3>5. QED
      BY <3>3, <3>4 DEF Window
  <2>8. QED
    BY <2>1, <2>7 DEF B
<1>9. QED
  BY <1>7, <1>8

-----------------------------------------------------------------------------
(* The inductive invariant.                                                *)

StateInv ==
    /\ sigs \subseteq Signature /\ IsFiniteSet(sigs)
    /\ pc \in [Conns -> {"idle", "replay", "granted"}]
    /\ DOMAIN req = Conns
    /\ clock \in 0 .. MaxClock
    /\ granted \in 0 .. MaxRequests
    /\ restarts \in 0 .. MaxRestarts

NonceInv ==
    \A s \in Proofs :
        /\ s.msg.nonce < Cardinality(Proofs)
        /\ \A t \in Proofs : s.msg.nonce = t.msg.nonce => s = t

\* the proof s is good for at most MaxProofTtl from the time `at`
GoodAt(s, at) ==
    s \in Proofs /\ at <= s.msg.expires /\ s.msg.expires <= at + MaxProofTtl

ReqInv ==
    \A r \in Conns : pc[r] # "idle" =>
        /\ req[r].cid \in Cids
        /\ req[r].at \in U64 /\ req[r].at <= clock
        /\ req[r].cid \notin PublicCids => LinkedBy(req[r]) \/ ProvedBy(req[r])
        /\ pc[r] = "replay" =>
              /\ GoodAt(req[r].proof.sig, req[r].at)
              /\ req[r].proof.sig.key = req[r].requester
              /\ req[r].proof.sig.msg.nonce = req[r].proof.nonce

KeyOf(s) == <<s.key, s.msg.nonce>>

AcceptedInv ==
    /\ accepted \in Seq([sig : Signature, at : U64])
    /\ \A i \in 1 .. Len(accepted) : GoodAt(accepted[i].sig, accepted[i].at)

AcceptedKeys == [i \in 1 .. Len(accepted) |-> KeyOf(accepted[i].sig)]

GuardInv == Window(guard, AcceptedKeys, Keys \X Nat, GuardCap)

\* ReplayNeedsBurst of a sequence A of accepted proofs
BurstIn(A) ==
    \A i, j \in 1 .. Len(A) :
        i < j /\ A[i].sig = A[j].sig =>
            /\ Cardinality({A[k].sig : k \in i + 1 .. j - 1}) >= GuardCap
            /\ A[j].at <= A[i].at + MaxProofTtl
            /\ A[i].at <= A[j].at + MaxProofTtl

IInv == StateInv /\ NonceInv /\ ReqInv /\ AcceptedInv /\ GuardInv /\ ReplayNeedsBurst

\* The constants as the provers want them.
LEMMA ConstantFacts ==
    /\ U64Max \in Nat /\ MaxProofTtl \in Nat /\ MaxPresignTtl \in Nat
    /\ MaxClock \in Nat /\ MaxClock <= U64Max
    /\ MaxMinted \in Nat /\ MaxRequests \in Nat /\ MaxRestarts \in Nat
    /\ GuardCap \in Nat \ {0}
    /\ PublicCids \subseteq Cids /\ PresignKeys \subseteq Keys
  BY AccessAssumption DEF U64

\* A proof is a signed challenge.
LEMMA ProofShape ==
    ASSUME sigs \subseteq Signature, NEW s \in Proofs
    PROVE  /\ s \in sigs /\ s \in Signature /\ s.key \in Keys
           /\ s.msg.nonce \in Nat /\ s.msg.expires \in U64
<1>1. s \in sigs /\ s.msg.domain = "pop" /\ s.key \in Keys /\ s.msg \in Message
  BY DEF Proofs, Signature
<1>2. s.msg \in [domain : {"pop"}, requester : Keys, cid : Cids, nonce : Nat, expires : U64]
  BY <1>1 DEF Message
<1>3. QED
  BY <1>1, <1>2

\* More signatures leave every proof a proof and every link a link, so what
\* a request relied on before an await is still true after it.
LEMMA RequestsKeep ==
    ASSUME ReqInv, sigs \subseteq sigs', clock \in Nat, clock' \in Nat, clock <= clock',
           \A r \in Conns : pc'[r] # "idle" =>
               /\ pc[r] # "idle" /\ req'[r] = req[r]
               /\ pc'[r] = "replay" => pc[r] = "replay"
    PROVE  ReqInv'
<1>1. Proofs \subseteq Proofs' /\ Links \subseteq Links'
  BY DEF Proofs, Links
<1> SUFFICES ASSUME NEW r \in Conns, pc'[r] # "idle"
             PROVE  (/\ req[r].cid \in Cids
                     /\ req[r].at \in U64 /\ req[r].at <= clock
                     /\ req[r].cid \notin PublicCids => LinkedBy(req[r]) \/ ProvedBy(req[r])
                     /\ pc[r] = "replay" =>
                           /\ GoodAt(req[r].proof.sig, req[r].at)
                           /\ req[r].proof.sig.key = req[r].requester
                           /\ req[r].proof.sig.msg.nonce = req[r].proof.nonce)'
  BY DEF ReqInv
<1>2. req'[r] = req[r] /\ pc[r] # "idle"
  OBVIOUS
<1>3. req'[r].cid \in Cids /\ req'[r].at \in U64 /\ req'[r].at <= clock'
  BY <1>2, ConstantFacts DEF ReqInv, U64
<1>4. (req[r].cid \notin PublicCids => LinkedBy(req[r]) \/ ProvedBy(req[r]))'
  <2> SUFFICES ASSUME req[r].cid \notin PublicCids PROVE (LinkedBy(req[r]) \/ ProvedBy(req[r]))'
    BY <1>2
  <2>1. CASE LinkedBy(req[r])
    BY <1>1, <1>2, <2>1 DEF LinkedBy
  <2>2. CASE ProvedBy(req[r])
    BY <1>1, <1>2, <2>2 DEF ProvedBy
  <2>3. QED
    BY <1>2, <2>1, <2>2 DEF ReqInv
<1>5. ASSUME pc'[r] = "replay"
      PROVE  (/\ GoodAt(req[r].proof.sig, req[r].at)
              /\ req[r].proof.sig.key = req[r].requester
              /\ req[r].proof.sig.msg.nonce = req[r].proof.nonce)'
  BY <1>1, <1>2, <1>5 DEF ReqInv, GoodAt
<1>6. QED
  BY <1>3, <1>4, <1>5

\* The same for the proofs that were accepted.
LEMMA AcceptedKeeps ==
    ASSUME AcceptedInv, sigs \subseteq sigs', UNCHANGED accepted
    PROVE  AcceptedInv'
<1>1. Proofs \subseteq Proofs'
  BY DEF Proofs
<1>2. QED
  BY <1>1 DEF AcceptedInv, GoodAt

\* Steps that leave the guard and the accepted proofs alone.
LEMMA GuardKeeps ==
    ASSUME GuardInv, ReplayNeedsBurst, UNCHANGED <<guard, accepted>>
    PROVE  GuardInv' /\ ReplayNeedsBurst'
<1>1. AcceptedKeys' = AcceptedKeys
  BY DEF AcceptedKeys, KeyOf
<1>2. GuardInv'
  BY <1>1, Zenon DEF GuardInv
<1>3. ReplayNeedsBurst'
  <2>1. (ReplayNeedsBurst <=> BurstIn(accepted)) /\ (ReplayNeedsBurst' <=> BurstIn(accepted'))
    BY DEF ReplayNeedsBurst, BurstIn
  <2>2. QED
    BY <2>1
<1>4. QED
  BY <1>2, <1>3

\* Steps that make no signature.
LEMMA NoncesKeep ==
    ASSUME NonceInv, UNCHANGED sigs
    PROVE  NonceInv'
  BY DEF NonceInv, Proofs

\* A proof that is made has a nonce no other proof has.
LEMMA MintKeepsNonces ==
    ASSUME IInv, NEW key \in Keys, NEW cid \in Cids, NEW expires \in U64,
           MintProof(key, cid, expires)
    PROVE  NonceInv' /\ StateInv'
<1> DEFINE s0 == Sign(key, Challenge(key, cid, FreshNonce, expires))
<1>1. sigs' = sigs \cup {s0} /\ UNCHANGED <<edge, clock>>
  BY DEF MintProof, Minted
<1>2. sigs \subseteq Signature /\ IsFiniteSet(sigs)
  BY DEF IInv, StateInv
<1>3. IsFiniteSet(Proofs) /\ Cardinality(Proofs) \in Nat
  BY <1>2, FS_Subset, FS_CardinalityType DEF Proofs
<1>4. /\ s0.key = key /\ s0.msg.domain = "pop" /\ s0.msg.nonce = Cardinality(Proofs)
      /\ s0 \in Signature
  BY <1>3 DEF Sign, Challenge, FreshNonce, Signature, Message
<1> HIDE DEF s0
<1>5. Proofs' = Proofs \cup {s0}
  BY <1>1, <1>4 DEF Proofs
<1>6. s0 \notin Proofs
  BY <1>3, <1>4 DEF IInv, NonceInv
<1>7. Cardinality(Proofs') = Cardinality(Proofs) + 1
  BY <1>3, <1>5, <1>6, FS_AddElement
<1>8. NonceInv'
  <2>1. \A s \in Proofs : s.msg.nonce \in Nat /\ s.msg.nonce < Cardinality(Proofs)
    BY <1>2, ProofShape DEF IInv, NonceInv
  <2>2. ASSUME NEW s \in Proofs'
        PROVE  /\ s.msg.nonce < Cardinality(Proofs')
               /\ \A t \in Proofs' : s.msg.nonce = t.msg.nonce => s = t
    <3>1. CASE s = s0
      BY <1>3, <1>4, <1>5, <1>7, <2>1, <3>1
    <3>2. CASE s \in Proofs
      BY <1>3, <1>4, <1>5, <1>7, <2>1, <3>2 DEF IInv, NonceInv
    <3>3. QED
      BY <1>5, <3>1, <3>2
  <2>3. QED
    BY <2>2 DEF NonceInv
<1>9. StateInv'
  BY <1>1, <1>2, <1>4, FS_AddElement DEF IInv, StateInv, edge
<1>10. QED
  BY <1>8, <1>9

\* A link is no proof, and its expiry is a u64 whatever the ttl.
LEMMA PresignKeepsNonces ==
    ASSUME IInv, NEW key \in Keys, NEW cid \in Cids, NEW ttl \in U64, Presign(key, cid, ttl)
    PROVE  NonceInv' /\ StateInv'
<1> DEFINE s0 == Sign(key, PresignChallenge(cid, SatAdd(clock, ttl)))
<1>1. sigs' = sigs \cup {s0} /\ UNCHANGED <<edge, clock>>
  BY DEF Presign, PresignQuery, Minted
<1>2. sigs \subseteq Signature /\ IsFiniteSet(sigs) /\ clock \in 0 .. MaxClock
  BY DEF IInv, StateInv
<1>3. SatAdd(clock, ttl) \in U64
  BY <1>2, ConstantFacts DEF SatAdd, U64
<1>4. s0.msg.domain = "presign" /\ s0 \in Signature
  BY <1>3 DEF Sign, PresignChallenge, Signature, Message
<1> HIDE DEF s0
<1>5. Proofs' = Proofs
  BY <1>1, <1>4 DEF Proofs
<1>6. NonceInv'
  BY <1>5 DEF IInv, NonceInv
<1>7. StateInv'
  BY <1>1, <1>2, <1>4, FS_AddElement DEF IInv, StateInv, edge
<1>8. QED
  BY <1>6, <1>7
\* What a request presents is made of signatures and chains that exist.
LEMMA PresentedShape ==
    ASSUME NEW q \in Presented
    PROVE  /\ q.cid \in Cids /\ q.at = clock
           /\ q.query # None => q.query.sig \in sigs
           /\ q.proof # None => q.proof.sig \in sigs
           /\ q.chain # None => q.chain \in Chains
  BY ConstantFacts DEF Presented, Queries, Headers

\* The windows, without the saturation.
LEMMA WindowBound ==
    ASSUME NEW expires \in Nat, NEW now \in Nat, NEW max \in Nat, InWindow(expires, now, max)
    PROVE  now <= expires /\ expires <= now + max
  BY ConstantFacts DEF InWindow, SatAdd

\* The messages signed are told apart by their domain.
LEMMA SignatureShape ==
    ASSUME sigs \subseteq Signature, NEW s \in sigs
    PROVE  s.msg.expires \in U64
<1>1. s.msg \in Message
  BY DEF Signature
<1>2. QED
  BY <1>1 DEF Message

\* A presigned link that is honoured was signed for this object by a
\* publisher the edge trusts.
LEMMA PresignedMeansLinked ==
    ASSUME StateInv, NEW q \in Presented, VerifyPresign(q.query, q.cid, clock)
    PROVE  LinkedBy(q)
<1>1. q.query # None /\ InWindow(q.query.expires, clock, MaxPresignTtl)
  BY DEF VerifyPresign
<1>2. PICK key \in PresignKeys : q.query.sig = Sign(key, PresignChallenge(q.cid, q.query.expires))
  BY DEF VerifyPresign, Verify
<1> DEFINE s == q.query.sig
<1>3. /\ s.key = key /\ s.msg.domain = "presign"
      /\ s.msg.cid = q.cid /\ s.msg.expires = q.query.expires
  BY <1>2 DEF Sign, PresignChallenge
<1>4. s \in sigs /\ q.at = clock
  BY <1>1, PresentedShape
<1> HIDE DEF s
<1>5. s \in Links
  BY <1>3, <1>4 DEF Links, Proofs
<1>6. s.msg.expires \in Nat /\ clock \in Nat
  BY <1>4, SignatureShape, ConstantFacts DEF StateInv, U64
<1>7. q.at <= s.msg.expires /\ s.msg.expires <= q.at + MaxPresignTtl
  BY <1>1, <1>3, <1>4, <1>6, WindowBound, ConstantFacts
<1>8. QED
  BY <1>3, <1>5, <1>7 DEF LinkedBy

\* A proof that verifies was signed by the client whose name it bears, for
\* this object, with the nonce and the expiry beside it.
LEMMA VerifiedMeansProved ==
    ASSUME StateInv, NEW q \in Presented, VerifyPop(q.proof, q.requester, q.cid, clock)
    PROVE  /\ GoodAt(q.proof.sig, q.at)
           /\ q.proof.sig.key = q.requester
           /\ q.proof.sig.msg.cid = q.cid
           /\ q.proof.sig.msg.nonce = q.proof.nonce
<1> DEFINE s == q.proof.sig
<1>1. /\ q.proof # None /\ InWindow(q.proof.expires, clock, MaxProofTtl)
      /\ s = Sign(q.requester, Challenge(q.requester, q.cid, q.proof.nonce, q.proof.expires))
  BY DEF VerifyPop, Verify
<1>2. /\ s.key = q.requester /\ s.msg.domain = "pop" /\ s.msg.cid = q.cid
      /\ s.msg.nonce = q.proof.nonce /\ s.msg.expires = q.proof.expires
  BY <1>1 DEF Sign, Challenge
<1>3. s \in sigs /\ q.at = clock
  BY <1>1, PresentedShape
<1> HIDE DEF s
<1>4. s \in Proofs
  BY <1>2, <1>3 DEF Proofs
<1>5. s.msg.expires \in Nat /\ clock \in Nat
  BY <1>3, SignatureShape, ConstantFacts DEF StateInv, U64
<1>6. q.at <= s.msg.expires /\ s.msg.expires <= q.at + MaxProofTtl
  BY <1>1, <1>2, <1>3, <1>5, WindowBound, ConstantFacts
<1>7. QED
  BY <1>2, <1>4, <1>6 DEF GoodAt, s

\* A request that resolve_grant lets through has the authority it needs, and
\* one that goes on to the guard a proof that is good.
LEMMA ArriveKeepsRequests ==
    ASSUME IInv, NEW r \in Conns, NEW q \in Presented, Arrive(r, q)
    PROVE  ReqInv'
<1> DEFINE grant == ResolveGrant(q, clock)
<1>1. /\ pc' = [pc EXCEPT ![r] = IF grant = "PopAndCap" THEN "replay" ELSE "granted"]
      /\ req' = [req EXCEPT ![r] = q] /\ grant # "Denied"
      /\ UNCHANGED <<sigs, clock>>
  BY DEF Arrive
<1>2. /\ StateInv /\ ReqInv /\ clock \in U64 /\ clock <= clock
      /\ pc \in [Conns -> {"idle", "replay", "granted"}] /\ DOMAIN req = Conns
  BY ConstantFacts DEF IInv, StateInv, U64
<1>3. q.cid \in Cids /\ q.at = clock
  BY PresentedShape
<1>4. q.cid \in PublicCids => grant = "Public"
  BY DEF ResolveGrant
<1>5. ASSUME q.cid \notin PublicCids, VerifyPresign(q.query, q.cid, clock)
      PROVE  grant = "Presigned" /\ LinkedBy(q)
  BY <1>2, <1>5, PresignedMeansLinked DEF ResolveGrant
<1>6. ASSUME q.cid \notin PublicCids, ~VerifyPresign(q.query, q.cid, clock)
      PROVE  /\ ProvedBy(q)
             /\ GoodAt(q.proof.sig, q.at)
             /\ q.proof.sig.key = q.requester
             /\ q.proof.sig.msg.nonce = q.proof.nonce
  <2>1. /\ VerifyPop(q.proof, q.requester, q.cid, clock)
        /\ q.chain # None
        /\ Authorize(q.requester, clock, q.chain)
    BY <1>1, <1>6 DEF ResolveGrant
  <2>2. /\ GoodAt(q.proof.sig, q.at)
        /\ q.proof.sig.key = q.requester
        /\ q.proof.sig.msg.cid = q.cid
        /\ q.proof.sig.msg.nonce = q.proof.nonce
    BY <1>2, <2>1, VerifiedMeansProved
  <2>3. q.chain \in Chains
    BY <2>1, PresentedShape
  <2>4. ProvedBy(q)
    BY <1>3, <2>1, <2>2, <2>3 DEF ProvedBy, GoodAt, Authorize
  <2>5. QED
    BY <2>2, <2>4
<1>7. q.cid \notin PublicCids => LinkedBy(q) \/ ProvedBy(q)
  BY <1>5, <1>6
<1>8. grant = "PopAndCap" =>
          /\ GoodAt(q.proof.sig, q.at)
          /\ q.proof.sig.key = q.requester
          /\ q.proof.sig.msg.nonce = q.proof.nonce
  BY <1>4, <1>5, <1>6
<1> HIDE DEF grant
<1>9. ASSUME NEW x \in Conns, pc'[x] # "idle"
      PROVE  (/\ req[x].cid \in Cids
              /\ req[x].at \in U64 /\ req[x].at <= clock
              /\ req[x].cid \notin PublicCids => LinkedBy(req[x]) \/ ProvedBy(req[x])
              /\ pc[x] = "replay" =>
                    /\ GoodAt(req[x].proof.sig, req[x].at)
                    /\ req[x].proof.sig.key = req[x].requester
                    /\ req[x].proof.sig.msg.nonce = req[x].proof.nonce)'
  <2>1. Proofs' = Proofs /\ Links' = Links
    BY <1>1 DEF Proofs, Links
  <2>2. CASE x = r
    <3>1. req'[x] = q /\ (pc'[x] = "replay" => grant = "PopAndCap")
      BY <1>1, <1>2, <2>2
    <3>2. (req[x].cid \notin PublicCids => LinkedBy(req[x]) \/ ProvedBy(req[x]))'
      BY <1>7, <2>1, <3>1 DEF LinkedBy, ProvedBy
    <3>3. (pc[x] = "replay" => GoodAt(req[x].proof.sig, req[x].at))'
      BY <1>8, <2>1, <3>1 DEF GoodAt
    <3>4. QED
      BY <1>1, <1>2, <1>3, <1>8, <3>1, <3>2, <3>3
  <2>3. CASE x # r
    <3>1. req'[x] = req[x] /\ pc'[x] = pc[x]
      BY <1>1, <1>2, <2>3
    <3>2. (req[x].cid \notin PublicCids => LinkedBy(req[x]) \/ ProvedBy(req[x]))'
      BY <1>2, <1>9, <2>1, <3>1 DEF ReqInv, LinkedBy, ProvedBy
    <3>3. (pc[x] = "replay" => GoodAt(req[x].proof.sig, req[x].at))'
      BY <1>2, <1>9, <2>1, <3>1 DEF ReqInv, GoodAt
    <3>4. QED
      BY <1>1, <1>2, <1>9, <3>1, <3>2, <3>3 DEF ReqInv
  <2>4. QED
    BY <2>2, <2>3
<1>10. QED
  BY <1>9 DEF ReqInv

\* The keys of the accepted proofs, with one more proof.
LEMMA AppendKeys ==
    ASSUME AcceptedInv, StateInv, NEW a \in [sig : Signature, at : U64],
           accepted' = Append(accepted, a), a.sig \in Proofs
    PROVE  /\ AcceptedKeys \in Seq(Keys \X Nat)
           /\ KeyOf(a.sig) \in Keys \X Nat
           /\ AcceptedKeys' = Append(AcceptedKeys, KeyOf(a.sig))
<1> DEFINE n == Len(accepted)
           K == Keys \X Nat
           S == [sig : Signature, at : U64]
<1>1. accepted \in Seq(S) /\ n \in Nat
  BY DEF AcceptedInv
<1>2. \A s \in Proofs : KeyOf(s) \in K
  BY ProofShape DEF KeyOf, StateInv
<1>3. \A i \in 1 .. n : AcceptedKeys[i] = KeyOf(accepted[i].sig) /\ AcceptedKeys[i] \in K
  BY <1>2 DEF AcceptedKeys, AcceptedInv, GoodAt
<1>4. AcceptedKeys \in Seq(K) /\ Len(AcceptedKeys) = n
  BY <1>1, <1>3 DEF AcceptedKeys
<1>5. KeyOf(a.sig) \in K
  BY <1>2
<1>6. /\ accepted' \in Seq(S) /\ Len(accepted') = n + 1
      /\ \A i \in 1 .. n : accepted'[i] = accepted[i]
      /\ accepted'[n + 1] = a
  BY <1>1, AppendProperties
<1> DEFINE B == Append(AcceptedKeys, KeyOf(a.sig))
<1> HIDE DEF n, K, S
<1>7. /\ B \in Seq(K) /\ Len(B) = n + 1
      /\ \A i \in 1 .. n : B[i] = AcceptedKeys[i]
      /\ B[n + 1] = KeyOf(a.sig)
  BY <1>4, <1>5, AppendProperties
<1> HIDE DEF B
<1>8. AcceptedKeys' = [i \in 1 .. n + 1 |-> KeyOf(accepted'[i].sig)]
  BY <1>6 DEF AcceptedKeys, KeyOf
<1>9. \A i \in 1 .. n + 1 : AcceptedKeys'[i] = B[i]
  <2> TAKE i \in 1 .. n + 1
  <2>1. AcceptedKeys'[i] = KeyOf(accepted'[i].sig)
    BY <1>8
  <2>2. CASE i = n + 1
    BY <1>6, <1>7, <2>1, <2>2
  <2>3. CASE i \in 1 .. n
    BY <1>3, <1>6, <1>7, <2>1, <2>3 DEF n
  <2>4. QED
    BY <1>1, <2>2, <2>3
<1>10. B = [i \in 1 .. n + 1 |-> B[i]]
  BY <1>7
<1>11. AcceptedKeys' = B
  BY <1>8, <1>9, <1>10
<1>12. QED
  BY <1>4, <1>5, <1>11 DEF B, K

\* A proof the guard does not remember, though it was accepted before, is one
\* that a full capacity of other proofs has pushed out.
LEMMA ForgottenMeansFull ==
    ASSUME IInv, NEW s \in Proofs, IsNew(guard, KeyOf(s)),
           NEW i \in 1 .. Len(accepted), accepted[i].sig = s
    PROVE  Cardinality({accepted[k].sig : k \in i + 1 .. Len(accepted)}) >= GuardCap
<1> DEFINE m == Len(accepted)
           n == Len(guard.order)
           T == {accepted[k].sig : k \in i + 1 .. m}
           f == [k \in 1 .. GuardCap |-> accepted[m - n + k].sig]
<1>0. i \in 1 .. m /\ GuardCap \in Nat \ {0}
  BY ConstantFacts
<1>1. /\ m \in Nat /\ guard.order \in Seq(Keys \X Nat) /\ n \in Nat
      /\ Len(AcceptedKeys) = m
      /\ \A k \in 1 .. m : AcceptedKeys[k] = KeyOf(accepted[k].sig)
  BY DEF IInv, AcceptedInv, GuardInv, Window, AcceptedKeys
<1>2. /\ n <= GuardCap /\ n <= m /\ (n < GuardCap => n = m)
      /\ \A k \in 1 .. n : guard.order[k] = AcceptedKeys[m - n + k]
      /\ \A k, l \in 1 .. n : guard.order[k] = guard.order[l] => k = l
      /\ guard.seen = {guard.order[k] : k \in 1 .. n}
  BY <1>1 DEF IInv, GuardInv, Window
<1> HIDE DEF m, n
<1>3. \A k \in 1 .. n : m - n + k \in 1 .. m /\ guard.order[k] = KeyOf(accepted[m - n + k].sig)
  <2> TAKE k \in 1 .. n
  <2>1. m - n + k \in 1 .. m
    BY <1>1, <1>2
  <2>2. QED
    BY <1>1, <1>2, <2>1
<1>4. i <= m - n
  <2> SUFFICES ASSUME i > m - n PROVE FALSE
    BY <1>0, <1>1
  <2>1. i - (m - n) \in 1 .. n /\ m - n + (i - (m - n)) = i
    BY <1>0, <1>1, <1>2
  <2>2. guard.order[i - (m - n)] = KeyOf(s)
    BY <1>3, <2>1
  <2>3. QED
    BY <1>2, <2>1, <2>2 DEF IsNew
<1>5. n = GuardCap
  BY <1>0, <1>1, <1>2, <1>4
<1>6. IsFiniteSet(T)
  <2>1. T \subseteq sigs
    BY <1>0, <1>1 DEF IInv, AcceptedInv, GoodAt, Proofs, m
  <2>2. QED
    BY <2>1, FS_Subset DEF IInv, StateInv
<1>7. \A k \in 1 .. n : m - n + k \in i + 1 .. m
  BY <1>0, <1>1, <1>2, <1>4
<1>8. f \in [1 .. GuardCap -> T]
  <2>1. ASSUME NEW k \in 1 .. GuardCap PROVE accepted[m - n + k].sig \in T
    <3>1. m - n + k \in i + 1 .. m
      BY <1>5, <1>7
    <3>2. QED
      BY <3>1
  <2> HIDE DEF T
  <2>2. QED
    BY <2>1
<1>9. ASSUME NEW k \in 1 .. GuardCap, NEW l \in 1 .. GuardCap, f[k] = f[l]
      PROVE  k = l
  <2>1. KeyOf(accepted[m - n + k].sig) = KeyOf(accepted[m - n + l].sig)
    <3>1. f[k] = accepted[m - n + k].sig /\ f[l] = accepted[m - n + l].sig
      OBVIOUS
    <3> HIDE DEF f
    <3>2. QED
      BY <1>9, <3>1
  <2>2. guard.order[k] = guard.order[l]
    BY <1>3, <1>5, <2>1
  <2>3. QED
    BY <1>2, <1>5, <2>2
<1>10. f \in Injection(1 .. GuardCap, T)
  <2> HIDE DEF f, T
  <2>1. QED
    BY <1>8, <1>9, Fun_IsInj
<1> HIDE DEF f, T
<1>11. Cardinality(1 .. GuardCap) <= Cardinality(T)
  BY <1>6, <1>10, FS_Injection
<1>12. Cardinality(1 .. GuardCap) = GuardCap
  BY FS_Interval, ConstantFacts
<1>13. Cardinality(T) \in Nat
  BY <1>6, FS_CardinalityType
<1>14. QED
  BY <1>11, <1>12, <1>13, ConstantFacts DEF T, m

\* The guard lets a proof through, and remembers it.
LEMMA AcceptKeeps ==
    ASSUME IInv, NEW r \in Conns, pc[r] = "replay", IsNew(guard, GuardKey(req[r])),
           guard' = Accept(guard, GuardKey(req[r]), GuardCap),
           accepted' = Append(accepted, [sig |-> req[r].proof.sig, at |-> req[r].at]),
           UNCHANGED sigs
    PROVE  AcceptedInv' /\ GuardInv' /\ ReplayNeedsBurst'
<1> DEFINE a == [sig |-> req[r].proof.sig, at |-> req[r].at]
           s == req[r].proof.sig
           n == Len(accepted)
           R == [sig : Signature, at : U64]
<1>1. /\ GoodAt(s, req[r].at) /\ req[r].at \in U64
      /\ KeyOf(s) = GuardKey(req[r])
  BY DEF IInv, ReqInv, KeyOf, GuardKey
<1>2. s \in Proofs /\ s \in Signature /\ s.msg.expires \in U64
  BY <1>1, ProofShape DEF IInv, StateInv, GoodAt
<1>3. a \in R /\ a.sig = s /\ a.at = req[r].at
  BY <1>1, <1>2
<1>4. accepted \in Seq(R) /\ n \in Nat
  BY DEF IInv, AcceptedInv
<1> HIDE DEF a, s, n, R
<1>5. accepted' = Append(accepted, a)
  BY DEF a
<1>6. /\ accepted' \in Seq(R) /\ Len(accepted') = n + 1
      /\ \A i \in 1 .. n : accepted'[i] = accepted[i]
      /\ accepted'[n + 1] = a
  BY <1>3, <1>4, <1>5, AppendProperties DEF n
<1>7. Proofs' = Proofs
  BY DEF Proofs
<1>8. \A i \in 1 .. n : GoodAt(accepted[i].sig, accepted[i].at)
  BY DEF IInv, AcceptedInv, n
<1>9. AcceptedInv'
  <2>1. ASSUME NEW i \in 1 .. n + 1
        PROVE  /\ accepted'[i].sig \in Proofs
               /\ accepted'[i].at <= accepted'[i].sig.msg.expires
               /\ accepted'[i].sig.msg.expires <= accepted'[i].at + MaxProofTtl
    <3>1. CASE i = n + 1
      BY <1>1, <1>3, <1>6, <3>1 DEF GoodAt
    <3>2. CASE i \in 1 .. n
      BY <1>6, <1>8, <3>2 DEF GoodAt
    <3>3. i = n + 1 \/ i \in 1 .. n
      BY <1>4
    <3>4. QED
      BY <3>1, <3>2, <3>3, Zenon
  <2>2. QED
    BY <1>6, <1>7, <2>1 DEF AcceptedInv, GoodAt, R
<1>10. GuardInv'
  <2>1. /\ AcceptedKeys \in Seq(Keys \X Nat)
        /\ KeyOf(s) \in Keys \X Nat
        /\ AcceptedKeys' = Append(AcceptedKeys, KeyOf(s))
    <3>1. AcceptedInv /\ StateInv
      BY DEF IInv
    <3>2. QED
      BY <1>2, <1>3, <1>5, <3>1, AppendKeys DEF R
  <2>2. Window(guard, AcceptedKeys, Keys \X Nat, GuardCap)
    BY DEF IInv, GuardInv
  <2> DEFINE K == Keys \X Nat
  <2> HIDE DEF K
  <2>3. Window(Accept(guard, KeyOf(s), GuardCap), Append(AcceptedKeys, KeyOf(s)), K, GuardCap)
    BY <1>1, <2>1, <2>2, AcceptWindow, ConstantFacts DEF K
  <2>4. Window(guard', AcceptedKeys', K, GuardCap)
    BY <1>1, <2>1, <2>3
  <2>5. QED
    BY <2>4 DEF GuardInv, K
<1>11. ReplayNeedsBurst'
  <2> SUFFICES ASSUME NEW i \in 1 .. n + 1, NEW j \in 1 .. n + 1,
                      i < j, accepted'[i].sig = accepted'[j].sig
               PROVE  /\ Cardinality({accepted'[k].sig : k \in i + 1 .. j - 1}) >= GuardCap
                      /\ accepted'[j].at <= accepted'[i].at + MaxProofTtl
                      /\ accepted'[i].at <= accepted'[j].at + MaxProofTtl
    BY <1>6 DEF ReplayNeedsBurst
  <2>1. i \in 1 .. n /\ accepted'[i] = accepted[i]
    BY <1>4, <1>6
  <2>2. {accepted'[k].sig : k \in i + 1 .. j - 1} = {accepted[k].sig : k \in i + 1 .. j - 1}
    <3>1. \A k \in i + 1 .. j - 1 : accepted'[k] = accepted[k]
      BY <1>4, <1>6
    <3>2. QED
      BY <3>1
  <2>3. CASE j \in 1 .. n
    <3>1. accepted'[j] = accepted[j]
      BY <1>6, <2>3
    <3>2. QED
      BY <2>1, <2>2, <2>3, <3>1 DEF IInv, ReplayNeedsBurst, n
  <2>4. CASE j = n + 1
    <3>1. accepted'[j] = a /\ accepted[i].sig = s
      BY <1>3, <1>6, <2>1, <2>4
    <3>2. Cardinality({accepted[k].sig : k \in i + 1 .. n}) >= GuardCap
      BY <1>1, <1>2, <2>1, <3>1, ForgottenMeansFull DEF n
    <3>3. j - 1 = n
      BY <1>4, <2>4
    <3>4. /\ accepted[i].at \in Nat /\ a.at \in Nat /\ s.msg.expires \in Nat
          /\ MaxProofTtl \in Nat
      <4>1. accepted[i] \in R
        BY <1>4, <2>1, ElementOfSeq DEF n
      <4>2. accepted[i].at \in U64
        BY <4>1 DEF R
      <4>3. QED
        BY <1>1, <1>2, <1>3, <4>2, ConstantFacts DEF U64
    <3>5. /\ accepted[i].at <= s.msg.expires /\ s.msg.expires <= accepted[i].at + MaxProofTtl
          /\ a.at <= s.msg.expires /\ s.msg.expires <= a.at + MaxProofTtl
      BY <1>1, <1>3, <1>8, <2>1, <3>1 DEF GoodAt
    <3>6. a.at <= accepted[i].at + MaxProofTtl /\ accepted[i].at <= a.at + MaxProofTtl
      BY <3>4, <3>5
    <3>7. QED
      BY <2>1, <2>2, <3>1, <3>2, <3>3, <3>6
  <2>5. j = n + 1 \/ j \in 1 .. n
    BY <1>4
  <2>6. QED
    BY <2>3, <2>4, <2>5, Zenon
<1>12. QED
  BY <1>9, <1>10, <1>11

-----------------------------------------------------------------------------
\* The edge starts, or starts anew, with a guard that remembers nothing.
LEMMA FreshGuard ==
    ASSUME NEW F, NEW A, F = NewFifoSet, A = << >>
    PROVE  Window(F, A, Keys \X Nat, GuardCap)
<1>1. F.order = << >> /\ F.seen = {}
  BY DEF NewFifoSet
<1>2. << >> \in Seq(Keys \X Nat) /\ Len(<< >>) = 0 /\ Len(A) = 0
  BY EmptySeq
<1>3. QED
  BY <1>1, <1>2, ConstantFacts DEF Window

\* An edge that accepted nothing yet.
LEMMA FreshEdge ==
    ASSUME guard = NewFifoSet, accepted = << >>
    PROVE  AcceptedInv /\ GuardInv /\ ReplayNeedsBurst
<1>1. accepted \in Seq([sig : Signature, at : U64]) /\ Len(accepted) = 0
  BY EmptySeq
<1>2. AcceptedKeys = << >>
  BY <1>1 DEF AcceptedKeys
<1>3. GuardInv
  BY <1>2, FreshGuard DEF GuardInv
<1>4. AcceptedInv /\ ReplayNeedsBurst
  BY <1>1 DEF AcceptedInv, ReplayNeedsBurst
<1>5. QED
  BY <1>3, <1>4

\* The invariant holds initially.
LEMMA InitEstablishes == Init => IInv
<1> SUFFICES ASSUME Init PROVE IInv
  OBVIOUS
<1>1. StateInv
  BY FS_EmptySet, ConstantFacts DEF Init, StateInv
<1>2. NonceInv
  BY DEF Init, NonceInv, Proofs
<1>3. ReqInv
  BY DEF Init, ReqInv
<1>4. AcceptedInv /\ GuardInv /\ ReplayNeedsBurst
  BY FreshEdge DEF Init
<1>5. QED
  BY <1>1, <1>2, <1>3, <1>4 DEF IInv

\* Every step keeps the invariant: one case per action.
LEMMA StepKeeps == IInv /\ [Next]_vars => IInv'
<1> SUFFICES ASSUME IInv, [Next]_vars PROVE IInv'
  OBVIOUS
<1>0. /\ StateInv /\ NonceInv /\ ReqInv /\ AcceptedInv /\ GuardInv /\ ReplayNeedsBurst
      /\ clock \in Nat /\ clock <= clock
      /\ pc \in [Conns -> {"idle", "replay", "granted"}] /\ DOMAIN req = Conns
  BY ConstantFacts DEF IInv, StateInv
<1>1. ASSUME NEW key \in Keys, NEW cid \in Cids, NEW expires \in U64,
             MintProof(key, cid, expires)
      PROVE  IInv'
  <2>1. sigs \subseteq sigs' /\ UNCHANGED <<clock, pc, req, guard, accepted>>
    BY <1>1 DEF MintProof, Minted, edge
  <2>2. NonceInv' /\ StateInv'
    BY <1>1, MintKeepsNonces
  <2>3. QED
    BY <1>0, <2>1, <2>2, RequestsKeep, AcceptedKeeps, GuardKeeps DEF IInv
<1>2. ASSUME NEW key \in Keys, NEW cid \in Cids, NEW ttl \in U64, Presign(key, cid, ttl)
      PROVE  IInv'
  <2>1. sigs \subseteq sigs' /\ UNCHANGED <<clock, pc, req, guard, accepted>>
    BY <1>2 DEF Presign, PresignQuery, Minted, edge
  <2>2. NonceInv' /\ StateInv'
    BY <1>2, PresignKeepsNonces
  <2>3. QED
    BY <1>0, <2>1, <2>2, RequestsKeep, AcceptedKeeps, GuardKeeps DEF IInv
<1>3. ASSUME NEW r \in Conns, NEW q \in Presented, Arrive(r, q)
      PROVE  IInv'
  <2>1. UNCHANGED <<sigs, guard, clock, accepted, restarts>>
    BY <1>3 DEF Arrive
  <2>2. StateInv'
    BY <1>0, <1>3, ConstantFacts DEF Arrive, StateInv
  <2>3. ReqInv'
    BY <1>3, ArriveKeepsRequests
  <2>4. QED
    BY <1>0, <2>1, <2>2, <2>3, NoncesKeep, AcceptedKeeps, GuardKeeps DEF IInv
<1>4. ASSUME NEW r \in Conns, CheckReplay(r)
      PROVE  IInv'
  <2>1. UNCHANGED <<sigs, clock, granted, restarts>> /\ pc[r] = "replay"
    BY <1>4 DEF CheckReplay
  <2>2. CASE /\ guard' = Accept(guard, GuardKey(req[r]), GuardCap)
             /\ IsNew(guard, GuardKey(req[r]))
             /\ accepted' = Append(accepted, [sig |-> req[r].proof.sig, at |-> req[r].at])
             /\ pc' = [pc EXCEPT ![r] = "granted"]
             /\ UNCHANGED req
    <3>1. AcceptedInv' /\ GuardInv' /\ ReplayNeedsBurst'
      BY <2>1, <2>2, AcceptKeeps
    <3>2. StateInv'
      BY <1>0, <2>1, <2>2 DEF StateInv
    <3>3. ReqInv'
      BY <1>0, <2>1, <2>2, RequestsKeep
    <3>4. QED
      BY <1>0, <2>1, <3>1, <3>2, <3>3, NoncesKeep DEF IInv
  <2>3. CASE End(r) /\ UNCHANGED <<guard, accepted>>
    <3>1. StateInv'
      BY <1>0, <2>1, <2>3 DEF StateInv, End
    <3>2. ReqInv'
      BY <1>0, <2>1, <2>3, RequestsKeep DEF End
    <3>3. QED
      BY <1>0, <2>1, <2>3, <3>1, <3>2, NoncesKeep, AcceptedKeeps, GuardKeeps DEF IInv
  <2>4. QED
    BY <1>4, <2>2, <2>3 DEF CheckReplay
<1>5. ASSUME NEW r \in Conns, Finish(r)
      PROVE  IInv'
  <2>1. UNCHANGED <<sigs, guard, clock, accepted, granted, restarts>> /\ End(r)
    BY <1>5 DEF Finish
  <2>2. StateInv'
    BY <1>0, <2>1 DEF StateInv, End
  <2>3. ReqInv'
    BY <1>0, <2>1, RequestsKeep DEF End
  <2>4. QED
    BY <1>0, <2>1, <2>2, <2>3, NoncesKeep, AcceptedKeeps, GuardKeeps DEF IInv
<1>6. CASE Restart
  <2>1. /\ UNCHANGED <<sigs, clock, granted>>
        /\ guard' = NewFifoSet /\ accepted' = << >>
        /\ pc' = [x \in Conns |-> "idle"] /\ req' = [x \in Conns |-> NoReq]
    BY <1>6 DEF Restart
  <2>2. StateInv'
    BY <1>0, <1>6, <2>1, ConstantFacts DEF Restart, StateInv
  <2>3. ReqInv'
    BY <2>1 DEF ReqInv
  <2>4. accepted' \in Seq([sig : Signature, at : U64]) /\ Len(accepted') = 0
    BY <2>1, EmptySeq
  <2>5. AcceptedKeys' = << >>
    BY <2>4 DEF AcceptedKeys
  <2>6. GuardInv'
    BY <2>1, <2>5, FreshGuard DEF GuardInv
  <2>7. AcceptedInv' /\ ReplayNeedsBurst'
    BY <2>4 DEF AcceptedInv, ReplayNeedsBurst
  <2>8. QED
    BY <1>0, <2>1, <2>2, <2>3, <2>6, <2>7, NoncesKeep DEF IInv
<1>7. CASE Tick
  <2>1. UNCHANGED <<sigs, edge>> /\ clock' = clock + 1 /\ clock < MaxClock
    BY <1>7 DEF Tick
  <2>2. StateInv'
    BY <1>0, <2>1, ConstantFacts DEF StateInv, edge
  <2>3. ReqInv'
    BY <1>0, <2>1, RequestsKeep DEF edge
  <2>4. QED
    BY <1>0, <2>1, <2>2, <2>3, NoncesKeep, AcceptedKeeps, GuardKeeps DEF IInv, edge
<1>8. CASE UNCHANGED vars
  <2>1. StateInv'
    BY <1>0, <1>8 DEF StateInv, vars
  <2>2. ReqInv'
    BY <1>0, <1>8, RequestsKeep DEF vars
  <2>3. QED
    BY <1>0, <1>8, <2>1, <2>2, NoncesKeep, AcceptedKeeps, GuardKeeps DEF IInv, vars
<1>9. QED
  BY <1>1, <1>2, <1>3, <1>4, <1>5, <1>6, <1>7, <1>8 DEF Next

\* The invariant gives the properties.
LEMMA InvariantImplies ==
    IInv => TypeOK /\ PrivateOnlyOnAuthority /\ ReplayNeedsBurst /\ NoFalseReplay
<1> SUFFICES ASSUME IInv
             PROVE  TypeOK /\ PrivateOnlyOnAuthority /\ ReplayNeedsBurst /\ NoFalseReplay
  OBVIOUS
<1>1. TypeOK
  <2>1. /\ guard.order \in Seq(Keys \X Nat) /\ Len(guard.order) <= GuardCap
        /\ guard.seen = {guard.order[i] : i \in 1 .. Len(guard.order)}
    BY DEF IInv, GuardInv, Window
  <2>2. guard.seen \subseteq Keys \X Nat
    BY <2>1, ElementOfSeq
  <2>3. QED
    BY <2>1, <2>2 DEF IInv, StateInv, ReqInv, AcceptedInv, TypeOK
<1>2. PrivateOnlyOnAuthority
  BY DEF IInv, ReqInv, PrivateOnlyOnAuthority
<1>3. NoFalseReplay
  <2> SUFFICES ASSUME NEW r \in Conns, pc[r] = "replay", ~IsNew(guard, GuardKey(req[r]))
               PROVE  \E i \in 1 .. Len(accepted) : accepted[i].sig = req[r].proof.sig
    BY DEF NoFalseReplay
  <2> DEFINE m == Len(accepted)
             n == Len(guard.order)
             s == req[r].proof.sig
  <2>1. s \in Proofs /\ KeyOf(s) = GuardKey(req[r])
    BY DEF IInv, ReqInv, GoodAt, KeyOf, GuardKey
  <2>2. /\ m \in Nat /\ n \in Nat /\ n <= m
        /\ guard.seen = {guard.order[k] : k \in 1 .. n}
        /\ \A k \in 1 .. n : guard.order[k] = AcceptedKeys[m - n + k]
        /\ \A k \in 1 .. m : AcceptedKeys[k] = KeyOf(accepted[k].sig) /\ accepted[k].sig \in Proofs
    <3>1. /\ m \in Nat
          /\ \A k \in 1 .. m : AcceptedKeys[k] = KeyOf(accepted[k].sig)
                              /\ accepted[k].sig \in Proofs
      BY DEF IInv, AcceptedInv, GoodAt, AcceptedKeys
    <3>2. Len(AcceptedKeys) = m
      BY <3>1 DEF AcceptedKeys
    <3> HIDE DEF m
    <3>3. /\ guard.order \in Seq(Keys \X Nat) /\ n <= Len(AcceptedKeys)
          /\ guard.seen = {guard.order[k] : k \in 1 .. n}
          /\ \A k \in 1 .. n : guard.order[k] = AcceptedKeys[Len(AcceptedKeys) - n + k]
      BY DEF IInv, GuardInv, Window
    <3>4. n \in Nat
      BY <3>3
    <3> HIDE DEF n
    <3>5. QED
      BY <3>1, <3>2, <3>3, <3>4
  <2> HIDE DEF m, n, s
  <2>3. PICK k \in 1 .. n : GuardKey(req[r]) = guard.order[k]
    BY <2>2 DEF IsNew
  <2>4. m - n + k \in 1 .. m
    BY <2>2
  <2>5. KeyOf(accepted[m - n + k].sig) = KeyOf(s) /\ accepted[m - n + k].sig \in Proofs
    BY <2>1, <2>2, <2>3, <2>4
  <2>6. accepted[m - n + k].sig = s
    BY <2>1, <2>5 DEF KeyOf, IInv, NonceInv
  <2>7. QED
    BY <2>4, <2>6 DEF m, s
<1>4. QED
  BY <1>1, <1>2, <1>3 DEF IInv

\* The strengthened invariant holds throughout.
THEOREM InvariantHolds == Spec => []IInv
  BY InitEstablishes, StepKeeps, PTL DEF Spec

\* The state has its shape: every signed expiry is a u64 also when a link's
\* ttl reaches past the end of time, and the guard's set and queue agree.
THEOREM TypeCorrect == Spec => []TypeOK
  BY InvariantHolds, InvariantImplies, PTL

\* Whatever proofs, links and chains leak and however requests mix them,
\* resolve_grant and verify_pop_once let a private CID out only on a link or
\* on a proof and a chain made for it.
THEOREM PrivateHolds == Spec => []PrivateOnlyOnAuthority
  BY InvariantHolds, InvariantImplies, PTL

\* ReplayGuard accepts a proof twice in an edge's lifetime only after a full
\* capacity of other proofs and within the proof's own lifetime.
THEOREM ReplayHolds == Spec => []ReplayNeedsBurst
  BY InvariantHolds, InvariantImplies, PTL

\* ReplayGuard turns away only proofs that were accepted.
THEOREM NoFalseReplayHolds == Spec => []NoFalseReplay
  BY InvariantHolds, InvariantImplies, PTL
=============================================================================
