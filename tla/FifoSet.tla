------------------------------- MODULE FifoSet -------------------------------
(***************************************************************************)
(* The bounded "seen" set that the edge uses twice: `ReplayGuard`          *)
(* (src/src/pop.rs) remembers the nonces of accepted proofs, `SeenTokens`  *)
(* (src/src/host.rs) the reply tokens of handled mesh requests.  Both keep *)
(* a hash set and a queue of the same keys, oldest first, and forget the   *)
(* oldest key once more than `capacity` are held.                          *)
(***************************************************************************)
EXTENDS Integers, Sequences

NewFifoSet == [seen |-> {}, order |-> << >>]

\* the answer of accept/insert: the key is not remembered
IsNew(F, key) == key \notin F.seen

\* Wrong variant: evicts when the set is exactly full.
AcceptEvictEarly(F, key, capacity) ==
    LET full == Append(F.order, key)
    IN  IF ~IsNew(F, key) THEN F
        ELSE IF Len(full) >= capacity
        THEN [seen |-> (F.seen \cup {key}) \ {Head(full)}, order |-> Tail(full)]
        ELSE [seen |-> F.seen \cup {key}, order |-> full]

\* accept/insert: one key is added, so the `while` pops at most one
Accept(F, key, capacity) ==
    LET full == Append(F.order, key)
    IN  IF ~IsNew(F, key) THEN F
        ELSE IF Len(full) > capacity
        THEN [seen |-> (F.seen \cup {key}) \ {Head(full)}, order |-> Tail(full)]
        ELSE [seen |-> F.seen \cup {key}, order |-> full]
=============================================================================
