------------------------------- MODULE LruSpec -------------------------------
(***************************************************************************)
(* What the edge cache promises: a byte-budgeted LRU list.  `held` are the *)
(* cached CIDs and `before` is their order, from least to most recently    *)
(* used.  A use moves a CID to the end; storing one keeps the longest most *)
(* recent part of the others that leaves room for it; entries may also be  *)
(* discarded (expiry, purge).  There is no tick, no byte counter and no    *)
(* clock here: EdgeCache implements this list with a map, recency ticks    *)
(* and an incremental byte total.                                          *)
(***************************************************************************)
EXTENDS Integers, FiniteSets

CONSTANTS Cids, Size, MaxBytes

VARIABLES
    held,    \* the cached CIDs
    before,  \* the pairs <<a, b>> of them with a used less recently than b
    last     \* {c} when c was used or stored last

\* the bytes of a set of CIDs, counted one by one
Bytes(S) == Cardinality(UNION {{c} \X (1 .. Size[c]) : c \in S})

\* S is the most recently used part of U
Latest(S, U) == \A x \in S, y \in U \ S : <<y, x>> \in before

\* the order of S, and c after all of S
PutLast(S, c) == (before \cap (S \X S)) \cup (S \X {c})

Init == held = {} /\ before = {} /\ last = {}

Use(c) ==
    /\ c \in held
    /\ before' = PutLast(held \ {c}, c)
    /\ last' = {c}
    /\ UNCHANGED held

\* the parts of the others that may stay when c comes in
Rooms(c) ==
    {S \in SUBSET (held \ {c}) :
        Latest(S, held \ {c}) /\ Bytes(S) + Size[c] <= MaxBytes}

Store(c) ==
    /\ Size[c] <= MaxBytes
    /\ \E S \in Rooms(c) :
          /\ \A T \in Rooms(c) : T \subseteq S
          /\ held' = S \cup {c}
          /\ before' = PutLast(S, c)
    /\ last' = {c}

Discard(S) ==
    /\ held' = held \ S
    /\ before' = before \cap (held' \X held')
    /\ UNCHANGED last

Next ==
    \/ \E c \in Cids : Use(c) \/ Store(c)
    \/ \E S \in SUBSET Cids : Discard(S)

Spec == Init /\ [][Next]_<<held, before, last>>
=============================================================================
