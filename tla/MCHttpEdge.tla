----------------------------- MODULE MCHttpEdge -----------------------------
(***************************************************************************)
(* HttpEdge for TLC: object sizes as a definition and the symmetry of the  *)
(* connections.                                                            *)
(***************************************************************************)
EXTENDS HttpEdge, TLC

CONSTANTS small, big, huge, r1, r2, r3, p1, p2

MCSize == [c \in Cids |-> CASE c = small -> 1 [] c = big -> 2 [] c = huge -> 3]

ConnSymmetry == Permutations(Conns)

\* What README.md:134 says, "a 404 is remembered briefly so a flood of misses
\* can't amplify onto the origin": a tombstone that note_absent leaves is
\* still good at the moment it is written.
NewTombstoneIsGood ==
    [][\A c \in Tombstoned(cache)' \ Tombstoned(cache) :
          clock <= cache'.tombs[c]]_vars
=============================================================================
