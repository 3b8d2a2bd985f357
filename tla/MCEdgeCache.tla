----------------------------- MODULE MCEdgeCache -----------------------------
(***************************************************************************)
(* EdgeCache for TLC: object sizes as a definition.                        *)
(***************************************************************************)
EXTENDS EdgeCache, TLC

CONSTANTS c0, c1, c2, c3

\* an empty object, a small one, one as large as the budget and one too large
MCSize == (c0 :> 0) @@ (c1 :> 1) @@ (c2 :> 2) @@ (c3 :> 3)

=============================================================================
