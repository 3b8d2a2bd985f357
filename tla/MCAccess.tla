------------------------------ MODULE MCAccess ------------------------------
(***************************************************************************)
(* Access for TLC: a client with a chain from a root, one that is too long *)
(* and one that the client issued itself; a publisher whose links the edge *)
(* honours.                                                                *)
(***************************************************************************)
EXTENDS Access, TLC

CONSTANTS a, b, client, publisher, root, r1, r2

ChainFor(issuer, until, len) ==
    [issuer |-> issuer, audience |-> client, read |-> TRUE, until |-> until, len |-> len]

MCChains == {ChainFor(root, 1, 1), ChainFor(root, 2, 2), ChainFor(client, 2, 1)}

ConnSymmetry == Permutations(Conns)
=============================================================================
