----------------------------- MODULE MCMeshHost -----------------------------
(***************************************************************************)
(* MeshHost for TLC.  The object `big` fits the cache and is over the mesh *)
(* ceiling; `open` is public.  Each topic has a request, and the storing   *)
(* ones race a purge.                                                      *)
(***************************************************************************)
EXTENDS MeshHost

CONSTANTS open, big, k1, store, pull, all, part, drop, probe

MCSize == [c \in Cids |-> CASE c = open -> 1 [] c = big -> 2]

MCGrants == [k \in Caps |-> Abilities]

Req(topic, c, k, ttl, n) == [topic |-> topic, cid |-> c, cap |-> k, ttl |-> ttl, part |-> n]

MCRequestOf ==
    [t \in Tokens |->
        CASE t = store -> Req("cache", big, k1, 1, 0)
          [] t = pull  -> Req("read", open, NoCap, 0, 0)
          [] t = all   -> Req("read", big, k1, 0, 0)
          [] t = part  -> Req("read", big, k1, 0, 1)
          [] t = drop  -> Req("purge", big, k1, 0, 0)
          [] t = probe -> Req("status", open, NoCap, 0, 0)]
=============================================================================
