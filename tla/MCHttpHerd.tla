----------------------------- MODULE MCHttpHerd -----------------------------
(***************************************************************************)
(* The herd of README.md:133: requests for one CID that miss together, all *)
(* public, none of which gives up.                                         *)
(***************************************************************************)
EXTENDS MCHttpEdge

VARIABLE behind   \* behind[r]: a sibling's fetch ended while r waited for it

herdVars == <<vars, behind>>

HerdInit == Init /\ behind = [r \in Conns |-> FALSE]

FetchEnds(c) ==
    \E p \in Conns : pc[p] = "fetch" /\ pc'[p] # "fetch" /\ req[p].cid = c

HerdNext ==
    /\ \E r \in Conns : Step(r) \/ \E c \in Cids : ArriveOpen(r, c)
    /\ behind' = [r \in Conns |->
                    CASE pc'[r] = "idle" -> FALSE
                      [] pc[r] \in {"cold", "flight", "waiting"}
                         /\ FetchEnds(req[r].cid) -> TRUE
                      [] OTHER -> behind[r]]

HerdSpec == HerdInit /\ [][HerdNext]_herdVars

\* What README.md:133 says: "concurrent cold misses for the same CID hit the
\* origin once, then read cache".  A request whose sibling was answered by
\* the origin while it waited does not ask the origin again.
HerdHitsOriginOnce == \A r \in Conns : behind[r] => pc[r] # "fetch"
=============================================================================
