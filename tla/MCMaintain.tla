----------------------------- MODULE MCMaintain -----------------------------
(***************************************************************************)
(* Maintain for TLC: the first edge ranks best by delivered work, the      *)
(* others are told apart by the lower criteria.                            *)
(***************************************************************************)
EXTENDS Maintain

CONSTANTS a, e1, e2, e3, cli, daemon

MCSignals ==
    [e \in Edges |->
        CASE e = e1 -> [id |-> 3, work |-> 1, seen |-> 1, mem |-> 0]
          [] e = e2 -> [id |-> 2, work |-> 0, seen |-> 0, mem |-> 1]
          [] e = e3 -> [id |-> 1, work |-> 0, seen |-> 0, mem |-> 0]]

MCTagsOf == [c \in Cids |-> {"release"}]
=============================================================================
