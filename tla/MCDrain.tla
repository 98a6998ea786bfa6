------------------------------- MODULE MCDrain -------------------------------
(* A small instance of Drain for TLC: a pod with a controller and one of a
   DaemonSet, on two nodes. *)
EXTENDS DrainProps

CONSTANTS n1, n2, web, agent, rs

MCTargets == <<n1, n2>>
MCOneTarget == <<n1>>
MCSortOf == [n \in Names |-> IF n = agent THEN "daemon" ELSE "managed"]
MCOwnerOf == [n \in Names |-> rs]
MCMaxUid == [n \in Names |-> IF n = agent THEN 0 ELSE 1]
=============================================================================
