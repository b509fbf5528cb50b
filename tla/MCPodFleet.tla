------------------------------ MODULE MCPodFleet ------------------------------
(***************************************************************************)
(* PodFleet for TLC: the first pod runs on the first River node.           *)
(***************************************************************************)
EXTENDS PodFleet

MCWorker == [p \in Pods |-> IF p = "p1" THEN "r1" ELSE "none"]
=============================================================================
