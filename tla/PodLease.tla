------------------------------- MODULE PodLease -------------------------------
(***************************************************************************)
(* What one console-node pod promises console-data, and the pods that      *)
(* share it, about the nodes it watches.  A node on record for a pod is a  *)
(* lease: the pod begins to watch a node only in the step in which         *)
(* console-data puts it on record for the pod, it changes no record but by *)
(* taking a free node or giving up one it watches, and nobody else ever    *)
(* puts a node on record for it.  ConsolePod (one pod in detail) and       *)
(* PodFleet (every pod of a fleet) implement this specification.           *)
(***************************************************************************)
CONSTANTS Nodes, Self
VARIABLES owner, held   \* the pod on record for each node; the watched nodes

Init == held = {}

\* The pod's part.  A node it watches may leave at any time, with its record
\* (given back) or without (a lost message, a heartbeat, the end of the process).
Exchange ==
    /\ \A n \in held' \ held : owner[n] = "nobody" /\ owner'[n] = Self
    /\ \A n \in Nodes : owner'[n] # owner[n] =>
        \/ owner[n] = "nobody" /\ owner'[n] = Self
        \/ owner[n] = Self /\ owner'[n] = "nobody" /\ n \in held \ held'

\* Everybody else's part: records of this pod may lapse behind its back.
Others ==
    /\ UNCHANGED held
    /\ \A n \in Nodes : owner'[n] = Self => owner[n] = Self

Next == Exchange \/ Others

Spec == Init /\ [][Next]_<<owner, held>>
=============================================================================
