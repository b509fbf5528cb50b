------------------------------- MODULE PodFleet -------------------------------
(***************************************************************************)
(* Several console-node pods that share one console-data.  Each pod is     *)
(* ConsolePod reduced to what the others can see of it: the nodes it       *)
(* watches and its calls to console-data (doGetNewNodes, the heartbeat,    *)
(* the release of a shutdown).  Every pod works out from its own answers   *)
(* how many nodes it should have, nobody coordinates them, and a bounded   *)
(* number of faults happens at any time.  All nodes are River nodes: only  *)
(* these may be the worker a pod runs on, and the spare is for them; the   *)
(* Mountain count follows the same arithmetic without either.              *)
(***************************************************************************)
EXTENDS NodeBalance, FiniteSetsExt

CONSTANTS
    Pods,
    Nodes,          \* the River nodes
    Worker,         \* Worker[p]: the node p runs on, if it has a console
    MaxAcquireRvr,
    TargetRvr,      \* the target in the file all pods read
    MaxFaults       \* bound on what goes wrong in a behaviour

ASSUME NamesAssumption == "nobody" \notin Pods
ASSUME FiniteAssumption == IsFiniteSet(Pods) /\ IsFiniteSet(Nodes)
ASSUME FleetBounds ==
    MaxAcquireRvr \in 5 .. 4000 /\ TargetRvr \in Nat /\ MaxFaults \in Nat

VARIABLES
    owner,      \* console-data: the pod on record for each node
    active,     \* console-data: the pods it counts as active
    held,       \* held[p]: the nodes pod p watches
    state,      \* of each pod: "up", "leaving" (all nodes released, a last
                \* doGetNewNodes may still wait for the mutex), "late" (it got
                \* it), "down"
    faults      \* how many faults there were

vars == <<owner, active, held, state, faults>>

Init ==
    /\ owner = [n \in Nodes |-> "nobody"]
    /\ active = {}
    /\ held = [p \in Pods |-> {}]
    /\ state = [p \in Pods |-> "up"]
    /\ faults = 0

NoFault == UNCHANGED faults
Fault == faults < MaxFaults /\ faults' = faults + 1

-----------------------------------------------------------------------------
\* console-data: the sets of nodes it may assign to p, as many nodes as were
\* asked for if there are as many, never the one p runs on.
Grants(p, numRvr) ==
    LET free == {n \in Nodes : owner[n] = "nobody" /\ n # Worker[p]}
    IN  kSubset(PinNumNodes(numRvr, Cardinality(free)), free)
Granted(p, nodes) == [n \in Nodes |-> IF n \in nodes THEN p ELSE owner[n]]
BadReleased(p, own, nodes) ==
    [n \in Nodes |-> IF n \in nodes THEN "nobody" ELSE own[n]]
Released(p, own, nodes) ==
    [n \in Nodes |-> IF n \in nodes /\ own[n] = p THEN "nobody" ELSE own[n]]

\* calcChangeInNodes of p: from good answers of both services, and when one of
\* them cannot be reached.
Balanced(p, numPods) ==
    DeltaNum(Cardinality(held[p]), IdealNum(Cardinality(Nodes), numPods))
ByTargets(p) == PinNumNodes(TargetRvr - Cardinality(held[p]), MaxAcquireRvr)

\* doGetNewNodes of p; its request for nodes is answered or the answer is lost,
\* its release arrives or not.
Pass(p, delta, answered, delivered) ==
    LET deltaRvr == SpareRvr(delta)
    IN  /\ state[p] \in {"up", "leaving"}
        /\ state' = [state EXCEPT ![p] = IF @ = "leaving" THEN "late" ELSE @]
        /\ \E granted \in Grants(p, PinNumNodes(deltaRvr, MaxAcquireRvr)) :
            LET rvr == held[p] \cup IF answered THEN granted ELSE {}
                own == Granted(p, granted)
            IN  \E rn \in kSubset(RvrShare(deltaRvr, Cardinality(rvr)), rvr) :
                    /\ held' = [held EXCEPT ![p] = rvr \ rn]
                    /\ owner' = IF delivered THEN Released(p, own, rn) ELSE own
        /\ UNCHANGED active

\* A pass in which everything is answered, and one in which something is not:
\* an error of console-data that reads as no pods, no answer of a service, a
\* lost answer to the request or a lost release.
DoGetNewNodes(p) == Pass(p, Balanced(p, Cardinality(active)), TRUE, TRUE) /\ NoFault
DoGetNewNodesBadly(p) ==
    /\ Fault
    /\ \/ \E delta \in {Balanced(p, 0), ByTargets(p)} : Pass(p, delta, TRUE, TRUE)
       \/ \E answered \in BOOLEAN :
            Pass(p, Balanced(p, Cardinality(active)), answered, ~answered)

\* sendSingleHeartbeat of p: console-data counts p as active, and p gives up
\* the nodes that it is told are no longer its own.
BadLostNodes(p) == {}
LostNodes(p) == {n \in held[p] : owner[n] # p}
Heartbeat(p, answered) ==
    /\ state[p] # "down"
    /\ active' = active \cup {p}
    /\ held' = [held EXCEPT ![p] = IF answered THEN @ \ LostNodes(p) ELSE @]
    /\ UNCHANGED <<owner, state>>
SendSingleHeartbeat(p) == Heartbeat(p, TRUE) /\ NoFault
HeartbeatUnanswered(p) == Heartbeat(p, FALSE) /\ Fault

\* No heartbeat of p for so long that console-data gives up on it: p waits for
\* vault, or for an answer that does not come, with the mutex held.
Silence(p) ==
    /\ state[p] = "up" /\ Fault
    /\ active' = active \ {p}
    /\ owner' = Released(p, owner, Nodes)
    /\ UNCHANGED <<held, state>>

\* console-data finds the heartbeat of a record stale when its pod does not
\* name the node in its heartbeats, and notices that a pod is gone.
Stale(n) ==
    /\ owner[n] \in Pods /\ n \notin held[owner[n]]
    /\ owner' = [owner EXCEPT ![n] = "nobody"]
    /\ UNCHANGED <<active, held, state, faults>>
Inactive(p) ==
    /\ state[p] = "down" /\ p \in active
    /\ active' = active \ {p}
    /\ UNCHANGED <<owner, held, state, faults>>

-----------------------------------------------------------------------------
\* The process of p is told to stop: releaseAllNodes, whose call may be lost.
BadReleaseAllNodes(p) ==
    /\ state[p] = "up" /\ Fault
    /\ state' = [state EXCEPT ![p] = "leaving"]
    /\ owner' \in {Released(p, owner, held[p]), owner}
    /\ UNCHANGED <<active, held>>
ReleaseAllNodes(p) ==
    /\ state[p] = "up" /\ Fault
    /\ state' = [state EXCEPT ![p] = "leaving"]
    /\ held' = [held EXCEPT ![p] = {}]
    /\ owner' \in {Released(p, owner, held[p]), owner}
    /\ UNCHANGED active

\* The process of p ends, on its own account or after the release; kubernetes
\* starts it again under the same name.
Ends(p) ==
    /\ state' = [state EXCEPT ![p] = "down"]
    /\ held' = [held EXCEPT ![p] = {}]
    /\ UNCHANGED <<owner, active>>
Exit(p) == state[p] \in {"leaving", "late"} /\ Ends(p) /\ NoFault
Crash(p) == state[p] = "up" /\ Ends(p) /\ Fault
Restart(p) ==
    /\ state[p] = "down"
    /\ state' = [state EXCEPT ![p] = "up"]
    /\ UNCHANGED <<owner, active, held, faults>>

PodNext(p) ==
    \/ DoGetNewNodes(p) \/ DoGetNewNodesBadly(p)
    \/ SendSingleHeartbeat(p) \/ HeartbeatUnanswered(p)
    \/ ReleaseAllNodes(p) \/ Exit(p) \/ Crash(p) \/ Restart(p)
DataNext ==
    \/ \E p \in Pods : Silence(p) \/ Inactive(p)
    \/ \E n \in Nodes : Stale(n)

Next == DataNext \/ \E p \in Pods : PodNext(p)

\* Every pod makes its passes and sends its heartbeats, processes end and are
\* started again, console-data clears what is stale.  "map iteration is random":
\* a node that a pod could give back again and again is given back one day.
Fairness ==
    /\ \A p \in Pods :
        /\ SF_vars(DoGetNewNodes(p)) /\ SF_vars(SendSingleHeartbeat(p))
        /\ WF_vars(Exit(p) \/ Restart(p))
        /\ \A n \in Nodes :
            SF_vars(DoGetNewNodes(p) /\ n \in held[p] /\ n \notin held'[p])
    /\ WF_vars(\E n \in Nodes : Stale(n))

Spec == Init /\ [][Next]_vars /\ Fairness

-----------------------------------------------------------------------------
\* The variables have their types; a pod that has released everything and waits
\* for its end, or is down, watches nothing.
TypeOK ==
    /\ owner \in [Nodes -> Pods \cup {"nobody"}]
    /\ active \subseteq Pods
    /\ held \in [Pods -> SUBSET Nodes]
    /\ state \in [Pods -> {"up", "leaving", "late", "down"}]
    /\ \A p \in Pods : state[p] \in {"leaving", "down"} => held[p] = {}
    /\ faults \in 0 .. MaxFaults

\* Each pod of the fleet keeps to the lease protocol, whatever the others do:
\* L(p)!Spec holds for every pod p, in the form that TLC accepts.
L(p) == INSTANCE PodLease WITH Self <- p, held <- held[p]
LeasesKept ==
    /\ \A p \in Pods : L(p)!Init
    /\ [][\A p \in Pods : [L(p)!Next]_<<owner, held[p]>>]_vars

\* Once nothing goes wrong any more, every node, the workers the pods run on
\* included, ends up watched by the pod on record for it, and stays watched.
EveryNodeWatched ==
    <>[](\A n \in Nodes : owner[n] \in Pods /\ n \in held[owner[n]])

\* Once nothing goes wrong any more, the pods stop passing nodes around: "there
\* is a gap where we don't change the number to try and avoid bouncing".
SettlesDown == <>[][UNCHANGED held]_vars

\* A node that two pods watch at the same time, as they may when a pod was
\* silent for long, is given up by the one that is not on record for it.
OwnRecord(p) == \A n \in held[p] : owner[n] = p
OnRecord == \A p \in Pods : OwnRecord(p)
OverlapEnds == ~OnRecord ~> OnRecord

\* Nothing but a silence of its own makes a pod watch a node that is not on record
\* for it: no lost release, no answer that never came, no crash, and nothing that
\* the other pods do.
OverlapNeedsSilence ==
    [][\A p \in Pods : OwnRecord(p) /\ ~OwnRecord(p)' => Silence(p)]_vars

\* While no two pods watch one node, the pods that console-data counts are never
\* all content: one of them is below its ideal number, so whatever node is free or
\* becomes free, some pod asks for more.
Exclusive == \A p, q \in Pods : p # q => held[p] \cap held[q] = {}
SomeoneAsks ==
    Exclusive /\ active # {} =>
        \E p \in active : Balanced(p, Cardinality(active)) > 0

\* A pass with good answers takes a pod above its ideal number by the spare only,
\* and only if it was not more than 10% above it before; it leaves a pod below that
\* number only if it was granted the most it may ask for, or if there is no node
\* left that it may have.
Balances(p) ==
    LET ideal == IdealNum(Cardinality(Nodes), Cardinality(active))
        before == Cardinality(held[p])
        after == Cardinality(held'[p])
    IN  /\ after > ideal => after <= before + 1 /\ ~OverIdeal(before, ideal)
        /\ after < ideal /\ OwnRecord(p) =>
            \/ after = before + MaxAcquireRvr
            \/ \A n \in Nodes : owner'[n] = "nobody" => n = Worker[p]
PassBalances == [][\A p \in Pods : DoGetNewNodes(p) => Balances(p)]_vars
=============================================================================
