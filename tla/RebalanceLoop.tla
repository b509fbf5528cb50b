---------------------------- MODULE RebalanceLoop ----------------------------
(***************************************************************************)
(* rebalanceNodes(deltaRvr, deltaMtn) of nodes.go, one loop iteration per  *)
(* step.  Go iterates over maps in random order, so only the sizes of the  *)
(* three pools matter to the control flow.  The properties say that the    *)
(* loops stop with exactly the sizes the closed forms of NodeBalance       *)
(* promise, which is what NodeManager relies on to release the nodes in a  *)
(* single step.                                                            *)
(***************************************************************************)
EXTENDS NodeBalance

CONSTANTS
    Sizes,      \* the sizes a pool may have on entry
    Deltas      \* the values deltaRvr and deltaMtn may have

ASSUME SizesAssumption == Sizes \subseteq Nat
ASSUME DeltasAssumption == Deltas \subseteq Int

VARIABLES
    pc,                 \* "rvr", "mtn": in the first, second loop; "done"
    deltaRvr, deltaMtn, \* the arguments
    rvr0, mtn0, pds0,   \* len(current{Rvr,Mtn,Pds}Nodes) on entry
    rvr, mtn, pds       \* the same lengths now

args == <<deltaRvr, deltaMtn, rvr0, mtn0, pds0>>
vars == <<pc, deltaRvr, deltaMtn, rvr0, mtn0, pds0, rvr, mtn, pds>>

Init ==
    /\ pc = "rvr"
    /\ deltaRvr \in Deltas /\ deltaMtn \in Deltas
    /\ rvr0 \in Sizes /\ mtn0 \in Sizes /\ pds0 \in Sizes
    /\ rvr = rvr0 /\ mtn = mtn0 /\ pds = pds0

\* Another River node is removed: the range over currentRvrNodes still yields a
\* key and the map is longer than endNumRvr.
RemoveRvr ==
    /\ pc = "rvr"
    /\ deltaRvr < 0 /\ rvr > 0 /\ rvr > rvr0 + deltaRvr
    /\ rvr' = rvr - 1
    /\ UNCHANGED <<pc, args, mtn, pds>>

LeaveRvr ==
    /\ pc = "rvr"
    /\ ~(deltaRvr < 0 /\ rvr > 0 /\ rvr > rvr0 + deltaRvr)
    /\ pc' = "mtn"
    /\ UNCHANGED <<args, rvr, mtn, pds>>

\* The condition of the second loop, and the pool it takes from: the Paradise
\* pool unless the Mountain pool is strictly larger.
\* (The Bad... operators here and elsewhere are mutated forms, used only to
\* show that the properties would notice such a mistake.)
BadMtnLoop == deltaMtn < 0 /\ mtn + pds >= mtn0 + pds0 + deltaMtn
MtnLoop == deltaMtn < 0 /\ mtn + pds > mtn0 + pds0 + deltaMtn
BadTakeMtn == mtn0 > pds0
TakeMtn == mtn > pds
BadPoolEmpty == FALSE
PoolEmpty == IF TakeMtn THEN mtn = 0 ELSE pds = 0

RemoveMtnOrPds ==
    /\ pc = "mtn"
    /\ MtnLoop /\ ~PoolEmpty
    /\ mtn' = IF TakeMtn THEN mtn - 1 ELSE mtn
    /\ pds' = IF TakeMtn THEN pds ELSE pds - 1
    /\ UNCHANGED <<pc, args, rvr>>

\* The loop condition fails, or "some weird condition where both lists are
\* empty" breaks out of it.
BadLeaveMtn ==
    /\ pc = "mtn"
    /\ ~MtnLoop
    /\ pc' = "done"
    /\ UNCHANGED <<args, rvr, mtn, pds>>

LeaveMtn ==
    /\ pc = "mtn"
    /\ ~MtnLoop \/ PoolEmpty
    /\ pc' = "done"
    /\ UNCHANGED <<args, rvr, mtn, pds>>

Next == RemoveRvr \/ LeaveRvr \/ RemoveMtnOrPds \/ LeaveMtn

Spec == Init /\ [][Next]_vars /\ WF_vars(Next)

-----------------------------------------------------------------------------
\* The lengths are lengths: no loop ever takes a node from an empty map.
TypeOK ==
    /\ pc \in {"rvr", "mtn", "done"}
    /\ deltaRvr \in Deltas /\ deltaMtn \in Deltas
    /\ rvr0 \in Sizes /\ mtn0 \in Sizes /\ pds0 \in Sizes
    /\ rvr \in Nat /\ mtn \in Nat /\ pds \in Nat

\* When rebalanceNodes returns, each of its three maps has lost exactly the
\* share the closed forms compute: River min(-deltaRvr, len), and Mountain and
\* Paradise together min(-deltaMtn, total), levelled before they alternate.
SharesExact ==
    pc = "done" =>
        LET k == MtnPdsShare(deltaMtn, mtn0, pds0)
        IN  /\ rvr = rvr0 - RvrShare(deltaRvr, rvr0)
            /\ pds = pds0 - PdsShare(mtn0, pds0, k)
            /\ mtn = mtn0 - (k - PdsShare(mtn0, pds0, k))

\* "balance removal so take from whichever pool is larger": the removals never
\* drive the two pools further apart than they were on entry, except for the
\* single node by which an even pair has to differ.
GapNeverGrows ==
    LET Gap(a, b) == IF a > b THEN a - b ELSE b - a
    IN  Gap(mtn, pds) <= LocMax(Gap(mtn0, pds0), 1)

\* rebalanceNodes returns, whatever the maps hold and whatever was asked for.
Returns == <>(pc = "done")

=============================================================================
