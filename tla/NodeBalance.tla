----------------------------- MODULE NodeBalance -----------------------------
(***************************************************************************)
(* The arithmetic of nodes.go: how many consoles a console-node pod should *)
(* watch, how many it asks console-data for, and how many it gives back.   *)
(* Everything here is a pure operator; NodeManager applies them to the     *)
(* pod's node maps and RebalanceLoop runs the removal loop step by step.   *)
(***************************************************************************)
EXTENDS Integers

\* pinNumNodes: bring the number asked for into 0 .. numMax.
PinNumNodes(numAsk, numMax) ==
    IF numAsk < 0 THEN 0 ELSE IF numAsk > numMax THEN numMax ELSE numAsk

\* locMax
LocMax(a, b) == IF a > b THEN a ELSE b

\* This pod's share of the hardware: the truncating division plus one spare.
BadIdealNum(total, numPods) == total \div LocMax(numPods, 1)
IdealNum(total, numPods) == (total \div LocMax(numPods, 1)) + 1

\* float64(curr) > 1.1 * float64(ideal), without rounding: the float64 nearest
\* to 1.1 lies above it, so the comparison is false at curr = 11/10 * ideal.
OverIdeal(curr, ideal) == 10 * curr > 11 * ideal

\* The correction towards the ideal number: none inside the gap that is meant
\* to avoid bouncing, otherwise the plain difference, of either sign.
BadDeltaNum(curr, ideal) == IF curr < ideal THEN ideal - curr ELSE 0
DeltaNum(curr, ideal) ==
    IF curr < ideal \/ OverIdeal(curr, ideal) THEN ideal - curr ELSE 0

\* "Make sure we can always take one river node if we need to move a worker"
BadSpareRvr(deltaRvr) == deltaRvr
SpareRvr(deltaRvr) == IF deltaRvr = 0 THEN 1 ELSE deltaRvr

\* updateNodesPerPod: a line of the target file that was absent leaves -1 and
\* keeps the old target; Atoi turns a malformed number into 0, which is kept.
UpdateTarget(target, read) == IF read >= 0 THEN read ELSE target

\* The River loop of rebalanceNodes: how many of n nodes it removes.
RvrShare(deltaRvr, n) ==
    IF deltaRvr >= 0 THEN 0 ELSE IF -deltaRvr < n THEN -deltaRvr ELSE n

\* How many nodes the Mountain / Paradise loop of rebalanceNodes removes from
\* two pools of m Mountain and p Paradise nodes.
MtnPdsShare(deltaMtn, m, p) ==
    IF deltaMtn >= 0 THEN 0 ELSE IF -deltaMtn < m + p THEN -deltaMtn ELSE m + p

\* Of k nodes taken one at a time from the larger pool (Paradise on a tie), the
\* number that come from the Paradise pool: first the pools are levelled, then
\* they alternate.
PdsShare(m, p, k) ==
    LET pdsFirst == IF p > m THEN p - m ELSE 0
        mtnFirst == IF m > p THEN m - p ELSE 0
    IN  IF k <= pdsFirst + mtnFirst
        THEN IF p > m THEN k ELSE 0
        ELSE pdsFirst + ((k - pdsFirst - mtnFirst) + 1) \div 2

=============================================================================
