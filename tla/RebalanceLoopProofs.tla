------------------------- MODULE RebalanceLoopProofs -------------------------
(***************************************************************************)
(* For pools of every size and every argument: rebalanceNodes stops with   *)
(* the sizes NodeBalance computes for it, and never drives its two pools   *)
(* apart.                                                                  *)
(***************************************************************************)
EXTENDS RebalanceLoop, TLAPS

\* The number of nodes the second loop has removed so far.
Taken == (mtn0 + pds0) - (mtn + pds)

\* The loop invariant: each loop has removed no more than it should in all, and
\* at every moment the Paradise pool has given its share of what was taken.
LoopInv ==
    /\ TypeOK
    /\ rvr <= rvr0
    /\ rvr0 - rvr <= RvrShare(deltaRvr, rvr0)
    /\ pc # "rvr" => rvr0 - rvr = RvrShare(deltaRvr, rvr0)
    /\ mtn <= mtn0 /\ pds <= pds0
    /\ Taken <= MtnPdsShare(deltaMtn, mtn0, pds0)
    /\ pds = pds0 - PdsShare(mtn0, pds0, Taken)
    /\ pc = "rvr" => Taken = 0
    /\ pc = "done" => Taken = MtnPdsShare(deltaMtn, mtn0, pds0)

\* One more node taken from pools that have shared k removals: it comes from the
\* Paradise pool exactly when that pool is not the smaller one.
LEMMA PdsShareStep ==
    ASSUME NEW m \in Nat, NEW p \in Nat, NEW k \in Nat, k < m + p
    PROVE  LET q == PdsShare(m, p, k)
               mLeft == m - (k - q)
               pLeft == p - q
           IN  /\ mLeft > pLeft => PdsShare(m, p, k + 1) = q /\ mLeft > 0
               /\ ~(mLeft > pLeft) => PdsShare(m, p, k + 1) = q + 1 /\ pLeft > 0
  BY SMT DEF PdsShare

LEMMA PdsShareZero ==
    ASSUME NEW m \in Nat, NEW p \in Nat
    PROVE  PdsShare(m, p, 0) = 0
  BY SMT DEF PdsShare

LEMMA InitLoopInv == Init => LoopInv
  <1> SUFFICES ASSUME Init PROVE LoopInv
    OBVIOUS
  <1>1. TypeOK
    BY SizesAssumption DEF Init, TypeOK
  <1>2. Taken = 0 /\ mtn0 \in Nat /\ pds0 \in Nat /\ rvr0 \in Nat
    BY SizesAssumption DEF Init, Taken
  <1>3. deltaMtn \in Int /\ deltaRvr \in Int
    BY DeltasAssumption DEF Init
  <1> QED
    BY <1>1, <1>2, <1>3, PdsShareZero
    DEF Init, LoopInv, RvrShare, MtnPdsShare

LEMMA NextLoopInv == LoopInv /\ [Next]_vars => LoopInv'
  <1> SUFFICES ASSUME LoopInv, [Next]_vars PROVE LoopInv'
    OBVIOUS
  <1>t. /\ rvr0 \in Nat /\ mtn0 \in Nat /\ pds0 \in Nat
        /\ rvr \in Nat /\ mtn \in Nat /\ pds \in Nat
        /\ deltaRvr \in Int /\ deltaMtn \in Int
        /\ pc \in {"rvr", "mtn", "done"}
    BY SizesAssumption, DeltasAssumption DEF LoopInv, TypeOK
  <1>1. CASE RemoveRvr
    BY <1>1, <1>t DEF RemoveRvr, LoopInv, TypeOK, args, Taken, RvrShare
  <1>2. CASE LeaveRvr
    BY <1>2, <1>t DEF LeaveRvr, LoopInv, TypeOK, args, Taken, RvrShare
  <1>3. CASE RemoveMtnOrPds
    <2>1. /\ args' = args /\ pc' = pc /\ pc = "mtn" /\ rvr' = rvr
          /\ deltaRvr' = deltaRvr /\ deltaMtn' = deltaMtn
          /\ rvr0' = rvr0 /\ mtn0' = mtn0 /\ pds0' = pds0
      BY <1>3 DEF RemoveMtnOrPds, args
    <2>2. /\ Taken \in Nat /\ Taken < mtn0 + pds0
          /\ Taken < MtnPdsShare(deltaMtn, mtn0, pds0)
      BY <1>3, <1>t DEF RemoveMtnOrPds, MtnLoop, PoolEmpty, TakeMtn, LoopInv, Taken,
                        MtnPdsShare
    <2>3. Taken' = Taken + 1
      BY <1>3, <1>t DEF RemoveMtnOrPds, TakeMtn, Taken, args
    <2> DEFINE q == PdsShare(mtn0, pds0, Taken)
    <2>4. q = pds0 - pds
      BY <1>t, PdsShareStep, <2>2 DEF LoopInv, PdsShare
    <2>5. /\ TakeMtn => PdsShare(mtn0, pds0, Taken + 1) = q /\ mtn > 0
          /\ ~TakeMtn => PdsShare(mtn0, pds0, Taken + 1) = q + 1 /\ pds > 0
      <3>1. mtn0 - (Taken - q) = mtn /\ pds0 - q = pds
        BY <2>4, <1>t DEF Taken
      <3> QED
        BY <3>1, <2>2, <1>t, PdsShareStep DEF TakeMtn
    <2>6. /\ mtn' \in Nat /\ pds' \in Nat /\ mtn' <= mtn0 /\ pds' <= pds0
          /\ pds' = pds0 - PdsShare(mtn0, pds0, Taken + 1)
      BY <1>3, <1>t, <2>4, <2>5 DEF RemoveMtnOrPds, LoopInv
    <2>7. Taken + 1 <= MtnPdsShare(deltaMtn, mtn0, pds0)
      BY <2>2, <1>t DEF MtnPdsShare
    <2> QED
      BY <2>1, <2>2, <2>3, <2>6, <2>7, <1>t DEF LoopInv, TypeOK
  <1>4. CASE LeaveMtn
    <2>1. /\ pc = "mtn" /\ pc' = "done"
          /\ rvr' = rvr /\ mtn' = mtn /\ pds' = pds
          /\ deltaRvr' = deltaRvr /\ deltaMtn' = deltaMtn
          /\ rvr0' = rvr0 /\ mtn0' = mtn0 /\ pds0' = pds0
      BY <1>4 DEF LeaveMtn, args
    <2>2. Taken = MtnPdsShare(deltaMtn, mtn0, pds0)
      BY <1>4, <1>t DEF LeaveMtn, MtnLoop, PoolEmpty, TakeMtn, LoopInv, Taken,
                        MtnPdsShare
    <2>3. Taken' = Taken
      BY <2>1 DEF Taken
    <2> QED
      BY <2>1, <2>2, <2>3 DEF LoopInv, TypeOK
  <1>5. CASE UNCHANGED vars
    BY <1>5 DEF vars, LoopInv, TypeOK, Taken
  <1> QED
    BY <1>1, <1>2, <1>3, <1>4, <1>5 DEF Next

\* The loop invariant holds throughout every call of rebalanceNodes.
THEOREM LoopInvariant == Spec => []LoopInv
  <1> QED
    BY InitLoopInv, NextLoopInv, PTL DEF Spec

\* No loop of rebalanceNodes takes a node from an empty map.
THEOREM TypeCorrect == Spec => []TypeOK
  <1>1. LoopInv => TypeOK
    BY DEF LoopInv
  <1> QED
    BY <1>1, LoopInvariant, PTL

\* When rebalanceNodes returns, its maps have lost exactly the closed-form
\* shares, for pools of any size and any deltaRvr and deltaMtn.
THEOREM SharesCorrect == Spec => []SharesExact
  <1>1. LoopInv => SharesExact
    <2> SUFFICES ASSUME LoopInv, pc = "done" PROVE SharesExact
      BY DEF SharesExact
    <2>1. /\ rvr0 \in Nat /\ mtn0 \in Nat /\ pds0 \in Nat
          /\ rvr \in Nat /\ mtn \in Nat /\ pds \in Nat
          /\ deltaRvr \in Int /\ deltaMtn \in Int
      BY SizesAssumption, DeltasAssumption DEF LoopInv, TypeOK
    <2>2. Taken = MtnPdsShare(deltaMtn, mtn0, pds0)
      BY DEF LoopInv
    <2>3. rvr = rvr0 - RvrShare(deltaRvr, rvr0)
      BY <2>1 DEF LoopInv, RvrShare
    <2>4. pds = pds0 - PdsShare(mtn0, pds0, Taken)
      BY DEF LoopInv
    <2>5. mtn = mtn0 - (Taken - PdsShare(mtn0, pds0, Taken))
      BY <2>1, <2>4 DEF Taken, PdsShare
    <2> QED
      BY <2>2, <2>3, <2>4, <2>5 DEF SharesExact
  <1> QED
    BY <1>1, LoopInvariant, PTL

\* However many nodes rebalanceNodes takes, the Mountain and Paradise pools end
\* up no further apart than they were, an odd node aside.
THEOREM GapCorrect == Spec => []GapNeverGrows
  <1>1. LoopInv => GapNeverGrows
    <2> SUFFICES ASSUME LoopInv PROVE GapNeverGrows
      OBVIOUS
    <2>1. /\ mtn0 \in Nat /\ pds0 \in Nat /\ mtn \in Nat /\ pds \in Nat
      BY SizesAssumption DEF LoopInv, TypeOK
    <2>2. /\ pds = pds0 - PdsShare(mtn0, pds0, Taken)
          /\ mtn <= mtn0 /\ pds <= pds0
      BY DEF LoopInv
    <2> QED
      BY <2>1, <2>2 DEF Taken, PdsShare, GapNeverGrows, LocMax
  <1> QED
    BY <1>1, LoopInvariant, PTL
=============================================================================
