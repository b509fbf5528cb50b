---------------------------- MODULE PodFleetProofs ----------------------------
(***************************************************************************)
(* The safety of PodFleet for any number of pods, nodes and faults.  The   *)
(* type invariant is inductive as it stands; the lease protocol of each    *)
(* pod follows from it, step by step.  From the lease: a pod loses a       *)
(* record it needs only by a silence of its own, and without silences no   *)
(* node is watched twice.  From the cardinalities of finite sets: a pass   *)
(* leaves a pod with its share, and the shares are more than the nodes, so *)
(* that some pod asks for more.                                            *)
(***************************************************************************)
EXTENDS PodFleet, FunctionTheorems, FiniteSetTheorems, TLAPS

LEMMA InitTypeOK == Init => TypeOK
  BY FleetBounds DEF Init, TypeOK

\* What a pass of doGetNewNodes does, whatever is lost of it: the pod p takes
\* nodes that were free, and gives back nodes it watches or has just taken.
Exchanged(p, granted, rn) ==
    /\ \A n \in granted : owner[n] = "nobody"
    /\ held' = [held EXCEPT ![p] = held'[p]]
    /\ held'[p] \subseteq (held[p] \cup granted) \ rn
    /\ rn \subseteq held[p] \cup granted
    /\ owner' \in {Released(p, Granted(p, granted), rn), Granted(p, granted)}

LEMMA PassStep ==
    ASSUME NEW p \in Pods, NEW delta, NEW answered \in BOOLEAN,
           NEW delivered \in BOOLEAN, TypeOK, Pass(p, delta, answered, delivered)
    PROVE  \E granted, rn \in SUBSET Nodes : Exchanged(p, granted, rn)
  <1> DEFINE num == PinNumNodes(SpareRvr(delta), MaxAcquireRvr)
  <1>1. PICK granted \in Grants(p, num) :
            LET rvr == held[p] \cup IF answered THEN granted ELSE {}
                own == Granted(p, granted)
            IN  \E rn \in kSubset(RvrShare(SpareRvr(delta), Cardinality(rvr)), rvr) :
                    /\ held' = [held EXCEPT ![p] = rvr \ rn]
                    /\ owner' = IF delivered THEN Released(p, own, rn) ELSE own
    BY DEF Pass
  <1> DEFINE rvr == held[p] \cup IF answered THEN granted ELSE {}
  <1>2. PICK rn \in kSubset(RvrShare(SpareRvr(delta), Cardinality(rvr)), rvr) :
            /\ held' = [held EXCEPT ![p] = rvr \ rn]
            /\ owner' = IF delivered THEN Released(p, Granted(p, granted), rn)
                                     ELSE Granted(p, granted)
    BY <1>1
  <1>3. granted \subseteq Nodes /\ \A n \in granted : owner[n] = "nobody"
    BY DEF Grants, kSubset
  <1>4. rn \subseteq rvr
    BY DEF kSubset
  <1>5. held'[p] = rvr \ rn /\ held' = [held EXCEPT ![p] = held'[p]]
    BY <1>2 DEF TypeOK
  <1>6. rvr \subseteq held[p] \cup granted /\ held[p] \subseteq Nodes
    BY DEF TypeOK
  <1> HIDE DEF rvr
  <1>7. granted \in SUBSET Nodes /\ rn \in SUBSET Nodes
    BY <1>3, <1>4, <1>6
  <1>8. /\ held'[p] \subseteq (held[p] \cup granted) \ rn
        /\ rn \subseteq held[p] \cup granted
    BY <1>4, <1>5, <1>6
  <1>9. owner' \in {Released(p, Granted(p, granted), rn), Granted(p, granted)}
    BY <1>2
  <1> QED
    BY <1>3, <1>5, <1>7, <1>8, <1>9 DEF Exchanged

\* The two ways to go through a pass.
LEMMA PassOf ==
    ASSUME NEW p \in Pods, DoGetNewNodes(p) \/ DoGetNewNodesBadly(p)
    PROVE  /\ \E delta : \E answered, delivered \in BOOLEAN :
                    Pass(p, delta, answered, delivered)
           /\ NoFault \/ Fault
  BY DEF DoGetNewNodes, DoGetNewNodesBadly

LEMMA FaultType == TypeOK /\ (NoFault \/ Fault) => faults' \in 0 .. MaxFaults
  BY FleetBounds DEF TypeOK, NoFault, Fault

LEMMA ReleasedType ==
    ASSUME NEW p \in Pods, NEW own \in [Nodes -> Pods \cup {"nobody"}], NEW nodes
    PROVE  Released(p, own, nodes) \in [Nodes -> Pods \cup {"nobody"}]
  BY DEF Released

LEMMA PassTypeOK ==
    ASSUME NEW p \in Pods, TypeOK, DoGetNewNodes(p) \/ DoGetNewNodesBadly(p)
    PROVE  TypeOK'
  <1>1. PICK delta : \E answered, delivered \in BOOLEAN :
                            Pass(p, delta, answered, delivered)
    BY PassOf
  <1>2. PICK answered \in BOOLEAN, delivered \in BOOLEAN :
                Pass(p, delta, answered, delivered)
    BY <1>1
  <1>3. PICK granted \in SUBSET Nodes, rn \in SUBSET Nodes : Exchanged(p, granted, rn)
    BY <1>2, PassStep
  <1>4. Granted(p, granted) \in [Nodes -> Pods \cup {"nobody"}]
    BY DEF Granted, TypeOK
  <1>5. owner' \in [Nodes -> Pods \cup {"nobody"}]
    BY <1>3, <1>4, ReleasedType DEF Exchanged
  <1>6. /\ state[p] \in {"up", "leaving"} /\ active' = active
        /\ state' = [state EXCEPT ![p] = IF @ = "leaving" THEN "late" ELSE @]
    BY <1>2 DEF Pass
  <1>7. held' \in [Pods -> SUBSET Nodes]
    BY <1>3 DEF Exchanged, TypeOK
  <1>8. state' \in [Pods -> {"up", "leaving", "late", "down"}]
    BY <1>6 DEF TypeOK
  <1>9. \A q \in Pods : state'[q] \in {"leaving", "down"} => held'[q] = {}
    BY <1>3, <1>6 DEF Exchanged, TypeOK
  <1>10. faults' \in 0 .. MaxFaults
    BY PassOf, FaultType
  <1> QED
    BY <1>5, <1>6, <1>7, <1>8, <1>9, <1>10 DEF TypeOK

LEMMA PodTypeOK ==
    ASSUME NEW p \in Pods, TypeOK, PodNext(p)
    PROVE  TypeOK'
  <1>1. CASE DoGetNewNodes(p) \/ DoGetNewNodesBadly(p)
    BY <1>1, PassTypeOK
  <1>2. ASSUME NEW answered \in BOOLEAN, Heartbeat(p, answered), NoFault \/ Fault
        PROVE  TypeOK'
    <2>1. faults' \in 0 .. MaxFaults
      BY <1>2, FaultType
    <2>2. /\ active' \subseteq Pods /\ UNCHANGED <<owner, state>>
          /\ held' \in [Pods -> SUBSET Nodes]
          /\ \A q \in Pods : held'[q] \subseteq held[q]
      BY <1>2 DEF Heartbeat, LostNodes, TypeOK
    <2> QED
      BY <2>1, <2>2 DEF TypeOK
  <1>3. CASE ReleaseAllNodes(p)
    <2>1. faults' \in 0 .. MaxFaults
      BY <1>3, FaultType DEF ReleaseAllNodes
    <2>2. owner' \in [Nodes -> Pods \cup {"nobody"}]
      BY <1>3, ReleasedType DEF ReleaseAllNodes, TypeOK
    <2> QED
      BY <1>3, <2>1, <2>2 DEF ReleaseAllNodes, TypeOK
  <1>4. CASE Exit(p) \/ Crash(p)
    <2>1. faults' \in 0 .. MaxFaults
      BY <1>4, FaultType DEF Exit, Crash
    <2> QED
      BY <1>4, <2>1 DEF Exit, Crash, Ends, TypeOK
  <1>5. CASE Restart(p)
    BY <1>5 DEF Restart, TypeOK
  <1> QED
    BY <1>1, <1>2, <1>3, <1>4, <1>5
    DEF PodNext, SendSingleHeartbeat, HeartbeatUnanswered

LEMMA DataTypeOK == TypeOK /\ DataNext => TypeOK'
  <1> SUFFICES ASSUME TypeOK, DataNext PROVE TypeOK'
    OBVIOUS
  <1>1. ASSUME NEW p \in Pods, Silence(p) PROVE TypeOK'
    <2>1. faults' \in 0 .. MaxFaults
      BY <1>1, FaultType DEF Silence
    <2>2. owner' \in [Nodes -> Pods \cup {"nobody"}]
      BY <1>1, ReleasedType DEF Silence, TypeOK
    <2> QED
      BY <1>1, <2>1, <2>2 DEF Silence, TypeOK
  <1>2. ASSUME NEW p \in Pods, Inactive(p) PROVE TypeOK'
    BY <1>2 DEF Inactive, TypeOK
  <1>3. ASSUME NEW n \in Nodes, Stale(n) PROVE TypeOK'
    BY <1>3 DEF Stale, TypeOK
  <1> QED
    BY <1>1, <1>2, <1>3 DEF DataNext

\* The types of a fleet of any size; a pod that is down or has released its
\* nodes for good watches none.
THEOREM FleetTypeCorrect == Spec => []TypeOK
  <1>1. TypeOK /\ [Next]_vars => TypeOK'
    <2>1. CASE UNCHANGED vars
      BY <2>1 DEF vars, TypeOK
    <2> QED
      BY <2>1, PodTypeOK, DataTypeOK DEF Next
  <1> QED
    BY <1>1, InitTypeOK, PTL DEF Spec

-----------------------------------------------------------------------------
\* Pod p keeps to the lease protocol in its own steps ...
LEMMA PassLease ==
    ASSUME NEW p \in Pods, TypeOK, DoGetNewNodes(p) \/ DoGetNewNodesBadly(p)
    PROVE  L(p)!Exchange
  <1>1. PICK delta : \E answered, delivered \in BOOLEAN :
                            Pass(p, delta, answered, delivered)
    BY PassOf
  <1>2. PICK granted \in SUBSET Nodes, rn \in SUBSET Nodes : Exchanged(p, granted, rn)
    BY <1>1, PassStep
  <1>3. \A n \in Nodes :
            /\ n \notin granted \cup rn => owner'[n] = owner[n]
            /\ n \in granted \ rn => owner'[n] = p
            /\ n \in granted \cap rn => owner'[n] \in {p, "nobody"}
            /\ n \in rn \ granted =>
                owner'[n] = owner[n] \/ (owner[n] = p /\ owner'[n] = "nobody")
    BY <1>2 DEF Exchanged, Released, Granted
  <1> QED
    BY <1>2, <1>3, NamesAssumption DEF Exchanged, L!Exchange, TypeOK

LEMMA OwnStepLease ==
    ASSUME NEW p \in Pods, TypeOK, PodNext(p)
    PROVE  L(p)!Exchange
  <1>1. CASE DoGetNewNodes(p) \/ DoGetNewNodesBadly(p)
    BY <1>1, PassLease
  <1>2. ASSUME UNCHANGED owner, held'[p] \subseteq held[p]
        PROVE  L(p)!Exchange
    BY <1>2 DEF L!Exchange
  <1>3. CASE SendSingleHeartbeat(p) \/ HeartbeatUnanswered(p)
    BY <1>2, <1>3
    DEF SendSingleHeartbeat, HeartbeatUnanswered, Heartbeat, LostNodes, TypeOK
  <1>4. CASE ReleaseAllNodes(p)
    <2>1. held'[p] = {}
      BY <1>4 DEF ReleaseAllNodes, TypeOK
    <2>2. \A n \in Nodes : owner'[n] # owner[n] =>
                n \in held[p] /\ owner[n] = p /\ owner'[n] = "nobody"
      BY <1>4 DEF ReleaseAllNodes, Released
    <2> QED
      BY <2>1, <2>2 DEF L!Exchange
  <1>5. CASE Exit(p) \/ Crash(p) \/ Restart(p)
    BY <1>2, <1>5 DEF Exit, Crash, Ends, Restart, TypeOK
  <1> QED
    BY <1>1, <1>3, <1>4, <1>5 DEF PodNext

\* ... and in those of another pod q, which changes its own nodes only and puts
\* nothing on record for p, and of console-data.
LEMMA OtherStepLease ==
    ASSUME NEW p \in Pods, NEW q \in Pods, p # q, TypeOK, PodNext(q)
    PROVE  L(p)!Others
  <1>1. CASE DoGetNewNodes(q) \/ DoGetNewNodesBadly(q)
    <2>1. PICK delta : \E answered, delivered \in BOOLEAN :
                            Pass(q, delta, answered, delivered)
      BY <1>1, PassOf
    <2>2. PICK granted \in SUBSET Nodes, rn \in SUBSET Nodes : Exchanged(q, granted, rn)
      BY <2>1, PassStep
    <2>3. held'[p] = held[p]
      BY <2>2 DEF Exchanged, TypeOK
    <2>4. \A n \in Nodes : owner'[n] \in {owner[n], q, "nobody"}
      BY <2>2 DEF Exchanged, Released, Granted
    <2> QED
      BY <2>3, <2>4, NamesAssumption DEF L!Others
  <1>2. CASE SendSingleHeartbeat(q) \/ HeartbeatUnanswered(q)
    BY <1>2 DEF SendSingleHeartbeat, HeartbeatUnanswered, Heartbeat, L!Others, TypeOK
  <1>3. CASE ReleaseAllNodes(q)
    <2>1. held'[p] = held[p]
      BY <1>3 DEF ReleaseAllNodes, TypeOK
    <2>2. \A n \in Nodes : owner'[n] \in {owner[n], "nobody"}
      BY <1>3 DEF ReleaseAllNodes, Released
    <2> QED
      BY <2>1, <2>2, NamesAssumption DEF L!Others
  <1>4. CASE Exit(q) \/ Crash(q) \/ Restart(q)
    BY <1>4 DEF Exit, Crash, Ends, Restart, L!Others, TypeOK
  <1> QED
    BY <1>1, <1>2, <1>3, <1>4 DEF PodNext

LEMMA DataStepLease ==
    ASSUME NEW p \in Pods, TypeOK, DataNext
    PROVE  L(p)!Others
  <1>1. UNCHANGED held
    BY DEF DataNext, Silence, Inactive, Stale
  <1>2. \A n \in Nodes : owner'[n] \in {owner[n], "nobody"}
    BY DEF DataNext, Silence, Inactive, Stale, Released, TypeOK
  <1> QED
    BY <1>1, <1>2, NamesAssumption DEF L!Others

\* In a fleet of any size every pod keeps to the lease protocol, whatever the
\* other pods do and however many faults there are.
THEOREM LeasesAlwaysKept == Spec => LeasesKept
  <1>1. Init => \A p \in Pods : L(p)!Init
    BY DEF Init, L!Init
  <1>2. ASSUME TypeOK, [Next]_vars, NEW p \in Pods
        PROVE  [L(p)!Next]_<<owner, held[p]>>
    <2>1. CASE UNCHANGED vars
      BY <2>1 DEF vars
    <2>2. CASE DataNext
      BY <1>2, <2>2, DataStepLease DEF L!Next
    <2>3. ASSUME NEW q \in Pods, PodNext(q)
          PROVE  [L(p)!Next]_<<owner, held[p]>>
      BY <1>2, <2>3, OwnStepLease, OtherStepLease DEF L!Next
    <2> QED
      BY <1>2, <2>1, <2>2, <2>3 DEF Next
  <1>3. TypeOK /\ [Next]_vars =>
            [\A p \in Pods : [L(p)!Next]_<<owner, held[p]>>]_vars
    BY <1>2
  <1> QED
    BY <1>1, <1>3, FleetTypeCorrect, PTL DEF Spec, LeasesKept

-----------------------------------------------------------------------------
\* A pod that exchanges nodes with console-data is on record for those it keeps
\* and for those it gets.
LEMMA ExchangeKeepsRecord ==
    ASSUME NEW p \in Pods, TypeOK, TypeOK', L(p)!Exchange, OwnRecord(p)
    PROVE  OwnRecord(p)'
  <1> SUFFICES ASSUME NEW n \in held'[p] PROVE owner'[n] = p
    BY DEF OwnRecord
  <1>1. n \in Nodes
    BY DEF TypeOK
  <1>2. CASE n \notin held[p]
    BY <1>2 DEF L!Exchange
  <1>3. CASE n \in held[p]
    BY <1>1, <1>3, NamesAssumption DEF L!Exchange, OwnRecord
  <1> QED
    BY <1>2, <1>3

\* No other pod takes a record of p away, and console-data does so only when p is
\* silent, or for a node that p does not watch.
LEMMA OthersKeepRecord ==
    ASSUME NEW p \in Pods, NEW q \in Pods, p # q, TypeOK, PodNext(q), OwnRecord(p)
    PROVE  OwnRecord(p)'
  <1>1. held'[p] = held[p]
    BY OtherStepLease DEF L!Others
  <1>2. \A n \in Nodes : owner'[n] # owner[n] => owner[n] \in {"nobody", q}
    BY OwnStepLease DEF L!Exchange
  <1> QED
    BY <1>1, <1>2, NamesAssumption DEF OwnRecord, TypeOK

LEMMA DataKeepsRecord ==
    ASSUME NEW p \in Pods, TypeOK, DataNext, OwnRecord(p), ~Silence(p)
    PROVE  OwnRecord(p)'
  <1>1. UNCHANGED held
    BY DEF DataNext, Silence, Inactive, Stale
  <1>2. ASSUME NEW q \in Pods, Silence(q) PROVE OwnRecord(p)'
    <2>1. p # q
      BY <1>2
    <2>2. \A n \in Nodes : owner[n] = p => owner'[n] = p
      BY <1>2, <2>1 DEF Silence, Released
    <2> QED
      BY <1>1, <2>2 DEF OwnRecord, TypeOK
  <1>3. ASSUME NEW q \in Pods, Inactive(q) PROVE OwnRecord(p)'
    BY <1>1, <1>3 DEF Inactive, OwnRecord
  <1>4. ASSUME NEW n \in Nodes, Stale(n) PROVE OwnRecord(p)'
    BY <1>1, <1>4 DEF Stale, OwnRecord, TypeOK
  <1> QED
    BY <1>2, <1>3, <1>4 DEF DataNext

LEMMA StepKeepsRecord ==
    ASSUME NEW p \in Pods, TypeOK, TypeOK', Next, OwnRecord(p), ~Silence(p)
    PROVE  OwnRecord(p)'
  <1>1. CASE DataNext
    BY <1>1, DataKeepsRecord
  <1>2. ASSUME NEW q \in Pods, PodNext(q) PROVE OwnRecord(p)'
    <2>1. CASE q = p
      BY <1>2, <2>1, OwnStepLease, ExchangeKeepsRecord
    <2>2. CASE q # p
      BY <1>2, <2>2, OthersKeepRecord
    <2> QED
      BY <2>1, <2>2
  <1> QED
    BY <1>1, <1>2 DEF Next

\* In a fleet of any size, whatever calls are lost and whichever processes end, a
\* pod watches a node it is not on record for only after it was silent itself.
THEOREM RecordLostInSilence == Spec => OverlapNeedsSilence
  <1>1. TypeOK /\ TypeOK' /\ [Next]_vars =>
            [\A p \in Pods : OwnRecord(p) /\ ~OwnRecord(p)' => Silence(p)]_vars
    BY StepKeepsRecord
  <1> QED
    BY <1>1, FleetTypeCorrect, PTL DEF Spec, OverlapNeedsSilence

\* A console is never watched by two pods, so that no two conmands fight for it,
\* in a fleet in which no pod is silent for so long that console-data gives up on
\* it; crashes, restarts, shutdowns and lost calls of any number may happen.
THEOREM ExclusiveWithoutSilence ==
    Init /\ [][Next /\ \A p \in Pods : ~Silence(p)]_vars => []Exclusive
  <1> DEFINE Inv == TypeOK /\ OnRecord
  <1>1. Init => Inv
    BY InitTypeOK DEF Init, OnRecord, OwnRecord
  <1>2. Inv /\ [Next /\ \A p \in Pods : ~Silence(p)]_vars => Inv'
    <2> SUFFICES ASSUME Inv, [Next /\ \A p \in Pods : ~Silence(p)]_vars PROVE Inv'
      OBVIOUS
    <2>1. CASE UNCHANGED vars
      BY <2>1 DEF vars, TypeOK, OnRecord, OwnRecord
    <2>2. CASE Next /\ \A p \in Pods : ~Silence(p)
      <3>1. TypeOK'
        BY <2>2, PodTypeOK, DataTypeOK DEF Next
      <3>2. ASSUME NEW p \in Pods PROVE OwnRecord(p)'
        BY <2>2, <3>1, StepKeepsRecord DEF OnRecord
      <3> QED
        BY <3>1, <3>2 DEF OnRecord
    <2> QED
      BY <2>1, <2>2
  <1>3. Inv => Exclusive
    BY DEF OnRecord, OwnRecord, Exclusive
  <1> QED
    BY <1>1, <1>2, <1>3, PTL

-----------------------------------------------------------------------------
\* There is always a share, whatever number of pods console-data answers.
LEMMA IdealNumType ==
    ASSUME NEW total \in Nat, NEW numPods \in Nat
    PROVE  IdealNum(total, numPods) \in Nat \ {0}
  <1>1. LocMax(numPods, 1) \in Nat \ {0}
    BY DEF LocMax
  <1>2. total \div LocMax(numPods, 1) \in Nat
    BY <1>1
  <1> QED
    BY <1>2 DEF IdealNum

\* A pod that is asked to give nodes back ends with its ideal number of them.
LEMMA GiveBack ==
    ASSUME NEW p \in Pods, TypeOK, NEW ideal \in Nat \ {0},
           OverIdeal(Cardinality(held[p]), ideal),
           Pass(p, DeltaNum(Cardinality(held[p]), ideal), TRUE, TRUE)
    PROVE  Cardinality(held'[p]) = ideal
  <1> DEFINE num == Cardinality(held[p])
             free == {n \in Nodes : owner[n] = "nobody" /\ n # Worker[p]}
             delta == SpareRvr(DeltaNum(num, ideal))
  <1>1. held[p] \subseteq Nodes /\ IsFiniteSet(held[p]) /\ num \in Nat
    BY FiniteAssumption, FS_Subset, FS_CardinalityType DEF TypeOK
  <1>2. delta = ideal - num /\ delta < 0
    BY <1>1 DEF OverIdeal, DeltaNum, SpareRvr
  <1>3. IsFiniteSet(free) /\ Cardinality(free) \in Nat
    BY FiniteAssumption, FS_Subset, FS_CardinalityType
  <1>4. PICK granted \in Grants(p, PinNumNodes(delta, MaxAcquireRvr)) :
            \E rn \in kSubset(RvrShare(delta, Cardinality(held[p] \cup granted)),
                              held[p] \cup granted) :
                held' = [held EXCEPT ![p] = (held[p] \cup granted) \ rn]
    BY DEF Pass
  <1> HIDE DEF delta
  <1>5. granted = {}
    <2>1. PinNumNodes(delta, MaxAcquireRvr) = 0
      BY <1>2 DEF PinNumNodes
    <2>2. PinNumNodes(0, Cardinality(free)) = 0
      BY <1>3 DEF PinNumNodes
    <2>3. granted \in SUBSET free /\ Cardinality(granted) = 0
      BY <2>1, <2>2 DEF Grants, kSubset
    <2> QED
      BY <1>3, <2>3, FS_Subset, FS_EmptySet
  <1>6. PICK rn \in kSubset(RvrShare(delta, num), held[p]) :
            held' = [held EXCEPT ![p] = held[p] \ rn]
    BY <1>4, <1>5
  <1>7. rn \subseteq held[p] /\ Cardinality(rn) = num - ideal
    BY <1>1, <1>2 DEF kSubset, RvrShare
  <1>8. held'[p] = held[p] \ rn
    BY <1>6 DEF TypeOK
  <1>9. Cardinality(held[p] \ rn) = num - Cardinality(held[p] \cap rn)
    BY <1>1, FS_Difference
  <1>10. Cardinality(held[p] \cap rn) = num - ideal
    <2>1. held[p] \cap rn = rn
      BY <1>7
    <2> QED
      BY <1>7, <2>1
  <1> QED
    BY <1>1, <1>8, <1>9, <1>10

\* A pod that asks for nodes gets as many as it asked for, as many as it may ask
\* for, or all there are, and gives none back.
LEMMA Take ==
    ASSUME NEW p \in Pods, TypeOK, NEW delta \in Nat \ {0}, Pass(p, delta, TRUE, TRUE)
    PROVE  /\ Cardinality(held'[p]) \in Nat
           /\ Cardinality(held'[p]) <= Cardinality(held[p]) + delta
           /\ Cardinality(held'[p]) >= Cardinality(held[p])
           /\ OwnRecord(p) =>
                \/ Cardinality(held'[p]) = Cardinality(held[p]) + delta
                \/ Cardinality(held'[p]) = Cardinality(held[p]) + MaxAcquireRvr
                \/ \A n \in Nodes : owner'[n] = "nobody" => n = Worker[p]
  <1> DEFINE num == Cardinality(held[p])
             free == {n \in Nodes : owner[n] = "nobody" /\ n # Worker[p]}
             ask == PinNumNodes(PinNumNodes(delta, MaxAcquireRvr), Cardinality(free))
  <1>1. held[p] \subseteq Nodes /\ IsFiniteSet(held[p]) /\ num \in Nat
    BY FiniteAssumption, FS_Subset, FS_CardinalityType DEF TypeOK
  <1>2. SpareRvr(delta) = delta
    BY DEF SpareRvr
  <1>3. IsFiniteSet(free) /\ Cardinality(free) \in Nat
    BY FiniteAssumption, FS_Subset, FS_CardinalityType
  <1>4. PICK granted \in kSubset(ask, free) :
            \E rn \in kSubset(RvrShare(delta, Cardinality(held[p] \cup granted)),
                              held[p] \cup granted) :
                /\ held' = [held EXCEPT ![p] = (held[p] \cup granted) \ rn]
                /\ owner' = Released(p, Granted(p, granted), rn)
    BY <1>2 DEF Pass, Grants
  <1>5. ask \in Nat /\ ask <= delta /\ ask \in {delta, MaxAcquireRvr, Cardinality(free)}
    BY <1>3, FleetBounds DEF PinNumNodes
  <1> HIDE DEF ask
  <1>6. /\ granted \in SUBSET free /\ Cardinality(granted) = ask
        /\ IsFiniteSet(granted) /\ IsFiniteSet(held[p] \cup granted)
    BY <1>1, <1>3, FS_Subset, FS_Union DEF kSubset
  <1>7. PICK rn \in kSubset(0, held[p] \cup granted) :
                /\ held' = [held EXCEPT ![p] = (held[p] \cup granted) \ rn]
                /\ owner' = Released(p, Granted(p, granted), rn)
    <2>1. RvrShare(delta, Cardinality(held[p] \cup granted)) = 0
      BY DEF RvrShare
    <2> QED
      BY <1>4, <2>1
  <1>8. rn = {}
    BY <1>6, FS_Subset, FS_EmptySet DEF kSubset
  <1>9. held'[p] = held[p] \cup granted
    BY <1>7, <1>8 DEF TypeOK
  <1>10. /\ Cardinality(held'[p]) = num + ask - Cardinality(held[p] \cap granted)
         /\ Cardinality(held[p] \cap granted) \in Nat
         /\ Cardinality(held[p] \cap granted) <= ask
    BY <1>1, <1>6, <1>9, FS_Union, FS_Intersection, FS_CardinalityType
  <1>11. /\ Cardinality(held'[p]) \in Nat
         /\ Cardinality(held'[p]) <= num + delta
         /\ Cardinality(held'[p]) >= num
    BY <1>1, <1>5, <1>10
  <1>12. ASSUME OwnRecord(p) PROVE held[p] \cap granted = {}
    BY <1>6, <1>12, NamesAssumption DEF OwnRecord
  <1>13. ASSUME OwnRecord(p) PROVE Cardinality(held'[p]) = num + ask
    <2>1. Cardinality(held[p] \cap granted) = 0
      BY <1>12, <1>13, FS_EmptySet
    <2> QED
      BY <1>1, <1>5, <1>10, <2>1
  <1>14. ASSUME ask = Cardinality(free), NEW n \in Nodes, owner'[n] = "nobody"
         PROVE  n = Worker[p]
    <2>1. granted = free
      BY <1>3, <1>6, <1>14, FS_Subset
    <2>2. n \notin granted /\ owner[n] = "nobody"
      BY <1>7, <1>8, <1>14, NamesAssumption DEF Released, Granted
    <2> QED
      BY <2>1, <2>2
  <1> QED
    BY <1>5, <1>11, <1>13, <1>14

\* Whatever the other pods do meanwhile, a pass with good answers brings any pod of
\* any fleet to its ideal number of nodes, as far as there are nodes for it, and
\* beyond it only by the spare.
THEOREM PassAlwaysBalances == Spec => PassBalances
  <1>1. ASSUME TypeOK, NEW p \in Pods, DoGetNewNodes(p)
        PROVE  Balances(p)
    <2> DEFINE ideal == IdealNum(Cardinality(Nodes), Cardinality(active))
               before == Cardinality(held[p])
               after == Cardinality(held'[p])
               delta == DeltaNum(before, ideal)
               noneLeft == \A n \in Nodes : owner'[n] = "nobody" => n = Worker[p]
    <2>1. Cardinality(Nodes) \in Nat /\ Cardinality(active) \in Nat /\ before \in Nat
      BY <1>1, FiniteAssumption, FS_Subset, FS_CardinalityType DEF TypeOK
    <2>2. ideal \in Nat \ {0}
      BY <2>1, IdealNumType
    <2>3. Pass(p, delta, TRUE, TRUE)
      BY <1>1 DEF DoGetNewNodes, Balanced
    <2> SUFFICES /\ after > ideal => after <= before + 1 /\ ~OverIdeal(before, ideal)
                 /\ after < ideal /\ OwnRecord(p) =>
                        after = before + MaxAcquireRvr \/ noneLeft
      BY DEF Balances
    <2> HIDE DEF ideal, noneLeft
    <2>4. CASE OverIdeal(before, ideal)
      <3>1. after = ideal
        BY <1>1, <2>2, <2>3, <2>4, GiveBack
      <3> QED
        BY <2>2, <3>1
    <2>5. CASE before < ideal
      <3>1. delta = ideal - before /\ delta \in Nat \ {0}
        BY <2>1, <2>2, <2>5 DEF DeltaNum
      <3>2. /\ after \in Nat /\ after <= before + delta
            /\ OwnRecord(p) =>
                after = before + delta \/ after = before + MaxAcquireRvr \/ noneLeft
        BY <1>1, <2>3, <3>1, Take DEF noneLeft
      <3> HIDE DEF before, after, delta
      <3> QED
        BY <2>1, <2>2, <3>1, <3>2
    <2>6. CASE ~OverIdeal(before, ideal) /\ ~(before < ideal)
      <3>1. delta = 0
        BY <2>6 DEF DeltaNum
      <3>2. Pass(p, 1, TRUE, TRUE)
        BY <2>3, <3>1 DEF Pass, SpareRvr
      <3>3. 1 \in Nat \ {0}
        OBVIOUS
      <3>4. after \in Nat /\ after <= before + 1 /\ after >= before
        BY <1>1, <3>2, <3>3, Take
      <3> HIDE DEF before, after
      <3> QED
        BY <2>1, <2>2, <2>6, <3>4
    <2> QED
      BY <2>4, <2>5, <2>6
  <1>2. TypeOK /\ [Next]_vars =>
            [\A p \in Pods : DoGetNewNodes(p) => Balances(p)]_vars
    BY <1>1
  <1> QED
    BY <1>2, FleetTypeCorrect, PTL DEF Spec, PassBalances

-----------------------------------------------------------------------------
\* The spare that the ideal number contains: together the shares of the pods are
\* more than there are nodes.
LEMMA IdealsExceedTotal ==
    ASSUME NEW total \in Nat, NEW numPods \in Nat \ {0}
    PROVE  numPods * IdealNum(total, numPods) > total
  <1> DEFINE q == total \div numPods
  <1>1. /\ q \in Nat /\ total % numPods \in 0 .. numPods - 1
        /\ total = numPods * q + (total % numPods)
    OBVIOUS
  <1>2. LocMax(numPods, 1) = numPods
    BY DEF LocMax
  <1>3. IdealNum(total, numPods) = q + 1
    BY <1>2 DEF IdealNum
  <1> HIDE DEF q
  <1>4. numPods * (q + 1) = numPods * q + numPods /\ numPods * q \in Nat
    BY <1>1
  <1> QED
    BY <1>1, <1>3, <1>4

LEMMA BijectionCounts ==
    ASSUME NEW n, NEW T, NEW c \in Bijection(1 .. n, T)
    PROVE  /\ c \in [1 .. n -> T]
           /\ \A i, j \in 1 .. n : c[i] = c[j] => i = j
  BY Fun_BijectionProperties

\* Disjoint sets that all have at least k elements: there are k times as many
\* elements in a set that contains them.
LEMMA DisjointSets ==
    ASSUME NEW P, IsFiniteSet(P), NEW S, IsFiniteSet(S), NEW k \in Nat,
           NEW h \in [P -> SUBSET S],
           \A p, q \in P : p # q => h[p] \cap h[q] = {},
           \A p \in P : Cardinality(h[p]) >= k
    PROVE  Cardinality(P) * k <= Cardinality(S)
  <1>1. ASSUME NEW p \in P
        PROVE  \E c : /\ \A i \in 1 .. k : c[i] \in h[p]
                     /\ \A i, j \in 1 .. k : c[i] = c[j] => i = j
    <2>1. IsFiniteSet(h[p]) /\ Cardinality(h[p]) \in Nat
      BY <1>1, FS_Subset, FS_CardinalityType
    <2>2. PICK c : c \in Bijection(1 .. Cardinality(h[p]), h[p])
      BY <2>1, FS_CardinalityType, Fun_ExistsBij
    <2>3. c \in [1 .. Cardinality(h[p]) -> h[p]]
      BY <2>2, BijectionCounts
    <2>4. \A i, j \in 1 .. Cardinality(h[p]) : c[i] = c[j] => i = j
      BY <2>2, BijectionCounts
    <2>5. 1 .. k \subseteq 1 .. Cardinality(h[p])
      BY <1>1, <2>1
    <2> QED
      BY <2>3, <2>4, <2>5
  <1> DEFINE Counts(p, c) == /\ \A i \in 1 .. k : c[i] \in h[p]
                             /\ \A i, j \in 1 .. k : c[i] = c[j] => i = j
             count(p) == CHOOSE c : Counts(p, c)
             all == [x \in P \X (1 .. k) |-> count(x[1])[x[2]]]
  <1>2. ASSUME NEW p \in P PROVE Counts(p, count(p))
    BY <1>1
  <1> HIDE DEF count
  <1>3. all \in [P \X (1 .. k) -> S]
    BY <1>2
  <1>4. \A x, y \in P \X (1 .. k) : all[x] = all[y] => x = y
    <2> SUFFICES ASSUME NEW p \in P, NEW i \in 1 .. k, NEW q \in P, NEW j \in 1 .. k,
                        count(p)[i] = count(q)[j]
                 PROVE  p = q /\ i = j
      OBVIOUS
    <2>1. count(p)[i] \in h[p] /\ count(q)[j] \in h[q]
      BY <1>2
    <2>2. p = q
      BY <2>1
    <2> QED
      BY <1>2, <2>2
  <1> HIDE DEF all
  <1>5. all \in Injection(P \X (1 .. k), S)
    BY <1>3, <1>4, Fun_IsInj
  <1>6. Cardinality(P \X (1 .. k)) <= Cardinality(S)
    BY <1>5, FS_Injection
  <1>7. IsFiniteSet(1 .. k) /\ Cardinality(1 .. k) = k
    <2>1. 1 \in Int /\ k \in Int
      OBVIOUS
    <2> QED
      BY <2>1, FS_Interval
  <1> QED
    BY <1>6, <1>7, FS_Product

\* Pods that console-data counts and that watch different nodes are never all at
\* their ideal numbers, however many pods and nodes there are.
THEOREM SomeoneAlwaysAsks == Spec => []SomeoneAsks
  <1>1. TypeOK => SomeoneAsks
    <2> SUFFICES ASSUME TypeOK, Exclusive, active # {},
                        \A p \in active : ~(Balanced(p, Cardinality(active)) > 0)
                 PROVE  FALSE
      BY DEF SomeoneAsks
    <2> DEFINE total == Cardinality(Nodes)
               num == Cardinality(active)
               ideal == IdealNum(total, num)
               h == [p \in active |-> held[p]]
    <2>1. /\ IsFiniteSet(active) /\ IsFiniteSet(Nodes)
          /\ total \in Nat /\ num \in Nat \ {0}
      BY FiniteAssumption, FS_Subset, FS_CardinalityType, FS_EmptySet DEF TypeOK
    <2>2. ideal \in Nat \ {0}
      BY <2>1, IdealNumType
    <2>3. num * ideal > total
      BY <2>1, IdealsExceedTotal
    <2>4. ASSUME NEW p \in active PROVE Cardinality(h[p]) >= ideal
      <3>1. p \in Pods /\ held[p] \subseteq Nodes
        BY DEF TypeOK
      <3>2. Cardinality(held[p]) \in Nat
        BY <2>1, <3>1, FS_Subset, FS_CardinalityType
      <3>3. ~(DeltaNum(Cardinality(held[p]), ideal) > 0)
        BY DEF Balanced
      <3> HIDE DEF ideal
      <3> QED
        BY <2>2, <3>2, <3>3 DEF DeltaNum
    <2>5. /\ h \in [active -> SUBSET Nodes]
          /\ \A p, q \in active : p # q => h[p] \cap h[q] = {}
      BY DEF TypeOK, Exclusive
    <2> HIDE DEF ideal, h
    <2>6. num * ideal <= total
      BY <2>1, <2>2, <2>4, <2>5, DisjointSets
    <2> HIDE DEF num, total
    <2>7. num * ideal \in Int
      BY <2>1, <2>2
    <2> QED
      BY <2>1, <2>3, <2>6, <2>7
  <1> QED
    BY <1>1, FleetTypeCorrect, PTL

=============================================================================
