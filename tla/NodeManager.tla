------------------------------ MODULE NodeManager ------------------------------
(***************************************************************************)
(* The threads that change the set of watched nodes: watchForNodes         *)
(* (nodes.go), doHeartbeat (data.go) and the shutdown of main              *)
(* (consoleNodeMain.go).  Each of their critical sections is one step: the *)
(* mutex keeps the other writers out, and whatever the rest of the system  *)
(* does during its calls to console-data could as well have been done just *)
(* before or just after the section.                                       *)
(***************************************************************************)
EXTENDS PodState, NodeBalance, FiniteSetsExt

\* getNumActiveNodePods does not look at the status: the body of an error has no
\* count and reads as 0 pods.
GetNumActiveNodePods == PodCounts \cup {0}

\* getCurrentTargets: the totals of an answer with status 200.
GetCurrentTargets == Totals

\* calcChangeInNodes: every result it may compute from what the services
\* answer.  Both answers are good, or the deprecated targets have to do.
CalcChangeInNodes(targetMtn, targetRvr) ==
    LET currNumRvr == Cardinality(currentRvrNodes)
        currNumMtn == Cardinality(currentMtnNodes)
    IN  {[rvr |-> DeltaNum(currNumRvr, IdealNum(t.rvr, numPods)),
          mtn |-> DeltaNum(currNumMtn, IdealNum(t.mtn, numPods))] :
            t \in GetCurrentTargets, numPods \in GetNumActiveNodePods}
        \cup {[rvr |-> PinNumNodes(targetRvr - currNumRvr, MaxAcquireRvr),
               mtn |-> PinNumNodes(targetMtn - currNumMtn, MaxAcquireMtn)]}

\* console-data: the sets of unassigned nodes it may assign to this pod.
Grants(numMtn, numRvr) ==
    {g \in SUBSET {n \in Nodes : owner[n] = "nobody"} :
        /\ Cardinality(g \cap RvrNodes) <= numRvr
        /\ Cardinality(g \ RvrNodes) <= numMtn}

\* console-data: the records once the nodes are assigned to this pod.
Granted(nodes) == [n \in Nodes |-> IF n \in nodes THEN "me" ELSE owner[n]]

\* console-data: a release takes back the nodes still on record for this pod.
Released(own, nodes) ==
    [n \in Nodes |-> IF n \in nodes /\ own[n] = "me" THEN "nobody" ELSE own[n]]

\* acquireNewNodes: what console-data assigns and what the pod is told of it.
BadAcquireNewNodes(numMtn, numRvr) ==
    {[granted |-> PostURL(g, answered), new |-> g] :
        g \in Grants(numMtn, numRvr), answered \in BOOLEAN}
AcquireNewNodes(numMtn, numRvr) ==
    {[granted |-> g, new |-> PostURL(g, answered)] :
        g \in Grants(numMtn, numRvr), answered \in BOOLEAN}

\* releaseNodes: the records if the request arrives, and if it does not.
ReleaseNodes(own, nodes) == {Released(own, nodes), own}

-----------------------------------------------------------------------------
\* watchForNodes wakes up; doGetNewNodes returns at once in a shutdown, and
\* only then goes for the mutex.
WatchWakes ==
    /\ Up /\ wpc = "sleep"
    /\ ~inShutdown
    /\ wpc' = "lock"
    /\ UNCHANGED <<owner, vault, phase, lists, targets, tailThreads, logRotConf,
                   currNodesMutex, hpc, cpc, conf, keys, monitor>>

\* rebalanceNodes on the maps rvr, mtn and pds: the sets of nodes it may take
\* out of each (map iteration is random), with the sizes of RebalanceLoop.
RebalanceChoices(deltaRvr, deltaMtn, rvr, mtn, pds) ==
    LET m == Cardinality(mtn)
        p == Cardinality(pds)
        k == MtnPdsShare(deltaMtn, m, p)
        fromPds == PdsShare(m, p, k)
    IN  {r \cup s \cup t :
            r \in kSubset(RvrShare(deltaRvr, Cardinality(rvr)), rvr),
            s \in kSubset(k - fromPds, mtn),
            t \in kSubset(fromPds, pds)}

\* The maps with the new nodes added, each to the map of its class.
AddedRvr(new) == currentRvrNodes \cup (new \cap RvrNodes)
BadAddedMtn(new) == currentMtnNodes \cup (new \ RvrNodes)
AddedMtn(new) == currentMtnNodes \cup (new \cap MtnNodes)
AddedPds(new) == currentPdsNodes \cup (new \cap PdsNodes)

\* updateLogRotateConf: one entry for each of the nodes now in the maps.
BadUpdateLogRotateConf(nodes) == logRotConf' = CurrNodes
UpdateLogRotateConf(nodes) == logRotConf' = nodes

\* doInitialConfFileUpdate, before any thread runs: nobody else wants the mutex.
DoInitialConfFileUpdate == UpdateLogRotateConf(CurrNodes)

\* doGetNewNodes on the maps: the nodes new come in and the nodes rn go out; if
\* either is something, conmand and the log rotation are told.
ExchangeNodes(new, rn) ==
    /\ currentRvrNodes' = AddedRvr(new) \ rn
    /\ currentMtnNodes' = AddedMtn(new) \ rn
    /\ currentPdsNodes' = AddedPds(new) \ rn
    /\ StopTailing(rn)
    /\ IF new \cap (RvrNodes \cup MtnNodes \cup PdsNodes) # {} \/ rn # {}
       THEN /\ SignalConmanTERM
            /\ UpdateLogRotateConf(
                    (AddedRvr(new) \cup AddedMtn(new) \cup AddedPds(new)) \ rn)
       ELSE NoSignal /\ UNCHANGED logRotConf

\* doGetNewNodes, from currNodesMutex.Lock on.
DoGetNewNodes ==
    /\ Up /\ wpc = "lock" /\ MutexFree
    /\ wpc' = "sleep"
    /\ \E file \in FileReads :
        /\ targetRvrNodes' = UpdateTarget(targetRvrNodes, file.rvr)
        /\ targetMtnNodes' = UpdateTarget(targetMtnNodes, file.mtn)
    /\ \E delta \in CalcChangeInNodes(targetMtnNodes', targetRvrNodes') :
        \E acq \in AcquireNewNodes(PinNumNodes(delta.mtn, MaxAcquireMtn),
                                   PinNumNodes(SpareRvr(delta.rvr), MaxAcquireRvr)) :
            \E rn \in RebalanceChoices(SpareRvr(delta.rvr), delta.mtn,
                        AddedRvr(acq.new), AddedMtn(acq.new), AddedPds(acq.new)) :
                /\ owner' \in ReleaseNodes(Granted(acq.granted), rn)
                /\ ExchangeNodes(acq.new, rn)
    /\ UNCHANGED <<vault, currNodesMutex, hpc, conf, keys, monitor>>

-----------------------------------------------------------------------------
\* The interval of doHeartbeat is over.
HeartbeatDue ==
    /\ Up /\ hpc = "sleep"
    /\ hpc' = "send"
    /\ UNCHANGED <<owner, vault, phase, lists, targets, tailThreads, logRotConf,
                   currNodesMutex, wpc, cpc, conf, keys, monitor>>

\* releaseNode, for each of the given nodes.
BadReleaseNode(nodes) ==
    /\ currentRvrNodes' = currentRvrNodes \ nodes
    /\ currentPdsNodes' = currentPdsNodes \ nodes
    /\ UNCHANGED currentMtnNodes
    /\ StopTailing(nodes)
ReleaseNode(nodes) ==
    /\ currentRvrNodes' = currentRvrNodes \ nodes
    /\ currentMtnNodes' = currentMtnNodes \ nodes
    /\ currentPdsNodes' = currentPdsNodes \ nodes
    /\ StopTailing(nodes)

\* sendSingleHeartbeat: console-data answers with the nodes of the payload that
\* are on record for somebody else or nobody, or there is no usable answer.
SendSingleHeartbeat(answered) ==
    /\ Up /\ hpc = "send" /\ MutexFree
    /\ hpc' = "sleep"
    /\ LET droppedNodes == PostURL({n \in CurrNodes : owner[n] # "me"}, answered)
       IN  /\ ReleaseNode(droppedNodes)
           /\ IF droppedNodes # {} THEN SignalConmanTERM ELSE NoSignal
    /\ UNCHANGED <<owner, vault, targets, logRotConf, currNodesMutex, wpc, conf,
                   keys, monitor>>

-----------------------------------------------------------------------------
\* main gets SIGTERM: inShutdown is set before anything is released.
SigTerm ==
    /\ phase = "run"
    /\ phase' = "stopping"
    /\ UNCHANGED <<owner, vault, lists, targets, tailThreads, logRotConf,
                   currNodesMutex, wpc, hpc, cpc, conf, keys, monitor>>

\* releaseAllNodes; conmand keeps running and no configuration is rewritten.
ReleaseAllNodes ==
    /\ phase = "stopping" /\ MutexFree
    /\ phase' = "released"
    /\ owner' \in ReleaseNodes(owner, CurrNodes)
    /\ currentRvrNodes' = {} /\ currentMtnNodes' = {} /\ currentPdsNodes' = {}
    /\ StopTailing(CurrNodes)
    /\ UNCHANGED <<vault, targets, logRotConf, currNodesMutex, wpc, hpc, cpc,
                   conf, keys, monitor>>
=============================================================================
