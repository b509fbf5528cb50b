--------------------------- MODULE ConsolePodProofs ---------------------------
(***************************************************************************)
(* The safety of ConsolePod for every set of nodes, every assignment of    *)
(* classes and BMCs and every answer of the services.  The invariant is    *)
(* the conjunction of properties TLC checks: each needs the others.        *)
(* TailsHeld makes the tails current when a configuration begins,          *)
(* MutexHolder keeps them so while it waits for the ssh key, and TypeOK    *)
(* says that a pod without Mountain nodes configures none.  The argument   *)
(* that the ssh key comes first needs KeyAnswered.                         *)
(***************************************************************************)
EXTENDS ConsolePod, TLAPS

\* With a token that can be read, a configuration with Mountain consoles that has
\* not got past the key loop is still in it.
KeyAnswered ==
    FALSE \notin TokenReads =>
        (cpc \notin {"keys", "denied"} /\ confFile \cap MtnNodes # {}
            => previousPrivateKeyHash # 0)

IInv ==
    /\ TypeOK
    /\ MutexHolder
    /\ TailsHeld
    /\ HeldLogsRotated
    /\ ConfigIsCurrent
    /\ KeyAnswered

\* The groups of variables that UNCHANGED names, and the state predicates.
USE DEF lists, targets, vault, conf, keys, monitor

LEMMA NilPasswordsType == NilPasswords \in [Bmcs -> -1 .. MaxPw]
  <1>1. -1 \in -1 .. MaxPw
    BY VersionsAssumption
  <1> QED
    BY <1>1 DEF NilPasswords

LEMMA InitIInv == Init => IInv
  <1> SUFFICES ASSUME Init PROVE IInv
    OBVIOUS
  <1>1. TypeOK
    <2>1. 0 \in 0 .. MaxKey /\ 0 \in 0 .. EmptyKey /\ 0 \in 0 .. MaxPw
      BY VersionsAssumption DEF EmptyKey
    <2> QED
      BY <2>1, NilPasswordsType DEF Init, TypeOK
  <1>2. CurrNodes = {} /\ cpc = "config" /\ mpc = "sleep" /\ confFile = {}
    BY DEF Init, CurrNodes
  <1> QED
    BY <1>1, <1>2 DEF Init, IInv, MutexHolder, TailsHeld, HeldLogsRotated,
                      ConfigIsCurrent, KeyAnswered

\* A step that leaves the pod alone, whatever the services do meanwhile.
LEMMA PodUnchanged ==
    ASSUME IInv, TypeOK',
           UNCHANGED <<lists, tailThreads, logRotConf, currNodesMutex, cpc, conf,
                       keys, mpc>>
    PROVE  IInv'
  BY DEF IInv, MutexHolder, TailsHeld, HeldLogsRotated, ConfigIsCurrent,
         KeyAnswered, CurrNodes

\* Boot and Restart: a process begins with nothing.
LEMMA ProcessSteps == IInv /\ (Boot \/ Restart \/ SignalConmanHUP) => IInv'
  <1> SUFFICES ASSUME IInv, Boot \/ Restart \/ SignalConmanHUP PROVE IInv'
    OBVIOUS
  <1>1. CASE SignalConmanHUP
    <2>1. TypeOK'
      BY <1>1 DEF SignalConmanHUP, IInv, TypeOK
    <2> QED
      BY <1>1, <2>1, PodUnchanged DEF SignalConmanHUP
  <1>2. CASE Boot
    <2>1. TypeOK'
      BY <1>2 DEF Boot, DoInitialConfFileUpdate, UpdateLogRotateConf, IInv, TypeOK,
                   CurrNodes, RvrNodes, MtnNodes, PdsNodes
    <2> QED
      BY <1>2, <2>1 DEF Boot, DoInitialConfFileUpdate, UpdateLogRotateConf, IInv,
                        MutexHolder, TailsHeld, HeldLogsRotated,
                        ConfigIsCurrent, KeyAnswered, CurrNodes
  <1>3. CASE Restart
    <2>1. TypeOK'
      <3>1. 0 \in 0 .. EmptyKey
        BY VersionsAssumption DEF EmptyKey
      <3> QED
        BY <1>3, <3>1, NilPasswordsType DEF Restart, IInv, TypeOK
    <2>2. /\ CurrNodes' = {} /\ tailThreads' = {} /\ confFile' = {}
          /\ currNodesMutex' = "free" /\ cpc' = "config" /\ mpc' = "sleep"
      BY <1>3 DEF Restart, CurrNodes
    <2> QED
      BY <2>1, <2>2 DEF IInv, MutexHolder, TailsHeld, HeldLogsRotated,
                        ConfigIsCurrent, KeyAnswered
  <1> QED
    BY <1>1, <1>2, <1>3

\* console-data, the other pods and vault never touch the state of the pod.
LEMMA EnvSteps == IInv /\ EnvNext => IInv'
  <1> SUFFICES ASSUME IInv, EnvNext PROVE IInv'
    OBVIOUS
  <1>1. ASSUME NEW n \in Contended,
               OtherAcquires(n) \/ OtherReleases(n) \/ Lapse(n)
        PROVE  IInv'
    <2>1. TypeOK'
      BY <1>1, ContendedAssumption
      DEF OtherAcquires, OtherReleases, Lapse, SetOwner, IInv, TypeOK
    <2> QED
      BY <1>1, <2>1, PodUnchanged DEF OtherAcquires, OtherReleases, Lapse, SetOwner
  <1>2. CASE RotateKey
    <2>1. TypeOK'
      BY <1>2, VersionsAssumption DEF RotateKey, IInv, TypeOK
    <2> QED
      BY <1>2, <2>1, PodUnchanged DEF RotateKey
  <1>3. ASSUME NEW b \in Bmcs, RotatePassword(b)
        PROVE  IInv'
    <2>1. TypeOK'
      BY <1>3, VersionsAssumption DEF RotatePassword, IInv, TypeOK
    <2> QED
      BY <1>3, <2>1, PodUnchanged DEF RotatePassword
  <1> QED
    BY <1>1, <1>2, <1>3 DEF EnvNext

\* watchForNodes: doGetNewNodes stops the tail of every node it gives back, and
\* writes the rotation configuration whenever the maps have changed.
LEMMA DoGetNewNodesStep == IInv /\ DoGetNewNodes => IInv'
  <1> SUFFICES ASSUME IInv, DoGetNewNodes PROVE IInv'
    OBVIOUS
  <1>1. PICK granted, new, rn :
            /\ owner' \in ReleaseNodes(Granted(granted), rn)
            /\ ExchangeNodes(new, rn)
    BY ZenonT(60) DEF DoGetNewNodes
  <1>2. /\ currNodesMutex = "free" /\ wpc' = "sleep"
        /\ UNCHANGED <<vault, currNodesMutex, hpc, conf, keys, monitor>>
    BY DEF DoGetNewNodes, MutexFree
  <1>3. targetRvrNodes' \in Nat \cup {-1} /\ targetMtnNodes' \in Nat \cup {-1}
    BY FileReadsAssumption DEF DoGetNewNodes, IInv, TypeOK, UpdateTarget
  <1>4. owner' \in [Nodes -> {"me", "other", "nobody"}]
    BY <1>1 DEF Granted, ReleaseNodes, Released, IInv, TypeOK
  <1>5. /\ currentRvrNodes' = (currentRvrNodes \cup (new \cap RvrNodes)) \ rn
        /\ currentMtnNodes' = (currentMtnNodes \cup (new \cap MtnNodes)) \ rn
        /\ currentPdsNodes' = (currentPdsNodes \cup (new \cap PdsNodes)) \ rn
        /\ tailThreads' = tailThreads \ rn
    BY <1>1 DEF ExchangeNodes, AddedRvr, AddedMtn, AddedPds, StopTailing
  <1>6. /\ currentRvrNodes' \subseteq RvrNodes
        /\ currentMtnNodes' \subseteq MtnNodes
        /\ currentPdsNodes' \subseteq PdsNodes
    BY <1>5 DEF IInv, TypeOK
  <1>7. /\ phase' \in {"boot", "run", "stopping", "released", "panic"}
        /\ cpc' \in {"config", "keys", "denied", "launch", "set", "run", "term", "reap"}
        /\ cpc' \in {"keys", "denied"} <=> cpc \in {"keys", "denied"}
    BY <1>1 DEF ExchangeNodes, SignalConmanTERM, NoSignal, IInv, TypeOK
  <1>8. HeldLogsRotated'
    <2>1. CASE new \cap (RvrNodes \cup MtnNodes \cup PdsNodes) # {} \/ rn # {}
      BY <1>1, <2>1 DEF ExchangeNodes, UpdateLogRotateConf, HeldLogsRotated, CurrNodes
    <2>2. CASE ~(new \cap (RvrNodes \cup MtnNodes \cup PdsNodes) # {} \/ rn # {})
      <3>1. logRotConf' = logRotConf
        BY <1>1, <2>2 DEF ExchangeNodes
      <3>2. CurrNodes' = CurrNodes
        BY <1>5, <2>2 DEF CurrNodes
      <3> QED
        BY <3>1, <3>2 DEF HeldLogsRotated, IInv
    <2> QED
      BY <2>1, <2>2
  <1>9. logRotConf' \subseteq Nodes
    <2>1. (AddedRvr(new) \cup AddedMtn(new) \cup AddedPds(new)) \ rn \subseteq Nodes
      BY DEF AddedRvr, AddedMtn, AddedPds, IInv, TypeOK, RvrNodes, MtnNodes, PdsNodes
    <2> QED
      BY <1>1, <2>1 DEF ExchangeNodes, UpdateLogRotateConf, IInv, TypeOK
  <1>10. TailsHeld'
    BY <1>5 DEF TailsHeld, CurrNodes, IInv
  <1>11. TypeOK'
    BY <1>2, <1>3, <1>4, <1>5, <1>6, <1>7, <1>9 DEF IInv, TypeOK
  <1> QED
    BY <1>2, <1>7, <1>8, <1>10, <1>11
    DEF IInv, MutexHolder, ConfigIsCurrent, KeyAnswered

\* doHeartbeat: what console-data takes away is no longer watched nor tailed.
LEMMA HeartbeatSteps ==
    IInv /\ (HeartbeatDue \/ \E answered \in BOOLEAN : SendSingleHeartbeat(answered))
        => IInv'
  <1> SUFFICES ASSUME IInv, HeartbeatDue \/ \E answered \in BOOLEAN :
                                                SendSingleHeartbeat(answered)
               PROVE  IInv'
    OBVIOUS
  <1>1. CASE HeartbeatDue
    <2>1. TypeOK'
      BY <1>1 DEF HeartbeatDue, IInv, TypeOK
    <2> QED
      BY <1>1, <2>1, PodUnchanged DEF HeartbeatDue
  <1>2. ASSUME NEW answered \in BOOLEAN, SendSingleHeartbeat(answered)
        PROVE  IInv'
    <2> DEFINE dropped == PostURL({n \in CurrNodes : owner[n] # "me"}, answered)
    <2>1. /\ currNodesMutex = "free" /\ hpc' = "sleep"
          /\ currentRvrNodes' = currentRvrNodes \ dropped
          /\ currentMtnNodes' = currentMtnNodes \ dropped
          /\ currentPdsNodes' = currentPdsNodes \ dropped
          /\ tailThreads' = tailThreads \ dropped
          /\ UNCHANGED <<owner, vault, targets, logRotConf, currNodesMutex, wpc,
                         conf, keys, monitor>>
      BY <1>2 DEF SendSingleHeartbeat, ReleaseNode, StopTailing, MutexFree
    <2>2. /\ phase' \in {"boot", "run", "stopping", "released", "panic"}
          /\ cpc' \in {"config", "keys", "denied", "launch", "set", "run", "term", "reap"}
          /\ cpc' \in {"keys", "denied"} <=> cpc \in {"keys", "denied"}
      BY <1>2 DEF SendSingleHeartbeat, SignalConmanTERM, NoSignal, IInv, TypeOK
    <2> HIDE DEF dropped
    <2>3. TypeOK'
      BY <2>1, <2>2 DEF IInv, TypeOK
    <2>4. TailsHeld' /\ HeldLogsRotated'
      BY <2>1 DEF TailsHeld, HeldLogsRotated, CurrNodes, IInv
    <2> QED
      BY <2>1, <2>2, <2>3, <2>4
      DEF IInv, MutexHolder, ConfigIsCurrent, KeyAnswered
  <1> QED
    BY <1>1, <1>2

\* watchForNodes going for the mutex, and the shutdown of main.
LEMMA WatchAndShutdownSteps ==
    IInv /\ (WatchWakes \/ SigTerm \/ ReleaseAllNodes) => IInv'
  <1> SUFFICES ASSUME IInv, WatchWakes \/ SigTerm \/ ReleaseAllNodes PROVE IInv'
    OBVIOUS
  <1>1. CASE WatchWakes
    <2>1. TypeOK'
      BY <1>1 DEF WatchWakes, IInv, TypeOK
    <2> QED
      BY <1>1, <2>1, PodUnchanged DEF WatchWakes
  <1>2. CASE SigTerm
    <2>1. TypeOK'
      BY <1>2 DEF SigTerm, IInv, TypeOK
    <2> QED
      BY <1>2, <2>1, PodUnchanged DEF SigTerm
  <1>3. CASE ReleaseAllNodes
    <2>1. /\ currNodesMutex = "free" /\ phase' = "released"
          /\ currentRvrNodes' = {} /\ currentMtnNodes' = {} /\ currentPdsNodes' = {}
          /\ tailThreads' = tailThreads \ CurrNodes
          /\ UNCHANGED <<vault, targets, logRotConf, currNodesMutex, wpc, hpc, cpc,
                         conf, keys, monitor>>
      BY <1>3 DEF ReleaseAllNodes, MutexFree, StopTailing
    <2>2. owner' \in [Nodes -> {"me", "other", "nobody"}]
      BY <1>3 DEF ReleaseAllNodes, ReleaseNodes, Released, IInv, TypeOK
    <2>3. CurrNodes' = {} /\ tailThreads' = {}
      BY <2>1 DEF CurrNodes, IInv, TailsHeld
    <2>4. TypeOK'
      BY <2>1, <2>2, <2>3 DEF IInv, TypeOK
    <2> QED
      BY <2>1, <2>3, <2>4 DEF IInv, MutexHolder, TailsHeld, HeldLogsRotated,
                              ConfigIsCurrent, KeyAnswered
  <1> QED
    BY <1>1, <1>2, <1>3

\* configConman: the file and the tails it leaves are those of the maps, and
\* without Mountain nodes in the maps there are none in the file.
LEMMA ConfigConmanStep == IInv /\ ConfigConman => IInv'
  <1> SUFFICES ASSUME IInv, ConfigConman PROVE IInv'
    OBVIOUS
  <1>1. /\ cpc = "config" /\ currNodesMutex = "free"
        /\ forceConfigUpdate' = FALSE
        /\ tailThreads' = tailThreads \cup CurrNodes
        /\ UNCHANGED <<owner, vault, phase, lists, targets, logRotConf, wpc, hpc,
                       keys, monitor>>
    BY DEF ConfigConman, MutexFree
  <1>2. CurrNodes' = CurrNodes /\ tailThreads' = CurrNodes /\ CurrNodes \subseteq Nodes
    BY <1>1 DEF CurrNodes, IInv, TailsHeld, TypeOK, RvrNodes, MtnNodes, PdsNodes
  <1>3. PICK token \in TokenReads :
            IF NoKeyNeeded(token)
            THEN /\ cpc' = IF CurrNodes # {} THEN "launch" ELSE "config"
                 /\ UNCHANGED currNodesMutex
            ELSE cpc' = "keys" /\ HoldMutex("conman")
    BY DEF ConfigConman
  <1>4. /\ cpc' \in {"config", "keys", "launch"}
        /\ currNodesMutex' = IF cpc' = "keys" THEN "conman" ELSE "free"
        /\ cpc' # "keys" => NoKeyNeeded(token)
    BY <1>1, <1>3 DEF HoldMutex
  <1>5. /\ confFile' \in {confFile, CurrNodes}
        /\ WillUpdateConfig => confFile' = CurrNodes
        /\ previousPasswords' \in [Bmcs -> -1 .. MaxPw]
    <2>1. GetPasswords(PasswordBmcs) \in [Bmcs -> -1 .. MaxPw]
      <3>1. \A x \in 0 .. MaxPw : x \in -1 .. MaxPw
        BY VersionsAssumption
      <3>2. 0 \in -1 .. MaxPw
        BY VersionsAssumption
      <3> QED
        BY <3>1, <3>2 DEF GetPasswords, IInv, TypeOK
    <2> QED
      BY <2>1 DEF ConfigConman, UpdateConfigFile, IInv, TypeOK
  <1>6. TypeOK'
    <2>1. confFile' \subseteq Nodes /\ tailThreads' \subseteq Nodes
      BY <1>2, <1>5 DEF IInv, TypeOK
    <2>2. /\ cpc' \in {"config", "keys", "denied", "launch", "set", "run", "term", "reap"}
          /\ currNodesMutex' \in {"free", "conman", "monitor"}
      BY <1>4
    <2>3. TypeOK
      BY DEF IInv
    <2>4. previousPasswords' \in [Bmcs -> -1 .. MaxPw]
      BY <1>5
    <2>5. forceConfigUpdate' \in BOOLEAN
      BY <1>1
    <2> QED
      BY <1>1, <2>1, <2>2, <2>3, <2>4, <2>5, ZenonT(60) DEF TypeOK
  <1>7. MutexHolder' /\ TailsHeld' /\ HeldLogsRotated' /\ ConfigIsCurrent'
    BY <1>1, <1>2, <1>4, <1>5
    DEF IInv, MutexHolder, TailsHeld, HeldLogsRotated, ConfigIsCurrent
  <1>8. KeyAnswered'
    <2> SUFFICES ASSUME FALSE \notin TokenReads, cpc' \notin {"keys", "denied"},
                        confFile' \cap MtnNodes # {}
                 PROVE  previousPrivateKeyHash' # 0
      BY DEF KeyAnswered
    <2>1. token = TRUE
      BY FlagsAssumption, <1>3
    <2>2. currentMtnNodes = {}
      BY <1>4, <2>1 DEF NoKeyNeeded
    <2>3. CurrNodes \cap MtnNodes = {}
      BY <2>2 DEF CurrNodes, IInv, TypeOK, RvrNodes, MtnNodes, PdsNodes
    <2>4. confFile' = confFile
      BY <1>5, <2>3
    <2> QED
      BY <1>1, <2>4 DEF IInv, KeyAnswered
  <1> QED
    BY <1>6, <1>7, <1>8 DEF IInv

\* What a pass through the key loop leaves.
LEMMA KeyTypes ==
    ASSUME IInv, KeyWritten \/ KeyWriteFails \/ KeyUnchanged
    PROVE  /\ previousPrivateKeyHash' \in 0 .. EmptyKey
           /\ mountainConsoleKey' \in 0 .. EmptyKey
           /\ previousPrivateKeyHash' # 0
  <1>1. \A k \in VaultExportPrivateKey : k \in 0 .. EmptyKey /\ k # 0
    BY VersionsAssumption DEF VaultExportPrivateKey, EmptyKey, IInv, TypeOK
  <1> QED
    BY <1>1 DEF IInv, TypeOK, KeyWritten, KeyWriteFails, KeyUnchanged, NewKeys

LEMMA ConmanSteps == IInv /\ ConmanNext => IInv'
  <1> SUFFICES ASSUME IInv, ConmanNext PROVE IInv'
    OBVIOUS
  <1>1. CASE ConfigConman
    BY <1>1, ConfigConmanStep
  <1>2. CASE ConfigKeys
    <2>1. /\ cpc = "keys" /\ cpc' \in {"launch", "config"}
          /\ currNodesMutex' = "free"
          /\ UNCHANGED <<owner, vault, phase, lists, targets, tailThreads,
                         logRotConf, wpc, hpc, conf, monitor>>
      BY <1>2 DEF ConfigKeys, ReleaseMutex
    <2>2. /\ previousPrivateKeyHash' \in 0 .. EmptyKey
          /\ mountainConsoleKey' \in 0 .. EmptyKey
          /\ previousPrivateKeyHash' # 0
      BY <1>2, KeyTypes DEF ConfigKeys
    <2>3. TypeOK'
      BY <2>1, <2>2 DEF IInv, TypeOK
    <2>4. CurrNodes' = CurrNodes
      BY <2>1 DEF CurrNodes
    <2> QED
      BY <2>1, <2>2, <2>3, <2>4
      DEF IInv, MutexHolder, TailsHeld, HeldLogsRotated, ConfigIsCurrent,
          KeyAnswered
  <1>3. CASE ConfigKeyWriteFails
    <2>1. /\ cpc = "keys"
          /\ UNCHANGED <<owner, vault, phase, lists, targets, tailThreads,
                         logRotConf, currNodesMutex, wpc, hpc, cpc, conf, monitor>>
      BY <1>3 DEF ConfigKeyWriteFails
    <2>2. /\ previousPrivateKeyHash' \in 0 .. EmptyKey
          /\ mountainConsoleKey' \in 0 .. EmptyKey
      BY <1>3, KeyTypes DEF ConfigKeyWriteFails
    <2>3. TypeOK'
      BY <2>1, <2>2 DEF IInv, TypeOK
    <2>4. CurrNodes' = CurrNodes
      BY <2>1 DEF CurrNodes
    <2> QED
      BY <2>1, <2>3, <2>4
      DEF IInv, MutexHolder, TailsHeld, HeldLogsRotated, ConfigIsCurrent,
          KeyAnswered
  <1>4. CASE ConfigKeyDenied
    <2>1. /\ cpc = "keys" /\ cpc' = "denied"
          /\ UNCHANGED <<owner, vault, phase, lists, targets, tailThreads,
                         logRotConf, currNodesMutex, wpc, hpc, conf, keys, monitor>>
      BY <1>4 DEF ConfigKeyDenied, KeyDenied
    <2>2. TypeOK'
      BY <2>1 DEF IInv, TypeOK
    <2>3. CurrNodes' = CurrNodes
      BY <2>1 DEF CurrNodes
    <2> QED
      BY <2>1, <2>2, <2>3
      DEF IInv, MutexHolder, TailsHeld, HeldLogsRotated, ConfigIsCurrent,
          KeyAnswered
  <1>5. CASE NewCommand \/ StartCommand \/ ConmandExits \/ ClearCommand \/ KillZombie
    <2>1. PICK from \in SUBSET {"launch", "set", "run", "term", "reap"},
               to \in {"set", "run", "reap", "config"} : ConmanStep(from, to)
      BY <1>5 DEF NewCommand, StartCommand, ConmandExits, ClearCommand, KillZombie
    <2>2. /\ cpc \notin {"keys", "denied"} /\ cpc' \notin {"keys", "denied"}
          /\ cpc' \in {"config", "keys", "denied", "launch", "set", "run", "term", "reap"}
          /\ UNCHANGED <<owner, vault, phase, lists, targets, tailThreads,
                         logRotConf, currNodesMutex, wpc, hpc, conf, keys, monitor>>
      BY <2>1 DEF ConmanStep
    <2>3. TypeOK'
      BY <2>2 DEF IInv, TypeOK
    <2>4. CurrNodes' = CurrNodes
      BY <2>2 DEF CurrNodes
    <2> QED
      BY <2>2, <2>3, <2>4
      DEF IInv, MutexHolder, TailsHeld, HeldLogsRotated, ConfigIsCurrent,
          KeyAnswered
  <1> QED
    BY <1>1, <1>2, <1>3, <1>4, <1>5 DEF ConmanNext

\* doMonitor: it changes the mutex, the key and its own state.
LEMMA MonitorSteps == IInv /\ MonitorNext => IInv'
  <1> SUFFICES ASSUME IInv, MonitorNext PROVE IInv'
    OBVIOUS
  <1>1. CASE CheckKeys
    <2>1. /\ mpc' \in {"pw", "keys"} /\ restartConman' = FALSE
          /\ mpc = "sleep" /\ currNodesMutex = "free"
          /\ currNodesMutex' = IF mpc' = "keys" THEN "monitor" ELSE "free"
          /\ UNCHANGED <<owner, vault, phase, lists, targets, tailThreads,
                         logRotConf, wpc, hpc, cpc, conf, keys>>
      BY <1>1 DEF CheckKeys, MutexFree, HoldMutex
    <2>. /\ currNodesMutex' \in {"free", "conman", "monitor"}
         /\ restartConman' \in BOOLEAN
         /\ mpc' \in {"sleep", "keys", "denied", "pw", "logs", "signal"}
      BY <2>1
    <2>2. TypeOK'
      BY <2>1 DEF IInv, TypeOK
    <2>3. CurrNodes' = CurrNodes
      BY <2>1 DEF CurrNodes
    <2> QED
      BY <2>1, <2>2, <2>3
      DEF IInv, MutexHolder, TailsHeld, HeldLogsRotated, ConfigIsCurrent,
          KeyAnswered
  <1>2. CASE KeysChecked
    <2>1. /\ mpc = "keys" /\ mpc' = "pw" /\ currNodesMutex' = "free"
          /\ restartConman' \in BOOLEAN
          /\ UNCHANGED <<owner, vault, phase, lists, targets, tailThreads,
                         logRotConf, wpc, hpc, cpc, conf>>
      BY <1>2 DEF KeysChecked, ReleaseMutex, IInv, TypeOK
    <2>2. /\ previousPrivateKeyHash' \in 0 .. EmptyKey
          /\ mountainConsoleKey' \in 0 .. EmptyKey
          /\ previousPrivateKeyHash' # 0
      BY <1>2, KeyTypes DEF KeysChecked
    <2>3. TypeOK'
      BY <2>1, <2>2 DEF IInv, TypeOK
    <2>4. CurrNodes' = CurrNodes
      BY <2>1 DEF CurrNodes
    <2> QED
      BY <2>1, <2>2, <2>3, <2>4
      DEF IInv, MutexHolder, TailsHeld, HeldLogsRotated, ConfigIsCurrent,
          KeyAnswered
  <1>3. CASE CheckKeyWriteFails
    <2>1. /\ restartConman' = TRUE
          /\ UNCHANGED <<owner, vault, phase, lists, targets, tailThreads,
                         logRotConf, currNodesMutex, wpc, hpc, cpc, conf, mpc>>
      BY <1>3 DEF CheckKeyWriteFails
    <2>2. /\ previousPrivateKeyHash' \in 0 .. EmptyKey
          /\ mountainConsoleKey' \in 0 .. EmptyKey
          /\ previousPrivateKeyHash' # 0
      BY <1>3, KeyTypes DEF CheckKeyWriteFails
    <2>3. TypeOK'
      BY <2>1, <2>2 DEF IInv, TypeOK
    <2>4. CurrNodes' = CurrNodes
      BY <2>1 DEF CurrNodes
    <2> QED
      BY <2>1, <2>2, <2>3, <2>4
      DEF IInv, MutexHolder, TailsHeld, HeldLogsRotated, ConfigIsCurrent,
          KeyAnswered
  <1>4. CASE CheckKeyDenied
    <2>1. /\ mpc = "keys" /\ mpc' = "denied"
          /\ UNCHANGED <<owner, vault, phase, lists, targets, tailThreads,
                         logRotConf, currNodesMutex, wpc, hpc, cpc, conf, keys,
                         restartConman>>
      BY <1>4 DEF CheckKeyDenied, KeyDenied
    <2>2. TypeOK'
      BY <2>1 DEF IInv, TypeOK
    <2>3. CurrNodes' = CurrNodes
      BY <2>1 DEF CurrNodes
    <2> QED
      BY <2>1, <2>2, <2>3
      DEF IInv, MutexHolder, TailsHeld, HeldLogsRotated, ConfigIsCurrent,
          KeyAnswered
  <1>5. CASE CheckPasswords \/ CheckLogFiles
    <2>1. /\ mpc \in {"pw", "logs"} /\ mpc' \in {"logs", "signal", "sleep"}
          /\ restartConman' \in BOOLEAN
          /\ UNCHANGED <<owner, vault, phase, lists, targets, tailThreads,
                         logRotConf, currNodesMutex, wpc, hpc, cpc, conf, keys>>
      BY <1>5 DEF CheckPasswords, CheckLogFiles, IInv, TypeOK
    <2>2. TypeOK'
      BY <2>1 DEF IInv, TypeOK
    <2>3. CurrNodes' = CurrNodes
      BY <2>1 DEF CurrNodes
    <2> QED
      BY <2>1, <2>2, <2>3
      DEF IInv, MutexHolder, TailsHeld, HeldLogsRotated, ConfigIsCurrent,
          KeyAnswered
  <1>6. CASE RestartConman
    <2>1. /\ mpc = "signal" /\ mpc' = "sleep"
          /\ UNCHANGED <<owner, vault, lists, targets, tailThreads, logRotConf,
                         currNodesMutex, wpc, hpc, conf, keys, restartConman>>
      BY <1>6 DEF RestartConman
    <2>2. /\ phase' \in {"boot", "run", "stopping", "released", "panic"}
          /\ cpc' \in {"config", "keys", "denied", "launch", "set", "run", "term", "reap"}
          /\ cpc' \in {"keys", "denied"} <=> cpc \in {"keys", "denied"}
      BY <1>6 DEF RestartConman, SignalConmanTERM, IInv, TypeOK
    <2>3. TypeOK'
      BY <2>1, <2>2 DEF IInv, TypeOK
    <2>4. CurrNodes' = CurrNodes
      BY <2>1 DEF CurrNodes
    <2> QED
      BY <2>1, <2>2, <2>3, <2>4
      DEF IInv, MutexHolder, TailsHeld, HeldLogsRotated, ConfigIsCurrent,
          KeyAnswered
  <1> QED
    BY <1>1, <1>2, <1>3, <1>4, <1>5, <1>6 DEF MonitorNext

LEMMA NextIInv == IInv /\ [Next]_vars => IInv'
  <1> SUFFICES ASSUME IInv, [Next]_vars PROVE IInv'
    OBVIOUS
  <1>1. CASE Boot \/ Restart \/ SignalConmanHUP
    BY <1>1, ProcessSteps
  <1>2. CASE NodeManagerNext
    BY <1>2, WatchAndShutdownSteps, DoGetNewNodesStep, HeartbeatSteps
    DEF NodeManagerNext
  <1>3. CASE ConmanNext
    BY <1>3, ConmanSteps
  <1>4. CASE MonitorNext
    BY <1>4, MonitorSteps
  <1>5. CASE EnvNext
    BY <1>5, EnvSteps
  <1>6. CASE UNCHANGED vars
    <2>1. TypeOK'
      BY <1>6 DEF vars, IInv, TypeOK
    <2> QED
      BY <1>6, <2>1, PodUnchanged DEF vars
  <1> QED
    BY <1>1, <1>2, <1>3, <1>4, <1>5, <1>6 DEF Next

-----------------------------------------------------------------------------
\* The inductive invariant holds in every state of the pod.
THEOREM Invariance == Spec => []IInv
  <1> QED
    BY InitIInv, NextIInv, PTL DEF Spec

\* Type correctness, for every set of nodes and every bound: no map ever holds a
\* node of a class that is not its own.
THEOREM TypeCorrect == Spec => []TypeOK
  <1>1. IInv => TypeOK
    BY DEF IInv
  <1> QED
    BY <1>1, Invariance, PTL

\* No tail outlives the assignment of its node, whichever thread gave it up.
THEOREM TailsAlwaysHeld == Spec => []TailsHeld
  <1>1. IInv => TailsHeld
    BY DEF IInv
  <1> QED
    BY <1>1, Invariance, PTL

\* The rotation configuration never lacks a node the pod watches.
THEOREM HeldLogsAlwaysRotated == Spec => []HeldLogsRotated
  <1>1. IInv => HeldLogsRotated
    BY DEF IInv
  <1> QED
    BY <1>1, Invariance, PTL

\* runConman and doMonitor never wait for the ssh key together.
THEOREM MutexExclusive == Spec => []MutexHolder
  <1>1. IInv => MutexHolder
    BY DEF IInv
  <1> QED
    BY <1>1, Invariance, PTL

\* The configuration that waits for the ssh key is that of the current nodes.
THEOREM ConfigAlwaysCurrent == Spec => []ConfigIsCurrent
  <1>1. IInv => ConfigIsCurrent
    BY DEF IInv
  <1> QED
    BY <1>1, Invariance, PTL

\* The key in the file is the last one that was fetched, and it is one; and a step in
\* which no write of the key file fails.
KeyFiled == mountainConsoleKey = previousPrivateKeyHash /\ mountainConsoleKey # EmptyKey
KeysWritten == Next /\ ~ConfigKeyWriteFails /\ ~CheckKeyWriteFails

LEMMA KeysFiledStep ==
    ASSUME EmptyAnswers = FALSE, IInv, KeyFiled, [KeysWritten]_vars
    PROVE  KeyFiled'
  <1>1. CASE KeyWritten
    <2>1. PICK pvtKey \in NewKeys :
            previousPrivateKeyHash' = pvtKey /\ mountainConsoleKey' = pvtKey
      BY <1>1 DEF KeyWritten
    <2>2. pvtKey = vaultKey /\ vaultKey \in 0 .. MaxKey
      BY <2>1 DEF NewKeys, VaultExportPrivateKey, IInv, TypeOK
    <2>3. EmptyKey' = EmptyKey /\ pvtKey # EmptyKey
      BY <2>2, VersionsAssumption DEF EmptyKey
    <2> QED
      BY <2>1, <2>3 DEF KeyFiled
  <1>2. CASE UNCHANGED keys
    BY <1>2 DEF KeyFiled, EmptyKey
  <1>3. CASE Restart
    <2>1. 0 # EmptyKey
      BY VersionsAssumption DEF EmptyKey
    <2> QED
      BY <1>3, <2>1 DEF Restart, KeyFiled, EmptyKey
  <1>4. KeyWritten \/ Restart \/ UNCHANGED keys
    <2> SUFFICES ASSUME KeysWritten PROVE KeyWritten \/ Restart \/ UNCHANGED keys
      BY DEF vars
    <2>1. Next /\ ~ConfigKeyWriteFails /\ ~CheckKeyWriteFails
      BY DEF KeysWritten
    <2>2. CASE Boot \/ SignalConmanHUP
      BY <2>2 DEF Boot, SignalConmanHUP
    <2>3. CASE NodeManagerNext
      BY <2>3 DEF NodeManagerNext, WatchWakes, DoGetNewNodes, HeartbeatDue,
                  SendSingleHeartbeat, SigTerm, ReleaseAllNodes
    <2>4. CASE ConmanNext
      BY <2>4, <2>1 DEF ConmanNext, ConfigConman, ConfigKeys, ConfigKeyDenied,
                  KeyUnchanged, KeyDenied, NewCommand, StartCommand, ConmandExits,
                  ClearCommand, KillZombie, ConmanStep
    <2>5. CASE MonitorNext
      BY <2>5, <2>1 DEF MonitorNext, CheckKeys, KeysChecked, CheckKeyDenied,
                  KeyUnchanged, KeyDenied, CheckPasswords, CheckLogFiles, RestartConman
    <2>6. CASE EnvNext
      BY <2>6 DEF EnvNext, OtherAcquires, OtherReleases, Lapse, SetOwner, RotateKey,
                  RotatePassword
    <2> QED
      BY <2>2, <2>3, <2>4, <2>5, <2>6, <2>1 DEF Next
  <1> QED
    BY <1>1, <1>2, <1>3, <1>4

\* What ensureMountainConsoleKeysPresent depends on to keep "a proper ssh console
\* keypair deployed": when the service account token can be read, vault's answers
\* have a key in them and no write of the key fails, conmand never runs on Mountain
\* consoles without a key in the local file, whatever else is lost, restarted or
\* interleaved.  (TLC refutes KeyDeployed with a single failed write.)
THEOREM KeyDeployedWithoutFailures ==
    ASSUME FALSE \notin TokenReads, EmptyAnswers = FALSE
    PROVE  Init /\ [][KeysWritten]_vars => []KeyDeployed
  <1>1. Init => IInv /\ KeyFiled
    <2>1. 0 # EmptyKey
      BY VersionsAssumption DEF EmptyKey
    <2> QED
      BY <2>1, InitIInv DEF Init, KeyFiled
  <1>2. IInv /\ KeyFiled /\ [KeysWritten]_vars => (IInv /\ KeyFiled)'
    <2> SUFFICES ASSUME IInv, KeyFiled, [KeysWritten]_vars PROVE IInv' /\ KeyFiled'
      OBVIOUS
    <2>1. [Next]_vars
      BY DEF KeysWritten
    <2> QED
      BY <2>1, NextIInv, KeysFiledStep
  <1>3. IInv /\ KeyFiled => KeyDeployed
    <2> SUFFICES ASSUME IInv, KeyFiled, Serving \cap MtnNodes # {}
                 PROVE  mountainConsoleKey \in 1 .. MaxKey
      BY DEF KeyDeployed
    <2>1. previousPrivateKeyHash # 0
      BY DEF Serving, IInv, KeyAnswered
    <2>2. mountainConsoleKey \in 0 .. EmptyKey
      BY DEF IInv, TypeOK
    <2> QED
      BY <2>1, <2>2, VersionsAssumption DEF KeyFiled, EmptyKey
  <1> QED
    BY <1>1, <1>2, <1>3, PTL

\* A change of the node maps under a running conmand is always followed by its
\* termination: every action that changes the maps also signals, except the one
\* that ends the process.
THEOREM ChangeAlwaysRestarts == Spec => ChangeRestartsConmand
  <1>1. [Next]_vars =>
            [cpc = "run" /\ CurrNodes' # CurrNodes /\ phase' = phase
                => cpc' = "term"]_vars
    <2> SUFFICES ASSUME Next, cpc = "run", CurrNodes' # CurrNodes,
                        phase' = phase
                 PROVE  cpc' = "term"
      OBVIOUS
    <2>1. lists' # lists
      BY DEF CurrNodes
    <2>2. CASE DoGetNewNodes
      <3>1. PICK new, rn : ExchangeNodes(new, rn)
        BY <2>2, Zenon DEF DoGetNewNodes
      <3>2. CASE new \cap (RvrNodes \cup MtnNodes \cup PdsNodes) # {} \/ rn # {}
        BY <3>1, <3>2 DEF ExchangeNodes, SignalConmanTERM
      <3>3. CASE ~(new \cap (RvrNodes \cup MtnNodes \cup PdsNodes) # {} \/ rn # {})
        BY <2>1, <3>1, <3>3
        DEF ExchangeNodes, AddedRvr, AddedMtn, AddedPds, CurrNodes
      <3> QED
        BY <3>2, <3>3
    <2>3. ASSUME NEW answered \in BOOLEAN, SendSingleHeartbeat(answered)
          PROVE  cpc' = "term"
      <3> DEFINE dropped == PostURL({n \in CurrNodes : owner[n] # "me"}, answered)
      <3>1. dropped # {}
        BY <2>3, <2>1 DEF SendSingleHeartbeat, ReleaseNode
      <3> QED
        BY <2>3, <3>1 DEF SendSingleHeartbeat, SignalConmanTERM
    <2>4. CASE Boot \/ Restart \/ SignalConmanHUP \/ WatchWakes \/ HeartbeatDue \/ SigTerm
               \/ ReleaseAllNodes
      BY <2>1, <2>4 DEF Boot, Restart, SignalConmanHUP, WatchWakes, HeartbeatDue,
                        SigTerm, ReleaseAllNodes
    <2>5. CASE ConmanNext
      BY <2>1, <2>5 DEF ConmanNext, ConfigConman, ConfigKeys, ConfigKeyWriteFails, ConfigKeyDenied,
                        NewCommand, StartCommand, ConmandExits, ClearCommand, KillZombie,
                        ConmanStep
    <2>6. CASE MonitorNext
      BY <2>1, <2>6 DEF MonitorNext, CheckKeys, KeysChecked, CheckKeyWriteFails, CheckKeyDenied,
                        CheckPasswords, CheckLogFiles, RestartConman
    <2>7. CASE EnvNext
      BY <2>1, <2>7 DEF EnvNext, OtherAcquires, OtherReleases, Lapse, SetOwner,
                        RotateKey, RotatePassword
    <2> QED
      BY <2>2, <2>3, <2>4, <2>5, <2>6, <2>7 DEF Next, NodeManagerNext
  <1> QED
    BY <1>1, PTL DEF Spec, ChangeRestartsConmand

-----------------------------------------------------------------------------
\* The refinement.  What doGetNewNodes does to the maps and to the records.
LEMMA DoGetNewNodesLease == DoGetNewNodes => Lease!Exchange
  <1> SUFFICES ASSUME DoGetNewNodes PROVE Lease!Exchange
    OBVIOUS
  <1>1. PICK numMtn, numRvr, deltaRvr, deltaMtn :
          \E acq \in AcquireNewNodes(numMtn, numRvr) :
            \E rn \in RebalanceChoices(deltaRvr, deltaMtn, AddedRvr(acq.new),
                                       AddedMtn(acq.new), AddedPds(acq.new)) :
                /\ owner' \in ReleaseNodes(Granted(acq.granted), rn)
                /\ ExchangeNodes(acq.new, rn)
    BY ZenonT(60) DEF DoGetNewNodes
  <1>2. PICK acq \in AcquireNewNodes(numMtn, numRvr) :
            \E rn \in RebalanceChoices(deltaRvr, deltaMtn, AddedRvr(acq.new),
                                       AddedMtn(acq.new), AddedPds(acq.new)) :
                /\ owner' \in ReleaseNodes(Granted(acq.granted), rn)
                /\ ExchangeNodes(acq.new, rn)
    BY <1>1
  <1>3. PICK rn \in RebalanceChoices(deltaRvr, deltaMtn, AddedRvr(acq.new),
                                     AddedMtn(acq.new), AddedPds(acq.new)) :
                /\ owner' \in ReleaseNodes(Granted(acq.granted), rn)
                /\ ExchangeNodes(acq.new, rn)
    BY <1>2
  <1> DEFINE granted == acq.granted
             new == acq.new
  \* The pod is told of nodes that were free and are now on record for it.
  <1>4. /\ new \subseteq granted /\ granted \subseteq Nodes
        /\ \A n \in granted : owner[n] = "nobody"
    <2>1. PICK g \in Grants(numMtn, numRvr), answered \in BOOLEAN :
                acq = [granted |-> g, new |-> PostURL(g, answered)]
      BY DEF AcquireNewNodes
    <2> QED
      BY <2>1 DEF Grants, PostURL
  \* It gives back nodes it watched or has just been given.
  <1>5. rn \subseteq CurrNodes \cup new
    BY DEF RebalanceChoices, kSubset, AddedRvr, AddedMtn, AddedPds, CurrNodes
  <1>6. CurrNodes' \subseteq (CurrNodes \cup new) \ rn
    BY <1>3 DEF ExchangeNodes, AddedRvr, AddedMtn, AddedPds, CurrNodes
  <1> HIDE DEF granted, new
  <1>7. /\ owner' \in ReleaseNodes(Granted(granted), rn)
    BY <1>3 DEF granted
  <1>8. \A n \in Nodes :
            /\ n \notin granted \cup rn => owner'[n] = owner[n]
            /\ n \in granted \ rn => owner'[n] = "me"
            /\ n \in granted \cap rn => owner'[n] \in {"me", "nobody"}
            /\ n \in rn \ granted =>
                owner'[n] = owner[n] \/ (owner[n] = "me" /\ owner'[n] = "nobody")
    BY <1>7 DEF ReleaseNodes, Released, Granted
  <1> QED
    BY <1>4, <1>5, <1>6, <1>8 DEF Lease!Exchange

\* Every other step of the pod takes no node, and changes no record except that
\* a shutdown gives back nodes it then no longer watches.
LEMMA PodStepLease ==
    Boot \/ Restart \/ SignalConmanHUP \/ NodeManagerNext \/ ConmanNext \/ MonitorNext
        => Lease!Exchange
  <1>1. ASSUME UNCHANGED <<owner, lists>> PROVE Lease!Exchange
    BY <1>1 DEF Lease!Exchange, CurrNodes
  <1>2. ASSUME Boot \/ SignalConmanHUP \/ WatchWakes \/ HeartbeatDue \/ SigTerm
        PROVE  Lease!Exchange
    BY <1>1, <1>2 DEF Boot, SignalConmanHUP, WatchWakes, HeartbeatDue, SigTerm
  <1>3. ASSUME ConmanNext PROVE Lease!Exchange
    BY <1>1, <1>3 DEF ConmanNext, ConfigConman, ConfigKeys, ConfigKeyWriteFails,
                      ConfigKeyDenied, NewCommand, StartCommand, ConmandExits,
                      ClearCommand, KillZombie, ConmanStep
  <1>4. ASSUME MonitorNext PROVE Lease!Exchange
    BY <1>1, <1>4 DEF MonitorNext, CheckKeys, KeysChecked, CheckKeyWriteFails,
                      CheckKeyDenied, CheckPasswords, CheckLogFiles, RestartConman
  <1>5. ASSUME Restart PROVE Lease!Exchange
    BY <1>5 DEF Restart, Lease!Exchange, CurrNodes
  <1>6. ASSUME NEW answered \in BOOLEAN, SendSingleHeartbeat(answered)
        PROVE  Lease!Exchange
    <2>1. UNCHANGED owner /\ CurrNodes' \subseteq CurrNodes
      BY <1>6 DEF SendSingleHeartbeat, ReleaseNode, CurrNodes
    <2> QED
      BY <2>1 DEF Lease!Exchange
  <1>7. ASSUME ReleaseAllNodes PROVE Lease!Exchange
    <2>1. CurrNodes' = {} /\ owner' \in ReleaseNodes(owner, CurrNodes)
      BY <1>7 DEF ReleaseAllNodes, CurrNodes
    <2>2. \A n \in Nodes : owner'[n] # owner[n] =>
                n \in CurrNodes /\ owner[n] = "me" /\ owner'[n] = "nobody"
      BY <2>1 DEF ReleaseNodes, Released
    <2> QED
      BY <2>1, <2>2 DEF Lease!Exchange
  <1> QED
    BY <1>2, <1>3, <1>4, <1>5, <1>6, <1>7, DoGetNewNodesLease DEF NodeManagerNext

\* The services never put a node on record for this pod of their own accord.
LEMMA EnvStepLease == IInv /\ EnvNext => Lease!Others
  <1> SUFFICES ASSUME IInv, EnvNext PROVE Lease!Others
    OBVIOUS
  <1>1. CurrNodes' = CurrNodes
    BY DEF EnvNext, OtherAcquires, OtherReleases, Lapse, SetOwner, RotateKey,
           RotatePassword, CurrNodes
  <1>2. \A n \in Nodes : owner'[n] = "me" => owner[n] = "me"
    <2>1. CASE UNCHANGED owner
      BY <2>1
    <2>2. ASSUME NEW m \in Contended, NEW to \in {"other", "nobody"},
                 owner' = [owner EXCEPT ![m] = to]
          PROVE  \A n \in Nodes : owner'[n] = "me" => owner[n] = "me"
      BY <2>2 DEF IInv, TypeOK
    <2> QED
      BY <2>1, <2>2 DEF EnvNext, OtherAcquires, OtherReleases, Lapse, SetOwner,
                        RotateKey, RotatePassword
  <1> QED
    BY <1>1, <1>2 DEF Lease!Others

\* One pod in detail implements the abstract lease: it watches no node that
\* console-data did not just assign to it, and touches no other record.
THEOREM LeaseAlwaysKept == Spec => LeaseKept
  <1>1. Init => Lease!Init
    BY DEF Init, Lease!Init, CurrNodes
  <1>2. IInv /\ [Next]_vars => [Lease!Next]_<<owner, CurrNodes>>
    <2>1. CASE UNCHANGED vars
      BY <2>1 DEF vars, CurrNodes
    <2> QED
      BY <2>1, PodStepLease, EnvStepLease DEF Next, Lease!Next
  <1> QED
    BY <1>1, <1>2, Invariance, PTL DEF Spec, LeaseKept, Lease!Spec
=============================================================================
