------------------------------- MODULE PodState -------------------------------
(***************************************************************************)
(* The state that the threads of one console-node pod share, the services  *)
(* around it, and the operations every thread uses: the test that the      *)
(* process is up, signalConmanTERM and ensureMountainConsoleKeysPresent.   *)
(* The threads themselves are NodeManager (watchForNodes, doHeartbeat, the *)
(* shutdown of main), ConmanRunner (runConman) and CredMonitor (doMonitor);*)
(* ConsolePod puts them together.                                          *)
(***************************************************************************)
EXTENDS Integers

CONSTANTS
    Nodes,          \* the xnames console-data may assign
    Bmcs,           \* the BMCs whose credentials vault may hold
    Class,          \* Class[n]: the hardware class console-data reports for n
    BmcName,        \* BmcName[n]: the BMC behind the console of n
    MaxAcquireMtn, MaxAcquireRvr,   \* maxAcquireMtn, maxAcquireRvr
    FileReads,      \* what updateNodesPerPod may find in the target file
    PodCounts,      \* what getNumActiveNodePods may answer
    Totals,         \* what getCurrentTargets may answer
    WillUpdateConfig,   \* the UPDATE_CONFIG flag of the base configuration file
    TokenReads,     \* may reading the service account token succeed, fail?
    TokenExpires,   \* may vault's token expire while the ssh key is awaited?
    EmptyAnswers,   \* may vault answer 200 without the key in it?
    Contended,      \* the nodes another pod may take, or whose record may lapse
    MaxKey, MaxPw   \* bounds on the versions of the ssh key and of a password

ASSUME ClassAssumption ==
    Class \in [Nodes -> {"River", "Mountain", "Hill", "Paradise", "Other"}]
ASSUME BmcAssumption == BmcName \in [Nodes -> Bmcs]
\* readSingleEnvVarInt keeps both in these ranges.
ASSUME AcquireAssumption == MaxAcquireMtn \in 5 .. 2000 /\ MaxAcquireRvr \in 5 .. 4000
ASSUME FileReadsAssumption ==
    \A f \in FileReads : f.rvr \in Nat \cup {-1} /\ f.mtn \in Nat \cup {-1}
ASSUME CountsAssumption ==
    /\ PodCounts \subseteq Nat
    /\ \A t \in Totals : t.rvr \in Nat /\ t.mtn \in Nat
ASSUME FlagsAssumption ==
    /\ WillUpdateConfig \in BOOLEAN /\ TokenReads \subseteq BOOLEAN
    /\ TokenExpires \in BOOLEAN /\ EmptyAnswers \in BOOLEAN
ASSUME ContendedAssumption == Contended \subseteq Nodes
ASSUME VersionsAssumption == MaxKey \in Nat /\ MaxPw \in Nat

VARIABLES
    \* Services: the pod console-data has on record for each node, and the
    \* versions of the ssh key and of each password in vault (0: none yet).
    owner, vaultKey, vaultPw,
    \* The process: "boot" (main has not started its threads), "run",
    \* "stopping" (inShutdown is set), "released" (releaseAllNodes is done),
    \* "panic" (a nil dereference has ended it).
    phase,
    \* Guarded by currNodesMutex: the node maps, the targets, the tailed logs
    \* and the nodes in the log rotation configuration.
    currentRvrNodes, currentMtnNodes, currentPdsNodes,
    targetRvrNodes, targetMtnNodes, tailThreads, logRotConf,
    \* The thread that sleeps or waits on vault holding the mutex, or "free".
    \* Sections that run to their end without waiting are single steps.
    currNodesMutex,
    \* Where each thread is: watchForNodes, doHeartbeat, runConman, doMonitor.
    wpc, hpc, cpc, mpc,
    \* runConman: its flag, the consoles in conman.conf, the passwords in it.
    forceConfigUpdate, confFile, previousPasswords,
    \* The hash of the last key fetched and the key in the local file (0: none).
    \* Distinct keys have distinct hashes, so a key stands for its hash.
    previousPrivateKeyHash, mountainConsoleKey,
    \* checkForChanges: a change was seen in this pass.
    restartConman

lists == <<currentRvrNodes, currentMtnNodes, currentPdsNodes>>
targets == <<targetRvrNodes, targetMtnNodes>>
vault == <<vaultKey, vaultPw>>
conf == <<forceConfigUpdate, confFile, previousPasswords>>
keys == <<previousPrivateKeyHash, mountainConsoleKey>>
monitor == <<mpc, restartConman>>
vars == <<owner, vault, phase, lists, targets, tailThreads, logRotConf,
          currNodesMutex, wpc, hpc, cpc, conf, keys, monitor>>

\* isRiver, isMountain, isParadise; a node of any other class is ignored.
RvrNodes == {n \in Nodes : Class[n] = "River"}
MtnNodes == {n \in Nodes : Class[n] \in {"Mountain", "Hill"}}
PdsNodes == {n \in Nodes : Class[n] = "Paradise"}

\* getCurrNodeXnames: every node this pod watches.
CurrNodes == currentMtnNodes \cup currentRvrNodes \cup currentPdsNodes

\* The BMCs whose passwords updateConfigFile and the monitor ask for.
PasswordBmcs == {BmcName[n] : n \in currentRvrNodes \cup currentPdsNodes}

\* getPasswords: what vault has for the given BMCs, nothing (0) for the others.
\* The retries of getPasswordsWithRetries end with one such answer.
GetPasswords(bmcs) == [b \in Bmcs |-> IF b \in bmcs THEN vaultPw[b] ELSE 0]

\* The Go value nil of previousPasswords.
NilPasswords == [b \in Bmcs |-> -1]

inShutdown == phase \in {"stopping", "released"}
Up == phase = "run" \/ inShutdown
MutexFree == currNodesMutex = "free"

\* postURL to console-data: the body of the answer, nothing if there is none.
\* What the service did for a request stays done when its answer is lost.
PostURL(body, answered) == IF answered THEN body ELSE {}

\* signalConmanTERM.  command is nil while runConman is at "config", "keys" or
\* "launch": the request is only logged.  At "set" command has no Process yet
\* and the call dereferences nil.  At "run" conmand gets the signal.  At "term"
\* it already has it, and at "reap" the process is gone.
BadSignalConmanTERM == UNCHANGED <<cpc, phase>>
SignalConmanTERM ==
    /\ cpc' = IF cpc = "run" THEN "term" ELSE cpc
    /\ phase' = IF cpc = "set" THEN "panic" ELSE phase

NoSignal == UNCHANGED <<cpc, phase>>

\* stopTailing, for each of the given nodes.
BadStopTailing(nodes) == UNCHANGED tailThreads
StopTailing(nodes) == tailThreads' = tailThreads \ nodes

\* A thread keeps the mutex while it waits, and its deferred Unlock.
BadHoldMutex(thread) == UNCHANGED currNodesMutex
HoldMutex(thread) == currNodesMutex' = thread
BadReleaseMutex == UNCHANGED currNodesMutex
ReleaseMutex == currNodesMutex' = "free"

\* ensureMountainConsoleKeysPresent returns before it asks vault for anything.
NoKeyNeeded(token) == currentMtnNodes = {} \/ ~token

\* vaultExportPrivateKey: the keys it may return with status 200.  An empty one
\* comes with an error, which its caller does not look at.
EmptyKey == MaxKey + 1
VaultExportPrivateKey ==
    {k \in {vaultKey} : k # 0} \cup {k \in {EmptyKey} : EmptyAnswers}

\* One pass of its loop, by the thread that holds the mutex, once vault answers
\* with a key.  A key with a new hash is recorded first and written second; if
\* the write fails the loop goes round again.
NewKeys == VaultExportPrivateKey \ {previousPrivateKeyHash}
KeyWritten ==
    \E pvtKey \in NewKeys :
        previousPrivateKeyHash' = pvtKey /\ mountainConsoleKey' = pvtKey
KeyWriteFails ==
    /\ previousPrivateKeyHash' \in NewKeys
    /\ UNCHANGED mountainConsoleKey
KeyUnchanged ==
    /\ previousPrivateKeyHash \in VaultExportPrivateKey
    /\ UNCHANGED keys

\* The token is fetched once, before the loop.  When it expires during a long
\* wait vault denies every later request, and the loop never logs in again.
KeyDenied == TokenExpires /\ UNCHANGED keys
=============================================================================
