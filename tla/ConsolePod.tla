------------------------------ MODULE ConsolePod ------------------------------
(***************************************************************************)
(* One console-node pod: its threads, its restarts, and the services it    *)
(* talks to (console-data, with the other pods behind it, and vault).      *)
(***************************************************************************)
EXTENDS NodeManager, ConmanRunner, CredMonitor

Init ==
    /\ owner = [n \in Nodes |-> "nobody"]
    /\ vaultKey = 0
    /\ vaultPw = [b \in Bmcs |-> 0]
    /\ phase = "boot"
    /\ currentRvrNodes = {} /\ currentMtnNodes = {} /\ currentPdsNodes = {}
    /\ targetRvrNodes = -1 /\ targetMtnNodes = -1
    /\ tailThreads = {} /\ logRotConf = {}
    /\ currNodesMutex = "free"
    /\ wpc = "sleep" /\ hpc = "sleep" /\ cpc = "config" /\ mpc = "sleep"
    /\ forceConfigUpdate = TRUE /\ confFile = {}
    /\ previousPasswords = NilPasswords
    /\ previousPrivateKeyHash = 0 /\ mountainConsoleKey = 0
    /\ restartConman = FALSE

\* main up to its threads: setPodLocation has its answer and
\* doInitialConfFileUpdate writes the rotation configuration.
Boot ==
    /\ phase = "boot"
    /\ phase' = "run"
    /\ DoInitialConfFileUpdate
    /\ UNCHANGED <<owner, vault, lists, targets, tailThreads, currNodesMutex,
                   wpc, hpc, cpc, conf, keys, monitor>>

\* The process ends and kubernetes starts it again: main returns after the
\* release, some thread calls log.Panicf or dereferenced nil, or the pod dies.
\* The files of the container (conman.conf, the ssh key, the configuration of
\* the log rotation) do not survive it; the records of console-data do.
Restart ==
    /\ phase # "boot"
    /\ phase' = "boot"
    /\ currentRvrNodes' = {} /\ currentMtnNodes' = {} /\ currentPdsNodes' = {}
    /\ targetRvrNodes' = -1 /\ targetMtnNodes' = -1
    /\ tailThreads' = {} /\ logRotConf' = {}
    /\ currNodesMutex' = "free"
    /\ wpc' = "sleep" /\ hpc' = "sleep" /\ cpc' = "config" /\ mpc' = "sleep"
    /\ forceConfigUpdate' = TRUE /\ confFile' = {}
    /\ previousPasswords' = NilPasswords
    /\ previousPrivateKeyHash' = 0 /\ mountainConsoleKey' = 0
    /\ restartConman' = FALSE
    /\ UNCHANGED <<owner, vault>>

\* signalConmanHUP, called by the log rotation thread without a lock.  Of the
\* state here it changes nothing, except between the assignment of command and
\* its start: like signalConmanTERM it then dereferences nil.
SignalConmanHUP ==
    /\ Up /\ cpc = "set"
    /\ phase' = "panic"
    /\ UNCHANGED <<owner, vault, lists, targets, tailThreads, logRotConf,
                   currNodesMutex, wpc, hpc, cpc, conf, keys, monitor>>

-----------------------------------------------------------------------------
\* console-data and the other pods.  The record of a node lapses when its
\* heartbeats are found to be stale.
SetOwner(n, from, to) ==
    /\ owner[n] = from
    /\ owner' = [owner EXCEPT ![n] = to]
    /\ UNCHANGED <<vault, phase, lists, targets, tailThreads, logRotConf,
                   currNodesMutex, wpc, hpc, cpc, conf, keys, monitor>>
OtherAcquires(n) == SetOwner(n, "nobody", "other")
OtherReleases(n) == SetOwner(n, "other", "nobody")
Lapse(n) == SetOwner(n, "me", "nobody")

\* console-operator puts a new ssh key into vault, hms a new password.
RotateKey ==
    /\ vaultKey < MaxKey
    /\ vaultKey' = vaultKey + 1
    /\ UNCHANGED <<owner, vaultPw, phase, lists, targets, tailThreads, logRotConf,
                   currNodesMutex, wpc, hpc, cpc, conf, keys, monitor>>
RotatePassword(b) ==
    /\ vaultPw[b] < MaxPw
    /\ vaultPw' = [vaultPw EXCEPT ![b] = @ + 1]
    /\ UNCHANGED <<owner, vaultKey, phase, lists, targets, tailThreads, logRotConf,
                   currNodesMutex, wpc, hpc, cpc, conf, keys, monitor>>

-----------------------------------------------------------------------------
NodeManagerNext ==
    \/ WatchWakes \/ DoGetNewNodes
    \/ HeartbeatDue \/ \E answered \in BOOLEAN : SendSingleHeartbeat(answered)
    \/ SigTerm \/ ReleaseAllNodes
ConmanNext ==
    \/ ConfigConman \/ ConfigKeys \/ ConfigKeyWriteFails \/ ConfigKeyDenied
    \/ NewCommand \/ StartCommand \/ ConmandExits \/ ClearCommand \/ KillZombie
MonitorNext ==
    \/ CheckKeys \/ KeysChecked \/ CheckKeyWriteFails \/ CheckKeyDenied
    \/ CheckPasswords \/ CheckLogFiles \/ RestartConman
EnvNext ==
    \/ \E n \in Contended : OtherAcquires(n) \/ OtherReleases(n) \/ Lapse(n)
    \/ RotateKey
    \/ \E b \in Bmcs : RotatePassword(b)

Next ==
    \/ Boot \/ Restart \/ SignalConmanHUP
    \/ NodeManagerNext \/ ConmanNext \/ MonitorNext \/ EnvNext

Spec == Init /\ [][Next]_vars

-----------------------------------------------------------------------------
\* The variables have their types; every map holds nodes of its own class.
TypeOK ==
    /\ owner \in [Nodes -> {"me", "other", "nobody"}]
    /\ vaultKey \in 0 .. MaxKey /\ vaultPw \in [Bmcs -> 0 .. MaxPw]
    /\ phase \in {"boot", "run", "stopping", "released", "panic"}
    /\ currentRvrNodes \subseteq RvrNodes
    /\ currentMtnNodes \subseteq MtnNodes
    /\ currentPdsNodes \subseteq PdsNodes
    /\ targetRvrNodes \in Nat \cup {-1} /\ targetMtnNodes \in Nat \cup {-1}
    /\ tailThreads \subseteq Nodes /\ logRotConf \subseteq Nodes
    /\ currNodesMutex \in {"free", "conman", "monitor"}
    /\ wpc \in {"sleep", "lock"} /\ hpc \in {"sleep", "send"}
    /\ cpc \in {"config", "keys", "denied", "launch", "set", "run", "term", "reap"}
    /\ mpc \in {"sleep", "keys", "denied", "pw", "logs", "signal"}
    /\ forceConfigUpdate \in BOOLEAN /\ confFile \subseteq Nodes
    /\ previousPasswords \in [Bmcs -> -1 .. MaxPw]
    /\ previousPrivateKeyHash \in 0 .. EmptyKey
    /\ mountainConsoleKey \in 0 .. EmptyKey
    /\ restartConman \in BOOLEAN

\* The log of a node is copied into the aggregation log only while the pod
\* watches the node: every way of losing a node also stops its tail.
TailsHeld == tailThreads \subseteq CurrNodes

\* Every node the pod watches has its log rotated.
HeldLogsRotated == CurrNodes \subseteq logRotConf

\* The mutex is held across a wait exactly by the thread that waits for the ssh
\* key, so runConman and doMonitor never run the key loop together.
MutexHolder ==
    /\ currNodesMutex = "conman" <=> cpc \in {"keys", "denied"}
    /\ currNodesMutex = "monitor" <=> mpc \in {"keys", "denied"}

\* "this prevents the lists from being updated in the middle of doing the
\* configuration": however long configConman waits for the ssh key, the file it
\* wrote and the tails it started are those of the nodes the pod still watches.
ConfigIsCurrent ==
    cpc \in {"keys", "denied"} =>
        /\ tailThreads = CurrNodes
        /\ WillUpdateConfig => confFile = CurrNodes

\* Whoever changes the node maps under a running conmand tells it to terminate,
\* so that it comes back with a new configuration (a shutdown excepted).
ChangeRestartsConmand ==
    [][cpc = "run" /\ CurrNodes' # CurrNodes /\ phase' = phase => cpc' = "term"]_vars

\* Whatever its threads do, and however answers are lost, the pod keeps to the
\* lease protocol: it begins to watch only nodes that console-data assigns to it
\* in the same step, and the record of another pod is never its to change.
Lease == INSTANCE PodLease WITH held <- CurrNodes, Self <- "me"
LeaseKept == Lease!Spec

-----------------------------------------------------------------------------
\* Fairness.  The threads of the process are scheduled, and a Go mutex starves
\* no waiter; console-data answers a heartbeat now and then; conmand exits when
\* told to; a process that has ended is started again.
ConmanThread ==
    \/ ConfigConman \/ ConfigKeys \/ NewCommand \/ StartCommand \/ ClearCommand
    \/ cpc = "term" /\ ConmandExits
MonitorThread ==
    CheckKeys \/ KeysChecked \/ CheckPasswords \/ CheckLogFiles \/ RestartConman
MainThread ==
    Boot \/ ReleaseAllNodes \/ (phase \in {"released", "panic"} /\ Restart)

ThreadFairness ==
    /\ SF_vars(MainThread)
    /\ SF_vars(WatchWakes \/ DoGetNewNodes)
    /\ WF_vars(HeartbeatDue) /\ SF_vars(SendSingleHeartbeat(TRUE))
    /\ SF_vars(ConmanThread)
    /\ SF_vars(MonitorThread)

\* The ssh key and the passwords get into vault in the end.
VaultFairness ==
    /\ WF_vars(vaultKey = 0 /\ RotateKey)
    /\ \A b \in Bmcs : WF_vars(vaultPw[b] = 0 /\ RotatePassword(b))

FairSpec == Spec /\ ThreadFairness /\ VaultFairness

\* A shutdown gets past releaseAllNodes.
ShutdownCompletes == phase = "stopping" ~> phase # "stopping"

\* A node that console-data no longer has on record for this pod is given up,
\* although the heartbeat that tells the pod so waits for a mutex that is held by
\* threads waiting on vault, and may go unanswered.
OnRecord == \A n \in CurrNodes : owner[n] = "me"
LostNodesDropped == ~OnRecord ~> OnRecord

\* A River or Paradise node that stays assigned to this pod is connected by
\* conmand, again and again, with the password vault has for it.
CredentialsFollowed ==
    \A n \in RvrNodes \cup PdsNodes :
        <>[](n \in CurrNodes) =>
            []<>(n \in Serving /\ previousPasswords[BmcName[n]] = vaultPw[BmcName[n]])

\* A node that stays assigned to this pod is connected by conmand again and
\* again: each change of the maps is meant "to trigger a re-configuration and
\* restart of conman".
ConsoleServed ==
    \A n \in Nodes : <>[](n \in CurrNodes) => []<>(n \in Serving)

-----------------------------------------------------------------------------
\* What the comments say and the code does not do; each of these is refuted.

\* "this just waits until it is available in vault": a configuration that waits
\* for the ssh key goes on once the key is there.
KeyWaitEnds == cpc \in {"keys", "denied"} ~> cpc \notin {"keys", "denied"}

\* Signaling conmand is not meant to bring the process down.
SignalIsSafe == phase # "panic"

\* "Make sure that we have a proper ssh console keypair deployed [...] before starting
\* conman": the conmand that runs on Mountain consoles has a key from vault in the
\* local file.  Refuted: a failed write is taken for done on the next try.  (So is an
\* empty answer for a key, and with an unreadable token nothing is waited for.)
KeyDeployed == Serving \cap MtnNodes # {} => mountainConsoleKey \in 1 .. MaxKey
=============================================================================
