# console-node in TLA+

This directory holds a TLA+ model of the console-node service (`src/src/console_node`,
Go), TLC configurations that check it on small instances, and TLAPS proofs for
instances of any size.

A console-node pod watches the serial consoles of a set of compute nodes. It gets its
nodes from console-data, keeps them by heartbeats, runs `conmand` on a configuration
generated from them, copies their logs into one aggregation log, rotates the logs, and
follows changes of the credentials in vault. Several pods share the hardware; each works
out its own share.

## 1. Inventory

| Component (source) | State | Operations | Talks to |
|---|---|---|---|
| node watch (`nodes.go`) | the three node maps, the two targets | `doGetNewNodes`: `calcChangeInNodes`, `acquireNewNodes`, `rebalanceNodes`, `signalConmanTERM`, `updateLogRotateConf` | console-data, console-operator, the target file |
| heartbeat (`data.go`) | `lastHeartbeatTime` | `sendSingleHeartbeat`, `releaseNode` | console-data |
| conmand runner (`conman.go`) | `command`, `conman.conf` | `configConman`, `updateConfigFile`, `executeConman`, `signalConmanTERM`, `signalConmanHUP` | vault, the conmand process |
| credentials (`creds.go`) | `previousPrivateKeyHash`, the key file | `ensureMountainConsoleKeysPresent`, `getPasswordsWithRetries` | vault |
| credential monitor (`monitor.go`) | `previousPasswords` | `checkForChanges` with its three checks | vault, conmand |
| log aggregation (`logAggregation.go`) | `tailThreads`, the aggregation logger | `aggregateFile`, `stopTailing`, `watchConsoleLogFile`, `respinAggLog` | the tail library |
| log rotation (`logRotation.go`) | the configuration file, time stamps | `updateLogRotateConf`, `rotateLogsOnce`, `readLogRotTimestamps` | logrotate, conmand (HUP) |
| main (`consoleNodeMain.go`) | `inShutdown` | start-up, `releaseAllNodes`, exit | kubernetes |
| console-operator client (`operator.go`) | none | `getPodLocation`, `getCurrentTargets` | console-operator |
| zombie killer (`zombies.go`) | none | `killZombie` | the process table |
| health, HTTP helpers (`health.go`, `httpUtils.go`) | none of their own | read-only handlers, `postURL` | |

**How the parts interact.** Every component is a goroutine that loops and sleeps. They
share `currNodesMutex`, which guards the node maps, the targets, the tails and the
rotation configuration. It is held across HTTP calls, across up to 150 seconds of password
retries, and across an unbounded wait for the ssh key. `command`, `inShutdown` and
`previousPasswords` are shared without a lock. Nobody restarts conmand directly: the
other threads send it SIGTERM, and `runConman` then configures and starts it afresh.

**What is hard here.**

* The restart request is a signal to a process that may not exist: it gets lost while
  `command` is nil, and it dereferences nil between the assignment of `command` and `Start`.
* Nodes enter by one path and leave by three (rebalance, heartbeat, shutdown); tails, rotation
  entries, conmand's configuration and console-data's records must follow on each.
* Answers of console-data get lost after the assignment was recorded; the process dies while
  nodes are on record for it.
* Waits for vault happen with the mutex held; heartbeats and the shutdown need that mutex.
* The number of nodes to hold is computed from stale and possibly missing answers, with
  truncation, a 10 % band and a spare node.
* Several pods work out their shares at the same time, each from its own answers; a pod that
  waits with the mutex held sends no heartbeat, and its nodes are given to others meanwhile.
* A console log is moved away under two readers of its path, conmand and the tail library; the
  library is told by a watcher that says it once, to whoever listens at that moment.
* A tail is stopped by a goroutine that no longer takes the lines the library offers it.
* The removal loops of `rebalanceNodes` compare lengths that shrink while they run.

`PROJECT.json` lists these as hazards, each at its line, with the properties aimed at it.

**What makes each part correct.** Node watch: shares are exact, the pools stay balanced, a
change reaches conmand. Heartbeat: a lost node is given up in spite of the waits.
Runner: the configuration is that of the nodes held, keys come first, a node held is served.
Monitor: conmand ends up with the password vault has. Fleet: a pod watches only what it is
assigned, every node ends up watched once, nodes are not passed around for ever. Aggregation and
rotation: exactly the nodes held are tailed, at least they are rotated, lines are copied once
and in order, every reader follows a rotation. Shutdown: it completes.

## 2. Modules

| Module | Models |
|---|---|
| `NodeBalance` | the arithmetic of `nodes.go`: `pinNumNodes`, ideal number, 10 % band, target file, and closed forms of what `rebalanceNodes` removes |
| `RebalanceLoop` | `rebalanceNodes`, one loop iteration per step |
| `PodState` | the shared state of a pod, constants and their assumptions, `signalConmanTERM`, `stopTailing`, the key loop |
| `NodeManager` | `watchForNodes`, `doHeartbeat`, the shutdown of `main` |
| `ConmanRunner` | `runConman`, and what the zombie killer may do to it |
| `CredMonitor` | `doMonitor` |
| `ConsolePod` | the pod: these threads together, start and restart, HUP, console-data, the other pods and vault; the properties of a pod |
| `PodLease` | abstract: what a pod promises console-data and the other pods |
| `PodFleet` | several pods over one console-data |
| `LogAggregation` | the goroutine that copies one console log, the tail library with its polling watcher, the aggregation log |
| `LogRotation` | the rotation thread, logrotate and conmand around `LogAggregation` |
| `RebalanceLoopProofs`, `ConsolePodProofs`, `PodFleetProofs`, `LogRotationProofs` | theorems |
| `MCRebalanceLoop`, `MCConsolePod`, `MCPodFleet` | values for TLC |

### One pod (`ConsolePod` and the modules it extends)

**State.** A Go map of nodes is a set of nodes, since the class and BMC of a node are fixed
by constants. `owner` is console-data's record: this pod ("me"), another pod, or nobody.
Keys and passwords are version numbers, 0 for "not in vault", and `previousPasswords` starts
as `NilPasswords`. A password read by a configuration and the hash of a key are their versions;
`EmptyKey` is the empty key of an answer that has none. `confFile` is the set of consoles in
`conman.conf`; only `runConman` writes it, so the consoles conmand is connected to (`Serving`) are
`confFile` while it runs. `cpc`, `mpc`, `wpc` and `hpc` say where each thread is; the comment at
the head of each module lists their values. `phase` is the life of the process; "panic" is a nil
dereference in `signalConmanTERM` or `signalConmanHUP`. Every other way to die (`log.Panicf`,
SIGKILL, eviction) is a `Restart` from any phase. A restart loses everything but console-data's
records and vault.

**Atomicity.** A critical section of `doGetNewNodes`, `sendSingleHeartbeat` or
`releaseAllNodes` is one step: the mutex excludes all other writers of what it touches,
its only outside effects are one or two calls to console-data, and the threads that run
without the mutex touch only `command`. What happens *before* the lock is a step of its own
(`WatchWakes` reads `inShutdown`; `HeartbeatDue`), because the wait in between may be long.
A section that can wait without bound, the key loop, is several steps with
`currNodesMutex` held: `ConfigConman`, then `ConfigKeys`, `ConfigKeyWriteFails` or
`ConfigKeyDenied`, and likewise `CheckKeys` of the monitor. `executeConman` takes no lock and is
split at each place where another thread can see a different `command`: `NewCommand`,
`StartCommand`, `ConmandExits`, `ClearCommand`. `checkForChanges` takes the mutex three
times and signals without it: five steps.

**Calls that fail.** `acquireNewNodes`: console-data assigns nodes, and the answer arrives or
not. A release or a heartbeat is delivered and answered, or not. The numbers of
`calcChangeInNodes` come from the services or from the deprecated target file. The service
account token is readable or not (`TokenReads`). Vault's token may expire while the key is
awaited (`TokenExpires`; the loop then never ends, "denied"), vault may answer 200 without a key
(`EmptyAnswers`), and writing the key file fails or not.

**The float comparison.** `float64(curr) > 1.1*float64(ideal)` is `10*curr > 11*ideal`. The
float nearest 1.1 is above it, and products of it with the integers in question round to at
least the exact value, so equality counts as "not over" in both.

**console-data** is not in this repository. It is modelled from how the client uses it: an
acquire assigns only nodes that nobody has, at most as many River and as many other nodes as asked
for; a release and a heartbeat concern what the record says; records of `Contended` nodes may
lapse, and other pods may take and give back such nodes at any time.

### The lease and the fleet (`PodLease`, `PodFleet`)

`PodLease` has two variables: the records of console-data and the nodes the pod watches. The pod
begins to watch a node only in the step in which console-data puts it on record for it, and of the
records it changes only free nodes (it takes them) and its own (it gives them up, and stops
watching them in the same step). The others never put a node on record for it, but may take its
records away: a lapse. `ConsolePod` implements it with `held <- CurrNodes, Self <- "me"`
(`LeaseKept`), and so does every pod of `PodFleet` (`LeasesKept`).

`PodFleet` reduces each pod to the nodes it watches and its calls. The numbers it works with are
those of `NodeBalance`, the same operators `NodeManager` uses. All nodes are River nodes, because the
two special rules are about them: a pod is never assigned the worker it runs on, and each asks for a
spare. A pass (`DoGetNewNodes`) is one critical section, as above. The mutex is the pod's own: the reading of
the number of active pods, the acquire and the release are separate calls, between which other pods act. A count
that is out of date at the acquire is one of the wrong numbers of `DoGetNewNodesBadly`; the acquire and the
release concern free records and the pod's own, so the steps of other pods commute with what lies between. What goes wrong is counted in
`faults`: a pass with wrong or missing numbers, with a lost answer or a lost release
(`DoGetNewNodesBadly`), an unanswered heartbeat, a crash, a shutdown (`ReleaseAllNodes`, whose call may
be lost, then at most one pass that had already read `inShutdown`: state "late"), and `Silence`: no
heartbeat for so long that console-data gives the nodes away while the pod still watches them. That
is what a wait for vault, or an HTTP call that is never answered, looks like from outside: the client
has no timeout and the mutex is held. console-data clears a record whose pod no longer names the
node in its heartbeats (`Stale`).

### The logs (`LogAggregation`, `LogRotation`)

One console log and the aggregation log. The files of the console log are numbered as they are
created; `files` has the number of lines in each, and `<<f, k>>` is line `k` of file `f`. All lines are of
one length, so the size and the modification time of a file are its number of lines.
The tail library is in this repository (`vendor/github.com/hpcloud/tail`), so it is modelled from
its source: `tpc` is its place in `tailFileSync` and `waitForChanges`, `changes` whether the channels
of its watcher exist and the watcher still runs. The watcher compares the path with the file it was
started on, once per turn (`Poll`), and its notices go through `sendOnlyIfEmpty`: they reach the
library only in its select, otherwise they are dropped. `kpc` is the goroutine `watchConsoleLogFile`,
whose select takes a line, a nil line of a closed channel, or the cancelled context. `truncated` is a
history variable: the watcher has told the library that the log was truncated. Nothing in the code
truncates a console log, so this is always a rotation taken for a truncation.

With `IOErrors` any of these may fail with another error than a missing file: the library stops itself
(`TailFails`, "failed"), the watcher ends the process (`PollFails`), and `respinAggLog` leaves the
logger as it is, on a moved file ("failed") or, at the start, nil ("none", lines are then lost).

logrotate and conmand are external. logrotate moves any subset of the two logs away and stamps what
it rotated or sees for the first time; conmand writes to the file it has open until it gets a HUP.
The rotation thread runs logrotate and compares the stamps (`RotateLogsOnce`), pauses, and then
signals conmand and reopens the aggregation log (`FollowRotation`). Each reading gets the
stamps of one of the sets in `ReadableStamps`: none when the state file cannot be opened, some when lines do not
parse. The first reading, in `doLogRotate`, is in `Init`: the file is there from an earlier run or not.

The `Bad...` definitions are mutated forms of the definition after them (a dropped guard, a
missing reset, a wrong operand). Each property is violated under one of them.

## 3. Runs

| Run | Checks | Bounds |
|---|---|---|
| `rebalance_loop` | `rebalanceNodes` takes nothing from an empty map, ends with the closed-form sizes (`SharesExact`), never drives the pools apart (`GapNeverGrows`), and returns (`Returns`) | pools 0..3, arguments -7..1: each pool larger, ties, too much asked for |
| `pod_safety` | `TypeOK`, `TailsHeld`, `HeldLogsRotated`, `MutexHolder`, `ConfigIsCurrent`, `ChangeRestartsConmand`, and the refinement `LeaseKept` | a Mountain, a Hill and a Paradise node, one of them contended; one key that appears late, an expiring token |
| `pod_creds` | `CredentialsFollowed`: conmand comes to use the password vault has, also for a node that arrives at the wrong moment | a River and a Paradise node with a BMC each, passwords that appear late and are rotated |
| `pod_vault` | `ConfigIsCurrent`, `LostNodesDropped`, `ShutdownCompletes` | one contended Mountain node, late key, empty answers, unreadable token, failed writes, `UPDATE_CONFIG=FALSE` |
| `fleet` | `TypeOK`, `LeasesKept`, `OverlapNeedsSilence`: a pod watches a node that is not on record for it only after a silence of its own; `PassBalances`: a pass brings a pod to its ideal number as far as there are nodes, and beyond it by the spare only; `SomeoneAsks`: pods that watch different nodes are never all at their ideal numbers; `EveryNodeWatched`, `SettlesDown`, `OverlapEnds` | two pods, three River nodes, one of them the worker of a pod; two faults |
| `console_logs` | `TypeOK`, `AggregatedInOrder`, `CopiedWithoutGaps`, `DiesOnlyIfMoved`, `MovedLogsFollowed`, `TruncatedAtMostOnce` | up to three lines in two files, up to two rotations of the aggregation log, every I/O error, readings of the state file that get nothing or only the console's stamp |

In the runs of one pod the ideal number is 1 or 3 (`MCTotals`, one pod), so that with up to three
nodes a pod is under, at and over its ideal. Two or three nodes are enough for a node to come or go
while another is being configured; more only repeat this, and the proofs cover every number.
Liveness runs have one or two nodes because TLC's cost there is the number of threads. In `fleet`
the ideal number is 2 with two active pods and 4 with one; a pod at its ideal takes the spare and gives
it back in its next pass, so nodes do move. Two faults let a pod be silent and another crash, or a release and then the answer to the next request be lost.
In `console_logs` two lines are the least that can be copied in a wrong order or with one missing, and
two stamps let a log be seen first and rotated later; `MaxWritten` bounds the lines of all files. The
properties are safety properties, proved for any number of lines, files and rotations. That a rotation is
followed in the end is not a run of its own: `FollowRotation` always ends the pause of the thread, and
`MovedLogsFollowed`, read when the thread sleeps, says what it has left to do. The two violation runs of the
logs have no I/O errors and complete readings, so that what they show is not due to either.
Deadlock is checked in all passing runs but two: the program of `rebalance_loop` ends, and in `console_logs`
a nil line or an I/O error ends the process.

**Fairness of one pod** (`FairSpec`). Each thread is strongly fair: goroutines are scheduled, all
sleeps are finite, and a Go mutex hands itself over to a waiter that starves, so a thread that
finds the mutex free again and again gets it. Strong fairness of the answered heartbeat says
console-data is not unreachable for ever. conmand exits when it gets SIGTERM, and
kubernetes restarts an ended process. No fairness on key-file write failures, on conmand
exiting by itself, on SIGTERM to the pod, on other pods. `VaultFairness` says each key and
password gets into vault at some time; without it `LostNodesDropped` and `ShutdownCompletes` are
false, as the wait for the ssh key never ends and holds the mutex.

**Fairness of the fleet.** Every pod makes passes and sends heartbeats; a process that has released
its nodes ends, and an ended one is restarted; console-data clears stale records. The nodes a
pod gives back are the first of a map iteration, which Go randomises ("map iteration is
random"): strong fairness per node says that none is kept for ever by a pod that gives back again
and again. Without it the two pods could pass the same two nodes to and fro, and the worker that one of them
may not watch would stay unwatched. No fairness on faults, whose number is bounded: the properties say what
holds once they are over.

**Fairness of the logs.** The goroutines of the process are scheduled (weak fairness of the library,
the watcher, the copying goroutine, the second half of a rotation). Go chooses among ready cases of
a select at random, so a context that stays cancelled is seen (strong fairness of `ExitGracefully`).
Nothing is assumed of conmand, of logrotate, of when a tail is stopped, or of I/O errors. The two violation
runs of the logs are behaviours under this fairness.

**What does not hold.** Six runs state what comments in the code say and show a behaviour that
contradicts them:

* `lost_restart_new_node` (`ConsoleServed`): a Mountain node acquired after `configConman`
  unlocked and before conmand is started is never served, since the SIGTERM finds `command`
  nil and nobody asks again. A River node with a BMC of its own is rescued by the monitor
  (`pod_creds`), because its password is missing from `previousPasswords`. A River
  node that shares the BMC of a node already configured is not.
* `signal_panics` (`SignalIsSafe`): a SIGHUP (`conman.go:119`, the shortest behaviour) or a SIGTERM
  (`conman.go:144`) requested between the assignment of `command` and `Start` dereferences a nil `Process`.
* `key_not_written` (`KeyDeployed`): `conman.go:67-70` promises that the ssh key is deployed before
  conmand is started and that the call waits for it. The hash of a key is recorded before the file is
  written; after a failed write the loop takes the key for "already exists", and conmand runs without it.
  The promise is broken in two more ways, which the constants of this run leave out: an unreadable
  service account token ends the wait before it begins (`creds.go:208-212`), and an answer 200
  without a key is written as an empty key (`creds.go:164`). Without these three failures it
  holds (`KeyDeployedWithoutFailures`).
* `key_wait_hangs` (`KeyWaitEnds`): the wait for the key goes on with the token it began with; when
  that expires the arrival of the key does not end it, and the mutex is never released.
* `tail_lost_rotation` (`TailFollowsRotation`): `logAggregation.go:120-121` says that a moved log is reopened
  and a missing one tried again. There are three ways to fail. A log that is missing when the watcher is
  started makes the library give up, and the nil line of its closed channel ends the process (the
  behaviour TLC prints). The watcher says once that the log was moved, and if the library is reading or
  handing over a line at that moment the notice is dropped and the tail stays on the moved file for
  ever. And a watcher that is started when the new file is already there takes it for the library's
  own: if the library had reached place 0 of the old file, or the new one is as long as the old, it reports
  nothing but growth, and the library reads on at the end of the old file. The last two were seen by excluding
  the first in the same instance.
* `cancelled_tail_hangs` (`CancelledTailEnds`): `logAggregation.go:115` and `:145` say that a cancelled tail
  exits gracefully. If the library is offering a line when the goroutine leaves its loop, `tf.Stop` waits for
  the library and the library for a reader of the line: both hang, with the log open.

Two more places contradict a comment, without a run of their own:

* Paradise nodes "are included in mountain count" (`nodes.go:230`) and "count towards mountain limits"
  (`nodes.go:319`), but `calcChangeInNodes` counts only `currentMtnNodes` (`nodes.go:160`), so Paradise nodes
  held never reduce what a pod asks for. The model has this (`CalcChangeInNodes`). A limit stated as an
  invariant is broken by changing answers alone, whatever is counted, so no run would show just this.
* "the aggregation log must be restarted for moved file" (`logRotation.go:406`): when `respinAggLog` fails the
  stamp is in the map already, so it is not tried again before the next rotation, and until then
  the logger writes to the moved file ("failed" in the model; `MovedLogsFollowed` speaks of a log that was not tried).

Other behaviour worth knowing, of which the code says nothing:

* A heartbeat that drops nodes leaves their logs in the rotation configuration until the next
  change; the other direction holds (`HeldLogsRotated`).
* `doGetNewNodes` may acquire nodes after `releaseAllNodes`. They stay on record for a process that
  ends, until console-data clears them (`EveryNodeWatched` shows that they are watched again).
* The aggregation log is truncated once after the start, when its stamp is first seen
  (`TruncatedAtMostOnce`).
* A tail that has read its log to the end, and whose log is replaced before the watcher is started, takes
  the new and shorter log for a truncated one and opens it, while its watcher goes on with it. If that log is rotated too before the library has
  opened it, the library gets the third file with a watcher on the second; when the watcher then
  reports the move, the third file is read and copied again. It takes a watcher that is not scheduled for
  the time of a rotation; `AggregatedInOrder` allows for this, and for nothing else (`truncated`).
* What conmand writes to a moved file after the library has left it, or while the library is looking at
  the new one, is not copied (`CopiedWithoutGaps` shows that only the end of a file can be missing).
* An error other than a missing file, when the library opens, seeks or reads its log, ends the process
  too, through the nil line; such an error of the watcher does so at once (`util.Fatal`). `DiesOnlyIfMoved`
  says that a tail ends the process in no other case than these and a moved log.
* Without an aggregation logger (`respinAggLog` failed at the start) the lines that are read are lost.

## 4. Proofs

`RebalanceLoopProofs` proves, for every set of sizes and of arguments, that the loops keep
`TypeOK`, end with `SharesExact` and keep `GapNeverGrows`. The invariant (`LoopInv`) says how
much each pool has lost so far, by the closed form `PdsShare` at the number removed so far; a lemma
says how `PdsShare` grows when one more node is taken from the larger pool. `SharesExact` alone is not
inductive, as it says nothing before the end. This is what allows `NodeManager` to remove the
nodes in one step.

`ConsolePodProofs` proves, for every set of nodes and BMCs, any classes and any bounds that satisfy the
assumptions in `PodState`, that the conjunction `IInv` of `TypeOK`, `TailsHeld`,
`HeldLogsRotated`, `MutexHolder`, `ConfigIsCurrent` and `KeyAnswered` is inductive, and
from it each property and `ChangeRestartsConmand`. The conjuncts need each other:
`ConfigIsCurrent` holds across a wait only because `MutexHolder` shows that whoever changes
the maps finds the mutex taken; `KeyAnswered`, that with a readable token a configuration with Mountain
consoles is past the key loop only with an answer, holds at the end of the wait only because
`ConfigIsCurrent` ties the configuration to the nodes the key was awaited for; `TailsHeld` at
`ConfigConman` needs the types. `KeyDeployedWithoutFailures` takes the key from there to the file: in a
behaviour without a failed write (`KeysWritten`), with readable tokens and no empty answers, the file has the
key of the last hash (`KeyFiled`), so `KeyDeployed`, which a failed write refutes, holds. `LeaseAlwaysKept` is the refinement `Spec => LeaseKept`: a lemma for
`doGetNewNodes` (what is given back was on record, or taken in the same step), one for the other
steps of the pod, one for the environment.

`PodFleetProofs` proves `TypeOK` (`FleetTypeCorrect`) and the refinement `LeasesKept`
(`LeasesAlwaysKept`) for any set of pods, any set of nodes and any number of faults. A pod's own
step is an `Exchange` of its lease (`OwnStepLease`), and for every other pod the same step is one of the
`Others` (`OtherStepLease`): this needs that a release touches only the releasing pod's records.
On this rest, for finitely many pods and nodes (`FiniteAssumption`):

* `RecordLostInSilence`: every step but the pod's own `Silence` keeps `OwnRecord(p)`, that what `p`
  watches is on record for it. Its own steps do so as exchanges (`ExchangeKeepsRecord`), those of the
  others because they leave its records alone. This is `OverlapNeedsSilence`, and from it, by
  induction over the steps, `ExclusiveWithoutSilence`: in a run without silences no two pods watch a
  node. `OwnRecord` is not an invariant of `Spec`, so neither is stated without its condition.
* `PassAlwaysBalances` (`PassBalances`): a pass with good answers takes a pod above its ideal number by the spare
  only, and only from within the 10 % band, and leaves it below only with the largest grant or with no node
  left for it. The two lemmas (`GiveBack`, `Take`) compute with the cardinalities of the sets given back
  and taken.
* `SomeoneAlwaysAsks` (`SomeoneAsks`): the truncation in `IdealNum` always leaves
  `numPods * IdealNum > total` (`IdealsExceedTotal`). If every pod had reached its ideal on nodes
  of its own, the pods' nodes would number that product (`BijectionCounts`, an injection of the pods times
  `1 .. ideal` into the nodes), more than there are.

`LogRotationProofs` proves the safety properties of the logs for any number of lines, files and
rotations: `LogTypeCorrect`, `CopiedInOrder` (`AggregatedInOrder`), `NothingSkipped`
(`CopiedWithoutGaps`), `ProcessEndNeedsRotation` (`DiesOnlyIfMoved`), `NoRotationMissed`
(`MovedLogsFollowed`) and `RespinLosesOnce` (`TruncatedAtMostOnce`). None is inductive alone. The
invariant `LogInv` adds:

* `StampsRead`: the thread's map is never ahead of the state file, and what it has found changed is the
  present stamp. So a stamp that was not read is found by a later reading, which `MovedLogsFollowed` needs when a
  reading fails, and there is at most one file more than there are stamps, which bounds `files`.
* `MovedOrFirst`: the aggregation log at the path has the stamp in the map, or none was ever read; so the
  thread reopens a log that was not moved only if nothing was ever truncated. `TruncatedAtMostOnce` follows.
* `TailEnds`: a library that ended by itself had lost its log or met an error, and one that was told to stop
  while its goroutine still takes lines has met an error. `DiesOnlyIfMoved` follows.
* `LibraryHasFile` and `WatcherAhead`: the watcher is on the library's file or on a newer one and has
  ended when the library opens a file, so the file it opens is newer than the one it leaves, unless `truncated`.
* `CopiedWasRead` and `LastCopied`: what was copied was read, and the last line copied is the last one the
  library handed over; the next one is its successor, or the first of a newer file.

TLC checked `LogInv` before it was proved (without I/O errors also with three files of two lines). The attempt to prove
`AggregatedInOrder` without `truncated` is what showed the double copy described above, which
needs a third line and a third file.

Only model-checked: what needs fairness, which the prover does not handle (`Returns`,
`ShutdownCompletes`, `LostNodesDropped`, `CredentialsFollowed`, `EveryNodeWatched`, `SettlesDown`,
`OverlapEnds`). `SomeoneAsks` and `PassBalances` are the safety part of `EveryNodeWatched`.

## 5. Not modelled

* Two tails of one log: `stopTailing` forgets a tail before its goroutine has ended, so a node that
  comes back at once has two for a while, or for good if the old one hangs (`CancelledTailEnds`).
* The password retries within one configuration (one step, that of the last answer).
* A node whose class changes: `Class` is constant, so a node is never in two maps.
* Mountain and Paradise nodes in `PodFleet`; their arithmetic is that of `NodeBalance` without
  the spare and the worker.
* logrotate's own decisions (sizes, numbers of copies) and a failed write of its configuration.
* Environment variables and their clamping, file permissions, the DEBUG mode that simulates
  conmand, `killTails` (tests only), the scan of the process table by the zombie killer.
* The health handlers and the JSON helpers: they read sizes and change nothing.
* Malformed numbers in the target file become 0, as `UpdateTarget` says; nothing states what they
  should become.

## 6. Plan

1. Done: balance arithmetic and loop, the pod with its threads, the lease and its refinement by one
   pod and by a fleet, rotation and aggregation of the logs; theorems for every safety property that a run checks.
2. `PassBalances` for `ConsolePod`, with its Mountain and Paradise pools and the closed forms of
   `RebalanceLoopProofs`.
3. `OverlapNeedsSilence` for `ConsolePod`: of the records of the nodes it holds it loses one only to a lapse.
4. Two generations of a tail over one log.
