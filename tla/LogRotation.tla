------------------------------ MODULE LogRotation ------------------------------
(***************************************************************************)
(* The log rotation thread of logRotation.go at work on one console log    *)
(* and on the aggregation log, next to the conmand that writes the console *)
(* log and the goroutine that copies it (LogAggregation).  logrotate and   *)
(* conmand are external: logrotate moves a file away (nocreate) and stamps *)
(* it in its state file, conmand goes on writing to the file it has open   *)
(* until it is told to open its logs again.                                *)
(***************************************************************************)
EXTENDS LogAggregation, FiniteSets

CONSTANTS
    ReadableStamps, \* the logs whose stamps one reading of the state file may get
    MaxLines, MaxWritten, MaxFiles, MaxStamp
                    \* bounds: lines of a file and of all, files, stamps of a log

Logs == {"con", "agg"}

\* A reading gets all stamps, none if the file cannot be opened, or those in the
\* lines that parseTimestamp understands.
ASSUME StampsAssumption == Logs \in ReadableStamps /\ ReadableStamps \subseteq SUBSET Logs
ASSUME LogBounds ==
    /\ MaxLines \in Nat /\ MaxWritten \in Nat
    /\ MaxFiles \in Nat /\ MaxStamp \in Nat \ {0}

VARIABLES
    conmandLog,     \* the file conmand writes the console log to (0: not running)
    stateFile,      \* logrotate's stamps of the two logs (0: not there)
    fileStamp,      \* the stamps the thread has seen (0: not in the map)
    rpc,            \* the thread: "sleep", "follow" (in its pause)
    changed         \* what readLogRotTimestamps returned: a set of logs

rotation == <<stateFile, fileStamp, rpc, changed>>
vars == <<logVars, conmandLog, rotation>>

\* The state file is left by an earlier run of the pod, or not there; doLogRotate
\* has read it into the map.
Init ==
    /\ LogInit
    /\ conmandLog = 0
    /\ \E stamp \in 0 .. 1 : stateFile = [l \in Logs |-> stamp]
    /\ \E read \in ReadableStamps :
        fileStamp = [l \in Logs |-> IF l \in read THEN stateFile[l] ELSE 0]
    /\ rpc = "sleep" /\ changed = {}

-----------------------------------------------------------------------------
\* The lines of all files.
Written ==
    {l \in (1 .. Len(files)) \X (1 .. MaxLines) : l[2] <= files[l[1]]}

\* conmand opens its log, which creates the file if it is not there.
ConmandOpens ==
    IF logFile = 0
    THEN /\ files' = Append(files, 0)
         /\ logFile' = Len(files') /\ conmandLog' = Len(files')
    ELSE conmandLog' = logFile /\ UNCHANGED <<logFile, files>>
ConmandStarts ==
    /\ ProcessUp /\ conmandLog = 0
    /\ ConmandOpens
    /\ UNCHANGED <<tailLib, watcher, dying, kpc, cancelled, aggLog, rotation>>
ConmandWrites ==
    /\ ProcessUp /\ conmandLog # 0 /\ files[conmandLog] < MaxLines
    /\ Cardinality(Written) < MaxWritten
    /\ files' = [files EXCEPT ![conmandLog] = @ + 1]
    /\ UNCHANGED <<logFile, tailLib, watcher, dying, kpc, cancelled, aggLog,
                   conmandLog, rotation>>
ConmandExits ==
    /\ ProcessUp /\ conmandLog # 0
    /\ conmandLog' = 0
    /\ UNCHANGED <<logVars, rotation>>

\* logrotate rotates the logs that have grown large enough, and stamps those
\* and the ones it sees for the first time.  An empty log is not rotated.
Logrotate(rotated) ==
    /\ "con" \in rotated => logFile # 0 /\ Size(logFile) > 0 /\ Len(files) < MaxFiles
    /\ "agg" \in rotated => conAggLogger = "path"
    /\ \A l \in rotated : stateFile[l] < MaxStamp
    /\ LET present == (IF logFile # 0 THEN {"con"} ELSE {})
                        \cup (IF conAggLogger = "path" THEN {"agg"} ELSE {})
       IN stateFile' = [l \in Logs |->
            IF l \in rotated \/ (l \in present /\ stateFile[l] = 0)
            THEN stateFile[l] + 1 ELSE stateFile[l]]
    /\ logFile' = IF "con" \in rotated THEN 0 ELSE logFile
    /\ IF "agg" \in rotated
       THEN aggFile' = {} /\ conAggLogger' = "moved"
       ELSE UNCHANGED <<aggFile, conAggLogger>>

\* readLogRotTimestamps of what logrotate leaves, as far as it can be read: a log
\* counts as changed when its stamp differs from the one in the map, and when it
\* was not in the map.
BadIsChanged(log) == stateFile'[log] # 0 /\ fileStamp[log] \notin {0, stateFile'[log]}
BadIsStamped(log) == stateFile'[log] # 0
IsChanged(log) == stateFile'[log] # 0 /\ stateFile'[log] # fileStamp[log]
ReadLogRotTimestamps(read) ==
    /\ changed' = {l \in read : IsChanged(l)}
    /\ fileStamp' = [l \in Logs |-> IF l \in read THEN stateFile'[l] ELSE fileStamp[l]]

\* rotateLogsOnce up to its pause, if a log has changed, or to its end.
RotateLogsOnce(read) ==
    /\ ProcessUp /\ rpc = "sleep"
    /\ \E rotated \in SUBSET Logs : Logrotate(rotated)
    /\ ReadLogRotTimestamps(read)
    /\ rpc' = IF changed' = {} THEN "sleep" ELSE "follow"
    /\ UNCHANGED <<files, tailLib, watcher, dying, kpc, cancelled, aggregated,
                   aggLost, conmandLog>>

\* respinAggLog opens the path with O_TRUNC: whatever is in a log that was not
\* moved is lost.  If that fails the logger stays as it is, and since the map has
\* the new stamp already nothing takes a logger from a moved file any more.
RespinAggLog ==
    \/ /\ aggLost' = aggLost \cup aggFile
       /\ aggFile' = {}
       /\ conAggLogger' = "path"
    \/ /\ IOErrors
       /\ conAggLogger' = IF conAggLogger = "moved" THEN "failed" ELSE conAggLogger
       /\ UNCHANGED <<aggFile, aggLost>>

\* The end of rotateLogsOnce, after its pause: signalConmanHUP if a console log
\* changed (with no conmand the request is lost; the next conmand opens the log
\* anyway), and respinAggLog if the aggregation log did.
KickConmand ==
    IF "con" \in changed /\ conmandLog # 0
    THEN ConmandOpens
    ELSE UNCHANGED <<logFile, files, conmandLog>>
FollowRotation ==
    /\ ProcessUp /\ rpc = "follow"
    /\ KickConmand
    /\ IF "agg" \in changed
       THEN RespinAggLog
       ELSE UNCHANGED <<aggFile, aggLost, conAggLogger>>
    /\ rpc' = "sleep" /\ changed' = {}
    /\ UNCHANGED <<tailLib, watcher, dying, kpc, cancelled, aggregated,
                   stateFile, fileStamp>>

RotationNext == (\E read \in ReadableStamps : RotateLogsOnce(read)) \/ FollowRotation
ConmandNext == ConmandStarts \/ ConmandWrites \/ ConmandExits
TailNext ==
    /\ GoroutineNext \/ LibraryNext \/ TailFails \/ Poll \/ PollFails
    /\ UNCHANGED <<conmandLog, rotation>>

Next == RotationNext \/ ConmandNext \/ TailNext

\* The goroutines of the process are scheduled.  Nothing is assumed about when
\* conmand writes, logrotate rotates or the tail is stopped; a select between a
\* line and a cancelled context takes the latter in the end.
Outside == <<conmandLog, rotation>>
Fairness ==
    /\ WF_vars(FollowRotation)
    /\ WF_vars(LibraryNext /\ UNCHANGED Outside)
    /\ WF_vars(Poll /\ UNCHANGED Outside)
    /\ WF_vars((TakeLine \/ NilLine \/ Stopped) /\ UNCHANGED Outside)
    /\ SF_vars(ExitGracefully /\ UNCHANGED Outside)

Spec == Init /\ [][Next]_vars /\ Fairness

-----------------------------------------------------------------------------
\* The variables have their types; what is read, watched and copied are lines of
\* files that were created, and conmand and the path are at the newest of them.
FilesOK ==
    /\ files \in Seq(0 .. MaxLines) /\ Len(files) <= MaxStamp + 1
    /\ logFile \in {0, Len(files)} /\ conmandLog \in {0, Len(files)}
    /\ tgen \in 0 .. Len(files) /\ tpos \in 0 .. Size(tgen)
    /\ origFi \in 0 .. Len(files)
    /\ prevSize \in 0 .. MaxLines /\ prevModTime \in -1 .. MaxLines
ThreadsOK ==
    /\ tpc \in {"open", "read", "send", "eof", "wait", "dead", "failed"}
    /\ changes \in {"none", "polling", "ended"}
    /\ kpc \in {"idle", "select", "stop", "exited", "panic"}
    /\ tfirst \in BOOLEAN /\ truncated \in BOOLEAN
    /\ dying \in BOOLEAN /\ cancelled \in BOOLEAN
CopiesOK ==
    /\ aggregated \in Seq(Written)
    /\ aggFile \subseteq Written /\ aggLost \subseteq Written
RotationOK ==
    /\ conAggLogger \in {"path", "moved", "failed", "none"}
    /\ stateFile \in [Logs -> 0 .. MaxStamp] /\ fileStamp \in [Logs -> 0 .. MaxStamp]
    /\ rpc \in {"sleep", "follow"} /\ changed \subseteq Logs
TypeOK == FilesOK /\ ThreadsOK /\ CopiesOK /\ RotationOK

Before(l, m) == l[1] < m[1] \/ (l[1] = m[1] /\ l[2] < m[2])

\* However the log is rotated under the library, and whatever notices it misses,
\* no line of a console is copied twice or out of order, unless the watcher has
\* taken the new log for a truncated one: then lines of one file may come again,
\* but still none of an older file.
AggregatedInOrder ==
    \A i, j \in 1 .. Len(aggregated) : i < j =>
        \/ Before(aggregated[i], aggregated[j])
        \/ truncated /\ aggregated[i][1] = aggregated[j][1]

\* Nothing is skipped between two lines that are copied one after the other: they
\* follow each other in their file, or the second one begins a file that is newer
\* (the same, once the watcher has taken it for a truncated one).  What a rotation
\* may cost is the end of the old file.
CopiedWithoutGaps ==
    \A i \in 1 .. Len(aggregated) - 1 :
        LET l == aggregated[i]
            m == aggregated[i + 1]
        IN  \/ m[1] = l[1] /\ m[2] = l[2] + 1
            \/ m[2] = 1 /\ (l[1] < m[1] \/ (truncated /\ l[1] = m[1]))

\* A tail ends the process, with the nil line of a closed channel or from its
\* watcher, only because its log was moved away under it (although "if file doesn't
\* exist keep trying", see TailFollowsRotation) or because of an I/O error: not
\* because conmand is slow to create a log, nor because the tail was cancelled.
DiesOnlyIfMoved ==
    kpc = "panic" =>
        tgen # logFile \/ (IOErrors /\ (tpc = "failed" \/ changes = "polling"))

\* What the aggregation log holds is truncated away at most once, in the first
\* check after the start; a later respin only follows a log that was moved.
TruncatedAtMostOnce == [][aggLost' # aggLost => aggLost = {}]_vars

\* No rotation is missed: "conman must be signaled to reconnect to moved log files",
\* "the aggregation log must be restarted for moved file".  As long as conmand
\* writes to a file that was moved, or the logger does and nobody has tried to open
\* the log again, the thread is about to do so or has yet to find a stamp that is
\* not the one in its map, however often it could not read the state file.
ToFollow(log) ==
    (rpc = "follow" /\ log \in changed) \/ stateFile[log] # fileStamp[log]
MovedLogsFollowed ==
    /\ conmandLog \notin {0, logFile} => ToFollow("con")
    /\ conAggLogger = "moved" => ToFollow("agg")

-----------------------------------------------------------------------------
\* What the comments say and the code does not do; each of these is refuted.

\* "Keep tailing the input file until the context.Done() is called, then exit".
\* Refuted: a library that is offering a line when the goroutine leaves its loop
\* never looks whether it is to stop, and tf.Stop waits for it for ever.
CancelledTailEnds == cancelled ~> kpc \in {"exited", "panic"}

\* "if the files is deleted or moved, reopen original file", "if file doesn't exist
\* keep trying": of a log that was replaced the library gets to the new file, unless
\* the tail is cancelled first.  Refuted: a notice that comes while the library is
\* not waiting is lost, and the watcher with it; a watcher that is started on the
\* new file sees no move; and a log that is missing at that moment ends it all.
TailFollowsRotation ==
    (kpc = "select" /\ tgen # 0 /\ logFile \notin {0, tgen})
        ~> (cancelled \/ logFile \in {0, tgen})
=============================================================================
