---------------------------- MODULE LogAggregation ----------------------------
(***************************************************************************)
(* logAggregation.go for the console log of one node: the goroutine        *)
(* watchConsoleLogFile, the tail library under it (vendored hpcloud/tail,  *)
(* with its polling watcher), and the aggregation log it writes to.        *)
(*                                                                         *)
(* A console log is moved away by a rotation and created again, so there   *)
(* are several files, numbered as they are created.  All lines are of one  *)
(* length: the size and the modification time of a file are its number of  *)
(* lines, and <<f, k>> is the k-th line of file f.                         *)
(***************************************************************************)
EXTENDS Integers, Sequences

CONSTANT
    IOErrors        \* may a file not be opened, read, sought in or looked up?

ASSUME IOErrorsAssumption == IOErrors \in BOOLEAN

VARIABLES
    logFile,    \* the file at /var/log/conman/console.<xname> (0: none)
    files,      \* the number of lines in each file
    \* The library.  tpc: "open", "read", "send" (a line is offered on the
    \* channel Lines), "eof", "wait" (in the select of waitForChanges), "dead" or,
    \* after an error, "failed" (Lines is closed); the file it reads, how many
    \* lines of it it has read, and whether it has yet to open its first file.
    tpc, tgen, tpos, tfirst,
    \* Its watcher: "none" (tail.changes is nil), "polling", or "ended" (the
    \* goroutine is gone, tail.changes is still set); the file it was started
    \* on, and the size and modification time it saw last (-1: never).  History:
    \* it has told the library that the log was truncated.
    changes, origFi, prevSize, prevModTime, truncated,
    dying,      \* the library was told to stop, or has met an error
    \* The goroutine: "idle" (not started), "select", "stop" (in tf.Stop),
    \* "exited", "panic" (a nil line, or the watcher, ended the process); and its
    \* context.
    kpc, cancelled,
    \* The aggregation log: the lines in the order they were written to it, the
    \* lines in the file at its path, those that a truncation has removed, and
    \* where the logger writes to: the file at the "path", a "moved" one, a moved
    \* one that it could not be taken from ("failed"), or "none" (it is nil).
    aggregated, aggFile, aggLost, conAggLogger

tailLib == <<tpc, tgen, tpos, tfirst>>
watcher == <<changes, origFi, prevSize, prevModTime, truncated>>
aggLog == <<aggregated, aggFile, aggLost, conAggLogger>>
logVars == <<logFile, files, tailLib, watcher, dying, kpc, cancelled, aggLog>>

LogInit ==
    /\ logFile = 0 /\ files = <<>>
    /\ tpc = "open" /\ tgen = 0 /\ tpos = 0 /\ tfirst = TRUE
    /\ changes = "none" /\ origFi = 0 /\ prevSize = 0 /\ prevModTime = -1
    /\ truncated = FALSE /\ dying = FALSE /\ kpc = "idle" /\ cancelled = FALSE
    /\ aggregated = <<>> /\ aggFile = {} /\ aggLost = {}
    \* The respinAggLog of main, which may fail.
    /\ conAggLogger \in {"path"} \cup {w \in {"none"} : IOErrors}

Size(file) == IF file = 0 THEN 0 ELSE files[file]

ProcessUp == kpc # "panic"
Running == kpc \notin {"idle", "panic"}
LinesClosed == tpc \in {"dead", "failed"}

-----------------------------------------------------------------------------
\* aggregateFile starts the goroutine, which starts the library.
AggregateFile ==
    /\ kpc = "idle"
    /\ kpc' = "select"
    /\ UNCHANGED <<logFile, files, tailLib, watcher, dying, cancelled, aggLog>>

\* stopTailing, for the node of this log: the context is cancelled.
StopTailing ==
    /\ Running /\ ~cancelled
    /\ cancelled' = TRUE
    /\ UNCHANGED <<logFile, files, tailLib, watcher, dying, kpc, aggLog>>

\* reopen: wait until there is a file, then read it from its end the first time
\* and from its start later on.  The wait ends when the library is stopped.
\* MustExist is false, so the first open is one of these too.
BadTailOpen ==
    /\ Running /\ tpc = "open"
    /\ tpc' = IF logFile = 0 THEN "dead" ELSE "read"
    /\ tgen' = logFile /\ tpos' = Size(logFile) /\ tfirst' = FALSE
    /\ UNCHANGED <<logFile, files, watcher, dying, kpc, cancelled, aggLog>>
BadTailReopen ==
    /\ Running /\ tpc = "open" /\ logFile # 0
    /\ tgen' = logFile
    /\ tpos' = IF tfirst THEN Size(logFile) ELSE tpos
    /\ tfirst' = FALSE
    /\ tpc' = IF dying /\ ~tfirst THEN "dead" ELSE "read"
    /\ UNCHANGED <<logFile, files, watcher, dying, kpc, cancelled, aggLog>>
TailOpen ==
    /\ Running /\ tpc = "open" /\ logFile # 0
    /\ tgen' = logFile
    /\ tpos' = IF tfirst THEN Size(logFile) ELSE 0
    /\ tfirst' = FALSE
    /\ tpc' = IF dying /\ ~tfirst THEN "dead" ELSE "read"
    /\ UNCHANGED <<logFile, files, watcher, dying, kpc, cancelled, aggLog>>

\* The loop of tailFileSync: the next line is offered, or this is the end.
TailRead ==
    /\ Running /\ tpc = "read"
    /\ IF tpos < Size(tgen)
       THEN tpc' = "send" /\ tpos' = tpos + 1
       ELSE tpc' = "eof" /\ UNCHANGED tpos
    /\ UNCHANGED <<logFile, files, tgen, tfirst, watcher, dying, kpc, cancelled,
                   aggLog>>

\* waitForChanges up to its select.  Without a watcher ChangeEvents starts one
\* on whatever file is at the path by now; if there is none the library gives up.
WaitForChanges ==
    /\ Running /\ tpc = "eof"
    /\ IF changes # "none"
       THEN tpc' = "wait" /\ UNCHANGED watcher
       ELSE IF logFile = 0
       THEN tpc' = "dead" /\ UNCHANGED watcher
       ELSE /\ tpc' = "wait"
            /\ changes' = "polling" /\ origFi' = logFile
            /\ prevSize' = tpos /\ prevModTime' = -1 /\ UNCHANGED truncated
    /\ UNCHANGED <<logFile, files, tgen, tpos, tfirst, dying, kpc, cancelled,
                   aggLog>>

\* sendOnlyIfEmpty: a notice is delivered only to a library that is waiting for
\* one right now; otherwise it is dropped.
Notify(next) == tpc' = IF tpc = "wait" THEN next ELSE tpc
Modified == Notify(IF dying THEN "dead" ELSE "read")

\* os.SameFile, against what is at the path.
BadMoved == logFile # origFi \/ Size(logFile) # prevSize
Moved == logFile # origFi

\* One turn of the watcher.  It ends with the first sign that the file was
\* moved, whether or not that notice gets through.
PollMoved ==
    /\ Moved
    /\ Notify("open")
    /\ changes' = IF tpc = "wait" THEN "none" ELSE "ended"
    /\ UNCHANGED <<prevSize, prevModTime, truncated>>
PollTruncated ==
    /\ ~Moved /\ prevSize > Size(origFi)
    /\ Notify("open")
    /\ truncated' = (truncated \/ tpc = "wait")
    /\ prevSize' = Size(origFi)
    /\ UNCHANGED <<changes, prevModTime>>
PollBigger ==
    /\ ~Moved /\ 0 < prevSize /\ prevSize < Size(origFi)
    /\ Modified
    /\ prevSize' = Size(origFi)
    /\ UNCHANGED <<changes, prevModTime, truncated>>
PollModTime ==
    /\ ~Moved /\ prevSize \in {0, Size(origFi)}
    /\ prevModTime # Size(origFi)
    /\ Modified
    /\ prevSize' = Size(origFi) /\ prevModTime' = Size(origFi)
    /\ UNCHANGED <<changes, truncated>>
PollDying ==
    /\ dying
    /\ changes' = "ended"
    /\ UNCHANGED <<tpc, prevSize, prevModTime, truncated>>
Poll ==
    /\ Running /\ changes = "polling"
    /\ PollDying \/ PollMoved \/ PollTruncated \/ PollBigger \/ PollModTime
    /\ UNCHANGED <<logFile, files, tgen, tpos, tfirst, origFi, dying, kpc,
                   cancelled, aggLog>>

\* Another error than a missing file.  The library stops itself wherever it opens
\* or reads the log, or looks at it for its watcher; the watcher ends the process.
TailFails ==
    /\ IOErrors /\ Running
    /\ tpc \in {"open", "read"} \/ (tpc = "eof" /\ changes = "none")
    /\ tpc' = "failed" /\ dying' = TRUE
    /\ UNCHANGED <<logFile, files, tgen, tpos, tfirst, watcher, kpc, cancelled,
                   aggLog>>
PollFails ==
    /\ IOErrors /\ Running /\ changes = "polling"
    /\ kpc' = "panic"
    /\ UNCHANGED <<logFile, files, tailLib, watcher, dying, cancelled, aggLog>>

\* The library notices that it is to stop, where it looks: not while it offers
\* a line.
TailStops ==
    /\ Running /\ dying
    /\ tpc = "wait" \/ (tpc = "open" /\ logFile = 0)
    /\ tpc' = "dead"
    /\ UNCHANGED <<logFile, files, tgen, tpos, tfirst, watcher, dying, kpc,
                   cancelled, aggLog>>

-----------------------------------------------------------------------------
\* writeToAggLog: without a logger the line is lost.
WriteToAggLog(line) ==
    /\ aggregated' = IF conAggLogger = "none" THEN aggregated ELSE Append(aggregated, line)
    /\ aggFile' = IF conAggLogger = "path" THEN aggFile \cup {line} ELSE aggFile
    /\ UNCHANGED <<aggLost, conAggLogger>>

\* The select of watchConsoleLogFile takes a line ...
TakeLine ==
    /\ kpc = "select" /\ tpc = "send"
    /\ WriteToAggLog(<<tgen, tpos>>)
    /\ tpc' = IF dying THEN "dead" ELSE "read"
    /\ UNCHANGED <<logFile, files, tgen, tpos, tfirst, watcher, dying, kpc,
                   cancelled>>

\* ... or nil, from a closed channel, and dereferences it ...
NilLine ==
    /\ kpc = "select" /\ LinesClosed
    /\ kpc' = "panic"
    /\ UNCHANGED <<logFile, files, tailLib, watcher, dying, cancelled, aggLog>>

\* ... or sees the cancelled context, tells the library to stop and waits.
ExitGracefully ==
    /\ kpc = "select" /\ cancelled
    /\ kpc' = "stop" /\ dying' = TRUE
    /\ UNCHANGED <<logFile, files, tailLib, watcher, cancelled, aggLog>>
Stopped ==
    /\ kpc = "stop" /\ LinesClosed
    /\ kpc' = "exited"
    /\ UNCHANGED <<logFile, files, tailLib, watcher, dying, cancelled, aggLog>>

LibraryNext ==
    TailOpen \/ TailRead \/ WaitForChanges \/ TailStops
GoroutineNext ==
    AggregateFile \/ StopTailing \/ TakeLine \/ NilLine \/ ExitGracefully \/ Stopped
=============================================================================
