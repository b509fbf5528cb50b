--------------------------- MODULE LogRotationProofs ---------------------------
(***************************************************************************)
(* The safety of LogRotation for any number of lines and of rotations.     *)
(* The invariant adds to what TLC checks: that the map of the rotation     *)
(* thread is never ahead of the state file and what it has found is still  *)
(* to be followed (StampsRead), what the state of the logger says of the   *)
(* aggregation log (MovedOrFirst), that a library that reads has a file    *)
(* (LibraryHasFile), why a library and the process end (TailEnds),         *)
(* that the watcher is never behind the library unless it has mistaken a   *)
(* rotation for a truncation (WatcherAhead), that what was copied was read *)
(* (CopiedWasRead), and that the library has handed over nothing since the *)
(* last line that was copied (LastCopied).                                 *)
(***************************************************************************)
EXTENDS LogRotation, SequenceTheorems, TLAPS

StampsRead ==
    /\ \A l \in Logs : fileStamp[l] <= stateFile[l]
    /\ Len(files) <= stateFile["con"] + (IF logFile = 0 THEN 0 ELSE 1)
    /\ rpc = "sleep" => changed = {}
    /\ "agg" \in changed => fileStamp["agg"] = stateFile["agg"] /\ stateFile["agg"] # 0

LibraryHasFile ==
    /\ tfirst => aggregated = <<>> /\ (tpc = "open" \/ (LinesClosed /\ dying))
    /\ ~tfirst => tgen # 0
    /\ tpc = "send" => tpos # 0

TailEnds ==
    /\ tpc = "dead" /\ ~dying => tgen # logFile
    /\ tpc = "failed" => IOErrors
    /\ dying /\ kpc \in {"idle", "select"} => tpc = "failed"
    /\ DiesOnlyIfMoved

WatcherAhead ==
    ~truncated =>
        /\ changes = "polling" => tgen <= origFi
        /\ tpc = "open" => changes # "polling"
        /\ tpc = "open" /\ ~tfirst => logFile # tgen

CopiedWasRead ==
    \A i \in 1 .. Len(aggregated) :
        /\ aggregated[i][1] <= tgen
        /\ ~truncated /\ aggregated[i][1] = tgen =>
            aggregated[i][2] <= tpos /\ (tpc = "send" => aggregated[i][2] < tpos)

\* The last line copied is the last one the library has read and handed over, or
\* nothing was handed over of the file that it reads now.
HandedOver == IF tpc = "send" THEN tpos - 1 ELSE tpos
LastCopied ==
    aggregated # <<>> =>
        LET l == aggregated[Len(aggregated)]
        IN  \/ l[1] = tgen /\ l[2] = HandedOver
            \/ HandedOver = 0 /\ (l[1] < tgen \/ (truncated /\ l[1] = tgen))

\* A log in the way of respinAggLog was moved, or nothing was ever lost.
MovedOrFirst ==
    /\ conAggLogger # "path" => aggFile = {}
    /\ conAggLogger = "none" => aggregated = <<>>
    /\ conAggLogger = "path" /\ fileStamp["agg"] # 0 => fileStamp["agg"] = stateFile["agg"]
    /\ aggLost # {} => fileStamp["agg"] # 0
    /\ "agg" \in changed /\ conAggLogger = "path" => aggLost = {}

LogInv ==
    /\ TypeOK
    /\ StampsRead
    /\ MovedLogsFollowed
    /\ MovedOrFirst
    /\ LibraryHasFile
    /\ TailEnds
    /\ WatcherAhead
    /\ CopiedWasRead
    /\ LastCopied
    /\ AggregatedInOrder
    /\ CopiedWithoutGaps

\* The groups of variables that UNCHANGED names.
USE DEF LinesClosed, tailLib, watcher, aggLog, logVars, rotation, vars, Logs

-----------------------------------------------------------------------------
LEMMA LineCount ==
    ASSUME NEW s \in Seq(0 .. MaxLines), NEW f \in 1 .. Len(s)
    PROVE  s[f] \in 0 .. MaxLines
  BY ElementOfSeq

\* The size of a file, and of the one that is not there.
LEMMA SizeType ==
    ASSUME TypeOK, NEW f \in 0 .. Len(files)
    PROVE  Size(f) \in 0 .. MaxLines
  <1>1. CASE f = 0
    BY <1>1, LogBounds DEF Size
  <1>2. CASE f # 0
    <2>1. f \in 1 .. Len(files)
      BY <1>2 DEF TypeOK, FilesOK
    <2>2. files[f] \in 0 .. MaxLines
      BY <2>1, LineCount DEF TypeOK, FilesOK
    <2> QED
      BY <1>2, <2>2 DEF Size
  <1> QED
    BY <1>1, <1>2

\* Files are only ever created and appended to, so what was read and copied
\* stays a line of a file.
LEMMA FilesGrow ==
    ASSUME TypeOK, files' \in Seq(0 .. MaxLines), Len(files) <= Len(files'),
           \A f \in 1 .. Len(files) : files[f] <= files'[f]
    PROVE  /\ Written \subseteq Written'
           /\ aggregated \in Seq(Written')
           /\ Size(tgen) \in Nat
           /\ tpos \in 0 .. (IF tgen = 0 THEN 0 ELSE files'[tgen])
  <1>1. Len(files) \in Nat /\ Len(files') \in Nat
    BY DEF TypeOK, FilesOK
  <1>2. Written \subseteq Written'
    <2> SUFFICES ASSUME NEW l \in Written PROVE l \in Written'
      OBVIOUS
    <2>1. /\ l \in (1 .. Len(files)) \X (1 .. MaxLines)
          /\ l[1] \in 1 .. Len(files) /\ l[2] \in 1 .. MaxLines
          /\ l[2] <= files[l[1]]
      BY DEF Written
    <2>2. l \in (1 .. Len(files')) \X (1 .. MaxLines)
      BY <1>1, <2>1
    <2>3. files[l[1]] \in 0 .. MaxLines
      BY <2>1, LineCount DEF TypeOK, FilesOK
    <2>4. l[1] \in 1 .. Len(files')
      BY <1>1, <2>1
    <2>5. files'[l[1]] \in 0 .. MaxLines
      BY <2>4, LineCount
    <2>6. l[2] <= files'[l[1]]
      BY <2>1, <2>3, <2>5, LogBounds
    <2> QED
      BY <2>2, <2>6 DEF Written
  <1>3. aggregated \in Seq(Written')
    BY <1>2, SeqMonotonic DEF TypeOK, CopiesOK
  <1>4. tgen \in 0 .. Len(files) /\ Size(tgen) \in 0 .. MaxLines /\ tpos \in 0 .. Size(tgen)
    BY SizeType DEF TypeOK, FilesOK
  <1>5. tpos \in 0 .. (IF tgen = 0 THEN 0 ELSE files'[tgen])
    <2>1. CASE tgen = 0
      BY <1>4, <2>1 DEF Size
    <2>2. CASE tgen # 0
      <3>1. tgen \in 1 .. Len(files)
        BY <1>1, <1>4, <2>2
      <3>2. files[tgen] \in 0 .. MaxLines
        BY <3>1, LineCount DEF TypeOK, FilesOK
      <3>3. tgen \in 1 .. Len(files')
        BY <1>1, <3>1
      <3>4. files'[tgen] \in 0 .. MaxLines
        BY <3>3, LineCount
      <3> QED
        BY <1>4, <2>2, <3>1, <3>2, <3>4, LogBounds DEF Size
    <2> QED
      BY <2>1, <2>2
  <1> QED
    BY <1>2, <1>3, <1>4, <1>5

LEMMA InitInv == Init => LogInv
  <1> SUFFICES ASSUME Init PROVE LogInv
    OBVIOUS
  <1> USE DEF Init, LogInit
  <1>1. TypeOK
    <2>1. FilesOK
      BY LogBounds DEF FilesOK, Size
    <2>2. ThreadsOK
      BY DEF ThreadsOK
    <2>3. CopiesOK
      <3>1. aggregated \in Seq(Written)
        OBVIOUS
      <3> QED
        BY <3>1 DEF CopiesOK
    <2>4. RotationOK
      BY LogBounds DEF RotationOK
    <2> QED
      BY <2>1, <2>2, <2>4, <2>3 DEF TypeOK
  <1>2. PICK stamp \in 0 .. 1, read \in ReadableStamps :
            /\ stateFile = [l \in Logs |-> stamp]
            /\ fileStamp = [l \in Logs |-> IF l \in read THEN stateFile[l] ELSE 0]
    OBVIOUS
  <1>3. StampsRead /\ MovedOrFirst /\ LibraryHasFile
    BY <1>2, LogBounds DEF StampsRead, MovedOrFirst, LibraryHasFile
  <1>4. MovedLogsFollowed /\ TailEnds /\ WatcherAhead
    BY DEF MovedLogsFollowed, TailEnds, DiesOnlyIfMoved, WatcherAhead
  <1>5. CopiedWasRead /\ LastCopied /\ AggregatedInOrder /\ CopiedWithoutGaps
    BY DEF CopiedWasRead, LastCopied, AggregatedInOrder, CopiedWithoutGaps
  <1> QED
    BY <1>1, <1>3, <1>5, <1>4 DEF LogInv

-----------------------------------------------------------------------------
\* What the steps of the goroutine, the library and the watcher have in common:
\* conmand, logrotate and the rotation thread do nothing.
LEMMA TailFrame ==
    ASSUME LogInv, UNCHANGED <<logFile, files, conmandLog, rotation, aggLog>>
    PROVE  /\ Written' = Written
           /\ CopiesOK' /\ RotationOK'
           /\ StampsRead' /\ MovedLogsFollowed' /\ MovedOrFirst'
           /\ Size(logFile)' = Size(logFile)
  <1>1. Written' = Written
    BY DEF Written
  <1>2. CopiesOK'
    BY <1>1 DEF LogInv, TypeOK, CopiesOK
  <1>3. RotationOK'
    BY DEF LogInv, TypeOK, RotationOK
  <1>4. StampsRead'
    BY DEF LogInv, StampsRead
  <1>5. MovedLogsFollowed'
    BY DEF LogInv, MovedLogsFollowed, ToFollow
  <1>6. MovedOrFirst'
    BY DEF LogInv, MovedOrFirst
  <1> QED
    BY <1>1, <1>2, <1>3, <1>4, <1>5, <1>6 DEF Size

\* The order of what was copied is not disturbed by a step that copies nothing.
LEMMA OrderFrame ==
    ASSUME LogInv, UNCHANGED aggregated, truncated => truncated'
    PROVE  AggregatedInOrder' /\ CopiedWithoutGaps'
  BY DEF LogInv, AggregatedInOrder, Before, CopiedWithoutGaps

\* The steps that start, cancel and end the goroutine, or the process, touch neither
\* the library nor the watcher.
LEMMA GoroutineStep ==
    ASSUME LogInv,
           AggregateFile \/ StopTailing \/ NilLine \/ ExitGracefully \/ Stopped
             \/ PollFails,
           UNCHANGED <<conmandLog, rotation>>
    PROVE  LogInv'
  <1>1. /\ UNCHANGED <<logFile, files, tailLib, watcher, aggLog>>
        /\ dying => dying'
        /\ kpc' \in {"select", "stop", "exited", "panic", kpc}
        /\ dying' \in BOOLEAN /\ cancelled' \in BOOLEAN
    BY DEF AggregateFile, StopTailing, NilLine, ExitGracefully, Stopped, PollFails,
           LogInv, TypeOK, ThreadsOK
  <1>2. TypeOK'
    <2>1. FilesOK'
      BY <1>1 DEF LogInv, TypeOK, FilesOK, Size
    <2>2. ThreadsOK'
      BY <1>1 DEF LogInv, TypeOK, ThreadsOK
    <2> QED
      BY <1>1, <2>1, <2>2, TailFrame DEF TypeOK
  <1>3. LibraryHasFile'
    BY <1>1 DEF LogInv, LibraryHasFile
  <1>4. TailEnds'
    BY <1>1 DEF LogInv, TailEnds, DiesOnlyIfMoved, AggregateFile, StopTailing, NilLine,
                ExitGracefully, Stopped, PollFails, Running
  <1>5. WatcherAhead'
    BY <1>1 DEF LogInv, WatcherAhead
  <1>6. CopiedWasRead'
    BY <1>1 DEF LogInv, CopiedWasRead
  <1>7. LastCopied'
    BY <1>1 DEF LogInv, LastCopied, HandedOver
  <1> QED
    BY <1>1, <1>2, <1>3, <1>4, <1>5, <1>6, <1>7, TailFrame, OrderFrame DEF LogInv

\* A library that has not mistaken a rotation for a truncation opens its first
\* file, or one that is newer than the file it has read.
LEMMA TailOpenStep ==
    ASSUME LogInv, TailOpen, UNCHANGED <<conmandLog, rotation>>
    PROVE  LogInv'
  <1>1. /\ tpc = "open" /\ logFile # 0 /\ tgen' = logFile /\ tfirst' = FALSE
        /\ tpos' = IF tfirst THEN Size(logFile) ELSE 0
        /\ tpc' = IF dying /\ ~tfirst THEN "dead" ELSE "read"
        /\ UNCHANGED <<logFile, files, watcher, dying, kpc, cancelled, aggLog>>
        /\ kpc # "panic"
    BY DEF TailOpen, Running
  <1>2. /\ Len(files) \in Nat /\ logFile \in 1 .. Len(files)
        /\ tgen \in 0 .. Len(files) /\ logFile = Len(files)
    BY <1>1 DEF LogInv, TypeOK, FilesOK
  <1>3. Size(logFile) \in 0 .. MaxLines
    BY <1>2, SizeType DEF LogInv
  <1>4. TypeOK'
    <2>1. Size(tgen)' = Size(logFile)
      BY <1>1 DEF Size
    <2>2. tgen' \in 0 .. Len(files) /\ tpos' \in 0 .. Size(logFile)
      BY <1>1, <1>2, <1>3
    <2>3. FilesOK'
      BY <1>1, <2>1, <2>2 DEF LogInv, TypeOK, FilesOK
    <2>4. ThreadsOK'
      BY <1>1 DEF LogInv, TypeOK, ThreadsOK
    <2> QED
      BY <1>1, <2>3, <2>4, TailFrame DEF TypeOK
  <1>5. LibraryHasFile' /\ TailEnds'
    BY <1>1 DEF LogInv, LibraryHasFile, TailEnds, DiesOnlyIfMoved
  <1>6. WatcherAhead'
    BY <1>1 DEF LogInv, WatcherAhead
  <1>7. \A i \in 1 .. Len(aggregated) :
            aggregated[i][1] <= tgen' /\ (~truncated => aggregated[i][1] # tgen')
    <2> TAKE i \in 1 .. Len(aggregated)
    <2>1. ~tfirst /\ aggregated[i][1] <= tgen
      BY DEF LogInv, LibraryHasFile, CopiedWasRead
    <2>2. aggregated[i] \in Written
      BY ElementOfSeq DEF LogInv, TypeOK, CopiesOK
    <2>3. aggregated[i][1] \in Nat
      BY <1>2, <2>2 DEF Written
    <2>4. ~truncated => logFile # tgen
      BY <1>1, <2>1 DEF LogInv, WatcherAhead
    <2> QED
      BY <1>1, <1>2, <2>1, <2>3, <2>4
  <1>8. CopiedWasRead'
    BY <1>1, <1>7 DEF CopiedWasRead
  <1>9. LastCopied'
    <2> SUFFICES ASSUME aggregated # <<>>
                 PROVE  LET l == aggregated[Len(aggregated)]
                        IN  l[1] < tgen' \/ (truncated /\ l[1] = tgen')
      <3>1. aggregated # <<>> => HandedOver' = 0
        BY <1>1 DEF HandedOver, LogInv, LibraryHasFile
      <3> QED
        BY <1>1, <3>1 DEF LastCopied
    <2>1. /\ aggregated \in Seq(Written)
          /\ Len(aggregated) \in 1 .. Len(aggregated)
      BY DEF LogInv, TypeOK, CopiesOK
    <2>2. aggregated[Len(aggregated)] \in Written
      BY <2>1, ElementOfSeq
    <2>3. aggregated[Len(aggregated)][1] \in Nat
      BY <1>2, <2>2 DEF Written
    <2>4. /\ aggregated[Len(aggregated)][1] <= tgen'
          /\ ~truncated => aggregated[Len(aggregated)][1] # tgen'
      BY <1>7, <2>1
    <2> QED
      BY <1>1, <1>2, <2>3, <2>4
  <1> QED
    BY <1>1, <1>4, <1>5, <1>6, <1>8, <1>9, TailFrame, OrderFrame DEF LogInv

LEMMA TailReadStep ==
    ASSUME LogInv, TailRead, UNCHANGED <<conmandLog, rotation>>
    PROVE  LogInv'
  <1>1. /\ tpc = "read" /\ tpc' \in {"send", "eof"}
        /\ UNCHANGED <<logFile, files, tgen, tfirst, watcher, dying, kpc, cancelled,
                       aggLog>>
        /\ kpc # "panic"
    BY DEF TailRead, Running
  <1>2. /\ tgen \in 0 .. Len(files) /\ Size(tgen) \in 0 .. MaxLines
        /\ tpos \in 0 .. Size(tgen)
    BY SizeType DEF LogInv, TypeOK, FilesOK
  <1>3. \/ tpc' = "send" /\ tpos' = tpos + 1 /\ tpos' \in 1 .. Size(tgen)
        \/ tpc' = "eof" /\ tpos' = tpos
    BY <1>2, LogBounds DEF TailRead
  <1>4. TypeOK'
    <2>1. Size(tgen)' = Size(tgen)
      BY <1>1 DEF Size
    <2>2. tpos' \in 0 .. Size(tgen)
      BY <1>2, <1>3, LogBounds
    <2>3. FilesOK'
      BY <1>1, <2>1, <2>2 DEF LogInv, TypeOK, FilesOK
    <2>4. ThreadsOK'
      BY <1>1 DEF LogInv, TypeOK, ThreadsOK
    <2> QED
      BY <1>1, <2>3, <2>4, TailFrame DEF TypeOK
  <1>5. LibraryHasFile'
    <2>1. ~tfirst
      BY <1>1 DEF LogInv, LibraryHasFile
    <2> QED
      BY <1>1, <1>3, <2>1 DEF LogInv, LibraryHasFile
  <1>6. TailEnds' /\ WatcherAhead'
    BY <1>1 DEF LogInv, TailEnds, DiesOnlyIfMoved, WatcherAhead
  <1>7. CopiedWasRead'
    <2> SUFFICES ASSUME NEW i \in 1 .. Len(aggregated)
                 PROVE  /\ aggregated[i][1] <= tgen
                        /\ ~truncated /\ aggregated[i][1] = tgen =>
                            /\ aggregated[i][2] <= tpos'
                            /\ tpc' = "send" => aggregated[i][2] < tpos'
      BY <1>1 DEF CopiedWasRead
    <2>1. aggregated[i] \in Written
      BY ElementOfSeq DEF LogInv, TypeOK, CopiesOK
    <2>2. aggregated[i][2] \in Nat
      BY <2>1, LogBounds DEF Written
    <2>3. /\ aggregated[i][1] <= tgen
          /\ ~truncated /\ aggregated[i][1] = tgen => aggregated[i][2] <= tpos
      BY DEF LogInv, CopiedWasRead
    <2> QED
      BY <1>1, <1>2, <1>3, <2>2, <2>3, LogBounds
  <1>8. LastCopied'
    <2>1. HandedOver' = HandedOver
      BY <1>1, <1>2, <1>3, LogBounds DEF HandedOver
    <2> QED
      BY <1>1, <2>1 DEF LogInv, LastCopied
  <1> QED
    BY <1>1, <1>4, <1>5, <1>6, <1>7, <1>8, TailFrame, OrderFrame DEF LogInv

\* ChangeEvents starts the watcher on a file that is not older than the one that
\* was read; if the log is not there the library gives up.
LEMMA WaitForChangesStep ==
    ASSUME LogInv, WaitForChanges, UNCHANGED <<conmandLog, rotation>>
    PROVE  LogInv'
  <1>1. /\ tpc = "eof" /\ tpc' \in {"wait", "dead"}
        /\ UNCHANGED <<logFile, files, tgen, tpos, tfirst, truncated, dying, kpc,
                       cancelled, aggLog>>
        /\ kpc # "panic"
    BY DEF WaitForChanges, Running
  <1>2. /\ Len(files) \in Nat /\ logFile \in {0, Len(files)}
        /\ tgen \in 0 .. Len(files) /\ Size(tgen) \in 0 .. MaxLines
        /\ tpos \in 0 .. Size(tgen)
    BY SizeType DEF LogInv, TypeOK, FilesOK
  <1>3. \/ tpc' = "wait" /\ UNCHANGED watcher
        \/ tpc' = "dead" /\ logFile = 0 /\ UNCHANGED watcher
        \/ /\ tpc' = "wait" /\ logFile # 0 /\ changes' = "polling"
           /\ origFi' = logFile /\ prevSize' = tpos /\ prevModTime' = -1
    BY DEF WaitForChanges
  <1>4. TypeOK'
    <2>1. Size(tgen)' = Size(tgen)
      BY <1>1 DEF Size
    <2>2. /\ origFi' \in 0 .. Len(files)
          /\ prevSize' \in 0 .. MaxLines /\ prevModTime' \in -1 .. MaxLines
      BY <1>2, <1>3, LogBounds DEF LogInv, TypeOK, FilesOK
    <2>3. FilesOK'
      BY <1>1, <2>1, <2>2 DEF LogInv, TypeOK, FilesOK
    <2>4. ThreadsOK'
      BY <1>1, <1>3 DEF LogInv, TypeOK, ThreadsOK
    <2> QED
      BY <1>1, <2>3, <2>4, TailFrame DEF TypeOK
  <1>5. LibraryHasFile' /\ TailEnds'
    BY <1>1, <1>3 DEF LogInv, LibraryHasFile, TailEnds, DiesOnlyIfMoved
  <1>6. WatcherAhead'
    BY <1>1, <1>2, <1>3 DEF LogInv, WatcherAhead
  <1>7. CopiedWasRead'
    BY <1>1 DEF LogInv, CopiedWasRead
  <1>8. LastCopied'
    BY <1>1 DEF LogInv, LastCopied, HandedOver
  <1> QED
    BY <1>1, <1>4, <1>5, <1>6, <1>7, <1>8, TailFrame, OrderFrame DEF LogInv

LEMMA TailStopsStep ==
    ASSUME LogInv, TailStops, UNCHANGED <<conmandLog, rotation>>
    PROVE  LogInv'
  <1>1. /\ dying /\ tpc' = "dead"
        /\ tpc # "send"
        /\ UNCHANGED <<logFile, files, tgen, tpos, tfirst, watcher, dying, kpc,
                       cancelled, aggLog>>
        /\ kpc # "panic" /\ tpc # "failed"
    BY DEF TailStops, Running
  <1>2. TypeOK'
    <2>1. FilesOK'
      BY <1>1 DEF LogInv, TypeOK, FilesOK, Size
    <2>2. ThreadsOK'
      BY <1>1 DEF LogInv, TypeOK, ThreadsOK
    <2> QED
      BY <1>1, <2>1, <2>2, TailFrame DEF TypeOK
  <1>3. LibraryHasFile' /\ TailEnds'
    BY <1>1 DEF LogInv, LibraryHasFile, TailEnds, DiesOnlyIfMoved
  <1>4. WatcherAhead'
    BY <1>1 DEF LogInv, WatcherAhead
  <1>5. CopiedWasRead'
    BY <1>1 DEF LogInv, CopiedWasRead
  <1>6. LastCopied'
    BY <1>1 DEF LogInv, LastCopied, HandedOver
  <1> QED
    BY <1>1, <1>2, <1>3, <1>4, <1>5, <1>6, TailFrame, OrderFrame DEF LogInv

LEMMA TailFailsStep ==
    ASSUME LogInv, TailFails, UNCHANGED <<conmandLog, rotation>>
    PROVE  LogInv'
  <1>1. /\ IOErrors /\ kpc # "panic" /\ tpc # "send" /\ tpc' = "failed" /\ dying' = TRUE
        /\ UNCHANGED <<logFile, files, tgen, tpos, tfirst, watcher, kpc, cancelled,
                       aggLog>>
    BY DEF TailFails, Running
  <1>2. TypeOK'
    <2>1. FilesOK'
      BY <1>1 DEF LogInv, TypeOK, FilesOK, Size
    <2>2. ThreadsOK'
      BY <1>1 DEF LogInv, TypeOK, ThreadsOK
    <2> QED
      BY <1>1, <2>1, <2>2, TailFrame DEF TypeOK
  <1>3. LibraryHasFile' /\ TailEnds'
    BY <1>1 DEF LogInv, LibraryHasFile, TailEnds, DiesOnlyIfMoved
  <1>4. WatcherAhead'
    BY <1>1 DEF LogInv, WatcherAhead
  <1>5. CopiedWasRead'
    BY <1>1 DEF LogInv, CopiedWasRead
  <1>6. LastCopied'
    BY <1>1 DEF LogInv, LastCopied, HandedOver
  <1> QED
    BY <1>1, <1>2, <1>3, <1>4, <1>5, <1>6, TailFrame, OrderFrame DEF LogInv

\* A watcher that finds the log moved ends, and the library it tells has not read
\* the file at the path: that one is newer than the watcher's file, or not there.
LEMMA PollStep ==
    ASSUME LogInv, Poll, UNCHANGED <<conmandLog, rotation>>
    PROVE  LogInv'
  <1>1. /\ changes = "polling"
        /\ UNCHANGED <<logFile, files, tgen, tpos, tfirst, origFi, dying, kpc,
                       cancelled, aggLog>>
        /\ kpc # "panic"
    BY DEF Poll, Running
  <1>2. /\ \/ tpc' = tpc
           \/ tpc = "wait" /\ tpc' = "open" /\ truncated'
           \/ tpc = "wait" /\ tpc' = "open" /\ logFile # origFi /\ changes' = "none"
           \/ tpc = "wait" /\ tpc' = "read"
           \/ tpc = "wait" /\ tpc' = "dead" /\ dying
        /\ changes' \in {"none", "polling", "ended"}
        /\ truncated => truncated'
        /\ truncated' \in BOOLEAN
        /\ prevSize' \in {prevSize, Size(origFi)}
        /\ prevModTime' \in {prevModTime, Size(origFi)}
    <2>1. CASE PollDying
      BY <1>1, <2>1 DEF PollDying, LogInv, TypeOK, ThreadsOK
    <2>2. CASE PollMoved
      BY <1>1, <2>2 DEF PollMoved, Moved, Notify, LogInv, TypeOK, ThreadsOK
    <2>3. CASE PollTruncated
      BY <1>1, <2>3 DEF PollTruncated, Notify, LogInv, TypeOK, ThreadsOK
    <2>4. CASE PollBigger
      BY <1>1, <2>4 DEF PollBigger, Modified, Notify, LogInv, TypeOK, ThreadsOK
    <2>5. CASE PollModTime
      BY <1>1, <2>5 DEF PollModTime, Modified, Notify, LogInv, TypeOK, ThreadsOK
    <2> QED
      BY <2>1, <2>2, <2>3, <2>4, <2>5 DEF Poll
  <1>3. /\ Len(files) \in Nat /\ logFile \in {0, Len(files)}
        /\ tgen \in 0 .. Len(files) /\ origFi \in 0 .. Len(files)
        /\ Size(origFi) \in 0 .. MaxLines
    BY SizeType DEF LogInv, TypeOK, FilesOK
  <1>4. TypeOK'
    <2>1. Size(tgen)' = Size(tgen)
      BY <1>1 DEF Size
    <2>2. prevSize' \in 0 .. MaxLines /\ prevModTime' \in -1 .. MaxLines
      BY <1>2, <1>3, LogBounds DEF LogInv, TypeOK, FilesOK
    <2>3. FilesOK'
      BY <1>1, <2>1, <2>2 DEF LogInv, TypeOK, FilesOK
    <2>4. ThreadsOK'
      BY <1>1, <1>2 DEF LogInv, TypeOK, ThreadsOK
    <2> QED
      BY <1>1, <2>3, <2>4, TailFrame DEF TypeOK
  <1>5. LibraryHasFile' /\ TailEnds'
    BY <1>1, <1>2 DEF LogInv, LibraryHasFile, TailEnds, DiesOnlyIfMoved
  <1>6. WatcherAhead'
    <2> SUFFICES ASSUME ~truncated'
                 PROVE  /\ tgen <= origFi
                        /\ tpc' = "open" => changes' # "polling"
                        /\ tpc' = "open" /\ ~tfirst => logFile # tgen
      BY <1>1 DEF WatcherAhead
    <2>1. /\ tgen <= origFi /\ tpc # "open"
      BY <1>1, <1>2 DEF LogInv, WatcherAhead
    <2>2. tpc' = "open" => logFile # origFi /\ changes' = "none"
      BY <1>2, <2>1
    <2>3. ~tfirst => tgen # 0
      BY DEF LogInv, LibraryHasFile
    <2>4. logFile # origFi /\ tgen # 0 => logFile # tgen
      BY <1>3, <2>1
    <2> QED
      BY <2>1, <2>2, <2>3, <2>4
  <1>7. CopiedWasRead'
    BY <1>1, <1>2 DEF LogInv, CopiedWasRead
  <1>8. LastCopied'
    <2>1. HandedOver' = HandedOver
      BY <1>1, <1>2 DEF HandedOver
    <2> QED
      BY <1>1, <1>2, <2>1 DEF LogInv, LastCopied
  <1> QED
    BY <1>1, <1>2, <1>4, <1>5, <1>6, <1>7, <1>8, TailFrame, OrderFrame DEF LogInv

\* Without a logger nothing was copied, and nothing is.
LEMMA LineLostStep ==
    ASSUME LogInv, TakeLine, conAggLogger = "none", UNCHANGED <<conmandLog, rotation>>
    PROVE  LogInv'
  <1>1. /\ tpc = "send" /\ tpc' = (IF dying THEN "dead" ELSE "read") /\ kpc = "select"
        /\ aggregated = <<>> /\ UNCHANGED aggLog
        /\ UNCHANGED <<logFile, files, tgen, tpos, tfirst, watcher, dying, kpc,
                       cancelled>>
    BY DEF TakeLine, WriteToAggLog, LogInv, MovedOrFirst
  <1>2. TypeOK'
    <2>1. FilesOK'
      BY <1>1 DEF LogInv, TypeOK, FilesOK, Size
    <2>2. ThreadsOK'
      BY <1>1 DEF LogInv, TypeOK, ThreadsOK
    <2> QED
      BY <1>1, <2>1, <2>2, TailFrame DEF TypeOK
  <1>3. LibraryHasFile' /\ TailEnds' /\ WatcherAhead'
    BY <1>1 DEF LogInv, LibraryHasFile, TailEnds, DiesOnlyIfMoved, WatcherAhead
  <1>4. CopiedWasRead' /\ LastCopied'
    BY <1>1 DEF CopiedWasRead, LastCopied
  <1> QED
    BY <1>1, <1>2, <1>3, <1>4, TailFrame, OrderFrame DEF LogInv

\* The line that is copied comes after all that were copied before.
LEMMA LineCopiedStep ==
    ASSUME LogInv, TakeLine, conAggLogger # "none", UNCHANGED <<conmandLog, rotation>>
    PROVE  LogInv'
  <1> DEFINE line == <<tgen, tpos>>
  <1>1. /\ tpc = "send" /\ tpc' = (IF dying THEN "dead" ELSE "read") /\ kpc = "select"
        /\ aggregated' = Append(aggregated, line)
        /\ aggFile' = IF conAggLogger = "path" THEN aggFile \cup {line} ELSE aggFile
        /\ UNCHANGED <<aggLost, conAggLogger>>
        /\ UNCHANGED <<logFile, files, tgen, tpos, tfirst, watcher, dying, kpc,
                       cancelled>>
    BY DEF TakeLine, WriteToAggLog
  <1>2. ~tfirst /\ tgen # 0 /\ tpos # 0
    BY <1>1 DEF LogInv, LibraryHasFile
  <1>3. /\ Len(files) \in Nat /\ tgen \in 1 .. Len(files)
        /\ Size(tgen) \in 0 .. MaxLines /\ tpos \in 1 .. Size(tgen)
    BY <1>2, SizeType, LogBounds DEF LogInv, TypeOK, FilesOK
  <1>4. line \in Written
    <2>1. tpos \in 1 .. MaxLines /\ tpos <= files[tgen]
      BY <1>2, <1>3, LogBounds DEF Size
    <2> QED
      BY <1>3, <2>1 DEF Written
  <1>5. aggregated \in Seq(Written)
    BY DEF LogInv, TypeOK, CopiesOK
  <1> HIDE DEF line
  <1>6. /\ aggregated' \in Seq(Written)
        /\ Len(aggregated) \in Nat /\ Len(aggregated') = Len(aggregated) + 1
        /\ \A i \in 1 .. Len(aggregated) : aggregated'[i] = aggregated[i]
        /\ aggregated'[Len(aggregated')] = line
    BY <1>1, <1>4, <1>5, AppendProperties
  <1>7. TypeOK'
    <2>1. FilesOK'
      BY <1>1 DEF LogInv, TypeOK, FilesOK, Size
    <2>2. ThreadsOK'
      BY <1>1 DEF LogInv, TypeOK, ThreadsOK
    <2>3. Written' = Written
      BY <1>1 DEF Written
    <2>4. CopiesOK'
      BY <1>1, <1>4, <1>6, <2>3 DEF LogInv, TypeOK, CopiesOK
    <2>5. RotationOK'
      BY <1>1 DEF LogInv, TypeOK, RotationOK
    <2> QED
      BY <2>1, <2>2, <2>4, <2>5 DEF TypeOK
  <1>8. StampsRead' /\ MovedLogsFollowed' /\ MovedOrFirst'
    BY <1>1 DEF LogInv, StampsRead, MovedLogsFollowed, ToFollow, MovedOrFirst
  <1>9. LibraryHasFile' /\ TailEnds' /\ WatcherAhead'
    BY <1>1, <1>2 DEF LogInv, LibraryHasFile, TailEnds, DiesOnlyIfMoved, WatcherAhead
  <1>10. \A i \in 1 .. Len(aggregated) :
            /\ aggregated[i][1] \in Nat /\ aggregated[i][2] \in Nat
            /\ aggregated[i][1] <= tgen
            /\ ~truncated /\ aggregated[i][1] = tgen => aggregated[i][2] < tpos
    <2> TAKE i \in 1 .. Len(aggregated)
    <2>1. aggregated[i] \in Written
      BY <1>5, ElementOfSeq
    <2>2. aggregated[i][1] \in Nat /\ aggregated[i][2] \in Nat
      BY <1>3, <2>1, LogBounds DEF Written
    <2> QED
      BY <1>1, <2>2 DEF LogInv, CopiedWasRead
  <1>11. CopiedWasRead'
    <2> SUFFICES ASSUME NEW i \in 1 .. Len(aggregated')
                 PROVE  /\ aggregated'[i][1] <= tgen
                        /\ ~truncated /\ aggregated'[i][1] = tgen => aggregated'[i][2] <= tpos
      BY <1>1 DEF CopiedWasRead
    <2>1. CASE i = Len(aggregated')
      BY <1>3, <1>6, <2>1 DEF line
    <2>2. CASE i # Len(aggregated')
      <3>1. i \in 1 .. Len(aggregated) /\ aggregated'[i] = aggregated[i]
        BY <1>6, <2>2
      <3> QED
        BY <1>3, <1>10, <3>1
    <2> QED
      BY <2>1, <2>2
  <1>12. AggregatedInOrder'
    <2> SUFFICES ASSUME NEW i \in 1 .. Len(aggregated'), NEW j \in 1 .. Len(aggregated'),
                        i < j
                 PROVE  \/ Before(aggregated'[i], aggregated'[j])
                        \/ truncated /\ aggregated'[i][1] = aggregated'[j][1]
      BY <1>1 DEF AggregatedInOrder, Before
    <2>1. i \in 1 .. Len(aggregated) /\ aggregated'[i] = aggregated[i]
      BY <1>6
    <2>2. CASE j = Len(aggregated')
      <3>1. aggregated'[j][1] = tgen /\ aggregated'[j][2] = tpos
        BY <1>6, <2>2 DEF line
      <3> QED
        BY <1>3, <1>10, <2>1, <3>1 DEF Before, LogInv, TypeOK, ThreadsOK
    <2>3. CASE j # Len(aggregated')
      <3>1. j \in 1 .. Len(aggregated) /\ aggregated'[j] = aggregated[j]
        BY <1>6, <2>3
      <3> QED
        BY <2>1, <3>1 DEF LogInv, AggregatedInOrder, Before
    <2> QED
      BY <2>2, <2>3
  <1>13. LastCopied'
    <2>1. aggregated'[Len(aggregated')][1] = tgen /\ aggregated'[Len(aggregated')][2] = tpos
      BY <1>6 DEF line
    <2>2. HandedOver' = tpos
      BY <1>1 DEF HandedOver
    <2> QED
      BY <1>1, <2>1, <2>2 DEF LastCopied
  <1>14. CopiedWithoutGaps'
    <2> SUFFICES ASSUME NEW i \in 1 .. Len(aggregated') - 1
                 PROVE  LET l == aggregated'[i]
                            m == aggregated'[i + 1]
                        IN  \/ m[1] = l[1] /\ m[2] = l[2] + 1
                            \/ m[2] = 1 /\ (l[1] < m[1] \/ (truncated /\ l[1] = m[1]))
      BY <1>1 DEF CopiedWithoutGaps
    <2>1. i \in 1 .. Len(aggregated) /\ aggregated'[i] = aggregated[i]
      BY <1>6
    <2>2. CASE i = Len(aggregated)
      <3>1. aggregated'[i + 1][1] = tgen /\ aggregated'[i + 1][2] = tpos
        BY <1>6, <2>2 DEF line
      <3>2. HandedOver = tpos - 1
        BY <1>1 DEF HandedOver
      <3>3. aggregated # <<>>
        BY <2>1
      <3> QED
        BY <1>3, <1>10, <2>1, <2>2, <3>1, <3>2, <3>3, LogBounds DEF LogInv, LastCopied
    <2>3. CASE i # Len(aggregated)
      <3>1. /\ i \in 1 .. Len(aggregated) - 1
            /\ i + 1 \in 1 .. Len(aggregated) /\ aggregated'[i + 1] = aggregated[i + 1]
        BY <1>6, <2>1, <2>3
      <3> QED
        BY <2>1, <3>1 DEF LogInv, CopiedWithoutGaps
    <2> QED
      BY <2>2, <2>3
  <1> QED
    BY <1>7, <1>8, <1>9, <1>11, <1>12, <1>13, <1>14 DEF LogInv

-----------------------------------------------------------------------------
\* The part of the invariant that is about the library, its watcher and what was
\* copied.
TailSafe ==
    /\ aggregated \in Seq(Written)
    /\ tgen \in 0 .. Len(files) /\ tpos \in 0 .. Size(tgen)
    /\ origFi \in 0 .. Len(files)
    /\ prevSize \in 0 .. MaxLines /\ prevModTime \in -1 .. MaxLines
    /\ ThreadsOK /\ LibraryHasFile /\ TailEnds /\ WatcherAhead
    /\ CopiedWasRead /\ LastCopied /\ AggregatedInOrder /\ CopiedWithoutGaps

\* What the steps of conmand and of the rotation thread have in common: they
\* only add files and lines, and the file at the path stays, is moved away, or
\* is a new one.
LEMMA RotationFrame ==
    ASSUME LogInv, ProcessUp,
           UNCHANGED <<tailLib, watcher, dying, kpc, cancelled, aggregated>>,
           files' \in Seq(0 .. MaxLines), Len(files) <= Len(files'),
           \A f \in 1 .. Len(files) : files[f] <= files'[f],
           logFile' \in {0, logFile, Len(files) + 1}
    PROVE  Written \subseteq Written' /\ TailSafe'
  <1>1. Len(files) \in Nat /\ Len(files') \in Nat /\ tgen \in 0 .. Len(files)
    BY DEF LogInv, TypeOK, FilesOK
  <1>2. /\ Written \subseteq Written' /\ aggregated' \in Seq(Written')
        /\ tpos' \in 0 .. Size(tgen)'
    BY FilesGrow DEF LogInv, Size
  <1>3. /\ tgen' \in 0 .. Len(files') /\ origFi' \in 0 .. Len(files')
        /\ prevSize' \in 0 .. MaxLines /\ prevModTime' \in -1 .. MaxLines
    BY <1>1 DEF LogInv, TypeOK, FilesOK
  <1>4. ThreadsOK'
    BY DEF LogInv, TypeOK, ThreadsOK
  <1>5. LibraryHasFile'
    BY DEF LogInv, LibraryHasFile
  <1>6. tgen # 0 /\ logFile # tgen => logFile' # tgen
    BY <1>1
  <1>7. TailEnds'
    BY <1>6 DEF LogInv, LibraryHasFile, TailEnds, DiesOnlyIfMoved, ProcessUp
  <1>8. WatcherAhead'
    BY <1>6 DEF LogInv, LibraryHasFile, WatcherAhead
  <1>9. CopiedWasRead' /\ LastCopied' /\ AggregatedInOrder' /\ CopiedWithoutGaps'
    BY OrderFrame DEF LogInv, CopiedWasRead, LastCopied, HandedOver
  <1> QED
    BY <1>2, <1>3, <1>4, <1>5, <1>7, <1>8, <1>9 DEF TailSafe

\* conmand is at the path once it has opened its log, and a new file is backed
\* by one more stamp than there were files before.
LEMMA ConmandOpensLog ==
    ASSUME LogInv, ConmandOpens
    PROVE  /\ files' \in Seq(0 .. MaxLines) /\ Len(files) <= Len(files')
           /\ \A f \in 1 .. Len(files) : files[f] <= files'[f]
           /\ logFile' \in {logFile, Len(files) + 1} /\ logFile' # 0
           /\ logFile' = Len(files') /\ conmandLog' = logFile'
           /\ Len(files') <= stateFile["con"] + 1
  <1>1. /\ files \in Seq(0 .. MaxLines) /\ Len(files) \in Nat
        /\ logFile \in {0, Len(files)} /\ stateFile["con"] \in Nat
    BY LogBounds DEF LogInv, TypeOK, FilesOK, RotationOK
  <1>2. \A f \in 1 .. Len(files) : files[f] \in 0 .. MaxLines
    BY <1>1, LineCount
  <1>3. CASE logFile = 0
    <2>1. 0 \in 0 .. MaxLines
      BY LogBounds
    <2>2. /\ files' = Append(files, 0)
          /\ logFile' = Len(files') /\ conmandLog' = Len(files')
      BY <1>3 DEF ConmandOpens
    <2>3. /\ files' \in Seq(0 .. MaxLines) /\ Len(files') = Len(files) + 1
          /\ \A f \in 1 .. Len(files) : files'[f] = files[f]
      BY <1>1, <2>1, <2>2, AppendProperties
    <2>4. Len(files) <= stateFile["con"]
      BY <1>1, <1>3 DEF LogInv, StampsRead
    <2>5. \A f \in 1 .. Len(files) : files[f] <= files'[f]
      BY <1>2, <2>3, LogBounds
    <2> QED
      BY <1>1, <2>2, <2>3, <2>4, <2>5
  <1>4. CASE logFile # 0
    <2>1. conmandLog' = logFile /\ UNCHANGED <<logFile, files>>
      BY <1>4 DEF ConmandOpens
    <2>2. Len(files) <= stateFile["con"] + 1
      BY <1>4 DEF LogInv, StampsRead
    <2>3. \A f \in 1 .. Len(files) : files[f] <= files'[f]
      BY <1>2, <2>1, LogBounds
    <2> QED
      BY <1>1, <1>4, <2>1, <2>2, <2>3
  <1> QED
    BY <1>3, <1>4

LEMMA ConmandStartsStep ==
    ASSUME LogInv, ConmandStarts
    PROVE  LogInv'
  <1>1. /\ ConmandOpens /\ ProcessUp
        /\ UNCHANGED <<tailLib, watcher, dying, kpc, cancelled, aggLog, rotation>>
    BY DEF ConmandStarts
  <1>2. /\ files' \in Seq(0 .. MaxLines) /\ Len(files) <= Len(files')
        /\ \A f \in 1 .. Len(files) : files[f] <= files'[f]
        /\ logFile' \in {logFile, Len(files) + 1} /\ logFile' # 0
        /\ logFile' = Len(files') /\ conmandLog' = logFile'
        /\ Len(files') <= stateFile["con"] + 1
    BY <1>1, ConmandOpensLog
  <1>3. Written \subseteq Written' /\ TailSafe'
    BY <1>1, <1>2, RotationFrame
  <1>4. TypeOK'
    <2>1. stateFile["con"] \in 0 .. MaxStamp /\ Len(files') \in Nat
      BY <1>2 DEF LogInv, TypeOK, RotationOK
    <2>2. Len(files') <= MaxStamp + 1
      BY <1>2, <2>1, LogBounds
    <2>3. FilesOK'
      BY <1>2, <1>3, <2>2 DEF FilesOK, TailSafe
    <2>4. CopiesOK'
      BY <1>1, <1>3 DEF LogInv, TypeOK, CopiesOK, TailSafe
    <2>5. RotationOK'
      BY <1>1 DEF LogInv, TypeOK, RotationOK
    <2> QED
      BY <1>3, <2>3, <2>4, <2>5 DEF TypeOK, TailSafe
  <1>5. StampsRead'
    BY <1>1, <1>2 DEF LogInv, StampsRead
  <1>6. MovedLogsFollowed'
    BY <1>1, <1>2 DEF LogInv, MovedLogsFollowed, ToFollow
  <1>7. MovedOrFirst'
    BY <1>1 DEF LogInv, MovedOrFirst
  <1> QED
    BY <1>3, <1>4, <1>5, <1>6, <1>7 DEF LogInv, TailSafe

LEMMA ConmandWritesStep ==
    ASSUME LogInv, ConmandWrites
    PROVE  LogInv'
  <1>1. /\ ProcessUp /\ conmandLog # 0 /\ files[conmandLog] < MaxLines
        /\ files' = [files EXCEPT ![conmandLog] = @ + 1]
        /\ UNCHANGED <<logFile, tailLib, watcher, dying, kpc, cancelled, aggLog,
                       conmandLog, rotation>>
    BY DEF ConmandWrites
  <1>2. /\ files \in Seq(0 .. MaxLines) /\ Len(files) \in Nat
        /\ conmandLog \in 1 .. Len(files)
    BY <1>1 DEF LogInv, TypeOK, FilesOK
  <1>3. \A f \in 1 .. Len(files) : files[f] \in 0 .. MaxLines
    BY <1>2, LineCount
  <1>4. files[conmandLog] + 1 \in 0 .. MaxLines
    BY <1>1, <1>2, <1>3, LogBounds
  <1>5. /\ files' \in Seq(0 .. MaxLines) /\ Len(files') = Len(files)
        /\ \A f \in 1 .. Len(files) : files'[f] = IF f = conmandLog THEN files[f] + 1
                                                  ELSE files[f]
    BY <1>1, <1>2, <1>4, ExceptSeq
  <1>6. /\ Len(files) <= Len(files')
        /\ \A f \in 1 .. Len(files) : files[f] <= files'[f]
    BY <1>2, <1>3, <1>5, LogBounds
  <1>7. Written \subseteq Written' /\ TailSafe'
    BY <1>1, <1>5, <1>6, RotationFrame
  <1>8. TypeOK'
    <2>1. FilesOK'
      BY <1>1, <1>5, <1>7 DEF LogInv, TypeOK, FilesOK, TailSafe
    <2>2. CopiesOK'
      BY <1>1, <1>7 DEF LogInv, TypeOK, CopiesOK, TailSafe
    <2>3. RotationOK'
      BY <1>1 DEF LogInv, TypeOK, RotationOK
    <2> QED
      BY <1>7, <2>1, <2>2, <2>3 DEF TypeOK, TailSafe
  <1>9. StampsRead'
    BY <1>1, <1>5 DEF LogInv, StampsRead
  <1>10. MovedLogsFollowed' /\ MovedOrFirst'
    BY <1>1 DEF LogInv, MovedLogsFollowed, ToFollow, MovedOrFirst
  <1> QED
    BY <1>7, <1>8, <1>9, <1>10 DEF LogInv, TailSafe

LEMMA ConmandExitsStep ==
    ASSUME LogInv, ConmandExits
    PROVE  LogInv'
  <1>1. conmandLog' = 0 /\ UNCHANGED <<logVars, rotation>>
    BY DEF ConmandExits
  <1>2. TypeOK'
    <2>1. FilesOK'
      BY <1>1 DEF LogInv, TypeOK, FilesOK, Size
    <2>2. ThreadsOK'
      BY <1>1 DEF LogInv, TypeOK, ThreadsOK
    <2>3. CopiesOK'
      BY <1>1 DEF LogInv, TypeOK, CopiesOK, Written
    <2>4. RotationOK'
      BY <1>1 DEF LogInv, TypeOK, RotationOK
    <2> QED
      BY <2>1, <2>2, <2>3, <2>4 DEF TypeOK
  <1>3. StampsRead' /\ MovedLogsFollowed' /\ MovedOrFirst'
    BY <1>1 DEF LogInv, StampsRead, MovedLogsFollowed, ToFollow, MovedOrFirst
  <1>4. LibraryHasFile' /\ TailEnds' /\ WatcherAhead'
    BY <1>1 DEF LogInv, LibraryHasFile, TailEnds, DiesOnlyIfMoved, WatcherAhead
  <1>5. CopiedWasRead' /\ LastCopied'
    BY <1>1 DEF LogInv, CopiedWasRead, LastCopied, HandedOver
  <1> QED
    BY <1>1, <1>2, <1>3, <1>4, <1>5, OrderFrame DEF LogInv

\* A rotation is stamped with a new time: the thread finds it in the same step, or,
\* if it cannot read the stamp, in a later one.
LEMMA RotateLogsOnceStep ==
    ASSUME LogInv, NEW read \in ReadableStamps, RotateLogsOnce(read)
    PROVE  LogInv'
  <1>1. PICK rotated \in SUBSET Logs : Logrotate(rotated)
    BY DEF RotateLogsOnce
  <1>2. /\ ProcessUp /\ rpc = "sleep"
        /\ fileStamp' = [l \in Logs |-> IF l \in read THEN stateFile'[l] ELSE fileStamp[l]]
        /\ changed' = {l \in read : stateFile'[l] # 0 /\ stateFile'[l] # fileStamp[l]}
        /\ rpc' = IF changed' = {} THEN "sleep" ELSE "follow"
        /\ UNCHANGED <<files, tailLib, watcher, dying, kpc, cancelled, aggregated,
                       aggLost, conmandLog>>
        /\ read \subseteq Logs
    BY StampsAssumption DEF RotateLogsOnce, ReadLogRotTimestamps, IsChanged
  <1>3. /\ logFile' = IF "con" \in rotated THEN 0 ELSE logFile
        /\ "con" \in rotated => logFile # 0
        /\ "agg" \in rotated => aggFile' = {} /\ conAggLogger' = "moved" /\ conAggLogger = "path"
        /\ "agg" \notin rotated => UNCHANGED <<aggFile, conAggLogger>>
    BY <1>1 DEF Logrotate
  <1>4. /\ stateFile \in [Logs -> 0 .. MaxStamp] /\ fileStamp \in [Logs -> 0 .. MaxStamp]
        /\ \A l \in Logs : fileStamp[l] <= stateFile[l]
        /\ Len(files) \in Nat /\ files \in Seq(0 .. MaxLines)
        /\ conAggLogger \in {"path", "moved", "failed", "none"}
        /\ changed = {}
    BY <1>2 DEF LogInv, TypeOK, FilesOK, RotationOK, StampsRead
  <1>5. /\ stateFile' \in [Logs -> 0 .. MaxStamp]
        /\ \A l \in Logs :
            /\ l \in rotated => stateFile'[l] = stateFile[l] + 1
            /\ l \notin rotated =>
                stateFile'[l] = stateFile[l] \/ (stateFile[l] = 0 /\ stateFile'[l] = 1)
    <2> DEFINE present == (IF logFile # 0 THEN {"con"} ELSE {})
                            \cup (IF conAggLogger = "path" THEN {"agg"} ELSE {})
               stamp(l) == IF l \in rotated \/ (l \in present /\ stateFile[l] = 0)
                           THEN stateFile[l] + 1 ELSE stateFile[l]
    <2>1. /\ \A l \in rotated : stateFile[l] < MaxStamp
          /\ stateFile' = [l \in Logs |-> stamp(l)]
      BY <1>1 DEF Logrotate
    <2> HIDE DEF present
    <2>2. \A l \in Logs : stamp(l) \in 0 .. MaxStamp
      BY <1>4, <2>1, LogBounds
    <2> QED
      BY <1>4, <2>1, <2>2
  <1>6. \A l \in Logs :
            /\ stateFile[l] \in Nat /\ stateFile'[l] \in Nat /\ fileStamp[l] \in Nat
            /\ stateFile[l] <= stateFile'[l]
            /\ fileStamp'[l] = IF l \in read THEN stateFile'[l] ELSE fileStamp[l]
            /\ fileStamp'[l] <= stateFile'[l]
    BY <1>2, <1>4, <1>5, LogBounds
  <1>7. \A f \in 1 .. Len(files) : files[f] <= files'[f]
    <2> TAKE f \in 1 .. Len(files)
    <2>1. files[f] \in 0 .. MaxLines
      BY <1>4, LineCount
    <2> QED
      BY <1>2, <2>1, LogBounds
  <1>8. Written \subseteq Written' /\ TailSafe'
    BY <1>2, <1>3, <1>4, <1>7, RotationFrame
  <1>9. TypeOK'
    <2>1. FilesOK'
      BY <1>2, <1>3, <1>8 DEF LogInv, TypeOK, FilesOK, TailSafe
    <2>2. CopiesOK'
      BY <1>2, <1>3, <1>8 DEF LogInv, TypeOK, CopiesOK, TailSafe
    <2>3. fileStamp' \in [Logs -> 0 .. MaxStamp]
      BY <1>2, <1>4, <1>5
    <2>4. RotationOK'
      BY <1>2, <1>3, <1>4, <1>5, <2>3 DEF RotationOK
    <2> QED
      BY <1>8, <2>1, <2>2, <2>4 DEF TypeOK, TailSafe
  <1>10. StampsRead'
    <2>1. Len(files') <= stateFile'["con"] + (IF logFile' = 0 THEN 0 ELSE 1)
      <3>1. Len(files) <= stateFile["con"] + (IF logFile = 0 THEN 0 ELSE 1)
        BY DEF LogInv, StampsRead
      <3>2. stateFile["con"] \in Nat /\ stateFile'["con"] \in Nat
        BY <1>6
      <3> QED
        BY <1>2, <1>3, <1>4, <1>5, <3>1, <3>2
    <2>2. rpc' = "sleep" => changed' = {}
      BY <1>2
    <2>3. "agg" \in changed' =>
            fileStamp'["agg"] = stateFile'["agg"] /\ stateFile'["agg"] # 0
      BY <1>2, <1>6
    <2> QED
      BY <1>6, <2>1, <2>2, <2>3 DEF StampsRead
  <1>11. \A l \in Logs : l \in rotated \/ stateFile[l] # fileStamp[l] => ToFollow(l)'
    <2> SUFFICES ASSUME NEW l \in Logs, l \in rotated \/ stateFile[l] # fileStamp[l]
                 PROVE  ToFollow(l)'
      OBVIOUS
    <2>1. stateFile'[l] # fileStamp[l] /\ stateFile'[l] # 0
      BY <1>4, <1>5, <1>6
    <2>2. CASE l \in read
      BY <1>2, <2>1, <2>2 DEF ToFollow
    <2>3. CASE l \notin read
      BY <1>6, <2>1, <2>3 DEF ToFollow
    <2> QED
      BY <2>2, <2>3
  <1>12. MovedLogsFollowed'
    <2>1. conmandLog' \notin {0, logFile'} => ToFollow("con")'
      BY <1>2, <1>3, <1>4, <1>11 DEF LogInv, MovedLogsFollowed, ToFollow
    <2>2. conAggLogger' = "moved" => ToFollow("agg")'
      BY <1>2, <1>3, <1>4, <1>11 DEF LogInv, MovedLogsFollowed, ToFollow
    <2> QED
      BY <2>1, <2>2 DEF MovedLogsFollowed
  <1>13. MovedOrFirst'
    <2>1. /\ conAggLogger' # "path" => aggFile' = {}
          /\ conAggLogger' = "none" => aggregated' = <<>>
      BY <1>2, <1>3 DEF LogInv, MovedOrFirst
    <2>2. fileStamp["agg"] # 0 => fileStamp'["agg"] # 0
      <3>1. /\ stateFile["agg"] \in Nat /\ stateFile'["agg"] \in Nat
            /\ fileStamp["agg"] \in Nat /\ fileStamp["agg"] <= stateFile["agg"]
            /\ stateFile["agg"] <= stateFile'["agg"]
            /\ fileStamp'["agg"] = IF "agg" \in read THEN stateFile'["agg"]
                                   ELSE fileStamp["agg"]
        BY <1>4, <1>6
      <3> QED
        BY <3>1
    <2>3. aggLost' # {} => fileStamp'["agg"] # 0
      BY <1>2, <2>2 DEF LogInv, MovedOrFirst
    <2>4. ASSUME conAggLogger' = "path", fileStamp["agg"] # 0
          PROVE  stateFile'["agg"] = fileStamp["agg"]
      <3>1. "agg" \notin rotated /\ fileStamp["agg"] = stateFile["agg"]
        BY <1>3, <2>4 DEF LogInv, MovedOrFirst
      <3> QED
        BY <1>5, <2>4, <3>1
    <2>5. conAggLogger' = "path" /\ fileStamp'["agg"] # 0 =>
            fileStamp'["agg"] = stateFile'["agg"]
      BY <1>6, <2>4
    <2>6. "agg" \in changed' /\ conAggLogger' = "path" => aggLost' = {}
      BY <1>2, <2>4 DEF LogInv, MovedOrFirst
    <2> QED
      BY <2>1, <2>3, <2>5, <2>6 DEF MovedOrFirst
  <1> QED
    BY <1>8, <1>9, <1>10, <1>12, <1>13 DEF LogInv, TailSafe

\* respinAggLog truncates only a log that nothing was ever truncated from.
LEMMA RespinTruncatesOnce ==
    ASSUME LogInv, FollowRotation
    PROVE  aggLost' # aggLost => aggLost = {}
  BY DEF LogInv, MovedOrFirst, FollowRotation, RespinAggLog, TypeOK, RotationOK

LEMMA FollowRotationStep ==
    ASSUME LogInv, FollowRotation
    PROVE  LogInv'
  <1>1. /\ ProcessUp /\ rpc = "follow" /\ rpc' = "sleep" /\ changed' = {}
        /\ UNCHANGED <<tailLib, watcher, dying, kpc, cancelled, aggregated,
                       stateFile, fileStamp>>
    BY DEF FollowRotation
  <1>2. /\ files' \in Seq(0 .. MaxLines) /\ Len(files) <= Len(files')
        /\ \A f \in 1 .. Len(files) : files[f] <= files'[f]
        /\ logFile' \in {logFile, Len(files) + 1}
        /\ logFile' \in {0, Len(files')} /\ conmandLog' \in {0, Len(files')}
        /\ conmandLog' \notin {0, logFile'} => stateFile["con"] # fileStamp["con"]
        /\ Len(files') <= stateFile["con"] + (IF logFile' = 0 THEN 0 ELSE 1)
    <2>1. CASE "con" \in changed /\ conmandLog # 0
      <3>1. ConmandOpens
        BY <2>1 DEF FollowRotation, KickConmand
      <3> QED
        BY <3>1, ConmandOpensLog
    <2>2. CASE ~("con" \in changed /\ conmandLog # 0)
      <3>1. UNCHANGED <<logFile, files, conmandLog>>
        BY <2>2 DEF FollowRotation, KickConmand
      <3>2. conmandLog \notin {0, logFile} => stateFile["con"] # fileStamp["con"]
        BY <2>2 DEF LogInv, MovedLogsFollowed, ToFollow
      <3>3. /\ files \in Seq(0 .. MaxLines) /\ Len(files) \in Nat
            /\ logFile \in {0, Len(files)} /\ conmandLog \in {0, Len(files)}
        BY DEF LogInv, TypeOK, FilesOK
      <3>4. \A f \in 1 .. Len(files) : files[f] \in 0 .. MaxLines
        BY <3>3, LineCount
      <3>5. \A f \in 1 .. Len(files) : files[f] <= files'[f]
        BY <3>1, <3>4, LogBounds
      <3> QED
        BY <3>1, <3>2, <3>3, <3>5 DEF LogInv, StampsRead
    <2> QED
      BY <2>1, <2>2
  <1>3. Written \subseteq Written' /\ TailSafe'
    BY <1>1, <1>2, RotationFrame
  <1>4. \/ /\ conAggLogger = "moved" => "agg" \notin changed
           /\ UNCHANGED <<aggFile, aggLost, conAggLogger>>
        \/ /\ conAggLogger = "moved" /\ conAggLogger' = "failed"
           /\ UNCHANGED <<aggFile, aggLost>>
        \/ /\ "agg" \in changed /\ conAggLogger' = "path"
           /\ aggLost' = aggLost \cup aggFile /\ aggFile' = {}
    BY DEF FollowRotation, RespinAggLog
  <1>5. TypeOK'
    <2>1. stateFile["con"] \in 0 .. MaxStamp /\ Len(files') \in Nat
      BY <1>2 DEF LogInv, TypeOK, RotationOK
    <2>2. Len(files') <= MaxStamp + 1
      BY <1>2, <2>1, LogBounds
    <2>3. FilesOK'
      BY <1>2, <1>3, <2>2 DEF FilesOK, TailSafe
    <2>4. CopiesOK'
      BY <1>3, <1>4 DEF LogInv, TypeOK, CopiesOK, TailSafe
    <2>5. RotationOK'
      BY <1>1, <1>4 DEF LogInv, TypeOK, RotationOK
    <2> QED
      BY <1>3, <2>3, <2>4, <2>5 DEF TypeOK, TailSafe
  <1>6. StampsRead'
    BY <1>1, <1>2 DEF LogInv, StampsRead
  <1>7. MovedLogsFollowed'
    <2>1. conAggLogger' = "moved" => stateFile["agg"] # fileStamp["agg"]
      BY <1>4 DEF LogInv, MovedLogsFollowed, ToFollow
    <2> QED
      BY <1>1, <1>2, <2>1 DEF MovedLogsFollowed, ToFollow
  <1>8. MovedOrFirst'
    BY <1>1, <1>4 DEF LogInv, MovedOrFirst, StampsRead
  <1> QED
    BY <1>3, <1>5, <1>6, <1>7, <1>8 DEF LogInv, TailSafe

-----------------------------------------------------------------------------
LEMMA StepInv ==
    ASSUME LogInv, [Next]_vars
    PROVE  LogInv'
  <1>1. CASE RotationNext
    BY <1>1, RotateLogsOnceStep, FollowRotationStep DEF RotationNext
  <1>2. CASE ConmandNext
    BY <1>2, ConmandStartsStep, ConmandWritesStep, ConmandExitsStep DEF ConmandNext
  <1>3. CASE TailNext
    BY <1>3, GoroutineStep, TailOpenStep, TailReadStep, WaitForChangesStep,
       TailStopsStep, TailFailsStep, PollStep, LineLostStep, LineCopiedStep
    DEF TailNext, GoroutineNext, LibraryNext
  <1>4. CASE UNCHANGED vars
    <2>1. TypeOK'
      BY <1>4 DEF LogInv, TypeOK, FilesOK, Size, ThreadsOK, CopiesOK, Written, RotationOK
    <2>2. StampsRead' /\ MovedLogsFollowed' /\ MovedOrFirst'
      BY <1>4 DEF LogInv, StampsRead, MovedLogsFollowed, ToFollow, MovedOrFirst
    <2>3. LibraryHasFile' /\ TailEnds' /\ WatcherAhead'
      BY <1>4 DEF LogInv, LibraryHasFile, TailEnds, DiesOnlyIfMoved, WatcherAhead
    <2>4. CopiedWasRead' /\ LastCopied' /\ AggregatedInOrder' /\ CopiedWithoutGaps'
      BY <1>4, OrderFrame DEF LogInv, CopiedWasRead, LastCopied, HandedOver
    <2> QED
      BY <2>1, <2>2, <2>3, <2>4 DEF LogInv
  <1> QED
    BY <1>1, <1>2, <1>3, <1>4 DEF Next

LEMMA SpecInv == Spec => []LogInv
  BY InitInv, StepInv, PTL DEF Spec

\* The variables of the rotation thread, of the library and of the copies keep
\* their types for any number of lines and rotations; in particular the library
\* never stands beyond the end of the file it reads, and no more files come into
\* being than there are stamps in the state file, and one.
THEOREM LogTypeCorrect == Spec => []TypeOK
  <1>1. LogInv => TypeOK
    BY DEF LogInv
  <1> QED
    BY <1>1, SpecInv, PTL

\* However rotations, writes, polls and reads interleave, what watchConsoleLogFile
\* copies to the aggregation log is in the order of the console's lines and free of
\* repetitions, unless the watcher has taken a rotation for a truncation.
THEOREM CopiedInOrder == Spec => []AggregatedInOrder
  <1>1. LogInv => AggregatedInOrder
    BY DEF LogInv
  <1> QED
    BY <1>1, SpecInv, PTL

\* Between two lines of one console log that are copied in a row none is skipped,
\* and of a log that a rotation has replaced the library begins with the first line.
THEOREM NothingSkipped == Spec => []CopiedWithoutGaps
  <1>1. LogInv => CopiedWithoutGaps
    BY DEF LogInv
  <1> QED
    BY <1>1, SpecInv, PTL

\* A tail ends the process (the nil line of watchConsoleLogFile, the Fatal of the
\* watcher) only after its log was moved away under it or after an I/O error; where
\* there are no such errors, only after a rotation.
THEOREM ProcessEndNeedsRotation == Spec => []DiesOnlyIfMoved
  <1>1. LogInv => DiesOnlyIfMoved
    BY DEF LogInv, TailEnds
  <1> QED
    BY <1>1, SpecInv, PTL

\* No rotation goes unnoticed, however many readings of the state file fail or get
\* only some of its lines: while conmand writes to a moved file, or the logger does
\* and respinAggLog was not tried, rotateLogsOnce has it among the changed logs it
\* is about to follow or will find a stamp that differs from its map.
THEOREM NoRotationMissed == Spec => []MovedLogsFollowed
  <1>1. LogInv => MovedLogsFollowed
    BY DEF LogInv
  <1> QED
    BY <1>1, SpecInv, PTL

\* Of all the respins of a process only one can find an aggregation log that was
\* not moved, and truncate it.
THEOREM RespinLosesOnce == Spec => TruncatedAtMostOnce
  <1>1. LogInv /\ [Next]_vars => [aggLost' # aggLost => aggLost = {}]_vars
    <2> SUFFICES ASSUME LogInv, Next PROVE aggLost' # aggLost => aggLost = {}
      OBVIOUS
    <2>1. CASE FollowRotation
      BY <2>1, RespinTruncatesOnce
    <2>2. CASE \E read \in ReadableStamps : RotateLogsOnce(read)
      BY <2>2 DEF RotateLogsOnce
    <2>3. CASE ConmandNext
      BY <2>3 DEF ConmandNext, ConmandStarts, ConmandWrites, ConmandExits
    <2>4. CASE TailNext
      BY <2>4 DEF TailNext, GoroutineNext, LibraryNext, AggregateFile, StopTailing,
                  TakeLine, WriteToAggLog, NilLine, ExitGracefully, Stopped,
                  TailOpen, TailRead, WaitForChanges, TailStops, TailFails, Poll,
                  PollFails
    <2> QED
      BY <2>1, <2>2, <2>3, <2>4 DEF Next, RotationNext
  <1> QED
    BY <1>1, SpecInv, PTL DEF Spec, TruncatedAtMostOnce

=============================================================================
