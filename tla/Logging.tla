------------------------------ MODULE Logging ------------------------------
(***************************************************************************)
(* The file loggers of internal/log: every process queues its lines to one *)
(* writer goroutine, which appends them to a directory all processes       *)
(* share.  A file is named by its day and a sequence number, is changed at *)
(* midnight (no lock) and when the process believes it full (under the     *)
(* cross-process rotate.lock), and old days are removed when a logger      *)
(* starts.  A line counts as one unit of size.                             *)
(***************************************************************************)
EXTENDS Integers, Sequences, FiniteSets, Functions

CONSTANTS
    Loggers,      \* the processes that log into the directory
    NoLogger,     \* nobody holds rotate.lock
    LogLimit,     \* maxFileSize, in lines
    LogQueueCap,  \* chanSize
    RetainDays,   \* maxRetainDay
    LastDay,      \* bound: days that pass
    MaxLines      \* bound: lines a process sends over all its lives

ASSUME LogAssumption ==
    /\ IsFiniteSet(Loggers) /\ NoLogger \notin Loggers
    /\ {LogLimit, LogQueueCap, RetainDays, LastDay} \subseteq Nat \ {0}
    /\ MaxLines \in Nat

VARIABLES
    logDay,       \* the date every process reads
    logFiles,     \* <<day, seq>> |-> the lines in that file
    rotateLock,   \* the holder of rotate.lock
    logger        \* the state of each process's Logger

logVars == <<logDay, logFiles, rotateLock, logger>>

(* f, and g where f says nothing: @@ as a definition that a proof can use. *)
Over(f, g) == [x \in DOMAIN f \cup DOMAIN g |-> IF x \in DOMAIN f THEN f[x] ELSE g[x]]

NoHandle == <<0, 0>>
LoggerOff == [phase |-> "off", step |-> "take", queue |-> <<>>, hand |-> <<>>, handle |-> NoHandle,
        date |-> 0, seq |-> 0, written |-> 0]

LogInit ==
    /\ logDay = 1
    /\ logFiles = <<>>
    /\ rotateLock = NoLogger
    /\ logger = [l \in Loggers |-> Over(LoggerOff, [sent |-> 0, accepted |-> {}])]

LoggerDo(l, changes) == logger' = [logger EXCEPT ![l] = Over(changes, @)]

(* Whether callers may send: newLogger has returned, Close was not called. *)
LoggerUsable(l) == logger[l].phase = "open"
(* Whether the writer is about to do this.                                 *)
WriterAt(l, step) == logger[l].phase # "off" /\ logger[l].step = step

(* findLastSeq: the highest number the directory has for a day, 0 if none. *)
FindLastSeq(day) ==
    LET seqs == {f[2] : f \in {g \in DOMAIN logFiles : g[1] = day}}
    IN  IF seqs = {} THEN 0 ELSE CHOOSE s \in seqs : \A t \in seqs : t <= s

(* cleanup: the dates before now - maxRetainDay.  Names carry local dates  *)
(* that are compared as UTC, so the day at the edge may go or stay.        *)
LogCleanup(edge) ==
    {f \in DOMAIN logFiles : f[1] < logDay - RetainDays \/ (edge /\ f[1] = logDay - RetainDays)}

(* newLogger: clean up, then rotate to today's last file.                  *)
NewLogger(l) ==
    /\ logger[l].phase = "off"
    /\ logger[l].sent < MaxLines
    /\ \E edge \in BOOLEAN :
         LET gone == UNION {Range(logFiles[f]) : f \in LogCleanup(edge)}
         IN  /\ logFiles' = [f \in DOMAIN logFiles \ LogCleanup(edge) |-> logFiles[f]]
             /\ logger' = [k \in Loggers |->
                  LET left == [accepted |-> logger[k].accepted \ gone]
                      starts == [phase |-> "new", step |-> "open", date |-> logDay,
                                 seq |-> FindLastSeq(logDay)]
                  IN  Over(IF k = l THEN Over(starts, left) ELSE left, logger[k])]
    /\ UNCHANGED <<logDay, rotateLock>>

(* send: filter by level, format, and hand over without blocking; a line   *)
(* that finds the queue full is dropped.                                   *)
LogSend(l) ==
    /\ LoggerUsable(l)
    /\ logger[l].sent < MaxLines
    /\ LET line == <<l, logger[l].sent + 1>>
           fits == Len(logger[l].queue) < LogQueueCap
       IN  LoggerDo(l, [sent     |-> logger[l].sent + 1,
                      queue    |-> IF fits THEN Append(logger[l].queue, line) ELSE logger[l].queue,
                      accepted |-> IF fits THEN logger[l].accepted \cup {line} ELSE logger[l].accepted])
    /\ UNCHANGED <<logDay, logFiles, rotateLock>>

(* A line that could not be written is gone; nobody is told.               *)
Discarded(l) == logger[l].accepted \ Range(logger[l].hand)

(* loop takes an entry, and checkRotate decides: another date rotates      *)
(* without a lock, a full file wants the lock, or the line can be written. *)
TakeEntry(l) ==
    /\ WriterAt(l, "take") /\ logger[l].queue # <<>>
    /\ LET me == logger[l]
           taken == [hand |-> <<Head(me.queue)>>, queue |-> Tail(me.queue)]
           next == IF me.date # logDay
                   THEN [step |-> "open", date |-> logDay, seq |-> FindLastSeq(logDay)]
                   ELSE [step |-> IF me.written >= LogLimit THEN "lock" ELSE "write"]
       IN  LoggerDo(l, Over(next, taken))
    /\ UNCHANGED <<logDay, logFiles, rotateLock>>

(* rotateWithLock: the directory is scanned again under the lock.          *)
LockAndScan(l) ==
    /\ WriterAt(l, "lock") /\ rotateLock = NoLogger
    /\ rotateLock' = l
    /\ LoggerDo(l, [step |-> "open", seq |-> FindLastSeq(logger[l].date)])
    /\ UNCHANGED <<logDay, logFiles>>

(* WithLock gives up after five seconds: the line is discarded.            *)
RotateLockFails(l) ==
    /\ WriterAt(l, "lock") /\ rotateLock # NoLogger
    /\ LoggerDo(l, [step |-> "take", hand |-> <<>>, accepted |-> Discarded(l)])
    /\ UNCHANGED <<logDay, logFiles, rotateLock>>

UnlockRotation(l) == rotateLock' = IF rotateLock = l THEN NoLogger ELSE rotateLock

(* A version that takes a reopened file for an empty one.                  *)
OpenForgetsSize(l) ==
    /\ WriterAt(l, "open")
    /\ LET f == <<logger[l].date, logger[l].seq>>
       IN  /\ logFiles' = Over([g \in {f} |-> IF f \in DOMAIN logFiles THEN logFiles[f] ELSE <<>>], logFiles)
           /\ LoggerDo(l, [phase |-> IF logger[l].phase = "new" THEN "open" ELSE logger[l].phase,
                         step |-> IF logger[l].phase = "new" THEN "take" ELSE "write",
                         handle |-> f, written |-> 0])
    /\ UnlockRotation(l)
    /\ UNCHANGED logDay

(* openFile: open or create the file of this date and number and read its  *)
(* size; a full one sends the logger to the next number.  newLogger then   *)
(* starts the writer, the writer goes on with its line.                    *)
OpenLogFile(l) ==
    /\ WriterAt(l, "open")
    /\ LET f == <<logger[l].date, logger[l].seq>>
           lines == IF f \in DOMAIN logFiles THEN logFiles[f] ELSE <<>>
           new == logger[l].phase = "new"
       IN  /\ logFiles' = Over([g \in {f} |-> lines], logFiles)
           /\ IF Len(lines) >= LogLimit
              THEN LoggerDo(l, [seq |-> logger[l].seq + 1, handle |-> NoHandle]) /\ UNCHANGED rotateLock
              ELSE /\ LoggerDo(l, [phase |-> IF new THEN "open" ELSE logger[l].phase,
                                 step |-> IF new THEN "take" ELSE "write",
                                 handle |-> f, written |-> Len(lines)])
                   /\ UnlockRotation(l)
    /\ UNCHANGED logDay

(* openFile fails: newLogger fails and the process runs without a logger;  *)
(* the writer discards its line, and as the date is already today's and    *)
(* the size the old one it will go on with a closed handle.                *)
OpenLogFails(l) ==
    /\ WriterAt(l, "open")
    /\ IF logger[l].phase = "new"
       THEN LoggerDo(l, LoggerOff)
       ELSE LoggerDo(l, [step |-> "take", handle |-> NoHandle, hand |-> <<>>, accepted |-> Discarded(l)])
    /\ UnlockRotation(l)
    /\ UNCHANGED <<logDay, logFiles>>

(* write: one append; on a closed handle it fails and the line is lost.    *)
WriteLine(l) ==
    /\ WriterAt(l, "write")
    /\ LET f == logger[l].handle
       IN  IF f \in DOMAIN logFiles
           THEN /\ logFiles' = [logFiles EXCEPT ![f] = @ \o logger[l].hand]
                /\ LoggerDo(l, [step |-> "take", hand |-> <<>>, written |-> logger[l].written + 1])
           ELSE /\ LoggerDo(l, [step |-> "take", hand |-> <<>>, accepted |-> Discarded(l)])
                /\ UNCHANGED logFiles
    /\ UNCHANGED <<logDay, rotateLock>>

(* Close: the channel is closed, and the caller waits until the writer has *)
(* written what was queued.                                                *)
CloseLogger(l) ==
    /\ LoggerUsable(l)
    /\ LoggerDo(l, [phase |-> "closing"])
    /\ UNCHANGED <<logDay, logFiles, rotateLock>>

(* A version that does not wait for the writer.                            *)
CloseDoesNotWait(l) ==
    /\ logger[l].phase = "closing" /\ WriterAt(l, "take")
    /\ LoggerDo(l, LoggerOff)
    /\ UNCHANGED <<logDay, logFiles, rotateLock>>

CloseReturns(l) ==
    /\ logger[l].phase = "closing" /\ WriterAt(l, "take") /\ logger[l].queue = <<>>
    /\ LoggerDo(l, LoggerOff)
    /\ UNCHANGED <<logDay, logFiles, rotateLock>>

(* The process dies with lines queued: it leaves through os.Exit, is       *)
(* killed, or a goroutine sends on the closed channel and panics.          *)
LoggerDies(l) ==
    /\ logger[l].phase # "off"
    /\ LoggerDo(l, Over(LoggerOff, [accepted |-> logger[l].accepted \
                                           (Range(logger[l].hand) \cup Range(logger[l].queue))]))
    /\ UnlockRotation(l)
    /\ UNCHANGED <<logDay, logFiles>>

Midnight ==
    /\ logDay < LastDay
    /\ logDay' = logDay + 1
    /\ UNCHANGED <<logFiles, rotateLock, logger>>

LogNext ==
    \/ Midnight
    \/ \E l \in Loggers :
         \/ NewLogger(l) \/ LogSend(l) \/ TakeEntry(l) \/ LockAndScan(l) \/ RotateLockFails(l)
         \/ OpenLogFile(l) \/ OpenLogFails(l) \/ WriteLine(l) \/ CloseLogger(l) \/ CloseReturns(l) \/ LoggerDies(l)

LogSpec == LogInit /\ [][LogNext]_logVars

(***************************************************************************)
(* The state is well-formed.                                               *)
(***************************************************************************)
LogLines == Loggers \X (1..MaxLines)
LogTypeOK ==
    /\ logDay \in 1..LastDay
    /\ \A f \in DOMAIN logFiles : f[1] \in 1..LastDay /\ Range(logFiles[f]) \subseteq LogLines
    /\ rotateLock \in Loggers \cup {NoLogger}
    /\ \A l \in Loggers :
         /\ logger[l].phase \in {"off", "new", "open", "closing"}
         /\ logger[l].step \in {"take", "lock", "open", "write"}
         /\ Len(logger[l].queue) <= LogQueueCap /\ Len(logger[l].hand) <= 1
         /\ rotateLock = l => WriterAt(l, "open")

(* The lines a logger has in some files: file, position there and number.   *)
LinesOf(files, l) ==
    UNION {{<<f, i, files[f][i][2]>> : i \in {j \in DOMAIN files[f] : files[f][j][1] = l}} :
             f \in DOMAIN files}
(* The files are read in the order of their names.                         *)
NamedBefore(f, g) == f[1] < g[1] \/ (f[1] = g[1] /\ f[2] < g[2])
ReadBefore(p, q) == NamedBefore(p[1], q[1]) \/ (p[1] = q[1] /\ p[2] < q[2])

LinesKept(l, filed, waiting, accepted) ==
    /\ accepted = {<<l, p[3]>> : p \in filed} \cup Range(waiting)
    /\ \A p, q \in filed : ReadBefore(p, q) => p[3] < q[3]
    /\ \A p \in filed, i \in DOMAIN waiting : p[3] < waiting[i][2]
    /\ \A i, j \in DOMAIN waiting : i < j => waiting[i][2] < waiting[j][2]

(***************************************************************************)
(* The lines a logger accepted and did not have to give up are those that  *)
(* are in the files or still wait: the files, read in the order of their   *)
(* names, have each once and in the order they were sent, and the waiting  *)
(* ones come behind them.  A Logger whose Close returned has none waiting. *)
(***************************************************************************)
LogKeepsLines ==
    \A l \in Loggers :
      LinesKept(l, LinesOf(logFiles, l), logger[l].hand \o logger[l].queue, logger[l].accepted)

(***************************************************************************)
(* The processes share a file without sharing its size: each may fill what *)
(* it believes is left, but however often they restart no file outgrows    *)
(* one limit for each of them.                                             *)
(***************************************************************************)
LogFilesBounded ==
    \A f \in DOMAIN logFiles : Len(logFiles[f]) <= Cardinality(Loggers) * LogLimit
=============================================================================
