----------------------------- MODULE LogStreamer -----------------------------
(***************************************************************************)
(* The log streamer (plugins/ops/log-streamer): a thread watches a          *)
(* directory of logs, tasks of the loop read the lines that were added, and *)
(* the service takes what they collected, again and again.  One log file    *)
(* is modelled, renamed and started again by a rotation.  Its lines are     *)
(* numbered as they are written; each is a time stamp, which never goes     *)
(* back, and the text after it.  No two lines are the same, each is written *)
(* at once, and all are of events, so that _add_line keeps them.            *)
(*                                                                          *)
(* The loop and the thread share open_files and last_access.  The tasks     *)
(* share a lock of asyncio, which serves its waiters in order: it is the    *)
(* queue of those who want it, each with what it will do, and the first of  *)
(* them has it.  A task that leaves the lock asks for it again or ends, so  *)
(* the queue and the task that reads are all the tasks there are.           *)
(***************************************************************************)
EXTENDS Integers, Sequences, SequencesExt, FiniteSetsExt

CONSTANTS Logs,          \* what the application may write
          MaxLines,      \* bounds of the model: lines written,
          MaxRotations,  \* rotations of the log,
          MaxSetbacks,   \* crashes, checkpoints that expire or are not stored,
          MaxIdle,       \* times the timeout of an open file passes,
          NoFile

Lines == 1 .. MaxLines

ASSUME LogAssumption ==
    /\ MaxLines \in Nat /\ MaxRotations \in Nat /\ MaxSetbacks \in Nat /\ MaxIdle \in Nat
    /\ Logs \subseteq [Lines -> [time : Nat, text : Nat]]
    /\ \A l \in Logs : \A m, n \in Lines :
          m < n => l[m].time <= l[n].time /\ l[m] # l[n]
    /\ NoFile \notin [file : Nat, line : Nat, closed : BOOLEAN]

VARIABLES
    log,         \* what the application writes
    written,     \* number of the last line the application wrote
    starts,      \* of each file, how many lines are in the ones before it
    events,      \* what the observer has not handed to the handler yet
    calls,       \* tasks the thread asked for and the loop has not started
    watcher,     \* where the thread is
    open_file,   \* the file that is open and the last line read from it
    last_access, \* "none", "now", or "past" when the file may be closed
    queue,       \* who wants the lock
    loop,        \* what the loop does that it does not share with any task
    service,     \* where the service is
    checkpoint,  \* the line that was stored last, 0 is none
    expired,     \* its time is over
    collected,   \* how many times each line was added to the batch
    setbacks,    \* what may make lines be read again
    idle

disk == <<log, written, starts>>
stored == <<checkpoint, expired>>
counts == <<setbacks, idle>>
tasks == <<calls, queue>>
logs == <<disk, stored, events, tasks, watcher, open_file, last_access, loop, service,
          collected, counts>>

Current == Len(starts)
Rotations == Len(starts) - 1
LastLine(file) == IF file = Current THEN written ELSE starts[file + 1]

LogInit ==
    /\ log \in Logs /\ written = 0 /\ starts = <<0>>
    /\ checkpoint = 0 /\ expired = FALSE
    /\ events = <<>> /\ calls = 0 /\ queue = <<>>
    /\ watcher = "waits" /\ loop = "free" /\ service = "runs"
    /\ open_file = NoFile /\ last_access = "none"
    /\ collected = [n \in Lines |-> 0]
    /\ setbacks = 0 /\ idle = 0

-----------------------------------------------------------------------------
(* The application and the rotation of its log                              *)

\* The observer drops an event that repeats the one before it.
Notify(event) ==
    events' = IF events # <<>> /\ Last(events) = event THEN events ELSE Append(events, event)

Write ==
    /\ written < MaxLines
    /\ written' = written + 1
    /\ Notify("modified")
    /\ UNCHANGED <<log, starts, stored, tasks, watcher, open_file, last_access, loop, service,
                   collected, counts>>

Rotate ==
    /\ Rotations < MaxRotations /\ written > Last(starts)
    /\ starts' = Append(starts, written)
    /\ Notify("moved")
    /\ UNCHANGED <<log, written, stored, tasks, watcher, open_file, last_access, loop, service,
                   collected, counts>>

-----------------------------------------------------------------------------
(* The thread of the observer                                               *)

\* on_modified
OnModified ==
    /\ watcher = "waits" /\ events # <<>> /\ Head(events) = "modified"
    /\ events' = Tail(events)
    /\ calls' = calls + 1
    /\ UNCHANGED <<disk, stored, queue, watcher, open_file, last_access, loop, service,
                   collected, counts>>

\* on_moved and on_deleted: a file that is open is marked as long unused, and
\* closed with those that are.
OnMoved ==
    /\ watcher = "waits" /\ events # <<>> /\ Head(events) = "moved"
    /\ events' = Tail(events)
    /\ watcher' = IF open_file = NoFile THEN "waits" ELSE "marks"
    /\ UNCHANGED <<disk, stored, tasks, open_file, last_access, loop, service, collected, counts>>

WatcherMarks ==
    /\ watcher = "marks"
    /\ last_access' = "past" /\ watcher' = "checks"
    /\ UNCHANGED <<disk, stored, events, tasks, open_file, loop, service, collected, counts>>

\* close_inactive_files, in the thread and in the service: it looks at the
\* last access, closes the file, forgets it, and then its last access.
Checked == IF last_access = "past" THEN "closes" ELSE "leaves off"

IsOpen == open_file # NoFile /\ ~open_file.closed

\* Whether lines were read that no checkpoint has yet.
Waiting == \E i \in DOMAIN queue : queue[i].op \in {"emit", "save", "move"}
SetBack == setbacks' = setbacks + IF IsOpen /\ Waiting THEN 1 ELSE 0

CloseFile == open_file' = IF open_file = NoFile THEN NoFile ELSE [open_file EXCEPT !.closed = TRUE]

\* One step of it, from a place to the next.
Closing(from, to) ==
    \/ /\ from = "closes" /\ CloseFile /\ SetBack
       /\ to = IF open_file = NoFile THEN "leaves" ELSE "forgets"
       /\ UNCHANGED last_access
    \/ /\ from = "forgets" /\ open_file' = NoFile /\ SetBack
       /\ to = "leaves"
       /\ UNCHANGED last_access
    \/ /\ from = "leaves" /\ last_access' = "none"
       /\ to = IF last_access = "none" THEN "raises" ELSE "leaves off"
       /\ UNCHANGED <<open_file, setbacks>>

WatcherChecks ==
    /\ watcher = "checks"
    /\ watcher' = IF Checked = "closes" THEN "closes" ELSE "waits"
    /\ UNCHANGED <<disk, stored, events, tasks, open_file, last_access, loop, service,
                   collected, counts>>

\* What is raised in the thread is logged.
WatcherCloses ==
    /\ \E to \in {"forgets", "leaves", "raises", "leaves off"} :
          /\ Closing(watcher, to)
          /\ watcher' = IF to \in {"forgets", "leaves"} THEN to ELSE "waits"
    /\ UNCHANGED <<disk, stored, events, tasks, loop, service, collected, idle>>

-----------------------------------------------------------------------------
(* The tasks of _on_event                                                   *)

Asks(entry) == queue' = Append(queue, entry)
Has(op) == queue # <<>> /\ Head(queue).op = op

StartTask ==
    /\ loop = "free" /\ calls > 0
    /\ calls' = calls - 1
    /\ Asks([op |-> "open"])
    /\ UNCHANGED <<disk, stored, events, watcher, open_file, last_access, loop, service,
                   collected, counts>>

\* A file that is open is read at once; one that is not is opened by another
\* thread, while the task keeps the lock.
OpenFile ==
    /\ loop = "free" /\ Has("open")
    /\ last_access' = "now"
    /\ IF open_file = NoFile
       THEN queue' = <<[op |-> "opening"]>> \o Tail(queue) /\ UNCHANGED loop
       ELSE queue' = Tail(queue) /\ loop' = "reads"
    /\ UNCHANGED <<disk, stored, events, calls, watcher, open_file, service, collected, counts>>

\* The checkpoint is loaded, and then the file is opened that has the name
\* now.  After a rotation there is none until a line is written.
Opens ==
    /\ Has("opening")
    /\ queue' = IF written = Last(starts) THEN Tail(queue)
                ELSE <<[op |-> "opened", file |-> Current, from |-> IF expired THEN 0 ELSE checkpoint]>>
                        \o Tail(queue)
    /\ UNCHANGED <<disk, stored, events, calls, watcher, open_file, last_access, loop, service,
                   collected, counts>>

\* Mutant: the reading begins where the file begins.
SkipNothing(file, from) == starts[file]

Later(a, b) == a.time > b.time \/ (a.time = b.time /\ a.text > b.text)

\* The last line that is skipped when a file is opened.  A file that begins
\* after the checkpoint is read from its start.  In another, lines are
\* skipped up to the checkpoint, or to one that is of a later time.
SkipToCheckpoint(file, from) ==
    LET first == starts[file] + 1
        stops == {n \in first .. LastLine(file) : n = from \/ log[n].time > log[from].time}
    IN  IF from = 0 \/ LastLine(file) < first THEN starts[file]
        ELSE IF Later(log[first], log[from]) THEN starts[file]
        ELSE IF stops = {} THEN LastLine(file) ELSE Min(stops)

\* Back in the loop, the file is kept under its name, even if it has been
\* renamed meanwhile, and what was read of it is skipped.
FileOpened ==
    /\ loop = "free" /\ Has("opened")
    /\ queue' = Tail(queue)
    /\ open_file' = [file |-> Head(queue).file, closed |-> FALSE,
                     line |-> SkipToCheckpoint(Head(queue).file, Head(queue).from)]
    /\ loop' = "reads"
    /\ UNCHANGED <<disk, stored, events, calls, watcher, last_access, service, collected, counts>>

\* The lines up to the end of the file.  No other task runs, but the thread
\* may have closed the file: the exception is logged, and what was read of
\* it is forgotten.
ReadLines ==
    /\ loop = "reads"
    /\ loop' = "free"
    /\ IF ~IsOpen \/ open_file.line = LastLine(open_file.file)
       THEN UNCHANGED <<open_file, queue>>
       ELSE LET last == LastLine(open_file.file) IN
            /\ open_file' = [open_file EXCEPT !.line = last]
            /\ Asks([op |-> "emit", lines |-> open_file.line + 1 .. last])
    /\ UNCHANGED <<disk, stored, events, calls, watcher, last_access, service, collected, counts>>

Added(lines) == collected' = [n \in Lines |-> collected[n] + IF n \in lines THEN 1 ELSE 0]

Emit ==
    /\ loop = "free" /\ Has("emit")
    /\ Added(Head(queue).lines)
    /\ queue' = Append(Tail(queue), [op |-> "save", lines |-> Head(queue).lines])
    /\ UNCHANGED <<disk, stored, events, calls, watcher, open_file, last_access, loop, service, counts>>

\* A checkpoint that is stored lasts for another file_checkpoint_expire.
Store(lines) == checkpoint' = Max(lines) /\ expired' = FALSE

\* Mutant: checkpoints are stored without the lock.
SaveWithoutLock ==
    /\ loop = "free"
    /\ \E i \in DOMAIN queue :
          /\ queue[i].op = "save"
          /\ queue' = RemoveAt(queue, i)
          /\ Store(queue[i].lines)
    /\ UNCHANGED <<disk, events, calls, watcher, open_file, last_access, loop, service,
                   collected, counts>>

\* The storage writes a hidden file and then moves it to its name.
SaveCheckpoint ==
    /\ loop = "free" /\ Has("save")
    /\ queue' = <<[op |-> "move", lines |-> Head(queue).lines]>> \o Tail(queue)
    /\ UNCHANGED <<disk, stored, events, calls, watcher, open_file, last_access, loop, service,
                   collected, counts>>

FileMoved ==
    /\ loop = "free" /\ Has("move")
    /\ queue' = Tail(queue)
    /\ Store(Head(queue).lines)
    /\ UNCHANGED <<disk, events, calls, watcher, open_file, last_access, loop, service,
                   collected, counts>>

Fault == setbacks < MaxSetbacks /\ setbacks' = setbacks + 1

SaveFails ==
    /\ loop = "free" /\ (Has("save") \/ Has("move")) /\ Fault
    /\ queue' = Tail(queue)
    /\ UNCHANGED <<disk, stored, events, calls, watcher, open_file, last_access, loop, service,
                   collected, idle>>

-----------------------------------------------------------------------------
(* The service                                                              *)

\* get_and_reset_batch
AskForBatch ==
    /\ loop = "free" /\ service = "runs"
    /\ service' = "asked"
    /\ Asks([op |-> "reset"])
    /\ UNCHANGED <<disk, stored, events, calls, watcher, open_file, last_access, loop, collected,
                   counts>>

TakeBatch ==
    /\ loop = "free" /\ Has("reset")
    /\ queue' = Tail(queue)
    /\ service' = "sleeps"
    /\ UNCHANGED <<disk, stored, events, calls, watcher, open_file, last_access, loop, collected,
                   counts>>

\* After it has yielded the batch, close_inactive_files.
ServiceChecks ==
    /\ loop = "free" /\ service = "sleeps"
    /\ IF Checked = "closes"
       THEN loop' = "closes" /\ UNCHANGED service
       ELSE service' = "runs" /\ UNCHANGED loop
    /\ UNCHANGED <<disk, stored, events, tasks, watcher, open_file, last_access, collected, counts>>

\* When the thread has forgotten the last access first, the exception ends
\* the service, and the observer with it.
ServiceCloses ==
    /\ \E to \in {"forgets", "leaves", "raises", "leaves off"} :
          /\ Closing(loop, to)
          /\ loop' = IF to \in {"forgets", "leaves"} THEN to ELSE "free"
          /\ service' = CASE to = "raises" -> "ended" [] to = "leaves off" -> "runs" [] OTHER -> service
          /\ watcher' = IF to = "raises" THEN "stopped" ELSE watcher
    /\ UNCHANGED <<disk, stored, events, tasks, collected, idle>>

-----------------------------------------------------------------------------
(* Time and crashes                                                         *)

\* The timeout of a file passes since its last access, or the time after
\* which its checkpoint is not used any more.
TimeoutPasses ==
    /\ idle < MaxIdle /\ last_access = "now"
    /\ last_access' = "past"
    /\ idle' = idle + 1
    /\ UNCHANGED <<disk, stored, events, tasks, watcher, open_file, loop, service, collected,
                   setbacks>>

CheckpointExpires ==
    /\ checkpoint # 0 /\ ~expired /\ Fault
    /\ expired' = TRUE
    /\ UNCHANGED <<disk, checkpoint, events, tasks, watcher, open_file, last_access, loop,
                   service, collected, idle>>

\* The process stops and another begins: what was in memory is lost.
Crash ==
    /\ Fault
    /\ events' = <<>> /\ calls' = 0 /\ queue' = <<>>
    /\ watcher' = "waits" /\ loop' = "free" /\ service' = "runs"
    /\ open_file' = NoFile /\ last_access' = "none"
    /\ UNCHANGED <<disk, stored, collected, idle>>

LogNext ==
    \/ Write \/ Rotate
    \/ OnModified \/ OnMoved \/ WatcherMarks \/ WatcherChecks \/ WatcherCloses
    \/ StartTask \/ OpenFile \/ Opens \/ FileOpened \/ ReadLines \/ Emit
    \/ SaveCheckpoint \/ FileMoved \/ SaveFails
    \/ AskForBatch \/ TakeBatch \/ ServiceChecks \/ ServiceCloses
    \/ TimeoutPasses \/ CheckpointExpires \/ Crash

LogSpec == LogInit /\ [][LogNext]_logs

-----------------------------------------------------------------------------
(* Properties                                                               *)

\* What a task wants the lock for, the last three with the lines they carry.
Entries == [op : {"open", "opening", "reset"}]
           \cup [op : {"opened"}, file : DOMAIN starts, from : 0..MaxLines]
           \cup [op : {"emit", "save", "move"},
                 lines : {a .. b : a, b \in Lines} \ {{}}]

\* Every variable always has its type (LogFileHandler, LogStreamerService).
TypeOK ==
    /\ log \in Logs
    /\ written \in 0..MaxLines /\ starts \in Seq(0..MaxLines) \ {<<>>}
    /\ checkpoint \in 0..MaxLines /\ expired \in BOOLEAN
    /\ events \in Seq({"modified", "moved"}) /\ calls \in Nat
    /\ watcher \in {"waits", "marks", "checks", "closes", "forgets", "leaves", "stopped"}
    /\ open_file \in {NoFile} \cup [file : DOMAIN starts, line : 0..MaxLines, closed : BOOLEAN]
    /\ last_access \in {"none", "now", "past"}
    /\ queue \in Seq(Entries)
    /\ loop \in {"free", "reads", "closes", "forgets", "leaves"}
    /\ service \in {"runs", "asked", "sleeps", "ended"}
    /\ collected \in [Lines -> Nat]
    /\ setbacks \in Nat /\ idle \in 0..MaxIdle

\* Each file begins with a line of a time of its own.
FirstLinesAlone ==
    \A file \in DOMAIN starts : LET first == starts[file] + 1 IN
        \A n \in Lines \cap {first - 1, first + 1} : first \in Lines => log[n].time # log[first].time

\* "If the file was read before lines already read will be skept using a saved
\* checkpoint" (_open_file), for files that begin with a line of a time of
\* their own: a line is added to a batch again at most once for each crash,
\* checkpoint that was not stored or has expired, and file that was closed while
\* lines read from it waited for the lock; and no line of its file up to the
\* checkpoint was missed.  It holds whichever of the thread and the service
\* closes the file, and when a rotation comes while the file is opened.
CollectedOnce ==
    FirstLinesAlone => \A n \in Lines :
        /\ collected[n] <= 1 + setbacks
        /\ \A file \in DOMAIN starts :
              n > starts[file] /\ n <= checkpoint /\ checkpoint <= LastLine(file) => collected[n] > 0

\* The checkpoint never moves back to an earlier line, after a crash, a
\* rotation or its expiry too: the tasks save in the order in which they
\* read (LogFileHandler._save_checkpoint).
CheckpointNeverGoesBack == [][checkpoint' >= checkpoint]_checkpoint
=============================================================================
