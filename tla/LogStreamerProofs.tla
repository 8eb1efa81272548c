-------------------------- MODULE LogStreamerProofs --------------------------
(***************************************************************************)
(* Proofs about LogStreamer, for any logs, any number of rotations, of      *)
(* setbacks and of times a file is idle.                                    *)
(*                                                                          *)
(* That the checkpoint never goes back rests on the order of the queue for  *)
(* the lock: what is being saved was read before what waits to be added,    *)
(* and both in the order of the queue; nothing that was read is after the   *)
(* end of the file that is open, or being opened.  Where a file is read     *)
(* from does not matter, since it is read to its end.                       *)
(***************************************************************************)
EXTENDS LogStreamer, TLAPS, SequenceTheorems, WellFoundedInduction

-----------------------------------------------------------------------------
(* The inductive invariant                                                  *)

\* The tasks that carry lines, those whose lines are in the batch, and those
\* whose lines are not yet.
Saves == {i \in DOMAIN queue : queue[i].op \in {"save", "move"}}
Emits == {i \in DOMAIN queue : queue[i].op = "emit"}
Carriers == Saves \cup Emits

\* What i carries was read before what j carries: a task that leaves the lock
\* to ask for it again, to save, goes behind all that are there to emit.
Before(i, j) ==
    \/ i \in Saves /\ j \in Emits
    \/ i \in Saves /\ j \in Saves /\ i < j
    \/ i \in Emits /\ j \in Emits /\ i < j

\* A task that opens the file has the lock, and none is open.
IsOpening(e) == e.op \in {"opening", "opened"}
OneOpens == \A i \in DOMAIN queue : IsOpening(queue[i]) => i = 1 /\ open_file = NoFile

\* The last line that can have been read.
Readable == IF open_file # NoFile THEN LastLine(open_file.file)
            ELSE IF Has("opened") THEN LastLine(Head(queue).file)
            ELSE written

FilesInOrder ==
    /\ \A f \in DOMAIN starts : starts[f] <= LastLine(f) /\ LastLine(f) <= written
    /\ open_file # NoFile => open_file.line <= LastLine(open_file.file)

\* The tasks will store what they carry in the order in which it was read,
\* nothing before the checkpoint.
LastLinesInOrder ==
    /\ checkpoint <= Readable
    /\ \A i \in Carriers : Max(queue[i].lines) \in checkpoint .. Readable
    /\ \A i, j \in Carriers : Before(i, j) => Max(queue[i].lines) <= Max(queue[j].lines)

Order == TypeOK /\ OneOpens /\ FilesInOrder /\ LastLinesInOrder

-----------------------------------------------------------------------------
(* Lemmas about lines and tasks                                             *)

LEMMA MaxOfRange ==
    ASSUME NEW a \in Int, NEW b \in Int, a <= b
    PROVE  Max(a .. b) = b
<1>1. b \in a .. b /\ \A y \in a .. b : b >= y
    OBVIOUS
<1>2. \A x \in a .. b : (\A y \in a .. b : x >= y) => x = b
    OBVIOUS
<1> QED
    BY <1>1, <1>2 DEF Max

\* A task carries a range of lines that is not empty.
LEMMA Carried ==
    ASSUME TypeOK, NEW i \in Carriers
    PROVE  \E a, b \in Lines : a <= b /\ queue[i].lines = a .. b /\ Max(queue[i].lines) = b
<1>1. queue[i] \in Entries /\ queue[i].op \in {"emit", "save", "move"}
    BY DEF Carriers, Saves, Emits, TypeOK
<1>2. queue[i].lines \in {a .. b : a, b \in Lines} \ {{}}
    BY <1>1 DEF Entries
<1>3. PICK a, b \in Lines : queue[i].lines = a .. b /\ a .. b # {}
    <2> DEFINE lines == queue[i].lines
    <2>1. lines \in {a .. b : a, b \in Lines} /\ lines # {}
        BY <1>2
    <2> HIDE DEF lines
    <2>2. \E a, b \in Lines : lines = a .. b
        BY <2>1
    <2> QED
        BY <2>1, <2>2 DEF lines
<1>4. a \in Int /\ b \in Int /\ a <= b
    BY <1>3, LogAssumption DEF Lines
<1>5. Max(a .. b) = b
    BY <1>4, MaxOfRange
<1> QED
    BY <1>3, <1>4, <1>5

\* The same tasks, as far as they carry lines, in the same order.
NothingNew ==
    /\ \A i \in Carriers' : \E k \in Carriers : queue'[i].lines = queue[k].lines
    /\ \A i, j \in Carriers' : Before(i, j)' =>
          \E k, l \in Carriers :
              /\ Before(k, l)
              /\ queue'[i].lines = queue[k].lines /\ queue'[j].lines = queue[l].lines

LEMMA NobodyMoves ==
    ASSUME UNCHANGED queue
    PROVE  NothingNew
BY DEF NothingNew, Carriers, Saves, Emits, Before

LEMMA AllGone ==
    ASSUME queue' = <<>>
    PROVE  NothingNew
BY DEF NothingNew, Carriers, Saves, Emits, Before

\* The first task leaves the lock.
LEMMA FirstLeaves ==
    ASSUME queue \in Seq(Entries), queue # <<>>, queue' = Tail(queue)
    PROVE  NothingNew
<1>1. Len(queue) \in Nat /\ DOMAIN queue = 1 .. Len(queue)
      /\ DOMAIN queue' = 1 .. Len(queue) - 1
      /\ \A i \in DOMAIN queue' : queue'[i] = queue[i + 1]
    OBVIOUS
<1>2. \A i : (i \in Saves' => i + 1 \in Saves) /\ (i \in Emits' => i + 1 \in Emits)
    BY <1>1 DEF Saves, Emits
<1>3. \A i \in Carriers' : i \in Int /\ i + 1 \in Carriers /\ queue'[i].lines = queue[i + 1].lines
    BY <1>1, <1>2 DEF Carriers, Saves, Emits
<1>4. \A i, j \in Carriers' : Before(i, j)' => Before(i + 1, j + 1)
    BY <1>2, <1>3 DEF Before
<1> QED
    BY <1>3, <1>4 DEF NothingNew

\* A task without lines asks for the lock.
LEMMA OneMore ==
    ASSUME queue \in Seq(Entries), NEW e, e.op \in {"open", "reset"}, queue' = Append(queue, e)
    PROVE  NothingNew
<1>1. Len(queue) \in Nat /\ DOMAIN queue = 1 .. Len(queue)
      /\ DOMAIN queue' = 1 .. Len(queue) + 1
      /\ queue'[Len(queue) + 1] = e
      /\ \A i \in DOMAIN queue : queue'[i] = queue[i]
    OBVIOUS
<1>2. Saves' = Saves /\ Emits' = Emits
    BY <1>1 DEF Saves, Emits
<1>3. \A i \in Carriers' : i \in Carriers /\ queue'[i] = queue[i]
    BY <1>1, <1>2 DEF Carriers, Saves, Emits
<1>4. \A i, j : Before(i, j)' => Before(i, j)
    BY <1>2 DEF Before
<1> QED
    BY <1>2, <1>3, <1>4 DEF NothingNew

\* A task that has read asks for the lock, to add its lines: it is the last in
\* the order.
LEMMA OneReads ==
    ASSUME queue \in Seq(Entries), NEW e, e.op = "emit", queue' = Append(queue, e)
    PROVE  /\ Saves' = Saves /\ Emits' = Emits \cup {Len(queue) + 1}
           /\ Len(queue) + 1 \notin Carriers /\ queue'[Len(queue) + 1] = e
           /\ \A i \in Carriers : queue'[i] = queue[i]
           /\ \A i, j \in Carriers' : Before(i, j)' =>
                 i \in Carriers /\ ((j \in Carriers /\ Before(i, j)) \/ j = Len(queue) + 1)
<1>1. Len(queue) \in Nat /\ DOMAIN queue = 1 .. Len(queue)
      /\ DOMAIN queue' = 1 .. Len(queue) + 1
      /\ queue'[Len(queue) + 1] = e
      /\ \A i \in DOMAIN queue : queue'[i] = queue[i]
    OBVIOUS
<1>2. Saves' = Saves /\ Emits' = Emits \cup {Len(queue) + 1}
    BY <1>1 DEF Saves, Emits
<1>3. \A i \in Carriers : i \in 1 .. Len(queue) /\ queue'[i] = queue[i]
    BY <1>1 DEF Carriers, Saves, Emits
<1>4. Len(queue) + 1 \notin Saves /\ Len(queue) + 1 \notin Emits
    BY <1>1, <1>3 DEF Carriers
<1>5. \A i, j : Before(i, j)' => i \in Carriers /\ ((j \in Carriers /\ Before(i, j)) \/ j = Len(queue) + 1)
    BY <1>1, <1>2, <1>3, <1>4 DEF Before, Carriers
<1> QED
    BY <1>1, <1>2, <1>3, <1>4, <1>5 DEF Carriers

\* The first task goes on with the lock: it opens the file, or it moves the
\* file with the checkpoint that it stored.
LEMMA FirstGoesOn ==
    ASSUME queue \in Seq(Entries), queue # <<>>, NEW e,
           queue' = <<e>> \o Tail(queue),
           \/ IsOpening(e) /\ Head(queue).op \in {"open", "opening"}
           \/ e.op = "move" /\ Head(queue).op = "save" /\ e.lines = Head(queue).lines
    PROVE  NothingNew
<1>1. Len(queue) \in Nat /\ DOMAIN queue = 1 .. Len(queue)
      /\ 1 \in DOMAIN queue /\ Head(queue) = queue[1]
      /\ DOMAIN queue' = DOMAIN queue /\ queue'[1] = e
      /\ \A i \in DOMAIN queue : i # 1 => queue'[i] = queue[i]
    <2>1. Len(<<e>>) = 1 /\ Len(Tail(queue)) = Len(queue) - 1 /\ Len(queue) >= 1
        OBVIOUS
    <2>2. \A i \in 2 .. Len(queue) : queue'[i] = Tail(queue)[i - 1]
        BY <2>1
    <2> QED
        BY <2>1, <2>2
<1>2. Saves' = Saves /\ Emits' = Emits
    BY <1>1 DEF Saves, Emits, IsOpening
<1>3. \A i \in Saves \cup Emits : queue'[i].lines = queue[i].lines
    BY <1>1, <1>2 DEF Saves, Emits, IsOpening
<1>4. \A i, j : Before(i, j)' => Before(i, j)
    BY <1>2 DEF Before
<1>5. Carriers' = Carriers /\ \A i \in Carriers : queue'[i].lines = queue[i].lines
    BY <1>2, <1>3 DEF Carriers
<1> QED
    BY <1>4, <1>5 DEF NothingNew

\* The first task has added its lines and asks for the lock again, to save.
LEMMA FirstWillSave ==
    ASSUME queue \in Seq(Entries), queue # <<>>, Head(queue).op = "emit",
           queue' = Append(Tail(queue), [op |-> "save", lines |-> Head(queue).lines])
    PROVE  NothingNew
<1> DEFINE last == Len(queue)
<1> DEFINE from(i) == IF i = last THEN 1 ELSE i + 1
<1>1. last \in Nat \ {0} /\ DOMAIN queue = 1 .. last /\ Head(queue) = queue[1]
      /\ DOMAIN queue' = 1 .. last
      /\ queue'[last].op = "save" /\ queue'[last].lines = Head(queue).lines
      /\ \A i \in 1 .. last - 1 : queue'[i] = queue[i + 1]
    <2>1. Len(Tail(queue)) = last - 1 /\ last \in Nat \ {0}
        OBVIOUS
    <2>2. \A i \in 1 .. last - 1 : Tail(queue)[i] = queue[i + 1]
        OBVIOUS
    <2> QED
        BY <2>1, <2>2
<1>2. \A i \in Saves' : i = last \/ (i \in 1 .. last - 1 /\ i + 1 \in Saves)
    BY <1>1 DEF Saves
<1>3. \A i \in Emits' : i \in 1 .. last - 1 /\ i + 1 \in Emits
    BY <1>1 DEF Emits
<1>4. 1 \in Emits /\ 1 \notin Saves
    BY <1>1 DEF Emits, Saves
<1>5. \A i \in Carriers' : i \in 1 .. last /\ from(i) \in Carriers
                           /\ queue'[i].lines = queue[from(i)].lines
    BY <1>1, <1>2, <1>3, <1>4 DEF Carriers
<1>6. \A i, j \in Carriers' : Before(i, j)' => Before(from(i), from(j))
    BY <1>1, <1>2, <1>3, <1>4, <1>5 DEF Before
<1> QED
    BY <1>5, <1>6 DEF NothingNew

-----------------------------------------------------------------------------
(* The types, and the lines of the files                                    *)

LEMMA InitOrder == LogInit => Order
<1> SUFFICES ASSUME LogInit PROVE Order
    OBVIOUS
<1>1. TypeOK
    <2>1. 0 \in 0 .. MaxLines /\ 0 \in 0 .. MaxIdle
        BY LogAssumption
    <2>2. starts \in Seq(0 .. MaxLines) \ {<<>>}
        BY <2>1 DEF LogInit
    <2>3. queue \in Seq(Entries) /\ events \in Seq({"modified", "moved"}) /\ collected \in [Lines -> Nat]
        BY DEF LogInit
    <2> QED
        BY <2>1, <2>2, <2>3 DEF LogInit, TypeOK
<1>2. Carriers = {} /\ OneOpens /\ ~Has("opened")
    BY DEF LogInit, Carriers, Saves, Emits, OneOpens, Has
<1>3. FilesInOrder
    BY DEF LogInit, FilesInOrder, LastLine, Current
<1> QED
    BY <1>1, <1>2, <1>3 DEF Order, LastLinesInOrder, Readable, LogInit

\* The files one after the other, as numbers.
FilesAreNumbers ==
    /\ written \in 0 .. MaxLines /\ MaxLines \in Nat /\ checkpoint \in 0 .. MaxLines
    /\ Current \in Nat \ {0} /\ DOMAIN starts = 1 .. Current
    /\ \A f \in 1 .. Current :
          /\ starts[f] \in 0 .. MaxLines /\ LastLine(f) \in 0 .. MaxLines
          /\ starts[f] <= LastLine(f) /\ LastLine(f) <= written
    /\ open_file # NoFile =>
          /\ open_file.file \in 1 .. Current /\ open_file.line \in 0 .. MaxLines
          /\ open_file.closed \in BOOLEAN
          /\ open_file = [file |-> open_file.file, line |-> open_file.line, closed |-> open_file.closed]
          /\ open_file.line <= LastLine(open_file.file)

LEMMA Files == TypeOK /\ FilesInOrder => FilesAreNumbers
<1> SUFFICES ASSUME TypeOK, FilesInOrder PROVE FilesAreNumbers
    OBVIOUS
<1>1. starts \in Seq(0 .. MaxLines) /\ starts # <<>> /\ written \in 0 .. MaxLines
      /\ checkpoint \in 0 .. MaxLines /\ MaxLines \in Nat
    BY LogAssumption DEF TypeOK
<1>2. Current \in Nat \ {0} /\ DOMAIN starts = 1 .. Current
      /\ \A f \in 1 .. Current : starts[f] \in 0 .. MaxLines
    BY <1>1 DEF Current
<1>3. \A f \in 1 .. Current : LastLine(f) \in 0 .. MaxLines
    BY <1>1, <1>2 DEF LastLine
<1>4. \A f \in 1 .. Current : starts[f] <= LastLine(f) /\ LastLine(f) <= written
    BY <1>2 DEF FilesInOrder
<1>5. ASSUME open_file # NoFile
      PROVE  /\ open_file.file \in 1 .. Current /\ open_file.line \in 0 .. MaxLines
             /\ open_file.closed \in BOOLEAN
             /\ open_file = [file |-> open_file.file, line |-> open_file.line, closed |-> open_file.closed]
             /\ open_file.line <= LastLine(open_file.file)
    BY <1>2, <1>5 DEF TypeOK, FilesInOrder
<1> QED
    BY <1>1, <1>2, <1>3, <1>4, <1>5 DEF FilesAreNumbers

LEMMA FilesLater == TypeOK' /\ FilesInOrder' => FilesAreNumbers'
BY Files, PTL

LEMMA SomeLines ==
    ASSUME NEW a \in Lines, NEW b \in Lines, a <= b
    PROVE  a .. b \in {x .. y : x, y \in Lines} \ {{}}
<1>1. a \in a .. b
    BY DEF Lines
<1>2. a .. b \in {x .. y : x, y \in Lines}
    OBVIOUS
<1> QED
    BY <1>1, <1>2

\* A set of numbers that is not empty has a least one.
LEMMA LeastNumber ==
    ASSUME NEW T, T \subseteq Nat, T # {}
    PROVE  Min(T) \in T
<1> DEFINE R == {ss \in Nat \X Nat : ss[1] < ss[2]}
<1>1. IsWellFoundedOn(R, Nat)
    BY NatLessThanWellFounded DEF OpToRel
<1> HIDE DEF R
<1>2. PICK x \in T : \A y \in T : <<y, x>> \notin R
    BY <1>1, WFMin
<1>3. x \in Nat /\ \A y \in T : y \in Nat /\ <<y, x>> \in Nat \X Nat
    BY <1>2
<1>4. \A y \in T : ~(y < x)
    BY <1>2, <1>3 DEF R
<1>5. \A y \in T : x <= y
    BY <1>3, <1>4
<1> QED
    BY <1>5 DEF Min

\* The reading of a file begins within it.
LEMMA Skipped ==
    ASSUME FilesAreNumbers, NEW file \in 1 .. Current, NEW from
    PROVE  SkipToCheckpoint(file, from) \in starts[file] .. LastLine(file)
<1> DEFINE stops == {n \in starts[file] + 1 .. LastLine(file) : n = from \/ log[n].time > log[from].time}
<1>1. starts[file] \in Nat /\ LastLine(file) \in Nat /\ starts[file] <= LastLine(file)
    BY DEF FilesAreNumbers
<1>2. ASSUME stops # {}
      PROVE  Min(stops) \in starts[file] .. LastLine(file)
    <2>1. stops \subseteq Nat /\ stops \subseteq starts[file] .. LastLine(file)
        BY <1>1
    <2> HIDE DEF stops
    <2>2. Min(stops) \in stops
        BY <1>2, <2>1, LeastNumber
    <2> QED
        BY <2>1, <2>2
<1>3. \/ SkipToCheckpoint(file, from) = starts[file]
      \/ stops = {} /\ SkipToCheckpoint(file, from) = LastLine(file)
      \/ stops # {} /\ SkipToCheckpoint(file, from) = Min(stops)
    BY Zenon DEF SkipToCheckpoint
<1> HIDE DEF stops
<1> QED
    BY <1>1, <1>2, <1>3

LEMMA EntriesKept ==
    ASSUME TypeOK
    PROVE  /\ [op |-> "open"] \in Entries /\ [op |-> "opening"] \in Entries
           /\ [op |-> "reset"] \in Entries
           /\ queue # <<>> =>
                 /\ Head(queue) \in Entries /\ Tail(queue) \in Seq(Entries)
                 /\ \A e \in Entries : <<e>> \o Tail(queue) \in Seq(Entries)
                 /\ Has("emit") \/ Has("save") \/ Has("move") =>
                       \A op \in {"save", "move"} :
                          [op |-> op, lines |-> Head(queue).lines] \in Entries
                 /\ Has("opened") => Head(queue).file \in DOMAIN starts
           /\ \A e \in Entries : Append(queue, e) \in Seq(Entries)
<1>1. ASSUME queue # <<>>
      PROVE  Head(queue) \in Entries /\ Tail(queue) \in Seq(Entries)
             /\ \A e \in Entries : <<e>> \o Tail(queue) \in Seq(Entries)
    BY <1>1 DEF TypeOK
<1>2. ASSUME queue # <<>>, Has("emit") \/ Has("save") \/ Has("move")
      PROVE  \A op \in {"save", "move"} :
                [op |-> op, lines |-> Head(queue).lines] \in Entries
    BY <1>1, <1>2 DEF Has, Entries
<1>3. [op |-> "open"] \in Entries /\ [op |-> "opening"] \in Entries /\ [op |-> "reset"] \in Entries
    BY DEF Entries
<1>4. \A e \in Entries : Append(queue, e) \in Seq(Entries)
    BY DEF TypeOK
<1>5. Has("emit") \/ Has("save") \/ Has("move") => queue # <<>>
    BY DEF Has
<1>6. ASSUME queue # <<>>, Has("opened")
      PROVE  Head(queue).file \in DOMAIN starts
    BY <1>1, <1>6 DEF Has, Entries
<1> QED
    BY <1>1, <1>2, <1>3, <1>4, <1>5, <1>6

\* A file is opened, read, closed or forgotten.
LEMMA FilesMove ==
    ASSUME LogNext
    PROVE  \/ UNCHANGED open_file \/ open_file' = NoFile \/ FileOpened
           \/ open_file # NoFile /\ open_file' = [open_file EXCEPT !.closed = TRUE]
           \/ open_file # NoFile /\ open_file' = [open_file EXCEPT !.line = LastLine(open_file.file)]
<1>1. CASE ReadLines
    BY <1>1 DEF ReadLines, IsOpen
<1>2. CASE WatcherCloses \/ ServiceCloses
    BY <1>2 DEF WatcherCloses, ServiceCloses, Closing, CloseFile
<1>3. CASE FileOpened
    BY <1>3
<1>4. CASE Crash
    BY <1>4 DEF Crash
<1> QED
    BY <1>1, <1>2, <1>3, <1>4 DEF LogNext, Write, Rotate, OnModified, OnMoved, WatcherMarks,
       WatcherChecks, StartTask, OpenFile, Opens, Emit, SaveCheckpoint, FileMoved, SaveFails,
       AskForBatch, TakeBatch, ServiceChecks, TimeoutPasses, CheckpointExpires

\* The queue, by the tasks that step; what a rotation adds are other files.
LEMMA QueueType ==
    ASSUME TypeOK, FilesInOrder, LogNext
    PROVE  queue' \in Seq(Entries')
<1>1. queue' \in Seq(Entries)
    <2>1. CASE UNCHANGED queue
        BY <2>1 DEF TypeOK
    <2>2. CASE StartTask \/ AskForBatch
        BY <2>2, EntriesKept DEF StartTask, AskForBatch, Asks
    <2>3. CASE OpenFile
        BY <2>3, EntriesKept DEF OpenFile, Has
    <2>4. CASE Opens
        <3>1. queue # <<>> /\ Tail(queue) \in Seq(Entries)
            BY <2>4, EntriesKept DEF Opens, Has
        <3>2. PICK from : from = IF expired THEN 0 ELSE checkpoint
            OBVIOUS
        <3>3. Current \in DOMAIN starts /\ from \in 0 .. MaxLines
            BY <3>2, Files DEF FilesAreNumbers
        <3>4. [op |-> "opened", file |-> Current, from |-> from] \in Entries
            BY <3>3 DEF Entries
        <3>5. <<[op |-> "opened", file |-> Current, from |-> from]>> \o Tail(queue) \in Seq(Entries)
            BY <3>1, <3>4, EntriesKept
        <3> QED
            BY <2>4, <3>1, <3>2, <3>5 DEF Opens
    <2>5. CASE FileOpened \/ FileMoved \/ SaveFails \/ TakeBatch
        BY <2>5, EntriesKept DEF FileOpened, FileMoved, SaveFails, TakeBatch, Has
    <2>6. CASE ReadLines
        <3>1. CASE ~IsOpen \/ open_file.line = LastLine(open_file.file)
            BY <2>6, <3>1 DEF ReadLines, TypeOK
        <3>2. CASE ~(~IsOpen \/ open_file.line = LastLine(open_file.file))
            <4>1. PICK a, b : a = open_file.line + 1 /\ b = LastLine(open_file.file)
                OBVIOUS
            <4>2. a \in Lines /\ b \in Lines /\ a <= b
                BY <3>2, <4>1, Files DEF FilesAreNumbers, Lines, IsOpen
            <4>3. [op |-> "emit", lines |-> a .. b] \in Entries
                BY <4>2, SomeLines DEF Entries
            <4> QED
                BY <2>6, <3>2, <4>1, <4>3, EntriesKept DEF ReadLines, Asks
        <3> QED
            BY <3>1, <3>2
    <2>7. CASE Emit
        <3>1. [op |-> "save", lines |-> Head(queue).lines] \in Entries /\ Tail(queue) \in Seq(Entries)
            BY <2>7, EntriesKept DEF Emit, Has
        <3> QED
            BY <2>7, <3>1 DEF Emit
    <2>8. CASE SaveCheckpoint
        BY <2>8, EntriesKept DEF SaveCheckpoint, Has
    <2>9. CASE Crash
        BY <2>9 DEF Crash
    <2> QED
        BY <2>1, <2>2, <2>3, <2>4, <2>5, <2>6, <2>7, <2>8, <2>9 DEF LogNext, Write, Rotate,
           OnModified, OnMoved, WatcherMarks, WatcherChecks, WatcherCloses, ServiceChecks,
           ServiceCloses, TimeoutPasses, CheckpointExpires, tasks
<1>2. DOMAIN starts \subseteq DOMAIN starts'
    <2>1. starts' = starts \/ (Rotate /\ starts' = Append(starts, written))
        BY DEF LogNext, Write, Rotate, OnModified, OnMoved, WatcherMarks, WatcherChecks, WatcherCloses, StartTask, OpenFile,
           Opens, FileOpened, ReadLines, Emit, SaveCheckpoint, FileMoved, SaveFails,
           AskForBatch, TakeBatch, ServiceChecks, ServiceCloses, TimeoutPasses, CheckpointExpires, Crash, disk
    <2> QED
        BY <2>1 DEF TypeOK
<1>3. Entries \subseteq Entries'
    BY <1>2 DEF Entries
<1> QED
    BY <1>1, <1>3

LEMMA OpenFileType ==
    ASSUME TypeOK, FilesInOrder, LogNext
    PROVE  open_file' \in {NoFile} \cup [file : (DOMAIN starts)', line : 0 .. MaxLines, closed : BOOLEAN]
<1>1. DOMAIN starts \subseteq DOMAIN starts'
    <2>1. starts' = starts \/ (Rotate /\ starts' = Append(starts, written))
        BY DEF LogNext, Write, Rotate, OnModified, OnMoved, WatcherMarks, WatcherChecks, WatcherCloses, StartTask, OpenFile,
           Opens, FileOpened, ReadLines, Emit, SaveCheckpoint, FileMoved, SaveFails,
           AskForBatch, TakeBatch, ServiceChecks, ServiceCloses, TimeoutPasses, CheckpointExpires, Crash, disk
    <2> QED
        BY <2>1 DEF TypeOK
<1>2. CASE UNCHANGED open_file \/ open_file' = NoFile
    BY <1>1, <1>2 DEF TypeOK
<1>3. CASE FileOpened
    <2>1. queue # <<>> /\ Head(queue).file \in 1 .. Current
        BY <1>3, EntriesKept, Files DEF FileOpened, Has, FilesAreNumbers
    <2>2. PICK line : line = SkipToCheckpoint(Head(queue).file, Head(queue).from)
        OBVIOUS
    <2>3. line \in 0 .. MaxLines
        BY <2>1, <2>2, Skipped, Files DEF FilesAreNumbers
    <2>4. open_file' = [file |-> Head(queue).file, closed |-> FALSE, line |-> line]
        BY <1>3, <2>2 DEF FileOpened
    <2> QED
        BY <1>1, <2>1, <2>3, <2>4, Files DEF FilesAreNumbers
<1>4. CASE open_file # NoFile /\ open_file' = [open_file EXCEPT !.closed = TRUE]
    BY <1>1, <1>4 DEF TypeOK
<1>5. CASE open_file # NoFile /\ open_file' = [open_file EXCEPT !.line = LastLine(open_file.file)]
    <2>1. LastLine(open_file.file) \in 0 .. MaxLines
        BY <1>5, Files DEF FilesAreNumbers
    <2> QED
        BY <1>1, <1>5, <2>1 DEF TypeOK
<1>6. \/ UNCHANGED open_file \/ open_file' = NoFile \/ FileOpened
      \/ open_file # NoFile /\ open_file' = [open_file EXCEPT !.closed = TRUE]
      \/ open_file # NoFile /\ open_file' = [open_file EXCEPT !.line = LastLine(open_file.file)]
    BY FilesMove
<1> QED
    BY <1>2, <1>3, <1>4, <1>5, <1>6

LEMMA ClosingType ==
    ASSUME TypeOK, NEW from, NEW to, Closing(from, to)
    PROVE  setbacks' \in Nat /\ last_access' \in {"none", "now", "past"}
<1>1. SetBack => setbacks' \in Nat
    BY DEF SetBack, TypeOK
<1> QED
    BY <1>1 DEF Closing, TypeOK

LEMMA TypeStep ==
    ASSUME TypeOK, FilesInOrder, LogNext
    PROVE  TypeOK'
<1> USE LogAssumption
<1> DEFINE Rest == /\ log' \in Logs
                   /\ written' \in 0..MaxLines /\ starts' \in Seq(0..MaxLines) \ {<<>>}
                   /\ checkpoint' \in 0..MaxLines /\ expired' \in BOOLEAN
                   /\ events' \in Seq({"modified", "moved"}) /\ calls' \in Nat
                   /\ watcher' \in {"waits", "marks", "checks", "closes", "forgets", "leaves", "stopped"}
                   /\ last_access' \in {"none", "now", "past"}
                   /\ loop' \in {"free", "reads", "closes", "forgets", "leaves"}
                   /\ service' \in {"runs", "asked", "sleeps", "ended"}
                   /\ collected' \in [Lines -> Nat]
                   /\ setbacks' \in Nat /\ idle' \in 0..MaxIdle
<1> SUFFICES Rest
    BY QueueType, OpenFileType DEF TypeOK
<1>1. CASE Write
    BY <1>1 DEF Write, Notify, TypeOK, disk, stored, tasks, counts
<1>2. CASE Rotate
    <2>1. starts' \in Seq(0 .. MaxLines) \ {<<>>}
        BY <1>2 DEF Rotate, TypeOK
    <2>2. events' \in Seq({"modified", "moved"})
        BY <1>2 DEF Rotate, Notify, TypeOK
    <2> QED
        BY <1>2, <2>1, <2>2 DEF Rotate, TypeOK, stored, tasks, counts
<1>3. CASE OnModified
    BY <1>3 DEF OnModified, TypeOK, disk, stored, tasks, counts
<1>4. CASE OnMoved
    BY <1>4 DEF OnMoved, TypeOK, disk, stored, tasks, counts
<1>5. CASE WatcherMarks
    BY <1>5 DEF WatcherMarks, TypeOK, disk, stored, tasks, counts
<1>6. CASE WatcherChecks
    BY <1>6 DEF WatcherChecks, TypeOK, disk, stored, tasks, counts
<1>7. CASE WatcherCloses
    BY <1>7, ClosingType DEF WatcherCloses, TypeOK, disk, stored, tasks, counts
<1>8. CASE StartTask
    BY <1>8 DEF StartTask, TypeOK, disk, stored, tasks, counts
<1>9. CASE OpenFile
    BY <1>9 DEF OpenFile, TypeOK, disk, stored, tasks, counts
<1>10. CASE Opens
    BY <1>10 DEF Opens, TypeOK, disk, stored, tasks, counts
<1>11. CASE FileOpened
    BY <1>11 DEF FileOpened, TypeOK, disk, stored, tasks, counts
<1>12. CASE ReadLines
    BY <1>12 DEF ReadLines, TypeOK, disk, stored, tasks, counts
<1>13. CASE Emit
    BY <1>13 DEF Emit, Added, TypeOK, disk, stored, tasks, counts
<1>14. CASE SaveCheckpoint
    BY <1>14 DEF SaveCheckpoint, TypeOK, disk, stored, tasks, counts
<1>15. CASE FileMoved
    <2>1. 1 \in Carriers /\ Head(queue) = queue[1]
        BY <1>15 DEF FileMoved, Has, Carriers, Saves, TypeOK
    <2>2. Max(Head(queue).lines) \in Lines
        BY <2>1, Carried
    <2>3. checkpoint' \in 0 .. MaxLines
        BY <1>15, <2>2 DEF FileMoved, Store, Lines
    <2> QED
        BY <1>15, <2>3 DEF FileMoved, Store, TypeOK, disk, stored, counts
<1>16. CASE SaveFails
    BY <1>16 DEF SaveFails, Fault, TypeOK, disk, stored, tasks, counts
<1>17. CASE AskForBatch
    BY <1>17 DEF AskForBatch, TypeOK, disk, stored, tasks, counts
<1>18. CASE TakeBatch
    BY <1>18 DEF TakeBatch, TypeOK, disk, stored, tasks, counts
<1>19. CASE ServiceChecks
    BY <1>19 DEF ServiceChecks, TypeOK, disk, stored, tasks, counts
<1>20. CASE ServiceCloses
    BY <1>20, ClosingType DEF ServiceCloses, TypeOK, disk, stored, tasks, counts
<1>21. CASE TimeoutPasses
    BY <1>21 DEF TimeoutPasses, TypeOK, disk, stored, tasks, counts
<1>22. CASE CheckpointExpires
    BY <1>22 DEF CheckpointExpires, Fault, TypeOK, disk, stored, tasks, counts
<1>23. CASE Crash
    BY <1>23 DEF Crash, Fault, TypeOK, disk, stored, tasks, counts
<1> HIDE DEF Rest
<1> QED
    BY <1>1, <1>2, <1>3, <1>4, <1>5, <1>6, <1>7, <1>8, <1>9, <1>10, <1>11, <1>12,
       <1>13, <1>14, <1>15, <1>16, <1>17, <1>18, <1>19, <1>20, <1>21, <1>22, <1>23
       DEF LogNext

\* Lines are only written to the last file.
LEMMA FilesStep ==
    ASSUME TypeOK, FilesInOrder, LogNext
    PROVE  /\ FilesInOrder'
           /\ \A f \in 1 .. Current : LastLine(f)' >= LastLine(f)
           /\ written' >= written
<1>1. CASE Write
    <2>1. \A f \in 1 .. Current : LastLine(f)' >= LastLine(f) /\ LastLine(f)' <= written'
                                  /\ LastLine(f)' \in Int
        BY <1>1, Files DEF FilesAreNumbers, Write, LastLine, Current
    <2>2. starts' = starts /\ open_file' = open_file /\ written' = written + 1
        BY <1>1 DEF Write
    <2>3. open_file # NoFile => open_file'.line <= LastLine(open_file.file)'
        BY <2>1, <2>2, Files DEF FilesAreNumbers
    <2>4. \A f \in DOMAIN starts' : starts'[f] <= LastLine(f)' /\ LastLine(f)' <= written'
        BY <2>1, <2>2, Files DEF FilesAreNumbers
    <2> QED
        BY <2>1, <2>2, <2>3, <2>4, Files DEF FilesAreNumbers, FilesInOrder
<1>2. CASE Rotate
    <2>1. /\ Current' = Current + 1 /\ starts'[Current + 1] = written
          /\ \A f \in 1 .. Current : starts'[f] = starts[f]
        BY <1>2, Files DEF FilesAreNumbers, Rotate, Current, TypeOK
    <2>2. \A f \in 1 .. Current : LastLine(f)' = LastLine(f)
        <3> SUFFICES ASSUME NEW f \in 1 .. Current PROVE LastLine(f)' = LastLine(f)
            OBVIOUS
        <3>1. f # Current' /\ f \in Nat /\ Current \in Nat
            BY <2>1, Files DEF FilesAreNumbers
        <3>2. LastLine(f)' = starts'[f + 1]
            BY <3>1 DEF LastLine
        <3>3. CASE f = Current
            BY <2>1, <3>2, <3>3 DEF LastLine
        <3>4. CASE f # Current
            <4>1. f + 1 \in 1 .. Current
                BY <3>1, <3>4
            <4> QED
                BY <2>1, <3>2, <3>4, <4>1 DEF LastLine
        <3> QED
            BY <3>3, <3>4
    <2>3. PICK c : c = Current + 1
        OBVIOUS
    <2>4. LastLine(c)' = written /\ starts'[c] = written /\ written' = written
        BY <1>2, <2>1, <2>3 DEF Rotate, LastLine
    <2>5. DOMAIN starts' = 1 .. c
        BY <1>2, <2>3, Files DEF FilesAreNumbers, Rotate, TypeOK, Current
    <2>6. ASSUME NEW f \in DOMAIN starts'
          PROVE  starts'[f] <= LastLine(f)' /\ LastLine(f)' <= written
        <3>1. written \in Nat /\ Current \in Nat /\ f \in 1 .. c
            BY <2>5, Files DEF FilesAreNumbers
        <3>2. CASE f = c
            BY <2>4, <3>1, <3>2
        <3>3. CASE f # c
            <4>1. f \in 1 .. Current
                BY <2>3, <3>1, <3>3
            <4> QED
                BY <2>1, <2>2, <4>1, Files DEF FilesAreNumbers
        <3> QED
            BY <3>2, <3>3
    <2> QED
        BY <1>2, <2>2, <2>4, <2>6, Files DEF FilesAreNumbers, Rotate, FilesInOrder
<1>3. CASE ~(Write \/ Rotate)
    <2>1. starts' = starts /\ written' = written
        BY <1>3 DEF LogNext, OnModified, OnMoved, WatcherMarks, WatcherChecks, WatcherCloses, StartTask, OpenFile,
           Opens, FileOpened, ReadLines, Emit, SaveCheckpoint, FileMoved, SaveFails,
           AskForBatch, TakeBatch, ServiceChecks, ServiceCloses, TimeoutPasses, CheckpointExpires, Crash, disk
    <2>2. \A f : LastLine(f)' = LastLine(f)
        BY <2>1 DEF LastLine, Current
    <2>3. open_file' # NoFile => open_file'.line <= LastLine(open_file'.file)
        <3>1. CASE FileOpened
            <4>1. queue # <<>> /\ Head(queue).file \in 1 .. Current
                BY <3>1, EntriesKept, Files DEF FileOpened, Has, FilesAreNumbers
            <4>2. PICK file, line : /\ file = Head(queue).file
                                    /\ line = SkipToCheckpoint(Head(queue).file, Head(queue).from)
                OBVIOUS
            <4>3. open_file' = [file |-> file, closed |-> FALSE, line |-> line]
                BY <3>1, <4>2 DEF FileOpened
            <4>4. line <= LastLine(file)
                BY <4>1, <4>2, Skipped, Files
            <4> QED
                BY <4>3, <4>4
        <3>2. CASE ~FileOpened
            BY <3>2, FilesMove, Files DEF FilesAreNumbers
        <3> QED
            BY <3>1, <3>2
    <2>4. open_file' # NoFile => open_file'.line <= LastLine(open_file.file)'
        BY <2>2, <2>3
    <2> QED
        BY <2>1, <2>2, <2>4, Files DEF FilesAreNumbers, FilesInOrder
<1> QED
    BY <1>1, <1>2, <1>3

-----------------------------------------------------------------------------
(* One task opens the file at a time                                        *)

\* Of the tasks behind the first none is opening the file, and nobody else
\* opens it while the first does.
LEMMA OpeningStep ==
    ASSUME TypeOK, OneOpens, LogNext
    PROVE  /\ OneOpens'
           /\ Has("opened")' => Opens \/ (Has("opened") /\ Head(queue') = Head(queue))
<1>1. Len(queue) \in Nat /\ DOMAIN queue = 1 .. Len(queue) /\ queue \in Seq(Entries)
    BY DEF TypeOK
<1>2. open_file = NoFile => open_file' = NoFile \/ FileOpened
    BY FilesMove
<1>3. CASE UNCHANGED queue
    <2>1. ~FileOpened
        <3>1. queue # <<>> => Len(Tail(queue)) = Len(queue) - 1
            BY <1>1
        <3> QED
            <4>1. FileOpened => queue # <<>> /\ queue = Tail(queue)
                <5>1. FileOpened => Has("opened") /\ queue' = Tail(queue)
                    BY Zenon DEF FileOpened
                <5>2. Has("opened") => queue # <<>>
                    BY DEF Has
                <5> QED
                    BY <1>3, <5>1, <5>2
            <4>2. Len(queue) # Len(queue) - 1
                <5>1. \A n \in Nat : n # n - 1
                    OBVIOUS
                <5> QED
                    BY <1>1, <5>1
            <4> QED
                BY <3>1, <4>1, <4>2
    <2> QED
        BY <1>2, <1>3, <2>1 DEF OneOpens, Has
<1>4. ASSUME queue # <<>>, queue' = Tail(queue)
      PROVE  (\A i \in DOMAIN queue' : ~IsOpening(queue'[i])) /\ ~Has("opened")'
    <2>1. DOMAIN queue' = 1 .. Len(queue) - 1 /\ \A i \in DOMAIN queue' : queue'[i] = queue[i + 1]
        BY <1>1, <1>4
    <2>2. \A i \in DOMAIN queue' : ~IsOpening(queue'[i])
        BY <1>1, <2>1 DEF OneOpens
    <2>3. queue' # <<>> => 1 \in DOMAIN queue' /\ Head(queue') = queue'[1]
        <3>1. Tail(queue) \in Seq(Entries)
            BY <1>1, <1>4
        <3> QED
            BY <1>4, <3>1
    <2> QED
        BY <2>2, <2>3 DEF Has, IsOpening
<1>5. CASE FileOpened \/ FileMoved \/ SaveFails \/ TakeBatch
    <2>1. queue # <<>> /\ queue' = Tail(queue)
        BY <1>5 DEF FileOpened, FileMoved, SaveFails, TakeBatch, Has
    <2> QED
        BY <1>4, <2>1 DEF OneOpens
<1>6. ASSUME NEW e, queue' = Append(queue, e), ~IsOpening(e)
      PROVE  /\ \A i \in DOMAIN queue' : IsOpening(queue'[i]) => i = 1 /\ open_file = NoFile
             /\ Has("opened")' => Has("opened") /\ Head(queue') = Head(queue)
    <2>1. /\ DOMAIN queue' = 1 .. Len(queue) + 1 /\ queue'[Len(queue) + 1] = e
          /\ \A i \in DOMAIN queue : queue'[i] = queue[i]
        BY <1>1, <1>6
    <2>2. queue # <<>> => Head(queue') = Head(queue)
        BY <1>1, <1>6
    <2>3. queue = <<>> => Head(queue') = e
        BY <1>1, <1>6
    <2> QED
        BY <1>1, <1>6, <2>1, <2>2, <2>3 DEF OneOpens, Has, IsOpening
<1>7. CASE StartTask \/ AskForBatch
    <2>1. \E e : queue' = Append(queue, e) /\ ~IsOpening(e)
        BY <1>7 DEF StartTask, AskForBatch, Asks, IsOpening
    <2>2. open_file' = open_file
        BY <1>7 DEF StartTask, AskForBatch
    <2> QED
        BY <1>6, <2>1, <2>2 DEF OneOpens
<1>8. ASSUME NEW e, queue # <<>>, queue' = <<e>> \o Tail(queue)
      PROVE  /\ \A i \in DOMAIN queue' : IsOpening(queue'[i]) => i = 1 /\ queue'[i] = e
             /\ Head(queue') = e
    <2>1. Len(<<e>>) = 1 /\ Len(Tail(queue)) = Len(queue) - 1 /\ Len(queue) >= 1
        BY <1>1, <1>8
    <2>2. DOMAIN queue' = 1 .. Len(queue) /\ queue'[1] = e /\ Head(queue') = e
        BY <1>1, <1>8, <2>1
    <2>3. \A i \in 2 .. Len(queue) : queue'[i] = queue[i]
        BY <1>1, <1>8, <2>1
    <2> QED
        BY <1>1, <2>1, <2>2, <2>3 DEF OneOpens
<1>9. CASE OpenFile
    <2>1. CASE open_file = NoFile
        <3>1. \E e : e.op = "opening" /\ queue # <<>> /\ queue' = <<e>> \o Tail(queue)
            BY <1>9, <2>1 DEF OpenFile, Has
        <3>2. open_file' = NoFile
            BY <1>9, <2>1 DEF OpenFile
        <3> QED
            BY <1>8, <3>1, <3>2 DEF OneOpens, Has
    <2>2. CASE open_file # NoFile
        BY <1>4, <1>9, <2>2 DEF OpenFile, OneOpens, Has
    <2> QED
        BY <2>1, <2>2
<1>10. CASE Opens
    <2>1. open_file = NoFile /\ open_file' = NoFile /\ queue # <<>>
        <3>1. queue # <<>> /\ Head(queue) = queue[1] /\ 1 \in DOMAIN queue /\ open_file' = open_file
            BY <1>1, <1>10 DEF Opens, Has
        <3>2. IsOpening(queue[1])
            BY <1>10, <3>1 DEF Opens, Has, IsOpening
        <3> QED
            BY <3>1, <3>2 DEF OneOpens
    <2>2. queue' = Tail(queue) \/ \E e : queue' = <<e>> \o Tail(queue)
        BY <1>10 DEF Opens
    <2>3. OneOpens'
        BY <1>4, <1>8, <2>1, <2>2 DEF OneOpens
    <2> QED
        BY <1>10, <2>3
<1>11. CASE ReadLines
    <2>1. CASE UNCHANGED queue
        BY <1>3, <2>1
    <2>2. CASE ~UNCHANGED queue
        <3>1. open_file # NoFile /\ \E e : queue' = Append(queue, e) /\ e.op = "emit"
            BY <1>11, <2>2 DEF ReadLines, IsOpen, Asks
        <3>2. /\ \A i \in DOMAIN queue' : IsOpening(queue'[i]) => i = 1 /\ open_file = NoFile
              /\ Has("opened")' => Has("opened") /\ Head(queue') = Head(queue)
            BY <1>6, <3>1 DEF IsOpening
        <3> QED
            BY <3>1, <3>2 DEF OneOpens
    <2> QED
        BY <2>1, <2>2
<1>12. CASE Emit
    <2>1. PICK e : e.op = "save" /\ queue' = Append(Tail(queue), e) /\ queue # <<>>
        BY <1>12 DEF Emit, Has
    <2>2. /\ DOMAIN queue' = 1 .. Len(queue) /\ queue'[Len(queue)] = e /\ queue' # <<>> /\ Head(queue') = queue'[1]
          /\ \A i \in 1 .. Len(queue) - 1 : queue'[i] = queue[i + 1]
        <3>1. Len(Tail(queue)) = Len(queue) - 1 /\ Tail(queue) \in Seq(Entries)
            BY <1>1, <2>1
        <3>2. \A i \in 1 .. Len(queue) - 1 : Tail(queue)[i] = queue[i + 1]
            BY <1>1, <2>1
        <3> QED
            BY <1>1, <2>1, <3>1, <3>2
    <2>3. \A i \in DOMAIN queue' : ~IsOpening(queue'[i])
        BY <1>1, <2>1, <2>2 DEF OneOpens, IsOpening
    <2>4. 1 \in DOMAIN queue'
        BY <1>1, <2>1, <2>2
    <2> QED
        BY <2>2, <2>3, <2>4 DEF OneOpens, Has, IsOpening
<1>13. CASE SaveCheckpoint
    <2>1. \E e : e.op = "move" /\ queue # <<>> /\ queue' = <<e>> \o Tail(queue)
        BY <1>13 DEF SaveCheckpoint, Has
    <2> QED
        BY <1>8, <2>1 DEF OneOpens, Has, IsOpening
<1>14. CASE Crash
    BY <1>14 DEF Crash, OneOpens, Has
<1> QED
    BY <1>3, <1>5, <1>7, <1>9, <1>10, <1>11, <1>12, <1>13, <1>14 DEF LogNext, Write, Rotate,
       OnModified, OnMoved, WatcherMarks, WatcherChecks, WatcherCloses, ServiceChecks,
       ServiceCloses, TimeoutPasses, CheckpointExpires, tasks

-----------------------------------------------------------------------------
(* Checkpoints are stored in order                                          *)

\* Only reading brings lines to the queue.
LEMMA QueueStep ==
    ASSUME TypeOK, LogNext, ~ReadLines
    PROVE  NothingNew
<1>1. CASE UNCHANGED queue
    BY <1>1, NobodyMoves
<1>2. CASE StartTask \/ AskForBatch
    BY <1>2, OneMore DEF StartTask, AskForBatch, Asks, TypeOK
<1>3. CASE OpenFile
    <2>1. /\ queue # <<>> /\ Head(queue).op = "open"
          /\ queue' = Tail(queue) \/ queue' = <<[op |-> "opening"]>> \o Tail(queue)
        BY <1>3 DEF OpenFile, Has
    <2>2. IsOpening([op |-> "opening"])
        BY DEF IsOpening
    <2> QED
        BY <2>1, <2>2, FirstLeaves, FirstGoesOn DEF TypeOK
<1>4. CASE Opens
    <2>1. /\ queue # <<>> /\ Head(queue).op = "opening"
          /\ queue' = Tail(queue) \/ \E e : e.op = "opened" /\ queue' = <<e>> \o Tail(queue)
        BY <1>4 DEF Opens, Has
    <2> QED
        BY <2>1, FirstLeaves, FirstGoesOn DEF TypeOK, IsOpening
<1>5. CASE FileOpened \/ FileMoved \/ SaveFails \/ TakeBatch
    BY <1>5, FirstLeaves DEF FileOpened, FileMoved, SaveFails, TakeBatch, Has, TypeOK
<1>6. CASE Emit
    BY <1>6, FirstWillSave DEF Emit, Has, TypeOK
<1>7. CASE SaveCheckpoint
    BY <1>7, FirstGoesOn DEF SaveCheckpoint, Has, TypeOK
<1>8. CASE Crash
    BY <1>8, AllGone DEF Crash
<1> QED
    BY <1>1, <1>2, <1>3, <1>4, <1>5, <1>6, <1>7, <1>8 DEF LogNext, Write, Rotate, OnModified, OnMoved,
       WatcherMarks, WatcherChecks, WatcherCloses, ServiceChecks, ServiceCloses, TimeoutPasses,
       CheckpointExpires, tasks

LEMMA Opened == TypeOK => (Has("opened") => Head(queue).file \in DOMAIN starts)
BY EntriesKept DEF Has

LEMMA OpenedLater == TypeOK' => (Has("opened") => Head(queue).file \in DOMAIN starts)'
BY Opened, PTL

\* What can have been read never gets less: a file is opened at the last line
\* there is when it has its name, and while it is open no other is.
LEMMA ReadableStep ==
    ASSUME TypeOK, OneOpens, FilesInOrder, LogNext
    PROVE  Readable \in Nat /\ Readable' \in Nat /\ Readable <= Readable'
<1>1. TypeOK' /\ FilesInOrder' /\ FilesAreNumbers
    BY TypeStep, FilesStep, Files
<1>2. FilesAreNumbers'
    BY <1>1, FilesLater
<1>3. Has("opened") => Head(queue).file \in 1 .. Current
    BY <1>1, EntriesKept DEF FilesAreNumbers, Has
<1>4. Has("opened")' => (Head(queue).file \in 1 .. Current)'
    BY <1>1, <1>2, OpenedLater DEF FilesAreNumbers
<1>5. Readable \in Nat /\ Readable <= written
    BY <1>1, <1>3 DEF FilesAreNumbers, Readable
<1>6. Readable' \in Nat
    BY <1>2, <1>4 DEF FilesAreNumbers, Readable
<1>7. written' >= written /\ \A f \in 1 .. Current : LastLine(f)' >= LastLine(f)
    BY FilesStep
<1>8. CASE ~Has("opened")' /\ open_file' = NoFile
    <2>1. Readable' = written'
        BY <1>8 DEF Readable
    <2> QED
        BY <1>1, <1>2, <1>5, <1>6, <1>7, <2>1 DEF FilesAreNumbers
<1>9. CASE FileOpened
    <2>1. open_file = NoFile /\ Has("opened")
        <3>1. Has("opened") /\ 1 \in DOMAIN queue /\ Head(queue) = queue[1]
            BY <1>9 DEF FileOpened, Has, TypeOK
        <3>2. IsOpening(queue[1])
            BY <3>1 DEF Has, IsOpening
        <3> QED
            BY <3>1, <3>2 DEF OneOpens
    <2>2. open_file'.file = Head(queue).file /\ open_file' # NoFile
        <3>1. open_file'.file = Head(queue).file
            BY <1>9 DEF FileOpened
        <3>2. \E line : open_file' = [file |-> Head(queue).file, closed |-> FALSE, line |-> line]
            BY <1>9 DEF FileOpened
        <3>3. ~Has("opened")' => TRUE
            OBVIOUS
        <3>4. open_file' # NoFile
            <4>1. PICK line : line = SkipToCheckpoint(Head(queue).file, Head(queue).from)
                OBVIOUS
            <4>2. Head(queue).file \in Nat /\ line \in Nat
                BY <1>1, <1>3, <2>1, <4>1, Skipped DEF FilesAreNumbers
            <4>3. [file |-> Head(queue).file, closed |-> FALSE, line |-> line]
                     \in [file : Nat, line : Nat, closed : BOOLEAN]
                BY <4>2
            <4>4. open_file' = [file |-> Head(queue).file, closed |-> FALSE, line |-> line]
                BY <1>9, <4>1 DEF FileOpened
            <4> QED
                BY <4>3, <4>4, LogAssumption
        <3> QED
            BY <3>1, <3>4
    <2>3. starts' = starts /\ written' = written
        BY <1>9 DEF FileOpened, disk
    <2>4. Readable' = LastLine(Head(queue).file) /\ Readable = LastLine(Head(queue).file)
        BY <2>1, <2>2, <2>3 DEF Readable, LastLine, Current
    <2> QED
        BY <1>5, <2>4
<1>10. CASE open_file' # NoFile /\ ~FileOpened
    <2>1. open_file # NoFile /\ open_file'.file = open_file.file
        BY <1>1, <1>10, FilesMove DEF FilesAreNumbers
    <2>2. PICK f : f = open_file.file
        OBVIOUS
    <2>3. Readable = LastLine(f) /\ Readable' = LastLine(f)' /\ f \in 1 .. Current
        BY <1>1, <1>10, <2>1, <2>2 DEF Readable, FilesAreNumbers, LastLine
    <2> QED
        BY <1>5, <1>6, <1>7, <2>3
<1>11. CASE open_file' = NoFile /\ ~FileOpened /\ Has("opened")'
    <2>1. CASE Opens
        <3>1. queue' # Tail(queue) \/ open_file' # NoFile
            <4>1. ASSUME queue' = Tail(queue) PROVE FALSE
                <5>1. queue \in Seq(Entries) /\ queue # <<>>
                    BY <2>1 DEF Opens, Has, TypeOK
                <5>2. queue' # <<>> /\ Head(queue').op = "opened"
                    BY <1>11 DEF Has
                <5>3. 2 \in DOMAIN queue /\ Head(queue') = queue[2]
                    BY <4>1, <5>1, <5>2
                <5> QED
                    BY <5>2, <5>3 DEF OneOpens, IsOpening
            <4> QED
                BY <4>1
        <3>2. Head(queue').file = Current
            <4>1. PICK e : e = [op |-> "opened", file |-> Current, from |-> IF expired THEN 0 ELSE checkpoint]
                OBVIOUS
            <4>2. queue' = <<e>> \o Tail(queue) /\ queue # <<>> /\ queue \in Seq(Entries)
                BY <1>11, <2>1, <3>1, <4>1 DEF Opens, Has, TypeOK
            <4>3. Head(queue') = e
                BY <4>2
            <4> QED
                BY <4>1, <4>3
        <3>3. Readable' = written
            <4>1. starts' = starts /\ written' = written
                BY <2>1 DEF Opens, disk
            <4>2. PICK c : c = Current
                OBVIOUS
            <4>3. c = Current' /\ Head(queue').file = c
                BY <3>2, <4>1, <4>2 DEF Current
            <4> QED
                BY <1>11, <4>1, <4>3 DEF Readable, LastLine
        <3> QED
            BY <1>5, <1>6, <3>3
    <2>2. CASE ~Opens
        <3>1. Has("opened") /\ Head(queue') = Head(queue)
            BY <1>11, <2>2, OpeningStep
        <3>2. open_file = NoFile
            <4>1. 1 \in DOMAIN queue /\ Head(queue) = queue[1]
                BY <3>1 DEF Has, TypeOK
            <4> QED
                BY <3>1, <4>1 DEF Has, OneOpens, IsOpening
        <3>3. PICK f : f = Head(queue).file
            OBVIOUS
        <3>4. Readable = LastLine(f) /\ Readable' = LastLine(f)' /\ f \in 1 .. Current
            BY <1>3, <1>11, <3>1, <3>2, <3>3 DEF Readable, LastLine
        <3> QED
            BY <1>5, <1>6, <1>7, <3>4
    <2> QED
        BY <2>1, <2>2
<1> QED
    BY <1>5, <1>6, <1>8, <1>9, <1>10, <1>11

LEMMA OrderStep ==
    ASSUME Order, LogNext
    PROVE  Order'
<1> USE DEF Order
<1>1. TypeOK' /\ OneOpens' /\ FilesInOrder'
    BY TypeStep, OpeningStep, FilesStep
<1>2. Readable \in Nat /\ Readable' \in Nat /\ Readable <= Readable'
    BY ReadableStep
<1>3. checkpoint \in Nat /\ checkpoint' \in Nat
    BY <1>1, LogAssumption DEF TypeOK
<1>4. \A i \in Carriers : Max(queue[i].lines) \in Nat
    BY <1>3 DEF LastLinesInOrder
<1>5. CASE ReadLines
    <2>1. checkpoint' = checkpoint
        BY <1>5 DEF ReadLines, stored
    <2>2. CASE ~IsOpen \/ open_file.line = LastLine(open_file.file)
        <3>1. queue' = queue
            BY <1>5, <2>2 DEF ReadLines
        <3>2. Carriers' = Carriers /\ \A i, j : Before(i, j)' => Before(i, j)
            BY <3>1 DEF Carriers, Saves, Emits, Before
        <3> QED
            BY <1>1, <1>2, <1>3, <1>4, <2>1, <3>1, <3>2 DEF LastLinesInOrder
    <2>3. CASE ~(~IsOpen \/ open_file.line = LastLine(open_file.file))
        <3> DEFINE b == LastLine(open_file.file)
        <3> DEFINE lines == open_file.line + 1 .. b
        <3>1. Max(lines) = b /\ b = Readable
            <4>1. open_file.line + 1 \in Int /\ b \in Int /\ open_file.line + 1 <= b
                BY <2>3, Files DEF FilesAreNumbers, IsOpen
            <4>2. Max(lines) = b
                BY <4>1, MaxOfRange
            <4> QED
                BY <2>3, <4>2 DEF Readable, IsOpen
        <3>2. queue' = Append(queue, [op |-> "emit", lines |-> lines])
            BY <1>5, <2>3 DEF ReadLines, Asks
        <3> HIDE DEF lines, b
        <3> DEFINE new == Len(queue) + 1
        <3>3. /\ Carriers' = Carriers \cup {new}
              /\ \A i \in Carriers : queue'[i] = queue[i]
              /\ queue'[new].lines = lines
              /\ \A i, j \in Carriers' : Before(i, j)' =>
                    i \in Carriers /\ ((j \in Carriers /\ Before(i, j)) \/ j = new)
            <4> DEFINE e == [op |-> "emit", lines |-> lines]
            <4>1. e.op = "emit" /\ e.lines = lines /\ queue' = Append(queue, e) /\ queue \in Seq(Entries)
                BY <3>2 DEF TypeOK
            <4> HIDE DEF e
            <4>2. /\ Saves' = Saves /\ Emits' = Emits \cup {new} /\ queue'[new] = e
                  /\ \A i \in Carriers : queue'[i] = queue[i]
                  /\ \A i, j \in Carriers' : Before(i, j)' =>
                        i \in Carriers /\ ((j \in Carriers /\ Before(i, j)) \/ j = new)
                BY <4>1, OneReads
            <4> QED
                BY <4>1, <4>2 DEF Carriers
        <3> HIDE DEF new
        <3>4. \A i \in Carriers' : Max(queue'[i].lines) \in checkpoint .. Readable
            BY <1>2, <1>3, <3>1, <3>3 DEF LastLinesInOrder
        <3>5. \A i, j \in Carriers' : Before(i, j)' => Max(queue'[i].lines) <= Max(queue'[j].lines)
            BY <1>2, <1>3, <3>1, <3>3, <3>4 DEF LastLinesInOrder
        <3> QED
            BY <1>1, <1>2, <1>3, <2>1, <3>4, <3>5 DEF LastLinesInOrder
    <2> QED
        BY <2>2, <2>3
<1>6. CASE ~ReadLines
    <2>1. NothingNew
        BY <1>6, QueueStep
    <2>2. checkpoint' <= Readable /\ \A k \in Carriers : checkpoint' <= Max(queue[k].lines)
        <3>1. CASE FileMoved
            <4>1. 1 \in Saves /\ Head(queue) = queue[1] /\ DOMAIN queue \subseteq Nat \ {0}
                BY <3>1 DEF FileMoved, Has, Saves, TypeOK
            <4>2. checkpoint' = Max(queue[1].lines)
                BY <3>1, <4>1 DEF FileMoved, Store
            <4>3. \A k \in Carriers : k # 1 => Before(1, k)
                BY <4>1 DEF Before, Carriers, Saves, Emits
            <4>4. 1 \in Carriers
                BY <4>1 DEF Carriers
            <4> QED
                BY <1>2, <1>3, <1>4, <4>2, <4>3, <4>4 DEF LastLinesInOrder
        <3>2. CASE ~FileMoved
            <4>1. checkpoint' = checkpoint
                BY <1>6, <3>2 DEF LogNext, Write, Rotate, OnModified, OnMoved, WatcherMarks,
                    WatcherChecks, WatcherCloses, StartTask, OpenFile, Opens, FileOpened, Emit,
                    SaveCheckpoint, SaveFails, AskForBatch, TakeBatch, ServiceChecks, ServiceCloses,
                    TimeoutPasses, CheckpointExpires, Crash, stored
            <4> QED
                BY <1>3, <1>4, <4>1 DEF LastLinesInOrder
        <3> QED
            BY <3>1, <3>2
    <2>3. \A i \in Carriers' : Max(queue'[i].lines) \in checkpoint' .. Readable'
        BY <1>2, <1>3, <1>4, <2>1, <2>2 DEF NothingNew, LastLinesInOrder
    <2>4. \A i, j \in Carriers' : Before(i, j)' => Max(queue'[i].lines) <= Max(queue'[j].lines)
        BY <2>1 DEF NothingNew, LastLinesInOrder
    <2> QED
        BY <1>1, <1>2, <1>3, <2>2, <2>3, <2>4 DEF LastLinesInOrder
<1> QED
    BY <1>5, <1>6

\* The order holds throughout: it gives the types and the theorem on checkpoints.
LEMMA OrderInv == LogSpec => []Order
<1>1. Order /\ [LogNext]_logs => Order'
    <2>1. ASSUME Order, UNCHANGED logs PROVE Order'
        <3>1. UNCHANGED <<log, written, starts, checkpoint, expired, events, calls, watcher, open_file,
                          last_access, queue, loop, service, collected, setbacks, idle>>
            BY <2>1 DEF logs, disk, stored, tasks, counts
        <3>2. TypeOK'
            BY <2>1, <3>1 DEF Order, TypeOK, Entries
        <3>3. OneOpens' /\ FilesInOrder'
            BY <2>1, <3>1 DEF Order, OneOpens, FilesInOrder, LastLine, Current
        <3>4. LastLinesInOrder'
            BY <2>1, <3>1 DEF Order, LastLinesInOrder, Readable, LastLine, Current, Has, Carriers,
               Saves, Emits, Before
        <3> QED
            BY <3>2, <3>3, <3>4 DEF Order
    <2> QED
        BY <2>1, OrderStep
<1> QED
    BY <1>1, InitOrder, PTL DEF LogSpec

-----------------------------------------------------------------------------
(* The theorems                                                             *)

\* Every variable always has its type (LogFileHandler, LogStreamerService).
THEOREM TypeCorrect == LogSpec => []TypeOK
<1>1. Order => TypeOK
    BY DEF Order
<1> QED
    BY <1>1, OrderInv, PTL

\* Any number of tasks, rotations, expiries, failures and crashes later, the
\* checkpoint is the one stored last or a later one
\* (LogFileHandler._save_checkpoint).
THEOREM CheckpointMovesOn == LogSpec => CheckpointNeverGoesBack
<1>1. Order /\ [LogNext]_logs => [checkpoint' >= checkpoint]_checkpoint
    <2> SUFFICES ASSUME Order, LogNext, checkpoint' # checkpoint PROVE checkpoint' >= checkpoint
        BY DEF logs, stored
    <2> USE DEF Order
    <2>1. FileMoved
        BY DEF LogNext, Write, Rotate, OnModified, OnMoved, WatcherMarks, WatcherChecks, WatcherCloses,
           StartTask, OpenFile, Opens, FileOpened, ReadLines, Emit, SaveCheckpoint, SaveFails,
           AskForBatch, TakeBatch, ServiceChecks, ServiceCloses, TimeoutPasses, CheckpointExpires,
           Crash, stored
    <2>2. 1 \in Carriers /\ checkpoint' = Max(queue[1].lines)
        BY <2>1 DEF FileMoved, Store, Has, Carriers, Saves, TypeOK
    <2>3. Max(queue[1].lines) \in checkpoint .. Readable
        BY <2>2 DEF LastLinesInOrder
    <2> QED
        BY <2>2, <2>3
<1> QED
    BY <1>1, OrderInv, PTL DEF LogSpec, CheckpointNeverGoesBack
=============================================================================
