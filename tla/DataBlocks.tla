------------------------------ MODULE DataBlocks ------------------------------
(***************************************************************************)
(* Data blocks of the dataframes plugin (plugins/data/dataframes): rows are *)
(* saved to files in partitions by time, and read back one file or a range  *)
(* of partitions at a time, possibly by a later version of their class.     *)
(*                                                                          *)
(* Time is counted in hours of one year.  A path component of              *)
(* partition_dateformat is the set of the units of time it shows, and a     *)
(* directory the set of the hours whose path it is.  A file is known by the *)
(* directory it is in, the time it was saved with, its rows, and its        *)
(* columns.                                                                 *)
(***************************************************************************)
EXTENDS Integers, FiniteSets, SequencesExt, FiniteSetsExt

CONSTANTS Rows,
          Hours,         \* 0 .. n, the time that is modelled
          DayHours, MonthDays, \* length of a day and of a month
          Formats,       \* possible values of partition_dateformat, <<>> is none
          Intervals,     \* possible units of partition_interval
          Versions,      \* of the class, in the order of their release: of each
                         \* of its datasets, the kinds of its fields
          NoTime

ASSUME BlocksAssumption ==
    /\ DayHours \in Nat \ {0} /\ MonthDays \in Nat \ {0}
    /\ Hours \subseteq Nat /\ (\A h \in Hours : 0 .. h \subseteq Hours) /\ NoTime \notin Hours
    /\ Formats \subseteq Seq(SUBSET {"month", "day", "hour"})
    /\ Intervals \subseteq {"day", "hour"}
    /\ Versions # <<>> /\ Versions \in Seq(ToSet(Versions))
    /\ \A v \in ToSet(Versions) :
          /\ v \in Seq(ToSet(v))
          /\ \A d \in ToSet(v) : \A x \in DOMAIN d : d[x] \in {"required", "default", "optional"}

VARIABLES
    format, interval, \* configuration of the database and of sink_partitions
    time,     \* of each row, the field it is partitioned by
    version,  \* of the class that runs, as an index of Versions
    sinking,  \* the sink has begun
    keys,     \* of the sink: the partitions it has not saved
    saving,   \* of the sink: the file it is writing
    files,    \* the files that were written
    range,    \* of the reader: from and to
    dt,       \* of the reader: the time it searches next
    explored, \* of the reader: directories it has searched
    found,    \* of the reader: files it has yet to load
    batch,    \* of the reader: how often it has loaded each file
    before,   \* of the reader: files there were when it began
    lazy,     \* of the reader: it collects the frames in the end
    reader    \* of the reader: where it is

config == <<format, interval, time>>
sink == <<sinking, keys, saving, files>>
reading == <<range, dt, explored, found, batch, before, lazy, reader>>
blocks == <<config, version, sink, reading>>

Length(unit) == CASE unit = "hour" -> 1
                  [] unit = "day" -> DayHours
                  [] unit = "month" -> DayHours * MonthDays
Truncate(t, unit) == t - (t % Length(unit))

\* What a path component shows of a time.  All times are of the same year.
Shown(t, unit) == CASE unit = "hour" -> t - Truncate(t, "day")
                    [] unit = "day" -> Truncate(t, "day") - Truncate(t, "month")
                    [] unit = "month" -> Truncate(t, "month")

\* The hours for which the first n components of the format are those of t.
Same(t, n) == {h \in Hours : \A i \in 1 .. n : \A unit \in format[i] : Shown(h, unit) = Shown(t, unit)}
Directory(t) == Same(t, Len(format))

Class == Versions[version]
Columns == UNION {DOMAIN d : d \in ToSet(Class)}

BlocksInit ==
    /\ format \in Formats /\ interval \in Intervals
    /\ time \in [Rows -> Hours \cup {NoTime}]
    /\ version = 1
    /\ sinking = FALSE /\ keys = {} /\ saving = {} /\ files = {}
    /\ range = <<0, 0>> /\ dt = 0 /\ explored = {} /\ found = {}
    /\ batch = [f \in {} |-> 0] /\ before = {}
    /\ lazy = FALSE /\ reader = "idle"

\* A later version of the class is released, while no process saves or reads.
NewVersion ==
    /\ version < Len(Versions) /\ reader \notin {"search", "collect"}
    /\ keys = {} /\ saving = {}
    /\ version' = version + 1
    /\ UNCHANGED <<config, sink, reading>>

-----------------------------------------------------------------------------
(* DataBlocks.sink_partitions and DataBlocks.save                           *)

Key(r) == IF time[r] = NoTime THEN NoTime ELSE Truncate(time[r], interval)

\* The rows of a partition.  No row is equal to a key that is null.
\* Mutant: the rows from the key on.
RowsFrom(k) == {r \in Rows : k # NoTime /\ time[r] # NoTime /\ time[r] >= k}
RowsOf(k) == {r \in Rows : k # NoTime /\ Key(r) = k}

\* The keys are collected once, the rows of each when its turn comes.
Sink ==
    /\ ~sinking /\ sinking' = TRUE
    /\ keys' = {Key(r) : r \in Rows}
    /\ UNCHANGED <<config, version, saving, files, reading>>

\* The file is created under its name, and then written.  Without a time it
\* is saved at the one it happens to be.
Save(k) ==
    /\ k \in keys /\ saving = {}
    /\ keys' = keys \ {k}
    /\ \E t \in IF k = NoTime THEN Hours ELSE {k} :
          saving' = {[dir |-> Directory(t), at |-> t, rows |-> RowsOf(k), columns |-> Columns]}
    /\ UNCHANGED <<config, version, sinking, files, reading>>

SaveEnds ==
    /\ saving # {}
    /\ files' = files \cup saving /\ saving' = {}
    /\ UNCHANGED <<config, version, sinking, keys, reading>>

-----------------------------------------------------------------------------
(* load_batch and query, over DatasetFileStorage._get_batch                 *)

Load(from, to) ==
    /\ reader = "idle" /\ from <= to
    /\ range' = <<from, to>> /\ dt' = from
    /\ lazy' \in BOOLEAN /\ reader' = "search" /\ before' = files
    /\ UNCHANGED <<config, version, sink, explored, found, batch>>

\* A search is for the first three components of the format, and for whatever
\* the others are.
Searching == IF Len(format) <= 3 THEN Len(format) ELSE 3
Pattern(t) == Same(t, Searching)

Searched == reader' = IF lazy THEN "collect" ELSE "done"

\* Mutant: a directory is searched again on each of its days.
SearchAgain ==
    /\ reader = "search" /\ found = {}
    /\ IF dt > range[2] THEN Searched /\ UNCHANGED <<dt, explored, found>>
       ELSE /\ dt' = dt + DayHours /\ UNCHANGED <<explored, reader>>
            /\ found' = {f \in files \cup saving : f.dir \subseteq Pattern(dt)}
    /\ UNCHANGED <<config, version, sink, range, batch, before, lazy>>

Search ==
    /\ reader = "search" /\ found = {}
    /\ IF dt > range[2] THEN Searched /\ UNCHANGED <<dt, explored, found>>
       ELSE /\ dt' = dt + DayHours /\ UNCHANGED reader
            /\ explored' = explored \cup {Pattern(dt)}
            /\ found' = IF Pattern(dt) \in explored THEN {}
                        ELSE {f \in files \cup saving : f.dir \subseteq Pattern(dt)}
    /\ UNCHANGED <<config, version, sink, range, batch, before, lazy>>

\* A file can be read once it has been written.
Readable(f) == f \in files

\* load_batch casts the columns of the file to the schema of the class: a
\* column that the file lacks is an error, as is a file half written.  query
\* only makes a frame that will read it.
LoadNext ==
    \E f \in found :
    /\ found' = found \ {f}
    /\ IF lazy \/ (Readable(f) /\ Columns \subseteq f.columns)
       THEN /\ batch' = [g \in DOMAIN batch \cup {f} |->
                  (IF g \in DOMAIN batch THEN batch[g] ELSE 0) + IF g = f THEN 1 ELSE 0]
            /\ UNCHANGED reader
       ELSE reader' = "failed" /\ UNCHANGED batch
    /\ UNCHANGED <<config, version, sink, range, dt, explored, before, lazy>>

\* The frames are read: columns they lack are null.
Collect ==
    /\ reader = "collect"
    /\ reader' = IF \A f \in DOMAIN batch : Readable(f) THEN "done" ELSE "failed"
    /\ UNCHANGED <<config, version, sink, range, dt, explored, found, batch, before, lazy>>

BlocksNext ==
    \/ NewVersion \/ Sink \/ SaveEnds \/ \E k \in keys : Save(k)
    \/ \E from, to \in Hours : Load(from, to)
    \/ Search \/ (reader = "search" /\ LoadNext) \/ Collect

BlocksSpec == BlocksInit /\ [][BlocksNext]_blocks

-----------------------------------------------------------------------------
(* DataBlocks.load of one file, _adapt_to_schema; DataBlocks.scan           *)

\* One dataset after the other is completed with the fields the frame lacks:
\* their default, or null, which a field that is required refuses, whether
\* it comes from the file or from another dataset.
Value(df, x, kind) == IF x \in DOMAIN df THEN df[x]
                      ELSE IF kind = "default" THEN "default" ELSE "null"

\* Mutant: what a dataset is completed with is not checked.
ValidAlways(df, d) == TRUE
Valid(df, d) == \A x \in DOMAIN d : d[x] = "required" => Value(df, x, d[x]) # "null"

Complete(loaded, d) ==
    IF ~loaded.ok \/ DOMAIN d \subseteq DOMAIN loaded.df THEN loaded
    ELSE [ok |-> Valid(loaded.df, d),
          df |-> [x \in DOMAIN loaded.df \cup DOMAIN d |->
                    IF x \in DOMAIN d THEN Value(loaded.df, x, d[x]) ELSE loaded.df[x]]]

\* The datasets are taken in the order of the class.
Loaded(f, select) ==
    LET upto[i \in 0 .. Len(Class)] ==
          IF i = 0 THEN [ok |-> TRUE, df |-> [x \in f.columns |-> "saved"]]
          ELSE IF i \in select THEN Complete(upto[i - 1], Class[i]) ELSE upto[i - 1]
    IN  upto[Len(Class)]

\* The fields of the selected datasets, each once.
Fields(select) == UNION {DOMAIN Class[i] : i \in select}

\* A scan inserts the columns the file lacks as nulls and checks nothing.
Scanned(f, select) ==
    [x \in Fields(select) |-> IF x \in f.columns THEN "saved" ELSE "null"]

-----------------------------------------------------------------------------
(* Properties                                                               *)

\* load_batch and query read no file twice, in whatever way directories and
\* days relate and whatever is being saved meanwhile; and they read each file that
\* was saved before they began in a partition of their range, if the format has
\* no hour among the components that are searched and the range does not end
\* at an earlier hour of the day than it begins (_get_batch).  That files are
\* missed in those two cases is what run data_range shows.
BatchIsExact ==
    /\ \A f \in DOMAIN batch : batch[f] <= 1
    /\ /\ reader = "done" /\ range[2] % DayHours >= range[1] % DayHours
       /\ \A i \in 1 .. Searching : "hour" \notin format[i]
       => \A f \in before : f.at \in range[1] .. range[2] => f \in DOMAIN batch

\* "Returns a list of Dataset found in a range of partitions" (_get_batch),
\* which load_batch loads: each file with rows that was in the range before it
\* began.  Run data_range shows it broken.
RangeIsComplete ==
    reader = "done" =>
        \A f \in before : f.rows # {} /\ f.at \in range[1] .. range[2] => f \in DOMAIN batch

\* A sink that has ended has saved each row that has a time in exactly one
\* file, in the directory of its partition (sink_partitions, save_df).
SinkIsExact ==
    sinking /\ keys = {} /\ saving = {} =>
        \A r \in Rows : time[r] # NoTime =>
            /\ Cardinality({f \in files : r \in f.rows}) = 1
            /\ \A f \in files : r \in f.rows => f.dir = Directory(Key(r))

\* A later version of the class reads the files of an earlier one: the load of
\* the datasets it selects succeeds when the file has the fields they
\* require, and only then; the others of the class do not matter.  It gives
\* what a scan of the same file gives, but for the defaults a scan ignores.
\* It holds when the datasets that share a field agree on its kind, which
\* nothing checks: a null, or a default, of one of them is not checked again.
Requires(i) == {x \in DOMAIN Class[i] : Class[i][x] = "required"}
Defaults(select) == UNION {{x \in DOMAIN Class[i] : Class[i][x] = "default"} : i \in select}
SameKinds == \A i, j \in DOMAIN Class : \A x \in DOMAIN Class[i] \cap DOMAIN Class[j] :
                Class[i][x] = Class[j][x]
LoadIsValid ==
    SameKinds => \A f \in files : \A select \in SUBSET DOMAIN Class \ {{}} :
        LET loaded == Loaded(f, select) IN
        /\ loaded.ok <=> \A i \in select : Requires(i) \subseteq f.columns
        /\ loaded.ok => \A x \in Fields(select) \ (Defaults(select) \ f.columns) :
              loaded.df[x] = Scanned(f, select)[x]
=============================================================================
