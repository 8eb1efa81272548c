---------------------------- MODULE BatchStorage ----------------------------
(***************************************************************************)
(* The event that saves a stream to files (plugins/storage/fs,              *)
(* events/stream_batch_storage.py).  Its STREAM half runs buffer_item for   *)
(* each item and, when a partition is full, flush; its SERVICE half yields  *)
(* a flush for every partition in the buffer at an interval.                *)
(*                                                                          *)
(* A partition is an object: the buffer maps keys to partitions, and a task *)
(* keeps the one it found while it waits for its lock.  buffer_lock is left *)
(* out, because no task awaits anything while it holds it.  A lock of       *)
(* asyncio serves its waiters in order, so it is the queue of those who     *)
(* want it, and the first of them has it.                                   *)
(***************************************************************************)
EXTENDS Integers, FiniteSets, Sequences, SequencesExt

CONSTANTS Items,           \* entries of the stream
          Keys,            \* partition keys
          Timer,           \* the task of the service
          Parts,           \* partition objects (a bound of the model)
          NoPart, NoKey,
          MaxSizes,        \* flush_max_size, 0 is none
          FlushByTime,     \* BOOLEAN: flush_seconds is set
          StepDelay,       \* BOOLEAN: the event sleeps between its steps
          MaxSaveFailures  \* bound of the model

ASSUME StorageAssumption ==
    /\ Timer \notin Items /\ NoPart \notin Parts /\ NoKey \notin Keys
    /\ MaxSizes \subseteq Nat /\ MaxSaveFailures \in Nat
    /\ FlushByTime \in BOOLEAN /\ StepDelay \in BOOLEAN

VARIABLES
    max_size,     \* the configured flush_max_size
    keyOf,        \* the partition key of each item, from its event_ts
    buffer,       \* the partition of each key
    items, queue, \* of each partition: what it holds, who wants its lock
    phase, part,  \* of each task: where it is, and the partition it found
    key,          \* of each task: the key it works on
    todo,         \* keys the service has not yielded yet
    written,      \* the items that are in some file
    failures      \* saves that failed so far

storage == <<items, queue, buffer>>
vars == <<max_size, keyOf, storage, phase, part, key, todo, written, failures>>

Tasks == Items \cup {Timer}
Phases == {"new", "buffering", "signal", "flushing", "saving", "saved", "done", "failed"}
Holds(t) == part[t] # NoPart /\ queue[part[t]] # <<>> /\ Head(queue[part[t]]) = t
Unused == {p \in Parts : items[p] = {} /\ queue[p] = <<>>
                         /\ \A k \in Keys : buffer[k] # p
                         /\ \A t \in Tasks : part[t] # p}

Init ==
    /\ max_size \in MaxSizes
    /\ keyOf \in [Items -> Keys]
    /\ buffer = [k \in Keys |-> NoPart]
    /\ items = [p \in Parts |-> {}]
    /\ queue = [p \in Parts |-> <<>>]
    /\ phase = [t \in Tasks |-> IF t = Timer THEN "done" ELSE "new"]
    /\ part = [t \in Tasks |-> NoPart]
    /\ key = [t \in Tasks |-> IF t = Timer THEN NoKey ELSE keyOf[t]]
    /\ todo = {}
    /\ written = {}
    /\ failures = 0

To(t, where) == phase' = [phase EXCEPT ![t] = where]

\* Without a delay between steps, a task goes from one to the next without
\* letting the others run.
Turn(t) == StepDelay \/ \A u \in Tasks \ {t} : phase[u] # "signal"

Release(p, q) == queue' = [queue EXCEPT ![p] = q]
Leave(t) == Release(part[t], Tail(queue[part[t]]))

-----------------------------------------------------------------------------
(* buffer_item                                                              *)

BufferItem(i) ==
    /\ Turn(i) /\ phase[i] = "new"
    /\ \E p \in Parts :
          /\ IF buffer[key[i]] # NoPart THEN p = buffer[key[i]] ELSE p \in Unused
          /\ buffer' = [buffer EXCEPT ![key[i]] = p]
          /\ part' = [part EXCEPT ![i] = p]
          /\ queue' = [queue EXCEPT ![p] = Append(@, i)]
    /\ To(i, "buffering")
    /\ UNCHANGED <<max_size, keyOf, items, key, todo, written, failures>>

\* Mutant: an item is appended without the lock.
AppendUnlocked(i) ==
    /\ Turn(i) /\ phase[i] = "buffering"
    /\ items' = [items EXCEPT ![part[i]] = @ \cup {i}]
    /\ Release(part[i], SelectSeq(queue[part[i]], LAMBDA u : u # i))
    /\ part' = [part EXCEPT ![i] = NoPart]
    /\ To(i, IF max_size > 0 /\ Cardinality(items[part[i]]) + 1 >= max_size
             THEN "signal" ELSE "done")
    /\ UNCHANGED <<max_size, keyOf, buffer, key, todo, written, failures>>

AppendItem(i) ==
    LET p == part[i] IN
    /\ Turn(i) /\ phase[i] = "buffering" /\ Holds(i)
    /\ items' = [items EXCEPT ![p] = @ \cup {i}]
    /\ Leave(i)
    /\ part' = [part EXCEPT ![i] = NoPart]
    /\ To(i, IF max_size > 0 /\ Cardinality(items[p]) + 1 >= max_size
             THEN "signal" ELSE "done")
    /\ UNCHANGED <<max_size, keyOf, buffer, key, todo, written, failures>>

-----------------------------------------------------------------------------
(* flush                                                                    *)

Fail(t) ==
    /\ To(t, "failed")
    /\ part' = [part EXCEPT ![t] = NoPart]

\* Looks the partition up and asks for its lock; a key that is gone is an
\* exception.
Flush(t) ==
    /\ phase[t] = "signal"
    /\ IF buffer[key[t]] = NoPart
       THEN Fail(t) /\ UNCHANGED queue
       ELSE /\ part' = [part EXCEPT ![t] = buffer[key[t]]]
            /\ queue' = [queue EXCEPT ![buffer[key[t]]] = Append(@, t)]
            /\ To(t, "flushing")
    /\ UNCHANGED <<max_size, keyOf, items, buffer, key, todo, written, failures>>

\* Mutant: the key stays in the buffer.
ForgetKeeping(t) ==
    /\ Leave(t) /\ To(t, "done") /\ part' = [part EXCEPT ![t] = NoPart]
    /\ UNCHANGED buffer

\* What follows the save, with the lock still held: the key is removed,
\* whichever partition it now stands for, or is already gone.
Forget(t) ==
    /\ buffer' = [buffer EXCEPT ![key[t]] = NoPart]
    /\ Leave(t)
    /\ IF buffer[key[t]] = NoPart THEN Fail(t)
       ELSE To(t, "done") /\ part' = [part EXCEPT ![t] = NoPart]

BeginSave(t) ==
    /\ Turn(t) /\ phase[t] = "flushing" /\ Holds(t)
    /\ IF items[part[t]] = {} THEN Forget(t)
       ELSE To(t, "saving") /\ UNCHANGED <<buffer, queue, part>>
    /\ UNCHANGED <<max_size, keyOf, items, key, todo, written, failures>>

Written(some) == written' = written \cup some

\* The items that are in the partition when the file is written: iteration
\* over a list ends after what was appended to it meanwhile.
Saved(t) ==
    /\ Turn(t) /\ phase[t] = "saving" /\ Holds(t)
    /\ Written(items[part[t]])
    /\ To(t, "saved")
    /\ UNCHANGED <<max_size, keyOf, storage, part, key, todo, failures>>

\* The file is closed.
Removed(t) ==
    /\ Turn(t) /\ phase[t] = "saved" /\ Holds(t)
    /\ Forget(t)
    /\ UNCHANGED <<max_size, keyOf, items, key, todo, written, failures>>

\* The disk fails, or the task is cancelled, in the middle of the file.
SaveFails(t) ==
    /\ Turn(t) /\ phase[t] \in {"saving", "saved"} /\ Holds(t)
    /\ failures < MaxSaveFailures /\ failures' = failures + 1
    /\ \E some \in SUBSET items[part[t]] : Written(some)
    /\ Leave(t)
    /\ Fail(t)
    /\ UNCHANGED <<max_size, keyOf, items, buffer, key, todo>>

\* A task is cancelled, by its timeout or a stop, while it waits for a lock.
CancelWait(t) ==
    /\ Turn(t) /\ phase[t] \in {"buffering", "flushing"} /\ ~Holds(t)
    /\ failures < MaxSaveFailures /\ failures' = failures + 1
    /\ \E n \in DOMAIN queue[part[t]] :
          queue[part[t]][n] = t /\ Release(part[t], RemoveAt(queue[part[t]], n))
    /\ Fail(t)
    /\ UNCHANGED <<max_size, keyOf, items, buffer, key, todo, written>>

-----------------------------------------------------------------------------
(* __service__: after the interval, one flush after the other for the keys  *)
(* that were in the buffer when it ended.                                   *)

Idle == phase[Timer] \in {"done", "failed"}

Interval ==
    /\ FlushByTime /\ Turn(Timer) /\ Idle /\ todo = {}
    /\ todo' = {k \in Keys : buffer[k] # NoPart} /\ todo' # {}
    /\ UNCHANGED <<max_size, keyOf, storage, phase, part, key, written, failures>>

YieldSignal ==
    /\ Turn(Timer) /\ Idle
    /\ \E k \in todo : todo' = todo \ {k} /\ key' = [key EXCEPT ![Timer] = k]
    /\ To(Timer, "signal")
    /\ UNCHANGED <<max_size, keyOf, storage, part, written, failures>>

FlushStep(t) == Flush(t) \/ BeginSave(t) \/ Saved(t) \/ Removed(t)
Step(t) == FlushStep(t) \/ (t \in Items /\ AppendItem(t))

Next ==
    \/ \E i \in Items : BufferItem(i) \/ AppendItem(i)
    \/ \E t \in Tasks : FlushStep(t) \/ SaveFails(t) \/ CancelWait(t)
    \/ Interval \/ YieldSignal

\* Tasks that can run do, files are written, and the interval ends.
Fairness ==
    /\ \A t \in Tasks : WF_vars(Step(t))
    /\ WF_vars(Interval) /\ WF_vars(YieldSignal)

Spec == Init /\ [][Next]_vars /\ Fairness

-----------------------------------------------------------------------------
(* Properties                                                               *)

\* Types, and only who is in the queue of a partition has one.
TypeOK ==
    /\ max_size \in MaxSizes /\ keyOf \in [Items -> Keys]
    /\ buffer \in [Keys -> Parts \cup {NoPart}]
    /\ items \in [Parts -> SUBSET Items]
    /\ queue \in [Parts -> Seq(Tasks)]
    /\ phase \in [Tasks -> Phases]
    /\ part \in [Tasks -> Parts \cup {NoPart}]
    /\ key \in [Tasks -> Keys \cup {NoKey}]
    /\ todo \subseteq Keys /\ written \subseteq Items /\ failures \in Nat
    /\ \A t \in Tasks, p \in Parts : t \in ToSet(queue[p]) => part[t] = p

\* When a flush removes from the buffer the partition it has locked, every
\* item in it has been written: nothing is appended to a partition between
\* the writing of its file and its removal (the lock of flush and
\* buffer_item).  It says nothing of a flush that waited for its lock while
\* another one removed its partition and a new one took the key.
RemovedOnlySaved ==
    [][\A t \in Tasks :
          (/\ phase[t] \in {"flushing", "saved"} /\ phase'[t] = "done"
           /\ buffer[key[t]] # NoPart /\ buffer[key[t]] = part[t]
           /\ buffer'[key[t]] = NoPart)
          => items'[part[t]] \subseteq written']_vars

\* With a time interval no partition stays in the buffer for ever, however
\* flushes by size and by time interleave and fail (__service__ and flush).
BufferIsFlushed ==
    \A k \in Keys, p \in Parts : buffer[k] = p ~> buffer[k] # p

\* An item whose event has ended well is in a file or still in the buffer.
\* The code breaks this.
DoneIsKept ==
    \A i \in Items : phase[i] = "done" =>
        \/ i \in written
        \/ \E k \in Keys : buffer[k] # NoPart /\ i \in items[buffer[k]]
=============================================================================
