--------------------------- MODULE StreamConsumer ---------------------------
(***************************************************************************)
(* The consuming of one STREAM event: the read loop, the processing of a   *)
(* batch and its outputs (AppEngine.read_stream, _read_stream_cycle,       *)
(* _process_stream_event, _execute_event in                                *)
(* engine/src/hopeit/server/engine.py) over a Redis consumer group         *)
(* (plugins/streams/redis).                                                *)
(*                                                                         *)
(* Workers are read loops of one event in different processes; they share  *)
(* the consumer group.  Each works in cycles: read from every configured   *)
(* queue in turn, then process all that was read concurrently.  An event   *)
(* is processed under a timeout: its handler yields outputs, which are     *)
(* written downstream in batches, and then the event is acknowledged.      *)
(*                                                                         *)
(* A process may crash, a loop may be told to stop or be cancelled, the    *)
(* broker may fail with or without having done what it was asked.  The     *)
(* entries of the group that were delivered and not acknowledged stay in   *)
(* its pending list; the loops only ever ask for new entries (offset ">"). *)
(***************************************************************************)
EXTENDS Naturals, Sequences, FiniteSets

CONSTANTS
    Workers,          \* read loops in the consumer group
    Messages,         \* stream entries that may be published
    Queues,           \* the configured queues, in the order they are read
    BatchSize,        \* stream.batch_size, for reading and for writing
    Outputs,          \* how many results the handler yields for an event
    Limits,           \* values of max_events a loop may be started with; 0: None
    MaxReadFailures   \* bound: failed reads of one run of a loop

ASSUME ConsumerAssumption ==
    /\ Workers # {} /\ Queues \in Seq(STRING) /\ Len(Queues) > 0
    /\ BatchSize \in Nat \ {0} /\ Outputs \in Nat /\ Limits \subseteq Nat

VARIABLES
    stream,     \* per queue: the entries the group has not delivered
    pending,    \* entries delivered and not acknowledged
    kind,       \* what decoding an entry will do
    status,     \* where each entry is
    starts,     \* how often the handler was started for an entry
    out,        \* per entry: what became of each of its outputs
    loop,       \* where the loop of each worker is, or how it ended
    held,       \* _running[event].locked() in the process of the worker
    qi,         \* index of the queue the loop reads next
    batch,      \* the entries this cycle will process
    limit,      \* how many entries this cycle reads from each queue
    max_events,
    stop_when_empty,
    total,      \* stats.total_event_count
    errors,     \* stats.total_error_count
    failures,   \* failed reads
    seen        \* entries delivered to this run of the loop

group == <<stream, pending>>
entries == <<kind, status, starts, out>>
args == <<max_events, stop_when_empty>>
stats == <<total, errors, failures>>
vars == <<stream, pending, kind, status, starts, out, loop, held, qi, batch,
          limit, max_events, stop_when_empty, total, errors, failures, seen>>

Processing == {"executing", "flushing", "acking"}
Settled == {"done", "failed", "unknown"}
Statuses == {"unborn", "queued", "batched", "lost"} \cup Processing \cup Settled
Active == {"setup", "reading", "processing"}
Ends == {"ended", "raised", "broken"}   \* by itself, by an exception, cut off
Kinds == {"good", "unknown", "malformed"}
OutputStates == {"todo", "flight", "written", "failed"}

Lesser(a, b) == IF a <= b THEN a ELSE b
QueueNames == {Queues[i] : i \in DOMAIN Queues}
Acknowledged ==
    {m \in Messages : status[m] \notin {"unborn", "queued"}} \ pending
InFlight(m) == {o \in DOMAIN out[m] : out[m][o] = "flight"}
ToDo(m) == {o \in DOMAIN out[m] : out[m][o] = "todo"}

Init ==
    /\ stream = [q \in QueueNames |-> <<>>]
    /\ pending = {}
    /\ kind = [m \in Messages |-> "good"]
    /\ status = [m \in Messages |-> "unborn"]
    /\ starts = [m \in Messages |-> 0]
    /\ out = [m \in Messages |-> [o \in 1..Outputs |-> "todo"]]
    /\ loop = [w \in Workers |-> "ended"]
    /\ held = [w \in Workers |-> FALSE]
    /\ qi = [w \in Workers |-> 1]
    /\ batch = [w \in Workers |-> {}]
    /\ limit = [w \in Workers |-> 0]
    /\ max_events = [w \in Workers |-> 0]
    /\ stop_when_empty = [w \in Workers |-> FALSE]
    /\ total = [w \in Workers |-> 0]
    /\ errors = [w \in Workers |-> 0]
    /\ failures = [w \in Workers |-> 0]
    /\ seen = [w \in Workers |-> {}]

-----------------------------------------------------------------------------
(* The producer                                                            *)

Publish(m, q, k) ==
    /\ status[m] = "unborn"
    /\ status' = [status EXCEPT ![m] = "queued"]
    /\ kind' = [kind EXCEPT ![m] = k]
    /\ stream' = [stream EXCEPT ![q] = Append(@, m)]
    /\ UNCHANGED <<pending, starts, out, loop, held, qi, batch, limit, args,
                   stats, seen>>

-----------------------------------------------------------------------------
(* The read loop                                                           *)

\* read_stream takes the lock and begins to ensure the consumer groups.  A
\* server starts its loops without a limit, to run until they are stopped; a
\* job stops when the stream is empty, and may have a limit.
StartLoop(w, max, swe) ==
    /\ loop[w] \in Ends
    /\ max > 0 => swe
    /\ loop' = [loop EXCEPT ![w] = "setup"]
    /\ held' = [held EXCEPT ![w] = TRUE]
    /\ max_events' = [max_events EXCEPT ![w] = max]
    /\ stop_when_empty' = [stop_when_empty EXCEPT ![w] = swe]
    /\ UNCHANGED <<group, entries, qi, batch, limit, stats, seen>>

\* stop_event, or the first signal of AppEngine.stop.
SignalStop(w) ==
    /\ loop[w] \in Active /\ held[w]
    /\ held' = [held EXCEPT ![w] = FALSE]
    /\ UNCHANGED <<group, entries, loop, qi, batch, limit, args, stats, seen>>

\* The loop returns: its lock is free, its arguments and statistics are gone.
EndLoop(w, how) ==
    /\ loop' = [loop EXCEPT ![w] = how]
    /\ held' = [held EXCEPT ![w] = FALSE]
    /\ batch' = [batch EXCEPT ![w] = {}]
    /\ qi' = [qi EXCEPT ![w] = 1]
    /\ limit' = [limit EXCEPT ![w] = 0]
    /\ max_events' = [max_events EXCEPT ![w] = 0]
    /\ stop_when_empty' = [stop_when_empty EXCEPT ![w] = FALSE]
    /\ total' = [total EXCEPT ![w] = 0]
    /\ errors' = [errors EXCEPT ![w] = 0]
    /\ failures' = [failures EXCEPT ![w] = 0]
    /\ seen' = [seen EXCEPT ![w] = {}]

\* Mutant: the loop does not look at its lock.
GoesOnForever(w) == max_events[w] > 0 => total[w] < max_events[w]

GoesOn(w) ==
    held[w] /\ (max_events[w] > 0 => total[w] < max_events[w])

\* The head of the while loop, up to the first read of the next cycle.
NextCycle(w) ==
    IF ~GoesOn(w) THEN EndLoop(w, "ended")
    ELSE /\ loop' = [loop EXCEPT ![w] = "reading"]
         /\ qi' = [qi EXCEPT ![w] = 1]
         /\ batch' = [batch EXCEPT ![w] = {}]
         /\ limit' = [limit EXCEPT ![w] =
               IF max_events[w] > 0
                 THEN Lesser(max_events[w] - total[w], BatchSize)
                 ELSE BatchSize]
         /\ UNCHANGED <<held, args, stats, seen>>

\* Every group is ensured, or the loop was told to stop while it retried.
Setup(w) ==
    /\ loop[w] = "setup"
    /\ NextCycle(w)
    /\ UNCHANGED <<group, entries>>

\* What XREADGROUP with count and offset ">" delivers, and to no one else.
Delivered(w) ==
    LET s == stream[Queues[qi[w]]] IN SubSeq(s, 1, Lesser(limit[w], Len(s)))

SetOf(s) == {s[i] : i \in DOMAIN s}

\* Mutant: the read does not move the position of the group.
TakeAgain(w, ms) ==
    /\ pending' = pending \cup SetOf(ms)
    /\ UNCHANGED stream

Take(w, ms) ==
    /\ stream' = [stream EXCEPT
          ![Queues[qi[w]]] = SubSeq(@, Len(ms) + 1, Len(@))]
    /\ pending' = pending \cup SetOf(ms)

See(w, ms) == seen' = [seen EXCEPT ![w] = @ \cup SetOf(ms)]

NextQueue(w) ==
    /\ loop' = [loop EXCEPT
          ![w] = IF qi[w] < Len(Queues) THEN "reading" ELSE "processing"]
    /\ qi' = [qi EXCEPT ![w] = IF qi[w] < Len(Queues) THEN @ + 1 ELSE 1]

\* A read returns: events to process, and a TypeError for each entry of a
\* type the event does not handle, counted and never acknowledged.
Read(w) ==
    LET ms == Delivered(w)
        bad == {m \in SetOf(ms) : kind[m] = "unknown"}
    IN /\ loop[w] = "reading"
       /\ \A m \in SetOf(ms) : kind[m] # "malformed"
       /\ Take(w, ms) /\ See(w, ms)
       /\ status' = [m \in Messages |->
             IF m \notin SetOf(ms) THEN status[m]
             ELSE IF m \in bad THEN "unknown" ELSE "batched"]
       /\ batch' = [batch EXCEPT ![w] = @ \cup (SetOf(ms) \ bad)]
       /\ total' = [total EXCEPT ![w] = @ + Cardinality(bad)]
       /\ errors' = [errors EXCEPT ![w] = @ + Cardinality(bad)]
       /\ NextQueue(w)
       /\ UNCHANGED <<kind, starts, out, held, limit, args, failures>>

\* What the loop has read and not yet started is dropped with the loop.
Dropped(w, ms) == [m \in Messages |->
    IF m \in SetOf(ms) \/ (m \in batch[w] /\ status[m] = "batched")
      THEN "lost" ELSE status[m]]

\* The payload of an entry cannot be decoded: the exception leaves
\* read_stream of the manager, the circuit breaker and the loop.
ReadRaises(w) ==
    LET ms == Delivered(w)
    IN /\ loop[w] = "reading"
       /\ \E m \in SetOf(ms) : kind[m] = "malformed"
       /\ Take(w, ms)
       /\ status' = Dropped(w, ms)
       /\ EndLoop(w, "raised")
       /\ UNCHANGED <<kind, starts, out>>

\* A read fails with StreamOSError: the breaker hands the exception over as
\* an element of the batch, which counts as a consumed event in error.  The
\* broker may have delivered entries whose reply got lost.
ReadFails(w) ==
    /\ loop[w] = "reading" /\ failures[w] < MaxReadFailures
    /\ \/ UNCHANGED <<group, status, seen>>
       \/ /\ Delivered(w) # <<>>
          /\ Take(w, Delivered(w)) /\ See(w, Delivered(w))
          /\ status' = [m \in Messages |->
                IF m \in SetOf(Delivered(w)) THEN "lost" ELSE status[m]]
    /\ failures' = [failures EXCEPT ![w] = @ + 1]
    /\ total' = [total EXCEPT ![w] = @ + 1]
    /\ errors' = [errors EXCEPT ![w] = @ + 1]
    /\ NextQueue(w)
    /\ UNCHANGED <<kind, starts, out, held, batch, limit, args>>

\* Mutant: the batch is not awaited.
EndCycleAtOnce(w) ==
    /\ loop[w] = "processing"
    /\ NextCycle(w)
    /\ UNCHANGED <<group, entries>>

\* The gather over the batch is complete.
EndCycle(w) ==
    /\ loop[w] = "processing"
    /\ \A m \in batch[w] : status[m] \in Settled
    /\ IF stop_when_empty[w] /\ batch[w] = {}
         THEN EndLoop(w, "ended")
         ELSE NextCycle(w)
    /\ UNCHANGED <<group, entries>>

-----------------------------------------------------------------------------
(* Processing one event                                                    *)

Running(w, m) == loop[w] = "processing" /\ m \in batch[w]

To(m, new) ==
    /\ status' = [status EXCEPT ![m] = new]
    /\ UNCHANGED <<stream, kind, loop, held, qi, batch, limit, args,
                   failures, seen>>

Count(w, isError) ==
    /\ total' = [total EXCEPT ![w] = @ + 1]
    /\ errors' = [errors EXCEPT ![w] = IF isError THEN @ + 1 ELSE @]

Start(w, m) ==
    /\ Running(w, m) /\ status[m] = "batched"
    /\ starts' = [starts EXCEPT ![m] = @ + 1]
    /\ To(m, "executing")
    /\ UNCHANGED <<pending, out, total, errors>>

\* _execute_event: outputs are written when a batch of them is complete, and
\* what is left when the handler has yielded its last result.
Flush(w, m) ==
    /\ Running(w, m) /\ status[m] = "executing" /\ ToDo(m) # {}
    /\ LET first == Outputs - Cardinality(ToDo(m)) IN
       out' = [out EXCEPT ![m] = [o \in 1..Outputs |->
          IF o > first /\ o <= first + BatchSize THEN "flight" ELSE @[o]]]
    /\ To(m, "flushing")
    /\ UNCHANGED <<pending, starts, total, errors>>

WriteEnds(m, o, how) ==
    /\ o \in InFlight(m)
    /\ out' = [out EXCEPT ![m][o] = how]

OutputWritten(w, m, o) ==
    /\ Running(w, m) /\ status[m] = "flushing"
    /\ WriteEnds(m, o, "written")
    /\ UNCHANGED <<group, kind, status, starts, loop, held, qi, batch, limit,
                   args, stats, seen>>

\* The first failed write of a batch fails the event.
OutputFails(w, m, o) ==
    /\ Running(w, m) /\ status[m] = "flushing"
    /\ WriteEnds(m, o, "failed")
    /\ To(m, "failed") /\ Count(w, TRUE)
    /\ UNCHANGED <<pending, starts>>

\* gather leaves the other writes of that batch running: they end after
\* their event has failed, and nobody looks at their result.
OrphanWriteEnds(m, o, how) ==
    /\ status[m] \notin Processing
    /\ WriteEnds(m, o, how)
    /\ UNCHANGED <<group, kind, status, starts, loop, held, qi, batch, limit,
                   args, stats, seen>>

\* Mutant: the writes of a batch are started and not awaited.
FlushDoneAtOnce(w, m) ==
    /\ Running(w, m) /\ status[m] = "flushing"
    /\ To(m, "executing")
    /\ UNCHANGED <<pending, starts, out, total, errors>>

FlushDone(w, m) ==
    /\ Running(w, m) /\ status[m] = "flushing" /\ InFlight(m) = {}
    /\ To(m, "executing")
    /\ UNCHANGED <<pending, starts, out, total, errors>>

StepFails(w, m) ==
    /\ Running(w, m) /\ status[m] = "executing"
    /\ To(m, "failed") /\ Count(w, TRUE)
    /\ UNCHANGED <<pending, starts, out>>

Executed(w, m) ==
    /\ Running(w, m) /\ status[m] = "executing" /\ ToDo(m) = {}
    /\ To(m, "acking")
    /\ UNCHANGED <<pending, starts, out, total, errors>>

\* ack_read_stream returns.  The breaker swallows a StreamOSError, so the
\* event counts as consumed whether or not the broker took the acknowledge.
Ack(w, m, taken) ==
    /\ Running(w, m) /\ status[m] = "acking"
    /\ pending' = IF taken THEN pending \ {m} ELSE pending
    /\ To(m, "done") /\ Count(w, FALSE)
    /\ UNCHANGED <<starts, out>>

\* Writes and acknowledges that were under way when they are cut off have
\* happened or not: any of the writes ws, and any of the acknowledges as.
CutOff(ms) ==
    /\ \E ws \in SUBSET {p \in ms \X (1..Outputs) : p[2] \in InFlight(p[1])} :
          out' = [m \in Messages |-> [o \in 1..Outputs |->
             IF m \in ms /\ o \in InFlight(m)
               THEN IF <<m, o>> \in ws THEN "written" ELSE "failed"
               ELSE out[m][o]]]
    /\ \E as \in SUBSET {m \in ms : status[m] = "acking"} :
          pending' = pending \ as

\* Mutant: the timeout counts an error besides the one of the cancellation.
TimeoutCountedTwice(w, m) ==
    /\ Running(w, m) /\ status[m] \in Processing
    /\ CutOff({m})
    /\ To(m, "failed")
    /\ total' = [total EXCEPT ![w] = @ + 2]
    /\ errors' = [errors EXCEPT ![w] = @ + 2]
    /\ UNCHANGED starts

\* Mutant: the timeout covers the handler and not the acknowledge.
TimeoutOfSteps(w, m) ==
    /\ Running(w, m) /\ status[m] \in Processing \ {"acking"}
    /\ CutOff({m})
    /\ To(m, "failed") /\ Count(w, TRUE)
    /\ UNCHANGED starts

\* wait_for cancels the processing, which counts one error.
Timeout(w, m) ==
    /\ Running(w, m) /\ status[m] \in Processing
    /\ CutOff({m})
    /\ To(m, "failed") /\ Count(w, TRUE)
    /\ UNCHANGED starts

-----------------------------------------------------------------------------
(* Cancellation of the loop and crash of its process                       *)

Live(w) == {m \in batch[w] : status[m] \in Processing}

\* The task of the loop is cancelled (AppEngine.stop after its grace time).
\* Events that have started fail, those that were only read vanish.
Cancel(w) ==
    /\ loop[w] \in Active
    /\ CutOff(Live(w))
    /\ status' = [m \in Messages |->
          IF m \in Live(w) THEN "failed" ELSE Dropped(w, <<>>)[m]]
    /\ EndLoop(w, "broken")
    /\ UNCHANGED <<stream, kind, starts>>

Crash(w) ==
    /\ loop[w] \in Active
    /\ CutOff(Live(w))
    /\ status' = [m \in Messages |->
          IF m \in Live(w) THEN "lost" ELSE Dropped(w, <<>>)[m]]
    /\ EndLoop(w, "broken")
    /\ UNCHANGED <<stream, kind, starts>>

-----------------------------------------------------------------------------
Settle(w, m) == FlushDone(w, m) \/ Executed(w, m) \/ Timeout(w, m)

Event(w, m) ==
    \/ Start(w, m) \/ Flush(w, m) \/ StepFails(w, m) \/ Settle(w, m)
    \/ \E taken \in BOOLEAN : Ack(w, m, taken)
    \/ \E o \in 1..Outputs : OutputWritten(w, m, o) \/ OutputFails(w, m, o)

ReadReturns(w) == Read(w) \/ ReadRaises(w)

Next ==
    \/ \E m \in Messages, q \in QueueNames, k \in Kinds : Publish(m, q, k)
    \/ \E w \in Workers :
          \/ \E max \in Limits, swe \in BOOLEAN : StartLoop(w, max, swe)
          \/ SignalStop(w) \/ Setup(w) \/ ReadReturns(w) \/ ReadFails(w)
          \/ EndCycle(w) \/ Cancel(w) \/ Crash(w)
          \/ \E m \in Messages : Event(w, m)
    \/ \E m \in Messages, o \in 1..Outputs, how \in {"written", "failed"} :
          OrphanWriteEnds(m, o, how)

Safety == Init /\ [][Next]_vars

\* A read blocks no longer than its timeout, the processing of an event no
\* longer than its own, and what is ready runs.  The setup ends when the
\* loop is told to stop; otherwise it may wait for the broker for ever.
Spec ==
    /\ Safety
    /\ \A w \in Workers :
          /\ WF_vars(Setup(w) /\ ~held[w])
          /\ WF_vars(ReadReturns(w)) /\ WF_vars(EndCycle(w))
          /\ \A m \in Messages :
                WF_vars(Start(w, m)) /\ WF_vars(Timeout(w, m))

-----------------------------------------------------------------------------
(* Properties                                                              *)

\* Every variable has its type, and an entry is processed only by a loop that
\* is processing.
TypeOK ==
    /\ stream \in [QueueNames -> Seq(Messages)]
    /\ pending \subseteq Messages
    /\ kind \in [Messages -> Kinds]
    /\ status \in [Messages -> Statuses]
    /\ starts \in [Messages -> Nat]
    /\ out \in [Messages -> [1..Outputs -> OutputStates]]
    /\ loop \in [Workers -> Active \cup Ends]
    /\ held \in [Workers -> BOOLEAN]
    /\ qi \in [Workers -> 1..Len(Queues)]
    /\ batch \in [Workers -> SUBSET Messages]
    /\ limit \in [Workers -> 0..BatchSize]
    /\ max_events \in [Workers -> Limits \cup {0}]
    /\ stop_when_empty \in [Workers -> BOOLEAN]
    /\ total \in [Workers -> Nat] /\ errors \in [Workers -> Nat]
    /\ failures \in [Workers -> Nat]
    /\ seen \in [Workers -> SUBSET Messages]
    /\ \A m \in Messages : status[m] \in Processing =>
          \E w \in Workers : Running(w, m)

\* An entry leaves the pending list only when every output of its event was
\* written: neither a timeout in the middle of the acknowledge, nor a
\* cancellation, a crash or a failed write of a batch ever acknowledges an
\* event whose results are incomplete (_execute_event, _process_stream_event).
AcknowledgedIsComplete ==
    \A m \in Acknowledged : \A o \in 1..Outputs : out[m][o] = "written"

\* No entry is handled twice, by whichever workers, restarts and crashes: at
\* most once, since the loops never ask for the entries that are pending.
HandledAtMostOnce == \A m \in Messages : starts[m] <= 1

\* The statistics of a loop, which also drive max_events, count what it
\* consumed exactly once each: events done, failed, timed out or cancelled
\* while they were processed, entries of unknown type, and failed reads.
Consumed(w, ss) == Cardinality({m \in seen[w] : status[m] \in ss})
StatsAreExact ==
    \A w \in Workers : loop[w] \in Active =>
        /\ total[w] = failures[w] + Consumed(w, Settled)
        /\ errors[w] = failures[w] + Consumed(w, {"failed", "unknown"})

\* A loop that ends by itself (told to stop, limit reached or stream empty)
\* leaves nothing behind: whatever was delivered to it has been processed,
\* apart from entries whose delivery the broker never reported.
NormalEndLosesNothing ==
    [][\A w \in Workers : loop[w] \in Active /\ loop'[w] = "ended" =>
          \A m \in seen[w] :
             \/ status[m] \in Settled
             \/ status[m] = "lost" /\ failures[w] > 0]_vars

\* "optional limit for number of events to consume" (read_stream): a loop with
\* max_events starts the handler for no more events than that.  The cycle is
\* to read "always starting from the first queue and stopping when batch_size
\* is reached" (_read_stream_cycle), but it reads up to batch_size entries
\* from each of its queues: run max_events shows it broken.
MaxEventsIsALimit ==
    \A w \in Workers : max_events[w] > 0 =>
        Cardinality({m \in seen[w] : starts[m] > 0}) <= max_events[w]

\* A loop that was told to stop ends, whatever the broker and the handlers do.
StopEnds == \A w \in Workers :
    loop[w] \in Active /\ ~held[w] ~> loop[w] \notin Active

\* What was delivered to a loop is settled or lost in the end: no event stays
\* half processed (timeouts of _process_stream_event_with_timeout).
EventsSettle == \A m \in Messages :
    status[m] \in {"batched"} \cup Processing
        ~> status[m] \in Settled \cup {"lost"}
=============================================================================
