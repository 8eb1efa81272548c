--------------------------- MODULE EventLifecycle ---------------------------
(***************************************************************************)
(* How an application engine starts and stops its background events: the   *)
(* tasks, the locks and the shutdown of class AppEngine in                 *)
(* engine/src/hopeit/server/engine.py.                                     *)
(*                                                                         *)
(* A STREAM event is a read loop, a SERVICE event runs the generator the   *)
(* user wrote.  Each runs as one asyncio task.  The lock _running[e] is    *)
(* the stop signal: the loop goes on while its lock is held, and           *)
(* stop_event releases it.  The management routes start and stop events at *)
(* any time; server shutdown stops the engine, possibly more than once and *)
(* at the same time (stop_server and the cleanup hook of web.py).          *)
(*                                                                         *)
(* A step is what runs between two awaits.  What a read loop reads and     *)
(* processes is StreamConsumer; here a cycle is one step.                  *)
(***************************************************************************)
EXTENDS Naturals, Sequences, SequencesExt

CONSTANTS
    Streams,     \* names of STREAM events
    Services,    \* names of SERVICE events
    Tasks,       \* bound: identities of tasks, reused once a task is gone
    NoTask,      \* _event_tasks.get(e) is None
    Stoppers     \* callers of AppEngine.stop

ASSUME EventsAssumption == Streams \cap Services = {} /\ Streams \cup Services # {}
ASSUME TasksAssumption == NoTask \notin Tasks

Events == Streams \cup Services

VARIABLES
    running,      \* _running[e].locked()
    event_tasks,  \* the task registered for an event
    event,        \* the event a task was created for
    phase,        \* where a task is
    cancelling,   \* task.cancel() was called and has not landed
    stopping,     \* _stopping
    stopped,      \* _stopped
    stopper,      \* where each call of stop is
    stop_queue,   \* FIFO of the calls that wait for _stop_lock
    waited,       \* the tasks that call waits for
    manager,      \* the stream manager: open or closed
    connections   \* the client connections of the app: open or closed

tasks == <<event, phase, cancelling>>
engine == <<stopping, stopped>>
resources == <<manager, connections>>
shutdown == <<stopping, stopped, stopper, stop_queue, waited, manager,
              connections>>
vars == <<running, event_tasks, event, phase, cancelling, stopping, stopped,
          stopper, stop_queue, waited, manager, connections>>

StreamPhases == {"delay", "setup", "cycle"}
ServicePhases == {"delay", "check", "working", "executing"}
Phases == {"none", "created", "done"} \cup StreamPhases \cup ServicePhases
StopPhases == {"idle", "waiting", "draining", "gathering", "closing",
               "disconnecting", "failed", "returned"}

IsStream(t) == event[t] \in Streams
Alive(t) == phase[t] \notin {"none", "done"}

\* The phases in which a task has acquired the lock of its event.  A service
\* takes it before its start delay, a stream after.
Acquired(t) ==
    \/ phase[t] \in {"setup", "cycle", "check", "working", "executing"}
    \/ phase[t] = "delay" /\ ~IsStream(t)

\* is_running; task.done() is TRUE from the moment the coroutine returns.
IsRunning(e) ==
    running[e] \/ (event_tasks[e] # NoTask /\ Alive(event_tasks[e]))

InStop(s) ==
    stopper[s] \in {"draining", "gathering", "closing", "disconnecting"}
StopLockHeld == \E s \in Stoppers : InStop(s)

AnyEvent == CHOOSE e \in Events : TRUE      \* of a task that is not used

Init ==
    /\ running = [e \in Events |-> FALSE]
    /\ event_tasks = [e \in Events |-> NoTask]
    /\ event = [t \in Tasks |-> AnyEvent]
    /\ phase = [t \in Tasks |-> "none"]
    /\ cancelling = [t \in Tasks |-> FALSE]
    /\ stopping = FALSE /\ stopped = FALSE
    /\ stopper = [s \in Stoppers |-> "idle"]
    /\ stop_queue = <<>>
    /\ waited = [s \in Stoppers |-> {}]
    /\ manager = "open" /\ connections = "open"

-----------------------------------------------------------------------------
(* Starting and stopping one event                                         *)

\* asyncio.create_task: an identity that no task has.
Unused == {t \in Tasks : phase[t] = "none"}
NewTask == CHOOSE t \in Unused : TRUE

\* start_event: the guards are its two RuntimeErrors.
StartEvent(e) ==
    /\ ~stopping
    /\ ~IsRunning(e)
    /\ Unused # {}
    /\ event' = [event EXCEPT ![NewTask] = e]
    /\ phase' = [phase EXCEPT ![NewTask] = "created"]
    /\ event_tasks' = [event_tasks EXCEPT ![e] = NewTask]
    /\ UNCHANGED <<running, cancelling, shutdown>>

\* Mutant: stop_event cancels whatever task there is.
CancelledAlways(E) ==
    {t \in Tasks : \E e \in E : event_tasks[e] = t /\ Alive(t)}

\* The tasks stop_event cancels when it stops the events E: those that do
\* not hold their lock, because they have not started or were told already.
Cancelled(E) ==
    {t \in Tasks : \E e \in E :
        ~running[e] /\ event_tasks[e] = t /\ Alive(t)}

SignalStop(E) ==
    /\ running' = [e \in Events |-> running[e] /\ e \notin E]
    /\ cancelling' = [t \in Tasks |-> cancelling[t] \/ t \in Cancelled(E)]

StopEvent(e) ==
    /\ IsRunning(e)
    /\ SignalStop({e})
    /\ UNCHANGED <<event_tasks, event, phase, shutdown>>

\* Mutant: the registration is deleted whichever task it names.
EventTaskDoneUnchecked(t) ==
    /\ phase[t] = "done"
    /\ phase' = [phase EXCEPT ![t] = "none"]
    /\ event_tasks' = [event_tasks EXCEPT ![event[t]] = NoTask]
    /\ event' = [event EXCEPT ![t] = AnyEvent]
    /\ cancelling' = [cancelling EXCEPT ![t] = FALSE]
    /\ UNCHANGED <<running, shutdown>>

\* _event_task_done, run by the event loop after the task has ended; then
\* nothing refers to the task any more.
EventTaskDone(t) ==
    /\ phase[t] = "done"
    /\ phase' = [phase EXCEPT ![t] = "none"]
    /\ event_tasks' = IF event_tasks[event[t]] = t
                        THEN [event_tasks EXCEPT ![event[t]] = NoTask]
                        ELSE event_tasks
    /\ event' = [event EXCEPT ![t] = AnyEvent]
    /\ cancelling' = [cancelling EXCEPT ![t] = FALSE]
    /\ UNCHANGED <<running, shutdown>>

-----------------------------------------------------------------------------
(* The tasks                                                               *)

Move(t, from, to) ==
    /\ phase[t] = from
    /\ phase' = [phase EXCEPT ![t] = to]
    /\ UNCHANGED <<event_tasks, event, cancelling, shutdown>>

Continue(t, from, to) ==
    /\ ~cancelling[t]
    /\ Move(t, from, to)
    /\ UNCHANGED running

\* Mutant: a finally clause is missing.
FinishHolding(t) ==
    /\ phase' = [phase EXCEPT ![t] = "done"]
    /\ UNCHANGED <<running, event_tasks, event, cancelling, shutdown>>

\* The finally clauses of read_stream and service_loop: release the lock if
\* it was acquired and nobody has released it.
Finish(t) ==
    /\ phase' = [phase EXCEPT ![t] = "done"]
    /\ running' = IF Acquired(t) THEN [running EXCEPT ![event[t]] = FALSE]
                                 ELSE running
    /\ UNCHANGED <<event_tasks, event, cancelling, shutdown>>

Acquire(t, from, to) ==
    /\ ~cancelling[t]
    /\ ~running[event[t]]
    /\ Move(t, from, to)
    /\ running' = [running EXCEPT ![event[t]] = TRUE]

\* The start delay may be configured to zero.
StreamDelay(t) == IsStream(t) /\ Continue(t, "created", "delay")

StreamBegin(t) ==
    /\ IsStream(t)
    /\ Acquire(t, "created", "setup") \/ Acquire(t, "delay", "setup")

\* ensure_consumer_group is tried again while the lock is held; it may fail
\* for as long as the broker is down.
StreamReady(t) == running[event[t]] /\ Continue(t, "setup", "cycle")

\* Mutant: the retry loop does not look at the lock.
StreamSetupRetries(t) ==
    /\ phase[t] = "setup" /\ ~cancelling[t]
    /\ ~running[event[t]]
    /\ UNCHANGED vars

StreamSetupStops(t) ==
    /\ phase[t] = "setup" /\ ~cancelling[t]
    /\ ~running[event[t]]
    /\ Finish(t)

\* A cycle ends; every cycle ends, by the read and the processing timeouts.
\* The loop condition is tested before the next one.
StreamCycle(t) ==
    /\ phase[t] = "cycle" /\ ~cancelling[t]
    /\ ~running[event[t]]
    /\ Finish(t)

ServiceBegin(t) ==
    /\ ~IsStream(t)
    /\ Acquire(t, "created", "delay") \/ Acquire(t, "created", "check")

\* After the delay the generator is only entered if the lock is still held.
ServiceDelayEnds(t) ==
    /\ ~IsStream(t) /\ phase[t] = "delay" /\ ~cancelling[t]
    /\ IF running[event[t]] THEN Continue(t, "delay", "check") ELSE Finish(t)

\* service_running, as the loop of the user's generator evaluates it.
ServiceRunning(e) == IsRunning(e)

\* The documented generator: while service_running(context): await, and
\* yield from time to time.
GeneratorCheck(t) ==
    /\ phase[t] = "check" /\ ~cancelling[t]
    /\ IF ServiceRunning(event[t]) THEN Continue(t, "check", "working")
                                   ELSE Finish(t)

GeneratorIdles(t) == Continue(t, "working", "check")

GeneratorYields(t) == Continue(t, "working", "executing")

\* The payload is executed, or its execution failed or timed out.  Up to
\* Python 3.11 wait_for may lose a cancellation that comes with the result.
ServiceExecuted(t) ==
    /\ phase[t] = "executing"
    /\ IF running[event[t]] THEN Continue(t, "executing", "check")
                            ELSE Finish(t)

\* The task ends by itself: its generator returns, or it raises.
TaskEnds(t) ==
    /\ phase[t] \in (StreamPhases \cup ServicePhases) \ {"executing"}
    /\ ~cancelling[t]
    /\ Finish(t)

CancelLands(t) == Alive(t) /\ cancelling[t] /\ Finish(t)

-----------------------------------------------------------------------------
(* AppEngine.stop                                                          *)

\* The part of stop up to its first await: signal every running event.
EnterStop(s) ==
    IF stopped
      THEN /\ stopper' = [stopper EXCEPT ![s] = "returned"]
           /\ UNCHANGED <<running, cancelling, stopping, waited>>
      ELSE LET ts == {event_tasks[e] : e \in Events} \ {NoTask} IN
           /\ stopping' = TRUE
           /\ waited' = [waited EXCEPT ![s] = ts]
           /\ SignalStop({e \in Events : IsRunning(e)})
           /\ stopper' = [stopper EXCEPT
                ![s] = IF ts = {} THEN "closing" ELSE "draining"]

\* asyncio.Lock lets nobody pass those that wait for it.
CallStop(s) ==
    /\ stopper[s] \in {"idle", "failed", "returned"}
    /\ IF StopLockHeld \/ stop_queue # <<>>
         THEN /\ stopper' = [stopper EXCEPT ![s] = "waiting"]
              /\ stop_queue' = Append(stop_queue, s)
              /\ UNCHANGED <<running, cancelling, stopping, waited>>
         ELSE EnterStop(s) /\ UNCHANGED stop_queue
    /\ UNCHANGED <<event_tasks, event, phase, stopped, resources>>

AcquireStopLock(s) ==
    /\ stop_queue # <<>> /\ s = Head(stop_queue)
    /\ ~StopLockHeld
    /\ EnterStop(s)
    /\ stop_queue' = Tail(stop_queue)
    /\ UNCHANGED <<event_tasks, event, phase, stopped, resources>>

\* A waited task is seen as done after its done callbacks, ours included.
AllGone(s) == \A t \in waited[s] : phase[t] = "none"

StopStep(s, from, to) ==
    /\ stopper[s] = from
    /\ stopper' = [stopper EXCEPT ![s] = to]
    /\ waited' = IF to \in {"failed", "returned"}
                   THEN [waited EXCEPT ![s] = {}] ELSE waited
    /\ UNCHANGED <<running, event_tasks, event, phase, stopping, stop_queue>>

\* Mutant: there is no grace time, stop waits for as long as it takes.
DrainWaits(s) ==
    /\ AllGone(s)
    /\ StopStep(s, "draining", "gathering")
    /\ UNCHANGED <<cancelling, stopped, resources>>

\* asyncio.wait returns: every task is gone, or the grace time is over and
\* the pending ones are cancelled.
DrainEnds(s) ==
    /\ StopStep(s, "draining", "gathering")
    /\ cancelling' = [t \in Tasks |->
          cancelling[t] \/ (t \in waited[s] /\ Alive(t))]
    /\ UNCHANGED <<stopped, resources>>

\* Mutant: the cancelled tasks are not awaited.
GatheredAtOnce(s) ==
    /\ StopStep(s, "gathering", "closing")
    /\ UNCHANGED <<cancelling, stopped, resources>>

Gathered(s) ==
    /\ AllGone(s)
    /\ StopStep(s, "gathering", "closing")
    /\ UNCHANGED <<cancelling, stopped, resources>>

CloseManager(s) ==
    /\ StopStep(s, "closing", "disconnecting")
    /\ manager' = "closed"
    /\ UNCHANGED <<cancelling, stopped, connections>>

StopConnections(s) ==
    /\ StopStep(s, "disconnecting", "returned")
    /\ connections' = "closed"
    /\ stopped' = TRUE
    /\ UNCHANGED <<cancelling, manager>>

\* stop raises: closing a resource fails, or the caller of stop is cancelled.
\* Cancelling the gather cancels the tasks it waits for.
StopFails(s) ==
    /\ \E from \in {"draining", "gathering", "closing", "disconnecting"} :
          /\ StopStep(s, from, "failed")
          /\ cancelling' = [t \in Tasks |->
                cancelling[t] \/ ( /\ from = "gathering"
                                   /\ t \in waited[s] /\ Alive(t) )]
    /\ UNCHANGED <<stopped, resources>>

\* The caller is cancelled while it waits for _stop_lock.
StopGivesUp(s) ==
    /\ stopper[s] = "waiting"
    /\ stopper' = [stopper EXCEPT ![s] = "failed"]
    /\ \E i \in DOMAIN stop_queue :
          stop_queue[i] = s /\ stop_queue' = RemoveAt(stop_queue, i)
    /\ UNCHANGED <<running, tasks, event_tasks, engine, waited, resources>>

-----------------------------------------------------------------------------
StreamStep(t) ==
    StreamDelay(t) \/ StreamBegin(t) \/ StreamSetupStops(t) \/ StreamCycle(t)

ServiceStep(t) ==
    ServiceBegin(t) \/ ServiceDelayEnds(t) \/ GeneratorCheck(t)
        \/ ServiceExecuted(t)

Generator(t) == GeneratorIdles(t) \/ GeneratorYields(t)

StopperStep(s) ==
    AcquireStopLock(s) \/ DrainEnds(s) \/ Gathered(s) \/ CloseManager(s)
        \/ StopConnections(s)

Next ==
    \/ \E e \in Events : StartEvent(e) \/ StopEvent(e)
    \/ \E t \in Tasks :
          \/ StreamStep(t) \/ StreamReady(t)
          \/ ServiceStep(t) \/ Generator(t)
          \/ TaskEnds(t) \/ CancelLands(t) \/ EventTaskDone(t)
    \/ \E s \in Stoppers : 
          \/ CallStop(s) \/ StopperStep(s)
          \/ StopFails(s) \/ StopGivesUp(s)

Safety == Init /\ [][Next]_vars

\* The event loop runs ready tasks and callbacks, timers fire, processing has
\* a timeout, and a cancellation lands.  The user's generator goes on, but
\* need not ever yield; nobody has to start or stop anything.
Spec ==
    /\ Safety
    /\ \A t \in Tasks :
          /\ WF_vars(StreamStep(t)) /\ WF_vars(ServiceStep(t))
          /\ WF_vars(Generator(t))
          /\ WF_vars(CancelLands(t)) /\ WF_vars(EventTaskDone(t))
    /\ \A s \in Stoppers : WF_vars(StopperStep(s))

-----------------------------------------------------------------------------
(* Properties                                                              *)

\* Every variable has its type, and a task is in a phase of its own kind.
TypeOK ==
    /\ running \in [Events -> BOOLEAN]
    /\ event_tasks \in [Events -> Tasks \cup {NoTask}]
    /\ event \in [Tasks -> Events]
    /\ phase \in [Tasks -> Phases]
    /\ cancelling \in [Tasks -> BOOLEAN]
    /\ stopping \in BOOLEAN /\ stopped \in BOOLEAN
    /\ stopper \in [Stoppers -> StopPhases]
    /\ stop_queue \in Seq(Stoppers)
    /\ waited \in [Stoppers -> SUBSET Tasks]
    /\ manager \in {"open", "closed"} /\ connections \in {"open", "closed"}
    /\ \A t \in Tasks :
          Alive(t) => phase[t] \in {"created"} \cup
              (IF IsStream(t) THEN StreamPhases ELSE ServicePhases)

\* The task of an event that has not ended is the one registered for it: so
\* an event never runs twice, and stop finds every task there is to wait
\* for, also when an event is started again between the end of its old task
\* and the callback that unregisters it (start_event, _event_task_done).
LiveTaskOwned == \A t \in Tasks : Alive(t) => event_tasks[event[t]] = t

\* A lock is held only on behalf of a living task of its event that acquired
\* it: whichever way a task ends, the event can be started again, and a task
\* that begins never finds the lock taken (the asserts of read_stream and
\* service_loop never fire for tasks of start_event).
LockHeldByLiveTask ==
    \A e \in Events : running[e] =>
        \E t \in Tasks : event_tasks[e] = t /\ event[t] = e /\ Acquired(t)

\* The stream manager and the connections are closed only when no task is
\* alive that could use them, whatever stops and starts came before and
\* however often stop was called or failed (AppEngine.stop).
ResourcesOutliveTasks ==
    manager = "closed" \/ connections = "closed" =>
        \A t \in Tasks : ~Alive(t)

\* Work in progress is never cut short by the first stop signal: a task is
\* cancelled only when its lock has not been acquired or was released before,
\* so an event first gets the chance to finish what it does (stop_event).
NoWorkCutShort ==
    [][\A t \in Tasks :
          Alive(t) /\ ~cancelling[t] /\ cancelling'[t] =>
              ~running[event[t]]]_vars

\* A stream event that was told to stop, in whatever phase, ends.
ToldToStop(t) ==
    Alive(t) /\ (cancelling[t] \/ (Acquired(t) /\ ~running[event[t]]))
StreamStopEnds ==
    \A t \in Tasks : IsStream(t) /\ ToldToStop(t) ~> ~Alive(t)

\* Every call of stop that entered the lock or waits for it comes back, even
\* if a service never yields again or the broker is down (AppEngine.stop).
StopComesBack ==
    \A s \in Stoppers :
        stopper[s] \notin {"idle", "failed", "returned"}
            ~> stopper[s] \in {"failed", "returned"}

\* docs/source/release-notes.rst, 0.19.0: a loop on service_running allows a
\* service "to be gracefully stopped when the service or server is stopped".
\* A service that was told to stop ends.
ServiceStopEnds ==
    \A t \in Tasks : ~IsStream(t) /\ ToldToStop(t) ~> ~Alive(t)
=============================================================================
