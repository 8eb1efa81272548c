------------------------ MODULE EventLifecycleProofs ------------------------
(***************************************************************************)
(* Proofs about EventLifecycle, for any events, any number of task         *)
(* identities and any number of concurrent calls of stop.                  *)
(***************************************************************************)
EXTENDS EventLifecycle, TLAPS, SequenceTheorems

USE DEF tasks, engine, resources, shutdown

-----------------------------------------------------------------------------
(* The inductive invariant                                                 *)

\* Types proper, without the last conjunct of TypeOK.
Types ==
    /\ running \in [Events -> BOOLEAN]
    /\ event_tasks \in [Events -> Tasks \cup {NoTask}]
    /\ event \in [Tasks -> Events]
    /\ phase \in [Tasks -> Phases]
    /\ cancelling \in [Tasks -> BOOLEAN]
    /\ stopping \in BOOLEAN /\ stopped \in BOOLEAN
    /\ stopper \in [Stoppers -> StopPhases]
    /\ stop_queue \in Seq(Stoppers)
    /\ waited \in [Stoppers -> SUBSET Tasks]
    /\ manager \in {"open", "closed"} /\ connections \in {"open", "closed"}

PhaseOfKind == \A t \in Tasks :
    Alive(t) => phase[t] \in {"created"} \cup
        (IF IsStream(t) THEN StreamPhases ELSE ServicePhases)

\* Once stop has been called no lock is held, and every task that is left
\* was told to end: it has lost its lock or is being cancelled.  So none
\* takes a lock any more.
StoppingQuiet ==
    stopping =>
        /\ \A e \in Events : ~running[e]
        /\ \A t \in Tasks : Alive(t) => cancelling[t] \/ Acquired(t)

\* A call of stop knows every living task before it has waited for them, and
\* there is none when it goes on to close what they use.
StopperKnows == \A s \in Stoppers :
    /\ stopper[s] \in {"draining", "gathering"} =>
          stopping /\ \A t \in Tasks : Alive(t) => t \in waited[s]
    /\ stopper[s] \in {"closing", "disconnecting"} =>
          stopping /\ \A t \in Tasks : ~Alive(t)

ClosedIsQuiet ==
    stopped \/ manager = "closed" \/ connections = "closed" =>
        stopping /\ \A t \in Tasks : ~Alive(t)

Owned == LiveTaskOwned /\ LockHeldByLiveTask
Quiet == StoppingQuiet /\ StopperKnows /\ ClosedIsQuiet
Inv == Types /\ PhaseOfKind /\ Owned /\ Quiet

-----------------------------------------------------------------------------
(* Lemmas                                                                  *)

LEMMA NewTaskUnused ==
    ASSUME Unused # {}
    PROVE  NewTask \in Tasks /\ phase[NewTask] = "none"
BY DEF NewTask, Unused

\* Taking an element out of a sequence leaves a sequence of the same set
\* (the queue of _stop_lock, when the caller of stop is cancelled).
LEMMA RemoveAtType ==
    ASSUME NEW S, NEW q \in Seq(S), NEW i \in DOMAIN q
    PROVE  RemoveAt(q, i) \in Seq(S)
<1>1. i \in 1..Len(q) /\ Len(q) \in Nat
    OBVIOUS
<1>2. SubSeq(q, 1, i - 1) \in Seq(S)
    BY <1>1, SubSeqProperties
<1>3. SubSeq(q, i + 1, Len(q)) \in Seq(S)
    BY <1>1, SubSeqProperties
<1> QED
    BY <1>2, <1>3, ConcatProperties DEF RemoveAt

\* Ending a task: of the living tasks one is gone, its lock is free, and all
\* else stays.
LEMMA FinishKeeps ==
    ASSUME Inv, NEW t \in Tasks, Alive(t), Finish(t)
    PROVE  Inv'
<1> USE DEF Inv
<1>1. Types'
    BY DEF Finish, Types, Phases
<1>2. PhaseOfKind'
    BY DEF Finish, Types, PhaseOfKind, Alive, IsStream
<1>3. LiveTaskOwned'
    BY DEF Finish, Types, Owned, LiveTaskOwned, Alive
<1>4. LockHeldByLiveTask'
    <2> SUFFICES ASSUME NEW e \in Events, running'[e]
                 PROVE  \E u \in Tasks : event_tasks'[e] = u
                            /\ event'[u] = e /\ Acquired(u)'
        BY DEF LockHeldByLiveTask
    <2>1. running[e] /\ ~(Acquired(t) /\ event[t] = e)
        BY DEF Finish, Types
    <2>2. PICK u \in Tasks : event_tasks[e] = u /\ event[u] = e /\ Acquired(u)
        BY <2>1 DEF Owned, LockHeldByLiveTask
    <2>3. u # t
        BY <2>1, <2>2
    <2> QED
        BY <2>2, <2>3 DEF Finish, Types, Acquired, IsStream
<1>5. Quiet'
    <2>1. StoppingQuiet'
        BY DEF Finish, Types, Quiet, StoppingQuiet, Alive, Acquired, IsStream
    <2>2. StopperKnows'
        BY DEF Finish, Types, Quiet, StopperKnows, Alive
    <2>3. ClosedIsQuiet'
        BY DEF Finish, Types, Quiet, ClosedIsQuiet, Alive
    <2> QED
        BY <2>1, <2>2, <2>3 DEF Quiet
<1> QED
    BY <1>1, <1>2, <1>3, <1>4, <1>5 DEF Owned

\* A living task that goes on to another phase of its kind without touching
\* its lock, and still has it if it had it.
LEMMA ContinueKeeps ==
    ASSUME Inv, NEW t \in Tasks, Alive(t), ~cancelling[t],
           NEW from \in Phases, NEW to \in Phases, Continue(t, from, to),
           to \in {"created"} \cup
               (IF IsStream(t) THEN StreamPhases ELSE ServicePhases),
           Acquired(t) => Acquired(t)'
    PROVE  Inv'
<1> USE DEF Inv, Continue, Move
<1>1. Types'
    BY DEF Types
<1>2. Alive(t)' /\ \A u \in Tasks \ {t} : (Alive(u)' <=> Alive(u))
    BY DEF Types, Alive, StreamPhases, ServicePhases
<1>3. \A u \in Tasks : (IsStream(u)' <=> IsStream(u))
                       /\ (Acquired(u) => Acquired(u)')
    BY DEF Types, Acquired, IsStream
<1>4. PhaseOfKind'
    BY <1>2 DEF Types, PhaseOfKind, IsStream
<1>5. LiveTaskOwned'
    BY <1>2 DEF Types, Owned, LiveTaskOwned
<1>6. LockHeldByLiveTask'
    BY <1>3 DEF Types, Owned, LockHeldByLiveTask
<1>7. StoppingQuiet'
    BY <1>2, <1>3 DEF Types, Quiet, StoppingQuiet
<1>8. StopperKnows'
    BY <1>2 DEF Types, Quiet, StopperKnows
<1>9. ClosedIsQuiet'
    BY <1>2 DEF Types, Quiet, ClosedIsQuiet
<1> QED
    BY <1>1, <1>4, <1>5, <1>6, <1>7, <1>8, <1>9 DEF Owned, Quiet

\* Taking the lock: the task is the one registered for its event, and stop
\* has not been called, since it would have told this task to end.
LEMMA AcquireKeeps ==
    ASSUME Inv, NEW t \in Tasks, Alive(t), ~Acquired(t),
           NEW from \in Phases, NEW to \in Phases, Acquire(t, from, to),
           to \in IF IsStream(t) THEN StreamPhases ELSE ServicePhases,
           Acquired(t)'
    PROVE  Inv'
<1> USE DEF Inv, Acquire, Move
<1>1. Types'
    BY DEF Types
<1>2. Alive(t)' /\ \A u \in Tasks \ {t} : (Alive(u)' <=> Alive(u))
    BY DEF Types, Alive, StreamPhases, ServicePhases
<1>3. \A u \in Tasks : (IsStream(u)' <=> IsStream(u))
                       /\ (Acquired(u) => Acquired(u)')
    BY DEF Types, Acquired, IsStream
<1>4. PhaseOfKind'
    BY <1>2 DEF Types, PhaseOfKind, IsStream
<1>5. LiveTaskOwned'
    BY <1>2 DEF Types, Owned, LiveTaskOwned
<1>6. LockHeldByLiveTask'
    <2> SUFFICES ASSUME NEW e \in Events, running'[e]
                 PROVE  \E u \in Tasks : event_tasks'[e] = u
                            /\ event'[u] = e /\ Acquired(u)'
        BY DEF LockHeldByLiveTask
    <2>1. CASE e = event[t]
        BY <2>1, <1>5, <1>2 DEF LiveTaskOwned
    <2>2. CASE e # event[t]
        <3>1. running[e]
            BY <2>2 DEF Types
        <3>2. PICK u \in Tasks : event_tasks[e] = u /\ event[u] = e
                                  /\ Acquired(u)
            BY <3>1 DEF Owned, LockHeldByLiveTask
        <3> QED
            BY <3>2, <1>3
    <2> QED
        BY <2>1, <2>2
<1>7. ~stopping
    BY DEF Quiet, StoppingQuiet
<1>8. Quiet'
    BY <1>7 DEF Quiet, StoppingQuiet, StopperKnows, ClosedIsQuiet, Types
<1> QED
    BY <1>1, <1>4, <1>5, <1>6, <1>8 DEF Owned

-----------------------------------------------------------------------------
(* Every action keeps the invariant                                        *)

LEMMA StreamInv ==
    ASSUME Inv, NEW t \in Tasks, StreamStep(t) \/ StreamReady(t)
    PROVE  Inv'
<1> USE DEF Alive, Acquired, Phases, StreamPhases, ServicePhases, IsStream
<1> Types /\ PhaseOfKind
    BY DEF Inv
<1>1. CASE StreamDelay(t)
    <2>1. /\ Alive(t) /\ ~cancelling[t] /\ IsStream(t)
          /\ Continue(t, "created", "delay")
          /\ Acquired(t) => Acquired(t)'
        BY <1>1 DEF StreamDelay, Continue, Move, Types
    <2> QED
        BY <2>1, ContinueKeeps DEF Inv
<1>2. CASE StreamBegin(t)
    <2>1. PICK from \in {"created", "delay"} : Acquire(t, from, "setup")
        BY <1>2 DEF StreamBegin
    <2>2. /\ Alive(t) /\ IsStream(t) /\ ~Acquired(t) /\ Acquired(t)'
        BY <1>2, <2>1 DEF StreamBegin, Acquire, Move, Types
    <2> QED
        BY <2>1, <2>2, AcquireKeeps DEF Inv
<1>3. CASE StreamSetupStops(t)
    BY <1>3, FinishKeeps DEF StreamSetupStops
<1>4. CASE StreamCycle(t)
    BY <1>4, FinishKeeps DEF StreamCycle
<1>5. CASE StreamReady(t)
    <2>1. /\ Alive(t) /\ ~cancelling[t] /\ IsStream(t)
          /\ Continue(t, "setup", "cycle")
          /\ Acquired(t) => Acquired(t)'
        BY <1>5 DEF StreamReady, Continue, Move, Types, PhaseOfKind
    <2> QED
        BY <2>1, ContinueKeeps DEF Inv
<1> QED
    BY <1>1, <1>2, <1>3, <1>4, <1>5 DEF StreamStep

LEMMA ServiceContinues ==
    ASSUME Inv, NEW t \in Tasks,
           NEW from \in {"check", "working", "executing", "delay"},
           from = "delay" => ~IsStream(t),
           NEW to \in {"check", "working", "executing"},
           Continue(t, from, to)
    PROVE  Inv'
<1> USE DEF Alive, Acquired, Phases, StreamPhases, ServicePhases, IsStream
<1>1. /\ Alive(t) /\ ~cancelling[t] /\ ~IsStream(t)
      /\ Acquired(t) => Acquired(t)'
    BY DEF Continue, Move, Inv, Types, PhaseOfKind
<1> QED
    BY <1>1, ContinueKeeps

LEMMA ServiceInv ==
    ASSUME Inv, NEW t \in Tasks, ServiceStep(t) \/ Generator(t)
    PROVE  Inv'
<1> USE DEF Alive, Phases
<1>1. CASE ServiceBegin(t)
    <2>1. PICK to \in {"delay", "check"} : Acquire(t, "created", to)
        BY <1>1 DEF ServiceBegin
    <2>2. /\ Alive(t) /\ ~IsStream(t) /\ ~Acquired(t) /\ Acquired(t)'
          /\ to \in ServicePhases
        BY <1>1, <2>1 DEF ServiceBegin, Acquire, Move, Inv, Types,
            ServicePhases, Acquired, IsStream
    <2> QED
        BY <2>1, <2>2, AcquireKeeps
<1>2. CASE ServiceDelayEnds(t)
    BY <1>2, ServiceContinues, FinishKeeps DEF ServiceDelayEnds
<1>3. CASE GeneratorCheck(t)
    BY <1>3, ServiceContinues, FinishKeeps DEF GeneratorCheck
<1>4. CASE ServiceExecuted(t)
    BY <1>4, ServiceContinues, FinishKeeps DEF ServiceExecuted
<1>5. CASE Generator(t)
    BY <1>5, ServiceContinues DEF Generator, GeneratorIdles, GeneratorYields
<1> QED
    BY <1>1, <1>2, <1>3, <1>4, <1>5 DEF ServiceStep

LEMMA TaskEndsInv ==
    ASSUME Inv, NEW t \in Tasks, TaskEnds(t) \/ CancelLands(t)
    PROVE  Inv'
<1>1. Alive(t) /\ Finish(t)
    BY DEF TaskEnds, CancelLands, Alive, StreamPhases, ServicePhases
<1> QED
    BY <1>1, FinishKeeps

LEMMA EventTaskDoneInv ==
    ASSUME Inv, NEW t \in Tasks, EventTaskDone(t)
    PROVE  Inv'
<1> USE DEF Inv, EventTaskDone
<1>1. AnyEvent \in Events
    BY EventsAssumption DEF AnyEvent, Events
<1>2. Types'
    BY <1>1 DEF Types, Phases
<1>3. \A u \in Tasks : Alive(u)' <=> Alive(u)
    BY DEF Types, Alive
<1>4. \A u \in Tasks : Alive(u) => u # t /\ event'[u] = event[u]
                                    /\ phase'[u] = phase[u]
                                    /\ cancelling'[u] = cancelling[u]
    BY DEF Types, Alive
<1>5. \A u \in Tasks : Acquired(u) => Alive(u) /\ Acquired(u)'
    BY <1>4 DEF Types, Acquired, Alive, IsStream
<1>6. PhaseOfKind'
    BY <1>3, <1>4 DEF PhaseOfKind, IsStream
<1>7. LiveTaskOwned'
    BY <1>3, <1>4 DEF Types, Owned, LiveTaskOwned
<1>8. LockHeldByLiveTask'
    <2> SUFFICES ASSUME NEW e \in Events, running[e]
                 PROVE  \E u \in Tasks : event_tasks'[e] = u
                            /\ event'[u] = e /\ Acquired(u)'
        BY DEF LockHeldByLiveTask
    <2>1. PICK u \in Tasks : event_tasks[e] = u /\ event[u] = e /\ Acquired(u)
        BY DEF Owned, LockHeldByLiveTask
    <2>2. u # t /\ event'[u] = e /\ Acquired(u)'
        BY <2>1, <1>4, <1>5
    <2>3. event_tasks'[e] = u
        BY <2>1, <2>2 DEF Types
    <2> QED
        BY <2>2, <2>3
<1>9. Quiet'
    BY <1>3, <1>4, <1>5
       DEF Types, Quiet, StoppingQuiet, StopperKnows, ClosedIsQuiet
<1> QED
    BY <1>2, <1>6, <1>7, <1>8, <1>9 DEF Owned

\* The lock and the old task of an event that can be started are gone.
LEMMA StartEventInv ==
    ASSUME Inv, NEW e \in Events, StartEvent(e)
    PROVE  Inv'
<1> USE DEF Inv
<1>1. PICK n \in Tasks : n = NewTask /\ phase[n] = "none"
    BY NewTaskUnused DEF StartEvent
<1>2. /\ ~stopping /\ ~IsRunning(e)
      /\ event' = [event EXCEPT ![n] = e]
      /\ phase' = [phase EXCEPT ![n] = "created"]
      /\ event_tasks' = [event_tasks EXCEPT ![e] = n]
      /\ UNCHANGED <<running, cancelling, shutdown>>
    BY <1>1 DEF StartEvent
<1>3. Types'
    BY <1>1, <1>2 DEF Types, Phases
<1>4. \A u \in Tasks \ {n} : /\ Alive(u)' <=> Alive(u)
                             /\ event'[u] = event[u]
                             /\ phase'[u] = phase[u]
                             /\ Acquired(u)' <=> Acquired(u)
    BY <1>2 DEF Types, Alive, Acquired, IsStream
<1>5. PhaseOfKind'
    BY <1>1, <1>2, <1>4 DEF Types, PhaseOfKind, IsStream
<1>6. LiveTaskOwned'
    BY <1>1, <1>2, <1>4, TasksAssumption
       DEF Types, Owned, LiveTaskOwned, IsRunning
<1>7. LockHeldByLiveTask'
    <2>1. ~Acquired(n)
        BY <1>1 DEF Acquired
    <2>2. ~running[e]
        BY <1>2 DEF IsRunning
    <2> QED
        BY <1>1, <1>2, <1>4, <2>1, <2>2
           DEF Types, Owned, LockHeldByLiveTask
<1>8. Quiet'
    BY <1>2 DEF Types, Quiet, StoppingQuiet, StopperKnows, ClosedIsQuiet
<1> QED
    BY <1>3, <1>5, <1>6, <1>7, <1>8 DEF Owned

\* Signalling events to stop only releases locks and cancels tasks.
LEMMA SignalKeeps ==
    ASSUME Types, PhaseOfKind, Owned, NEW E \in SUBSET Events, SignalStop(E),
           UNCHANGED <<event_tasks, event, phase>>
    PROVE  /\ running' \in [Events -> BOOLEAN]
           /\ cancelling' \in [Tasks -> BOOLEAN]
           /\ PhaseOfKind' /\ Owned'
<1>1. running' \in [Events -> BOOLEAN] /\ cancelling' \in [Tasks -> BOOLEAN]
    BY DEF SignalStop, Types
<1>2. PhaseOfKind'
    BY DEF PhaseOfKind, Alive, IsStream
<1>3. LiveTaskOwned'
    BY DEF Owned, LiveTaskOwned, Alive
<1>4. LockHeldByLiveTask'
    BY DEF Types, Owned, LockHeldByLiveTask, SignalStop, Acquired, IsStream
<1> QED
    BY <1>1, <1>2, <1>3, <1>4 DEF Owned

LEMMA StopEventInv ==
    ASSUME Inv, NEW e \in Events, StopEvent(e)
    PROVE  Inv'
<1> USE DEF Inv
<1>1. /\ running' \in [Events -> BOOLEAN]
      /\ cancelling' \in [Tasks -> BOOLEAN]
      /\ PhaseOfKind' /\ Owned'
    BY SignalKeeps DEF StopEvent
<1>2. Types'
    BY <1>1 DEF StopEvent, Types
<1>3. StoppingQuiet'
    BY DEF StopEvent, SignalStop, Types, Quiet, StoppingQuiet, Alive,
           Acquired, IsStream
<1>4. StopperKnows' /\ ClosedIsQuiet'
    BY DEF StopEvent, Quiet, StopperKnows, ClosedIsQuiet, Alive
<1> QED
    BY <1>1, <1>2, <1>3, <1>4 DEF Quiet

-----------------------------------------------------------------------------
(* The shutdown of the engine                                              *)

\* The first part of stop leaves no lock, and no living task that was not
\* told to end; the call waits for all of them.
LEMMA EnterStopKeeps ==
    ASSUME Inv, NEW s \in Stoppers, EnterStop(s),
           stop_queue' \in Seq(Stoppers),
           UNCHANGED <<event_tasks, event, phase, stopped, resources>>
    PROVE  Inv'
<1> USE DEF Inv
<1>1. CASE stopped
    <2> USE <1>1 DEF EnterStop
    <2>1. Types'
        BY DEF Types, StopPhases
    <2>2. PhaseOfKind' /\ LiveTaskOwned'
        BY DEF PhaseOfKind, Alive, IsStream, Owned, LiveTaskOwned
    <2>3. LockHeldByLiveTask'
        BY DEF Owned, LockHeldByLiveTask, Acquired, IsStream
    <2>4. Quiet'
        BY DEF Types, Quiet, StoppingQuiet, StopperKnows, ClosedIsQuiet,
               Alive, Acquired, IsStream
    <2> QED
        BY <2>1, <2>2, <2>3, <2>4 DEF Owned
<1>2. CASE ~stopped
    <2> DEFINE ts == {event_tasks[e] : e \in Events} \ {NoTask}
               E == {e \in Events : IsRunning(e)}
    <2>1. /\ stopping' = TRUE
          /\ waited' = [waited EXCEPT ![s] = ts]
          /\ SignalStop(E)
          /\ stopper' = [stopper EXCEPT
                ![s] = IF ts = {} THEN "closing" ELSE "draining"]
        BY <1>2 DEF EnterStop
    <2>2. /\ running' \in [Events -> BOOLEAN]
          /\ cancelling' \in [Tasks -> BOOLEAN]
          /\ PhaseOfKind' /\ Owned'
        BY <2>1, SignalKeeps
    <2>3. Types'
        BY <2>1, <2>2 DEF Types, StopPhases
    <2>4. \A t \in Tasks : Alive(t) => t \in ts
        BY TasksAssumption DEF Types, Owned, LiveTaskOwned
    <2>5. \A e \in Events : ~running'[e]
        BY <2>1 DEF SignalStop, IsRunning
    <2>6. ASSUME NEW t \in Tasks, Alive(t)
          PROVE  cancelling'[t] \/ Acquired(t)
        <3>1. event[t] \in Events /\ event_tasks[event[t]] = t
            BY <2>6 DEF Types, Owned, LiveTaskOwned
        <3>2. CASE running[event[t]]
            BY <3>1, <3>2 DEF Owned, LockHeldByLiveTask
        <3>3. CASE ~running[event[t]]
            <4>1. t \in Cancelled(E)
                BY <3>1, <3>3, <2>6, TasksAssumption DEF Cancelled, IsRunning
            <4> QED
                BY <2>1, <4>1 DEF SignalStop
        <3> QED
            BY <3>2, <3>3
    <2>7. StoppingQuiet'
        BY <2>5, <2>6 DEF StoppingQuiet, Alive, Acquired, IsStream
    <2>8. StopperKnows'
        <3> HIDE DEF ts
        <3> QED
            BY <2>1, <2>4 DEF Types, Quiet, StopperKnows, Alive
    <2>9. ClosedIsQuiet'
        BY <2>1 DEF Quiet, ClosedIsQuiet, Alive
    <2> QED
        BY <2>2, <2>3, <2>7, <2>8, <2>9 DEF Quiet
<1> QED
    BY <1>1, <1>2 DEF Types

\* A step of a call of stop that has the lock: to go on to close resources
\* there must be no living task left.
LEMMA StopStepKeeps ==
    ASSUME Inv, NEW s \in Stoppers,
           NEW from \in {"draining", "gathering", "closing", "disconnecting"},
           NEW to \in {"gathering", "closing", "disconnecting", "failed",
                       "returned"},
           StopStep(s, from, to),
           to = "closing" => AllGone(s) /\ from = "gathering",
           to = "disconnecting" => from = "closing",
           to = "gathering" => from = "draining",
           cancelling' \in [Tasks -> BOOLEAN],
           \A t \in Tasks : cancelling[t] => cancelling'[t],
           stopped' \in BOOLEAN, manager' \in {"open", "closed"},
           connections' \in {"open", "closed"},
           stopped' # stopped \/ resources' # resources =>
               from \in {"closing", "disconnecting"}
    PROVE  Inv'
<1> USE DEF Inv, StopStep
<1>1. Types'
    BY DEF Types, StopPhases
<1>2. PhaseOfKind' /\ LiveTaskOwned'
    BY DEF PhaseOfKind, Owned, LiveTaskOwned, Alive, IsStream
<1>3. LockHeldByLiveTask'
    BY DEF Owned, LockHeldByLiveTask, Acquired, IsStream
<1>4. StoppingQuiet'
    BY DEF Quiet, StoppingQuiet, Alive, Acquired, IsStream
<1>5. stopping
    BY DEF Quiet, StopperKnows
<1>6. from \in {"closing", "disconnecting"} \/ to = "closing" =>
          \A t \in Tasks : ~Alive(t)
    BY DEF Quiet, StopperKnows, AllGone, Alive, Types
<1>7. StopperKnows'
    BY <1>5, <1>6 DEF Types, Quiet, StopperKnows, Alive
<1>8. ClosedIsQuiet'
    BY <1>5, <1>6 DEF Types, Quiet, ClosedIsQuiet, Alive
<1> QED
    BY <1>1, <1>2, <1>3, <1>4, <1>7, <1>8 DEF Owned, Quiet

LEMMA StopperInv ==
    ASSUME Inv, NEW s \in Stoppers,
           StopperStep(s) \/ CallStop(s) \/ StopFails(s) \/ StopGivesUp(s)
    PROVE  Inv'
<1> stop_queue \in Seq(Stoppers) /\ cancelling \in [Tasks -> BOOLEAN]
    BY DEF Inv, Types
<1> stopped \in BOOLEAN /\ manager \in {"open", "closed"}
        /\ connections \in {"open", "closed"}
    BY DEF Inv, Types
<1>1. CASE CallStop(s)
    <2>1. CASE StopLockHeld \/ stop_queue # <<>>
        <3>1. stop_queue' \in Seq(Stoppers)
            BY <1>1, <2>1, AppendProperties DEF CallStop
        <3> USE <1>1, <2>1 DEF CallStop, Inv
        <3>2. Types'
            BY <3>1 DEF Types, StopPhases
        <3>3. PhaseOfKind' /\ LiveTaskOwned'
            BY DEF PhaseOfKind, Alive, IsStream, Owned, LiveTaskOwned
        <3>4. LockHeldByLiveTask'
            BY DEF Owned, LockHeldByLiveTask, Acquired, IsStream
        <3>5. Quiet'
            BY DEF Types, Quiet, StoppingQuiet, StopperKnows, ClosedIsQuiet,
                   Alive, Acquired, IsStream
        <3> QED
            BY <3>2, <3>3, <3>4, <3>5 DEF Owned
    <2>2. CASE ~(StopLockHeld \/ stop_queue # <<>>)
        BY <1>1, <2>2, EnterStopKeeps DEF CallStop
    <2> QED
        BY <2>1, <2>2
<1>2. CASE AcquireStopLock(s)
    <2>1. stop_queue' \in Seq(Stoppers)
        BY <1>2, HeadTailProperties DEF AcquireStopLock
    <2> QED
        BY <1>2, <2>1, EnterStopKeeps DEF AcquireStopLock
<1>3. CASE DrainEnds(s)
    BY <1>3, StopStepKeeps DEF DrainEnds
<1>4. CASE Gathered(s)
    BY <1>4, StopStepKeeps DEF Gathered
<1>5. CASE CloseManager(s)
    BY <1>5, StopStepKeeps DEF CloseManager
<1>6. CASE StopConnections(s)
    BY <1>6, StopStepKeeps DEF StopConnections
<1>7. CASE StopFails(s)
    <2>1. PICK from \in {"draining", "gathering", "closing",
                         "disconnecting"} :
              /\ StopStep(s, from, "failed")
              /\ cancelling' = [t \in Tasks |->
                    cancelling[t] \/ ( /\ from = "gathering"
                                       /\ t \in waited[s] /\ Alive(t) )]
        BY <1>7 DEF StopFails
    <2> QED
        BY <1>7, <2>1, StopStepKeeps DEF StopFails
<1>8. CASE StopGivesUp(s)
    <2>1. stop_queue' \in Seq(Stoppers)
        BY <1>8, RemoveAtType DEF StopGivesUp
    <2> USE <1>8 DEF StopGivesUp, Inv
    <2>2. Types'
        BY <2>1 DEF Types, StopPhases
    <2>3. PhaseOfKind' /\ LiveTaskOwned'
        BY DEF PhaseOfKind, Alive, IsStream, Owned, LiveTaskOwned
    <2>4. LockHeldByLiveTask'
        BY DEF Owned, LockHeldByLiveTask, Acquired, IsStream
    <2>5. Quiet'
        BY DEF Types, Quiet, StoppingQuiet, StopperKnows, ClosedIsQuiet,
               Alive, Acquired, IsStream
    <2> QED
        BY <2>2, <2>3, <2>4, <2>5 DEF Owned
<1> QED
    BY <1>1, <1>2, <1>3, <1>4, <1>5, <1>6, <1>7, <1>8 DEF StopperStep

-----------------------------------------------------------------------------
(* The invariant holds                                                     *)

LEMMA InitInv == Init => Inv
<1> SUFFICES ASSUME Init
             PROVE  Inv
    OBVIOUS
<1>1. AnyEvent \in Events
    BY EventsAssumption DEF AnyEvent, Events
<1>2. Types
    BY <1>1, EmptySeq DEF Init, Types, Phases, StopPhases
<1>3. PhaseOfKind /\ Owned
    BY DEF Init, PhaseOfKind, Owned, LiveTaskOwned, LockHeldByLiveTask, Alive
<1>4. Quiet
    BY DEF Init, Quiet, StoppingQuiet, StopperKnows, ClosedIsQuiet
<1> QED
    BY <1>2, <1>3, <1>4 DEF Inv

LEMMA StutterInv == Inv /\ UNCHANGED vars => Inv'
<1> SUFFICES ASSUME Inv, UNCHANGED vars
             PROVE  Inv'
    OBVIOUS
<1> USE DEF Inv, vars
<1>1. Types' /\ PhaseOfKind'
    BY DEF Types, PhaseOfKind, Alive, IsStream
<1>2. LiveTaskOwned' /\ LockHeldByLiveTask'
    BY DEF Owned, LiveTaskOwned, LockHeldByLiveTask, Alive, Acquired, IsStream
<1>3. StoppingQuiet' /\ StopperKnows' /\ ClosedIsQuiet'
    BY DEF Quiet, StoppingQuiet, StopperKnows, ClosedIsQuiet, Alive, Acquired,
           IsStream
<1> QED
    BY <1>1, <1>2, <1>3 DEF Owned, Quiet

LEMMA NextInv == Inv /\ [Next]_vars => Inv'
<1> SUFFICES ASSUME Inv, Next
             PROVE  Inv'
    BY StutterInv
<1>1. ASSUME NEW e \in Events, StartEvent(e) \/ StopEvent(e)
      PROVE  Inv'
    BY <1>1, StartEventInv, StopEventInv
<1>2. ASSUME NEW t \in Tasks,
             StreamStep(t) \/ StreamReady(t) \/ ServiceStep(t) \/ Generator(t)
      PROVE  Inv'
    BY <1>2, StreamInv, ServiceInv
<1>3. ASSUME NEW t \in Tasks,
             TaskEnds(t) \/ CancelLands(t) \/ EventTaskDone(t)
      PROVE  Inv'
    BY <1>3, TaskEndsInv, EventTaskDoneInv
<1>4. ASSUME NEW s \in Stoppers,
             CallStop(s) \/ StopperStep(s) \/ StopFails(s) \/ StopGivesUp(s)
      PROVE  Inv'
    BY <1>4, StopperInv
<1> QED
    BY <1>1, <1>2, <1>3, <1>4 DEF Next

LEMMA SafetyInv == Safety => []Inv
BY InitInv, NextInv, PTL DEF Safety

-----------------------------------------------------------------------------
(* What stop_event finds registered for an event is a task of that event   *)

Registered == \A e \in Events :
    event_tasks[e] # NoTask =>
        event[event_tasks[e]] = e /\ phase[event_tasks[e]] # "none"

\* The steps that neither create a task nor unregister one.
LEMMA SameTasksRegistered ==
    ASSUME Types, Registered, UNCHANGED <<event_tasks, event>>,
           \A t \in Tasks : phase[t] # "none" => phase'[t] # "none"
    PROVE  Registered'
BY DEF Types, Registered

LEMMA MoveRegistered ==
    ASSUME Types, Registered, NEW t \in Tasks,
           \/ Finish(t)
           \/ \E from \in Phases, to \in Phases \ {"none"} : Move(t, from, to)
    PROVE  Registered'
BY SameTasksRegistered DEF Types, Finish, Move

LEMMA NextRegistered == Inv /\ Registered /\ [Next]_vars => Registered'
<1> SUFFICES ASSUME Inv, Registered, [Next]_vars
             PROVE  Registered'
    OBVIOUS
<1> Types
    BY DEF Inv
<1>1. ASSUME NEW e \in Events, StartEvent(e)
      PROVE  Registered'
    <2>1. PICK n \in Tasks : n = NewTask /\ phase[n] = "none"
        BY <1>1, NewTaskUnused DEF StartEvent
    <2>2. /\ event' = [event EXCEPT ![n] = e]
          /\ phase' = [phase EXCEPT ![n] = "created"]
          /\ event_tasks' = [event_tasks EXCEPT ![e] = n]
        BY <1>1, <2>1 DEF StartEvent
    <2> QED
        BY <2>1, <2>2 DEF Types, Registered
<1>2. ASSUME NEW e \in Events, StopEvent(e)
      PROVE  Registered'
    BY <1>2, SameTasksRegistered DEF StopEvent
<1>3. ASSUME NEW t \in Tasks, EventTaskDone(t)
      PROVE  Registered'
    BY <1>3 DEF EventTaskDone, Types, Registered
<1>4. ASSUME NEW t \in Tasks,
             StreamStep(t) \/ StreamReady(t) \/ ServiceStep(t) \/ Generator(t)
                 \/ TaskEnds(t) \/ CancelLands(t)
      PROVE  Registered'
    BY <1>4, MoveRegistered
       DEF StreamStep, StreamReady, ServiceStep, Generator, TaskEnds,
           CancelLands, StreamDelay, StreamBegin, StreamSetupStops,
           StreamCycle, ServiceBegin, ServiceDelayEnds, GeneratorCheck,
           ServiceExecuted, GeneratorIdles, GeneratorYields, Continue,
           Acquire, Phases, StreamPhases, ServicePhases
<1>5. ASSUME NEW s \in Stoppers,
             CallStop(s) \/ StopperStep(s) \/ StopFails(s) \/ StopGivesUp(s)
      PROVE  Registered'
    BY <1>5, SameTasksRegistered
       DEF CallStop, StopperStep, StopFails, StopGivesUp, AcquireStopLock,
           DrainEnds, Gathered, CloseManager, StopConnections, StopStep
<1>6. CASE UNCHANGED vars
    BY <1>6, SameTasksRegistered DEF vars
<1> QED
    BY <1>1, <1>2, <1>3, <1>4, <1>5, <1>6 DEF Next

LEMMA SafetyRegistered == Safety => []Registered
<1>1. Init => Registered
    BY DEF Init, Registered
<1> QED
    BY <1>1, NextRegistered, SafetyInv, PTL DEF Safety

\* A stop signal cancels only tasks that do not have the lock of their event.
LEMMA SignalCutsNothingShort ==
    ASSUME Inv, Registered, NEW E \in SUBSET Events, SignalStop(E),
           NEW t \in Tasks, ~cancelling[t], cancelling'[t]
    PROVE  ~running[event[t]]
<1>1. t \in Cancelled(E)
    BY DEF SignalStop
<1>2. PICK e \in E : ~running[e] /\ event_tasks[e] = t
    BY <1>1 DEF Cancelled
<1> QED
    BY <1>2, TasksAssumption DEF Registered

\* A cancellation by stop comes after the signal that released the locks.
LEMMA StoppingCutsNothingShort ==
    ASSUME Inv, NEW s \in Stoppers,
           DrainEnds(s) \/ StopFails(s), NEW t \in Tasks,
           ~cancelling[t], cancelling'[t]
    PROVE  ~running[event[t]]
<1>1. stopping
    BY DEF DrainEnds, StopFails, StopStep, Inv, Quiet, StopperKnows
<1>2. event[t] \in Events
    BY DEF Inv, Types
<1> QED
    BY <1>1, <1>2 DEF Inv, Quiet, StoppingQuiet

LEMMA StepCutsNothingShort ==
    ASSUME Inv, Registered, [Next]_vars, NEW t \in Tasks,
           Alive(t), ~cancelling[t], cancelling'[t]
    PROVE  ~running[event[t]]
<1>1. ASSUME NEW e \in Events, StopEvent(e)
      PROVE  ~running[event[t]]
    BY <1>1, SignalCutsNothingShort DEF StopEvent
<1>2. ASSUME NEW s \in Stoppers, EnterStop(s)
      PROVE  ~running[event[t]]
    <2>1. SignalStop({e \in Events : IsRunning(e)})
        BY <1>2 DEF EnterStop
    <2> QED
        BY <2>1, SignalCutsNothingShort
<1>3. ASSUME NEW s \in Stoppers, DrainEnds(s) \/ StopFails(s)
      PROVE  ~running[event[t]]
    BY <1>3, StoppingCutsNothingShort
<1>4. ASSUME NEW e \in Events, StartEvent(e)
      PROVE  FALSE
    BY <1>4 DEF StartEvent
<1>5. ASSUME NEW u \in Tasks,
             StreamStep(u) \/ StreamReady(u) \/ ServiceStep(u) \/ Generator(u)
                 \/ TaskEnds(u) \/ CancelLands(u)
      PROVE  FALSE
    BY <1>5
       DEF StreamStep, StreamReady, ServiceStep, Generator, TaskEnds,
           CancelLands, StreamDelay, StreamBegin, StreamSetupStops,
           StreamCycle, ServiceBegin, ServiceDelayEnds, GeneratorCheck,
           ServiceExecuted, GeneratorIdles, GeneratorYields, Continue,
           Acquire, Move, Finish
<1>6. ASSUME NEW u \in Tasks, EventTaskDone(u)
      PROVE  FALSE
    BY <1>6 DEF EventTaskDone, Inv, Types
<1>7. ASSUME NEW s \in Stoppers, CallStop(s) \/ StopperStep(s) \/ StopGivesUp(s)
      PROVE  ~running[event[t]]
    BY <1>2, <1>3, <1>7
       DEF CallStop, StopperStep, StopGivesUp, AcquireStopLock, Gathered,
           CloseManager, StopConnections
<1>8. CASE UNCHANGED vars
    BY <1>8 DEF vars
<1> QED
    BY <1>1, <1>3, <1>4, <1>5, <1>6, <1>7, <1>8 DEF Next

-----------------------------------------------------------------------------
(* The theorems                                                            *)

\* Every variable always has its type and every task is in a phase of its
\* kind (AppEngine).
THEOREM TypeCorrect == Spec => []TypeOK
<1>1. Inv => TypeOK
    BY DEF Inv, Types, PhaseOfKind, TypeOK
<1> QED
    BY <1>1, SafetyInv, PTL DEF Spec

\* Every living task is the one registered for its event, however often its
\* event was started and stopped (start_event, _event_task_done).
THEOREM TasksOwned == Spec => []LiveTaskOwned
<1>1. Inv => LiveTaskOwned
    BY DEF Inv, Owned
<1> QED
    BY <1>1, SafetyInv, PTL DEF Spec

\* A lock is never left behind by a task that is gone (read_stream and
\* service_loop, whichever way they end).
THEOREM LocksOwned == Spec => []LockHeldByLiveTask
<1>1. Inv => LockHeldByLiveTask
    BY DEF Inv, Owned
<1> QED
    BY <1>1, SafetyInv, PTL DEF Spec

\* The stream manager and the connections are closed only when no task can
\* use them any more (AppEngine.stop).
THEOREM ResourcesSafe == Spec => []ResourcesOutliveTasks
<1>1. Inv => ResourcesOutliveTasks
    BY DEF Inv, Quiet, ClosedIsQuiet, ResourcesOutliveTasks
<1> QED
    BY <1>1, SafetyInv, PTL DEF Spec

\* No step cancels a task that still has its lock: every event is first told
\* to stop (stop_event, AppEngine.stop).
THEOREM StopIsGraceful == Spec => NoWorkCutShort
<1>1. Inv /\ Registered /\ [Next]_vars =>
          [\A t \in Tasks :
              Alive(t) /\ ~cancelling[t] /\ cancelling'[t] =>
                  ~running[event[t]]]_vars
    BY StepCutsNothingShort
<1> QED
    BY <1>1, SafetyInv, SafetyRegistered, PTL
       DEF Spec, Safety, NoWorkCutShort
=============================================================================
