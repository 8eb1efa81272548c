------------------------ MODULE StreamCircuitBreaker ------------------------
(***************************************************************************)
(* The circuit breaker every stream operation of an application engine     *)
(* goes through: class StreamCircuitBreaker of                             *)
(* engine/src/hopeit/streams/__init__.py.                                  *)
(*                                                                         *)
(* Callers are the coroutines that use one breaker at the same time: read  *)
(* loops, and the processing of single events, which write their results   *)
(* and acknowledge their input.  A step is what a coroutine does between   *)
(* two awaits.  The wrapped stream manager is the environment: a call may  *)
(* succeed, fail with StreamOSError, or never return to the breaker        *)
(* (another exception, or the caller is cancelled by a timeout).           *)
(*                                                                         *)
(* asyncio.Lock serves its waiters in order.  A release only wakes the     *)
(* first waiter: the lock is free until that waiter runs, and that is      *)
(* visible to write_stream, which tests lock.locked().                     *)
(***************************************************************************)
EXTENDS Naturals, Sequences, FiniteSets, SequencesExt

CONSTANTS
    Callers,          \* coroutines that share the breaker
    NoCaller,         \* names a back-off task in the queue of the lock
    InitialBackoff,   \* initial_backoff_seconds
    MaxBackoff,       \* max_backoff_seconds
    FailuresToOpen,   \* num_failures_open_circuit_breaker
    MaxBackoffTasks   \* bound: back-off tasks alive at the same time

ASSUME BackoffAssumption == InitialBackoff \in Nat /\ MaxBackoff \in Nat
ASSUME ThresholdAssumption == FailuresToOpen \in Nat
ASSUME CallersAssumption == NoCaller \notin Callers

VARIABLES
    state,         \* 0 closed, 1 semi-open, 2 open
    num_failures,
    backoff,
    locked,        \* the lock is held: some back-off task sleeps
    waiters,       \* FIFO of the coroutines that wait for the lock
    spawned,       \* back-off tasks created that have not run yet
    kind,          \* the operation each caller executes or executed last
    phase,         \* where that operation is
    result         \* what the caller was told

breaker == <<state, num_failures, backoff>>
lock == <<locked, waiters, spawned>>
calls == <<kind, phase, result>>
vars == <<state, num_failures, backoff, locked, waiters, spawned,
          kind, phase, result>>

Gated == {"read", "ensure", "ack"}      \* operations that await the back-off
Kinds == Gated \cup {"write"}
Phases == {"idle", "waiting", "calling"}
Results == {"none", "ok", "error", "silent", "refused", "abandoned"}

LesserOf(a, b) == IF a <= b THEN a ELSE b
GreaterOf(a, b) == IF a >= b THEN a ELSE b

Init ==
    /\ state = 0
    /\ num_failures = 0
    /\ backoff = 0
    /\ locked = FALSE
    /\ waiters = <<>>
    /\ spawned = 0
    /\ kind = [p \in Callers |-> "read"]
    /\ phase = [p \in Callers |-> "idle"]
    /\ result = [p \in Callers |-> "none"]

-----------------------------------------------------------------------------
(* asyncio.Lock and the tasks that hold it                                 *)

\* Mutant: a lock that is not fair.
LockFreeUnfair == ~locked

\* lock.acquire() returns at once only when nobody else is waiting either.
LockFree == ~locked /\ waiters = <<>>

BackoffTasks ==
    spawned + Cardinality({i \in DOMAIN waiters : waiters[i] = NoCaller})
            + IF locked THEN 1 ELSE 0

\* What a back-off task does once it owns the lock: sleep, or leave at once
\* when the breaker was closed before its turn.
TakeLock == locked' = (backoff > 0)

\* Mutant: the task gives up when it cannot have the lock at once.
StartBackoffWaitOrSkip ==
    /\ spawned > 0
    /\ spawned' = spawned - 1
    /\ IF LockFree THEN TakeLock ELSE UNCHANGED locked
    /\ UNCHANGED <<breaker, waiters, calls>>

\* A back-off task runs for the first time.
StartBackoffWait ==
    /\ spawned > 0
    /\ spawned' = spawned - 1
    /\ IF LockFree
         THEN TakeLock /\ UNCHANGED waiters
         ELSE waiters' = Append(waiters, NoCaller) /\ UNCHANGED locked
    /\ UNCHANGED <<breaker, calls>>

\* The first waiter runs after a release.  A back-off task starts its sleep;
\* an operation passes through the lock and calls the stream manager.
Wake ==
    /\ ~locked
    /\ waiters # <<>>
    /\ waiters' = Tail(waiters)
    /\ IF Head(waiters) = NoCaller
         THEN TakeLock /\ UNCHANGED phase
         ELSE /\ phase' = [phase EXCEPT ![Head(waiters)] = "calling"]
              /\ UNCHANGED locked
    /\ UNCHANGED <<breaker, spawned, kind, result>>

EndBackoffWait ==
    /\ locked
    /\ locked' = FALSE
    /\ UNCHANGED <<breaker, waiters, spawned, calls>>

-----------------------------------------------------------------------------
(* The operations                                                          *)

Begin(p, k, where) ==
    /\ phase[p] = "idle"
    /\ kind' = [kind EXCEPT ![p] = k]
    /\ phase' = [phase EXCEPT ![p] = where]
    /\ result' = [result EXCEPT ![p] = "none"]

\* write_stream never waits: it refuses while a back-off sleep is running.
RefuseWrite(p) ==
    /\ phase[p] = "idle"
    /\ locked
    /\ kind' = [kind EXCEPT ![p] = "write"]
    /\ result' = [result EXCEPT ![p] = "refused"]
    /\ UNCHANGED <<breaker, lock, phase>>

\* Mutant: the test of the lock is dropped.
StartWriteAnyway(p) ==
    /\ Begin(p, "write", "calling")
    /\ UNCHANGED <<breaker, lock>>

StartWrite(p) ==
    /\ ~locked
    /\ Begin(p, "write", "calling")
    /\ UNCHANGED <<breaker, lock>>

\* _wait_backoff returns at once when there is no back-off, or nobody has
\* the lock: the sleep is over, or its task has not run yet.
StartGated(p, k) ==
    /\ backoff = 0 \/ LockFree
    /\ Begin(p, k, "calling")
    /\ UNCHANGED <<breaker, lock>>

WaitGated(p, k) ==
    /\ backoff > 0 /\ ~LockFree
    /\ Begin(p, k, "waiting")
    /\ waiters' = Append(waiters, p)
    /\ UNCHANGED <<breaker, locked, spawned>>

Recover ==
    /\ state' = IF state = 0 THEN 0 ELSE state - 1
    /\ num_failures' = IF state' = 0 THEN 0 ELSE num_failures - 1
    /\ backoff' = IF state' = 0 THEN 0 ELSE InitialBackoff

\* Mutant: the threshold is compared before the failure is counted.
HandleFailureLate ==
    \/ /\ state = 0
       /\ num_failures' = num_failures + 1
       /\ state' = 1
       /\ backoff' = InitialBackoff
    \/ /\ state = 1
       /\ num_failures' = num_failures + 1
       /\ state' = IF num_failures >= FailuresToOpen THEN 2 ELSE 1
       /\ UNCHANGED backoff
    \/ /\ state = 2
       /\ backoff' = LesserOf(MaxBackoff, 2 * backoff)
       /\ UNCHANGED <<state, num_failures>>

HandleFailure ==
    \/ /\ state = 0
       /\ num_failures' = num_failures + 1
       /\ state' = 1
       /\ backoff' = InitialBackoff
    \/ /\ state = 1
       /\ num_failures' = num_failures + 1
       /\ state' = IF num_failures' >= FailuresToOpen THEN 2 ELSE 1
       /\ UNCHANGED backoff
    \/ /\ state = 2
       /\ backoff' = LesserOf(MaxBackoff, 2 * backoff)
       /\ UNCHANGED <<state, num_failures>>

Finish(p, res) ==
    /\ phase[p] = "calling"
    /\ phase' = [phase EXCEPT ![p] = "idle"]
    /\ result' = [result EXCEPT ![p] = res]
    /\ UNCHANGED kind

Succeed(p) ==
    /\ Finish(p, "ok")
    /\ Recover
    /\ UNCHANGED lock

\* The failure of an acknowledge is not told to the caller.
FailureResult(k) == IF k = "ack" THEN "silent" ELSE "error"

Fail(p) ==
    /\ BackoffTasks < MaxBackoffTasks
    /\ Finish(p, FailureResult(kind[p]))
    /\ HandleFailure
    /\ spawned' = spawned + 1
    /\ UNCHANGED <<locked, waiters>>

\* The call ends in neither way: the breaker does not learn of it.
Abandon(p) ==
    /\ Finish(p, "abandoned")
    /\ UNCHANGED <<breaker, lock>>

\* The caller is cancelled while it waits for the back-off.
CancelWait(p) ==
    /\ phase[p] = "waiting"
    /\ \E i \in DOMAIN waiters :
          waiters[i] = p /\ waiters' = RemoveAt(waiters, i)
    /\ phase' = [phase EXCEPT ![p] = "idle"]
    /\ result' = [result EXCEPT ![p] = "abandoned"]
    /\ UNCHANGED <<breaker, locked, spawned, kind>>

CallerStep(p) ==
    \/ RefuseWrite(p) \/ StartWrite(p)
    \/ \E k \in Gated : StartGated(p, k) \/ WaitGated(p, k)
    \/ Succeed(p) \/ Fail(p) \/ Abandon(p) \/ CancelWait(p)

Next ==
    \/ \E p \in Callers : CallerStep(p)
    \/ StartBackoffWait
    \/ Wake
    \/ EndBackoffWait

Safety == Init /\ [][Next]_vars

\* The event loop runs what is ready, and a sleep ends.  Nothing is assumed
\* of the callers or of the broker: a call may stay in flight for ever.
Spec ==
    /\ Safety
    /\ WF_vars(StartBackoffWait)
    /\ WF_vars(Wake)
    /\ WF_vars(EndBackoffWait)

-----------------------------------------------------------------------------
(* Properties                                                              *)

\* Every variable has its type: the breaker has three states, and only
\* callers and back-off tasks queue for its lock.
TypeOK ==
    /\ state \in 0..2
    /\ num_failures \in Nat
    /\ backoff \in Nat
    /\ locked \in BOOLEAN
    /\ waiters \in Seq(Callers \cup {NoCaller})
    /\ spawned \in Nat
    /\ kind \in [Callers -> Kinds]
    /\ phase \in [Callers -> Phases]
    /\ result \in [Callers -> Results]

ClosedState == state = 0 => num_failures = 0 /\ backoff = 0

SemiOpenState ==
    state = 1 =>
        /\ num_failures \in 1..(GreaterOf(FailuresToOpen, 2) - 1)
        /\ backoff = InitialBackoff

OpenState ==
    state = 2 =>
        /\ num_failures = GreaterOf(FailuresToOpen, 2)
        /\ backoff \in LesserOf(InitialBackoff, MaxBackoff)
                        .. GreaterOf(InitialBackoff, MaxBackoff)

\* The three fields the handlers update one after the other always agree,
\* whatever the order in which concurrent operations succeed and fail: closed
\* means no failure counted and no back-off, semi-open the initial back-off
\* and fewer failures than open the breaker, open at least that many
\* (_handle_failure, _recover).
BreakerConsistent == ClosedState /\ SemiOpenState /\ OpenState

Promise == INSTANCE BreakerPromise WITH
    FirstDelay <- InitialBackoff,
    LongestDelay <- MaxBackoff,
    level <- state,
    delay <- backoff,
    resting <- locked,
    admitted <- {p \in Callers : phase[p] = "calling"}

\* The class implements the promise of BreakerPromise: successes and failures
\* move it one level at a time, and no operation reaches the broker while a
\* back-off sleep is running, neither a write that refuses nor a read that
\* queues up, although the lock is released and taken again between the
\* sleeps of several back-off tasks.
KeepsPromise == Promise!Spec

\* An operation that waits for the back-off gets its turn, however many
\* back-off tasks are queued and created meanwhile (_wait_backoff).
WaitEnds == \A p \in Callers : phase[p] = "waiting" ~> phase[p] # "waiting"

\* A failure makes the broker rest: once a back-off task exists, a sleep
\* comes, unless the breaker closes first.  The task may start while other
\* sleeps and operations are queued before it (_start_backoff_wait).
BackoffHappens == BackoffTasks > 0 ~> locked \/ state = 0
=============================================================================
