--------------------- MODULE StreamCircuitBreakerProofs ---------------------
(***************************************************************************)
(* Proofs about StreamCircuitBreaker, for any set of callers, any delays,  *)
(* any threshold and any bound on the back-off tasks.                      *)
(***************************************************************************)
EXTENDS StreamCircuitBreaker, TLAPS, SequenceTheorems

USE DEF breaker, lock, calls

-----------------------------------------------------------------------------
(* Lemmas                                                                  *)

\* Taking an element out of a sequence leaves a sequence of the same set
\* (the queue of the lock, when a waiter is cancelled).
LEMMA RemoveAtType ==
    ASSUME NEW S, NEW s \in Seq(S), NEW i \in DOMAIN s
    PROVE  RemoveAt(s, i) \in Seq(S)
<1>1. i \in 1..Len(s) /\ Len(s) \in Nat
    OBVIOUS
<1>2. SubSeq(s, 1, i - 1) \in Seq(S)
    BY <1>1, SubSeqProperties
<1>3. SubSeq(s, i + 1, Len(s)) \in Seq(S)
    BY <1>1, SubSeqProperties
<1> QED
    BY <1>2, <1>3, ConcatProperties DEF RemoveAt

\* Taking the lock yields a Boolean whatever the back-off.
LEMMA WakeType ==
    ASSUME TypeOK, Wake
    PROVE  /\ waiters' \in Seq(Callers \cup {NoCaller})
           /\ locked' \in BOOLEAN
           /\ phase' \in [Callers -> Phases]
<1>1. Head(waiters) \in Callers \cup {NoCaller}
    BY HeadTailProperties DEF TypeOK, Wake
<1>2. waiters' \in Seq(Callers \cup {NoCaller})
    BY HeadTailProperties DEF TypeOK, Wake
<1>3. CASE Head(waiters) = NoCaller
    BY <1>2, <1>3 DEF TypeOK, Wake, TakeLock
<1>4. CASE Head(waiters) # NoCaller
    BY <1>1, <1>2, <1>4 DEF TypeOK, Wake, Phases
<1> QED
    BY <1>3, <1>4

\* In a consistent breaker the failure and the recovery handler keep the
\* types and the consistency of the three fields.
LEMMA RecoverKeeps ==
    ASSUME TypeOK, BreakerConsistent, Recover
    PROVE  /\ state' \in 0..2 /\ num_failures' \in Nat /\ backoff' \in Nat
           /\ BreakerConsistent'
BY BackoffAssumption, ThresholdAssumption
   DEF TypeOK, Recover, BreakerConsistent, ClosedState, SemiOpenState,
       OpenState, LesserOf, GreaterOf

LEMMA FailureKeeps ==
    ASSUME TypeOK, BreakerConsistent, HandleFailure
    PROVE  /\ state' \in 0..2 /\ num_failures' \in Nat /\ backoff' \in Nat
           /\ BreakerConsistent'
BY BackoffAssumption, ThresholdAssumption
   DEF TypeOK, HandleFailure, BreakerConsistent, ClosedState, SemiOpenState,
       OpenState, LesserOf, GreaterOf

-----------------------------------------------------------------------------
(* The inductive invariant                                                 *)

Inv == TypeOK /\ BreakerConsistent

LEMMA InitInv == Init => Inv
<1> SUFFICES ASSUME Init
             PROVE  Inv
    OBVIOUS
<1>1. waiters \in Seq(Callers \cup {NoCaller})
    BY EmptySeq DEF Init
<1>2. TypeOK
    <2>1. locked \in BOOLEAN
        BY DEF Init
    <2>2. /\ kind \in [Callers -> Kinds]
          /\ phase \in [Callers -> Phases]
          /\ result \in [Callers -> Results]
        BY DEF Init, Kinds, Gated, Phases, Results
    <2>3. state \in 0..2 /\ num_failures \in Nat /\ backoff \in Nat /\ spawned \in Nat
        BY DEF Init
    <2> QED
        BY <1>1, <2>1, <2>2, <2>3 DEF TypeOK
<1>3. BreakerConsistent
    BY DEF Init, BreakerConsistent, ClosedState, SemiOpenState, OpenState
<1> QED
    BY <1>2, <1>3 DEF Inv

LEMMA CallerStepInv ==
    ASSUME Inv, NEW p \in Callers, CallerStep(p)
    PROVE  Inv'
<1> USE DEF Inv, TypeOK, Kinds, Gated, Phases, Results
<1> DEFINE Same == UNCHANGED <<state, num_failures, backoff>>
<1>0. Same => BreakerConsistent'
    BY DEF BreakerConsistent, ClosedState, SemiOpenState, OpenState
<1>1. CASE RefuseWrite(p)
    BY <1>0, <1>1 DEF RefuseWrite
<1>2. CASE StartWrite(p)
    BY <1>0, <1>2 DEF StartWrite, Begin
<1>3. ASSUME NEW k \in Gated, StartGated(p, k)
      PROVE  Inv'
    BY <1>0, <1>3 DEF StartGated, Begin
<1>4. ASSUME NEW k \in Gated, WaitGated(p, k)
      PROVE  Inv'
    <2>1. waiters' \in Seq(Callers \cup {NoCaller})
        BY <1>4, AppendProperties DEF WaitGated
    <2> QED
        BY <1>0, <1>4, <2>1 DEF WaitGated, Begin
<1>5. CASE Succeed(p)
    <2>1. /\ state' \in 0..2 /\ num_failures' \in Nat /\ backoff' \in Nat
          /\ BreakerConsistent'
        BY <1>5, RecoverKeeps DEF Succeed
    <2> QED
        BY <1>5, <2>1 DEF Succeed, Finish
<1>6. CASE Fail(p)
    <2>1. /\ state' \in 0..2 /\ num_failures' \in Nat /\ backoff' \in Nat
          /\ BreakerConsistent'
        BY <1>6, FailureKeeps DEF Fail
    <2> QED
        BY <1>6, <2>1 DEF Fail, Finish, FailureResult
<1>7. CASE Abandon(p)
    BY <1>0, <1>7 DEF Abandon, Finish
<1>8. CASE CancelWait(p)
    <2>1. waiters' \in Seq(Callers \cup {NoCaller})
        BY <1>8, RemoveAtType DEF CancelWait
    <2> QED
        BY <1>0, <1>8, <2>1 DEF CancelWait
<1> QED
    BY <1>1, <1>2, <1>3, <1>4, <1>5, <1>6, <1>7, <1>8 DEF CallerStep

LEMMA NextInv == Inv /\ [Next]_vars => Inv'
<1> SUFFICES ASSUME Inv, [Next]_vars
             PROVE  Inv'
    OBVIOUS
<1> USE DEF Inv, TypeOK
<1>0. UNCHANGED <<state, num_failures, backoff>> => BreakerConsistent'
    BY DEF BreakerConsistent, ClosedState, SemiOpenState, OpenState
<1>1. ASSUME NEW p \in Callers, CallerStep(p)
      PROVE  Inv'
    BY <1>1, CallerStepInv
<1>2. CASE StartBackoffWait
    <2>1. waiters' \in Seq(Callers \cup {NoCaller}) /\ locked' \in BOOLEAN
        <3>1. CASE LockFree
            BY <1>2, <3>1 DEF StartBackoffWait, TakeLock
        <3>2. CASE ~LockFree
            BY <1>2, <3>2, AppendProperties DEF StartBackoffWait
        <3> QED
            BY <3>1, <3>2
    <2> QED
        BY <1>0, <1>2, <2>1 DEF StartBackoffWait
<1>3. CASE Wake
    BY <1>0, <1>3, WakeType DEF Wake
<1>4. CASE EndBackoffWait
    BY <1>0, <1>4 DEF EndBackoffWait
<1>5. CASE UNCHANGED vars
    BY <1>0, <1>5 DEF vars
<1> QED
    BY <1>1, <1>2, <1>3, <1>4, <1>5 DEF Next

LEMMA SafetyInv == Safety => []Inv
BY InitInv, NextInv, PTL DEF Safety

-----------------------------------------------------------------------------
(* The theorems                                                            *)

\* The types of the state of the breaker and of the queue of its lock hold in
\* every reachable state.
THEOREM TypeCorrect == Spec => []TypeOK
<1>1. Inv => TypeOK
    BY DEF Inv
<1> QED
    BY <1>1, SafetyInv, PTL DEF Spec

\* state, num_failures and backoff agree after any interleaving of successes
\* and failures, for every threshold and all delays, a maximum below the
\* initial delay included.
THEOREM Consistent == Spec => []BreakerConsistent
<1>1. Inv => BreakerConsistent
    BY DEF Inv
<1> QED
    BY <1>1, SafetyInv, PTL DEF Spec

\* Every step of the breaker is a step of its promise, or changes nothing of
\* what the promise speaks of.
LEMMA StepSimulates ==
    ASSUME Inv, [Next]_vars
    PROVE  [Promise!Next]_(Promise!vars)
<1> USE DEF Inv, TypeOK, Promise!vars
<1> DEFINE InFlight == {q \in Callers : phase[q] = "calling"}
<1>1. ASSUME NEW p \in Callers, CallerStep(p)
      PROVE  [Promise!Next]_(Promise!vars)
    <2>1. CASE RefuseWrite(p)
        BY <2>1 DEF RefuseWrite
    <2>2. CASE StartWrite(p)
        <3>1. InFlight' = InFlight \cup {p} /\ p \notin InFlight
            BY <2>2 DEF StartWrite, Begin
        <3>2. Promise!Admit(p)
            BY <2>2, <3>1 DEF StartWrite, Promise!Admit
        <3> QED
            BY <3>2 DEF Promise!Next
    <2>3. ASSUME NEW k \in Gated, StartGated(p, k)
          PROVE  Promise!Next
        <3>1. InFlight' = InFlight \cup {p} /\ p \notin InFlight
            BY <2>3 DEF StartGated, Begin
        <3>2. Promise!Admit(p)
            BY <2>3, <3>1 DEF StartGated, LockFree, Promise!Admit
        <3> QED
            BY <3>2 DEF Promise!Next
    <2>4. ASSUME NEW k \in Gated, WaitGated(p, k)
          PROVE  UNCHANGED Promise!vars
        <3>1. InFlight' = InFlight
            BY <2>4 DEF WaitGated, Begin
        <3> QED
            BY <2>4, <3>1 DEF WaitGated
    <2>5. CASE Succeed(p)
        <3>1. InFlight' = InFlight \ {p} /\ p \in InFlight
            BY <2>5 DEF Succeed, Finish
        <3>2. Promise!Succeed(p)
            BY <2>5, <3>1 DEF Succeed, Recover, Promise!Succeed
        <3> QED
            BY <3>2 DEF Promise!Next
    <2>6. CASE Fail(p)
        <3>1. InFlight' = InFlight \ {p} /\ p \in InFlight
            BY <2>6 DEF Fail, Finish
        <3>2. Promise!Fail(p)
            BY <2>6, <3>1
               DEF Fail, HandleFailure, Promise!Fail, LesserOf, Promise!Lesser
        <3> QED
            BY <3>2 DEF Promise!Next
    <2>7. CASE Abandon(p)
        <3>1. InFlight' = InFlight \ {p} /\ p \in InFlight
            BY <2>7 DEF Abandon, Finish
        <3>2. Promise!GiveUp(p)
            BY <2>7, <3>1 DEF Abandon, Promise!GiveUp
        <3> QED
            BY <3>2 DEF Promise!Next
    <2>8. CASE CancelWait(p)
        <3>1. InFlight' = InFlight
            BY <2>8 DEF CancelWait
        <3> QED
            BY <2>8, <3>1 DEF CancelWait
    <2> QED
        BY <1>1, <2>1, <2>2, <2>3, <2>4, <2>5, <2>6, <2>7, <2>8 DEF CallerStep
<1>2. ASSUME TakeLock, ~locked, UNCHANGED <<state, backoff, phase>>
      PROVE  Promise!Rest \/ UNCHANGED Promise!vars
    <2>1. CASE backoff > 0
        BY <1>2, <2>1 DEF TakeLock, Promise!Rest
    <2>2. CASE ~(backoff > 0)
        BY <1>2, <2>2 DEF TakeLock
    <2> QED
        BY <2>1, <2>2
<1>3. CASE StartBackoffWait
    <2>1. CASE LockFree
        BY <1>2, <1>3, <2>1 DEF StartBackoffWait, LockFree, Promise!Next
    <2>2. CASE ~LockFree
        BY <1>3, <2>2 DEF StartBackoffWait
    <2> QED
        BY <2>1, <2>2
<1>4. CASE Wake
    <2>1. CASE Head(waiters) = NoCaller
        BY <1>2, <1>4, <2>1 DEF Wake, Promise!Next
    <2>2. CASE Head(waiters) # NoCaller
        <3>1. PICK h \in Callers : h = Head(waiters)
            BY <1>4, <2>2, HeadTailProperties DEF Wake
        <3>2. phase' = [phase EXCEPT ![h] = "calling"]
            BY <1>4, <2>2, <3>1 DEF Wake
        <3>3. InFlight' = InFlight \cup {h}
            BY <3>1, <3>2
        <3>4. CASE h \in InFlight
            BY <1>4, <2>2, <3>3, <3>4 DEF Wake
        <3>5. CASE h \notin InFlight
            <4>1. Promise!Admit(h)
                BY <1>4, <2>2, <3>3, <3>5 DEF Wake, Promise!Admit
            <4> QED
                BY <4>1 DEF Promise!Next
        <3> QED
            BY <3>4, <3>5
    <2> QED
        BY <2>1, <2>2
<1>5. CASE EndBackoffWait
    BY <1>5 DEF EndBackoffWait, Promise!Resume, Promise!Next
<1>6. CASE UNCHANGED vars
    BY <1>6 DEF vars
<1> QED
    BY <1>1, <1>3, <1>4, <1>5, <1>6 DEF Next

\* The breaker keeps the safety part of its promise: levels move one at a
\* time, and no operation reaches the broker during a back-off sleep unless
\* the back-off was dropped.
THEOREM Refines == Spec => Promise!Safety
<1>1. Init => Promise!Init
    BY DEF Init, Promise!Init
<1>2. Inv /\ [Next]_vars => [Promise!Next]_(Promise!vars)
    BY StepSimulates
<1> QED
    BY <1>1, <1>2, SafetyInv, PTL DEF Spec, Safety, Promise!Safety
=============================================================================
