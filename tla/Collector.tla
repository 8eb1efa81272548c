------------------------------ MODULE Collector ------------------------------
(***************************************************************************)
(* The compound step of an event (server/collector.py, and _run_collector   *)
(* in server/steps.py): functions that run concurrently, each of which may  *)
(* await the results of others.                                             *)
(*                                                                          *)
(* The lock of an item is held from run() until its function has ended; a   *)
(* reader takes it and gives it back at once, so to await collector[d] is   *)
(* to wait until d has ended.  gather ends at the first exception and       *)
(* leaves the other functions running; a cancellation reaches all of them.  *)
(* There is one collector for each execution of the event.                  *)
(***************************************************************************)
EXTENDS FiniteSets

CONSTANTS Runs,    \* executions of the event
          Steps,   \* the functions of the collector
          Shapes   \* possible dependencies: each function's awaited results

ASSUME ShapesAssumption == Shapes \subseteq [Steps -> SUBSET Steps]

VARIABLES needs,   \* what each function awaits, fixed by the event's code
          item,    \* of each execution and function: how far it is
          got,     \* of each execution and function: the results it has read
          gather   \* of each execution: what run() is doing

collector == <<needs, item, got, gather>>

ItemStates == {"none", "running", "done", "failed", "cancelled"}
GatherStates == {"none", "running", "done", "failed", "cancelled"}
Locked(r, s) == item[r][s] = "running"
Ended(r, s) == item[r][s] \in {"done", "failed", "cancelled"}

CollectorInit ==
    /\ needs \in Shapes
    /\ item = [r \in Runs |-> [s \in Steps |-> "none"]]
    /\ got = [r \in Runs |-> [s \in Steps |-> {}]]
    /\ gather = [r \in Runs |-> "none"]

Set(r, s, how) == item' = [item EXCEPT ![r][s] = how]

-----------------------------------------------------------------------------
\* Mutant: each function takes its lock when it starts.
RunUnlocked(r) ==
    /\ gather[r] = "none"
    /\ gather' = [gather EXCEPT ![r] = "running"]
    /\ Set(r, CHOOSE s \in Steps : TRUE, "running")
    /\ UNCHANGED <<needs, got>>

\* run: every lock is taken before the first function starts.
Run(r) ==
    /\ gather[r] = "none"
    /\ gather' = [gather EXCEPT ![r] = "running"]
    /\ item' = [item EXCEPT ![r] = [s \in Steps |-> "running"]]
    /\ UNCHANGED <<needs, got>>

\* Mutant: a function that raises keeps its lock.
GetReleased(r, s, d) ==
    /\ item[r][s] = "running" /\ d \in needs[s] \ got[r][s] /\ item[r][d] = "done"
    /\ got' = [got EXCEPT ![r][s] = @ \cup {d}]
    /\ UNCHANGED <<needs, item, gather>>

\* A function awaits collector[d]; of a function that failed there is no data.
Get(r, s, d) ==
    /\ item[r][s] = "running" /\ d \in needs[s] \ got[r][s] /\ ~Locked(r, d)
    /\ got' = [got EXCEPT ![r][s] = @ \cup {d}]
    /\ UNCHANGED <<needs, item, gather>>

Return(r, s) ==
    /\ item[r][s] = "running" /\ got[r][s] = needs[s]
    /\ Set(r, s, "done")
    /\ gather' = [gather EXCEPT ![r] =
                    IF @ = "running" /\ \A t \in Steps \ {s} : item[r][t] = "done"
                    THEN "done" ELSE @]
    /\ UNCHANGED <<needs, got>>

\* A function raises: its lock is released, run() raises if it has not yet.
Raise(r, s) ==
    /\ item[r][s] = "running"
    /\ Set(r, s, "failed")
    /\ gather' = [gather EXCEPT ![r] = IF @ = "running" THEN "failed" ELSE @]
    /\ UNCHANGED <<needs, got>>

\* The execution is cancelled while it waits in gather, and with it every
\* function that has not ended.
CancelRun(r) ==
    /\ gather[r] = "running"
    /\ gather' = [gather EXCEPT ![r] = "cancelled"]
    /\ item' = [item EXCEPT ![r] =
                  [s \in Steps |-> IF Locked(r, s) THEN "cancelled" ELSE @[s]]]
    /\ UNCHANGED <<needs, got>>

\* What a function does by itself.
Progress(r, s) == Return(r, s) \/ \E d \in Steps : Get(r, s, d)
CollectorStep(r) == \E s \in Steps : Progress(r, s) \/ Raise(r, s)

-----------------------------------------------------------------------------
CollectorTypeOK ==
    /\ needs \in Shapes
    /\ item \in [Runs -> [Steps -> ItemStates]]
    /\ got \in [Runs -> [Steps -> SUBSET Steps]]
    /\ gather \in [Runs -> GatherStates]

\* No cycle: every nonempty set of functions has one that awaits none of it.
Acyclic ==
    \A some \in SUBSET Steps : some # {} => \E s \in some : needs[s] \cap some = {}

\* A function that has read another's result has read the final one: nobody
\* gets past `await collector[d]` before d has ended, in whatever order the
\* functions start, fail or are cancelled (run, _get and _run_item).
ReadsAreFinal ==
    \A r \in Runs, s \in Steps, d \in Steps : d \in got[r][s] => Ended(r, d)

\* Without a cycle every function ends, also those that await one that fails
\* and those left behind when run() has already raised (_run_item).
FunctionsEnd ==
    \A r \in Runs : Acyclic /\ gather[r] = "running" ~> \A s \in Steps : Ended(r, s)
=============================================================================
