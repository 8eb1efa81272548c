--------------------------- MODULE BreakerPromise ---------------------------
(***************************************************************************)
(* What the circuit breaker of hopeit.streams promises to the operations   *)
(* that share it, with the lock, the back-off tasks and the counting of    *)
(* failures left out.                                                      *)
(*                                                                         *)
(* The breaker has three levels.  A success moves it one level towards     *)
(* closed, a failure at most one level towards open.  While it is not      *)
(* closed it has a delay, and from time to time it rests for that delay;   *)
(* no operation is admitted to the broker during a rest, unless the delay  *)
(* has been dropped in the meantime.                                       *)
(***************************************************************************)
EXTENDS Naturals

CONSTANTS
    Callers,      \* the operations that may be in flight together
    FirstDelay,   \* the delay after the first failure
    LongestDelay  \* the cap on the delay

VARIABLES
    level,        \* 0 closed, 1 semi-open, 2 open
    delay,        \* how long the next rest takes
    resting,      \* TRUE during a rest
    admitted      \* operations whose call to the broker is in flight

vars == <<level, delay, resting, admitted>>

Lesser(a, b) == IF a <= b THEN a ELSE b

Init ==
    /\ level = 0
    /\ delay = 0
    /\ resting = FALSE
    /\ admitted = {}

Admit(p) ==
    /\ p \notin admitted
    /\ ~resting \/ delay = 0
    /\ admitted' = admitted \cup {p}
    /\ UNCHANGED <<level, delay, resting>>

Succeed(p) ==
    /\ p \in admitted
    /\ admitted' = admitted \ {p}
    /\ level' = IF level = 0 THEN 0 ELSE level - 1
    /\ delay' = IF level' = 0 THEN 0 ELSE FirstDelay
    /\ UNCHANGED resting

Fail(p) ==
    /\ p \in admitted
    /\ admitted' = admitted \ {p}
    /\ \/ level = 0 /\ level' = 1 /\ delay' = FirstDelay
       \/ level = 1 /\ level' \in {1, 2} /\ delay' = delay
       \/ level = 2 /\ level' = 2 /\ delay' = Lesser(LongestDelay, 2 * delay)
    /\ UNCHANGED resting

GiveUp(p) ==
    /\ p \in admitted
    /\ admitted' = admitted \ {p}
    /\ UNCHANGED <<level, delay, resting>>

Rest ==
    /\ ~resting
    /\ delay > 0
    /\ resting' = TRUE
    /\ UNCHANGED <<level, delay, admitted>>

Resume ==
    /\ resting
    /\ resting' = FALSE
    /\ UNCHANGED <<level, delay, admitted>>

Next ==
    \/ \E p \in Callers : Admit(p) \/ Succeed(p) \/ Fail(p) \/ GiveUp(p)
    \/ Rest
    \/ Resume

Safety == Init /\ [][Next]_vars

\* A rest ends.
Spec == Safety /\ WF_vars(Resume)
=============================================================================
