----------------------------- MODULE MCRequests -----------------------------
(* Functions that do not depend on each other, that do, and that wait for   *)
(* each other, in an event with hooks and one without.                      *)
EXTENDS Requests
CONSTANTS s1, s2

Dependencies == {[s \in Steps |-> {}],
                 [s \in Steps |-> IF s = s1 THEN {s2} ELSE {}],
                 [s \in Steps |-> Steps \ {s}]}
Hooks == {{}, {"pre", "post"}}
=============================================================================
