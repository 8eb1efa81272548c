----------------------- MODULE MCStreamCircuitBreaker -----------------------
(***************************************************************************)
(* Two or three callers and up to three back-off tasks: enough for an      *)
(* operation in flight when the breaker opens, one queued behind a sleep,  *)
(* and sleeps that queue behind each other.                                *)
(***************************************************************************)
EXTENDS StreamCircuitBreaker
=============================================================================
