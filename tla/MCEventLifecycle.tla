-------------------------- MODULE MCEventLifecycle --------------------------
(***************************************************************************)
(* One stream and one service with three task identities, so that an event *)
(* can be started again while its old task waits for its callback, and two *)
(* concurrent calls of stop.                                               *)
(***************************************************************************)
EXTENDS EventLifecycle
=============================================================================
