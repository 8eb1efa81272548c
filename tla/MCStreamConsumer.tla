-------------------------- MODULE MCStreamConsumer --------------------------
(* The configured queues, in reading order, for the model of StreamConsumer. *)
EXTENDS StreamConsumer

TwoQueues == <<"high", "low">>
=============================================================================
