------------------------------ MODULE MCFiles ------------------------------
(* What is read back from files that others write meanwhile: logs that grow *)
(* and rotate, and partitions that are saved.  The two share no state, so    *)
(* while TLC explores one of them the other stays as it began.               *)
EXTENDS MCLogStreamer, MCDataBlocks

VARIABLE part  \* "logs" or "blocks"

all == <<logs, blocks, part>>

NoLogs == log = (CHOOSE l \in Logs : TRUE) /\ LogInit

NoBlocks ==
    /\ format = (CHOOSE f \in Formats : TRUE) /\ interval = "day" /\ time = [r \in Rows |-> NoTime]
    /\ BlocksInit

MCInit ==
    \/ part = "logs" /\ NoBlocks /\ LogInit
    \/ part = "blocks" /\ NoLogs /\ BlocksInit

MCNext ==
    \/ part = "logs" /\ LogNext /\ UNCHANGED <<blocks, part>>
    \/ part = "blocks" /\ BlocksNext /\ UNCHANGED <<logs, part>>

MCSpec == MCInit /\ [][MCNext]_all
=============================================================================
