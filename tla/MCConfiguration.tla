--------------------------- MODULE MCConfiguration ---------------------------
(* What the configuration of a process makes of it: the applications that    *)
(* are started, and the stages its events are split into.  The two share no  *)
(* state, so while TLC explores one of them the other stays as it began.     *)
EXTENDS MCServerStartup, MCEventStages

VARIABLE part  \* "startup" or "stages"

all == <<vars, stages, part>>

NoStages ==
    /\ steps = CHOOSE p \in Programs : TRUE
    /\ queues = <<"AUTO">> /\ writer = CHOOSE w \in Writers : TRUE
    /\ given = [data |-> A, label |-> "AUTO", queue |-> "AUTO"]
    /\ StagesInit

NoStartup ==
    /\ conf = CHOOSE c \in Configs : TRUE
    /\ order = <<main>> /\ launcher = "job"
    /\ request = CHOOSE e \in Events : TRUE
    /\ Init

MCInit ==
    \/ part = "startup" /\ NoStages /\ Init
    \/ part = "stages" /\ NoStartup /\ StagesInit

MCNext ==
    \/ part = "startup" /\ Next /\ UNCHANGED <<stages, part>>
    \/ part = "stages" /\ StagesNext /\ UNCHANGED <<vars, part>>

MCSpec == MCInit /\ [][MCNext]_all
=============================================================================
