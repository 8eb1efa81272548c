----------------------------- MODULE EventStages -----------------------------
(***************************************************************************)
(* An event whose steps are split at each SHUFFLE into stages that pass     *)
(* their results on through streams (server/steps.py, _write_stream and     *)
(* _config_effective_events of server/engine.py).                           *)
(*                                                                          *)
(* Step functions are data: a step takes payloads of one type, or any       *)
(* DataObject, or None, and turns each into the sequence of its results,    *)
(* one for a plain step and any number for one that yields (Spawn).  Types  *)
(* are not subclasses of each other.                                        *)
(*                                                                          *)
(* A stage is named by the position of its first step.  The code names it   *)
(* by the function of that step: the two agree for events in which the      *)
(* function that begins a stage is in no other place, the only ones here.   *)
(***************************************************************************)
EXTENDS Integers, FiniteSets, Sequences, Bags, SequencesExt, FiniteSetsExt

CONSTANTS Types,      \* dataobjects
          None, DataObject, Shuffle,
          Programs,   \* possible __steps__ of the event
          ReadQueues, \* possible queues of its read_stream, <<"AUTO">> if none
          Writers     \* possible write_stream descriptors

ASSUME StagesAssumption ==
    /\ None \notin Types /\ DataObject \notin Types
    /\ \A p \in Programs :
          /\ p \in Seq(ToSet(p)) /\ Len(p) > 0 /\ p[1] # Shuffle
          /\ \A i \in 2..Len(p) : ~(p[i] = Shuffle /\ p[i - 1] = Shuffle)
          /\ \A i \in 1..Len(p) : p[i] # Shuffle => p[i].out \in Seq(Types \cup {None})
    /\ \A w \in Writers : w.queues \in Seq(ToSet(w.queues))

VARIABLES
    steps,     \* __steps__
    queues, writer, \* configuration of the event's streams
    given,     \* the message the event is given
    stream,    \* of each stage, the bag of messages it has not taken yet
    results,   \* the bag of messages in the event's write_stream
    rejected   \* the number of messages a stage could not decode

config == <<steps, queues, writer, given>>
stages == <<config, stream, results, rejected>>
Positions == DOMAIN steps

-----------------------------------------------------------------------------
(* Stages: extract_event_stages, effective_steps, split_event_stages        *)

Stages == {i \in Positions : steps[i] # Shuffle /\ (i = 1 \/ steps[i - 1] = Shuffle)}
NextStage(s) == LET later == {t \in Stages : t > s} IN IF later = {} THEN 0 ELSE Min(later)

\* Mutant: the steps of a stage go on after the SHUFFLE.
EffectiveUnbroken(s) == {i \in Positions : i >= s /\ steps[i] # Shuffle}
EffectiveSteps(s) == {i \in Positions : i >= s /\ \A j \in s..i : steps[j] # Shuffle}

\* The types in the signatures of a stage's steps.
InputTypes(s) == {steps[i].in : i \in EffectiveSteps(s)}

\* The event itself keeps its list of dataobjects (all Types here), the
\* descriptors that are made for stages have none.
DataObjects == IF Cardinality(Stages) = 1 THEN Types ELSE {}

\* The types a stage can decode: _find_stream_datatype_handlers.
Handled(s) ==
    (InputTypes(s) \cap Types) \cup (IF DataObject \in InputTypes(s) THEN DataObjects ELSE {})

\* Mutant: a stage reads the default queue only.
DefaultQueueOf(s) == IF s = 1 THEN queues ELSE <<"AUTO">>
QueuesOf(s) == queues

WriterOf(s) == IF NextStage(s) = 0 THEN writer
               ELSE [queues |-> <<"AUTO">>, strategy |-> "PROPAGATE"]

-----------------------------------------------------------------------------
(* Execution: _find_next_step, _execute_steps_recursion, execute_steps      *)

\* The next step for a payload: the first for its type, else the first that
\* takes any dataobject; 0 if there is none.
NextStep(prog, payload, among, i) ==
    LET later == {j \in among : j > i}
        typed == {j \in later : prog[j].in = payload}
        generic == {j \in later : payload # None /\ prog[j].in = DataObject}
    IN  IF typed # {} THEN Min(typed) ELSE IF generic # {} THEN Min(generic) ELSE 0

\* What comes out of the steps for a payload that step i has produced: a
\* payload no later step takes, unless it is None, which is never written.
Outcome(prog, among) ==
    LET from[i \in 0..Len(prog)] ==
          [payload \in Types \cup {None} |->
             LET j == NextStep(prog, payload, among, i) IN
             IF j # 0 THEN FlattenSeq([k \in DOMAIN prog[j].out |-> from[j][prog[j].out[k]]])
             ELSE IF payload = None THEN <<>> ELSE <<payload>>]
    IN  from

\* The results in order; a payload no step takes gives none.
ExecuteSteps(prog, payload, among, i) ==
    IF NextStep(prog, payload, among, i) = 0 THEN <<>> ELSE Outcome(prog, among)[i][payload]

-----------------------------------------------------------------------------
(* Writing: one copy of a result for each configured queue                  *)

Message(payload, label, w, queue) ==
    [data  |-> payload,
     label |-> IF w.strategy = "DROP" THEN queue ELSE label,
     queue |-> IF label # "AUTO" /\ queue = "AUTO" /\ w.strategy = "PROPAGATE"
               THEN label ELSE queue]

Written(payloads, label, w) ==
    LET made == [kq \in (DOMAIN payloads) \X (DOMAIN w.queues) |->
                   Message(payloads[kq[1]], label, w, w.queues[kq[2]])]
    IN  [m \in {made[kq] : kq \in DOMAIN made} |->
            Cardinality({kq \in DOMAIN made : made[kq] = m})]

-----------------------------------------------------------------------------
Messages == [data: Types, label: {"AUTO"} \cup ToSet(queues),
             queue: {"AUTO"} \cup ToSet(queues) \cup ToSet(writer.queues)]

\* The event is given one message its first stage can decode.  A producer may
\* have labelled it with another queue than the one it is in.
StagesInit ==
    /\ steps \in Programs /\ queues \in ReadQueues /\ writer \in Writers
    /\ given \in {m \in Messages : m.data \in Handled(1) /\ m.queue \in ToSet(queues)}
    /\ stream = [s \in Stages |-> IF s = 1 THEN SetToBag({given}) ELSE EmptyBag]
    /\ results = EmptyBag /\ rejected = 0

\* Stage s takes a message from one of its queues and executes its steps; the
\* results go to the stream of the next stage, or are those of the event.
Consume(s) ==
    \E m \in BagToSet(stream[s]) :
       LET rest == [stream EXCEPT ![s] = @ (-) SetToBag({m})]
           new == Written(ExecuteSteps(steps, m.data, EffectiveSteps(s), s - 1), m.label, WriterOf(s))
       IN
       /\ m.queue \in ToSet(QueuesOf(s)) /\ Handled(s) # {}
       /\ IF m.data \notin Handled(s)
          THEN stream' = rest /\ rejected' = rejected + 1 /\ UNCHANGED results
          ELSE /\ UNCHANGED rejected
               /\ IF NextStage(s) = 0 THEN stream' = rest /\ results' = results (+) new
                  ELSE stream' = [rest EXCEPT ![NextStage(s)] = @ (+) new] /\ UNCHANGED results
       /\ UNCHANGED config

StagesNext == \E s \in Stages : Consume(s)

StagesSpec == StagesInit /\ [][StagesNext]_stages

-----------------------------------------------------------------------------
(* Properties                                                               *)

Drained == \A s \in Stages : stream[s] = EmptyBag

\* What SHUFFLE asks of the steps around it: what a stage gives the next can
\* take; no step of a later stage waits for None, which is never written; no
\* step takes any dataobject, since stages have no list of them.
Passes ==
    \/ Cardinality(Stages) = 1
    \/ /\ \A i \in Positions : steps[i] # Shuffle => steps[i].in # DataObject
       /\ \A s \in Stages \ {1} : \A i \in EffectiveSteps(s) : steps[i].in # None
       /\ \A s \in Stages : NextStage(s) # 0 => \A p \in Handled(s) :
             ToSet(ExecuteSteps(steps, p, EffectiveSteps(s), s - 1)) \subseteq Handled(NextStage(s))

\* Splitting an event at its SHUFFLEs changes where its steps run and nothing
\* else: in whatever order the stages take their messages, the results, with
\* their queues, are those of all the steps in one event.
SplitIsTransparent ==
    Drained /\ Passes =>
        /\ rejected = 0
        /\ results = Written(ExecuteSteps(steps, given.data, {i \in Positions : steps[i] # Shuffle}, 0),
                             given.label, writer)

\* No message waits where nobody reads, when the label of what the event is
\* given is one of the queues it reads: every stage reads the queues its
\* predecessor writes, and can decode something (split_event_stages).
NothingIsLeftBehind ==
    Passes /\ given.label \in ToSet(queues) =>
        \A s \in Stages : stream[s] # EmptyBag =>
            Handled(s) # {} /\ \A m \in BagToSet(stream[s]) : m.queue \in ToSet(QueuesOf(s))
=============================================================================
