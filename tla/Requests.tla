------------------------------- MODULE Requests -------------------------------
(***************************************************************************)
(* Requests to one event of a server (the handlers of server/web.py, the    *)
(* EventHandler of server/events.py, execute of server/engine.py, the hooks *)
(* of app/context.py): a route of the API is validated, the caller is       *)
(* authorized, the body read, the event initialized if it is not,           *)
(* preprocessed, executed within the response timeout, its results written  *)
(* to the event's stream in batches, and the answer postprocessed.  Forms   *)
(* are read field by field in the hook before the event, and a response may *)
(* be streamed by the one after it.                                         *)
(*                                                                          *)
(* The event's first step is a Collector, whose functions run concurrently. *)
(* A handler runs from one await to the next; the model also interleaves at *)
(* the few calls between two awaits that suspend only sometimes.            *)
(***************************************************************************)
EXTENDS Collector, Naturals, Sequences

CONSTANTS Handlers,   \* possible sets of hooks: "pre", "post"
          Outputs,    \* results of the event that go to its stream
          BatchSize

ASSUME RequestsAssumption ==
    /\ Handlers \subseteq SUBSET {"pre", "post"}
    /\ BatchSize \in Nat \ {0}

VARIABLES
    hooks,          \* configuration of the event
    at,             \* of each request: where its handler is
    answer,         \* of each request: how it was answered
    form,           \* of each request: how much of its form was read, if any
    initialized,    \* the flag of the event's module
    initializations,\* __init_event__ runs that have ended (0, 1, more)
    left, writing, written  \* of each request: results not in a batch yet,
                            \* being written, in the stream

output == <<left, writing, written>>
module == <<initialized, initializations>>
vars == <<collector, hooks, at, answer, form, module, output>>

Executing == {"execute", "init_execute", "collect", "write"}
Client == {"new", "json", "body", "fields", "streaming"}
Places == Client \cup Executing \cup
          {"authorize", "preprocess", "init_preprocess", "preprocessing",
           "postprocess", "respond", "end"}
Forms == {"none", "unread", "reading", "read"}
Answers == {"none", "done", "refused", "ignored", "failed", "timeout"}

Init ==
    /\ CollectorInit
    /\ hooks \in Handlers
    /\ at = [r \in Runs |-> "new"]
    /\ answer = [r \in Runs |-> "none"]
    /\ form = [r \in Runs |-> "none"]
    /\ initialized = FALSE /\ initializations = 0
    /\ left = [r \in Runs |-> Outputs]
    /\ writing = [r \in Runs |-> {}] /\ written = [r \in Runs |-> {}]

Goto(r, place) == at' = [at EXCEPT ![r] = place] /\ UNCHANGED answer
Answer(r, how) == /\ at' = [at EXCEPT ![r] = "end"]
                  /\ answer' = [answer EXCEPT ![r] = how]

-----------------------------------------------------------------------------
(* Validation, authorization and the body                                   *)

Rest == <<collector, hooks, module, output>>
Form(r, how) == form' = [form EXCEPT ![r] = how]

\* A route of the API is validated before its handler: security, parameters,
\* and a JSON body, which is awaited.  Without an API nothing is.
Validate(r) ==
    /\ at[r] = "new"
    /\ \/ Goto(r, "json") \/ Goto(r, "authorize") \/ Answer(r, "ignored")
    /\ UNCHANGED <<Rest, form>>

JsonRead(r) ==
    /\ at[r] = "json"
    /\ \/ Goto(r, "authorize") \/ Answer(r, "ignored")
    /\ UNCHANGED <<Rest, form>>

\* The handlers of GET, POST and multipart requests: the credentials may be
\* malformed, not accepted, or make the decoder raise.
Authorize(r) ==
    /\ at[r] = "authorize"
    /\ \/ Goto(r, "preprocess") /\ \E f \in {"none", "unread"} : Form(r, f)
       \/ Goto(r, "body") /\ UNCHANGED form
       \/ \E how \in {"ignored", "refused", "failed"} : Answer(r, how) /\ UNCHANGED form
    /\ UNCHANGED Rest

\* The body of a POST arrives; what does not parse is a bad request.
ReadBody(r) ==
    /\ at[r] = "body"
    /\ Goto(r, "preprocess") \/ Answer(r, "ignored")
    /\ UNCHANGED <<Rest, form>>

-----------------------------------------------------------------------------
(* Initialization and preprocessing                                         *)

Aside == <<collector, hooks, form, output>>

\* Mutant: the flag is set before __init_event__ is awaited.
EnsureInitializedEarly(r, then, waiting) ==
    /\ Goto(r, IF initialized THEN then ELSE waiting)
    /\ initialized' = TRUE /\ UNCHANGED <<Aside, initializations>>

\* _ensure_initialized up to the await of __init_event__.
EnsureInitialized(r, then, waiting) ==
    /\ Goto(r, IF initialized THEN then ELSE waiting)
    /\ UNCHANGED <<Aside, module>>

Initialized(r, waiting, then) ==
    /\ at[r] = waiting
    /\ \/ /\ Goto(r, then)
          /\ initialized' = TRUE /\ initializations' = IF initializations = 0 THEN 1 ELSE 2
       \/ Answer(r, "failed") /\ UNCHANGED module
    /\ UNCHANGED Aside

Preprocess(r) ==
    /\ at[r] = "preprocess"
    /\ IF "pre" \in hooks THEN EnsureInitialized(r, "preprocessing", "init_preprocess")
       ELSE Goto(r, "execute") /\ Form(r, "none") /\ UNCHANGED Rest

\* The hook goes on with its iteration over the fields, or begins it.
NextField(r) ==
    /\ at[r] = "preprocessing" /\ form[r] \in {"unread", "reading"}
    /\ Goto(r, "fields") /\ Form(r, "reading")
    /\ UNCHANGED Rest

\* A field arrives, or the end of the form, or a field that is not JSON, which
\* ends the iteration by an exception the hook may catch.
FieldRead(r) ==
    /\ at[r] = "fields"
    /\ \/ Goto(r, "preprocessing") /\ \E f \in {"reading", "read"} : Form(r, f)
       \/ Answer(r, "ignored") /\ Form(r, "none")
    /\ UNCHANGED Rest

\* The hook lets the request go on, with whatever it has read of the form,
\* sets a status that ends it (without postprocessing) or raises, also when
\* it iterates over the fields a second time.
Preprocessed(r) ==
    /\ at[r] = "preprocessing"
    /\ \/ Goto(r, "execute")
       \/ \E how \in {"refused", "ignored", "failed"} : Answer(r, how)
    /\ Form(r, "none")
    /\ UNCHANGED Rest

-----------------------------------------------------------------------------
(* Execution, under wait_for                                                *)

Execute(r) ==
    /\ at[r] = "execute"
    /\ IF initialized
       THEN Run(r) /\ Goto(r, "collect")
       ELSE Goto(r, "init_execute") /\ UNCHANGED collector
    /\ UNCHANGED <<hooks, form, module, output>>

InitializedExecute(r) == Initialized(r, "init_execute", "execute")

Outside == <<hooks, at, answer, form, module>>

Collect(r) == CollectorStep(r) /\ UNCHANGED <<Outside, output>>

\* gather has ended: its exception is the answer, or the results follow.
Collected(r) ==
    /\ at[r] = "collect"
    /\ \/ gather[r] = "done" /\ Goto(r, "write")
       \/ gather[r] = "failed" /\ \E how \in {"ignored", "failed"} : Answer(r, how)
    /\ UNCHANGED <<Rest, form>>

\* A later step yields results; a full batch, or what is left, is written.
WriteBatch(r) ==
    /\ at[r] = "write" /\ writing[r] = {} /\ left[r] # {}
    /\ \E batch \in SUBSET left[r] :
          /\ batch # {} /\ (Cardinality(batch) = BatchSize \/ (batch = left[r] /\ Cardinality(batch) < BatchSize))
          /\ left' = [left EXCEPT ![r] = @ \ batch]
          /\ writing' = [writing EXCEPT ![r] = batch]
    /\ UNCHANGED <<collector, Outside, written>>

\* A write ends, also one whose request has failed meanwhile.
Write(r) ==
    \E o \in writing[r] :
       /\ writing' = [writing EXCEPT ![r] = @ \ {o}]
       /\ written' = [written EXCEPT ![r] = @ \cup {o}]
       /\ UNCHANGED <<collector, Outside, left>>

\* Mutant: gather collects the exceptions of the writes.
WriteFailsQuietly(r) ==
    \E o \in writing[r] :
       /\ writing' = [writing EXCEPT ![r] = @ \ {o}]
       /\ UNCHANGED <<collector, Outside, left, written>>

\* A write fails: so does the request, while the rest of the batch goes on.
WriteFails(r) ==
    \E o \in writing[r] :
       /\ writing' = [writing EXCEPT ![r] = @ \ {o}]
       /\ IF at[r] = "write" THEN Answer(r, "failed") ELSE UNCHANGED <<at, answer>>
       /\ UNCHANGED <<collector, hooks, form, module, left, written>>

\* A later step raises when some of the batches are already written.
StepFails(r) ==
    /\ at[r] = "write" /\ writing[r] = {} /\ left[r] # {}
    /\ \E how \in {"ignored", "failed"} : Answer(r, how)
    /\ UNCHANGED <<Rest, form>>

Executed(r) ==
    /\ at[r] = "write" /\ writing[r] = {} /\ left[r] = {}
    /\ Goto(r, "postprocess")
    /\ UNCHANGED <<Rest, form>>

\* Mutant: only the writes are under the timeout.
TimeoutOfWrites(r) ==
    /\ at[r] = "write"
    /\ Answer(r, "timeout")
    /\ writing' = [writing EXCEPT ![r] = {}]
    /\ UNCHANGED <<collector, hooks, form, module, left, written>>

\* Mutant: the answer is sent and the work left running.
TimeoutLeaving(r) ==
    /\ at[r] \in Executing
    /\ Answer(r, "timeout")
    /\ UNCHANGED <<Rest, form>>

\* The response timeout cancels whatever the execution awaits.
Timeout(r) ==
    /\ at[r] \in Executing
    /\ Answer(r, "timeout")
    /\ IF gather[r] = "running" THEN CancelRun(r) ELSE UNCHANGED collector
    /\ writing' = [writing EXCEPT ![r] = {}]
    /\ UNCHANGED <<hooks, form, module, left, written>>

\* The hook may raise, or send a stream as the response.
Postprocess(r) ==
    /\ at[r] = "postprocess"
    /\ \/ Goto(r, "respond")
       \/ "post" \in hooks /\ \/ Goto(r, "streaming")
                              \/ \E how \in {"ignored", "failed"} : Answer(r, how)
    /\ UNCHANGED <<Rest, form>>

\* The client has taken a chunk of the stream, or its headers.
Stream(r) == at[r] = "streaming" /\ Goto(r, "postprocess") /\ UNCHANGED <<Rest, form>>

\* The result does not serialize, there is no such file, or the status of a
\* stream is set when its headers have gone out.
Respond(r) ==
    /\ at[r] = "respond"
    /\ \E how \in {"done", "failed"} : Answer(r, how)
    /\ UNCHANGED <<Rest, form>>

-----------------------------------------------------------------------------
InitializedPreprocess(r) == Initialized(r, "init_preprocess", "preprocessing")

\* What the server does of itself once it has the request.
Handle(r) ==
    \/ Authorize(r) \/ Preprocess(r) \/ InitializedPreprocess(r)
    \/ NextField(r) \/ Preprocessed(r)
    \/ Execute(r) \/ InitializedExecute(r) \/ Collected(r)
    \/ WriteBatch(r) \/ Write(r) \/ Executed(r)
    \/ Postprocess(r) \/ Respond(r)

Next == \E r \in Runs :
    \/ Validate(r) \/ JsonRead(r) \/ ReadBody(r) \/ FieldRead(r) \/ Stream(r)
    \/ Handle(r)
    \/ Collect(r) \/ WriteFails(r) \/ StepFails(r) \/ Timeout(r)

\* Hooks and __init_event__ end, writes end, timers fire, and a function that
\* awaits nothing returns.  Nothing is assumed of the client.
Fairness ==
    \A r \in Runs :
        /\ WF_vars(Handle(r)) /\ WF_vars(Timeout(r))
        /\ \A s \in Steps : WF_vars(Progress(r, s) /\ UNCHANGED <<Outside, output>>)

Spec == Init /\ [][Next]_vars /\ Fairness

-----------------------------------------------------------------------------
(* Properties                                                               *)

TypeOK ==
    /\ CollectorTypeOK
    /\ hooks \in Handlers
    /\ at \in [Runs -> Places] /\ answer \in [Runs -> Answers]
    /\ form \in [Runs -> Forms]
    /\ initialized \in BOOLEAN /\ initializations \in 0..2
    /\ left \in [Runs -> SUBSET Outputs] /\ writing \in [Runs -> SUBSET Outputs]
    /\ written \in [Runs -> SUBSET Outputs]
    /\ \A r \in Runs : answer[r] = "none" <=> at[r] # "end"

\* Hooks and steps of the event run only after an __init_event__ has ended
\* well, however many first requests initialize it at once, fail or time out
\* (_ensure_initialized, preprocess and handle_async_event).
InitializedFirst ==
    \A r \in Runs :
        (at[r] \in {"preprocessing", "fields", "collect", "write", "postprocess", "streaming", "respond"} \/ gather[r] # "none")
        => initializations > 0

\* A request that is answered as done has run every function of the collector
\* and has every result in the stream (_execute_event and gather).
SuccessIsComplete ==
    \A r \in Runs : answer[r] = "done" =>
        written[r] = Outputs /\ \A s \in Steps : item[r][s] = "done"

\* Once the timeout of a request is answered nothing more of it reaches the
\* stream, and none of its functions runs any more, unless one had raised
\* already, when gather leaves the others alone (execute and run).
TimeoutStopsWork ==
    \A r \in Runs : answer[r] = "timeout" =>
        /\ writing[r] = {}
        /\ gather[r] # "failed" => \A s \in Steps : ~Locked(r, s)

\* A request is answered or waits for its client, for the body, a field of the
\* form or the reading of a stream, also when functions of the collector wait
\* for each other: the timeout is there for that.
RequestsEnd ==
    \A r \in Runs : at[r] \notin Client ~> at[r] \in Client \cup {"end"}
===============================================================================
