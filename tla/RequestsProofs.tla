---------------------------- MODULE RequestsProofs ----------------------------
(***************************************************************************)
(* Proofs about Requests and its Collector, for any number of requests,     *)
(* functions and results, any dependencies and any size of the batches.     *)
(*                                                                          *)
(* The collector's part is inductive on its own.  For the requests it is    *)
(* added where the results are at each place of the handler, and that what  *)
(* is answered with a timeout left no gather behind that still runs.        *)
(*                                                                          *)
(* And about EventStages, for any steps: a stage finds what the stage before *)
(* it has written, and splitting an event changes nothing of its results.   *)
(***************************************************************************)
EXTENDS Requests, EventStages, FunctionTheorems, SequenceTheorems, FiniteSetTheorems,
        WellFoundedInduction, TLAPS

-----------------------------------------------------------------------------
(* The collector                                                            *)

\* What gather says of its functions (run, _run_item).
GatherAgrees ==
    \A r \in Runs :
        /\ gather[r] = "none" => \A s \in Steps : got[r][s] = {} /\ item[r][s] = "none"
        /\ gather[r] # "none" => \A s \in Steps : item[r][s] # "none"
        /\ gather[r] = "done" => \A s \in Steps : item[r][s] = "done"
        /\ gather[r] = "cancelled" => \A s \in Steps : ~Locked(r, s)

CollectorInv == CollectorTypeOK /\ GatherAgrees /\ ReadsAreFinal

\* What the requests need to know of a step of a collector that has started.
Kept ==
    \A r \in Runs :
        /\ gather'[r] = "none" <=> gather[r] = "none"
        /\ gather[r] = "done" => gather'[r] = "done"
        /\ gather'[r] = "running" => gather[r] = "running"

LEMMA CollectorStarts == CollectorInit => CollectorInv
BY ShapesAssumption
   DEF CollectorInit, CollectorInv, CollectorTypeOK, GatherAgrees, ReadsAreFinal,
       ItemStates, GatherStates

\* Of one execution the functions change, and the ones that have ended stay so.
LEMMA RunMoves ==
    ASSUME CollectorInv, NEW r \in Runs, NEW g \in GatherStates,
           NEW its \in [Steps -> ItemStates], NEW reads \in [Steps -> SUBSET Steps],
           gather' = [gather EXCEPT ![r] = g], item' = [item EXCEPT ![r] = its],
           got' = [got EXCEPT ![r] = reads], UNCHANGED needs,
           g # "none", \A s \in Steps : its[s] # "none",
           g = "done" => \A s \in Steps : its[s] = "done",
           g = "cancelled" => \A s \in Steps : its[s] # "running",
           \A s \in Steps : \A d \in reads[s] : its[d] \in {"done", "failed", "cancelled"}
    PROVE  CollectorInv'
<1> USE DEF CollectorInv, CollectorTypeOK
<1>1. /\ gather'[r] = g /\ item'[r] = its /\ got'[r] = reads
      /\ \A q \in Runs \ {r} : /\ gather'[q] = gather[q] /\ item'[q] = item[q]
                               /\ got'[q] = got[q]
    OBVIOUS
<1>2. CollectorTypeOK'
    OBVIOUS
<1>3. GatherAgrees'
    BY <1>1 DEF GatherAgrees, Locked
<1>4. ReadsAreFinal'
    BY <1>1 DEF ReadsAreFinal, Ended
<1> QED
    BY <1>2, <1>3, <1>4

LEMMA RunKeeps ==
    ASSUME CollectorInv, NEW r \in Runs, Run(r)
    PROVE  CollectorInv' /\ \A q \in Runs \ {r} : gather'[q] = gather[q]
<1> DEFINE its == [s \in Steps |-> "running"]
<1>1. its \in [Steps -> ItemStates] /\ "running" \in GatherStates
    BY DEF ItemStates, GatherStates
<1>2. /\ got[r] \in [Steps -> SUBSET Steps] /\ got' = [got EXCEPT ![r] = got[r]]
      /\ UNCHANGED needs
    BY DEF Run, CollectorInv, CollectorTypeOK
<1>3. \A s \in Steps : got[r][s] = {}
    BY DEF Run, CollectorInv, GatherAgrees
<1>4. \A s \in Steps : its[s] # "none"
    OBVIOUS
<1>5. \A s \in Steps : \A d \in got[r][s] : its[d] \in {"done", "failed", "cancelled"}
    BY <1>3
<1>6. item' = [item EXCEPT ![r] = its] /\ gather' = [gather EXCEPT ![r] = "running"]
    BY DEF Run
<1> HIDE DEF its
<1>7. CollectorInv'
    BY <1>1, <1>2, <1>4, <1>5, <1>6, RunMoves
<1> QED
    BY <1>6, <1>7 DEF CollectorInv, CollectorTypeOK

LEMMA CancelKeeps ==
    ASSUME CollectorInv, NEW r \in Runs, CancelRun(r)
    PROVE  CollectorInv' /\ Kept /\ gather'[r] = "cancelled"
<1> USE DEF CancelRun, CollectorInv, CollectorTypeOK
<1> DEFINE its == [s \in Steps |-> IF Locked(r, s) THEN "cancelled" ELSE item[r][s]]
<1>1. its \in [Steps -> ItemStates] /\ "cancelled" \in GatherStates
    BY DEF ItemStates, GatherStates
<1>2. got[r] \in [Steps -> SUBSET Steps] /\ got' = [got EXCEPT ![r] = got[r]]
    OBVIOUS
<1>3. \A s \in Steps : its[s] # "running" /\ its[s] # "none"
    BY DEF Locked, GatherAgrees
<1>4. \A s \in Steps : \A d \in got[r][s] : its[d] \in {"done", "failed", "cancelled"}
    BY <1>2 DEF ReadsAreFinal, Ended, Locked
<1>5. item' = [item EXCEPT ![r] = its] /\ gather' = [gather EXCEPT ![r] = "cancelled"]
    OBVIOUS
<1>6. CollectorInv'
    <2> HIDE DEF its
    <2> QED
        BY <1>1, <1>2, <1>3, <1>4, <1>5, RunMoves
<1> QED
    BY <1>6 DEF Kept

LEMMA StepKeeps ==
    ASSUME CollectorInv, NEW r \in Runs, CollectorStep(r)
    PROVE  CollectorInv' /\ Kept
<1> USE DEF CollectorInv, CollectorTypeOK
<1>1. PICK s \in Steps : Progress(r, s) \/ Raise(r, s)
    BY DEF CollectorStep
<1>2. got[r] \in [Steps -> SUBSET Steps] /\ item[r] \in [Steps -> ItemStates]
      /\ gather[r] \in GatherStates
    OBVIOUS
<1>3. ASSUME NEW how \in {"done", "failed"}, item[r][s] = "running", Set(r, s, how),
             NEW g \in GatherStates, gather' = [gather EXCEPT ![r] = g], UNCHANGED <<needs, got>>,
             g = "done" => gather[r] = "done" \/ (how = "done" /\ \A t \in Steps \ {s} : item[r][t] = "done"),
             g = "cancelled" => gather[r] = "cancelled", g # "none"
      PROVE  CollectorInv'
    <2> DEFINE its == [item[r] EXCEPT ![s] = how]
    <2>1. its \in [Steps -> ItemStates] /\ item' = [item EXCEPT ![r] = its]
        BY <1>2, <1>3 DEF Set, ItemStates
    <2>2. its[s] = how /\ \A t \in Steps \ {s} : its[t] = item[r][t]
        BY <1>2
    <2>3. gather[r] \notin {"done", "cancelled"}
        BY <1>3 DEF GatherAgrees, Locked
    <2>4. g = "done" => \A t \in Steps : its[t] = "done"
        BY <1>3, <2>2, <2>3
    <2>5. g # "cancelled"
        BY <1>3, <2>3
    <2>8. \A t \in Steps : its[t] # "none"
        BY <1>2, <1>3, <2>2 DEF GatherAgrees
    <2>6. \A t \in Steps : \A d \in got[r][t] : its[d] \in {"done", "failed", "cancelled"}
        BY <1>2, <1>3, <2>2 DEF ReadsAreFinal, Ended
    <2>7. got' = [got EXCEPT ![r] = got[r]]
        BY <1>3
    <2> HIDE DEF its
    <2> QED
        BY <1>2, <1>3, <2>1, <2>4, <2>5, <2>6, <2>7, <2>8, RunMoves
<1>4. CASE Return(r, s)
    <2> DEFINE g == IF gather[r] = "running" /\ \A t \in Steps \ {s} : item[r][t] = "done"
                    THEN "done" ELSE gather[r]
    <2>1. g \in GatherStates /\ gather' = [gather EXCEPT ![r] = g]
        BY <1>2, <1>4 DEF Return, GatherStates
    <2>2. gather[r] # "none"
        BY <1>4 DEF Return, GatherAgrees
    <2>3. CollectorInv'
        BY <1>3, <1>4, <2>1, <2>2 DEF Return
    <2> QED
        BY <1>2, <2>1, <2>2, <2>3 DEF Kept
<1>5. CASE Raise(r, s)
    <2> DEFINE g == IF gather[r] = "running" THEN "failed" ELSE gather[r]
    <2>1. g \in GatherStates /\ gather' = [gather EXCEPT ![r] = g]
        BY <1>2, <1>5 DEF Raise, GatherStates
    <2>2. gather[r] # "none"
        BY <1>5 DEF Raise, GatherAgrees
    <2>3. CollectorInv'
        BY <1>3, <1>5, <2>1, <2>2 DEF Raise
    <2> QED
        BY <1>2, <2>1, <2>2, <2>3 DEF Kept
<1>6. ASSUME NEW d \in Steps, Get(r, s, d)
      PROVE  CollectorInv' /\ Kept
    <2> DEFINE reads == [got[r] EXCEPT ![s] = @ \cup {d}]
    <2>1. reads \in [Steps -> SUBSET Steps] /\ got' = [got EXCEPT ![r] = reads]
        BY <1>2, <1>6 DEF Get
    <2>2. gather[r] \notin {"none", "done", "cancelled"}
        BY <1>6 DEF Get, GatherAgrees, Locked
    <2>3. gather' = [gather EXCEPT ![r] = gather[r]] /\ item' = [item EXCEPT ![r] = item[r]]
        BY <1>6 DEF Get
    <2>4. \A t \in Steps : item[r][t] # "none"
        BY <2>2 DEF GatherAgrees
    <2>5. item[r][d] \in {"done", "failed", "cancelled"}
        BY <1>2, <1>6, <2>4 DEF Get, Locked, ItemStates
    <2>6. \A t \in Steps : \A e \in reads[t] : item[r][e] \in {"done", "failed", "cancelled"}
        BY <1>2, <2>5 DEF ReadsAreFinal, Ended
    <2>7. CollectorInv'
        <3> HIDE DEF reads
        <3> QED
            BY <1>2, <1>6, <2>1, <2>2, <2>3, <2>4, <2>6, RunMoves DEF Get
    <2> QED
        BY <1>6, <2>7 DEF Get, Kept
<1> QED
    BY <1>1, <1>4, <1>5, <1>6 DEF Progress

-----------------------------------------------------------------------------
(* The requests                                                             *)

\* Where hooks or steps of the event run, or have run.
Hooked == {"preprocessing", "fields", "collect", "write", "postprocess", "streaming", "respond"}
After == {"postprocess", "streaming", "respond"}

\* Nothing runs before the event is initialized (_ensure_initialized).
FlagIsTrue == initialized => initializations > 0

\* Where the results of a request are (_execute_event, _write_stream_batch).
ResultsPlaced ==
    \A r \in Runs :
        /\ at[r] \notin {"write", "end"} => writing[r] = {}
        /\ at[r] \notin After \cup {"write", "end"} => left[r] = Outputs
        /\ at[r] = "write" => left[r] \cup writing[r] \cup written[r] = Outputs
        /\ at[r] \in After => written[r] = Outputs
        /\ at[r] \in After \cup {"write"} => gather[r] = "done"

\* A request answered as done, or with a timeout (execute).
AnsweredWell ==
    \A r \in Runs :
        /\ answer[r] = "done" => written[r] = Outputs /\ gather[r] = "done"
        /\ answer[r] = "timeout" => writing[r] = {} /\ gather[r] # "running"

RequestsInv == TypeOK /\ FlagIsTrue /\ InitializedFirst /\ ResultsPlaced /\ AnsweredWell
Inv == CollectorInv /\ RequestsInv

LEMMA InitInv == Init => Inv
<1> SUFFICES ASSUME Init
             PROVE  Inv
    OBVIOUS
<1>1. CollectorInv
    BY CollectorStarts DEF Init
<1>2. TypeOK
    <2>1. at \in [Runs -> Places] /\ answer \in [Runs -> Answers] /\ form \in [Runs -> Forms]
        BY DEF Init, Places, Client, Answers, Forms
    <2>2. \A r \in Runs : answer[r] = "none" /\ at[r] # "end"
        BY DEF Init
    <2>3. initialized \in BOOLEAN
        BY DEF Init
    <2>5. initializations \in 0..2
        BY DEF Init
    <2>4. left \in [Runs -> SUBSET Outputs] /\ writing \in [Runs -> SUBSET Outputs]
          /\ written \in [Runs -> SUBSET Outputs] /\ hooks \in Handlers
        BY DEF Init
    <2> QED
        BY <1>1, <2>1, <2>2, <2>3, <2>4, <2>5 DEF CollectorInv, TypeOK
<1>3. FlagIsTrue
    BY DEF Init, FlagIsTrue
<1>4. InitializedFirst /\ ResultsPlaced /\ AnsweredWell
    BY DEF Init, CollectorInit, InitializedFirst, ResultsPlaced, AnsweredWell, After
<1> QED
    BY <1>1, <1>2, <1>3, <1>4 DEF Inv, RequestsInv

\* A request that goes on needs at its next place what the place is for.
LEMMA Moves ==
    ASSUME Inv, NEW r \in Runs, NEW place \in Places \ {"end"}, Goto(r, place), at[r] # "end",
           UNCHANGED <<collector, hooks, output>>, form' \in [Runs -> Forms],
           initialized' \in BOOLEAN, initializations' \in 0..2,
           initializations' >= initializations, FlagIsTrue',
           place \in Hooked => initializations' > 0,
           place \notin After => at[r] \notin After \cup {"write"},
           place = "write" => gather[r] = "done",
           place \in After => at[r] \in After \/ (at[r] = "write" /\ left[r] = {} /\ writing[r] = {})
    PROVE  Inv'
<1> USE DEF Inv, RequestsInv, TypeOK, Goto
<1>1. CollectorInv'
    BY DEF CollectorInv, CollectorTypeOK, GatherAgrees, ReadsAreFinal, collector, Locked, Ended
<1>2. at'[r] = place /\ \A q \in Runs \ {r} : at'[q] = at[q]
    OBVIOUS
<1>3. TypeOK'
    BY <1>1, <1>2 DEF CollectorInv, output
<1>4. InitializedFirst'
    BY <1>2 DEF InitializedFirst, Hooked, collector
<1>5. ResultsPlaced'
    <2>1. \A q \in Runs : /\ left'[q] = left[q] /\ writing'[q] = writing[q]
                          /\ written'[q] = written[q] /\ gather'[q] = gather[q]
        BY DEF output, collector
    <2>2. ASSUME place \in After
          PROVE  writing[r] = {} /\ written[r] = Outputs /\ gather[r] = "done"
        BY <2>2 DEF ResultsPlaced, After
    <2>3. ASSUME place \notin After
          PROVE  writing[r] = {} /\ left[r] = Outputs
        BY <2>3 DEF ResultsPlaced
    <2> QED
        BY <1>2, <2>1, <2>2, <2>3 DEF ResultsPlaced
<1>6. AnsweredWell'
    BY DEF AnsweredWell, output, collector
<1> QED
    BY <1>1, <1>3, <1>4, <1>5, <1>6

\* A request is answered.
LEMMA Ends ==
    ASSUME Inv, NEW r \in Runs, NEW how \in Answers \ {"none"}, Answer(r, how), at[r] # "end",
           UNCHANGED <<collector, hooks, module, left, written>>, form' \in [Runs -> Forms],
           writing' \in [Runs -> SUBSET Outputs], \A q \in Runs \ {r} : writing'[q] = writing[q],
           how = "done" => at[r] \in After,
           how = "timeout" => writing'[r] = {} /\ gather[r] # "running"
    PROVE  Inv'
<1> USE DEF Inv, RequestsInv, TypeOK, Answer
<1>1. CollectorInv'
    BY DEF CollectorInv, CollectorTypeOK, GatherAgrees, ReadsAreFinal, collector, Locked, Ended
<1>2. /\ at'[r] = "end" /\ answer'[r] = how
      /\ \A q \in Runs \ {r} : at'[q] = at[q] /\ answer'[q] = answer[q]
    OBVIOUS
<1>3. TypeOK'
    BY <1>1, <1>2 DEF CollectorInv, module, Places
<1>4. FlagIsTrue' /\ InitializedFirst'
    BY <1>2 DEF InitializedFirst, FlagIsTrue, module, collector
<1>5. ResultsPlaced'
    BY <1>2 DEF ResultsPlaced, After, collector
<1>6. AnsweredWell'
    BY <1>2 DEF AnsweredWell, ResultsPlaced, collector
<1> QED
    BY <1>1, <1>3, <1>4, <1>5, <1>6

\* The collector of a request moves, and with it nothing else.
LEMMA Collects ==
    ASSUME Inv, CollectorInv', Kept, UNCHANGED <<Outside, output>>
    PROVE  Inv'
<1> USE DEF Inv, RequestsInv, TypeOK, Outside, output, module
<1>1. TypeOK'
    BY DEF CollectorInv
<1>2. FlagIsTrue' /\ InitializedFirst'
    BY DEF InitializedFirst, FlagIsTrue, Kept
<1>3. ResultsPlaced' /\ AnsweredWell'
    BY DEF ResultsPlaced, AnsweredWell, Kept
<1> QED
    BY <1>1, <1>2, <1>3

\* The results of a request move, and with them nothing else.
LEMMA ResultsMove ==
    ASSUME Inv, NEW r \in Runs, UNCHANGED <<collector, Outside>>, writing[r] # {} \/ at[r] = "write",
           left' \in [Runs -> SUBSET Outputs], writing' \in [Runs -> SUBSET Outputs],
           written' \in [Runs -> SUBSET Outputs],
           \A q \in Runs \ {r} : left'[q] = left[q] /\ writing'[q] = writing[q] /\ written'[q] = written[q],
           left'[r] \cup writing'[r] \cup written'[r] = left[r] \cup writing[r] \cup written[r],
           written[r] \subseteq written'[r]
    PROVE  Inv'
<1> USE DEF Inv, RequestsInv, TypeOK, Outside, module
<1>1. CollectorInv'
    BY DEF CollectorInv, CollectorTypeOK, GatherAgrees, ReadsAreFinal, collector, Locked, Ended
<1>2. TypeOK'
    BY <1>1 DEF CollectorInv
<1>3. FlagIsTrue' /\ InitializedFirst'
    BY DEF InitializedFirst, FlagIsTrue, collector
<1>4. at[r] \in {"write", "end"} /\ answer[r] # "timeout"
    BY DEF ResultsPlaced, AnsweredWell
<1>5. ResultsPlaced'
    BY <1>4 DEF ResultsPlaced, After, collector
<1>6. AnsweredWell'
    <2>1. written[r] = Outputs => written'[r] = Outputs
        OBVIOUS
    <2> QED
        BY <1>4, <2>1 DEF AnsweredWell, collector
<1> QED
    BY <1>1, <1>2, <1>3, <1>5, <1>6
-----------------------------------------------------------------------------
(* Every step keeps the invariant                                           *)

\* The handler before the event is executed.
LEMMA BeforeInv ==
    ASSUME Inv, NEW r \in Runs,
           \/ Validate(r) \/ JsonRead(r) \/ Authorize(r) \/ ReadBody(r)
           \/ Preprocess(r) \/ NextField(r) \/ FieldRead(r) \/ Preprocessed(r)
    PROVE  Inv'
<1> USE DEF Rest
<1>1. form \in [Runs -> Forms] /\ initialized \in BOOLEAN /\ initializations \in 0..2 /\ FlagIsTrue
      /\ writing \in [Runs -> SUBSET Outputs]
    BY DEF Inv, RequestsInv, TypeOK
<1>2. /\ \A p \in Places : p = p
      /\ UNCHANGED module => /\ initialized' \in BOOLEAN /\ initializations' \in 0..2
                             /\ initializations' >= initializations /\ FlagIsTrue'
    BY <1>1 DEF module, FlagIsTrue
<1>3. \A f \in Forms : Form(r, f) => form' \in [Runs -> Forms]
    BY <1>1 DEF Form
<1>4. UNCHANGED output => left' = left /\ written' = written /\ writing' = writing
    BY DEF output
<1>5. ASSUME NEW how \in {"refused", "ignored", "failed"}, Answer(r, how), UNCHANGED Rest,
             form' \in [Runs -> Forms], at[r] # "end"
      PROVE  Inv'
    BY <1>1, <1>4, <1>5, Ends DEF Answers
<1>6. ASSUME NEW place \in Places \ ({"write", "end"} \cup After), Goto(r, place), UNCHANGED Rest,
             form' \in [Runs -> Forms], at[r] \notin {"write", "end"} \cup After,
             place \in Hooked => at[r] \in Hooked \/ initialized
      PROVE  Inv'
    <2>1. place \in Hooked => initializations' > 0
        BY <1>6 DEF Inv, RequestsInv, InitializedFirst, FlagIsTrue, Hooked, module
    <2> QED
        BY <1>2, <1>6, <2>1, Moves
<1> USE DEF Places, Client, Executing, After, Hooked, Forms
<1>7. CASE Validate(r)
    BY <1>1, <1>5, <1>6, <1>7 DEF Validate
<1>8. CASE JsonRead(r)
    BY <1>1, <1>5, <1>6, <1>8 DEF JsonRead
<1>9. CASE Authorize(r)
    BY <1>1, <1>3, <1>5, <1>6, <1>9 DEF Authorize
<1>10. CASE ReadBody(r)
    BY <1>1, <1>5, <1>6, <1>10 DEF ReadBody
<1>11. CASE Preprocess(r)
    <2>1. CASE "pre" \in hooks
        BY <1>1, <1>6, <1>11, <2>1 DEF Preprocess, EnsureInitialized, Aside
    <2>2. CASE "pre" \notin hooks
        BY <1>3, <1>6, <1>11, <2>2 DEF Preprocess
    <2> QED
        BY <2>1, <2>2
<1>12. CASE NextField(r)
    BY <1>3, <1>6, <1>12 DEF NextField
<1>13. CASE FieldRead(r)
    BY <1>3, <1>5, <1>6, <1>13 DEF FieldRead
<1>14. CASE Preprocessed(r)
    BY <1>3, <1>5, <1>6, <1>14 DEF Preprocessed
<1> QED
    BY <1>7, <1>8, <1>9, <1>10, <1>11, <1>12, <1>13, <1>14

\* An __init_event__ ends (_ensure_initialized).
LEMMA InitializedInv ==
    ASSUME Inv, NEW r \in Runs, InitializedPreprocess(r) \/ InitializedExecute(r)
    PROVE  Inv'
<1> USE DEF Inv, RequestsInv, TypeOK
<1>1. PICK waiting \in {"init_preprocess", "init_execute"}, then \in {"preprocessing", "execute"} :
         Initialized(r, waiting, then)
    BY DEF InitializedPreprocess, InitializedExecute
<1>2. at[r] = waiting /\ UNCHANGED Aside
    BY <1>1 DEF Initialized
<1>3. ASSUME Goto(r, then), initialized' = TRUE,
             initializations' = IF initializations = 0 THEN 1 ELSE 2
      PROVE  Inv'
    <2>1. then \in Places \ {"end"} /\ then \notin After \cup {"write"} /\ at[r] \notin After \cup {"write", "end"}
        BY <1>1, <1>2 DEF Places, Client, Executing, After
    <2>2. initializations' \in 0..2 /\ initializations' >= initializations /\ initializations' > 0
        BY <1>3
    <2>3. FlagIsTrue' /\ initialized' \in BOOLEAN /\ form' \in [Runs -> Forms]
        BY <1>2, <1>3, <2>2 DEF FlagIsTrue, Aside
    <2> QED
        BY <1>2, <1>3, <2>1, <2>2, <2>3, Moves DEF Aside
<1>4. ASSUME Answer(r, "failed"), UNCHANGED module
      PROVE  Inv'
    BY <1>2, <1>4, Ends DEF Aside, output, Answers
<1> QED
    BY <1>1, <1>3, <1>4 DEF Initialized

\* The execution of the event, up to its results.
LEMMA ExecuteInv ==
    ASSUME Inv, NEW r \in Runs, Execute(r) \/ Collect(r) \/ Collected(r)
    PROVE  Inv'
<1> USE DEF Inv, RequestsInv, TypeOK
<1>1. CASE Execute(r) /\ initialized
    <2>1. /\ CollectorInv' /\ \A q \in Runs \ {r} : gather'[q] = gather[q]
          /\ at[r] = "execute" /\ gather[r] = "none"
        BY <1>1, RunKeeps DEF Execute, Run
    <2>2. /\ at'[r] = "collect" /\ \A q \in Runs \ {r} : at'[q] = at[q]
          /\ at' \in [Runs -> Places] /\ UNCHANGED answer
        BY <1>1 DEF Execute, Goto, Places, Executing
    <2>3. TypeOK'
        BY <1>1, <2>1, <2>2 DEF Execute, module, output, CollectorInv
    <2>4. FlagIsTrue' /\ InitializedFirst'
        BY <1>1 DEF Execute, module, FlagIsTrue, InitializedFirst
    <2>5. ResultsPlaced'
        BY <1>1, <2>1, <2>2 DEF Execute, output, ResultsPlaced, After
    <2>6. answer[r] = "none"
        BY <2>1
    <2>7. AnsweredWell'
        BY <1>1, <2>1, <2>2, <2>6 DEF Execute, output, AnsweredWell
    <2> QED
        BY <2>1, <2>3, <2>4, <2>5, <2>7
<1>2. CASE Execute(r) /\ ~initialized
    <2>1. /\ at[r] = "execute" /\ Goto(r, "init_execute")
          /\ UNCHANGED <<collector, hooks, form, module, output>>
        BY <1>2 DEF Execute
    <2>2. /\ "init_execute" \in Places \ {"end"} /\ "init_execute" \notin After \cup {"write"} \cup Hooked
          /\ at[r] \notin After \cup {"write", "end"}
        BY <2>1 DEF Places, Client, Executing, After, Hooked
    <2>3. form' \in [Runs -> Forms] /\ initialized' \in BOOLEAN /\ initializations' \in 0..2
          /\ initializations' >= initializations /\ FlagIsTrue'
        BY <2>1 DEF module, FlagIsTrue
    <2> QED
        BY <2>1, <2>2, <2>3, Moves
<1>3. CASE Collect(r)
    BY <1>3, StepKeeps, Collects DEF Collect
<1>4. CASE Collected(r)
    <2>1. at[r] = "collect" /\ UNCHANGED <<Rest, form>>
        BY <1>4 DEF Collected
    <2>2. ASSUME gather[r] = "done", Goto(r, "write")
          PROVE  Inv'
        <3>1. "write" \in Places \ {"end"} /\ "write" \notin After /\ at[r] \notin After \cup {"write", "end"}
            BY <2>1 DEF Places, Client, Executing, After
        <3>2. form' \in [Runs -> Forms] /\ initialized' \in BOOLEAN /\ initializations' \in 0..2
              /\ initializations' >= initializations /\ FlagIsTrue'
            BY <2>1 DEF Rest, module, FlagIsTrue
        <3>3. initializations' > 0
            BY <2>1 DEF Rest, module, InitializedFirst
        <3> QED
            BY <2>1, <2>2, <3>1, <3>2, <3>3, Moves DEF Rest
    <2>3. ASSUME NEW how \in {"ignored", "failed"}, Answer(r, how)
          PROVE  Inv'
        BY <2>1, <2>3, Ends DEF Rest, output, Answers
    <2> QED
        BY <1>4, <2>2, <2>3 DEF Collected
<1> QED
    BY <1>1, <1>2, <1>3, <1>4

\* The results are written (_execute_event, _write_stream_batch).
LEMMA WriteInv ==
    ASSUME Inv, NEW r \in Runs,
           WriteBatch(r) \/ Write(r) \/ WriteFails(r) \/ StepFails(r) \/ Executed(r)
    PROVE  Inv'
<1> USE DEF Inv, RequestsInv, TypeOK
<1>1. left[r] \subseteq Outputs /\ writing[r] \subseteq Outputs /\ written[r] \subseteq Outputs
    OBVIOUS
<1>2. CASE WriteBatch(r)
    <2>1. PICK batch \in SUBSET left[r] : /\ left' = [left EXCEPT ![r] = @ \ batch]
                                          /\ writing' = [writing EXCEPT ![r] = batch]
        BY <1>2 DEF WriteBatch
    <2>2. at[r] = "write" /\ writing[r] = {} /\ UNCHANGED <<collector, Outside, written>>
        BY <1>2 DEF WriteBatch
    <2>3. left'[r] \cup writing'[r] = left[r] \cup writing[r]
        BY <2>1, <2>2
    <2>4. left' \in [Runs -> SUBSET Outputs] /\ writing' \in [Runs -> SUBSET Outputs]
          /\ \A q \in Runs \ {r} : left'[q] = left[q] /\ writing'[q] = writing[q]
        BY <1>1, <2>1
    <2> QED
        BY <2>2, <2>3, <2>4, ResultsMove
<1>3. CASE Write(r)
    <2>1. PICK o \in writing[r] : /\ writing' = [writing EXCEPT ![r] = @ \ {o}]
                                  /\ written' = [written EXCEPT ![r] = @ \cup {o}]
                                  /\ UNCHANGED <<collector, Outside, left>>
        BY <1>3 DEF Write
    <2>2. left'[r] = left[r] /\ writing'[r] \cup written'[r] = writing[r] \cup written[r]
          /\ written[r] \subseteq written'[r]
        BY <2>1
    <2>3. writing' \in [Runs -> SUBSET Outputs] /\ written' \in [Runs -> SUBSET Outputs]
          /\ \A q \in Runs \ {r} : writing'[q] = writing[q] /\ written'[q] = written[q]
        BY <1>1, <2>1
    <2> QED
        BY <2>1, <2>2, <2>3, ResultsMove
<1>4. CASE WriteFails(r)
    <2>1. PICK o \in writing[r] :
             /\ writing' = [writing EXCEPT ![r] = @ \ {o}]
             /\ IF at[r] = "write" THEN Answer(r, "failed") ELSE UNCHANGED <<at, answer>>
             /\ UNCHANGED <<collector, hooks, form, module, left, written>>
        BY <1>4 DEF WriteFails
    <2>2. writing' \in [Runs -> SUBSET Outputs] /\ \A q \in Runs \ {r} : writing'[q] = writing[q]
        BY <1>1, <2>1
    <2>3. CASE at[r] = "write"
        BY <2>1, <2>2, <2>3, Ends DEF Answers
    <2>4. CASE at[r] # "write"
        <3>1. at[r] = "end" /\ answer[r] # "timeout"
            BY <2>1, <2>4 DEF ResultsPlaced, AnsweredWell
        <3>2. UNCHANGED <<at, answer>>
            BY <2>1, <2>4
        <3>3. CollectorInv'
            BY <2>1 DEF CollectorInv, CollectorTypeOK, GatherAgrees, ReadsAreFinal, collector, Locked, Ended
        <3>4. TypeOK'
            BY <2>1, <2>2, <3>2, <3>3 DEF CollectorInv, module
        <3>5. FlagIsTrue' /\ InitializedFirst'
            BY <2>1, <3>2 DEF FlagIsTrue, InitializedFirst, module, collector
        <3>6. ResultsPlaced'
            BY <2>1, <2>2, <3>1, <3>2 DEF ResultsPlaced, collector, After
        <3>7. AnsweredWell'
            BY <2>1, <2>2, <3>1, <3>2 DEF AnsweredWell, collector
        <3> QED
            BY <3>3, <3>4, <3>5, <3>6, <3>7
    <2> QED
        BY <2>3, <2>4
<1>5. CASE StepFails(r)
    BY <1>5, Ends DEF StepFails, Rest, output, Answers
<1>6. CASE Executed(r)
    <2>1. /\ at[r] = "write" /\ writing[r] = {} /\ left[r] = {} /\ Goto(r, "postprocess")
          /\ UNCHANGED <<Rest, form>>
        BY <1>6 DEF Executed
    <2>2. "postprocess" \in Places \ {"end"} /\ "postprocess" \in After /\ "postprocess" # "write"
        BY DEF Places, After
    <2>3. form' \in [Runs -> Forms] /\ initialized' \in BOOLEAN /\ initializations' \in 0..2
          /\ initializations' >= initializations /\ FlagIsTrue'
        BY <2>1 DEF Rest, module, FlagIsTrue
    <2>4. initializations' > 0
        BY <2>1 DEF Rest, module, InitializedFirst
    <2> QED
        BY <2>1, <2>2, <2>3, <2>4, Moves DEF Rest
<1> QED
    BY <1>2, <1>3, <1>4, <1>5, <1>6

\* The response timeout (execute).
LEMMA TimeoutInv ==
    ASSUME Inv, NEW r \in Runs, Timeout(r)
    PROVE  Inv'
<1> USE DEF Inv, RequestsInv, TypeOK
<1>1. /\ at[r] \in Executing /\ Answer(r, "timeout")
      /\ writing' = [writing EXCEPT ![r] = {}]
      /\ UNCHANGED <<hooks, form, module, left, written>>
    BY DEF Timeout
<1>2. /\ writing'[r] = {} /\ writing' \in [Runs -> SUBSET Outputs]
      /\ \A q \in Runs \ {r} : writing'[q] = writing[q]
    BY <1>1
<1>3. CASE gather[r] # "running"
    <2>1. UNCHANGED collector
        BY <1>3 DEF Timeout
    <2> QED
        BY <1>1, <1>2, <1>3, <2>1, Ends DEF Executing, Answers
<1>4. CASE gather[r] = "running"
    <2>1. CancelRun(r)
        BY <1>4 DEF Timeout
    <2>2. CollectorInv' /\ Kept /\ gather'[r] = "cancelled"
        BY <2>1, CancelKeeps
    <2>3. /\ at'[r] = "end" /\ answer'[r] = "timeout"
          /\ \A q \in Runs \ {r} : at'[q] = at[q] /\ answer'[q] = answer[q]
          /\ at' \in [Runs -> Places] /\ answer' \in [Runs -> Answers]
        BY <1>1 DEF Answer, Places, Answers
    <2>4. TypeOK'
        BY <1>1, <1>2, <2>2, <2>3 DEF CollectorInv, module
    <2>5. FlagIsTrue' /\ InitializedFirst'
        BY <1>1, <2>2, <2>3 DEF FlagIsTrue, InitializedFirst, module, Kept
    <2>6. ResultsPlaced'
        BY <1>1, <1>2, <2>2, <2>3 DEF ResultsPlaced, Kept, After
    <2>7. AnsweredWell'
        BY <1>1, <1>2, <2>2, <2>3 DEF AnsweredWell, Kept
    <2> QED
        BY <2>2, <2>4, <2>5, <2>6, <2>7
<1> QED
    BY <1>3, <1>4

\* The answer (postprocess, prepare_stream_response, _response).
LEMMA AnswerInv ==
    ASSUME Inv, NEW r \in Runs, Postprocess(r) \/ Stream(r) \/ Respond(r)
    PROVE  Inv'
<1> USE DEF Inv, RequestsInv, TypeOK
<1>1. at[r] \in After /\ UNCHANGED <<Rest, form>>
    BY DEF Postprocess, Stream, Respond, After
<1>2. form' \in [Runs -> Forms] /\ initialized' \in BOOLEAN /\ initializations' \in 0..2
      /\ initializations' >= initializations /\ FlagIsTrue' /\ initializations' > 0
      /\ at[r] # "end"
    BY <1>1 DEF Rest, module, FlagIsTrue, InitializedFirst, After
<1>3. ASSUME NEW place \in After, Goto(r, place)
      PROVE  Inv'
    <2>1. place \in Places \ {"end"} /\ place # "write"
        BY DEF After, Places, Client
    <2> QED
        BY <1>1, <1>2, <1>3, <2>1, Moves DEF Rest
<1>4. ASSUME NEW how \in {"done", "ignored", "failed"}, Answer(r, how)
      PROVE  Inv'
    BY <1>1, <1>2, <1>4, Ends DEF Rest, output, Answers
<1> QED
    BY <1>3, <1>4 DEF Postprocess, Stream, Respond, After

LEMMA NextInv == Inv /\ [Next]_vars => Inv'
<1> SUFFICES ASSUME Inv, [Next]_vars
             PROVE  Inv'
    OBVIOUS
<1>1. ASSUME NEW r \in Runs,
             \/ Validate(r) \/ JsonRead(r) \/ Authorize(r) \/ ReadBody(r)
             \/ Preprocess(r) \/ NextField(r) \/ FieldRead(r) \/ Preprocessed(r)
      PROVE  Inv'
    BY <1>1, BeforeInv
<1>2. ASSUME NEW r \in Runs, InitializedPreprocess(r) \/ InitializedExecute(r)
      PROVE  Inv'
    BY <1>2, InitializedInv
<1>3. ASSUME NEW r \in Runs, Execute(r) \/ Collect(r) \/ Collected(r)
      PROVE  Inv'
    BY <1>3, ExecuteInv
<1>4. ASSUME NEW r \in Runs,
             WriteBatch(r) \/ Write(r) \/ WriteFails(r) \/ StepFails(r) \/ Executed(r)
      PROVE  Inv'
    BY <1>4, WriteInv
<1>5. ASSUME NEW r \in Runs, Timeout(r)
      PROVE  Inv'
    BY <1>5, TimeoutInv
<1>6. ASSUME NEW r \in Runs, Postprocess(r) \/ Stream(r) \/ Respond(r)
      PROVE  Inv'
    BY <1>6, AnswerInv
<1>7. CASE UNCHANGED vars
    <2>1. CollectorInv' /\ Kept
        BY <1>7 DEF vars, collector, Inv, CollectorInv, CollectorTypeOK, GatherAgrees,
                    ReadsAreFinal, Locked, Ended, Kept
    <2> QED
        BY <1>7, <2>1, Collects DEF vars, Outside
<1> QED
    BY <1>1, <1>2, <1>3, <1>4, <1>5, <1>6, <1>7 DEF Next, Handle

LEMMA AlwaysInv == Spec => []Inv
BY InitInv, NextInv, PTL DEF Spec

-----------------------------------------------------------------------------
(* The results                                                              *)

\* The variables of requests and collectors have their types, and a request has
\* an answer exactly at its end (_request_execute).
THEOREM TypeCorrect == Spec => []TypeOK
<1>1. Inv => TypeOK
    BY DEF Inv, RequestsInv
<1> QED
    BY <1>1, AlwaysInv, PTL

\* Whoever reads the result of another function reads it when that one has
\* ended, for any dependencies (AsyncCollector.run, _get).
THEOREM ReadsFinal == Spec => []ReadsAreFinal
<1>1. Inv => ReadsAreFinal
    BY DEF Inv, CollectorInv
<1> QED
    BY <1>1, AlwaysInv, PTL

\* Nothing of an event runs before one of its __init_event__ has ended well
\* (_ensure_initialized).
THEOREM Initialization == Spec => []InitializedFirst
<1>1. Inv => InitializedFirst
    BY DEF Inv, RequestsInv
<1> QED
    BY <1>1, AlwaysInv, PTL

\* A request answered as done has all its results in the stream and has run
\* every function (_execute_event).
THEOREM DoneIsComplete == Spec => []SuccessIsComplete
<1>1. Inv => SuccessIsComplete
    BY DEF Inv, RequestsInv, CollectorInv, AnsweredWell, GatherAgrees, SuccessIsComplete
<1> QED
    BY <1>1, AlwaysInv, PTL

\* A request answered with a timeout has nothing left that writes or computes
\* (execute, wait_for).
THEOREM TimeoutIsFinal == Spec => []TimeoutStopsWork
<1>1. Inv => TimeoutStopsWork
    <2> SUFFICES ASSUME Inv, NEW r \in Runs, answer[r] = "timeout"
                 PROVE  writing[r] = {} /\ (gather[r] # "failed" => \A s \in Steps : ~Locked(r, s))
        BY DEF TimeoutStopsWork
    <2>1. writing[r] = {} /\ gather[r] \in GatherStates \ {"running"}
        BY DEF Inv, RequestsInv, CollectorInv, CollectorTypeOK, AnsweredWell
    <2> QED
        BY <2>1 DEF Inv, CollectorInv, GatherAgrees, GatherStates, Locked
<1> QED
    BY <1>1, AlwaysInv, PTL

-----------------------------------------------------------------------------
(* The stages of an event and their streams                                 *)

\* What is in a sum of bags, in a difference, in the empty bag and in a bag of
\* one message.
LEMMA BagsChange ==
    /\ \A B, C : BagToSet(B (+) C) = BagToSet(B) \cup BagToSet(C)
    /\ \A B, C : BagToSet(B (-) C) \subseteq BagToSet(B)
    /\ BagToSet(EmptyBag) = {}
    /\ \A x : BagToSet(SetToBag({x})) = {x}
BY DEF BagToSet, \oplus, \ominus, EmptyBag, SetToBag

\* A set of numbers that is not empty has a least one.
LEMMA LeastNumber ==
    ASSUME NEW T, T \subseteq Nat, T # {}
    PROVE  \E x \in T : \A y \in T : x <= y
<1> DEFINE R == {ss \in Nat \X Nat : ss[1] < ss[2]}
<1>1. IsWellFoundedOn(R, Nat)
    BY NatLessThanWellFounded DEF OpToRel
<1> HIDE DEF R
<1>2. PICK x \in T : \A y \in T : <<y, x>> \notin R
    BY <1>1, WFMin
<1>3. x \in Nat /\ \A y \in T : y \in Nat /\ <<y, x>> \in Nat \X Nat
    BY <1>2
<1>4. \A y \in T : ~(y < x)
    BY <1>2, <1>3 DEF R
<1> QED
    BY <1>3, <1>4

\* Positions are numbered, the first is a stage.
LEMMA StagesAreNumbers ==
    ASSUME steps \in Programs
    PROVE  /\ Len(steps) \in Nat /\ Len(steps) > 0 /\ Positions = 1 .. Len(steps)
           /\ 1 \in Stages /\ Stages \subseteq 1 .. Len(steps) /\ IsFiniteSet(Stages)
<1>1. PICK p \in Programs : p = steps
    OBVIOUS
<1>2. p \in Seq(ToSet(p)) /\ Len(p) > 0 /\ p[1] # Shuffle
    BY <1>1, StagesAssumption
<1>3. Len(p) \in Nat /\ DOMAIN p = 1 .. Len(p) /\ 1 \in DOMAIN p
    BY <1>2
<1>4. 1 \in Stages /\ Stages \subseteq 1 .. Len(steps)
    BY <1>1, <1>2, <1>3 DEF Stages, Positions
<1>5. IsFiniteSet(1 .. Len(p))
    BY <1>3, FS_Interval
<1>6. IsFiniteSet(Stages)
    BY <1>1, <1>4, <1>5, FS_Subset
<1> QED
    BY <1>1, <1>2, <1>3, <1>4, <1>6 DEF Positions

\* The stage after another is a later one, the first of them.
LEMMA NextIsLater ==
    ASSUME steps \in Programs, NEW s \in Stages
    PROVE  /\ NextStage(s) # 0 => NextStage(s) \in Stages /\ NextStage(s) > s
                /\ \A t \in Stages : t > s => t >= NextStage(s)
           /\ NextStage(s) = 0 => \A t \in Stages : t <= s
<1> DEFINE later == {t \in Stages : t > s}
<1>1. Stages \subseteq 1 .. Len(steps) /\ Len(steps) \in Nat
    BY StagesAreNumbers
<1>2. PICK n \in Nat : n = Len(steps)
    BY <1>1
<1>3. later \subseteq Nat /\ s \in Nat
    <2>1. \A t \in Stages : t \in 1 .. n
        BY <1>1, <1>2
    <2>2. \A t \in 1 .. n : t \in Nat
        OBVIOUS
    <2> QED
        BY <2>1, <2>2
<1>4. CASE later = {}
    <2>1. NextStage(s) = 0
        BY <1>4 DEF NextStage
    <2> QED
        BY <1>1, <1>4, <2>1
<1>5. CASE later # {}
    <2>1. PICK x \in later : \A y \in later : x <= y
        BY <1>3, <1>5, LeastNumber
    <2>2. Min(later) \in later /\ \A y \in later : Min(later) <= y
        BY <2>1 DEF Min
    <2>3. NextStage(s) = Min(later)
        BY <1>5 DEF NextStage
    <2>4. Min(later) \in Stages /\ Min(later) > s /\ Min(later) \in Nat
        BY <1>3, <2>2
    <2> QED
        BY <1>3, <2>2, <2>3, <2>4
<1> QED
    BY <1>4, <1>5

\* While the stages pass on what the next can take, what waits for a stage is
\* in a queue it reads and has the label of what the event was given.
MessageFits(m, s) ==
    m.data \in Handled(s) /\ m.queue \in ToSet(queues) /\ m.label = given.label
StreamsFit ==
    Passes /\ given.label \in ToSet(queues) =>
        \A s \in Stages : \A m \in BagToSet(stream[s]) : MessageFits(m, s)
IsBagOf(B) == B = [m \in DOMAIN B |-> B[m]]
StreamsAreBags == \A s \in Stages : IsBagOf(stream[s])
StagesInv == /\ steps \in Programs /\ DOMAIN stream = Stages
             /\ StreamsAreBags /\ StreamsFit

LEMMA ConfigStays ==
    ASSUME steps' = steps
    PROVE  Stages' = Stages /\ (Passes' <=> Passes) /\ \A t : Handled(t)' = Handled(t)
<1>1. Stages' = Stages /\ Positions' = Positions /\ \A s : EffectiveSteps(s)' = EffectiveSteps(s)
    BY DEF Stages, Positions, EffectiveSteps
<1>2. \A s : NextStage(s)' = NextStage(s)
    BY <1>1 DEF NextStage
<1>3. DataObjects' = DataObjects /\ \A s : InputTypes(s)' = InputTypes(s)
    BY <1>1 DEF DataObjects, InputTypes
<1>4. \A s : Handled(s)' = Handled(s)
    BY <1>3 DEF Handled
<1>5. \A p, among, i : ExecuteSteps(steps, p, among, i)' = ExecuteSteps(steps, p, among, i)
    OBVIOUS
<1>6. Passes' <=> Passes
    BY <1>1, <1>2, <1>4, <1>5 DEF Passes
<1> QED
    BY <1>1, <1>4, <1>6

\* Sums and differences of bags are bags.
LEMMA BagsStayBags ==
    /\ \A B, C : IsBagOf(B (+) C) /\ IsBagOf(B (-) C)
    /\ IsBagOf(EmptyBag) /\ \A x : IsBagOf(SetToBag({x}))
BY DEF IsBagOf, \oplus, \ominus, EmptyBag, SetToBag

LEMMA WrittenMessages ==
    ASSUME NEW payloads, NEW label, NEW w, NEW m \in BagToSet(Written(payloads, label, w))
    PROVE  \E k \in DOMAIN payloads, q \in DOMAIN w.queues :
               m = Message(payloads[k], label, w, w.queues[q])
BY DEF Written, BagToSet

LEMMA ConsumeFits ==
    ASSUME StagesInv, NEW s \in Stages, Consume(s)
    PROVE  StagesInv'
<1>1. UNCHANGED <<steps, queues, writer, given>>
    BY DEF Consume, config
<1>2. PICK m, rest, new :
         /\ m \in BagToSet(stream[s])
         /\ rest = [stream EXCEPT ![s] = @ (-) SetToBag({m})]
         /\ new = Written(ExecuteSteps(steps, m.data, EffectiveSteps(s), s - 1), m.label, WriterOf(s))
         /\ IF m.data \notin Handled(s) THEN stream' = rest
            ELSE IF NextStage(s) = 0 THEN stream' = rest
                 ELSE stream' = [rest EXCEPT ![NextStage(s)] = @ (+) new]
    BY DEF Consume
<1>3. DOMAIN stream = Stages /\ steps \in Programs
    BY DEF StagesInv
<1>4. DOMAIN rest = Stages /\ \A t \in Stages : BagToSet(rest[t]) \subseteq BagToSet(stream[t])
    BY <1>2, <1>3, BagsChange
<1>5. Stages' = Stages /\ (Passes' <=> Passes) /\ \A t : Handled(t)' = Handled(t)
    BY <1>1, ConfigStays
<1>6. ASSUME Passes, given.label \in ToSet(queues)
      PROVE  \A t \in Stages : \A n \in BagToSet(stream'[t]) : MessageFits(n, t)
    <2>1. \A t \in Stages : \A n \in BagToSet(stream[t]) : MessageFits(n, t)
        BY <1>6 DEF StagesInv, StreamsFit
    <2>2. \A t \in Stages : \A n \in BagToSet(rest[t]) : MessageFits(n, t)
        BY <1>4, <2>1
    <2>3. CASE stream' = rest
        BY <2>2, <2>3
    <2>4. CASE NextStage(s) # 0 /\ stream' = [rest EXCEPT ![NextStage(s)] = @ (+) new]
        <3>1. PICK t : t = NextStage(s)
            OBVIOUS
        <3>2. t \in Stages /\ t # s
            <4>1. Stages \subseteq 1 .. Len(steps) /\ Len(steps) \in Nat
                BY <1>3, StagesAreNumbers
            <4> QED
                BY <1>3, <2>4, <3>1, <4>1, NextIsLater
        <3>3. \A n \in BagToSet(new) : MessageFits(n, t)
            <4> SUFFICES ASSUME NEW n \in BagToSet(new) PROVE MessageFits(n, t)
                OBVIOUS
            <4>1. PICK payloads : payloads = ExecuteSteps(steps, m.data, EffectiveSteps(s), s - 1)
                OBVIOUS
            <4>2. PICK w : w = WriterOf(s)
                OBVIOUS
            <4>3. PICK k \in DOMAIN payloads, q \in DOMAIN w.queues :
                       n = Message(payloads[k], m.label, w, w.queues[q])
                BY <1>2, <4>1, <4>2, WrittenMessages
            <4>4. w = [queues |-> <<"AUTO">>, strategy |-> "PROPAGATE"]
                BY <2>4, <4>2 DEF WriterOf
            <4>5. w.queues[q] = "AUTO"
                <5>1. w.queues = <<"AUTO">>
                    BY <4>4
                <5>2. q \in {1}
                    BY <5>1
                <5> QED
                    BY <5>1, <5>2
            <4>6. n.data = payloads[k] /\ n.label = m.label /\ n.queue = m.label
                BY <4>3, <4>4, <4>5 DEF Message
            <4>7. MessageFits(m, s)
                BY <1>2, <2>1
            <4>8. Cardinality(Stages) # 1
                <5> SUFFICES ASSUME Cardinality(Stages) = 1 PROVE FALSE
                    OBVIOUS
                <5>1. PICK x : Stages = {x}
                    BY <1>3, StagesAreNumbers, FS_Singleton
                <5> QED
                    BY <3>2, <5>1
            <4>9. ToSet(payloads) \subseteq Handled(t)
                BY <1>6, <2>4, <3>1, <4>1, <4>7, <4>8 DEF Passes, MessageFits
            <4>10. payloads[k] \in ToSet(payloads)
                BY DEF ToSet
            <4> QED
                BY <1>6, <4>6, <4>7, <4>9, <4>10 DEF MessageFits
        <3>4. \A u \in Stages : BagToSet(stream'[u]) \subseteq BagToSet(rest[u]) \cup
                                    (IF u = t THEN BagToSet(new) ELSE {})
            BY <1>4, <2>4, <3>1, <3>2, BagsChange
        <3> QED
            BY <2>2, <3>3, <3>4
    <2> QED
        BY <1>2, <2>3, <2>4
<1>7. DOMAIN stream' = Stages
    BY <1>2, <1>4
<1>8. \A t \in Stages : IsBagOf(stream'[t])
    <2>1. \A t \in Stages : IsBagOf(stream[t])
        BY DEF StagesInv, StreamsAreBags
    <2>2. \A t \in Stages : IsBagOf(rest[t])
        BY <1>2, <1>3, <2>1, BagsStayBags
    <2>3. CASE stream' = rest
        BY <2>2, <2>3
    <2>4. CASE stream' = [rest EXCEPT ![NextStage(s)] = @ (+) new]
        BY <1>4, <2>2, <2>4, BagsStayBags
    <2> QED
        BY <1>2, <2>3, <2>4
<1>9. StreamsAreBags'
    BY <1>5, <1>8 DEF StreamsAreBags
<1> QED
    BY <1>1, <1>3, <1>5, <1>6, <1>7, <1>9 DEF StagesInv, StreamsFit, MessageFits

LEMMA StagesInvariant == StagesSpec => []StagesInv
<1>1. StagesInit => StagesInv
    <2> SUFFICES ASSUME StagesInit PROVE StagesInv
        OBVIOUS
    <2>1. DOMAIN stream = Stages /\ steps \in Programs
        BY DEF StagesInit
    <2>2. \A s \in Stages : BagToSet(stream[s]) \subseteq {given} /\ (s # 1 => BagToSet(stream[s]) = {})
        BY BagsChange DEF StagesInit
    <2>3. given.data \in Handled(1) /\ given.queue \in ToSet(queues)
        BY DEF StagesInit
    <2>4. StreamsAreBags
        BY BagsStayBags DEF StagesInit, StreamsAreBags
    <2> QED
        BY <2>1, <2>2, <2>3, <2>4 DEF StagesInv, StreamsFit, MessageFits
<1>2. StagesInv /\ [StagesNext]_stages => StagesInv'
    <2> SUFFICES ASSUME StagesInv, [StagesNext]_stages PROVE StagesInv'
        OBVIOUS
    <2>1. CASE StagesNext
        BY <2>1, ConsumeFits DEF StagesNext
    <2>2. CASE UNCHANGED stages
        <3>1. UNCHANGED <<steps, queues, writer, given, stream>>
            BY <2>2 DEF stages, config
        <3>2. Stages' = Stages /\ (Passes' <=> Passes) /\ \A t : Handled(t)' = Handled(t)
            BY <3>1, ConfigStays
        <3> QED
            BY <3>1, <3>2 DEF StagesInv, StreamsAreBags, StreamsFit, MessageFits
    <2> QED
        BY <2>1, <2>2
<1> QED
    BY <1>1, <1>2, PTL DEF StagesSpec

\* While the stages pass on what the next can take, and the event is given a
\* label it reads, each message is where a stage reads it (split_event_stages).
THEOREM NothingLeft == StagesSpec => []NothingIsLeftBehind
<1>1. StagesInv => NothingIsLeftBehind
    <2> SUFFICES ASSUME StagesInv, Passes, given.label \in ToSet(queues),
                        NEW s \in Stages, stream[s] # EmptyBag
                 PROVE  Handled(s) # {} /\ \A m \in BagToSet(stream[s]) : m.queue \in ToSet(QueuesOf(s))
        BY DEF NothingIsLeftBehind
    <2>1. \A m \in BagToSet(stream[s]) : MessageFits(m, s)
        BY DEF StagesInv, StreamsFit
    <2>2. BagToSet(stream[s]) # {}
        BY DEF StagesInv, StreamsAreBags, IsBagOf, BagToSet, EmptyBag, SetToBag
    <2> QED
        BY <2>1, <2>2 DEF MessageFits, QueuesOf
<1> QED
    BY <1>1, StagesInvariant, PTL

-----------------------------------------------------------------------------
(* Splitting an event.  What its steps give for a payload (Whole) is what a  *)
(* stage gives, each result then taken through the rest; so what waits in    *)
(* the streams and what has been written can be listed in the order of the   *)
(* unsplit event, whatever the order the stages run in.                      *)

\* What holds of 0, and of n + 1 whenever it holds of n, holds of all numbers.
LEMMA AllNumbers ==
    ASSUME NEW S, 0 \in S, \A n \in Nat : n \in S => n + 1 \in S
    PROVE  Nat \subseteq S
<1> SUFFICES ASSUME Nat \ S # {} PROVE FALSE
    OBVIOUS
<1>1. PICK x \in Nat \ S : \A y \in Nat \ S : x <= y
    BY LeastNumber
<1>2. x # 0 /\ x - 1 \in Nat /\ x - 1 \notin Nat \ S
    BY <1>1
<1> QED
    BY <1>1, <1>2

\* What holds of the empty sequence, and of a longer one when it holds of the
\* rest, holds of all sequences.
LEMMA AllSequences ==
    ASSUME NEW S, NEW G, <<>> \in G,
           \A s \in Seq(S), x \in S : s \in G => Append(s, x) \in G
    PROVE  Seq(S) \subseteq G
<1> DEFINE N == {n \in Nat : \A s \in Seq(S) : Len(s) = n => s \in G}
<1>1. 0 \in N
    BY EmptySeq DEF N
<1>2. ASSUME NEW n \in Nat, n \in N
      PROVE  n + 1 \in N
    <2> SUFFICES ASSUME NEW s \in Seq(S), Len(s) = n + 1
                 PROVE  s \in G
        BY DEF N
    <2>1. s # <<>>
        BY EmptySeq
    <2>2. PICK r \in Seq(S), x \in S : s = Append(r, x)
        BY <2>1, SequenceEmptyOrAppend
    <2>3. Len(s) = Len(r) + 1 /\ Len(r) \in Nat
        BY <2>2, AppendProperties, LenProperties
    <2>4. r \in G
        BY <1>2, <2>3 DEF N
    <2> QED
        BY <2>2, <2>4
<1> HIDE DEF N
<1>3. Nat \subseteq N
    BY <1>1, <1>2, AllNumbers
<1> QED
    BY <1>3, LenProperties DEF N

-----------------------------------------------------------------------------
\* The concatenation of the first i of some sequences.
Prefix(ss, u, i) == IF i = 1 THEN ss[i] ELSE u[i - 1] \o ss[i]

\* The recursive function inside FlattenSeq exists.
LEMMA PrefixesExist ==
    ASSUME NEW ss, NEW n \in Nat
    PROVE  \E u : u = [i \in 1 .. n |-> Prefix(ss, u, i)]
<1> DEFINE Good(k, u) == u = [i \in 1 .. k |-> Prefix(ss, u, i)]
           N == {k \in Nat : \E u : Good(k, u)}
<1>1. 0 \in N
    <2> DEFINE u0 == [i \in 1 .. 0 |-> <<>>]
    <2>1. Good(0, u0)
        OBVIOUS
    <2> QED
        BY <2>1
<1>2. ASSUME NEW k \in Nat, k \in N
      PROVE  k + 1 \in N
    <2>1. k \in Nat /\ k + 1 \in Nat
        OBVIOUS
    <2>2. PICK u : Good(k, u)
        BY <1>2
    <2> DEFINE w == [i \in 1 .. (k + 1) |-> IF i = k + 1 THEN Prefix(ss, u, k + 1) ELSE u[i]]
    <2>3. \A i \in 1 .. k : w[i] = u[i]
        BY <2>1
    <2>4. \A i \in 1 .. (k + 1) : Prefix(ss, w, i) = Prefix(ss, u, i)
        <3> SUFFICES ASSUME NEW i \in 1 .. (k + 1), i # 1 PROVE w[i - 1] = u[i - 1]
            BY DEF Prefix
        <3>1. i - 1 \in 1 .. k
            BY <2>1
        <3> QED
            BY <2>3, <3>1
    <2>5. \A i \in 1 .. k : u[i] = Prefix(ss, u, i)
        BY <2>2
    <2>6. \A i \in 1 .. (k + 1) : w[i] = Prefix(ss, w, i)
        <3> SUFFICES ASSUME NEW i \in 1 .. (k + 1) PROVE w[i] = Prefix(ss, u, i)
            BY <2>4
        <3>1. CASE i = k + 1
            BY <2>1, <3>1
        <3>2. CASE i # k + 1
            <4>1. i \in 1 .. k
                BY <2>1, <3>2
            <4> QED
                BY <2>3, <2>5, <4>1
        <3> QED
            BY <3>1, <3>2
    <2>7. DOMAIN w = 1 .. (k + 1) /\ w = [i \in 1 .. (k + 1) |-> w[i]]
        OBVIOUS
    <2> HIDE DEF w
    <2>8. Good(k + 1, w)
        BY <2>6, <2>7
    <2> QED
        BY <2>1, <2>8
<1> HIDE DEF N
<1>3. Nat \subseteq N
    BY <1>1, <1>2, AllNumbers
<1>4. n \in N
    BY <1>3
<1> QED
    BY <1>4 DEF N

Accumulates(u, ss) ==
    /\ FlattenSeq(ss) = u[Len(ss)]
    /\ u[1] = ss[1]
    /\ \A i \in 2 .. Len(ss) : u[i] = u[i - 1] \o ss[i]

LEMMA FlattenIs ==
    ASSUME NEW S, NEW ss \in Seq(S), ss # <<>>
    PROVE  \E u : Accumulates(u, ss)
<1>1. Len(ss) \in Nat /\ Len(ss) # 0
    BY EmptySeq
<1> DEFINE u == CHOOSE u : u = [i \in 1 .. Len(ss) |-> Prefix(ss, u, i)]
<1>2. u = [i \in 1 .. Len(ss) |-> Prefix(ss, u, i)]
    BY <1>1, PrefixesExist
<1>3. FlattenSeq(ss) = u[Len(ss)]
    BY <1>1 DEF FlattenSeq, Prefix
<1> HIDE DEF u
<1>4. \A i \in 1 .. Len(ss) : u[i] = Prefix(ss, u, i)
    BY <1>2
<1>5. u[1] = ss[1]
    BY <1>1, <1>4 DEF Prefix
<1>6. ASSUME NEW i \in 2 .. Len(ss)
      PROVE  u[i] = u[i - 1] \o ss[i]
    <2>1. i \in 1 .. Len(ss) /\ i # 1
        BY <1>1
    <2> QED
        BY <1>4, <2>1 DEF Prefix
<1> QED
    BY <1>3, <1>5, <1>6 DEF Accumulates

\* Flattening one sequence more is concatenation at the end.
LEMMA FlattenAppend ==
    ASSUME NEW T, NEW ss \in Seq(Seq(T)), NEW x \in Seq(T)
    PROVE  FlattenSeq(Append(ss, x)) = FlattenSeq(ss) \o x
<1>0. PICK tt : tt = Append(ss, x)
    OBVIOUS
<1>a. tt \in Seq(Seq(T)) /\ tt # <<>> /\ Len(tt) = Len(ss) + 1 /\ tt[Len(ss) + 1] = x
    BY <1>0, AppendProperties
<1>b. \A i \in 1 .. Len(ss) : tt[i] = ss[i]
    BY <1>0, AppendProperties
<1>c. Len(ss) \in Nat
    BY LenProperties
<1>d. PICK w : Accumulates(w, tt)
    BY <1>a, FlattenIs
<1>2. /\ FlattenSeq(tt) = w[Len(tt)] /\ w[1] = tt[1]
      /\ \A i \in 2 .. Len(tt) : w[i] = w[i - 1] \o tt[i]
    BY <1>d DEF Accumulates
<1>3. CASE ss = <<>>
    <2>1. FlattenSeq(ss) = <<>> /\ Len(ss) = 0
        BY <1>3, EmptySeq DEF FlattenSeq
    <2>2. FlattenSeq(tt) = x
        BY <1>a, <1>b, <1>c, <1>2, <2>1
    <2> QED
        BY <2>1, <2>2, ConcatEmptySeq, <1>0
<1>4. CASE ss # <<>>
    <2>0. PICK u : Accumulates(u, ss)
        BY <1>4, FlattenIs
    <2>1. /\ FlattenSeq(ss) = u[Len(ss)] /\ u[1] = ss[1]
          /\ \A i \in 2 .. Len(ss) : u[i] = u[i - 1] \o ss[i]
        BY <2>0 DEF Accumulates
    <2> DEFINE N == {k \in Nat : k + 1 <= Len(ss) => u[k + 1] = w[k + 1]}
    <2>2. Len(ss) # 0
        BY <1>4, EmptySeq
    <2>3. 0 \in N
        BY <1>a, <1>b, <1>c, <1>2, <2>1, <2>2
    <2>4. ASSUME NEW k \in Nat, k \in N PROVE k + 1 \in N
        <3> SUFFICES ASSUME k + 1 + 1 <= Len(ss) PROVE u[k + 1 + 1] = w[k + 1 + 1]
            OBVIOUS
        <3>1. u[k + 1] = w[k + 1]
            BY <1>a, <1>b, <1>c, <2>4
        <3>2. k + 1 + 1 \in 2 .. Len(ss) /\ k + 1 + 1 \in 2 .. Len(tt) /\ (k + 1 + 1) - 1 = k + 1
            BY <1>a, <1>b, <1>c
        <3>3. PICK j : j = k + 1 + 1
            OBVIOUS
        <3>4. u[j] = u[j - 1] \o ss[j] /\ w[j] = w[j - 1] \o tt[j]
            BY <1>2, <2>1, <3>2, <3>3
        <3>5. u[j - 1] = w[j - 1]
            BY <3>1, <3>2, <3>3
        <3>6. tt[j] = ss[j]
            BY <1>a, <1>b, <1>c, <3>2, <3>3
        <3> QED
            BY <3>3, <3>4, <3>5, <3>6
    <2> HIDE DEF N
    <2>5. Nat \subseteq N
        BY <2>3, <2>4, AllNumbers
    <2>6. u[Len(ss)] = w[Len(ss)]
        <3>1. Len(ss) - 1 \in N /\ (Len(ss) - 1) + 1 = Len(ss)
            BY <1>a, <1>b, <1>c, <2>2, <2>5
        <3> QED
            BY <1>a, <1>b, <1>c, <3>1 DEF N
    <2>7. w[Len(tt)] = w[Len(ss)] \o x
        <3>1. PICK n \in Nat : n = Len(ss) /\ n # 0 /\ Len(tt) = n + 1
            BY <1>a, <1>b, <1>c, <2>2
        <3>2. n + 1 \in 2 .. n + 1 /\ (n + 1) - 1 = n
            BY <3>1
        <3>3. w[n + 1] = w[n] \o tt[n + 1]
            BY <1>2, <3>1, <3>2
        <3> QED
            BY <1>a, <1>b, <1>c, <3>1, <3>3
    <2>8. FlattenSeq(tt) = FlattenSeq(ss) \o x
        BY <1>2, <2>1, <2>6, <2>7
    <2> QED
        BY <1>0, <2>8
<1> QED
    BY <1>3, <1>4

\* Functions that give a sequence of elements of T for each element of S.
Lists(S, T) == [S -> Seq(T)]

LEMMA ListGiven ==
    ASSUME NEW S, NEW T, NEW f \in Lists(S, T), NEW x \in S
    PROVE  f[x] \in Seq(T)
BY DEF Lists

\* The sequences f gives for the elements of a sequence, one after the other.
Image(s, f) == [k \in DOMAIN s |-> f[s[k]]]
Each(s, f) == FlattenSeq(Image(s, f))

LEMMA ImageType ==
    ASSUME NEW S, NEW T, NEW f \in Lists(S, T), NEW s \in Seq(S)
    PROVE  Image(s, f) \in Seq(Seq(T))
<1>1. Len(s) \in Nat /\ DOMAIN s = 1 .. Len(s) /\ \A k \in 1 .. Len(s) : s[k] \in S
    BY LenProperties, ElementOfSeq
<1> QED
    BY <1>1 DEF Image, Lists

LEMMA ImageLen ==
    ASSUME NEW S, NEW s \in Seq(S), NEW f
    PROVE  Len(Image(s, f)) = Len(s)
<1>1. Len(s) \in Nat /\ DOMAIN s = 1 .. Len(s)
    BY LenProperties
<1> QED
    BY <1>1 DEF Image

LEMMA EachEmpty ==
    ASSUME NEW S, NEW T, NEW f \in Lists(S, T)
    PROVE  Each(<<>>, f) = <<>>
<1>1. <<>> \in Seq(S) /\ Len(<<>>) = 0
    BY EmptySeq
<1>2. Image(<<>>, f) \in Seq(Seq(T)) /\ Len(Image(<<>>, f)) = Len(<<>>)
    BY <1>1, ImageType, ImageLen
<1>3. Image(<<>>, f) = <<>>
    BY <1>1, <1>2, EmptySeq
<1> QED
    BY <1>1, <1>2, <1>3 DEF Each, FlattenSeq

\* Each follows the structure of its sequence.
LEMMA EachAppend ==
    ASSUME NEW S, NEW T, NEW f \in Lists(S, T), NEW s \in Seq(S), NEW x \in S
    PROVE  Each(Append(s, x), f) = Each(s, f) \o f[x]
<1>1. Append(s, x) \in Seq(S) /\ Len(Append(s, x)) = Len(s) + 1 /\ Len(s) \in Nat
      /\ (\A i \in 1 .. Len(s) : Append(s, x)[i] = s[i]) /\ Append(s, x)[Len(s) + 1] = x
    BY AppendProperties, LenProperties
<1> DEFINE t == Append(s, x)
           I == Image(s, f)
           J == Image(t, f)
<1>2. I \in Seq(Seq(T)) /\ Len(I) = Len(s)
    BY ImageType, ImageLen
<1>10. \A k \in 1 .. Len(s) : I[k] = f[s[k]]
    BY LenProperties DEF Image
<1>9. J \in Seq(Seq(T)) /\ Len(J) = Len(t)
    BY <1>1, ImageType, ImageLen
<1>11. \A k \in 1 .. Len(t) : J[k] = f[t[k]]
    BY <1>1, LenProperties DEF Image
<1>3. J \in Seq(Seq(T)) /\ Len(J) = Len(s) + 1 /\ \A k \in 1 .. Len(s) + 1 : J[k] = f[t[k]]
    BY <1>1, <1>9, <1>11
<1>4. f[x] \in Seq(T)
    BY ListGiven
<1>5. /\ Append(I, f[x]) \in Seq(Seq(T)) /\ Len(Append(I, f[x])) = Len(s) + 1
      /\ \A i \in 1 .. Len(s) : Append(I, f[x])[i] = I[i]
      /\ Append(I, f[x])[Len(s) + 1] = f[x]
    BY <1>2, <1>4, AppendProperties
<1> HIDE DEF I, J
<1>6. \A k \in 1 .. Len(J) : J[k] = Append(I, f[x])[k]
    <2> SUFFICES ASSUME NEW k \in 1 .. Len(s) + 1 PROVE J[k] = Append(I, f[x])[k]
        BY <1>3
    <2>1. CASE k = Len(s) + 1
        BY <1>1, <1>3, <1>5, <2>1
    <2>2. CASE k # Len(s) + 1
        <3>1. k \in 1 .. Len(s)
            BY <1>1, <2>2
        <3> QED
            BY <1>1, <1>2, <1>3, <1>5, <1>10, <3>1
    <2> QED
        BY <2>1, <2>2
<1>7. J = Append(I, f[x])
    BY <1>3, <1>5, <1>6, SeqEqual
<1>8. FlattenSeq(J) = FlattenSeq(I) \o f[x]
    BY <1>2, <1>4, <1>7, FlattenAppend
<1> QED
    BY <1>8 DEF I, J, Each

LEMMA EachType ==
    ASSUME NEW S, NEW T, NEW f \in Lists(S, T)
    PROVE  \A s \in Seq(S) : Each(s, f) \in Seq(T)
<1> DEFINE G == {s \in Seq(S) : Each(s, f) \in Seq(T)}
<1>1. <<>> \in G
    BY EmptySeq, EachEmpty
<1>2. ASSUME NEW s \in Seq(S), NEW x \in S, s \in G
      PROVE  Append(s, x) \in G
    <2>1. Each(s, f) \in Seq(T) /\ f[x] \in Seq(T) /\ Append(s, x) \in Seq(S)
        BY ListGiven, <1>2, AppendProperties
    <2>2. Each(Append(s, x), f) = Each(s, f) \o f[x]
        BY EachAppend
    <2>3. Each(s, f) \o f[x] \in Seq(T)
        BY <2>1, ConcatProperties
    <2> QED
        BY <2>1, <2>2, <2>3
<1> HIDE DEF G
<1>3. Seq(S) \subseteq G
    BY <1>1, <1>2, AllSequences
<1> QED
    BY <1>3 DEF G

LEMMA EachOne ==
    ASSUME NEW S, NEW T, NEW f \in Lists(S, T), NEW x \in S
    PROVE  Each(<<x>>, f) = f[x]
<1>1. <<>> \in Seq(S) /\ <<x>> = Append(<<>>, x)
    BY EmptySeq
<1>2. Each(<<>>, f) = <<>>
    BY EachEmpty
<1>4. Each(Append(<<>>, x), f) = Each(<<>>, f) \o f[x]
    BY <1>1, EachAppend
<1>3. f[x] \in Seq(T)
    BY ListGiven
<1> QED
    BY <1>1, <1>2, <1>3, <1>4, ConcatEmptySeq

LEMMA AppendToConcat ==
    ASSUME NEW S, NEW s \in Seq(S), NEW t \in Seq(S), NEW x \in S
    PROVE  s \o Append(t, x) = Append(s \o t, x)
<1>1. <<x>> \in Seq(S) /\ s \o t \in Seq(S)
    BY ConcatProperties
<1>2. Append(t, x) = t \o <<x>> /\ Append(s \o t, x) = (s \o t) \o <<x>>
    BY <1>1, AppendIsConcat
<1> QED
    BY <1>1, <1>2, ConcatAssociative

LEMMA EachConcat ==
    ASSUME NEW S, NEW T, NEW f \in Lists(S, T), NEW s \in Seq(S)
    PROVE  \A t \in Seq(S) : Each(s \o t, f) = Each(s, f) \o Each(t, f)
<1> DEFINE G == {t \in Seq(S) : Each(s \o t, f) = Each(s, f) \o Each(t, f)}
<1>0. \A t \in Seq(S) : Each(t, f) \in Seq(T)
    BY EachType
<1>1. <<>> \in G
    <2>1. <<>> \in Seq(S) /\ s \o <<>> = s
        BY EmptySeq, ConcatEmptySeq
    <2>2. Each(s, f) \o <<>> = Each(s, f)
        BY <1>0, ConcatEmptySeq
    <2> QED
        BY <2>1, <2>2, EachEmpty
<1>2. ASSUME NEW t \in Seq(S), NEW x \in S, t \in G
      PROVE  Append(t, x) \in G
    <2>1. s \o Append(t, x) = Append(s \o t, x) /\ s \o t \in Seq(S) /\ Append(t, x) \in Seq(S)
        BY AppendToConcat, ConcatProperties, AppendProperties
    <2>2. Each(s \o Append(t, x), f) = Each(s \o t, f) \o f[x]
        BY <2>1, EachAppend
    <2>3. Each(s \o t, f) = Each(s, f) \o Each(t, f)
        BY <1>2
    <2>4. Each(s, f) \in Seq(T) /\ Each(t, f) \in Seq(T) /\ f[x] \in Seq(T)
        BY ListGiven, <1>0
    <2>5. (Each(s, f) \o Each(t, f)) \o f[x] = Each(s, f) \o (Each(t, f) \o f[x])
        <3>1. \A a, b, c \in Seq(T) : (a \o b) \o c = a \o (b \o c)
            BY ConcatAssociative
        <3> QED
            BY <2>4, <3>1
    <2>6. Each(Append(t, x), f) = Each(t, f) \o f[x]
        BY EachAppend
    <2> QED
        BY <2>1, <2>2, <2>3, <2>5, <2>6
<1> HIDE DEF G
<1>3. Seq(S) \subseteq G
    BY <1>1, <1>2, AllSequences
<1> QED
    BY <1>3 DEF G

\* Taking each of each is taking each once, with the two functions composed.
LEMMA EachOfEach ==
    ASSUME NEW S, NEW T, NEW V, NEW f \in Lists(S, T), NEW g \in Lists(T, V),
           NEW h \in Lists(S, V), \A x \in S : h[x] = Each(f[x], g)
    PROVE  \A s \in Seq(S) : Each(Each(s, f), g) = Each(s, h)
<1> DEFINE G == {s \in Seq(S) : Each(Each(s, f), g) = Each(s, h)}
<1>1. <<>> \in G
    <2>1. Each(<<>>, f) = <<>>
        BY EachEmpty
    <2>2. Each(<<>>, g) = <<>>
        BY EachEmpty
    <2>3. Each(<<>>, h) = <<>>
        BY EachEmpty
    <2> QED
        BY <2>1, <2>2, <2>3, EmptySeq
<1>2. ASSUME NEW s \in Seq(S), NEW x \in S, s \in G
      PROVE  Append(s, x) \in G
    <2>1. Each(s, f) \in Seq(T) /\ f[x] \in Seq(T) /\ Append(s, x) \in Seq(S)
        BY ListGiven, EachType, AppendProperties
    <2>2. Each(Append(s, x), f) = Each(s, f) \o f[x] /\ Each(Append(s, x), h) = Each(s, h) \o h[x]
        BY EachAppend
    <2> DEFINE a == Each(s, f)
               b == f[x]
    <2> HIDE DEF a, b
    <2>4. a \in Seq(T) /\ b \in Seq(T)
        BY <2>1 DEF a, b
    <2>5. Each(a \o b, g) = Each(a, g) \o Each(b, g)
        BY <2>4, EachConcat
    <2>3. Each(Each(s, f) \o f[x], g) = Each(Each(s, f), g) \o Each(f[x], g)
        BY <2>5 DEF a, b
    <2> QED
        BY <1>2, <2>1, <2>2, <2>3
<1> HIDE DEF G
<1>3. Seq(S) \subseteq G
    BY <1>1, <1>2, AllSequences
<1> QED
    BY <1>3 DEF G

\* Giving each element itself gives the sequence; giving nothing, the empty one.
LEMMA EachSelf ==
    ASSUME NEW S, NEW f \in Lists(S, S), \A x \in S : f[x] = <<x>>
    PROVE  \A s \in Seq(S) : Each(s, f) = s
<1> DEFINE G == {s \in Seq(S) : Each(s, f) = s}
<1>1. <<>> \in G
    BY EmptySeq, EachEmpty
<1>2. ASSUME NEW s \in Seq(S), NEW x \in S, s \in G
      PROVE  Append(s, x) \in G
    <2>1. Each(Append(s, x), f) = Each(s, f) \o <<x>>
        BY EachAppend
    <2> QED
        BY <1>2, <2>1, AppendIsConcat, AppendProperties
<1> HIDE DEF G
<1>3. Seq(S) \subseteq G
    BY <1>1, <1>2, AllSequences
<1> QED
    BY <1>3 DEF G

LEMMA EachNone ==
    ASSUME NEW S, NEW T, NEW f \in Lists(S, T), \A x \in S : f[x] = <<>>
    PROVE  \A s \in Seq(S) : Each(s, f) = <<>>
<1> DEFINE G == {s \in Seq(S) : Each(s, f) = <<>>}
<1>1. <<>> \in G
    BY EmptySeq, EachEmpty
<1>2. ASSUME NEW s \in Seq(S), NEW x \in S, s \in G
      PROVE  Append(s, x) \in G
    <2>1. Each(Append(s, x), f) = <<>> \o <<>>
        BY <1>2, EachAppend
    <2>2. <<>> \o <<>> = <<>>
        BY EmptySeq, ConcatEmptySeq
    <2> QED
        BY <2>1, <2>2, AppendProperties
<1> HIDE DEF G
<1>3. Seq(S) \subseteq G
    BY <1>1, <1>2, AllSequences
<1> QED
    BY <1>3 DEF G

LEMMA EachSame ==
    ASSUME NEW s, NEW f, NEW g, \A k \in DOMAIN s : f[s[k]] = g[s[k]]
    PROVE  Each(s, f) = Each(s, g)
<1>1. Image(s, f) = Image(s, g)
    BY DEF Image
<1> QED
    BY <1>1 DEF Each

\* What each gives comes from an element, and what comes from one is given.
In(r, y) == \E j \in 1 .. Len(r) : r[j] = y
Gives(s, f, y) == \E k \in 1 .. Len(s) : In(f[s[k]], y)

LEMMA EachFrom ==
    ASSUME NEW S, NEW T, NEW f \in Lists(S, T)
    PROVE  \A s \in Seq(S) : \A y : In(Each(s, f), y) <=> Gives(s, f, y)
<1> DEFINE G == {s \in Seq(S) : \A y : In(Each(s, f), y) <=> Gives(s, f, y)}
<1> USE DEF In, Gives
<1>1. <<>> \in G
    <2>1. <<>> \in Seq(S) /\ Len(<<>>) = 0 /\ Each(<<>>, f) = <<>>
        BY EmptySeq, EachEmpty
    <2> QED
        BY <2>1
<1>2. ASSUME NEW s \in Seq(S), NEW x \in S, s \in G
      PROVE  Append(s, x) \in G
    <2>1. Each(Append(s, x), f) = Each(s, f) \o f[x]
        BY EachAppend
    <2>2. Each(s, f) \in Seq(T) /\ f[x] \in Seq(T)
        BY ListGiven, EachType
    <2>3. \A y : In(Each(s, f) \o f[x], y) <=> In(Each(s, f), y) \/ In(f[x], y)
        <3> DEFINE a == Each(s, f)
                   b == f[x]
        <3>1. Len(a) \in Nat /\ Len(b) \in Nat /\ Len(a \o b) = Len(a) + Len(b)
              /\ \A i \in 1 .. Len(a) + Len(b) :
                    (a \o b)[i] = IF i <= Len(a) THEN a[i] ELSE b[i - Len(a)]
            BY <2>2, ConcatProperties, LenProperties
        <3> HIDE DEF a, b
        <3>2. ASSUME NEW i \in 1 .. Len(a \o b)
              PROVE  \/ i \in 1 .. Len(a) /\ (a \o b)[i] = a[i]
                     \/ i - Len(a) \in 1 .. Len(b) /\ (a \o b)[i] = b[i - Len(a)]
            BY <3>1
        <3>3. ASSUME NEW i \in 1 .. Len(a)
              PROVE  i \in 1 .. Len(a \o b) /\ (a \o b)[i] = a[i]
            BY <3>1
        <3>4. ASSUME NEW i \in 1 .. Len(b)
              PROVE  Len(a) + i \in 1 .. Len(a \o b) /\ (a \o b)[Len(a) + i] = b[i]
            <4>1. Len(a) + i \in 1 .. Len(a) + Len(b) /\ ~(Len(a) + i <= Len(a)) /\ (Len(a) + i) - Len(a) = i
                BY <3>1
            <4> QED
                BY <3>1, <4>1
        <3>5. \A y : In(a \o b, y) <=> In(a, y) \/ In(b, y)
            BY <3>2, <3>3, <3>4
        <3> QED
            BY <3>5 DEF a, b
    <2>4. /\ Len(Append(s, x)) = Len(s) + 1 /\ Len(s) \in Nat /\ Append(s, x) \in Seq(S)
          /\ \A i \in 1 .. Len(s) : Append(s, x)[i] = s[i]
          /\ Append(s, x)[Len(s) + 1] = x
        BY AppendProperties, LenProperties
    <2> HIDE DEF In
    <2>5. \A y : Gives(Append(s, x), f, y) <=> Gives(s, f, y) \/ In(f[x], y)
        <3>1. \A i \in 1 .. Len(s) + 1 : i \in 1 .. Len(s) \/ i = Len(s) + 1
            BY <2>4
        <3>2. Len(s) + 1 \in 1 .. Len(s) + 1 /\ \A i \in 1 .. Len(s) : i \in 1 .. Len(s) + 1
            BY <2>4
        <3> QED
            BY <2>4, <3>1, <3>2
    <2>6. \A y : In(Each(s, f), y) <=> Gives(s, f, y)
        BY <1>2
    <2> HIDE DEF Gives, In
    <2> QED
        BY <2>1, <2>3, <2>4, <2>5, <2>6
<1> HIDE DEF G
<1>3. Seq(S) \subseteq G
    BY <1>1, <1>2, AllSequences
<1> QED
    BY <1>3 DEF G

\* What holds of a position whenever it holds of the later ones holds of all.
FollowsFromLater(n, S) ==
    \A i \in 0 .. n : (\A j \in 0 .. n : j > i => j \in S) => i \in S

LEMMA AllPositions ==
    ASSUME NEW n \in Nat, NEW S, FollowsFromLater(n, S)
    PROVE  0 .. n \subseteq S
<1> USE DEF FollowsFromLater
<1> DEFINE N == {k \in Nat : \A i \in 0 .. n : i + k >= n => i \in S}
<1>1. 0 \in N
    <2> SUFFICES ASSUME NEW i \in 0 .. n, i + 0 >= n PROVE i \in S
        OBVIOUS
    <2>1. \A j \in 0 .. n : ~(j > i)
        OBVIOUS
    <2> QED
        BY <2>1
<1>2. ASSUME NEW k \in Nat, k \in N PROVE k + 1 \in N
    <2> SUFFICES ASSUME NEW i \in 0 .. n, i + (k + 1) >= n PROVE i \in S
        OBVIOUS
    <2>1. \A j \in 0 .. n : j > i => j + k >= n
        OBVIOUS
    <2> QED
        BY <1>2, <2>1
<1> HIDE DEF N
<1>3. n \in N
    BY <1>1, <1>2, AllNumbers
<1> QED
    BY <1>3 DEF N

Payloads == Types \cup {None}
\* A program and some of its steps.
IsProgram(prog) ==
    /\ Len(prog) \in Nat /\ DOMAIN prog = 1 .. Len(prog)
    /\ \A i \in 1 .. Len(prog) : prog[i] # Shuffle => prog[i].out \in Seq(Payloads)
AreSteps(prog, among) == \A i \in among : i \in 1 .. Len(prog) /\ prog[i] # Shuffle

LEMMA LeastIn ==
    ASSUME NEW T, T \subseteq Nat, T # {}
    PROVE  Min(T) \in T /\ \A y \in T : Min(T) <= y
<1>1. \E x \in T : \A y \in T : x <= y
    BY LeastNumber
<1> QED
    BY <1>1 DEF Min

\* The next step is the first for the type, if there is one.
LEMMA NextStepIs ==
    ASSUME NEW prog, NEW among, among \subseteq Nat \ {0}, NEW i \in Nat, NEW payload
    PROVE  LET j == NextStep(prog, payload, among, i)
               typed == {t \in among : t > i /\ prog[t].in = payload}
           IN  /\ j # 0 => j \in among /\ j > i
               /\ typed # {} => j \in typed /\ \A t \in typed : j <= t
               /\ typed = {} /\ j # 0 => prog[j].in = DataObject /\ payload # None
<1> DEFINE later == {j \in among : j > i}
           typed == {j \in later : prog[j].in = payload}
           generic == {j \in later : payload # None /\ prog[j].in = DataObject}
<1>6. \A j \in among : j \in Nat /\ j # 0
    OBVIOUS
<1>1. later \subseteq Nat /\ typed \subseteq later /\ generic \subseteq later
    BY <1>6
<1>2. CASE typed # {}
    <2>1. Min(typed) \in typed /\ \A y \in typed : Min(typed) <= y
        BY <1>1, <1>2, LeastIn
    <2>2. NextStep(prog, payload, among, i) = Min(typed)
        BY <1>2 DEF NextStep
    <2> QED
        BY <1>1, <1>2, <1>6, <2>1, <2>2
<1>3. CASE typed = {} /\ generic # {}
    <2>1. Min(generic) \in generic
        BY <1>1, <1>3, LeastIn
    <2>2. NextStep(prog, payload, among, i) = Min(generic)
        BY <1>3 DEF NextStep
    <2> QED
        BY <1>1, <1>3, <1>6, <2>1, <2>2
<1>4. CASE typed = {} /\ generic = {}
    <2>2. NextStep(prog, payload, among, i) = 0
        BY <1>4 DEF NextStep
    <2> QED
        BY <1>4, <2>2
<1> QED
    BY <1>2, <1>3, <1>4

\* What comes of the payloads after step i, from what comes of them later.
From(prog, among, u, i) ==
    [payload \in Types \cup {None} |->
       LET j == NextStep(prog, payload, among, i) IN
       IF j # 0 THEN FlattenSeq([k \in DOMAIN prog[j].out |-> u[j][prog[j].out[k]]])
       ELSE IF payload = None THEN <<>> ELSE <<payload>>]

LEMMA FromSame ==
    ASSUME NEW prog, NEW among, among \subseteq Nat \ {0}, NEW i \in Nat,
           NEW u, NEW w, \A j \in among : j > i => u[j] = w[j]
    PROVE  From(prog, among, u, i) = From(prog, among, w, i)
<1> SUFFICES ASSUME NEW payload \in Types \cup {None}, NEW j,
                    j = NextStep(prog, payload, among, i), j # 0
             PROVE  u[j] = w[j]
    BY DEF From
<1>1. j \in among /\ j > i
    BY NextStepIs
<1> QED
    BY <1>1

\* The recursive function inside Outcome exists, by induction from the last step.
LEMMA OutcomesExist ==
    ASSUME NEW prog, NEW n \in Nat, NEW among, among \subseteq 1 .. n
    PROVE  \E u : u = [i \in 0 .. n |-> From(prog, among, u, i)]
<1> DEFINE Good(k, u) == u = [i \in (n - k) .. n |-> From(prog, among, u, i)]
           N == {k \in Nat : k <= n => \E u : Good(k, u)}
<1>6. among \subseteq Nat \ {0}
    OBVIOUS
<1>1. 0 \in N
    <2> DEFINE u0 == [i \in (n - 0) .. n |-> From(prog, among, <<>>, i)]
    <2>1. \A i \in (n - 0) .. n : From(prog, among, u0, i) = From(prog, among, <<>>, i)
        <3> SUFFICES ASSUME NEW i \in (n - 0) .. n
                     PROVE  From(prog, among, u0, i) = From(prog, among, <<>>, i)
            OBVIOUS
        <3>1. i \in Nat /\ \A j \in among : ~(j > i)
            OBVIOUS
        <3> HIDE DEF u0
        <3> QED
            BY <1>6, <3>1, FromSame
    <2>2. Good(0, u0)
        BY <2>1
    <2> QED
        BY <2>2
<1>2. ASSUME NEW k \in Nat, k \in N PROVE k + 1 \in N
    <2> SUFFICES ASSUME k + 1 <= n PROVE \E u : Good(k + 1, u)
        OBVIOUS
    <2>1. PICK u : Good(k, u)
        BY <1>2
    <2> DEFINE m == n - (k + 1)
               w == [i \in m .. n |-> IF i = m THEN From(prog, among, u, m) ELSE u[i]]
    <2>2. m \in Nat /\ m < n /\ n - k = m + 1
        OBVIOUS
    <2> HIDE DEF m
    <2>3. \A i \in (m + 1) .. n : w[i] = u[i]
        BY <2>2
    <2>4. \A i \in m .. n : From(prog, among, w, i) = From(prog, among, u, i)
        <3> SUFFICES ASSUME NEW i \in m .. n
                     PROVE  From(prog, among, w, i) = From(prog, among, u, i)
            OBVIOUS
        <3>1. i \in Nat
            BY <2>2
        <3>3. \A j \in among : j > i => j \in (m + 1) .. n
            BY <2>2
        <3>2. \A j \in among : j > i => u[j] = w[j]
            BY <2>3, <3>3
        <3> HIDE DEF w
        <3>4. From(prog, among, u, i) = From(prog, among, w, i)
            BY <1>6, <3>1, <3>2, FromSame
        <3> QED
            BY <3>4
    <2>5. \A i \in (m + 1) .. n : u[i] = From(prog, among, u, i)
        BY <2>1, <2>2
    <2>6. \A i \in m .. n : w[i] = From(prog, among, w, i)
        <3> SUFFICES ASSUME NEW i \in m .. n PROVE w[i] = From(prog, among, u, i)
            BY <2>4
        <3>1. CASE i = m
            BY <2>2, <3>1
        <3>2. CASE i # m
            <4>1. i \in (m + 1) .. n
                BY <2>2, <3>2
            <4> QED
                BY <2>3, <2>5, <4>1
        <3> QED
            BY <3>1, <3>2
    <2>7. DOMAIN w = m .. n /\ w = [i \in m .. n |-> w[i]]
        OBVIOUS
    <2> HIDE DEF w
    <2>8. w = [i \in m .. n |-> From(prog, among, w, i)]
        BY <2>6, <2>7
    <2> QED
        BY <2>8 DEF m
<1> HIDE DEF N
<1>3. n \in N
    BY <1>1, <1>2, AllNumbers
<1>4. PICK u : Good(n, u)
    BY <1>3 DEF N
<1>5. n - n = 0
    OBVIOUS
<1> QED
    BY <1>4, <1>5

LEMMA OutcomeUnfolds ==
    ASSUME NEW prog, NEW among, Len(prog) \in Nat, among \subseteq 1 .. Len(prog)
    PROVE  LET O == Outcome(prog, among)
           IN  \A i \in 0 .. Len(prog) : O[i] = From(prog, among, O, i)
<1> DEFINE u == CHOOSE u : u = [i \in 0 .. Len(prog) |-> From(prog, among, u, i)]
<1>1. u = [i \in 0 .. Len(prog) |-> From(prog, among, u, i)]
    BY OutcomesExist
<1>2. Outcome(prog, among) = u
    BY DEF Outcome, From
<1> HIDE DEF u
<1> QED
    BY <1>1, <1>2

\* Outcome, one step at a time.
LEMMA OutcomeIs ==
    ASSUME NEW prog, NEW among, IsProgram(prog), AreSteps(prog, among),
           NEW i \in 0 .. Len(prog), NEW payload \in Payloads,
           NEW j, j = NextStep(prog, payload, among, i)
    PROVE  Outcome(prog, among)[i][payload] =
              IF j # 0 THEN Each(prog[j].out, Outcome(prog, among)[j])
              ELSE IF payload = None THEN <<>> ELSE <<payload>>
<1>1. Len(prog) \in Nat /\ among \subseteq 1 .. Len(prog)
    BY DEF IsProgram, AreSteps
<1>2. Outcome(prog, among)[i] = From(prog, among, Outcome(prog, among), i)
    BY <1>1, OutcomeUnfolds
<1> QED
    BY <1>2 DEF From, Payloads, Each, Image

LEMMA NextStepInside ==
    ASSUME NEW prog, NEW among, IsProgram(prog), AreSteps(prog, among),
           NEW i \in 0 .. Len(prog), NEW payload,
           NEW j, j = NextStep(prog, payload, among, i), j # 0
    PROVE  j \in among /\ j > i /\ j \in 0 .. Len(prog) /\ prog[j].out \in Seq(Payloads)
<1>1. Len(prog) \in Nat /\ among \subseteq 1 .. Len(prog) /\ among \subseteq Nat \ {0} /\ i \in Nat
    BY DEF IsProgram, AreSteps
<1>2. j \in among /\ j > i
    BY <1>1, NextStepIs
<1> QED
    BY <1>1, <1>2 DEF IsProgram, AreSteps

\* Steps give dataobjects, never None.
LEMMA OutcomeType ==
    ASSUME NEW prog, NEW among, IsProgram(prog), AreSteps(prog, among)
    PROVE  \A i \in 0 .. Len(prog) : Outcome(prog, among)[i] \in Lists(Payloads, Types)
<1> DEFINE O == Outcome(prog, among)
           G == {i \in 0 .. Len(prog) : O[i] \in Lists(Payloads, Types)}
<1>1. Len(prog) \in Nat /\ among \subseteq 1 .. Len(prog)
    BY DEF IsProgram, AreSteps
<1>2. ASSUME NEW i \in 0 .. Len(prog), \A j \in 0 .. Len(prog) : j > i => j \in G
      PROVE  i \in G
    <2>1. O[i] = From(prog, among, O, i)
        BY <1>1, OutcomeUnfolds
    <2>2. O[i] = [payload \in Payloads |-> O[i][payload]]
        BY <2>1 DEF From, Payloads
    <2>3. ASSUME NEW payload \in Payloads
          PROVE  O[i][payload] \in Seq(Types)
        <3>1. PICK j : j = NextStep(prog, payload, among, i)
            OBVIOUS
        <3>2. CASE j # 0
            <4>1. j > i /\ j \in 0 .. Len(prog) /\ prog[j].out \in Seq(Payloads)
                BY <3>1, <3>2, NextStepInside
            <4>2. j \in G /\ prog[j].out \in Seq(Payloads)
                BY <1>2, <4>1
            <4>3. O[j] \in Lists(Payloads, Types)
                BY <4>2
            <4>5. Outcome(prog, among)[i][payload] =
                     IF j # 0 THEN Each(prog[j].out, Outcome(prog, among)[j])
                     ELSE IF payload = None THEN <<>> ELSE <<payload>>
                BY <3>1, OutcomeIs
            <4>4. O[i][payload] = Each(prog[j].out, O[j])
                BY <3>2, <4>5
            <4> HIDE DEF O
            <4> QED
                BY <4>2, <4>3, <4>4, EachType
        <3>3. CASE j = 0
            <4>3. Outcome(prog, among)[i][payload] =
                     IF j # 0 THEN Each(prog[j].out, Outcome(prog, among)[j])
                     ELSE IF payload = None THEN <<>> ELSE <<payload>>
                BY <3>1, OutcomeIs
            <4>1. O[i][payload] = IF payload = None THEN <<>> ELSE <<payload>>
                BY <3>3, <4>3
            <4>2. payload # None => payload \in Types
                BY DEF Payloads
            <4> QED
                BY <4>1, <4>2, EmptySeq
        <3> QED
            BY <3>2, <3>3
    <2> QED
        BY <2>2, <2>3 DEF Lists
<1> HIDE DEF G
<1>3. 0 .. Len(prog) \subseteq G
    <2>1. FollowsFromLater(Len(prog), G)
        BY <1>2 DEF FollowsFromLater
    <2> QED
        BY <1>1, <2>1, AllPositions
<1> QED
    BY <1>3 DEF G

\* The steps of the whole event.
All == {i \in Positions : steps[i] # Shuffle}

\* The steps of an event, and those of a stage, are steps of a program.
LEMMA StepsAreProgram ==
    ASSUME steps \in Programs
    PROVE  /\ IsProgram(steps) /\ AreSteps(steps, All)
           /\ All \subseteq Nat \ {0} /\ All \subseteq 1 .. Len(steps)
           /\ \A s \in Stages : EffectiveSteps(s) \subseteq All /\ AreSteps(steps, EffectiveSteps(s))
<1>1. Len(steps) \in Nat /\ Positions = 1 .. Len(steps)
    BY StagesAreNumbers
<1>2. PICK p \in Programs : p = steps
    OBVIOUS
<1>3. \A i \in 1 .. Len(p) : p[i] # Shuffle => p[i].out \in Seq(Types \cup {None})
    BY StagesAssumption
<1>4. IsProgram(steps)
    BY <1>1, <1>2, <1>3 DEF IsProgram, Positions, Payloads
<1>5. \A i \in 1 .. Len(steps) : i \in Nat \ {0}
    BY <1>1
<1>6. \A i \in All : i \in 1 .. Len(steps) /\ steps[i] # Shuffle
    BY <1>1 DEF All
<1>7. \A s \in Stages : EffectiveSteps(s) \subseteq All
    <2> SUFFICES ASSUME NEW s \in Stages, NEW i \in EffectiveSteps(s) PROVE steps[i] # Shuffle
        BY DEF EffectiveSteps, All
    <2>1. i \in 1 .. Len(steps) /\ i >= s /\ \A j \in s .. i : steps[j] # Shuffle
        BY <1>1 DEF EffectiveSteps
    <2>2. s \in 1 .. Len(steps)
        BY StagesAreNumbers
    <2>3. i \in s .. i
        BY <1>1, <2>1, <2>2
    <2> QED
        BY <2>1, <2>3
<1> QED
    BY <1>4, <1>5, <1>6, <1>7 DEF AreSteps

\* A stage has the steps from its first one up to the next stage.
LEMMA StageSteps ==
    ASSUME steps \in Programs, NEW s \in Stages, NEW j \in All, j >= s,
           NextStage(s) = 0 \/ j < NextStage(s)
    PROVE  j \in EffectiveSteps(s)
<1>1. /\ Len(steps) \in Nat /\ Positions = 1 .. Len(steps)
      /\ s \in 1 .. Len(steps) /\ j \in 1 .. Len(steps) /\ steps[j] # Shuffle
    BY StagesAreNumbers DEF All
<1> SUFFICES ASSUME NEW k \in s .. j, steps[k] = Shuffle PROVE FALSE
    BY <1>1 DEF EffectiveSteps
<1>2. k \in 1 .. Len(steps) /\ k # j /\ k + 1 \in 2 .. Len(steps) /\ (k + 1) - 1 = k /\ k + 1 <= j /\ k + 1 > s
    BY <1>1
<1>3. PICK p \in Programs : p = steps
    OBVIOUS
<1>4. PICK n : n = k + 1
    OBVIOUS
<1>5. ~(p[n] = Shuffle /\ p[n - 1] = Shuffle)
    BY <1>2, <1>3, <1>4, StagesAssumption
<1>6. n \in 1 .. Len(steps) /\ n <= j /\ n > s /\ n - 1 = k
    BY <1>1, <1>2, <1>4
<1>7. n \in Stages
    BY <1>1, <1>3, <1>5, <1>6 DEF Stages
<1>8. NextStage(s) # 0 /\ n >= NextStage(s)
    <2>1. NextStage(s) = 0 => n <= s
        BY <1>7, NextIsLater
    <2>2. NextStage(s) # 0 => n >= NextStage(s)
        BY <1>6, <1>7, NextIsLater
    <2> QED
        BY <1>1, <1>6, <2>1, <2>2
<1>9. NextStage(s) \in 1 .. Len(steps)
    BY <1>8, NextIsLater, StagesAreNumbers
<1> QED
    BY <1>1, <1>6, <1>8, <1>9

\* The steps of a stage come before the next stage.
LEMMA StepsOfStage ==
    ASSUME steps \in Programs, NEW s \in Stages, NEW i \in EffectiveSteps(s)
    PROVE  i >= s /\ (NextStage(s) # 0 => i < NextStage(s))
<1>1. /\ Len(steps) \in Nat /\ Positions = 1 .. Len(steps)
      /\ s \in 1 .. Len(steps)
    BY StagesAreNumbers
<1>2. i \in 1 .. Len(steps) /\ i >= s /\ \A j \in s .. i : steps[j] # Shuffle
    BY <1>1 DEF EffectiveSteps
<1> SUFFICES ASSUME NEW t, t = NextStage(s), t # 0, ~(i < t) PROVE FALSE
    BY <1>2
<1>3. t \in Stages /\ t > s
    BY NextIsLater
<1>4. t \in 1 .. Len(steps) /\ t # 1
    BY <1>1, <1>3, StagesAreNumbers
<1>5. steps[t - 1] = Shuffle
    BY <1>3, <1>4 DEF Stages
<1>6. t - 1 \in s .. i
    BY <1>1, <1>2, <1>3, <1>4
<1> QED
    BY <1>2, <1>5, <1>6

\* Where no step takes any dataobject, the next step for a payload is the
\* first for its type.
NoGeneric(among) == \A i \in among : steps[i].in # DataObject
Takers(payload, among, i) == {j \in among : j > i /\ steps[j].in = payload}

LEMMA NextTaker ==
    ASSUME NEW among, NoGeneric(among), NEW payload, NEW i
    PROVE  NextStep(steps, payload, among, i) =
             IF Takers(payload, among, i) = {} THEN 0 ELSE Min(Takers(payload, among, i))
<1> DEFINE later == {j \in among : j > i}
<1>1. {j \in later : steps[j].in = payload} = Takers(payload, among, i)
    BY DEF Takers
<1>2. {j \in later : payload # None /\ steps[j].in = DataObject} = {}
    BY DEF NoGeneric
<1> QED
    BY <1>1, <1>2 DEF NextStep

LEMMA SameTakers ==
    ASSUME NEW a, NEW b, NoGeneric(a), NoGeneric(b), NEW payload, NEW i, NEW k,
           Takers(payload, a, i) = Takers(payload, b, k)
    PROVE  NextStep(steps, payload, a, i) = NextStep(steps, payload, b, k)
BY NextTaker

LEMMA LeastOfMore ==
    ASSUME NEW A \in SUBSET Nat, NEW B \in SUBSET A, B # {},
           \A a \in A, b \in B : a \in B \/ b <= a
    PROVE  Min(A) = Min(B)
<1>1. Min(A) \in A /\ \A y \in A : Min(A) <= y
    BY LeastIn
<1>2. Min(B) \in B /\ \A y \in B : Min(B) <= y
    BY LeastIn
<1>3. Min(A) <= Min(B)
    BY <1>1, <1>2
<1>4. Min(B) <= Min(A)
    BY <1>1, <1>2
<1>5. Min(A) \in Nat /\ Min(B) \in Nat
    BY <1>1, <1>2
<1> QED
    BY <1>3, <1>4, <1>5

\* What SHUFFLE asks of the steps of an event that is split.
LEMMA SplitAsks ==
    ASSUME steps \in Programs, Passes, Cardinality(Stages) # 1
    PROVE  /\ NoGeneric(All) /\ \A s \in Stages : NoGeneric(EffectiveSteps(s))
           /\ \A s \in Stages : s # 1 => \A i \in EffectiveSteps(s) : steps[i].in # None
           /\ \A s \in Stages : Handled(s) = InputTypes(s) \cap Types
<1>1. /\ \A i \in Positions : steps[i] # Shuffle => steps[i].in # DataObject
      /\ \A s \in Stages \ {1} : \A i \in EffectiveSteps(s) : steps[i].in # None
    BY DEF Passes
<1>2. NoGeneric(All)
    BY <1>1 DEF NoGeneric, All
<1>3. \A s \in Stages : NoGeneric(EffectiveSteps(s))
    BY <1>2, StepsAreProgram DEF NoGeneric
<1>4. DataObjects = {}
    BY DEF DataObjects
<1> QED
    BY <1>1, <1>2, <1>3, <1>4 DEF Handled

\* After a step of a stage the whole event goes on with a step of the stage, or
\* as it does before the next stage.
LEMMA StageGoesOn ==
    ASSUME steps \in Programs, Passes, Cardinality(Stages) # 1,
           NEW s \in Stages, NEW t, t = NextStage(s), t # 0,
           NEW i \in Nat, i >= s - 1, i < t, NEW payload
    PROVE  /\ NextStep(steps, payload, EffectiveSteps(s), i) # 0 =>
                NextStep(steps, payload, All, i) = NextStep(steps, payload, EffectiveSteps(s), i)
           /\ NextStep(steps, payload, EffectiveSteps(s), i) = 0 =>
                NextStep(steps, payload, All, i) = NextStep(steps, payload, All, t - 1)
<1> DEFINE E == EffectiveSteps(s)
           A == Takers(payload, All, i)
           B == Takers(payload, E, i)
<1>1. NoGeneric(All) /\ NoGeneric(E)
    BY SplitAsks
<1>2. All \subseteq Nat \ {0} /\ E \subseteq All
    BY StepsAreProgram
<1>3. t \in Stages /\ t > s /\ s \in Nat /\ t \in Nat
    <2>1. t \in Stages /\ t > s
        BY NextIsLater
    <2>2. \A x \in Stages : x \in 1 .. Len(steps)
        BY StagesAreNumbers
    <2>3. Len(steps) \in Nat
        BY StagesAreNumbers
    <2> QED
        BY <2>1, <2>2, <2>3
<1>4. \A j \in E : j < t
    BY StepsOfStage
<1>5. ASSUME NEW j \in All, j > i, j < t
      PROVE  j \in E
    <2>1. j >= s
        BY <1>2, <1>3, <1>5
    <2> QED
        BY <1>5, <2>1, StageSteps
<1>6. B \subseteq A /\ \A j \in A : j \in B \/ j >= t
    <2>1. B \subseteq A
        BY <1>2 DEF Takers
    <2>2. ASSUME NEW j \in A, ~(j >= t)
          PROVE  j \in B
        <3>1. j \in All /\ j > i /\ steps[j].in = payload
            BY <2>2 DEF Takers
        <3>2. j < t
            BY <1>2, <1>3, <2>2, <3>1
        <3>3. j \in E
            BY <1>5, <3>1, <3>2
        <3> QED
            BY <3>1, <3>3 DEF Takers
    <2> QED
        BY <2>1, <2>2
<1>7. A \subseteq Nat /\ B \subseteq Nat \ {0} /\ \A j \in B : j < t
    BY <1>2, <1>4 DEF Takers
<1>8. NextStep(steps, payload, E, i) = IF B = {} THEN 0 ELSE Min(B)
    BY <1>1, NextTaker
<1>9. NextStep(steps, payload, All, i) = IF A = {} THEN 0 ELSE Min(A)
    BY <1>1, NextTaker
<1>10. CASE B # {}
    <2> HIDE DEF A, B, E
    <2>1. \A a \in A, b \in B : a \in B \/ b <= a
        <3> SUFFICES ASSUME NEW a \in A, NEW b \in B, a \notin B PROVE b <= a
            OBVIOUS
        <3>1. a >= t /\ b < t /\ a \in Nat /\ b \in Nat
            BY <1>6, <1>7
        <3> QED
            BY <1>3, <3>1
    <2>2. Min(A) = Min(B)
        BY <1>6, <1>7, <1>10, <2>1, LeastOfMore
    <2>3. Min(B) \in B
        BY <1>7, <1>10, LeastIn
    <2>4. Min(B) # 0 /\ A # {}
        BY <1>6, <1>7, <1>10, <2>3
    <2> QED
        BY <1>8, <1>9, <1>10, <2>2, <2>4 DEF E
<1>11. CASE B = {}
    <2>1. NextStep(steps, payload, E, i) = 0
        BY <1>8, <1>11
    <2>2. A = Takers(payload, All, t - 1)
        <3>1. ASSUME NEW j \in A
              PROVE  j \in Takers(payload, All, t - 1)
            <4>1. j >= t /\ j \in Nat
                BY <1>6, <1>7, <1>11
            <4>2. j > t - 1
                BY <1>3, <4>1
            <4> QED
                BY <4>2 DEF Takers
        <3>2. ASSUME NEW j \in Takers(payload, All, t - 1)
              PROVE  j \in A
            <4>1. j \in All /\ j > t - 1 /\ j \in Nat /\ steps[j].in = payload
                BY <1>2 DEF Takers
            <4>2. j > i
                BY <1>3, <4>1
            <4> QED
                BY <4>1, <4>2 DEF Takers
        <3> HIDE DEF A
        <3> QED
            BY <3>1, <3>2
    <2>3. NextStep(steps, payload, All, i) = NextStep(steps, payload, All, t - 1)
        BY <1>1, <2>2, SameTakers
    <2> QED
        BY <2>1, <2>3
<1> QED
    BY <1>10, <1>11

\* The steps after a step of the last stage are those of the whole event.
LEMMA LastGoesOn ==
    ASSUME steps \in Programs, Passes, Cardinality(Stages) # 1,
           NEW s \in Stages, NextStage(s) = 0, NEW i \in Nat, i >= s - 1, NEW payload
    PROVE  NextStep(steps, payload, All, i) = NextStep(steps, payload, EffectiveSteps(s), i)
<1>1. NoGeneric(All) /\ NoGeneric(EffectiveSteps(s))
    BY SplitAsks
<1>2. All \subseteq Nat \ {0} /\ EffectiveSteps(s) \subseteq All
    BY StepsAreProgram
<1>3. s \in Nat
    <2>1. s \in 1 .. Len(steps) /\ Len(steps) \in Nat
        BY StagesAreNumbers
    <2> QED
        BY <2>1
<1>4. ASSUME NEW j \in All, j > i
      PROVE  j \in EffectiveSteps(s)
    <2>1. j >= s
        BY <1>2, <1>3, <1>4
    <2> QED
        BY <2>1, StageSteps
<1>5. Takers(payload, All, i) = Takers(payload, EffectiveSteps(s), i)
    BY <1>2, <1>4 DEF Takers
<1> QED
    BY <1>1, <1>5, SameTakers

\* None is not taken after the first stage.
LEMMA NoneIsNotTaken ==
    ASSUME steps \in Programs, Passes, Cardinality(Stages) # 1
    PROVE  \A s \in Stages : s # 1 => NextStep(steps, None, All, s - 1) = 0
<1>1. Len(steps) \in Nat /\ Stages \subseteq 1 .. Len(steps)
    BY StagesAreNumbers
<1>2. NoGeneric(All) /\ All \subseteq Nat \ {0}
    BY SplitAsks, StepsAreProgram
<1> DEFINE G == {s \in 0 .. Len(steps) : s \in Stages /\ s # 1 => Takers(None, All, s - 1) = {}}
<1>3. ASSUME NEW s \in 0 .. Len(steps), \A j \in 0 .. Len(steps) : j > s => j \in G
      PROVE  s \in G
    <2> SUFFICES ASSUME s \in Stages, s # 1, NEW j \in All, j > s - 1, steps[j].in = None
                 PROVE  FALSE
        BY DEF Takers
    <2>1. j \notin EffectiveSteps(s)
        BY SplitAsks
    <2>2. j >= s /\ j \in Nat /\ s \in Nat
        BY <1>1, <1>2
    <2>3. PICK t : t = NextStage(s)
        OBVIOUS
    <2>4. t # 0 /\ ~(j < t)
        BY <2>1, <2>2, <2>3, StageSteps
    <2>5. t \in Stages /\ t > s
        BY <2>3, <2>4, NextIsLater
    <2>6. t \in 0 .. Len(steps) /\ t # 1 /\ t \in Nat
        BY <1>1, <2>2, <2>5
    <2>7. Takers(None, All, t - 1) = {}
        BY <1>3, <2>5, <2>6
    <2>8. j > t - 1
        BY <2>2, <2>4, <2>6
    <2> QED
        BY <2>7, <2>8 DEF Takers
<1> HIDE DEF G
<1>4. 0 .. Len(steps) \subseteq G
    <2>1. FollowsFromLater(Len(steps), G)
        BY <1>3 DEF FollowsFromLater
    <2> QED
        BY <1>1, <2>1, AllPositions
<1> SUFFICES ASSUME NEW s \in Stages, s # 1 PROVE NextStep(steps, None, All, s - 1) = 0
    OBVIOUS
<1>5. s \in 0 .. Len(steps)
    BY <1>1
<1>6. Takers(None, All, s - 1) = {}
    BY <1>4, <1>5 DEF G
<1> QED
    BY <1>2, <1>6, NextTaker

\* What the whole event gives after step i.
Whole(i) == Outcome(steps, All)[i]

\* What comes out, of the event or of a stage, are dataobjects.
LEMMA WholeType ==
    ASSUME steps \in Programs
    PROVE  \A i \in 0 .. Len(steps) : /\ Whole(i) \in Lists(Payloads, Types)
                                      /\ \A s \in Stages : /\ Outcome(steps, EffectiveSteps(s))[i] \in Lists(Payloads, Types)
                                                           /\ Outcome(steps, EffectiveSteps(s))[i] \in Lists(Payloads, Payloads)
<1>1. IsProgram(steps) /\ AreSteps(steps, All) /\ \A s \in Stages : AreSteps(steps, EffectiveSteps(s))
    BY StepsAreProgram
<1>2. \A x \in Seq(Types) : x \in Seq(Payloads)
    BY SeqMonotonic DEF Payloads
<1>3. ASSUME NEW i \in 0 .. Len(steps), NEW s \in Stages
      PROVE  /\ Outcome(steps, EffectiveSteps(s))[i] \in Lists(Payloads, Types)
             /\ Outcome(steps, EffectiveSteps(s))[i] \in Lists(Payloads, Payloads)
    <2>1. Outcome(steps, EffectiveSteps(s))[i] \in Lists(Payloads, Types)
        BY <1>1, OutcomeType
    <2> QED
        BY <1>2, <2>1 DEF Lists
<1>4. \A i \in 0 .. Len(steps) : Whole(i) \in Lists(Payloads, Types)
    BY <1>1, OutcomeType DEF Whole
<1> QED
    BY <1>3, <1>4

\* The whole event does what a stage does, and then what it does from the next
\* stage with each result.
LEMMA StageThenRest ==
    ASSUME steps \in Programs, Passes, Cardinality(Stages) # 1,
           NEW s \in Stages, NEW t, t = NextStage(s), t # 0
    PROVE  \A i \in 0 .. Len(steps) : i >= s - 1 /\ i < t => \A p \in Payloads :
              Whole(i)[p] = Each(Outcome(steps, EffectiveSteps(s))[i][p], Whole(t - 1))
<1> DEFINE E == EffectiveSteps(s)
           O == Outcome(steps, E)
           G == {i \in 0 .. Len(steps) : i >= s - 1 /\ i < t =>
                   \A p \in Payloads : Whole(i)[p] = Each(O[i][p], Whole(t - 1))}
<1>1. Len(steps) \in Nat /\ Stages \subseteq 1 .. Len(steps)
    BY StagesAreNumbers
<1>2. t \in Stages /\ t > s /\ t \in 1 .. Len(steps) /\ s \in 1 .. Len(steps) /\ t # 1
      /\ t - 1 \in 0 .. Len(steps)
    <2>1. t \in Stages /\ t > s
        BY NextIsLater
    <2> QED
        BY <1>1, <2>1
<1>3. IsProgram(steps) /\ AreSteps(steps, All) /\ AreSteps(steps, E)
    BY StepsAreProgram
<1>4. \A i \in 0 .. Len(steps) : /\ Whole(i) \in Lists(Payloads, Types)
                                 /\ O[i] \in Lists(Payloads, Payloads)
    BY WholeType
<1>5. Whole(t - 1) \in Lists(Payloads, Types)
    BY <1>2, <1>4
<1>6. ASSUME NEW i \in 0 .. Len(steps), \A j \in 0 .. Len(steps) : j > i => j \in G
      PROVE  i \in G
    <2> SUFFICES ASSUME i >= s - 1, i < t, NEW p \in Payloads
                 PROVE  Whole(i)[p] = Each(O[i][p], Whole(t - 1))
        OBVIOUS
    <2>0. i \in Nat
        BY <1>1
    <2>1. PICK j : j = NextStep(steps, p, E, i)
        OBVIOUS
    <2>2. PICK k : k = NextStep(steps, p, All, i)
        OBVIOUS
    <2>3. O[i][p] = IF j # 0 THEN Each(steps[j].out, O[j])
                    ELSE IF p = None THEN <<>> ELSE <<p>>
        BY <1>3, <2>1, OutcomeIs
    <2>4. Whole(i)[p] = IF k # 0 THEN Each(steps[k].out, Whole(k))
                        ELSE IF p = None THEN <<>> ELSE <<p>>
        BY <1>3, <2>2, OutcomeIs DEF Whole
    <2>5. CASE j # 0
        <3>1. k = j
            BY <2>0, <2>1, <2>2, <2>5, StageGoesOn
        <3>2. j \in E /\ j > i /\ j \in 0 .. Len(steps) /\ steps[j].out \in Seq(Payloads)
            BY <1>3, <2>1, <2>5, NextStepInside
        <3>3. j < t
            BY <3>2, StepsOfStage
        <3>4. j >= s - 1
            BY <1>1, <1>2, <3>2
        <3>5. j \in G
            BY <1>6, <3>2
        <3>6. \A q \in Payloads : Whole(j)[q] = Each(O[j][q], Whole(t - 1))
            BY <3>3, <3>4, <3>5
        <3>7. Whole(j) \in Lists(Payloads, Types) /\ O[j] \in Lists(Payloads, Payloads)
            BY <1>4, <3>2
        <3> HIDE DEF O
        <3>9. \A x \in Seq(Payloads) : Each(Each(x, O[j]), Whole(t - 1)) = Each(x, Whole(j))
            BY <1>5, <3>6, <3>7, EachOfEach
        <3>8. Each(Each(steps[j].out, O[j]), Whole(t - 1)) = Each(steps[j].out, Whole(j))
            BY <3>2, <3>9
        <3> QED
            BY <2>3, <2>4, <2>5, <3>1, <3>8
    <2>6. CASE j = 0
        <3>6. NextStep(steps, p, EffectiveSteps(s), i) = 0
            BY <2>1, <2>6
        <3>7. NextStep(steps, p, All, i) = NextStep(steps, p, All, t - 1)
            BY <2>0, <3>6, StageGoesOn
        <3>1. k = NextStep(steps, p, All, t - 1)
            BY <2>2, <3>7
        <3>2. Whole(t - 1)[p] = IF k # 0 THEN Each(steps[k].out, Whole(k))
                                ELSE IF p = None THEN <<>> ELSE <<p>>
            BY <1>2, <1>3, <3>1, OutcomeIs DEF Whole
        <3>3. Whole(i)[p] = Whole(t - 1)[p]
            BY <2>4, <3>2
        <3>4. CASE p = None
            <4>1. k = 0
                BY <1>2, <3>1, <3>4, NoneIsNotTaken
            <4>2. O[i][p] = <<>> /\ Whole(i)[p] = <<>>
                BY <2>3, <2>4, <2>6, <3>4, <4>1
            <4>3. Each(<<>>, Whole(t - 1)) = <<>>
                BY <1>5, EachEmpty
            <4> QED
                BY <4>2, <4>3
        <3>5. CASE p # None
            <4>1. O[i][p] = <<p>>
                BY <2>3, <2>6, <3>5
            <4>2. Each(<<p>>, Whole(t - 1)) = Whole(t - 1)[p]
                BY <1>5, EachOne
            <4> QED
                BY <3>3, <4>1, <4>2
        <3> QED
            BY <3>4, <3>5
    <2> QED
        BY <2>5, <2>6
<1> HIDE DEF G
<1>7. 0 .. Len(steps) \subseteq G
    <2>1. FollowsFromLater(Len(steps), G)
        BY <1>6 DEF FollowsFromLater
    <2> QED
        BY <1>1, <2>1, AllPositions
<1> QED
    BY <1>7 DEF G

\* The last stage does what is left of the event.
LEMMA LastStageIsRest ==
    ASSUME steps \in Programs, Passes, Cardinality(Stages) # 1,
           NEW s \in Stages, NextStage(s) = 0
    PROVE  \A i \in 0 .. Len(steps) : i >= s - 1 => \A p \in Payloads :
              Outcome(steps, EffectiveSteps(s))[i][p] = Whole(i)[p]
<1> DEFINE E == EffectiveSteps(s)
           O == Outcome(steps, E)
           G == {i \in 0 .. Len(steps) : i >= s - 1 => \A p \in Payloads : O[i][p] = Whole(i)[p]}
<1>1. Len(steps) \in Nat /\ s \in 1 .. Len(steps)
    BY StagesAreNumbers
<1>3. IsProgram(steps) /\ AreSteps(steps, All) /\ AreSteps(steps, E)
    BY StepsAreProgram
<1>6. ASSUME NEW i \in 0 .. Len(steps), \A j \in 0 .. Len(steps) : j > i => j \in G
      PROVE  i \in G
    <2> SUFFICES ASSUME i >= s - 1, NEW p \in Payloads
                 PROVE  O[i][p] = Whole(i)[p]
        OBVIOUS
    <2>0. i \in Nat
        BY <1>1
    <2>1. PICK j : j = NextStep(steps, p, E, i)
        OBVIOUS
    <2>2. j = NextStep(steps, p, All, i)
        BY <2>0, <2>1, LastGoesOn
    <2>3. O[i][p] = IF j # 0 THEN Each(steps[j].out, O[j])
                    ELSE IF p = None THEN <<>> ELSE <<p>>
        BY <1>3, <2>1, OutcomeIs
    <2>4. Whole(i)[p] = IF j # 0 THEN Each(steps[j].out, Whole(j))
                        ELSE IF p = None THEN <<>> ELSE <<p>>
        BY <1>3, <2>2, OutcomeIs DEF Whole
    <2>5. CASE j # 0
        <3>2. j > i /\ j \in 0 .. Len(steps) /\ steps[j].out \in Seq(Payloads)
            BY <1>3, <2>1, <2>5, NextStepInside
        <3>4. j >= s - 1
            BY <1>1, <3>2
        <3>5. j \in G
            BY <1>6, <3>2
        <3>6. \A q \in Payloads : O[j][q] = Whole(j)[q]
            BY <3>4, <3>5
        <3> HIDE DEF O
        <3>7. \A n \in DOMAIN steps[j].out : steps[j].out[n] \in Payloads
            BY <3>2, LenProperties
        <3>8. Each(steps[j].out, O[j]) = Each(steps[j].out, Whole(j))
            BY <3>6, <3>7, EachSame
        <3> QED
            BY <2>3, <2>4, <2>5, <3>8
    <2>6. CASE j = 0
        BY <2>3, <2>4, <2>6
    <2> QED
        BY <2>5, <2>6
<1> HIDE DEF G
<1>7. 0 .. Len(steps) \subseteq G
    <2>1. FollowsFromLater(Len(steps), G)
        BY <1>6 DEF FollowsFromLater
    <2> QED
        BY <1>1, <2>1, AllPositions
<1> QED
    BY <1>7 DEF G

\* What a stage can decode one of its steps takes.
LEMMA HandledIsTaken ==
    ASSUME steps \in Programs, Passes, NEW s \in Stages, NEW p \in Handled(s)
    PROVE  /\ p \in Types
           /\ NextStep(steps, p, EffectiveSteps(s), s - 1) # 0 /\ NextStep(steps, p, All, s - 1) # 0
<1>1. p \in Types /\ \E i \in EffectiveSteps(s) : steps[i].in = p \/ steps[i].in = DataObject
    BY DEF Handled, InputTypes, DataObjects
<1>2. p # None
    BY <1>1, StagesAssumption
<1>3. /\ All \subseteq Nat \ {0} /\ EffectiveSteps(s) \subseteq All
      /\ s \in Nat /\ \A i \in EffectiveSteps(s) : i > s - 1
    <2>1. All \subseteq Nat \ {0} /\ EffectiveSteps(s) \subseteq All
        BY StepsAreProgram
    <2>2. s \in 1 .. Len(steps) /\ Len(steps) \in Nat
        BY StagesAreNumbers
    <2>3. \A i \in EffectiveSteps(s) : i >= s
        BY StepsOfStage
    <2>4. s \in Nat
        BY <2>2
    <2>5. \A i \in EffectiveSteps(s) : i \in Nat
        BY <2>1
    <2> QED
        BY <2>1, <2>3, <2>4, <2>5
<1>4. ASSUME NEW among, EffectiveSteps(s) \subseteq among, among \subseteq Nat \ {0}
      PROVE  NextStep(steps, p, among, s - 1) # 0
    <2> DEFINE later == {j \in among : j > s - 1}
               typed == {j \in later : steps[j].in = p}
               generic == {j \in later : p # None /\ steps[j].in = DataObject}
    <2>1. typed # {} \/ generic # {}
        BY <1>1, <1>2, <1>3, <1>4
    <2>2. typed \subseteq Nat \ {0} /\ generic \subseteq Nat \ {0}
        BY <1>4
    <2>3. typed # {} => Min(typed) \in typed
        BY <2>2, LeastIn
    <2>4. generic # {} => Min(generic) \in generic
        BY <2>2, LeastIn
    <2>5. NextStep(steps, p, among, s - 1) =
             IF typed # {} THEN Min(typed) ELSE IF generic # {} THEN Min(generic) ELSE 0
        BY DEF NextStep
    <2> HIDE DEF typed, generic
    <2> QED
        BY <2>1, <2>2, <2>3, <2>4, <2>5
<1>5. EffectiveSteps(s) \subseteq Nat \ {0}
    BY <1>3
<1>6. NextStep(steps, p, EffectiveSteps(s), s - 1) # 0
    BY <1>4, <1>5
<1>7. NextStep(steps, p, All, s - 1) # 0
    BY <1>3, <1>4
<1> QED
    BY <1>1, <1>6, <1>7

\* An event that is not split is one stage of all the steps.
LEMMA OneStage ==
    ASSUME steps \in Programs, Cardinality(Stages) = 1, NEW s \in Stages
    PROVE  s = 1 /\ NextStage(s) = 0 /\ EffectiveSteps(s) = All
<1>1. 1 \in Stages /\ IsFiniteSet(Stages) /\ Len(steps) \in Nat /\ Stages \subseteq 1 .. Len(steps)
    BY StagesAreNumbers
<1>2. PICK x : Stages = {x}
    BY <1>1, FS_Singleton
<1>3. s = 1
    BY <1>1, <1>2
<1>4. NextStage(s) = 0
    <2> SUFFICES ASSUME NextStage(s) # 0 PROVE FALSE
        OBVIOUS
    <2>1. NextStage(s) \in Stages /\ NextStage(s) > s
        BY NextIsLater
    <2> QED
        BY <1>2, <1>3, <2>1
<1>5. ASSUME NEW j \in All PROVE j \in EffectiveSteps(s)
    <2>1. j >= s
        <3>1. j \in Nat \ {0}
            BY StepsAreProgram
        <3> QED
            BY <1>3, <3>1
    <2> QED
        BY <1>4, <2>1, StageSteps
<1>6. EffectiveSteps(s) \subseteq All
    BY StepsAreProgram
<1> QED
    BY <1>3, <1>4, <1>5, <1>6

\* The results of a stage for a payload it can decode.
LEMMA StageResults ==
    ASSUME steps \in Programs, Passes, NEW s \in Stages, NEW p \in Handled(s),
           NEW r, r = ExecuteSteps(steps, p, EffectiveSteps(s), s - 1)
    PROVE  /\ r \in Seq(Types)
           /\ NextStage(s) = 0 => r = Whole(s - 1)[p]
           /\ NextStage(s) # 0 => Whole(s - 1)[p] = Each(r, Whole(NextStage(s) - 1))
<1>1. p \in Types /\ p \in Payloads /\ NextStep(steps, p, EffectiveSteps(s), s - 1) # 0
    BY HandledIsTaken DEF Payloads
<1>2. r = Outcome(steps, EffectiveSteps(s))[s - 1][p]
    BY <1>1 DEF ExecuteSteps
<1>3. s - 1 \in 0 .. Len(steps) /\ s \in Nat /\ s - 1 >= s - 1
    <2>1. s \in 1 .. Len(steps) /\ Len(steps) \in Nat
        BY StagesAreNumbers
    <2> QED
        BY <2>1
<1>4. r \in Seq(Types)
    <2>1. Outcome(steps, EffectiveSteps(s))[s - 1] \in Lists(Payloads, Types)
        BY <1>3, WholeType
    <2> QED
        BY <1>1, <1>2, <2>1, ListGiven
<1>5. CASE Cardinality(Stages) = 1
    <2>1. NextStage(s) = 0 /\ EffectiveSteps(s) = All
        BY <1>5, OneStage
    <2> QED
        BY <1>2, <1>4, <2>1 DEF Whole
<1>6. CASE Cardinality(Stages) # 1 /\ NextStage(s) = 0
    <2>1. Outcome(steps, EffectiveSteps(s))[s - 1][p] = Whole(s - 1)[p]
        BY <1>1, <1>3, <1>6, LastStageIsRest
    <2> QED
        BY <1>2, <1>4, <1>6, <2>1
<1>7. CASE Cardinality(Stages) # 1 /\ NextStage(s) # 0
    <2>1. PICK t : t = NextStage(s)
        OBVIOUS
    <2>2. s - 1 < t
        <3>1. t \in Stages /\ t > s
            BY <1>7, <2>1, NextIsLater
        <3>2. t \in 1 .. Len(steps) /\ Len(steps) \in Nat
            BY <3>1, StagesAreNumbers
        <3> QED
            BY <1>3, <3>1, <3>2
    <2>3. Whole(s - 1)[p] = Each(Outcome(steps, EffectiveSteps(s))[s - 1][p], Whole(t - 1))
        BY <1>1, <1>3, <1>7, <2>1, <2>2, StageThenRest
    <2> QED
        BY <1>2, <1>4, <1>7, <2>1, <2>3
<1> QED
    BY <1>5, <1>6, <1>7

-----------------------------------------------------------------------------
\* Bags that count what is in them.
IsCounted(B) == B = [m \in DOMAIN B |-> B[m]] /\ \A m \in DOMAIN B : B[m] \in Nat \ {0}

\* Sums of bags, and the bags of no and of one message.
LEMMA SumIs ==
    ASSUME NEW B, NEW C, IsCounted(B), IsCounted(C)
    PROVE  /\ IsCounted(B (+) C)
           /\ DOMAIN (B (+) C) = DOMAIN B \cup DOMAIN C
           /\ \A m \in DOMAIN B \cup DOMAIN C :
                 (B (+) C)[m] = (IF m \in DOMAIN B THEN B[m] ELSE 0) + (IF m \in DOMAIN C THEN C[m] ELSE 0)
<1>1. B (+) C = [m \in DOMAIN B \cup DOMAIN C |->
                   (IF m \in DOMAIN B THEN B[m] ELSE 0) + (IF m \in DOMAIN C THEN C[m] ELSE 0)]
    BY DEF \oplus
<1> QED
    BY <1>1 DEF IsCounted

LEMMA SmallBags ==
    /\ IsCounted(EmptyBag) /\ DOMAIN EmptyBag = {}
    /\ \A m : /\ IsCounted(SetToBag({m})) /\ DOMAIN SetToBag({m}) = {m}
              /\ SetToBag({m})[m] = 1
BY DEF IsCounted, EmptyBag, SetToBag

LEMMA SameBags ==
    ASSUME NEW B, NEW C, IsCounted(B), IsCounted(C), DOMAIN B = DOMAIN C,
           \A m \in DOMAIN B : B[m] = C[m]
    PROVE  B = C
<1>1. B = [m \in DOMAIN B |-> B[m]] /\ C = [m \in DOMAIN C |-> C[m]]
    BY DEF IsCounted
<1>2. [m \in DOMAIN B |-> B[m]] = [m \in DOMAIN B |-> C[m]]
    OBVIOUS
<1> QED
    BY <1>1, <1>2

\* How many there are of m.
Count(B, m) == IF m \in DOMAIN B THEN B[m] ELSE 0

LEMMA SameCounts ==
    ASSUME NEW B, NEW C, IsCounted(B), IsCounted(C), \A m : Count(B, m) = Count(C, m)
    PROVE  B = C
<1>1. \A m : m \in DOMAIN B <=> Count(B, m) # 0
    BY DEF Count, IsCounted
<1>2. \A m : m \in DOMAIN C <=> Count(C, m) # 0
    BY DEF Count, IsCounted
<1>3. DOMAIN B = DOMAIN C
    BY <1>1, <1>2
<1>4. \A m \in DOMAIN B : B[m] = C[m]
    BY <1>3 DEF Count
<1> QED
    BY <1>3, <1>4, SameBags

LEMMA CountType ==
    ASSUME NEW B, IsCounted(B), NEW m
    PROVE  Count(B, m) \in Nat
BY DEF IsCounted, Count

\* Sums of bags are sums of counts.
LEMMA SumCount ==
    ASSUME NEW B, NEW C, IsCounted(B), IsCounted(C)
    PROVE  IsCounted(B (+) C) /\ \A m : Count(B (+) C, m) = Count(B, m) + Count(C, m)
<1>1. IsCounted(B (+) C)
    BY SumIs
<1>2. ASSUME NEW m
      PROVE  Count(B (+) C, m) = Count(B, m) + Count(C, m)
    <2>1. CASE m \in DOMAIN B \cup DOMAIN C
        BY <2>1, SumIs DEF Count
    <2>2. CASE m \notin DOMAIN B \cup DOMAIN C
        <3>1. m \notin DOMAIN (B (+) C)
            BY <2>2, SumIs
        <3> QED
            BY <2>2, <3>1 DEF Count
    <2> QED
        BY <2>1, <2>2
<1> QED
    BY <1>1, <1>2

LEMMA SumEmpty ==
    ASSUME NEW B, IsCounted(B)
    PROVE  EmptyBag (+) B = B /\ B (+) EmptyBag = B
<1>1. IsCounted(EmptyBag) /\ \A m : Count(EmptyBag, m) = 0
    BY SmallBags DEF Count
<1>2. IsCounted(EmptyBag (+) B) /\ IsCounted(B (+) EmptyBag)
    BY <1>1, SumCount
<1>3. \A m : Count(EmptyBag (+) B, m) = Count(EmptyBag, m) + Count(B, m)
    BY <1>1, SumCount
<1>4. \A m : Count(B (+) EmptyBag, m) = Count(B, m) + Count(EmptyBag, m)
    BY <1>1, SumCount
<1>5. \A m : Count(B, m) \in Nat
    BY CountType
<1>6. EmptyBag (+) B = B
    <2>1. \A m : Count(EmptyBag (+) B, m) = Count(B, m)
        BY <1>1, <1>3, <1>5
    <2> QED
        BY <1>2, <2>1, SameCounts
<1>7. B (+) EmptyBag = B
    <2>1. \A m : Count(B (+) EmptyBag, m) = Count(B, m)
        BY <1>1, <1>4, <1>5
    <2> QED
        BY <1>2, <2>1, SameCounts
<1> QED
    BY <1>6, <1>7

LEMMA OneCount ==
    ASSUME NEW x
    PROVE  \A m : Count(SetToBag({x}), m) = IF m = x THEN 1 ELSE 0
<1>1. DOMAIN SetToBag({x}) = {x} /\ SetToBag({x})[x] = 1
    BY SmallBags
<1> QED
    BY <1>1 DEF Count

\* Taking a message that is there takes one of it.
LEMMA TakeCount ==
    ASSUME NEW B, IsCounted(B), NEW x \in DOMAIN B
    PROVE  /\ IsCounted(B (-) SetToBag({x}))
           /\ \A m : Count(B (-) SetToBag({x}), m) = IF m = x THEN Count(B, x) - 1 ELSE Count(B, m)
<1> DEFINE D == [m \in DOMAIN B |-> IF m \in {x} THEN B[m] - 1 ELSE B[m]]
           C == B (-) SetToBag({x})
<1>1. C = [d \in {d \in DOMAIN D : D[d] > 0} |-> D[d]]
    BY SmallBags DEF \ominus, SetToBag
<1>2. \A m \in DOMAIN B : B[m] \in Nat /\ B[m] > 0
    BY DEF IsCounted
<1>3. DOMAIN D = DOMAIN B /\ \A m \in DOMAIN B : D[m] = IF m = x THEN B[m] - 1 ELSE B[m]
    OBVIOUS
<1> HIDE DEF D
<1>4. DOMAIN C = {d \in DOMAIN B : D[d] > 0} /\ \A m \in DOMAIN C : C[m] = D[m]
    BY <1>1, <1>3
<1>5. IsCounted(C)
    <2>1. C = [m \in DOMAIN C |-> C[m]]
        BY <1>1, <1>4
    <2>2. ASSUME NEW m \in DOMAIN C PROVE C[m] \in Nat \ {0}
        BY <1>2, <1>3, <1>4
    <2> QED
        BY <2>1, <2>2 DEF IsCounted
<1>6. ASSUME NEW m
      PROVE  Count(C, m) = IF m = x THEN Count(B, x) - 1 ELSE Count(B, m)
    <2> HIDE DEF C
    <2>1. CASE m \in DOMAIN C
        BY <1>3, <1>4, <2>1 DEF Count
    <2>2. CASE m \notin DOMAIN C /\ m \in DOMAIN B
        <3>1. ~(D[m] > 0)
            BY <1>4, <2>2
        <3>2. m = x /\ B[m] = 1
            BY <1>2, <1>3, <2>2, <3>1
        <3> QED
            BY <2>2, <3>2 DEF Count
    <2>3. CASE m \notin DOMAIN B
        <3>1. m \notin DOMAIN C /\ m # x
            BY <1>4, <2>3
        <3> QED
            BY <2>3, <3>1 DEF Count
    <2> QED
        BY <2>1, <2>2, <2>3
<1> QED
    BY <1>5, <1>6

\* Taking one that was put between others leaves the others.
LEMMA TakeBetween ==
    ASSUME NEW B, NEW C, IsCounted(B), IsCounted(C), NEW x
    PROVE  (B (+) (SetToBag({x}) (+) C)) (-) SetToBag({x}) = B (+) C
<1> DEFINE X == SetToBag({x})
           Y == X (+) C
           Z == B (+) Y
<1>1. IsCounted(X) /\ \A m : Count(X, m) = IF m = x THEN 1 ELSE 0
    BY SmallBags, OneCount
<1> HIDE DEF X
<1>2. IsCounted(Y) /\ \A m : Count(Y, m) = Count(X, m) + Count(C, m)
    BY <1>1, SumCount
<1> HIDE DEF Y
<1>3. IsCounted(Z) /\ \A m : Count(Z, m) = Count(B, m) + Count(Y, m)
    BY <1>2, SumCount
<1> HIDE DEF Z
<1>4. \A m : Count(B, m) \in Nat /\ Count(C, m) \in Nat
    BY CountType
<1>5. Count(Z, x) > 0
    BY <1>1, <1>2, <1>3, <1>4
<1>6. x \in DOMAIN Z
    BY <1>5 DEF Count
<1>7. IsCounted(Z (-) X) /\ \A m : Count(Z (-) X, m) = IF m = x THEN Count(Z, x) - 1 ELSE Count(Z, m)
    BY <1>3, <1>6, TakeCount DEF X
<1>8. IsCounted(B (+) C) /\ \A m : Count(B (+) C, m) = Count(B, m) + Count(C, m)
    BY SumCount
<1>9. \A m : Count(Z (-) X, m) = Count(B (+) C, m)
    BY <1>1, <1>2, <1>3, <1>4, <1>7, <1>8
<1>10. Z (-) X = B (+) C
    BY <1>7, <1>8, <1>9, SameCounts
<1> QED
    BY <1>10 DEF X, Y, Z

\* Putting between others is putting after them.
LEMMA PutBetween ==
    ASSUME NEW B, NEW C, NEW X, IsCounted(B), IsCounted(C), IsCounted(X)
    PROVE  (B (+) C) (+) X = B (+) (X (+) C)
<1>1. IsCounted(B (+) C) /\ \A m : Count(B (+) C, m) = Count(B, m) + Count(C, m)
    BY SumCount
<1>2. IsCounted(X (+) C) /\ \A m : Count(X (+) C, m) = Count(X, m) + Count(C, m)
    BY SumCount
<1>3. /\ IsCounted((B (+) C) (+) X)
      /\ \A m : Count((B (+) C) (+) X, m) = Count(B (+) C, m) + Count(X, m)
    BY <1>1, SumCount
<1>4. /\ IsCounted(B (+) (X (+) C))
      /\ \A m : Count(B (+) (X (+) C), m) = Count(B, m) + Count(X (+) C, m)
    BY <1>2, SumCount
<1>5. \A m : Count(B, m) \in Nat /\ Count(C, m) \in Nat /\ Count(X, m) \in Nat
    BY CountType
<1>6. \A m : Count((B (+) C) (+) X, m) = Count(B (+) (X (+) C), m)
    BY <1>1, <1>2, <1>3, <1>4, <1>5
<1> QED
    BY <1>3, <1>4, <1>6, SameCounts

\* The copies of a message among those written for the payloads.
Hits(p, l, w, m) ==
    {kq \in (DOMAIN p) \X (DOMAIN w.queues) : Message(p[kq[1]], l, w, w.queues[kq[2]]) = m}

LEMMA HitsFinite ==
    ASSUME NEW T, NEW p \in Seq(T), NEW l, NEW w, NEW Q, w.queues \in Seq(Q), NEW m
    PROVE  IsFiniteSet(Hits(p, l, w, m))
<1>1. DOMAIN p = 1 .. Len(p) /\ Len(p) \in Nat
    BY LenProperties
<1>2. DOMAIN w.queues = 1 .. Len(w.queues) /\ Len(w.queues) \in Nat
    <2>1. PICK q \in Seq(Q) : q = w.queues
        OBVIOUS
    <2>2. DOMAIN q = 1 .. Len(q) /\ Len(q) \in Nat
        BY LenProperties
    <2> QED
        BY <2>1, <2>2
<1>3. IsFiniteSet(DOMAIN p)
    BY <1>1, FS_Interval
<1>4. IsFiniteSet(DOMAIN w.queues)
    BY <1>2, FS_Interval
<1>5. IsFiniteSet((DOMAIN p) \X (DOMAIN w.queues))
    BY <1>3, <1>4, FS_Product
<1>6. Hits(p, l, w, m) \in SUBSET ((DOMAIN p) \X (DOMAIN w.queues))
    BY DEF Hits
<1> QED
    BY <1>5, <1>6, FS_Subset

\* What is written is a bag, and counts its hits.
LEMMA WrittenCount ==
    ASSUME NEW T, NEW p \in Seq(T), NEW l, NEW w, NEW Q, w.queues \in Seq(Q)
    PROVE  /\ IsCounted(Written(p, l, w))
           /\ \A m : Count(Written(p, l, w), m) = Cardinality(Hits(p, l, w, m))
<1> DEFINE pairs == (DOMAIN p) \X (DOMAIN w.queues)
           made == [kq \in pairs |-> Message(p[kq[1]], l, w, w.queues[kq[2]])]
           B == Written(p, l, w)
<1>1. B = [m \in {made[kq] : kq \in DOMAIN made} |->
              Cardinality({kq \in DOMAIN made : made[kq] = m})]
    BY DEF Written
<1>2. \A m : {kq \in DOMAIN made : made[kq] = m} = Hits(p, l, w, m)
    BY DEF Hits
<1> HIDE DEF made, B
<1>3. B = [m \in DOMAIN B |-> Cardinality(Hits(p, l, w, m))]
    BY <1>1, <1>2
<1>4. \A m : m \in DOMAIN B <=> Hits(p, l, w, m) # {}
    BY <1>1, <1>2
<1>5. \A m : /\ Cardinality(Hits(p, l, w, m)) \in Nat
             /\ Cardinality(Hits(p, l, w, m)) = 0 <=> Hits(p, l, w, m) = {}
    BY HitsFinite, FS_CardinalityType, FS_EmptySet
<1>6. IsCounted(B)
    BY <1>3, <1>4, <1>5 DEF IsCounted
<1>7. \A m : Count(B, m) = Cardinality(Hits(p, l, w, m))
    BY <1>3, <1>4, <1>5 DEF Count
<1> QED
    BY <1>6, <1>7 DEF B

\* The hits of the second part are those of the payloads after the first.
LEMMA HitsConcat ==
    ASSUME NEW T, NEW a \in Seq(T), NEW b \in Seq(T), NEW l, NEW w, NEW Q, w.queues \in Seq(Q), NEW m
    PROVE  Cardinality(Hits(a \o b, l, w, m)) =
              Cardinality(Hits(a, l, w, m)) + Cardinality(Hits(b, l, w, m))
<1> DEFINE n == Len(a)
           queue == DOMAIN w.queues
           first == Hits(a, l, w, m)
           second == Hits(b, l, w, m)
           both == Hits(a \o b, l, w, m)
           moved == {kq \in both : kq[1] > n}
<1>1. /\ n \in Nat /\ DOMAIN a = 1 .. n /\ Len(b) \in Nat /\ DOMAIN b = 1 .. Len(b)
      /\ a \o b \in Seq(T) /\ Len(a \o b) = n + Len(b) /\ DOMAIN (a \o b) = 1 .. (n + Len(b))
    BY LenProperties, ConcatProperties
<1>2. \A i \in 1 .. (n + Len(b)) : (a \o b)[i] = IF i <= n THEN a[i] ELSE b[i - n]
    BY ConcatProperties
<1>3. ASSUME NEW k, NEW q
      PROVE  <<k, q>> \in both <=> /\ k \in 1 .. (n + Len(b)) /\ q \in queue
                                   /\ Message((a \o b)[k], l, w, w.queues[q]) = m
    BY <1>1 DEF Hits
<1>4. ASSUME NEW k, NEW q
      PROVE  <<k, q>> \in first <=> /\ k \in 1 .. n /\ q \in queue
                                    /\ Message(a[k], l, w, w.queues[q]) = m
    BY <1>1 DEF Hits
<1>5. ASSUME NEW k, NEW q
      PROVE  <<k, q>> \in second <=> /\ k \in 1 .. Len(b) /\ q \in queue
                                     /\ Message(b[k], l, w, w.queues[q]) = m
    BY <1>1 DEF Hits
<1>6. /\ \A x \in both : x = <<x[1], x[2]>>
      /\ \A x \in first : x = <<x[1], x[2]>>
      /\ \A x \in second : x = <<x[1], x[2]>>
    BY DEF Hits
<1>7. IsFiniteSet(first) /\ IsFiniteSet(second) /\ IsFiniteSet(both)
    <2>1. IsFiniteSet(first)
        BY HitsFinite
    <2>2. IsFiniteSet(second)
        BY HitsFinite
    <2>3. IsFiniteSet(both)
        BY <1>1, HitsFinite
    <2> QED
        BY <2>1, <2>2, <2>3
<1> HIDE DEF first, second, both, n, queue
<1>8. both = first \cup moved /\ first \cap moved = {}
    <2>1. ASSUME NEW x \in first PROVE x \in both /\ ~(x[1] > n)
        <3>1. PICK k, q : x = <<k, q>>
            BY <1>6
        <3>2. k \in 1 .. n /\ q \in queue /\ Message(a[k], l, w, w.queues[q]) = m
            BY <1>4, <3>1
        <3>3. k \in 1 .. (n + Len(b)) /\ (a \o b)[k] = a[k]
            BY <1>1, <1>2, <3>2
        <3>4. <<k, q>> \in both
            BY <1>3, <3>2, <3>3
        <3> QED
            BY <1>1, <3>1, <3>2, <3>4
    <2>2. ASSUME NEW x \in both, ~(x[1] > n) PROVE x \in first
        <3>1. PICK k, q : x = <<k, q>>
            BY <1>6
        <3>2. k \in 1 .. (n + Len(b)) /\ q \in queue /\ Message((a \o b)[k], l, w, w.queues[q]) = m
            BY <1>3, <3>1
        <3>3. k \in 1 .. n /\ (a \o b)[k] = a[k]
            BY <1>1, <1>2, <2>2, <3>1, <3>2
        <3> QED
            BY <1>4, <3>1, <3>2, <3>3
    <2> QED
        BY <2>1, <2>2
<1>9. ExistsBijection(second, moved)
    <2> DEFINE f == [x \in second |-> <<n + x[1], x[2]>>]
    <2>1. ASSUME NEW x \in second
          PROVE  f[x] \in moved
        <3>1. PICK k, q : x = <<k, q>>
            BY <1>6
        <3>2. k \in 1 .. Len(b) /\ q \in queue /\ Message(b[k], l, w, w.queues[q]) = m
            BY <1>5, <3>1
        <3>3. n + k \in 1 .. (n + Len(b)) /\ n + k > n /\ (n + k) - n = k
            BY <1>1, <3>2
        <3>4. (a \o b)[n + k] = b[k]
            BY <1>1, <1>2, <3>3
        <3>5. <<n + k, q>> \in both
            BY <1>3, <3>2, <3>3, <3>4
        <3>6. f[x] = <<n + k, q>>
            BY <3>1
        <3> QED
            BY <3>3, <3>5, <3>6
    <2>2. f \in [second -> moved]
        BY <2>1
    <2>3. ASSUME NEW x \in second, NEW y \in second, f[x] = f[y]
          PROVE  x = y
        <3>1. PICK k, q : x = <<k, q>>
            BY <1>6
        <3>2. PICK j, r : y = <<j, r>>
            BY <1>6
        <3>3. k \in 1 .. Len(b) /\ j \in 1 .. Len(b)
            BY <1>5, <3>1, <3>2
        <3>4. <<n + k, q>> = <<n + j, r>>
            BY <2>3, <3>1, <3>2
        <3>5. k = j /\ q = r
            BY <1>1, <3>3, <3>4
        <3> QED
            BY <3>1, <3>2, <3>5
    <2>4. ASSUME NEW y \in moved
          PROVE  \E x \in second : f[x] = y
        <3>1. PICK k, q : y = <<k, q>>
            BY <1>6
        <3>2. k \in 1 .. (n + Len(b)) /\ q \in queue /\ Message((a \o b)[k], l, w, w.queues[q]) = m
            BY <1>3, <3>1
        <3>3. k > n /\ k - n \in 1 .. Len(b) /\ n + (k - n) = k
            BY <1>1, <3>1, <3>2
        <3>4. (a \o b)[k] = b[k - n]
            BY <1>1, <1>2, <3>2, <3>3
        <3>5. <<k - n, q>> \in second
            BY <1>5, <3>2, <3>3, <3>4
        <3>6. f[<<k - n, q>>] = y
            BY <3>1, <3>3, <3>5
        <3> QED
            BY <3>5, <3>6
    <2> HIDE DEF f, moved
    <2>5. f \in Bijection(second, moved)
        BY <2>2, <2>3, <2>4, Fun_IsBij
    <2> QED
        BY <2>5 DEF ExistsBijection
<1> HIDE DEF moved
<1>10. IsFiniteSet(moved) /\ Cardinality(moved) = Cardinality(second)
    BY <1>7, <1>9, FS_Bijection
<1>11. Cardinality(both) = Cardinality(first) + Cardinality(moved) - Cardinality(first \cap moved)
    BY <1>7, <1>8, <1>10, FS_Union
<1>12. Cardinality(first \cap moved) = 0
    BY <1>8, FS_EmptySet
<1>13. Cardinality(first) \in Nat /\ Cardinality(moved) \in Nat
    BY <1>7, <1>10, FS_CardinalityType
<1>14. Cardinality(both) = Cardinality(first) + Cardinality(second)
    BY <1>10, <1>11, <1>12, <1>13
<1> QED
    BY <1>14 DEF both, first, second

\* Writing one list after the other is a sum of bags.
LEMMA WrittenConcat ==
    ASSUME NEW T, NEW a \in Seq(T), NEW b \in Seq(T), NEW l, NEW w, NEW Q, w.queues \in Seq(Q)
    PROVE  Written(a \o b, l, w) = Written(a, l, w) (+) Written(b, l, w)
<1> DEFINE A == Written(a, l, w)
           B == Written(b, l, w)
           C == Written(a \o b, l, w)
<1>1. a \o b \in Seq(T)
    BY ConcatProperties
<1>2. IsCounted(A) /\ \A m : Count(A, m) = Cardinality(Hits(a, l, w, m))
    BY WrittenCount
<1>3. IsCounted(B) /\ \A m : Count(B, m) = Cardinality(Hits(b, l, w, m))
    BY WrittenCount
<1>4. IsCounted(C) /\ \A m : Count(C, m) = Cardinality(Hits(a \o b, l, w, m))
    BY <1>1, WrittenCount
<1> HIDE DEF A, B, C
<1>5. IsCounted(A (+) B) /\ \A m : Count(A (+) B, m) = Count(A, m) + Count(B, m)
    BY <1>2, <1>3, SumCount
<1>6. \A m : Cardinality(Hits(a \o b, l, w, m)) =
              Cardinality(Hits(a, l, w, m)) + Cardinality(Hits(b, l, w, m))
    BY HitsConcat
<1>7. \A m : Count(C, m) = Count(A (+) B, m)
    BY <1>2, <1>3, <1>4, <1>5, <1>6
<1>8. C = A (+) B
    BY <1>4, <1>5, <1>7, SameCounts
<1> QED
    BY <1>8 DEF A, B, C

LEMMA WrittenEmpty ==
    ASSUME NEW l, NEW w
    PROVE  Written(<<>>, l, w) = EmptyBag
<1>1. (DOMAIN <<>>) \X (DOMAIN w.queues) = {}
    OBVIOUS
<1> QED
    BY <1>1 DEF Written, EmptyBag, SetToBag

StageWriter == [queues |-> <<"AUTO">>, strategy |-> "PROPAGATE"]
StageMessage(p, l) == [data |-> p, label |-> l, queue |-> l]

LEMMA StageWriterQueues ==
    StageWriter.queues \in Seq({"AUTO"}) /\ DOMAIN StageWriter.queues = {1} /\ StageWriter.queues[1] = "AUTO"
BY DEF StageWriter

LEMMA StageMessages ==
    ASSUME NEW p, NEW l
    PROVE  Message(p, l, StageWriter, StageWriter.queues[1]) = StageMessage(p, l)
BY StageWriterQueues DEF Message, StageMessage, StageWriter

\* A stage writes one message for one result, under the label it was given.
LEMMA WrittenOne ==
    ASSUME NEW T, NEW p \in T, NEW l
    PROVE  Written(<<p>>, l, StageWriter) = SetToBag({StageMessage(p, l)})
<1> DEFINE w == StageWriter
           x == StageMessage(p, l)
           B == Written(<<p>>, l, w)
<1>1. <<p>> \in Seq(T) /\ DOMAIN <<p>> = {1} /\ <<p>>[1] = p
    OBVIOUS
<1>2. w.queues \in Seq({"AUTO"}) /\ DOMAIN w.queues = {1}
    BY StageWriterQueues
<1>3. Message(p, l, w, w.queues[1]) = x
    BY StageMessages
<1> HIDE DEF w, x
<1>4. IsCounted(B) /\ \A m : Count(B, m) = Cardinality(Hits(<<p>>, l, w, m))
    BY <1>1, <1>2, WrittenCount
<1>5. Hits(<<p>>, l, w, x) = {<<1, 1>>}
    BY <1>1, <1>2, <1>3 DEF Hits
<1>6. \A m : m # x => Hits(<<p>>, l, w, m) = {}
    BY <1>1, <1>2, <1>3 DEF Hits
<1> HIDE DEF B
<1>7. \A m : Count(B, m) = IF m = x THEN 1 ELSE 0
    <2>1. Cardinality({<<1, 1>>}) = 1
        BY FS_Singleton
    <2>2. Cardinality({}) = 0
        BY FS_EmptySet
    <2> QED
        BY <1>4, <1>5, <1>6, <2>1, <2>2
<1>8. IsCounted(SetToBag({x})) /\ \A m : Count(SetToBag({x}), m) = IF m = x THEN 1 ELSE 0
    BY SmallBags, OneCount
<1>9. B = SetToBag({x})
    <2>1. \A m : Count(B, m) = Count(SetToBag({x}), m)
        BY <1>7, <1>8
    <2> QED
        BY <1>4, <1>8, <2>1, SameCounts
<1> QED
    BY <1>9 DEF B, w, x

\* What the event still has to do, as a list: <<s, p>> is a payload p that
\* waits for stage s, <<0, p>> one that is a result.
Tokens == ({0} \cup (Stages \ {1})) \X Types
Picked(u) == [x \in Tokens |-> IF x[1] = u THEN <<x[2]>> ELSE <<>>]
At(L, u) == Each(L, Picked(u))
Ahead == [x \in Tokens |-> IF x[1] = 0 THEN <<x[2]>> ELSE Whole(x[1] - 1)[x[2]]]
Placed(u) == [p \in Types |-> <<<<u, p>>>>]

\* All of this depends on the steps of the event, which do not change.
LEMMA TokensStay ==
    ASSUME steps' = steps
    PROVE  Tokens' = Tokens /\ Ahead' = Ahead /\ Whole(0)' = Whole(0) /\ All' = All
           /\ \A u : Picked(u)' = Picked(u)
<1>1. Stages' = Stages /\ All' = All
    BY DEF Stages, All, Positions
<1>2. Tokens' = Tokens
    BY <1>1 DEF Tokens
<1>3. \A i : Whole(i)' = Whole(i)
    BY <1>1 DEF Whole
<1>4. \A u : Picked(u)' = Picked(u)
    BY <1>2 DEF Picked
<1>5. Ahead' = Ahead
    BY <1>1, <1>2 DEF Ahead, Whole
<1>6. Whole(0)' = Whole(0)
    BY <1>1 DEF Whole
<1> QED
    BY <1>1, <1>2, <1>4, <1>5, <1>6

LEMMA TokenLists ==
    ASSUME steps \in Programs
    PROVE  /\ \A u : Picked(u) \in Lists(Tokens, Types)
           /\ Ahead \in Lists(Tokens, Types)
           /\ \A u \in {0} \cup (Stages \ {1}) : Placed(u) \in Lists(Types, Tokens)
<1>1. ASSUME NEW x \in Tokens
      PROVE  /\ x[1] = 0 \/ (x[1] \in Stages /\ x[1] # 1)
             /\ x[2] \in Types /\ <<x[2]>> \in Seq(Types) /\ <<>> \in Seq(Types)
    BY <1>1, EmptySeq DEF Tokens
<1>2. ASSUME NEW u PROVE Picked(u) \in Lists(Tokens, Types)
    BY <1>1 DEF Picked, Lists
<1>3. ASSUME NEW x \in Tokens, x[1] # 0 PROVE Whole(x[1] - 1)[x[2]] \in Seq(Types)
    <2>1. x[1] \in 1 .. Len(steps) /\ Len(steps) \in Nat
        BY <1>1, <1>3, StagesAreNumbers
    <2>2. x[1] - 1 \in 0 .. Len(steps)
        BY <2>1
    <2>3. Whole(x[1] - 1) \in Lists(Payloads, Types)
        BY <2>2, WholeType
    <2>4. x[2] \in Payloads
        BY <1>1 DEF Payloads
    <2> QED
        BY <2>3, <2>4, ListGiven
<1>4. Ahead \in Lists(Tokens, Types)
    BY <1>1, <1>3 DEF Ahead, Lists
<1>5. ASSUME NEW u \in {0} \cup (Stages \ {1}) PROVE Placed(u) \in Lists(Types, Tokens)
    <2>1. \A p \in Types : <<u, p>> \in Tokens
        BY DEF Tokens
    <2>2. \A p \in Types : <<<<u, p>>>> \in Seq(Tokens)
        BY <2>1
    <2> QED
        BY <2>2 DEF Placed, Lists
<1> QED
    BY <1>2, <1>4, <1>5

\* Results placed at a stage are there and nowhere else.
LEMMA NewTokens ==
    ASSUME steps \in Programs, NEW u \in {0} \cup (Stages \ {1}), NEW r \in Seq(Types),
           NEW N, N = Each(r, Placed(u))
    PROVE  /\ N \in Seq(Tokens) /\ At(N, u) = r
           /\ \A v : v # u => At(N, v) = <<>>
           /\ Each(N, Ahead) = IF u = 0 THEN r ELSE Each(r, Whole(u - 1))
<1>1. Placed(u) \in Lists(Types, Tokens) /\ Ahead \in Lists(Tokens, Types)
      /\ \A v : Picked(v) \in Lists(Tokens, Types)
    BY TokenLists
<1>2. N \in Seq(Tokens)
    BY <1>1, EachType
<1>3. \A p \in Types : Placed(u)[p] = <<<<u, p>>>> /\ <<u, p>> \in Tokens
    BY DEF Placed, Tokens
<1>4. ASSUME NEW f \in Lists(Tokens, Types), NEW p \in Types
      PROVE  Each(Placed(u)[p], f) = f[<<u, p>>]
    BY <1>3, EachOne
<1>5. At(N, u) = r
    <2> DEFINE h == [p \in Types |-> <<p>>]
    <2>1. h \in Lists(Types, Types) /\ \A p \in Types : h[p] = <<p>>
        BY DEF Lists
    <2>2. ASSUME NEW p \in Types PROVE h[p] = Each(Placed(u)[p], Picked(u))
        <3>1. Picked(u)[<<u, p>>] = <<p>>
            BY <1>3 DEF Picked
        <3>2. Each(Placed(u)[p], Picked(u)) = Picked(u)[<<u, p>>]
            BY <1>1, <1>4
        <3> QED
            BY <2>1, <3>1, <3>2
    <2> HIDE DEF h
    <2>3. Each(N, Picked(u)) = Each(r, h)
        BY <1>1, <2>1, <2>2, EachOfEach
    <2>4. Each(r, h) = r
        BY <2>1, EachSelf
    <2> QED
        BY <2>3, <2>4 DEF At
<1>6. ASSUME NEW v, v # u PROVE At(N, v) = <<>>
    <2> DEFINE h == [p \in Types |-> <<>>]
    <2>1. h \in Lists(Types, Types) /\ \A p \in Types : h[p] = <<>>
        BY EmptySeq DEF Lists
    <2>2. ASSUME NEW p \in Types PROVE h[p] = Each(Placed(u)[p], Picked(v))
        <3>1. Picked(v)[<<u, p>>] = <<>>
            BY <1>3, <1>6 DEF Picked
        <3>2. Each(Placed(u)[p], Picked(v)) = Picked(v)[<<u, p>>]
            BY <1>1, <1>4
        <3> QED
            BY <2>1, <3>1, <3>2
    <2> HIDE DEF h
    <2>3. Each(N, Picked(v)) = Each(r, h)
        BY <1>1, <2>1, <2>2, EachOfEach
    <2>4. Each(r, h) = <<>>
        BY <2>1, EachNone
    <2> QED
        BY <2>3, <2>4 DEF At
<1>7. Each(N, Ahead) = IF u = 0 THEN r ELSE Each(r, Whole(u - 1))
    <2> DEFINE h == [p \in Types |-> Ahead[<<u, p>>]]
    <2>1. h \in Lists(Types, Types) /\ \A p \in Types : h[p] = Ahead[<<u, p>>]
        <3>1. \A p \in Types : Ahead[<<u, p>>] \in Seq(Types)
            BY <1>1, <1>3, ListGiven
        <3> QED
            BY <3>1 DEF Lists
    <2>2. \A p \in Types : h[p] = Each(Placed(u)[p], Ahead)
        BY <1>1, <1>4, <2>1
    <2> HIDE DEF h
    <2>3. Each(N, Ahead) = Each(r, h)
        BY <1>1, <2>1, <2>2, EachOfEach
    <2>4. CASE u = 0
        <3>1. \A p \in Types : h[p] = <<p>>
            BY <1>3, <2>1, <2>4 DEF Ahead
        <3>2. Each(r, h) = r
            BY <2>1, <3>1, EachSelf
        <3> QED
            BY <2>3, <2>4, <3>2
    <2>5. CASE u # 0
        <3>1. \A p \in Types : h[p] = Whole(u - 1)[p]
            BY <1>3, <2>1, <2>5 DEF Ahead
        <3>2. \A k \in DOMAIN r : r[k] \in Types
            BY LenProperties, ElementOfSeq
        <3>3. \A k \in DOMAIN r : h[r[k]] = Whole(u - 1)[r[k]]
            BY <3>1, <3>2
        <3>4. Each(r, h) = Each(r, Whole(u - 1))
            BY <3>3, EachSame
        <3> QED
            BY <2>3, <2>5, <3>4
    <2> QED
        BY <2>4, <2>5
<1> QED
    BY <1>2, <1>5, <1>6, <1>7

Token(s, p) == <<s, p>>
Join(A, M, B) == A \o (M \o B)

\* A list is what is before an element, the element, and what is after.
LEMMA SplitAt ==
    ASSUME NEW T, NEW L \in Seq(T), NEW i \in 1 .. Len(L)
    PROVE  \E A \in Seq(T), B \in Seq(T) : L = Join(A, <<L[i]>>, B)
<1> DEFINE A == SubSeq(L, 1, i - 1)
           M == SubSeq(L, i, i)
           B == SubSeq(L, i + 1, Len(L))
<1>1. Len(L) \in Nat /\ i \in Nat /\ i >= 1 /\ i <= Len(L)
    BY LenProperties
<1>2. A \in Seq(T) /\ B \in Seq(T) /\ L[i] \in T
    <2>1. 1 .. i - 1 \subseteq 1 .. Len(L) /\ i + 1 .. Len(L) \subseteq 1 .. Len(L)
        BY <1>1
    <2> QED
        BY <1>1, <2>1, SubSeqProperties, ElementOfSeq
<1> SUFFICES L = A \o (<<L[i]>> \o B)
    BY <1>2 DEF Join
<1>3. <<L[i]>> \in Seq(T) /\ Len(<<L[i]>>) = 1 /\ <<L[i]>>[1] = L[i]
    BY <1>2
<1>4. Len(A) = i - 1 /\ \A k \in 1 .. i - 1 : A[k] = L[k]
    <2>1. \A k \in 1 .. i - 1 : 1 + k - 1 = k
        BY <1>1
    <2>2. 1 .. i - 1 \subseteq 1 .. Len(L)
        BY <1>1
    <2> QED
        BY <1>1, <2>1, <2>2, SubSeqProperties
<1>5. Len(B) = Len(L) - i /\ \A k \in 1 .. Len(L) - i : B[k] = L[i + k]
    <2>1. i + 1 .. Len(L) \subseteq 1 .. Len(L) /\ i + 1 \in Int
        BY <1>1
    <2> QED
        BY <1>1, <2>1, SubSeqProperties
<1> DEFINE R == <<L[i]>> \o B
<1>6. R \in Seq(T) /\ Len(R) = 1 + (Len(L) - i)
      /\ \A k \in 1 .. Len(R) : R[k] = IF k <= 1 THEN L[i] ELSE B[k - 1]
    <2>1. \A k \in 1 .. 1 : k = 1
        OBVIOUS
    <2> QED
        BY <1>1, <1>2, <1>3, <1>5, <2>1, ConcatProperties
<1> HIDE DEF A, B, R
<1>7. \A k \in 1 .. Len(R) : R[k] = L[(i - 1) + k]
    BY <1>1, <1>5, <1>6
<1>8. A \o R \in Seq(T) /\ Len(A \o R) = Len(L)
      /\ \A k \in 1 .. Len(L) : (A \o R)[k] = IF k <= i - 1 THEN A[k] ELSE R[k - (i - 1)]
    BY <1>1, <1>2, <1>4, <1>6, ConcatProperties
<1>9. \A k \in 1 .. Len(L) : (A \o R)[k] = L[k]
    <2> SUFFICES ASSUME NEW k \in 1 .. Len(L) PROVE (A \o R)[k] = L[k]
        OBVIOUS
    <2>1. CASE k <= i - 1
        BY <1>1, <1>4, <1>8, <2>1
    <2>2. CASE ~(k <= i - 1)
        <3>1. k - (i - 1) \in 1 .. Len(R) /\ (i - 1) + (k - (i - 1)) = k
            BY <1>1, <1>6, <2>2
        <3> QED
            BY <1>7, <1>8, <2>2, <3>1
    <2> QED
        BY <2>1, <2>2
<1>10. L = A \o R
    BY <1>8, <1>9, SeqEqual
<1> QED
    BY <1>10 DEF R

LEMMA JoinType ==
    ASSUME NEW T, NEW A \in Seq(T), NEW M \in Seq(T), NEW B \in Seq(T)
    PROVE  Join(A, M, B) \in Seq(T)
BY ConcatProperties DEF Join

LEMMA EachBetween ==
    ASSUME NEW S, NEW T, NEW f \in Lists(S, T), NEW A \in Seq(S), NEW M \in Seq(S), NEW B \in Seq(S)
    PROVE  Each(Join(A, M, B), f) = Join(Each(A, f), Each(M, f), Each(B, f))
<1>1. PICK R \in Seq(S) : R = M \o B
    BY ConcatProperties
<1>2. Each(R, f) = Each(M, f) \o Each(B, f)
    BY <1>1, EachConcat
<1>3. Each(A \o R, f) = Each(A, f) \o Each(R, f)
    BY EachConcat
<1> QED
    BY <1>1, <1>2, <1>3 DEF Join

LEMMA WrittenBetween ==
    ASSUME NEW T, NEW A \in Seq(T), NEW M \in Seq(T), NEW B \in Seq(T), NEW l, NEW w, NEW Q, w.queues \in Seq(Q)
    PROVE  Written(Join(A, M, B), l, w) = Written(A, l, w) (+) (Written(M, l, w) (+) Written(B, l, w))
<1>1. PICK R \in Seq(T) : R = M \o B
    BY ConcatProperties
<1>2. Written(R, l, w) = Written(M, l, w) (+) Written(B, l, w)
    BY <1>1, WrittenConcat
<1>3. Written(A \o R, l, w) = Written(A, l, w) (+) Written(R, l, w)
    BY WrittenConcat
<1> QED
    BY <1>1, <1>2, <1>3 DEF Join

LEMMA WriterQueues ==
    \A w \in Writers \cup {StageWriter} : w.queues \in Seq(ToSet(w.queues))
<1>1. \A w \in Writers : w.queues \in Seq(ToSet(w.queues))
    BY StagesAssumption
<1>2. ToSet(StageWriter.queues) = {"AUTO"}
    BY StageWriterQueues DEF ToSet
<1> QED
    BY <1>1, <1>2, StageWriterQueues

\* What a part in the middle of the list adds to a stream.
LEMMA Between ==
    ASSUME steps \in Programs, NEW A \in Seq(Tokens), NEW B \in Seq(Tokens), NEW M \in Seq(Tokens),
           NEW v, NEW l, NEW w \in Writers \cup {StageWriter}
    PROVE  /\ Written(At(Join(A, M, B), v), l, w) =
                 Written(At(A, v), l, w) (+) (Written(At(M, v), l, w) (+) Written(At(B, v), l, w))
           /\ IsCounted(Written(At(A, v), l, w)) /\ IsCounted(Written(At(B, v), l, w))
           /\ At(M, v) = <<>> => Written(At(Join(A, M, B), v), l, w) =
                                    Written(At(A, v), l, w) (+) Written(At(B, v), l, w)
<1>1. PICK Q : w.queues \in Seq(Q)
    BY WriterQueues
<1>2. PICK f \in Lists(Tokens, Types) : f = Picked(v)
    BY TokenLists
<1>3. At(A, v) \in Seq(Types) /\ At(B, v) \in Seq(Types) /\ At(M, v) \in Seq(Types)
    BY <1>2, EachType DEF At
<1>4. At(Join(A, M, B), v) = Join(At(A, v), At(M, v), At(B, v))
    <2>1. Each(Join(A, M, B), f) = Join(Each(A, f), Each(M, f), Each(B, f))
        BY EachBetween
    <2> QED
        BY <1>2, <2>1 DEF At
<1>5. Written(At(Join(A, M, B), v), l, w) =
         Written(At(A, v), l, w) (+) (Written(At(M, v), l, w) (+) Written(At(B, v), l, w))
    <2>1. PICK a \in Seq(Types), m \in Seq(Types), b \in Seq(Types) :
               a = At(A, v) /\ m = At(M, v) /\ b = At(B, v)
        BY <1>3
    <2>2. Written(Join(a, m, b), l, w) = Written(a, l, w) (+) (Written(m, l, w) (+) Written(b, l, w))
        BY <1>1, WrittenBetween
    <2> QED
        BY <1>4, <2>1, <2>2
<1>6. IsCounted(Written(At(A, v), l, w)) /\ IsCounted(Written(At(B, v), l, w))
    BY <1>1, <1>3, WrittenCount
<1>7. ASSUME At(M, v) = <<>>
      PROVE  Written(At(M, v), l, w) (+) Written(At(B, v), l, w) = Written(At(B, v), l, w)
    <2>1. Written(At(M, v), l, w) = EmptyBag
        BY <1>7, WrittenEmpty
    <2> QED
        BY <1>6, <2>1, SumEmpty
<1> QED
    BY <1>5, <1>6, <1>7

\* A stage takes a payload from the list and puts its results in its place.
IsReplaced(L, K, s, p, u, r, l) ==
    /\ Each(K, Ahead) = Each(L, Ahead)
    /\ Written(At(L, s), l, StageWriter) (-) SetToBag({StageMessage(p, l)})
          = Written(At(K, s), l, StageWriter)
    /\ \A w \in Writers \cup {StageWriter} :
          /\ \A v : v # s /\ v # u => Written(At(K, v), l, w) = Written(At(L, v), l, w)
          /\ Written(At(K, u), l, w) = Written(At(L, u), l, w) (+) Written(r, l, w)

LEMMA TakenAndPut ==
    ASSUME steps \in Programs, NEW s \in Stages \ {1}, NEW p \in Types,
           NEW u \in {0} \cup (Stages \ {1}), u # s, NEW r \in Seq(Types),
           NEW A \in Seq(Tokens), NEW B \in Seq(Tokens), NEW l,
           NEW N, N = Each(r, Placed(u)), Each(N, Ahead) = Whole(s - 1)[p]
    PROVE  IsReplaced(Join(A, <<Token(s, p)>>, B), Join(A, N, B), s, p, u, r, l)
<1>a. PICK x, L, K : x = Token(s, p) /\ L = Join(A, <<x>>, B) /\ K = Join(A, N, B)
    OBVIOUS
<1>1. x \in Tokens /\ x[1] = s /\ x[2] = p
    BY <1>a DEF Tokens, Token
<1>0. PICK M \in Seq(Tokens) : M = <<x>>
    <2>1. PICK z \in Tokens : z = x
        BY <1>1
    <2>2. <<z>> \in Seq(Tokens)
        OBVIOUS
    <2> QED
        BY <2>1, <2>2
<1>2. N \in Seq(Tokens) /\ At(N, u) = r /\ \A v : v # u => At(N, v) = <<>>
    BY NewTokens
<1>3. Ahead \in Lists(Tokens, Types) /\ \A v : Picked(v) \in Lists(Tokens, Types)
    BY TokenLists
<1>4. At(M, s) = <<p>> /\ \A v : v # s => At(M, v) = <<>>
    <2>1. ASSUME NEW v PROVE At(M, v) = Picked(v)[x]
        <3>1. PICK f \in Lists(Tokens, Types) : f = Picked(v)
            BY <1>3
        <3>2. Each(M, f) = f[x]
            BY <1>a, <1>0, <1>1, EachOne
        <3> QED
            BY <3>1, <3>2 DEF At
    <2> QED
        BY <1>1, <2>1 DEF Picked
<1>5. Each(K, Ahead) = Each(L, Ahead)
    <2>1. Each(M, Ahead) = Ahead[x]
        BY <1>a, <1>0, <1>1, <1>3, EachOne
    <2>2. s # 0
        BY StagesAreNumbers
    <2>3. Ahead[x] = Whole(s - 1)[p]
        BY <1>1, <2>2 DEF Ahead
    <2>4. Each(M, Ahead) = Each(N, Ahead)
        BY <2>1, <2>3
    <2>5. Each(L, Ahead) = Join(Each(A, Ahead), Each(M, Ahead), Each(B, Ahead))
        <3>1. PICK f \in Lists(Tokens, Types) : f = Ahead
            BY <1>3
        <3>2. Each(Join(A, M, B), f) = Join(Each(A, f), Each(M, f), Each(B, f))
            BY EachBetween
        <3> QED
            BY <1>a, <1>0, <3>1, <3>2
    <2>6. Each(K, Ahead) = Join(Each(A, Ahead), Each(N, Ahead), Each(B, Ahead))
        BY <1>a, <1>2, <1>3, EachBetween
    <2> QED
        BY <2>4, <2>5, <2>6
<1>6. Written(At(L, s), l, StageWriter) (-) SetToBag({StageMessage(p, l)})
         = Written(At(K, s), l, StageWriter)
    <2> DEFINE a == Written(At(A, s), l, StageWriter)
               b == Written(At(B, s), l, StageWriter)
               y == StageMessage(p, l)
    <2>1. StageWriter \in Writers \cup {StageWriter}
        OBVIOUS
    <2>2. /\ Written(At(L, s), l, StageWriter) = a (+) (Written(At(M, s), l, StageWriter) (+) b)
          /\ IsCounted(a) /\ IsCounted(b)
        <3>1. /\ Written(At(Join(A, M, B), s), l, StageWriter) =
                    a (+) (Written(At(M, s), l, StageWriter) (+) b)
              /\ IsCounted(a) /\ IsCounted(b)
            BY <2>1, Between
        <3> QED
            BY <1>a, <1>0, <3>1
    <2>3. Written(At(K, s), l, StageWriter) = a (+) b
        BY <1>a, <1>2, <2>1, Between
    <2>4. Written(At(M, s), l, StageWriter) = SetToBag({y})
        BY <1>4, WrittenOne
    <2> HIDE DEF a, b, y
    <2>5. (a (+) (SetToBag({y}) (+) b)) (-) SetToBag({y}) = a (+) b
        BY <2>2, TakeBetween
    <2> QED
        BY <2>2, <2>3, <2>4, <2>5 DEF y
<1>7. ASSUME NEW w \in Writers \cup {StageWriter}, NEW v, v # s
      PROVE  Written(At(L, v), l, w) = Written(At(A, v), l, w) (+) Written(At(B, v), l, w)
    <2>1. At(M, v) = <<>>
        BY <1>4, <1>7
    <2>2. Written(At(Join(A, M, B), v), l, w) = Written(At(A, v), l, w) (+) Written(At(B, v), l, w)
        BY <2>1, Between
    <2> QED
        BY <1>a, <1>0, <2>2
<1>8. ASSUME NEW w \in Writers \cup {StageWriter}, NEW v, v # s, v # u
      PROVE  Written(At(K, v), l, w) = Written(At(L, v), l, w)
    <2>1. Written(At(K, v), l, w) = Written(At(A, v), l, w) (+) Written(At(B, v), l, w)
        BY <1>a, <1>2, <1>8, Between
    <2> QED
        BY <1>7, <1>8, <2>1
<1>9. ASSUME NEW w \in Writers \cup {StageWriter}
      PROVE  Written(At(K, u), l, w) = Written(At(L, u), l, w) (+) Written(r, l, w)
    <2> DEFINE a == Written(At(A, u), l, w)
               b == Written(At(B, u), l, w)
               c == Written(r, l, w)
    <2>1. /\ Written(At(K, u), l, w) = a (+) (c (+) b)
          /\ IsCounted(a) /\ IsCounted(b)
        BY <1>a, <1>2, Between
    <2>2. IsCounted(c)
        <3>1. PICK Q : w.queues \in Seq(Q)
            BY WriterQueues
        <3> QED
            BY <3>1, WrittenCount
    <2>3. Written(At(L, u), l, w) = a (+) b
        BY <1>7
    <2> HIDE DEF a, b, c
    <2>4. (a (+) b) (+) c = a (+) (c (+) b)
        BY <2>1, <2>2, PutBetween
    <2> QED
        BY <2>1, <2>3, <2>4 DEF c
<1> QED
    BY <1>a, <1>5, <1>6, <1>8, <1>9 DEF IsReplaced

-----------------------------------------------------------------------------
\* A payload that waits for a stage is one it takes.
Ready == {x \in Tokens : x[1] # 0 => x[2] \in Handled(x[1])}

\* What a stage puts in the place of a payload: its results wait where
\* they are taken, and give what the payload would have given.
LEMMA NewAreReady ==
    ASSUME steps \in Programs, Passes, NEW s \in Stages, NEW p \in Handled(s),
           NEW r, r = ExecuteSteps(steps, p, EffectiveSteps(s), s - 1),
           NEW u, u = NextStage(s)
    PROVE  /\ r \in Seq(Types) /\ u \in {0} \cup (Stages \ {1}) /\ u # s
           /\ Each(r, Placed(u)) \in Seq(Ready)
           /\ Each(Each(r, Placed(u)), Ahead) = Whole(s - 1)[p]
<1>1. /\ r \in Seq(Types)
      /\ u = 0 => r = Whole(s - 1)[p]
      /\ u # 0 => Whole(s - 1)[p] = Each(r, Whole(u - 1))
    BY StageResults
<1>2. Stages \subseteq 1 .. Len(steps) /\ Len(steps) \in Nat /\ IsFiniteSet(Stages)
    BY StagesAreNumbers
<1>3. u # 0 => u \in Stages /\ u > s
    BY NextIsLater
<1>4. u \in {0} \cup (Stages \ {1}) /\ u # s
    <2>1. s >= 1 /\ s \in Nat
        BY <1>2
    <2> QED
        BY <1>2, <1>3, <2>1
<1>5. Each(Each(r, Placed(u)), Ahead) = Whole(s - 1)[p]
    <2>1. Each(Each(r, Placed(u)), Ahead) = IF u = 0 THEN r ELSE Each(r, Whole(u - 1))
        BY <1>1, <1>4, NewTokens
    <2> QED
        BY <1>1, <2>1
<1>6. \A k \in 1 .. Len(r) : <<u, r[k]>> \in Ready
    <2> SUFFICES ASSUME NEW k \in 1 .. Len(r) PROVE <<u, r[k]>> \in Ready
        OBVIOUS
    <2>1. r[k] \in Types
        BY <1>1, ElementOfSeq
    <2>2. <<u, r[k]>> \in Tokens
        BY <1>4, <2>1 DEF Tokens
    <2>3. ASSUME u # 0 PROVE r[k] \in Handled(u)
        <3>1. Cardinality(Stages) # 1
            <4> SUFFICES ASSUME Cardinality(Stages) = 1 PROVE FALSE
                OBVIOUS
            <4>1. PICK x : Stages = {x}
                BY <1>2, FS_Singleton
            <4> QED
                BY <1>3, <1>4, <2>3, <4>1
        <3>2. ToSet(r) \subseteq Handled(u)
            BY <2>3, <3>1 DEF Passes
        <3>3. r[k] \in ToSet(r)
            BY <1>1, LenProperties DEF ToSet
        <3> QED
            BY <3>2, <3>3
    <2> QED
        BY <2>2, <2>3 DEF Ready
<1>7. Each(r, Placed(u)) \in Seq(Ready)
    <2>1. Placed(u) \in Lists(Types, Tokens)
        BY <1>4, TokenLists
    <2>2. Each(r, Placed(u)) \in Seq(Tokens)
        BY <1>1, <2>1, EachType
    <2> DEFINE N == Each(r, Placed(u))
    <2>3. ASSUME NEW i \in 1 .. Len(N) PROVE N[i] \in Ready
        <3>1. PICK k \in 1 .. Len(r) : \E j \in 1 .. Len(Placed(u)[r[k]]) : Placed(u)[r[k]][j] = N[i]
            <4>1. PICK f \in Lists(Types, Tokens) : f = Placed(u)
                BY <2>1
            <4>2. PICK y : y = N[i]
                OBVIOUS
            <4>3. In(Each(r, f), y)
                BY <4>1, <4>2 DEF In
            <4>4. Gives(r, f, y)
                BY <1>1, <4>3, EachFrom
            <4> QED
                BY <4>1, <4>2, <4>4 DEF In, Gives
        <3>2. r[k] \in Types
            BY <1>1, ElementOfSeq
        <3>3. Placed(u)[r[k]] = <<<<u, r[k]>>>>
            BY <3>2 DEF Placed
        <3>4. N[i] = <<u, r[k]>>
            BY <3>1, <3>3
        <3> QED
            BY <1>6, <3>4
    <2> HIDE DEF N
    <2>4. N \in Seq(Tokens)
        BY <2>2 DEF N
    <2>5. N \in Seq(Ready)
        <3>1. PICK n \in Nat : n = Len(N)
            BY <2>4, LenProperties
        <3>2. N \in [1 .. n -> Tokens]
            BY <2>4, <3>1, LenProperties
        <3>3. N \in [1 .. n -> Ready]
            BY <2>3, <3>1, <3>2
        <3> QED
            BY <3>3
    <2> QED
        BY <2>5 DEF N
<1> QED
    BY <1>1, <1>4, <1>5, <1>7

\* While the stages pass on what the next can take, what waits and what has
\* been written are a list of payloads whose results are those of the event.
AsGiven ==
    /\ stream = [s \in Stages |-> IF s = 1 THEN SetToBag({given}) ELSE EmptyBag]
    /\ results = EmptyBag
AsListed(L) ==
    /\ stream[1] = EmptyBag
    /\ \A s \in Stages \ {1} : stream[s] = Written(At(L, s), given.label, StageWriter)
    /\ results = Written(At(L, 0), given.label, writer)
    /\ Each(L, Ahead) = Whole(0)[given.data]
SplitInv ==
    Passes => /\ rejected = 0 /\ steps \in Programs /\ writer \in Writers
              /\ given.data \in Handled(1) /\ DOMAIN stream = Stages
              /\ AsGiven \/ \E L \in Seq(Ready) : AsListed(L)

\* Where a payload is that waits for a stage.
LEMMA WaitingIsListed ==
    ASSUME steps \in Programs, NEW L \in Seq(Ready), NEW l, NEW s \in Stages \ {1},
           NEW m \in BagToSet(Written(At(L, s), l, StageWriter))
    PROVE  \E p \in Handled(s), A \in Seq(Ready), B \in Seq(Ready) :
              /\ p \in Types /\ m = StageMessage(p, l)
              /\ L = Join(A, <<Token(s, p)>>, B)
<1>1. Ready \subseteq Tokens /\ L \in Seq(Tokens)
    BY SeqMonotonic DEF Ready
<1>2. PICK f \in Lists(Tokens, Types) : f = Picked(s)
    BY TokenLists
<1>3. PICK P \in Seq(Types) : P = Each(L, f) /\ P = At(L, s)
    BY <1>1, <1>2, EachType DEF At
<1>4. PICK k \in DOMAIN P, q \in DOMAIN StageWriter.queues :
           m = Message(P[k], l, StageWriter, StageWriter.queues[q])
    BY <1>3, WrittenMessages
<1>5. m = StageMessage(P[k], l)
    <2>1. q = 1
        BY StageWriterQueues
    <2> QED
        BY <1>4, <2>1, StageMessages
<1>6. PICK p : p = P[k]
    OBVIOUS
<1>7. In(P, p)
    BY <1>6, LenProperties DEF In
<1>8. Gives(L, f, p)
    BY <1>1, <1>3, <1>7, EachFrom
<1>9. PICK i \in 1 .. Len(L) : In(f[L[i]], p)
    BY <1>8 DEF Gives
<1>10. L[i] \in Ready /\ L[i] \in Tokens
    BY <1>1, ElementOfSeq
<1>11. L[i] = <<s, p>> /\ <<s, p>> = Token(s, p)
    <2>1. L[i] = <<L[i][1], L[i][2]>>
        BY <1>10 DEF Tokens
    <2>2. CASE L[i][1] = s
        <3>1. f[L[i]] = <<L[i][2]>>
            BY <1>2, <1>10, <2>2 DEF Picked
        <3>2. p = L[i][2]
            BY <1>9, <3>1 DEF In
        <3> QED
            BY <2>1, <2>2, <3>2 DEF Token
    <2>3. CASE L[i][1] # s
        <3>1. f[L[i]] = <<>>
            BY <1>2, <1>10, <2>3 DEF Picked
        <3> QED
            BY <1>9, <3>1 DEF In
    <2> QED
        BY <2>2, <2>3
<1>12. p \in Handled(s) /\ p \in Types
    <2>1. s # 0
        BY StagesAreNumbers
    <2> QED
        BY <1>10, <1>11, <2>1 DEF Ready, Tokens
<1>13. PICK A \in Seq(Ready), B \in Seq(Ready) : L = Join(A, <<L[i]>>, B)
    BY SplitAt
<1> QED
    BY <1>5, <1>6, <1>11, <1>12, <1>13

\* What Consume does with a message its stage can decode.
Taken(s, m) ==
    LET rest == [stream EXCEPT ![s] = @ (-) SetToBag({m})]
        new == Written(ExecuteSteps(steps, m.data, EffectiveSteps(s), s - 1), m.label, WriterOf(s))
    IN  IF NextStage(s) = 0 THEN stream' = rest /\ results' = results (+) new
        ELSE stream' = [rest EXCEPT ![NextStage(s)] = @ (+) new] /\ UNCHANGED results

LEMMA ConsumeIs ==
    ASSUME NEW s \in Stages, Consume(s)
    PROVE  /\ UNCHANGED <<steps, queues, writer, given>>
           /\ \E m \in BagToSet(stream[s]) : m.data \in Handled(s) => Taken(s, m) /\ UNCHANGED rejected
<1>1. UNCHANGED <<steps, queues, writer, given>>
    BY DEF Consume, config
<1>2. \E m \in BagToSet(stream[s]) : m.data \in Handled(s) => Taken(s, m) /\ UNCHANGED rejected
    BY DEF Consume, Taken
<1> QED
    BY <1>1, <1>2

LEMMA OfOne ==
    ASSUME NEW x
    PROVE  /\ BagToSet(SetToBag({x})) = {x} /\ BagToSet(EmptyBag) = {}
           /\ SetToBag({x}) (-) SetToBag({x}) = EmptyBag
<1>1. BagToSet(SetToBag({x})) = {x} /\ BagToSet(EmptyBag) = {}
    BY SmallBags DEF BagToSet
<1>2. IsCounted(EmptyBag) /\ IsCounted(SetToBag({x}))
    BY SmallBags
<1>3. (EmptyBag (+) (SetToBag({x}) (+) EmptyBag)) (-) SetToBag({x}) = EmptyBag (+) EmptyBag
    BY <1>2, TakeBetween
<1>4. /\ EmptyBag (+) EmptyBag = EmptyBag /\ SetToBag({x}) (+) EmptyBag = SetToBag({x})
      /\ EmptyBag (+) SetToBag({x}) = SetToBag({x})
    BY <1>2, SumEmpty
<1> QED
    BY <1>1, <1>3, <1>4

\* The first stage takes what the event was given.
LEMMA GivenIsTaken ==
    ASSUME Passes, steps \in Programs, writer \in Writers, DOMAIN stream = Stages,
           AsGiven, UNCHANGED <<steps, queues, writer, given>>,
           given.data \in Handled(1), Taken(1, given)
    PROVE  \E L \in Seq(Ready) : AsListed(L)'
<1>1. PICK u : u = NextStage(1)
    OBVIOUS
<1>2. 1 \in Stages
    BY StagesAreNumbers
<1>3. PICK r : r = ExecuteSteps(steps, given.data, EffectiveSteps(1), 1 - 1)
    OBVIOUS
<1>4. /\ r \in Seq(Types) /\ u \in {0} \cup (Stages \ {1}) /\ u # 1
      /\ Each(r, Placed(u)) \in Seq(Ready)
      /\ Each(Each(r, Placed(u)), Ahead) = Whole(1 - 1)[given.data]
    BY <1>1, <1>2, <1>3, NewAreReady
<1>5. PICK L \in Seq(Ready) : L = Each(r, Placed(u))
    BY <1>4
<1>6. At(L, u) = r /\ \A v : v # u => At(L, v) = <<>>
    BY <1>4, <1>5, NewTokens
<1>7. \A v, w : v # u => Written(At(L, v), given.label, w) = EmptyBag
    BY <1>6, WrittenEmpty
<1>8. IsCounted(Written(r, given.label, WriterOf(1)))
    <2>1. WriterOf(1) \in Writers \cup {StageWriter}
        BY DEF WriterOf, StageWriter
    <2>2. PICK w \in Writers \cup {StageWriter} : w = WriterOf(1)
        BY <2>1
    <2>3. PICK Q : w.queues \in Seq(Q)
        BY WriterQueues
    <2> QED
        BY <1>4, <2>2, <2>3, WrittenCount
<1>9. EmptyBag (+) Written(r, given.label, WriterOf(1)) = Written(r, given.label, WriterOf(1))
    BY <1>8, SumEmpty
<1>10. AsListed(L)'
    <2>1. Tokens' = Tokens /\ Ahead' = Ahead /\ Whole(0)' = Whole(0) /\ Stages' = Stages
          /\ \A v : Picked(v)' = Picked(v)
        BY TokensStay, ConfigStays
    <2>2. \A v : Each(L, Picked(v)') = At(L, v)
        BY <2>1 DEF At
    <2>3. stream = [s \in Stages |-> IF s = 1 THEN SetToBag({given}) ELSE EmptyBag] /\ results = EmptyBag
        BY DEF AsGiven
    <2>4. SetToBag({given}) (-) SetToBag({given}) = EmptyBag
        BY OfOne
    <2>5. PICK new : new = Written(r, given.label, WriterOf(1))
        OBVIOUS
    <2>6. /\ stream'[1] = EmptyBag
          /\ \A s \in Stages \ {1} : stream'[s] = IF s = u THEN new ELSE EmptyBag
          /\ results' = IF u = 0 THEN new ELSE EmptyBag
        <3>1. CASE u = 0
            <4>1. /\ stream' = [stream EXCEPT ![1] = @ (-) SetToBag({given})]
                  /\ results' = results (+) new
                BY <1>1, <1>3, <2>5, <3>1 DEF Taken
            <4>2. \A s \in Stages \ {1} : s # u
                BY <3>1, StagesAreNumbers
            <4> QED
                BY <1>2, <1>9, <2>3, <2>4, <2>5, <3>1, <4>1, <4>2
        <3>2. CASE u # 0
            <4>1. /\ stream' = [[stream EXCEPT ![1] = @ (-) SetToBag({given})] EXCEPT ![u] = @ (+) new]
                  /\ results' = results
                BY <1>1, <1>3, <2>5, <3>2 DEF Taken
            <4>2. EmptyBag (+) new = new
                BY <1>9, <2>5
            <4> QED
                BY <1>2, <1>4, <2>3, <2>4, <3>2, <4>1, <4>2
        <3> QED
            BY <3>1, <3>2
    <2>7. \A s \in Stages \ {1} : stream'[s] = Written(At(L, s), given.label, StageWriter)
        <3> SUFFICES ASSUME NEW s \in Stages \ {1}
                     PROVE  stream'[s] = Written(At(L, s), given.label, StageWriter)
            OBVIOUS
        <3>1. CASE s = u
            <4>1. u # 0
                BY <3>1, StagesAreNumbers
            <4>2. WriterOf(1) = StageWriter
                BY <1>1, <4>1 DEF WriterOf, StageWriter
            <4> QED
                BY <1>6, <2>5, <2>6, <3>1, <4>2
        <3>2. CASE s # u
            BY <1>7, <2>6, <3>2
        <3> QED
            BY <3>1, <3>2
    <2>8. results' = Written(At(L, 0), given.label, writer)
        <3>1. CASE u = 0
            <4>1. WriterOf(1) = writer
                BY <1>1, <3>1 DEF WriterOf
            <4> QED
                BY <1>6, <2>5, <2>6, <3>1, <4>1
        <3>2. CASE u # 0
            BY <1>7, <2>6, <3>2
        <3> QED
            BY <3>1, <3>2
    <2>9. Each(L, Ahead) = Whole(0)[given.data]
        BY <1>4, <1>5
    <2>10. stream'[1] = EmptyBag
        BY <2>6
    <2> QED
        BY <2>1, <2>2, <2>7, <2>8, <2>9, <2>10 DEF AsListed, At
<1> QED
    BY <1>10

\* A later stage takes a payload that waits for it.
LEMMA ListedIsTaken ==
    ASSUME Passes, steps \in Programs, writer \in Writers, DOMAIN stream = Stages,
           NEW L \in Seq(Ready), AsListed(L), UNCHANGED <<steps, queues, writer, given>>,
           NEW s \in Stages, NEW m \in BagToSet(stream[s])
    PROVE  m.data \in Handled(s) /\ (Taken(s, m) => \E K \in Seq(Ready) : AsListed(K)')
<1>1. s \in Stages \ {1}
    <2>1. stream[1] = EmptyBag
        BY DEF AsListed
    <2>2. BagToSet(EmptyBag) = {}
        BY OfOne
    <2> QED
        BY <2>1, <2>2
<1>2. stream[s] = Written(At(L, s), given.label, StageWriter)
    BY <1>1 DEF AsListed
<1>3. PICK l : l = given.label
    OBVIOUS
<1>4. PICK p \in Handled(s), A \in Seq(Ready), B \in Seq(Ready) :
         /\ p \in Types /\ m = StageMessage(p, l)
         /\ L = Join(A, <<Token(s, p)>>, B)
    <2>1. PICK t \in Stages \ {1} : t = s
        BY <1>1
    <2>2. m \in BagToSet(Written(At(L, t), l, StageWriter))
        BY <1>2, <1>3, <2>1
    <2>3. \E p \in Handled(t), A \in Seq(Ready), B \in Seq(Ready) :
             /\ p \in Types /\ m = StageMessage(p, l)
             /\ L = Join(A, <<Token(t, p)>>, B)
        BY <2>2, WaitingIsListed
    <2> QED
        BY <2>1, <2>3
<1>5. PICK x : x = Token(s, p) /\ L = Join(A, <<x>>, B)
    BY <1>4
<1>6. m.data = p /\ m.label = l
    BY <1>4 DEF StageMessage
<1> SUFFICES ASSUME Taken(s, m) PROVE \E K \in Seq(Ready) : AsListed(K)'
    BY <1>6
<1>7. PICK u : u = NextStage(s)
    OBVIOUS
<1>8. PICK r : r = ExecuteSteps(steps, p, EffectiveSteps(s), s - 1)
    OBVIOUS
<1>9. /\ r \in Seq(Types) /\ u \in {0} \cup (Stages \ {1}) /\ u # s
      /\ Each(r, Placed(u)) \in Seq(Ready)
      /\ Each(Each(r, Placed(u)), Ahead) = Whole(s - 1)[p]
    BY <1>7, <1>8, NewAreReady
<1>10. PICK N \in Seq(Ready) : N = Each(r, Placed(u))
    BY <1>9
<1>11. PICK K \in Seq(Ready) : K = Join(A, N, B)
    BY JoinType
<1>12. Ready \subseteq Tokens /\ A \in Seq(Tokens) /\ B \in Seq(Tokens)
    BY SeqMonotonic DEF Ready
<1>13. /\ Each(K, Ahead) = Each(L, Ahead)
       /\ Written(At(L, s), l, StageWriter) (-) SetToBag({StageMessage(p, l)})
             = Written(At(K, s), l, StageWriter)
       /\ \A w \in Writers \cup {StageWriter} :
             /\ \A v : v # s /\ v # u => Written(At(K, v), l, w) = Written(At(L, v), l, w)
             /\ Written(At(K, u), l, w) = Written(At(L, u), l, w) (+) Written(r, l, w)
    <2>1. /\ p \in Types /\ A \in Seq(Tokens) /\ B \in Seq(Tokens) /\ s \in Stages \ {1}
          /\ u \in {0} \cup (Stages \ {1}) /\ u # s /\ r \in Seq(Types)
          /\ N = Each(r, Placed(u)) /\ Each(N, Ahead) = Whole(s - 1)[p]
        BY <1>1, <1>4, <1>9, <1>10, <1>12
    <2>2. IsReplaced(Join(A, <<Token(s, p)>>, B), Join(A, N, B), s, p, u, r, l)
        BY <2>1, TakenAndPut
    <2> QED
        BY <1>5, <1>11, <2>2 DEF IsReplaced
<1>14. PICK new : new = Written(r, l, WriterOf(s))
    OBVIOUS
<1>15. /\ stream'[s] = Written(At(K, s), l, StageWriter)
       /\ \A v \in Stages : v # s => stream'[v] = IF v = u THEN stream[v] (+) new ELSE stream[v]
       /\ results' = IF u = 0 THEN results (+) new ELSE results
    <2>1. stream[s] (-) SetToBag({m}) = Written(At(K, s), l, StageWriter)
        BY <1>2, <1>3, <1>4, <1>13
    <2>2. CASE u = 0
        <3>1. /\ stream' = [stream EXCEPT ![s] = @ (-) SetToBag({m})]
              /\ results' = results (+) new
            BY <1>6, <1>7, <1>8, <1>14, <2>2 DEF Taken
        <3>2. \A v \in Stages : v # u
            BY <2>2, StagesAreNumbers
        <3> QED
            BY <2>1, <2>2, <3>1, <3>2
    <2>3. CASE u # 0
        <3>1. /\ stream' = [[stream EXCEPT ![s] = @ (-) SetToBag({m})] EXCEPT ![u] = @ (+) new]
              /\ results' = results
            BY <1>6, <1>7, <1>8, <1>14, <2>3 DEF Taken
        <3> QED
            BY <1>9, <2>1, <2>3, <3>1
    <2> QED
        BY <2>2, <2>3
<1>16. \A v \in Stages \ {1} : stream[v] = Written(At(L, v), l, StageWriter)
    BY <1>3 DEF AsListed
<1>17. StageWriter \in Writers \cup {StageWriter} /\ writer \in Writers \cup {StageWriter}
    OBVIOUS
<1>18. \A v \in Stages \ {1} : stream'[v] = Written(At(K, v), l, StageWriter)
    <2> SUFFICES ASSUME NEW v \in Stages \ {1} PROVE stream'[v] = Written(At(K, v), l, StageWriter)
        OBVIOUS
    <2>1. CASE v = s
        BY <1>15, <2>1
    <2>2. CASE v # s /\ v = u
        <3>1. u # 0
            BY <2>2, StagesAreNumbers
        <3>2. WriterOf(s) = StageWriter
            BY <1>7, <3>1 DEF WriterOf, StageWriter
        <3>3. Written(At(K, u), l, StageWriter) = Written(At(L, u), l, StageWriter) (+) new
            BY <1>13, <1>14, <1>17, <3>2
        <3>4. stream'[v] = stream[v] (+) new
            BY <1>15, <2>2
        <3> QED
            BY <1>16, <2>2, <3>3, <3>4
    <2>3. CASE v # s /\ v # u
        <3>1. stream'[v] = stream[v]
            BY <1>15, <2>3
        <3>2. Written(At(K, v), l, StageWriter) = Written(At(L, v), l, StageWriter)
            BY <1>13, <1>17, <2>3
        <3> QED
            BY <1>16, <3>1, <3>2
    <2> QED
        BY <2>1, <2>2, <2>3
<1>19. results' = Written(At(K, 0), l, writer)
    <2>1. results = Written(At(L, 0), l, writer)
        BY <1>3 DEF AsListed
    <2>2. s # 0
        BY StagesAreNumbers
    <2>3. CASE u = 0
        <3>1. WriterOf(s) = writer
            BY <1>7, <2>3 DEF WriterOf
        <3>2. Written(At(K, u), l, writer) = Written(At(L, u), l, writer) (+) new
            BY <1>13, <1>14, <1>17, <3>1
        <3> QED
            BY <1>15, <2>1, <2>3, <3>2
    <2>4. CASE u # 0
        <3>1. Written(At(K, 0), l, writer) = Written(At(L, 0), l, writer)
            BY <1>13, <1>17, <2>2, <2>4
        <3> QED
            BY <1>15, <2>1, <2>4, <3>1
    <2> QED
        BY <2>3, <2>4
<1>20. stream'[1] = EmptyBag
    <2>1. 1 \in Stages /\ stream[1] = EmptyBag
        BY StagesAreNumbers DEF AsListed
    <2>2. 1 # s /\ 1 # u
        BY <1>1, <1>9
    <2> QED
        BY <1>15, <2>1, <2>2
<1>21. Each(K, Ahead) = Whole(0)[given.data]
    BY <1>13 DEF AsListed
<1>22. AsListed(K)'
    <2>1. Tokens' = Tokens /\ Ahead' = Ahead /\ Whole(0)' = Whole(0) /\ Stages' = Stages
          /\ \A v : Picked(v)' = Picked(v)
        BY TokensStay, ConfigStays
    <2>2. \A v : Each(K, Picked(v)') = At(K, v)
        BY <2>1 DEF At
    <2> QED
        BY <1>3, <1>18, <1>19, <1>20, <1>21, <2>1, <2>2 DEF AsListed, At
<1> QED
    BY <1>22

\* Each step keeps the list.
LEMMA ConsumeSplits ==
    ASSUME SplitInv, NEW s \in Stages, Consume(s)
    PROVE  SplitInv'
<1>1. PICK m \in BagToSet(stream[s]) : m.data \in Handled(s) => Taken(s, m) /\ UNCHANGED rejected
    BY ConsumeIs
<1>2. UNCHANGED <<steps, queues, writer, given>>
    BY ConsumeIs
<1>3. Stages' = Stages /\ (Passes' <=> Passes) /\ \A t : Handled(t)' = Handled(t)
    BY <1>2, ConfigStays
<1> SUFFICES ASSUME Passes
             PROVE  /\ rejected' = 0 /\ DOMAIN stream' = Stages
                    /\ \E L \in Seq(Ready') : AsListed(L)'
    BY <1>2, <1>3 DEF SplitInv
<1>4. /\ rejected = 0 /\ steps \in Programs /\ writer \in Writers
      /\ given.data \in Handled(1) /\ DOMAIN stream = Stages
      /\ AsGiven \/ \E L \in Seq(Ready) : AsListed(L)
    BY DEF SplitInv
<1>5. Ready' = Ready
    <2>1. Tokens' = Tokens
        BY <1>2, TokensStay
    <2> QED
        BY <1>3, <2>1 DEF Ready
<1>6. m.data \in Handled(s) /\ (Taken(s, m) => \E L \in Seq(Ready) : AsListed(L)')
    <2>1. CASE AsGiven
        <3>1. BagToSet(SetToBag({given})) = {given} /\ BagToSet(EmptyBag) = {}
            BY OfOne
        <3>2. s = 1 /\ m = given
            BY <2>1, <3>1 DEF AsGiven
        <3> QED
            BY <1>2, <1>4, <2>1, <3>2, GivenIsTaken
    <2>2. CASE \E L \in Seq(Ready) : AsListed(L)
        BY <1>2, <1>4, <2>2, ListedIsTaken
    <2> QED
        BY <1>4, <2>1, <2>2
<1>7. DOMAIN stream' = Stages
    BY <1>1, <1>4, <1>6 DEF Taken
<1> QED
    BY <1>1, <1>4, <1>5, <1>6, <1>7

\* The list is there in every state.
LEMMA SplitInvariant == StagesSpec => []SplitInv
<1>1. StagesInit => SplitInv
    BY DEF StagesInit, SplitInv, AsGiven
<1>2. SplitInv /\ [StagesNext]_stages => SplitInv'
    <2> SUFFICES ASSUME SplitInv, [StagesNext]_stages PROVE SplitInv'
        OBVIOUS
    <2>1. CASE StagesNext
        BY <2>1, ConsumeSplits DEF StagesNext
    <2>2. CASE UNCHANGED stages
        <3>1. UNCHANGED <<steps, queues, writer, given, stream, results, rejected>>
            BY <2>2 DEF stages, config
        <3>2. Stages' = Stages /\ (Passes' <=> Passes) /\ \A t : Handled(t)' = Handled(t)
            BY <3>1, ConfigStays
        <3>3. Tokens' = Tokens /\ Ahead' = Ahead /\ Whole(0)' = Whole(0)
              /\ \A v : Picked(v)' = Picked(v)
            BY <3>1, TokensStay
        <3>4. Ready' = Ready
            BY <3>2, <3>3 DEF Ready
        <3>5. ASSUME NEW L PROVE AsListed(L)' <=> AsListed(L)
            BY <3>1, <3>2, <3>3 DEF AsListed, At
        <3>6. AsGiven' <=> AsGiven
            BY <3>1, <3>2 DEF AsGiven
        <3> QED
            BY <3>1, <3>2, <3>4, <3>5, <3>6 DEF SplitInv
    <2> QED
        BY <2>1, <2>2
<1> QED
    BY <1>1, <1>2, PTL DEF StagesSpec

\* When nothing waits any more, what is listed are the results.
LEMMA DrainedIsDone ==
    ASSUME SplitInv, Drained, Passes
    PROVE  rejected = 0 /\ results = Written(ExecuteSteps(steps, given.data, All, 0), given.label, writer)
<1>1. /\ rejected = 0 /\ steps \in Programs /\ writer \in Writers
      /\ given.data \in Handled(1) /\ DOMAIN stream = Stages
      /\ AsGiven \/ \E L \in Seq(Ready) : AsListed(L)
    BY DEF SplitInv
<1>2. 1 \in Stages /\ \A s \in Stages : stream[s] = EmptyBag
    BY <1>1, StagesAreNumbers DEF Drained
<1>3. ~AsGiven
    <2> SUFFICES ASSUME AsGiven PROVE FALSE
        OBVIOUS
    <2>1. SetToBag({given}) = EmptyBag
        BY <1>2 DEF AsGiven
    <2> QED
        BY <2>1, OfOne
<1>4. PICK L \in Seq(Ready) : AsListed(L)
    BY <1>1, <1>3
<1>5. \A i \in 1 .. Len(L) : L[i] \in Tokens /\ L[i][1] = 0
    <2> SUFFICES ASSUME NEW i \in 1 .. Len(L), ~(L[i] \in Tokens /\ L[i][1] = 0) PROVE FALSE
        OBVIOUS
    <2>1. L[i] \in Ready /\ L[i] \in Tokens
        BY ElementOfSeq DEF Ready
    <2>2. PICK s \in Stages \ {1} : s = L[i][1]
        BY <2>1 DEF Tokens
    <2>3. PICK p \in Types : p = L[i][2]
        BY <2>1 DEF Tokens
    <2>4. L \in Seq(Tokens)
        BY SeqMonotonic DEF Ready
    <2>5. PICK f \in Lists(Tokens, Types) : f = Picked(s)
        BY <1>1, TokenLists
    <2>6. f[L[i]] = <<p>>
        BY <2>1, <2>2, <2>3, <2>5 DEF Picked
    <2>7. Gives(L, f, p)
        <3>1. In(<<p>>, p)
            BY DEF In
        <3>2. In(f[L[i]], p)
            BY <2>6, <3>1
        <3> QED
            BY <3>2 DEF Gives
    <2>8. In(Each(L, f), p)
        BY <2>4, <2>7, EachFrom
    <2>9. PICK P \in Seq(Types) : P = At(L, s) /\ P = Each(L, f)
        BY <2>4, <2>5, EachType DEF At
    <2>10. PICK j \in 1 .. Len(P) : P[j] = p
        BY <2>8, <2>9 DEF In
    <2>11. Written(P, given.label, StageWriter) = EmptyBag
        BY <1>2, <1>4, <2>9 DEF AsListed
    <2>12. j \in DOMAIN P /\ 1 \in DOMAIN StageWriter.queues
        BY LenProperties, StageWriterQueues
    <2> DEFINE made == [kq \in (DOMAIN P) \X (DOMAIN StageWriter.queues) |->
                          Message(P[kq[1]], given.label, StageWriter, StageWriter.queues[kq[2]])]
    <2>13. DOMAIN Written(P, given.label, StageWriter) = {made[kq] : kq \in DOMAIN made}
        BY DEF Written
    <2>14. <<j, 1>> \in DOMAIN made
        BY <2>12
    <2>15. made[<<j, 1>>] \in DOMAIN EmptyBag
        BY <2>11, <2>13, <2>14
    <2> QED
        BY <2>15, SmallBags
<1>6. L \in Seq(Tokens)
    BY SeqMonotonic DEF Ready
<1>7. At(L, 0) = Each(L, Ahead)
    <2>1. \A k \in DOMAIN L : Picked(0)[L[k]] = Ahead[L[k]]
        BY <1>5, LenProperties DEF Picked, Ahead
    <2> QED
        BY <2>1, EachSame DEF At
<1>8. results = Written(Whole(0)[given.data], given.label, writer)
    BY <1>4, <1>7 DEF AsListed
<1>9. NextStep(steps, given.data, All, 0) # 0
    <2>1. NextStep(steps, given.data, All, 1 - 1) # 0
        BY <1>1, <1>2, HandledIsTaken
    <2> QED
        BY <2>1
<1>10. ExecuteSteps(steps, given.data, All, 0) = Whole(0)[given.data]
    BY <1>9 DEF ExecuteSteps, Whole
<1> QED
    BY <1>1, <1>8, <1>10

\* Splitting an event at its SHUFFLEs changes where its steps run and nothing
\* else, in whatever order the stages take their messages.
THEOREM SplitTransparent == StagesSpec => []SplitIsTransparent
<1>1. SplitInv => SplitIsTransparent
    BY DrainedIsDone DEF SplitIsTransparent, All
<1> QED
    BY <1>1, SplitInvariant, PTL
===============================================================================
