------------------------ MODULE StreamConsumerProofs ------------------------
(***************************************************************************)
(* Proofs about StreamConsumer, for any number of consumers, entries and   *)
(* queues, any batch size, number of outputs and limits.                   *)
(***************************************************************************)
EXTENDS StreamConsumer, TLAPS, SequenceTheorems, FiniteSetTheorems

USE DEF group, entries, args, stats

-----------------------------------------------------------------------------
(* The inductive invariant                                                 *)

\* Types proper: TypeOK without its last conjunct.
Types ==
    /\ stream \in [QueueNames -> Seq(Messages)]
    /\ pending \subseteq Messages
    /\ kind \in [Messages -> Kinds]
    /\ status \in [Messages -> Statuses]
    /\ starts \in [Messages -> Nat]
    /\ out \in [Messages -> [1..Outputs -> OutputStates]]
    /\ loop \in [Workers -> Active \cup Ends]
    /\ held \in [Workers -> BOOLEAN]
    /\ qi \in [Workers -> 1..Len(Queues)]
    /\ batch \in [Workers -> SUBSET Messages]
    /\ limit \in [Workers -> 0..BatchSize]
    /\ max_events \in [Workers -> Limits \cup {0}]
    /\ stop_when_empty \in [Workers -> BOOLEAN]
    /\ total \in [Workers -> Nat] /\ errors \in [Workers -> Nat]
    /\ failures \in [Workers -> Nat]
    /\ seen \in [Workers -> SUBSET Messages]

ProcessedByLoop == \A m \in Messages :
    status[m] \in Processing => \E w \in Workers : Running(w, m)

\* What the group has not delivered is queued, at one place only.
QueuedOnce ==
    /\ \A q \in QueueNames : \A i \in 1..Len(stream[q]) :
          status[stream[q][i]] = "queued"
    /\ \A q, r \in QueueNames :
          \A i \in 1..Len(stream[q]), j \in 1..Len(stream[r]) :
              stream[q][i] = stream[r][j] => q = r /\ i = j

\* No handler was started for an entry that still is to be started.
StartedOnce == \A m \in Messages :
    /\ starts[m] <= 1
    /\ status[m] \in {"unborn", "queued", "batched"} => starts[m] = 0

Complete(m) == \A o \in 1..Outputs : out[m][o] = "written"

\* The outputs of an event at each point of its processing, and why it is
\* pending unless they are all written.
Progress(m) ==
    /\ status[m] \in {"unborn", "queued", "batched"} =>
          \A o \in 1..Outputs : out[m][o] = "todo"
    /\ status[m] = "executing" =>
          \A o \in 1..Outputs : out[m][o] \in {"todo", "written"}
    /\ status[m] = "flushing" =>
          \A o \in 1..Outputs : out[m][o] \in {"todo", "flight", "written"}
    /\ status[m] = "acking" => Complete(m)
    /\ status[m] \in {"batched", "executing", "flushing", "unknown"} =>
          m \in pending
    /\ status[m] \notin {"unborn", "queued"} => m \in pending \/ Complete(m)

\* The entries delivered to a run of a loop are its own, and each of them is
\* settled, in its batch, or part of a reply that was lost.
SeenByOne ==
    /\ \A w \in Workers : batch[w] \subseteq seen[w]
    /\ \A v, w \in Workers : v # w => seen[v] \cap seen[w] = {}
    /\ \A w \in Workers : loop[w] \in Ends \cup {"setup"} => seen[w] = {}

Kept(w, m) ==
    \/ status[m] \in Settled
    \/ m \in batch[w] /\ status[m] \in {"batched"} \cup Processing
    \/ status[m] = "lost" /\ failures[w] > 0

SeenKept == \A w \in Workers : \A m \in seen[w] : Kept(w, m)

Inv ==
    /\ Types /\ ProcessedByLoop /\ QueuedOnce /\ StartedOnce
    /\ \A m \in Messages : Progress(m)
    /\ SeenByOne /\ SeenKept

-----------------------------------------------------------------------------
(* Lemmas about reading                                                    *)

LEMMA CurrentQueue ==
    ASSUME Types, NEW w \in Workers
    PROVE  Queues[qi[w]] \in QueueNames
BY ConsumerAssumption DEF Types, QueueNames

\* What a read delivers is the front of the stream, and what it leaves there
\* is the rest.
LEMMA DeliveredIsFront ==
    ASSUME Types, NEW w \in Workers, NEW s \in Seq(Messages),
           s = stream[Queues[qi[w]]]
    PROVE  \E k \in 0..Len(s) :
              /\ Delivered(w) \in Seq(Messages)
              /\ Len(Delivered(w)) = k
              /\ \A i \in 1..k : Delivered(w)[i] = s[i]
              /\ SubSeq(s, Len(Delivered(w)) + 1, Len(s)) \in Seq(Messages)
              /\ Len(SubSeq(s, Len(Delivered(w)) + 1, Len(s))) = Len(s) - k
              /\ \A i \in 1..(Len(s) - k) :
                    SubSeq(s, Len(Delivered(w)) + 1, Len(s))[i] = s[k + i]
<1> DEFINE k == Lesser(limit[w], Len(s))
<1>1. k \in 0..Len(s) /\ Len(s) \in Nat
    BY ConsumerAssumption DEF Types, Lesser
<1>2. Delivered(w) = SubSeq(s, 1, k)
    BY DEF Delivered
<1> HIDE DEF k
<1>3. /\ Delivered(w) \in Seq(Messages)
      /\ Len(Delivered(w)) = k
      /\ \A i \in 1..k : Delivered(w)[i] = s[i]
    BY <1>1, <1>2, SubSeqProperties
<1>4. /\ SubSeq(s, k + 1, Len(s)) \in Seq(Messages)
      /\ Len(SubSeq(s, k + 1, Len(s))) = Len(s) - k
      /\ \A i \in 1..(Len(s) - k) : SubSeq(s, k + 1, Len(s))[i] = s[k + i]
    BY <1>1, SubSeqProperties
<1> QED
    BY <1>1, <1>3, <1>4

\* A read takes queued entries out of the stream; the others stay queued.
LEMMA TakeKeeps ==
    ASSUME Types, QueuedOnce, NEW w \in Workers, Take(w, Delivered(w)),
           \A m \in Messages \ SetOf(Delivered(w)) :
               status[m] = "queued" => status'[m] = "queued"
    PROVE  /\ stream' \in [QueueNames -> Seq(Messages)]
           /\ pending' \subseteq Messages
           /\ pending' = pending \cup SetOf(Delivered(w))
           /\ QueuedOnce'
           /\ SetOf(Delivered(w)) \subseteq
                 {m \in Messages : status[m] = "queued"}
<1> DEFINE q0 == Queues[qi[w]]
           s == stream[q0]
<1>1. q0 \in QueueNames /\ s \in Seq(Messages)
    BY CurrentQueue DEF Types
<1>2. PICK k \in 0..Len(s) :
              /\ Delivered(w) \in Seq(Messages)
              /\ Len(Delivered(w)) = k
              /\ \A i \in 1..k : Delivered(w)[i] = s[i]
              /\ SubSeq(s, Len(Delivered(w)) + 1, Len(s)) \in Seq(Messages)
              /\ Len(SubSeq(s, Len(Delivered(w)) + 1, Len(s))) = Len(s) - k
              /\ \A i \in 1..(Len(s) - k) :
                    SubSeq(s, Len(Delivered(w)) + 1, Len(s))[i] = s[k + i]
    BY <1>1, DeliveredIsFront
<1>3. /\ stream' = [stream EXCEPT
              ![q0] = SubSeq(s, Len(Delivered(w)) + 1, Len(s))]
      /\ pending' = pending \cup SetOf(Delivered(w))
    BY DEF Take
<1>4. stream' \in [QueueNames -> Seq(Messages)]
    BY <1>1, <1>2, <1>3 DEF Types
<1>5. SetOf(Delivered(w)) = {s[i] : i \in 1..k}
    <2>1. DOMAIN Delivered(w) = 1..k
        BY <1>2
    <2>2. SetOf(Delivered(w)) = {Delivered(w)[i] : i \in 1..k}
        BY <2>1 DEF SetOf
    <2>3. \A i \in 1..k : Delivered(w)[i] = s[i]
        BY <1>2
    <2> HIDE DEF s
    <2> QED
        BY <2>2, <2>3
<1>6. Len(s) \in Nat /\ \A i \in 1..Len(s) : s[i] \in Messages
    BY <1>1
<1>7. SetOf(Delivered(w)) \subseteq {m \in Messages : status[m] = "queued"}
    BY <1>1, <1>5, <1>6 DEF QueuedOnce
<1>8. \A q \in QueueNames : \A i \in 1..Len(stream'[q]) :
          \E j \in 1..Len(stream[q]) :
              /\ stream'[q][i] = stream[q][j]
              /\ q = q0 => j = i + k
              /\ q # q0 => j = i
    <2> SUFFICES ASSUME NEW q \in QueueNames, NEW i \in 1..Len(stream'[q])
                 PROVE  \E j \in 1..Len(stream[q]) :
                            /\ stream'[q][i] = stream[q][j]
                            /\ q = q0 => j = i + k
                            /\ q # q0 => j = i
        OBVIOUS
    <2>1. CASE q = q0
        <3>1. stream'[q] = SubSeq(s, Len(Delivered(w)) + 1, Len(s))
            BY <1>1, <1>3, <2>1 DEF Types
        <3>2. i \in 1..(Len(s) - k) /\ stream'[q][i] = s[k + i]
            BY <1>2, <3>1
        <3>3. i + k \in 1..Len(s)
            BY <3>2, <1>6
        <3> QED
            BY <2>1, <3>2, <3>3
    <2>2. CASE q # q0
        BY <1>3, <2>2 DEF Types
    <2> QED
        BY <2>1, <2>2
<1> HIDE DEF s
<1>9. \A q \in QueueNames : \A i \in 1..Len(stream'[q]) :
          stream'[q][i] \in Messages \ SetOf(Delivered(w))
    <2> SUFFICES ASSUME NEW q \in QueueNames, NEW i \in 1..Len(stream'[q])
                 PROVE  stream'[q][i] \in Messages \ SetOf(Delivered(w))
        OBVIOUS
    <2>1. PICK j \in 1..Len(stream[q]) :
              /\ stream'[q][i] = stream[q][j]
              /\ q = q0 => j = i + k
        BY <1>8
    <2>2. ASSUME NEW h \in 1..k, stream[q][j] = s[h]
          PROVE  FALSE
        BY <1>1, <1>6, <2>1, <2>2 DEF QueuedOnce, s
    <2>3. stream[q][j] \in Messages
        BY DEF Types
    <2> QED
        BY <1>5, <2>1, <2>2, <2>3
<1>10. QueuedOnce'
    <2>1. ASSUME NEW q \in QueueNames, NEW i \in 1..Len(stream'[q])
          PROVE  status'[stream'[q][i]] = "queued"
        BY <1>8, <1>9 DEF QueuedOnce
    <2>2. ASSUME NEW q \in QueueNames, NEW r \in QueueNames,
                 NEW i \in 1..Len(stream'[q]), NEW j \in 1..Len(stream'[r]),
                 stream'[q][i] = stream'[r][j]
          PROVE  q = r /\ i = j
        <3>1. PICK a \in 1..Len(stream[q]) :
                  /\ stream'[q][i] = stream[q][a]
                  /\ q = q0 => a = i + k
                  /\ q # q0 => a = i
            BY <1>8
        <3>2. PICK b \in 1..Len(stream[r]) :
                  /\ stream'[r][j] = stream[r][b]
                  /\ r = q0 => b = j + k
                  /\ r # q0 => b = j
            BY <1>8
        <3>3. q = r /\ a = b
            <4>1. stream[q][a] = stream[r][b]
                BY <2>2, <3>1, <3>2
            <4> QED
                BY <4>1 DEF QueuedOnce
        <3>4. i \in Int /\ j \in Int /\ k \in Int
            BY <1>2, <1>6
        <3> QED
            BY <3>1, <3>2, <3>3, <3>4
    <2> QED
        BY <2>1, <2>2 DEF QueuedOnce
<1> QED
    BY <1>3, <1>4, <1>7, <1>10 DEF Types

\* Steps that leave the streams alone and no queued entry behind.
LEMMA StreamStays ==
    ASSUME QueuedOnce, Types, UNCHANGED stream,
           \A m \in Messages : status[m] = "queued" => status'[m] = "queued"
    PROVE  QueuedOnce'
<1>1. ASSUME NEW q \in QueueNames, NEW i \in 1..Len(stream[q])
      PROVE  status'[stream[q][i]] = "queued"
    <2>1. stream[q][i] \in Messages
        BY DEF Types
    <2> QED
        BY <2>1 DEF QueuedOnce
<1> QED
    BY <1>1 DEF QueuedOnce

-----------------------------------------------------------------------------
(* Lemmas about the processing of one event                                *)

\* A step of the processing of m by w: nobody else's entry changes, and m goes
\* on to be processed or is settled.
LEMMA ProcessKeeps ==
    ASSUME Inv, NEW w \in Workers, NEW m \in Messages, Running(w, m),
           status[m] \in {"batched"} \cup Processing,
           NEW new \in Processing \cup {"done", "failed"}, To(m, new),
           starts' \in [Messages -> Nat],
           \A u \in Messages \ {m} : starts'[u] = starts[u],
           starts'[m] <= 1,
           out' \in [Messages -> [1..Outputs -> OutputStates]],
           \A u \in Messages \ {m} : out'[u] = out[u],
           pending' \subseteq Messages,
           \A u \in Messages \ {m} : u \in pending => u \in pending',
           total' \in [Workers -> Nat], errors' \in [Workers -> Nat],
           Progress(m)'
    PROVE  Inv'
<1> USE DEF Inv, To
<1>1. /\ status' \in [Messages -> Statuses]
      /\ status'[m] = new
      /\ \A u \in Messages \ {m} : status'[u] = status[u]
    BY DEF Types, Statuses, Settled
<1>2. Types'
    BY <1>1 DEF Types
<1>3. ProcessedByLoop'
    BY <1>1 DEF ProcessedByLoop, Running
<1>4. QueuedOnce'
    BY <1>1, StreamStays DEF Processing
<1>5. StartedOnce'
    BY <1>1 DEF StartedOnce, Processing
<1>6. \A u \in Messages : Progress(u)'
    <2>1. ASSUME NEW u \in Messages \ {m}
          PROVE  Progress(u)'
        <3>1. /\ Progress(u) /\ status'[u] = status[u] /\ out'[u] = out[u]
              /\ u \in pending => u \in pending'
            BY <1>1
        <3> QED
            BY <3>1 DEF Progress, Complete
    <2> QED
        BY <2>1
<1>7. SeenByOne'
    BY DEF SeenByOne
<1>8. SeenKept'
    <2> SUFFICES ASSUME NEW v \in Workers, NEW u \in seen[v]
                 PROVE  Kept(v, u)'
        BY DEF SeenKept
    <2>1. Kept(v, u) /\ u \in Messages
        BY DEF SeenKept, Types
    <2>2. CASE u # m
        BY <1>1, <2>1, <2>2 DEF Kept
    <2>3. CASE u = m
        BY <1>1, <2>1, <2>3 DEF Kept, Settled, Processing
    <2> QED
        BY <2>2, <2>3
<1> QED
    BY <1>2, <1>3, <1>4, <1>5, <1>6, <1>7, <1>8

\* An output of m changes and nothing else.
LEMMA OutputKeeps ==
    ASSUME Inv, NEW m \in Messages, NEW o \in 1..Outputs,
           NEW how \in {"written", "failed"}, WriteEnds(m, o, how),
           how = "failed" => status[m] \notin Processing,
           UNCHANGED <<group, kind, status, starts, loop, held, qi, batch,
                       limit, args, stats, seen>>
    PROVE  Inv'
<1> USE DEF Inv
<1>1. /\ out' \in [Messages -> [1..Outputs -> OutputStates]]
      /\ \A u \in Messages \ {m} : out'[u] = out[u]
      /\ \A p \in 1..Outputs : out'[m][p] = IF p = o THEN how ELSE out[m][p]
      /\ out[m][o] = "flight"
    BY DEF WriteEnds, Types, OutputStates, InFlight
<1>2. Types'
    BY <1>1 DEF Types
<1>3. ProcessedByLoop' /\ QueuedOnce' /\ StartedOnce'
    BY DEF ProcessedByLoop, QueuedOnce, StartedOnce, Running
<1>4. Progress(m)'
    BY <1>1 DEF Progress, Complete, Processing
<1>5. \A u \in Messages \ {m} : Progress(u)'
    BY <1>1 DEF Progress, Complete
<1>6. SeenByOne' /\ SeenKept'
    BY DEF SeenByOne, SeenKept, Kept
<1> QED
    BY <1>2, <1>3, <1>4, <1>5, <1>6

\* Cutting off what is under way: what is complete stays so, and only
\* acknowledges that were under way can take an entry off the pending list.
LEMMA CutOffKeeps ==
    ASSUME Inv, NEW ms \in SUBSET Messages, CutOff(ms)
    PROVE  /\ out' \in [Messages -> [1..Outputs -> OutputStates]]
           /\ pending' \subseteq pending
           /\ \A u \in Messages : Complete(u) => Complete(u)'
           /\ \A u \in Messages \ ms :
                 out'[u] = out[u] /\ (u \in pending => u \in pending')
           /\ \A u \in Messages :
                 u \in pending /\ status[u] # "acking" => u \in pending'
<1> USE DEF Inv
<1>1. PICK ws \in SUBSET {p \in ms \X (1..Outputs) : p[2] \in InFlight(p[1])} :
          out' = [m \in Messages |-> [o \in 1..Outputs |->
             IF m \in ms /\ o \in InFlight(m)
               THEN IF <<m, o>> \in ws THEN "written" ELSE "failed"
               ELSE out[m][o]]]
    BY DEF CutOff
<1>2. PICK as \in SUBSET {m \in ms : status[m] = "acking"} :
          pending' = pending \ as
    BY DEF CutOff
<1>3. out' \in [Messages -> [1..Outputs -> OutputStates]]
    BY <1>1 DEF Types, OutputStates
<1>4. \A u \in Messages : Complete(u) => Complete(u)'
    BY <1>1 DEF Complete, InFlight
<1>5. \A u \in Messages \ ms : out'[u] = out[u]
    <2> SUFFICES ASSUME NEW u \in Messages \ ms
                 PROVE  out'[u] = out[u]
        OBVIOUS
    <2>1. out'[u] = [o \in 1..Outputs |-> out[u][o]]
        BY <1>1
    <2> QED
        BY <2>1 DEF Types
<1> QED
    BY <1>2, <1>3, <1>4, <1>5

\* Ending the processing early: whatever was under way, an event that is not
\* pending any more is complete.
LEMMA TimeoutInv ==
    ASSUME Inv, NEW w \in Workers, NEW m \in Messages, Timeout(w, m)
    PROVE  Inv'
<1> USE DEF Timeout
<1>1. /\ out' \in [Messages -> [1..Outputs -> OutputStates]]
      /\ pending' \subseteq pending
      /\ Complete(m) => Complete(m)'
      /\ \A u \in Messages \ {m} :
            out'[u] = out[u] /\ (u \in pending => u \in pending')
      /\ m \in pending /\ status[m] # "acking" => m \in pending'
    BY CutOffKeeps
<1>2. status[m] \in Processing /\ status'[m] = "failed"
    BY DEF To, Inv, Types
<1>3. Progress(m)'
    BY <1>1, <1>2 DEF Inv, Progress, Processing
<1>4. total' \in [Workers -> Nat] /\ errors' \in [Workers -> Nat]
    BY DEF Count, Inv, Types
<1>5. /\ starts' \in [Messages -> Nat] /\ starts'[m] <= 1
      /\ pending' \subseteq Messages
    BY <1>1 DEF Inv, Types, StartedOnce
<1>6. starts' = starts
    OBVIOUS
<1> HIDE DEF Timeout
<1>7. Running(w, m) /\ To(m, "failed")
    BY DEF Timeout
<1> QED
    BY <1>1, <1>2, <1>3, <1>4, <1>5, <1>6, <1>7, ProcessKeeps

LEMMA EventInv ==
    ASSUME Inv, NEW w \in Workers, NEW m \in Messages, Event(w, m)
    PROVE  Inv'
<1> DEFINE Types1 == /\ starts \in [Messages -> Nat] /\ starts[m] <= 1
                     /\ out \in [Messages -> [1..Outputs -> OutputStates]]
                     /\ pending \subseteq Messages
                     /\ total \in [Workers -> Nat] /\ errors \in [Workers -> Nat]
                     /\ status \in [Messages -> Statuses]
<1>0. Types1 /\ Progress(m)
    BY DEF Inv, Types, StartedOnce
<1>1. CASE Start(w, m)
    <2>1. starts[m] = 0
        BY <1>1 DEF Start, Inv, StartedOnce
    <2>2. /\ Running(w, m) /\ To(m, "executing") /\ status[m] = "batched"
          /\ UNCHANGED <<pending, out, total, errors>>
          /\ starts' = [starts EXCEPT ![m] = 1]
        BY <1>1, <2>1 DEF Start
    <2>3. status'[m] = "executing"
        BY <1>0, <2>2 DEF To
    <2>4. Progress(m)'
        BY <1>0, <2>2, <2>3 DEF Progress
    <2>5. starts' \in [Messages -> Nat] /\ starts'[m] = 1
          /\ \A u \in Messages \ {m} : starts'[u] = starts[u]
        BY <1>0, <2>2
    <2>6. /\ out' = out /\ pending' = pending /\ starts'[m] <= 1
          /\ out' \in [Messages -> [1..Outputs -> OutputStates]]
          /\ pending' \subseteq Messages
          /\ total' \in [Workers -> Nat] /\ errors' \in [Workers -> Nat]
        BY <1>0, <2>2, <2>5
    <2>7. Running(w, m) /\ To(m, "executing") /\ "executing" \in Processing
          /\ status[m] \in {"batched"} \cup Processing
        BY <2>2 DEF Processing
    <2> HIDE DEF Types1
    <2> QED
        BY <2>4, <2>5, <2>6, <2>7, ProcessKeeps
<1>2. CASE Flush(w, m)
    <2>1. /\ Running(w, m) /\ To(m, "flushing") /\ status[m] = "executing"
          /\ UNCHANGED <<pending, starts, total, errors>>
        BY <1>2, Zenon DEF Flush
    <2>2. PICK first : out' = [out EXCEPT ![m] = [o \in 1..Outputs |->
              IF o > first /\ o <= first + BatchSize THEN "flight" ELSE @[o]]]
        BY <1>2 DEF Flush
    <2>3. /\ out' \in [Messages -> [1..Outputs -> OutputStates]]
          /\ \A u \in Messages \ {m} : out'[u] = out[u]
          /\ \A o \in 1..Outputs :
                out'[m][o] = "flight" \/ out'[m][o] = out[m][o]
        BY <1>0, <2>2 DEF OutputStates
    <2>4. status'[m] = "flushing"
        BY <1>0, <2>1 DEF To
    <2>5. Progress(m)'
        BY <1>0, <2>1, <2>3, <2>4 DEF Progress
    <2> QED
        BY <1>0, <2>1, <2>3, <2>5, ProcessKeeps DEF Processing
<1>3. ASSUME NEW o \in 1..Outputs, OutputWritten(w, m, o)
      PROVE  Inv'
    BY <1>3, OutputKeeps DEF OutputWritten
<1>4. ASSUME NEW o \in 1..Outputs, OutputFails(w, m, o)
      PROVE  Inv'
    <2>1. /\ Running(w, m) /\ To(m, "failed") /\ status[m] = "flushing"
          /\ WriteEnds(m, o, "failed") /\ Count(w, TRUE)
          /\ UNCHANGED <<pending, starts>>
        BY <1>4 DEF OutputFails
    <2>2. /\ out' \in [Messages -> [1..Outputs -> OutputStates]]
          /\ \A u \in Messages \ {m} : out'[u] = out[u]
        BY <1>0, <2>1 DEF WriteEnds, OutputStates
    <2>3. status'[m] = "failed"
        BY <1>0, <2>1 DEF To
    <2>4. Progress(m)'
        BY <1>0, <2>1, <2>3 DEF Progress
    <2>5. total' \in [Workers -> Nat] /\ errors' \in [Workers -> Nat]
        BY <1>0, <2>1 DEF Count
    <2> QED
        BY <1>0, <2>1, <2>2, <2>4, <2>5, ProcessKeeps DEF Processing
<1>5. CASE StepFails(w, m)
    <2>1. /\ Running(w, m) /\ To(m, "failed") /\ status[m] = "executing"
          /\ Count(w, TRUE)
          /\ UNCHANGED <<pending, starts, out>>
        BY <1>5 DEF StepFails
    <2>2. status'[m] = "failed"
        BY <1>0, <2>1 DEF To
    <2>3. Progress(m)'
        BY <1>0, <2>1, <2>2 DEF Progress
    <2>4. total' \in [Workers -> Nat] /\ errors' \in [Workers -> Nat]
        BY <1>0, <2>1 DEF Count
    <2> QED
        BY <1>0, <2>1, <2>3, <2>4, ProcessKeeps DEF Processing
<1>6. CASE FlushDone(w, m)
    <2>1. /\ Running(w, m) /\ To(m, "executing") /\ status[m] = "flushing"
          /\ InFlight(m) = {}
          /\ UNCHANGED <<pending, starts, out, total, errors>>
        BY <1>6 DEF FlushDone
    <2>2. status'[m] = "executing"
        BY <1>0, <2>1 DEF To
    <2>3. \A o \in 1..Outputs : out[m][o] # "flight"
        BY <1>0, <2>1 DEF InFlight
    <2>4. Progress(m)'
        BY <1>0, <2>1, <2>2, <2>3 DEF Progress
    <2> QED
        BY <1>0, <2>1, <2>4, ProcessKeeps DEF Processing
<1>7. CASE Executed(w, m)
    <2>1. /\ Running(w, m) /\ To(m, "acking") /\ status[m] = "executing"
          /\ ToDo(m) = {}
          /\ UNCHANGED <<pending, starts, out, total, errors>>
        BY <1>7 DEF Executed
    <2>2. status'[m] = "acking"
        BY <1>0, <2>1 DEF To
    <2>3. \A o \in 1..Outputs : out[m][o] # "todo"
        BY <1>0, <2>1 DEF ToDo
    <2>4. Progress(m)'
        BY <1>0, <2>1, <2>2, <2>3 DEF Progress, Complete
    <2> QED
        BY <1>0, <2>1, <2>4, ProcessKeeps DEF Processing
<1>8. ASSUME NEW taken \in BOOLEAN, Ack(w, m, taken)
      PROVE  Inv'
    <2>1. /\ Running(w, m) /\ To(m, "done") /\ status[m] = "acking"
          /\ Count(w, FALSE)
          /\ pending' = IF taken THEN pending \ {m} ELSE pending
          /\ UNCHANGED <<starts, out>>
        BY <1>8 DEF Ack
    <2>2. status'[m] = "done"
        BY <1>0, <2>1 DEF To
    <2>3. Progress(m)'
        BY <1>0, <2>1, <2>2 DEF Progress, Complete
    <2>4. /\ pending' \subseteq Messages
          /\ \A u \in Messages \ {m} : u \in pending => u \in pending'
        BY <1>0, <2>1
    <2>5. total' \in [Workers -> Nat] /\ errors' \in [Workers -> Nat]
        BY <1>0, <2>1 DEF Count
    <2> QED
        BY <1>0, <2>1, <2>3, <2>4, <2>5, ProcessKeeps DEF Processing
<1>9. CASE Timeout(w, m)
    BY <1>9, TimeoutInv
<1> QED
    BY <1>1, <1>2, <1>3, <1>4, <1>5, <1>6, <1>7, <1>8, <1>9
       DEF Event, Settle

-----------------------------------------------------------------------------
(* Lemmas about the loop                                                   *)

LoopTypes ==
    /\ loop \in [Workers -> Active \cup Ends]
    /\ held \in [Workers -> BOOLEAN]
    /\ qi \in [Workers -> 1..Len(Queues)]
    /\ batch \in [Workers -> SUBSET Messages]
    /\ limit \in [Workers -> 0..BatchSize]
    /\ max_events \in [Workers -> Limits \cup {0}]
    /\ stop_when_empty \in [Workers -> BOOLEAN]
    /\ total \in [Workers -> Nat] /\ errors \in [Workers -> Nat]
    /\ failures \in [Workers -> Nat]
    /\ seen \in [Workers -> SUBSET Messages]

LEMMA EndLoopTypes ==
    ASSUME Types, NEW w \in Workers, NEW how \in Ends, EndLoop(w, how)
    PROVE  LoopTypes'
BY ConsumerAssumption DEF Types, LoopTypes, EndLoop

LEMMA NextCycleTypes ==
    ASSUME Types, NEW w \in Workers, NextCycle(w)
    PROVE  LoopTypes'
<1>1. CASE ~GoesOn(w)
    BY <1>1, EndLoopTypes DEF NextCycle, Ends
<1>2. CASE GoesOn(w)
    <2>0. max_events[w] \in Nat /\ total[w] \in Nat
        <3>1. max_events[w] \in Limits \cup {0} /\ total[w] \in Nat
            BY DEF Types
        <3>2. Limits \subseteq Nat
            BY ConsumerAssumption
        <3>3. CASE max_events[w] = 0
            BY <3>1, <3>3
        <3>4. CASE max_events[w] \in Limits
            BY <3>1, <3>2, <3>4
        <3> QED
            BY <3>1, <3>3, <3>4
    <2>1. /\ max_events[w] \in Nat /\ total[w] \in Nat
          /\ max_events[w] > 0 => total[w] < max_events[w]
          /\ BatchSize \in Nat \ {0} /\ 1 \in 1..Len(Queues)
        BY <1>2, <2>0, ConsumerAssumption DEF GoesOn
    <2>2. (IF max_events[w] > 0
             THEN Lesser(max_events[w] - total[w], BatchSize)
             ELSE BatchSize) \in 0..BatchSize
        BY <2>1 DEF Lesser
    <2> DEFINE next == IF max_events[w] > 0
                         THEN Lesser(max_events[w] - total[w], BatchSize)
                         ELSE BatchSize
    <2>3. /\ loop' = [loop EXCEPT ![w] = "reading"]
          /\ qi' = [qi EXCEPT ![w] = 1]
          /\ batch' = [batch EXCEPT ![w] = {}]
          /\ limit' = [limit EXCEPT ![w] = next]
          /\ UNCHANGED <<held, args, stats, seen>>
        BY <1>2, Zenon DEF NextCycle
    <2>4. next \in 0..BatchSize
        BY <2>2
    <2> HIDE DEF next
    <2>5. loop' \in [Workers -> Active \cup Ends]
        BY <2>3 DEF Types, Active
    <2>6. /\ qi' \in [Workers -> 1..Len(Queues)]
          /\ batch' \in [Workers -> SUBSET Messages]
        BY <2>1, <2>3 DEF Types
    <2>7. limit' \in [Workers -> 0..BatchSize]
        BY <2>3, <2>4 DEF Types
    <2>8. UNCHANGED <<held, max_events, stop_when_empty, total, errors,
                      failures, seen>>
        BY <2>3 DEF args, stats
    <2> QED
        BY <2>5, <2>6, <2>7, <2>8 DEF Types, LoopTypes
<1> QED
    BY <1>1, <1>2

\* A loop that ends leaves the entries of the others alone and processes none
\* of its own any more.
LEMMA EndLoopKeeps ==
    ASSUME Inv, NEW w \in Workers, NEW how \in Ends, EndLoop(w, how),
           \A m \in Messages :
               status'[m] \in Processing =>
                   status'[m] = status[m] /\ m \notin batch[w],
           \A m \in Messages :
               status'[m] = status[m] \/ m \in batch[w] \/ status[m] = "queued"
    PROVE  ProcessedByLoop' /\ SeenByOne' /\ SeenKept'
<1> USE DEF Inv, EndLoop
<1>1. ProcessedByLoop'
    <2> SUFFICES ASSUME NEW m \in Messages, status'[m] \in Processing
                 PROVE  \E v \in Workers : Running(v, m)'
        BY DEF ProcessedByLoop
    <2>1. PICK v \in Workers : Running(v, m)
        BY DEF ProcessedByLoop
    <2>2. v # w
        BY <2>1 DEF Running
    <2> QED
        BY <2>1, <2>2 DEF Running, Types
<1>2. SeenByOne'
    BY DEF SeenByOne, Types
<1>3. SeenKept'
    <2> SUFFICES ASSUME NEW v \in Workers, NEW m \in seen'[v]
                 PROVE  Kept(v, m)'
        BY DEF SeenKept
    <2>1. v # w /\ m \in seen[v] /\ Kept(v, m) /\ m \in Messages
        BY DEF Types, SeenKept
    <2>2. m \notin batch[w] /\ status[m] # "queued"
        BY <2>1 DEF SeenByOne, Kept, Settled, Processing
    <2>3. status'[m] = status[m]
        BY <2>1, <2>2
    <2>4. batch'[v] = batch[v] /\ failures'[v] = failures[v]
        BY <2>1 DEF Types
    <2> QED
        BY <2>1, <2>3, <2>4 DEF Kept
<1> QED
    BY <1>1, <1>2, <1>3

\* The parts of the invariant that do not look at the loops.
EntriesInv ==
    QueuedOnce /\ StartedOnce /\ \A m \in Messages : Progress(m)

LEMMA EntriesStay ==
    ASSUME EntriesInv, UNCHANGED <<group, entries>>
    PROVE  EntriesInv'
BY DEF EntriesInv, QueuedOnce, StartedOnce, Progress, Complete

LEMMA InvParts ==
    ASSUME Types, UNCHANGED kind,
           stream' \in [QueueNames -> Seq(Messages)],
           pending' \subseteq Messages,
           status' \in [Messages -> Statuses],
           starts' \in [Messages -> Nat],
           out' \in [Messages -> [1..Outputs -> OutputStates]],
           LoopTypes', EntriesInv', ProcessedByLoop', SeenByOne', SeenKept'
    PROVE  Inv'
BY DEF Inv, Types, LoopTypes, EntriesInv

\* The next cycle begins when the last one has left nothing to do.
LEMMA NextCycleKeeps ==
    ASSUME Inv, NEW w \in Workers, NextCycle(w),
           \A m \in batch[w] : status[m] \in Settled,
           loop[w] \in {"setup", "processing"},
           UNCHANGED <<group, entries>>
    PROVE  Inv'
<1> USE DEF Inv
<1>1. LoopTypes'
    BY NextCycleTypes
<1>2. EntriesInv'
    BY EntriesStay DEF EntriesInv
<1>3. \A m \in Messages : status[m] \in Processing => m \notin batch[w]
    BY DEF Settled, Processing
<1>4. CASE ~GoesOn(w)
    <2>1. EndLoop(w, "ended") /\ "ended" \in Ends
        BY <1>4 DEF NextCycle, Ends
    <2>2. ProcessedByLoop' /\ SeenByOne' /\ SeenKept'
        BY <1>3, <2>1, EndLoopKeeps
    <2> QED
        BY <1>1, <1>2, <2>2, InvParts DEF Types
<1>5. CASE GoesOn(w)
    <2>1. /\ loop' = [loop EXCEPT ![w] = "reading"]
          /\ batch' = [batch EXCEPT ![w] = {}]
          /\ UNCHANGED <<seen, failures>>
        BY <1>5 DEF NextCycle
    <2>2. ProcessedByLoop'
        <3> SUFFICES ASSUME NEW m \in Messages, status[m] \in Processing
                     PROVE  \E v \in Workers : Running(v, m)'
            BY DEF ProcessedByLoop
        <3>1. PICK v \in Workers : Running(v, m)
            BY DEF ProcessedByLoop
        <3>2. v # w
            BY <1>3, <3>1 DEF Running
        <3> QED
            BY <2>1, <3>1, <3>2 DEF Running, Types
    <2>3. SeenByOne'
        BY <2>1 DEF SeenByOne, Types, Ends
    <2>4. SeenKept'
        <3> SUFFICES ASSUME NEW v \in Workers, NEW m \in seen[v]
                     PROVE  Kept(v, m)'
            BY <2>1 DEF SeenKept
        <3>1. Kept(v, m)
            BY DEF SeenKept
        <3>2. CASE v = w
            BY <2>1, <3>1, <3>2 DEF Kept, Types
        <3>3. CASE v # w
            BY <2>1, <3>1, <3>3 DEF Kept, Types
        <3> QED
            BY <3>2, <3>3
    <2> QED
        BY <1>1, <1>2, <2>2, <2>3, <2>4, InvParts DEF Types
<1> QED
    BY <1>4, <1>5

-----------------------------------------------------------------------------
(* Every action keeps the invariant                                        *)

LEMMA PublishInv ==
    ASSUME Inv, NEW m \in Messages, NEW q \in QueueNames, NEW k \in Kinds,
           Publish(m, q, k)
    PROVE  Inv'
<1> USE DEF Inv
<1>1. /\ status[m] = "unborn" /\ status' = [status EXCEPT ![m] = "queued"]
      /\ kind' = [kind EXCEPT ![m] = k]
      /\ stream' = [stream EXCEPT ![q] = Append(stream[q], m)]
      /\ UNCHANGED <<pending, starts, out, loop, held, qi, batch, limit, args,
                     stats, seen>>
    BY DEF Publish
<1>2. /\ stream[q] \in Seq(Messages) /\ Len(stream[q]) \in Nat
      /\ status \in [Messages -> Statuses]
      /\ \A r \in QueueNames : \A i \in 1..Len(stream[r]) :
            stream[r][i] \in Messages \ {m}
    BY <1>1 DEF Types, QueuedOnce
<1>3. /\ stream'[q] = Append(stream[q], m)
      /\ stream'[q] \in Seq(Messages)
      /\ Len(stream'[q]) = Len(stream[q]) + 1
      /\ \A i \in 1..Len(stream[q]) : stream'[q][i] = stream[q][i]
      /\ stream'[q][Len(stream[q]) + 1] = m
      /\ \A r \in QueueNames \ {q} : stream'[r] = stream[r]
    BY <1>1, <1>2, AppendProperties DEF Types
<1>4. Types'
    BY <1>1, <1>3 DEF Types, Statuses
<1>5. QueuedOnce'
    <2>1. \A r \in QueueNames : \A i \in 1..Len(stream'[r]) :
              \/ i \in 1..Len(stream[r]) /\ stream'[r][i] = stream[r][i]
              \/ r = q /\ i = Len(stream[q]) + 1 /\ stream'[r][i] = m
        BY <1>2, <1>3
    <2>2. ASSUME NEW r \in QueueNames, NEW i \in 1..Len(stream'[r])
          PROVE  status'[stream'[r][i]] = "queued"
        BY <1>1, <1>2, <2>1 DEF QueuedOnce
    <2>3. ASSUME NEW r \in QueueNames, NEW t \in QueueNames,
                 NEW i \in 1..Len(stream'[r]), NEW j \in 1..Len(stream'[t]),
                 stream'[r][i] = stream'[t][j]
          PROVE  r = t /\ i = j
        <3>1. CASE stream'[r][i] = m
            <4>1. r = q /\ i = Len(stream[q]) + 1
                BY <1>2, <2>1, <3>1
            <4>2. t = q /\ j = Len(stream[q]) + 1
                BY <1>2, <2>1, <2>3, <3>1
            <4> QED
                BY <4>1, <4>2
        <3>2. CASE stream'[r][i] # m
            <4>1. /\ i \in 1..Len(stream[r]) /\ j \in 1..Len(stream[t])
                  /\ stream[r][i] = stream[t][j]
                BY <2>1, <2>3, <3>2
            <4> QED
                BY <4>1 DEF QueuedOnce
        <3> QED
            BY <3>1, <3>2
    <2> QED
        BY <2>2, <2>3 DEF QueuedOnce
<1>6. StartedOnce' /\ \A u \in Messages : Progress(u)'
    BY <1>1, <1>2 DEF StartedOnce, Progress, Complete
<1>7. ProcessedByLoop' /\ SeenByOne'
    BY <1>1, <1>2 DEF ProcessedByLoop, SeenByOne, Running, Processing
<1>8. SeenKept'
    BY <1>1, <1>2 DEF SeenKept, Kept, Types, Settled, Processing
<1> QED
    BY <1>4, <1>5, <1>6, <1>7, <1>8

LEMMA StartLoopInv ==
    ASSUME Inv, NEW w \in Workers, NEW max \in Limits, NEW swe \in BOOLEAN,
           StartLoop(w, max, swe)
    PROVE  Inv'
<1> USE DEF Inv
<1>1. /\ loop[w] \in Ends
      /\ loop' = [loop EXCEPT ![w] = "setup"]
      /\ held' = [held EXCEPT ![w] = TRUE]
      /\ max_events' = [max_events EXCEPT ![w] = max]
      /\ stop_when_empty' = [stop_when_empty EXCEPT ![w] = swe]
      /\ UNCHANGED <<group, entries, qi, batch, limit, stats, seen>>
    BY DEF StartLoop
<1>2. LoopTypes'
    BY <1>1 DEF Types, LoopTypes, Active
<1>3. EntriesInv'
    BY <1>1, EntriesStay DEF EntriesInv
<1>4. ProcessedByLoop'
    BY <1>1 DEF ProcessedByLoop, Running, Types, Ends
<1>5. SeenByOne' /\ SeenKept'
    BY <1>1 DEF SeenByOne, SeenKept, Kept, Types
<1> QED
    BY <1>1, <1>2, <1>3, <1>4, <1>5, InvParts DEF Types

LEMMA SignalStopInv ==
    ASSUME Inv, NEW w \in Workers, SignalStop(w)
    PROVE  Inv'
<1> USE DEF Inv, SignalStop
<1>1. LoopTypes'
    BY DEF Types, LoopTypes
<1>2. EntriesInv'
    BY EntriesStay DEF EntriesInv
<1>3. ProcessedByLoop' /\ SeenByOne' /\ SeenKept'
    BY DEF ProcessedByLoop, Running, SeenByOne, SeenKept, Kept
<1> QED
    BY <1>1, <1>2, <1>3, InvParts DEF Types

LEMMA SetupInv ==
    ASSUME Inv, NEW w \in Workers, Setup(w)
    PROVE  Inv'
<1>1. batch[w] = {}
    BY DEF Setup, Inv, SeenByOne
<1> QED
    BY <1>1, NextCycleKeeps DEF Setup

LEMMA EndCycleInv ==
    ASSUME Inv, NEW w \in Workers, EndCycle(w)
    PROVE  Inv'
<1>1. CASE stop_when_empty[w] /\ batch[w] = {}
    <2>1. EndLoop(w, "ended") /\ UNCHANGED <<group, entries>>
        BY <1>1 DEF EndCycle
    <2>2. LoopTypes'
        BY <2>1, EndLoopTypes DEF Inv, Ends
    <2>3. EntriesInv'
        BY <2>1, EntriesStay DEF Inv, EntriesInv
    <2>4. ProcessedByLoop' /\ SeenByOne' /\ SeenKept'
        BY <1>1, <2>1, EndLoopKeeps DEF Ends
    <2> QED
        BY <2>1, <2>2, <2>3, <2>4, InvParts DEF Inv, Types
<1>2. CASE ~(stop_when_empty[w] /\ batch[w] = {})
    BY <1>2, NextCycleKeeps DEF EndCycle
<1> QED
    BY <1>1, <1>2

LEMMA ReadInv ==
    ASSUME Inv, NEW w \in Workers, Read(w)
    PROVE  Inv'
<1> DEFINE D == SetOf(Delivered(w))
           bad == {m \in D : kind[m] = "unknown"}
<1> USE DEF Inv
<1>1. /\ loop[w] = "reading"
      /\ Take(w, Delivered(w)) /\ seen' = [seen EXCEPT ![w] = @ \cup D]
      /\ status' = [m \in Messages |->
             IF m \notin D THEN status[m]
             ELSE IF m \in bad THEN "unknown" ELSE "batched"]
      /\ batch' = [batch EXCEPT ![w] = @ \cup (D \ bad)]
      /\ total' = [total EXCEPT ![w] = @ + Cardinality(bad)]
      /\ errors' = [errors EXCEPT ![w] = @ + Cardinality(bad)]
      /\ NextQueue(w)
      /\ UNCHANGED <<kind, starts, out, held, limit, args, failures>>
    BY DEF Read, See
<1>2. \A m \in Messages \ D : status'[m] = status[m]
    BY <1>1
<1>3. /\ stream' \in [QueueNames -> Seq(Messages)]
      /\ pending' = pending \cup D /\ pending' \subseteq Messages
      /\ QueuedOnce'
      /\ D \subseteq {m \in Messages : status[m] = "queued"}
    BY <1>1, <1>2, TakeKeeps
<1>4. Cardinality(bad) \in Nat
    <2>1. IsFiniteSet(D)
        <3>1. Delivered(w) \in Seq(Messages)
            <4>1. stream[Queues[qi[w]]] \in Seq(Messages)
                BY CurrentQueue DEF Types
            <4> QED
                BY <4>1, DeliveredIsFront
        <3>2. IsFiniteSet(1..Len(Delivered(w)))
            BY <3>1, FS_Interval
        <3>3. D = {Delivered(w)[i] : i \in 1..Len(Delivered(w))}
            <4>1. DOMAIN Delivered(w) = 1..Len(Delivered(w))
                BY <3>1
            <4> QED
                BY <4>1 DEF SetOf
        <3> DEFINE f == [i \in 1..Len(Delivered(w)) |-> Delivered(w)[i]]
        <3>4. f \in Surjection(1..Len(Delivered(w)), D)
            BY <3>3 DEF Surjection
        <3> HIDE DEF f, D
        <3> QED
            BY <3>2, <3>4, FS_Surjection
    <2>2. IsFiniteSet(bad)
        BY <2>1, FS_Subset
    <2> QED
        BY <2>2, FS_CardinalityType
<1> HIDE DEF bad, D
<1>5. bad \subseteq D
    BY DEF bad
<1>6. LoopTypes'
    <2>1. /\ seen' \in [Workers -> SUBSET Messages]
          /\ batch' \in [Workers -> SUBSET Messages]
        BY <1>1, <1>3 DEF Types
    <2>2. total' \in [Workers -> Nat] /\ errors' \in [Workers -> Nat]
        BY <1>1, <1>4 DEF Types
    <2>3. loop' \in [Workers -> Active \cup Ends]
        BY <1>1 DEF NextQueue, Types, Active
    <2>4. qi' \in [Workers -> 1..Len(Queues)]
        BY <1>1, ConsumerAssumption DEF NextQueue, Types
    <2> QED
        BY <1>1, <2>1, <2>2, <2>3, <2>4 DEF Types, LoopTypes
<1>7. status' \in [Messages -> Statuses]
    BY <1>1 DEF Types, Statuses, Settled
<1>8. StartedOnce'
    BY <1>1, <1>3 DEF StartedOnce
<1>9. \A m \in Messages : Progress(m)'
    <2> SUFFICES ASSUME NEW m \in Messages
                 PROVE  Progress(m)'
        OBVIOUS
    <2>1. CASE m \in D
        <3>1. /\ m \in pending' /\ out'[m] = out[m] /\ status[m] = "queued"
              /\ status'[m] \in {"unknown", "batched"}
            BY <1>1, <1>3, <2>1
        <3> QED
            BY <3>1 DEF Progress, Complete
    <2>2. CASE m \notin D
        <3>1. /\ m \in pending => m \in pending'
              /\ out'[m] = out[m] /\ status'[m] = status[m]
            BY <1>1, <1>3, <2>2
        <3> QED
            BY <3>1 DEF Progress, Complete
    <2> QED
        BY <2>1, <2>2
<1>10. ProcessedByLoop'
    <2> SUFFICES ASSUME NEW m \in Messages, status'[m] \in Processing
                 PROVE  \E v \in Workers : Running(v, m)'
        BY DEF ProcessedByLoop
    <2>1. status[m] \in Processing
        BY <1>1 DEF Processing
    <2>2. PICK v \in Workers : Running(v, m)
        BY <2>1 DEF ProcessedByLoop
    <2>3. v # w
        BY <1>1, <2>2 DEF Running
    <2> QED
        BY <1>1, <2>2, <2>3 DEF Running, NextQueue, Types
<1>11. \A v \in Workers : \A m \in seen[v] : m \in Messages \ D
    BY <1>3 DEF SeenKept, Kept, Types, Settled, Processing
<1>12. SeenByOne'
    <2>1. \A v \in Workers : batch'[v] \subseteq seen'[v]
        BY <1>1, <1>5 DEF SeenByOne, Types
    <2>2. \A u, v \in Workers : u # v => seen'[u] \cap seen'[v] = {}
        BY <1>1, <1>11 DEF SeenByOne, Types
    <2>3. \A v \in Workers : loop'[v] \in Ends \cup {"setup"} => seen'[v] = {}
        BY <1>1 DEF SeenByOne, Types, NextQueue, Ends
    <2> QED
        BY <2>1, <2>2, <2>3 DEF SeenByOne
<1>13. SeenKept'
    <2> SUFFICES ASSUME NEW v \in Workers, NEW m \in seen'[v]
                 PROVE  Kept(v, m)'
        BY DEF SeenKept
    <2>1. CASE m \in seen[v]
        <3>1. /\ Kept(v, m) /\ status'[m] = status[m]
              /\ batch[v] \subseteq batch'[v] /\ failures' = failures
            BY <1>1, <1>2, <1>11, <2>1 DEF SeenKept, Types
        <3> QED
            BY <3>1 DEF Kept
    <2>2. CASE m \notin seen[v]
        <3>1. v = w /\ m \in D
            BY <1>1, <2>2 DEF Types
        <3>2. m \in Messages
            BY <1>3, <3>1
        <3>3. CASE m \in bad
            BY <1>1, <3>1, <3>2, <3>3 DEF Kept, Settled
        <3>4. CASE m \notin bad
            BY <1>1, <3>1, <3>2, <3>4 DEF Kept, Types
        <3> QED
            BY <3>3, <3>4
    <2> QED
        BY <2>1, <2>2
<1> QED
    BY <1>1, <1>3, <1>6, <1>7, <1>8, <1>9, <1>10, <1>12, <1>13, InvParts
       DEF EntriesInv, Types

\* The batch of a loop that is still reading is not processed by anybody.
LEMMA ReadingIsNotProcessing ==
    ASSUME Inv, NEW w \in Workers, loop[w] = "reading", NEW m \in batch[w]
    PROVE  m \in Messages /\ status[m] \notin Processing
<1>1. m \in Messages /\ m \in seen[w]
    BY DEF Inv, Types, SeenByOne
<1>2. ASSUME status[m] \in Processing
      PROVE  FALSE
    <2>1. PICK v \in Workers : loop[v] = "processing" /\ m \in batch[v]
        BY <1>1, <1>2 DEF Inv, ProcessedByLoop, Running
    <2>2. v # w /\ m \in seen[v]
        BY <2>1 DEF Inv, SeenByOne
    <2> QED
        BY <1>1, <2>2 DEF Inv, SeenByOne
<1> QED
    BY <1>1, <1>2

LEMMA ReadRaisesInv ==
    ASSUME Inv, NEW w \in Workers, ReadRaises(w)
    PROVE  Inv'
<1> DEFINE D == SetOf(Delivered(w))
<1> USE DEF Inv
<1>1. /\ loop[w] = "reading" /\ Take(w, Delivered(w))
      /\ status' = [m \in Messages |->
            IF m \in D \/ (m \in batch[w] /\ status[m] = "batched")
              THEN "lost" ELSE status[m]]
      /\ EndLoop(w, "raised") /\ "raised" \in Ends
      /\ UNCHANGED <<kind, starts, out>>
    BY DEF ReadRaises, Dropped, Ends
<1>2. /\ stream' \in [QueueNames -> Seq(Messages)]
      /\ pending' = pending \cup D /\ pending' \subseteq Messages
      /\ QueuedOnce'
      /\ D \subseteq {m \in Messages : status[m] = "queued"}
    BY <1>1, TakeKeeps
<1> HIDE DEF D
<1>3. LoopTypes'
    BY <1>1, EndLoopTypes
<1>4. status' \in [Messages -> Statuses]
    BY <1>1 DEF Types, Statuses
<1>5. StartedOnce'
    BY <1>1 DEF StartedOnce
<1>6. \A m \in Messages : Progress(m)'
    <2> SUFFICES ASSUME NEW m \in Messages
                 PROVE  Progress(m)'
        OBVIOUS
    <2>1. m \in pending => m \in pending'
        BY <1>2
    <2>2. CASE status'[m] = status[m]
        BY <1>1, <2>1, <2>2 DEF Progress, Complete
    <2>3. CASE status'[m] # status[m]
        <3>1. status'[m] = "lost" /\ (m \in D \/ status[m] = "batched")
            BY <1>1, <2>3
        <3>2. m \in pending'
            BY <1>2, <3>1 DEF Progress
        <3> QED
            BY <3>1, <3>2 DEF Progress
    <2> QED
        BY <2>2, <2>3
<1>7. \A m \in Messages :
          /\ status'[m] \in Processing =>
                status'[m] = status[m] /\ m \notin batch[w]
          /\ status'[m] = status[m] \/ m \in batch[w] \/ status[m] = "queued"
    BY <1>1, <1>2, ReadingIsNotProcessing DEF Processing
<1>8. ProcessedByLoop' /\ SeenByOne' /\ SeenKept'
    BY <1>1, <1>7, EndLoopKeeps
<1> QED
    BY <1>1, <1>2, <1>3, <1>4, <1>5, <1>6, <1>8, InvParts
       DEF EntriesInv, Types

\* A failed read that delivered nothing, or entries whose reply was lost.
LEMMA ReadFailsInv ==
    ASSUME Inv, NEW w \in Workers, ReadFails(w)
    PROVE  Inv'
<1> USE DEF Inv
<1>1. /\ loop[w] = "reading" /\ NextQueue(w)
      /\ failures' = [failures EXCEPT ![w] = @ + 1]
      /\ total' = [total EXCEPT ![w] = @ + 1]
      /\ errors' = [errors EXCEPT ![w] = @ + 1]
      /\ UNCHANGED <<kind, starts, out, held, batch, limit, args>>
    BY DEF ReadFails
<1>2. PICK D \in SUBSET {m \in Messages : status[m] = "queued"} :
          /\ stream' \in [QueueNames -> Seq(Messages)]
          /\ pending' = pending \cup D
          /\ QueuedOnce'
          /\ seen' = [seen EXCEPT ![w] = @ \cup D]
          /\ status' = [m \in Messages |->
                IF m \in D THEN "lost" ELSE status[m]]
    <2>1. CASE UNCHANGED <<group, status, seen>>
        <3>1. QueuedOnce'
            BY <2>1, StreamStays
        <3>2. seen' = [seen EXCEPT ![w] = @ \cup {}]
            BY <2>1 DEF Types
        <3>3. status' = [m \in Messages |-> IF m \in {} THEN "lost" ELSE status[m]]
            BY <2>1 DEF Types
        <3>4. /\ stream' \in [QueueNames -> Seq(Messages)]
              /\ pending' = pending \cup {}
            BY <2>1 DEF Types
        <3> WITNESS {} \in SUBSET {m \in Messages : status[m] = "queued"}
        <3> QED
            BY <3>1, <3>2, <3>3, <3>4
    <2>2. CASE /\ Take(w, Delivered(w)) /\ See(w, Delivered(w))
               /\ status' = [m \in Messages |->
                     IF m \in SetOf(Delivered(w)) THEN "lost" ELSE status[m]]
        BY <2>2, TakeKeeps DEF See
    <2> QED
        BY <2>1, <2>2 DEF ReadFails
<1>3. LoopTypes'
    <2>1. seen' \in [Workers -> SUBSET Messages]
        BY <1>2 DEF Types
    <2>2. /\ total' \in [Workers -> Nat] /\ errors' \in [Workers -> Nat]
          /\ failures' \in [Workers -> Nat]
        BY <1>1 DEF Types
    <2>3. loop' \in [Workers -> Active \cup Ends]
        BY <1>1 DEF NextQueue, Types, Active
    <2>4. qi' \in [Workers -> 1..Len(Queues)]
        BY <1>1, ConsumerAssumption DEF NextQueue, Types
    <2> QED
        BY <1>1, <2>1, <2>2, <2>3, <2>4 DEF Types, LoopTypes
<1>4. status' \in [Messages -> Statuses] /\ pending' \subseteq Messages
    BY <1>2 DEF Types, Statuses
<1>5. StartedOnce'
    BY <1>1, <1>2 DEF StartedOnce
<1>6. \A m \in Messages : Progress(m)'
    <2> SUFFICES ASSUME NEW m \in Messages
                 PROVE  Progress(m)'
        OBVIOUS
    <2>1. CASE m \in D
        BY <1>1, <1>2, <2>1 DEF Progress
    <2>2. CASE m \notin D
        <3>1. /\ m \in pending => m \in pending'
              /\ out'[m] = out[m] /\ status'[m] = status[m]
            BY <1>1, <1>2, <2>2
        <3> QED
            BY <3>1 DEF Progress, Complete
    <2> QED
        BY <2>1, <2>2
<1>7. ProcessedByLoop'
    <2> SUFFICES ASSUME NEW m \in Messages, status'[m] \in Processing
                 PROVE  \E v \in Workers : Running(v, m)'
        BY DEF ProcessedByLoop
    <2>1. status[m] \in Processing
        BY <1>2 DEF Processing
    <2>2. PICK v \in Workers : Running(v, m)
        BY <2>1 DEF ProcessedByLoop
    <2>3. v # w
        BY <1>1, <2>2 DEF Running
    <2> QED
        BY <1>1, <2>2, <2>3 DEF Running, NextQueue, Types
<1>8. \A v \in Workers : \A m \in seen[v] : m \in Messages \ D
    BY <1>2 DEF SeenKept, Kept, Types, Settled, Processing
<1>9. SeenByOne'
    <2>1. \A v \in Workers : batch'[v] \subseteq seen'[v]
        BY <1>1, <1>2 DEF SeenByOne, Types
    <2>2. \A u, v \in Workers : u # v => seen'[u] \cap seen'[v] = {}
        BY <1>2, <1>8 DEF SeenByOne, Types
    <2>3. \A v \in Workers : loop'[v] \in Ends \cup {"setup"} => seen'[v] = {}
        BY <1>1, <1>2 DEF SeenByOne, Types, NextQueue, Ends
    <2> QED
        BY <2>1, <2>2, <2>3 DEF SeenByOne
<1>10. SeenKept'
    <2> SUFFICES ASSUME NEW v \in Workers, NEW m \in seen'[v]
                 PROVE  Kept(v, m)'
        BY DEF SeenKept
    <2>1. failures[v] \in Nat /\ failures'[v] \in Nat
          /\ (failures[v] > 0 => failures'[v] > 0)
        BY <1>1 DEF Types
    <2>2. CASE m \in seen[v]
        <3>1. Kept(v, m) /\ status'[m] = status[m]
            BY <1>2, <1>8, <2>2 DEF SeenKept
        <3> QED
            BY <1>1, <2>1, <3>1 DEF Kept
    <2>3. CASE m \notin seen[v]
        <3>1. v = w /\ m \in D
            BY <1>2, <2>3 DEF Types
        <3>2. status'[m] = "lost" /\ failures'[w] > 0
            BY <1>1, <1>2, <3>1 DEF Types
        <3> QED
            BY <3>1, <3>2 DEF Kept
    <2> QED
        BY <2>2, <2>3
<1> QED
    BY <1>1, <1>2, <1>3, <1>4, <1>5, <1>6, <1>7, <1>9, <1>10, InvParts
       DEF EntriesInv, Types

\* A loop is broken off: what it processed has failed or is lost, what it had
\* only read is lost.
LEMMA BreakOffKeeps ==
    ASSUME Inv, NEW w \in Workers, CutOff(Live(w)), EndLoop(w, "broken"),
           NEW new \in {"failed", "lost"},
           status' = [m \in Messages |->
               IF m \in Live(w) THEN new ELSE Dropped(w, <<>>)[m]],
           UNCHANGED <<stream, kind, starts>>
    PROVE  Inv'
<1> USE DEF Inv
<1>1. Live(w) = {m \in batch[w] : status[m] \in Processing}
    BY DEF Live
<1>2. status' = [m \in Messages |->
          IF m \in batch[w] /\ status[m] \in Processing THEN new
          ELSE IF m \in batch[w] /\ status[m] = "batched" THEN "lost"
          ELSE status[m]]
    <2>1. SetOf(<<>>) = {}
        BY DEF SetOf
    <2>2. \A m \in Messages : Dropped(w, <<>>)[m] =
              IF m \in batch[w] /\ status[m] = "batched" THEN "lost"
              ELSE status[m]
        BY <2>1 DEF Dropped
    <2> QED
        BY <1>1, <2>2
<1>3. Live(w) \in SUBSET Messages
    BY <1>1 DEF Types
<1>4. /\ out' \in [Messages -> [1..Outputs -> OutputStates]]
      /\ pending' \subseteq pending
      /\ \A u \in Messages : Complete(u) => Complete(u)'
      /\ \A u \in Messages \ Live(w) :
            out'[u] = out[u] /\ (u \in pending => u \in pending')
      /\ \A u \in Messages :
            u \in pending /\ status[u] # "acking" => u \in pending'
    BY <1>3, CutOffKeeps
<1>5. LoopTypes'
    BY EndLoopTypes DEF Ends
<1>6. status' \in [Messages -> Statuses]
    BY <1>2 DEF Types, Statuses, Settled
<1>7. \A m \in Messages : status[m] = "queued" => status'[m] = "queued"
    BY <1>2 DEF Processing
<1>8. QueuedOnce'
    BY <1>7, StreamStays
<1>9. StartedOnce'
    BY <1>2 DEF StartedOnce
<1>10. \A m \in Messages : Progress(m)'
    <2> SUFFICES ASSUME NEW m \in Messages
                 PROVE  Progress(m)'
        OBVIOUS
    <2>1. CASE m \in Live(w)
        <3>1. status'[m] \in {"failed", "lost"} /\ status[m] \in Processing
            BY <1>1, <1>2, <2>1
        <3>2. m \in pending' \/ Complete(m)'
            BY <1>4, <3>1 DEF Progress, Processing
        <3> QED
            BY <3>1, <3>2 DEF Progress
    <2>2. CASE m \notin Live(w)
        <3>1. out'[m] = out[m] /\ (m \in pending => m \in pending')
            BY <1>4, <2>2
        <3>2. CASE status'[m] = status[m]
            BY <3>1, <3>2 DEF Progress, Complete
        <3>3. CASE status'[m] # status[m]
            <4>1. status'[m] = "lost" /\ status[m] = "batched"
                BY <1>1, <1>2, <2>2, <3>3
            <4> QED
                BY <3>1, <4>1 DEF Progress
        <3> QED
            BY <3>2, <3>3
    <2> QED
        BY <2>1, <2>2
<1>11. \A m \in Messages :
           /\ status'[m] \in Processing =>
                 status'[m] = status[m] /\ m \notin batch[w]
           /\ status'[m] = status[m] \/ m \in batch[w] \/ status[m] = "queued"
    BY <1>2 DEF Processing
<1>12. ProcessedByLoop' /\ SeenByOne' /\ SeenKept'
    BY <1>11, EndLoopKeeps DEF Ends
<1> QED
    BY <1>4, <1>5, <1>6, <1>8, <1>9, <1>10, <1>12, InvParts
       DEF EntriesInv, Types

LEMMA OrphanInv ==
    ASSUME Inv, NEW m \in Messages, NEW o \in 1..Outputs,
           NEW how \in {"written", "failed"}, OrphanWriteEnds(m, o, how)
    PROVE  Inv'
BY OutputKeeps DEF OrphanWriteEnds

LEMMA InitInv == Init => Inv
<1> SUFFICES ASSUME Init
             PROVE  Inv
    OBVIOUS
<1>1. 1 \in 1..Len(Queues) /\ 0 \in 0..BatchSize
    BY ConsumerAssumption
<1>2. /\ stream \in [QueueNames -> Seq(Messages)]
      /\ \A q \in QueueNames : Len(stream[q]) = 0
    BY EmptySeq DEF Init
<1>3. Types
    <2>1. out \in [Messages -> [1..Outputs -> OutputStates]]
        BY DEF Init, OutputStates
    <2>2. /\ kind \in [Messages -> Kinds] /\ status \in [Messages -> Statuses]
          /\ loop \in [Workers -> Active \cup Ends]
        BY DEF Init, Kinds, Statuses, Ends
    <2> QED
        BY <1>1, <1>2, <2>1, <2>2 DEF Init, Types
<1>4. QueuedOnce
    BY <1>2 DEF QueuedOnce
<1>5. ProcessedByLoop /\ StartedOnce /\ \A m \in Messages : Progress(m)
    BY DEF Init, ProcessedByLoop, StartedOnce, Progress, Processing
<1>6. SeenByOne /\ SeenKept
    BY DEF Init, SeenByOne, SeenKept
<1> QED
    BY <1>3, <1>4, <1>5, <1>6 DEF Inv

LEMMA StutterInv == Inv /\ UNCHANGED vars => Inv'
BY DEF vars, Inv, Types, ProcessedByLoop, QueuedOnce, StartedOnce, Progress,
       Complete, SeenByOne, SeenKept, Kept, Running

LEMMA NextInv == Inv /\ [Next]_vars => Inv'
<1> SUFFICES ASSUME Inv, Next
             PROVE  Inv'
    BY StutterInv
<1>1. ASSUME NEW m \in Messages, NEW q \in QueueNames, NEW k \in Kinds,
             Publish(m, q, k)
      PROVE  Inv'
    BY <1>1, PublishInv
<1>2. ASSUME NEW w \in Workers, NEW max \in Limits, NEW swe \in BOOLEAN,
             StartLoop(w, max, swe)
      PROVE  Inv'
    BY <1>2, StartLoopInv
<1>3. ASSUME NEW w \in Workers,
             SignalStop(w) \/ Setup(w) \/ ReadReturns(w) \/ ReadFails(w)
                 \/ EndCycle(w)
      PROVE  Inv'
    BY <1>3, SignalStopInv, SetupInv, ReadInv, ReadRaisesInv, ReadFailsInv,
       EndCycleInv DEF ReadReturns
<1>4. ASSUME NEW w \in Workers, Cancel(w) \/ Crash(w)
      PROVE  Inv'
    BY <1>4, BreakOffKeeps DEF Cancel, Crash
<1>5. ASSUME NEW w \in Workers, NEW m \in Messages, Event(w, m)
      PROVE  Inv'
    BY <1>5, EventInv
<1>6. ASSUME NEW m \in Messages, NEW o \in 1..Outputs,
             NEW how \in {"written", "failed"}, OrphanWriteEnds(m, o, how)
      PROVE  Inv'
    BY <1>6, OrphanInv
<1> QED
    BY <1>1, <1>2, <1>3, <1>4, <1>5, <1>6 DEF Next

LEMMA SafetyInv == Safety => []Inv
BY InitInv, NextInv, PTL DEF Safety

-----------------------------------------------------------------------------
(* A normal end                                                            *)

\* A loop ends by itself in its setup, when it has read nothing, or at the end
\* of a cycle, when its whole batch is settled.
LEMMA NormalEnd ==
    ASSUME Inv, [Next]_vars, NEW w \in Workers, loop[w] \in Active,
           loop'[w] = "ended", NEW m \in seen[w]
    PROVE  status[m] \in Settled \/ (status[m] = "lost" /\ failures[w] > 0)
<1> loop \in [Workers -> Active \cup Ends]
    BY DEF Inv, Types
<1>1. loop[w] # "ended"
    BY DEF Active
<1>2. CASE Setup(w)
    BY <1>2 DEF Setup, Inv, SeenByOne
<1>3. CASE EndCycle(w)
    <2>1. Kept(w, m) /\ \A u \in batch[w] : status[u] \in Settled
        BY <1>3 DEF EndCycle, Inv, SeenKept
    <2> QED
        BY <2>1 DEF Kept
<1>4. ASSUME NEW v \in Workers, v # w, Setup(v) \/ EndCycle(v)
      PROVE  FALSE
    BY <1>1, <1>4 DEF Setup, EndCycle, NextCycle, EndLoop
<1>5. ASSUME NEW v \in Workers,
             ReadReturns(v) \/ ReadFails(v) \/ Cancel(v) \/ Crash(v)
      PROVE  FALSE
    BY <1>1, <1>5
       DEF ReadReturns, Read, ReadRaises, ReadFails, Cancel, Crash, NextQueue,
           EndLoop
<1>6. ASSUME NEW v \in Workers, NEW u \in Messages, Event(v, u)
      PROVE  FALSE
    BY <1>1, <1>6
       DEF Event, Settle, Start, Flush, StepFails, FlushDone, Executed,
           Timeout, Ack, OutputWritten, OutputFails, To
<1>7. ASSUME NEW v \in Workers,
             \/ SignalStop(v)
             \/ \E max \in Limits, swe \in BOOLEAN : StartLoop(v, max, swe)
      PROVE  FALSE
    BY <1>1, <1>7 DEF SignalStop, StartLoop
<1>8. ASSUME \/ \E u \in Messages, q \in QueueNames, k \in Kinds :
                    Publish(u, q, k)
             \/ \E u \in Messages, o \in 1..Outputs,
                   how \in {"written", "failed"} : OrphanWriteEnds(u, o, how)
             \/ UNCHANGED vars
      PROVE  FALSE
    BY <1>1, <1>8 DEF Publish, OrphanWriteEnds, vars
<1> QED
    BY <1>2, <1>3, <1>4, <1>5, <1>6, <1>7, <1>8 DEF Next

-----------------------------------------------------------------------------
(* The theorems                                                            *)

\* Every variable always has its type, and only a loop that is processing
\* processes (read_stream).
THEOREM TypeCorrect == Safety => []TypeOK
<1>1. Inv => TypeOK
    BY DEF Inv, Types, ProcessedByLoop, TypeOK
<1> QED
    BY <1>1, SafetyInv, PTL

\* Whatever fails, times out, is cancelled or crashes: an entry that is not
\* pending any more has all its outputs written (_execute_event,
\* _process_stream_event).
THEOREM AcknowledgedComplete == Safety => []AcknowledgedIsComplete
<1>1. Inv => AcknowledgedIsComplete
    BY DEF Inv, Progress, Complete, AcknowledgedIsComplete, Acknowledged
<1> QED
    BY <1>1, SafetyInv, PTL

\* Any number of consumers of a group, started again as often as one likes,
\* handle an entry at most once (read_stream).
THEOREM AtMostOnce == Safety => []HandledAtMostOnce
<1>1. Inv => HandledAtMostOnce
    BY DEF Inv, StartedOnce, HandledAtMostOnce
<1> QED
    BY <1>1, SafetyInv, PTL

\* A loop that ends by itself has dealt with every entry it was given
\* (read_stream).
THEOREM NothingLeftBehind == Safety => NormalEndLosesNothing
<1>1. Inv /\ [Next]_vars =>
          [\A w \in Workers : loop[w] \in Active /\ loop'[w] = "ended" =>
              \A m \in seen[w] :
                 \/ status[m] \in Settled
                 \/ status[m] = "lost" /\ failures[w] > 0]_vars
    BY NormalEnd
<1> QED
    BY <1>1, SafetyInv, PTL DEF Safety, NormalEndLosesNothing

-----------------------------------------------------------------------------
(* The numbers: the statistics are exact and max_events is overshot by no  *)
(* more than a batch for each further queue.  This rests on the invariant  *)
(* above: what was delivered to one loop nobody else counts.  The bound    *)
(* needs what a cycle may still count: the undone part of its batch, and   *)
(* one more read of each queue that is left.                               *)

InError == {"failed", "unknown"}
Undone(w) == {m \in batch[w] : status[m] \notin Settled}

\* StatsAreExact in any state of a loop; a loop starts from nothing.
CountedOnce(w) ==
    /\ IsFiniteSet(seen[w])
    /\ loop[w] \in Ends \cup {"setup"} => total[w] = 0 /\ errors[w] = 0 /\ failures[w] = 0
    /\ total[w] = failures[w] + Consumed(w, Settled)
    /\ errors[w] = failures[w] + Consumed(w, InError)

\* How many queues of this cycle were read.
QueuesRead(w) == IF loop[w] = "reading" THEN qi[w] - 1 ELSE Len(Queues)

\* At its first read a cycle has `limit` events left, and each read may add as
\* many (remaining and batch_size in read_stream).
WithinLimit(w) ==
    loop[w] \in {"reading", "processing"} /\ max_events[w] > 0 =>
        /\ limit[w] \in 1..Lesser(max_events[w], BatchSize)
        /\ total[w] + Cardinality(Undone(w)) + limit[w]
              <= max_events[w] + QueuesRead(w) * limit[w]

Counts == \A w \in Workers : CountedOnce(w) /\ WithinLimit(w)

-----------------------------------------------------------------------------
(* Lemmas about the numbers                                                *)

\* What the proof needs of the types of the numbers of a loop.
LEMMA Numbers ==
    ASSUME Types, NEW w \in Workers
    PROVE  /\ total[w] \in Nat /\ errors[w] \in Nat /\ failures[w] \in Nat
           /\ limit[w] \in Nat /\ limit[w] <= BatchSize /\ max_events[w] \in Nat
           /\ qi[w] \in 1..Len(Queues) /\ Len(Queues) \in Nat \ {0} /\ BatchSize \in Nat \ {0}
           /\ seen[w] \subseteq Messages /\ batch[w] \subseteq Messages
<1>1. Limits \cup {0} \subseteq Nat
    BY ConsumerAssumption
<1>2. max_events[w] \in Limits \cup {0}
    BY DEF Types
<1>3. max_events[w] \in Nat
    BY <1>1, <1>2
<1> QED
    BY <1>3, ConsumerAssumption DEF Types

\* The entries of a loop that are in a set of states are a finite number.
LEMMA ConsumedType ==
    ASSUME NEW w, IsFiniteSet(seen[w]), NEW ss
    PROVE  /\ IsFiniteSet({m \in seen[w] : status[m] \in ss})
           /\ Consumed(w, ss) \in Nat
<1>1. {m \in seen[w] : status[m] \in ss} \in SUBSET seen[w]
    OBVIOUS
<1> QED
    BY <1>1, FS_Subset, FS_CardinalityType DEF Consumed

\* One read delivers at most `limit` entries.
LEMMA DeliveredIsBounded ==
    ASSUME Types, NEW w \in Workers
    PROVE  /\ IsFiniteSet(SetOf(Delivered(w)))
           /\ Cardinality(SetOf(Delivered(w))) <= limit[w]
           /\ Cardinality(SetOf(Delivered(w))) \in Nat
<1> DEFINE s == stream[Queues[qi[w]]]
           k == Lesser(limit[w], Len(s))
           d == Delivered(w)
<1>1. s \in Seq(Messages)
    BY CurrentQueue DEF Types
<1>2. k \in 0..Len(s) /\ Len(s) \in Nat /\ k <= limit[w] /\ limit[w] \in Nat
    BY <1>1, Numbers DEF Lesser
<1>3. d = SubSeq(s, 1, k)
    BY DEF Delivered
<1> HIDE DEF k, s
<1>4. d \in Seq(Messages) /\ Len(d) = k /\ k \in Nat
    BY <1>1, <1>2, <1>3, SubSeqProperties
<1> HIDE DEF d
<1>5. DOMAIN d = 1..k /\ d \in [1..k -> SetOf(d)]
    BY <1>4 DEF SetOf
<1>6. d \in Surjection(1..k, SetOf(d))
    BY <1>5 DEF SetOf, Surjection
<1>7. ExistsSurjection(1..k, SetOf(d))
    BY <1>6 DEF ExistsSurjection
<1>8. IsFiniteSet(SetOf(d)) /\ Cardinality(SetOf(d)) <= k
    BY <1>4, <1>7, FS_NatSurjection, FS_SurjCardinalityBound
<1>9. Cardinality(SetOf(d)) \in Nat
    BY <1>8, FS_CardinalityType
<1> QED
    BY <1>2, <1>8, <1>9 DEF d

\* A loop that does not move, while none of its entries is settled.
Aside(w) ==
    /\ qi'[w] = qi[w] /\ batch'[w] = batch[w] /\ limit'[w] = limit[w] /\ seen'[w] = seen[w]
    /\ total'[w] = total[w] /\ errors'[w] = errors[w] /\ failures'[w] = failures[w]
    /\ \/ loop'[w] = loop[w] /\ max_events'[w] = max_events[w]
       \/ loop[w] \in Ends /\ loop'[w] = "setup"

LEMMA AsideCounts ==
    ASSUME Inv, NEW w \in Workers, CountedOnce(w), WithinLimit(w), Aside(w),
           \A m \in seen[w] : \/ status'[m] = status[m]
                              \/ status[m] \notin Settled /\ status'[m] \notin Settled
    PROVE  CountedOnce(w)' /\ WithinLimit(w)'
<1> USE DEF Aside
<1>1. /\ {m \in seen'[w] : status'[m] \in Settled} = {m \in seen[w] : status[m] \in Settled}
      /\ {m \in seen'[w] : status'[m] \in InError} = {m \in seen[w] : status[m] \in InError}
    BY DEF InError, Settled
<1>2. Consumed(w, Settled)' = Consumed(w, Settled) /\ Consumed(w, InError)' = Consumed(w, InError)
    BY <1>1 DEF Consumed
<1>3. Undone(w)' = Undone(w)
    BY DEF Undone, Inv, SeenByOne
<1>4. CountedOnce(w)'
    BY <1>2 DEF CountedOnce
<1>5. WithinLimit(w)'
    BY <1>3 DEF WithinLimit, QueuesRead
<1> QED
    BY <1>4, <1>5

\* What one loop does is nothing to the numbers of the others.
LEMMA OthersCount ==
    ASSUME Inv, Counts, NEW w \in Workers, NEW v \in Workers \ {w}, Aside(v),
           \A m \in Messages : \/ status'[m] = status[m]
                               \/ m \in batch[w]
                               \/ status[m] \in {"unborn", "queued"}
    PROVE  CountedOnce(v)' /\ WithinLimit(v)'
<1>1. ASSUME NEW m \in seen[v]
      PROVE  status'[m] = status[m]
    <2>1. m \in Messages /\ m \notin batch[w]
        BY DEF Inv, Types, SeenByOne
    <2>2. status[m] \notin {"unborn", "queued"}
        BY DEF Inv, SeenKept, Kept, Settled, Processing
    <2> QED
        BY <2>1, <2>2
<1> QED
    BY <1>1, AsideCounts DEF Counts

\* A loop that ends has no numbers any more.
LEMMA EndCounts ==
    ASSUME Inv, NEW w \in Workers, NEW how \in Ends, EndLoop(w, how)
    PROVE  /\ CountedOnce(w)' /\ WithinLimit(w)'
           /\ \A v \in Workers \ {w} : Aside(v)
<1>1. /\ loop'[w] = how /\ total'[w] = 0 /\ errors'[w] = 0 /\ failures'[w] = 0 /\ seen'[w] = {}
      /\ \A v \in Workers \ {w} : Aside(v)
    BY DEF Inv, Types, EndLoop, Aside
<1>2. IsFiniteSet({}) /\ Cardinality({}) = 0
    BY FS_EmptySet
<1>3. \A ss : {m \in seen'[w] : status'[m] \in ss} = {}
    BY <1>1
<1>4. Consumed(w, Settled)' = 0 /\ Consumed(w, InError)' = 0
    BY <1>2, <1>3 DEF Consumed
<1>5. CountedOnce(w)'
    BY <1>1, <1>2, <1>4 DEF CountedOnce
<1>6. WithinLimit(w)'
    BY <1>1 DEF WithinLimit, Ends
<1> QED
    BY <1>1, <1>5, <1>6

\* A cycle begins with the events that are left and nothing undone.
LEMMA CycleCounts ==
    ASSUME Inv, NEW w \in Workers, CountedOnce(w), NextCycle(w), UNCHANGED status,
           loop[w] \in {"setup", "processing"}
    PROVE  /\ CountedOnce(w)' /\ WithinLimit(w)'
           /\ \A v \in Workers \ {w} : Aside(v)
<1>1. CASE ~GoesOn(w)
    BY <1>1, EndCounts DEF NextCycle, Ends
<1>2. CASE GoesOn(w)
    <2> DEFINE next == IF max_events[w] > 0
                         THEN Lesser(max_events[w] - total[w], BatchSize)
                         ELSE BatchSize
    <2>1. /\ loop' = [loop EXCEPT ![w] = "reading"]
          /\ qi' = [qi EXCEPT ![w] = 1]
          /\ batch' = [batch EXCEPT ![w] = {}]
          /\ limit' = [limit EXCEPT ![w] = next]
          /\ UNCHANGED <<held, args, stats, seen>>
        BY <1>2, Zenon DEF NextCycle
    <2>2. /\ loop'[w] = "reading" /\ qi'[w] = 1 /\ batch'[w] = {} /\ limit'[w] = next
          /\ \A v \in Workers \ {w} : Aside(v)
        BY <2>1 DEF Inv, Types, Aside
    <2>3. /\ total[w] \in Nat /\ max_events[w] \in Nat /\ BatchSize \in Nat \ {0}
          /\ max_events[w] > 0 => total[w] < max_events[w]
        BY <1>2, Numbers DEF Inv, GoesOn
    <2>4. CountedOnce(w)'
        BY <2>1, <2>2 DEF CountedOnce, Consumed, Ends
    <2>5. Undone(w)' = {} /\ Cardinality({}) = 0
        BY <2>2, FS_EmptySet DEF Undone
    <2>6. ASSUME max_events[w] > 0
          PROVE  /\ next \in 1..Lesser(max_events[w], BatchSize)
                 /\ total[w] + 0 + next <= max_events[w] + (1 - 1) * next
        BY <2>3, <2>6 DEF Lesser
    <2> HIDE DEF next
    <2>7. QueuesRead(w)' = 1 - 1
        BY <2>2 DEF QueuesRead
    <2>8. total'[w] = total[w] /\ max_events'[w] = max_events[w]
        BY <2>1
    <2>9. WithinLimit(w)'
        BY <2>2, <2>5, <2>6, <2>7, <2>8 DEF WithinLimit
    <2> QED
        BY <2>2, <2>4, <2>9
<1> QED
    BY <1>1, <1>2

\* An event of the batch is settled and counted.
LEMMA SettledCounts ==
    ASSUME Inv, Counts, NEW w \in Workers, NEW m \in Messages, Running(w, m),
           status[m] \notin Settled, NEW new \in {"done", "failed"}, To(m, new),
           Count(w, new = "failed")
    PROVE  Counts'
<1> USE DEF Inv, To
<1>1. m \in batch[w] /\ m \in seen[w] /\ loop[w] = "processing" /\ batch[w] \subseteq seen[w]
    BY DEF Running, SeenByOne
<1>2. /\ status' = [status EXCEPT ![m] = new] /\ status'[m] = new /\ new \in Settled
      /\ \A u \in Messages \ {m} : status'[u] = status[u]
    BY DEF Types, Settled
<1>3. /\ total'[w] = total[w] + 1
      /\ errors'[w] = IF new = "failed" THEN errors[w] + 1 ELSE errors[w]
      /\ \A v \in Workers \ {w} : total'[v] = total[v] /\ errors'[v] = errors[v]
    BY DEF Types, Count
<1>4. ASSUME NEW v \in Workers \ {w}
      PROVE  CountedOnce(v)' /\ WithinLimit(v)'
    <2>1. Aside(v)
        BY <1>3 DEF Aside
    <2> QED
        BY <1>1, <1>2, <2>1, OthersCount
<1>5. CountedOnce(w) /\ WithinLimit(w) /\ IsFiniteSet(seen[w])
    BY DEF Counts, CountedOnce
<1>6. seen[w] \subseteq Messages /\ total[w] \in Nat /\ errors[w] \in Nat /\ failures[w] \in Nat
    BY Numbers
<1>7. Consumed(w, Settled)' = Consumed(w, Settled) + 1
    <2> DEFINE old == {u \in seen[w] : status[u] \in Settled}
    <2>1. {u \in seen'[w] : status'[u] \in Settled} = old \cup {m} /\ m \notin old
        BY <1>1, <1>2, <1>6
    <2>2. IsFiniteSet(old)
        BY <1>5, ConsumedType
    <2>3. Cardinality(old \cup {m}) = Cardinality(old) + 1
        BY <2>1, <2>2, FS_AddElement
    <2>4. Consumed(w, Settled)' = Cardinality(old \cup {m}) /\ Consumed(w, Settled) = Cardinality(old)
        BY <2>1 DEF Consumed
    <2> QED
        BY <2>3, <2>4
<1>8. Consumed(w, InError)' = IF new = "failed" THEN Consumed(w, InError) + 1
                                                ELSE Consumed(w, InError)
    <2> DEFINE old == {u \in seen[w] : status[u] \in InError}
    <2>1. m \notin old
        BY DEF InError, Settled
    <2>2. IsFiniteSet(old)
        BY <1>5, ConsumedType
    <2>3. CASE new = "failed"
        <3>1. {u \in seen'[w] : status'[u] \in InError} = old \cup {m}
            BY <1>1, <1>2, <1>6, <2>3 DEF InError
        <3>2. Cardinality(old \cup {m}) = Cardinality(old) + 1
            BY <2>1, <2>2, FS_AddElement
        <3>3. /\ Consumed(w, InError)' = Cardinality(old \cup {m})
              /\ Consumed(w, InError) = Cardinality(old)
            BY <3>1 DEF Consumed
        <3> QED
            BY <2>3, <3>2, <3>3
    <2>4. CASE new # "failed"
        <3>1. {u \in seen'[w] : status'[u] \in InError} = old
            BY <1>1, <1>2, <1>6, <2>1, <2>4 DEF InError
        <3> QED
            BY <2>4, <3>1 DEF Consumed
    <2> QED
        BY <2>3, <2>4
<1>9. CountedOnce(w)'
    <2>1. Consumed(w, Settled) \in Nat /\ Consumed(w, InError) \in Nat
        BY <1>5, ConsumedType
    <2> QED
        BY <1>1, <1>3, <1>5, <1>6, <1>7, <1>8, <2>1 DEF CountedOnce, Ends
<1>10. WithinLimit(w)'
    <2>1. Undone(w)' = Undone(w) \ {m} /\ m \in Undone(w)
        BY <1>1, <1>2, <1>6 DEF Undone
    <2>2. IsFiniteSet(Undone(w))
        <3>1. Undone(w) \in SUBSET seen[w]
            BY <1>1 DEF Undone
        <3> QED
            BY <1>5, <3>1, FS_Subset
    <2>3. Cardinality(Undone(w)') = Cardinality(Undone(w)) - 1 /\ Cardinality(Undone(w)) \in Nat
        <3> DEFINE u == Undone(w)
        <3>1. Undone(w)' = u \ {m} /\ m \in u /\ IsFiniteSet(u)
            BY <2>1, <2>2
        <3> HIDE DEF u
        <3>2. Cardinality(u \ {m}) = Cardinality(u) - 1 /\ Cardinality(u) \in Nat
            BY <3>1, FS_RemoveElement, FS_CardinalityType
        <3> QED
            BY <3>1, <3>2 DEF u
    <2>4. total'[w] + Cardinality(Undone(w)') = total[w] + Cardinality(Undone(w))
        BY <1>3, <1>6, <2>3
    <2>5. QueuesRead(w)' = QueuesRead(w)
        BY DEF QueuesRead
    <2> QED
        BY <1>5, <2>4, <2>5 DEF WithinLimit
<1> QED
    BY <1>4, <1>9, <1>10 DEF Counts

\* An event goes on without being settled.
LEMMA UnsettledCounts ==
    ASSUME Inv, Counts, NEW w \in Workers, NEW m \in Messages,
           status[m] \notin Settled, NEW new \in Processing, To(m, new),
           UNCHANGED <<total, errors>>
    PROVE  Counts'
<1> USE DEF To
<1>1. ASSUME NEW v \in Workers
      PROVE  CountedOnce(v)' /\ WithinLimit(v)'
    <2>1. Aside(v)
        BY DEF Aside
    <2>2. \A u \in seen[v] : \/ status'[u] = status[u]
                             \/ status[u] \notin Settled /\ status'[u] \notin Settled
        <3>1. status'[m] = new /\ \A u \in Messages \ {m} : status'[u] = status[u]
            BY DEF Inv, Types
        <3>2. seen[v] \subseteq Messages /\ new \notin Settled
            BY DEF Inv, Types, Settled, Processing
        <3> QED
            BY <3>1, <3>2
    <2> QED
        BY <2>1, <2>2, AsideCounts DEF Counts
<1> QED
    BY <1>1 DEF Counts

\* A read of one queue adds at most `limit` to what the cycle may count.
LEMMA QueueIsRead ==
    ASSUME Inv, NEW w \in Workers, WithinLimit(w), loop[w] = "reading",
           loop'[w] = IF qi[w] < Len(Queues) THEN "reading" ELSE "processing",
           qi'[w] = IF qi[w] < Len(Queues) THEN qi[w] + 1 ELSE 1,
           limit'[w] = limit[w], max_events'[w] = max_events[w],
           NEW n \in Nat, n <= limit[w] \/ limit[w] = 0,
           total'[w] \in Nat, total[w] \in Nat,
           Cardinality(Undone(w)') \in Nat, Cardinality(Undone(w)) \in Nat,
           total'[w] + Cardinality(Undone(w)') = total[w] + Cardinality(Undone(w)) + n
    PROVE  WithinLimit(w)'
<1> SUFFICES ASSUME max_events[w] > 0
             PROVE  /\ limit[w] \in 1..Lesser(max_events[w], BatchSize)
                    /\ total'[w] + Cardinality(Undone(w)') + limit[w]
                          <= max_events[w] + QueuesRead(w)' * limit[w]
    BY DEF WithinLimit
<1>1. /\ limit[w] \in Nat /\ max_events[w] \in Nat /\ qi[w] \in 1..Len(Queues)
      /\ Len(Queues) \in Nat \ {0}
    BY Numbers DEF Inv
<1>2. /\ limit[w] \in 1..Lesser(max_events[w], BatchSize)
      /\ total[w] + Cardinality(Undone(w)) + limit[w] <= max_events[w] + (qi[w] - 1) * limit[w]
    BY DEF WithinLimit, QueuesRead
<1>3. QueuesRead(w)' = qi[w]
    BY <1>1 DEF QueuesRead
<1>4. \A a \in Nat, b \in Nat : a * b = (a - 1) * b + b
    OBVIOUS
<1>5. qi[w] * limit[w] = (qi[w] - 1) * limit[w] + limit[w]
    BY <1>1, <1>4
<1> DEFINE before == (qi[w] - 1) * limit[w]
           after == qi[w] * limit[w]
<1>6. before \in Int /\ after \in Int
    BY <1>1
<1> HIDE DEF before, after
<1>7. total[w] + Cardinality(Undone(w)) + limit[w] <= max_events[w] + before
    BY <1>2 DEF before
<1>8. after = before + limit[w] /\ limit[w] # 0
    BY <1>1, <1>2, <1>5 DEF before, after
<1>9. total'[w] + Cardinality(Undone(w)') + limit[w] <= max_events[w] + after
    <2>1. n <= limit[w]
        BY <1>8
    <2> DEFINE t == total[w]
               u == Cardinality(Undone(w))
               l == limit[w]
               m == max_events[w]
               rest == before + l
    <2>2. t \in Int /\ u \in Int /\ l \in Int /\ m \in Int /\ rest \in Int
        BY <1>1, <1>6
    <2>3. t + u + l <= m + before /\ n <= l
        BY <1>7, <2>1
    <2>4. total'[w] + Cardinality(Undone(w)') = t + u + n /\ after = rest
        BY <1>8
    <2> HIDE DEF t, u, l, m
    <2>5. (t + u + n) + l <= m + (before + l)
        BY <1>6, <2>2, <2>3
    <2> QED
        BY <2>4, <2>5 DEF l, m
<1> QED
    BY <1>2, <1>3, <1>9 DEF after

\* A read counts what it delivers, once.
LEMMA ReadCounts ==
    ASSUME Inv, Counts, NEW w \in Workers, Read(w)
    PROVE  Counts'
<1> DEFINE D == SetOf(Delivered(w))
           bad == {m \in D : kind[m] = "unknown"}
<1> USE DEF Inv
<1>1. /\ loop[w] = "reading"
      /\ Take(w, Delivered(w)) /\ seen' = [seen EXCEPT ![w] = @ \cup D]
      /\ status' = [m \in Messages |->
             IF m \notin D THEN status[m]
             ELSE IF m \in bad THEN "unknown" ELSE "batched"]
      /\ batch' = [batch EXCEPT ![w] = @ \cup (D \ bad)]
      /\ total' = [total EXCEPT ![w] = @ + Cardinality(bad)]
      /\ errors' = [errors EXCEPT ![w] = @ + Cardinality(bad)]
      /\ NextQueue(w)
      /\ UNCHANGED <<kind, starts, out, held, limit, args, failures>>
    BY DEF Read, See
<1>2. D \subseteq {m \in Messages : status[m] = "queued"}
    BY <1>1, TakeKeeps
<1>3. IsFiniteSet(D) /\ Cardinality(D) <= limit[w] /\ Cardinality(D) \in Nat
    BY DeliveredIsBounded
<1>4. bad \subseteq D
    OBVIOUS
<1> HIDE DEF D, bad
<1>5. /\ IsFiniteSet(bad) /\ Cardinality(bad) \in Nat
      /\ IsFiniteSet(D \ bad) /\ Cardinality(D \ bad) \in Nat
      /\ Cardinality(D) = Cardinality(bad) + Cardinality(D \ bad)
    <2>1. IsFiniteSet(bad) /\ IsFiniteSet(D \ bad)
        BY <1>3, <1>4, FS_Subset
    <2>2. bad \cup (D \ bad) = D /\ bad \cap (D \ bad) = {}
        BY <1>4
    <2>3. Cardinality(D) = Cardinality(bad) + Cardinality(D \ bad) - Cardinality({})
        BY <2>1, <2>2, FS_Union
    <2> QED
        BY <2>1, <2>3, FS_EmptySet, FS_CardinalityType
<1>6. /\ seen'[w] = seen[w] \cup D /\ batch'[w] = batch[w] \cup (D \ bad)
      /\ total'[w] = total[w] + Cardinality(bad) /\ errors'[w] = errors[w] + Cardinality(bad)
      /\ failures'[w] = failures[w] /\ limit'[w] = limit[w] /\ max_events'[w] = max_events[w]
      /\ loop'[w] = IF qi[w] < Len(Queues) THEN "reading" ELSE "processing"
      /\ qi'[w] = IF qi[w] < Len(Queues) THEN qi[w] + 1 ELSE 1
      /\ \A v \in Workers \ {w} : Aside(v)
    BY <1>1 DEF Types, NextQueue, Aside
<1>7. \A v \in Workers \ {w} : CountedOnce(v)' /\ WithinLimit(v)'
    BY <1>1, <1>2, <1>6, OthersCount
<1>8. /\ seen[w] \subseteq Messages /\ batch[w] \subseteq seen[w] /\ D \subseteq Messages
      /\ \A m \in seen[w] : m \notin D
      /\ \A m \in seen[w] : status'[m] = status[m]
      /\ \A m \in bad : status'[m] = "unknown"
      /\ \A m \in D \ bad : status'[m] = "batched"
    <2>1. seen[w] \subseteq Messages /\ batch[w] \subseteq seen[w] /\ D \subseteq Messages
        BY <1>2 DEF Types, SeenByOne
    <2>2. \A m \in seen[w] : m \notin D
        BY <1>2 DEF SeenKept, Kept, Settled, Processing
    <2> QED
        BY <1>1, <1>4, <2>1, <2>2
<1>9. CountedOnce(w) /\ WithinLimit(w) /\ IsFiniteSet(seen[w])
    BY DEF Counts, CountedOnce
<1>10. ASSUME NEW ss, "unknown" \in ss, "batched" \notin ss
       PROVE  Consumed(w, ss)' = Consumed(w, ss) + Cardinality(bad) /\ Consumed(w, ss) \in Nat
    <2> DEFINE old == {m \in seen[w] : status[m] \in ss}
    <2>1. {m \in seen'[w] : status'[m] \in ss} = old \cup bad /\ old \cap bad = {}
        BY <1>4, <1>6, <1>8, <1>10
    <2>2. IsFiniteSet(old) /\ Cardinality(old) \in Nat
        BY <1>9, ConsumedType, FS_CardinalityType
    <2>3. Consumed(w, ss)' = Cardinality(old \cup bad) /\ Consumed(w, ss) = Cardinality(old)
        BY <2>1 DEF Consumed
    <2> HIDE DEF old
    <2>4. Cardinality(old \cup bad) = Cardinality(old) + Cardinality(bad) - Cardinality({})
        BY <1>5, <2>1, <2>2, FS_Union
    <2> QED
        BY <1>5, <2>2, <2>3, <2>4, FS_EmptySet
<1>11. total[w] \in Nat /\ errors[w] \in Nat /\ failures[w] \in Nat
    BY Numbers
<1> HIDE DEF Inv
<1>12. CountedOnce(w)'
    <2>1. "unknown" \in Settled /\ "batched" \notin Settled /\ "unknown" \in InError /\ "batched" \notin InError
        BY DEF Settled, InError
    <2>2. /\ Consumed(w, Settled)' = Consumed(w, Settled) + Cardinality(bad)
          /\ Consumed(w, InError)' = Consumed(w, InError) + Cardinality(bad)
          /\ Consumed(w, Settled) \in Nat /\ Consumed(w, InError) \in Nat
        BY <1>10, <2>1
    <2>3. seen'[w] = seen[w] \cup D /\ IsFiniteSet(seen[w]) /\ IsFiniteSet(D)
        BY <1>3, <1>6, <1>9
    <2>4. IsFiniteSet(seen'[w])
        BY <2>3, FS_Union
    <2>5. loop'[w] \notin Ends \cup {"setup"}
        BY <1>6 DEF Ends
    <2>6. total[w] = failures[w] + Consumed(w, Settled) /\ errors[w] = failures[w] + Consumed(w, InError)
        BY <1>9 DEF CountedOnce
    <2>7. /\ total'[w] = total[w] + Cardinality(bad) /\ errors'[w] = errors[w] + Cardinality(bad)
          /\ failures'[w] = failures[w] /\ Cardinality(bad) \in Nat
        BY <1>5, <1>6
    <2>8. /\ total'[w] = failures'[w] + Consumed(w, Settled)'
          /\ errors'[w] = failures'[w] + Consumed(w, InError)'
        BY <1>11, <2>2, <2>6, <2>7
    <2> QED
        BY <2>4, <2>5, <2>8 DEF CountedOnce
<1>13. /\ Cardinality(Undone(w)') = Cardinality(Undone(w)) + Cardinality(D \ bad)
       /\ Cardinality(Undone(w)) \in Nat
    <2> DEFINE old == Undone(w)
    <2>1. Undone(w)' = old \cup (D \ bad) /\ old \cap (D \ bad) = {} /\ old \in SUBSET seen[w]
        BY <1>4, <1>6, <1>8 DEF Undone, Settled
    <2> HIDE DEF old
    <2>2. IsFiniteSet(old) /\ Cardinality(old) \in Nat
        BY <1>9, <2>1, FS_Subset, FS_CardinalityType
    <2>3. Cardinality(old \cup (D \ bad)) = Cardinality(old) + Cardinality(D \ bad) - Cardinality({})
        BY <1>5, <2>1, <2>2, FS_Union
    <2> QED
        BY <1>5, <2>1, <2>2, <2>3, FS_EmptySet DEF old
<1>14. WithinLimit(w)'
    <2>1. total'[w] \in Nat /\ Cardinality(Undone(w)') \in Nat
        BY <1>5, <1>6, <1>11, <1>13
    <2>2. total'[w] + Cardinality(Undone(w)') = total[w] + Cardinality(Undone(w)) + Cardinality(D)
        BY <1>5, <1>6, <1>11, <1>13
    <2> QED
        BY <1>1, <1>3, <1>6, <1>9, <1>11, <1>13, <2>1, <2>2, QueueIsRead
<1> QED
    BY <1>7, <1>12, <1>14 DEF Counts

\* A failed read counts one event, and its entries are not the loop's to count.
LEMMA FailedReadCounts ==
    ASSUME Inv, Counts, NEW w \in Workers, ReadFails(w)
    PROVE  Counts'
<1> USE DEF Inv
<1>1. /\ loop[w] = "reading" /\ NextQueue(w)
      /\ failures' = [failures EXCEPT ![w] = @ + 1]
      /\ total' = [total EXCEPT ![w] = @ + 1]
      /\ errors' = [errors EXCEPT ![w] = @ + 1]
      /\ UNCHANGED <<kind, starts, out, held, batch, limit, args>>
    BY DEF ReadFails
<1>2. PICK D \in SUBSET {m \in Messages : status[m] = "queued"} :
          /\ IsFiniteSet(D)
          /\ seen' = [seen EXCEPT ![w] = @ \cup D]
          /\ status' = [m \in Messages |-> IF m \in D THEN "lost" ELSE status[m]]
    <2>1. CASE UNCHANGED <<group, status, seen>>
        <3> DEFINE queued == {m \in Messages : status[m] = "queued"}
        <3>1. /\ IsFiniteSet({}) /\ {} \in SUBSET queued
              /\ seen' = [seen EXCEPT ![w] = @ \cup {}]
              /\ status' = [m \in Messages |-> IF m \in {} THEN "lost" ELSE status[m]]
            BY <2>1, FS_EmptySet DEF Types
        <3> HIDE DEF queued
        <3>2. \E d \in SUBSET queued :
                 /\ IsFiniteSet(d)
                 /\ seen' = [seen EXCEPT ![w] = @ \cup d]
                 /\ status' = [m \in Messages |-> IF m \in d THEN "lost" ELSE status[m]]
            BY <3>1, Zenon
        <3> QED
            BY <3>2 DEF queued
    <2>2. CASE ~UNCHANGED <<group, status, seen>>
        <3> DEFINE E == SetOf(Delivered(w))
        <3>1. /\ Take(w, Delivered(w)) /\ seen' = [seen EXCEPT ![w] = @ \cup E]
              /\ status' = [m \in Messages |-> IF m \in E THEN "lost" ELSE status[m]]
            BY <2>2 DEF ReadFails, See
        <3>2. E \in SUBSET {m \in Messages : status[m] = "queued"}
            BY <3>1, TakeKeeps
        <3>3. IsFiniteSet(E)
            BY DeliveredIsBounded
        <3> HIDE DEF E
        <3> QED
            BY <3>1, <3>2, <3>3
    <2> QED
        BY <2>1, <2>2
<1>3. /\ seen'[w] = seen[w] \cup D /\ batch'[w] = batch[w]
      /\ total'[w] = total[w] + 1 /\ errors'[w] = errors[w] + 1
      /\ failures'[w] = failures[w] + 1 /\ limit'[w] = limit[w] /\ max_events'[w] = max_events[w]
      /\ loop'[w] = IF qi[w] < Len(Queues) THEN "reading" ELSE "processing"
      /\ qi'[w] = IF qi[w] < Len(Queues) THEN qi[w] + 1 ELSE 1
      /\ \A v \in Workers \ {w} : Aside(v)
    BY <1>1, <1>2 DEF Types, NextQueue, Aside
<1>4. \A v \in Workers \ {w} : CountedOnce(v)' /\ WithinLimit(v)'
    BY <1>2, <1>3, OthersCount
<1>5. /\ batch[w] \subseteq seen[w]
      /\ \A m \in seen[w] : status'[m] = status[m]
      /\ \A m \in D : status'[m] = "lost"
    <2>1. \A m \in seen[w] : m \in Messages /\ m \notin D
        BY <1>2 DEF Types, SeenKept, Kept, Settled, Processing
    <2> QED
        BY <1>2, <2>1 DEF SeenByOne
<1>6. CountedOnce(w) /\ WithinLimit(w) /\ IsFiniteSet(seen[w])
    BY DEF Counts, CountedOnce
<1>7. ASSUME NEW ss, "lost" \notin ss
      PROVE  Consumed(w, ss)' = Consumed(w, ss) /\ Consumed(w, ss) \in Nat
    <2>1. {m \in seen'[w] : status'[m] \in ss} = {m \in seen[w] : status[m] \in ss}
        BY <1>3, <1>5, <1>7
    <2> QED
        BY <1>6, <2>1, ConsumedType DEF Consumed
<1>8. total[w] \in Nat /\ errors[w] \in Nat /\ failures[w] \in Nat /\ limit[w] \in Nat
    BY Numbers
<1> HIDE DEF Inv
<1>9. CountedOnce(w)'
    <2>1. /\ Consumed(w, Settled)' = Consumed(w, Settled) /\ Consumed(w, Settled) \in Nat
          /\ Consumed(w, InError)' = Consumed(w, InError) /\ Consumed(w, InError) \in Nat
        BY <1>7 DEF Settled, InError
    <2>2. seen'[w] = seen[w] \cup D /\ IsFiniteSet(seen[w]) /\ IsFiniteSet(D)
        BY <1>2, <1>3, <1>6
    <2>3. IsFiniteSet(seen'[w])
        BY <2>2, FS_Union
    <2>4. loop'[w] \notin Ends \cup {"setup"}
        BY <1>3 DEF Ends
    <2>5. total[w] = failures[w] + Consumed(w, Settled) /\ errors[w] = failures[w] + Consumed(w, InError)
        BY <1>6 DEF CountedOnce
    <2>6. total'[w] = total[w] + 1 /\ errors'[w] = errors[w] + 1 /\ failures'[w] = failures[w] + 1
        BY <1>3
    <2>7. /\ total'[w] = failures'[w] + Consumed(w, Settled)'
          /\ errors'[w] = failures'[w] + Consumed(w, InError)'
        BY <1>8, <2>1, <2>5, <2>6
    <2> QED
        BY <2>3, <2>4, <2>7 DEF CountedOnce
<1>10. WithinLimit(w)'
    <2>1. Undone(w)' = Undone(w) /\ Undone(w) \in SUBSET seen[w]
        BY <1>3, <1>5 DEF Undone
    <2>2. Cardinality(Undone(w)) \in Nat
        <3>1. IsFiniteSet(Undone(w))
            BY <1>6, <2>1, FS_Subset
        <3> QED
            BY <3>1, FS_CardinalityType
    <2>3. Cardinality(Undone(w)') \in Nat /\ Cardinality(Undone(w)') = Cardinality(Undone(w))
        BY <2>1, <2>2
    <2>4. total'[w] = total[w] + 1
        BY <1>3
    <2>5. /\ total'[w] \in Nat
          /\ total'[w] + Cardinality(Undone(w)') = total[w] + Cardinality(Undone(w)) + 1
        BY <1>8, <2>2, <2>3, <2>4
    <2>6. 1 \in Nat /\ (1 <= limit[w] \/ limit[w] = 0)
        BY <1>8
    <2> QED
        BY <1>1, <1>3, <1>6, <1>8, <2>2, <2>3, <2>5, <2>6, QueueIsRead
<1> QED
    BY <1>4, <1>9, <1>10 DEF Counts

-----------------------------------------------------------------------------
(* Every step keeps the counts                                             *)

LEMMA EventCounts ==
    ASSUME Inv, Counts, NEW w \in Workers, NEW m \in Messages, Event(w, m)
    PROVE  Counts'
<1>1. Running(w, m) /\ status[m] \notin Settled
    BY DEF Event, Settle, Start, Flush, StepFails, FlushDone, Executed, Timeout, Ack,
           OutputWritten, OutputFails, Settled, Processing
<1>2. CASE Start(w, m) \/ Flush(w, m) \/ FlushDone(w, m) \/ Executed(w, m)
    <2>1. PICK new \in Processing : To(m, new)
        BY <1>2 DEF Start, Flush, FlushDone, Executed, Processing
    <2>2. UNCHANGED <<total, errors>>
        BY <1>2 DEF Start, Flush, FlushDone, Executed
    <2> QED
        BY <1>1, <2>1, <2>2, UnsettledCounts
<1>3. ASSUME To(m, "failed"), Count(w, TRUE)
      PROVE  Counts'
    <2>1. Count(w, "failed" = "failed")
        BY <1>3
    <2> QED
        BY <1>1, <1>3, <2>1, SettledCounts
<1>4. ASSUME To(m, "done"), Count(w, FALSE)
      PROVE  Counts'
    <2>1. Count(w, "done" = "failed")
        BY <1>4
    <2> QED
        BY <1>1, <1>4, <2>1, SettledCounts
<1>5. CASE StepFails(w, m) \/ Timeout(w, m) \/ \E o \in 1..Outputs : OutputFails(w, m, o)
    BY <1>3, <1>5 DEF StepFails, Timeout, OutputFails
<1>6. CASE \E taken \in BOOLEAN : Ack(w, m, taken)
    BY <1>4, <1>6 DEF Ack
<1>7. CASE \E o \in 1..Outputs : OutputWritten(w, m, o)
    <2>1. /\ UNCHANGED <<loop, qi, batch, limit, seen, args, stats, status>>
        BY <1>7 DEF OutputWritten
    <2> QED
        BY <2>1, AsideCounts DEF Counts, Aside
<1> QED
    BY <1>2, <1>5, <1>6, <1>7 DEF Event, Settle

\* A loop that is cut off drops its entries, which are nobody else's.
LEMMA BreakOffCounts ==
    ASSUME Inv, Counts, NEW w \in Workers, Cancel(w) \/ Crash(w) \/ ReadRaises(w)
    PROVE  Counts'
<1>1. PICK how \in Ends : EndLoop(w, how)
    BY DEF Cancel, Crash, ReadRaises, Ends
<1>2. \A m \in Messages : \/ status'[m] = status[m] \/ m \in batch[w]
                           \/ status[m] \in {"unborn", "queued"}
    <2>1. CASE Cancel(w) \/ Crash(w)
        BY <2>1 DEF Cancel, Crash, Live, Dropped, SetOf
    <2>2. CASE ReadRaises(w)
        <3>1. Take(w, Delivered(w)) /\ status' = Dropped(w, Delivered(w))
            BY <2>2 DEF ReadRaises
        <3>2. \A m \in Messages \ SetOf(Delivered(w)) : status[m] = "queued" => status'[m] = "queued"
            BY <3>1 DEF Dropped
        <3>3. SetOf(Delivered(w)) \subseteq {m \in Messages : status[m] = "queued"}
            BY <3>1, <3>2, TakeKeeps DEF Inv
        <3> QED
            BY <3>1, <3>3 DEF Dropped
    <2> QED
        BY <2>1, <2>2
<1>3. /\ CountedOnce(w)' /\ WithinLimit(w)'
      /\ \A v \in Workers \ {w} : Aside(v)
    BY <1>1, EndCounts
<1>4. \A v \in Workers \ {w} : CountedOnce(v)' /\ WithinLimit(v)'
    BY <1>2, <1>3, OthersCount
<1> QED
    BY <1>3, <1>4 DEF Counts

LEMMA CycleStepCounts ==
    ASSUME Inv, Counts, NEW w \in Workers, Setup(w) \/ EndCycle(w)
    PROVE  Counts'
<1>1. /\ UNCHANGED status /\ loop[w] \in {"setup", "processing"}
      /\ NextCycle(w) \/ EndLoop(w, "ended")
    BY DEF Setup, EndCycle
<1>2. /\ CountedOnce(w)' /\ WithinLimit(w)'
      /\ \A v \in Workers \ {w} : Aside(v)
    BY <1>1, EndCounts, CycleCounts DEF Counts, Ends
<1>3. \A v \in Workers \ {w} : CountedOnce(v)' /\ WithinLimit(v)'
    BY <1>1, <1>2, OthersCount
<1> QED
    BY <1>2, <1>3 DEF Counts

LEMMA InitCounts == Init => Counts
<1> SUFFICES ASSUME Init, NEW w \in Workers
             PROVE  CountedOnce(w) /\ WithinLimit(w)
    BY DEF Counts
<1>1. /\ loop[w] = "ended" /\ total[w] = 0 /\ errors[w] = 0 /\ failures[w] = 0 /\ seen[w] = {}
    BY DEF Init
<1>2. IsFiniteSet({}) /\ Cardinality({}) = 0
    BY FS_EmptySet
<1>3. \A ss : {m \in seen[w] : status[m] \in ss} = {}
    BY <1>1
<1>4. Consumed(w, Settled) = 0 /\ Consumed(w, InError) = 0
    BY <1>2, <1>3 DEF Consumed
<1> QED
    BY <1>1, <1>2, <1>4 DEF CountedOnce, WithinLimit

LEMMA NextCounts == Inv /\ Counts /\ [Next]_vars => Counts'
<1> SUFFICES ASSUME Inv, Counts, [Next]_vars
             PROVE  Counts'
    OBVIOUS
<1>1. ASSUME \A v \in Workers : Aside(v),
             \A m \in Messages : status'[m] = status[m] \/
                                 (status[m] \notin Settled /\ status'[m] \notin Settled)
      PROVE  Counts'
    BY <1>1, AsideCounts DEF Counts, Inv, Types
<1>2. ASSUME NEW m \in Messages, NEW q \in QueueNames, NEW k \in Kinds, Publish(m, q, k)
      PROVE  Counts'
    <2>1. \A v \in Workers : Aside(v)
        BY <1>2 DEF Publish, Aside
    <2>2. status[m] = "unborn" /\ status' = [status EXCEPT ![m] = "queued"]
        BY <1>2 DEF Publish
    <2> QED
        BY <1>1, <2>1, <2>2 DEF Inv, Types, Settled
<1>3. ASSUME NEW w \in Workers, NEW max \in Limits, NEW swe \in BOOLEAN, StartLoop(w, max, swe)
      PROVE  Counts'
    <2>1. \A v \in Workers : Aside(v)
        BY <1>3 DEF StartLoop, Aside, Inv, Types
    <2>2. UNCHANGED status
        BY <1>3 DEF StartLoop
    <2> QED
        BY <1>1, <2>1, <2>2
<1>4. ASSUME NEW w \in Workers, SignalStop(w)
      PROVE  Counts'
    BY <1>1, <1>4 DEF SignalStop, Aside
<1>5. ASSUME NEW w \in Workers, Setup(w) \/ EndCycle(w)
      PROVE  Counts'
    BY <1>5, CycleStepCounts
<1>6. ASSUME NEW w \in Workers, ReadReturns(w) \/ ReadFails(w) \/ Cancel(w) \/ Crash(w)
      PROVE  Counts'
    BY <1>6, ReadCounts, FailedReadCounts, BreakOffCounts DEF ReadReturns
<1>7. ASSUME NEW w \in Workers, NEW m \in Messages, Event(w, m)
      PROVE  Counts'
    BY <1>7, EventCounts
<1>8. ASSUME NEW m \in Messages, NEW o \in 1..Outputs,
             NEW how \in {"written", "failed"}, OrphanWriteEnds(m, o, how)
      PROVE  Counts'
    BY <1>1, <1>8 DEF OrphanWriteEnds, Aside
<1>9. CASE UNCHANGED vars
    BY <1>1, <1>9 DEF vars, Aside
<1> QED
    BY <1>2, <1>3, <1>4, <1>5, <1>6, <1>7, <1>8, <1>9 DEF Next

LEMMA SafetyCounts == Safety => [](Inv /\ Counts)
<1>1. Init => Inv /\ Counts
    BY InitInv, InitCounts
<1>2. Inv /\ Counts /\ [Next]_vars => (Inv /\ Counts)'
    BY NextInv, NextCounts
<1> QED
    BY <1>1, <1>2, PTL DEF Safety

-----------------------------------------------------------------------------
(* The theorems about the numbers                                          *)

\* The statistics count every consumed event once, on each of the paths of its
\* processing, its failures and the failed reads (_process_stream_event,
\* _read_stream_cycle).
THEOREM StatisticsExact == Safety => []StatsAreExact
<1>1. Inv /\ Counts => StatsAreExact
    BY DEF Counts, CountedOnce, StatsAreExact, InError
<1> QED
    BY <1>1, SafetyCounts, PTL

\* How far max_events, which is no limit over several queues, may be overshot:
\* by one batch for each queue after the first (remaining and batch_size in
\* read_stream).
OvershootIsBounded ==
    \A w \in Workers : max_events[w] > 0 =>
        total[w] <= max_events[w]
                      + (Len(Queues) - 1) * Lesser(max_events[w], BatchSize)

\* A loop with max_events counts at most one batch more for each queue after
\* the first (read_stream).
THEOREM OvershootBounded == Safety => []OvershootIsBounded
<1>1. Inv /\ Counts => OvershootIsBounded
    <2> SUFFICES ASSUME Inv, Counts, NEW w \in Workers, max_events[w] > 0
                 PROVE  total[w] <= max_events[w]
                           + (Len(Queues) - 1) * Lesser(max_events[w], BatchSize)
        BY DEF OvershootIsBounded
    <2> DEFINE n == Len(Queues)
               l == Lesser(max_events[w], BatchSize)
               u == Cardinality(Undone(w))
    <2>1. /\ total[w] \in Nat /\ limit[w] \in Nat /\ max_events[w] \in Nat
          /\ n \in Nat \ {0} /\ l \in Nat
        BY Numbers DEF Inv, Lesser
    <2>2. CountedOnce(w) /\ WithinLimit(w) /\ loop[w] \in Active \cup Ends
        BY DEF Counts, Inv, Types
    <2>3. CASE loop[w] \in Ends \cup {"setup"}
        <3>1. total[w] = 0
            BY <2>2, <2>3 DEF CountedOnce
        <3>2. (n - 1) * l \in Nat
            BY <2>1
        <3> QED
            BY <2>1, <3>1, <3>2
    <2>4. CASE loop[w] \in {"reading", "processing"}
        <3>1. /\ limit[w] \in 1..l
              /\ total[w] + u + limit[w] <= max_events[w] + QueuesRead(w) * limit[w]
            BY <2>2, <2>4 DEF WithinLimit
        <3>2. u \in Nat
            <4>1. Undone(w) \in SUBSET seen[w] /\ IsFiniteSet(seen[w])
                BY <2>2 DEF Undone, CountedOnce, Inv, SeenByOne
            <4> QED
                BY <4>1, FS_Subset, FS_CardinalityType
        <3>3. QueuesRead(w) \in 0..n
            BY <2>1, Numbers DEF QueuesRead, Inv
        <3> HIDE DEF n, l, u
        <3>4. QueuesRead(w) * limit[w] <= n * limit[w]
            BY <2>1, <3>3
        <3>5. n * limit[w] - limit[w] = (n - 1) * limit[w]
            BY <2>1
        <3>6. (n - 1) * limit[w] <= (n - 1) * l
            BY <2>1, <3>1
        <3>7. total[w] <= max_events[w] + (n - 1) * l
            <4> DEFINE a == QueuesRead(w) * limit[w]
                       b == n * limit[w]
                       c == (n - 1) * limit[w]
                       d == (n - 1) * l
            <4>1. a \in Int /\ b \in Int /\ c \in Int /\ d \in Int
                BY <2>1, <3>3
            <4> HIDE DEF a, b, c, d
            <4>2. total[w] + u + limit[w] <= max_events[w] + a /\ a <= b /\ b - limit[w] = c /\ c <= d
                BY <3>1, <3>4, <3>5, <3>6 DEF a, b, c, d
            <4>3. total[w] <= max_events[w] + d
                BY <2>1, <3>2, <4>1, <4>2
            <4> QED
                BY <4>3 DEF d
        <3> QED
            BY <3>7 DEF n, l
    <2> QED
        BY <2>2, <2>3, <2>4 DEF Active
<1> QED
    BY <1>1, SafetyCounts, PTL
=============================================================================
