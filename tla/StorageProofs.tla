---------------------------- MODULE StorageProofs ----------------------------
(***************************************************************************)
(* Proofs about the two parts that save data in partitions by time.         *)
(*                                                                          *)
(* BatchStorage, for any number of items, keys and partitions, any sizes    *)
(* and any number of failures.                                              *)
(*                                                                          *)
(* That a flush removes only what it has saved rests on the lock of the     *)
(* partition, which is the head of a queue: the invariant says that a task  *)
(* that saves is the head of the queue of its partition, that no task is in *)
(* two queues or in one twice, and that nobody else appends meanwhile.      *)
(*                                                                          *)
(* DataBlocks, for any rows, hours, lengths of a day and of a month,        *)
(* formats, and versions of a class.  A sink: a row is in the file of its   *)
(* partition, or its key is among those to come.  A batch: what has been    *)
(* searched are classes of an equivalence of hours, and a file is found     *)
(* when that of its time is searched, for the first time; when no hour is   *)
(* among the components that are searched, no day leaves its class, and one *)
(* search for each day reaches all.  A load: by induction over the datasets *)
(* of the class.                                                            *)
(***************************************************************************)
EXTENDS BatchStorage, DataBlocks, SequenceTheorems, FiniteSetTheorems, WellFoundedInduction, TLAPS

USE DEF storage

-----------------------------------------------------------------------------
(* Queues without repetitions                                               *)

Injective(q) == \A m, n \in DOMAIN q : q[m] = q[n] => m = n

\* A task that was not in a queue joins it at its end.
LEMMA AppendKeeps ==
    ASSUME NEW S, NEW q \in Seq(S), NEW t \in S, Injective(q), t \notin ToSet(q)
    PROVE  /\ Append(q, t) \in Seq(S) /\ Injective(Append(q, t))
           /\ ToSet(Append(q, t)) = ToSet(q) \cup {t}
           /\ Append(q, t) # <<>>
           /\ q # <<>> => Head(Append(q, t)) = Head(q)
<1>1. Append(q, t) \in Seq(S) /\ Len(Append(q, t)) = Len(q) + 1
    OBVIOUS
<1>2. /\ \A n \in 1..Len(q) : Append(q, t)[n] = q[n]
      /\ Append(q, t)[Len(q) + 1] = t
    OBVIOUS
<1>3. /\ DOMAIN q = 1..Len(q) /\ DOMAIN Append(q, t) = 1..(Len(q) + 1) /\ Len(q) \in Nat
    BY <1>1
<1>4. \A n \in 1..Len(q) : q[n] # t
    BY <1>3 DEF ToSet
<1>5. Injective(Append(q, t))
    BY <1>2, <1>3, <1>4 DEF Injective
<1>6. ToSet(Append(q, t)) = ToSet(q) \cup {t}
    BY <1>2, <1>3 DEF ToSet
<1>7. q # <<>> => Head(Append(q, t)) = Head(q)
    BY <1>1, <1>2, <1>3
<1>8. Append(q, t) # <<>>
    BY <1>1, <1>3
<1> QED
    BY <1>1, <1>5, <1>6, <1>7, <1>8

\* The first of a queue leaves it.
LEMMA TailKeeps ==
    ASSUME NEW S, NEW q \in Seq(S), Injective(q), q # <<>>
    PROVE  /\ Tail(q) \in Seq(S) /\ Injective(Tail(q))
           /\ ToSet(Tail(q)) = ToSet(q) \ {Head(q)}
<1>1. Tail(q) \in Seq(S) /\ Len(Tail(q)) = Len(q) - 1 /\ Head(q) = q[1]
    OBVIOUS
<1>2. \A n \in 1..(Len(q) - 1) : Tail(q)[n] = q[n + 1]
    OBVIOUS
<1>3. /\ DOMAIN q = 1..Len(q) /\ DOMAIN Tail(q) = 1..(Len(q) - 1)
      /\ Len(q) \in Nat /\ Len(q) > 0
    BY <1>1, EmptySeq
<1>4. Injective(Tail(q))
    BY <1>2, <1>3 DEF Injective
<1>5. ToSet(Tail(q)) \subseteq ToSet(q) \ {Head(q)}
    BY <1>1, <1>2, <1>3 DEF ToSet, Injective
<1>6. ASSUME NEW e \in ToSet(q) \ {Head(q)}
      PROVE  e \in ToSet(Tail(q))
    <2>1. PICK n \in 1..Len(q) : e = q[n] /\ n # 1
        BY <1>1, <1>3 DEF ToSet
    <2>2. n - 1 \in 1..(Len(q) - 1) /\ Tail(q)[n - 1] = e
        BY <1>2, <1>3, <2>1
    <2> QED
        BY <1>3, <2>2 DEF ToSet
<1> QED
    BY <1>1, <1>4, <1>5, <1>6

\* A task in the middle of a queue gives up.
LEMMA RemoveKeeps ==
    ASSUME NEW S, NEW q \in Seq(S), Injective(q), NEW n \in DOMAIN q
    PROVE  /\ RemoveAt(q, n) \in Seq(S) /\ Injective(RemoveAt(q, n))
           /\ ToSet(RemoveAt(q, n)) = ToSet(q) \ {q[n]}
           /\ n # 1 => RemoveAt(q, n) # <<>> /\ Head(RemoveAt(q, n)) = Head(q)
<1> DEFINE r == RemoveAt(q, n)
<1>1. n \in 1..Len(q) /\ Len(q) \in Nat /\ DOMAIN q = 1..Len(q)
    OBVIOUS
<1> DEFINE front == SubSeq(q, 1, n - 1)
           back == SubSeq(q, n + 1, Len(q))
           joined == front \o back
<1>2. front \in Seq(S) /\ Len(front) = n - 1 /\ \A k \in 1..(n - 1) : front[k] = q[k]
    BY <1>1, SubSeqProperties
<1>3. back \in Seq(S) /\ Len(back) = Len(q) - n /\ \A k \in 1..(Len(q) - n) : back[k] = q[n + k]
    BY <1>1, SubSeqProperties
<1>r. r = joined
    BY DEF RemoveAt
<1> HIDE DEF front, back
<1>c. /\ joined \in Seq(S)
      /\ Len(joined) = Len(front) + Len(back)
      /\ \A k \in 1..(Len(front) + Len(back)) :
            joined[k] = IF k <= Len(front) THEN front[k] ELSE back[k - Len(front)]
    BY <1>2, <1>3, ConcatProperties
<1> HIDE DEF joined, r
<1>l. Len(front) + Len(back) = Len(q) - 1
    BY <1>1, <1>2, <1>3
<1>4. r \in Seq(S) /\ Len(r) = Len(q) - 1 /\ DOMAIN r = 1..(Len(q) - 1)
    BY <1>l, <1>r, <1>c, LenProperties
<1>5. \A k \in 1..(Len(q) - 1) : r[k] = IF k < n THEN q[k] ELSE q[k + 1]
    <2> SUFFICES ASSUME NEW k \in 1..(Len(q) - 1)
                 PROVE  r[k] = IF k < n THEN q[k] ELSE q[k + 1]
        OBVIOUS
    <2>1. r[k] = IF k <= n - 1 THEN front[k] ELSE back[k - (n - 1)]
        BY <1>r, <1>c, <1>l, <1>2
    <2>2. CASE k < n
        BY <1>1, <1>2, <2>1, <2>2
    <2>3. CASE ~(k < n)
        <3>1. k - (n - 1) \in 1..(Len(q) - n) /\ n + (k - (n - 1)) = k + 1
            BY <1>1, <2>3
        <3>2. back[k - (n - 1)] = q[n + (k - (n - 1))]
            BY <1>3, <3>1
        <3> QED
            BY <1>1, <2>1, <2>3, <3>1, <3>2
    <2> QED
        BY <2>2, <2>3
<1>6. Injective(r)
    <2> SUFFICES ASSUME NEW i \in 1..(Len(q) - 1), NEW k \in 1..(Len(q) - 1), r[i] = r[k]
                 PROVE  i = k
        BY <1>4 DEF Injective
    <2> DEFINE old(j) == IF j < n THEN j ELSE j + 1
    <2>1. \A j \in 1..(Len(q) - 1) : old(j) \in 1..Len(q) /\ r[j] = q[old(j)]
        BY <1>1, <1>5
    <2>2. old(i) = old(k)
        BY <1>1, <2>1 DEF Injective
    <2> QED
        BY <1>1, <2>2
<1>7. ToSet(r) \subseteq ToSet(q) \ {q[n]}
    BY <1>1, <1>4, <1>5 DEF ToSet, Injective
<1>8. ASSUME NEW e \in ToSet(q) \ {q[n]}
      PROVE  e \in ToSet(r)
    <2>1. PICK k \in 1..Len(q) : e = q[k] /\ k # n
        BY <1>1 DEF ToSet
    <2>2. CASE k < n
        <3>1. k \in 1..(Len(q) - 1) /\ r[k] = e
            BY <1>1, <1>5, <2>1, <2>2
        <3> QED
            BY <1>4, <3>1 DEF ToSet
    <2>3. CASE k > n
        <3>1. k - 1 \in 1..(Len(q) - 1) /\ r[k - 1] = e
            BY <1>1, <1>5, <2>1, <2>3
        <3> QED
            BY <1>4, <3>1 DEF ToSet
    <2> QED
        BY <1>1, <2>1, <2>2, <2>3
<1>9. n # 1 => r # <<>> /\ Head(r) = Head(q)
    BY <1>1, <1>4, <1>5
<1> QED
    BY <1>4, <1>6, <1>7, <1>8, <1>9 DEF r

-----------------------------------------------------------------------------
(* The inductive invariant                                                  *)

Waits == {"buffering", "flushing", "saving", "saved"}

\* A task has a partition while it wants or has its lock, and is then the only
\* one of that name in its queue (buffer_item, flush).
LocksAgree ==
    /\ \A p \in Parts : Injective(queue[p])
    /\ \A t \in Tasks : part[t] # NoPart <=> phase[t] \in Waits

\* Who saves has the lock, and what is saved is in the file (_save_partition).
SavingHolds ==
    /\ \A t \in Tasks : phase[t] \in {"saving", "saved"} => Holds(t)
    /\ \A t \in Tasks : phase[t] = "saved" => items[part[t]] \subseteq written

\* Only the service, between its flushes, has no key.
KeysKnown ==
    \A t \in Tasks : t \in Items \/ phase[t] \notin {"done", "failed"} => key[t] \in Keys

Inv == TypeOK /\ LocksAgree /\ SavingHolds /\ KeysKnown

LEMMA InitInv == Init => Inv
<1> SUFFICES ASSUME Init
             PROVE  Inv
    OBVIOUS
<1>1. \A p \in Parts : queue[p] = <<>> /\ queue[p] \in Seq(Tasks)
    BY EmptySeq DEF Init
<1>2. \A p \in Parts : ToSet(queue[p]) = {} /\ Injective(queue[p])
    BY <1>1, EmptySeq DEF ToSet, Injective
<1>3. TypeOK
    BY <1>1, <1>2, StorageAssumption DEF Init, TypeOK, Tasks, Phases
<1> QED
    BY <1>2, <1>3, StorageAssumption
       DEF Init, Inv, LocksAgree, SavingHolds, KeysKnown, Waits, Tasks

-----------------------------------------------------------------------------
(* Changes of one queue                                                     *)

\* What the rest of the proof needs of the queues after a step.
QueuesKept(t) ==
    /\ queue' \in [Parts -> Seq(Tasks)]
    /\ part' \in [Tasks -> Parts \cup {NoPart}]
    /\ \A u \in Tasks, p \in Parts : u \in ToSet(queue'[p]) => part'[u] = p
    /\ \A p \in Parts : Injective(queue'[p])
    /\ \A u \in Tasks \ {t} : part'[u] = part[u] /\ (Holds(u) => Holds(u)')

LEMMA Joins ==
    ASSUME Inv, NEW t \in Tasks, NEW p \in Parts, part[t] = NoPart,
           queue' = [queue EXCEPT ![p] = Append(@, t)],
           part' = [part EXCEPT ![t] = p]
    PROVE  QueuesKept(t)
<1> USE StorageAssumption DEF Inv, TypeOK, LocksAgree
<1>1. queue[p] \in Seq(Tasks) /\ Injective(queue[p]) /\ t \notin ToSet(queue[p])
    OBVIOUS
<1>2. /\ Append(queue[p], t) \in Seq(Tasks) /\ Injective(Append(queue[p], t))
      /\ ToSet(Append(queue[p], t)) = ToSet(queue[p]) \cup {t}
      /\ Append(queue[p], t) # <<>>
      /\ queue[p] # <<>> => Head(Append(queue[p], t)) = Head(queue[p])
    BY <1>1, AppendKeeps
<1>3. queue'[p] = Append(queue[p], t) /\ \A r \in Parts \ {p} : queue'[r] = queue[r]
    OBVIOUS
<1>4. part'[t] = p /\ \A u \in Tasks \ {t} : part'[u] = part[u]
    OBVIOUS
<1>5. queue' \in [Parts -> Seq(Tasks)] /\ part' \in [Tasks -> Parts \cup {NoPart}]
    BY <1>2
<1>6. \A u \in Tasks, r \in Parts : u \in ToSet(queue'[r]) => part'[u] = r
    BY <1>1, <1>2, <1>3, <1>4
<1>7. \A r \in Parts : Injective(queue'[r])
    BY <1>2, <1>3
<1>8. ASSUME NEW u \in Tasks \ {t}, Holds(u)
      PROVE  Holds(u)'
    BY <1>2, <1>3, <1>4, <1>8 DEF Holds
<1> QED
    BY <1>4, <1>5, <1>6, <1>7, <1>8 DEF QueuesKept

LEMMA Leaves ==
    ASSUME Inv, NEW t \in Tasks, Holds(t), Leave(t), part' = [part EXCEPT ![t] = NoPart]
    PROVE  QueuesKept(t)
<1> USE StorageAssumption DEF Inv, TypeOK, LocksAgree
<1> DEFINE p == part[t]
<1>1. p \in Parts /\ queue[p] # <<>> /\ Head(queue[p]) = t
    BY DEF Holds
<1>2. queue[p] \in Seq(Tasks) /\ Injective(queue[p])
    BY <1>1
<1>3. /\ Tail(queue[p]) \in Seq(Tasks) /\ Injective(Tail(queue[p]))
      /\ ToSet(Tail(queue[p])) = ToSet(queue[p]) \ {t}
    BY <1>1, <1>2, TailKeeps
<1>4. queue'[p] = Tail(queue[p]) /\ \A r \in Parts \ {p} : queue'[r] = queue[r]
    BY <1>1 DEF Leave, Release
<1>5. part'[t] = NoPart /\ \A u \in Tasks \ {t} : part'[u] = part[u]
    OBVIOUS
<1>6. queue' \in [Parts -> Seq(Tasks)] /\ part' \in [Tasks -> Parts \cup {NoPart}]
    BY <1>1, <1>3 DEF Leave, Release
<1>7. \A u \in Tasks, r \in Parts : u \in ToSet(queue'[r]) => part'[u] = r
    <2> SUFFICES ASSUME NEW u \in Tasks, NEW r \in Parts, u \in ToSet(queue'[r])
                 PROVE  part'[u] = r
        OBVIOUS
    <2>1. u \in ToSet(queue[r]) /\ part[u] = r
        BY <1>3, <1>4
    <2>2. u # t
        BY <1>1, <1>3, <1>4, <2>1
    <2> QED
        BY <1>5, <2>1, <2>2
<1>8. \A r \in Parts : Injective(queue'[r])
    BY <1>2, <1>3, <1>4
<1>9. ASSUME NEW u \in Tasks \ {t}, Holds(u)
      PROVE  Holds(u)'
    <2>1. part[u] \in Parts /\ part[u] # p
        BY <1>1, <1>9 DEF Holds
    <2> QED
        BY <1>4, <1>5, <1>9, <2>1 DEF Holds
<1> QED
    BY <1>5, <1>6, <1>7, <1>8, <1>9 DEF QueuesKept

LEMMA GivesUp ==
    ASSUME Inv, NEW t \in Tasks, part[t] \in Parts, ~Holds(t),
           NEW n \in DOMAIN queue[part[t]], queue[part[t]][n] = t,
           Release(part[t], RemoveAt(queue[part[t]], n)),
           part' = [part EXCEPT ![t] = NoPart]
    PROVE  QueuesKept(t)
<1> USE StorageAssumption DEF Inv, TypeOK, LocksAgree
<1> DEFINE p == part[t]
           q == RemoveAt(queue[p], n)
<1>1. queue[p] \in Seq(Tasks) /\ Injective(queue[p]) /\ queue[p] # <<>>
    BY EmptySeq
<1>2. n # 1
    BY <1>1 DEF Holds
<1>3. /\ q \in Seq(Tasks) /\ Injective(q) /\ ToSet(q) = ToSet(queue[p]) \ {t}
      /\ q # <<>> /\ Head(q) = Head(queue[p])
    BY <1>1, <1>2, RemoveKeeps
<1>4. queue'[p] = q /\ \A r \in Parts \ {p} : queue'[r] = queue[r]
    BY DEF Release
<1>5. part'[t] = NoPart /\ \A u \in Tasks \ {t} : part'[u] = part[u]
    OBVIOUS
<1>6. queue' \in [Parts -> Seq(Tasks)] /\ part' \in [Tasks -> Parts \cup {NoPart}]
    BY <1>3 DEF Release
<1>7. \A u \in Tasks, r \in Parts : u \in ToSet(queue'[r]) => part'[u] = r
    <2> SUFFICES ASSUME NEW u \in Tasks, NEW r \in Parts, u \in ToSet(queue'[r])
                 PROVE  part'[u] = r
        OBVIOUS
    <2>1. u \in ToSet(queue[r]) /\ part[u] = r
        BY <1>3, <1>4
    <2>2. u # t
        BY <1>3, <1>4, <2>1
    <2> QED
        BY <1>5, <2>1, <2>2
<1>8. \A r \in Parts : Injective(queue'[r])
    BY <1>1, <1>3, <1>4
<1>9. ASSUME NEW u \in Tasks \ {t}, Holds(u)
      PROVE  Holds(u)'
    <2>1. CASE part[u] = p
        BY <1>3, <1>4, <1>5, <1>9, <2>1 DEF Holds
    <2>2. CASE part[u] # p
        <3>1. part[u] \in Parts \ {p}
            BY <1>9, <2>2 DEF Holds
        <3> QED
            BY <1>4, <1>5, <1>9, <3>1 DEF Holds
    <2> QED
        BY <2>1, <2>2
<1> QED
    BY <1>5, <1>6, <1>7, <1>8, <1>9 DEF QueuesKept

-----------------------------------------------------------------------------
(* Every step keeps the invariant                                           *)

\* Two tasks do not have the same lock.
LEMMA OneHolder ==
    ASSUME NEW t, NEW u, Holds(t), Holds(u), part[t] = part[u]
    PROVE  t = u
BY DEF Holds

\* A task changes its own place and queue, and the files grow.  What it leaves
\* to show is what the invariant says of itself and of the partition it had.
LEMMA TaskMoves ==
    ASSUME Inv, NEW t \in Tasks, NEW place \in Phases, To(t, place), QueuesKept(t),
           part'[t] # NoPart <=> place \in Waits,
           place \in {"saving", "saved"} => Holds(t)',
           place = "saved" => items'[part'[t]] \subseteq written',
           place \notin {"done", "failed"} => key[t] \in Keys,
           UNCHANGED <<max_size, keyOf, key>>,
           buffer' \in [Keys -> Parts \cup {NoPart}], items' \in [Parts -> SUBSET Items],
           \A u \in Tasks \ {t} : phase[u] = "saved" => items'[part[u]] = items[part[u]],
           todo' \subseteq Keys, written \subseteq written', written' \subseteq Items, failures' \in Nat
    PROVE  Inv'
<1> USE DEF Inv, To
<1>1. phase' \in [Tasks -> Phases] /\ phase'[t] = place
      /\ \A u \in Tasks \ {t} : phase'[u] = phase[u]
    BY DEF TypeOK
<1>2. TypeOK'
    BY <1>1 DEF TypeOK, QueuesKept
<1>3. LocksAgree'
    BY <1>1 DEF LocksAgree, QueuesKept
<1>4. SavingHolds'
    <2>1. ASSUME NEW u \in Tasks, phase'[u] \in {"saving", "saved"}
          PROVE  Holds(u)'
        BY <1>1, <2>1 DEF SavingHolds, QueuesKept
    <2>2. ASSUME NEW u \in Tasks, phase'[u] = "saved"
          PROVE  items'[part'[u]] \subseteq written'
        <3>1. CASE u = t
            BY <1>1, <2>2, <3>1
        <3>2. CASE u # t
            BY <1>1, <2>2, <3>2 DEF SavingHolds, QueuesKept
        <3> QED
            BY <3>1, <3>2
    <2> QED
        BY <2>1, <2>2 DEF SavingHolds
<1>5. KeysKnown'
    BY <1>1 DEF KeysKnown
<1> QED
    BY <1>2, <1>3, <1>4, <1>5

\* A task that only changes its place keeps its queue.
LEMMA Stays ==
    ASSUME Inv, NEW t \in Tasks, UNCHANGED <<queue, part>>
    PROVE  QueuesKept(t)
BY DEF Inv, TypeOK, LocksAgree, QueuesKept, Holds

LEMMA BufferItemInv ==
    ASSUME Inv, NEW i \in Items, BufferItem(i)
    PROVE  Inv'
<1>1. i \in Tasks /\ part[i] = NoPart
    BY DEF Inv, TypeOK, LocksAgree, BufferItem, Tasks, Waits
<1>2. PICK p \in Parts : /\ buffer' = [buffer EXCEPT ![key[i]] = p]
                         /\ part' = [part EXCEPT ![i] = p]
                         /\ queue' = [queue EXCEPT ![p] = Append(@, i)]
    BY DEF BufferItem
<1>3. QueuesKept(i)
    BY <1>1, <1>2, Joins
<1>4. part'[i] # NoPart /\ key[i] \in Keys
    BY <1>1, <1>2, StorageAssumption DEF Inv, TypeOK, KeysKnown
<1>5. buffer' \in [Keys -> Parts \cup {NoPart}]
    BY <1>2 DEF Inv, TypeOK
<1> QED
    BY <1>1, <1>3, <1>4, <1>5, TaskMoves DEF BufferItem, Inv, TypeOK, Phases, Waits

LEMMA AppendItemInv ==
    ASSUME Inv, NEW i \in Items, AppendItem(i)
    PROVE  Inv'
<1> DEFINE place == IF max_size > 0 /\ Cardinality(items[part[i]]) + 1 >= max_size
                    THEN "signal" ELSE "done"
<1>1. i \in Tasks /\ Holds(i) /\ phase[i] = "buffering" /\ key[i] \in Keys
    BY DEF AppendItem, Tasks, Inv, KeysKnown
<1>2. QueuesKept(i)
    BY <1>1, Leaves DEF AppendItem
<1>3. part'[i] = NoPart
    BY <1>1 DEF AppendItem, Inv, TypeOK
<1>4. items' \in [Parts -> SUBSET Items]
    BY DEF AppendItem, Inv, TypeOK
<1>5. ASSUME NEW u \in Tasks \ {i}, phase[u] = "saved"
      PROVE  items'[part[u]] = items[part[u]]
    <2>1. part[u] # part[i]
        BY <1>1, <1>5, OneHolder DEF Inv, SavingHolds
    <2> QED
        BY <2>1 DEF AppendItem, Inv, TypeOK
<1>6. place \in Phases /\ place \notin Waits /\ place \notin {"saving", "saved"} /\ To(i, place)
    BY DEF AppendItem, Phases, Waits
<1> HIDE DEF place
<1> QED
    BY <1>1, <1>2, <1>3, <1>4, <1>5, <1>6, TaskMoves DEF AppendItem, Inv, TypeOK

LEMMA FlushInv ==
    ASSUME Inv, NEW t \in Tasks, Flush(t)
    PROVE  Inv'
<1>1. part[t] = NoPart /\ key[t] \in Keys
    BY DEF Inv, TypeOK, LocksAgree, KeysKnown, Flush, Waits
<1>2. CASE buffer[key[t]] = NoPart
    <2>1. part' = part
        BY <1>1, <1>2 DEF Flush, Fail, Inv, TypeOK
    <2>2. QueuesKept(t)
        BY <1>2, <2>1, Stays DEF Flush
    <2> QED
        BY <1>1, <1>2, <2>1, <2>2, TaskMoves DEF Flush, Fail, Inv, TypeOK, Phases, Waits
<1>3. CASE buffer[key[t]] # NoPart
    <2>1. buffer[key[t]] \in Parts
        BY <1>1, <1>3 DEF Inv, TypeOK
    <2>2. QueuesKept(t)
        BY <1>1, <1>3, <2>1, Joins DEF Flush
    <2>3. part'[t] # NoPart
        BY <1>3, <2>1 DEF Flush, Inv, TypeOK
    <2> QED
        BY <1>1, <1>3, <2>2, <2>3, TaskMoves DEF Flush, Inv, TypeOK, Phases, Waits
<1> QED
    BY <1>2, <1>3

\* The end of a flush, with the file in place.
LEMMA ForgetInv ==
    ASSUME Inv, NEW t \in Tasks, Holds(t), Forget(t),
           UNCHANGED <<max_size, keyOf, items, key, todo, written, failures>>
    PROVE  Inv'
<1>1. part' = [part EXCEPT ![t] = NoPart]
    BY DEF Forget, Fail
<1>2. QueuesKept(t)
    BY <1>1, Leaves DEF Forget
<1>3. part'[t] = NoPart
    BY <1>1 DEF Inv, TypeOK
<1>4. buffer' \in [Keys -> Parts \cup {NoPart}]
    BY DEF Forget, Inv, TypeOK
<1>5. PICK place \in {"done", "failed"} : To(t, place)
    BY DEF Forget, Fail
<1>6. place \in Phases /\ place \notin Waits
    BY DEF Phases, Waits
<1> QED
    BY <1>2, <1>3, <1>4, <1>5, <1>6, TaskMoves DEF Inv, TypeOK

LEMMA BeginSaveInv ==
    ASSUME Inv, NEW t \in Tasks, BeginSave(t)
    PROVE  Inv'
<1>1. CASE items[part[t]] = {}
    BY <1>1, ForgetInv DEF BeginSave
<1>2. CASE items[part[t]] # {}
    <2>1. QueuesKept(t) /\ Holds(t)' /\ key[t] \in Keys /\ part'[t] # NoPart
        BY <1>2, Stays DEF BeginSave, Holds, Inv, KeysKnown
    <2> QED
        BY <1>2, <2>1, TaskMoves DEF BeginSave, Inv, TypeOK, Phases, Waits
<1> QED
    BY <1>1, <1>2

LEMMA SavedInv ==
    ASSUME Inv, NEW t \in Tasks, Saved(t)
    PROVE  Inv'
<1>1. QueuesKept(t) /\ Holds(t)' /\ key[t] \in Keys /\ part'[t] # NoPart
    BY Stays DEF Saved, Holds, Inv, KeysKnown
<1>2. items[part[t]] \subseteq Items
    BY <1>1 DEF Saved, Inv, TypeOK
<1>3. items'[part'[t]] \subseteq written' /\ written' \subseteq Items /\ written \subseteq written'
    BY <1>2 DEF Saved, Written, Inv, TypeOK
<1> QED
    BY <1>1, <1>3, TaskMoves DEF Saved, Inv, TypeOK, Phases, Waits

LEMMA RemovedInv ==
    ASSUME Inv, NEW t \in Tasks, Removed(t)
    PROVE  Inv'
BY ForgetInv DEF Removed

LEMMA SaveFailsInv ==
    ASSUME Inv, NEW t \in Tasks, SaveFails(t)
    PROVE  Inv'
<1>1. QueuesKept(t)
    BY Leaves DEF SaveFails, Fail
<1>2. part'[t] = NoPart
    BY DEF SaveFails, Fail, Inv, TypeOK
<1>3. items[part[t]] \subseteq Items
    BY DEF SaveFails, Holds, Inv, TypeOK
<1>4. written' \subseteq Items /\ written \subseteq written'
    BY <1>3 DEF SaveFails, Written, Inv, TypeOK
<1>5. failures' \in Nat
    BY DEF SaveFails, Inv, TypeOK
<1> QED
    BY <1>1, <1>2, <1>4, <1>5, TaskMoves DEF SaveFails, Fail, Inv, TypeOK, Phases, Waits

LEMMA CancelWaitInv ==
    ASSUME Inv, NEW t \in Tasks, CancelWait(t)
    PROVE  Inv'
<1>1. part[t] \in Parts
    BY DEF CancelWait, Inv, TypeOK, LocksAgree, Waits
<1>2. QueuesKept(t)
    BY <1>1, GivesUp DEF CancelWait, Fail
<1>3. part'[t] = NoPart /\ failures' \in Nat
    BY DEF CancelWait, Fail, Inv, TypeOK
<1> QED
    BY <1>2, <1>3, TaskMoves DEF CancelWait, Fail, Inv, TypeOK, Phases, Waits

LEMMA ServiceInv ==
    ASSUME Inv, Interval \/ YieldSignal
    PROVE  Inv'
<1>1. CASE Interval
    BY <1>1 DEF Interval, Inv, TypeOK, LocksAgree, SavingHolds, KeysKnown, Holds, Injective
<1>2. CASE YieldSignal
    <2>1. Timer \in Tasks /\ phase[Timer] \in {"done", "failed"}
        BY <1>2 DEF YieldSignal, Idle, Tasks
    <2>2. PICK k \in todo : todo' = todo \ {k} /\ key' = [key EXCEPT ![Timer] = k]
        BY <1>2 DEF YieldSignal
    <2>3. key' \in [Tasks -> Keys \cup {NoKey}] /\ key'[Timer] \in Keys
          /\ \A u \in Tasks \ {Timer} : key'[u] = key[u]
        BY <2>1, <2>2 DEF Inv, TypeOK
    <2>4. phase' \in [Tasks -> Phases] /\ phase'[Timer] = "signal"
          /\ \A u \in Tasks \ {Timer} : phase'[u] = phase[u]
        BY <1>2, <2>1 DEF YieldSignal, To, Inv, TypeOK, Phases
    <2>5. UNCHANGED <<max_size, keyOf, buffer, items, queue, part, written, failures>>
        BY <1>2 DEF YieldSignal
    <2>6. TypeOK'
        BY <2>2, <2>3, <2>4, <2>5 DEF Inv, TypeOK
    <2>7. LocksAgree'
        BY <2>1, <2>4, <2>5 DEF Inv, LocksAgree, Waits
    <2>8. SavingHolds'
        BY <2>1, <2>4, <2>5 DEF Inv, SavingHolds, Holds
    <2>9. KeysKnown'
        BY <2>3, <2>4 DEF Inv, KeysKnown
    <2> QED
        BY <2>6, <2>7, <2>8, <2>9 DEF Inv
<1> QED
    BY <1>1, <1>2

LEMMA NextInv == Inv /\ [Next]_vars => Inv'
<1> SUFFICES ASSUME Inv, [Next]_vars
             PROVE  Inv'
    OBVIOUS
<1>1. ASSUME NEW i \in Items, BufferItem(i) \/ AppendItem(i)
      PROVE  Inv'
    BY <1>1, BufferItemInv, AppendItemInv
<1>2. ASSUME NEW t \in Tasks, FlushStep(t)
      PROVE  Inv'
    BY <1>2, FlushInv, BeginSaveInv, SavedInv, RemovedInv DEF FlushStep
<1>3. ASSUME NEW t \in Tasks, SaveFails(t) \/ CancelWait(t)
      PROVE  Inv'
    BY <1>3, SaveFailsInv, CancelWaitInv
<1>4. CASE Interval \/ YieldSignal
    BY <1>4, ServiceInv
<1>5. CASE UNCHANGED vars
    BY <1>5 DEF vars, Inv, TypeOK, LocksAgree, SavingHolds, KeysKnown, Holds, Injective
<1> QED
    BY <1>1, <1>2, <1>3, <1>4, <1>5 DEF Next

LEMMA AlwaysInv == Spec => []Inv
BY InitInv, NextInv, PTL DEF Spec

-----------------------------------------------------------------------------
(* The results                                                              *)

\* The variables have their types, and a task is in no queue but the one of
\* the partition it found (buffer_item, flush).
THEOREM TypeCorrect == Spec => []TypeOK
<1>1. Inv => TypeOK
    BY DEF Inv
<1> QED
    BY <1>1, AlwaysInv, PTL

\* A flush that ends well and takes the partition it has locked out of the
\* buffer leaves none of its items unsaved (flush, _save_partition).  It says
\* nothing of a partition that another task has put under the same key
\* meanwhile: Forget deletes by key, so that one may go with its items unsaved.
THEOREM RemovedSaved == Spec => RemovedOnlySaved
<1> DEFINE Saves == \A t \in Tasks :
              (/\ phase[t] \in {"flushing", "saved"} /\ phase'[t] = "done"
               /\ buffer[key[t]] # NoPart /\ buffer[key[t]] = part[t]
               /\ buffer'[key[t]] = NoPart)
              => items'[part[t]] \subseteq written'
<1>1. Inv /\ [Next]_vars => [Saves]_vars
    <2> SUFFICES ASSUME Inv, Next, NEW t \in Tasks,
                        phase[t] \in {"flushing", "saved"}, phase'[t] = "done"
                 PROVE  items'[part[t]] \subseteq written'
        BY DEF vars
    <2>1. ASSUME NEW u \in Tasks, NEW place, To(u, place), u # t
          PROVE  FALSE
        BY <2>1 DEF To, Inv, TypeOK
    <2>2. ASSUME NEW i \in Items, BufferItem(i) \/ AppendItem(i)
          PROVE  FALSE
        BY <2>1, <2>2 DEF BufferItem, AppendItem, Tasks
    <2>3. ASSUME NEW u \in Tasks, Flush(u)
          PROVE  FALSE
        BY <2>1, <2>3 DEF Flush, Fail
    <2>4. ASSUME NEW u \in Tasks, BeginSave(u)
          PROVE  items'[part[t]] \subseteq written'
        <3>1. u = t
            BY <2>1, <2>4 DEF BeginSave, Forget, Fail
        <3>2. items[part[t]] = {}
            BY <2>4, <3>1 DEF BeginSave, To, Inv, TypeOK
        <3> QED
            BY <2>4, <3>2 DEF BeginSave
    <2>5. ASSUME NEW u \in Tasks, Saved(u)
          PROVE  FALSE
        BY <2>1, <2>5 DEF Saved
    <2>6. ASSUME NEW u \in Tasks, Removed(u)
          PROVE  items'[part[t]] \subseteq written'
        <3>1. u = t
            BY <2>1, <2>6 DEF Removed, Forget, Fail
        <3> QED
            BY <2>6, <3>1 DEF Removed, Inv, SavingHolds
    <2>7. ASSUME NEW u \in Tasks, SaveFails(u) \/ CancelWait(u)
          PROVE  FALSE
        BY <2>1, <2>7 DEF SaveFails, CancelWait, Fail, To, Inv, TypeOK
    <2>8. CASE Interval \/ YieldSignal
        BY <2>1, <2>8 DEF Interval, YieldSignal, Idle, Tasks, To, Inv, TypeOK
    <2> QED
        BY <2>2, <2>3, <2>4, <2>5, <2>6, <2>7, <2>8 DEF Next, FlushStep
<1>2. Spec => [][Saves]_vars
    BY <1>1, AlwaysInv, PTL DEF Spec
<1> QED
    BY <1>2 DEF RemovedOnlySaved

-----------------------------------------------------------------------------
(* Hours, days and months                                                   *)

\* t is x past the q-th multiple of l.
Past(t, l, q, x) == t = l * q + x

LEMMA Division ==
    ASSUME NEW t \in Nat, NEW l \in Nat \ {0}
    PROVE  t % l \in 0 .. (l - 1) /\ \E q \in Nat : Past(t, l, q, t % l)
<1>1. t % l \in 0 .. (l - 1)
    OBVIOUS
<1>2. t \div l \in Nat
    OBVIOUS
<1>3. t = (t \div l) * l + (t % l)
    OBVIOUS
<1>4. (t \div l) * l = l * (t \div l)
    BY <1>2
<1> QED
    BY <1>1, <1>2, <1>3, <1>4 DEF Past

LEMMA LessQuotient ==
    ASSUME NEW l \in Nat \ {0}, NEW a \in Nat, NEW b \in Nat, l * a < l * b
    PROVE  a < b
<1> SUFFICES ASSUME b <= a PROVE l * b <= l * a
    OBVIOUS
<1>1. PICK c \in Nat : a = b + c
    <2>1. a - b \in Nat /\ a = b + (a - b)
        OBVIOUS
    <2> QED
        BY <2>1
<1>2. l * a = l * b + l * c
    BY <1>1
<1>3. l * c \in Nat /\ l * b \in Nat
    OBVIOUS
<1> QED
    BY <1>2, <1>3

LEMMA Multiples ==
    ASSUME NEW l \in Nat \ {0}, NEW a \in Nat, NEW b \in Nat, a < b + 1
    PROVE  l * a <= l * b
<1>1. PICK c \in Nat : b = a + c
    <2>1. b - a \in Nat /\ b = a + (b - a)
        OBVIOUS
    <2> QED
        BY <2>1
<1>2. l * b = l * a + l * c /\ l * c \in Nat /\ l * a \in Nat
    BY <1>1
<1> QED
    BY <1>2

LEMMA UniqueQuotient ==
    ASSUME NEW t, NEW l \in Nat \ {0}, NEW p \in Nat, NEW q \in Nat,
           NEW x \in 0 .. (l - 1), NEW y \in 0 .. (l - 1), Past(t, l, p, x), Past(t, l, q, y)
    PROVE  p = q /\ x = y
<1>1. l * p \in Nat /\ l * q \in Nat /\ l * (p + 1) = l * p + l /\ l * (q + 1) = l * q + l
      /\ l * p + x = l * q + y
    BY DEF Past
<1>2. l * p < l * (q + 1) /\ l * q < l * (p + 1)
    BY <1>1
<1>3. p < q + 1 /\ q < p + 1
    BY <1>2, LessQuotient
<1>4. p = q
    BY <1>3
<1> QED
    BY <1>1, <1>4

LEMMA Remainder ==
    ASSUME NEW t \in Nat, NEW l \in Nat \ {0}, NEW q \in Nat, NEW x \in 0 .. (l - 1), Past(t, l, q, x)
    PROVE  t % l = x
<1>1. PICK y \in 0 .. (l - 1) : y = t % l
    BY Division
<1>2. PICK p \in Nat : Past(t, l, p, y)
    BY <1>1, Division
<1>3. y = x
    BY <1>2, UniqueQuotient
<1> QED
    BY <1>1, <1>3

LEMMA Lengths ==
    /\ Length("hour") = 1 /\ Length("day") = DayHours /\ Length("month") = DayHours * MonthDays
    /\ \A unit \in {"hour", "day", "month"} : Length(unit) \in Nat \ {0}
<1>1. Length("hour") = 1 /\ Length("day") = DayHours /\ Length("month") = DayHours * MonthDays
    BY DEF Length
<1>2. DayHours * MonthDays \in Nat \ {0}
    <2>1. DayHours \in Nat \ {0} /\ MonthDays \in Nat \ {0}
        BY BlocksAssumption
    <2>2. PICK d \in Nat : DayHours = d + 1
        <3>1. DayHours - 1 \in Nat /\ DayHours = (DayHours - 1) + 1
            BY <2>1
        <3> QED
            BY <3>1
    <2>3. DayHours * MonthDays = d * MonthDays + MonthDays /\ d * MonthDays \in Nat
        BY <2>1, <2>2
    <2> QED
        BY <2>1, <2>3
<1> QED
    BY <1>1, <1>2, BlocksAssumption

\* A time is truncated to a time that is not later, of the hours there are.
LEMMA Truncated ==
    ASSUME NEW t \in Nat, NEW unit \in {"hour", "day", "month"}
    PROVE  /\ Truncate(t, unit) \in 0 .. t
           /\ \E q \in Nat, x \in 0 .. (Length(unit) - 1) :
                 Past(t, Length(unit), q, x) /\ Truncate(t, unit) = Length(unit) * q /\ x = t % Length(unit)
<1>1. PICK l : l = Length(unit)
    OBVIOUS
<1>2. l \in Nat \ {0}
    BY <1>1, Lengths
<1>3. PICK x : x = t % l
    OBVIOUS
<1>4. x \in 0 .. (l - 1) /\ \E q \in Nat : Past(t, l, q, x)
    BY <1>2, <1>3, Division
<1>5. PICK q \in Nat : Past(t, l, q, x)
    BY <1>4
<1>6. l * q \in Nat /\ t = l * q + x /\ Truncate(t, unit) = t - x
    BY <1>1, <1>2, <1>3, <1>5 DEF Past, Truncate
<1>7. Truncate(t, unit) = l * q /\ Truncate(t, unit) \in 0 .. t
    BY <1>4, <1>6
<1> QED
    BY <1>1, <1>3, <1>4, <1>5, <1>7

\* The hours of a day are in one month.
LEMMA DayInMonth ==
    ASSUME NEW t \in Nat, NEW u \in Nat, Truncate(t, "day") = Truncate(u, "day")
    PROVE  Truncate(t, "month") <= Truncate(u, "month")
<1>1. PICK d, m : d = DayHours /\ m = MonthDays
    OBVIOUS
<1>2. d \in Nat \ {0} /\ m \in Nat \ {0} /\ d * m \in Nat \ {0}
    BY <1>1, BlocksAssumption, Lengths
<1>3. PICK q \in Nat, x \in 0 .. (d - 1) : t = d * q + x /\ Truncate(t, "day") = d * q
    BY <1>1, Truncated, Lengths DEF Past
<1>4. PICK p \in Nat, y \in 0 .. (d - 1) : u = d * p + y /\ Truncate(u, "day") = d * p
    BY <1>1, Truncated, Lengths DEF Past
<1>5. PICK a \in Nat, v \in 0 .. (d * m - 1) :
         t = (d * m) * a + v /\ Truncate(t, "month") = (d * m) * a
    BY <1>1, Truncated, Lengths DEF Past
<1>6. PICK b \in Nat, w \in 0 .. (d * m - 1) :
         u = (d * m) * b + w /\ Truncate(u, "month") = (d * m) * b
    BY <1>1, Truncated, Lengths DEF Past
<1>7. d * q = d * p
    BY <1>3, <1>4
<1>8. (d * m) * a = d * (m * a) /\ (d * m) * (b + 1) = d * (m * (b + 1)) /\ m * a \in Nat /\ m * (b + 1) \in Nat
      /\ (d * m) * (b + 1) = (d * m) * b + d * m /\ d * (q + 1) = d * q + d /\ d * q \in Nat
      /\ (d * m) * b \in Nat /\ (d * m) * a \in Nat
    <2>1. d \in Int /\ m \in Int /\ a \in Int /\ b \in Int
        BY <1>2
    <2>2. (d * m) * a = d * (m * a)
        BY <2>1
    <2>3. (d * m) * (b + 1) = d * (m * (b + 1))
        BY <2>1
    <2>4. (d * m) * (b + 1) = (d * m) * b + d * m
        BY <2>1
    <2>5. m * a \in Nat /\ m * (b + 1) \in Nat /\ (d * m) * b \in Nat /\ (d * m) * a \in Nat
        BY <1>2
    <2>6. d * (q + 1) = d * q + d /\ d * q \in Nat
        BY <1>2
    <2> QED
        BY <2>2, <2>3, <2>4, <2>5, <2>6
<1>9. d * (m * a) < d * (q + 1)
    BY <1>2, <1>3, <1>5, <1>8
<1>10. m * a < q + 1
    BY <1>2, <1>8, <1>9, LessQuotient
<1>11. d * q < d * (m * (b + 1))
    BY <1>2, <1>4, <1>6, <1>7, <1>8
<1>12. q < m * (b + 1)
    BY <1>2, <1>8, <1>11, LessQuotient
<1>13. m * a < m * (b + 1)
    BY <1>2, <1>8, <1>10, <1>12
<1>14. a < b + 1
    BY <1>2, <1>13, LessQuotient
<1>15. (d * m) * a <= (d * m) * b
    BY <1>2, <1>14, Multiples
<1> QED
    BY <1>5, <1>6, <1>15

LEMMA Components ==
    ASSUME format \in Formats
    PROVE  /\ Len(format) \in Nat /\ Searching \in Nat /\ Searching <= Len(format)
           /\ \A i \in 1 .. Len(format) : format[i] \subseteq {"month", "day", "hour"}
<1>1. PICK f : f = format
    OBVIOUS
<1>2. f \in Seq(SUBSET {"month", "day", "hour"})
    BY <1>1, BlocksAssumption
<1>3. Len(f) \in Nat /\ \A i \in 1 .. Len(f) : f[i] \subseteq {"month", "day", "hour"}
    BY <1>2
<1> QED
    BY <1>1, <1>3 DEF Searching

\* Directories, and what is searched at a time, are classes of an equivalence.
LEMMA SameHours ==
    ASSUME NEW t \in Hours, NEW n
    PROVE  /\ t \in Same(t, n)
           /\ \A u \in Same(t, n) : u \in Hours /\ Same(u, n) = Same(t, n)
<1>1. ASSUME NEW u \in Same(t, n)
      PROVE  u \in Hours /\ \A i \in 1 .. n : \A unit \in format[i] : Shown(u, unit) = Shown(t, unit)
    BY <1>1 DEF Same
<1>2. ASSUME NEW u \in Same(t, n), NEW h \in Hours
      PROVE  h \in Same(u, n) <=> h \in Same(t, n)
    <2>1. \A i \in 1 .. n : \A unit \in format[i] : Shown(u, unit) = Shown(t, unit)
        BY <1>1
    <2> QED
        BY <2>1 DEF Same
<1>3. \A u : \A h \in Same(u, n) : h \in Hours
    BY DEF Same
<1>4. \A u \in Same(t, n) : Same(u, n) = Same(t, n)
    BY <1>2, <1>3
<1>5. t \in Same(t, n)
    BY DEF Same
<1> QED
    BY <1>3, <1>4, <1>5

\* A directory is within what is searched at any time of it.
LEMMA DirectoryInPattern ==
    ASSUME format \in Formats, NEW t \in Hours
    PROVE  t \in Directory(t) /\ Directory(t) \subseteq Pattern(t)
<1>1. t \in Directory(t)
    BY SameHours DEF Directory
<1>2. \A i \in 1 .. Searching : i \in 1 .. Len(format)
    BY Components
<1>3. Directory(t) \subseteq Pattern(t)
    BY <1>2 DEF Directory, Pattern, Same
<1> QED
    BY <1>1, <1>3

LEMMA Patterns ==
    ASSUME NEW t \in Hours
    PROVE  \A u \in Pattern(t) : u \in Hours /\ Pattern(u) = Pattern(t)
<1>1. PICK n : \A h : Pattern(h) = Same(h, n)
    BY DEF Pattern
<1> QED
    BY <1>1, SameHours, Zenon

\* When no hour is among the components that are searched, the hours of a day
\* are searched together.
HourFree == \A i \in 1 .. Searching : "hour" \notin format[i]
LEMMA DayInPattern ==
    ASSUME format \in Formats, HourFree, NEW t \in Hours, NEW u \in Hours,
           Truncate(t, "day") = Truncate(u, "day")
    PROVE  Pattern(t) = Pattern(u)
<1>1. t \in Nat /\ u \in Nat
    BY BlocksAssumption
<1>2. Truncate(t, "month") = Truncate(u, "month")
    <2>1. Truncate(t, "month") <= Truncate(u, "month") /\ Truncate(u, "month") <= Truncate(t, "month")
        BY <1>1, DayInMonth
    <2>2. Truncate(t, "month") \in Nat /\ Truncate(u, "month") \in Nat
        BY <1>1, Truncated
    <2> QED
        BY <2>1, <2>2
<1>3. \A unit \in {"day", "month"} : Shown(t, unit) = Shown(u, unit)
    BY <1>2 DEF Shown
<1>4. \A i \in 1 .. Searching : \A unit \in format[i] : unit \in {"day", "month"}
    <2>1. \A i \in 1 .. Searching : i \in 1 .. Len(format) /\ "hour" \notin format[i]
        BY Components DEF HourFree
    <2> QED
        BY <2>1, Components
<1>5. \A i \in 1 .. Searching : \A unit \in format[i] : Shown(t, unit) = Shown(u, unit)
    BY <1>3, <1>4
<1>6. \A h : h \in Pattern(t) <=> h \in Pattern(u)
    BY <1>5 DEF Pattern, Same
<1> QED
    BY <1>6

\* A range is searched at the hour of the day it begins: at one time of each
\* of its days.
LEMMA SearchedAt ==
    ASSUME NEW a \in Nat, NEW b \in Nat, NEW t \in a .. b, b % DayHours >= a % DayHours
    PROVE  \E u \in a .. b : u % DayHours = a % DayHours /\ Truncate(u, "day") = Truncate(t, "day")
<1>1. PICK l : l = DayHours
    OBVIOUS
<1>2. l \in Nat \ {0}
    BY <1>1, BlocksAssumption
<1>3. PICK p \in Nat, x \in 0 .. (l - 1) : Past(a, l, p, x) /\ x = a % l
    BY <1>1, Truncated, Lengths
<1>4. PICK r \in Nat, z \in 0 .. (l - 1) : Past(b, l, r, z) /\ z = b % l
    BY <1>1, Truncated, Lengths
<1>5. PICK q \in Nat, y \in 0 .. (l - 1) : Past(t, l, q, y) /\ Truncate(t, "day") = l * q
    <2>1. t \in Nat
        OBVIOUS
    <2> QED
        BY <1>1, <2>1, Truncated, Lengths
<1>6. l * p \in Nat /\ l * q \in Nat /\ l * r \in Nat
    BY <1>2
<1>7. x <= z
    BY <1>1, <1>3, <1>4
<1>8. PICK u : u = l * q + x
    OBVIOUS
<1>9. u \in Nat /\ Past(u, l, q, x)
    BY <1>6, <1>8 DEF Past
<1>10. l * p <= l * q
    <2>1. l * p < l * (q + 1)
        BY <1>2, <1>3, <1>5, <1>6 DEF Past
    <2>2. p < q + 1
        BY <1>2, <2>1, LessQuotient
    <2> QED
        BY <1>2, <2>2, Multiples
<1>11. l * q <= l * r
    <2>1. l * q < l * (r + 1)
        BY <1>2, <1>4, <1>5, <1>6 DEF Past
    <2>2. q < r + 1
        BY <1>2, <2>1, LessQuotient
    <2> QED
        BY <1>2, <2>2, Multiples
<1>12. u \in a .. b
    BY <1>3, <1>4, <1>6, <1>7, <1>8, <1>10, <1>11 DEF Past
<1>13. u % l = x
    BY <1>2, <1>9, Remainder
<1>14. Truncate(u, "day") = l * q
    <2>1. Truncate(u, "day") = u - (u % l)
        BY <1>1, Lengths DEF Truncate
    <2> QED
        BY <1>6, <1>8, <1>13, <2>1
<1> QED
    BY <1>1, <1>3, <1>5, <1>12, <1>13, <1>14

\* The search goes on at the same hour of the next day.
LEMMA SearchedNext ==
    ASSUME NEW u \in Nat
    PROVE  /\ (u + DayHours) % DayHours = u % DayHours
           /\ \A t \in u .. (u + DayHours - 1) : t % DayHours = u % DayHours => t = u
<1>1. PICK l : l = DayHours
    OBVIOUS
<1>2. l \in Nat \ {0}
    BY <1>1, BlocksAssumption
<1>3. PICK p \in Nat, x \in 0 .. (l - 1) : Past(u, l, p, x) /\ x = u % l
    BY <1>1, Truncated, Lengths
<1>4. l * (p + 1) = l * p + l /\ l * p \in Nat
    BY <1>2
<1>5. u + l \in Nat /\ Past(u + l, l, p + 1, x)
    BY <1>2, <1>3, <1>4 DEF Past
<1>6. (u + l) % l = x
    BY <1>2, <1>5, Remainder
<1>7. ASSUME NEW t \in u .. (u + l - 1), t % l = x
      PROVE  t = u
    <2>1. t \in Nat
        BY <1>2
    <2>2. PICK q \in Nat : Past(t, l, q, x)
        BY <1>1, <1>7, <2>1, Truncated, Lengths
    <2>3. l * q \in Nat /\ l * (q + 1) = l * q + l
        BY <1>2
    <2>4. l * q < l * (p + 1) /\ l * p < l * (q + 1)
        BY <1>2, <1>3, <1>4, <2>2, <2>3 DEF Past
    <2>5. q < p + 1 /\ p < q + 1
        BY <1>2, <2>4, LessQuotient
    <2>6. p = q
        BY <2>5
    <2> QED
        BY <1>3, <2>2, <2>6 DEF Past
<1> QED
    BY <1>1, <1>3, <1>6, <1>7

-----------------------------------------------------------------------------
(* Partitions                                                               *)

BlocksTypes ==
    /\ format \in Formats /\ interval \in Intervals /\ time \in [Rows -> Hours \cup {NoTime}]
    /\ version \in 1 .. Len(Versions) /\ sinking \in BOOLEAN

\* What has been written, and is being written.

Blocks == files \cup saving
FileInPlace(f) ==
    /\ f.at \in Hours /\ f.dir = Directory(f.at)
    /\ \A r \in f.rows : r \in Rows /\ time[r] # NoTime /\ f.at = Key(r)
FilesInPlace == \A f \in Blocks : FileInPlace(f)

\* A row is in the one file of its partition, or the sink has yet to come to it.
Holders(r) == {f \in Blocks : r \in f.rows}
SavedOnce ==
    /\ ~sinking => keys = {} /\ saving = {} /\ files = {}
    /\ keys \subseteq {Key(r) : r \in Rows}
    /\ sinking => \A r \in Rows : time[r] # NoTime =>
          IF Key(r) \in keys THEN Holders(r) = {} ELSE \E f : Holders(r) = {f}

SinkInv == BlocksTypes /\ FilesInPlace /\ SavedOnce

\* The key of a row is an hour, unless it has no time.
LEMMA KeyIsHour ==
    ASSUME BlocksTypes, NEW r \in Rows
    PROVE  /\ time[r] # NoTime => Key(r) \in Hours
           /\ time[r] = NoTime => Key(r) = NoTime
<1>1. time[r] = NoTime => Key(r) = NoTime
    BY DEF Key
<1>2. ASSUME time[r] # NoTime
      PROVE  Key(r) \in Hours
    <2>1. time[r] \in Hours /\ time[r] \in Nat /\ interval \in {"hour", "day", "month"}
        BY <1>2, BlocksAssumption DEF BlocksTypes
    <2>2. Truncate(time[r], interval) \in 0 .. time[r]
        BY <2>1, Truncated
    <2>3. Key(r) \in 0 .. time[r]
        BY <1>2, <2>2 DEF Key
    <2> QED
        BY <2>1, <2>3, BlocksAssumption
<1> QED
    BY <1>1, <1>2

LEMMA SaveKeeps ==
    ASSUME SinkInv, NEW k \in keys, Save(k)
    PROVE  SinkInv'
<1>1. PICK t \in IF k = NoTime THEN Hours ELSE {k} :
         saving' = {[dir |-> Directory(t), at |-> t, rows |-> RowsOf(k), columns |-> Columns]}
    BY DEF Save
<1>2. saving = {} /\ keys' = keys \ {k} /\ UNCHANGED <<files, sinking, config, version>>
    BY DEF Save
<1>3. UNCHANGED <<format, interval, time>>
    BY <1>2 DEF config
<1>4. BlocksTypes'
    BY <1>2, <1>3 DEF SinkInv, BlocksTypes
<1>5. PICK g : g = [dir |-> Directory(t), at |-> t, rows |-> RowsOf(k), columns |-> Columns]
    OBVIOUS
<1>6. g.dir = Directory(t) /\ g.at = t /\ g.rows = RowsOf(k)
    BY <1>5
<1>7. Blocks' = Blocks \cup {g}
    BY <1>1, <1>2, <1>5 DEF Blocks
<1>8. \A r : Key(r)' = Key(r)
    BY <1>3 DEF Key, Truncate, Length
<1>9. \A h : Directory(h)' = Directory(h)
    BY <1>3 DEF Directory, Same, Shown, Truncate, Length
<1>10. \A r \in Rows : time[r] # NoTime /\ k = Key(r) => k # NoTime
    BY KeyIsHour, BlocksAssumption DEF SinkInv
<1>11. \A r \in Rows : r \in g.rows <=> k # NoTime /\ Key(r) = k
    BY <1>6 DEF RowsOf
<1>12. FilesInPlace'
    <2>1. FileInPlace(g)
        <3>1. t \in Hours
            <4>1. k \in {Key(r) : r \in Rows}
                BY DEF SinkInv, SavedOnce
            <4>2. k # NoTime => k \in Hours
                BY <4>1, KeyIsHour DEF SinkInv
            <4> QED
                BY <4>2
        <3>2. \A r \in g.rows : r \in Rows /\ time[r] # NoTime /\ t = Key(r)
            <4>1. \A r \in g.rows : r \in Rows /\ k # NoTime /\ Key(r) = k
                BY <1>6 DEF RowsOf
            <4> QED
                BY <4>1, KeyIsHour DEF SinkInv
        <3> QED
            BY <1>6, <3>1, <3>2 DEF FileInPlace
    <2>2. \A f \in Blocks' : FileInPlace(f)
        BY <1>7, <2>1 DEF SinkInv, FilesInPlace
    <2>3. \A f : FileInPlace(f) => FileInPlace(f)'
        BY <1>3, <1>8, <1>9 DEF FileInPlace
    <2> QED
        BY <2>2, <2>3 DEF FilesInPlace
<1>13. SavedOnce'
    <2>1. sinking
        BY DEF SinkInv, SavedOnce, BlocksTypes
    <2>2. \A r \in Rows : Holders(r)' = IF r \in g.rows THEN Holders(r) \cup {g} ELSE Holders(r)
        BY <1>7 DEF Holders
    <2>3. ASSUME NEW r \in Rows, time[r] # NoTime
          PROVE  IF Key(r) \in keys' THEN Holders(r)' = {} ELSE \E f : Holders(r)' = {f}
        <3>1. IF Key(r) \in keys THEN Holders(r) = {} ELSE \E f : Holders(r) = {f}
            BY <2>1, <2>3 DEF SinkInv, SavedOnce
        <3>2. CASE Key(r) = k
            BY <1>2, <1>10, <1>11, <2>2, <2>3, <3>1, <3>2
        <3>3. CASE Key(r) # k
            BY <1>2, <1>11, <2>2, <3>1, <3>3
        <3> QED
            BY <3>2, <3>3
    <2>4. keys' \subseteq {Key(r) : r \in Rows}
        BY <1>2 DEF SinkInv, SavedOnce
    <2>5. \A r \in Rows : time'[r] = time[r]
        BY <1>3
    <2> QED
        BY <1>2, <1>8, <2>1, <2>3, <2>4, <2>5 DEF SavedOnce
<1> QED
    BY <1>4, <1>12, <1>13 DEF SinkInv

LEMMA SinkKeeps ==
    ASSUME SinkInv, [BlocksNext]_blocks
    PROVE  SinkInv'
<1>1. ASSUME NEW k \in keys, Save(k)
      PROVE  SinkInv'
    BY <1>1, SaveKeeps
<1>2. CASE Sink
    <2>1. ~sinking /\ sinking' = TRUE /\ keys' = {Key(r) : r \in Rows}
          /\ UNCHANGED <<saving, files, format, interval, time, version>>
        BY <1>2 DEF Sink, config
    <2>2. keys = {} /\ saving = {} /\ files = {}
        BY <2>1 DEF SinkInv, SavedOnce
    <2>3. Blocks' = {} /\ \A r : Holders(r)' = {}
        BY <2>1, <2>2 DEF Blocks, Holders
    <2>4. \A r : Key(r)' = Key(r)
        BY <2>1 DEF Key, Truncate, Length
    <2>5. SavedOnce'
        BY <2>1, <2>3, <2>4 DEF SavedOnce
    <2> QED
        BY <2>1, <2>3, <2>5 DEF SinkInv, BlocksTypes, FilesInPlace
<1>3. CASE SaveEnds
    <2>1. Blocks' = Blocks /\ saving # {} /\ saving' = {} /\ UNCHANGED <<sinking, keys, format, interval, time, version>>
        BY <1>3 DEF SaveEnds, Blocks, config
    <2>2. sinking
        BY <2>1 DEF SinkInv, SavedOnce, BlocksTypes
    <2>3. \A r : Key(r)' = Key(r) /\ Directory(r)' = Directory(r) /\ Holders(r)' = Holders(r)
        BY <2>1 DEF Key, Truncate, Length, Directory, Same, Shown, Holders
    <2>4. \A f : FileInPlace(f)' <=> FileInPlace(f)
        BY <2>1, <2>3 DEF FileInPlace
    <2>5. BlocksTypes' /\ FilesInPlace'
        BY <2>1, <2>4 DEF SinkInv, BlocksTypes, FilesInPlace
    <2>6. SavedOnce'
        BY <2>1, <2>2, <2>3 DEF SinkInv, SavedOnce
    <2> QED
        BY <2>5, <2>6 DEF SinkInv
<1>4. ASSUME \/ NewVersion \/ \E from, to \in Hours : Load(from, to)
             \/ Search \/ LoadNext \/ Collect \/ UNCHANGED blocks
      PROVE  SinkInv'
    <2>1. UNCHANGED <<sinking, keys, saving, files, format, interval, time>>
        BY <1>4 DEF NewVersion, Load, Search, LoadNext, Collect, blocks, config, sink
    <2>2. version' \in 1 .. Len(Versions)
        <3>1. version \in 1 .. Len(Versions) /\ Len(Versions) \in Nat
            BY BlocksAssumption DEF SinkInv, BlocksTypes
        <3>2. version' = version \/ (version < Len(Versions) /\ version' = version + 1)
            <4>1. CASE NewVersion
                BY <4>1 DEF NewVersion
            <4>2. CASE \E from, to \in Hours : Load(from, to)
                BY <4>2 DEF Load
            <4>3. CASE Search \/ LoadNext \/ Collect \/ UNCHANGED blocks
                BY <4>3 DEF Search, LoadNext, Collect, blocks
            <4> QED
                BY <1>4, <4>1, <4>2, <4>3
        <3> QED
            BY <3>1, <3>2
    <2>3. \A r : Key(r)' = Key(r) /\ Directory(r)' = Directory(r) /\ Holders(r)' = Holders(r)
        BY <2>1 DEF Key, Truncate, Length, Directory, Same, Shown, Holders, Blocks
    <2>4. \A f : FileInPlace(f)' <=> FileInPlace(f)
        BY <2>1, <2>3 DEF FileInPlace
    <2>5. BlocksTypes' /\ FilesInPlace'
        BY <2>1, <2>2, <2>4 DEF SinkInv, BlocksTypes, FilesInPlace, Blocks
    <2>6. SavedOnce'
        BY <2>1, <2>3 DEF SinkInv, SavedOnce
    <2> QED
        BY <2>5, <2>6 DEF SinkInv
<1> QED
    BY <1>1, <1>2, <1>3, <1>4 DEF BlocksNext

LEMMA SinkInvariant == BlocksSpec => []SinkInv
<1>1. BlocksInit => SinkInv
    <2> SUFFICES ASSUME BlocksInit PROVE SinkInv
        OBVIOUS
    <2>1. Blocks = {} /\ sinking = FALSE /\ keys = {} /\ saving = {} /\ files = {}
        BY DEF BlocksInit, Blocks
    <2>2. version = 1 /\ 1 \in 1 .. Len(Versions)
        <3>1. Versions \in Seq(ToSet(Versions)) /\ Versions # <<>>
            BY BlocksAssumption
        <3>2. Len(Versions) \in Nat /\ Len(Versions) # 0
            BY <3>1, EmptySeq
        <3> QED
            BY <3>2 DEF BlocksInit
    <2> QED
        BY <2>1, <2>2 DEF BlocksInit, SinkInv, BlocksTypes, FilesInPlace, SavedOnce
<1>2. SinkInv /\ [BlocksNext]_blocks => SinkInv'
    BY SinkKeeps
<1> QED
    BY <1>1, <1>2, PTL DEF BlocksSpec

\* A sink saves each row that has a time in one file, in the directory of its
\* partition (sink_partitions, save_df).
THEOREM SinkExact == BlocksSpec => []SinkIsExact
<1>1. SinkInv => SinkIsExact
    <2> SUFFICES ASSUME SinkInv, sinking, keys = {}, saving = {}, NEW r \in Rows, time[r] # NoTime
                 PROVE  /\ Cardinality({f \in files : r \in f.rows}) = 1
                        /\ \A f \in files : r \in f.rows => f.dir = Directory(Key(r))
        BY DEF SinkIsExact
    <2>1. Blocks = files
        BY DEF Blocks
    <2>2. PICK f : {g \in files : r \in g.rows} = {f}
        BY <2>1 DEF SinkInv, SavedOnce, Holders
    <2>3. Cardinality({f}) = 1
        BY FS_Singleton
    <2>4. \A g \in files : r \in g.rows => g.dir = Directory(Key(r))
        BY <2>1 DEF SinkInv, FilesInPlace, FileInPlace
    <2> QED
        BY <2>2, <2>3, <2>4
<1> QED
    BY <1>1, SinkInvariant, PTL

-----------------------------------------------------------------------------
(* Batches                                                                  *)

Begun == reader \in {"search", "collect", "done"}
ReadInv ==
    /\ reader \in {"idle", "search", "collect", "done", "failed"} /\ before \subseteq files
    /\ reader = "idle" => explored = {} /\ found = {} /\ DOMAIN batch = {}
    /\ Begun => /\ range[1] \in Hours /\ range[2] \in Hours /\ range[1] <= range[2]
                /\ dt \in Nat /\ dt >= range[1] /\ dt % DayHours = range[1] % DayHours
    /\ reader \in {"collect", "done"} => found = {} /\ dt > range[2]
    \* What has been searched, and what was found there.
    /\ Begun => \A t \in Hours : range[1] <= t /\ t < dt /\ t % DayHours = range[1] % DayHours =>
                    Pattern(t) \in explored
    /\ \A f \in found \cup DOMAIN batch : f \in Blocks /\ Pattern(f.at) \in explored
    /\ \A f \in found : f \notin DOMAIN batch
    /\ \A f \in DOMAIN batch : batch[f] = 1
    /\ Begun => \A f \in before : Pattern(f.at) \in explored => f \in found \cup DOMAIN batch

LEMMA SearchKeeps ==
    ASSUME SinkInv, ReadInv, Search
    PROVE  ReadInv'
<1>1. /\ reader = "search" /\ found = {} /\ Begun
      /\ UNCHANGED <<range, batch, before, lazy, files, saving, format>>
    BY DEF Search, Begun, config, sink
<1>2. Blocks' = Blocks /\ \A t : Pattern(t)' = Pattern(t)
    BY <1>1 DEF Blocks, Pattern, Searching, Same, Shown, Truncate, Length
<1>3. CASE dt > range[2]
    <2>1. reader' \in {"collect", "done"} /\ UNCHANGED <<dt, explored, found>>
        BY <1>3 DEF Search, Searched
    <2> QED
        BY <1>1, <1>2, <1>3, <2>1 DEF ReadInv, Begun
<1>4. CASE ~(dt > range[2])
    <2>1. /\ dt' = dt + DayHours /\ reader' = reader /\ explored' = explored \cup {Pattern(dt)}
          /\ found' = IF Pattern(dt) \in explored THEN {}
                      ELSE {f \in files \cup saving : f.dir \subseteq Pattern(dt)}
        BY <1>4 DEF Search
    <2>2. /\ range[1] \in Hours /\ range[2] \in Hours /\ range[1] <= range[2]
          /\ dt \in Nat /\ dt >= range[1] /\ dt % DayHours = range[1] % DayHours
          /\ DayHours \in Nat \ {0} /\ range[1] \in Nat /\ range[2] \in Nat /\ Hours \subseteq Nat
        BY <1>1, BlocksAssumption DEF ReadInv
    <2>3. dt \in Hours
        <3>1. dt \in 0 .. range[2]
            BY <1>4, <2>2
        <3> QED
            BY <2>2, <3>1, BlocksAssumption
    <2>4. dt' \in Nat /\ dt' >= range[1] /\ dt' % DayHours = range[1] % DayHours
        <3>1. (dt + DayHours) % DayHours = dt % DayHours
            BY <2>2, SearchedNext
        <3> QED
            BY <2>1, <2>2, <3>1
    <2>5. ASSUME NEW t \in Hours, range[1] <= t, t < dt', t % DayHours = range[1] % DayHours
          PROVE  Pattern(t) \in explored'
        <3>1. CASE t < dt
            BY <1>1, <2>1, <2>5, <3>1 DEF ReadInv
        <3>2. CASE ~(t < dt)
            <4>1. t \in dt .. (dt + DayHours - 1)
                BY <2>1, <2>2, <2>5, <3>2
            <4>2. t = dt
                BY <2>2, <2>5, <4>1, SearchedNext
            <4> QED
                BY <2>1, <4>2
        <3> QED
            BY <3>1, <3>2
    <2>6. ASSUME NEW f \in Blocks
          PROVE  /\ f.at \in Hours /\ (f.dir \subseteq Pattern(dt) <=> Pattern(f.at) = Pattern(dt))
        <3>1. f.at \in Hours /\ f.dir = Directory(f.at)
            BY DEF SinkInv, FilesInPlace, FileInPlace
        <3>2. f.at \in f.dir /\ f.dir \subseteq Pattern(f.at)
            BY <3>1, DirectoryInPattern DEF SinkInv, BlocksTypes
        <3>3. f.at \in Pattern(dt) => Pattern(f.at) = Pattern(dt)
            BY <2>3, Patterns
        <3> QED
            BY <3>1, <3>2, <3>3
    <2>7. \A f \in found' : f \in Blocks /\ Pattern(f.at) = Pattern(dt) /\ Pattern(f.at) \notin explored
        BY <2>1, <2>6 DEF Blocks
    <2>8. \A f \in Blocks : Pattern(f.at) = Pattern(dt) /\ Pattern(f.at) \notin explored => f \in found'
        BY <2>1, <2>6 DEF Blocks
    <2>9. \A f \in found' \cup DOMAIN batch : f \in Blocks /\ Pattern(f.at) \in explored'
        BY <2>1, <2>7 DEF ReadInv
    <2>10. \A f \in found' : f \notin DOMAIN batch
        BY <2>7 DEF ReadInv
    <2>11. \A f \in before : Pattern(f.at) \in explored' => f \in found' \cup DOMAIN batch
        <3>1. \A f \in before : f \in Blocks
            BY DEF ReadInv, Blocks
        <3> QED
            BY <1>1, <2>1, <2>8, <3>1 DEF ReadInv
    <2>12. \A t \in Hours : range[1] <= t /\ t < dt' /\ t % DayHours = range[1] % DayHours =>
              Pattern(t) \in explored'
        BY <2>5
    <2> QED
        BY <1>1, <1>2, <2>1, <2>2, <2>4, <2>9, <2>10, <2>11, <2>12 DEF ReadInv, Begun
<1> QED
    BY <1>3, <1>4

LEMMA LoadNextKeeps ==
    ASSUME SinkInv, ReadInv, reader = "search", LoadNext
    PROVE  ReadInv'
<1>1. PICK f \in found :
         /\ found' = found \ {f}
         /\ \/ /\ batch' = [g \in DOMAIN batch \cup {f} |->
                  (IF g \in DOMAIN batch THEN batch[g] ELSE 0) + IF g = f THEN 1 ELSE 0]
               /\ reader' = reader
            \/ reader' = "failed" /\ batch' = batch
    BY DEF LoadNext
<1>2. UNCHANGED <<format, files, saving, range, dt, explored, before>>
    BY DEF LoadNext, config, sink
<1>3. Blocks' = Blocks /\ \A t : Pattern(t)' = Pattern(t)
    BY <1>2 DEF Blocks, Pattern, Searching, Same, Shown, Truncate, Length
<1>4. f \notin DOMAIN batch /\ f \in Blocks /\ Pattern(f.at) \in explored
    BY DEF ReadInv
<1>5. DOMAIN batch' \subseteq DOMAIN batch \cup {f} /\ \A g \in DOMAIN batch' : batch'[g] = 1
    BY <1>1, <1>4 DEF ReadInv
<1>6. reader' = reader => DOMAIN batch' = DOMAIN batch \cup {f}
    BY <1>1
<1>7. \A g \in found' \cup DOMAIN batch' : g \in Blocks /\ Pattern(g.at) \in explored
    BY <1>1, <1>4, <1>5 DEF ReadInv
<1>8. \A g \in found' : g \notin DOMAIN batch'
    BY <1>1, <1>5 DEF ReadInv
<1>9. reader' \in {"search", "failed"} /\ (Begun' => reader' = reader /\ Begun)
    BY <1>1 DEF Begun
<1>10. Begun' => \A g \in before : Pattern(g.at) \in explored => g \in found' \cup DOMAIN batch'
    BY <1>1, <1>6, <1>9 DEF ReadInv
<1> QED
    BY <1>2, <1>3, <1>5, <1>7, <1>8, <1>9, <1>10 DEF ReadInv

LEMMA ReadKeeps ==
    ASSUME SinkInv, ReadInv, [BlocksNext]_blocks
    PROVE  ReadInv'
<1>1. CASE Search
    BY <1>1, SearchKeeps
<1>2. CASE reader = "search" /\ LoadNext
    BY <1>2, LoadNextKeeps
<1>3. ASSUME NEW from \in Hours, NEW to \in Hours, Load(from, to)
      PROVE  ReadInv'
    <2>1. /\ reader = "idle" /\ from <= to /\ range' = <<from, to>> /\ dt' = from /\ reader' = "search"
          /\ before' = files /\ UNCHANGED <<format, files, saving, explored, found, batch>>
        BY <1>3 DEF Load, config, sink
    <2>2. explored = {} /\ found = {} /\ DOMAIN batch = {}
        BY <2>1 DEF ReadInv
    <2>3. from \in Nat /\ to \in Nat /\ Hours \subseteq Nat
        BY BlocksAssumption
    <2> QED
        BY <2>1, <2>2, <2>3 DEF ReadInv, Begun
<1>4. CASE Collect
    <2>1. reader = "collect" /\ reader' \in {"done", "failed"}
          /\ UNCHANGED <<format, files, saving, range, dt, explored, found, batch, before>>
        BY <1>4 DEF Collect, config, sink
    <2>2. Blocks' = Blocks /\ \A t : Pattern(t)' = Pattern(t)
        BY <2>1 DEF Blocks, Pattern, Searching, Same, Shown, Truncate, Length
    <2> QED
        BY <2>1, <2>2 DEF ReadInv, Begun
<1>5. ASSUME NewVersion \/ Sink \/ SaveEnds \/ (\E k \in keys : Save(k)) \/ UNCHANGED blocks
      PROVE  ReadInv'
    <2>1. UNCHANGED <<format, range, dt, explored, found, batch, before, reader>>
        BY <1>5 DEF NewVersion, Sink, SaveEnds, Save, blocks, config, reading
    <2>2. files \subseteq files' /\ Blocks \subseteq Blocks'
        BY <1>5 DEF NewVersion, Sink, SaveEnds, Save, blocks, sink, Blocks
    <2>3. \A t : Pattern(t)' = Pattern(t)
        BY <2>1 DEF Pattern, Searching, Same, Shown, Truncate, Length
    <2> QED
        BY <2>1, <2>2, <2>3 DEF ReadInv, Begun
<1> QED
    BY <1>1, <1>2, <1>3, <1>4, <1>5 DEF BlocksNext

LEMMA ReadInvariant == BlocksSpec => [](SinkInv /\ ReadInv)
<1>1. BlocksInit => ReadInv
    BY DEF BlocksInit, ReadInv, Begun
<1>2. SinkInv /\ ReadInv /\ [BlocksNext]_blocks => ReadInv'
    BY ReadKeeps
<1> QED
    BY <1>1, <1>2, SinkInvariant, PTL DEF BlocksSpec

\* A reader takes no file twice.  It finds each file of its range that was there
\* when it began, when no hour is among the components of the format that are
\* searched and the range does not end at an earlier hour of the day than it
\* begins (load_batch, query, _get_batch).
THEOREM BatchExact == BlocksSpec => []BatchIsExact
<1>1. SinkInv /\ ReadInv => BatchIsExact
    <2> SUFFICES ASSUME SinkInv, ReadInv PROVE BatchIsExact
        OBVIOUS
    <2>1. \A f \in DOMAIN batch : batch[f] <= 1
        BY DEF ReadInv
    <2>2. ASSUME reader = "done", range[2] % DayHours >= range[1] % DayHours, HourFree,
                 NEW f \in before, f.at \in range[1] .. range[2]
          PROVE  f \in DOMAIN batch
        <3>1. /\ range[1] \in Hours /\ range[2] \in Hours /\ dt > range[2] /\ found = {} /\ dt \in Nat
              /\ range[1] \in Nat /\ range[2] \in Nat
            BY <2>2, BlocksAssumption DEF ReadInv, Begun
        <3>2. PICK u \in range[1] .. range[2] :
                 u % DayHours = range[1] % DayHours /\ Truncate(u, "day") = Truncate(f.at, "day")
            BY <2>2, <3>1, SearchedAt
        <3>3. u \in Hours /\ range[1] <= u /\ u < dt
            <4>1. u \in 0 .. range[2]
                BY <3>1
            <4> QED
                BY <3>1, <4>1, BlocksAssumption
        <3>4. Pattern(u) \in explored
            BY <2>2, <3>2, <3>3 DEF ReadInv, Begun
        <3>5. f.at \in Hours
            BY <2>2 DEF ReadInv, SinkInv, FilesInPlace, FileInPlace, Blocks
        <3>6. Pattern(u) = Pattern(f.at)
            BY <2>2, <3>2, <3>3, <3>5, DayInPattern DEF SinkInv, BlocksTypes
        <3> QED
            BY <2>2, <3>1, <3>4, <3>6 DEF ReadInv, Begun
    <2> QED
        BY <2>1, <2>2 DEF BatchIsExact, HourFree
<1> QED
    BY <1>1, ReadInvariant, PTL

-----------------------------------------------------------------------------
(* Frames of older files                                                    *)

\* A set of numbers that is not empty has a least one.
LEMMA LeastNumber ==
    ASSUME NEW T, T \subseteq Nat, T # {}
    PROVE  \E x \in T : \A y \in T : x <= y
<1> DEFINE R == {ss \in Nat \X Nat : ss[1] < ss[2]}
<1>1. IsWellFoundedOn(R, Nat)
    BY NatLessThanWellFounded DEF OpToRel
<1> HIDE DEF R
<1>2. PICK x \in T : \A y \in T : <<y, x>> \notin R
    BY <1>1, WFMin
<1>3. x \in Nat /\ \A y \in T : y \in Nat /\ <<y, x>> \in Nat \X Nat
    BY <1>2
<1>4. \A y \in T : ~(y < x)
    BY <1>2, <1>3 DEF R
<1> QED
    BY <1>3, <1>4

\* What holds of 0, and of n + 1 whenever it holds of n, holds of all numbers.
LEMMA AllNumbers ==
    ASSUME NEW S, 0 \in S, \A n \in Nat : n \in S => n + 1 \in S
    PROVE  Nat \subseteq S
<1> SUFFICES ASSUME Nat \ S # {} PROVE FALSE
    OBVIOUS
<1>1. PICK x \in Nat \ S : \A y \in Nat \ S : x <= y
    BY LeastNumber
<1>2. x # 0 /\ x - 1 \in Nat /\ x - 1 \notin Nat \ S
    BY <1>1
<1> QED
    BY <1>1, <1>2

\* The frame after the datasets up to the i-th, from those before.
Frame(f) == [ok |-> TRUE, df |-> [x \in f.columns |-> "saved"]]
Upto(f, select, u, i) ==
    IF i = 0 THEN Frame(f) ELSE IF i \in select THEN Complete(u[i - 1], Class[i]) ELSE u[i - 1]

LEMMA FramesExist ==
    ASSUME NEW f, NEW select, NEW n \in Nat
    PROVE  \E u : u = [i \in 0 .. n |-> Upto(f, select, u, i)]
<1> DEFINE Good(k, u) == u = [i \in 0 .. k |-> Upto(f, select, u, i)]
           N == {k \in Nat : \E u : Good(k, u)}
<1>1. 0 \in N
    <2> DEFINE u0 == [i \in 0 .. 0 |-> Frame(f)]
    <2>1. \A i \in 0 .. 0 : Upto(f, select, u0, i) = Frame(f)
        BY DEF Upto
    <2>2. Good(0, u0)
        BY <2>1
    <2> QED
        BY <2>2
<1>2. ASSUME NEW k \in N
      PROVE  k + 1 \in N
    <2>1. k \in Nat /\ k + 1 \in Nat
        OBVIOUS
    <2>2. PICK u : Good(k, u)
        OBVIOUS
    <2> DEFINE w == [i \in 0 .. (k + 1) |-> IF i = k + 1 THEN Upto(f, select, u, k + 1) ELSE u[i]]
    <2>3. \A i \in 0 .. k : w[i] = u[i]
        BY <2>1
    <2>4. \A i \in 0 .. (k + 1) : Upto(f, select, w, i) = Upto(f, select, u, i)
        <3> SUFFICES ASSUME NEW i \in 0 .. (k + 1), i # 0 PROVE w[i - 1] = u[i - 1]
            BY DEF Upto
        <3>1. i - 1 \in 0 .. k
            BY <2>1
        <3> QED
            BY <2>3, <3>1
    <2>5. \A i \in 0 .. k : u[i] = Upto(f, select, u, i)
        BY <2>2
    <2>6. \A i \in 0 .. (k + 1) : w[i] = Upto(f, select, w, i)
        <3> SUFFICES ASSUME NEW i \in 0 .. (k + 1) PROVE w[i] = Upto(f, select, u, i)
            BY <2>4
        <3>1. CASE i = k + 1
            BY <2>1, <3>1
        <3>2. CASE i # k + 1
            <4>1. i \in 0 .. k
                BY <2>1, <3>2
            <4> QED
                BY <2>3, <2>5, <4>1
        <3> QED
            BY <3>1, <3>2
    <2>7. DOMAIN w = 0 .. (k + 1) /\ w = [i \in 0 .. (k + 1) |-> w[i]]
        OBVIOUS
    <2> HIDE DEF w
    <2>8. Good(k + 1, w)
        BY <2>6, <2>7
    <2> QED
        BY <2>1, <2>8
<1> HIDE DEF N
<1>3. Nat \subseteq N
    BY <1>1, <1>2, AllNumbers
<1>4. n \in N
    BY <1>3
<1> QED
    BY <1>4 DEF N

LEMMA Frames ==
    ASSUME NEW f, NEW select, Len(Class) \in Nat
    PROVE  \E u : /\ Loaded(f, select) = u[Len(Class)]
                  /\ \A i \in 0 .. Len(Class) : u[i] = Upto(f, select, u, i)
<1> DEFINE u == CHOOSE u : u = [i \in 0 .. Len(Class) |-> Upto(f, select, u, i)]
<1>1. u = [i \in 0 .. Len(Class) |-> Upto(f, select, u, i)]
    BY FramesExist
<1>2. Loaded(f, select) = u[Len(Class)]
    BY DEF Loaded, Upto, Frame
<1> HIDE DEF u
<1>3. \A i \in 0 .. Len(Class) : u[i] = Upto(f, select, u, i)
    BY <1>1
<1> QED
    BY <1>2, <1>3

\* The datasets that are selected, up to the i-th.
Taken(select, i) == {j \in select : j <= i}

\* What is not in the file was completed by a dataset that asks for it.
Completed(df, columns, some) ==
    /\ DOMAIN df = columns \cup Fields(some)
    /\ \A x \in columns : df[x] = "saved"
    /\ \A x \in Fields(some) \ columns : \E j \in some :
          /\ x \in DOMAIN Class[j]
          /\ \/ Class[j][x] = "default" /\ df[x] = "default"
             \/ Class[j][x] = "optional" /\ df[x] = "null"
IsComplete(u, columns, some) ==
    /\ u.ok <=> \A j \in some : Requires(j) \subseteq columns
    /\ u.ok => Completed(u.df, columns, some)

Kinds(d) == \A x \in DOMAIN d : d[x] \in {"required", "default", "optional"}

LEMMA CompleteKeeps ==
    ASSUME SameKinds, \A j \in DOMAIN Class : Kinds(Class[j]),
           NEW columns, NEW some \in SUBSET DOMAIN Class, NEW i \in DOMAIN Class,
           NEW u, IsComplete(u, columns, some),
           NEW w, w = Complete(u, Class[i])
    PROVE  IsComplete(w, columns, some \cup {i})
<1>1. PICK d : d = Class[i]
    OBVIOUS
<1>2. PICK all : all = some \cup {i}
    OBVIOUS
<1>3. Fields(all) = Fields(some) \cup DOMAIN d
    BY <1>1, <1>2 DEF Fields
<1>4. (\A j \in all : Requires(j) \subseteq columns)
      <=> (\A j \in some : Requires(j) \subseteq columns) /\ Requires(i) \subseteq columns
    BY <1>2
<1>5. Kinds(d) /\ Requires(i) = {x \in DOMAIN d : d[x] = "required"}
    BY <1>1 DEF Requires
<1>6. CASE ~u.ok
    <2>1. w = u
        BY <1>6 DEF Complete
    <2> QED
        BY <1>2, <1>4, <1>6, <2>1 DEF IsComplete
<1>7. CASE u.ok
    <2>1. Completed(u.df, columns, some) /\ \A j \in some : Requires(j) \subseteq columns
        BY <1>7 DEF IsComplete
    <2>2. ASSUME NEW x \in DOMAIN u.df, x \in DOMAIN d, x \notin columns
          PROVE  d[x] # "required"
        <3>1. x \in Fields(some) \ columns
            BY <2>1, <2>2 DEF Completed
        <3>2. PICK j \in some : x \in DOMAIN Class[j] /\ Class[j][x] # "required"
            BY <2>1, <3>1 DEF Completed
        <3>3. Class[i][x] = Class[j][x]
            BY <1>1, <2>2, <3>2 DEF SameKinds
        <3> QED
            BY <1>1, <3>2, <3>3
    <2>3. CASE DOMAIN d \subseteq DOMAIN u.df
        <3>1. w = u
            BY <1>1, <2>3 DEF Complete
        <3>2. Requires(i) \subseteq columns
            BY <1>5, <2>2, <2>3
        <3>3. Fields(all) \subseteq DOMAIN u.df /\ DOMAIN u.df = columns \cup Fields(all)
            BY <1>3, <2>1, <2>3 DEF Completed
        <3>4. Completed(u.df, columns, all)
            <4>1. \A x \in Fields(all) \ columns : x \in Fields(some) \ columns
                BY <2>1, <3>3 DEF Completed
            <4> QED
                BY <1>2, <2>1, <3>3, <4>1 DEF Completed
        <3> QED
            BY <1>2, <1>4, <1>7, <2>1, <3>1, <3>2, <3>4 DEF IsComplete
    <2>4. CASE ~(DOMAIN d \subseteq DOMAIN u.df)
        <3> DEFINE e == [x \in DOMAIN u.df \cup DOMAIN d |->
                           IF x \in DOMAIN d THEN Value(u.df, x, d[x]) ELSE u.df[x]]
        <3>1. w = [ok |-> Valid(u.df, d), df |-> e]
            BY <1>1, <1>7, <2>4, Zenon DEF Complete
        <3>2. (w.ok <=> Valid(u.df, d)) /\ w.df = e
            BY <3>1
        <3>3. ASSUME NEW x \in DOMAIN d, d[x] = "required"
              PROVE  Value(u.df, x, d[x]) # "null" <=> x \in columns
            <4>1. CASE x \in columns
                BY <2>1, <4>1 DEF Completed, Value
            <4>2. CASE x \notin columns
                <5>1. x \notin DOMAIN u.df
                    BY <2>2, <3>3, <4>2
                <5> QED
                    BY <3>3, <4>2, <5>1 DEF Value
            <4> QED
                BY <4>1, <4>2
        <3>4. Valid(u.df, d) <=> Requires(i) \subseteq columns
            BY <1>5, <3>3 DEF Valid
        <3>5. ASSUME Requires(i) \subseteq columns
              PROVE  Completed(e, columns, all)
            <4>1. DOMAIN e = columns \cup Fields(all)
                BY <1>3, <2>1 DEF Completed
            <4>2. \A x \in DOMAIN u.df : e[x] = u.df[x]
                BY DEF Value
            <4>3. \A x \in columns : e[x] = "saved"
                BY <2>1, <4>2 DEF Completed
            <4>4. ASSUME NEW x \in Fields(all) \ columns
                  PROVE  \E j \in all : /\ x \in DOMAIN Class[j]
                                        /\ \/ Class[j][x] = "default" /\ e[x] = "default"
                                           \/ Class[j][x] = "optional" /\ e[x] = "null"
                <5>1. CASE x \in Fields(some)
                    <6>1. x \in DOMAIN u.df /\ e[x] = u.df[x]
                        BY <2>1, <4>2, <5>1 DEF Completed
                    <6> QED
                        BY <1>2, <2>1, <5>1, <6>1 DEF Completed
                <5>2. CASE x \notin Fields(some)
                    <6>1. x \in DOMAIN d /\ x \notin DOMAIN u.df
                        BY <1>3, <2>1, <5>2 DEF Completed
                    <6>2. d[x] \in {"default", "optional"}
                        BY <1>5, <3>5, <6>1 DEF Kinds
                    <6>3. e[x] = IF d[x] = "default" THEN "default" ELSE "null"
                        BY <6>1 DEF Value
                    <6> QED
                        BY <1>1, <1>2, <6>1, <6>2, <6>3
                <5> QED
                    BY <5>1, <5>2
            <4> HIDE DEF e
            <4> QED
                BY <4>1, <4>3, <4>4 DEF Completed
        <3> HIDE DEF e
        <3> QED
            BY <1>2, <1>4, <2>1, <3>2, <3>4, <3>5 DEF IsComplete
    <2> QED
        BY <2>3, <2>4
<1> QED
    BY <1>6, <1>7

LEMMA ClassIsSequence ==
    ASSUME SinkInv
    PROVE  /\ Len(Class) \in Nat /\ DOMAIN Class = 1 .. Len(Class)
           /\ \A j \in DOMAIN Class : Kinds(Class[j])
<1>1. Versions \in Seq(ToSet(Versions)) /\ version \in 1 .. Len(Versions)
    BY BlocksAssumption DEF SinkInv, BlocksTypes
<1>2. Class \in ToSet(Versions)
    BY <1>1 DEF Class
<1>3. PICK c : c = Class
    OBVIOUS
<1>4. c \in Seq(ToSet(c)) /\ \A d \in ToSet(c) : Kinds(d)
    BY <1>2, <1>3, BlocksAssumption DEF Kinds
<1>5. Len(c) \in Nat /\ DOMAIN c = 1 .. Len(c) /\ \A j \in DOMAIN c : c[j] \in ToSet(c)
    BY <1>4
<1> QED
    BY <1>3, <1>4, <1>5

LEMMA LoadedIsComplete ==
    ASSUME SinkInv, SameKinds, NEW f, NEW select \in SUBSET DOMAIN Class
    PROVE  IsComplete(Loaded(f, select), f.columns, select)
<1>1. /\ Len(Class) \in Nat /\ DOMAIN Class = 1 .. Len(Class)
      /\ \A j \in DOMAIN Class : Kinds(Class[j])
    BY ClassIsSequence
<1>2. PICK u : /\ Loaded(f, select) = u[Len(Class)]
               /\ \A i \in 0 .. Len(Class) : u[i] = Upto(f, select, u, i)
    BY <1>1, Frames
<1> DEFINE N == {i \in Nat : i <= Len(Class) => IsComplete(u[i], f.columns, Taken(select, i))}
<1>3. 0 \in N
    <2>1. Taken(select, 0) = {}
        BY <1>1 DEF Taken
    <2>2. u[0] = Frame(f)
        BY <1>1, <1>2 DEF Upto
    <2>3. u[0].ok /\ u[0].df = [x \in f.columns |-> "saved"]
        BY <2>2 DEF Frame
    <2>4. Fields({}) = {}
        BY DEF Fields
    <2>5. IsComplete(u[0], f.columns, {})
        BY <2>3, <2>4 DEF IsComplete, Completed
    <2> QED
        BY <2>1, <2>5
<1>4. ASSUME NEW i \in N
      PROVE  i + 1 \in N
    <2> SUFFICES ASSUME i + 1 <= Len(Class)
                 PROVE  IsComplete(u[i + 1], f.columns, Taken(select, i + 1))
        OBVIOUS
    <2>1. /\ i \in Nat /\ i + 1 \in 0 .. Len(Class) /\ i + 1 # 0 /\ (i + 1) - 1 = i
          /\ i + 1 \in DOMAIN Class
        BY <1>1
    <2>2. IsComplete(u[i], f.columns, Taken(select, i))
        BY <1>1, <2>1
    <2>3. u[i + 1] = IF i + 1 \in select THEN Complete(u[i], Class[i + 1]) ELSE u[i]
        BY <1>2, <2>1 DEF Upto
    <2>4. Taken(select, i + 1) = IF i + 1 \in select THEN Taken(select, i) \cup {i + 1}
                                 ELSE Taken(select, i)
        BY <1>1, <2>1 DEF Taken
    <2>5. Taken(select, i) \in SUBSET DOMAIN Class
        BY DEF Taken
    <2>6. PICK k : k = i + 1
        OBVIOUS
    <2>7. k \in DOMAIN Class
        BY <2>1, <2>6
    <2>8. IsComplete(Complete(u[i], Class[k]), f.columns, Taken(select, i) \cup {k})
        BY <1>1, <2>2, <2>5, <2>7, CompleteKeeps
    <2> QED
        BY <2>2, <2>3, <2>4, <2>6, <2>8
<1> HIDE DEF N
<1>5. Nat \subseteq N
    BY <1>3, <1>4, AllNumbers
<1>6. IsComplete(u[Len(Class)], f.columns, Taken(select, Len(Class)))
    BY <1>1, <1>5 DEF N
<1>7. Taken(select, Len(Class)) = select
    BY <1>1 DEF Taken
<1> QED
    BY <1>2, <1>6, <1>7

\* An older file is loaded when it has what the selected datasets require, and
\* gives what a scan of it gives (load, _adapt_to_schema).
THEOREM LoadValid == BlocksSpec => []LoadIsValid
<1>1. SinkInv => LoadIsValid
    <2> SUFFICES ASSUME SinkInv, SameKinds, NEW f \in files, NEW select \in SUBSET DOMAIN Class \ {{}},
                        NEW loaded, loaded = Loaded(f, select)
                 PROVE  /\ loaded.ok <=> \A i \in select : Requires(i) \subseteq f.columns
                        /\ loaded.ok => \A x \in Fields(select) \ (Defaults(select) \ f.columns) :
                              loaded.df[x] = Scanned(f, select)[x]
        BY DEF LoadIsValid
    <2>1. IsComplete(loaded, f.columns, select)
        BY LoadedIsComplete
    <2>2. ASSUME loaded.ok, NEW x \in Fields(select), x \notin Defaults(select) \ f.columns
          PROVE  loaded.df[x] = Scanned(f, select)[x]
        <3>1. Completed(loaded.df, f.columns, select)
            BY <2>1, <2>2 DEF IsComplete
        <3>2. CASE x \in f.columns
            BY <3>1, <3>2 DEF Completed, Scanned
        <3>3. CASE x \notin f.columns
            <4>1. x \notin Defaults(select)
                BY <2>2, <3>3
            <4>2. PICK j \in select : /\ x \in DOMAIN Class[j]
                                      /\ \/ Class[j][x] = "default"
                                         \/ Class[j][x] = "optional" /\ loaded.df[x] = "null"
                BY <3>1, <3>3 DEF Completed
            <4>3. Class[j][x] # "default"
                BY <4>1, <4>2 DEF Defaults
            <4> QED
                BY <3>3, <4>2, <4>3 DEF Scanned
        <3> QED
            BY <3>2, <3>3
    <2> QED
        BY <2>1, <2>2 DEF IsComplete
<1> QED
    BY <1>1, SinkInvariant, PTL
=============================================================================
