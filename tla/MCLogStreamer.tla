--------------------------- MODULE MCLogStreamer ---------------------------
(* Three lines, two of which may be of the same time: the order of their    *)
(* texts is then that in which they are written, or the other.              *)
EXTENDS LogStreamer

AllLogs ==
    {l \in [Lines -> [time : Lines, text : 1 .. 2]] :
        /\ \A n \in Lines : n > 1 => l[n].time \in {l[n - 1].time, n}
        /\ l[1].time = 1
        /\ \A m, n \in Lines : m # n => l[m] # l[n]
        /\ \A n \in Lines : (\A m \in Lines \ {n} : l[m].time # l[n].time) => l[n].text = 1}
=============================================================================
