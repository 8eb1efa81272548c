---------------------------- MODULE MCEventStages ----------------------------
(* Programs of up to three steps with a SHUFFLE between any two of them.    *)
EXTENDS EventStages
CONSTANTS A, B

Step(inputs, outs) == [in: inputs, out: outs]
First == Step({A}, {<<A>>, <<B>>, <<A, B, A>>, <<None>>})
Later == Step({A, B, DataObject}, {<<A>>, <<B>>, <<A, B>>})
Final == Step({A, B, None}, {<<B>>, <<None>>})

AllPrograms ==
    {<<x, Shuffle, y>> : x \in First, y \in Later} \cup
    UNION {{<<x, y, z>>, <<x, Shuffle, y, z>>, <<x, y, Shuffle, z>>,
            <<x, Shuffle, y, Shuffle, z>>} : x \in First, y \in Later, z \in Final}

AllQueues == {<<"AUTO">>, <<"high", "AUTO">>, <<"high">>}
AllWriters == {[queues |-> <<"AUTO">>, strategy |-> "PROPAGATE"],
               [queues |-> <<"AUTO", "low">>, strategy |-> "PROPAGATE"],
               [queues |-> <<"low">>, strategy |-> "DROP"]}
=============================================================================
