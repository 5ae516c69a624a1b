--------------------------- MODULE QueueFifoOrder ----------------------------
(***************************************************************************)
(* test_fifo_order of hw4/test2.c: consumers go to sleep on the empty      *)
(* queue one after another, then one producer enqueues an item for each.   *)
(***************************************************************************)
EXTENDS MCParallelQueue

Consumers == Threads \ {t1}

VARIABLE order   \* history: the consumers in the order they went to sleep

\* The producer is created once every consumer has been put to sleep.
TestNext ==
    /\ Next
    /\ order' = IF \E t \in Consumers : pc'[t] = "d_wait" /\ t \notin Elements(order)
                THEN Append(order, CHOOSE t \in Consumers :
                                      pc'[t] = "d_wait" /\ t \notin Elements(order))
                ELSE order
    /\ pc'[t1] # "idle" => Elements(order) = Consumers

TestSpec == Init /\ order = <<>> /\ [][TestNext]_<<vars, order>>

\* The i-th thread that went to sleep is handed the i-th item the producer
\* added, as assert(dequeue_order[i] == i + 1) expects.
FifoOrder ==
    (\A t \in Threads : Joined(t)) =>
        \A i \in 1..Len(order) : val[order[i]] = <<t1, i - 1>>
=============================================================================
