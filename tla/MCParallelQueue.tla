--------------------------- MODULE MCParallelQueue ---------------------------
(* Values for the constants of ParallelQueue.                              *)
EXTENDS ParallelQueue, TLC

CONSTANTS t1, t2, t3, t4

\* Every thread makes two calls, of any operation.
AnyTwo == [t \in Threads |-> <<Ops, Ops>>]

\* As many items enqueued as dequeued: a producer, a thread of mixed_thread's
\* kind and two consumers.
Balanced == [t \in Threads |->
    CASE t = t1 -> << {"enqueue"}, {"enqueue"} >>
      [] t = t2 -> << {"enqueue"}, {"dequeue"} >>
      [] OTHER  -> << {"dequeue"} >>]

\* test_fifo_order: consumers that dequeue once and one producer.
OneProducer == [t \in Threads |->
    IF t = t1 THEN << {"enqueue"}, {"enqueue"} >> ELSE << {"dequeue"} >>]

Symmetry == Permutations(Nodes) \cup Permutations(Threads)
=============================================================================
