------------------------------ MODULE FIFOQueue ------------------------------
(***************************************************************************)
(* What the queue library of hw4 promises its callers, with no lock, no    *)
(* list and no sleeping: a FIFO sequence q on which every call takes       *)
(* effect in one indivisible step between its invocation and its return.   *)
(* The library is linearizable when ParallelQueue implements this module.  *)
(***************************************************************************)
EXTENDS Naturals, Sequences

CONSTANTS Threads, NULL

VARIABLES q,       \* the items in the queue, oldest first
          passed,  \* how many items were inserted and then removed
          op,      \* op[t]: the call thread t is in, and whether it took effect
          val      \* val[t]: t's argument before, its result after the effect

vars == <<q, passed, op, val>>

Init ==
    /\ q = <<>>
    /\ passed = 0
    /\ op = [t \in Threads |-> "idle"]
    /\ val = [t \in Threads |-> NULL]

Invoke(t) ==
    /\ op[t] = "idle"
    /\ \E o \in {"enqueue", "dequeue", "tryDequeue"} : op' = [op EXCEPT ![t] = o]
    /\ val' = [val EXCEPT ![t] = val'[t]]   \* any argument
    /\ UNCHANGED <<q, passed>>

Put(t) ==
    /\ op[t] = "enqueue"
    /\ q' = Append(q, val[t])
    /\ op' = [op EXCEPT ![t] = "enqueued"]
    /\ UNCHANGED <<passed, val>>

\* A dequeue and a successful tryDequeue hand the oldest item to their caller.
Take(t) ==
    /\ op[t] \in {"dequeue", "tryDequeue"}
    /\ q # <<>>
    /\ q' = Tail(q)
    /\ passed' = passed + 1
    /\ op' = [op EXCEPT ![t] = "idle"]
    /\ val' = [val EXCEPT ![t] = Head(q)]

\* tryDequeue fails on an empty queue only, and leaves the pointer unchanged.
Fail(t) ==
    /\ op[t] = "tryDequeue"
    /\ q = <<>>
    /\ op' = [op EXCEPT ![t] = "idle"]
    /\ UNCHANGED <<q, passed, val>>

Return(t) ==
    /\ op[t] = "enqueued"
    /\ op' = [op EXCEPT ![t] = "idle"]
    /\ UNCHANGED <<q, passed, val>>

\* Only a destroy, when nobody is in a call, drops items; an init starts anew.
Discard ==
    /\ \A t \in Threads : op[t] = "idle"
    /\ q # <<>>
    /\ q' = Tail(q)
    /\ UNCHANGED <<passed, op, val>>

Reset ==
    /\ \A t \in Threads : op[t] = "idle"
    /\ q = <<>>
    /\ passed' = 0
    /\ UNCHANGED <<q, op, val>>

Next ==
    \/ \E t \in Threads : Invoke(t) \/ Put(t) \/ Take(t) \/ Fail(t) \/ Return(t)
    \/ Discard
    \/ Reset

Spec == Init /\ [][Next]_vars
=============================================================================
