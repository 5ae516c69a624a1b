---------------------------- MODULE ParallelQueue ----------------------------
(***************************************************************************)
(* The concurrent FIFO queue of hw4/queue.c at the granularity of its      *)
(* mutex: what a thread does between two operations on queue.mutex and     *)
(* the condition variables is split where an unlocked reader (size,        *)
(* visited, waiting) could see the difference.                             *)
(*                                                                         *)
(* Both linked lists are kept as the code keeps them.  A QueueItem is a    *)
(* heap cell that free() makes available to the next malloc; the           *)
(* WaitingThread record lives in the stack frame of the dequeue call, so   *)
(* it is named by its thread.  items and sleepers are history variables:   *)
(* the contents of the two lists, which no guard of the code's reads.      *)
(***************************************************************************)
EXTENDS Naturals, Sequences, FiniteSets

CONSTANTS Threads,   \* the threads that share the queue
          Nodes,     \* the heap cells malloc can hand out for a QueueItem
          NULL,
          Script,    \* Script[t]: for each call of t, the operations it may be
          JoinFirst, \* does the owner join every thread before destroyQueue?
          Spurious   \* may cnd_wait return without a signal?

Ops == {"enqueue", "dequeue", "tryDequeue"}

ASSUME QueueAssumption ==
    /\ NULL \notin Threads \cup Nodes
    /\ IsFiniteSet(Threads)
    /\ Script \in [Threads -> Seq(SUBSET Ops)]
    /\ JoinFirst \in BOOLEAN /\ Spurious \in BOOLEAN

VARIABLES
    \* the fields of the global struct Queue
    head, tail, count, visitedCount, mutex,
    waitingHead, waitingTail, waitingCount,
    \* the heap: live cells and the fields of every QueueItem
    allocated, next, data,
    \* the fields of the WaitingThread record in each thread's stack frame
    wnext, isWaiting,
    \* the threads: control state, newItem, argument or result, calls made
    pc, newItem, val, calls,
    \* the life of the queue as its owner drives it
    phase,
    \* history: the contents of the two lists, oldest first
    items, sleepers

queueVars == <<head, tail, count, visitedCount>>
waitVars  == <<waitingHead, waitingTail, waitingCount, wnext, isWaiting, sleepers>>
heapVars  == <<allocated, next, data>>
vars == <<queueVars, mutex, waitVars, heapVars, pc, newItem, val, calls, phase, items>>

VisitedSize == visitedCount  \* mutant of size: the wrong field

\* The lock-free accessors: plain loads of one field each.
size    == count
visited == visitedCount
waiting == waitingCount

\* What each mtx_lock call (and the re-lock inside cnd_wait) leads to.
Locked == [e_lock |-> "e_link", d_lock |-> "d_test", t_lock |-> "t_test",
           d_relock |-> "d_check"]

Init ==
    /\ head = NULL /\ tail = NULL /\ count = 0 /\ visitedCount = 0
    /\ mutex = NULL
    /\ waitingHead = NULL /\ waitingTail = NULL /\ waitingCount = 0
    /\ allocated = {}
    /\ next = [n \in Nodes |-> NULL]
    /\ data = [n \in Nodes |-> NULL]
    /\ wnext = [t \in Threads |-> NULL]
    /\ isWaiting = [t \in Threads |-> FALSE]
    /\ pc = [t \in Threads |-> "idle"]
    /\ newItem = [t \in Threads |-> NULL]
    /\ val = [t \in Threads |-> NULL]
    /\ calls = [t \in Threads |-> 0]
    /\ phase = "down"
    /\ items = <<>> /\ sleepers = <<>>
-----------------------------------------------------------------------------
(* The owner: initQueue and destroyQueue.                                  *)

initQueue ==
    /\ phase = "down"
    /\ phase' = "up"
    /\ head' = NULL /\ tail' = NULL /\ count' = 0 /\ visitedCount' = 0
    /\ waitingHead' = NULL /\ waitingTail' = NULL /\ waitingCount' = 0
    /\ mutex' = NULL
    /\ UNCHANGED <<heapVars, wnext, isWaiting, sleepers, pc, newItem, val, calls, items>>

Joined(t) == pc[t] = "idle" /\ calls[t] = Len(Script[t])

\* The owner destroys the queue when no thread is in a call.
destroyQueue ==
    /\ phase = "up"
    /\ \A t \in Threads : pc[t] = "idle" /\ (JoinFirst => Joined(t))
    /\ phase' = "destroying"
    /\ UNCHANGED <<queueVars, mutex, waitVars, heapVars, pc, newItem, val, calls, items>>

\* Mutant of DestroyItem: the cell is unlinked and not freed.
LeakyDestroyItem ==
    /\ phase = "destroying"
    /\ head # NULL
    /\ head' = next[head]
    /\ items' = Tail(items)
    /\ UNCHANGED <<tail, count, visitedCount, mutex, waitVars, heapVars, pc,
                   newItem, val, calls, phase>>

\* One turn of the first loop: free(temp) for the cell at the head.
DestroyItem ==
    /\ phase = "destroying"
    /\ head # NULL
    /\ allocated' = allocated \ {head}
    /\ head' = next[head]
    /\ items' = Tail(items)
    /\ UNCHANGED <<tail, count, visitedCount, mutex, waitVars, next, data, pc,
                   newItem, val, calls, phase>>

\* Both loops are over; tail and the counters keep their last values.
DestroyEnd ==
    /\ phase = "destroying"
    /\ head = NULL
    /\ waitingHead' = NULL
    /\ phase' = "down"
    /\ UNCHANGED <<queueVars, mutex, waitingTail, waitingCount, wnext, isWaiting,
                   sleepers, heapVars, pc, newItem, val, calls, items>>
-----------------------------------------------------------------------------
(* The threads.                                                            *)

\* An enqueue call is known by its caller and its number: every item differs.
Item(t) == <<t, calls[t]>>

\* The caller is between two calls and its next one is o.
Calls(t, o) ==
    /\ phase = "up" /\ pc[t] = "idle"
    /\ calls[t] < Len(Script[t])
    /\ o \in Script[t][calls[t] + 1]

\* Mutant of Lock: the mutex is taken from its holder.
CarelessLock(t) ==
    /\ pc[t] \in DOMAIN Locked
    /\ mutex' = t
    /\ pc' = [pc EXCEPT ![t] = Locked[pc[t]]]
    /\ UNCHANGED <<queueVars, waitVars, heapVars, newItem, val, calls, phase, items>>

\* mtx_lock, and the lock cnd_wait takes again before it returns.
Lock(t) ==
    /\ pc[t] \in DOMAIN Locked
    /\ mutex = NULL
    /\ mutex' = t
    /\ pc' = [pc EXCEPT ![t] = Locked[pc[t]]]
    /\ UNCHANGED <<queueVars, waitVars, heapVars, newItem, val, calls, phase, items>>

\* enqueue, up to the lock: a cell is allocated and filled.
CallEnqueue(t) ==
    /\ Calls(t, "enqueue")
    /\ \E n \in Nodes \ allocated :
          /\ allocated' = allocated \cup {n}
          /\ data' = [data EXCEPT ![n] = Item(t)]
          /\ next' = [next EXCEPT ![n] = NULL]
          /\ newItem' = [newItem EXCEPT ![t] = n]
    /\ val' = [val EXCEPT ![t] = Item(t)]
    /\ calls' = [calls EXCEPT ![t] = @ + 1]
    /\ pc' = [pc EXCEPT ![t] = "e_lock"]
    /\ UNCHANGED <<queueVars, mutex, waitVars, phase, items>>

EnqueueLink(t) ==
    /\ pc[t] = "e_link"
    /\ head' = IF tail = NULL THEN newItem[t] ELSE head
    /\ next' = IF tail = NULL THEN next ELSE [next EXCEPT ![tail] = newItem[t]]
    /\ tail' = newItem[t]
    /\ count' = count + 1
    /\ items' = Append(items, newItem[t])
    /\ newItem' = [newItem EXCEPT ![t] = NULL]
    /\ pc' = [pc EXCEPT ![t] = "e_wake"]
    /\ UNCHANGED <<visitedCount, mutex, waitVars, allocated, data, val, calls, phase>>

LostSignal(w) == pc[w]         \* mutant of Signalled: no cnd_signal
DanglingWaiter == waitingTail  \* mutant of TailAfterWake: no reset

\* cnd_signal ends the cnd_wait of the record's only waiter, if it is in one.
Signalled(w) == IF pc[w] = "d_wait" THEN "d_relock" ELSE pc[w]

TailAfterWake == IF waitingHead' = NULL THEN NULL ELSE waitingTail

\* Pop the oldest WaitingThread and wake its thread, then unlock.
EnqueueWake(t) ==
    /\ pc[t] = "e_wake"
    /\ mutex' = NULL
    /\ IF waitingHead # NULL
       THEN /\ waitingHead' = wnext[waitingHead]
            /\ waitingTail' = TailAfterWake
            /\ waitingCount' = waitingCount - 1
            /\ isWaiting' = [isWaiting EXCEPT ![waitingHead] = FALSE]
            /\ sleepers' = Tail(sleepers)
            /\ pc' = [pc EXCEPT ![waitingHead] = Signalled(waitingHead), ![t] = "idle"]
       ELSE /\ pc' = [pc EXCEPT ![t] = "idle"]
            /\ UNCHANGED <<waitingHead, waitingTail, waitingCount, isWaiting, sleepers>>
    /\ UNCHANGED <<queueVars, wnext, heapVars, newItem, val, calls, phase, items>>

CallDequeue(t) ==
    /\ \/ Calls(t, "dequeue") /\ pc' = [pc EXCEPT ![t] = "d_lock"]
       \/ Calls(t, "tryDequeue") /\ pc' = [pc EXCEPT ![t] = "t_lock"]
    /\ calls' = [calls EXCEPT ![t] = @ + 1]
    /\ UNCHANGED <<queueVars, mutex, waitVars, heapVars, newItem, val, phase, items>>

\* The queue is empty: append the WaitingThread record and enter cnd_wait.
DequeueSleep(t) ==
    /\ pc[t] = "d_test"
    /\ count = 0
    /\ isWaiting' = [isWaiting EXCEPT ![t] = TRUE]
    /\ waitingHead' = IF waitingTail = NULL THEN t ELSE waitingHead
    /\ wnext' = IF waitingTail = NULL THEN [wnext EXCEPT ![t] = NULL]
                ELSE [wnext EXCEPT ![t] = NULL, ![waitingTail] = t]
    /\ waitingTail' = t
    /\ waitingCount' = waitingCount + 1
    /\ sleepers' = Append(sleepers, t)
    /\ mutex' = NULL
    /\ pc' = [pc EXCEPT ![t] = "d_wait"]
    /\ UNCHANGED <<queueVars, heapVars, newItem, val, calls, phase, items>>

SpuriousWakeup(t) ==
    /\ Spurious
    /\ pc[t] = "d_wait"
    /\ pc' = [pc EXCEPT ![t] = "d_relock"]
    /\ UNCHANGED <<queueVars, mutex, waitVars, heapVars, newItem, val, calls, phase, items>>

\* cnd_wait returned, the record is still marked: wait again.
DequeueRewait(t) ==
    /\ pc[t] = "d_check"
    /\ isWaiting[t]
    /\ mutex' = NULL
    /\ pc' = [pc EXCEPT ![t] = "d_wait"]
    /\ UNCHANGED <<queueVars, waitVars, heapVars, newItem, val, calls, phase, items>>

\* Mutant of DequeueResume: the woken thread counts itself out again.
DoubleResume(t) ==
    /\ pc[t] = "d_check"
    /\ ~isWaiting[t]
    /\ waitingCount' = waitingCount - 1
    /\ pc' = [pc EXCEPT ![t] = "d_test"]
    /\ UNCHANGED <<queueVars, mutex, waitingHead, waitingTail, wnext, isWaiting,
                   sleepers, heapVars, newItem, val, calls, phase, items>>

\* cnd_wait returned and the mark is gone: leave the list, test count again.
DequeueResume(t) ==
    /\ pc[t] = "d_check"
    /\ ~isWaiting[t]
    /\ waitingHead' = IF waitingHead = t THEN wnext[t] ELSE waitingHead
    /\ waitingTail' = IF waitingTail = t THEN NULL ELSE waitingTail
    /\ pc' = [pc EXCEPT ![t] = "d_test"]
    /\ UNCHANGED <<queueVars, mutex, waitingCount, wnext, isWaiting, sleepers,
                   heapVars, newItem, val, calls, phase, items>>

DanglingTail == tail  \* mutant of TailAfterRemove: no reset

TailAfterRemove == IF head' = NULL THEN NULL ELSE tail

\* Unlink the cell at the head, hand out its data, free it and unlock.
RemoveHead(t) ==
    /\ count # 0
    /\ head' = next[head]
    /\ tail' = TailAfterRemove
    /\ count' = count - 1
    /\ visitedCount' = visitedCount + 1
    /\ val' = [val EXCEPT ![t] = data[head]]
    /\ allocated' = allocated \ {head}
    /\ items' = Tail(items)
    /\ mutex' = NULL
    /\ pc' = [pc EXCEPT ![t] = "idle"]
    /\ UNCHANGED <<waitVars, next, data, newItem, calls, phase>>

DequeueTake(t) == pc[t] = "d_test" /\ RemoveHead(t)

TryDequeueTake(t) == pc[t] = "t_test" /\ RemoveHead(t)

\* Mutant of TryDequeueFail: the call gives up without looking at count.
HastyFail(t) ==
    /\ pc[t] = "t_test"
    /\ mutex' = NULL
    /\ pc' = [pc EXCEPT ![t] = "idle"]
    /\ UNCHANGED <<queueVars, waitVars, heapVars, newItem, val, calls, phase, items>>

TryDequeueFail(t) ==
    /\ pc[t] = "t_test"
    /\ count = 0
    /\ mutex' = NULL
    /\ pc' = [pc EXCEPT ![t] = "idle"]
    /\ UNCHANGED <<queueVars, waitVars, heapVars, newItem, val, calls, phase, items>>
-----------------------------------------------------------------------------
\* A thread that is in a call goes on running.
Step(t) ==
    \/ Lock(t)
    \/ EnqueueLink(t) \/ EnqueueWake(t)
    \/ DequeueSleep(t) \/ DequeueRewait(t) \/ DequeueResume(t) \/ DequeueTake(t)
    \/ TryDequeueTake(t) \/ TryDequeueFail(t)

Call(t) == CallEnqueue(t) \/ CallDequeue(t)

Owner == initQueue \/ destroyQueue \/ DestroyItem \/ DestroyEnd

Next ==
    \/ Owner
    \/ \E t \in Threads : Call(t) \/ Step(t) \/ SpuriousWakeup(t)

Spec == Init /\ [][Next]_vars

\* The scheduler runs every thread that can run, and the owner brings the
\* queue up.  mtx_lock promises no more than that, so Lock is only weakly fair.
FairSpec ==
    /\ Spec
    /\ WF_vars(initQueue)
    /\ \A t \in Threads : WF_vars(Call(t)) /\ WF_vars(Step(t))
-----------------------------------------------------------------------------
(* Properties.                                                             *)

Pcs == {"idle", "e_lock", "e_link", "e_wake", "d_lock", "d_test", "d_wait",
        "d_relock", "d_check", "t_lock", "t_test"}

\* Every variable keeps the type its C declaration gives it; the size_t
\* counters never go below zero.
TypeOK ==
    /\ head \in Nodes \cup {NULL} /\ tail \in Nodes \cup {NULL}
    /\ count \in Nat /\ visitedCount \in Nat /\ waitingCount \in Nat
    /\ mutex \in Threads \cup {NULL}
    /\ waitingHead \in Threads \cup {NULL} /\ waitingTail \in Threads \cup {NULL}
    /\ allocated \subseteq Nodes
    /\ next \in [Nodes -> Nodes \cup {NULL}]
    /\ data \in [Nodes -> (Threads \X Nat) \cup {NULL}]
    /\ wnext \in [Threads -> Threads \cup {NULL}]
    /\ isWaiting \in [Threads -> BOOLEAN]
    /\ pc \in [Threads -> Pcs]
    /\ newItem \in [Threads -> Nodes \cup {NULL}]
    /\ val \in [Threads -> (Threads \X Nat) \cup {NULL}]
    /\ calls \in [Threads -> Nat]
    /\ phase \in {"down", "up", "destroying"}
    /\ items \in Seq(Nodes) /\ sleepers \in Seq(Threads)

\* first and link chain the cells of s, in that order and each once, to NULL.
IsChain(s, first, link) ==
    /\ first = IF s = <<>> THEN NULL ELSE s[1]
    /\ \A i \in 1..Len(s) : link[s[i]] = IF i = Len(s) THEN NULL ELSE s[i + 1]
    /\ \A i, j \in 1..Len(s) : s[i] = s[j] => i = j

LastOf(s) == IF s = <<>> THEN NULL ELSE s[Len(s)]

Elements(s) == {s[i] : i \in 1..Len(s)}

\* The cell an enqueue call has allocated and not linked yet.
Pending(t) == pc[t] \in {"e_lock", "e_link"}

\* head, tail and the next pointers always describe the items in the order
\* they were linked, count is their number, and no cell on the list, or about
\* to be linked, has been freed or is used twice (queue.c:76-82, 140-152).
ItemListSound ==
    /\ phase # "down" => IsChain(items, head, next)
    /\ phase = "up" => tail = LastOf(items) /\ count = Len(items)
    /\ Elements(items) \subseteq allocated
    /\ \A t \in Threads : Pending(t) =>
          /\ newItem[t] \in allocated \ Elements(items)
          /\ next[newItem[t]] = NULL
          /\ \A u \in Threads : Pending(u) /\ newItem[u] = newItem[t] => u = t

\* A thread that sleeps: it is in the wait loop and no enqueue chose it.
Asleep == {t \in Threads : pc[t] \in {"d_wait", "d_relock", "d_check"} /\ isWaiting[t]}

\* The waiting list always describes exactly the threads asleep, oldest
\* first: it never holds a record whose dequeue call has gone on, so enqueue
\* never writes into a dead stack frame (queue.c:88-97, 113-119, 130-135).
WaitListSound ==
    /\ phase = "up" => /\ IsChain(sleepers, waitingHead, wnext)
                       /\ waitingTail = LastOf(sleepers)
                       /\ waitingCount = Len(sleepers)
    /\ Elements(sleepers) = Asleep
    /\ \A t \in Threads : pc[t] = "d_wait" => isWaiting[t]

\* Exactly the holder of queue.mutex is between a lock and its unlock.
MutexSound ==
    \A t \in Threads : pc[t] \in {"e_link", "e_wake", "d_test", "d_check", "t_test"}
                       <=> mutex = t

\* The threads that will test count without sleeping first: those enqueue
\* has woken and the one that is about to test.
Takers == {t \in Threads : \/ pc[t] \in {"d_relock", "d_check"} /\ ~isWaiting[t]
                           \/ pc[t] = "d_test"}

\* No lost wakeup: while a thread sleeps, every item in the queue has a
\* thread of its own that is awake and on its way to take it, or an enqueue
\* that is about to wake one (queue.c:88-97 against 107-137).
NoLostWakeup ==
    sleepers # <<>> =>
        count <= Cardinality(Takers)
                 + (IF \E t \in Threads : pc[t] = "e_wake" THEN 1 ELSE 0)

\* size() and waiting() are exact whenever no thread is between a lock and an
\* unlock (queue.c:188-200).
CountersExact ==
    phase = "up" /\ mutex = NULL =>
        size = Cardinality(Elements(items)) /\ waiting = Cardinality(Asleep)

\* Every live heap cell is on the list or about to be: dequeue, tryDequeue
\* and destroyQueue free each cell once and leak none (queue.c:50-54, 152, 178).
NoLeak == allocated = Elements(items) \cup {newItem[t] : t \in {u \in Threads : Pending(u)}}

Abstract == INSTANCE FIFOQueue WITH
    q      <- [i \in 1..Len(items) |-> data[items[i]]],
    passed <- visitedCount,
    op     <- [t \in Threads |->
                 CASE pc[t] = "idle" -> "idle"
                   [] pc[t] \in {"e_lock", "e_link"} -> "enqueue"
                   [] pc[t] = "e_wake" -> "enqueued"
                   [] pc[t] \in {"t_lock", "t_test"} -> "tryDequeue"
                   [] OTHER -> "dequeue"]

\* The library is linearizable: every call takes effect at once, items leave
\* in the order they came, each to one caller, none is lost, and visited()
\* counts exactly the items removed (queue.c:69-185).
Linearizable == Abstract!Spec

\* An item and a thread that wants one do not stay apart: from some point on
\* the queue is empty or no thread is in dequeue (queue.c:102-157).
Drained == <>[](count = 0 \/ \A t \in Threads : pc[t] \in {"idle", "e_lock", "t_lock"})

\* When as many items are enqueued as dequeued, every thread comes to its
\* end, as the joins of the tests expect (test_queue.c:83-86).
AllJoin == <>(\A t \in Threads : Joined(t))
=============================================================================
