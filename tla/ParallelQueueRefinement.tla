----------------------- MODULE ParallelQueueRefinement ------------------------
(***************************************************************************)
(* ParallelQueue implements FIFOQueue, loses no heap cell and counts       *)
(* exactly, for any set of threads, any number of cells and any calls.     *)
(***************************************************************************)
EXTENDS ParallelQueueProofs

\* The cells that enqueue calls have allocated and not linked yet.
PendingCells == {newItem[t] : t \in {u \in Threads : Pending(u)}}

\* Such a cell holds its caller's argument.
PendingData == \A t \in Threads : Pending(t) => data[newItem[t]] = val[t]

USE QueueAssumption

-----------------------------------------------------------------------------
(* The counters.                                                           *)

\* A list without repetitions has as many elements as it is long.
LEMMA DistinctElements ==
    ASSUME NEW S, NEW s \in Seq(S), \A i, j \in 1..Len(s) : s[i] = s[j] => i = j
    PROVE  Cardinality(Elements(s)) = Len(s)
<1> DEFINE f == [i \in 1..Len(s) |-> s[i]]
<1>1. f \in Bijection(1..Len(s), Elements(s))
  BY DEF Bijection, Injection, Surjection, IsInjective, Elements
<1>2. ExistsBijection(1..Len(s), Elements(s)) /\ Len(s) \in Nat
  BY <1>1 DEF ExistsBijection
<1> QED BY <1>2, FS_CountingElements

\* size() and waiting() are exact: queue.c changes each counter in the same
\* critical section as its list, on every path.
THEOREM CountersCorrect == Spec => []CountersExact
<1>1. ASSUME IInv PROVE CountersExact
  <2> SUFFICES ASSUME phase = "up"
               PROVE  size = Cardinality(Elements(items)) /\ waiting = Cardinality(Asleep)
    BY DEF CountersExact
  <2>1. items \in Seq(Nodes) /\ sleepers \in Seq(Threads)
    BY <1>1 DEF IInv, TypeOK
  <2>2. IsChain(items, head, next) /\ IsChain(sleepers, waitingHead, wnext)
    BY <1>1 DEF IInv, ItemListSound, WaitListSound
  <2>3. Cardinality(Elements(items)) = Len(items)
    BY <2>1, <2>2, DistinctElements DEF IsChain
  <2>4. Cardinality(Elements(sleepers)) = Len(sleepers)
    BY <2>1, <2>2, DistinctElements DEF IsChain
  <2> QED BY <1>1, <2>3, <2>4 DEF IInv, ItemListSound, WaitListSound, size, waiting
<1> QED BY Invariance, <1>1, PTL
-----------------------------------------------------------------------------
(* The heap.                                                               *)

\* Steps that neither allocate, link nor free a cell.
Idle(t) == Lock(t) \/ EnqueueWake(t) \/ DequeueSleep(t) \/ DequeueRewait(t)
           \/ DequeueResume(t) \/ TryDequeueFail(t) \/ CallDequeue(t) \/ SpuriousWakeup(t)

\* They move no thread into or out of the part of enqueue before the link.
LEMMA IdleFrame ==
    ASSUME IInv, NEW t \in Threads, Idle(t)
    PROVE  /\ \A u \in Threads : Pending(u)' <=> Pending(u)
           /\ UNCHANGED <<queueVars, heapVars, newItem, val, phase, items>>
<1> USE DEF IInv, TypeOK, Pending, Pcs
<1>1. CASE EnqueueWake(t)
  <2>1. CASE waitingHead = NULL
    BY <1>1, <2>1 DEF EnqueueWake
  <2>2. CASE waitingHead # NULL
    <3>1. waitingHead \in Threads /\ pc[waitingHead] \notin {"e_lock", "e_link"}
      <4>1. /\ sleepers \in Seq(Threads) /\ wnext \in [Threads -> Threads \cup {NULL}]
            /\ NULL \notin Threads /\ IsChain(sleepers, waitingHead, wnext)
        BY <1>1 DEF EnqueueWake, WaitListSound, Lifecycle
      <4>2. waitingHead \in Elements(sleepers)
        BY <2>2, <4>1, ChainTail
      <4> QED BY <4>2 DEF WaitListSound, Asleep
    <3>2. pc' = [pc EXCEPT ![waitingHead] = Signalled(waitingHead), ![t] = "idle"]
      BY <1>1, <2>2 DEF EnqueueWake
    <3>3. Signalled(waitingHead) \notin {"e_lock", "e_link"}
      BY <3>1 DEF Signalled
    <3>4. \A u \in Threads : Pending(u)' <=> Pending(u)
      BY <1>1, <3>1, <3>2, <3>3 DEF EnqueueWake
    <3> QED BY <1>1, <3>4 DEF EnqueueWake
  <2> QED BY <2>1, <2>2
<1>2. CASE Lock(t)
  BY <1>2 DEF Lock, Locked
<1>3. CASE DequeueSleep(t) \/ DequeueRewait(t) \/ DequeueResume(t) \/ TryDequeueFail(t)
  BY <1>3 DEF DequeueSleep, DequeueRewait, DequeueResume, TryDequeueFail, queueVars, heapVars
<1>4. CASE CallDequeue(t) \/ SpuriousWakeup(t)
  BY <1>4 DEF CallDequeue, Calls, SpuriousWakeup
<1> QED BY <1>1, <1>2, <1>3, <1>4 DEF Idle

\* What is known of the cells, in the form the steps below use.
HeapInv == allocated = Elements(items) \cup PendingCells /\ PendingData

LEMMA HeapFrame ==
    ASSUME HeapInv, \A u \in Threads : Pending(u)' <=> Pending(u),
           UNCHANGED <<allocated, data, newItem, val, items>>
    PROVE  HeapInv'
BY DEF HeapInv, PendingCells, PendingData, Elements

LEMMA HeapCallEnqueue ==
    ASSUME IInv, HeapInv, NEW t \in Threads, CallEnqueue(t)
    PROVE  HeapInv'
<1>1. PICK n \in Nodes \ allocated :
          /\ allocated' = allocated \cup {n}
          /\ data' = [data EXCEPT ![n] = Item(t)]
          /\ newItem' = [newItem EXCEPT ![t] = n]
  BY DEF CallEnqueue
<1>2. /\ val' = [val EXCEPT ![t] = Item(t)] /\ items' = items
      /\ pc[t] = "idle" /\ pc' = [pc EXCEPT ![t] = "e_lock"]
  BY DEF CallEnqueue, Calls
<1>3. ~Pending(t) /\ Pending(t)'
      /\ \A u \in Threads : u # t => (Pending(u)' <=> Pending(u)) /\ newItem'[u] = newItem[u]
  BY <1>1, <1>2 DEF IInv, TypeOK, Pending
<1>4. newItem'[t] = n /\ data'[n] = Item(t) /\ val'[t] = Item(t)
  BY <1>1, <1>2 DEF IInv, TypeOK
<1>5. PendingCells' = PendingCells \cup {n}
  BY <1>3, <1>4 DEF PendingCells
<1>6. PendingData'
  <2> SUFFICES ASSUME NEW u \in Threads, Pending(u)'
               PROVE  data'[newItem'[u]] = val'[u]
    BY DEF PendingData
  <2>1. CASE u = t
    BY <1>4, <2>1
  <2>2. CASE u # t
    <3>1. Pending(u) /\ newItem'[u] = newItem[u] /\ val'[u] = val[u]
      BY <1>2, <1>3, <2>2 DEF IInv, TypeOK
    <3>2. newItem[u] \in allocated
      BY <3>1 DEF IInv, ItemListSound
    <3>3. data'[newItem[u]] = data[newItem[u]]
      BY <1>1, <3>2 DEF IInv, TypeOK
    <3> QED BY <3>1, <3>3 DEF HeapInv, PendingData
  <2> QED BY <2>1, <2>2
<1> QED BY <1>1, <1>2, <1>5, <1>6 DEF HeapInv, Elements

LEMMA AppendEffect ==
    ASSUME NEW S, NEW s \in Seq(S), NEW x \in S
    PROVE  /\ Len(Append(s, x)) = Len(s) + 1 /\ Len(s) \in Nat
           /\ \A i \in 1..Len(s) : Append(s, x)[i] = s[i]
           /\ Append(s, x)[Len(s) + 1] = x
           /\ Elements(Append(s, x)) = Elements(s) \cup {x}
<1> DEFINE a == Append(s, x)
<1>1. /\ Len(a) = Len(s) + 1 /\ Len(s) \in Nat
      /\ \A i \in 1..Len(s) : a[i] = s[i]
      /\ a[Len(s) + 1] = x
  OBVIOUS
<1> HIDE DEF a
<1>2. 1..Len(a) = 1..Len(s) \cup {Len(s) + 1}
  BY <1>1
<1>3. Elements(a) = Elements(s) \cup {x}
  BY <1>1, <1>2 DEF Elements
<1> QED BY <1>1, <1>3 DEF a

LEMMA HeapLink ==
    ASSUME IInv, HeapInv, NEW t \in Threads, EnqueueLink(t)
    PROVE  HeapInv'
<1>1. /\ pc[t] = "e_link" /\ pc' = [pc EXCEPT ![t] = "e_wake"]
      /\ items' = Append(items, newItem[t]) /\ newItem' = [newItem EXCEPT ![t] = NULL]
      /\ UNCHANGED <<allocated, data, val>>
  BY DEF EnqueueLink
<1>2. Pending(t) /\ ~Pending(t)'
      /\ \A u \in Threads : u # t => (Pending(u)' <=> Pending(u)) /\ newItem'[u] = newItem[u]
  BY <1>1 DEF IInv, TypeOK, Pending
<1>3. newItem[t] \in Nodes /\ items \in Seq(Nodes)
  BY <1>2 DEF IInv, TypeOK, ItemListSound
<1>4. Elements(items') = Elements(items) \cup {newItem[t]}
  BY <1>1, <1>3, AppendEffect
<1>5. PendingCells \cup {newItem[t]} = PendingCells' \cup {newItem[t]}
  BY <1>2 DEF PendingCells
<1>6. newItem[t] \in PendingCells
  BY <1>2 DEF PendingCells
<1>7. PendingData'
  BY <1>1, <1>2 DEF HeapInv, PendingData
<1> QED BY <1>1, <1>4, <1>5, <1>6, <1>7 DEF HeapInv

\* head is the first cell of the list, and only of the list.
LEMMA HeadCell ==
    ASSUME IInv, phase # "down", head # NULL
    PROVE  /\ head \in Nodes /\ items # <<>> /\ head = items[1]
           /\ Elements(Tail(items)) = Elements(items) \ {head}
           /\ head \in Elements(items) /\ head \notin PendingCells
<1>1. items \in Seq(Nodes) /\ next \in [Nodes -> Nodes \cup {NULL}] /\ NULL \notin Nodes
      /\ IsChain(items, head, next)
  BY DEF IInv, TypeOK, ItemListSound
<1>2. /\ head \in Nodes /\ items # <<>> /\ head = items[1] /\ head \in Elements(items)
      /\ Elements(Tail(items)) = Elements(items) \ {head}
  BY <1>1, ChainTail
<1>3. head \notin PendingCells
  BY <1>2 DEF IInv, ItemListSound, PendingCells
<1> QED BY <1>2, <1>3

LEMMA HeapRemove ==
    ASSUME IInv, HeapInv, NEW t \in Threads, DequeueTake(t) \/ TryDequeueTake(t)
    PROVE  HeapInv' /\ head # NULL /\ phase = "up"
<1>1. /\ pc[t] \in {"d_test", "t_test"} /\ pc' = [pc EXCEPT ![t] = "idle"] /\ count # 0
      /\ allocated' = allocated \ {head} /\ items' = Tail(items)
      /\ val' = [val EXCEPT ![t] = data[head]] /\ UNCHANGED <<data, newItem>>
  BY DEF DequeueTake, TryDequeueTake, RemoveHead
<1>2. phase = "up"
  BY <1>1 DEF IInv, TypeOK, Lifecycle
<1>3. head # NULL
  BY <1>1, <1>2 DEF IInv, TypeOK, ItemListSound, IsChain
<1>4. \A u \in Threads : (Pending(u)' <=> Pending(u)) /\ (Pending(u) => u # t)
  BY <1>1 DEF IInv, TypeOK, Pending
<1>5. PendingCells' = PendingCells
  BY <1>1, <1>4 DEF PendingCells
<1>6. PendingData'
  BY <1>1, <1>4 DEF HeapInv, PendingData, IInv, TypeOK
<1>7. Elements(items') = Elements(items) \ {head} /\ head \notin PendingCells
  BY <1>1, <1>2, <1>3, HeadCell
<1> QED BY <1>1, <1>2, <1>3, <1>5, <1>6, <1>7 DEF HeapInv

LEMMA HeapOwner ==
    ASSUME IInv, HeapInv, Owner
    PROVE  HeapInv'
<1>1. \A u \in Threads : pc[u] = "idle" /\ pc'[u] = "idle"
  BY DEF Owner, initQueue, destroyQueue, DestroyItem, DestroyEnd, IInv, Lifecycle
<1>2. PendingCells = {} /\ PendingCells' = {} /\ PendingData'
  BY <1>1 DEF PendingCells, PendingData, Pending
<1>3. CASE DestroyItem
  <2>1. /\ phase = "destroying" /\ head # NULL
        /\ allocated' = allocated \ {head} /\ items' = Tail(items)
    BY <1>3 DEF DestroyItem
  <2> QED BY <1>2, <2>1, HeadCell DEF HeapInv
<1>4. CASE ~DestroyItem
  BY <1>2, <1>4 DEF Owner, initQueue, destroyQueue, DestroyEnd, heapVars, HeapInv, Elements
<1> QED BY <1>3, <1>4

LEMMA HeapStep == IInv /\ HeapInv /\ [Next]_vars => HeapInv'
<1> SUFFICES ASSUME IInv, HeapInv, [Next]_vars PROVE HeapInv'
  OBVIOUS
<1>1. ASSUME NEW t \in Threads, Idle(t) PROVE HeapInv'
  BY <1>1, IdleFrame, HeapFrame DEF heapVars
<1>2. CASE UNCHANGED vars
  BY <1>2, HeapFrame DEF vars, heapVars, Pending
<1> QED
  BY <1>1, <1>2, HeapCallEnqueue, HeapLink, HeapRemove, HeapOwner DEF Next, Call, Step, Idle

LEMMA HeapInvariance == Spec => []HeapInv
<1>1. Init => HeapInv
  BY DEF Init, HeapInv, PendingCells, PendingData, Pending, Elements
<1> QED BY <1>1, HeapStep, Invariance, PTL DEF Spec

\* Every live cell is on the list or about to be: dequeue, tryDequeue and
\* destroyQueue lose none, also over destroy and init (queue.c:50-54, 152, 178).
THEOREM NoCellLeaked == Spec => []NoLeak
<1>1. HeapInv => NoLeak
  BY DEF HeapInv, NoLeak, PendingCells
<1> QED BY <1>1, HeapInvariance, PTL
-----------------------------------------------------------------------------
(* The refinement.                                                         *)

\* The state of FIFOQueue that Abstract maps to.
QOf(its, dat) == [i \in 1..Len(its) |-> dat[its[i]]]
Q == QOf(items, data)
OpOf(p) == CASE p = "idle" -> "idle"
             [] p \in {"e_lock", "e_link"} -> "enqueue"
             [] p = "e_wake" -> "enqueued"
             [] p \in {"t_lock", "t_test"} -> "tryDequeue"
             [] OTHER -> "dequeue"
Op == [t \in Threads |-> OpOf(pc[t])]

\* A step of one thread moves its own call only.
LEMMA OpMove ==
    ASSUME IInv, NEW t \in Threads, NEW p, pc' = [pc EXCEPT ![t] = p]
    PROVE  Op' = [Op EXCEPT ![t] = OpOf(p)] /\ Op[t] = OpOf(pc[t])
BY DEF IInv, TypeOK, Op

LEMMA OpSame ==
    ASSUME IInv, NEW t \in Threads, NEW p, pc' = [pc EXCEPT ![t] = p], OpOf(p) = OpOf(pc[t])
    PROVE  Op' = Op
BY DEF IInv, TypeOK, Op

LEMMA QLink ==
    ASSUME IInv, HeapInv, NEW t \in Threads, EnqueueLink(t)
    PROVE  Q' = Append(Q, val[t])
<1>1. items' = Append(items, newItem[t]) /\ data' = data /\ Pending(t)
  BY DEF EnqueueLink, Pending
<1>2. newItem[t] \in Nodes /\ items \in Seq(Nodes) /\ data[newItem[t]] = val[t]
  BY <1>1 DEF IInv, TypeOK, ItemListSound, HeapInv, PendingData
<1> DEFINE n == Len(items)
<1>3. /\ Len(items') = n + 1 /\ n \in Nat
      /\ \A i \in 1..n : items'[i] = items[i]
      /\ items'[n + 1] = newItem[t]
  BY <1>1, <1>2, AppendEffect
<1>4. Q' = [i \in 1..n + 1 |-> IF i = n + 1 THEN val[t] ELSE data[items[i]]]
  BY <1>1, <1>2, <1>3 DEF Q, QOf
<1>5. Q = [i \in 1..n |-> data[items[i]]]
  BY DEF Q, QOf
<1>6. Append(Q, val[t]) = [i \in 1..n + 1 |-> IF i = n + 1 THEN val[t] ELSE data[items[i]]]
  BY <1>3, <1>5
<1> QED BY <1>4, <1>6

\* Taking the first cell off the list takes the first item off the queue.
LEMMA QTail ==
    ASSUME IInv, phase # "down", head # NULL, items' = Tail(items), data' = data
    PROVE  Q # <<>> /\ Q' = Tail(Q) /\ Head(Q) = data[head]
<1>1. items # <<>> /\ head = items[1] /\ items \in Seq(Nodes)
  BY HeadCell DEF IInv, TypeOK
<1> DEFINE n == Len(items)
<1>2. n \in Nat /\ n >= 1 /\ Len(Tail(items)) = n - 1
      /\ \A i \in 1..n - 1 : Tail(items)[i] = items[i + 1]
  BY <1>1
<1>3. Q = [i \in 1..n |-> data[items[i]]]
  BY DEF Q, QOf
<1>4. Q' = [i \in 1..n - 1 |-> data[items[i + 1]]]
  BY <1>2 DEF Q, QOf
<1>5. Q # <<>> /\ Head(Q) = data[head] /\ Tail(Q) = [i \in 1..n - 1 |-> data[items[i + 1]]]
  BY <1>1, <1>2, <1>3
<1> QED BY <1>4, <1>5

LEMMA QEmpty ==
    ASSUME IInv
    PROVE  Q = <<>> <=> items = <<>>
<1>1. items \in Seq(Nodes) /\ Len(items) \in Nat
  BY DEF IInv, TypeOK
<1>2. Q = [i \in 1..Len(items) |-> data[items[i]]]
  BY DEF Q, QOf
<1>3. Len(Q) = Len(items)
  BY <1>1, <1>2
<1> QED BY <1>1, <1>2, <1>3

LEMMA AbstractVars == Abstract!vars = <<Q, visitedCount, Op, val>>
BY DEF Abstract!vars, Q, QOf, Op, OpOf

LEMMA AbstractInit == Init => Abstract!Init
<1> SUFFICES ASSUME Init PROVE Abstract!Init
  OBVIOUS
<1>1. Q = <<>>
  BY DEF Init, Q, QOf
<1>2. Op = [t \in Threads |-> "idle"]
  BY DEF Init, Op, OpOf
<1> QED BY <1>1, <1>2 DEF Init, Abstract!Init, Q, QOf, Op, OpOf

\* A step that shows nothing to the callers.
LEMMA Stutter ==
    ASSUME Q' = Q, visitedCount' = visitedCount, Op' = Op, val' = val
    PROVE  [Abstract!Next]_(Abstract!vars)
BY AbstractVars DEF Abstract!vars, Q, QOf, Op, OpOf

LEMMA CallRefines ==
    ASSUME IInv, HeapInv, NEW t \in Threads, Call(t)
    PROVE  Abstract!Invoke(t)
<1>1. pc[t] = "idle" /\ visitedCount' = visitedCount /\ items' = items
  BY DEF Call, CallEnqueue, CallDequeue, Calls, queueVars
<1>2. \E p \in {"e_lock", "d_lock", "t_lock"} : pc' = [pc EXCEPT ![t] = p]
  BY DEF Call, CallEnqueue, CallDequeue
<1>3. \E o \in {"enqueue", "dequeue", "tryDequeue"} : Op' = [Op EXCEPT ![t] = o]
  <2>1. PICK p \in {"e_lock", "d_lock", "t_lock"} : pc' = [pc EXCEPT ![t] = p]
    BY <1>2
  <2>2. OpOf(p) \in {"enqueue", "dequeue", "tryDequeue"}
    BY <2>1 DEF OpOf
  <2> QED BY <2>1, <2>2, OpMove
<1>4. Op[t] = "idle"
  BY <1>1 DEF Op, OpOf
<1>5. val' = [val EXCEPT ![t] = val'[t]]
  BY DEF Call, CallEnqueue, CallDequeue, IInv, TypeOK
<1>6. Q' = Q
  <2>1. ASSUME NEW i \in 1..Len(items) PROVE data'[items[i]] = data[items[i]]
    <3>1. items[i] \in allocated
      BY DEF IInv, ItemListSound, Elements
    <3> QED BY <3>1 DEF Call, CallEnqueue, CallDequeue, heapVars, IInv, TypeOK
  <2> QED BY <1>1, <2>1 DEF Q, QOf
<1> QED BY <1>1, <1>3, <1>4, <1>5, <1>6 DEF Abstract!Invoke, Q, QOf, Op, OpOf

LEMMA LinkRefines ==
    ASSUME IInv, HeapInv, NEW t \in Threads, EnqueueLink(t)
    PROVE  Abstract!Put(t)
<1>1. /\ pc[t] = "e_link" /\ pc' = [pc EXCEPT ![t] = "e_wake"]
      /\ visitedCount' = visitedCount /\ val' = val
  BY DEF EnqueueLink
<1>2. Op[t] = "enqueue" /\ Op' = [Op EXCEPT ![t] = "enqueued"]
  BY <1>1, OpMove DEF OpOf
<1>3. Q' = Append(Q, val[t])
  BY QLink
<1> QED BY <1>1, <1>2, <1>3 DEF Abstract!Put, Q, QOf, Op, OpOf

LEMMA TakeRefines ==
    ASSUME IInv, HeapInv, NEW t \in Threads, DequeueTake(t) \/ TryDequeueTake(t)
    PROVE  Abstract!Take(t)
<1>1. /\ pc[t] \in {"d_test", "t_test"} /\ pc' = [pc EXCEPT ![t] = "idle"]
      /\ items' = Tail(items) /\ data' = data /\ visitedCount' = visitedCount + 1
      /\ val' = [val EXCEPT ![t] = data[head]]
  BY DEF DequeueTake, TryDequeueTake, RemoveHead
<1>2. Op[t] \in {"dequeue", "tryDequeue"} /\ Op' = [Op EXCEPT ![t] = "idle"]
  BY <1>1, OpMove DEF OpOf
<1>3. Q # <<>> /\ Q' = Tail(Q) /\ Head(Q) = data[head]
  BY <1>1, HeapRemove, QTail
<1>4. val' = [val EXCEPT ![t] = Head(Q)]
  BY <1>1, <1>3
<1> QED BY <1>1, <1>2, <1>3, <1>4 DEF Abstract!Take, Q, QOf, Op, OpOf

LEMMA FailRefines ==
    ASSUME IInv, HeapInv, NEW t \in Threads, TryDequeueFail(t)
    PROVE  Abstract!Fail(t)
<1>1. /\ pc[t] = "t_test" /\ pc' = [pc EXCEPT ![t] = "idle"] /\ count = 0
      /\ items' = items /\ data' = data /\ visitedCount' = visitedCount /\ val' = val
  BY DEF TryDequeueFail, queueVars, heapVars
<1>2. Op[t] = "tryDequeue" /\ Op' = [Op EXCEPT ![t] = "idle"]
  BY <1>1, OpMove DEF OpOf
<1>3. Q = <<>>
  <2>1. phase = "up"
    BY <1>1 DEF IInv, TypeOK, Lifecycle
  <2>2. items = <<>>
    BY <1>1, <2>1 DEF IInv, TypeOK, ItemListSound
  <2> QED BY <2>2, QEmpty
<1>4. Q' = Q
  BY <1>1 DEF Q, QOf
<1> QED BY <1>1, <1>2, <1>3, <1>4 DEF Abstract!Fail, Q, QOf, Op, OpOf

LEMMA WakeRefines ==
    ASSUME IInv, HeapInv, NEW t \in Threads, EnqueueWake(t)
    PROVE  Abstract!Return(t)
<1>1. /\ pc[t] = "e_wake" /\ items' = items /\ data' = data
      /\ visitedCount' = visitedCount /\ val' = val
  BY DEF EnqueueWake, queueVars, heapVars
<1>2. Op[t] = "enqueued" /\ Op' = [Op EXCEPT ![t] = "idle"]
  <2>1. CASE waitingHead = NULL
    BY <1>1, <2>1, OpMove DEF EnqueueWake, OpOf
  <2>2. CASE waitingHead # NULL
    <3>1. waitingHead \in Threads /\ pc[waitingHead] \in {"d_wait", "d_relock", "d_check"}
      <4>1. /\ sleepers \in Seq(Threads) /\ wnext \in [Threads -> Threads \cup {NULL}]
            /\ NULL \notin Threads /\ IsChain(sleepers, waitingHead, wnext)
        BY <1>1 DEF IInv, TypeOK, WaitListSound, Lifecycle
      <4>2. waitingHead \in Elements(sleepers)
        BY <2>2, <4>1, ChainTail
      <4> QED BY <4>2 DEF IInv, WaitListSound, Asleep
    <3>2. pc' = [pc EXCEPT ![waitingHead] = Signalled(waitingHead), ![t] = "idle"]
      BY <2>2 DEF EnqueueWake
    <3>3. /\ OpOf(pc[waitingHead]) = "dequeue" /\ OpOf(Signalled(waitingHead)) = "dequeue"
          /\ OpOf("idle") = "idle" /\ OpOf("e_wake") = "enqueued" /\ waitingHead # t
      BY <1>1, <3>1 DEF Signalled, OpOf
    <3> HIDE DEF OpOf
    <3> QED BY <1>1, <3>1, <3>2, <3>3 DEF Op, IInv, TypeOK
  <2> QED BY <2>1, <2>2
<1>3. Q' = Q
  BY <1>1 DEF Q, QOf
<1> QED BY <1>1, <1>2, <1>3 DEF Abstract!Return, Q, QOf, Op, OpOf

\* The mutex, the waiting list and the wakeups are nobody's business.
LEMMA WaitRefines ==
    ASSUME IInv, HeapInv, NEW t \in Threads,
           Lock(t) \/ DequeueSleep(t) \/ DequeueRewait(t) \/ DequeueResume(t) \/ SpuriousWakeup(t)
    PROVE  [Abstract!Next]_(Abstract!vars)
<1>1. UNCHANGED <<queueVars, heapVars, val, items>>
  BY DEF Lock, DequeueSleep, DequeueRewait, DequeueResume, SpuriousWakeup
<1>2. Op' = Op
  <2>1. CASE Lock(t)
    <3>1. pc[t] \in DOMAIN Locked /\ pc' = [pc EXCEPT ![t] = Locked[pc[t]]]
      BY <2>1 DEF Lock
    <3>2. OpOf(Locked[pc[t]]) = OpOf(pc[t])
      BY <3>1 DEF Locked, OpOf
    <3> QED BY <3>1, <3>2, OpSame
  <2>2. CASE ~Lock(t)
    <3>1. \E p \in {"d_test", "d_wait", "d_relock", "d_check"} :
             pc' = [pc EXCEPT ![t] = p] /\ pc[t] \in {"d_test", "d_wait", "d_check"}
      BY <2>2 DEF DequeueSleep, DequeueRewait, DequeueResume, SpuriousWakeup
    <3> QED BY <3>1, OpSame DEF OpOf
  <2> QED BY <2>1, <2>2
<1>3. Q' = Q
  BY <1>1 DEF Q, QOf, heapVars
<1> QED BY <1>1, <1>2, <1>3, Stutter DEF queueVars

LEMMA OwnerRefines ==
    ASSUME IInv, HeapInv, Owner
    PROVE  [Abstract!Next]_(Abstract!vars)
<1>1. pc' = pc /\ \A u \in Threads : pc[u] = "idle"
  BY DEF Owner, initQueue, destroyQueue, DestroyItem, DestroyEnd, IInv, Lifecycle
<1>2. Op' = Op /\ \A u \in Threads : Op[u] = "idle"
  BY <1>1 DEF Op, OpOf
<1>3. CASE initQueue
  <2>1. /\ items = <<>> /\ items' = items /\ data' = data /\ visitedCount' = 0 /\ val' = val
    BY <1>3 DEF initQueue, heapVars, IInv, Lifecycle
  <2>2. Q = <<>> /\ Q' = Q
    BY <2>1, QEmpty DEF Q, QOf
  <2>3. Abstract!Reset
    BY <1>2, <2>1, <2>2 DEF Abstract!Reset, Q, QOf, Op, OpOf
  <2> QED BY <2>3 DEF Abstract!Next
<1>4. CASE DestroyItem
  <2>1. /\ phase = "destroying" /\ head # NULL /\ items' = Tail(items) /\ data' = data
        /\ visitedCount' = visitedCount /\ val' = val
    BY <1>4 DEF DestroyItem
  <2>2. Q # <<>> /\ Q' = Tail(Q)
    BY <2>1, QTail
  <2>3. Abstract!Discard
    BY <1>2, <2>1, <2>2 DEF Abstract!Discard, Q, QOf, Op, OpOf
  <2> QED BY <2>3 DEF Abstract!Next
<1>5. CASE destroyQueue \/ DestroyEnd
  <2>1. items' = items /\ data' = data /\ visitedCount' = visitedCount /\ val' = val
    BY <1>5 DEF destroyQueue, DestroyEnd, queueVars, heapVars
  <2>2. Q' = Q
    BY <2>1 DEF Q, QOf
  <2> QED BY <1>2, <2>1, <2>2, Stutter
<1> QED BY <1>3, <1>4, <1>5 DEF Owner

LEMMA StepRefines == IInv /\ HeapInv /\ [Next]_vars => [Abstract!Next]_(Abstract!vars)
<1> SUFFICES ASSUME IInv, HeapInv, [Next]_vars PROVE [Abstract!Next]_(Abstract!vars)
  OBVIOUS
<1>1. CASE UNCHANGED vars
  <2>1. Q' = Q /\ visitedCount' = visitedCount /\ Op' = Op /\ val' = val
    BY <1>1 DEF vars, queueVars, heapVars, Q, QOf, Op
  <2> QED BY <2>1, Stutter
<1>2. CASE Owner
  BY <1>2, OwnerRefines
<1>3. ASSUME NEW t \in Threads, Call(t) \/ Step(t) \/ SpuriousWakeup(t)
      PROVE  [Abstract!Next]_(Abstract!vars)
  <2>1. CASE Call(t) \/ EnqueueLink(t) \/ DequeueTake(t) \/ TryDequeueTake(t)
             \/ TryDequeueFail(t) \/ EnqueueWake(t)
    BY <2>1, CallRefines, LinkRefines, TakeRefines, FailRefines, WakeRefines DEF Abstract!Next
  <2>2. CASE Lock(t) \/ DequeueSleep(t) \/ DequeueRewait(t) \/ DequeueResume(t)
             \/ SpuriousWakeup(t)
    BY <2>2, WaitRefines
  <2> QED BY <1>3, <2>1, <2>2 DEF Step
<1> QED BY <1>1, <1>2, <1>3 DEF Next

\* The library is linearizable: between its lock and its unlock every call of
\* enqueue, dequeue and tryDequeue takes effect on a FIFO queue in one step.
THEOREM QueueIsLinearizable == Spec => Linearizable
BY AbstractInit, StepRefines, Invariance, HeapInvariance, PTL
   DEF Spec, Linearizable, Abstract!Spec
=============================================================================
