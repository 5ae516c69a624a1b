------------------------- MODULE ParallelQueueProofs -------------------------
(***************************************************************************)
(* Proofs about ParallelQueue, for any set of threads, any number of heap  *)
(* cells and any calls the threads make.                                   *)
(***************************************************************************)
EXTENDS ParallelQueue, FiniteSetTheorems, TLAPS

\* The queue is only used while it is up; once it is down the list is empty.
Lifecycle ==
    /\ phase # "up" => \A t \in Threads : pc[t] = "idle"
    /\ phase = "down" => items = <<>>

\* The inductive invariant: what a thread relies on when it takes the mutex.
IInv == TypeOK /\ MutexSound /\ ItemListSound /\ WaitListSound /\ Lifecycle

-----------------------------------------------------------------------------
(* Linked lists.                                                           *)

\* What enqueue and dequeue make of the first cell and the links of a list
\* when they put the cell x at its end.
FirstWith(s, x, first) == IF LastOf(s) = NULL THEN x ELSE first
LinksWith(s, x, link) ==
    IF LastOf(s) = NULL THEN link ELSE [link EXCEPT ![LastOf(s)] = x]

\* Appending a cell the way enqueue and dequeue do keeps the chain.
LEMMA ChainAppend ==
    ASSUME NEW S, NULL \notin S, NEW s \in Seq(S), NEW first, NEW x \in S,
           NEW link \in [S -> S \cup {NULL}],
           IsChain(s, first, link), x \notin Elements(s), link[x] = NULL
    PROVE  /\ IsChain(Append(s, x), FirstWith(s, x, first), LinksWith(s, x, link))
           /\ LastOf(Append(s, x)) = x
           /\ Elements(Append(s, x)) = Elements(s) \cup {x}
<1> DEFINE a == Append(s, x)
           first2 == FirstWith(s, x, first)
           link2 == LinksWith(s, x, link)
<1> USE DEF FirstWith, LinksWith
<1>1. a \in Seq(S) /\ Len(a) = Len(s) + 1 /\ a[Len(a)] = x /\ a # <<>>
  OBVIOUS
<1>2. \A i \in 1..Len(s) : a[i] = s[i] /\ s[i] \in S /\ s[i] # x
  BY DEF Elements
<1>3. CASE s = <<>>
  BY <1>1, <1>3 DEF IsChain, LastOf, Elements
<1>4. CASE s # <<>>
  <2>1. Len(s) \in Nat /\ Len(s) >= 1 /\ LastOf(s) = s[Len(s)] /\ LastOf(s) # NULL
    BY <1>4, <1>2 DEF LastOf
  <2>2. a[1] = s[1]
    BY <1>2, <2>1
  <2>3. \A i \in 1..Len(a) : link2[a[i]] = IF i = Len(a) THEN NULL ELSE a[i + 1]
    <3> SUFFICES ASSUME NEW i \in 1..Len(a)
                 PROVE  link2[a[i]] = IF i = Len(a) THEN NULL ELSE a[i + 1]
      OBVIOUS
    <3>1. CASE i = Len(a)
      BY <3>1, <1>1, <1>2, <2>1
    <3>2. CASE i = Len(s)
      BY <3>2, <1>1, <1>2, <2>1
    <3>3. CASE i < Len(s)
      <4>1. link[s[i]] = s[i + 1]
        BY <3>3, <2>1 DEF IsChain
      <4>2. s[i] # LastOf(s)
        BY <3>3, <2>1 DEF IsChain
      <4> QED BY <4>1, <4>2, <3>3, <1>1, <1>2, <2>1
    <3> QED BY <3>1, <3>2, <3>3, <1>1, <2>1
  <2>4. \A i, j \in 1..Len(a) : a[i] = a[j] => i = j
    BY <1>1, <1>2 DEF IsChain
  <2>5. Elements(a) = Elements(s) \cup {x}
    BY <1>1, <1>2 DEF Elements
  <2>6. LastOf(a) = x
    BY <1>1 DEF LastOf
  <2>7. IsChain(a, first2, link2)
    BY <2>1, <2>2, <2>3, <2>4, <1>1, <1>4 DEF IsChain
  <2> QED BY <2>1, <2>5, <2>6, <2>7
<1> QED BY <1>3, <1>4

\* Unlinking the first cell keeps the chain, and the last cell unless it was
\* the only one.
LEMMA ChainTail ==
    ASSUME NEW S, NULL \notin S, NEW s \in Seq(S), NEW first,
           NEW link \in [S -> S \cup {NULL}],
           IsChain(s, first, link), first # NULL
    PROVE  /\ s # <<>> /\ first = s[1] /\ first \in S
           /\ IsChain(Tail(s), link[first], link)
           /\ LastOf(Tail(s)) = IF link[first] = NULL THEN NULL ELSE LastOf(s)
           /\ Elements(Tail(s)) = Elements(s) \ {first}
           /\ first \in Elements(s)
           /\ Tail(s) \in Seq(S) /\ Len(Tail(s)) = Len(s) - 1 /\ Len(s) >= 1
<1> DEFINE r == Tail(s)
<1>1. s # <<>> /\ first = s[1] /\ first \in S /\ Len(s) >= 1
  BY DEF IsChain
<1>2. r \in Seq(S) /\ Len(r) = Len(s) - 1 /\ \A i \in 1..Len(r) : r[i] = s[i + 1]
  BY <1>1
<1> HIDE DEF r
<1>3. \A i \in 1..Len(s) : s[i] \in S /\ s[i] # NULL
  OBVIOUS
<1>4. first \in Elements(s)
  BY <1>1 DEF Elements
<1>5. Elements(r) = Elements(s) \ {first}
  <2>1. ASSUME NEW e \in Elements(r) PROVE e \in Elements(s) \ {first}
    <3>1. PICK i \in 1..Len(r) : e = r[i]
      BY <2>1 DEF Elements
    <3>2. i + 1 \in 1..Len(s) /\ e = s[i + 1] /\ 1 \in 1..Len(s)
      BY <3>1, <1>1, <1>2
    <3>3. s[i + 1] # s[1]
      BY <3>2 DEF IsChain
    <3> QED BY <3>2, <3>3, <1>1 DEF Elements
  <2>2. ASSUME NEW e \in Elements(s) \ {first} PROVE e \in Elements(r)
    <3>1. PICK i \in 1..Len(s) : e = s[i]
      BY DEF Elements
    <3>2. i # 1
      BY <3>1, <1>1
    <3>3. i - 1 \in 1..Len(r) /\ r[i - 1] = s[i]
      BY <3>2, <1>1, <1>2
    <3> QED BY <3>1, <3>3 DEF Elements
  <2> QED BY <2>1, <2>2
<1>6. \A i \in 1..Len(r) : link[r[i]] = IF i = Len(r) THEN NULL ELSE r[i + 1]
  <2> SUFFICES ASSUME NEW i \in 1..Len(r)
               PROVE  link[r[i]] = IF i = Len(r) THEN NULL ELSE r[i + 1]
    OBVIOUS
  <2>1. i + 1 \in 1..Len(s) /\ r[i] = s[i + 1]
    BY <1>1, <1>2
  <2>2. link[s[i + 1]] = IF i + 1 = Len(s) THEN NULL ELSE s[(i + 1) + 1]
    BY <2>1 DEF IsChain
  <2>3. CASE i = Len(r)
    BY <2>1, <2>2, <2>3, <1>2
  <2>4. CASE i # Len(r)
    BY <2>1, <2>2, <2>4, <1>2
  <2> QED BY <2>3, <2>4
<1>7. \A i, j \in 1..Len(r) : r[i] = r[j] => i = j
  <2> SUFFICES ASSUME NEW i \in 1..Len(r), NEW j \in 1..Len(r), r[i] = r[j]
               PROVE  i = j
    OBVIOUS
  <2>1. i + 1 \in 1..Len(s) /\ j + 1 \in 1..Len(s) /\ s[i + 1] = s[j + 1]
    BY <1>1, <1>2
  <2>2. i + 1 = j + 1
    BY <2>1 DEF IsChain
  <2> QED BY <2>2
<1>8. link[first] = IF r = <<>> THEN NULL ELSE r[1]
  <2>1. 1 \in 1..Len(s)
    BY <1>1
  <2>2. link[first] = IF 1 = Len(s) THEN NULL ELSE s[1 + 1]
    BY <2>1, <1>1 DEF IsChain
  <2>3. CASE Len(s) = 1
    BY <2>2, <2>3, <1>2
  <2>4. CASE Len(s) # 1
    <3>1. 1 \in 1..Len(r) /\ r # <<>>
      BY <2>4, <1>1, <1>2
    <3> QED BY <3>1, <2>2, <2>4, <1>2
  <2> QED BY <2>3, <2>4
<1>9. LastOf(r) = IF link[first] = NULL THEN NULL ELSE LastOf(s)
  BY <1>1, <1>2, <1>3, <1>8 DEF LastOf
<1> QED BY <1>1, <1>2, <1>4, <1>5, <1>6, <1>7, <1>8, <1>9 DEF IsChain, r

LEMMA NoElements ==
    ASSUME NEW S, NEW s \in Seq(S), Elements(s) = {}
    PROVE  s = <<>>
<1>1. ~(1 \in 1..Len(s))
  BY DEF Elements
<1> QED BY <1>1

\* A chain does not notice a write to a cell that is not on it.
LEMMA ChainFrame ==
    ASSUME NEW S, NEW s \in Seq(S), NEW first, NEW x, NEW v,
           NEW link \in [S -> S \cup {NULL}],
           IsChain(s, first, link), x \notin Elements(s)
    PROVE  IsChain(s, first, [link EXCEPT ![x] = v])
BY DEF IsChain, Elements
-----------------------------------------------------------------------------
(* IInv is inductive: one lemma per action.                                *)

USE QueueAssumption

LEMMA InitIInv == Init => IInv
<1> SUFFICES ASSUME Init PROVE IInv
  OBVIOUS
<1> USE DEF Init
<1>1. TypeOK
  BY DEF TypeOK, Pcs
<1>2. MutexSound
  BY DEF MutexSound
<1>3. ItemListSound
  BY DEF ItemListSound, IsChain, LastOf, Elements, Pending
<1>4. WaitListSound
  BY DEF WaitListSound, IsChain, LastOf, Elements, Asleep
<1>5. Lifecycle
  BY DEF Lifecycle
<1> QED BY <1>1, <1>2, <1>3, <1>4, <1>5 DEF IInv

\* The lists are as they were and so is every thread's part in them.
LEMMA ListsFrame ==
    ASSUME IInv,
           UNCHANGED <<head, tail, count, allocated, next, newItem, phase, items>>,
           UNCHANGED <<waitingHead, waitingTail, waitingCount, wnext, isWaiting, sleepers>>,
           \A u \in Threads : Pending(u)' = Pending(u),
           Asleep' = Asleep,
           \A u \in Threads : pc'[u] = "d_wait" => isWaiting[u]
    PROVE  ItemListSound' /\ WaitListSound'
<1>1. ItemListSound'
  BY DEF IInv, ItemListSound, IsChain, LastOf, Elements
<1>2. WaitListSound'
  BY DEF IInv, WaitListSound, IsChain, LastOf, Elements
<1> QED BY <1>1, <1>2

\* The sleeping threads' list is untouched by a step that changes neither it
\* nor the set of threads asleep.
LEMMA WaitFrame ==
    ASSUME IInv, UNCHANGED phase,
           UNCHANGED <<waitingHead, waitingTail, waitingCount, wnext, isWaiting, sleepers>>,
           Asleep' = Asleep,
           \A u \in Threads : pc'[u] = "d_wait" => isWaiting[u]
    PROVE  WaitListSound'
BY DEF IInv, WaitListSound, IsChain, LastOf, Elements

\* And so is the list of items, when the cells about to join it are the same.
LEMMA ItemsFrame ==
    ASSUME IInv,
           UNCHANGED <<head, tail, count, allocated, next, newItem, phase, items>>,
           \A u \in Threads : Pending(u)' = Pending(u)
    PROVE  ItemListSound'
BY DEF IInv, ItemListSound, IsChain, LastOf, Elements

LEMMA LockIInv ==
    ASSUME IInv, NEW t \in Threads, Lock(t)
    PROVE  IInv'
<1> USE DEF Lock, Locked, queueVars, waitVars, heapVars
<1>1. TypeOK'
  BY DEF IInv, TypeOK, Pcs
<1>2. MutexSound'
  BY DEF IInv, TypeOK, MutexSound
<1>3. ItemListSound' /\ WaitListSound'
  <2>1. \A u \in Threads : Pending(u)' = Pending(u)
    BY DEF IInv, TypeOK, Pending
  <2>2. Asleep' = Asleep
    BY DEF IInv, TypeOK, Asleep
  <2>3. \A u \in Threads : pc'[u] = "d_wait" => isWaiting[u]
    BY DEF IInv, TypeOK, WaitListSound
  <2> QED BY <2>1, <2>2, <2>3, ListsFrame
<1>4. Lifecycle'
  BY DEF IInv, TypeOK, Lifecycle
<1> QED BY <1>1, <1>2, <1>3, <1>4 DEF IInv

\* Steps of a thread that leave both lists alone: they move its pc and may
\* release the mutex or count a call.
LEMMA QuietStepIInv ==
    ASSUME IInv, NEW t \in Threads,
           \/ CallDequeue(t) \/ SpuriousWakeup(t)
           \/ DequeueRewait(t) \/ TryDequeueFail(t)
    PROVE  IInv'
<1> DEFINE Quiet(p, q) ==
        /\ pc[t] = p /\ pc' = [pc EXCEPT ![t] = q]
        /\ UNCHANGED <<queueVars, waitVars, heapVars, newItem, val, phase, items>>
<1>1. \/ /\ Quiet("idle", "d_lock") \/ Quiet("idle", "t_lock")
         /\ phase = "up" /\ calls' = [calls EXCEPT ![t] = @ + 1] /\ mutex' = mutex
      \/ Quiet("d_wait", "d_relock") /\ calls' = calls /\ mutex' = mutex
      \/ Quiet("d_check", "d_wait") /\ isWaiting[t] /\ calls' = calls /\ mutex' = NULL
      \/ Quiet("t_test", "idle") /\ calls' = calls /\ mutex' = NULL
  BY DEF CallDequeue, Calls, SpuriousWakeup, DequeueRewait, TryDequeueFail
<1> USE DEF queueVars, waitVars, heapVars
<1>2. TypeOK'
  <2>1. pc' \in [Threads -> Pcs]
    BY <1>1 DEF IInv, TypeOK, Pcs
  <2>2. calls' \in [Threads -> Nat]
    <3>1. calls' = calls \/ calls' = [calls EXCEPT ![t] = @ + 1]
      BY <1>1
    <3>2. calls \in [Threads -> Nat]
      BY DEF IInv, TypeOK
    <3> QED BY <3>1, <3>2
  <2> QED BY <1>1, <2>1, <2>2 DEF IInv, TypeOK
<1>3. MutexSound'
  <2>1. CASE mutex' = mutex /\ pc[t] \in {"idle", "d_wait"}
                            /\ pc'[t] \in {"d_lock", "t_lock", "d_relock"}
    BY <1>1, <2>1 DEF IInv, TypeOK, MutexSound
  <2>2. CASE mutex' = NULL /\ pc[t] \in {"d_check", "t_test"} /\ pc'[t] \in {"d_wait", "idle"}
    BY <1>1, <2>2 DEF IInv, TypeOK, MutexSound
  <2> QED BY <1>1, <2>1, <2>2 DEF IInv, TypeOK
<1>4. ItemListSound' /\ WaitListSound'
  <2>1. \A u \in Threads : Pending(u)' = Pending(u)
    BY <1>1 DEF IInv, TypeOK, Pending
  <2>2. Asleep' = Asleep
    BY <1>1 DEF IInv, TypeOK, Asleep
  <2>3. \A u \in Threads : pc'[u] = "d_wait" => isWaiting[u]
    BY <1>1 DEF IInv, TypeOK, WaitListSound
  <2> QED BY <1>1, <2>1, <2>2, <2>3, ListsFrame
<1>5. Lifecycle'
  BY <1>1 DEF IInv, TypeOK, Lifecycle
<1> QED BY <1>2, <1>3, <1>4, <1>5 DEF IInv

\* A woken thread is not on the list any more: lines 130-135 change nothing.
LEMMA ResumeIInv ==
    ASSUME IInv, NEW t \in Threads, DequeueResume(t)
    PROVE  IInv' /\ UNCHANGED <<waitingHead, waitingTail>>
<1> USE DEF DequeueResume, queueVars, heapVars
<1>1. t \notin Elements(sleepers) /\ phase = "up"
  BY DEF IInv, WaitListSound, Asleep, Lifecycle, TypeOK
<1>2. waitingHead # t /\ waitingTail # t
  BY <1>1 DEF IInv, TypeOK, WaitListSound, IsChain, LastOf, Elements
<1>3. UNCHANGED <<waitingHead, waitingTail>>
  BY <1>2
<1>4. TypeOK'
  BY <1>3 DEF IInv, TypeOK, Pcs
<1>5. MutexSound'
  BY DEF IInv, TypeOK, MutexSound
<1>6. ItemListSound' /\ WaitListSound'
  <2>1. \A u \in Threads : Pending(u)' = Pending(u)
    BY DEF IInv, TypeOK, Pending
  <2>2. Asleep' = Asleep
    BY DEF IInv, TypeOK, Asleep
  <2>3. \A u \in Threads : pc'[u] = "d_wait" => isWaiting[u]
    BY DEF IInv, TypeOK, WaitListSound
  <2> QED BY <1>3, <2>1, <2>2, <2>3, ListsFrame
<1>7. Lifecycle'
  BY DEF IInv, TypeOK, Lifecycle
<1> QED BY <1>3, <1>4, <1>5, <1>6, <1>7 DEF IInv

LEMMA CallEnqueueIInv ==
    ASSUME IInv, NEW t \in Threads, CallEnqueue(t)
    PROVE  IInv'
<1> USE DEF CallEnqueue, Calls, queueVars, waitVars
<1>1. PICK n \in Nodes \ allocated :
          /\ allocated' = allocated \cup {n}
          /\ data' = [data EXCEPT ![n] = Item(t)]
          /\ next' = [next EXCEPT ![n] = NULL]
          /\ newItem' = [newItem EXCEPT ![t] = n]
  OBVIOUS
<1>2. TypeOK'
  BY <1>1 DEF IInv, TypeOK, Pcs, Item
<1>3. MutexSound'
  BY DEF IInv, TypeOK, MutexSound
<1>4. WaitListSound'
  <2>1. Asleep' = Asleep
    BY DEF IInv, TypeOK, Asleep
  <2>2. \A u \in Threads : pc'[u] = "d_wait" => isWaiting[u]
    BY DEF IInv, TypeOK, WaitListSound
  <2> QED BY <2>1, <2>2, WaitFrame
<1>5. ItemListSound'
  <2>1. n \notin Elements(items)
    BY <1>1 DEF IInv, ItemListSound
  <2>2. IsChain(items, head, next)'
    <3>1. items \in Seq(Nodes) /\ next \in [Nodes -> Nodes \cup {NULL}]
          /\ IsChain(items, head, next)
      BY DEF IInv, TypeOK, ItemListSound
    <3>2. IsChain(items, head, [next EXCEPT ![n] = NULL])
      BY <2>1, <3>1, ChainFrame
    <3> QED BY <1>1, <3>2
  <2>3. Elements(items)' = Elements(items)
    BY DEF Elements
  <2>4. tail' = LastOf(items') /\ count' = Len(items')
    BY DEF IInv, ItemListSound, LastOf
  <2>5. \A u \in Threads : Pending(u)' <=> (Pending(u) \/ u = t)
    BY DEF IInv, TypeOK, Pending
  <2>6. \A u \in Threads : Pending(u) => newItem[u] # n /\ newItem[u] \in Nodes
    BY <1>1 DEF IInv, TypeOK, ItemListSound
  <2>7. ~Pending(t)
    BY DEF Pending
  <2>8. ASSUME NEW u \in Threads, Pending(u)'
        PROVE  /\ newItem'[u] \in allocated' \ Elements(items)'
               /\ next'[newItem'[u]] = NULL
               /\ \A v \in Threads : Pending(v)' /\ newItem'[v] = newItem'[u] => v = u
    <3>1. CASE u = t
      <4>1. newItem'[u] = n /\ next'[n] = NULL
        BY <3>1, <1>1 DEF IInv, TypeOK
      <4>2. \A v \in Threads : Pending(v)' /\ newItem'[v] = n => v = u
        BY <3>1, <1>1, <2>5, <2>6 DEF IInv, TypeOK
      <4> QED BY <4>1, <4>2, <2>1, <2>3, <1>1
    <3>2. CASE u # t
      <4>1. Pending(u) /\ newItem'[u] = newItem[u]
        BY <3>2, <2>5, <2>8, <1>1 DEF IInv, TypeOK
      <4>2. newItem[u] \in allocated \ Elements(items) /\ next[newItem[u]] = NULL
        BY <4>1 DEF IInv, ItemListSound
      <4>3. next'[newItem[u]] = NULL
        BY <4>1, <4>2, <2>6, <1>1 DEF IInv, TypeOK
      <4>4. \A v \in Threads : Pending(v)' /\ newItem'[v] = newItem'[u] => v = u
        BY <4>1, <2>5, <2>6, <1>1 DEF IInv, TypeOK, ItemListSound
      <4> QED BY <4>1, <4>2, <4>3, <4>4, <2>3, <1>1
    <3> QED BY <3>1, <3>2
  <2>9. Elements(items)' \subseteq allocated'
    BY <2>3, <1>1 DEF IInv, ItemListSound
  <2> QED BY <2>2, <2>4, <2>8, <2>9 DEF ItemListSound
<1>6. Lifecycle'
  BY DEF IInv, TypeOK, Lifecycle
<1> QED BY <1>2, <1>3, <1>4, <1>5, <1>6 DEF IInv

LEMMA EnqueueLinkIInv ==
    ASSUME IInv, NEW t \in Threads, EnqueueLink(t)
    PROVE  IInv'
<1> USE DEF EnqueueLink, waitVars
<1> DEFINE n == newItem[t]
<1>1. phase = "up" /\ Pending(t)
  BY DEF IInv, TypeOK, Lifecycle, Pending
<1>2. n \in Nodes /\ n \in allocated \ Elements(items) /\ next[n] = NULL
  BY <1>1 DEF IInv, TypeOK, ItemListSound
<1>3. IsChain(items, head, next) /\ tail = LastOf(items) /\ count = Len(items)
  BY <1>1 DEF IInv, ItemListSound
<1>4. TypeOK'
  <2>1. next' \in [Nodes -> Nodes \cup {NULL}]
    BY <1>2 DEF IInv, TypeOK
  <2>2. items' \in Seq(Nodes)
    BY <1>2 DEF IInv, TypeOK
  <2>3. count' \in Nat /\ head' \in Nodes \cup {NULL} /\ tail' \in Nodes \cup {NULL}
    BY <1>2 DEF IInv, TypeOK
  <2>4. newItem' \in [Threads -> Nodes \cup {NULL}] /\ pc' \in [Threads -> Pcs]
    BY DEF IInv, TypeOK, Pcs
  <2> QED BY <2>1, <2>2, <2>3, <2>4 DEF IInv, TypeOK
<1>5. MutexSound'
  BY DEF IInv, TypeOK, MutexSound
<1>6. WaitListSound'
  <2>1. Asleep' = Asleep
    BY DEF IInv, TypeOK, Asleep
  <2>2. \A u \in Threads : pc'[u] = "d_wait" => isWaiting[u]
    BY DEF IInv, TypeOK, WaitListSound
  <2> QED BY <2>1, <2>2, WaitFrame
<1>7. /\ IsChain(items', head', next') /\ LastOf(items') = n
      /\ Elements(items') = Elements(items) \cup {n}
  <2>1. items \in Seq(Nodes) /\ next \in [Nodes -> Nodes \cup {NULL}] /\ NULL \notin Nodes
    BY DEF IInv, TypeOK
  <2>2. /\ head' = FirstWith(items, n, head) /\ next' = LinksWith(items, n, next)
        /\ items' = Append(items, n)
    BY <1>3 DEF FirstWith, LinksWith
  <2> HIDE DEF n, EnqueueLink
  <2> QED BY <1>2, <1>3, <2>1, <2>2, ChainAppend
<1>8. count' = Len(items')
  BY <1>3 DEF IInv, TypeOK
<1>9. \A u \in Threads : Pending(u)' => u # t /\ Pending(u) /\ newItem'[u] = newItem[u]
  BY DEF IInv, TypeOK, Pending
<1>10. ASSUME NEW u \in Threads, Pending(u)'
       PROVE  /\ newItem'[u] \in allocated' \ Elements(items')
              /\ next'[newItem'[u]] = NULL
              /\ \A v \in Threads : Pending(v)' /\ newItem'[v] = newItem'[u] => v = u
  <2>1. u # t /\ Pending(u) /\ newItem'[u] = newItem[u] /\ newItem[u] # n
    BY <1>1, <1>9, <1>10 DEF IInv, ItemListSound
  <2>2. newItem[u] \in allocated \ Elements(items) /\ next[newItem[u]] = NULL
    BY <2>1 DEF IInv, ItemListSound
  <2>3. newItem[u] # tail
    BY <2>2, <1>2, <1>3 DEF IInv, TypeOK, LastOf, Elements
  <2>4. next'[newItem[u]] = NULL
    BY <2>2, <2>3 DEF IInv, TypeOK
  <2>5. \A v \in Threads : Pending(v)' /\ newItem'[v] = newItem'[u] => v = u
    BY <2>1, <1>9 DEF IInv, ItemListSound
  <2> QED BY <2>1, <2>2, <2>4, <2>5, <1>7
<1>11. ItemListSound'
  BY <1>2, <1>7, <1>8, <1>10 DEF IInv, ItemListSound, Elements, LastOf, IsChain
<1>12. Lifecycle'
  BY <1>1 DEF IInv, TypeOK, Lifecycle
<1> QED BY <1>4, <1>5, <1>6, <1>11, <1>12 DEF IInv

\* enqueue unlinks the thread that has slept longest, and only that one.
LEMMA EnqueueWakeIInv ==
    ASSUME IInv, NEW t \in Threads, EnqueueWake(t)
    PROVE  IInv'
<1> USE DEF queueVars, heapVars
<1> DEFINE w == waitingHead
<1>1. pc[t] = "e_wake" /\ mutex = t /\ phase = "up" /\ mutex' = NULL
  BY DEF IInv, TypeOK, MutexSound, Lifecycle, EnqueueWake
<1>2. UNCHANGED <<queueVars, wnext, heapVars, newItem, val, calls, phase, items>>
  BY DEF EnqueueWake
<1>3. IsChain(sleepers, w, wnext) /\ waitingTail = LastOf(sleepers)
      /\ waitingCount = Len(sleepers)
  BY <1>1 DEF IInv, WaitListSound
<1>4. CASE w = NULL
  <2>1. UNCHANGED waitVars /\ pc' = [pc EXCEPT ![t] = "idle"]
    BY <1>4 DEF EnqueueWake, waitVars
  <2>2. TypeOK'
    BY <1>1, <1>2, <2>1 DEF IInv, TypeOK, Pcs, waitVars
  <2>3. MutexSound'
    BY <1>1, <2>1 DEF IInv, TypeOK, MutexSound
  <2>4. ItemListSound' /\ WaitListSound'
    <3>1. \A u \in Threads : Pending(u)' = Pending(u)
      BY <1>1, <2>1 DEF IInv, TypeOK, Pending
    <3>2. Asleep' = Asleep
      BY <1>1, <2>1 DEF IInv, TypeOK, Asleep, waitVars
    <3>3. \A u \in Threads : pc'[u] = "d_wait" => isWaiting[u]
      BY <2>1 DEF IInv, TypeOK, WaitListSound
    <3> QED BY <1>2, <2>1, <3>1, <3>2, <3>3, ListsFrame DEF waitVars
  <2>5. Lifecycle'
    BY <1>1, <1>2 DEF IInv, Lifecycle
  <2> QED BY <2>2, <2>3, <2>4, <2>5 DEF IInv
<1>5. CASE w # NULL
  <2>1. sleepers \in Seq(Threads) /\ wnext \in [Threads -> Threads \cup {NULL}]
        /\ NULL \notin Threads
    BY DEF IInv, TypeOK
  <2>2. /\ w \in Threads /\ w \in Elements(sleepers)
        /\ IsChain(Tail(sleepers), wnext[w], wnext)
        /\ LastOf(Tail(sleepers)) = IF wnext[w] = NULL THEN NULL ELSE LastOf(sleepers)
        /\ Elements(Tail(sleepers)) = Elements(sleepers) \ {w}
        /\ Tail(sleepers) \in Seq(Threads)
        /\ Len(Tail(sleepers)) = Len(sleepers) - 1 /\ Len(sleepers) >= 1
    BY <1>3, <1>5, <2>1, ChainTail
  <2>3. w \in Asleep /\ pc[w] \in {"d_wait", "d_relock"} /\ w # t
    BY <1>1, <2>2 DEF IInv, WaitListSound, Asleep, MutexSound
  <2>4. pc' = [pc EXCEPT ![w] = "d_relock", ![t] = "idle"]
    BY <1>5, <2>3 DEF EnqueueWake, Signalled
  <2>5. /\ waitingHead' = wnext[w]
        /\ waitingTail' = IF wnext[w] = NULL THEN NULL ELSE waitingTail
        /\ waitingCount' = waitingCount - 1
        /\ isWaiting' = [isWaiting EXCEPT ![w] = FALSE]
        /\ sleepers' = Tail(sleepers)
    BY <1>5 DEF EnqueueWake, TailAfterWake
  <2>6. TypeOK'
    <3>1. pc' \in [Threads -> Pcs] /\ isWaiting' \in [Threads -> BOOLEAN]
      BY <2>4, <2>5 DEF IInv, TypeOK, Pcs
    <3>2. /\ waitingHead' \in Threads \cup {NULL} /\ waitingTail' \in Threads \cup {NULL}
          /\ waitingCount' \in Nat /\ sleepers' \in Seq(Threads)
      BY <1>3, <2>1, <2>2, <2>5 DEF IInv, TypeOK
    <3> QED BY <1>1, <1>2, <3>1, <3>2 DEF IInv, TypeOK
  <2>7. MutexSound'
    BY <1>1, <2>3, <2>4 DEF IInv, TypeOK, MutexSound
  <2>8. ItemListSound'
    <3>1. \A u \in Threads : Pending(u)' = Pending(u)
      BY <1>1, <2>3, <2>4 DEF IInv, TypeOK, Pending
    <3> QED BY <1>2, <3>1, ItemsFrame
  <2>9. WaitListSound'
    <3>1. Asleep' = Asleep \ {w}
      BY <1>1, <2>3, <2>4, <2>5 DEF IInv, TypeOK, Asleep
    <3>2. Elements(sleepers') = Asleep'
      BY <2>2, <2>5, <3>1 DEF IInv, WaitListSound
    <3>3. IsChain(sleepers', waitingHead', wnext') /\ waitingTail' = LastOf(sleepers')
      BY <1>2, <1>3, <2>2, <2>5
    <3>4. waitingCount' = Len(sleepers')
      BY <1>3, <2>2, <2>5
    <3>5. \A u \in Threads : pc'[u] = "d_wait" => isWaiting'[u]
      BY <2>3, <2>4, <2>5 DEF IInv, TypeOK, WaitListSound
    <3> QED BY <3>2, <3>3, <3>4, <3>5 DEF WaitListSound, Elements, LastOf, IsChain
  <2>10. Lifecycle'
    BY <1>1, <1>2 DEF IInv, Lifecycle
  <2> QED BY <2>6, <2>7, <2>8, <2>9, <2>10 DEF IInv
<1> QED BY <1>4, <1>5

\* dequeue on an empty queue puts the caller behind the threads asleep.
LEMMA DequeueSleepIInv ==
    ASSUME IInv, NEW t \in Threads, DequeueSleep(t)
    PROVE  IInv'
<1> USE DEF queueVars, heapVars
<1>1. pc[t] = "d_test" /\ mutex = t /\ phase = "up" /\ mutex' = NULL
  BY DEF IInv, TypeOK, MutexSound, Lifecycle, DequeueSleep
<1>2. UNCHANGED <<queueVars, heapVars, newItem, val, calls, phase, items>>
  BY DEF DequeueSleep
<1>3. IsChain(sleepers, waitingHead, wnext) /\ waitingTail = LastOf(sleepers)
      /\ waitingCount = Len(sleepers) /\ Elements(sleepers) = Asleep
  BY <1>1 DEF IInv, WaitListSound
<1>4. sleepers \in Seq(Threads) /\ wnext \in [Threads -> Threads \cup {NULL}]
      /\ NULL \notin Threads
  BY DEF IInv, TypeOK
<1>5. t \notin Elements(sleepers)
  BY <1>1, <1>3 DEF Asleep
<1> DEFINE link == [wnext EXCEPT ![t] = NULL]
<1>6. link \in [Threads -> Threads \cup {NULL}] /\ link[t] = NULL
  BY <1>4
<1>7. IsChain(sleepers, waitingHead, link)
  BY <1>3, <1>4, <1>5, ChainFrame
<1>8. /\ waitingHead' = FirstWith(sleepers, t, waitingHead)
      /\ wnext' = LinksWith(sleepers, t, link)
      /\ waitingTail' = t /\ waitingCount' = waitingCount + 1
      /\ sleepers' = Append(sleepers, t)
      /\ isWaiting' = [isWaiting EXCEPT ![t] = TRUE]
      /\ pc' = [pc EXCEPT ![t] = "d_wait"]
  BY <1>3, <1>4 DEF DequeueSleep, FirstWith, LinksWith
<1> HIDE DEF link
<1>9. /\ IsChain(sleepers', waitingHead', wnext') /\ LastOf(sleepers') = t
      /\ Elements(sleepers') = Elements(sleepers) \cup {t}
  <2>1. /\ IsChain(Append(sleepers, t), FirstWith(sleepers, t, waitingHead),
                   LinksWith(sleepers, t, link))
        /\ LastOf(Append(sleepers, t)) = t
        /\ Elements(Append(sleepers, t)) = Elements(sleepers) \cup {t}
    <3> HIDE QueueAssumption
    <3> QED BY <1>4, <1>5, <1>6, <1>7, ChainAppend
  <2> QED BY <1>8, <2>1
<1>10. TypeOK'
  <2>1. pc' \in [Threads -> Pcs] /\ isWaiting' \in [Threads -> BOOLEAN]
    BY <1>8 DEF IInv, TypeOK, Pcs
  <2>2. sleepers' \in Seq(Threads) /\ waitingCount' \in Nat
    BY <1>4, <1>8 DEF IInv, TypeOK
  <2>3. wnext' \in [Threads -> Threads \cup {NULL}]
    BY <1>6, <1>8 DEF LinksWith
  <2>4. waitingHead' \in Threads \cup {NULL} /\ waitingTail' \in Threads \cup {NULL}
    BY <1>8 DEF IInv, TypeOK, FirstWith
  <2> QED BY <1>1, <1>2, <2>1, <2>2, <2>3, <2>4 DEF IInv, TypeOK
<1>11. MutexSound'
  BY <1>1, <1>8 DEF IInv, TypeOK, MutexSound
<1>12. ItemListSound'
  <2>1. \A u \in Threads : Pending(u)' = Pending(u)
    BY <1>1, <1>8 DEF IInv, TypeOK, Pending
  <2> QED BY <1>2, <2>1, ItemsFrame
<1>13. WaitListSound'
  <2>1. Asleep' = Asleep \cup {t}
    BY <1>8 DEF IInv, TypeOK, Asleep
  <2>2. waitingCount' = Len(sleepers')
    BY <1>3, <1>4, <1>8
  <2>3. \A u \in Threads : pc'[u] = "d_wait" => isWaiting'[u]
    BY <1>8 DEF IInv, TypeOK, WaitListSound
  <2> QED BY <1>3, <1>8, <1>9, <2>1, <2>2, <2>3 DEF WaitListSound, Elements, LastOf, IsChain
<1>14. Lifecycle'
  BY <1>1, <1>2 DEF IInv, Lifecycle
<1> QED BY <1>10, <1>11, <1>12, <1>13, <1>14 DEF IInv

\* dequeue and tryDequeue unlink and free the oldest cell, and only that one.
LEMMA RemoveHeadIInv ==
    ASSUME IInv, NEW t \in Threads, DequeueTake(t) \/ TryDequeueTake(t)
    PROVE  IInv'
<1> USE DEF waitVars
<1>1. /\ RemoveHead(t) /\ pc[t] \in {"d_test", "t_test"} /\ mutex = t /\ phase = "up"
      /\ UNCHANGED <<waitVars, next, data, newItem, calls, phase>>
  BY DEF IInv, TypeOK, MutexSound, Lifecycle, DequeueTake, TryDequeueTake, RemoveHead
<1>2. /\ head' = next[head] /\ tail' = IF next[head] = NULL THEN NULL ELSE tail
      /\ count' = count - 1 /\ visitedCount' = visitedCount + 1
      /\ val' = [val EXCEPT ![t] = data[head]] /\ allocated' = allocated \ {head}
      /\ items' = Tail(items) /\ mutex' = NULL /\ pc' = [pc EXCEPT ![t] = "idle"]
  BY <1>1 DEF RemoveHead, TailAfterRemove
<1>3. IsChain(items, head, next) /\ tail = LastOf(items) /\ count = Len(items)
  BY <1>1 DEF IInv, ItemListSound
<1>4. items \in Seq(Nodes) /\ next \in [Nodes -> Nodes \cup {NULL}] /\ NULL \notin Nodes
  BY DEF IInv, TypeOK
<1>5. head # NULL
  BY <1>1, <1>3, <1>4 DEF RemoveHead, IsChain
<1>6. /\ head \in Nodes /\ head \in Elements(items)
      /\ IsChain(Tail(items), next[head], next)
      /\ LastOf(Tail(items)) = IF next[head] = NULL THEN NULL ELSE LastOf(items)
      /\ Elements(Tail(items)) = Elements(items) \ {head}
      /\ Tail(items) \in Seq(Nodes)
      /\ Len(Tail(items)) = Len(items) - 1 /\ Len(items) >= 1
  BY <1>3, <1>4, <1>5, ChainTail
<1>7. TypeOK'
  <2>1. pc' \in [Threads -> Pcs] /\ val' \in [Threads -> (Threads \X Nat) \cup {NULL}]
    BY <1>2, <1>6 DEF IInv, TypeOK, Pcs
  <2>2. /\ head' \in Nodes \cup {NULL} /\ tail' \in Nodes \cup {NULL}
        /\ count' \in Nat /\ visitedCount' \in Nat
    BY <1>2, <1>3, <1>4, <1>6 DEF IInv, TypeOK
  <2> QED BY <1>1, <1>2, <1>6, <2>1, <2>2 DEF IInv, TypeOK
<1>8. MutexSound'
  BY <1>1, <1>2 DEF IInv, TypeOK, MutexSound
<1>9. WaitListSound'
  <2>1. Asleep' = Asleep
    BY <1>1, <1>2 DEF IInv, TypeOK, Asleep
  <2>2. \A u \in Threads : pc'[u] = "d_wait" => isWaiting[u]
    BY <1>2 DEF IInv, TypeOK, WaitListSound
  <2> QED BY <1>1, <2>1, <2>2, WaitFrame
<1>10. ItemListSound'
  <2>1. IsChain(items', head', next') /\ tail' = LastOf(items')
    BY <1>1, <1>2, <1>3, <1>6
  <2>2. count' = Len(items')
    BY <1>2, <1>3, <1>6
  <2>3. Elements(items') \subseteq allocated' /\ head \notin Elements(items')
    BY <1>2, <1>6 DEF IInv, ItemListSound
  <2>4. \A u \in Threads : Pending(u)' <=> Pending(u)
    BY <1>1, <1>2 DEF IInv, TypeOK, Pending
  <2>5. ASSUME NEW u \in Threads, Pending(u)
        PROVE  newItem[u] \in allocated' \ Elements(items')
    <3>1. newItem[u] \in allocated \ Elements(items)
      BY <2>5 DEF IInv, ItemListSound
    <3> QED BY <3>1, <1>2, <1>6
  <2> QED BY <1>1, <2>1, <2>2, <2>3, <2>4, <2>5
          DEF IInv, ItemListSound, IsChain, LastOf, Elements
<1>11. Lifecycle'
  BY <1>1 DEF IInv, Lifecycle
<1> QED BY <1>7, <1>8, <1>9, <1>10, <1>11 DEF IInv

\* The owner: initQueue finds both lists empty, destroyQueue empties the list
\* of items.
LEMMA OwnerIInv ==
    ASSUME IInv, Owner
    PROVE  IInv'
<1> USE DEF queueVars, waitVars, heapVars
<1>1. CASE initQueue
  <2> USE <1>1 DEF initQueue
  <2>1. items = <<>> /\ \A t \in Threads : pc[t] = "idle"
    BY DEF IInv, Lifecycle
  <2>2. sleepers = <<>>
    <3>1. Elements(sleepers) = {}
      BY <2>1 DEF IInv, WaitListSound, Asleep
    <3>2. sleepers \in Seq(Threads)
      BY DEF IInv, TypeOK
    <3> QED BY <3>1, <3>2, NoElements
  <2>3. TypeOK'
    BY DEF IInv, TypeOK
  <2>4. MutexSound'
    BY <2>1 DEF IInv, MutexSound
  <2>5. ItemListSound'
    BY <2>1 DEF IInv, ItemListSound, IsChain, LastOf, Elements, Pending
  <2>6. WaitListSound'
    BY <2>1, <2>2 DEF IInv, WaitListSound, IsChain, LastOf, Elements, Asleep
  <2> QED BY <2>3, <2>4, <2>5, <2>6 DEF IInv, Lifecycle
<1>2. CASE destroyQueue
  <2> USE <1>2 DEF destroyQueue
  <2>1. TypeOK' /\ Lifecycle'
    BY DEF IInv, TypeOK, Lifecycle
  <2>2. MutexSound'
    BY DEF IInv, MutexSound
  <2>3. ItemListSound'
    BY DEF IInv, ItemListSound, IsChain, LastOf, Elements, Pending
  <2>4. WaitListSound'
    BY DEF IInv, WaitListSound, IsChain, LastOf, Elements, Asleep
  <2> QED BY <2>1, <2>2, <2>3, <2>4 DEF IInv
<1>3. CASE DestroyItem
  <2> USE <1>3 DEF DestroyItem
  <2>1. \A t \in Threads : pc[t] = "idle"
    BY DEF IInv, Lifecycle
  <2>2. items \in Seq(Nodes) /\ next \in [Nodes -> Nodes \cup {NULL}] /\ NULL \notin Nodes
        /\ IsChain(items, head, next)
    BY DEF IInv, TypeOK, ItemListSound
  <2>3. /\ head \in Nodes /\ IsChain(Tail(items), next[head], next)
        /\ Elements(Tail(items)) = Elements(items) \ {head}
        /\ Tail(items) \in Seq(Nodes)
    BY <2>2, ChainTail
  <2>4. TypeOK' /\ Lifecycle'
    BY <2>2, <2>3 DEF IInv, TypeOK, Lifecycle
  <2>5. MutexSound'
    BY DEF IInv, MutexSound
  <2>6. ItemListSound'
    <3>1. IsChain(items', head', next') /\ Elements(items') \subseteq allocated'
      BY <2>3 DEF IInv, ItemListSound
    <3> QED BY <2>1, <3>1 DEF ItemListSound, Pending, IsChain, Elements
  <2>7. WaitListSound'
    BY DEF IInv, WaitListSound, IsChain, LastOf, Elements, Asleep
  <2> QED BY <2>4, <2>5, <2>6, <2>7 DEF IInv
<1>4. CASE DestroyEnd
  <2> USE <1>4 DEF DestroyEnd
  <2>1. \A t \in Threads : pc[t] = "idle"
    BY DEF IInv, Lifecycle
  <2>2. items = <<>>
    BY DEF IInv, TypeOK, ItemListSound, IsChain
  <2>3. TypeOK' /\ Lifecycle'
    BY <2>1, <2>2 DEF IInv, TypeOK, Lifecycle
  <2>4. MutexSound'
    BY DEF IInv, MutexSound
  <2>5. ItemListSound'
    BY <2>1, <2>2 DEF IInv, ItemListSound, Pending, Elements
  <2>6. WaitListSound'
    BY DEF IInv, WaitListSound, Elements, Asleep
  <2> QED BY <2>3, <2>4, <2>5, <2>6 DEF IInv
<1> QED BY <1>1, <1>2, <1>3, <1>4 DEF Owner

LEMMA StutterIInv == IInv /\ UNCHANGED vars => IInv'
<1> SUFFICES ASSUME IInv, UNCHANGED vars PROVE IInv'
  OBVIOUS
<1> USE DEF vars, queueVars, waitVars, heapVars
<1>1. TypeOK' /\ MutexSound' /\ Lifecycle'
  BY DEF IInv, TypeOK, MutexSound, Lifecycle
<1>2. ItemListSound' /\ WaitListSound'
  BY ListsFrame DEF IInv, WaitListSound, Pending, Asleep
<1> QED BY <1>1, <1>2 DEF IInv

LEMMA NextIInv == IInv /\ [Next]_vars => IInv'
BY OwnerIInv, LockIInv, QuietStepIInv, ResumeIInv, CallEnqueueIInv, EnqueueLinkIInv,
   EnqueueWakeIInv, DequeueSleepIInv, RemoveHeadIInv, StutterIInv
   DEF Next, Call, Step
-----------------------------------------------------------------------------
(* The theorems.                                                           *)

\* IInv holds in every reachable state of the library.
THEOREM Invariance == Spec => []IInv
BY InitIInv, NextIInv, PTL DEF Spec

\* Every variable keeps its type; in particular no size_t counter of
\* queue.c ever goes below zero.
THEOREM TypeCorrect == Spec => []TypeOK
<1>1. IInv => TypeOK
  BY DEF IInv
<1> QED BY Invariance, <1>1, PTL

\* No two threads are ever inside queue.mutex at once.
THEOREM MutualExclusion == Spec => []MutexSound
<1>1. IInv => MutexSound
  BY DEF IInv
<1> QED BY Invariance, <1>1, PTL

\* The linked list of items is well formed, in order and free of dangling
\* cells, whatever the threads do and in whatever order.
THEOREM ItemListCorrect == Spec => []ItemListSound
<1>1. IInv => ItemListSound
  BY DEF IInv
<1> QED BY Invariance, <1>1, PTL

\* The waiting list holds exactly the threads asleep, oldest first; no record
\* on it belongs to a dequeue call that has gone on.
THEOREM WaitListCorrect == Spec => []WaitListSound
<1>1. IInv => WaitListSound
  BY DEF IInv
<1> QED BY Invariance, <1>1, PTL
-----------------------------------------------------------------------------
(* No lost wakeup.                                                         *)

\* An enqueue call that has linked its item and not yet woken anyone.
Waker == IF \E t \in Threads : pc[t] = "e_wake" THEN 1 ELSE 0

\* NoLostWakeup says no more than this: no thread sleeps, or the takers and
\* the enqueue call in progress are enough for the items.
LEMMA WakeupForm == NoLostWakeup <=> (sleepers # <<>> => count <= Cardinality(Takers) + Waker)
BY DEF NoLostWakeup, Waker

\* The threads are finitely many, so the takers can be counted.
WakersCounted ==
    IsFiniteSet(Takers) /\ Cardinality(Takers) \in Nat /\ Waker \in {0, 1} /\ count \in Nat

LEMMA TakersFinite == IInv => WakersCounted
<1> SUFFICES ASSUME IInv PROVE WakersCounted
  OBVIOUS
<1>1. Takers \subseteq Threads /\ IsFiniteSet(Threads)
  BY DEF Takers
<1>2. IsFiniteSet(Takers)
  BY <1>1, FS_Subset
<1> QED BY <1>2, FS_CardinalityType DEF IInv, TypeOK, Waker, WakersCounted

LEMMA TakersFiniteNext == IInv' => WakersCounted'
BY TakersFinite, PTL

\* A step that takes no taker away, adds no item and wakes nobody.
LEMMA WakeupFrame ==
    ASSUME IInv, IInv', NoLostWakeup, sleepers' = sleepers,
           Takers \subseteq Takers', count' = count, Waker <= Waker'
    PROVE  NoLostWakeup'
<1>1. Cardinality(Takers) <= Cardinality(Takers')
  BY TakersFinite, TakersFiniteNext, FS_Subset DEF WakersCounted
<1>2. Cardinality(Takers) \in Nat /\ Cardinality(Takers') \in Nat
      /\ Waker \in {0, 1} /\ Waker' \in {0, 1} /\ count \in Nat
  BY TakersFinite, TakersFiniteNext DEF WakersCounted
<1>3. CASE sleepers = <<>>
  BY <1>3 DEF NoLostWakeup
<1>4. CASE sleepers # <<>>
  <2>1. count <= Cardinality(Takers) + Waker
    BY <1>4, WakeupForm
  <2>2. count' <= Cardinality(Takers') + Waker'
    BY <2>1, <1>1, <1>2
  <2> QED BY <2>2 DEF NoLostWakeup, Waker
<1> QED BY <1>3, <1>4

LEMMA NoLostWakeupStep == ASSUME IInv, IInv', NoLostWakeup, [Next]_vars PROVE NoLostWakeup'
<1> USE DEF queueVars, waitVars, heapVars
<1>1. CASE Owner
  <2>1. \A t \in Threads : pc'[t] = "idle"
    BY <1>1 DEF Owner, initQueue, destroyQueue, DestroyItem, DestroyEnd, IInv, Lifecycle
  <2>2. Elements(sleepers') = {} /\ sleepers' \in Seq(Threads)
    BY <2>1 DEF IInv, WaitListSound, Asleep, TypeOK
  <2>3. sleepers' = <<>>
    BY <2>2, NoElements
  <2> QED BY <2>3 DEF NoLostWakeup
<1>2. CASE UNCHANGED vars
  BY <1>2 DEF vars, NoLostWakeup, Takers
<1>3. ASSUME NEW t \in Threads, Call(t) \/ Step(t) \/ SpuriousWakeup(t)
      PROVE  NoLostWakeup'
  <2> DEFINE Moves(p, q) == pc[t] = p /\ pc' = [pc EXCEPT ![t] = q]
  <2>0. pc \in [Threads -> Pcs] /\ isWaiting \in [Threads -> BOOLEAN]
    BY DEF IInv, TypeOK
  <2>1. ASSUME sleepers' = sleepers, isWaiting' = isWaiting, count' = count,
               \/ Moves("idle", "e_lock") \/ Moves("idle", "d_lock") \/ Moves("idle", "t_lock")
               \/ Moves("e_lock", "e_link") \/ Moves("d_lock", "d_test")
               \/ Moves("t_lock", "t_test") \/ Moves("d_relock", "d_check")
               \/ Moves("d_wait", "d_relock") \/ Moves("d_check", "d_test")
               \/ Moves("d_check", "d_wait") /\ isWaiting[t]
               \/ Moves("t_test", "idle")
        PROVE  NoLostWakeup'
    <3>1. Takers \subseteq Takers'
      BY <2>0, <2>1 DEF Takers
    <3>2. Waker <= Waker'
      <4>1. \A u \in Threads : pc[u] = "e_wake" => pc'[u] = "e_wake"
        BY <2>0, <2>1
      <4> QED BY <4>1 DEF Waker
    <3> QED BY <2>1, <3>1, <3>2, WakeupFrame
  <2>2. CASE Call(t) \/ SpuriousWakeup(t) \/ Lock(t) \/ DequeueRewait(t)
             \/ DequeueResume(t) \/ TryDequeueFail(t)
    BY <2>2, <2>1, <2>0 DEF Call, CallEnqueue, CallDequeue, Calls, SpuriousWakeup, Lock,
       Locked, DequeueRewait, DequeueResume, TryDequeueFail
  <2>3. CASE EnqueueLink(t)
    <3>1. /\ pc[t] = "e_link" /\ pc' = [pc EXCEPT ![t] = "e_wake"]
          /\ count' = count + 1 /\ sleepers' = sleepers /\ isWaiting' = isWaiting
      BY <2>3 DEF EnqueueLink
    <3>2. Takers' = Takers
      BY <2>0, <3>1 DEF Takers
    <3>3. Waker = 0
      BY <3>1 DEF IInv, MutexSound, Waker
    <3>4. Waker' = 1
      BY <2>0, <3>1 DEF Waker
    <3>5. Cardinality(Takers) \in Nat /\ count \in Nat
      BY TakersFinite DEF WakersCounted
    <3>6. sleepers # <<>> => count' <= Cardinality(Takers') + Waker'
      BY <3>1, <3>2, <3>3, <3>4, <3>5, WakeupForm
    <3> QED BY <3>1, <3>6 DEF NoLostWakeup, Waker
  <2>4. CASE EnqueueWake(t)
    <3>0. pc[t] = "e_wake" /\ phase = "up" /\ count' = count
      BY <2>4 DEF EnqueueWake, IInv, Lifecycle
    <3>1. CASE waitingHead = NULL
      <4>1. sleepers = <<>> /\ sleepers' = sleepers
        BY <2>4, <3>0, <3>1 DEF EnqueueWake, IInv, TypeOK, WaitListSound, IsChain
      <4> QED BY <4>1 DEF NoLostWakeup
    <3>2. CASE waitingHead # NULL
      <4> DEFINE w == waitingHead
      <4>1. w \in Asleep /\ w \in Threads /\ sleepers # <<>>
        <5>1. /\ sleepers \in Seq(Threads) /\ wnext \in [Threads -> Threads \cup {NULL}]
              /\ NULL \notin Threads /\ IsChain(sleepers, waitingHead, wnext)
          BY <3>0 DEF IInv, TypeOK, WaitListSound
        <5>2. w \in Threads /\ w \in Elements(sleepers) /\ sleepers # <<>>
          BY <3>2, <5>1, ChainTail
        <5> QED BY <5>2 DEF IInv, WaitListSound
      <4>2. pc[w] \in {"d_wait", "d_relock"} /\ isWaiting[w] /\ w # t
        BY <3>0, <4>1 DEF Asleep, IInv, MutexSound
      <4>3. /\ pc' = [pc EXCEPT ![w] = "d_relock", ![t] = "idle"]
            /\ isWaiting' = [isWaiting EXCEPT ![w] = FALSE]
        BY <2>4, <3>2, <4>2 DEF EnqueueWake, Signalled
      <4>4. w \notin Takers /\ Takers' = Takers \cup {w}
        BY <2>0, <3>0, <4>1, <4>2, <4>3 DEF Takers
      <4>5. Cardinality(Takers') = Cardinality(Takers) + 1
        BY <4>4, TakersFinite, FS_AddElement DEF WakersCounted
      <4>6. Waker = 1 /\ Waker' \in {0, 1} /\ count \in Nat /\ Cardinality(Takers) \in Nat
        BY <3>0, TakersFinite, TakersFiniteNext DEF Waker, WakersCounted
      <4>7. count <= Cardinality(Takers) + Waker
        BY <4>1, WakeupForm
      <4>8. count' <= Cardinality(Takers') + Waker'
        BY <3>0, <4>5, <4>6, <4>7
      <4> QED BY <4>8 DEF NoLostWakeup, Waker
    <3> QED BY <3>1, <3>2
  <2>5. CASE DequeueSleep(t)
    <3>1. count' = 0
      BY <2>5 DEF DequeueSleep
    <3>2. count' <= Cardinality(Takers') + Waker'
      BY <3>1, TakersFiniteNext DEF WakersCounted
    <3> QED BY <3>2 DEF NoLostWakeup, Waker
  <2>6. CASE DequeueTake(t) \/ TryDequeueTake(t)
    <3>1. /\ pc[t] \in {"d_test", "t_test"} /\ pc' = [pc EXCEPT ![t] = "idle"]
          /\ count' = count - 1 /\ sleepers' = sleepers /\ isWaiting' = isWaiting
      BY <2>6 DEF DequeueTake, TryDequeueTake, RemoveHead
    <3>2. Takers' = Takers \ {t}
      BY <2>0, <3>1 DEF Takers
    <3>3. Cardinality(Takers) <= Cardinality(Takers') + 1
      <4>1. CASE t \in Takers
        BY <4>1, <3>2, TakersFinite, TakersFiniteNext, FS_RemoveElement DEF WakersCounted
      <4>2. CASE t \notin Takers
        <5>1. Takers' = Takers
          BY <3>2, <4>2
        <5> QED BY <5>1, TakersFinite, TakersFiniteNext DEF WakersCounted
      <4> QED BY <4>1, <4>2
    <3>4. Waker' = Waker
      BY <2>0, <3>1 DEF Waker
    <3>5. /\ Cardinality(Takers) \in Nat /\ Cardinality(Takers') \in Nat
          /\ count \in Nat /\ Waker \in {0, 1}
      BY TakersFinite, TakersFiniteNext DEF WakersCounted
    <3>6. sleepers # <<>> => count' <= Cardinality(Takers') + Waker'
      BY <3>1, <3>3, <3>4, <3>5, WakeupForm
    <3> QED BY <3>1, <3>6 DEF NoLostWakeup, Waker
  <2> QED BY <1>3, <2>2, <2>3, <2>4, <2>5, <2>6 DEF Step
<1> QED BY <1>1, <1>2, <1>3 DEF Next

\* No interleaving of enqueue, dequeue, tryDequeue and spurious wakeups loses
\* a wakeup: a thread sleeps only while every item has a taker awake.
THEOREM NoLostWakeupTheorem == Spec => []NoLostWakeup
<1>1. Init => NoLostWakeup
  BY DEF Init, NoLostWakeup
<1>2. IInv /\ IInv' /\ NoLostWakeup /\ [Next]_vars => NoLostWakeup'
  BY NoLostWakeupStep
<1> QED BY <1>1, <1>2, Invariance, PTL DEF Spec
=============================================================================
