-------------------------- MODULE MessageSlotProofs ---------------------------
(***************************************************************************)
(* The driver's lists stay sorted and typed and every block it allocates   *)
(* stays within reach, for any devices, files, channels and messages.      *)
(***************************************************************************)
EXTENDS MessageSlot, WellFoundedInduction, TLAPS

\* A list with nodes.
NodeList(n, s) == [first |-> "node", size |-> n, nodes |-> s]

\* Replacing one node, and all the nodes of a list.
Put(s, p, x) == [s EXCEPT ![p] = x]

LEMMA NodesUpdate ==
    ASSUME NEW a, NEW t, NEW u
    PROVE  [NodeList(a, t) EXCEPT !.nodes = u] = NodeList(a, u)
  BY DEF NodeList

\* What most of the proof needs of the constants.
LEMMA Sizes ==
    /\ MaxMinor \in Nat /\ BUF_LEN \in Nat /\ MSG_MAX_LENGTH \in Nat
    /\ BUF_LEN <= MSG_MAX_LENGTH
    /\ IntMod \in Nat /\ IntMod > 0 /\ Ids \subseteq Nat /\ NULL \notin Nat
  BY SlotAssumption

USE Sizes
-----------------------------------------------------------------------------
(* Channel numbers.                                                        *)

LEMMA ToIntType == ASSUME NEW c \in Nat PROVE ToInt(c) \in Int
  BY DEF ToInt

LEMMA IntsType == Ints \subseteq Int
  BY ToIntType DEF Ints

\* The conversion keeps unsigned ints apart.
LEMMA ToIntInjective ==
    ASSUME NEW c \in 0..IntMod - 1, NEW d \in 0..IntMod - 1, ToInt(c) = ToInt(d)
    PROVE  c = d
<1>1. c % IntMod = c /\ d % IntMod = d
  OBVIOUS
<1> QED BY <1>1 DEF ToInt
-----------------------------------------------------------------------------
(* Sorted lists.                                                           *)

\* A list of nodes; its channel ids may be any integers.
IsList(s) ==
    /\ DOMAIN s = 1..Len(s) /\ Len(s) \in Nat
    /\ \A i \in 1..Len(s) : s[i].channelId \in Int

Sorted(s) == \A i, j \in 1..Len(s) : i < j => s[i].channelId < s[j].channelId

\* A non-empty set of natural numbers has a least element.
LEMMA LeastNatural ==
    ASSUME NEW T, T \subseteq Nat, T # {}
    PROVE  \E x \in T : \A y \in T : x <= y
<1> DEFINE R == {ss \in Nat \X Nat : ss[1] < ss[2]}
<1>1. \A x, y \in Nat : x < y => <<x, y>> \in R
  OBVIOUS
<1>2. IsWellFoundedOn(R, Nat)
  BY NatLessThanWellFounded DEF OpToRel
<1> HIDE DEF R
<1>3. \E x \in T : \A y \in T : ~(<<y, x>> \in R)
  BY <1>2, WFMin
<1>4. PICK x \in T : \A y \in T : ~(<<y, x>> \in R)
  BY <1>3
<1>5. \A y \in T : ~(y < x)
  BY <1>1, <1>4
<1>6. \A y \in T : x <= y
  BY <1>5
<1> QED BY <1>6

\* Where the loop of getOrCreateNode stops: in a sorted list all earlier ids are
\* smaller and all later ones are not.
LEMMA PositionFacts ==
    ASSUME NEW s, IsList(s), NEW id \in Int
    PROVE  LET p == Position(s, id)
           IN  /\ p \in 1..Len(s) + 1
               /\ \A j \in 1..p - 1 : s[j].channelId < id
               /\ p <= Len(s) => s[p].channelId >= id
<1> USE DEF IsList
<1> DEFINE T == {i \in 1..Len(s) : s[i].channelId >= id}
           P(i) == /\ \A j \in 1..i - 1 : s[j].channelId < id
                   /\ i <= Len(s) => s[i].channelId >= id
<1>1. \E i \in 1..Len(s) + 1 : P(i)
  <2>1. CASE T = {}
    <3>1. P(Len(s) + 1)
      BY <2>1
    <3> QED BY <3>1
  <2>2. CASE T # {}
    <3>0. T \subseteq Nat
      OBVIOUS
    <3>1. PICK i \in T : \A j \in T : i <= j
      <4> HIDE DEF T
      <4> QED BY <2>2, <3>0, LeastNatural
    <3>2. P(i)
      BY <3>1
    <3> QED BY <3>1, <3>2
  <2> QED BY <2>1, <2>2
<1>2. Position(s, id) = CHOOSE i \in 1..Len(s) + 1 : P(i)
  BY DEF Position
<1> HIDE DEF P
<1>3. Position(s, id) \in 1..Len(s) + 1 /\ P(Position(s, id))
  BY <1>1, <1>2
<1> QED BY <1>3 DEF P

\* findChannelId returns the node of the channel, or 0 when there is none.
LEMMA FindFacts ==
    ASSUME NEW s, IsList(s), Sorted(s), NEW id \in Int
    PROVE  /\ \A i \in 1..Len(s) : s[i].channelId = id => findChannelId(s, id) = i
           /\ (\A i \in 1..Len(s) : s[i].channelId # id) => findChannelId(s, id) = 0
<1> USE DEF IsList, Sorted
<1> DEFINE hits == {i \in DOMAIN s : s[i].channelId = id}
<1>1. ASSUME NEW i \in 1..Len(s), s[i].channelId = id
      PROVE  findChannelId(s, id) = i
  <2>1. hits = {i}
    BY <1>1
  <2>2. (CHOOSE k \in hits : \A j \in hits : k <= j) = i
    BY <2>1
  <2> QED BY <2>1, <2>2 DEF findChannelId
<1>2. ASSUME \A i \in 1..Len(s) : s[i].channelId # id PROVE findChannelId(s, id) = 0
  <2>1. hits = {}
    BY <1>2
  <2> QED BY <2>1 DEF findChannelId
<1> QED BY <1>1, <1>2

\* A node that may have been made and not given its length yet.
RawNode == [channelId : Ints, msg : Array(MSG_MAX_LENGTH), msgLength : 0..BUF_LEN]

\* ListSound for one list.
SoundList(lst) ==
    /\ Sorted(lst.nodes)
    /\ lst.size = Len(lst.nodes)
    /\ lst.nodes # <<>> => lst.first = "node"

LEMMA NodesAreRaw == Node \subseteq RawNode
  BY DEF Node, RawNode

LEMMA NodesAreLists == ASSUME NEW s \in Seq(RawNode) PROVE IsList(s)
<1>1. \A i \in 1..Len(s) : s[i] \in RawNode
  OBVIOUS
<1>2. DOMAIN s = 1..Len(s) /\ Len(s) \in Nat
  OBVIOUS
<1> QED BY <1>1, <1>2, IntsType DEF IsList, RawNode

\* getOrCreateNode makes a node exactly when no node has the channel.
LEMMA MissingFacts ==
    ASSUME NEW lst \in LinkedList, SoundList(lst), NEW id \in Ints
    PROVE  Missing(lst, id) <=> \A i \in 1..Len(lst.nodes) : lst.nodes[i].channelId # id
<1> DEFINE s == lst.nodes
           p == Position(s, id)
<1>1. s \in Seq(Node) /\ Len(s) \in Nat /\ lst.size = Len(s) /\ Sorted(s) /\ id \in Int
  BY IntsType DEF LinkedList, SoundList
<1>2. s \in Seq(RawNode)
  BY <1>1, NodesAreRaw
<1>3. IsList(s)
  BY <1>2, NodesAreLists
<1>4. /\ p \in 1..Len(s) + 1
      /\ \A j \in 1..p - 1 : s[j].channelId < id
      /\ p <= Len(s) => s[p].channelId >= id
  BY <1>1, <1>3, PositionFacts
<1>5. Missing(lst, id) <=> ~(lst.size # 0 /\ p <= Len(s) /\ s[p].channelId = id)
  BY DEF Missing
<1> HIDE DEF s, p
<1>6. ASSUME NEW i \in 1..Len(s), s[i].channelId = id
      PROVE  p <= Len(s) /\ s[p].channelId = id
  <2>1. ~(i < p)
    BY <1>1, <1>4, <1>6
  <2>2. p <= i /\ p \in 1..Len(s)
    BY <1>1, <1>4, <2>1
  <2>3. CASE p = i
    BY <1>6, <2>2, <2>3
  <2>4. CASE p < i
    <3>1. s[p].channelId < s[i].channelId /\ s[p].channelId \in Int
      BY <1>1, <1>3, <2>2, <2>4 DEF Sorted, IsList
    <3> QED BY <1>1, <1>4, <1>6, <2>2, <3>1
  <2> QED BY <2>2, <2>3, <2>4
<1>7. (\E i \in 1..Len(s) : s[i].channelId = id)
        <=> (lst.size # 0 /\ p <= Len(s) /\ s[p].channelId = id)
  <2>1. ASSUME lst.size # 0 /\ p <= Len(s) /\ s[p].channelId = id
        PROVE  \E i \in 1..Len(s) : s[i].channelId = id
    BY <1>1, <1>4, <2>1
  <2>2. ASSUME NEW i \in 1..Len(s), s[i].channelId = id
        PROVE  lst.size # 0 /\ p <= Len(s) /\ s[p].channelId = id
    BY <1>1, <1>6, <2>2
  <2> QED BY <2>1, <2>2
<1> QED BY <1>5, <1>7 DEF s

\* A node put where its channel belongs keeps the list sorted.
LEMMA InsertFacts ==
    ASSUME NEW s \in Seq(RawNode), Sorted(s), NEW e \in RawNode,
           \A i \in 1..Len(s) : s[i].channelId # e.channelId
    PROVE  LET p == Position(s, e.channelId)
               t == InsertAt(s, p, e)
           IN  /\ t \in Seq(RawNode) /\ Len(t) = Len(s) + 1 /\ Sorted(t)
               /\ p \in 1..Len(t) /\ t[p] = e
               /\ \A j \in 1..Len(t) : j # p => \E k \in 1..Len(s) : t[j] = s[k]
               /\ \A k \in 1..Len(s) : \E j \in 1..Len(t) : j # p /\ t[j] = s[k]
<1> DEFINE id == e.channelId
           p == Position(s, id)
           t == InsertAt(s, p, e)
<1>1. IsList(s) /\ id \in Int /\ Len(s) \in Nat
  <2>1. e.channelId \in Int
    BY IntsType DEF RawNode
  <2> QED BY <2>1, NodesAreLists
<1>2. /\ p \in 1..Len(s) + 1
      /\ \A j \in 1..p - 1 : s[j].channelId < id
      /\ p <= Len(s) => s[p].channelId >= id
  BY <1>1, PositionFacts
<1>3. t = [j \in 1..Len(s) + 1 |-> IF j < p THEN s[j] ELSE IF j = p THEN e ELSE s[j - 1]]
  BY DEF InsertAt
<1> HIDE DEF p, t, id
<1>4. \A j \in 1..Len(s) + 1 : /\ j < p => t[j] = s[j] /\ j \in 1..Len(s)
                               /\ j = p => t[j] = e
                               /\ j > p => t[j] = s[j - 1] /\ j - 1 \in 1..Len(s)
  BY <1>1, <1>2, <1>3
<1>5. t \in Seq(RawNode) /\ Len(t) = Len(s) + 1
  <2>1. \A j \in 1..Len(s) + 1 : t[j] \in RawNode
    BY <1>1, <1>2, <1>4
  <2>2. t \in [1..Len(s) + 1 -> RawNode]
    BY <1>3, <2>1
  <2>3. Len(s) + 1 \in Nat
    BY <1>1
  <2> QED BY <1>3, <2>2, <2>3
<1>6. \A j \in 1..Len(s) : j < p => s[j].channelId < id
  BY <1>1, <1>2
<1>7. \A j \in 1..Len(s) : j >= p => s[j].channelId > id
  <2> SUFFICES ASSUME NEW j \in 1..Len(s), j >= p PROVE s[j].channelId > id
    OBVIOUS
  <2>1. p \in 1..Len(s) /\ s[p].channelId >= id /\ s[p].channelId # id
    BY <1>1, <1>2 DEF id
  <2>2. s[p].channelId \in Int /\ s[j].channelId \in Int
    BY <1>1, <2>1 DEF IsList
  <2>3. j = p \/ s[p].channelId < s[j].channelId
    BY <1>1, <2>1 DEF Sorted
  <2> QED BY <1>1, <2>1, <2>2, <2>3
<1>8. Sorted(t)
  <2> SUFFICES ASSUME NEW i \in 1..Len(s) + 1, NEW j \in 1..Len(s) + 1, i < j
               PROVE  t[i].channelId < t[j].channelId
    BY <1>5 DEF Sorted
  <2>1. CASE i < p /\ j < p
    BY <1>1, <1>4, <2>1 DEF Sorted
  <2>2. CASE i < p /\ j = p
    BY <1>1, <1>2, <1>4, <1>6, <2>2 DEF id
  <2>3. CASE i < p /\ j > p
    <3>1. t[i] = s[i] /\ t[j] = s[j - 1] /\ i \in 1..Len(s) /\ j - 1 \in 1..Len(s)
      BY <1>1, <1>2, <1>4, <2>3
    <3>2. i < j - 1
      BY <1>1, <1>2, <2>3
    <3> QED BY <3>1, <3>2 DEF Sorted
  <2>4. CASE i = p /\ j > p
    <3>1. t[i] = e /\ t[j] = s[j - 1] /\ j - 1 \in 1..Len(s) /\ j - 1 >= p
      BY <1>1, <1>2, <1>4, <2>4
    <3>2. s[j - 1].channelId > id /\ s[j - 1].channelId \in Int
      BY <1>1, <1>7, <3>1 DEF IsList
    <3> QED BY <1>1, <3>1, <3>2 DEF id
  <2>5. CASE i > p
    <3>1. /\ t[i] = s[i - 1] /\ t[j] = s[j - 1] /\ i - 1 \in 1..Len(s) /\ j - 1 \in 1..Len(s)
          /\ i - 1 < j - 1
      BY <1>1, <1>2, <1>4, <2>5
    <3> QED BY <3>1 DEF Sorted
  <2> QED BY <1>2, <2>1, <2>2, <2>3, <2>4, <2>5
<1>9. p \in 1..Len(t) /\ t[p] = e
  BY <1>2, <1>4, <1>5
<1>10. ASSUME NEW j \in 1..Len(t), j # p PROVE \E k \in 1..Len(s) : t[j] = s[k]
  <2>1. CASE j < p
    BY <1>4, <1>5, <2>1
  <2>2. CASE j > p
    BY <1>4, <1>5, <2>2
  <2> QED BY <1>1, <1>2, <1>5, <1>10, <2>1, <2>2
<1>11. ASSUME NEW k \in 1..Len(s) PROVE \E j \in 1..Len(t) : j # p /\ t[j] = s[k]
  <2>1. CASE k < p
    <3>1. k \in 1..Len(t) /\ k # p /\ t[k] = s[k]
      BY <1>1, <1>2, <1>4, <1>5, <2>1
    <3> QED BY <3>1
  <2>2. CASE k >= p
    <3>1. k + 1 \in 1..Len(t) /\ k + 1 > p /\ (k + 1) - 1 = k
      BY <1>1, <1>2, <1>5, <2>2
    <3>2. t[k + 1] = s[k]
      BY <1>4, <1>5, <3>1
    <3>3. k + 1 # p
      BY <1>2, <3>1
    <3> QED BY <3>1, <3>2, <3>3
  <2> QED BY <1>2, <2>1, <2>2
<1> QED BY <1>5, <1>8, <1>9, <1>10, <1>11 DEF p, t, id

LEMMA FreshNode ==
    ASSUME NEW id \in Ints
    PROVE  createNode(id) \in RawNode /\ createNode(id).channelId = id
  BY DEF createNode, RawNode, Array

\* t has a node for the channel, and nothing else that lst does not have.
Created(lst, id, t) ==
    /\ t \in Seq(RawNode) /\ Sorted(t)
    /\ Len(t) = Len(lst.nodes) + (IF Missing(lst, id) THEN 1 ELSE 0)
    /\ \E p \in 1..Len(t) :
          /\ t[p].channelId = id
          /\ \A j \in 1..Len(t) : j # p => \E k \in 1..Len(lst.nodes) : t[j] = lst.nodes[k]
    /\ \A k \in 1..Len(lst.nodes) :
          lst.nodes[k].channelId # id => \E j \in 1..Len(t) : t[j] = lst.nodes[k]

LEMMA GetOrCreateFacts ==
    ASSUME NEW lst \in LinkedList, SoundList(lst), NEW id \in Ints
    PROVE  \E t : /\ getOrCreateNode(lst, id) = NodeList(Len(t), t)
                  /\ Created(lst, id, t)
<1> DEFINE s == lst.nodes
           new == getOrCreateNode(lst, id)
           t == new.nodes
           e == createNode(id)
<1>1. /\ lst = [first |-> lst.first, size |-> lst.size, nodes |-> s]
      /\ s \in Seq(Node) /\ Len(s) \in Nat /\ lst.size = Len(s) /\ Sorted(s)
      /\ s # <<>> => lst.first = "node"
  BY DEF LinkedList, SoundList
<1>2. s \in Seq(RawNode)
  BY <1>1, NodesAreRaw
<1>3. CASE ~Missing(lst, id)
  <2>1. new = lst
    BY <1>3 DEF getOrCreateNode
  <2>2. PICK p \in 1..Len(s) : s[p].channelId = id
    BY <1>3, MissingFacts
  <2>3. s # <<>>
    BY <2>2
  <2>4. new = NodeList(Len(t), t)
    BY <1>1, <2>1, <2>3 DEF NodeList
  <2>5. Created(lst, id, t)
    BY <1>1, <1>2, <1>3, <2>1, <2>2 DEF Created
  <2> QED BY <2>4, <2>5
<1>4. CASE Missing(lst, id)
  <2>1. \A i \in 1..Len(s) : s[i].channelId # id
    BY <1>4, MissingFacts
  <2>2. e \in RawNode /\ e.channelId = id
    BY FreshNode
  <2>3. CASE lst.size = 0
    <3>1. new = NodeList(1, <<e>>) /\ Len(s) = 0
      BY <1>1, <1>4, <2>3 DEF getOrCreateNode, NodeList
    <3>2. t = <<e>> /\ Len(<<e>>) = 1 /\ <<e>>[1] = e /\ <<e>> \in Seq(RawNode)
      BY <2>2, <3>1 DEF NodeList
    <3>3. Sorted(t)
      BY <3>2 DEF Sorted
    <3>4. Created(lst, id, t)
      <4>1. Len(t) = Len(s) + 1 /\ 1 \in 1..Len(t) /\ t[1].channelId = id
        BY <2>2, <3>1, <3>2
      <4>2. \A j \in 1..Len(t) : j = 1
        BY <3>2
      <4>3. \A k \in 1..Len(s) : FALSE
        BY <3>1
      <4> HIDE DEF t, s
      <4> QED BY <1>4, <3>2, <3>3, <4>1, <4>2, <4>3 DEF Created, s
    <3> QED BY <3>1, <3>2, <3>4
  <2>4. CASE lst.size # 0
    <3> DEFINE q == Position(s, e.channelId)
               u == InsertAt(s, q, e)
    <3>1. new = NodeList(Len(s) + 1, u)
      BY <1>1, <1>4, <2>2, <2>4 DEF getOrCreateNode, NodeList
    <3>2. /\ u \in Seq(RawNode) /\ Len(u) = Len(s) + 1 /\ Sorted(u)
          /\ q \in 1..Len(u) /\ u[q] = e
          /\ \A j \in 1..Len(u) : j # q => \E k \in 1..Len(s) : u[j] = s[k]
          /\ \A k \in 1..Len(s) : \E j \in 1..Len(u) : j # q /\ u[j] = s[k]
      <4>1. \A i \in 1..Len(s) : s[i].channelId # e.channelId
        BY <2>1, <2>2
      <4> HIDE DEF e, s
      <4> QED BY <1>1, <1>2, <2>2, <4>1, InsertFacts
    <3>3. t = u
      BY <3>1 DEF NodeList
    <3> HIDE DEF q, u, t, e
    <3>4. new = NodeList(Len(t), t)
      BY <3>1, <3>2, <3>3
    <3>5. q \in 1..Len(t) /\ t[q].channelId = id
      BY <2>2, <3>2, <3>3
    <3>6. /\ \A j \in 1..Len(t) : j # q => \E k \in 1..Len(s) : t[j] = s[k]
          /\ \A k \in 1..Len(s) : \E j \in 1..Len(t) : t[j] = s[k]
      BY <3>2, <3>3
    <3>7. \E p \in 1..Len(t) :
                     /\ t[p].channelId = id
                     /\ \A j \in 1..Len(t) : j # p => \E k \in 1..Len(s) : t[j] = s[k]
      BY <3>5, <3>6
    <3>8. t \in Seq(RawNode) /\ Sorted(t) /\ Len(t) = Len(s) + 1
      BY <3>2, <3>3
    <3>9. Created(lst, id, t)
      BY <1>4, <3>6, <3>7, <3>8 DEF Created
    <3> QED BY <3>4, <3>9
  <2> QED BY <2>3, <2>4
<1> QED BY <1>3, <1>4

\* A write to channel id: its node is there, the others are as they were.
Written(old, new, id) ==
    /\ new \in LinkedList /\ SoundList(new)
    /\ \E p \in 1..Len(new.nodes) : new.nodes[p].channelId = id
    /\ Len(new.nodes) = Len(old.nodes) + (IF Missing(old, id) THEN 1 ELSE 0)
    /\ \A j \in 1..Len(new.nodes) :
          new.nodes[j].channelId # id => \E k \in 1..Len(old.nodes) : new.nodes[j] = old.nodes[k]
    /\ \A k \in 1..Len(old.nodes) :
          old.nodes[k].channelId # id => \E j \in 1..Len(new.nodes) : new.nodes[j] = old.nodes[k]

\* No two nodes of a sorted list have one channel.
LEMMA SortedDistinct ==
    ASSUME NEW s, IsList(s), Sorted(s), NEW i \in 1..Len(s), NEW j \in 1..Len(s),
           s[i].channelId = s[j].channelId
    PROVE  i = j
<1>1. s[i].channelId \in Int /\ Len(s) \in Nat
  BY DEF IsList
<1>2. ~(i < j) /\ ~(j < i)
  BY <1>1 DEF Sorted
<1> QED BY <1>1, <1>2

LEMMA ReplaceNode ==
    ASSUME NEW lst \in LinkedList, SoundList(lst), NEW id \in Ints,
           NEW t, Created(lst, id, t),
           NEW p \in 1..Len(t), t[p].channelId = id,
           NEW x \in Node, x.channelId = id
    PROVE  Written(lst, NodeList(Len(t), Put(t, p, x)), id)
<1> DEFINE s == lst.nodes
           u == Put(t, p, x)
           new == NodeList(Len(t), u)
<1>1. /\ t \in Seq(RawNode) /\ Sorted(t)
      /\ Len(t) = Len(s) + (IF Missing(lst, id) THEN 1 ELSE 0)
      /\ \A k \in 1..Len(s) : s[k].channelId # id => \E j \in 1..Len(t) : t[j] = s[k]
  BY DEF Created
<1>2. s \in Seq(Node) /\ id \in Int /\ IsList(t) /\ Len(t) \in Nat
  BY <1>1, NodesAreLists, IntsType DEF LinkedList
<1>3. \A j \in 1..Len(t) : j # p => \E k \in 1..Len(s) : t[j] = s[k]
  <2>1. PICK q \in 1..Len(t) :
          /\ t[q].channelId = id
          /\ \A j \in 1..Len(t) : j # q => \E k \in 1..Len(s) : t[j] = s[k]
    BY DEF Created
  <2>2. q = p
    BY <1>1, <1>2, <2>1, SortedDistinct
  <2> QED BY <2>1, <2>2
<1>4. /\ u \in [1..Len(t) -> RawNode] /\ Len(u) = Len(t) /\ u[p] = x
      /\ \A j \in 1..Len(t) : j # p => u[j] = t[j]
  <2>0. x \in RawNode
    BY NodesAreRaw
  <2>a. t \in Seq(RawNode)
    BY <1>1
  <2>1. t \in [1..Len(t) -> RawNode] /\ x \in RawNode
    BY <2>0, <2>a
  <2>2. u \in [1..Len(t) -> RawNode]
    BY <2>1 DEF Put
  <2>3. Len(u) = Len(t)
    BY <1>2, <2>2
  <2> QED BY <2>1, <2>2, <2>3 DEF Put
<1> HIDE DEF u, s
<1>5. \A j \in 1..Len(t) : u[j] \in Node /\ u[j].channelId = t[j].channelId
  <2> SUFFICES ASSUME NEW j \in 1..Len(t) PROVE u[j] \in Node /\ u[j].channelId = t[j].channelId
    OBVIOUS
  <2>1. CASE j = p
    BY <1>4, <2>1
  <2>2. CASE j # p
    <3>1. PICK k \in 1..Len(s) : t[j] = s[k]
      BY <1>3, <2>2
    <3> QED BY <1>2, <1>4, <2>2, <3>1
  <2> QED BY <2>1, <2>2
<1>6. u \in Seq(Node)
  <2>1. u \in [1..Len(t) -> Node]
    BY <1>4, <1>5
  <2> QED BY <1>2, <2>1
<1>7. Sorted(u)
  BY <1>1, <1>4, <1>5 DEF Sorted
<1>8. new \in LinkedList /\ SoundList(new)
  BY <1>2, <1>4, <1>6, <1>7 DEF LinkedList, SoundList, NodeList
<1>9. \A j \in 1..Len(u) : u[j].channelId # id => \E k \in 1..Len(s) : u[j] = s[k]
  BY <1>3, <1>4
<1>10. ASSUME NEW k \in 1..Len(s), s[k].channelId # id
       PROVE  \E j \in 1..Len(u) : u[j] = s[k]
  <2>1. PICK j \in 1..Len(t) : t[j] = s[k]
    BY <1>1, <1>10
  <2>2. j # p
    BY <1>10, <2>1
  <2> QED BY <1>4, <2>1, <2>2
<1>11. new.nodes = u /\ p \in 1..Len(u) /\ u[p].channelId = id
  BY <1>4 DEF NodeList
<1> HIDE DEF new
<1>12. Written(lst, new, id)
  BY <1>1, <1>4, <1>8, <1>9, <1>10, <1>11 DEF Written, s
<1> QED BY <1>12 DEF new, u

\* Setting the length writes one node.
LEMMA SetLengthFacts ==
    ASSUME NEW t \in Seq(RawNode), Sorted(t), NEW p \in 1..Len(t), NEW id, t[p].channelId = id,
           NEW n \in 1..BUF_LEN
    PROVE  \E x \in Node :
             /\ x.channelId = id
             /\ SetLength(NodeList(Len(t), t), id, n)
                  = NodeList(Len(t), Put(t, p, x))
<1>1. IsList(t) /\ id \in Int
  BY NodesAreLists DEF IsList
<1>2. findChannelId(t, id) = p
  BY <1>1, FindFacts
<1> DEFINE x == [t[p] EXCEPT !.msgLength = n]
<1>3. t[p] \in RawNode
  OBVIOUS
<1>4. x \in Node /\ x.channelId = id
  BY <1>3 DEF RawNode, Node
<1> DEFINE lst == NodeList(Len(t), t)
<1>5. SetLength(lst, id, n)
        = NodeList(Len(t), [t EXCEPT ![p].msgLength = n])
  <2>1. lst.nodes = t
    BY DEF NodeList
  <2>2. SetLength(lst, id, n) = [lst EXCEPT !.nodes[p].msgLength = n]
    BY <1>2, <2>1 DEF SetLength
  <2>3. @ = [lst EXCEPT !.nodes = [t EXCEPT ![p].msgLength = n]]
    BY DEF NodeList
  <2>4. @ = NodeList(Len(t), [t EXCEPT ![p].msgLength = n])
    BY NodesUpdate
  <2> QED BY <2>2, <2>3, <2>4
<1>6. [t EXCEPT ![p].msgLength = n] = Put(t, p, x)
  BY DEF Put
<1> HIDE DEF x
<1> QED BY <1>4, <1>5, <1>6

\* setMsg writes the message into one node.
LEMMA SetMsgFacts ==
    ASSUME NEW t \in Seq(RawNode), Sorted(t), NEW p \in 1..Len(t), NEW id, t[p].channelId = id,
           NEW m \in Seq(Bytes), Len(m) \in 1..BUF_LEN
    PROVE  \E x \in Node :
             /\ x.channelId = id /\ Message(x) = m
             /\ setMsg(NodeList(Len(t), t), id, m)
                  = NodeList(Len(t), Put(t, p, x))
<1>1. IsList(t) /\ id \in Int
  BY NodesAreLists DEF IsList
<1>2. findChannelId(t, id) = p
  BY <1>1, FindFacts
<1>a. t[p] \in RawNode
  OBVIOUS
<1>3. t[p] \in RawNode /\ t[p].msg \in Array(MSG_MAX_LENGTH)
  BY <1>a DEF RawNode
<1> DEFINE y == [j \in DOMAIN t[p].msg |-> IF j <= Len(m) THEN m[j] ELSE t[p].msg[j]]
           x == [channelId |-> id, msg |-> y, msgLength |-> Len(m)]
<1>4. /\ DOMAIN t[p].msg = 1..MSG_MAX_LENGTH
      /\ \A j \in 1..MSG_MAX_LENGTH : t[p].msg[j] \in Bytes \cup {Junk}
      /\ \A j \in 1..Len(m) : m[j] \in Bytes /\ j \in 1..MSG_MAX_LENGTH
  BY <1>3 DEF Array
<1>5. y \in Array(MSG_MAX_LENGTH) /\ \A j \in 1..Len(m) : y[j] = m[j]
  BY <1>4 DEF Array
<1> HIDE DEF y
<1>6. x \in Node
  BY <1>3, <1>5 DEF Node, RawNode
<1>7. Message(x) = m
  BY <1>5 DEF Message
<1>8. t[p] = [channelId |-> id, msg |-> t[p].msg, msgLength |-> t[p].msgLength]
  BY <1>3 DEF RawNode
<1>9. [[t EXCEPT ![p].msg = y] EXCEPT ![p].msgLength = Len(m)] = Put(t, p, x)
  <2>1. t \in [1..Len(t) -> RawNode]
    OBVIOUS
  <2>2. [[t[p] EXCEPT !.msg = y] EXCEPT !.msgLength = Len(m)] = x
    <3>1. [t[p] EXCEPT !.msg = y]
            = [channelId |-> id, msg |-> y, msgLength |-> t[p].msgLength]
      BY <1>8
    <3>2. [[channelId |-> id, msg |-> y, msgLength |-> t[p].msgLength]
              EXCEPT !.msgLength = Len(m)] = x
      OBVIOUS
    <3> QED BY <3>1, <3>2
  <2> HIDE DEF x
  <2> QED BY <2>1, <2>2 DEF Put
<1>10. setMsg(NodeList(Len(t), t), id, m)
         = NodeList(Len(t), [[t EXCEPT ![p].msg = y] EXCEPT ![p].msgLength = Len(m)])
  <2> DEFINE lst == NodeList(Len(t), t)
  <2>1. lst.nodes = t
    BY DEF NodeList
  <2>2. setMsg(lst, id, m) =
          [lst EXCEPT !.nodes[p].msg = [j \in DOMAIN @ |-> IF j <= Len(m) THEN m[j] ELSE @[j]],
                      !.nodes[p].msgLength = Len(m)]
    BY <1>2, <2>1 DEF setMsg
  <2>3. @ = [[lst EXCEPT !.nodes[p].msg = y] EXCEPT !.nodes[p].msgLength = Len(m)]
    BY DEF y, NodeList
  <2>4. [lst EXCEPT !.nodes[p].msg = y]
          = NodeList(Len(t), [t EXCEPT ![p].msg = y])
    <3>1. [lst EXCEPT !.nodes[p].msg = y] = [lst EXCEPT !.nodes = [t EXCEPT ![p].msg = y]]
      BY DEF NodeList
    <3> QED BY <3>1, NodesUpdate
  <2> DEFINE t2 == [t EXCEPT ![p].msg = y]
             lst2 == NodeList(Len(t), t2)
  <2>5. [lst2 EXCEPT !.nodes[p].msgLength = Len(m)]
          = NodeList(Len(t), [t2 EXCEPT ![p].msgLength = Len(m)])
    <3> HIDE DEF t2
    <3>1. [lst2 EXCEPT !.nodes[p].msgLength = Len(m)]
            = [lst2 EXCEPT !.nodes = [t2 EXCEPT ![p].msgLength = Len(m)]]
      BY DEF NodeList
    <3> QED BY <3>1, NodesUpdate
  <2> QED BY <2>2, <2>3, <2>4, <2>5
<1>11. x.channelId = id
  OBVIOUS
<1> HIDE DEF x
<1> QED BY <1>6, <1>7, <1>9, <1>10, <1>11
-----------------------------------------------------------------------------
(* The inductive invariant.                                                *)

\* devices[0] is nobody's: devices[] is indexed by minor + 1, and simple_cleanup
\* relies on it when it starts at 1.
SlotZeroUnused == devices[0] = NULL

IInv == TypeOK /\ ListSound /\ NoLeak /\ SlotZeroUnused

LEMMA NullApart == NULL \notin LinkedList /\ NULL \notin OpenFile
  BY SlotAssumption

LEMMA InitIInv == Init => IInv
<1> SUFFICES ASSUME Init PROVE IInv
  OBVIOUS
<1>1. 0 \in Slots
  BY DEF Slots, MAX_DEVICES
<1>2. TypeOK
  BY DEF Init, TypeOK
<1>3. ListSound /\ NoLeak
  BY DEF Init, ListSound, NoLeak
<1> QED BY <1>1, <1>2, <1>3 DEF Init, IInv, SlotZeroUnused

\* The invariant, one device at a time.
DeviceOK(lst, blocks) ==
    /\ lst \in {NULL} \cup LinkedList
    /\ blocks = IF lst = NULL THEN 0 ELSE 1 + 2 * Len(lst.nodes)
    /\ lst # NULL => SoundList(lst)

LEMMA SoundMeaning ==
    ASSUME NEW lst \in LinkedList
    PROVE  SoundList(lst) <=>
             LET s == lst.nodes
             IN  /\ \A i, j \in DOMAIN s : i < j => s[i].channelId < s[j].channelId
                 /\ lst.size = Len(s)
                 /\ s # <<>> => lst.first = "node"
<1>1. lst.nodes \in Seq(Node)
  BY DEF LinkedList
<1>2. DOMAIN lst.nodes = 1..Len(lst.nodes)
  BY <1>1
<1> QED BY <1>2 DEF SoundList, Sorted

LEMMA Devices ==
    ASSUME IInv, NEW k \in Slots
    PROVE  DeviceOK(devices[k], kmem[k])
  BY SoundMeaning DEF IInv, TypeOK, ListSound, NoLeak, DeviceOK

LEMMA DevicesNext ==
    ASSUME devices' \in [Slots -> {NULL} \cup LinkedList],
           \A k \in Slots : DeviceOK(devices'[k], kmem'[k])
    PROVE  ListSound' /\ NoLeak'
  BY SoundMeaning DEF ListSound, NoLeak, DeviceOK

\* A step that leaves the devices alone keeps their part of the invariant.
LEMMA SameDevices ==
    ASSUME IInv, UNCHANGED <<devices, kmem>>
    PROVE  ListSound' /\ NoLeak' /\ SlotZeroUnused'
  BY DEF IInv, ListSound, NoLeak, SlotZeroUnused

LEMMA SlotOf ==
    ASSUME NEW minor \in Minors
    PROVE  minor + 1 \in Slots /\ minor + 1 # 0 /\ 0 \in Slots
  BY DEF Minors, Slots, MAX_DEVICES

\* A step that gives one device a sound list and accounts for its blocks.
LEMMA OneDevice ==
    ASSUME IInv, NEW minor \in Minors, NEW lst \in LinkedList, NEW blocks \in Int,
           DeviceOK(lst, blocks),
           devices' = [devices EXCEPT ![minor + 1] = lst],
           kmem' = [kmem EXCEPT ![minor + 1] = blocks]
    PROVE  /\ devices' \in [Slots -> {NULL} \cup LinkedList] /\ kmem' \in [Slots -> Int]
           /\ ListSound' /\ NoLeak' /\ SlotZeroUnused'
           /\ \A k \in Slots : devices[k] # NULL => devices'[k] # NULL
           /\ devices'[minor + 1] # NULL
<1>1. /\ devices \in [Slots -> {NULL} \cup LinkedList] /\ kmem \in [Slots -> Int]
      /\ devices[0] = NULL
  BY DEF IInv, TypeOK, SlotZeroUnused
<1>2. minor + 1 \in Slots /\ minor + 1 # 0 /\ 0 \in Slots
  BY SlotOf
<1>3. \A k \in Slots : DeviceOK(devices'[k], kmem'[k])
  BY <1>1, <1>2, Devices
<1>4. devices' \in [Slots -> {NULL} \cup LinkedList] /\ kmem' \in [Slots -> Int]
  BY <1>1, <1>2
<1>5. lst # NULL
  BY NullApart
<1>6. devices'[minor + 1] = lst /\ \A k \in Slots : k # minor + 1 => devices'[k] = devices[k]
  BY <1>1, <1>2
<1> HIDE DEF SlotZeroUnused
<1>7. SlotZeroUnused'
  BY <1>1, <1>2, <1>6 DEF SlotZeroUnused
<1> QED BY <1>3, <1>4, <1>5, <1>6, <1>7, DevicesNext

\* What is known of an open file, and of the file f in particular.
LEMMA OpenFacts ==
    ASSUME IInv, NEW f \in Files, IsOpen(f)
    PROVE  /\ file[f] \in OpenFile /\ file[f].minor \in Minors
           /\ file[f].private_data \in Ids \cup {0}
           /\ List(f) \in LinkedList /\ SoundList(List(f))
           /\ kmem[file[f].minor + 1] = 1 + 2 * Len(List(f).nodes)
           /\ Len(List(f).nodes) \in Nat
           /\ file[f].private_data # 0 => Channel(f) \in Ints
<1>1. file[f] \in OpenFile /\ List(f) # NULL
  BY DEF IInv, TypeOK, IsOpen
<1>2. file[f].minor \in Minors /\ file[f].private_data \in Ids \cup {0}
  BY <1>1 DEF OpenFile
<1>3. file[f].minor + 1 \in Slots
  BY <1>2, SlotOf
<1>4. DeviceOK(List(f), kmem[file[f].minor + 1])
  BY <1>3, Devices DEF List
<1>5. List(f) \in LinkedList /\ SoundList(List(f))
  BY <1>1, <1>4 DEF DeviceOK
<1>6. List(f).nodes \in Seq(Node)
  BY <1>5 DEF LinkedList
<1>7. Len(List(f).nodes) \in Nat
  BY <1>6
<1>8. file[f].private_data # 0 => Channel(f) \in Ints
  BY <1>2 DEF Channel, Ints
<1> QED BY <1>1, <1>2, <1>4, <1>5, <1>7, <1>8 DEF DeviceOK
-----------------------------------------------------------------------------
(* What the three ways through device_write do to the list.                *)

\* Past the early returns the message has a legal length and f a channel.
LEMMA WriteAllowed ==
    ASSUME NEW f, NEW m, WriteError(f, m, FALSE) = "ok", Len(m) \in Nat
    PROVE  Len(m) \in 1..BUF_LEN /\ file[f].private_data # 0
<1>1. CASE Len(m) > BUF_LEN \/ Len(m) = 0
  <2>1. WriteError(f, m, FALSE) = "EMSGSIZE"
    BY <1>1 DEF WriteError
  <2> QED BY <2>1
<1>2. CASE Len(m) \in 1..BUF_LEN /\ file[f].private_data = 0
  <2>1. WriteError(f, m, FALSE) = "EINVAL"
    BY <1>2 DEF WriteError
  <2> QED BY <2>1
<1> QED BY <1>1, <1>2

\* The node of channel id holds the message m.
Holds(lst, id, m) ==
    \E p \in 1..Len(lst.nodes) : lst.nodes[p].channelId = id /\ Message(lst.nodes[p]) = m

\* The list after a write, of a message that did not arrive and of one that did,
\* is the old one but for the node of the channel, which is there.
LEMMA ListAfterWrite ==
    ASSUME NEW lst \in LinkedList, SoundList(lst), NEW id \in Ints,
           NEW m \in Seq(Bytes), Len(m) \in 1..BUF_LEN
    PROVE  LET short == SetLength(getOrCreateNode(lst, id), id, Len(m))
               new   == setMsg(short, id, m)
           IN  Written(lst, short, id) /\ Written(lst, new, id) /\ Holds(new, id, m)
<1>1. PICK t : /\ getOrCreateNode(lst, id) = NodeList(Len(t), t)
               /\ Created(lst, id, t)
  BY GetOrCreateFacts
<1>2. PICK p \in 1..Len(t) : t[p].channelId = id
  BY <1>1 DEF Created
<1>3. t \in Seq(RawNode) /\ Sorted(t)
  BY <1>1 DEF Created
<1> DEFINE short == SetLength(getOrCreateNode(lst, id), id, Len(m))
           new == setMsg(short, id, m)
<1>4. PICK x \in Node : /\ x.channelId = id
                        /\ short = NodeList(Len(t), Put(t, p, x))
  <2>1. PICK n \in 1..BUF_LEN : n = Len(m)
    OBVIOUS
  <2>2. \E x \in Node :
          /\ x.channelId = id
          /\ SetLength(NodeList(Len(t), t), id, n) = NodeList(Len(t), Put(t, p, x))
    BY <1>2, <1>3, <2>1, SetLengthFacts
  <2>3. short = SetLength(NodeList(Len(t), t), id, n)
    BY <1>1, <2>1
  <2> HIDE DEF short
  <2> QED BY <2>2, <2>3
<1> DEFINE u == Put(t, p, x)
<1>5. Written(lst, NodeList(Len(t), u), id)
  BY <1>1, <1>2, <1>4, ReplaceNode
<1>6. t \in [1..Len(t) -> RawNode] /\ Len(t) \in Nat /\ x \in RawNode
  BY <1>3, NodesAreRaw
<1>7. u \in [1..Len(t) -> RawNode] /\ u[p] = x /\ \A w : Put(u, p, w) = Put(t, p, w)
  BY <1>2, <1>6 DEF Put
<1>8. u \in Seq(RawNode) /\ Len(u) = Len(t) /\ p \in 1..Len(u) /\ u[p].channelId = id
  <2> HIDE DEF u
  <2> QED BY <1>2, <1>4, <1>6, <1>7
<1>9. Sorted(u)
  BY <1>5 DEF Written, SoundList, NodeList
<1> HIDE DEF u
<1>10. PICK z \in Node :
         /\ z.channelId = id /\ Message(z) = m
         /\ setMsg(NodeList(Len(u), u), id, m)
              = NodeList(Len(u), Put(u, p, z))
  BY <1>8, <1>9, SetMsgFacts
<1> DEFINE v == Put(t, p, z)
<1>11. new = NodeList(Len(t), v)
  BY <1>4, <1>7, <1>8, <1>10 DEF u
<1>12. Written(lst, NodeList(Len(t), v), id)
  BY <1>1, <1>2, <1>10, ReplaceNode
<1>13. Len(v) = Len(t) /\ v[p] = z
  <2>1. z \in RawNode
    BY <1>10, NodesAreRaw
  <2>2. v \in [1..Len(t) -> RawNode]
    BY <1>6, <2>1 DEF Put
  <2> QED BY <1>2, <1>6, <2>2 DEF Put
<1> HIDE DEF v
<1>14. Holds(NodeList(Len(t), v), id, m)
  BY <1>2, <1>10, <1>13 DEF Holds, NodeList
<1>15. short = NodeList(Len(t), u)
  BY <1>4 DEF u
<1> QED BY <1>5, <1>11, <1>12, <1>14, <1>15

\* The list of f's device after a write, as the actions put it.
UncopiedList(f, m) == SetLength(WithNode(f), Channel(f), Len(m))
WrittenList(f, m) == setMsg(SetLength(WithNode(f), Channel(f), Len(m)), Channel(f), m)

LEMMA WriteFacts ==
    ASSUME IInv, NEW f \in Files, IsOpen(f), NEW m \in Inputs, WriteError(f, m, FALSE) = "ok"
    PROVE  /\ Written(List(f), UncopiedList(f, m), Channel(f))
           /\ Written(List(f), WrittenList(f, m), Channel(f))
           /\ Holds(WrittenList(f, m), Channel(f), m)
<1>1. m \in Seq(Bytes) /\ Len(m) \in Nat
  BY SlotAssumption
<1>2. Len(m) \in 1..BUF_LEN /\ file[f].private_data # 0
  BY <1>1, WriteAllowed
<1>3. PICK lst, id : lst = List(f) /\ id = Channel(f)
  OBVIOUS
<1>4. lst \in LinkedList /\ SoundList(lst) /\ id \in Ints
  BY <1>2, <1>3, OpenFacts
<1>5. /\ UncopiedList(f, m) = SetLength(getOrCreateNode(lst, id), id, Len(m))
      /\ WrittenList(f, m) = setMsg(SetLength(getOrCreateNode(lst, id), id, Len(m)), id, m)
  BY <1>3 DEF UncopiedList, WrittenList, WithNode
<1> QED BY <1>1, <1>2, <1>3, <1>4, <1>5, ListAfterWrite
-----------------------------------------------------------------------------
(* One lemma per operation.                                                *)

\* A step that leaves devices and files alone only has to keep the module's and
\* the major number's types.
LEMMA QuietStep ==
    ASSUME IInv, UNCHANGED <<devices, file, kmem>>,
           module' \in {"out", "in", "oops"}, major' \in {"nobody", "slot", "other"}
    PROVE  IInv'
<1>1. ListSound' /\ NoLeak' /\ SlotZeroUnused'
  BY SameDevices
<1>2. TypeOK'
  BY DEF IInv, TypeOK, List
<1> QED BY <1>1, <1>2 DEF IInv

LEMMA OpenKeeps ==
    ASSUME IInv, NEW f \in Files, NEW minor \in Minors, device_open(f, minor)
    PROVE  IInv'
<1> DEFINE k == minor + 1
           of == [minor |-> minor, private_data |-> 0]
<1>1. /\ file' = [file EXCEPT ![f] = of] /\ module' = module /\ major' = major
      /\ file \in [Files -> {NULL} \cup OpenFile] /\ of \in OpenFile
  BY DEF device_open, IInv, TypeOK, OpenFile
<1>2. k \in Slots
  BY SlotOf
<1>3. /\ devices' \in [Slots -> {NULL} \cup LinkedList] /\ kmem' \in [Slots -> Int]
      /\ ListSound' /\ NoLeak' /\ SlotZeroUnused'
      /\ \A s \in Slots : devices[s] # NULL => devices'[s] # NULL
      /\ devices'[k] # NULL
  <2>1. CASE devices[k] = NULL
    <3>1. PICK x \in Fresh :
            devices' = [devices EXCEPT ![k] = [first |-> x, size |-> 0, nodes |-> <<>>]]
      BY <2>1 DEF device_open
    <3>2. kmem' = [kmem EXCEPT ![k] = 1]
      BY <2>1 DEF device_open
    <3> DEFINE lst == [first |-> x, size |-> 0, nodes |-> <<>>]
    <3>3. x \in {"null", "wild"}
      BY SlotAssumption
    <3>4. lst \in LinkedList
      BY <3>3 DEF LinkedList
    <3>5. SoundList(lst)
      BY DEF SoundList, Sorted
    <3>6. lst.nodes = <<>> /\ Len(lst.nodes) = 0
      OBVIOUS
    <3> HIDE DEF lst
    <3>7. DeviceOK(lst, 1)
      <4>1. lst # NULL
        BY <3>4, NullApart
      <4> QED BY <3>4, <3>5, <3>6, <4>1 DEF DeviceOK
    <3>8. /\ devices' = [devices EXCEPT ![minor + 1] = lst]
          /\ kmem' = [kmem EXCEPT ![minor + 1] = 1]
      BY <3>1, <3>2 DEF lst
    <3>9. 1 \in Int
      OBVIOUS
    <3> QED BY <3>4, <3>7, <3>8, <3>9, OneDevice
  <2>2. CASE devices[k] # NULL
    <3>1. UNCHANGED <<devices, kmem>>
      BY <2>2 DEF device_open
    <3> QED BY <2>2, <3>1, SameDevices DEF IInv, TypeOK
  <2> QED BY <2>1, <2>2
<1>4. file' \in [Files -> {NULL} \cup OpenFile]
  BY <1>1
<1>5. \A g \in Files : file'[g] # NULL => devices'[file'[g].minor + 1] # NULL
  <2> SUFFICES ASSUME NEW g \in Files, file'[g] # NULL
               PROVE  devices'[file'[g].minor + 1] # NULL
    OBVIOUS
  <2>1. CASE g = f
    <3>1. file'[g].minor + 1 = k
      BY <1>1, <2>1
    <3> QED BY <1>3, <3>1
  <2>2. CASE g # f
    <3>1. file'[g] = file[g] /\ file[g] \in OpenFile
      BY <1>1, <2>2
    <3>2. devices[file[g].minor + 1] # NULL
      BY <3>1 DEF IInv, TypeOK, List
    <3>3. file[g].minor + 1 \in Slots
      BY <3>1, SlotOf DEF OpenFile
    <3> QED BY <1>3, <3>1, <3>2, <3>3
  <2> QED BY <2>1, <2>2
<1>6. TypeOK'
  BY <1>1, <1>3, <1>4, <1>5 DEF TypeOK, List, IInv
<1> QED BY <1>3, <1>6 DEF IInv

LEMMA CloseKeeps == ASSUME IInv, NEW f \in Files, Close(f) PROVE IInv'
<1>1. ListSound' /\ NoLeak' /\ SlotZeroUnused'
  BY SameDevices DEF Close
<1>2. TypeOK'
  BY DEF IInv, TypeOK, List, Close
<1> QED BY <1>1, <1>2 DEF IInv

LEMMA IoctlKeeps ==
    ASSUME IInv, NEW f \in Files, NEW id \in Ids, device_ioctl(f, id)
    PROVE  IInv'
<1>1. ListSound' /\ NoLeak' /\ SlotZeroUnused'
  BY SameDevices DEF device_ioctl
<1>2. file[f] \in OpenFile /\ file \in [Files -> {NULL} \cup OpenFile]
  BY OpenFacts DEF device_ioctl, IInv, TypeOK
<1> DEFINE of == [file[f] EXCEPT !.private_data = id]
<1>3. of \in OpenFile /\ of.minor = file[f].minor
  BY <1>2 DEF OpenFile
<1>4. file' = [file EXCEPT ![f] = of]
  BY DEF device_ioctl
<1> HIDE DEF of
<1>5. file' \in [Files -> {NULL} \cup OpenFile]
  BY <1>2, <1>3, <1>4
<1>6. \A g \in Files : file'[g] # NULL => file[g] # NULL /\ file'[g].minor = file[g].minor
  BY <1>2, <1>3, <1>4, NullApart
<1>7. \A g \in Files : file'[g] # NULL => devices'[file'[g].minor + 1] # NULL
  BY <1>6 DEF IInv, TypeOK, List, device_ioctl
<1>8. TypeOK'
  BY <1>5, <1>7 DEF TypeOK, IInv, List, device_ioctl
<1> QED BY <1>1, <1>8 DEF IInv

\* Any step that replaces f's list by a written one and counts the new blocks.
LEMMA WriteKeeps ==
    ASSUME IInv, NEW f \in Files, IsOpen(f), file[f].private_data # 0,
           NEW new, Written(List(f), new, Channel(f)),
           devices' = [devices EXCEPT ![file[f].minor + 1] = new],
           kmem' = [kmem EXCEPT ![file[f].minor + 1] = BlocksAfter(f)],
           UNCHANGED <<module, major, file>>
    PROVE  IInv'
<1> DEFINE k == file[f].minor + 1
<1>1. /\ file[f].minor \in Minors /\ kmem[k] = 1 + 2 * Len(List(f).nodes)
      /\ Len(List(f).nodes) \in Nat
  BY OpenFacts
<1>2. /\ new \in LinkedList /\ SoundList(new)
      /\ Len(new.nodes) = Len(List(f).nodes) + (IF Missing(List(f), Channel(f)) THEN 1 ELSE 0)
  BY DEF Written
<1>3. BlocksAfter(f) = 1 + 2 * Len(new.nodes) /\ BlocksAfter(f) \in Int
  <2>1. CASE Missing(List(f), Channel(f))
    <3>1. BlocksAfter(f) = kmem[k] + 2 /\ Len(new.nodes) = Len(List(f).nodes) + 1
      BY <1>2, <2>1 DEF BlocksAfter
    <3> QED BY <1>1, <3>1
  <2>2. CASE ~Missing(List(f), Channel(f))
    <3>1. BlocksAfter(f) = kmem[k] /\ Len(new.nodes) = Len(List(f).nodes) + 0
      BY <1>2, <2>2 DEF BlocksAfter
    <3> QED BY <1>1, <3>1
  <2> QED BY <2>1, <2>2
<1>4. new # NULL
  BY <1>2, NullApart
<1>5. DeviceOK(new, BlocksAfter(f))
  BY <1>2, <1>3, <1>4 DEF DeviceOK
<1>6. /\ devices' \in [Slots -> {NULL} \cup LinkedList] /\ kmem' \in [Slots -> Int]
      /\ ListSound' /\ NoLeak' /\ SlotZeroUnused'
      /\ \A s \in Slots : devices[s] # NULL => devices'[s] # NULL
  BY <1>1, <1>2, <1>3, <1>5, OneDevice
<1>7. \A g \in Files : file[g] # NULL => devices'[file[g].minor + 1] # NULL
  <2> SUFFICES ASSUME NEW g \in Files, file[g] # NULL PROVE devices'[file[g].minor + 1] # NULL
    OBVIOUS
  <2>1. file[g] \in OpenFile /\ devices[file[g].minor + 1] # NULL
    BY DEF IInv, TypeOK, List
  <2>2. file[g].minor + 1 \in Slots
    BY <2>1, SlotOf DEF OpenFile
  <2> QED BY <1>6, <2>1, <2>2
<1>8. TypeOK'
  BY <1>6, <1>7 DEF TypeOK, IInv, List
<1> QED BY <1>6, <1>8 DEF IInv

LEMMA WritesKeep ==
    ASSUME IInv, NEW f \in Files, NEW m \in Inputs, device_write(f, m) \/ WriteNoCopy(f, m)
    PROVE  IInv'
<1>1. Len(m) \in Nat
  BY SlotAssumption
<1>2. IsOpen(f) /\ WriteError(f, m, FALSE) = "ok"
  BY DEF device_write, WriteNoCopy
<1>3. file[f].private_data # 0
  BY <1>1, <1>2, WriteAllowed
<1>4. CASE device_write(f, m)
  <2>1. devices' = [devices EXCEPT ![file[f].minor + 1] = WrittenList(f, m)]
    BY <1>4 DEF device_write, WrittenList
  <2> QED BY <1>2, <1>3, <1>4, <2>1, WriteFacts, WriteKeeps DEF device_write
<1>5. CASE WriteNoCopy(f, m)
  <2>1. devices' = [devices EXCEPT ![file[f].minor + 1] = UncopiedList(f, m)]
    BY <1>5 DEF WriteNoCopy, UncopiedList
  <2> QED BY <1>2, <1>3, <1>5, <2>1, WriteFacts, WriteKeeps DEF WriteNoCopy
<1> QED BY <1>4, <1>5

\* Calls that change nothing but their result.
LEMMA CallsKeep ==
    ASSUME IInv, NEW f \in Files,
           \/ \E minor \in Minors : OpenFailed(f, minor)
           \/ IoctlRejected(f)
           \/ \E m \in Inputs, noBuffer \in BOOLEAN : WriteRejected(f, m, noBuffer)
           \/ \E m \in Inputs : WriteNoNode(f, m)
           \/ \E length \in 0..BUF_LEN : device_read(f, length)
           \/ ReadRejected(f) \/ ReadWild(f)
    PROVE  IInv'
<1>1. UNCHANGED <<devices, file, kmem, major>> /\ module' \in {module, "oops"}
  BY DEF OpenFailed, IoctlRejected, WriteRejected, WriteNoNode, device_read, ReadRejected, ReadWild
<1> QED BY <1>1, QuietStep DEF IInv, TypeOK

\* Unloading gives back exactly what the devices hold.
LEMMA CleanupKeeps == ASSUME IInv, simple_cleanup PROVE IInv'
<1>1. \A k \in Slots : kmem'[k] = 0
  <2> SUFFICES ASSUME NEW k \in Slots PROVE kmem'[k] = 0
    OBVIOUS
  <2>1. kmem'[k] = IF k \in CleanupRange /\ devices[k] # NULL
                   THEN kmem[k] - freeLst(devices[k]) ELSE kmem[k]
    BY DEF simple_cleanup
  <2>2. DeviceOK(devices[k], kmem[k])
    BY Devices
  <2>3. CASE devices[k] = NULL
    BY <2>1, <2>2, <2>3 DEF DeviceOK
  <2>4. CASE devices[k] # NULL
    <3>1. k \in CleanupRange
      BY <2>4 DEF Slots, CleanupRange, MAX_DEVICES, IInv, SlotZeroUnused
    <3>2. devices[k] \in LinkedList /\ SoundList(devices[k])
      BY <2>2, <2>4 DEF DeviceOK
    <3>3. devices[k].nodes \in Seq(Node) /\ devices[k].size = Len(devices[k].nodes)
      BY <3>2 DEF LinkedList, SoundList
    <3>4. Len(devices[k].nodes) \in Nat
      BY <3>3
    <3>5. freeLst(devices[k]) = 1 + 2 * Len(devices[k].nodes)
      BY <3>3, <3>4 DEF freeLst
    <3> QED BY <2>1, <2>2, <2>4, <3>1, <3>4, <3>5 DEF DeviceOK
  <2> QED BY <2>3, <2>4
<1>2. devices' = [k \in Slots |-> NULL] /\ kmem' = [k \in Slots |-> 0]
  BY <1>1 DEF simple_cleanup
<1>3. ListSound' /\ NoLeak'
  BY <1>2 DEF ListSound, NoLeak
<1>4. SlotZeroUnused'
  BY <1>2 DEF SlotZeroUnused, Slots, MAX_DEVICES
<1>5. TypeOK'
  BY <1>2 DEF TypeOK, IInv, simple_cleanup
<1> QED BY <1>3, <1>4, <1>5 DEF IInv

LEMMA NextIInv == ASSUME IInv, [Next]_vars PROVE IInv'
<1>1. CASE simple_init
  BY <1>1, QuietStep DEF simple_init, IInv, TypeOK
<1>2. CASE simple_cleanup
  BY <1>2, CleanupKeeps
<1>3. ASSUME NEW f \in Files, Operation(f) PROVE IInv'
  <2>1. CASE \E minor \in Minors : device_open(f, minor)
    BY <2>1, OpenKeeps
  <2>2. CASE Close(f)
    BY <2>2, CloseKeeps
  <2>3. CASE \E id \in Ids : device_ioctl(f, id)
    BY <2>3, IoctlKeeps
  <2>4. CASE \E m \in Inputs : device_write(f, m) \/ WriteNoCopy(f, m)
    BY <2>4, WritesKeep
  <2>5. CASE \/ \E minor \in Minors : OpenFailed(f, minor)
             \/ IoctlRejected(f)
             \/ \E m \in Inputs, noBuffer \in BOOLEAN : WriteRejected(f, m, noBuffer)
             \/ \E m \in Inputs : WriteNoNode(f, m)
             \/ \E length \in 0..BUF_LEN : device_read(f, length)
             \/ ReadRejected(f) \/ ReadWild(f)
    BY <2>5, CallsKeep
  <2> QED BY <1>3, <2>1, <2>2, <2>3, <2>4, <2>5 DEF Operation
<1>4. CASE UNCHANGED vars
  BY <1>4, QuietStep DEF vars, IInv, TypeOK
<1> QED BY <1>1, <1>2, <1>3, <1>4 DEF Next

LEMMA Invariance == Spec => []IInv
  BY InitIInv, NextIInv, PTL DEF Spec

\* The driver's lists, files and block counts keep their types, and a file that
\* is open never points at a device without a list (message_slot.c:131-234).
THEOREM TypeCorrect == Spec => []TypeOK
  BY Invariance, PTL DEF IInv

\* However opens, writes and failures follow each other, every list getOrCreateNode
\* builds is strictly sorted, counts its nodes right and has its first pointer set.
THEOREM ListsAreSound == Spec => []ListSound
  BY Invariance, PTL DEF IInv

\* No failing kmalloc or copy and no unload leaves a block that devices[] does
\* not reach (createNode, device_write, freeLst and simple_cleanup).
THEOREM NothingLeaks == Spec => []NoLeak
  BY Invariance, PTL DEF IInv
=============================================================================
