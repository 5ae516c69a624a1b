--------------------------- MODULE PageTableProofs ----------------------------
(***************************************************************************)
(* The page table is sound on any target: type correctness, the shape of   *)
(* the trees, the walk that stays on its path, and the abstract            *)
(* specification it implements: every table is a map over the paths of     *)
(* page numbers.                                                           *)
(***************************************************************************)
EXTENDS PageTable, WellFoundedInduction, TLAPS

\* A table's root is the node at the top level of that table.
RootsPlaced == \A t \in roots : place[t - BASE] = Place(t, 0, LEVELS - 1)

IInv == TypeOK /\ TreeSound /\ RootsPlaced /\ OnPath

USE PageTableAssumption
-----------------------------------------------------------------------------
(* Words and addresses.                                                    *)

\* Division and remainder of a multiple of n and a rest.
LEMMA DivMod ==
    ASSUME NEW n \in Nat \ {0}, NEW a \in Int, NEW b \in 0..n - 1
    PROVE  (a * n + b) \div n = a /\ (a * n + b) % n = b
  OBVIOUS

LEMMA WordIsPages ==
    /\ WORD = (WORD \div PAGE) * PAGE
    /\ WORD \div PAGE \in Nat
    /\ BASE + NPAGES <= WORD \div PAGE
    /\ WORD \div PAGE <= WORD
  OBVIOUS

\* An entry with a page number fits a word, is valid and gives the number back.
LEMMA EntryFacts ==
    ASSUME NEW number \in 0..(WORD \div PAGE) - 1
    PROVE  /\ Entry(number) \in Words
           /\ Valid(Entry(number))
           /\ Number(Entry(number)) = number
           /\ Address(Entry(number)) = number * PAGE
<1>1. number * PAGE \in 0..WORD - PAGE
  BY WordIsPages
<1>2. Entry(number) = number * PAGE + 1
  BY <1>1 DEF Entry
<1>3. 1 \in 0..PAGE - 1 /\ PAGE >= 2
  OBVIOUS
<1>4. Number(Entry(number)) = number /\ Entry(number) % PAGE = 1
  BY <1>2, <1>3, DivMod DEF Number
<1>5. Valid(Entry(number))
  <2> DEFINE half == PAGE \div 2
  <2>1. half \in Int /\ PAGE = half * 2
    OBVIOUS
  <2>2. number * PAGE + 1 = (number * half) * 2 + 1
    BY <2>1
  <2>3. number * half \in Int /\ 2 \in Nat \ {0} /\ 1 \in 0..2 - 1
    BY <2>1
  <2>4. ((number * half) * 2 + 1) % 2 = 1
    BY ONLY <2>3, DivMod
  <2> QED BY <1>2, <2>2, <2>4 DEF Valid
<1> QED BY <1>1, <1>2, <1>3, <1>4, <1>5 DEF Words, Address

LEMMA FrameNumbers ==
    ASSUME NEW n \in Frames
    PROVE  n + BASE \in 0..(WORD \div PAGE) - 1
  BY WordIsPages DEF Frames

LEMMA IndexType ==
    ASSUME NEW v \in Nat, NEW l \in 0..LEVELS - 1
    PROVE  get_index(v, l) \in Index
<1>1. PAGE * FANOUT ^ l \in Nat \ {0}
  OBVIOUS
<1> DEFINE d == PAGE * FANOUT ^ l
<1>2. v \div d \in Int
  BY <1>1
<1>3. (v \div d) % FANOUT \in 0..FANOUT - 1
  BY <1>2
<1> QED BY <1>3 DEF get_index, Index

LEMMA ZeroIsInvalid == 0 \in Words /\ ~Valid(0)
  BY DEF Words, Valid

\* The frame of a physical address when k frames are handed out.
FrameOf(a, k) ==
    LET n == ((a \div PAGE) - BASE) % WORD
    IN  IF n < k THEN n ELSE NULL

\* A frame's address leads back to the frame, once it is handed out.
LEMMA FrameOfAddress ==
    ASSUME NEW k \in 0..NPAGES, NEW n \in Frames
    PROVE  FrameOf((n + BASE) * PAGE, k) = IF n < k THEN n ELSE NULL
<1> DEFINE q == ((n + BASE) * PAGE) \div PAGE
<1>1. q = n + BASE
  <2>1. n + BASE \in Int /\ 0 \in 0..PAGE - 1
    BY DEF Frames
  <2>2. ((n + BASE) * PAGE + 0) \div PAGE = n + BASE
    BY <2>1, DivMod
  <2>3. (n + BASE) * PAGE + 0 = (n + BASE) * PAGE
    BY <2>1
  <2> QED BY <2>2, <2>3
<1>2. n \in 0..WORD - 1
  BY WordIsPages DEF Frames
<1>3. FrameOf((n + BASE) * PAGE, k) = IF (q - BASE) % WORD < k THEN (q - BASE) % WORD
                                       ELSE NULL
  BY DEF FrameOf
<1> HIDE DEF q
<1>4. (q - BASE) % WORD = n
  BY <1>1, <1>2
<1> QED BY <1>3, <1>4

\* A frame that can be reached stays where it is when frames are handed out.
LEMMA FrameOfStable ==
    ASSUME NEW k \in Nat, NEW j \in Nat, j >= k, NEW a, FrameOf(a, k) \in 0..k - 1
    PROVE  FrameOf(a, j) = FrameOf(a, k)
<1> DEFINE n == ((a \div PAGE) - BASE) % WORD
<1>1. FrameOf(a, k) = (IF n < k THEN n ELSE NULL) /\ FrameOf(a, j) = (IF n < j THEN n ELSE NULL)
  BY DEF FrameOf
<1> HIDE DEF n
<1>2. n < k /\ FrameOf(a, k) = n
  BY <1>1
<1> QED BY <1>1, <1>2
\* What the rest of the proof needs of the constants.
LEMMA Sizes ==
    /\ LEVELS \in Nat \ {0} /\ NPAGES \in Nat /\ BASE \in Nat /\ Vpns \subseteq Nat
    /\ NULL \notin Nat /\ NO_MAPPING \notin Ppns
  OBVIOUS

HIDE PageTableAssumption
USE Sizes
-----------------------------------------------------------------------------
(* Places.                                                                 *)

LEMMA PlaceType ==
    ASSUME NEW t \in roots, NEW v \in Nat, NEW l \in 0..LEVELS - 1
    PROVE  Place(t, v, l) \in Places
<1>1. [k \in l + 1..LEVELS - 1 |-> get_index(v, k)] \in Path(l)
  BY IndexType DEF Path
<1> QED BY <1>1 DEF Place, Places

LEMMA PlaceFields ==
    ASSUME NEW p \in Places
    PROVE  /\ p.table \in roots /\ p.level \in 0..LEVELS - 1 /\ p.path \in Path(p.level)
           /\ p = [table |-> p.table, level |-> p.level, path |-> p.path]
  BY DEF Places

\* One step down the path of v from v's node is v's node at the next level.
LEMMA BelowPlace ==
    ASSUME NEW t, NEW v \in Nat, NEW l \in 1..LEVELS - 1
    PROVE  Below(Place(t, v, l), get_index(v, l)) = Place(t, v, l - 1)
<1> DEFINE p == Place(t, v, l)
<1>1. p.table = t /\ p.level = l /\ p.path = [k \in l + 1..LEVELS - 1 |-> get_index(v, k)]
  BY DEF Place
<1> HIDE DEF p
<1>2. [k \in p.level..LEVELS - 1 |-> IF k = p.level THEN get_index(v, l) ELSE p.path[k]]
        = [k \in l..LEVELS - 1 |-> get_index(v, k)]
  BY <1>1
<1>3. (l - 1) + 1 = l
  OBVIOUS
<1> QED BY <1>1, <1>2, <1>3 DEF Below, Place, p

\* And only from there.
LEMMA BelowOnlyPlace ==
    ASSUME NEW p \in Places, p.level > 0, NEW i \in Index,
           NEW t, NEW v \in Nat, NEW l \in 0..LEVELS - 1,
           Below(p, i) = Place(t, v, l)
    PROVE  p = Place(t, v, l + 1) /\ i = get_index(v, l + 1)
<1>1. p.table = t /\ p.level - 1 = l
  BY DEF Below, Place
<1>2. p.level = l + 1 /\ l + 1 \in 1..LEVELS - 1
  BY <1>1, PlaceFields
<1>3. \A k \in l + 1..LEVELS - 1 :
        get_index(v, k) = IF k = p.level THEN i ELSE p.path[k]
  BY <1>2 DEF Below, Place
<1>4. i = get_index(v, l + 1)
  BY <1>2, <1>3
<1>5. p.path \in [l + 2..LEVELS - 1 -> Index]
  BY <1>2, PlaceFields DEF Path
<1>6. p.path = [k \in l + 2..LEVELS - 1 |-> get_index(v, k)]
  BY <1>2, <1>3, <1>5
<1> QED BY <1>1, <1>2, <1>4, <1>6, PlaceFields DEF Place
-----------------------------------------------------------------------------
(* The invariant.                                                          *)

LEMMA InitInv == Init => IInv
<1> SUFFICES ASSUME Init PROVE IInv
  OBVIOUS
<1> USE DEF Init
<1>1. Used = {}
  BY DEF Used
<1>2. pages \in [Frames -> [Index -> Words]]
  BY ZeroIsInvalid
<1>3. TypeOK
  BY <1>1, <1>2 DEF TypeOK
<1> QED BY <1>1, <1>3 DEF IInv, TreeSound, PlacesDistinct, ChildrenBelow, ParentsExist,
        UnusedAreZero, RootsPlaced, OnPath

\* What the walk stands on.
LEMMA WalkFacts ==
    ASSUME IInv, pc = "walk"
    PROVE  /\ nalloc \in 0..NPAGES /\ Used \subseteq Frames
           /\ current \in Used /\ pt \in roots /\ vpn \in Nat /\ level \in 0..LEVELS - 1
           /\ place[current] = Place(pt, vpn, level)
           /\ place[current].level = level
           /\ get_index(vpn, level) \in Index
           /\ word \in Words
<1>1. /\ nalloc \in 0..NPAGES /\ current \in Used /\ pt \in roots /\ vpn \in Nat
      /\ level \in 0..LEVELS - 1
  BY DEF IInv, TypeOK
<1>a. Used \subseteq Frames
  BY <1>1 DEF Used, Frames
<1>2. place[current] = Place(pt, vpn, level) /\ place[current].level = level
  BY DEF IInv, OnPath, Place
<1>3. get_index(vpn, level) \in Index
  BY <1>1, IndexType
<1> QED BY <1>1, <1>a, <1>2, <1>3 DEF IInv, TypeOK, word

\* A valid entry leads the walk one level down its path.
LEMMA NextNode ==
    ASSUME IInv, InNode, Valid(word)
    PROVE  LET n == phys_to_virt(Address(word))
           IN  n \in Used /\ place[n] = Place(pt, vpn, level - 1)
<1>1. pc = "walk" /\ level \in 1..LEVELS - 1
  BY WalkFacts DEF InNode
<1>2. phys_to_virt(Address(word)) = Child(current, get_index(vpn, level))
  BY DEF word, Child
<1>3. Valid(pages[current][get_index(vpn, level)])
  BY DEF word
<1>4. /\ Child(current, get_index(vpn, level)) \in Used
      /\ place[Child(current, get_index(vpn, level))]
            = Below(place[current], get_index(vpn, level))
  BY <1>1, <1>3, WalkFacts DEF IInv, TreeSound, ChildrenBelow
<1>5. Below(place[current], get_index(vpn, level)) = Place(pt, vpn, level - 1)
  BY <1>1, WalkFacts, BelowPlace
<1> QED BY <1>2, <1>4, <1>5

LEMMA PlacesSame == ASSUME roots' = roots PROVE Places' = Places
  BY DEF Places, Path, Index

\* The two halves of TypeOK: memory, and the call under way.
MemoryTyped ==
    /\ nalloc \in 0..NPAGES
    /\ pages \in [Frames -> [Index -> Words]]
    /\ roots \subseteq {n + BASE : n \in Used}
    /\ place \in [Frames -> Places \cup {NULL}] /\ \A n \in Used : place[n] \in Places

CallTyped ==
    /\ pc \in {"idle", "walk", "exit"} /\ op \in {"query", "update"}
    /\ level \in 0..LEVELS - 1
    /\ pc = "walk" => /\ current \in Used /\ pt \in roots /\ vpn \in Vpns
                      /\ ppn \in Ppns \cup {NO_MAPPING}
    /\ op = "query" => ppn = NO_MAPPING

LEMMA TwoHalves == TypeOK <=> MemoryTyped /\ CallTyped
  BY DEF TypeOK, MemoryTyped, CallTyped

LEMMA TwoHalvesNext == TypeOK' <=> MemoryTyped' /\ CallTyped'
  BY DEF TypeOK, MemoryTyped, CallTyped

LEMMA MemorySame ==
    ASSUME MemoryTyped, UNCHANGED <<memoryVars, roots>>
    PROVE  MemoryTyped'
  BY PlacesSame DEF memoryVars, MemoryTyped, Used

\* Steps that touch no memory leave the trees alone.
LEMMA TreesSame ==
    ASSUME IInv, UNCHANGED <<memoryVars, roots>>
    PROVE  TreeSound' /\ RootsPlaced'
<1>1. UNCHANGED <<nalloc, pages, place, roots>>
  BY DEF memoryVars
<1>2. TreeSound'
  BY <1>1 DEF IInv, TreeSound, PlacesDistinct, ChildrenBelow, ParentsExist, HangsFrom,
     UnusedAreZero, Child, Below, phys_to_virt, Used
<1>3. RootsPlaced'
  BY <1>1 DEF IInv, RootsPlaced, Place
<1> QED BY <1>2, <1>3

LEMMA CallInv ==
    ASSUME IInv, NEW o \in {"query", "update"}, NEW t \in roots, NEW v \in Vpns,
           NEW p \in Ppns \cup {NO_MAPPING}, o = "query" => p = NO_MAPPING,
           Call(o, t, v, p)
    PROVE  IInv'
<1> USE DEF Call, memoryVars
<1>1. t - BASE \in Used /\ t - BASE \in Frames /\ t = (t - BASE) + BASE /\ v \in Nat
  BY DEF IInv, TypeOK, Used, Frames
<1>2. nalloc \in 0..NPAGES
  BY DEF IInv, TypeOK
<1>3. phys_to_virt(t * PAGE) = t - BASE
  <2>1. FrameOf(((t - BASE) + BASE) * PAGE, nalloc) = t - BASE
    BY <1>1, <1>2, FrameOfAddress DEF Used
  <2> QED BY <1>1, <2>1 DEF FrameOf, phys_to_virt
<1>4. Place(t, v, LEVELS - 1) = Place(t, 0, LEVELS - 1)
  BY DEF Place
<1>5. OnPath'
  BY <1>3, <1>4 DEF IInv, RootsPlaced, OnPath, Place
<1>6. CallTyped'
  BY <1>1, <1>3 DEF CallTyped, Used
<1>7. TypeOK'
  BY <1>6, MemorySame, TwoHalves, TwoHalvesNext DEF IInv
<1> QED BY <1>5, <1>7, TreesSame DEF IInv

LEMMA DescendInv == ASSUME IInv, Descend PROVE IInv'
<1> USE DEF Descend, InNode, memoryVars, callVars
<1>1. /\ current' \in Used /\ place[current'] = Place(pt, vpn, level - 1)
      /\ level - 1 \in 0..LEVELS - 1
  BY NextNode, WalkFacts
<1>2. OnPath'
  BY <1>1 DEF OnPath, Place, get_index
<1>3. TypeOK'
  BY <1>1, PlacesSame DEF IInv, TypeOK, Used, Frames
<1> QED BY <1>2, <1>3, TreesSame DEF IInv

\* The locals are gone, and nothing else.
LEMMA ReturnInv ==
    ASSUME IInv, Return, UNCHANGED <<nalloc, roots, place>>,
           pages' \in [Frames -> [Index -> Words]]
    PROVE  TypeOK' /\ OnPath'
<1>1. MemoryTyped'
  BY PlacesSame, TwoHalves DEF IInv, MemoryTyped, Used
<1>2. CallTyped' /\ OnPath'
  BY DEF Return, CallTyped, OnPath
<1> QED BY <1>1, <1>2, TwoHalvesNext

LEMMA ExitInv == ASSUME IInv, OutOfMemory PROVE IInv'
<1> USE DEF OutOfMemory, memoryVars, callVars
<1>1. TypeOK' /\ OnPath'
  BY PlacesSame DEF IInv, TypeOK, OnPath, Used, Frames
<1> QED BY <1>1, TreesSame DEF IInv

LEMMA LeafWord ==
    ASSUME IInv, pc = "walk"
    PROVE  (IF ppn = NO_MAPPING THEN 0 ELSE Entry(ppn)) \in Words
<1>1. ppn \in Ppns \cup {NO_MAPPING}
  BY DEF IInv, TypeOK
<1>2. CASE ppn = NO_MAPPING
  BY <1>2, ZeroIsInvalid
<1>3. CASE ppn # NO_MAPPING
  <2>1. ppn \in 0..(WORD \div PAGE) - 1
    BY <1>1, <1>3, PageTableAssumption
  <2> QED BY <1>3, <2>1, EntryFacts
<1> QED BY <1>2, <1>3

\* What a write to the entry under the walk leaves alone.
LEMMA StoreFacts ==
    ASSUME IInv, pc = "walk", NEW w \in Words,
           pages' = [pages EXCEPT ![current][get_index(vpn, level)] = w]
    PROVE  /\ pages' \in [Frames -> [Index -> Words]]
           /\ pages'[current][get_index(vpn, level)] = w
           /\ \A n \in Frames, i \in Index :
                 n # current \/ i # get_index(vpn, level) => pages'[n][i] = pages[n][i]
           /\ \A n \in Frames : n # current => pages'[n] = pages[n]
<1>1. current \in Frames /\ get_index(vpn, level) \in Index
  BY WalkFacts
<1>2. pages \in [Frames -> [Index -> Words]]
  BY DEF IInv, TypeOK
<1> HIDE DEF Frames, Index, get_index
<1> QED BY <1>1, <1>2

LEMMA UpdateLeafInv == ASSUME IInv, UpdateLeaf PROVE IInv'
<1> USE DEF UpdateLeaf
<1> DEFINE w == IF ppn = NO_MAPPING THEN 0 ELSE Entry(ppn)
<1>1. pc = "walk" /\ level = 0 /\ w \in Words
  BY LeafWord
<1>2. pages' = [pages EXCEPT ![current][get_index(vpn, level)] = w]
  BY <1>1
<1> HIDE DEF w
<1>3. /\ pages' \in [Frames -> [Index -> Words]]
      /\ \A n \in Frames : n # current => pages'[n] = pages[n]
      /\ current \in Used /\ Used \subseteq Frames /\ place[current].level = 0
  BY <1>1, <1>2, StoreFacts, WalkFacts
<1>4. TypeOK' /\ OnPath'
  BY <1>3, ReturnInv
<1>5. RootsPlaced'
  BY DEF IInv, RootsPlaced, Place
<1>6. UNCHANGED <<nalloc, place>> /\ Used' = Used
  BY DEF Used
<1>7. PlacesDistinct' /\ UnusedAreZero'
  BY <1>3, <1>6 DEF IInv, TreeSound, PlacesDistinct, UnusedAreZero
<1>8. \A n \in Used : place[n].level > 0 => pages'[n] = pages[n]
  BY <1>3
<1>9. \A n \in Used, i \in Index : place[n].level > 0 => Child(n, i)' = Child(n, i)
  BY <1>6, <1>8 DEF Child, phys_to_virt
<1>10. ChildrenBelow'
  BY <1>6, <1>8, <1>9 DEF IInv, TreeSound, ChildrenBelow, Below
<1>11. ParentsExist'
  BY <1>6, <1>8, <1>9 DEF IInv, TreeSound, ParentsExist, HangsFrom
<1> QED BY <1>4, <1>5, <1>7, <1>10, <1>11 DEF IInv, TreeSound

LEMMA QueryEndsInv ==
    ASSUME IInv, Return, UNCHANGED <<memoryVars, roots>>
    PROVE  IInv'
<1>1. TypeOK' /\ OnPath'
  BY ReturnInv DEF memoryVars, IInv, TypeOK
<1> QED BY <1>1, TreesSame DEF IInv

\* The frame that is handed out next was not in use.
LEMMA NextFrame ==
    ASSUME IInv, nalloc < NPAGES, nalloc' = nalloc + 1
    PROVE  /\ Used' = Used \cup {nalloc} /\ nalloc \in Frames \ Used /\ Used \subseteq Frames
           /\ nalloc' \in 0..NPAGES
           /\ \A i \in Index : ~Valid(pages[nalloc][i])
           /\ nalloc + BASE \notin roots
<1>1. nalloc \in 0..NPAGES /\ roots \subseteq {n + BASE : n \in Used}
  BY DEF IInv, TypeOK
<1>2. /\ Used' = Used \cup {nalloc} /\ nalloc \in Frames \ Used /\ Used \subseteq Frames
      /\ nalloc' \in 0..NPAGES
  BY <1>1 DEF Used, Frames
<1>3. \A i \in Index : ~Valid(pages[nalloc][i])
  BY <1>2, ZeroIsInvalid DEF IInv, TreeSound, UnusedAreZero
<1>4. nalloc + BASE \notin roots
  BY <1>1 DEF Used
<1> QED BY <1>2, <1>3, <1>4

\* An entry that leads to a frame in use still does after one is handed out.
LEMMA ChildStable ==
    ASSUME IInv, nalloc' = nalloc + 1, NEW n \in Used, NEW i \in Index,
           pages'[n][i] = pages[n][i], Child(n, i) \in Used
    PROVE  Child(n, i)' = Child(n, i)
<1>1. nalloc \in Nat /\ nalloc' \in Nat /\ nalloc' >= nalloc
  BY DEF IInv, TypeOK
<1> DEFINE a == Address(pages[n][i])
<1>2. Child(n, i) = FrameOf(a, nalloc) /\ Child(n, i)' = FrameOf(a, nalloc')
  BY DEF Child, phys_to_virt, FrameOf, Address
<1> HIDE DEF a
<1>3. FrameOf(a, nalloc) \in 0..nalloc - 1
  BY <1>2 DEF Used
<1> QED BY <1>1, <1>2, <1>3, FrameOfStable

\* Where the path of vpn ends there is no node below.
LEMMA NoNodeBelow ==
    ASSUME IInv, InNode, ~Valid(word), NEW n \in Used
    PROVE  place[n] # Place(pt, vpn, level - 1)
<1> SUFFICES ASSUME place[n] = Place(pt, vpn, level - 1) PROVE FALSE
  OBVIOUS
<1>1. pc = "walk" /\ level \in 1..LEVELS - 1 /\ level - 1 \in 0..LEVELS - 1
  BY WalkFacts DEF InNode
<1>2. place[n].level < LEVELS - 1
  BY <1>1 DEF Place
<1>3. PICK m \in Used, i \in Index : HangsFrom(n, m, i)
  BY <1>2 DEF IInv, TreeSound, ParentsExist
<1>4. place[m] \in Places /\ place[m].level > 0 /\ Below(place[m], i) = place[n]
  BY <1>3 DEF IInv, TypeOK, TreeSound, ChildrenBelow, HangsFrom
<1>5. place[m] = Place(pt, vpn, (level - 1) + 1) /\ i = get_index(vpn, (level - 1) + 1)
  BY <1>1, <1>4, WalkFacts, BelowOnlyPlace
<1>6. (level - 1) + 1 = level
  BY <1>1
<1>7. m = current
  BY <1>1, <1>5, <1>6, WalkFacts DEF IInv, TreeSound, PlacesDistinct
<1> QED BY <1>3, <1>5, <1>6, <1>7 DEF HangsFrom, word

LEMMA GrowInv == ASSUME IInv, Grow PROVE IInv'
<1> USE DEF Grow, InNode
<1>0. PICK N, c, i0, E : /\ N = nalloc /\ c = current /\ i0 = get_index(vpn, level)
                          /\ E = Entry(alloc_page_frame)
  OBVIOUS
<1>1. /\ pc = "walk" /\ level \in 1..LEVELS - 1 /\ level - 1 \in 0..LEVELS - 1
      /\ c \in Used /\ i0 \in Index /\ place[c] = Place(pt, vpn, level)
      /\ pt \in roots /\ vpn \in Nat /\ place[c].level = level
  BY <1>0, WalkFacts
<1>2. /\ Used' = Used \cup {N} /\ N \in Frames \ Used /\ Used \subseteq Frames
      /\ nalloc' \in 0..NPAGES /\ \A i \in Index : ~Valid(pages[N][i])
  BY <1>0, NextFrame
<1>3. /\ E \in Words /\ Valid(E) /\ Address(E) = (N + BASE) * PAGE
  BY <1>0, <1>2, FrameNumbers, EntryFacts DEF alloc_page_frame
<1>4. /\ pages' \in [Frames -> [Index -> Words]]
      /\ pages'[c][i0] = E
      /\ \A n \in Frames, i \in Index : n # c \/ i # i0 => pages'[n][i] = pages[n][i]
      /\ \A n \in Frames : n # c => pages'[n] = pages[n]
  <2>1. pages' = [pages EXCEPT ![current][get_index(vpn, level)] = E]
    BY <1>0
  <2> QED BY <1>0, <1>1, <1>3, <2>1, StoreFacts
<1>5. Child(c, i0)' = N
  <2>1. Child(c, i0)' = FrameOf(Address(pages'[c][i0]), nalloc')
    BY DEF Child, phys_to_virt, FrameOf, Address
  <2>2. Child(c, i0)' = FrameOf((N + BASE) * PAGE, nalloc')
    BY <1>3, <1>4, <2>1
  <2> QED BY <1>0, <1>2, <2>2, FrameOfAddress DEF IInv, TypeOK
<1>6. /\ place' \in [Frames -> Places \cup {NULL}]
      /\ place'[N] = Place(pt, vpn, level - 1) /\ place'[N] \in Places
      /\ \A n \in Used : place'[n] = place[n]
      /\ place'[N].level = level - 1
  <2>1. Place(pt, vpn, level - 1) \in Places /\ Place(pt, vpn, level - 1).level = level - 1
    BY <1>1, PlaceType DEF Place
  <2>2. place \in [Frames -> Places \cup {NULL}]
    BY DEF IInv, TypeOK
  <2> QED BY <1>0, <1>2, <2>1, <2>2
<1>7. TypeOK'
  <2>1. MemoryTyped'
    BY <1>2, <1>4, <1>6, PlacesSame DEF IInv, TypeOK, MemoryTyped
  <2>2. CallTyped'
    BY <1>2 DEF IInv, TypeOK, CallTyped, callVars
  <2> QED BY <2>1, <2>2, TwoHalvesNext
<1>8. OnPath' /\ RootsPlaced'
  <2>1. OnPath'
    BY <1>0, <1>1, <1>6 DEF OnPath, callVars, Place, get_index
  <2>2. \A t \in roots : t - BASE \in Used
    BY DEF IInv, TypeOK, Used
  <2> QED BY <1>6, <2>1, <2>2 DEF IInv, RootsPlaced, Place
<1>9. PlacesDistinct'
  BY <1>2, <1>6, NoNodeBelow DEF IInv, TreeSound, PlacesDistinct
<1>10. UnusedAreZero'
  BY <1>1, <1>2, <1>4 DEF IInv, TreeSound, UnusedAreZero
<1>11. \A n \in Used, i \in Index : place[n].level > 0 /\ Valid(pages[n][i]) =>
          /\ (n # c \/ i # i0) /\ Child(n, i) \in Used
          /\ pages'[n][i] = pages[n][i] /\ Child(n, i)' = Child(n, i)
  <2> SUFFICES ASSUME NEW n \in Used, NEW i \in Index, place[n].level > 0, Valid(pages[n][i])
               PROVE  /\ (n # c \/ i # i0) /\ Child(n, i) \in Used
                      /\ pages'[n][i] = pages[n][i] /\ Child(n, i)' = Child(n, i)
    OBVIOUS
  <2>1. n # c \/ i # i0
    BY <1>0 DEF word
  <2>2. pages'[n][i] = pages[n][i]
    BY <1>2, <1>4, <2>1
  <2>3. Child(n, i) \in Used
    BY DEF IInv, TreeSound, ChildrenBelow
  <2> QED BY <2>1, <2>2, <2>3, ChildStable
<1>12. ChildrenBelow'
  <2> SUFFICES ASSUME NEW n \in Used', place'[n].level > 0, NEW i \in Index,
                      Valid(pages'[n][i])
               PROVE  Child(n, i)' \in Used' /\ place'[Child(n, i)'] = Below(place'[n], i)
    BY DEF ChildrenBelow, Below, Valid, Index, Child, phys_to_virt, Address
  <2>1. n # N
    BY <1>1, <1>2, <1>4
  <2>2. n \in Used /\ place'[n] = place[n]
    BY <1>2, <1>6, <2>1
  <2>3. CASE n = c /\ i = i0
    BY <1>1, <1>2, <1>5, <1>6, <2>2, <2>3, <1>0, BelowPlace
  <2>4. CASE n # c \/ i # i0
    <3>1. Valid(pages[n][i]) /\ place[n].level > 0
      BY <1>2, <1>4, <2>2, <2>4
    <3>2. Child(n, i)' = Child(n, i)
      BY <1>11, <2>2, <3>1
    <3>3. Child(n, i) \in Used /\ place[Child(n, i)] = Below(place[n], i)
      BY <2>2, <3>1 DEF IInv, TreeSound, ChildrenBelow
    <3> QED BY <1>2, <1>6, <2>2, <3>2, <3>3
  <2> QED BY <2>3, <2>4
<1>13. ParentsExist'
  <2> SUFFICES ASSUME NEW n \in Used', place'[n].level < LEVELS - 1
               PROVE  \E m \in Used', i \in Index : HangsFrom(n, m, i)'
    BY DEF ParentsExist, Index
  <2>1. CASE n = N
    <3>1. HangsFrom(N, c, i0)'
      BY <1>1, <1>3, <1>4, <1>5, <1>6 DEF HangsFrom, Valid
    <3> QED BY <1>1, <1>2, <2>1, <3>1
  <2>2. CASE n # N
    <3>1. n \in Used /\ place[n].level < LEVELS - 1
      BY <1>2, <1>6, <2>2
    <3>2. PICK m \in Used, i \in Index : HangsFrom(n, m, i)
      BY <3>1 DEF IInv, TreeSound, ParentsExist
    <3>3. HangsFrom(n, m, i)'
      BY <1>6, <1>11, <3>2 DEF HangsFrom, Valid
    <3> QED BY <1>2, <3>3
  <2> QED BY <2>1, <2>2
<1> QED BY <1>7, <1>8, <1>9, <1>10, <1>12, <1>13 DEF IInv, TreeSound

LEMMA NewTableInv == ASSUME IInv, NewTable PROVE IInv'
<1> USE DEF NewTable
<1>0. PICK N, r : N = nalloc /\ r = alloc_page_frame
  OBVIOUS
<1>1. /\ Used' = Used \cup {N} /\ N \in Frames \ Used /\ Used \subseteq Frames
      /\ nalloc' \in 0..NPAGES /\ r \notin roots /\ r = N + BASE
      /\ \A i \in Index : ~Valid(pages[N][i])
  BY <1>0, NextFrame DEF alloc_page_frame
<1>2. Places \subseteq Places'
  BY DEF Places, Path, Index
<1>3. /\ Place(r, 0, LEVELS - 1) = [table |-> r, level |-> LEVELS - 1, path |-> <<>>]
      /\ Place(r, 0, LEVELS - 1) \in Places'
  <2>1. [k \in (LEVELS - 1) + 1..LEVELS - 1 |-> get_index(0, k)] = <<>>
    OBVIOUS
  <2>2. <<>> \in [(LEVELS - 1) + 1..LEVELS - 1 -> Index]
    OBVIOUS
  <2>3. r \in roots' /\ LEVELS - 1 \in 0..LEVELS - 1
    BY <1>0
  <2> QED BY <2>1, <2>2, <2>3 DEF Place, Places, Path, Index
<1>4. /\ place' \in [Frames -> Places' \cup {NULL}]
      /\ place'[N] = Place(r, 0, LEVELS - 1)
      /\ \A n \in Used : place'[n] = place[n]
      /\ place'[N].level = LEVELS - 1 /\ place'[N].table = r
  <2>1. place \in [Frames -> Places \cup {NULL}]
    BY DEF IInv, TypeOK
  <2> QED BY <1>0, <1>1, <1>2, <1>3, <2>1
<1>5. TypeOK'
  <2>1. \A n \in Used' : place'[n] \in Places'
    BY <1>1, <1>2, <1>3, <1>4 DEF IInv, TypeOK
  <2>2. roots' \subseteq {n + BASE : n \in Used'}
    BY <1>0, <1>1 DEF IInv, TypeOK
  <2>3. MemoryTyped'
    BY <1>1, <1>4, <2>1, <2>2 DEF IInv, TypeOK, MemoryTyped
  <2>4. CallTyped'
    BY DEF IInv, TypeOK, CallTyped, callVars
  <2> QED BY <2>3, <2>4, TwoHalvesNext
<1>6. OnPath'
  BY DEF OnPath
<1>7. RootsPlaced'
  <2>1. \A t \in roots : t - BASE \in Used
    BY DEF IInv, TypeOK, Used
  <2>2. r - BASE = N
    BY <1>0, <1>1 DEF Frames
  <2>3. \A t \in roots : place'[t - BASE] = Place(t, 0, LEVELS - 1)
    BY <1>4, <2>1 DEF IInv, RootsPlaced
  <2>4. \A t \in roots' : place'[t - BASE] = Place(t, 0, LEVELS - 1)
    BY <1>0, <1>4, <2>2, <2>3
  <2> QED BY <2>4 DEF RootsPlaced, Place, get_index
<1>8. PlacesDistinct'
  <2>1. \A n \in Used : place[n].table \in roots
    BY PlaceFields DEF IInv, TypeOK
  <2>2. \A n \in Used : place[n] # place'[N]
    BY <1>1, <1>4, <2>1
  <2> QED BY <1>1, <1>4, <2>2 DEF IInv, TreeSound, PlacesDistinct
<1>9. UnusedAreZero'
  BY <1>1 DEF IInv, TreeSound, UnusedAreZero
<1>10. \A n \in Used, i \in Index : place[n].level > 0 /\ Valid(pages[n][i]) =>
          Child(n, i) \in Used /\ Child(n, i)' = Child(n, i)
  <2> SUFFICES ASSUME NEW n \in Used, NEW i \in Index, place[n].level > 0, Valid(pages[n][i])
               PROVE  Child(n, i) \in Used /\ Child(n, i)' = Child(n, i)
    OBVIOUS
  <2>1. Child(n, i) \in Used
    BY DEF IInv, TreeSound, ChildrenBelow
  <2> QED BY <2>1, ChildStable
<1>11. ChildrenBelow'
  <2> SUFFICES ASSUME NEW n \in Used', place'[n].level > 0, NEW i \in Index,
                      Valid(pages'[n][i])
               PROVE  Child(n, i)' \in Used' /\ place'[Child(n, i)'] = Below(place'[n], i)
    BY DEF ChildrenBelow, Below, Valid, Index, Child, phys_to_virt, Address
  <2>1. n \in Used /\ place'[n] = place[n] /\ pages' = pages
    BY <1>1, <1>4
  <2>2. /\ Child(n, i) \in Used /\ place[Child(n, i)] = Below(place[n], i)
        /\ Child(n, i)' = Child(n, i)
    BY <1>10, <2>1 DEF IInv, TreeSound, ChildrenBelow
  <2> QED BY <1>1, <1>4, <2>1, <2>2
<1>12. ParentsExist'
  <2> SUFFICES ASSUME NEW n \in Used', place'[n].level < LEVELS - 1
               PROVE  \E m \in Used', i \in Index : HangsFrom(n, m, i)'
    BY DEF ParentsExist, Index
  <2>1. n \in Used /\ place[n].level < LEVELS - 1
    BY <1>1, <1>4
  <2>2. PICK m \in Used, i \in Index : HangsFrom(n, m, i)
    BY <2>1 DEF IInv, TreeSound, ParentsExist
  <2>3. HangsFrom(n, m, i)'
    BY <1>4, <1>10, <2>2 DEF HangsFrom, Valid
  <2> QED BY <1>1, <2>3
<1> QED BY <1>5, <1>6, <1>7, <1>8, <1>9, <1>11, <1>12 DEF IInv, TreeSound

LEMMA StepInv == IInv /\ [Next]_vars => IInv'
<1> SUFFICES ASSUME IInv, [Next]_vars PROVE IInv'
  OBVIOUS
<1>1. CASE NewTable
  BY <1>1, NewTableInv
<1>2. ASSUME NEW t \in roots, NEW v \in Vpns, page_table_query(t, v) PROVE IInv'
  BY <1>2, CallInv DEF page_table_query
<1>3. ASSUME NEW t \in roots, NEW v \in Vpns, NEW p \in Ppns \cup {NO_MAPPING},
             page_table_update(t, v, p)
      PROVE  IInv'
  BY <1>3, CallInv DEF page_table_update
<1>4. CASE Descend
  BY <1>4, DescendInv
<1>5. CASE Grow
  BY <1>5, GrowInv
<1>6. CASE PathEnds
  BY <1>6, QueryEndsInv DEF PathEnds
<1>7. CASE OutOfMemory
  BY <1>7, ExitInv
<1>8. CASE UpdateLeaf
  BY <1>8, UpdateLeafInv
<1>9. CASE QueryLeaf
  BY <1>9, QueryEndsInv DEF QueryLeaf
<1>10. CASE UNCHANGED vars
  <2>1. TypeOK' /\ OnPath'
    BY <1>10, MemorySame, TwoHalves, TwoHalvesNext
       DEF vars, callVars, memoryVars, IInv, OnPath, CallTyped, Used, Place
  <2> QED BY <1>10, <2>1, TreesSame DEF vars, IInv
<1> QED BY <1>1, <1>2, <1>3, <1>4, <1>5, <1>6, <1>7, <1>8, <1>9, <1>10 DEF Next

LEMMA Invariance == Spec => []IInv
  BY InitInv, StepInv, PTL DEF Spec

\* Every frame number, entry and walk keeps its type whatever calls are made:
\* pt.c never dereferences the NULL of phys_to_virt and never reads or writes a
\* frame that alloc_page_frame has not handed out.
THEOREM TypeCorrect == Spec => []TypeOK
<1>1. IInv => TypeOK
  BY DEF IInv
<1> QED BY Invariance, <1>1, PTL

\* The nodes that page_table_update makes form disjoint trees: every valid
\* entry above the last level leads to the one node of the place below it, and
\* no node is ever lost or shared.
THEOREM TreesAreSound == Spec => []TreeSound
<1>1. IInv => TreeSound
  BY DEF IInv
<1> QED BY Invariance, <1>1, PTL

\* The loops of page_table_update and page_table_query are always in the node
\* of their own table, level and path.
THEOREM WalkOnPath == Spec => []OnPath
<1>1. IInv => OnPath
  BY DEF IInv
<1> QED BY Invariance, <1>1, PTL
-----------------------------------------------------------------------------
(* Minima.                                                                 *)

\* A non-empty set of natural numbers has a least element.
LEMMA LeastNatural ==
    ASSUME NEW T, T \subseteq Nat, T # {}
    PROVE  \E x \in T : \A y \in T : x <= y
<1> DEFINE R == {ss \in Nat \X Nat : ss[1] < ss[2]}
<1>1. \A x, y \in Nat : x < y => <<x, y>> \in R
  OBVIOUS
<1>2. IsWellFoundedOn(R, Nat)
  BY NatLessThanWellFounded DEF OpToRel
<1> HIDE DEF R
<1>3. \E x \in T : \A y \in T : ~(<<y, x>> \in R)
  BY <1>2, WFMin
<1>4. PICK x \in T : \A y \in T : ~(<<y, x>> \in R)
  BY <1>3
<1>5. \A y \in T : ~(y < x)
  BY <1>1, <1>4
<1>6. \A y \in T : x <= y
  BY <1>5
<1> QED BY <1>6
-----------------------------------------------------------------------------
(* The mapping.                                                            *)

\* Mapping in a memory given by its frames in use, their places and words.
MappingIn(used, plc, pgs, t, v) ==
    LET leaf == {n \in used : plc[n] = Place(t, v, 0)}
    IN  IF \E n \in leaf : Valid(pgs[n][get_index(v, 0)])
        THEN Number(pgs[CHOOSE n \in leaf : TRUE][get_index(v, 0)])
        ELSE NO_MAPPING

LEMMA MappingNow ==
    ASSUME NEW t, NEW v
    PROVE  /\ Mapping(t, v) = MappingIn(Used, place, pages, t, v)
           /\ Mapping(t, v)' = MappingIn(Used', place', pages', t, v)
  BY DEF Mapping, MappingIn, Leaf, Place, Number, Valid, get_index

\* The one leaf of the path decides.
LEMMA MappingAtLeaf ==
    ASSUME NEW used, NEW plc, NEW pgs, NEW t, NEW v, NEW n \in used,
           plc[n] = Place(t, v, 0),
           \A m, k \in used : plc[m] = plc[k] => m = k
    PROVE  MappingIn(used, plc, pgs, t, v) =
               IF Valid(pgs[n][get_index(v, 0)]) THEN Number(pgs[n][get_index(v, 0)])
               ELSE NO_MAPPING
<1> DEFINE leaf == {k \in used : plc[k] = Place(t, v, 0)}
<1>1. leaf = {n}
  OBVIOUS
<1>2. (CHOOSE k \in leaf : TRUE) = n
  BY <1>1
<1> QED BY <1>1, <1>2 DEF MappingIn

\* A path without a leaf maps nothing.
LEMMA MappingNoLeaf ==
    ASSUME NEW used, NEW plc, NEW pgs, NEW t, NEW v, \A n \in used : plc[n] # Place(t, v, 0)
    PROVE  MappingIn(used, plc, pgs, t, v) = NO_MAPPING
  BY DEF MappingIn

\* What the path of v holds when its walk stops above the last level.
LEMMA PathEndsEmpty ==
    ASSUME IInv, InNode, ~Valid(word)
    PROVE  Mapping(pt, vpn) = NO_MAPPING
<1> DEFINE T == {d \in 1..level : \E n \in Used : place[n] = Place(pt, vpn, level - d)}
<1>1. pc = "walk" /\ level \in 1..LEVELS - 1
  BY WalkFacts DEF InNode
<1>2. T = {}
  <2> SUFFICES ASSUME T # {} PROVE FALSE
    OBVIOUS
  <2>1. T \subseteq Nat
    BY <1>1
  <2>2. PICK d \in T : \A e \in T : d <= e
    BY <2>1, LeastNatural
  <2>3. d \in 1..level /\ level - d \in 0..LEVELS - 1 /\ level - d < LEVELS - 1
    BY <1>1
  <2>4. PICK n \in Used : place[n] = Place(pt, vpn, level - d)
    OBVIOUS
  <2>5. d # 1
    BY <2>4, NoNodeBelow
  <2>6. place[n].level < LEVELS - 1
    BY <2>3, <2>4 DEF Place
  <2>7. PICK m \in Used, i \in Index : HangsFrom(n, m, i)
    BY <2>6 DEF IInv, TreeSound, ParentsExist
  <2>8. place[m] \in Places /\ place[m].level > 0 /\ Below(place[m], i) = place[n]
    BY <2>7 DEF IInv, TypeOK, TreeSound, ChildrenBelow, HangsFrom
  <2>9. place[m] = Place(pt, vpn, (level - d) + 1)
    <3>1. vpn \in Nat
      BY <1>1, WalkFacts
    <3>2. ASSUME NEW l \in 0..LEVELS - 1, Below(place[m], i) = Place(pt, vpn, l)
          PROVE  place[m] = Place(pt, vpn, l + 1)
      BY <2>7, <2>8, <3>1, <3>2, BelowOnlyPlace
    <3> QED BY <2>3, <2>4, <2>8, <3>2
  <2>10. (level - d) + 1 = level - (d - 1) /\ d - 1 \in 1..level
    BY <1>1, <2>3, <2>5
  <2>11. d - 1 \in T
    BY <2>9, <2>10
  <2> QED BY <2>2, <2>3, <2>11
<1>3. \A n \in Used : place[n] # Place(pt, vpn, 0)
  <2>1. level \in 1..level /\ level - level = 0
    BY <1>1
  <2> QED BY <1>2, <2>1
<1> QED BY <1>3, MappingNoLeaf, MappingNow

\* A new frame without a valid entry maps nothing.
LEMMA MappingGrows ==
    ASSUME IInv, PlacesDistinct', NEW N, N \notin Used, Used' = Used \cup {N},
           \A n \in Used : place'[n] = place[n],
           \A n \in Used : place[n].level = 0 => pages'[n] = pages[n],
           \A i \in Index : ~Valid(pages'[N][i]),
           NEW t, NEW v \in Vpns
    PROVE  Mapping(t, v)' = Mapping(t, v)
<1>1. get_index(v, 0) \in Index
  <2>1. 0 \in 0..LEVELS - 1 /\ v \in Nat
    BY Sizes
  <2> QED BY <2>1, IndexType
<1>2. \A m, k \in Used : place[m] = place[k] => m = k
  BY DEF IInv, TreeSound, PlacesDistinct
<1>3. \A m, k \in Used' : place'[m] = place'[k] => m = k
  BY DEF PlacesDistinct
<1>4. CASE \E n \in Used : place[n] = Place(t, v, 0)
  <2>1. PICK n \in Used : place[n] = Place(t, v, 0)
    BY <1>4
  <2>2. pages'[n] = pages[n] /\ place'[n] = Place(t, v, 0) /\ n \in Used'
    BY <2>1 DEF Place
  <2>3. MappingIn(Used, place, pages, t, v) = MappingIn(Used', place', pages', t, v)
    <3> DEFINE at(pgs) == IF Valid(pgs[n][get_index(v, 0)])
                          THEN Number(pgs[n][get_index(v, 0)]) ELSE NO_MAPPING
    <3>1. MappingIn(Used, place, pages, t, v) = at(pages)
      BY <1>2, <2>1, MappingAtLeaf
    <3>2. MappingIn(Used', place', pages', t, v) = at(pages')
      BY <1>3, <2>2, MappingAtLeaf
    <3> QED BY <2>2, <3>1, <3>2
  <2> QED BY <2>3, MappingNow
<1>5. CASE \A n \in Used : place[n] # Place(t, v, 0)
  <2>1. Mapping(t, v) = NO_MAPPING
    BY <1>5, MappingNoLeaf, MappingNow
  <2>2. CASE place'[N] = Place(t, v, 0)
    <3>1. MappingIn(Used', place', pages', t, v) = NO_MAPPING
      BY <1>1, <1>3, <2>2, MappingAtLeaf
    <3> QED BY <2>1, <3>1, MappingNow
  <2>3. CASE place'[N] # Place(t, v, 0)
    <3>1. \A n \in Used' : place'[n] # Place(t, v, 0)
      BY <1>5, <2>3
    <3> QED BY <2>1, <3>1, MappingNoLeaf, MappingNow
  <2> QED BY <2>2, <2>3
<1> QED BY <1>4, <1>5

\* A write to the last level changes the pages of its own path in its own
\* table and no other.
LEMMA MappingUpdated ==
    ASSUME IInv, UpdateLeaf, NEW t, NEW w \in Vpns
    PROVE  Mapping(t, w)' = IF t = pt /\ SamePath(vpn, w) THEN ppn ELSE Mapping(t, w)
<1> USE DEF UpdateLeaf
<1>0. 0 \in 0..LEVELS - 1 /\ w \in Nat
  BY Sizes
<1>1. /\ current \in Used /\ Used \subseteq Frames /\ vpn \in Nat
      /\ place[current] = Place(pt, vpn, 0) /\ get_index(vpn, 0) \in Index
      /\ get_index(w, 0) \in Index
  BY <1>0, WalkFacts, IndexType
<1> DEFINE e == IF ppn = NO_MAPPING THEN 0 ELSE Entry(ppn)
<1>2. /\ pages'[current][get_index(vpn, 0)] = e
      /\ \A n \in Frames, i \in Index :
            n # current \/ i # get_index(vpn, 0) => pages'[n][i] = pages[n][i]
  <2>1. e \in Words /\ pages' = [pages EXCEPT ![current][get_index(vpn, level)] = e]
    BY LeafWord
  <2> HIDE DEF e
  <2> QED BY <2>1, StoreFacts
<1>3. IF Valid(e) THEN ppn = Number(e) ELSE ppn = NO_MAPPING
  <2>1. CASE ppn = NO_MAPPING
    BY <2>1, ZeroIsInvalid
  <2>2. CASE ppn # NO_MAPPING
    <3>1. ppn \in 0..(WORD \div PAGE) - 1
      BY <2>2, PageTableAssumption DEF IInv, TypeOK
    <3> QED BY <2>2, <3>1, EntryFacts
  <2> QED BY <2>1, <2>2
<1> HIDE DEF e
<1>4. /\ Used' = Used /\ place' = place
      /\ \A m, k \in Used : place[m] = place[k] => m = k
  BY DEF Used, IInv, TreeSound, PlacesDistinct
<1>5. CASE place[current] = Place(t, w, 0)
  <2>1. /\ t = pt
        /\ \A l \in 1..LEVELS - 1 : get_index(vpn, l) = get_index(w, l)
    <3>1. /\ pt = t
          /\ [k \in 0 + 1..LEVELS - 1 |-> get_index(vpn, k)]
                = [k \in 0 + 1..LEVELS - 1 |-> get_index(w, k)]
      BY <1>1, <1>5 DEF Place
    <3> QED BY <3>1
  <2>2. SamePath(vpn, w) <=> get_index(vpn, 0) = get_index(w, 0)
    BY <1>0, <2>1 DEF SamePath
  <2> DEFINE at(pgs) == IF Valid(pgs[current][get_index(w, 0)])
                        THEN Number(pgs[current][get_index(w, 0)]) ELSE NO_MAPPING
  <2>3. Mapping(t, w) = at(pages) /\ Mapping(t, w)' = at(pages')
    <3>1. \A pgs : MappingIn(Used, place, pgs, t, w) = at(pgs)
      BY <1>1, <1>4, <1>5, MappingAtLeaf
    <3> HIDE DEF at
    <3> QED BY <1>4, <3>1, MappingNow
  <2>4. CASE get_index(vpn, 0) = get_index(w, 0)
    BY <1>2, <1>3, <2>1, <2>2, <2>3, <2>4
  <2>5. CASE get_index(vpn, 0) # get_index(w, 0)
    <3>1. pages'[current][get_index(w, 0)] = pages[current][get_index(w, 0)]
      BY <1>1, <1>2, <2>5
    <3> QED BY <2>2, <2>3, <2>5, <3>1
  <2> QED BY <2>4, <2>5
<1>6. CASE place[current] # Place(t, w, 0)
  <2>1. ~(t = pt /\ SamePath(vpn, w))
    <3> SUFFICES ASSUME t = pt, SamePath(vpn, w) PROVE place[current] = Place(t, w, 0)
      BY <1>6
    <3>1. [k \in 0 + 1..LEVELS - 1 |-> get_index(vpn, k)]
            = [k \in 0 + 1..LEVELS - 1 |-> get_index(w, k)]
      BY DEF SamePath
    <3> QED BY <1>1, <3>1 DEF Place
  <2>2. Mapping(t, w)' = Mapping(t, w)
    <3>1. CASE \E n \in Used : place[n] = Place(t, w, 0)
      <4>1. PICK n \in Used : place[n] = Place(t, w, 0)
        BY <3>1
      <4>2. n # current /\ n \in Frames
        BY <1>1, <1>6, <4>1
      <4>3. pages'[n][get_index(w, 0)] = pages[n][get_index(w, 0)]
        BY <1>1, <1>2, <4>2
      <4> DEFINE at(pgs) == IF Valid(pgs[n][get_index(w, 0)])
                            THEN Number(pgs[n][get_index(w, 0)]) ELSE NO_MAPPING
      <4>4. Mapping(t, w) = at(pages) /\ Mapping(t, w)' = at(pages')
        <5>1. \A pgs : MappingIn(Used, place, pgs, t, w) = at(pgs)
          BY <1>4, <4>1, MappingAtLeaf
        <5> HIDE DEF at
        <5> QED BY <1>4, <5>1, MappingNow
      <4> QED BY <4>3, <4>4
    <3>2. CASE \A n \in Used : place[n] # Place(t, w, 0)
      BY <1>4, <3>2, MappingNoLeaf, MappingNow
    <3> QED BY <3>1, <3>2
  <2> QED BY <2>1, <2>2
<1> QED BY <1>5, <1>6

\* What a walk reads at the last level is what the map holds.
LEMMA MappingRead ==
    ASSUME IInv, pc = "walk", level = 0
    PROVE  Mapping(pt, vpn) = IF Valid(word) THEN Number(word) ELSE NO_MAPPING
<1>1. current \in Used /\ place[current] = Place(pt, vpn, 0)
  BY WalkFacts
<1>2. \A m, k \in Used : place[m] = place[k] => m = k
  BY DEF IInv, TreeSound, PlacesDistinct
<1> QED BY <1>1, <1>2, MappingAtLeaf, MappingNow DEF word
-----------------------------------------------------------------------------
(* The refinement.                                                         *)

LEMMA MapIs ==
    /\ map = [t \in Tables |-> [v \in Vpns |-> Mapping(t, v)]]
    /\ map' = [t \in Tables |-> [v \in Vpns |-> Mapping(t, v)']]
  BY DEF map, Tables, Frames

LEMMA MapSame ==
    ASSUME \A t \in Tables, v \in Vpns : Mapping(t, v)' = Mapping(t, v)
    PROVE  map' = map
  BY MapIs

LEMMA MemorySameMap == ASSUME UNCHANGED memoryVars PROVE map' = map
<1>1. UNCHANGED <<nalloc, place, pages>> /\ Used' = Used
  BY DEF memoryVars, Used
<1>2. \A t, v : Mapping(t, v)' = Mapping(t, v)
  BY <1>1, MappingNow
<1> QED BY <1>2, MapSame

LEMMA InitRefines == Init => ByPath!Init
<1> SUFFICES ASSUME Init PROVE ByPath!Init
  OBVIOUS
<1>1. Used = {}
  BY DEF Init, Used
<1>2. \A t, v : Mapping(t, v) = NO_MAPPING
  BY <1>1, MappingNoLeaf, MappingNow
<1> QED BY <1>2, MapIs DEF Init, ByPath!Init

LEMMA NewTableRefines == ASSUME IInv, IInv', NewTable PROVE ByPath!Next
<1> DEFINE t == alloc_page_frame
<1>1. /\ Used' = Used \cup {nalloc} /\ nalloc \in Frames \ Used
      /\ \A i \in Index : ~Valid(pages[nalloc][i])
  BY NextFrame DEF NewTable
<1>2. t \in Tables /\ t \notin roots /\ roots' = roots \cup {t} /\ result' = result
  BY <1>1, NextFrame DEF NewTable, alloc_page_frame, Tables
<1>3. \A n \in Used : place'[n] = place[n]
  BY <1>1 DEF NewTable, IInv, TypeOK
<1>4. \A u \in Tables, v \in Vpns : Mapping(u, v)' = Mapping(u, v)
  BY <1>1, <1>3, MappingGrows DEF NewTable, IInv, TreeSound
<1>5. ByPath!New(t)
  BY <1>2, <1>4, MapSame DEF ByPath!New
<1> QED BY <1>2, <1>5 DEF ByPath!Next

LEMMA GrowRefines == ASSUME IInv, IInv', Grow PROVE UNCHANGED <<roots, map, result>>
<1>1. /\ Used' = Used \cup {nalloc} /\ nalloc \in Frames \ Used /\ Used \subseteq Frames
      /\ \A i \in Index : ~Valid(pages[nalloc][i])
  BY NextFrame DEF Grow
<1>2. \A n \in Used : place'[n] = place[n]
  BY <1>1 DEF Grow, IInv, TypeOK
<1>3. current \in Used /\ place[current].level > 0
  BY WalkFacts DEF Grow, InNode
<1>4. \A n \in Frames : n # current => pages'[n] = pages[n]
  BY DEF Grow, IInv, TypeOK
<1>5. \A n \in Used : place[n].level = 0 => pages'[n] = pages[n]
  BY <1>1, <1>3, <1>4
<1>6. \A i \in Index : ~Valid(pages'[nalloc][i])
  BY <1>1, <1>3, <1>4
<1>7. \A t \in Tables, v \in Vpns : Mapping(t, v)' = Mapping(t, v)
  BY <1>1, <1>2, <1>5, <1>6, MappingGrows DEF IInv, TreeSound
<1> QED BY <1>7, MapSame DEF Grow

\* pt is one of the tables.
LEMMA TableOfCall ==
    ASSUME IInv, pc = "walk"
    PROVE  pt \in Tables /\ pt \in roots /\ vpn \in Vpns /\ ppn \in Ppns \cup {NO_MAPPING}
<1>1. Used \subseteq Frames
  BY WalkFacts
<1> QED BY <1>1 DEF IInv, TypeOK, Tables

LEMMA QueryRefines ==
    ASSUME IInv, pc = "walk", UNCHANGED <<memoryVars, roots>>,
           result' = <<pt, vpn, Mapping(pt, vpn)>>
    PROVE  ByPath!Next
<1>1. map[pt][vpn] = Mapping(pt, vpn)
  BY TableOfCall, MapIs
<1>2. ByPath!Query(pt, vpn)
  BY <1>1, TableOfCall, MemorySameMap DEF ByPath!Query
<1> QED BY <1>2, TableOfCall DEF ByPath!Next

LEMMA UpdateRefines == ASSUME IInv, UpdateLeaf PROVE ByPath!Next
<1>1. pc = "walk" /\ result' = result /\ roots' = roots
  BY DEF UpdateLeaf
<1>2. map' = [t \in Tables |-> [w \in Vpns |->
                  IF t = pt /\ SamePath(vpn, w) THEN ppn ELSE Mapping(t, w)]]
  BY MappingUpdated, MapIs
<1>3. map' = [map EXCEPT ![pt] = [w \in Vpns |-> IF SamePath(vpn, w) THEN ppn ELSE @[w]]]
  BY <1>1, <1>2, TableOfCall, MapIs
<1>4. ByPath!Update(pt, vpn, ppn)
  BY <1>1, <1>3, TableOfCall DEF ByPath!Update
<1> QED BY <1>1, <1>4, TableOfCall DEF ByPath!Next

LEMMA StepRefines ==
    IInv /\ IInv' /\ [Next]_vars => [ByPath!Next]_<<roots, map, result>>
<1> SUFFICES ASSUME IInv, IInv', [Next]_vars
             PROVE  ByPath!Next \/ UNCHANGED <<roots, map, result>>
  OBVIOUS
<1>1. CASE NewTable
  BY <1>1, NewTableRefines
<1>2. ASSUME NEW o, NEW t, NEW v, NEW p, Call(o, t, v, p) PROVE ByPath!Next
  <2>1. ByPath!Forget
    BY <1>2, MemorySameMap DEF Call, ByPath!Forget
  <2> QED BY <2>1 DEF ByPath!Next
<1>3. CASE Descend
  BY <1>3, MemorySameMap DEF Descend
<1>4. CASE Grow
  BY <1>4, GrowRefines
<1>5. CASE PathEnds
  <2>1. CASE op = "query"
    BY <1>5, <2>1, PathEndsEmpty, QueryRefines DEF PathEnds, InNode
  <2>2. CASE op # "query"
    BY <1>5, <2>2, MemorySameMap DEF PathEnds
  <2> QED BY <2>1, <2>2
<1>6. CASE OutOfMemory
  BY <1>6, MemorySameMap DEF OutOfMemory
<1>7. CASE UpdateLeaf
  BY <1>7, UpdateRefines
<1>8. CASE QueryLeaf
  BY <1>8, MappingRead, QueryRefines DEF QueryLeaf
<1>9. CASE UNCHANGED vars
  BY <1>9, MemorySameMap DEF vars
<1> QED BY <1>1, <1>2, <1>3, <1>4, <1>5, <1>6, <1>7, <1>8, <1>9
        DEF Next, page_table_query, page_table_update

\* Every behaviour of pt.c is a behaviour of a map from table and path to page
\* number: page_table_update changes the pages of its own path in its own table
\* and no other, page_table_query returns what the map holds and changes
\* nothing, and nodes made on the way are invisible.
THEOREM ImplementsAddressSpace == Spec => IsAddressSpace
  BY InitRefines, StepRefines, Invariance, PTL DEF Spec, IsAddressSpace, ByPath!Spec
-----------------------------------------------------------------------------
(* Which page numbers have an entry of their own.                          *)

\* A number and its quotient and remainder; a number below the divisor.
LEMMA DivRest ==
    ASSUME NEW x \in Nat, NEW n \in Nat \ {0}
    PROVE  x = (x \div n) * n + (x % n)
  OBVIOUS

LEMMA DivSmall == ASSUME NEW n \in Nat \ {0}, NEW x \in 0..n - 1 PROVE x \div n = 0
  OBVIOUS

LEMMA DivParts ==
    ASSUME NEW x \in Nat, NEW n \in Nat \ {0}
    PROVE  \E q \in Nat, r \in 0..n - 1 : x = q * n + r
<1>1. x \div n \in Nat /\ x % n \in 0..n - 1
  OBVIOUS
<1> QED BY <1>1, DivRest

LEMMA DivMul ==
    ASSUME NEW a \in Nat, NEW m \in Nat \ {0}, NEW n \in Nat \ {0}
    PROVE  m * n \in Nat \ {0} /\ (n * a) \div (n * m) = a \div m
<1>1. m * n \in Nat \ {0} /\ n * m = m * n
  OBVIOUS
<1>2. PICK q \in Nat, r \in 0..m - 1 : a = q * m + r
  BY DivParts
<1>3. n * a = q * (n * m) + n * r
  BY <1>2
<1>4. n * r \in 0..n * m - 1
  <2>1. n * r <= n * (m - 1)
    BY <1>2
  <2>2. n * (m - 1) = n * m - n
    OBVIOUS
  <2> QED BY <1>1, <1>2, <2>1, <2>2
<1>5. (n * a) \div (n * m) = q /\ a \div m = q
  BY <1>1, <1>2, <1>3, <1>4, DivMod
<1> QED BY <1>1, <1>5

LEMMA DivDiv ==
    \A a \in Nat : \A m, n \in Nat \ {0} : (a \div m) \div n = a \div (m * n)
<1> TAKE a \in Nat
<1> TAKE m, n \in Nat \ {0}
<1>1. m * n \in Nat \ {0}
  OBVIOUS
<1>2. PICK q \in Nat, r \in 0..m - 1 : a = q * m + r
  BY DivParts
<1>3. PICK s \in Nat, t \in 0..n - 1 : q = s * n + t
  BY DivParts
<1>4. a \div m = q /\ q \div n = s
  BY <1>2, <1>3, DivMod
<1>5. a = s * (m * n) + (t * m + r)
  BY <1>2, <1>3
<1>6. t * m + r \in 0..m * n - 1
  <2>1. t * m <= (n - 1) * m /\ t * m \in Nat
    BY <1>3
  <2>2. (n - 1) * m = m * n - m
    OBVIOUS
  <2> QED BY <1>1, <1>2, <2>1, <2>2
<1>7. a \div (m * n) = s
  BY <1>1, <1>5, <1>6, DivMod
<1> QED BY <1>4, <1>7

\* How the powers of FANOUT follow each other.
Powers ==
    /\ FANOUT ^ 0 = 1
    /\ \A l \in 0..LEVELS - 1 : FANOUT ^ (l + 1) = FANOUT ^ l * FANOUT

\* The page numbers that get_index takes apart: with nothing in the bits that
\* it drops, and within the bits that it looks at.
Aligned == {PAGE * a : a \in 0..FANOUT ^ LEVELS - 1}

LEMMA AlignedIndex ==
    ASSUME NEW a \in Nat, NEW l \in 0..LEVELS - 1
    PROVE  get_index(PAGE * a, l) = (a \div FANOUT ^ l) % FANOUT
<1>1. PAGE \in Nat \ {0} /\ FANOUT ^ l \in Nat \ {0}
  BY PageTableAssumption
<1>2. PICK m \in Nat \ {0} : m = FANOUT ^ l
  BY <1>1
<1>3. PICK n \in Nat \ {0} : n = PAGE
  BY <1>1
<1>4. (n * a) \div (n * m) = a \div m
  BY DivMul
<1> QED BY <1>2, <1>3, <1>4 DEF get_index

\* The indices of all levels determine an aligned page number: going down from
\* the root, the bits above each level agree.
LEMMA AlignedApart ==
    ASSUME Powers, NEW v \in Aligned, NEW w \in Aligned, SamePath(v, w)
    PROVE  v = w
<1>1. PICK a \in 0..FANOUT ^ LEVELS - 1, b \in 0..FANOUT ^ LEVELS - 1 : v = PAGE * a /\ w = PAGE * b
  BY DEF Aligned
<1>2. /\ LEVELS \in Nat \ {0} /\ FANOUT \in Nat \ {0}
      /\ \A l \in 0..LEVELS - 1 : FANOUT ^ l \in Nat \ {0}
  BY PageTableAssumption
<1>3. FANOUT ^ LEVELS \in Nat \ {0}
  <2>1. LEVELS - 1 \in 0..LEVELS - 1 /\ (LEVELS - 1) + 1 = LEVELS
    BY <1>2
  <2>2. FANOUT ^ LEVELS = FANOUT ^ (LEVELS - 1) * FANOUT
    BY <2>1 DEF Powers
  <2>3. PICK m \in Nat \ {0} : m = FANOUT ^ (LEVELS - 1)
    BY <1>2, <2>1
  <2> QED BY <1>2, <2>2, <2>3, DivMul
<1>4. a \in Nat /\ b \in Nat
  BY <1>1, <1>3
<1> DEFINE T == {l \in 0..LEVELS : a \div FANOUT ^ l = b \div FANOUT ^ l}
<1>5. LEVELS \in T
  <2>1. PICK m \in Nat \ {0} : m = FANOUT ^ LEVELS
    BY <1>3
  <2>2. a \div m = 0 /\ b \div m = 0
    <3>1. a \in 0..m - 1 /\ b \in 0..m - 1
      BY <1>1, <2>1
    <3> QED BY <3>1, DivSmall
  <2> QED BY <1>2, <2>1, <2>2
<1>6. ASSUME NEW l \in 0..LEVELS - 1, l + 1 \in T PROVE l \in T
  <2>1. PICK m \in Nat \ {0} : m = FANOUT ^ l
    BY <1>2
  <2>2. FANOUT ^ (l + 1) = m * FANOUT
    BY <2>1 DEF Powers
  <2>3. (a \div m) % FANOUT = (b \div m) % FANOUT
    BY <1>1, <1>4, <2>1, AlignedIndex DEF SamePath
  <2>4. (a \div m) \div FANOUT = (b \div m) \div FANOUT
    <3>1. a \div (m * FANOUT) = b \div (m * FANOUT)
      BY <1>6, <2>2
    <3> QED BY <1>2, <1>4, <3>1, DivDiv
  <2>5. PICK x \in Nat, y \in Nat : x = a \div m /\ y = b \div m
    BY <1>4
  <2>6. x = (x \div FANOUT) * FANOUT + (x % FANOUT) /\ y = (y \div FANOUT) * FANOUT + (y % FANOUT)
    BY <1>2, DivRest
  <2>7. x = y
    BY <2>3, <2>4, <2>5, <2>6
  <2> QED BY <2>1, <2>5, <2>7
<1>7. PICK k \in T : \A l \in T : k <= l
  <2>1. T \subseteq Nat /\ T # {}
    BY <1>5
  <2> HIDE DEF T
  <2> QED BY <2>1, LeastNatural
<1>8. k = 0
  <2>1. k \in 0..LEVELS
    OBVIOUS
  <2>2. ASSUME k # 0 PROVE FALSE
    <3>1. k - 1 \in 0..LEVELS - 1 /\ (k - 1) + 1 = k
      BY <1>2, <2>1, <2>2
    <3> HIDE DEF T
    <3>2. k - 1 \in T
      BY <1>6, <1>7, <3>1
    <3> QED BY <1>7, <2>1, <3>2
  <2> QED BY <2>2
<1>9. a \div 1 = b \div 1
  BY <1>8 DEF Powers
<1>10. a = b
  BY <1>4, <1>9
<1> QED BY <1>1, <1>10

\* On page numbers that are kept apart, a map over paths is a map over pages.
LEMMA PathsArePages ==
    ASSUME \A v, w \in Vpns : SamePath(v, w) => v = w
    PROVE  [ByPath!Next]_<<roots, map, result>> => [ByPage!Next]_<<roots, map, result>>
<1>1. \A v, w \in Vpns : SamePath(v, w) <=> SamePage(v, w)
  BY DEF SamePath, SamePage
<1>2. ASSUME NEW t \in Tables, NEW v \in Vpns, NEW p \in Ppns \cup {NO_MAPPING},
             ByPath!Update(t, v, p)
      PROVE  ByPage!Update(t, v, p)
  <2>1. [map EXCEPT ![t] = [w \in Vpns |-> IF SamePath(v, w) THEN p ELSE @[w]]]
          = [map EXCEPT ![t] = [w \in Vpns |-> IF SamePage(v, w) THEN p ELSE @[w]]]
    BY <1>1
  <2> QED BY <1>2, <2>1 DEF ByPath!Update, ByPage!Update
<1> QED BY <1>2 DEF ByPath!Next, ByPage!Next, ByPath!Forget, ByPage!Forget,
                ByPath!New, ByPage!New, ByPath!Query, ByPage!Query

\* A caller that shifts its page numbers up by the 12 bits of an offset, which
\* get_index (pt.c:5) shifts away again, has every page mapped on its own.
THEOREM AlignedPagesAreApart ==
    ASSUME Powers, Vpns \subseteq Aligned
    PROVE  Spec => PagesAreApart
<1>1. \A v, w \in Vpns : SamePath(v, w) => v = w
  BY AlignedApart
<1>2. [ByPath!Next]_<<roots, map, result>> => [ByPage!Next]_<<roots, map, result>>
  BY <1>1, PathsArePages
<1>3. ByPath!Init => ByPage!Init
  BY DEF ByPath!Init, ByPage!Init
<1> QED BY ImplementsAddressSpace, <1>2, <1>3, PTL
        DEF IsAddressSpace, PagesAreApart, ByPath!Spec, ByPage!Spec
=============================================================================
