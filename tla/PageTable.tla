------------------------------ MODULE PageTable ------------------------------
(***************************************************************************)
(* The multi-level page table of hw1/pt.c on the simulated physical memory *)
(* of hw1/os.c.  The program is sequential: a call is followed level by    *)
(* level so that what the walk relies on at each level can be stated.      *)
(* The widths of the target are constants: 2^12 bytes in a page, 2^9       *)
(* entries in a node, 5 levels and 64-bit words in the code.               *)
(***************************************************************************)
EXTENDS Integers

CONSTANTS PAGE, FANOUT, LEVELS, WORD,
          BASE,                \* the number of the first frame, 0xbaaaaaad
          NPAGES,
          Vpns, Ppns,          \* the page numbers callers pass
          NO_MAPPING, NULL

ASSUME PageTableAssumption ==
    /\ PAGE \in Nat \ {0} /\ PAGE % 2 = 0    \* an address leaves the valid bit free
    /\ FANOUT \in Nat \ {0} /\ LEVELS \in Nat \ {0}
    /\ \A l \in 0..LEVELS - 1 : FANOUT ^ l \in Nat \ {0}
    /\ WORD \in Nat \ {0} /\ WORD % PAGE = 0
    /\ BASE \in Nat /\ NPAGES \in Nat /\ (BASE + NPAGES) * PAGE <= WORD
    /\ Vpns \subseteq Nat
    /\ Ppns \subseteq 0..(WORD \div PAGE) - 1
    /\ NO_MAPPING \notin Ppns
    /\ NULL \notin Nat

VARIABLES
    nalloc,      \* frames handed out so far; frame n is pages[n]
    pages,       \* pages[n][i]: the words of frame n
    roots,       \* the frame numbers the caller took for page tables
    pc, op,      \* where the current call is, and which call it is
    pt, vpn, ppn, level, current,    \* its arguments and locals
    result,      \* what a query returned, until the next call
    place        \* history: the table, level and path frame n was made a node for

memoryVars == <<nalloc, pages, place>>
callVars == <<op, pt, vpn, ppn>>
vars == <<memoryVars, roots, pc, callVars, level, current, result>>

Frames == 0..NPAGES - 1
Index  == 0..FANOUT - 1
-----------------------------------------------------------------------------
(* os.c: physical memory.                                                  *)

\* The number of the frame that alloc_page_frame returns next.
alloc_page_frame == nalloc + BASE

\* Mutant of phys_to_virt: the number of the first frame is not subtracted.
RawFrame(phys_addr) == IF phys_addr \div PAGE < nalloc THEN phys_addr \div PAGE ELSE NULL

\* pages[ppn] for an address in an allocated frame; NULL for any other.
phys_to_virt(phys_addr) ==
    LET n == ((phys_addr \div PAGE) - BASE) % WORD
    IN  IF n < nalloc THEN n ELSE NULL

\* (x << 12) | 1, x & 1, x & ~0xFFF and x >> 12.
Entry(number)  == ((number * PAGE) % WORD) + 1
Valid(word)    == word % 2 = 1
Address(word)  == word - (word % PAGE)
Number(word)   == word \div PAGE
-----------------------------------------------------------------------------
(* pt.c                                                                    *)

\* v >> (12 + 9 * level), the low 9 bits.
get_index(v, l) == (v \div (PAGE * FANOUT ^ l)) % FANOUT

Init ==
    /\ nalloc = 0
    /\ pages = [n \in Frames |-> [i \in Index |-> 0]]
    /\ roots = {}
    /\ pc = "idle" /\ op = "query" /\ pt = 0 /\ vpn = 0 /\ ppn = NO_MAPPING
    /\ level = 0 /\ current = NULL
    /\ result = <<>>
    /\ place = [n \in Frames |-> NULL]

\* The node for v at level l of table t: the table, the level, and the index
\* taken at each level above it.
Place(t, v, l) == [table |-> t, level |-> l, path |-> [k \in l + 1..LEVELS - 1 |-> get_index(v, k)]]

\* The caller takes a frame, which is all zeroes, for a table of its own.
NewTable ==
    /\ pc = "idle" /\ nalloc < NPAGES
    /\ nalloc' = nalloc + 1
    /\ roots' = roots \cup {alloc_page_frame}
    /\ place' = [place EXCEPT ![nalloc] = Place(alloc_page_frame, 0, LEVELS - 1)]
    /\ UNCHANGED <<pages, pc, callVars, level, current, result>>

\* Mutant of Call: the loop starts one level too low.
ShallowCall(o, t, v, p) ==
    /\ pc = "idle"
    /\ op' = o /\ pt' = t /\ vpn' = v /\ ppn' = p
    /\ level' = LEVELS - 2
    /\ current' = phys_to_virt(t * PAGE)
    /\ pc' = "walk" /\ result' = <<>>
    /\ UNCHANGED <<memoryVars, roots>>

Call(o, t, v, p) ==
    /\ pc = "idle"
    /\ op' = o /\ pt' = t /\ vpn' = v /\ ppn' = p
    /\ level' = LEVELS - 1
    /\ current' = phys_to_virt(t * PAGE)
    /\ pc' = "walk" /\ result' = <<>>
    /\ UNCHANGED <<memoryVars, roots>>

page_table_update(t, v, p) == Call("update", t, v, p)
page_table_query(t, v)     == Call("query", t, v, NO_MAPPING)

word == pages[current][get_index(vpn, level)]
InNode == pc = "walk" /\ level > 0

\* The next level exists: go there.
Descend ==
    /\ InNode /\ Valid(word)
    /\ current' = phys_to_virt(Address(word))
    /\ level' = level - 1
    /\ UNCHANGED <<memoryVars, roots, pc, callVars, result>>

\* Mutant of Grow: a node is made although there is one.
GrowAnyway ==
    /\ InNode
    /\ op = "update" /\ ppn # NO_MAPPING
    /\ nalloc < NPAGES
    /\ nalloc' = nalloc + 1
    /\ pages' = [pages EXCEPT ![current][get_index(vpn, level)] = Entry(alloc_page_frame)]
    /\ place' = [place EXCEPT ![nalloc] = Place(pt, vpn, level - 1)]
    /\ UNCHANGED <<roots, pc, callVars, level, current, result>>

\* An update that maps a page makes the node first.
Grow ==
    /\ InNode /\ ~Valid(word)
    /\ op = "update" /\ ppn # NO_MAPPING
    /\ nalloc < NPAGES
    /\ nalloc' = nalloc + 1
    /\ pages' = [pages EXCEPT ![current][get_index(vpn, level)] = Entry(alloc_page_frame)]
    /\ place' = [place EXCEPT ![nalloc] = Place(pt, vpn, level - 1)]
    /\ UNCHANGED <<roots, pc, callVars, level, current, result>>

\* The locals of the call are gone.
Return ==
    /\ pc' = "idle" /\ current' = NULL /\ level' = 0
    /\ op' = "query" /\ pt' = 0 /\ vpn' = 0 /\ ppn' = NO_MAPPING

\* A query or an update that unmaps a page stops where the path ends.
PathEnds ==
    /\ InNode /\ ~Valid(word)
    /\ ppn = NO_MAPPING
    /\ Return
    /\ result' = IF op = "query" THEN <<pt, vpn, NO_MAPPING>> ELSE result
    /\ UNCHANGED <<memoryVars, roots>>

\* NPAGES frames are in use, or mmap failed: errx or err ends the program.
OutOfMemory ==
    /\ \/ pc = "idle"
       \/ InNode /\ ~Valid(word) /\ op = "update" /\ ppn # NO_MAPPING
    /\ pc' = "exit"
    /\ UNCHANGED <<memoryVars, roots, callVars, level, current, result>>

UpdateLeaf ==
    /\ pc = "walk" /\ level = 0 /\ op = "update"
    /\ pages' = [pages EXCEPT ![current][get_index(vpn, 0)] =
                    IF ppn = NO_MAPPING THEN 0 ELSE Entry(ppn)]
    /\ Return
    /\ UNCHANGED <<nalloc, place, roots, result>>

\* Mutant of QueryLeaf: the valid bit of the last level is not tested.
QueryAnyLeaf ==
    /\ pc = "walk" /\ level = 0 /\ op = "query"
    /\ result' = <<pt, vpn, Number(word)>>
    /\ Return
    /\ UNCHANGED <<memoryVars, roots>>

QueryLeaf ==
    /\ pc = "walk" /\ level = 0 /\ op = "query"
    /\ result' = <<pt, vpn, IF Valid(word) THEN Number(word) ELSE NO_MAPPING>>
    /\ Return
    /\ UNCHANGED <<memoryVars, roots>>

Next ==
    \/ NewTable
    \/ \E t \in roots, v \in Vpns :
          \/ page_table_query(t, v)
          \/ \E p \in Ppns \cup {NO_MAPPING} : page_table_update(t, v, p)
    \/ Descend \/ Grow \/ PathEnds \/ OutOfMemory \/ UpdateLeaf \/ QueryLeaf

Spec == Init /\ [][Next]_vars
-----------------------------------------------------------------------------
(* Properties.                                                             *)

Used == 0..nalloc - 1
Words == 0..WORD - 1
Path(l) == [l + 1..LEVELS - 1 -> Index]
Places == UNION {[table : roots, level : {l}, path : Path(l)] : l \in 0..LEVELS - 1}

\* A walk never leaves physical memory: current is NULL only outside a call,
\* so no entry of an unallocated frame is read or written (pt.c:9-18).
TypeOK ==
    /\ nalloc \in 0..NPAGES
    /\ pages \in [Frames -> [Index -> Words]]
    /\ roots \subseteq {n + BASE : n \in Used}
    /\ pc \in {"idle", "walk", "exit"} /\ op \in {"query", "update"}
    /\ level \in 0..LEVELS - 1
    /\ pc = "walk" => /\ current \in Used /\ pt \in roots /\ vpn \in Vpns
                      /\ ppn \in Ppns \cup {NO_MAPPING}
    /\ op = "query" => ppn = NO_MAPPING
    /\ place \in [Frames -> Places \cup {NULL}] /\ \A n \in Used : place[n] \in Places

\* The frame below entry i of frame n.
Child(n, i) == phys_to_virt(Address(pages[n][i]))

\* The place below entry i of a node at place p.
Below(p, i) ==
    [table |-> p.table, level |-> p.level - 1,
     path |-> [k \in p.level..LEVELS - 1 |-> IF k = p.level THEN i ELSE p.path[k]]]

PlacesDistinct == \A m, n \in Used : place[m] = place[n] => m = n

ChildrenBelow ==
    \A n \in Used : place[n].level > 0 =>
        \A i \in Index : Valid(pages[n][i]) =>
            Child(n, i) \in Used /\ place[Child(n, i)] = Below(place[n], i)

HangsFrom(n, m, i) == place[m].level > 0 /\ Valid(pages[m][i]) /\ Child(m, i) = n

ParentsExist ==
    \A n \in Used : place[n].level < LEVELS - 1 =>
        \E m \in Used, i \in Index : HangsFrom(n, m, i)

UnusedAreZero == \A n \in Frames \ Used : pages[n] = [i \in Index |-> 0]

\* The nodes of all tables form disjoint trees: no two frames have one place,
\* a valid entry leads to the node of the place below it, and every node but a
\* root hangs from the entry above it; frames not in use are zero.
TreeSound == PlacesDistinct /\ ChildrenBelow /\ ParentsExist /\ UnusedAreZero

\* The walk is where it should be: in the node of its own table, at its own
\* level, on the path of vpn (pt.c:10-19, 31-37).
OnPath == pc = "walk" => place[current] = Place(pt, vpn, level)

\* The frame with the entry that maps v in t, if the path goes that far.
Leaf(t, v) == {n \in Used : place[n] = Place(t, v, 0)}

Mapping(t, v) ==
    IF \E n \in Leaf(t, v) : Valid(pages[n][get_index(v, 0)])
    THEN Number(pages[CHOOSE n \in Leaf(t, v) : TRUE][get_index(v, 0)])
    ELSE NO_MAPPING

\* What the code takes for one page: equal indices at all levels.
SamePath(v, w) == \A l \in 0..LEVELS - 1 : get_index(v, l) = get_index(w, l)
SamePage(v, w) == v = w

Tables == {n + BASE : n \in Frames}
map == [t \in Tables |-> [v \in Vpns |-> Mapping(t, v)]]

ByPath == INSTANCE AddressSpace WITH made <- roots, answer <- result, Same <- SamePath
ByPage == INSTANCE AddressSpace WITH made <- roots, answer <- result, Same <- SamePage

\* Each table is a map over the paths of page numbers: an update changes the
\* pages with its own path in its own table and no other, a query changes
\* nothing and returns what the map holds, and making nodes is invisible.
IsAddressSpace == ByPath!Spec

\* What the tests and the assignment say: "vpn's mapping" is its own.
PagesAreApart == ByPage!Spec
=============================================================================
