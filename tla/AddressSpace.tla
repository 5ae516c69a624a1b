---------------------------- MODULE AddressSpace -----------------------------
(***************************************************************************)
(* What a page table promises: each table is a partial map from virtual to *)
(* physical page numbers.  Same(v, w) says that v and w are one page; a    *)
(* table that keeps every page apart has Same(v, w) <=> v = w.             *)
(***************************************************************************)
CONSTANTS Tables, Vpns, Ppns, NO_MAPPING, Same(_, _)

VARIABLES made,      \* the tables in use
          map,       \* map[t][v]: the page v is mapped to in t, or NO_MAPPING
          answer     \* the last query and what it returned

Init ==
    /\ made = {}
    /\ map = [t \in Tables |-> [v \in Vpns |-> NO_MAPPING]]
    /\ answer = <<>>

New(t) ==
    /\ t \notin made
    /\ made' = made \cup {t}
    /\ UNCHANGED <<map, answer>>

Update(t, v, p) ==
    /\ t \in made
    /\ map' = [map EXCEPT ![t] = [w \in Vpns |-> IF Same(v, w) THEN p ELSE @[w]]]
    /\ UNCHANGED <<made, answer>>

Query(t, v) ==
    /\ t \in made
    /\ answer' = <<t, v, map[t][v]>>
    /\ UNCHANGED <<made, map>>

\* The caller is done with the answer.
Forget == answer' = <<>> /\ UNCHANGED <<made, map>>

Next ==
    \/ Forget
    \/ \E t \in Tables :
           \/ New(t)
           \/ \E v \in Vpns : Query(t, v) \/ \E p \in Ppns \cup {NO_MAPPING} : Update(t, v, p)

Spec == Init /\ [][Next]_<<made, map, answer>>
=============================================================================
