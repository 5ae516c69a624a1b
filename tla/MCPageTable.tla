----------------------------- MODULE MCPageTable -----------------------------
(* A scaled-down target for PageTable.                                     *)
EXTENDS PageTable

\* Page numbers that share a path, part at each level, and use the top bits.
SomeVpns == {0, 1, 2, 12}
\* The lowest number and the highest.
SomePpns == {0, 15}
=============================================================================
