---------------------------- MODULE MCMessageSlot ----------------------------
(* Values for the constants of MessageSlot.                                *)
EXTENDS MessageSlot, TLC

CONSTANTS a, b, f1, f2

\* An empty message, two that fit, one of every byte, and one that is too long.
SomeInputs == {<<>>, <<a>>, <<b, b>>, <<b, b, b>>}

Symmetry == Permutations(Files)
=============================================================================
