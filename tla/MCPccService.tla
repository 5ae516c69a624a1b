---------------------------- MODULE MCPccService -----------------------------
(* Files for the clients of PccService.                                    *)
EXTENDS PccService

CONSTANTS c1, c2, c3

\* A file that does not change, one that grows by a byte after its size was
\* taken, and one of UINT_MOD bytes, whose size is announced as 0.
ThreeFiles == [c \in Clients |->
    CASE c = c1 -> <<0, 1>>
      [] c = c2 -> <<2, 2>>
      [] c = c3 -> <<1, 1, 1>>]
ThreeSizes == [c \in Clients |-> CASE c = c1 -> 2 [] c = c2 -> 1 [] c = c3 -> 3]
=============================================================================
