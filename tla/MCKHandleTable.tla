--------------------------- MODULE MCKHandleTable ---------------------------
(* Instances of KHandleTable for TLC.                                      *)
EXTENDS KHandleTable, TLC

\* The threads behave alike, and so do the objects.
Symmetry == Permutations(Threads) \cup Permutations(Objects)
=============================================================================
