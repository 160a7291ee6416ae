------------------------- MODULE MCKServerSession -------------------------
(* The instance of KServerSession for TLC: its model values.  The run checks
   liveness, so it takes no symmetry. *)
EXTENDS KServerSession

CONSTANTS c1, c2, s1, s2
===========================================================================
