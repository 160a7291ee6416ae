------------------------- MODULE MCKResourceLimit -------------------------
(* The instance of KResourceLimit for TLC: its model values.  The run checks
   liveness, so it takes no symmetry. *)
EXTENDS KResourceLimit

CONSTANTS t1, t2, t3
===========================================================================
