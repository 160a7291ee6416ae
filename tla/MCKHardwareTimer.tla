------------------------- MODULE MCKHardwareTimer -------------------------
(* The instance of KHardwareTimer for TLC: its model values.  The run checks
   liveness, so it takes no symmetry. *)
EXTENDS KHardwareTimer

CONSTANTS t1, t2, t3
===========================================================================
