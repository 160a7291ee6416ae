---------------------------- MODULE MCCoreTiming ----------------------------
(* Instances of CoreTiming for TLC.                                        *)
EXTENDS CoreTiming, TLC

\* The users behave alike, and so do the event types.
Symmetry == Permutations(Users) \cup Permutations(Types)
=============================================================================
