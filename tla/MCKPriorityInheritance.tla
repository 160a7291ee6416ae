----------------------- MODULE MCKPriorityInheritance -----------------------
(* KPriorityInheritance together with KAddressArbiter for TLC. *)
EXTENDS KAddressArbiter, TLC

Symmetry == Permutations(Threads) \cup Permutations(Keys)
=============================================================================
