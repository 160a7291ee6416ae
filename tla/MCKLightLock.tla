---------------------------- MODULE MCKLightLock ----------------------------
(* Instances of KLightLock for TLC.                                        *)
EXTENDS KLightLock, TLC

CONSTANT t1

\* Every thread locks twice, or only t1 comes back for the lock: enough for a
\* tag to be seen, left and taken by the same owner again.
Twice == [t \in Threads |-> 2]
AgainT1 == [t \in Threads |-> IF t = t1 THEN 2 ELSE 1]

\* The threads behave alike, and no property names one of them.
ThreadSymmetry == Permutations(Threads)
=============================================================================
