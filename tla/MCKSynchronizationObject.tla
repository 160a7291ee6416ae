---------------------- MODULE MCKSynchronizationObject ----------------------
(* Instances of KSynchronizationObject for TLC.                            *)
EXTENDS KSynchronizationObject, TLC

\* Threads and events are interchangeable.
WaitSymmetry == Permutations(Threads) \cup Permutations(Objects)
=============================================================================
