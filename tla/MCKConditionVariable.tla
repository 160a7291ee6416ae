------------------------ MODULE MCKConditionVariable ------------------------
(* KConditionVariable for TLC: the cfg files name the threads. *)
EXTENDS KConditionVariable, TLC
=============================================================================
