---------------------------- MODULE MCKScheduler ----------------------------
(***************************************************************************)
(* Two guest threads and a host.  The first may run on both cores, be sent *)
(* to the core of the second, be paused or end; the second may be given a  *)
(* priority so high that no thread is migrated away from behind it.        *)
(***************************************************************************)
EXTENDS KScheduler, TLC

CONSTANTS t1, t2, h1

MCPriority == t1 :> 3 @@ t2 :> 3
MCMask == t1 :> {0, 1} @@ t2 :> {0}
MCPreemption == 0 :> 3 @@ 1 :> 4
MCSettable == {<<t2, 1>>}
MCMaskable == {<<t1, {0}>>}
=============================================================================
