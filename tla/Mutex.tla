------------------------------- MODULE Mutex -------------------------------
(***************************************************************************)
(* What a kernel lock promises its users: one holder at a time, taken only *)
(* by a thread that asked for it, given up only by its holder, and passed  *)
(* in one step to a chosen waiter when the holder hands it over.  KLightLock*)
(* and the user mutex of KConditionVariable are checked to implement this. *)
(***************************************************************************)
CONSTANTS Threads, NoThread

VARIABLES
    holder,     \* the thread that holds the lock, or NoThread
    want        \* the threads inside a call that acquires it

vars == <<holder, want>>

Init == holder = NoThread /\ want = {}

Request(t) ==
    /\ t \notin want /\ holder # t
    /\ want' = want \cup {t}
    /\ UNCHANGED holder

\* Requests that end without the lock (a timeout, or a termination, which ends
\* those of several threads at once).
Withdraw(set) ==
    /\ want' = want \ set
    /\ UNCHANGED holder

Acquire(t) ==
    /\ holder = NoThread /\ t \in want
    /\ holder' = t
    /\ want' = want \ {t}

\* "again" is {t} when the holder asks for the lock back in the same step, as a
\* thread does that gives up the mutex to wait on a condition variable.
Release(t) ==
    /\ holder = t
    /\ holder' = NoThread
    /\ \E again \in SUBSET {t} : want' = want \cup again

Handoff(t, n) ==
    /\ holder = t /\ n \in want
    /\ holder' = n
    /\ \E again \in SUBSET {t} : want' = (want \ {n}) \cup again

Next ==
    \/ \E t \in Threads :
          \/ Request(t) \/ Acquire(t) \/ Release(t)
          \/ \E n \in Threads : Handoff(t, n)
    \/ \E set \in SUBSET want : Withdraw(set)

Spec == Init /\ [][Next]_vars
=============================================================================
