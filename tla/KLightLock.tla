----------------------------- MODULE KLightLock -----------------------------
(***************************************************************************)
(* One KLightLock: the tag word taken with compare-and-swap, the slow paths*)
(* that run under the scheduler lock, and what they share with KThread: the*)
(* kernel-waiter count of the owner and its suspension.                    *)
(*                                                                         *)
(* A section under the scheduler lock is one step; a compare-and-swap is   *)
(* one step.  A suspended thread may still step, since it keeps running    *)
(* until its core is interrupted; only fairness depends on suspension.     *)
(* Which waiter RemoveWaiterByKey picks is left open here                  *)
(* (KPriorityInheritance models the choice by priority).                   *)
(***************************************************************************)
EXTENDS Naturals, FiniteSets

CONSTANTS
    Threads,        \* the threads that use the lock
    NoThread,       \* the null thread pointer
    SuspendTypes,   \* the SuspendType values the environment uses
    Terminable,     \* the threads RequestTerminate may be called on
    CancelsWaits,   \* whether it may find them waiting for the lock
    MaxLocks        \* bound on the calls of Lock, for each thread

ASSUME ThreadsAssumption == IsFiniteSet(Threads) /\ NoThread \notin Threads
ASSUME MaxLocksAssumption == MaxLocks \in [Threads -> Nat] /\ CancelsWaits \in BOOLEAN

VARIABLES
    tag,                 \* m_tag: the owner pointer and the has-waiters bit
    pc,                  \* where each thread is in Lock and Unlock
    old,                 \* the _owner argument of LockSlowPath
    lockOwner,           \* GetLockOwner(): the owner a thread waits on
    numKernelWaiters,    \* m_num_kernel_waiters
    suspendRequested,    \* m_suspend_request_flags
    suspendAllowed,      \* m_suspend_allowed_flags # 0
    suspended,           \* the suspend bits of m_thread_state
    terminating,         \* m_termination_requested
    locks                \* calls of Lock so far, capped by MaxLocks

lockVars == <<tag, pc, old, locks>>
waitVars == <<lockOwner, numKernelWaiters>>
suspendVars == <<suspendRequested, suspendAllowed, suspended, terminating>>
vars == <<lockVars, waitVars, suspendVars>>

Tag == [owner : Threads \cup {NoThread}, waiters : BOOLEAN]
FreeTag == [owner |-> NoThread, waiters |-> FALSE]

Init ==
    /\ tag = FreeTag
    /\ pc = [t \in Threads |-> "idle"]
    /\ old = [t \in Threads |-> FreeTag]
    /\ locks = [t \in Threads |-> 0]
    /\ lockOwner = [t \in Threads |-> NoThread]
    /\ numKernelWaiters = [t \in Threads |-> 0]
    /\ suspendRequested = [t \in Threads |-> {}]
    /\ suspendAllowed = [t \in Threads |-> TRUE]
    /\ suspended = [t \in Threads |-> {}]
    /\ terminating = [t \in Threads |-> FALSE]

Waiters(t) == {w \in Threads : lockOwner[w] = t}
-----------------------------------------------------------------------------
(* KThread: suspension.                                                    *)

SuspendFlags(t) == IF suspendAllowed[t] THEN suspendRequested[t] ELSE {}
IsSuspended(t) == SuspendFlags(t) # {}

\* Mutant: a waiter no longer lifts the suspension of the owner.
ContinueNever(s, num, t) == s
\* "s with t continued if it has kernel waiters": s are the suspend bits and
\* num the kernel-waiter counts the caller has already updated.
ContinueIfHasKernelWaiters(s, num, t) ==
    IF IsSuspended(t) /\ num[t] > 0 THEN [s EXCEPT ![t] = {}] ELSE s

TrySuspend(s, num, t) ==
    IF IsSuspended(t) /\ num[t] = 0 THEN [s EXCEPT ![t] = SuspendFlags(t)] ELSE s
-----------------------------------------------------------------------------
(* KThread: the kernel waiters of an owner.                                *)

AddWaiter(owner, t) ==
    /\ lockOwner' = [lockOwner EXCEPT ![t] = owner]
    /\ numKernelWaiters' = [numKernelWaiters EXCEPT ![owner] = @ + 1]

RemoveWaiter(owner, t) ==
    /\ lockOwner' = [lockOwner EXCEPT ![t] = NoThread]
    /\ numKernelWaiters' = [numKernelWaiters EXCEPT ![owner] = @ - 1]

\* Mutant: the new owner's count is not raised by the waiters it takes over.
CountsAfterHandoffStale(t, next) ==
    [numKernelWaiters EXCEPT ![t] = @ - Cardinality(Waiters(t))]
CountsAfterHandoff(t, next) ==
    [numKernelWaiters EXCEPT ![t] = @ - Cardinality(Waiters(t)),
                             ![next] = @ + Cardinality(Waiters(t) \ {next})]

\* The waiters of t but next become waiters of next.
RemoveWaiterByKey(t, next) ==
    /\ lockOwner' = [w \in Threads |->
                        IF w = next THEN NoThread
                        ELSE IF lockOwner[w] = t THEN next ELSE lockOwner[w]]
    /\ numKernelWaiters' = CountsAfterHandoff(t, next)
-----------------------------------------------------------------------------
(* Lock                                                                    *)

BeginLock(t) ==
    /\ pc[t] = "idle" /\ locks[t] < MaxLocks[t]
    /\ pc' = [pc EXCEPT ![t] = "lock"]
    /\ locks' = [locks EXCEPT ![t] = @ + 1]
    /\ UNCHANGED <<tag, old, waitVars, suspendVars>>

\* Mutant: a taken lock is taken again.
LockedTagSteals(cur, t) == [owner |-> t, waiters |-> FALSE]
\* The value the compare-and-swap of Lock stores over cur.
LockedTag(cur, t) ==
    IF cur = FreeTag THEN [owner |-> t, waiters |-> FALSE]
    ELSE [owner |-> cur.owner, waiters |-> TRUE]

\* The load and the failed rounds of the compare-and-swap loop change nothing;
\* this is the round that succeeds.
Lock(t) ==
    /\ pc[t] = "lock"
    /\ tag' = LockedTag(tag, t)
    /\ old' = [old EXCEPT ![t] = LockedTag(tag, t)]
    /\ pc' = [pc EXCEPT ![t] = IF tag = FreeTag THEN "held" ELSE "slow"]
    /\ UNCHANGED <<locks, waitVars, suspendVars>>

\* Mutant: the tag is not read again under the scheduler lock.
TagUnchangedUnchecked(t) == TRUE
TagUnchanged(t) == tag = old[t]

LockSlowPathRetry(t) ==
    /\ pc[t] = "slow" /\ ~TagUnchanged(t)
    /\ pc' = [pc EXCEPT ![t] = "lock"]
    /\ UNCHANGED <<tag, old, locks, waitVars, suspendVars>>

\* AddWaiter, BeginWait and the owner continued, under the scheduler lock.
LockSlowPathWait(t) ==
    /\ pc[t] = "slow" /\ TagUnchanged(t)
    /\ AddWaiter(old[t].owner, t)
    /\ pc' = [pc EXCEPT ![t] = "waiting"]
    /\ suspended' = ContinueIfHasKernelWaiters(suspended, numKernelWaiters', old[t].owner)
    /\ UNCHANGED <<tag, old, locks, suspendRequested, suspendAllowed, terminating>>
-----------------------------------------------------------------------------
(* Unlock                                                                  *)

Unlock(t) ==
    /\ pc[t] = "held"
    /\ IF tag = [owner |-> t, waiters |-> FALSE]
       THEN tag' = FreeTag /\ pc' = [pc EXCEPT ![t] = "idle"]
       ELSE tag' = tag /\ pc' = [pc EXCEPT ![t] = "unlock"]
    /\ UNCHANGED <<old, locks, waitVars, suspendVars>>

UnlockSlowPathNoWaiter(t) ==
    /\ pc[t] = "unlock" /\ Waiters(t) = {}
    /\ tag' = FreeTag
    /\ pc' = [pc EXCEPT ![t] = "idle"]
    /\ suspended' = TrySuspend(suspended, numKernelWaiters, t)
    /\ UNCHANGED <<old, locks, waitVars, suspendRequested, suspendAllowed, terminating>>

\* Mutant: the new tag forgets the waiters that are left.
HandoffTagForgets(t, next) == [owner |-> next, waiters |-> FALSE]
HandoffTag(t, next) == [owner |-> next, waiters |-> Waiters(t) # {next}]

\* LockSlowPath of next returns TRUE as soon as its wait ends, so next holds
\* the lock from here on.
UnlockSlowPathHandoff(t, next) ==
    /\ pc[t] = "unlock" /\ next \in Waiters(t)
    /\ RemoveWaiterByKey(t, next)
    /\ tag' = HandoffTag(t, next)
    /\ pc' = [pc EXCEPT ![t] = "idle", ![next] = "held"]
    /\ suspended' = TrySuspend(
                        ContinueIfHasKernelWaiters(suspended, numKernelWaiters', next),
                        numKernelWaiters', t)
    /\ UNCHANGED <<old, locks, suspendRequested, suspendAllowed, terminating>>
-----------------------------------------------------------------------------
(* What other threads do to a thread, each under the scheduler lock.       *)

RequestSuspend(t, type) ==
    /\ suspendRequested' = [suspendRequested EXCEPT ![t] = @ \cup {type}]
    /\ suspended' = IF numKernelWaiters[t] > 0 THEN suspended
                    ELSE [suspended EXCEPT ![t] =
                             IF suspendAllowed[t] THEN suspendRequested[t] \cup {type} ELSE {}]
    /\ UNCHANGED <<lockVars, waitVars, suspendAllowed, terminating>>

\* Resume updates the state without looking at the kernel waiters.
Resume(t, type) ==
    /\ type \in suspendRequested[t]
    /\ suspendRequested' = [suspendRequested EXCEPT ![t] = @ \ {type}]
    /\ suspended' = [suspended EXCEPT ![t] =
                        IF suspendAllowed[t] THEN suspendRequested[t] \ {type} ELSE {}]
    /\ UNCHANGED <<lockVars, waitVars, suspendAllowed, terminating>>

\* The first request continues a suspended thread and cancels a wait: the wait
\* queue of the lock removes the waiter from its owner and makes it runnable,
\* and LockSlowPath returns TRUE to it as after a handoff.
RequestTerminate(t) ==
    /\ t \in Terminable /\ ~terminating[t] /\ (pc[t] = "waiting" => CancelsWaits)
    /\ terminating' = [terminating EXCEPT ![t] = TRUE]
    /\ IF IsSuspended(t)
       THEN /\ suspendAllowed' = [suspendAllowed EXCEPT ![t] = FALSE]
            /\ suspended' = [suspended EXCEPT ![t] = {}]
       ELSE UNCHANGED <<suspendAllowed, suspended>>
    /\ IF pc[t] = "waiting"
       THEN RemoveWaiter(lockOwner[t], t) /\ pc' = [pc EXCEPT ![t] = "held"]
       ELSE UNCHANGED <<pc, waitVars>>
    /\ UNCHANGED <<tag, old, locks, suspendRequested>>
-----------------------------------------------------------------------------
ThreadStep(t) ==
    \/ Lock(t)
    \/ LockSlowPathRetry(t)
    \/ LockSlowPathWait(t)
    \/ Unlock(t)
    \/ UnlockSlowPathNoWaiter(t)
    \/ \E next \in Threads : UnlockSlowPathHandoff(t, next)

Environment(t) ==
    \/ \E type \in SuspendTypes : RequestSuspend(t, type) \/ Resume(t, type)
    \/ RequestTerminate(t)

Next == \E t \in Threads : BeginLock(t) \/ ThreadStep(t) \/ Environment(t)

Spec == Init /\ [][Next]_vars

\* The scheduler runs every thread that stays runnable: a thread whose state has
\* no suspend bit takes its next step.  Nothing resumes a suspended thread.
Fairness == \A t \in Threads : WF_vars(suspended[t] = {} /\ ThreadStep(t))

FairSpec == Spec /\ Fairness
-----------------------------------------------------------------------------
Holding(t) == pc[t] \in {"held", "unlock"}

\* Every variable keeps the type the members of KLightLock and KThread have.
TypeOK ==
    /\ tag \in Tag
    /\ pc \in [Threads -> {"idle", "lock", "slow", "waiting", "held", "unlock"}]
    /\ old \in [Threads -> Tag]
    /\ locks \in [Threads -> Nat] /\ \A t \in Threads : locks[t] <= MaxLocks[t]
    /\ lockOwner \in [Threads -> Threads \cup {NoThread}]
    /\ numKernelWaiters \in [Threads -> Nat]
    /\ suspendRequested \in [Threads -> SUBSET SuspendTypes]
    /\ suspendAllowed \in [Threads -> BOOLEAN]
    /\ suspended \in [Threads -> SUBSET SuspendTypes]
    /\ terminating \in [Threads -> BOOLEAN]

\* A thread for which Lock returned and that has not finished Unlock is the
\* owner the tag names: what ASSERT(IsLockedByCurrentThread()) states all over
\* the kernel, and mutual exclusion, since the tag names one owner.
LockedByHolder == \A t \in Threads : Holding(t) => tag.owner = t

\* A thread that waits in LockSlowPath waits on the thread that holds the lock,
\* and the has-waiters bit makes that thread's Unlock take the slow path: no
\* interleaving of compare-and-swap and slow paths loses the wakeup.
NoLostWakeup ==
    \A t \in Threads :
        pc[t] = "waiting" => /\ lockOwner[t] = tag.owner
                             /\ Holding(tag.owner)
                             /\ tag.waiters

\* m_num_kernel_waiters counts the threads whose lock owner the thread is, through
\* enqueue, handoff and cancelled waits: a drift would keep a thread from being
\* suspended for ever, or let a lock owner be suspended.
WaiterCountExact ==
    \A t \in Threads : numKernelWaiters[t] = Cardinality(Waiters(t))

\* A thread that others wait for is kept from running by its suspend bits.
HeldBack(t) == numKernelWaiters[t] > 0 /\ suspended[t] # {}

\* If t is held back, it was before and no waiter joined, or one of the reasons
\* for its suspension was lifted.
KeptRunning(t) ==
    HeldBack(t)' => \/ HeldBack(t) /\ numKernelWaiters'[t] <= numKernelWaiters[t]
                    \/ suspendRequested[t] \ suspendRequested'[t] # {}
AllKeptRunning == \A t \in Threads : KeptRunning(t)

\* Suspension and kernel waiters meet safely: TrySuspend defers, a new waiter or
\* a handoff lifts the suspension (ContinueIfHasKernelWaiters), and the one step
\* that may put a thread others wait for to sleep is a Resume that lifts one of
\* several reasons for its suspension.  It stays so at most until the next
\* waiter joins.
OwnerKeptRunning == [][AllKeptRunning]_vars

\* A thread that waits gets the lock, even if the owner, or every thread, is
\* suspended and nobody resumes it, unless such a Resume holds an owner back.
WaiterGetsLock ==
    \A t \in Threads :
        pc[t] = "waiting" ~> Holding(t) \/ \E u \in Threads : HeldBack(u)

\* The lock implements the abstract mutex: its holder is the owner in the tag.
MutexHolder == tag.owner
MutexWant == {t \in Threads : pc[t] \in {"lock", "slow", "waiting"}}
Abstract == INSTANCE Mutex WITH holder <- MutexHolder, want <- MutexWant

\* Every step of the lock is a step of the abstract mutex or changes neither its
\* holder nor the set of threads that ask for it.
ImplementsMutex == Abstract!Spec
=============================================================================
