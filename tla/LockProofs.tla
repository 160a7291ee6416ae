----------------------------- MODULE LockProofs -----------------------------
(***************************************************************************)
(* The light lock and the resource limit that it guards.                   *)
(*                                                                         *)
(* KLightLock, for every set of threads: IndInv holds with any pattern of  *)
(* suspension and termination; ExclusiveInv is the part that needs a       *)
(* waiter to leave the queue by a handoff only.                            *)
(*                                                                         *)
(* KResourceLimit, for any number of threads, every width of the counters  *)
(* and all amounts: the counters are what the threads have reserved, and   *)
(* no release leaves a thread waiting that could go on.                    *)
(***************************************************************************)
EXTENDS KLightLock, KResourceLimit, FiniteSetTheorems, TLAPS

\* A leaf goes to Zenon, unless it cites the SMT solver for its arithmetic, records
\* or sequences.
USE ZenonT(30)

\* What ties the tag, the wait queue and the program counters together.
Ownership ==
    /\ \A t \in Threads : tag.owner = t => Holding(t)
    /\ tag.owner = NoThread => ~tag.waiters
    /\ \A t \in Threads : pc[t] = "waiting" <=> lockOwner[t] # NoThread
    /\ \A t, w \in Threads : lockOwner[w] = t => Holding(t)
    /\ \A w \in Threads : lockOwner[w] = tag.owner /\ lockOwner[w] # NoThread => tag.waiters
    /\ \A t \in Threads : pc[t] = "slow" => old[t].owner \in Threads /\ old[t].waiters

\* The suspend bits of the state are among the flags that ask for them.
SuspendBits == \A t \in Threads : suspended[t] \subseteq SuspendFlags(t)

IndInv == TypeOK /\ Ownership /\ WaiterCountExact /\ SuspendBits

ExclusiveInv ==
    /\ LockedByHolder
    /\ \A t \in Threads : pc[t] = "waiting" => lockOwner[t] = tag.owner

\* The waiters of a thread are finitely many, so their number is a natural.
LEMMA WaitersFinite ==
    ASSUME NEW S \in SUBSET Threads
    PROVE  IsFiniteSet(S) /\ Cardinality(S) \in Nat
BY ThreadsAssumption, FS_Subset, FS_CardinalityType

\* Taking one element out of a set of threads lowers its cardinality by one.
LEMMA CardinalityRemove ==
    ASSUME NEW S \in SUBSET Threads, NEW x \in S
    PROVE  Cardinality(S \ {x}) = Cardinality(S) - 1
BY WaitersFinite, FS_RemoveElement

\* Adding a new thread to a set of threads raises its cardinality by one.
LEMMA CardinalityAdd ==
    ASSUME NEW S \in SUBSET Threads, NEW x \in Threads, x \notin S
    PROVE  Cardinality(S \cup {x}) = Cardinality(S) + 1
BY WaitersFinite, FS_AddElement

\* The initial state satisfies the inductive invariant.
LEMMA InitIndInv == Init => IndInv
<1> SUFFICES ASSUME Init PROVE IndInv
  OBVIOUS
<1> USE DEF Init
<1>1. TypeOK
  BY MaxLocksAssumption, SMTT(60) DEF TypeOK, Tag, FreeTag
<1>2. Ownership
  BY ThreadsAssumption DEF Ownership, FreeTag, Holding
<1>3. WaiterCountExact
  <2> SUFFICES ASSUME NEW t \in Threads PROVE numKernelWaiters[t] = Cardinality(Waiters(t))
    BY DEF WaiterCountExact
  <2>1. Waiters(t) = {}
    BY ThreadsAssumption DEF Waiters
  <2> QED BY <2>1, FS_EmptySet
<1>4. SuspendBits
  BY DEF SuspendBits, SuspendFlags
<1> QED BY <1>1, <1>2, <1>3, <1>4 DEF IndInv

\* Every step keeps the types; the counts stay natural because they are exact.
LEMMA TypeStep == IndInv /\ [Next]_vars => TypeOK'
<1> SUFFICES ASSUME IndInv, [Next]_vars PROVE TypeOK'
  OBVIOUS
<1> USE ThreadsAssumption, MaxLocksAssumption DEF IndInv, TypeOK, Tag, FreeTag
<1>1. CASE UNCHANGED vars
  BY <1>1 DEF vars, lockVars, waitVars, suspendVars
<1>2. ASSUME NEW t \in Threads, BeginLock(t) PROVE TypeOK'
  BY <1>2, SMTT(60) DEF BeginLock, waitVars, suspendVars
<1>3. ASSUME NEW t \in Threads, Lock(t) PROVE TypeOK'
  BY <1>3 DEF Lock, LockedTag, waitVars, suspendVars
<1>4. ASSUME NEW t \in Threads, LockSlowPathRetry(t) PROVE TypeOK'
  BY <1>4 DEF LockSlowPathRetry, waitVars, suspendVars
<1>5. ASSUME NEW t \in Threads, LockSlowPathWait(t) PROVE TypeOK'
  <2>1. suspended' \in [Threads -> SUBSET SuspendTypes]
    BY <1>5 DEF LockSlowPathWait, ContinueIfHasKernelWaiters
  <2>2. /\ lockOwner' \in [Threads -> Threads \cup {NoThread}]
        /\ numKernelWaiters' \in [Threads -> Nat]
    BY <1>5, SMTT(60) DEF LockSlowPathWait, AddWaiter, Ownership
  <2> QED BY <1>5, <2>1, <2>2 DEF LockSlowPathWait
<1>6. ASSUME NEW t \in Threads, Unlock(t) PROVE TypeOK'
  <2>1. tag' \in Tag
    <3>1. tag \in Tag /\ FreeTag \in Tag
      OBVIOUS
    <3> HIDE DEF IndInv, TypeOK, Tag, FreeTag
    <3> QED BY <1>6, <3>1 DEF Unlock
  <2>2. pc' \in [Threads -> {"idle", "lock", "slow", "waiting", "held", "unlock"}]
    <3>1. pc \in [Threads -> {"idle", "lock", "slow", "waiting", "held", "unlock"}]
      OBVIOUS
    <3> HIDE DEF IndInv, TypeOK, Tag, FreeTag
    <3>2. \/ pc' = [pc EXCEPT ![t] = "idle"]
          \/ pc' = [pc EXCEPT ![t] = "unlock"]
      BY <1>6 DEF Unlock
    <3> QED BY <3>1, <3>2
  <2> QED BY <1>6, <2>1, <2>2 DEF Unlock, waitVars, suspendVars
<1>7. ASSUME NEW t \in Threads, UnlockSlowPathNoWaiter(t) PROVE TypeOK'
  BY <1>7 DEF UnlockSlowPathNoWaiter, TrySuspend, SuspendFlags, waitVars
<1>8. ASSUME NEW t \in Threads, NEW next \in Threads, UnlockSlowPathHandoff(t, next)
      PROVE TypeOK'
  <2>1. /\ Cardinality(Waiters(t)) \in Nat
        /\ Cardinality(Waiters(t) \ {next}) \in Nat
    BY WaitersFinite DEF Waiters
  <2>2. numKernelWaiters[t] = Cardinality(Waiters(t))
    BY DEF WaiterCountExact
  <2>3. numKernelWaiters' \in [Threads -> Nat]
    BY <1>8, <2>1, <2>2, SMTT(60) DEF UnlockSlowPathHandoff, RemoveWaiterByKey, CountsAfterHandoff
  <2>4. lockOwner' \in [Threads -> Threads \cup {NoThread}]
    BY <1>8 DEF UnlockSlowPathHandoff, RemoveWaiterByKey
  <2>5. suspended' \in [Threads -> SUBSET SuspendTypes]
    BY <1>8 DEF UnlockSlowPathHandoff, TrySuspend, ContinueIfHasKernelWaiters, SuspendFlags
  <2> QED BY <1>8, <2>3, <2>4, <2>5 DEF UnlockSlowPathHandoff, HandoffTag
<1>9. ASSUME NEW t \in Threads, NEW type \in SuspendTypes,
             RequestSuspend(t, type) \/ Resume(t, type)
      PROVE TypeOK'
  <2>1. suspended' \in [Threads -> SUBSET SuspendTypes]
    BY <1>9, SMTT(60) DEF RequestSuspend, Resume
  <2> QED BY <1>9, <2>1, SMTT(60) DEF RequestSuspend, Resume, lockVars, waitVars
<1>10. ASSUME NEW t \in Threads, RequestTerminate(t) PROVE TypeOK'
  <2>1. CASE pc[t] = "waiting"
    <3>1. lockOwner[t] \in Threads /\ t \in Waiters(lockOwner[t])
      BY <2>1 DEF Ownership, Waiters
    <3>2. numKernelWaiters[lockOwner[t]] = Cardinality(Waiters(lockOwner[t]))
      BY <3>1 DEF WaiterCountExact
    <3>3. /\ Cardinality(Waiters(lockOwner[t]) \ {t}) = Cardinality(Waiters(lockOwner[t])) - 1
          /\ Cardinality(Waiters(lockOwner[t]) \ {t}) \in Nat
      BY <3>1, CardinalityRemove, WaitersFinite DEF Waiters
    <3>4. numKernelWaiters[lockOwner[t]] - 1 \in Nat
      BY <3>2, <3>3
    <3>5. /\ numKernelWaiters' \in [Threads -> Nat]
          /\ lockOwner' \in [Threads -> Threads \cup {NoThread}]
      BY <1>10, <2>1, <3>1, <3>4, SMTT(60) DEF RequestTerminate, RemoveWaiter
    <3>6. /\ suspendAllowed' \in [Threads -> BOOLEAN]
          /\ suspended' \in [Threads -> SUBSET SuspendTypes]
      BY <1>10 DEF RequestTerminate
    <3> QED BY <1>10, <2>1, <3>5, <3>6 DEF RequestTerminate
  <2>2. CASE pc[t] # "waiting"
    BY <1>10, <2>2 DEF RequestTerminate, waitVars
  <2> QED BY <2>1, <2>2
<1> QED BY <1>1, <1>2, <1>3, <1>4, <1>5, <1>6, <1>7, <1>8, <1>9, <1>10
         DEF Next, ThreadStep, Environment

\* Every step keeps the tag, the queue and the program counters tied together.
LEMMA OwnershipStep == IndInv /\ [Next]_vars => Ownership'
<1> SUFFICES ASSUME IndInv, [Next]_vars PROVE Ownership'
  OBVIOUS
<1> USE ThreadsAssumption DEF IndInv, TypeOK, Tag, FreeTag, Ownership, Holding
<1>1. CASE UNCHANGED vars
  BY <1>1 DEF vars, lockVars, waitVars, suspendVars
<1>2. ASSUME NEW t \in Threads, BeginLock(t) PROVE Ownership'
  BY <1>2, SMTT(60) DEF BeginLock, waitVars, suspendVars
<1>3. ASSUME NEW t \in Threads, Lock(t) PROVE Ownership'
  BY <1>3, SMTT(60) DEF Lock, LockedTag, waitVars, suspendVars
<1>4. ASSUME NEW t \in Threads, LockSlowPathRetry(t) PROVE Ownership'
  BY <1>4, SMTT(60) DEF LockSlowPathRetry, waitVars, suspendVars
<1>5. ASSUME NEW t \in Threads, LockSlowPathWait(t) PROVE Ownership'
  BY <1>5, SMTT(60) DEF LockSlowPathWait, AddWaiter, TagUnchanged
<1>6. ASSUME NEW t \in Threads, Unlock(t) PROVE Ownership'
  BY <1>6, SMTT(60) DEF Unlock, waitVars, suspendVars
<1>7. ASSUME NEW t \in Threads, UnlockSlowPathNoWaiter(t) PROVE Ownership'
  BY <1>7, SMTT(60) DEF UnlockSlowPathNoWaiter, Waiters, waitVars
<1>8. ASSUME NEW t \in Threads, NEW next \in Threads, UnlockSlowPathHandoff(t, next)
      PROVE Ownership'
  <2>1. /\ tag' = [owner |-> next, waiters |-> Waiters(t) # {next}]
        /\ pc' = [pc EXCEPT ![t] = "idle", ![next] = "held"]
        /\ lockOwner' = [w \in Threads |->
                           IF w = next THEN NoThread
                           ELSE IF lockOwner[w] = t THEN next ELSE lockOwner[w]]
        /\ old' = old
        /\ lockOwner[next] = t /\ lockOwner[t] = NoThread
        /\ pc[t] = "unlock" /\ pc[next] = "waiting"
    BY <1>8 DEF UnlockSlowPathHandoff, RemoveWaiterByKey, HandoffTag, Waiters
  <2>2. \A w \in Threads : lockOwner'[w] = next => w \in Waiters(t) /\ w # next
    BY <2>1 DEF Waiters
  <2>3. tag'.owner = next /\ (tag'.waiters <=> Waiters(t) # {next})
    BY <2>1
  <2>4. \A u \in Threads : tag'.owner = u => Holding(u)'
    BY <2>1, <2>3
  <2>5. \A u \in Threads : pc'[u] = "waiting" <=> lockOwner'[u] # NoThread
    BY <2>1, SMTT(60)
  <2>6. \A u, w \in Threads : lockOwner'[w] = u => Holding(u)'
    BY <2>1, SMTT(60)
  <2>7. \A w \in Threads :
          lockOwner'[w] = tag'.owner /\ lockOwner'[w] # NoThread => tag'.waiters
    BY <2>2, <2>3
  <2>8. \A u \in Threads : pc'[u] = "slow" => old'[u].owner \in Threads /\ old'[u].waiters
    BY <2>1
  <2> QED BY <2>3, <2>4, <2>5, <2>6, <2>7, <2>8, SMTT(60)
<1>9. ASSUME NEW t \in Threads, NEW type \in SuspendTypes,
             RequestSuspend(t, type) \/ Resume(t, type)
      PROVE Ownership'
  BY <1>9, SMTT(60) DEF RequestSuspend, Resume, lockVars, waitVars
<1>10. ASSUME NEW t \in Threads, RequestTerminate(t) PROVE Ownership'
  <2>1. CASE pc[t] = "waiting"
    <3>1. /\ lockOwner' = [lockOwner EXCEPT ![t] = NoThread]
          /\ pc' = [pc EXCEPT ![t] = "held"]
          /\ tag' = tag /\ old' = old
      BY <1>10, <2>1 DEF RequestTerminate, RemoveWaiter
    <3> QED BY <2>1, <3>1, SMTT(60)
  <2>2. CASE pc[t] # "waiting"
    BY <1>10, <2>2, SMTT(60) DEF RequestTerminate, waitVars
  <2> QED BY <2>1, <2>2
<1> QED BY <1>1, <1>2, <1>3, <1>4, <1>5, <1>6, <1>7, <1>8, <1>9, <1>10
         DEF Next, ThreadStep, Environment

\* The kernel-waiter counts stay exact.
LEMMA CountStep == IndInv /\ [Next]_vars => WaiterCountExact'
<1> SUFFICES ASSUME IndInv, [Next]_vars PROVE WaiterCountExact'
  OBVIOUS
<1> USE ThreadsAssumption
<1>0. /\ numKernelWaiters \in [Threads -> Nat]
      /\ lockOwner \in [Threads -> Threads \cup {NoThread}]
      /\ \A u \in Threads : numKernelWaiters[u] = Cardinality(Waiters(u))
      /\ \A u \in Threads : Waiters(u) \in SUBSET Threads
      /\ \A u \in Threads : Waiters(u)' = {w \in Threads : lockOwner'[w] = u}
  BY DEF IndInv, TypeOK, WaiterCountExact, Waiters
<1>1. CASE UNCHANGED waitVars
  BY <1>0, <1>1, SMTT(60) DEF waitVars, WaiterCountExact, Waiters
<1>2. ASSUME NEW t \in Threads, LockSlowPathWait(t) PROVE WaiterCountExact'
  <2>0. old[t].owner \in Threads /\ lockOwner[t] = NoThread
    BY <1>2 DEF LockSlowPathWait, IndInv, Ownership
  <2>1. PICK owner \in Threads : owner = old[t].owner /\ lockOwner[t] = NoThread
    BY <2>0
  <2>2. /\ lockOwner' = [lockOwner EXCEPT ![t] = owner]
        /\ numKernelWaiters' = [numKernelWaiters EXCEPT ![owner] = @ + 1]
    BY <1>2, <2>1 DEF LockSlowPathWait, AddWaiter
  <2>3. t \notin Waiters(owner)
    BY <2>1 DEF Waiters
  <2>4. Waiters(owner)' = Waiters(owner) \cup {t}
    BY <1>0, <2>1, <2>2 DEF Waiters
  <2>5. Cardinality(Waiters(owner)') = Cardinality(Waiters(owner)) + 1
    BY <1>0, <2>1, <2>3, <2>4, CardinalityAdd
  <2>6. \A u \in Threads \ {owner} : Waiters(u)' = Waiters(u)
    BY <1>0, <2>1, <2>2 DEF Waiters
  <2> QED BY <1>0, <2>1, <2>2, <2>5, <2>6 DEF WaiterCountExact
<1>3. ASSUME NEW t \in Threads, NEW next \in Threads, UnlockSlowPathHandoff(t, next)
      PROVE WaiterCountExact'
  <2>1. next \in Waiters(t) /\ lockOwner[t] = NoThread /\ t # next
    BY <1>3 DEF UnlockSlowPathHandoff, IndInv, Ownership, Waiters
  <2>2. Waiters(next) = {}
    BY <2>1 DEF IndInv, Ownership, Holding, Waiters
  <2>3. /\ lockOwner' = [w \in Threads |->
                           IF w = next THEN NoThread
                           ELSE IF lockOwner[w] = t THEN next ELSE lockOwner[w]]
        /\ numKernelWaiters' = CountsAfterHandoff(t, next)
    BY <1>3 DEF UnlockSlowPathHandoff, RemoveWaiterByKey
  <2>4. Waiters(t)' = {} /\ Waiters(next)' = Waiters(t) \ {next}
    BY <1>0, <2>1, <2>2, <2>3 DEF Waiters
  <2>5. \A u \in Threads \ {t, next} : Waiters(u)' = Waiters(u)
    BY <1>0, <2>1, <2>2, <2>3 DEF Waiters
  <2>6. /\ Cardinality({}) = 0
        /\ Cardinality(Waiters(t)) \in Nat
        /\ Cardinality(Waiters(t) \ {next}) \in Nat
        /\ numKernelWaiters[next] = 0
    BY <1>0, <2>2, WaitersFinite, FS_EmptySet
  <2>7. /\ numKernelWaiters'[t] = 0
        /\ numKernelWaiters'[next] = Cardinality(Waiters(t) \ {next})
        /\ \A u \in Threads \ {t, next} : numKernelWaiters'[u] = numKernelWaiters[u]
    BY <1>0, <2>1, <2>3, <2>6, SMTT(60) DEF CountsAfterHandoff
  <2> QED BY <1>0, <2>4, <2>5, <2>6, <2>7 DEF WaiterCountExact
<1>4. ASSUME NEW t \in Threads, RequestTerminate(t), pc[t] = "waiting" PROVE WaiterCountExact'
  <2>0. lockOwner[t] \in Threads
    BY <1>0, <1>4 DEF IndInv, Ownership
  <2>1. PICK owner \in Threads : owner = lockOwner[t] /\ t \in Waiters(owner)
    BY <2>0 DEF Waiters
  <2>2. /\ lockOwner' = [lockOwner EXCEPT ![t] = NoThread]
        /\ numKernelWaiters' = [numKernelWaiters EXCEPT ![owner] = @ - 1]
    BY <1>4, <2>1 DEF RequestTerminate, RemoveWaiter
  <2>3. /\ Waiters(owner)' = Waiters(owner) \ {t}
        /\ \A u \in Threads \ {owner} : Waiters(u)' = Waiters(u)
    BY <1>0, <2>1, <2>2 DEF Waiters
  <2>4. Cardinality(Waiters(owner)') = Cardinality(Waiters(owner)) - 1
    BY <1>0, <2>1, <2>3, CardinalityRemove
  <2> QED BY <1>0, <2>1, <2>2, <2>3, <2>4 DEF WaiterCountExact
<1>5. ASSUME NEW t \in Threads, RequestTerminate(t), pc[t] # "waiting" PROVE UNCHANGED waitVars
  BY <1>5 DEF RequestTerminate
<1> QED BY <1>1, <1>2, <1>3, <1>4, <1>5
         DEF Next, ThreadStep, Environment, vars, BeginLock, Lock, LockSlowPathRetry, Unlock,
             UnlockSlowPathNoWaiter, RequestSuspend, Resume

\* A step never leaves a suspend bit set that no flag asks for.
LEMMA SuspendBitsStep == IndInv /\ [Next]_vars => SuspendBits'
<1> SUFFICES ASSUME IndInv, [Next]_vars PROVE SuspendBits'
  OBVIOUS
<1> USE DEF IndInv, TypeOK, SuspendBits, SuspendFlags
<1>1. CASE UNCHANGED suspendVars
  BY <1>1 DEF suspendVars
<1>2. ASSUME NEW t \in Threads, LockSlowPathWait(t) PROVE SuspendBits'
  BY <1>2 DEF LockSlowPathWait, ContinueIfHasKernelWaiters
<1>3. ASSUME NEW t \in Threads, UnlockSlowPathNoWaiter(t) PROVE SuspendBits'
  BY <1>3 DEF UnlockSlowPathNoWaiter, TrySuspend
<1>4. ASSUME NEW t \in Threads, NEW next \in Threads, UnlockSlowPathHandoff(t, next)
      PROVE SuspendBits'
  BY <1>4 DEF UnlockSlowPathHandoff, TrySuspend, ContinueIfHasKernelWaiters
<1>5. ASSUME NEW t \in Threads, NEW type \in SuspendTypes, RequestSuspend(t, type)
      PROVE SuspendBits'
  BY <1>5 DEF RequestSuspend
<1>6. ASSUME NEW t \in Threads, NEW type \in SuspendTypes, Resume(t, type) PROVE SuspendBits'
  BY <1>6 DEF Resume
<1>7. ASSUME NEW t \in Threads, RequestTerminate(t) PROVE SuspendBits'
  BY <1>7 DEF RequestTerminate, IsSuspended
<1> QED BY <1>1, <1>2, <1>3, <1>4, <1>5, <1>6, <1>7
         DEF Next, ThreadStep, Environment, vars, BeginLock, Lock, LockSlowPathRetry, Unlock

\* The inductive invariant holds in every reachable state of the lock, whatever
\* is suspended, resumed or terminated.
THEOREM IndInvHolds == Spec => []IndInv
<1>1. IndInv /\ [Next]_vars => IndInv'
  BY TypeStep, OwnershipStep, CountStep, SuspendBitsStep DEF IndInv
<1> QED BY <1>1, InitIndInv, PTL DEF Spec

\* Type correctness of KLightLock.
THEOREM TypeCorrect == Spec => []TypeOK
<1>1. IndInv => TypeOK
  BY DEF IndInv
<1> QED BY <1>1, IndInvHolds, PTL

\* m_num_kernel_waiters is exact, terminated waiters included.
THEOREM WaiterCountsCorrect == Spec => []WaiterCountExact
<1>1. IndInv => WaiterCountExact
  BY DEF IndInv
<1> QED BY <1>1, IndInvHolds, PTL

\* A step keeps the holder and the owner in the tag the same thread when no
\* thread is terminated while it waits.
LEMMA ExclusiveStep ==
    ASSUME CancelsWaits = FALSE
    PROVE  IndInv /\ ExclusiveInv /\ [Next]_vars => ExclusiveInv'
<1> SUFFICES ASSUME IndInv, ExclusiveInv, [Next]_vars PROVE ExclusiveInv'
  OBVIOUS
<1> USE ThreadsAssumption DEF IndInv, TypeOK, Tag, FreeTag, Ownership, Holding,
                              ExclusiveInv, LockedByHolder
<1>1. CASE UNCHANGED vars
  BY <1>1 DEF vars, lockVars, waitVars
<1>2. ASSUME NEW t \in Threads, BeginLock(t) PROVE ExclusiveInv'
  BY <1>2, SMTT(60) DEF BeginLock, waitVars
<1>3. ASSUME NEW t \in Threads, Lock(t) PROVE ExclusiveInv'
  BY <1>3, SMTT(60) DEF Lock, LockedTag, waitVars
<1>4. ASSUME NEW t \in Threads, LockSlowPathRetry(t) PROVE ExclusiveInv'
  BY <1>4, SMTT(60) DEF LockSlowPathRetry, waitVars
<1>5. ASSUME NEW t \in Threads, LockSlowPathWait(t) PROVE ExclusiveInv'
  <2>1. /\ pc' = [pc EXCEPT ![t] = "waiting"] /\ tag' = tag
        /\ lockOwner' = [lockOwner EXCEPT ![t] = tag.owner]
    BY <1>5 DEF LockSlowPathWait, AddWaiter, TagUnchanged
  <2>2. DOMAIN pc = Threads /\ DOMAIN lockOwner = Threads
    OBVIOUS
  <2> HIDE DEF IndInv
  <2> QED BY <2>1, <2>2
<1>6. ASSUME NEW t \in Threads, Unlock(t) PROVE ExclusiveInv'
  BY <1>6, SMTT(60) DEF Unlock, waitVars
<1>7. ASSUME NEW t \in Threads, UnlockSlowPathNoWaiter(t) PROVE ExclusiveInv'
  BY <1>7, SMTT(60) DEF UnlockSlowPathNoWaiter, Waiters, waitVars
<1>8. ASSUME NEW t \in Threads, NEW next \in Threads, UnlockSlowPathHandoff(t, next)
      PROVE ExclusiveInv'
  <2>1. /\ tag'.owner = next /\ tag.owner = t
        /\ pc' = [pc EXCEPT ![t] = "idle", ![next] = "held"]
        /\ lockOwner' = [w \in Threads |->
                           IF w = next THEN NoThread
                           ELSE IF lockOwner[w] = t THEN next ELSE lockOwner[w]]
    BY <1>8 DEF UnlockSlowPathHandoff, RemoveWaiterByKey, HandoffTag
  <2>a. DOMAIN pc = Threads /\ \A w \in Threads : pc[w] = "waiting" => lockOwner[w] = t
    BY <2>1
  <2> HIDE DEF IndInv
  <2>2. \A u \in Threads : Holding(u)' => u = next
    <3> SUFFICES ASSUME NEW u \in Threads, u # next, u # t, Holding(u)'  PROVE FALSE
      BY <2>1, <2>a
    <3>1. pc'[u] = pc[u]
      BY <2>1, <2>a
    <3> QED BY <2>1, <3>1
  <2>3. \A u \in Threads : pc'[u] = "waiting" => lockOwner'[u] = next
    BY <2>1, <2>a
  <2> QED BY <2>1, <2>2, <2>3
<1>9. ASSUME NEW t \in Threads, NEW type \in SuspendTypes,
             RequestSuspend(t, type) \/ Resume(t, type)
      PROVE ExclusiveInv'
  BY <1>9 DEF RequestSuspend, Resume, lockVars, waitVars
<1>10. ASSUME NEW t \in Threads, RequestTerminate(t) PROVE ExclusiveInv'
  BY <1>10 DEF RequestTerminate, waitVars
<1> QED BY <1>1, <1>2, <1>3, <1>4, <1>5, <1>6, <1>7, <1>8, <1>9, <1>10
         DEF Next, ThreadStep, Environment

\* When waits are not cancelled, ExclusiveInv is an invariant.
LEMMA ExclusiveHolds ==
    ASSUME CancelsWaits = FALSE
    PROVE  Spec => []ExclusiveInv
<1>1. Init => ExclusiveInv
  BY DEF Init, ExclusiveInv, LockedByHolder, Holding
<1> QED BY <1>1, IndInvHolds, ExclusiveStep, PTL DEF Spec

\* Mutual exclusion: a thread that Lock returned to is the owner in the tag,
\* whatever the threads, the suspensions and the terminations, as long as no
\* thread is terminated while it waits for the lock.
THEOREM MutualExclusion ==
    ASSUME CancelsWaits = FALSE
    PROVE  Spec => []LockedByHolder
<1>1. ExclusiveInv => LockedByHolder
  BY DEF ExclusiveInv
<1> QED BY <1>1, ExclusiveHolds, PTL

\* A waiter is always registered with the present holder, whose Unlock must take
\* the slow path.
THEOREM WakeupNotLost ==
    ASSUME CancelsWaits = FALSE
    PROVE  Spec => []NoLostWakeup
<1>1. IndInv /\ ExclusiveInv => NoLostWakeup
  BY DEF IndInv, TypeOK, Tag, Ownership, ExclusiveInv, NoLostWakeup
<1> QED BY <1>1, IndInvHolds, ExclusiveHolds, PTL

\* Whatever reasons the environment suspends and resumes threads for, only a
\* Resume that lifts one of them can hold back a thread that others wait for,
\* and whoever joins the waiters lifts the suspension again.
THEOREM OwnerRuns == Spec => OwnerKeptRunning
<1>1. IndInv /\ [Next]_vars => [AllKeptRunning]_vars
  <2> SUFFICES ASSUME IndInv, Next, NEW u \in Threads PROVE KeptRunning(u)
    BY DEF AllKeptRunning
  <2> USE DEF KeptRunning
  <2>0. /\ numKernelWaiters \in [Threads -> Nat]
        /\ suspended \in [Threads -> SUBSET SuspendTypes]
        /\ \A t \in Threads : ~IsSuspended(t) => suspended[t] = {}
    BY DEF IndInv, TypeOK, SuspendBits, IsSuspended
  <2>a. numKernelWaiters[u] <= numKernelWaiters[u]
    BY <2>0, SMTT(30)
  <2>1. CASE UNCHANGED <<waitVars, suspended>>
    BY <2>1, <2>a DEF waitVars, HeldBack
  <2>2. ASSUME NEW t \in Threads, LockSlowPathWait(t) PROVE KeptRunning(u)
    <3>1. old[t].owner \in Threads
      BY <2>2 DEF LockSlowPathWait, IndInv, Ownership
    <3>2. CASE u = old[t].owner
      BY <2>2, <2>0, <3>1, <3>2
         DEF LockSlowPathWait, AddWaiter, ContinueIfHasKernelWaiters, HeldBack
    <3>3. CASE u # old[t].owner
      BY <2>2, <2>0, <2>a, <3>1, <3>3
         DEF LockSlowPathWait, AddWaiter, ContinueIfHasKernelWaiters, HeldBack
    <3> QED BY <3>2, <3>3
  <2>3. ASSUME NEW t \in Threads, UnlockSlowPathNoWaiter(t) PROVE KeptRunning(u)
    BY <2>3, <2>0, SMTT(60) DEF UnlockSlowPathNoWaiter, TrySuspend, waitVars, HeldBack
  <2>4. ASSUME NEW t \in Threads, NEW next \in Threads, UnlockSlowPathHandoff(t, next)
        PROVE KeptRunning(u)
    <3> DEFINE cont == ContinueIfHasKernelWaiters(suspended, numKernelWaiters', next)
    <3>1. suspended' = TrySuspend(cont, numKernelWaiters', t)
      BY <2>4 DEF UnlockSlowPathHandoff
    <3>2. /\ cont \in [Threads -> SUBSET SuspendTypes]
          /\ \A w \in Threads \ {next} : cont[w] = suspended[w]
          /\ numKernelWaiters'[next] > 0 => cont[next] = {}
      BY <2>0 DEF ContinueIfHasKernelWaiters
    <3>3. numKernelWaiters'[u] > 0 => suspended'[u] = cont[u]
      <4> HIDE DEF cont
      <4> QED BY <3>1, <3>2, SMTT(60) DEF TrySuspend
    <3>4. \A w \in Threads \ {t, next} : numKernelWaiters'[w] = numKernelWaiters[w]
      BY <2>4, <2>0 DEF UnlockSlowPathHandoff, RemoveWaiterByKey, CountsAfterHandoff
    <3>5. t # next => numKernelWaiters'[t] = 0
      <4>1. /\ numKernelWaiters[t] = Cardinality(Waiters(t))
            /\ Cardinality(Waiters(t)) \in Nat
        BY WaitersFinite DEF IndInv, WaiterCountExact, Waiters
      <4> QED BY <2>4, <2>0, <4>1, SMTT(60)
              DEF UnlockSlowPathHandoff, RemoveWaiterByKey, CountsAfterHandoff
    <3> HIDE DEF cont
    <3> QED BY <2>0, <3>2, <3>3, <3>4, <3>5, SMTT(60) DEF HeldBack
  <2>5. ASSUME NEW t \in Threads, NEW type \in SuspendTypes, RequestSuspend(t, type)
        PROVE KeptRunning(u)
    BY <2>5, <2>0, SMTT(60) DEF RequestSuspend, waitVars, HeldBack
  <2>6. ASSUME NEW t \in Threads, NEW type \in SuspendTypes, Resume(t, type)
        PROVE KeptRunning(u)
    <3>1. CASE u = t
      <4>1. type \in suspendRequested[u] \ suspendRequested'[u]
        BY <2>6, <3>1 DEF Resume, IndInv, TypeOK
      <4> QED BY <4>1
    <3>2. CASE u # t
      BY <2>6, <2>0, <2>a, <3>2 DEF Resume, waitVars, HeldBack
    <3> QED BY <3>1, <3>2
  <2>7. ASSUME NEW t \in Threads, RequestTerminate(t) PROVE KeptRunning(u)
    <3>1. suspended'[u] \in {suspended[u], {}}
      BY <2>7, <2>0 DEF RequestTerminate
    <3>2. numKernelWaiters'[u] > 0 =>
              numKernelWaiters[u] > 0 /\ numKernelWaiters'[u] <= numKernelWaiters[u]
      BY <2>7, <2>0, SMTT(60) DEF RequestTerminate, RemoveWaiter, waitVars
    <3> QED BY <3>1, <3>2 DEF HeldBack
  <2> HIDE DEF KeptRunning
  <2> QED BY <2>1, <2>2, <2>3, <2>4, <2>5, <2>6, <2>7
           DEF Next, ThreadStep, Environment, suspendVars, BeginLock, Lock,
               LockSlowPathRetry, Unlock
<1> QED BY <1>1, IndInvHolds, PTL DEF Spec, OwnerKeptRunning

\* KLightLock implements the abstract mutex: a compare-and-swap that finds the
\* tag free acquires, the two ways to release release, a handoff hands over and
\* every other step is invisible.
THEOREM LightLockIsMutex ==
    ASSUME CancelsWaits = FALSE
    PROVE  Spec => ImplementsMutex
<1>1. Init => Abstract!Init
  BY SMTT(60) DEF Init, Abstract!Init, MutexHolder, MutexWant, FreeTag
<1>2. IndInv /\ ExclusiveInv /\ [Next]_vars => [Abstract!Next]_(Abstract!vars)
  <2> SUFFICES ASSUME IndInv, ExclusiveInv, [Next]_vars
               PROVE  Abstract!Next \/ UNCHANGED <<MutexHolder, MutexWant>>
    BY DEF Abstract!vars
  <2> USE ThreadsAssumption DEF IndInv, TypeOK, Tag, FreeTag, MutexHolder, MutexWant
  <2>1. CASE UNCHANGED <<tag, pc>>
    BY <2>1
  <2>2. ASSUME NEW t \in Threads, BeginLock(t) PROVE Abstract!Request(t)
    <3>1. /\ tag' = tag /\ pc[t] = "idle" /\ pc'[t] = "lock"
          /\ \A w \in Threads \ {t} : pc'[w] = pc[w]
      BY <2>2 DEF BeginLock
    <3>2. tag.owner # t
      BY <3>1 DEF Ownership, Holding
    <3> HIDE DEF IndInv, TypeOK
    <3> QED BY <3>1, <3>2 DEF Abstract!Request
  <2>3. ASSUME NEW t \in Threads, Lock(t), tag = FreeTag PROVE Abstract!Acquire(t)
    BY <2>3 DEF Lock, LockedTag, Abstract!Acquire
  <2>4. ASSUME NEW t \in Threads, Lock(t), tag # FreeTag
        PROVE UNCHANGED <<MutexHolder, MutexWant>>
    BY <2>4 DEF Lock, LockedTag
  <2>5. ASSUME NEW t \in Threads, LockSlowPathRetry(t) \/ LockSlowPathWait(t)
        PROVE UNCHANGED <<MutexHolder, MutexWant>>
    BY <2>5 DEF LockSlowPathRetry, LockSlowPathWait
  <2>6. ASSUME NEW t \in Threads, Unlock(t), tag = [owner |-> t, waiters |-> FALSE]
        PROVE Abstract!Release(t)
    <3>1. MutexHolder = t /\ MutexHolder' = NoThread /\ MutexWant' = MutexWant \cup {}
      BY <2>6, SMTT(60) DEF Unlock
    <3> QED BY <3>1, {} \in SUBSET {t} DEF Abstract!Release
  <2>7. ASSUME NEW t \in Threads, Unlock(t), tag # [owner |-> t, waiters |-> FALSE]
        PROVE UNCHANGED <<MutexHolder, MutexWant>>
    BY <2>7 DEF Unlock
  <2>8. ASSUME NEW t \in Threads, UnlockSlowPathNoWaiter(t) PROVE Abstract!Release(t)
    <3>1. tag.owner = t
      BY <2>8 DEF UnlockSlowPathNoWaiter, ExclusiveInv, LockedByHolder, Holding
    <3>2. MutexHolder = t /\ MutexHolder' = NoThread /\ MutexWant' = MutexWant \cup {}
      BY <2>8, <3>1 DEF UnlockSlowPathNoWaiter
    <3> QED BY <3>2, {} \in SUBSET {t} DEF Abstract!Release
  <2>9. ASSUME NEW t \in Threads, NEW next \in Threads, UnlockSlowPathHandoff(t, next)
        PROVE Abstract!Handoff(t, next)
    <3>1. tag.owner = t /\ pc[next] = "waiting" /\ tag'.owner = next
      <4>1. tag.owner = t /\ tag'.owner = next
        BY <2>9 DEF UnlockSlowPathHandoff, HandoffTag, ExclusiveInv, LockedByHolder, Holding
      <4>2. lockOwner[next] # NoThread
        BY <2>9 DEF UnlockSlowPathHandoff, Waiters
      <4> QED BY <4>1, <4>2 DEF Ownership
    <3>2. pc' = [pc EXCEPT ![t] = "idle", ![next] = "held"] /\ pc[t] = "unlock"
      BY <2>9 DEF UnlockSlowPathHandoff
    <3>3. MutexWant' = (MutexWant \ {next}) \cup {}
      BY <3>1, <3>2
    <3> QED BY <3>1, <3>2, <3>3, {} \in SUBSET {t} DEF Abstract!Handoff
  <2>10. ASSUME NEW t \in Threads, Environment(t) PROVE UNCHANGED <<tag, pc>>
    BY <2>10 DEF Environment, RequestSuspend, Resume, RequestTerminate, lockVars
  <2> QED BY <2>1, <2>2, <2>3, <2>4, <2>5, <2>6, <2>7, <2>8, <2>9, <2>10
           DEF Next, ThreadStep, Abstract!Next, vars, lockVars
<1> QED BY <1>1, <1>2, IndInvHolds, ExclusiveHolds, PTL DEF Spec, ImplementsMutex, Abstract!Spec
-----------------------------------------------------------------------------
(* The resource limit.                                                     *)

\* The greatest value of a counter.
LEMMA MaxSNat == MaxS \in Nat
BY WidthAssumption, SMTT(60) DEF MaxS

\* WrappingAdd of two values wraps to a negative number, once.
LEMMA WrappingAddSum ==
    ASSUME NEW a \in Values, NEW b \in Values
    PROVE  WrappingAdd(a, b) = IF a + b <= MaxS THEN a + b ELSE a + b - 2 * (MaxS + 1)
<1> DEFINE M == 2 * (MaxS + 1)
           x == a + b + MaxS + 1
<1>1. M \in Nat \ {0} /\ x \in Nat /\ a \in Nat /\ b \in Nat /\ MaxS \in Nat /\ a <= MaxS /\ b <= MaxS
  BY MaxSNat, SMTT(60) DEF Values
<1>2. x % M = IF x < M THEN x ELSE x - M
  BY <1>1, SMTT(60)
<1> QED BY <1>1, <1>2, SMTT(60) DEF WrappingAdd
-----------------------------------------------------------------------------
(* What the threads have together.                                          *)

\* The n numbers after m.
LEMMA IntervalSize ==
    ASSUME NEW m \in Nat, NEW n \in Nat
    PROVE  IsFiniteSet(m + 1 .. m + n) /\ Cardinality(m + 1 .. m + n) = n
<1>1. /\ IsFiniteSet(m + 1 .. m + n)
      /\ Cardinality(m + 1 .. m + n) = IF m + 1 > m + n THEN 0 ELSE m + n - (m + 1) + 1
  BY FS_Interval, SMTT(60)
<1> QED BY <1>1, SMTT(60)

\* n units of one thread.
LEMMA UnitsOfOne ==
    ASSUME NEW t, NEW S, IsFiniteSet(S)
    PROVE  IsFiniteSet({t} \X S) /\ Cardinality({t} \X S) = Cardinality(S)
<1>1. IsFiniteSet({t}) /\ Cardinality({t}) = 1
  BY FS_Singleton
<1>2. IsFiniteSet({t} \X S) /\ Cardinality({t} \X S) = Cardinality({t}) * Cardinality(S)
  BY <1>1, FS_Product
<1>3. Cardinality(S) \in Nat
  BY FS_CardinalityType
<1> QED BY <1>1, <1>2, <1>3, SMTT(60)

\* Thread t has n more in g than in f, and so have the threads together.
LEMMA MoreTotal ==
    ASSUME NEW f, NEW g, NEW t \in Reservers, NEW n \in Nat,
           f[t] \in Nat, g[t] = f[t] + n, \A u \in Reservers \ {t} : g[u] = f[u],
           IsFiniteSet(Units(f)) \/ IsFiniteSet(Units(g))
    PROVE  /\ IsFiniteSet(Units(f)) /\ IsFiniteSet(Units(g))
           /\ Total(f) \in Nat /\ Total(g) = Total(f) + n
<1>0. PICK m \in Nat : m = f[t]
  OBVIOUS
<1> DEFINE D == {t} \X (m + 1 .. m + n)
<1>1. Units(g) = Units(f) \cup D /\ Units(f) \cap D = {}
  <2>1. 1 .. m + n = (1 .. m) \cup (m + 1 .. m + n) /\ (1 .. m) \cap (m + 1 .. m + n) = {}
    BY SMTT(60)
  <2>2. \A h, x : x \in Units(h) <=> \E u \in Reservers : x \in {u} \X (1 .. h[u])
    BY DEF Units
  <2>3. {t} \X (1 .. g[t]) = ({t} \X (1 .. f[t])) \cup D
    BY <1>0, <2>1
  <2>4. \A u \in Reservers \ {t} : {u} \X (1 .. g[u]) = {u} \X (1 .. f[u])
    OBVIOUS
  <2>5. \A u \in Reservers : ({u} \X (1 .. f[u])) \cap D = {}
    BY <1>0, <2>1
  <2> HIDE DEF D
  <2>6. \A x : x \in Units(g) => x \in Units(f) \cup D
    BY <2>2, <2>3, <2>4
  <2>7. \A x : x \in Units(f) \cup D => x \in Units(g)
    BY <2>2, <2>3, <2>4
  <2>8. Units(f) \cap D = {}
    BY <2>2, <2>5
  <2> QED BY <2>6, <2>7, <2>8
<1>2. IsFiniteSet(D) /\ Cardinality(D) = n
  <2>1. IsFiniteSet(m + 1 .. m + n) /\ Cardinality(m + 1 .. m + n) = n
    BY <1>0, IntervalSize
  <2>2. IsFiniteSet(D) /\ Cardinality(D) = Cardinality(m + 1 .. m + n)
    BY <2>1, UnitsOfOne
  <2> QED BY <2>1, <2>2
<1> HIDE DEF D
<1>3. IsFiniteSet(Units(f))
  <2>1. CASE IsFiniteSet(Units(g))
    <3>1. Units(f) \in SUBSET Units(g)
      BY <1>1
    <3> QED BY <2>1, <3>1, FS_Subset
  <2> QED BY <2>1
<1>4. /\ IsFiniteSet(Units(f) \cup D)
      /\ Cardinality(Units(f) \cup D) = Cardinality(Units(f)) + Cardinality(D) - Cardinality(Units(f) \cap D)
  BY <1>2, <1>3, FS_Union
<1>5. Cardinality(Units(f)) \in Nat /\ Cardinality(Units(f) \cap D) = 0
  BY <1>1, <1>3, FS_CardinalityType, FS_EmptySet
<1> QED BY <1>1, <1>2, <1>3, <1>4, <1>5, SMTT(60) DEF Total

\* Who has less of everything has less together.
LEMMA LessTotal ==
    ASSUME NEW f \in [Reservers -> Nat], NEW g \in [Reservers -> Nat],
           \A t \in Reservers : f[t] <= g[t], IsFiniteSet(Units(g))
    PROVE  Total(f) <= Total(g)
<1>1. \A t \in Reservers : {t} \X (1 .. f[t]) \subseteq {t} \X (1 .. g[t])
  BY SMTT(60)
<1>2. Units(f) \in SUBSET Units(g)
  BY <1>1, SMTT(60) DEF Units
<1> QED BY <1>2, FS_Subset DEF Total
-----------------------------------------------------------------------------
(* The counters.                                                            *)

Types ==
    /\ limit \in Values /\ current \in Nat /\ hint \in Nat /\ peak \in Nat
    /\ at \in [Reservers -> {"idle", "waiting", "woken", "spinning"}]
    /\ want \in [Reservers -> Values]
    /\ owned \in [Reservers -> Nat] /\ ownedHint \in [Reservers -> Nat]

Holdings ==
    /\ IsFiniteSet(Units(owned)) /\ IsFiniteSet(Units(ownedHint))
    /\ \A t \in Reservers : ownedHint[t] <= owned[t]

AccountInv == Types /\ Holdings /\ Accounted

\* Nobody has reserved anything.
LEMMA AccountInit == LimitInit => AccountInv
<1> SUFFICES ASSUME LimitInit PROVE AccountInv
  OBVIOUS
<1>1. \A t \in Reservers : owned[t] = 0 /\ ownedHint[t] = 0
  BY DEF LimitInit
<1>2. Units(owned) = {} /\ Units(ownedHint) = {}
  BY <1>1, SMTT(60) DEF Units
<1>3. IsFiniteSet({}) /\ Cardinality({}) = 0
  BY FS_EmptySet
<1>4. Types
  BY MaxSNat, SMTT(60) DEF LimitInit, Types, Values
<1> QED BY <1>1, <1>2, <1>3, <1>4, SMTT(60) DEF AccountInv, Holdings, Accounted, Total, LimitInit

\* A sum that did not overflow is the sum.
LEMMA NoOverflow ==
    ASSUME AccountInv, NEW v \in Values, ~Overflows(v)
    PROVE  WrappingAdd(current, v) = current + v
<1>1. current \in Values /\ v \in Nat /\ v <= MaxS /\ current \in Nat
  BY MaxSNat, SMTT(60) DEF AccountInv, Types, Accounted, Values
<1>2. WrappingAdd(current, v) = IF current + v <= MaxS THEN current + v ELSE current + v - 2 * (MaxS + 1)
  BY <1>1, WrappingAddSum
<1> QED BY <1>1, <1>2, MaxSNat, SMTT(60) DEF Overflows

\* A round of the loop reserves within the limit, or reserves nothing.
LEMMA RoundAccount ==
    ASSUME AccountInv, NEW t \in Reservers, NEW v \in Values, NEW was, Round(t, v, was)
    PROVE  AccountInv'
<1> USE DEF AccountInv
<1>1. want' \in [Reservers -> Values] /\ limit' = limit
  BY DEF Round, Types
<1>2. CASE UNCHANGED <<current, hint, peak, owned, ownedHint>>
  <2>1. at' \in [Reservers -> {"idle", "waiting", "woken", "spinning"}]
    BY DEF Round, Types, Leave
  <2>2. Types'
    BY <1>1, <1>2, <2>1 DEF Types
  <2>3. Holdings' /\ Accounted'
    BY <1>1, <1>2 DEF Holdings, Accounted, Units, Total
  <2> QED BY <2>2, <2>3
<1>3. CASE /\ ~Overflows(v) /\ Fits(v)
           /\ current' = WrappingAdd(current, v)
           /\ hint' = HintAfterReserve(v)
           /\ peak' = Max2(peak, current')
           /\ owned' = [owned EXCEPT ![t] = @ + v]
           /\ ownedHint' = [ownedHint EXCEPT ![t] = @ + v]
           /\ Leave(t)
  <2>1. WrappingAdd(current, v) = current + v
    BY <1>3, NoOverflow
  <2>2. /\ v \in Nat /\ current \in Nat /\ hint \in Nat /\ peak \in Nat /\ limit \in Values
        /\ owned \in [Reservers -> Nat] /\ ownedHint \in [Reservers -> Nat]
    BY SMTT(60) DEF Types, Values
  <2>3. current' = current + v /\ hint' = hint + v /\ current' <= limit /\ peak' \in Nat /\ current' <= peak'
    BY <1>3, <2>1, <2>2, SMTT(60) DEF Fits, HintAfterReserve, Max2
  <2>4. v \in Nat
    BY <2>2
  <2>6. owned[t] \in Nat /\ owned'[t] = owned[t] + v /\ \A u \in Reservers \ {t} : owned'[u] = owned[u]
    BY <1>3, <2>2
  <2>7. ownedHint[t] \in Nat /\ ownedHint'[t] = ownedHint[t] + v /\ \A u \in Reservers \ {t} : ownedHint'[u] = ownedHint[u]
    BY <1>3, <2>2
  <2>8. IsFiniteSet(Units(owned)) /\ IsFiniteSet(Units(ownedHint))
    BY DEF Holdings
  <2>9. IsFiniteSet(Units(owned')) /\ Total(owned) \in Nat /\ Total(owned') = Total(owned) + v
    BY <2>4, <2>6, <2>8, MoreTotal
  <2>10. /\ IsFiniteSet(Units(ownedHint')) /\ Total(ownedHint) \in Nat
         /\ Total(ownedHint') = Total(ownedHint) + v
    BY <2>4, <2>7, <2>8, MoreTotal
  <2>11. Types'
    <3>1. at' \in [Reservers -> {"idle", "waiting", "woken", "spinning"}]
      BY <1>3 DEF Leave, Types
    <3>2. owned' \in [Reservers -> Nat] /\ ownedHint' \in [Reservers -> Nat]
      BY <1>3, <2>2, SMTT(60)
    <3> QED BY <1>1, <2>2, <2>3, <3>1, <3>2, SMTT(60) DEF Types
  <2>12. \A u \in Reservers : ownedHint'[u] <= owned'[u]
    BY <2>2, <2>6, <2>7, SMTT(60) DEF Holdings
  <2>13. Holdings'
    BY <2>9, <2>10, <2>12 DEF Holdings, Units
  <2>14. Accounted'
    <3>1. current = Total(owned) /\ hint = Total(ownedHint) /\ hint <= current
      BY DEF Accounted
    <3>2. current' = Total(owned') /\ hint' = Total(ownedHint') /\ hint' <= current'
      BY <2>2, <2>3, <2>9, <2>10, <3>1, SMTT(60)
    <3> QED BY <1>1, <2>3, <3>2 DEF Accounted, Total, Units
  <2> QED BY <2>11, <2>13, <2>14
<1> QED BY <1>2, <1>3 DEF Round

\* A release gives back what its thread has.
LEMMA ReleaseAccount ==
    ASSUME AccountInv, NEW t \in Reservers, NEW v \in Values, NEW h \in Values, Release(t, v, h)
    PROVE  AccountInv'
<1> USE DEF AccountInv
<1>1. /\ current \in Nat /\ hint \in Nat /\ peak \in Nat /\ limit \in Values
      /\ owned \in [Reservers -> Nat] /\ ownedHint \in [Reservers -> Nat]
      /\ \A u \in Reservers : ownedHint[u] <= owned[u]
  BY DEF Types, Holdings
<1>2. v \in Nat /\ h \in Nat
  BY SMTT(60) DEF Values
<1>3. /\ v <= owned[t] /\ h <= ownedHint[t] /\ owned[t] - v >= ownedHint[t] - h
      /\ current' = current - v /\ hint' = hint - h /\ limit' = limit /\ peak' = peak /\ want' = want
      /\ owned' = [owned EXCEPT ![t] = @ - v] /\ ownedHint' = [ownedHint EXCEPT ![t] = @ - h]
  BY DEF Release
<1>4. owned' \in [Reservers -> Nat] /\ ownedHint' \in [Reservers -> Nat]
  BY <1>1, <1>2, <1>3, SMTT(60)
<1>5. owned'[t] \in Nat /\ owned[t] = owned'[t] + v /\ \A u \in Reservers \ {t} : owned[u] = owned'[u]
  BY <1>1, <1>2, <1>3, SMTT(60)
<1>6. /\ ownedHint'[t] \in Nat /\ ownedHint[t] = ownedHint'[t] + h
      /\ \A u \in Reservers \ {t} : ownedHint[u] = ownedHint'[u]
  BY <1>1, <1>2, <1>3, SMTT(60)
<1>7. IsFiniteSet(Units(owned)) /\ IsFiniteSet(Units(ownedHint))
  BY DEF Holdings
<1>8. IsFiniteSet(Units(owned')) /\ Total(owned') \in Nat /\ Total(owned) = Total(owned') + v
  BY <1>2, <1>5, <1>7, MoreTotal
<1>9. /\ IsFiniteSet(Units(ownedHint')) /\ Total(ownedHint') \in Nat
      /\ Total(ownedHint) = Total(ownedHint') + h
  BY <1>2, <1>6, <1>7, MoreTotal
<1>10. \A u \in Reservers : ownedHint'[u] <= owned'[u]
  BY <1>1, <1>2, <1>3, <1>5, <1>6
<1>11. Total(ownedHint') <= Total(owned')
  BY <1>4, <1>8, <1>10, LessTotal
<1>12. current = Total(owned) /\ hint = Total(ownedHint) /\ current <= limit /\ current <= peak
  BY DEF Accounted
<1>13. /\ current' = Total(owned') /\ hint' = Total(ownedHint')
       /\ hint' <= current' /\ current' <= limit /\ current' <= peak
       /\ current' \in Nat /\ hint' \in Nat
  BY <1>1, <1>2, <1>3, <1>8, <1>9, <1>11, <1>12, SMTT(60) DEF Values
<1>14. at' \in [Reservers -> {"idle", "waiting", "woken", "spinning"}]
  BY DEF Release, Broadcast, Types
<1>15. Types'
  BY <1>1, <1>3, <1>4, <1>13, <1>14 DEF Types
<1>16. Holdings'
  BY <1>8, <1>9, <1>10 DEF Holdings, Units
<1>17. Accounted'
  BY <1>3, <1>13 DEF Accounted, Total, Units
<1> QED BY <1>15, <1>16, <1>17

\* Every step keeps the counters.
LEMMA AccountStep == AccountInv /\ [LimitNext]_limitVars => AccountInv'
<1> SUFFICES ASSUME AccountInv, [LimitNext]_limitVars PROVE AccountInv'
  OBVIOUS
<1> USE DEF AccountInv
<1>1. ASSUME NEW t \in Reservers, NEW v \in Amounts, Reserve(t, v) PROVE AccountInv'
  <2>1. v \in Values /\ Round(t, v, 0)
    BY <1>1, AmountsAssumption DEF Reserve
  <2> QED BY <2>1, RoundAccount
<1>2. ASSUME NEW t \in Reservers, Retry(t) \/ Spin(t) PROVE AccountInv'
  <2>1. want[t] \in Values /\ \E was \in {0, 1} : Round(t, want[t], was)
    BY <1>2 DEF Retry, Spin, Types
  <2>2. PICK v \in Values : v = want[t]
    BY <2>1
  <2>3. \E was \in {0, 1} : Round(t, v, was)
    BY <2>1, <2>2
  <2> QED BY <2>3, RoundAccount
<1>3. ASSUME NEW t \in Reservers, Timeout(t) \/ TerminateReserver(t) PROVE AccountInv'
  <2>1. at' \in [Reservers -> {"idle", "waiting", "woken", "spinning"}]
    BY <1>3 DEF Timeout, TerminateReserver, Types
  <2>2. UNCHANGED <<limit, current, hint, peak, want, owned, ownedHint>>
    BY <1>3 DEF Timeout, TerminateReserver, counters
  <2> QED BY <2>1, <2>2 DEF Types, Holdings, Accounted, Units, Total
<1>4. ASSUME NEW t \in Reservers, NEW v \in Amounts \cup {0}, NEW h \in Amounts \cup {0}, Release(t, v, h)
      PROVE  AccountInv'
  <2>1. v \in Values /\ h \in Values
    BY AmountsAssumption, MaxSNat, SMTT(60) DEF Values
  <2> QED BY <1>4, <2>1, ReleaseAccount
<1>5. ASSUME NEW v \in Amounts, SetLimitValue(v) PROVE AccountInv'
  <2>1. /\ current <= v /\ limit' = v /\ peak' = current
        /\ UNCHANGED <<current, hint, at, want, owned, ownedHint>>
    BY <1>5 DEF SetLimitValue, calls
  <2>2. v \in Values /\ current \in Nat
    BY AmountsAssumption DEF Types
  <2> QED BY <2>1, <2>2, SMTT(60) DEF Types, Holdings, Accounted, Units, Total
<1>6. CASE UNCHANGED limitVars
  <2>1. UNCHANGED <<limit, current, hint, peak, at, want, owned, ownedHint>>
    BY <1>6 DEF limitVars, counters, calls
  <2> QED BY <2>1 DEF Types, Holdings, Accounted, Units, Total
<1> QED BY <1>1, <1>2, <1>3, <1>4, <1>5, <1>6 DEF LimitNext, ReserverStep

\* The use never exceeds the limit, the hint never the use, and both are what
\* the threads have reserved, through every Reserve, Release and SetLimitValue.
THEOREM CountersExact == LimitSpec => []Accounted
<1>1. AccountInv => Accounted
  BY DEF AccountInv
<1> QED BY <1>1, AccountInit, AccountStep, PTL DEF LimitSpec
-----------------------------------------------------------------------------
(* The waiting threads.                                                     *)

Queued == {t \in Reservers : at[t] \in {"waiting", "woken"}}

WaitInv == IsFiniteSet(Queued) /\ waiterCount = Cardinality(Queued) /\ NoLostRelease

\* A thread leaves the queue or is in it after a round, and m_waiter_count says so.
LEMMA RoundCounts ==
    ASSUME AccountInv, WaitInv, NEW t \in Reservers, NEW v \in Values, NEW was \in {0, 1},
           was = (IF t \in Queued THEN 1 ELSE 0), Round(t, v, was)
    PROVE  IsFiniteSet(Queued') /\ waiterCount' = Cardinality(Queued')
<1> DEFINE Others == Queued \ {t}
<1>1. at \in [Reservers -> {"idle", "waiting", "woken", "spinning"}]
  BY DEF AccountInv, Types
<1>2. IsFiniteSet(Queued) /\ waiterCount = Cardinality(Queued) /\ Cardinality(Queued) \in Nat
  BY FS_CardinalityType DEF WaitInv
<1>3. /\ IsFiniteSet(Others)
      /\ Cardinality(Others) = IF t \in Queued THEN Cardinality(Queued) - 1 ELSE Cardinality(Queued)
  BY <1>2, FS_RemoveElement
<1>4. Cardinality(Others) = Uncounted(was)
  BY <1>2, <1>3, SMTT(60) DEF Uncounted
<1>5. t \notin Others /\ Cardinality(Others) \in Nat
  BY <1>3, FS_CardinalityType
<1>6. CASE at' = [at EXCEPT ![t] = "waiting"] /\ waiterCount' = Uncounted(was) + 1
  <2>1. Queued' = Others \cup {t}
    BY <1>1, <1>6 DEF Queued
  <2>2. IsFiniteSet(Others \cup {t}) /\ Cardinality(Others \cup {t}) = Cardinality(Others) + 1
    BY <1>3, <1>5, FS_AddElement
  <2> QED BY <1>4, <1>6, <2>1, <2>2
<1>7. CASE \E p \in {"idle", "spinning"} : at' = [at EXCEPT ![t] = p] /\ waiterCount' = Uncounted(was)
  <2>1. Queued' = Others
    BY <1>1, <1>7 DEF Queued
  <2> QED BY <1>3, <1>4, <1>7, <2>1
<1> QED BY <1>6, <1>7 DEF Round, Leave

\* A round leaves its thread waiting only if its request does not fit, and
\* takes nothing that another could wait for.
LEMMA RoundWaits ==
    ASSUME AccountInv, WaitInv, NEW t \in Reservers, NEW v \in Values, NEW was, Round(t, v, was)
    PROVE  NoLostRelease'
<1>1. /\ at \in [Reservers -> {"idle", "waiting", "woken", "spinning"}] /\ want \in [Reservers -> Values]
      /\ current \in Nat /\ limit \in Nat /\ v \in Nat /\ \A u \in Reservers : want[u] \in Nat
  BY SMTT(60) DEF AccountInv, Types, Values
<1>2. want' = [want EXCEPT ![t] = v] /\ limit' = limit /\ raised' = raised
  BY DEF Round
<1>3. \A u \in Reservers \ {t} : at'[u] = at[u] /\ want'[u] = want[u]
  BY <1>1, <1>2 DEF Round, Leave
<1>4. current' \in Nat /\ current' >= current
  <2>1. CASE ~Overflows(v) /\ current' = WrappingAdd(current, v)
    BY <1>1, <2>1, NoOverflow, SMTT(60)
  <2>2. CASE current' = current
    BY <1>1, <2>2, SMTT(60)
  <2> QED BY <2>1, <2>2 DEF Round
<1>5. at'[t] = "waiting" => current' + want'[t] > limit'
  <2> SUFFICES ASSUME at'[t] = "waiting" PROVE current' + want'[t] > limit'
    OBVIOUS
  <2>1. ~Overflows(v) /\ ~Fits(v) /\ current' = current
    BY <1>1 DEF Round, Leave
  <2>2. WrappingAdd(current, v) = current + v
    BY <2>1, NoOverflow
  <2> QED BY <1>1, <1>2, <2>1, <2>2, SMTT(60) DEF Fits
<1>6. ASSUME NEW u \in Reservers \ {t}, at'[u] = "waiting", u \notin raised'
      PROVE  current' + want'[u] > limit'
  <2>1. current + want[u] > limit
    BY <1>2, <1>3, <1>6 DEF WaitInv, NoLostRelease
  <2> QED BY <1>1, <1>2, <1>3, <1>4, <2>1, SMTT(60)
<1> QED BY <1>5, <1>6 DEF NoLostRelease

\* When m_waiter_count is zero nobody waits.
LEMMA NobodyWaits ==
    ASSUME WaitInv, waiterCount = 0
    PROVE  \A t \in Reservers : at[t] # "waiting"
<1>1. Queued = {}
  BY FS_EmptySet DEF WaitInv
<1> QED BY <1>1 DEF Queued

\* Every step keeps the count of the waiting threads, and wakes them when it
\* must.
LEMMA WaitStep == AccountInv /\ WaitInv /\ [LimitNext]_limitVars => WaitInv'
<1> SUFFICES ASSUME AccountInv, WaitInv, [LimitNext]_limitVars PROVE WaitInv'
  OBVIOUS
<1>0. /\ at \in [Reservers -> {"idle", "waiting", "woken", "spinning"}] /\ want \in [Reservers -> Values]
      /\ current \in Nat /\ limit \in Values
  BY DEF AccountInv, Types
<1>1. ASSUME NEW t \in Reservers, NEW v \in Amounts, Reserve(t, v) PROVE WaitInv'
  <2>1. v \in Values /\ Round(t, v, 0) /\ t \notin Queued
    BY <1>1, AmountsAssumption DEF Reserve, Queued
  <2>2. IsFiniteSet(Queued') /\ waiterCount' = Cardinality(Queued')
    BY <2>1, RoundCounts
  <2>3. NoLostRelease'
    BY <2>1, RoundWaits
  <2> QED BY <2>2, <2>3 DEF WaitInv
<1>2. ASSUME NEW t \in Reservers, Retry(t) \/ Spin(t) PROVE WaitInv'
  <2>1. PICK v \in Values : v = want[t]
    BY <1>0
  <2>2. PICK was \in {0, 1} : was = (IF t \in Queued THEN 1 ELSE 0) /\ Round(t, v, was)
    BY <1>2, <2>1 DEF Retry, Spin, Queued
  <2>3. IsFiniteSet(Queued') /\ waiterCount' = Cardinality(Queued')
    BY <2>2, RoundCounts
  <2>4. NoLostRelease'
    BY <2>2, RoundWaits
  <2> QED BY <2>3, <2>4 DEF WaitInv
<1>3. ASSUME NEW t \in Reservers, Timeout(t) \/ TerminateReserver(t) PROVE WaitInv'
  <2>1. at' = [at EXCEPT ![t] = IF @ = "waiting" THEN "woken" ELSE @] /\ raised' = raised \ {t}
    BY <1>3 DEF Timeout, TerminateReserver
  <2>2. UNCHANGED <<limit, current, want, waiterCount>>
    BY <1>3 DEF Timeout, TerminateReserver, counters
  <2>3. Queued' = Queued
    BY <1>0, <2>1 DEF Queued
  <2>4. NoLostRelease'
    BY <1>0, <2>1, <2>2 DEF WaitInv, NoLostRelease
  <2> QED BY <2>2, <2>3, <2>4 DEF WaitInv
<1>4. ASSUME NEW t \in Reservers, NEW v, NEW h, Release(t, v, h) PROVE WaitInv'
  <2>1. waiterCount' = waiterCount
    BY <1>4 DEF Release
  <2>2. CASE Broadcast
    <3>1. Queued' = Queued
      BY <1>0, <2>2 DEF Queued, Broadcast
    <3>2. \A u \in Reservers : at'[u] # "waiting"
      BY <1>0, <2>2 DEF Broadcast
    <3> QED BY <2>1, <3>1, <3>2 DEF WaitInv, NoLostRelease
  <2>3. CASE waiterCount = 0 /\ at' = at
    <3>1. Queued' = Queued
      BY <2>3 DEF Queued
    <3>2. \A u \in Reservers : at'[u] # "waiting"
      BY <2>3, NobodyWaits
    <3> QED BY <2>1, <3>1, <3>2 DEF WaitInv, NoLostRelease
  <2> QED BY <1>4, <2>2, <2>3 DEF Release, Wakes
<1>5. ASSUME NEW v \in Amounts, SetLimitValue(v) PROVE WaitInv'
  <2>1. raised' = raised \cup {t \in Reservers : at[t] = "waiting"} /\ UNCHANGED <<at, waiterCount>>
    BY <1>5 DEF SetLimitValue, calls
  <2>2. Queued' = Queued
    BY <2>1 DEF Queued
  <2>3. NoLostRelease'
    BY <2>1 DEF NoLostRelease
  <2> QED BY <2>1, <2>2, <2>3 DEF WaitInv
<1>6. CASE UNCHANGED limitVars
  <2>1. UNCHANGED <<limit, current, at, want, waiterCount, raised>>
    BY <1>6 DEF limitVars, counters, calls
  <2> QED BY <2>1 DEF WaitInv, Queued, NoLostRelease
<1> QED BY <1>1, <1>2, <1>3, <1>4, <1>5, <1>6 DEF LimitNext, ReserverStep

\* No thread stays in the queue of a resource limit with a request that fits,
\* except after SetLimitValue, which wakes nobody.
THEOREM ReleaseNotLost == LimitSpec => []NoLostRelease
<1>1. LimitInit => AccountInv /\ WaitInv
  <2> SUFFICES ASSUME LimitInit PROVE WaitInv
    BY AccountInit
  <2>1. Queued = {} /\ waiterCount = 0
    BY DEF LimitInit, Queued
  <2>2. NoLostRelease
    BY DEF LimitInit, NoLostRelease
  <2> QED BY <2>1, <2>2, FS_EmptySet DEF WaitInv
<1>2. AccountInv /\ WaitInv /\ [LimitNext]_limitVars => (AccountInv /\ WaitInv)'
  BY AccountStep, WaitStep
<1>3. AccountInv /\ WaitInv => NoLostRelease
  BY DEF WaitInv
<1> QED BY <1>1, <1>2, <1>3, PTL DEF LimitSpec
=============================================================================
