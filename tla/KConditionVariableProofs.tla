---------------------- MODULE KConditionVariableProofs ----------------------
(***************************************************************************)
(* Theorems about KConditionVariable for every set of threads.  IndInv and *)
(* OwnerInv hold whatever threads exit or are terminated; OrderlyInv is    *)
(* what a process adds whose threads never exit while they own the mutex.  *)
(***************************************************************************)
EXTENDS KConditionVariable, TLAPS

\* A leaf goes to Zenon, unless it cites the SMT solver for its arithmetic, records
\* or sequences.
USE ZenonT(30)

\* NoLostWakeup field by field.
Linked ==
    \A w \in Threads :
        lockOwner[w] # NoThread => word.owner = lockOwner[w] /\ word.waiters = TRUE

IndInv ==
    /\ TypeOK
    /\ word.owner = NoThread => word.waiters = FALSE
    /\ HolderOwnsWord
    /\ Linked
    /\ OneTree
    /\ FlagAnnouncesWaiters

\* The word names a thread that is inside the mutex, or that exited there.
OwnerInv ==
    \A t \in Threads : pc[t] \notin {"check", "held", "unlock", "exited"} => word.owner # t

\* A thread that has exited is not the one the word names.
OrderlyInv ==
    /\ \A t \in Threads : pc[t] = "exited" => word.owner # t
    /\ \A t \in Threads : ~terminating[t]
    /\ \A t \in Threads : object[t] # "live" => pc[t] = "exited"
    /\ ~crashed

\* The initial state satisfies the three invariants.
LEMMA InitInv == Init => IndInv /\ OwnerInv /\ OrderlyInv
<1> SUFFICES ASSUME Init PROVE IndInv /\ OwnerInv /\ OrderlyInv
  OBVIOUS
<1> USE NoThreadAssumption, MaxCallsAssumption DEF Init, FreeWord
<1>1. TypeOK
  <2>1. word \in Word
    BY DEF Word
  <2>2. calls \in [Threads -> 0 .. MaxCalls]
    BY SMTT(60)
  <2> QED BY <2>1, <2>2 DEF TypeOK
<1>2. (word.owner = NoThread => word.waiters = FALSE) /\ HolderOwnsWord /\ Linked
  BY DEF HolderOwnsWord, Linked
<1>3. OneTree /\ FlagAnnouncesWaiters
  BY DEF OneTree, FlagAnnouncesWaiters
<1>4. OwnerInv /\ OrderlyInv
  BY DEF OwnerInv, OrderlyInv
<1> QED BY <1>1, <1>2, <1>3, <1>4 DEF IndInv

\* Every step of KConditionVariable preserves its types.
LEMMA TypeStep == IndInv /\ [Next]_vars => TypeOK'
<1> SUFFICES ASSUME IndInv, [Next]_vars PROVE TypeOK'
  OBVIOUS
<1> USE NoThreadAssumption, MaxCallsAssumption
    DEF IndInv, TypeOK, Word, FreeWord, userVars, threadVars, waitVars, lifeVars
<1>1. CASE UNCHANGED vars
  BY <1>1 DEF vars
<1>2. ASSUME NEW t \in Threads, BeginLock(t) PROVE TypeOK'
  BY <1>2, SMTT(60) DEF BeginLock
<1>3. ASSUME NEW t \in Threads, UserLock(t) PROVE TypeOK'
  <2>1. word' \in Word
    <3>1. /\ word \in Word /\ FreeWord \in Word
          /\ [owner |-> t, waiters |-> FALSE] \in Word
          /\ [owner |-> word.owner, waiters |-> TRUE] \in Word
      OBVIOUS
    <3> HIDE DEF IndInv, TypeOK, Word, FreeWord
    <3> QED BY <1>3, <3>1 DEF UserLock
  <2>2. pc' \in [Threads -> {"idle", "lock", "arbitrate", "waiting", "check", "held", "unlock",
                            "cvwait", "exited"}]
    BY <1>3, SMTT(60) DEF UserLock
  <2>3. seen' \in [Threads -> Threads \cup {NoThread}]
    BY <1>3 DEF UserLock
  <2> QED BY <1>3, <2>1, <2>2, <2>3 DEF UserLock
<1>4. ASSUME NEW t \in Threads, UserCheck(t) PROVE TypeOK'
  BY <1>4 DEF UserCheck
<1>5. ASSUME NEW t \in Threads, UserUnlock(t) PROVE TypeOK'
  <2>1. word' \in Word
    <3>1. /\ word \in Word /\ FreeWord \in Word
          /\ [owner |-> t, waiters |-> FALSE] \in Word
          /\ [owner |-> word.owner, waiters |-> TRUE] \in Word
      OBVIOUS
    <3> HIDE DEF IndInv, TypeOK, Word, FreeWord
    <3> QED BY <1>5, <3>1 DEF UserUnlock
  <2>2. pc' \in [Threads -> {"idle", "lock", "arbitrate", "waiting", "check", "held", "unlock",
                            "cvwait", "exited"}]
    BY <1>5, SMTT(60) DEF UserUnlock
  <2> QED BY <1>5, <2>1, <2>2 DEF UserUnlock
<1>6. ASSUME NEW t \in Threads, WaitForAddressReturns(t) PROVE TypeOK'
  BY <1>6 DEF WaitForAddressReturns
<1>7. ASSUME NEW t \in Threads, WaitForAddress(t) PROVE TypeOK'
  BY <1>7 DEF WaitForAddress
<1>8. ASSUME NEW t \in Threads, SignalToAddressNoWaiter(t) PROVE TypeOK'
  BY <1>8 DEF SignalToAddressNoWaiter
<1>9. ASSUME NEW t \in Threads, NEW next \in Threads, SignalToAddress(t, next) PROVE TypeOK'
  BY <1>9 DEF SignalToAddress, OwnersAfterHandoff, HandoffWord, Resumed
<1>10. ASSUME NEW t \in Threads, NEW timeout \in Timeouts, WaitNoWaiter(t, timeout)
       PROVE TypeOK'
  BY <1>10, SMTT(60) DEF WaitNoWaiter, CanWait, WaitFlag, WaitPc, WaitTree, WaitTimer
<1>11. ASSUME NEW t \in Threads, NEW next \in Threads, NEW timeout \in Timeouts,
              WaitHandoff(t, next, timeout)
       PROVE TypeOK'
  <2>1. word' \in Word
    BY <1>11 DEF WaitHandoff, HandoffWord
  <2>2. pc' \in [Threads -> {"idle", "lock", "arbitrate", "waiting", "check", "held", "unlock",
                            "cvwait", "exited"}]
    BY <1>11 DEF WaitHandoff, Resumed, WaitPc
  <2>3. lockOwner' \in [Threads -> Threads \cup {NoThread}]
    BY <1>11 DEF WaitHandoff, OwnersAfterHandoff
  <2>4. cvTree' \in SUBSET Threads /\ timer' \in [Threads -> BOOLEAN]
    BY <1>11 DEF WaitHandoff, WaitTree, WaitTimer
  <2>5. calls' \in [Threads -> 0 .. MaxCalls] /\ cvFlag' \in BOOLEAN
    BY <1>11, SMTT(60) DEF WaitHandoff, CanWait, WaitFlag
  <2> QED BY <1>11, <2>1, <2>2, <2>3, <2>4, <2>5 DEF WaitHandoff
<1>12. ASSUME NEW t \in Threads, NEW set \in SignalSets, NEW first \in set,
              SignalFree(t, set, first)
       PROVE TypeOK'
  <2>1. set \subseteq Threads /\ first \in Threads
    BY SMTT(60) DEF SignalSets
  <2> QED BY <1>12, <2>1 DEF SignalFree, SignalFlag
<1>13. ASSUME NEW t \in Threads, NEW set \in SignalSets, SignalHeld(t, set) PROVE TypeOK'
  BY <1>13 DEF SignalHeld, SignalHeldWord, SignalFlag
<1>14. ASSUME NEW t \in Threads, NEW set \in SignalSets, SignalInvalid(t, set) PROVE TypeOK'
  BY <1>14 DEF SignalInvalid, SignalHeldWord, SignalFlag
<1>15. ASSUME NEW t \in Threads, OnTimer(t) PROVE TypeOK'
  BY <1>15 DEF OnTimer
<1>16. ASSUME NEW t \in Threads, TerminateChildren(t) PROVE TypeOK'
  BY <1>16 DEF TerminateChildren
<1>17. ASSUME NEW t \in Threads, Exit(t) PROVE TypeOK'
  BY <1>17 DEF Exit
<1>18. ASSUME NEW t \in Threads, CloseHandle(t) PROVE TypeOK'
  BY <1>18 DEF CloseHandle
<1>19. ASSUME NEW t \in Threads, Finalize(t) PROVE TypeOK'
  BY <1>19 DEF Finalize
<1> QED BY <1>1, <1>2, <1>3, <1>4, <1>5, <1>6, <1>7, <1>8, <1>9, <1>10, <1>11, <1>12, <1>13,
           <1>14, <1>15, <1>16, <1>17, <1>18, <1>19 DEF Next, ThreadStep, Environment

\* Every step keeps the word, its holder and its waiters tied together.
LEMMA WordStep ==
    IndInv /\ [Next]_vars =>
        /\ (word.owner = NoThread => word.waiters = FALSE)'
        /\ HolderOwnsWord'
        /\ Linked'
<1> DEFINE Tied == /\ word.owner = NoThread => word.waiters = FALSE
                  /\ HolderOwnsWord
                  /\ Linked
<1> SUFFICES ASSUME IndInv, [Next]_vars PROVE Tied'
  OBVIOUS
<1> USE NoThreadAssumption
    DEF IndInv, TypeOK, Word, FreeWord, HolderOwnsWord, Linked, OneTree, Waiters,
        PrevTagFree, userVars, threadVars, waitVars, lifeVars
<1>1. CASE UNCHANGED vars
  BY <1>1 DEF vars
<1>2. ASSUME NEW t \in Threads, BeginLock(t) PROVE Tied'
  BY <1>2 DEF BeginLock
<1>3. ASSUME NEW t \in Threads, UserLock(t) PROVE Tied'
  <2>1. CASE word = FreeWord
    <3>1. word.owner = NoThread /\ word'.owner = t /\ t # NoThread
      BY <1>3, <2>1, SMTT(60) DEF UserLock
    <3>2. pc' = [pc EXCEPT ![t] = "held"] /\ lockOwner' = lockOwner
      BY <1>3, <2>1 DEF UserLock
    <3> HIDE DEF FreeWord
    <3> QED BY <3>1, <3>2
  <2>2. CASE word # FreeWord
    <3>1. word'.owner = word.owner /\ word'.waiters = TRUE
      BY <1>3, <2>2, SMTT(60) DEF UserLock
    <3>2. word.owner # NoThread
      BY <2>2
    <3>3. pc' = [pc EXCEPT ![t] = "arbitrate"] /\ lockOwner' = lockOwner
      BY <1>3, <2>2 DEF UserLock
    <3> QED BY <3>1, <3>2, <3>3
  <2> QED BY <2>1, <2>2
<1>4. ASSUME NEW t \in Threads, UserCheck(t) PROVE Tied'
  BY <1>4 DEF UserCheck
<1>5. ASSUME NEW t \in Threads, UserUnlock(t) PROVE Tied'
  <2>1. CASE word = [owner |-> t, waiters |-> FALSE]
    <3>1. word.waiters = FALSE /\ word.owner = t
      BY <2>1
    <3>2. word'.owner = NoThread /\ word'.waiters = FALSE
      BY <1>5, <2>1, SMTT(60) DEF UserUnlock
    <3>3. pc' = [pc EXCEPT ![t] = "idle"] /\ lockOwner' = lockOwner
      BY <1>5, <2>1 DEF UserUnlock
    <3> QED BY <3>1, <3>2, <3>3
  <2>2. CASE word # [owner |-> t, waiters |-> FALSE]
    BY <1>5, <2>2, SMTT(60) DEF UserUnlock
  <2> QED BY <2>1, <2>2
<1>6. ASSUME NEW t \in Threads, WaitForAddressReturns(t) PROVE Tied'
  BY <1>6 DEF WaitForAddressReturns
<1>7. ASSUME NEW t \in Threads, WaitForAddress(t) PROVE Tied'
  BY <1>7, SMTT(60) DEF WaitForAddress, CanWaitForAddress, TagMatches
<1>8. ASSUME NEW t \in Threads, SignalToAddressNoWaiter(t) PROVE Tied'
  BY <1>8, SMTT(60) DEF SignalToAddressNoWaiter
<1>9. ASSUME NEW t \in Threads, NEW next \in Threads, SignalToAddress(t, next) PROVE Tied'
  <2>1. word.owner = t /\ word'.owner = next /\ word'.waiters = (Waiters(t) # {next})
    BY <1>9 DEF SignalToAddress, HandoffWord
  <2>2. HolderOwnsWord'
    BY <1>9, <2>1 DEF SignalToAddress
  <2>3. Linked'
    BY <1>9, <2>1, SMTT(60) DEF SignalToAddress, OwnersAfterHandoff
  <2> QED BY <2>1, <2>2, <2>3
<1>10. ASSUME NEW t \in Threads, NEW timeout \in Timeouts, WaitNoWaiter(t, timeout)
       PROVE Tied'
  BY <1>10, SMTT(60) DEF WaitNoWaiter, CanWait, WaitPc
<1>11. ASSUME NEW t \in Threads, NEW next \in Threads, NEW timeout \in Timeouts,
              WaitHandoff(t, next, timeout)
       PROVE Tied'
  <2>1. word.owner = t /\ word'.owner = next /\ word'.waiters = (Waiters(t) # {next})
    BY <1>11 DEF WaitHandoff, CanWait, HandoffWord
  <2>2. HolderOwnsWord'
    BY <1>11, <2>1 DEF WaitHandoff, CanWait, WaitPc
  <2>3. Linked'
    <3>1. lockOwner' = OwnersAfterHandoff(t, next) /\ next \in Waiters(t)
      BY <1>11 DEF WaitHandoff
    <3> QED BY <2>1, <3>1, SMTT(60) DEF OwnersAfterHandoff
  <2> QED BY <2>1, <2>2, <2>3
<1>12. ASSUME NEW t \in Threads, NEW set \in SignalSets, NEW first \in set,
              SignalFree(t, set, first)
       PROVE Tied'
  <2>1. set \subseteq Threads /\ first \in Threads
    BY SMTT(60) DEF SignalSets
  <2>2. \A w \in Threads : lockOwner[w] = NoThread /\ pc[w] \notin {"held", "unlock"}
    BY <1>12 DEF SignalFree
  <2>3. word'.owner = first /\ word'.waiters = (set # {first})
    BY <1>12 DEF SignalFree
  <2>4. HolderOwnsWord'
    BY <1>12, <2>1, <2>2, <2>3 DEF SignalFree
  <2>5. Linked'
    <3>1. lockOwner' = [w \in Threads |-> IF w \in set \ {first} THEN first ELSE lockOwner[w]]
      BY <1>12 DEF SignalFree
    <3>2. ASSUME NEW w \in Threads, lockOwner'[w] # NoThread
          PROVE  lockOwner'[w] = first /\ set # {first}
      BY <2>1, <2>2, <3>1, <3>2
    <3> HIDE DEF IndInv, TypeOK, Word, FreeWord, HolderOwnsWord, OneTree, Waiters
    <3> QED BY <2>3, <3>2
  <2> QED BY <2>1, <2>3, <2>4, <2>5
<1>13. ASSUME NEW t \in Threads, NEW set \in SignalSets, SignalHeld(t, set) PROVE Tied'
  <2>1. CASE set = {}
    BY <1>13, <2>1 DEF SignalHeld, SignalHeldWord
  <2>2. CASE set # {}
    <3>1. word'.owner = word.owner /\ word'.waiters = TRUE /\ word.owner # NoThread
      BY <1>13, <2>2 DEF SignalHeld, SignalHeldWord
    <3> QED BY <1>13, <3>1 DEF SignalHeld
  <2> QED BY <2>1, <2>2
<1>14. ASSUME NEW t \in Threads, NEW set \in SignalSets, SignalInvalid(t, set) PROVE Tied'
  <2>1. word'.owner = word.owner /\ word'.waiters = TRUE /\ word.owner # NoThread
    BY <1>14 DEF SignalInvalid, SignalHeldWord
  <2> QED BY <1>14, <2>1 DEF SignalInvalid
<1>15. ASSUME NEW t \in Threads, OnTimer(t) PROVE Tied'
  BY <1>15 DEF OnTimer
<1>16. ASSUME NEW t \in Threads, TerminateChildren(t) PROVE Tied'
  BY <1>16 DEF TerminateChildren
<1>17. ASSUME NEW t \in Threads, Exit(t) PROVE Tied'
  BY <1>17 DEF Exit
<1>18. ASSUME NEW t \in Threads, CloseHandle(t) PROVE Tied'
  BY <1>18 DEF CloseHandle
<1>19. ASSUME NEW t \in Threads, Finalize(t) PROVE Tied'
  BY <1>19 DEF Finalize
<1> QED BY <1>1, <1>2, <1>3, <1>4, <1>5, <1>6, <1>7, <1>8, <1>9, <1>10, <1>11, <1>12, <1>13,
           <1>14, <1>15, <1>16, <1>17, <1>18, <1>19 DEF Next, ThreadStep, Environment

\* Every step keeps a thread in the one tree its wait asks for, and the flag at
\* the key set while the condition variable has waiters.
LEMMA TreeStep == IndInv /\ [Next]_vars => OneTree' /\ FlagAnnouncesWaiters'
<1> DEFINE Goal == OneTree /\ FlagAnnouncesWaiters
<1> SUFFICES ASSUME IndInv, [Next]_vars PROVE Goal'
  OBVIOUS
<1> USE NoThreadAssumption
    DEF IndInv, TypeOK, OneTree, FlagAnnouncesWaiters, Waiters, userVars, threadVars, waitVars,
        lifeVars
<1>1. CASE UNCHANGED vars
  BY <1>1 DEF vars
<1>2. ASSUME NEW t \in Threads, BeginLock(t) PROVE Goal'
  BY <1>2 DEF BeginLock
<1>3. ASSUME NEW t \in Threads, UserLock(t) PROVE Goal'
  BY <1>3, SMTT(60) DEF UserLock
<1>4. ASSUME NEW t \in Threads, UserCheck(t) PROVE Goal'
  BY <1>4 DEF UserCheck
<1>5. ASSUME NEW t \in Threads, UserUnlock(t) PROVE Goal'
  BY <1>5, SMTT(60) DEF UserUnlock
<1>6. ASSUME NEW t \in Threads, WaitForAddressReturns(t) PROVE Goal'
  BY <1>6 DEF WaitForAddressReturns
<1>7. ASSUME NEW t \in Threads, WaitForAddress(t) PROVE Goal'
  BY <1>7 DEF WaitForAddress, CanWaitForAddress, TagMatches
<1>8. ASSUME NEW t \in Threads, SignalToAddressNoWaiter(t) PROVE Goal'
  BY <1>8 DEF SignalToAddressNoWaiter
<1>9. ASSUME NEW t \in Threads, NEW next \in Threads, SignalToAddress(t, next) PROVE Goal'
  BY <1>9 DEF SignalToAddress, OwnersAfterHandoff, Resumed
<1>10. ASSUME NEW t \in Threads, NEW timeout \in Timeouts, WaitNoWaiter(t, timeout)
       PROVE Goal'
  BY <1>10, SMTT(60) DEF WaitNoWaiter, CanWait, WaitPc, WaitTree, WaitTimer, WaitFlag, Timeouts
<1>11. ASSUME NEW t \in Threads, NEW next \in Threads, NEW timeout \in Timeouts,
              WaitHandoff(t, next, timeout)
       PROVE Goal'
  BY <1>11, SMTT(60) DEF WaitHandoff, CanWait, OwnersAfterHandoff, Resumed, WaitPc, WaitTree, WaitTimer,
               WaitFlag, Timeouts
<1>12. ASSUME NEW t \in Threads, NEW set \in SignalSets, NEW first \in set,
              SignalFree(t, set, first)
       PROVE Goal'
  <2>1. set \subseteq cvTree /\ first \in Threads /\ first \in cvTree
    BY SMTT(60) DEF SignalSets
  <2>2. \A w \in cvTree : pc[w] = "cvwait" /\ lockOwner[w] = NoThread
    OBVIOUS
  <2> QED BY <1>12, <2>1, <2>2, SMTT(60) DEF SignalFree, SignalFlag
<1>13. ASSUME NEW t \in Threads, NEW set \in SignalSets, SignalHeld(t, set) PROVE Goal'
  <2>1. set \subseteq cvTree
    BY SMTT(60) DEF SignalSets
  <2>2. \A w \in cvTree : pc[w] = "cvwait" /\ lockOwner[w] = NoThread
    OBVIOUS
  <2>3. set # {} => word.owner # NoThread
    BY <1>13 DEF SignalHeld, PrevTagFree, FreeWord, Word
  <2> QED BY <1>13, <2>1, <2>2, <2>3, SMTT(60) DEF SignalHeld, SignalFlag
<1>14. ASSUME NEW t \in Threads, NEW set \in SignalSets, SignalInvalid(t, set) PROVE Goal'
  BY <1>14, SMTT(60) DEF SignalInvalid, SignalFlag, SignalSets
<1>15. ASSUME NEW t \in Threads, OnTimer(t) PROVE Goal'
  BY <1>15, SMTT(60) DEF OnTimer
<1>16. ASSUME NEW t \in Threads, TerminateChildren(t) PROVE Goal'
  BY <1>16 DEF TerminateChildren
<1>17. ASSUME NEW t \in Threads, Exit(t) PROVE Goal'
  BY <1>17 DEF Exit
<1>18. ASSUME NEW t \in Threads, CloseHandle(t) PROVE Goal'
  BY <1>18 DEF CloseHandle
<1>19. ASSUME NEW t \in Threads, Finalize(t) PROVE Goal'
  BY <1>19 DEF Finalize
<1> QED BY <1>1, <1>2, <1>3, <1>4, <1>5, <1>6, <1>7, <1>8, <1>9, <1>10, <1>11, <1>12, <1>13,
           <1>14, <1>15, <1>16, <1>17, <1>18, <1>19 DEF Next, ThreadStep, Environment

\* The inductive invariant holds whatever threads exit or are terminated.
THEOREM IndInvHolds == Spec => []IndInv
<1>1. IndInv /\ [Next]_vars => IndInv'
  BY TypeStep, WordStep, TreeStep DEF IndInv
<1> QED BY InitInv, <1>1, PTL DEF Spec

\* The state of the mutex, of the condition variable and of the threads always
\* has its type.
THEOREM TypeCorrect == Spec => []TypeOK
<1>1. IndInv => TypeOK
  BY DEF IndInv
<1> QED BY IndInvHolds, <1>1, PTL

\* No two threads hold the user mutex, even when threads exit while they own it
\* or the process is terminated.
THEOREM MutualExclusion == Spec => []HolderOwnsWord
<1>1. IndInv => HolderOwnsWord
  BY DEF IndInv
<1> QED BY IndInvHolds, <1>1, PTL

\* A waiter the kernel has queued is always announced by the mutex word.
THEOREM WakeupNotLost == Spec => []NoLostWakeup
<1>1. IndInv => NoLostWakeup
  BY DEF IndInv, Linked, NoLostWakeup, TypeOK, Word
<1> QED BY IndInvHolds, <1>1, PTL

\* A thread is never in both of the trees that share its tree node.
THEOREM TreeNodeShared == Spec => []OneTree
<1>1. IndInv => OneTree
  BY DEF IndInv
<1> QED BY IndInvHolds, <1>1, PTL

\* A condition variable with waiters always has its flag set.
THEOREM FlagCorrect == Spec => []FlagAnnouncesWaiters
<1>1. IndInv => FlagAnnouncesWaiters
  BY DEF IndInv
<1> QED BY IndInvHolds, <1>1, PTL

\* Wait that hands the mutex over: where it leaves its caller and the next owner.
LEMMA WaitHandoffPc ==
    ASSUME TypeOK, NEW t \in Threads, NEW next \in Threads, NEW timeout \in Timeouts,
           next # t, WaitHandoff(t, next, timeout)
    PROVE  /\ pc'[t] \in {"lock", "cvwait"} /\ pc'[next] \in {"check", "held"}
           /\ \A w \in Threads \ {t, next} : pc'[w] = pc[w]
<1>1. DOMAIN pc = Threads
  BY DEF TypeOK
<1>2. pc' = [pc EXCEPT ![t] = WaitPc(timeout), ![next] = Resumed(@)]
  BY DEF WaitHandoff
<1> QED BY <1>1, <1>2 DEF WaitPc, Resumed

\* A step that hands the mutex from t to next keeps OwnerInv.
LEMMA HandoffOwner ==
    ASSUME OwnerInv, NEW t \in Threads, NEW next \in Threads, word'.owner = next,
           pc'[next] \in {"check", "held"}
    PROVE  OwnerInv'
BY DEF OwnerInv

\* Every step keeps a thread outside the mutex out of the word.
LEMMA OwnerStep == IndInv /\ OwnerInv /\ [Next]_vars => OwnerInv'
<1> SUFFICES ASSUME IndInv, OwnerInv, [Next]_vars PROVE OwnerInv'
  OBVIOUS
<1>a. DOMAIN pc = Threads /\ word \in Word
  BY DEF IndInv, TypeOK
<1>b. \A t, w \in Threads : w \in Waiters(t) => word.owner = t /\ pc[w] \in {"waiting", "cvwait"}
  BY NoThreadAssumption DEF IndInv, Linked, OneTree, Waiters
<1>c. \A w \in cvTree : w \in Threads /\ pc[w] = "cvwait"
  BY DEF IndInv, TypeOK, OneTree
<1>d. \A t \in Threads : pc[t] \in {"held", "unlock"} => word.owner = t
  BY DEF IndInv, HolderOwnsWord
<1> USE NoThreadAssumption DEF userVars, threadVars, waitVars, lifeVars
<1>1. CASE UNCHANGED <<word, pc>>
  BY <1>1 DEF OwnerInv
<1>2. ASSUME NEW t \in Threads, BeginLock(t) \/ UserCheck(t) \/ WaitForAddressReturns(t)
                                  \/ WaitForAddress(t) \/ OnTimer(t) \/ Exit(t)
      PROVE OwnerInv'
  <2>1. word' = word
    BY <1>2 DEF BeginLock, UserCheck, WaitForAddressReturns, WaitForAddress, OnTimer, Exit
  <2>2. \A w \in Threads \ {t} : pc'[w] = pc[w]
    BY <1>2, <1>a
       DEF BeginLock, UserCheck, WaitForAddressReturns, WaitForAddress, OnTimer, Exit
  <2>3. \/ pc'[t] \in {"check", "held", "unlock", "exited"}
        \/ pc[t] \notin {"check", "held", "unlock", "exited"}
        \/ word.owner # t
    BY <1>2, <1>a
       DEF BeginLock, UserCheck, WaitForAddressReturns, WaitForAddress, OnTimer, Exit
  <2> QED BY <2>1, <2>2, <2>3 DEF OwnerInv
<1>3. ASSUME NEW t \in Threads, UserLock(t), word = FreeWord PROVE OwnerInv'
  <2>1. word'.owner = t /\ pc'[t] = "held"
    BY <1>3, <1>a, SMTT(60) DEF UserLock
  <2> QED BY <2>1, HandoffOwner
<1>4. ASSUME NEW t \in Threads, UserLock(t), word # FreeWord PROVE OwnerInv'
  <2>1. word'.owner = word.owner
    BY <1>4, SMTT(60) DEF UserLock
  <2>2. pc[t] = "lock" /\ \A w \in Threads \ {t} : pc'[w] = pc[w]
    BY <1>4, <1>a DEF UserLock
  <2> QED BY <2>1, <2>2 DEF OwnerInv
<1>5. ASSUME NEW t \in Threads, UserUnlock(t) PROVE OwnerInv'
  <2>1. CASE word = [owner |-> t, waiters |-> FALSE]
    <3>1. word'.owner = NoThread
      BY <1>5, <2>1, SMTT(60) DEF UserUnlock, FreeWord
    <3> QED BY <3>1 DEF OwnerInv
  <2>2. CASE word # [owner |-> t, waiters |-> FALSE]
    <3>1. word' = word /\ pc'[t] = "unlock" /\ \A w \in Threads \ {t} : pc'[w] = pc[w]
      BY <1>5, <2>2, <1>a DEF UserUnlock
    <3> QED BY <3>1 DEF OwnerInv
  <2> QED BY <2>1, <2>2
<1>6. ASSUME NEW t \in Threads, NEW timeout,
             SignalToAddressNoWaiter(t) \/ WaitNoWaiter(t, timeout)
      PROVE OwnerInv'
  <2>1. word'.owner = NoThread
    BY <1>6, SMTT(60) DEF SignalToAddressNoWaiter, WaitNoWaiter, FreeWord
  <2> QED BY <2>1 DEF OwnerInv
<1>7. ASSUME NEW t \in Threads, NEW next \in Threads, SignalToAddress(t, next)
      PROVE OwnerInv'
  <2>1. next \in Waiters(t) /\ word'.owner = next /\ pc[t] = "unlock"
    BY <1>7 DEF SignalToAddress, HandoffWord
  <2>2. pc'[next] \in {"check", "held"}
    BY <1>7, <1>a, <1>b, <2>1 DEF SignalToAddress, Resumed
  <2> QED BY <2>1, <2>2, HandoffOwner
<1>8. ASSUME NEW t \in Threads, NEW next \in Threads, NEW timeout \in Timeouts,
             WaitHandoff(t, next, timeout)
      PROVE OwnerInv'
  <2>1. next \in Waiters(t) /\ word'.owner = next /\ pc[t] = "held"
    BY <1>8 DEF WaitHandoff, CanWait, HandoffWord
  <2>2. next # t
    BY <1>b, <2>1
  <2>3. pc'[next] \in {"check", "held"}
    BY <1>8, <2>2, WaitHandoffPc DEF IndInv
  <2> QED BY <2>1, <2>3, HandoffOwner
<1>9. ASSUME NEW t \in Threads, NEW set \in SignalSets, NEW first \in set,
             SignalFree(t, set, first)
      PROVE OwnerInv'
  <2>1. first \in Threads
    BY <1>c DEF SignalSets
  <2>2. word'.owner = first /\ pc'[first] = "held"
    BY <1>9, <1>a, <2>1 DEF SignalFree
  <2> QED BY <2>1, <2>2, HandoffOwner
<1>10. ASSUME NEW t \in Threads, NEW set \in SignalSets, SignalHeld(t, set) PROVE OwnerInv'
  <2>1. word'.owner = word.owner /\ pc' = pc
    BY <1>10 DEF SignalHeld, SignalHeldWord
  <2> QED BY <2>1 DEF OwnerInv
<1>11. ASSUME NEW t \in Threads, NEW set \in SignalSets, SignalInvalid(t, set) PROVE OwnerInv'
  <2>1. word'.owner = word.owner
    BY <1>11 DEF SignalInvalid, SignalHeldWord
  <2>2. \A w \in Threads : pc'[w] = pc[w] \/ pc[w] = "cvwait"
    BY <1>11, <1>c DEF SignalInvalid, SignalSets
  <2> QED BY <2>1, <2>2 DEF OwnerInv
<1>12. ASSUME NEW t \in Threads, TerminateChildren(t) PROVE OwnerInv'
  <2>1. word' = word
    BY <1>12 DEF TerminateChildren
  <2>2. \A w \in Threads : pc'[w] = pc[w] \/ pc'[w] = "exited" \/ pc[w] \in {"waiting", "cvwait"}
    BY <1>12 DEF TerminateChildren
  <2> QED BY <2>1, <2>2 DEF OwnerInv
<1>13. ASSUME NEW t \in Threads, Finalize(t) PROVE OwnerInv'
  <2>1. word' = word
    BY <1>13 DEF Finalize
  <2>2. \A w \in Threads : pc'[w] = pc[w] \/ pc[w] \in {"waiting", "cvwait"}
    BY <1>13, <1>b DEF Finalize, Waiters
  <2> QED BY <2>1, <2>2 DEF OwnerInv
<1>14. ASSUME NEW t \in Threads, CloseHandle(t) PROVE OwnerInv'
  BY <1>14, <1>1 DEF CloseHandle
<1> HIDE DEF OwnerInv
<1> QED BY <1>1, <1>2, <1>3, <1>4, <1>5, <1>6, <1>7, <1>8, <1>9, <1>10, <1>11, <1>12, <1>13,
           <1>14 DEF Next, ThreadStep, Environment, vars

\* OwnerInv holds in every process.
LEMMA OwnerHolds == Spec => []OwnerInv
BY InitInv, IndInvHolds, OwnerStep, PTL DEF Spec

\* In a process whose threads give the mutex up before they exit, and that is
\* not terminated, every step keeps a thread that has exited out of the word.
LEMMA OrderlyStep ==
    ASSUME Deserters = {}, ProcessExits = FALSE
    PROVE  IndInv /\ OwnerInv /\ OrderlyInv /\ [Next]_vars => OrderlyInv'
<1> SUFFICES ASSUME IndInv, OwnerInv, OrderlyInv, [Next]_vars PROVE OrderlyInv'
  OBVIOUS
<1> USE NoThreadAssumption
    DEF IndInv, TypeOK, OrderlyInv, OneTree, Waiters, userVars, threadVars, waitVars, lifeVars
<1>1. CASE UNCHANGED vars
  BY <1>1 DEF vars
<1>2. ASSUME NEW t \in Threads, BeginLock(t) \/ UserCheck(t) \/ WaitForAddressReturns(t)
      PROVE OrderlyInv'
  BY <1>2, SMTT(60) DEF BeginLock, UserCheck, WaitForAddressReturns
<1>3. ASSUME NEW t \in Threads, UserLock(t) PROVE OrderlyInv'
  <2>1. CASE word = FreeWord
    <3>1. word'.owner = t /\ pc' = [pc EXCEPT ![t] = "held"]
      BY <1>3, <2>1, SMTT(60) DEF UserLock
    <3> QED BY <1>3, <3>1, SMTT(60) DEF UserLock
  <2>2. CASE word # FreeWord
    <3>1. word'.owner = word.owner /\ pc' = [pc EXCEPT ![t] = "arbitrate"]
      BY <1>3, <2>2, SMTT(60) DEF UserLock
    <3> QED BY <1>3, <3>1 DEF UserLock
  <2> QED BY <2>1, <2>2
<1>4. ASSUME NEW t \in Threads, UserUnlock(t) PROVE OrderlyInv'
  <2>1. CASE word = [owner |-> t, waiters |-> FALSE]
    <3>1. word'.owner = NoThread /\ pc' = [pc EXCEPT ![t] = "idle"]
      BY <1>4, <2>1, SMTT(60) DEF UserUnlock, FreeWord
    <3> QED BY <1>4, <3>1, SMTT(60) DEF UserUnlock
  <2>2. CASE word # [owner |-> t, waiters |-> FALSE]
    BY <1>4, <2>2, SMTT(60) DEF UserUnlock
  <2> QED BY <2>1, <2>2
<1>5. ASSUME NEW t \in Threads, WaitForAddress(t) PROVE OrderlyInv'
  <2>1. /\ pc[t] = "arbitrate" /\ pc' = [pc EXCEPT ![t] = "waiting"]
        /\ UNCHANGED <<word, object, terminating, crashed>>
    BY <1>5 DEF WaitForAddress
  <2> QED BY <2>1
<1>6. ASSUME NEW t \in Threads, SignalToAddressNoWaiter(t) PROVE OrderlyInv'
  BY <1>6 DEF SignalToAddressNoWaiter, FreeWord
<1>7. ASSUME NEW t \in Threads, NEW next \in Threads, SignalToAddress(t, next)
      PROVE OrderlyInv'
  <2>1. word'.owner = next /\ next # t /\ pc[next] \in {"waiting", "cvwait"}
    BY <1>7 DEF SignalToAddress, HandoffWord
  <2>2. /\ pc[t] = "unlock" /\ pc'[t] = "idle" /\ pc'[next] \in {"check", "held"}
        /\ \A w \in Threads \ {t, next} : pc'[w] = pc[w]
    <3>1. pc' = [pc EXCEPT ![t] = "idle", ![next] = Resumed(@)] /\ pc[t] = "unlock"
      BY <1>7 DEF SignalToAddress
    <3>2. DOMAIN pc = Threads
      OBVIOUS
    <3> HIDE DEF IndInv, TypeOK, OrderlyInv, OneTree
    <3> QED BY <2>1, <3>1, <3>2 DEF Resumed
  <2>3. object' = object /\ terminating' = terminating /\ crashed' = crashed
    BY <1>7 DEF SignalToAddress
  <2> HIDE DEF IndInv, TypeOK, OneTree, Waiters
  <2> QED BY <2>1, <2>2, <2>3
<1>8. ASSUME NEW t \in Threads, NEW timeout \in Timeouts, WaitNoWaiter(t, timeout)
      PROVE OrderlyInv'
  BY <1>8 DEF WaitNoWaiter, CanWait, WaitPc, FreeWord
<1>9. ASSUME NEW t \in Threads, NEW next \in Threads, NEW timeout \in Timeouts,
             WaitHandoff(t, next, timeout)
      PROVE OrderlyInv'
  <2>1. word'.owner = next /\ next # t /\ pc[next] \in {"waiting", "cvwait"}
    BY <1>9 DEF WaitHandoff, CanWait, HandoffWord
  <2>2. /\ pc'[t] \in {"lock", "cvwait"} /\ pc'[next] \in {"check", "held"}
        /\ \A w \in Threads \ {t, next} : pc'[w] = pc[w]
    <3> HIDE DEF TypeOK, OrderlyInv, OneTree, Waiters
    <3> QED BY <1>9, <2>1, WaitHandoffPc
  <2>3. object' = object /\ terminating' = terminating /\ crashed' = crashed
    BY <1>9 DEF WaitHandoff
  <2>4. object[next] = "live"
    BY <2>1
  <2>5. pc[t] = "held" /\ object[t] = "live"
    BY <1>9 DEF WaitHandoff, CanWait
  <2>6. /\ \A w \in Threads : pc[w] = "exited" => word.owner # w
        /\ \A w \in Threads : ~terminating[w]
        /\ \A w \in Threads : object[w] # "live" => pc[w] = "exited"
        /\ ~crashed
    OBVIOUS
  <2> HIDE DEF IndInv, TypeOK, OneTree, Waiters
  <2> QED BY <2>1, <2>2, <2>3, <2>4, <2>5, <2>6
<1>10. ASSUME NEW t \in Threads, NEW set \in SignalSets, NEW first \in set,
              SignalFree(t, set, first)
       PROVE OrderlyInv'
  <2>1. first \in Threads /\ pc[first] = "cvwait"
    BY SMTT(60) DEF SignalSets
  <2> QED BY <1>10, <2>1 DEF SignalFree
<1>11. ASSUME NEW t \in Threads, NEW set \in SignalSets, SignalHeld(t, set) PROVE OrderlyInv'
  <2>1. word'.owner = word.owner
    BY <1>11 DEF SignalHeld, SignalHeldWord
  <2> QED BY <1>11, <2>1 DEF SignalHeld
<1>12. ASSUME NEW t \in Threads, NEW set \in SignalSets, SignalInvalid(t, set)
       PROVE OrderlyInv'
  <2>1. word.owner \in Threads
    BY <1>12 DEF SignalInvalid, PrevTagFree, Word, FreeWord
  <2> QED BY <1>12, <2>1 DEF SignalInvalid
<1>13. ASSUME NEW t \in Threads, OnTimer(t) PROVE OrderlyInv'
  BY <1>13 DEF OnTimer
<1>14. ASSUME NEW t \in Threads, TerminateChildren(t) PROVE OrderlyInv'
  BY <1>14 DEF TerminateChildren
<1>15. ASSUME NEW t \in Threads, Exit(t) \/ CloseHandle(t) PROVE OrderlyInv'
  <2>1. CASE Exit(t)
    <3>1. pc[t] = "idle" /\ pc' = [pc EXCEPT ![t] = "exited"]
      BY <2>1 DEF Exit
    <3>2. word.owner # t
      BY <3>1 DEF OwnerInv
    <3> QED BY <2>1, <3>1, <3>2 DEF Exit
  <2>2. CASE CloseHandle(t)
    BY <2>2 DEF CloseHandle
  <2> QED BY <1>15, <2>1, <2>2
<1>16. ASSUME NEW t \in Threads, Finalize(t) PROVE OrderlyInv'
  <2>1. Waiters(t) = {}
    <3>1. pc[t] = "exited"
      BY <1>16 DEF Finalize
    <3>2. word.owner # t
      BY <3>1
    <3>3. Linked
      OBVIOUS
    <3> HIDE DEF IndInv, TypeOK, OrderlyInv, OneTree
    <3> QED BY <3>2, <3>3 DEF Linked
  <2> QED BY <1>16, <2>1 DEF Finalize
<1> QED BY <1>1, <1>2, <1>3, <1>4, <1>5, <1>6, <1>7, <1>8, <1>9, <1>10, <1>11, <1>12, <1>13,
           <1>14, <1>15, <1>16 DEF Next, ThreadStep, Environment

\* The orderly invariant holds in such a process.
LEMMA OrderlyHolds ==
    ASSUME Deserters = {}, ProcessExits = FALSE
    PROVE  Spec => []OrderlyInv
<1>1. IndInv /\ OwnerInv /\ OrderlyInv /\ [Next]_vars => OrderlyInv'
  BY OrderlyStep
<1> QED BY InitInv, IndInvHolds, OwnerHolds, <1>1, PTL DEF Spec

\* Finalize meets no waiter that WaitForAddress has queued, as long as no thread
\* exits while it owns the mutex.
THEOREM FinalizeSafe ==
    ASSUME Deserters = {}, ProcessExits = FALSE
    PROVE  Spec => []NeverCrashes
<1>1. OrderlyInv => NeverCrashes
  BY DEF OrderlyInv, NeverCrashes
<1> QED BY OrderlyHolds, <1>1, PTL

\* The word, the user code around it and the kernel calls implement a mutex, also
\* in a process whose threads exit as owners or are terminated: each step takes
\* it, releases it, hands it over, asks for it, gives up asking, or leaves it.
THEOREM UserMutexIsMutex == Spec => ImplementsMutex
<1>1. Init => Abstract!Init
  BY NoThreadAssumption, SMTT(60) DEF Init, Abstract!Init, MutexHolder, MutexWant, FreeWord
<1>2. IndInv /\ OwnerInv /\ [Next]_vars => [Abstract!Next]_(Abstract!vars)
  <2> SUFFICES ASSUME IndInv, OwnerInv, [Next]_vars
               PROVE  Abstract!Next \/ UNCHANGED <<MutexHolder, MutexWant>>
    BY DEF Abstract!vars
  <2> DEFINE Same == UNCHANGED <<MutexHolder, MutexWant>>
  <2>a. DOMAIN pc = Threads /\ word \in Word
    BY DEF IndInv, TypeOK
  <2>b. \A t \in Threads : pc[t] \in {"held", "unlock"} => word.owner = t
    BY DEF IndInv, HolderOwnsWord
  <2>c. \A t \in Threads : pc[t] \notin {"check", "held", "unlock", "exited"} => word.owner # t
    BY DEF OwnerInv
  <2>d. \A t, w \in Threads :
           w \in Waiters(t) => word.owner = t /\ pc[w] \in {"waiting", "cvwait"}
    BY NoThreadAssumption DEF IndInv, Linked, OneTree, Waiters
  <2>e. \A w \in cvTree : w \in Threads /\ pc[w] = "cvwait"
    BY DEF IndInv, TypeOK, OneTree
  <2> USE NoThreadAssumption
      DEF MutexHolder, MutexWant, userVars, threadVars, waitVars, lifeVars
  <2>1. CASE UNCHANGED <<word, pc>>
    BY <2>1
  <2>2. ASSUME NEW t \in Threads, BeginLock(t) PROVE Abstract!Request(t)
    <3>1. /\ word' = word /\ pc[t] = "idle" /\ pc'[t] = "lock"
          /\ \A w \in Threads \ {t} : pc'[w] = pc[w]
      BY <2>2, <2>a DEF BeginLock
    <3> QED BY <3>1, <2>c DEF Abstract!Request
  <2>3. ASSUME NEW t \in Threads, UserLock(t), word = FreeWord PROVE Abstract!Acquire(t)
    <3>1. word.owner = NoThread /\ word'.owner = t
      BY <2>3, SMTT(60) DEF UserLock, FreeWord
    <3>2. /\ pc[t] = "lock" /\ pc'[t] = "held"
          /\ \A w \in Threads \ {t} : pc'[w] = pc[w]
      BY <2>3, <2>a DEF UserLock
    <3> QED BY <3>1, <3>2 DEF Abstract!Acquire
  <2>4. ASSUME NEW t \in Threads, UserLock(t), word # FreeWord PROVE Same
    <3>1. word'.owner = word.owner
      BY <2>4, SMTT(60) DEF UserLock
    <3>2. /\ pc[t] = "lock" /\ pc'[t] = "arbitrate"
          /\ \A w \in Threads \ {t} : pc'[w] = pc[w]
      BY <2>4, <2>a DEF UserLock
    <3> QED BY <3>1, <3>2
  <2>5. ASSUME NEW t \in Threads, UserCheck(t) PROVE Same
    <3>1. /\ pc[t] = "check" /\ pc'[t] = IF word.owner = t THEN "held" ELSE "lock"
          /\ \A w \in Threads \ {t} : pc'[w] = pc[w]
      BY <2>5, <2>a DEF UserCheck
    <3>2. word' = word
      BY <2>5 DEF UserCheck
    <3> QED BY <3>1, <3>2
  <2>6. ASSUME NEW t \in Threads, UserUnlock(t), word = [owner |-> t, waiters |-> FALSE]
        PROVE Abstract!Release(t)
    <3>1. word.owner = t /\ word'.owner = NoThread
      BY <2>6, SMTT(60) DEF UserUnlock, FreeWord
    <3>2. /\ pc[t] = "held" /\ pc'[t] = "idle"
          /\ \A w \in Threads \ {t} : pc'[w] = pc[w]
      BY <2>6, <2>a DEF UserUnlock
    <3>3. MutexWant' = MutexWant \cup {}
      BY <3>1, <3>2
    <3> QED BY <3>1, <3>3, {} \in SUBSET {t} DEF Abstract!Release
  <2>7. ASSUME NEW t \in Threads, UserUnlock(t), word # [owner |-> t, waiters |-> FALSE]
        PROVE Same
    <3>1. /\ word' = word /\ pc[t] = "held" /\ pc'[t] = "unlock"
          /\ \A w \in Threads \ {t} : pc'[w] = pc[w]
      BY <2>7, <2>a DEF UserUnlock
    <3> QED BY <3>1
  <2>8. ASSUME NEW t \in Threads, WaitForAddressReturns(t) \/ WaitForAddress(t) PROVE Same
    <3>1. /\ word' = word /\ pc[t] = "arbitrate" /\ pc'[t] \in {"check", "waiting"}
          /\ \A w \in Threads \ {t} : pc'[w] = pc[w]
      BY <2>8, <2>a DEF WaitForAddressReturns, WaitForAddress
    <3> QED BY <3>1, <2>c
  <2>9. ASSUME NEW t \in Threads, SignalToAddressNoWaiter(t) PROVE Abstract!Release(t)
    <3>1. /\ word'.owner = NoThread /\ pc[t] = "unlock" /\ pc'[t] = "idle"
          /\ \A w \in Threads \ {t} : pc'[w] = pc[w]
      BY <2>9, <2>a DEF SignalToAddressNoWaiter, FreeWord
    <3>2. word.owner = t
      BY <3>1, <2>b
    <3>3. MutexWant' = MutexWant \cup {}
      BY <3>1, <3>2
    <3> QED BY <3>1, <3>2, <3>3, {} \in SUBSET {t} DEF Abstract!Release
  <2>10. ASSUME NEW t \in Threads, NEW next \in Threads, SignalToAddress(t, next)
         PROVE Abstract!Handoff(t, next)
    <3>1. /\ next \in Waiters(t) /\ word'.owner = next /\ pc[t] = "unlock"
          /\ pc' = [pc EXCEPT ![t] = "idle", ![next] = Resumed(@)]
      BY <2>10 DEF SignalToAddress, HandoffWord
    <3>2. word.owner = t /\ pc[next] \in {"waiting", "cvwait"} /\ next # t
      BY <3>1, <2>d
    <3>3. /\ pc'[t] = "idle" /\ pc'[next] \in {"check", "held"}
          /\ \A w \in Threads \ {t, next} : pc'[w] = pc[w]
      BY <3>1, <3>2, <2>a DEF Resumed
    <3>4. next \in MutexWant /\ MutexWant' = (MutexWant \ {next}) \cup {}
      BY <3>1, <3>2, <3>3
    <3> QED BY <3>1, <3>2, <3>4, {} \in SUBSET {t} DEF Abstract!Handoff
  <2>11. ASSUME NEW t \in Threads, NEW timeout \in Timeouts, WaitNoWaiter(t, timeout)
         PROVE Abstract!Release(t)
    <3>1. /\ word'.owner = NoThread /\ pc[t] = "held" /\ pc'[t] \in {"lock", "cvwait"}
          /\ \A w \in Threads \ {t} : pc'[w] = pc[w]
      BY <2>11, <2>a DEF WaitNoWaiter, CanWait, WaitPc, FreeWord
    <3>2. word.owner = t
      BY <3>1, <2>b
    <3>3. MutexWant' = MutexWant \cup {t}
      BY <3>1, <3>2
    <3> QED BY <3>1, <3>2, <3>3, {t} \in SUBSET {t} DEF Abstract!Release
  <2>12. ASSUME NEW t \in Threads, NEW next \in Threads, NEW timeout \in Timeouts,
                WaitHandoff(t, next, timeout)
         PROVE Abstract!Handoff(t, next)
    <3>1. next \in Waiters(t) /\ word'.owner = next /\ pc[t] = "held"
      BY <2>12 DEF WaitHandoff, CanWait, HandoffWord
    <3>2. word.owner = t /\ pc[next] \in {"waiting", "cvwait"} /\ next # t
      BY <3>1, <2>d
    <3>3. /\ pc'[t] \in {"lock", "cvwait"} /\ pc'[next] \in {"check", "held"}
          /\ \A w \in Threads \ {t, next} : pc'[w] = pc[w]
      BY <2>12, <3>2, WaitHandoffPc DEF IndInv
    <3>4. next \in MutexWant /\ MutexWant' = (MutexWant \ {next}) \cup {t}
      BY <3>1, <3>2, <3>3
    <3> QED BY <3>1, <3>2, <3>4, {t} \in SUBSET {t} DEF Abstract!Handoff
  <2>13. ASSUME NEW t \in Threads, NEW set \in SignalSets, NEW first \in set,
                SignalFree(t, set, first)
         PROVE first \in Threads /\ Abstract!Acquire(first)
    <3>1. first \in Threads /\ pc[first] = "cvwait"
      BY <2>e DEF SignalSets
    <3>2. word.owner = NoThread /\ word'.owner = first
      BY <2>13 DEF SignalFree, PrevTagFree, FreeWord
    <3>3. pc'[first] = "held" /\ \A w \in Threads \ {first} : pc'[w] = pc[w]
      BY <2>13, <3>1, <2>a DEF SignalFree
    <3>4. first \in MutexWant /\ MutexWant' = MutexWant \ {first}
      BY <3>1, <3>2, <3>3
    <3> QED BY <3>2, <3>1, <3>4 DEF Abstract!Acquire
  <2>14. ASSUME NEW t \in Threads, NEW set \in SignalSets, SignalHeld(t, set) PROVE Same
    <3>1. word'.owner = word.owner
      BY <2>14 DEF SignalHeld, SignalHeldWord
    <3>2. pc' = pc
      BY <2>14 DEF SignalHeld
    <3> QED BY <3>1, <3>2
  <2>w. ASSUME word'.owner = word.owner, MutexWant' \subseteq MutexWant
        PROVE Abstract!Next
    <3>1. MutexWant' = MutexWant \ (MutexWant \ MutexWant')
      BY <2>w
    <3>2. Abstract!Withdraw(MutexWant \ MutexWant')
      BY <2>w, <3>1 DEF Abstract!Withdraw
    <3>3. MutexWant \ MutexWant' \in SUBSET MutexWant
      OBVIOUS
    <3> HIDE DEF MutexHolder, MutexWant
    <3> QED BY <3>2, <3>3 DEF Abstract!Next
  <2>15. ASSUME NEW t \in Threads, NEW set \in SignalSets, SignalInvalid(t, set)
         PROVE Abstract!Next
    <3>1. word'.owner = word.owner
      BY <2>15 DEF SignalInvalid, SignalHeldWord
    <3>2. \A w \in Threads : pc'[w] = pc[w] \/ pc'[w] = "idle"
      BY <2>15 DEF SignalInvalid
    <3>3. MutexWant' \subseteq MutexWant
      BY <3>1, <3>2
    <3> QED BY <3>1, <3>3, <2>w
  <2>16. ASSUME NEW t \in Threads, OnTimer(t) \/ Exit(t) \/ CloseHandle(t) PROVE Abstract!Next
    <3>1. word' = word
      BY <2>16 DEF OnTimer, Exit, CloseHandle
    <3>2. \/ pc[t] = "cvwait" /\ pc' = [pc EXCEPT ![t] = "lock"]
          \/ pc' = [pc EXCEPT ![t] = "exited"]
          \/ pc' = pc
      BY <2>16 DEF OnTimer, Exit, CloseHandle
    <3>3. \/ pc[t] = "cvwait" /\ pc'[t] = "lock"
          \/ pc'[t] = "exited"
          \/ pc'[t] = pc[t]
      BY <3>2, <2>a
    <3>4. \A w \in Threads \ {t} : pc'[w] = pc[w]
      BY <3>2, <2>a
    <3>5. MutexWant' \subseteq MutexWant
      BY <3>1, <3>3, <3>4
    <3> QED BY <3>1, <3>5, <2>w
  <2>17. ASSUME NEW t \in Threads, TerminateChildren(t) PROVE Abstract!Next
    <3>1. word' = word
      BY <2>17 DEF TerminateChildren
    <3>2. \A w \in Threads : \/ pc'[w] = pc[w] \/ pc'[w] \in {"exited", "idle"}
                             \/ pc[w] = "waiting" /\ pc'[w] = "check"
      BY <2>17 DEF TerminateChildren
    <3>3. MutexWant' \subseteq MutexWant
      BY <3>1, <3>2
    <3> QED BY <3>1, <3>3, <2>w
  <2>18. ASSUME NEW t \in Threads, Finalize(t) PROVE Abstract!Next
    <3>1. word' = word
      BY <2>18 DEF Finalize
    <3>2. \A w \in Threads : \/ pc'[w] = pc[w] \/ pc'[w] = "idle"
                             \/ pc[w] \in {"waiting", "cvwait"} /\ pc'[w] = "check"
      BY <2>18, <2>d DEF Finalize, Waiters
    <3>3. MutexWant' \subseteq MutexWant
      BY <3>1, <3>2
    <3> QED BY <3>1, <3>3, <2>w
  <2> HIDE DEF MutexHolder, MutexWant
  <2> QED BY <2>1, <2>2, <2>3, <2>4, <2>5, <2>6, <2>7, <2>8, <2>9, <2>10, <2>11, <2>12, <2>13,
             <2>14, <2>15, <2>16, <2>17, <2>18
           DEF Next, ThreadStep, Environment, Abstract!Next, vars
<1> QED BY <1>1, <1>2, IndInvHolds, OwnerHolds, PTL DEF Spec, ImplementsMutex, Abstract!Spec
=============================================================================
