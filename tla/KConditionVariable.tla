------------------------- MODULE KConditionVariable -------------------------
(***************************************************************************)
(* The process-wide key: a user mutex (ArbitrateLock, ArbitrateUnlock) and *)
(* a condition variable used with it (WaitProcessWideKeyAtomic,            *)
(* SignalProcessWideKey).  The word of the mutex holds the handle of its   *)
(* owner and a has-waiters bit; user code takes and frees it with          *)
(* compare-and-swap and calls the kernel when it cannot.                   *)
(*                                                                         *)
(* A section under the scheduler lock is one step.  User code changes the  *)
(* word without that lock, but a section reads the word at most once, and  *)
(* user code never reads the kernel's lists, so a user step inside a       *)
(* section can be moved before or after it.  Which waiter is first is left *)
(* open (KPriorityInheritance models the choice by priority).              *)
(***************************************************************************)
EXTENDS Naturals, FiniteSets

CONSTANTS
    Threads,        \* the threads of the process
    NoThread,       \* the null thread pointer, and the zero handle
    Deserters,      \* the threads that may exit while they own the mutex
    ProcessExits,   \* whether a thread may call ExitProcess
    MaxCalls        \* bound on the locks and the waits of each thread

ASSUME NoThreadAssumption == NoThread \notin Threads
ASSUME MaxCallsAssumption == MaxCalls \in Nat /\ ProcessExits \in BOOLEAN

VARIABLES
    word,           \* the mutex word: owner handle and Svc::HandleWaitMask
    cvFlag,         \* the word at the condition variable's key
    pc,             \* where each thread is
    seen,           \* the handle a thread passes to ArbitrateLock, until it is used
    lockOwner,      \* GetLockOwner()
    ref,            \* the owner WaitForAddress holds a reference to
    cvTree,         \* m_tree of the condition variable
    timer,          \* the wait has a timer task
    terminating,    \* m_termination_requested
    object,         \* "live", "closed" (no handle left) or "freed" (finalized)
    crashed,        \* the kernel has dereferenced a null pointer
    calls           \* locks and waits so far, capped by MaxCalls

userVars == <<word, cvFlag, calls>>
threadVars == <<pc, seen, timer>>
waitVars == <<lockOwner, ref, cvTree>>
lifeVars == <<terminating, object, crashed>>
vars == <<userVars, threadVars, waitVars, lifeVars>>

FreeWord == [owner |-> NoThread, waiters |-> FALSE]
Word == [owner : Threads \cup {NoThread}, waiters : BOOLEAN]

Init ==
    /\ word = FreeWord /\ cvFlag = FALSE
    /\ calls = [t \in Threads |-> 0]
    /\ pc = [t \in Threads |-> "idle"]
    /\ seen = [t \in Threads |-> NoThread]
    /\ timer = [t \in Threads |-> FALSE]
    /\ lockOwner = [t \in Threads |-> NoThread]
    /\ ref = [t \in Threads |-> NoThread]
    /\ cvTree = {}
    /\ terminating = [t \in Threads |-> FALSE]
    /\ object = [t \in Threads |-> "live"]
    /\ crashed = FALSE

Waiters(t) == {w \in Threads : lockOwner[w] = t}

\* A thread whose wait ends with success: one in WaitForAddress goes back to
\* read the word again, one in Wait returns as the owner of the mutex.
Resumed(s) == IF s = "waiting" THEN "check" ELSE "held"
-----------------------------------------------------------------------------
(* User code: the mutex of the guest's C library, around the two calls.    *)

BeginLock(t) ==
    /\ pc[t] = "idle" /\ calls[t] < MaxCalls
    /\ pc' = [pc EXCEPT ![t] = "lock"]
    /\ calls' = [calls EXCEPT ![t] = @ + 1]
    /\ UNCHANGED <<word, cvFlag, seen, timer, waitVars, lifeVars>>

\* Take the free word, or set the has-waiters bit and call the kernel.
UserLock(t) ==
    /\ pc[t] = "lock"
    /\ IF word = FreeWord
       THEN /\ word' = [owner |-> t, waiters |-> FALSE]
            /\ pc' = [pc EXCEPT ![t] = "held"]
            /\ seen' = seen
       ELSE /\ word' = [owner |-> word.owner, waiters |-> TRUE]
            /\ pc' = [pc EXCEPT ![t] = "arbitrate"]
            /\ seen' = [seen EXCEPT ![t] = word.owner]
    /\ UNCHANGED <<cvFlag, calls, timer, waitVars, lifeVars>>

\* ArbitrateLock has returned (closing its reference to the owner): the thread
\* holds the mutex if the word names it.
UserCheck(t) ==
    /\ pc[t] = "check"
    /\ pc' = [pc EXCEPT ![t] = IF word.owner = t THEN "held" ELSE "lock"]
    /\ ref' = [ref EXCEPT ![t] = NoThread]
    /\ UNCHANGED <<userVars, seen, timer, lockOwner, cvTree, lifeVars>>

UserUnlock(t) ==
    /\ pc[t] = "held"
    /\ IF word = [owner |-> t, waiters |-> FALSE]
       THEN word' = FreeWord /\ pc' = [pc EXCEPT ![t] = "idle"]
       ELSE word' = word /\ pc' = [pc EXCEPT ![t] = "unlock"]
    /\ UNCHANGED <<cvFlag, calls, seen, timer, waitVars, lifeVars>>
-----------------------------------------------------------------------------
(* The mutex: WaitForAddress and SignalToAddress.                          *)

TagMatches(t) == word = [owner |-> seen[t], waiters |-> TRUE]

CanWaitForAddress(t) == ~terminating[t] /\ TagMatches(t) /\ object[seen[t]] = "live"

\* The call returns at once: the thread is terminating, the word has changed,
\* or the handle is no longer valid.
WaitForAddressReturns(t) ==
    /\ pc[t] = "arbitrate" /\ ~CanWaitForAddress(t)
    /\ pc' = [pc EXCEPT ![t] = "check"]
    /\ seen' = [seen EXCEPT ![t] = NoThread]
    /\ UNCHANGED <<userVars, timer, waitVars, lifeVars>>

WaitForAddress(t) ==
    /\ pc[t] = "arbitrate" /\ CanWaitForAddress(t)
    /\ lockOwner' = [lockOwner EXCEPT ![t] = seen[t]]
    /\ ref' = [ref EXCEPT ![t] = seen[t]]
    /\ pc' = [pc EXCEPT ![t] = "waiting"]
    /\ seen' = [seen EXCEPT ![t] = NoThread]
    /\ UNCHANGED <<userVars, timer, cvTree, lifeVars>>

\* RemoveWaiterByKey: next leaves the waiters of t and the others follow it.
OwnersAfterHandoff(t, next) ==
    [w \in Threads |-> IF w = next THEN NoThread
                       ELSE IF lockOwner[w] = t THEN next ELSE lockOwner[w]]

\* Mutant: the word given to the next owner forgets the waiters that are left.
HandoffWordForgets(t, next) == [owner |-> next, waiters |-> FALSE]
HandoffWord(t, next) == [owner |-> next, waiters |-> Waiters(t) # {next}]

SignalToAddressNoWaiter(t) ==
    /\ pc[t] = "unlock" /\ Waiters(t) = {}
    /\ word' = FreeWord
    /\ pc' = [pc EXCEPT ![t] = "idle"]
    /\ UNCHANGED <<cvFlag, calls, seen, timer, waitVars, lifeVars>>

SignalToAddress(t, next) ==
    /\ pc[t] = "unlock" /\ next \in Waiters(t)
    /\ lockOwner' = OwnersAfterHandoff(t, next)
    /\ word' = HandoffWord(t, next)
    /\ pc' = [pc EXCEPT ![t] = "idle", ![next] = Resumed(@)]
    /\ timer' = [timer EXCEPT ![next] = FALSE]
    /\ UNCHANGED <<cvFlag, calls, seen, ref, cvTree, lifeVars>>
-----------------------------------------------------------------------------
(* The condition variable: Wait and Signal.                                *)

Timeouts == {"zero", "finite", "infinite"}

\* Mutant: a wait that times out at once is in the tree all the same.
WaitTreeAlways(t, timeout) == cvTree \cup {t}
\* What Wait leaves of the caller: with a zero timeout it has given the mutex
\* up and times out, and user code takes the mutex again.
WaitPc(timeout) == IF timeout = "zero" THEN "lock" ELSE "cvwait"
WaitTree(t, timeout) == IF timeout = "zero" THEN cvTree ELSE cvTree \cup {t}
WaitTimer(t, timeout) == [timer EXCEPT ![t] = timeout = "finite"]

WaitFlag(flag) == TRUE

CanWait(t) == pc[t] = "held" /\ calls[t] < MaxCalls /\ ~terminating[t]

WaitNoWaiter(t, timeout) ==
    /\ CanWait(t) /\ Waiters(t) = {}
    /\ word' = FreeWord
    /\ cvFlag' = WaitFlag(cvFlag)
    /\ calls' = [calls EXCEPT ![t] = @ + 1]
    /\ pc' = [pc EXCEPT ![t] = WaitPc(timeout)]
    /\ cvTree' = WaitTree(t, timeout)
    /\ timer' = WaitTimer(t, timeout)
    /\ UNCHANGED <<seen, lockOwner, ref, lifeVars>>

WaitHandoff(t, next, timeout) ==
    /\ CanWait(t) /\ next \in Waiters(t)
    /\ lockOwner' = OwnersAfterHandoff(t, next)
    /\ word' = HandoffWord(t, next)
    /\ cvFlag' = WaitFlag(cvFlag)
    /\ calls' = [calls EXCEPT ![t] = @ + 1]
    /\ pc' = [pc EXCEPT ![t] = WaitPc(timeout), ![next] = Resumed(@)]
    /\ cvTree' = WaitTree(t, timeout)
    /\ timer' = [WaitTimer(t, timeout) EXCEPT ![next] = FALSE]
    /\ UNCHANGED <<seen, ref, lifeVars>>

\* Mutant: the flag is cleared although waiters are left.
SignalFlagCleared(rest) == FALSE
SignalFlag(rest) == IF rest = {} THEN FALSE ELSE cvFlag

\* The waiters a call of Signal takes off the tree: one of them, or all when
\* the count is not positive.
SignalSets == {{w} : w \in cvTree} \cup {cvTree}

CanSignal(t, set) == pc[t] \in {"idle", "held"} /\ set \in SignalSets

\* Mutant: the tag of the waiter is stored over that of an owner.
PrevTagFreeAlways == TRUE
\* prev_tag, which UpdateLockAtomic found in the word, is the zero handle.
PrevTagFree == word = FreeWord

\* SignalImpl on a free mutex: the first waiter owns it, and the others are
\* added to its waiters, each setting the has-waiters bit.
SignalFree(t, set, first) ==
    /\ CanSignal(t, set) /\ first \in set /\ PrevTagFree
    /\ word' = [owner |-> first, waiters |-> set # {first}]
    /\ lockOwner' = [w \in Threads |-> IF w \in set \ {first} THEN first ELSE lockOwner[w]]
    /\ pc' = [pc EXCEPT ![first] = "held"]
    /\ timer' = [timer EXCEPT ![first] = FALSE]
    /\ cvTree' = cvTree \ set
    /\ cvFlag' = SignalFlag(cvTree')
    /\ UNCHANGED <<calls, seen, ref, lifeVars>>

\* Mutant: the has-waiters bit is not set for the waiters that are added.
SignalHeldWordUnset(set) == word
SignalHeldWord(set) == IF set = {} THEN word ELSE [owner |-> word.owner, waiters |-> TRUE]

\* SignalImpl on a held mutex: the waiters move to the owner the word names.
SignalHeld(t, set) ==
    /\ CanSignal(t, set) /\ (set = {} \/ ~PrevTagFree)
    /\ set # {} => object[word.owner] = "live"
    /\ word' = SignalHeldWord(set)
    /\ lockOwner' = [w \in Threads |-> IF w \in set THEN word.owner ELSE lockOwner[w]]
    /\ cvTree' = cvTree \ set
    /\ cvFlag' = SignalFlag(cvTree')
    /\ UNCHANGED <<calls, threadVars, ref, lifeVars>>

\* SignalImpl on a word whose handle is no longer valid: the waits end with
\* ResultInvalidState.
SignalInvalid(t, set) ==
    /\ CanSignal(t, set) /\ set # {} /\ ~PrevTagFree
    /\ object[word.owner] # "live"
    /\ word' = SignalHeldWord(set)
    /\ pc' = [w \in Threads |-> IF w \in set THEN "idle" ELSE pc[w]]
    /\ timer' = [w \in Threads |-> IF w \in set THEN FALSE ELSE timer[w]]
    /\ cvTree' = cvTree \ set
    /\ cvFlag' = SignalFlag(cvTree')
    /\ UNCHANGED <<calls, seen, lockOwner, ref, lifeVars>>
-----------------------------------------------------------------------------
(* Waits that are cancelled, and the end of threads.                       *)

\* Wait times out, in the tree or already moved to the mutex: user code takes
\* the mutex again.
OnTimer(t) ==
    /\ pc[t] = "cvwait" /\ timer[t]
    /\ lockOwner' = [lockOwner EXCEPT ![t] = NoThread]
    /\ cvTree' = cvTree \ {t}
    /\ timer' = [timer EXCEPT ![t] = FALSE]
    /\ pc' = [pc EXCEPT ![t] = "lock"]
    /\ UNCHANGED <<userVars, seen, ref, lifeVars>>

\* RequestTerminate on every thread of the process but t, under one scheduler
\* lock, by the thread t that ends the process and does not come back: the
\* waits end with ResultTerminationRequested.
TerminateChildren(t) ==
    /\ ProcessExits /\ pc[t] \in {"idle", "held"}
    /\ terminating' = [w \in Threads |-> terminating[w] \/ (w # t /\ pc[w] # "exited")]
    /\ pc' = [w \in Threads |-> IF w = t THEN "exited"
                                ELSE IF pc[w] = "waiting" THEN "check"
                                ELSE IF pc[w] = "cvwait" THEN "idle" ELSE pc[w]]
    /\ lockOwner' = [w \in Threads |-> NoThread]
    /\ cvTree' = {}
    /\ timer' = [w \in Threads |-> FALSE]
    /\ UNCHANGED <<userVars, seen, ref, object, crashed>>

\* A thread ends by itself, and a terminating one wherever it is in user code.
Exit(t) ==
    /\ \/ pc[t] = "idle"
       \/ t \in Deserters /\ pc[t] = "held"
       \/ terminating[t] /\ pc[t] \in {"lock", "arbitrate", "check", "held", "unlock"}
    /\ pc' = [pc EXCEPT ![t] = "exited"]
    /\ seen' = [seen EXCEPT ![t] = NoThread]
    /\ ref' = [ref EXCEPT ![t] = NoThread]
    /\ UNCHANGED <<userVars, timer, lockOwner, cvTree, lifeVars>>

CloseHandle(t) ==
    /\ pc[t] = "exited" /\ object[t] = "live"
    /\ object' = [object EXCEPT ![t] = "closed"]
    /\ UNCHANGED <<userVars, threadVars, waitVars, terminating, crashed>>

\* Finalize releases the waiters of a thread nobody refers to.  Each is taken
\* off its lock first, so that CancelWait finds no lock owner: the queue of
\* Wait allows for that, the queue of WaitForAddress dereferences it.
Finalize(t) ==
    /\ object[t] = "closed" /\ t \notin {ref[w] : w \in Threads}
    /\ object' = [object EXCEPT ![t] = "freed"]
    /\ crashed' = (\E w \in Waiters(t) : pc[w] = "waiting")
    /\ lockOwner' = [w \in Threads |-> IF lockOwner[w] = t THEN NoThread ELSE lockOwner[w]]
    /\ pc' = [w \in Threads |-> IF lockOwner[w] # t THEN pc[w]
                                ELSE IF pc[w] = "cvwait" THEN "idle" ELSE "check"]
    /\ timer' = [w \in Threads |-> IF lockOwner[w] = t THEN FALSE ELSE timer[w]]
    /\ UNCHANGED <<userVars, seen, ref, cvTree, terminating>>
-----------------------------------------------------------------------------
ThreadStep(t) ==
    \/ BeginLock(t) \/ UserLock(t) \/ UserCheck(t) \/ UserUnlock(t)
    \/ WaitForAddressReturns(t) \/ WaitForAddress(t)
    \/ SignalToAddressNoWaiter(t)
    \/ \E next \in Threads : SignalToAddress(t, next)
    \/ \E timeout \in Timeouts :
          \/ WaitNoWaiter(t, timeout)
          \/ \E next \in Threads : WaitHandoff(t, next, timeout)
    \/ \E set \in SignalSets :
          \/ \E first \in set : SignalFree(t, set, first)
          \/ SignalHeld(t, set)
          \/ SignalInvalid(t, set)

Environment(t) ==
    OnTimer(t) \/ TerminateChildren(t) \/ Exit(t) \/ CloseHandle(t) \/ Finalize(t)

Next == ~crashed /\ \E t \in Threads : ThreadStep(t) \/ Environment(t)

Spec == Init /\ [][Next]_vars

\* A thread inside a call of the mutex goes on, and one that holds the mutex
\* frees it in the end.  Nothing is assumed of new calls, of Signal, of timers
\* or of the end of threads.
Fairness ==
    \A t \in Threads :
        WF_vars(~crashed /\ (\/ UserLock(t) \/ UserCheck(t) \/ UserUnlock(t)
                             \/ WaitForAddressReturns(t) \/ WaitForAddress(t)
                             \/ SignalToAddressNoWaiter(t)
                             \/ \E next \in Threads : SignalToAddress(t, next)))

FairSpec == Spec /\ Fairness
-----------------------------------------------------------------------------
TypeOK ==
    /\ word \in Word /\ cvFlag \in BOOLEAN /\ crashed \in BOOLEAN
    /\ calls \in [Threads -> 0 .. MaxCalls]
    /\ pc \in [Threads -> {"idle", "lock", "arbitrate", "waiting", "check",
                           "held", "unlock", "cvwait", "exited"}]
    /\ seen \in [Threads -> Threads \cup {NoThread}]
    /\ lockOwner \in [Threads -> Threads \cup {NoThread}]
    /\ ref \in [Threads -> Threads \cup {NoThread}]
    /\ cvTree \in SUBSET Threads
    /\ timer \in [Threads -> BOOLEAN] /\ terminating \in [Threads -> BOOLEAN]
    /\ object \in [Threads -> {"live", "closed", "freed"}]

\* A thread that returned from the lock, from a handoff or from a wait with the
\* mutex is the one the word names: no two threads hold the mutex, whether it
\* went through user code, SignalToAddress, Wait or Signal.
HolderOwnsWord == \A t \in Threads : pc[t] \in {"held", "unlock"} => word.owner = t

\* While the kernel has a waiter for the mutex, the word names the thread the
\* waiter is queued on and has its has-waiters bit set, so that the owner's
\* unlock enters the kernel and finds the waiter.
NoLostWakeup ==
    \A w \in Threads :
        lockOwner[w] # NoThread => word = [owner |-> lockOwner[w], waiters |-> TRUE]

\* A thread is in at most one of the two trees that share its tree node, a
\* waiter is in exactly the tree its wait queue says, and a timer task belongs
\* to a thread inside Wait.
OneTree ==
    \A t \in Threads :
        /\ pc[t] = "waiting" => lockOwner[t] # NoThread /\ t \notin cvTree
        /\ pc[t] = "cvwait" => (lockOwner[t] # NoThread) # (t \in cvTree)
        /\ pc[t] \notin {"waiting", "cvwait"} => lockOwner[t] = NoThread /\ t \notin cvTree
        /\ timer[t] => pc[t] = "cvwait"

\* The word at the key is nonzero while the condition variable has waiters:
\* user code that skips Signal on a zero word wakes everyone it has to.
FlagAnnouncesWaiters == cvTree # {} => cvFlag

\* Finalize of a thread never cancels a WaitForAddress whose lock owner is
\* already gone.
NeverCrashes == ~crashed

\* A thread the kernel has queued on the mutex leaves the queue in the end, unless
\* the thread it is queued on has exited as the owner.
MutexWaiterServed ==
    \A t \in Threads :
        lockOwner[t] # NoThread ~> lockOwner[t] \in {NoThread} \cup {o \in Threads : pc[o] = "exited"}

MutexHolder == word.owner
MutexWant ==
    {t \in Threads : \/ pc[t] \in {"lock", "arbitrate", "waiting", "cvwait"}
                     \/ (pc[t] = "check" /\ word.owner # t)}

Abstract == INSTANCE Mutex WITH holder <- MutexHolder, want <- MutexWant

\* The word, user code and the four kernel calls implement the mutex; Wait
\* gives it up and asks for it again in one step.
ImplementsMutex == Abstract!Spec
=============================================================================
