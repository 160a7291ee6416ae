-------------------------- MODULE KSchedulerProofs --------------------------
(***************************************************************************)
(* For every number of cores, threads and hosts: m_context_guard keeps a   *)
(* thread on one core; no core misses a change of the thread it is to run; *)
(* the queues stay exact and the best threads are chosen from them; a      *)
(* thread that waits or has ended does not run; and who waits for a thread *)
(* to leave a core does so until it has, for good.                         *)
(***************************************************************************)
EXTENDS KSchedulerDataProofs, KSchedulerStepProofs

\* A leaf goes to Zenon, unless it cites the SMT solver for its arithmetic, records
\* or sequences.
USE ZenonT(30)

\* No two cores execute the same thread: the lock-free switch of ScheduleImpl and
\* ScheduleImplFiber is safe whatever threads it is told to switch to.
THEOREM ThreadOnOneCore == Spec => []OneCoreAtATime
<1>1. ContextInv => OneCoreAtATime
  BY DEF ContextInv, OneCoreAtATime
<1> QED BY <1>1, InitContext, NextContext, PTL DEF Spec

\* Core c is interrupted, or somebody is about to interrupt it.
Told(c) == interrupted[c] \/ \E a \in Actors : c \in ipis[a]

\* NoLostReschedule, and what it rests on: a core that still has to look at its
\* flag may find it set instead, and one that switches goes to the highest
\* priority thread.  A core that has yet to read that thread needs no promise.
RescheduleInv ==
    /\ DOMAIN highest = Cores /\ DOMAIN needs = Cores
    /\ DOMAIN interrupted = Cores /\ DOMAIN ipis = Actors
    /\ \A c \in Cores :
          /\ pc[c] \in {"loop", "guest"} => current[c] = highest[c] \/ Told(c)
          /\ pc[c] \in {"store", "flag", "resched"} => current[c] = highest[c] \/ needs[c] \/ Told(c)
          /\ pc[c] \in {"try", "check"} => next[c] = highest[c] \/ Told(c)

\* The initial state satisfies RescheduleInv: every core is idle, and is to be.
LEMMA InitReschedule == Init => RescheduleInv
BY DEF Init, RescheduleInv

\* A step under the scheduler lock preserves RescheduleInv.
LEMMA ReleasesReschedule ==
    ASSUME ContextInv, RescheduleInv, NEW a, Releases(a) PROVE RescheduleInv'
<1> USE DEF RescheduleInv
<1>1. current' = current /\ next' = next /\ ipis' = ipis
  BY DEF Releases, KeepsContexts
<1>2. DOMAIN interrupted' = Cores /\ \A c \in Cores : Told(c) => Told(c)'
  BY <1>1 DEF Releases, Told
<1>3. DOMAIN highest' = Cores /\ DOMAIN needs' = Cores
  BY DEF Releases
<1>4. ASSUME NEW c \in Cores, c # a
      PROVE  pc'[c] = pc[c] /\ highest'[c] = highest[c] /\ (needs[c] => needs'[c])
  BY <1>4, SMTT(60) DEF Releases, ContextInv
<1>5. ASSUME NEW c \in Cores, c = a
      PROVE  pc'[c] \in {"store", "resched"} /\ (highest'[c] = highest[c] \/ needs'[c])
             /\ pc[c] \in {"loop", "guest"}
  BY <1>5 DEF Releases, ContextInv, Actors
<1> QED BY <1>1, <1>2, <1>3, <1>4, <1>5

\* The stores and the interrupts that follow the release preserve RescheduleInv.
LEMMA StoresReschedule ==
    ASSUME ContextInv, RescheduleInv, NEW a \in Actors, Release(a) PROVE RescheduleInv'
<1> USE DEF RescheduleInv, ContextInv
<1>1. CASE StoreTop(a)
  <2>1. \A c \in Cores : Told(c) => Told(c)'
    BY <1>1 DEF StoreTop, Told
  <2>2. \A c \in Cores : highest'[c] = highest[c] \/ Told(c)'
    BY <1>1 DEF StoreTop, Told
  <2> QED BY <1>1, <2>1, <2>2, SMTT(60) DEF StoreTop
<1>2. CASE StoreNeeds(a)
  <2>1. \A c \in Cores : Told(c) => Told(c)'
    BY <1>2 DEF StoreNeeds, Told
  <2>2. DOMAIN needs' = Cores /\ \A c \in Cores : needs[c] => needs'[c]
    BY <1>2 DEF StoreNeeds
  <2> QED BY <1>2, <2>1, <2>2, SMTT(60) DEF StoreNeeds
<1>3. CASE RescheduleOtherCores(a)
  <2>1. PICK d : /\ interrupted' = [interrupted EXCEPT ![d] = TRUE]
                 /\ ipis' = [ipis EXCEPT ![a] = @ \ {d}]
    BY <1>3 DEF RescheduleOtherCores
  <2>2. \A c \in Cores : Told(c) => Told(c)'
    BY <2>1 DEF Told
  <2> QED BY <1>3, <2>1, <2>2 DEF RescheduleOtherCores, sync
<1> QED BY <1>1, <1>2, <1>3 DEF Release

\* What a core does on its own preserves RescheduleInv.
LEMMA CoreStepReschedule ==
    ASSUME ContextInv, RescheduleInv, NEW c \in Cores, CoreStep(c) PROVE RescheduleInv'
<1> USE DEF RescheduleInv, ContextInv
<1>1. CASE HandleInterrupt(c)
  <2>1. \A d \in Cores : d # c /\ Told(d) => Told(d)'
    BY <1>1 DEF HandleInterrupt, Told
  <2> QED BY <1>1, <2>1 DEF HandleInterrupt, Actors
<1>2. CASE ~HandleInterrupt(c)
  <2>1. interrupted' = interrupted /\ ipis' = ipis
    BY <1>2
    DEF CoreStep, RescheduleCurrentCore, RunThread, LoadHighest, ReloadHighest, SwitchThread, FinishSwitch
  <2>2. \A d \in Cores : Told(d)' = Told(d)
    BY <2>1 DEF Told
  <2> USE <2>1, <2>2 DEF Actors
  <2>3. CASE RescheduleCurrentCore(c)
    BY <2>3, SMTT(60) DEF RescheduleCurrentCore
  <2>4. CASE RunThread(c)
    BY <2>4 DEF RunThread, AtLoop, sync
  <2>5. CASE LoadHighest(c)
    BY <2>5, SMTT(60) DEF LoadHighest
  <2>6. CASE ReloadHighest(c)
    BY <2>6 DEF ReloadHighest
  <2>7. CASE SwitchThread(c)
    BY <2>7, SMTT(60) DEF SwitchThread, StartAgain
  <2>8. CASE FinishSwitch(c)
    <3>1. CASE needs[c]
      BY <2>8, <3>1, SMTT(60) DEF FinishSwitch, StartAgain
    <3>2. CASE ~needs[c]
      <4>1. /\ pc' = [pc EXCEPT ![c] = "loop"] /\ next' = [next EXCEPT ![c] = Null]
            /\ UNCHANGED <<highest, needs, current>>
        BY <2>8, <3>2 DEF FinishSwitch
      <4>2. current[c] = highest[c] \/ Told(c)
        BY <2>8 DEF FinishSwitch
      <4> QED BY <4>1, <4>2
    <3> QED BY <3>1, <3>2
  <2> QED BY <1>2, <2>3, <2>4, <2>5, <2>6, <2>7, <2>8 DEF CoreStep
<1> QED BY <1>1, <1>2

\* Every step of KScheduler preserves RescheduleInv.
LEMMA NextReschedule == ContextInv /\ RescheduleInv /\ [Next]_vars => RescheduleInv'
<1> SUFFICES ASSUME ContextInv, RescheduleInv, [Next]_vars PROVE RescheduleInv'
  OBVIOUS
<1>1. CASE UNCHANGED vars
  BY <1>1 DEF vars, sync, RescheduleInv, Told
<1>2. ASSUME NEW a, Request(a) \/ GuestRequest(a) \/ HostRequest(a) \/ RetryCall(a) \/ Terminate(a)
      PROVE  RescheduleInv'
  BY <1>2, LockedReleases, ReleasesReschedule
<1>3. ASSUME NEW h \in Hosts, RescheduleCurrentHLEThread(h) PROVE RescheduleInv'
  <2>1. \A c \in Cores : Told(c)' = Told(c)
    BY <1>3 DEF RescheduleCurrentHLEThread, Told
  <2>2. \A c \in Cores : pc'[c] = pc[c]
    BY <1>3, HostsAssumption DEF RescheduleCurrentHLEThread, ContextInv, Actors
  <2> QED BY <1>3, <2>1, <2>2 DEF RescheduleCurrentHLEThread, sync, RescheduleInv
<1>4. ASSUME NEW t \in Threads, FinishTermination(t) PROVE RescheduleInv'
  BY <1>4 DEF FinishTermination, sync, RescheduleInv, Told
<1> QED BY <1>1, <1>2, <1>3, <1>4, StoresReschedule, CoreStepReschedule DEF Next

\* A core that runs another thread than it should has been interrupted, or is
\* about to be: the stores of UpdateHighestPriorityThread, the interrupts of
\* RescheduleCores and the switch without the lock lose no change, in any order.
THEOREM RescheduleNotLost == Spec => []NoLostReschedule
<1>1. ContextInv /\ RescheduleInv => NoLostReschedule
  BY DEF RescheduleInv, Told, NoLostReschedule
<1>2. Init => ContextInv /\ RescheduleInv
  BY InitContext, InitReschedule
<1>3. ContextInv /\ RescheduleInv /\ [Next]_vars => (ContextInv /\ RescheduleInv)'
  BY NextContext, NextReschedule
<1> QED BY <1>1, <1>2, <1>3, PTL DEF Spec

-----------------------------------------------------------------------------
(* The scheduling data, and the threads that must not run.                 *)

\* SchedInv holds in every reachable state.
LEMMA SchedAlways == Spec => []SchedInv
<1>1. SchedInv /\ [Next]_vars => SchedInv'
  BY HandlersKeepContract, NextSched
<1> QED BY <1>1, InitSched, PTL DEF Spec

\* The queues of the scheduler hold exactly the runnable threads, each where its
\* core and its mask say and in order, whatever the handlers do under the lock:
\* PushBack, Remove, ChangePriority, ChangeAffinityMask, ChangeCore and
\* MoveToScheduledBack keep them so, and so does the migration of
\* UpdateHighestPriorityThreads.
THEOREM QueuesStayExact == Spec => []QueuesExact
<1>1. SchedInv => QueuesExact
  <2> SUFFICES ASSUME SchedInv PROVE QueuesExact
    OBVIOUS
  <2>1. Exact(q, Run(q))
    BY DEF SchedInv, DataInv, StoreInv
  <2>2. /\ \A c \in Cores :
             /\ IsQueue(q.prio, q.sched[c]) /\ Members(q.sched[c]) = {t \in Run(q) : q.core[t] = c}
             /\ IsQueue(q.prio, q.sugg[c]) /\ Members(q.sugg[c]) = {t \in Run(q) : c \in Suggestions(q, t)}
        /\ \A t \in Threads : q.core[t] \in q.aff[t] \cup {NoCore}
    BY <2>1 DEF Exact
  <2>3. \A c \in Cores : /\ Members(q.sched[c]) = {t \in Threads : Runnable(q, t) /\ q.core[t] = c}
                         /\ Members(q.sugg[c]) = {t \in Threads : Runnable(q, t) /\ c \in Suggestions(q, t)}
    BY <2>2 DEF Run
  <2>4. \A c \in Cores : \A s \in {q.sched[c], q.sugg[c]} : \A i, j \in DOMAIN s :
                i < j => s[i] # s[j] /\ q.prio[s[i]] <= q.prio[s[j]]
    <3>1. \A s : IsQueue(q.prio, s) => \A i, j \in DOMAIN s : i < j => s[i] # s[j] /\ q.prio[s[i]] <= q.prio[s[j]]
      BY DEF IsQueue
    <3> QED BY <2>2, <3>1
  <2> QED BY <2>2, <2>3, <2>4 DEF QueuesExact
<1> QED BY <1>1, SchedAlways, PTL

\* With the lock free each core is to run the front of its queue, and an idle core
\* has left no thread behind that it could run: what UpdateHighestPriorityThreads
\* computes and what its stores make of it, in whatever order the cores see them.
THEOREM BestIsChosen == Spec => []HighestIsBest
<1>1. SchedInv => HighestIsBest
  <2> SUFFICES ASSUME SchedInv, LockFree
               PROVE  /\ \A c \in Cores : highest[c] = FirstOf(q.sched[c])
                      /\ (\A c \in Cores : Allowed(q, highest[c])) =>
                            \A c \in Cores : highest[c] = Null =>
                               \A t \in Members(q.sugg[c]) :
                                  q.core[t] \in Cores /\ Members(q.sched[q.core[t]]) = {t}
    BY DEF HighestIsBest
  <2>1. StoreInv /\ Exact(q, Run(q)) /\ Conserving(q)
    BY DEF SchedInv, DataInv, StoreInv
  <2>2. \A c \in Cores : highest[c] = FirstOf(q.sched[c])
    BY <2>1, FreeGood DEF Calm
  <2>3. (\A c \in Cores : Allowed(q, highest[c])) => AllAllowed(q)
    BY <2>2 DEF AllAllowed
  <2>4. \A c \in Cores : highest[c] = Null => q.sched[c] = <<>>
    BY <2>1, <2>2, FrontMay
  <2> QED BY <2>1, <2>2, <2>3, <2>4 DEF Conserving, IdleOK
<1> QED BY <1>1, SchedAlways, PTL

\* A thread that waits or has exited is not in user mode before it is woken, and a
\* host that waits does not return: nothing between the change of its state under
\* the lock and the switch of its core lets it run on.
THEOREM BlockedNeverRuns == Spec => []BlockedStaysOff
<1>1. SchedInv => BlockedStaysOff
  <2> SUFFICES ASSUME SchedInv PROVE BlockedStaysOff
    OBVIOUS
  <2>1. ThreadInv /\ HostInv /\ OffInv
    BY DEF SchedInv, DataInv
  <2>2. ASSUME NEW c \in Cores, pc[c] = "guest" PROVE q.st[current[c]] = "runnable"
    <3>1. current[c] \in Threads
      BY <2>1, <2>2 DEF ThreadInv
    <3>2. ~Off(current[c], c)
      BY <2>2 DEF Off
    <3> QED BY <2>1, <3>1, <3>2 DEF OffInv, Barred
  <2>3. \A h \in Hosts : pc[h] = "loop" => q.st[h] = "runnable"
    BY <2>1 DEF HostInv
  <2> QED BY <2>2, <2>3 DEF BlockedStaysOff
<1> QED BY <1>1, SchedAlways, PTL

\* What SetActivity and FinishTermination wait for holds when they return, and
\* stays so: no core executes a thread that is paused, and none gets back one that
\* has ended.
THEOREM StoppedStaysStopped == Spec => []ReturnMeansStopped
<1>1. SchedInv => ReturnMeansStopped
  <2> SUFFICES ASSUME SchedInv PROVE ReturnMeansStopped
    OBVIOUS
  <2>1. StopInv /\ EndInv
    BY DEF SchedInv
  <2>2. \A t \in Threads, c \in Cores : t \in q.paused /\ Executes(c) => current[c] # t
    BY <2>1 DEF StopInv, Stopped
  <2>3. ASSUME NEW t \in Threads, NEW c \in Cores, fin[t] > c PROVE current[c] # t
    <3>1. fin[t] # Alive
      BY <2>3, SMTT(60) DEF Alive, Cores
    <3> QED BY <2>1, <2>3, <3>1 DEF EndInv
  <2> QED BY <2>2, <2>3 DEF ReturnMeansStopped
<1> QED BY <1>1, SchedAlways, PTL
=============================================================================
