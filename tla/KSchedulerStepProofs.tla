------------------------ MODULE KSchedulerStepProofs ------------------------
(***************************************************************************)
(* Every step of KScheduler preserves SchedInv, if the handlers keep their *)
(* contract: the data and the stores still to be made (StoreInv), the      *)
(* threads a core must not get (OffInv, with ChosenInv), and those a call  *)
(* has stopped (StopInv, EndInv).  ContextInv, of the threads on the       *)
(* cores, needs no contract.                                               *)
(***************************************************************************)
EXTENDS KSchedulerContract, TLAPS

\* A leaf goes to Zenon, unless it cites the SMT solver for its arithmetic, records
\* or sequences.
USE ZenonT(30)

\* A core that executes has locked the context of its thread, and so has one that
\* has just switched; the context of a thread is locked by one core.
ContextInv ==
    /\ DOMAIN pc = Actors /\ DOMAIN current = Cores /\ DOMAIN next = Cores
    /\ \A c \in Cores : Executes(c) => <<current[c], c>> \in held
    /\ \A c \in Cores : pc[c] = "check" => current[c] = next[c] /\ <<next[c], c>> \in held
    /\ \A t, c : <<t, c>> \in held => c \in Cores
    /\ \A t, c, d : <<t, c>> \in held /\ <<t, d>> \in held => c = d \/ t = Null

\* What a step leaves alone of the switch: no context is locked or unlocked.
KeepsContexts == UNCHANGED <<current, held, next>>

\* Actor a goes from one place where it executes to another.
MovesOn(a) ==
    /\ KeepsContexts
    /\ pc[a] \notin {"try", "check", "reload"}
    /\ \E s \in {"loop", "guest", "store", "flag", "resched", "load"} : pc' = [pc EXCEPT ![a] = s]

\* The initial state satisfies ContextInv: each core has its idle thread.
LEMMA InitContext == Init => ContextInv
BY SMTT(60) DEF Init, ContextInv, Executes

\* A step that only moves an actor on preserves ContextInv.
LEMMA MovesOnContext == ASSUME ContextInv, NEW a, MovesOn(a) PROVE ContextInv'
<1>1. PICK s \in {"loop", "guest", "store", "flag", "resched", "load"} : pc' = [pc EXCEPT ![a] = s]
  BY DEF MovesOn
<1>2. current' = current /\ held' = held /\ next' = next
  BY DEF MovesOn, KeepsContexts
<1>3. \A c \in Cores : c # a => pc'[c] = pc[c]
  BY <1>1 DEF ContextInv, Actors
<1>4. \A c \in Cores : c = a => pc'[c] = s
  BY <1>1 DEF ContextInv, Actors
<1>5. \A c \in Cores : Executes(c)' => Executes(c)
  BY <1>3, <1>4 DEF Executes, MovesOn
<1>6. \A c \in Cores : pc'[c] = "check" => pc[c] = "check"
  BY <1>3, <1>4
<1>7. DOMAIN pc' = Actors
  BY <1>1 DEF ContextInv
<1> QED
  BY <1>2, <1>5, <1>6, <1>7 DEF ContextInv, Actors, Cores

\* What a step under the scheduler lock does to the cores: nothing to another
\* core but an interrupt, and its own is told of a new highest priority thread.
Releases(a) ==
    /\ KeepsContexts /\ UNCHANGED ipis
    /\ pc[a] \in {"loop", "guest"}
    /\ \E s \in {"resched", "store"} : pc' = [pc EXCEPT ![a] = s]
    /\ \/ UNCHANGED <<highest, needs>>
       \/ \E t : highest' = [highest EXCEPT ![a] = t] /\ needs' = [needs EXCEPT ![a] = TRUE]
    /\ \/ UNCHANGED interrupted
       \/ DOMAIN interrupted' = Cores /\ \A c \in Cores : interrupted[c] => interrupted'[c]

\* The release of the scheduler lock is such a step.
LEMMA UnlockReleases ==
    ASSUME NEW a, NEW d, Unlock(a, d), pc[a] \in {"loop", "guest"}, UNCHANGED interrupted
    PROVE  Releases(a)
BY DEF Unlock, Releases, KeepsContexts

\* Whatever takes the scheduler lock is such a step.
LEMMA LockedReleases ==
    ASSUME NEW a, Request(a) \/ GuestRequest(a) \/ HostRequest(a) \/ RetryCall(a) \/ Terminate(a)
    PROVE  Releases(a)
<1>1. ASSUME CanAct(a) PROVE pc[a] \in {"loop", "guest"}
  BY <1>1 DEF CanAct
<1>2. CASE Request(a)
  <2>1. CASE \E t \in Threads : Wake(a, t)
    BY <1>1, <2>1, UnlockReleases DEF Wake
  <2>2. CASE \E h \in Hosts : WakeHost(a, h)
    BY <1>1, <2>2, UnlockReleases DEF WakeHost
  <2>3. CASE \E t \in Killable : RequestTerminate(a, t)
    <3>1. PICK t \in Killable : RequestTerminate(a, t)
      BY <2>3
    <3>2. PICK d : Unlock(a, d)
      BY <3>1 DEF RequestTerminate
    <3>3. DOMAIN interrupted' = Cores /\ \A c \in Cores : interrupted[c] => interrupted'[c]
      BY <3>1 DEF RequestTerminate
    <3> QED BY <1>1, <3>1, <3>2, <3>3
        DEF RequestTerminate, CanChange, Unlock, Releases, KeepsContexts
  <2> QED BY <1>2, <2>1, <2>2, <2>3 DEF Request
<1>3. ASSUME Exit(a), pc[a] \in {"loop", "guest"} PROVE Releases(a)
  BY <1>3, UnlockReleases DEF Exit
<1>4. CASE GuestRequest(a)
  <2>1. CASE Wait(a)
    BY <1>1, <2>1, UnlockReleases DEF Wait
  <2>2. CASE Yield(a)
    BY <1>1, <2>2, UnlockReleases DEF Yield
  <2>3. CASE ExitThread(a)
    BY <1>1, <1>3, <2>3 DEF ExitThread, CanChange
  <2>4. CASE \E s \in Settable : SetBasePriority(a, s[1], s[2])
    BY <1>1, <2>4, UnlockReleases DEF SetBasePriority, CanChange
  <2>5. CASE \E s \in Maskable : SetCoreMask(a, s[1], s[2])
    BY <1>1, <2>5, UnlockReleases DEF SetCoreMask, CanChange
  <2>6. CASE \E t \in Pausable : Pause(a, t) \/ Resume(a, t)
    BY <1>1, <2>6, UnlockReleases DEF Pause, Resume
  <2> QED BY <1>4, <2>1, <2>2, <2>3, <2>4, <2>5, <2>6 DEF GuestRequest
<1>5. CASE HostRequest(a)
  BY <1>1, <1>5, UnlockReleases DEF HostRequest, HostWait, PreemptThreads
<1>6. CASE RetryCall(a)
  BY <1>6, UnlockReleases DEF RetryCall
<1>7. CASE Terminate(a)
  BY <1>3, <1>7 DEF Terminate, AtLoop
<1> QED BY <1>2, <1>4, <1>5, <1>6, <1>7

\* The steps of a core that switches its thread preserve ContextInv.
LEMMA SwitchContext ==
    ASSUME ContextInv, NEW c \in Cores,
           LoadHighest(c) \/ ReloadHighest(c) \/ SwitchThread(c) \/ FinishSwitch(c)
    PROVE  ContextInv'
<1> USE DEF ContextInv, Executes, Actors
<1>1. CASE LoadHighest(c)
  <2>1. CASE highest[c] # Null /\ highest[c] = current[c]
    BY <1>1, <2>1, SMTT(60) DEF LoadHighest
  <2>2. CASE ~(highest[c] # Null /\ highest[c] = current[c])
    <3>1. \A d \in Cores : <<current[d], d>> \in held /\ d # c => <<current[d], d>> \in held'
      BY <1>1, <2>2, SMTT(60) DEF LoadHighest, Unloaded
    <3>2. held' \subseteq held
      BY <1>1, <2>2 DEF LoadHighest, Unloaded
    <3> QED BY <1>1, <2>2, <3>1, <3>2, SMTT(60) DEF LoadHighest
  <2> QED BY <2>1, <2>2
<1>2. CASE ReloadHighest(c)
  BY <1>2 DEF ReloadHighest
<1>3. CASE SwitchThread(c)
  <2>1. CASE ContextFree(next[c]) /\ pc' = [pc EXCEPT ![c] = "check"]
    <3>1. \A t, d, e : <<t, d>> \in held' /\ <<t, e>> \in held' => d = e \/ t = Null
      BY <1>3, <2>1 DEF SwitchThread, ContextFree
    <3> QED BY <1>3, <2>1, <3>1 DEF SwitchThread
  <2>2. CASE held' = held /\ current' = current /\ pc' = [pc EXCEPT ![c] = "reload"]
    BY <1>3, <2>2 DEF SwitchThread
  <2> QED BY <1>3, <2>1, <2>2 DEF SwitchThread, StartAgain
<1>4. CASE FinishSwitch(c)
  <2>1. CASE needs[c]
    BY <1>4, <2>1, SMTT(60) DEF FinishSwitch, StartAgain
  <2>2. CASE ~needs[c]
    BY <1>4, <2>2 DEF FinishSwitch
  <2> QED BY <2>1, <2>2
<1> QED BY <1>1, <1>2, <1>3, <1>4

\* Every step of KScheduler preserves ContextInv.
LEMMA NextContext == ContextInv /\ [Next]_vars => ContextInv'
<1> SUFFICES ASSUME ContextInv, [Next]_vars PROVE ContextInv'
  OBVIOUS
<1>1. CASE UNCHANGED vars
  BY <1>1 DEF vars, sync, ContextInv, Executes
<1>2. ASSUME NEW a, Request(a) \/ GuestRequest(a) \/ HostRequest(a) \/ RetryCall(a) \/ Terminate(a)
      PROVE  ContextInv'
  BY <1>2, LockedReleases, MovesOnContext DEF Releases, MovesOn
<1>3. ASSUME NEW a \in Actors, Release(a) PROVE ContextInv'
  <2>1. CASE StoreTop(a) \/ StoreNeeds(a)
    BY <2>1, MovesOnContext DEF StoreTop, StoreNeeds, MovesOn, KeepsContexts
  <2>2. CASE RescheduleOtherCores(a)
    BY <2>2 DEF RescheduleOtherCores, sync, ContextInv, Executes
  <2> QED BY <1>3, <2>1, <2>2 DEF Release
<1>4. ASSUME NEW c \in Cores, CoreStep(c) PROVE ContextInv'
  <2>1. CASE RescheduleCurrentCore(c) \/ RunThread(c) \/ HandleInterrupt(c)
    BY <2>1, MovesOnContext
       DEF RescheduleCurrentCore, RunThread, HandleInterrupt, AtLoop, sync, MovesOn, KeepsContexts
  <2> QED BY <1>4, <2>1, SwitchContext DEF CoreStep
<1>5. ASSUME NEW h \in Hosts, RescheduleCurrentHLEThread(h) PROVE ContextInv'
  BY <1>5, MovesOnContext DEF RescheduleCurrentHLEThread, sync, MovesOn, KeepsContexts
<1>6. ASSUME NEW t \in Threads, FinishTermination(t) PROVE ContextInv'
  BY <1>6 DEF FinishTermination, sync, ContextInv, Executes
<1> QED BY <1>1, <1>2, <1>3, <1>4, <1>5, <1>6 DEF Next

-----------------------------------------------------------------------------
(* The stores that are still to be made.                                   *)

\* A store for core c is still to be made.
Entry(c) == \E i \in DOMAIN stores : stores[i][1] = c

\* The scheduling data between two steps, and the stores that are still to be made:
\* those of one actor, for other cores, of threads that may run there, the last one
\* of each core being right.
StoreInv ==
    /\ DOMAIN highest = Cores /\ DOMAIN needs = Cores
    /\ DOMAIN q.st = Threads \cup Hosts /\ Exact(q, Run(q)) /\ Conserving(q)
    /\ q.update = FALSE /\ q.woken = {} /\ q.paused \subseteq q.susp
    /\ stores \in Seq(Cores \X (Threads \cup {Null}))
    /\ \A i \in DOMAIN stores : May(q, Run(q), stores[i][1], stores[i][2])
    /\ \A i \in DOMAIN stores : \/ stores[i][2] = FirstOf(q.sched[stores[i][1]])
                                \/ \E j \in DOMAIN stores : j > i /\ stores[j][1] = stores[i][1]
    /\ \A c \in Cores : highest[c] = FirstOf(q.sched[c]) \/ Entry(c)
    /\ \A a, b \in Actors : pc[a] \in {"store", "flag"} /\ pc[b] \in {"store", "flag"} => a = b
    /\ \A a \in Actors : pc[a] \in {"store", "flag"} =>
          stores # <<>> /\ \A i \in DOMAIN stores : stores[i][1] # a
    /\ \A a \in Actors : pc[a] = "flag" => highest[Head(stores)[1]] = Head(stores)[2]
    /\ LockFree => stores = <<>>

\* The initial state satisfies StoreInv: no thread is runnable.
LEMMA InitStore == Init => StoreInv
<1> SUFFICES ASSUME Init PROVE StoreInv
  OBVIOUS
<1> DEFINE core == [t \in Threads |-> CHOOSE c \in StartMask[t] : TRUE]
           st == [x \in Threads \cup Hosts |-> IF x \in Hosts THEN "runnable" ELSE "waiting"]
           none == [c \in Cores |-> <<>>]
<1>1. /\ DOMAIN core = Threads /\ \A t \in Threads : core[t] \in StartMask[t]
      /\ DOMAIN st = Threads \cup Hosts /\ (\A t \in Threads : st[t] # "runnable")
      /\ DOMAIN none = Cores /\ (\A c \in Cores : none[c] = <<>>)
  BY StartAssumption, HostsAssumption
<1>2. q = [sched |-> none, sugg |-> none, prio |-> StartPriority, aff |-> StartMask, core |-> core, st |-> st,
           susp |-> {}, barred |-> {}, term |-> {}, paused |-> {},
           yielded |-> {}, woken |-> {}, update |-> FALSE, changes |-> 0]
  BY DEF Init
<1> HIDE DEF core, st, none
<1>3. /\ DOMAIN q = Fields /\ q.sched = none /\ q.sugg = none /\ q.prio = StartPriority /\ q.aff = StartMask
      /\ q.core = core /\ q.st = st /\ q.susp = {} /\ q.paused = {} /\ q.woken = {} /\ q.update = FALSE
  BY <1>2, SMTT(60) DEF Fields
<1>4. Run(q) = {}
  BY <1>1, <1>3 DEF Run, Runnable
<1>5. IsQueue(q.prio, <<>>) /\ Members(<<>>) = {}
  BY SMTT(60) DEF IsQueue, Members
<1>6. Exact(q, Run(q))
  BY <1>1, <1>3, <1>4, <1>5, StartAssumption DEF Exact
<1>7. Conserving(q)
  BY <1>1, <1>3, <1>5 DEF Conserving, IdleOK
<1>8. stores = <<>> /\ \A a \in Actors : pc[a] = "loop"
  BY DEF Init
<1>9. \A c \in Cores : highest[c] = FirstOf(q.sched[c])
  BY <1>1, <1>3 DEF Init, FirstOf
<1>10. stores \in Seq(Cores \X (Threads \cup {Null})) /\ DOMAIN stores = {}
  BY <1>8, SMTT(60)
<1>11. DOMAIN highest = Cores /\ DOMAIN needs = Cores
  BY DEF Init
<1> QED BY <1>1, <1>3, <1>6, <1>7, <1>8, <1>9, <1>10, <1>11 DEF StoreInv

\* With the lock free, what is to run is right.
LEMMA FreeGood == ASSUME StoreInv, LockFree PROVE Good(q) /\ Calm(q) /\ stores = <<>>
<1>1. stores = <<>> /\ DOMAIN stores = {}
  <2>1. stores = <<>>
    BY DEF StoreInv
  <2> QED BY <2>1, SMTT(60)
<1>2. \A c \in Cores : highest[c] = FirstOf(q.sched[c])
  BY <1>1 DEF StoreInv, Entry
<1> QED BY <1>1, <1>2 DEF StoreInv, Good, Calm

\* The actor a has no store to make for its own core, and Unlock has made it.
Results(a, d) ==
    /\ DOMAIN q'.st = Threads \cup Hosts /\ Exact(q', Run(q')) /\ Conserving(q')
    /\ q'.update = FALSE /\ q'.woken = {}
    /\ q'.st = d.st /\ q'.susp = d.susp /\ q'.term = d.term /\ q'.paused = d.paused
    /\ q'.aff = d.aff
    /\ \A u \in Threads : q'.core[u] = NoCore => d.core[u] = NoCore
    /\ DOMAIN highest' = Cores /\ DOMAIN needs' = Cores
    /\ stores' \in Seq(Cores \X (Threads \cup {Null}))
    /\ \A i \in DOMAIN stores' : stores'[i][1] # a /\ May(q', Run(q'), stores'[i][1], stores'[i][2])
    /\ \A i \in DOMAIN stores' : \/ stores'[i][2] = FirstOf(q'.sched[stores'[i][1]])
                                 \/ \E j \in DOMAIN stores' : j > i /\ stores'[j][1] = stores'[i][1]
    /\ \A c \in Cores : highest'[c] = FirstOf(q'.sched[c]) \/ (c # a /\ Entry(c)')
    /\ \A c \in Cores \ {a} : highest'[c] = highest[c] /\ needs'[c] = needs[c]
    /\ a \in Cores => (highest'[a] = highest[a] /\ needs'[a] = needs[a]) \/ needs'[a]
    /\ pc' = [pc EXCEPT ![a] = IF stores' = <<>> THEN "resched" ELSE "store"]
    /\ UNCHANGED <<current, held, next, ipis>>

\* The release of the scheduler lock, with good scheduling data.
LEMMA UnlockResults ==
    ASSUME DataContract, StoreInv, NEW a \in Actors, NEW d, Good(d), Unlock(a, d)
    PROVE  Results(a, d)
<1> DEFINE r == UpdateHighestPriorityThreads(a, d)
<1>1. /\ q' = [r.d EXCEPT !.update = FALSE, !.woken = {}]
      /\ IF r.own
         THEN /\ highest' = [highest EXCEPT ![a] = r.high[a]]
              /\ needs' = [needs EXCEPT ![a] = TRUE]
         ELSE UNCHANGED <<highest, needs>>
      /\ stores' = r.stores
      /\ pc' = [pc EXCEPT ![a] = IF r.stores = <<>> THEN "resched" ELSE "store"]
      /\ UNCHANGED <<current, held, next, ipis>>
  BY DEF Unlock
<1>2. Updated(r, a, d, Run(d))
  BY DEF StoreInv, Good, DataContract, UpdateChooses
<1> HIDE DEF r
<1> DEFINE R == Run(d)
<1>3. /\ Carried(a, R, r.d, r.high, r.own, r.stores) /\ Exact(r.d, R) /\ KeepsThreads(r.d, d)
      /\ \A c \in Cores : r.high[c] = FirstOf(r.d.sched[c])
      /\ \A u \in Threads : r.d.core[u] = d.core[u] \/ r.d.core[u] \in Cores
      /\ Conserving(r.d)
  BY <1>2 DEF Updated
<1>4. /\ DOMAIN q' = Fields /\ q'.sched = r.d.sched /\ q'.sugg = r.d.sugg /\ q'.prio = r.d.prio
      /\ q'.aff = r.d.aff /\ q'.core = r.d.core /\ q'.st = r.d.st /\ q'.susp = r.d.susp /\ q'.term = r.d.term
      /\ q'.paused = r.d.paused /\ q'.update = FALSE /\ q'.woken = {}
  <2>1. DOMAIN r.d = Fields
    BY <1>3 DEF Exact
  <2>2. q' = [r.d EXCEPT !.update = FALSE, !.woken = {}]
    BY <1>1
  <2> QED BY <2>1, <2>2, SMTT(60) DEF Fields
<1>5. Run(q') = R /\ DOMAIN q'.st = Threads \cup Hosts
  BY <1>3, <1>4 DEF Run, Runnable, KeepsThreads, Good
<1> HIDE DEF R
<1>6. Exact(q', R)
  <2>1. AlikeQueues(q', r.d)
    BY <1>4 DEF AlikeQueues
  <2> QED BY <1>3, <2>1 DEF DataContract, AlikeKeeps
<1>7. Conserving(q')
  <2>1. AllAllowed(q') => AllAllowed(r.d)
    BY <1>4 DEF AllAllowed, Allowed
  <2>2. \A c \in Cores : IdleOK(r.d, c) => IdleOK(q', c)
    BY <1>4 DEF IdleOK
  <2> QED BY <1>3, <1>4, <2>1, <2>2 DEF Conserving
<1>8. \A u \in Threads : q'.core[u] = NoCore => d.core[u] = NoCore
  BY <1>3, <1>4 DEF DataContract, FrontsMay
<1>9. /\ stores' \in Seq(Cores \X (Threads \cup {Null}))
      /\ \A i \in DOMAIN stores' : stores'[i][1] # a /\ May(q', R, stores'[i][1], stores'[i][2])
  BY <1>1, <1>3, <1>4, SMTT(60) DEF Carried, May
<1>10. \A c \in Cores : r.high[c] = FirstOf(q'.sched[c])
  BY <1>3, <1>4
<1>11. \A i \in DOMAIN stores' : \/ stores'[i][2] = FirstOf(q'.sched[stores'[i][1]])
                                 \/ \E j \in DOMAIN stores' : j > i /\ stores'[j][1] = stores'[i][1]
  <2>1. \A i \in DOMAIN stores' : \/ stores'[i][2] = r.high[stores'[i][1]]
                                  \/ \E j \in DOMAIN stores' : j > i /\ stores'[j][1] = stores'[i][1]
    <3>1. stores' = r.stores
      BY <1>1
    <3>2. \A i \in DOMAIN r.stores : \/ r.stores[i][2] = r.high[r.stores[i][1]]
                                     \/ \E j \in DOMAIN r.stores : j > i /\ r.stores[j][1] = r.stores[i][1]
      BY <1>3 DEF Carried
    <3> QED BY <3>1, <3>2
  <2>2. \A i \in DOMAIN stores' : stores'[i][1] \in Cores
    BY <1>9, SMTT(60)
  <2> QED BY <1>10, <2>1, <2>2
<1>12. DOMAIN highest' = Cores /\ DOMAIN needs' = Cores
  BY <1>1 DEF StoreInv
<1>13. \A c \in Cores \ {a} : highest'[c] = highest[c] /\ needs'[c] = needs[c]
  BY <1>1 DEF StoreInv
<1>14. a \in Cores => /\ highest'[a] = r.high[a]
                      /\ (highest'[a] = highest[a] /\ needs'[a] = needs[a]) \/ needs'[a]
  <2>1. CASE r.own
    BY <1>1, <2>1 DEF StoreInv
  <2>2. CASE ~r.own
    BY <1>1, <1>3, <2>2 DEF Carried
  <2> QED BY <2>1, <2>2
<1>15. \A c \in Cores : highest'[c] = FirstOf(q'.sched[c]) \/ (c # a /\ Entry(c)')
  <2>1. \A c \in Cores \ {a} : r.high[c] # highest[c] => Entry(c)'
    BY <1>1, <1>3 DEF Carried, Entry
  <2> QED BY <1>10, <1>13, <1>14, <2>1
<1>16. /\ q'.st = d.st /\ q'.susp = d.susp /\ q'.term = d.term /\ q'.paused = d.paused
       /\ q'.aff = d.aff /\ q'.update = FALSE /\ q'.woken = {}
  BY <1>3, <1>4 DEF KeepsThreads
<1>17. pc' = [pc EXCEPT ![a] = IF stores' = <<>> THEN "resched" ELSE "store"] /\ UNCHANGED <<current, held, next, ipis>>
  BY <1>1
<1> QED BY <1>5, <1>6, <1>7, <1>8, <1>9, <1>11, <1>12, <1>13, <1>14, <1>15, <1>16, <1>17 DEF Results

\* A step under the scheduler lock preserves StoreInv.
LEMMA ResultsStore ==
    ASSUME ContextInv, StoreInv, LockFree, NEW a \in Actors, NEW d, Results(a, d), d.paused \subseteq d.susp
    PROVE  StoreInv'
<1>1. /\ \A b \in Actors : b # a => pc'[b] = pc[b] /\ pc'[b] \notin {"store", "flag"}
      /\ pc'[a] = IF stores' = <<>> THEN "resched" ELSE "store"
  BY DEF Results, ContextInv, LockFree
<1>2. pc'[a] # "flag" /\ (pc'[a] = "store" => stores' # <<>>) /\ (pc'[a] # "store" => stores' = <<>>)
  BY <1>1
<1>3. LockFree' => stores' = <<>>
  BY <1>2 DEF LockFree
<1>4. /\ \A b \in Actors : pc'[b] \in {"store", "flag"} => b = a /\ pc'[b] = "store"
  BY <1>1, <1>2
<1>5. /\ \A b, e \in Actors : pc'[b] \in {"store", "flag"} /\ pc'[e] \in {"store", "flag"} => b = e
      /\ \A b \in Actors : pc'[b] \in {"store", "flag"} =>
            stores' # <<>> /\ \A i \in DOMAIN stores' : stores'[i][1] # b
      /\ \A b \in Actors : pc'[b] = "flag" => FALSE
  <2>1. \A i \in DOMAIN stores' : stores'[i][1] # a
    BY DEF Results
  <2>2. \A b \in Actors : pc'[b] = "flag" => FALSE
    BY <1>4
  <2>3. \A b, e \in Actors : pc'[b] \in {"store", "flag"} /\ pc'[e] \in {"store", "flag"} => b = e
    BY <1>4
  <2>4. \A b \in Actors : pc'[b] \in {"store", "flag"} =>
            stores' # <<>> /\ \A i \in DOMAIN stores' : stores'[i][1] # b
    BY <1>2, <1>4, <2>1
  <2> QED BY <2>2, <2>3, <2>4
<1>6. /\ DOMAIN highest' = Cores /\ DOMAIN needs' = Cores
      /\ DOMAIN q'.st = Threads \cup Hosts /\ Exact(q', Run(q')) /\ Conserving(q')
      /\ q'.update = FALSE /\ q'.woken = {} /\ q'.paused \subseteq q'.susp
      /\ stores' \in Seq(Cores \X (Threads \cup {Null}))
      /\ \A i \in DOMAIN stores' : May(q', Run(q'), stores'[i][1], stores'[i][2])
      /\ \A i \in DOMAIN stores' : \/ stores'[i][2] = FirstOf(q'.sched[stores'[i][1]])
                                   \/ \E j \in DOMAIN stores' : j > i /\ stores'[j][1] = stores'[i][1]
      /\ \A c \in Cores : highest'[c] = FirstOf(q'.sched[c]) \/ Entry(c)'
  BY DEF Results
<1> QED BY <1>3, <1>5, <1>6 DEF StoreInv

\* The first of the stores that are still to be made.
LEMMA HeadStore ==
    ASSUME StoreInv, stores # <<>>
    PROVE  /\ Head(stores) = stores[1] /\ 1 \in DOMAIN stores /\ Head(stores)[1] \in Cores
           /\ May(q, Run(q), Head(stores)[1], Head(stores)[2]) /\ Entry(Head(stores)[1])
<1>1. stores \in Seq(Cores \X (Threads \cup {Null}))
  BY DEF StoreInv
<1>2. Head(stores) = stores[1] /\ 1 \in DOMAIN stores /\ Head(stores)[1] \in Cores
  BY <1>1, SMTT(60)
<1> QED BY <1>2 DEF StoreInv, Entry

\* The store of the highest priority thread of another core preserves StoreInv.
LEMMA StoreTopStore == ASSUME ContextInv, StoreInv, NEW a \in Actors, StoreTop(a) PROVE StoreInv'
<1> DEFINE x == Head(stores)[1]
           y == Head(stores)[2]
<1>1. /\ pc[a] = "store" /\ highest' = [highest EXCEPT ![x] = y]
      /\ pc' = [pc EXCEPT ![a] = "flag"] /\ q' = q /\ needs' = needs /\ stores' = stores
  BY DEF StoreTop
<1>2. x \in Cores /\ Entry(x)
  BY <1>1, HeadStore DEF StoreInv
<1> HIDE DEF x, y
<1>3. DOMAIN highest' = Cores /\ highest'[x] = y /\ \A c \in Cores \ {x} : highest'[c] = highest[c]
  BY <1>1, <1>2 DEF StoreInv
<1>4. \A b \in Actors : (pc'[b] \in {"store", "flag"} <=> pc[b] \in {"store", "flag"}) /\ (pc'[b] = "flag" => b = a \/ pc[b] = "flag")
  BY <1>1 DEF ContextInv
<1>5. \A b \in Actors : pc'[b] = "flag" => highest'[x] = y
  BY <1>3
<1>6. \A c \in Cores : Entry(c)' <=> Entry(c)
  BY <1>1 DEF Entry
<1>7. \A c \in Cores : highest'[c] = FirstOf(q.sched[c]) \/ Entry(c)
  BY <1>2, <1>3 DEF StoreInv
<1>8. LockFree' => stores = <<>>
  BY <1>4 DEF LockFree, StoreInv
<1>9. /\ \A b, e \in Actors : pc'[b] \in {"store", "flag"} /\ pc'[e] \in {"store", "flag"} => b = e
      /\ \A b \in Actors : pc'[b] \in {"store", "flag"} =>
            stores # <<>> /\ \A i \in DOMAIN stores : stores[i][1] # b
  BY <1>4 DEF StoreInv
<1>10. \A b \in Actors : pc'[b] = "flag" => highest'[Head(stores')[1]] = Head(stores')[2]
  BY <1>1, <1>5 DEF x, y
<1>11. /\ DOMAIN q'.st = Threads \cup Hosts /\ Exact(q', Run(q')) /\ Conserving(q')
       /\ q'.update = FALSE /\ q'.woken = {} /\ q'.paused \subseteq q'.susp
       /\ stores' \in Seq(Cores \X (Threads \cup {Null})) /\ DOMAIN needs' = Cores
       /\ \A i \in DOMAIN stores' : May(q', Run(q'), stores'[i][1], stores'[i][2])
       /\ \A i \in DOMAIN stores' : \/ stores'[i][2] = FirstOf(q'.sched[stores'[i][1]])
                                    \/ \E j \in DOMAIN stores' : j > i /\ stores'[j][1] = stores'[i][1]
  BY <1>1 DEF StoreInv
<1>12. \A c \in Cores : highest'[c] = FirstOf(q'.sched[c]) \/ Entry(c)'
  BY <1>1, <1>6, <1>7
<1>13. /\ LockFree' => stores' = <<>>
       /\ \A b \in Actors : pc'[b] \in {"store", "flag"} =>
            stores' # <<>> /\ \A i \in DOMAIN stores' : stores'[i][1] # b
  BY <1>1, <1>8, <1>9
<1>14. DOMAIN highest' = Cores
  BY <1>3
<1>15. \A b, e \in Actors : pc'[b] \in {"store", "flag"} /\ pc'[e] \in {"store", "flag"} => b = e
  BY <1>9
<1> QED BY <1>10, <1>11, <1>12, <1>13, <1>14, <1>15 DEF StoreInv

\* The store of the flag of another core preserves StoreInv.
LEMMA StoreNeedsStore == ASSUME ContextInv, StoreInv, NEW a \in Actors, StoreNeeds(a) PROVE StoreInv'
<1> DEFINE x == Head(stores)[1]
           y == Head(stores)[2]
<1>1. /\ pc[a] = "flag" /\ needs' = [needs EXCEPT ![x] = TRUE] /\ stores' = Tail(stores)
      /\ pc' = [pc EXCEPT ![a] = IF Tail(stores) = <<>> THEN "resched" ELSE "store"]
      /\ q' = q /\ highest' = highest
  BY DEF StoreNeeds
<1>2. stores # <<>> /\ stores \in Seq(Cores \X (Threads \cup {Null})) /\ highest[x] = y
  BY <1>1 DEF StoreInv
<1>3. /\ stores' \in Seq(Cores \X (Threads \cup {Null})) /\ x \in Cores
      /\ Len(stores) \in Nat /\ DOMAIN stores = 1 .. Len(stores)
      /\ DOMAIN stores' = 1 .. Len(stores) - 1
      /\ \A i \in DOMAIN stores' : stores'[i] = stores[i + 1] /\ i + 1 \in DOMAIN stores
      /\ stores[1][1] = x /\ stores[1][2] = y /\ 1 \in DOMAIN stores
      /\ \A i \in DOMAIN stores : i # 1 => i - 1 \in DOMAIN stores' /\ stores'[i - 1] = stores[i]
  BY <1>1, <1>2, SMTT(60)
<1>a. \A i \in DOMAIN stores' : stores'[i] = stores[i + 1] /\ i + 1 \in DOMAIN stores
  BY <1>3
<1>b. \A i \in DOMAIN stores : i # 1 => i - 1 \in DOMAIN stores' /\ stores'[i - 1] = stores[i]
  BY <1>3
<1>4. \A i \in DOMAIN stores' : \/ stores'[i][2] = FirstOf(q.sched[stores'[i][1]])
                                \/ \E j \in DOMAIN stores' : j > i /\ stores'[j][1] = stores'[i][1]
  <2> SUFFICES ASSUME NEW i \in DOMAIN stores', stores'[i][2] # FirstOf(q.sched[stores'[i][1]])
               PROVE  \E j \in DOMAIN stores' : j > i /\ stores'[j][1] = stores'[i][1]
    OBVIOUS
  <2>1. PICK k \in DOMAIN stores : k > i + 1 /\ stores[k][1] = stores[i + 1][1]
    BY <1>a DEF StoreInv
  <2>2. k # 1 /\ k - 1 > i
    BY <1>3, <2>1, SMTT(60)
  <2>3. k - 1 \in DOMAIN stores' /\ stores'[k - 1] = stores[k]
    BY <1>b, <2>1, <2>2
  <2>4. stores'[i] = stores[i + 1]
    BY <1>a
  <2> QED BY <2>1, <2>2, <2>3, <2>4
<1>5. ASSUME NEW c \in Cores PROVE highest[c] = FirstOf(q.sched[c]) \/ Entry(c)'
  <2>1. CASE \E i \in DOMAIN stores : i # 1 /\ stores[i][1] = c
    BY <1>b, <2>1 DEF Entry
  <2>2. CASE \A i \in DOMAIN stores : i # 1 => stores[i][1] # c
    <3>1. CASE c = x
      <4>1. \A j \in DOMAIN stores : ~ (j > 1 /\ stores[j][1] = stores[1][1])
        BY <1>3, <2>2, <3>1, SMTT(60)
      <4>2. y = FirstOf(q.sched[x])
        BY <1>3, <4>1 DEF StoreInv
      <4> QED BY <1>2, <3>1, <4>2
    <3>2. CASE c # x
      <4>1. ~Entry(c)
        BY <1>3, <2>2, <3>2 DEF Entry
      <4> QED BY <4>1 DEF StoreInv
    <3> QED BY <3>1, <3>2
  <2> QED BY <2>1, <2>2
<1> HIDE DEF x, y
<1>6. DOMAIN needs' = Cores
  BY <1>1 DEF StoreInv
<1>7. /\ pc'[a] = IF stores' = <<>> THEN "resched" ELSE "store"
      /\ \A b \in Actors : b # a => pc'[b] = pc[b] /\ pc[b] \notin {"store", "flag"}
  BY <1>1 DEF ContextInv, StoreInv
<1>8. \A b \in Actors : pc'[b] \in {"store", "flag"} => b = a /\ pc'[b] = "store" /\ stores' # <<>>
  BY <1>7
<1>9. LockFree' => stores' = <<>>
  BY <1>7 DEF LockFree
<1>10. \A b \in Actors : pc'[b] \in {"store", "flag"} => \A i \in DOMAIN stores' : stores'[i][1] # b
  <2>1. \A i \in DOMAIN stores : stores[i][1] # a
    BY <1>1 DEF StoreInv
  <2>2. \A i \in DOMAIN stores' : stores'[i][1] # a
    BY <1>a, <2>1
  <2> QED BY <1>8, <2>2
<1>11. \A i \in DOMAIN stores' : May(q, Run(q), stores'[i][1], stores'[i][2])
  BY <1>a DEF StoreInv
<1>12. /\ \A b, e \in Actors : pc'[b] \in {"store", "flag"} /\ pc'[e] \in {"store", "flag"} => b = e
       /\ \A b \in Actors : pc'[b] = "flag" => FALSE
  BY <1>8
<1> QED BY <1>1, <1>3, <1>4, <1>5, <1>6, <1>8, <1>9, <1>10, <1>11, <1>12 DEF StoreInv

\* No scheduling data, highest priority thread or store is touched.
KeepsStores ==
    /\ UNCHANGED <<q, highest, stores>> /\ DOMAIN needs' = Cores
    /\ \A a \in Actors : pc'[a] = pc[a] \/ (pc'[a] \notin {"store", "flag"} /\ pc[a] \notin {"store", "flag"})

\* A step that leaves the scheduling data and the stores alone preserves StoreInv.
LEMMA KeepsStoresStore == ASSUME StoreInv, KeepsStores PROVE StoreInv'
<1>1. \A a \in Actors : (pc'[a] \in {"store", "flag"} <=> pc[a] \in {"store", "flag"}) /\ (pc'[a] = "flag" <=> pc[a] = "flag")
  BY DEF KeepsStores
<1>2. LockFree' <=> LockFree
  BY <1>1 DEF LockFree
<1>3. \A c : Entry(c)' <=> Entry(c)
  BY DEF Entry, KeepsStores
<1> QED BY <1>1, <1>2, <1>3 DEF StoreInv, KeepsStores

-----------------------------------------------------------------------------
(* What the steps under the lock may do.                                   *)

\* The cores have threads, a core in user mode has one that is not its idle thread.
ThreadInv ==
    /\ \A c \in Cores : /\ current[c] \in Threads \cup {Null} /\ next[c] \in Threads \cup {Null}
                        /\ highest[c] \in Threads \cup {Null}
                        /\ pc[c] = "guest" => current[c] \in Threads
    /\ q.term \subseteq Threads

\* A host is awake if it is runnable, and returns only then.
HostInv == \A h \in Hosts : (h \in awake <=> q.st[h] = "runnable") /\ (pc[h] = "loop" => h \in awake)

\* Thread t is not to be executed by core c, and stays so until a step under the
\* scheduler lock says otherwise.
Barred(d, t) ==
    d.st[t] # "runnable" \/ t \in d.paused \/ d.core[t] = NoCore

\* The core that runs t is about to replace it as what core c is to run.
Replacing(t, c) == \E a \in Cores \ {c} : pc[a] \in {"store", "flag"} /\ current[a] = t /\ Entry(c)

\* Core c does not execute t, and will not without having been told.
Off(t, c) ==
    /\ highest[c] = t \/ (pc[c] \in {"try", "check"} /\ next[c] = t /\ ~needs[c]) => Replacing(t, c)
    /\ pc[c] \in {"loop", "guest"} => current[c] # t
    /\ pc[c] \in {"store", "flag", "resched"} /\ current[c] = t => needs[c]

\* No core executes a thread that is barred from it.
OffInv == \A t \in Threads, c \in Cores : Barred(q, t) => Off(t, c)

\* A call that pauses a thread waits for one that is suspended, or is to end.
CallInv ==
    /\ DOMAIN call = Threads
    /\ \A u \in Threads : call[u] # NoCall =>
          /\ call[u][1] \in {"mask", "pause"} /\ call[u][2] \in Threads
          /\ call[u][1] = "pause" => \/ call[u][2] \in q.susp \cup q.term
                                     \/ q.st[call[u][2]] = "terminated"

\* What a step under the lock may do to the threads: it bars one from a core only
\* if it is its own, or if the core does not have it.
Bars(a, d) ==
    \A t \in Threads, c \in Cores : Barred(d, t) =>
        Barred(q, t) \/ (a \in Cores /\ t = current[a]) \/ (current[c] # t /\ ~May(q, Run(q), c, t))

\* A call has made sure that thread t does not run on core c.
Stopped(d, t) == t \in d.paused

\* A call ends only then.
Stops(d) == \A t \in Threads, c \in Cores : Stopped(d, t) /\ current[c] = t => Stopped(q, t)

\* No thread comes back to life.
Ends(d) ==
    /\ d.term \subseteq Threads
    /\ \A t \in Threads : /\ t \in q.term => t \in d.term
                          /\ q.st[t] = "terminated" => d.st[t] = "terminated"
                          /\ t \in q.susp => t \in d.susp \cup d.term \/ d.st[t] = "terminated" \/ NoneOn(t)

\* What the proofs need of a step under the lock that makes d of the scheduling data.
Permits(a, d) == Good(d) /\ d.paused \subseteq d.susp /\ Bars(a, d) /\ Stops(d) /\ Ends(d)

\* The step is about guest threads.
NoHosts(d) == d.woken = {} /\ \A h \in Hosts : d.st[h] = q.st[h]

\* A thread that is barred from a core may not be chosen for it.
LEMMA BarredNot ==
    ASSUME DataContract, NEW d, NEW t \in Threads, NEW c, d.paused \subseteq d.susp, Barred(d, t)
    PROVE  ~May(d, Run(d), c, t)
<1>1. t # Null
  BY NullAssumption
<1>2. t \in Run(d) => d.st[t] = "runnable" /\ t \notin d.susp
  BY DEF Run, Runnable
<1> QED BY <1>1, <1>2 DEF Barred, May, DataContract, FrontsMay

\* The steps that change nothing that bars a thread.
LEMMA SamePermits ==
    ASSUME StoreInv, ThreadInv, NEW a, NEW d, Good(d),
           d.paused = q.paused, d.aff = q.aff, d.term = q.term,
           d.susp = q.susp, \A t \in Threads : d.st[t] = q.st[t],
           \A t \in Threads : d.core[t] = NoCore => q.core[t] = NoCore \/ (a \in Cores /\ t = current[a])
    PROVE  Permits(a, d)
<1>1. Bars(a, d) /\ Stops(d)
  BY DEF Bars, Stops, Barred, Stopped
<1>2. Ends(d)
  BY DEF Ends, ThreadInv
<1> QED BY <1>1, <1>2 DEF Permits, StoreInv

\* BeginWait.
LEMMA WaitPermits ==
    ASSUME DataContract, StoreInv, ThreadInv, LockFree,
           NEW a \in Cores, pc[a] = "guest", ~IsTerminationRequested(current[a])
    PROVE  LET d == SetState(q, current[a], "waiting") IN Permits(a, d) /\ NoHosts(d)
<1> DEFINE t == current[a]
           d == SetState(q, t, "waiting")
<1>1. Good(q) /\ t \in Threads
  BY FreeGood DEF ThreadInv
<1>0. StateSet(d, q, t, "waiting")
  BY <1>1 DEF DataContract, SetStateKeeps
<1> HIDE DEF d
<1>2. /\ Good(d) /\ KeepsMarks(d, q)
      /\ d.susp = q.susp /\ d.aff = q.aff /\ d.core = q.core /\ d.prio = q.prio
      /\ d.st = [q.st EXCEPT ![t] = "waiting"]
  BY <1>0 DEF StateSet
<1>3. q.st[t] # "terminated"
  BY DEF IsTerminationRequested
<1> HIDE DEF d, t
<1>4. \A x \in Threads \cup Hosts : x # t => d.st[x] = q.st[x]
  BY <1>2 DEF StoreInv
<1>5. Bars(a, d) /\ Stops(d)
  BY <1>2, <1>4 DEF Bars, Stops, Barred, Stopped, KeepsMarks, t
<1>6. Ends(d)
  BY <1>2, <1>3, <1>4 DEF Ends, KeepsMarks, ThreadInv
<1>7. NoHosts(d)
  BY <1>1, <1>2, <1>4, HostsAssumption DEF NoHosts, KeepsMarks, StoreInv
<1>8. Permits(a, d)
  BY <1>2, <1>5, <1>6 DEF Permits, StoreInv, KeepsMarks
<1> QED BY <1>7, <1>8 DEF d, t

\* EndWait and CancelWait.
LEMMA WakePermits ==
    ASSUME DataContract, StoreInv, ThreadInv, LockFree, NEW a, NEW t \in Threads, q.st[t] = "waiting"
    PROVE  LET d == SetState(q, t, "runnable") IN Permits(a, d) /\ NoHosts(d)
<1> DEFINE d == SetState(q, t, "runnable")
<1>1. Good(q)
  BY FreeGood
<1>0. StateSet(d, q, t, "runnable")
  BY <1>1 DEF DataContract, SetStateKeeps
<1> HIDE DEF d
<1>2. /\ Good(d) /\ KeepsMarks(d, q)
      /\ d.susp = q.susp /\ d.aff = q.aff /\ d.core = q.core /\ d.prio = q.prio
      /\ d.st = [q.st EXCEPT ![t] = "runnable"]
  BY <1>0 DEF StateSet
<1> HIDE DEF d
<1>4. d.st[t] = "runnable" /\ \A x \in Threads \cup Hosts : x # t => d.st[x] = q.st[x]
  BY <1>2 DEF StoreInv
<1>5. Bars(a, d) /\ Stops(d)
  BY <1>2, <1>4 DEF Bars, Stops, Barred, Stopped, KeepsMarks
<1>6. Ends(d)
  BY <1>2, <1>4 DEF Ends, KeepsMarks, ThreadInv
<1>7. NoHosts(d)
  BY <1>1, <1>2, <1>4, HostsAssumption DEF NoHosts, KeepsMarks, StoreInv
<1>8. Permits(a, d)
  BY <1>2, <1>5, <1>6 DEF Permits, StoreInv, KeepsMarks
<1> QED BY <1>7, <1>8 DEF d

\* The step sets the state of host h.
HostStep(a, d, h, s) ==
    /\ Permits(a, d) /\ d.update /\ d.woken = IF s = "runnable" THEN {h} ELSE {}
    /\ d.st[h] = s /\ \A g \in Hosts \ {h} : d.st[g] = q.st[g]

\* HostWait and WakeHost.
LEMMA HostStatePermits ==
    ASSUME DataContract, StoreInv, ThreadInv, LockFree, NEW a, NEW h \in Hosts, NEW s
    PROVE  HostStep(a, SetHostState(q, h, s), h, s)
<1> DEFINE d == SetHostState(q, h, s)
<1>1. Good(q)
  BY FreeGood
<1>0. HostSet(d, q, h, s)
  BY <1>1 DEF DataContract, SetHostStateKeeps
<1> HIDE DEF d
<1>2. /\ Good(d) /\ d.susp = q.susp /\ d.aff = q.aff /\ d.core = q.core /\ d.prio = q.prio
      /\ d.term = q.term /\ d.paused = q.paused /\ d.update = TRUE
      /\ d.st = [q.st EXCEPT ![h] = s]
      /\ d.woken = IF s = "runnable" THEN q.woken \cup {h} ELSE q.woken \ {h}
  BY <1>0 DEF HostSet
<1> HIDE DEF d
<1>3. d.st[h] = s /\ \A x \in Threads \cup Hosts : x # h => d.st[x] = q.st[x]
  BY <1>2 DEF StoreInv
<1>4. \A t \in Threads : d.st[t] = q.st[t]
  BY <1>3, HostsAssumption
<1>5. Permits(a, d)
  <2>1. \A t \in Threads : d.core[t] = NoCore => q.core[t] = NoCore
    BY <1>2
  <2>2. d.susp = q.susp /\ d.aff = q.aff /\ d.term = q.term /\ d.paused = q.paused
    BY <1>2
  <2>3. Good(d)
    BY <1>2
  <2> QED BY <1>4, <2>1, <2>2, <2>3, SamePermits
<1>6. d.woken = IF s = "runnable" THEN {h} ELSE {}
  BY <1>2 DEF StoreInv
<1> QED BY <1>2, <1>3, <1>5, <1>6 DEF d, HostStep

\* Counting a change is none.
LEMMA CountedGood ==
    ASSUME DataContract, StoreInv, LockFree
    PROVE  Good(Counted(q)) /\ SameAll(Counted(q), q) /\ KeepsMarks(Counted(q), q)
<1>1. Good(q) /\ DOMAIN q = Fields
  BY FreeGood DEF StoreInv, Exact
<1>2. SameAll(Counted(q), q) /\ KeepsMarks(Counted(q), q)
  BY <1>1 DEF DataContract, MarksKeep
<1> QED BY <1>1, <1>2 DEF DataContract, SameKeeps

\* SetBasePriority.
LEMMA PriorityPermits ==
    ASSUME DataContract, StoreInv, ThreadInv, LockFree, NEW a, NEW t \in Threads, NEW p \in Int, NEW running
    PROVE  LET d == SetPriority(Counted(q), t, p, running) IN Permits(a, d) /\ NoHosts(d)
<1> DEFINE x == Counted(q)
           d == SetPriority(x, t, p, running)
<1>1. Good(x) /\ SameAll(x, q) /\ KeepsMarks(x, q)
  BY CountedGood
<1> HIDE DEF x
<1>2. PrioritySet(d, x)
  BY <1>1 DEF DataContract, SetPriorityKeeps
<1> HIDE DEF d
<1>3. /\ Good(d) /\ d.st = q.st /\ d.susp = q.susp /\ d.aff = q.aff /\ d.core = q.core
      /\ d.term = q.term /\ d.paused = q.paused /\ d.woken = q.woken
  BY <1>1, <1>2 DEF PrioritySet, SameAll, KeepsMarks
<1>4. Permits(a, d)
  BY <1>3, SamePermits
<1>5. NoHosts(d)
  BY <1>3 DEF NoHosts, StoreInv
<1> QED BY <1>4, <1>5 DEF d, x

\* The yields, and the rotation of the queues.
LEMMA RearrangedPermits ==
    ASSUME DataContract, StoreInv, ThreadInv, NEW a, NEW d, Good(d), KeepsThreads(d, q),
           \A t \in Threads : \/ d.core[t] = q.core[t] \/ d.core[t] \in Cores
                              \/ (a \in Cores /\ t = current[a])
    PROVE  Permits(a, d) /\ NoHosts(d)
<1>1. \A t \in Threads : d.core[t] = NoCore => q.core[t] = NoCore \/ (a \in Cores /\ t = current[a])
  BY DEF DataContract, FrontsMay
<1>2. /\ d.paused = q.paused /\ d.aff = q.aff /\ d.term = q.term
      /\ d.susp = q.susp /\ (\A t \in Threads : d.st[t] = q.st[t])
  BY DEF KeepsThreads
<1>3. Permits(a, d)
  BY <1>1, <1>2, SamePermits
<1> QED BY <1>3 DEF NoHosts, KeepsThreads, StoreInv

\* The yields of the current thread.
LEMMA YieldPermits ==
    ASSUME DataContract, StoreInv, ThreadInv, OffInv, LockFree,
           NEW a \in Cores, pc[a] = "guest", Runnable(q, current[a]),
           NEW older, NEW d \in Yields(q, current[a], older)
    PROVE  Permits(a, d) /\ NoHosts(d)
<1> DEFINE t == current[a]
<1>1. Good(q) /\ q.update = FALSE /\ t \in Threads
  BY FreeGood DEF ThreadInv, StoreInv
<1>2. q.core[t] # NoCore
  BY <1>1 DEF OffInv, Off, Barred
<1>3. t \in Run(q) /\ q.core[t] \in Cores
  BY <1>1, <1>2 DEF Run, StoreInv, Exact
<1> HIDE DEF t
<1>4. Rearranged(d, q, t)
  <2>1. Rearranged(YieldWithoutCoreMigration(q, t), q, t)
    BY <1>1, <1>3 DEF DataContract, YieldsKeep
  <2>2. Rearranged(YieldWithCoreMigration(q, t, older), q, t)
    BY <1>1, <1>3 DEF DataContract, YieldsKeep
  <2>3. Rearranged(YieldToAnyThread(q, t), q, t)
    BY <1>1, <1>3 DEF DataContract, YieldsKeep
  <2> QED BY <2>1, <2>2, <2>3 DEF Yields, t
<1> QED BY <1>4, RearrangedPermits DEF Rearranged, t

\* PreemptThreads.
LEMMA PreemptPermits ==
    ASSUME DataContract, StoreInv, ThreadInv, LockFree, NEW a, NEW older
    PROVE  Permits(a, RotateAll(q, older)) /\ NoHosts(RotateAll(q, older))
<1> DEFINE d == RotateAll(q, older)
<1>1. Turned(d, q)
  BY FreeGood DEF DataContract, PreemptKeeps
<1> HIDE DEF d
<1>2. Permits(a, d) /\ NoHosts(d)
  BY <1>1, RearrangedPermits DEF Turned, Shuffled
<1> QED BY <1>2 DEF d

\* SetCoreMask.
LEMMA MaskPermits ==
    ASSUME DataContract, StoreInv, ThreadInv, LockFree, NEW a, NEW t \in Threads,
           NEW mask \in SUBSET Cores, NEW core \in mask
    PROVE  LET d == SetAffinity(Counted(q), t, mask, core) IN Permits(a, d) /\ NoHosts(d)
<1> DEFINE x == Counted(q)
           d == SetAffinity(x, t, mask, core)
<1>1. Good(x) /\ SameAll(x, q) /\ KeepsMarks(x, q)
  BY CountedGood
<1> HIDE DEF x
<1>2. AffinitySet(d, x, t, mask)
  BY <1>1 DEF DataContract, SetAffinityKeeps
<1> HIDE DEF d
<1>4. Good(d)
  BY <1>2 DEF AffinitySet
<1>5. /\ d.st = q.st /\ d.susp = q.susp /\ d.term = q.term /\ d.paused = q.paused /\ d.woken = q.woken
      /\ \A u \in Threads \ {t} : d.core[u] = q.core[u]
      /\ d.core[t] = NoCore => q.core[t] = NoCore
  BY <1>1, <1>2 DEF AffinitySet, SameAll, KeepsMarks
<1>6. Bars(a, d) /\ Stops(d)
  BY <1>5 DEF Bars, Stops, Barred, Stopped
<1>7. Ends(d)
  BY <1>5 DEF Ends, ThreadInv
<1>8. Permits(a, d) /\ NoHosts(d)
  BY <1>4, <1>5, <1>6, <1>7 DEF Permits, NoHosts, StoreInv
<1> QED BY <1>8 DEF d, x

\* SetActivity, with RequestSuspend.
LEMMA PausePermits ==
    ASSUME DataContract, StoreInv, ThreadInv, LockFree, NEW a, NEW t \in Threads
    PROVE  LET d == SetSuspended(q, t, TRUE) IN Permits(a, d) /\ NoHosts(d) /\ t \in d.susp
<1> DEFINE d == SetSuspended(q, t, TRUE)
<1>1. Good(q)
  BY FreeGood
<1>2. SuspendedSet(d, q, t, TRUE)
  BY <1>1 DEF DataContract, SetSuspendedKeeps
<1> HIDE DEF d
<1>3. /\ Good(d) /\ d.st = q.st /\ d.susp = q.susp \cup {t} /\ d.aff = q.aff /\ d.core = q.core
      /\ d.term = q.term /\ d.paused = q.paused /\ d.woken = q.woken
  BY <1>2 DEF SuspendedSet, KeepsMarks
<1>4. Bars(a, d) /\ Stops(d)
  BY <1>3 DEF Bars, Stops, Barred, Stopped
<1>5. Ends(d)
  BY <1>3 DEF Ends, ThreadInv
<1>6. Permits(a, d) /\ NoHosts(d) /\ t \in d.susp
  BY <1>3, <1>4, <1>5 DEF Permits, NoHosts, StoreInv
<1> QED BY <1>6 DEF d

\* SetActivity, with Resume.
LEMMA ResumePermits ==
    ASSUME DataContract, StoreInv, ThreadInv, LockFree, NEW a, NEW t \in Threads, NoneOn(t)
    PROVE  LET d == [SetSuspended(q, t, FALSE) EXCEPT !.paused = @ \ {t}] IN Permits(a, d) /\ NoHosts(d)
<1> DEFINE y == SetSuspended(q, t, FALSE)
           paused == y.paused \ {t}
           d == [y EXCEPT !.paused = paused]
<1>1. Good(q)
  BY FreeGood
<1>2. SuspendedSet(y, q, t, FALSE)
  BY <1>1 DEF DataContract, SetSuspendedKeeps
<1> HIDE DEF y, paused
<1>3. SameAll(d, y) /\ d.paused = paused /\ d.term = y.term
  <2>1. DOMAIN y = Fields
    BY <1>2 DEF SuspendedSet, Good, Exact
  <2> QED BY <2>1, SMTT(60) DEF SameAll, Fields
<1> HIDE DEF d
<1>4. Good(d)
  BY <1>2, <1>3 DEF SuspendedSet, DataContract, SameKeeps
<1>5. /\ d.st = q.st /\ d.susp = q.susp \ {t} /\ d.aff = q.aff /\ d.core = q.core
      /\ d.term = q.term /\ d.paused = q.paused \ {t} /\ d.woken = q.woken
  BY <1>2, <1>3 DEF SuspendedSet, SameAll, KeepsMarks, paused
<1>6. Bars(a, d) /\ Stops(d)
  BY <1>5 DEF Bars, Stops, Barred, Stopped
<1>7. Ends(d)
  BY <1>5 DEF Ends, ThreadInv
<1>8. Permits(a, d) /\ NoHosts(d)
  BY <1>4, <1>5, <1>6, <1>7 DEF Permits, NoHosts, StoreInv
<1> QED BY <1>8 DEF d, y, paused

\* The end of a call that waited for a thread to leave the cores.
LEMMA RetryPermits ==
    ASSUME DataContract, StoreInv, ThreadInv, CallInv, LockFree, NEW a \in Cores, InCall(current[a]),
           ~MustRetry(call[current[a]][1], call[current[a]][2]),
           NEW d,
           LET kind == call[current[a]][1]
               t == call[current[a]][2]
           IN d = IF kind = "pause" /\ ~IsTerminationRequested(t) THEN [q EXCEPT !.paused = @ \cup {t}] ELSE q
    PROVE  Permits(a, d) /\ NoHosts(d)
<1> DEFINE u == current[a]
           kind == call[u][1]
           t == call[u][2]
<1>1. Good(q) /\ u \in Threads /\ call[u] # NoCall /\ t \in Threads /\ DOMAIN q = Fields
  BY FreeGood DEF ThreadInv, CallInv, InCall, StoreInv, Exact
<1>2. /\ ~MustRetry(kind, t)
      /\ d = IF kind = "pause" /\ ~IsTerminationRequested(t) THEN [q EXCEPT !.paused = @ \cup {t}] ELSE q
  OBVIOUS
<1>3. kind = "pause" => t \in q.susp \/ IsTerminationRequested(t)
  BY <1>1 DEF CallInv, IsTerminationRequested
<1> HIDE DEF u, kind, t
<1>4. CASE ~(kind = "pause" /\ ~IsTerminationRequested(t))
  <2>1. d = q
    BY <1>2, <1>4
  <2>2. Permits(a, q)
    BY <1>1, SamePermits
  <2> QED BY <2>1, <2>2 DEF NoHosts, StoreInv
<1>5. CASE kind = "pause" /\ ~IsTerminationRequested(t)
  <2> DEFINE paused == q.paused \cup {t}
  <2>1. d = [q EXCEPT !.paused = paused]
    BY <1>2, <1>5
  <2> HIDE DEF paused
  <2>2. SameAll(d, q) /\ d.paused = paused /\ d.term = q.term
    BY <1>1, <2>1, SMTT(60) DEF SameAll, Fields
  <2>3. Good(d)
    BY <1>1, <2>2 DEF DataContract, SameKeeps
  <2>a. t \in q.susp
    BY <1>3, <1>5
  <2>4. \A c \in Cores : current[c] # t /\ ~May(q, Run(q), c, t)
    BY <1>1, <1>2, <1>5, <2>a, NullAssumption DEF MustRetry, May, Run, Runnable
  <2>5. Bars(a, d) /\ Stops(d)
    BY <2>2, <2>4 DEF Bars, Stops, Barred, Stopped, SameAll, paused
  <2>6. Ends(d)
    BY <2>2 DEF Ends, SameAll, ThreadInv
  <2> QED BY <2>2, <2>3, <2>5, <2>6, <2>a DEF Permits, NoHosts, StoreInv, SameAll, paused
<1> QED BY <1>4, <1>5

\* What RequestTerminate makes of the scheduling data.
Terminated(t) ==
    LET barred == IF t \in q.susp THEN {t} ELSE {}
        free == [SetSuspended(Counted(q), t, FALSE) EXCEPT
                    !.term = @ \cup {t}, !.paused = @ \ {t}, !.barred = @ \cup barred]
        raised == IF q.prio[t] > TerminatingPriority
                  THEN SetPriority(free, t, TerminatingPriority, FALSE) ELSE free
    IN IF q.st[t] = "waiting" THEN SetState(raised, t, "runnable") ELSE raised

\* RequestTerminate.
LEMMA TerminatePermits ==
    ASSUME DataContract, StoreInv, ThreadInv, LockFree, NEW a, NEW t \in Threads
    PROVE  Permits(a, Terminated(t)) /\ NoHosts(Terminated(t))
<1> DEFINE x == Counted(q)
           y == SetSuspended(x, t, FALSE)
           term == y.term \cup {t}
           paused == y.paused \ {t}
           barred == y.barred \cup IF t \in q.susp THEN {t} ELSE {}
           free == [y EXCEPT !.term = term, !.paused = paused, !.barred = barred]
           raised == IF q.prio[t] > TerminatingPriority
                     THEN SetPriority(free, t, TerminatingPriority, FALSE) ELSE free
           d == IF q.st[t] = "waiting" THEN SetState(raised, t, "runnable") ELSE raised
<1>0. Terminated(t) = d
  BY DEF Terminated
<1>1. Good(x) /\ SameAll(x, q) /\ KeepsMarks(x, q)
  BY CountedGood
<1> HIDE DEF x
<1>2. SuspendedSet(y, x, t, FALSE)
  BY <1>1 DEF DataContract, SetSuspendedKeeps
<1> HIDE DEF y, term, paused, barred
<1>3. SameAll(free, y) /\ free.paused = paused /\ free.term = term
  <2>1. DOMAIN y = Fields
    BY <1>2 DEF SuspendedSet, Good, Exact
  <2> QED BY <2>1, SMTT(60) DEF SameAll, Fields
<1> HIDE DEF free
<1>4. Good(free)
  BY <1>2, <1>3 DEF SuspendedSet, DataContract, SameKeeps
<1>5. Good(raised) /\ KeepsMarks(raised, free)
      /\ raised.st = free.st /\ raised.susp = free.susp /\ raised.aff = free.aff /\ raised.core = free.core
  <2> DEFINE z == SetPriority(free, t, TerminatingPriority, FALSE)
  <2>1. PrioritySet(z, free)
    BY <1>4, PrioritiesAssumption DEF DataContract, SetPriorityKeeps
  <2> HIDE DEF z
  <2>2. raised = z \/ raised = free
    BY DEF z
  <2> HIDE DEF raised
  <2> QED BY <1>4, <2>1, <2>2 DEF PrioritySet, KeepsMarks
<1> HIDE DEF raised
<1>6. /\ Good(d) /\ KeepsMarks(d, raised) /\ d.susp = raised.susp /\ d.aff = raised.aff /\ d.core = raised.core
      /\ d.st = raised.st \/ (q.st[t] = "waiting" /\ d.st = [raised.st EXCEPT ![t] = "runnable"])
  <2> DEFINE z == SetState(raised, t, "runnable")
  <2>1. StateSet(z, raised, t, "runnable")
    BY <1>5 DEF DataContract, SetStateKeeps
  <2> HIDE DEF z
  <2>2. (q.st[t] = "waiting" /\ d = z) \/ d = raised
    BY DEF z
  <2> HIDE DEF d
  <2> QED BY <1>5, <2>1, <2>2 DEF StateSet, KeepsMarks
<1> HIDE DEF d
<1>7. /\ raised.st = q.st /\ d.susp = q.susp \ {t} /\ d.aff = q.aff /\ d.core = q.core
      /\ d.term = q.term \cup {t} /\ d.paused = q.paused \ {t} /\ d.woken = q.woken
  <2>1. /\ free.st = q.st /\ free.susp = q.susp \ {t} /\ free.aff = q.aff /\ free.core = q.core
        /\ free.term = q.term \cup {t} /\ free.paused = q.paused \ {t}
        /\ free.woken = q.woken
    BY <1>1, <1>2, <1>3 DEF SuspendedSet, SameAll, KeepsMarks, term, paused
  <2> QED BY <1>5, <1>6, <2>1 DEF KeepsMarks
<1>8. /\ \A u \in Threads \cup Hosts : u # t => d.st[u] = q.st[u]
      /\ d.st[t] = q.st[t] \/ (q.st[t] = "waiting" /\ d.st[t] = "runnable")
  BY <1>6, <1>7 DEF StoreInv
<1>9. Bars(a, d) /\ Stops(d)
  BY <1>7, <1>8 DEF Bars, Stops, Barred, Stopped
<1>10. Ends(d)
  <2>1. d.term \subseteq Threads
    BY <1>7 DEF ThreadInv
  <2>2. \A u \in Threads : /\ u \in q.term => u \in d.term
                           /\ q.st[u] = "terminated" => d.st[u] = "terminated"
    BY <1>7, <1>8
  <2>3. \A u \in Threads : u \in q.susp => u \in d.susp \cup d.term
    BY <1>7
  <2> QED BY <2>1, <2>2, <2>3 DEF Ends
<1>11. NoHosts(d)
  BY <1>7, <1>8, HostsAssumption DEF NoHosts, StoreInv
<1>12. Permits(a, d)
  BY <1>6, <1>7, <1>9, <1>10 DEF Permits, StoreInv
<1> QED BY <1>0, <1>11, <1>12

\* Exit: the thread is not paused, as its core executes it.
LEMMA ExitPermits ==
    ASSUME DataContract, StoreInv, ThreadInv, OffInv, LockFree,
           NEW a \in Cores, pc[a] \in {"loop", "guest"}, current[a] \in Threads
    PROVE  LET d == SetState(SetSuspended(q, current[a], FALSE), current[a], "terminated")
           IN Permits(a, d) /\ NoHosts(d) /\ d.st[current[a]] = "terminated"
<1> DEFINE t == current[a]
           y == SetSuspended(q, t, FALSE)
           d == SetState(y, t, "terminated")
<1>1. Good(q) /\ t \in Threads
  BY FreeGood
<1>2. t \notin q.paused
  BY <1>1 DEF OffInv, Off, Barred
<1> HIDE DEF t
<1>3. SuspendedSet(y, q, t, FALSE)
  BY <1>1 DEF DataContract, SetSuspendedKeeps
<1> HIDE DEF y
<1>4. StateSet(d, y, t, "terminated")
  BY <1>1, <1>3 DEF SuspendedSet, DataContract, SetStateKeeps
<1> HIDE DEF d
<1>5. /\ d.st = [q.st EXCEPT ![t] = "terminated"] /\ d.susp = q.susp \ {t} /\ d.aff = q.aff /\ d.core = q.core
      /\ d.term = q.term /\ d.paused = q.paused /\ d.woken = q.woken /\ Good(d)
  BY <1>3, <1>4 DEF SuspendedSet, StateSet, KeepsMarks
<1>6. d.st[t] = "terminated" /\ \A u \in Threads \cup Hosts : u # t => d.st[u] = q.st[u]
  BY <1>1, <1>5 DEF StoreInv
<1>7. Bars(a, d) /\ Stops(d)
  BY <1>5, <1>6 DEF Bars, Stops, Barred, Stopped, t
<1>8. Ends(d)
  <2>1. \A u \in Threads : u \in q.susp => u \in d.susp \/ d.st[u] = "terminated"
    BY <1>5, <1>6
  <2> QED BY <1>5, <1>6, <2>1 DEF Ends, ThreadInv
<1>9. NoHosts(d)
  BY <1>1, <1>5, <1>6, HostsAssumption DEF NoHosts, StoreInv
<1>10. Permits(a, d)
  BY <1>2, <1>5, <1>7, <1>8 DEF Permits, StoreInv
<1> QED BY <1>6, <1>9, <1>10 DEF d, y, t

-----------------------------------------------------------------------------
(* Every step under the lock is one that the proofs permit.                *)

\* A host is awake after the step if it is runnable, and only actor a goes to sleep.
AwakeRight(a, d) ==
    /\ \A h \in Hosts : h \in awake' <=> d.st[h] = "runnable"
    /\ \A h \in Hosts \ {a} : h \in awake => h \in awake'

\* The calls after the step: one may have begun, of a thread that is then suspended
\* if it is to be paused, or have ended.
CallsRight(d) ==
    \/ call' = call
    \/ \E u \in Threads : call' = [call EXCEPT ![u] = NoCall]
    \/ \E u, t \in Threads : call' = [call EXCEPT ![u] = <<"mask", t>>]
    \/ \E u, t \in Threads : call' = [call EXCEPT ![u] = <<"pause", t>>] /\ t \in d.susp

\* The thread of actor a may have exited.
EndsRight(a, d) ==
    \/ fin' = fin
    \/ /\ a \in Cores /\ current[a] \in Threads /\ d.st[current[a]] = "terminated"
       /\ fin' = [fin EXCEPT ![current[a]] = 0]

\* What every step under the scheduler lock is: it makes d of the scheduling data.
Locked(a, d) ==
    /\ LockFree /\ pc[a] \in {"loop", "guest"}
    /\ Unlock(a, d) /\ Permits(a, d) /\ AwakeRight(a, d) /\ CallsRight(d) /\ EndsRight(a, d)

\* A step about guest threads puts no host to sleep.
LEMMA NoHostsAwake ==
    ASSUME HostInv, NEW a, NEW d, a \in Hosts => pc[a] = "loop", Unlock(a, d), NoHosts(d)
    PROVE  AwakeRight(a, d)
<1>1. awake' = (awake \cup d.woken) \ (IF d.update /\ a \in Hosts /\ d.st[a] # "runnable" THEN {a} ELSE {})
  BY DEF Unlock
<1>2. a \in Hosts => d.st[a] = "runnable"
  BY DEF HostInv, NoHosts
<1>3. awake' = awake
  BY <1>1, <1>2 DEF NoHosts
<1> QED BY <1>3 DEF AwakeRight, HostInv, NoHosts

\* What the steps under the lock rest on.
DataInv == ContextInv /\ StoreInv /\ ThreadInv /\ HostInv /\ OffInv /\ CallInv

\* Actor a takes the lock.
Takes(a) == LockFree /\ pc[a] \in {"loop", "guest"} /\ (a \in Hosts => pc[a] = "loop")

\* Such a step, if it is about guest threads.
LEMMA GuestLocked ==
    ASSUME DataInv, NEW a,
           NEW d, Takes(a), Unlock(a, d), Permits(a, d), NoHosts(d), CallsRight(d), EndsRight(a, d)
    PROVE  Locked(a, d)
BY NoHostsAwake DEF Locked, DataInv, Takes

\* A core that can act executes a guest thread.
LEMMA CanActGuest ==
    ASSUME DataInv, NEW a \in Cores, CanAct(a)
    PROVE  LockFree /\ pc[a] = "guest" /\ current[a] \in Threads /\ a \notin Hosts
<1>1. a \notin Hosts
  BY HostsAssumption
<1> QED BY <1>1 DEF CanAct, DataInv, ThreadInv

\* The requests that cores and hosts make.
LEMMA RequestLocked == ASSUME DataContract, DataInv, NEW a \in Actors, Request(a) PROVE \E d : Locked(a, d)
<1>0. ASSUME CanAct(a) PROVE LockFree /\ pc[a] \in {"loop", "guest"} /\ (a \in Hosts => pc[a] = "loop")
  BY <1>0 DEF CanAct
<1>1. ASSUME NEW t \in Threads, Wake(a, t) PROVE \E d : Locked(a, d)
  <2> DEFINE d == SetState(q, t, "runnable")
  <2>1. Unlock(a, d) /\ CanAct(a) /\ q.st[t] = "waiting" /\ call' = call /\ fin' = fin
    BY <1>1 DEF Wake, calls
  <2>2. Permits(a, d) /\ NoHosts(d)
    BY <1>0, <2>1, WakePermits DEF DataInv
  <2> HIDE DEF d
  <2>3. Takes(a)
    BY <1>0, <2>1 DEF Takes
  <2>4. Unlock(a, d) /\ CallsRight(d) /\ EndsRight(a, d)
    BY <2>1 DEF CallsRight, EndsRight
  <2>5. Locked(a, d)
    BY <2>2, <2>3, <2>4, GuestLocked
  <2> QED BY <2>5
<1>2. ASSUME NEW h \in Hosts, WakeHost(a, h) PROVE \E d : Locked(a, d)
  <2> DEFINE d == SetHostState(q, h, "runnable")
  <2>1. Unlock(a, d) /\ CanAct(a) /\ q.st[h] = "waiting" /\ call' = call /\ fin' = fin
    BY <1>2 DEF WakeHost, calls
  <2>2. /\ Permits(a, d) /\ d.update /\ d.woken = {h}
        /\ d.st[h] = "runnable" /\ \A g \in Hosts \ {h} : d.st[g] = q.st[g]
    <3>1. HostStep(a, d, h, "runnable")
      BY <1>0, <2>1, HostStatePermits DEF DataInv
    <3> HIDE DEF d
    <3> QED BY <3>1 DEF HostStep
  <2> HIDE DEF d
  <2>3. awake' = (awake \cup d.woken) \ (IF d.update /\ a \in Hosts /\ d.st[a] # "runnable" THEN {a} ELSE {})
    BY <2>1 DEF Unlock
  <2>4. a \in Hosts => d.st[a] = "runnable"
    BY <1>0, <2>1, <2>2 DEF DataInv, HostInv
  <2>5. awake' = awake \cup {h}
    BY <2>2, <2>3, <2>4
  <2>6. AwakeRight(a, d)
    BY <2>2, <2>5 DEF AwakeRight, DataInv, HostInv
  <2>7. Locked(a, d)
    BY <1>0, <2>1, <2>2, <2>6 DEF Locked, CallsRight, EndsRight
  <2> QED BY <2>7
<1>3. ASSUME NEW t \in Killable, RequestTerminate(a, t) PROVE \E d : Locked(a, d)
  <2> DEFINE d == Terminated(t)
  <2>1. Unlock(a, d) /\ CanAct(a) /\ call' = call /\ fin' = fin
    BY <1>3 DEF RequestTerminate, CanChange, Terminated, calls
  <2>2. Permits(a, d) /\ NoHosts(d)
    BY <1>0, <2>1, TerminatePermits, ChangesAssumption DEF DataInv
  <2> HIDE DEF d
  <2>3. Takes(a)
    BY <1>0, <2>1 DEF Takes
  <2>4. Unlock(a, d) /\ CallsRight(d) /\ EndsRight(a, d)
    BY <2>1 DEF CallsRight, EndsRight
  <2>5. Locked(a, d)
    BY <2>2, <2>3, <2>4, GuestLocked
  <2> QED BY <2>5
<1> QED BY <1>1, <1>2, <1>3 DEF Request

\* The requests of a host.
LEMMA HostLocked == ASSUME DataContract, DataInv, NEW a \in Hosts, HostRequest(a) PROVE \E d : Locked(a, d)
<1>0. ASSUME CanAct(a) PROVE LockFree /\ pc[a] = "loop"
  BY <1>0 DEF CanAct
<1>1. CASE HostWait(a)
  <2> DEFINE d == SetHostState(q, a, "waiting")
  <2>1. Unlock(a, d) /\ CanAct(a) /\ call' = call /\ fin' = fin
    BY <1>1 DEF HostWait, calls
  <2>2. /\ Permits(a, d) /\ d.update /\ d.woken = {}
        /\ d.st[a] = "waiting" /\ \A g \in Hosts \ {a} : d.st[g] = q.st[g]
    <3>1. HostStep(a, d, a, "waiting")
      BY <1>0, <2>1, HostStatePermits DEF DataInv
    <3> HIDE DEF d
    <3> QED BY <3>1 DEF HostStep
  <2> HIDE DEF d
  <2>3. awake' = (awake \cup d.woken) \ (IF d.update /\ a \in Hosts /\ d.st[a] # "runnable" THEN {a} ELSE {})
    BY <2>1 DEF Unlock
  <2>5. awake' = awake \ {a}
    BY <2>2, <2>3
  <2>6. AwakeRight(a, d)
    BY <2>2, <2>5 DEF AwakeRight, DataInv, HostInv
  <2>7. Locked(a, d)
    BY <1>0, <2>1, <2>2, <2>6 DEF Locked, CallsRight, EndsRight
  <2> QED BY <2>7
<1>2. CASE PreemptThreads(a)
  <2>1. PICK older \in [Cores -> BOOLEAN] : Unlock(a, RotateAll(q, older))
    BY <1>2 DEF PreemptThreads, RotateAll
  <2> DEFINE d == RotateAll(q, older)
  <2>2. CanAct(a) /\ call' = call /\ fin' = fin
    BY <1>2 DEF PreemptThreads, calls
  <2>3. Permits(a, d) /\ NoHosts(d)
    BY <1>0, <2>2, PreemptPermits DEF DataInv
  <2>4. Unlock(a, d)
    BY <2>1
  <2> HIDE DEF d
  <2>5. Takes(a)
    BY <1>0, <2>2 DEF Takes
  <2>6. CallsRight(d) /\ EndsRight(a, d)
    BY <2>2 DEF CallsRight, EndsRight
  <2>7. Locked(a, d)
    BY <2>3, <2>4, <2>5, <2>6, GuestLocked
  <2> QED BY <2>7
<1> QED BY <1>1, <1>2 DEF HostRequest

\* The requests of a core whose thread is in user mode, but its exit.
LEMMA GuestRequestLocked ==
    ASSUME DataContract, DataInv, NEW a \in Cores, GuestRequest(a), ~ExitThread(a) PROVE \E d : Locked(a, d)
<1>0. ASSUME CanAct(a) PROVE LockFree /\ pc[a] = "guest" /\ current[a] \in Threads /\ Takes(a)
  BY <1>0, CanActGuest DEF Takes
<1>1. CASE Wait(a)
  <2> DEFINE d == SetState(q, current[a], "waiting")
  <2>1. Unlock(a, d) /\ CanAct(a) /\ ~IsTerminationRequested(current[a]) /\ call' = call /\ fin' = fin
    BY <1>1 DEF Wait, calls
  <2>2. Permits(a, d) /\ NoHosts(d)
    BY <1>0, <2>1, WaitPermits DEF DataInv
  <2> HIDE DEF d
  <2>3. CallsRight(d) /\ EndsRight(a, d)
    BY <2>1 DEF CallsRight, EndsRight
  <2>4. Locked(a, d)
    BY <1>0, <2>1, <2>2, <2>3, GuestLocked
  <2> QED BY <2>4
<1>2. CASE Yield(a)
  <2>1. PICK d : /\ Unlock(a, d)
                 /\ \/ ~Runnable(q, current[a]) /\ d = q
                    \/ /\ Runnable(q, current[a])
                       /\ \E older \in BOOLEAN : d \in Yields(q, current[a], older)
    BY <1>2 DEF Yield
  <2>2. CanAct(a) /\ call' = call /\ fin' = fin
    BY <1>2 DEF Yield, calls
  <2>3. Permits(a, d) /\ NoHosts(d)
    <3>1. CASE d = q
      <4>1. Permits(a, q)
        BY <1>0, <2>2, FreeGood, SamePermits DEF DataInv
      <4> QED BY <3>1, <4>1 DEF NoHosts, DataInv, StoreInv
    <3>2. CASE Runnable(q, current[a]) /\ \E older \in BOOLEAN : d \in Yields(q, current[a], older)
      BY <1>0, <2>2, <3>2, YieldPermits DEF DataInv
    <3> QED BY <2>1, <3>1, <3>2
  <2>4. CallsRight(d) /\ EndsRight(a, d)
    BY <2>2 DEF CallsRight, EndsRight
  <2>5. Locked(a, d)
    BY <1>0, <2>1, <2>2, <2>3, <2>4, GuestLocked
  <2> QED BY <2>5
<1>3. ASSUME NEW s \in Settable, SetBasePriority(a, s[1], s[2]) PROVE \E d : Locked(a, d)
  <2> DEFINE d == SetPriority(Counted(q), s[1], s[2], s[1] = current[a])
  <2>1. Unlock(a, d) /\ CanAct(a) /\ call' = call /\ fin' = fin
    BY <1>3 DEF SetBasePriority, CanChange, calls
  <2>2. s[1] \in Threads /\ s[2] \in Int
    BY ChangesAssumption, SMTT(60)
  <2>3. Permits(a, d) /\ NoHosts(d)
    BY <1>0, <2>1, <2>2, PriorityPermits DEF DataInv
  <2> HIDE DEF d
  <2>4. CallsRight(d) /\ EndsRight(a, d)
    BY <2>1 DEF CallsRight, EndsRight
  <2>5. Locked(a, d)
    BY <1>0, <2>1, <2>3, <2>4, GuestLocked
  <2> QED BY <2>5
<1>4. ASSUME NEW s \in Maskable, SetCoreMask(a, s[1], s[2]) PROVE \E d : Locked(a, d)
  <2>1. PICK core \in s[2] : Unlock(a, SetAffinity(Counted(q), s[1], s[2], core))
    BY <1>4 DEF SetCoreMask
  <2> DEFINE d == SetAffinity(Counted(q), s[1], s[2], core)
  <2>2. CanAct(a) /\ call' = [call EXCEPT ![current[a]] = <<"mask", s[1]>>] /\ fin' = fin
    BY <1>4 DEF SetCoreMask, CanChange
  <2>3. s[1] \in Threads /\ s[2] \in SUBSET Cores
    BY ChangesAssumption, SMTT(60)
  <2>4. Permits(a, d) /\ NoHosts(d)
    BY <1>0, <2>2, <2>3, MaskPermits DEF DataInv
  <2>5. Unlock(a, d)
    BY <2>1
  <2> HIDE DEF d
  <2>6. CallsRight(d) /\ EndsRight(a, d)
    BY <1>0, <2>2, <2>3 DEF CallsRight, EndsRight
  <2>7. Locked(a, d)
    BY <1>0, <2>2, <2>4, <2>5, <2>6, GuestLocked
  <2> QED BY <2>7
<1>5. ASSUME NEW t \in Pausable, Pause(a, t) PROVE \E d : Locked(a, d)
  <2> DEFINE d == SetSuspended(q, t, TRUE)
  <2>1. Unlock(a, d) /\ CanAct(a) /\ call' = [call EXCEPT ![current[a]] = <<"pause", t>>] /\ fin' = fin
    BY <1>5 DEF Pause
  <2>2. t \in Threads
    BY ChangesAssumption
  <2>3. Permits(a, d) /\ NoHosts(d) /\ t \in d.susp
    BY <1>0, <2>1, <2>2, PausePermits DEF DataInv
  <2> HIDE DEF d
  <2>4. CallsRight(d) /\ EndsRight(a, d)
    BY <1>0, <2>1, <2>2, <2>3 DEF CallsRight, EndsRight
  <2>5. Locked(a, d)
    BY <1>0, <2>1, <2>3, <2>4, GuestLocked
  <2> QED BY <2>5
<1>6. ASSUME NEW t \in Pausable, Resume(a, t) PROVE \E d : Locked(a, d)
  <2> DEFINE d == [SetSuspended(q, t, FALSE) EXCEPT !.paused = @ \ {t}]
  <2>1. Unlock(a, d) /\ CanAct(a) /\ NoneOn(t) /\ call' = call /\ fin' = fin
    BY <1>6 DEF Resume, calls
  <2>2. t \in Threads
    BY ChangesAssumption
  <2>3. Permits(a, d) /\ NoHosts(d)
    BY <1>0, <2>1, <2>2, ResumePermits DEF DataInv
  <2> HIDE DEF d
  <2>4. CallsRight(d) /\ EndsRight(a, d)
    BY <2>1 DEF CallsRight, EndsRight
  <2>5. Locked(a, d)
    BY <1>0, <2>1, <2>3, <2>4, GuestLocked
  <2> QED BY <2>5
<1> QED BY <1>1, <1>2, <1>3, <1>4, <1>5, <1>6 DEF GuestRequest

\* The exit of a thread, by itself or because it is asked to.
LEMMA ExitLocked ==
    ASSUME DataContract, DataInv, NEW a \in Cores, ExitThread(a) \/ Terminate(a) PROVE \E d : Locked(a, d)
<1> DEFINE t == current[a]
           d == SetState(SetSuspended(q, t, FALSE), t, "terminated")
<1>1. Exit(a) /\ pc[a] \in {"loop", "guest"} /\ t \in Threads /\ Takes(a)
  <2>1. a \notin Hosts
    BY HostsAssumption
  <2>2. CASE ExitThread(a)
    BY <2>1, <2>2, CanActGuest DEF ExitThread, CanChange, Takes
  <2>3. CASE Terminate(a)
    BY <2>1, <2>3 DEF Terminate, AtLoop, Takes, Exit, DataInv, ThreadInv
  <2> QED BY <2>2, <2>3
<1>2. Unlock(a, d) /\ LockFree /\ call' = call /\ fin' = [fin EXCEPT ![t] = 0]
  BY <1>1 DEF Exit
<1>3. Permits(a, d) /\ NoHosts(d) /\ d.st[t] = "terminated"
  BY <1>1, <1>2, ExitPermits DEF DataInv
<1> HIDE DEF d
<1>4. CallsRight(d) /\ EndsRight(a, d)
  BY <1>1, <1>2, <1>3 DEF CallsRight, EndsRight
<1>5. Locked(a, d)
  BY <1>1, <1>2, <1>3, <1>4, GuestLocked
<1> QED BY <1>5

\* The rounds of a call that waits for a thread to leave the cores.
LEMMA RetryLocked == ASSUME DataContract, DataInv, NEW a \in Cores, RetryCall(a) PROVE \E d : Locked(a, d)
<1> DEFINE kind == call[current[a]][1]
           t == call[current[a]][2]
           stays == MustRetry(kind, t)
           e == IF kind = "pause" /\ ~IsTerminationRequested(t) THEN [q EXCEPT !.paused = @ \cup {t}] ELSE q
<1>1. /\ LockFree /\ pc[a] = "loop" /\ InCall(current[a]) /\ fin' = fin
      /\ \/ stays /\ call' = call /\ Unlock(a, q)
         \/ ~stays /\ call' = [call EXCEPT ![current[a]] = NoCall] /\ Unlock(a, e)
  BY DEF RetryCall
<1>2. Takes(a) /\ current[a] \in Threads
  BY <1>1 DEF Takes, InCall, DataInv, ThreadInv
<1>3. CASE stays
  <2>1. call' = call /\ Unlock(a, q)
    BY <1>1, <1>3
  <2>2. Permits(a, q) /\ NoHosts(q)
    BY <1>1, FreeGood, SamePermits DEF DataInv, NoHosts, StoreInv
  <2>3. CallsRight(q) /\ EndsRight(a, q)
    BY <1>1, <2>1 DEF CallsRight, EndsRight
  <2>4. Locked(a, q)
    BY <1>2, <2>1, <2>2, <2>3, GuestLocked
  <2> QED BY <2>4
<1>4. CASE ~stays
  <2>1. call' = [call EXCEPT ![current[a]] = NoCall] /\ Unlock(a, e)
    BY <1>1, <1>4
  <2>3. Permits(a, e) /\ NoHosts(e)
    BY <1>1, <1>4, RetryPermits DEF DataInv
  <2> HIDE DEF e
  <2>4. CallsRight(e) /\ EndsRight(a, e)
    BY <1>1, <1>2, <2>1 DEF CallsRight, EndsRight
  <2>5. Locked(a, e)
    BY <1>2, <2>1, <2>3, <2>4, GuestLocked
  <2> QED BY <2>5
<1> QED BY <1>3, <1>4

-----------------------------------------------------------------------------
(* Steps under the lock preserve the invariants.                           *)

\* Whoever has just stored a highest priority thread for core c is about to set its flag.
FlagPending(c) == \E a \in Actors : pc[a] = "flag" /\ Head(stores)[1] = c

\* A core has its highest priority thread or goes to it, unless its flag is set.
ChosenInv ==
    \A c \in Cores :
        /\ pc[c] \in {"loop", "guest", "store", "flag", "resched"} =>
              current[c] = highest[c] \/ needs[c] \/ FlagPending(c)
        /\ pc[c] \in {"try", "check"} => next[c] = highest[c] \/ needs[c] \/ FlagPending(c)

\* No core executes a thread that a call has made sure not to run there.
StopInv == \A t \in Threads, c \in Cores : Stopped(q, t) /\ Executes(c) => current[c] # t

\* A thread that FinishTermination looks for has exited, and its context stays
\* locked, so that no core can switch to it again.
EndInv ==
    /\ fin \in [Threads -> Int]
    /\ \A t \in Threads : fin[t] # Alive =>
          /\ q.st[t] = "terminated" /\ \E c \in Cores : <<t, c>> \in held
          /\ \A c \in Cores : /\ pc[c] = "check" => next[c] # t
                              /\ fin[t] > c => current[c] # t

\* What a step under the lock does to the actors.
LEMMA LockedResults ==
    ASSUME DataContract, DataInv, NEW a \in Actors, NEW d, Locked(a, d)
    PROVE  /\ Results(a, d) /\ StoreInv'
           /\ current' = current /\ next' = next /\ held' = held
           /\ pc[a] \in {"loop", "guest"} /\ pc'[a] = IF stores' = <<>> THEN "resched" ELSE "store"
           /\ \A b \in Actors : pc[b] \notin {"store", "flag"} /\ (b # a => pc'[b] = pc[b])
<1>1. Results(a, d)
  BY UnlockResults DEF Locked, Permits, DataInv
<1>2. StoreInv'
  BY <1>1, ResultsStore DEF Locked, Permits, DataInv
<1>3. pc' = [pc EXCEPT ![a] = IF stores' = <<>> THEN "resched" ELSE "store"] /\ UNCHANGED <<current, held, next>>
  BY <1>1 DEF Results
<1>4. DOMAIN pc = Actors
  BY DEF DataInv, ContextInv
<1> QED BY <1>1, <1>2, <1>3, <1>4 DEF Locked, LockFree

\* The front of a queue is a thread that is not barred from the core.
LEMMA FrontNotBarred ==
    ASSUME DataContract, NEW d, Exact(d, Run(d)), d.paused \subseteq d.susp, NEW c \in Cores
    PROVE  /\ FirstOf(d.sched[c]) \in Threads \cup {Null}
           /\ \A t \in Threads : Barred(d, t) \/ ~May(d, Run(d), c, t) => FirstOf(d.sched[c]) # t
<1>1. May(d, Run(d), c, FirstOf(d.sched[c]))
  BY DEF DataContract, FrontsMay
<1>2. \A t \in Threads : Barred(d, t) => ~May(d, Run(d), c, t)
  BY BarredNot
<1> QED BY <1>1, <1>2 DEF May, Run

\* Steps under the lock preserve ThreadInv, HostInv and CallInv.
LEMMA LockedData ==
    ASSUME DataContract, DataInv, NEW a \in Actors, NEW d, Locked(a, d)
    PROVE  ThreadInv' /\ HostInv' /\ CallInv'
<1>1. /\ Results(a, d) /\ StoreInv' /\ current' = current /\ next' = next
      /\ pc'[a] \in {"resched", "store"} /\ \A b \in Actors : b # a => pc'[b] = pc[b]
  BY LockedResults
<1>2. ThreadInv'
  <2>1. q'.term \subseteq Threads
    BY <1>1 DEF Results, Locked, Permits, Ends
  <2>2. \A c \in Cores : highest'[c] \in Threads \cup {Null}
    <3>1. \A c \in Cores : FirstOf(q'.sched[c]) \in Threads \cup {Null}
      BY <1>1, FrontNotBarred DEF StoreInv
    <3>2. \A c \in Cores : highest'[c] = highest[c] \/ highest'[c] = FirstOf(q'.sched[c])
      BY <1>1 DEF Results
    <3> QED BY <3>1, <3>2 DEF DataInv, ThreadInv
  <2>3. \A c \in Cores : pc'[c] = "guest" => current[c] \in Threads
    BY <1>1 DEF DataInv, ThreadInv, Actors
  <2> QED BY <1>1, <2>1, <2>2, <2>3 DEF DataInv, ThreadInv
<1>3. HostInv'
  <2>1. \A h \in Hosts : h \in awake' <=> q'.st[h] = "runnable"
    BY <1>1 DEF Results, Locked, AwakeRight
  <2>2. \A h \in Hosts : pc'[h] = "loop" => h # a /\ h \in awake
    BY <1>1 DEF DataInv, HostInv, Actors
  <2>3. \A h \in Hosts \ {a} : h \in awake => h \in awake'
    BY DEF Locked, AwakeRight
  <2> QED BY <2>1, <2>2, <2>3 DEF HostInv
<1>4. CallInv'
  <2>0. q'.st = d.st /\ q'.susp = d.susp /\ q'.term = d.term
    BY <1>1 DEF Results
  <2>1. CallsRight(d) /\ Ends(d)
    BY DEF Locked, Permits
  <2>2. \A u \in Threads : call[u] # NoCall =>
          /\ call[u][1] \in {"mask", "pause"} /\ call[u][2] \in Threads
          /\ call[u][1] = "pause" => \/ call[u][2] \in q'.susp \cup q'.term
                                     \/ q'.st[call[u][2]] = "terminated"
    <3> SUFFICES ASSUME NEW u \in Threads, call[u] # NoCall
                 PROVE  /\ call[u][1] \in {"mask", "pause"} /\ call[u][2] \in Threads
                        /\ call[u][1] = "pause" => \/ call[u][2] \in q'.susp \cup q'.term
                                                   \/ q'.st[call[u][2]] = "terminated"
      OBVIOUS
    <3>1. /\ call[u][1] \in {"mask", "pause"} /\ call[u][2] \in Threads
          /\ call[u][1] = "pause" => \/ call[u][2] \in q.susp \cup q.term
                                     \/ q.st[call[u][2]] = "terminated"
      BY DEF DataInv, CallInv
    <3>2. ~NoneOn(call[u][2])
      BY NullAssumption DEF NoneOn, InCall
    <3> QED BY <2>0, <2>1, <3>1, <3>2 DEF Ends
  <2>3. DOMAIN call = Threads
    BY DEF DataInv, CallInv
  <2>4. CASE call' = call
    BY <2>2, <2>3, <2>4 DEF CallInv
  <2>5. ASSUME NEW u \in Threads, NEW k, call' = [call EXCEPT ![u] = k],
               k # NoCall => /\ k[1] \in {"mask", "pause"} /\ k[2] \in Threads
                             /\ k[1] = "pause" => k[2] \in q'.susp
        PROVE  CallInv'
    <3>1. DOMAIN call' = Threads /\ call'[u] = k /\ \A v \in Threads : v # u => call'[v] = call[v]
      BY <2>3, <2>5
    <3> QED BY <2>2, <2>5, <3>1 DEF CallInv
  <2>6. \A t : /\ <<"mask", t>>[1] = "mask" /\ <<"mask", t>>[2] = t
               /\ <<"pause", t>>[1] = "pause" /\ <<"pause", t>>[2] = t
    OBVIOUS
  <2>7. CASE \E u \in Threads : call' = [call EXCEPT ![u] = NoCall]
    BY <2>5, <2>7
  <2>8. CASE \E u, t \in Threads : call' = [call EXCEPT ![u] = <<"mask", t>>]
    BY <2>5, <2>6, <2>8
  <2>9. CASE \E u, t \in Threads : call' = [call EXCEPT ![u] = <<"pause", t>>] /\ t \in d.susp
    BY <2>0, <2>5, <2>6, <2>9
  <2> QED BY <2>1, <2>4, <2>7, <2>8, <2>9 DEF CallsRight
<1> QED BY <1>2, <1>3, <1>4

\* Steps under the lock preserve ChosenInv and StopInv.
LEMMA LockedChosen ==
    ASSUME DataContract, DataInv, ChosenInv, StopInv, NEW a \in Actors, NEW d, Locked(a, d)
    PROVE  ChosenInv' /\ StopInv'
<1>1. /\ Results(a, d) /\ current' = current /\ next' = next
      /\ pc[a] \in {"loop", "guest"} /\ pc'[a] \in {"resched", "store"}
      /\ \A b \in Actors : pc[b] \notin {"store", "flag"} /\ (b # a => pc'[b] = pc[b])
  BY LockedResults
<1>2. \A c : ~FlagPending(c)
  BY <1>1 DEF FlagPending
<1>3. ChosenInv'
  <2> SUFFICES ASSUME NEW c \in Cores
               PROVE  /\ pc'[c] \in {"loop", "guest", "store", "flag", "resched"} => current'[c] = highest'[c] \/ needs'[c]
                      /\ pc'[c] \in {"try", "check"} => next'[c] = highest'[c] \/ needs'[c]
    BY DEF ChosenInv
  <2>1. CASE c = a
    <3>1. current[c] = highest[c] \/ needs[c]
      BY <1>1, <1>2, <2>1 DEF ChosenInv
    <3>2. (highest'[c] = highest[c] /\ needs'[c] = needs[c]) \/ needs'[c]
      BY <1>1, <2>1 DEF Results
    <3> QED BY <1>1, <2>1, <3>1, <3>2
  <2>2. CASE c # a
    <3>1. highest'[c] = highest[c] /\ needs'[c] = needs[c] /\ pc'[c] = pc[c]
      BY <1>1, <2>2 DEF Results, Actors
    <3> QED BY <1>1, <1>2, <3>1 DEF ChosenInv
  <2> QED BY <2>1, <2>2
<1>4. StopInv'
  <2>1. \A c \in Cores : Executes(c)' => Executes(c)
    BY <1>1 DEF Executes, Actors
  <2>2. q'.paused = d.paused /\ q'.aff = d.aff
    BY <1>1 DEF Results
  <2>3. \A t \in Threads, c \in Cores : Stopped(q', t) /\ current[c] = t => Stopped(q, t)
    BY <2>2 DEF Locked, Permits, Stops, Stopped
  <2> QED BY <1>1, <2>1, <2>3 DEF StopInv
<1> QED BY <1>3, <1>4

\* Steps under the lock preserve EndInv.
LEMMA LockedEnd ==
    ASSUME DataContract, DataInv, EndInv, NEW a \in Actors, NEW d, Locked(a, d) PROVE EndInv'
<1>1. /\ Results(a, d) /\ current' = current /\ next' = next /\ held' = held
      /\ pc[a] \in {"loop", "guest"} /\ pc'[a] \in {"resched", "store"}
      /\ \A b \in Actors : b # a => pc'[b] = pc[b]
  BY LockedResults
<1>2. \A c \in Cores : pc'[c] = "check" => pc[c] = "check"
  BY <1>1 DEF Actors
<1>3. \A t \in Threads : q.st[t] = "terminated" => q'.st[t] = "terminated"
  BY <1>1 DEF Results, Locked, Permits, Ends
<1>4. \A t \in Threads : fin[t] # Alive =>
          /\ q'.st[t] = "terminated" /\ \E c \in Cores : <<t, c>> \in held'
          /\ \A c \in Cores : /\ pc'[c] = "check" => next'[c] # t
                              /\ fin[t] > c => current'[c] # t
  BY <1>1, <1>2, <1>3 DEF EndInv
<1>5. CASE fin' = fin
  BY <1>4, <1>5 DEF EndInv
<1>6. CASE fin' # fin
  <2> DEFINE u == current[a]
  <2>1. a \in Cores /\ u \in Threads /\ d.st[u] = "terminated" /\ fin' = [fin EXCEPT ![u] = 0]
    BY <1>6 DEF Locked, EndsRight
  <2>2. /\ fin' \in [Threads -> Int] /\ fin'[u] = 0 /\ \A t \in Threads : t # u => fin'[t] = fin[t]
    <3> HIDE DEF u
    <3> QED BY <2>1, SMTT(60) DEF EndInv
  <2>3. q'.st[u] = "terminated"
    BY <1>1, <2>1 DEF Results
  <2>4. <<u, a>> \in held
    BY <1>1, <2>1 DEF DataInv, ContextInv, Executes
  <2>5. \A c \in Cores : pc[c] = "check" => next[c] # u
    BY <1>1, <2>1, <2>4, NullAssumption DEF DataInv, ContextInv
  <2>6. \A c \in Cores : ~(0 > c)
    BY SMTT(60) DEF Cores
  <2> HIDE DEF u
  <2>7. \A t \in Threads : fin'[t] # Alive =>
          /\ q'.st[t] = "terminated" /\ \E c \in Cores : <<t, c>> \in held'
          /\ \A c \in Cores : /\ pc'[c] = "check" => next'[c] # t
                              /\ fin'[t] > c => current'[c] # t
    <3> SUFFICES ASSUME NEW t \in Threads, fin'[t] # Alive
                 PROVE  /\ q'.st[t] = "terminated" /\ \E c \in Cores : <<t, c>> \in held'
                        /\ \A c \in Cores : /\ pc'[c] = "check" => next'[c] # t
                                            /\ fin'[t] > c => current'[c] # t
      OBVIOUS
    <3>1. CASE t = u
      BY <1>1, <1>2, <2>1, <2>2, <2>3, <2>4, <2>5, <2>6, <3>1
    <3>2. CASE t # u
      BY <1>4, <2>2, <3>2
    <3> QED BY <3>1, <3>2
  <2> QED BY <2>2, <2>7 DEF EndInv
<1> QED BY <1>5, <1>6

\* Steps under the lock preserve OffInv.
LEMMA LockedOff ==
    ASSUME DataContract, DataInv, ChosenInv, NEW a \in Actors, NEW d, Locked(a, d) PROVE OffInv'
<1>1. /\ Results(a, d) /\ StoreInv' /\ current' = current /\ next' = next
      /\ pc[a] \in {"loop", "guest"} /\ pc'[a] = IF stores' = <<>> THEN "resched" ELSE "store"
      /\ \A b \in Actors : pc[b] \notin {"store", "flag"} /\ (b # a => pc'[b] = pc[b])
  BY LockedResults
<1> SUFFICES ASSUME NEW t \in Threads, NEW c \in Cores, Barred(q', t) PROVE Off(t, c)'
  BY DEF OffInv
<1>2. (\A b : ~FlagPending(b)) /\ ~Replacing(t, c)
  BY <1>1 DEF FlagPending, Replacing, Actors
<1>3. FirstOf(q'.sched[c]) # t
  <2>1. Exact(q', Run(q')) /\ q'.paused \subseteq q'.susp
    BY <1>1 DEF StoreInv
  <2> QED BY <2>1, FrontNotBarred
<1>4. Barred(d, t)
  BY <1>1 DEF Barred, Results
<1>5. CASE c = a
  <2>1. highest'[c] # t
    BY <1>1, <1>3, <1>5 DEF Results
  <2>2. pc'[c] \in {"resched", "store"}
    BY <1>1, <1>5
  <2>3. current[c] = t => needs'[c]
    <3>1. current[c] = highest[c] \/ needs[c]
      BY <1>1, <1>2, <1>5 DEF ChosenInv
    <3>2. (highest'[c] = highest[c] /\ needs'[c] = needs[c]) \/ needs'[c]
      BY <1>1, <1>5 DEF Results
    <3> QED BY <2>1, <3>1, <3>2
  <2> QED BY <1>1, <2>1, <2>2, <2>3 DEF Off
<1>6. CASE c # a
  <2>1. /\ highest'[c] = highest[c] /\ needs'[c] = needs[c] /\ pc'[c] = pc[c]
        /\ pc[c] \notin {"store", "flag"}
    BY <1>1, <1>6 DEF Results, Actors
  <2>2. pc[c] \in {"try", "check"} => next[c] = highest[c] \/ needs[c]
    BY <1>2 DEF ChosenInv
  <2>3. CASE Barred(q, t)
    <3>1. Off(t, c)
      BY <2>3 DEF DataInv, OffInv
    <3> QED BY <1>1, <1>2, <2>1, <3>1 DEF Off
  <2>4. CASE a \in Cores /\ t = current[a]
    <3>1. pc[c] \in {"loop", "guest", "resched"} => current[c] # t
      <4>1. pc[c] \in {"loop", "guest", "resched"} => <<current[c], c>> \in held
        BY DEF DataInv, ContextInv, Executes
      <4>2. <<t, a>> \in held
        BY <1>1, <2>4 DEF DataInv, ContextInv, Executes
      <4> QED BY <1>6, <4>1, <4>2, NullAssumption DEF DataInv, ContextInv
    <3>2. highest[c] = t => Replacing(t, c)'
      <4> SUFFICES ASSUME highest[c] = t PROVE Replacing(t, c)'
        OBVIOUS
      <4>1. Entry(c)'
        BY <1>1, <1>3, <2>1 DEF Results
      <4>2. stores' # <<>>
        <5>1. stores' = <<>> => DOMAIN stores' = {}
          BY SMTT(60)
        <5> QED BY <4>1, <5>1 DEF Entry
      <4>3. pc'[a] = "store"
        BY <1>1, <4>2
      <4> QED BY <1>1, <1>6, <2>4, <4>1, <4>3 DEF Replacing
    <3> QED BY <1>1, <2>1, <2>2, <3>1, <3>2 DEF Off
  <2>5. CASE current[c] # t /\ ~May(q, Run(q), c, t)
    <3>1. highest[c] = FirstOf(q.sched[c])
      BY FreeGood DEF DataInv, Locked, Calm
    <3>2. highest[c] # t
      BY <2>5, <3>1, FrontNotBarred DEF DataInv, StoreInv
    <3> QED BY <1>1, <2>1, <2>2, <2>5, <3>2 DEF Off
  <2> QED BY <1>4, <2>3, <2>4, <2>5 DEF Locked, Permits, Bars
<1> QED BY <1>5, <1>6

\* What the proofs below maintain besides ContextInv.
SchedInv == DataInv /\ ChosenInv /\ StopInv /\ EndInv

\* A step under the lock preserves SchedInv.
LEMMA LockedSched ==
    ASSUME DataContract, SchedInv, ContextInv', NEW a \in Actors, NEW d, Locked(a, d) PROVE SchedInv'
<1>1. DataInv /\ ChosenInv /\ StopInv /\ EndInv
  BY DEF SchedInv
<1>2. StoreInv' /\ ThreadInv' /\ HostInv' /\ CallInv'
  BY <1>1, LockedResults, LockedData
<1>3. OffInv' /\ ChosenInv' /\ StopInv' /\ EndInv'
  BY <1>1, LockedOff, LockedChosen, LockedEnd
<1> QED BY <1>2, <1>3 DEF SchedInv, DataInv

\* The first store for another core preserves SchedInv.
LEMMA StoreTopSched ==
    ASSUME DataContract, SchedInv, ContextInv', NEW a \in Actors, StoreTop(a) PROVE SchedInv'
<1> DEFINE x == Head(stores)[1]
           y == Head(stores)[2]
<1>1. /\ pc[a] = "store" /\ highest' = [highest EXCEPT ![x] = y] /\ pc' = [pc EXCEPT ![a] = "flag"]
      /\ UNCHANGED <<q, needs, current, held, next, awake, stores, call, fin>>
  BY DEF StoreTop, calls
<1>0. ContextInv /\ StoreInv /\ ThreadInv /\ HostInv /\ OffInv /\ CallInv /\ ChosenInv /\ StopInv /\ EndInv
  BY DEF SchedInv, DataInv
<1>2. x \in Cores /\ May(q, Run(q), x, y)
  BY <1>0, <1>1, HeadStore DEF StoreInv
<1>3. StoreInv'
  BY <1>0, StoreTopStore
<1>4. /\ Head(stores')[1] = x
      /\ \A b \in Actors : pc[b] # "flag"
  BY <1>0, <1>1 DEF StoreInv
<1> HIDE DEF x, y
<1>5. highest'[x] = y /\ \A c \in Cores : c # x => highest'[c] = highest[c]
  BY <1>0, <1>1, <1>2 DEF StoreInv
<1>6. pc'[a] = "flag" /\ \A b \in Actors : b # a => pc'[b] = pc[b]
  BY <1>0, <1>1 DEF ContextInv
<1>7. ThreadInv' /\ HostInv' /\ CallInv'
  <2>1. y \in Threads \cup {Null}
    BY <1>2 DEF May, Run
  <2>2. \A b \in Actors : pc'[b] \in {"loop", "guest"} => pc[b] = pc'[b]
    BY <1>6
  <2>3. ThreadInv'
    BY <1>0, <1>1, <1>5, <2>1, <2>2 DEF ThreadInv, Actors
  <2>4. HostInv'
    BY <1>0, <1>1, <2>2 DEF HostInv, Actors
  <2>5. CallInv'
    BY <1>0, <1>1 DEF CallInv
  <2> QED BY <2>3, <2>4, <2>5
<1>8. ChosenInv'
  <2>1. \A c \in Cores : (c = x => FlagPending(c)') /\ ~FlagPending(c)
    BY <1>4, <1>6 DEF FlagPending
  <2>2. \A c \in Cores : /\ pc'[c] \in {"try", "check"} => pc[c] \in {"try", "check"}
                         /\ pc'[c] \in {"loop", "guest", "store", "flag", "resched"} =>
                               pc[c] \in {"loop", "guest", "store", "flag", "resched"}
    BY <1>1, <1>6 DEF Actors
  <2> QED BY <1>0, <1>1, <1>5, <2>1, <2>2 DEF ChosenInv
<1>9. OffInv'
  <2> SUFFICES ASSUME NEW t \in Threads, NEW c \in Cores, Barred(q, t) PROVE Off(t, c)'
    BY <1>1 DEF OffInv
  <2>1. Off(t, c)
    BY <1>0 DEF OffInv
  <2>2. Replacing(t, c) => Replacing(t, c)'
    BY <1>1, <1>6 DEF Replacing, Entry, Actors
  <2>3. highest'[c] = t => highest[c] = t
    <3>1. c = x => y # t
      BY <1>0, <1>2, BarredNot DEF StoreInv
    <3> QED BY <1>5, <3>1
  <2>4. /\ pc'[c] \in {"try", "check"} => pc[c] = pc'[c]
        /\ pc'[c] \in {"loop", "guest"} => pc[c] = pc'[c]
        /\ pc'[c] \in {"store", "flag", "resched"} => pc[c] \in {"store", "flag", "resched"}
    BY <1>1, <1>6 DEF Actors
  <2> QED BY <1>1, <2>1, <2>2, <2>3, <2>4 DEF Off
<1>10. StopInv'
  BY <1>0, <1>1, <1>6 DEF StopInv, Executes, Actors
<1>11. EndInv'
  BY <1>0, <1>1, <1>6 DEF EndInv, Actors
<1> QED BY <1>3, <1>7, <1>8, <1>9, <1>10, <1>11 DEF SchedInv, DataInv

\* The flag of the other core preserves SchedInv.
LEMMA StoreNeedsSched ==
    ASSUME DataContract, SchedInv, ContextInv', NEW a \in Actors, StoreNeeds(a) PROVE SchedInv'
<1> DEFINE x == Head(stores)[1]
           y == Head(stores)[2]
<1>1. /\ pc[a] = "flag" /\ needs' = [needs EXCEPT ![x] = TRUE] /\ stores' = Tail(stores)
      /\ pc' = [pc EXCEPT ![a] = IF stores' = <<>> THEN "resched" ELSE "store"]
      /\ UNCHANGED <<q, highest, current, held, next, awake, call, fin>>
  BY DEF StoreNeeds, calls
<1>0. ContextInv /\ StoreInv /\ ThreadInv /\ HostInv /\ OffInv /\ CallInv /\ ChosenInv /\ StopInv /\ EndInv
  BY DEF SchedInv, DataInv
<1>2. x \in Cores /\ May(q, Run(q), x, y) /\ highest[x] = y
  BY <1>0, <1>1, HeadStore DEF StoreInv
<1>3. StoreInv'
  BY <1>0, StoreNeedsStore
<1>4. \A b \in Actors : pc[b] \in {"store", "flag"} => b = a
  BY <1>0, <1>1 DEF StoreInv
<1>5. needs'[x] /\ \A c \in Cores : c # x => needs'[c] = needs[c]
  BY <1>0, <1>1, <1>2 DEF StoreInv
<1>6. /\ pc'[a] = IF stores' = <<>> THEN "resched" ELSE "store"
      /\ \A b \in Actors : b # a => pc'[b] = pc[b]
  BY <1>0, <1>1 DEF ContextInv
<1>7. \A c \in Cores : c # x /\ FlagPending(c) => FALSE
  BY <1>4 DEF FlagPending
<1>8. \A c \in Cores : c # x /\ Entry(c) => Entry(c)' /\ stores' # <<>>
  <2>1. stores # <<>> /\ stores \in Seq(Cores \X (Threads \cup {Null}))
    BY <1>0, <1>1 DEF StoreInv
  <2>2. /\ Head(stores) = stores[1]
        /\ \A i \in DOMAIN stores : i # 1 => i - 1 \in DOMAIN stores' /\ stores'[i - 1] = stores[i] /\ stores' # <<>>
    BY <1>1, <2>1, SMTT(60)
  <2> QED BY <2>2 DEF Entry
<1> HIDE DEF x, y
<1>9. ThreadInv' /\ HostInv' /\ CallInv'
  <2>2. \A b \in Actors : pc'[b] \in {"loop", "guest"} => pc[b] = pc'[b]
    BY <1>6
  <2>3. ThreadInv'
    BY <1>0, <1>1, <2>2 DEF ThreadInv, Actors
  <2>4. HostInv'
    BY <1>0, <1>1, <2>2 DEF HostInv, Actors
  <2>5. CallInv'
    BY <1>0, <1>1 DEF CallInv
  <2> QED BY <2>3, <2>4, <2>5
<1>10. \A c \in Cores :
           /\ pc'[c] \in {"try", "check"} => pc[c] = pc'[c]
           /\ pc'[c] \in {"loop", "guest"} => pc[c] = pc'[c]
           /\ pc'[c] \in {"store", "flag", "resched"} => pc[c] \in {"store", "flag", "resched"}
  <2>1. pc'[a] \in {"resched", "store"}
    BY <1>6
  <2>2. \A c \in Cores : c = a \/ pc'[c] = pc[c]
    BY <1>6 DEF Actors
  <2> QED BY <1>1, <2>1, <2>2
<1>11. ChosenInv'
  BY <1>0, <1>1, <1>5, <1>7, <1>10 DEF ChosenInv
<1>12. OffInv'
  <2> SUFFICES ASSUME NEW t \in Threads, NEW c \in Cores, Barred(q, t) PROVE Off(t, c)'
    BY <1>1 DEF OffInv
  <2>1. Off(t, c)
    BY <1>0 DEF OffInv
  <2>2. CASE c = x
    <3>1. highest[c] # t
      BY <1>0, <1>2, <2>2, BarredNot DEF StoreInv
    <3> QED BY <1>1, <1>5, <1>10, <2>1, <2>2, <3>1 DEF Off
  <2>3. CASE c # x
    <3>1. Replacing(t, c) => Replacing(t, c)'
      <4> SUFFICES ASSUME Replacing(t, c) PROVE Replacing(t, c)'
        OBVIOUS
      <4>1. a \in Cores \ {c} /\ current[a] = t /\ Entry(c)
        BY <1>4 DEF Replacing, Actors
      <4>2. Entry(c)' /\ pc'[a] = "store"
        BY <1>6, <1>8, <2>3, <4>1
      <4> QED BY <1>1, <4>1, <4>2 DEF Replacing
    <3> QED BY <1>1, <1>5, <1>10, <2>1, <2>3, <3>1 DEF Off
  <2> QED BY <2>2, <2>3
<1>13. StopInv'
  BY <1>0, <1>1, <1>6 DEF StopInv, Executes, Actors
<1>14. EndInv'
  <2>1. \A c \in Cores : pc'[c] = "check" => pc[c] = "check"
    BY <1>10
  <2> QED BY <1>0, <1>1, <2>1 DEF EndInv
<1> QED BY <1>3, <1>9, <1>11, <1>12, <1>13, <1>14 DEF SchedInv, DataInv

-----------------------------------------------------------------------------
(* The steps of the cores preserve the invariants.                         *)

\* What a step of core c leaves alone that does not take the lock.
CoreMoves(c) ==
    /\ UNCHANGED <<q, highest, stores, awake, call, fin>> /\ DOMAIN needs' = Cores
    /\ pc[c] \notin {"store", "flag"} /\ pc'[c] \in {"loop", "guest", "load", "reload", "try", "check"}
    /\ \A b \in Actors \ {c} : pc'[b] = pc[b]
    /\ \A b \in Cores \ {c} : needs'[b] = needs[b] /\ current'[b] = current[b] /\ next'[b] = next[b]

\* What the step is to make of core c itself: its threads,
OwnThread(c) ==
    /\ current'[c] \in Threads \cup {Null} /\ next'[c] \in Threads \cup {Null}
    /\ pc'[c] = "guest" => current'[c] \in Threads

\* that it has or goes to its highest priority thread, unless its flag is set,
OwnChosen(c) ==
    /\ pc'[c] \in {"loop", "guest"} => current'[c] = highest[c] \/ needs'[c] \/ FlagPending(c)
    /\ pc'[c] \in {"try", "check"} => next'[c] = highest[c] \/ needs'[c] \/ FlagPending(c)

\* that it does not get to execute a thread that is barred from it,
OwnOff(c) ==
    \A t \in Threads : Barred(q, t) =>
        /\ pc'[c] \in {"try", "check"} /\ next'[c] = t /\ ~needs'[c] => Replacing(t, c)
        /\ pc'[c] \in {"loop", "guest"} => current'[c] # t

\* nor one that a call has stopped,
OwnStop(c) ==
    \A t \in Threads : Stopped(q, t) /\ pc'[c] \notin {"try", "check", "reload"} => current'[c] # t

\* and that it does not get a thread that has ended.
OwnEnd(c) ==
    \A t \in Threads : fin[t] # Alive =>
        /\ \E b \in Cores : <<t, b>> \in held'
        /\ pc'[c] = "check" => next'[c] # t
        /\ fin[t] > c => current'[c] # t

\* All of it.
OwnRight(c) == OwnThread(c) /\ OwnChosen(c) /\ OwnOff(c) /\ OwnStop(c) /\ OwnEnd(c)

\* Then it preserves SchedInv.
LEMMA CoreMovesSched ==
    ASSUME SchedInv, ContextInv', NEW c \in Cores, CoreMoves(c), OwnRight(c) PROVE SchedInv'
<1>0. ContextInv /\ StoreInv /\ ThreadInv /\ HostInv /\ OffInv /\ CallInv /\ ChosenInv /\ StopInv /\ EndInv
  BY DEF SchedInv, DataInv
<1>1. /\ UNCHANGED <<q, highest, stores, awake, call, fin>> /\ DOMAIN needs' = Cores
      /\ pc[c] \notin {"store", "flag"} /\ pc'[c] \in {"loop", "guest", "load", "reload", "try", "check"}
      /\ \A b \in Actors : b # c => pc'[b] = pc[b]
      /\ \A b \in Cores : b # c => pc'[b] = pc[b] /\ needs'[b] = needs[b] /\ current'[b] = current[b] /\ next'[b] = next[b]
  BY DEF CoreMoves, Actors
<1>2. pc'[c] \notin {"store", "flag", "resched"}
  BY <1>1
<1>3. \A b \in Actors : (pc'[b] = "flag" <=> pc[b] = "flag") /\ (pc'[b] = "store" <=> pc[b] = "store")
  BY <1>1, <1>2
<1>4. StoreInv'
  <2>1. KeepsStores
    BY <1>1, <1>2 DEF KeepsStores
  <2> QED BY <1>0, <2>1, KeepsStoresStore
<1>5. \A b : FlagPending(b)' <=> FlagPending(b)
  BY <1>1, <1>3 DEF FlagPending
<1>6. \A t \in Threads, b \in Cores : Replacing(t, b) => Replacing(t, b)'
  <2> SUFFICES ASSUME NEW t \in Threads, NEW b \in Cores, Replacing(t, b) PROVE Replacing(t, b)'
    OBVIOUS
  <2>1. PICK e \in Cores \ {b} : pc[e] \in {"store", "flag"} /\ current[e] = t /\ Entry(b)
    BY DEF Replacing
  <2>2. e # c /\ Entry(b)'
    BY <1>1, <2>1 DEF Entry
  <2>3. pc'[e] \in {"store", "flag"} /\ current'[e] = t
    BY <1>1, <2>1, <2>2
  <2> QED BY <2>1, <2>2, <2>3 DEF Replacing
<1>7. ThreadInv'
  BY <1>0, <1>1 DEF ThreadInv, OwnRight, OwnThread
<1>8. HostInv' /\ CallInv'
  <2>1. \A h \in Hosts : pc'[h] = pc[h]
    BY <1>1, HostsAssumption DEF Actors
  <2> QED BY <1>0, <1>1, <2>1 DEF HostInv, CallInv
<1>9. ChosenInv'
  <2> SUFFICES ASSUME NEW b \in Cores
               PROVE  /\ pc'[b] \in {"loop", "guest", "store", "flag", "resched"} =>
                            current'[b] = highest'[b] \/ needs'[b] \/ FlagPending(b)
                      /\ pc'[b] \in {"try", "check"} => next'[b] = highest'[b] \/ needs'[b] \/ FlagPending(b)
    BY <1>5 DEF ChosenInv
  <2>1. CASE b = c
    BY <1>1, <1>2, <2>1 DEF OwnRight, OwnChosen
  <2>2. CASE b # c
    BY <1>0, <1>1, <2>2 DEF ChosenInv
  <2> QED BY <2>1, <2>2
<1>10. OffInv'
  <2> SUFFICES ASSUME NEW t \in Threads, NEW b \in Cores, Barred(q, t) PROVE Off(t, b)'
    BY <1>1 DEF OffInv
  <2>1. Off(t, b) /\ (Replacing(t, b) => Replacing(t, b)')
    BY <1>0, <1>6 DEF OffInv
  <2>2. CASE b = c
    <3>1. highest'[b] = t => Replacing(t, b)'
      BY <1>1, <2>1 DEF Off
    <3> QED BY <1>2, <2>1, <2>2, <3>1 DEF Off, OwnRight, OwnOff
  <2>3. CASE b # c
    BY <1>1, <2>1, <2>3 DEF Off
  <2> QED BY <2>2, <2>3
<1>11. StopInv'
  <2> SUFFICES ASSUME NEW t \in Threads, NEW b \in Cores, Stopped(q, t), Executes(b)' PROVE current'[b] # t
    BY <1>1 DEF StopInv
  <2>1. CASE b = c
    BY <2>1 DEF Executes, OwnRight, OwnStop
  <2>2. CASE b # c
    BY <1>0, <1>1, <2>2 DEF Executes, StopInv
  <2> QED BY <2>1, <2>2
<1>12. EndInv'
  <2>1. fin' = fin /\ q' = q /\ fin \in [Threads -> Int]
    BY <1>0, <1>1 DEF EndInv
  <2>2. ASSUME NEW t \in Threads, fin[t] # Alive
        PROVE  /\ q.st[t] = "terminated" /\ \E b \in Cores : <<t, b>> \in held'
               /\ \A b \in Cores : /\ pc'[b] = "check" => next'[b] # t
                                   /\ fin[t] > b => current'[b] # t
    <3>1. q.st[t] = "terminated" /\ \E b \in Cores : <<t, b>> \in held'
      BY <1>0, <2>2 DEF EndInv, OwnRight, OwnEnd
    <3>2. (pc'[c] = "check" => next'[c] # t) /\ (fin[t] > c => current'[c] # t)
      BY <2>2 DEF OwnRight, OwnEnd
    <3>3. ASSUME NEW b \in Cores
          PROVE  (pc'[b] = "check" => next'[b] # t) /\ (fin[t] > b => current'[b] # t)
      <4>1. CASE b = c
        BY <3>2, <4>1
      <4>2. CASE b # c
        <5>1. (pc[b] = "check" => next[b] # t) /\ (fin[t] > b => current[b] # t)
          BY <1>0, <2>2 DEF EndInv
        <5>2. pc'[b] = pc[b] /\ current'[b] = current[b] /\ next'[b] = next[b]
          BY <1>1, <4>2
        <5> QED BY <5>1, <5>2
      <4> QED BY <4>1, <4>2
    <3> QED BY <3>1, <3>3
  <2> QED BY <2>1, <2>2 DEF EndInv
<1> QED BY <1>4, <1>7, <1>8, <1>9, <1>10, <1>11, <1>12 DEF SchedInv, DataInv

\* What SchedInv says of core c.
LEMMA OwnFacts ==
    ASSUME SchedInv, NEW c \in Cores
    PROVE  /\ ContextInv /\ DOMAIN needs = Cores
           /\ current[c] \in Threads \cup {Null} /\ next[c] \in Threads \cup {Null}
           /\ highest[c] \in Threads \cup {Null}
           /\ pc[c] \in {"loop", "guest", "resched"} => current[c] = highest[c] \/ needs[c] \/ FlagPending(c)
           /\ pc[c] \in {"try", "check"} => next[c] = highest[c] \/ needs[c] \/ FlagPending(c)
           /\ \A t \in Threads : Barred(q, t) => Off(t, c)
           /\ \A t \in Threads : Stopped(q, t) /\ Executes(c) => current[c] # t
           /\ \A t \in Threads : fin[t] # Alive =>
                 /\ q.st[t] = "terminated" /\ \E b \in Cores : <<t, b>> \in held
                 /\ pc[c] = "check" => next[c] # t
                 /\ fin[t] > c => current[c] # t
<1>1. ContextInv /\ StoreInv /\ ThreadInv /\ OffInv /\ ChosenInv /\ StopInv /\ EndInv
  BY DEF SchedInv, DataInv
<1>2. \A t \in Threads : fin[t] # Alive =>
         /\ q.st[t] = "terminated" /\ \E b \in Cores : <<t, b>> \in held
         /\ pc[c] = "check" => next[c] # t
         /\ fin[t] > c => current[c] # t
  BY <1>1 DEF EndInv
<1>3. \A t \in Threads : (Barred(q, t) => Off(t, c)) /\ (Stopped(q, t) /\ Executes(c) => current[c] # t)
  BY <1>1 DEF OffInv, StopInv
<1>4. /\ pc[c] \in {"loop", "guest", "resched"} => current[c] = highest[c] \/ needs[c] \/ FlagPending(c)
      /\ pc[c] \in {"try", "check"} => next[c] = highest[c] \/ needs[c] \/ FlagPending(c)
  BY <1>1 DEF ChosenInv
<1>5. /\ current[c] \in Threads \cup {Null} /\ next[c] \in Threads \cup {Null}
      /\ highest[c] \in Threads \cup {Null} /\ DOMAIN needs = Cores
  BY <1>1 DEF ThreadInv, StoreInv
<1> QED BY <1>1, <1>2, <1>3, <1>4, <1>5

\* A core that goes on with its thread, or to user mode, or starts to switch.
LEMMA GoesOnSched ==
    ASSUME SchedInv, ContextInv',
           NEW c \in Cores, RescheduleCurrentCore(c) \/ RunThread(c) \/ HandleInterrupt(c)
    PROVE  SchedInv'
<1> USE OwnFacts
<1>1. /\ UNCHANGED <<q, highest, stores, awake, call, fin, current, next, held>>
      /\ pc[c] \in {"resched", "loop", "guest"}
      /\ \/ pc' = [pc EXCEPT ![c] = "load"] /\ needs' = [needs EXCEPT ![c] = FALSE]
         \/ pc[c] = "resched" /\ pc' = [pc EXCEPT ![c] = "loop"] /\ ~needs[c] /\ needs' = [needs EXCEPT ![c] = FALSE]
         \/ pc[c] = "loop" /\ pc' = [pc EXCEPT ![c] = "guest"] /\ current[c] # Null /\ needs' = needs
  BY DEF RescheduleCurrentCore, RunThread, HandleInterrupt, AtLoop, sync, calls
<1>2. DOMAIN pc = Actors /\ c \in Actors
  BY DEF ContextInv, Actors
<1>3. /\ \A b \in Actors \ {c} : pc'[b] = pc[b]
      /\ DOMAIN needs' = Cores /\ \A b \in Cores \ {c} : needs'[b] = needs[b]
      /\ \/ pc'[c] = "load"
         \/ pc[c] = "resched" /\ pc'[c] = "loop" /\ ~needs[c]
         \/ pc[c] = "loop" /\ pc'[c] = "guest" /\ current[c] # Null /\ needs'[c] = needs[c]
  BY <1>1, <1>2
<1>4. CoreMoves(c)
  BY <1>1, <1>3 DEF CoreMoves
<1>5. OwnThread(c)
  BY <1>1, <1>3 DEF OwnThread
<1>6. OwnChosen(c)
  BY <1>1, <1>3 DEF OwnChosen
<1>7. OwnOff(c)
  <2> SUFFICES ASSUME NEW t \in Threads, Barred(q, t)
               PROVE  pc'[c] \notin {"try", "check"} /\ (pc'[c] \in {"loop", "guest"} => current'[c] # t)
    BY DEF OwnOff
  <2>1. /\ pc[c] \in {"loop", "guest"} => current[c] # t
        /\ pc[c] \in {"store", "flag", "resched"} /\ current[c] = t => needs[c]
    BY DEF Off
  <2> QED BY <1>1, <1>3, <2>1
<1>8. OwnStop(c)
  <2>1. Executes(c)
    BY <1>1 DEF Executes
  <2> QED BY <1>1, <2>1 DEF OwnStop
<1>9. OwnEnd(c)
  BY <1>1, <1>3 DEF OwnEnd
<1> QED BY <1>4, <1>5, <1>6, <1>7, <1>8, <1>9, CoreMovesSched DEF OwnRight

\* A core that reads its highest priority thread.
LEMMA LoadSched ==
    ASSUME SchedInv, ContextInv', NEW c \in Cores, LoadHighest(c) \/ ReloadHighest(c) PROVE SchedInv'
<1> USE OwnFacts
<1>1. /\ UNCHANGED <<q, highest, stores, awake, call, fin, current, needs>>
      /\ \/ /\ pc[c] = "load" /\ highest[c] = current[c] /\ pc' = [pc EXCEPT ![c] = "loop"]
            /\ next' = next /\ held' = held
         \/ /\ pc[c] \in {"load", "reload"} /\ pc' = [pc EXCEPT ![c] = "try"]
            /\ next' = [next EXCEPT ![c] = highest[c]] /\ (held' = held \/ held' = Unloaded(c))
  BY DEF LoadHighest, ReloadHighest, calls
<1>2. DOMAIN pc = Actors /\ c \in Actors /\ DOMAIN next = Cores
  BY DEF ContextInv, Actors
<1>3. /\ \A b \in Actors \ {c} : pc'[b] = pc[b]
      /\ \A b \in Cores \ {c} : next'[b] = next[b]
      /\ pc[c] \in {"load", "reload"}
      /\ \/ pc[c] = "load" /\ pc'[c] = "loop" /\ highest[c] = current[c] /\ next'[c] = next[c]
         \/ pc'[c] = "try" /\ next'[c] = highest[c]
  BY <1>1, <1>2
<1>4. CoreMoves(c)
  BY <1>1, <1>3 DEF CoreMoves
<1>5. OwnThread(c)
  BY <1>1, <1>3 DEF OwnThread
<1>6. OwnChosen(c)
  BY <1>1, <1>3 DEF OwnChosen
<1>7. OwnOff(c)
  <2> SUFFICES ASSUME NEW t \in Threads, Barred(q, t)
               PROVE  /\ pc'[c] \in {"try", "check"} /\ next'[c] = t => Replacing(t, c)
                      /\ pc'[c] \in {"loop", "guest"} => current'[c] # t
    BY DEF OwnOff
  <2>1. highest[c] = t => Replacing(t, c)
    BY DEF Off
  <2>2. pc'[c] \in {"loop", "guest"} => current[c] # t
    <3> SUFFICES ASSUME pc[c] = "load", highest[c] = current[c], current[c] = t PROVE FALSE
      BY <1>3
    <3>1. PICK b \in Cores \ {c} : pc[b] \in {"store", "flag"} /\ current[b] = t
      BY <2>1 DEF Replacing
    <3>2. <<t, b>> \in held /\ <<t, c>> \in held
      BY <3>1 DEF ContextInv, Executes
    <3> QED BY <3>1, <3>2, NullAssumption DEF ContextInv
  <2> QED BY <1>1, <1>3, <2>1, <2>2
<1>8. OwnStop(c)
  <2>1. pc'[c] \notin {"try", "check", "reload"} => Executes(c)
    BY <1>3 DEF Executes
  <2> QED BY <1>1, <2>1 DEF OwnStop
<1>9. OwnEnd(c)
  <2> SUFFICES ASSUME NEW t \in Threads, fin[t] # Alive
               PROVE  (\E b \in Cores : <<t, b>> \in held') /\ (fin[t] > c => current'[c] # t)
    BY <1>3 DEF OwnEnd
  <2>1. PICK b \in Cores : <<t, b>> \in held
    OBVIOUS
  <2>2. q.st[t] = "terminated" /\ t # Null
    BY NullAssumption
  <2>3. <<t, b>> \in Unloaded(c)
    BY <2>1, <2>2 DEF Unloaded
  <2> QED BY <1>1, <2>1, <2>3
<1> QED BY <1>4, <1>5, <1>6, <1>7, <1>8, <1>9, CoreMovesSched DEF OwnRight

\* A core that switches its thread.
LEMMA SwitchSched ==
    ASSUME SchedInv, ContextInv', NEW c \in Cores, SwitchThread(c) PROVE SchedInv'
<1> USE OwnFacts
<1>1. /\ UNCHANGED <<q, highest, stores, awake, call, fin, next>> /\ pc[c] = "try"
      /\ \/ /\ ContextFree(next[c]) /\ held' = held \cup {<<next[c], c>>}
            /\ current' = [current EXCEPT ![c] = next[c]] /\ pc' = [pc EXCEPT ![c] = "check"] /\ needs' = needs
         \/ /\ pc' = [pc EXCEPT ![c] = "reload"] /\ needs' = [needs EXCEPT ![c] = FALSE]
            /\ held' = held /\ current' = current
  BY DEF SwitchThread, StartAgain, calls
<1>2. DOMAIN pc = Actors /\ c \in Actors /\ DOMAIN current = Cores
  BY DEF ContextInv, Actors
<1>3. /\ \A b \in Actors \ {c} : pc'[b] = pc[b]
      /\ DOMAIN needs' = Cores
      /\ \A b \in Cores \ {c} : current'[b] = current[b] /\ needs'[b] = needs[b]
      /\ \A x \in held : x \in held'
      /\ \/ ContextFree(next[c]) /\ pc'[c] = "check" /\ current'[c] = next[c] /\ needs'[c] = needs[c]
         \/ pc'[c] = "reload" /\ current'[c] = current[c]
  BY <1>1, <1>2
<1>4. CoreMoves(c)
  BY <1>1, <1>3 DEF CoreMoves
<1>5. OwnThread(c)
  BY <1>1, <1>3 DEF OwnThread
<1>6. OwnChosen(c)
  BY <1>1, <1>3 DEF OwnChosen
<1>7. OwnOff(c)
  <2> SUFFICES ASSUME NEW t \in Threads, Barred(q, t)
               PROVE  /\ pc'[c] \in {"try", "check"} /\ next'[c] = t /\ ~needs'[c] => Replacing(t, c)
                      /\ pc'[c] \notin {"loop", "guest"}
    BY DEF OwnOff
  <2>1. next[c] = t /\ ~needs[c] => Replacing(t, c)
    BY <1>1 DEF Off
  <2> QED BY <1>1, <1>3, <2>1
<1>8. OwnStop(c)
  BY <1>3 DEF OwnStop
<1>9. OwnEnd(c)
  <2> SUFFICES ASSUME NEW t \in Threads, fin[t] # Alive
               PROVE  /\ \E b \in Cores : <<t, b>> \in held'
                      /\ pc'[c] = "check" => next'[c] # t
                      /\ fin[t] > c => current'[c] # t
    BY DEF OwnEnd
  <2>1. (\E b \in Cores : <<t, b>> \in held) /\ (fin[t] > c => current[c] # t)
    OBVIOUS
  <2>2. ContextFree(next[c]) => next[c] # t
    BY <2>1, NullAssumption DEF ContextFree
  <2> QED BY <1>1, <1>3, <2>1, <2>2
<1> QED BY <1>4, <1>5, <1>6, <1>7, <1>8, <1>9, CoreMovesSched DEF OwnRight

\* A core that ends the switch, or undoes it.
LEMMA FinishSched ==
    ASSUME SchedInv, ContextInv', NEW c \in Cores, FinishSwitch(c) PROVE SchedInv'
<1> USE OwnFacts
<1>1. /\ UNCHANGED <<q, highest, stores, awake, call, fin, current>> /\ pc[c] = "check"
      /\ next' = [next EXCEPT ![c] = Null]
      /\ \/ /\ pc' = [pc EXCEPT ![c] = "reload"] /\ needs' = [needs EXCEPT ![c] = FALSE]
            /\ held' = held \ {<<next[c], c>>}
         \/ /\ ~needs[c] /\ pc' = [pc EXCEPT ![c] = "loop"] /\ needs' = needs /\ held' = held
  BY DEF FinishSwitch, StartAgain, calls
<1>2. /\ DOMAIN pc = Actors /\ c \in Actors /\ DOMAIN next = Cores
      /\ current[c] = next[c] /\ <<next[c], c>> \in held
  BY <1>1 DEF ContextInv, Actors
<1>3. /\ \A b \in Actors \ {c} : pc'[b] = pc[b]
      /\ DOMAIN needs' = Cores
      /\ \A b \in Cores \ {c} : next'[b] = next[b] /\ needs'[b] = needs[b]
      /\ \A x \in held : x # <<next[c], c>> => x \in held'
      /\ next'[c] = Null
      /\ \/ pc'[c] = "reload"
         \/ pc'[c] = "loop" /\ ~needs[c]
  BY <1>1, <1>2
<1>4. CoreMoves(c)
  BY <1>1, <1>3 DEF CoreMoves
<1>5. OwnThread(c)
  BY <1>1, <1>3 DEF OwnThread
<1>6. OwnChosen(c)
  BY <1>1, <1>2, <1>3 DEF OwnChosen
<1>7. \A t \in Threads : Barred(q, t) /\ ~needs[c] => current[c] # t
  <2> SUFFICES ASSUME NEW t \in Threads, Barred(q, t), ~needs[c], current[c] = t PROVE FALSE
    OBVIOUS
  <2>1. Replacing(t, c)
    BY <1>1, <1>2 DEF Off
  <2>2. PICK b \in Cores \ {c} : pc[b] \in {"store", "flag"} /\ current[b] = t
    BY <2>1 DEF Replacing
  <2>3. <<t, b>> \in held /\ <<t, c>> \in held
    BY <1>2, <2>2 DEF ContextInv, Executes
  <2> QED BY <2>2, <2>3, NullAssumption DEF ContextInv
<1>8. OwnOff(c)
  BY <1>1, <1>3, <1>7 DEF OwnOff
<1>9. OwnStop(c)
  BY <1>1, <1>3, <1>7 DEF OwnStop, Stopped, Barred
<1>10. OwnEnd(c)
  <2> SUFFICES ASSUME NEW t \in Threads, fin[t] # Alive
               PROVE  /\ \E b \in Cores : <<t, b>> \in held'
                      /\ fin[t] > c => current'[c] # t
    BY <1>3 DEF OwnEnd
  <2>1. (\E b \in Cores : <<t, b>> \in held) /\ next[c] # t /\ (fin[t] > c => current[c] # t)
    BY <1>1
  <2> QED BY <1>1, <1>3, <2>1
<1> QED BY <1>4, <1>5, <1>6, <1>8, <1>9, <1>10, CoreMovesSched DEF OwnRight

-----------------------------------------------------------------------------
(* The invariants hold, and what follows from them.                        *)

\* The initial state satisfies SchedInv.
LEMMA InitSched == Init => SchedInv
<1> SUFFICES ASSUME Init PROVE SchedInv
  OBVIOUS
<1>1. ContextInv /\ StoreInv
  BY InitContext, InitStore
<1>2. /\ \A a \in Actors : pc[a] = "loop"
      /\ \A c \in Cores : current[c] = Null /\ next[c] = Null /\ highest[c] = Null
      /\ awake = Hosts /\ call = [t \in Threads |-> NoCall] /\ fin = [t \in Threads |-> Alive]
  BY DEF Init
<1>3. /\ q.term = {} /\ q.st = [x \in Threads \cup Hosts |-> IF x \in Hosts THEN "runnable" ELSE "waiting"]
  BY SMTT(60) DEF Init
<1>4. ThreadInv
  BY <1>2, <1>3 DEF ThreadInv, Actors
<1>5. HostInv
  BY <1>2, <1>3 DEF HostInv
<1>6. OffInv /\ StopInv
  BY <1>2, NullAssumption DEF OffInv, Off, StopInv, Actors
<1>7. CallInv
  BY <1>2 DEF CallInv
<1>8. ChosenInv
  BY <1>2 DEF ChosenInv, Actors
<1>9. EndInv
  <2>1. Alive \in Int
    BY SMTT(60) DEF Alive
  <2> HIDE DEF Alive
  <2> QED BY <1>2, <2>1 DEF EndInv
<1> QED BY <1>1, <1>4, <1>5, <1>6, <1>7, <1>8, <1>9 DEF SchedInv, DataInv

\* Steps that leave all of it alone but the progress of FinishTermination.
LEMMA QuietSched ==
    ASSUME SchedInv, ContextInv', UNCHANGED <<q, highest, needs, current, held, next, awake, pc,
           stores, call>>, EndInv'
    PROVE  SchedInv'
<1>0. StoreInv /\ ThreadInv /\ HostInv /\ OffInv /\ CallInv /\ ChosenInv /\ StopInv
  BY DEF SchedInv, DataInv
<1>1. StoreInv'
  <2>1. KeepsStores
    BY <1>0 DEF KeepsStores, StoreInv
  <2> QED BY <1>0, <2>1, KeepsStoresStore
<1>2. ThreadInv' /\ HostInv' /\ CallInv'
  BY <1>0 DEF ThreadInv, HostInv, CallInv
<1>3. \A c : FlagPending(c)' <=> FlagPending(c)
  BY DEF FlagPending
<1>4. ChosenInv' /\ StopInv'
  BY <1>0, <1>3 DEF ChosenInv, StopInv, Executes
<1>5. \A t, c : Replacing(t, c)' <=> Replacing(t, c)
  BY DEF Replacing, Entry
<1>6. OffInv'
  BY <1>0, <1>5 DEF OffInv, Off
<1> QED BY <1>1, <1>2, <1>4, <1>6 DEF SchedInv, DataInv

\* A host that returns preserves SchedInv.
LEMMA HostSched ==
    ASSUME SchedInv, ContextInv', NEW h \in Hosts, RescheduleCurrentHLEThread(h) PROVE SchedInv'
<1>0. ContextInv /\ StoreInv /\ ThreadInv /\ HostInv /\ OffInv /\ CallInv /\ ChosenInv /\ StopInv /\ EndInv
  BY DEF SchedInv, DataInv
<1>1. /\ pc[h] = "resched" /\ h \in awake /\ pc' = [pc EXCEPT ![h] = "loop"]
      /\ UNCHANGED <<q, highest, needs, current, held, next, awake, stores, call, fin>>
  BY DEF RescheduleCurrentHLEThread, sync, calls
<1>2. pc'[h] = "loop" /\ (\A b \in Actors : b # h => pc'[b] = pc[b]) /\ \A c \in Cores : pc'[c] = pc[c]
  <2>1. DOMAIN pc = Actors /\ h \in Actors
    BY <1>0 DEF ContextInv, Actors
  <2>2. pc'[h] = "loop" /\ \A b \in Actors : b # h => pc'[b] = pc[b]
    BY <1>1, <2>1
  <2>3. \A c \in Cores : c # h /\ c \in Actors
    BY HostsAssumption DEF Actors
  <2> QED BY <2>2, <2>3
<1>3. StoreInv'
  <2>1. KeepsStores
    BY <1>0, <1>1, <1>2 DEF KeepsStores, StoreInv
  <2> QED BY <1>0, <2>1, KeepsStoresStore
<1>4. ThreadInv' /\ CallInv'
  BY <1>0, <1>1, <1>2 DEF ThreadInv, CallInv
<1>5. HostInv'
  BY <1>0, <1>1, <1>2 DEF HostInv, Actors
<1>6. \A c : FlagPending(c)' <=> FlagPending(c)
  BY <1>1, <1>2 DEF FlagPending
<1>7. ChosenInv' /\ StopInv'
  BY <1>0, <1>1, <1>2, <1>6 DEF ChosenInv, StopInv, Executes
<1>8. \A t, c : Replacing(t, c)' <=> Replacing(t, c)
  BY <1>1, <1>2 DEF Replacing, Entry
<1>9. OffInv'
  BY <1>0, <1>1, <1>2, <1>8 DEF OffInv, Off
<1>10. EndInv'
  BY <1>0, <1>1, <1>2 DEF EndInv
<1> QED BY <1>3, <1>4, <1>5, <1>7, <1>9, <1>10 DEF SchedInv, DataInv

\* A worker that sees a core without the thread preserves EndInv.
LEMMA FinishEnd == ASSUME SchedInv, NEW u \in Threads, FinishTermination(u) PROVE EndInv'
<1>1. /\ EndInv /\ fin[u] \in Cores /\ current[fin[u]] # u /\ fin' = [fin EXCEPT ![u] = fin[u] + 1]
      /\ UNCHANGED <<q, current, held, next, pc>>
  BY DEF SchedInv, FinishTermination, sync
<1>2. fin \in [Threads -> Int]
  BY <1>1 DEF EndInv
<1>3. /\ fin' \in [Threads -> Int] /\ fin'[u] = fin[u] + 1 /\ \A t \in Threads : t # u => fin'[t] = fin[t]
  BY <1>1, <1>2, SMTT(60) DEF Cores
<1>4. fin[u] # Alive /\ \A c \in Cores : fin'[u] > c => c = fin[u] \/ fin[u] > c
  BY <1>1, <1>3, SMTT(60) DEF Cores, Alive
<1>5. ASSUME NEW t \in Threads, fin'[t] # Alive
      PROVE  /\ q.st[t] = "terminated" /\ \E c \in Cores : <<t, c>> \in held
             /\ \A c \in Cores : /\ pc[c] = "check" => next[c] # t
                                 /\ fin'[t] > c => current[c] # t
  <2>1. fin[t] # Alive
    BY <1>3, <1>4, <1>5
  <2>2. /\ q.st[t] = "terminated" /\ \E c \in Cores : <<t, c>> \in held
        /\ \A c \in Cores : /\ pc[c] = "check" => next[c] # t
                            /\ fin[t] > c => current[c] # t
    BY <1>1, <2>1 DEF EndInv
  <2>3. \A c \in Cores : fin'[t] > c => current[c] # t
    <3>1. CASE t = u
      BY <1>1, <1>4, <2>2, <3>1
    <3>2. CASE t # u
      BY <1>3, <2>2, <3>2
    <3> QED BY <3>1, <3>2
  <2> QED BY <2>2, <2>3
<1> QED BY <1>1, <1>3, <1>5 DEF EndInv

\* Every step of KScheduler preserves SchedInv.
LEMMA NextSched ==
    ASSUME DataContract PROVE SchedInv /\ [Next]_vars => SchedInv'
<1> SUFFICES ASSUME SchedInv, [Next]_vars PROVE SchedInv'
  OBVIOUS
<1>0. DataInv /\ ContextInv /\ EndInv
  BY DEF SchedInv, DataInv
<1>1. ContextInv'
  BY <1>0, NextContext
<1>2. CASE UNCHANGED vars
  <2>1. UNCHANGED <<q, highest, needs, current, held, next, awake, pc, stores, call, fin>>
    BY <1>2 DEF vars, sync, calls
  <2>2. EndInv'
    BY <1>0, <2>1 DEF EndInv
  <2> QED BY <1>1, <2>1, <2>2, QuietSched
<1>3. ASSUME NEW a \in Actors, Request(a) PROVE SchedInv'
  BY <1>0, <1>1, <1>3, RequestLocked, LockedSched
<1>4. ASSUME NEW a \in Actors, Release(a) PROVE SchedInv'
  <2>1. CASE RescheduleOtherCores(a)
    <3>1. UNCHANGED <<q, highest, needs, current, held, next, awake, pc, stores, call, fin>>
      BY <2>1 DEF RescheduleOtherCores, sync, calls
    <3>2. EndInv'
      BY <1>0, <3>1 DEF EndInv
    <3> QED BY <1>1, <3>1, <3>2, QuietSched
  <2> QED BY <1>1, <1>4, <2>1, StoreTopSched, StoreNeedsSched DEF Release
<1>5. ASSUME NEW c \in Cores, GuestRequest(c) \/ CoreStep(c) \/ RetryCall(c) \/ Terminate(c) PROVE SchedInv'
  <2>1. c \in Actors
    BY DEF Actors
  <2>2. CASE CoreStep(c)
    BY <1>1, <2>2, GoesOnSched, LoadSched, SwitchSched, FinishSched DEF CoreStep
  <2>3. CASE GuestRequest(c) \/ RetryCall(c) \/ Terminate(c)
    <3>1. \E d : Locked(c, d)
      BY <1>0, <2>3, GuestRequestLocked, ExitLocked, RetryLocked
    <3> QED BY <1>1, <2>1, <3>1, LockedSched
  <2> QED BY <1>5, <2>2, <2>3
<1>6. ASSUME NEW h \in Hosts, HostRequest(h) \/ RescheduleCurrentHLEThread(h) PROVE SchedInv'
  <2>1. h \in Actors
    BY DEF Actors
  <2>2. CASE HostRequest(h)
    BY <1>0, <1>1, <2>1, <2>2, HostLocked, LockedSched
  <2> QED BY <1>1, <1>6, <2>2, HostSched
<1>7. ASSUME NEW t \in Threads, FinishTermination(t) PROVE SchedInv'
  <2>1. UNCHANGED <<q, highest, needs, current, held, next, awake, pc, stores, call>>
    BY <1>7 DEF FinishTermination, sync
  <2> QED BY <1>1, <1>7, <2>1, FinishEnd, QuietSched
<1> QED BY <1>2, <1>3, <1>4, <1>5, <1>6, <1>7 DEF Next
=============================================================================
