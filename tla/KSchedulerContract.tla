------------------------- MODULE KSchedulerContract -------------------------
(***************************************************************************)
(* What the handlers that run under the scheduler lock promise to the      *)
(* threads that call them: good scheduling data stays good, and only what  *)
(* is asked for is changed.  KSchedulerDataProofs proves the contract, and *)
(* KSchedulerStepProofs what follows from it for the steps of KScheduler.  *)
(***************************************************************************)
EXTENDS KScheduler
-----------------------------------------------------------------------------
(* Exact queues.                                                           *)

\* A queue of threads, ordered by the priorities p and without repetitions.
IsQueue(p, s) ==
    /\ s \in Seq(Threads)
    /\ \A i, j \in DOMAIN s : i < j => s[i] # s[j] /\ p[s[i]] <= p[s[j]]

\* The fields of the scheduling data.
Fields == {"sched", "sugg", "prio", "aff", "core", "st", "susp", "barred", "term", "paused",
           "yielded", "woken", "update", "changes"}

\* What the operations on the queues leave alone.
KeepsThreads(e, d) ==
    /\ DOMAIN e = Fields
    /\ e.prio = d.prio /\ e.aff = d.aff /\ e.st = d.st /\ e.susp = d.susp /\ e.term = d.term
    /\ e.paused = d.paused /\ e.woken = d.woken

\* The scheduling data d, with the threads R in the queues.
Exact(d, R) ==
    /\ DOMAIN d = Fields /\ DOMAIN d.sched = Cores /\ DOMAIN d.sugg = Cores
    /\ d.prio \in [Threads -> Int] /\ d.aff \in [Threads -> SUBSET Cores]
    /\ DOMAIN d.core = Threads /\ \A t \in Threads : d.core[t] \in d.aff[t] \cup {NoCore}
    /\ R \subseteq Threads
    /\ \A c \in Cores :
          /\ IsQueue(d.prio, d.sched[c]) /\ Members(d.sched[c]) = {t \in R : d.core[t] = c}
          /\ IsQueue(d.prio, d.sugg[c]) /\ Members(d.sugg[c]) = {t \in R : c \in Suggestions(d, t)}

-----------------------------------------------------------------------------
(* What UpdateHighestPriorityThreads makes of them.                        *)

\* The fields that Exact looks at are the same.
AlikeQueues(e, d) ==
    /\ DOMAIN e = Fields /\ e.sched = d.sched /\ e.sugg = d.sugg
    /\ e.core = d.core /\ e.prio = d.prio /\ e.aff = d.aff

\* Thread x may be what core c is to run.
May(d, R, c, x) == x = Null \/ (x \in R /\ d.core[x] \in Cores /\ c \in d.aff[x])

\* What is stored for the cores, by the list and, for the core a of the one
\* who stores, by own, takes highest to high.
Carried(a, R, d, high, own, list) ==
    /\ DOMAIN high = Cores /\ own \in BOOLEAN
    /\ list \in Seq(Cores \X (Threads \cup {Null}))
    /\ \A i \in DOMAIN list : list[i][1] # a /\ May(d, R, list[i][1], list[i][2])
    /\ \A c \in Cores \ {a} : high[c] # highest[c] => \E i \in DOMAIN list : list[i][1] = c
    /\ \A i \in DOMAIN list : \/ list[i][2] = high[list[i][1]]
                                \/ \E j \in DOMAIN list : j > i /\ list[j][1] = list[i][1]
    /\ own => a \in Cores
    /\ a \in Cores /\ high[a] # highest[a] => own

\* Every core is to run a thread that allows migration, or none.
AllAllowed(d) == \A c \in Cores : Allowed(d, FirstOf(d.sched[c]))

\* The threads suggested to core c are alone on their cores.
IdleOK(d, c) ==
    \A t \in Members(d.sugg[c]) : d.core[t] \in Cores /\ Members(d.sched[d.core[t]]) = {t}

\* No idle core leaves a thread behind that it could run, unless one is to run a
\* thread of a priority too high for migration.
Conserving(d) == AllAllowed(d) => \A c \in Cores : d.sched[c] = <<>> => IdleOK(d, c)

\* What UpdateHighestPriorityThreads makes of d.
Updated(r, a, d, R) ==
    /\ Carried(a, R, r.d, r.high, r.own, r.stores) /\ Exact(r.d, R) /\ KeepsThreads(r.d, d)
    /\ \A c \in Cores : r.high[c] = FirstOf(r.d.sched[c])
    /\ \A u \in Threads : r.d.core[u] = d.core[u] \/ r.d.core[u] \in Cores
    /\ Conserving(r.d)

\* The highest priority threads are right for the queues of d.
Calm(d) == Conserving(d) /\ \A c \in Cores : highest[c] = FirstOf(d.sched[c])

-----------------------------------------------------------------------------
(* Good scheduling data, and what the handlers make of it.                 *)

\* The runnable threads.
Run(d) == {t \in Threads : Runnable(d, t)}

\* Scheduling data that Unlock may be called with: the queues are exact, and unless
\* an update is needed the highest priority threads are right.
Good(d) == DOMAIN d.st = Threads \cup Hosts /\ Exact(d, Run(d)) /\ (d.update \/ Calm(d))

\* What a change of the state of a thread leaves alone.
KeepsMarks(e, d) == e.term = d.term /\ e.paused = d.paused /\ e.woken = d.woken

\* What SetState makes of d.
StateSet(e, d, t, s) ==
    /\ Good(e) /\ KeepsMarks(e, d)
    /\ e.susp = d.susp /\ e.aff = d.aff /\ e.core = d.core /\ e.prio = d.prio
    /\ e.st = [d.st EXCEPT ![t] = s]

\* What SetSuspended makes of d.
SuspendedSet(e, d, t, on) ==
    /\ Good(e) /\ KeepsMarks(e, d)
    /\ e.st = d.st /\ e.aff = d.aff /\ e.core = d.core /\ e.prio = d.prio
    /\ e.susp = IF on THEN d.susp \cup {t} ELSE d.susp \ {t}

\* What SetHostState makes of d.
HostSet(e, d, h, s) ==
    /\ Good(e) /\ e.susp = d.susp /\ e.aff = d.aff /\ e.core = d.core /\ e.prio = d.prio
    /\ e.term = d.term /\ e.paused = d.paused /\ e.update = TRUE
    /\ e.st = [d.st EXCEPT ![h] = s]
    /\ e.woken = IF s = "runnable" THEN d.woken \cup {h} ELSE d.woken \ {h}

\* Nothing of the queues differs, and no thread.
SameAll(e, d) ==
    /\ DOMAIN e = Fields /\ e.sched = d.sched /\ e.sugg = d.sugg /\ e.prio = d.prio /\ e.aff = d.aff
    /\ e.core = d.core /\ e.st = d.st /\ e.susp = d.susp /\ e.update = d.update /\ e.woken = d.woken

\* What SetPriority makes of d.
PrioritySet(e, d) ==
    /\ Good(e) /\ KeepsMarks(e, d)
    /\ e.st = d.st /\ e.susp = d.susp /\ e.aff = d.aff /\ e.core = d.core

\* What SetAffinity makes of d.
AffinitySet(e, d, t, mask) ==
    /\ Good(e) /\ KeepsMarks(e, d) /\ e.st = d.st /\ e.susp = d.susp
    /\ \A u \in Threads \ {t} : e.aff[u] = d.aff[u] /\ e.core[u] = d.core[u]
    /\ e.core[t] = NoCore <=> d.core[t] = NoCore
    /\ e.aff[t] = mask

-----------------------------------------------------------------------------
(* Yielding and preemption.                                                *)

\* What a yield of t may make of d.
Rearranged(e, d, t) ==
    Good(e) /\ KeepsThreads(e, d) /\ \A u \in Threads \ {t} : e.core[u] = d.core[u] \/ e.core[u] \in Cores

\* Threads have moved in the queues or to other cores.
Shuffled(e, d, R) ==
    Exact(e, R) /\ KeepsThreads(e, d) /\ \A u \in Threads : e.core[u] = d.core[u] \/ e.core[u] \in Cores

\* The loop of PreemptThreads.
RotateAll(d, older) == ForEachCore(LAMBDA x, c : RotateScheduledQueue(x, c, older), d)

\* The state of the loop.
Turned(e, d) == Good(e) /\ Shuffled(e, d, Run(d))

-----------------------------------------------------------------------------
(* The contract.                                                           *)

\* The front of the queue of a core is a thread that the core may run.
FrontsMay ==
    /\ NoCore \notin Cores
    /\ \A d, R : Exact(d, R) => \A c \in Cores :
         /\ May(d, R, c, FirstOf(d.sched[c]))
         /\ FirstOf(d.sched[c]) = Null <=> d.sched[c] = <<>>
         /\ FirstOf(d.sched[c]) # Null => FirstOf(d.sched[c]) \in Members(d.sched[c])

\* Data with the queues of exact data is exact.
AlikeKeeps == \A d, e, R : Exact(d, R) /\ AlikeQueues(e, d) => Exact(e, R)

\* Data that agrees with good data on all that is scheduled by is good.
SameKeeps == \A d, e : Good(d) /\ SameAll(e, d) => Good(e)

\* The fields that are only counted or marked.
MarksKeep ==
    \A d : DOMAIN d = Fields => SameAll(Counted(d), d) /\ KeepsMarks(Counted(d), d)

\* UpdateHighestPriorityThreads chooses the fronts of exact queues.
UpdateChooses ==
    DOMAIN highest = Cores => \A a, d, R :
       Exact(d, R) /\ (d.update \/ Calm(d)) => Updated(UpdateHighestPriorityThreads(a, d), a, d, R)

\* The calls that change a thread or a host.
SetStateKeeps == \A d : Good(d) => \A t \in Threads : \A s : StateSet(SetState(d, t, s), d, t, s)

SetSuspendedKeeps ==
    \A d : Good(d) => \A t \in Threads, on \in BOOLEAN : SuspendedSet(SetSuspended(d, t, on), d, t, on)

SetHostStateKeeps == \A d : Good(d) => \A h \in Hosts : \A s : HostSet(SetHostState(d, h, s), d, h, s)

SetPriorityKeeps ==
    \A d : Good(d) => \A t \in Threads, p \in Int : \A running : PrioritySet(SetPriority(d, t, p, running), d)

SetAffinityKeeps ==
    \A d : Good(d) => \A t \in Threads, mask \in SUBSET Cores : \A core \in mask :
       AffinitySet(SetAffinity(d, t, mask, core), d, t, mask)

\* The calls that rearrange the queues.
YieldsKeep ==
    \A d : Good(d) /\ ~d.update => \A t \in Run(d) : d.core[t] \in Cores =>
       /\ Rearranged(YieldWithoutCoreMigration(d, t), d, t)
       /\ \A older : Rearranged(YieldWithCoreMigration(d, t, older), d, t)
       /\ Rearranged(YieldToAnyThread(d, t), d, t)

PreemptKeeps == \A d : Good(d) => \A older : Turned(RotateAll(d, older), d)

DataContract ==
    /\ FrontsMay /\ AlikeKeeps /\ SameKeeps /\ MarksKeep /\ UpdateChooses
    /\ SetStateKeeps /\ SetSuspendedKeeps /\ SetHostStateKeeps /\ SetPriorityKeeps /\ SetAffinityKeeps
    /\ YieldsKeep /\ PreemptKeeps
=============================================================================
