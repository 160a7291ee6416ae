----------------------------- MODULE KScheduler -----------------------------
(***************************************************************************)
(* The multi-core scheduler: what a thread does under the scheduler lock,  *)
(* how the releasing thread decides which thread each core should run, and *)
(* how a core switches to it without the lock.                             *)
(*                                                                         *)
(* Taking the scheduler lock, changing the scheduling data and computing   *)
(* the highest priority threads is one step.  The stores that the cores    *)
(* read without the lock, m_state.highest_priority_thread and then         *)
(* m_state.needs_scheduling of each core in turn, are steps of their own,  *)
(* but for those of the core that makes them, and so are the interrupts    *)
(* that are sent after the lock is released.                               *)
(*                                                                         *)
(* The guest threads are those of one process; none is pinned and none has *)
(* kernel waiters.  A host is a host thread, which the kernel knows as a   *)
(* dummy thread.                                                           *)
(***************************************************************************)
EXTENDS KPriorityQueue, FiniteSets

CONSTANTS
    Hosts,
    MigrationPriority,      \* HighestCoreMigrationAllowedPriority
    TerminatingPriority,    \* TerminatingThreadPriority
    PreemptionPriority,     \* preemption_priorities, of each core
    StartPriority,          \* the priority of each thread at the start
    StartMask,              \* its affinity mask at the start
    Settable,               \* the (thread, priority) pairs that are set
    Maskable,               \* the (thread, mask) pairs that are set
    Pausable,               \* the threads that are paused
    Killable,               \* the threads that end
    MaxChanges              \* bound: how often priority or mask is changed, or a thread ended

ASSUME HostsAssumption == Hosts \cap (Cores \cup Threads) = {}
ASSUME PrioritiesAssumption ==
    {MigrationPriority, TerminatingPriority} \subseteq Int /\ PreemptionPriority \in [Cores -> Int]
ASSUME StartAssumption ==
    StartPriority \in [Threads -> Int] /\ StartMask \in [Threads -> (SUBSET Cores) \ {{}}]
ASSUME ChangesAssumption ==
    /\ Settable \subseteq Threads \X Int /\ Maskable \subseteq Threads \X ((SUBSET Cores) \ {{}})
    /\ Pausable \subseteq Threads /\ Killable \subseteq Threads

Actors == Cores \cup Hosts

VARIABLES
    q,              \* the scheduling data, under the scheduler lock
    highest,        \* m_state.highest_priority_thread of each core, Null for none
    needs,          \* m_state.needs_scheduling of each core
    current,        \* m_current_thread of each core, Null for its idle thread
    held,           \* the (thread, core) pairs of m_context_guard
    interrupted,    \* m_is_interrupted of each core
    awake,          \* the hosts with m_dummy_thread_runnable
    pc,             \* where each core and each host is
    next,           \* the thread that the switch fiber of a core goes to
    stores,         \* the highest priority threads that are still to be stored
    ipis,           \* the cores each actor is still to interrupt
    call,           \* the call a thread is in that retries until it holds
    fin             \* the core FinishTermination looks at next

sync == <<highest, needs, current, held, next>>
calls == <<call, fin>>
vars == <<q, sync, interrupted, awake, pc, stores, ipis, calls>>

NoCall == <<>>
Alive == -1     \* fin of a thread that has not exited

\* Every guest thread waits, and every core runs its idle thread.
Init ==
    /\ q = [sched |-> [c \in Cores |-> <<>>], sugg |-> [c \in Cores |-> <<>>],
            prio |-> StartPriority, aff |-> StartMask,
            core |-> [t \in Threads |-> CHOOSE c \in StartMask[t] : TRUE],
            st |-> [x \in Threads \cup Hosts |-> IF x \in Hosts THEN "runnable" ELSE "waiting"],
            susp |-> {}, barred |-> {}, term |-> {}, paused |-> {},
            yielded |-> {}, woken |-> {}, update |-> FALSE, changes |-> 0]
    /\ highest = [c \in Cores |-> Null] /\ needs = [c \in Cores |-> FALSE]
    /\ current = [c \in Cores |-> Null] /\ next = [c \in Cores |-> Null]
    /\ held = {<<Null, c>> : c \in Cores}
    /\ interrupted = [c \in Cores |-> FALSE] /\ awake = Hosts
    /\ pc = [a \in Actors |-> "loop"]
    /\ stores = <<>> /\ ipis = [a \in Actors |-> {}]
    /\ call = [t \in Threads |-> NoCall] /\ fin = [t \in Threads |-> Alive]
-----------------------------------------------------------------------------
(* What a change does to the queues.                                        *)

\* GetRawState is Runnable.
Runnable(d, t) == d.st[t] = "runnable" /\ t \notin d.susp

\* SetSchedulerUpdateNeeded and IncrementScheduledCount.  A thread of yielded
\* has a yield schedule count equal to the scheduled count of the process.
UpdateNeeded(d) == [d EXCEPT !.update = TRUE, !.yielded = {}]

OnThreadStateChanged(old, d, t) ==
    CASE Runnable(old, t) /\ ~Runnable(d, t) -> UpdateNeeded(RemoveMember(d, t))
      [] ~Runnable(old, t) /\ Runnable(d, t) -> UpdateNeeded(PushBack(d, t))
      [] OTHER -> d

SetState(d, t, st) == OnThreadStateChanged(d, [d EXCEPT !.st[t] = st], t)

SetSuspended(d, t, on) ==
    OnThreadStateChanged(d, [d EXCEPT !.susp = IF on THEN @ \cup {t} ELSE @ \ {t}], t)

\* A dummy thread is in no queue, but it wakes when the lock is released.
SetHostState(d, h, st) ==
    [d EXCEPT !.st[h] = st, !.update = TRUE,
              !.woken = IF st = "runnable" THEN @ \cup {h} ELSE @ \ {h}]

\* running: the thread whose priority changes is the one that changes it.
SetPriority(d, t, p, running) ==
    LET set == [d EXCEPT !.prio[t] = p]
    IN IF d.prio[t] = p \/ ~Runnable(d, t) THEN set
       ELSE UpdateNeeded(ChangePriority(set, running, t))

\* core is the ideal core, or the last one of the mask if there is none.
SetAffinity(d, t, mask, core) ==
    LET set == [d EXCEPT !.aff[t] = mask, !.core[t] = IF @ \in mask \cup {NoCore} THEN @ ELSE core]
    IN IF mask = d.aff[t] \/ ~Runnable(d, t) THEN set
       ELSE UpdateNeeded(ChangeAffinityMask(set, d.core[t], d.aff[t], t))
-----------------------------------------------------------------------------
(* UpdateHighestPriorityThreads.                                            *)

\* UpdateHighestPriorityThread of a core: r.high is what is stored for the core,
\* r.own tells of a store for the core r.by that makes them, r.stores of the others.
SetTop(r, c, t) ==
    IF r.high[c] = t THEN [r EXCEPT !.top[c] = t]
    ELSE [r EXCEPT !.top[c] = t, !.high[c] = t,
                   !.own = @ \/ c = r.by, !.stores = IF c = r.by THEN @ ELSE Append(@, <<c, t>>),
                   !.d.yielded = IF r.high[c] = Null THEN @ ELSE {}]

ScheduledTop(r, c) == SetTop(r, c, FirstOf(r.d.sched[c]))

Migrate(r, t, c) == SetTop([r EXCEPT !.d = ChangeCore(@, t, c, FALSE)], c, t)

\* The thread that runs on the active core of t.
TopOnCoreOf(r, t) == IF r.d.core[t] = NoCore THEN Null ELSE r.top[r.d.core[t]]

\* Mutant: the core that the thread leaves is not told what to run instead.
FillIdleCoreOnly(r, c) ==
    LET s == r.d.sugg[c]
        After(t) == NextIn(r.d.sched[r.d.core[t]], t)
        spare == FirstWith(s, LAMBDA t : TopOnCoreOf(r, t) # t)
        leaving == FirstWith(s, LAMBDA t : After(t) # Null)
        top == TopOnCoreOf(r, spare)
    IN CASE spare # Null -> IF top # Null /\ r.d.prio[top] < MigrationPriority THEN r
                            ELSE Migrate(r, spare, c)
         [] spare = Null /\ leaving # Null -> Migrate(r, leaving, c)
         [] OTHER -> r

\* A thread moves to the idle core c: the first that is suggested to it and does
\* not run elsewhere, or one that does and whose core has another to run.
FillIdleCore(r, c) ==
    LET s == r.d.sugg[c]
        After(t) == NextIn(r.d.sched[r.d.core[t]], t)
        spare == FirstWith(s, LAMBDA t : TopOnCoreOf(r, t) # t)
        leaving == FirstWith(s, LAMBDA t : After(t) # Null)
        top == TopOnCoreOf(r, spare)
    IN CASE spare # Null -> IF top # Null /\ r.d.prio[top] < MigrationPriority THEN r
                            ELSE Migrate(r, spare, c)
         [] spare = Null /\ leaving # Null -> Migrate(SetTop(r, r.d.core[leaving], After(leaving)), leaving, c)
         [] OTHER -> r

UpdateHighestPriorityThreads(a, d) ==
    LET start == [d |-> d, high |-> highest, top |-> [c \in Cores |-> Null],
                  by |-> a, own |-> FALSE, stores |-> <<>>]
    IN IF ~d.update THEN start
       ELSE ForEachCore(LAMBDA r, c : IF d.sched[c] = <<>> THEN FillIdleCore(r, c) ELSE r,
                        ForEachCore(ScheduledTop, start))

\* m_spin_lock is held while the results are stored.
LockFree == \A a \in Actors : pc[a] \notin {"store", "flag"}

\* The end of actor a's time under the lock, with the scheduling data d.  What it
\* stores for its own core, only that core reads.
Unlock(a, d) ==
    \E r \in {UpdateHighestPriorityThreads(a, d)} :
       LET blocked == IF d.update /\ a \in Hosts /\ d.st[a] # "runnable" THEN {a} ELSE {}
       IN /\ q' = [r.d EXCEPT !.update = FALSE, !.woken = {}]
          /\ awake' = (awake \cup d.woken) \ blocked
          /\ IF r.own
             THEN /\ highest' = [highest EXCEPT ![a] = r.high[a]]
                  /\ needs' = [needs EXCEPT ![a] = TRUE]
             ELSE UNCHANGED <<highest, needs>>
          /\ stores' = r.stores
          /\ pc' = [pc EXCEPT ![a] = IF r.stores = <<>> THEN "resched" ELSE "store"]
          /\ UNCHANGED <<current, held, next, ipis>>
-----------------------------------------------------------------------------
(* What a guest thread or a host does under the lock.                       *)

\* Actor a can take the scheduler lock: a core that executes a guest thread in
\* user mode, or a host.
CanAct(a) == LockFree /\ pc[a] = IF a \in Hosts THEN "loop" ELSE "guest"

\* Changes of priority and mask, and ends of threads, are counted to bound them.
\* To pause and resume needs no bound.
CanChange(a) == CanAct(a) /\ q.changes < MaxChanges

Counted(d) == [d EXCEPT !.changes = @ + 1]

Self(a) == IF a \in Hosts THEN a ELSE current[a]

IsTerminationRequested(t) == t \in q.term \/ q.st[t] = "terminated"

\* BeginWait of the current thread.
Wait(c) ==
    /\ CanAct(c) /\ ~IsTerminationRequested(current[c])
    /\ Unlock(c, SetState(q, current[c], "waiting"))
    /\ UNCHANGED <<interrupted, calls>>

HostWait(h) ==
    /\ CanAct(h)
    /\ Unlock(h, SetHostState(q, h, "waiting"))
    /\ UNCHANGED <<interrupted, calls>>

\* EndWait or CancelWait of another thread.
Wake(a, t) ==
    /\ CanAct(a) /\ q.st[t] = "waiting"
    /\ Unlock(a, SetState(q, t, "runnable"))
    /\ UNCHANGED <<interrupted, calls>>

WakeHost(a, h) ==
    /\ CanAct(a) /\ q.st[h] = "waiting"
    /\ Unlock(a, SetHostState(q, h, "runnable"))
    /\ UNCHANGED <<interrupted, calls>>

SetBasePriority(c, t, p) ==
    /\ CanChange(c) /\ q.st[t] # "terminated" /\ q.prio[t] # p
    /\ Unlock(c, SetPriority(Counted(q), t, p, t = current[c]))
    /\ UNCHANGED <<interrupted, calls>>
-----------------------------------------------------------------------------
(* Yielding and preemption.  Which of two threads was scheduled longer ago  *)
(* is left open: older says so of the next thread and the suggested ones.   *)

Allowed(d, top) == top = Null \/ d.prio[top] >= MigrationPriority

FrontOnCoreOf(d, t) == IF d.core[t] = NoCore THEN Null ELSE FirstOf(d.sched[d.core[t]])

\* Nothing to do until the process is scheduled again.
NothingToYield(d, t) == [d EXCEPT !.yielded = {t}]

YieldWithoutCoreMigration(d, t) ==
    LET moved == [MoveToScheduledBack(d, t) EXCEPT !.yielded = {}]
    IN IF FirstOfPriority(moved, moved.sched[d.core[t]], d.prio[t]) # t
       THEN UpdateNeeded(moved) ELSE NothingToYield(moved, t)

YieldWithCoreMigration(d, t, older) ==
    LET c == d.core[t]
        moved == [MoveToScheduledBack(d, t) EXCEPT !.yielded = {}]
        after == FirstOfPriority(moved, moved.sched[c], d.prio[t])
        Top(s) == IF d.core[s] = NoCore THEN Null ELSE highest[d.core[s]]
        Prefer(s) == \/ d.prio[s] > d.prio[t]
                     \/ d.prio[s] = d.prio[t] /\ after # t /\ older
        spare == FirstWith(moved.sugg[c], LAMBDA s : Top(s) # s)
        first == FirstWith(moved.sugg[c], LAMBDA s : Top(s) # s /\ (Prefer(s) \/ Allowed(d, Top(s))))
    IN CASE first # Null /\ ~Prefer(first) -> UpdateNeeded(ChangeCore(moved, first, c, TRUE))
         [] (first = Null \/ Prefer(first)) /\ after # t -> UpdateNeeded(moved)
         [] OTHER -> IF spare # first THEN moved ELSE NothingToYield(moved, t)

YieldToAnyThread(d, t) ==
    LET c == d.core[t]
        out == [ChangeCore(d, t, NoCore, FALSE) EXCEPT !.yielded = {}]
        s == FirstWith(out.sugg[c], LAMBDA u : FrontOnCoreOf(out, u) # u)
        moved == IF s # Null /\ Allowed(d, FrontOnCoreOf(out, s))
                 THEN ChangeCore(out, s, c, FALSE) ELSE out
    IN CASE out.sched[c] # <<>> -> UpdateNeeded(out)
         [] out.sched[c] = <<>> /\ s # t -> UpdateNeeded(moved)
         [] OTHER -> NothingToYield(moved, t)

Yields(d, t, older) ==
    {YieldWithoutCoreMigration(d, t), YieldWithCoreMigration(d, t, older), YieldToAnyThread(d, t)}

Yield(c) ==
    /\ CanAct(c) /\ current[c] \notin q.yielded
    /\ IF Runnable(q, current[c])
       THEN \E older \in BOOLEAN : \E d \in Yields(q, current[c], older) : Unlock(c, d)
       ELSE Unlock(c, q)
    /\ UNCHANGED <<interrupted, calls>>

\* The thread of the preempted priority goes behind its equals; then a thread of
\* that priority, and one of a higher priority, may move here from another core.
RotateScheduledQueue(d, c, older) ==
    LET p == PreemptionPriority[c]
        top == FirstOfPriority(d, d.sched[c], p)
        moved == IF top = Null THEN d ELSE MoveToScheduledBack(d, top)
        after == FirstOfPriority(moved, moved.sched[c], p)
        Spare(e, s) == FrontOnCoreOf(e, s) # s
        Movable(e, s) == Spare(e, s) /\ Allowed(e, FrontOnCoreOf(e, s))
        prefer == top # after /\ older[c]
        equal == FirstWith(moved.sugg[c], LAMBDA s :
                     d.prio[s] = p /\ IF prefer THEN Spare(moved, s) ELSE Movable(moved, s))
        one == IF equal # Null /\ ~prefer THEN ChangeCore(moved, equal, c, TRUE) ELSE moved
        best == FirstOf(one.sched[c])
        better == FirstWith(one.sugg[c], LAMBDA s : d.prio[s] < d.prio[best] /\ Movable(one, s))
        two == IF best # Null /\ d.prio[best] >= p /\ better # Null
               THEN ChangeCore(one, better, c, TRUE) ELSE one
    IN [two EXCEPT !.update = TRUE, !.yielded = IF two = d THEN @ ELSE {}]

\* The callback of preemption_event.
PreemptThreads(h) ==
    /\ CanAct(h)
    /\ \E older \in [Cores -> BOOLEAN] :
          Unlock(h, ForEachCore(LAMBDA d, c : RotateScheduledQueue(d, c, older), q))
    /\ UNCHANGED <<interrupted, calls>>
-----------------------------------------------------------------------------
(* Calls that return once another thread has left a core.  m_activity_pause *)
(* lock of the target admits one of them at a time.                         *)

InCall(t) == t # Null /\ call[t] # NoCall

NoneOn(t) == \A u \in Threads : InCall(u) => call[u][2] # t

SetCoreMask(c, t, mask) ==
    /\ CanChange(c) /\ NoneOn(t) /\ q.st[t] # "terminated" /\ mask # q.aff[t]
    /\ \E core \in mask : Unlock(c, SetAffinity(Counted(q), t, mask, core))
    /\ call' = [call EXCEPT ![current[c]] = <<"mask", t>>]
    /\ UNCHANGED <<interrupted, fin>>

\* SetActivity, with RequestSuspend or Resume.  A thread that is to terminate is
\* paused like any other, except one that was paused when its end was asked for:
\* the request stands, and to lift it and make it again changes nothing.
Pause(c, t) ==
    /\ CanAct(c) /\ NoneOn(t) /\ t # current[c]
    /\ q.st[t] # "terminated" /\ t \notin q.susp \cup q.barred
    /\ Unlock(c, SetSuspended(q, t, TRUE))
    /\ call' = [call EXCEPT ![current[c]] = <<"pause", t>>]
    /\ UNCHANGED <<interrupted, fin>>

Resume(c, t) ==
    /\ CanAct(c) /\ NoneOn(t) /\ t \in q.susp
    /\ Unlock(c, [SetSuspended(q, t, FALSE) EXCEPT !.paused = @ \ {t}])
    /\ UNCHANGED <<interrupted, calls>>

\* The first core, in the order of the loop, whose current thread is t.
FoundOn(t) == {c \in Cores : current[c] = t /\ \A d \in Cores : d < c => current[d] # t}

\* Mutant: the caller does not look where the target runs.
MustRetryNever(kind, t) == FALSE
\* SetActivity retries while a core has the target, SetCoreMask while the first
\* core that has it is outside of the mask, and neither if the target is to end.
MustRetry(kind, t) ==
    /\ ~IsTerminationRequested(t)
    /\ \/ kind = "pause" /\ \E c \in Cores : current[c] = t
       \/ kind = "mask" /\ \E c \in FoundOn(t) : c \notin q.aff[t]

\* One round of the loop of the calls above.
RetryCall(c) ==
    LET u == current[c]
        kind == call[u][1]
        t == call[u][2]
        done == IF kind = "pause" /\ ~IsTerminationRequested(t)
                THEN [q EXCEPT !.paused = @ \cup {t}] ELSE q
    IN /\ LockFree /\ pc[c] = "loop" /\ InCall(u)
       /\ IF MustRetry(kind, t)
          THEN call' = call /\ Unlock(c, q)
          ELSE call' = [call EXCEPT ![u] = NoCall] /\ Unlock(c, done)
       /\ UNCHANGED <<interrupted, fin>>
-----------------------------------------------------------------------------
(* The end of a thread.                                                     *)

\* Mutant: a running thread is left to find out by itself.
TerminationInterruptsNone(t) == {}
\* The cores RequestTerminate interrupts.
TerminationInterrupts(t) == IF q.st[t] = "runnable" THEN q.aff[t] ELSE {}

\* A running thread is interrupted, a waiting one is woken.
RequestTerminate(a, t) ==
    LET barred == IF t \in q.susp THEN {t} ELSE {}
        free == [SetSuspended(Counted(q), t, FALSE) EXCEPT
                    !.term = @ \cup {t}, !.paused = @ \ {t}, !.barred = @ \cup barred]
        raised == IF q.prio[t] > TerminatingPriority
                  THEN SetPriority(free, t, TerminatingPriority, FALSE) ELSE free
    IN /\ CanChange(a) /\ t # Self(a) /\ ~IsTerminationRequested(t)
       /\ interrupted' = [c \in Cores |-> interrupted[c] \/ c \in TerminationInterrupts(t)]
       /\ Unlock(a, IF q.st[t] = "waiting" THEN SetState(raised, t, "runnable") ELSE raised)
       /\ UNCHANGED calls

Exit(c) ==
    /\ LockFree
    /\ Unlock(c, SetState(SetSuspended(q, current[c], FALSE), current[c], "terminated"))
    /\ fin' = [fin EXCEPT ![current[c]] = 0]
    /\ UNCHANGED <<interrupted, call>>

\* A thread exits by itself.
ExitThread(c) == CanChange(c) /\ current[c] \in Killable /\ Exit(c)

\* FinishTermination, by a worker: it waits until no core has the thread.
FinishTermination(t) ==
    /\ fin[t] \in Cores /\ current[fin[t]] # t
    /\ fin' = [fin EXCEPT ![t] = @ + 1]
    /\ UNCHANGED <<q, sync, interrupted, awake, pc, stores, ipis, call>>
-----------------------------------------------------------------------------
(* After the lock: the stores, the interrupts, and the current core.        *)

\* The core is one that RescheduleCores is to interrupt.
StoreTop(a) ==
    /\ pc[a] = "store"
    /\ highest' = [highest EXCEPT ![Head(stores)[1]] = Head(stores)[2]]
    /\ ipis' = [ipis EXCEPT ![a] = @ \cup {Head(stores)[1]}]
    /\ pc' = [pc EXCEPT ![a] = "flag"]
    /\ UNCHANGED <<q, needs, current, held, next, interrupted, awake, stores, calls>>

StoreNeeds(a) ==
    /\ pc[a] = "flag"
    /\ needs' = [needs EXCEPT ![Head(stores)[1]] = TRUE]
    /\ stores' = Tail(stores)
    /\ pc' = [pc EXCEPT ![a] = IF Tail(stores) = <<>> THEN "resched" ELSE "store"]
    /\ UNCHANGED <<q, highest, current, held, next, interrupted, awake, ipis, calls>>

\* Mutant: only a core that executes user code is interrupted.
RescheduleRunningCores(a) ==
    /\ pc[a] = "resched" /\ ipis[a] # {}
    /\ LET c == CHOOSE d \in ipis[a] : \A e \in ipis[a] : d <= e
       IN /\ interrupted' = [interrupted EXCEPT ![c] = @ \/ pc[c] = "guest"]
          /\ ipis' = [ipis EXCEPT ![a] = @ \ {c}]
    /\ UNCHANGED <<q, sync, awake, pc, stores, calls>>
\* PhysicalCore::Interrupt of the next core.
RescheduleOtherCores(a) ==
    /\ pc[a] = "resched" /\ ipis[a] # {}
    /\ LET c == CHOOSE d \in ipis[a] : \A e \in ipis[a] : d <= e
       IN /\ interrupted' = [interrupted EXCEPT ![c] = TRUE]
          /\ ipis' = [ipis EXCEPT ![a] = @ \ {c}]
    /\ UNCHANGED <<q, sync, awake, pc, stores, calls>>

\* Mutant: the current core goes on with its thread until it is interrupted.
RescheduleCurrentCoreLater(c) ==
    /\ pc[c] = "resched" /\ ipis[c] = {}
    /\ pc' = [pc EXCEPT ![c] = "loop"]
    /\ UNCHANGED <<q, sync, interrupted, awake, stores, ipis, calls>>
\* RescheduleCurrentCore and the start of ScheduleImpl.
RescheduleCurrentCore(c) ==
    /\ pc[c] = "resched" /\ ipis[c] = {}
    /\ pc' = [pc EXCEPT ![c] = IF needs[c] THEN "load" ELSE "loop"]
    /\ needs' = [needs EXCEPT ![c] = FALSE]
    /\ UNCHANGED <<q, highest, current, held, next, interrupted, awake, stores, ipis, calls>>

\* DummyThreadBeginWait.
RescheduleCurrentHLEThread(h) ==
    /\ pc[h] = "resched" /\ ipis[h] = {} /\ h \in awake
    /\ pc' = [pc EXCEPT ![h] = "loop"]
    /\ UNCHANGED <<q, sync, interrupted, awake, stores, ipis, calls>>
-----------------------------------------------------------------------------
(* The loop of a core, and the switch of its thread.                        *)

\* MultiCoreRunGuestThread and MultiCoreRunIdleThread: the core is in the loop
\* with a thread that is in no call.
AtLoop(c) == pc[c] = "loop" /\ ~InCall(current[c])

\* RunThread before user mode: a thread whose termination is requested exits.
Terminate(c) == AtLoop(c) /\ ~interrupted[c] /\ current[c] \in q.term /\ Exit(c)

RunThread(c) ==
    /\ AtLoop(c) /\ ~interrupted[c] /\ current[c] # Null /\ current[c] \notin q.term
    /\ pc' = [pc EXCEPT ![c] = "guest"]
    /\ UNCHANGED <<q, sync, interrupted, awake, stores, ipis, calls>>

\* An interrupt ends the execution of user code: HandleInterrupt and the start of
\* ScheduleImpl.
HandleInterrupt(c) ==
    /\ pc[c] \in {"loop", "guest"} /\ ~InCall(current[c]) /\ interrupted[c]
    /\ interrupted' = [interrupted EXCEPT ![c] = FALSE]
    /\ needs' = [needs EXCEPT ![c] = FALSE]
    /\ pc' = [pc EXCEPT ![c] = "load"]
    /\ UNCHANGED <<q, highest, current, held, next, awake, stores, ipis, calls>>

\* Unload: the context of a terminated thread stays locked.
Unloaded(c) ==
    IF current[c] # Null /\ q.st[current[c]] = "terminated" THEN held
    ELSE held \ {<<current[c], c>>}

\* An idle thread is switched to also by its own core.
LoadHighest(c) ==
    /\ pc[c] = "load"
    /\ IF highest[c] # Null /\ highest[c] = current[c]
       THEN pc' = [pc EXCEPT ![c] = "loop"] /\ UNCHANGED <<held, next>>
       ELSE /\ pc' = [pc EXCEPT ![c] = "try"]
            /\ next' = [next EXCEPT ![c] = highest[c]]
            /\ held' = Unloaded(c)
    /\ UNCHANGED <<q, highest, needs, current, interrupted, awake, stores, ipis, calls>>

ReloadHighest(c) ==
    /\ pc[c] = "reload"
    /\ next' = [next EXCEPT ![c] = highest[c]]
    /\ pc' = [pc EXCEPT ![c] = "try"]
    /\ UNCHANGED <<q, highest, needs, current, held, interrupted, awake, stores, ipis, calls>>

\* Mutant: the result of try_lock is not looked at.
ContextFreeAlways(t) == TRUE
\* Only its core locks the context of an idle thread.
ContextFree(t) == t = Null \/ \A c \in Cores : <<t, c>> \notin held

\* The retry of the switch fiber, from the flag on.
StartAgain(c) ==
    /\ needs' = [needs EXCEPT ![c] = FALSE]
    /\ pc' = [pc EXCEPT ![c] = "reload"]

\* try_lock of the thread's context and SwitchThread, or a retry.
SwitchThread(c) ==
    /\ pc[c] = "try"
    /\ \/ /\ ContextFree(next[c])
          /\ held' = held \cup {<<next[c], c>>}
          /\ current' = [current EXCEPT ![c] = next[c]]
          /\ pc' = [pc EXCEPT ![c] = "check"]
          /\ UNCHANGED needs
       \/ /\ ~ContextFree(next[c]) /\ needs[c]
          /\ StartAgain(c)
          /\ UNCHANGED <<held, current>>
    /\ UNCHANGED <<q, highest, next, interrupted, awake, stores, ipis, calls>>

\* Nothing has changed during the switch, or it is undone and retried.
FinishSwitch(c) ==
    /\ pc[c] = "check"
    /\ IF needs[c]
       THEN StartAgain(c) /\ held' = held \ {<<next[c], c>>}
       ELSE pc' = [pc EXCEPT ![c] = "loop"] /\ UNCHANGED <<needs, held>>
    /\ next' = [next EXCEPT ![c] = Null]
    /\ UNCHANGED <<q, highest, current, interrupted, awake, stores, ipis, calls>>
-----------------------------------------------------------------------------
\* What a guest thread or a host may choose to do.
Request(a) ==
    \/ \E t \in Threads : Wake(a, t)
    \/ \E h \in Hosts : WakeHost(a, h)
    \/ \E t \in Killable : RequestTerminate(a, t)

GuestRequest(c) ==
    \/ Wait(c) \/ Yield(c) \/ ExitThread(c)
    \/ \E s \in Settable : SetBasePriority(c, s[1], s[2])
    \/ \E s \in Maskable : SetCoreMask(c, s[1], s[2])
    \/ \E t \in Pausable : Pause(c, t) \/ Resume(c, t)

HostRequest(h) == HostWait(h) \/ PreemptThreads(h)

\* What follows once the lock is released.
Release(a) == StoreTop(a) \/ StoreNeeds(a) \/ RescheduleOtherCores(a)

\* What a core does on its own.
CoreStep(c) ==
    \/ RescheduleCurrentCore(c) \/ RunThread(c) \/ HandleInterrupt(c)
    \/ LoadHighest(c) \/ ReloadHighest(c) \/ SwitchThread(c) \/ FinishSwitch(c)

Next ==
    \/ \E a \in Actors : Request(a) \/ Release(a)
    \/ \E c \in Cores : GuestRequest(c) \/ CoreStep(c) \/ RetryCall(c) \/ Terminate(c)
    \/ \E h \in Hosts : HostRequest(h) \/ RescheduleCurrentHLEThread(h)
    \/ \E t \in Threads : FinishTermination(t)

Spec == Init /\ [][Next]_vars

\* ENABLED RetryCall(c) \/ Terminate(c): Unlock can always be done.
AsksForLock(c) ==
    /\ LockFree /\ pc[c] = "loop"
    /\ InCall(current[c]) \/ (~interrupted[c] /\ current[c] \in q.term)

\* The host threads of the cores, the hosts and the worker run.  The scheduler lock
\* is a host mutex, taken to be granted in the end to who retries under it, hence
\* the strong fairness of those steps.
Fairness ==
    /\ \A c \in Cores :
          /\ WF_vars(Release(c) \/ CoreStep(c))
          /\ []<>AsksForLock(c) => []<><<RetryCall(c) \/ Terminate(c)>>_vars
    /\ \A h \in Hosts : WF_vars(Release(h) \/ RescheduleCurrentHLEThread(h))
    /\ \A t \in Killable : WF_vars(FinishTermination(t))

FairSpec == Spec /\ Fairness
-----------------------------------------------------------------------------
\* Core c is not switching: it is about to execute its current thread, or does.
Executes(c) == pc[c] \notin {"try", "check", "reload"}

\* m_context_guard: no two cores execute the same thread.
OneCoreAtATime ==
    \A c, d \in Cores :
        c # d /\ Executes(c) /\ Executes(d) => current[c] # current[d] \/ current[c] = Null

\* A thread that waits or has exited is not in user mode again before it is woken,
\* and a host that waits does not return, as RescheduleCurrentHLEThread asserts.
BlockedStaysOff ==
    /\ \A c \in Cores : pc[c] = "guest" => q.st[current[c]] = "runnable"
    /\ \A h \in Hosts : pc[h] = "loop" => q.st[h] = "runnable"

\* Who waits for a thread to leave the cores does so until it has, though switches
\* to it may be under way: when SetActivity has paused a thread no core executes
\* it, and a core that FinishTermination has seen without the thread never gets it
\* again, though the cores are looked at one by one.
ReturnMeansStopped ==
    \A t \in Threads, c \in Cores :
        (t \in q.paused /\ Executes(c)) \/ fin[t] > c => current[c] # t

\* A core that runs another thread than it should has been interrupted, or is
\* about to be by the one who changed its highest priority thread.
NoLostReschedule ==
    \A c \in Cores : pc[c] \in {"loop", "guest"} /\ current[c] # highest[c] =>
        interrupted[c] \/ \E a \in Actors : c \in ipis[a]

\* A runnable thread is in the scheduled queue of its core and in the suggested
\* queue of each other core of its mask, once and in order, and in no other queue.
QueuesExact ==
    /\ \A c \in Cores :
          /\ Members(q.sched[c]) = {t \in Threads : Runnable(q, t) /\ q.core[t] = c}
          /\ Members(q.sugg[c]) = {t \in Threads : Runnable(q, t) /\ c \in Suggestions(q, t)}
          /\ \A s \in {q.sched[c], q.sugg[c]} : \A i, j \in DOMAIN s :
                i < j => s[i] # s[j] /\ q.prio[s[i]] <= q.prio[s[j]]
    /\ \A t \in Threads : q.core[t] \in q.aff[t] \cup {NoCore}

\* With the lock free, each core is to run the front of its queue, and, unless one
\* is to run a thread of a priority too high for migration, an idle core leaves no
\* thread behind that it could run: each is alone on its own core.
HighestIsBest ==
    LockFree =>
        /\ \A c \in Cores : highest[c] = FirstOf(q.sched[c])
        /\ (\A c \in Cores : Allowed(q, highest[c])) =>
              \A c \in Cores : highest[c] = Null =>
                 \A t \in Members(q.sugg[c]) :
                    q.core[t] \in Cores /\ Members(q.sched[q.core[t]]) = {t}

\* The core of t, or each core of its mask when it has none, is to run another
\* thread.
HeldOff(t) ==
    \A c \in IF q.core[t] = NoCore THEN q.aff[t] ELSE {q.core[t]} : highest[c] \notin {t, Null}

\* A thread that is asked to terminate does, wherever it runs, waits or moves to,
\* unless it is paused after that or threads of higher priority keep its cores.
TerminationCompletes ==
    \A t \in Killable : t \in q.term ~> fin[t] = NumCores \/ t \in q.susp \/ HeldOff(t)
=============================================================================
