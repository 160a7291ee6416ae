--------------------------- MODULE KHardwareTimer ---------------------------
(***************************************************************************)
(* The kernel's hardware timer: the timer tasks of threads in timed waits, *)
(* the time m_wakeup_time it is armed for, and the core timing event that  *)
(* stands for its interrupt.                                               *)
(*                                                                         *)
(* RegisterAbsoluteTask, CancelTask and DoTask all run under the scheduler *)
(* lock, so each is one step together with the change of the thread's wait *)
(* that goes with it.  The timer thread pops a due event in one step and   *)
(* runs its callback, DoTask, in a later one.  Among tasks of one time the *)
(* order of the tree is left open.                                         *)
(***************************************************************************)
EXTENDS Integers

CONSTANTS
    Tasks,      \* the threads, each one a timer task
    NoTask,     \* the null task pointer
    MaxTick     \* bound on the clock and on the times asked for

ASSUME TasksAssumption == NoTask \notin Tasks
ASSUME MaxTickAssumption == MaxTick \in Nat \ {0}

VARIABLES
    tick,       \* GetTick()
    waiting,    \* the threads in a timed wait
    taskTime,   \* KTimerTask::m_time, 0 when the task is not in the tree
    nextTask,   \* m_next_task
    wakeup,     \* m_wakeup_time
    interrupts, \* the times of the queued core timing events of the timer
    popped      \* the timer thread has popped an event and not yet run DoTask

timerVars == <<tick, waiting, taskTime, nextTask, wakeup, interrupts, popped>>

Times == 1 .. MaxTick
\* The largest s64, for a timer that is not armed.
Never == MaxTick + 1

TimerInit ==
    /\ tick = 0
    /\ waiting = {}
    /\ taskTime = [t \in Tasks |-> 0]
    /\ nextTask = NoTask
    /\ wakeup = Never
    /\ interrupts = {}
    /\ popped = FALSE

\* m_task_tree when the times of the tasks are tm, and the tasks that can be
\* first in it.
Tree(tm) == {t \in Tasks : tm[t] > 0}
First(tm) == {t \in Tree(tm) : \A u \in Tree(tm) : tm[t] <= tm[u]}
FirstOrNone(tm) == IF Tree(tm) = {} THEN {NoTask} ELSE First(tm)
-----------------------------------------------------------------------------
(* Tasks.                                                                  *)

\* Mutant: the event is queued and the time it stands for is not noted.
EnableInterruptUnnoted(at) == UNCHANGED wakeup /\ interrupts' = {at}
\* DisableInterrupt drops what is queued before the new event goes in.
EnableInterrupt(at) == wakeup' = at /\ interrupts' = {at}

\* RegisterAbsoluteTaskImpl: the new task is the next one.
BecomesFirst(at) == nextTask = NoTask \/ taskTime[nextTask] > at

\* A thread begins a wait with a timeout; the destructor of
\* KScopedSchedulerLockAndSleep registers its task.  The time asked for may
\* have passed already.
Sleep(t, at) ==
    /\ t \notin waiting
    /\ waiting' = waiting \cup {t}
    /\ taskTime' = [taskTime EXCEPT ![t] = at]
    /\ nextTask' = IF BecomesFirst(at) THEN t ELSE nextTask
    /\ IF BecomesFirst(at) /\ at <= wakeup
       THEN EnableInterrupt(at)
       ELSE UNCHANGED <<wakeup, interrupts>>
    /\ UNCHANGED <<tick, popped>>

\* RemoveTaskFromTree: the task after t is next when t was.
NextAfterRemove(t, tm) == IF nextTask = t THEN FirstOrNone(tm) ELSE {nextTask}

\* Mutant: the end of a wait leaves its task in the tree.
CancelledKept(t) == taskTime
\* CancelTask: the time of a task that leaves the tree is cleared.
Cancelled(t) == [taskTime EXCEPT ![t] = 0]

\* The wait ends or is cancelled before its time: EndWait and CancelWait of
\* KThreadQueue cancel the task.
EndWait(t) ==
    /\ t \in waiting
    /\ waiting' = waiting \ {t}
    /\ taskTime' = Cancelled(t)
    /\ nextTask' \in NextAfterRemove(t, Cancelled(t))
    /\ UNCHANGED <<tick, wakeup, interrupts, popped>>
-----------------------------------------------------------------------------
(* The interrupt.                                                          *)

\* Advance pops an event of the timer that is due.
PopEvent(at) ==
    /\ ~popped /\ at \in interrupts /\ at <= tick
    /\ interrupts' = interrupts \ {at}
    /\ popped' = TRUE
    /\ UNCHANGED <<tick, waiting, taskTime, nextTask, wakeup>>

\* The callback finds the timer disarmed and ignores the event.
DoTaskIgnored ==
    /\ popped /\ wakeup = Never
    /\ popped' = FALSE
    /\ UNCHANGED <<tick, waiting, taskTime, nextTask, wakeup, interrupts>>

Due == {t \in Tree(taskTime) : taskTime[t] <= tick}
\* The times once DoInterruptTaskImpl has taken the due tasks off the tree.
Handled == [t \in Tasks |-> IF t \in Due THEN 0 ELSE taskTime[t]]

\* Mutant: DoTask leaves the timer disarmed although tasks are left.
RearmNot(next) == wakeup' = Never /\ UNCHANGED interrupts
\* DoTask arms the timer for the next task, if there is one.
Rearm(next) ==
    IF next = NoTask
    THEN wakeup' = Never /\ UNCHANGED interrupts
    ELSE EnableInterrupt(taskTime[next])

\* DoTask handles every due task in order: OnTimer ends the wait of the thread
\* with ResultTimedOut and does not touch the timer.
DoTask ==
    /\ popped /\ wakeup # Never
    /\ popped' = FALSE
    /\ waiting' = waiting \ Due
    /\ taskTime' = Handled
    /\ nextTask' \in FirstOrNone(Handled)
    /\ Rearm(nextTask')
    /\ UNCHANGED tick

ClockTick ==
    /\ tick < MaxTick
    /\ tick' = tick + 1
    /\ UNCHANGED <<waiting, taskTime, nextTask, wakeup, interrupts, popped>>
-----------------------------------------------------------------------------
TimerThread == (\E at \in Times : PopEvent(at)) \/ DoTaskIgnored \/ DoTask

TimerNext ==
    \/ \E t \in Tasks : EndWait(t) \/ (\E at \in Times : Sleep(t, at))
    \/ TimerThread
    \/ ClockTick

TimerSpec == TimerInit /\ [][TimerNext]_timerVars

\* The clock goes on and so does the timer thread of the host; threads may
\* sleep and be woken as they like.
TimerFairSpec == TimerSpec /\ WF_timerVars(ClockTick) /\ WF_timerVars(TimerThread)
-----------------------------------------------------------------------------
TypeOK ==
    /\ tick \in 0 .. MaxTick
    /\ waiting \subseteq Tasks
    /\ taskTime \in [Tasks -> 0 .. MaxTick]
    /\ nextTask \in Tasks \cup {NoTask}
    /\ wakeup \in 1 .. Never
    /\ interrupts \subseteq Times
    /\ popped \in BOOLEAN

\* Exactly the threads in timed waits have a task in the tree.
TaskPerWait == Tree(taskTime) = waiting

\* m_next_task is a task of the least time in the tree.
NextTaskFirst == nextTask \in FirstOrNone(taskTime)

\* However waits end, by the timer, by who wakes the thread or by a cancellation,
\* none leaves a task behind that would fire into a later wait of its thread, and
\* the cached m_next_task stays the first of the tree although tasks join and
\* leave it at any place.
TasksExact == TaskPerWait /\ NextTaskFirst

\* While a task is in the tree the timer is armed for its time or earlier, and
\* an armed timer has its event queued or already popped by the timer thread:
\* no sequence of registrations and cancellations around a callback in flight
\* leaves a thread asleep with nothing to wake it.
AlwaysArmed ==
    /\ Tree(taskTime) # {} => wakeup <= taskTime[nextTask]
    /\ wakeup # Never => popped \/ wakeup \in interrupts

\* Every timed wait ends.
SleepEnds == \A t \in Tasks : t \in waiting ~> t \notin waiting
=============================================================================
