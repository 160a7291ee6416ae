----------------------------- MODULE CoreTiming -----------------------------
(***************************************************************************)
(* The host timer: the queue of timed events, the timer thread that runs   *)
(* their callbacks, and the threads that schedule, unschedule and pause.   *)
(*                                                                         *)
(* The timer thread is in Advance (basic_lock held) when pc is "advance",  *)
(* in a callback (basic_lock released, advance_lock held) when it is       *)
(* "call".  A section under basic_lock is one step, and so is each access  *)
(* to an atomic or to a Common::Event.  A sequence number is kept only as  *)
(* far as Advance looks at it: whether it is the one read before the       *)
(* callback.  An event type outlives its queued events, since its owner    *)
(* unschedules it, or the queue is cleared, before the type is dropped.    *)
(***************************************************************************)
EXTENDS Integers

CONSTANTS
    Types,      \* the event types
    Users,      \* the threads that schedule and unschedule
    Periods,    \* the reschedule times of looping events
    NoEvent,    \* no callback runs
    Forever,    \* a sleep without a time
    MaxTime,    \* bound on the clock and on the times asked for
    MaxCalls,   \* bound on the calls of Users
    MaxPauses   \* bound on the calls of SyncPause

ASSUME PeriodsAssumption == Periods \subseteq Nat \ {0}
ASSUME ForeverAssumption == Forever \notin Nat
ASSUME BoundsAssumption == MaxTime \in Nat /\ MaxCalls \in Nat /\ MaxPauses \in Nat

VARIABLES
    now,                \* GetGlobalTimeNs()
    queue,              \* the events of event_queue
    pc,                 \* where the timer thread is
    evt,                \* the event whose callback runs
    fresh,              \* its sequence_number is the one read before the callback
    until,              \* the time the timer thread sleeps to
    signal,             \* event.is_set
    user,               \* what each user has left to do in its call
    calls,              \* calls of users so far, capped by MaxCalls
    stopped,            \* types unscheduled with Wait and not scheduled since
    paused, pausedSet,  \* paused, paused_set
    pauseSignal,        \* pause_event.is_set
    pauseEnd,           \* pause_end_time
    pauser,             \* what the thread in SyncPause has left to do
    pauses              \* calls of SyncPause so far, capped by MaxPauses

userVars == <<user, calls, stopped>>
pauseVars == <<paused, pausedSet, pauseSignal, pauseEnd, pauser, pauses>>
vars == <<now, queue, pc, evt, fresh, until, signal, userVars, pauseVars>>

Idle == [do |-> "idle"]

\* The state Initialize leaves: Reset has paused the thread and set both events.
Init ==
    /\ now = 0 /\ queue = {}
    /\ pc = "loop" /\ evt = NoEvent /\ fresh = TRUE /\ until = Forever
    /\ signal = TRUE
    /\ user = [u \in Users |-> Idle] /\ calls = 0 /\ stopped = {}
    /\ paused = TRUE /\ pausedSet = FALSE /\ pauseSignal = TRUE /\ pauseEnd = 0
    /\ pauser = "idle" /\ pauses = 0

\* basic_lock is free.
BasicLockFree == pc # "advance"

\* event_fifo_id, as far as the order of the queue depends on it: the number of a
\* new event is above those of the events that are queued for the same time.
NextFifo(time) ==
    LET same == {e \in queue : e.time = time}
    IN  CHOOSE n \in {0} \cup {e.fifo + 1 : e \in same} : \A e \in same : e.fifo < n

Event(type, time, period) ==
    [type |-> type, time |-> time, period |-> period, fifo |-> NextFifo(time)]

\* Events go by time and, at the same time, in the order they were added.
Before(e, f) == e.time < f.time \/ (e.time = f.time /\ e.fifo < f.fifo)
IsTop(e) == e \in queue /\ \A f \in queue \ {e} : Before(e, f)

EventsOf(type) == {e \in queue : e.type = type}
-----------------------------------------------------------------------------
(* Users.                                                                  *)

BeginCall(u) == user[u] = Idle /\ calls < MaxCalls /\ calls' = calls + 1

\* ScheduleEvent (period 0) and ScheduleLoopingEvent put the event into the
\* queue; event.Set() follows once basic_lock is released.
ScheduleEvent(u, type, time, period) ==
    /\ BeginCall(u) /\ BasicLockFree
    /\ queue' = queue \cup {Event(type, time, period)}
    /\ stopped' = stopped \ {type}
    /\ user' = [v \in Users |->
                  IF v = u THEN [do |-> "set"]
                  ELSE IF user[v].do = "wait" /\ user[v].type = type
                       THEN [do |-> "wait", type |-> type, clean |-> FALSE] ELSE user[v]]
    /\ UNCHANGED <<now, pc, evt, fresh, until, signal, pauseVars>>

\* Mutant: the timer thread is not told of the new event.
SetSignalNot == signal
SetSignal == TRUE

EventSet(u) ==
    /\ user[u].do = "set"
    /\ signal' = SetSignal
    /\ user' = [user EXCEPT ![u] = Idle]
    /\ UNCHANGED <<now, queue, pc, evt, fresh, until, calls, stopped, pauseVars>>

\* UnscheduleEvent removes the events of the type and counts the sequence
\* number up; with Wait it goes on to wait for a callback in progress.
UnscheduleEvent(u, type, wait) ==
    /\ BeginCall(u) /\ BasicLockFree
    /\ queue' = queue \ EventsOf(type)
    /\ fresh' = (fresh /\ (pc = "call" => evt.type # type))
    /\ user' = [user EXCEPT ![u] = IF wait THEN [do |-> "wait", type |-> type, clean |-> TRUE]
                                   ELSE Idle]
    /\ UNCHANGED <<now, pc, evt, until, signal, stopped, pauseVars>>

\* Mutant: UnscheduleEvent does not take advance_lock.
AdvanceLockFreeAlways == TRUE
AdvanceLockFree == pc \notin {"advance", "call"}

ClearPendingEvents(u) ==
    /\ BeginCall(u) /\ AdvanceLockFree
    /\ queue' = {}
    /\ signal' = SetSignal
    /\ UNCHANGED <<now, pc, evt, fresh, until, user, stopped, pauseVars>>

\* UnscheduleEvent has taken advance_lock and returns.
UnscheduleReturn(u) ==
    /\ user[u].do = "wait" /\ AdvanceLockFree
    /\ stopped' = IF user[u].clean THEN stopped \cup {user[u].type} ELSE stopped
    /\ user' = [user EXCEPT ![u] = Idle]
    /\ UNCHANGED <<now, queue, pc, evt, fresh, until, signal, calls, pauseVars>>
-----------------------------------------------------------------------------
(* The timer thread.                                                       *)

\* ThreadLoop finds that it is not paused, notes that, and calls Advance.
LoopRuns ==
    /\ pc = "loop" /\ ~paused
    /\ pc' = "running"
    /\ UNCHANGED <<now, queue, evt, fresh, until, signal, userVars, pauseVars>>

EnterAdvance ==
    /\ pc = "running"
    /\ pausedSet' = FALSE
    /\ pc' = "advance"
    /\ UNCHANGED <<now, queue, evt, fresh, until, signal, userVars>>
    /\ UNCHANGED <<paused, pauseSignal, pauseEnd, pauser, pauses>>

TopDue == \E e \in queue : e.time <= now

\* Advance begins the callback of the first event: a one-shot event leaves the
\* queue, a looping one stays.
BeginCallback ==
    /\ pc = "advance" /\ TopDue
    /\ \E e \in queue :
          /\ IsTop(e)
          /\ evt' = e
          /\ queue' = IF e.period = 0 THEN queue \ {e} ELSE queue
    /\ fresh' = TRUE
    /\ pc' = "call"
    /\ UNCHANGED <<now, until, signal, userVars, pauseVars>>

\* The time of the next round, counted from the end of a pause that came after.
NextTime(period) == (IF evt.time < pauseEnd THEN pauseEnd ELSE evt.time) + period

\* Mutant: the sequence number is not looked at.
StillQueuedAlways == TRUE
\* The handle of the looping event is still valid.
StillQueued == fresh

\* The callback returns and Advance takes basic_lock again: a looping event that
\* nobody unscheduled is updated with the period the callback chose.
EndCallback(period) ==
    /\ pc = "call"
    /\ IF evt.period # 0 /\ StillQueued
       THEN queue' = (queue \ {evt}) \cup {Event(evt.type, NextTime(period), period)}
       ELSE UNCHANGED queue
    /\ evt' = NoEvent /\ fresh' = TRUE
    /\ pc' = "advance"
    /\ UNCHANGED <<now, until, signal, userVars, pauseVars>>

\* No event is due: Advance returns the time to sleep to.
ReturnFromAdvance ==
    /\ pc = "advance" /\ ~TopDue
    /\ \/ queue = {} /\ until' = Forever
       \/ \E e \in queue : IsTop(e) /\ until' = e.time
    /\ pc' = "sleep"
    /\ UNCHANGED <<now, queue, evt, fresh, signal, userVars, pauseVars>>

\* event.Wait or event.WaitFor returns because the event is set, or WaitFor
\* because the time has come (also when it had come before the call).
Awake ==
    /\ pc = "sleep"
    /\ \/ signal /\ signal' = FALSE
       \/ until # Forever /\ until <= now /\ UNCHANGED signal
    /\ until' = Forever
    /\ pc' = "loop"
    /\ UNCHANGED <<now, queue, evt, fresh, userVars, pauseVars>>

\* ThreadLoop finds that it is paused; it notes so later, whatever paused is then.
LoopPauses ==
    /\ pc = "loop" /\ paused
    /\ pc' = "pausing"
    /\ UNCHANGED <<now, queue, evt, fresh, until, signal, userVars, pauseVars>>

NotePause ==
    /\ pc = "pausing"
    /\ pausedSet' = TRUE
    /\ pc' = "pause"
    /\ UNCHANGED <<now, queue, evt, fresh, until, signal, userVars>>
    /\ UNCHANGED <<paused, pauseSignal, pauseEnd, pauser, pauses>>

PauseWaitReturns ==
    /\ pc = "pause" /\ pauseSignal
    /\ pauseSignal' = FALSE
    /\ pc' = "loop"
    /\ UNCHANGED <<now, queue, evt, fresh, until, signal, userVars>>
    /\ UNCHANGED <<paused, pausedSet, pauseEnd, pauser, pauses>>
-----------------------------------------------------------------------------
(* SyncPause, called by one thread at a time.                              *)

SyncPause(p) ==
    /\ pauser = "idle" /\ pauses < MaxPauses
    /\ ~(p = paused /\ pausedSet = paused)
    /\ paused' = p
    /\ pauser' = "pauseSet"
    /\ pauses' = pauses + 1
    /\ UNCHANGED <<now, queue, pc, evt, fresh, until, signal, userVars>>
    /\ UNCHANGED <<pausedSet, pauseSignal, pauseEnd>>

PauseEndNow == IF paused THEN pauseEnd ELSE now

PauseSet ==
    /\ pauser = "pauseSet"
    /\ pauseSignal' = TRUE
    /\ pauser' = "pauseEnd"
    /\ UNCHANGED <<now, queue, pc, evt, fresh, until, signal, userVars>>
    /\ UNCHANGED <<paused, pausedSet, pauseEnd, pauses>>

PauseEndSet ==
    /\ pauser = "pauseEnd"
    /\ pauseEnd' = PauseEndNow
    /\ pauser' = IF paused THEN "eventSet" ELSE "resumeSet"
    /\ UNCHANGED <<now, queue, pc, evt, fresh, until, signal, userVars>>
    /\ UNCHANGED <<paused, pausedSet, pauseSignal, pauses>>

ResumeSet ==
    /\ pauser = "resumeSet"
    /\ pauseSignal' = TRUE
    /\ pauser' = "eventSet"
    /\ UNCHANGED <<now, queue, pc, evt, fresh, until, signal, userVars>>
    /\ UNCHANGED <<paused, pausedSet, pauseEnd, pauses>>

\* Mutant: a timer thread that sleeps is not woken.
PauseEventSetNot ==
    /\ pauser = "eventSet"
    /\ pauser' = "spin"
    /\ UNCHANGED <<now, queue, pc, evt, fresh, until, signal, userVars>>
    /\ UNCHANGED <<paused, pausedSet, pauseSignal, pauseEnd, pauses>>
PauseEventSet ==
    /\ pauser = "eventSet"
    /\ signal' = TRUE
    /\ pauser' = "spin"
    /\ UNCHANGED <<now, queue, pc, evt, fresh, until, userVars>>
    /\ UNCHANGED <<paused, pausedSet, pauseSignal, pauseEnd, pauses>>

PauseReached == pausedSet = paused

PauseReturn ==
    /\ pauser = "spin" /\ PauseReached
    /\ pauseEnd' = PauseEndNow
    /\ pauser' = "idle"
    /\ UNCHANGED <<now, queue, pc, evt, fresh, until, signal, userVars>>
    /\ UNCHANGED <<paused, pausedSet, pauseSignal, pauses>>

Tick ==
    /\ now < MaxTime
    /\ now' = now + 1
    /\ UNCHANGED <<queue, pc, evt, fresh, until, signal, userVars, pauseVars>>
-----------------------------------------------------------------------------
UserReturns(u) == EventSet(u) \/ UnscheduleReturn(u)

ThreadLoop ==
    \/ LoopRuns \/ EnterAdvance \/ BeginCallback \/ (\E p \in Periods : EndCallback(p))
    \/ ReturnFromAdvance \/ Awake \/ LoopPauses \/ NotePause \/ PauseWaitReturns

PauserReturns == PauseSet \/ PauseEndSet \/ ResumeSet \/ PauseEventSet \/ PauseReturn

Next ==
    \/ \E u \in Users :
          \/ \E type \in Types, time \in 0 .. MaxTime, period \in Periods \cup {0} :
                ScheduleEvent(u, type, time, period)
          \/ \E type \in Types, wait \in BOOLEAN : UnscheduleEvent(u, type, wait)
          \/ ClearPendingEvents(u) \/ UserReturns(u)
    \/ ThreadLoop
    \/ \E p \in BOOLEAN : SyncPause(p)
    \/ PauserReturns
    \/ Tick

Spec == Init /\ [][Next]_vars
-----------------------------------------------------------------------------
\* The timer thread never sleeps past an event: while it sleeps, either it is
\* signalled, or a thread that has just queued an event is about to signal it,
\* or no event is earlier than the time it sleeps to.
NoMissedEvent ==
    pc = "sleep" =>
        \/ signal \/ \E u \in Users : user[u].do = "set"
        \/ \A e \in queue : until # Forever /\ until <= e.time

\* Once UnscheduleEvent has returned ("Force any in-progress events to
\* finish"), the callback of the type does not run and is not queued until
\* someone schedules it again, a looping event that was being run included.
StoppedIsQuiet ==
    \A type \in stopped : EventsOf(type) = {} /\ (pc = "call" => evt.type # type)

\* Advance updates a looping event only while it is in the queue: the handle it
\* kept across the callback is never one that UnscheduleEvent erased.
HandleValid ==
    (pc = "call" /\ evt.period # 0 /\ StillQueued) => evt \in queue

\* A thread that spins in SyncPause is not left alone: until the timer thread has
\* taken note of the pause, or of its end, it neither sleeps in event.Wait nor
\* blocks on pause_event without a signal that gets it out.
SpinnerIsServed ==
    pauser = "spin" /\ pausedSet # paused =>
        (pc = "sleep" => signal) /\ (pc = "pause" => pauseSignal)
=============================================================================
