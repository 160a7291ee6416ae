# Kernel concurrency of the emulator: a TLA+ verification

The program is an emulator of a game console: it runs guest code on recompiled CPU cores and
implements the console's kernel, its services, GPU, audio and input on the host. This directory
models the part where concurrency is hardest and where everything else leans on it: the emulated
kernel (`src/src/core/hle/kernel`) and the host timer under it (`src/src/core/core_timing.cpp`).
Paths below are relative to `src/src/core/hle/kernel` unless they say otherwise.

## 1. Inventory

### Modelled

| part | state | operations | who it interacts with |
|---|---|---|---|
| light lock (`k_light_lock.cpp`) | tag word, waiters of the owner, kernel-waiter counts | Lock, Unlock, their slow paths, CancelWait | threads (suspension, termination), every kernel object with an `m_lock` |
| synchronization objects (`k_synchronization_object.cpp`, `k_readable_event.cpp`) | intrusive list of nodes per object, the wait of each thread | Wait, NotifyAvailable, Signal, Clear, Reset, time-out, WaitCancel | hardware timer, server sessions, ports |
| process-wide keys (`k_condition_variable.cpp`) | a mutex word and a flag in user memory, the tree of waiters | SignalToAddress, WaitForAddress, Signal, Wait | guest code, threads, hardware timer |
| priority inheritance (`k_thread.cpp`) | base and effective priorities, held locks with their trees, the condition-variable tree | AddWaiter, RemoveWaiter, RemoveWaiterByKey, SetBasePriority, RestorePriority | both kinds of locks |
| hardware timer (`k_hardware_timer*`) | task tree, next task, wakeup time, queued host events | RegisterAbsoluteTask, CancelTask, DoTask | every timed wait, host timer |
| host timer (`core/core_timing.cpp`) | event heap, timer thread, pause flags | ScheduleEvent, ScheduleLoopingEvent, UnscheduleEvent, ClearPendingEvents, Advance, Pause, SyncPause | hardware timer, audio, input, vsync |
| handle table (`k_handle_table.*`, `k_auto_object.h`) | entries, free list, linear ids, reference counts | Add, Reserve, Register, Unreserve, Remove, GetObject, GetMultipleObjects, Finalize | every system call |
| IPC session (`k_server_session.cpp`, `k_session.cpp`) | request list, current request, state, request references | OnRequest, ReceiveRequest, SendReply, CleanupRequests, OnClientClosed | clients, service threads |
| resource limit (`k_resource_limit.cpp`, `k_light_condition_variable.cpp`) | limit, current, hint, peak, waiters | Reserve, Release, SetLimitValue | creation of every kernel object |
| address arbiter (`k_address_arbiter.cpp`) | a word of user memory, the tree of its waiters | WaitIfLessThan, WaitIfEqual, Signal and its two variants that change the word | guest code, priorities, hardware timer |
| scheduler (`k_scheduler.cpp`, `k_priority_queue.h`, `physical_core.cpp`, `k_thread.cpp`) | queues of each core, highest priority and current thread, context guards, interrupts | release of the scheduler lock, migration, yields, preemption, the switch fiber, SetCoreMask, SetActivity, Exit, RequestTerminate, FinishTermination | cores, host threads, every wait |

### Not modelled

`PROJECT.json` lists every part with the reason; section 6 says more. In short: processes, ports and the
service loop are made of the modelled parts and need several of them in one state space; memory
management and the containers are sequential algorithms under a lock; graphics queues, syncpoints,
audio and the multiplayer room depend on devices, libraries or engines that are outside the model;
recompilers, renderers, codecs, input drivers, user interfaces and loaders compute on data or talk
to devices. The services are command tables that run one request at a time.

### What makes this code hard

Locks here are words changed by compare-and-swap on one side and under the global scheduler lock on
the other. Waits end in five ways (success, time-out, cancellation, termination, closing), each of
which must undo what the wait registered. One tree node and one timer task per thread are shared by
all waits. Both ends of a session close on their own. Callbacks of the host timer run with the lock
released and race their own cancellation. A core picks its next thread without the scheduler lock,
while others change what it should pick. `PROJECT.json` has each of these as a hazard at the line
where it bites.

## 2. Modules

One module per component holds its state, actions, properties and the deliberate faults (operators
marked *Mutant*) that show its properties are able to fail. `MC*` modules add the symmetry sets,
`*Proofs` modules the theorems; `KSchedulerContract` holds the definitions that the proofs about the
scheduler share. `Mutex` is an abstract specification that two components implement.

A step is what runs under one hold of the lock that protects the state (scheduler lock, table lock,
`basic_lock`), or a single atomic access outside of it.

**KLightLock.** `tag` is `m_tag`: owner and has-waiters bit. `pc` follows a thread through Lock
(`lock`, `slow`, `waiting`), ownership (`held`) and Unlock. The window between the failed
compare-and-swap and the scheduler lock is the step from `lock` to `slow`; LockSlowPath then reads
the tag again. RequestSuspend and Resume, for any of several kinds, and RequestTerminate may come at any
moment.

**KSynchronizationObject.** `list` has head, tail and the `next` pointers of the nodes on the
waiting threads' stacks, because NotifyAvailable follows `next` of nodes that it has just caused to
be unlinked. A thread may wait on one object twice. The loops over the nodes of a wait, along a list (`Walk`)
and of NotifyAvailable (`NotifyWalk`) are recursive functions of the number of rounds; a list has no more nodes
than there are (`MaxNodes`), and `ListsExact` says that a walk is over by then.

**KConditionVariable.** User code (the mutex of the guest's library) is part of the model and marked
external: it takes the word with compare-and-swap and calls the kernel with the handle it read.
Threads may exit while they own the mutex (`Deserters`), their handles be closed and their objects
finalized.

**KPriorityInheritance.** The two locks above leave open which waiter is first; this module models
that choice: trees as sequences ordered by the code's comparators, RestorePriority along the chain
of owners, cyclic chains included, since owners come from user memory. SetBasePriority may also be called
on a thread that is to terminate.

**KAddressArbiter** extends it: the waiters of an address are in a tree of the same type and change
their priority while they are in it. Each call is one step with its effect on the word, which wraps
at `WordWidth` bits; user code stores anything to the word at any time. The run of both is
KPriorityInheritance.

**KPriorityQueue** has the queues as operators on a record of scheduling data: a list per priority
becomes one sequence ordered by priority, and a search through a queue is the first of its positions with
a property (`FirstWith`). **KScheduler** is the state machine on top. What happens under
the scheduler lock is one step; the stores of `highest_priority_thread` and `needs_scheduling` of the
other cores, the interrupts after the release, and each access of the switch fiber (`try`, `check`,
`reload`) are steps of their own. A host thread (dummy thread) is in no queue and sleeps on its own
condition. SetCoreMask and SetActivity retry, and FinishTermination visits the cores one by one, as the
code does: SetCoreMask looks no further than the first core that has the thread (`FoundOn`), SetActivity
retries while any core has it (`MustRetry`). A thread that is to terminate can still be paused, unless it was
suspended when its end was asked for (`barred`, the suspensions RequestTerminate no longer allows). The threads have been
started, so RequestTerminate of an initialized thread, which ends it at once, is not there. Each core has its own
priority for preemption, as in `preemption_priorities`.

**KHardwareTimer** and **CoreTiming** model the two timers. KHardwareTimer takes from CoreTiming
that an event runs once after its time, possibly after UnscheduleEvent without waiting (`popped`);
CoreTiming checks what that rests on (`NoMissedEvent`, `StoppedIsQuiet`). The timer thread reads `paused` and
stores `paused_set` in two steps (`LoopPauses`, `NotePause`), since SyncPause runs between them. The test at the head of
SyncPause and the store that follows it are one step: only SyncPause stores `paused`, and one thread calls it at a time. The
branch of Advance for an event whose type is gone (`core/core_timing.cpp:207`) is left out: every owner unschedules
its type before it drops it (`k_hardware_timer.cpp:21`, `core/hle/service/vi/conductor.cpp:47`,
`audio_core/device/device_session.cpp:79`, `hid_core/resource_manager.cpp:86`), and ClearPendingEvents
empties the queue (`core/core.cpp:438`) before the kernel drops its own.

**KHandleTable.** Entries, and `info` as the union the code uses: linear id of a used entry, next
index of a free one. `issued` is a history variable: the object each open handle was issued for. `held` has
the references that threads have opened and not closed.

**KServerSession.** Clients, server threads and both closing ends. The state of `KSession` is read
and written in separate steps, as the code does. Message translation is left out; that it can fail
is `ReceiveFails`. EndWait and CancelWait of a client do something only while it waits (`WaitEnded`). Requests are numbered in the order they are sent; `MaxRequests` bounds their number.

**KResourceLimit.** Counters of `Width` bits, so that sums overflow. A thread that terminates keeps
`m_lock` and retries (`Spin`), as the light condition variable makes it do. `m_lock` is a lock here: a thread takes it
when it is free. By the first finding below this is not so of a thread terminated while it waits for `m_lock`,
which goes on without it; `Accounted` and `NoLostRelease` rest on that not happening.

**Mutex.** One holder; acquire, release, hand-over. Both refinement mappings take the holder from the
word (the tag, the mutex word) and make the threads inside an acquiring call those who ask for it.

## 3. Runs

Every passing run finishes without error; deadlock is checked except where the system may stop (threads
that exit, sessions that end, a timer with nothing to do). Run a configuration with
`tlc -config X.cfg MCX`.

| run | instance | distinct states | what it shows |
|---|---|---|---|
| KLightLock | 3 threads, of which t1 locks twice, two kinds of suspension, t1 may be terminated when it does not wait | 237,376 | mutual exclusion, no lost wakeup, exact kernel-waiter counts, an owner with waiters is held back only by a Resume of one of two kinds, the lock implements `Mutex`, a queued thread gets the lock unless an owner is so held back |
| KLightLockTerminate | 3 threads, 2 locks each, any waiter may be terminated | violation | see findings |
| KSynchronizationObject | 3 threads, 2 events, waits on up to 2 | 64,560 | lists hold exactly the waiting threads, nobody waits on a signaled object, a wait leaves no timer or cancellation behind |
| KConditionVariable | 3 threads, 2 calls each, exits anywhere, ExitProcess | 166,848 | `Mutex` is implemented, queued threads are linked to the owner the word names and are served, one tree per thread, the flag announces waiters |
| KConditionVariableFinalize | t1 may exit inside the mutex | violation | see findings |
| KPriorityInheritance | 3 threads, 2 locks, 1 condition-variable key, 1 arbiter word of 2 bits, 2 priorities and that of a terminating thread | 29,676 | trees stay ordered under every change of priority, no priority inversion along chains of locks, the word that a signal leaves tells who still waits |
| KHardwareTimer | 3 tasks, times to 4 | 3,770 | the timer is armed for every task, callbacks in flight included, exactly the timed waits have tasks and the next task is the first, every timed wait ends |
| CoreTiming | 2 types, 2 users, 3 calls, 2 pauses, times to 1 | 1,583,761 | no event is slept past, unscheduling is complete when it returns, no erased handle is used, SyncPause is not left spinning |
| KHandleTable | 2 threads, 2 objects, 3 entries, ids to 3, 6 allocations | 241,548 | free list sound, a handle resolves exactly while it is open, reference counts exact |
| KServerSession | 2 clients, of which c1 may be terminated, 2 server threads, 2 requests in all | 51,211 | requests are not lost, answered twice or freed early; every synchronous call returns, also when ends close |
| KResourceLimit | 3 threads, 3-bit counters, amounts 1 and 3 | 54,213 | counters exact and within the limit, no lost release, Reserve returns |
| KScheduler | 2 threads, 2 cores, 1 host thread, 1 change of priority or mask or end of a thread, pauses without bound | 346,021 | a thread is on one core at a time, who waits or has been stopped does not run, no core misses a change of its thread, queues exact, the highest priority threads are the right ones, a termination completes unless the thread is paused after it or kept off its cores |

**Bounds.** Three threads are the least that show a lock handed over with somebody left behind, the
case both locks must get right; a second call lets a thread come back and take a tag that another has seen before. Two objects and two nodes
are enough for a list with a thread in it twice. The hardware timer needs two tasks of different
times and a third that comes between. The handle table's linear ids wrap after three, so that an
entry is used again with the same id; six allocations fill the table, empty it and wrap. Two cores and
two threads of which one may run on both are the least with a migration, a switch of one core to a
thread that the other still holds, and an interrupt that crosses another; the host releases the lock
as a third party. A word of two bits wraps in each of the sums the arbiter computes. Counters of three bits overflow at 4 = 1 + 3. Two users, two
types and three calls cover an event unscheduled and scheduled again during its callback. Every
bound is a constant of its module; the proofs below do not depend on their values.

**Symmetry** is used in runs without liveness properties.

**Fairness.** KLightLock: a thread that is not suspended goes on, as the scheduler runs runnable
threads; nobody is assumed to lift a suspension. KConditionVariable: a thread inside a mutex call
goes on and one that holds the mutex frees it; nothing is assumed of signals and timers.
KHardwareTimer: the clock advances and the timer thread runs. KServerSession: clients return, server
threads keep receiving and replying, and end their waits on a session that their process has closed (a
thread in a wait keeps the session alive, so that it is not destroyed before); strong fairness where
`m_lock` is taken, because the light lock is handed to its waiters, as KLightLock shows. Wait
time-outs are not assumed. KResourceLimit: the timer fires; strong fairness for taking `m_lock`
again. KScheduler: a core goes on with its loop, its switch and the release of the lock; a host thread
that is awake goes on; the worker that runs FinishTermination runs; strong fairness of each core for taking the scheduler lock, by a call
that retries or a thread that ends (`AsksForLock` is when it could), a host mutex that is taken to be granted in the end. Guest code is not assumed to make calls.
New calls, terminations and changes of limits are never assumed to happen.

**Findings.** Two runs state what the code says of itself and fail:

* `KLightLockTerminate`: a thread terminated in LockSlowPath returns from Lock as if it owned the lock,
  against the assertion `IsLockedByCurrentThread()` of the lock's users; its Unlock then frees the
  lock of the real owner.
* `KConditionVariableFinalize`: Finalize of a thread that still has waiters clears their lock owner
  before it cancels their waits, and CancelWait of the WaitForAddress queue dereferences it.

More limits were met while modelling. The properties are stated so that they say what the code does:

* Resume of one of two kinds of suspension sets the remaining suspend bit on a lock owner that has kernel
  waiters, since it updates the state without the check that RequestSuspend makes (`k_thread.cpp:761-770`).
  The run reaches it; `OwnerKeptRunning` says that no other step does it and that the next waiter lifts it, and
  `WaiterGetsLock` exempts it.
* SyncPause(true) may return with the timer thread running, though the declaration says that it "waits until
  paused" (`core/core_timing.h:84`). The timer thread reads `paused`; SyncPause(false) finds `paused_set` still
  false and returns; the timer thread then stores `paused_set = true`, and a SyncPause(true) that comes while it goes
  on returns on that. `StoppedIsQuiet` is therefore about UnscheduleEvent only.
* SetCoreMask stops its search at the first core that has the thread (`k_thread.cpp:688-694`). With three cores
  that may be one in the mask which is about to switch away, while the thread runs on one outside of it.
  `ReturnMeansStopped` is therefore about SetActivity and FinishTermination.
* A thread that is to terminate can be paused afterwards (`k_thread.cpp:842-853` does not ask) and then does
  not come to its end before it is resumed; so can threads of higher priority keep it off. `TerminationCompletes`
  exempts both.
* `SetLimitValue` wakes nobody, so `NoLostRelease` leaves out threads that waited when a limit changed.

## 4. Proofs

Eight modules hold theorems, checked by `tlapm` for every value of the constants: any sets of threads,
objects, clients or cores, every size of a table and every width of a counter. Assumptions on
constants are the `ASSUME`s of the component modules: a null pointer is no thread, bounds are natural
numbers, a host is no core and no guest thread, masks are not empty, what is reserved fits a counter, and for KLightLock and
KSynchronizationObject the threads are finitely many (waiters are counted, and a walk along a list ends). LockProofs
extends two components and WaitProofs three, which is why the names of the specifications of KResourceLimit,
KHardwareTimer and KSynchronizationObject begin with `Limit`, `Timer` and `Sync`. The invariants are inductive strengthenings of what the runs check.

**LockProofs, the light lock.** `LockedByHolder` and `NoLostWakeup` are not inductive alone. `IndInv` adds
`Ownership`, which ties the three places that know of a wait together: a thread waits exactly if it
has a lock owner, the owner holds the lock, the tag has its waiters bit whenever somebody is queued on
the thread it names, and a thread on its way to the slow path carries a tag with an owner and the
waiters bit. With the count invariant and `SuspendBits` it is preserved by every step, cancelled
waits included (`IndInvHolds`, `TypeCorrect`, `WaiterCountsCorrect`). `ExclusiveInv`, every waiter
queued on the thread in the tag, needs that no thread is terminated while it waits
(`CancelsWaits = FALSE`); from it follow `MutualExclusion`, `WakeupNotLost` and the refinement
`LightLockIsMutex`; the run KLightLockTerminate shows that the hypothesis is needed. `OwnerRuns`, the action
property `OwnerKeptRunning` for any kinds of suspension, uses `SuspendBits`: a thread that is not asked to be suspended has no
suspend bit, so that nothing is left to lift when a waiter joins.

**LockProofs, the resource limit.** `AccountInv` keeps the hint of every thread at most what it has reserved; a sum that
WrappingAdd did not overflow is the sum (`NoOverflow`), so `CountersExact` holds for every width.
`WaitInv` adds that `m_waiter_count` is the number of threads between the start of their wait and the next
round of the loop; a release that finds it zero has therefore nobody to wake (`ReleaseNotLost`).

**KConditionVariableProofs.** `IndInv`, for threads that exit and are finalized in any way, is the
conjunction of the safety properties with one addition: a free word has no waiters bit. The link
between word, lock owner and waiters is preserved because SignalToAddress writes the word in the same
section in which it moves the waiters. It gives `MutualExclusion`, `WakeupNotLost`, `TreeNodeShared`
and `FlagCorrect`. `OwnerInv`,
that the word names a thread inside the mutex or one that exited there, adds the refinement `UserMutexIsMutex`, whatever
threads exit or are terminated. `OrderlyInv`, that the word names no thread that has exited,
holds when threads do not exit inside the mutex and the process does not end, and gives `FinalizeSafe`; the
run KConditionVariableFinalize shows that the hypothesis is needed.

**WaitProofs, waits on objects.** `SyncInv` says that the lists, followed from the head, are chains of distinct
nodes that end at the tail (`Chained`), each with exactly the nodes of the threads that wait on its object
(`Lists`). Linking a node adds it at the end (`LinkLists`); unlinking one closes the gap and changes one pointer only, which
led to the node and now leads to the one behind it (`UnlinkLists`, `Bypasses`). The hard part is the walk of
NotifyAvailable, which reads `next` of nodes that are no longer linked, when ending the wait of one thread has
unlinked several. `Order` is what survives: relative to the chain as it was when the walk began, every pointer leads
forward, past nodes of threads whose waits have ended only (`BypassKeepsOrder`). Each round therefore moves on
(`RoundWalks`), after `MaxNodes` rounds the walk is at its end, and every thread of the chain has been woken
(`WalkNotifiesAll`). What the recursive functions compute is shown by well-founded minimum: the first round at which
it were otherwise. It gives `SyncListsExact`, `SyncNoWaiterOnSignaled` and `SyncNothingLeftBehind`.

**WaitProofs, the hardware timer.** The four state properties are inductive together: the time the timer is
armed for covers all tasks only because `nextTask` is the first, and a task can be inserted only
because it was not in the tree. It gives `TimerTypes`, `NoStaleTask` (`TasksExact`) and `TimerAlwaysArmed`.

**WaitProofs, the host timer.** `PauseInv` follows the two events that SyncPause sets: a timer thread that has not come
back to its loop has the signal that brings it there (`SpinnerServed`). `QueueInv` is about the events: `NoMissedEvent`
is inductive once the queue is known to hold times (`TimesInv`), since whoever puts an event before the time the
timer thread sleeps until is on its way to set the signal (`NoEventMissed`). `QuietInv` adds to
`HandleValid` what a waiting UnscheduleEvent relies on (`Leaving`): no event of its type is queued, and a callback
that runs does not queue one again, unless somebody else has scheduled the type since. It gives
`StopsAreComplete` and `NoErasedHandle`. The heap is a set of events with the code's order, so that its top is a
minimum.

**The scheduler** has four modules. KSchedulerContract defines `DataContract`: for each handler that runs under the
scheduler lock, what it does to the scheduler's data. KSchedulerDataProofs proves it (`HandlersKeepContract`)
from the definitions of the handlers and the queues. KSchedulerStepProofs proves, from the contract alone, that every step
of every core, thread and host keeps the invariants. KSchedulerProofs puts the two together, so that none of its
theorems depends on the contract as an assumption.

Two theorems use nothing of what UpdateHighestPriorityThreads computes, so they hold
whichever threads it chooses. `ContextInv`: a core that executes a thread has locked its context guard, so
has one that has just switched, and a guard is locked by one core; hence `ThreadOnOneCore`. `RescheduleInv`
follows a change of `highest` until its core hears of it: a core that is still to look at its flag finds it
set or is interrupted later, and one that switches goes to the highest priority thread or has been
interrupted since it read it; hence `RescheduleNotLost`.

The four others are about what is computed under the lock, and go in four stages, the first three in KSchedulerDataProofs.

1. *Queues.* A queue is a sequence without repetition, ordered by priority. Each operation of
   KPriorityQueue is shown to take such queues to such queues and to add or remove exactly its thread.
   `Exact(d, R)` says that the queues of the data `d` hold the threads `R` where they belong. Because a search is
   the first of a set of positions, a minimum of natural numbers, no induction over sequences is needed.
2. *The choice.* UpdateHighestPriorityThreads goes over the cores twice; what is true before a round of the loop
   is true after it (a recursive function on `0 .. NumCores`, by well-founded minimum: the first round at
   which it were false). Every thread it picks or moves may run where it goes (`May`), the last store of a core is
   the front of its queue, and a core that stays idle has nobody to take (`Conserving`).
3. *The handlers.* `Good` is what Unlock relies on: the queues are exact, and unless an update is called for the
   highest priority threads are right. Each of wait, wake, the three yields, preemption, SetBasePriority,
   SetCoreMask, SetActivity, Exit and RequestTerminate leaves `Good` data, and only does what `Permits`
   allows: it bars a thread from a core only if it is its own thread, or if that core neither has it nor may get it.
4. *Between the steps.* `SchedInv` is the inductive invariant. `StoreInv`: the queues are exact, and each
   core's stored thread is right or a store that makes it so is still to come, of the one actor that has the
   lock. `OffInv`: a core has no thread that is barred from it, and does not go to one without its flag set;
   `ChosenInv` adds that a core has its highest priority thread unless its flag is, or is about to be, set.
   `StopInv` and `EndInv` are the two halves of `ReturnMeansStopped`; the second needs that
   the context of a thread which has exited stays locked, so that no switch can succeed.

They give `QueuesStayExact`, `BestIsChosen`, `BlockedNeverRuns` and `StoppedStaysStopped`. In
`BestIsChosen` (`HighestIsBest`) the hypothesis that no core is to run a thread above the migration priority
is needed: an idle core takes no thread that queues behind such a one, and does not look at the suggested threads
after it either, whatever core they are on, since the code's `break` ends the search there.

**KHandleTableProofs.** `TableInv` gives every free entry a rank, the number of entries after it in the free
list. Taking the first entry and putting one back keep the ranks (`TakeFirst`, `PutFirst`), so that the
list is exact (`FreeListExact`) without induction over it; reservations are apart from it, and a used entry
carries the id of the one open handle it has (`HandlesResolve`). `RefInv` counts the references of an object
as the elements of a set, the entries that hold it and the pairs of a thread and a number, and each
action adds or removes an element (`ReferencesCounted`).

**KServerSessionProofs.** The invariant has two layers. `PlaceInv`: `m_lock` keeps all but one thread from
moving requests, so each is in one place: the list, the current request, or the hands of a server
thread or of a closing end. `CallInv` relates these places to the calls of the clients: a client waits for
the one request of its that is somewhere. They give `CallsAreServed`, `RepliesAreSingle` and
`RequestsCounted`, also when a client is terminated and both ends are closed at once.

Leaves are proved by Zenon; those with arithmetic, records or sequences cite the SMT solver.

Only model-checked:

* all liveness properties: they need fairness, which the prover does not handle;
* `TreesOrdered`, `NoInversion` and `WordTellsWaiters` of KPriorityInheritance and KAddressArbiter: priorities
  are inherited along chains of owners, which a recursive operator follows.

## 5. Correctness properties by component

What each part must guarantee, and where it stands:

* light lock: one holder (proved), wakeups not lost (proved), progress (checked), suspension of owners
  (proved: only a Resume of one of several kinds holds one back);
* waits on objects: exact lists, nobody left waiting on a signalled object, no leaked timer or cancellation (proved);
* user mutex and condition variable: as the light lock, and the user-visible flag (proved), progress of
  queued threads (checked);
* priorities: order of trees and absence of inversion (checked);
* address arbiter: the new value of the word matches the waiters that are left, at the ends of its range
  too, and they are woken in order (checked);
* timers: armed, no stale task (proved), every sleep ends (checked), nothing missed, nothing of a type after it
  is unscheduled (proved), pausing is answered (proved);
* handles: free list, resolution, reference counts (proved);
* sessions: every request answered at most once and counted exactly, no waiting client without a request
  (proved), calls return (checked);
* resource limits: accounting with overflow, no lost release (proved), Reserve returns (checked);
* scheduler: a thread runs on at most one core, no change of a core's thread is missed, queues and choice of
  threads, waiting, paused and ended threads stay off (proved); terminations complete (checked).

## 6. Not modelled, and why

* *Processes.* The end of each thread is in KScheduler, and ExitProcess as the threads inside a mutex see
  it in KConditionVariable. The life cycle of the process itself joins the handle table, the threads
  and a worker thread, whose states multiply.
* *Ports.* The session counter of a port is taken by a compare-and-swap before a session exists and is given
  back when both ends of the session are gone, through the reference counts. Without KHandleTable and
  KServerSession its counts say little, and the product with both is out of reach of model checking.
* *Service loop* (`hle/service/server_manager.cpp`). What KServerSession assumes of a server (it receives,
  handles and replies) is the part of it that the kernel sees.
* *Composition of the timers.* KHardwareTimer on top of CoreTiming is done by contract: what one assumes
  (an event runs once after its time, and not after a waiting UnscheduleEvent) the other checks.
* *User protocols of the arbiter.* They are in the guest's libraries; an arbitrary store stands for them.
* *Memory management, containers.* Sequential algorithms over addresses and nodes, under one lock.
* *Graphics queues, syncpoints, audio, multiplayer.* What they wait for comes from the GPU engines, the host's
  audio callbacks or an external network library.
* *Recompilers, renderers, codecs, input, frontends, loaders, services.* Computation on data, devices,
  or command tables that run one request at a time.

## 7. What the models leave out

Contents of messages and memory; failures of access to user memory (the words of a mutex and of a
condition variable are taken to be mapped for as long as they are used); the debug-only and
single-core modes; the order of equal priorities in the two lock modules (KPriorityInheritance has
it); real time apart from its order; weak memory, since the words
concerned are accessed with sequentially consistent or acquire/release operations or under a lock.
