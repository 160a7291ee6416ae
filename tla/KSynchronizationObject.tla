----------------------- MODULE KSynchronizationObject -----------------------
(***************************************************************************)
(* KSynchronizationObject::Wait on several objects at once, the intrusive  *)
(* list of waiting nodes each object keeps, and the ways a wait ends: an   *)
(* object is signalled, the timer expires, the wait is cancelled, the      *)
(* thread is terminated.  The objects are readable events.                 *)
(*                                                                         *)
(* Every operation runs under the scheduler lock, so it is one step.  The  *)
(* list is modelled with its pointers: NotifyAvailable walks through nodes *)
(* that the walk itself unlinks.                                           *)
(***************************************************************************)
EXTENDS Integers, Sequences, FiniteSets

CONSTANTS
    Threads,        \* the threads that wait
    Objects,        \* the readable events
    MaxObjects,     \* bound on num_objects (the code's is 64)
    NoNode          \* the null ThreadListNode pointer

VARIABLES
    signaled,       \* m_is_signaled of each event
    list,           \* m_thread_list_head, m_thread_list_tail and the nodes' next
    thread          \* what KThread keeps of a wait

syncVars == <<signaled, list, thread>>

\* thread_nodes[i] of the wait of thread t; it lives on the stack of t.
Node == Threads \X (1 .. MaxObjects)
ObjectLists == UNION {[1 .. n -> Objects] : n \in 0 .. MaxObjects}
Timeouts == {"zero", "positive", "infinite"}

ASSUME NodesAssumption == IsFiniteSet(Threads) /\ MaxObjects \in Nat /\ NoNode \notin Node

\* index 0 stands for the synced index -1, and index i for i - 1.
ThreadInit ==
    [state |-> "Runnable", objects |-> <<>>, result |-> "Success", index |-> 0,
     timer |-> FALSE, cancellable |-> FALSE, waitCancelled |-> FALSE, terminating |-> FALSE]

SyncInit ==
    /\ signaled = [o \in Objects |-> FALSE]
    /\ list = [head |-> [o \in Objects |-> NoNode],
               tail |-> [o \in Objects |-> NoNode],
               next |-> [n \in Node |-> NoNode]]
    /\ thread = [t \in Threads |-> ThreadInit]
-----------------------------------------------------------------------------
(* The list of an object.                                                  *)

LinkNode(l, o, n) ==
    LET last == l.tail[o]
        cleared == [l.next EXCEPT ![n] = NoNode]
    IN [head |-> IF last = NoNode THEN [l.head EXCEPT ![o] = n] ELSE l.head,
        next |-> IF last = NoNode THEN cleared ELSE [cleared EXCEPT ![last] = n],
        tail |-> [l.tail EXCEPT ![o] = n]]

\* The nodes on the stacks of threads that have left Wait are no more.
WithoutDeadNodes(l, th) ==
    [l EXCEPT !.next = [n \in Node |->
                            IF th[n[1]].state = "Waiting" THEN l.next[n] ELSE NoNode]]

\* A list has no more nodes than there are.
MaxNodes == Cardinality(Node)

\* Where a walk along the list of o is after each number of steps.
Walk(l, o) ==
    LET at[i \in 0 .. MaxNodes] ==
            IF i = 0 THEN l.head[o]
            ELSE LET n == at[i - 1] IN IF n = NoNode THEN NoNode ELSE l.next[n]
    IN at

\* The number of steps to node n, which is linked (ListsExact).
StepsTo(at, n) == CHOOSE i \in DOMAIN at : at[i] = n /\ \A j \in 0 .. i - 1 : at[j] # n

\* Mutant: the tail is left on the removed node.
UnlinkNodeKeepsTail(l, o, n) ==
    LET at == Walk(l, o)
        i == StepsTo(at, n)
    IN IF i = 0 THEN [l EXCEPT !.head[o] = l.next[n]] ELSE [l EXCEPT !.next[at[i - 1]] = l.next[n]]
UnlinkNode(l, o, n) ==
    LET at == Walk(l, o)
        i == StepsTo(at, n)
        tailPrev == IF i = 0 THEN NoNode ELSE at[i - 1]
    IN [head |-> IF i = 0 THEN [l.head EXCEPT ![o] = l.next[n]] ELSE l.head,
        next |-> IF i = 0 THEN l.next ELSE [l.next EXCEPT ![at[i - 1]] = l.next[n]],
        tail |-> IF l.tail[o] = n THEN [l.tail EXCEPT ![o] = tailPrev] ELSE l.tail]

LinkAll(l, t, objects) ==
    LET at[i \in 0 .. Len(objects)] ==
            IF i = 0 THEN l ELSE LinkNode(at[i - 1], objects[i], <<t, i>>)
    IN at[Len(objects)]

UnlinkAll(l, t, objects) ==
    LET at[i \in 0 .. Len(objects)] ==
            IF i = 0 THEN l ELSE UnlinkNode(at[i - 1], objects[i], <<t, i>>)
    IN at[Len(objects)]
-----------------------------------------------------------------------------
(* The wait queue: what ends a wait.                                       *)

\* Mutant: the timer task survives a wait that an object ended.
EndedWithTimer(th, result, index) ==
    [th EXCEPT !.state = "Runnable", !.result = result, !.index = index,
               !.cancellable = FALSE, !.objects = <<>>]
\* The base EndWait and CancelWait, with the timer task cancelled.
Ended(th, result, index) ==
    [th EXCEPT !.state = "Runnable", !.result = result, !.index = index,
               !.cancellable = FALSE, !.timer = FALSE, !.objects = <<>>]

SyncIndex(objects, o) ==
    CHOOSE i \in DOMAIN objects :
        objects[i] = o /\ \A j \in DOMAIN objects : objects[j] = o => i <= j

\* s has the lists, the threads and the node of the walk as it has left them.
NotifyThread(s, t, o) ==
    LET th == s.thread[t]
    IN IF th.state # "Waiting" THEN s
       ELSE [s EXCEPT !.list = UnlinkAll(s.list, t, th.objects),
                      !.thread[t] = Ended(th, "Success", SyncIndex(th.objects, o))]

NotifyRound(s, o) ==
    IF s.node = NoNode THEN s
    ELSE LET after == NotifyThread(s, s.node[1], o)
         IN [after EXCEPT !.node = after.list.next[s.node]]

\* Mutant: only the thread at the head is notified.
NotifyWalkFirst(s, o) == NotifyRound(s, o)
\* The walk is over after as many rounds as a list has nodes, if not before.
NotifyWalk(s, o) ==
    LET at[i \in 0 .. MaxNodes] == IF i = 0 THEN s ELSE NotifyRound(at[i - 1], o)
    IN at[MaxNodes]

\* The thread record is given: the callers change it further.
CancelWait(t, th) ==
    /\ thread' = [thread EXCEPT ![t] = th]
    /\ list' = WithoutDeadNodes(UnlinkAll(list, t, thread[t].objects), thread')
-----------------------------------------------------------------------------
(* The operations.                                                         *)

CancelledEarlier(t) == thread[t].waitCancelled

\* Wait returns at once: its checks, in the order of the code.
WaitReturns(t, objects, timeout) ==
    LET ready == {i \in DOMAIN objects : signaled[objects[i]]}
        first == CHOOSE i \in ready : \A j \in ready : i <= j
        Return(result, index) ==
            thread' = [thread EXCEPT ![t].result = result, ![t].index = index]
    IN /\ thread[t].state = "Runnable"
       /\ IF thread[t].terminating THEN Return("TerminationRequested", 0)
          ELSE IF ready # {} THEN Return("Success", first)
          ELSE IF timeout = "zero" THEN Return("TimedOut", 0)
          ELSE /\ CancelledEarlier(t)
               /\ thread' = [thread EXCEPT ![t].result = "Cancelled", ![t].index = 0,
                                           ![t].waitCancelled = FALSE]
       /\ UNCHANGED <<signaled, list>>

\* Wait blocks: the nodes are linked, the timer task is registered.
WaitBlocks(t, objects, timeout) ==
    /\ thread[t].state = "Runnable" /\ ~thread[t].terminating
    /\ \A i \in DOMAIN objects : ~signaled[objects[i]]
    /\ timeout # "zero" /\ ~CancelledEarlier(t)
    /\ list' = LinkAll(list, t, objects)
    /\ thread' = [thread EXCEPT ![t].state = "Waiting", ![t].objects = objects,
                                ![t].cancellable = TRUE, ![t].index = 0,
                                ![t].timer = (timeout = "positive")]
    /\ UNCHANGED signaled

\* KReadableEvent::Signal and the NotifyAvailable it makes.
Signal(o) ==
    /\ ~signaled[o]
    /\ signaled' = [signaled EXCEPT ![o] = TRUE]
    /\ LET s == NotifyWalk([list |-> list, thread |-> thread, node |-> list.head[o]], o)
       IN thread' = s.thread /\ list' = WithoutDeadNodes(s.list, s.thread)

Reset(o) ==
    /\ signaled[o]
    /\ signaled' = [signaled EXCEPT ![o] = FALSE]
    /\ UNCHANGED <<list, thread>>

CancelFlag(t) == ~(thread[t].state = "Waiting" /\ thread[t].cancellable)

\* KThread::WaitCancel: end the wait, or note the cancellation for the next one.
WaitCancel(t) ==
    IF thread[t].state = "Waiting" /\ thread[t].cancellable
    THEN /\ CancelWait(t, [Ended(thread[t], "Cancelled", 0)
                                EXCEPT !.waitCancelled = CancelFlag(t)])
         /\ UNCHANGED signaled
    ELSE /\ thread' = [thread EXCEPT ![t].waitCancelled = CancelFlag(t)]
         /\ UNCHANGED <<signaled, list>>

\* KHardwareTimer removes the task and calls KThread::OnTimer.
OnTimer(t) ==
    /\ thread[t].timer
    /\ IF thread[t].state = "Waiting" THEN CancelWait(t, Ended(thread[t], "TimedOut", 0))
       ELSE thread' = [thread EXCEPT ![t].timer = FALSE] /\ UNCHANGED list
    /\ UNCHANGED signaled

RequestTerminate(t) ==
    /\ ~thread[t].terminating
    /\ IF thread[t].state = "Waiting"
       THEN CancelWait(t, [Ended(thread[t], "TerminationRequested", 0)
                               EXCEPT !.terminating = TRUE])
       ELSE thread' = [thread EXCEPT ![t].terminating = TRUE] /\ UNCHANGED list
    /\ UNCHANGED signaled
-----------------------------------------------------------------------------
SyncNext ==
    \/ \E t \in Threads, objects \in ObjectLists, timeout \in Timeouts :
          WaitReturns(t, objects, timeout) \/ WaitBlocks(t, objects, timeout)
    \/ \E o \in Objects : Signal(o) \/ Reset(o)
    \/ \E t \in Threads : WaitCancel(t) \/ OnTimer(t) \/ RequestTerminate(t)

SyncSpec == SyncInit /\ [][SyncNext]_syncVars
-----------------------------------------------------------------------------
\* The nodes of the threads that wait on object o.
NodesOn(th, o) ==
    {n \in Node : /\ th[n[1]].state = "Waiting" /\ n[2] \in DOMAIN th[n[1]].objects
                  /\ th[n[1]].objects[n[2]] = o}

\* From the head, the list of an object holds exactly the nodes of the threads
\* that wait on it, each once, and ends at the tail: no node of a wait that has
\* returned, which would point into a dead stack frame, stays reachable.
ListsExact ==
    \A o \in Objects :
        LET at == Walk(list, o)
        IN /\ {at[i] : i \in DOMAIN at} \ {NoNode} = NodesOn(thread, o)
           /\ \A i, j \in DOMAIN at : at[i] = at[j] /\ at[i] # NoNode => i = j
           /\ at[MaxNodes] = NoNode
           /\ IF at[0] = NoNode THEN list.tail[o] = NoNode
              ELSE list.tail[o] # NoNode /\ \E i \in 0 .. MaxNodes - 1 :
                                              at[i] = list.tail[o] /\ at[i + 1] = NoNode

\* No thread waits on an object that is signalled: the check before blocking and
\* the walk of NotifyAvailable leave no window, and the walk misses nobody.
NoWaiterOnSignaled ==
    \A t \in Threads : thread[t].state = "Waiting" =>
        \A i \in DOMAIN thread[t].objects : ~signaled[thread[t].objects[i]]

\* However a wait ends, what it registered ends with it: a timer task left behind
\* would time out a later wait, a thread left cancellable would have WaitCancel
\* end a wait that is not, and a cancellation is used up before the thread blocks.
NothingLeftBehind ==
    \A t \in Threads :
        /\ thread[t].timer \/ thread[t].cancellable => thread[t].state = "Waiting"
        /\ thread[t].state = "Waiting" => ~thread[t].waitCancelled
=============================================================================
