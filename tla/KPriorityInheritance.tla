------------------------ MODULE KPriorityInheritance ------------------------
(***************************************************************************)
(* The locks a KThread holds with waiters, the priority it inherits from   *)
(* them, and the two kinds of trees ordered by priority that a change of   *)
(* priority must not disturb: the waiters of a lock and the waiters of the *)
(* condition variables and address arbiters of a process.                  *)
(*                                                                         *)
(* Every operation runs under the scheduler lock and is one step.  The     *)
(* owner of a user lock is whatever thread user memory names, so waits may *)
(* form cycles, and a thread may wait for itself; the waiters of a key have*)
(* one owner, which KLightLock and KConditionVariable show of their locks. *)
(***************************************************************************)
EXTENDS Integers, Sequences, FiniteSets, FiniteSetsExt

CONSTANTS
    Threads, NoThread,
    Keys,                       \* address keys of locks
    CvKeys,                     \* keys of the condition-variable tree, ordered
    Priorities                  \* base priorities; a lower number is more urgent

TerminatingThreadPriority == 0

ASSUME PrioritiesAssumption ==
    /\ Priorities \subseteq Nat \ {TerminatingThreadPriority} /\ CvKeys \subseteq Nat \ {0}
    /\ NoThread \notin Threads

VARIABLES
    base,       \* m_base_priority
    prio,       \* m_priority
    held,       \* m_held_lock_info_list: per key the tree of waiters, <<>> if none
    tree,       \* m_condvar_tree, the threads waiting by condition-variable key
    cvKey,      \* m_condvar_key, which is set again before a thread is in the tree
    terminating \* the threads with m_termination_requested

vars == <<base, prio, held, tree, cvKey, terminating>>

Elements(s) == {s[i] : i \in DOMAIN s}

\* Stands for a key that nobody reads.
NoKey == 0

Init ==
    /\ base \in [Threads -> Priorities]
    /\ prio = base
    /\ held = [t \in Threads |-> [k \in Keys |-> <<>>]]
    /\ tree = <<>>
    /\ cvKey = [t \in Threads |-> NoKey]
    /\ terminating = {}
-----------------------------------------------------------------------------
(* The trees.  The variables as a record s, so that the operations compose. *)

State ==
    [base |-> base, prio |-> prio, held |-> held, tree |-> tree, cvKey |-> cvKey,
     terminating |-> terminating]

\* insert of a tree in which the new element goes after its equals.
InsertBefore(seq, t, Less(_, _)) ==
    SelectSeq(seq, LAMBDA x : ~Less(t, x)) \o <<t>> \o SelectSeq(seq, LAMBDA x : Less(t, x))
Erase(seq, t) == SelectSeq(seq, LAMBDA x : x # t)

\* LockWithPriorityInheritanceComparator and ConditionVariableComparator.
LockInsert(s, seq, t) == InsertBefore(seq, t, LAMBDA x, y : s.prio[x] < s.prio[y])
CvInsert(s, seq, t) ==
    InsertBefore(seq, t, LAMBDA x, y :
        \/ s.cvKey[x] < s.cvKey[y]
        \/ s.cvKey[x] = s.cvKey[y] /\ s.prio[x] < s.prio[y])

\* m_waiting_lock_info of t, as owner and key; {} when it waits on no lock.
WaitingLock(s, t) ==
    {ok \in Threads \X Keys : t \in Elements(s.held[ok[1]][ok[2]])}
LockOwner(s, t) ==
    IF WaitingLock(s, t) = {} THEN NoThread ELSE (CHOOSE ok \in WaitingLock(s, t) : TRUE)[1]

AddWaiterImpl(s, owner, key, t) ==
    [s EXCEPT !.held[owner][key] = LockInsert(s, @, t)]

RemoveWaiterImpl(s, t) ==
    [s EXCEPT !.held = [o \in Threads |-> [k \in Keys |-> Erase(s.held[o][k], t)]]]

\* The priority RestorePriority computes: that of the front waiter of each lock.
InheritedPriority(s, t) ==
    Min({s.base[t]} \cup {s.prio[Head(s.held[t][k])] : k \in {j \in Keys : s.held[t][j] # <<>>}})

\* Mutant: a thread keeps its place in the condition-variable tree.
ReorderedInPlace(s, t, new) == [s EXCEPT !.prio[t] = new]
\* The change of t's priority, with t taken out of the trees it is in and put
\* back.
Reordered(s, t, new) ==
    LET out == [RemoveWaiterImpl(s, t) EXCEPT !.prio[t] = new, !.tree = Erase(@, t)]
        inTree == IF t \in Elements(s.tree) THEN [out EXCEPT !.tree = CvInsert(out, @, t)]
                  ELSE out
    IN IF WaitingLock(s, t) = {} THEN inTree
       ELSE LET ok == CHOOSE ok \in WaitingLock(s, t) : TRUE
            IN AddWaiterImpl(inTree, ok[1], ok[2], t)

\* Mutant: the owner of the lock a thread waits on inherits nothing.
RestorePriorityOnce(s, t) ==
    IF t = NoThread THEN s
    ELSE LET new == InheritedPriority(s, t) IN IF new = s.prio[t] THEN s ELSE Reordered(s, t, new)
RECURSIVE RestorePriorityFrom(_, _)
RestorePriorityFrom(s, t) ==
    IF t = NoThread THEN s
    ELSE LET new == InheritedPriority(s, t)
         IN IF new = s.prio[t] THEN s
            ELSE RestorePriorityFrom(Reordered(s, t, new), LockOwner(s, t))
RestorePriority(s, t) == RestorePriorityFrom(s, t)

AddWaiter(s, owner, key, t) ==
    LET added == AddWaiterImpl(s, owner, key, t)
    IN IF added.prio[t] < added.prio[owner] THEN RestorePriority(added, owner) ELSE added

\* "may need to restore to lower priority": the owner o lost the waiter t.
MayRestore(s, o, t) == s.prio[o] = s.prio[t] /\ s.prio[o] < s.base[o]

RemoveWaiter(s, t) ==
    LET owner == LockOwner(s, t)
        removed == RemoveWaiterImpl(s, t)
    IN IF MayRestore(removed, owner, t) THEN RestorePriority(removed, owner) ELSE removed

\* The front waiter becomes the owner of the lock and of the other waiters.
RemoveWaiterByKey(s, owner, key) ==
    LET next == Head(s.held[owner][key])
        moved == [s EXCEPT !.held[owner][key] = <<>>, !.held[next][key] = Tail(s.held[owner][key])]
    IN IF MayRestore(moved, owner, next) THEN RestorePriority(moved, owner) ELSE moved
-----------------------------------------------------------------------------
(* The operations.                                                         *)

Waiting(t) == WaitingLock(State, t) # {} \/ t \in Elements(tree)

Becomes(next) ==
    \E s \in {next} :
        /\ base' = s.base /\ prio' = s.prio /\ held' = s.held
        /\ tree' = s.tree /\ terminating' = s.terminating
        /\ cvKey' = [t \in Threads |-> IF t \in Elements(s.tree) THEN s.cvKey[t] ELSE NoKey]

\* The thread the lock word of the key may name.
MayOwn(owner, key) == \A o \in Threads \ {owner} : held[o][key] = <<>>

\* KLightLock::LockSlowPath and KConditionVariable::WaitForAddress.
WaitOnLock(t, owner, key) ==
    ~Waiting(t) /\ MayOwn(owner, key) /\ Becomes(AddWaiter(State, owner, key, t))

\* KLightLock::UnlockSlowPath and KConditionVariable::SignalToAddress of an
\* owner whose lock has waiters.
UnlockKey(t, key) ==
    ~Waiting(t) /\ held[t][key] # <<>> /\ Becomes(RemoveWaiterByKey(State, t, key))

\* SetConditionVariable or SetAddressArbiter, and the insertion.
WaitOnKey(t, key) ==
    /\ ~Waiting(t)
    /\ LET s == [State EXCEPT !.cvKey[t] = key]
       IN Becomes([s EXCEPT !.tree = CvInsert(s, @, t)])

\* The waiters of a key in the order Signal meets them, from nfind_key on.
WaitersOfKey(key) == SelectSeq(tree, LAMBDA x : cvKey[x] = key)

\* One round of the loop of Signal: the first waiter of the key is woken, or
\* becomes a waiter of the owner of its mutex.
SignalWakes(key) ==
    /\ WaitersOfKey(key) # <<>>
    /\ Becomes([State EXCEPT !.tree = Erase(@, Head(WaitersOfKey(key)))])

SignalMoves(key, owner, lockKey) ==
    /\ WaitersOfKey(key) # <<>> /\ MayOwn(owner, lockKey)
    /\ LET t == Head(WaitersOfKey(key))
       IN Becomes(AddWaiter([State EXCEPT !.tree = Erase(@, t)], owner, lockKey, t))

\* CancelWait of the wait queues: off the lock, off the tree.
Cancelled(s, t) ==
    LET unlocked == IF WaitingLock(s, t) = {} THEN s ELSE RemoveWaiter(s, t)
    IN [unlocked EXCEPT !.tree = Erase(@, t)]

CancelWait(t) == Waiting(t) /\ Becomes(Cancelled(State, t))

SetBasePriority(t, value) == Becomes(RestorePriority([State EXCEPT !.base[t] = value], t))

\* The first request: IncreaseBasePriority to the priority of a terminating
\* thread, and the wait is cancelled.
RequestTerminate(t) ==
    /\ t \notin terminating
    /\ LET s == [State EXCEPT !.base[t] = TerminatingThreadPriority, !.terminating = @ \cup {t}]
       IN Becomes(Cancelled(RestorePriority(s, t), t))

Next ==
    \/ \E t, owner \in Threads, key \in Keys : WaitOnLock(t, owner, key)
    \/ \E t \in Threads, key \in Keys : UnlockKey(t, key)
    \/ \E t \in Threads, key \in CvKeys : WaitOnKey(t, key)
    \/ \E key \in CvKeys : SignalWakes(key)
    \/ \E key \in CvKeys, owner \in Threads, lockKey \in Keys : SignalMoves(key, owner, lockKey)
    \/ \E t \in Threads : CancelWait(t) \/ RequestTerminate(t)
    \/ \E t \in Threads, value \in Priorities : SetBasePriority(t, value)

Spec == Init /\ [][Next]_vars
-----------------------------------------------------------------------------
\* No operation leaves a tree out of order: the waiters of a lock are sorted by
\* their current priority and the waiters on keys by key and priority, although
\* priorities change while threads are in the trees.
TreesOrdered ==
    /\ \A t \in Threads, k \in Keys : \A i, j \in DOMAIN held[t][k] :
          i < j => prio[held[t][k][i]] <= prio[held[t][k][j]]
    /\ \A i, j \in DOMAIN tree :
          i < j => \/ cvKey[tree[i]] < cvKey[tree[j]]
                   \/ cvKey[tree[i]] = cvKey[tree[j]] /\ prio[tree[i]] <= prio[tree[j]]

\* The threads blocked by t, directly or through other threads: the chain of
\* lock owners from w reaches t.
BlockedBy(t) ==
    {w \in Threads :
        LET chain[n \in 0 .. Cardinality(Threads)] ==
                IF n = 0 THEN w ELSE LockOwner(State, chain[n - 1])
        IN \E n \in 1 .. Cardinality(Threads) : chain[n] = t}

\* No priority inversion: a thread runs at the most urgent base priority of
\* itself and of all the threads it blocks, however long the chain of locks is.
\* In a cycle of waits it is at least that urgent.
NoInversion ==
    LET blocked == [t \in Threads |-> BlockedBy(t)]
    IN \A t \in Threads :
          LET best == Min({base[w] : w \in blocked[t] \cup {t}})
          IN /\ prio[t] <= best
             /\ (\A w \in blocked[t] \cup {t} : w \notin blocked[w]) => prio[t] = best
=============================================================================
