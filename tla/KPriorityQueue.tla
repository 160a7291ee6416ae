--------------------------- MODULE KPriorityQueue ---------------------------
(***************************************************************************)
(* The scheduler's priority queue.  Each core has a scheduled queue, of    *)
(* the runnable threads whose active core it is, and a suggested queue, of *)
(* the runnable threads that could be moved to it.                         *)
(*                                                                         *)
(* A queue of the code is a list per priority and a bit set of the         *)
(* priorities in use.  Here it is one sequence, ordered by priority and,   *)
(* within a priority, as the list is.  An operation takes the scheduling   *)
(* data q to the scheduling data that it leaves.                           *)
(***************************************************************************)
EXTENDS Integers, Sequences

CONSTANTS
    Threads,
    NumCores,
    Null        \* no thread

ASSUME NumCoresAssumption == NumCores \in Nat
ASSUME NullAssumption == Null \notin Threads

Cores == 0 .. NumCores - 1

\* The active core of a thread that has given up its core.
NoCore == -1

\* What a loop over the cores makes of r, with the body op.
ForEachCore(op(_, _), r) ==
    LET at[n \in 0 .. NumCores] == IF n = 0 THEN r ELSE op(at[n - 1], n - 1)
    IN at[NumCores]

Members(s) == {s[i] : i \in DOMAIN s}

FirstOf(s) == IF s = <<>> THEN Null ELSE s[1]

\* The first of the positions I of s, or the end of s if there is none.
FirstPosition(s, I) == CHOOSE k \in I \cup {Len(s) + 1} : \A i \in I : k <= i

\* What a search through s finds that stops at one of the positions I.
FirstAt(s, I) == IF I = {} THEN Null ELSE s[FirstPosition(s, I)]

FirstWith(s, P(_)) == FirstAt(s, {i \in DOMAIN s : P(s[i])})

\* GetFront of one priority.
FirstOfPriority(q, s, p) == FirstWith(s, LAMBDA u : q.prio[u] = p)

\* GetNext: the next of the same priority, or the front of the next priority.
NextIn(s, t) ==
    LET k == FirstPosition(s, {i \in DOMAIN s : s[i] = t})
    IN IF k + 1 \in DOMAIN s THEN s[k + 1] ELSE Null

InsertBefore(s, k, t) ==
    [i \in 1 .. Len(s) + 1 |-> IF i < k THEN s[i] ELSE IF i = k THEN t ELSE s[i - 1]]

AtBack(q, s, t) ==
    InsertBefore(s, FirstPosition(s, {i \in DOMAIN s : q.prio[s[i]] > q.prio[t]}), t)

AtFront(q, s, t) ==
    InsertBefore(s, FirstPosition(s, {i \in DOMAIN s : q.prio[s[i]] >= q.prio[t]}), t)

Without(s, t) ==
    LET k == FirstPosition(s, {i \in DOMAIN s : s[i] = t})
    IN IF t \in Members(s) THEN [i \in 1 .. Len(s) - 1 |-> IF i < k THEN s[i] ELSE s[i + 1]] ELSE s
-----------------------------------------------------------------------------
\* The cores that t is suggested to: those of its mask, but for its own.
Suggestions(q, t) == q.aff[t] \ {q.core[t]}

Suggested(q, t) ==
    [c \in Cores |-> IF c \in Suggestions(q, t) THEN AtBack(q, q.sugg[c], t) ELSE q.sugg[c]]

PushBack(q, t) ==
    [q EXCEPT !.sched = [c \in Cores |-> IF c = q.core[t] THEN AtBack(q, q.sched[c], t) ELSE q.sched[c]],
              !.sugg = Suggested(q, t)]

\* To the front of the scheduled queue, to the back of the suggested ones.
PushFront(q, t) ==
    [q EXCEPT !.sched = [c \in Cores |-> IF c = q.core[t] THEN AtFront(q, q.sched[c], t) ELSE q.sched[c]],
              !.sugg = Suggested(q, t)]

RemoveMember(q, t) ==
    [q EXCEPT !.sched = [c \in Cores |-> IF c = q.core[t] THEN Without(q.sched[c], t) ELSE q.sched[c]],
              !.sugg = [c \in Cores |-> IF c \in Suggestions(q, t) THEN Without(q.sugg[c], t) ELSE q.sugg[c]]]

MoveToScheduledBack(q, t) == [q EXCEPT !.sched[q.core[t]] = AtBack(q, Without(@, t), t)]

\* q has the new priority; the queues are still ordered by the old one.
ChangePriority(q, running, t) ==
    LET out == RemoveMember(q, t)
    IN IF running THEN PushFront(out, t) ELSE PushBack(out, t)

\* q has the new mask and core; the thread leaves the queues of the old ones.
ChangeAffinityMask(q, oldCore, oldAff, t) ==
    LET sched == [c \in Cores |-> IF c \in oldAff /\ c = oldCore
                                  THEN Without(q.sched[c], t) ELSE q.sched[c]]
        sugg == [c \in Cores |-> IF c \in oldAff /\ c # oldCore
                                 THEN Without(q.sugg[c], t) ELSE q.sugg[c]]
    IN [q EXCEPT !.sched = [c \in Cores |-> IF c \in q.aff[t] /\ c = q.core[t]
                                            THEN AtBack(q, sched[c], t) ELSE sched[c]],
                 !.sugg = [c \in Cores |-> IF c \in Suggestions(q, t)
                                           THEN AtBack(q, sugg[c], t) ELSE sugg[c]]]

\* Mutant: a thread that gives up its core is not suggested to it.
ChangeCoreForgets(q, t, core, toFront) ==
    LET old == q.core[t]
        Place(s) == IF toFront THEN AtFront(q, s, t) ELSE AtBack(q, s, t)
    IN IF old = core THEN q
       ELSE [q EXCEPT
                !.core[t] = core,
                !.sched = [c \in Cores |-> CASE c = old -> Without(q.sched[c], t)
                                             [] c = core -> Place(q.sched[c])
                                             [] OTHER -> q.sched[c]],
                !.sugg = [c \in Cores |-> CASE c = core -> Without(q.sugg[c], t)
                                            [] c = old /\ core # NoCore -> AtBack(q, q.sugg[c], t)
                                            [] OTHER -> q.sugg[c]]]

\* SetActiveCore and ChangeCore: t leaves its core for core.
ChangeCore(q, t, core, toFront) ==
    LET old == q.core[t]
        Place(s) == IF toFront THEN AtFront(q, s, t) ELSE AtBack(q, s, t)
    IN IF old = core THEN q
       ELSE [q EXCEPT
                !.core[t] = core,
                !.sched = [c \in Cores |-> CASE c = old -> Without(q.sched[c], t)
                                             [] c = core -> Place(q.sched[c])
                                             [] OTHER -> q.sched[c]],
                !.sugg = [c \in Cores |-> CASE c = core -> Without(q.sugg[c], t)
                                            [] c = old -> AtBack(q, q.sugg[c], t)
                                            [] OTHER -> q.sugg[c]]]
=============================================================================
