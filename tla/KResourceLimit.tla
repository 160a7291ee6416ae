--------------------------- MODULE KResourceLimit ---------------------------
(***************************************************************************)
(* One resource of a resource limit.  Threads reserve it, waiting on a     *)
(* light condition variable when what is in use is about to be released    *)
(* (the hint), and give it back in one or in two steps, hint first.        *)
(*                                                                         *)
(* Everything between taking and giving up m_lock is one step.  Only a     *)
(* terminating thread keeps m_lock from one step to the next: the          *)
(* condition variable does not let it wait, and it retries until its       *)
(* timeout.                                                                *)
(***************************************************************************)
EXTENDS Integers, FiniteSets

CONSTANTS
    Reservers,  \* the threads that use the resource
    Free,       \* nobody holds m_lock
    Width,      \* bits of the signed counters, 64 in the code
    Amounts     \* the amounts that are reserved, released or set as limit

ASSUME WidthAssumption == Width \in Nat \ {0} /\ 2 ^ (Width - 1) \in Nat \ {0}

MaxS == 2 ^ (Width - 1) - 1
Values == 0 .. MaxS

ASSUME AmountsAssumption == Amounts \subseteq Values

VARIABLES
    limit,          \* m_limit_values
    current,        \* m_current_values
    hint,           \* m_current_hints
    peak,           \* m_peak_values
    waiterCount,    \* m_waiter_count
    lock,           \* the thread that keeps m_lock between two steps
    at,             \* where each thread is in Reserve
    want,           \* the amount it asks for
    expired,        \* whether its timeout has passed
    ending,         \* IsTerminationRequested
    owned,          \* what it has reserved and not released
    ownedHint,      \* what it has reserved and not announced to release
    raised          \* waiting threads that saw the limit change

counters == <<limit, current, hint, peak>>
calls == <<waiterCount, lock, at, want, expired>>
limitVars == <<counters, calls, ending, owned, ownedHint, raised>>

LimitInit ==
    /\ limit = 0 /\ current = 0 /\ hint = 0 /\ peak = 0
    /\ waiterCount = 0 /\ lock = Free
    /\ at = [t \in Reservers |-> "idle"] /\ want = [t \in Reservers |-> 0]
    /\ expired = [t \in Reservers |-> FALSE] /\ ending = [t \in Reservers |-> FALSE]
    /\ owned = [t \in Reservers |-> 0] /\ ownedHint = [t \in Reservers |-> 0]
    /\ raised = {}
-----------------------------------------------------------------------------
(* Reserve.                                                                *)

\* Common::WrappingAdd on signed integers of Width bits.
WrappingAdd(a, b) == ((a + b + MaxS + 1) % (2 * (MaxS + 1))) - (MaxS + 1)

Overflows(v) == WrappingAdd(current, v) <= current

Fits(v) == WrappingAdd(current, v) <= limit

\* Mutant: a thread goes back to wait although its time is up.
WorthWaitingForever(t, v) == hint + v <= limit
WorthWaiting(t, v) == hint + v <= limit /\ ~expired[t]

\* Mutant: the hint is left out.
HintAfterReserveNot(v) == hint
HintAfterReserve(v) == hint + v

Leave(t) ==
    /\ at' = [at EXCEPT ![t] = "idle"]
    /\ expired' = [expired EXCEPT ![t] = FALSE]
    /\ lock' = Free

Uncounted(was) == waiterCount - was

Max2(a, b) == IF a >= b THEN a ELSE b

\* One round of the loop of Reserve, with m_lock held; was is what the thread
\* had counted in m_waiter_count.
Round(t, v, was) ==
    /\ want' = [want EXCEPT ![t] = v]
    /\ \/ /\ ~Overflows(v) /\ Fits(v)
          /\ current' = WrappingAdd(current, v)
          /\ hint' = HintAfterReserve(v)
          /\ peak' = Max2(peak, current')
          /\ owned' = [owned EXCEPT ![t] = @ + v]
          /\ ownedHint' = [ownedHint EXCEPT ![t] = @ + v]
          /\ waiterCount' = Uncounted(was)
          /\ Leave(t)
       \/ /\ ~Overflows(v) /\ ~Fits(v) /\ WorthWaiting(t, v)
          /\ IF ending[t]
             THEN /\ at' = [at EXCEPT ![t] = "spinning"] /\ lock' = t
                  /\ waiterCount' = Uncounted(was)
             ELSE /\ at' = [at EXCEPT ![t] = "waiting"] /\ lock' = Free
                  /\ waiterCount' = Uncounted(was) + 1
          /\ UNCHANGED <<current, hint, peak, owned, ownedHint, expired>>
       \/ /\ Overflows(v) \/ (~Fits(v) /\ ~WorthWaiting(t, v))
          /\ waiterCount' = Uncounted(was)
          /\ Leave(t)
          /\ UNCHANGED <<current, hint, peak, owned, ownedHint>>
    /\ UNCHANGED <<limit, ending, raised>>

\* The call is refused at once if the hint leaves nothing to reserve.
Reserve(t, v) ==
    /\ at[t] = "idle" /\ lock = Free
    /\ hint < limit
    /\ Round(t, v, 0)

\* The wait has ended: m_lock is taken again and the loop goes on.
Retry(t) == at[t] = "woken" /\ lock = Free /\ Round(t, want[t], 1)
Spin(t) == at[t] = "spinning" /\ expired[t] /\ Round(t, want[t], 0)
-----------------------------------------------------------------------------
(* The end of a wait on the condition variable.                             *)

\* The timeout passes, and ends the wait of t if it waits.
Timeout(t) ==
    /\ at[t] # "idle" /\ ~expired[t]
    /\ expired' = [expired EXCEPT ![t] = TRUE]
    /\ at' = [at EXCEPT ![t] = IF @ = "waiting" THEN "woken" ELSE @]
    /\ raised' = raised \ {t}
    /\ UNCHANGED <<counters, waiterCount, lock, want, ending, owned, ownedHint>>

\* Termination cancels the wait, as Wait is called without
\* allow_terminating_thread.
TerminateReserver(t) ==
    /\ ~ending[t]
    /\ ending' = [ending EXCEPT ![t] = TRUE]
    /\ at' = [at EXCEPT ![t] = IF @ = "waiting" THEN "woken" ELSE @]
    /\ raised' = raised \ {t}
    /\ UNCHANGED <<counters, waiterCount, lock, want, expired, owned, ownedHint>>

Broadcast ==
    /\ at' = [t \in Reservers |-> IF at[t] = "waiting" THEN "woken" ELSE at[t]]
    /\ raised' = {}
-----------------------------------------------------------------------------
(* Release and SetLimitValue.                                               *)

\* Mutant: a release that frees no value wakes nobody, nor does one of value.
WakesHintOnly(v, h) == waiterCount # 0 /\ v = 0
Wakes(v, h) == waiterCount # 0

\* Thread t gives back v, and h of the hint: both at once, or the hint when it
\* starts to release and the value when it is done.
Release(t, v, h) ==
    /\ at[t] = "idle" /\ lock = Free
    /\ v <= owned[t] /\ h <= ownedHint[t]
    /\ owned[t] - v >= ownedHint[t] - h
    /\ current' = current - v /\ hint' = hint - h
    /\ owned' = [owned EXCEPT ![t] = @ - v]
    /\ ownedHint' = [ownedHint EXCEPT ![t] = @ - h]
    /\ IF Wakes(v, h) THEN Broadcast ELSE UNCHANGED <<at, raised>>
    /\ UNCHANGED <<limit, peak, waiterCount, lock, want, expired, ending>>

\* The threads that wait are not woken.
SetLimitValue(v) ==
    /\ lock = Free /\ current <= v
    /\ limit' = v /\ peak' = current
    /\ raised' = raised \cup {t \in Reservers : at[t] = "waiting"}
    /\ UNCHANGED <<current, hint, calls, ending, owned, ownedHint>>
-----------------------------------------------------------------------------
ReserverStep(t) ==
    \/ \E v \in Amounts : Reserve(t, v)
    \/ Retry(t) \/ Spin(t) \/ Timeout(t) \/ TerminateReserver(t)
    \/ \E v, h \in Amounts \cup {0} : v + h > 0 /\ Release(t, v, h)

LimitNext ==
    \/ \E t \in Reservers : ReserverStep(t)
    \/ \E v \in Amounts : SetLimitValue(v)

LimitSpec == LimitInit /\ [][LimitNext]_limitVars

\* The hardware timer fires, and threads that can go on do.
LimitFairness ==
    \A t \in Reservers : WF_limitVars(Timeout(t)) /\ SF_limitVars(Retry(t)) /\ WF_limitVars(Spin(t))

LimitFairSpec == LimitSpec /\ LimitFairness
-----------------------------------------------------------------------------
\* What the threads have together: unit k of thread t is the pair <<t, k>>.
Units(f) == UNION {{t} \X (1 .. f[t]) : t \in Reservers}
Total(f) == Cardinality(Units(f))

\* What the code asserts at every operation, and that the counters are what the
\* threads have reserved: the use never exceeds the limit, whatever is reserved,
\* released in one or two steps, or set.
Accounted ==
    /\ current = Total(owned) /\ hint = Total(ownedHint)
    /\ hint <= current /\ current <= limit /\ current <= peak

\* A thread does not wait for what it could have: it is in the queue only if its
\* request does not fit, unless the limit was set since it began to wait.
NoLostRelease ==
    \A t \in Reservers : at[t] = "waiting" /\ t \notin raised => current + want[t] > limit

\* Every call of Reserve returns, at the latest after its timeout, also that of
\* a terminating thread.
ReserveReturns == \A t \in Reservers : at[t] # "idle" ~> at[t] = "idle"
=============================================================================
