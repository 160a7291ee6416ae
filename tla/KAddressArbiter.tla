--------------------------- MODULE KAddressArbiter ---------------------------
(***************************************************************************)
(* The address arbiter of a process: threads compare a word of user memory *)
(* and wait on its address, others wake them and may change the word in    *)
(* the same call.  Its waiters are kept in a tree of the type that the     *)
(* condition variables use and change their priority while they are in it, *)
(* so the module extends KPriorityInheritance; the address of a word is a  *)
(* key that no condition variable has, which keeps the two trees apart in  *)
(* the one sequence.                                                       *)
(*                                                                         *)
(* Every call runs under the scheduler lock and is one step.  User code    *)
(* stores to the word without the lock; the kernel changes it by an        *)
(* exclusive load and store, repeated until no other store came between.   *)
(* A call that is refused changes nothing and is not a step.               *)
(***************************************************************************)
EXTENDS KPriorityInheritance

CONSTANTS
    ArbiterKeys,    \* the addresses of the words
    WordWidth,      \* bits of a word, 32 in the code
    Counts          \* the counts given to the signaling calls

ASSUME ArbiterKeysAssumption == ArbiterKeys \subseteq Nat \ (CvKeys \cup {NoKey})
ASSUME WordAssumption == WordWidth \in Nat \ {0} /\ Counts \subseteq Int

VARIABLE
    word            \* the word of user memory at each address

arbiterVars == <<vars, word>>

MaxWord == 2 ^ (WordWidth - 1) - 1
Words == -MaxWord - 1 .. MaxWord

\* What a s32 holds when n is stored in it.
Wrapped(n) == ((n + MaxWord + 1) % (2 * (MaxWord + 1))) - (MaxWord + 1)

ArbiterInit == Init /\ word \in [ArbiterKeys -> {0}]
-----------------------------------------------------------------------------
(* Waiting.                                                                *)

MayWait(t) == ~Waiting(t) /\ t \notin terminating

\* WaitIfLessThan, and with decrement DecrementIfLessThan before it.  A timeout
\* of zero is looked at only after the word was counted down.
WaitIfLessThan(t, addr, value, decrement, timeout) ==
    /\ MayWait(t) /\ word[addr] < value
    /\ word' = IF decrement THEN [word EXCEPT ![addr] = Wrapped(@ - 1)] ELSE word
    /\ IF timeout = 0 THEN UNCHANGED vars ELSE WaitOnKey(t, addr)

WaitIfEqual(t, addr, value, timeout) ==
    /\ MayWait(t) /\ word[addr] = value /\ timeout # 0
    /\ WaitOnKey(t, addr)
    /\ UNCHANGED word
-----------------------------------------------------------------------------
(* Signaling.                                                              *)

\* The loop of the signaling calls: the first count waiters of the address, or
\* all of them when count is not positive.
Woken(addr, count) ==
    LET waiters == WaitersOfKey(addr)
    IN {waiters[i] : i \in {j \in DOMAIN waiters : count <= 0 \/ j <= count}}

Wake(addr, count) ==
    \E woken \in {Woken(addr, count)} :
        Becomes([State EXCEPT !.tree = SelectSeq(@, LAMBDA x : x \notin woken)])

Signal(addr, count) == Wake(addr, count) /\ UNCHANGED word

SignalAndIncrementIfEqual(addr, value, count) ==
    /\ word[addr] = value
    /\ word' = [word EXCEPT ![addr] = Wrapped(value + 1)]
    /\ Wake(addr, count)

\* tmp_num_waiters: the waiters after the first one, counted until the count is
\* exceeded.
WaitersAfterFirst(addr, count) ==
    Min({Len(WaitersOfKey(addr)) - 1, count + 1})

\* Mutant: the first waiter is counted too.
NewValueCountsFirst(addr, value, count) ==
    IF WaitersOfKey(addr) = <<>> THEN Wrapped(value + 1)
    ELSE IF count <= 0 THEN Wrapped(value - 2)
    ELSE IF WaitersAfterFirst(addr, count) + 1 < count THEN Wrapped(value - 1)
    ELSE value
NewValue(addr, value, count) ==
    IF WaitersOfKey(addr) = <<>> THEN Wrapped(value + 1)
    ELSE IF count <= 0 THEN Wrapped(value - 2)
    ELSE IF WaitersAfterFirst(addr, count) < count THEN Wrapped(value - 1)
    ELSE value

SignalAndModifyByWaitingCountIfEqual(addr, value, count) ==
    /\ word[addr] = value
    /\ word' = [word EXCEPT ![addr] = NewValue(addr, value, count)]
    /\ Wake(addr, count)
-----------------------------------------------------------------------------
\* User code writes the word.
UserStore(addr, value) == word' = [word EXCEPT ![addr] = value] /\ UNCHANGED vars

ArbiterCall(addr) ==
    \/ \E t \in Threads, timeout \in {0, 1} :
          \/ \E value \in {0, MaxWord}, decrement \in BOOLEAN :
                WaitIfLessThan(t, addr, value, decrement, timeout)
          \/ \E value \in Words : WaitIfEqual(t, addr, value, timeout)
    \/ \E count \in Counts :
          \/ Signal(addr, count)
          \/ \E value \in Words :
                \/ SignalAndIncrementIfEqual(addr, value, count)
                \/ SignalAndModifyByWaitingCountIfEqual(addr, value, count)

ArbiterNext ==
    \/ Next /\ UNCHANGED word
    \/ \E addr \in ArbiterKeys : ArbiterCall(addr)
    \/ \E addr \in ArbiterKeys, value \in Words : UserStore(addr, value)

ArbiterSpec == ArbiterInit /\ [][ArbiterNext]_arbiterVars
-----------------------------------------------------------------------------
\* SignalAndModifyByWaitingCountIfEqual tells user code through the word who is
\* left, as the next signaler may skip the kernel when nobody is: for a positive
\* count the word is unchanged exactly if waiters of the address remain, and it
\* is counted up exactly if there were none.  Whoever is woken is at least as
\* urgent as every waiter that remains, whatever priorities were changed and
\* inherited while they waited.
WordTellsWaiters ==
    [][\A addr \in ArbiterKeys, count \in Counts :
          SignalAndModifyByWaitingCountIfEqual(addr, word[addr], count) =>
              LET before == Elements(WaitersOfKey(addr))
                  remain == {t \in Elements(tree') : cvKey'[t] = addr}
              IN  /\ count > 0 => (word'[addr] = word[addr] <=> remain # {})
                  /\ word'[addr] = Wrapped(word[addr] + 1) <=> before = {}
                  /\ \A t \in before \ remain, u \in remain : prio[t] <= prio[u]
      ]_arbiterVars
=============================================================================
