------------------------ MODULE KSchedulerDataProofs ------------------------
(***************************************************************************)
(* The handlers that run under the scheduler lock keep KSchedulerContract, *)
(* from the operations of a single queue to those of KPriorityQueue, the   *)
(* loops of UpdateHighestPriorityThreads and the calls of the kernel.      *)
(***************************************************************************)
EXTENDS KSchedulerContract, WellFoundedInduction, TLAPS

\* A leaf goes to Zenon, unless it cites the SMT solver for its arithmetic, records
\* or sequences.
USE ZenonT(30)

-----------------------------------------------------------------------------
(* Queues of threads: insertion, removal and search.                       *)

\* A set of naturals that is not empty has a least element.
LEMMA LeastNatural ==
    ASSUME NEW I \in SUBSET Nat, I # {} PROVE \E k \in I : \A i \in I : k <= i
<1>1. PICK k \in I : \A i \in I : ~ (<<i, k>> \in OpToRel(<, Nat))
  BY WFMin, NatLessThanWellFounded
<1>2. \A i \in I : ~ (i < k)
  BY <1>1 DEF OpToRel
<1> QED BY <1>2, SMTT(60)

\* A set of naturals with 0 and with the successor of each of its elements below n
\* has all naturals up to n.
LEMMA UpTo ==
    ASSUME NEW n \in Nat, NEW S, 0 \in S, \A i \in 0 .. n - 1 : i \in S => i + 1 \in S
    PROVE  n \in S
<1> SUFFICES ASSUME n \notin S PROVE FALSE
  OBVIOUS
<1>1. PICK k \in {i \in 0 .. n : i \notin S} : \A i \in {j \in 0 .. n : j \notin S} : k <= i
  <2>1. {i \in 0 .. n : i \notin S} \in SUBSET Nat /\ n \in {i \in 0 .. n : i \notin S}
    BY SMTT(60)
  <2> QED BY <2>1, LeastNatural
<1>2. k # 0 /\ k - 1 \in 0 .. n - 1 /\ k - 1 \notin {j \in 0 .. n : j \notin S}
  BY <1>1, SMTT(60)
<1> QED BY <1>1, <1>2, SMTT(60)

\* FirstPosition is the least of the positions, or behind the last one.
LEMMA FirstPositionIs ==
    ASSUME NEW S, NEW s \in Seq(S), NEW I \in SUBSET DOMAIN s
    PROVE  /\ FirstPosition(s, I) \in I \cup {Len(s) + 1}
           /\ FirstPosition(s, I) \in 1 .. Len(s) + 1
           /\ \A i \in I : FirstPosition(s, I) <= i
<1>1. DOMAIN s = 1 .. Len(s) /\ Len(s) \in Nat
  BY SMTT(60)
<1>2. \E k \in I \cup {Len(s) + 1} : \A i \in I : k <= i
  <2>1. CASE I = {}
    BY <2>1
  <2>2. CASE I # {}
    <3>1. I \in SUBSET Nat
      BY <1>1, SMTT(60)
    <3> QED BY <2>2, <3>1, LeastNatural
  <2> QED BY <2>1, <2>2
<1>3. /\ FirstPosition(s, I) \in I \cup {Len(s) + 1}
      /\ \A i \in I : FirstPosition(s, I) <= i
  BY <1>2 DEF FirstPosition
<1> QED BY <1>1, <1>3, SMTT(60)

\* Inserting a thread where the priorities allow it.
LEMMA InsertQueue ==
    ASSUME NEW p \in [Threads -> Int], NEW s, IsQueue(p, s), NEW t \in Threads, t \notin Members(s),
           NEW k \in 1 .. Len(s) + 1,
           \A i \in DOMAIN s : IF i < k THEN p[s[i]] <= p[t] ELSE p[t] <= p[s[i]]
    PROVE  /\ IsQueue(p, InsertBefore(s, k, t))
           /\ Members(InsertBefore(s, k, t)) = Members(s) \cup {t}
           /\ FirstOf(InsertBefore(s, k, t)) = IF k = 1 THEN t ELSE FirstOf(s)
<1> DEFINE n == InsertBefore(s, k, t)
<1>1. /\ s \in Seq(Threads) /\ DOMAIN s = 1 .. Len(s) /\ Len(s) \in Nat
      /\ \A i \in 1 .. Len(s) : s[i] \in Threads /\ s[i] # t /\ p[s[i]] \in Int
  BY SMTT(60) DEF IsQueue, Members
<1>2. n \in Seq(Threads) /\ DOMAIN n = 1 .. Len(s) + 1 /\ Len(n) = Len(s) + 1
  BY <1>1, SMTT(60) DEF InsertBefore
<1>3. \A i \in 1 .. Len(s) + 1 : n[i] = IF i < k THEN s[i] ELSE IF i = k THEN t ELSE s[i - 1]
  BY DEF InsertBefore
<1> HIDE DEF n
<1> DEFINE Old(i) == IF i < k THEN i ELSE i - 1
<1>a. /\ n[k] = t
      /\ \A i \in DOMAIN n \ {k} : Old(i) \in DOMAIN s /\ n[i] = s[Old(i)] /\ (Old(i) < k <=> i < k)
      /\ \A i, j \in DOMAIN n \ {k} : i < j => Old(i) < Old(j)
  BY <1>1, <1>2, <1>3, SMTT(60)
<1> HIDE DEF Old
<1>4. ASSUME NEW i \in DOMAIN n, NEW j \in DOMAIN n, i < j PROVE n[i] # n[j] /\ p[n[i]] <= p[n[j]]
  <2>1. CASE i = k
    <3>1. j # k /\ ~ (j < k)
      BY <1>2, <1>4, <2>1, SMTT(60)
    <3> QED BY <1>1, <1>a, <2>1, <3>1
  <2>2. CASE j = k
    <3>1. i # k /\ i < k
      BY <1>2, <1>4, <2>2, SMTT(60)
    <3> QED BY <1>1, <1>a, <2>2, <3>1
  <2>3. CASE i # k /\ j # k
    <3>1. Old(i) \in DOMAIN s /\ Old(j) \in DOMAIN s /\ Old(i) < Old(j)
          /\ n[i] = s[Old(i)] /\ n[j] = s[Old(j)]
      BY <1>a, <1>4, <2>3
    <3> QED BY <3>1 DEF IsQueue
  <2> QED BY <2>1, <2>2, <2>3
<1>5. Members(n) = Members(s) \cup {t}
  <2>1. Members(n) \subseteq Members(s) \cup {t}
    <3> SUFFICES ASSUME NEW i \in DOMAIN n PROVE n[i] \in Members(s) \cup {t}
      BY DEF Members
    <3>1. CASE i = k
      BY <1>a, <3>1
    <3>2. CASE i # k
      BY <1>a, <3>2, SMTT(60) DEF Members
    <3> QED BY <3>1, <3>2
  <2>2. n[k] = t /\ k \in DOMAIN n
    BY <1>2, <1>3, SMTT(60)
  <2>3. ASSUME NEW i \in DOMAIN s PROVE \E j \in DOMAIN n : n[j] = s[i]
    <3>1. CASE i < k
      <4>1. i \in DOMAIN n /\ n[i] = s[i]
        BY <1>1, <1>2, <1>3, <3>1, SMTT(60)
      <4> QED BY <4>1
    <3>2. CASE ~ (i < k)
      <4>1. i + 1 \in DOMAIN n /\ n[i + 1] = s[i]
        BY <1>1, <1>2, <1>3, <3>2, SMTT(60)
      <4> QED BY <4>1
    <3> QED BY <3>1, <3>2
  <2> QED BY <2>1, <2>2, <2>3 DEF Members
<1>6. FirstOf(n) = IF k = 1 THEN t ELSE FirstOf(s)
  BY <1>1, <1>2, <1>3, SMTT(60) DEF FirstOf
<1> QED BY <1>2, <1>4, <1>5, <1>6 DEF n, IsQueue

\* The back of its priority.
LEMMA AtBackQueue ==
    ASSUME NEW d, d.prio \in [Threads -> Int], NEW s, IsQueue(d.prio, s),
           NEW t \in Threads, t \notin Members(s)
    PROVE  /\ IsQueue(d.prio, AtBack(d, s, t)) /\ Members(AtBack(d, s, t)) = Members(s) \cup {t}
           /\ FirstOf(AtBack(d, s, t)) = IF s # <<>> /\ d.prio[s[1]] <= d.prio[t] THEN s[1] ELSE t
<1> DEFINE I == {i \in DOMAIN s : d.prio[s[i]] > d.prio[t]}
           k == FirstPosition(s, I)
<1>1. /\ s \in Seq(Threads) /\ DOMAIN s = 1 .. Len(s) /\ Len(s) \in Nat
      /\ \A i \in 1 .. Len(s) : d.prio[s[i]] \in Int
  BY SMTT(60) DEF IsQueue
<1>2. k \in I \cup {Len(s) + 1} /\ k \in 1 .. Len(s) + 1 /\ \A i \in I : k <= i
  BY <1>1, FirstPositionIs
<1> HIDE DEF k
<1>3. \A i \in DOMAIN s : IF i < k THEN d.prio[s[i]] <= d.prio[t] ELSE d.prio[t] <= d.prio[s[i]]
  BY <1>1, <1>2, SMTT(60) DEF IsQueue
<1>4. k = 1 <=> ~ (s # <<>> /\ d.prio[s[1]] <= d.prio[t])
  BY <1>1, <1>2, <1>3, SMTT(60)
<1>5. AtBack(d, s, t) = InsertBefore(s, k, t)
  BY DEF AtBack, k
<1>6. s # <<>> => FirstOf(s) = s[1]
  BY DEF FirstOf
<1> QED BY <1>2, <1>3, <1>4, <1>5, <1>6, InsertQueue, SMTT(60)

\* The front of its priority.
LEMMA AtFrontQueue ==
    ASSUME NEW d, d.prio \in [Threads -> Int], NEW s, IsQueue(d.prio, s),
           NEW t \in Threads, t \notin Members(s)
    PROVE  /\ IsQueue(d.prio, AtFront(d, s, t)) /\ Members(AtFront(d, s, t)) = Members(s) \cup {t}
<1> DEFINE I == {i \in DOMAIN s : d.prio[s[i]] >= d.prio[t]}
           k == FirstPosition(s, I)
<1>1. /\ s \in Seq(Threads) /\ DOMAIN s = 1 .. Len(s) /\ Len(s) \in Nat
      /\ \A i \in 1 .. Len(s) : d.prio[s[i]] \in Int
  BY SMTT(60) DEF IsQueue
<1>2. k \in I \cup {Len(s) + 1} /\ k \in 1 .. Len(s) + 1 /\ \A i \in I : k <= i
  BY <1>1, FirstPositionIs
<1> HIDE DEF k
<1>3. \A i \in DOMAIN s : IF i < k THEN d.prio[s[i]] <= d.prio[t] ELSE d.prio[t] <= d.prio[s[i]]
  BY <1>1, <1>2, SMTT(60) DEF IsQueue
<1>4. AtFront(d, s, t) = InsertBefore(s, k, t)
  BY DEF AtFront, k
<1> QED BY <1>2, <1>3, <1>4, InsertQueue, SMTT(60)

\* Taking a thread out of a queue, whose priority may have changed.
LEMMA WithoutQueue ==
    ASSUME NEW p, NEW o, NEW s, IsQueue(o, s), NEW t \in Threads,
           \A u \in Threads \ {t} : p[u] = o[u]
    PROVE  /\ IsQueue(p, Without(s, t)) /\ Members(Without(s, t)) = Members(s) \ {t}
           /\ FirstOf(s) # t => FirstOf(Without(s, t)) = FirstOf(s)
           /\ FirstOf(s) = t => FirstOf(Without(s, t)) = NextIn(s, t)
<1> DEFINE k == FirstPosition(s, {i \in DOMAIN s : s[i] = t})
           n == Without(s, t)
<1>1. /\ s \in Seq(Threads) /\ DOMAIN s = 1 .. Len(s) /\ Len(s) \in Nat
      /\ \A i \in 1 .. Len(s) : s[i] \in Threads
  BY SMTT(60) DEF IsQueue
<1>2. k \in {i \in DOMAIN s : s[i] = t} \cup {Len(s) + 1} /\ k \in 1 .. Len(s) + 1
      /\ \A i \in {i \in DOMAIN s : s[i] = t} : k <= i
  BY <1>1, FirstPositionIs
<1>3. CASE t \notin Members(s)
  <2>1. n = s /\ \A i \in DOMAIN s : s[i] # t
    BY <1>3 DEF Without, Members
  <2>2. FirstOf(s) # t
    BY <1>1, <2>1, NullAssumption, SMTT(60) DEF FirstOf
  <2>3. IsQueue(p, s)
    BY <1>1, <2>1 DEF IsQueue
  <2> QED BY <1>3, <2>1, <2>2, <2>3
<1>4. CASE t \in Members(s)
  <2>1. k \in DOMAIN s /\ s[k] = t /\ Len(s) >= 1
    <3> HIDE DEF k
    <3>1. PICK i \in DOMAIN s : s[i] = t
      BY <1>4 DEF Members
    <3> QED BY <1>1, <1>2, <3>1, SMTT(60)
  <2>2. \A i \in DOMAIN s : s[i] = t => i = k
    BY <1>1, <2>1, SMTT(60) DEF IsQueue
  <2>3. n = [i \in 1 .. Len(s) - 1 |-> IF i < k THEN s[i] ELSE s[i + 1]]
    BY <1>4 DEF Without
  <2>4. NextIn(s, t) = IF k + 1 \in DOMAIN s THEN s[k + 1] ELSE Null
    BY DEF NextIn
  <2> HIDE DEF n, k
  <2>5. n \in Seq(Threads) /\ DOMAIN n = 1 .. Len(s) - 1 /\ Len(n) = Len(s) - 1
    BY <1>1, <2>1, <2>3, SMTT(60)
  <2> DEFINE Old(i) == IF i < k THEN i ELSE i + 1
  <2>6. /\ \A i \in DOMAIN n : Old(i) \in DOMAIN s /\ Old(i) # k /\ n[i] = s[Old(i)]
        /\ \A i, j \in DOMAIN n : i < j => Old(i) < Old(j)
    BY <1>1, <2>1, <2>3, <2>5, SMTT(60)
  <2>7. ASSUME NEW i \in DOMAIN s, i # k PROVE \E j \in DOMAIN n : n[j] = s[i]
    <3>1. CASE i < k
      <4>1. i \in DOMAIN n /\ n[i] = s[i]
        BY <1>1, <2>1, <2>3, <2>5, <3>1, SMTT(60)
      <4> QED BY <4>1
    <3>2. CASE ~ (i < k)
      <4>1. i - 1 \in DOMAIN n /\ n[i - 1] = s[i]
        BY <1>1, <2>1, <2>3, <2>5, <2>7, <3>2, SMTT(60)
      <4> QED BY <4>1
    <3> QED BY <3>1, <3>2
  <2> HIDE DEF Old
  <2>8. \A i, j \in DOMAIN n : i < j => n[i] # n[j] /\ p[n[i]] <= p[n[j]]
    <3> SUFFICES ASSUME NEW i \in DOMAIN n, NEW j \in DOMAIN n, i < j
                 PROVE  n[i] # n[j] /\ p[n[i]] <= p[n[j]]
      OBVIOUS
    <3>1. /\ Old(i) \in DOMAIN s /\ Old(j) \in DOMAIN s /\ Old(i) < Old(j)
          /\ n[i] = s[Old(i)] /\ n[j] = s[Old(j)] /\ n[i] # t /\ n[j] # t
      BY <2>2, <2>6
    <3>2. p[n[i]] = o[n[i]] /\ p[n[j]] = o[n[j]]
      BY <1>1, <3>1
    <3> QED BY <3>1, <3>2 DEF IsQueue
  <2>9. Members(n) = Members(s) \ {t}
    <3>1. Members(n) \subseteq Members(s) \ {t}
      BY <2>2, <2>6 DEF Members
    <3>2. Members(s) \ {t} \subseteq Members(n)
      BY <2>1, <2>7 DEF Members
    <3> QED BY <3>1, <3>2
  <2>10. /\ FirstOf(s) # t => FirstOf(n) = FirstOf(s)
         /\ FirstOf(s) = t => FirstOf(n) = NextIn(s, t)
    BY <1>1, <2>1, <2>2, <2>3, <2>4, <2>5, SMTT(60) DEF FirstOf
  <2> QED BY <2>5, <2>8, <2>9, <2>10 DEF n, IsQueue
<1> QED BY <1>3, <1>4

-----------------------------------------------------------------------------
(* The operations of KPriorityQueue on all queues.                         *)

\* What taking t out of the queue s, ordered by p, leaves.
TakenOut(p, s, t) ==
    /\ IsQueue(p, Without(s, t)) /\ Members(Without(s, t)) = Members(s) \ {t}
    /\ FirstOf(s) # t => FirstOf(Without(s, t)) = FirstOf(s)
    /\ FirstOf(s) = t => FirstOf(Without(s, t)) = NextIn(s, t)

\* Taking a thread out of a queue, with the priorities it is ordered by.
LEMMA WithoutSame == ASSUME NEW p, NEW s, IsQueue(p, s), NEW t \in Threads PROVE TakenOut(p, s, t)
BY WithoutQueue, SMTT(60) DEF TakenOut

\* NoCore is not a core.
LEMMA NoCoreIsNone == NoCore \notin Cores
BY SMTT(60) DEF NoCore, Cores

\* A thread enters the queues of its core and of its mask.
LEMMA PushExact ==
    ASSUME NEW d, NEW R, Exact(d, R), NEW t \in Threads \ R, NEW e \in {PushBack(d, t), PushFront(d, t)}
    PROVE  Exact(e, R \cup {t}) /\ KeepsThreads(e, d) /\ e.core = d.core /\ e.update = d.update
<1>1. /\ KeepsThreads(e, d) /\ e.core = d.core /\ e.update = d.update
      /\ e.sugg = Suggested(d, t)
      /\ DOMAIN e.sched = Cores
      /\ \A c \in Cores : \/ c = d.core[t] /\ e.sched[c] = AtBack(d, d.sched[c], t)
                          \/ c = d.core[t] /\ e.sched[c] = AtFront(d, d.sched[c], t)
                          \/ c # d.core[t] /\ e.sched[c] = d.sched[c]
  <2>1. CASE e = PushBack(d, t)
    BY <2>1, SMTT(60) DEF PushBack, Exact, KeepsThreads, Fields
  <2>2. CASE e = PushFront(d, t)
    BY <2>2, SMTT(60) DEF PushFront, Exact, KeepsThreads, Fields
  <2> QED BY <2>1, <2>2
<1>2. ASSUME NEW c \in Cores PROVE IsQueue(e.prio, e.sched[c]) /\ Members(e.sched[c]) = {u \in R \cup {t} : e.core[u] = c}
  <2>1. e.prio = d.prio /\ IsQueue(d.prio, d.sched[c]) /\ Members(d.sched[c]) = {u \in R : d.core[u] = c}
        /\ t \notin Members(d.sched[c]) /\ d.prio \in [Threads -> Int]
    BY <1>1 DEF Exact, KeepsThreads
  <2>2. CASE c = d.core[t]
    <3>1. IsQueue(d.prio, e.sched[c]) /\ Members(e.sched[c]) = Members(d.sched[c]) \cup {t}
      <4>1. \A s \in {AtBack(d, d.sched[c], t), AtFront(d, d.sched[c], t)} :
               IsQueue(d.prio, s) /\ Members(s) = Members(d.sched[c]) \cup {t}
        BY <2>1, AtBackQueue, AtFrontQueue, SMTT(60)
      <4> QED BY <1>1, <2>2, <4>1
    <3> QED BY <1>1, <2>1, <2>2, <3>1
  <2>3. CASE c # d.core[t]
    BY <1>1, <2>1, <2>3
  <2> QED BY <2>2, <2>3
<1>3. ASSUME NEW c \in Cores PROVE IsQueue(e.prio, e.sugg[c]) /\ Members(e.sugg[c]) = {u \in R \cup {t} : c \in Suggestions(e, u)}
  <2>1. e.prio = d.prio /\ IsQueue(d.prio, d.sugg[c]) /\ Members(d.sugg[c]) = {u \in R : c \in Suggestions(d, u)}
        /\ t \notin Members(d.sugg[c]) /\ d.prio \in [Threads -> Int]
    BY <1>1 DEF Exact, KeepsThreads
  <2>2. \A u : Suggestions(e, u) = Suggestions(d, u)
    BY <1>1 DEF Suggestions, KeepsThreads
  <2>3. e.sugg[c] = IF c \in Suggestions(d, t) THEN AtBack(d, d.sugg[c], t) ELSE d.sugg[c]
    BY <1>1 DEF Suggested
  <2>4. CASE c \in Suggestions(d, t)
    <3>1. IsQueue(d.prio, e.sugg[c]) /\ Members(e.sugg[c]) = Members(d.sugg[c]) \cup {t}
      <4>1. LET s == AtBack(d, d.sugg[c], t)
            IN IsQueue(d.prio, s) /\ Members(s) = Members(d.sugg[c]) \cup {t}
        BY <2>1, AtBackQueue, SMTT(60)
      <4> QED BY <2>3, <2>4, <4>1
    <3> QED BY <2>1, <2>2, <2>4, <3>1
  <2>5. CASE c \notin Suggestions(d, t)
    BY <2>1, <2>2, <2>3, <2>5
  <2> QED BY <2>4, <2>5
<1>4. DOMAIN e.sugg = Cores
  BY <1>1 DEF Suggested
<1> QED BY <1>1, <1>2, <1>3, <1>4 DEF Exact, KeepsThreads

\* The data d, with another priority of t than that by which the queues of o are ordered.
Repriced(d, o, t) ==
    /\ DOMAIN d = Fields /\ d.sched = o.sched /\ d.sugg = o.sugg /\ d.core = o.core /\ d.aff = o.aff
    /\ d.prio \in [Threads -> Int] /\ \A u \in Threads \ {t} : d.prio[u] = o.prio[u]

\* What RemoveMember makes of d, with the threads R in the queues.
Removed(e, d, R, t) == Exact(e, R \ {t}) /\ KeepsThreads(e, d) /\ e.core = d.core /\ e.update = d.update

\* A thread leaves the queues.
LEMMA RemoveExact ==
    ASSUME NEW o, NEW d, NEW R, Exact(o, R), NEW t \in Threads, Repriced(d, o, t)
    PROVE  Removed(RemoveMember(d, t), d, R, t)
<1> DEFINE e == RemoveMember(d, t)
<1>1. /\ KeepsThreads(e, d) /\ e.core = o.core /\ e.aff = o.aff /\ e.update = d.update
      /\ DOMAIN e.sched = Cores /\ DOMAIN e.sugg = Cores
      /\ \A c \in Cores : e.sched[c] = IF c = o.core[t] THEN Without(o.sched[c], t) ELSE o.sched[c]
      /\ \A c \in Cores : e.sugg[c] = IF c \in Suggestions(o, t) THEN Without(o.sugg[c], t) ELSE o.sugg[c]
  BY SMTT(60) DEF RemoveMember, KeepsThreads, Fields, Suggestions, Repriced
<1> HIDE DEF e
<1>a. ASSUME NEW s, IsQueue(o.prio, s)
      PROVE  /\ IsQueue(d.prio, Without(s, t)) /\ Members(Without(s, t)) = Members(s) \ {t}
             /\ t \notin Members(s) => IsQueue(d.prio, s)
  <2>1. t \notin Members(s) => Without(s, t) = s
    BY DEF Without
  <2>2. \A u \in Threads \ {t} : d.prio[u] = o.prio[u]
    BY DEF Repriced
  <2>3. IsQueue(d.prio, Without(s, t)) /\ Members(Without(s, t)) = Members(s) \ {t}
    BY <1>a, <2>2, WithoutQueue, SMTT(60)
  <2> QED BY <2>1, <2>3
<1>2. ASSUME NEW c \in Cores PROVE IsQueue(d.prio, e.sched[c]) /\ Members(e.sched[c]) = {u \in R \ {t} : e.core[u] = c}
  <2>1. IsQueue(o.prio, o.sched[c]) /\ Members(o.sched[c]) = {u \in R : o.core[u] = c}
    BY DEF Exact
  <2>2. Members(o.sched[c]) \ {t} = {u \in R \ {t} : e.core[u] = c}
    BY <1>1, <2>1
  <2>3. CASE c = o.core[t]
    BY <1>1, <1>a, <2>1, <2>2, <2>3
  <2>4. CASE c # o.core[t]
    <3>1. t \notin Members(o.sched[c]) /\ e.sched[c] = o.sched[c]
      BY <1>1, <2>1, <2>4
    <3>2. Members(o.sched[c]) \ {t} = Members(o.sched[c])
      BY <3>1
    <3> QED BY <1>a, <2>1, <2>2, <3>1, <3>2
  <2> QED BY <2>3, <2>4
<1>3. ASSUME NEW c \in Cores PROVE IsQueue(d.prio, e.sugg[c]) /\ Members(e.sugg[c]) = {u \in R \ {t} : c \in Suggestions(e, u)}
  <2>1. IsQueue(o.prio, o.sugg[c]) /\ Members(o.sugg[c]) = {u \in R : c \in Suggestions(o, u)}
    BY DEF Exact
  <2>2. \A u : Suggestions(e, u) = Suggestions(o, u)
    BY <1>1 DEF Suggestions
  <2>3. Members(o.sugg[c]) \ {t} = {u \in R \ {t} : c \in Suggestions(e, u)}
    BY <2>1, <2>2, SMTT(60)
  <2>4. CASE c \in Suggestions(o, t)
    BY <1>1, <1>a, <2>1, <2>3, <2>4
  <2>5. CASE c \notin Suggestions(o, t)
    <3>1. t \notin Members(o.sugg[c]) /\ e.sugg[c] = o.sugg[c]
      BY <1>1, <2>1, <2>5
    <3>2. Members(o.sugg[c]) \ {t} = Members(o.sugg[c])
      BY <3>1
    <3> QED BY <1>a, <2>1, <2>3, <3>1, <3>2
  <2> QED BY <2>4, <2>5
<1>4. e.prio = d.prio /\ R \ {t} \subseteq Threads
  BY <1>1 DEF KeepsThreads, Exact
<1>5. d.prio \in [Threads -> Int] /\ d.aff = o.aff
  BY DEF Repriced
<1>6. Exact(e, R \ {t})
  BY <1>1, <1>2, <1>3, <1>4, <1>5 DEF Exact, KeepsThreads
<1>7. e.core = d.core
  BY <1>1 DEF Repriced
<1> QED BY <1>1, <1>6, <1>7 DEF Removed, e

\* What ChangeCore makes of d.
CoreChanged(e, d, t, core) ==
    /\ KeepsThreads(e, d) /\ e.update = d.update
    /\ DOMAIN e.core = Threads /\ \A u \in Threads : e.core[u] = IF u = t THEN core ELSE d.core[u]
    /\ DOMAIN e.sched = Cores /\ DOMAIN e.sugg = Cores
    /\ \A c \in Cores :
          /\ c = d.core[t] => e.sched[c] = Without(d.sched[c], t)
          /\ c = core => e.sched[c] \in {AtFront(d, d.sched[c], t), AtBack(d, d.sched[c], t)}
          /\ c # d.core[t] /\ c # core => e.sched[c] = d.sched[c]
          /\ c = core => e.sugg[c] = Without(d.sugg[c], t)
          /\ c = d.core[t] => e.sugg[c] = AtBack(d, d.sugg[c], t)
          /\ c # d.core[t] /\ c # core => e.sugg[c] = d.sugg[c]

\* What ChangeCore does to each field.
LEMMA ChangeCoreFields ==
    ASSUME NEW d, NEW R, Exact(d, R), NEW t \in R, NEW core \in d.aff[t] \cup {NoCore}, NEW f,
           d.core[t] # core
    PROVE  CoreChanged(ChangeCore(d, t, core, f), d, t, core)
<1> DEFINE old == d.core[t]
           Place(s) == IF f THEN AtFront(d, s, t) ELSE AtBack(d, s, t)
           sched == [c \in Cores |-> CASE c = old -> Without(d.sched[c], t)
                                       [] c = core -> Place(d.sched[c])
                                       [] OTHER -> d.sched[c]]
           sugg == [c \in Cores |-> CASE c = core -> Without(d.sugg[c], t)
                                      [] c = old -> AtBack(d, d.sugg[c], t)
                                      [] OTHER -> d.sugg[c]]
           e == ChangeCore(d, t, core, f)
<1>1. e = [d EXCEPT !.core[t] = core, !.sched = sched, !.sugg = sugg]
  BY DEF ChangeCore
<1>2. \A s : Place(s) \in {AtFront(d, s, t), AtBack(d, s, t)}
  OBVIOUS
<1> HIDE DEF Place
<1>3. DOMAIN sched = Cores /\ DOMAIN sugg = Cores
      /\ \A c \in Cores :
            /\ c = d.core[t] => sched[c] = Without(d.sched[c], t)
            /\ c = core => sched[c] = Place(d.sched[c])
            /\ c # d.core[t] /\ c # core => sched[c] = d.sched[c]
            /\ c = core => sugg[c] = Without(d.sugg[c], t)
            /\ c = d.core[t] => sugg[c] = AtBack(d, d.sugg[c], t)
            /\ c # d.core[t] /\ c # core => sugg[c] = d.sugg[c]
  BY SMTT(60)
<1> HIDE DEF sched, sugg, e, old
<1>4. e.sched = sched /\ e.sugg = sugg /\ e.core = [d.core EXCEPT ![t] = core]
      /\ DOMAIN d.core = Threads
      /\ KeepsThreads(e, d) /\ e.update = d.update
  BY <1>1, SMTT(60) DEF Exact, KeepsThreads, Fields
<1>5. DOMAIN e.core = Threads /\ \A u \in Threads : e.core[u] = IF u = t THEN core ELSE d.core[u]
  BY <1>4
<1>6. CoreChanged(e, d, t, core)
  BY <1>2, <1>3, <1>4, <1>5 DEF CoreChanged
<1> QED BY <1>6 DEF e

\* Only the core of t is another.
CoreIs(e, d, t, core) ==
    /\ KeepsThreads(e, d) /\ e.update = d.update
    /\ \A u \in Threads : e.core[u] = IF u = t THEN core ELSE d.core[u]

\* ChangeCore keeps the queues exact.
LEMMA ChangeCoreExact ==
    ASSUME NEW d, NEW R, Exact(d, R), NEW t \in R, NEW core \in d.aff[t] \cup {NoCore}, NEW f
    PROVE  Exact(ChangeCore(d, t, core, f), R) /\ CoreIs(ChangeCore(d, t, core, f), d, t, core)
<1> DEFINE e == ChangeCore(d, t, core, f)
<1>1. CASE d.core[t] = core
  <2>1. e = d /\ KeepsThreads(d, d)
    BY <1>1 DEF ChangeCore, Exact, KeepsThreads
  <2> QED BY <1>1, <2>1 DEF CoreIs
<1>2. CASE d.core[t] # core
  <2>0. CoreChanged(e, d, t, core)
    BY <1>2, ChangeCoreFields
  <2>1. /\ KeepsThreads(e, d) /\ e.update = d.update
        /\ DOMAIN e.core = Threads /\ \A u \in Threads : e.core[u] = IF u = t THEN core ELSE d.core[u]
        /\ DOMAIN e.sched = Cores /\ DOMAIN e.sugg = Cores
        /\ \A c \in Cores :
              /\ c = d.core[t] => e.sched[c] = Without(d.sched[c], t)
              /\ c = core => e.sched[c] \in {AtFront(d, d.sched[c], t), AtBack(d, d.sched[c], t)}
              /\ c # d.core[t] /\ c # core => e.sched[c] = d.sched[c]
              /\ c = core => e.sugg[c] = Without(d.sugg[c], t)
              /\ c = d.core[t] => e.sugg[c] = AtBack(d, d.sugg[c], t)
              /\ c # d.core[t] /\ c # core => e.sugg[c] = d.sugg[c]
    BY <2>0 DEF CoreChanged
  <2> HIDE DEF e
  <2>2. t \in Threads /\ d.prio \in [Threads -> Int] /\ e.prio = d.prio /\ e.aff = d.aff
        /\ d.core[t] \in d.aff[t] \cup {NoCore}
    BY <2>1 DEF Exact, KeepsThreads
  <2>3. \A u \in R : e.core[u] = IF u = t THEN core ELSE d.core[u]
    BY <2>1 DEF Exact
  <2>4. \A s : IsQueue(d.prio, s) => IsQueue(d.prio, Without(s, t)) /\ Members(Without(s, t)) = Members(s) \ {t}
    BY <2>2, WithoutQueue, SMTT(60)
  <2>5. \A s : IsQueue(d.prio, s) /\ t \notin Members(s) =>
           \A n \in {AtFront(d, s, t), AtBack(d, s, t)} : IsQueue(d.prio, n) /\ Members(n) = Members(s) \cup {t}
    BY <2>2, AtFrontQueue, AtBackQueue, SMTT(60)
  <2>6. ASSUME NEW c \in Cores PROVE IsQueue(e.prio, e.sched[c]) /\ Members(e.sched[c]) = {u \in R : e.core[u] = c}
    <3>1. IsQueue(d.prio, d.sched[c]) /\ Members(d.sched[c]) = {u \in R : d.core[u] = c}
      BY DEF Exact
    <3>2. CASE c = d.core[t]
      <4>1. Members(d.sched[c]) \ {t} = {u \in R : e.core[u] = c}
        BY <1>2, <2>3, <3>1, <3>2
      <4> QED BY <2>1, <2>2, <2>4, <3>1, <3>2, <4>1, SMTT(60)
    <3>3. CASE c = core
      <4>1. t \notin Members(d.sched[c]) /\ Members(d.sched[c]) \cup {t} = {u \in R : e.core[u] = c}
        BY <1>2, <2>3, <3>1, <3>3
      <4> QED BY <2>1, <2>2, <2>5, <3>1, <3>3, <4>1, SMTT(60)
    <3>4. CASE c # d.core[t] /\ c # core
      <4>1. Members(d.sched[c]) = {u \in R : e.core[u] = c}
        BY <2>3, <3>1, <3>4
      <4> QED BY <2>1, <2>2, <3>1, <3>4, <4>1
    <3> QED BY <3>2, <3>3, <3>4
  <2>7. ASSUME NEW c \in Cores
        PROVE  IsQueue(e.prio, e.sugg[c]) /\ Members(e.sugg[c]) = {u \in R : c \in Suggestions(e, u)}
    <3>1. IsQueue(d.prio, d.sugg[c]) /\ Members(d.sugg[c]) = {u \in R : c \in d.aff[u] \ {d.core[u]}}
      BY DEF Exact, Suggestions
    <3>2. {u \in R : c \in Suggestions(e, u)} = {u \in R : c \in d.aff[u] \ {e.core[u]}}
      BY <2>2 DEF Suggestions
    <3>3. CASE c = core
      <4>1. Members(d.sugg[c]) \ {t} = {u \in R : c \in d.aff[u] \ {e.core[u]}}
        BY <1>2, <2>3, <3>1, <3>3
      <4> QED BY <2>1, <2>2, <2>4, <3>1, <3>2, <3>3, <4>1, SMTT(60)
    <3>4. CASE c = d.core[t]
      <4>1. c \in d.aff[t]
        BY <2>2, <3>4, NoCoreIsNone
      <4>2. t \notin Members(d.sugg[c]) /\ Members(d.sugg[c]) \cup {t} = {u \in R : c \in d.aff[u] \ {e.core[u]}}
        BY <1>2, <2>3, <3>1, <3>4, <4>1
      <4> QED BY <2>1, <2>2, <2>5, <3>1, <3>2, <3>4, <4>2, SMTT(60)
    <3>5. CASE c # d.core[t] /\ c # core
      <4>1. Members(d.sugg[c]) = {u \in R : c \in d.aff[u] \ {e.core[u]}}
        BY <2>3, <3>1, <3>5
      <4> QED BY <2>1, <2>2, <3>1, <3>2, <3>5, <4>1
    <3> QED BY <3>3, <3>4, <3>5
  <2>8. \A u \in Threads : e.core[u] \in e.aff[u] \cup {NoCore}
    BY <2>1, <2>2 DEF Exact
  <2>9. Exact(e, R)
    BY <2>1, <2>2, <2>6, <2>7, <2>8 DEF Exact, KeepsThreads
  <2> QED BY <2>1, <2>9 DEF e, CoreIs
<1> QED BY <1>1, <1>2

\* MoveToScheduledBack keeps the queues exact.
LEMMA MoveBackExact ==
    ASSUME NEW d, NEW R, Exact(d, R), NEW t \in R, d.core[t] \in Cores
    PROVE  LET e == MoveToScheduledBack(d, t)
           IN /\ Exact(e, R) /\ KeepsThreads(e, d) /\ e.update = d.update
              /\ e.core = d.core /\ e.sugg = d.sugg
              /\ e.sched[d.core[t]] = AtBack(d, Without(d.sched[d.core[t]], t), t)
              /\ \A c \in Cores \ {d.core[t]} : e.sched[c] = d.sched[c]
<1> DEFINE e == MoveToScheduledBack(d, t)
           k == d.core[t]
           s == AtBack(d, Without(d.sched[k], t), t)
<1>1. e.sched = [d.sched EXCEPT ![k] = s] /\ e.core = d.core /\ e.sugg = d.sugg
      /\ KeepsThreads(e, d) /\ e.update = d.update /\ DOMAIN d.sched = Cores
  BY SMTT(60) DEF MoveToScheduledBack, Exact, KeepsThreads, Fields
<1>2. DOMAIN e.sched = Cores /\ e.sched[k] = s /\ \A c \in Cores \ {k} : e.sched[c] = d.sched[c]
  BY <1>1
<1>3. /\ t \in Threads /\ d.prio \in [Threads -> Int] /\ IsQueue(d.prio, d.sched[k])
      /\ Members(d.sched[k]) = {u \in R : d.core[u] = k}
  BY DEF Exact
<1>4. IsQueue(d.prio, s) /\ Members(s) = Members(d.sched[k])
  <2> DEFINE w == Without(d.sched[k], t)
  <2>1. IsQueue(d.prio, w) /\ Members(w) = Members(d.sched[k]) \ {t}
    BY <1>3, WithoutQueue, SMTT(60)
  <2> HIDE DEF w
  <2>2. IsQueue(d.prio, AtBack(d, w, t)) /\ Members(AtBack(d, w, t)) = Members(w) \cup {t}
    BY <1>3, <2>1, AtBackQueue, SMTT(60)
  <2> QED BY <1>3, <2>1, <2>2 DEF w
<1> HIDE DEF s, e
<1>5. \A c \in Cores : IsQueue(e.prio, e.sched[c]) /\ Members(e.sched[c]) = {u \in R : e.core[u] = c}
  BY <1>1, <1>2, <1>3, <1>4, SMTT(60) DEF Exact, KeepsThreads
<1>6. ASSUME NEW c \in Cores
      PROVE  IsQueue(e.prio, e.sugg[c]) /\ Members(e.sugg[c]) = {u \in R : c \in Suggestions(e, u)}
  <2>1. \A u : Suggestions(e, u) = Suggestions(d, u)
    BY <1>1 DEF Suggestions, KeepsThreads
  <2> QED BY <1>1, <2>1, SMTT(60) DEF Exact, KeepsThreads
<1>7. Exact(e, R)
  BY <1>1, <1>2, <1>5, <1>6 DEF Exact, KeepsThreads
<1> QED BY <1>1, <1>2, <1>7 DEF e, s

\* The data d, with another mask and core of t than those the queues of o are for.
Remasked(d, o, t) ==
    /\ DOMAIN d = Fields /\ d.sched = o.sched /\ d.sugg = o.sugg /\ d.prio = o.prio
    /\ d.aff \in [Threads -> SUBSET Cores] /\ DOMAIN d.core = Threads
    /\ d.core[t] \in d.aff[t] \cup {NoCore}
    /\ \A u \in Threads \ {t} : d.aff[u] = o.aff[u] /\ d.core[u] = o.core[u]

\* What ChangeAffinityMask makes of d, with the threads R in the queues.
Requeued(e, d, R) == Exact(e, R) /\ KeepsThreads(e, d) /\ e.core = d.core /\ e.update = d.update

\* ChangeAffinityMask keeps the queues exact; d has the new mask and core.
LEMMA ChangeAffinityExact ==
    ASSUME NEW o, NEW d, NEW R, Exact(o, R), NEW t \in R, Remasked(d, o, t)
    PROVE  Requeued(ChangeAffinityMask(d, o.core[t], o.aff[t], t), d, R)
<1> USE DEF Remasked
<1> DEFINE e == ChangeAffinityMask(d, o.core[t], o.aff[t], t)
           sched == [c \in Cores |-> IF c \in o.aff[t] /\ c = o.core[t]
                                     THEN Without(d.sched[c], t) ELSE d.sched[c]]
           sugg == [c \in Cores |-> IF c \in o.aff[t] /\ c # o.core[t]
                                    THEN Without(d.sugg[c], t) ELSE d.sugg[c]]
           newSched == [c \in Cores |-> IF c \in d.aff[t] /\ c = d.core[t] THEN AtBack(d, sched[c], t) ELSE sched[c]]
           newSugg == [c \in Cores |-> IF c \in Suggestions(d, t) THEN AtBack(d, sugg[c], t) ELSE sugg[c]]
<1>1. /\ KeepsThreads(e, d) /\ e.core = d.core /\ e.update = d.update
      /\ e.sched = newSched /\ e.sugg = newSugg
  <2>1. e = [d EXCEPT !.sched = newSched, !.sugg = newSugg]
    BY DEF ChangeAffinityMask
  <2> HIDE DEF e, newSched, newSugg
  <2> QED BY <2>1, SMTT(60) DEF KeepsThreads, Fields
<1> HIDE DEF e
<1>2. t \in Threads /\ d.prio \in [Threads -> Int] /\ o.core[t] \in o.aff[t] \cup {NoCore}
  BY DEF Exact
<1>3. \A s : IsQueue(d.prio, s) => IsQueue(d.prio, Without(s, t)) /\ Members(Without(s, t)) = Members(s) \ {t}
  BY <1>2, WithoutQueue, SMTT(60)
<1>4. \A s : IsQueue(d.prio, s) /\ t \notin Members(s) =>
         IsQueue(d.prio, AtBack(d, s, t)) /\ Members(AtBack(d, s, t)) = Members(s) \cup {t}
  BY <1>2, AtBackQueue, SMTT(60)
<1>5. ASSUME NEW c \in Cores PROVE IsQueue(e.prio, e.sched[c]) /\ Members(e.sched[c]) = {u \in R : e.core[u] = c}
  <2>1. IsQueue(d.prio, d.sched[c]) /\ Members(d.sched[c]) = {u \in R : o.core[u] = c}
    BY DEF Exact
  <2>2. IsQueue(d.prio, sched[c]) /\ Members(sched[c]) = {u \in R \ {t} : d.core[u] = c}
    <3>1. {u \in R : o.core[u] = c} \ {t} = {u \in R \ {t} : d.core[u] = c}
      BY DEF Exact
    <3>2. c = o.core[t] => c \in o.aff[t]
      BY <1>2, NoCoreIsNone
    <3>3. CASE c = o.core[t]
      <4>1. sched[c] = Without(d.sched[c], t)
        BY <3>2, <3>3
      <4> QED BY <1>3, <2>1, <3>1, <4>1, SMTT(60)
    <3>4. CASE c # o.core[t]
      <4>1. sched[c] = d.sched[c]
        BY <3>4
      <4>2. t \notin {u \in R : o.core[u] = c}
        BY <3>4
      <4> QED BY <2>1, <3>1, <4>1, <4>2
    <3> QED BY <3>3, <3>4
  <2> HIDE DEF sched
  <2>3. e.sched[c] = IF c \in d.aff[t] /\ c = d.core[t] THEN AtBack(d, sched[c], t) ELSE sched[c]
    BY <1>1
  <2>4. c = d.core[t] => c \in d.aff[t]
    BY NoCoreIsNone
  <2>5. CASE c = d.core[t]
    <3>1. IsQueue(d.prio, e.sched[c]) /\ Members(e.sched[c]) = Members(sched[c]) \cup {t}
      BY <1>4, <2>2, <2>3, <2>4, <2>5, SMTT(60)
    <3>2. {u \in R \ {t} : d.core[u] = c} \cup {t} = {u \in R : d.core[u] = c}
      BY <2>5
    <3> QED BY <1>1, <2>2, <3>1, <3>2, SMTT(60) DEF KeepsThreads
  <2>6. CASE c # d.core[t]
    <3>1. {u \in R \ {t} : d.core[u] = c} = {u \in R : d.core[u] = c}
      BY <2>6
    <3> QED BY <1>1, <2>2, <2>3, <2>6, <3>1, SMTT(60) DEF KeepsThreads
  <2> QED BY <2>5, <2>6
<1>6. ASSUME NEW c \in Cores
      PROVE  IsQueue(e.prio, e.sugg[c]) /\ Members(e.sugg[c]) = {u \in R : c \in Suggestions(e, u)}
  <2>0. \A u : Suggestions(e, u) = Suggestions(d, u)
    BY <1>1 DEF Suggestions, KeepsThreads
  <2>1. IsQueue(d.prio, d.sugg[c]) /\ Members(d.sugg[c]) = {u \in R : c \in Suggestions(o, u)}
    BY DEF Exact
  <2>2. IsQueue(d.prio, sugg[c]) /\ Members(sugg[c]) = {u \in R \ {t} : c \in Suggestions(d, u)}
    <3>1. {u \in R : c \in Suggestions(o, u)} \ {t} = {u \in R \ {t} : c \in Suggestions(d, u)}
      BY DEF Exact, Suggestions
    <3>3. CASE c \in o.aff[t] /\ c # o.core[t]
      <4>1. sugg[c] = Without(d.sugg[c], t)
        BY <3>3
      <4> QED BY <1>3, <2>1, <3>1, <4>1, SMTT(60)
    <3>4. CASE ~ (c \in o.aff[t] /\ c # o.core[t])
      <4>1. sugg[c] = d.sugg[c]
        BY <3>4
      <4>2. t \notin {u \in R : c \in Suggestions(o, u)}
        BY <3>4 DEF Suggestions
      <4> QED BY <2>1, <3>1, <4>1, <4>2
    <3> QED BY <3>3, <3>4
  <2> HIDE DEF sugg
  <2>3. e.sugg[c] = IF c \in Suggestions(d, t) THEN AtBack(d, sugg[c], t) ELSE sugg[c]
    BY <1>1
  <2>5. CASE c \in Suggestions(d, t)
    <3>1. IsQueue(d.prio, e.sugg[c]) /\ Members(e.sugg[c]) = Members(sugg[c]) \cup {t}
      BY <1>4, <2>2, <2>3, <2>5, SMTT(60)
    <3>2. {u \in R \ {t} : c \in Suggestions(d, u)} \cup {t} = {u \in R : c \in Suggestions(e, u)}
      BY <2>0, <2>5
    <3> QED BY <1>1, <2>2, <3>1, <3>2 DEF KeepsThreads
  <2>6. CASE c \notin Suggestions(d, t)
    <3>1. {u \in R \ {t} : c \in Suggestions(d, u)} = {u \in R : c \in Suggestions(e, u)}
      BY <2>0, <2>6, SMTT(60)
    <3> QED BY <1>1, <2>2, <2>3, <2>6, <3>1 DEF KeepsThreads
  <2> QED BY <2>5, <2>6
<1>7. \A u \in Threads : d.core[u] \in d.aff[u] \cup {NoCore}
  BY DEF Exact
<1>8. Exact(e, R)
  <2>1. DOMAIN e.sched = Cores /\ DOMAIN e.sugg = Cores
    BY <1>1
  <2> QED BY <1>1, <1>2, <1>5, <1>6, <1>7, <2>1 DEF Exact, KeepsThreads
<1> QED BY <1>1, <1>8 DEF e, Requeued

-----------------------------------------------------------------------------
(* The loops over the cores.                                               *)

\* The bodies of the three loops over the cores: the highest priority threads, the
\* idle cores of the scheduling data d, and the rotation of the queues.
Body(k, d, older, r, c) ==
    IF k = 1 THEN ScheduledTop(r, c)
    ELSE IF k = 2 THEN IF d.sched[c] = <<>> THEN FillIdleCore(r, c) ELSE r
    ELSE RotateScheduledQueue(r, c, older)

\* The states of a loop that starts with r, before each round and after the last.
IsLoop(f, k, d, older, r) ==
    f = [n \in 0 .. NumCores |-> IF n = 0 THEN r ELSE Body(k, d, older, f[n - 1], n - 1)]

\* Each of the loops has a result after every number of rounds.
LEMMA LoopExists ==
    ASSUME NEW k, NEW d, NEW older, NEW r
    PROVE  \E f : IsLoop(f, k, d, older, r)
<1> DEFINE Upto(f, n) == /\ DOMAIN f = 0 .. n /\ f[0] = r
                         /\ \A m \in 1 .. n : f[m] = Body(k, d, older, f[m - 1], m - 1)
           S == {n \in 0 .. NumCores : \E f : Upto(f, n)}
<1>0. NumCores \in Nat
  BY NumCoresAssumption
<1>1. 0 \in S
  <2>1. Upto([i \in 0 .. 0 |-> r], 0)
    BY SMTT(60)
  <2>2. 0 \in 0 .. NumCores
    BY <1>0, SMTT(60)
  <2> QED BY <2>1, <2>2
<1>2. ASSUME NEW n \in 0 .. NumCores - 1, n \in S PROVE n + 1 \in S
  <2>1. PICK f : Upto(f, n)
    BY <1>2
  <2> DEFINE x == Body(k, d, older, f[n], n)
             g == [i \in 0 .. n + 1 |-> IF i = n + 1 THEN x ELSE f[i]]
  <2>2. n \in Nat /\ n + 1 \in 0 .. NumCores /\ 0 # n + 1 /\ 0 \in 0 .. n + 1
        /\ n \in 0 .. n + 1 /\ n # n + 1 /\ n + 1 \in 0 .. n + 1 /\ (n + 1) - 1 = n
    BY <1>0, SMTT(60)
  <2>3. \A m \in 1 .. n + 1 : m # n + 1 => m \in 1 .. n /\ m \in 0 .. n + 1
                              /\ m - 1 \in 0 .. n + 1 /\ m - 1 # n + 1
    BY <2>2, SMTT(60)
  <2>4. ASSUME NEW m \in 1 .. n + 1 PROVE g[m] = Body(k, d, older, g[m - 1], m - 1)
    <3>1. CASE m = n + 1
      <4>1. g[m] = x /\ m - 1 = n /\ g[n] = f[n]
        BY <2>2, <3>1
      <4> QED BY <4>1
    <3>2. CASE m # n + 1
      <4>1. g[m] = f[m] /\ g[m - 1] = f[m - 1]
        BY <2>3, <3>2
      <4> QED BY <2>1, <2>3, <3>2, <4>1
    <3> QED BY <3>1, <3>2
  <2>5. Upto(g, n + 1)
    <3>1. g[0] = r
      BY <2>1, <2>2
    <3> HIDE DEF x
    <3> QED BY <2>4, <3>1
  <2> QED BY <2>2, <2>5
<1>3. NumCores \in S
  <2> HIDE DEF S
  <2> QED BY <1>0, <1>1, <1>2, UpTo
<1>4. PICK f : Upto(f, NumCores)
  BY <1>3
<1> DEFINE h == [n \in 0 .. NumCores |-> f[n]]
<1>5. \A n \in 0 .. NumCores : IF n = 0 THEN TRUE ELSE n \in 1 .. NumCores /\ n - 1 \in 0 .. NumCores
  BY <1>0, SMTT(60)
<1>6. h = [n \in 0 .. NumCores |-> IF n = 0 THEN r ELSE Body(k, d, older, h[n - 1], n - 1)]
  <2>1. ASSUME NEW n \in 0 .. NumCores PROVE h[n] = IF n = 0 THEN r ELSE Body(k, d, older, h[n - 1], n - 1)
    <3>1. CASE n = 0
      BY <1>4, <3>1
    <3>2. CASE n # 0
      <4>1. h[n - 1] = f[n - 1] /\ h[n] = f[n]
        BY <1>5, <3>2
      <4> QED BY <1>4, <1>5, <3>2, <4>1
    <3> QED BY <3>1, <3>2
  <2> QED BY <2>1
<1> QED BY <1>6 DEF IsLoop

-----------------------------------------------------------------------------
(* UpdateHighestPriorityThreads: what it stores.                           *)

\* Only what no queue depends on differs.
SameQueues(e, d) ==
    KeepsThreads(e, d) /\ e.sched = d.sched /\ e.sugg = d.sugg /\ e.core = d.core /\ e.update = d.update

\* The queues of e are exact if those of d are, which has the same.
LEMMA AlikeExact == ASSUME NEW d, NEW e, NEW R, Exact(d, R), AlikeQueues(e, d) PROVE Exact(e, R)
<1>1. \A u : Suggestions(e, u) = Suggestions(d, u)
  BY DEF Suggestions, AlikeQueues
<1> QED BY <1>1, SMTT(60) DEF Exact, AlikeQueues

\* The queues of e are exact if those of d are, and nothing that matters differs.
LEMMA SameQueuesExact == ASSUME NEW d, NEW e, NEW R, Exact(d, R), SameQueues(e, d) PROVE Exact(e, R)
<1>1. AlikeQueues(e, d)
  BY DEF AlikeQueues, SameQueues, KeepsThreads
<1> QED BY <1>1, AlikeExact

\* A search finds the first of the positions I, if there is one.
LEMMA FirstAtIs ==
    ASSUME NEW S, NEW s \in Seq(S), NEW I \in SUBSET DOMAIN s
    PROVE  /\ I = {} => FirstAt(s, I) = Null
           /\ I # {} => \E i \in I : FirstAt(s, I) = s[i]
<1>1. FirstPosition(s, I) \in I \cup {Len(s) + 1} /\ \A i \in I : FirstPosition(s, I) <= i
  BY FirstPositionIs
<1>2. I # {} => FirstPosition(s, I) # Len(s) + 1
  BY <1>1, SMTT(60)
<1> QED BY <1>1, <1>2 DEF FirstAt

\* Another thread is chosen for the core of the one who stores.
LEMMA CarriedOwn ==
    ASSUME NEW a \in Cores, NEW R, NEW d, NEW high, NEW own, NEW list, Carried(a, R, d, high, own, list),
           NEW new, DOMAIN new = Cores, \A b \in Cores \ {a} : new[b] = high[b]
    PROVE  Carried(a, R, d, new, TRUE, list)
<1>1. \A i \in DOMAIN list : list[i][1] \in Cores \ {a}
  BY SMTT(60) DEF Carried
<1>2. \A i \in DOMAIN list : \/ list[i][2] = new[list[i][1]]
                               \/ \E j \in DOMAIN list : j > i /\ list[j][1] = list[i][1]
  BY <1>1 DEF Carried
<1>3. \A c \in Cores \ {a} : high[c] # highest[c] => \E i \in DOMAIN list : list[i][1] = c
  BY DEF Carried
<1> QED BY <1>2, <1>3 DEF Carried

\* Another thread is chosen for another core.
LEMMA CarriedAppend ==
    ASSUME NEW a, NEW R \in SUBSET Threads, NEW d, NEW high, NEW own, NEW list,
           Carried(a, R, d, high, own, list),
           NEW c \in Cores \ {a}, NEW x, May(d, R, c, x),
           NEW new, DOMAIN new = Cores, new[c] = x, \A b \in Cores \ {c} : new[b] = high[b]
    PROVE  Carried(a, R, d, new, own, Append(list, <<c, x>>))
<1> DEFINE n == Len(list)
           s == Append(list, <<c, x>>)
<1>1. list \in Seq(Cores \X (Threads \cup {Null})) /\ <<c, x>> \in Cores \X (Threads \cup {Null})
  BY DEF Carried, May
<1>2. /\ s \in Seq(Cores \X (Threads \cup {Null})) /\ n \in Nat
      /\ DOMAIN list = 1 .. n /\ DOMAIN s = 1 .. n + 1
      /\ s[n + 1][1] = c /\ s[n + 1][2] = x /\ \A i \in 1 .. n : s[i] = list[i]
      /\ \A i \in DOMAIN list : list[i][1] \in Cores
  BY <1>1, SMTT(60)
<1> HIDE DEF n, s
<1>3. /\ \A i \in DOMAIN s : i = n + 1 \/ (i \in DOMAIN list /\ n + 1 > i)
      /\ DOMAIN list \subseteq DOMAIN s /\ n + 1 \in DOMAIN s
  BY <1>2, SMTT(60)
<1>4. \A i \in DOMAIN s : s[i][1] # a /\ May(d, R, s[i][1], s[i][2])
  <2>1. ASSUME NEW i \in DOMAIN list PROVE s[i][1] # a /\ May(d, R, s[i][1], s[i][2])
    BY <1>2 DEF Carried
  <2> QED BY <1>2, <1>3, <2>1
<1>5. ASSUME NEW b \in Cores \ {a}, new[b] # highest[b] PROVE \E i \in DOMAIN s : s[i][1] = b
  <2>1. CASE b = c
    BY <1>2, <1>3, <2>1
  <2>2. CASE b # c
    <3>1. PICK i \in DOMAIN list : list[i][1] = b
      BY <1>5, <2>2 DEF Carried
    <3> QED BY <1>2, <1>3, <3>1
  <2> QED BY <2>1, <2>2
<1>6. ASSUME NEW i \in DOMAIN s
      PROVE  s[i][2] = new[s[i][1]] \/ \E j \in DOMAIN s : j > i /\ s[j][1] = s[i][1]
  <2>1. CASE i = n + 1
    BY <1>2, <2>1
  <2>2. CASE i \in DOMAIN list /\ n + 1 > i
    <3>1. s[i] = list[i]
      BY <1>2, <2>2
    <3>2. CASE list[i][1] = c
      BY <1>2, <1>3, <2>2, <3>1, <3>2
    <3>3. CASE list[i][1] # c /\ list[i][2] = high[list[i][1]]
      BY <1>2, <2>2, <3>1, <3>3
    <3>4. CASE \E j \in DOMAIN list : j > i /\ list[j][1] = list[i][1]
      BY <1>2, <1>3, <3>1, <3>4
    <3> QED BY <2>2, <3>2, <3>3, <3>4 DEF Carried
  <2> QED BY <1>3, <2>1, <2>2
<1>7. (own => a \in Cores) /\ (a \in Cores /\ new[a] # highest[a] => own) /\ own \in BOOLEAN
  BY DEF Carried
<1>8. Carried(a, R, d, new, own, s)
  BY <1>2, <1>4, <1>5, <1>6, <1>7 DEF Carried
<1> QED BY <1>8 DEF s

\* The threads that were chosen for a core may still be.
LEMMA CarriedOn ==
    ASSUME NEW a, NEW R, NEW d, NEW e, NEW high, NEW own, NEW list,
           Carried(a, R, d, high, own, list), \A c \in Cores : \A x : May(d, R, c, x) => May(e, R, c, x)
    PROVE  Carried(a, R, e, high, own, list)
<1>1. \A i \in DOMAIN list : list[i][1] \in Cores
  BY SMTT(60) DEF Carried
<1> QED BY <1>1 DEF Carried

\* The state of UpdateHighestPriorityThreads.
Stored(a, R, r) ==
    /\ DOMAIN r = {"d", "high", "top", "by", "own", "stores"} /\ r.by = a /\ DOMAIN r.top = Cores
    /\ Carried(a, R, r.d, r.high, r.own, r.stores)

\* What SetTop makes of r.
TopSet(e, r, c, x) ==
    /\ SameQueues(e.d, r.d)
    /\ e.high[c] = x /\ e.top[c] = x
    /\ \A b \in Cores \ {c} : e.high[b] = r.high[b] /\ e.top[b] = r.top[b]

\* UpdateHighestPriorityThread keeps what is stored for the cores right.
LEMMA SetTopStored ==
    ASSUME NEW a, NEW R \in SUBSET Threads, NEW r, Stored(a, R, r), DOMAIN r.d = Fields,
           NEW c \in Cores, NEW x, May(r.d, R, c, x)
    PROVE  Stored(a, R, SetTop(r, c, x)) /\ TopSet(SetTop(r, c, x), r, c, x)
<1> DEFINE e == SetTop(r, c, x)
<1>0. DOMAIN r.high = Cores /\ DOMAIN r.top = Cores
  BY DEF Stored, Carried
<1>1. CASE r.high[c] = x
  <2>1. e = [r EXCEPT !.top[c] = x]
    BY <1>1 DEF SetTop
  <2> HIDE DEF e
  <2>2. /\ DOMAIN e = {"d", "high", "top", "by", "own", "stores"}
        /\ e.d = r.d /\ e.high = r.high /\ e.by = r.by /\ e.own = r.own /\ e.stores = r.stores
        /\ e.top = [r.top EXCEPT ![c] = x]
    BY <2>1, SMTT(60) DEF Stored
  <2>3. DOMAIN e.top = Cores /\ e.top[c] = x /\ \A b \in Cores \ {c} : e.top[b] = r.top[b]
    BY <1>0, <2>2
  <2>4. Stored(a, R, e)
    BY <2>2, <2>3 DEF Stored
  <2>5. TopSet(e, r, c, x)
    BY <1>1, <2>2, <2>3 DEF TopSet, SameQueues, KeepsThreads
  <2> QED BY <2>4, <2>5 DEF e
<1>2. CASE r.high[c] # x
  <2> DEFINE y == IF r.high[c] = Null THEN r.d.yielded ELSE {}
             s == IF c = r.by THEN r.stores ELSE Append(r.stores, <<c, x>>)
             o == r.own \/ c = r.by
  <2>1. e = [r EXCEPT !.top[c] = x, !.high[c] = x, !.own = o, !.stores = s, !.d.yielded = y]
    BY <1>2 DEF SetTop
  <2> HIDE DEF e, y, s, o
  <2>2. /\ DOMAIN e = {"d", "high", "top", "by", "own", "stores"}
        /\ e.d = [r.d EXCEPT !.yielded = y] /\ e.high = [r.high EXCEPT ![c] = x] /\ e.by = r.by
        /\ e.own = o /\ e.stores = s /\ e.top = [r.top EXCEPT ![c] = x]
    BY <2>1, SMTT(60) DEF Stored
  <2>3. /\ DOMAIN e.top = Cores /\ e.top[c] = x /\ \A b \in Cores \ {c} : e.top[b] = r.top[b]
        /\ DOMAIN e.high = Cores /\ e.high[c] = x /\ \A b \in Cores \ {c} : e.high[b] = r.high[b]
    BY <1>0, <2>2
  <2>4. SameQueues(e.d, r.d)
    BY <2>2, SMTT(60) DEF SameQueues, KeepsThreads, Fields
  <2>5. TopSet(e, r, c, x)
    BY <2>3, <2>4 DEF TopSet
  <2>6. Carried(a, R, r.d, e.high, e.own, e.stores)
    <3>1. r.by = a /\ Carried(a, R, r.d, r.high, r.own, r.stores)
      BY DEF Stored
    <3>2. CASE c = a
      <4>1. e.stores = r.stores /\ e.own = TRUE
        BY <2>2, <3>1, <3>2 DEF s, o
      <4>2. Carried(a, R, r.d, e.high, TRUE, r.stores)
        <5>1. a \in Cores /\ DOMAIN e.high = Cores /\ \A b \in Cores \ {a} : e.high[b] = r.high[b]
          BY <2>3, <3>2
        <5> QED BY <3>1, <5>1, CarriedOwn
      <4> QED BY <4>1, <4>2
    <3>3. CASE c # a
      <4>1. e.stores = Append(r.stores, <<c, x>>) /\ e.own = r.own
        BY <2>2, <3>1, <3>3 DEF s, o, Carried
      <4>2. Carried(a, R, r.d, e.high, r.own, Append(r.stores, <<c, x>>))
        BY <2>3, <3>1, <3>3, CarriedAppend, SMTT(60)
      <4> QED BY <4>1, <4>2
    <3> QED BY <3>2, <3>3
  <2>7. \A b, u : May(r.d, R, b, u) => May(e.d, R, b, u)
    BY <2>4 DEF May, SameQueues, KeepsThreads
  <2>8. Carried(a, R, e.d, e.high, e.own, e.stores)
    BY <2>6, <2>7, CarriedOn
  <2> QED BY <2>2, <2>3, <2>5, <2>8 DEF Stored, e
<1> QED BY <1>1, <1>2

\* The front of the queue of a core is a thread that the core may run.
LEMMA FrontMay ==
    ASSUME NEW d, NEW R, Exact(d, R), NEW c \in Cores
    PROVE  /\ May(d, R, c, FirstOf(d.sched[c]))
           /\ FirstOf(d.sched[c]) = Null <=> d.sched[c] = <<>>
           /\ FirstOf(d.sched[c]) # Null => FirstOf(d.sched[c]) \in Members(d.sched[c])
<1>1. /\ d.sched[c] \in Seq(Threads) /\ Members(d.sched[c]) = {t \in R : d.core[t] = c}
      /\ R \subseteq Threads /\ \A t \in Threads : d.core[t] \in d.aff[t] \cup {NoCore}
  BY DEF Exact, IsQueue
<1>2. CASE d.sched[c] = <<>>
  BY <1>2 DEF FirstOf, May
<1>3. CASE d.sched[c] # <<>>
  <2>1. 1 \in DOMAIN d.sched[c] /\ d.sched[c][1] \in Threads
    BY <1>1, <1>3, SMTT(60)
  <2>2. FirstOf(d.sched[c]) = d.sched[c][1] /\ d.sched[c][1] \in Members(d.sched[c])
    BY <1>3, <2>1 DEF FirstOf, Members
  <2>3. May(d, R, c, d.sched[c][1])
    BY <1>1, <2>2, NoCoreIsNone DEF May
  <2> QED BY <1>3, <2>1, <2>2, <2>3, NullAssumption
<1> QED BY <1>2, <1>3

\* The state in which the first loop starts.
Start(a, d) == [d |-> d, high |-> highest, top |-> [c \in Cores |-> Null],
                by |-> a, own |-> FALSE, stores |-> <<>>]

\* The first loop chooses the front of each queue.
LEMMA FirstLoop ==
    ASSUME DOMAIN highest = Cores, NEW a, NEW d, NEW R, Exact(d, R)
    PROVE  LET r == ForEachCore(ScheduledTop, Start(a, d))
           IN Stored(a, R, r) /\ SameQueues(r.d, d)
              /\ \A c \in Cores : r.high[c] = FirstOf(d.sched[c]) /\ r.top[c] = FirstOf(d.sched[c])
<1> DEFINE start == Start(a, d)
           at[n \in 0 .. NumCores] == IF n = 0 THEN start ELSE ScheduledTop(at[n - 1], n - 1)
           Inv(n, r) == /\ Stored(a, R, r) /\ SameQueues(r.d, d)
                        /\ \A c \in Cores : c < n => /\ r.high[c] = FirstOf(d.sched[c])
                                                     /\ r.top[c] = FirstOf(d.sched[c])
           S == {n \in 0 .. NumCores : Inv(n, at[n])}
<1>0. NumCores \in Nat /\ \A c \in Cores : c \in Int /\ 0 <= c /\ c < NumCores
  BY NumCoresAssumption, SMTT(60) DEF Cores
<1>1. at = [n \in 0 .. NumCores |-> IF n = 0 THEN start ELSE ScheduledTop(at[n - 1], n - 1)]
  <2> HIDE DEF start
  <2>2. \E f : f = [n \in 0 .. NumCores |-> IF n = 0 THEN start ELSE ScheduledTop(f[n - 1], n - 1)]
    <3>1. PICK f : IsLoop(f, 1, d, TRUE, start)
      BY LoopExists
    <3>2. \A x, c : Body(1, d, TRUE, x, c) = ScheduledTop(x, c)
      BY DEF Body
    <3>3. f = [n \in 0 .. NumCores |-> IF n = 0 THEN start ELSE ScheduledTop(f[n - 1], n - 1)]
      BY <3>1, <3>2 DEF IsLoop
    <3> QED BY <3>3
  <2> QED BY <2>2
<1>2. ForEachCore(ScheduledTop, start) = at[NumCores]
  BY DEF ForEachCore
<1> HIDE DEF at
<1>3. 0 \in S
  <2>1. at[0] = start /\ 0 \in 0 .. NumCores
    <3>1. 0 \in 0 .. NumCores
      BY <1>0, SMTT(60)
    <3> QED BY <1>1, <3>1
  <2>2. start.d = d /\ start.by = a /\ start.top = [c \in Cores |-> Null] /\ start.high = highest
        /\ start.own = FALSE /\ start.stores = <<>>
        /\ DOMAIN start = {"d", "high", "top", "by", "own", "stores"}
    BY SMTT(60) DEF Start
  <2>3. Carried(a, R, d, highest, FALSE, <<>>)
    <3>1. <<>> \in Seq(Cores \X (Threads \cup {Null})) /\ DOMAIN <<>> = {}
      BY SMTT(60)
    <3> QED BY <3>1 DEF Carried
  <2>4. Stored(a, R, start) /\ SameQueues(start.d, d)
    BY <2>2, <2>3 DEF Stored, SameQueues, KeepsThreads, Exact
  <2>5. \A c \in Cores : ~ (c < 0)
    BY <1>0, SMTT(60)
  <2> QED BY <2>1, <2>4, <2>5
<1>4. ASSUME NEW n \in 0 .. NumCores - 1, n \in S PROVE n + 1 \in S
  <2>1. n \in Cores /\ n + 1 \in 0 .. NumCores /\ n + 1 # 0 /\ (n + 1) - 1 = n
        /\ \A c \in Cores \ {n} : c < n + 1 => c < n
    BY <1>0, SMTT(60) DEF Cores
  <2> DEFINE r == at[n]
             x == FirstOf(d.sched[n])
  <2>2. Stored(a, R, r) /\ SameQueues(r.d, d) /\ Inv(n, r)
    BY <1>4
  <2>3. at[n + 1] = SetTop(r, n, x)
    <3>1. at[n + 1] = ScheduledTop(r, n)
      BY <1>1, <2>1
    <3>2. r.d.sched = d.sched
      BY <2>2 DEF SameQueues
    <3> QED BY <3>1, <3>2 DEF ScheduledTop
  <2>4. May(r.d, R, n, x)
    BY <2>1, <2>2, FrontMay DEF May, SameQueues, KeepsThreads
  <2>5. R \in SUBSET Threads /\ DOMAIN r.d = Fields
    BY <2>2 DEF Exact, SameQueues, KeepsThreads
  <2> HIDE DEF r, x, S, Inv
  <2>6. Stored(a, R, at[n + 1]) /\ TopSet(at[n + 1], r, n, x)
    BY <2>1, <2>2, <2>3, <2>4, <2>5, SetTopStored, SMTT(60)
  <2>7. SameQueues(at[n + 1].d, d)
    BY <2>2, <2>6 DEF TopSet, SameQueues, KeepsThreads
  <2>8. Inv(n + 1, at[n + 1])
    BY <2>1, <2>2, <2>6, <2>7 DEF TopSet, Inv, x
  <2> QED BY <2>1, <2>8 DEF S
<1>5. NumCores \in S
  <2> HIDE DEF S
  <2> QED BY <1>0, <1>3, <1>4, UpTo
<1>6. Inv(NumCores, at[NumCores])
  BY <1>5
<1> QED BY <1>0, <1>2, <1>6

-----------------------------------------------------------------------------
(* UpdateHighestPriorityThreads: the threads that move to an idle core.    *)

\* The front of a queue.
LEMMA FrontOfQueue ==
    ASSUME NEW p, NEW s, IsQueue(p, s)
    PROVE  /\ FirstOf(s) = Null <=> s = <<>>
           /\ FirstOf(s) # Null => FirstOf(s) \in Members(s)
           /\ s = <<>> <=> Members(s) = {}
           /\ Null \notin Members(s)
<1>1. s \in Seq(Threads) /\ DOMAIN s = 1 .. Len(s) /\ Len(s) \in Nat
      /\ (s = <<>> <=> Len(s) = 0) /\ \A i \in DOMAIN s : s[i] \in Threads
  BY SMTT(60) DEF IsQueue
<1>2. s # <<>> => 1 \in DOMAIN s
  BY <1>1, SMTT(60)
<1>3. s = <<>> => DOMAIN s = {}
  BY SMTT(60)
<1> QED BY <1>1, <1>2, <1>3, NullAssumption DEF FirstOf, Members

\* What the move of t to the idle core c makes of d.
MovedIn(e, d, R, t, c) ==
    /\ Exact(e, R) /\ KeepsThreads(e, d) /\ e.update = d.update
    /\ \A u \in Threads : e.core[u] = d.core[u] \/ e.core[u] \in Cores
    /\ FirstOf(e.sched[c]) = t
    /\ \A b \in Cores \ {c} :
          /\ e.sched[b] = <<>> <=> d.sched[b] = <<>>
          /\ FirstOf(d.sched[b]) # t => FirstOf(e.sched[b]) = FirstOf(d.sched[b])
          /\ FirstOf(d.sched[b]) = t => FirstOf(e.sched[b]) = NextIn(d.sched[b], t)
    /\ AllAllowed(e) => AllAllowed(d)
    /\ \A b \in Cores \ {c} : d.sched[b] = <<>> /\ IdleOK(d, b) => IdleOK(e, b)

\* A thread that is not alone on its core moves to the idle core c.
LEMMA MoveIn ==
    ASSUME NEW d, NEW R, Exact(d, R), NEW c \in Cores, d.sched[c] = <<>>,
           NEW t \in Members(d.sugg[c]),
           d.core[t] \in Cores => Members(d.sched[d.core[t]]) # {t}
    PROVE  MovedIn(ChangeCore(d, t, c, FALSE), d, R, t, c)
<1> DEFINE e == ChangeCore(d, t, c, FALSE)
           k == d.core[t]
<1>1. t \in R /\ t \in Threads /\ c \in d.aff[t] /\ k # c /\ k \in Cores \cup {NoCore}
  BY DEF Exact, Suggestions
<1>2. CoreChanged(e, d, t, c)
  BY <1>1, ChangeCoreFields
<1>a. Exact(e, R) /\ CoreIs(e, d, t, c)
  BY <1>1, ChangeCoreExact
<1>3. /\ Exact(e, R) /\ KeepsThreads(e, d) /\ e.update = d.update
      /\ \A u \in Threads : e.core[u] = IF u = t THEN c ELSE d.core[u]
  BY <1>a DEF CoreIs
<1> HIDE DEF e
<1>4. \A b \in Cores : /\ IsQueue(d.prio, d.sched[b]) /\ Members(d.sched[b]) = {u \in R : d.core[u] = b}
                       /\ IsQueue(e.prio, e.sched[b]) /\ Members(e.sched[b]) = {u \in R : e.core[u] = b}
  BY <1>3 DEF Exact
<1>5. \A b \in Cores : /\ FirstOf(d.sched[b]) = Null <=> d.sched[b] = <<>>
                       /\ d.sched[b] = <<>> <=> Members(d.sched[b]) = {}
                       /\ FirstOf(e.sched[b]) = Null <=> e.sched[b] = <<>>
                       /\ FirstOf(e.sched[b]) # Null => FirstOf(e.sched[b]) \in Members(e.sched[b])
                       /\ e.sched[b] = <<>> <=> Members(e.sched[b]) = {}
                       /\ FirstOf(d.sched[b]) # Null => FirstOf(d.sched[b]) \in Members(d.sched[b])
  BY <1>4, FrontOfQueue
<1>6. FirstOf(e.sched[c]) = t
  <2>1. Members(e.sched[c]) = {t}
    <3>1. {u \in R : d.core[u] = c} = {}
      BY <1>4, <1>5
    <3>2. R \subseteq Threads
      BY DEF Exact
    <3> QED BY <1>1, <1>3, <1>4, <3>1, <3>2, SMTT(60)
  <2> QED BY <1>5, <2>1
<1>7. ASSUME NEW b \in Cores \ {c}, b # k PROVE e.sched[b] = d.sched[b] /\ e.sugg[b] = d.sugg[b]
  BY <1>2, <1>7 DEF CoreChanged
<1>8. ASSUME k \in Cores
      PROVE  /\ d.sched[k] # <<>> /\ e.sched[k] # <<>> /\ t \in Members(d.sched[k])
             /\ FirstOf(d.sched[k]) # t => FirstOf(e.sched[k]) = FirstOf(d.sched[k])
             /\ FirstOf(d.sched[k]) = t => FirstOf(e.sched[k]) = NextIn(d.sched[k], t)
  <2>1. t \in Members(d.sched[k])
    BY <1>1, <1>4, <1>8
  <2>2. e.sched[k] = Without(d.sched[k], t)
    BY <1>2, <1>8 DEF CoreChanged
  <2>3. IsQueue(d.prio, d.sched[k])
    BY <1>4, <1>8
  <2>4. /\ Members(Without(d.sched[k], t)) = Members(d.sched[k]) \ {t}
        /\ FirstOf(d.sched[k]) # t => FirstOf(Without(d.sched[k], t)) = FirstOf(d.sched[k])
        /\ FirstOf(d.sched[k]) = t => FirstOf(Without(d.sched[k], t)) = NextIn(d.sched[k], t)
    BY <1>1, <2>3, WithoutQueue, SMTT(60)
  <2>5. Members(d.sched[k]) \ {t} # {}
    BY <1>8, <2>1
  <2> QED BY <1>5, <1>8, <2>1, <2>2, <2>4, <2>5
<1>9. ASSUME NEW b \in Cores \ {c}
      PROVE  /\ e.sched[b] = <<>> <=> d.sched[b] = <<>>
             /\ FirstOf(d.sched[b]) # t => FirstOf(e.sched[b]) = FirstOf(d.sched[b])
             /\ FirstOf(d.sched[b]) = t => FirstOf(e.sched[b]) = NextIn(d.sched[b], t)
  <2>1. CASE b = k
    BY <1>8, <2>1
  <2>2. CASE b # k
    <3>1. FirstOf(d.sched[b]) # t
      <4>1. t \notin Members(d.sched[b])
        BY <1>4, <2>2
      <4> QED BY <1>1, <1>5, <4>1, NullAssumption
    <3> QED BY <1>7, <2>2, <3>1
  <2> QED BY <2>1, <2>2
<1>10. ASSUME AllAllowed(e), NEW b \in Cores PROVE Allowed(d, FirstOf(d.sched[b]))
  <2>1. \A x : Allowed(e, x) <=> Allowed(d, x)
    BY <1>3 DEF Allowed, KeepsThreads
  <2>2. CASE b = c
    BY <2>2 DEF Allowed, FirstOf
  <2>3. CASE b # c /\ FirstOf(d.sched[b]) = t
    BY <1>6, <1>10, <2>1, <2>3 DEF AllAllowed
  <2>4. CASE b # c /\ FirstOf(d.sched[b]) # t
    BY <1>9, <1>10, <2>1, <2>4 DEF AllAllowed
  <2> QED BY <2>2, <2>3, <2>4
<1>11. ASSUME NEW b \in Cores \ {c}, d.sched[b] = <<>>, IdleOK(d, b) PROVE IdleOK(e, b)
  <2>1. b # k
    BY <1>8, <1>11
  <2>2. e.sugg[b] = d.sugg[b]
    BY <1>7, <1>11, <2>1
  <2> SUFFICES ASSUME NEW u \in Members(d.sugg[b])
               PROVE  e.core[u] \in Cores /\ Members(e.sched[e.core[u]]) = {u}
    BY <2>2 DEF IdleOK
  <2>3. d.core[u] \in Cores /\ Members(d.sched[d.core[u]]) = {u}
    BY <1>11 DEF IdleOK
  <2>4. u # t
    BY <2>3
  <2>5. u \in Threads
    BY DEF Exact
  <2>6. e.core[u] = d.core[u]
    BY <1>3, <2>4, <2>5
  <2>7. d.core[u] # c /\ d.core[u] # k
    BY <1>5, <1>8, <2>3, <2>4
  <2> QED BY <1>7, <2>3, <2>6, <2>7
<1>12. \A u \in Threads : e.core[u] = d.core[u] \/ e.core[u] \in Cores
  BY <1>3
<1>13. MovedIn(e, d, R, t, c)
  BY <1>3, <1>6, <1>9, <1>10, <1>11, <1>12 DEF MovedIn, AllAllowed
<1> QED BY <1>13 DEF e

\* The chosen threads are the fronts of the queues.
Tops(r) == \A c \in Cores : r.high[c] = FirstOf(r.d.sched[c]) /\ r.top[c] = FirstOf(r.d.sched[c])

\* What Migrate makes of r.
Migrated(e, r, a, R, t, c) ==
    /\ Stored(a, R, e) /\ SameQueues(e.d, ChangeCore(r.d, t, c, FALSE))
    /\ e.high[c] = t /\ e.top[c] = t
    /\ \A b \in Cores \ {c} : e.high[b] = r.high[b] /\ e.top[b] = r.top[b]

\* The move of t to core c, and the store that goes with it.
LEMMA MigrateStored ==
    ASSUME NEW a, NEW R, NEW r, Stored(a, R, r), Exact(r.d, R),
           NEW t \in R, NEW c \in Cores, c \in r.d.aff[t]
    PROVE  Migrated(Migrate(r, t, c), r, a, R, t, c)
<1> DEFINE x == ChangeCore(r.d, t, c, FALSE)
           m == [r EXCEPT !.d = x]
           e == SetTop(m, c, t)
<1>1. Migrate(r, t, c) = e
  BY DEF Migrate
<1>2. Exact(x, R) /\ CoreIs(x, r.d, t, c) /\ R \in SUBSET Threads
  <2>1. c \in r.d.aff[t] \cup {NoCore}
    OBVIOUS
  <2>2. R \in SUBSET Threads
    BY DEF Exact
  <2> QED BY <2>1, <2>2, ChangeCoreExact
<1> HIDE DEF x
<1>3. /\ DOMAIN m = {"d", "high", "top", "by", "own", "stores"} /\ m.d = x /\ m.high = r.high /\ m.top = r.top
      /\ m.by = r.by /\ m.own = r.own /\ m.stores = r.stores
  BY SMTT(60) DEF Stored
<1> HIDE DEF m
<1>4. \A b \in Cores : \A u : May(r.d, R, b, u) => May(x, R, b, u)
  BY <1>2 DEF May, CoreIs, KeepsThreads
<1>5. Carried(a, R, x, r.high, r.own, r.stores)
  BY <1>4, CarriedOn DEF Stored
<1>6. Stored(a, R, m)
  BY <1>3, <1>5 DEF Stored
<1>7. May(m.d, R, c, t) /\ DOMAIN m.d = Fields
  BY <1>2, <1>3 DEF May, CoreIs, KeepsThreads
<1>8. Stored(a, R, e) /\ TopSet(e, m, c, t)
  BY <1>2, <1>6, <1>7, SetTopStored
<1> HIDE DEF e
<1> QED BY <1>1, <1>3, <1>8 DEF TopSet, Migrated, x

\* What the attempt to fill the idle core c makes of r.
Filled(e, r, a, R, c) ==
    /\ Stored(a, R, e) /\ Exact(e.d, R) /\ Tops(e) /\ KeepsThreads(e.d, r.d) /\ e.d.update = r.d.update
    /\ \A u \in Threads : e.d.core[u] = r.d.core[u] \/ e.d.core[u] \in Cores
    /\ \A b \in Cores \ {c} : e.d.sched[b] = <<>> <=> r.d.sched[b] = <<>>
    /\ AllAllowed(e.d) => AllAllowed(r.d)
    /\ \A b \in Cores \ {c} : r.d.sched[b] = <<>> /\ IdleOK(r.d, b) => IdleOK(e.d, b)
    /\ e.d.sched[c] = <<>> /\ AllAllowed(e.d) => IdleOK(e.d, c)

\* The data of Filled, but for fields that no queue depends on.
LEMMA MovedFilled ==
    ASSUME NEW a, NEW R, NEW r, NEW e, NEW t, NEW c \in Cores, NEW x,
           Stored(a, R, e), Tops(e), MovedIn(x, r.d, R, t, c), t # Null, SameQueues(e.d, x)
    PROVE  Filled(e, r, a, R, c)
<1>1. Exact(x, R) /\ Exact(e.d, R)
  BY SameQueuesExact DEF MovedIn
<1>2. e.d.sched[c] # <<>>
  BY DEF MovedIn, SameQueues, FirstOf
<1>3. e.d.sched = x.sched /\ e.d.sugg = x.sugg /\ e.d.core = x.core /\ e.d.update = x.update /\ e.d.prio = x.prio
      /\ KeepsThreads(e.d, r.d)
  BY DEF SameQueues, KeepsThreads, MovedIn
<1>4. (AllAllowed(e.d) <=> AllAllowed(x)) /\ \A b : IdleOK(e.d, b) <=> IdleOK(x, b)
  BY <1>3 DEF AllAllowed, Allowed, IdleOK
<1> QED BY <1>1, <1>2, <1>3, <1>4 DEF MovedIn, Filled

\* The search of a thread for the idle core c, and its move.
LEMMA FillStep ==
    ASSUME NEW a, NEW R, NEW r, Stored(a, R, r), Exact(r.d, R), Tops(r),
           NEW c \in Cores, r.d.sched[c] = <<>>
    PROVE  Filled(FillIdleCore(r, c), r, a, R, c)
<1> DEFINE d == r.d
           s == d.sugg[c]
           After(t) == NextIn(d.sched[d.core[t]], t)
           spare == FirstWith(s, LAMBDA t : TopOnCoreOf(r, t) # t)
           leaving == FirstWith(s, LAMBDA t : After(t) # Null)
           top == TopOnCoreOf(r, spare)
           e == FillIdleCore(r, c)
<1>1. /\ IsQueue(d.prio, s) /\ s \in Seq(Threads) /\ Members(s) = {t \in R : c \in Suggestions(d, t)}
      /\ R \in SUBSET Threads
  BY DEF Exact, IsQueue
<1>2. ASSUME NEW t \in Members(s)
      PROVE  /\ t \in R /\ t \in Threads /\ t # Null /\ c \in d.aff[t] /\ c # d.core[t]
             /\ d.core[t] \in Cores \/ d.core[t] = NoCore
             /\ TopOnCoreOf(r, t) = IF d.core[t] = NoCore THEN Null ELSE FirstOf(d.sched[d.core[t]])
             /\ d.core[t] \in Cores => t \in Members(d.sched[d.core[t]])
  <2>1. t \in R /\ t \in Threads /\ t # Null /\ c \in d.aff[t] /\ c # d.core[t]
    BY <1>1, NullAssumption DEF Suggestions
  <2>2. d.core[t] \in Cores \/ d.core[t] = NoCore
    BY <2>1 DEF Exact
  <2>3. d.core[t] \in Cores => t \in Members(d.sched[d.core[t]])
    BY <2>1 DEF Exact
  <2> QED BY <2>1, <2>2, <2>3 DEF TopOnCoreOf, Tops
<1>3. \A t \in Members(s) : \E i \in DOMAIN s : s[i] = t
  BY DEF Members
<1>4. /\ spare = Null => \A t \in Members(s) : TopOnCoreOf(r, t) = t
      /\ spare # Null => spare \in Members(s) /\ TopOnCoreOf(r, spare) # spare
  <2> DEFINE I == {i \in DOMAIN s : TopOnCoreOf(r, s[i]) # s[i]}
  <2>1. spare = FirstAt(s, I)
    BY DEF FirstWith
  <2>2. (I = {} => spare = Null) /\ (I # {} => \E i \in I : spare = s[i])
    BY <1>1, <2>1, FirstAtIs
  <2> HIDE DEF spare
  <2> QED BY <1>2, <1>3, <2>2 DEF Members
<1>5. /\ leaving = Null => \A t \in Members(s) : After(t) = Null
      /\ leaving # Null => leaving \in Members(s) /\ After(leaving) # Null
  <2> DEFINE I == {i \in DOMAIN s : After(s[i]) # Null}
  <2>1. leaving = FirstAt(s, I)
    BY DEF FirstWith
  <2>2. (I = {} => leaving = Null) /\ (I # {} => \E i \in I : leaving = s[i])
    BY <1>1, <2>1, FirstAtIs
  <2> HIDE DEF leaving
  <2> QED BY <1>2, <1>3, <2>2 DEF Members
<1>6. e = CASE spare # Null -> IF top # Null /\ d.prio[top] < MigrationPriority THEN r ELSE Migrate(r, spare, c)
            [] spare = Null /\ leaving # Null -> Migrate(SetTop(r, d.core[leaving], After(leaving)), leaving, c)
            [] OTHER -> r
  BY DEF FillIdleCore
<1> HIDE DEF e, spare, leaving, After
<1>7. ASSUME AllAllowed(d) => IdleOK(d, c) PROVE Filled(r, r, a, R, c)
  <2>1. KeepsThreads(d, d)
    BY DEF KeepsThreads, Exact
  <2> QED BY <1>7, <2>1 DEF Filled
<1>8. CASE spare # Null /\ top # Null /\ d.prio[top] < MigrationPriority
  <2>1. e = r
    BY <1>6, <1>8
  <2> DEFINE k == d.core[spare]
  <2>2. k \in Cores /\ top = FirstOf(d.sched[k])
    BY <1>2, <1>4, <1>8
  <2> HIDE DEF top
  <2>3. d.prio[top] \in Int
    <3>1. IsQueue(d.prio, d.sched[k]) /\ Members(d.sched[k]) \subseteq Threads /\ d.prio \in [Threads -> Int]
      BY <1>1, <2>2 DEF Exact
    <3>2. top \in Members(d.sched[k])
      <4>1. FirstOf(d.sched[k]) # Null
        BY <1>8, <2>2
      <4>2. IsQueue(d.prio, d.sched[k])
        BY <3>1
      <4>3. FirstOf(d.sched[k]) \in Members(d.sched[k])
        BY <4>1, <4>2, FrontOfQueue, SMTT(60)
      <4> QED BY <2>2, <4>3
    <3> QED BY <3>1, <3>2
  <2>4. ~ (d.prio[top] >= MigrationPriority)
    BY <1>8, <2>3, PrioritiesAssumption, SMTT(60)
  <2>5. ~ AllAllowed(d)
    BY <1>8, <2>2, <2>4 DEF AllAllowed, Allowed
  <2> QED BY <1>7, <2>1, <2>5 DEF e
<1>9. CASE spare # Null /\ ~ (top # Null /\ d.prio[top] < MigrationPriority)
  <2> DEFINE k == d.core[spare]
             x == ChangeCore(d, spare, c, FALSE)
  <2>1. e = Migrate(r, spare, c)
    BY <1>6, <1>9
  <2>2. spare \in Members(s) /\ TopOnCoreOf(r, spare) # spare
    BY <1>4, <1>9
  <2>3. k \in Cores => FirstOf(d.sched[k]) # spare
    BY <1>2, <2>2, NoCoreIsNone
  <2>4. k \in Cores => Members(d.sched[k]) # {spare}
    <3> SUFFICES ASSUME k \in Cores, Members(d.sched[k]) = {spare} PROVE FALSE
      OBVIOUS
    <3>1. IsQueue(d.prio, d.sched[k])
      BY DEF Exact
    <3>2. d.sched[k] # <<>> /\ FirstOf(d.sched[k]) \in Members(d.sched[k])
      BY <3>1, FrontOfQueue
    <3> QED BY <2>3, <3>2
  <2>5. MovedIn(x, d, R, spare, c)
    BY <2>2, <2>4, MoveIn
  <2>6. /\ Stored(a, R, e) /\ SameQueues(e.d, x)
        /\ e.high[c] = spare /\ e.top[c] = spare
        /\ \A b \in Cores \ {c} : e.high[b] = r.high[b] /\ e.top[b] = r.top[b]
    <3>1. Migrated(e, r, a, R, spare, c)
      BY <1>2, <2>1, <2>2, MigrateStored
    <3> QED BY <3>1 DEF Migrated
  <2> HIDE DEF x
  <2>7. \A b \in Cores \ {c} : FirstOf(x.sched[b]) = FirstOf(d.sched[b])
    <3> SUFFICES ASSUME NEW b \in Cores \ {c}, FirstOf(d.sched[b]) = spare PROVE FALSE
      BY <2>5 DEF MovedIn
    <3>1. IsQueue(d.prio, d.sched[b]) /\ Members(d.sched[b]) = {t \in R : d.core[t] = b}
      BY DEF Exact
    <3>2. spare \in Members(d.sched[b])
      BY <1>9, <3>1, FrontOfQueue
    <3> QED BY <2>3, <3>1, <3>2
  <2>8. Tops(e)
    <3>1. e.d.sched = x.sched
      BY <2>6 DEF SameQueues
    <3>2. FirstOf(x.sched[c]) = spare
      BY <2>5 DEF MovedIn
    <3>3. \A b \in Cores \ {c} : e.high[b] = FirstOf(d.sched[b]) /\ e.top[b] = FirstOf(d.sched[b])
      BY <2>6 DEF Tops
    <3> QED BY <2>6, <2>7, <3>1, <3>2, <3>3 DEF Tops
  <2> QED BY <1>9, <2>5, <2>6, <2>8, MovedFilled DEF e
<1>10. CASE spare = Null /\ leaving # Null
  <2> DEFINE k == d.core[leaving]
             x == After(leaving)
             f == SetTop(r, k, x)
             y == ChangeCore(f.d, leaving, c, FALSE)
  <2>1. e = Migrate(f, leaving, c)
    BY <1>6, <1>10
  <2>2. leaving \in Members(s) /\ x # Null /\ TopOnCoreOf(r, leaving) = leaving
    BY <1>4, <1>5, <1>10
  <2>3. k \in Cores /\ FirstOf(d.sched[k]) = leaving /\ leaving \in R /\ leaving \in Threads /\ k # c
        /\ c \in d.aff[leaving]
    BY <1>2, <2>2
  <2>4. IsQueue(d.prio, d.sched[k]) /\ Members(d.sched[k]) = {t \in R : d.core[t] = k}
    BY <2>3 DEF Exact
  <2> DEFINE w == Without(d.sched[k], leaving)
  <2>5. IsQueue(d.prio, w) /\ Members(w) = Members(d.sched[k]) \ {leaving} /\ FirstOf(w) = x
    <3>1. TakenOut(d.prio, d.sched[k], leaving)
      BY <2>3, <2>4, WithoutSame
    <3> QED BY <2>3, <3>1 DEF TakenOut, After
  <2>6. x \in Members(d.sched[k]) /\ x # leaving
    BY <2>2, <2>5, FrontOfQueue
  <2>7. May(d, R, k, x)
    <3>1. x \in R /\ d.core[x] = k /\ k \in d.aff[x] \cup {NoCore}
      BY <2>4, <2>6 DEF Exact
    <3> QED BY <2>3, <3>1, NoCoreIsNone DEF May
  <2>8. Stored(a, R, f) /\ TopSet(f, r, k, x)
    BY <1>1, <2>3, <2>7, SetTopStored DEF Exact
  <2>9. SameQueues(f.d, d) /\ Exact(f.d, R)
    BY <2>8, SameQueuesExact DEF TopSet
  <2> HIDE DEF f, x, w
  <2>10. f.d.sched = d.sched /\ f.d.sugg = d.sugg /\ f.d.core = d.core /\ f.d.aff = d.aff
    BY <2>9 DEF SameQueues, KeepsThreads
  <2>11. MovedIn(y, f.d, R, leaving, c)
    <3>1. Members(f.d.sched[k]) # {leaving}
      BY <2>6, <2>10
    <3>2. f.d.sched[c] = <<>> /\ leaving \in Members(f.d.sugg[c]) /\ f.d.core[leaving] = k
      BY <2>2, <2>10
    <3> QED BY <2>9, <3>1, <3>2, MoveIn
  <2>12. /\ Stored(a, R, e) /\ SameQueues(e.d, y)
         /\ e.high[c] = leaving /\ e.top[c] = leaving
         /\ \A b \in Cores \ {c} : e.high[b] = f.high[b] /\ e.top[b] = f.top[b]
    <3>1. c \in f.d.aff[leaving]
      BY <2>3, <2>10
    <3>2. Migrated(e, f, a, R, leaving, c)
      BY <2>1, <2>3, <2>8, <2>9, <3>1, MigrateStored
    <3> QED BY <3>2 DEF Migrated
  <2> HIDE DEF y
  <2>13. ASSUME NEW b \in Cores \ {c} PROVE f.high[b] = FirstOf(y.sched[b]) /\ f.top[b] = FirstOf(y.sched[b])
    <3>1. CASE b = k
      <4>1. FirstOf(y.sched[k]) = x
        BY <2>3, <2>10, <2>11, <3>1 DEF MovedIn, x, After
      <4> QED BY <2>8, <3>1, <4>1 DEF TopSet
    <3>2. CASE b # k
      <4>1. FirstOf(d.sched[b]) # leaving
        <5>1. IsQueue(d.prio, d.sched[b]) /\ Members(d.sched[b]) = {t \in R : d.core[t] = b}
          BY DEF Exact
        <5>2. leaving \notin Members(d.sched[b])
          BY <3>2, <5>1
        <5> QED BY <1>10, <5>1, <5>2, FrontOfQueue
      <4>2. FirstOf(y.sched[b]) = FirstOf(d.sched[b])
        BY <2>10, <2>11, <4>1 DEF MovedIn
      <4> QED BY <2>8, <3>2, <4>2 DEF TopSet, Tops
    <3> QED BY <3>1, <3>2
  <2>14. Tops(e)
    BY <2>11, <2>12, <2>13 DEF Tops, MovedIn, SameQueues
  <2>15. Filled(e, f, a, R, c)
    BY <1>10, <2>11, <2>12, <2>14, MovedFilled
  <2>16. /\ KeepsThreads(e.d, d) /\ f.d.update = d.update
         /\ AllAllowed(f.d) <=> AllAllowed(d)
         /\ \A b : IdleOK(f.d, b) <=> IdleOK(d, b)
    BY <2>9, <2>10, <2>15 DEF Filled, SameQueues, KeepsThreads, AllAllowed, IdleOK, Allowed
  <2> QED BY <2>10, <2>15, <2>16 DEF Filled, e
<1>11. CASE spare = Null /\ leaving = Null
  <2>1. e = r
    BY <1>6, <1>11
  <2>2. IdleOK(d, c)
    <3> SUFFICES ASSUME NEW t \in Members(s) PROVE d.core[t] \in Cores /\ Members(d.sched[d.core[t]]) = {t}
      BY DEF IdleOK
    <3> DEFINE k == d.core[t]
               w == Without(d.sched[k], t)
    <3>1. k \in Cores /\ FirstOf(d.sched[k]) = t /\ t \in Threads /\ t \in Members(d.sched[k])
      BY <1>2, <1>4, <1>11
    <3>2. IsQueue(d.prio, d.sched[k])
      BY <3>1 DEF Exact
    <3>3. NextIn(d.sched[k], t) = Null
      BY <1>5, <1>11 DEF After
    <3>4. IsQueue(d.prio, w) /\ Members(w) = Members(d.sched[k]) \ {t} /\ FirstOf(w) = Null
      <4>1. TakenOut(d.prio, d.sched[k], t)
        BY <3>1, <3>2, WithoutSame
      <4> QED BY <3>1, <3>3, <4>1 DEF TakenOut
    <3>5. Members(w) = {}
      BY <3>4, FrontOfQueue
    <3> QED BY <3>1, <3>4, <3>5
  <2> QED BY <1>7, <2>1, <2>2 DEF e
<1> QED BY <1>8, <1>9, <1>10, <1>11

\* The body of the second loop.
Fill(d, r, c) == IF d.sched[c] = <<>> THEN FillIdleCore(r, c) ELSE r

\* The state of the second loop before core n.
Filling(n, r, a, d, R) ==
    /\ Stored(a, R, r) /\ Exact(r.d, R) /\ Tops(r) /\ KeepsThreads(r.d, d)
    /\ \A u \in Threads : r.d.core[u] = d.core[u] \/ r.d.core[u] \in Cores
    /\ \A c \in Cores : d.sched[c] = <<>> /\ ~ (c < n) => r.d.sched[c] = <<>>
    /\ \A c \in Cores : d.sched[c] # <<>> => r.d.sched[c] # <<>>
    /\ \A c \in Cores : c < n /\ r.d.sched[c] = <<>> /\ AllAllowed(r.d) => IdleOK(r.d, c)

\* A round of the second loop.
LEMMA FillRound ==
    ASSUME NEW n \in Cores, NEW r, NEW a, NEW d, NEW R, Filling(n, r, a, d, R)
    PROVE  Filling(n + 1, Fill(d, r, n), a, d, R)
<1>1. \A c \in Cores : c < n + 1 => c = n \/ c < n
  BY NumCoresAssumption, SMTT(60) DEF Cores
<1>2. ~ (n < n) /\ n < n + 1 /\ \A c \in Cores : ~ (c < n + 1) => ~ (c < n) /\ c # n
  BY NumCoresAssumption, SMTT(60) DEF Cores
<1>3. CASE d.sched[n] # <<>>
  <2>1. Fill(d, r, n) = r /\ r.d.sched[n] # <<>>
    BY <1>3 DEF Fill, Filling
  <2> QED BY <1>1, <1>2, <2>1 DEF Filling
<1>4. CASE d.sched[n] = <<>>
  <2> DEFINE e == FillIdleCore(r, n)
  <2>1. Fill(d, r, n) = e
    BY <1>4 DEF Fill
  <2>2. Filled(e, r, a, R, n)
    BY <1>2, <1>4, FillStep DEF Filling
  <2> HIDE DEF e
  <2>3. KeepsThreads(e.d, d)
    BY <2>2 DEF Filled, Filling, KeepsThreads
  <2>4. \A u \in Threads : e.d.core[u] = d.core[u] \/ e.d.core[u] \in Cores
    BY <2>2 DEF Filled, Filling
  <2>5. \A c \in Cores : /\ d.sched[c] = <<>> /\ ~ (c < n + 1) => e.d.sched[c] = <<>>
                         /\ d.sched[c] # <<>> => e.d.sched[c] # <<>>
    BY <1>2, <1>4, <2>2 DEF Filled, Filling
  <2>6. \A c \in Cores : c < n + 1 /\ e.d.sched[c] = <<>> /\ AllAllowed(e.d) => IdleOK(e.d, c)
    BY <1>1, <2>2 DEF Filled, Filling
  <2>7. Filling(n + 1, e, a, d, R)
    BY <2>2, <2>3, <2>4, <2>5, <2>6 DEF Filled, Filling
  <2> QED BY <2>1, <2>7
<1> QED BY <1>3, <1>4

\* The second loop.
FillAll(d, one) == ForEachCore(LAMBDA r, c : IF d.sched[c] = <<>> THEN FillIdleCore(r, c) ELSE r, one)

\* The second loop leaves no idle core that could run a thread.
LEMMA SecondLoop ==
    ASSUME NEW a, NEW d, NEW R, NEW one, Filling(0, one, a, d, R)
    PROVE  Updated(FillAll(d, one), a, d, R)
<1> DEFINE at[n \in 0 .. NumCores] ==
               IF n = 0 THEN one ELSE IF d.sched[n - 1] = <<>> THEN FillIdleCore(at[n - 1], n - 1) ELSE at[n - 1]
           S == {n \in 0 .. NumCores : Filling(n, at[n], a, d, R)}
<1>0. NumCores \in Nat /\ \A c \in Cores : c < NumCores
  BY NumCoresAssumption, SMTT(60) DEF Cores
<1>1. at = [n \in 0 .. NumCores |-> IF n = 0 THEN one ELSE Fill(d, at[n - 1], n - 1)]
  <2>1. \E f : f = [n \in 0 .. NumCores |-> IF n = 0 THEN one ELSE
                       IF d.sched[n - 1] = <<>> THEN FillIdleCore(f[n - 1], n - 1) ELSE f[n - 1]]
    <3>1. PICK f : IsLoop(f, 2, d, TRUE, one)
      BY LoopExists
    <3>2. \A x, c : Body(2, d, TRUE, x, c) = IF d.sched[c] = <<>> THEN FillIdleCore(x, c) ELSE x
      BY SMTT(60) DEF Body
    <3>3. f = [n \in 0 .. NumCores |-> IF n = 0 THEN one ELSE
                  IF d.sched[n - 1] = <<>> THEN FillIdleCore(f[n - 1], n - 1) ELSE f[n - 1]]
      BY <3>1, <3>2 DEF IsLoop
    <3> QED BY <3>3
  <2>2. at = [n \in 0 .. NumCores |-> IF n = 0 THEN one ELSE
                  IF d.sched[n - 1] = <<>> THEN FillIdleCore(at[n - 1], n - 1) ELSE at[n - 1]]
    BY <2>1
  <2> HIDE DEF at
  <2> QED BY <2>2 DEF Fill
<1>2. FillAll(d, one) = at[NumCores]
  BY DEF FillAll, ForEachCore
<1> HIDE DEF at
<1>3. 0 \in S
  <2>1. 0 \in 0 .. NumCores
    BY <1>0, SMTT(60)
  <2> QED BY <1>1, <2>1
<1>4. ASSUME NEW n \in 0 .. NumCores - 1, n \in S PROVE n + 1 \in S
  <2>1. n \in Cores /\ n + 1 \in 0 .. NumCores /\ n + 1 # 0 /\ (n + 1) - 1 = n
    BY <1>0, SMTT(60) DEF Cores
  <2>2. at[n + 1] = Fill(d, at[n], n)
    BY <1>1, <2>1
  <2>3. Filling(n + 1, at[n + 1], a, d, R)
    BY <1>4, <2>1, <2>2, FillRound
  <2> QED BY <2>1, <2>3
<1>5. NumCores \in S
  <2> HIDE DEF S
  <2> QED BY <1>0, <1>3, <1>4, UpTo
<1>6. Filling(NumCores, at[NumCores], a, d, R)
  BY <1>5
<1>7. Updated(at[NumCores], a, d, R)
  BY <1>0, <1>6 DEF Filling, Updated, Conserving, Tops, Stored
<1> QED BY <1>2, <1>7

\* UpdateHighestPriorityThreads chooses the fronts of exact queues.
LEMMA UpdateExact ==
    ASSUME DOMAIN highest = Cores, NEW a, NEW d, NEW R, Exact(d, R), d.update \/ Calm(d)
    PROVE  Updated(UpdateHighestPriorityThreads(a, d), a, d, R)
<1> DEFINE one == ForEachCore(ScheduledTop, Start(a, d))
<1>1. CASE ~d.update
  <2>1. UpdateHighestPriorityThreads(a, d) = Start(a, d)
    BY <1>1 DEF UpdateHighestPriorityThreads, Start
  <2>2. Start(a, d).d = d /\ Start(a, d).high = highest /\ Start(a, d).own = FALSE /\ Start(a, d).stores = <<>>
    BY SMTT(60) DEF Start
  <2>3. Carried(a, R, d, highest, FALSE, <<>>)
    <3>1. <<>> \in Seq(Cores \X (Threads \cup {Null})) /\ DOMAIN <<>> = {}
      BY SMTT(60)
    <3> QED BY <3>1 DEF Carried
  <2>4. KeepsThreads(d, d)
    BY DEF KeepsThreads, Exact
  <2> QED BY <1>1, <2>1, <2>2, <2>3, <2>4 DEF Updated, Calm
<1>2. CASE d.update
  <2>1. UpdateHighestPriorityThreads(a, d) = FillAll(d, one)
    BY <1>2 DEF UpdateHighestPriorityThreads, Start, FillAll
  <2>2. /\ Stored(a, R, one) /\ SameQueues(one.d, d)
        /\ \A c \in Cores : one.high[c] = FirstOf(d.sched[c]) /\ one.top[c] = FirstOf(d.sched[c])
    BY FirstLoop
  <2> HIDE DEF one
  <2>3. \A c \in Cores : ~ (c < 0)
    BY NumCoresAssumption, SMTT(60) DEF Cores
  <2>4. Exact(one.d, R)
    BY <2>2, SameQueuesExact
  <2>5. Filling(0, one, a, d, R)
    BY <2>2, <2>3, <2>4 DEF Filling, SameQueues, Tops
  <2> QED BY <2>1, <2>5, SecondLoop
<1> QED BY <1>1, <1>2

-----------------------------------------------------------------------------
(* The handlers keep the scheduling data good.                             *)

\* Calm depends on which threads are in the queues, and on the fronts.
LEMMA CalmSame ==
    ASSUME NEW d, NEW e, NEW R, Exact(d, R), Exact(e, R), Calm(d),
           \A t \in R : e.prio[t] = d.prio[t] /\ e.core[t] = d.core[t] /\ e.aff[t] = d.aff[t],
           \A c \in Cores : FirstOf(e.sched[c]) = FirstOf(d.sched[c])
    PROVE  Calm(e)
<1>1. ASSUME NEW c \in Cores
      PROVE  /\ Members(e.sched[c]) = Members(d.sched[c]) /\ Members(e.sugg[c]) = Members(d.sugg[c])
             /\ Members(d.sched[c]) \subseteq R /\ Members(d.sugg[c]) \subseteq R
             /\ e.sched[c] = <<>> <=> d.sched[c] = <<>>
             /\ FirstOf(d.sched[c]) # Null => FirstOf(d.sched[c]) \in R
  <2>1. /\ Members(e.sched[c]) = {t \in R : e.core[t] = c} /\ Members(d.sched[c]) = {t \in R : d.core[t] = c}
        /\ Members(e.sugg[c]) = {t \in R : c \in Suggestions(e, t)}
        /\ Members(d.sugg[c]) = {t \in R : c \in Suggestions(d, t)}
        /\ IsQueue(e.prio, e.sched[c]) /\ IsQueue(d.prio, d.sched[c])
    BY DEF Exact
  <2>2. \A t \in R : Suggestions(e, t) = Suggestions(d, t)
    BY DEF Suggestions
  <2>3. Members(e.sched[c]) = Members(d.sched[c]) /\ Members(e.sugg[c]) = Members(d.sugg[c])
    BY <2>1, <2>2
  <2>4. /\ e.sched[c] = <<>> <=> d.sched[c] = <<>>
        /\ FirstOf(d.sched[c]) # Null => FirstOf(d.sched[c]) \in Members(d.sched[c])
    BY <2>1, <2>3, FrontOfQueue, SMTT(60)
  <2> QED BY <2>1, <2>3, <2>4
<1>2. AllAllowed(e) => AllAllowed(d)
  BY <1>1 DEF AllAllowed, Allowed
<1>3. \A c \in Cores : IdleOK(d, c) => IdleOK(e, c)
  <2> SUFFICES ASSUME NEW c \in Cores, IdleOK(d, c), NEW t \in Members(e.sugg[c])
               PROVE  e.core[t] \in Cores /\ Members(e.sched[e.core[t]]) = {t}
    BY DEF IdleOK
  <2>1. t \in Members(d.sugg[c]) /\ t \in R
    BY <1>1
  <2>2. d.core[t] \in Cores /\ Members(d.sched[d.core[t]]) = {t}
    BY <2>1 DEF IdleOK
  <2> QED BY <1>1, <2>1, <2>2
<1>4. Conserving(e)
  BY <1>1, <1>2, <1>3 DEF Calm, Conserving
<1> QED BY <1>4 DEF Calm

\* Nothing differs that matters to the runnable threads.
Agrees(e, d) ==
    /\ DOMAIN e = Fields /\ e.sched = d.sched /\ e.sugg = d.sugg /\ e.st = d.st /\ e.susp = d.susp
    /\ e.prio \in [Threads -> Int] /\ e.aff \in [Threads -> SUBSET Cores] /\ DOMAIN e.core = Threads
    /\ \A t \in Threads : e.core[t] \in e.aff[t] \cup {NoCore}
    /\ \A t \in Run(d) : e.prio[t] = d.prio[t] /\ e.core[t] = d.core[t] /\ e.aff[t] = d.aff[t]
    /\ (e.update <=> d.update) \/ e.update

\* Then the scheduling data stays good.
LEMMA AgreesGood == ASSUME NEW d, NEW e, Good(d), Agrees(e, d) PROVE Good(e)
<1> DEFINE R == Run(d)
<1>1. Run(e) = R
  BY DEF Agrees, Run, Runnable
<1>2. R \subseteq Threads
  BY DEF Run
<1> HIDE DEF R
<1>3. ASSUME NEW s, IsQueue(d.prio, s), Members(s) \subseteq R PROVE IsQueue(e.prio, s)
  <2>1. \A i \in DOMAIN s : s[i] \in R
    BY <1>3 DEF Members
  <2>2. \A i \in DOMAIN s : e.prio[s[i]] = d.prio[s[i]]
    BY <2>1 DEF Agrees, R
  <2> QED BY <1>3, <2>2 DEF IsQueue
<1>4. ASSUME NEW c \in Cores
      PROVE  /\ IsQueue(e.prio, e.sched[c]) /\ Members(e.sched[c]) = {t \in R : e.core[t] = c}
             /\ IsQueue(e.prio, e.sugg[c]) /\ Members(e.sugg[c]) = {t \in R : c \in Suggestions(e, t)}
  <2>1. /\ IsQueue(d.prio, d.sched[c]) /\ Members(d.sched[c]) = {t \in R : d.core[t] = c}
        /\ IsQueue(d.prio, d.sugg[c]) /\ Members(d.sugg[c]) = {t \in R : c \in Suggestions(d, t)}
    BY DEF Good, Exact, R
  <2>2. \A t \in R : Suggestions(e, t) = Suggestions(d, t) /\ e.core[t] = d.core[t]
    BY DEF Suggestions, Agrees, R
  <2>3. Members(d.sched[c]) = {t \in R : e.core[t] = c} /\ Members(d.sugg[c]) = {t \in R : c \in Suggestions(e, t)}
    BY <2>1, <2>2
  <2>4. IsQueue(e.prio, d.sched[c]) /\ IsQueue(e.prio, d.sugg[c])
    BY <1>3, <2>1
  <2> QED BY <2>3, <2>4 DEF Agrees
<1>5. Exact(e, R)
  BY <1>2, <1>4 DEF Exact, Agrees, Good
<1>6. e.update \/ Calm(e)
  <2>1. CASE e.update
    BY <2>1
  <2>2. CASE ~e.update
    <3>1. Calm(d) /\ Exact(d, R)
      BY <2>2 DEF Agrees, Good, R
    <3>2. \A t \in R : e.prio[t] = d.prio[t] /\ e.core[t] = d.core[t] /\ e.aff[t] = d.aff[t]
      BY DEF Agrees, R
    <3>3. \A c \in Cores : FirstOf(e.sched[c]) = FirstOf(d.sched[c])
      BY DEF Agrees
    <3> QED BY <1>5, <3>1, <3>2, <3>3, CalmSame
  <2> QED BY <2>1, <2>2
<1> QED BY <1>1, <1>5, <1>6 DEF Good, Agrees

\* Queues that are exact, and an update that is needed.
LEMMA UpdateGood ==
    ASSUME NEW d, DOMAIN d.st = Threads \cup Hosts, Exact(d, Run(d))
    PROVE  /\ Good(UpdateNeeded(d)) /\ KeepsThreads(UpdateNeeded(d), d) /\ UpdateNeeded(d).core = d.core
<1> DEFINE e == UpdateNeeded(d)
<1>1. KeepsThreads(e, d) /\ e.sched = d.sched /\ e.sugg = d.sugg /\ e.core = d.core /\ e.update = TRUE
  BY SMTT(60) DEF UpdateNeeded, Exact, KeepsThreads, Fields
<1> HIDE DEF e
<1>2. Run(e) = Run(d)
  BY <1>1 DEF Run, Runnable, KeepsThreads
<1>3. Exact(e, Run(d))
  <2>1. \A t : Suggestions(e, t) = Suggestions(d, t)
    BY <1>1 DEF Suggestions, KeepsThreads
  <2> QED BY <1>1, <2>1, SMTT(60) DEF Exact, KeepsThreads
<1> QED BY <1>1, <1>2, <1>3 DEF e, Good, KeepsThreads

\* A change of the state of t that leaves the queues to OnThreadStateChanged.
Flips(d, o, t) ==
    /\ DOMAIN d = Fields /\ DOMAIN d.st = Threads \cup Hosts
    /\ d.sched = o.sched /\ d.sugg = o.sugg /\ d.prio = o.prio /\ d.aff = o.aff /\ d.core = o.core
    /\ d.update = o.update
    /\ \A u \in Threads \ {t} : Runnable(d, u) <=> Runnable(o, u)

\* OnThreadStateChanged keeps the queues exact.
LEMMA StateChangedGood ==
    ASSUME NEW o, NEW d, Good(o), NEW t \in Threads, Flips(d, o, t)
    PROVE  LET e == OnThreadStateChanged(o, d, t)
           IN Good(e) /\ KeepsThreads(e, d) /\ e.core = d.core
<1> DEFINE e == OnThreadStateChanged(o, d, t)
           R == Run(o)
<1>1. Exact(o, R) /\ R \subseteq Threads /\ R = {u \in Threads : Runnable(o, u)}
  BY DEF Good, Run
<1>2. Run(d) = {u \in Threads : Runnable(d, u)}
  BY DEF Run
<1> HIDE DEF R
<1>3. Exact(d, R)
  <2>1. \A u : Suggestions(d, u) = Suggestions(o, u)
    BY DEF Suggestions, Flips
  <2> QED BY <1>1, <2>1, SMTT(60) DEF Exact, Flips
<1>4. CASE Runnable(o, t) /\ ~Runnable(d, t)
  <2> DEFINE x == RemoveMember(d, t)
  <2>1. e = UpdateNeeded(x)
    BY <1>4 DEF OnThreadStateChanged
  <2>2. Exact(x, R \ {t}) /\ KeepsThreads(x, d) /\ x.core = d.core
    <3>1. Repriced(d, d, t)
      BY <1>3 DEF Exact, Repriced
    <3> QED BY <1>3, <3>1, RemoveExact DEF Removed
  <2> HIDE DEF x
  <2>3. Run(x) = R \ {t} /\ DOMAIN x.st = Threads \cup Hosts
    <3>1. Run(x) = Run(d) /\ DOMAIN x.st = Threads \cup Hosts
      BY <2>2 DEF Run, Runnable, KeepsThreads, Flips
    <3>2. Run(d) = R \ {t}
      BY <1>1, <1>2, <1>4, SMTT(60) DEF Flips
    <3> QED BY <3>1, <3>2
  <2>4. Good(UpdateNeeded(x)) /\ KeepsThreads(UpdateNeeded(x), x) /\ UpdateNeeded(x).core = x.core
    BY <2>2, <2>3, UpdateGood
  <2> QED BY <2>1, <2>2, <2>4 DEF KeepsThreads
<1>5. CASE ~Runnable(o, t) /\ Runnable(d, t)
  <2> DEFINE x == PushBack(d, t)
  <2>1. e = UpdateNeeded(x)
    BY <1>5 DEF OnThreadStateChanged
  <2>2. Exact(x, R \cup {t}) /\ KeepsThreads(x, d) /\ x.core = d.core
    <3>1. t \in Threads \ R
      BY <1>1, <1>5
    <3> QED BY <1>3, <3>1, PushExact
  <2> HIDE DEF x
  <2>3. Run(x) = R \cup {t} /\ DOMAIN x.st = Threads \cup Hosts
    <3>1. Run(x) = Run(d) /\ DOMAIN x.st = Threads \cup Hosts
      BY <2>2 DEF Run, Runnable, KeepsThreads, Flips
    <3>2. Run(d) = R \cup {t}
      BY <1>1, <1>2, <1>5, SMTT(60) DEF Flips
    <3> QED BY <3>1, <3>2
  <2>4. Good(UpdateNeeded(x)) /\ KeepsThreads(UpdateNeeded(x), x) /\ UpdateNeeded(x).core = x.core
    BY <2>2, <2>3, UpdateGood
  <2> QED BY <2>1, <2>2, <2>4 DEF KeepsThreads
<1>6. CASE Runnable(o, t) <=> Runnable(d, t)
  <2>1. e = d
    BY <1>6 DEF OnThreadStateChanged
  <2>2. Run(d) = R
    BY <1>1, <1>2, <1>6, SMTT(60) DEF Flips
  <2>3. d.update \/ Calm(d)
    <3>1. CASE d.update
      BY <3>1
    <3>2. CASE ~d.update
      <4>1. Calm(o)
        BY <3>2 DEF Flips, Good
      <4> QED BY <1>1, <1>3, <4>1, CalmSame DEF Flips
    <3> QED BY <3>1, <3>2
  <2>4. Good(d)
    BY <1>3, <2>2, <2>3 DEF Good, Flips
  <2> QED BY <2>1, <2>4 DEF KeepsThreads, Flips
<1> QED BY <1>4, <1>5, <1>6

\* SetState keeps the scheduling data good.
LEMMA SetStateGood ==
    ASSUME NEW d, Good(d), NEW t \in Threads, NEW s
    PROVE  StateSet(SetState(d, t, s), d, t, s)
<1> DEFINE x == [d EXCEPT !.st[t] = s]
           st == [d.st EXCEPT ![t] = s]
<1>1. DOMAIN d = Fields /\ DOMAIN d.st = Threads \cup Hosts
  BY DEF Good, Exact
<1>2. DOMAIN st = Threads \cup Hosts /\ \A u \in Threads \ {t} : st[u] = d.st[u]
  BY <1>1
<1>3. x = [d EXCEPT !.st = st]
  BY SMTT(60)
<1> HIDE DEF st
<1>4. /\ DOMAIN x = Fields /\ x.st = st
      /\ x.sched = d.sched /\ x.sugg = d.sugg /\ x.prio = d.prio /\ x.aff = d.aff /\ x.core = d.core
      /\ x.update = d.update /\ x.susp = d.susp /\ KeepsMarks(x, d)
  BY <1>1, <1>3, SMTT(60) DEF Fields, KeepsMarks
<1> HIDE DEF x
<1>5. Flips(x, d, t)
  BY <1>2, <1>4 DEF Flips, Runnable
<1>6. LET e == OnThreadStateChanged(d, x, t) IN Good(e) /\ KeepsThreads(e, x) /\ e.core = x.core
  BY <1>5, StateChangedGood
<1>7. SetState(d, t, s) = OnThreadStateChanged(d, x, t)
  BY DEF SetState, x
<1> QED BY <1>4, <1>6, <1>7 DEF KeepsThreads, KeepsMarks, st, StateSet

\* A change of the suspension of a thread keeps the scheduling data good.
LEMMA SetSuspendedGood ==
    ASSUME NEW d, Good(d), NEW t \in Threads, NEW on \in BOOLEAN
    PROVE  SuspendedSet(SetSuspended(d, t, on), d, t, on)
<1> DEFINE x == [d EXCEPT !.susp = IF on THEN @ \cup {t} ELSE @ \ {t}]
           susp == IF on THEN d.susp \cup {t} ELSE d.susp \ {t}
<1>1. DOMAIN d = Fields /\ DOMAIN d.st = Threads \cup Hosts
  BY DEF Good, Exact
<1>2. \A u \in Threads \ {t} : u \in susp <=> u \in d.susp
  OBVIOUS
<1>3. x = [d EXCEPT !.susp = susp]
  BY SMTT(60)
<1> HIDE DEF susp
<1>4. /\ DOMAIN x = Fields /\ x.st = d.st
      /\ x.sched = d.sched /\ x.sugg = d.sugg /\ x.prio = d.prio /\ x.aff = d.aff /\ x.core = d.core
      /\ x.update = d.update /\ x.susp = susp /\ KeepsMarks(x, d)
  BY <1>1, <1>3, SMTT(60) DEF Fields, KeepsMarks
<1> HIDE DEF x
<1>5. Flips(x, d, t)
  BY <1>1, <1>2, <1>4 DEF Flips, Runnable
<1>6. LET e == OnThreadStateChanged(d, x, t) IN Good(e) /\ KeepsThreads(e, x) /\ e.core = x.core
  BY <1>5, StateChangedGood
<1>7. SetSuspended(d, t, on) = OnThreadStateChanged(d, x, t)
  BY DEF SetSuspended, x
<1> QED BY <1>4, <1>6, <1>7 DEF KeepsThreads, KeepsMarks, susp, SuspendedSet

\* The state of a host is in no queue, and keeps the scheduling data good.
LEMMA SetHostStateGood ==
    ASSUME NEW d, Good(d), NEW h \in Hosts, NEW s
    PROVE  HostSet(SetHostState(d, h, s), d, h, s)
<1> DEFINE e == SetHostState(d, h, s)
           st == [d.st EXCEPT ![h] = s]
           woken == IF s = "runnable" THEN d.woken \cup {h} ELSE d.woken \ {h}
<1>1. DOMAIN d = Fields /\ DOMAIN d.st = Threads \cup Hosts /\ Exact(d, Run(d))
  BY DEF Good, Exact
<1>2. DOMAIN st = Threads \cup Hosts /\ \A u \in Threads : st[u] = d.st[u]
  BY <1>1, HostsAssumption
<1>3. e = [d EXCEPT !.st = st, !.update = TRUE, !.woken = woken]
  BY SMTT(60) DEF SetHostState
<1> HIDE DEF st, woken, e
<1>4. /\ DOMAIN e = Fields /\ e.st = st
      /\ e.sched = d.sched /\ e.sugg = d.sugg /\ e.prio = d.prio /\ e.aff = d.aff /\ e.core = d.core
      /\ e.update = TRUE /\ e.susp = d.susp /\ e.woken = woken
      /\ e.term = d.term /\ e.paused = d.paused
  BY <1>1, <1>3, SMTT(60) DEF Fields
<1>5. Run(e) = Run(d)
  BY <1>2, <1>4 DEF Run, Runnable
<1>6. Exact(e, Run(d))
  <2>1. \A u : Suggestions(e, u) = Suggestions(d, u)
    BY <1>4 DEF Suggestions
  <2> QED BY <1>1, <1>4, <2>1, SMTT(60) DEF Exact
<1> QED BY <1>2, <1>4, <1>5, <1>6 DEF Good, e, st, woken, HostSet

\* Then the scheduling data stays good.
LEMMA SameGood == ASSUME NEW d, NEW e, Good(d), SameAll(e, d) PROVE Good(e)
<1>1. Exact(d, Run(d))
  BY DEF Good
<1>2. Agrees(e, d)
  BY <1>1 DEF SameAll, Agrees, Exact
<1> QED BY <1>2, AgreesGood

\* The fields that are only counted or marked.
LEMMA MarkedSame ==
    ASSUME NEW d, DOMAIN d = Fields, NEW x, NEW y
    PROVE  /\ SameAll(Counted(d), d) /\ KeepsMarks(Counted(d), d)
           /\ LET e == [d EXCEPT !.yielded = x] IN SameAll(e, d) /\ KeepsMarks(e, d)
           /\ LET e == [d EXCEPT !.paused = x] 
              IN SameAll(e, d) /\ e.paused = x /\ e.term = d.term
           /\ LET e == [d EXCEPT !.term = x, !.paused = y] 
              IN SameAll(e, d) /\ e.term = x /\ e.paused = y
<1>1. SameAll(Counted(d), d) /\ KeepsMarks(Counted(d), d)
  BY SMTT(60) DEF Counted, SameAll, KeepsMarks, Fields
<1>2. LET e == [d EXCEPT !.yielded = x] IN SameAll(e, d) /\ KeepsMarks(e, d)
  BY SMTT(60) DEF SameAll, KeepsMarks, Fields
<1>4. LET e == [d EXCEPT !.paused = x] 
      IN SameAll(e, d) /\ e.paused = x /\ e.term = d.term
  BY SMTT(60) DEF SameAll, KeepsMarks, Fields
<1>5. LET e == [d EXCEPT !.term = x, !.paused = y] 
      IN SameAll(e, d) /\ e.term = x /\ e.paused = y
  BY SMTT(60) DEF SameAll, KeepsMarks, Fields
<1> QED BY <1>1, <1>2, <1>4, <1>5

\* A change of the priority of a thread keeps the scheduling data good.
LEMMA SetPriorityGood ==
    ASSUME NEW d, Good(d), NEW t \in Threads, NEW p \in Int, NEW running
    PROVE  PrioritySet(SetPriority(d, t, p, running), d)
<1> DEFINE e == SetPriority(d, t, p, running)
           x == [d EXCEPT !.prio[t] = p]
           prio == [d.prio EXCEPT ![t] = p]
           R == Run(d)
<1>1. DOMAIN d = Fields /\ DOMAIN d.st = Threads \cup Hosts /\ Exact(d, R) /\ d.prio \in [Threads -> Int]
  BY DEF Good, Exact
<1>2. prio \in [Threads -> Int] /\ (\A u \in Threads \ {t} : prio[u] = d.prio[u]) /\ prio[t] = p
  BY <1>1
<1>3. x = [d EXCEPT !.prio = prio]
  BY SMTT(60)
<1> HIDE DEF prio
<1>4. /\ DOMAIN x = Fields /\ x.prio = prio
      /\ x.sched = d.sched /\ x.sugg = d.sugg /\ x.st = d.st /\ x.aff = d.aff /\ x.core = d.core
      /\ x.update = d.update /\ x.susp = d.susp /\ KeepsMarks(x, d)
  BY <1>1, <1>3, SMTT(60) DEF Fields, KeepsMarks
<1>5. e = IF d.prio[t] = p \/ ~Runnable(d, t) THEN x ELSE UpdateNeeded(ChangePriority(x, running, t))
  BY DEF SetPriority
<1> HIDE DEF x, e
<1>6. CASE d.prio[t] = p \/ ~Runnable(d, t)
  <2>1. \A u \in Run(d) : x.prio[u] = d.prio[u]
    BY <1>2, <1>4, <1>6 DEF Run
  <2>2. Agrees(x, d)
    BY <1>1, <1>2, <1>4, <2>1 DEF Agrees, Exact
  <2>3. Good(x)
    BY <2>2, AgreesGood
  <2>4. e = x
    BY <1>5, <1>6
  <2> QED BY <1>4, <2>3, <2>4 DEF e, PrioritySet
<1>7. CASE ~(d.prio[t] = p) /\ Runnable(d, t)
  <2> DEFINE out == RemoveMember(x, t)
             in == ChangePriority(x, running, t)
  <2>1. Exact(out, R \ {t}) /\ KeepsThreads(out, x) /\ out.core = x.core
    <3>1. Repriced(x, d, t)
      BY <1>2, <1>4 DEF Repriced
    <3> HIDE DEF R
    <3>2. Removed(out, x, R, t)
      BY <1>1, <3>1, RemoveExact
    <3> QED BY <3>2 DEF Removed
  <2>2. in \in {PushBack(out, t), PushFront(out, t)}
    BY DEF ChangePriority
  <2> HIDE DEF out, in
  <2>3. Exact(in, (R \ {t}) \cup {t}) /\ KeepsThreads(in, out) /\ in.core = out.core
    <3> HIDE DEF R
    <3> QED BY <2>1, <2>2, PushExact, SMTT(60)
  <2>4. (R \ {t}) \cup {t} = R
    BY <1>7 DEF Run
  <2>5. Run(in) = R /\ DOMAIN in.st = Threads \cup Hosts
    BY <1>1, <1>4, <2>1, <2>3 DEF Run, Runnable, KeepsThreads
  <2>6. Exact(in, Run(in))
    BY <2>3, <2>4, <2>5
  <2>7. Good(UpdateNeeded(in)) /\ KeepsThreads(UpdateNeeded(in), in) /\ UpdateNeeded(in).core = in.core
    BY <2>5, <2>6, UpdateGood
  <2>8. e = UpdateNeeded(in)
    BY <1>5, <1>7 DEF in
  <2> QED BY <1>4, <2>1, <2>3, <2>7, <2>8 DEF e, PrioritySet, KeepsThreads, KeepsMarks
<1> QED BY <1>6, <1>7

\* A change of the mask of a thread keeps the scheduling data good.
LEMMA SetAffinityGood ==
    ASSUME NEW d, Good(d), NEW t \in Threads, NEW mask \in SUBSET Cores, NEW core \in mask
    PROVE  AffinitySet(SetAffinity(d, t, mask, core), d, t, mask)
<1> DEFINE e == SetAffinity(d, t, mask, core)
           at == IF d.core[t] \in mask \cup {NoCore} THEN d.core[t] ELSE core
           affs == [d.aff EXCEPT ![t] = mask]
           cores == [d.core EXCEPT ![t] = at]
           x == [d EXCEPT !.aff[t] = mask, !.core[t] = IF @ \in mask \cup {NoCore} THEN @ ELSE core]
           R == Run(d)
<1>1. DOMAIN d = Fields /\ DOMAIN d.st = Threads \cup Hosts /\ Exact(d, R) 
      /\ d.aff \in [Threads -> SUBSET Cores] /\ DOMAIN d.core = Threads 
      /\ \A u \in Threads : d.core[u] \in d.aff[u] \cup {NoCore}
  BY DEF Good, Exact
<1>2. /\ affs \in [Threads -> SUBSET Cores] /\ (\A u \in Threads \ {t} : affs[u] = d.aff[u]) /\ affs[t] = mask
      /\ DOMAIN cores = Threads /\ (\A u \in Threads \ {t} : cores[u] = d.core[u]) 
      /\ cores[t] \in mask \cup {NoCore} /\ (cores[t] = NoCore <=> d.core[t] = NoCore)
      /\ (mask = d.aff[t] => cores[t] = d.core[t])
  <2>1. at \in mask \cup {NoCore} /\ (at = NoCore <=> d.core[t] = NoCore) /\ (mask = d.aff[t] => at = d.core[t])
    BY <1>1, NoCoreIsNone
  <2> HIDE DEF at
  <2> QED BY <1>1, <2>1
<1>3. x = [d EXCEPT !.aff = affs, !.core = cores]
  BY <1>1, SMTT(60) DEF Fields
<1>5. e = IF mask = d.aff[t] \/ ~Runnable(d, t) THEN x ELSE UpdateNeeded(ChangeAffinityMask(x, d.core[t], d.aff[t], t))
  BY DEF SetAffinity
<1> HIDE DEF affs, cores, at, x, e
<1>4. /\ DOMAIN x = Fields /\ x.aff = affs /\ x.core = cores
      /\ x.sched = d.sched /\ x.sugg = d.sugg /\ x.st = d.st /\ x.prio = d.prio
      /\ x.update = d.update /\ x.susp = d.susp /\ KeepsMarks(x, d)
  BY <1>1, <1>3, SMTT(60) DEF Fields, KeepsMarks
<1>a. \A u \in Threads : x.core[u] \in x.aff[u] \cup {NoCore}
  BY <1>1, <1>2, <1>4
<1>6. CASE mask = d.aff[t] \/ ~Runnable(d, t)
  <2>1. \A u \in Run(d) : x.aff[u] = d.aff[u] /\ x.core[u] = d.core[u]
    BY <1>2, <1>4, <1>6 DEF Run
  <2>2. Agrees(x, d)
    BY <1>1, <1>2, <1>4, <1>a, <2>1 DEF Agrees, Exact
  <2>3. Good(x)
    BY <2>2, AgreesGood
  <2>4. e = x
    BY <1>5, <1>6
  <2> QED BY <1>2, <1>4, <2>3, <2>4 DEF e, AffinitySet
<1>7. CASE ~(mask = d.aff[t]) /\ Runnable(d, t)
  <2> DEFINE in == ChangeAffinityMask(x, d.core[t], d.aff[t], t)
  <2>1. Exact(in, R) /\ KeepsThreads(in, x) /\ in.core = x.core
    <3>1. t \in R
      BY <1>7 DEF Run
    <3>2. Remasked(x, d, t)
      BY <1>2, <1>4, <1>a DEF Remasked
    <3>3. Requeued(in, x, R)
      BY <1>1, <3>1, <3>2, ChangeAffinityExact
    <3> QED BY <3>3 DEF Requeued
  <2> HIDE DEF in
  <2>5. Run(in) = R /\ DOMAIN in.st = Threads \cup Hosts
    BY <1>1, <1>4, <2>1 DEF Run, Runnable, KeepsThreads
  <2>6. Exact(in, Run(in))
    BY <2>1, <2>5
  <2>7. Good(UpdateNeeded(in)) /\ KeepsThreads(UpdateNeeded(in), in) /\ UpdateNeeded(in).core = in.core
    BY <2>5, <2>6, UpdateGood
  <2>8. e = UpdateNeeded(in)
    BY <1>5, <1>7 DEF in
  <2>9. /\ KeepsMarks(e, d) /\ e.st = d.st /\ e.susp = d.susp /\ e.aff = affs /\ e.core = cores
    BY <1>4, <2>1, <2>7, <2>8 DEF KeepsThreads, KeepsMarks
  <2> QED BY <1>2, <2>7, <2>8, <2>9 DEF e, AffinitySet
<1> QED BY <1>6, <1>7

-----------------------------------------------------------------------------
(* Yielding and preemption.                                                *)

\* Setting yielded changes no queue.
LEMMA YieldedSame ==
    ASSUME NEW d, DOMAIN d = Fields, NEW x
    PROVE  SameQueues([d EXCEPT !.yielded = x], d)
<1>1. LET e == [d EXCEPT !.yielded = x] IN SameAll(e, d) /\ KeepsMarks(e, d)
  BY MarkedSame
<1> QED BY <1>1 DEF SameAll, KeepsMarks, SameQueues, KeepsThreads

\* A search finds nothing, or a member.
LEMMA FoundMember ==
    ASSUME NEW S, NEW s \in Seq(S), NEW I \in SUBSET DOMAIN s
    PROVE  FirstAt(s, I) = Null \/ FirstAt(s, I) \in Members(s)
BY FirstAtIs DEF Members

\* A thread that goes behind its equals leaves the front of the queue as it is, or
\* has one of them before it.
LEMMA BackFront ==
    ASSUME NEW d, d.prio \in [Threads -> Int], NEW s, IsQueue(d.prio, s), NEW t \in Members(s),
           NEW e, e.prio = d.prio
    PROVE  LET n == AtBack(d, Without(s, t), t)
           IN FirstOf(n) = FirstOf(s) \/ FirstOfPriority(e, n, d.prio[t]) # t
<1> DEFINE w == Without(s, t)
           n == AtBack(d, w, t)
           I == {i \in DOMAIN n : e.prio[n[i]] = d.prio[t]}
<1>1. s \in Seq(Threads) /\ t \in Threads /\ DOMAIN s = 1 .. Len(s) /\ Len(s) \in Nat
  <2>1. s \in Seq(Threads)
    BY DEF IsQueue
  <2>2. DOMAIN s = 1 .. Len(s) /\ Len(s) \in Nat /\ \A i \in DOMAIN s : s[i] \in Threads
    BY <2>1, SMTT(60)
  <2> QED BY <2>1, <2>2 DEF Members
<1>2. /\ IsQueue(d.prio, w) /\ Members(w) = Members(s) \ {t}
      /\ FirstOf(s) # t => FirstOf(w) = FirstOf(s)
  BY <1>1, WithoutQueue, SMTT(60)
<1>3. /\ IsQueue(d.prio, n) /\ FirstOf(n) = IF w # <<>> /\ d.prio[w[1]] <= d.prio[t] THEN w[1] ELSE t
  BY <1>1, <1>2, AtBackQueue, SMTT(60)
<1>4. FirstOfPriority(e, n, d.prio[t]) = FirstAt(n, I)
  BY DEF FirstOfPriority, FirstWith
<1>5. \A x \in Members(s) : d.prio[FirstOf(s)] <= d.prio[x]
  <2> SUFFICES ASSUME NEW i \in DOMAIN s PROVE d.prio[FirstOf(s)] <= d.prio[s[i]]
    BY DEF Members
  <2>1. 1 \in DOMAIN s /\ s # <<>> /\ (i = 1 \/ 1 < i) /\ s[i] \in Threads /\ s[1] \in Threads
    BY <1>1, SMTT(60)
  <2>2. d.prio[s[i]] \in Int
    BY <2>1
  <2>3. CASE 1 < i
    BY <2>1, <2>3 DEF IsQueue, FirstOf
  <2>4. CASE i = 1
    BY <2>1, <2>2, <2>4, SMTT(60) DEF FirstOf
  <2> QED BY <2>1, <2>3, <2>4
<1> HIDE DEF w, n, I
<1>6. CASE FirstOf(s) # t
  <2>1. s # <<>> /\ FirstOf(s) # Null
    <3>1. s # <<>>
      BY FrontOfQueue
    <3> QED BY <3>1, FrontOfQueue
  <2>2. w # <<>> /\ w[1] = FirstOf(s)
    BY <1>2, <1>6, <2>1, FrontOfQueue DEF FirstOf
  <2>3. d.prio[w[1]] <= d.prio[t]
    BY <1>5, <2>2
  <2> QED BY <1>3, <2>2, <2>3 DEF n, w
<1>7. CASE FirstOf(s) = t
  <2>1. CASE FirstOf(n) = t
    BY <1>7, <2>1 DEF n, w
  <2>2. CASE FirstOf(n) # t
    <3>1. w # <<>> /\ d.prio[w[1]] <= d.prio[t] /\ FirstOf(n) = w[1]
      BY <1>3, <2>2
    <3>2. w[1] \in Members(w) /\ w[1] \in Members(s)
      BY <1>2, <3>1, FrontOfQueue DEF FirstOf
    <3>3. d.prio[t] <= d.prio[w[1]]
      BY <1>5, <1>7, <3>2
    <3>4. w[1] \in Threads
      BY <1>1, <3>2, SMTT(60) DEF Members
    <3>5. d.prio[w[1]] = d.prio[t]
      <4>1. d.prio[w[1]] \in Int /\ d.prio[t] \in Int
        BY <1>1, <3>4
      <4> QED BY <3>1, <3>3, <4>1, SMTT(60)
    <3>6. n \in Seq(Threads) /\ n # <<>> /\ n[1] = w[1]
      <4>1. FirstOf(n) # Null
        BY <1>2, <3>1, <3>2, FrontOfQueue
      <4> QED BY <1>3, <3>1, <4>1 DEF FirstOf, IsQueue
    <3>7. DOMAIN n = 1 .. Len(n) /\ Len(n) \in Nat /\ 1 \in DOMAIN n
      BY <3>6, SMTT(60)
    <3>8. 1 \in I /\ I \in SUBSET DOMAIN n
      BY <3>5, <3>6, <3>7 DEF I
    <3>9. FirstPosition(n, I) \in 1 .. Len(n) + 1 /\ FirstPosition(n, I) <= 1
      BY <3>6, <3>8, FirstPositionIs
    <3>10. FirstPosition(n, I) = 1
      BY <3>7, <3>9, SMTT(60)
    <3>11. FirstAt(n, I) = n[1]
      BY <3>8, <3>10 DEF FirstAt
    <3> QED BY <1>4, <2>2, <3>1, <3>6, <3>11 DEF n, w
  <2> QED BY <2>1, <2>2
<1> QED BY <1>6, <1>7

\* Exact queues, with an update.
LEMMA RearrangedUpdate ==
    ASSUME NEW d, Good(d), NEW t, NEW x, Exact(x, Run(d)), KeepsThreads(x, d),
           \A u \in Threads \ {t} : x.core[u] = d.core[u] \/ x.core[u] \in Cores
    PROVE  Rearranged(UpdateNeeded(x), d, t)
<1>1. Run(x) = Run(d) /\ DOMAIN x.st = Threads \cup Hosts
  BY DEF Run, Runnable, KeepsThreads, Good
<1>2. Exact(x, Run(x))
  BY <1>1
<1>3. Good(UpdateNeeded(x)) /\ KeepsThreads(UpdateNeeded(x), x) /\ UpdateNeeded(x).core = x.core
  BY <1>1, <1>2, UpdateGood
<1> QED BY <1>3 DEF Rearranged, KeepsThreads

\* Exact queues, with the threads and the fronts of before.
LEMMA RearrangedCalm ==
    ASSUME NEW d, Good(d), ~d.update, NEW t, NEW x, Exact(x, Run(d)), KeepsThreads(x, d), 
           \A u \in Threads : x.core[u] = d.core[u],
           \A c \in Cores : FirstOf(x.sched[c]) = FirstOf(d.sched[c])
    PROVE  Rearranged(x, d, t)
<1>1. Run(x) = Run(d) /\ DOMAIN x.st = Threads \cup Hosts /\ Run(d) \subseteq Threads
  BY DEF Run, Runnable, KeepsThreads, Good
<1>2. Calm(x)
  <2>1. Exact(d, Run(d)) /\ Calm(d)
    BY DEF Good
  <2>2. \A u \in Run(d) : x.prio[u] = d.prio[u] /\ x.core[u] = d.core[u] /\ x.aff[u] = d.aff[u]
    BY <1>1 DEF KeepsThreads
  <2> QED BY <2>1, <2>2, CalmSame
<1>3. Good(x)
  BY <1>1, <1>2 DEF Good
<1> QED BY <1>3 DEF Rearranged

\* The marks of the threads that yielded matter to no queue.
LEMMA RearrangedSame ==
    ASSUME NEW d, NEW t, NEW x, Rearranged(x, d, t), NEW y
    PROVE  Rearranged([x EXCEPT !.yielded = y], d, t)
<1>1. DOMAIN x = Fields
  BY DEF Rearranged, KeepsThreads
<1>2. LET e == [x EXCEPT !.yielded = y] IN SameAll(e, x) /\ KeepsMarks(e, x)
  BY <1>1, MarkedSame
<1>3. Good([x EXCEPT !.yielded = y])
  BY <1>2, SameGood DEF Rearranged
<1> HIDE DEF Rearranged
<1> DEFINE e == [x EXCEPT !.yielded = y]
<1> HIDE DEF e
<1>4. SameAll(e, x) /\ KeepsMarks(e, x) /\ Good(e)
  BY <1>2, <1>3 DEF e
<1>5. Rearranged(e, d, t)
  BY <1>4 DEF Rearranged, SameAll, KeepsMarks, KeepsThreads
<1> QED BY <1>5 DEF e

\* What follows when the thread goes behind its equals.
Behind(x, d, t) ==
    /\ Exact(x, Run(d)) /\ KeepsThreads(x, d) /\ x.core = d.core
    /\ FirstOfPriority(x, x.sched[d.core[t]], d.prio[t]) = t => Rearranged(x, d, t)

\* MoveToScheduledBack of a thread that yields.
LEMMA MovedBehind ==
    ASSUME NEW d, Good(d), ~d.update, NEW t \in Run(d), d.core[t] \in Cores
    PROVE  Behind([MoveToScheduledBack(d, t) EXCEPT !.yielded = {}], d, t)
<1> DEFINE m == MoveToScheduledBack(d, t)
           x == [m EXCEPT !.yielded = {}]
           R == Run(d)
           k == d.core[t]
<1>1. Exact(d, R) /\ t \in R
  BY DEF Good
<1>2. /\ Exact(m, R) /\ KeepsThreads(m, d) /\ m.update = d.update
      /\ m.core = d.core /\ m.sugg = d.sugg
      /\ m.sched[k] = AtBack(d, Without(d.sched[k], t), t)
      /\ \A c \in Cores \ {k} : m.sched[c] = d.sched[c]
  <2> HIDE DEF R
  <2> QED BY <1>1, MoveBackExact, SMTT(60)
<1> HIDE DEF m, R
<1>3. SameQueues(x, m)
  BY <1>2, YieldedSame DEF KeepsThreads
<1> HIDE DEF x
<1>4. Exact(x, R)
  BY <1>2, <1>3, SameQueuesExact
<1>5. KeepsThreads(x, d) /\ x.core = d.core /\ x.sched = m.sched
  BY <1>2, <1>3 DEF SameQueues, KeepsThreads
<1>6. ASSUME FirstOfPriority(x, x.sched[k], d.prio[t]) = t PROVE Rearranged(x, d, t)
  <2>1. /\ d.prio \in [Threads -> Int] /\ IsQueue(d.prio, d.sched[k]) /\ t \in Members(d.sched[k])
        /\ x.prio = d.prio
    BY <1>1, <1>5 DEF Exact, KeepsThreads, R
  <2>2. FirstOf(m.sched[k]) = FirstOf(d.sched[k])
    <3>1. LET n == AtBack(d, Without(d.sched[k], t), t)
          IN FirstOf(n) = FirstOf(d.sched[k]) \/ FirstOfPriority(x, n, d.prio[t]) # t
      BY <2>1, BackFront
    <3> QED BY <1>2, <1>5, <1>6, <3>1
  <2>3. \A c \in Cores : FirstOf(x.sched[c]) = FirstOf(d.sched[c])
    BY <1>2, <1>5, <2>2
  <2> QED BY <1>4, <1>5, <2>3, RearrangedCalm DEF R
<1> QED BY <1>4, <1>5, <1>6 DEF Behind, R, x, m

\* YieldWithoutCoreMigration.
LEMMA YieldWithoutGood ==
    ASSUME NEW d, Good(d), ~d.update, NEW t \in Run(d), d.core[t] \in Cores
    PROVE  Rearranged(YieldWithoutCoreMigration(d, t), d, t)
<1> DEFINE x == [MoveToScheduledBack(d, t) EXCEPT !.yielded = {}]
           e == YieldWithoutCoreMigration(d, t)
<1>1. Behind(x, d, t)
  BY MovedBehind
<1>2. e = IF FirstOfPriority(x, x.sched[d.core[t]], d.prio[t]) # t
          THEN UpdateNeeded(x) ELSE [x EXCEPT !.yielded = {t}]
  BY DEF YieldWithoutCoreMigration, NothingToYield
<1> HIDE DEF x, e
<1>3. Rearranged(UpdateNeeded(x), d, t)
  BY <1>1, RearrangedUpdate DEF Behind
<1>4. FirstOfPriority(x, x.sched[d.core[t]], d.prio[t]) = t => Rearranged([x EXCEPT !.yielded = {t}], d, t)
  BY <1>1, RearrangedSame DEF Behind
<1>5. Rearranged(e, d, t)
  BY <1>2, <1>3, <1>4
<1> QED BY <1>5 DEF e

\* A thread that is suggested to a core may move there.
LEMMA MoveHere ==
    ASSUME NEW d, NEW R, Exact(d, R), NEW c \in Cores, NEW s \in Members(d.sugg[c]), NEW f
    PROVE  /\ Exact(ChangeCore(d, s, c, f), R) /\ KeepsThreads(ChangeCore(d, s, c, f), d)
           /\ ChangeCore(d, s, c, f).update = d.update
           /\ \A u \in Threads : ChangeCore(d, s, c, f).core[u] = d.core[u] \/ ChangeCore(d, s, c, f).core[u] \in Cores
<1>1. s \in R /\ c \in d.aff[s] \cup {NoCore}
  BY DEF Exact, Suggestions
<1>2. Exact(ChangeCore(d, s, c, f), R) /\ CoreIs(ChangeCore(d, s, c, f), d, s, c)
  BY <1>1, ChangeCoreExact
<1> QED BY <1>2 DEF CoreIs

\* YieldWithCoreMigration.
LEMMA YieldWithGood ==
    ASSUME NEW d, Good(d), ~d.update, NEW t \in Run(d), d.core[t] \in Cores, NEW older
    PROVE  Rearranged(YieldWithCoreMigration(d, t, older), d, t)
<1> DEFINE c == d.core[t]
           x == [MoveToScheduledBack(d, t) EXCEPT !.yielded = {}]
           after == FirstOfPriority(x, x.sched[c], d.prio[t])
           Top(s) == IF d.core[s] = NoCore THEN Null ELSE highest[d.core[s]]
           Prefer(s) == \/ d.prio[s] > d.prio[t]
                        \/ d.prio[s] = d.prio[t] /\ after # t /\ older
           spare == FirstWith(x.sugg[c], LAMBDA s : Top(s) # s)
           I == {i \in DOMAIN x.sugg[c] : Top(x.sugg[c][i]) # x.sugg[c][i] /\ (Prefer(x.sugg[c][i]) \/ Allowed(d, Top(x.sugg[c][i])))}
           first == FirstWith(x.sugg[c], LAMBDA s : Top(s) # s /\ (Prefer(s) \/ Allowed(d, Top(s))))
           e == YieldWithCoreMigration(d, t, older)
<1>1. Behind(x, d, t)
  BY MovedBehind
<1>2. \/ first # Null /\ e = UpdateNeeded(ChangeCore(x, first, c, TRUE))
      \/ e = UpdateNeeded(x)
      \/ after = t /\ e \in {x, [x EXCEPT !.yielded = {t}]}
  <2> HIDE DEF x, after, spare, first, Prefer
  <2>1. e = CASE first # Null /\ ~Prefer(first) -> UpdateNeeded(ChangeCore(x, first, c, TRUE))
              [] (first = Null \/ Prefer(first)) /\ after # t -> UpdateNeeded(x)
              [] OTHER -> IF spare # first THEN x ELSE NothingToYield(x, t)
    BY DEF YieldWithCoreMigration, x, after, spare, first, Prefer
  <2> HIDE DEF e
  <2>2. CASE first # Null /\ ~Prefer(first)
    BY <2>1, <2>2
  <2>3. CASE (first = Null \/ Prefer(first)) /\ after # t
    BY <2>1, <2>3
  <2>4. CASE (first = Null \/ Prefer(first)) /\ after = t
    BY <2>1, <2>4 DEF NothingToYield
  <2> QED BY <2>2, <2>3, <2>4
<1>3. first = FirstAt(x.sugg[c], I) /\ I \in SUBSET DOMAIN x.sugg[c]
  BY DEF FirstWith
<1> HIDE DEF x, e, first, I
<1>4. first = Null \/ first \in Members(x.sugg[c])
  <2>1. x.sugg[c] \in Seq(Threads)
    BY <1>1 DEF Behind, Exact, IsQueue
  <2> QED BY <1>3, <2>1, FoundMember
<1>5. Rearranged(UpdateNeeded(x), d, t)
  BY <1>1, RearrangedUpdate DEF Behind
<1>6. after = t => Rearranged(x, d, t) /\ Rearranged([x EXCEPT !.yielded = {t}], d, t)
  BY <1>1, RearrangedSame DEF Behind
<1>7. first # Null => Rearranged(UpdateNeeded(ChangeCore(x, first, c, TRUE)), d, t)
  <2> DEFINE y == ChangeCore(x, first, c, TRUE)
  <2> SUFFICES ASSUME first # Null PROVE Rearranged(UpdateNeeded(y), d, t)
    OBVIOUS
  <2>1. Exact(x, Run(d)) /\ KeepsThreads(x, d) /\ x.core = d.core
    BY <1>1 DEF Behind
  <2>2. /\ Exact(y, Run(d)) /\ KeepsThreads(y, x)
        /\ \A u \in Threads : y.core[u] = x.core[u] \/ y.core[u] \in Cores
    BY <1>4, <2>1, MoveHere
  <2> HIDE DEF y
  <2>3. KeepsThreads(y, d) /\ \A u \in Threads \ {t} : y.core[u] = d.core[u] \/ y.core[u] \in Cores
    BY <2>1, <2>2 DEF KeepsThreads
  <2> QED BY <2>2, <2>3, RearrangedUpdate
<1>8. Rearranged(e, d, t)
  BY <1>2, <1>5, <1>6, <1>7
<1> QED BY <1>8 DEF e

\* YieldToAnyThread.
LEMMA YieldToAnyGood ==
    ASSUME NEW d, Good(d), ~d.update, NEW t \in Run(d), d.core[t] \in Cores
    PROVE  Rearranged(YieldToAnyThread(d, t), d, t)
<1> DEFINE c == d.core[t]
           z == ChangeCore(d, t, NoCore, FALSE)
           out == [z EXCEPT !.yielded = {}]
           I == {i \in DOMAIN out.sugg[c] : FrontOnCoreOf(out, out.sugg[c][i]) # out.sugg[c][i]}
           s == FirstWith(out.sugg[c], LAMBDA u : FrontOnCoreOf(out, u) # u)
           moved == IF s # Null /\ Allowed(d, FrontOnCoreOf(out, s))
                    THEN ChangeCore(out, s, c, FALSE) ELSE out
           e == YieldToAnyThread(d, t)
           R == Run(d)
<1>1. Exact(d, R) /\ t \in R /\ NoCore \in d.aff[t] \cup {NoCore} /\ c # NoCore
  BY NoCoreIsNone DEF Good
<1>2. Exact(z, R) /\ CoreIs(z, d, t, NoCore)
  <2> HIDE DEF R
  <2> QED BY <1>1, ChangeCoreExact
<1>3. e = CASE out.sched[c] # <<>> -> UpdateNeeded(out)
            [] out.sched[c] = <<>> /\ s # t -> UpdateNeeded(moved)
            [] OTHER -> NothingToYield(moved, t)
  BY DEF YieldToAnyThread
<1>4. s = FirstAt(out.sugg[c], I) /\ I \in SUBSET DOMAIN out.sugg[c]
  BY DEF FirstWith
<1>10. CoreChanged(z, d, t, NoCore)
  <2> HIDE DEF R
  <2> QED BY <1>1, ChangeCoreFields
<1> HIDE DEF e, I, s, R, z
<1>5. SameQueues(out, z)
  BY <1>2, YieldedSame DEF CoreIs, KeepsThreads
<1> HIDE DEF out
<1>6. /\ Exact(out, R) /\ KeepsThreads(out, d) /\ out.update = d.update
      /\ \A u \in Threads : out.core[u] = IF u = t THEN NoCore ELSE d.core[u]
  <2>1. Exact(out, R)
    BY <1>2, <1>5, SameQueuesExact
  <2> QED BY <1>2, <1>5, <2>1 DEF CoreIs, SameQueues, KeepsThreads
<1>7. s = Null \/ s \in Members(out.sugg[c])
  <2>1. out.sugg[c] \in Seq(Threads)
    BY <1>6 DEF Exact, IsQueue
  <2> QED BY <1>4, <2>1, FoundMember
<1>8. /\ Exact(moved, R) /\ KeepsThreads(moved, d) /\ moved.update = d.update
      /\ \A u \in Threads \ {t} : moved.core[u] = d.core[u] \/ moved.core[u] \in Cores
  <2>1. CASE moved = out
    BY <1>6, <2>1
  <2>2. CASE s # Null /\ moved = ChangeCore(out, s, c, FALSE)
    <3> DEFINE y == ChangeCore(out, s, c, FALSE)
    <3>1. Exact(y, R) /\ KeepsThreads(y, out) /\ y.update = out.update
          /\ \A u \in Threads : y.core[u] = out.core[u] \/ y.core[u] \in Cores
      BY <1>6, <1>7, <2>2, MoveHere
    <3> HIDE DEF y, moved
    <3>2. moved = y
      BY <2>2 DEF y
    <3> QED BY <1>6, <3>1, <3>2 DEF KeepsThreads
  <2> QED BY <2>1, <2>2
<1>9. Rearranged(UpdateNeeded(out), d, t) /\ Rearranged(UpdateNeeded(moved), d, t)
  <2> HIDE DEF moved
  <2> QED BY <1>6, <1>8, RearrangedUpdate DEF R
<1>11. ASSUME out.sched[c] = <<>>, s = t PROVE Rearranged(moved, d, t)
  <2> DEFINE y == ChangeCore(out, t, c, FALSE)
  <2>0. t \in Threads /\ t # Null /\ out.core[t] = NoCore
    BY <1>1, <1>6, NullAssumption DEF Exact
  <2>1. moved = y
    <3>1. FrontOnCoreOf(out, t) = Null
      BY <2>0 DEF FrontOnCoreOf
    <3> QED BY <1>11, <2>0, <3>1 DEF Allowed
  <2> HIDE DEF moved
  <2>2. c \in out.aff[t] \cup {NoCore}
    BY <1>1, <1>6, <2>0 DEF Exact, KeepsThreads
  <2>3. Exact(y, R) /\ CoreIs(y, out, t, c) /\ CoreChanged(y, out, t, c)
    <3>1. Exact(y, R) /\ CoreIs(y, out, t, c)
      BY <1>1, <1>6, <2>2, ChangeCoreExact
    <3>2. CoreChanged(y, out, t, c)
      BY <1>1, <1>6, <2>0, <2>2, ChangeCoreFields
    <3> QED BY <3>1, <3>2
  <2> HIDE DEF y
  <2>4. KeepsThreads(y, d) /\ \A u \in Threads : y.core[u] = d.core[u]
    BY <1>6, <2>3 DEF CoreIs, KeepsThreads
  <2>5. ASSUME NEW b \in Cores PROVE FirstOf(y.sched[b]) = FirstOf(d.sched[b])
    <3>1. CASE b # c
      <4>1. y.sched[b] = out.sched[b] /\ out.sched[b] = z.sched[b] /\ z.sched[b] = d.sched[b]
        BY <1>5, <1>10, <2>0, <2>3, <3>1, NoCoreIsNone DEF CoreChanged, SameQueues
      <4> QED BY <4>1
    <3>2. CASE b = c
      <4>1. out.sched[c] = Without(d.sched[c], t)
        BY <1>5, <1>10 DEF CoreChanged, SameQueues
      <4>2. IsQueue(d.prio, d.sched[c]) /\ IsQueue(y.prio, y.sched[c]) /\ t \in Members(d.sched[c])
        BY <1>1, <2>3 DEF Exact
      <4>3. Members(Without(d.sched[c], t)) = Members(d.sched[c]) \ {t}
        BY <2>0, <4>2, WithoutQueue, SMTT(60)
      <4>4. Members(<<>>) = {}
        BY SMTT(60) DEF Members
      <4>5. Members(d.sched[c]) = {t}
        BY <1>11, <4>1, <4>2, <4>3, <4>4
      <4>6. Members(y.sched[c]) = Members(d.sched[c])
        <5>1. Members(y.sched[c]) = {u \in R : y.core[u] = c} /\ Members(d.sched[c]) = {u \in R : d.core[u] = c}
              /\ R \subseteq Threads
          BY <1>1, <2>3 DEF Exact
        <5> QED BY <2>4, <5>1
      <4>7. FirstOf(y.sched[c]) = t /\ FirstOf(d.sched[c]) = t
        BY <4>2, <4>5, <4>6, FrontOfQueue, SMTT(60)
      <4> QED BY <3>2, <4>7
    <3> QED BY <3>1, <3>2
  <2>6. Rearranged(y, d, t)
    BY <2>3, <2>4, <2>5, RearrangedCalm DEF R
  <2> QED BY <2>1, <2>6
<1>12. out.sched[c] = <<>> /\ s = t => Rearranged(NothingToYield(moved, t), d, t)
  <2> HIDE DEF moved
  <2> QED BY <1>11, RearrangedSame DEF NothingToYield
<1>13. Rearranged(e, d, t)
  <2> HIDE DEF moved
  <2>1. CASE out.sched[c] # <<>>
    BY <1>3, <1>9, <2>1
  <2>2. CASE out.sched[c] = <<>> /\ s # t
    BY <1>3, <1>9, <2>2
  <2>3. CASE out.sched[c] = <<>> /\ s = t
    BY <1>3, <1>12, <2>3
  <2> QED BY <2>1, <2>2, <2>3
<1> QED BY <1>13 DEF e

\* Two such moves are one.
LEMMA ShuffledTwice ==
    ASSUME NEW d, NEW e, NEW x, NEW R, Shuffled(x, d, R), Shuffled(e, x, R) PROVE Shuffled(e, d, R)
BY DEF Shuffled, KeepsThreads

\* A thread of a higher place moves to the core it is suggested to, or none does.
LEMMA ShuffledHere ==
    ASSUME NEW d, NEW R, Exact(d, R), NEW c \in Cores, NEW s, s = Null \/ s \in Members(d.sugg[c]), NEW f,
           NEW e, e = d \/ (s # Null /\ e = ChangeCore(d, s, c, f))
    PROVE  Shuffled(e, d, R)
<1>1. CASE e = d
  BY <1>1 DEF Shuffled, KeepsThreads, Exact
<1>2. CASE s # Null /\ e = ChangeCore(d, s, c, f)
  BY <1>2, MoveHere DEF Shuffled
<1> QED BY <1>1, <1>2

\* RotateScheduledQueue.
LEMMA Rotated ==
    ASSUME NEW d, NEW R, Exact(d, R), NEW c \in Cores, NEW older
    PROVE  Shuffled(RotateScheduledQueue(d, c, older), d, R) /\ RotateScheduledQueue(d, c, older).update = TRUE
<1> DEFINE p == PreemptionPriority[c]
           T == {i \in DOMAIN d.sched[c] : d.prio[d.sched[c][i]] = p}
           top == FirstOfPriority(d, d.sched[c], p)
           moved == IF top = Null THEN d ELSE MoveToScheduledBack(d, top)
           after == FirstOfPriority(moved, moved.sched[c], p)
           Spare(e, s) == FrontOnCoreOf(e, s) # s
           Movable(e, s) == Spare(e, s) /\ Allowed(e, FrontOnCoreOf(e, s))
           prefer == top # after /\ older[c]
           E == {i \in DOMAIN moved.sugg[c] : d.prio[moved.sugg[c][i]] = p /\
                   IF prefer THEN Spare(moved, moved.sugg[c][i]) ELSE Movable(moved, moved.sugg[c][i])}
           equal == FirstWith(moved.sugg[c], LAMBDA s :
                        d.prio[s] = p /\ IF prefer THEN Spare(moved, s) ELSE Movable(moved, s))
           one == IF equal # Null /\ ~prefer THEN ChangeCore(moved, equal, c, TRUE) ELSE moved
           best == FirstOf(one.sched[c])
           B == {i \in DOMAIN one.sugg[c] : d.prio[one.sugg[c][i]] < d.prio[best] /\ Movable(one, one.sugg[c][i])}
           better == FirstWith(one.sugg[c], LAMBDA s : d.prio[s] < d.prio[best] /\ Movable(one, s))
           two == IF best # Null /\ d.prio[best] >= p /\ better # Null
                  THEN ChangeCore(one, better, c, TRUE) ELSE one
           yielded == IF two = d THEN two.yielded ELSE {}
           e == [two EXCEPT !.update = TRUE, !.yielded = IF two = d THEN @ ELSE {}]
<1>1. RotateScheduledQueue(d, c, older) = e
  BY DEF RotateScheduledQueue
<1>2. top = FirstAt(d.sched[c], T) /\ T \in SUBSET DOMAIN d.sched[c]
  BY DEF FirstOfPriority, FirstWith
<1>3. equal = FirstAt(moved.sugg[c], E) /\ E \in SUBSET DOMAIN moved.sugg[c]
  <2> HIDE DEF moved, prefer
  <2> QED BY DEF FirstWith
<1>4. better = FirstAt(one.sugg[c], B) /\ B \in SUBSET DOMAIN one.sugg[c]
  <2> HIDE DEF one, best
  <2> QED BY DEF FirstWith
<1> HIDE DEF top, T
<1>5. Shuffled(moved, d, R)
  <2>1. CASE top = Null
    BY <2>1 DEF Shuffled, KeepsThreads, Exact
  <2>2. CASE top # Null
    <3>1. d.sched[c] \in Seq(Threads)
      BY DEF Exact, IsQueue
    <3>2. top \in Members(d.sched[c])
      BY <1>2, <2>2, <3>1, FoundMember
    <3>3. top \in R /\ d.core[top] \in Cores
      BY <3>2 DEF Exact
    <3> DEFINE m == MoveToScheduledBack(d, top)
    <3>4. Exact(m, R) /\ KeepsThreads(m, d) /\ m.core = d.core
      BY <3>3, MoveBackExact, SMTT(60)
    <3> HIDE DEF m
    <3>5. moved = m
      BY <2>2 DEF m
    <3> QED BY <3>4, <3>5 DEF Shuffled
  <2> QED BY <2>1, <2>2
<1>a. one = moved \/ (equal # Null /\ one = ChangeCore(moved, equal, c, TRUE))
  <2> HIDE DEF moved, equal, prefer
  <2> QED OBVIOUS
<1>b. two = one \/ (better # Null /\ two = ChangeCore(one, better, c, TRUE))
  <2> HIDE DEF one, better, best
  <2> QED OBVIOUS
<1> HIDE DEF moved, equal, E, one, better, B, two
<1>6. Shuffled(one, moved, R)
  <2>1. Exact(moved, R) /\ moved.sugg[c] \in Seq(Threads)
    BY <1>5 DEF Shuffled, Exact, IsQueue
  <2>2. equal = Null \/ equal \in Members(moved.sugg[c])
    BY <1>3, <2>1, FoundMember
  <2> QED BY <1>a, <2>1, <2>2, ShuffledHere
<1>7. Shuffled(two, one, R)
  <2>1. Exact(one, R) /\ one.sugg[c] \in Seq(Threads)
    BY <1>6 DEF Shuffled, Exact, IsQueue
  <2>2. better = Null \/ better \in Members(one.sugg[c])
    BY <1>4, <2>1, FoundMember
  <2> QED BY <1>b, <2>1, <2>2, ShuffledHere
<1>8. Shuffled(two, d, R)
  <2>1. Shuffled(one, d, R)
    BY <1>5, <1>6, ShuffledTwice
  <2> QED BY <1>7, <2>1, ShuffledTwice
<1>9. e = [two EXCEPT !.update = TRUE, !.yielded = yielded] /\ DOMAIN two = Fields
  <2>1. DOMAIN two = Fields
    BY <1>8 DEF Shuffled, Exact
  <2> QED BY <2>1, SMTT(60) DEF Fields
<1> HIDE DEF yielded, e
<1>10. KeepsThreads(e, two) /\ e.sched = two.sched /\ e.sugg = two.sugg /\ e.core = two.core /\ e.update = TRUE
  BY <1>9, SMTT(60) DEF KeepsThreads, Fields
<1>11. Exact(e, R)
  <2>1. \A t : Suggestions(e, t) = Suggestions(two, t)
    BY <1>10 DEF Suggestions, KeepsThreads
  <2>2. Exact(two, R)
    BY <1>8 DEF Shuffled
  <2> QED BY <1>10, <2>1, <2>2, SMTT(60) DEF Exact, KeepsThreads
<1>12. Shuffled(e, d, R) /\ e.update = TRUE
  BY <1>8, <1>10, <1>11 DEF Shuffled, KeepsThreads
<1> QED BY <1>1, <1>12

\* One round of the loop: RotateScheduledQueue of a core.
LEMMA Turn ==
    ASSUME NEW d, NEW e, Turned(e, d), NEW c \in Cores, NEW older
    PROVE  Turned(RotateScheduledQueue(e, c, older), d)
<1> DEFINE x == RotateScheduledQueue(e, c, older)
           R == Run(d)
<1>1. Exact(e, R) /\ Shuffled(e, d, R)
  BY DEF Turned, Shuffled
<1> HIDE DEF R
<1>2. Shuffled(x, e, R) /\ x.update = TRUE
  BY <1>1, Rotated
<1> HIDE DEF x
<1>3. Shuffled(x, d, R)
  BY <1>1, <1>2, ShuffledTwice
<1>4. Run(x) = R /\ DOMAIN x.st = Threads \cup Hosts
  BY <1>2, <1>3 DEF Run, Runnable, Shuffled, KeepsThreads, R, Turned, Good
<1>5. Good(x)
  BY <1>2, <1>3, <1>4 DEF Good, Shuffled
<1> QED BY <1>3, <1>5 DEF x, R, Turned

\* The loop keeps the queues exact.
LEMMA RotateAllGood ==
    ASSUME NEW d, Good(d), NEW older
    PROVE  Turned(RotateAll(d, older), d)
<1> DEFINE at[n \in 0 .. NumCores] == IF n = 0 THEN d ELSE RotateScheduledQueue(at[n - 1], n - 1, older)
           S == {n \in 0 .. NumCores : Turned(at[n], d)}
<1>0. NumCores \in Nat
  BY NumCoresAssumption
<1>1. at = [n \in 0 .. NumCores |-> IF n = 0 THEN d ELSE RotateScheduledQueue(at[n - 1], n - 1, older)]
  <2>1. \E f : f = [n \in 0 .. NumCores |-> IF n = 0 THEN d ELSE RotateScheduledQueue(f[n - 1], n - 1, older)]
    <3>1. PICK f : IsLoop(f, 3, d, older, d)
      BY LoopExists
    <3>2. \A x, c : Body(3, d, older, x, c) = RotateScheduledQueue(x, c, older)
      BY SMTT(60) DEF Body
    <3>3. f = [n \in 0 .. NumCores |-> IF n = 0 THEN d ELSE RotateScheduledQueue(f[n - 1], n - 1, older)]
      BY <3>1, <3>2 DEF IsLoop
    <3> QED BY <3>3
  <2> QED BY <2>1
<1>2. RotateAll(d, older) = at[NumCores]
  BY DEF RotateAll, ForEachCore
<1> HIDE DEF at
<1>3. 0 \in S
  <2>1. at[0] = d /\ 0 \in 0 .. NumCores
    BY <1>0, <1>1, SMTT(60)
  <2>2. Turned(d, d)
    BY DEF Turned, Shuffled, KeepsThreads, Good, Exact
  <2> QED BY <2>1, <2>2
<1>4. ASSUME NEW n \in 0 .. NumCores - 1, n \in S PROVE n + 1 \in S
  <2>1. n \in Cores /\ n + 1 \in 0 .. NumCores /\ n + 1 # 0 /\ (n + 1) - 1 = n
    BY <1>0, SMTT(60) DEF Cores
  <2>2. at[n + 1] = RotateScheduledQueue(at[n], n, older)
    BY <1>1, <2>1
  <2>3. Turned(RotateScheduledQueue(at[n], n, older), d)
    BY <1>4, <2>1, Turn
  <2> QED BY <2>1, <2>2, <2>3
<1>5. NumCores \in S
  <2> HIDE DEF S
  <2> QED BY <1>0, <1>3, <1>4, UpTo
<1> QED BY <1>2, <1>5

-----------------------------------------------------------------------------
(* The contract.                                                           *)

\* Whatever good scheduling data a handler under the scheduler lock begins with, it
\* leaves good data behind and changes only what it is to change.
THEOREM HandlersKeepContract == DataContract
<1>1. FrontsMay /\ AlikeKeeps
  BY NoCoreIsNone, FrontMay, AlikeExact DEF FrontsMay, AlikeKeeps
<1>2. SameKeeps /\ MarksKeep
  BY SameGood, MarkedSame DEF SameKeeps, MarksKeep
<1>3. UpdateChooses
  BY UpdateExact DEF UpdateChooses
<1>4. SetStateKeeps /\ SetSuspendedKeeps /\ SetHostStateKeeps
  BY SetStateGood, SetSuspendedGood, SetHostStateGood DEF SetStateKeeps, SetSuspendedKeeps, SetHostStateKeeps
<1>5. SetPriorityKeeps /\ SetAffinityKeeps
  BY SetPriorityGood, SetAffinityGood DEF SetPriorityKeeps, SetAffinityKeeps
<1>6. YieldsKeep /\ PreemptKeeps
  BY YieldWithoutGood, YieldWithGood, YieldToAnyGood, RotateAllGood DEF YieldsKeep, PreemptKeeps
<1> QED BY <1>1, <1>2, <1>3, <1>4, <1>5, <1>6 DEF DataContract
=============================================================================
