----------------------------- MODULE WaitProofs -----------------------------
(***************************************************************************)
(* Waits, and the timers that end them.                                    *)
(*                                                                         *)
(* KSynchronizationObject, for any finite number of threads, any objects   *)
(* and any number of them in a wait: the intrusive lists hold exactly the  *)
(* nodes of the waiting threads, and the walk of NotifyAvailable reaches   *)
(* all of them although it unlinks nodes as it goes.                       *)
(*                                                                         *)
(* CoreTiming, for any number of users, event types, calls and pauses: the *)
(* timer thread sleeps past no event, runs nothing that was stopped, uses  *)
(* no erased handle and serves a thread that spins in SyncPause.           *)
(*                                                                         *)
(* KHardwareTimer, for any tasks and any bound on time: its safety         *)
(* properties are inductive together.  AlwaysArmed needs NextTaskFirst to  *)
(* know that the time the timer is armed for covers every task, and        *)
(* TaskPerWait to know that a task that is registered was not in the tree. *)
(***************************************************************************)
EXTENDS KSynchronizationObject, CoreTiming, KHardwareTimer, FiniteSetTheorems,
        WellFoundedInduction, TLAPS

\* A leaf goes to Zenon, unless it cites the SMT solver for its arithmetic, records
\* or sequences.
USE ZenonT(30)

-----------------------------------------------------------------------------
(* Loops.                                                                  *)

\* A set of naturals that is not empty has a least element.
LEMMA LeastNatural ==
    ASSUME NEW I \in SUBSET Nat, I # {} PROVE \E k \in I : \A i \in I : k <= i
<1>1. PICK k \in I : \A i \in I : ~ (<<i, k>> \in OpToRel(<, Nat))
  BY WFMin, NatLessThanWellFounded
<1>2. \A i \in I : ~ (i < k)
  BY <1>1 DEF OpToRel
<1> QED BY <1>2, SMTT(60)

\* A set of naturals with 0 and with the successor of each of its elements below n
\* has all naturals up to n.
LEMMA UpTo ==
    ASSUME NEW n \in Nat, NEW S, 0 \in S, \A i \in 0 .. n - 1 : i \in S => i + 1 \in S
    PROVE  n \in S
<1> SUFFICES ASSUME n \notin S PROVE FALSE
  OBVIOUS
<1>1. PICK k \in {i \in 0 .. n : i \notin S} : \A i \in {j \in 0 .. n : j \notin S} : k <= i
  <2>1. {i \in 0 .. n : i \notin S} \in SUBSET Nat /\ n \in {i \in 0 .. n : i \notin S}
    BY SMTT(60)
  <2> QED BY <2>1, LeastNatural
<1>2. k # 0 /\ k - 1 \in 0 .. n - 1 /\ k - 1 \notin {j \in 0 .. n : j \notin S}
  BY <1>1, SMTT(60)
<1> QED BY <1>1, <1>2, SMTT(60)

\* What round i of a loop makes of r: the walk along a list a, the linking and the
\* unlinking of the nodes of thread a for the objects b, and the walk of
\* NotifyAvailable for object a.
Body(kind, a, b, r, i) ==
    IF kind = "walk" THEN IF r = NoNode THEN NoNode ELSE a.next[r]
    ELSE IF kind = "link" THEN LinkNode(r, b[i], <<a, i>>)
    ELSE IF kind = "unlink" THEN UnlinkNode(r, b[i], <<a, i>>)
    ELSE NotifyRound(r, a)

\* The states of a loop that starts with r, before each round and after the last.
IsLoop(f, n, kind, a, b, r) ==
    f = [i \in 0 .. n |-> IF i = 0 THEN r ELSE Body(kind, a, b, f[i - 1], i)]

\* Each of the loops has a result after every number of rounds.
LEMMA LoopExists ==
    ASSUME NEW N \in Nat, NEW kind, NEW a, NEW b, NEW r
    PROVE  \E f : IsLoop(f, N, kind, a, b, r)
<1> DEFINE Made(f, n) == /\ DOMAIN f = 0 .. n /\ f[0] = r
                         /\ \A m \in 1 .. n : f[m] = Body(kind, a, b, f[m - 1], m)
           S == {n \in 0 .. N : \E f : Made(f, n)}
<1>1. 0 \in S
  <2>1. Made([i \in 0 .. 0 |-> r], 0)
    BY SMTT(60)
  <2>2. 0 \in 0 .. N
    BY SMTT(60)
  <2> QED BY <2>1, <2>2
<1>2. ASSUME NEW n \in 0 .. N - 1, n \in S PROVE n + 1 \in S
  <2>1. PICK f : Made(f, n)
    BY <1>2
  <2> DEFINE x == Body(kind, a, b, f[n], n + 1)
             g == [i \in 0 .. n + 1 |-> IF i = n + 1 THEN x ELSE f[i]]
  <2>2. n \in Nat /\ n + 1 \in 0 .. N /\ 0 # n + 1 /\ 0 \in 0 .. n + 1
        /\ n \in 0 .. n + 1 /\ n # n + 1 /\ n + 1 \in 0 .. n + 1 /\ (n + 1) - 1 = n
    BY SMTT(60)
  <2>3. \A m \in 1 .. n + 1 : m # n + 1 => m \in 1 .. n /\ m \in 0 .. n + 1
                              /\ m - 1 \in 0 .. n + 1 /\ m - 1 # n + 1
    BY <2>2, SMTT(60)
  <2>4. ASSUME NEW m \in 1 .. n + 1 PROVE g[m] = Body(kind, a, b, g[m - 1], m)
    <3>1. CASE m = n + 1
      <4>1. g[m] = x /\ m - 1 = n /\ g[n] = f[n]
        BY <2>2, <3>1
      <4> QED BY <3>1, <4>1
    <3>2. CASE m # n + 1
      <4>1. g[m] = f[m] /\ g[m - 1] = f[m - 1]
        BY <2>3, <3>2
      <4> QED BY <2>1, <2>3, <3>2, <4>1
    <3> QED BY <3>1, <3>2
  <2>5. Made(g, n + 1)
    <3>1. g[0] = r
      BY <2>1, <2>2
    <3> HIDE DEF x
    <3> QED BY <2>4, <3>1
  <2> QED BY <2>2, <2>5
<1>3. N \in S
  <2> HIDE DEF S
  <2> QED BY <1>1, <1>2, UpTo
<1>4. PICK f : Made(f, N)
  BY <1>3
<1> DEFINE h == [i \in 0 .. N |-> f[i]]
<1>5. \A i \in 0 .. N : IF i = 0 THEN TRUE ELSE i \in 1 .. N /\ i - 1 \in 0 .. N
  BY SMTT(60)
<1>6. ASSUME NEW i \in 0 .. N PROVE h[i] = IF i = 0 THEN r ELSE Body(kind, a, b, h[i - 1], i)
  <2>1. CASE i = 0
    BY <1>4, <2>1
  <2>2. CASE i # 0
    <3>1. h[i - 1] = f[i - 1] /\ h[i] = f[i]
      BY <1>5, <2>2
    <3> QED BY <1>4, <1>5, <2>2, <3>1
  <2> QED BY <2>1, <2>2
<1>7. h = [i \in 0 .. N |-> IF i = 0 THEN r ELSE Body(kind, a, b, h[i - 1], i)]
  BY <1>6
<1> QED BY <1>7 DEF IsLoop

-----------------------------------------------------------------------------
(* Linked lists.                                                           *)

Ptr == Node \cup {NoNode}
ListType == [head : [Objects -> Ptr], tail : [Objects -> Ptr], next : [Node -> Ptr]]

\* The list of o consists of s[0], s[1] and so on, and s[k] is the null pointer
\* that ends it.
Chained(l, o, k, s) ==
    /\ k \in Nat /\ s \in [0 .. k -> Ptr] /\ s[k] = NoNode
    /\ \A i \in 0 .. k - 1 : s[i] \in Node /\ l.next[s[i]] = s[i + 1]
    /\ \A i, j \in 0 .. k - 1 : s[i] = s[j] => i = j
    /\ l.head[o] = s[0]
    /\ l.tail[o] = IF k = 0 THEN NoNode ELSE s[k - 1]

Linked(k, s) == {s[i] : i \in 0 .. k - 1}

\* The list of o has the nodes M.
Holds(l, o, M) == \E k, s : Chained(l, o, k, s) /\ Linked(k, s) = M

\* The lists have the nodes M, each in the list of one object.
Lists(l, M) ==
    /\ l \in ListType
    /\ \A o \in Objects : Holds(l, o, M[o])
    /\ \A o, p \in Objects : o # p => M[o] \cap M[p] = {}

\* There are finitely many nodes.
LEMMA NodesFinite == MaxNodes \in Nat /\ IsFiniteSet(Node)
<1>1. IsFiniteSet(1 .. MaxObjects)
  BY NodesAssumption, FS_Interval, SMTT(60)
<1>2. IsFiniteSet(Node)
  BY <1>1, NodesAssumption, FS_Product DEF Node
<1> QED BY <1>2, FS_CardinalityType DEF MaxNodes

\* A list is no longer than there are nodes.
LEMMA ChainShort ==
    ASSUME NEW l, NEW o, NEW k, NEW s, Chained(l, o, k, s)
    PROVE  k <= MaxNodes
<1> SUFFICES ASSUME ~ (k <= MaxNodes) PROVE FALSE
  OBVIOUS
<1> DEFINE S == 0 .. k - 1
           f == [i \in S |-> s[i]]
<1>1. k \in Nat /\ \A i \in S : s[i] \in Node
  BY DEF Chained
<1>2. IsFiniteSet(S) /\ Cardinality(S) = k
  <2>1. 0 \in Int /\ k - 1 \in Int
    BY <1>1, SMTT(60)
  <2>2. IsFiniteSet(S) /\ Cardinality(S) = IF 0 > k - 1 THEN 0 ELSE (k - 1) - 0 + 1
    BY <2>1, FS_Interval
  <2> QED BY <1>1, <2>2, SMTT(60)
<1>3. Cardinality(Node) < Cardinality(S)
  BY <1>1, <1>2, NodesFinite, SMTT(60) DEF MaxNodes
<1>4. f \in [S -> Node]
  BY <1>1
<1>5. \E x, y \in S : x # y /\ f[x] = f[y]
  <2> HIDE DEF S, f
  <2> QED BY <1>2, <1>3, <1>4, NodesFinite, FS_PigeonHole
<1> QED BY <1>5 DEF Chained

\* The walk along a list meets its nodes.
LEMMA WalkFollows ==
    ASSUME NEW l, NEW o, NEW k, NEW s, Chained(l, o, k, s)
    PROVE  /\ DOMAIN Walk(l, o) = 0 .. MaxNodes
           /\ \A i \in 0 .. k : Walk(l, o)[i] = s[i]
           /\ \A i \in k .. MaxNodes : Walk(l, o)[i] = NoNode
<1> DEFINE at[i \in 0 .. MaxNodes] ==
               IF i = 0 THEN l.head[o]
               ELSE LET n == at[i - 1] IN IF n = NoNode THEN NoNode ELSE l.next[n]
           S == {i \in 0 .. MaxNodes : at[i] = IF i <= k THEN s[i] ELSE NoNode}
<1>a. k <= MaxNodes
  BY ChainShort
<1>0. MaxNodes \in Nat /\ k \in Nat /\ k <= MaxNodes
  BY <1>a, NodesFinite DEF Chained
<1>1. at = [i \in 0 .. MaxNodes |->
               IF i = 0 THEN l.head[o]
               ELSE LET n == at[i - 1] IN IF n = NoNode THEN NoNode ELSE l.next[n]]
  <2>1. PICK f : IsLoop(f, MaxNodes, "walk", l, o, l.head[o])
    BY <1>0, LoopExists
  <2>2. f = [i \in 0 .. MaxNodes |->
               IF i = 0 THEN l.head[o]
               ELSE LET n == f[i - 1] IN IF n = NoNode THEN NoNode ELSE l.next[n]]
    BY <2>1 DEF IsLoop, Body
  <2> QED BY <2>2
<1>2. Walk(l, o) = at
  BY DEF Walk
<1> HIDE DEF at
<1>3. 0 \in S
  <2>1. 0 \in 0 .. MaxNodes /\ 0 <= k
    BY <1>0, SMTT(60)
  <2>2. at[0] = s[0]
    BY <1>1, <2>1 DEF Chained
  <2> QED BY <2>1, <2>2
<1>4. ASSUME NEW i \in 0 .. MaxNodes - 1, i \in S PROVE i + 1 \in S
  <2>1. i + 1 \in 0 .. MaxNodes /\ i + 1 # 0 /\ (i + 1) - 1 = i
    BY <1>0, SMTT(60)
  <2>2. at[i + 1] = IF at[i] = NoNode THEN NoNode ELSE l.next[at[i]]
    BY <1>1, <2>1
  <2>3. CASE i < k
    <3>1. i \in 0 .. k - 1 /\ i <= k /\ i + 1 <= k
      BY <1>0, <2>3, SMTT(60)
    <3>2. at[i] = s[i] /\ s[i] \in Node /\ l.next[s[i]] = s[i + 1]
      BY <1>4, <3>1 DEF Chained
    <3> QED BY <2>1, <2>2, <3>1, <3>2, NodesAssumption
  <2>4. CASE ~ (i < k)
    <3>1. ~ (i + 1 <= k) /\ (i <= k => i = k)
      BY <1>0, <2>4, SMTT(60)
    <3>2. at[i] = NoNode
      BY <1>4, <3>1 DEF Chained
    <3> QED BY <2>1, <2>2, <3>1, <3>2
  <2> QED BY <2>3, <2>4
<1>5. \A i \in 0 .. MaxNodes : i \in S
  <2> SUFFICES ASSUME NEW i \in 0 .. MaxNodes PROVE i \in S
    OBVIOUS
  <2>1. i \in Nat /\ \A j \in 0 .. i - 1 : j \in 0 .. MaxNodes - 1
    BY <1>0, SMTT(60)
  <2> HIDE DEF S
  <2> QED BY <1>3, <1>4, <2>1, UpTo
<1>6. \A i \in 0 .. k : i \in 0 .. MaxNodes /\ i <= k
  BY <1>0, SMTT(60)
<1>7. \A i \in k .. MaxNodes : i \in 0 .. MaxNodes /\ (i <= k => i = k)
  BY <1>0, SMTT(60)
<1> QED BY <1>1, <1>2, <1>5, <1>6, <1>7 DEF Chained

\* A list depends on its ends and on the pointers of its nodes.
LEMMA SameList ==
    ASSUME NEW l, NEW e, NEW o, NEW M, Holds(l, o, M),
           e.head[o] = l.head[o], e.tail[o] = l.tail[o], \A n \in M : e.next[n] = l.next[n]
    PROVE  Holds(e, o, M)
<1>1. PICK k, s : Chained(l, o, k, s) /\ Linked(k, s) = M
  BY DEF Holds
<1>2. \A i \in 0 .. k - 1 : e.next[s[i]] = l.next[s[i]]
  BY <1>1 DEF Linked
<1>3. Chained(e, o, k, s)
  BY <1>1, <1>2 DEF Chained
<1> QED BY <1>1, <1>3 DEF Holds

\* The new node comes after the last one.
LEMMA LinkChain ==
    ASSUME NEW l \in ListType, NEW o \in Objects, NEW k, NEW s, Chained(l, o, k, s),
           NEW n \in Node \ Linked(k, s)
    PROVE  Holds(LinkNode(l, o, n), o, Linked(k, s) \cup {n})
<1> DEFINE e == LinkNode(l, o, n)
           r == [i \in 0 .. k + 1 |-> IF i < k THEN s[i] ELSE IF i = k THEN n ELSE NoNode]
<1>1. k \in Nat /\ s \in [0 .. k -> Ptr] /\ (\A i \in 0 .. k - 1 : s[i] # n)
  BY DEF Chained, Linked
<1>2. /\ r \in [0 .. k + 1 -> Ptr] /\ r[k + 1] = NoNode /\ r[k] = n
      /\ \A i \in 0 .. k - 1 : r[i] = s[i]
  BY <1>1, SMTT(60) DEF Ptr
<1>3. /\ e.tail[o] = n
      /\ e.head[o] = IF k = 0 THEN n ELSE s[0]
      /\ e.next[n] = NoNode
      /\ k # 0 => e.next[s[k - 1]] = n
      /\ \A i \in 0 .. k - 2 : e.next[s[i]] = l.next[s[i]]
  <2>1. CASE k = 0
    <3>1. l.tail[o] = NoNode
      BY <2>1 DEF Chained
    <3> QED BY <2>1, <3>1, SMTT(60) DEF LinkNode, ListType
  <2>2. CASE k # 0
    <3>1. /\ k - 1 \in 0 .. k - 1 /\ l.tail[o] = s[k - 1] /\ l.head[o] = s[0]
          /\ \A i \in 0 .. k - 2 : i \in 0 .. k - 1 /\ i # k - 1
      BY <1>1, <2>2, SMTT(60) DEF Chained
    <3>2. s[k - 1] \in Node /\ s[k - 1] # NoNode /\ s[k - 1] # n
      BY <1>1, <3>1, NodesAssumption DEF Chained
    <3>3. \A i \in 0 .. k - 2 : s[i] \in Node /\ s[i] # s[k - 1] /\ s[i] # n
      BY <1>1, <3>1 DEF Chained
    <3> QED BY <2>2, <3>1, <3>2, <3>3, SMTT(60) DEF LinkNode, ListType
  <2> QED BY <2>1, <2>2
<1> HIDE DEF e, r
<1>4. ASSUME NEW i \in 0 .. k PROVE r[i] \in Node /\ e.next[r[i]] = r[i + 1]
  <2>1. CASE i = k
    BY <1>2, <1>3, <2>1
  <2>2. CASE i # k /\ i = k - 1
    <3>1. i \in 0 .. k - 1 /\ k # 0 /\ i + 1 = k
      BY <1>1, <2>2, SMTT(60)
    <3> QED BY <1>2, <1>3, <2>2, <3>1 DEF Chained
  <2>3. CASE i # k /\ i # k - 1
    <3>1. i \in 0 .. k - 1 /\ i \in 0 .. k - 2 /\ i + 1 \in 0 .. k - 1
      BY <1>1, <2>3, SMTT(60)
    <3> QED BY <1>2, <1>3, <3>1 DEF Chained
  <2> QED BY <2>1, <2>2, <2>3
<1>5. ASSUME NEW i \in 0 .. k, NEW j \in 0 .. k, r[i] = r[j] PROVE i = j
  <2>1. (i = k \/ i \in 0 .. k - 1) /\ (j = k \/ j \in 0 .. k - 1)
    BY <1>1, SMTT(60)
  <2> QED BY <1>1, <1>2, <1>5, <2>1 DEF Chained
<1>6. Chained(e, o, k + 1, r)
  <2>1. /\ k + 1 \in Nat /\ (k + 1) - 1 = k /\ k + 1 # 0 /\ (k # 0 => 0 \in 0 .. k - 1)
    BY <1>1, SMTT(60)
  <2>2. e.head[o] = r[0]
    BY <1>2, <1>3, <2>1
  <2> QED BY <1>2, <1>3, <1>4, <1>5, <2>1, <2>2 DEF Chained
<1>7. Linked(k + 1, r) = Linked(k, s) \cup {n}
  <2>1. (k + 1) - 1 = k /\ \A i : i \in 0 .. k <=> i = k \/ i \in 0 .. k - 1
    BY <1>1, SMTT(60)
  <2> QED BY <1>2, <2>1 DEF Linked
<1> QED BY <1>6, <1>7 DEF Holds, e

\* The node is linked into one list and the others stay as they are.
LEMMA LinkLists ==
    ASSUME NEW l, NEW M, Lists(l, M), NEW o \in Objects, NEW n \in Node,
           \A p \in Objects : n \notin M[p],
           NEW W, W[o] = M[o] \cup {n}, \A p \in Objects : p # o => W[p] = M[p]
    PROVE  Lists(LinkNode(l, o, n), W)
<1> DEFINE e == LinkNode(l, o, n)
<1>1. l \in ListType /\ \A p \in Objects : Holds(l, p, M[p])
  BY DEF Lists
<1>2. PICK k, s : Chained(l, o, k, s) /\ Linked(k, s) = M[o]
  BY <1>1 DEF Holds
<1>3. Holds(e, o, W[o])
  <2>1. n \in Node \ Linked(k, s) /\ W[o] = Linked(k, s) \cup {n}
    BY <1>2
  <2>2. Holds(e, o, Linked(k, s) \cup {n})
    BY <1>1, <1>2, <2>1, LinkChain
  <2> QED BY <2>1, <2>2
<1>4. l.tail[o] = NoNode \/ (l.tail[o] \in M[o] /\ l.tail[o] \in Node)
  <2>1. k \in Nat /\ (k # 0 => k - 1 \in 0 .. k - 1)
    BY <1>2, SMTT(60) DEF Chained
  <2> QED BY <1>2, <2>1 DEF Chained, Linked
<1>5. e \in ListType /\ \A x \in Node : x # n /\ x # l.tail[o] => e.next[x] = l.next[x]
  BY <1>1, <1>4, SMTT(60) DEF LinkNode, ListType, Ptr
<1>6. \A p \in Objects : p # o => e.head[p] = l.head[p] /\ e.tail[p] = l.tail[p]
  BY <1>1, SMTT(60) DEF LinkNode, ListType
<1>7. \A p \in Objects : M[p] \subseteq Node
  <2> SUFFICES ASSUME NEW p \in Objects PROVE M[p] \subseteq Node
    OBVIOUS
  <2>1. PICK j, r : Chained(l, p, j, r) /\ Linked(j, r) = M[p]
    BY <1>1 DEF Holds
  <2>2. \A i \in 0 .. j - 1 : r[i] \in Node
    BY <2>1 DEF Chained
  <2> QED BY <2>1, <2>2 DEF Linked
<1>8. ASSUME NEW p \in Objects, p # o PROVE Holds(e, p, W[p])
  <2>1. M[o] \cap M[p] = {} /\ NoNode \notin M[p] /\ W[p] = M[p]
    BY <1>7, <1>8, NodesAssumption DEF Lists
  <2>2. \A x \in M[p] : e.next[x] = l.next[x]
    BY <1>4, <1>5, <1>7, <2>1
  <2> QED BY <1>1, <1>6, <1>8, <2>1, <2>2, SameList
<1>9. ASSUME NEW p \in Objects, NEW q \in Objects, p # q PROVE W[p] \cap W[q] = {}
  <2>1. M[p] \cap M[q] = {} /\ n \notin M[p] /\ n \notin M[q]
    BY <1>9 DEF Lists
  <2>2. CASE p = o
    BY <1>9, <2>1, <2>2
  <2>3. CASE q = o
    BY <1>9, <2>1, <2>3
  <2>4. CASE p # o /\ q # o
    BY <2>1, <2>4
  <2> QED BY <2>2, <2>3, <2>4
<1> QED BY <1>3, <1>5, <1>8, <1>9 DEF Lists

\* The lists without s[m], when the list of o consists of s[0], s[1] and so on.
Unlinked(l, o, s, m) ==
    [head |-> IF m = 0 THEN [l.head EXCEPT ![o] = l.next[s[m]]] ELSE l.head,
     next |-> IF m = 0 THEN l.next ELSE [l.next EXCEPT ![s[m - 1]] = l.next[s[m]]],
     tail |-> IF l.tail[o] = s[m] THEN [l.tail EXCEPT ![o] = IF m = 0 THEN NoNode ELSE s[m - 1]]
              ELSE l.tail]

\* The walk to the node to be removed ends at it, and knows the node before it.
LEMMA UnlinkIs ==
    ASSUME NEW l, NEW o, NEW k, NEW s, Chained(l, o, k, s), NEW m \in 0 .. k - 1
    PROVE  UnlinkNode(l, o, s[m]) = Unlinked(l, o, s, m)
<1>a. /\ DOMAIN Walk(l, o) = 0 .. MaxNodes
      /\ \A i \in 0 .. k : Walk(l, o)[i] = s[i]
      /\ \A i \in k .. MaxNodes : Walk(l, o)[i] = NoNode
  BY WalkFollows, SMTT(60)
<1> DEFINE at == Walk(l, o)
           n == s[m]
<1>0. k \in Nat /\ k <= MaxNodes /\ MaxNodes \in Nat
  <2>1. k <= MaxNodes
    BY ChainShort
  <2> QED BY <2>1, NodesFinite DEF Chained
<1>1. DOMAIN at = 0 .. MaxNodes /\ \A i \in 0 .. k : at[i] = s[i]
  BY <1>a
<1>2. StepsTo(at, n) = m
  <2> HIDE DEF at
  <2>1. m \in DOMAIN at /\ m \in 0 .. k /\ \A j \in 0 .. m - 1 : j \in 0 .. k - 1 /\ j # m /\ j \in 0 .. k
    BY <1>0, <1>1, SMTT(60)
  <2>2. at[m] = n /\ \A j \in 0 .. m - 1 : at[j] # n
    BY <1>1, <2>1 DEF Chained
  <2>3. ASSUME NEW i \in DOMAIN at, at[i] = n, \A j \in 0 .. i - 1 : at[j] # n PROVE i = m
    <3>1. ~ (m < i)
      <4> SUFFICES ASSUME m < i PROVE FALSE
        OBVIOUS
      <4>1. m \in 0 .. i - 1
        BY <1>0, <1>1, <2>3, SMTT(60)
      <4> QED BY <2>2, <2>3, <4>1
    <3>2. ~ (i < m)
      <4> SUFFICES ASSUME i < m PROVE FALSE
        OBVIOUS
      <4>1. i \in 0 .. m - 1
        BY <1>0, <1>1, <2>3, SMTT(60)
      <4> QED BY <2>2, <2>3, <4>1
    <3> QED BY <1>0, <1>1, <2>3, <3>1, <3>2, SMTT(60)
  <2> HIDE DEF n
  <2> QED BY <2>1, <2>2, <2>3 DEF StepsTo
<1>3. m # 0 => at[m - 1] = s[m - 1]
  <2>1. m # 0 => m - 1 \in 0 .. k
    BY <1>0, SMTT(60)
  <2> QED BY <1>1, <2>1
<1> HIDE DEF at
<1>4. CASE m = 0
  BY <1>2, <1>4 DEF UnlinkNode, Unlinked, at
<1>5. CASE m # 0
  BY <1>2, <1>3, <1>5 DEF UnlinkNode, Unlinked, at
<1> QED BY <1>4, <1>5

\* The nodes behind the removed one move up.
LEMMA UnlinkChain ==
    ASSUME NEW l \in ListType, NEW o \in Objects, NEW k, NEW s, Chained(l, o, k, s),
           NEW m \in 0 .. k - 1
    PROVE  Holds(UnlinkNode(l, o, s[m]), o, Linked(k, s) \ {s[m]})
<1> DEFINE e == UnlinkNode(l, o, s[m])
           prev == IF m = 0 THEN NoNode ELSE s[m - 1]
           r == [i \in 0 .. k - 1 |-> IF i < m THEN s[i] ELSE s[i + 1]]
<1>0. /\ e.head = IF m = 0 THEN [l.head EXCEPT ![o] = l.next[s[m]]] ELSE l.head
      /\ e.next = IF m = 0 THEN l.next ELSE [l.next EXCEPT ![prev] = l.next[s[m]]]
      /\ e.tail = IF l.tail[o] = s[m] THEN [l.tail EXCEPT ![o] = prev] ELSE l.tail
  <2>1. e = Unlinked(l, o, s, m)
    BY UnlinkIs
  <2> HIDE DEF e
  <2>2. m = 0 \/ m # 0
    OBVIOUS
  <2> QED BY <2>1, <2>2, SMTT(60) DEF Unlinked
<1> HIDE DEF e
<1>1. /\ k \in Nat /\ k # 0 /\ k - 1 \in Nat /\ k - 1 \in 0 .. k - 1
      /\ \A i \in 0 .. k - 1 : i \in 0 .. k /\ i + 1 \in 0 .. k
      /\ m + 1 \in 0 .. k /\ (m # 0 => m - 1 \in 0 .. k - 1 /\ m - 1 < m /\ (m - 1) + 1 = m)
  BY SMTT(60) DEF Chained
<1>2. /\ \A i \in 0 .. m - 1 : r[i] = s[i] /\ i \in 0 .. k - 1
      /\ \A i \in m .. k - 1 : r[i] = s[i + 1] /\ i \in 0 .. k - 1
      /\ r \in [0 .. k - 1 -> Ptr]
  <2>1. s \in [0 .. k -> Ptr]
    BY DEF Chained
  <2> QED BY <1>1, <2>1, SMTT(60)
<1> HIDE DEF r
<1>3. s[m] \in Node /\ l.next[s[m]] = s[m + 1] /\ (m # 0 => s[m - 1] \in Node)
  BY <1>1 DEF Chained
<1>4. e.head[o] = r[0]
  <2>1. CASE m = 0
    <3>1. 0 \in m .. k - 1 /\ 0 + 1 = m + 1
      BY <1>1, <2>1, SMTT(60)
    <3>2. e.head[o] = s[m + 1]
      BY <1>0, <1>3, <2>1, SMTT(60) DEF ListType
    <3> QED BY <1>2, <2>1, <3>1, <3>2
  <2>2. CASE m # 0
    <3>1. 0 \in 0 .. m - 1
      BY <2>2, SMTT(60)
    <3> QED BY <1>0, <1>2, <2>2, <3>1 DEF Chained
  <2> QED BY <2>1, <2>2
<1>5. \A x \in Node : e.next[x] = IF m # 0 /\ x = s[m - 1] THEN s[m + 1] ELSE l.next[x]
  <2>1. CASE m = 0
    BY <1>0, <2>1
  <2>2. CASE m # 0
    BY <1>0, <1>3, <2>2, SMTT(60) DEF ListType
  <2> QED BY <2>1, <2>2
<1>6. ASSUME NEW i \in 0 .. (k - 1) - 1 PROVE r[i] \in Node /\ e.next[r[i]] = r[i + 1]
  <2>1. CASE i < m - 1
    <3>1. i \in 0 .. m - 1 /\ i + 1 \in 0 .. m - 1 /\ i # m - 1
      BY <1>1, <2>1, SMTT(60)
    <3>2. r[i] = s[i] /\ r[i + 1] = s[i + 1] /\ i \in 0 .. k - 1
      BY <1>2, <3>1
    <3>3. s[i] \in Node /\ l.next[s[i]] = s[i + 1] /\ (m # 0 => s[i] # s[m - 1])
      BY <1>1, <3>1, <3>2 DEF Chained
    <3> QED BY <1>5, <3>2, <3>3
  <2>2. CASE i = m - 1
    <3>1. i \in 0 .. m - 1 /\ i + 1 \in m .. k - 1 /\ (i + 1) + 1 = m + 1 /\ m # 0
      BY <1>1, <2>2, SMTT(60)
    <3>2. r[i] = s[m - 1] /\ r[i + 1] = s[m + 1]
      BY <1>2, <2>2, <3>1
    <3> QED BY <1>3, <1>5, <3>1, <3>2
  <2>3. CASE ~ (i < m - 1) /\ i # m - 1
    <3>1. i \in m .. k - 1 /\ i + 1 \in m .. k - 1 /\ i + 1 \in 0 .. k - 1 /\ i + 1 # m - 1
      BY <1>1, <2>3, SMTT(60)
    <3>2. r[i] = s[i + 1] /\ r[i + 1] = s[(i + 1) + 1]
      BY <1>2, <3>1
    <3>3. s[i + 1] \in Node /\ l.next[s[i + 1]] = s[(i + 1) + 1] /\ (m # 0 => s[i + 1] # s[m - 1])
      BY <1>1, <3>1 DEF Chained
    <3> QED BY <1>5, <3>2, <3>3
  <2> QED BY <1>1, <2>1, <2>2, <2>3
<1>7. ASSUME NEW i \in 0 .. (k - 1) - 1, NEW j \in 0 .. (k - 1) - 1, r[i] = r[j] PROVE i = j
  <2> DEFINE up(x) == IF x < m THEN x ELSE x + 1
  <2>1. \A x \in 0 .. (k - 1) - 1 : up(x) \in 0 .. k - 1 /\ r[x] = s[up(x)]
    <3>1. \A x \in 0 .. (k - 1) - 1 : /\ up(x) \in 0 .. k - 1
                                      /\ IF x < m THEN x \in 0 .. m - 1 ELSE x \in m .. k - 1
      BY <1>1, SMTT(60)
    <3> QED BY <1>2, <3>1
  <2>2. up(i) = up(j)
    <3> HIDE DEF up
    <3>1. s[up(i)] = s[up(j)] /\ up(i) \in 0 .. k - 1 /\ up(j) \in 0 .. k - 1
      BY <1>7, <2>1
    <3> QED BY <3>1 DEF Chained
  <2> QED BY <1>1, <2>2, SMTT(60)
<1>8. e.tail[o] = IF k - 1 = 0 THEN NoNode ELSE r[(k - 1) - 1]
  <2>1. l.tail[o] = s[k - 1] /\ (s[k - 1] = s[m] => m = k - 1)
    BY <1>1 DEF Chained
  <2>2. CASE m = k - 1
    <3>1. k - 1 = 0 <=> m = 0
      BY <2>2
    <3>2. m # 0 => (k - 1) - 1 \in 0 .. m - 1 /\ (k - 1) - 1 = m - 1
      BY <1>1, <2>2, SMTT(60)
    <3>3. e.tail[o] = prev
      BY <1>0, <2>1, <2>2, SMTT(60) DEF ListType
    <3> QED BY <1>2, <3>1, <3>2, <3>3
  <2>3. CASE m # k - 1
    <3>1. k - 1 # 0 /\ (k - 1) - 1 \in m .. k - 1 /\ ((k - 1) - 1) + 1 = k - 1
      BY <1>1, <2>3, SMTT(60)
    <3>2. e.tail[o] = s[k - 1]
      BY <1>0, <2>1, <2>3
    <3> QED BY <1>2, <3>1, <3>2
  <2> QED BY <2>2, <2>3
<1>9. Chained(e, o, k - 1, r)
  <2>1. r[k - 1] = NoNode
    <3>1. k - 1 \in m .. k - 1 /\ (k - 1) + 1 = k
      BY <1>1, SMTT(60)
    <3> QED BY <1>2, <3>1 DEF Chained
  <2> QED BY <1>1, <1>2, <1>4, <1>6, <1>7, <1>8, <2>1 DEF Chained
<1>10. Linked(k - 1, r) = Linked(k, s) \ {s[m]}
  <2>1. ASSUME NEW i \in 0 .. (k - 1) - 1 PROVE r[i] \in Linked(k, s) \ {s[m]}
    <3>1. (i \in 0 .. m - 1 /\ i # m /\ i \in 0 .. k - 1)
          \/ (i \in m .. k - 1 /\ i + 1 # m /\ i + 1 \in 0 .. k - 1)
      BY <1>1, SMTT(60)
    <3>2. PICK j \in 0 .. k - 1 : j # m /\ r[i] = s[j]
      BY <1>2, <3>1
    <3>3. s[j] # s[m]
      BY <3>2 DEF Chained
    <3> QED BY <3>2, <3>3 DEF Linked
  <2>2. ASSUME NEW i \in 0 .. k - 1, s[i] # s[m] PROVE s[i] \in Linked(k - 1, r)
    <3>1. i # m
      BY <2>2
    <3>2. (i \in 0 .. m - 1 /\ i \in 0 .. (k - 1) - 1)
          \/ (i - 1 \in m .. k - 1 /\ (i - 1) + 1 = i /\ i - 1 \in 0 .. (k - 1) - 1)
      BY <1>1, <3>1, SMTT(60)
    <3> QED BY <1>2, <3>2 DEF Linked
  <2> QED BY <2>1, <2>2 DEF Linked
<1> QED BY <1>9, <1>10 DEF Holds, e

\* The order of a walk: whatever nodes were unlinked meanwhile, the pointer of each
\* node of s leads to a node further on in s, past nodes of the threads D only.
Order(next, k, s, D) ==
    /\ k \in Nat /\ s[k] = NoNode /\ \A p \in 0 .. k - 1 : s[p] \in Node
    /\ \A p \in 0 .. k - 1 : \E q \in p + 1 .. k :
          next[s[p]] = s[q] /\ \A r \in p + 1 .. q - 1 : s[r][1] \in D

\* Unlinking nodes of thread t has kept every such order.
KeepsOrder(before, after, t) ==
    \A k, s, D : t \in D /\ Order(before, k, s, D) => Order(after, k, s, D)

\* The pointers after n was unlinked.
Bypasses(before, after, n) ==
    \A x \in Node : after[x] = before[x] \/ (before[x] = n /\ after[x] = before[n])

\* A pointer that led to the unlinked node leads to the one behind it.
LEMMA BypassKeepsOrder ==
    ASSUME NEW before, NEW after, NEW n \in Node, NEW t, n[1] = t, Bypasses(before, after, n)
    PROVE  KeepsOrder(before, after, t)
<1> SUFFICES ASSUME NEW k, NEW s, NEW D, t \in D, Order(before, k, s, D)
             PROVE  Order(after, k, s, D)
  BY DEF KeepsOrder
<1>1. k \in Nat /\ s[k] = NoNode /\ \A p \in 0 .. k - 1 : s[p] \in Node
  BY DEF Order
<1>2. ASSUME NEW p \in 0 .. k - 1
      PROVE  \E q \in p + 1 .. k : after[s[p]] = s[q] /\ \A r \in p + 1 .. q - 1 : s[r][1] \in D
  <2>1. PICK q \in p + 1 .. k : before[s[p]] = s[q] /\ \A r \in p + 1 .. q - 1 : s[r][1] \in D
    BY DEF Order
  <2>2. CASE after[s[p]] = before[s[p]]
    BY <2>1, <2>2
  <2>3. CASE before[s[p]] = n /\ after[s[p]] = before[n]
    <3>1. q # k
      BY <1>1, <2>1, <2>3, NodesAssumption
    <3>2. q \in 0 .. k - 1
      BY <1>1, <3>1, SMTT(60)
    <3>3. PICK u \in q + 1 .. k : before[s[q]] = s[u] /\ \A r \in q + 1 .. u - 1 : s[r][1] \in D
      BY <3>2 DEF Order
    <3>4. \A r \in p + 1 .. u - 1 : r \in p + 1 .. q - 1 \/ r = q \/ r \in q + 1 .. u - 1
      BY <1>1, SMTT(60)
    <3>5. s[q][1] \in D
      BY <2>1, <2>3
    <3>6. u \in p + 1 .. k
      BY <1>1, SMTT(60)
    <3> QED BY <2>1, <2>3, <3>3, <3>4, <3>5, <3>6
  <2> QED BY <1>1, <2>2, <2>3 DEF Bypasses
<1> QED BY <1>1, <1>2 DEF Order

\* The node is unlinked from the list it is in, and the others stay as they are.
LEMMA UnlinkLists ==
    ASSUME NEW l, NEW M, Lists(l, M), NEW o \in Objects, NEW n \in M[o],
           NEW W, \A p \in Objects : W[p] = M[p] \ {n}
    PROVE  Lists(UnlinkNode(l, o, n), W) /\ Bypasses(l.next, UnlinkNode(l, o, n).next, n)
<1> DEFINE e == UnlinkNode(l, o, n)
<1>1. l \in ListType /\ \A p \in Objects : Holds(l, p, M[p])
  BY DEF Lists
<1>2. PICK k, s : Chained(l, o, k, s) /\ Linked(k, s) = M[o]
  BY <1>1 DEF Holds
<1>3. PICK m \in 0 .. k - 1 : n = s[m]
  BY <1>2 DEF Linked
<1>4. Holds(e, o, W[o])
  <2>1. W[o] = Linked(k, s) \ {s[m]}
    BY <1>2, <1>3
  <2>2. Holds(UnlinkNode(l, o, s[m]), o, Linked(k, s) \ {s[m]})
    BY <1>1, <1>2, UnlinkChain
  <2> QED BY <1>3, <2>1, <2>2
<1>5. e = Unlinked(l, o, s, m)
  BY <1>2, <1>3, UnlinkIs
<1>6. /\ n \in Node /\ s[m] \in Node
      /\ m # 0 => s[m - 1] \in Node /\ l.next[s[m - 1]] = n /\ s[m - 1] \in M[o]
  <2>1. m # 0 => m - 1 \in 0 .. k - 1 /\ (m - 1) + 1 = m
    BY <1>2, SMTT(60) DEF Chained
  <2> QED BY <1>2, <1>3, <2>1 DEF Chained, Linked
<1> HIDE DEF e
<1>7. e \in ListType
  BY <1>1, <1>5, <1>6, SMTT(60) DEF Unlinked, ListType, Ptr
<1>8. \A p \in Objects : p # o => e.head[p] = l.head[p] /\ e.tail[p] = l.tail[p]
  BY <1>1, <1>5, SMTT(60) DEF Unlinked, ListType
<1>9. \A x \in Node : e.next[x] = IF m # 0 /\ x = s[m - 1] THEN l.next[n] ELSE l.next[x]
  BY <1>1, <1>3, <1>5, <1>6, SMTT(60) DEF Unlinked, ListType
<1>10. Bypasses(l.next, e.next, n)
  BY <1>6, <1>9 DEF Bypasses
<1>11. \A p \in Objects : M[p] \subseteq Node
  <2> SUFFICES ASSUME NEW p \in Objects PROVE M[p] \subseteq Node
    OBVIOUS
  <2>1. PICK j, r : Chained(l, p, j, r) /\ Linked(j, r) = M[p]
    BY <1>1 DEF Holds
  <2>2. \A i \in 0 .. j - 1 : r[i] \in Node
    BY <2>1 DEF Chained
  <2> QED BY <2>1, <2>2 DEF Linked
<1>12. ASSUME NEW p \in Objects, p # o PROVE Holds(e, p, W[p])
  <2>1. M[o] \cap M[p] = {} /\ W[p] = M[p]
    <3>1. M[o] \cap M[p] = {}
      BY <1>12 DEF Lists
    <3> QED BY <3>1
  <2>2. \A x \in M[p] : e.next[x] = l.next[x]
    BY <1>6, <1>9, <1>11, <2>1
  <2> QED BY <1>1, <1>8, <1>12, <2>1, <2>2, SameList
<1>13. \A p, q \in Objects : p # q => W[p] \cap W[q] = {}
  BY DEF Lists
<1> QED BY <1>4, <1>7, <1>10, <1>12, <1>13 DEF Lists, e

\* A list of objects.
LEMMA ObjectsOf ==
    ASSUME NEW objects \in ObjectLists
    PROVE  /\ Len(objects) \in Nat /\ Len(objects) <= MaxObjects
           /\ DOMAIN objects = 1 .. Len(objects)
           /\ \A i \in 1 .. Len(objects) : objects[i] \in Objects /\ i \in 1 .. MaxObjects
<1>1. PICK n \in 0 .. MaxObjects : objects \in [1 .. n -> Objects]
  BY DEF ObjectLists
<1>2. Len(objects) = n /\ DOMAIN objects = 1 .. n /\ n \in Nat /\ n <= MaxObjects
  BY <1>1, NodesAssumption, SMTT(60)
<1>3. \A i \in 1 .. n : objects[i] \in Objects /\ i \in 1 .. MaxObjects
  BY <1>1, <1>2, NodesAssumption, SMTT(60)
<1> QED BY <1>2, <1>3

\* A wait links one node into the list of each of its objects.
LEMMA LinkAllLists ==
    ASSUME NEW l, NEW M, Lists(l, M), NEW t \in Threads, NEW objects \in ObjectLists,
           \A p \in Objects, i \in 1 .. MaxObjects : <<t, i>> \notin M[p],
           NEW W, \A p \in Objects :
               W[p] = M[p] \cup {<<t, j>> : j \in {j \in DOMAIN objects : objects[j] = p}}
    PROVE  Lists(LinkAll(l, t, objects), W)
<1> DEFINE N == Len(objects)
           at[i \in 0 .. N] == IF i = 0 THEN l ELSE LinkNode(at[i - 1], objects[i], <<t, i>>)
           V(i) == [p \in Objects |->
                       M[p] \cup {<<t, j>> : j \in {j \in 1 .. i : objects[j] = p}}]
           S == {i \in 0 .. N : Lists(at[i], V(i))}
<1>0. /\ N \in Nat /\ N <= MaxObjects /\ DOMAIN objects = 1 .. N
      /\ \A i \in 1 .. N : objects[i] \in Objects /\ i \in 1 .. MaxObjects
  BY ObjectsOf
<1> HIDE DEF N
<1>1. at = [i \in 0 .. N |-> IF i = 0 THEN l ELSE LinkNode(at[i - 1], objects[i], <<t, i>>)]
  <2>1. PICK f : IsLoop(f, N, "link", t, objects, l)
    BY <1>0, LoopExists
  <2>2. f = [i \in 0 .. N |-> IF i = 0 THEN l ELSE LinkNode(f[i - 1], objects[i], <<t, i>>)]
    BY <2>1 DEF IsLoop, Body
  <2> QED BY <2>2
<1>2. LinkAll(l, t, objects) = at[N]
  BY DEF LinkAll, N
<1> HIDE DEF at
<1>3. 0 \in S
  <2>1. 0 \in 0 .. N /\ 1 .. 0 = {}
    BY <1>0, SMTT(60)
  <2>2. at[0] = l /\ \A p \in Objects : V(0)[p] = M[p]
    BY <1>1, <2>1
  <2>3. Lists(at[0], V(0))
    <3> HIDE DEF V
    <3> QED BY <2>2 DEF Lists
  <2> QED BY <2>1, <2>3
<1>4. ASSUME NEW i \in 0 .. N - 1, i \in S PROVE i + 1 \in S
  <2>1. i + 1 \in 0 .. N /\ i + 1 # 0 /\ (i + 1) - 1 = i /\ i + 1 \in 1 .. N /\ i + 1 \notin 1 .. i
        /\ \A j : j \in 1 .. i + 1 <=> j \in 1 .. i \/ j = i + 1
    BY <1>0, SMTT(60)
  <2> DEFINE n == <<t, i + 1>>
             o == objects[i + 1]
  <2>2. at[i + 1] = LinkNode(at[i], o, n)
    BY <1>1, <2>1
  <2>3. o \in Objects /\ n \in Node
    BY <1>0, <2>1 DEF Node
  <2>4. \A p \in Objects : n \notin V(i)[p]
    <3> SUFFICES ASSUME NEW p \in Objects, n \in V(i)[p] PROVE FALSE
      OBVIOUS
    <3>1. n \notin M[p]
      BY <1>0, <2>1
    <3>2. PICK j \in 1 .. i : n = <<t, j>>
      BY <3>1
    <3>3. j = i + 1
      BY <3>2, SMTT(60)
    <3> QED BY <2>1, <3>3
  <2>5. V(i + 1)[o] = V(i)[o] \cup {n} /\ \A p \in Objects : p # o => V(i + 1)[p] = V(i)[p]
    <3>1. \A p \in Objects : \A x : x \in V(i + 1)[p] <=> x \in V(i)[p] \/ (p = o /\ x = n)
      BY <2>1
    <3> HIDE DEF V, n, o
    <3> QED BY <2>3, <3>1
  <2>6. Lists(at[i], V(i))
    BY <1>4
  <2> HIDE DEF V, n, o
  <2>7. Lists(LinkNode(at[i], o, n), V(i + 1))
    BY <2>3, <2>4, <2>5, <2>6, LinkLists, SMTT(60)
  <2> QED BY <2>1, <2>2, <2>7
<1>5. N \in S
  <2> HIDE DEF S
  <2> QED BY <1>0, <1>3, <1>4, UpTo
<1>6. \A p \in Objects : V(N)[p] = W[p]
  BY <1>0
<1>7. Lists(at[N], V(N))
  BY <1>5
<1> HIDE DEF V
<1> QED BY <1>2, <1>6, <1>7 DEF Lists

\* The end of a wait unlinks all its nodes, and a walk through them goes on.
LEMMA UnlinkAllLists ==
    ASSUME NEW l, NEW M, Lists(l, M), NEW t \in Threads, NEW objects \in ObjectLists,
           \A i \in DOMAIN objects : <<t, i>> \in M[objects[i]],
           NEW W, \A p \in Objects : W[p] = M[p] \ {<<t, j>> : j \in DOMAIN objects}
    PROVE  /\ Lists(UnlinkAll(l, t, objects), W)
           /\ KeepsOrder(l.next, UnlinkAll(l, t, objects).next, t)
<1> DEFINE N == Len(objects)
           at[i \in 0 .. N] == IF i = 0 THEN l ELSE UnlinkNode(at[i - 1], objects[i], <<t, i>>)
           V(i) == [p \in Objects |-> M[p] \ {<<t, j>> : j \in 1 .. i}]
           S == {i \in 0 .. N : Lists(at[i], V(i)) /\ KeepsOrder(l.next, at[i].next, t)}
<1>0. /\ N \in Nat /\ N <= MaxObjects /\ DOMAIN objects = 1 .. N
      /\ \A i \in 1 .. N : objects[i] \in Objects /\ i \in 1 .. MaxObjects
  BY ObjectsOf
<1> HIDE DEF N
<1>1. at = [i \in 0 .. N |-> IF i = 0 THEN l ELSE UnlinkNode(at[i - 1], objects[i], <<t, i>>)]
  <2>1. PICK f : IsLoop(f, N, "unlink", t, objects, l)
    BY <1>0, LoopExists
  <2>2. f = [i \in 0 .. N |-> IF i = 0 THEN l ELSE UnlinkNode(f[i - 1], objects[i], <<t, i>>)]
    BY <2>1 DEF IsLoop, Body
  <2> QED BY <2>2
<1>2. UnlinkAll(l, t, objects) = at[N]
  BY DEF UnlinkAll, N
<1> HIDE DEF at
<1>3. 0 \in S
  <2>1. 0 \in 0 .. N /\ 1 .. 0 = {}
    BY <1>0, SMTT(60)
  <2>2. at[0] = l /\ \A p \in Objects : V(0)[p] = M[p]
    BY <1>1, <2>1
  <2>3. Lists(at[0], V(0))
    <3> HIDE DEF V
    <3> QED BY <2>2 DEF Lists
  <2>4. KeepsOrder(l.next, at[0].next, t)
    BY <2>2 DEF KeepsOrder
  <2> QED BY <2>1, <2>3, <2>4
<1>4. ASSUME NEW i \in 0 .. N - 1, i \in S PROVE i + 1 \in S
  <2>1. i + 1 \in 0 .. N /\ i + 1 # 0 /\ (i + 1) - 1 = i /\ i + 1 \in 1 .. N /\ i + 1 \notin 1 .. i
        /\ \A j : j \in 1 .. i + 1 <=> j \in 1 .. i \/ j = i + 1
    BY <1>0, SMTT(60)
  <2> DEFINE n == <<t, i + 1>>
             o == objects[i + 1]
  <2>2. at[i + 1] = UnlinkNode(at[i], o, n)
    BY <1>1, <2>1
  <2>3. o \in Objects /\ n \in Node /\ n[1] = t
    BY <1>0, <2>1 DEF Node
  <2>4. n \in V(i)[o]
    <3>1. n \in M[o]
      BY <1>0, <2>1
    <3>2. \A j \in 1 .. i : n # <<t, j>>
      <4> SUFFICES ASSUME NEW j \in 1 .. i, n = <<t, j>> PROVE FALSE
        OBVIOUS
      <4>1. j = i + 1
        BY SMTT(60)
      <4> QED BY <2>1, <4>1
    <3> HIDE DEF n, o
    <3> QED BY <2>3, <3>1, <3>2
  <2>5. \A p \in Objects : V(i + 1)[p] = V(i)[p] \ {n}
    BY <2>1
  <2>6. Lists(at[i], V(i)) /\ KeepsOrder(l.next, at[i].next, t)
    BY <1>4
  <2> HIDE DEF V, n, o
  <2>7. Lists(UnlinkNode(at[i], o, n), V(i + 1))
        /\ Bypasses(at[i].next, UnlinkNode(at[i], o, n).next, n)
    BY <2>3, <2>4, <2>5, <2>6, UnlinkLists
  <2>8. KeepsOrder(at[i].next, at[i + 1].next, t)
    BY <2>2, <2>3, <2>7, BypassKeepsOrder
  <2>9. KeepsOrder(l.next, at[i + 1].next, t)
    BY <2>6, <2>8 DEF KeepsOrder
  <2> QED BY <2>1, <2>2, <2>7, <2>9
<1>5. N \in S
  <2> HIDE DEF S
  <2> QED BY <1>0, <1>3, <1>4, UpTo
<1>6. \A p \in Objects : V(N)[p] = W[p]
  BY <1>0
<1>7. Lists(at[N], V(N)) /\ KeepsOrder(l.next, at[N].next, t)
  BY <1>5
<1> HIDE DEF V
<1>8. Lists(at[N], W)
  BY <1>6, <1>7 DEF Lists
<1> QED BY <1>2, <1>7, <1>8

-----------------------------------------------------------------------------
(* Waits.                                                                  *)

\* A thread has the fields of ThreadInit, and what NothingLeftBehind says of it holds:
\* it does because a thread that waits can be cancelled.
ThreadOK(th) ==
    /\ DOMAIN th = DOMAIN ThreadInit /\ th.objects \in ObjectLists
    /\ th.timer \/ th.cancellable => th.state = "Waiting"
    /\ th.state = "Waiting" => th.cancellable /\ ~th.waitCancelled

ThreadsOK(th) == DOMAIN th = Threads /\ \A t \in Threads : ThreadOK(th[t])

\* The nodes that the lists must have.
Waiting(th) == [o \in Objects |-> NodesOn(th, o)]

\* A node is that of a thread for one of the objects of its wait.
LEMMA NodePair ==
    /\ \A n \in Node : n[1] \in Threads /\ n[2] \in 1 .. MaxObjects /\ n = <<n[1], n[2]>>
    /\ \A t \in Threads, i \in 1 .. MaxObjects :
          <<t, i>> \in Node /\ <<t, i>>[1] = t /\ <<t, i>>[2] = i
BY SMTT(60) DEF Node

\* The fields of a thread.
LEMMA Fields ==
    DOMAIN ThreadInit = {"state", "objects", "result", "index", "timer", "cancellable",
                         "waitCancelled", "terminating"}
BY SMTT(60) DEF ThreadInit

\* A wait may be on no object at all.
LEMMA NoObjects == <<>> \in ObjectLists
<1>1. 0 \in 0 .. MaxObjects /\ <<>> \in [1 .. 0 -> Objects]
  BY NodesAssumption, SMTT(60)
<1> QED BY <1>1 DEF ObjectLists

\* A thread whose wait has ended has nothing left of it.
LEMMA EndedOK ==
    ASSUME NEW th, ThreadOK(th), NEW r, NEW i
    PROVE  ThreadOK(Ended(th, r, i)) /\ Ended(th, r, i).state = "Runnable"
<1> DEFINE e == Ended(th, r, i)
<1>1. DOMAIN th = {"state", "objects", "result", "index", "timer", "cancellable",
                   "waitCancelled", "terminating"}
  BY Fields DEF ThreadOK
<1>2. /\ DOMAIN e = DOMAIN th /\ e.state = "Runnable" /\ e.objects = <<>>
      /\ e.timer = FALSE /\ e.cancellable = FALSE
  BY <1>1 DEF Ended
<1> HIDE DEF e
<1>3. "Runnable" # "Waiting"
  OBVIOUS
<1>4. ThreadOK(e)
  BY <1>2, <1>3, NoObjects DEF ThreadOK
<1> QED BY <1>2, <1>4 DEF e

\* When the wait of a thread ends, its nodes leave the lists.
LEMMA EndWaitLists ==
    ASSUME NEW l, NEW th, ThreadsOK(th), Lists(l, Waiting(th)), NEW t \in Threads,
           th[t].state = "Waiting", NEW th2, th2[t].state # "Waiting",
           \A u \in Threads : u # t => th2[u] = th[u]
    PROVE  /\ Lists(UnlinkAll(l, t, th[t].objects), Waiting(th2))
           /\ KeepsOrder(l.next, UnlinkAll(l, t, th[t].objects).next, t)
<1> DEFINE objects == th[t].objects
<1>1. objects \in ObjectLists
  BY DEF ThreadsOK, ThreadOK
<1>2. \A i \in DOMAIN objects : objects[i] \in Objects /\ i \in 1 .. MaxObjects
  BY <1>1, ObjectsOf
<1>3. \A i \in DOMAIN objects : <<t, i>> \in Waiting(th)[objects[i]]
  BY <1>2, NodePair DEF Waiting, NodesOn
<1>4. ASSUME NEW p \in Objects
      PROVE  Waiting(th2)[p] = Waiting(th)[p] \ {<<t, j>> : j \in DOMAIN objects}
  <2>1. ASSUME NEW n \in NodesOn(th2, p)
        PROVE  n \in NodesOn(th, p) /\ \A j \in DOMAIN objects : n # <<t, j>>
    <3>1. n \in Node /\ n[1] # t /\ n[1] \in Threads
      BY NodePair DEF NodesOn
    <3>2. th2[n[1]] = th[n[1]]
      BY <3>1
    <3>3. n \in NodesOn(th, p)
      BY <3>2 DEF NodesOn
    <3>4. \A j \in DOMAIN objects : <<t, j>>[1] = t
      BY <1>2, NodePair
    <3> QED BY <3>1, <3>3, <3>4
  <2>2. ASSUME NEW n \in NodesOn(th, p), \A j \in DOMAIN objects : n # <<t, j>>
        PROVE  n \in NodesOn(th2, p)
    <3>1. n \in Node /\ n[1] \in Threads /\ n = <<n[1], n[2]>> /\ n[2] \in DOMAIN th[n[1]].objects
      BY NodePair DEF NodesOn
    <3>2. n[1] # t
      BY <2>2, <3>1
    <3>3. th2[n[1]] = th[n[1]]
      BY <3>1, <3>2
    <3> QED BY <3>3 DEF NodesOn
  <2> QED BY <2>1, <2>2 DEF Waiting
<1> HIDE DEF objects
<1>5. Lists(UnlinkAll(l, t, objects), Waiting(th2))
      /\ KeepsOrder(l.next, UnlinkAll(l, t, objects).next, t)
  BY <1>1, <1>3, <1>4, UnlinkAllLists, SMTT(60)
<1> QED BY <1>5 DEF objects

\* The nodes that die are in no list.
LEMMA DeadNodesUnlinked ==
    ASSUME NEW l, NEW th, Lists(l, Waiting(th))
    PROVE  Lists(WithoutDeadNodes(l, th), Waiting(th))
<1> DEFINE e == WithoutDeadNodes(l, th)
<1>1. l \in ListType
  BY DEF Lists
<1>2. e \in ListType /\ e.head = l.head /\ e.tail = l.tail
  BY <1>1, SMTT(60) DEF WithoutDeadNodes, ListType, Ptr
<1>3. \A n \in Node : th[n[1]].state = "Waiting" => e.next[n] = l.next[n]
  BY <1>1, SMTT(60) DEF WithoutDeadNodes, ListType
<1> HIDE DEF e
<1>4. ASSUME NEW o \in Objects PROVE Holds(e, o, Waiting(th)[o])
  <2>1. \A n \in Waiting(th)[o] : e.next[n] = l.next[n]
    BY <1>3 DEF Waiting, NodesOn
  <2>2. Holds(l, o, Waiting(th)[o])
    BY DEF Lists
  <2> QED BY <1>2, <2>1, <2>2, SameList
<1> QED BY <1>2, <1>4 DEF Lists, e

\* A walk of NotifyAvailable for o along s[0], s[1] and so on, which began with the
\* threads th: it is at s[j], and the waits of the threads D have ended.
Walking(z, th, k, s, D, j) ==
    /\ DOMAIN z = {"list", "thread", "node"} /\ ThreadsOK(z.thread)
    /\ Lists(z.list, Waiting(z.thread)) /\ Order(z.list.next, k, s, D)
    /\ j \in 0 .. k /\ z.node = s[j] /\ \A p \in 0 .. j - 1 : s[p][1] \in D
    /\ \A t \in Threads : IF t \in D THEN z.thread[t].state # "Waiting" ELSE z.thread[t] = th[t]

\* A thread that is not yet at the end of its wait is ended.
LEMMA NotifyThreadWalks ==
    ASSUME NEW th, NEW o, NEW k, NEW s, NEW z, NEW D, NEW j, Walking(z, th, k, s, D, j),
           NEW t \in Threads
    PROVE  Walking(NotifyThread(z, t, o), th, k, s, D \cup {t}, j)
<1> DEFINE u == z.thread[t]
           e == NotifyThread(z, t, o)
           E == D \cup {t}
<1>1. Order(z.list.next, k, s, E)
  BY DEF Walking, Order
<1>2. CASE u.state # "Waiting"
  <2>1. e = z
    BY <1>2 DEF NotifyThread
  <2>2. \A v \in Threads : IF v \in E THEN z.thread[v].state # "Waiting" ELSE z.thread[v] = th[v]
    BY <1>2 DEF Walking
  <2> HIDE DEF e, E, u
  <2>3. D \subseteq E
    BY DEF E
  <2>4. Walking(e, th, k, s, E, j)
    BY <1>1, <2>1, <2>2, <2>3 DEF Walking
  <2> QED BY <2>4 DEF e, E
<1>3. CASE u.state = "Waiting"
  <2> DEFINE v == Ended(u, "Success", SyncIndex(u.objects, o))
             l == UnlinkAll(z.list, t, u.objects)
  <2>1. e = [z EXCEPT !.list = l, !.thread[t] = v]
    BY <1>3 DEF NotifyThread
  <2>2. DOMAIN z = {"list", "thread", "node"} /\ DOMAIN z.thread = Threads /\ ThreadOK(u)
    BY DEF Walking, ThreadsOK
  <2>3. ThreadOK(v) /\ v.state # "Waiting"
    <3>1. "Runnable" # "Waiting"
      OBVIOUS
    <3> HIDE DEF u
    <3> QED BY <2>2, <3>1, EndedOK
  <2> HIDE DEF e, u, v, l
  <2>4. /\ DOMAIN e = {"list", "thread", "node"} /\ e.list = l /\ e.node = z.node
        /\ e.thread = [z.thread EXCEPT ![t] = v]
    BY <2>1, <2>2
  <2>5. /\ DOMAIN e.thread = Threads /\ e.thread[t] = v
        /\ \A w \in Threads : w # t => e.thread[w] = z.thread[w]
    BY <2>2, <2>4
  <2>6. ThreadsOK(e.thread)
    BY <2>3, <2>5 DEF Walking, ThreadsOK
  <2>7. Lists(l, Waiting(e.thread)) /\ KeepsOrder(z.list.next, l.next, t)
    <3>1. ThreadsOK(z.thread) /\ Lists(z.list, Waiting(z.thread)) /\ z.thread[t].state = "Waiting"
      BY <1>3 DEF Walking, u
    <3>2. e.thread[t].state # "Waiting"
      BY <2>3, <2>5
    <3> QED BY <2>5, <3>1, <3>2, EndWaitLists DEF l, u
  <2>8. Order(l.next, k, s, E)
    BY <1>1, <2>7 DEF KeepsOrder
  <2>9. \A w \in Threads : IF w \in E THEN e.thread[w].state # "Waiting" ELSE e.thread[w] = th[w]
    BY <2>3, <2>5 DEF Walking
  <2>10. j \in 0 .. k /\ e.node = s[j] /\ \A p \in 0 .. j - 1 : s[p][1] \in E
    BY <2>4 DEF Walking
  <2> HIDE DEF E
  <2>11. Walking(e, th, k, s, E, j)
    BY <2>4, <2>6, <2>7, <2>8, <2>9, <2>10 DEF Walking
  <2> QED BY <2>11 DEF e, E
<1> QED BY <1>2, <1>3

\* A round of the walk moves on, or the walk is at its end.
LEMMA RoundWalks ==
    ASSUME NEW th, NEW o, NEW k, NEW s, NEW z, NEW D, NEW j, Walking(z, th, k, s, D, j)
    PROVE  \E E, m : Walking(NotifyRound(z, o), th, k, s, E, m) /\ (m = k \/ m > j)
<1>1. k \in Nat /\ j \in 0 .. k /\ s[k] = NoNode /\ z.node = s[j] /\ \A p \in 0 .. k - 1 : s[p] \in Node
  BY DEF Walking, Order
<1>2. CASE j = k
  <2>1. NotifyRound(z, o) = z
    BY <1>1, <1>2 DEF NotifyRound
  <2> QED BY <1>2, <2>1
<1>3. CASE j # k
  <2> DEFINE n == s[j]
             t == n[1]
             a == NotifyThread(z, t, o)
             E == D \cup {t}
             e == NotifyRound(z, o)
  <2>1. j \in 0 .. k - 1
    BY <1>1, <1>3, SMTT(60)
  <2>2. n \in Node /\ n # NoNode /\ t \in Threads
    BY <1>1, <2>1, NodePair, NodesAssumption
  <2>3. Walking(a, th, k, s, E, j)
    <3> HIDE DEF t
    <3> QED BY <2>2, NotifyThreadWalks
  <2>4. e = [a EXCEPT !.node = a.list.next[n]]
    BY <1>1, <2>2 DEF NotifyRound
  <2> HIDE DEF a, e
  <2>5. PICK q \in j + 1 .. k : a.list.next[s[j]] = s[q] /\ \A r \in j + 1 .. q - 1 : s[r][1] \in E
    <3>1. Order(a.list.next, k, s, E)
      BY <2>3 DEF Walking
    <3> HIDE DEF E
    <3> QED BY <2>1, <3>1 DEF Order
  <2>6. /\ DOMAIN e = {"list", "thread", "node"} /\ e.list = a.list /\ e.thread = a.thread
        /\ e.node = s[q]
    <3>1. DOMAIN a = {"list", "thread", "node"}
      BY <2>3 DEF Walking
    <3> HIDE DEF n
    <3>2. a.list.next[n] = s[q]
      BY <2>5 DEF n
    <3> QED BY <2>4, <3>1, <3>2
  <2>7. q \in 0 .. k /\ q > j
        /\ \A p \in 0 .. q - 1 : p \in 0 .. j - 1 \/ p = j \/ p \in j + 1 .. q - 1
    BY <1>1, SMTT(60)
  <2>8. \A p \in 0 .. q - 1 : s[p][1] \in E
    <3>1. \A p \in 0 .. j - 1 : s[p][1] \in E
      BY DEF Walking
    <3>2. s[j][1] \in E
      OBVIOUS
    <3> HIDE DEF E
    <3> QED BY <2>5, <2>7, <3>1, <3>2
  <2> HIDE DEF E
  <2>9. Walking(e, th, k, s, E, q)
    BY <2>3, <2>6, <2>7, <2>8 DEF Walking
  <2> QED BY <2>7, <2>9 DEF e
<1> QED BY <1>2, <1>3

\* What NotifyAvailable leaves of the threads th: the waits on o have ended and the
\* others go on.
Notified(z, th, o) ==
    /\ ThreadsOK(z.thread) /\ Lists(z.list, Waiting(z.thread))
    /\ \A t \in Threads : z.thread[t].state = "Waiting" =>
          z.thread[t] = th[t] /\ \A i \in DOMAIN th[t].objects : th[t].objects[i] # o

\* The walk of NotifyAvailable reaches every thread that waits on the object.
LEMMA WalkNotifiesAll ==
    ASSUME NEW l, NEW th, ThreadsOK(th), Lists(l, Waiting(th)), NEW o \in Objects
    PROVE  Notified(NotifyWalk([list |-> l, thread |-> th, node |-> l.head[o]], o), th, o)
<1> DEFINE z == [list |-> l, thread |-> th, node |-> l.head[o]]
           at[i \in 0 .. MaxNodes] == IF i = 0 THEN z ELSE NotifyRound(at[i - 1], o)
<1>1. PICK k, s : Chained(l, o, k, s) /\ Linked(k, s) = NodesOn(th, o)
  <2>1. Holds(l, o, NodesOn(th, o))
    BY DEF Lists, Waiting
  <2> QED BY <2>1 DEF Holds
<1>a. k <= MaxNodes
  BY <1>1, ChainShort
<1>0. MaxNodes \in Nat /\ k \in Nat /\ k <= MaxNodes
  BY <1>1, <1>a, NodesFinite DEF Chained
<1>2. at = [i \in 0 .. MaxNodes |-> IF i = 0 THEN z ELSE NotifyRound(at[i - 1], o)]
  <2> HIDE DEF z
  <2>1. PICK f : IsLoop(f, MaxNodes, "notify", o, o, z)
    BY <1>0, LoopExists
  <2>2. "notify" # "walk" /\ "notify" # "link" /\ "notify" # "unlink"
    OBVIOUS
  <2>3. f = [i \in 0 .. MaxNodes |-> IF i = 0 THEN z ELSE NotifyRound(f[i - 1], o)]
    BY <2>1, <2>2 DEF IsLoop, Body
  <2> QED BY <2>3
<1>3. NotifyWalk(z, o) = at[MaxNodes]
  BY DEF NotifyWalk
<1> HIDE DEF at
<1> DEFINE S == {i \in 0 .. MaxNodes : \E D, j : Walking(at[i], th, k, s, D, j) /\ (j = k \/ j >= i)}
<1>4. 0 \in S
  <2>1. 0 \in 0 .. MaxNodes /\ 0 \in 0 .. k /\ 0 >= 0 /\ 0 .. 0 - 1 = {}
    BY <1>0, SMTT(60)
  <2>2. at[0] = z
    BY <1>2, <2>1
  <2>3. /\ DOMAIN z = {"list", "thread", "node"} /\ z.list = l /\ z.thread = th
        /\ z.node = l.head[o]
    OBVIOUS
  <2>4. Order(l.next, k, s, {})
    <3>1. k \in Nat /\ s[k] = NoNode /\ \A p \in 0 .. k - 1 : s[p] \in Node /\ l.next[s[p]] = s[p + 1]
      BY <1>1 DEF Chained
    <3>2. \A p \in 0 .. k - 1 : p + 1 \in p + 1 .. k /\ p + 1 .. (p + 1) - 1 = {}
      BY <3>1, SMTT(60)
    <3> QED BY <3>1, <3>2 DEF Order
  <2> HIDE DEF z
  <2>5. l.head[o] = s[0]
    BY <1>1 DEF Chained
  <2>6. Walking(z, th, k, s, {}, 0)
    BY <2>1, <2>3, <2>4, <2>5 DEF Walking
  <2> QED BY <2>1, <2>2, <2>6
<1>5. ASSUME NEW i \in 0 .. MaxNodes - 1, i \in S PROVE i + 1 \in S
  <2>1. i + 1 \in 0 .. MaxNodes /\ i + 1 # 0 /\ (i + 1) - 1 = i
    BY <1>0, SMTT(60)
  <2>2. at[i + 1] = NotifyRound(at[i], o)
    BY <1>2, <2>1
  <2>3. PICK D, j : Walking(at[i], th, k, s, D, j) /\ (j = k \/ j >= i)
    BY <1>5
  <2>4. PICK E, m : Walking(NotifyRound(at[i], o), th, k, s, E, m) /\ (m = k \/ m > j)
    BY <2>3, RoundWalks
  <2>5. m = k \/ m >= i + 1
    <3>1. j \in 0 .. k /\ m \in 0 .. k
      BY <2>3, <2>4 DEF Walking
    <3> QED BY <1>0, <2>3, <2>4, <3>1, SMTT(60)
  <2> QED BY <2>1, <2>2, <2>4, <2>5
<1>6. MaxNodes \in S
  <2> HIDE DEF S
  <2> QED BY <1>0, <1>4, <1>5, UpTo
<1>7. PICK D, j : Walking(at[MaxNodes], th, k, s, D, j) /\ (j = k \/ j >= MaxNodes)
  BY <1>6
<1>8. j = k
  <2>1. j \in 0 .. k
    BY <1>7 DEF Walking
  <2> QED BY <1>0, <1>7, <2>1, SMTT(60)
<1> DEFINE y == at[MaxNodes]
<1>9. ASSUME NEW t \in Threads, y.thread[t].state = "Waiting"
      PROVE  y.thread[t] = th[t] /\ \A i \in DOMAIN th[t].objects : th[t].objects[i] # o
  <2>1. t \notin D /\ y.thread[t] = th[t]
    BY <1>7, <1>9 DEF Walking
  <2>2. ASSUME NEW i \in DOMAIN th[t].objects, th[t].objects[i] = o PROVE FALSE
    <3>1. th[t].objects \in ObjectLists
      BY DEF ThreadsOK, ThreadOK
    <3>2. i \in 1 .. MaxObjects
      BY <3>1, ObjectsOf
    <3>3. <<t, i>> \in NodesOn(th, o) /\ <<t, i>>[1] = t
      BY <1>9, <2>1, <2>2, <3>2, NodePair DEF NodesOn
    <3>4. PICK p \in 0 .. k - 1 : s[p] = <<t, i>>
      BY <1>1, <3>3 DEF Linked
    <3>5. s[p][1] \in D
      BY <1>7, <1>8 DEF Walking
    <3> QED BY <2>1, <3>3, <3>4, <3>5
  <2> QED BY <2>1, <2>2
<1>10. Notified(y, th, o)
  BY <1>7, <1>9 DEF Notified, Walking
<1> QED BY <1>3, <1>10

-----------------------------------------------------------------------------
(* The invariant.                                                          *)

SyncInv ==
    /\ DOMAIN signaled = Objects
    /\ ThreadsOK(thread)
    /\ Lists(list, Waiting(thread))
    /\ NoWaiterOnSignaled

\* No thread waits at first, and the lists are empty.
LEMMA SyncInitially == SyncInit => SyncInv
<1> SUFFICES ASSUME SyncInit PROVE SyncInv
  OBVIOUS
<1>1. DOMAIN signaled = Objects /\ DOMAIN thread = Threads /\ \A t \in Threads : thread[t] = ThreadInit
  BY DEF SyncInit
<1>2. /\ ThreadInit.state = "Runnable" /\ ThreadInit.timer = FALSE /\ ThreadInit.cancellable = FALSE
      /\ ThreadInit.objects = <<>> /\ "Runnable" # "Waiting"
  BY DEF ThreadInit
<1>3. ThreadOK(ThreadInit)
  BY <1>2, NoObjects DEF ThreadOK
<1>4. ThreadsOK(thread)
  BY <1>1, <1>3 DEF ThreadsOK
<1>5. NoWaiterOnSignaled
  BY <1>1, <1>2 DEF NoWaiterOnSignaled
<1>6. \A o \in Objects : Waiting(thread)[o] = {}
  BY <1>1, <1>2, NodePair DEF Waiting, NodesOn
<1>7. list \in ListType /\ \A o \in Objects : list.head[o] = NoNode /\ list.tail[o] = NoNode
  BY SMTT(60) DEF SyncInit, ListType, Ptr
<1>8. ASSUME NEW o \in Objects PROVE Holds(list, o, {})
  <2> DEFINE s == [i \in 0 .. 0 |-> NoNode]
  <2>1. 0 \in Nat /\ 0 \in 0 .. 0 /\ 0 .. 0 - 1 = {} /\ s \in [0 .. 0 -> Ptr] /\ s[0] = NoNode
    BY SMTT(60) DEF Ptr
  <2> HIDE DEF s
  <2>2. Chained(list, o, 0, s)
    BY <1>7, <2>1 DEF Chained
  <2>3. Linked(0, s) = {}
    BY <2>1 DEF Linked
  <2> QED BY <2>2, <2>3 DEF Holds
<1>9. Lists(list, Waiting(thread))
  BY <1>6, <1>7, <1>8 DEF Lists
<1> QED BY <1>1, <1>4, <1>5, <1>9 DEF SyncInv

\* The nodes that the lists must have depend on who waits for what.
LEMMA SameWaits ==
    ASSUME NEW l, NEW th, NEW th2, Lists(l, Waiting(th)),
           \A t \in Threads : th2[t].state = th[t].state /\ th2[t].objects = th[t].objects
    PROVE  Lists(l, Waiting(th2))
<1>1. ASSUME NEW o \in Objects PROVE Waiting(th2)[o] = Waiting(th)[o]
  <2>1. \A n \in Node : /\ th2[n[1]].state = th[n[1]].state
                        /\ th2[n[1]].objects = th[n[1]].objects
    BY NodePair
  <2>2. \A n \in Node : n \in NodesOn(th2, o) <=> n \in NodesOn(th, o)
    BY <2>1 DEF NodesOn
  <2>3. NodesOn(th2, o) \subseteq Node /\ NodesOn(th, o) \subseteq Node
    BY DEF NodesOn
  <2>4. NodesOn(th2, o) = NodesOn(th, o)
    BY <2>2, <2>3
  <2> QED BY <2>4 DEF Waiting
<1> QED BY <1>1 DEF Lists

\* A step that changes nothing about the waits.
LEMMA QuietStep ==
    ASSUME SyncInv, list' = list, signaled' = signaled, NEW t \in Threads,
           DOMAIN thread' = Threads, \A u \in Threads : u # t => thread'[u] = thread[u],
           ThreadOK(thread'[t]), thread'[t].state = thread[t].state,
           thread'[t].objects = thread[t].objects
    PROVE  SyncInv'
<1>1. ThreadsOK(thread)'
  BY DEF SyncInv, ThreadsOK
<1>2. \A u \in Threads : thread'[u].state = thread[u].state /\ thread'[u].objects = thread[u].objects
  OBVIOUS
<1>3. Lists(list, Waiting(thread))'
  BY <1>2, SameWaits DEF SyncInv
<1>4. NoWaiterOnSignaled'
  BY <1>2 DEF SyncInv, NoWaiterOnSignaled
<1> QED BY <1>1, <1>3, <1>4 DEF SyncInv

\* A wait that is cancelled, times out or ends with its thread.
LEMMA CancelWaitStep ==
    ASSUME SyncInv, NEW t \in Threads, NEW th, thread[t].state = "Waiting", ThreadOK(th),
           th.state # "Waiting", CancelWait(t, th), signaled' = signaled
    PROVE  SyncInv'
<1> DEFINE l == UnlinkAll(list, t, thread[t].objects)
<1>1. DOMAIN thread = Threads /\ thread' = [thread EXCEPT ![t] = th] /\ list' = WithoutDeadNodes(l, thread')
  BY DEF SyncInv, ThreadsOK, CancelWait
<1>2. DOMAIN thread' = Threads /\ thread'[t] = th /\ \A u \in Threads : u # t => thread'[u] = thread[u]
  BY <1>1
<1>3. ThreadsOK(thread)'
  BY <1>2 DEF SyncInv, ThreadsOK
<1>4. Lists(l, Waiting(thread'))
  <2>1. ThreadsOK(thread) /\ Lists(list, Waiting(thread)) /\ thread'[t].state # "Waiting"
    BY <1>2 DEF SyncInv
  <2> QED BY <1>2, <2>1, EndWaitLists
<1> HIDE DEF l
<1>5. Lists(list', Waiting(thread'))
  BY <1>1, <1>4, DeadNodesUnlinked
<1>6. NoWaiterOnSignaled'
  BY <1>2 DEF SyncInv, NoWaiterOnSignaled
<1> QED BY <1>3, <1>5, <1>6 DEF SyncInv

\* A call of Wait that returns at once changes the result of the thread.
LEMMA WaitReturnsStep ==
    ASSUME SyncInv, NEW t \in Threads, NEW objects, NEW timeout, WaitReturns(t, objects, timeout)
    PROVE  SyncInv'
<1> DEFINE th == thread[t]
<1>1. /\ DOMAIN thread = Threads /\ ThreadOK(th) /\ th.state = "Runnable"
      /\ list' = list /\ signaled' = signaled
  BY DEF SyncInv, ThreadsOK, WaitReturns
<1>2. \/ \E r, i : thread' = [thread EXCEPT ![t].result = r, ![t].index = i]
      \/ \E r, i : thread' = [thread EXCEPT ![t].result = r, ![t].index = i, ![t].waitCancelled = FALSE]
  BY DEF WaitReturns
<1>3. DOMAIN th = {"state", "objects", "result", "index", "timer", "cancellable",
                   "waitCancelled", "terminating"}
  BY <1>1, Fields DEF ThreadOK
<1>4. /\ DOMAIN thread' = Threads /\ \A u \in Threads : u # t => thread'[u] = thread[u]
      /\ DOMAIN thread'[t] = DOMAIN th
      /\ thread'[t].state = th.state /\ thread'[t].objects = th.objects
      /\ thread'[t].timer = th.timer /\ thread'[t].cancellable = th.cancellable
  <2>1. CASE \E r, i : thread' = [thread EXCEPT ![t].result = r, ![t].index = i]
    BY <1>1, <1>3, <2>1
  <2>2. CASE \E r, i : thread' = [thread EXCEPT ![t].result = r, ![t].index = i,
                                               ![t].waitCancelled = FALSE]
    BY <1>1, <1>3, <2>2
  <2> QED BY <1>2, <2>1, <2>2
<1>5. "Runnable" # "Waiting"
  OBVIOUS
<1> HIDE DEF th
<1>6. ThreadOK(thread'[t])
  BY <1>1, <1>4, <1>5 DEF ThreadOK
<1> QED BY <1>1, <1>4, <1>6, QuietStep DEF th

\* A wait begins on objects of which none is signalled.
LEMMA WaitBlocksStep ==
    ASSUME SyncInv, NEW t \in Threads, NEW objects \in ObjectLists, NEW timeout,
           WaitBlocks(t, objects, timeout)
    PROVE  SyncInv'
<1> DEFINE th == thread[t]
<1>1. /\ DOMAIN thread = Threads /\ ThreadOK(th) /\ th.state = "Runnable" /\ ~th.waitCancelled
      /\ signaled' = signaled /\ list' = LinkAll(list, t, objects)
      /\ \A i \in DOMAIN objects : ~signaled[objects[i]]
  BY DEF SyncInv, ThreadsOK, WaitBlocks, CancelledEarlier
<1>2. thread' = [thread EXCEPT ![t].state = "Waiting", ![t].objects = objects,
                               ![t].cancellable = TRUE, ![t].index = 0,
                               ![t].timer = (timeout = "positive")]
  BY DEF WaitBlocks
<1>3. DOMAIN th = {"state", "objects", "result", "index", "timer", "cancellable",
                   "waitCancelled", "terminating"}
  BY <1>1, Fields DEF ThreadOK
<1>4. /\ DOMAIN thread' = Threads /\ \A u \in Threads : u # t => thread'[u] = thread[u]
      /\ DOMAIN thread'[t] = DOMAIN th
      /\ thread'[t].state = "Waiting" /\ thread'[t].objects = objects
      /\ thread'[t].waitCancelled = th.waitCancelled /\ thread'[t].cancellable = TRUE
  BY <1>1, <1>2, <1>3
<1>5. "Runnable" # "Waiting"
  OBVIOUS
<1>6. ThreadsOK(thread)'
  <2> HIDE DEF th
  <2>1. ThreadOK(thread'[t])
    BY <1>1, <1>4 DEF ThreadOK
  <2> QED BY <1>4, <2>1 DEF SyncInv, ThreadsOK
<1>7. NoWaiterOnSignaled'
  BY <1>1, <1>4 DEF SyncInv, NoWaiterOnSignaled
<1>8. DOMAIN objects \subseteq 1 .. MaxObjects
  BY ObjectsOf
<1>9. \A p \in Objects, i \in 1 .. MaxObjects : <<t, i>> \notin Waiting(thread)[p]
  BY <1>1, <1>5, NodePair DEF Waiting, NodesOn
<1>10. ASSUME NEW p \in Objects
       PROVE  Waiting(thread')[p] = Waiting(thread)[p]
                   \cup {<<t, j>> : j \in {j \in DOMAIN objects : objects[j] = p}}
  <2> DEFINE New == {<<t, j>> : j \in {j \in DOMAIN objects : objects[j] = p}}
  <2>1. ASSUME NEW n \in NodesOn(thread', p) PROVE n \in NodesOn(thread, p) \cup New
    <3>1. /\ n \in Node /\ n[1] \in Threads /\ n = <<n[1], n[2]>>
          /\ thread'[n[1]].state = "Waiting" /\ n[2] \in DOMAIN thread'[n[1]].objects
          /\ thread'[n[1]].objects[n[2]] = p
      BY NodePair DEF NodesOn
    <3>2. CASE n[1] = t
      BY <1>4, <3>1, <3>2
    <3>3. CASE n[1] # t
      <4>1. thread'[n[1]] = thread[n[1]]
        BY <1>4, <3>1, <3>3
      <4> QED BY <3>1, <4>1 DEF NodesOn
    <3> QED BY <3>2, <3>3
  <2>2. ASSUME NEW n \in NodesOn(thread, p) PROVE n \in NodesOn(thread', p)
    <3>1. /\ n \in Node /\ n[1] \in Threads
          /\ thread[n[1]].state = "Waiting" /\ n[2] \in DOMAIN thread[n[1]].objects
          /\ thread[n[1]].objects[n[2]] = p
      BY NodePair DEF NodesOn
    <3>2. n[1] # t
      BY <1>1, <1>5, <3>1
    <3>3. thread'[n[1]] = thread[n[1]]
      BY <1>4, <3>1, <3>2
    <3> QED BY <3>1, <3>3 DEF NodesOn
  <2>3. ASSUME NEW j \in DOMAIN objects, objects[j] = p PROVE <<t, j>> \in NodesOn(thread', p)
    <3>1. <<t, j>> \in Node /\ <<t, j>>[1] = t /\ <<t, j>>[2] = j
      BY <1>8, NodePair
    <3> QED BY <1>4, <2>3, <3>1 DEF NodesOn
  <2> QED BY <2>1, <2>2, <2>3 DEF Waiting
<1>11. Lists(list', Waiting(thread'))
  <2>1. Lists(list, Waiting(thread))
    BY DEF SyncInv
  <2> QED BY <1>1, <1>9, <1>10, <2>1, LinkAllLists, SMTT(60)
<1> QED BY <1>1, <1>6, <1>7, <1>11 DEF SyncInv

\* When an object is signalled, the threads that wait on it are woken.
LEMMA SignalStep ==
    ASSUME SyncInv, NEW o \in Objects, Signal(o) PROVE SyncInv'
<1> DEFINE z == NotifyWalk([list |-> list, thread |-> thread, node |-> list.head[o]], o)
<1>1. /\ signaled' = [signaled EXCEPT ![o] = TRUE] /\ thread' = z.thread
      /\ list' = WithoutDeadNodes(z.list, z.thread) /\ DOMAIN signaled = Objects
  BY DEF Signal, SyncInv
<1>2. Notified(z, thread, o)
  BY WalkNotifiesAll DEF SyncInv
<1> HIDE DEF z
<1>3. ThreadsOK(thread') /\ Lists(z.list, Waiting(thread'))
  BY <1>1, <1>2 DEF Notified
<1>4. Lists(list', Waiting(thread'))
  BY <1>1, <1>3, DeadNodesUnlinked
<1>5. DOMAIN signaled' = Objects /\ \A p \in Objects : p # o => signaled'[p] = signaled[p]
  BY <1>1
<1>6. ASSUME NEW t \in Threads, thread'[t].state = "Waiting", NEW i \in DOMAIN thread'[t].objects
      PROVE  ~signaled'[thread'[t].objects[i]]
  <2>1. thread'[t] = thread[t] /\ \A j \in DOMAIN thread[t].objects : thread[t].objects[j] # o
    BY <1>1, <1>2, <1>6 DEF Notified
  <2>2. thread[t].objects \in ObjectLists
    BY DEF SyncInv, ThreadsOK, ThreadOK
  <2>3. thread[t].objects[i] \in Objects
    BY <1>6, <2>1, <2>2, ObjectsOf
  <2>4. ~signaled[thread[t].objects[i]]
    BY <1>6, <2>1 DEF SyncInv, NoWaiterOnSignaled
  <2> QED BY <1>5, <1>6, <2>1, <2>3, <2>4
<1>7. NoWaiterOnSignaled'
  BY <1>6 DEF NoWaiterOnSignaled
<1> QED BY <1>3, <1>4, <1>5, <1>7 DEF SyncInv

\* Nobody can be waiting on more signalled objects after one is reset.
LEMMA ResetStep ==
    ASSUME SyncInv, NEW o \in Objects, Reset(o) PROVE SyncInv'
<1>1. /\ signaled' = [signaled EXCEPT ![o] = FALSE] /\ thread' = thread /\ list' = list
      /\ DOMAIN signaled = Objects
  BY DEF Reset, SyncInv
<1>2. DOMAIN signaled' = Objects /\ \A p \in Objects : signaled'[p] => signaled[p]
  BY <1>1
<1>3. ThreadsOK(thread)' /\ Lists(list, Waiting(thread))'
  BY <1>1 DEF SyncInv
<1>4. NoWaiterOnSignaled'
  <2>1. \A t \in Threads : \A i \in DOMAIN thread[t].objects : thread[t].objects[i] \in Objects
    BY ObjectsOf DEF SyncInv, ThreadsOK, ThreadOK
  <2> QED BY <1>1, <1>2, <2>1 DEF SyncInv, NoWaiterOnSignaled
<1> QED BY <1>2, <1>3, <1>4 DEF SyncInv

\* A thread that does not wait keeps that a wait was cancelled for the next one.
LEMMA WaitCancelStep ==
    ASSUME SyncInv, NEW t \in Threads, WaitCancel(t) PROVE SyncInv'
<1> DEFINE th == thread[t]
<1>1. DOMAIN thread = Threads /\ ThreadOK(th)
  BY DEF SyncInv, ThreadsOK
<1>2. DOMAIN th = {"state", "objects", "result", "index", "timer", "cancellable",
                   "waitCancelled", "terminating"}
  BY <1>1, Fields DEF ThreadOK
<1>3. CASE th.state = "Waiting" /\ th.cancellable
  <2> DEFINE e == Ended(th, "Cancelled", 0)
             g == [e EXCEPT !.waitCancelled = CancelFlag(t)]
  <2>1. CancelWait(t, g) /\ signaled' = signaled
    BY <1>3 DEF WaitCancel
  <2>2. ThreadOK(e) /\ e.state = "Runnable" /\ "Runnable" # "Waiting"
    <3> HIDE DEF th
    <3> QED BY <1>1, EndedOK
  <2> HIDE DEF e, th
  <2>3. DOMAIN e = {"state", "objects", "result", "index", "timer", "cancellable",
                    "waitCancelled", "terminating"}
    BY <2>2, Fields DEF ThreadOK
  <2>4. /\ DOMAIN g = DOMAIN e /\ g.state = e.state /\ g.objects = e.objects
        /\ g.timer = e.timer /\ g.cancellable = e.cancellable
    BY <2>3
  <2> HIDE DEF g
  <2>5. ThreadOK(g) /\ g.state # "Waiting"
    BY <2>2, <2>4 DEF ThreadOK
  <2>6. thread[t].state = "Waiting"
    BY <1>3 DEF th
  <2> QED BY <2>1, <2>5, <2>6, CancelWaitStep
<1>4. CASE ~ (th.state = "Waiting" /\ th.cancellable)
  <2>1. /\ thread' = [thread EXCEPT ![t].waitCancelled = CancelFlag(t)]
        /\ list' = list /\ signaled' = signaled
    BY <1>4 DEF WaitCancel
  <2>2. /\ DOMAIN thread' = Threads /\ \A u \in Threads : u # t => thread'[u] = thread[u]
        /\ DOMAIN thread'[t] = DOMAIN th
        /\ thread'[t].state = th.state /\ thread'[t].objects = th.objects
        /\ thread'[t].timer = th.timer /\ thread'[t].cancellable = th.cancellable
        /\ thread'[t].waitCancelled = CancelFlag(t)
    BY <1>1, <1>2, <2>1
  <2>3. ThreadOK(thread'[t])
    BY <1>1, <1>4, <2>2 DEF ThreadOK
  <2> QED BY <2>1, <2>2, <2>3, QuietStep
<1> QED BY <1>3, <1>4

\* The timer ends a wait, or finds none.
LEMMA OnTimerStep ==
    ASSUME SyncInv, NEW t \in Threads, OnTimer(t) PROVE SyncInv'
<1> DEFINE th == thread[t]
<1>1. DOMAIN thread = Threads /\ ThreadOK(th) /\ th.timer
  BY DEF SyncInv, ThreadsOK, OnTimer
<1>2. th.state = "Waiting"
  BY <1>1 DEF ThreadOK
<1> DEFINE e == Ended(th, "TimedOut", 0)
<1>3. CancelWait(t, e) /\ signaled' = signaled
  BY <1>2 DEF OnTimer
<1>4. ThreadOK(e) /\ e.state # "Waiting"
  <2>1. "Runnable" # "Waiting"
    OBVIOUS
  <2> HIDE DEF th
  <2> QED BY <1>1, <2>1, EndedOK
<1> HIDE DEF e
<1> QED BY <1>2, <1>3, <1>4, CancelWaitStep

\* The termination of a thread ends its wait.
LEMMA RequestTerminateStep ==
    ASSUME SyncInv, NEW t \in Threads, RequestTerminate(t) PROVE SyncInv'
<1> DEFINE th == thread[t]
<1>1. DOMAIN thread = Threads /\ ThreadOK(th)
  BY DEF SyncInv, ThreadsOK
<1>2. DOMAIN th = {"state", "objects", "result", "index", "timer", "cancellable",
                   "waitCancelled", "terminating"}
  BY <1>1, Fields DEF ThreadOK
<1>3. CASE th.state = "Waiting"
  <2> DEFINE e == Ended(th, "TerminationRequested", 0)
             g == [e EXCEPT !.terminating = TRUE]
  <2>1. CancelWait(t, g) /\ signaled' = signaled
    BY <1>3 DEF RequestTerminate
  <2>2. ThreadOK(e) /\ e.state = "Runnable" /\ "Runnable" # "Waiting"
    <3> HIDE DEF th
    <3> QED BY <1>1, EndedOK
  <2> HIDE DEF e, th
  <2>3. DOMAIN e = {"state", "objects", "result", "index", "timer", "cancellable",
                    "waitCancelled", "terminating"}
    BY <2>2, Fields DEF ThreadOK
  <2>4. /\ DOMAIN g = DOMAIN e /\ g.state = e.state /\ g.objects = e.objects
        /\ g.timer = e.timer /\ g.cancellable = e.cancellable
    BY <2>3
  <2> HIDE DEF g
  <2>5. ThreadOK(g) /\ g.state # "Waiting"
    BY <2>2, <2>4 DEF ThreadOK
  <2>6. thread[t].state = "Waiting"
    BY <1>3 DEF th
  <2> QED BY <2>1, <2>5, <2>6, CancelWaitStep
<1>4. CASE th.state # "Waiting"
  <2>1. /\ thread' = [thread EXCEPT ![t].terminating = TRUE]
        /\ list' = list /\ signaled' = signaled
    BY <1>4 DEF RequestTerminate
  <2>2. /\ DOMAIN thread' = Threads /\ \A u \in Threads : u # t => thread'[u] = thread[u]
        /\ DOMAIN thread'[t] = DOMAIN th
        /\ thread'[t].state = th.state /\ thread'[t].objects = th.objects
        /\ thread'[t].timer = th.timer /\ thread'[t].cancellable = th.cancellable
    BY <1>1, <1>2, <2>1
  <2>3. ThreadOK(thread'[t])
    BY <1>1, <1>4, <2>2 DEF ThreadOK
  <2> QED BY <2>1, <2>2, <2>3, QuietStep
<1> QED BY <1>3, <1>4

\* Every step keeps the invariant.
LEMMA SyncStep == SyncInv /\ [SyncNext]_syncVars => SyncInv'
<1> SUFFICES ASSUME SyncInv, [SyncNext]_syncVars PROVE SyncInv'
  OBVIOUS
<1>1. ASSUME NEW t \in Threads, NEW objects \in ObjectLists, NEW timeout \in Timeouts,
             WaitReturns(t, objects, timeout) \/ WaitBlocks(t, objects, timeout)
      PROVE  SyncInv'
  BY <1>1, WaitReturnsStep, WaitBlocksStep
<1>2. ASSUME NEW o \in Objects, Signal(o) \/ Reset(o) PROVE SyncInv'
  BY <1>2, SignalStep, ResetStep
<1>3. ASSUME NEW t \in Threads, WaitCancel(t) \/ OnTimer(t) \/ RequestTerminate(t) PROVE SyncInv'
  BY <1>3, WaitCancelStep, OnTimerStep, RequestTerminateStep
<1>4. CASE UNCHANGED syncVars
  <2>1. signaled' = signaled /\ list' = list /\ thread' = thread
    BY <1>4 DEF syncVars
  <2> QED BY <2>1 DEF SyncInv, NoWaiterOnSignaled
<1> QED BY <1>1, <1>2, <1>3, <1>4 DEF SyncNext

\* The lists are exact: the walk from the head meets the nodes of the waiting threads.
LEMMA ExactLists == SyncInv => ListsExact
<1> SUFFICES ASSUME SyncInv, NEW o \in Objects
             PROVE  LET at == Walk(list, o)
                    IN /\ {at[i] : i \in DOMAIN at} \ {NoNode} = NodesOn(thread, o)
                       /\ \A i, j \in DOMAIN at : at[i] = at[j] /\ at[i] # NoNode => i = j
                       /\ at[MaxNodes] = NoNode
                       /\ IF at[0] = NoNode THEN list.tail[o] = NoNode
                          ELSE list.tail[o] # NoNode /\ \E i \in 0 .. MaxNodes - 1 :
                                                          at[i] = list.tail[o] /\ at[i + 1] = NoNode
  BY DEF ListsExact
<1> DEFINE at == Walk(list, o)
<1>1. PICK k, s : Chained(list, o, k, s) /\ Linked(k, s) = NodesOn(thread, o)
  <2>1. Holds(list, o, NodesOn(thread, o))
    BY DEF SyncInv, Lists, Waiting
  <2> QED BY <2>1 DEF Holds
<1>a. k <= MaxNodes
  BY <1>1, ChainShort
<1>0. MaxNodes \in Nat /\ k \in Nat /\ k <= MaxNodes
  BY <1>1, <1>a, NodesFinite DEF Chained
<1>2. /\ DOMAIN at = 0 .. MaxNodes
      /\ \A i \in 0 .. k : at[i] = s[i]
      /\ \A i \in k .. MaxNodes : at[i] = NoNode
  BY <1>1, WalkFollows, SMTT(60)
<1> HIDE DEF at
<1>3. /\ \A i \in 0 .. MaxNodes : at[i] # NoNode => i \in 0 .. k - 1
      /\ \A i \in 0 .. k - 1 : i \in 0 .. MaxNodes /\ i \in 0 .. k
  BY <1>0, <1>2, SMTT(60)
<1>4. \A i \in 0 .. k - 1 : at[i] = s[i] /\ s[i] # NoNode
  BY <1>1, <1>2, <1>3, NodesAssumption DEF Chained
<1>5. {at[i] : i \in DOMAIN at} \ {NoNode} = NodesOn(thread, o)
  <2>1. {at[i] : i \in DOMAIN at} \ {NoNode} = {s[i] : i \in 0 .. k - 1}
    BY <1>2, <1>3, <1>4
  <2> QED BY <1>1, <2>1 DEF Linked
<1>6. \A i, j \in DOMAIN at : at[i] = at[j] /\ at[i] # NoNode => i = j
  <2> SUFFICES ASSUME NEW i \in DOMAIN at, NEW j \in DOMAIN at, at[i] = at[j], at[i] # NoNode
               PROVE  i = j
    OBVIOUS
  <2>1. i \in 0 .. k - 1 /\ j \in 0 .. k - 1
    BY <1>2, <1>3
  <2>2. s[i] = s[j]
    BY <1>4, <2>1
  <2> QED BY <1>1, <2>1, <2>2 DEF Chained
<1>7. at[MaxNodes] = NoNode /\ at[0] = s[0]
  <2>1. MaxNodes \in k .. MaxNodes /\ 0 \in 0 .. k
    BY <1>0, SMTT(60)
  <2> QED BY <1>2, <2>1
<1>8. CASE k = 0
  BY <1>1, <1>5, <1>6, <1>7, <1>8 DEF Chained, at
<1>9. CASE k # 0
  <2>1. /\ 0 \in 0 .. k - 1 /\ k - 1 \in 0 .. k - 1 /\ k - 1 \in 0 .. MaxNodes - 1
        /\ (k - 1) + 1 = k /\ k \in k .. MaxNodes
    BY <1>0, <1>9, SMTT(60)
  <2>2. at[0] # NoNode /\ list.tail[o] = s[k - 1]
    BY <1>1, <1>4, <1>9, <2>1 DEF Chained
  <2>3. at[k - 1] = list.tail[o] /\ at[(k - 1) + 1] = NoNode /\ list.tail[o] # NoNode
    BY <1>2, <1>4, <2>1, <2>2
  <2> QED BY <1>5, <1>6, <1>7, <2>1, <2>2, <2>3 DEF at
<1> QED BY <1>8, <1>9

\* SyncInv always holds: each operation of KSynchronizationObject keeps it.
LEMMA SyncInvariant == SyncSpec => []SyncInv
BY SyncInitially, SyncStep, PTL DEF SyncSpec

\* The list of each object always has exactly the nodes of the threads in
\* KSynchronizationObject::Wait on it, whatever order waits are begun and ended in.
THEOREM SyncListsExact == SyncSpec => []ListsExact
BY SyncInvariant, ExactLists, PTL

\* No thread ever waits on a signalled object: the walk of NotifyAvailable reaches
\* every waiting thread, though it unlinks the nodes it walks along.
THEOREM SyncNoWaiterOnSignaled == SyncSpec => []NoWaiterOnSignaled
<1>1. SyncInv => NoWaiterOnSignaled
  BY DEF SyncInv
<1> QED BY <1>1, SyncInvariant, PTL

\* A wait that has ended in any way has left no timer task and no cancellable thread.
THEOREM SyncNothingLeftBehind == SyncSpec => []NothingLeftBehind
<1>1. SyncInv => NothingLeftBehind
  BY DEF SyncInv, ThreadsOK, ThreadOK, NothingLeftBehind
<1> QED BY <1>1, SyncInvariant, PTL

-----------------------------------------------------------------------------
(* The host timer and the hardware timer.                                  *)

\* paused_set is noted before the timer thread waits on pause_event and taken back
\* before it enters Advance.  Once SyncPause has set the events, a timer thread
\* that has not come back to its loop has the signal that brings it there, also one
\* that is about to note a pause that is over.
PauseInv ==
    /\ paused \in BOOLEAN /\ pausedSet \in BOOLEAN
    /\ pc = "pause" => pausedSet
    /\ pausedSet => pc \in {"loop", "running", "pausing", "pause"}
    /\ pauser = "spin" /\ paused => signal \/ pc \in {"loop", "pausing", "pause"}
    /\ pauser \in {"eventSet", "spin"} /\ ~paused /\ pc \in {"pausing", "pause"} => pauseSignal

\* The users' steps leave the pause alone and take no signal from it.
LEMMA UserPause ==
    ASSUME PauseInv, NEW u \in Users,
           \/ \E type \in Types, time \in 0 .. MaxTime, period \in Periods \cup {0} :
                 ScheduleEvent(u, type, time, period)
           \/ \E type \in Types, wait \in BOOLEAN : UnscheduleEvent(u, type, wait)
           \/ ClearPendingEvents(u) \/ UserReturns(u)
    PROVE  PauseInv'
<1>1. ASSUME NEW type, NEW time, NEW period, ScheduleEvent(u, type, time, period)
      PROVE  UNCHANGED <<pc, signal, pauseVars>>
  BY <1>1 DEF ScheduleEvent
<1>2. ASSUME NEW type, NEW wait, UnscheduleEvent(u, type, wait)
      PROVE  UNCHANGED <<pc, signal, pauseVars>>
  BY <1>2 DEF UnscheduleEvent
<1>3. CASE UserReturns(u)
  BY <1>3, SMTT(60) DEF UserReturns, EventSet, SetSignal, UnscheduleReturn, PauseInv, pauseVars
<1>4. CASE UNCHANGED <<pc, signal, pauseVars>>
  BY <1>4 DEF PauseInv, pauseVars
<1>5. CASE ClearPendingEvents(u)
  BY <1>5 DEF ClearPendingEvents, SetSignal, PauseInv, pauseVars
<1> QED BY <1>1, <1>2, <1>3, <1>4, <1>5

\* The timer thread preserves PauseInv.
LEMMA ThreadLoopPause == ASSUME PauseInv, ThreadLoop PROVE PauseInv'
<1>1. CASE LoopRuns
  BY <1>1 DEF LoopRuns, PauseInv, pauseVars
<1>2. CASE EnterAdvance
  BY <1>2 DEF EnterAdvance, PauseInv
<1>3. CASE BeginCallback
  BY <1>3 DEF BeginCallback, PauseInv, pauseVars
<1>4. ASSUME NEW p \in Periods, EndCallback(p) PROVE PauseInv'
  BY <1>4 DEF EndCallback, PauseInv, pauseVars
<1>5. CASE ReturnFromAdvance
  BY <1>5 DEF ReturnFromAdvance, PauseInv, pauseVars
<1>6. CASE Awake
  BY <1>6 DEF Awake, PauseInv, pauseVars
<1>7. CASE LoopPauses
  BY <1>7 DEF LoopPauses, PauseInv, pauseVars
<1>8. CASE NotePause
  BY <1>8 DEF NotePause, PauseInv
<1>9. CASE PauseWaitReturns
  BY <1>9 DEF PauseWaitReturns, PauseInv
<1> QED BY <1>1, <1>2, <1>3, <1>4, <1>5, <1>6, <1>7, <1>8, <1>9 DEF ThreadLoop

\* Every step preserves PauseInv.
LEMMA NextPause == PauseInv /\ [Next]_vars => PauseInv'
<1> SUFFICES ASSUME PauseInv, [Next]_vars PROVE PauseInv'
  OBVIOUS
<1>1. CASE UNCHANGED vars
  BY <1>1 DEF vars, pauseVars, PauseInv
<1>2. ASSUME NEW p \in BOOLEAN, SyncPause(p) PROVE PauseInv'
  BY <1>2 DEF SyncPause, PauseInv
<1>3. CASE PauseSet \/ PauseEndSet
  BY <1>3, SMTT(60) DEF PauseSet, PauseEndSet, PauseInv
<1>4. CASE ResumeSet \/ PauseEventSet
  BY <1>4, SMTT(60) DEF ResumeSet, PauseEventSet, PauseInv
<1>5. CASE PauseReturn
  BY <1>5 DEF PauseReturn, PauseReached, PauseInv
<1>6. CASE Tick
  BY <1>6 DEF Tick, PauseInv, pauseVars
<1> QED BY <1>1, <1>2, <1>3, <1>4, <1>5, <1>6, UserPause, ThreadLoopPause DEF Next, PauserReturns

\* PauseInv is an invariant.
LEMMA PauseInvariant == Spec => []PauseInv
<1>1. Init => PauseInv
  BY DEF Init, PauseInv
<1> QED BY <1>1, NextPause, PTL DEF Spec

\* SyncPause does not spin on a timer thread that sleeps or blocks without a
\* signal, however callbacks, calls of users and pauses interleave.
THEOREM SpinnerServed == Spec => []SpinnerIsServed
<1>1. PauseInv => SpinnerIsServed
  BY DEF PauseInv, SpinnerIsServed
<1> QED BY <1>1, PauseInvariant, PTL
-----------------------------------------------------------------------------
(* The queue.                                                              *)

UserStates == {Idle} \cup [do : {"set"}] \cup [do : {"wait"}, type : Types, clean : BOOLEAN]

\* What Advance looks at is a time.
TimesInv ==
    /\ now \in Nat /\ pauseEnd \in Nat
    /\ \A e \in queue : e.time \in Nat /\ e.period \in Nat
    /\ pc = "call" => evt.time \in Nat /\ evt.period \in Nat

\* No event of the type is queued, and a callback that runs will not queue one.
Leaving(type) ==
    EventsOf(type) = {} /\ (pc = "call" /\ evt.type = type => evt.period = 0 \/ ~fresh)

\* While UnscheduleEvent waits for advance_lock, the type is about to be quiet,
\* unless it has been scheduled again.
QuietInv ==
    /\ user \in [Users -> UserStates]
    /\ \A type \in stopped : EventsOf(type) = {} /\ (pc = "call" => evt.type # type)
    /\ \A u \in Users : user[u].do = "wait" /\ user[u].clean => Leaving(user[u].type)
    /\ HandleValid

\* The parts together: NoMissedEvent needs the times, nothing else needs it.
QueueInv == TimesInv /\ QuietInv /\ NoMissedEvent

\* The times of events and the clock.
LEMMA NextTimes == TimesInv /\ [Next]_vars => TimesInv'
<1> SUFFICES ASSUME TimesInv, [Next]_vars PROVE TimesInv'
  OBVIOUS
<1>1. ASSUME NEW u \in Users, NEW type \in Types, NEW time \in 0 .. MaxTime,
             NEW period \in Periods \cup {0}, ScheduleEvent(u, type, time, period)
      PROVE  TimesInv'
  BY <1>1, PeriodsAssumption, BoundsAssumption, SMTT(60) DEF ScheduleEvent, Event, TimesInv, pauseVars
<1>2. ASSUME NEW u \in Users, NEW type \in Types, NEW wait \in BOOLEAN,
             UnscheduleEvent(u, type, wait)
      PROVE  TimesInv'
  BY <1>2 DEF UnscheduleEvent, TimesInv, pauseVars
<1>3. ASSUME NEW u \in Users, UserReturns(u) PROVE TimesInv'
  BY <1>3 DEF UserReturns, EventSet, UnscheduleReturn, TimesInv, pauseVars
<1>4. CASE BeginCallback
  BY <1>4 DEF BeginCallback, TimesInv, pauseVars
<1>5. ASSUME NEW p \in Periods, EndCallback(p) PROVE TimesInv'
  <2>1. NextTime(p) \in Nat
    BY <1>5, PeriodsAssumption, SMTT(60) DEF EndCallback, NextTime, TimesInv
  <2> QED BY <1>5, <2>1, PeriodsAssumption, SMTT(60) DEF EndCallback, Event, TimesInv, pauseVars
<1>6. CASE PauseEndSet \/ PauseReturn
  BY <1>6 DEF PauseEndSet, PauseReturn, PauseEndNow, TimesInv
<1>7. CASE Tick
  BY <1>7, SMTT(60) DEF Tick, TimesInv, pauseVars
<1>8. CASE LoopRuns \/ EnterAdvance \/ ReturnFromAdvance \/ Awake \/ LoopPauses \/ NotePause
           \/ PauseWaitReturns
  BY <1>8 DEF LoopRuns, EnterAdvance, ReturnFromAdvance, Awake, LoopPauses, NotePause,
              PauseWaitReturns, TimesInv, pauseVars
<1>9. CASE (\E p \in BOOLEAN : SyncPause(p)) \/ PauseSet \/ ResumeSet \/ PauseEventSet
  BY <1>9 DEF SyncPause, PauseSet, ResumeSet, PauseEventSet, TimesInv
<1>10. CASE UNCHANGED vars
  BY <1>10 DEF vars, pauseVars, TimesInv
<1>11. ASSUME NEW u \in Users, ClearPendingEvents(u) PROVE TimesInv'
  BY <1>11 DEF ClearPendingEvents, TimesInv, pauseVars
<1> QED BY <1>1, <1>2, <1>3, <1>4, <1>5, <1>6, <1>7, <1>8, <1>9, <1>10, <1>11
        DEF Next, ThreadLoop, PauserReturns

\* The users' steps preserve QuietInv.
LEMMA UserQuiet ==
    ASSUME QuietInv, NEW u \in Users PROVE
    /\ \A type \in Types, time \in 0 .. MaxTime, period \in Periods \cup {0} :
          ScheduleEvent(u, type, time, period) => QuietInv'
    /\ \A type \in Types, wait \in BOOLEAN : UnscheduleEvent(u, type, wait) => QuietInv'
    /\ ClearPendingEvents(u) \/ UserReturns(u) => QuietInv'
<1>1. ASSUME NEW type \in Types, NEW time \in 0 .. MaxTime, NEW period \in Periods \cup {0},
             ScheduleEvent(u, type, time, period)
      PROVE  QuietInv'
  <2>1. /\ queue' = queue \cup {Event(type, time, period)} /\ stopped' = stopped \ {type}
        /\ UNCHANGED <<pc, evt, fresh>> /\ Event(type, time, period).type = type
    BY <1>1 DEF ScheduleEvent, Event
  <2>2. \A ty \in Types \ {type} : EventsOf(ty)' = EventsOf(ty)
    BY <2>1 DEF EventsOf
  <2>3. \A ty \in stopped' : EventsOf(ty) = {} /\ EventsOf(ty)' = EventsOf(ty)
    BY <2>1 DEF QuietInv, EventsOf
  <2>4. user' \in [Users -> UserStates]
    BY <1>1 DEF ScheduleEvent, QuietInv, UserStates
  <2>5. ASSUME NEW v \in Users, user'[v].do = "wait", user'[v].clean
        PROVE  user'[v] = user[v] /\ user[v].type # type
    BY <1>1, <2>5 DEF ScheduleEvent, QuietInv, UserStates
  <2>6. ASSUME NEW v \in Users, user'[v].do = "wait", user'[v].clean
        PROVE  Leaving(user[v].type)'
    BY <2>1, <2>2, <2>5, <2>6, SMTT(60) DEF QuietInv, Leaving, EventsOf
  <2>7. HandleValid'
    BY <2>1 DEF QuietInv, HandleValid, StillQueued
  <2> QED BY <2>1, <2>3, <2>4, <2>6, <2>7 DEF QuietInv
<1>2. ASSUME NEW type \in Types, NEW wait \in BOOLEAN, UnscheduleEvent(u, type, wait)
      PROVE  QuietInv'
  <2>1. /\ queue' = queue \ EventsOf(type) /\ UNCHANGED <<pc, evt, stopped>>
        /\ fresh' => fresh /\ (pc = "call" => evt.type # type)
    BY <1>2 DEF UnscheduleEvent
  <2>2. EventsOf(type)' = {} /\ \A ty : EventsOf(ty) = {} => EventsOf(ty)' = {}
    BY <2>1 DEF EventsOf
  <2>3. user' \in [Users -> UserStates]
    BY <1>2 DEF UnscheduleEvent, QuietInv, UserStates
  <2>4. ASSUME NEW v \in Users, user'[v].do = "wait", user'[v].clean
        PROVE  Leaving(user[v].type)'
    <3>1. user'[v].type = type \/ user'[v] = user[v]
      BY <1>2, <2>4 DEF UnscheduleEvent, QuietInv, UserStates, Idle
    <3> QED BY <2>1, <2>2, <2>4, <3>1 DEF QuietInv, Leaving
  <2>5. HandleValid'
    BY <2>1 DEF QuietInv, HandleValid, StillQueued, EventsOf
  <2> QED BY <2>1, <2>2, <2>3, <2>4, <2>5 DEF QuietInv
<1>3. CASE EventSet(u)
  BY <1>3 DEF EventSet, QuietInv, UserStates, Leaving, EventsOf, HandleValid, StillQueued, Idle
<1>4. CASE UnscheduleReturn(u)
  <2>1. /\ UNCHANGED <<queue, pc, evt, fresh>> /\ user' = [user EXCEPT ![u] = Idle]
        /\ pc # "call" /\ user[u].do = "wait"
        /\ stopped' = IF user[u].clean THEN stopped \cup {user[u].type} ELSE stopped
    BY <1>4 DEF UnscheduleReturn, AdvanceLockFree
  <2>2. \A type : EventsOf(type)' = EventsOf(type)
    BY <2>1 DEF EventsOf
  <2>3. \A type \in stopped' : EventsOf(type) = {}
    BY <2>1 DEF QuietInv, Leaving
  <2>4. user' \in [Users -> UserStates]
    BY <2>1 DEF QuietInv, UserStates
  <2>5. ASSUME NEW v \in Users, user'[v].do = "wait" PROVE user'[v] = user[v]
    BY <2>1, <2>5 DEF QuietInv, Idle
  <2>6. HandleValid'
    BY <2>1 DEF HandleValid
  <2> QED BY <2>1, <2>2, <2>3, <2>4, <2>5, <2>6 DEF QuietInv, Leaving
<1>5. CASE ClearPendingEvents(u)
  <2>1. queue' = {} /\ pc # "call" /\ UNCHANGED <<pc, user, stopped>>
    BY <1>5 DEF ClearPendingEvents, AdvanceLockFree
  <2>2. \A type : EventsOf(type)' = {}
    BY <2>1 DEF EventsOf
  <2> QED BY <2>1, <2>2 DEF QuietInv, Leaving, HandleValid
<1> QED BY <1>1, <1>2, <1>3, <1>4, <1>5 DEF UserReturns

\* A step that leaves the queue, the callback and the users alone.
LEMMA SameQuiet ==
    ASSUME QuietInv, UNCHANGED <<queue, evt, fresh, user, stopped>>,
           pc' = pc \/ (pc # "call" /\ pc' # "call")
    PROVE  QuietInv'
BY DEF QuietInv, Leaving, EventsOf, HandleValid, StillQueued

\* The timer thread's steps preserve QuietInv: a callback begins with an event of
\* the queue, and at its end puts back only what nobody has unscheduled.
LEMMA ThreadLoopQuiet == ASSUME QuietInv, ThreadLoop PROVE QuietInv'
<1>1. CASE BeginCallback
  <2>1. /\ evt' \in queue /\ queue' = IF evt'.period = 0 THEN queue \ {evt'} ELSE queue
        /\ UNCHANGED <<user, stopped>>
    BY <1>1 DEF BeginCallback, userVars
  <2>2. \A type : EventsOf(type) = {} => EventsOf(type)' = {} /\ evt'.type # type
    BY <2>1 DEF EventsOf
  <2>3. HandleValid'
    BY <2>1 DEF HandleValid
  <2> QED BY <2>1, <2>2, <2>3 DEF QuietInv, Leaving
<1>2. ASSUME NEW p \in Periods, EndCallback(p) PROVE QuietInv'
  <2>1. pc = "call" /\ pc' = "advance" /\ UNCHANGED <<user, stopped>>
    BY <1>2 DEF EndCallback, userVars
  <2>2. HandleValid'
    BY <2>1 DEF HandleValid
  <2>3. CASE evt.period # 0 /\ fresh
    <3>1. /\ queue' = (queue \ {evt}) \cup {Event(evt.type, NextTime(p), p)}
          /\ Event(evt.type, NextTime(p), p).type = evt.type
      BY <1>2, <2>3 DEF EndCallback, StillQueued, Event
    <3>2. \A type : EventsOf(type) = {} /\ type # evt.type => EventsOf(type)' = {}
      BY <3>1 DEF EventsOf
    <3> QED BY <2>1, <2>2, <2>3, <3>2 DEF QuietInv, Leaving
  <2>4. CASE ~(evt.period # 0 /\ fresh)
    <3>1. UNCHANGED queue
      BY <1>2, <2>4 DEF EndCallback, StillQueued
    <3>2. \A type : EventsOf(type)' = EventsOf(type)
      BY <3>1 DEF EventsOf
    <3> QED BY <2>1, <2>2, <3>2 DEF QuietInv, Leaving
  <2> QED BY <2>3, <2>4
<1>3. CASE LoopRuns \/ EnterAdvance \/ ReturnFromAdvance
  BY <1>3, SameQuiet DEF LoopRuns, EnterAdvance, ReturnFromAdvance, userVars
<1>4. CASE Awake \/ LoopPauses \/ NotePause \/ PauseWaitReturns
  BY <1>4, SameQuiet DEF Awake, LoopPauses, NotePause, PauseWaitReturns, userVars
<1> QED BY <1>1, <1>2, <1>3, <1>4 DEF ThreadLoop

\* Every step preserves QuietInv.
LEMMA NextQuiet == QuietInv /\ [Next]_vars => QuietInv'
<1> SUFFICES ASSUME QuietInv, [Next]_vars PROVE QuietInv'
  OBVIOUS
<1>1. CASE (\E p \in BOOLEAN : SyncPause(p)) \/ Tick
  BY <1>1, SameQuiet DEF SyncPause, Tick, userVars
<1>2. CASE PauserReturns
  BY <1>2, SameQuiet DEF PauserReturns, PauseSet, PauseEndSet, ResumeSet, PauseEventSet, PauseReturn,
                         userVars
<1>3. CASE UNCHANGED vars
  BY <1>3, SameQuiet DEF vars, userVars
<1> QED BY <1>1, <1>2, <1>3, UserQuiet, ThreadLoopQuiet DEF Next

\* Every step preserves NoMissedEvent: an event is queued by a user who signals
\* afterwards or while the timer thread is up, and Advance sleeps to the first.
LEMMA NextNoMissed ==
    TimesInv /\ QuietInv /\ NoMissedEvent /\ [Next]_vars => NoMissedEvent'
<1> SUFFICES ASSUME TimesInv, QuietInv, NoMissedEvent, [Next]_vars, pc' = "sleep"
             PROVE  NoMissedEvent'
  BY DEF NoMissedEvent
<1>1. ASSUME NEW u \in Users, NEW type \in Types, NEW time \in 0 .. MaxTime,
             NEW period \in Periods \cup {0}, ScheduleEvent(u, type, time, period)
      PROVE  NoMissedEvent'
  <2>1. user'[u].do = "set"
    BY <1>1 DEF ScheduleEvent
  <2> QED BY <2>1 DEF NoMissedEvent
<1>2. ASSUME NEW u \in Users, NEW type \in Types, NEW wait \in BOOLEAN,
             UnscheduleEvent(u, type, wait)
      PROVE  NoMissedEvent'
  <2>1. /\ queue' \subseteq queue /\ UNCHANGED <<pc, until, signal>>
        /\ user[u].do = "idle" /\ \A v \in Users \ {u} : user'[v] = user[v]
    BY <1>2, SMTT(60) DEF UnscheduleEvent, BeginCall, Idle, QuietInv
  <2> QED BY <2>1 DEF NoMissedEvent
<1>3. ASSUME NEW u \in Users, EventSet(u) PROVE NoMissedEvent'
  BY <1>3 DEF EventSet, SetSignal, NoMissedEvent
<1>4. ASSUME NEW u \in Users, UnscheduleReturn(u) PROVE NoMissedEvent'
  <2>1. /\ UNCHANGED <<queue, pc, until, signal>>
        /\ user[u].do = "wait" /\ \A v \in Users \ {u} : user'[v] = user[v]
    BY <1>4 DEF UnscheduleReturn, QuietInv
  <2> QED BY <2>1 DEF NoMissedEvent
<1>5. CASE ReturnFromAdvance
  <2>1. CASE queue' = {}
    BY <2>1 DEF NoMissedEvent
  <2>2. CASE queue' # {}
    <3>1. PICK e \in queue : IsTop(e) /\ until' = e.time
      BY <1>5, <2>2 DEF ReturnFromAdvance
    <3>2. queue' = queue /\ e.time # Forever
      BY <1>5, ForeverAssumption DEF ReturnFromAdvance, TimesInv
    <3> QED BY <3>1, <3>2, SMTT(60) DEF IsTop, Before, NoMissedEvent, TimesInv
  <2> QED BY <2>1, <2>2
<1>6. CASE LoopRuns \/ EnterAdvance \/ BeginCallback \/ (\E p \in Periods : EndCallback(p))
           \/ Awake \/ LoopPauses \/ NotePause \/ PauseWaitReturns
  BY <1>6 DEF LoopRuns, EnterAdvance, BeginCallback, EndCallback, Awake, LoopPauses, NotePause,
              PauseWaitReturns
<1>7. CASE UNCHANGED <<queue, pc, until, user>> /\ (signal => signal')
  BY <1>7 DEF NoMissedEvent
<1>8. CASE (\E p \in BOOLEAN : SyncPause(p)) \/ PauserReturns \/ Tick \/ UNCHANGED vars
  BY <1>7, <1>8, SMTT(60)
     DEF SyncPause, PauserReturns, PauseSet, PauseEndSet, ResumeSet, PauseEventSet, PauseReturn,
                    Tick, userVars, vars
<1>9. ASSUME NEW u \in Users, ClearPendingEvents(u) PROVE NoMissedEvent'
  BY <1>9 DEF ClearPendingEvents, SetSignal, NoMissedEvent
<1> QED BY <1>1, <1>2, <1>3, <1>4, <1>5, <1>6, <1>8, <1>9 DEF Next, ThreadLoop, UserReturns

\* QueueInv is an invariant.
LEMMA QueueInvariant == Spec => []QueueInv
<1>1. Init => TimesInv
  BY SMTT(60) DEF Init, TimesInv
<1>2. Init => QuietInv
  BY SMTT(60) DEF Init, QuietInv, UserStates, HandleValid, Idle
<1>3. Init => NoMissedEvent
  BY DEF Init, NoMissedEvent
<1> QED BY <1>1, <1>2, <1>3, NextTimes, NextQuiet, NextNoMissed, PTL DEF Spec, QueueInv

\* The timer thread never sleeps past an event.
THEOREM NoEventMissed == Spec => []NoMissedEvent
BY QueueInvariant, PTL DEF QueueInv

\* A type that UnscheduleEvent has stopped does not run, and nothing queues it
\* behind the back of who stopped it: not the looping event whose callback was in
\* progress, nor one that the call has overtaken.
THEOREM StopsAreComplete == Spec => []StoppedIsQuiet
<1>1. QueueInv => StoppedIsQuiet
  BY DEF QueueInv, QuietInv, StoppedIsQuiet
<1> QED BY <1>1, QueueInvariant, PTL

\* Advance updates no event that was erased during its callback.
THEOREM NoErasedHandle == Spec => []HandleValid
BY QueueInvariant, PTL DEF QueueInv, QuietInv
-----------------------------------------------------------------------------
(* The hardware timer.                                                     *)

\* The inductive invariant of the hardware timer.
TimerInv == TypeOK /\ TaskPerWait /\ NextTaskFirst /\ AlwaysArmed

\* NextTaskFirst and AlwaysArmed, spelled out task by task.
LEMMA FirstSpelled ==
    ASSUME NEW tm \in [Tasks -> 0 .. MaxTick], NEW n \in FirstOrNone(tm)
    PROVE  \/ n = NoTask /\ \A t \in Tasks : tm[t] = 0
           \/ n \in Tasks /\ tm[n] > 0 /\ \A t \in Tasks : tm[t] > 0 => tm[n] <= tm[t]
BY MaxTickAssumption, SMTT(60) DEF FirstOrNone, First, Tree

\* And back: a task no later than every task in the tree can be first in it.
LEMMA FirstFound ==
    ASSUME NEW tm \in [Tasks -> 0 .. MaxTick], NEW n,
           \/ n = NoTask /\ \A t \in Tasks : tm[t] = 0
           \/ n \in Tasks /\ tm[n] > 0 /\ \A t \in Tasks : tm[t] > 0 => tm[n] <= tm[t]
    PROVE  n \in FirstOrNone(tm)
BY MaxTickAssumption, SMTT(60) DEF FirstOrNone, First, Tree

\* The timer starts unarmed, with an empty tree.
LEMMA TimerInitInv == TimerInit => TimerInv
<1> SUFFICES ASSUME TimerInit PROVE TimerInv
  OBVIOUS
<1> USE MaxTickAssumption, TasksAssumption DEF TimerInit
<1>1. TypeOK
  <2>1. tick \in 0 .. MaxTick /\ wakeup \in 1 .. Never /\ taskTime \in [Tasks -> 0 .. MaxTick]
    BY SMTT(60) DEF Never
  <2> QED BY <2>1 DEF TypeOK
<1>2. Tree(taskTime) = {}
  BY SMTT(60) DEF Tree
<1>3. TaskPerWait /\ NextTaskFirst /\ AlwaysArmed
  BY <1>2 DEF TaskPerWait, NextTaskFirst, AlwaysArmed, FirstOrNone
<1> QED BY <1>1, <1>3 DEF TimerInv

\* A thread that goes to sleep registers its task.
LEMMA SleepStep ==
    ASSUME TimerInv, NEW t \in Tasks, NEW at \in Times, Sleep(t, at)
    PROVE  TimerInv'
<1> USE MaxTickAssumption, TasksAssumption DEF Times, Never
<1>1. /\ TypeOK /\ taskTime[t] = 0
      /\ taskTime' = [taskTime EXCEPT ![t] = at] /\ taskTime' \in [Tasks -> 0 .. MaxTick]
  BY SMTT(60) DEF TimerInv, TypeOK, TaskPerWait, Tree, Sleep
<1>2. \/ nextTask = NoTask /\ \A u \in Tasks : taskTime[u] = 0
      \/ nextTask \in Tasks /\ taskTime[nextTask] > 0
         /\ \A u \in Tasks : taskTime[u] > 0 => taskTime[nextTask] <= taskTime[u]
  BY <1>1, FirstSpelled DEF TimerInv, TypeOK, NextTaskFirst
<1>3. wakeup' \in 1 .. Never /\ interrupts' \subseteq Times
  <2>1. CASE BecomesFirst(at) /\ at <= wakeup
    BY <2>1, SMTT(60) DEF Sleep, EnableInterrupt
  <2>2. CASE ~(BecomesFirst(at) /\ at <= wakeup)
    BY <1>1, <2>2 DEF Sleep, TypeOK
  <2> QED BY <2>1, <2>2
<1>4. TypeOK'
  BY <1>1, <1>3 DEF Sleep, TypeOK, BecomesFirst
<1>5. TaskPerWait'
  BY <1>1, SMTT(60) DEF TimerInv, TypeOK, Sleep, TaskPerWait, Tree
<1>6. /\ nextTask' \in Tasks /\ taskTime'[nextTask'] > 0
      /\ \A u \in Tasks : taskTime'[u] > 0 => taskTime'[nextTask'] <= taskTime'[u]
  <2>1. CASE BecomesFirst(at)
    BY <1>1, <1>2, <2>1, SMTT(60) DEF Sleep, TypeOK, BecomesFirst
  <2>2. CASE ~BecomesFirst(at)
    BY <1>1, <1>2, <2>2, SMTT(60) DEF Sleep, TypeOK, BecomesFirst
  <2> QED BY <2>1, <2>2
<1>7. NextTaskFirst'
  BY <1>1, <1>6, FirstFound DEF NextTaskFirst
<1>8. AlwaysArmed'
  <2>1. wakeup' <= taskTime'[nextTask']
    <3>1. CASE BecomesFirst(at)
      BY <1>1, <3>1, SMTT(60) DEF Sleep, EnableInterrupt, TypeOK
    <3>2. CASE ~BecomesFirst(at)
      BY <1>1, <1>2, <3>2, SMTT(60) DEF Sleep, BecomesFirst, TimerInv, AlwaysArmed, Tree
    <3> QED BY <3>1, <3>2
  <2>2. wakeup' # Never => popped' \/ wakeup' \in interrupts'
    BY SMTT(60) DEF Sleep, EnableInterrupt, TimerInv, AlwaysArmed
  <2> QED BY <2>1, <2>2 DEF AlwaysArmed
<1> QED BY <1>4, <1>5, <1>7, <1>8 DEF TimerInv

\* A wait that ends early cancels its task.
LEMMA EndWaitStep ==
    ASSUME TimerInv, NEW t \in Tasks, EndWait(t)
    PROVE  TimerInv'
<1> USE MaxTickAssumption, TasksAssumption DEF Times, Never
<1>1. /\ TypeOK /\ taskTime[t] > 0
      /\ taskTime' = [taskTime EXCEPT ![t] = 0] /\ taskTime' \in [Tasks -> 0 .. MaxTick]
  BY SMTT(60) DEF TimerInv, TypeOK, TaskPerWait, Tree, EndWait, Cancelled
<1>2. /\ nextTask \in Tasks /\ taskTime[nextTask] > 0
      /\ \A u \in Tasks : taskTime[u] > 0 => taskTime[nextTask] <= taskTime[u]
  BY <1>1, FirstSpelled, SMTT(60) DEF TimerInv, TypeOK, NextTaskFirst
<1>3. wakeup <= taskTime[nextTask]
  BY <1>1, <1>2 DEF TimerInv, AlwaysArmed, Tree
<1>4. nextTask' \in FirstOrNone(taskTime')
  <2>1. CASE nextTask = t
    <3> DEFINE tm == Cancelled(t)
    <3>1. taskTime' = tm /\ nextTask' \in FirstOrNone(tm)
      BY <2>1 DEF EndWait, NextAfterRemove
    <3> HIDE DEF tm
    <3> QED BY <3>1 DEF FirstOrNone, First, Tree
  <2>2. CASE nextTask # t
    <3>1. nextTask' = nextTask
      BY <2>2 DEF EndWait, NextAfterRemove
    <3>2. /\ taskTime'[nextTask] = taskTime[nextTask]
          /\ \A u \in Tasks : taskTime'[u] > 0 => taskTime'[u] = taskTime[u]
      BY <1>1, <1>2, <2>2, SMTT(60) DEF TypeOK
    <3>3. /\ nextTask' \in Tasks /\ taskTime'[nextTask'] > 0
          /\ \A u \in Tasks : taskTime'[u] > 0 => taskTime'[nextTask'] <= taskTime'[u]
      BY <1>1, <1>2, <3>1, <3>2
    <3> QED BY <1>1, <3>3, FirstFound
  <2> QED BY <2>1, <2>2
<1>5. \/ nextTask' = NoTask /\ \A u \in Tasks : taskTime'[u] = 0
      \/ nextTask' \in Tasks /\ taskTime'[nextTask'] > 0
         /\ \A u \in Tasks : taskTime'[u] > 0 => taskTime'[nextTask'] <= taskTime'[u]
  BY <1>1, <1>4, FirstSpelled
<1>6. TypeOK'
  BY <1>1, <1>5 DEF EndWait, TypeOK
<1>7. TaskPerWait'
  BY <1>1, SMTT(60) DEF TimerInv, TypeOK, EndWait, TaskPerWait, Tree
<1>8. NextTaskFirst'
  BY <1>4 DEF NextTaskFirst
<1>9. AlwaysArmed'
  <2>1. ASSUME Tree(taskTime') # {} PROVE wakeup' <= taskTime'[nextTask']
    <3>1. nextTask' \in Tasks /\ taskTime'[nextTask'] > 0
      BY <1>5, <2>1, SMTT(60) DEF Tree
    <3>2. taskTime'[nextTask'] = taskTime[nextTask']
      BY <1>1, <3>1, SMTT(60) DEF TypeOK
    <3> QED BY <1>1, <1>2, <1>3, <3>1, <3>2, SMTT(60) DEF EndWait, TypeOK
  <2>2. wakeup' # Never => popped' \/ wakeup' \in interrupts'
    BY DEF EndWait, TimerInv, AlwaysArmed
  <2> QED BY <2>1, <2>2 DEF AlwaysArmed
<1> QED BY <1>6, <1>7, <1>8, <1>9 DEF TimerInv

\* The interrupt takes the due tasks and arms the timer for the next one.
LEMMA DoTaskStep ==
    ASSUME TimerInv, DoTask
    PROVE  TimerInv'
<1> USE MaxTickAssumption, TasksAssumption DEF Times, Never
<1>1. TypeOK /\ Handled \in [Tasks -> 0 .. MaxTick] /\ taskTime' = Handled
  BY SMTT(60) DEF TimerInv, TypeOK, DoTask, Handled
<1>2. nextTask' \in FirstOrNone(taskTime')
  BY DEF DoTask
<1>3. \/ nextTask' = NoTask /\ \A u \in Tasks : taskTime'[u] = 0
      \/ nextTask' \in Tasks /\ taskTime'[nextTask'] > 0
         /\ \A u \in Tasks : taskTime'[u] > 0 => taskTime'[nextTask'] <= taskTime'[u]
  BY <1>1, <1>2, FirstSpelled
<1>0. tick' \in 0 .. MaxTick /\ waiting' \subseteq Tasks /\ popped' = FALSE
  BY <1>1 DEF TypeOK, DoTask
<1>4. TaskPerWait'
  BY <1>1, SMTT(60) DEF TimerInv, TypeOK, DoTask, Handled, Due, TaskPerWait, Tree
<1>5. NextTaskFirst'
  BY <1>2 DEF NextTaskFirst
<1>6. CASE nextTask' = NoTask
  <2>1. wakeup' = Never /\ interrupts' = interrupts
    BY <1>6 DEF DoTask, Rearm
  <2>2. Tree(taskTime') = {}
    BY <1>3, <1>6, SMTT(60) DEF Tree
  <2>3. AlwaysArmed'
    BY <2>1, <2>2 DEF AlwaysArmed
  <2>4. TypeOK'
    <3>1. wakeup' \in 1 .. Never /\ interrupts' \subseteq Times
      BY <1>1, <2>1, SMTT(60) DEF TypeOK
    <3> HIDE DEF Never, Times
    <3> QED BY <1>0, <1>1, <1>6, <3>1 DEF TypeOK
  <2> QED BY <1>4, <1>5, <2>3, <2>4 DEF TimerInv
<1>7. CASE nextTask' # NoTask
  <2>1. nextTask' \in Tasks /\ taskTime'[nextTask'] > 0
    BY <1>3, <1>7
  <2>2. taskTime'[nextTask'] = taskTime[nextTask']
    BY <1>1, <2>1, SMTT(60) DEF Handled
  <2>3. wakeup' = taskTime'[nextTask'] /\ interrupts' = {taskTime'[nextTask']}
    BY <1>7, <2>2 DEF DoTask, Rearm, EnableInterrupt
  <2>4. taskTime'[nextTask'] \in Times
    BY <1>1, <2>1, SMTT(60)
  <2>5. AlwaysArmed'
    BY <2>3, <2>4, SMTT(60) DEF AlwaysArmed
  <2>6. TypeOK'
    <3>1. wakeup' \in 1 .. Never /\ interrupts' \subseteq Times
      BY <2>3, <2>4, SMTT(60)
    <3> HIDE DEF Never, Times
    <3> QED BY <1>0, <1>1, <2>1, <3>1 DEF TypeOK
  <2> QED BY <1>4, <1>5, <2>5, <2>6 DEF TimerInv
<1> QED BY <1>6, <1>7

\* The inductive invariant, with one step per action.
THEOREM TimerInvHolds == TimerSpec => []TimerInv
<1>1. TimerInv /\ [TimerNext]_timerVars => TimerInv'
  <2> SUFFICES ASSUME TimerInv, [TimerNext]_timerVars PROVE TimerInv'
    OBVIOUS
  <2> USE DEF TimerInv, TypeOK, TaskPerWait, NextTaskFirst, AlwaysArmed
  <2>1. CASE UNCHANGED timerVars
    BY <2>1 DEF timerVars
  <2>2. ASSUME NEW at \in Times, PopEvent(at) PROVE TimerInv'
    BY <2>2 DEF PopEvent
  <2>3. CASE DoTaskIgnored
    BY <2>3 DEF DoTaskIgnored
  <2>4. CASE ClockTick
    BY <2>4, MaxTickAssumption, SMTT(60) DEF ClockTick
  <2> HIDE DEF TimerInv
  <2> QED BY <2>1, <2>2, <2>3, <2>4, SleepStep, EndWaitStep, DoTaskStep DEF TimerNext, TimerThread
<1> QED BY TimerInitInv, <1>1, PTL DEF TimerSpec

\* Type correctness.
THEOREM TimerTypes == TimerSpec => []TypeOK
<1>1. TimerInv => TypeOK
  BY DEF TimerInv
<1> QED BY TimerInvHolds, <1>1, PTL

\* A thread has a task in the tree exactly while it is in a timed wait, and the
\* task that m_next_task caches is first among them.
THEOREM NoStaleTask == TimerSpec => []TasksExact
<1>1. TimerInv => TasksExact
  BY DEF TimerInv, TasksExact
<1> QED BY TimerInvHolds, <1>1, PTL

\* Whatever is registered and cancelled around a callback in flight, a task in
\* the tree has an armed timer, no later than its time, and a queued or popped
\* event behind it.
THEOREM TimerAlwaysArmed == TimerSpec => []AlwaysArmed
<1>1. TimerInv => AlwaysArmed
  BY DEF TimerInv
<1> QED BY TimerInvHolds, <1>1, PTL
=============================================================================
