------------------------- MODULE KHandleTableProofs -------------------------
(***************************************************************************)
(* The free list of a handle table is exact, and a handle finds the object *)
(* it was issued for or nothing, for every size of the table, every number *)
(* of linear ids and any number of threads and objects.                    *)
(***************************************************************************)
EXTENDS KHandleTable, FiniteSetTheorems, TLAPS

\* A leaf goes to Zenon, unless it cites the SMT solver for its arithmetic, records
\* or sequences.
USE ZenonT(30)

\* From head, nxt links exactly the n entries of F; an entry of rank k has k
\* entries after it.
Linked(F, nxt, head, n, rank) ==
    /\ rank \in [F -> 0 .. n - 1]
    /\ \A i \in F : \A j \in F : rank[i] = rank[j] => i = j
    /\ \A i \in F : IF rank[i] = 0 THEN nxt[i] = -1
                    ELSE nxt[i] \in F /\ rank[nxt[i]] = rank[i] - 1
    /\ IF n = 0 THEN head = -1 /\ F = {} ELSE head \in F /\ rank[head] = n - 1

\* AllocateEntry takes the first entry off a list, and what its union then holds
\* is no longer a link.
LEMMA TakeFirst ==
    ASSUME NEW F, NEW nxt, NEW head, NEW n \in Int, NEW rank, NEW new,
           Linked(F, nxt, head, n, rank), n # 0,
           \A i \in F \ {head} : new[i] = nxt[i]
    PROVE  /\ head \in F
           /\ Linked(F \ {head}, new, nxt[head], n - 1, [i \in F \ {head} |-> rank[i]])
<1> DEFINE G == F \ {head}
           r == [i \in G |-> rank[i]]
<1>1. head \in F /\ rank[head] = n - 1 /\ n - 1 \in Nat
  BY SMTT(60) DEF Linked
<1>2. \A i \in G : rank[i] \in 0 .. n - 2
  BY <1>1, SMTT(60) DEF Linked
<1>3. r \in [G -> 0 .. (n - 1) - 1]
  BY <1>2, SMTT(60)
<1>4. \A i \in G : rank[i] # 0 => nxt[i] \in G
  BY <1>1, <1>2, SMTT(60) DEF Linked
<1>5. \A i \in G : IF r[i] = 0 THEN new[i] = -1 ELSE new[i] \in G /\ r[new[i]] = r[i] - 1
  BY <1>4 DEF Linked
<1>6. CASE n = 1
  <2>1. G = {}
    BY <1>2, <1>6, SMTT(60)
  <2>2. nxt[head] = -1
    BY <1>1, <1>6, SMTT(60) DEF Linked
  <2> QED BY <1>1, <1>3, <1>6, <2>1, <2>2, SMTT(60) DEF Linked
<1>7. CASE n # 1
  <2>1. nxt[head] \in F /\ rank[nxt[head]] = n - 2
    BY <1>1, <1>7, SMTT(60) DEF Linked
  <2>2. nxt[head] \in G
    BY <1>1, <2>1, SMTT(60)
  <2> QED BY <1>1, <1>3, <1>5, <1>7, <2>1, <2>2, SMTT(60) DEF Linked
<1> QED BY <1>6, <1>7

\* FreeEntry puts an entry in front of a list.
LEMMA PutFirst ==
    ASSUME NEW F, NEW nxt, NEW head, NEW n \in Int, NEW rank, NEW new, NEW e,
           Linked(F, nxt, head, n, rank), e \notin F,
           new[e] = head, \A i \in F : new[i] = nxt[i]
    PROVE  Linked(F \cup {e}, new, e, n + 1, [i \in F \cup {e} |-> IF i = e THEN n ELSE rank[i]])
<1> DEFINE G == F \cup {e}
           r == [i \in G |-> IF i = e THEN n ELSE rank[i]]
<1>1. n \in Nat /\ \A i \in F : rank[i] \in 0 .. n - 1
  BY SMTT(60) DEF Linked
<1>2. r \in [G -> 0 .. (n + 1) - 1]
  BY <1>1, SMTT(60)
<1>3. \A i \in G : \A j \in G : r[i] = r[j] => i = j
  BY <1>1, SMTT(60) DEF Linked
<1>4. \A i \in F : IF r[i] = 0 THEN new[i] = -1 ELSE new[i] \in G /\ r[new[i]] = r[i] - 1
  BY SMTT(60) DEF Linked
<1>5. IF r[e] = 0 THEN new[e] = -1 ELSE new[e] \in G /\ r[new[e]] = r[e] - 1
  BY DEF Linked
<1> QED BY <1>1, <1>2, <1>3, <1>4, <1>5, SMTT(60) DEF Linked
-----------------------------------------------------------------------------
\* The types of the table's state.
Types ==
    /\ objects \in [Index -> Objects \cup {NoObject}]
    /\ info \in [Index -> Int]
    /\ freeHead \in Int /\ count \in Nat
    /\ nextId \in LinearIds
    /\ size \in {0, TableSize}
    /\ reserved \in [Threads -> Handles \cup {NoHandle}]
    /\ issued \in [Handles -> Objects \cup {NoObject}]

\* FreeListSound, and what it rests on: the reservations are of different
\* entries, which hold no object, and m_count counts what is not free, so that
\* it is positive when an entry is freed.
ListInv ==
    size > 0 =>
        /\ \A t \in Threads : reserved[t] # NoHandle =>
              /\ objects[reserved[t].index] = NoObject
              /\ \A u \in Threads \ {t} :
                    reserved[u] # NoHandle => reserved[u].index # reserved[t].index
        /\ count = Cardinality(Index \ FreeIndexes)
        /\ \E rank : Linked(FreeIndexes, info, freeHead, TableSize - count, rank)

TableInv == Types /\ ListInv /\ HandleResolvesExactly

\* The table has finitely many entries.
LEMMA IndexFinite == IsFiniteSet(Index) /\ \A S \in SUBSET Index : IsFiniteSet(S)
<1>1. IsFiniteSet(Index)
  BY SizeAssumption, FS_Interval, SMTT(60) DEF Index
<1> QED BY <1>1, FS_Subset

\* Initialize links all entries.
LEMMA InitTable == Init => TableInv
<1> SUFFICES ASSUME Init PROVE TableInv
  OBVIOUS
<1>1. Types
  BY SizeAssumption, SMTT(60) DEF Init, Types, Index, LinearIds
<1>2. ReservedIndexes = {} /\ FreeIndexes = Index
  BY DEF Init, ReservedIndexes, FreeIndexes
<1>3. count = Cardinality(Index \ FreeIndexes)
  BY <1>2, FS_EmptySet DEF Init
<1>4. Linked(FreeIndexes, info, freeHead, TableSize - count, [i \in Index |-> i])
  BY <1>2, SizeAssumption, SMTT(60) DEF Linked, Init, Index
<1>5. HandleResolvesExactly
  BY DEF Init, HandleResolvesExactly, IsValidHandle, Handles
<1> QED BY <1>1, <1>3, <1>4, <1>5 DEF TableInv, ListInv, Init

\* An entry that is allocated was free, and the rest of the free list is left.
LEMMA AllocateTakes ==
    ASSUME TableInv, Allocate, FreeIndexes' = FreeIndexes \ {freeHead}, size' = size,
           \A i \in FreeIndexes \ {freeHead} : info'[i] = info[i]
    PROVE  /\ size > 0 /\ freeHead \in FreeIndexes
           /\ count' = Cardinality(Index \ FreeIndexes') /\ count' \in Nat /\ freeHead' \in Int
           /\ nextId' \in LinearIds
           /\ \E rank : Linked(FreeIndexes', info', freeHead', TableSize - count', rank)
<1>1. size > 0 /\ size = TableSize /\ TableSize - count # 0 /\ TableSize - count \in Int
  BY SizeAssumption, SMTT(60) DEF TableInv, Types, Allocate
<1>2. PICK rank : Linked(FreeIndexes, info, freeHead, TableSize - count, rank)
  BY <1>1 DEF TableInv, ListInv
<1>3. /\ freeHead \in FreeIndexes
      /\ \E r : Linked(FreeIndexes \ {freeHead}, info', info[freeHead], TableSize - count - 1, r)
  BY <1>1, <1>2, TakeFirst
<1>4. TableSize - count' = TableSize - count - 1 /\ count' \in Nat
  BY SizeAssumption, SMTT(60) DEF TableInv, Types, Allocate
<1>5. Index \ FreeIndexes' = (Index \ FreeIndexes) \cup {freeHead} /\ freeHead \in Index
  BY <1>3 DEF FreeIndexes
<1>6. count' = Cardinality(Index \ FreeIndexes')
  <2>1. Cardinality((Index \ FreeIndexes) \cup {freeHead}) = Cardinality(Index \ FreeIndexes) + 1
    BY <1>3, IndexFinite, FS_AddElement
  <2> QED BY <1>1, <1>5, <2>1 DEF Allocate, TableInv, ListInv
<1>7. freeHead' \in Int /\ nextId' \in LinearIds
  BY <1>3, <1>5, SizeAssumption, SMTT(60) DEF Allocate, NextLinearId, TableInv, Types, LinearIds
<1> QED BY <1>1, <1>3, <1>4, <1>6, <1>7 DEF Allocate

\* An entry that is freed was not, and is the first of the free list then.
LEMMA FreeEntryPuts ==
    ASSUME TableInv, size > 0, NEW e \in Index \ FreeIndexes, FreeEntry(e),
           FreeIndexes' = FreeIndexes \cup {e}
    PROVE  /\ count' = Cardinality(Index \ FreeIndexes') /\ count' \in Nat
           /\ objects' \in [Index -> Objects \cup {NoObject}]
           /\ info' \in [Index -> Int] /\ freeHead' \in Int
           /\ \E rank : Linked(FreeIndexes', info', freeHead', TableSize - count', rank)
<1>1. TableSize - count \in Int /\ FreeIndexes \subseteq Index
  BY SizeAssumption, SMTT(60) DEF TableInv, Types, FreeIndexes
<1>2. PICK rank : Linked(FreeIndexes, info, freeHead, TableSize - count, rank)
  BY DEF TableInv, ListInv
<1>3. info' \in [Index -> Int] /\ info'[e] = freeHead /\ \A i \in FreeIndexes : info'[i] = info[i]
  BY <1>1 DEF FreeEntry, FreedInfo, TableInv, Types
<1>4. \E r : Linked(FreeIndexes \cup {e}, info', e, TableSize - count + 1, r)
  BY <1>1, <1>2, <1>3, PutFirst
<1>5. TableSize - count' = TableSize - count + 1
  BY SizeAssumption, SMTT(60) DEF FreeEntry, TableInv, Types
<1>6. count' = Cardinality(Index \ FreeIndexes') /\ count' \in Nat
  <2>1. Index \ FreeIndexes' = (Index \ FreeIndexes) \ {e}
    OBVIOUS
  <2>2. IsFiniteSet(Index \ FreeIndexes) /\ e \in Index \ FreeIndexes
    BY IndexFinite
  <2>3. Cardinality((Index \ FreeIndexes) \ {e}) = Cardinality(Index \ FreeIndexes) - 1
    BY <2>2, FS_RemoveElement
  <2>4. Cardinality((Index \ FreeIndexes) \ {e}) \in Nat
    BY IndexFinite, FS_CardinalityType
  <2> QED BY <2>1, <2>3, <2>4 DEF FreeEntry, TableInv, ListInv
<1>7. objects' \in [Index -> Objects \cup {NoObject}] /\ freeHead' \in Int
  BY SizeAssumption, SMTT(60) DEF FreeEntry, TableInv, Types, Index
<1> QED BY <1>3, <1>4, <1>5, <1>6, <1>7 DEF FreeEntry
-----------------------------------------------------------------------------
\* Add preserves TableInv.
LEMMA AddTable ==
    ASSUME TableInv, NEW t \in Threads, NEW o \in Objects, Add(t, o) PROVE TableInv'
<1>1. size > 0 /\ freeHead \in FreeIndexes
  <2>1. size > 0 /\ TableSize - count # 0 /\ TableSize - count \in Int
    BY SizeAssumption, SMTT(60) DEF TableInv, Types, Add, Allocate
  <2> QED BY <2>1 DEF TableInv, ListInv, Linked
<1>2. freeHead \in Index /\ objects[freeHead] = NoObject
  BY <1>1 DEF FreeIndexes
<1>3. ReservedIndexes' = ReservedIndexes
  BY DEF Add, ReservedIndexes
<1>4. FreeIndexes' = FreeIndexes \ {freeHead}
  BY <1>2, <1>3, ObjectsAssumption DEF Add, FreeIndexes, TableInv, Types
<1>5. \A i \in FreeIndexes \ {freeHead} : info'[i] = info[i]
  BY DEF Add, FreeIndexes, TableInv, Types
<1>6. /\ count' = Cardinality(Index \ FreeIndexes') /\ count' \in Nat /\ freeHead' \in Int
      /\ nextId' \in LinearIds
      /\ \E rank : Linked(FreeIndexes', info', freeHead', TableSize - count', rank)
  BY <1>4, <1>5, AllocateTakes DEF Add
<1>7. NewHandle \in Handles /\ NewHandle.index = freeHead /\ NewHandle.id = nextId
  BY <1>2 DEF NewHandle, Handles, TableInv, Types
<1>8. Types'
  BY <1>2, <1>6, <1>7, SMTT(60) DEF Types, TableInv, Add, Issue, LinearIds
<1>9. ListInv'
  <2>1. \A u \in Threads : reserved[u] # NoHandle => reserved[u].index # freeHead
    BY <1>1 DEF FreeIndexes, ReservedIndexes
  <2> QED BY <1>1, <1>6, <2>1 DEF ListInv, TableInv, Add, Types, Handles
<1>10. HandleResolvesExactly'
  <2> SUFFICES ASSUME NEW h \in Handles
               PROVE  IF issued'[h] = NoObject THEN ~IsValidHandle(h)'
                      ELSE IsValidHandle(h)' /\ objects'[h.index] = issued'[h]
    BY DEF HandleResolvesExactly
  <2>1. CASE h = NewHandle
    BY <1>1, <1>2, <1>7, <2>1, ObjectsAssumption, SizeAssumption, SMTT(60)
       DEF Add, Issue, IsValidHandle, TableInv, Types, Index
  <2>2. CASE h # NewHandle /\ h.index = freeHead
    <3>1. h.id # nextId
      BY <2>2 DEF NewHandle, Handles
    <3>2. issued[h] = NoObject
      BY <1>2, <2>2 DEF TableInv, HandleResolvesExactly, IsValidHandle
    <3> QED BY <1>2, <2>2, <3>1, <3>2 DEF Add, Issue, IsValidHandle, TableInv, Types
  <2>3. CASE h.index # freeHead
    <3>1. h # NewHandle /\ h.index \in Index
      BY <2>3, SMTT(60) DEF NewHandle, Handles
    <3> QED BY <2>3, <3>1 DEF Add, Issue, IsValidHandle, TableInv, Types, HandleResolvesExactly
  <2> QED BY <2>1, <2>2, <2>3
<1> QED BY <1>8, <1>9, <1>10 DEF TableInv

\* Reserve preserves TableInv.
LEMMA ReserveTable ==
    ASSUME TableInv, NEW t \in Threads, Reserve(t) PROVE TableInv'
<1>1. size > 0 /\ freeHead \in FreeIndexes
  <2>1. size > 0 /\ TableSize - count # 0 /\ TableSize - count \in Int
    BY SizeAssumption, SMTT(60) DEF TableInv, Types, Reserve, Allocate
  <2> QED BY <2>1 DEF TableInv, ListInv, Linked
<1>2. freeHead \in Index /\ objects[freeHead] = NoObject /\ freeHead \notin ReservedIndexes
  BY <1>1 DEF FreeIndexes
<1>3. NewHandle \in Handles /\ NewHandle.index = freeHead /\ NewHandle # NoHandle
  BY <1>2, HandleAssumption, SMTT(60) DEF NewHandle, Handles, TableInv, Types
<1>4. reserved' = [reserved EXCEPT ![t] = NewHandle] /\ reserved \in [Threads -> Handles \cup {NoHandle}]
  BY DEF Reserve, TableInv, Types
<1>5. ReservedIndexes' = ReservedIndexes \cup {freeHead}
  BY <1>3, <1>4, SMTT(60) DEF Reserve, ReservedIndexes
<1>6. FreeIndexes' = FreeIndexes \ {freeHead}
  BY <1>5 DEF Reserve, FreeIndexes
<1>7. /\ count' = Cardinality(Index \ FreeIndexes') /\ count' \in Nat /\ freeHead' \in Int
      /\ nextId' \in LinearIds
      /\ \E rank : Linked(FreeIndexes', info', freeHead', TableSize - count', rank)
  BY <1>6, AllocateTakes DEF Reserve
<1>8. Types'
  BY <1>3, <1>4, <1>7 DEF Types, TableInv, Reserve
<1>9. ListInv'
  <2>1. \A u \in Threads : reserved[u] # NoHandle => reserved[u].index # freeHead
    BY <1>2 DEF ReservedIndexes
  <2>2. \A u \in Threads : reserved'[u] = IF u = t THEN NewHandle ELSE reserved[u]
    BY <1>4
  <2> QED BY <1>1, <1>2, <1>3, <1>7, <2>1, <2>2, SMTT(60) DEF ListInv, TableInv, Reserve
<1>10. HandleResolvesExactly'
  BY DEF Reserve, IsValidHandle, TableInv, HandleResolvesExactly
<1> QED BY <1>8, <1>9, <1>10 DEF TableInv

\* Remove preserves TableInv.
LEMMA RemoveTable ==
    ASSUME TableInv, NEW t \in Threads, NEW h \in Handles, Remove(t, h) PROVE TableInv'
<1>1. size > 0 /\ h.index \in Index /\ objects[h.index] # NoObject /\ info[h.index] = h.id
  BY SizeAssumption, SMTT(60) DEF Remove, IsValidHandle, Handles, Index, TableInv, Types
<1>2. h.index \notin ReservedIndexes
  BY <1>1 DEF ReservedIndexes, TableInv, ListInv
<1>3. ReservedIndexes' = ReservedIndexes
  BY DEF Remove, ReservedIndexes
<1>4. FreeIndexes' = FreeIndexes \cup {h.index} /\ h.index \in Index \ FreeIndexes
  BY <1>1, <1>2, <1>3 DEF Remove, FreeEntry, FreeIndexes, TableInv, Types
<1>5. /\ count' = Cardinality(Index \ FreeIndexes') /\ count' \in Nat
      /\ objects' \in [Index -> Objects \cup {NoObject}]
      /\ info' \in [Index -> Int] /\ freeHead' \in Int
      /\ \E rank : Linked(FreeIndexes', info', freeHead', TableSize - count', rank)
  BY <1>1, <1>4, FreeEntryPuts DEF Remove
<1>6. Types'
  BY <1>5 DEF Types, TableInv, Remove, Issue
<1>7. ListInv'
  BY <1>1, <1>5 DEF ListInv, TableInv, Types, Remove, FreeEntry, Handles
<1>8. HandleResolvesExactly'
  <2> SUFFICES ASSUME NEW g \in Handles
               PROVE  IF issued'[g] = NoObject THEN ~IsValidHandle(g)'
                      ELSE IsValidHandle(g)' /\ objects'[g.index] = issued'[g]
    BY DEF HandleResolvesExactly
  <2>1. CASE g.index = h.index
    <3>1. objects'[g.index] = NoObject
      BY <1>1, <2>1 DEF Remove, FreeEntry, TableInv, Types
    <3>2. g # h => issued[g] = NoObject
      BY <1>1, <2>1, SMTT(60) DEF Handles, TableInv, HandleResolvesExactly, IsValidHandle
    <3>3. issued'[g] = NoObject
      BY <3>2 DEF Remove, Issue, TableInv, Types
    <3> QED BY <3>1, <3>3 DEF IsValidHandle
  <2>2. CASE g.index # h.index
    <3>1. g # h /\ g.index \in Index
      BY <2>2 DEF Handles
    <3> QED BY <2>2, <3>1
            DEF Remove, FreeEntry, FreedInfo, Issue, IsValidHandle, TableInv, Types, HandleResolvesExactly
  <2> QED BY <2>1, <2>2
<1> QED BY <1>6, <1>7, <1>8 DEF TableInv

\* Unreserve preserves TableInv.
LEMMA UnreserveTable ==
    ASSUME TableInv, NEW t \in Threads, Unreserve(t) PROVE TableInv'
<1> DEFINE e == reserved[t].index
<1>1. /\ reserved[t] # NoHandle /\ reserved[t] \in Handles /\ e \in Index
      /\ reserved' = [reserved EXCEPT ![t] = NoHandle]
      /\ reserved \in [Threads -> Handles \cup {NoHandle}]
  BY DEF Unreserve, TableInv, Types, Handles
<1>2. CASE size = 0
  <2>1. ~(e < size)
    BY <1>1, <1>2, SMTT(60) DEF Index
  <2>2. UNCHANGED <<objects, info, freeHead, count, nextId, size, issued>>
    BY <2>1 DEF Unreserve
  <2>3. Types'
    BY <1>1, <2>2 DEF Types, TableInv
  <2>4. HandleResolvesExactly'
    BY <2>2 DEF HandleResolvesExactly, IsValidHandle, TableInv
  <2> QED BY <1>2, <2>2, <2>3, <2>4, SMTT(60) DEF TableInv, ListInv
<1>3. CASE size # 0
  <2>1. size > 0 /\ e < size
    BY <1>1, <1>3, SizeAssumption, SMTT(60) DEF Index, TableInv, Types
  <2>2. FreeEntry(e)
    BY <2>1 DEF Unreserve
  <2>3. e \in ReservedIndexes /\ objects[e] = NoObject
    BY <1>1, <2>1 DEF ReservedIndexes, TableInv, ListInv
  <2>4. \A u \in Threads : reserved'[u] = IF u = t THEN NoHandle ELSE reserved[u]
    BY <1>1
  <2>5. \A u \in Threads : u # t /\ reserved[u] # NoHandle => reserved[u].index # e
    BY <1>1, <2>1 DEF TableInv, ListInv
  <2>6. ReservedIndexes' = ReservedIndexes \ {e}
    BY <1>1, <2>4, <2>5 DEF ReservedIndexes
  <2>7. FreeIndexes' = FreeIndexes \cup {e} /\ e \in Index \ FreeIndexes
    BY <1>1, <2>2, <2>3, <2>6 DEF FreeEntry, FreeIndexes, TableInv, Types
  <2>8. /\ count' = Cardinality(Index \ FreeIndexes') /\ count' \in Nat
        /\ objects' \in [Index -> Objects \cup {NoObject}]
        /\ info' \in [Index -> Int] /\ freeHead' \in Int
        /\ \E rank : Linked(FreeIndexes', info', freeHead', TableSize - count', rank)
    BY <2>1, <2>2, <2>7, FreeEntryPuts
  <2>9. Types'
    BY <1>1, <2>8 DEF Types, TableInv, Unreserve
  <2>10. objects' = objects
    BY <2>2, <2>3 DEF FreeEntry, TableInv, Types
  <2>11. ListInv'
    BY <2>1, <2>4, <2>8, <2>10, SMTT(60) DEF ListInv, TableInv, Unreserve
  <2>12. HandleResolvesExactly'
    <3>1. \A h \in Handles : h.index # e => info'[h.index] = info[h.index]
      BY <2>2 DEF FreeEntry, FreedInfo, TableInv, Types, Handles
    <3>2. \A h \in Handles : IsValidHandle(h)' <=> IsValidHandle(h)
      BY <2>3, <2>10, <3>1 DEF IsValidHandle, Unreserve
    <3> QED BY <2>10, <3>2 DEF HandleResolvesExactly, TableInv, Unreserve
  <2> QED BY <2>9, <2>11, <2>12 DEF TableInv
<1> QED BY <1>2, <1>3

\* Register preserves TableInv.
LEMMA RegisterTable ==
    ASSUME TableInv, NEW t \in Threads, NEW o \in Objects, Register(t, o) PROVE TableInv'
<1> DEFINE r == reserved[t]
           e == r.index
<1>1. /\ r # NoHandle /\ r \in Handles /\ e \in Index /\ r.id \in LinearIds
      /\ reserved' = [reserved EXCEPT ![t] = NoHandle]
      /\ reserved \in [Threads -> Handles \cup {NoHandle}]
  BY DEF Register, TableInv, Types, Handles
<1>2. CASE size = 0
  <2>1. ~(e < size)
    BY <1>1, <1>2, SMTT(60) DEF Index
  <2>2. UNCHANGED <<objects, info, freeHead, count, nextId, size, issued>>
    BY <2>1 DEF Register
  <2>3. Types'
    BY <1>1, <2>2 DEF Types, TableInv
  <2>4. HandleResolvesExactly'
    BY <2>2 DEF HandleResolvesExactly, IsValidHandle, TableInv
  <2> QED BY <1>2, <2>2, <2>3, <2>4, SMTT(60) DEF TableInv, ListInv
<1>3. CASE size # 0
  <2>1. size > 0 /\ e < size
    BY <1>1, <1>3, SizeAssumption, SMTT(60) DEF Index, TableInv, Types
  <2>2. /\ info' = [info EXCEPT ![e] = r.id] /\ objects' = [objects EXCEPT ![e] = o]
        /\ issued' = [issued EXCEPT ![r] = o]
        /\ UNCHANGED <<freeHead, count, nextId, size>>
    BY <2>1 DEF Register, RegisteredInfo, Issue
  <2>3. e \in ReservedIndexes /\ objects[e] = NoObject
    BY <1>1, <2>1 DEF ReservedIndexes, TableInv, ListInv
  <2>4. \A u \in Threads : reserved'[u] = IF u = t THEN NoHandle ELSE reserved[u]
    BY <1>1
  <2>5. \A u \in Threads : u # t /\ reserved[u] # NoHandle => reserved[u].index # e
    BY <1>1, <2>1 DEF TableInv, ListInv
  <2>6. ReservedIndexes' = ReservedIndexes \ {e}
    BY <1>1, <2>4, <2>5 DEF ReservedIndexes
  <2>7. FreeIndexes' = FreeIndexes /\ e \notin FreeIndexes
    BY <1>1, <2>2, <2>3, <2>6, ObjectsAssumption DEF FreeIndexes, TableInv, Types
  <2>8. Types'
    BY <1>1, <2>2, SMTT(60) DEF Types, TableInv, LinearIds
  <2>9. \E rank : Linked(FreeIndexes', info', freeHead', TableSize - count', rank)
    <3>1. PICK rank : Linked(FreeIndexes, info, freeHead, TableSize - count, rank)
      BY <2>1 DEF TableInv, ListInv
    <3>2. \A i \in FreeIndexes : info'[i] = info[i]
      BY <2>2, <2>7 DEF TableInv, Types, FreeIndexes
    <3>3. Linked(FreeIndexes, info', freeHead, TableSize - count, rank)
      BY <3>1, <3>2 DEF Linked
    <3> QED BY <2>2, <2>7, <3>3
  <2>10. ListInv'
    <3>1. \A u \in Threads : reserved'[u] # NoHandle => objects'[reserved'[u].index] = NoObject
      BY <2>1, <2>2, <2>4, <2>5, SMTT(60) DEF TableInv, ListInv, Types, Handles
    <3> QED BY <2>1, <2>2, <2>4, <2>7, <2>9, <3>1 DEF ListInv, TableInv
  <2>11. HandleResolvesExactly'
    <3> SUFFICES ASSUME NEW h \in Handles
                 PROVE  IF issued'[h] = NoObject THEN ~IsValidHandle(h)'
                        ELSE IsValidHandle(h)' /\ objects'[h.index] = issued'[h]
      BY DEF HandleResolvesExactly
    <3>1. CASE h = r
      BY <1>1, <2>1, <2>2, <3>1, ObjectsAssumption DEF IsValidHandle, TableInv, Types
    <3>2. CASE h # r /\ h.index = e
      <4>1. h.id # r.id
        BY <1>1, <3>2, SMTT(60) DEF Handles
      <4>2. issued[h] = NoObject
        BY <2>3, <3>2 DEF TableInv, HandleResolvesExactly, IsValidHandle
      <4> QED BY <1>1, <2>2, <3>2, <4>1, <4>2 DEF IsValidHandle, TableInv, Types
    <3>3. CASE h.index # e
      <4>1. h # r /\ h.index \in Index
        BY <3>3 DEF Handles
      <4> QED BY <2>2, <3>3, <4>1 DEF IsValidHandle, TableInv, Types, HandleResolvesExactly
    <3> QED BY <3>1, <3>2, <3>3
  <2> QED BY <2>8, <2>10, <2>11 DEF TableInv
<1> QED BY <1>2, <1>3

\* A step that leaves the table alone preserves TableInv.
LEMMA SameTable ==
    ASSUME TableInv, UNCHANGED <<tableVars, reserved, issued>> PROVE TableInv'
<1>1. FreeIndexes' = FreeIndexes
  BY DEF FreeIndexes, ReservedIndexes, tableVars
<1> QED BY <1>1 DEF tableVars, TableInv, Types, ListInv, HandleResolvesExactly, IsValidHandle

\* Every step of KHandleTable preserves TableInv.
LEMMA NextTable == TableInv /\ [Next]_vars => TableInv'
<1> SUFFICES ASSUME TableInv, [Next]_vars PROVE TableInv'
  OBVIOUS
<1>1. CASE UNCHANGED vars
  BY <1>1, SameTable DEF vars
<1>2. ASSUME NEW t \in Threads, ThreadStep(t) PROVE TableInv'
  <2>1. ASSUME NEW o \in Objects, Create(t, o) \/ Close(t, o) PROVE TableInv'
    BY <2>1, SameTable DEF Create, Close
  <2>2. ASSUME NEW h \in Handles, GetObject(t, h) PROVE TableInv'
    BY <2>2, SameTable DEF GetObject
  <2>3. ASSUME NEW h1 \in Handles, NEW h2 \in Handles, GetMultipleObjects(t, h1, h2) PROVE TableInv'
    BY <2>3, SameTable DEF GetMultipleObjects
  <2> QED
    BY <1>2, <2>1, <2>2, <2>3, AddTable, RegisterTable, ReserveTable, UnreserveTable, RemoveTable
       DEF ThreadStep
<1>3. CASE Finalize
  <2>1. Types'
    BY <1>3 DEF Finalize, Types, TableInv
  <2>2. HandleResolvesExactly'
    BY <1>3, SMTT(60) DEF Finalize, HandleResolvesExactly, IsValidHandle, Handles, Index
  <2> QED BY <1>3, <2>1, <2>2, SMTT(60) DEF Finalize, TableInv, ListInv
<1>4. ASSUME NEW i \in Index, FinalizeClose(i) PROVE TableInv'
  BY <1>4, SameTable DEF FinalizeClose
<1> QED BY <1>1, <1>2, <1>3, <1>4 DEF Next

\* TableInv is an invariant of the table.
LEMMA TableInvariant == Spec => []TableInv
BY InitTable, NextTable, PTL DEF Spec

\* AllocateEntry and FreeEntry lose no entry and hand none out twice, although
\* reserved entries are neither free nor used and the union holds links and ids.
THEOREM FreeListExact == Spec => []FreeListSound
<1>1. TableInv => FreeListSound
  <2> SUFFICES ASSUME TableInv, size > 0
               PROVE  \E rank \in [FreeIndexes -> 0 .. TableSize - 1 - count] : IsRank(rank)
    BY DEF FreeListSound
  <2>1. PICK rank : Linked(FreeIndexes, info, freeHead, TableSize - count, rank)
    BY DEF TableInv, ListInv
  <2>2. TableSize - 1 - count = (TableSize - count) - 1
    BY SizeAssumption, SMTT(60) DEF TableInv, Types
  <2>3. rank \in [FreeIndexes -> 0 .. TableSize - 1 - count]
    BY <2>1, <2>2 DEF Linked
  <2>4. IsRank(rank)
    BY <2>1 DEF Linked, IsRank
  <2> QED BY <2>3, <2>4
<1> QED BY <1>1, TableInvariant, PTL

\* GetObject finds the object its handle was issued for, and nothing once the
\* handle is removed, however entries and linear ids were used meanwhile.
THEOREM HandlesResolve == Spec => []HandleResolvesExactly
<1>1. TableInv => HandleResolvesExactly
  BY DEF TableInv
<1> QED BY <1>1, TableInvariant, PTL
-----------------------------------------------------------------------------
(* The reference counts.                                                    *)

\* The table's references are to objects, and Finalize closes only what the table
\* had when it was hidden.  References are finitely many, so that they count.
RefInv ==
    /\ refs \in [Objects -> Int] /\ held \in [Threads -> [Objects -> Nat]]
    /\ sweep \subseteq Index /\ \A i \in sweep : objects[i] \in Objects
    /\ sweep # {} => size = 0
    /\ \A o \in Objects : IsFiniteSet(ThreadRefs(held, o))
    /\ RefCountExact

\* A thread that holds one more reference adds one to the references.
LEMMA HoldOneMore ==
    ASSUME NEW g, NEW h, NEW t \in Threads, NEW o, NEW m \in Nat,
           h[t][o] = m, g[t][o] = m + 1, \A u \in Threads \ {t} : g[u][o] = h[u][o]
    PROVE  /\ <<t, m + 1>> \notin ThreadRefs(h, o)
           /\ ThreadRefs(g, o) = ThreadRefs(h, o) \cup {<<t, m + 1>>}
           /\ ThreadRefs(h, o) = ThreadRefs(g, o) \ {<<t, m + 1>>}
<1>1. 1 .. m + 1 = (1 .. m) \cup {m + 1} /\ m + 1 \notin 1 .. m
  BY SMTT(60)
<1>2. \A f, x : x \in ThreadRefs(f, o) <=> \E u \in Threads : x \in {u} \X (1 .. f[u][o])
  BY DEF ThreadRefs
<1>3. <<t, m + 1>> \notin ThreadRefs(h, o)
  <2>1. ASSUME NEW u \in Threads, <<t, m + 1>> \in {u} \X (1 .. h[u][o]) PROVE FALSE
    <3>1. u = t /\ m + 1 \in 1 .. h[u][o]
      BY <2>1
    <3> QED BY <1>1, <3>1
  <2> QED BY <1>2, <2>1
<1>4. ASSUME NEW x
      PROVE  x \in ThreadRefs(g, o) <=> x \in ThreadRefs(h, o) \cup {<<t, m + 1>>}
  <2>1. {t} \X (1 .. g[t][o]) = ({t} \X (1 .. h[t][o])) \cup {<<t, m + 1>>}
    BY <1>1, SMTT(60)
  <2>2. \A u \in Threads \ {t} : {u} \X (1 .. g[u][o]) = {u} \X (1 .. h[u][o])
    OBVIOUS
  <2>3. x \in ThreadRefs(g, o) => x \in ThreadRefs(h, o) \cup {<<t, m + 1>>}
    BY <1>2, <2>1, <2>2
  <2>4. x \in ThreadRefs(h, o) \cup {<<t, m + 1>>} => x \in ThreadRefs(g, o)
    BY <1>2, <2>1, <2>2
  <2> QED BY <2>3, <2>4
<1> QED BY <1>3, <1>4

\* The counts of one more and of one less.
LEMMA CountOneMore ==
    ASSUME NEW g, NEW h, NEW t \in Threads, NEW o, h[t][o] \in Nat,
           g[t][o] = h[t][o] + 1, \A u \in Threads \ {t} : g[u][o] = h[u][o],
           IsFiniteSet(ThreadRefs(h, o)) \/ IsFiniteSet(ThreadRefs(g, o))
    PROVE  /\ IsFiniteSet(ThreadRefs(g, o)) /\ IsFiniteSet(ThreadRefs(h, o))
           /\ Cardinality(ThreadRefs(g, o)) = Cardinality(ThreadRefs(h, o)) + 1
           /\ Cardinality(ThreadRefs(h, o)) \in Nat
<1> DEFINE G == ThreadRefs(g, o)
           H == ThreadRefs(h, o)
           x == <<t, h[t][o] + 1>>
<1>1. x \notin H /\ G = H \cup {x} /\ H = G \ {x}
  <2> HIDE DEF G, H, x
  <2>1. PICK m \in Nat : m = h[t][o]
    OBVIOUS
  <2>2. <<t, m + 1>> \notin H /\ G = H \cup {<<t, m + 1>>} /\ H = G \ {<<t, m + 1>>}
    BY <2>1, HoldOneMore, SMTT(60) DEF G, H
  <2> QED BY <2>1, <2>2 DEF x
<1> HIDE DEF G, H, x
<1>2. IsFiniteSet(H)
  <2>1. CASE IsFiniteSet(G)
    BY <1>1, <2>1, FS_RemoveElement, SMTT(60)
  <2> QED BY <2>1 DEF G, H
<1>3. IsFiniteSet(G) /\ Cardinality(G) = Cardinality(H) + 1
  BY <1>1, <1>2, FS_AddElement
<1>4. Cardinality(H) \in Nat
  BY <1>2, FS_CardinalityType
<1> QED BY <1>2, <1>3, <1>4 DEF G, H

\* References that do not change.
LEMMA SameThreadRefs ==
    ASSUME NEW g, NEW h, NEW o, \A u \in Threads : g[u][o] = h[u][o]
    PROVE  ThreadRefs(g, o) = ThreadRefs(h, o)
<1>1. \A u \in Threads : {u} \X (1 .. g[u][o]) = {u} \X (1 .. h[u][o])
  OBVIOUS
<1> QED BY <1>1 DEF ThreadRefs

\* The references of the table are finitely many.
LEMMA TableRefsFinite ==
    ASSUME sweep \subseteq Index, NEW o
    PROVE  IsFiniteSet(TableRefs(o)) /\ Cardinality(TableRefs(o)) \in Nat
<1>1. TableRefs(o) \in SUBSET Index
  BY DEF TableRefs
<1> QED BY <1>1, IndexFinite, FS_CardinalityType

One(p) == IF p THEN 1 ELSE 0

\* A thread opens a reference.
LEMMA HoldMore ==
    ASSUME RefInv, NEW t \in Threads, NEW o \in Objects, held' = Hold(t, o, 1)
    PROVE  /\ held' \in [Threads -> [Objects -> Nat]]
           /\ \A p \in Objects :
                 /\ IsFiniteSet(ThreadRefs(held', p))
                 /\ Cardinality(ThreadRefs(held', p)) = Cardinality(ThreadRefs(held, p)) + One(p = o)
<1>1. /\ held \in [Threads -> [Objects -> Nat]] /\ held' \in [Threads -> [Objects -> Nat]]
      /\ \A u \in Threads, p \in Objects :
            held'[u][p] = IF u = t /\ p = o THEN held[u][p] + 1 ELSE held[u][p]
  BY SMTT(60) DEF RefInv, Hold
<1>2. ASSUME NEW p \in Objects
      PROVE  /\ IsFiniteSet(ThreadRefs(held', p))
             /\ Cardinality(ThreadRefs(held', p)) = Cardinality(ThreadRefs(held, p)) + One(p = o)
  <2>1. IsFiniteSet(ThreadRefs(held, p)) /\ Cardinality(ThreadRefs(held, p)) \in Nat
    BY FS_CardinalityType DEF RefInv
  <2>2. CASE p = o
    <3>1. /\ held[t][o] \in Nat /\ held'[t][o] = held[t][o] + 1
          /\ \A u \in Threads \ {t} : held'[u][o] = held[u][o]
      BY <1>1
    <3>2. /\ IsFiniteSet(ThreadRefs(held', o))
          /\ Cardinality(ThreadRefs(held', o)) = Cardinality(ThreadRefs(held, o)) + 1
      BY <2>1, <2>2, <3>1, CountOneMore, SMTT(60)
    <3> QED BY <2>2, <3>2 DEF One
  <2>3. CASE p # o
    <3>1. ThreadRefs(held', p) = ThreadRefs(held, p)
      BY <1>1, <2>3, SameThreadRefs
    <3> QED BY <2>1, <2>3, <3>1, SMTT(60) DEF One
  <2> QED BY <2>2, <2>3
<1> QED BY <1>1, <1>2

\* A thread closes a reference.
LEMMA HoldLess ==
    ASSUME RefInv, NEW t \in Threads, NEW o \in Objects, held[t][o] > 0, held' = Hold(t, o, -1)
    PROVE  /\ held' \in [Threads -> [Objects -> Nat]]
           /\ \A p \in Objects :
                 /\ IsFiniteSet(ThreadRefs(held', p))
                 /\ Cardinality(ThreadRefs(held', p)) = Cardinality(ThreadRefs(held, p)) - One(p = o)
<1>1. held \in [Threads -> [Objects -> Nat]] /\ held[t][o] \in Nat /\ held[t][o] + (-1) \in Nat
  BY SMTT(60) DEF RefInv
<1>2. /\ held' \in [Threads -> [Objects -> Nat]]
      /\ \A u \in Threads, p \in Objects :
            held'[u][p] = IF u = t /\ p = o THEN held[u][p] - 1 ELSE held[u][p]
  BY <1>1 DEF Hold
<1>3. ASSUME NEW p \in Objects
      PROVE  /\ IsFiniteSet(ThreadRefs(held', p))
             /\ Cardinality(ThreadRefs(held', p)) = Cardinality(ThreadRefs(held, p)) - One(p = o)
  <2>1. IsFiniteSet(ThreadRefs(held, p)) /\ Cardinality(ThreadRefs(held, p)) \in Nat
    BY FS_CardinalityType DEF RefInv
  <2>2. CASE p = o
    <3>1. /\ held'[t][o] \in Nat /\ held[t][o] = held'[t][o] + 1
          /\ \A u \in Threads \ {t} : held[u][o] = held'[u][o]
      BY <1>1, <1>2, SMTT(60)
    <3>2. /\ IsFiniteSet(ThreadRefs(held', o)) /\ Cardinality(ThreadRefs(held', o)) \in Nat
          /\ Cardinality(ThreadRefs(held, o)) = Cardinality(ThreadRefs(held', o)) + 1
      BY <2>1, <2>2, <3>1, CountOneMore, SMTT(60)
    <3> QED BY <2>2, <3>2, SMTT(60) DEF One
  <2>3. CASE p # o
    <3>1. ThreadRefs(held', p) = ThreadRefs(held, p)
      BY <1>2, <2>3, SameThreadRefs
    <3> QED BY <2>1, <2>3, <3>1, SMTT(60) DEF One
  <2> QED BY <2>2, <2>3
<1> QED BY <1>2, <1>3

\* An entry is given an object.
LEMMA EntryPut ==
    ASSUME TableInv, RefInv, NEW e \in Index, NEW o \in Objects, size > 0, size' = size,
           objects[e] = NoObject, objects' = [objects EXCEPT ![e] = o]
    PROVE  \A p \in Objects : Cardinality(TableRefs(p)') = Cardinality(TableRefs(p)) + One(p = o)
<1> SUFFICES ASSUME NEW p \in Objects
             PROVE  Cardinality(TableRefs(p)') = Cardinality(TableRefs(p)) + One(p = o)
  OBVIOUS
<1>1. IsFiniteSet(TableRefs(p)) /\ Cardinality(TableRefs(p)) \in Nat
  BY TableRefsFinite DEF RefInv
<1>2. TableRefs(p) = {i \in Index : objects[i] = p} /\ TableRefs(p)' = {i \in Index : objects'[i] = p}
  BY DEF TableRefs
<1>3. CASE p = o
  <2>1. e \notin TableRefs(p) /\ TableRefs(p)' = TableRefs(p) \cup {e}
    BY <1>2, <1>3, ObjectsAssumption DEF TableInv, Types
  <2> QED BY <1>1, <1>3, <2>1, FS_AddElement DEF One
<1>4. CASE p # o
  <2>1. TableRefs(p)' = TableRefs(p)
    BY <1>2, <1>4, ObjectsAssumption, SMTT(60) DEF TableInv, Types
  <2> QED BY <1>1, <1>4, <2>1, SMTT(60) DEF One
<1> QED BY <1>3, <1>4

\* An entry loses its object.
LEMMA EntryTake ==
    ASSUME TableInv, RefInv, NEW e \in Index, NEW o \in Objects, size > 0, size' = size,
           objects[e] = o, objects' = [objects EXCEPT ![e] = NoObject]
    PROVE  \A p \in Objects : Cardinality(TableRefs(p)') = Cardinality(TableRefs(p)) - One(p = o)
<1> SUFFICES ASSUME NEW p \in Objects
             PROVE  Cardinality(TableRefs(p)') = Cardinality(TableRefs(p)) - One(p = o)
  OBVIOUS
<1>1. IsFiniteSet(TableRefs(p)) /\ Cardinality(TableRefs(p)) \in Nat
  BY TableRefsFinite DEF RefInv
<1>2. TableRefs(p) = {i \in Index : objects[i] = p} /\ TableRefs(p)' = {i \in Index : objects'[i] = p}
  BY DEF TableRefs
<1>3. CASE p = o
  <2>1. e \in TableRefs(p) /\ TableRefs(p)' = TableRefs(p) \ {e}
    BY <1>2, <1>3, ObjectsAssumption DEF TableInv, Types
  <2>2. Cardinality(TableRefs(p)') = Cardinality(TableRefs(p)) - 1
    BY <1>1, <2>1, FS_RemoveElement
  <2> QED BY <1>3, <2>2 DEF One
<1>4. CASE p # o
  <2>1. TableRefs(p)' = TableRefs(p)
    BY <1>2, <1>4, ObjectsAssumption DEF TableInv, Types
  <2> QED BY <1>1, <1>4, <2>1, SMTT(60) DEF One
<1> QED BY <1>3, <1>4

\* An object that the table or a thread refers to has a reference.
LEMMA ReferredIsAlive ==
    ASSUME TableInv, RefInv, NEW o \in Objects,
           \/ \E t \in Threads : held[t][o] > 0
           \/ size > 0 /\ \E i \in Index : objects[i] = o
    PROVE  refs[o] > 0
<1>1. /\ refs[o] = Cardinality(TableRefs(o)) + Cardinality(ThreadRefs(held, o))
      /\ IsFiniteSet(TableRefs(o)) /\ Cardinality(TableRefs(o)) \in Nat
      /\ IsFiniteSet(ThreadRefs(held, o)) /\ Cardinality(ThreadRefs(held, o)) \in Nat
  BY TableRefsFinite, FS_CardinalityType DEF RefInv, RefCountExact
<1>2. CASE \E t \in Threads : held[t][o] > 0
  <2>1. PICK t \in Threads : held[t][o] > 0
    BY <1>2
  <2>2. <<t, 1>> \in {t} \X (1 .. held[t][o])
    BY <2>1, SMTT(60) DEF RefInv
  <2>3. ThreadRefs(held, o) # {}
    BY <2>2 DEF ThreadRefs
  <2> QED BY <1>1, <2>3, FS_EmptySet, SMTT(60)
<1>3. CASE size > 0 /\ \E i \in Index : objects[i] = o
  <2>1. TableRefs(o) # {}
    BY <1>3 DEF TableRefs
  <2> QED BY <1>1, <2>1, FS_EmptySet, SMTT(60)
<1> QED BY <1>2, <1>3

\* What RefCountExact says of an object, with numbers.
LEMMA Counted ==
    ASSUME RefInv, NEW p \in Objects
    PROVE  /\ refs[p] = Cardinality(TableRefs(p)) + Cardinality(ThreadRefs(held, p))
           /\ Cardinality(TableRefs(p)) \in Nat /\ Cardinality(ThreadRefs(held, p)) \in Nat
BY TableRefsFinite, FS_CardinalityType DEF RefInv, RefCountExact

\* A step that changes the counts by as much as the references keeps RefInv.
LEMMA CountsFollow ==
    ASSUME RefInv, UNCHANGED <<size, sweep>>, objects' = objects \/ size > 0,
           refs' \in [Objects -> Int], held' \in [Threads -> [Objects -> Nat]],
           \A p \in Objects :
              /\ IsFiniteSet(ThreadRefs(held', p))
              /\ refs'[p] = Cardinality(TableRefs(p)') + Cardinality(ThreadRefs(held', p))
    PROVE  RefInv'
<1>1. \A i \in sweep' : objects'[i] \in Objects
  BY SMTT(60) DEF RefInv
<1> QED BY <1>1 DEF RefInv, RefCountExact

\* The step leaves the entries alone.
LEMMA SameTableRefs ==
    ASSUME UNCHANGED <<objects, size, sweep>> PROVE \A p : TableRefs(p)' = TableRefs(p)
BY DEF TableRefs

\* KAutoObject::Open succeeds on an object that somebody refers to.
LEMMA AddRefsOpens ==
    ASSUME RefInv, NEW o \in Objects, refs[o] > 0, refs' = AddRefs(o)
    PROVE  /\ refs' \in [Objects -> Int]
           /\ \A p \in Objects : refs'[p] = refs[p] + One(p = o)
BY SMTT(60) DEF RefInv, AddRefs, One

\* Creating an object, closing a reference and GetObject.
LEMMA ReferencesRefs ==
    ASSUME TableInv, RefInv, NEW t \in Threads,
           \/ \E o \in Objects : Create(t, o) \/ Close(t, o)
           \/ \E h \in Handles : GetObject(t, h)
    PROVE  RefInv'
<1>1. ASSUME NEW o \in Objects, Create(t, o) PROVE RefInv'
  <2>1. /\ UNCHANGED <<objects, size, sweep>> /\ held' = Hold(t, o, 1)
        /\ refs' \in [Objects -> Int] /\ \A p \in Objects : refs'[p] = refs[p] + One(p = o)
    BY <1>1, SMTT(60) DEF Create, tableVars, RefInv, One
  <2>2. \A p \in Objects :
            refs'[p] = Cardinality(TableRefs(p)') + Cardinality(ThreadRefs(held', p))
    BY <2>1, HoldMore, Counted, SameTableRefs, SMTT(60) DEF One
  <2> QED BY <2>1, <2>2, HoldMore, CountsFollow
<1>2. ASSUME NEW o \in Objects, Close(t, o) PROVE RefInv'
  <2>1. /\ UNCHANGED <<objects, size, sweep>> /\ held' = Hold(t, o, -1) /\ held[t][o] > 0
        /\ refs' \in [Objects -> Int] /\ \A p \in Objects : refs'[p] = refs[p] - One(p = o)
    BY <1>2, SMTT(60) DEF Close, tableVars, RefInv, One
  <2>2. \A p \in Objects :
            refs'[p] = Cardinality(TableRefs(p)') + Cardinality(ThreadRefs(held', p))
    BY <2>1, HoldLess, Counted, SameTableRefs, SMTT(60) DEF One
  <2> QED BY <2>1, <2>2, HoldLess, CountsFollow
<1>3. ASSUME NEW h \in Handles, GetObject(t, h) PROVE RefInv'
  <2>1. PICK o : o = objects[h.index]
    OBVIOUS
  <2>2. /\ size > 0 /\ h.index \in Index /\ o \in Objects
        /\ UNCHANGED <<objects, size, sweep>> /\ held' = Hold(t, o, 1) /\ refs' = AddRefs(o)
    BY <1>3, <2>1, SizeAssumption, SMTT(60)
    DEF GetObject, IsValidHandle, Handles, Index, TableInv, Types, tableVars
  <2>3. refs[o] > 0
    BY <2>1, <2>2, ReferredIsAlive
  <2>4. \A p \in Objects :
            refs'[p] = Cardinality(TableRefs(p)') + Cardinality(ThreadRefs(held', p))
    BY <2>2, <2>3, HoldMore, Counted, SameTableRefs, AddRefsOpens, SMTT(60) DEF One
  <2> QED BY <2>2, <2>3, <2>4, HoldMore, AddRefsOpens, CountsFollow
<1> QED BY <1>1, <1>2, <1>3

\* At most one reference more.
LEMMA CountMore ==
    ASSUME NEW g, NEW h, NEW t \in Threads, NEW o, NEW n \in {0, 1}, h[t][o] \in Nat,
           g[t][o] = h[t][o] + n, \A u \in Threads \ {t} : g[u][o] = h[u][o],
           IsFiniteSet(ThreadRefs(h, o))
    PROVE  /\ IsFiniteSet(ThreadRefs(g, o))
           /\ Cardinality(ThreadRefs(g, o)) = Cardinality(ThreadRefs(h, o)) + n
<1>1. CASE n = 1
  BY <1>1, CountOneMore, SMTT(60)
<1>2. CASE n = 0
  <2>1. ThreadRefs(g, o) = ThreadRefs(h, o)
    BY <1>2, SameThreadRefs, SMTT(60)
  <2>2. Cardinality(ThreadRefs(h, o)) \in Nat
    BY FS_CardinalityType
  <2> QED BY <1>2, <2>1, <2>2, SMTT(60)
<1> QED BY <1>1, <1>2

\* GetMultipleObjects opens one or two references, which may be to one object.
LEMMA GetMultipleRefs ==
    ASSUME TableInv, RefInv, NEW t \in Threads, NEW h1 \in Handles, NEW h2 \in Handles,
           GetMultipleObjects(t, h1, h2)
    PROVE  RefInv'
<1>1. PICK a, b : /\ refs' = [o \in Objects |-> refs[o] + Opened(a, b, o)]
                  /\ held' = [held EXCEPT ![t] = [o \in Objects |-> held[t][o] + Opened(a, b, o)]]
                  /\ UNCHANGED <<objects, size, sweep>>
  BY SMTT(60) DEF GetMultipleObjects, tableVars
<1>2. held \in [Threads -> [Objects -> Nat]] /\ refs \in [Objects -> Int]
  BY DEF RefInv
<1>3. \A o \in Objects : /\ One(o = a) \in {0, 1} /\ One(o = b) \in {0, 1}
                          /\ Opened(a, b, o) = One(o = a) + One(o = b)
  BY DEF One, Opened
<1>4. refs' \in [Objects -> Int] /\ held' \in [Threads -> [Objects -> Nat]]
  BY <1>1, <1>2, <1>3, SMTT(60)
<1>5. ASSUME NEW p \in Objects
      PROVE  /\ IsFiniteSet(ThreadRefs(held', p))
             /\ refs'[p] = Cardinality(TableRefs(p)') + Cardinality(ThreadRefs(held', p))
  <2> DEFINE one == [held EXCEPT ![t] = [o \in Objects |-> held[t][o] + One(o = a)]]
  <2>0. /\ IsFiniteSet(ThreadRefs(held, p)) /\ held[t][p] \in Nat
        /\ one[t][p] = held[t][p] + One(p = a)
        /\ \A u \in Threads \ {t} : one[u][p] = held[u][p]
    BY <1>2, <1>3 DEF RefInv
  <2>1. PICK g : g[t][p] = held[t][p] + One(p = a) /\ \A u \in Threads \ {t} : g[u][p] = held[u][p]
    BY <2>0
  <2> HIDE DEF one
  <2>2. /\ g[t][p] \in Nat /\ held'[t][p] = g[t][p] + One(p = b)
        /\ \A u \in Threads \ {t} : held'[u][p] = g[u][p]
    BY <1>1, <1>2, <1>3, <2>1, SMTT(60)
  <2>3. /\ IsFiniteSet(ThreadRefs(g, p))
        /\ Cardinality(ThreadRefs(g, p)) = Cardinality(ThreadRefs(held, p)) + One(p = a)
    <3>1. PICK n \in {0, 1} : n = One(p = a)
      BY <1>3
    <3>2. IsFiniteSet(ThreadRefs(held, p)) /\ held[t][p] \in Nat /\ g[t][p] = held[t][p] + n
      BY <2>0, <2>1, <3>1
    <3>3. \A u \in Threads \ {t} : g[u][p] = held[u][p]
      BY <2>1
    <3>4. /\ IsFiniteSet(ThreadRefs(g, p))
          /\ Cardinality(ThreadRefs(g, p)) = Cardinality(ThreadRefs(held, p)) + n
      BY <3>2, <3>3, CountMore, SMTT(60)
    <3> QED BY <3>1, <3>4
  <2>4. /\ IsFiniteSet(ThreadRefs(held', p))
        /\ Cardinality(ThreadRefs(held', p)) = Cardinality(ThreadRefs(g, p)) + One(p = b)
    <3>1. PICK n \in {0, 1} : n = One(p = b)
      BY <1>3
    <3> QED BY <2>1, <2>2, <2>3, <3>1, CountMore, SMTT(60)
  <2>5. refs'[p] = refs[p] + (One(p = a) + One(p = b)) /\ TableRefs(p)' = TableRefs(p)
    BY <1>1, <1>3, SameTableRefs
  <2>6. /\ refs[p] = Cardinality(TableRefs(p)) + Cardinality(ThreadRefs(held, p))
        /\ Cardinality(TableRefs(p)) \in Nat /\ Cardinality(ThreadRefs(held, p)) \in Nat
    BY Counted
  <2> QED BY <1>3, <2>3, <2>4, <2>5, <2>6, SMTT(60)
<1> QED BY <1>1, <1>4, <1>5, CountsFollow

\* Add and Register open the reference of the table.
LEMMA TableOpensRefs ==
    ASSUME TableInv, RefInv, NEW t \in Threads, NEW o \in Objects, NEW e \in Index,
           size > 0, objects[e] = NoObject, held[t][o] > 0,
           objects' = [objects EXCEPT ![e] = o], refs' = AddRefs(o), UNCHANGED <<size, sweep, held>>
    PROVE  RefInv'
<1>1. refs[o] > 0
  BY ReferredIsAlive
<1>2. size' = size
  OBVIOUS
<1>3. \A p \in Objects : Cardinality(TableRefs(p)') = Cardinality(TableRefs(p)) + One(p = o)
  BY <1>2, EntryPut
<1>4. \A p \in Objects :
          /\ IsFiniteSet(ThreadRefs(held', p))
          /\ refs'[p] = Cardinality(TableRefs(p)') + Cardinality(ThreadRefs(held', p))
  <2>1. ASSUME NEW p \in Objects
        PROVE  refs'[p] = Cardinality(TableRefs(p)') + Cardinality(ThreadRefs(held', p))
    <3>1. Cardinality(TableRefs(p)') = Cardinality(TableRefs(p)) + One(p = o)
      BY <1>3
    <3>2. refs'[p] = refs[p] + One(p = o)
      BY <1>1, AddRefsOpens
    <3> QED BY <3>1, <3>2, Counted, SMTT(60) DEF One
  <2> QED BY <2>1 DEF RefInv
<1> QED BY <1>1, <1>4, AddRefsOpens, CountsFollow DEF RefInv

\* The entry that Allocate takes has no object.
LEMMA HeadIsFree ==
    ASSUME TableInv, Allocate PROVE size > 0 /\ freeHead \in Index /\ objects[freeHead] = NoObject
<1>1. size > 0 /\ TableSize - count # 0 /\ TableSize - count \in Int
  BY SizeAssumption, SMTT(60) DEF TableInv, Types, Allocate
<1> QED BY <1>1 DEF TableInv, ListInv, Linked, FreeIndexes

\* A step that touches neither counts nor entries preserves RefInv.
LEMMA SameRefs ==
    ASSUME RefInv, UNCHANGED <<objects, size, sweep, refs, held>> PROVE RefInv'
BY SameTableRefs DEF RefInv, RefCountExact

\* Add, Register and Remove.
LEMMA HandleRefs ==
    ASSUME TableInv, RefInv, NEW t \in Threads,
           \/ \E o \in Objects : Add(t, o) \/ Register(t, o)
           \/ \E h \in Handles : Remove(t, h)
    PROVE  RefInv'
<1>1. ASSUME NEW o \in Objects, Add(t, o) PROVE RefInv'
  <2>1. size > 0 /\ freeHead \in Index /\ objects[freeHead] = NoObject
    BY <1>1, HeadIsFree DEF Add
  <2> QED BY <1>1, <2>1, TableOpensRefs DEF Add
<1>2. ASSUME NEW o \in Objects, Register(t, o) PROVE RefInv'
  <2> DEFINE e == reserved[t].index
  <2>1. reserved[t] # NoHandle /\ reserved[t] \in Handles /\ e \in Index /\ size \in {0, TableSize}
    BY <1>2 DEF Register, TableInv, Types, Handles
  <2>2. CASE e < size
    <3>1. size > 0 /\ objects[e] = NoObject
      BY <2>1, <2>2, SizeAssumption, SMTT(60) DEF TableInv, ListInv, Index
    <3> QED BY <1>2, <2>1, <2>2, <3>1, TableOpensRefs DEF Register
  <2>3. CASE ~(e < size)
    BY <1>2, <2>3, SameRefs DEF Register
  <2> QED BY <2>2, <2>3
<1>3. ASSUME NEW h \in Handles, Remove(t, h) PROVE RefInv'
  <2>1. PICK o : o = objects[h.index]
    OBVIOUS
  <2>2. /\ size > 0 /\ h.index \in Index /\ o \in Objects
        /\ objects' = [objects EXCEPT ![h.index] = NoObject] /\ held' = Hold(t, o, 1)
        /\ UNCHANGED <<size, sweep, refs>>
    BY <1>3, <2>1, SizeAssumption, SMTT(60)
       DEF Remove, FreeEntry, IsValidHandle, Handles, Index, TableInv, Types
  <2>3. ASSUME NEW p \in Objects
        PROVE  /\ IsFiniteSet(ThreadRefs(held', p))
               /\ refs'[p] = Cardinality(TableRefs(p)') + Cardinality(ThreadRefs(held', p))
    <3>1. Cardinality(TableRefs(p)') = Cardinality(TableRefs(p)) - One(p = o)
      BY <2>1, <2>2, EntryTake
    <3>2. /\ IsFiniteSet(ThreadRefs(held', p))
          /\ Cardinality(ThreadRefs(held', p)) = Cardinality(ThreadRefs(held, p)) + One(p = o)
      BY <2>2, HoldMore
    <3> QED BY <2>2, <3>1, <3>2, Counted, SMTT(60) DEF One
  <2> QED BY <2>2, <2>3, HoldMore, CountsFollow DEF RefInv
<1> QED BY <1>1, <1>2, <1>3

\* Reserve and Unreserve move entries without an object.
LEMMA ReservationRefs ==
    ASSUME TableInv, RefInv, NEW t \in Threads, Reserve(t) \/ Unreserve(t) PROVE RefInv'
<1>1. CASE Reserve(t)
  BY <1>1, SameRefs DEF Reserve, refVars
<1>2. CASE Unreserve(t)
  <2> DEFINE e == reserved[t].index
  <2>1. reserved[t] # NoHandle /\ reserved[t] \in Handles /\ e \in Index /\ size \in {0, TableSize}
    BY <1>2 DEF Unreserve, TableInv, Types, Handles
  <2>2. CASE e < size
    <3>1. size > 0 /\ objects[e] = NoObject
      BY <2>1, <2>2, SizeAssumption, SMTT(60) DEF TableInv, ListInv, Index
    <3>2. objects' = objects
      BY <1>2, <2>1, <2>2, <3>1 DEF Unreserve, FreeEntry, TableInv, Types
    <3> QED BY <1>2, <3>2, SameRefs DEF Unreserve, refVars
  <2>3. CASE ~(e < size)
    BY <1>2, <2>3, SameRefs DEF Unreserve, refVars
  <2> QED BY <2>2, <2>3
<1> QED BY <1>1, <1>2

\* Finalize takes the references of the table over and closes each once.
LEMMA FinalizeRefs ==
    ASSUME TableInv, RefInv, Finalize \/ \E i \in Index : FinalizeClose(i) PROVE RefInv'
<1>1. CASE Finalize
  <2>1. /\ size > 0 /\ size' = 0 /\ sweep' = {i \in Index : objects[i] # NoObject}
        /\ UNCHANGED <<objects, refs, held>>
    BY <1>1 DEF Finalize, refVars
  <2>2. \A p \in Objects : TableRefs(p)' = TableRefs(p)
    BY <2>1, ObjectsAssumption DEF TableRefs
  <2>3. \A i \in sweep' : objects'[i] \in Objects
    BY <2>1 DEF TableInv, Types
  <2> QED BY <2>1, <2>2, <2>3 DEF RefInv, RefCountExact
<1>2. ASSUME NEW i \in Index, FinalizeClose(i) PROVE RefInv'
  <2>1. PICK o : o = objects[i]
    OBVIOUS
  <2>2. /\ i \in sweep /\ sweep' = sweep \ {i} /\ size = 0 /\ o \in Objects
        /\ refs' = [refs EXCEPT ![o] = @ - 1] /\ UNCHANGED <<objects, size, held>>
    BY <1>2, <2>1 DEF FinalizeClose, RefInv, tableVars
  <2>3. refs' \in [Objects -> Int] /\ \A p \in Objects : refs'[p] = refs[p] - One(p = o)
    BY <2>2, SMTT(60) DEF RefInv, One
  <2>4. ASSUME NEW p \in Objects
        PROVE  refs'[p] = Cardinality(TableRefs(p)') + Cardinality(ThreadRefs(held', p))
    <3>1. TableRefs(p) = {j \in sweep : objects[j] = p} /\ TableRefs(p)' = {j \in sweep' : objects[j] = p}
      BY <2>2, SMTT(60) DEF TableRefs
    <3>2. IsFiniteSet(TableRefs(p))
      BY TableRefsFinite DEF RefInv
    <3>3. CASE p = o
      <4>1. i \in TableRefs(p) /\ TableRefs(p)' = TableRefs(p) \ {i}
        BY <2>1, <2>2, <3>1, <3>3
      <4>2. Cardinality(TableRefs(p)') = Cardinality(TableRefs(p)) - 1
        BY <3>2, <4>1, FS_RemoveElement
      <4> QED BY <2>2, <2>3, <3>3, <4>2, Counted, SMTT(60) DEF One
    <3>4. CASE p # o
      <4>1. TableRefs(p)' = TableRefs(p)
        BY <2>1, <2>2, <3>1, <3>4
      <4> QED BY <2>2, <2>3, <3>4, <4>1, Counted DEF One
    <3> QED BY <3>3, <3>4
  <2> QED BY <2>2, <2>3, <2>4 DEF RefInv, RefCountExact
<1> QED BY <1>1, <1>2

\* Every step preserves both invariants.
LEMMA NextRefs == TableInv /\ RefInv /\ [Next]_vars => RefInv'
<1> SUFFICES ASSUME TableInv, RefInv, [Next]_vars PROVE RefInv'
  OBVIOUS
<1>1. CASE UNCHANGED vars
  BY <1>1, SameRefs DEF vars, tableVars, refVars
<1>2. ASSUME NEW t \in Threads, ThreadStep(t) PROVE RefInv'
  BY <1>2, ReferencesRefs, HandleRefs, ReservationRefs, GetMultipleRefs DEF ThreadStep
<1> QED BY <1>1, <1>2, FinalizeRefs DEF Next

\* KAutoObject's count is the number of references to the object: GetObject never
\* meets an object that is gone, and the last Close destroys it.
THEOREM ReferencesCounted == Spec => []RefCountExact
<1>1. Init => RefInv
  <2> SUFFICES ASSUME Init PROVE RefInv
    OBVIOUS
  <2>1. \A o \in Objects : ThreadRefs(held, o) = {}
    BY SMTT(60) DEF Init, ThreadRefs
  <2>2. \A o \in Objects : TableRefs(o) = {}
    BY ObjectsAssumption DEF Init, TableRefs
  <2>3. \A o \in Objects : IsFiniteSet(ThreadRefs(held, o))
    BY <2>1, FS_EmptySet
  <2>4. RefCountExact
    BY <2>1, <2>2, FS_EmptySet, SMTT(60) DEF Init, RefCountExact
  <2> QED BY <2>3, <2>4, SMTT(60) DEF Init, RefInv
<1>2. RefInv => RefCountExact
  BY DEF RefInv
<1> QED BY <1>1, <1>2, NextRefs, TableInvariant, PTL DEF Spec
=============================================================================
