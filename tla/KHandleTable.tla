---------------------------- MODULE KHandleTable ----------------------------
(***************************************************************************)
(* A process's handle table: the entries and their free list, the linear   *)
(* ids that tell the handles of one entry apart, and the references that   *)
(* the table and the threads hold on the objects (KAutoObject).            *)
(*                                                                         *)
(* Every operation runs under the table's spin lock and is one step.  The  *)
(* reference that Remove takes over from the table is closed in a later    *)
(* step, after the lock is released, and so are those of GetObject and     *)
(* GetMultipleObjects.  A handle is the pair that EncodeHandle packs.      *)
(***************************************************************************)
EXTENDS Integers, FiniteSets

CONSTANTS
    Threads,
    Objects,        \* the kernel objects, created again after they are destroyed
    NoObject,       \* the null object pointer
    NoHandle,       \* no handle is reserved
    TableSize,      \* the size given to Initialize
    MaxLinearId,    \* 0x7FFF in the code
    MaxAllocs,      \* bound on the linear ids handed out
    MaxHeld         \* bound on the references a thread holds at a time

ASSUME ObjectsAssumption == NoObject \notin Objects
ASSUME SizeAssumption == TableSize \in Nat /\ MaxLinearId \in Nat \ {0}
ASSUME BoundsAssumption == MaxAllocs \in Nat /\ MaxHeld \in Nat

Index == 0 .. TableSize - 1
LinearIds == 1 .. MaxLinearId
Handles == [index : Index, id : LinearIds]

ASSUME HandleAssumption == NoHandle \notin Handles

VARIABLES
    objects,    \* m_objects
    info,       \* m_entry_infos: a union of the linear id and the next free index
    freeHead,   \* m_free_head_index
    count,      \* m_count
    nextId,     \* m_next_linear_id
    size,       \* m_table_size, 0 once the table is finalized
    sweep,      \* the entries Finalize has yet to close
    refs,       \* m_ref_count of each object
    held,       \* the references each thread has to close
    reserved,   \* the handle each thread has reserved
    issued,     \* the object each open handle was issued for
    allocs      \* linear ids handed out so far, capped by MaxAllocs

tableVars == <<objects, info, freeHead, count, nextId, size>>
refVars == <<refs, held>>
vars == <<tableVars, sweep, refVars, reserved, issued, allocs>>

Init ==
    /\ objects = [i \in Index |-> NoObject]
    /\ info = [i \in Index |-> i - 1]
    /\ freeHead = TableSize - 1
    /\ count = 0 /\ nextId = 1 /\ size = TableSize /\ sweep = {}
    /\ refs = [o \in Objects |-> 0]
    /\ held = [t \in Threads |-> [o \in Objects |-> 0]]
    /\ reserved = [t \in Threads |-> NoHandle]
    /\ issued = [h \in Handles |-> NoObject]
    /\ allocs = 0
-----------------------------------------------------------------------------
(* Entries.                                                                *)

NextLinearId == IF nextId + 1 > MaxLinearId THEN 1 ELSE nextId + 1

\* AllocateEntry and AllocateLinearId.
Allocate ==
    /\ count < size /\ allocs < MaxAllocs
    /\ freeHead' = info[freeHead]
    /\ count' = count + 1
    /\ nextId' = NextLinearId
    /\ allocs' = allocs + 1

\* The handle that Allocate makes.
NewHandle == [index |-> freeHead, id |-> nextId]

\* Mutant: the freed entry does not point to the rest of the free list.
FreedInfoEnd(i) == [info EXCEPT ![i] = -1]
FreedInfo(i) == [info EXCEPT ![i] = freeHead]

FreeEntry(i) ==
    /\ objects' = [objects EXCEPT ![i] = NoObject]
    /\ info' = FreedInfo(i)
    /\ freeHead' = i
    /\ count' = count - 1

\* Mutant: the linear id is not compared.
IsValidHandleAnyId(h) == h.index < size /\ objects[h.index] # NoObject
IsValidHandle(h) == h.index < size /\ objects[h.index] # NoObject /\ info[h.index] = h.id
-----------------------------------------------------------------------------
(* References.                                                             *)

\* The references once t holds n more of o.
Hold(t, o, n) == [held EXCEPT ![t][o] = @ + n]
NumHeld(t) == Cardinality({r \in Objects \X (1 .. MaxHeld) : r[2] <= held[t][r[1]]})

\* An object is created with one reference, that of its creator.
Create(t, o) ==
    /\ refs[o] = 0 /\ NumHeld(t) < MaxHeld
    /\ refs' = [refs EXCEPT ![o] = 1]
    /\ held' = Hold(t, o, 1)
    /\ UNCHANGED <<tableVars, sweep, reserved, issued, allocs>>

Close(t, o) ==
    /\ held[t][o] > 0
    /\ refs' = [refs EXCEPT ![o] = @ - 1]
    /\ held' = Hold(t, o, -1)
    /\ UNCHANGED <<tableVars, sweep, reserved, issued, allocs>>
-----------------------------------------------------------------------------
(* The table.                                                              *)

Issue(h, o) == issued' = [issued EXCEPT ![h] = o]

\* Mutant: Add does not open a reference for the table.
AddRefsNot(o) == refs
\* KAutoObject::Open refuses an object that has no reference left.
AddRefs(o) == [refs EXCEPT ![o] = IF @ = 0 THEN 0 ELSE @ + 1]

Add(t, o) ==
    /\ held[t][o] > 0
    /\ Allocate
    /\ info' = [info EXCEPT ![freeHead] = nextId]
    /\ objects' = [objects EXCEPT ![freeHead] = o]
    /\ refs' = AddRefs(o)
    /\ Issue(NewHandle, o)
    /\ UNCHANGED <<size, sweep, held, reserved>>

\* Remove closes a handle; the reference of the table is t's to close.
Remove(t, h) ==
    /\ IsValidHandle(h) /\ NumHeld(t) < MaxHeld
    /\ FreeEntry(h.index)
    /\ held' = Hold(t, objects[h.index], 1)
    /\ Issue(h, NoObject)
    /\ UNCHANGED <<nextId, size, sweep, refs, reserved, allocs>>

\* Reserve takes an entry and an id; neither is written to the entry.
Reserve(t) ==
    /\ reserved[t] = NoHandle
    /\ Allocate
    /\ reserved' = [reserved EXCEPT ![t] = NewHandle]
    /\ UNCHANGED <<objects, info, size, sweep, refVars, issued>>

Unreserve(t) ==
    /\ reserved[t] # NoHandle
    /\ IF reserved[t].index < size
       THEN FreeEntry(reserved[t].index)
       ELSE UNCHANGED <<objects, info, freeHead, count>>
    /\ reserved' = [reserved EXCEPT ![t] = NoHandle]
    /\ UNCHANGED <<nextId, size, sweep, refVars, issued, allocs>>

RegisteredInfo(h) == [info EXCEPT ![h.index] = h.id]

Register(t, o) ==
    /\ reserved[t] # NoHandle /\ held[t][o] > 0
    /\ IF reserved[t].index < size
       THEN /\ info' = RegisteredInfo(reserved[t])
            /\ objects' = [objects EXCEPT ![reserved[t].index] = o]
            /\ refs' = AddRefs(o)
            /\ Issue(reserved[t], o)
       ELSE UNCHANGED <<info, objects, refs, issued>>
    /\ reserved' = [reserved EXCEPT ![t] = NoHandle]
    /\ UNCHANGED <<freeHead, count, nextId, size, sweep, held, allocs>>

GetObject(t, h) ==
    /\ IsValidHandle(h) /\ NumHeld(t) < MaxHeld
    /\ refs' = AddRefs(objects[h.index])
    /\ held' = Hold(t, objects[h.index], 1)
    /\ UNCHANGED <<tableVars, sweep, reserved, issued, allocs>>

\* How many references to o a pair of opened objects makes.
Opened(first, second, o) == (IF o = first THEN 1 ELSE 0) + (IF o = second THEN 1 ELSE 0)

\* GetMultipleObjects for two handles: the second may be invalid or of the wrong
\* type when the first is open, and t closes what was opened in either case.
GetMultipleObjects(t, h1, h2) ==
    /\ IsValidHandle(h1) /\ NumHeld(t) + 1 < MaxHeld
    /\ LET first == objects[h1.index]
           found == IF IsValidHandle(h2) THEN objects[h2.index] ELSE NoObject
       IN  \E second \in {found, NoObject} :
               /\ refs' = [o \in Objects |-> refs[o] + Opened(first, second, o)]
               /\ held' = [held EXCEPT ![t] = [o \in Objects |-> @[o] + Opened(first, second, o)]]
    /\ UNCHANGED <<tableVars, sweep, reserved, issued, allocs>>

\* Finalize hides the entries under the lock, and closes the objects after it.
Finalize ==
    /\ size > 0
    /\ size' = 0
    /\ sweep' = {i \in Index : objects[i] # NoObject}
    /\ issued' = [h \in Handles |-> NoObject]
    /\ UNCHANGED <<objects, info, freeHead, count, nextId, refVars, reserved, allocs>>

FinalizeClose(i) ==
    /\ i \in sweep
    /\ refs' = [refs EXCEPT ![objects[i]] = @ - 1]
    /\ sweep' = sweep \ {i}
    /\ UNCHANGED <<tableVars, held, reserved, issued, allocs>>
-----------------------------------------------------------------------------
ThreadStep(t) ==
    \/ \E o \in Objects : Create(t, o) \/ Close(t, o) \/ Add(t, o) \/ Register(t, o)
    \/ Reserve(t) \/ Unreserve(t)
    \/ \E h \in Handles : Remove(t, h) \/ GetObject(t, h)
    \/ \E h1, h2 \in Handles : GetMultipleObjects(t, h1, h2)

Next ==
    \/ \E t \in Threads : ThreadStep(t)
    \/ Finalize
    \/ \E i \in Index : FinalizeClose(i)

Spec == Init /\ [][Next]_vars
-----------------------------------------------------------------------------
\* The entries that are neither used nor reserved.
ReservedIndexes == {reserved[t].index : t \in {u \in Threads : reserved[u] # NoHandle}}
FreeIndexes == {i \in Index : objects[i] = NoObject /\ i \notin ReservedIndexes}

\* The rank of a free entry is the number of entries after it in the free list.
IsRank(rank) ==
    LET n == TableSize - count
    IN  /\ \A i \in FreeIndexes : \A j \in FreeIndexes : rank[i] = rank[j] => i = j
        /\ \A i \in FreeIndexes : IF rank[i] = 0 THEN info[i] = -1
                                  ELSE info[i] \in FreeIndexes /\ rank[info[i]] = rank[i] - 1
        /\ IF n = 0 THEN freeHead = -1 /\ FreeIndexes = {}
           ELSE freeHead \in FreeIndexes /\ rank[freeHead] = n - 1

\* As long as the table is in use, the free list starting at m_free_head_index
\* runs through exactly the entries that are neither used nor reserved, and
\* m_count says how many it leaves out: no entry is handed out twice and none is
\* lost, although used entries keep a linear id where free ones keep the link.
FreeListSound ==
    size > 0 => \E rank \in [FreeIndexes -> 0 .. TableSize - 1 - count] : IsRank(rank)

\* A handle that is open finds the object it was issued for; one that was closed,
\* is only reserved, or was given back is refused, also when its entry is in use
\* again under another linear id.
HandleResolvesExactly ==
    \A h \in Handles :
        IF issued[h] = NoObject THEN ~IsValidHandle(h)
        ELSE IsValidHandle(h) /\ objects[h.index] = issued[h]

\* The references to o: those of the table (or of Finalize after it), and those of
\* the threads that hold h of them.
TableRefs(o) == {i \in (IF size > 0 THEN Index ELSE sweep) : objects[i] = o}
ThreadRefs(h, o) == UNION {{t} \X (1 .. h[t][o]) : t \in Threads}

\* The reference count of an object is the number of references the table (or
\* Finalize after it) and the threads hold: no object dies while a handle or a
\* thread refers to it, and none outlives its last reference.
RefCountExact ==
    \A o \in Objects :
        refs[o] = Cardinality(TableRefs(o)) + Cardinality(ThreadRefs(held, o))
=============================================================================
