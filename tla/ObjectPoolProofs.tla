-------------------------- MODULE ObjectPoolProofs --------------------------
(***************************************************************************)
(* What the steps of ObjectPool do to the slabs, for any sizes and limits: *)
(* the lemmas that PoolClientsProofs and StorageEngineProofs rest on.      *)
(***************************************************************************)
EXTENDS ObjectPool, TLAPS

-----------------------------------------------------------------------------

LEMMA CountersWrap ==
  ASSUME NEW count \in Int
  PROVE  count % SizeMod \in 0 .. SizeMod - 1
  BY SizeModAssumption

\* A step that leaves the free lists as they are
FreeListsKept == \A u \in Threads, n \in SlabSizes : slabs'[u][n].free = slabs[u][n].free

\* A step that puts p into one of them
PutInFreeList(t, m, p) ==
  /\ m \in SlabSizes
  /\ \A u \in Threads, n \in SlabSizes :
       slabs'[u][n].free = IF u = t /\ n = m THEN slabs[u][n].free \cup {p} ELSE slabs[u][n].free

\* malloc parks nothing.
LEMMA MallocSlabs ==
  ASSUME NEW t \in Threads, NEW m \in Sizes, NEW p, PoolTypeOK, Malloc(t, m, p)
  PROVE  /\ slabs' \in [Threads -> [SlabSizes -> Slab]]
         /\ FreeListsKept
<1> USE DEF FreeListsKept
<1>1. CASE m = LargeSize
  BY <1>1 DEF Malloc, PoolTypeOK
<1>2. CASE m # LargeSize
  <2> DEFINE old == slabs[t][m]
             count(n) == IF p = Null THEN n ELSE (n + 1) % SizeMod
             new == [old EXCEPT !.exists = TRUE, !.total = count(@), !.inUse = count(@)]
  <2>1. m \in SlabSizes /\ old \in Slab
    BY <1>2 DEF Sizes, PoolTypeOK
  <2>2. \A n \in 0 .. SizeMod - 1 : count(n) \in 0 .. SizeMod - 1
    BY CountersWrap, SizeModAssumption
  <2>3. new \in Slab /\ new.free = old.free
    BY <2>1, <2>2 DEF Slab
  <2>4. slabs' = [slabs EXCEPT ![t] = [slabs[t] EXCEPT ![m] = new]]
    BY <1>2, <2>1 DEF Malloc, PoolTypeOK, Slab
  <2> HIDE DEF new, old
  <2> QED
    BY <2>1, <2>3, <2>4 DEF PoolTypeOK, old
<1> QED
  BY <1>1, <1>2

\* What deallocate's second part leaves: the block is out of the heap, parked
\* in one slab, or abandoned.
LEMMA GiveBackSlabs ==
  ASSUME NEW t \in Threads, NEW m, NEW p \in Blocks, PoolTypeOK, GiveBack(t, m, p)
  PROVE  /\ slabs' \in [Threads -> [SlabSizes -> Slab]]
         /\ UNCHANGED allocationSizeMap_
         /\ \/ heap' \in {heap, heap \ {p}} /\ FreeListsKept
            \/ heap' = heap /\ PutInFreeList(t, m, p)
<1> USE DEF FreeListsKept, PutInFreeList
<1>1. CASE FreeLarge(m, p)
  BY <1>1 DEF FreeLarge, PoolTypeOK
<1>2. CASE MissingSlab(t, m)
  BY <1>2 DEF MissingSlab, PoolTypeOK, poolVars
<1>3. CASE Park(t, m, p)
  <2> DEFINE old == slabs[t][m]
  <2>1. m \in SlabSizes /\ old \in Slab
    BY <1>3 DEF Park, PoolTypeOK
  <2>2. \A n \in 0 .. SizeMod - 1 : OneLess(n) \in 0 .. SizeMod - 1
    BY CountersWrap, SizeModAssumption DEF OneLess
  <2>3. CASE Cardinality(old.free) >= FreeListLimit
    <3> DEFINE new == [old EXCEPT !.total = OneLess(@), !.inUse = OneLess(@)]
    <3>1. new \in Slab /\ new.free = old.free
      BY <2>1, <2>2 DEF Slab
    <3>2. slabs' = [slabs EXCEPT ![t] = [slabs[t] EXCEPT ![m] = new]] /\ heap' = heap \ {p}
      BY <1>3, <2>1, <2>3 DEF Park, PoolTypeOK, Slab
    <3> HIDE DEF new
    <3> QED
      BY <1>3, <2>1, <3>1, <3>2 DEF PoolTypeOK, Park
  <2>4. CASE ~(Cardinality(old.free) >= FreeListLimit)
    <3> DEFINE new == [old EXCEPT !.free = @ \cup {p}, !.inUse = OneLess(@)]
    <3>1. new \in Slab /\ new.free = old.free \cup {p}
      BY <2>1, <2>2 DEF Slab
    <3>2. slabs' = [slabs EXCEPT ![t] = [slabs[t] EXCEPT ![m] = new]] /\ heap' = heap
      BY <1>3, <2>1, <2>4 DEF Park, PoolTypeOK, Slab, HeapWith
    <3> HIDE DEF new
    <3> QED
      BY <1>3, <2>1, <3>1, <3>2 DEF PoolTypeOK, Park
  <2> QED
    BY <2>3, <2>4
<1> QED
  BY <1>1, <1>2, <1>3 DEF GiveBack

\* The end of a thread empties its free lists; what it frees was in them.
LEMMA ExitSlabsFree ==
  ASSUME NEW t \in Threads, PoolTypeOK, ExitSlabs(t)
  PROVE  /\ slabs' \in [Threads -> [SlabSizes -> Slab]]
         /\ \A u \in Threads, n \in SlabSizes :
              slabs'[u][n].free = IF u = t THEN {} ELSE slabs[u][n].free
         /\ heap' \subseteq heap
         /\ \A p \in heap \ heap' : \E n \in SlabSizes : p \in slabs[t][n].free
<1>1. NewSlab \in Slab /\ NewSlab.free = {}
  BY SizeModAssumption DEF NewSlab, Slab
<1>2. slabs' = [slabs EXCEPT ![t] = [m \in SlabSizes |-> NewSlab]]
  BY DEF ExitSlabs
<1>3. slabs' \in [Threads -> [SlabSizes -> Slab]]
  BY <1>1, <1>2 DEF PoolTypeOK
<1>4. \A u \in Threads, n \in SlabSizes : slabs'[u][n].free = IF u = t THEN {} ELSE slabs[u][n].free
  BY <1>1, <1>2 DEF PoolTypeOK
<1>5. heap' \subseteq heap /\ \A p \in heap \ heap' : \E n \in SlabSizes : p \in slabs[t][n].free
  BY DEF ExitSlabs
<1> QED
  BY <1>3, <1>4, <1>5

-----------------------------------------------------------------------------

\* No slab has p in its free list.
NotParked(p) == \A u \in Threads, n \in SlabSizes : p \notin slabs[u][n].free

LEMMA ParkedIsInASlab ==
  ASSUME NEW p
  PROVE  NotParked(p) <=> p \notin Parked
  BY DEF NotParked, Parked
=============================================================================
