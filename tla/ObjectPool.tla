----------------------------- MODULE ObjectPool -----------------------------
(***************************************************************************)
(* The memory pool of src/memory/object_pool.cpp: the steps that allocate  *)
(* and deallocate are made of, for the modules whose threads run them      *)
(* (PoolClients, StorageEngine).                                           *)
(*                                                                         *)
(* A slab never hands a parked block out again: SlabAllocator::allocate    *)
(* always calls malloc.  The slabs are thread_local, so a block returned   *)
(* by a thread goes to that thread's slab, whoever allocated it.           *)
(***************************************************************************)
EXTENDS Integers, FiniteSets

CONSTANTS Threads,
          Blocks,         \* the addresses malloc can return
          Null,           \* nullptr
          SlabSizes,      \* FIXED_POOL_SIZES
          LargeSize,      \* stands for the sizes above the largest of them
          NoSize,         \* no entry in allocationSizeMap_
          FreeListLimit,  \* 10000: how many blocks a slab parks
          SizeMod         \* 2^64: how many values a size_t has

ASSUME BlocksAssumption == Null \notin Blocks
ASSUME SizesAssumption == LargeSize \notin SlabSizes /\ NoSize \notin SlabSizes \cup {LargeSize}
ASSUME LimitAssumption == FreeListLimit \in Nat
ASSUME SizeModAssumption == SizeMod \in Nat \ {0}

Sizes == SlabSizes \cup {LargeSize}

VARIABLES heap,                \* the blocks malloc has handed out and free has not taken back
          allocationSizeMap_,  \* the size each registered block was allocated with
          slabs                \* slabs[t][m]: thread t's localSlabMap_[m]

poolVars == <<heap, allocationSizeMap_, slabs>>

\* A slab, which is created by the first allocation of its size in a thread.
NewSlab == [exists |-> FALSE, total |-> 0, inUse |-> 0, free |-> {}]

Slab == [exists : BOOLEAN, total : 0 .. SizeMod - 1, inUse : 0 .. SizeMod - 1,
         free : SUBSET Blocks]

PoolTypeOK == /\ heap \in SUBSET Blocks
              /\ allocationSizeMap_ \in [Blocks \cup {Null} -> Sizes \cup {NoSize}]
              /\ slabs \in [Threads -> [SlabSizes -> Slab]]

PoolInit == /\ heap = {}
            /\ allocationSizeMap_ = [p \in Blocks \cup {Null} |-> NoSize]
            /\ slabs = [t \in Threads |-> [m \in SlabSizes |-> NewSlab]]

\* allocate, first part: malloc returns p, directly or through the thread's slab
Malloc(t, m, p) ==
  /\ p \in (Blocks \ heap) \cup {Null}
  /\ heap' = heap \cup ({p} \ {Null})
  /\ slabs' = IF m = LargeSize THEN slabs
              ELSE [slabs EXCEPT ![t][m].exists = TRUE,
                                 ![t][m].total = IF p = Null THEN @ ELSE (@ + 1) % SizeMod,
                                 ![t][m].inUse = IF p = Null THEN @ ELSE (@ + 1) % SizeMod]
  /\ UNCHANGED allocationSizeMap_

\* allocate, second part, under globalMutex_: a failed malloc of a large block
\* has returned before, one of a slab block is registered all the same
Registers(m, p) == p # Null \/ m # LargeSize

\* Faulty variant: an entry that is there already is kept
EntryOnce(p, m) == IF allocationSizeMap_[p] # NoSize THEN allocationSizeMap_[p] ELSE m

\* The entry that an allocation of size m leaves for block p
Entry(p, m) == m

Register(m, p) ==
  /\ Registers(m, p)
  /\ allocationSizeMap_' = [allocationSizeMap_ EXCEPT ![p] = Entry(p, m)]
  /\ UNCHANGED <<heap, slabs>>

\* deallocate, first part, under globalMutex_; for nullptr and for a block
\* that is not registered deallocate returns at once
Unregister(p) ==
  /\ p # Null
  /\ allocationSizeMap_[p] # NoSize
  /\ allocationSizeMap_' = [allocationSizeMap_ EXCEPT ![p] = NoSize]
  /\ UNCHANGED <<heap, slabs>>

\* deallocate, second part: a large block is given back to the system
FreeLarge(m, p) ==
  /\ m = LargeSize
  /\ heap' = heap \ {p}
  /\ UNCHANGED <<allocationSizeMap_, slabs>>

\* Faulty variant: the counter is decremented below zero
OneLessUnwrapped(count) == count - 1

\* --count, of a size_t
OneLess(count) == (count - 1) % SizeMod

\* Faulty variant: a block that is parked is freed all the same
HeapWithout(p) == heap \ {p}

\* A block that is parked is not freed.
HeapWith(p) == heap

\* a slab block is parked in the calling thread's slab, or, when that is
\* full, given back to the system
Park(t, m, p) ==
  /\ m \in SlabSizes
  /\ slabs[t][m].exists
  /\ IF Cardinality(slabs[t][m].free) >= FreeListLimit
     THEN /\ heap' = heap \ {p}
          /\ slabs' = [slabs EXCEPT ![t][m].total = OneLess(@), ![t][m].inUse = OneLess(@)]
     ELSE /\ heap' = HeapWith(p)
          /\ slabs' = [slabs EXCEPT ![t][m].free = @ \cup {p}, ![t][m].inUse = OneLess(@)]
  /\ UNCHANGED allocationSizeMap_

\* "Missing slab for deallocation": the block is abandoned
MissingSlab(t, m) ==
  /\ m \in SlabSizes
  /\ ~slabs[t][m].exists
  /\ UNCHANGED poolVars

GiveBack(t, m, p) == FreeLarge(m, p) \/ Park(t, m, p) \/ MissingSlab(t, m)

\* A thread ends: its slabs are destroyed, and free the parked blocks unless
\* their count of blocks is zero
ExitSlabs(t) ==
  /\ heap' = heap \ UNION {slabs[t][m].free : m \in {s \in SlabSizes : slabs[t][s].total > 0}}
  /\ slabs' = [slabs EXCEPT ![t] = [m \in SlabSizes |-> NewSlab]]
  /\ UNCHANGED allocationSizeMap_

Parked == UNION {slabs[t][m].free : t \in Threads, m \in SlabSizes}
=============================================================================
