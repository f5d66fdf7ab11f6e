------------------------- MODULE PoolClientsProofs -------------------------
(***************************************************************************)
(* Proofs about PoolClients, for any threads, addresses, block sizes and   *)
(* limits of the free lists.                                               *)
(***************************************************************************)
EXTENDS PoolClients, ObjectPoolProofs

-----------------------------------------------------------------------------
(* The inductive invariant                                                 *)

\* A thread has a block in hand only between the two parts of a call, and
\* always when it gives one back.
Locals == \A t \in Threads : /\ pc[t] \in {"idle", "exited"} => ptr[t] = Null
                             /\ pc[t] = "give_back" => ptr[t] # Null

\* A held block is live and registered.
HeldInv == \A p \in Blocks : held[p] # NoSize => p \in heap /\ allocationSizeMap_[p] = held[p]

\* A block in a thread's hands is live, nobody holds it, and it is in no other
\* thread's hands.
TransitInv ==
  /\ \A t \in Threads : ptr[t] # Null => ptr[t] \in heap /\ held[ptr[t]] = NoSize
  /\ \A t, u \in Threads : ptr[t] = ptr[u] /\ ptr[t] # Null => t = u

Free(t, m) == slabs[t][m].free

\* A parked block is live, neither held nor in a thread's hands, and in one
\* free list only.
ParkedInv ==
  /\ \A t \in Threads, m \in SlabSizes : \A p \in Free(t, m) :
       p \in heap /\ held[p] = NoSize /\ \A u \in Threads : ptr[u] # p
  /\ \A t, u \in Threads, m, n \in SlabSizes : \A p \in Free(t, m) \cap Free(u, n) : t = u /\ m = n

IInv == TypeOK /\ Locals /\ HeldInv /\ TransitInv /\ ParkedInv

LEMMA InitIInv == Init => IInv
<1> SUFFICES ASSUME Init
             PROVE  IInv
  OBVIOUS
<1>1. \A t \in Threads, m \in SlabSizes : Free(t, m) = {}
  BY DEF Init, PoolInit, Free, NewSlab
<1>2. NewSlab \in Slab
  BY SizeModAssumption DEF NewSlab, Slab
<1>3. TypeOK
  BY <1>2 DEF Init, PoolInit, TypeOK, PoolTypeOK, Sizes
<1>4. Locals /\ HeldInv /\ TransitInv
  BY DEF Init, PoolInit, Locals, HeldInv, TransitInv
<1>5. ParkedInv
  BY <1>1 DEF ParkedInv
<1> QED
  BY <1>3, <1>4, <1>5 DEF IInv

-----------------------------------------------------------------------------
(* The steps of the clients                                                *)

LEMMA AllocateMallocKeeps ==
  ASSUME NEW t \in Threads, NEW m \in Sizes, NEW p \in Blocks \cup {Null}, IInv, AllocateMalloc(t, m, p)
  PROVE  IInv'
<1>1. Malloc(t, m, p) /\ UNCHANGED <<held, allocationSizeMap_>>
  BY DEF AllocateMalloc, Malloc
<1>2. /\ slabs' \in [Threads -> [SlabSizes -> Slab]]
      /\ \A u \in Threads, n \in SlabSizes : Free(u, n)' = Free(u, n)
  BY <1>1, MallocSlabs DEF IInv, TypeOK, Free, FreeListsKept
<1>3. heap' = heap \cup ({p} \ {Null}) /\ p \notin heap
  BY <1>1, BlocksAssumption DEF Malloc, IInv, TypeOK, PoolTypeOK
<1>4. ptr[t] = Null /\ pc[t] = "idle"
  BY DEF AllocateMalloc, Goto, IInv, Locals
<1>5. \/ UNCHANGED <<pc, ptr, size>>
      \/ /\ pc' = [pc EXCEPT ![t] = "register"]
         /\ ptr' = [ptr EXCEPT ![t] = p]
         /\ size' = [size EXCEPT ![t] = m]
  BY DEF AllocateMalloc, Goto, Remember
<1>6. TypeOK'
  <2>1. PoolTypeOK'
    BY <1>1, <1>2, <1>3 DEF IInv, TypeOK, PoolTypeOK
  <2>2. held' \in [Blocks -> Sizes \cup {NoSize}]
    BY <1>1 DEF IInv, TypeOK
  <2>3. /\ pc' \in [Threads -> {"idle", "register", "give_back", "exited"}]
        /\ ptr' \in [Threads -> Blocks \cup {Null}]
        /\ size' \in [Threads -> Sizes \cup {NoSize}]
    BY <1>5 DEF IInv, TypeOK
  <2> QED
    BY <2>1, <2>2, <2>3 DEF TypeOK
<1>7. Locals'
  BY <1>5, <1>4 DEF IInv, TypeOK, Locals
<1>8. HeldInv'
  BY <1>1, <1>3 DEF IInv, HeldInv
<1>9. p \in Blocks => held[p] = NoSize
  BY <1>3 DEF IInv, HeldInv
<1>10. TransitInv'
  BY <1>1, <1>3, <1>4, <1>5, <1>9 DEF IInv, TypeOK, TransitInv
<1>11. ParkedInv'
  BY <1>1, <1>2, <1>3, <1>5 DEF IInv, TypeOK, ParkedInv
<1> QED
  BY <1>6, <1>7, <1>8, <1>10, <1>11 DEF IInv

LEMMA AllocateRegisterKeeps ==
  ASSUME NEW t \in Threads, IInv, AllocateRegister(t)
  PROVE  IInv'
<1>1. /\ UNCHANGED <<heap, slabs>>
      /\ pc' = [pc EXCEPT ![t] = "idle"]
      /\ ptr' = [ptr EXCEPT ![t] = Null]
      /\ size' = [size EXCEPT ![t] = NoSize]
      /\ allocationSizeMap_' = [allocationSizeMap_ EXCEPT ![ptr[t]] = size[t]]
      /\ held' = IF ptr[t] = Null THEN held ELSE [held EXCEPT ![ptr[t]] = size[t]]
  BY DEF AllocateRegister, Goto, Register, Entry, Forget
<1>2. TypeOK'
  BY <1>1, BlocksAssumption DEF IInv, TypeOK, PoolTypeOK
<1>3. Locals'
  BY <1>1 DEF IInv, TypeOK, Locals
<1>4. HeldInv'
  <2> SUFFICES ASSUME NEW p \in Blocks, held'[p] # NoSize
               PROVE  p \in heap' /\ allocationSizeMap_'[p] = held'[p]
    BY DEF HeldInv
  <2>1. CASE p = ptr[t]
    BY <1>1, <2>1, BlocksAssumption DEF IInv, TypeOK, PoolTypeOK, TransitInv
  <2>2. CASE p # ptr[t]
    BY <1>1, <2>2 DEF IInv, TypeOK, PoolTypeOK, HeldInv
  <2> QED
    BY <2>1, <2>2
<1>5. TransitInv'
  BY <1>1 DEF IInv, TypeOK, TransitInv
<1>6. ParkedInv'
  BY <1>1, BlocksAssumption DEF IInv, TypeOK, PoolTypeOK, ParkedInv, Free, Slab
<1> QED
  BY <1>2, <1>3, <1>4, <1>5, <1>6 DEF IInv

LEMMA DeallocateUnregisterKeeps ==
  ASSUME NEW t \in Threads, NEW p \in Blocks, IInv, DeallocateUnregister(t, p)
  PROVE  IInv'
<1>1. /\ UNCHANGED <<heap, slabs>>
      /\ held[p] # NoSize
      /\ pc[t] = "idle" /\ pc' = [pc EXCEPT ![t] = "give_back"]
      /\ ptr' = [ptr EXCEPT ![t] = p]
      /\ size' = [size EXCEPT ![t] = allocationSizeMap_[p]]
      /\ allocationSizeMap_' = [allocationSizeMap_ EXCEPT ![p] = NoSize]
      /\ held' = [held EXCEPT ![p] = NoSize]
  BY DEF DeallocateUnregister, Goto, Unregister, Remember
<1>2. TypeOK'
  BY <1>1 DEF IInv, TypeOK, PoolTypeOK
<1>3. Locals'
  BY <1>1, BlocksAssumption DEF IInv, TypeOK, Locals
<1>4. HeldInv'
  BY <1>1 DEF IInv, TypeOK, PoolTypeOK, HeldInv
<1>5. p \in heap /\ \A u \in Threads : ptr[u] # p
  BY <1>1, BlocksAssumption DEF IInv, HeldInv, TransitInv
<1>6. TransitInv'
  BY <1>1, <1>5 DEF IInv, TypeOK, TransitInv
<1>7. ParkedInv'
  BY <1>1 DEF IInv, TypeOK, PoolTypeOK, ParkedInv, Free, Slab
<1> QED
  BY <1>2, <1>3, <1>4, <1>6, <1>7 DEF IInv

LEMMA DeallocateGiveBackKeeps ==
  ASSUME NEW t \in Threads, IInv, DeallocateGiveBack(t)
  PROVE  IInv'
<1>0. ptr[t] \in Blocks /\ size[t] \in Sizes \cup {NoSize}
  BY DEF DeallocateGiveBack, Goto, IInv, TypeOK, Locals
<1>pm. PICK p \in Blocks, m \in Sizes \cup {NoSize} : p = ptr[t] /\ m = size[t]
  BY <1>0
<1>1. /\ GiveBack(t, m, p)
      /\ UNCHANGED held
      /\ pc[t] = "give_back" /\ pc' = [pc EXCEPT ![t] = "idle"]
      /\ ptr' = [ptr EXCEPT ![t] = Null]
      /\ size' = [size EXCEPT ![t] = NoSize]
  BY <1>pm DEF DeallocateGiveBack, Goto, Forget, GiveBack, FreeLarge, Park, MissingSlab
<1>2. p \in heap /\ held[p] = NoSize
  BY <1>pm, BlocksAssumption DEF IInv, TransitInv
<1>3. /\ slabs' \in [Threads -> [SlabSizes -> Slab]]
      /\ UNCHANGED allocationSizeMap_
      /\ \/ heap' \in {heap, heap \ {p}} /\ FreeListsKept
         \/ heap' = heap /\ PutInFreeList(t, m, p)
  BY <1>1, GiveBackSlabs DEF IInv, TypeOK
<1>4. TypeOK'
  BY <1>pm, <1>1, <1>3 DEF IInv, TypeOK, PoolTypeOK
<1>5. Locals'
  BY <1>pm, <1>1 DEF IInv, TypeOK, Locals
<1>6. HeldInv'
  BY <1>pm, <1>1, <1>2, <1>3 DEF IInv, HeldInv
<1>7. TransitInv'
  BY <1>pm, <1>1, <1>2, <1>3 DEF IInv, TypeOK, TransitInv
<1>8. \A u \in Threads : ptr'[u] # p
  BY <1>pm, <1>1, <1>2, BlocksAssumption DEF IInv, TypeOK, TransitInv
<1>9. \A u \in Threads, n \in SlabSizes : p \notin Free(u, n)
  BY <1>pm, <1>2 DEF IInv, ParkedInv
<1>10. \A u \in Threads, q \in Blocks : ptr[u] # q => ptr'[u] # q
  BY <1>pm, <1>1, BlocksAssumption DEF IInv, TypeOK
<1>11. ParkedInv'
  <2>1. CASE heap' \in {heap, heap \ {p}} /\ FreeListsKept
    BY <1>pm, <1>1, <1>9, <1>10, <2>1 DEF IInv, TypeOK, PoolTypeOK, ParkedInv, Free, Slab, FreeListsKept
  <2>2. CASE heap' = heap /\ PutInFreeList(t, m, p)
    <3>0. \A u \in Threads, n \in SlabSizes :
            Free(u, n)' = IF u = t /\ n = m THEN Free(u, n) \cup {p} ELSE Free(u, n)
      BY <2>2 DEF PutInFreeList, Free
    <3>1. \A u \in Threads, n \in SlabSizes : \A q \in Free(u, n)' :
            q \in heap' /\ held'[q] = NoSize /\ \A v \in Threads : ptr'[v] # q
      BY <1>pm, <1>1, <1>2, <1>8, <1>10, <2>2, <3>0 DEF IInv, TypeOK, PoolTypeOK, ParkedInv
    <3>2. \A u, v \in Threads, n, o \in SlabSizes : \A q \in Free(u, n)' \cap Free(v, o)' : u = v /\ n = o
      BY <1>pm, <1>9, <3>0 DEF IInv, ParkedInv
    <3> QED
      BY <3>1, <3>2 DEF ParkedInv
  <2> QED
    BY <1>3, <2>1, <2>2
<1> QED
  BY <1>4, <1>5, <1>6, <1>7, <1>11 DEF IInv

LEMMA DeletePastPoolKeeps ==
  ASSUME NEW t \in Threads, NEW p \in Blocks, IInv, DeletePastPool(t, p)
  PROVE  IInv'
<1>1. /\ held[p] # NoSize
      /\ held' = [held EXCEPT ![p] = NoSize]
      /\ heap' = heap \ {p}
      /\ UNCHANGED <<allocationSizeMap_, slabs, pc, ptr, size>>
  BY SizesAssumption DEF DeletePastPool
<1>2. TypeOK'
  BY <1>1 DEF IInv, TypeOK, PoolTypeOK
<1>3. Locals' /\ HeldInv' /\ TransitInv'
  BY <1>1 DEF IInv, TypeOK, Locals, HeldInv, TransitInv
<1>4. ParkedInv'
  BY <1>1 DEF IInv, TypeOK, PoolTypeOK, ParkedInv, Free, Slab
<1> QED
  BY <1>2, <1>3, <1>4 DEF IInv

LEMMA ExitKeeps ==
  ASSUME NEW t \in Threads, IInv, Exit(t)
  PROVE  IInv'
<1>1. /\ ExitSlabs(t)
      /\ pc[t] = "idle" /\ pc' = [pc EXCEPT ![t] = "exited"]
      /\ UNCHANGED <<allocationSizeMap_, held, ptr, size>>
  BY DEF Exit, Goto, ExitSlabs
<1>2. /\ slabs' \in [Threads -> [SlabSizes -> Slab]]
      /\ \A u \in Threads, n \in SlabSizes : Free(u, n)' = IF u = t THEN {} ELSE Free(u, n)
      /\ heap' \subseteq heap
      /\ \A p \in heap \ heap' : \E n \in SlabSizes : p \in Free(t, n)
  BY <1>1, ExitSlabsFree DEF IInv, TypeOK, Free
<1>3. TypeOK'
  BY <1>1, <1>2 DEF IInv, TypeOK, PoolTypeOK
<1>4. Locals'
  BY <1>1 DEF IInv, TypeOK, Locals
<1>5. HeldInv'
  BY <1>1, <1>2 DEF IInv, HeldInv, ParkedInv
<1>6. TransitInv'
  BY <1>1, <1>2 DEF IInv, TransitInv, ParkedInv
<1>7. ParkedInv'
  BY <1>1, <1>2 DEF IInv, ParkedInv
<1> QED
  BY <1>3, <1>4, <1>5, <1>6, <1>7 DEF IInv

LEMMA NextKeeps == IInv /\ [Next]_vars => IInv'
<1> SUFFICES ASSUME IInv, [Next]_vars
             PROVE  IInv'
  OBVIOUS
<1>1. CASE Next
  BY <1>1, AllocateMallocKeeps, AllocateRegisterKeeps, DeallocateUnregisterKeeps,
     DeallocateGiveBackKeeps, DeletePastPoolKeeps, ExitKeeps DEF Next
<1>2. CASE UNCHANGED vars
  BY <1>2 DEF vars, IInv, TypeOK, PoolTypeOK, Locals, HeldInv, TransitInv, ParkedInv, Free
<1> QED
  BY <1>1, <1>2

LEMMA Invariance == Spec => []IInv
  BY InitIInv, NextKeeps, PTL DEF Spec

-----------------------------------------------------------------------------

\* Every reachable state is well typed, the counters that wrap included
\* (object_pool.cpp:12-60).
THEOREM TypeCorrect == Spec => []TypeOK
<1>1. IInv => TypeOK
  BY DEF IInv
<1> QED
  BY <1>1, Invariance, PTL

\* However many threads allocate, hand over, return and delete blocks, a block
\* has one owner at most, and an owned block is live (object_pool.cpp:85-111).
THEOREM OneOwner == Spec => []BlocksHaveOneOwner
<1>1. IInv => BlocksHaveOneOwner
  <2> SUFFICES ASSUME IInv
               PROVE  BlocksHaveOneOwner
    OBVIOUS
  <2>1. \A p \in Parked : \E t \in Threads, m \in SlabSizes : p \in Free(t, m)
    BY DEF Parked, Free
  <2>2. \A p \in InTransit : \E t \in Threads : p = ptr[t] /\ p # Null
    BY DEF InTransit
  <2>3. Held \cup InTransit \cup Parked \subseteq heap
    BY <2>1, <2>2 DEF Held, IInv, HeldInv, TransitInv, ParkedInv
  <2>4. Held \cap InTransit = {} /\ Held \cap Parked = {} /\ InTransit \cap Parked = {}
    BY <2>1, <2>2 DEF Held, IInv, TransitInv, ParkedInv
  <2>5. \A t, u \in Threads : ptr[t] = ptr[u] /\ ptr[t] # Null => t = u
    BY DEF IInv, TransitInv
  <2>6. \A t, u \in Threads, m, n \in SlabSizes :
          <<t, m>> # <<u, n>> => slabs[t][m].free \cap slabs[u][n].free = {}
    BY DEF IInv, ParkedInv, Free
  <2> QED
    BY <2>3, <2>4, <2>5, <2>6 DEF BlocksHaveOneOwner
<1> QED
  BY <1>1, Invariance, PTL

\* deallocate finds every block that is held in the map, with the size it was
\* allocated with (object_pool.cpp:79, 91-98).
THEOREM Registered == Spec => []HeldBlocksAreRegistered
<1>1. IInv => HeldBlocksAreRegistered
  BY DEF IInv, HeldInv, HeldBlocksAreRegistered, Held
<1> QED
  BY <1>1, Invariance, PTL
=============================================================================
