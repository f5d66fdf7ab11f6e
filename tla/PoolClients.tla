---------------------------- MODULE PoolClients ----------------------------
(***************************************************************************)
(* Threads that allocate blocks from the pool, pass them to each other and *)
(* give them back: a value is allocated by one worker and replaced by      *)
(* another (engine.cpp:28-32), an OverlappedEx is allocated by a worker    *)
(* and returned by the reactor thread (connection.cpp:51, 19, 33).         *)
(***************************************************************************)
EXTENDS ObjectPool

VARIABLES held,  \* held[p]: the size p was asked for, or NoSize if nobody has p
          pc,    \* "idle", "register" or "give_back", or "exited"
          ptr,   \* the local variable of each thread's call
          size   \* the local variable m of each thread's call

vars == <<heap, allocationSizeMap_, slabs, held, pc, ptr, size>>

TypeOK == /\ PoolTypeOK
          /\ held \in [Blocks -> Sizes \cup {NoSize}]
          /\ pc \in [Threads -> {"idle", "register", "give_back", "exited"}]
          /\ ptr \in [Threads -> Blocks \cup {Null}]
          /\ size \in [Threads -> Sizes \cup {NoSize}]

Init == /\ PoolInit
        /\ held = [p \in Blocks |-> NoSize]
        /\ pc = [t \in Threads |-> "idle"]
        /\ ptr = [t \in Threads |-> Null]
        /\ size = [t \in Threads |-> NoSize]

Goto(t, from, to) == pc[t] = from /\ pc' = [pc EXCEPT ![t] = to]

Forget(t) == /\ ptr' = [ptr EXCEPT ![t] = Null]
             /\ size' = [size EXCEPT ![t] = NoSize]

Remember(t, p, m) == /\ ptr' = [ptr EXCEPT ![t] = p]
                     /\ size' = [size EXCEPT ![t] = m]

\* ObjectPool::allocate: malloc, then register
AllocateMalloc(t, m, p) ==
  /\ Malloc(t, m, p)
  /\ IF Registers(m, p) THEN Goto(t, "idle", "register") /\ Remember(t, p, m)
                        ELSE pc[t] = "idle" /\ UNCHANGED <<pc, ptr, size>>
  /\ UNCHANGED held

AllocateRegister(t) ==
  /\ Goto(t, "register", "idle")
  /\ Register(size[t], ptr[t])
  /\ held' = IF ptr[t] = Null THEN held ELSE [held EXCEPT ![ptr[t]] = size[t]]
  /\ Forget(t)

\* ObjectPool::deallocate, of a block that some thread has and this one returns
DeallocateUnregister(t, p) ==
  /\ held[p] # NoSize
  /\ Goto(t, "idle", "give_back")
  /\ Unregister(p)
  /\ Remember(t, p, allocationSizeMap_[p])
  /\ held' = [held EXCEPT ![p] = NoSize]

DeallocateGiveBack(t) ==
  /\ Goto(t, "give_back", "idle")
  /\ GiveBack(t, size[t], ptr[t])
  /\ Forget(t)
  /\ UNCHANGED held

\* An I/O operation fails: the OverlappedEx is released with operator delete,
\* past the pool, and stays registered (connection.cpp:78, 135, reactor.cpp:115)
DeletePastPool(t, p) ==
  /\ pc[t] = "idle"
  /\ held[p] \in SlabSizes
  /\ held' = [held EXCEPT ![p] = NoSize]
  /\ heap' = heap \ {p}
  /\ UNCHANGED <<allocationSizeMap_, slabs, pc, ptr, size>>

Exit(t) ==
  /\ Goto(t, "idle", "exited")
  /\ ExitSlabs(t)
  /\ UNCHANGED <<held, ptr, size>>

Next == \E t \in Threads :
          \/ \E m \in Sizes, p \in Blocks \cup {Null} : AllocateMalloc(t, m, p)
          \/ AllocateRegister(t)
          \/ \E p \in Blocks : DeallocateUnregister(t, p) \/ DeletePastPool(t, p)
          \/ DeallocateGiveBack(t)
          \/ Exit(t)

Spec == Init /\ [][Next]_vars

-----------------------------------------------------------------------------

Held == {p \in Blocks : held[p] # NoSize}
InTransit == {ptr[t] : t \in Threads} \ {Null}

\* A block has one owner at most, and the owner's block is live: whoever
\* allocates, a client, a thread inside the pool or a free list, although
\* the map entry, the heap and the slabs are updated in separate steps and a
\* freed address can be handed out again at once (object_pool.cpp:85-111).
BlocksHaveOneOwner ==
  /\ Held \cup InTransit \cup Parked \subseteq heap
  /\ Held \cap InTransit = {} /\ Held \cap Parked = {} /\ InTransit \cap Parked = {}
  /\ \A t, u \in Threads : ptr[t] = ptr[u] /\ ptr[t] # Null => t = u
  /\ \A t, u \in Threads, m, n \in SlabSizes :
       <<t, m>> # <<u, n>> => slabs[t][m].free \cap slabs[u][n].free = {}

\* The map tells the size a held block was allocated with, so deallocate
\* neither misses the block nor gives it to the wrong allocator, although
\* entries of blocks deleted past the pool stay behind and their addresses
\* come back (object_pool.cpp:79, 91-98).
HeldBlocksAreRegistered ==
  \A p \in Held : allocationSizeMap_[p] = held[p]

\* "Return to the memory pool" (connection.cpp:19, 33): a block that is given
\* back is parked in a free list or freed, so every live block has an owner.
BlocksReturnToThePool ==
  heap = Held \cup InTransit \cup Parked
=============================================================================
