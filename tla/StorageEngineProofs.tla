------------------------ MODULE StorageEngineProofs ------------------------
(***************************************************************************)
(* Proofs about StorageEngine, for any threads, keys, values, addresses    *)
(* and slab sizes, and for any number of calls.                            *)
(***************************************************************************)
EXTENDS StorageEngine, ObjectPoolProofs, SequenceTheorems, WellFoundedInduction

-----------------------------------------------------------------------------
(* The inductive invariant                                                 *)

Results == Values \cup {Garbage, Missing} \cup BOOLEAN

Frames == [pc : Labels, request : Abstract!Calls \cup {NoCall},
           newMeta : Blocks \cup {Null}, oldMeta : Blocks \cup {Null},
           size : Sizes \cup {NoSize}, result : Results]

Typed == TypeOK /\ local \in [Threads -> Frames]

\* Where put and remove hold the lock; at "return" they still hold it.
PutLocked == {"p_malloc", "p_register", "p_copy", "p_lookup",
              "p_unregister", "p_give_back", "p_index", "p_append"}
RemoveLocked == {"r_lookup", "r_index", "r_unregister", "r_give_back", "r_append"}
Locked == PutLocked \cup RemoveLocked

LockInv == \A t \in Threads : /\ pc(t) \in Locked => engineRWLock_ = t
                              /\ engineRWLock_ = t => pc(t) \in Locked \cup {"return"}

\* What a thread is doing is what it has been called for.
RequestInv ==
  \A t \in Threads :
    /\ pc(t) = "idle" => local[t] = Idle
    /\ pc(t) \notin {"idle", "return"} => local[t].result = Missing
    /\ pc(t) \in {"p_lock"} \cup PutLocked => local[t].request \in Abstract!Puts
    /\ pc(t) \in {"r_lock"} \cup RemoveLocked => local[t].request \in Abstract!Removes
    /\ pc(t) \in {"g_lookup", "g_copy"} => local[t].request \in Abstract!Gets
    /\ pc(t) = "return" => local[t].request \in Abstract!Calls
    /\ t \in dangling => pc(t) \in {"g_copy", "return"}

\* No free list has a block that has been given back to the system.
ParkedInv == \A p \in Blocks : p \notin heap => NotParked(p)

Copied == {"p_lookup", "p_unregister", "p_give_back", "p_index"}

\* The block of a put, until the index has it: it is live, registered before
\* the value is copied, no key has it, and nothing writes over the value.
NewInv ==
  \A t \in Threads :
    /\ pc(t) \in {"p_register", "p_copy"} \cup Copied /\ newMeta(t) # Null =>
         newMeta(t) \in heap /\ NotParked(newMeta(t)) /\ \A k \in Keys : index[k] # newMeta(t)
    /\ pc(t) \in {"p_copy"} \cup Copied /\ newMeta(t) # Null =>
         allocationSizeMap_[newMeta(t)] # NoSize
    /\ pc(t) \in Copied => newMeta(t) # Null /\ memory[newMeta(t)] = Val(t)

\* The block that a put or a remove replaces: its key's, and live until it is
\* given back.
OldInv ==
  \A t \in Threads :
    /\ pc(t) \in {"p_unregister", "p_give_back", "p_index", "r_index"} =>
         oldMeta(t) = index[Key(t)]
    /\ pc(t) \in {"p_unregister", "p_give_back", "r_index", "r_unregister", "r_give_back"} =>
         oldMeta(t) # Null
    /\ pc(t) \in {"p_give_back", "r_unregister", "r_give_back"} =>
         oldMeta(t) \in heap /\ NotParked(oldMeta(t))
    /\ pc(t) \in {"r_unregister", "r_give_back"} => \A k \in Keys : index[k] # oldMeta(t)

Replacing(p) == \E t \in Threads : pc(t) \in {"p_give_back", "p_index"} /\ oldMeta(t) = p

IndexInv ==
  /\ \A k \in Keys : index[k] # Null =>
       /\ memory[index[k]] \in Values
       /\ \/ Replacing(index[k])
          \/ index[k] \in heap /\ NotParked(index[k]) /\ allocationSizeMap_[index[k]] # NoSize
  /\ \A j, k \in Keys : index[j] = index[k] /\ index[j] # Null => j = k

\* The block that a get copies from is live unless the get is in dangling; an
\* update can give it back only if the key is the same, and no put has it.
GetInv ==
  \A u \in Threads : pc(u) = "g_copy" /\ u \notin dangling =>
    /\ newMeta(u) \in heap
    /\ \A k \in Keys : index[k] = newMeta(u) => k = Key(u)
    /\ \A t \in Threads :
         /\ pc(t) \in {"p_register", "p_copy"} \cup Copied => newMeta(t) # newMeta(u)
         /\ pc(t) \in {"r_unregister", "r_give_back"} /\ oldMeta(t) = newMeta(u) =>
              Key(t) = Key(u)

\* The log replays to the index, except for the key of the update whose record
\* is still to be appended.  A put of the empty string would be replayed as a
\* removal.
LogInv ==
  Empty \notin SmallValues =>
    /\ (\A t \in Threads : pc(t) \notin Logging) => \A k \in Keys : Replayed(log, k) = Stored(k)
    /\ \A t \in Threads : pc(t) \in Logging =>
         /\ Stored(Key(t)) = IF pc(t) = "p_append" THEN Val(t) ELSE Missing
         /\ \A k \in Keys \ {Key(t)} : Replayed(log, k) = Stored(k)

IInv == /\ Typed /\ LockInv /\ RequestInv /\ ParkedInv /\ NewInv
        /\ OldInv /\ IndexInv /\ GetInv /\ LogInv

-----------------------------------------------------------------------------
(* The log                                                                 *)

LEMMA HasLargest ==
  ASSUME NEW n \in Nat, NEW S \in SUBSET (1 .. n), S # {}
  PROVE  \E i \in S : \A j \in S : j <= i
<1> DEFINE T == {n - i : i \in S}
           R == OpToRel(<, Nat)
<1>1. T \subseteq Nat /\ T # {}
  <2>1. \A i \in S : n - i \in Nat
    OBVIOUS
  <2>2. T \subseteq Nat
    BY <2>1
  <2>3. PICK i \in S : TRUE
    OBVIOUS
  <2>4. n - i \in T
    BY <2>3
  <2> QED
    BY <2>2, <2>4
<1>2. IsWellFoundedOn(R, Nat)
  BY NatLessThanWellFounded
<1>3. \E x \in T : \A y \in T : <<y, x>> \notin R
  <2> HIDE DEF T, R
  <2> QED
    BY <1>1, <1>2, WFMin
<1>4. PICK x \in T : \A y \in T : ~(y < x)
  BY <1>1, <1>3 DEF OpToRel
<1>5. PICK i \in S : x = n - i
  BY <1>4
<1>6. \A j \in S : n - j \in T
  OBVIOUS
<1>7. \A j \in S : ~(n - j < n - i)
  BY <1>4, <1>5, <1>6
<1>8. \A j \in S : j <= i
  BY <1>7
<1> QED
  BY <1>5, <1>8

Record == [key : Keys, val : Values \cup {Empty}]

\* A new record is the last one of its key and leaves the other keys theirs.
LEMMA ReplayOfAppend ==
  ASSUME NEW records \in Seq(Record), NEW r \in Record, NEW k
  PROVE  Replayed(Append(records, r), k) =
           IF k = r.key THEN IF r.val = Empty THEN Missing ELSE r.val
                        ELSE Replayed(records, k)
<1> DEFINE new == Append(records, r)
           n == Len(records)
           old(s) == {i \in 1 .. Len(s) : s[i].key = k}
<1>1. /\ n \in Nat /\ Len(new) = n + 1 /\ new[n + 1] = r
      /\ \A i \in 1 .. n : new[i] = records[i]
  BY AppendProperties, LenProperties
<1> HIDE DEF new, n
<1>2. CASE k = r.key
  <2>1. n + 1 \in old(new) /\ \A i \in old(new) : i \in 1 .. n + 1
    BY <1>1, <1>2
  <2>2. (CHOOSE i \in old(new) : \A j \in old(new) : j <= i) = n + 1
    BY <1>1, <2>1
  <2>3. LastRecord(new, k) = r.val
    BY <1>1, <2>1, <2>2 DEF LastRecord
  <2> QED
    BY <1>2, <2>3, MissingAssumption DEF Replayed, new
<1>3. CASE k # r.key
  <2>1. old(new) = old(records)
    BY <1>1, <1>3 DEF n
  <2>2. CASE old(records) = {}
    BY <2>1, <2>2 DEF LastRecord, Replayed, new
  <2>3. CASE old(records) # {}
    <3> DEFINE last == CHOOSE i \in old(records) : \A j \in old(records) : j <= i
    <3>1. last \in old(records)
      <4>1. \E i \in old(records) : \A j \in old(records) : j <= i
        BY <1>1, <2>3, HasLargest DEF n
      <4> QED
        BY <4>1
    <3>2. LastRecord(records, k) = records[last].val
      BY <2>3 DEF LastRecord
    <3>3. LastRecord(new, k) = new[last].val
      BY <2>1, <2>3 DEF LastRecord
    <3>4. new[last] = records[last]
      BY <1>1, <3>1 DEF n
    <3> QED
      BY <1>3, <3>2, <3>3, <3>4 DEF Replayed, new
  <2> QED
    BY <2>2, <2>3
<1> QED
  BY <1>2, <1>3

-----------------------------------------------------------------------------
(* Every step keeps IInv: a lemma for each action or for actions that are  *)
(* alike, and in it a step for each conjunct.  That one thread at most is  *)
(* inside the lock is what keeps the conjuncts about the others' blocks.   *)

\* The names of the fields of a frame stand for the fields everywhere below.
USE DEF pc, Key, Val, newMeta, oldMeta

\* What TypeOK says of the locals.
LEMMA FramesAreTyped ==
  ASSUME NEW frames \in [Threads -> Frames], NEW t \in Threads
  PROVE  /\ frames[t].pc \in Labels
         /\ {frames[t].newMeta, frames[t].oldMeta} \subseteq Blocks \cup {Null}
         /\ frames[t].size \in Sizes \cup {NoSize}
  BY DEF Frames

LEMMA FrameUpdates ==
  ASSUME NEW frame \in Frames
  PROVE  /\ \A to \in Labels :
              /\ [frame EXCEPT !.pc = to] \in Frames
              /\ \A c \in Abstract!Calls : [frame EXCEPT !.pc = to, !.request = c] \in Frames
              /\ \A p \in Blocks \cup {Null} :
                   /\ [frame EXCEPT !.pc = to, !.newMeta = p] \in Frames
                   /\ [frame EXCEPT !.pc = to, !.oldMeta = p] \in Frames
              /\ \A m \in Sizes \cup {NoSize} : [frame EXCEPT !.pc = to, !.size = m] \in Frames
         /\ \A r \in Results : [frame EXCEPT !.pc = "return", !.result = r] \in Frames
<1>1. "return" \in Labels
  BY DEF Labels
<1> QED
  BY <1>1, ZenonT(30) DEF Frames

\* What a thread inside a call has been called with.
LEMMA Requests ==
  ASSUME NEW t \in Threads, IInv
  PROVE  /\ pc(t) \in {"p_lock"} \cup PutLocked => Key(t) \in Keys /\ Val(t) \in Values
         /\ pc(t) \in {"r_lock"} \cup RemoveLocked \cup {"g_lookup", "g_copy"} => Key(t) \in Keys
<1>1. \A c \in Abstract!Puts : c.key \in Keys /\ c.val \in Values
  BY DEF Abstract!Puts
<1>2. \A c \in Abstract!Gets \cup Abstract!Removes : c.key \in Keys
  BY DEF Abstract!Gets, Abstract!Removes
<1> QED
  BY <1>1, <1>2 DEF IInv, RequestInv

LEMMA OneThreadInside ==
  ASSUME NEW t \in Threads, IInv, pc(t) \in Locked
  PROVE  \A u \in Threads \ {t} : pc(u) \notin Locked
  BY DEF IInv, LockInv

LEMMA InitIInv == Init => IInv
<1> SUFFICES ASSUME Init
             PROVE  IInv
  OBVIOUS
<1>1. NewSlab \in Slab /\ NewSlab.free = {}
  BY SizeModAssumption DEF NewSlab, Slab
<1>2. PoolTypeOK /\ \A p \in Blocks : NotParked(p)
  BY <1>1 DEF Init, PoolInit, PoolTypeOK, NotParked
<1>3. local \in [Threads -> Frames]
  BY DEF Init, Idle, Frames, Labels, Results
<1>4. Typed
  BY <1>2, <1>3, FramesAreTyped, UpdatesAssumption DEF Init, Typed, TypeOK
<1>5. LockInv /\ RequestInv
  BY ThreadsAssumption DEF Init, Idle, LockInv, RequestInv, Locked, PutLocked, RemoveLocked
<1>6. ParkedInv /\ NewInv /\ OldInv /\ GetInv
  BY <1>2 DEF Init, Idle, ParkedInv, NewInv, OldInv, GetInv, Copied
<1>7. IndexInv
  BY DEF Init, IndexInv
<1>8. LogInv
  BY DEF Init, Idle, LogInv, Logging, Replayed, LastRecord, Stored
<1> QED
  BY <1>4, <1>5, <1>6, <1>7, <1>8 DEF IInv

LEMMA PutMallocKeeps ==
  ASSUME NEW t \in Threads, NEW p \in Blocks \cup {Null}, IInv, PutMalloc(t, p)
  PROVE  IInv'
<1>1. /\ pc(t) = "p_malloc"
      /\ local' = [local EXCEPT ![t] = [local[t] EXCEPT !.pc = "p_register", !.newMeta = p]]
      /\ memory' = [q \in Blocks |-> IF q = p THEN Garbage ELSE memory[q]]
      /\ Malloc(t, SizeOf(Val(t)), p)
      /\ UNCHANGED <<engineRWLock_, index, log, dangling, updates>>
  BY DEF PutMalloc, Step
<1>2. /\ local' \in [Threads -> Frames]
      /\ \A u \in Threads \ {t} : local'[u] = local[u]
  <2> DEFINE frame == [local[t] EXCEPT !.pc = "p_register", !.newMeta = p]
  <2>1. frame \in Frames
    BY DEF IInv, Typed, Frames, Labels
  <2> HIDE DEF frame
  <2> QED
    BY <1>1, <2>1 DEF IInv, Typed, frame
<1>3. SizeOf(Val(t)) \in Sizes
  BY SmallSizeAssumption DEF SizeOf, Sizes
<1>4. slabs' \in [Threads -> [SlabSizes -> Slab]] /\ FreeListsKept
  <2> PICK m \in Sizes : m = SizeOf(Val(t))
    BY <1>3
  <2> QED
    BY <1>1, MallocSlabs DEF IInv, Typed, TypeOK
<1>5. /\ heap' = heap \cup ({p} \ {Null}) /\ p \notin heap
      /\ UNCHANGED allocationSizeMap_
  BY <1>1, BlocksAssumption DEF Malloc, IInv, Typed, TypeOK, PoolTypeOK
<1>6. \A q : NotParked(q)' <=> NotParked(q)
  BY <1>4 DEF NotParked, FreeListsKept
<1>7. Typed'
  <2>1. PoolTypeOK'
    BY <1>4, <1>5 DEF IInv, Typed, TypeOK, PoolTypeOK
  <2>2. memory' \in [Blocks -> Values \cup {Garbage}]
    BY <1>1 DEF IInv, Typed, TypeOK
  <2> QED
    BY <1>1, <1>2, <2>1, <2>2, FramesAreTyped DEF IInv, Typed, TypeOK
<1>8. LockInv'
  BY <1>1, <1>2 DEF IInv, Typed, Frames, LockInv, Locked, PutLocked, RemoveLocked
<1>9. RequestInv'
  BY <1>1, <1>2 DEF IInv, Typed, Frames, RequestInv, Locked, PutLocked, RemoveLocked
<1>10. ParkedInv'
  BY <1>5, <1>6 DEF IInv, ParkedInv
<1>11. \A u \in Threads \ {t} : pc(u) \notin Locked
  BY <1>1 DEF IInv, LockInv, Locked, PutLocked
<1>12. \A k \in Keys : index[k] # Null => index[k] \in heap
  BY <1>1, <1>11 DEF IInv, IndexInv, Replacing, Locked, PutLocked
<1>13. NewInv'
  BY <1>1, <1>2, <1>5, <1>6, <1>11, <1>12
     DEF IInv, Typed, Frames, NewInv, ParkedInv, Locked, PutLocked, Copied
<1>14. OldInv'
  BY <1>1, <1>2, <1>5, <1>6 DEF IInv, Typed, Frames, OldInv
<1>15. IndexInv'
  BY <1>1, <1>2, <1>5, <1>6, <1>12, SMTT(30) DEF IInv, Typed, TypeOK, Frames, IndexInv, Replacing
<1>16. GetInv'
  BY <1>1, <1>2, <1>5, <1>11 DEF IInv, Typed, TypeOK, Frames, GetInv, Copied
<1>17. \A k \in Keys : Stored(k)' = Stored(k)
  BY <1>1, <1>5, <1>12 DEF IInv, Typed, TypeOK, Stored
<1>18. LogInv'
  BY <1>1, <1>2, <1>11, <1>17
     DEF IInv, Typed, Frames, LogInv, Logging, Locked, PutLocked, RemoveLocked
<1> QED
  BY <1>7, <1>8, <1>9, <1>10, <1>13, <1>14, <1>15, <1>16, <1>18 DEF IInv

\* A call begins at the label of its operation.
LEMMA CallKeeps ==
  ASSUME NEW t \in Threads, NEW op, NEW k, NEW v, NEW to, IInv, Call(t, op, k, v, to),
         updates' \in 0 .. MaxUpdates,
         \/ to = "p_lock" /\ [op |-> op, key |-> k, val |-> v] \in Abstract!Puts
         \/ to = "r_lock" /\ [op |-> op, key |-> k, val |-> v] \in Abstract!Removes
         \/ to = "g_lookup" /\ [op |-> op, key |-> k, val |-> v] \in Abstract!Gets
  PROVE  IInv'
<1> DEFINE c == [op |-> op, key |-> k, val |-> v]
<1>1. /\ pc(t) = "idle"
      /\ local' = [local EXCEPT ![t] = [local[t] EXCEPT !.pc = to, !.request = c]]
      /\ UNCHANGED <<poolVars, index, memory, engineRWLock_, log, dangling>>
  BY DEF Call, Step
<1>2. \/ to = "p_lock" /\ c \in Abstract!Puts
      \/ to = "r_lock" /\ c \in Abstract!Removes
      \/ to = "g_lookup" /\ c \in Abstract!Gets
  OBVIOUS
<1> HIDE DEF c
<1>3. to \in Labels /\ c \in Abstract!Calls
  BY <1>2 DEF Labels, Abstract!Calls
<1>4. /\ local' \in [Threads -> Frames]
      /\ \A u \in Threads \ {t} : local'[u] = local[u]
  <2> DEFINE frame == [local[t] EXCEPT !.pc = to, !.request = c]
  <2>1. frame \in Frames
    BY <1>3, FrameUpdates DEF IInv, Typed
  <2> HIDE DEF frame
  <2> QED
    BY <1>1, <2>1 DEF IInv, Typed, frame
<1>5. Typed'
  BY <1>1, <1>4, FramesAreTyped DEF IInv, Typed, TypeOK, PoolTypeOK, poolVars
<1>6. LockInv'
  BY <1>1, <1>2, <1>4, ThreadsAssumption
     DEF IInv, Typed, TypeOK, Frames, LockInv, Locked, PutLocked, RemoveLocked
<1>7. RequestInv'
  BY <1>1, <1>2, <1>4
     DEF IInv, Typed, TypeOK, Frames, RequestInv, Locked, PutLocked, RemoveLocked, Idle
<1>8. ParkedInv'
  BY <1>1 DEF IInv, ParkedInv, NotParked, poolVars
<1>9. NewInv'
  BY <1>1, <1>2, <1>4 DEF IInv, Typed, TypeOK, Frames, NewInv, Copied, NotParked, poolVars
<1>10. OldInv'
  BY <1>1, <1>2, <1>4 DEF IInv, Typed, TypeOK, Frames, OldInv, NotParked, poolVars
<1>11. IndexInv'
  BY <1>1, <1>2, <1>4 DEF IInv, Typed, TypeOK, Frames, IndexInv, Replacing, NotParked, poolVars
<1>12. GetInv'
  BY <1>1, <1>2, <1>4 DEF IInv, Typed, TypeOK, Frames, GetInv, Copied, poolVars
<1>13. \A j : Stored(j)' = Stored(j)
  BY <1>1 DEF Stored
<1>14. LogInv'
  BY <1>1, <1>2, <1>4, <1>13 DEF IInv, Typed, Frames, LogInv, Logging
<1> QED
  BY <1>5, <1>6, <1>7, <1>8, <1>9, <1>10, <1>11, <1>12, <1>14 DEF IInv

LEMMA CallsKeep ==
  ASSUME NEW t \in Threads, NEW k \in Keys, IInv,
         (\E v \in Values : PutCall(t, k, v)) \/ GetCall(t, k) \/ RemoveCall(t, k)
  PROVE  IInv'
<1>1. updates' \in 0 .. MaxUpdates
  BY UpdatesAssumption DEF PutCall, GetCall, RemoveCall, UpdateCall, IInv, Typed, TypeOK
<1>2. ASSUME NEW v \in Values, PutCall(t, k, v)
      PROVE  IInv'
  <2>1. [op |-> "put", key |-> k, val |-> v] \in Abstract!Puts
    BY DEF Abstract!Puts
  <2> QED
    BY <1>1, <1>2, <2>1, CallKeeps DEF PutCall, UpdateCall
<1>3. CASE GetCall(t, k)
  <2>1. [op |-> "get", key |-> k, val |-> Missing] \in Abstract!Gets
    BY DEF Abstract!Gets
  <2> QED
    BY <1>1, <1>3, <2>1, CallKeeps DEF GetCall
<1>4. CASE RemoveCall(t, k)
  <2>1. [op |-> "remove", key |-> k, val |-> Missing] \in Abstract!Removes
    BY DEF Abstract!Removes
  <2> QED
    BY <1>1, <1>4, <2>1, CallKeeps DEF RemoveCall, UpdateCall
<1> QED
  BY <1>2, <1>3, <1>4

LEMMA LockKeeps ==
  ASSUME NEW t \in Threads, IInv, PutLock(t) \/ RemoveLock(t)
  PROVE  IInv'
<1> PICK to :
      /\ \/ pc(t) = "p_lock" /\ to = "p_malloc"
         \/ pc(t) = "r_lock" /\ to = "r_lookup"
      /\ local' = [local EXCEPT ![t] = [local[t] EXCEPT !.pc = to]]
      /\ engineRWLock_ = Free /\ engineRWLock_' = t
      /\ UNCHANGED <<poolVars, index, memory, log, dangling, updates>>
  BY DEF PutLock, RemoveLock, Lock, Goto, Step
<1>1. /\ local' \in [Threads -> Frames]
      /\ \A u \in Threads \ {t} : local'[u] = local[u]
  <2> DEFINE frame == [local[t] EXCEPT !.pc = to]
  <2>1. frame \in Frames
    BY FrameUpdates, Requests DEF IInv, Typed, TypeOK, Labels, PutLocked, RemoveLocked
  <2> HIDE DEF frame
  <2> QED
    BY <2>1 DEF IInv, Typed, frame
<1>2. Typed'
  BY <1>1, FramesAreTyped DEF IInv, Typed, TypeOK, PoolTypeOK, poolVars
<1>3. LockInv'
  BY <1>1, ThreadsAssumption
     DEF IInv, Typed, TypeOK, Frames, LockInv, Locked, PutLocked, RemoveLocked
<1>4. RequestInv'
  BY <1>1 DEF IInv, Typed, TypeOK, Frames, RequestInv, Locked, PutLocked, RemoveLocked
<1>5. ParkedInv'
  BY DEF IInv, ParkedInv, NotParked, poolVars
<1>6. NewInv'
  BY <1>1 DEF IInv, Typed, TypeOK, Frames, NewInv, Copied, NotParked, poolVars
<1>7. OldInv'
  BY <1>1 DEF IInv, Typed, TypeOK, Frames, OldInv, NotParked, poolVars
<1>8. IndexInv'
  BY <1>1 DEF IInv, Typed, TypeOK, Frames, IndexInv, Replacing, NotParked, poolVars
<1>9. GetInv'
  BY <1>1 DEF IInv, Typed, TypeOK, Frames, GetInv, Copied, poolVars
<1>10. \A k : Stored(k)' = Stored(k)
  BY DEF Stored
<1>11. LogInv'
  BY <1>1, <1>10 DEF IInv, Typed, Frames, LogInv, Logging
<1> QED
  BY <1>2, <1>3, <1>4, <1>5, <1>6, <1>7, <1>8, <1>9, <1>11 DEF IInv

LEMMA PutRegisterKeeps ==
  ASSUME NEW t \in Threads, IInv, PutRegister(t)
  PROVE  IInv'
<1>1. /\ pc(t) = "p_register"
      /\ local' = [local EXCEPT ![t] = [local[t] EXCEPT !.pc = "p_copy"]]
      /\ \/ newMeta(t) = Null /\ UNCHANGED allocationSizeMap_
         \/ allocationSizeMap_' = [allocationSizeMap_ EXCEPT ![newMeta(t)] = SizeOf(Val(t))]
      /\ UNCHANGED <<heap, slabs, index, memory, engineRWLock_, log, dangling, updates>>
  BY DEF PutRegister, Goto, Step, Registers, Register, Entry, poolVars
<1>2. \A u \in Threads \ {t} : pc(u) \notin Locked
  BY <1>1, OneThreadInside DEF Locked, PutLocked, RemoveLocked
<1>3. SizeOf(Val(t)) \in Sizes /\ SizeOf(Val(t)) # NoSize
  BY SmallSizeAssumption, SizesAssumption DEF SizeOf, Sizes
<1>4. /\ allocationSizeMap_' \in [Blocks \cup {Null} -> Sizes \cup {NoSize}]
      /\ \A p \in Blocks : allocationSizeMap_[p] # NoSize => allocationSizeMap_'[p] # NoSize
      /\ newMeta(t) # Null => allocationSizeMap_'[newMeta(t)] # NoSize
  BY <1>1, <1>3 DEF IInv, Typed, TypeOK, PoolTypeOK, Frames
<1>5. /\ local' \in [Threads -> Frames]
      /\ \A u \in Threads \ {t} : local'[u] = local[u]
  <2> DEFINE frame == [local[t] EXCEPT !.pc = "p_copy"]
  <2>1. frame \in Frames
    BY FrameUpdates, Requests DEF IInv, Typed, TypeOK, Labels, PutLocked, RemoveLocked
  <2> HIDE DEF frame
  <2> QED
    BY <1>1, <2>1 DEF IInv, Typed, frame
<1>6. Typed'
  <2>1. PoolTypeOK'
    BY <1>1, <1>4 DEF IInv, Typed, TypeOK, PoolTypeOK
  <2> QED
    BY <1>1, <1>5, <2>1, FramesAreTyped DEF IInv, Typed, TypeOK
<1>7. LockInv'
  BY <1>1, <1>5, ThreadsAssumption
     DEF IInv, Typed, TypeOK, Frames, LockInv, Locked, PutLocked, RemoveLocked
<1>8. RequestInv'
  BY <1>1, <1>5 DEF IInv, Typed, TypeOK, Frames, RequestInv, Locked, PutLocked, RemoveLocked
<1>9. ParkedInv'
  BY <1>1 DEF IInv, ParkedInv, NotParked, poolVars
<1>10. NewInv'
  BY <1>1, <1>4, <1>5 DEF IInv, Typed, TypeOK, Frames, NewInv, Copied, NotParked
<1>11. OldInv'
  BY <1>1, <1>2, <1>5
     DEF IInv, Typed, TypeOK, Frames, OldInv, NotParked, poolVars, Locked, PutLocked,
         RemoveLocked
<1>12. IndexInv'
  BY <1>1, <1>4, <1>5 DEF IInv, Typed, TypeOK, Frames, IndexInv, Replacing, NotParked
<1>13. GetInv'
  BY <1>1, <1>2, <1>5
     DEF IInv, Typed, TypeOK, Frames, GetInv, Copied, poolVars, Locked, PutLocked, RemoveLocked
<1>14. \A k : Stored(k)' = Stored(k)
  BY <1>1 DEF Stored
<1>15. LogInv'
  BY <1>1, <1>2, <1>5, <1>14
     DEF IInv, Typed, Frames, LogInv, Logging, Locked, PutLocked, RemoveLocked
<1> QED
  BY <1>6, <1>7, <1>8, <1>9, <1>10, <1>11, <1>12, <1>13, <1>15 DEF IInv

LEMMA PutCopyKeeps ==
  ASSUME NEW t \in Threads, IInv, PutCopy(t)
  PROVE  IInv'
<1>1. /\ pc(t) = "p_copy"
      /\ local' = [local EXCEPT ![t] = [local[t] EXCEPT !.pc = "p_lookup"]]
      /\ newMeta(t) # Null
      /\ memory' = [memory EXCEPT ![newMeta(t)] = Val(t)]
      /\ UNCHANGED <<poolVars, index, engineRWLock_, log, dangling, updates>>
  BY DEF PutCopy, Goto, Step
<1>2. \A u \in Threads \ {t} : pc(u) \notin Locked
  BY <1>1, OneThreadInside DEF Locked, PutLocked, RemoveLocked
<1>3. Val(t) \in Values
  BY <1>1, Requests DEF PutLocked
<1>4. /\ newMeta(t) \in Blocks /\ memory'[newMeta(t)] = Val(t)
      /\ \A p \in Blocks : p # newMeta(t) => memory'[p] = memory[p]
  BY <1>1 DEF IInv, Typed, TypeOK, Frames
<1>5. \A k \in Keys : index[k] # newMeta(t)
  BY <1>1 DEF IInv, NewInv
<1>6. /\ local' \in [Threads -> Frames]
      /\ \A u \in Threads \ {t} : local'[u] = local[u]
  <2> DEFINE frame == [local[t] EXCEPT !.pc = "p_lookup"]
  <2>1. frame \in Frames
    BY FrameUpdates, Requests DEF IInv, Typed, TypeOK, Labels, PutLocked, RemoveLocked
  <2> HIDE DEF frame
  <2> QED
    BY <1>1, <2>1 DEF IInv, Typed, frame
<1>7. Typed'
  BY <1>1, <1>3, <1>6, FramesAreTyped DEF IInv, Typed, TypeOK, PoolTypeOK, poolVars
<1>8. LockInv'
  BY <1>1, <1>6, ThreadsAssumption
     DEF IInv, Typed, TypeOK, Frames, LockInv, Locked, PutLocked, RemoveLocked
<1>9. RequestInv'
  BY <1>1, <1>6 DEF IInv, Typed, TypeOK, Frames, RequestInv, Locked, PutLocked, RemoveLocked
<1>10. ParkedInv'
  BY <1>1 DEF IInv, ParkedInv, NotParked, poolVars
<1>11. NewInv'
  BY <1>1, <1>2, <1>4, <1>6
     DEF IInv, Typed, TypeOK, Frames, NewInv, Copied, NotParked, poolVars, Locked, PutLocked
<1>12. OldInv'
  BY <1>1, <1>2, <1>6
     DEF IInv, Typed, TypeOK, Frames, OldInv, NotParked, poolVars, Locked, PutLocked,
         RemoveLocked
<1>13. IndexInv'
  BY <1>1, <1>4, <1>5, <1>6
     DEF IInv, Typed, TypeOK, Frames, IndexInv, Replacing, NotParked, poolVars
<1>14. GetInv'
  BY <1>1, <1>2, <1>6
     DEF IInv, Typed, TypeOK, Frames, GetInv, Copied, poolVars, Locked, PutLocked, RemoveLocked
<1>15. \A k \in Keys : Stored(k)' = Stored(k)
  BY <1>1, <1>4, <1>5 DEF IInv, Typed, TypeOK, Stored
<1>16. LogInv'
  BY <1>1, <1>2, <1>6, <1>15
     DEF IInv, Typed, Frames, LogInv, Logging, Locked, PutLocked, RemoveLocked
<1> QED
  BY <1>7, <1>8, <1>9, <1>10, <1>11, <1>12, <1>13, <1>14, <1>16 DEF IInv

\* An answer without a record.
LEMMA AnswerKeeps ==
  ASSUME NEW t \in Threads, NEW from \in {"p_copy", "r_lookup", "g_lookup", "g_copy"},
         NEW r \in Results, IInv, Answer(t, from, r), UNCHANGED log
  PROVE  IInv'
<1>1. /\ pc(t) \in {"p_copy", "r_lookup", "g_lookup", "g_copy"}
      /\ local' = [local EXCEPT ![t] = [local[t] EXCEPT !.pc = "return", !.result = r]]
      /\ UNCHANGED <<poolVars, index, memory, engineRWLock_, log, dangling, updates>>
  BY DEF Answer, Step
<1>2. /\ local' \in [Threads -> Frames]
      /\ \A u \in Threads \ {t} : local'[u] = local[u]
  <2> DEFINE frame == [local[t] EXCEPT !.pc = "return", !.result = r]
  <2>1. frame \in Frames
    BY FrameUpdates DEF IInv, Typed
  <2> HIDE DEF frame
  <2> QED
    BY <1>1, <2>1 DEF IInv, Typed, frame
<1>3. Typed'
  BY <1>1, <1>2, FramesAreTyped DEF IInv, Typed, TypeOK, PoolTypeOK, poolVars
<1>4. LockInv'
  BY <1>1, <1>2, ThreadsAssumption
     DEF IInv, Typed, TypeOK, Frames, LockInv, Locked, PutLocked, RemoveLocked
<1>5. RequestInv'
  BY <1>1, <1>2
     DEF IInv, Typed, TypeOK, Frames, RequestInv, Locked, PutLocked, RemoveLocked, Abstract!Calls
<1>6. ParkedInv'
  BY <1>1 DEF IInv, ParkedInv, NotParked, poolVars
<1>7. NewInv'
  BY <1>1, <1>2 DEF IInv, Typed, TypeOK, Frames, NewInv, Copied, NotParked, poolVars
<1>8. OldInv'
  BY <1>1, <1>2 DEF IInv, Typed, TypeOK, Frames, OldInv, NotParked, poolVars
<1>9. IndexInv'
  BY <1>1, <1>2 DEF IInv, Typed, TypeOK, Frames, IndexInv, Replacing, NotParked, poolVars
<1>10. GetInv'
  BY <1>1, <1>2 DEF IInv, Typed, TypeOK, Frames, GetInv, Copied, poolVars
<1>11. \A k : Stored(k)' = Stored(k)
  BY <1>1 DEF Stored
<1>12. LogInv'
  BY <1>1, <1>2, <1>11 DEF IInv, Typed, Frames, LogInv, Logging
<1> QED
  BY <1>3, <1>4, <1>5, <1>6, <1>7, <1>8, <1>9, <1>10, <1>12 DEF IInv

LEMMA PutLookupKeeps ==
  ASSUME NEW t \in Threads, IInv, PutLookup(t)
  PROVE  IInv'
<1> DEFINE to == IF index[Key(t)] = Null THEN "p_index" ELSE "p_unregister"
<1>1. /\ pc(t) = "p_lookup"
      /\ local' = [local EXCEPT ![t] = [local[t] EXCEPT !.pc = to,
                                                        !.oldMeta = index[Key(t)]]]
      /\ UNCHANGED <<poolVars, index, memory, engineRWLock_, log, dangling, updates>>
  BY DEF PutLookup, LookupOld, Step
<1>2. \A u \in Threads \ {t} : pc(u) \notin Locked
  BY <1>1, OneThreadInside DEF Locked, PutLocked, RemoveLocked
<1>3. Key(t) \in Keys /\ index[Key(t)] \in Blocks \cup {Null}
  BY <1>1, Requests DEF IInv, Typed, TypeOK, PutLocked, RemoveLocked
<1>4. /\ local' \in [Threads -> Frames]
      /\ \A u \in Threads \ {t} : local'[u] = local[u]
  <2> DEFINE frame == [local[t] EXCEPT !.pc = to,
                                       !.oldMeta = index[Key(t)]]
  <2>1. frame \in Frames
    BY <1>3, FrameUpdates DEF IInv, Typed, Labels
  <2> HIDE DEF frame
  <2> QED
    BY <1>1, <2>1 DEF IInv, Typed, frame
<1>5. /\ pc(t)' \in {"p_index", "p_unregister"} /\ newMeta(t)' = newMeta(t)
      /\ oldMeta(t)' = index[Key(t)] /\ Key(t)' = Key(t) /\ Val(t)' = Val(t)
  BY <1>1, <1>4 DEF IInv, Typed, TypeOK, Frames
<1>6. Typed'
  BY <1>1, <1>4, FramesAreTyped DEF IInv, Typed, TypeOK, PoolTypeOK, poolVars
<1>7. LockInv'
  BY <1>1, <1>4, ThreadsAssumption
     DEF IInv, Typed, TypeOK, Frames, LockInv, Locked, PutLocked, RemoveLocked
<1>8. RequestInv'
  BY <1>1, <1>4 DEF IInv, Typed, TypeOK, Frames, RequestInv, Locked, PutLocked, RemoveLocked
<1>9. ParkedInv'
  BY <1>1 DEF IInv, ParkedInv, NotParked, poolVars
<1>10. NewInv'
  <2>1. pc(t) \in Copied /\ ~(pc(t)' \in {"p_register", "p_copy"} \ Copied)
    BY <1>1, <1>5 DEF Copied
  <2> QED
    BY <1>1, <1>4, <1>5, <2>1 DEF IInv, NewInv, NotParked, poolVars
<1>11. OldInv'
  BY <1>1, <1>2, <1>4, ZenonT(30)
     DEF IInv, Typed, TypeOK, Frames, OldInv, NotParked, poolVars, Locked, PutLocked,
         RemoveLocked
<1>12. IndexInv'
  BY <1>1, <1>2, <1>4, ZenonT(30)
     DEF IInv, Typed, TypeOK, Frames, IndexInv, Replacing, NotParked, poolVars, Locked,
         PutLocked, RemoveLocked
<1>13. GetInv'
  <2>1. pc(t) \in Copied /\ pc(t)' \notin {"g_copy", "r_unregister", "r_give_back"}
    BY <1>1, <1>5 DEF Copied
  <2> QED
    BY <1>1, <1>4, <1>5, <2>1 DEF IInv, GetInv, poolVars
<1>14. \A k : Stored(k)' = Stored(k)
  BY <1>1 DEF Stored
<1>15. LogInv'
  BY <1>1, <1>2, <1>4, <1>14
     DEF IInv, Typed, Frames, LogInv, Logging, Locked, PutLocked, RemoveLocked
<1> QED
  BY <1>6, <1>7, <1>8, <1>9, <1>10, <1>11, <1>12, <1>13, <1>15 DEF IInv

LEMMA RemoveLookupKeeps ==
  ASSUME NEW t \in Threads, IInv, RemoveLookup(t)
  PROVE  IInv'
<1>1. /\ pc(t) = "r_lookup"
      /\ local' = [local EXCEPT ![t] = [local[t] EXCEPT !.pc = "r_index",
                                                        !.oldMeta = index[Key(t)]]]
      /\ index[Key(t)] # Null
      /\ UNCHANGED <<poolVars, index, memory, engineRWLock_, log, dangling, updates>>
  BY DEF RemoveLookup, LookupOld, Step
<1>2. \A u \in Threads \ {t} : pc(u) \notin Locked
  BY <1>1, OneThreadInside DEF Locked, PutLocked, RemoveLocked
<1>3. Key(t) \in Keys /\ index[Key(t)] \in Blocks \cup {Null}
  BY <1>1, Requests DEF IInv, Typed, TypeOK, PutLocked, RemoveLocked
<1>4. /\ local' \in [Threads -> Frames]
      /\ \A u \in Threads \ {t} : local'[u] = local[u]
  <2> DEFINE frame == [local[t] EXCEPT !.pc = "r_index", !.oldMeta = index[Key(t)]]
  <2>1. frame \in Frames
    BY <1>3, FrameUpdates DEF IInv, Typed, Labels
  <2> HIDE DEF frame
  <2> QED
    BY <1>1, <2>1 DEF IInv, Typed, frame
<1>5. Typed'
  BY <1>1, <1>4, FramesAreTyped DEF IInv, Typed, TypeOK, PoolTypeOK, poolVars
<1>6. LockInv'
  BY <1>1, <1>4, ThreadsAssumption
     DEF IInv, Typed, TypeOK, Frames, LockInv, Locked, PutLocked, RemoveLocked
<1>7. RequestInv'
  BY <1>1, <1>4 DEF IInv, Typed, TypeOK, Frames, RequestInv, Locked, PutLocked, RemoveLocked
<1>8. ParkedInv'
  BY <1>1 DEF IInv, ParkedInv, NotParked, poolVars
<1>9. NewInv'
  BY <1>1, <1>2, <1>4
     DEF IInv, Typed, TypeOK, Frames, NewInv, Copied, NotParked, poolVars, Locked, PutLocked,
         RemoveLocked
<1>10. OldInv'
  BY <1>1, <1>2, <1>4
     DEF IInv, Typed, TypeOK, Frames, OldInv, NotParked, poolVars, Locked, PutLocked,
         RemoveLocked
<1>11. IndexInv'
  BY <1>1, <1>2, <1>4
     DEF IInv, Typed, TypeOK, Frames, IndexInv, Replacing, NotParked, poolVars, Locked,
         PutLocked, RemoveLocked
<1>12. GetInv'
  BY <1>1, <1>2, <1>4, SMTT(30)
     DEF IInv, Typed, TypeOK, Frames, GetInv, Copied, poolVars, Locked, PutLocked, RemoveLocked
<1>13. \A k : Stored(k)' = Stored(k)
  BY <1>1 DEF Stored
<1>14. LogInv'
  BY <1>1, <1>2, <1>4, <1>13
     DEF IInv, Typed, Frames, LogInv, Logging, Locked, PutLocked, RemoveLocked
<1> QED
  BY <1>5, <1>6, <1>7, <1>8, <1>9, <1>10, <1>11, <1>12, <1>14 DEF IInv

LEMMA PutIndexKeeps ==
  ASSUME NEW t \in Threads, IInv, PutIndex(t)
  PROVE  IInv'
<1>1. /\ pc(t) = "p_index"
      /\ local' = [local EXCEPT ![t] = [local[t] EXCEPT !.pc = "p_append"]]
      /\ index' = [index EXCEPT ![Key(t)] = newMeta(t)]
      /\ UNCHANGED <<poolVars, memory, engineRWLock_, log, dangling, updates>>
  BY DEF PutIndex, SetIndex, Goto, Step
<1>2. \A u \in Threads \ {t} : pc(u) \notin Locked
  BY <1>1, OneThreadInside DEF Locked, PutLocked, RemoveLocked
<1>3. Key(t) \in Keys /\ index[Key(t)] \in Blocks \cup {Null}
  BY <1>1, Requests DEF IInv, Typed, TypeOK, PutLocked, RemoveLocked
<1>4. /\ index' \in [Keys -> Blocks \cup {Null}] /\ index'[Key(t)] = newMeta(t)
      /\ \A k \in Keys \ {Key(t)} : index'[k] = index[k]
  BY <1>1, <1>3 DEF IInv, Typed, TypeOK, Frames
<1>5. /\ newMeta(t) \in Blocks /\ memory[newMeta(t)] = Val(t) /\ Val(t) \in Values
      /\ newMeta(t) \in heap /\ NotParked(newMeta(t)) /\ allocationSizeMap_[newMeta(t)] # NoSize
      /\ \A k \in Keys : index[k] # newMeta(t)
      /\ oldMeta(t) = index[Key(t)]
  BY <1>1, Requests DEF IInv, Typed, TypeOK, Frames, NewInv, OldInv, Copied, PutLocked
<1>6. /\ local' \in [Threads -> Frames]
      /\ \A u \in Threads \ {t} : local'[u] = local[u]
  <2> DEFINE frame == [local[t] EXCEPT !.pc = "p_append"]
  <2>1. frame \in Frames
    BY FrameUpdates, Requests DEF IInv, Typed, TypeOK, Labels, PutLocked, RemoveLocked
  <2> HIDE DEF frame
  <2> QED
    BY <1>1, <2>1 DEF IInv, Typed, frame
<1>7. Typed'
  BY <1>1, <1>4, <1>6, FramesAreTyped DEF IInv, Typed, TypeOK, PoolTypeOK, poolVars
<1>8. LockInv'
  BY <1>1, <1>6, ThreadsAssumption
     DEF IInv, Typed, TypeOK, Frames, LockInv, Locked, PutLocked, RemoveLocked
<1>9. RequestInv'
  BY <1>1, <1>6 DEF IInv, Typed, TypeOK, Frames, RequestInv, Locked, PutLocked, RemoveLocked
<1>10. ParkedInv'
  BY <1>1 DEF IInv, ParkedInv, NotParked, poolVars
<1>11. NewInv'
  BY <1>1, <1>2, <1>6
     DEF IInv, Typed, TypeOK, Frames, NewInv, Copied, poolVars, NotParked, Locked, PutLocked,
         RemoveLocked
<1>12. OldInv'
  BY <1>1, <1>2, <1>6
     DEF IInv, Typed, TypeOK, Frames, OldInv, poolVars, NotParked, Locked, PutLocked,
         RemoveLocked
<1>13. IndexInv'
  BY <1>1, <1>2, <1>3, <1>4, <1>5, <1>6
     DEF IInv, Typed, TypeOK, Frames, IndexInv, Replacing, NotParked, poolVars, Locked,
         PutLocked, RemoveLocked
<1>14. GetInv'
  BY <1>1, <1>2, <1>3, <1>4, <1>5, <1>6
     DEF IInv, Typed, TypeOK, Frames, GetInv, Copied, poolVars, Locked, PutLocked, RemoveLocked
<1>15. Stored(Key(t))' = Val(t) /\ \A k \in Keys \ {Key(t)} : Stored(k)' = Stored(k)
  BY <1>1, <1>3, <1>4, <1>5, BlocksAssumption DEF Stored
<1>16. LogInv'
  BY <1>1, <1>2, <1>6, <1>15
     DEF IInv, Typed, Frames, LogInv, Logging, Locked, PutLocked, RemoveLocked
<1> QED
  BY <1>7, <1>8, <1>9, <1>10, <1>11, <1>12, <1>13, <1>14, <1>16 DEF IInv

LEMMA RemoveIndexKeeps ==
  ASSUME NEW t \in Threads, IInv, RemoveIndex(t)
  PROVE  IInv'
<1>1. /\ pc(t) = "r_index"
      /\ local' = [local EXCEPT ![t] = [local[t] EXCEPT !.pc = "r_unregister"]]
      /\ index' = [index EXCEPT ![Key(t)] = Null]
      /\ UNCHANGED <<poolVars, memory, engineRWLock_, log, dangling, updates>>
  BY DEF RemoveIndex, SetIndex, Goto, Step
<1>2. \A u \in Threads \ {t} : pc(u) \notin Locked
  BY <1>1, OneThreadInside DEF Locked, PutLocked, RemoveLocked
<1>3. Key(t) \in Keys /\ index[Key(t)] \in Blocks \cup {Null}
  BY <1>1, Requests DEF IInv, Typed, TypeOK, PutLocked, RemoveLocked
<1>4. /\ index' \in [Keys -> Blocks \cup {Null}] /\ index'[Key(t)] = Null
      /\ \A k \in Keys \ {Key(t)} : index'[k] = index[k]
  BY <1>1, <1>3 DEF IInv, Typed, TypeOK
<1>5. oldMeta(t) = index[Key(t)] /\ oldMeta(t) \in Blocks
  BY <1>1, <1>3 DEF IInv, OldInv
<1>6. /\ local' \in [Threads -> Frames]
      /\ \A u \in Threads \ {t} : local'[u] = local[u]
  <2> DEFINE frame == [local[t] EXCEPT !.pc = "r_unregister"]
  <2>1. frame \in Frames
    BY FrameUpdates, Requests DEF IInv, Typed, TypeOK, Labels, PutLocked, RemoveLocked
  <2> HIDE DEF frame
  <2> QED
    BY <1>1, <2>1 DEF IInv, Typed, frame
<1>7. Typed'
  BY <1>1, <1>4, <1>6, FramesAreTyped DEF IInv, Typed, TypeOK, PoolTypeOK, poolVars
<1>8. LockInv'
  BY <1>1, <1>6, ThreadsAssumption
     DEF IInv, Typed, TypeOK, Frames, LockInv, Locked, PutLocked, RemoveLocked
<1>9. RequestInv'
  BY <1>1, <1>6 DEF IInv, Typed, TypeOK, Frames, RequestInv, Locked, PutLocked, RemoveLocked
<1>10. ParkedInv'
  BY <1>1 DEF IInv, ParkedInv, NotParked, poolVars
<1>11. NewInv'
  BY <1>1, <1>2, <1>3, <1>4, <1>6
     DEF IInv, Typed, TypeOK, Frames, NewInv, Copied, poolVars, NotParked, Locked, PutLocked,
         RemoveLocked
<1>12. OldInv'
  BY <1>1, <1>2, <1>3, <1>4, <1>5, <1>6
     DEF IInv, Typed, TypeOK, Frames, OldInv, IndexInv, Replacing, poolVars, NotParked, Locked,
         PutLocked, RemoveLocked
<1>13. IndexInv'
  BY <1>1, <1>2, <1>3, <1>4, <1>6
     DEF IInv, Typed, TypeOK, Frames, IndexInv, Replacing, NotParked, poolVars, Locked,
         PutLocked, RemoveLocked
<1>14. GetInv'
  BY <1>1, <1>2, <1>3, <1>4, <1>5, <1>6, BlocksAssumption
     DEF IInv, Typed, TypeOK, PoolTypeOK, Frames, GetInv, Copied, poolVars, Locked, PutLocked,
         RemoveLocked
<1>15. Stored(Key(t))' = Missing /\ \A k \in Keys \ {Key(t)} : Stored(k)' = Stored(k)
  BY <1>1, <1>4 DEF Stored
<1>16. LogInv'
  BY <1>1, <1>2, <1>6, <1>15
     DEF IInv, Typed, Frames, LogInv, Logging, Locked, PutLocked, RemoveLocked
<1> QED
  BY <1>7, <1>8, <1>9, <1>10, <1>11, <1>12, <1>13, <1>14, <1>16 DEF IInv

LEMMA PutAppendKeeps ==
  ASSUME NEW t \in Threads, IInv, PutAppend(t)
  PROVE  IInv'
<1>1. /\ pc(t) = "p_append"
      /\ local' = [local EXCEPT ![t] = [local[t] EXCEPT !.pc = "return", !.result = TRUE]]
      /\ log' = Append(log, [key |-> Key(t), val |-> Val(t)])
      /\ UNCHANGED <<poolVars, index, memory, engineRWLock_, dangling, updates>>
  BY DEF PutAppend, AnswerLogged, Answer, Step
<1>2. \A u \in Threads \ {t} : pc(u) \notin Locked
  BY <1>1, OneThreadInside DEF Locked, PutLocked, RemoveLocked
<1>3. Key(t) \in Keys /\ Val(t) \in Values
  BY <1>1, Requests DEF PutLocked, RemoveLocked
<1>4. [key |-> Key(t), val |-> Val(t)] \in Record /\ log \in Seq(Record)
  BY <1>3 DEF Record, IInv, Typed, TypeOK
<1>5. log' \in Seq(Record)
  BY <1>1, <1>4, AppendProperties
<1>6. \A k \in Keys : Replayed(log', k) =
        IF k = Key(t) THEN IF Val(t) = Empty THEN Missing ELSE Val(t)
                      ELSE Replayed(log, k)
  BY <1>1, <1>4, ReplayOfAppend
<1>7. /\ local' \in [Threads -> Frames]
      /\ \A u \in Threads \ {t} : local'[u] = local[u]
  <2> DEFINE frame == [local[t] EXCEPT !.pc = "return", !.result = TRUE]
  <2>1. frame \in Frames
    BY FrameUpdates DEF IInv, Typed, Results
  <2> HIDE DEF frame
  <2> QED
    BY <1>1, <2>1 DEF IInv, Typed, frame
<1>8. Typed'
  BY <1>1, <1>5, <1>7, FramesAreTyped DEF IInv, Typed, TypeOK, PoolTypeOK, poolVars, Record
<1>9. LockInv'
  BY <1>1, <1>7, ThreadsAssumption
     DEF IInv, Typed, TypeOK, Frames, LockInv, Locked, PutLocked, RemoveLocked
<1>10. RequestInv'
  BY <1>1, <1>7
     DEF IInv, Typed, TypeOK, Frames, RequestInv, Locked, PutLocked, RemoveLocked, Abstract!Calls
<1>11. ParkedInv'
  BY <1>1 DEF IInv, ParkedInv, NotParked, poolVars
<1>12. NewInv'
  BY <1>1, <1>2, <1>7
     DEF IInv, Typed, TypeOK, Frames, NewInv, Copied, NotParked, poolVars, Locked, PutLocked,
         RemoveLocked
<1>13. OldInv'
  BY <1>1, <1>2, <1>7
     DEF IInv, Typed, TypeOK, Frames, OldInv, NotParked, poolVars, Locked, PutLocked,
         RemoveLocked
<1>14. IndexInv'
  BY <1>1, <1>2, <1>7
     DEF IInv, Typed, TypeOK, Frames, IndexInv, Replacing, NotParked, poolVars, Locked,
         PutLocked, RemoveLocked
<1>15. GetInv'
  BY <1>1, <1>2, <1>7
     DEF IInv, Typed, TypeOK, Frames, GetInv, Copied, poolVars, Locked, PutLocked, RemoveLocked
<1>16. \A k : Stored(k)' = Stored(k)
  BY <1>1 DEF Stored
<1>17. LogInv'
  BY <1>1, <1>2, <1>3, <1>6, <1>7, <1>16, ValuesAssumption
     DEF IInv, Typed, Frames, LogInv, Logging, Values, Locked, PutLocked, RemoveLocked
<1> QED
  BY <1>8, <1>9, <1>10, <1>11, <1>12, <1>13, <1>14, <1>15, <1>17 DEF IInv

LEMMA RemoveAppendKeeps ==
  ASSUME NEW t \in Threads, IInv, RemoveAppend(t)
  PROVE  IInv'
<1>1. /\ pc(t) = "r_append"
      /\ local' = [local EXCEPT ![t] = [local[t] EXCEPT !.pc = "return", !.result = TRUE]]
      /\ log' = Append(log, [key |-> Key(t), val |-> Empty])
      /\ UNCHANGED <<poolVars, index, memory, engineRWLock_, dangling, updates>>
  BY DEF RemoveAppend, AnswerLogged, Answer, Step
<1>2. \A u \in Threads \ {t} : pc(u) \notin Locked
  BY <1>1, OneThreadInside DEF Locked, PutLocked, RemoveLocked
<1>3. Key(t) \in Keys
  BY <1>1, Requests DEF PutLocked, RemoveLocked
<1>4. [key |-> Key(t), val |-> Empty] \in Record /\ log \in Seq(Record)
  BY <1>3 DEF Record, IInv, Typed, TypeOK
<1>5. log' \in Seq(Record)
  BY <1>1, <1>4, AppendProperties
<1>6. \A k \in Keys : Replayed(log', k) =
        IF k = Key(t) THEN Missing
                      ELSE Replayed(log, k)
  BY <1>1, <1>4, ReplayOfAppend
<1>7. /\ local' \in [Threads -> Frames]
      /\ \A u \in Threads \ {t} : local'[u] = local[u]
  <2> DEFINE frame == [local[t] EXCEPT !.pc = "return", !.result = TRUE]
  <2>1. frame \in Frames
    BY FrameUpdates DEF IInv, Typed, Results
  <2> HIDE DEF frame
  <2> QED
    BY <1>1, <2>1 DEF IInv, Typed, frame
<1>8. Typed'
  BY <1>1, <1>5, <1>7, FramesAreTyped DEF IInv, Typed, TypeOK, PoolTypeOK, poolVars, Record
<1>9. LockInv'
  BY <1>1, <1>7, ThreadsAssumption
     DEF IInv, Typed, TypeOK, Frames, LockInv, Locked, PutLocked, RemoveLocked
<1>10. RequestInv'
  BY <1>1, <1>7
     DEF IInv, Typed, TypeOK, Frames, RequestInv, Locked, PutLocked, RemoveLocked, Abstract!Calls
<1>11. ParkedInv'
  BY <1>1 DEF IInv, ParkedInv, NotParked, poolVars
<1>12. NewInv'
  BY <1>1, <1>2, <1>7
     DEF IInv, Typed, TypeOK, Frames, NewInv, Copied, NotParked, poolVars, Locked, PutLocked,
         RemoveLocked
<1>13. OldInv'
  BY <1>1, <1>2, <1>7
     DEF IInv, Typed, TypeOK, Frames, OldInv, NotParked, poolVars, Locked, PutLocked,
         RemoveLocked
<1>14. IndexInv'
  BY <1>1, <1>2, <1>7
     DEF IInv, Typed, TypeOK, Frames, IndexInv, Replacing, NotParked, poolVars, Locked,
         PutLocked, RemoveLocked
<1>15. GetInv'
  BY <1>1, <1>2, <1>7
     DEF IInv, Typed, TypeOK, Frames, GetInv, Copied, poolVars, Locked, PutLocked, RemoveLocked
<1>16. \A k : Stored(k)' = Stored(k)
  BY <1>1 DEF Stored
<1>17. LogInv'
  BY <1>1, <1>2, <1>3, <1>6, <1>7, <1>16, ValuesAssumption
     DEF IInv, Typed, Frames, LogInv, Logging, Values, Locked, PutLocked, RemoveLocked
<1> QED
  BY <1>8, <1>9, <1>10, <1>11, <1>12, <1>13, <1>14, <1>15, <1>17 DEF IInv

LEMMA GetLookupKeeps ==
  ASSUME NEW t \in Threads, IInv, GetLookup(t)
  PROVE  IInv'
<1>1. /\ pc(t) = "g_lookup"
      /\ local' = [local EXCEPT ![t] = [local[t] EXCEPT !.pc = "g_copy",
                                                        !.newMeta = index[Key(t)]]]
      /\ index[Key(t)] # Null
      /\ dangling' = IF index[Key(t)] \in heap THEN dangling ELSE dangling \cup {t}
      /\ UNCHANGED <<poolVars, index, memory, engineRWLock_, log, updates>>
  BY DEF GetLookup, Step
<1>2. Key(t) \in Keys /\ index[Key(t)] \in Blocks \cup {Null}
  BY <1>1, Requests DEF IInv, Typed, TypeOK, PutLocked, RemoveLocked
<1>3. /\ local' \in [Threads -> Frames]
      /\ \A u \in Threads \ {t} : local'[u] = local[u]
  <2> DEFINE frame == [local[t] EXCEPT !.pc = "g_copy", !.newMeta = index[Key(t)]]
  <2>1. frame \in Frames
    BY <1>2, FrameUpdates DEF IInv, Typed, Labels
  <2> HIDE DEF frame
  <2> QED
    BY <1>1, <2>1 DEF IInv, Typed, frame
<1>4. Typed'
  BY <1>1, <1>3, FramesAreTyped DEF IInv, Typed, TypeOK, PoolTypeOK, poolVars
<1>5. LockInv'
  BY <1>1, <1>3, ThreadsAssumption
     DEF IInv, Typed, TypeOK, Frames, LockInv, Locked, PutLocked, RemoveLocked
<1>6. RequestInv'
  BY <1>1, <1>3 DEF IInv, Typed, TypeOK, Frames, RequestInv, Locked, PutLocked, RemoveLocked
<1>7. ParkedInv'
  BY <1>1 DEF IInv, ParkedInv, NotParked, poolVars
<1>8. NewInv'
  BY <1>1, <1>3, SMTT(30) DEF IInv, Typed, TypeOK, Frames, NewInv, Copied, NotParked, poolVars
<1>9. OldInv'
  BY <1>1, <1>3 DEF IInv, Typed, TypeOK, Frames, OldInv, NotParked, poolVars
<1>10. IndexInv'
  BY <1>1, <1>3 DEF IInv, Typed, TypeOK, Frames, IndexInv, Replacing, NotParked, poolVars
<1>11. GetInv'
  <2>1. /\ pc(t)' = "g_copy" /\ newMeta(t)' = index[Key(t)] /\ Key(t)' = Key(t)
        /\ pc(t) \notin {"p_register", "p_copy"} \cup Copied \cup {"r_unregister", "r_give_back"}
    BY <1>1, <1>3 DEF IInv, Typed, Frames, Copied
  <2>2. ASSUME t \notin dangling'
        PROVE  /\ index[Key(t)] \in heap
               /\ \A k \in Keys : index[k] = index[Key(t)] => k = Key(t)
               /\ \A v \in Threads :
                    /\ pc(v) \in {"p_register", "p_copy"} \cup Copied => newMeta(v) # index[Key(t)]
                    /\ pc(v) \in {"r_unregister", "r_give_back"} => oldMeta(v) # index[Key(t)]
    <3>1. index[Key(t)] \in heap
      BY <1>1, <2>2
    <3>2. \A k \in Keys : index[k] = index[Key(t)] => k = Key(t)
      BY <1>1, <1>2 DEF IInv, IndexInv
    <3>3. \A v \in Threads : pc(v) \in {"p_register", "p_copy"} \cup Copied
                                => newMeta(v) # index[Key(t)]
      BY <1>1, <1>2 DEF IInv, NewInv
    <3>4. \A v \in Threads : pc(v) \in {"r_unregister", "r_give_back"}
                                => oldMeta(v) # index[Key(t)]
      BY <1>1, <1>2 DEF IInv, OldInv
    <3> QED
      BY <3>1, <3>2, <3>3, <3>4
  <2>3. ASSUME NEW u \in Threads \ {t}
        PROVE  /\ pc(u)' = pc(u) /\ newMeta(u)' = newMeta(u) /\ oldMeta(u)' = oldMeta(u)
               /\ Key(u)' = Key(u) /\ (u \in dangling' <=> u \in dangling)
    BY <1>1, <1>3
  <2>4. ASSUME NEW u \in Threads, u # t, pc(u)' = "g_copy", u \notin dangling'
        PROVE  /\ newMeta(u) \in heap
               /\ \A k \in Keys : index[k] = newMeta(u) => k = Key(u)
               /\ \A v \in Threads \ {t} :
                    /\ pc(v) \in {"p_register", "p_copy"} \cup Copied => newMeta(v) # newMeta(u)
                    /\ pc(v) \in {"r_unregister", "r_give_back"} /\ oldMeta(v) = newMeta(u) =>
                         Key(v) = Key(u)
    BY <2>3, <2>4 DEF IInv, GetInv
  <2>5. pc(t)' \notin {"p_register", "p_copy"} \cup Copied \cup {"r_unregister", "r_give_back"}
    BY <2>1 DEF Copied
  <2> QED
    BY <1>1, <2>1, <2>2, <2>3, <2>4, <2>5 DEF GetInv, poolVars
<1>12. \A k : Stored(k)' = Stored(k)
  BY <1>1 DEF Stored
<1>13. LogInv'
  BY <1>1, <1>3, <1>12 DEF IInv, Typed, Frames, LogInv, Logging
<1> QED
  BY <1>4, <1>5, <1>6, <1>7, <1>8, <1>9, <1>10, <1>11, <1>13 DEF IInv

LEMMA ReturnKeeps ==
  ASSUME NEW t \in Threads, IInv, Return(t)
  PROVE  IInv'
<1>1. /\ pc(t) = "return"
      /\ local' = [local EXCEPT ![t] = Idle]
      /\ engineRWLock_' = IF engineRWLock_ = t THEN Free ELSE engineRWLock_
      /\ dangling' = dangling \ {t}
      /\ UNCHANGED <<poolVars, index, memory, log, updates>>
  BY DEF Return, Step
<1>2. /\ Idle \in Frames /\ Idle.pc = "idle" /\ Idle.newMeta = Null /\ Idle.oldMeta = Null
  BY DEF Idle, Frames, Labels, Results
<1>3. /\ local' \in [Threads -> Frames]
      /\ \A u \in Threads \ {t} : local'[u] = local[u]
  <2> DEFINE frame == Idle
  <2>1. frame \in Frames
    BY <1>2
  <2> HIDE DEF frame
  <2> QED
    BY <1>1, <2>1 DEF IInv, Typed, frame
<1>4. Typed'
  BY <1>1, <1>3, FramesAreTyped DEF IInv, Typed, TypeOK, PoolTypeOK, poolVars
<1>5. LockInv'
  BY <1>1, <1>2, <1>3, ThreadsAssumption
     DEF IInv, Typed, TypeOK, Frames, LockInv, Locked, PutLocked, RemoveLocked
<1>6. RequestInv'
  BY <1>1, <1>2, <1>3 DEF IInv, Typed, TypeOK, Frames, RequestInv, Locked, PutLocked, RemoveLocked
<1>7. ParkedInv'
  BY <1>1 DEF IInv, ParkedInv, NotParked, poolVars
<1>8. NewInv'
  BY <1>1, <1>2, <1>3 DEF IInv, Typed, TypeOK, NewInv, Copied, NotParked, poolVars
<1>9. OldInv'
  BY <1>1, <1>2, <1>3 DEF IInv, Typed, TypeOK, OldInv, NotParked, poolVars
<1>10. IndexInv'
  BY <1>1, <1>2, <1>3 DEF IInv, Typed, TypeOK, IndexInv, Replacing, NotParked, poolVars
<1>11. GetInv'
  BY <1>1, <1>2, <1>3 DEF IInv, Typed, TypeOK, GetInv, Copied, poolVars
<1>12. \A k : Stored(k)' = Stored(k)
  BY <1>1 DEF Stored
<1>13. LogInv'
  BY <1>1, <1>2, <1>3, <1>12 DEF IInv, Typed, LogInv, Logging
<1> QED
  BY <1>4, <1>5, <1>6, <1>7, <1>8, <1>9, <1>10, <1>11, <1>13 DEF IInv

LEMMA PutRemoveOldUnregisterKeeps ==
  ASSUME NEW t \in Threads, IInv, PutRemoveOld(t), pc(t) = "p_unregister"
  PROVE  IInv'
<1>1. /\ pc(t) = "p_unregister"
      /\ local' = [local EXCEPT ![t] = [local[t] EXCEPT !.pc = "p_give_back",
                                                        !.size = allocationSizeMap_[oldMeta(t)]]]
      /\ allocationSizeMap_' = [allocationSizeMap_ EXCEPT ![oldMeta(t)] = NoSize]
      /\ UNCHANGED <<heap, slabs, index, memory, engineRWLock_, log, dangling, updates>>
  BY DEF PutRemoveOld, Deallocate, Goto, Step, Unregister
<1>2. \A u \in Threads \ {t} : pc(u) \notin Locked
  BY <1>1, OneThreadInside DEF Locked, PutLocked, RemoveLocked
<1>3. Key(t) \in Keys
  BY <1>1, Requests DEF PutLocked, RemoveLocked
<1>4. /\ oldMeta(t) \in Blocks /\ oldMeta(t) \in heap /\ NotParked(oldMeta(t))
      /\ \A k \in Keys : index[k] = oldMeta(t) => k = Key(t)
      /\ oldMeta(t) = index[Key(t)]
  BY <1>1, <1>2, <1>3
     DEF IInv, Typed, TypeOK, PoolTypeOK, Frames, OldInv, IndexInv, Replacing, Locked, PutLocked,
         RemoveLocked
<1>5. /\ allocationSizeMap_' \in [Blocks \cup {Null} -> Sizes \cup {NoSize}]
      /\ \A p \in Blocks \ {oldMeta(t)} : allocationSizeMap_'[p] = allocationSizeMap_[p]
  BY <1>1, <1>4 DEF IInv, Typed, TypeOK, PoolTypeOK
<1>6. \A q : NotParked(q)' <=> NotParked(q)
  BY <1>1 DEF NotParked
<1>7. allocationSizeMap_[oldMeta(t)] \in Sizes \cup {NoSize}
  BY <1>4 DEF IInv, Typed, TypeOK, PoolTypeOK
<1>8. newMeta(t) \in Blocks \ {oldMeta(t)}
  BY <1>1, <1>3, <1>4 DEF IInv, Typed, Frames, NewInv, Copied
<1>9. /\ local' \in [Threads -> Frames]
      /\ \A u \in Threads \ {t} : local'[u] = local[u]
  <2> DEFINE frame == [local[t] EXCEPT !.pc = "p_give_back",
                                       !.size = allocationSizeMap_[oldMeta(t)]]
  <2>1. frame \in Frames
    BY <1>7, FrameUpdates DEF IInv, Typed, Labels
  <2> HIDE DEF frame
  <2> QED
    BY <1>1, <2>1 DEF IInv, Typed, frame
<1>10. /\ pc(t)' = "p_give_back" /\ newMeta(t)' = newMeta(t)
     /\ oldMeta(t)' = oldMeta(t) /\ Key(t)' = Key(t) /\ Val(t)' = Val(t)
  BY <1>1, <1>9 DEF IInv, Typed, TypeOK, Frames
<1>11. Typed'
  <2>1. PoolTypeOK'
    BY <1>1, <1>5 DEF IInv, Typed, TypeOK, PoolTypeOK
  <2> QED
    BY <1>1, <1>9, <2>1, FramesAreTyped DEF IInv, Typed, TypeOK
<1>12. LockInv'
  BY <1>1, <1>9, ThreadsAssumption
     DEF IInv, Typed, TypeOK, Frames, LockInv, Locked, PutLocked, RemoveLocked
<1>13. RequestInv'
  BY <1>1, <1>9 DEF IInv, Typed, TypeOK, Frames, RequestInv, Locked, PutLocked, RemoveLocked
<1>14. ParkedInv'
  BY <1>1 DEF IInv, ParkedInv, NotParked, poolVars
<1>15. NewInv'
  <2>1. ASSUME NEW u \in Threads \ {t}
        PROVE  pc(u)' \notin {"p_register", "p_copy"} \cup Copied
    BY <1>2, <1>9 DEF Copied, Locked, PutLocked
  <2>2. /\ newMeta(t) \in heap /\ NotParked(newMeta(t))'
        /\ \A k \in Keys : index[k] # newMeta(t)
        /\ allocationSizeMap_'[newMeta(t)] # NoSize
        /\ newMeta(t) # Null /\ memory[newMeta(t)] = Val(t)
    BY <1>1, <1>5, <1>6, <1>8, BlocksAssumption DEF IInv, NewInv, Copied
  <2> QED
    BY <1>1, <1>10, <2>1, <2>2 DEF NewInv, NotParked
<1>16. OldInv'
  <2>1. ASSUME NEW u \in Threads \ {t}
        PROVE  pc(u)' \notin {"p_unregister", "p_give_back", "p_index",
                              "r_index", "r_unregister", "r_give_back"}
    BY <1>2, <1>9 DEF Locked, PutLocked, RemoveLocked
  <2>2. /\ oldMeta(t) = index[Key(t)] /\ oldMeta(t) # Null
        /\ oldMeta(t) \in heap /\ NotParked(oldMeta(t))'
    BY <1>4, <1>6, <1>10, BlocksAssumption
  <2> QED
    BY <1>1, <1>10, <2>1, <2>2 DEF OldInv, NotParked
<1>17. IndexInv'
  <2>1. Replacing(oldMeta(t))'
    BY <1>1, <1>9 DEF IInv, Typed, TypeOK, Frames, Replacing
  <2>2. \A p : ~Replacing(p)
    BY <1>1, <1>2 DEF Replacing, Locked, PutLocked, RemoveLocked
  <2>3. ASSUME NEW k \in Keys, index[k] # Null
        PROVE  /\ memory[index[k]] \in Values
               /\ \/ index[k] = oldMeta(t)
                  \/ /\ index[k] \in heap /\ NotParked(index[k])
                     /\ index[k] \in Blocks \ {oldMeta(t)}
                     /\ allocationSizeMap_'[index[k]] # NoSize
    <3>1. index[k] \in Blocks
      BY <2>3 DEF IInv, Typed, TypeOK
    <3> QED
      BY <1>5, <2>2, <2>3, <3>1 DEF IInv, IndexInv
  <2>4. ASSUME NEW k \in Keys, index'[k] # Null
        PROVE  /\ memory'[index'[k]] \in Values
               /\ \/ Replacing(index[k])'
                  \/ /\ index'[k] \in heap' /\ NotParked(index[k])'
                     /\ allocationSizeMap_'[index'[k]] # NoSize
    <3>1. CASE index[k] = oldMeta(t)
      BY <1>1, <2>1, <2>3, <2>4, <3>1 DEF Replacing
    <3>2. CASE index[k] # oldMeta(t)
      BY <1>1, <1>6, <2>3, <2>4, <3>2
    <3> QED
      BY <3>1, <3>2
  <2> QED
    BY <1>1, <2>4 DEF IInv, IndexInv, Replacing, NotParked
<1>18. GetInv'
  BY <1>1, <1>2, <1>9
     DEF IInv, Typed, TypeOK, Frames, GetInv, Copied, poolVars, Locked, PutLocked, RemoveLocked
<1>19. \A k : Stored(k)' = Stored(k)
  BY <1>1 DEF Stored
<1>20. LogInv'
  BY <1>1, <1>2, <1>9, <1>19
     DEF IInv, Typed, Frames, LogInv, Logging, Locked, PutLocked, RemoveLocked
<1> QED
  BY <1>11, <1>12, <1>13, <1>14, <1>15, <1>16, <1>17, <1>18, <1>20 DEF IInv

LEMMA PutRemoveOldGiveBackKeeps ==
  ASSUME NEW t \in Threads, IInv, PutRemoveOld(t), pc(t) = "p_give_back"
  PROVE  IInv'
<1>1. /\ pc(t) = "p_give_back"
      /\ local' = [local EXCEPT ![t] = [local[t] EXCEPT !.pc = "p_index"]]
      /\ GiveBack(t, local[t].size, oldMeta(t))
      /\ dangling' = dangling \cup {u \in Threads : /\ pc(u) = "g_copy"
                                                  /\ newMeta(u) \in heap \ heap'}
      /\ UNCHANGED <<index, memory, engineRWLock_, log, updates>>
  BY DEF PutRemoveOld, Deallocate, Goto, Step
<1>2. \A u \in Threads \ {t} : pc(u) \notin Locked
  BY <1>1, OneThreadInside DEF Locked, PutLocked, RemoveLocked
<1>3. Key(t) \in Keys
  BY <1>1, Requests DEF PutLocked, RemoveLocked
<1>4. PICK p \in Blocks, m \in Sizes \cup {NoSize} : p = oldMeta(t) /\ m = local[t].size
  BY <1>1 DEF IInv, Typed, Frames, OldInv
<1>5. /\ p \in heap /\ NotParked(p)
      /\ \A k \in Keys : index[k] = p => k = Key(t)
  BY <1>1, <1>3, <1>4 DEF IInv, OldInv, IndexInv
<1>6. /\ slabs' \in [Threads -> [SlabSizes -> Slab]]
      /\ UNCHANGED allocationSizeMap_
      /\ \/ heap' \in {heap, heap \ {p}} /\ FreeListsKept
         \/ heap' = heap /\ PutInFreeList(t, m, p)
  BY <1>1, <1>4, GiveBackSlabs DEF IInv, Typed, TypeOK
<1>7. heap' \in {heap, heap \ {p}}
  BY <1>6
<1>8. \A q : q # p /\ NotParked(q) => NotParked(q)'
  <2> SUFFICES ASSUME NEW q, q # p, NotParked(q), NEW u \in Threads, NEW n \in SlabSizes
               PROVE  q \notin slabs'[u][n].free
    BY DEF NotParked
  <2>1. slabs'[u][n].free \in {slabs[u][n].free, slabs[u][n].free \cup {p}}
    BY <1>6 DEF FreeListsKept, PutInFreeList
  <2> QED
    BY <2>1 DEF NotParked
<1>9. p \notin heap' => NotParked(p)'
  BY <1>5, <1>6 DEF FreeListsKept, NotParked
<1>10. /\ local' \in [Threads -> Frames]
       /\ \A u \in Threads \ {t} : local'[u] = local[u]
  <2> DEFINE frame == [local[t] EXCEPT !.pc = "p_index"]
  <2>1. frame \in Frames
    BY FrameUpdates, Requests DEF IInv, Typed, TypeOK, Labels, PutLocked, RemoveLocked
  <2> HIDE DEF frame
  <2> QED
    BY <1>1, <2>1 DEF IInv, Typed, frame
<1>11. Typed'
  BY <1>1, <1>6, <1>7, <1>10, FramesAreTyped DEF IInv, Typed, TypeOK, PoolTypeOK
<1>12. LockInv'
  BY <1>1, <1>10, ThreadsAssumption
     DEF IInv, Typed, TypeOK, Frames, LockInv, Locked, PutLocked, RemoveLocked
<1>13. RequestInv'
  BY <1>1, <1>10 DEF IInv, Typed, TypeOK, Frames, RequestInv, Locked, PutLocked, RemoveLocked
<1>14. ParkedInv'
  BY <1>7, <1>8, <1>9 DEF IInv, ParkedInv
<1>15. NewInv'
  BY <1>1, <1>2, <1>3, <1>4, <1>5, <1>6, <1>7, <1>8, <1>10
     DEF IInv, Typed, TypeOK, Frames, NewInv, OldInv, Copied, Locked, PutLocked
<1>16. OldInv'
  BY <1>1, <1>2, <1>4, <1>6, <1>7, <1>8, <1>10
     DEF IInv, Typed, TypeOK, Frames, OldInv, Locked, PutLocked, RemoveLocked
<1>17. IndexInv'
  BY <1>1, <1>2, <1>3, <1>4, <1>5, <1>6, <1>7, <1>8, <1>10
     DEF IInv, Typed, TypeOK, Frames, OldInv, IndexInv, Replacing, Locked, PutLocked,
         RemoveLocked
<1>18. GetInv'
  BY <1>1, <1>2, <1>4, <1>5, <1>7, <1>10
     DEF IInv, Typed, TypeOK, Frames, GetInv, Copied, Locked, PutLocked, RemoveLocked
<1>19. \A k : Stored(k)' = Stored(k)
  BY <1>1 DEF Stored
<1>20. LogInv'
  BY <1>1, <1>2, <1>10, <1>19
     DEF IInv, Typed, Frames, LogInv, Logging, Locked, PutLocked, RemoveLocked
<1> QED
  BY <1>11, <1>12, <1>13, <1>14, <1>15, <1>16, <1>17, <1>18, <1>20 DEF IInv

LEMMA RemoveOldUnregisterKeeps ==
  ASSUME NEW t \in Threads, IInv, RemoveOld(t), pc(t) = "r_unregister"
  PROVE  IInv'
<1>1. /\ pc(t) = "r_unregister"
      /\ local' = [local EXCEPT ![t] = [local[t] EXCEPT !.pc = "r_give_back",
                                                        !.size = allocationSizeMap_[oldMeta(t)]]]
      /\ allocationSizeMap_' = [allocationSizeMap_ EXCEPT ![oldMeta(t)] = NoSize]
      /\ UNCHANGED <<heap, slabs, index, memory, engineRWLock_, log, dangling, updates>>
  BY DEF RemoveOld, Deallocate, Goto, Step, Unregister
<1>2. \A u \in Threads \ {t} : pc(u) \notin Locked
  BY <1>1, OneThreadInside DEF Locked, PutLocked, RemoveLocked
<1>3. Key(t) \in Keys
  BY <1>1, Requests DEF PutLocked, RemoveLocked
<1>4. /\ oldMeta(t) \in Blocks /\ oldMeta(t) \in heap /\ NotParked(oldMeta(t))
      /\ \A k \in Keys : index[k] = oldMeta(t) => k = Key(t)
      /\ \A k \in Keys : index[k] # oldMeta(t)
  BY <1>1, <1>2, <1>3
     DEF IInv, Typed, TypeOK, PoolTypeOK, Frames, OldInv, IndexInv, Replacing, Locked, PutLocked,
         RemoveLocked
<1>5. /\ allocationSizeMap_' \in [Blocks \cup {Null} -> Sizes \cup {NoSize}]
      /\ \A p \in Blocks \ {oldMeta(t)} : allocationSizeMap_'[p] = allocationSizeMap_[p]
  BY <1>1, <1>4 DEF IInv, Typed, TypeOK, PoolTypeOK
<1>6. \A q : NotParked(q)' <=> NotParked(q)
  BY <1>1 DEF NotParked
<1>7. allocationSizeMap_[oldMeta(t)] \in Sizes \cup {NoSize}
  BY <1>4 DEF IInv, Typed, TypeOK, PoolTypeOK
<1>8. /\ local' \in [Threads -> Frames]
      /\ \A u \in Threads \ {t} : local'[u] = local[u]
  <2> DEFINE frame == [local[t] EXCEPT !.pc = "r_give_back",
                                       !.size = allocationSizeMap_[oldMeta(t)]]
  <2>1. frame \in Frames
    BY <1>7, FrameUpdates DEF IInv, Typed, Labels
  <2> HIDE DEF frame
  <2> QED
    BY <1>1, <2>1 DEF IInv, Typed, frame
<1>9. Typed'
  <2>1. PoolTypeOK'
    BY <1>1, <1>5 DEF IInv, Typed, TypeOK, PoolTypeOK
  <2> QED
    BY <1>1, <1>8, <2>1, FramesAreTyped DEF IInv, Typed, TypeOK
<1>10. LockInv'
  BY <1>1, <1>8, ThreadsAssumption
     DEF IInv, Typed, TypeOK, Frames, LockInv, Locked, PutLocked, RemoveLocked
<1>11. RequestInv'
  BY <1>1, <1>8 DEF IInv, Typed, TypeOK, Frames, RequestInv, Locked, PutLocked, RemoveLocked
<1>12. ParkedInv'
  BY <1>1 DEF IInv, ParkedInv, NotParked, poolVars
<1>13. NewInv'
  BY <1>1, <1>2, <1>3, <1>4, <1>5, <1>6, <1>8
     DEF IInv, Typed, TypeOK, Frames, NewInv, Copied, Locked, PutLocked
<1>14. OldInv'
  BY <1>1, <1>2, <1>4, <1>5, <1>6, <1>8
     DEF IInv, Typed, TypeOK, Frames, OldInv, Locked, PutLocked, RemoveLocked
<1>15. IndexInv'
  BY <1>1, <1>2, <1>3, <1>4, <1>5, <1>6, <1>8
     DEF IInv, Typed, TypeOK, Frames, IndexInv, Replacing, Locked, PutLocked, RemoveLocked
<1>16. GetInv'
  BY <1>1, <1>2, <1>8
     DEF IInv, Typed, TypeOK, Frames, GetInv, Copied, poolVars, Locked, PutLocked, RemoveLocked
<1>17. \A k : Stored(k)' = Stored(k)
  BY <1>1 DEF Stored
<1>18. LogInv'
  BY <1>1, <1>2, <1>8, <1>17
     DEF IInv, Typed, Frames, LogInv, Logging, Locked, PutLocked, RemoveLocked
<1> QED
  BY <1>9, <1>10, <1>11, <1>12, <1>13, <1>14, <1>15, <1>16, <1>18 DEF IInv

LEMMA RemoveOldGiveBackKeeps ==
  ASSUME NEW t \in Threads, IInv, RemoveOld(t), pc(t) = "r_give_back"
  PROVE  IInv'
<1>1. /\ pc(t) = "r_give_back"
      /\ local' = [local EXCEPT ![t] = [local[t] EXCEPT !.pc = "r_append"]]
      /\ GiveBack(t, local[t].size, oldMeta(t))
      /\ dangling' = dangling \cup {u \in Threads : /\ pc(u) = "g_copy"
                                                  /\ newMeta(u) \in heap \ heap'}
      /\ UNCHANGED <<index, memory, engineRWLock_, log, updates>>
  BY DEF RemoveOld, Deallocate, Goto, Step
<1>2. \A u \in Threads \ {t} : pc(u) \notin Locked
  BY <1>1, OneThreadInside DEF Locked, PutLocked, RemoveLocked
<1>3. Key(t) \in Keys
  BY <1>1, Requests DEF PutLocked, RemoveLocked
<1>4. PICK p \in Blocks, m \in Sizes \cup {NoSize} : p = oldMeta(t) /\ m = local[t].size
  BY <1>1 DEF IInv, Typed, Frames, OldInv
<1>5. /\ p \in heap /\ NotParked(p)
      /\ \A k \in Keys : index[k] = p => k = Key(t)
  BY <1>1, <1>3, <1>4 DEF IInv, OldInv, IndexInv
<1>6. /\ slabs' \in [Threads -> [SlabSizes -> Slab]]
      /\ UNCHANGED allocationSizeMap_
      /\ \/ heap' \in {heap, heap \ {p}} /\ FreeListsKept
         \/ heap' = heap /\ PutInFreeList(t, m, p)
  BY <1>1, <1>4, GiveBackSlabs DEF IInv, Typed, TypeOK
<1>7. heap' \in {heap, heap \ {p}}
  BY <1>6
<1>8. \A q : q # p /\ NotParked(q) => NotParked(q)'
  <2> SUFFICES ASSUME NEW q, q # p, NotParked(q), NEW u \in Threads, NEW n \in SlabSizes
               PROVE  q \notin slabs'[u][n].free
    BY DEF NotParked
  <2>1. slabs'[u][n].free \in {slabs[u][n].free, slabs[u][n].free \cup {p}}
    BY <1>6 DEF FreeListsKept, PutInFreeList
  <2> QED
    BY <2>1 DEF NotParked
<1>9. p \notin heap' => NotParked(p)'
  BY <1>5, <1>6 DEF FreeListsKept, NotParked
<1>10. /\ local' \in [Threads -> Frames]
       /\ \A u \in Threads \ {t} : local'[u] = local[u]
  <2> DEFINE frame == [local[t] EXCEPT !.pc = "r_append"]
  <2>1. frame \in Frames
    BY FrameUpdates, Requests DEF IInv, Typed, TypeOK, Labels, PutLocked, RemoveLocked
  <2> HIDE DEF frame
  <2> QED
    BY <1>1, <2>1 DEF IInv, Typed, frame
<1>11. Typed'
  BY <1>1, <1>6, <1>7, <1>10, FramesAreTyped DEF IInv, Typed, TypeOK, PoolTypeOK
<1>12. LockInv'
  BY <1>1, <1>10, ThreadsAssumption
     DEF IInv, Typed, TypeOK, Frames, LockInv, Locked, PutLocked, RemoveLocked
<1>13. RequestInv'
  BY <1>1, <1>10 DEF IInv, Typed, TypeOK, Frames, RequestInv, Locked, PutLocked, RemoveLocked
<1>14. ParkedInv'
  BY <1>7, <1>8, <1>9 DEF IInv, ParkedInv
<1>15. NewInv'
  BY <1>1, <1>2, <1>3, <1>4, <1>5, <1>6, <1>7, <1>8, <1>10
     DEF IInv, Typed, TypeOK, Frames, NewInv, OldInv, Copied, Locked, PutLocked
<1>16. OldInv'
  BY <1>1, <1>2, <1>4, <1>6, <1>7, <1>8, <1>10
     DEF IInv, Typed, TypeOK, Frames, OldInv, Locked, PutLocked, RemoveLocked
<1>17. IndexInv'
  BY <1>1, <1>2, <1>3, <1>4, <1>5, <1>6, <1>7, <1>8, <1>10
     DEF IInv, Typed, TypeOK, Frames, OldInv, IndexInv, Replacing, Locked, PutLocked,
         RemoveLocked
<1>18. GetInv'
  BY <1>1, <1>2, <1>4, <1>5, <1>7, <1>10
     DEF IInv, Typed, TypeOK, Frames, GetInv, Copied, Locked, PutLocked, RemoveLocked
<1>19. \A k : Stored(k)' = Stored(k)
  BY <1>1 DEF Stored
<1>20. LogInv'
  BY <1>1, <1>2, <1>10, <1>19
     DEF IInv, Typed, Frames, LogInv, Logging, Locked, PutLocked, RemoveLocked
<1> QED
  BY <1>11, <1>12, <1>13, <1>14, <1>15, <1>16, <1>17, <1>18, <1>20 DEF IInv

LEMMA GetCopyKeeps ==
  ASSUME NEW t \in Threads, IInv, GetCopy(t)
  PROVE  IInv'
<1>1. PICK v \in BytesRead(t) : Answer(t, "g_copy", v)
  BY DEF GetCopy
<1>2. v \in Values \cup {Garbage}
  <2>1. CASE t \in dangling
    BY <2>1 DEF BytesRead
  <2>2. CASE t \notin dangling
    <3>1. newMeta(t) \in Blocks
      BY <2>2 DEF GetCopy, IInv, GetInv, Typed, TypeOK, PoolTypeOK
    <3> QED
      BY <2>2, <3>1 DEF BytesRead, IInv, Typed, TypeOK
  <2> QED
    BY <2>1, <2>2
<1> QED
  BY <1>1, <1>2, AnswerKeeps DEF GetCopy, Results

LEMMA AnswersKeep ==
  ASSUME NEW t \in Threads, IInv, PutFails(t) \/ RemoveMisses(t) \/ GetMisses(t)
  PROVE  IInv'
<1>1. FALSE \in Results /\ Missing \in Results
  BY DEF Results
<1> QED
  BY <1>1, AnswerKeeps DEF PutFails, RemoveMisses, GetMisses

-----------------------------------------------------------------------------

LEMMA NextKeeps == IInv /\ [Next]_vars => IInv'
<1> SUFFICES ASSUME IInv, [Next]_vars
             PROVE  IInv'
  OBVIOUS
<1>1. CASE Next
  <2> PICK t \in Threads :
         \/ \E k \in Keys : \/ \E v \in Values : PutCall(t, k, v)
                            \/ GetCall(t, k) \/ RemoveCall(t, k)
         \/ PutLock(t) \/ (\E p \in Blocks \cup {Null} : PutMalloc(t, p))
         \/ PutRegister(t) \/ PutCopy(t) \/ PutFails(t) \/ PutLookup(t)
         \/ PutRemoveOld(t) \/ PutIndex(t) \/ PutAppend(t)
         \/ GetLookup(t) \/ GetMisses(t) \/ GetCopy(t)
         \/ RemoveLock(t) \/ RemoveLookup(t) \/ RemoveMisses(t)
         \/ RemoveIndex(t) \/ RemoveOld(t) \/ RemoveAppend(t)
         \/ Return(t)
    BY <1>1 DEF Next
  <2>1. CASE \E k \in Keys : \/ \E v \in Values : PutCall(t, k, v)
                             \/ GetCall(t, k) \/ RemoveCall(t, k)
    BY <2>1, CallsKeep
  <2>2. CASE PutLock(t) \/ (\E p \in Blocks \cup {Null} : PutMalloc(t, p)) \/ PutRegister(t)
             \/ PutCopy(t) \/ PutFails(t) \/ PutLookup(t)
    BY <2>2, LockKeeps, PutMallocKeeps, PutRegisterKeeps, PutCopyKeeps, AnswersKeep,
       PutLookupKeeps
  <2>3. CASE PutRemoveOld(t)
    <3>1. pc(t) \in {"p_unregister", "p_give_back"}
      BY <2>3 DEF PutRemoveOld, Deallocate, Goto, Step
    <3> QED
      BY <2>3, <3>1, PutRemoveOldUnregisterKeeps, PutRemoveOldGiveBackKeeps
  <2>4. CASE RemoveOld(t)
    <3>1. pc(t) \in {"r_unregister", "r_give_back"}
      BY <2>4 DEF RemoveOld, Deallocate, Goto, Step
    <3> QED
      BY <2>4, <3>1, RemoveOldUnregisterKeeps, RemoveOldGiveBackKeeps
  <2>5. CASE PutIndex(t) \/ PutAppend(t) \/ GetLookup(t) \/ GetMisses(t) \/ GetCopy(t)
    BY <2>5, PutIndexKeeps, PutAppendKeeps, GetLookupKeeps, AnswersKeep, GetCopyKeeps
  <2>6. CASE RemoveLock(t) \/ RemoveLookup(t) \/ RemoveMisses(t) \/ RemoveIndex(t)
             \/ RemoveAppend(t) \/ Return(t)
    BY <2>6, LockKeeps, RemoveLookupKeeps, AnswersKeep, RemoveIndexKeeps,
       RemoveAppendKeeps, ReturnKeeps
  <2> QED
    BY <2>1, <2>2, <2>3, <2>4, <2>5, <2>6
<1>2. CASE UNCHANGED vars
  <2>1. Typed' /\ LockInv' /\ RequestInv'
    BY <1>2 DEF vars, poolVars, IInv, Typed, TypeOK, PoolTypeOK, LockInv, RequestInv
  <2>2. ParkedInv' /\ NewInv' /\ OldInv' /\ IndexInv' /\ GetInv'
    BY <1>2
       DEF vars, poolVars, IInv, ParkedInv, NewInv, OldInv, IndexInv, Replacing, GetInv,
           NotParked
  <2>3. LogInv'
    BY <1>2 DEF vars, poolVars, IInv, LogInv, Stored
  <2> QED
    BY <2>1, <2>2, <2>3 DEF IInv
<1> QED
  BY <1>1, <1>2

LEMMA Invariance == Spec => []IInv
  BY InitIInv, NextKeeps, PTL DEF Spec

-----------------------------------------------------------------------------

\* Every reachable state is well typed (engine.cpp:25-64).
THEOREM TypeCorrect == Spec => []TypeOK
<1>1. IInv => TypeOK
  BY DEF IInv, Typed
<1> QED
  BY <1>1, Invariance, PTL

\* Whatever the threads do, the index refers to live, registered blocks that
\* no slab has parked, and no two keys share one, except for the block that the
\* put inside the lock is about to replace (engine.cpp:25-64).
THEOREM BlocksAreLive == Spec => []IndexedBlocksAreLive
<1>1. IInv => IndexedBlocksAreLive
  <2> SUFFICES ASSUME IInv
               PROVE  IndexedBlocksAreLive
    OBVIOUS
  <2>1. \A p : Replacing(p) => p \in BeingReplaced
    BY DEF Replacing, BeingReplaced
  <2> QED
    BY <2>1, ParkedIsInASlab DEF IInv, IndexInv, IndexedBlocksAreLive
<1> QED
  BY <1>1, Invariance, PTL

\* Whenever no thread holds the lock, the log replays to what the index holds,
\* however many updates there have been: unless a value is the empty string,
\* which the log cannot tell from a removal (engine.cpp:25-42, 52-64).
THEOREM LogIsTheIndex ==
  ASSUME Empty \notin SmallValues
  PROVE  Spec => []LogReplaysToIndex
<1>1. IInv => LogReplaysToIndex
  <2> SUFFICES ASSUME IInv, engineRWLock_ = Free
               PROVE  \A k \in Keys : Replayed(log, k) = Stored(k)
    BY DEF LogReplaysToIndex
  <2>1. \A t \in Threads : pc(t) \notin Locked
    BY ThreadsAssumption DEF IInv, LockInv
  <2>2. \A t \in Threads : pc(t) \notin Logging
    BY <2>1 DEF Logging, Locked, PutLocked, RemoveLocked
  <2> QED
    BY <2>2 DEF IInv, LogInv
<1> QED
  BY <1>1, Invariance, PTL

-----------------------------------------------------------------------------
(* The engine implements KVStore: every step is a step of the abstract     *)
(* store or leaves it unchanged.                                           *)


PendingRecord(t) == [key |-> Key(t), val |-> IF pc(t) = "p_append" THEN Val(t) ELSE Empty]

\* At most one update waits for its record to be appended.
JournalInv ==
  /\ (\A t \in Threads : pc(t) \notin Logging) => Journal = log
  /\ \A t \in Threads : pc(t) \in Logging => Journal = Append(log, PendingRecord(t))

LEMMA JournalIsTheLog == IInv => JournalInv
<1> SUFFICES ASSUME IInv
             PROVE  JournalInv
  OBVIOUS
<1> DEFINE appending == {t \in Threads : pc(t) \in Logging}
<1>1. (\A t \in Threads : pc(t) \notin Logging) => Journal = log
  BY DEF Journal
<1>2. ASSUME NEW t \in Threads, pc(t) \in Logging
      PROVE  Journal = Append(log, PendingRecord(t))
  <2>1. pc(t) \in Locked
    BY <1>2 DEF Logging, Locked, PutLocked, RemoveLocked
  <2>2. \A u \in Threads \ {t} : pc(u) \notin Logging
    BY <2>1, OneThreadInside DEF Logging, Locked, PutLocked, RemoveLocked
  <2>3. appending = {t}
    BY <1>2, <2>2
  <2>4. (CHOOSE u \in appending : TRUE) = t
    BY <2>3
  <2> QED
    BY <2>3, <2>4 DEF Journal, PendingRecord
<1> QED
  BY <1>1, <1>2 DEF JournalInv

\* The three forms of an answer.
AnswersInv ==
  \A u \in Threads :
    /\ pc(u) = "g_copy" /\ u \notin dangling => Answered[u] = memory[newMeta(u)]
    /\ pc(u) \in Logging => Answered[u] \in {TRUE}
    /\ ~(pc(u) = "g_copy" /\ u \notin dangling) /\ pc(u) \notin Logging =>
         Answered[u] = local[u].result

LEMMA AnswersAre == AnswersInv
  BY DEF AnswersInv, Answered, Logging

\* What the proofs of the steps assume.
Reached == IInv /\ JournalInv /\ JournalInv' /\ AnswersInv /\ AnswersInv'

LEMMA JournalKept ==
  ASSUME Reached, UNCHANGED log,
         \A u \in Threads : /\ pc(u)' \in Logging <=> pc(u) \in Logging
                            /\ pc(u) \in Logging => PendingRecord(u)' = PendingRecord(u)
  PROVE  Journal' = Journal
<1>1. CASE \A u \in Threads : pc(u) \notin Logging
  BY <1>1 DEF Reached, JournalInv
<1>2. CASE \E u \in Threads : pc(u) \in Logging
  <2> PICK u \in Threads : pc(u) \in Logging
    BY <1>2
  <2>1. Journal = Append(log, PendingRecord(u))
    BY DEF Reached, JournalInv
  <2>2. Journal' = Append(log', PendingRecord(u)')
    BY DEF Reached, JournalInv
  <2> QED
    BY <2>1, <2>2
<1> QED
  BY <1>1, <1>2

LEMMA ChangedAt ==
  ASSUME NEW S, NEW t \in S, NEW x, NEW f, NEW g,
         f = [u \in S |-> f[u]], g = [u \in S |-> g[u]],
         g[t] = x, \A u \in S \ {t} : g[u] = f[u]
  PROVE  g = [f EXCEPT ![t] = x]
  OBVIOUS

\* A step of thread t moves the abstract call of t only.
LEMMA OthersStay ==
  ASSUME NEW t \in Threads, \A u \in Threads \ {t} : local'[u] = local[u]
  PROVE  /\ Stage' = [Stage EXCEPT ![t] = Stage'[t]]
         /\ Calling' = [Calling EXCEPT ![t] = Calling'[t]]
<1>1. \A u \in Threads \ {t} : Stage'[u] = Stage[u]
  BY DEF Stage
<1>2. Stage = [u \in Threads |-> Stage[u]] /\ Stage' = [u \in Threads |-> Stage'[u]]
  BY DEF Stage
<1>3. \A u \in Threads \ {t} : Calling'[u] = Calling[u]
  BY DEF Calling
<1>4. Calling = [u \in Threads |-> Calling[u]] /\ Calling' = [u \in Threads |-> Calling'[u]]
  BY DEF Calling
<1> QED
  BY <1>1, <1>2, <1>3, <1>4, ChangedAt

\* The answers of the other threads stay too, if the blocks that they are
\* about to copy from are not written.
LEMMA OtherAnswersStay ==
  ASSUME Reached, NEW t \in Threads,
         \A u \in Threads \ {t} :
           /\ local'[u] = local[u]
           /\ u \in dangling' <=> u \in dangling
           /\ pc(u) = "g_copy" /\ u \notin dangling => memory'[newMeta(u)] = memory[newMeta(u)]
  PROVE  Answered' = [Answered EXCEPT ![t] = Answered'[t]]
<1>1. \A u \in Threads \ {t} : Answered'[u] = Answered[u]
  <2> SUFFICES ASSUME NEW u \in Threads \ {t}
               PROVE  Answered'[u] = Answered[u]
    OBVIOUS
  <2>1. CASE pc(u) = "g_copy" /\ u \notin dangling
    <3>1. Answered[u] = memory[newMeta(u)] /\ Answered'[u] = memory'[newMeta(u)]
      BY <2>1 DEF Reached, AnswersInv
    <3> QED
      BY <2>1, <3>1
  <2>2. CASE pc(u) \in Logging
    BY <2>2 DEF Reached, AnswersInv
  <2>3. CASE ~(pc(u) = "g_copy" /\ u \notin dangling) /\ pc(u) \notin Logging
    BY <2>3, ZenonT(30) DEF Reached, AnswersInv
  <2> QED
    BY <2>1, <2>2, <2>3
<1>2. Answered = [u \in Threads |-> Answered[u]] /\ Answered' = [u \in Threads |-> Answered'[u]]
  BY DEF Answered
<1> QED
  BY <1>1, <1>2, ChangedAt

\* Where a call can be without having taken effect.
Pending == Labels \ (Logging \cup {"idle", "g_copy", "return"})

\* A call of thread t begins.
LEMMA CallStarts ==
  ASSUME Reached, NEW t \in Threads, NEW op, NEW k \in Keys, NEW v, NEW to \in Pending,
         Call(t, op, k, v, to), [op |-> op, key |-> k, val |-> v] \in Abstract!Calls
  PROVE  Abstract!Next
<1> DEFINE c == [op |-> op, key |-> k, val |-> v]
<1>1. /\ pc(t) = "idle"
      /\ local' = [local EXCEPT ![t] = [local[t] EXCEPT !.pc = to, !.request = c]]
      /\ UNCHANGED <<index, memory, log, dangling>>
  BY DEF Call, Step
<1> HIDE DEF c
<1>2. /\ local'[t].pc = to
      /\ local'[t].request = c
      /\ local'[t].result = local[t].result
      /\ \A u \in Threads \ {t} : local'[u] = local[u]
  BY <1>1 DEF Reached, IInv, Typed, Frames
<1>3. Stage[t] = "idle" /\ Stage' = [Stage EXCEPT ![t] = "pending"]
  <2>1. Stage[t] = "idle" /\ Stage'[t] = "pending"
    BY <1>1, <1>2 DEF Stage, Logging, Pending, Labels
  <2> QED
    BY <1>2, <2>1, OthersStay
<1>4. Answered' = Answered
  <2>1. Answered'[t] = Answered[t]
    BY <1>1, <1>2 DEF Reached, AnswersInv, Logging, Pending, Labels
  <2>2. Answered' = [Answered EXCEPT ![t] = Answered'[t]]
    BY <1>1, <1>2, OtherAnswersStay
  <2> QED
    BY <2>1, <2>2 DEF Answered
<1>5. Store' = Store
  BY <1>1 DEF Store, Stored
<1>6. Journal' = Journal
  BY <1>1, <1>2, JournalKept DEF PendingRecord, Logging, Pending, Labels
<1>7. Calling' = [Calling EXCEPT ![t] = c]
  <2>1. Calling'[t] = c
    BY <1>2 DEF Calling
  <2> QED
    BY <1>2, <2>1, OthersStay
<1> QED
  BY <1>1, <1>3, <1>4, <1>5, <1>6, <1>7
     DEF Abstract!Next, Abstract!Start, Abstract!Moves, c

LEMMA CallsStart ==
  ASSUME Reached, NEW t \in Threads, NEW k \in Keys,
         (\E v \in Values : PutCall(t, k, v)) \/ GetCall(t, k) \/ RemoveCall(t, k)
  PROVE  Abstract!Next
<1>1. {"p_lock", "g_lookup", "r_lock"} \subseteq Pending
  BY DEF Pending, Labels, Logging
<1>2. ASSUME NEW v \in Values, PutCall(t, k, v)
      PROVE  Abstract!Next
  <2>1. [op |-> "put", key |-> k, val |-> v] \in Abstract!Calls
    BY DEF Abstract!Calls, Abstract!Puts
  <2> QED
    BY <1>1, <1>2, <2>1, CallStarts DEF PutCall, UpdateCall
<1>3. CASE GetCall(t, k)
  <2>1. [op |-> "get", key |-> k, val |-> Missing] \in Abstract!Calls
    BY DEF Abstract!Calls, Abstract!Gets
  <2> QED
    BY <1>1, <1>3, <2>1, CallStarts DEF GetCall
<1>4. CASE RemoveCall(t, k)
  <2>1. [op |-> "remove", key |-> k, val |-> Missing] \in Abstract!Calls
    BY DEF Abstract!Calls, Abstract!Removes
  <2> QED
    BY <1>1, <1>4, <2>1, CallStarts DEF RemoveCall, UpdateCall
<1> QED
  BY <1>2, <1>3, <1>4

\* A put that gets no memory, and a remove and a get that miss.
LEMMA FailuresAnswer ==
  ASSUME NEW t \in Threads, Reached, PutFails(t) \/ RemoveMisses(t) \/ GetMisses(t)
  PROVE  Abstract!Next
<1> PICK op \in {"put", "remove", "get"}, r \in {FALSE, Missing} :
      /\ \/ op = "put" /\ pc(t) = "p_copy" /\ r = FALSE
         \/ op = "remove" /\ pc(t) = "r_lookup" /\ r = FALSE /\ index[Key(t)] = Null
         \/ op = "get" /\ pc(t) = "g_lookup" /\ r = Missing /\ index[Key(t)] = Null
      /\ local' = [local EXCEPT ![t] = [local[t] EXCEPT !.pc = "return", !.result = r]]
      /\ UNCHANGED <<index, memory, log, dangling>>
  <2>1. CASE PutFails(t)
    BY <2>1 DEF PutFails, Answer, Step
  <2>2. CASE RemoveMisses(t)
    BY <2>2 DEF RemoveMisses, Answer, Step
  <2>3. CASE GetMisses(t)
    BY <2>3 DEF GetMisses, Answer, Step
  <2> QED
    BY <2>1, <2>2, <2>3
<1>1. /\ local'[t].pc = "return"
      /\ local'[t].request = local[t].request
      /\ local'[t].result = r
      /\ \A u \in Threads \ {t} : local'[u] = local[u]
  BY DEF Reached, IInv, Typed, Frames
<1>2. Calling[t].op = op
  BY DEF Calling, Reached, IInv, RequestInv, PutLocked, RemoveLocked,
         Abstract!Puts, Abstract!Removes, Abstract!Gets
<1>3. op # "put" => Store[Calling[t].key] = Missing
  BY Requests DEF Calling, Store, Stored, Reached, PutLocked, RemoveLocked
<1>4. Stage[t] = "pending" /\ Stage' = [Stage EXCEPT ![t] = "done"]
  <2>1. Stage[t] = "pending" /\ Stage'[t] = "done"
    BY <1>1 DEF Stage, Logging
  <2> QED
    BY <1>1, <2>1, OthersStay
<1>5. Answered' = [Answered EXCEPT ![t] = r]
  <2>1. Answered'[t] = r
    BY <1>1 DEF Reached, AnswersInv, Logging
  <2>2. Answered' = [Answered EXCEPT ![t] = Answered'[t]]
    BY <1>1, OtherAnswersStay
  <2> QED
    BY <2>1, <2>2
<1>6. Store' = Store
  BY DEF Store, Stored
<1>7. Journal' = Journal
  BY <1>1, JournalKept DEF PendingRecord, Logging
<1>8. Calling' = Calling
  BY <1>1 DEF Calling
<1>9. Abstract!PutFails(t) \/ Abstract!RemoveFails(t) \/ Abstract!Get(t)
  <2>1. CASE op = "put"
    BY <1>2, <1>4, <1>5, <1>6, <1>7, <1>8, <2>1
       DEF Abstract!PutFails, Abstract!Moves, Abstract!Answers
  <2>2. CASE op = "remove"
    BY <1>2, <1>3, <1>4, <1>5, <1>6, <1>7, <1>8, <2>2
       DEF Abstract!RemoveFails, Abstract!Moves, Abstract!Answers
  <2>3. CASE op = "get"
    BY <1>2, <1>3, <1>4, <1>5, <1>6, <1>7, <1>8, <2>3
       DEF Abstract!Get, Abstract!Moves, Abstract!Answers
  <2> QED
    BY <2>1, <2>2, <2>3
<1> QED
  BY <1>9 DEF Abstract!Next

LEMMA PutIndexPuts ==
  ASSUME NEW t \in Threads, Reached, PutIndex(t)
  PROVE  Abstract!Next
<1>1. /\ pc(t) = "p_index"
      /\ local' = [local EXCEPT ![t] = [local[t] EXCEPT !.pc = "p_append"]]
      /\ index' = [index EXCEPT ![Key(t)] = newMeta(t)]
      /\ UNCHANGED <<poolVars, memory, engineRWLock_, log, dangling, updates>>
  BY DEF PutIndex, SetIndex, Goto, Step
<1>2. /\ local'[t].pc = "p_append"
      /\ local'[t].request = local[t].request
      /\ local'[t].newMeta = local[t].newMeta
      /\ local'[t].oldMeta = local[t].oldMeta
      /\ local'[t].result = local[t].result
      /\ \A u \in Threads \ {t} : local'[u] = local[u]
  BY <1>1 DEF Reached, IInv, Typed, Frames
<1>3. /\ Calling[t].op = "put" /\ Calling[t].key = Key(t) /\ Calling[t].val = Val(t)
      /\ Key(t) \in Keys
  BY <1>1, Requests DEF Calling, Reached, IInv, RequestInv, PutLocked, Abstract!Puts
<1>4. newMeta(t) # Null /\ memory[newMeta(t)] = Val(t)
  BY <1>1 DEF Reached, IInv, NewInv, Copied
<1>5. \A u \in Threads : pc(u) \notin Logging
  BY <1>1, OneThreadInside DEF Reached, Locked, PutLocked, RemoveLocked, Logging
<1>6. Stage[t] = "pending" /\ Stage' = [Stage EXCEPT ![t] = "done"]
  <2>1. Stage[t] = "pending" /\ Stage'[t] = "done"
    BY <1>1, <1>2 DEF Stage, Logging
  <2> QED
    BY <1>2, <2>1, OthersStay
<1>7. Answered' = [Answered EXCEPT ![t] = TRUE]
  <2>1. Answered'[t] = TRUE
    BY <1>1, <1>2 DEF Reached, AnswersInv, Logging, IInv, RequestInv
  <2>2. Answered' = [Answered EXCEPT ![t] = Answered'[t]]
    BY <1>1, <1>2, OtherAnswersStay
  <2> QED
    BY <2>1, <2>2
<1>8. Store' = [Store EXCEPT ![Key(t)] = Val(t)]
  BY <1>1, <1>3, <1>4 DEF Store, Stored, Reached, IInv, Typed, TypeOK
<1>9. Journal' = Append(Journal, [key |-> Key(t), val |-> Val(t)])
  BY <1>1, <1>2, <1>5 DEF Reached, JournalInv, PendingRecord, Logging, Frames
<1>10. Calling' = Calling
  BY <1>2 DEF Calling
<1> QED
  BY <1>1, <1>3, <1>6, <1>7, <1>8, <1>9, <1>10
     DEF Abstract!Next, Abstract!Moves, Abstract!Answers, Abstract!Put

LEMMA RemoveIndexRemoves ==
  ASSUME NEW t \in Threads, Reached, RemoveIndex(t)
  PROVE  Abstract!Next
<1>1. /\ pc(t) = "r_index"
      /\ local' = [local EXCEPT ![t] = [local[t] EXCEPT !.pc = "r_unregister"]]
      /\ index' = [index EXCEPT ![Key(t)] = Null]
      /\ UNCHANGED <<poolVars, memory, engineRWLock_, log, dangling, updates>>
  BY DEF RemoveIndex, SetIndex, Goto, Step
<1>2. /\ local'[t].pc = "r_unregister"
      /\ local'[t].request = local[t].request
      /\ local'[t].newMeta = local[t].newMeta
      /\ local'[t].oldMeta = local[t].oldMeta
      /\ local'[t].result = local[t].result
      /\ \A u \in Threads \ {t} : local'[u] = local[u]
  BY <1>1 DEF Reached, IInv, Typed, Frames
<1>3. Calling[t].op = "remove" /\ Calling[t].key = Key(t) /\ Key(t) \in Keys
  BY <1>1, Requests DEF Calling, Reached, IInv, RequestInv, RemoveLocked, Abstract!Removes
<1>4. Store[Key(t)] # Missing
  BY <1>1, <1>3, MissingAssumption DEF Store, Stored, Values, Reached, IInv, OldInv, IndexInv
<1>5. \A u \in Threads : pc(u) \notin Logging
  BY <1>1, OneThreadInside DEF Reached, Locked, PutLocked, RemoveLocked, Logging
<1>6. Stage[t] = "pending" /\ Stage' = [Stage EXCEPT ![t] = "done"]
  <2>1. Stage[t] = "pending" /\ Stage'[t] = "done"
    BY <1>1, <1>2 DEF Stage, Logging
  <2> QED
    BY <1>2, <2>1, OthersStay
<1>7. Answered' = [Answered EXCEPT ![t] = TRUE]
  <2>1. Answered'[t] = TRUE
    BY <1>1, <1>2 DEF Reached, AnswersInv, Logging, IInv, RequestInv
  <2>2. Answered' = [Answered EXCEPT ![t] = Answered'[t]]
    BY <1>1, <1>2, OtherAnswersStay
  <2> QED
    BY <2>1, <2>2
<1>8. Store' = [Store EXCEPT ![Key(t)] = Missing]
  BY <1>1, <1>3 DEF Store, Stored, Reached, IInv, Typed, TypeOK
<1>9. Journal' = Append(Journal, [key |-> Key(t), val |-> Empty])
  BY <1>1, <1>2, <1>5 DEF Reached, JournalInv, PendingRecord, Logging, Frames
<1>10. Calling' = Calling
  BY <1>2 DEF Calling
<1> QED
  BY <1>1, <1>3, <1>4, <1>6, <1>7, <1>8, <1>9, <1>10
     DEF Abstract!Next, Abstract!Moves, Abstract!Answers, Abstract!Remove

\* The record that an append adds is the one that the journal has already.
LEMMA AppendStutters ==
  ASSUME NEW t \in Threads, Reached, PutAppend(t) \/ RemoveAppend(t)
  PROVE  UNCHANGED Abstract!vars
<1>1. /\ pc(t) \in {"p_append", "r_append"}
      /\ local' = [local EXCEPT ![t] = [local[t] EXCEPT !.pc = "return", !.result = TRUE]]
      /\ log' = Append(log, PendingRecord(t))
      /\ UNCHANGED <<index, memory, dangling>>
  BY DEF PutAppend, RemoveAppend, AnswerLogged, Answer, Step, PendingRecord
<1>2. /\ local'[t].pc = "return"
      /\ local'[t].request = local[t].request
      /\ local'[t].newMeta = local[t].newMeta
      /\ local'[t].oldMeta = local[t].oldMeta
      /\ local'[t].result = TRUE
      /\ \A u \in Threads \ {t} : local'[u] = local[u]
  BY <1>1 DEF Reached, IInv, Typed, Frames
<1>3. \A u \in Threads \ {t} : pc(u) \notin Logging
  BY <1>1, OneThreadInside DEF Reached, Locked, PutLocked, RemoveLocked, Logging
<1>4. Stage' = Stage
  BY <1>1, <1>2 DEF Stage, Logging
<1>5. Answered' = Answered
  <2>1. Answered'[t] = Answered[t]
    BY <1>1, <1>2 DEF Reached, AnswersInv, Logging, IInv, RequestInv
  <2>2. Answered' = [Answered EXCEPT ![t] = Answered'[t]]
    BY <1>1, <1>2, OtherAnswersStay
  <2> QED
    BY <2>1, <2>2 DEF Answered
<1>6. Store' = Store
  BY <1>1 DEF Store, Stored
<1>7. Journal' = Journal
  BY <1>1, <1>2, <1>3 DEF Reached, JournalInv, PendingRecord, Logging, Frames
<1>8. Calling' = Calling
  BY <1>2 DEF Calling
<1> QED
  BY <1>1, <1>4, <1>5, <1>6, <1>7, <1>8 DEF Abstract!vars

LEMMA ReturnReturns ==
  ASSUME NEW t \in Threads, Reached, Return(t)
  PROVE  Abstract!Next
<1>1. /\ pc(t) = "return"
      /\ local' = [local EXCEPT ![t] = Idle]
      /\ dangling' = dangling \ {t}
      /\ UNCHANGED <<poolVars, index, memory, log, updates>>
  BY DEF Return, Step
<1>2. /\ local'[t].pc = "idle"
      /\ local'[t].request = NoCall
      /\ local'[t].newMeta = Null
      /\ local'[t].oldMeta = Null
      /\ local'[t].result = Missing
      /\ \A u \in Threads \ {t} : local'[u] = local[u]
  BY <1>1 DEF Reached, IInv, Typed, Frames, Idle
<1>3. Stage[t] = "done" /\ Stage' = [Stage EXCEPT ![t] = "idle"]
  <2>1. Stage[t] = "done" /\ Stage'[t] = "idle"
    BY <1>1, <1>2 DEF Stage, Logging
  <2> QED
    BY <1>2, <2>1, OthersStay
<1>4. Answered' = [Answered EXCEPT ![t] = Missing]
  <2>1. Answered'[t] = Missing
    BY <1>1, <1>2 DEF Reached, AnswersInv, Logging, IInv, RequestInv
  <2>2. Answered' = [Answered EXCEPT ![t] = Answered'[t]]
    BY <1>1, <1>2, OtherAnswersStay
  <2> QED
    BY <2>1, <2>2
<1>5. Store' = Store
  BY <1>1 DEF Store, Stored
<1>6. Journal' = Journal
  BY <1>1, <1>2, JournalKept DEF PendingRecord, Logging
<1>7. Calling' = [Calling EXCEPT ![t] = NoCall]
  <2>1. Calling'[t] = NoCall
    BY <1>2 DEF Calling
  <2> QED
    BY <1>2, <2>1, OthersStay
<1> QED
  BY <1>1, <1>3, <1>4, <1>5, <1>6, <1>7
     DEF Abstract!Next, Abstract!Moves, Abstract!Answers, Abstract!Return

\* A step of a call that neither takes effect nor answers is none of the
\* abstract store's, if it leaves the values that the store has and those that
\* a get is about to copy.
LEMMA Stutters ==
  ASSUME Reached, NEW t \in Threads,
         \A u \in Threads \ {t} : local'[u] = local[u],
         local'[t].request = local[t].request,
         local'[t].result = local[t].result,
         \/ pc(t) \in Pending /\ local'[t].pc \in Pending
         \/ pc(t) = "r_unregister" /\ local'[t].pc = "r_give_back",
         \A u \in Threads \ {t} : pc(u) = "g_copy" /\ u \notin dangling =>
                                    memory'[newMeta(u)] = memory[newMeta(u)],
         Store' = Store,
         UNCHANGED <<log, dangling>>
  PROVE  UNCHANGED Abstract!vars
<1>1. Stage' = Stage
  <2>1. Stage'[t] = Stage[t]
    BY DEF Stage, Pending, Labels, Logging
  <2>2. Stage' = [Stage EXCEPT ![t] = Stage'[t]]
    BY OthersStay
  <2>3. Stage = [u \in Threads |-> Stage[u]]
    BY DEF Stage
  <2> QED
    BY <2>1, <2>2, <2>3
<1>2. Answered' = Answered
  <2>1. Answered'[t] = Answered[t]
    BY DEF Reached, AnswersInv, Pending, Labels, Logging
  <2>2. Answered' = [Answered EXCEPT ![t] = Answered'[t]]
    BY OtherAnswersStay
  <2>3. Answered = [u \in Threads |-> Answered[u]]
    BY DEF Answered
  <2> QED
    BY <2>1, <2>2, <2>3
<1>3. Journal' = Journal
  <2>1. \A u \in Threads : /\ local'[u].pc \in Logging <=> pc(u) \in Logging
                           /\ local'[u].pc = "p_append" <=> pc(u) = "p_append"
                           /\ local'[u].request = local[u].request
    BY DEF Pending, Labels, Logging
  <2> QED
    BY <2>1, JournalKept DEF PendingRecord
<1>4. Calling' = Calling
  BY OthersStay DEF Calling
<1> QED
  BY <1>1, <1>2, <1>3, <1>4 DEF Abstract!vars

\* The steps that only move their thread from one label to another.
LEMMA LockStutters ==
  ASSUME Reached, NEW t \in Threads, PutLock(t) \/ RemoveLock(t)
  PROVE  UNCHANGED Abstract!vars
<1> PICK to \in {"p_malloc", "r_lookup"} :
      /\ pc(t) \in {"p_lock", "r_lock"}
      /\ local' = [local EXCEPT ![t] = [local[t] EXCEPT !.pc = to]]
      /\ UNCHANGED <<index, memory, log, dangling>>
  BY DEF PutLock, RemoveLock, Lock, Goto, Step
<1>1. /\ local'[t].pc = to
      /\ local'[t].request = local[t].request
      /\ local'[t].result = local[t].result
      /\ \A u \in Threads \ {t} : local'[u] = local[u]
  BY DEF Reached, IInv, Typed, Frames
<1>2. Store' = Store
  BY DEF Store, Stored
<1> QED
  BY <1>1, <1>2, Stutters DEF Pending, Labels, Logging

LEMMA PutRegisterStutters ==
  ASSUME Reached, NEW t \in Threads, PutRegister(t)
  PROVE  UNCHANGED Abstract!vars
<1>1. /\ pc(t) = "p_register"
      /\ local' = [local EXCEPT ![t] = [local[t] EXCEPT !.pc = "p_copy"]]
      /\ UNCHANGED <<index, memory, log, dangling>>
  BY DEF PutRegister, Goto, Step
<1>2. /\ local'[t].pc = "p_copy"
      /\ local'[t].request = local[t].request
      /\ local'[t].result = local[t].result
      /\ \A u \in Threads \ {t} : local'[u] = local[u]
  BY <1>1 DEF Reached, IInv, Typed, Frames
<1>3. Store' = Store
  BY <1>1 DEF Store, Stored
<1> QED
  BY <1>1, <1>2, <1>3, Stutters DEF Pending, Labels, Logging

LEMMA LookupStutters ==
  ASSUME Reached, NEW t \in Threads, PutLookup(t) \/ RemoveLookup(t)
  PROVE  UNCHANGED Abstract!vars
<1> PICK to \in {"p_index", "p_unregister", "r_index"} :
      /\ pc(t) \in {"p_lookup", "r_lookup"}
      /\ local' = [local EXCEPT ![t] = [local[t] EXCEPT !.pc = to, !.oldMeta = index[Key(t)]]]
      /\ UNCHANGED <<index, memory, log, dangling>>
  BY DEF PutLookup, RemoveLookup, LookupOld, Step
<1>1. /\ local'[t].pc = to
      /\ local'[t].request = local[t].request
      /\ local'[t].result = local[t].result
      /\ \A u \in Threads \ {t} : local'[u] = local[u]
  BY DEF Reached, IInv, Typed, Frames
<1>2. Store' = Store
  BY DEF Store, Stored
<1> QED
  BY <1>1, <1>2, Stutters DEF Pending, Labels, Logging

LEMMA UnregisterStutters ==
  ASSUME Reached, NEW t \in Threads, PutRemoveOld(t) \/ RemoveOld(t),
         pc(t) \in {"p_unregister", "r_unregister"}
  PROVE  UNCHANGED Abstract!vars
<1> DEFINE to == IF pc(t) = "p_unregister" THEN "p_give_back" ELSE "r_give_back"
<1>1. /\ local' = [local EXCEPT ![t] = [local[t] EXCEPT !.pc = to,
                                                        !.size = allocationSizeMap_[oldMeta(t)]]]
      /\ UNCHANGED <<heap, index, memory, log>>
      /\ dangling' = dangling \cup {u \in Threads : /\ pc(u) = "g_copy"
                                                  /\ newMeta(u) \in heap \ heap'}
  BY DEF PutRemoveOld, RemoveOld, Deallocate, Unregister, Goto, Step
<1>2. \/ pc(t) = "p_unregister" /\ to = "p_give_back"
      \/ pc(t) = "r_unregister" /\ to = "r_give_back"
  OBVIOUS
<1> HIDE DEF to
<1>3. /\ local'[t].pc = to
      /\ local'[t].request = local[t].request
      /\ local'[t].result = local[t].result
      /\ \A u \in Threads \ {t} : local'[u] = local[u]
  BY <1>1 DEF Reached, IInv, Typed, Frames
<1>4. Store' = Store
  BY <1>1 DEF Store, Stored
<1>5. dangling' = dangling
  BY <1>1
<1> QED
  BY <1>1, <1>2, <1>3, <1>4, <1>5, Stutters DEF Pending, Labels, Logging

\* The address that malloc returns is neither in the index nor read by a get.
LEMMA PutMallocStutters ==
  ASSUME Reached, NEW t \in Threads, NEW p \in Blocks \cup {Null}, PutMalloc(t, p)
  PROVE  UNCHANGED Abstract!vars
<1>1. /\ pc(t) = "p_malloc"
      /\ local' = [local EXCEPT ![t] = [local[t] EXCEPT !.pc = "p_register", !.newMeta = p]]
      /\ memory' = [q \in Blocks |-> IF q = p THEN Garbage ELSE memory[q]]
      /\ p \notin heap
      /\ UNCHANGED <<index, log, dangling>>
  BY BlocksAssumption DEF PutMalloc, Step, Malloc, Reached, IInv, Typed, TypeOK, PoolTypeOK
<1>2. /\ local'[t].pc = "p_register"
      /\ local'[t].request = local[t].request
      /\ local'[t].result = local[t].result
      /\ \A u \in Threads \ {t} : local'[u] = local[u]
  BY <1>1 DEF Reached, IInv, Typed, Frames
<1>3. \A k \in Keys : index[k] # Null => index[k] \in heap
  BY <1>1, OneThreadInside
     DEF Reached, IInv, IndexInv, Replacing, Locked, PutLocked, RemoveLocked
<1>4. \A u \in Threads : pc(u) = "g_copy" /\ u \notin dangling =>
                           memory'[newMeta(u)] = memory[newMeta(u)]
  BY <1>1 DEF Reached, IInv, Typed, TypeOK, PoolTypeOK, GetInv
<1>5. Store' = Store
  BY <1>1, <1>3 DEF Store, Stored, Reached, IInv, Typed, TypeOK
<1> QED
  BY <1>1, <1>2, <1>4, <1>5, Stutters DEF Pending, Labels, Logging

\* Nor is the block into which a put copies its value.
LEMMA PutCopyStutters ==
  ASSUME Reached, NEW t \in Threads, PutCopy(t)
  PROVE  UNCHANGED Abstract!vars
<1>1. /\ pc(t) = "p_copy"
      /\ local' = [local EXCEPT ![t] = [local[t] EXCEPT !.pc = "p_lookup"]]
      /\ newMeta(t) # Null
      /\ memory' = [memory EXCEPT ![newMeta(t)] = Val(t)]
      /\ UNCHANGED <<index, log, dangling>>
  BY DEF PutCopy, Goto, Step
<1>2. /\ local'[t].pc = "p_lookup"
      /\ local'[t].request = local[t].request
      /\ local'[t].result = local[t].result
      /\ \A u \in Threads \ {t} : local'[u] = local[u]
  BY <1>1 DEF Reached, IInv, Typed, Frames
<1>3. \A k \in Keys : index[k] # newMeta(t)
  BY <1>1 DEF Reached, IInv, NewInv
<1>4. \A u \in Threads : pc(u) = "g_copy" /\ u \notin dangling =>
                           memory'[newMeta(u)] = memory[newMeta(u)]
  BY <1>1 DEF Reached, IInv, Typed, TypeOK, PoolTypeOK, GetInv
<1>5. Store' = Store
  BY <1>1, <1>3 DEF Store, Stored, Reached, IInv, Typed, TypeOK
<1> QED
  BY <1>1, <1>2, <1>4, <1>5, Stutters DEF Pending, Labels, Logging

\* A get that misses the window of an update is a Get of the abstract store.
LEMMA GetLookupGets ==
  ASSUME NEW t \in Threads, Reached, GetLookup(t), index[Key(t)] \in heap
  PROVE  Abstract!Next
<1>1. /\ pc(t) = "g_lookup"
      /\ local' = [local EXCEPT ![t] = [local[t] EXCEPT !.pc = "g_copy",
                                                        !.newMeta = index[Key(t)]]]
      /\ index[Key(t)] # Null
      /\ UNCHANGED <<poolVars, index, memory, engineRWLock_, log, updates, dangling>>
  BY DEF GetLookup, Step
<1>2. /\ local'[t].pc = "g_copy"
      /\ local'[t].request = local[t].request
      /\ local'[t].newMeta = index[Key(t)]
      /\ \A u \in Threads \ {t} : local'[u] = local[u]
  BY <1>1 DEF Reached, IInv, Typed, Frames
<1>3. Stage[t] = "pending" /\ Stage' = [Stage EXCEPT ![t] = "done"]
  <2>1. Stage[t] = "pending" /\ Stage'[t] = "done"
    BY <1>1, <1>2 DEF Stage, Logging
  <2>2. \A u \in Threads \ {t} : Stage'[u] = Stage[u]
    BY <1>2 DEF Stage
  <2>3. Stage = [u \in Threads |-> Stage[u]] /\ Stage' = [u \in Threads |-> Stage'[u]]
    BY DEF Stage
  <2> QED
    BY <2>1, <2>2, <2>3, ChangedAt
<1>4. Calling[t].op = "get" /\ Calling[t].key = Key(t) /\ Key(t) \in Keys
  BY <1>1, Requests DEF Calling, Reached, IInv, RequestInv, Abstract!Gets
<1>5. Answered' = [Answered EXCEPT ![t] = Store[Key(t)]]
  <2>1. t \notin dangling'
    BY <1>1 DEF Reached, IInv, RequestInv
  <2>2. Answered'[t] = memory[index[Key(t)]]
    BY <1>1, <1>2, <2>1, ZenonT(30) DEF Reached, AnswersInv
  <2>3. Store[Key(t)] = memory[index[Key(t)]]
    BY <1>1, <1>4 DEF Store, Stored
  <2>4. \A u \in Threads \ {t} : Answered'[u] = Answered[u]
    BY <1>1, <1>2 DEF Answered
  <2>5. Answered = [u \in Threads |-> Answered[u]] /\ Answered' = [u \in Threads |-> Answered'[u]]
    BY DEF Answered
  <2> QED
    BY <2>2, <2>3, <2>4, <2>5, ChangedAt
<1>6. Store' = Store
  BY <1>1 DEF Store, Stored
<1>7. Journal' = Journal
  BY <1>1, <1>2, JournalKept DEF PendingRecord, Logging
<1>8. Calling' = Calling
  BY <1>2 DEF Calling
<1> QED
  BY <1>1, <1>3, <1>4, <1>5, <1>6, <1>7, <1>8
     DEF Abstract!Next, Abstract!Get, Abstract!Moves, Abstract!Answers

\* Every block that a key has and that is not live is being replaced by an
\* update of that key.
LEMMA UpdatedByItsKey ==
  ASSUME NEW k \in Keys, Reached, index[k] # Null, index[k] \notin heap
  PROVE  Abstract!Updating(k)
<1>1. PICK u \in Threads : pc(u) \in {"p_give_back", "p_index"} /\ oldMeta(u) = index[k]
  BY DEF Reached, IInv, IndexInv, Replacing
<1>2. Key(u) \in Keys /\ local[u].request \in Abstract!Puts
  BY <1>1, Requests DEF Reached, IInv, RequestInv, PutLocked
<1>3. Key(u) = k
  BY <1>1, <1>2 DEF Reached, IInv, OldInv, IndexInv
<1>4. Stage[u] = "pending"
  BY <1>1 DEF Stage, Logging
<1> QED
  BY <1>2, <1>3, <1>4 DEF Abstract!Updating, Calling

\* A get that looks at the index in the window is torn at once.
LEMMA GetLookupTears ==
  ASSUME NEW t \in Threads, Reached, GetLookup(t), index[Key(t)] \notin heap
  PROVE  Abstract!Next
<1>1. /\ pc(t) = "g_lookup"
      /\ local' = [local EXCEPT ![t] = [local[t] EXCEPT !.pc = "g_copy",
                                                        !.newMeta = index[Key(t)]]]
      /\ index[Key(t)] # Null
      /\ dangling' = dangling \cup {t}
      /\ UNCHANGED <<poolVars, index, memory, engineRWLock_, log, updates>>
  BY DEF GetLookup, Step
<1>2. /\ local'[t].pc = "g_copy"
      /\ local'[t].request = local[t].request
      /\ local'[t].result = local[t].result
      /\ \A u \in Threads \ {t} : local'[u] = local[u]
  BY <1>1 DEF Reached, IInv, Typed, Frames
<1>3. /\ Stage[t] # "idle" /\ Calling[t] \in Abstract!Gets
      /\ Calling[t].key = Key(t) /\ Key(t) \in Keys
  BY <1>1, Requests DEF Stage, Logging, Calling, Reached, IInv, RequestInv
<1>4. Stage' = [u \in Threads |-> IF u \in {t} THEN "done" ELSE Stage[u]]
  <2>1. Stage'[t] = "done" /\ \A u \in Threads \ {t} : Stage'[u] = Stage[u]
    BY <1>2 DEF Stage, Logging
  <2>2. Stage' = [u \in Threads |-> Stage'[u]]
    BY DEF Stage
  <2> QED
    BY <2>1, <2>2
<1>5. Answered' = [u \in Threads |-> IF u \in {t} THEN Missing ELSE Answered[u]]
  <2>1. Answered'[t] = Missing
    BY <1>1, <1>2 DEF Reached, AnswersInv, Logging, IInv, RequestInv
  <2>2. \A u \in Threads \ {t} : Answered'[u] = Answered[u]
    <3> SUFFICES ASSUME NEW u \in Threads \ {t}
                 PROVE  Answered'[u] = Answered[u]
      OBVIOUS
    <3>1. local'[u] = local[u] /\ (u \in dangling' <=> u \in dangling)
      BY <1>1, <1>2
    <3>2. CASE pc(u) = "g_copy" /\ u \notin dangling
      <4>1. memory'[newMeta(u)] = memory[newMeta(u)]
        BY <1>1
      <4> QED
        BY <3>1, <3>2, <4>1, ZenonT(30) DEF Reached, AnswersInv
    <3>3. CASE pc(u) \in Logging
      BY <3>1, <3>3 DEF Reached, AnswersInv
    <3>4. CASE ~(pc(u) = "g_copy" /\ u \notin dangling) /\ pc(u) \notin Logging
      BY <3>1, <3>4 DEF Reached, AnswersInv
    <3> QED
      BY <3>2, <3>3, <3>4
  <2>3. Answered' = [u \in Threads |-> Answered'[u]]
    BY DEF Answered
  <2> QED
    BY <2>1, <2>2, <2>3
<1>6. Store' = Store
  BY <1>1 DEF Store, Stored
<1>7. Journal' = Journal
  BY <1>1, <1>2, JournalKept DEF PendingRecord, Logging
<1>8. Calling' = Calling
  BY <1>2 DEF Calling
<1>9. Abstract!Updating(Key(t))
  BY <1>1, <1>3, UpdatedByItsKey
<1>10. Abstract!Tear({t})
  BY <1>1, <1>3, <1>4, <1>5, <1>6, <1>7, <1>8, <1>9 DEF Abstract!Tear
<1> QED
  BY <1>10 DEF Abstract!Next

\* The copy of a live block is what the get has answered already; that of a
\* block that has been given back is anything.
LEMMA GetCopyAnswers ==
  ASSUME NEW t \in Threads, Reached, GetCopy(t)
  PROVE  Abstract!Next \/ UNCHANGED Abstract!vars
<1>1. PICK v \in BytesRead(t) : Answer(t, "g_copy", v)
  BY DEF GetCopy
<1>2. /\ pc(t) = "g_copy"
      /\ local' = [local EXCEPT ![t] = [local[t] EXCEPT !.pc = "return", !.result = v]]
      /\ UNCHANGED <<poolVars, index, memory, engineRWLock_, log, dangling, updates>>
  BY <1>1 DEF GetCopy, Answer, Step
<1>3. /\ local'[t].pc = "return"
      /\ local'[t].request = local[t].request
      /\ local'[t].result = v
      /\ \A u \in Threads \ {t} : local'[u] = local[u]
  BY <1>2 DEF Reached, IInv, Typed, Frames
<1>4. Stage' = Stage
  BY <1>2, <1>3 DEF Stage, Logging
<1>5. Answered'[t] = v
  BY <1>3 DEF Reached, AnswersInv, Logging
<1>6. \A u \in Threads \ {t} : Answered'[u] = Answered[u]
  BY <1>2, <1>3 DEF Answered
<1>7. Answered = [u \in Threads |-> Answered[u]] /\ Answered' = [u \in Threads |-> Answered'[u]]
  BY DEF Answered
<1>8. Store' = Store
  BY <1>2 DEF Store, Stored
<1>9. Journal' = Journal
  BY <1>2, <1>3, JournalKept DEF PendingRecord, Logging
<1>10. Calling' = Calling
  BY <1>3 DEF Calling
<1>11. CASE t \in dangling
  <2>1. v \in Values \cup {Garbage}
    BY <1>11 DEF BytesRead
  <2>2. Answered' = [Answered EXCEPT ![t] = v]
    BY <1>5, <1>6, <1>7, ChangedAt
  <2>3. Abstract!AnswerTorn(t)
    BY <1>2, <1>4, <1>8, <1>9, <1>10, <1>11, <2>1, <2>2 DEF Abstract!AnswerTorn, Abstract!Answers
  <2> QED
    BY <2>3 DEF Abstract!Next
<1>12. CASE t \notin dangling
  <2>1. v = Answered[t]
    BY <1>2, <1>12 DEF BytesRead, Reached, AnswersInv
  <2>2. Answered' = Answered
    BY <1>5, <1>6, <1>7, <2>1
  <2> QED
    BY <1>2, <1>4, <1>8, <1>9, <1>10, <2>2 DEF Abstract!vars
<1> QED
  BY <1>11, <1>12

\* Giving back a block tears the gets that are about to copy from it; they
\* are gets of the key of the update.
LEMMA GiveBackTears ==
  ASSUME NEW t \in Threads, Reached, PutRemoveOld(t) \/ RemoveOld(t),
         pc(t) \in {"p_give_back", "r_give_back"}
  PROVE  Abstract!Next
<1> DEFINE to == IF pc(t) = "p_give_back" THEN "p_index" ELSE "r_append"
           gets == {u \in Threads : /\ pc(u) = "g_copy" /\ u \notin dangling
                                    /\ newMeta(u) \in heap \ heap'}
<1>1. /\ local' = [local EXCEPT ![t] = [local[t] EXCEPT !.pc = to]]
      /\ GiveBack(t, local[t].size, oldMeta(t))
      /\ dangling' = dangling \cup {u \in Threads : /\ pc(u) = "g_copy"
                                                  /\ newMeta(u) \in heap \ heap'}
      /\ UNCHANGED <<index, memory, engineRWLock_, log, updates>>
  BY DEF PutRemoveOld, RemoveOld, Deallocate, Goto, Step
<1>2. /\ local'[t].pc = to
      /\ local'[t].request = local[t].request
      /\ local'[t].result = local[t].result
      /\ \A u \in Threads \ {t} : local'[u] = local[u]
  BY <1>1 DEF Reached, IInv, Typed, Frames
<1>3. \/ pc(t) = "p_give_back" /\ to = "p_index"
      \/ pc(t) = "r_give_back" /\ to = "r_append"
  OBVIOUS
<1> HIDE DEF to
<1>4. heap' \in {heap, heap \ {oldMeta(t)}}
  BY <1>1 DEF GiveBack, FreeLarge, Park, MissingSlab, HeapWith, poolVars
<1>5. dangling' = dangling \cup gets
  BY <1>1
<1>6. Key(t) \in Keys /\ local[t].request \in Abstract!Puts \cup Abstract!Removes
  BY Requests DEF Reached, IInv, RequestInv, PutLocked, RemoveLocked
<1>7. \A u \in gets : Key(u) = Key(t)
  <2> SUFFICES ASSUME NEW u \in gets
               PROVE  Key(u) = Key(t)
    OBVIOUS
  <2>1. newMeta(u) = oldMeta(t)
    BY <1>4
  <2>2. CASE pc(t) = "p_give_back"
    BY <1>6, <2>1, <2>2 DEF Reached, IInv, GetInv, OldInv
  <2>3. CASE pc(t) = "r_give_back"
    BY <2>1, <2>3 DEF Reached, IInv, GetInv
  <2> QED
    BY <2>2, <2>3
<1>8. \A u \in gets : /\ Stage[u] # "idle" /\ Calling[u] \in Abstract!Gets
                      /\ Abstract!Updating(Calling[u].key)
  <2> SUFFICES ASSUME NEW u \in gets
               PROVE  /\ Stage[u] # "idle" /\ Calling[u] \in Abstract!Gets
                      /\ Abstract!Updating(Calling[u].key)
    OBVIOUS
  <2>1. Stage[u] # "idle" /\ Stage[t] # "idle"
    BY DEF Stage, Logging
  <2>2. Calling[u] \in Abstract!Gets
    BY DEF Calling, Reached, IInv, RequestInv
  <2>3. Calling[t] \in Abstract!Puts \cup Abstract!Removes /\ Calling[t].key = Calling[u].key
    BY <1>6, <1>7 DEF Calling
  <2> QED
    BY <2>1, <2>2, <2>3 DEF Abstract!Updating
<1>9. Stage' = [u \in Threads |-> IF u \in gets THEN "done" ELSE Stage[u]]
  <2>1. \A u \in gets : Stage[u] = "done"
    BY DEF Stage, Logging
  <2>2. Stage' = Stage
    <3>1. Stage'[t] = Stage[t]
      BY <1>2, <1>3 DEF Stage, Logging
    <3>2. \A u \in Threads \ {t} : Stage'[u] = Stage[u]
      BY <1>2 DEF Stage
    <3>3. Stage = [u \in Threads |-> Stage[u]] /\ Stage' = [u \in Threads |-> Stage'[u]]
      BY DEF Stage
    <3> QED
      BY <3>1, <3>2, <3>3
  <2>3. Stage = [u \in Threads |-> Stage[u]]
    BY DEF Stage
  <2> HIDE DEF gets
  <2> QED
    BY <2>1, <2>2, <2>3
<1>10. Answered' = [u \in Threads |-> IF u \in gets THEN Missing ELSE Answered[u]]
  <2>1. \A u \in gets : Answered'[u] = Missing
    <3> SUFFICES ASSUME NEW u \in gets
                 PROVE  Answered'[u] = Missing
      OBVIOUS
    <3>1. u \in Threads \ {t} /\ u \in dangling' /\ pc(u) = "g_copy" /\ local[u].result = Missing
      BY <1>5 DEF Reached, IInv, RequestInv
    <3>2. local'[u] = local[u]
      BY <1>2, <3>1
    <3> QED
      BY <3>1, <3>2 DEF Reached, AnswersInv, Logging
  <2>2. \A u \in Threads \ gets : Answered'[u] = Answered[u]
    <3> SUFFICES ASSUME NEW u \in Threads \ gets
                 PROVE  Answered'[u] = Answered[u]
      OBVIOUS
    <3>1. CASE u = t
      <4>1. CASE pc(t) = "p_give_back"
        BY <1>2, <1>3, <3>1, <4>1 DEF Reached, AnswersInv, Logging
      <4>2. CASE pc(t) = "r_give_back"
        BY <1>2, <1>3, <3>1, <4>2 DEF Reached, AnswersInv, Logging
      <4> QED
        BY <4>1, <4>2
    <3>2. CASE u # t
      <4>1. local'[u] = local[u] /\ (u \in dangling' <=> u \in dangling)
        BY <1>2, <1>5, <3>2
      <4>2. CASE pc(u) = "g_copy" /\ u \notin dangling
        <5>1. memory'[newMeta(u)] = memory[newMeta(u)]
          BY <1>1
        <5> QED
          BY <4>1, <4>2, <5>1, ZenonT(30) DEF Reached, AnswersInv
      <4>3. CASE pc(u) \in Logging
        BY <4>1, <4>3 DEF Reached, AnswersInv
      <4>4. CASE ~(pc(u) = "g_copy" /\ u \notin dangling) /\ pc(u) \notin Logging
        BY <4>1, <4>4 DEF Reached, AnswersInv
      <4> QED
        BY <4>2, <4>3, <4>4
    <3> QED
      BY <3>1, <3>2
  <2>3. Answered' = [u \in Threads |-> Answered'[u]]
    BY DEF Answered
  <2> HIDE DEF gets
  <2> QED
    BY <2>1, <2>2, <2>3
<1>11. Store' = Store
  BY <1>1 DEF Store, Stored
<1>12. Journal' = Journal
  BY <1>1, <1>2, <1>3, JournalKept DEF PendingRecord, Logging
<1>13. Calling' = Calling
  BY <1>2 DEF Calling
<1>14. gets \in SUBSET Threads
  OBVIOUS
<1>15. Abstract!Tear(gets)
  <2> HIDE DEF gets
  <2> QED
    BY <1>5, <1>8, <1>9, <1>10, <1>11, <1>12, <1>13 DEF Abstract!Tear
<1> QED
  BY <1>14, <1>15 DEF Abstract!Next

-----------------------------------------------------------------------------
(* The refinement                                                          *)

LEMMA InitIsInitial == Init => Abstract!Init
<1> SUFFICES ASSUME Init
             PROVE  Abstract!Init
  OBVIOUS
<1>1. \A t \in Threads : /\ local[t] = Idle /\ local[t].pc = "idle"
                        /\ local[t].request = NoCall /\ local[t].result = Missing
  BY DEF Init, Idle
<1>2. Stage = [t \in Threads |-> "idle"]
  <2>1. \A t \in Threads : pc(t) = "idle"
    BY <1>1
  <2>2. \A t \in Threads : Stage[t] = "idle"
    BY <2>1 DEF Stage, Logging
  <2> QED
    BY <2>2 DEF Stage
<1>3. Answered = [t \in Threads |-> Missing]
  <2>1. \A t \in Threads : Answered[t] = Missing
    BY <1>1, AnswersAre DEF AnswersInv, Logging
  <2> QED
    BY <2>1 DEF Answered
<1>4. Calling = [t \in Threads |-> NoCall]
  BY <1>1 DEF Calling, Idle
<1>5. Store = [k \in Keys |-> Missing]
  BY DEF Init, Store, Stored
<1>6. \A t \in Threads : pc(t) \notin Logging
  BY <1>1 DEF Idle, Logging
<1>7. Journal = <<>>
  BY <1>6 DEF Journal, Init
<1> QED
  BY <1>2, <1>3, <1>4, <1>5, <1>7 DEF Abstract!Init, Init

\* Every step of the engine is a step of the abstract store or none.
LEMMA StepImplements == Reached /\ [Next]_vars => [Abstract!Next]_(Abstract!vars)
<1> SUFFICES ASSUME Reached, [Next]_vars
             PROVE  Abstract!Next \/ UNCHANGED Abstract!vars
  OBVIOUS
<1>1. CASE Next
  <2> PICK t \in Threads :
         \/ \E k \in Keys : \/ \E v \in Values : PutCall(t, k, v)
                            \/ GetCall(t, k) \/ RemoveCall(t, k)
         \/ PutLock(t) \/ (\E p \in Blocks \cup {Null} : PutMalloc(t, p))
         \/ PutRegister(t) \/ PutCopy(t) \/ PutFails(t) \/ PutLookup(t)
         \/ PutRemoveOld(t) \/ PutIndex(t) \/ PutAppend(t)
         \/ GetLookup(t) \/ GetMisses(t) \/ GetCopy(t)
         \/ RemoveLock(t) \/ RemoveLookup(t) \/ RemoveMisses(t)
         \/ RemoveIndex(t) \/ RemoveOld(t) \/ RemoveAppend(t)
         \/ Return(t)
    BY <1>1 DEF Next
  <2>1. CASE \E k \in Keys : \/ \E v \in Values : PutCall(t, k, v)
                             \/ GetCall(t, k) \/ RemoveCall(t, k)
    BY <2>1, CallsStart
  <2>2. CASE PutLock(t) \/ (\E p \in Blocks \cup {Null} : PutMalloc(t, p)) \/ PutRegister(t)
             \/ PutCopy(t) \/ PutFails(t) \/ PutLookup(t)
    BY <2>2, LockStutters, PutMallocStutters, PutRegisterStutters, PutCopyStutters,
       FailuresAnswer, LookupStutters
  <2>3. CASE PutRemoveOld(t)
    <3>1. pc(t) \in {"p_unregister", "p_give_back"}
      BY <2>3 DEF PutRemoveOld, Deallocate, Goto, Step
    <3> QED
      BY <2>3, <3>1, UnregisterStutters, GiveBackTears
  <2>4. CASE RemoveOld(t)
    <3>1. pc(t) \in {"r_unregister", "r_give_back"}
      BY <2>4 DEF RemoveOld, Deallocate, Goto, Step
    <3> QED
      BY <2>4, <3>1, UnregisterStutters, GiveBackTears
  <2>5. CASE PutIndex(t) \/ PutAppend(t) \/ GetMisses(t) \/ GetCopy(t) \/ Return(t)
    BY <2>5, PutIndexPuts, AppendStutters, FailuresAnswer, GetCopyAnswers, ReturnReturns
  <2>6. CASE GetLookup(t)
    BY <2>6, GetLookupGets, GetLookupTears
  <2>7. CASE RemoveLock(t) \/ RemoveLookup(t) \/ RemoveMisses(t) \/ RemoveIndex(t)
             \/ RemoveAppend(t)
    BY <2>7, LockStutters, LookupStutters, FailuresAnswer, RemoveIndexRemoves,
       AppendStutters
  <2> QED
    BY <2>1, <2>2, <2>3, <2>4, <2>5, <2>6, <2>7
<1>2. CASE UNCHANGED vars
  <2>1. UNCHANGED <<Stage, Answered, Store, Journal, Calling, dangling>>
    BY <1>2 DEF vars, Stage, Answered, Store, Stored, Journal, Calling
  <2> QED
    BY <2>1 DEF Abstract!vars
<1> QED
  BY <1>1, <1>2

\* A get takes effect when it looks at the index, or is torn by an update of
\* its key that gives the block back to the system; a put and a remove take
\* effect when they change the index; and the log has the updates in the order
\* in which they took effect (engine.cpp:25-64).
THEOREM Implements == Spec => Linearizable
<1>1. IInv /\ IInv' /\ [Next]_vars => [Abstract!Next]_(Abstract!vars)
  BY StepImplements, JournalIsTheLog, AnswersAre, PTL DEF Reached
<1> QED
  BY <1>1, InitIsInitial, Invariance, PTL DEF Spec, Linearizable, Abstract!Spec
=============================================================================
