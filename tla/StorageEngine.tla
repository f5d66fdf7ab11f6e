--------------------------- MODULE StorageEngine ---------------------------
(***************************************************************************)
(* The storage engine (src/storage/engine.cpp) with the value store and    *)
(* the pool under it and the index beside it, as the worker threads call   *)
(* it: put and remove hold engineRWLock_, get holds no lock between its    *)
(* look at the index and its copy of the value.                            *)
(*                                                                         *)
(* The index's operations are atomic: each holds its shard's lock (and the *)
(* skip list's own) for the whole of its body (index_manager.cpp:19-48).   *)
(* The WAL is the sequence of the records accepted by append; module Wal   *)
(* says how they reach the disk.                                           *)
(***************************************************************************)
EXTENDS ObjectPool, Sequences

CONSTANTS Keys,
          SmallValues,  \* values that fit a slab block
          LargeValues,  \* values that do not (more than 4096 bytes)
          Empty,        \* the empty string, as a value and as the WAL's tombstone
          SmallSize,    \* the slab size of the small values
          Missing,      \* std::nullopt, and nullptr in the index
          Garbage,      \* bytes that nobody has stored as a value
          NoCall,
          MaxUpdates    \* bound of the model: how many puts and removes begin

ASSUME SmallSizeAssumption == SmallSize \in SlabSizes
ASSUME ValuesAssumption == SmallValues \cap LargeValues = {} /\ Empty \notin LargeValues
\* std::nullopt is not a string
ASSUME MissingAssumption == Missing \notin SmallValues \cup LargeValues \cup {Empty}

Values == SmallValues \cup LargeValues
SizeOf(v) == IF v \in LargeValues THEN LargeSize ELSE SmallSize

Free == "free"  \* nobody holds engineRWLock_
ASSUME ThreadsAssumption == Free \notin Threads
ASSUME UpdatesAssumption == MaxUpdates \in Nat

VARIABLES engineRWLock_,  \* the thread that holds the lock, or Free
          index,          \* index[k]: the address of k's value, or Null
          memory,         \* memory[p]: the bytes at address p
          log,            \* the records WALWriter::append has accepted
          local,          \* local[t]: thread t's call and its local variables
          dangling,       \* history: the gets whose block has been given back to the system
          updates         \* how many puts and removes have begun

vars == <<poolVars, engineRWLock_, index, memory, log, local, dangling, updates>>

\* newMeta also stands for get's out, oldMeta for remove's, and size for the
\* local variable m of the pool's deallocate.
Idle == [pc |-> "idle", request |-> NoCall, newMeta |-> Null, oldMeta |-> Null,
         size |-> NoSize, result |-> Missing]

Init == /\ PoolInit
        /\ engineRWLock_ = Free
        /\ index = [k \in Keys |-> Null]
        /\ memory = [p \in Blocks |-> Garbage]
        /\ log = <<>>
        /\ local = [t \in Threads |-> Idle]
        /\ dangling = {}
        /\ updates = 0

pc(t) == local[t].pc
Key(t) == local[t].request.key
Val(t) == local[t].request.val
newMeta(t) == local[t].newMeta
oldMeta(t) == local[t].oldMeta

\* Thread t goes on from a label, with its local variables as given.
Step(t, from, frame) == /\ pc(t) = from
                        /\ local' = [local EXCEPT ![t] = frame]

Goto(t, from, to) == Step(t, from, [local[t] EXCEPT !.pc = to])

Call(t, op, k, v, to) ==
  /\ Step(t, "idle", [local[t] EXCEPT !.pc = to, !.request = [op |-> op, key |-> k, val |-> v]])
  /\ UNCHANGED <<poolVars, engineRWLock_, index, memory, log, dangling>>

\* The calls that change the engine; how many of them begin is bounded.
UpdateCall(t, op, k, v, to) == /\ updates < MaxUpdates
                               /\ updates' = updates + 1
                               /\ Call(t, op, k, v, to)

\* std::unique_lock lock(engineRWLock_)
Lock(t, from, to) == /\ Goto(t, from, to)
                     /\ engineRWLock_ = Free /\ engineRWLock_' = t
                     /\ UNCHANGED <<poolVars, index, memory, log, dangling, updates>>

\* return r
Answer(t, from, r) == /\ Step(t, from, [local[t] EXCEPT !.pc = "return", !.result = r])
                      /\ UNCHANGED <<poolVars, engineRWLock_, index, memory, dangling, updates>>

\* wal_->append of the call's key, and return true
AnswerLogged(t, from, v) == Answer(t, from, TRUE) /\ log' = Append(log, [key |-> Key(t), val |-> v])

\* The locals go out of scope, and with them the lock of put or remove.
Return(t) == /\ Step(t, "return", Idle)
             /\ engineRWLock_' = IF engineRWLock_ = t THEN Free ELSE engineRWLock_
             /\ dangling' = dangling \ {t}
             /\ UNCHANGED <<poolVars, index, memory, log, updates>>

\* index_->get(key, oldMeta)
LookupOld(t, from, to) ==
  /\ Step(t, from, [local[t] EXCEPT !.pc = to, !.oldMeta = index[Key(t)]])
  /\ UNCHANGED <<poolVars, engineRWLock_, index, memory, log, dangling, updates>>

\* index_->put(key, p) or index_->remove(key)
SetIndex(t, from, p, to) ==
  /\ Goto(t, from, to)
  /\ index' = [index EXCEPT ![Key(t)] = p]
  /\ UNCHANGED <<poolVars, engineRWLock_, memory, log, dangling, updates>>

\* valStore_->remove: the pool's deallocate, in its two steps.  The pool
\* knows the block, as IndexedBlocksAreLive says.
Deallocate(t, from, between, to) ==
  /\ \/ /\ Step(t, from, [local[t] EXCEPT !.pc = between, !.size = allocationSizeMap_[oldMeta(t)]])
        /\ Unregister(oldMeta(t))
     \/ /\ Goto(t, between, to)
        /\ GiveBack(t, local[t].size, oldMeta(t))
  /\ dangling' = dangling \cup {u \in Threads : pc(u) = "g_copy" /\ newMeta(u) \in heap \ heap'}
  /\ UNCHANGED <<engineRWLock_, index, memory, log, updates>>

-----------------------------------------------------------------------------
(* StorageEngine::put                                                      *)

PutCall(t, k, v) == UpdateCall(t, "put", k, v, "p_lock")

\* Faulty variant: put takes the lock shared, as in the line commented out
\* at engine.cpp:27
PutLockShared(t) ==
  /\ Goto(t, "p_lock", "p_malloc")
  /\ UNCHANGED <<poolVars, engineRWLock_, index, memory, log, dangling, updates>>

PutLock(t) == Lock(t, "p_lock", "p_malloc")

\* valStore_->put: malloc; the address may be one that was freed
PutMalloc(t, p) ==
  /\ Step(t, "p_malloc", [local[t] EXCEPT !.pc = "p_register", !.newMeta = p])
  /\ Malloc(t, SizeOf(Val(t)), p)
  /\ memory' = [q \in Blocks |-> IF q = p THEN Garbage ELSE memory[q]]
  /\ UNCHANGED <<engineRWLock_, index, log, dangling, updates>>

PutRegister(t) ==
  /\ Goto(t, "p_register", "p_copy")
  /\ IF Registers(SizeOf(Val(t)), newMeta(t)) THEN Register(SizeOf(Val(t)), newMeta(t))
                                              ELSE UNCHANGED poolVars
  /\ UNCHANGED <<engineRWLock_, index, memory, log, dangling, updates>>

\* memcpy of the value into the block
PutCopy(t) ==
  /\ newMeta(t) # Null
  /\ Goto(t, "p_copy", "p_lookup")
  /\ memory' = [memory EXCEPT ![newMeta(t)] = Val(t)]
  /\ UNCHANGED <<poolVars, engineRWLock_, index, log, dangling, updates>>

\* out of memory: valStore_->remove(nullptr) does nothing; return false
PutFails(t) == Answer(t, "p_copy", FALSE) /\ newMeta(t) = Null /\ UNCHANGED log

PutLookup(t) == LookupOld(t, "p_lookup", IF index[Key(t)] = Null THEN "p_index" ELSE "p_unregister")

PutRemoveOld(t) == Deallocate(t, "p_unregister", "p_give_back", "p_index")

\* Faulty variant: only a key that is not there yet is put
PutIndexOnce(t) == SetIndex(t, "p_index", IF oldMeta(t) = Null THEN newMeta(t) ELSE oldMeta(t), "p_append")

PutIndex(t) == SetIndex(t, "p_index", newMeta(t), "p_append")

PutAppend(t) == AnswerLogged(t, "p_append", Val(t))

-----------------------------------------------------------------------------
(* StorageEngine::get                                                      *)

GetCall(t, k) == Call(t, "get", k, Missing, "g_lookup") /\ UNCHANGED updates

\* index_->get(key, out), under the shard's lock only: the index may still have
\* the block that a put has just given back
GetLookup(t) ==
  /\ Step(t, "g_lookup", [local[t] EXCEPT !.pc = "g_copy", !.newMeta = index[Key(t)]])
  /\ index[Key(t)] # Null
  /\ dangling' = IF index[Key(t)] \in heap THEN dangling ELSE dangling \cup {t}
  /\ UNCHANGED <<poolVars, engineRWLock_, index, memory, log, updates>>

GetMisses(t) == Answer(t, "g_lookup", Missing) /\ index[Key(t)] = Null /\ UNCHANGED log

\* valStore_->get(out), under no lock: a block that has been given back to the
\* system may hold anything
BytesRead(t) == IF t \in dangling THEN Values \cup {Garbage} ELSE {memory[newMeta(t)]}

GetCopy(t) == /\ pc(t) = "g_copy"
              /\ \E v \in BytesRead(t) : Answer(t, "g_copy", v)
              /\ UNCHANGED log

-----------------------------------------------------------------------------
(* StorageEngine::remove                                                   *)

RemoveCall(t, k) == UpdateCall(t, "remove", k, Missing, "r_lock")

RemoveLock(t) == Lock(t, "r_lock", "r_lookup")

RemoveLookup(t) == LookupOld(t, "r_lookup", "r_index") /\ index[Key(t)] # Null

RemoveMisses(t) == Answer(t, "r_lookup", FALSE) /\ index[Key(t)] = Null /\ UNCHANGED log

RemoveIndex(t) == SetIndex(t, "r_index", Null, "r_unregister")

RemoveOld(t) == Deallocate(t, "r_unregister", "r_give_back", "r_append")

\* Faulty variant: the removal is not logged
RemoveUnlogged(t) == Answer(t, "r_append", TRUE) /\ UNCHANGED log

\* Faulty variant: the record has no tombstone but the request's absent value
RemoveAppendValue(t) == AnswerLogged(t, "r_append", Val(t))

\* wal_->append(key, "")
RemoveAppend(t) == AnswerLogged(t, "r_append", Empty)

-----------------------------------------------------------------------------

Next == \E t \in Threads :
          \/ \E k \in Keys : \/ \E v \in Values : PutCall(t, k, v)
                             \/ GetCall(t, k) \/ RemoveCall(t, k)
          \/ PutLock(t) \/ (\E p \in Blocks \cup {Null} : PutMalloc(t, p))
          \/ PutRegister(t) \/ PutCopy(t) \/ PutFails(t) \/ PutLookup(t)
          \/ PutRemoveOld(t) \/ PutIndex(t) \/ PutAppend(t)
          \/ GetLookup(t) \/ GetMisses(t) \/ GetCopy(t)
          \/ RemoveLock(t) \/ RemoveLookup(t) \/ RemoveMisses(t)
          \/ RemoveIndex(t) \/ RemoveOld(t) \/ RemoveAppend(t)
          \/ Return(t)

Spec == Init /\ [][Next]_vars

-----------------------------------------------------------------------------

Labels == {"idle", "return",
           "p_lock", "p_malloc", "p_register", "p_copy", "p_lookup",
           "p_unregister", "p_give_back", "p_index", "p_append",
           "g_lookup", "g_copy",
           "r_lock", "r_lookup", "r_index", "r_unregister", "r_give_back", "r_append"}

TypeOK ==
  /\ PoolTypeOK
  /\ engineRWLock_ \in Threads \cup {Free}
  /\ index \in [Keys -> Blocks \cup {Null}]
  /\ memory \in [Blocks -> Values \cup {Garbage}]
  /\ log \in Seq([key : Keys, val : Values \cup {Empty}])
  /\ \A t \in Threads : /\ pc(t) \in Labels
                       /\ {newMeta(t), oldMeta(t)} \subseteq Blocks \cup {Null}
                       /\ local[t].size \in Sizes \cup {NoSize}
  /\ dangling \subseteq Threads
  /\ updates \in 0 .. MaxUpdates

\* The last record of a key, oldest record first, or Missing.
LastRecord(records, k) ==
  LET its == {i \in 1 .. Len(records) : records[i].key = k}
  IN  IF its = {} THEN Missing
      ELSE records[CHOOSE i \in its : \A j \in its : j <= i].val

\* What a replay of the records makes of key k (engine.cpp:82-86).
Replayed(records, k) == LET v == LastRecord(records, k)
                        IN  IF v = Empty THEN Missing ELSE v

Stored(k) == IF index[k] = Null THEN Missing ELSE memory[index[k]]

\* Whenever no put or remove is under way the log replays to exactly what the
\* index holds: the updates reach the log in the order in which they reach
\* the index, and none reaches only one of them (engine.cpp:25-42, 52-64).
LogReplaysToIndex ==
  engineRWLock_ = Free => \A k \in Keys : Replayed(log, k) = Stored(k)

\* The blocks of the index are registered and live, no two keys share one,
\* and no free list holds one, except the block that the thread inside the
\* lock is about to replace.
BeingReplaced == {oldMeta(t) : t \in {u \in Threads : pc(u) \in {"p_give_back", "p_index"}}}

IndexedBlocksAreLive ==
  /\ \A k \in Keys : index[k] # Null /\ index[k] \notin BeingReplaced =>
       /\ index[k] \in heap
       /\ allocationSizeMap_[index[k]] # NoSize
       /\ index[k] \notin Parked
  /\ \A j, k \in Keys : index[j] = index[k] /\ index[j] # Null => j = k

\* "Multi-threaded, highly concurrent requests" (README.md:6): the block that
\* a get is about to copy from has not been given back to the system.
GetReadsALiveBlock == dangling = {}

-----------------------------------------------------------------------------
(* The engine implements KVStore.  A get takes effect when it looks at the *)
(* index, an update when it changes the index; its record then still has   *)
(* to be appended to the log.                                              *)

Logging == {"p_append", "r_unregister", "r_give_back", "r_append"}

Stage == [t \in Threads |-> CASE pc(t) = "idle" -> "idle"
                              [] pc(t) \in Logging \cup {"g_copy", "return"} -> "done"
                              [] OTHER -> "pending"]

Answered == [t \in Threads |-> CASE pc(t) = "g_copy" /\ t \notin dangling -> memory[newMeta(t)]
                                 [] pc(t) \in Logging -> TRUE
                                 [] OTHER -> local[t].result]

Journal == LET appending == {t \in Threads : pc(t) \in Logging}
           IN  IF appending = {} THEN log
               ELSE LET t == CHOOSE u \in appending : TRUE
                    IN  Append(log, [key |-> Key(t),
                                     val |-> IF pc(t) = "p_append" THEN Val(t) ELSE Empty])

Store == [k \in Keys |-> Stored(k)]

Calling == [t \in Threads |-> local[t].request]

Abstract == INSTANCE KVStore
              WITH store <- Store, journal <- Journal, call <- Calling, stage <- Stage,
                   answer <- Answered, torn <- dangling,
                   Tombstone <- Empty, Junk <- Values \cup {Garbage}

\* Every get returns the value that its key had at one instant of the call, or
\* anything if an update of the key gave its block back to the system in the
\* meantime; updates take effect one after the other, in the order of the log
\* (engine.cpp:25-64).
Linearizable == Abstract!Spec
=============================================================================
