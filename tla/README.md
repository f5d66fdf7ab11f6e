# DragonKV in TLA+

A verification project for DragonKV, a key-value server for Windows: TLA+
modules that model its components, TLC runs that check them on small instances,
and TLAPS proofs about the lock-free queue, the memory pool, the storage engine, the
index, the log, the request path and the stop. Paths below are relative to the repository
(`src/core/...` is the server's own code).

## 1. The system

One process. `main.cpp` creates the storage engine, the request queue, an IOCP
reactor with one IO thread and one accept thread, and a pool of eight workers.

```
 client --TCP--> accept thread --addConnection--> Connection, first WSARecv
 client --TCP--> completion port --> IO thread --handleRead--> Decoder
                                        |  requests
                                        v
                             RequestQueue (MPMCQueue, 1024)  --full--> dqe_ of the Connection
                                        |
                                        v
     worker: dequeue, postRecv, dispatch, addRPCResponse, postSend, announce space
                                |                 |
                                v                 v
                        StorageEngine        WSASend --> IO thread: handleWrite
                  index | pool | WAL queue --> flusher thread --> files
```

| Component | State | Operations | Interacts by |
|---|---|---|---|
| `MPMCQueue` (`core/MPMCQueue.hpp`) | ring of cells with a sequence number each, `enqueue_pos_`, `dequeue_pos_` | `enqueue`, `dequeue`, `full`, `empty`, destructor | shared atomics, no lock |
| `ObjectPool`, `SlabAllocator` (`memory/`) | `allocationSizeMap_` for all threads, `localSlabMap_` of each thread | `allocate`, `deallocate`, exit of a thread | blocks that pass from thread to thread |
| `ValueStore` (`memory/value_store.cpp`) | none of its own | `put`, `get`, `remove`, `writer_str` | calls the pool |
| `StorageEngine` (`storage/engine.cpp`) | `engineRWLock_` | `put`, `get`, `remove`, `recover` | calls index, value store and WAL |
| `IndexManager`, `SkipList` (`storage/index/`) | shards, each a linked list with levels, under a lock | `put`, `get`, `remove`, `clear`, `forEach` | called by the engine |
| `WALWriter` (`storage/wal/`) | queue of records, stop flag, open file | `append`, flusher loop, rolling, `close`, `recoverUpTo` | mutex, condition variable, files |
| `Connection` (`network/connection.cpp`) | `dqe_` (parked requests), `dqe1_` (responses), `alive_` | `handleRead`, `handleWrite`, `handqueuefull`, `postRecv`, `postSend`, `close` | run by the IO thread and by workers at once |
| `IOCPReactor` (`core/reactor.cpp`) | completion port, `connections_`, `running_` | `start`, `stop`, accept loop, `runLoop`, `addConnection` | completion packets |
| `WorkerThreadPool` (`core/thread_pool.cpp`) | `alive_` | `start`, `stop`, `workerThreadLoop` | the request queue |
| `main` (`main.cpp`) | `g_server_running`, a condition variable | start, wait for SIGINT, stop | joins the threads, deletes the objects |
| `CommandDispatcher` (`app/`) | none | `dispatch` | calls one engine operation |
| `Decoder`, `Encoder` (`network/protocol/`) | one buffer, shared by all connections | `appendData`, `parseAllAvailableRequests`; `encode` | called by the connections |

What is hard in this code:

* the queue: each cell is accessed without synchronisation between the claim of
  a position and the store of a sequence number, and both operations conclude
  "full" and "empty" from values they loaded at different times;
* memory: blocks are allocated by one thread and returned by another to
  thread-local lists, freed addresses come back, and some are deleted past the
  pool; `get` reads a block under no lock;
* the log: records travel through a queue, a flusher's local queue, a stream
  buffer and files that are named by the second; the process can die in between;
* the connection: the IO thread and several workers run methods of one object,
  which may be destroyed meanwhile; receives are posted by whoever has dequeued
  a request; a wake-up for parked requests depends on a worker looking at the
  right time;
* the wire: a read may end anywhere in a request, all connections feed one decoder
  buffer, an error empties that buffer, and several workers answer one client;
* start and stop: a signal handler without the mutex, threads that must have
  ended before what they use is deleted.

What correctness means for each: the queue is a linearizable FIFO without data
races whose calls return; a block has one owner; the engine is a linearizable
map whose log replays to its index; the skip list is a sorted map on every
level, and the sweeps over its shards miss nothing that stays; the log keeps its
order, `close` drains it and recovery to a time finds the last value; a request is
neither dropped nor served twice; an open connection goes on listening, which it does not
in all cases, and the cases in which it stops are known; the replies a client gets are
those of a map to its requests in order, if it does not ask for too much at once; a stop
ends every user of a resource before the resource.

## 2. Modules

| Module | Models | Role |
|---|---|---|
| `BoundedFifo` | - | abstract specification: a bounded FIFO with calls that take effect once |
| `MPMCQueue` | `core/MPMCQueue.hpp` | every atomic access a step; implements `BoundedFifo` (`FifoSpec`) |
| `MPMCQueueRefusal` | the same, with a history of whether there was room during a call | the early refusal |
| `MPMCQueueProofs` | - | theorems about `MPMCQueue`: its invariants, and that it implements `BoundedFifo` |
| `ObjectPool` | `memory/object_pool.cpp` | the steps of `allocate` and `deallocate`, for the modules below |
| `PoolClients` | threads that allocate, hand over and return blocks | composes `ObjectPool` with its callers |
| `ObjectPoolProofs` | - | lemmas about the steps of `ObjectPool`, for the two modules that use it |
| `PoolClientsProofs` | - | theorems about `PoolClients` |
| `KVStore` | - | abstract specification: a map, and the journal of its updates |
| `StorageEngine` | `storage/engine.cpp`, `value_store.cpp` over `ObjectPool` | implements `KVStore` (`Linearizable`) |
| `StorageEngineProofs` | - | theorems about `StorageEngine`: its invariants, and that it implements `KVStore` |
| `SkipList` | `storage/index/skip_list.cpp` | the operations of a list, as functions along its pointers |
| `IndexManager` | `storage/index/index_manager.cpp` | the shards, each a `SkipList`, and the sweeps over them |
| `IndexManagerProofs` | - | theorems about `IndexManager` and the operations of `SkipList` |
| `WalFormat` | `recoverUpTo` and the collector of `recover` | what a reader makes of the files |
| `Wal` | `storage/wal/wal_writer.cpp` | appender, flusher, close, crash, restart |
| `WalProofs` | - | theorems about `Wal` |
| `EngineRecovery` | `StorageEngine::recover` beside a worker | the lock taken twice |
| `Server` | `connection.cpp`, `reactor.cpp` (`runLoop`, `addConnection`), `thread_pool.cpp` (the loop) | a request's way from the socket to the response |
| `ServerProofs` | - | theorems about `Server` |
| `Decoder` | `network/protocol/decoder.cpp` | the requests in a buffer, as functions |
| `CommandDispatcher` | `app/command_dispatcher.cpp`, `network/protocol/encoder.cpp` | the reply to a request, as functions |
| `RequestReply` | - | abstract specification: each client's requests are carried out in order, each at one instant, and answered; a value may be torn while it is copied |
| `Session` | `handleRead`, the workers' use of the dispatcher | from bytes to replies; composes the two above and implements `RequestReply` (`RepliesAnswerRequests`) |
| `Shutdown` | `main.cpp`, `reactor.cpp` (`start`, `stop`, accept thread), `thread_pool.cpp` (`start`, `stop`) | the life of the threads |
| `ShutdownProofs` | - | theorems about `Shutdown` |
| `MC*` | - | symmetry sets and constants for TLC |

`PROJECT.json` maps every definition to its lines. Operators whose comment
begins with "Faulty variant" are not part of any specification: each is a
definition with a plausible error, kept to see that a property notices it.

### How state and actions correspond to the code

*MPMCQueue.* `sequence`, `data`, `enqueue_pos`, `dequeue_pos` are the members;
`pc`, `pos`, `item` the locals of each thread's call. One action per access of a
shared atomic: load the position (`EnqueueLoad`), load the cell's sequence and
branch (`EnqueueLook`), compare-exchange (`EnqueueClaim`, or `EnqueueClaimFails`,
which also stands for the spurious failure that `compare_exchange_weak` allows),
the check of the other position, the construction, the publishing store. The
subtraction goes through `long`, 32 bits wide on Windows (`LongDiff`). Accesses
are sequentially consistent; the code's acquire and release orders are not
modelled further.

*ObjectPool, PoolClients.* `heap` is what malloc has handed out, so a freed
address can come back at once. `allocate` and `deallocate` have two steps each,
because `globalMutex_` covers only the map. A slab is created by a thread's first
allocation, parks what that thread returns, and never hands a parked block out
again. The counters wrap (`SizeMod`). `DeletePastPool` is the `delete ov` of the
failing I/O paths.

*StorageEngine.* Every line of `put` and `remove` that touches shared state is a
step, from the lock to the record; `get` has two, the look at the index and the
copy, with nothing held in between. `local` holds the call and the local variables
of each thread. A thread is in `dangling` when the block its `get` is about to copy
has been given back to the system: what it then reads is any value
(`BytesRead`), and `Linearizable` makes no promise for such a `get`.

*SkipList, IndexManager.* An operation on one list is a function, because the
caller holds the lock of its shard throughout; it walks the pointers level by level
as the code does (`Walk`, `Update`), of which a node has as many as it has levels
(`Reaching`), and the level of a new node, random in the code,
is any level. `put`, `get` and `remove` work on the shard of their key (`hashKey`, a
constant). `clear` and `forEach` take one shard's lock after the other: a turn of
their loop is a step, and other calls come in between.

*Wal.* A record is accepted in `logQueue_`, picked up into `localQueue`, written
to `stream` (the buffer of `logFile_`, which passes any prefix on), and is on
`disk`. The death of the process loses all but `disk`, and may tear the record
that is being written. A file's name is the second of the clock. The reader is
in `WalFormat`: it stops at a torn record, at one that is too new, and at one of
more than 64 KiB. Three constants say what the clock does: whether it ticks
between two appends, whether a restart falls into the second of the crash, and
whether it may be set back (`ClockIsSetBack`).

*Server.* One action per part of a handler that another thread can come
between. `conn` has each `Connection` with its deques and the operations under way
on it: counters (`recvs`, `spaces`) and a sequence of sends with their length and
the responses in them. `io` and `worker` are what each thread does, with its locals.
`CallsFail` lets every allocation and every posted operation fail. The
uninitialised `n` of `postSend` is any value of `LeftOver`; a value for which `memcpy`
faults ends the process, which a behaviour may do at any state anyway. A worker reads
`dqe_` without a lock (`DequeEmpty`): while the IO thread is at work on the deque the
answer is either. `postSend` sends when it has emptied `dqe1_` or has 4096 bytes, which any
length but 0 may stand for (`PostSend`). Steps on a destroyed `Connection` and a `pop_front`
of an empty deque send the thread to `"undefined"`, of which nothing is claimed.

*Decoder, CommandDispatcher.* The buffer is a sequence of characters: the two signs,
`-`, the digits, CR, LF, and the letters of names and values, where the name of a command is
one letter. `ParseInteger` goes through digits to a line end, both characters of which have
to be there, and rejects an integer without digits; a read may end anywhere. A value may
contain any character, as its length and not its contents says where it ends. A
string whose line end is not where its length says, and a length that is no number, are
"incomplete" in the code, for ever; so they are here. The dispatcher's answers are those of
the operation of the engine, at the instant at which `StorageEngine` shows it to take effect,
and a put may fail for want of memory. What a get then copies is not part of
that instant: an update of the key can give the block back meanwhile, and the
bytes are torn (`TearCopy` of `Session`).

*Session.* `handleRead` appends a piece of some client's stream to the one buffer and
parses all it can (`HandleRead`); it then enqueues the requests one by one, or parks those that
find the queue full (`HandleReadEnqueue`, `HandleReadPark`). A worker takes a request
(`Dequeue`), carries it out (`DispatchRequest`) and adds the response (`AddRPCResponse`), three
steps between which other threads run. What is parked stays so, as the workers' port handle is
null; `MoveParked` is in `Server`. `setting`, chosen at the beginning, says who sends, in
what pieces and how far ahead of its responses, how many workers there are and how long the
queue is: the replies are right in some settings and not in others. The refinement reads the
abstract backlog of a client off what it has sent and what has been carried out for it.

*Shutdown.* `main` goes through its calls one by one; the threads' work for
clients is one step.

*EngineRecovery.* `recover` is collect, lock, apply each key, return; `put` and
`remove` lock again.

## 3. Runs

The runs that `PROJECT.json` lists:

| Run | Shows |
|---|---|
| `MPMCQueue_two_by_two` | two producers, two consumers, two cells: `ExclusiveCell` (no data race), `LifetimeRespected`, `DestroyLeavesNoObject`, the inductive invariant `IInv`, and the refinement `FifoSpec` |
| `MPMCQueue_one_producer` | as deployed, one producer: `FifoSpec` where `enqueue` refuses only at `Capacity` items, and every call returns (`CallsReturn`) |
| `PoolClients_cross_thread` | `BlocksHaveOneOwner`, `HeldBlocksAreRegistered` |
| `StorageEngine_values` | `Linearizable`, `LogReplaysToIndex`, `IndexedBlocksAreLive`, with small and large values, whose blocks are parked or go back to the system and come back at once |
| `IndexManager_shards` | `LevelsAreSortedLists`, `ActsAsMap`, `ClearForgets`, `ForEachReports`, with one thread that sweeps two shards |
| `Wal_crash` | `LogInOrder`, `CloseDrains`, `RecoversPointInTime`, `AppendsReachDisk`, `CloseReturns`, with timestamps that grow, one crash and a restart in a later second |
| `Server_requests` | `EachRequestIsServedOnce` (a parked request counts as being in a place, so: at most once, and not dropped), `DeafOnlyIfSplitOrParked`, `QueuedRequestsAreAnswered`, with requests of two pieces and calls that fail |
| `Session_replies` | `DecoderKeepsUp`, `RepliesAnswerRequests`, in two settings: one client whose stream is cut at any character, with up to two requests under way, and one worker; two clients that wait for each response, two workers, and a queue with room for one request |
| `Shutdown_stop` | `UsersEndFirst`, `StopReturns` |
| `EngineRecovery_relock` | violation: `recover` locks itself out (`RecoverReturns`) |
| `Server_responses` | violation: the response to a request that has arrived is in no send (`ResponsesArrive`); `postSend` throws it away |
| `Shutdown_signal` | violation: the notification of a SIGINT is lost (`SignalStopsTheServer`) |

The three violations are disagreements of the code with a comment or a test of the
repository, which the "findings" of `PROJECT.json` quote.

Further configurations, to be run by hand (`tlc -config X.cfg M`). Each but the last ends
in a violation of the property it names and shows one more thing the code does. Most of
them are boundaries of what the passing runs state and of what is proved: they
explain the assumptions of those runs and theorems.

| Configuration (module) | Shows |
|---|---|
| `MPMCQueue_capacity_one` (`MCMPMCQueue`) | `LifetimeRespected`: with the admitted `Capacity` 1 an object is constructed over a live one |
| `MPMCQueue_early_refusal` (`MPMCQueueRefusal`) | `RefusedOnlyWhenFull`: with two producers `enqueue` can fail although there was room throughout |
| `PoolClients_returned` (`PoolClients`) | `BlocksReturnToThePool`: a block returned by a thread without a slab of its size is lost |
| `StorageEngine_freed_read` (`MCStorageEngine`) | `GetReadsALiveBlock`: `get` copies from a freed block |
| `StorageEngine_empty_value` (`MCStorageEngine`) | `LogReplaysToIndex`: a put of the empty value is logged as a removal |
| `Wal_oversized` (`Wal`) | `RecoversPointInTime`: a record above 64 KiB hides the rest of its file |
| `Wal_restart` (`Wal`) | `RecoversPointInTime`: a restart in the same second appends behind a torn record |
| `Wal_clock_back` (`Wal`) | `RecoversPointInTime`: after the clock was set back recovery takes an older record for the newer; with `TicksPerSecond`, `MaxFileSize` and `MaxTime` 1 `LogInOrder` is violated as well |
| `Wal_roll` (`Wal`) | `FilesAreRolled`: rolling within the second reopens the same file |
| `Server_self_wait` (`Server`) | `IoThreadNeverBlocks`: `handleWrite` calls `postSend` with its mutex held |
| `Server_parked` (`Server`) | `ParkedRequestsMove`: parked requests stay parked, as the workers' port handle is null |
| `Session_parked` (`MCSession`) | `RepliesAnswerRequests`: a client with more requests under way than the queue has room for gets its replies out of order, as a later request overtakes a parked one |
| `Server_split_request` (`Server`) | `OpenConnectionsListen`: after a part of a request an open connection has no receive |
| `Server_two_clients` (`Server`) | passes: `DeafOnlyIfSplitOrParked` with two clients, of which one may fill the queue for the other, and the null port handle |

Five more need no file of their own, but a line changed in one:

* `Wal_clock_back` with `DistinctTimes` and `ClockIsSetBack` `FALSE`:
  `RecoversPointInTime` is violated, as of two records with one timestamp recovery keeps the older;
* `Server_two_clients` with `OpenConnectionsListen` as its invariant: a connection whose
  read was parked, because another client has filled the queue, has no receive left, and no
  worker has a reason to look at it;
* `Session_replies` with `wholeReads` `FALSE` in `Waiting` (`MCSession`): `TypeOK` and
  `DecoderKeepsUp` are violated, as with pieces of two clients in one buffer the server serves
  a request that no client has sent;
* `Session_replies` with `LastWhenMalformed` `FALSE`: `DecoderKeepsUp` is violated, as the error
  empties the buffer, with the requests behind the malformed one;
* `Session_replies` with two workers in `Pipelined`: `RepliesAnswerRequests` is violated, as two
  requests of a client that does not wait are carried out, and answered, in either order.

`Server_parked` fails for a second reason that a right handle would not remove: a
request parked after the last worker has looked at `dqe_` is seen by nobody.

`CHECK_DEADLOCK FALSE` is set where the system really stops: the queue destroyed,
the log closed, every thread exited, all requests served, the server stopped, or
the bound of requests or appends reached. In `EngineRecovery_relock` the deadlock is
what the violated property is about. `StorageEngine` and `IndexManager` are checked for
deadlock.

### Bounds

* *Queue*: two cells and positions up to the run's `MaxPos`, so that the ring is
  lapped and a slow thread meets its cell in a later lap; two threads a side, so that
  the same position is contended. `LongMod` is a small power of two that
  keeps the sign of every reachable difference; the proofs lift all of these.
* *Pool*: two addresses are enough for a block and its reuse; a free list is full
  with one block (the code: 10000) so that both branches of `deallocate` run;
  `SizeMod` is small so that the counters wrap. Only the outcome at zero matters.
* *Engine*: three updates on two keys, from two threads, with two small values and a
  large one: a put replaces a value, a remove gives its block back, parked in a free
  list for one block or past it, and a third update reuses the address while a get waits.
* *Index*: three keys in one shard and a fourth in another, two levels and two values
  (three levels and one value pass as well). A node has then neighbours of
  every height on both sides, and a sweep a shard behind it and one before it.
* *Session*: every request on one key with two values, the empty one and one of ten
  characters, so that a length has two digits, which looks like the beginning of a request
  and ends in a CR; a read is cut at any character. Three requests in the setting
  `Pipelined` are what it takes for one to wait behind another while a third is on its way; two
  of each client in `Waiting` are an update and the get after it, beside
  those of another client. A queue of two, or one, makes the full queue a normal case.
* *WAL*: three appends of two values to one key (recovery treats each key by itself; the
  configurations run by hand have two), files of two records, six ticks in three seconds, one
  crash: rolling, a reopened file, a torn tail and a restart all occur.
* *Server*: a queue of one makes the full queue the normal case; three requests are
  one served, one queued and one parked; two pieces, so that a read ends within a
  request, completes one, or completes several. Two clients only in `Server_two_clients`, where
  their requests come whole (`DecoderAssumption`), as the pieces of several would mix in the
  decoder, which `Session` has; the theorems are for any number of clients. `MaxRequests`
  bounds what each client sends.

### Fairness

* `MPMCQueue`: each thread inside a call runs (weak fairness), and a
  compare-exchange that could succeed again and again does so (strong fairness):
  spurious failures are not for ever. Callers owe no further calls.
* `Wal`: the flusher runs, because its waits end at a deadline (`wait_until`,
  `wal_writer.cpp:91`), and so does the `join` of `close`. No fairness for appenders,
  crashes or the clock.
* `Server`: the IO thread and each worker run (weak fairness); nothing is assumed
  of clients.
* `Shutdown`: main, a running signal handler, and the threads run and their handlers
  return; a client need not come and a spurious wake-up need not happen. (That the
  IO thread's handlers return is contradicted by `Server_self_wait`: `StopReturns` is
  about the order of the stop, given that they do.)
* `EngineRecovery`: strong fairness for `recover`, so that it cannot be the
  competition for the lock that keeps it from returning.

## 4. Proofs

### The queue

`MPMCQueueProofs.tla`, checked by TLAPS, for every set of threads and items,
every `Capacity` of at least two, every width of `long` greater than `Capacity`,
and without the bound on the run's length mattering:

* `TypeCorrect`: `Spec => []TypeOK`;
* `Invariance`: `Spec => []IInv`;
* `CellsAreExclusive`, `LifetimesAreRespected`, `NothingSurvivesDestroy`:
  `ExclusiveCell`, `LifetimeRespected` and `DestroyLeavesNoObject`.

The assumptions are those of `MPMCQueue` (threads of the two kinds are disjoint,
raw storage is no item, `Capacity` is positive, `long` is wider than `Capacity`)
and `Capacity >= 2`, a hypothesis of the theorems. `MPMCQueue_capacity_one` shows
that the last is needed. That `Capacity` is a power of two is not needed, because
`SlotOf` is the remainder.

Why an inductive invariant is needed: `ExclusiveCell` speaks of the owners of a
cell, but what keeps a producer away from it is a sequence number it has read
before. `IInv` relates the two over the last `Capacity` positions, of which each
cell has exactly one (`SlotsDistinct`, `SlotsCovered`):

* `PositionsInv`: the two counters are at most `Capacity` apart, and no thread's
  `pos` is ahead of its counter;
* `CellsInv`: a position between the counters is claimed (sequence = position, one
  producer at it) or published (sequence = position + 1); an older one is
  being taken (position + 1, one consumer at it) or free (position + Capacity);
* `OwnersInv`: the threads inside a cell are at different positions of that window;
* `LookedInv`: a thread about to compare-exchange on the current counter still
  finds the sequence it has read. This is the step from "looked" to "may claim":
  whatever has changed the cell has also moved the counter;
* `CallsInv`, `LifetimeRespected`, `DestroyLeavesNoObject`.

`ExclusiveCell` then follows: two producers are at different positions of the
window, hence in different cells, and a producer's position is not a consumer's.
The proof has one lemma per action that changes a cell (`EnqueueClaimKeeps`,
`DequeueClaimKeeps`, `EnqueueConstructKeeps`, `DequeueMoveKeeps`,
`EnqueuePublishKeeps`, `DequeueReleaseKeeps`, `DestroyKeeps`), one for
the actions that only change a thread's locals on each side
(`ProducerLocal`, `ConsumerLocal`), and arithmetic lemmas about remainders
(`DivMod`, `ModDistinct`, `ModUnique`, `SlotPeriodic`).

`Implements` (`Spec => FifoSpec`) says that the queue is a `BoundedFifo`: an enqueue and
a dequeue take effect at their successful compare-exchange, "empty" is reported only
of an empty queue, and with a single producer "full" only of a queue with `Capacity`
items. The abstract queue (`Queued`) is read off the positions between the two
counters: the item at a claimed position is still in its producer's hands, at a
published one in the cell (`ItemsInv`, `QueueInv`). A step that moves neither counter
leaves it as it is (`QueueStays`). One fact is new: between its load and its refusal a
sole producer's `pos` is the tail itself (`SoleProducerInv`), so its comparison with
`dequeue_pos_` is about the present queue. With several producers that is false, and
so is the claim: `MPMCQueue_early_refusal`; `FifoSpec` then allows the refusal.

### The pool

`PoolClientsProofs.tla`, for any sets of threads, addresses and block sizes, any limit
of the free lists and any width of the counters: `TypeCorrect` (`TypeOK`), `OneOwner`
(`BlocksHaveOneOwner`) and `Registered` (`HeldBlocksAreRegistered`). The assumptions
are those of `ObjectPool`: `nullptr` is no address, and the large size and the missing
entry are no slab sizes.

The two properties hold each other up. A held block keeps its entry in the map because
a thread that registers or unregisters another block has that block in its own hands,
and nobody holds what is in a thread's hands; and a block that malloc hands out is new
to everybody because whatever anybody owns is live. The inductive invariant says so
for each block: `HeldInv` (live and registered), `TransitInv` (live, not held, in
one thread's hands), `ParkedInv` (live, not held, in nobody's hands, in one free list),
and `Locals` ties a thread's hands to its place in the call. What the steps of `ObjectPool`
do to the heap, the map and the free lists is in `ObjectPoolProofs` (`MallocSlabs`,
`GiveBackSlabs` and `ExitSlabsFree`, for example); one lemma for each action of
`PoolClients` uses it, and so does the engine's proof.

### The engine

`StorageEngineProofs.tla`, for any sets of threads, keys, values and addresses, and any
number of updates: `TypeCorrect` (`TypeOK`), `BlocksAreLive` (`IndexedBlocksAreLive`),
`LogIsTheIndex` (`LogReplaysToIndex`) and `Implements` (`Linearizable`). The
assumptions are those of `ObjectPool` and `StorageEngine`: a value's size is a slab's or
the large one, and `std::nullopt` is no string and "nobody" no thread. `LogIsTheIndex`
alone assumes that no value is the empty string, which the log uses for a removal;
`StorageEngine_empty_value` shows that it must.

`put` is at work on three blocks' worth of state at once, so the invariant follows a
block through its life: the new block is live, registered and nobody's before the index
has it, and holds its value from the copy on (`NewInv`); an old block is its key's and
live until it is given back (`OldInv`); an indexed block is live, registered and not
parked, unless the put that holds the lock is replacing it (`IndexInv`); no freed block
is in a free list (`ParkedInv`). `LockInv` is what keeps the second update away in
between. `LogInv` says that the log replays to the index but for the key of the one
update whose record is still to come.

A `get` has no lock. `GetInv` says what protects it all the same: a block it has found
is live unless the get is in `dangling`, and only an update of the same key can have
given it up; nor does a put write into it. With that, every step maps to a step of
`KVStore` or to a stutter: put and remove take effect when the index changes,
a get when it looks, and an update that gives the block of a waiting get back to the
system makes the abstract get a torn one. The abstract journal is the log with the
pending record behind it (`JournalIsTheLog`).

### The index

`IndexManagerProofs.tla`, for any set of keys, finite or not, any values, any number of
levels and shards, any assignment of keys to shards, and any number of threads in `clear`
and `forEach`: `TypeCorrect` (`TypeOK`), `SortedLists` (`LevelsAreSortedLists`), `MapKept`
(`ActsAsMap`), `Clears` (`ClearForgets`) and `Reports` (`ForEachReports`). The assumptions
are those of `SkipList` and `IndexManager`: keys are numbers, which stand for the order
of strings; there is a level and a shard; and `nullptr`, the head and "not found" are
no key, no value and no thread.

The work is in the functions of a list. A list is sound (`IsSound`) if it has the shape
that `forward` promises and each level leads from a node to the next greater one
(`IsLinked`). On a sound list the loop of each operation ends, because every step goes to a
greater key: `Walk`, `Update` and `ForEach` are recursive functions, and that such a function
exists (`WalkExists`, `UpdateExists`, `FromExists`) and that there is no other value
it could have (`WalkEnds`, `FromIs`) takes the greatest counterexample, or an induction from the
far end of the list. So `update[i]` is the last node before the key (`UpdateIs`), also where the
walk has come down from a level above (`BelowLast`), and from there on

* `insert` links the node in at each of its levels, those above `currentLevel_`
  included (`BeforeIs`, `InsertNodeIs`);
* `remove` stops at the first level that does not lead to the node, and that is where the
  node ends, because a node of a level is a node of all levels below
  (`LinkedIs`); the levels it leaves unused are empty (`LoweredIs`, `UnlinkIs`);
* `clear`, which empties the head's levels in use, leaves no other (`ClearIs`);
* what a level looks like with and without a node is one lemma for both
  (`ChainWith`).

The invariant of the shards (`IndexInv`) is that lists are sound, have only keys of
their shard, and agree with the history `map`. A sweep holds one lock at a time, so its invariant
(`SweeperInv`) is about the keys it has come past and nobody has touched since (`Settled`):
`clear` has left none, `forEach` has reported them, and neither says anything yet of the shards
ahead. `ListChanges` does the step that `put`, `remove` and a turn of `clear` have in common.

### The log

`WalProofs.tla`, for any appenders, keys and values, any size of files and of the
stream's buffer, any number of ticks, appends and crashes: `TypeCorrect` (`TypeOK`); and
`InOrder` (`LogInOrder`) and `Drains` (`CloseDrains`) if the clock is not set back,
`~ClockIsSetBack`. With a clock that is, the flusher may roll to a file whose name comes
before the one it leaves (`Wal_clock_back`). Neither needs `DistinctTimes`: the order is that of
the queue, not of the timestamps. Nor do they need a restart to fall into a later
second. The assumptions are those of `Wal`: the sizes are numbers, a file and a
second not empty, and a torn record is no record.

`LogInOrder` is about a concatenation: the whole records of all files in the order of
their names (`Contents`). A write goes to the open file only, so it extends the
concatenation at its end only if all later files are empty, and that holds because the
second of the clock is what names a new file (`FilesInv`, `SecondIsMonotone`,
`SecondsGrow`). `ContentsGrow` then says that what is written comes after the rest, and
`ContentsTorn` that a torn record adds nothing. The stream may pass on any prefix
of what it holds: `FlusherWrite` cuts stream and record in two (`Divided`).

`CloseDrains` needs to know why the queue is empty when the flusher has ended
(`FlusherInv`): it has seen the stop flag in the critical section in which it took the
last batch, and after that append refuses; it ends only behind a flush.

`Intact` and `FlattenSeq` are recursive functions. What is proved of them is proved by
induction over a set of numbers (`SetInduction`, from the library's `WFMin`): that such a
function exists (`IntactExists`, `FlattenExists`) and what one more element does to its
value.

`PointInTime` (`RecoversPointInTime`) says that recovery up to a timestamp yields, for each
key, the last value on disk that is no newer, in whatever order the directory lists the
files and wherever a crash has torn one. It has five hypotheses, and each has a configuration in
section 3 or a line of the code to show that it is needed: timestamps that differ
(`DistinctTimes`), a clock that is not set back (`Wal_clock_back`), a restart
in a later second (`Wal_restart`), no value above 64 KiB (`Wal_oversized`), and one appender at a
time (`OneAppender`), which is what the engine's lock makes of its threads: `append` takes the
timestamp before it takes its own lock, so two appenders could push in the other order.

Two more invariants carry it. `TimesInv`: timestamps grow along what was accepted, and with
`LogInOrder` along what is on disk. `TornInv`: only the last record of a file
can be torn, and of the open file none, since after a crash the next file has another name.
`Scan` then stops at the first record that is too new or at the end of what is whole
(`ScanIs`), and past a record that is too new every other one is too (`DeliveredAre`). So
the collector sees exactly the records up to the timestamp, each once, though in
another order (`OrderReachesAll`, `InOneFile`); and since it keeps the one with the greatest
timestamp (`CollectedIs`), which is the last one of the log (`LoggedIs`), the order does not
matter (`RecoveryIsRight`).

### The request path

`ServerProofs.tla`, for any connections, any finite set of workers, any capacity of the
request queue, any number of requests and of pieces in which they may come, and whatever
calls fail: `TypeCorrect` (`TypeOK`), `ServedOnce` (`EachRequestIsServedOnce`) and `Listen`
(`DeafOnlyIfSplitOrParked`).

`ServedOnce` counts: the places a request may be in are what the decoder has just
returned, the queue, the parked requests, the workers and the answered ones, and the
count is one if the request has arrived and none if it has not (`ServedInv`). A step takes a
request from one place to another, or, with a read, makes it arrive; the lemmas about
`Occurrences` and about the quotient of pieces and requests do the sums. What the
moves rely on is `IoInv`, `ParkedInv` and `WorkersInv`: everyone handles requests of the connection
they were called for.

`TypeOK` bounds the receives of a connection by the requests of its client, which
nothing in `postRecv` does. `ReceivesInv` does: beyond the first receive there is at
most one for each request that a worker has taken past `postRecv` (`Rearmed`).

`Listen` says when an open connection can be without a receive. The code does not keep it
listening (`OpenConnectionsListen` is violated); the theorem says that it fails in two
ways only: a part of a request has been read, and no worker gets anything from it, or a
request has been parked, and no worker need look at it. In all other cases there is a
request between the decoder and the worker that will post the next receive (`ListenInv`),
where a parked request counts too, as it may still be moved to the queue. The read that
uses up the last receive keeps the invariant because it either ends within a request or has
completed one, which is arithmetic about quotients (`HandleReadListens`).

### The stop

`ShutdownProofs.tla`, for any finite sets of workers and IO threads: `TypeCorrect`
(`TypeOK`), `StopIsOrdered` (`StopsInOrder`) and `NoUseAfterDelete` (`UsersEndFirst`).
`UsersEndFirst` speaks of what has been closed and deleted, not of how far main has
come. `StopsInOrder`, which is inductive, does: from the join of a kind of threads on
they have ended, and nothing is closed or deleted before the last join. A thread that has
ended takes no step, and main does not start any after the beginning. Safety needs no
fairness, so these theorems are about `Spec`.

### Only model-checked

* Every liveness property (`CallsReturn`, `AppendsReachDisk`, `CloseReturns`,
  `QueuedRequestsAreAnswered`, `StopReturns`): liveness under fairness is out of the
  prover's reach.
* `Session` (`TypeOK`, `DecoderKeepsUp`, `RepliesAnswerRequests`): the decoder is
  recursive over the bytes of its buffer. What it computes for every input would have to
  be proved by inductions like those about `Intact` and `Walk`, over a far larger definition.
* `EngineRecovery`, whose one property is a liveness property that does not hold.

## 5. Not modelled, and why

* The memory orders of the queue's atomics: the modules are sequentially consistent.
  A data race on a deque is modelled where it decides something (`DequeEmpty`,
  `PostSendPop`), not as a torn object.
* `FlushFileBuffers` in `flush` gets something that is not a handle; a loss of power
  is therefore not modelled, only the death of the process. `sync` has no caller.
* Which shard the hash gives a key (a constant), and `ObjectPool::block_size`, which
  nothing calls.
* The overflow of an integer on the wire, and what `reserve` does with a count that memory
  has no room for: integers are those of mathematics.
* The order in which the reads of one connection complete, when a burst of requests
  has left it with several receives.
* Reuse of a socket handle after the double `close` that two threads can run.
* The wording of the dispatcher's messages and of the log output; the test client.
* A reactor whose `start` fails: `main` ignores the result.

## 6. Plan

Done: the queue and the pool with their proofs, the engine, the index with its sweeps,
the log, the server's request path, the protocol from bytes to replies, the stop; the
proofs about queue, pool, engine, index, log with its recovery, request path and stop,
with the refinements of `BoundedFifo` and `KVStore`. Every invariant that a run checks is
proved but for those of `Session`.

Next, the most important first:

1. `Session`: `TypeOK`, which does not need the decoder's results for every input.
2. A composition of engine and log: an acknowledged update survives a restart
   once it has reached the disk, and `recover` rebuilds the index of that moment
   (with the second lock left out). `PointInTime` is the half of it that is about the log.
3. `Server`: reused socket handles, two threads in `close`.
