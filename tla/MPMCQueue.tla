------------------------------ MODULE MPMCQueue ------------------------------
(***************************************************************************)
(* The bounded lock-free queue of src/core/MPMCQueue.hpp, through which    *)
(* the reactor hands requests to the worker threads.                       *)
(*                                                                         *)
(* Every access to a shared atomic is a step of its own.  The cell a       *)
(* thread has claimed is then accessed without synchronisation: the window *)
(* from the claim to the store that releases the cell is what              *)
(* ExclusiveCell is about.                                                 *)
(*                                                                         *)
(* Positions are the code's size_t counters.  They are unbounded here (a   *)
(* 64-bit counter does not wrap in the life of a server), but the          *)
(* difference of a cell's sequence and a position goes through `long',     *)
(* which is 32 bits wide on the code's only platform (Windows) and wraps.  *)
(***************************************************************************)
EXTENDS Integers

CONSTANTS Producers,  \* threads that call enqueue
          Consumers,  \* threads that call dequeue
          Items,      \* values of the template parameter T
          NoItem,     \* raw storage: no T has been constructed there
          Capacity,   \* the template parameter Capacity
          LongMod,    \* 2^32: how many values a long has
          MaxPos      \* bound of the model: no enqueue call begins at or past it

ASSUME ThreadsAssumption == Producers \cap Consumers = {}
ASSUME ItemsAssumption == NoItem \notin Items
ASSUME CapacityAssumption == Capacity \in Nat \ {0}
ASSUME CapacityIsPowerOfTwo == \E k \in 0 .. Capacity : Capacity = 2^k
ASSUME LongAssumption == LongMod \in Nat /\ LongMod > Capacity
ASSUME MaxPosAssumption == MaxPos \in Nat

Threads == Producers \cup Consumers
Slots == 0 .. Capacity - 1

VARIABLES sequence,     \* buffer_[i].sequence
          data,         \* buffer_[i].data_storage
          enqueue_pos,  \* enqueue_pos_
          dequeue_pos,  \* dequeue_pos_
          pc,           \* where each thread is in its call
          pos,          \* the local variable pos of each thread's call
          item,         \* the argument (enqueue) or out-parameter (dequeue)
          alive         \* FALSE once the destructor has run

vars == <<sequence, data, enqueue_pos, dequeue_pos, pc, pos, item, alive>>
shared == <<sequence, data, enqueue_pos, dequeue_pos, alive>>

EnqueueLabels == {"e_load", "e_seq", "e_cas", "e_full", "e_construct", "e_publish"}
DequeueLabels == {"d_load", "d_seq", "d_cas", "d_empty", "d_move", "d_release"}

\* pos & capacity_mask_, for a Capacity that is a power of two
SlotOf(p) == p % Capacity

\* (long)a - (long)b
LongDiff(a, b) == LET d == (a - b) % LongMod
                  IN  IF 2 * d < LongMod THEN d ELSE d - LongMod

\* a - b >= n in size_t arithmetic: a negative difference wraps to a huge one
SizeDiffAtLeast(a, b, n) == a < b \/ a - b >= n

Goto(t, from, to) == /\ pc[t] = from
                     /\ pc' = [pc EXCEPT ![t] = to]

-----------------------------------------------------------------------------

Init == /\ sequence = [i \in Slots |-> i]
        /\ data = [i \in Slots |-> NoItem]
        /\ enqueue_pos = 0
        /\ dequeue_pos = 0
        /\ pc = [t \in Threads |-> "idle"]
        /\ pos = [t \in Threads |-> 0]
        /\ item = [t \in Threads |-> NoItem]
        /\ alive = TRUE

EnqueueCall(p, i) ==
  /\ alive
  /\ enqueue_pos < MaxPos
  /\ Goto(p, "idle", "e_load")
  /\ item' = [item EXCEPT ![p] = i]
  /\ UNCHANGED <<shared, pos>>

\* pos = enqueue_pos_.load(): before the loop, and in its two retry branches
EnqueueLoad(p) ==
  /\ Goto(p, "e_load", "e_seq")
  /\ pos' = [pos EXCEPT ![p] = enqueue_pos]
  /\ UNCHANGED <<shared, item>>

\* load the cell's sequence and branch on its distance from pos
EnqueueLook(p) ==
  LET diff == LongDiff(sequence[SlotOf(pos[p])], pos[p])
  IN  /\ \/ diff = 0 /\ Goto(p, "e_seq", "e_cas")
         \/ diff < 0 /\ Goto(p, "e_seq", "e_full")
         \/ diff > 0 /\ Goto(p, "e_seq", "e_load")
      /\ UNCHANGED <<shared, pos, item>>

\* Faulty variant of the claim: a plain store instead of the compare-exchange
EnqueueClaimByStore(p) ==
  /\ Goto(p, "e_cas", "e_construct")
  /\ enqueue_pos' = pos[p] + 1
  /\ UNCHANGED <<sequence, data, dequeue_pos, pos, item, alive>>

\* compare_exchange_weak succeeds: the position is this producer's
EnqueueClaim(p) ==
  /\ Goto(p, "e_cas", "e_construct")
  /\ enqueue_pos = pos[p]
  /\ enqueue_pos' = enqueue_pos + 1
  /\ UNCHANGED <<sequence, data, dequeue_pos, pos, item, alive>>

\* compare_exchange_weak fails, perhaps spuriously: it reloads pos
EnqueueClaimFails(p) ==
  /\ Goto(p, "e_cas", "e_seq")
  /\ pos' = [pos EXCEPT ![p] = enqueue_pos]
  /\ UNCHANGED <<shared, item>>

\* Faulty variant: refuse without a look at dequeue_pos_
EnqueueRefusedAtOnce(p) ==
  /\ Goto(p, "e_full", "idle")
  /\ UNCHANGED <<shared, pos, item>>

\* return false
EnqueueRefused(p) ==
  /\ Goto(p, "e_full", "idle")
  /\ SizeDiffAtLeast(pos[p], dequeue_pos, Capacity)
  /\ UNCHANGED <<shared, pos, item>>

EnqueueNotFull(p) ==
  /\ Goto(p, "e_full", "e_load")
  /\ ~SizeDiffAtLeast(pos[p], dequeue_pos, Capacity)
  /\ UNCHANGED <<shared, pos, item>>

\* new (cell->data_ptr()) T(item)
EnqueueConstruct(p) ==
  /\ Goto(p, "e_construct", "e_publish")
  /\ data' = [data EXCEPT ![SlotOf(pos[p])] = item[p]]
  /\ UNCHANGED <<sequence, enqueue_pos, dequeue_pos, pos, item, alive>>

\* cell->sequence.store(pos + 1) and return true
EnqueuePublish(p) ==
  /\ Goto(p, "e_publish", "idle")
  /\ sequence' = [sequence EXCEPT ![SlotOf(pos[p])] = pos[p] + 1]
  /\ UNCHANGED <<data, enqueue_pos, dequeue_pos, pos, item, alive>>

-----------------------------------------------------------------------------

DequeueCall(c) ==
  /\ alive
  /\ Goto(c, "idle", "d_load")
  /\ item' = [item EXCEPT ![c] = NoItem]
  /\ UNCHANGED <<shared, pos>>

DequeueLoad(c) ==
  /\ Goto(c, "d_load", "d_seq")
  /\ pos' = [pos EXCEPT ![c] = dequeue_pos]
  /\ UNCHANGED <<shared, item>>

DequeueLook(c) ==
  LET diff == LongDiff(sequence[SlotOf(pos[c])], pos[c] + 1)
  IN  /\ \/ diff = 0 /\ Goto(c, "d_seq", "d_cas")
         \/ diff < 0 /\ Goto(c, "d_seq", "d_empty")
         \/ diff > 0 /\ Goto(c, "d_seq", "d_load")
      /\ UNCHANGED <<shared, pos, item>>

DequeueClaim(c) ==
  /\ Goto(c, "d_cas", "d_move")
  /\ dequeue_pos = pos[c]
  /\ dequeue_pos' = dequeue_pos + 1
  /\ UNCHANGED <<sequence, data, enqueue_pos, pos, item, alive>>

DequeueClaimFails(c) ==
  /\ Goto(c, "d_cas", "d_seq")
  /\ pos' = [pos EXCEPT ![c] = dequeue_pos]
  /\ UNCHANGED <<shared, item>>

\* Faulty variant: report empty without a look at enqueue_pos_
DequeueFoundEmptyAtOnce(c) ==
  /\ Goto(c, "d_empty", "idle")
  /\ UNCHANGED <<shared, pos, item>>

\* return false
DequeueFoundEmpty(c) ==
  /\ Goto(c, "d_empty", "idle")
  /\ pos[c] >= enqueue_pos
  /\ UNCHANGED <<shared, pos, item>>

\* a producer has claimed the cell and not yet published it: try again
DequeueNotEmpty(c) ==
  /\ Goto(c, "d_empty", "d_load")
  /\ pos[c] < enqueue_pos
  /\ UNCHANGED <<shared, pos, item>>

\* Faulty variant: the moved-from object is not destroyed
DequeueMoveOnly(c) ==
  /\ Goto(c, "d_move", "d_release")
  /\ item' = [item EXCEPT ![c] = data[SlotOf(pos[c])]]
  /\ UNCHANGED <<sequence, data, enqueue_pos, dequeue_pos, pos, alive>>

\* item = std::move(*cell->data_ptr()), then the destructor of T
DequeueMove(c) ==
  LET s == SlotOf(pos[c])
  IN  /\ Goto(c, "d_move", "d_release")
      /\ item' = [item EXCEPT ![c] = data[s]]
      /\ data' = [data EXCEPT ![s] = NoItem]
      /\ UNCHANGED <<sequence, enqueue_pos, dequeue_pos, pos, alive>>

\* Faulty variant: the sequence stored is not that of the next lap
DequeueReleaseSameLap(c) ==
  /\ Goto(c, "d_release", "idle")
  /\ sequence' = [sequence EXCEPT ![SlotOf(pos[c])] = pos[c] + 1]
  /\ UNCHANGED <<data, enqueue_pos, dequeue_pos, pos, item, alive>>

\* cell->sequence.store(pos + Capacity) and return true
DequeueRelease(c) ==
  /\ Goto(c, "d_release", "idle")
  /\ sequence' = [sequence EXCEPT ![SlotOf(pos[c])] = pos[c] + Capacity]
  /\ UNCHANGED <<data, enqueue_pos, dequeue_pos, pos, item, alive>>

\* Faulty variant: the last position is not visited
DestroyAllButLast ==
  LET Destroyed == {SlotOf(h) : h \in {p \in dequeue_pos .. enqueue_pos - 2 :
                                         sequence[SlotOf(p)] = p + 1}}
  IN  /\ alive
      /\ \A t \in Threads : pc[t] = "idle"
      /\ alive' = FALSE
      /\ data' = [i \in Slots |-> IF i \in Destroyed THEN NoItem ELSE data[i]]
      /\ UNCHANGED <<sequence, enqueue_pos, dequeue_pos, pc, pos, item>>

\* ~MPMCQueue, once no thread uses the queue: it visits the positions from
\* dequeue_pos_ to enqueue_pos_ and destroys the objects published there
Destroy ==
  LET Destroyed == {SlotOf(h) : h \in {p \in dequeue_pos .. enqueue_pos - 1 :
                                         sequence[SlotOf(p)] = p + 1}}
  IN  /\ alive
      /\ \A t \in Threads : pc[t] = "idle"
      /\ alive' = FALSE
      /\ data' = [i \in Slots |-> IF i \in Destroyed THEN NoItem ELSE data[i]]
      /\ UNCHANGED <<sequence, enqueue_pos, dequeue_pos, pc, pos, item>>

-----------------------------------------------------------------------------

\* What a thread inside a call does next
EnqueueStep(p) == \/ EnqueueLoad(p) \/ EnqueueLook(p)
                  \/ EnqueueClaim(p) \/ EnqueueClaimFails(p)
                  \/ EnqueueRefused(p) \/ EnqueueNotFull(p)
                  \/ EnqueueConstruct(p) \/ EnqueuePublish(p)

DequeueStep(c) == \/ DequeueLoad(c) \/ DequeueLook(c)
                  \/ DequeueClaim(c) \/ DequeueClaimFails(c)
                  \/ DequeueFoundEmpty(c) \/ DequeueNotEmpty(c)
                  \/ DequeueMove(c) \/ DequeueRelease(c)

Next == \/ \E p \in Producers : EnqueueStep(p) \/ \E i \in Items : EnqueueCall(p, i)
        \/ \E c \in Consumers : DequeueStep(c) \/ DequeueCall(c)
        \/ Destroy

Spec == Init /\ [][Next]_vars

\* The scheduler runs every thread that is inside a call, and a weak
\* compare-exchange that could succeed again and again does not fail
\* spuriously for ever.
Fairness == /\ \A p \in Producers : WF_vars(EnqueueStep(p)) /\ SF_vars(EnqueueClaim(p))
            /\ \A c \in Consumers : WF_vars(DequeueStep(c)) /\ SF_vars(DequeueClaim(c))

FairSpec == Spec /\ Fairness

-----------------------------------------------------------------------------

TypeOK ==
  /\ sequence \in [Slots -> Nat]
  /\ data \in [Slots -> Items \cup {NoItem}]
  /\ enqueue_pos \in Nat
  /\ dequeue_pos \in Nat
  /\ pc \in [Threads -> {"idle"} \cup EnqueueLabels \cup DequeueLabels]
  /\ pos \in [Threads -> Nat]
  /\ item \in [Threads -> Items \cup {NoItem}]
  /\ alive \in BOOLEAN

\* The threads that access a cell's storage without synchronisation
Writing == {p \in Producers : pc[p] \in {"e_construct", "e_publish"}}
Reading == {c \in Consumers : pc[c] \in {"d_move", "d_release"}}
Owners == Writing \cup Reading

\* No data race: between its claim and its release of a cell a thread is
\* the only one that touches the cell's storage, although nothing but the
\* sequence numbers keeps the others away (MPMCQueue.hpp:90-91, 121-123).
ExclusiveCell ==
  \A t, u \in Owners : t # u => SlotOf(pos[t]) # SlotOf(pos[u])

\* Object lifetime: an object is constructed only in raw storage, stays as
\* constructed until it is published, and is moved out of and destroyed only
\* where one has been constructed (MPMCQueue.hpp:90, 121-122).
LifetimeRespected ==
  /\ \A p \in Writing : data[SlotOf(pos[p])] = (IF pc[p] = "e_construct" THEN NoItem ELSE item[p])
  /\ \A c \in Reading : IF pc[c] = "d_move" THEN data[SlotOf(pos[c])] \in Items
                                            ELSE data[SlotOf(pos[c])] = NoItem

\* The destructor leaves no constructed object behind (MPMCQueue.hpp:44-59).
DestroyLeavesNoObject ==
  ~alive => \A i \in Slots : data[i] = NoItem

\* When only finitely many items are enqueued every call of either
\* operation returns: the retry loops (MPMCQueue.hpp:67-89, 101-120) neither
\* spin for ever nor wait for each other.
CallsReturn ==
  \A t \in Threads : (pc[t] # "idle") ~> (pc[t] = "idle")

\* The inductive invariant, over the last Capacity positions handed out:
\* each of them has a cell of its own, whose sequence number says how far the
\* item that passes through it has come.
PositionsInv == /\ dequeue_pos <= enqueue_pos
                /\ enqueue_pos <= dequeue_pos + Capacity
                /\ \A p \in Producers : pos[p] <= enqueue_pos
                /\ \A c \in Consumers : pos[c] <= dequeue_pos

TakenBy(S, p) == \E t \in S : pos[t] = p

Claimed(p) == sequence[SlotOf(p)] = p /\ TakenBy(Writing, p)

Published(p) == /\ sequence[SlotOf(p)] = p + 1
                /\ ~TakenBy(Writing, p)
                /\ alive => data[SlotOf(p)] \in Items

BeingTaken(p) == sequence[SlotOf(p)] = p + 1 /\ TakenBy(Reading, p)

Free(p) == /\ sequence[SlotOf(p)] = p + Capacity
           /\ ~TakenBy(Reading, p)
           /\ data[SlotOf(p)] = NoItem

CellsInv == \A p \in enqueue_pos - Capacity .. enqueue_pos - 1 :
              IF dequeue_pos <= p THEN Claimed(p) \/ Published(p)
                                  ELSE BeingTaken(p) \/ Free(p)

OwnersInv ==
  /\ \A p \in Writing : dequeue_pos <= pos[p] /\ pos[p] < enqueue_pos
  /\ \A c \in Reading : enqueue_pos - Capacity <= pos[c] /\ pos[c] < dequeue_pos
  /\ \A t, u \in Writing : t # u => pos[t] # pos[u]
  /\ \A t, u \in Reading : t # u => pos[t] # pos[u]

\* What a thread that is about to compare-and-exchange has seen still holds,
\* unless the exchange is bound to fail.
LookedInv ==
  /\ \A p \in Producers : pc[p] = "e_cas" /\ pos[p] = enqueue_pos
                             => sequence[SlotOf(pos[p])] = pos[p]
  /\ \A c \in Consumers : pc[c] = "d_cas" /\ pos[c] = dequeue_pos
                             => sequence[SlotOf(pos[c])] = pos[c] + 1

\* A call runs only while the queue lives, and an enqueue has its argument.
CallsInv ==
  /\ \A t \in Threads : pc[t] # "idle" => alive
  /\ \A p \in Producers : pc[p] # "idle" => item[p] \in Items

IInv == /\ TypeOK
        /\ PositionsInv
        /\ CellsInv
        /\ OwnersInv
        /\ LookedInv
        /\ CallsInv
        /\ LifetimeRespected
        /\ DestroyLeavesNoObject

-----------------------------------------------------------------------------
(***************************************************************************)
(* The queue implements BoundedFifo.  A call takes effect when its         *)
(* compare-exchange succeeds; from then on the item at a position is the   *)
(* one its producer is about to construct, or has constructed, there.      *)
(***************************************************************************)

ItemAt(p) == IF TakenBy(Writing, p) THEN item[CHOOSE t \in Writing : pos[t] = p]
                                    ELSE data[SlotOf(p)]

Queued == IF alive
          THEN [k \in 1 .. enqueue_pos - dequeue_pos |-> ItemAt(dequeue_pos + k - 1)]
          ELSE <<>>

CallState == [t \in Threads |-> CASE pc[t] = "idle" -> "idle"
                                  [] t \in Owners -> "done"
                                  [] OTHER -> "pending"]

Held == [t \in Threads |-> IF t \in Reading /\ pc[t] = "d_move"
                           THEN data[SlotOf(pos[t])] ELSE item[t]]

SeveralProducers == \E p, r \in Producers : p # r

Fifo == INSTANCE BoundedFifo WITH q <- Queued, call <- CallState, val <- Held,
                                  open <- alive, MayRefuseEarly <- SeveralProducers

\* The queue is a FIFO of the stated capacity: items leave in the order
\* their positions were claimed, none is lost, duplicated or invented,
\* dequeue reports empty only when the queue is empty, and with a single
\* producer (the one reactor thread of main.cpp:52) enqueue returns false
\* only when Capacity items are queued.
FifoSpec == Fifo!Spec
=============================================================================
