------------------------------- MODULE Server -------------------------------
(***************************************************************************)
(* The path of a request through the server: the IO thread of IOCPReactor  *)
(* runs the handlers of class Connection when an operation completes       *)
(* (core/reactor.cpp, network/connection.cpp), and the worker threads take *)
(* requests from the request queue, run them and send the responses        *)
(* (core/thread_pool.cpp).                                                 *)
(*                                                                         *)
(* The request queue is a bounded FIFO (module MPMCQueue), the engine's    *)
(* answer is not looked into (module StorageEngine).  A completion packet  *)
(* is handled at any time after its operation was posted.  A step on a     *)
(* Connection that has been destroyed, and a pop of an empty deque, leave  *)
(* the thread "undefined": the model says nothing of what it does then.    *)
(***************************************************************************)
EXTENDS Integers, Sequences, FiniteSetsExt, SequencesExt

CONSTANTS Connections,      \* the sockets that accept returns
          Workers,          \* the threads of the WorkerThreadPool
          Nobody,           \* no connection
          NoMessage,        \* a worker without a request
          Capacity,         \* of the request queue: 1024
          Parts,            \* in how many pieces TCP may deliver a request
          LeftOver,         \* what `int n' of postSend may hold: 0, or 1 for any
                            \* other length that memcpy survives
          WorkersHaveIocp,  \* FALSE iff the pool was given a null iocp_
          CallsFail,        \* TRUE iff malloc and the calls of Winsock and IOCP may fail
          MaxRequests       \* bound of the model: how many each client sends

ASSUME CapacityAssumption == {Capacity, Parts, MaxRequests} \subseteq Nat \ {0}
ASSUME ThreadsAssumption == IsFiniteSet(Workers)
ASSUME LeftOverAssumption == LeftOver \subseteq {0, 1}
ASSUME FlagsAssumption == {WorkersHaveIocp, CallsFail} \subseteq BOOLEAN

\* The connections share one Decoder (main.cpp:47), which mixes the pieces of
\* their requests up: not modelled here.
ASSUME DecoderAssumption == Parts = 1 \/ Cardinality(Connections) = 1

Requests == Connections \X (1 .. MaxRequests)  \* <<connection, which of its requests>>
Client(r) == r[1]

VARIABLES conn,            \* the sockets' Connections, and what the operations on them hold
          request_queue_,
          io,              \* the IO thread: what it does, for which connection, and
                           \* the requests of handleRead's ret that are left
          worker,          \* the workers: what each does, and its locals t, n and ans
          answered         \* history: the requests whose response was added

vars == <<conn, request_queue_, io, worker, answered>>

\* dqe_ has the requests that found the queue full, dqe1_ the responses to be sent.
NewConnection ==
  [state |-> "new",    \* then "open", "closed" (~alive_), "destroyed"
   left |-> FALSE,     \* TRUE iff the client has closed its end
   sent |-> 0,         \* how many pieces the client has sent
   received |-> 0,     \* how many of them the decoder has got
   recvs |-> 0,        \* how many receives are under way
   sends |-> <<>>,     \* the sends under way: their lengths and their responses
   spaces |-> 0,       \* how many QUEUE_SPACE_AVAILABLE packets are under way
   dqe_ |-> <<>>, dqe1_ |-> <<>>]

IoWaits == [at |-> "wait", conn |-> Nobody, ret |-> <<>>]

IdleWorker == [at |-> "idle", message |-> NoMessage, n |-> 0, ans |-> {}]

Init == /\ conn = [c \in Connections |-> NewConnection]
        /\ request_queue_ = <<>>
        /\ io = IoWaits
        /\ worker = [w \in Workers |-> IdleWorker]
        /\ answered = {}

\* Faulty variant: off by one
QueueOverfull == Len(request_queue_) > Capacity

QueueFull == Len(request_queue_) >= Capacity

\* enqueue, whose result the callers ignore
Enqueue(r) == request_queue_' = IF Len(request_queue_) < Capacity THEN Append(request_queue_, r)
                                                                  ELSE request_queue_

\* Faulty variant: alive_ is not cleared
ClosedQuietly(k) == k

\* close(): alive_ is cleared and the socket closed
Closed(k) == IF k.state = "open" THEN [k EXCEPT !.state = "closed"] ELSE k

\* What an operation leaves of connection k: it is posted, or there is no
\* memory for it or the call fails, and k is closed
Attempt(k, posted) == (IF k.state = "open" THEN {posted} ELSE {})
                        \cup (IF CallsFail \/ k.state = "closed" THEN {Closed(k)} ELSE {})

\* postRecv()
PostRecv(k) == Attempt(k, [k EXCEPT !.recvs = @ + 1])

\* PostQueuedCompletionStatus of a QUEUE_SPACE_AVAILABLE packet for k, whose
\* result is not looked at
PostSpace(k) == {[k EXCEPT !.spaces = @ + 1]} \cup (IF CallsFail THEN {k} ELSE {})

-----------------------------------------------------------------------------
(* Clients and the accept thread                                           *)

ClientSend(c) == /\ ~conn[c].left
                 /\ conn[c].sent < MaxRequests * Parts
                 /\ conn' = [conn EXCEPT ![c].sent = @ + 1]
                 /\ UNCHANGED <<request_queue_, io, worker, answered>>

ClientLeave(c) == /\ ~conn[c].left
                  /\ conn' = [conn EXCEPT ![c].left = TRUE]
                  /\ UNCHANGED <<request_queue_, io, worker, answered>>

\* addConnection, and the first receive (start)
AddConnection(c) == /\ conn[c].state = "new"
                    /\ \E k \in PostRecv([conn[c] EXCEPT !.state = "open"]) : conn' = [conn EXCEPT ![c] = k]
                    /\ UNCHANGED <<request_queue_, io, worker, answered>>

-----------------------------------------------------------------------------
(* The IO thread: runLoop and the handlers it calls                        *)

Exists(c) == conn[c].state \in {"open", "closed"}

UnderWay(c) == conn[c].recvs > 0 \/ conn[c].sends # <<>> \/ conn[c].spaces > 0

\* parseAllAvailableRequests: the requests that `pieces' more pieces complete
Parsed(c, pieces) ==
  LET before == conn[c].received \div Parts
      after == (conn[c].received + pieces) \div Parts
  IN  [i \in 1 .. after - before |-> <<c, before + i>>]

\* Faulty variant: the handler posts the next receive as well
ReceivesRearmed(k) == k

\* How many of k receives are under way when one has been handled
ReceivesLeft(k) == k - 1

\* A receive completes, with what has arrived or, at the end of the stream,
\* with nothing: handleRead appends and parses.  It posts no new receive.
HandleRead(c, pieces) ==
  /\ io.at = "wait" /\ Exists(c)
  /\ conn[c].recvs > 0
  /\ conn[c].received + pieces <= conn[c].sent
  /\ pieces = 0 => conn[c].left /\ conn[c].received = conn[c].sent
  /\ conn' = [conn EXCEPT ![c].recvs = ReceivesLeft(@), ![c].received = @ + pieces]
  /\ io' = IF Parsed(c, pieces) = <<>> THEN io ELSE [at |-> "read", conn |-> c, ret |-> Parsed(c, pieces)]
  /\ UNCHANGED <<request_queue_, worker, answered>>

\* handleRead is done with the first of ret
NextRequest == io' = IF Len(io.ret) = 1 THEN IoWaits ELSE [io EXCEPT !.at = "read", !.ret = Tail(@)]

\* The queue is not full, and stays so, as only this thread enqueues
HandleReadEnqueue == /\ io.at = "read" /\ ~QueueFull
                     /\ Enqueue(Head(io.ret))
                     /\ NextRequest
                     /\ UNCHANGED <<conn, worker, answered>>

\* full() returned TRUE; by the time the request is parked the workers may
\* have emptied the queue
HandleReadFull == /\ io.at = "read" /\ QueueFull
                  /\ io' = [io EXCEPT !.at = "park"]
                  /\ UNCHANGED <<conn, request_queue_, worker, answered>>

HandleReadPark == /\ io.at = "park"
                  /\ conn' = [conn EXCEPT ![io.conn].dqe_ = Append(@, Head(io.ret))]
                  /\ NextRequest
                  /\ UNCHANGED <<request_queue_, worker, answered>>

\* A send completes.  With responses left handleWrite calls postSend, which
\* locks mx_dqe1_, while it holds mx_dqe1_ itself.
HandleWrite(c) ==
  /\ io.at = "wait" /\ Exists(c)
  /\ conn[c].sends # <<>>
  /\ LET n == Head(conn[c].sends).n
         k == [conn[c] EXCEPT !.sends = Tail(@)]
     IN  /\ conn' = [conn EXCEPT ![c] = IF n = 0 THEN Closed(k) ELSE k]
         /\ io' = IF n # 0 /\ k.dqe1_ # <<>> THEN [io EXCEPT !.at = "blocked", !.conn = c] ELSE io
  /\ UNCHANGED <<request_queue_, worker, answered>>

HandleQueueSpace(c) == /\ io.at = "wait" /\ Exists(c)
                       /\ conn[c].spaces > 0
                       /\ conn' = [conn EXCEPT ![c].spaces = @ - 1]
                       /\ io' = [io EXCEPT !.at = "space", !.conn = c]
                       /\ UNCHANGED <<request_queue_, worker, answered>>

\* one turn of handqueuefull's loop
MoveParked == /\ io.at = "space"
              /\ conn[io.conn].dqe_ # <<>> /\ ~QueueFull
              /\ Enqueue(Head(conn[io.conn].dqe_))
              /\ conn' = [conn EXCEPT ![io.conn].dqe_ = Tail(@)]
              /\ UNCHANGED <<io, worker, answered>>

\* the loop ends; if requests are left the packet is posted again
MoveParkedEnds == /\ io.at = "space"
                  /\ conn[io.conn].dqe_ = <<>> \/ QueueFull
                  /\ \E k \in IF conn[io.conn].dqe_ = <<>> THEN {conn[io.conn]} ELSE PostSpace(conn[io.conn]) :
                       conn' = [conn EXCEPT ![io.conn] = k]
                  /\ io' = IoWaits
                  /\ UNCHANGED <<request_queue_, worker, answered>>

\* Connection k when one of its operations has ended
OneLess(k) == (IF k.recvs > 0 THEN {[k EXCEPT !.recvs = @ - 1]} ELSE {})
                \cup (IF k.sends # <<>> THEN {[k EXCEPT !.sends = Tail(@)]} ELSE {})

\* An operation fails, because the socket was closed at either end.  The
\* Connection is erased, and destroyed with its deques, if it was closed here.
OperationFails(c) ==
  /\ io.at = "wait" /\ Exists(c)
  /\ conn[c].state = "closed" \/ conn[c].left
  /\ \E k \in OneLess(conn[c]) :
       conn' = [conn EXCEPT ![c] = IF k.state = "open" THEN k
                                   ELSE [k EXCEPT !.state = "destroyed", !.dqe_ = <<>>, !.dqe1_ = <<>>]]
  /\ UNCHANGED <<request_queue_, io, worker, answered>>

\* The packet's key is the address of a Connection that is no more
IoUsesDestroyed(c) == /\ io.at = "wait"
                      /\ conn[c].state = "destroyed" /\ UnderWay(c)
                      /\ io' = [io EXCEPT !.at = "undefined"]
                      /\ UNCHANGED <<conn, request_queue_, worker, answered>>

IoThread == \/ \E c \in Connections :
                 \/ \E pieces \in 0 .. MaxRequests * Parts : HandleRead(c, pieces)
                 \/ HandleWrite(c) \/ HandleQueueSpace(c)
                 \/ OperationFails(c) \/ IoUsesDestroyed(c)
            \/ HandleReadEnqueue \/ HandleReadFull \/ HandleReadPark
            \/ MoveParked \/ MoveParkedEnds

-----------------------------------------------------------------------------
(* The workers: workerThreadLoop                                           *)

ConnOf(w) == Client(worker[w].message)

\* Worker w goes on from a label, as `next'.
Step(w, from, next) == /\ worker[w].at = from
                       /\ Exists(ConnOf(w))
                       /\ worker' = [worker EXCEPT ![w] = next]

\* Worker w at another label, with the locals it has
At(w, label) == [worker[w] EXCEPT !.at = label]

Dequeue(w) == /\ worker[w].at = "idle"
              /\ request_queue_ # <<>>
              /\ worker' = [worker EXCEPT ![w].at = "recv", ![w].message = Head(request_queue_)]
              /\ request_queue_' = Tail(request_queue_)
              /\ UNCHANGED <<conn, io, answered>>

WorkerPostRecv(w) == /\ Step(w, "recv", At(w, "dispatch"))
                     /\ \E k \in PostRecv(conn[ConnOf(w)]) : conn' = [conn EXCEPT ![ConnOf(w)] = k]
                     /\ UNCHANGED <<request_queue_, io, answered>>

\* Faulty variant: the worker waits for an open connection
MutexFreeIfOpen(c) == conn[c].state = "open"

\* mx_dqe1_ of c is free: only handleWrite keeps it longer than a step
MutexFree(c) == ~(io.at = "blocked" /\ io.conn = c)

\* dispatch, and addRPCResponse
Dispatch(w) == /\ Step(w, "dispatch", At(w, "swap"))
               /\ MutexFree(ConnOf(w))
               /\ conn' = [conn EXCEPT ![ConnOf(w)].dqe1_ = Append(@, worker[w].message)]
               /\ answered' = answered \cup {worker[w].message}
               /\ UNCHANGED <<request_queue_, io>>

\* postSend: the responses go into `load', which nobody reads; n is not
\* initialised.  A value of n that makes memcpy fault ends the process, and a
\* behaviour may end at any state.
PostSendSwap(w) == /\ \E m \in LeftOver : Step(w, "swap", [At(w, "drain") EXCEPT !.n = m])
                   /\ MutexFree(ConnOf(w))
                   /\ conn' = [conn EXCEPT ![ConnOf(w)].dqe1_ = <<>>]
                   /\ UNCHANGED <<request_queue_, io, answered>>

\* no memory for the OverlappedEx: close() and return
PostSendFails(w) == /\ CallsFail
                    /\ Step(w, "swap", At(w, "space"))
                    /\ conn' = [conn EXCEPT ![ConnOf(w)] = Closed(@)]
                    /\ UNCHANGED <<request_queue_, io, answered>>

\* the loop over dqe1_, without its lock: encode the front, then pop it; what
\* is there has been added by another worker since the swap
PostSendEncode(w) == /\ worker[w].at = "drain" /\ conn[ConnOf(w)].dqe1_ # <<>>
                     /\ Step(w, "drain", [At(w, "pop") EXCEPT !.n = 1,
                                          !.ans = @ \cup {Head(conn[ConnOf(w)].dqe1_)}])
                     /\ UNCHANGED <<conn, request_queue_, io, answered>>

PostSendPop(w) ==
  LET dqe1_ == conn[ConnOf(w)].dqe1_
  IN  /\ Step(w, "pop", At(w, IF dqe1_ = <<>> THEN "undefined" ELSE "drain"))
      /\ conn' = IF dqe1_ = <<>> THEN conn ELSE [conn EXCEPT ![ConnOf(w)].dqe1_ = Tail(@)]
      /\ UNCHANGED <<request_queue_, io, answered>>

\* WSASend of n bytes, when dqe1_ is empty or n has reached 4096; n = 1 stands
\* for lengths on either side of that
PostSend(w) ==
  LET k == conn[ConnOf(w)]
      send == [n |-> worker[w].n, ans |-> worker[w].ans]
  IN  /\ Step(w, "drain", [At(w, "space") EXCEPT !.n = 0, !.ans = {}])
      /\ k.dqe1_ = <<>> \/ worker[w].n # 0
      /\ \E l \in Attempt(k, [k EXCEPT !.sends = Append(@, send)]) : conn' = [conn EXCEPT ![ConnOf(w)] = l]
      /\ UNCHANGED <<request_queue_, io, answered>>

\* What dequeEmpty(), which takes no lock, may say while the IO thread changes
\* the deque, and otherwise
DequeEmpty(c) == IF io.conn = c /\ io.at \in {"park", "space"} THEN BOOLEAN ELSE {conn[c].dqe_ = <<>>}

\* The post fails if the pool was given a null handle.
NotifySpace(w) == /\ Step(w, "space", IdleWorker)
                  /\ LET k == conn[ConnOf(w)]
                     IN  \E empty \in DequeEmpty(ConnOf(w)) :
                         \E l \in IF empty \/ ~WorkersHaveIocp THEN {k} ELSE PostSpace(k) :
                           conn' = [conn EXCEPT ![ConnOf(w)] = l]
                  /\ UNCHANGED <<request_queue_, io, answered>>

\* conne points to a Connection that is no more
WorkerUsesDestroyed(w) == /\ worker[w].at \notin {"idle", "undefined"}
                          /\ conn[ConnOf(w)].state = "destroyed"
                          /\ worker' = [worker EXCEPT ![w].at = "undefined"]
                          /\ UNCHANGED <<conn, request_queue_, io, answered>>

WorkerThread(w) == \/ Dequeue(w) \/ WorkerPostRecv(w) \/ Dispatch(w)
                   \/ PostSendSwap(w) \/ PostSendFails(w)
                   \/ PostSendEncode(w) \/ PostSendPop(w) \/ PostSend(w)
                   \/ NotifySpace(w) \/ WorkerUsesDestroyed(w)

-----------------------------------------------------------------------------

Next == \/ \E c \in Connections : ClientSend(c) \/ ClientLeave(c) \/ AddConnection(c)
        \/ IoThread
        \/ \E w \in Workers : WorkerThread(w)

Spec == Init /\ [][Next]_vars

\* Each thread keeps running; an operation that can complete does.
Fairness == WF_vars(IoThread) /\ \A w \in Workers : WF_vars(WorkerThread(w))

FairSpec == Spec /\ Fairness

-----------------------------------------------------------------------------

TypeOK ==
  /\ \A c \in Connections :
       /\ conn[c].state \in {"new", "open", "closed", "destroyed"} /\ conn[c].left \in BOOLEAN
       /\ 0 <= conn[c].received /\ conn[c].received <= conn[c].sent /\ conn[c].sent <= MaxRequests * Parts
       /\ conn[c].recvs \in 0 .. MaxRequests /\ conn[c].spaces \in Nat
       /\ conn[c].sends \in Seq([n : {0, 1}, ans : SUBSET answered])
       /\ conn[c].dqe_ \in Seq(Requests) /\ conn[c].dqe1_ \in Seq(Requests)
  /\ request_queue_ \in Seq(Requests) /\ Len(request_queue_) <= Capacity
  /\ io \in [at : {"wait", "read", "park", "space", "blocked", "undefined"},
             conn : Connections \cup {Nobody}, ret : Seq(Requests)]
  /\ worker \in [Workers -> [at : {"idle", "recv", "dispatch", "swap", "drain", "pop", "space", "undefined"},
                             message : Requests \cup {NoMessage}, n : {0, 1}, ans : SUBSET answered]]
  /\ answered \subseteq Requests

Occurrences(s, r) == Cardinality({i \in DOMAIN s : s[i] = r})
BeingServed(r, labels) == {w \in Workers : worker[w].message = r /\ worker[w].at \in labels}

\* In how many places a request is between the decoder and its response
Places(r) == Occurrences(io.ret, r) + Occurrences(request_queue_, r)
               + Occurrences(conn[Client(r)].dqe_, r)
               + Cardinality(BeingServed(r, {"recv", "dispatch"}))
               + (IF r \in answered THEN 1 ELSE 0)

\* The decoder has got all of it
Arrived(r) == conn[Client(r)].received >= r[2] * Parts

\* No request is dropped or served twice, whether it goes straight to the
\* queue, is parked when the queue is full, or is moved from there, as long as
\* its connection exists (connection.cpp:6-17, 35-47, thread_pool.cpp:11-22).
\* It need not be served: it may stay parked.
EachRequestIsServedOnce ==
  \A r \in Requests : Exists(Client(r)) /\ Arrived(r) => Places(r) = 1

\* A request of c between the decoder and the worker that will post the next
\* receive of c
ReceiveIsDue(c) ==
  \E r \in {c} \X (1 .. MaxRequests) :
    r \in ToSet(io.ret) \cup ToSet(request_queue_) \/ BeingServed(r, {"recv"}) # {}

\* "Wait for more data" (decoder.cpp:202): an open connection has a receive
\* under way, or a worker that is to post one.
OpenConnectionsListen ==
  \A c \in Connections : conn[c].state = "open" /\ ~conn[c].left =>
    conn[c].recvs > 0 \/ ReceiveIsDue(c)

\* What the code gives instead: an open connection can do without a receive,
\* and without a worker that is to post one, for two reasons only.  A part of a
\* request has been read, or a request has been parked, which no worker need
\* ever look at (connection.cpp:3-20, thread_pool.cpp:13-22).
DeafOnlyIfSplitOrParked ==
  \A c \in Connections : conn[c].state = "open" /\ ~conn[c].left =>
    \/ conn[c].recvs > 0 \/ ReceiveIsDue(c)
    \/ conn[c].received % Parts # 0
    \/ conn[c].dqe_ # <<>>

\* A request in the queue gets its response unless a thread has run into
\* undefined behaviour or the IO thread blocks (thread_pool.cpp:7-24).
QueuedRequestsAreAnswered ==
  \A r \in Requests :
    r \in ToSet(request_queue_) ~> \/ r \in answered
                                   \/ io.at \in {"blocked", "undefined"}
                                   \/ \E w \in Workers : worker[w].at = "undefined"

\* "PUT response: " (tests/shortconn_client.cpp:43): the client sends a request
\* and waits for its response, so each request that has arrived is followed by
\* a send of its response, unless the client leaves.
ResponsesArrive ==
  \A r \in Requests :
    Arrived(r) ~> \/ conn[Client(r)].left
                  \/ \E send \in ToSet(conn[Client(r)].sends) : r \in send.ans

\* "Continue to send the remaining data" (connection.cpp:28): the IO thread
\* does not wait for a mutex that it holds.
IoThreadNeverBlocks == io.at # "blocked"

\* "If some are left, keep notifying IOCP" (connection.cpp:40): parked
\* requests are taken to the queue, while the IO thread runs.
ParkedRequestsMove ==
  \A c \in Connections :
    conn[c].dqe_ # <<>> ~> conn[c].dqe_ = <<>> \/ io.at \in {"blocked", "undefined"}
=============================================================================
