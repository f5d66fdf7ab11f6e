--------------------------- MODULE ShutdownProofs ---------------------------
(***************************************************************************)
(* Proofs about Shutdown, for any number of workers and IO threads.        *)
(***************************************************************************)
EXTENDS Shutdown, FiniteSetTheorems, TLAPS

LEMMA ExitPacketsType == ExitPackets \in Nat
  BY ThreadsAssumption, FS_CardinalityType DEF ExitPackets

-----------------------------------------------------------------------------
(* The inductive invariant                                                 *)

\* What main does once it has joined the workers, joined the IO threads,
\* joined the accept thread, and closed the port
PortClosed == {"delete_work", "delete_io", "delete_engine", "stopped"}
AcceptEnded == {"close_port"} \cup PortClosed
IoThreadsEnded == {"close_listen", "accept_join"} \cup AcceptEnded
WorkersEnded == {"io_flag", "io_post", "io_join"} \cup IoThreadsEnded

\* What main has joined stays ended, and nothing is closed or deleted before
\* all of it has been joined; no exit packet is posted before the stop
\* (main.cpp:68-74, reactor.cpp:55-83).
StopsInOrder ==
  /\ main \in WorkersEnded => \A w \in Workers : worker[w] = "ended"
  /\ main \in IoThreadsEnded => \A i \in IoThreads : ioThread[i] = "ended"
  /\ main \in AcceptEnded => accept = "ended"
  /\ port = "closed" \/ deleted # {} => main \in PortClosed
  /\ exits > 0 => main \in {"io_join"} \cup IoThreadsEnded

IInv == TypeOK /\ StopsInOrder

LEMMA InitIInv == Init => IInv
<1> SUFFICES ASSUME Init
             PROVE  IInv
  OBVIOUS
<1>1. 0 \in 0 .. Cardinality(IoThreads)
  BY ExitPacketsType DEF ExitPackets
<1>2. TypeOK
  BY <1>1 DEF Init, TypeOK
<1>3. StopsInOrder
  BY DEF Init, StopsInOrder, WorkersEnded, IoThreadsEnded, AcceptEnded, PortClosed
<1> QED
  BY <1>2, <1>3 DEF IInv

\* A step of the signal handler changes main from one kind of waiting to
\* another, if at all.
LEMMA HandlerKeeps == IInv /\ (SignalStore \/ SignalNotify \/ SpuriousWakeUp) => IInv'
<1>1. IInv /\ SignalStore => IInv'
  <2> SUFFICES ASSUME IInv, SignalStore
               PROVE  IInv'
    OBVIOUS
  <2>1. UNCHANGED <<main, flags, sockets, deleted, threads>>
    BY DEF SignalStore
  <2>2. g_server_running' \in BOOLEAN /\ handler' \in {"none", "notify", "returned"}
    BY DEF SignalStore
  <2>3. TypeOK'
    BY <2>1, <2>2 DEF IInv, TypeOK, flags, sockets, threads
  <2>4. StopsInOrder'
    BY <2>1 DEF IInv, StopsInOrder, WorkersEnded, IoThreadsEnded, AcceptEnded, PortClosed,
                flags, sockets, threads
  <2> QED
    BY <2>3, <2>4 DEF IInv
<1>2. IInv /\ SignalNotify => IInv'
  <2> SUFFICES ASSUME IInv, SignalNotify
               PROVE  IInv'
    OBVIOUS
  <2>1. main' = main \/ (main' = "check" /\ main = "asleep")
    BY DEF SignalNotify
  <2>2. UNCHANGED <<g_server_running, flags, sockets, deleted, threads>> /\ handler' = "returned"
    BY DEF SignalNotify
  <2>3. TypeOK'
    BY <2>1, <2>2 DEF IInv, TypeOK, flags, sockets, threads
  <2>4. StopsInOrder'
    BY <2>1, <2>2 DEF IInv, StopsInOrder, WorkersEnded, IoThreadsEnded, AcceptEnded, PortClosed,
                      flags, sockets, threads
  <2> QED
    BY <2>3, <2>4 DEF IInv
<1>3. IInv /\ SpuriousWakeUp => IInv'
  BY DEF SpuriousWakeUp, Main, IInv, TypeOK, StopsInOrder, WorkersEnded, IoThreadsEnded, AcceptEnded,
         PortClosed, flags, sockets, threads
<1> QED
  BY <1>1, <1>2, <1>3

\* Before the stop nothing has been joined or closed.
LEMMA StartKeeps == IInv /\ (StartReactor \/ StartWorkers \/ WaitCheck \/ WaitBlock \/ WorkStopFlag) => IInv'
<1> USE DEF Main, IInv, TypeOK, StopsInOrder, WorkersEnded, IoThreadsEnded, AcceptEnded, PortClosed,
            flags, sockets, threads
<1>1. IInv /\ StartReactor => IInv'
  BY DEF StartReactor
<1>2. IInv /\ StartWorkers => IInv'
  BY DEF StartWorkers
<1>3. IInv /\ WaitCheck => IInv'
  BY DEF WaitCheck
<1>4. IInv /\ WaitBlock => IInv'
  BY DEF WaitBlock
<1>5. IInv /\ WorkStopFlag => IInv'
  BY ZenonT(30) DEF WorkStopFlag
<1> QED
  BY <1>1, <1>2, <1>3, <1>4, <1>5

\* Each join of the stop adds a kind of thread to those that have ended.
LEMMA StopKeeps ==
  IInv /\ (WorkStopJoin \/ IoStopFlag \/ IoStopPost \/ IoStopJoin \/ IoStopListen
             \/ IoStopJoinAccept \/ IoStopClose \/ DeleteAll) => IInv'
<1> USE DEF Main, IInv, TypeOK, StopsInOrder, WorkersEnded, IoThreadsEnded, AcceptEnded, PortClosed,
            flags, sockets, threads
<1>1. IInv /\ WorkStopJoin => IInv'
  BY DEF WorkStopJoin
<1>2. IInv /\ IoStopFlag => IInv'
  BY ZenonT(30) DEF IoStopFlag
<1>3. IInv /\ IoStopPost => IInv'
  BY ExitPacketsType DEF IoStopPost, ExitPackets
<1>4. IInv /\ IoStopJoin => IInv'
  BY DEF IoStopJoin
<1>5. IInv /\ IoStopListen => IInv'
  BY ZenonT(30) DEF IoStopListen
<1>6. IInv /\ IoStopJoinAccept => IInv'
  BY DEF IoStopJoinAccept, AcceptJoined
<1>7. IInv /\ IoStopClose => IInv'
  BY DEF IoStopClose
<1>8. IInv /\ DeleteAll => IInv'
  BY ZenonT(30) DEF DeleteAll, Delete
<1> QED
  BY <1>1, <1>2, <1>3, <1>4, <1>5, <1>6, <1>7, <1>8

\* A thread that has ended takes no step.
LEMMA AcceptKeeps == IInv /\ (AcceptStep \/ AcceptClient) => IInv'
  BY DEF AcceptStep, AcceptLoop, AcceptClient, AcceptFails, AcceptLate, AcceptAdd, Accept,
         IInv, TypeOK, StopsInOrder, WorkersEnded, IoThreadsEnded, AcceptEnded, PortClosed, flags, sockets

LEMMA IoKeeps ==
  ASSUME NEW i \in IoThreads, IInv, IoStep(i) \/ IoGetCompletion(i)
  PROVE  IInv'
<1> USE DEF IInv, TypeOK, StopsInOrder, WorkersEnded, IoThreadsEnded, AcceptEnded, PortClosed, flags, Io
<1>1. CASE IoLoop(i)
  BY <1>1 DEF IoLoop
<1>2. CASE IoGetExit(i)
  BY <1>2, ExitPacketsType DEF IoGetExit, ExitPackets
<1>3. CASE IoGetCompletion(i)
  BY <1>3 DEF IoGetCompletion
<1>4. CASE IoHandle(i)
  BY <1>4 DEF IoHandle
<1> QED
  BY <1>1, <1>2, <1>3, <1>4 DEF IoStep

LEMMA WorkerKeeps ==
  ASSUME NEW w \in Workers, IInv, WorkerStep(w)
  PROVE  IInv'
  BY DEF WorkerStep, WorkerLoop, WorkerServe, Worker,
         IInv, TypeOK, StopsInOrder, WorkersEnded, IoThreadsEnded, AcceptEnded, PortClosed, flags, sockets

LEMMA NextKeeps == IInv /\ [Next]_vars => IInv'
<1> SUFFICES ASSUME IInv, [Next]_vars
             PROVE  IInv'
  OBVIOUS
<1>1. CASE SignalStore \/ SignalNotify \/ SpuriousWakeUp
  BY <1>1, HandlerKeeps
<1>2. CASE MainStep
  BY <1>2, StartKeeps, StopKeeps DEF MainStep
<1>3. CASE AcceptStep \/ AcceptClient
  BY <1>3, AcceptKeeps
<1>4. CASE \E i \in IoThreads : IoStep(i) \/ IoGetCompletion(i)
  BY <1>4, IoKeeps
<1>5. CASE \E w \in Workers : WorkerStep(w)
  BY <1>5, WorkerKeeps
<1>6. CASE UNCHANGED vars
  BY <1>6 DEF vars, flags, sockets, threads, IInv, TypeOK, StopsInOrder, WorkersEnded, IoThreadsEnded,
              AcceptEnded, PortClosed
<1> QED
  BY <1>1, <1>2, <1>3, <1>4, <1>5, <1>6 DEF Next

-----------------------------------------------------------------------------

\* Every reachable state is well typed; the packets are never more than the
\* IO threads that wait for one (reactor.cpp:60-62, 103-107).
THEOREM TypeCorrect == Spec => []TypeOK
<1>1. IInv => TypeOK
  BY DEF IInv
<1> QED
  BY <1>1, InitIInv, NextKeeps, PTL DEF Spec

\* Threads are joined one kind after the other, and stay ended
\* (main.cpp:68-74).
THEOREM StopIsOrdered == Spec => []StopsInOrder
<1>1. IInv => StopsInOrder
  BY DEF IInv
<1> QED
  BY <1>1, InitIInv, NextKeeps, PTL DEF Spec

\* However many workers and IO threads there are, and whenever the signal
\* comes, no thread runs that could use what has been closed or deleted
\* (main.cpp:68-74, reactor.cpp:55-83, thread_pool.cpp:25-39).
THEOREM NoUseAfterDelete == Spec => []UsersEndFirst
<1>1. IInv => UsersEndFirst
  BY DEF IInv, StopsInOrder, UsersEndFirst, WorkersEnded, IoThreadsEnded, AcceptEnded, PortClosed
<1> QED
  BY <1>1, InitIInv, NextKeeps, PTL DEF Spec
=============================================================================
