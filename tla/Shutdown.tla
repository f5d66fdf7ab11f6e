------------------------------ MODULE Shutdown ------------------------------
(***************************************************************************)
(* Start and stop of the process: main and its signal handler (main.cpp),  *)
(* the accept thread and the IO threads of IOCPReactor (core/reactor.cpp)  *)
(* and the threads of the WorkerThreadPool (core/thread_pool.cpp).         *)
(*                                                                         *)
(* What the threads do for the clients is one step here; module Server     *)
(* looks into it.  The reactor's start is taken to succeed.                *)
(***************************************************************************)
EXTENDS Integers, FiniteSets

CONSTANTS Workers,    \* the pool's threads: 8
          IoThreads   \* workers_ of the reactor: 1

ASSUME ThreadsAssumption == IsFiniteSet(Workers) /\ IsFiniteSet(IoThreads)

VARIABLES g_server_running,
          handler,     \* signal_handler: "none", "notify" or "returned"
          main,        \* what main does next
          alive_,      \* of the pool
          running_,    \* of the reactor
          listening,   \* FALSE once listenSocket_ is closed
          exits,       \* the null packets in the completion port
          port,        \* "none", "open" or "closed": iocp_
          deleted,     \* what main has deleted
          accept,      \* the accept thread
          ioThread,    \* the IO threads
          worker       \* the pool's threads

flags == <<alive_, running_>>
sockets == <<listening, exits, port>>
threads == <<accept, ioThread, worker>>
vars == <<g_server_running, handler, main, flags, sockets, deleted, threads>>

Init == /\ g_server_running = TRUE
        /\ handler = "none"
        /\ main = "start_io"
        /\ alive_ = FALSE /\ running_ = FALSE
        /\ listening = FALSE /\ exits = 0 /\ port = "none"
        /\ deleted = {}
        /\ accept = "none"
        /\ ioThread = [i \in IoThreads |-> "none"]
        /\ worker = [w \in Workers |-> "none"]

-----------------------------------------------------------------------------
(* signal_handler, on a thread of its own; it does not take g_stop_mutex.  *)

SignalStore ==
  /\ handler = "none"
  /\ handler' = "notify"
  /\ g_server_running' = FALSE
  /\ UNCHANGED <<main, flags, sockets, deleted, threads>>

\* notify_one: it wakes main only if main sleeps
SignalNotify ==
  /\ handler = "notify"
  /\ handler' = "returned"
  /\ main' = IF main = "asleep" THEN "check" ELSE main
  /\ UNCHANGED <<g_server_running, flags, sockets, deleted, threads>>

-----------------------------------------------------------------------------
(* main                                                                    *)

Main(from, to) == main = from /\ main' = to

StartReactor ==
  /\ Main("start_io", "start_work")
  /\ port' = "open" /\ listening' = TRUE /\ running_' = TRUE
  /\ accept' = "check"
  /\ ioThread' = [i \in IoThreads |-> "check"]
  /\ UNCHANGED <<g_server_running, handler, alive_, exits, deleted, worker>>

StartWorkers ==
  /\ Main("start_work", "check")
  /\ alive_' = TRUE
  /\ worker' = [w \in Workers |-> "check"]
  /\ UNCHANGED <<g_server_running, handler, running_, sockets, deleted, accept, ioThread>>

\* g_stop_cv.wait: evaluate the predicate
WaitCheck ==
  /\ Main("check", IF g_server_running THEN "block" ELSE "work_flag")
  /\ UNCHANGED <<g_server_running, handler, flags, sockets, deleted, threads>>

\* release g_stop_mutex and sleep
WaitBlock ==
  /\ Main("block", "asleep")
  /\ UNCHANGED <<g_server_running, handler, flags, sockets, deleted, threads>>

SpuriousWakeUp ==
  /\ Main("asleep", "check")
  /\ UNCHANGED <<g_server_running, handler, flags, sockets, deleted, threads>>

WorkStopFlag ==
  /\ Main("work_flag", "work_join")
  /\ alive_' = FALSE
  /\ UNCHANGED <<g_server_running, handler, running_, sockets, deleted, threads>>

WorkStopJoin ==
  /\ Main("work_join", "io_flag")
  /\ \A w \in Workers : worker[w] = "ended"
  /\ UNCHANGED <<g_server_running, handler, flags, sockets, deleted, threads>>

IoStopFlag ==
  /\ Main("io_flag", "io_post")
  /\ running_' = FALSE
  /\ UNCHANGED <<g_server_running, handler, alive_, sockets, deleted, threads>>

\* Faulty variant: one packet more than there are IO threads
ExitPacketsAndOne == Cardinality(IoThreads) + 1

\* Faulty variant: no packet
NoExitPackets == 0

\* a null packet for each IO thread
ExitPackets == Cardinality(IoThreads)

IoStopPost ==
  /\ Main("io_post", "io_join")
  /\ exits' = exits + ExitPackets
  /\ UNCHANGED <<g_server_running, handler, flags, listening, port, deleted, threads>>

IoStopJoin ==
  /\ Main("io_join", "close_listen")
  /\ \A i \in IoThreads : ioThread[i] = "ended"
  /\ UNCHANGED <<g_server_running, handler, flags, sockets, deleted, threads>>

IoStopListen ==
  /\ Main("close_listen", "accept_join")
  /\ listening' = FALSE
  /\ UNCHANGED <<g_server_running, handler, flags, exits, port, deleted, threads>>

\* Faulty variant: the accept thread is not joined
AcceptDetached == TRUE

AcceptJoined == accept = "ended"

IoStopJoinAccept ==
  /\ Main("accept_join", "close_port")
  /\ AcceptJoined
  /\ UNCHANGED <<g_server_running, handler, flags, sockets, deleted, threads>>

\* CloseHandle(iocp_)
IoStopClose ==
  /\ Main("close_port", "delete_work")
  /\ port' = "closed"
  /\ UNCHANGED <<g_server_running, handler, flags, listening, exits, deleted, threads>>

\* delete work, delete IO (whose second stop returns at once), delete SE
Delete(what, from, to) ==
  /\ Main(from, to)
  /\ deleted' = deleted \cup {what}
  /\ UNCHANGED <<g_server_running, handler, flags, sockets, threads>>

DeleteAll == \/ Delete("work", "delete_work", "delete_io")
             \/ Delete("reactor", "delete_io", "delete_engine")
             \/ Delete("engine", "delete_engine", "stopped")

MainStep == \/ StartReactor \/ StartWorkers \/ WaitCheck \/ WaitBlock
            \/ WorkStopFlag \/ WorkStopJoin
            \/ IoStopFlag \/ IoStopPost \/ IoStopJoin
            \/ IoStopListen \/ IoStopJoinAccept \/ IoStopClose
            \/ DeleteAll

-----------------------------------------------------------------------------
(* The accept thread                                                       *)

Accept(from, to) == /\ accept = from
                    /\ accept' = to
                    /\ UNCHANGED <<g_server_running, handler, main, flags, sockets, deleted, ioThread, worker>>

AcceptLoop == Accept("check", IF running_ THEN "accept" ELSE "ended")

AcceptClient == listening /\ Accept("accept", "client")

AcceptFails == ~listening /\ Accept("accept", "failed")

\* running_ is read again: a client that came too late is turned away
AcceptLate == \/ ~running_ /\ (Accept("client", "ended") \/ Accept("failed", "ended"))
              \/ running_ /\ (Accept("client", "add") \/ Accept("failed", "check"))

\* addConnection uses iocp_ and connections_
AcceptAdd == Accept("add", "check")

\* The socket's failure is certain, the arrival of a client is not.
AcceptStep == AcceptLoop \/ AcceptFails \/ AcceptLate \/ AcceptAdd

-----------------------------------------------------------------------------
(* The IO threads and the workers                                          *)

Io(i, from, to) == /\ ioThread[i] = from
                   /\ ioThread' = [ioThread EXCEPT ![i] = to]
                   /\ UNCHANGED <<g_server_running, handler, main, flags, listening, port, deleted, accept, worker>>

IoLoop(i) == Io(i, "check", IF running_ THEN "get" ELSE "ended") /\ UNCHANGED exits

IoGetExit(i) == exits > 0 /\ Io(i, "get", "ended") /\ exits' = exits - 1

\* some client's operation completes; its handler uses the pool of the engine
IoGetCompletion(i) == Io(i, "get", "handle") /\ UNCHANGED exits

IoHandle(i) == Io(i, "handle", "check") /\ UNCHANGED exits

IoStep(i) == IoLoop(i) \/ IoGetExit(i) \/ IoHandle(i)

Worker(w, from, to) == /\ worker[w] = from
                       /\ worker' = [worker EXCEPT ![w] = to]
                       /\ UNCHANGED <<g_server_running, handler, main, flags, sockets, deleted, accept, ioThread>>

WorkerLoop(w) == Worker(w, "check", IF alive_ THEN "serve" ELSE "ended")

\* nothing in the queue, or one request served
WorkerServe(w) == Worker(w, "serve", "check")

WorkerStep(w) == WorkerLoop(w) \/ WorkerServe(w)

-----------------------------------------------------------------------------

Next == \/ SignalStore \/ SignalNotify
        \/ MainStep \/ SpuriousWakeUp
        \/ AcceptStep \/ AcceptClient
        \/ \E i \in IoThreads : IoStep(i) \/ IoGetCompletion(i)
        \/ \E w \in Workers : WorkerStep(w)

Spec == Init /\ [][Next]_vars

\* Threads that can run do, the handlers they call return, and a signal
\* handler runs to its end.  Nobody owes main a spurious wake-up.
Fairness == /\ WF_vars(SignalNotify) /\ WF_vars(MainStep) /\ WF_vars(AcceptStep)
            /\ \A i \in IoThreads : WF_vars(IoStep(i))
            /\ \A w \in Workers : WF_vars(WorkerStep(w))

FairSpec == Spec /\ Fairness

-----------------------------------------------------------------------------

TypeOK ==
  /\ g_server_running \in BOOLEAN
  /\ handler \in {"none", "notify", "returned"}
  /\ main \in {"start_io", "start_work", "check", "block", "asleep",
               "work_flag", "work_join", "io_flag", "io_post", "io_join",
               "close_listen", "accept_join", "close_port",
               "delete_work", "delete_io", "delete_engine", "stopped"}
  /\ alive_ \in BOOLEAN /\ running_ \in BOOLEAN
  /\ listening \in BOOLEAN /\ exits \in 0 .. Cardinality(IoThreads)
  /\ port \in {"none", "open", "closed"}
  /\ deleted \subseteq {"work", "reactor", "engine"}
  /\ accept \in {"none", "check", "accept", "client", "failed", "add", "ended"}
  /\ ioThread \in [IoThreads -> {"none", "check", "get", "handle", "ended"}]
  /\ worker \in [Workers -> {"none", "check", "serve", "ended"}]

\* No thread uses the port after CloseHandle, nor the pool, the reactor or
\* the engine after its delete: the accept thread adds connections to the
\* port, the IO threads wait on it and return blocks to the engine's value
\* store, the workers post to sockets and run the engine (main.cpp:68-74,
\* reactor.cpp:55-83, thread_pool.cpp:25-39).
UsersEndFirst ==
  /\ port = "closed" => /\ accept = "ended"
                        /\ \A i \in IoThreads : ioThread[i] = "ended"
  /\ "work" \in deleted => \A w \in Workers : worker[w] = "ended"
  /\ "reactor" \in deleted => accept = "ended" /\ \A i \in IoThreads : ioThread[i] = "ended"
  /\ "engine" \in deleted => /\ \A w \in Workers : worker[w] = "ended"
                             /\ \A i \in IoThreads : ioThread[i] = "ended"

\* Once main is awake it stops every thread and comes to its end, although
\* the IO threads may wait for a completion and the accept thread for a
\* client (main.cpp:68-78).
StopReturns == main = "work_flag" ~> main = "stopped"

\* "The main thread blocks here until g_server_running becomes false"
\* (main.cpp:60): after a SIGINT the server stops.
SignalStopsTheServer == ~g_server_running ~> main = "stopped"
=============================================================================
