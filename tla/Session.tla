------------------------------ MODULE Session ------------------------------
(***************************************************************************)
(* What becomes of the bytes that clients send: every read hands a piece   *)
(* of some stream to the one Decoder that all connections share            *)
(* (main.cpp:47), handleRead enqueues the requests or parks them, and the  *)
(* workers dispatch what is in the queue and add the responses to their    *)
(* connections (thread_pool.cpp:8-16).                                     *)
(*                                                                         *)
(* A parked request stays parked: the port on which a worker announces     *)
(* queue space is null (main.cpp:53).  How parked requests would move, when*)
(* reads take place and which responses are sent is in module Server.      *)
(***************************************************************************)
EXTENDS CommandDispatcher, SequencesExt, FiniteSets

CONSTANTS Connections, Workers, Keys,
          NoMessage,         \* a worker without a request
          Values,            \* may hold any characters, and be empty
          Unknown,           \* names of no command
          LastWhenMalformed, \* TRUE iff a client sends nothing after a malformed
                             \* request
          Settings           \* the ways in which the server is used

\* A setting is a record of the connections that send, the workers, the capacity
\* of the request queue (1024), whether each read holds whole requests, how many
\* requests without a response a client may have, and, as a bound of the model,
\* how many requests each client sends.
ASSUME SettingsAssumption ==
  Settings \subseteq [clients : SUBSET Connections, workers : SUBSET Workers, capacity : Nat \ {0},
                     wholeReads : BOOLEAN, unanswered : Nat \ {0}, requests : Nat \ {0}]

ASSUME FlagsAssumption == LastWhenMalformed \in BOOLEAN

\* An array without a count, one of no strings, and one with too few
NoCount == <<"*">>
Malformed == {NoCount, <<>>, <<"GET">>}

\* Requests as the client means them
Meant == Malformed \cup [1 .. 1 -> Unknown]
           \cup ({"GET", "REMOVE"} \X Keys) \cup ({"PUT"} \X Keys \X Values)

\* In decimal, without leading zeros
Decimal(n) == IF n < 10 THEN <<Digits[n + 1]>> ELSE <<Digits[(n \div 10) + 1], Digits[(n % 10) + 1]>>

\* An array of bulk strings (tests/shortconn_client.cpp:41-50)
Wire ==
  [r \in Meant |->
    LET arg(i) == IF i = 1 THEN Name(r[1]) ELSE r[i]
        bulk(i) == <<"$">> \o Decimal(Len(arg(i))) \o LineEnd \o arg(i) \o LineEnd
    IN  IF r = NoCount THEN <<"*">> \o LineEnd
        ELSE <<"*">> \o Decimal(Len(r)) \o LineEnd \o FlattenSeq([i \in DOMAIN r |-> bulk(i)])]

WireAll(rs) == FlattenSeq([i \in DOMAIN rs |-> Wire[rs[i]]])

VARIABLES setting,        \* the one of Settings that is in use
          sent,           \* history: what each client has sent
          stream,         \* the characters on their way from each client
          buffer_,        \* the decoder's
          ret,            \* handleRead's: the requests it has not yet handed on
          request_queue_,
          dqe_,           \* dqe_[c]: the parked requests of c
          worker,         \* worker[w]: the request w serves, and its response
          store,          \* the engine's map
          responses       \* responses[c]: those added to c, encoded

network == <<setting, sent, stream, buffer_>>
queues == <<ret, request_queue_, dqe_>>
vars == <<network, queues, worker, store, responses>>

Serving(message, response) == [message |-> message, response |-> response]

Idle == Serving(NoMessage, Absent)

Init == /\ setting \in Settings
        /\ sent = [c \in Connections |-> <<>>]
        /\ stream = [c \in Connections |-> <<>>]
        /\ buffer_ = <<>>
        /\ ret = <<>>
        /\ request_queue_ = <<>>
        /\ dqe_ = [c \in Connections |-> <<>>]
        /\ worker = [w \in Workers |-> Idle]
        /\ store = [k \in Keys |-> Absent]
        /\ responses = [c \in Connections |-> <<>>]

ClientSend(c, r) ==
  /\ c \in setting.clients
  /\ Len(sent[c]) < setting.requests
  /\ Len(sent[c]) < Len(responses[c]) + setting.unanswered
  /\ LastWhenMalformed => ToSet(sent[c]) \cap Malformed = {}
  /\ sent' = [sent EXCEPT ![c] = Append(@, r)]
  /\ stream' = [stream EXCEPT ![c] = @ \o Wire[r]]
  /\ UNCHANGED <<setting, buffer_, queues, worker, store, responses>>

-----------------------------------------------------------------------------
(* The IO thread: handleRead                                               *)

\* append and parse
HandleRead(c, n) ==
  LET parsed == ParseAllAvailableRequests(buffer_ \o SubSeq(stream[c], 1, n))
  IN  /\ ret = <<>>
      /\ stream' = [stream EXCEPT ![c] = SubSeq(@, n + 1, Len(@))]
      /\ buffer_' = parsed.rest
      /\ ret' = [i \in DOMAIN parsed.requests |-> [clientFd |-> c, request |-> parsed.requests[i]]]
      /\ UNCHANGED <<setting, sent, request_queue_, dqe_, worker, store, responses>>

\* n characters of the stream are the last requests but some
EndsRequest(c, n) ==
  \E i \in DOMAIN sent[c] :
    SubSeq(stream[c], n + 1, Len(stream[c])) = WireAll(SubSeq(sent[c], i + 1, Len(sent[c])))

QueueFull == Len(request_queue_) >= setting.capacity

HandleReadEnqueue == /\ ret # <<>> /\ ~QueueFull
                     /\ request_queue_' = Append(request_queue_, Head(ret))
                     /\ ret' = Tail(ret)
                     /\ UNCHANGED <<network, dqe_, worker, store, responses>>

HandleReadPark == /\ ret # <<>> /\ QueueFull
                  /\ dqe_' = [dqe_ EXCEPT ![Head(ret).clientFd] = Append(@, Head(ret))]
                  /\ ret' = Tail(ret)
                  /\ UNCHANGED <<network, request_queue_, worker, store, responses>>

-----------------------------------------------------------------------------
(* The workers: workerThreadLoop                                           *)

\* Faulty variant: the item is read, and not claimed
DequeueUnclaimed(w) == /\ worker[w] = Idle /\ request_queue_ # <<>>
                       /\ worker' = [worker EXCEPT ![w] = Serving(Head(request_queue_), Absent)]
                       /\ UNCHANGED <<network, queues, store, responses>>

Dequeue(w) == /\ worker[w] = Idle /\ request_queue_ # <<>>
              /\ worker' = [worker EXCEPT ![w] = Serving(Head(request_queue_), Absent)]
              /\ request_queue_' = Tail(request_queue_)
              /\ UNCHANGED <<network, ret, dqe_, store, responses>>

DispatchRequest(w) ==
  LET message == worker[w].message
  IN  /\ message # NoMessage /\ worker[w].response = Absent
      /\ \E answer \in EngineAnswers(store, message.request) :
           /\ store' = Updated(store, message.request, answer)
           /\ worker' = [worker EXCEPT ![w].response = Dispatch(message.request, answer)]
      /\ UNCHANGED <<network, queues, responses>>

\* w has found a value and copies it
Copies(w) == worker[w].response # Absent /\ worker[w].response.value # Absent

\* u is in a put or a remove of `key'
Updates(u, key) == /\ worker[u].message # NoMessage /\ worker[u].response = Absent
                   /\ worker[u].message.request.type \in {"PUT", "REMOVE"}
                   /\ worker[u].message.request.key = key

\* The put or remove gives back the block from which w copies.  A remove does
\* so after it has taken effect, a put before (engine.cpp:31-34, 57-60): here
\* the bytes are torn before in both cases, which nobody sees.
TearCopy(w) == /\ Copies(w)
               /\ \E u \in Workers : Updates(u, worker[w].message.request.key)
               /\ worker' = [worker EXCEPT ![w].response.value = Torn]
               /\ UNCHANGED <<network, queues, store, responses>>

\* The call of the engine has returned.
AddRPCResponse(w) ==
  /\ worker[w].response # Absent
  /\ responses' = [responses EXCEPT ![worker[w].message.clientFd] = Append(@, Encode(worker[w].response))]
  /\ worker' = [worker EXCEPT ![w] = Idle]
  /\ UNCHANGED <<network, queues, store>>

Next == \/ \E c \in Connections : \/ \E r \in Meant : ClientSend(c, r)
                                  \/ \E n \in 1 .. Len(stream[c]) :
                                       (setting.wholeReads => EndsRequest(c, n)) /\ HandleRead(c, n)
        \/ HandleReadEnqueue \/ HandleReadPark
        \/ \E w \in setting.workers : Dequeue(w) \/ DispatchRequest(w) \/ TearCopy(w) \/ AddRPCResponse(w)

Spec == Init /\ [][Next]_vars

-----------------------------------------------------------------------------

RPCRequest == {ErrorRequest} \cup [type : {"GET", "REMOVE"}, key : Keys, value : {Absent}]
                \cup [type : {"PUT"}, key : Keys, value : Values]

Message == [clientFd : Connections, request : RPCRequest]

TypeOK == /\ sent \in [Connections -> Seq(Meant)]
          /\ ToSet(ret) \cup ToSet(request_queue_) \subseteq Message
          /\ \A c \in Connections : ToSet(dqe_[c]) \subseteq Message
          /\ \A w \in Workers : worker[w].message \in Message \cup {NoMessage}
          /\ Len(request_queue_) <= setting.capacity
          /\ store \in [Keys -> Values \cup {Absent}]

WorkersOf(c) == {w \in Workers : worker[w] # Idle /\ worker[w].message.clientFd = c}

\* The requests of c that have not been answered, taken, queued or parked
Unread(c) ==
  LET waiting == SelectSeq(ret \o request_queue_ \o dqe_[c], LAMBDA m : m.clientFd = c)
      read == Len(responses[c]) + Cardinality(WorkersOf(c)) + Len(waiting)
  IN  SubSeq(sent[c], read + 1, Len(sent[c]))

\* However the stream is cut into reads, between CR and LF and between two
\* digits included, the decoder hands on every request as soon as its last byte
\* has arrived and keeps the bytes of the rest, whatever the strings in it hold
\* (decoder.cpp:56-112, 172-227).
DecoderKeepsUp ==
  \A c \in Connections :
    LET kept == IF setting.clients = {c} THEN buffer_ ELSE <<>>
    IN  /\ kept \o stream[c] = WireAll(Unread(c))
        /\ kept # <<>> => Len(kept) < Len(Wire[Head(Unread(c))])

-----------------------------------------------------------------------------
(* A request is carried out when it is dispatched; its response then still *)
(* has to be added to the connection.                                      *)

Dispatched(c) == {w \in WorkersOf(c) : worker[w].response # Absent}

Replies == [c \in Connections |->
              LET dispatched == SetToSeq(Dispatched(c))
              IN  responses[c] \o [i \in DOMAIN dispatched |-> Encode(worker[dispatched[i]].response)]]

Copying == [c \in Connections |->
              LET copying == {w \in Dispatched(c) : Copies(w)}
              IN  IF copying = {} THEN Absent ELSE worker[CHOOSE w \in copying : TRUE].message.request.key]

Backlog == [c \in Connections |->
              LET carriedOut == Len(responses[c]) + Cardinality(Dispatched(c))
              IN  SubSeq(sent[c], carriedOut + 1, Len(sent[c]))]

Abstract == INSTANCE RequestReply
  WITH Requests <- Meant, backlog <- Backlog, replies <- Replies, copying <- Copying

\* From its replies a client can tell what became of its requests: the i-th
\* reply belongs to its i-th request, although decoder, queue and workers are
\* shared, and a value, "", no value, and a refusal are told apart; only bytes
\* that an update of the key has torn may come instead of a value.  So for a
\* client of one worker that never has more requests than the queue has room
\* for under way, and for clients that wait for each response
\* (connection.cpp:3-17, decoder.cpp:26-227, thread_pool.cpp:8-16,
\* command_dispatcher.cpp:8-45, encoder.cpp:4-15).
RepliesAnswerRequests == Abstract!Spec
=============================================================================
