------------------------- MODULE CommandDispatcher -------------------------
(***************************************************************************)
(* What a worker makes of a request: CommandDispatcher::dispatch           *)
(* (src/app/command_dispatcher.cpp), which calls one operation of the      *)
(* storage engine, and Encoder::encode (src/network/protocol/encoder.cpp). *)
(* An operation of the engine takes effect at one instant, but the bytes   *)
(* that a get copies afterwards may be torn by an update of its key (module*)
(* StorageEngine).  The wording of the messages is left out.               *)
(***************************************************************************)
EXTENDS Decoder

CONSTANT Torn  \* the bytes of a block that was given back to the system

Response(success, value) == [success |-> success, value |-> value]

\* The engine's answer to the call that the request asks for, if it is not torn.
\* A put fails if there is no memory; the value of a request without one is "".
EngineAnswers(store, request) ==
  CASE request.type = "PUT" -> BOOLEAN
    [] request.type = "GET" -> {store[request.key]}
    [] request.type = "REMOVE" -> {store[request.key] # Absent}
    [] OTHER -> {FALSE}

\* What the call leaves in the engine
Updated(store, request, answer) ==
  CASE request.type = "PUT" /\ answer ->
         [store EXCEPT ![request.key] = IF request.value = Absent THEN <<>> ELSE request.value]
    [] request.type = "REMOVE" /\ answer -> [store EXCEPT ![request.key] = Absent]
    [] OTHER -> store

\* Faulty variant: only a value that is not "" is a success
DispatchNonEmpty(request, answer) ==
  IF request.type = "GET" THEN Response(answer # Absent, IF answer = <<>> THEN Absent ELSE answer)
                          ELSE Response(answer, Absent)

Dispatch(request, answer) ==
  IF request.type = "GET" THEN Response(answer # Absent, answer) ELSE Response(answer, Absent)

Encode(response) ==
  CASE response.value # Absent -> <<"$", response.value>>
    [] response.value = Absent /\ response.success -> <<"+OK">>
    [] OTHER -> <<"-ERR">>
=============================================================================
