------------------------------ MODULE Decoder ------------------------------
(***************************************************************************)
(* The decoder of requests (src/network/protocol/decoder.cpp), as          *)
(* functions of the contents of its buffer.                                *)
(*                                                                         *)
(* The stream is a sequence of characters, each a string of its own: the   *)
(* signs, the digits, CR, LF, and the letters of names and values.  The    *)
(* name of a command is one letter.  Integers do not overflow.             *)
(***************************************************************************)
EXTENDS Integers, Sequences

CONSTANTS Absent,     \* std::nullopt, and what is beyond the end of the buffer
          Incomplete  \* parseBulkString has not found a whole string

Digits == <<"0", "1", "2", "3", "4", "5", "6", "7", "8", "9">>
LineEnd == <<"CR", "LF">>

Name(type) == <<type>>

\* Faulty variant: the arguments in the wrong order
RequestSwapped(type, key, value) == [type |-> type, key |-> value, value |-> key]

Request(type, key, value) == [type |-> type, key |-> key, value |-> value]

\* What a protocol error is passed on as
ErrorRequest == Request("UNKNOWN", <<>>, Absent)

Arity == [PUT |-> 3, GET |-> 2, REMOVE |-> 2]

CommandType(name) == LET types == {t \in DOMAIN Arity : name = Name(t)}
                     IN  IF types = {} THEN "UNKNOWN" ELSE CHOOSE t \in types : TRUE

\* A request, or Absent if the number of the arguments is wrong
CreateRPCRequest(args) ==
  LET type == CommandType(args[1])
  IN  CASE args = <<>> -> Absent
        [] args # <<>> /\ type = "UNKNOWN" -> ErrorRequest
        [] OTHER -> IF Len(args) # Arity[type] THEN Absent
                    ELSE Request(type, args[2], IF type = "PUT" THEN args[3] ELSE Absent)

CharAt(data, pos) == IF pos \in DOMAIN data THEN data[pos] ELSE Absent

IsDigit(c) == \E d \in DOMAIN Digits : Digits[d] = c
DigitValue(c) == (CHOOSE d \in DOMAIN Digits : Digits[d] = c) - 1

\* Faulty variant: off by one
EndsBefore(data, end) == end + 1 < Len(data) /\ data[end] = "CR" /\ data[end + 1] = "LF"

\* CR and LF are there, both of them
EndsAt(data, end) == end + 1 <= Len(data) /\ data[end] = "CR" /\ data[end + 1] = "LF"

\* The integer at pos, or Absent, and the position after it.  Without its line
\* end nothing is consumed; an empty one is consumed and Absent; "-" is 0.
ParseInteger(data, pos) ==
  LET first == IF CharAt(data, pos) = "-" THEN pos + 1 ELSE pos
      end == CHOOSE p \in first .. Len(data) + 1 :
               ~IsDigit(CharAt(data, p)) /\ \A q \in first .. p - 1 : IsDigit(CharAt(data, q))
      value[p \in first .. end] == IF p = first THEN 0 ELSE value[p - 1] * 10 + DigitValue(data[p - 1])
      integer == IF end = pos THEN Absent ELSE IF first = pos THEN value[end] ELSE -value[end]
  IN  IF EndsAt(data, end) THEN [value |-> integer, next |-> end + 2]
                           ELSE [value |-> Absent, next |-> pos]

\* The string behind its length, and where it ends
StringOf(data, length) ==
  LET end == length.next + length.value
  IN  CASE length.value = Absent -> Incomplete
        [] length.value # Absent /\ length.value < 0 -> [string |-> <<>>, next |-> length.next]
        [] OTHER -> IF ~EndsAt(data, end) THEN Incomplete
                    ELSE [string |-> SubSeq(data, length.next, end - 1), next |-> end + 2]

\* The string at pos.  A malformed one is Incomplete too.
ParseBulkString(data, pos) ==
  IF CharAt(data, pos) = "$" THEN StringOf(data, ParseInteger(data, pos + 1)) ELSE Incomplete

\* `count' strings from pos on
ParseArguments(data, pos, count) ==
  LET with(args, bulk) ==
        IF bulk = Incomplete THEN Incomplete
        ELSE [strings |-> Append(args.strings, bulk.string), next |-> bulk.next]
      extended(args) ==
        IF args = Incomplete THEN Incomplete ELSE with(args, ParseBulkString(data, args.next))
      args[i \in 0 .. count] ==
        IF i = 0 THEN [strings |-> <<>>, next |-> pos] ELSE extended(args[i - 1])
  IN  args[count]

Result(type, request, next) == [type |-> type, request |-> request, next |-> next]

\* The request at pos that these arguments make.  The position that is returned
\* with C_INCOMPLETE is where the parse began.
RequestOf(pos, args) ==
  IF args = Incomplete THEN Result("C_INCOMPLETE", Absent, pos)
  ELSE LET request == CreateRPCRequest(args.strings)
       IN  Result(IF request = Absent THEN "C_ERROR" ELSE "C_OK", request, args.next)

\* The request at pos, where there is a character
ParseSingleRequest(data, pos) ==
  LET count == ParseInteger(data, pos + 1)
      malformed == \/ data[pos] # "*"
                   \/ IF count.value = Absent THEN count.next > pos + 1 ELSE count.value < 0
  IN  IF malformed THEN Result("C_ERROR", Absent, pos)
      ELSE RequestOf(pos, IF count.value = Absent THEN Incomplete
                                                  ELSE ParseArguments(data, count.next, count.value))

\* The requests that the buffer holds, and what is left in it
ParseAllAvailableRequests(buffer) ==
  LET parse[pos \in 1 .. Len(buffer) + 1] ==
        LET result == ParseSingleRequest(buffer, pos)
        IN  IF pos > Len(buffer) THEN [requests |-> <<>>, rest |-> <<>>]
            ELSE CASE result.type = "C_OK" ->
                        [parse[result.next] EXCEPT !.requests = <<result.request>> \o @]
                   [] result.type = "C_INCOMPLETE" ->
                        [requests |-> <<>>, rest |-> SubSeq(buffer, pos, Len(buffer))]
                   [] result.type = "C_ERROR" ->
                        [requests |-> <<ErrorRequest>>, rest |-> <<>>]
  IN  parse[1]
=============================================================================
