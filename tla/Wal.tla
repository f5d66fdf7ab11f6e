-------------------------------- MODULE Wal --------------------------------
(***************************************************************************)
(* The write-ahead log of src/storage/wal/wal_writer.cpp: callers append   *)
(* records to a queue, a flusher thread writes them to files that it rolls *)
(* by size and names by the second, close drains the queue, and the        *)
(* process can crash and be started again.                                 *)
(*                                                                         *)
(* What the process has written survives a crash of the process; what is   *)
(* in the queue, in the flusher's hands or in the stream's buffer does     *)
(* not.  Sizes are counted in records.                                     *)
(***************************************************************************)
EXTENDS WalFormat

CONSTANTS Appenders,            \* threads that call append
          Keys, Values,         \* the values include the tombstone ""
          NoRecord,
          MaxFileSize,          \* maxFileSize_
          BufferSize,           \* how many records the buffer of logFile_ can hold
          TicksPerSecond,       \* ticks of system_clock in a second
          MaxTime,              \* bound of the model: the clock stops there
          MaxAppends,           \* bound of the model: how many appends begin
          MaxCrashes,           \* bound of the model
          DistinctTimes,        \* TRUE iff the clock ticks between two appends
          RestartWithinSecond,  \* TRUE iff a crashed server can be up again in
                                \* the second in which it opened its file
          ClockIsSetBack        \* TRUE iff system_clock may be set back

ASSUME SizeAssumption == {MaxFileSize, TicksPerSecond} \subseteq Nat \ {0} /\ BufferSize \in Nat
ASSUME BoundsAssumption == {MaxTime, MaxAppends, MaxCrashes} \subseteq Nat
ASSUME FlagsAssumption == {DistinctTimes, RestartWithinSecond, ClockIsSetBack} \subseteq BOOLEAN

Second(time) == time \div TicksPerSecond
Files == 0 .. Second(MaxTime)  \* the file names, by the second they show

Record == [key : Keys, val : Values, ts : 0 .. MaxTime]
ASSUME TornAssumption == Torn \notin Record

VARIABLES now,          \* system_clock::now()
          logQueue_,    \* the records not yet picked up
          localQueue,   \* the records the flusher has picked up
          stream,       \* the records in the buffer of logFile_
          disk,         \* disk[f]: the contents of the file of second f
          logFilePath_, \* the second in the name of the open file
          stop_,
          shouldExit,   \* the flusher's local copy of stop_
          flusher,      \* "wait", "roll", "write", "flush", "ended", or "dead"
          appending,    \* appending[a]: the record a is about to push
          closing,      \* "no", "join" or "closed"
          accepted,     \* history: the records whose append returned true
          begun,        \* how many appends have begun
          crashes       \* how many crashes there have been

vars == <<now, logQueue_, localQueue, stream, disk, logFilePath_, stop_, shouldExit,
          flusher, appending, closing, accepted, begun, crashes>>

queueVars == <<logQueue_, stop_>>
fileVars == <<stream, disk, logFilePath_>>
callVars == <<appending, closing, accepted, begun>>

Up == flusher # "dead"

\* Faulty variant: the next second
FileNameAhead == Second(now) + 1

\* generateLogFileName
FileName == Second(now)

Init == /\ now = 0
        /\ logQueue_ = <<>>
        /\ localQueue = <<>>
        /\ stream = <<>>
        /\ disk = [f \in Files |-> <<>>]
        /\ logFilePath_ = FileName
        /\ stop_ = FALSE
        /\ shouldExit = FALSE
        /\ flusher = "wait"
        /\ appending = [a \in Appenders |-> NoRecord]
        /\ closing = "no"
        /\ accepted = <<>>
        /\ begun = 0
        /\ crashes = 0

Tick == /\ now' \in {now + 1} \cup (IF ClockIsSetBack THEN 0 .. now - 1 ELSE {})
        /\ now' <= MaxTime
        /\ UNCHANGED <<queueVars, localQueue, fileVars, shouldExit, flusher, callVars, crashes>>

-----------------------------------------------------------------------------

\* append takes its timestamp before it has the queue's lock
Stamps == {accepted[i].ts : i \in DOMAIN accepted}
            \cup {appending[a].ts : a \in {b \in Appenders : appending[b] # NoRecord}}

AppendStamp(a, k, v) ==
  /\ Up
  /\ appending[a] = NoRecord
  /\ begun < MaxAppends
  /\ DistinctTimes => now \notin Stamps
  /\ appending' = [appending EXCEPT ![a] = [key |-> k, val |-> v, ts |-> now]]
  /\ begun' = begun + 1
  /\ UNCHANGED <<now, queueVars, localQueue, fileVars, shouldExit, flusher, closing, accepted, crashes>>

\* push the record and return true
AppendPush(a) ==
  /\ appending[a] # NoRecord
  /\ ~stop_
  /\ logQueue_' = Append(logQueue_, appending[a])
  /\ accepted' = Append(accepted, appending[a])
  /\ appending' = [appending EXCEPT ![a] = NoRecord]
  /\ UNCHANGED <<now, stop_, localQueue, fileVars, shouldExit, flusher, closing, begun, crashes>>

\* return false
AppendRejected(a) ==
  /\ appending[a] # NoRecord
  /\ stop_
  /\ appending' = [appending EXCEPT ![a] = NoRecord]
  /\ UNCHANGED <<now, queueVars, localQueue, fileVars, shouldExit, flusher, closing, accepted, begun, crashes>>

-----------------------------------------------------------------------------

\* Faulty variant: the stream is dropped
FlushedNothing == disk

\* What the stream holds reaches the open file
Flushed == [disk EXCEPT ![logFilePath_] = @ \o stream]

\* Faulty variant: an empty queue is not a reason to look at the stop flag
StopSeenWhenBusy == IF logQueue_ = <<>> THEN shouldExit ELSE stop_

StopSeen == stop_

\* wait_until is over, by a notification or by the deadline: take the queue
\* and the stop flag in one critical section
FlusherTake ==
  /\ flusher = "wait"
  /\ localQueue' = logQueue_
  /\ logQueue_' = <<>>
  /\ shouldExit' = StopSeen
  /\ flusher' = IF logQueue_ = <<>> THEN "flush" ELSE "roll"
  /\ UNCHANGED <<now, stop_, fileVars, callVars, crashes>>

\* Faulty variant: the new file is opened for writing, not for appending
OpenedEmpty(files) == [files EXCEPT ![Second(now)] = <<>>]

\* The files once the one of this second has been opened
Opened(files) == files

\* rollIfNeeded: the size of the open file on disk, which does not count what
\* the stream still holds, decides; the new file is named by the second, so
\* that it may be the old one
FlusherRoll ==
  /\ flusher = "roll"
  /\ flusher' = "write"
  /\ IF Len(disk[logFilePath_]) + 1 >= MaxFileSize
     THEN /\ disk' = Opened(Flushed)
          /\ stream' = <<>>
          /\ logFilePath_' = FileName
     ELSE UNCHANGED fileVars
  /\ UNCHANGED <<now, queueVars, localQueue, shouldExit, callVars, crashes>>

\* logFile_.write: the stream passes on what its buffer cannot hold, and it
\* may pass on more
FlusherWrite ==
  LET buffered == Append(stream, Head(localQueue))
  IN  /\ flusher = "write"
      /\ \E n \in 0 .. Len(buffered) :
           /\ Len(buffered) - n <= BufferSize
           /\ disk' = [disk EXCEPT ![logFilePath_] = @ \o SubSeq(buffered, 1, n)]
           /\ stream' = SubSeq(buffered, n + 1, Len(buffered))
      /\ localQueue' = Tail(localQueue)
      /\ flusher' = IF Len(localQueue) = 1 THEN "flush" ELSE "roll"
      /\ UNCHANGED <<now, queueVars, logFilePath_, shouldExit, callVars, crashes>>

\* Faulty variant: the stop flag is read again, after the queue was taken
ToldToExitSince == stop_

ToldToExit == shouldExit

\* logFile_.flush() and flush(); leave the loop if told to
FlusherFlush ==
  /\ flusher = "flush"
  /\ disk' = Flushed
  /\ stream' = <<>>
  /\ flusher' = IF ToldToExit THEN "ended" ELSE "wait"
  /\ UNCHANGED <<now, queueVars, localQueue, logFilePath_, shouldExit, callVars, crashes>>

Flusher == FlusherTake \/ FlusherRoll \/ FlusherWrite \/ FlusherFlush

-----------------------------------------------------------------------------

\* close, which the destructors call: stop, then join the flusher
CloseStop ==
  /\ Up
  /\ closing = "no"
  /\ stop_' = TRUE
  /\ closing' = "join"
  /\ UNCHANGED <<now, logQueue_, localQueue, fileVars, shouldExit, flusher, appending, accepted, begun, crashes>>

CloseJoin ==
  /\ closing = "join"
  /\ flusher = "ended"
  /\ disk' = Flushed
  /\ stream' = <<>>
  /\ closing' = "closed"
  /\ UNCHANGED <<now, queueVars, localQueue, logFilePath_, shouldExit, flusher, appending, accepted, begun, crashes>>

\* Everything in the files, in the order of their names, without what is torn
OnDisk == FlattenSeq([i \in 1 .. Cardinality(Files) |-> Intact(disk[i - 1])])

\* The process dies.  It may be in the middle of writing the first record of
\* the stream; the rest of the stream and the queues are gone.
Crash ==
  /\ Up
  /\ crashes < MaxCrashes
  /\ crashes' = crashes + 1
  /\ flusher' = "dead"
  /\ disk' \in {disk} \cup (IF stream # <<>>
                            THEN {[disk EXCEPT ![logFilePath_] = Append(@, Torn)]} ELSE {})
  /\ stream' = <<>> /\ localQueue' = <<>> /\ logQueue_' = <<>>
  /\ stop_' = FALSE /\ shouldExit' = FALSE
  /\ appending' = [a \in Appenders |-> NoRecord]
  /\ closing' = "no"
  /\ accepted' = OnDisk
  /\ UNCHANGED <<now, logFilePath_, begun>>

\* The constructor of a new process opens the file of the second
Restart ==
  /\ ~Up
  /\ RestartWithinSecond \/ Second(now) > logFilePath_
  /\ logFilePath_' = FileName
  /\ flusher' = "wait"
  /\ UNCHANGED <<now, queueVars, localQueue, stream, disk, shouldExit, callVars, crashes>>

-----------------------------------------------------------------------------

Next == \/ Tick
        \/ \E a \in Appenders : \/ \E k \in Keys, v \in Values : AppendStamp(a, k, v)
                                \/ AppendPush(a) \/ AppendRejected(a)
        \/ Flusher
        \/ CloseStop \/ CloseJoin
        \/ Crash \/ Restart

Spec == Init /\ [][Next]_vars

\* The flusher's waits end at their deadlines, and its other steps do not
\* block; close waits for nothing else.
Fairness == WF_vars(Flusher) /\ WF_vars(CloseJoin)

FairSpec == Spec /\ Fairness

TypeOK ==
  /\ now \in 0 .. MaxTime
  /\ {logQueue_, localQueue, stream, accepted} \subseteq Seq(Record)
  /\ disk \in [Files -> Seq(Record \cup {Torn})]
  /\ logFilePath_ \in Files
  /\ stop_ \in BOOLEAN /\ shouldExit \in BOOLEAN
  /\ flusher \in {"wait", "roll", "write", "flush", "ended", "dead"}
  /\ appending \in [Appenders -> Record \cup {NoRecord}]
  /\ closing \in {"no", "join", "closed"}
  /\ begun \in 0 .. MaxAppends /\ crashes \in 0 .. MaxCrashes

\* Nothing is lost, duplicated or reordered on the way to the disk: what is
\* in the files, the stream, the flusher's hands and the queue is what append
\* has accepted, in that order, so a crash leaves a prefix of the accepted
\* records (wal_writer.cpp:50-60, 67-112).
LogInOrder ==
  OnDisk \o stream \o localQueue \o logQueue_ = accepted

\* When close returns every accepted record is on disk, those accepted just
\* before the stop flag was set included (wal_writer.cpp:87-112, 139-148).
CloseDrains ==
  closing = "closed" => accepted = OnDisk

\* "Recover up to the given timestamp, inclusive" (wal_writer.hpp:23): in
\* whatever order the directory lists the files, recovery to a timestamp
\* finds for every key the last value the files record up to it.
Orders == {[i \in 1 .. Cardinality(Files) |-> disk[order[i]]] :
             order \in {f \in [1 .. Cardinality(Files) -> Files] : \A i, j \in DOMAIN f : i # j => f[i] # f[j]}}

RecoversPointInTime ==
  \A maxTs \in 0 .. MaxTime, files \in Orders, k \in Keys :
    Collected(Delivered(files, maxTs), k) = Logged(OnDisk, k, maxTs)

\* "Configurable threshold for rolling the file" (wal_writer.hpp:15): no file
\* grows past it.  (Where the stream buffers records the size that
\* rollIfNeeded reads falls short by what is buffered: for BufferSize 0.)
FilesAreRolled ==
  \A f \in Files : Len(disk[f]) <= MaxFileSize

\* Every accepted record reaches the disk, unless a crash takes it out of the
\* queue: the flusher misses no record, whenever it is pushed
\* (wal_writer.cpp:50-60, 87-112).
AppendsReachDisk ==
  \A n \in 1 .. MaxAppends : Len(accepted) >= n ~> Len(OnDisk) >= n \/ Len(accepted) < n

\* close returns, unless the process dies: the flusher sees the stop flag,
\* whenever it is set (wal_writer.cpp:87-112, 139-148).
CloseReturns == closing = "join" ~> closing # "join"
=============================================================================
