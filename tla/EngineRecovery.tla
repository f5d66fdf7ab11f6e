--------------------------- MODULE EngineRecovery ---------------------------
(***************************************************************************)
(* StorageEngine::recover (engine.cpp:66-88) beside a worker that updates  *)
(* the engine: collect the log's records, lock engineRWLock_, and put or   *)
(* remove each key.  put and remove lock engineRWLock_ themselves, and a   *)
(* std::shared_mutex is not recursive: the second lock blocks, or an       *)
(* exception leaves recover, and in neither case is the log applied.       *)
(***************************************************************************)
EXTENDS WalFormat

CONSTANTS Keys,
          Tombstone,  \* the empty value
          Files       \* the WAL files, in the order the directory lists them

Threads == {"recovery", "worker"}

VARIABLES engineRWLock_,  \* the thread that holds it, or "free"
          mp,             \* the keys that recover has still to apply
          pc,
          index           \* the value of each key, or Absent

vars == <<engineRWLock_, mp, pc, index>>

Init == /\ engineRWLock_ = "free"
        /\ mp = {}
        /\ pc = [recovery |-> "collect", worker |-> "idle"]
        /\ index = [k \in Keys |-> Absent]

Goto(t, from, to) == pc[t] = from /\ pc' = [pc EXCEPT ![t] = to]

Lock(t) == engineRWLock_ = "free" /\ engineRWLock_' = t
Unlock(t) == engineRWLock_ = t /\ engineRWLock_' = "free"

Records == UNION {ToSet(Files[i]) : i \in DOMAIN Files}

\* What recoverUpTo delivers when no timestamp is given
Log == Delivered(Files, Max({r.ts : r \in Records}))

\* What a put of a value, or a remove for a tombstone, leaves in the index
Stored(v) == IF v = Tombstone THEN Absent ELSE v

\* recoverUpTo, with the collector as its callback
Collect ==
  /\ Goto("recovery", "collect", "lock")
  /\ mp' = {k \in Keys : Collected(Log, k) # Absent}
  /\ UNCHANGED <<engineRWLock_, index>>

RecoverLock ==
  /\ Goto("recovery", "lock", "apply")
  /\ Lock("recovery")
  /\ UNCHANGED <<mp, index>>

\* this->remove(key) or this->put(key, value): their lock, their effect and
\* their unlock
Apply(k) ==
  /\ Goto("recovery", "apply", "apply")
  /\ k \in mp
  /\ engineRWLock_ = "free"
  /\ mp' = mp \ {k}
  /\ index' = [index EXCEPT ![k] = Stored(Collected(Log, k))]
  /\ UNCHANGED engineRWLock_

RecoverReturn ==
  /\ Goto("recovery", "apply", "done")
  /\ mp = {}
  /\ Unlock("recovery")
  /\ UNCHANGED <<mp, index>>

\* a worker in put or remove of a value of the log
Update(k) ==
  \/ Goto("worker", "idle", "update") /\ Lock("worker") /\ UNCHANGED <<mp, index>>
  \/ /\ Goto("worker", "update", "idle") /\ Unlock("worker")
     /\ \E r \in Records : index' = [index EXCEPT ![k] = Stored(r.val)]
     /\ UNCHANGED mp

Recover == Collect \/ RecoverLock \/ (\E k \in Keys : Apply(k)) \/ RecoverReturn

Next == Recover \/ \E k \in Keys : Update(k)

Spec == Init /\ [][Next]_vars

\* Both threads run, and a thread that waits for the lock gets it at last.
Fairness == SF_vars(Recover) /\ WF_vars(\E k \in Keys : Update(k))

FairSpec == Spec /\ Fairness

\* "Load and recover the WAL" (engine.hpp:24): recover comes to its end.
RecoverReturns == pc["recovery"] = "lock" ~> pc["recovery"] = "done"
=============================================================================
