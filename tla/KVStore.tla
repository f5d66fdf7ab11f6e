------------------------------ MODULE KVStore ------------------------------
(***************************************************************************)
(* What the storage engine promises the worker threads: a map that is read *)
(* and updated atomically, and a journal of the updates in the order in    *)
(* which they took effect.  A call is pending until it takes effect and    *)
(* done until it returns.  A get that an update of its key overlaps may be *)
(* torn: its answer is then anything.                                      *)
(***************************************************************************)
EXTENDS Sequences

CONSTANTS Threads, Keys, Values,
          Missing,    \* no value: the answer to a get of an absent key
          Tombstone,  \* the journal's value for a key that is removed
          Junk,       \* what a torn get may return
          NoCall

Gets == [op : {"get"}, key : Keys, val : {Missing}]
Puts == [op : {"put"}, key : Keys, val : Values]
Removes == [op : {"remove"}, key : Keys, val : {Missing}]
Calls == Gets \cup Puts \cup Removes

VARIABLES store,    \* the value of each key, or Missing
          journal,  \* the updates, oldest first
          call,     \* call[t]: what thread t has called, or NoCall
          stage,    \* "idle", "pending" or "done"
          answer,   \* what the call of thread t returns
          torn      \* the gets that are torn

vars == <<store, journal, call, stage, answer, torn>>

Init == /\ store = [k \in Keys |-> Missing]
        /\ journal = <<>>
        /\ call = [t \in Threads |-> NoCall]
        /\ stage = [t \in Threads |-> "idle"]
        /\ answer = [t \in Threads |-> Missing]
        /\ torn = {}

Moves(t, from, to) == stage[t] = from /\ stage' = [stage EXCEPT ![t] = to]

Answers(t, a) == answer' = [answer EXCEPT ![t] = a]

Start(t, c) == /\ Moves(t, "idle", "pending")
               /\ call' = [call EXCEPT ![t] = c]
               /\ UNCHANGED <<store, journal, answer, torn>>

Get(t) == /\ Moves(t, "pending", "done")
          /\ call[t].op = "get"
          /\ Answers(t, store[call[t].key])
          /\ UNCHANGED <<store, journal, call, torn>>

Put(t) == /\ Moves(t, "pending", "done")
          /\ call[t].op = "put"
          /\ store' = [store EXCEPT ![call[t].key] = call[t].val]
          /\ journal' = Append(journal, [key |-> call[t].key, val |-> call[t].val])
          /\ Answers(t, TRUE)
          /\ UNCHANGED <<call, torn>>

\* Out of memory
PutFails(t) == /\ Moves(t, "pending", "done")
               /\ call[t].op = "put"
               /\ Answers(t, FALSE)
               /\ UNCHANGED <<store, journal, call, torn>>

Remove(t) == /\ Moves(t, "pending", "done")
             /\ call[t].op = "remove"
             /\ store[call[t].key] # Missing
             /\ store' = [store EXCEPT ![call[t].key] = Missing]
             /\ journal' = Append(journal, [key |-> call[t].key, val |-> Tombstone])
             /\ Answers(t, TRUE)
             /\ UNCHANGED <<call, torn>>

RemoveFails(t) == /\ Moves(t, "pending", "done")
                  /\ call[t].op = "remove"
                  /\ store[call[t].key] = Missing
                  /\ Answers(t, FALSE)
                  /\ UNCHANGED <<store, journal, call, torn>>

Return(t) == /\ Moves(t, "done", "idle")
             /\ call' = [call EXCEPT ![t] = NoCall]
             /\ Answers(t, Missing)
             /\ torn' = torn \ {t}
             /\ UNCHANGED <<store, journal>>

Updating(k) == \E u \in Threads : /\ stage[u] # "idle"
                                  /\ call[u] \in Puts \cup Removes
                                  /\ call[u].key = k

\* An update under way tears gets of its key that have begun and not returned.
Tear(gets) == /\ \A t \in gets : stage[t] # "idle" /\ call[t] \in Gets /\ Updating(call[t].key)
              /\ torn' = torn \cup gets
              /\ stage' = [t \in Threads |-> IF t \in gets THEN "done" ELSE stage[t]]
              /\ answer' = [t \in Threads |-> IF t \in gets THEN Missing ELSE answer[t]]
              /\ UNCHANGED <<store, journal, call>>

AnswerTorn(t) == /\ t \in torn
                 /\ \E v \in Junk : Answers(t, v)
                 /\ UNCHANGED <<store, journal, call, stage, torn>>

Next == \/ \E t \in Threads : \/ \E c \in Calls : Start(t, c)
                              \/ Get(t) \/ Put(t) \/ PutFails(t)
                              \/ Remove(t) \/ RemoveFails(t) \/ Return(t) \/ AnswerTorn(t)
        \/ \E gets \in SUBSET Threads : Tear(gets)

Spec == Init /\ [][Next]_vars
=============================================================================
