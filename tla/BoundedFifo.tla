----------------------------- MODULE BoundedFifo -----------------------------
(***************************************************************************)
(* What a bounded multi-producer multi-consumer queue promises its         *)
(* callers.  A call is pending from the moment it is made until it takes   *)
(* effect in one atomic step (its linearization point); it is done from    *)
(* that step until it returns.                                             *)
(***************************************************************************)
EXTENDS Integers, Sequences

CONSTANTS Producers,         \* threads that put items into the queue
          Consumers,         \* threads that take items out of it
          Items,             \* what is queued
          NoItem,            \* the empty hand of a consumer
          Capacity,          \* how many items fit
          MayRefuseEarly     \* TRUE iff a put may be refused while there is room

Threads == Producers \cup Consumers

VARIABLES q,     \* the queued items, oldest first
          call,  \* call[t]: where thread t's call is
          val,   \* val[t]: the item thread t puts, or has taken
          open   \* FALSE once the queue has been destroyed

vars == <<q, call, val, open>>

TypeOK == /\ q \in Seq(Items)
          /\ Len(q) <= Capacity
          /\ call \in [Threads -> {"idle", "pending", "done"}]
          /\ val \in [Threads -> Items \cup {NoItem}]
          /\ open \in BOOLEAN

Init == /\ q = <<>>
        /\ call = [t \in Threads |-> "idle"]
        /\ val = [t \in Threads |-> NoItem]
        /\ open = TRUE

Moves(t, from, to) == /\ call[t] = from
                      /\ call' = [call EXCEPT ![t] = to]
                      /\ UNCHANGED open

CallPut(p, i) == /\ open
                 /\ Moves(p, "idle", "pending")
                 /\ val' = [val EXCEPT ![p] = i]
                 /\ UNCHANGED q

CallTake(c) == /\ open
               /\ Moves(c, "idle", "pending")
               /\ val' = [val EXCEPT ![c] = NoItem]
               /\ UNCHANGED q

Put(p) == /\ Moves(p, "pending", "done")
          /\ Len(q) < Capacity
          /\ q' = Append(q, val[p])
          /\ UNCHANGED val

Take(c) == /\ Moves(c, "pending", "done")
           /\ q # <<>>
           /\ q' = Tail(q)
           /\ val' = [val EXCEPT ![c] = Head(q)]

Refuse(p) == /\ Moves(p, "pending", "idle")
             /\ Len(q) = Capacity \/ MayRefuseEarly
             /\ UNCHANGED <<q, val>>

FindEmpty(c) == /\ Moves(c, "pending", "idle")
                /\ q = <<>>
                /\ UNCHANGED <<q, val>>

Return(t) == /\ Moves(t, "done", "idle")
             /\ UNCHANGED <<q, val>>

Destroy == /\ open
           /\ \A t \in Threads : call[t] = "idle"
           /\ open' = FALSE
           /\ q' = <<>>
           /\ UNCHANGED <<call, val>>

Next == \/ \E p \in Producers : \/ \E i \in Items : CallPut(p, i)
                                \/ Put(p) \/ Refuse(p)
        \/ \E c \in Consumers : CallTake(c) \/ Take(c) \/ FindEmpty(c)
        \/ \E t \in Threads : Return(t)
        \/ Destroy

Spec == Init /\ [][Next]_vars
=============================================================================
