-------------------------- MODULE MPMCQueueRefusal --------------------------
(***************************************************************************)
(* MPMCQueue with a history variable: did the queue have room during the   *)
(* whole of a producer's current call?                                     *)
(***************************************************************************)
EXTENDS MPMCQueue, TLC

VARIABLE room  \* room[p]: fewer than Capacity items were queued at every
               \* instant since p's call began

hvars == <<vars, room>>

HasRoom == enqueue_pos - dequeue_pos < Capacity

HInit == Init /\ room = [p \in Producers |-> TRUE]

HNext == /\ Next
         /\ room' = [p \in Producers |-> HasRoom' /\ (pc[p] = "idle" \/ room[p])]

HSpec == HInit /\ [][HNext]_hvars

\* "The queue's actual capacity is Capacity" (MPMCQueue.hpp:30): enqueue may
\* return false only if the queue held Capacity items at some instant of the
\* call.
RefusedOnlyWhenFull ==
  [][\A p \in Producers : pc[p] = "e_full" /\ pc'[p] = "idle" => ~room[p]]_hvars

Symmetry == Permutations(Producers) \cup Permutations(Consumers) \cup Permutations(Items)
=============================================================================
