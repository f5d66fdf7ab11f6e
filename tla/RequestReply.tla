---------------------------- MODULE RequestReply ----------------------------
(***************************************************************************)
(* What a client may expect of the server: its requests are carried out in *)
(* the order in which it has sent them, each of them at one instant, and   *)
(* the replies say what became of them.  But the value that a get has      *)
(* found is still to be copied, and while another client has a put or a    *)
(* remove of the same key under way, the copy may be torn (module KVStore).*)
(***************************************************************************)
EXTENDS Naturals, Sequences

CONSTANTS Connections, Requests, Absent,
          Torn  \* bytes that are no value of the key

VARIABLES backlog,  \* backlog[c]: the requests of c not yet carried out
          store,    \* the value of each key, or Absent
          replies,  \* replies[c]: the replies to the others
          copying   \* copying[c]: the key whose value is copied into the last
                    \* of them, or Absent

vars == <<backlog, store, replies, copying>>

StoreKeys == DOMAIN store

Init == /\ backlog = [c \in Connections |-> <<>>]
        /\ \A k \in StoreKeys : store[k] = Absent
        /\ replies = [c \in Connections |-> <<>>]
        /\ copying = [c \in Connections |-> Absent]

Send(c) == /\ backlog' \in {[backlog EXCEPT ![c] = Append(@, r)] : r \in Requests}
           /\ UNCHANGED <<store, replies, copying>>

First(c) == Head(backlog[c])

Reply(c, reply) == /\ copying[c] = Absent
                   /\ backlog' = [backlog EXCEPT ![c] = Tail(@)]
                   /\ replies' = [replies EXCEPT ![c] = Append(@, reply)]

Put(c, k, v) == /\ First(c) = <<"PUT", k, v>>
                /\ store' = [store EXCEPT ![k] = v]
                /\ Reply(c, <<"+OK">>)
                /\ UNCHANGED copying

Get(c, k) == /\ First(c) = <<"GET", k>>
             /\ store[k] # Absent
             /\ Reply(c, <<"$", store[k]>>)
             /\ copying' = [copying EXCEPT ![c] = k]
             /\ UNCHANGED store

Remove(c, k) == /\ First(c) = <<"REMOVE", k>>
                /\ store[k] # Absent
                /\ store' = [store EXCEPT ![k] = Absent]
                /\ Reply(c, <<"+OK">>)
                /\ UNCHANGED copying

\* There is no memory for a put, nothing under the key, or no such command
Refuse(c) == /\ ~ \E k \in StoreKeys : First(c) \in {<<"GET", k>>, <<"REMOVE", k>>} /\ store[k] # Absent
             /\ Reply(c, <<"-ERR">>)
             /\ UNCHANGED <<store, copying>>

\* d has sent an update of k, and may wait for it
Updates(d, k) == /\ backlog[d] # <<>>
                 /\ Len(First(d)) > 1 /\ First(d)[1] \in {"PUT", "REMOVE"} /\ First(d)[2] = k

Tear(c) == /\ copying[c] # Absent
           /\ \E d \in Connections \ {c} : Updates(d, copying[c])
           /\ replies' = [replies EXCEPT ![c][Len(replies[c])] = <<"$", Torn>>]
           /\ UNCHANGED <<backlog, store, copying>>

Copied(c) == /\ copying[c] # Absent
             /\ copying' = [copying EXCEPT ![c] = Absent]
             /\ UNCHANGED <<backlog, store, replies>>

Next == \E c \in Connections :
          \/ Send(c)
          \/ /\ backlog[c] # <<>>
             /\ \/ \E k \in StoreKeys : Get(c, k) \/ Remove(c, k)
                \/ \E k \in StoreKeys : Len(First(c)) = 3 /\ Put(c, k, First(c)[3])
                \/ Refuse(c)
          \/ Tear(c) \/ Copied(c)

Spec == Init /\ [][Next]_vars
=============================================================================
