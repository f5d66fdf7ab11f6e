---------------------------- MODULE IndexManager ----------------------------
(***************************************************************************)
(* The index (src/storage/index/index_manager.cpp): a skip list for each   *)
(* shard, under the lock of the shard.  put, get and remove hold that lock *)
(* for the whole of their work on the one shard of their key; clear and    *)
(* forEach go from shard to shard and hold one lock at a time, so that the *)
(* other operations come in between.                                       *)
(***************************************************************************)
EXTENDS SkipList

CONSTANTS Values,
          kShardCount,
          hashKey,   \* the shard of each key
          Sweepers   \* the threads that call clear and forEach

ASSUME ShardsAssumption == kShardCount \in Nat \ {0}
ASSUME HashAssumption == hashKey \in [Keys -> 0 .. kShardCount - 1]
ASSUME ValuesAssumption == Missing \notin Values
ASSUME SweepersAssumption == Nil \notin Sweepers

Shards == 0 .. kShardCount - 1

VARIABLES shards,   \* the skip list of each shard
          sweep,    \* what each sweeper is doing: "none", "clear" or "forEach"
          next,     \* the shard it has come to
          visited,  \* what forEach has called func with
          touched,  \* history: the keys changed since the call began
          map       \* history: the value last put for each key, or Missing

sweepVars == <<sweep, next, visited>>
vars == <<shards, sweepVars, touched, map>>

Init == /\ shards = [s \in Shards |-> EmptyList]
        /\ sweep = [t \in Sweepers |-> "none"]
        /\ next = [t \in Sweepers |-> 0]
        /\ visited = [t \in Sweepers |-> <<>>]
        /\ touched = [t \in Sweepers |-> {}]
        /\ map = [k \in Keys |-> Missing]

\* index_->get(key, out): the value, or Missing
Lookup(k) == Get(shards[hashKey[k]], k)

\* History: the keys ks now have the value v; it is t that does it, if a sweeper
Change(ks, v, t) ==
  /\ map' = [k \in Keys |-> IF k \in ks THEN v ELSE map[k]]
  /\ touched' = [u \in Sweepers |-> IF sweep[u] = "none" \/ u = t THEN touched[u] ELSE touched[u] \cup ks]

Put(k, v) == /\ \E level \in RandomLevel : shards' = [shards EXCEPT ![hashKey[k]] = Insert(@, k, v, level)]
             /\ Change({k}, v, Nil)
             /\ UNCHANGED sweepVars

Erase(k) == /\ shards' = [shards EXCEPT ![hashKey[k]] = Remove(@, k)]
            /\ Change({k}, Missing, Nil)
            /\ UNCHANGED sweepVars

Begin(t, what) == /\ sweep[t] = "none"
                  /\ sweep' = [sweep EXCEPT ![t] = what]
                  /\ UNCHANGED <<shards, next, visited, touched, map>>

\* one turn of clear's loop
ClearShard(t) == /\ sweep[t] = "clear" /\ next[t] \in Shards
                 /\ shards' = [shards EXCEPT ![next[t]] = Clear(@)]
                 /\ next' = [next EXCEPT ![t] = @ + 1]
                 /\ Change({k \in Keys : hashKey[k] = next[t]}, Missing, t)
                 /\ UNCHANGED <<sweep, visited>>

\* one turn of forEach's loop
VisitShard(t) == /\ sweep[t] = "forEach" /\ next[t] \in Shards
                 /\ visited' = [visited EXCEPT ![t] = @ \o ForEach(shards[next[t]])]
                 /\ next' = [next EXCEPT ![t] = @ + 1]
                 /\ UNCHANGED <<shards, sweep, touched, map>>

\* Faulty variant: the loop stops before the last shard
DoneEarly(t) == sweep[t] # "none" /\ next[t] = kShardCount - 1

Done(t) == next[t] = kShardCount

End(t) == /\ Done(t)
          /\ sweep' = [sweep EXCEPT ![t] = "none"]
          /\ next' = [next EXCEPT ![t] = 0]
          /\ visited' = [visited EXCEPT ![t] = <<>>]
          /\ touched' = [touched EXCEPT ![t] = {}]
          /\ UNCHANGED <<shards, map>>

Next == \/ \E k \in Keys : Erase(k) \/ \E v \in Values : Put(k, v)
        \/ \E t \in Sweepers : \/ Begin(t, "clear") \/ Begin(t, "forEach")
                               \/ ClearShard(t) \/ VisitShard(t) \/ End(t)

Spec == Init /\ [][Next]_vars

-----------------------------------------------------------------------------

TypeOK == /\ \A s \in Shards : IsList(shards[s], Values)
          /\ sweep \in [Sweepers -> {"none", "clear", "forEach"}]
          /\ next \in [Sweepers -> 0 .. kShardCount]
          /\ visited \in [Sweepers -> Seq(Keys \X Values)]
          /\ touched \in [Sweepers -> SUBSET Keys]
          /\ map \in [Keys -> Values \cup {Missing}]

\* In every shard each level is the sorted list of exactly the live nodes that
\* are tall enough for it, so no walk leaves a node's pointers, meets a
\* deleted node or skips one (skip_list.cpp:44-72, 80-100).
LevelsAreSortedLists == \A s \in Shards : IsSorted(shards[s])

\* The index is the map that the engine takes it for: what get finds on its
\* way down the levels of a shard is what the last insert, remove or turn of
\* clear has left for the key, whatever levels randomLevel has drawn
\* (skip_list.cpp:40-121, index_manager.cpp:19-55).
ActsAsMap == \A k \in Keys : Lookup(k) = map[k]

Completed(t, what) == sweep[t] = what /\ Done(t)

\* When clear returns no key is left but those put while it was at work
\* (index_manager.cpp:50-55, skip_list.cpp:11-23).
ClearForgets ==
  \A t \in Sweepers : Completed(t, "clear") => \A k \in Keys \ touched[t] : Lookup(k) = Missing

\* When forEach returns it has reported every key of the index with its value,
\* and no other, except those changed while it was at work, and has reported
\* no key twice (index_manager.cpp:57-63, skip_list.cpp:123-129).
ForEachReports ==
  \A t \in Sweepers : Completed(t, "forEach") =>
    /\ \A k \in Keys \ touched[t], v \in Values :
         Lookup(k) = v <=> <<k, v>> \in {visited[t][i] : i \in DOMAIN visited[t]}
    /\ \A i, j \in DOMAIN visited[t] : visited[t][i][1] = visited[t][j][1] => i = j
=============================================================================
