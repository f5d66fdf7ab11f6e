------------------------------ MODULE SkipList ------------------------------
(***************************************************************************)
(* The skip list under each shard of the index                             *)
(* (src/storage/index/skip_list.cpp).  An operation holds the list's lock  *)
(* from its first step to its last, and is a function of the list here;    *)
(* what it computes is computed as the code does, along the pointers.      *)
(*                                                                         *)
(* A list has forward[n][i], the node after n at level i, for the head and *)
(* every node that has not been deleted, value[n], and currentLevel_.      *)
(***************************************************************************)
EXTENDS Integers, Sequences, FiniteSetsExt, Functions

CONSTANTS Keys,      \* numbers, in the order of the keys
          head_, Nil, \* nullptr
          Missing,   \* get returned false
          MaxLevel   \* maxLevel_

ASSUME KeysAssumption == Keys \subseteq Nat /\ {head_, Nil} \cap Nat = {}
ASSUME MaxLevelAssumption == MaxLevel \in Nat \ {0}

Levels == 0 .. MaxLevel - 1

List(forward, value, level) == [forward |-> forward, value |-> value, currentLevel_ |-> level]

EmptyList == List([n \in {head_} |-> [i \in Levels |-> Nil]], [n \in {} |-> Missing], 1)

Nodes(list) == DOMAIN list.forward \ {head_}

\* Any level up to maxLevel_
RandomLevel == 1 .. MaxLevel

\* Faulty variant: the loop goes on to the node with key k
PrecedesOrIs(n, k) == n # Nil /\ n <= k

Precedes(n, k) == n # Nil /\ n < k

\* The nodes, the head among them, that are linked at level i
Reaching(list, i) == {n \in DOMAIN list.forward : i \in DOMAIN list.forward[n]}

\* Where the inner loop of each operation stops: from node n along level i
\* to the last node before k
Walk(list, i, k) ==
  LET walk[n \in Reaching(list, i)] == IF Precedes(list.forward[n][i], k)
                                         THEN walk[list.forward[n][i]] ELSE n
  IN  walk

\* update[i]: the node before k at level i, found from the one at level i + 1
Update(list, k) ==
  LET update[i \in 0 .. list.currentLevel_] ==
        IF i = list.currentLevel_ THEN head_ ELSE Walk(list, i, k)[update[i + 1]]
  IN  update

Found(list, k) == list.forward[Update(list, k)[0]][0] = k

Get(list, k) == IF Found(list, k) THEN list.value[k] ELSE Missing

Replace(list, k, v) == [list EXCEPT !.value[k] = v]

InsertNode(list, k, v, level) ==
  LET update == Update(list, k)
      before == [i \in 0 .. level - 1 |-> IF i < list.currentLevel_ THEN update[i] ELSE head_]
      Relinked(n) == [i \in DOMAIN list.forward[n] |->
                        IF i < level /\ before[i] = n THEN k ELSE list.forward[n][i]]
  IN  List([n \in DOMAIN list.forward \cup {k} |->
              IF n = k THEN [i \in 0 .. level - 1 |-> list.forward[before[i]][i]] ELSE Relinked(n)],
           [n \in Nodes(list) \cup {k} |-> IF n = k THEN v ELSE list.value[n]],
           Max({level, list.currentLevel_}))

\* insert: the value is replaced if the key is there
Insert(list, k, v, level) == IF Found(list, k) THEN Replace(list, k, v)
                                               ELSE InsertNode(list, k, v, level)

\* Faulty variant: the node is unlinked from level 0 only
LinkedAtBottom(list, before, k) == {0}

\* The levels, from the bottom up, at which the nodes before k point to k
Linked(list, before, k) ==
  {i \in 0 .. list.currentLevel_ - 1 : \A j \in 0 .. i : list.forward[before[j]][j] = k}

\* Faulty variant: currentLevel_ is lowered past level 1
LoweredToZero(head, level) == Max({0} \cup {i \in 1 .. level : head[i - 1] # Nil})

\* currentLevel_ without the levels that are empty
Lowered(head, level) == Max({1} \cup {i \in 2 .. level : head[i - 1] # Nil})

Unlink(list, k) ==
  LET before == Update(list, k)
      linked == Linked(list, before, k)
      Unlinked(n) == [i \in DOMAIN list.forward[n] |->
                        IF i \in linked /\ before[i] = n THEN list.forward[k][i] ELSE list.forward[n][i]]
      forward == [n \in DOMAIN list.forward \ {k} |-> Unlinked(n)]
  IN  List(forward, Restrict(list.value, Nodes(list) \ {k}), Lowered(forward[head_], list.currentLevel_))

Remove(list, k) == IF Found(list, k) THEN Unlink(list, k) ELSE list

\* clear: delete the nodes of level 0 and empty the head's levels in use
Clear(list) ==
  [EmptyList EXCEPT !.forward[head_] =
     [i \in Levels |-> IF i < list.currentLevel_ THEN Nil ELSE list.forward[head_][i]]]

\* Faulty variant: the loop begins at the first node and looks ahead
FirstSkipped(list) == IF list.forward[head_][0] = Nil THEN Nil ELSE list.forward[list.forward[head_][0]][0]

First(list) == list.forward[head_][0]

\* forEach: the keys and values along level 0
ForEach(list) ==
  LET from[n \in Nodes(list) \cup {Nil}] ==
        IF n = Nil THEN <<>> ELSE <<<<n, list.value[n]>>>> \o from[list.forward[n][0]]
  IN  from[First(list)]

-----------------------------------------------------------------------------

Height(list, n) == Cardinality(DOMAIN list.forward[n])

IsList(list, Values) ==
  /\ Nodes(list) \subseteq Keys
  /\ \A n \in DOMAIN list.forward :
       /\ Height(list, n) \in RandomLevel
       /\ list.forward[n] \in [0 .. Height(list, n) - 1 -> Keys \cup {Nil}]
  /\ list.value \in [Nodes(list) -> Values]
  /\ list.currentLevel_ \in RandomLevel

\* The keys after n among those whose nodes reach level i
After(list, n, i) == {k \in Nodes(list) : Height(list, k) > i /\ (n # head_ => k > n)}

\* Every level is the sorted list of exactly the live nodes that are tall
\* enough for it, and the levels above currentLevel_ are empty
IsSorted(list) ==
  /\ \A n \in DOMAIN list.forward : \A i \in DOMAIN list.forward[n] :
       list.forward[n][i] = IF After(list, n, i) = {} THEN Nil ELSE Min(After(list, n, i))
  /\ \A i \in Levels : i >= list.currentLevel_ => list.forward[head_][i] = Nil
=============================================================================
