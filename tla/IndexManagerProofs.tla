------------------------- MODULE IndexManagerProofs -------------------------
(***************************************************************************)
(* Proofs about IndexManager, for any number of keys, values, levels,      *)
(* shards and threads, and whatever levels randomLevel draws.              *)
(*                                                                         *)
(* A list is sound if it has the shape that forward promises and each of   *)
(* its levels leads from a node to the next one in the order of the keys.  *)
(* Walk and forEach are recursive functions; on a sound list they exist,   *)
(* since every step goes to a greater key, and compute the last node       *)
(* before a key and the nodes in their order.  From this insert, remove    *)
(* and clear make sound lists of sound lists, and the index is the map     *)
(* that its users take it for, even while clear and forEach go from shard  *)
(* to shard.                                                               *)
(***************************************************************************)
EXTENDS IndexManager, SequenceTheorems, FiniteSetTheorems, WellFoundedInduction, TLAPS

-----------------------------------------------------------------------------
(* Numbers.                                                                *)

\* The least of a set of numbers
LEMMA MinIs ==
  ASSUME NEW S \in SUBSET Nat, S # {}
  PROVE  Min(S) \in S /\ \A m \in S : Min(S) <= m
<1> DEFINE R == OpToRel(<, Nat)
<1>1. PICK x \in S : \A y \in S : ~(<<y, x>> \in R)
  BY NatLessThanWellFounded, WFMin
<1>2. \A y \in S : x <= y
  <2>1. ASSUME NEW y \in S, ~(x <= y)
        PROVE  FALSE
    <3>1. <<y, x>> \in R
      BY <2>1 DEF OpToRel
    <3> QED
      BY <1>1, <3>1
  <2> QED
    BY <2>1
<1> QED
  BY <1>2 DEF Min

\* The greatest of a set of numbers that has a bound
LEMMA MaxIs ==
  ASSUME NEW S \in SUBSET Nat, S # {}, NEW n \in Nat, \A m \in S : m <= n
  PROVE  Max(S) \in S /\ \A m \in S : Max(S) >= m
<1> DEFINE B == {b \in Nat : \A m \in S : m <= b}
           b == Min(B)
<1>1. B \in SUBSET Nat /\ n \in B
  OBVIOUS
<1>2. b \in B /\ \A c \in B : b <= c
  <2> HIDE DEF B
  <2> QED
    BY <1>1, MinIs
<1> HIDE DEF b
<1>3. b \in S
  <2>1. ASSUME b \notin S
        PROVE  FALSE
    <3>1. PICK m \in S : TRUE
      OBVIOUS
    <3>2. \A x \in S : x <= b - 1
      BY <1>2, <2>1
    <3>3. m <= b - 1 /\ m \in Nat /\ b \in Nat
      BY <1>2, <3>1, <3>2
    <3>4. b - 1 \in Nat /\ ~(b <= b - 1)
      BY <3>3
    <3>5. b - 1 \in B
      BY <3>2, <3>4
    <3> QED
      BY <1>2, <3>4, <3>5
  <2> QED
    BY <2>1
<1>4. \A m \in S : b >= m
  BY <1>2, <1>3
<1> QED
  BY <1>3, <1>4 DEF Max

\* Induction up to a number, stated of a set
LEMMA SetInduction ==
  ASSUME NEW n \in Nat, NEW S, 0 \in S, \A m \in 0 .. n - 1 : m \in S => m + 1 \in S
  PROVE  \A m \in 0 .. n : m \in S
<1> DEFINE bad == {m \in 0 .. n : m \notin S}
<1>1. ASSUME bad # {}
      PROVE  FALSE
  <2> DEFINE x == Min(bad)
  <2>1. bad \in SUBSET Nat
    OBVIOUS
  <2>2. x \in bad /\ \A y \in bad : x <= y
    <3> HIDE DEF bad
    <3> QED
      BY <1>1, <2>1, MinIs
  <2> HIDE DEF x
  <2>3. x \in 0 .. n /\ x \notin S /\ x # 0
    BY <2>2
  <2>4. x - 1 \in 0 .. n - 1 /\ (x - 1) + 1 = x /\ ~(x <= x - 1)
    BY <2>3
  <2>5. x - 1 \notin bad
    BY <2>2, <2>4
  <2> QED
    BY <2>3, <2>4, <2>5
<1> QED
  BY <1>1

-----------------------------------------------------------------------------
(* A list whose levels are sorted.                                         *)

\* The nodes linked at level i
LinkedAt(list, i) == Reaching(list, i) \ {head_}

\* The first of the nodes ns
NextOf(ns) == IF ns = {} THEN Nil ELSE Min(ns)

\* Those of the nodes that come after n
Behind(ns, n) == {m \in ns : n # head_ => m > n}

\* The shape of a list: what IsList says, that the head reaches every level,
\* and that there are not infinitely many nodes.
IsShaped(list) ==
  /\ list = List(list.forward, list.value, list.currentLevel_)
  /\ head_ \in DOMAIN list.forward /\ DOMAIN list.forward[head_] = Levels
  /\ Nodes(list) \subseteq Keys
  /\ \A n \in Nodes(list) : \E h \in RandomLevel : DOMAIN list.forward[n] = 0 .. h - 1
  /\ \A n \in DOMAIN list.forward : list.forward[n] = [i \in DOMAIN list.forward[n] |-> list.forward[n][i]]
  /\ \E b \in Nat : \A n \in Nodes(list) : n <= b
  /\ list.value \in [Nodes(list) -> Values]
  /\ list.currentLevel_ \in RandomLevel

\* What IsSorted says
IsLinked(list) ==
  /\ \A i \in Levels : \A n \in Reaching(list, i) :
       list.forward[n][i] = NextOf(Behind(LinkedAt(list, i), n))
  /\ \A i \in Levels : i >= list.currentLevel_ => LinkedAt(list, i) = {}

IsSound(list) == IsShaped(list) /\ IsLinked(list)

\* The first of a set of nodes is the least, or Nil if there is none.
LEMMA NextOfIs ==
  ASSUME NEW ns \in SUBSET Nat, NEW x
  PROVE  NextOf(ns) = x <=> \/ ns = {} /\ x = Nil
                            \/ x \in ns /\ \A m \in ns : x <= m
<1>1. CASE ns = {}
  BY <1>1 DEF NextOf
<1>2. CASE ns # {}
  <2>1. Min(ns) \in ns /\ (\A m \in ns : Min(ns) <= m)
    BY <1>2, MinIs
  <2>2. ASSUME x \in ns, \A m \in ns : x <= m
        PROVE  x = Min(ns)
    <3>1. x \in Nat /\ Min(ns) \in Nat /\ x <= Min(ns) /\ Min(ns) <= x
      BY <2>1, <2>2
    <3> QED
      BY <3>1
  <2> QED
    BY <1>2, <2>1, <2>2 DEF NextOf
<1> QED
  BY <1>1, <1>2

\* What the assumptions on the constants say of keys, names and levels
LEMMA Names ==
  /\ head_ \notin Nat /\ Nil \notin Nat
  /\ \A k \in Keys : k \in Nat /\ k # head_ /\ k # Nil
  /\ MaxLevel \in Nat /\ 0 \in Levels
  /\ \A i \in Levels : i \in Nat
<1>1. head_ \notin Nat /\ Nil \notin Nat /\ Keys \subseteq Nat
  BY KeysAssumption
<1>2. MaxLevel \in Nat /\ 0 \in Levels /\ \A i \in Levels : i \in Nat
  BY MaxLevelAssumption DEF Levels
<1> QED
  BY <1>1, <1>2

\* The nodes of a level are nodes of every level below.
LEMMA NodesAre ==
  ASSUME NEW list, IsShaped(list), NEW i \in Levels
  PROVE  /\ head_ \in Reaching(list, i)
         /\ Reaching(list, i) = LinkedAt(list, i) \cup {head_}
         /\ LinkedAt(list, i) \in SUBSET Keys /\ LinkedAt(list, i) \in SUBSET Nat
         /\ LinkedAt(list, i) \in SUBSET Nodes(list)
         /\ LinkedAt(list, 0) = Nodes(list)
         /\ \A j \in Levels : j <= i => LinkedAt(list, i) \subseteq LinkedAt(list, j)
<1>1. /\ head_ \in Reaching(list, i)
      /\ Reaching(list, i) = LinkedAt(list, i) \cup {head_}
      /\ LinkedAt(list, i) \in SUBSET Nodes(list)
  BY DEF IsShaped, Reaching, LinkedAt, Nodes
<1>2. LinkedAt(list, i) \in SUBSET Keys /\ LinkedAt(list, i) \in SUBSET Nat
  BY <1>1, Names DEF IsShaped
<1>3. ASSUME NEW n \in Nodes(list)
      PROVE  /\ 0 \in DOMAIN list.forward[n]
             /\ \A j \in Levels : j <= i /\ i \in DOMAIN list.forward[n] => j \in DOMAIN list.forward[n]
  <2>1. PICK h \in RandomLevel : DOMAIN list.forward[n] = 0 .. h - 1
    BY DEF IsShaped
  <2> QED
    BY <2>1, Names DEF RandomLevel, Levels
<1>4. Nodes(list) \subseteq LinkedAt(list, 0) /\ LinkedAt(list, 0) \subseteq Nodes(list)
  BY <1>3 DEF LinkedAt, Reaching, Nodes
<1>5. \A j \in Levels : j <= i => LinkedAt(list, i) \subseteq LinkedAt(list, j)
  BY <1>3 DEF LinkedAt, Reaching, Nodes
<1> QED
  BY <1>1, <1>2, <1>4, <1>5

-----------------------------------------------------------------------------
(* Walking along a level.                                                  *)

\* The last node before k at level i
Last(list, i, k) ==
  LET ns == {n \in LinkedAt(list, i) : n < k}
  IN  IF ns = {} THEN head_ ELSE Max(ns)

\* The last node before k is linked at the level and comes before k; no node
\* of the level lies between the two.
LEMMA LastIs ==
  ASSUME NEW list, IsShaped(list), NEW i \in Levels, NEW k \in Nat
  PROVE  /\ Last(list, i, k) \in Reaching(list, i)
         /\ Last(list, i, k) # head_ => Last(list, i, k) \in LinkedAt(list, i) /\ Last(list, i, k) < k
         /\ \A n \in LinkedAt(list, i) : n < k => Last(list, i, k) # head_ /\ n <= Last(list, i, k)
<1> DEFINE ns == {n \in LinkedAt(list, i) : n < k}
           last == Last(list, i, k)
<1>1. ns \in SUBSET Nat /\ \A n \in ns : n <= k
  BY NodesAre
<1>2. CASE ns = {}
  BY <1>2, NodesAre DEF Last
<1>3. CASE ns # {}
  <2>1. Max(ns) \in ns /\ \A n \in ns : Max(ns) >= n
    <3> HIDE DEF ns
    <3> QED
      BY <1>1, <1>3, MaxIs
  <2>2. last = Max(ns)
    BY <1>3 DEF Last
  <2> HIDE DEF last
  <2>3. last \in ns /\ last \in Nat /\ \A n \in ns : n \in Nat /\ last >= n
    BY <1>1, <2>1, <2>2
  <2>4. last # head_ /\ last \in Reaching(list, i)
    BY <2>3, Names, NodesAre
  <2>5. \A n \in LinkedAt(list, i) : n < k => n <= last
    BY <2>3
  <2> QED
    BY <2>3, <2>4, <2>5 DEF last
<1> QED
  BY <1>2, <1>3

\* f is a function that Walk defines.
IsWalk(f, list, i, k) ==
  f = [n \in Reaching(list, i) |-> IF Precedes(list.forward[n][i], k) THEN f[list.forward[n][i]] ELSE n]

IsBefore(n, k) == n = head_ \/ n < k

\* One step of the walk
LEMMA StepIs ==
  ASSUME NEW list, IsSound(list), NEW i \in Levels, NEW k \in Nat, NEW n \in Reaching(list, i)
  PROVE  LET m == list.forward[n][i]
             last == Last(list, i, k)
         IN  /\ Precedes(m, k) => /\ m \in LinkedAt(list, i) /\ m \in Reaching(list, i) /\ m < k /\ m # head_
                                  /\ n # head_ => n < m
                                  /\ IsBefore(n, k)
             /\ IsBefore(n, k) /\ ~Precedes(m, k) => n = last
<1> DEFINE ns == LinkedAt(list, i)
           m == list.forward[n][i]
           last == Last(list, i, k)
<1>1. m = NextOf(Behind(ns, n)) /\ ns \in SUBSET Nat /\ Behind(ns, n) \in SUBSET Nat
  BY NodesAre DEF IsSound, IsLinked, Behind
<1> HIDE DEF m
<1>2. \/ Behind(ns, n) = {} /\ m = Nil
      \/ m \in Behind(ns, n) /\ \A p \in Behind(ns, n) : m <= p
  BY <1>1, NextOfIs
<1>3. n # head_ => n \in ns /\ n \in Nat
  BY Names, NodesAre DEF IsSound
<1>4. /\ last # head_ => last \in ns /\ last < k /\ last \in Nat
      /\ \A p \in ns : p < k => last # head_ /\ p <= last
  BY <1>1, LastIs DEF IsSound
<1> HIDE DEF last
<1>5. ASSUME Precedes(m, k)
      PROVE  /\ m \in ns /\ m \in Reaching(list, i) /\ m < k /\ m # head_
             /\ n # head_ => n < m
             /\ IsBefore(n, k)
  <2>1. m # Nil /\ m < k
    BY <1>5 DEF Precedes
  <2>2. m \in ns /\ (n # head_ => m > n)
    BY <1>2, <2>1 DEF Behind
  <2>3. m \in Nat /\ m # head_ /\ m \in Reaching(list, i)
    BY <1>1, <2>2, Names, NodesAre DEF IsSound
  <2>4. IsBefore(n, k)
    BY <1>3, <2>1, <2>2, <2>3 DEF IsBefore
  <2> QED
    BY <1>3, <2>1, <2>2, <2>3, <2>4
<1>6. ASSUME IsBefore(n, k), ~Precedes(m, k)
      PROVE  n = last
  <2>1. ASSUME NEW p \in ns, p < k, n # head_ => p > n
        PROVE  FALSE
    <3>1. p \in Behind(ns, n) /\ p \in Nat
      BY <1>1, <2>1 DEF Behind
    <3>2. m <= p /\ m \in Nat
      BY <1>1, <1>2, <3>1
    <3>3. m # Nil /\ m < k
      BY <2>1, <3>1, <3>2, Names
    <3> QED
      BY <1>6, <3>3 DEF Precedes
  <2>2. CASE n = head_
    BY <1>4, <2>1, <2>2
  <2>3. CASE n # head_
    <3>1. n \in ns /\ n \in Nat /\ n < k
      BY <1>3, <1>6, <2>3 DEF IsBefore
    <3>2. last # head_ /\ n <= last /\ last \in ns /\ last \in Nat /\ last < k
      BY <1>4, <3>1
    <3>3. ~(last > n)
      BY <2>1, <3>2
    <3> QED
      BY <3>1, <3>2, <3>3
  <2> QED
    BY <2>2, <2>3
<1> QED
  BY <1>5, <1>6 DEF m, last

\* There is a function that Walk defines: it sends what is before k to the
\* last node before k.
LEMMA WalkExists ==
  ASSUME NEW list, IsSound(list), NEW i \in Levels, NEW k \in Nat
  PROVE  \E f : IsWalk(f, list, i, k)
<1> DEFINE last == Last(list, i, k)
           f == [n \in Reaching(list, i) |-> IF IsBefore(n, k) THEN last ELSE n]
           after(n) == list.forward[n][i]
           g == [n \in Reaching(list, i) |-> IF Precedes(after(n), k) THEN f[after(n)] ELSE n]
<1>1. ASSUME NEW n \in Reaching(list, i)
      PROVE  f[n] = g[n]
  <2>1. CASE Precedes(after(n), k)
    <3>1. after(n) \in Reaching(list, i) /\ IsBefore(after(n), k) /\ IsBefore(n, k)
      BY <2>1, StepIs DEF IsBefore
    <3> HIDE DEF after, last
    <3> QED
      BY <2>1, <3>1
  <2>2. CASE ~Precedes(after(n), k)
    <3>1. IsBefore(n, k) => n = last
      BY <2>2, StepIs
    <3> HIDE DEF after, last
    <3> QED
      BY <2>2, <3>1
  <2> QED
    BY <2>1, <2>2
<1>2. f = g
  <2>1. f = [n \in Reaching(list, i) |-> f[n]] /\ g = [n \in Reaching(list, i) |-> g[n]]
    OBVIOUS
  <2> HIDE DEF f, g
  <2> QED
    BY <1>1, <2>1
<1>3. IsWalk(f, list, i, k)
  <2> HIDE DEF f
  <2> QED
    BY <1>2 DEF IsWalk, f
<1> QED
  BY <1>3

\* There is no other: the last node at which another one differed would lead
\* to a later one.
LEMMA WalkEnds ==
  ASSUME NEW list, IsSound(list), NEW i \in Levels, NEW k \in Nat, NEW f, IsWalk(f, list, i, k),
         NEW n \in Reaching(list, i), IsBefore(n, k)
  PROVE  f[n] = Last(list, i, k)
<1> DEFINE last == Last(list, i, k)
           bad == {m \in LinkedAt(list, i) : m < k /\ f[m] # last}
           after(m) == list.forward[m][i]
<1>1. bad \in SUBSET Nat /\ \A m \in bad : m <= k
  BY NodesAre DEF IsSound
<1>2. ASSUME NEW m \in Reaching(list, i), IsBefore(m, k), f[m] # last
      PROVE  after(m) \in bad /\ (m # head_ => after(m) > m)
  <2>1. f[m] = IF Precedes(after(m), k) THEN f[after(m)] ELSE m
    BY DEF IsWalk
  <2>2. Precedes(after(m), k)
    BY <1>2, <2>1, StepIs
  <2>3. /\ after(m) \in LinkedAt(list, i) /\ after(m) < k
        /\ m # head_ => m < after(m)
    BY <2>2, StepIs
  <2>4. m # head_ => after(m) > m
    BY <2>3
  <2> HIDE DEF after
  <2> QED
    BY <1>2, <2>1, <2>2, <2>3, <2>4
<1>3. bad = {}
  <2>1. ASSUME bad # {}
        PROVE  FALSE
    <3> DEFINE m == Max(bad)
    <3>1. m \in bad /\ \A p \in bad : m >= p
      <4> HIDE DEF bad
      <4> QED
        BY <1>1, <2>1, MaxIs
    <3> HIDE DEF m
    <3>2. m \in Reaching(list, i) /\ m # head_ /\ IsBefore(m, k) /\ f[m] # last
      BY <3>1 DEF IsBefore, LinkedAt
    <3>3. after(m) \in bad /\ after(m) > m
      BY <1>2, <3>2
    <3>4. m \in Nat /\ after(m) \in Nat /\ m >= after(m)
      BY <1>1, <3>1, <3>3
    <3> QED
      BY <3>3, <3>4
  <2> QED
    BY <2>1
<1> QED
  BY <1>2, <1>3

\* From a node before k the walk ends at the last one.
LEMMA WalkIs ==
  ASSUME NEW list, IsSound(list), NEW i \in Levels, NEW k \in Nat,
         NEW n \in Reaching(list, i), IsBefore(n, k)
  PROVE  Walk(list, i, k)[n] = Last(list, i, k)
<1> DEFINE walk[m \in Reaching(list, i)] == IF Precedes(list.forward[m][i], k)
                                            THEN walk[list.forward[m][i]] ELSE m
<1>1. IsWalk(walk, list, i, k)
  <2>1. \E f : f = [m \in Reaching(list, i) |-> IF Precedes(list.forward[m][i], k)
                                               THEN f[list.forward[m][i]] ELSE m]
    BY WalkExists DEF IsWalk
  <2> QED
    BY <2>1 DEF IsWalk
<1>2. Walk(list, i, k) = walk
  BY DEF Walk
<1> HIDE DEF walk
<1> QED
  BY <1>1, <1>2, WalkEnds

-----------------------------------------------------------------------------
(* What the walks of a list find.                                          *)

\* u is a function that Update defines.
IsUpdate(u, list, k) ==
  u = [i \in 0 .. list.currentLevel_ |->
         IF i = list.currentLevel_ THEN head_ ELSE Walk(list, i, k)[u[i + 1]]]

\* A node that is found at one level is where the walk of the next begins.
LEMMA BelowLast ==
  ASSUME NEW list, IsSound(list), NEW k \in Nat, NEW i \in Levels, NEW u,
         u = head_ \/ (i + 1 \in Levels /\ u = Last(list, i + 1, k))
  PROVE  Walk(list, i, k)[u] = Last(list, i, k)
<1>1. u \in Reaching(list, i) /\ IsBefore(u, k)
  <2>1. CASE u = head_
    BY <2>1, NodesAre DEF IsBefore, IsSound
  <2>2. CASE u # head_ /\ i + 1 \in Levels /\ u = Last(list, i + 1, k)
    <3>1. u \in LinkedAt(list, i + 1) /\ u < k
      BY <2>2, LastIs DEF IsSound
    <3>2. i <= i + 1
      BY Names
    <3>3. u \in LinkedAt(list, i)
      BY <2>2, <3>1, <3>2, NodesAre DEF IsSound
    <3> QED
      BY <3>1, <3>3 DEF IsBefore, LinkedAt
  <2> QED
    BY <2>1, <2>2
<1> QED
  BY <1>1, WalkIs

\* The levels in use are levels.
LEMMA UsedLevels ==
  ASSUME NEW list, IsSound(list)
  PROVE  /\ list.currentLevel_ \in Nat \ {0}
         /\ \A i \in 0 .. list.currentLevel_ - 1 : i \in Levels
         /\ 0 .. list.currentLevel_ - 1 \subseteq 0 .. list.currentLevel_
  BY Names DEF IsSound, IsShaped, RandomLevel, Levels

\* There is a function that Update defines.
LEMMA UpdateExists ==
  ASSUME NEW list, IsSound(list), NEW k \in Nat
  PROVE  \E u : IsUpdate(u, list, k)
<1> DEFINE top == list.currentLevel_
           u == [i \in 0 .. top |-> IF i = top THEN head_ ELSE Last(list, i, k)]
           v == [i \in 0 .. top |-> IF i = top THEN head_ ELSE Walk(list, i, k)[u[i + 1]]]
<1>1. top \in Nat \ {0} /\ \A i \in 0 .. top - 1 : i \in Levels
  BY UsedLevels
<1>2. ASSUME NEW i \in 0 .. top
      PROVE  u[i] = v[i]
  <2>1. CASE i = top
    BY <2>1
  <2>2. CASE i # top
    <3>1. i \in 0 .. top - 1 /\ i + 1 \in 0 .. top /\ (i + 1 # top => i + 1 \in 0 .. top - 1)
      BY <1>1, <2>2
    <3>2. u[i + 1] = head_ \/ (i + 1 \in Levels /\ u[i + 1] = Last(list, i + 1, k))
      BY <1>1, <3>1
    <3>3. Walk(list, i, k)[u[i + 1]] = Last(list, i, k)
      <4> HIDE DEF u
      <4> QED
        BY <1>1, <3>1, <3>2, BelowLast
    <3>4. v[i] = Walk(list, i, k)[u[i + 1]]
      <4> HIDE DEF u
      <4> QED
        BY <2>2
    <3>5. u[i] = Last(list, i, k)
      BY <2>2
    <3> QED
      BY <3>3, <3>4, <3>5
  <2> QED
    BY <2>1, <2>2
<1>3. u = v
  <2>1. u = [i \in 0 .. top |-> u[i]] /\ v = [i \in 0 .. top |-> v[i]]
    OBVIOUS
  <2> HIDE DEF u, v
  <2> QED
    BY <1>2, <2>1
<1>4. IsUpdate(u, list, k)
  <2> HIDE DEF u
  <2> QED
    BY <1>3 DEF IsUpdate
<1> QED
  BY <1>4

\* update holds the last node before k at every level in use.
LEMMA UpdateIs ==
  ASSUME NEW list, IsSound(list), NEW k \in Nat, NEW i \in 0 .. list.currentLevel_ - 1
  PROVE  Update(list, k)[i] = Last(list, i, k)
<1> DEFINE top == list.currentLevel_
           update[j \in 0 .. top] == IF j = top THEN head_ ELSE Walk(list, j, k)[update[j + 1]]
<1>1. top \in Nat \ {0} /\ \A j \in 0 .. top - 1 : j \in Levels
  BY UsedLevels
<1>2. IsUpdate(update, list, k)
  <2>1. \E u : u = [j \in 0 .. top |-> IF j = top THEN head_ ELSE Walk(list, j, k)[u[j + 1]]]
    BY UpdateExists DEF IsUpdate
  <2> QED
    BY <2>1 DEF IsUpdate
<1>3. Update(list, k) = update
  BY DEF Update
<1> HIDE DEF update
<1>4. \A j \in 0 .. top : update[j] = IF j = top THEN head_ ELSE Walk(list, j, k)[update[j + 1]]
  BY <1>2 DEF IsUpdate
<1> HIDE DEF top
<1> DEFINE N == {d \in 0 .. top - 1 : update[top - 1 - d] = Last(list, top - 1 - d, k)}
<1>5. 0 \in N
  <2>1. /\ top - 1 \in 0 .. top /\ top - 1 # top /\ (top - 1) + 1 = top /\ top \in 0 .. top
        /\ top - 1 \in 0 .. top - 1 /\ top - 1 - 0 = top - 1 /\ 0 \in 0 .. top - 1
    BY <1>1
  <2>2. update[top - 1] = Walk(list, top - 1, k)[head_]
    BY <1>4, <2>1
  <2>3. update[top - 1] = Last(list, top - 1, k)
    BY <1>1, <2>1, <2>2, BelowLast
  <2> QED
    BY <2>1, <2>3
<1>6. ASSUME NEW d \in 0 .. (top - 1) - 1, d \in N
      PROVE  d + 1 \in N
  <2> DEFINE j == top - 1 - (d + 1)
  <2>1. /\ j \in 0 .. top /\ j # top /\ j + 1 = top - 1 - d /\ j \in 0 .. top - 1 /\ j + 1 \in 0 .. top - 1
        /\ d + 1 \in 0 .. top - 1
    BY <1>1
  <2>2. update[j + 1] = Last(list, j + 1, k)
    BY <1>6, <2>1
  <2> HIDE DEF j
  <2>3. update[j] = Walk(list, j, k)[update[j + 1]]
    BY <1>4, <2>1
  <2>4. update[j] = Last(list, j, k)
    BY <1>1, <2>1, <2>2, <2>3, BelowLast
  <2> QED
    BY <2>1, <2>4 DEF j
<1>7. (top - 1) - i \in N /\ top - 1 - ((top - 1) - i) = i
  <2>1. /\ top - 1 \in Nat /\ (top - 1) - i \in 0 .. top - 1
        /\ top - 1 - ((top - 1) - i) = i
    BY <1>1 DEF top
  <2> HIDE DEF N
  <2> QED
    BY <1>5, <1>6, <2>1, SetInduction
<1> QED
  BY <1>3, <1>7

\* What follows the last node before k
LEMMA FollowsLast ==
  ASSUME NEW list, IsSound(list), NEW i \in Levels, NEW k \in Nat
  PROVE  /\ list.forward[Last(list, i, k)][i] = NextOf({n \in LinkedAt(list, i) : n >= k})
         /\ list.forward[Last(list, i, k)][i] = k <=> k \in LinkedAt(list, i)
<1> DEFINE last == Last(list, i, k)
           ns == LinkedAt(list, i)
           rest == {n \in ns : n >= k}
<1>1. ns \in SUBSET Nat /\ last \in Reaching(list, i)
  BY NodesAre, LastIs DEF IsSound
<1>2. list.forward[last][i] = NextOf(Behind(ns, last))
  BY <1>1 DEF IsSound, IsLinked
<1>3. /\ last # head_ => last \in ns /\ last < k /\ last \in Nat
      /\ \A n \in ns : n < k => last # head_ /\ n <= last
  BY <1>1, LastIs DEF IsSound
<1> HIDE DEF last
<1>4. ASSUME NEW n \in ns
      PROVE  n \in Behind(ns, last) <=> n >= k
  <2>1. n \in Nat
    BY <1>1
  <2>2. CASE last = head_
    BY <1>3, <2>1, <2>2 DEF Behind
  <2>3. CASE last # head_
    <3>1. last \in Nat /\ last < k /\ (n < k => n <= last)
      BY <1>3, <2>3
    <3>2. n > last <=> n >= k
      BY <2>1, <3>1
    <3> QED
      BY <2>3, <3>2 DEF Behind
  <2> QED
    BY <2>2, <2>3
<1>5. Behind(ns, last) = rest
  <2>1. Behind(ns, last) \subseteq ns
    BY DEF Behind
  <2> QED
    BY <1>4, <2>1
<1>6. NextOf(rest) = k <=> k \in ns
  <2>1. rest \in SUBSET Nat /\ k # Nil /\ k >= k
    BY <1>1, Names
  <2>2. \A n \in rest : k <= n
    BY <2>1
  <2>3. k \in rest <=> k \in ns
    BY <2>1
  <2> HIDE DEF rest
  <2> QED
    BY <2>1, <2>2, <2>3, NextOfIs
<1> QED
  BY <1>2, <1>5, <1>6 DEF last

\* What follows update[0] is the key if a node has it, and never else.
LEMMA FoundIs ==
  ASSUME NEW list, IsSound(list), NEW k \in Nat
  PROVE  Found(list, k) <=> k \in Nodes(list)
<1>1. 0 \in 0 .. list.currentLevel_ - 1 /\ 0 \in Levels
  BY UsedLevels, Names
<1>2. Update(list, k)[0] = Last(list, 0, k)
  BY <1>1, UpdateIs
<1>3. LinkedAt(list, 0) = Nodes(list)
  BY <1>1, NodesAre DEF IsSound
<1>4. list.forward[Last(list, 0, k)][0] = k <=> k \in LinkedAt(list, 0)
  BY <1>1, FollowsLast
<1> QED
  BY <1>2, <1>3, <1>4 DEF Found

\* get finds the value of a node.
LEMMA GetIs ==
  ASSUME NEW list, IsSound(list), NEW k \in Nat
  PROVE  Get(list, k) = IF k \in Nodes(list) THEN list.value[k] ELSE Missing
  BY FoundIs DEF Get

-----------------------------------------------------------------------------
(* insert.                                                                 *)

\* Of the nodes ns, n is the last one before k.
IsLastOf(n, ns, k) ==
  /\ n # head_ => n \in ns /\ n < k
  /\ \A m \in ns : m < k => n # head_ /\ m <= n

\* The nodes ns of a level without and with k
LEMMA ChainWith ==
  ASSUME NEW ns \in SUBSET Nat, NEW k \in Nat, k \notin ns, NEW last, IsLastOf(last, ns, k)
  PROVE  /\ \A n \in ns \cup {head_} :
              NextOf(Behind(ns \cup {k}, n)) = IF n = last THEN k ELSE NextOf(Behind(ns, n))
         /\ NextOf(Behind(ns \cup {k}, k)) = NextOf(Behind(ns, last))
<1> USE DEF IsLastOf
<1> DEFINE all == ns \cup {k}
<1>1. all \in SUBSET Nat /\ k \in all /\ k # head_ /\ (last # head_ => last \in Nat)
  BY Names
<1>2. ASSUME NEW n \in ns \cup {head_}
      PROVE  NextOf(Behind(all, n)) = IF n = last THEN k ELSE NextOf(Behind(ns, n))
  <2>1. /\ Behind(all, n) \in SUBSET Nat /\ Behind(ns, n) \in SUBSET Nat
        /\ \A m : m \in Behind(ns, n) <=> m \in ns /\ (n # head_ => m > n)
        /\ \A m : m \in Behind(all, n) <=> m \in all /\ (n # head_ => m > n)
        /\ n # head_ => n \in ns /\ n \in Nat
    BY <1>1 DEF Behind
  <2>2. CASE n = last
    <3>1. k \in Behind(all, n)
      BY <1>1, <2>1, <2>2
    <3>2. ASSUME NEW m \in Behind(all, n)
          PROVE  k <= m
      <4>1. m \in all /\ m \in Nat /\ (n # head_ => m > n)
        BY <1>1, <2>1
      <4>2. CASE m = k
        BY <4>2
      <4>3. CASE m # k
        <5>1. m \in ns
          BY <4>1, <4>3
        <5>2. ASSUME m < k
              PROVE  FALSE
          <6>1. last # head_ /\ m <= last /\ m > last /\ last \in Nat
            BY <1>1, <2>2, <4>1, <5>1, <5>2
          <6> QED
            BY <4>1, <6>1
        <5> QED
          BY <4>1, <5>2
      <4> QED
        BY <4>2, <4>3
    <3>3. NextOf(Behind(all, n)) = k
      <4> HIDE DEF all
      <4> QED
        BY <2>1, <3>1, <3>2, NextOfIs
    <3> QED
      BY <2>2, <3>3
  <2>3. CASE n # last /\ n # head_ /\ n > k
    <3>1. Behind(all, n) = Behind(ns, n)
      <4>1. ~(k > n)
        BY <2>1, <2>3
      <4> QED
        BY <2>1, <2>3, <4>1
    <3> QED
      BY <2>3, <3>1
  <2>4. CASE n # last /\ (n = head_ \/ n < k)
    <3>1. last # head_ /\ last \in ns /\ last < k /\ last \in Nat
      BY <1>1, <2>1, <2>4
    <3>2. n # head_ => n < last
      BY <2>1, <2>4, <3>1
    <3>3. last \in Behind(ns, n)
      BY <2>1, <3>1, <3>2
    <3> DEFINE x == NextOf(Behind(ns, n))
    <3>4. x \in Behind(ns, n) /\ \A m \in Behind(ns, n) : x <= m
      BY <2>1, <3>3, NextOfIs
    <3>5. x \in ns /\ x \in Nat /\ x <= last
      BY <2>1, <3>3, <3>4
    <3> HIDE DEF x
    <3>6. x \in Behind(all, n)
      BY <2>1, <3>4
    <3>7. \A m \in Behind(all, n) : x <= m
      <4>1. x <= k
        BY <3>1, <3>5
      <4> QED
        BY <2>1, <3>4, <4>1
    <3>8. NextOf(Behind(all, n)) = x
      BY <2>1, <3>6, <3>7, NextOfIs
    <3> QED
      BY <2>4, <3>8 DEF x
  <2>5. n # head_ => n # k /\ (n > k \/ n < k)
    BY <2>1
  <2> QED
    BY <2>2, <2>3, <2>4, <2>5
<1>3. Behind(all, k) = Behind(ns, last)
  <2>1. ASSUME NEW m \in ns
        PROVE  m > k <=> (last # head_ => m > last)
    <3>1. m \in Nat /\ m # k
      OBVIOUS
    <3>2. CASE last = head_
      BY <3>1, <3>2
    <3>3. CASE last # head_
      <4>1. last \in Nat /\ last < k /\ (m < k => m <= last)
        BY <1>1, <3>3
      <4> QED
        BY <3>1, <3>3, <4>1
    <3> QED
      BY <3>2, <3>3
  <2>2. ~(k > k)
    OBVIOUS
  <2> QED
    BY <1>1, <2>1, <2>2 DEF Behind
<1> QED
  BY <1>2, <1>3

\* insert takes the head for the levels that are not in use yet.
LEMMA BeforeIs ==
  ASSUME NEW list, IsSound(list), NEW k \in Nat, NEW level \in RandomLevel, NEW i \in 0 .. level - 1
  PROVE  /\ (IF i < list.currentLevel_ THEN Update(list, k)[i] ELSE head_) = Last(list, i, k)
         /\ i \in Levels
<1>1. i \in Levels /\ list.currentLevel_ \in Nat \ {0} /\ i \in Nat
  BY UsedLevels, Names DEF RandomLevel, Levels
<1>2. CASE i < list.currentLevel_
  <2>1. i \in 0 .. list.currentLevel_ - 1
    BY <1>1, <1>2
  <2> QED
    BY <1>1, <1>2, <2>1, UpdateIs
<1>3. CASE ~(i < list.currentLevel_)
  <2>1. i >= list.currentLevel_
    BY <1>1, <1>3
  <2>2. LinkedAt(list, i) = {}
    BY <1>1, <2>1 DEF IsSound, IsLinked
  <2>3. Last(list, i, k) = head_
    BY <2>2 DEF Last
  <2> QED
    BY <1>1, <1>3, <2>3
<1> QED
  BY <1>2, <1>3

\* insert links a new node in at each of its levels.
LEMMA InsertNodeIs ==
  ASSUME NEW list, IsSound(list), NEW k \in Keys, k \notin Nodes(list), NEW v \in Values,
         NEW level \in RandomLevel
  PROVE  LET more == InsertNode(list, k, v, level)
         IN  /\ IsSound(more)
             /\ Nodes(more) = Nodes(list) \cup {k}
             /\ \A n \in Nodes(more) : more.value[n] = IF n = k THEN v ELSE list.value[n]
<1> DEFINE more == InsertNode(list, k, v, level)
           update == Update(list, k)
           before == [i \in 0 .. level - 1 |-> IF i < list.currentLevel_ THEN update[i] ELSE head_]
           relinked(n) == [i \in DOMAIN list.forward[n] |->
                             IF i < level /\ before[i] = n THEN k ELSE list.forward[n][i]]
           D == DOMAIN list.forward
           top == Max({level, list.currentLevel_})
<1>1. /\ k \in Nat /\ k # head_ /\ k # Nil /\ k \notin D /\ head_ \in D
      /\ D = Nodes(list) \cup {head_}
  BY Names DEF IsSound, IsShaped, Nodes
<1>2. \A i \in 0 .. level - 1 : before[i] = Last(list, i, k) /\ i \in Levels
  BY <1>1, BeforeIs
<1>3. /\ more.forward = [n \in D \cup {k} |->
                           IF n = k THEN [i \in 0 .. level - 1 |-> list.forward[before[i]][i]] ELSE relinked(n)]
      /\ more.value = [n \in Nodes(list) \cup {k} |-> IF n = k THEN v ELSE list.value[n]]
      /\ more.currentLevel_ = top
      /\ more = List(more.forward, more.value, more.currentLevel_)
  BY DEF InsertNode, List
<1> HIDE DEF more, before
<1>4. /\ DOMAIN more.value = Nodes(list) \cup {k}
      /\ \A n \in Nodes(list) \cup {k} : more.value[n] = IF n = k THEN v ELSE list.value[n]
      /\ more.value = [n \in Nodes(list) \cup {k} |-> more.value[n]]
  <2> DEFINE ns == Nodes(list) \cup {k}
             value == [n \in ns |-> IF n = k THEN v ELSE list.value[n]]
  <2>1. more.value = value
    BY <1>3
  <2> HIDE DEF ns
  <2>2. /\ DOMAIN value = ns /\ \A n \in ns : value[n] = IF n = k THEN v ELSE list.value[n]
        /\ value = [n \in ns |-> value[n]]
    OBVIOUS
  <2> HIDE DEF value
  <2> QED
    BY <2>1, <2>2 DEF ns
<1>5. /\ DOMAIN more.forward = D \cup {k}
      /\ more.forward[k] = [i \in 0 .. level - 1 |-> list.forward[before[i]][i]]
      /\ \A n \in D : more.forward[n] = relinked(n)
  BY <1>1, <1>3
<1>6. /\ Nodes(more) = Nodes(list) \cup {k}
      /\ \A n \in D : \A i \in DOMAIN list.forward[n] :
           more.forward[n][i] = IF i < level /\ before[i] = n THEN k ELSE list.forward[n][i]
  <2>1. Nodes(more) = Nodes(list) \cup {k}
    BY <1>1, <1>5 DEF Nodes
  <2>2. ASSUME NEW n \in D, NEW i \in DOMAIN list.forward[n]
        PROVE  relinked(n)[i] = IF i < level /\ before[i] = n THEN k ELSE list.forward[n][i]
    OBVIOUS
  <2> HIDE DEF relinked
  <2> QED
    BY <1>5, <2>1, <2>2
<1>7. /\ DOMAIN more.forward[k] = 0 .. level - 1
      /\ \A n \in D : DOMAIN more.forward[n] = DOMAIN list.forward[n]
  BY <1>5
<1>8. \A n \in DOMAIN more.forward :
        more.forward[n] = [i \in DOMAIN more.forward[n] |-> more.forward[n][i]]
  <2>1. more.forward[k] = [i \in DOMAIN more.forward[k] |-> more.forward[k][i]]
    BY <1>5
  <2>2. ASSUME NEW n \in D
        PROVE  more.forward[n] = [i \in DOMAIN more.forward[n] |-> more.forward[n][i]]
    BY <1>5
  <2> QED
    BY <1>5, <2>1, <2>2
<1>9. /\ top \in RandomLevel /\ level <= top /\ list.currentLevel_ <= top
  <2> DEFINE S == {level, list.currentLevel_}
  <2>1. /\ S \in SUBSET Nat /\ S # {} /\ MaxLevel \in Nat
        /\ \A m \in S : m <= MaxLevel /\ m \in RandomLevel
    BY Names DEF IsSound, IsShaped, RandomLevel
  <2>2. Max(S) \in S /\ \A m \in S : Max(S) >= m
    <3> HIDE DEF S
    <3> QED
      BY <2>1, MaxIs
  <2>3. level \in S /\ list.currentLevel_ \in S
    OBVIOUS
  <2> HIDE DEF S
  <2>4. Max(S) \in RandomLevel /\ level <= Max(S) /\ list.currentLevel_ <= Max(S)
    BY <2>1, <2>2, <2>3
  <2> QED
    BY <2>4 DEF S
<1> HIDE DEF top
<1>10. IsShaped(more)
  <2>1. head_ \in DOMAIN more.forward /\ DOMAIN more.forward[head_] = Levels
    BY <1>1, <1>5, <1>7 DEF IsSound, IsShaped
  <2>2. Nodes(more) \subseteq Keys
    BY <1>6 DEF IsSound, IsShaped
  <2>3. \A n \in Nodes(more) : \E h \in RandomLevel : DOMAIN more.forward[n] = 0 .. h - 1
    BY <1>1, <1>6, <1>7 DEF IsSound, IsShaped
  <2>4. \E b \in Nat : \A n \in Nodes(more) : n <= b
    <3>1. PICK b \in Nat : \A n \in Nodes(list) : n <= b
      BY DEF IsSound, IsShaped
    <3>2. Nodes(list) \subseteq Nat
      BY Names DEF IsSound, IsShaped
    <3>3. \A n \in Nodes(more) : n <= b + k
      BY <1>1, <1>6, <3>1, <3>2
    <3> QED
      BY <1>1, <3>3
  <2>5. more.value \in [Nodes(more) -> Values]
    <3>1. \A n \in Nodes(list) : list.value[n] \in Values
      BY DEF IsSound, IsShaped
    <3>2. \A n \in Nodes(more) : more.value[n] \in Values
      BY <1>4, <1>6, <3>1
    <3>3. more.value = [n \in Nodes(more) |-> more.value[n]]
      BY <1>4, <1>6
    <3> QED
      BY <3>2, <3>3
  <2> QED
    BY <1>3, <1>8, <1>9, <2>1, <2>2, <2>3, <2>4, <2>5 DEF IsShaped
<1>11. ASSUME NEW i \in Levels
       PROVE  /\ i < level => LinkedAt(more, i) = LinkedAt(list, i) \cup {k}
              /\ ~(i < level) => LinkedAt(more, i) = LinkedAt(list, i)
              /\ k \notin LinkedAt(list, i) /\ LinkedAt(list, i) \in SUBSET Nat
              /\ LinkedAt(list, i) \cup {head_} \subseteq D
              /\ i < level <=> i \in 0 .. level - 1
  <2>1. i < level <=> i \in 0 .. level - 1
    BY Names DEF RandomLevel
  <2>2. k \notin LinkedAt(list, i) /\ LinkedAt(list, i) \in SUBSET Nat /\ LinkedAt(list, i) \cup {head_} \subseteq D
    BY <1>1, NodesAre DEF IsSound
  <2>3. \A n \in D : i \in DOMAIN more.forward[n] <=> i \in DOMAIN list.forward[n]
    BY <1>7
  <2>4. i \in DOMAIN more.forward[k] <=> i < level
    BY <1>7, <2>1
  <2>5. \A n : n \in LinkedAt(more, i) <=> (n = k /\ i < level) \/ n \in LinkedAt(list, i)
    BY <1>1, <1>5, <2>3, <2>4 DEF LinkedAt, Reaching
  <2> QED
    BY <2>1, <2>2, <2>5
<1>12. ASSUME NEW i \in Levels, NEW n \in Reaching(more, i)
       PROVE  more.forward[n][i] = NextOf(Behind(LinkedAt(more, i), n))
  <2> DEFINE ns == LinkedAt(list, i)
  <2>1. n \in LinkedAt(more, i) \cup {head_}
    BY DEF LinkedAt
  <2>2. \A m \in ns \cup {head_} : /\ list.forward[m][i] = NextOf(Behind(ns, m))
                                   /\ i \in DOMAIN list.forward[m]
    <3>1. Reaching(list, i) = ns \cup {head_}
      BY NodesAre DEF IsSound
    <3> QED
      BY <3>1 DEF IsSound, IsLinked, Reaching
  <2>3. CASE i < level
    <3> DEFINE last == Last(list, i, k)
    <3>1. /\ last \in ns \cup {head_}
          /\ last # head_ => last \in ns /\ last < k
          /\ \A m \in ns : m < k => last # head_ /\ m <= last
      BY <1>1, LastIs DEF IsSound
    <3>2. before[i] = last /\ i \in 0 .. level - 1
      BY <1>2, <1>11, <2>3
    <3> HIDE DEF last, ns
    <3>3. /\ \A m \in ns \cup {head_} :
               NextOf(Behind(ns \cup {k}, m)) = IF m = last THEN k ELSE NextOf(Behind(ns, m))
          /\ NextOf(Behind(ns \cup {k}, k)) = NextOf(Behind(ns, last))
      <4>1. ns \in SUBSET Nat /\ k \in Nat /\ k \notin ns
        BY <1>1, <1>11 DEF ns
      <4>2. IsLastOf(last, ns, k)
        BY <3>1 DEF IsLastOf
      <4> QED
        BY <4>1, <4>2, ChainWith
    <3>4. LinkedAt(more, i) = ns \cup {k}
      BY <1>11, <2>3 DEF ns
    <3>5. CASE n = k
      <4>1. more.forward[k][i] = list.forward[last][i]
        BY <1>5, <3>2
      <4> QED
        BY <2>2, <3>1, <3>3, <3>4, <3>5, <4>1
    <3>6. CASE n # k
      <4>1. n \in ns \cup {head_} /\ n \in D
        BY <1>11, <2>1, <3>4, <3>6 DEF ns
      <4>2. more.forward[n][i] = IF last = n THEN k ELSE list.forward[n][i]
        BY <1>6, <2>2, <2>3, <3>2, <4>1
      <4> QED
        BY <2>2, <3>3, <3>4, <4>1, <4>2
    <3> QED
      BY <3>5, <3>6
  <2>4. CASE ~(i < level)
    <3>1. LinkedAt(more, i) = ns /\ n \in ns \cup {head_} /\ n \in D
      BY <1>11, <2>1, <2>4
    <3> HIDE DEF ns
    <3>2. more.forward[n][i] = list.forward[n][i]
      BY <1>6, <2>2, <2>4, <3>1
    <3> QED
      BY <2>2, <3>1, <3>2
  <2> QED
    BY <2>3, <2>4
<1>13. ASSUME NEW i \in Levels, i >= more.currentLevel_
       PROVE  LinkedAt(more, i) = {}
  <2>1. ~(i < level) /\ i >= list.currentLevel_
    BY <1>3, <1>9, <1>13, UsedLevels, Names DEF RandomLevel
  <2>2. LinkedAt(list, i) = {}
    BY <2>1 DEF IsSound, IsLinked
  <2> QED
    BY <1>11, <2>1, <2>2
<1>14. IsSound(more)
  BY <1>10, <1>12, <1>13 DEF IsSound, IsLinked
<1>15. \A n \in Nodes(more) : more.value[n] = IF n = k THEN v ELSE list.value[n]
  BY <1>4, <1>6
<1> QED
  BY <1>6, <1>14, <1>15 DEF more

\* insert leaves a sound list, which has k with its value.
LEMMA InsertIs ==
  ASSUME NEW list, IsSound(list), NEW k \in Keys, NEW v \in Values, NEW level \in RandomLevel
  PROVE  LET more == Insert(list, k, v, level)
         IN  /\ IsSound(more)
             /\ Nodes(more) = Nodes(list) \cup {k}
             /\ \A n \in Nodes(more) : more.value[n] = IF n = k THEN v ELSE list.value[n]
<1>1. k \in Nat
  BY Names
<1>2. CASE k \notin Nodes(list)
  <2>1. Insert(list, k, v, level) = InsertNode(list, k, v, level)
    BY <1>1, <1>2, FoundIs DEF Insert
  <2> QED
    BY <1>2, <2>1, InsertNodeIs
<1>3. CASE k \in Nodes(list)
  <2> DEFINE more == Replace(list, k, v)
  <2>1. Insert(list, k, v, level) = more
    BY <1>1, <1>3, FoundIs DEF Insert
  <2>2. list = List(list.forward, list.value, list.currentLevel_) /\ list.value \in [Nodes(list) -> Values]
    BY DEF IsSound, IsShaped
  <2>3. more = List(list.forward, [list.value EXCEPT ![k] = v], list.currentLevel_)
    BY <2>2 DEF Replace, List
  <2> HIDE DEF more
  <2>4. /\ more.forward = list.forward /\ more.currentLevel_ = list.currentLevel_
        /\ more.value = [list.value EXCEPT ![k] = v]
        /\ more = List(more.forward, more.value, more.currentLevel_)
    BY <2>3 DEF List
  <2>5. /\ Nodes(more) = Nodes(list)
        /\ \A i : LinkedAt(more, i) = LinkedAt(list, i) /\ Reaching(more, i) = Reaching(list, i)
    BY <2>4 DEF Nodes, LinkedAt, Reaching
  <2>6. /\ more.value \in [Nodes(more) -> Values]
        /\ \A n \in Nodes(more) : more.value[n] = IF n = k THEN v ELSE list.value[n]
    BY <1>3, <2>2, <2>4, <2>5
  <2>7. IsSound(more)
    BY <2>4, <2>5, <2>6 DEF IsSound, IsShaped, IsLinked
  <2>8. Nodes(list) = Nodes(list) \cup {k}
    BY <1>3
  <2> QED
    BY <2>1, <2>5, <2>6, <2>7, <2>8
<1> QED
  BY <1>2, <1>3

-----------------------------------------------------------------------------
(* remove and clear.                                                       *)

\* The nodes before k are unlinked from it at the levels that it reaches.
LEMMA LinkedIs ==
  ASSUME NEW list, IsSound(list), NEW k \in Nat, NEW i
  PROVE  i \in Linked(list, Update(list, k), k) <=> i \in Levels /\ k \in LinkedAt(list, i)
<1> DEFINE top == list.currentLevel_
           before == Update(list, k)
<1>1. top \in Nat \ {0} /\ \A j \in 0 .. top - 1 : j \in Levels
  BY UsedLevels
<1>2. ASSUME NEW j \in 0 .. top - 1
      PROVE  list.forward[before[j]][j] = k <=> k \in LinkedAt(list, j)
  <2>1. before[j] = Last(list, j, k) /\ j \in Levels
    BY <1>1, UpdateIs
  <2> HIDE DEF before
  <2>2. list.forward[Last(list, j, k)][j] = k <=> k \in LinkedAt(list, j)
    BY <2>1, FollowsLast
  <2> QED
    BY <2>1, <2>2
<1> HIDE DEF before
<1>3. i \in Linked(list, before, k) <=>
        i \in 0 .. top - 1 /\ \A j \in 0 .. i : list.forward[before[j]][j] = k
  BY DEF Linked
<1>4. ASSUME i \in Linked(list, before, k)
      PROVE  i \in Levels /\ k \in LinkedAt(list, i)
  <2>1. i \in 0 .. top - 1 /\ i \in 0 .. i
    BY <1>1, <1>3, <1>4
  <2> QED
    BY <1>1, <1>2, <1>3, <1>4, <2>1
<1>5. ASSUME i \in Levels, k \in LinkedAt(list, i)
      PROVE  i \in Linked(list, before, k)
  <2>1. ~(i >= top)
    BY <1>5 DEF IsSound, IsLinked
  <2>2. i \in 0 .. top - 1
    BY <1>1, <1>5, <2>1, Names DEF Levels
  <2>3. ASSUME NEW j \in 0 .. i
        PROVE  list.forward[before[j]][j] = k
    <3>1. j \in 0 .. top - 1 /\ j <= i
      BY <1>1, <2>2
    <3>2. k \in LinkedAt(list, j)
      BY <1>1, <1>5, <3>1, NodesAre DEF IsSound
    <3> QED
      BY <1>2, <3>1, <3>2
  <2> QED
    BY <1>3, <2>2, <2>3
<1> QED
  BY <1>4, <1>5 DEF before

\* currentLevel_ never falls below 1, nor below a level that is in use.
LEMMA LoweredIs ==
  ASSUME NEW head, NEW level \in RandomLevel
  PROVE  /\ Lowered(head, level) \in RandomLevel
         /\ \A i \in 2 .. level : head[i - 1] # Nil => i <= Lowered(head, level)
<1> DEFINE S == {1} \cup {i \in 2 .. level : head[i - 1] # Nil}
<1>1. level \in Nat \ {0} /\ MaxLevel \in Nat /\ level <= MaxLevel
  BY Names DEF RandomLevel
<1>2. S \in SUBSET Nat /\ S # {} /\ \A m \in S : m <= level /\ m >= 1
  BY <1>1
<1>3. Max(S) \in S /\ \A m \in S : Max(S) >= m
  <2> HIDE DEF S
  <2> QED
    BY <1>1, <1>2, MaxIs
<1>4. \A i \in 2 .. level : head[i - 1] # Nil => i \in S
  OBVIOUS
<1>5. Lowered(head, level) = Max(S)
  BY DEF Lowered
<1> HIDE DEF S
<1>6. Max(S) \in RandomLevel
  <2>1. Max(S) \in Nat /\ Max(S) <= level /\ Max(S) >= 1
    BY <1>2, <1>3
  <2> HIDE DEF S
  <2>2. ASSUME NEW m \in Nat, m <= level, m >= 1
        PROVE  m \in RandomLevel
    BY <1>1, <2>2 DEF RandomLevel
  <2> QED
    BY <2>1, <2>2
<1>7. \A i \in 2 .. level : head[i - 1] # Nil => i <= Max(S)
  BY <1>1, <1>2, <1>3, <1>4
<1> QED
  BY <1>5, <1>6, <1>7

\* remove unlinks a node from each of its levels.
LEMMA UnlinkIs ==
  ASSUME NEW list, IsSound(list), NEW k \in Nodes(list)
  PROVE  LET less == Unlink(list, k)
         IN  /\ IsSound(less)
             /\ Nodes(less) = Nodes(list) \ {k}
             /\ \A n \in Nodes(less) : less.value[n] = list.value[n]
<1> DEFINE less == Unlink(list, k)
           before == Update(list, k)
           linked == Linked(list, before, k)
           unlinked(n) == [i \in DOMAIN list.forward[n] |->
                             IF i \in linked /\ before[i] = n THEN list.forward[k][i] ELSE list.forward[n][i]]
           D == DOMAIN list.forward
           forward == [n \in D \ {k} |-> unlinked(n)]
<1>1. /\ k \in Keys /\ k \in Nat /\ k # head_ /\ k # Nil /\ k \in D /\ head_ \in D
      /\ D = Nodes(list) \cup {head_}
      /\ Nodes(list) \subseteq Nat
  BY Names DEF IsSound, IsShaped, Nodes
<1>2. \A i : i \in linked <=> i \in Levels /\ k \in LinkedAt(list, i)
  BY <1>1, LinkedIs
<1>3. \A i \in linked : before[i] = Last(list, i, k)
  <2>1. ASSUME NEW i \in linked
        PROVE  i \in 0 .. list.currentLevel_ - 1
    BY DEF Linked
  <2> HIDE DEF linked
  <2> QED
    BY <1>1, <2>1, UpdateIs
<1>4. /\ less.forward = forward
      /\ less.value = [n \in Nodes(list) \ {k} |-> list.value[n]]
      /\ less.currentLevel_ = Lowered(forward[head_], list.currentLevel_)
      /\ less = List(less.forward, less.value, less.currentLevel_)
  BY DEF Unlink, List, Restrict
<1> HIDE DEF less, before, linked
<1>5. /\ DOMAIN less.forward = D \ {k}
      /\ \A n \in D \ {k} : less.forward[n] = unlinked(n)
      /\ less.forward[head_] = forward[head_]
  BY <1>4
<1> HIDE DEF forward
<1>6. /\ \A n \in D \ {k} : DOMAIN less.forward[n] = DOMAIN list.forward[n]
      /\ \A n \in D \ {k} : \A i \in DOMAIN list.forward[n] :
           less.forward[n][i] = IF i \in linked /\ before[i] = n THEN list.forward[k][i] ELSE list.forward[n][i]
      /\ \A n \in D \ {k} : less.forward[n] = [i \in DOMAIN less.forward[n] |-> less.forward[n][i]]
  <2>1. ASSUME NEW n \in D \ {k}
        PROVE  /\ DOMAIN unlinked(n) = DOMAIN list.forward[n]
               /\ \A i \in DOMAIN list.forward[n] :
                    unlinked(n)[i] = IF i \in linked /\ before[i] = n THEN list.forward[k][i] ELSE list.forward[n][i]
               /\ unlinked(n) = [i \in DOMAIN unlinked(n) |-> unlinked(n)[i]]
    OBVIOUS
  <2> HIDE DEF unlinked
  <2> QED
    BY <1>5, <2>1
<1>7. Nodes(less) = Nodes(list) \ {k}
  BY <1>5 DEF Nodes
<1>8. /\ less.currentLevel_ \in RandomLevel
      /\ \A i \in 2 .. list.currentLevel_ : less.forward[head_][i - 1] # Nil => i <= less.currentLevel_
  <2>1. list.currentLevel_ \in RandomLevel
    BY DEF IsSound, IsShaped
  <2> QED
    BY <1>4, <1>5, <2>1, LoweredIs
<1>9. IsShaped(less)
  <2>1. head_ \in DOMAIN less.forward /\ DOMAIN less.forward[head_] = Levels
    BY <1>1, <1>5, <1>6 DEF IsSound, IsShaped
  <2>2. Nodes(less) \subseteq Keys /\ Nodes(less) \subseteq D \ {k} /\ Nodes(less) \subseteq Nodes(list)
    BY <1>1, <1>7 DEF IsSound, IsShaped
  <2>3. \A n \in Nodes(less) : \E h \in RandomLevel : DOMAIN less.forward[n] = 0 .. h - 1
    BY <1>6, <2>2 DEF IsSound, IsShaped
  <2>4. \E b \in Nat : \A n \in Nodes(less) : n <= b
    BY <2>2 DEF IsSound, IsShaped
  <2>5. less.value \in [Nodes(less) -> Values]
    BY <1>4, <1>7 DEF IsSound, IsShaped
  <2>6. \A n \in DOMAIN less.forward : less.forward[n] = [i \in DOMAIN less.forward[n] |-> less.forward[n][i]]
    BY <1>5, <1>6
  <2> QED
    BY <1>4, <1>8, <2>1, <2>2, <2>3, <2>4, <2>5, <2>6 DEF IsShaped
<1>10. ASSUME NEW i \in Levels
       PROVE  LinkedAt(less, i) = LinkedAt(list, i) \ {k}
  <2>1. \A n : n \in LinkedAt(less, i) <=> n # k /\ n \in LinkedAt(list, i)
    BY <1>5, <1>6 DEF LinkedAt, Reaching
  <2> QED
    BY <2>1
<1>11. ASSUME NEW i \in Levels, NEW n \in Reaching(less, i)
       PROVE  less.forward[n][i] = NextOf(Behind(LinkedAt(less, i), n))
  <2> DEFINE all == LinkedAt(list, i)
             ns == all \ {k}
  <2>1. n \in ns \cup {head_} /\ n \in D \ {k} /\ i \in DOMAIN list.forward[n] /\ n \in Reaching(list, i)
    BY <1>1, <1>5, <1>6, <1>10 DEF LinkedAt, Reaching
  <2>2. \A m \in Reaching(list, i) : list.forward[m][i] = NextOf(Behind(all, m))
    BY DEF IsSound, IsLinked
  <2>3. all \in SUBSET Nat
    BY NodesAre DEF IsSound
  <2>4. less.forward[n][i] = IF i \in linked /\ before[i] = n THEN list.forward[k][i] ELSE list.forward[n][i]
    BY <1>6, <2>1
  <2>5. CASE k \in all
    <3> DEFINE last == Last(list, i, k)
    <3>1. /\ last # head_ => last \in ns /\ last < k
          /\ \A m \in ns : m < k => last # head_ /\ m <= last
      <4>1. ~(k < k)
        BY <1>1
      <4> QED
        BY <1>1, <4>1, LastIs DEF IsSound
    <3>2. before[i] = last /\ i \in linked /\ k \in Reaching(list, i)
      BY <1>2, <1>3, <2>5 DEF LinkedAt
    <3>3. ns \in SUBSET Nat /\ k \notin ns /\ ns \cup {k} = all
      BY <2>3, <2>5
    <3> HIDE DEF last, ns, all
    <3>4. ns \in SUBSET Nat /\ k \in Nat /\ k \notin ns /\ IsLastOf(last, ns, k)
      BY <1>1, <3>1, <3>3 DEF IsLastOf
    <3>5. /\ \A m \in ns \cup {head_} :
               NextOf(Behind(ns \cup {k}, m)) = IF m = last THEN k ELSE NextOf(Behind(ns, m))
          /\ NextOf(Behind(ns \cup {k}, k)) = NextOf(Behind(ns, last))
      BY <3>4, ChainWith
    <3>6. list.forward[k][i] = NextOf(Behind(ns, last))
      BY <2>2, <3>2, <3>3, <3>5
    <3>7. n # last => list.forward[n][i] = NextOf(Behind(ns, n))
      BY <2>1, <2>2, <3>3, <3>5
    <3>8. less.forward[n][i] = NextOf(Behind(ns, n))
      BY <2>4, <3>2, <3>6, <3>7
    <3> QED
      BY <1>10, <3>8 DEF ns, all
  <2>6. CASE k \notin all
    <3>1. i \notin linked /\ ns = all
      BY <1>2, <2>6
    <3> QED
      BY <1>10, <2>1, <2>2, <2>4, <3>1
  <2> QED
    BY <2>5, <2>6
<1>12. ASSUME NEW i \in Levels, i >= less.currentLevel_
       PROVE  LinkedAt(less, i) = {}
  <2> DEFINE ns == LinkedAt(less, i)
             top == list.currentLevel_
  <2>1. top \in Nat \ {0} /\ i \in Nat /\ less.currentLevel_ \in Nat \ {0}
    BY <1>8, UsedLevels, Names DEF RandomLevel
  <2>2. CASE i >= top
    <3>1. LinkedAt(list, i) = {}
      BY <2>2 DEF IsSound, IsLinked
    <3> QED
      BY <1>10, <3>1
  <2>3. CASE ~(i >= top)
    <3>1. i + 1 \in 2 .. top /\ (i + 1) - 1 = i /\ ~(i + 1 <= less.currentLevel_)
      BY <1>12, <2>1, <2>3
    <3>2. less.forward[head_][i] = Nil
      BY <1>8, <3>1
    <3>3. head_ \in Reaching(less, i) /\ ns \in SUBSET Nat
      BY <1>9, NodesAre
    <3>4. NextOf(Behind(ns, head_)) = Nil
      BY <1>11, <3>2, <3>3
    <3>5. Behind(ns, head_) = ns
      BY DEF Behind
    <3>6. ns = {} \/ Nil \in ns
      BY <3>3, <3>4, <3>5, NextOfIs
    <3> QED
      BY <3>3, <3>6, Names
  <2> QED
    BY <2>2, <2>3
<1>13. IsSound(less)
  BY <1>9, <1>11, <1>12 DEF IsSound, IsLinked
<1>14. \A n \in Nodes(less) : less.value[n] = list.value[n]
  BY <1>4, <1>7
<1> QED
  BY <1>7, <1>13, <1>14 DEF less

\* remove leaves a sound list, which does not have k.
LEMMA RemoveIs ==
  ASSUME NEW list, IsSound(list), NEW k \in Nat
  PROVE  LET less == Remove(list, k)
         IN  /\ IsSound(less)
             /\ Nodes(less) = Nodes(list) \ {k}
             /\ \A n \in Nodes(less) : less.value[n] = list.value[n]
<1>1. CASE k \in Nodes(list)
  <2> DEFINE less == Unlink(list, k)
  <2>1. Remove(list, k) = less
    BY <1>1, FoundIs DEF Remove
  <2>2. /\ IsSound(less)
        /\ Nodes(less) = Nodes(list) \ {k}
        /\ \A n \in Nodes(less) : less.value[n] = list.value[n]
    BY <1>1, UnlinkIs
  <2> HIDE DEF less
  <2> QED
    BY <2>1, <2>2
<1>2. CASE k \notin Nodes(list)
  <2>1. Remove(list, k) = list
    BY <1>2, FoundIs DEF Remove
  <2>2. Nodes(list) \ {k} = Nodes(list)
    BY <1>2
  <2> QED
    BY <2>1, <2>2
<1> QED
  BY <1>1, <1>2

\* An empty list is sound.
LEMMA EmptyIs == IsSound(EmptyList) /\ Nodes(EmptyList) = {}
<1> DEFINE list == EmptyList
<1>1. /\ list.forward = [n \in {head_} |-> [i \in Levels |-> Nil]]
      /\ list.value = [n \in {} |-> Missing] /\ list.currentLevel_ = 1
      /\ list = List(list.forward, list.value, list.currentLevel_)
  BY DEF EmptyList, List
<1> HIDE DEF list
<1>2. DOMAIN list.forward = {head_} /\ list.forward[head_] = [i \in Levels |-> Nil]
  BY <1>1
<1>3. Nodes(list) = {}
  BY <1>2 DEF Nodes
<1>4. \A i \in Levels : LinkedAt(list, i) = {} /\ Reaching(list, i) = {head_} /\ list.forward[head_][i] = Nil
  BY <1>2 DEF LinkedAt, Reaching
<1>5. 1 \in RandomLevel /\ 0 \in Nat
  BY MaxLevelAssumption DEF RandomLevel
<1>6. IsShaped(list)
  <2>1. list.value \in [Nodes(list) -> Values]
    BY <1>1, <1>3
  <2>2. \E b \in Nat : \A n \in Nodes(list) : n <= b
    BY <1>3, <1>5
  <2>3. /\ DOMAIN list.forward[head_] = Levels
        /\ \A n \in DOMAIN list.forward : list.forward[n] = [i \in DOMAIN list.forward[n] |-> list.forward[n][i]]
    BY <1>2
  <2> QED
    BY <1>1, <1>2, <1>3, <1>5, <2>1, <2>2, <2>3 DEF IsShaped
<1>7. \A i \in Levels : NextOf(Behind(LinkedAt(list, i), head_)) = Nil
  BY <1>4 DEF NextOf, Behind
<1>8. IsLinked(list)
  BY <1>4, <1>7 DEF IsLinked
<1> QED
  BY <1>3, <1>6, <1>8 DEF IsSound, list

\* clear leaves an empty list.
LEMMA ClearIs ==
  ASSUME NEW list, IsSound(list)
  PROVE  Clear(list) = EmptyList
<1> DEFINE head == [i \in Levels |-> IF i < list.currentLevel_ THEN Nil ELSE list.forward[head_][i]]
<1>1. ASSUME NEW i \in Levels
      PROVE  head[i] = Nil
  <2>1. CASE i < list.currentLevel_
    BY <2>1
  <2>2. CASE ~(i < list.currentLevel_)
    <3>1. i >= list.currentLevel_ /\ head[i] = list.forward[head_][i]
      BY <2>2, UsedLevels, Names
    <3>2. LinkedAt(list, i) = {} /\ head_ \in Reaching(list, i)
      BY <3>1, NodesAre DEF IsSound, IsLinked
    <3>3. list.forward[head_][i] = NextOf(Behind(LinkedAt(list, i), head_))
      BY <3>2 DEF IsSound, IsLinked
    <3>4. Behind({}, head_) = {}
      BY DEF Behind
    <3> QED
      BY <3>1, <3>2, <3>3, <3>4 DEF NextOf
  <2> QED
    BY <2>1, <2>2
<1>2. head = [i \in Levels |-> Nil]
  BY <1>1
<1>3. Clear(list) = [EmptyList EXCEPT !.forward[head_] = head]
  BY DEF Clear
<1> HIDE DEF head
<1>4. [EmptyList EXCEPT !.forward[head_] = [i \in Levels |-> Nil]] = EmptyList
  <2> DEFINE nils == [i \in Levels |-> Nil]
             f == [n \in {head_} |-> nils]
  <2>1. [f EXCEPT ![head_] = nils] = f
    BY Zenon
  <2>2. EmptyList = List(f, [n \in {} |-> Missing], 1)
    BY DEF EmptyList
  <2> HIDE DEF f, nils
  <2>3. [List(f, [n \in {} |-> Missing], 1) EXCEPT !.forward[head_] = nils]
          = List([f EXCEPT ![head_] = nils], [n \in {} |-> Missing], 1)
    BY DEF List
  <2> QED
    BY <2>1, <2>2, <2>3 DEF nils
<1> QED
  BY <1>2, <1>3, <1>4

-----------------------------------------------------------------------------
(* forEach on one list.                                                    *)

\* What a sequence has
Elements(s) == {s[i] : i \in DOMAIN s}

\* No key occurs twice.
IsDistinct(s) == \A i, j \in DOMAIN s : s[i][1] = s[j][1] => i = j

\* What forEach has called func with, and what a shard adds to it
LEMMA ConcatIs ==
  ASSUME NEW T, NEW s \in Seq(T), NEW t \in Seq(T)
  PROVE  /\ s \o t \in Seq(T)
         /\ Elements(s \o t) = Elements(s) \cup Elements(t)
         /\ IsDistinct(s) /\ IsDistinct(t) /\ (\A a \in Elements(s), b \in Elements(t) : a[1] # b[1])
              => IsDistinct(s \o t)
<1> DEFINE u == s \o t
<1>1. /\ u \in Seq(T) /\ DOMAIN u = 1 .. Len(s) + Len(t) /\ DOMAIN s = 1 .. Len(s) /\ DOMAIN t = 1 .. Len(t)
      /\ Len(s) \in Nat /\ Len(t) \in Nat
      /\ \A i \in DOMAIN u : u[i] = IF i <= Len(s) THEN s[i] ELSE t[i - Len(s)]
  OBVIOUS
<1> HIDE DEF u
<1>2. \A i \in DOMAIN u : \/ i \in DOMAIN s /\ u[i] = s[i]
                          \/ ~(i <= Len(s)) /\ i - Len(s) \in DOMAIN t /\ u[i] = t[i - Len(s)]
  BY <1>1
<1>3. /\ \A i \in DOMAIN s : i \in DOMAIN u /\ u[i] = s[i]
      /\ \A i \in DOMAIN t : i + Len(s) \in DOMAIN u /\ u[i + Len(s)] = t[i]
  <2>1. ASSUME NEW i \in DOMAIN s
        PROVE  i \in DOMAIN u /\ u[i] = s[i]
    <3>1. i \in Nat /\ i <= Len(s) /\ i \in DOMAIN u
      BY <1>1
    <3> QED
      BY <1>1, <3>1
  <2>2. ASSUME NEW i \in DOMAIN t
        PROVE  i + Len(s) \in DOMAIN u /\ u[i + Len(s)] = t[i]
    <3> DEFINE j == i + Len(s)
    <3>1. i \in Nat /\ j \in DOMAIN u /\ ~(j <= Len(s)) /\ j - Len(s) = i
      BY <1>1
    <3> HIDE DEF j
    <3> QED
      BY <1>1, <3>1 DEF j
  <2> QED
    BY <2>1, <2>2
<1>4. Elements(u) = Elements(s) \cup Elements(t)
  <2>1. Elements(u) \subseteq Elements(s) \cup Elements(t)
    BY <1>2 DEF Elements
  <2>2. Elements(s) \subseteq Elements(u)
    BY <1>3 DEF Elements
  <2>3. Elements(t) \subseteq Elements(u)
    BY <1>3 DEF Elements
  <2> QED
    BY <2>1, <2>2, <2>3
<1>5. ASSUME IsDistinct(s), IsDistinct(t), \A a \in Elements(s), b \in Elements(t) : a[1] # b[1]
      PROVE  IsDistinct(u)
  <2> SUFFICES ASSUME NEW i \in DOMAIN u, NEW j \in DOMAIN u, u[i][1] = u[j][1]
               PROVE  i = j
    BY DEF IsDistinct
  <2>1. CASE i \in DOMAIN s /\ u[i] = s[i]
    <3>1. CASE j \in DOMAIN s /\ u[j] = s[j]
      BY <1>5, <2>1, <3>1 DEF IsDistinct
    <3>2. CASE j - Len(s) \in DOMAIN t /\ u[j] = t[j - Len(s)]
      BY <1>5, <2>1, <3>2 DEF Elements
    <3> QED
      BY <1>2, <3>1, <3>2
  <2>2. CASE i - Len(s) \in DOMAIN t /\ u[i] = t[i - Len(s)]
    <3>1. CASE j \in DOMAIN s /\ u[j] = s[j]
      BY <1>5, <2>2, <3>1 DEF Elements
    <3>2. CASE j - Len(s) \in DOMAIN t /\ u[j] = t[j - Len(s)]
      <4>1. i - Len(s) = j - Len(s)
        BY <1>5, <2>2, <3>2 DEF IsDistinct
      <4> QED
        BY <1>1, <4>1
    <3> QED
      BY <1>2, <3>1, <3>2
  <2> QED
    BY <1>2, <2>1, <2>2
<1> QED
  BY <1>1, <1>4, <1>5 DEF u

\* What forEach reports of a node
Entry(list, n) == <<n, list.value[n]>>

Entries == Keys \X Values

\* f is a function that forEach defines on the nodes ns.
IsFrom(f, list, ns) ==
  f = [n \in ns \cup {Nil} |-> IF n = Nil THEN <<>> ELSE <<Entry(list, n)>> \o f[list.forward[n][0]]]

\* The node after a node at level 0
LEMMA NextIs ==
  ASSUME NEW list, IsSound(list)
  PROVE  /\ Nodes(list) \in SUBSET Nat /\ Nil \notin Nodes(list)
         /\ \A n \in Nodes(list) : Entry(list, n) \in Entries
         /\ \A n \in Nodes(list) : NextOf(Behind(Nodes(list), n)) = list.forward[n][0]
         /\ \A n \in Nodes(list) :
              list.forward[n][0] = Nil \/ (list.forward[n][0] \in Nodes(list) /\ list.forward[n][0] > n)
         /\ First(list) = NextOf(Nodes(list))
<1>1. /\ 0 \in Levels /\ LinkedAt(list, 0) = Nodes(list)
      /\ head_ \in Reaching(list, 0) /\ Nodes(list) \subseteq Reaching(list, 0)
      /\ Nodes(list) \in SUBSET Nat /\ Nodes(list) \in SUBSET Keys
  BY Names, NodesAre DEF IsSound
<1>2. Nil \notin Nodes(list) /\ head_ \notin Nodes(list)
  BY <1>1, Names
<1>3. \A n \in Nodes(list) : Entry(list, n) \in Entries
  BY <1>1 DEF Entry, Entries, IsSound, IsShaped
<1>4. \A n \in Reaching(list, 0) : NextOf(Behind(Nodes(list), n)) = list.forward[n][0]
  BY <1>1 DEF IsSound, IsLinked
<1>5. ASSUME NEW n \in Nodes(list)
      PROVE  list.forward[n][0] = Nil \/ (list.forward[n][0] \in Nodes(list) /\ list.forward[n][0] > n)
  <2>1. /\ Behind(Nodes(list), n) \in SUBSET Nat
        /\ \A m \in Behind(Nodes(list), n) : m \in Nodes(list) /\ m > n
    BY <1>1, <1>2 DEF Behind
  <2> QED
    BY <1>1, <1>4, <2>1, NextOfIs
<1>6. Behind(Nodes(list), head_) = Nodes(list)
  BY DEF Behind
<1>7. First(list) = NextOf(Nodes(list))
  BY <1>1, <1>4, <1>6 DEF First
<1> QED
  BY <1>1, <1>2, <1>3, <1>4, <1>5, <1>7

\* There is a function that forEach defines: from the last nodes back to the
\* first.
LEMMA FromExists ==
  ASSUME NEW list, IsSound(list)
  PROVE  \E f : IsFrom(f, list, Nodes(list))
<1> DEFINE D(d, b) == {n \in Nodes(list) : n + d > b}
<1>1. PICK b \in Nat : \A n \in Nodes(list) : n <= b
  BY DEF IsSound, IsShaped
<1>2. /\ Nodes(list) \in SUBSET Nat /\ Nil \notin Nodes(list)
      /\ \A n \in Nodes(list) :
           list.forward[n][0] = Nil \/ (list.forward[n][0] \in Nodes(list) /\ list.forward[n][0] > n)
  BY NextIs
<1> DEFINE has(d) == \E f : IsFrom(f, list, D(d, b))
           S == {d \in 0 .. b + 1 : has(d)}
<1>3. 0 \in S
  <2> DEFINE f == [n \in {Nil} |-> <<>>]
  <2>1. D(0, b) = {}
    BY <1>1, <1>2
  <2>2. f = [n \in {} \cup {Nil} |-> IF n = Nil THEN <<>> ELSE <<Entry(list, n)>> \o f[list.forward[n][0]]]
    OBVIOUS
  <2>3. IsFrom(f, list, {})
    BY <2>2 DEF IsFrom
  <2>4. has(0)
    BY <2>1, <2>3
  <2>5. 0 \in 0 .. b + 1
    OBVIOUS
  <2> HIDE DEF has
  <2> QED
    BY <2>4, <2>5
<1>4. ASSUME NEW d \in 0 .. b, d \in S
      PROVE  d + 1 \in S
  <2>1. PICK f : IsFrom(f, list, D(d, b))
    BY <1>4
  <2> DEFINE old == D(d, b) \cup {Nil}
             new == D(d + 1, b) \cup {Nil}
             after(n) == list.forward[n][0]
             g == [n \in new |-> IF n \in old THEN f[n] ELSE <<Entry(list, n)>> \o f[after(n)]]
             h == [n \in new |-> IF n = Nil THEN <<>> ELSE <<Entry(list, n)>> \o g[after(n)]]
  <2>2. /\ old \subseteq new /\ Nil \in old
        /\ \A n \in new : n # Nil => after(n) \in old
    <3>1. \A n \in D(d, b) : n \in D(d + 1, b)
      BY <1>2
    <3>2. ASSUME NEW n \in D(d + 1, b)
          PROVE  after(n) \in old
      <4>1. CASE after(n) = Nil
        BY <4>1
      <4>2. CASE after(n) \in Nodes(list) /\ after(n) > n
        <5>1. n \in Nat /\ after(n) \in Nat /\ n + (d + 1) > b
          BY <1>2, <4>2
        <5> HIDE DEF after
        <5>2. after(n) + d > b
          BY <4>2, <5>1
        <5> QED
          BY <4>2, <5>2
      <4> QED
        BY <1>2, <4>1, <4>2
    <3> QED
      BY <3>1, <3>2
  <2>3. \A n \in old : f[n] = IF n = Nil THEN <<>> ELSE <<Entry(list, n)>> \o f[after(n)]
    BY <2>1 DEF IsFrom
  <2> HIDE DEF old, new, after
  <2>4. \A n \in old : g[n] = f[n]
    BY <2>2
  <2>5. ASSUME NEW n \in new
        PROVE  g[n] = h[n]
    <3>1. CASE n = Nil
      BY <2>2, <2>3, <2>4, <3>1
    <3>2. CASE n # Nil
      <4>1. g[after(n)] = f[after(n)] /\ h[n] = <<Entry(list, n)>> \o g[after(n)]
        BY <2>2, <2>4, <3>2
      <4>2. g[n] = <<Entry(list, n)>> \o f[after(n)]
        BY <2>3, <3>2
      <4> QED
        BY <4>1, <4>2
    <3> QED
      BY <3>1, <3>2
  <2>6. g = h
    <3>1. DOMAIN g = new /\ DOMAIN h = new
      OBVIOUS
    <3> QED
      BY <2>5, <3>1
  <2>7. IsFrom(g, list, D(d + 1, b))
    <3> HIDE DEF g
    <3> QED
      BY <2>6 DEF IsFrom, h, new, after
  <2>8. has(d + 1)
    BY <2>7
  <2>9. d + 1 \in 0 .. b + 1
    OBVIOUS
  <2> HIDE DEF has
  <2> QED
    BY <2>8, <2>9
<1>5. D(b + 1, b) = Nodes(list)
  BY <1>1, <1>2
<1>6. b + 1 \in Nat /\ b + 1 \in 0 .. b + 1 /\ 0 .. (b + 1) - 1 = 0 .. b
  OBVIOUS
<1>7. b + 1 \in S
  <2> HIDE DEF S
  <2> QED
    BY <1>3, <1>4, <1>6, SetInduction
<1> QED
  BY <1>5, <1>7

\* Whatever function it is, it reports a node and those after it.
LEMMA FromIs ==
  ASSUME NEW list, IsSound(list), NEW f, IsFrom(f, list, Nodes(list)), NEW n \in Nodes(list)
  PROVE  /\ f[n] \in Seq(Entries)
         /\ \A e : e \in Elements(f[n]) <=> \E m \in Nodes(list) : m >= n /\ e = Entry(list, m)
         /\ IsDistinct(f[n])
<1> DEFINE good(m) == /\ f[m] \in Seq(Entries)
                      /\ \A e : e \in Elements(f[m]) <=> \E p \in Nodes(list) : p >= m /\ e = Entry(list, p)
                      /\ IsDistinct(f[m])
           bad == {m \in Nodes(list) : ~good(m)}
           after(m) == list.forward[m][0]
<1>1. /\ Nodes(list) \in SUBSET Nat /\ Nil \notin Nodes(list)
      /\ \A m \in Nodes(list) : Entry(list, m) \in Entries
      /\ \A m \in Nodes(list) : NextOf(Behind(Nodes(list), m)) = after(m)
      /\ \A m \in Nodes(list) : after(m) = Nil \/ (after(m) \in Nodes(list) /\ after(m) > m)
  BY NextIs
<1>2. f[Nil] = <<>> /\ \A m \in Nodes(list) : f[m] = <<Entry(list, m)>> \o f[after(m)]
  BY <1>1 DEF IsFrom
<1>3. ASSUME NEW m \in Nodes(list), after(m) = Nil \/ good(after(m))
      PROVE  good(m)
  <2> DEFINE s == <<Entry(list, m)>>
             t == f[after(m)]
             rest == Behind(Nodes(list), m)
  <2>1. rest \in SUBSET Nat /\ \A p : p \in rest <=> p \in Nodes(list) /\ p > m
    BY <1>1, Names DEF Behind
  <2>2. /\ t \in Seq(Entries) /\ IsDistinct(t)
        /\ \A e : e \in Elements(t) <=> \E p \in rest : e = Entry(list, p)
    <3>1. CASE after(m) = Nil
      <4>1. t = <<>> /\ Elements(t) = {}
        BY <1>2, <3>1 DEF Elements
      <4>2. rest = {} \/ Nil \in rest
        BY <1>1, <2>1, <3>1, NextOfIs
      <4>3. rest = {}
        BY <1>1, <2>1, <4>2
      <4> QED
        BY <4>1, <4>3 DEF IsDistinct
    <3>2. CASE after(m) # Nil
      <4>1. after(m) \in rest /\ \A p \in rest : after(m) <= p
        BY <1>1, <2>1, <3>2, NextOfIs
      <4>2. good(after(m))
        BY <1>3, <3>2
      <4> HIDE DEF after, rest
      <4>3. \A p \in Nodes(list) : p >= after(m) <=> p \in rest
        BY <1>1, <2>1, <4>1
      <4>4. rest \subseteq Nodes(list)
        BY <2>1
      <4>5. \A e : e \in Elements(t) <=> \E p \in rest : e = Entry(list, p)
        BY <4>2, <4>3, <4>4
      <4> QED
        BY <4>2, <4>5
    <3> QED
      BY <3>1, <3>2
  <2>3. /\ s \in Seq(Entries) /\ \A e : e \in Elements(s) <=> e = Entry(list, m)
        /\ IsDistinct(s)
    BY <1>1 DEF Elements, IsDistinct
  <2>4. \A a \in Elements(s), b \in Elements(t) : a[1] # b[1]
    <3>1. \A p \in rest : p # m
      BY <1>1, <2>1
    <3> HIDE DEF s, t, rest
    <3> QED
      BY <2>2, <2>3, <3>1 DEF Entry
  <2>5. f[m] = s \o t
    BY <1>2
  <2> HIDE DEF s, t, rest
  <2>6. s \o t \in Seq(Entries) /\ IsDistinct(s \o t) /\ Elements(s \o t) = Elements(s) \cup Elements(t)
    BY <2>2, <2>3, <2>4, ConcatIs
  <2>7. \A p \in Nodes(list) : p >= m <=> p = m \/ p \in rest
    BY <1>1, <2>1
  <2>8. \A e : e \in Elements(f[m]) <=> \E p \in Nodes(list) : p >= m /\ e = Entry(list, p)
    BY <2>1, <2>2, <2>3, <2>5, <2>6, <2>7
  <2> QED
    BY <2>5, <2>6, <2>8
<1> HIDE DEF good
<1>4. bad = {}
  <2>1. ASSUME bad # {}
        PROVE  FALSE
    <3>1. PICK b \in Nat : \A m \in Nodes(list) : m <= b
      BY DEF IsSound, IsShaped
    <3>2. bad \in SUBSET Nat /\ \A m \in bad : m <= b
      BY <1>1, <3>1
    <3>3. PICK m \in bad : \A p \in bad : m >= p
      <4> HIDE DEF bad
      <4> QED
        BY <2>1, <3>2, MaxIs
    <3>4. after(m) \in bad /\ after(m) > m
      BY <1>1, <1>3
    <3> QED
      BY <3>2, <3>3, <3>4
  <2> QED
    BY <2>1
<1> QED
  BY <1>4 DEF good

\* forEach reports the keys of the nodes with their values, and none twice.
LEMMA ForEachIs ==
  ASSUME NEW list, IsSound(list)
  PROVE  /\ ForEach(list) \in Seq(Entries)
         /\ \A e : e \in Elements(ForEach(list)) <=> \E n \in Nodes(list) : e = Entry(list, n)
         /\ IsDistinct(ForEach(list))
<1> DEFINE from[n \in Nodes(list) \cup {Nil}] ==
             IF n = Nil THEN <<>> ELSE <<<<n, list.value[n]>>>> \o from[list.forward[n][0]]
<1>1. IsFrom(from, list, Nodes(list))
  <2>1. \E f : f = [n \in Nodes(list) \cup {Nil} |->
                      IF n = Nil THEN <<>> ELSE <<<<n, list.value[n]>>>> \o f[list.forward[n][0]]]
    BY FromExists DEF IsFrom, Entry
  <2> QED
    BY <2>1 DEF IsFrom, Entry
<1>2. ForEach(list) = from[First(list)]
  BY DEF ForEach
<1> HIDE DEF from
<1>3. Nodes(list) \in SUBSET Nat /\ First(list) = NextOf(Nodes(list)) /\ Nil \notin Nodes(list)
  BY NextIs
<1>4. CASE First(list) = Nil
  <2>1. Nodes(list) = {}
    BY <1>3, <1>4, NextOfIs
  <2>2. from[Nil] = <<>>
    BY <1>1 DEF IsFrom
  <2> QED
    BY <1>2, <1>4, <2>1, <2>2 DEF Elements, IsDistinct
<1>5. CASE First(list) # Nil
  <2>1. First(list) \in Nodes(list) /\ \A n \in Nodes(list) : First(list) <= n
    BY <1>3, <1>5, NextOfIs
  <2>2. \A n \in Nodes(list) : n >= First(list)
    BY <1>3, <2>1
  <2> QED
    BY <1>1, <1>2, <2>1, <2>2, FromIs
<1> QED
  BY <1>4, <1>5

-----------------------------------------------------------------------------
(* Every operation keeps every list sound, and the map right.              *)

\* What a node of a sound list looks like to IsList and IsSorted
LEMMA HeightIs ==
  ASSUME NEW list, IsSound(list), NEW n \in DOMAIN list.forward
  PROVE  /\ Height(list, n) \in RandomLevel
         /\ DOMAIN list.forward[n] = 0 .. Height(list, n) - 1
         /\ \A i \in Levels : Height(list, n) > i <=> i \in DOMAIN list.forward[n]
         /\ DOMAIN list.forward[n] \subseteq Levels
<1>1. PICK h \in RandomLevel : DOMAIN list.forward[n] = 0 .. h - 1
  <2>1. CASE n = head_
    <3>1. MaxLevel \in RandomLevel /\ Levels = 0 .. MaxLevel - 1
      BY MaxLevelAssumption DEF RandomLevel, Levels
    <3> QED
      BY <2>1, <3>1 DEF IsSound, IsShaped
  <2>2. CASE n # head_
    BY <2>2 DEF IsSound, IsShaped, Nodes
  <2> QED
    BY <2>1, <2>2
<1>2. h \in Nat \ {0} /\ MaxLevel \in Nat /\ h <= MaxLevel
  BY <1>1, Names DEF RandomLevel
<1>3. Cardinality(0 .. h - 1) = h
  <2>1. Cardinality(0 .. h - 1) = (h - 1) - 0 + 1
    BY <1>2, FS_Interval
  <2> QED
    BY <1>2, <2>1
<1>4. Height(list, n) = h
  BY <1>1, <1>3 DEF Height
<1> QED
  BY <1>1, <1>2, <1>4 DEF Levels

\* A sound list is a list ...
LEMMA SoundIsList ==
  ASSUME NEW list, IsSound(list)
  PROVE  IsList(list, Values)
<1>1. /\ Nodes(list) \subseteq Keys /\ list.value \in [Nodes(list) -> Values]
      /\ list.currentLevel_ \in RandomLevel
  BY DEF IsSound, IsShaped
<1>2. ASSUME NEW n \in DOMAIN list.forward
      PROVE  /\ Height(list, n) \in RandomLevel
             /\ list.forward[n] \in [0 .. Height(list, n) - 1 -> Keys \cup {Nil}]
  <2>1. /\ Height(list, n) \in RandomLevel /\ DOMAIN list.forward[n] = 0 .. Height(list, n) - 1
        /\ DOMAIN list.forward[n] \subseteq Levels
    BY HeightIs
  <2>2. ASSUME NEW i \in DOMAIN list.forward[n]
        PROVE  list.forward[n][i] \in Keys \cup {Nil}
    <3> DEFINE ns == Behind(LinkedAt(list, i), n)
    <3>1. i \in Levels /\ n \in Reaching(list, i)
      BY <2>1 DEF Reaching
    <3>2. ns \in SUBSET Nat /\ ns \subseteq Keys
      BY <3>1, NodesAre DEF IsSound, Behind
    <3>3. list.forward[n][i] = NextOf(ns)
      BY <3>1 DEF IsSound, IsLinked
    <3> QED
      BY <3>2, <3>3, NextOfIs
  <2>3. list.forward[n] = [i \in DOMAIN list.forward[n] |-> list.forward[n][i]]
    BY DEF IsSound, IsShaped
  <2> QED
    BY <2>1, <2>2, <2>3
<1> QED
  BY <1>1, <1>2 DEF IsList

\* ... with sorted levels.
LEMMA SoundIsSorted ==
  ASSUME NEW list, IsSound(list)
  PROVE  IsSorted(list)
<1>1. ASSUME NEW n \in DOMAIN list.forward, NEW i \in DOMAIN list.forward[n]
      PROVE  list.forward[n][i] = IF After(list, n, i) = {} THEN Nil ELSE Min(After(list, n, i))
  <2>1. i \in Levels /\ n \in Reaching(list, i)
    BY HeightIs DEF Reaching
  <2>2. \A m \in Nodes(list) : Height(list, m) > i <=> m \in LinkedAt(list, i)
    <3>1. \A m \in Nodes(list) : Height(list, m) > i <=> i \in DOMAIN list.forward[m]
      BY <2>1, HeightIs DEF Nodes
    <3> QED
      BY <3>1 DEF LinkedAt, Reaching, Nodes
  <2>3. LinkedAt(list, i) \subseteq Nodes(list)
    BY <2>1, NodesAre DEF IsSound
  <2>4. After(list, n, i) = Behind(LinkedAt(list, i), n)
    BY <2>2, <2>3 DEF After, Behind
  <2> QED
    BY <2>1, <2>4 DEF IsSound, IsLinked, NextOf
<1>2. ASSUME NEW i \in Levels, i >= list.currentLevel_
      PROVE  list.forward[head_][i] = Nil
  <2>1. LinkedAt(list, i) = {} /\ head_ \in Reaching(list, i)
    BY <1>2, NodesAre DEF IsSound, IsLinked
  <2>2. Behind({}, head_) = {}
    BY DEF Behind
  <2> QED
    BY <2>1, <2>2 DEF IsSound, IsLinked, NextOf
<1> QED
  BY <1>1, <1>2 DEF IsSorted

-----------------------------------------------------------------------------

\* TypeOK, with the lists aside
SweepTypes ==
  /\ sweep \in [Sweepers -> {"none", "clear", "forEach"}]
  /\ next \in [Sweepers -> 0 .. kShardCount]
  /\ visited \in [Sweepers -> Seq(Keys \X Values)]
  /\ touched \in [Sweepers -> SUBSET Keys]
  /\ map \in [Keys -> Values \cup {Missing}]
  /\ DOMAIN shards = Shards

\* What a list has for a key
ValueIn(list, k) == IF k \in Nodes(list) THEN list.value[k] ELSE Missing

\* The lists are sound, keep the keys of their shards and agree with the map.
IndexInv ==
  /\ \A s \in Shards : IsSound(shards[s])
  /\ \A s \in Shards : \A n \in Nodes(shards[s]) : hashKey[n] = s
  /\ \A k \in Keys : map[k] = ValueIn(shards[hashKey[k]], k)

\* The key is one that t has come past and nobody has changed since.
Settled(t, k) == k \notin touched[t] /\ hashKey[k] < next[t]

\* What a sweeper has done so far: clear has left nothing of the settled keys
\* of the shards that it has come past, and forEach has reported them, each
\* once, and has reported no key of the shards ahead.
SweeperInv(t) ==
  /\ sweep[t] = "none" => next[t] = 0 /\ visited[t] = <<>>
  /\ sweep[t] = "clear" => \A k \in Keys : Settled(t, k) => map[k] = Missing
  /\ sweep[t] = "forEach" =>
       /\ \A k \in Keys, v \in Values : Settled(t, k) => (map[k] = v <=> <<k, v>> \in Elements(visited[t]))
       /\ \A e \in Elements(visited[t]) : hashKey[e[1]] < next[t]
       /\ IsDistinct(visited[t])

SweepInv == \A t \in Sweepers : SweeperInv(t)

\* The inductive invariant
IInv == SweepTypes /\ IndexInv /\ SweepInv

\* What the assumptions on the constants say of shards
LEMMA Hashes ==
  /\ kShardCount \in Nat \ {0} /\ \A s \in Shards : s \in Nat /\ s < kShardCount
  /\ \A k \in Keys : hashKey[k] \in Shards /\ hashKey[k] \in Nat /\ hashKey[k] < kShardCount /\ k \in Nat
  BY ShardsAssumption, HashAssumption, KeysAssumption DEF Shards

\* A shard gets another list, and the map the values of its keys.
LEMMA ShardChanges ==
  ASSUME SweepTypes, IndexInv, NEW s \in Shards, NEW list, IsSound(list), \A n \in Nodes(list) : hashKey[n] = s,
         shards' = [shards EXCEPT ![s] = list],
         \A k \in Keys : map'[k] = IF hashKey[k] = s THEN ValueIn(list, k) ELSE map[k]
  PROVE  IndexInv' /\ DOMAIN shards' = Shards
<1>1. DOMAIN shards' = Shards /\ \A r \in Shards : shards'[r] = IF r = s THEN list ELSE shards[r]
  BY DEF SweepTypes
<1>2. \A r \in Shards : IsSound(shards'[r])
  BY <1>1 DEF IndexInv
<1>3. \A r \in Shards : \A n \in Nodes(shards'[r]) : hashKey[n] = r
  BY <1>1 DEF IndexInv
<1>4. \A k \in Keys : map'[k] = ValueIn(shards'[hashKey[k]], k)
  BY <1>1, Hashes DEF IndexInv
<1> QED
  BY <1>1, <1>2, <1>3, <1>4 DEF IndexInv

\* What Change does to the history: the keys ks get the value v, and become
\* touched for every sweeper but t itself.
HasChanged(ks, v, t) ==
  /\ touched' \in [Sweepers -> SUBSET Keys] /\ map' \in [Keys -> Values \cup {Missing}]
  /\ \A k \in Keys : map'[k] = IF k \in ks THEN v ELSE map[k]
  /\ \A u \in Sweepers : sweep[u] # "none" /\ u # t =>
       \A k \in Keys : k \notin touched'[u] => k \notin touched[u] /\ map'[k] = map[k]
  /\ t \in Sweepers => touched'[t] = touched[t]

\* Change does that.
LEMMA ChangeIs ==
  ASSUME SweepTypes, NEW ks \in SUBSET Keys, NEW v \in Values \cup {Missing}, NEW t, Change(ks, v, t)
  PROVE  HasChanged(ks, v, t)
  BY DEF SweepTypes, Change, HasChanged

\* A sweeper that does not move keeps its invariant.
LEMMA OthersSweep ==
  ASSUME SweepTypes, SweepInv, NEW t, NEW u \in Sweepers, u # t,
         sweep'[u] = sweep[u], next'[u] = next[u], visited'[u] = visited[u],
         sweep[u] # "none" => \A k \in Keys : k \notin touched'[u] => k \notin touched[u] /\ map'[k] = map[k]
  PROVE  SweeperInv(u)'
<1>1. sweep[u] # "none" => \A k \in Keys : Settled(u, k)' => Settled(u, k) /\ map'[k] = map[k]
  BY DEF Settled
<1>2. SweeperInv(u)
  BY DEF SweepInv
<1> HIDE DEF Settled
<1> QED
  BY <1>1, <1>2 DEF SweeperInv

\* The invariant is inductive: one lemma for each action.  A change of a key
\* relies on the soundness of its list, a turn of clear or forEach on what
\* SweeperInv says of the shards before.
LEMMA InitHolds == Init => IInv
<1> SUFFICES ASSUME Init
             PROVE  IInv
  OBVIOUS
<1>1. \A s \in Shards : shards[s] = EmptyList
  BY DEF Init
<1>2. IndexInv
  <2>1. \A k \in Keys : map[k] = Missing
    BY DEF Init
  <2> QED
    BY <1>1, <2>1, EmptyIs, Hashes DEF IndexInv, ValueIn
<1>3. SweepTypes
  BY Hashes DEF SweepTypes, Init
<1>4. SweepInv
  BY DEF SweepInv, SweeperInv, Init
<1> QED
  BY <1>2, <1>3, <1>4 DEF IInv

\* The shard s has another list, in which the keys ks of the shard have the
\* value v and the others the one they had.
HasList(s, list, ks, v) ==
  /\ shards' = [shards EXCEPT ![s] = list]
  /\ IsSound(list) /\ \A n \in Nodes(list) : hashKey[n] = s
  /\ \A k \in ks : hashKey[k] = s
  /\ \A k \in Keys : hashKey[k] = s => ValueIn(list, k) = IF k \in ks THEN v ELSE ValueIn(shards[s], k)

\* No sweeper but t moves.
OthersStay(t) ==
  /\ sweep' \in [Sweepers -> {"none", "clear", "forEach"}] /\ next' \in [Sweepers -> 0 .. kShardCount]
  /\ visited' = visited
  /\ \A u \in Sweepers : u # t => sweep'[u] = sweep[u] /\ next'[u] = next[u]

\* A step that gives one shard another list, and changes the map likewise,
\* keeps the invariant.
LEMMA ListChanges ==
  ASSUME IInv, NEW s \in Shards, NEW list, NEW ks \in SUBSET Keys, NEW v \in Values \cup {Missing}, NEW t,
         HasList(s, list, ks, v), HasChanged(ks, v, t), OthersStay(t), t \in Sweepers => SweeperInv(t)'
  PROVE  IInv'
<1>1. SweepTypes /\ SweepInv /\ IndexInv
  BY DEF IInv
<1>2. \A k \in Keys : map'[k] = IF hashKey[k] = s THEN ValueIn(list, k) ELSE map[k]
  BY <1>1 DEF IndexInv, HasList, HasChanged
<1>3. IndexInv' /\ DOMAIN shards' = Shards
  BY <1>1, <1>2, ShardChanges DEF HasList
<1>4. SweepTypes'
  BY <1>1, <1>3 DEF SweepTypes, HasChanged, OthersStay
<1>5. ASSUME NEW u \in Sweepers
      PROVE  SweeperInv(u)'
  <2>1. CASE u # t
    <3>1. /\ sweep'[u] = sweep[u] /\ next'[u] = next[u] /\ visited'[u] = visited[u]
          /\ sweep[u] # "none" => \A k \in Keys : k \notin touched'[u] => k \notin touched[u] /\ map'[k] = map[k]
      BY <2>1 DEF HasChanged, OthersStay
    <3> QED
      BY <1>1, <2>1, <3>1, OthersSweep
  <2>2. CASE u = t
    BY <2>2
  <2> QED
    BY <2>1, <2>2
<1>6. SweepInv'
  BY <1>5 DEF SweepInv
<1> QED
  BY <1>3, <1>4, <1>6 DEF IInv

\* put, under the lock of the shard of its key
LEMMA PutKeeps ==
  ASSUME IInv, NEW k \in Keys, NEW v \in Values, Put(k, v)
  PROVE  IInv'
<1> DEFINE s == hashKey[k]
           old == shards[s]
           ks == {k}
<1>1. PICK level \in RandomLevel : shards' = [shards EXCEPT ![s] = Insert(old, k, v, level)]
  BY Hashes DEF Put, IInv, SweepTypes
<1> DEFINE list == Insert(old, k, v, level)
<1>2. s \in Shards /\ IsSound(old) /\ \A n \in Nodes(old) : hashKey[n] = s
  BY Hashes DEF IInv, IndexInv
<1>3. /\ IsSound(list) /\ Nodes(list) = Nodes(old) \cup {k}
      /\ \A n \in Nodes(list) : list.value[n] = IF n = k THEN v ELSE old.value[n]
  <2> HIDE DEF old
  <2> QED
    BY <1>2, InsertIs
<1> HIDE DEF list
<1>4. HasList(s, list, ks, v)
  <2>1. \A n \in Nodes(list) : hashKey[n] = s
    BY <1>2, <1>3
  <2>2. \A m \in Keys : hashKey[m] = s => ValueIn(list, m) = IF m \in ks THEN v ELSE ValueIn(old, m)
    BY <1>3 DEF ValueIn
  <2>3. shards' = [shards EXCEPT ![s] = list]
    BY <1>1 DEF list
  <2> QED
    BY <1>3, <2>1, <2>2, <2>3 DEF HasList
<1>5. ks \in SUBSET Keys /\ v \in Values \cup {Missing} /\ Change(ks, v, Nil) /\ SweepTypes
  BY DEF Put, IInv
<1>6. OthersStay(Nil) /\ Nil \notin Sweepers
  BY <1>5, SweepersAssumption DEF Put, sweepVars, SweepTypes, OthersStay
<1> HIDE DEF s, ks
<1>7. HasChanged(ks, v, Nil)
  BY <1>5, ChangeIs
<1> QED
  BY <1>2, <1>4, <1>5, <1>6, <1>7, ListChanges

\* remove
LEMMA EraseKeeps ==
  ASSUME IInv, NEW k \in Keys, Erase(k)
  PROVE  IInv'
<1> DEFINE s == hashKey[k]
           old == shards[s]
           list == Remove(old, k)
           ks == {k}
<1>1. shards' = [shards EXCEPT ![s] = list]
  BY Hashes DEF Erase, IInv, SweepTypes
<1>2. s \in Shards /\ IsSound(old) /\ (\A n \in Nodes(old) : hashKey[n] = s) /\ k \in Nat
  BY Hashes DEF IInv, IndexInv
<1>3. /\ IsSound(list) /\ Nodes(list) = Nodes(old) \ {k}
      /\ \A n \in Nodes(list) : list.value[n] = old.value[n]
  <2> HIDE DEF old
  <2> QED
    BY <1>2, RemoveIs
<1> HIDE DEF list
<1>4. HasList(s, list, ks, Missing)
  <2>1. \A n \in Nodes(list) : hashKey[n] = s
    BY <1>2, <1>3
  <2>2. \A m \in Keys : hashKey[m] = s => ValueIn(list, m) = IF m \in ks THEN Missing ELSE ValueIn(old, m)
    BY <1>3 DEF ValueIn
  <2> QED
    BY <1>1, <1>3, <2>1, <2>2 DEF HasList
<1>5. ks \in SUBSET Keys /\ Missing \in Values \cup {Missing} /\ Change(ks, Missing, Nil) /\ SweepTypes
  BY DEF Erase, IInv
<1>6. OthersStay(Nil) /\ Nil \notin Sweepers
  BY <1>5, SweepersAssumption DEF Erase, sweepVars, SweepTypes, OthersStay
<1> HIDE DEF s, ks
<1>7. HasChanged(ks, Missing, Nil)
  BY <1>5, ChangeIs
<1> QED
  BY <1>2, <1>4, <1>5, <1>6, <1>7, ListChanges

\* One turn of clear
LEMMA ClearShardKeeps ==
  ASSUME IInv, NEW t \in Sweepers, ClearShard(t)
  PROVE  IInv'
<1>1. PICK s \in Shards : s = next[t]
  BY DEF ClearShard
<1> DEFINE old == shards[s]
           list == Clear(old)
           ks == {k \in Keys : hashKey[k] = s}
<1>2. shards' = [shards EXCEPT ![s] = list] /\ IsSound(old)
  BY <1>1 DEF ClearShard, IInv, SweepTypes, IndexInv
<1>3. IsSound(list) /\ Nodes(list) = {}
  BY <1>2, ClearIs, EmptyIs
<1> HIDE DEF list
<1>4. HasList(s, list, ks, Missing)
  <2>1. \A k \in Keys : hashKey[k] = s => ValueIn(list, k) = IF k \in ks THEN Missing ELSE ValueIn(old, k)
    BY <1>3 DEF ValueIn
  <2>2. \A n \in Nodes(list) : hashKey[n] = s
    BY <1>3
  <2> QED
    BY <1>2, <1>3, <2>1, <2>2 DEF HasList
<1>5. /\ ks \in SUBSET Keys /\ Missing \in Values \cup {Missing} /\ Change(ks, Missing, t)
      /\ SweepTypes /\ SweeperInv(t)
  BY <1>1 DEF ClearShard, IInv, SweepInv
<1>6. sweep[t] = "clear" /\ sweep' = sweep /\ next' = [next EXCEPT ![t] = s + 1] /\ visited' = visited
  BY <1>1 DEF ClearShard
<1>7. s + 1 \in 0 .. kShardCount /\ s \in Nat
  BY Hashes DEF Shards
<1>8. OthersStay(t) /\ next'[t] = s + 1
  BY <1>5, <1>6, <1>7 DEF SweepTypes, OthersStay
<1>9. HasChanged(ks, Missing, t)
  <2> HIDE DEF ks
  <2> QED
    BY <1>5, ChangeIs
<1>10. SweeperInv(t)'
  <2>1. /\ \A k \in Keys : map'[k] = IF hashKey[k] = s THEN Missing ELSE map[k]
        /\ touched'[t] = touched[t]
    BY <1>9 DEF HasChanged
  <2>2. ASSUME NEW k \in Keys, Settled(t, k)'
        PROVE  map'[k] = Missing
    <3>1. CASE hashKey[k] = s
      BY <2>1, <3>1
    <3>2. CASE hashKey[k] # s
      <4>1. Settled(t, k)
        BY <1>1, <1>7, <1>8, <2>1, <2>2, <3>2, Hashes DEF Settled
      <4> QED
        BY <1>5, <1>6, <2>1, <3>2, <4>1 DEF SweeperInv
    <3> QED
      BY <3>1, <3>2
  <2>3. sweep'[t] = "clear"
    BY <1>6
  <2> QED
    BY <2>2, <2>3 DEF SweeperInv
<1> HIDE DEF ks
<1> QED
  BY <1>4, <1>5, <1>8, <1>9, <1>10, ListChanges

\* One turn of forEach
LEMMA VisitShardKeeps ==
  ASSUME IInv, NEW t \in Sweepers, VisitShard(t)
  PROVE  IInv'
<1>1. PICK s \in Shards : s = next[t]
  BY DEF VisitShard
<1> DEFINE old == shards[s]
           seen == visited[t]
           new == ForEach(old)
<1>2. IsSound(old) /\ (\A n \in Nodes(old) : hashKey[n] = s) /\ Nodes(old) \subseteq Keys
  BY DEF IInv, IndexInv, IsSound, IsShaped
<1>3. /\ new \in Seq(Entries) /\ IsDistinct(new)
      /\ \A e : e \in Elements(new) <=> \E n \in Nodes(old) : e = Entry(old, n)
  <2> HIDE DEF old
  <2> QED
    BY <1>2, ForEachIs
<1> HIDE DEF new
<1>4. /\ sweep[t] = "forEach" /\ UNCHANGED <<shards, sweep, touched, map>>
      /\ next' = [next EXCEPT ![t] = s + 1] /\ visited' = [visited EXCEPT ![t] = seen \o new]
  BY <1>1 DEF VisitShard, new
<1>5. SweepTypes /\ SweepInv /\ IndexInv /\ SweeperInv(t)
  BY DEF IInv, SweepInv
<1>6. s + 1 \in 0 .. kShardCount /\ s \in Nat
  BY Hashes DEF Shards
<1>7. seen \in Seq(Entries) /\ IsDistinct(seen) /\ \A e \in Elements(seen) : hashKey[e[1]] < s
  BY <1>1, <1>4, <1>5 DEF SweepTypes, SweeperInv, Entries
<1>8. \A e \in Elements(new) : hashKey[e[1]] = s
  BY <1>2, <1>3 DEF Entry
<1>9. \A a \in Elements(seen), b \in Elements(new) : a[1] # b[1]
  <2>1. ~(s < s)
    BY <1>6
  <2> QED
    BY <1>7, <1>8, <2>1
<1> DEFINE all == seen \o new
<1>10. all \in Seq(Entries) /\ IsDistinct(all) /\ Elements(all) = Elements(seen) \cup Elements(new)
  <2> HIDE DEF seen
  <2> QED
    BY <1>3, <1>7, <1>9, ConcatIs
<1> HIDE DEF all
<1>11. /\ next'[t] = s + 1 /\ visited'[t] = all
       /\ \A u \in Sweepers : u # t => sweep'[u] = sweep[u] /\ next'[u] = next[u] /\ visited'[u] = visited[u]
  BY <1>4, <1>5 DEF SweepTypes, all
<1>12. SweepTypes'
  BY <1>4, <1>5, <1>6, <1>10 DEF SweepTypes, Entries, all
<1>13. IndexInv'
  BY <1>4, <1>5 DEF IndexInv
<1>14. SweeperInv(t)'
  <2>1. ASSUME NEW k \in Keys, NEW v \in Values, Settled(t, k)'
        PROVE  map'[k] = v <=> <<k, v>> \in Elements(all)
    <3>1. k \notin touched[t] /\ (hashKey[k] = s \/ hashKey[k] < s) /\ ~(hashKey[k] = s /\ hashKey[k] < s)
      BY <1>4, <1>6, <1>11, <2>1, Hashes DEF Settled
    <3>2. map'[k] = map[k] /\ map[k] = ValueIn(shards[hashKey[k]], k)
      BY <1>4, <1>5 DEF IndexInv
    <3>3. CASE hashKey[k] = s
      <4>1. <<k, v>> \notin Elements(seen)
        BY <1>7, <3>1, <3>3
      <4>2. <<k, v>> \in Elements(new) <=> k \in Nodes(old) /\ old.value[k] = v
        BY <1>3 DEF Entry
      <4>3. ValueIn(old, k) = v <=> k \in Nodes(old) /\ old.value[k] = v
        BY ValuesAssumption DEF ValueIn
      <4> QED
        BY <1>10, <3>2, <3>3, <4>1, <4>2, <4>3
    <3>4. CASE hashKey[k] < s
      <4>1. <<k, v>> \notin Elements(new)
        BY <1>8, <3>1, <3>4
      <4>2. map[k] = v <=> <<k, v>> \in Elements(seen)
        BY <1>1, <1>4, <1>5, <3>1, <3>4 DEF SweeperInv, Settled
      <4> QED
        BY <1>10, <3>2, <4>1, <4>2
    <3> QED
      BY <3>1, <3>3, <3>4
  <2>2. ASSUME NEW e \in Elements(all)
        PROVE  hashKey[e[1]] < s + 1
    <3>1. CASE e \in Elements(seen)
      <4>1. e \in Entries
        BY <1>7, <3>1 DEF Elements
      <4>2. hashKey[e[1]] \in Nat
        BY <4>1, Hashes DEF Entries
      <4> QED
        BY <1>6, <1>7, <3>1, <4>2
    <3>2. CASE e \in Elements(new)
      BY <1>6, <1>8, <3>2
    <3> QED
      BY <1>10, <3>1, <3>2
  <2>3. sweep'[t] = "forEach"
    BY <1>4
  <2> QED
    BY <1>10, <1>11, <2>1, <2>2, <2>3 DEF SweeperInv
<1>15. ASSUME NEW u \in Sweepers
       PROVE  SweeperInv(u)'
  <2>1. CASE u # t
    <3>1. sweep[u] # "none" => \A k \in Keys : k \notin touched'[u] => k \notin touched[u] /\ map'[k] = map[k]
      BY <1>4
    <3> QED
      BY <1>5, <1>11, <2>1, <3>1, OthersSweep
  <2>2. CASE u = t
    BY <1>14, <2>2
  <2> QED
    BY <2>1, <2>2
<1>16. SweepInv'
  BY <1>15 DEF SweepInv
<1> QED
  BY <1>12, <1>13, <1>16 DEF IInv

\* A call of clear or forEach begins ...
LEMMA BeginKeeps ==
  ASSUME IInv, NEW t \in Sweepers, NEW what \in {"clear", "forEach"}, Begin(t, what)
  PROVE  IInv'
<1>1. SweepTypes /\ SweepInv /\ IndexInv
  BY DEF IInv
<1>2. /\ sweep[t] = "none" /\ sweep' = [sweep EXCEPT ![t] = what]
      /\ UNCHANGED <<shards, next, visited, touched, map>>
  BY DEF Begin
<1>3. SweepTypes' /\ IndexInv'
  BY <1>1, <1>2 DEF SweepTypes, IndexInv
<1>4. ASSUME NEW u \in Sweepers
      PROVE  SweeperInv(u)'
  <2>1. CASE u # t
    <3>1. sweep'[u] = sweep[u]
      BY <1>1, <1>2, <2>1 DEF SweepTypes
    <3> QED
      BY <1>1, <1>2, <2>1, <3>1, OthersSweep
  <2>2. CASE u = t
    <3>1. next[t] = 0 /\ visited[t] = <<>> /\ sweep'[t] = what
      BY <1>1, <1>2 DEF SweepTypes, SweepInv, SweeperInv
    <3>2. \A k \in Keys : ~Settled(t, k)'
      BY <1>2, <3>1, Hashes DEF Settled
    <3>3. Elements(visited'[t]) = {} /\ IsDistinct(visited'[t])
      BY <1>2, <3>1 DEF Elements, IsDistinct
    <3> QED
      BY <2>2, <3>1, <3>2, <3>3 DEF SweeperInv
  <2> QED
    BY <2>1, <2>2
<1>5. SweepInv'
  BY <1>4 DEF SweepInv
<1> QED
  BY <1>3, <1>5 DEF IInv

\* ... and ends.
LEMMA EndKeeps ==
  ASSUME IInv, NEW t \in Sweepers, End(t)
  PROVE  IInv'
<1>1. SweepTypes /\ SweepInv /\ IndexInv
  BY DEF IInv
<1>2. SweepTypes' /\ IndexInv'
  BY <1>1, Hashes DEF SweepTypes, IndexInv, End
<1>3. ASSUME NEW u \in Sweepers
      PROVE  SweeperInv(u)'
  <2>1. CASE u # t
    <3>1. /\ sweep'[u] = sweep[u] /\ next'[u] = next[u] /\ visited'[u] = visited[u]
          /\ \A k \in Keys : k \notin touched'[u] => k \notin touched[u] /\ map'[k] = map[k]
      BY <1>1, <2>1 DEF SweepTypes, End
    <3> QED
      BY <1>1, <2>1, <3>1, OthersSweep
  <2>2. CASE u = t
    BY <1>1, <2>2 DEF SweepTypes, End, SweeperInv
  <2> QED
    BY <2>1, <2>2
<1>4. SweepInv'
  BY <1>3 DEF SweepInv
<1> QED
  BY <1>2, <1>4 DEF IInv

\* Every step
LEMMA NextHolds == IInv /\ [Next]_vars => IInv'
<1> SUFFICES ASSUME IInv, [Next]_vars
             PROVE  IInv'
  OBVIOUS
<1>1. CASE Next
  <2>1. ASSUME NEW k \in Keys, Erase(k)
        PROVE  IInv'
    BY <2>1, EraseKeeps
  <2>2. ASSUME NEW k \in Keys, NEW v \in Values, Put(k, v)
        PROVE  IInv'
    BY <2>2, PutKeeps
  <2>3. ASSUME NEW t \in Sweepers, Begin(t, "clear") \/ Begin(t, "forEach")
        PROVE  IInv'
    BY <2>3, BeginKeeps
  <2>4. ASSUME NEW t \in Sweepers, ClearShard(t)
        PROVE  IInv'
    BY <2>4, ClearShardKeeps
  <2>5. ASSUME NEW t \in Sweepers, VisitShard(t)
        PROVE  IInv'
    BY <2>5, VisitShardKeeps
  <2>6. ASSUME NEW t \in Sweepers, End(t)
        PROVE  IInv'
    BY <2>6, EndKeeps
  <2> QED
    BY <1>1, <2>1, <2>2, <2>3, <2>4, <2>5, <2>6 DEF Next
<1>2. CASE UNCHANGED vars
  <2>1. UNCHANGED <<shards, sweep, next, visited, touched, map>>
    BY <1>2 DEF vars, sweepVars
  <2> QED
    BY <2>1 DEF IInv, SweepTypes, IndexInv, SweepInv, SweeperInv, Settled
<1> QED
  BY <1>1, <1>2

\* Every behaviour
LEMMA Holds == Spec => []IInv
<1> QED
  BY InitHolds, NextHolds, PTL DEF Spec

-----------------------------------------------------------------------------

\* get finds what the map has for the key.
LEMMA LookupIs ==
  ASSUME IndexInv, NEW k \in Keys
  PROVE  Lookup(k) = map[k]
<1> DEFINE list == shards[hashKey[k]]
<1>1. IsSound(list) /\ k \in Nat /\ map[k] = ValueIn(list, k)
  BY Hashes DEF IndexInv
<1>2. Get(list, k) = ValueIn(list, k)
  <2> HIDE DEF list
  <2> QED
    BY <1>1, GetIs DEF ValueIn
<1> QED
  BY <1>1, <1>2 DEF Lookup

\* What the runs check follows from the invariant.
LEMMA IInvImplies ==
  ASSUME IInv
  PROVE  TypeOK /\ LevelsAreSortedLists /\ ActsAsMap /\ ClearForgets /\ ForEachReports
<1>1. TypeOK
  BY SoundIsList DEF IInv, SweepTypes, IndexInv, TypeOK
<1>2. LevelsAreSortedLists
  BY SoundIsSorted DEF IInv, IndexInv, LevelsAreSortedLists
<1>3. \A k \in Keys : Lookup(k) = map[k]
  BY LookupIs DEF IInv
<1>4. ASSUME NEW t \in Sweepers, Done(t), NEW k \in Keys \ touched[t]
      PROVE  Settled(t, k)
  BY <1>4, Hashes DEF Done, Settled
<1>5. ClearForgets
  BY <1>3, <1>4 DEF ClearForgets, Completed, IInv, SweepInv, SweeperInv
<1>6. ForEachReports
  <2> SUFFICES ASSUME NEW t \in Sweepers, sweep[t] = "forEach", Done(t)
               PROVE  /\ \A k \in Keys \ touched[t], v \in Values : Lookup(k) = v <=> <<k, v>> \in Elements(visited[t])
                      /\ \A i, j \in DOMAIN visited[t] : visited[t][i][1] = visited[t][j][1] => i = j
    BY DEF ForEachReports, Completed, Elements
  <2>1. SweeperInv(t)
    BY DEF IInv, SweepInv
  <2>2. IsDistinct(visited[t])
    BY <2>1 DEF SweeperInv
  <2>3. \A k \in Keys \ touched[t], v \in Values : Lookup(k) = v <=> <<k, v>> \in Elements(visited[t])
    BY <1>3, <1>4, <2>1 DEF SweeperInv
  <2> QED
    BY <2>2, <2>3 DEF IsDistinct
<1> QED
  BY <1>1, <1>2, <1>3, <1>5, <1>6 DEF ActsAsMap

\* Every shard is a skip list whose pointers lead to keys, and the rest has its
\* type (skip_list.hpp:23-33).
THEOREM TypeCorrect == Spec => []TypeOK
<1>1. IInv => TypeOK
  BY IInvImplies
<1> QED
  BY <1>1, Holds, PTL

\* In every shard each level is the sorted list of exactly the live nodes that
\* are tall enough for it, after any sequence of insert, remove and clear
\* (skip_list.cpp:44-72, 80-100).
THEOREM SortedLists == Spec => []LevelsAreSortedLists
<1>1. IInv => LevelsAreSortedLists
  BY IInvImplies
<1> QED
  BY <1>1, Holds, PTL

\* get, on its way down the levels, finds what the last put, remove or clear has
\* left for the key (skip_list.cpp:40-121, index_manager.cpp:19-55).
THEOREM MapKept == Spec => []ActsAsMap
<1>1. IInv => ActsAsMap
  BY IInvImplies
<1> QED
  BY <1>1, Holds, PTL

\* When clear returns no key is left but those changed while it was at work,
\* although it holds the lock of one shard at a time (index_manager.cpp:50-55).
THEOREM Clears == Spec => []ClearForgets
<1>1. IInv => ClearForgets
  BY IInvImplies
<1> QED
  BY <1>1, Holds, PTL

\* When forEach returns it has reported every key that was not changed meanwhile
\* with its value, and none twice (index_manager.cpp:57-63,
\* skip_list.cpp:123-129).
THEOREM Reports == Spec => []ForEachReports
<1>1. IInv => ForEachReports
  BY IInvImplies
<1> QED
  BY <1>1, Holds, PTL
=============================================================================
