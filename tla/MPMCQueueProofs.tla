--------------------------- MODULE MPMCQueueProofs ---------------------------
(***************************************************************************)
(* Proofs about MPMCQueue, for any number of threads, any capacity of at   *)
(* least two, any width of `long' that exceeds the capacity, and any       *)
(* number of calls.                                                        *)
(***************************************************************************)
EXTENDS MPMCQueue, SequenceTheorems, TLAPS

-----------------------------------------------------------------------------
(* Positions and cells: arithmetic modulo the capacity.                    *)

LEMMA DivMod ==
  ASSUME NEW n \in Nat \ {0}, NEW a \in Int
  PROVE  /\ a \div n \in Int
         /\ a = n * (a \div n) + (a % n)
         /\ a % n \in 0 .. n - 1
  OBVIOUS

\* No multiple of n lies strictly between 0 and n.
LEMMA NoMultipleBetween ==
  ASSUME NEW n \in Nat \ {0}, NEW d \in Int, 0 < n * d, n * d < n
  PROVE  FALSE
<1>0. n * d \in Int
  OBVIOUS
<1>1. CASE d <= 0
  <2>1. n * d <= 0
    BY <1>1
  <2> QED
    BY <2>1, <1>0
<1>2. CASE d >= 1
  <2>1. n * d >= n
    BY <1>2
  <2> QED
    BY <2>1, <1>0
<1> QED
  BY <1>1, <1>2

\* Integers less than n apart have different residues.
LEMMA ModDistinct ==
  ASSUME NEW n \in Nat \ {0}, NEW a \in Int, NEW b \in Int, a < b, b - a < n
  PROVE  a % n # b % n
<1> SUFFICES ASSUME a % n = b % n
             PROVE  FALSE
  OBVIOUS
<1> DEFINE k == a \div n
           m == b \div n
<1>1. /\ k \in Int /\ a = n * k + (a % n)
      /\ m \in Int /\ b = n * m + (b % n)
      /\ a % n \in Int
  BY DivMod
<1> HIDE DEF k, m
<1>2. b - a = n * m - n * k
  BY <1>1
<1>3. b - a = n * (m - k)
  BY <1>1, <1>2
<1> QED
  BY <1>1, <1>3, NoMultipleBetween

\* A quotient and a residue in range determine each other.
LEMMA ModUnique ==
  ASSUME NEW n \in Nat \ {0}, NEW a \in Int, NEW k \in Int, NEW r \in 0 .. n - 1,
         a = n * k + r
  PROVE  a % n = r
<1> DEFINE m == a \div n
           w == a % n
           nm == n * m
           nk == n * k
<1>1. m \in Int /\ a = nm + w /\ w \in 0 .. n - 1
  BY DivMod
<1> HIDE DEF m, w
<1>2. n * (m - k) = nm - nk /\ n * (k - m) = nk - nm /\ nm \in Int /\ nk \in Int
  BY <1>1
<1>3. a = nk + r
  OBVIOUS
<1> HIDE DEF nm, nk
<1>4. nm - nk = r - w /\ nk - nm = w - r
  BY <1>1, <1>2, <1>3
<1>5. ~(0 < n * (m - k)) /\ ~(0 < n * (k - m))
  BY <1>1, <1>2, <1>4, NoMultipleBetween
<1>6. w = r
  BY <1>1, <1>2, <1>4, <1>5
<1> QED
  BY <1>6 DEF w

LEMMA SlotType ==
  ASSUME NEW p \in Int
  PROVE  SlotOf(p) \in Slots
<1>1. Capacity \in Nat \ {0}
  BY CapacityAssumption
<1>2. p % Capacity \in 0 .. Capacity - 1
  BY <1>1, DivMod
<1> QED
  BY <1>2 DEF SlotOf, Slots

\* Positions less than Capacity apart have cells of their own.
LEMMA SlotsDistinct ==
  ASSUME NEW p \in Int, NEW r \in Int, p # r, p - r < Capacity, r - p < Capacity
  PROVE  SlotOf(p) # SlotOf(r)
<1>1. CASE p < r
  BY <1>1, CapacityAssumption, ModDistinct DEF SlotOf
<1>2. CASE r < p
  BY <1>2, CapacityAssumption, ModDistinct DEF SlotOf
<1> QED
  BY <1>1, <1>2

\* A position uses the cell of the position one lap before it.
LEMMA SlotPeriodic ==
  ASSUME NEW p \in Int
  PROVE  SlotOf(p - Capacity) = SlotOf(p)
<1> DEFINE k == p \div Capacity
           r == p % Capacity
<1>1. k \in Int /\ p = Capacity * k + r /\ r \in 0 .. Capacity - 1
  BY CapacityAssumption, DivMod
<1> HIDE DEF k, r
<1>2. k - 1 \in Int /\ p - Capacity \in Int /\ p - Capacity = Capacity * (k - 1) + r
  BY <1>1, CapacityAssumption
<1>3. (p - Capacity) % Capacity = r
  BY <1>1, <1>2, ModUnique, CapacityAssumption
<1> QED
  BY <1>3 DEF SlotOf, r

\* Every cell is the cell of one of the last Capacity positions.
LEMMA SlotsCovered ==
  ASSUME NEW e \in Int, NEW s \in Slots
  PROVE  \E p \in e - Capacity .. e - 1 : SlotOf(p) = s
<1> DEFINE r == (e - 1 - s) % Capacity
           k == (e - 1 - s) \div Capacity
           p == e - 1 - r
<1>1. s \in 0 .. Capacity - 1
  BY DEF Slots
<1>2. k \in Int /\ e - 1 - s = Capacity * k + r /\ r \in 0 .. Capacity - 1
  BY <1>1, CapacityAssumption, DivMod
<1>3. p \in Int /\ p = Capacity * k + s /\ p \in e - Capacity .. e - 1
  BY <1>1, <1>2, CapacityAssumption
<1> HIDE DEF k, p
<1>4. p % Capacity = s
  BY <1>1, <1>2, <1>3, ModUnique, CapacityAssumption
<1> QED
  BY <1>3, <1>4 DEF SlotOf

\* Wrapping to the width of a long does not make numbers that are less than
\* LongMod apart look equal.
LEMMA LongDiffZero ==
  ASSUME NEW a \in Int, NEW b \in Int, a - b < LongMod, b - a < LongMod,
         LongDiff(a, b) = 0
  PROVE  a = b
<1> DEFINE d == (a - b) % LongMod
           k == (a - b) \div LongMod
<1>1. LongMod \in Nat \ {0}
  BY LongAssumption, CapacityAssumption
<1>2. k \in Int /\ a - b = LongMod * k + d /\ d \in 0 .. LongMod - 1
  BY <1>1, DivMod
<1>3. d = 0
  BY <1>1, <1>2 DEF LongDiff
<1> HIDE DEF d, k
<1>4. LongMod * k = a - b /\ LongMod * (0 - k) = b - a
  BY <1>1, <1>2, <1>3
<1>5. ~(0 < LongMod * k) /\ ~(0 < LongMod * (0 - k))
  BY <1>1, <1>2, <1>4, NoMultipleBetween
<1> QED
  BY <1>4, <1>5

-----------------------------------------------------------------------------
(* Type correctness.                                                       *)

LEMMA InitType == Init => TypeOK
  BY CapacityAssumption DEF Init, TypeOK, Threads, Slots

LEMMA NextType == TypeOK /\ [Next]_vars => TypeOK'
<1> SUFFICES ASSUME TypeOK, [Next]_vars
             PROVE  TypeOK'
  OBVIOUS
<1> USE DEF TypeOK, Threads, Goto, shared, EnqueueLabels, DequeueLabels
<1>1. ASSUME NEW p \in Producers, NEW i \in Items, EnqueueCall(p, i)
      PROVE  TypeOK'
  BY <1>1 DEF EnqueueCall
<1>2. ASSUME NEW p \in Producers, EnqueueStep(p)
      PROVE  TypeOK'
  <2>1. CASE EnqueueLoad(p)
    BY <2>1 DEF EnqueueLoad
  <2>2. CASE EnqueueLook(p)
    <3>1. UNCHANGED <<sequence, data, enqueue_pos, dequeue_pos, alive, pos, item>>
      BY <2>2 DEF EnqueueLook
    <3>2. \E x \in {"e_cas", "e_full", "e_load"} : pc' = [pc EXCEPT ![p] = x]
      BY <2>2 DEF EnqueueLook
    <3> QED
      BY <3>1, <3>2
  <2>3. CASE EnqueueClaim(p)
    BY <2>3 DEF EnqueueClaim
  <2>4. CASE EnqueueClaimFails(p)
    BY <2>4 DEF EnqueueClaimFails
  <2>5. CASE EnqueueRefused(p) \/ EnqueueNotFull(p)
    BY <2>5 DEF EnqueueRefused, EnqueueNotFull
  <2>6. CASE EnqueueConstruct(p)
    BY <2>6 DEF EnqueueConstruct
  <2>7. CASE EnqueuePublish(p)
    <3>1. pos[p] + 1 \in Nat
      OBVIOUS
    <3>2. sequence' \in [Slots -> Nat]
      BY <2>7, <3>1 DEF EnqueuePublish
    <3> QED
      BY <2>7, <3>2 DEF EnqueuePublish
  <2> QED
    BY <1>2, <2>1, <2>2, <2>3, <2>4, <2>5, <2>6, <2>7 DEF EnqueueStep
<1>3. ASSUME NEW c \in Consumers, DequeueCall(c)
      PROVE  TypeOK'
  BY <1>3 DEF DequeueCall
<1>4. ASSUME NEW c \in Consumers, DequeueStep(c)
      PROVE  TypeOK'
  <2>1. CASE DequeueLoad(c)
    BY <2>1 DEF DequeueLoad
  <2>2. CASE DequeueLook(c)
    <3>1. UNCHANGED <<sequence, data, enqueue_pos, dequeue_pos, alive, pos, item>>
      BY <2>2 DEF DequeueLook
    <3>2. \E x \in {"d_cas", "d_empty", "d_load"} : pc' = [pc EXCEPT ![c] = x]
      BY <2>2 DEF DequeueLook
    <3> QED
      BY <3>1, <3>2
  <2>3. CASE DequeueClaim(c)
    BY <2>3 DEF DequeueClaim
  <2>4. CASE DequeueClaimFails(c)
    BY <2>4 DEF DequeueClaimFails
  <2>5. CASE DequeueFoundEmpty(c) \/ DequeueNotEmpty(c)
    BY <2>5 DEF DequeueFoundEmpty, DequeueNotEmpty
  <2>6. CASE DequeueMove(c)
    <3>1. SlotOf(pos[c]) \in Slots
      BY SlotType
    <3> QED
      BY <2>6, <3>1 DEF DequeueMove
  <2>7. CASE DequeueRelease(c)
    <3>1. pos[c] + Capacity \in Nat
      BY CapacityAssumption
    <3>2. sequence' \in [Slots -> Nat]
      BY <2>7, <3>1 DEF DequeueRelease
    <3> QED
      BY <2>7, <3>2 DEF DequeueRelease
  <2> QED
    BY <1>4, <2>1, <2>2, <2>3, <2>4, <2>5, <2>6, <2>7 DEF DequeueStep
<1>5. CASE Destroy
  BY <1>5 DEF Destroy
<1>6. CASE UNCHANGED vars
  BY <1>6 DEF vars
<1> QED
  BY <1>1, <1>2, <1>3, <1>4, <1>5, <1>6 DEF Next

\* The variables keep their types: positions and sequence numbers never
\* become negative, and a cell holds an item or raw storage.
THEOREM TypeCorrect == Spec => []TypeOK
  BY InitType, NextType, PTL DEF Spec

-----------------------------------------------------------------------------
(* The inductive invariant.                                                *)

LEMMA InitIInv == Init => IInv
<1> SUFFICES ASSUME Init
             PROVE  IInv
  OBVIOUS
<1>1. TypeOK
  BY InitType
<1>2. Writing = {} /\ Reading = {} /\ Owners = {}
  BY DEF Init, Writing, Reading, Owners, Threads
<1>3. CellsInv
  <2> SUFFICES ASSUME NEW p \in 0 - Capacity .. 0 - 1
               PROVE  Free(p)
    BY CapacityAssumption DEF CellsInv, Init
  <2>1. p + Capacity \in Slots
    BY CapacityAssumption DEF Slots
  <2>2. p = Capacity * (0 - 1) + (p + Capacity)
    BY CapacityAssumption
  <2>3. p % Capacity = p + Capacity
    BY <2>1, <2>2, ModUnique, CapacityAssumption DEF Slots
  <2> QED
    BY <1>2, <2>1, <2>3 DEF Free, TakenBy, SlotOf, Init
<1>4. PositionsInv /\ LookedInv /\ CallsInv /\ DestroyLeavesNoObject
  BY CapacityAssumption DEF Init, PositionsInv, LookedInv, CallsInv,
                            DestroyLeavesNoObject, Threads
<1>5. OwnersInv /\ LifetimeRespected
  BY <1>2 DEF OwnersInv, LifetimeRespected
<1> QED
  BY <1>1, <1>3, <1>4, <1>5 DEF IInv

\* Steps of a producer that neither claim nor release a cell.
LEMMA ProducerLocal ==
  ASSUME IInv, TypeOK', alive, UNCHANGED shared,
         NEW p \in Producers,
         NEW x \in {"idle", "e_load", "e_seq", "e_cas", "e_full"},
         p \notin Writing,
         pc' = [pc EXCEPT ![p] = x],
         pos' = pos \/ pos' = [pos EXCEPT ![p] = enqueue_pos],
         item' = item \/ \E i \in Items : item' = [item EXCEPT ![p] = i],
         x # "idle" => item'[p] \in Items,
         x = "e_cas" /\ pos'[p] = enqueue_pos
           => sequence[SlotOf(pos'[p])] = pos'[p]
  PROVE  IInv'
<1> USE DEF IInv, TypeOK, Threads, shared
<1>1. /\ Writing' = Writing
      /\ Reading' = Reading
      /\ Owners' = Owners
      /\ \A t \in Owners : pos'[t] = pos[t] /\ pc'[t] = pc[t] /\ item'[t] = item[t]
  BY ThreadsAssumption DEF Writing, Reading, Owners
<1>2. PositionsInv'
  <2>1. \A r \in Consumers : pos'[r] = pos[r]
    BY ThreadsAssumption
  <2>2. \A r \in Producers : pos'[r] = pos[r] \/ pos'[r] = enqueue_pos
    OBVIOUS
  <2> QED
    BY <2>1, <2>2 DEF PositionsInv
<1>3. CellsInv'
  <2>1. \A r : TakenBy(Writing, r)' <=> TakenBy(Writing, r)
    BY <1>1 DEF TakenBy, Owners
  <2>2. \A r : TakenBy(Reading, r)' <=> TakenBy(Reading, r)
    BY <1>1 DEF TakenBy, Owners
  <2> QED
    BY <2>1, <2>2 DEF CellsInv, Claimed, Published, BeingTaken, Free
<1>4. OwnersInv'
  BY <1>1 DEF OwnersInv, Owners
<1>5. LookedInv'
  BY ThreadsAssumption DEF LookedInv
<1>6. CallsInv'
  BY DEF CallsInv
<1>7. LifetimeRespected'
  BY <1>1 DEF LifetimeRespected, Owners
<1>8. DestroyLeavesNoObject'
  BY DEF DestroyLeavesNoObject
<1> QED
  BY <1>2, <1>3, <1>4, <1>5, <1>6, <1>7, <1>8

\* Steps of a consumer that neither claim nor release a cell.
LEMMA ConsumerLocal ==
  ASSUME IInv, TypeOK', alive, UNCHANGED shared,
         NEW c \in Consumers,
         NEW x \in {"idle", "d_load", "d_seq", "d_cas", "d_empty"},
         c \notin Reading,
         pc' = [pc EXCEPT ![c] = x],
         pos' = pos \/ pos' = [pos EXCEPT ![c] = dequeue_pos],
         item' = item \/ item' = [item EXCEPT ![c] = NoItem],
         x = "d_cas" /\ pos'[c] = dequeue_pos
           => sequence[SlotOf(pos'[c])] = pos'[c] + 1
  PROVE  IInv'
<1> USE DEF IInv, TypeOK, Threads, shared
<1>1. /\ Writing' = Writing
      /\ Reading' = Reading
      /\ Owners' = Owners
      /\ \A t \in Owners : pos'[t] = pos[t] /\ pc'[t] = pc[t] /\ item'[t] = item[t]
  BY ThreadsAssumption DEF Writing, Reading, Owners
<1>2. PositionsInv'
  <2>1. \A r \in Producers : pos'[r] = pos[r]
    BY ThreadsAssumption
  <2>2. \A r \in Consumers : pos'[r] = pos[r] \/ pos'[r] = dequeue_pos
    OBVIOUS
  <2> QED
    BY <2>1, <2>2 DEF PositionsInv
<1>3. CellsInv'
  <2>1. \A r : TakenBy(Writing, r)' <=> TakenBy(Writing, r)
    BY <1>1 DEF TakenBy, Owners
  <2>2. \A r : TakenBy(Reading, r)' <=> TakenBy(Reading, r)
    BY <1>1 DEF TakenBy, Owners
  <2> QED
    BY <2>1, <2>2 DEF CellsInv, Claimed, Published, BeingTaken, Free
<1>4. OwnersInv'
  BY <1>1 DEF OwnersInv, Owners
<1>5. LookedInv'
  BY ThreadsAssumption DEF LookedInv
<1>6. CallsInv'
  BY ThreadsAssumption DEF CallsInv
<1>7. LifetimeRespected'
  BY <1>1 DEF LifetimeRespected, Owners
<1>8. DestroyLeavesNoObject'
  BY DEF DestroyLeavesNoObject
<1> QED
  BY <1>2, <1>3, <1>4, <1>5, <1>6, <1>7, <1>8

\* The cell at enqueue_pos is that of the position one lap before it.
LEMMA CellAtTail ==
  ASSUME IInv, Capacity >= 2, sequence[SlotOf(enqueue_pos)] = enqueue_pos
  PROVE  /\ enqueue_pos - Capacity < dequeue_pos
         /\ Free(enqueue_pos - Capacity)
<1> DEFINE p == enqueue_pos - Capacity
<1>1. /\ p \in Int
      /\ p \in enqueue_pos - Capacity .. enqueue_pos - 1
      /\ enqueue_pos \in Nat /\ dequeue_pos \in Nat /\ Capacity \in Nat
  BY CapacityAssumption DEF IInv, TypeOK
<1>2. SlotOf(p) = SlotOf(enqueue_pos)
  BY <1>1, SlotPeriodic
<1>3. sequence[SlotOf(p)] = p + Capacity
  BY <1>1, <1>2
<1> HIDE DEF p
<1>4. IF dequeue_pos <= p THEN Claimed(p) \/ Published(p)
                          ELSE BeingTaken(p) \/ Free(p)
  BY <1>1 DEF IInv, CellsInv
<1>5. ~Claimed(p) /\ ~Published(p) /\ ~BeingTaken(p)
  BY <1>1, <1>3 DEF Claimed, Published, BeingTaken
<1> QED
  BY <1>1, <1>4, <1>5 DEF p

\* A published item waits at dequeue_pos when the cell there says so.
LEMMA CellAtHead ==
  ASSUME IInv, Capacity >= 2, sequence[SlotOf(dequeue_pos)] = dequeue_pos + 1
  PROVE  /\ dequeue_pos < enqueue_pos
         /\ Published(dequeue_pos)
<1>1. /\ enqueue_pos \in Nat /\ dequeue_pos \in Nat /\ Capacity \in Nat
      /\ dequeue_pos <= enqueue_pos /\ enqueue_pos <= dequeue_pos + Capacity
  BY CapacityAssumption DEF IInv, TypeOK, PositionsInv
<1>2. CASE dequeue_pos = enqueue_pos
  <2> DEFINE p == enqueue_pos - Capacity
  <2>1. /\ p \in Int /\ p < dequeue_pos
        /\ p \in enqueue_pos - Capacity .. enqueue_pos - 1
    BY <1>1, <1>2
  <2>2. SlotOf(p) = SlotOf(enqueue_pos)
    BY <1>1, SlotPeriodic
  <2>3. sequence[SlotOf(p)] = p + Capacity + 1
    BY <1>1, <1>2, <2>2
  <2> HIDE DEF p
  <2>4. BeingTaken(p) \/ Free(p)
    BY <1>1, <2>1 DEF IInv, CellsInv
  <2> QED
    BY <1>1, <2>1, <2>3, <2>4 DEF BeingTaken, Free
<1>3. CASE dequeue_pos < enqueue_pos
  <2>1. dequeue_pos \in enqueue_pos - Capacity .. enqueue_pos - 1
    BY <1>1, <1>3
  <2>2. Claimed(dequeue_pos) \/ Published(dequeue_pos)
    BY <1>1, <2>1 DEF IInv, CellsInv
  <2> QED
    BY <1>1, <1>3, <2>2 DEF Claimed
<1> QED
  BY <1>1, <1>2, <1>3

LEMMA EnqueueClaimKeeps ==
  ASSUME IInv, Capacity >= 2, TypeOK', NEW p \in Producers, EnqueueClaim(p)
  PROVE  IInv'
<1> USE DEF IInv, TypeOK, Threads
<1>0. /\ enqueue_pos \in Nat /\ dequeue_pos \in Nat /\ Capacity \in Nat
      /\ pos[p] = enqueue_pos /\ enqueue_pos' = enqueue_pos + 1
      /\ UNCHANGED <<sequence, data, dequeue_pos, pos, item, alive>>
      /\ pc[p] = "e_cas" /\ pc' = [pc EXCEPT ![p] = "e_construct"]
  BY CapacityAssumption DEF EnqueueClaim, Goto
<1>1. sequence[SlotOf(enqueue_pos)] = enqueue_pos
  BY <1>0 DEF LookedInv
<1>2. enqueue_pos - Capacity < dequeue_pos /\ Free(enqueue_pos - Capacity)
  BY <1>1, CellAtTail
<1>3. Writing' = Writing \cup {p} /\ Reading' = Reading /\ p \notin Writing
  BY <1>0, ThreadsAssumption DEF Writing, Reading
<1>4. PositionsInv'
  BY <1>0, <1>2 DEF PositionsInv
<1>5. CellsInv'
  <2> SUFFICES ASSUME NEW r \in enqueue_pos + 1 - Capacity .. enqueue_pos
               PROVE  IF dequeue_pos <= r THEN Claimed(r)' \/ Published(r)'
                                          ELSE BeingTaken(r)' \/ Free(r)'
    BY <1>0 DEF CellsInv
  <2>1. CASE r = enqueue_pos
    <3>1. TakenBy(Writing, r)'
      BY <1>0, <1>3, <2>1 DEF TakenBy
    <3> QED
      BY <1>0, <1>1, <2>1, <3>1 DEF Claimed, PositionsInv
  <2>2. CASE r # enqueue_pos
    <3>1. r \in enqueue_pos - Capacity .. enqueue_pos - 1
      BY <1>0, <2>2
    <3>2. TakenBy(Writing, r)' <=> TakenBy(Writing, r)
      BY <1>0, <1>3, <2>2 DEF TakenBy
    <3>3. TakenBy(Reading, r)' <=> TakenBy(Reading, r)
      BY <1>0, <1>3 DEF TakenBy
    <3> QED
      BY <1>0, <3>1, <3>2, <3>3 DEF CellsInv, Claimed, Published, BeingTaken, Free
  <2> QED
    BY <2>1, <2>2
<1>6. OwnersInv'
  <2>1. \A t \in Writing : dequeue_pos <= pos[t] /\ pos[t] < enqueue_pos
    BY DEF OwnersInv
  <2>2. \A t \in Writing' : dequeue_pos <= pos[t] /\ pos[t] < enqueue_pos + 1
    BY <1>0, <1>3, <2>1 DEF PositionsInv, Writing
  <2>3. \A t, u \in Writing' : t # u => pos[t] # pos[u]
    BY <1>0, <1>3, <2>1 DEF OwnersInv, Writing
  <2>4. \A c \in Reading : pos[c] # enqueue_pos - Capacity
    BY <1>2 DEF Free, TakenBy
  <2>5. \A c \in Reading : enqueue_pos + 1 - Capacity <= pos[c] /\ pos[c] < dequeue_pos
    BY <1>0, <2>4 DEF OwnersInv, Reading
  <2>6. \A t, u \in Reading : t # u => pos[t] # pos[u]
    BY DEF OwnersInv
  <2> QED
    BY <1>0, <1>3, <2>2, <2>3, <2>5, <2>6 DEF OwnersInv
<1>7. LookedInv'
  <2>1. \A t \in Producers : pos[t] <= enqueue_pos /\ pos[t] \in Nat
    BY DEF PositionsInv
  <2>2. \A t \in Producers : pos'[t] # enqueue_pos'
    BY <1>0, <2>1
  <2> QED
    BY <1>0, <2>2, ThreadsAssumption DEF LookedInv
<1>8. CallsInv'
  BY <1>0 DEF CallsInv
<1>9. LifetimeRespected'
  <2>1. data[SlotOf(enqueue_pos)] = NoItem
    BY <1>0, <1>2, SlotPeriodic DEF Free
  <2>2. \A t \in Writing : pc'[t] = pc[t]
    BY <1>0, <1>3
  <2>3. \A t \in Reading : pc'[t] = pc[t]
    BY <1>0, ThreadsAssumption DEF Reading
  <2> QED
    BY <1>0, <1>3, <2>1, <2>2, <2>3 DEF LifetimeRespected
<1>10. DestroyLeavesNoObject'
  BY <1>0 DEF DestroyLeavesNoObject
<1> QED
  BY <1>4, <1>5, <1>6, <1>7, <1>8, <1>9, <1>10

LEMMA DequeueClaimKeeps ==
  ASSUME IInv, Capacity >= 2, TypeOK', NEW c \in Consumers, DequeueClaim(c)
  PROVE  IInv'
<1> USE DEF IInv, TypeOK, Threads
<1>0. /\ enqueue_pos \in Nat /\ dequeue_pos \in Nat /\ Capacity \in Nat
      /\ pos[c] = dequeue_pos /\ dequeue_pos' = dequeue_pos + 1
      /\ UNCHANGED <<sequence, data, enqueue_pos, pos, item, alive>>
      /\ pc[c] = "d_cas" /\ pc' = [pc EXCEPT ![c] = "d_move"]
      /\ alive
  BY CapacityAssumption DEF DequeueClaim, Goto, CallsInv
<1>1. sequence[SlotOf(dequeue_pos)] = dequeue_pos + 1
  BY <1>0 DEF LookedInv
<1>2. dequeue_pos < enqueue_pos /\ Published(dequeue_pos)
  BY <1>1, CellAtHead
<1>3. Reading' = Reading \cup {c} /\ Writing' = Writing /\ c \notin Reading
  BY <1>0, ThreadsAssumption DEF Writing, Reading
<1>4. PositionsInv'
  BY <1>0, <1>2 DEF PositionsInv
<1>5. CellsInv'
  <2> SUFFICES ASSUME NEW r \in enqueue_pos - Capacity .. enqueue_pos - 1
               PROVE  IF dequeue_pos + 1 <= r THEN Claimed(r)' \/ Published(r)'
                                              ELSE BeingTaken(r)' \/ Free(r)'
    BY <1>0 DEF CellsInv
  <2>1. CASE r = dequeue_pos
    <3>1. TakenBy(Reading, r)'
      BY <1>0, <1>3, <2>1 DEF TakenBy
    <3> QED
      BY <1>0, <1>1, <2>1, <3>1 DEF BeingTaken
  <2>2. CASE r # dequeue_pos
    <3>1. dequeue_pos + 1 <= r <=> dequeue_pos <= r
      BY <1>0, <2>2
    <3>2. TakenBy(Writing, r)' <=> TakenBy(Writing, r)
      BY <1>0, <1>3 DEF TakenBy
    <3>3. TakenBy(Reading, r)' <=> TakenBy(Reading, r)
      BY <1>0, <1>3, <2>2 DEF TakenBy
    <3> QED
      BY <1>0, <3>1, <3>2, <3>3 DEF CellsInv, Claimed, Published, BeingTaken, Free
  <2> QED
    BY <2>1, <2>2
<1>6. OwnersInv'
  <2>1. \A t \in Writing : pos[t] # dequeue_pos
    BY <1>2 DEF Published, TakenBy
  <2>2. \A t \in Writing : dequeue_pos + 1 <= pos[t] /\ pos[t] < enqueue_pos
    BY <1>0, <2>1 DEF OwnersInv, Writing
  <2>3. \A t \in Reading : enqueue_pos - Capacity <= pos[t] /\ pos[t] < dequeue_pos
    BY DEF OwnersInv
  <2>4. \A t \in Reading' : enqueue_pos - Capacity <= pos[t] /\ pos[t] < dequeue_pos + 1
    BY <1>0, <1>3, <2>3 DEF PositionsInv, Reading
  <2>5. \A t, u \in Reading' : t # u => pos[t] # pos[u]
    BY <1>0, <1>3, <2>3 DEF OwnersInv, Reading
  <2>6. \A t, u \in Writing : t # u => pos[t] # pos[u]
    BY DEF OwnersInv
  <2> QED
    BY <1>0, <1>3, <2>2, <2>4, <2>5, <2>6 DEF OwnersInv
<1>7. LookedInv'
  <2>1. \A t \in Consumers : pos[t] <= dequeue_pos /\ pos[t] \in Nat
    BY DEF PositionsInv
  <2>2. \A t \in Consumers : pos'[t] # dequeue_pos'
    BY <1>0, <2>1
  <2> QED
    BY <1>0, <2>2, ThreadsAssumption DEF LookedInv
<1>8. CallsInv'
  BY <1>0, ThreadsAssumption DEF CallsInv
<1>9. LifetimeRespected'
  <2>1. data[SlotOf(dequeue_pos)] \in Items
    BY <1>0, <1>2 DEF Published
  <2>2. \A t \in Writing : pc'[t] = pc[t]
    BY <1>0, ThreadsAssumption DEF Writing
  <2>3. \A t \in Reading : pc'[t] = pc[t]
    BY <1>0, <1>3
  <2> QED
    BY <1>0, <1>3, <2>1, <2>2, <2>3 DEF LifetimeRespected
<1>10. DestroyLeavesNoObject'
  BY <1>0 DEF DestroyLeavesNoObject
<1> QED
  BY <1>4, <1>5, <1>6, <1>7, <1>8, <1>9, <1>10

\* The threads inside the queue's unsynchronised windows have cells of
\* their own: their positions lie within one lap of each other.
LEMMA OwnersApart ==
  ASSUME IInv, NEW t \in Owners, NEW u \in Owners, t # u
  PROVE  SlotOf(pos[t]) # SlotOf(pos[u])
<1>1. /\ enqueue_pos \in Nat /\ dequeue_pos \in Nat /\ Capacity \in Nat
      /\ pos[t] \in Nat /\ pos[u] \in Nat
  BY CapacityAssumption DEF IInv, TypeOK, Owners, Writing, Reading, Threads
<1>2. /\ enqueue_pos - Capacity <= pos[t] /\ pos[t] < enqueue_pos
      /\ enqueue_pos - Capacity <= pos[u] /\ pos[u] < enqueue_pos
  BY <1>1 DEF IInv, PositionsInv, OwnersInv, Owners
<1>3. pos[t] # pos[u]
  BY <1>1 DEF IInv, OwnersInv, Owners
<1> QED
  BY <1>1, <1>2, <1>3, SlotsDistinct

\* A thread's cell is not that of another of the last Capacity positions.
LEMMA OwnerApart ==
  ASSUME IInv, NEW t \in Owners,
         NEW r \in enqueue_pos - Capacity .. enqueue_pos - 1, pos[t] # r
  PROVE  SlotOf(pos[t]) # SlotOf(r)
<1>1. /\ enqueue_pos \in Nat /\ dequeue_pos \in Nat /\ Capacity \in Nat
      /\ pos[t] \in Nat
  BY CapacityAssumption DEF IInv, TypeOK, Owners, Writing, Reading, Threads
<1>2. enqueue_pos - Capacity <= pos[t] /\ pos[t] < enqueue_pos
  BY <1>1 DEF IInv, PositionsInv, OwnersInv, Owners
<1> QED
  BY <1>1, <1>2, SlotsDistinct

\* What the cell of a writing or reading thread looks like.
LEMMA OwnedCell ==
  ASSUME IInv
  PROVE  /\ \A p \in Writing : Claimed(pos[p])
         /\ \A c \in Reading : BeingTaken(pos[c])
<1>1. enqueue_pos \in Nat /\ dequeue_pos \in Nat /\ Capacity \in Nat
  BY CapacityAssumption DEF IInv, TypeOK
<1>2. ASSUME NEW p \in Writing
      PROVE  Claimed(pos[p])
  <2>1. pos[p] \in Nat /\ dequeue_pos <= pos[p] /\ pos[p] < enqueue_pos
    BY DEF IInv, TypeOK, OwnersInv, Writing, Threads
  <2>2. pos[p] \in enqueue_pos - Capacity .. enqueue_pos - 1
    BY <1>1, <2>1 DEF IInv, PositionsInv
  <2>3. TakenBy(Writing, pos[p])
    BY DEF TakenBy
  <2> QED
    BY <2>1, <2>2, <2>3 DEF IInv, CellsInv, Published
<1>3. ASSUME NEW c \in Reading
      PROVE  BeingTaken(pos[c])
  <2>1. /\ pos[c] \in Nat /\ enqueue_pos - Capacity <= pos[c]
        /\ pos[c] < dequeue_pos /\ dequeue_pos <= enqueue_pos
    BY DEF IInv, TypeOK, OwnersInv, PositionsInv, Reading, Threads
  <2>2. pos[c] \in enqueue_pos - Capacity .. enqueue_pos - 1 /\ ~(dequeue_pos <= pos[c])
    BY <1>1, <2>1
  <2>3. TakenBy(Reading, pos[c])
    BY DEF TakenBy
  <2> QED
    BY <2>2, <2>3 DEF IInv, CellsInv, Free
<1> QED
  BY <1>2, <1>3

LEMMA EnqueueConstructKeeps ==
  ASSUME IInv, TypeOK', NEW p \in Producers, EnqueueConstruct(p)
  PROVE  IInv'
<1> USE DEF IInv, TypeOK, Threads
<1>0. /\ enqueue_pos \in Nat /\ Capacity \in Nat
      /\ UNCHANGED <<sequence, enqueue_pos, dequeue_pos, pos, item, alive>>
      /\ pc[p] = "e_construct" /\ pc' = [pc EXCEPT ![p] = "e_publish"]
      /\ data' = [data EXCEPT ![SlotOf(pos[p])] = item[p]]
  BY CapacityAssumption DEF EnqueueConstruct, Goto
<1>1. /\ Writing' = Writing /\ Reading' = Reading /\ Owners' = Owners
      /\ p \in Writing /\ p \in Owners
  BY <1>0, ThreadsAssumption DEF Writing, Reading, Owners
<1>2. Claimed(pos[p])
  BY <1>1, OwnedCell
<1>3. PositionsInv'
  BY <1>0 DEF PositionsInv
<1>4. CellsInv'
  <2> SUFFICES ASSUME NEW r \in enqueue_pos - Capacity .. enqueue_pos - 1
               PROVE  IF dequeue_pos <= r THEN Claimed(r)' \/ Published(r)'
                                          ELSE BeingTaken(r)' \/ Free(r)'
    BY <1>0 DEF CellsInv
  <2>1. /\ TakenBy(Writing, r)' <=> TakenBy(Writing, r)
        /\ TakenBy(Reading, r)' <=> TakenBy(Reading, r)
    BY <1>0, <1>1 DEF TakenBy
  <2>2. CASE r = pos[p]
    BY <1>0, <1>1, <1>2, <2>1, <2>2 DEF Claimed, OwnersInv
  <2>3. CASE r # pos[p]
    <3>1. SlotOf(pos[p]) # SlotOf(r)
      BY <1>1, <2>3, OwnerApart
    <3>2. data'[SlotOf(r)] = data[SlotOf(r)]
      BY <1>0, <3>1, SlotType
    <3> QED
      BY <1>0, <2>1, <3>2 DEF CellsInv, Claimed, Published, BeingTaken, Free
  <2> QED
    BY <2>2, <2>3
<1>5. OwnersInv'
  BY <1>0, <1>1 DEF OwnersInv
<1>6. LookedInv'
  BY <1>0, ThreadsAssumption DEF LookedInv
<1>7. CallsInv'
  BY <1>0 DEF CallsInv
<1>8. LifetimeRespected'
  <2>1. data'[SlotOf(pos[p])] = item[p]
    BY <1>0, SlotType
  <2>2. \A t \in Owners : t # p => SlotOf(pos[p]) # SlotOf(pos[t])
    BY <1>1, OwnersApart
  <2>3. \A t \in Owners : t # p => /\ data'[SlotOf(pos[t])] = data[SlotOf(pos[t])]
                                   /\ pc'[t] = pc[t]
    BY <1>0, <2>2, SlotType DEF Owners, Writing, Reading
  <2>4. \A t \in Reading : t # p
    BY ThreadsAssumption DEF Reading
  <2> QED
    BY <1>0, <1>1, <2>1, <2>3, <2>4 DEF LifetimeRespected, Owners
<1>9. DestroyLeavesNoObject'
  BY <1>0 DEF DestroyLeavesNoObject, CallsInv
<1> QED
  BY <1>3, <1>4, <1>5, <1>6, <1>7, <1>8, <1>9

LEMMA DequeueMoveKeeps ==
  ASSUME IInv, TypeOK', NEW c \in Consumers, DequeueMove(c)
  PROVE  IInv'
<1> USE DEF IInv, TypeOK, Threads
<1>0. /\ enqueue_pos \in Nat /\ Capacity \in Nat
      /\ UNCHANGED <<sequence, enqueue_pos, dequeue_pos, pos, alive>>
      /\ pc[c] = "d_move" /\ pc' = [pc EXCEPT ![c] = "d_release"]
      /\ data' = [data EXCEPT ![SlotOf(pos[c])] = NoItem]
      /\ \A t \in Producers : item'[t] = item[t]
  BY CapacityAssumption, ThreadsAssumption DEF DequeueMove, Goto
<1>1. /\ Writing' = Writing /\ Reading' = Reading /\ Owners' = Owners
      /\ c \in Reading /\ c \in Owners
  BY <1>0, ThreadsAssumption DEF Writing, Reading, Owners
<1>2. BeingTaken(pos[c])
  BY <1>1, OwnedCell
<1>3. PositionsInv'
  BY <1>0 DEF PositionsInv
<1>4. CellsInv'
  <2> SUFFICES ASSUME NEW r \in enqueue_pos - Capacity .. enqueue_pos - 1
               PROVE  IF dequeue_pos <= r THEN Claimed(r)' \/ Published(r)'
                                          ELSE BeingTaken(r)' \/ Free(r)'
    BY <1>0 DEF CellsInv
  <2>1. /\ TakenBy(Writing, r)' <=> TakenBy(Writing, r)
        /\ TakenBy(Reading, r)' <=> TakenBy(Reading, r)
    BY <1>0, <1>1 DEF TakenBy
  <2>2. CASE r = pos[c]
    <3>1. ~(dequeue_pos <= r)
      BY <1>1, <2>2 DEF OwnersInv, Reading
    <3> QED
      BY <1>0, <1>2, <2>1, <2>2, <3>1 DEF BeingTaken
  <2>3. CASE r # pos[c]
    <3>1. SlotOf(pos[c]) # SlotOf(r)
      BY <1>1, <2>3, OwnerApart
    <3>2. data'[SlotOf(r)] = data[SlotOf(r)]
      BY <1>0, <3>1, SlotType
    <3> QED
      BY <1>0, <2>1, <3>2 DEF CellsInv, Claimed, Published, BeingTaken, Free
  <2> QED
    BY <2>2, <2>3
<1>5. OwnersInv'
  BY <1>0, <1>1 DEF OwnersInv
<1>6. LookedInv'
  BY <1>0, ThreadsAssumption DEF LookedInv
<1>7. CallsInv'
  BY <1>0, ThreadsAssumption DEF CallsInv
<1>8. LifetimeRespected'
  <2>1. data'[SlotOf(pos[c])] = NoItem
    BY <1>0, SlotType
  <2>2. \A t \in Owners : t # c => SlotOf(pos[c]) # SlotOf(pos[t])
    BY <1>1, OwnersApart
  <2>3. \A t \in Owners : t # c => /\ data'[SlotOf(pos[t])] = data[SlotOf(pos[t])]
                                   /\ pc'[t] = pc[t]
    BY <1>0, <2>2, SlotType DEF Owners, Writing, Reading
  <2>4. \A t \in Writing : t # c /\ t \in Producers
    BY ThreadsAssumption DEF Writing
  <2> QED
    BY <1>0, <1>1, <2>1, <2>3, <2>4 DEF LifetimeRespected, Owners
<1>9. DestroyLeavesNoObject'
  BY <1>0 DEF DestroyLeavesNoObject, CallsInv
<1> QED
  BY <1>3, <1>4, <1>5, <1>6, <1>7, <1>8, <1>9

LEMMA EnqueuePublishKeeps ==
  ASSUME IInv, Capacity >= 2, TypeOK', NEW p \in Producers, EnqueuePublish(p)
  PROVE  IInv'
<1> USE DEF IInv, TypeOK, Threads
<1>0. /\ enqueue_pos \in Nat /\ dequeue_pos \in Nat /\ Capacity \in Nat
      /\ pos[p] \in Nat
      /\ UNCHANGED <<data, enqueue_pos, dequeue_pos, pos, item, alive>>
      /\ pc[p] = "e_publish" /\ pc' = [pc EXCEPT ![p] = "idle"]
      /\ sequence' = [sequence EXCEPT ![SlotOf(pos[p])] = pos[p] + 1]
  BY CapacityAssumption DEF EnqueuePublish, Goto
<1>1. /\ Writing' = Writing \ {p} /\ Reading' = Reading /\ Owners' = Owners \ {p}
      /\ p \in Writing /\ p \in Owners /\ p \notin Reading
  BY <1>0, ThreadsAssumption DEF Writing, Reading, Owners
<1>2. Claimed(pos[p]) /\ dequeue_pos <= pos[p] /\ pos[p] < enqueue_pos
  BY <1>1, OwnedCell DEF OwnersInv
<1>3. sequence'[SlotOf(pos[p])] = pos[p] + 1
  BY <1>0, SlotType
<1>4. PositionsInv'
  BY <1>0 DEF PositionsInv
<1>5. CellsInv'
  <2> SUFFICES ASSUME NEW r \in enqueue_pos - Capacity .. enqueue_pos - 1
               PROVE  IF dequeue_pos <= r THEN Claimed(r)' \/ Published(r)'
                                          ELSE BeingTaken(r)' \/ Free(r)'
    BY <1>0 DEF CellsInv
  <2>1. CASE r = pos[p]
    <3>1. ~TakenBy(Writing, r)'
      BY <1>0, <1>1, <2>1 DEF TakenBy, OwnersInv
    <3>2. data[SlotOf(r)] \in Items
      BY <1>0, <1>1, <2>1 DEF LifetimeRespected, CallsInv
    <3> QED
      BY <1>0, <1>2, <1>3, <2>1, <3>1, <3>2 DEF Published
  <2>2. CASE r # pos[p]
    <3>1. SlotOf(pos[p]) # SlotOf(r)
      BY <1>1, <2>2, OwnerApart
    <3>2. sequence'[SlotOf(r)] = sequence[SlotOf(r)]
      BY <1>0, <3>1, SlotType
    <3>3. /\ TakenBy(Writing, r)' <=> TakenBy(Writing, r)
          /\ TakenBy(Reading, r)' <=> TakenBy(Reading, r)
      BY <1>0, <1>1, <2>2 DEF TakenBy
    <3> QED
      BY <1>0, <3>2, <3>3 DEF CellsInv, Claimed, Published, BeingTaken, Free
  <2> QED
    BY <2>1, <2>2
<1>6. OwnersInv'
  BY <1>0, <1>1 DEF OwnersInv
<1>7. LookedInv'
  <2>1. ASSUME NEW t \in Producers, pc'[t] = "e_cas", pos[t] = enqueue_pos
        PROVE  sequence'[SlotOf(pos[t])] = pos[t]
    <3>1. sequence[SlotOf(pos[t])] = pos[t]
      BY <1>0, <2>1 DEF LookedInv
    <3>2. SlotOf(pos[t]) # SlotOf(pos[p])
      BY <1>0, <1>2, <2>1, <3>1 DEF Claimed
    <3> QED
      BY <1>0, <3>1, <3>2, SlotType
  <2>2. ASSUME NEW t \in Consumers, pc'[t] = "d_cas", pos[t] = dequeue_pos
        PROVE  sequence'[SlotOf(pos[t])] = pos[t] + 1
    <3>1. sequence[SlotOf(pos[t])] = pos[t] + 1
      BY <1>0, <2>2, ThreadsAssumption DEF LookedInv
    <3>2. SlotOf(pos[t]) # SlotOf(pos[p])
      <4>1. CASE pos[p] = pos[t]
        BY <1>0, <1>2, <3>1, <4>1 DEF Claimed
      <4>2. CASE pos[p] = pos[t] + 1
        <5>1. /\ pos[t] \in Int /\ pos[p] \in Int /\ pos[t] # pos[p]
              /\ pos[t] - pos[p] < Capacity /\ pos[p] - pos[t] < Capacity
          BY <1>0, <4>2
        <5> QED
          BY <5>1, SlotsDistinct
      <4>3. CASE pos[p] # pos[t] /\ pos[p] # pos[t] + 1
        BY <1>0, <1>2, <3>1, <4>3 DEF Claimed
      <4> QED
        BY <4>1, <4>2, <4>3
    <3> QED
      BY <1>0, <3>1, <3>2, SlotType
  <2> QED
    BY <1>0, <2>1, <2>2 DEF LookedInv
<1>8. CallsInv'
  BY <1>0 DEF CallsInv
<1>9. LifetimeRespected'
  BY <1>0, <1>1 DEF LifetimeRespected
<1>10. DestroyLeavesNoObject'
  BY <1>0 DEF DestroyLeavesNoObject
<1> QED
  BY <1>4, <1>5, <1>6, <1>7, <1>8, <1>9, <1>10

LEMMA DequeueReleaseKeeps ==
  ASSUME IInv, Capacity >= 2, TypeOK', NEW c \in Consumers, DequeueRelease(c)
  PROVE  IInv'
<1> USE DEF IInv, TypeOK, Threads
<1>0. /\ enqueue_pos \in Nat /\ dequeue_pos \in Nat /\ Capacity \in Nat
      /\ pos[c] \in Nat
      /\ UNCHANGED <<data, enqueue_pos, dequeue_pos, pos, item, alive>>
      /\ pc[c] = "d_release" /\ pc' = [pc EXCEPT ![c] = "idle"]
      /\ sequence' = [sequence EXCEPT ![SlotOf(pos[c])] = pos[c] + Capacity]
  BY CapacityAssumption DEF DequeueRelease, Goto
<1>1. /\ Reading' = Reading \ {c} /\ Writing' = Writing /\ Owners' = Owners \ {c}
      /\ c \in Reading /\ c \in Owners /\ c \notin Writing
  BY <1>0, ThreadsAssumption DEF Writing, Reading, Owners
<1>2. /\ BeingTaken(pos[c])
      /\ enqueue_pos - Capacity <= pos[c] /\ pos[c] < dequeue_pos
      /\ dequeue_pos <= enqueue_pos
  BY <1>1, OwnedCell DEF OwnersInv, PositionsInv
<1>3. sequence'[SlotOf(pos[c])] = pos[c] + Capacity
  BY <1>0, SlotType
<1>4. PositionsInv'
  BY <1>0 DEF PositionsInv
<1>5. CellsInv'
  <2> SUFFICES ASSUME NEW r \in enqueue_pos - Capacity .. enqueue_pos - 1
               PROVE  IF dequeue_pos <= r THEN Claimed(r)' \/ Published(r)'
                                          ELSE BeingTaken(r)' \/ Free(r)'
    BY <1>0 DEF CellsInv
  <2>1. CASE r = pos[c]
    <3>1. ~TakenBy(Reading, r)'
      BY <1>0, <1>1, <2>1 DEF TakenBy, OwnersInv
    <3>2. data[SlotOf(r)] = NoItem
      BY <1>0, <1>1, <2>1 DEF LifetimeRespected
    <3> QED
      BY <1>0, <1>2, <1>3, <2>1, <3>1, <3>2 DEF Free
  <2>2. CASE r # pos[c]
    <3>1. SlotOf(pos[c]) # SlotOf(r)
      BY <1>1, <2>2, OwnerApart
    <3>2. sequence'[SlotOf(r)] = sequence[SlotOf(r)]
      BY <1>0, <3>1, SlotType
    <3>3. /\ TakenBy(Writing, r)' <=> TakenBy(Writing, r)
          /\ TakenBy(Reading, r)' <=> TakenBy(Reading, r)
      BY <1>0, <1>1, <2>2 DEF TakenBy
    <3> QED
      BY <1>0, <3>2, <3>3 DEF CellsInv, Claimed, Published, BeingTaken, Free
  <2> QED
    BY <2>1, <2>2
<1>6. OwnersInv'
  BY <1>0, <1>1 DEF OwnersInv
<1>7. LookedInv'
  <2>1. ASSUME NEW t \in Producers, pc'[t] = "e_cas", pos[t] = enqueue_pos
        PROVE  sequence'[SlotOf(pos[t])] = pos[t]
    <3>1. sequence[SlotOf(pos[t])] = pos[t] /\ pos[t] \in Nat
      BY <1>0, <2>1, ThreadsAssumption DEF LookedInv
    <3>2. SlotOf(pos[t]) # SlotOf(pos[c])
      <4>1. CASE pos[t] = pos[c] + 1
        <5>1. /\ pos[t] \in Int /\ pos[c] \in Int /\ pos[t] # pos[c]
              /\ pos[t] - pos[c] < Capacity /\ pos[c] - pos[t] < Capacity
          BY <1>0, <4>1
        <5> QED
          BY <5>1, SlotsDistinct
      <4>2. CASE pos[t] # pos[c] + 1
        BY <1>2, <3>1, <4>2 DEF BeingTaken
      <4> QED
        BY <4>1, <4>2
    <3> QED
      BY <1>0, <3>1, <3>2, SlotType
  <2>2. ASSUME NEW t \in Consumers, pc'[t] = "d_cas", pos[t] = dequeue_pos
        PROVE  sequence'[SlotOf(pos[t])] = pos[t] + 1
    <3>1. sequence[SlotOf(pos[t])] = pos[t] + 1
      BY <1>0, <2>2 DEF LookedInv
    <3>2. SlotOf(pos[t]) # SlotOf(pos[c])
      BY <1>0, <1>2, <2>2, <3>1 DEF BeingTaken
    <3> QED
      BY <1>0, <3>1, <3>2, SlotType
  <2> QED
    BY <1>0, <2>1, <2>2 DEF LookedInv
<1>8. CallsInv'
  BY <1>0, ThreadsAssumption DEF CallsInv
<1>9. LifetimeRespected'
  BY <1>0, <1>1 DEF LifetimeRespected
<1>10. DestroyLeavesNoObject'
  BY <1>0 DEF DestroyLeavesNoObject
<1> QED
  BY <1>4, <1>5, <1>6, <1>7, <1>8, <1>9, <1>10

LEMMA DestroyKeeps ==
  ASSUME IInv, TypeOK', Destroy
  PROVE  IInv'
<1> USE DEF IInv, TypeOK, Threads
<1> DEFINE Destroyed == {SlotOf(h) : h \in {p \in dequeue_pos .. enqueue_pos - 1 :
                                               sequence[SlotOf(p)] = p + 1}}
<1>0. /\ enqueue_pos \in Nat /\ dequeue_pos \in Nat /\ Capacity \in Nat
      /\ UNCHANGED <<sequence, enqueue_pos, dequeue_pos, pc, pos, item>>
      /\ alive /\ alive' = FALSE /\ \A t \in Threads : pc[t] = "idle"
      /\ data' = [i \in Slots |-> IF i \in Destroyed THEN NoItem ELSE data[i]]
  BY CapacityAssumption DEF Destroy
<1>1. /\ Writing = {} /\ Reading = {} /\ Owners = {}
      /\ Writing' = {} /\ Reading' = {} /\ Owners' = {}
  BY <1>0 DEF Writing, Reading, Owners
<1>2. \A r \in Int : /\ ~Claimed(r) /\ ~BeingTaken(r)
                     /\ ~TakenBy(Writing, r)' /\ ~TakenBy(Reading, r)'
  BY <1>1 DEF Claimed, BeingTaken, TakenBy
<1>3. \A r \in enqueue_pos - Capacity .. enqueue_pos - 1 :
        data'[SlotOf(r)] = NoItem
  <2> SUFFICES ASSUME NEW r \in enqueue_pos - Capacity .. enqueue_pos - 1
               PROVE  data'[SlotOf(r)] = NoItem
    OBVIOUS
  <2>1. SlotOf(r) \in Slots
    BY SlotType
  <2>2. CASE dequeue_pos <= r
    <3>1. Published(r)
      BY <1>2, <2>2 DEF CellsInv
    <3>2. r \in dequeue_pos .. enqueue_pos - 1 /\ sequence[SlotOf(r)] = r + 1
      BY <1>0, <2>2, <3>1 DEF Published
    <3>3. SlotOf(r) \in Destroyed
      BY <3>2
    <3> QED
      BY <1>0, <2>1, <3>3
  <2>3. CASE ~(dequeue_pos <= r)
    <3>1. Free(r)
      BY <1>2, <2>3 DEF CellsInv
    <3> QED
      BY <1>0, <2>1, <3>1 DEF Free
  <2> QED
    BY <2>2, <2>3
<1>4. PositionsInv'
  BY <1>0 DEF PositionsInv
<1>5. CellsInv'
  <2> SUFFICES ASSUME NEW r \in enqueue_pos - Capacity .. enqueue_pos - 1
               PROVE  IF dequeue_pos <= r THEN Claimed(r)' \/ Published(r)'
                                          ELSE BeingTaken(r)' \/ Free(r)'
    BY <1>0 DEF CellsInv
  <2>1. ~TakenBy(Writing, r)' /\ ~TakenBy(Reading, r)' /\ data'[SlotOf(r)] = NoItem
    BY <1>2, <1>3
  <2>2. IF dequeue_pos <= r THEN Published(r) ELSE Free(r)
    BY <1>2 DEF CellsInv
  <2> QED
    BY <1>0, <2>1, <2>2 DEF Published, Free
<1>6. OwnersInv' /\ LifetimeRespected'
  BY <1>1 DEF OwnersInv, LifetimeRespected
<1>7. LookedInv' /\ CallsInv'
  BY <1>0 DEF LookedInv, CallsInv
<1>8. DestroyLeavesNoObject'
  <2> SUFFICES ASSUME NEW i \in Slots
               PROVE  data'[i] = NoItem
    BY DEF DestroyLeavesNoObject
  <2>1. PICK r \in enqueue_pos - Capacity .. enqueue_pos - 1 : SlotOf(r) = i
    BY <1>0, SlotsCovered
  <2> QED
    BY <1>3, <2>1
<1> QED
  BY <1>4, <1>5, <1>6, <1>7, <1>8

\* A producer whose diff is zero at the tail has found the tail's own lap:
\* the sequence number there is within one lap of it, so the 32-bit
\* difference has not wrapped.
LEMMA EnqueueLookSound ==
  ASSUME IInv, Capacity >= 2,
         LongDiff(sequence[SlotOf(enqueue_pos)], enqueue_pos) = 0
  PROVE  sequence[SlotOf(enqueue_pos)] = enqueue_pos
<1> DEFINE p == enqueue_pos - Capacity
<1>1. /\ p \in enqueue_pos - Capacity .. enqueue_pos - 1
      /\ p \in Int /\ enqueue_pos \in Nat /\ dequeue_pos \in Nat
      /\ Capacity \in Nat /\ LongMod \in Nat /\ Capacity < LongMod
      /\ enqueue_pos = p + Capacity
  BY CapacityAssumption, LongAssumption DEF IInv, TypeOK
<1>2. SlotOf(p) = SlotOf(enqueue_pos)
  BY <1>1, SlotPeriodic
<1> HIDE DEF p
<1>3. Claimed(p) \/ Published(p) \/ BeingTaken(p) \/ Free(p)
  BY <1>1 DEF IInv, CellsInv
<1>4. sequence[SlotOf(p)] \in {p, p + 1, p + Capacity}
  BY <1>1, <1>3 DEF Claimed, Published, BeingTaken, Free
<1> QED
  BY <1>1, <1>2, <1>4, LongDiffZero

LEMMA DequeueLookSound ==
  ASSUME IInv, Capacity >= 2,
         LongDiff(sequence[SlotOf(dequeue_pos)], dequeue_pos + 1) = 0
  PROVE  sequence[SlotOf(dequeue_pos)] = dequeue_pos + 1
<1>1. /\ enqueue_pos \in Nat /\ dequeue_pos \in Nat
      /\ dequeue_pos <= enqueue_pos /\ enqueue_pos <= dequeue_pos + Capacity
      /\ Capacity \in Nat /\ LongMod \in Nat /\ Capacity < LongMod
  BY CapacityAssumption, LongAssumption DEF IInv, TypeOK, PositionsInv
<1>2. CASE dequeue_pos < enqueue_pos
  <2>1. dequeue_pos \in enqueue_pos - Capacity .. enqueue_pos - 1
    BY <1>1, <1>2
  <2>2. sequence[SlotOf(dequeue_pos)] \in {dequeue_pos, dequeue_pos + 1}
    BY <1>1, <2>1 DEF IInv, CellsInv, Claimed, Published
  <2> QED
    BY <1>1, <2>2, LongDiffZero
<1>3. CASE dequeue_pos = enqueue_pos
  <2> DEFINE p == enqueue_pos - Capacity
  <2>1. /\ p \in enqueue_pos - Capacity .. enqueue_pos - 1
        /\ p \in Int /\ ~(dequeue_pos <= p) /\ dequeue_pos = p + Capacity
    BY <1>1, <1>3
  <2>2. SlotOf(p) = SlotOf(dequeue_pos)
    BY <1>1, <1>3, SlotPeriodic
  <2> HIDE DEF p
  <2>3. sequence[SlotOf(p)] \in {p + 1, p + Capacity}
    BY <2>1 DEF IInv, CellsInv, BeingTaken, Free
  <2> QED
    BY <1>1, <2>1, <2>2, <2>3, LongDiffZero
<1> QED
  BY <1>1, <1>2, <1>3

LEMMA NextIInv ==
  ASSUME Capacity >= 2, IInv, [Next]_vars
  PROVE  IInv'
<1>0. TypeOK'
  BY NextType DEF IInv
<1>1. ASSUME NEW p \in Producers, NEW i \in Items, EnqueueCall(p, i)
      PROVE  IInv'
  BY <1>0, <1>1, ProducerLocal DEF EnqueueCall, Goto, Writing, IInv, TypeOK, Threads
<1>2. ASSUME NEW p \in Producers, EnqueueStep(p)
      PROVE  IInv'
  <2>0. pc[p] # "idle" => alive /\ item[p] \in Items
    BY DEF IInv, CallsInv, Threads
  <2> USE <1>0, <2>0
  <2>1. CASE EnqueueLoad(p)
    BY <2>1, ProducerLocal DEF EnqueueLoad, Goto, Writing, IInv, TypeOK, Threads
  <2>2. CASE EnqueueLook(p)
    <3>1. /\ UNCHANGED shared /\ pos' = pos /\ item' = item
          /\ p \notin Writing /\ pc[p] # "idle"
      BY <2>2 DEF EnqueueLook, Goto, Writing
    <3>2. PICK x \in {"e_cas", "e_full", "e_load"} :
            /\ pc' = [pc EXCEPT ![p] = x]
            /\ x = "e_cas" => LongDiff(sequence[SlotOf(pos[p])], pos[p]) = 0
      BY <2>2 DEF EnqueueLook, Goto
    <3>3. x = "e_cas" /\ pos'[p] = enqueue_pos => sequence[SlotOf(pos'[p])] = pos'[p]
      BY <3>1, <3>2, EnqueueLookSound
    <3> QED
      BY <3>1, <3>2, <3>3, ProducerLocal
  <2>3. CASE EnqueueClaim(p)
    BY <2>3, EnqueueClaimKeeps
  <2>4. CASE EnqueueClaimFails(p)
    BY <2>4, ProducerLocal DEF EnqueueClaimFails, Goto, Writing, IInv, TypeOK, Threads
  <2>5. CASE EnqueueRefused(p)
    BY <2>5, ProducerLocal DEF EnqueueRefused, Goto, Writing
  <2>6. CASE EnqueueNotFull(p)
    BY <2>6, ProducerLocal DEF EnqueueNotFull, Goto, Writing
  <2>7. CASE EnqueueConstruct(p)
    BY <2>7, EnqueueConstructKeeps
  <2>8. CASE EnqueuePublish(p)
    BY <2>8, EnqueuePublishKeeps
  <2> QED
    BY <1>2, <2>1, <2>2, <2>3, <2>4, <2>5, <2>6, <2>7, <2>8 DEF EnqueueStep
<1>3. ASSUME NEW c \in Consumers, DequeueCall(c)
      PROVE  IInv'
  BY <1>0, <1>3, ConsumerLocal DEF DequeueCall, Goto, Reading
<1>4. ASSUME NEW c \in Consumers, DequeueStep(c)
      PROVE  IInv'
  <2>0. pc[c] # "idle" => alive
    BY DEF IInv, CallsInv, Threads
  <2> USE <1>0, <2>0
  <2>1. CASE DequeueLoad(c)
    BY <2>1, ConsumerLocal DEF DequeueLoad, Goto, Reading
  <2>2. CASE DequeueLook(c)
    <3>1. /\ UNCHANGED shared /\ pos' = pos /\ item' = item
          /\ c \notin Reading /\ pc[c] # "idle"
      BY <2>2 DEF DequeueLook, Goto, Reading
    <3>2. PICK x \in {"d_cas", "d_empty", "d_load"} :
            /\ pc' = [pc EXCEPT ![c] = x]
            /\ x = "d_cas" => LongDiff(sequence[SlotOf(pos[c])], pos[c] + 1) = 0
      BY <2>2 DEF DequeueLook, Goto
    <3>3. x = "d_cas" /\ pos'[c] = dequeue_pos => sequence[SlotOf(pos'[c])] = pos'[c] + 1
      BY <3>1, <3>2, DequeueLookSound
    <3> QED
      BY <3>1, <3>2, <3>3, ConsumerLocal
  <2>3. CASE DequeueClaim(c)
    BY <2>3, DequeueClaimKeeps
  <2>4. CASE DequeueClaimFails(c)
    BY <2>4, ConsumerLocal DEF DequeueClaimFails, Goto, Reading
  <2>5. CASE DequeueFoundEmpty(c)
    BY <2>5, ConsumerLocal DEF DequeueFoundEmpty, Goto, Reading
  <2>6. CASE DequeueNotEmpty(c)
    BY <2>6, ConsumerLocal DEF DequeueNotEmpty, Goto, Reading
  <2>7. CASE DequeueMove(c)
    BY <2>7, DequeueMoveKeeps
  <2>8. CASE DequeueRelease(c)
    BY <2>8, DequeueReleaseKeeps
  <2> QED
    BY <1>4, <2>1, <2>2, <2>3, <2>4, <2>5, <2>6, <2>7, <2>8 DEF DequeueStep
<1>5. CASE Destroy
  BY <1>0, <1>5, DestroyKeeps
<1>6. CASE UNCHANGED vars
  BY <1>0, <1>6 DEF vars, IInv, TypeOK, PositionsInv, CellsInv, OwnersInv, LookedInv,
                    CallsInv, LifetimeRespected, DestroyLeavesNoObject, Claimed,
                    Published, BeingTaken, Free, TakenBy, Writing, Reading, Owners
<1> QED
  BY <1>1, <1>2, <1>3, <1>4, <1>5, <1>6 DEF Next

\* With a capacity of at least two the inductive invariant always holds.
THEOREM Invariance ==
  ASSUME Capacity >= 2
  PROVE  Spec => []IInv
<1>1. IInv /\ [Next]_vars => IInv'
  BY NextIInv
<1> QED
  BY <1>1, InitIInv, PTL DEF Spec

\* No data race on a cell's storage: two threads that are between the claim
\* and the release of a cell have different cells.
THEOREM CellsAreExclusive ==
  ASSUME Capacity >= 2
  PROVE  Spec => []ExclusiveCell
<1>1. IInv => ExclusiveCell
  BY OwnersApart DEF ExclusiveCell
<1> QED
  BY <1>1, Invariance, PTL

\* Objects are constructed in raw storage only, and moved from and destroyed
\* only where they exist.
THEOREM LifetimesAreRespected ==
  ASSUME Capacity >= 2
  PROVE  Spec => []LifetimeRespected
<1>1. IInv => LifetimeRespected
  BY DEF IInv
<1> QED
  BY <1>1, Invariance, PTL

\* The destructor destroys every object that is still queued.
THEOREM NothingSurvivesDestroy ==
  ASSUME Capacity >= 2
  PROVE  Spec => []DestroyLeavesNoObject
<1>1. IInv => DestroyLeavesNoObject
  BY DEF IInv
<1> QED
  BY <1>1, Invariance, PTL

-----------------------------------------------------------------------------
(* The refinement of BoundedFifo.  Next to the inductive invariant it      *)
(* needs one fact of its own: what a single producer has loaded is still   *)
(* the tail.                                                               *)

\* Nobody else moves the tail between the load and the refusal.
SoleProducerInv ==
  ~SeveralProducers => \A p \in Producers : pc[p] \in {"e_seq", "e_cas", "e_full"}
                                              => pos[p] = enqueue_pos

LEMMA SoleProducerKeeps ==
  ASSUME TypeOK, SoleProducerInv, [Next]_vars
  PROVE  SoleProducerInv'
<1> SUFFICES ASSUME ~SeveralProducers, NEW p \in Producers,
                    pc'[p] \in {"e_seq", "e_cas", "e_full"}
             PROVE  pos'[p] = enqueue_pos'
  BY DEF SoleProducerInv, SeveralProducers
<1>1. \A r \in Producers : r = p
  BY DEF SeveralProducers
<1>2. pc[p] \in {"e_seq", "e_cas", "e_full"} => pos[p] = enqueue_pos
  BY DEF SoleProducerInv
<1> USE DEF TypeOK, Threads, Goto, shared
<1>3. ASSUME NEW c \in Consumers, DequeueStep(c) \/ DequeueCall(c)
      PROVE  pos'[p] = enqueue_pos'
  <2>1. /\ enqueue_pos' = enqueue_pos
        /\ \A t \in Threads : t # c => pos'[t] = pos[t] /\ pc'[t] = pc[t]
    BY <1>3 DEF DequeueStep, DequeueCall, DequeueLoad, DequeueLook, DequeueClaim,
                DequeueClaimFails, DequeueFoundEmpty, DequeueNotEmpty, DequeueMove,
                DequeueRelease
  <2> QED
    BY <1>2, <2>1, ThreadsAssumption
<1>4. ASSUME EnqueueStep(p) \/ \E i \in Items : EnqueueCall(p, i)
      PROVE  pos'[p] = enqueue_pos'
  BY <1>2, <1>4 DEF EnqueueStep, EnqueueCall, EnqueueLoad, EnqueueLook, EnqueueClaim,
                    EnqueueClaimFails, EnqueueRefused, EnqueueNotFull,
                    EnqueueConstruct, EnqueuePublish
<1>5. CASE Destroy \/ UNCHANGED vars
  BY <1>2, <1>5 DEF Destroy, vars
<1> QED
  BY <1>1, <1>3, <1>4, <1>5 DEF Next

LEMMA InitSoleProducer == Init => SoleProducerInv
  BY DEF Init, SoleProducerInv, Threads

-----------------------------------------------------------------------------
(* The abstract queue.                                                     *)

Waiting == dequeue_pos .. enqueue_pos - 1

\* The item at a claimed position is its producer's; at any other position it
\* is the one in the cell.
ItemsInv ==
  /\ \A p \in Writing : ItemAt(pos[p]) = item[p]
  /\ \A r \in Int : ~TakenBy(Writing, r) => ItemAt(r) = data[SlotOf(r)]
  /\ alive => \A r \in Waiting : ItemAt(r) \in Items

LEMMA ItemsFollow == IInv => ItemsInv
<1> SUFFICES ASSUME IInv
             PROVE  ItemsInv
  OBVIOUS
<1> USE DEF IInv, TypeOK
<1>0. enqueue_pos \in Nat /\ dequeue_pos \in Nat /\ Capacity \in Nat
  BY CapacityAssumption
<1>1. \A p \in Writing : ItemAt(pos[p]) = item[p] /\ TakenBy(Writing, pos[p])
  BY DEF OwnersInv, ItemAt, TakenBy
<1>2. \A r \in Int : ~TakenBy(Writing, r) => ItemAt(r) = data[SlotOf(r)]
  BY DEF ItemAt
<1>3. ASSUME alive, NEW r \in Waiting
      PROVE  ItemAt(r) \in Items
  <2>1. r \in enqueue_pos - Capacity .. enqueue_pos - 1 /\ dequeue_pos <= r
    BY <1>0 DEF Waiting, PositionsInv
  <2>2. CASE Claimed(r)
    <3>1. PICK p \in Writing : pos[p] = r
      BY <2>2 DEF Claimed, TakenBy
    <3>2. item[p] \in Items
      BY DEF CallsInv, Writing
    <3> QED
      BY <1>1, <3>1, <3>2
  <2>3. CASE Published(r)
    BY <1>2, <1>3, <2>1, <2>3 DEF Published
  <2> QED
    BY <2>1, <2>2, <2>3 DEF CellsInv
<1> QED
  BY <1>1, <1>2, <1>3 DEF ItemsInv

\* How a caller sees its call, by where the call is.
CallsShown ==
  \A t \in Threads :
    /\ pc[t] = "idle" => CallState[t] = "idle"
    /\ t \in Owners => CallState[t] = "done"
    /\ t \notin Owners /\ pc[t] # "idle" => CallState[t] = "pending"
    /\ ~(t \in Reading /\ pc[t] = "d_move") => Held[t] = item[t]
    /\ t \in Reading /\ pc[t] = "d_move" => Held[t] = data[SlotOf(pos[t])]

LEMMA CallsAreShown == TypeOK => CallsShown
  BY DEF CallsShown, CallState, Held, Owners, Writing, Reading

\* The queue as a sequence.
QueueInv ==
  alive => /\ Queued \in Seq(Items)
           /\ Len(Queued) = enqueue_pos - dequeue_pos
           /\ \A r \in Waiting : Queued[r - dequeue_pos + 1] = ItemAt(r)

LEMMA QueueIsSequence == IInv /\ ItemsInv => QueueInv
<1> SUFFICES ASSUME IInv, ItemsInv, alive
             PROVE  /\ Queued \in Seq(Items)
                    /\ Len(Queued) = enqueue_pos - dequeue_pos
                    /\ \A r \in Waiting : Queued[r - dequeue_pos + 1] = ItemAt(r)
  BY DEF QueueInv
<1> DEFINE n == enqueue_pos - dequeue_pos
<1>1. n \in Nat /\ enqueue_pos \in Nat /\ dequeue_pos \in Nat
  BY DEF IInv, TypeOK, PositionsInv
<1>2. ASSUME NEW k \in 1 .. n
      PROVE  ItemAt(dequeue_pos + k - 1) \in Items
  <2>1. dequeue_pos + k - 1 \in Waiting
    BY <1>1 DEF Waiting
  <2> QED
    BY <2>1 DEF ItemsInv
<1>3. Queued = [k \in 1 .. n |-> ItemAt(dequeue_pos + k - 1)]
  BY DEF Queued
<1>4. ASSUME NEW r \in Waiting
      PROVE  Queued[r - dequeue_pos + 1] = ItemAt(r)
  <2>1. r - dequeue_pos + 1 \in 1 .. n /\ dequeue_pos + (r - dequeue_pos + 1) - 1 = r
    BY <1>1 DEF Waiting
  <2>2. Queued[r - dequeue_pos + 1] = ItemAt(dequeue_pos + (r - dequeue_pos + 1) - 1)
    BY <1>3, <2>1
  <2> QED
    BY <2>1, <2>2
<1> HIDE DEF n
<1>5. Queued \in Seq(Items) /\ Len(Queued) = n
  BY <1>1, <1>2, <1>3
<1> QED
  BY <1>4, <1>5 DEF n

Reached == IInv /\ ItemsInv /\ QueueInv /\ SoleProducerInv /\ CallsShown

\* The queue stays when the positions and the items at them do.
LEMMA QueueStays ==
  ASSUME TypeOK, UNCHANGED <<enqueue_pos, dequeue_pos, alive>>,
         alive => \A r \in Waiting : ItemAt(r)' = ItemAt(r)
  PROVE  Queued' = Queued
<1> DEFINE n == enqueue_pos - dequeue_pos
<1>1. CASE alive
  <2>1. \A k \in 1 .. n : dequeue_pos + k - 1 \in Waiting
    BY DEF TypeOK, Waiting
  <2>2. \A k \in 1 .. n : ItemAt(dequeue_pos + k - 1)' = ItemAt(dequeue_pos + k - 1)
    BY <1>1, <2>1
  <2>3. Queued' = [k \in 1 .. n |-> ItemAt(dequeue_pos + k - 1)']
    BY <1>1 DEF Queued
  <2> QED
    BY <1>1, <2>2, <2>3 DEF Queued
<1>2. CASE ~alive
  BY <1>2 DEF Queued
<1> QED
  BY <1>1, <1>2

-----------------------------------------------------------------------------
(* What a step does to the callers.                                        *)

\* Only the thread that takes the step sees its call move.
LEMMA OthersStay ==
  ASSUME TypeOK, TypeOK', NEW t \in Threads,
         \A u \in Threads \ {t} : /\ pc'[u] = pc[u]
                                 /\ pos'[u] = pos[u]
                                 /\ item'[u] = item[u],
         \A u \in Reading \ {t} : pc[u] = "d_move"
                                   => data'[SlotOf(pos[u])] = data[SlotOf(pos[u])]
  PROVE  /\ CallState' = [CallState EXCEPT ![t] = CallState'[t]]
         /\ Held' = [Held EXCEPT ![t] = Held'[t]]
<1>1. ASSUME NEW u \in Threads \ {t}
      PROVE  CallState'[u] = CallState[u] /\ Held'[u] = Held[u]
  <2>1. /\ u \in Writing' <=> u \in Writing
        /\ u \in Reading' <=> u \in Reading
    BY DEF Writing, Reading
  <2>2. CallState'[u] = CallState[u]
    BY <2>1 DEF CallState, Owners
  <2>3. Held'[u] = Held[u]
    BY <2>1 DEF Held
  <2> QED
    BY <2>2, <2>3
<1>2. /\ CallState = [u \in Threads |-> CallState[u]]
      /\ CallState' = [u \in Threads |-> CallState'[u]]
  BY DEF CallState
<1>3. Held = [u \in Threads |-> Held[u]] /\ Held' = [u \in Threads |-> Held'[u]]
  BY DEF Held
<1> QED
  BY <1>1, <1>2, <1>3

\* A step that leaves the cells, the positions and the owners alone.
LEMMA LocalStep ==
  ASSUME Reached, Reached', NEW t \in Threads, UNCHANGED shared,
         t \notin Owners, t \notin Owners',
         \A u \in Threads \ {t} : /\ pc'[u] = pc[u]
                                 /\ pos'[u] = pos[u]
                                 /\ item'[u] = item[u]
  PROVE  /\ UNCHANGED <<Queued, alive>>
         /\ CallState' = [CallState EXCEPT ![t] = CallState'[t]]
         /\ Held' = [Held EXCEPT ![t] = Held'[t]]
         /\ pc[t] = "idle" <=> CallState[t] = "idle"
         /\ pc[t] # "idle" <=> CallState[t] = "pending"
         /\ pc'[t] = "idle" <=> CallState'[t] = "idle"
         /\ pc'[t] # "idle" <=> CallState'[t] = "pending"
         /\ Held[t] = item[t] /\ Held'[t] = item'[t]
<1> USE DEF shared
<1>0. TypeOK /\ TypeOK'
  BY DEF Reached, IInv
<1>1. /\ Writing' = Writing
      /\ \A p \in Writing : p # t /\ p \in Threads
  BY DEF Writing, Owners, Threads, Reading
<1>2. ASSUME NEW r \in Waiting
      PROVE  ItemAt(r)' = ItemAt(r)
  <2>0. r \in Int
    BY DEF Waiting
  <2>1. CASE TakenBy(Writing, r)
    <3>1. PICK p \in Writing : pos[p] = r
      BY <2>1 DEF TakenBy
    <3>2. pos'[p] = r /\ item'[p] = item[p]
      BY <1>1, <3>1
    <3>3. ItemAt(r) = item[p] /\ ItemAt(r)' = item'[p]
      BY <1>1, <3>1, <3>2 DEF Reached, ItemsInv
    <3> QED
      BY <3>2, <3>3
  <2>2. CASE ~TakenBy(Writing, r)
    <3>1. ~TakenBy(Writing, r)'
      BY <1>1, <2>2 DEF TakenBy
    <3> QED
      BY <2>0, <2>2, <3>1 DEF Reached, ItemsInv
  <2> QED
    BY <2>1, <2>2
<1>3. Queued' = Queued
  BY <1>0, <1>2, QueueStays
<1>4. /\ CallState' = [CallState EXCEPT ![t] = CallState'[t]]
      /\ Held' = [Held EXCEPT ![t] = Held'[t]]
  BY <1>0, OthersStay
<1>5. /\ pc[t] = "idle" => CallState[t] = "idle"
      /\ pc[t] # "idle" => CallState[t] = "pending"
      /\ pc'[t] = "idle" => CallState'[t] = "idle"
      /\ pc'[t] # "idle" => CallState'[t] = "pending"
      /\ Held[t] = item[t] /\ Held'[t] = item'[t]
  BY DEF Reached, CallsShown, Owners
<1> QED
  BY <1>3, <1>4, <1>5

\* A step inside a call, before it takes effect, changes nothing that the
\* callers see.
LEMMA LocalStutters ==
  ASSUME Reached, Reached', NEW t \in Threads, UNCHANGED shared,
         t \notin Owners, t \notin Owners', pc[t] # "idle", pc'[t] # "idle",
         \A u \in Threads \ {t} : pc'[u] = pc[u] /\ pos'[u] = pos[u],
         UNCHANGED item
  PROVE  UNCHANGED Fifo!vars
<1>1. /\ UNCHANGED <<Queued, alive>>
      /\ CallState' = [CallState EXCEPT ![t] = CallState'[t]]
      /\ Held' = [Held EXCEPT ![t] = Held'[t]]
      /\ CallState'[t] = CallState[t] /\ Held'[t] = Held[t]
  BY LocalStep
<1>2. /\ CallState = [u \in Threads |-> CallState[u]]
      /\ Held = [u \in Threads |-> Held[u]]
  BY DEF CallState, Held
<1>3. CallState' = CallState /\ Held' = Held
  BY <1>1, <1>2
<1> QED
  BY <1>1, <1>3 DEF Fifo!vars

LEMMA CallsBegin ==
  ASSUME Reached, Reached', NEW t \in Threads,
         \/ t \in Producers /\ \E i \in Items : EnqueueCall(t, i)
         \/ t \in Consumers /\ DequeueCall(t)
  PROVE  Fifo!Next
<1>1. /\ UNCHANGED shared /\ alive /\ TypeOK
      /\ pc[t] = "idle" /\ pc'[t] \in {"e_load", "d_load"}
      /\ \A u \in Threads \ {t} : /\ pc'[u] = pc[u]
                                 /\ pos'[u] = pos[u]
                                 /\ item'[u] = item[u]
  BY DEF EnqueueCall, DequeueCall, Goto, Reached, IInv, TypeOK
<1>2. t \notin Owners /\ t \notin Owners'
  BY <1>1 DEF Owners, Writing, Reading
<1>3. /\ UNCHANGED <<Queued, alive>>
      /\ CallState' = [CallState EXCEPT ![t] = CallState'[t]]
      /\ Held' = [Held EXCEPT ![t] = Held'[t]]
      /\ CallState[t] = "idle" /\ CallState'[t] = "pending" /\ Held'[t] = item'[t]
  BY <1>1, <1>2, LocalStep
<1>4. Fifo!Moves(t, "idle", "pending")
  BY <1>3 DEF Fifo!Moves
<1>5. ASSUME t \in Producers, NEW i \in Items, EnqueueCall(t, i)
      PROVE  Fifo!CallPut(t, i)
  <2>1. item'[t] = i
    BY <1>1, <1>5 DEF EnqueueCall, TypeOK
  <2> QED
    BY <1>1, <1>3, <1>4, <2>1 DEF Fifo!CallPut
<1>6. ASSUME t \in Consumers, DequeueCall(t)
      PROVE  Fifo!CallTake(t)
  <2>1. item'[t] = NoItem
    BY <1>1, <1>6 DEF DequeueCall, TypeOK
  <2> QED
    BY <1>1, <1>3, <1>4, <2>1 DEF Fifo!CallTake
<1> QED
  BY <1>5, <1>6 DEF Fifo!Next

\* enqueue returns false: with a single producer, at Capacity items.
LEMMA RefusalRefuses ==
  ASSUME Reached, Reached', NEW p \in Producers, EnqueueRefused(p)
  PROVE  Fifo!Refuse(p)
<1>1. /\ UNCHANGED <<shared, pos, item>> /\ TypeOK /\ p \in Threads
      /\ pc[p] = "e_full" /\ pc'[p] = "idle" /\ alive
      /\ \A u \in Threads \ {p} : pc'[u] = pc[u]
  BY DEF EnqueueRefused, Goto, Reached, IInv, TypeOK, Threads, CallsInv
<1>2. p \notin Owners /\ p \notin Owners'
  BY <1>1, ThreadsAssumption DEF Owners, Writing, Reading
<1>3. /\ UNCHANGED <<Queued, alive>>
      /\ CallState' = [CallState EXCEPT ![p] = CallState'[p]]
      /\ Held' = [Held EXCEPT ![p] = Held'[p]] /\ Held'[p] = Held[p]
      /\ CallState[p] = "pending" /\ CallState'[p] = "idle"
  BY <1>1, <1>2, LocalStep
<1>4. Fifo!Moves(p, "pending", "idle") /\ Held' = Held
  BY <1>3 DEF Fifo!Moves, Held
<1>5. ASSUME ~SeveralProducers
      PROVE  Len(Queued) = Capacity
  <2>1. /\ pos[p] = enqueue_pos
        /\ enqueue_pos \in Nat /\ dequeue_pos \in Nat /\ Capacity \in Nat
        /\ dequeue_pos <= enqueue_pos /\ enqueue_pos <= dequeue_pos + Capacity
    BY <1>1, <1>5, CapacityAssumption
    DEF Reached, SoleProducerInv, IInv, TypeOK, PositionsInv
  <2>2. enqueue_pos - dequeue_pos >= Capacity
    BY <2>1 DEF EnqueueRefused, SizeDiffAtLeast
  <2> QED
    BY <1>1, <2>1, <2>2 DEF Reached, QueueInv
<1> QED
  BY <1>3, <1>4, <1>5 DEF Fifo!Refuse

\* dequeue returns false: no position has been claimed that is not taken.
LEMMA FindsEmpty ==
  ASSUME Reached, Reached', NEW c \in Consumers, DequeueFoundEmpty(c)
  PROVE  Fifo!FindEmpty(c)
<1>1. /\ UNCHANGED <<shared, pos, item>> /\ TypeOK /\ c \in Threads
      /\ pc[c] = "d_empty" /\ pc'[c] = "idle" /\ alive
      /\ \A u \in Threads \ {c} : pc'[u] = pc[u]
  BY DEF DequeueFoundEmpty, Goto, Reached, IInv, TypeOK, Threads, CallsInv
<1>2. c \notin Owners /\ c \notin Owners'
  BY <1>1, ThreadsAssumption DEF Owners, Writing, Reading
<1>3. /\ UNCHANGED <<Queued, alive>>
      /\ CallState' = [CallState EXCEPT ![c] = CallState'[c]]
      /\ Held' = [Held EXCEPT ![c] = Held'[c]] /\ Held'[c] = Held[c]
      /\ CallState[c] = "pending" /\ CallState'[c] = "idle"
  BY <1>1, <1>2, LocalStep
<1>4. Fifo!Moves(c, "pending", "idle") /\ Held' = Held
  BY <1>3 DEF Fifo!Moves, Held
<1>5. Len(Queued) = 0 /\ Queued \in Seq(Items)
  <2>1. /\ pos[c] >= enqueue_pos /\ pos[c] <= dequeue_pos /\ pos[c] \in Nat
        /\ enqueue_pos \in Nat /\ dequeue_pos \in Nat /\ dequeue_pos <= enqueue_pos
    BY DEF DequeueFoundEmpty, Reached, IInv, TypeOK, PositionsInv, Threads
  <2> QED
    BY <1>1, <2>1 DEF Reached, QueueInv
<1>6. Queued = <<>>
  BY <1>5, EmptySeq
<1> QED
  BY <1>3, <1>4, <1>6 DEF Fifo!FindEmpty

-----------------------------------------------------------------------------
(* The steps of a thread that owns a cell.                                 *)

\* The successful compare-exchange of enqueue puts the item.
LEMMA ClaimPuts ==
  ASSUME Reached, Reached', NEW p \in Producers, EnqueueClaim(p)
  PROVE  Fifo!Put(p)
<1>1. /\ UNCHANGED <<sequence, data, dequeue_pos, pos, item, alive>>
      /\ pos[p] = enqueue_pos /\ enqueue_pos' = enqueue_pos + 1
      /\ TypeOK /\ TypeOK' /\ p \in Threads /\ alive /\ item[p] \in Items
      /\ pc[p] = "e_cas" /\ pc'[p] = "e_construct"
      /\ \A u \in Threads \ {p} : pc'[u] = pc[u]
  BY DEF EnqueueClaim, Goto, Reached, IInv, TypeOK, Threads, CallsInv
<1>2. /\ p \notin Owners /\ p \in Owners' /\ p \in Writing' /\ p \notin Reading
      /\ p \notin Reading' /\ Writing' = Writing \cup {p}
  BY <1>1, ThreadsAssumption DEF Owners, Writing, Reading, Threads
<1>3. /\ CallState' = [CallState EXCEPT ![p] = CallState'[p]]
      /\ Held' = [Held EXCEPT ![p] = Held'[p]]
  BY <1>1, OthersStay
<1>4. /\ CallState[p] = "pending" /\ CallState'[p] = "done"
      /\ Held[p] = item[p] /\ Held'[p] = item[p]
  BY <1>1, <1>2 DEF Reached, CallsShown
<1>5. Fifo!Moves(p, "pending", "done")
  BY <1>1, <1>3, <1>4 DEF Fifo!Moves
<1>6. Held' = Held
  <2>1. Held = [u \in Threads |-> Held[u]]
    BY DEF Held
  <2> QED
    BY <1>3, <1>4, <2>1
<1>7. /\ enqueue_pos \in Nat /\ dequeue_pos \in Nat /\ Capacity \in Nat
      /\ dequeue_pos <= enqueue_pos /\ enqueue_pos' <= dequeue_pos + Capacity
  BY <1>1, CapacityAssumption DEF Reached, IInv, TypeOK, PositionsInv
<1> DEFINE n == enqueue_pos - dequeue_pos
<1>8. /\ Queued \in Seq(Items) /\ Len(Queued) = n /\ Queued' \in Seq(Items)
      /\ Len(Queued') = n + 1 /\ Len(Queued) < Capacity /\ n \in Nat
      /\ \A r \in Waiting : Queued[r - dequeue_pos + 1] = ItemAt(r)
      /\ \A r \in Waiting' : Queued'[r - dequeue_pos + 1] = ItemAt(r)'
  <2>1. n \in Nat /\ enqueue_pos' - dequeue_pos' = n + 1 /\ n < Capacity
    BY <1>1, <1>7
  <2> QED
    BY <1>1, <2>1 DEF Reached, QueueInv
<1>9. ASSUME NEW r \in Waiting
      PROVE  ItemAt(r)' = ItemAt(r)
  <2>1. r \in Int /\ r < enqueue_pos
    BY <1>7 DEF Waiting
  <2>2. CASE TakenBy(Writing, r)
    <3>1. PICK w \in Writing : pos[w] = r
      BY <2>2 DEF TakenBy
    <3>2. w \in Writing' /\ pos'[w] = r /\ item'[w] = item[w]
      BY <1>1, <1>2, <3>1
    <3> QED
      BY <3>1, <3>2 DEF Reached, ItemsInv
  <2>3. CASE ~TakenBy(Writing, r)
    <3>1. ~TakenBy(Writing, r)'
      BY <1>1, <1>2, <2>1, <2>3 DEF TakenBy
    <3> QED
      BY <1>1, <2>1, <2>3, <3>1 DEF Reached, ItemsInv
  <2> QED
    BY <2>2, <2>3
<1>10. Queued'[n + 1] = item[p]
  <2> PICK e \in Nat : e = enqueue_pos
    BY <1>7
  <2>1. ItemAt(e)' = item[p]
    BY <1>1, <1>2 DEF Reached, ItemsInv
  <2>2. e \in Waiting' /\ e - dequeue_pos + 1 = n + 1
    BY <1>1, <1>7 DEF Waiting
  <2>3. Queued'[e - dequeue_pos + 1] = ItemAt(e)'
    BY <1>8, <2>2
  <2> QED
    BY <2>1, <2>2, <2>3
<1>11. ASSUME NEW k \in 1 .. n
       PROVE  Queued'[k] = Queued[k]
  <2> DEFINE r == dequeue_pos + k - 1
  <2>1. r \in Waiting /\ r \in Waiting' /\ r - dequeue_pos + 1 = k
    BY <1>1, <1>7 DEF Waiting
  <2> HIDE DEF r
  <2>2. Queued'[r - dequeue_pos + 1] = Queued[r - dequeue_pos + 1]
    BY <1>8, <1>9, <2>1
  <2> QED
    BY <2>1, <2>2
<1> HIDE DEF n
<1>12. Queued' = Append(Queued, item[p])
  BY <1>1, <1>8, <1>10, <1>11
<1> QED
  BY <1>4, <1>5, <1>6, <1>8, <1>12 DEF Fifo!Put

\* The successful compare-exchange of dequeue takes the item.
LEMMA ClaimTakes ==
  ASSUME Reached, Reached', Capacity >= 2, NEW c \in Consumers, DequeueClaim(c)
  PROVE  Fifo!Take(c)
<1>1. /\ UNCHANGED <<sequence, data, enqueue_pos, pos, item, alive>>
      /\ pos[c] = dequeue_pos /\ dequeue_pos' = dequeue_pos + 1
      /\ TypeOK /\ TypeOK' /\ c \in Threads /\ alive
      /\ pc[c] = "d_cas" /\ pc'[c] = "d_move"
      /\ \A u \in Threads \ {c} : pc'[u] = pc[u]
  BY DEF DequeueClaim, Goto, Reached, IInv, TypeOK, Threads, CallsInv
<1>2. c \notin Owners /\ c \in Owners' /\ c \in Reading' /\ Writing' = Writing
  BY <1>1, ThreadsAssumption DEF Owners, Writing, Reading, Threads
<1>3. /\ CallState' = [CallState EXCEPT ![c] = CallState'[c]]
      /\ Held' = [Held EXCEPT ![c] = Held'[c]]
  BY <1>1, OthersStay
<1>4. /\ CallState[c] = "pending" /\ CallState'[c] = "done"
      /\ Held'[c] = data[SlotOf(dequeue_pos)]
  BY <1>1, <1>2 DEF Reached, CallsShown
<1>5. Fifo!Moves(c, "pending", "done")
  BY <1>1, <1>3, <1>4 DEF Fifo!Moves
<1>6. /\ enqueue_pos \in Nat /\ dequeue_pos \in Nat
      /\ sequence[SlotOf(dequeue_pos)] = dequeue_pos + 1
  BY <1>1 DEF Reached, IInv, TypeOK, LookedInv
<1>7. dequeue_pos < enqueue_pos /\ ~TakenBy(Writing, dequeue_pos)
  BY <1>6, CellAtHead DEF Published, Reached
<1>8. ItemAt(dequeue_pos) = data[SlotOf(dequeue_pos)]
  BY <1>6, <1>7 DEF Reached, ItemsInv
<1> DEFINE n == enqueue_pos - dequeue_pos
<1>9. /\ Queued \in Seq(Items) /\ Len(Queued) = n /\ Queued' \in Seq(Items)
      /\ Len(Queued') = n - 1 /\ n \in Nat /\ n > 0
      /\ \A r \in Waiting : Queued[r - dequeue_pos + 1] = ItemAt(r)
      /\ \A r \in Waiting' : Queued'[r - dequeue_pos' + 1] = ItemAt(r)'
  <2>1. n \in Nat /\ n > 0 /\ enqueue_pos' - dequeue_pos' = n - 1
    BY <1>1, <1>6, <1>7
  <2> QED
    BY <1>1, <2>1 DEF Reached, QueueInv
<1>10. \A r \in Waiting : ItemAt(r)' = ItemAt(r)
  BY <1>1, <1>2 DEF ItemAt, TakenBy
<1>11. ASSUME NEW k \in 1 .. n - 1
       PROVE  Queued'[k] = Queued[k + 1]
  <2> DEFINE r == dequeue_pos + k
  <2>1. /\ r \in Waiting /\ r \in Waiting'
        /\ r - dequeue_pos' + 1 = k /\ r - dequeue_pos + 1 = k + 1
    BY <1>1, <1>6, <1>7 DEF Waiting
  <2> HIDE DEF r
  <2>2. Queued'[r - dequeue_pos' + 1] = Queued[r - dequeue_pos + 1]
    BY <1>9, <1>10, <2>1
  <2> QED
    BY <2>1, <2>2
<1>12. Queued[1] = data[SlotOf(dequeue_pos)]
  <2>1. dequeue_pos \in Waiting /\ dequeue_pos - dequeue_pos + 1 = 1
    BY <1>6, <1>7 DEF Waiting
  <2>2. Queued[dequeue_pos - dequeue_pos + 1] = ItemAt(dequeue_pos)
    BY <1>9, <2>1
  <2> QED
    BY <1>8, <2>1, <2>2
<1> HIDE DEF n
<1>13. Queued # <<>> /\ Head(Queued) = Queued[1] /\ Queued' = Tail(Queued)
  BY <1>9, <1>11
<1> QED
  BY <1>3, <1>4, <1>5, <1>12, <1>13 DEF Fifo!Take

\* Constructing the item in the cell it is bound for.
LEMMA ConstructStutters ==
  ASSUME Reached, Reached', NEW p \in Producers, EnqueueConstruct(p)
  PROVE  UNCHANGED Fifo!vars
<1>1. /\ UNCHANGED <<sequence, enqueue_pos, dequeue_pos, pos, item, alive>>
      /\ IInv /\ TypeOK /\ TypeOK' /\ p \in Threads
      /\ pc[p] = "e_construct" /\ pc'[p] = "e_publish"
      /\ \A u \in Threads \ {p} : pc'[u] = pc[u]
      /\ \A s \in Slots : s # SlotOf(pos[p]) => data'[s] = data[s]
  BY DEF EnqueueConstruct, Goto, Reached, IInv, TypeOK, Threads
<1>2. /\ p \in Owners /\ p \in Owners' /\ p \in Writing /\ Writing' = Writing
      /\ p \notin Reading /\ p \notin Reading'
  BY <1>1, ThreadsAssumption DEF Owners, Writing, Reading, Threads
<1>3. ASSUME NEW r \in Waiting
      PROVE  ItemAt(r)' = ItemAt(r)
  <2>0. r \in Int /\ SlotOf(r) \in Slots /\ r \in enqueue_pos - Capacity .. enqueue_pos - 1
    BY <1>1, SlotType, CapacityAssumption DEF Waiting, IInv, TypeOK, PositionsInv
  <2>1. CASE TakenBy(Writing, r)
    <3>1. PICK w \in Writing : pos[w] = r
      BY <2>1 DEF TakenBy
    <3>2. w \in Writing' /\ pos'[w] = r /\ item'[w] = item[w]
      BY <1>1, <1>2, <3>1
    <3> QED
      BY <3>1, <3>2 DEF Reached, ItemsInv
  <2>2. CASE ~TakenBy(Writing, r)
    <3>1. ~TakenBy(Writing, r)'
      BY <1>1, <1>2, <2>2 DEF TakenBy
    <3>2. SlotOf(r) # SlotOf(pos[p])
      BY <1>1, <1>2, <2>0, <2>2, OwnerApart DEF TakenBy
    <3> QED
      BY <1>1, <2>0, <2>2, <3>1, <3>2 DEF Reached, ItemsInv
  <2> QED
    BY <2>1, <2>2
<1>4. Queued' = Queued
  BY <1>1, <1>3, QueueStays
<1>5. \A u \in Reading \ {p} : data'[SlotOf(pos[u])] = data[SlotOf(pos[u])]
  <2> SUFFICES ASSUME NEW u \in Reading \ {p}
               PROVE  data'[SlotOf(pos[u])] = data[SlotOf(pos[u])]
    OBVIOUS
  <2>1. SlotOf(pos[u]) # SlotOf(pos[p]) /\ pos[u] \in Int
    BY <1>1, <1>2, OwnersApart DEF Owners, Reading, TypeOK, Threads
  <2> QED
    BY <1>1, <2>1, SlotType
<1>6. /\ CallState' = [CallState EXCEPT ![p] = CallState'[p]]
      /\ Held' = [Held EXCEPT ![p] = Held'[p]]
  BY <1>1, <1>5, OthersStay
<1>7. /\ CallState[p] = "done" /\ CallState'[p] = "done"
      /\ Held[p] = item[p] /\ Held'[p] = item[p]
  BY <1>1, <1>2 DEF Reached, CallsShown
<1>8. /\ CallState = [u \in Threads |-> CallState[u]]
      /\ Held = [u \in Threads |-> Held[u]]
  BY DEF CallState, Held
<1>9. CallState' = CallState /\ Held' = Held
  BY <1>6, <1>7, <1>8
<1> QED
  BY <1>1, <1>4, <1>9 DEF Fifo!vars

\* Moving the item out of its cell into the hands of the consumer.
LEMMA MoveStutters ==
  ASSUME Reached, Reached', NEW c \in Consumers, DequeueMove(c)
  PROVE  UNCHANGED Fifo!vars
<1>1. /\ UNCHANGED <<sequence, enqueue_pos, dequeue_pos, pos, alive>>
      /\ IInv /\ TypeOK /\ TypeOK' /\ c \in Threads
      /\ pc[c] = "d_move" /\ pc'[c] = "d_release"
      /\ item'[c] = data[SlotOf(pos[c])]
      /\ \A u \in Threads \ {c} : pc'[u] = pc[u] /\ item'[u] = item[u]
      /\ \A s \in Slots : s # SlotOf(pos[c]) => data'[s] = data[s]
  BY DEF DequeueMove, Goto, Reached, IInv, TypeOK, Threads
<1>2. /\ c \in Owners /\ c \in Owners' /\ c \in Reading /\ Writing' = Writing
      /\ \A w \in Writing : w # c /\ w \in Threads
  BY <1>1, ThreadsAssumption DEF Owners, Writing, Reading, Threads
<1>3. ASSUME NEW r \in Waiting
      PROVE  ItemAt(r)' = ItemAt(r)
  <2>0. /\ r \in Int /\ SlotOf(r) \in Slots
        /\ r \in enqueue_pos - Capacity .. enqueue_pos - 1 /\ pos[c] # r
    BY <1>1, <1>2, SlotType, CapacityAssumption
    DEF Waiting, IInv, TypeOK, PositionsInv, OwnersInv
  <2>1. CASE TakenBy(Writing, r)
    <3>1. PICK w \in Writing : pos[w] = r
      BY <2>1 DEF TakenBy
    <3>2. w \in Writing' /\ pos'[w] = r /\ item'[w] = item[w]
      BY <1>1, <1>2, <3>1
    <3> QED
      BY <3>1, <3>2 DEF Reached, ItemsInv
  <2>2. CASE ~TakenBy(Writing, r)
    <3>1. ~TakenBy(Writing, r)'
      BY <1>1, <1>2, <2>2 DEF TakenBy
    <3>2. SlotOf(r) # SlotOf(pos[c])
      BY <1>1, <1>2, <2>0, OwnerApart
    <3> QED
      BY <1>1, <2>0, <2>2, <3>1, <3>2 DEF Reached, ItemsInv
  <2> QED
    BY <2>1, <2>2
<1>4. Queued' = Queued
  BY <1>1, <1>3, QueueStays
<1>5. \A u \in Reading \ {c} : data'[SlotOf(pos[u])] = data[SlotOf(pos[u])]
  <2> SUFFICES ASSUME NEW u \in Reading \ {c}
               PROVE  data'[SlotOf(pos[u])] = data[SlotOf(pos[u])]
    OBVIOUS
  <2>1. SlotOf(pos[u]) # SlotOf(pos[c]) /\ pos[u] \in Int
    BY <1>1, <1>2, OwnersApart DEF Owners, Reading, TypeOK, Threads
  <2> QED
    BY <1>1, <2>1, SlotType
<1>6. /\ CallState' = [CallState EXCEPT ![c] = CallState'[c]]
      /\ Held' = [Held EXCEPT ![c] = Held'[c]]
  BY <1>1, <1>5, OthersStay
<1>7. /\ CallState[c] = "done" /\ CallState'[c] = "done"
      /\ Held[c] = data[SlotOf(pos[c])] /\ Held'[c] = data[SlotOf(pos[c])]
  BY <1>1, <1>2 DEF Reached, CallsShown
<1>8. /\ CallState = [u \in Threads |-> CallState[u]]
      /\ Held = [u \in Threads |-> Held[u]]
  BY DEF CallState, Held
<1>9. CallState' = CallState /\ Held' = Held
  BY <1>6, <1>7, <1>8
<1> QED
  BY <1>1, <1>4, <1>9 DEF Fifo!vars

\* Storing the sequence number of a cell that has been written or read.
LEMMA ReleaseReturns ==
  ASSUME Reached, Reached', NEW t \in Threads,
         \/ t \in Producers /\ EnqueuePublish(t)
         \/ t \in Consumers /\ DequeueRelease(t)
  PROVE  Fifo!Return(t)
<1>1. /\ UNCHANGED <<data, enqueue_pos, dequeue_pos, pos, item, alive>>
      /\ IInv /\ TypeOK /\ TypeOK'
      /\ pc[t] \in {"e_publish", "d_release"} /\ pc'[t] = "idle"
      /\ \A u \in Threads \ {t} : pc'[u] = pc[u]
  BY DEF EnqueuePublish, DequeueRelease, Goto, Reached, IInv, TypeOK
<1>2. t \in Owners /\ t \notin Owners' /\ Writing' = Writing \ {t}
  BY <1>1 DEF Owners, Writing, Reading, Threads, EnqueuePublish, DequeueRelease, Goto
<1>3. ASSUME NEW r \in Waiting
      PROVE  ItemAt(r)' = ItemAt(r)
  <2>0. r \in Int
    BY DEF Waiting
  <2>1. CASE \E w \in Writing \ {t} : pos[w] = r
    <3>1. PICK w \in Writing \ {t} : pos[w] = r
      BY <2>1
    <3>2. w \in Writing' /\ pos'[w] = r /\ item'[w] = item[w]
      BY <1>1, <1>2, <3>1
    <3> QED
      BY <3>1, <3>2 DEF Reached, ItemsInv
  <2>2. CASE t \in Writing /\ pos[t] = r
    <3>1. ~TakenBy(Writing, r)'
      BY <1>1, <1>2, <2>2 DEF TakenBy, IInv, OwnersInv
    <3>2. pc[t] = "e_publish"
      BY <1>1, <2>2 DEF Writing
    <3>3. data[SlotOf(r)] = item[t]
      BY <1>1, <2>2, <3>2 DEF IInv, LifetimeRespected
    <3> QED
      BY <1>1, <2>0, <2>2, <3>1, <3>3 DEF Reached, ItemsInv
  <2>3. CASE ~TakenBy(Writing, r)
    <3>1. ~TakenBy(Writing, r)'
      BY <1>1, <1>2, <2>3 DEF TakenBy
    <3> QED
      BY <1>1, <2>0, <2>3, <3>1 DEF Reached, ItemsInv
  <2> QED
    BY <2>1, <2>2, <2>3 DEF TakenBy
<1>4. Queued' = Queued
  BY <1>1, <1>3, QueueStays
<1>5. /\ CallState' = [CallState EXCEPT ![t] = CallState'[t]]
      /\ Held' = [Held EXCEPT ![t] = Held'[t]]
  BY <1>1, OthersStay
<1>6. /\ CallState[t] = "done" /\ CallState'[t] = "idle"
      /\ Held[t] = item[t] /\ Held'[t] = item[t]
  BY <1>1, <1>2 DEF Reached, CallsShown
<1>7. Held = [u \in Threads |-> Held[u]]
  BY DEF Held
<1>8. Held' = Held
  BY <1>5, <1>6, <1>7
<1> QED
  BY <1>1, <1>4, <1>5, <1>6, <1>8 DEF Fifo!Return, Fifo!Moves

LEMMA DestroyDestroys ==
  ASSUME Reached, Destroy
  PROVE  Fifo!Destroy
<1>1. /\ UNCHANGED <<enqueue_pos, dequeue_pos, pc, pos, item>>
      /\ alive /\ alive' = FALSE /\ \A t \in Threads : pc[t] = "idle"
  BY DEF Destroy
<1>2. /\ Writing = {} /\ Reading = {} /\ Owners = {}
      /\ Writing' = {} /\ Reading' = {} /\ Owners' = {}
  BY <1>1 DEF Writing, Reading, Owners, Threads
<1>3. Queued' = <<>>
  BY <1>1 DEF Queued
<1>4. CallState' = CallState /\ \A t \in Threads : CallState[t] = "idle"
  BY <1>1, <1>2 DEF CallState
<1>5. Held' = Held
  BY <1>1, <1>2 DEF Held
<1> QED
  BY <1>1, <1>3, <1>4, <1>5 DEF Fifo!Destroy, Fifo!Threads, Threads

-----------------------------------------------------------------------------
(* The refinement.                                                         *)

LEMMA InitIsInitial == Init => Fifo!Init
<1> SUFFICES ASSUME Init
             PROVE  Fifo!Init
  OBVIOUS
<1>1. Writing = {} /\ Reading = {} /\ Owners = {}
  BY DEF Init, Writing, Reading, Owners, Threads
<1>2. Queued = <<>>
  <2>1. IInv
    BY InitIInv
  <2>2. QueueInv
    BY <2>1, ItemsFollow, QueueIsSequence
  <2>3. Queued \in Seq(Items) /\ Len(Queued) = 0
    BY <2>2 DEF QueueInv, Init
  <2> QED
    BY <2>3, EmptySeq
<1>3. CallState = [t \in Threads |-> "idle"]
  BY <1>1 DEF CallState, Init
<1>4. Held = [t \in Threads |-> NoItem]
  BY <1>1 DEF Held, Init
<1> QED
  BY <1>2, <1>3, <1>4 DEF Fifo!Init, Fifo!Threads, Threads, Init

LEMMA StepImplements ==
  ASSUME Reached, Reached', Capacity >= 2, [Next]_vars
  PROVE  [Fifo!Next]_(Fifo!vars)
<1> SUFFICES Fifo!Next \/ UNCHANGED Fifo!vars
  OBVIOUS
<1>0. TypeOK
  BY DEF Reached, IInv
<1>1. ASSUME NEW p \in Producers, EnqueueStep(p)
      PROVE  Fifo!Next \/ UNCHANGED Fifo!vars
  <2>0. p \in Threads /\ p \notin Consumers
    BY ThreadsAssumption DEF Threads
  <2>1. CASE EnqueueLoad(p) \/ EnqueueLook(p) \/ EnqueueClaimFails(p) \/ EnqueueNotFull(p)
    <3>1. /\ UNCHANGED shared /\ UNCHANGED item
          /\ pc[p] \in {"e_load", "e_seq", "e_cas", "e_full"}
          /\ pc'[p] \in {"e_load", "e_seq", "e_cas", "e_full"}
          /\ \A u \in Threads \ {p} : pc'[u] = pc[u] /\ pos'[u] = pos[u]
      BY <1>0, <2>0, <2>1 DEF EnqueueLoad, EnqueueLook, EnqueueClaimFails,
                              EnqueueNotFull, Goto, TypeOK
    <3>2. p \notin Owners /\ p \notin Owners'
      BY <2>0, <3>1 DEF Owners, Writing, Reading
    <3> QED
      BY <2>0, <3>1, <3>2, LocalStutters
  <2>2. CASE EnqueueClaim(p)
    BY <2>2, ClaimPuts DEF Fifo!Next
  <2>3. CASE EnqueueRefused(p)
    BY <2>3, RefusalRefuses DEF Fifo!Next
  <2>4. CASE EnqueueConstruct(p)
    BY <2>4, ConstructStutters
  <2>5. CASE EnqueuePublish(p)
    BY <2>0, <2>5, ReleaseReturns DEF Fifo!Next, Fifo!Threads, Threads
  <2> QED
    BY <1>1, <2>1, <2>2, <2>3, <2>4, <2>5 DEF EnqueueStep
<1>2. ASSUME NEW c \in Consumers, DequeueStep(c)
      PROVE  Fifo!Next \/ UNCHANGED Fifo!vars
  <2>0. c \in Threads /\ c \notin Producers
    BY ThreadsAssumption DEF Threads
  <2>1. CASE DequeueLoad(c) \/ DequeueLook(c) \/ DequeueClaimFails(c) \/ DequeueNotEmpty(c)
    <3>1. /\ UNCHANGED shared /\ UNCHANGED item
          /\ pc[c] \in {"d_load", "d_seq", "d_cas", "d_empty"}
          /\ pc'[c] \in {"d_load", "d_seq", "d_cas", "d_empty"}
          /\ \A u \in Threads \ {c} : pc'[u] = pc[u] /\ pos'[u] = pos[u]
      BY <1>0, <2>0, <2>1 DEF DequeueLoad, DequeueLook, DequeueClaimFails,
                              DequeueNotEmpty, Goto, TypeOK
    <3>2. c \notin Owners /\ c \notin Owners'
      BY <2>0, <3>1 DEF Owners, Writing, Reading
    <3> QED
      BY <2>0, <3>1, <3>2, LocalStutters
  <2>2. CASE DequeueClaim(c)
    BY <2>2, ClaimTakes DEF Fifo!Next
  <2>3. CASE DequeueFoundEmpty(c)
    BY <2>3, FindsEmpty DEF Fifo!Next
  <2>4. CASE DequeueMove(c)
    BY <2>4, MoveStutters
  <2>5. CASE DequeueRelease(c)
    BY <2>0, <2>5, ReleaseReturns DEF Fifo!Next, Fifo!Threads, Threads
  <2> QED
    BY <1>2, <2>1, <2>2, <2>3, <2>4, <2>5 DEF DequeueStep
<1>3. ASSUME NEW p \in Producers, NEW i \in Items, EnqueueCall(p, i)
      PROVE  Fifo!Next
  BY <1>3, CallsBegin DEF Threads
<1>4. ASSUME NEW c \in Consumers, DequeueCall(c)
      PROVE  Fifo!Next
  BY <1>4, CallsBegin DEF Threads
<1>5. CASE Destroy
  BY <1>5, DestroyDestroys DEF Fifo!Next
<1>6. CASE UNCHANGED vars
  BY <1>6 DEF vars, Fifo!vars, Queued, CallState, Held, ItemAt, TakenBy, Writing,
              Reading, Owners
<1> QED
  BY <1>1, <1>2, <1>3, <1>4, <1>5, <1>6 DEF Next

\* The queue is a FIFO of the stated capacity: an enqueue and a dequeue take
\* effect when their compare-exchange succeeds, dequeue reports empty only
\* when the queue is empty, and a single producer is refused only when
\* Capacity items are queued (MPMCQueue.hpp:62-133).
THEOREM Implements ==
  ASSUME Capacity >= 2
  PROVE  Spec => FifoSpec
<1>1. IInv /\ SoleProducerInv => Reached
  BY ItemsFollow, QueueIsSequence, CallsAreShown DEF Reached, IInv
<1>2. Init => SoleProducerInv
  BY InitSoleProducer
<1>3. IInv /\ SoleProducerInv /\ [Next]_vars => SoleProducerInv'
  BY SoleProducerKeeps DEF IInv
<1>4. Reached /\ Reached' /\ [Next]_vars => [Fifo!Next]_(Fifo!vars)
  BY StepImplements
<1> QED
  BY <1>1, <1>2, <1>3, <1>4, InitIsInitial, Invariance, PTL DEF Spec, FifoSpec, Fifo!Spec
=============================================================================
