----------------------------- MODULE ServerProofs -----------------------------
(***************************************************************************)
(* Proofs about Server, for any connections and any finite set of workers, *)
(* any capacity of the request queue, any number of requests and pieces,   *)
(* and whatever calls fail.                                                *)
(***************************************************************************)
EXTENDS Server, FiniteSetTheorems, SequenceTheorems, TLAPS

-----------------------------------------------------------------------------
(* Pieces and requests.                                                    *)

LEMMA Quotient ==
  ASSUME NEW n \in Nat \ {0}, NEW a \in Nat
  PROVE  /\ a \div n \in Nat
         /\ a = n * (a \div n) + (a % n)
         /\ a % n \in 0 .. n - 1
  OBVIOUS

LEMMA Distributes ==
  ASSUME NEW n \in Int, NEW j \in Int, NEW d \in Int
  PROVE  (j + d + 1) * n = j * n + d * n + n
  OBVIOUS

LEMMA ProductGrows ==
  ASSUME NEW n \in Nat \ {0}, NEW j \in Nat, NEW k \in Nat, j < k
  PROVE  j * n + n <= k * n
<1> DEFINE d == k - j - 1
<1>1. d \in Nat /\ k = j + d + 1
  OBVIOUS
<1> HIDE DEF d
<1>2. d * n \in Nat /\ j * n \in Nat
  BY <1>1
<1>3. k * n = j * n + d * n + n
  BY <1>1, Distributes
<1> DEFINE jn == j * n
           dn == d * n
           kn == k * n
<1>4. kn = jn + dn + n /\ jn \in Nat /\ dn \in Nat
  BY <1>2, <1>3
<1> HIDE DEF jn, dn, kn
<1>5. jn + n <= kn
  BY <1>4
<1> QED
  BY <1>5 DEF jn, kn

\* k whole requests fit into a pieces iff k is at most the quotient.
LEMMA QuotientIs ==
  ASSUME NEW n \in Nat \ {0}, NEW a \in Nat, NEW k \in Nat
  PROVE  k <= a \div n <=> k * n <= a
<1> DEFINE q == a \div n
           rest == a % n
           qn == q * n
           kn == k * n
<1>1. q \in Nat /\ a = n * q + rest /\ rest \in 0 .. n - 1
  BY Quotient
<1> HIDE DEF q, rest
<1>2. n * q = qn /\ qn \in Nat /\ kn \in Nat
  BY <1>1
<1> HIDE DEF qn
<1>3. qn <= a /\ a < qn + n
  BY <1>1, <1>2
<1>4. CASE k < q
  <2>1. kn + n <= qn
    BY <1>1, <1>4, ProductGrows DEF qn
  <2> HIDE DEF kn
  <2>2. kn <= a
    BY <1>2, <1>3, <2>1
  <2> QED
    BY <1>1, <1>4, <2>2 DEF q, kn
<1>5. CASE k = q
  <2>1. kn <= a
    BY <1>3, <1>5 DEF qn
  <2> QED
    BY <1>1, <1>5, <2>1 DEF q
<1>6. CASE k > q
  <2>1. qn + n <= kn
    BY <1>1, <1>6, ProductGrows DEF qn
  <2> HIDE DEF kn
  <2>2. ~(kn <= a)
    BY <1>2, <1>3, <2>1
  <2> QED
    BY <1>1, <1>6, <2>2 DEF q, kn
<1> QED
  BY <1>1, <1>4, <1>5, <1>6

-----------------------------------------------------------------------------
(* How often a request occurs in a sequence.                               *)

LEMMA LengthZero ==
  ASSUME NEW S, NEW s \in Seq(S)
  PROVE  s = <<>> <=> Len(s) = 0
  BY EmptySeq

Indices(s, r) == {i \in DOMAIN s : s[i] = r}

LEMMA OccurrencesAre ==
  ASSUME NEW S, NEW s \in Seq(S), NEW r
  PROVE  /\ IsFiniteSet(Indices(s, r))
         /\ Occurrences(s, r) = Cardinality(Indices(s, r))
         /\ Occurrences(s, r) \in Nat
<1>1. IsFiniteSet(1 .. Len(s)) /\ DOMAIN s = 1 .. Len(s)
  BY FS_Interval
<1>2. Indices(s, r) \subseteq 1 .. Len(s)
  BY <1>1 DEF Indices
<1>3. IsFiniteSet(Indices(s, r))
  BY <1>1, <1>2, FS_Subset
<1> QED
  BY <1>3, FS_CardinalityType DEF Occurrences, Indices

LEMMA OccurrencesOfEmpty ==
  ASSUME NEW r
  PROVE  Occurrences(<<>>, r) = 0
<1>1. {i \in DOMAIN <<>> : <<>>[i] = r} = {}
  OBVIOUS
<1> QED
  BY <1>1, FS_EmptySet DEF Occurrences

LEMMA OccurrencesOfAppend ==
  ASSUME NEW S, NEW s \in Seq(S), NEW x \in S, NEW r
  PROVE  Occurrences(Append(s, x), r) = Occurrences(s, r) + (IF x = r THEN 1 ELSE 0)
<1> DEFINE t == Append(s, x)
           n == Len(s)
<1>1. /\ t \in Seq(S) /\ Len(t) = n + 1 /\ n \in Nat
      /\ DOMAIN t = 1 .. n + 1 /\ DOMAIN s = 1 .. n
      /\ t[n + 1] = x /\ \A i \in 1 .. n : t[i] = s[i]
  OBVIOUS
<1>2. Indices(t, r) = IF x = r THEN Indices(s, r) \cup {n + 1} ELSE Indices(s, r)
  BY <1>1 DEF Indices
<1>3. n + 1 \notin Indices(s, r)
  BY <1>1 DEF Indices
<1> HIDE DEF t, n
<1>4. /\ IsFiniteSet(Indices(s, r))
      /\ Occurrences(s, r) = Cardinality(Indices(s, r))
      /\ Occurrences(t, r) = Cardinality(Indices(t, r))
      /\ Occurrences(s, r) \in Nat
  BY <1>1, OccurrencesAre
<1>5. Cardinality(Indices(s, r) \cup {n + 1}) = Cardinality(Indices(s, r)) + 1
  BY <1>3, <1>4, FS_AddElement
<1>6. Occurrences(t, r) = Occurrences(s, r) + (IF x = r THEN 1 ELSE 0)
  BY <1>2, <1>4, <1>5
<1> QED
  BY <1>6 DEF t

LEMMA OccurrencesOfTail ==
  ASSUME NEW S, NEW s \in Seq(S), s # <<>>, NEW r
  PROVE  Occurrences(s, r) = Occurrences(Tail(s), r) + (IF Head(s) = r THEN 1 ELSE 0)
<1> DEFINE t == Tail(s)
           n == Len(s)
           later == {i \in 2 .. n : s[i] = r}
<1>1. /\ t \in Seq(S) /\ Len(t) = n - 1 /\ n \in Nat \ {0}
      /\ DOMAIN t = 1 .. n - 1 /\ DOMAIN s = 1 .. n
      /\ Head(s) = s[1] /\ \A i \in 1 .. n - 1 : t[i] = s[i + 1]
  OBVIOUS
<1>2. Indices(s, r) = IF Head(s) = r THEN later \cup {1} ELSE later
  BY <1>1 DEF Indices
<1>3. /\ IsFiniteSet(Indices(s, r)) /\ IsFiniteSet(Indices(t, r))
      /\ Occurrences(s, r) = Cardinality(Indices(s, r))
      /\ Occurrences(t, r) = Cardinality(Indices(t, r))
      /\ Occurrences(s, r) \in Nat /\ Occurrences(t, r) \in Nat
  BY <1>1, OccurrencesAre
<1>4. IsFiniteSet(later)
  BY <1>2, <1>3, FS_Subset
<1>5. Cardinality(later) = Cardinality(Indices(t, r))
  <2> DEFINE f == [i \in Indices(t, r) |-> i + 1]
  <2>1. \A i \in Indices(t, r) : i \in 1 .. n - 1 /\ f[i] \in later
    BY <1>1 DEF Indices
  <2>2. f \in Injection(Indices(t, r), later)
    BY <2>1 DEF Injection, IsInjective
  <2>3. \A j \in later : j - 1 \in Indices(t, r) /\ f[j - 1] = j
    BY <1>1 DEF Indices
  <2>4. f \in Surjection(Indices(t, r), later)
    BY <2>1, <2>3 DEF Surjection
  <2>5. f \in Bijection(Indices(t, r), later)
    BY <2>2, <2>4 DEF Bijection
  <2>6. ExistsBijection(Indices(t, r), later)
    BY <2>5 DEF ExistsBijection
  <2> QED
    BY <1>3, <2>6, FS_Bijection
<1>6. 1 \notin later
  OBVIOUS
<1> HIDE DEF later
<1>7. Cardinality(later \cup {1}) = Cardinality(later) + 1
  BY <1>4, <1>6, FS_AddElement
<1> HIDE DEF t, n
<1>8. Occurrences(s, r) = Occurrences(t, r) + (IF Head(s) = r THEN 1 ELSE 0)
  BY <1>2, <1>3, <1>5, <1>7
<1> QED
  BY <1>8 DEF t

-----------------------------------------------------------------------------
(* The inductive invariant.                                                *)

SendRecords == [n : {0, 1}, ans : SUBSET Requests]

ConnRecords ==
  [state : {"new", "open", "closed", "destroyed"}, left : BOOLEAN,
   sent : Nat, received : Nat, recvs : Nat,
   sends : Seq(SendRecords), spaces : Nat,
   dqe_ : Seq(Requests), dqe1_ : Seq(Requests)]

IoRecords ==
  [at : {"wait", "read", "park", "space", "blocked", "undefined"},
   conn : Connections \cup {Nobody}, ret : Seq(Requests)]

WorkerRecords ==
  [at : {"idle", "recv", "dispatch", "swap", "drain", "pop", "space", "undefined"},
   message : Requests \cup {NoMessage}, n : {0, 1}, ans : SUBSET Requests]

Typed == /\ conn \in [Connections -> ConnRecords]
         /\ request_queue_ \in Seq(Requests)
         /\ Len(request_queue_) <= Capacity
         /\ io \in IoRecords
         /\ worker \in [Workers -> WorkerRecords]
         /\ answered \subseteq Requests

MostPieces == MaxRequests * Parts

\* The decoder gets no more than has been sent; before the first receive it
\* has got nothing.
StreamInv ==
  \A c \in Connections :
    /\ conn[c].received <= conn[c].sent
    /\ conn[c].sent <= MostPieces
    /\ conn[c].state = "new" => conn[c].recvs = 0 /\ conn[c].received = 0

\* handleRead is about requests of the connection it was called for.
IoInv ==
  /\ io.at \in {"read", "park"} <=> io.ret # <<>>
  /\ io.at \in {"read", "park", "space"} => io.conn \in Connections
  /\ \A i \in 1 .. Len(io.ret) : Client(io.ret[i]) = io.conn

\* A connection parks its own requests.
ParkedInv ==
  \A c \in Connections : \A i \in 1 .. Len(conn[c].dqe_) : Client(conn[c].dqe_[i]) = c

WorkersInv ==
  \A w \in Workers : worker[w].at \notin {"idle", "undefined"} => worker[w].message \in Requests

\* What is to be sent, or is being sent, are responses.
AnswersInv ==
  /\ \A c \in Connections :
       /\ \A i \in 1 .. Len(conn[c].dqe1_) : conn[c].dqe1_[i] \in answered
       /\ \A i \in 1 .. Len(conn[c].sends) : conn[c].sends[i].ans \subseteq answered
  /\ \A w \in Workers : worker[w].ans \subseteq answered

\* A request that has arrived is in one place, any other in none.
ServedInv ==
  \A r \in Requests : conn[Client(r)].state # "destroyed"
                        => Places(r) = (IF Arrived(r) THEN 1 ELSE 0)

\* The requests of c for which a worker has posted a receive.
Rearmed(c) ==
  {i \in 1 .. MaxRequests : <<c, i>> \in answered \/ BeingServed(<<c, i>>, {"dispatch"}) # {}}

\* A connection posts one receive when it starts and one for each request,
\* after at least one has been handled.
ReceivesInv ==
  \A c \in Connections :
    /\ conn[c].recvs <= MaxRequests
    /\ conn[c].state # "destroyed"
         => conn[c].recvs + (IF conn[c].received > 0 THEN 1 ELSE 0)
              <= 1 + Cardinality(Rearmed(c))

IInv == Typed /\ StreamInv /\ IoInv /\ ParkedInv /\ WorkersInv /\ AnswersInv
          /\ ServedInv /\ ReceivesInv

LEMMA Sizes == Capacity \in Nat \ {0} /\ Parts \in Nat \ {0} /\ MaxRequests \in Nat \ {0}
                 /\ MostPieces \in Nat
  BY CapacityAssumption DEF MostPieces

-----------------------------------------------------------------------------
(* What the operations on a connection leave of it.                        *)

LEMMA ClosedIs ==
  ASSUME NEW k \in ConnRecords
  PROVE  /\ Closed(k) \in ConnRecords
         /\ Closed(k) = [k EXCEPT !.state = IF k.state = "open" THEN "closed" ELSE k.state]
  BY DEF Closed, ConnRecords

LEMMA PostRecvIs ==
  ASSUME NEW k \in ConnRecords, NEW l \in PostRecv(k)
  PROVE  /\ l \in ConnRecords
         /\ \/ k.state = "open" /\ l = [k EXCEPT !.recvs = @ + 1]
            \/ l = [k EXCEPT !.state = IF k.state = "open" THEN "closed" ELSE k.state]
<1>1. [k EXCEPT !.recvs = @ + 1] \in ConnRecords
  BY SMTT(30) DEF ConnRecords
<1> QED
  BY <1>1, ClosedIs DEF PostRecv, Attempt

LEMMA PostSpaceIs ==
  ASSUME NEW k \in ConnRecords, NEW l \in PostSpace(k)
  PROVE  /\ l \in ConnRecords
         /\ l = k \/ l = [k EXCEPT !.spaces = @ + 1]
<1>1. [k EXCEPT !.spaces = @ + 1] \in ConnRecords
  BY DEF ConnRecords
<1> QED
  BY <1>1 DEF PostSpace

LEMMA SendIs ==
  ASSUME NEW k \in ConnRecords, NEW s \in SendRecords,
         NEW l \in Attempt(k, [k EXCEPT !.sends = Append(@, s)])
  PROVE  /\ l \in ConnRecords
         /\ \/ k.state = "open" /\ l = [k EXCEPT !.sends = Append(@, s)]
            \/ l = [k EXCEPT !.state = IF k.state = "open" THEN "closed" ELSE k.state]
<1>1. [k EXCEPT !.sends = Append(@, s)] \in ConnRecords
  <2>1. k.sends \in Seq(SendRecords)
    BY DEF ConnRecords
  <2>2. Append(k.sends, s) \in Seq(SendRecords)
    BY <2>1
  <2> QED
    BY <2>2 DEF ConnRecords
<1> QED
  BY <1>1, ClosedIs DEF Attempt

\* The pieces of a read complete the requests of c that have arrived with it.
LEMMA ParsedIs ==
  ASSUME Typed, StreamInv, NEW c \in Connections, NEW pieces \in Nat,
         conn[c].received + pieces <= conn[c].sent
  PROVE  LET before == conn[c].received \div Parts
             after == (conn[c].received + pieces) \div Parts
         IN  /\ before \in Nat /\ after \in Nat /\ before <= after /\ after <= MaxRequests
             /\ Parsed(c, pieces) \in Seq(Requests)
             /\ Len(Parsed(c, pieces)) = after - before
             /\ \A i \in 1 .. after - before : Parsed(c, pieces)[i] = <<c, before + i>>
<1> DEFINE a == conn[c].received
           b == conn[c].received + pieces
           before == a \div Parts
           after == b \div Parts
<1>1. a \in Nat /\ b \in Nat /\ b <= MostPieces /\ a <= b
  BY Sizes DEF Typed, ConnRecords, StreamInv
<1> HIDE DEF a, b
<1>2. before \in Nat /\ after \in Nat
  BY <1>1, Sizes, Quotient
<1>3. before <= after
  <2>1. before * Parts <= a
    BY <1>1, <1>2, Sizes, QuotientIs
  <2> DEFINE x == before * Parts
  <2>2. x \in Int /\ x <= a
    BY <1>2, <2>1, Sizes
  <2> HIDE DEF x
  <2>3. x <= b
    BY <1>1, <2>2
  <2> QED
    BY <1>1, <1>2, <2>3, Sizes, QuotientIs DEF x
<1>4. after <= MaxRequests
  <2> SUFFICES ASSUME MaxRequests < after
               PROVE  FALSE
    BY <1>2, Sizes
  <2>1. MaxRequests * Parts + Parts <= after * Parts
    BY <1>2, Sizes, ProductGrows
  <2>2. after * Parts <= b
    BY <1>1, <1>2, Sizes, QuotientIs
  <2> DEFINE y == after * Parts
  <2>3. MostPieces + Parts <= y /\ y <= b /\ y \in Nat
    BY <1>2, <2>1, <2>2, Sizes DEF MostPieces
  <2> HIDE DEF y
  <2> QED
    BY <1>1, <2>3, Sizes
<1> DEFINE m == after - before
<1>5. m \in Nat /\ before + m <= MaxRequests
  BY <1>2, <1>3, <1>4, Sizes
<1>6. Parsed(c, pieces) = [i \in 1 .. m |-> <<c, before + i>>]
  BY DEF Parsed, a, b
<1> HIDE DEF before, after
<1>7. \A i \in 1 .. m : <<c, before + i>> \in Requests
  BY <1>2, <1>5, Sizes DEF Requests
<1> HIDE DEF m
<1>8. Parsed(c, pieces) \in Seq(Requests) /\ Len(Parsed(c, pieces)) = m
  BY <1>5, <1>6, <1>7
<1> QED
  BY <1>2, <1>3, <1>4, <1>6, <1>8 DEF before, after, a, b, m

-----------------------------------------------------------------------------
(* Types.                                                                  *)

\* The request that the IO thread is about, and what is left of ret then.
LEMMA NextRequestIs ==
  ASSUME Typed, IoInv, io.at \in {"read", "park"}, NextRequest
  PROVE  /\ io' \in IoRecords
         /\ io.ret # <<>> /\ io.ret \in Seq(Requests)
         /\ Head(io.ret) \in Requests /\ Head(io.ret) = io.ret[1]
         /\ io.conn \in Connections /\ Client(Head(io.ret)) = io.conn
         /\ io'.ret = Tail(io.ret)
         /\ \/ io' = IoWaits /\ Tail(io.ret) = <<>>
            \/ io'.at = "read" /\ io'.conn = io.conn /\ Tail(io.ret) # <<>>
<1>1. /\ io.ret # <<>> /\ io.ret \in Seq(Requests) /\ io.conn \in Connections
      /\ io \in IoRecords
  BY DEF Typed, IoInv, IoRecords
<1>2. /\ Head(io.ret) = io.ret[1] /\ Head(io.ret) \in Requests /\ Len(io.ret) \in Nat \ {0}
      /\ Tail(io.ret) \in Seq(Requests) /\ Len(Tail(io.ret)) = Len(io.ret) - 1
  BY <1>1
<1>3. Client(Head(io.ret)) = io.conn
  BY <1>2 DEF IoInv
<1> DEFINE rest == Tail(io.ret)
<1>4. rest \in Seq(Requests) /\ (rest = <<>> <=> Len(io.ret) = 1)
  <2>1. rest \in Seq(Requests) /\ Len(rest) = Len(io.ret) - 1 /\ Len(io.ret) \in Nat
    BY <1>2
  <2> HIDE DEF rest
  <2>2. rest = <<>> <=> Len(rest) = 0
    BY <2>1, LengthZero
  <2> QED
    BY <2>1, <2>2
<1>5. CASE Len(io.ret) = 1
  <2>1. Tail(io.ret) = <<>>
    BY <1>4, <1>5
  <2>2. IoWaits \in IoRecords
    <3>1. <<>> \in Seq(Requests)
      BY EmptySeq
    <3> QED
      BY <3>1 DEF IoWaits, IoRecords
  <2> QED
    BY <1>1, <1>2, <1>3, <1>5, <2>1, <2>2 DEF NextRequest, IoWaits
<1>6. CASE Len(io.ret) # 1
  <2>1. Tail(io.ret) # <<>>
    BY <1>4, <1>6
  <2>2. io' = [io EXCEPT !.at = "read", !.ret = Tail(io.ret)]
    BY <1>6 DEF NextRequest
  <2>3. io' \in IoRecords
    BY <1>1, <1>2, <2>2 DEF IoRecords
  <2> QED
    BY <1>1, <1>2, <1>3, <2>1, <2>2, <2>3 DEF IoRecords
<1> QED
  BY <1>5, <1>6

LEMMA InitInv == Init => IInv
<1> SUFFICES ASSUME Init
             PROVE  IInv
  OBVIOUS
<1> USE DEF Init
<1>1. /\ <<>> \in Seq(Requests) /\ <<>> \in Seq(SendRecords) /\ Len(<<>>) = 0
      /\ \A c \in Connections : conn[c] = NewConnection
      /\ \A w \in Workers : worker[w] = IdleWorker
  BY EmptySeq
<1>2. Typed
  <2>1. NewConnection \in ConnRecords
    BY <1>1 DEF NewConnection, ConnRecords
  <2>2. IoWaits \in IoRecords
    BY <1>1 DEF IoWaits, IoRecords
  <2>3. IdleWorker \in WorkerRecords
    BY DEF IdleWorker, WorkerRecords
  <2> QED
    BY <1>1, <2>1, <2>2, <2>3, Sizes DEF Typed
<1>3. StreamInv
  BY <1>1, Sizes DEF StreamInv, NewConnection
<1>4. IoInv
  BY <1>1 DEF IoInv, IoWaits
<1>5. ParkedInv /\ WorkersInv
  BY <1>1 DEF ParkedInv, WorkersInv, NewConnection, IdleWorker
<1>6. AnswersInv
  BY <1>1 DEF AnswersInv, NewConnection, IdleWorker
<1>7. ServedInv
  <2> SUFFICES ASSUME NEW r \in Requests
               PROVE  Places(r) = 0 /\ ~Arrived(r)
    BY DEF ServedInv
  <2>1. Client(r) \in Connections /\ r[2] \in Nat \ {0}
    BY DEF Client, Requests
  <2>2. ~Arrived(r)
    <3> DEFINE all == r[2] * Parts
    <3>1. all \in Nat \ {0}
      BY <2>1, Sizes
    <3>2. conn[Client(r)].received = 0
      BY <1>1, <2>1 DEF NewConnection
    <3>3. Arrived(r) <=> 0 >= all
      BY <3>2 DEF Arrived
    <3> HIDE DEF all
    <3> QED
      BY <3>1, <3>3
  <2>3. BeingServed(r, {"recv", "dispatch"}) = {}
    BY <1>1 DEF BeingServed, IdleWorker
  <2>4. /\ conn[Client(r)].dqe_ = <<>> /\ io.ret = <<>> /\ request_queue_ = <<>>
        /\ answered = {}
    BY <1>1, <2>1 DEF NewConnection, IoWaits
  <2>5. /\ Occurrences(io.ret, r) = 0 /\ Occurrences(request_queue_, r) = 0
        /\ Occurrences(conn[Client(r)].dqe_, r) = 0
    BY <2>4, OccurrencesOfEmpty
  <2>6. Cardinality(BeingServed(r, {"recv", "dispatch"})) = 0
    BY <2>3, FS_EmptySet
  <2>7. r \notin answered
    BY <2>4
  <2> QED
    BY <2>2, <2>5, <2>6, <2>7 DEF Places
<1>8. ReceivesInv
  <2> SUFFICES ASSUME NEW c \in Connections
               PROVE  0 <= 1 + Cardinality(Rearmed(c))
    BY <1>1, Sizes DEF ReceivesInv, NewConnection
  <2>1. Rearmed(c) = {}
    BY <1>1 DEF Rearmed, BeingServed, IdleWorker
  <2> QED
    BY <2>1, FS_EmptySet
<1> QED
  BY <1>2, <1>3, <1>4, <1>5, <1>6, <1>7, <1>8 DEF IInv

-----------------------------------------------------------------------------
(* Steps that serve no request.                                            *)

LEMMA RequestNumbers ==
  ASSUME NEW S \in SUBSET (1 .. MaxRequests)
  PROVE  /\ IsFiniteSet(S) /\ Cardinality(S) \in Nat /\ Cardinality(S) <= MaxRequests
         /\ \A T \in SUBSET S : Cardinality(T) <= Cardinality(S)
<1>1. /\ IsFiniteSet(1 .. MaxRequests) /\ Cardinality(1 .. MaxRequests) = MaxRequests
  BY FS_Interval, Sizes
<1>2. IsFiniteSet(S) /\ Cardinality(S) <= MaxRequests
  BY <1>1, FS_Subset
<1>3. \A T \in SUBSET S : Cardinality(T) <= Cardinality(S)
  BY <1>2, FS_Subset
<1> QED
  BY <1>2, <1>3, FS_CardinalityType

\* The receives of a connection, where at most one is posted by a step other
\* than a worker's.
LEMMA ReceivesStay ==
  ASSUME IInv, Typed',
         \A c \in Connections :
           \/ /\ conn'[c].state # "destroyed" => conn[c].state # "destroyed"
              /\ conn'[c].recvs <= conn[c].recvs
              /\ conn'[c].received = conn[c].received
           \/ /\ conn'[c].state # "destroyed" => conn[c].state # "destroyed"
              /\ conn'[c].recvs = conn[c].recvs - 1
           \/ /\ conn[c].state = "new" /\ conn'[c].recvs <= 1
              /\ conn'[c].received = conn[c].received,
         \A c \in Connections : conn'[c].state # "destroyed" => Rearmed(c) \subseteq Rearmed(c)'
  PROVE  ReceivesInv'
<1> SUFFICES ASSUME NEW c \in Connections
             PROVE  /\ conn'[c].recvs <= MaxRequests
                    /\ conn'[c].state # "destroyed"
                         => conn'[c].recvs + (IF conn'[c].received > 0 THEN 1 ELSE 0)
                              <= 1 + Cardinality(Rearmed(c)')
  BY DEF ReceivesInv
<1>1. /\ conn[c].recvs \in Nat /\ conn'[c].recvs \in Nat
      /\ conn[c].received \in Nat /\ conn'[c].received \in Nat
  BY DEF IInv, Typed, ConnRecords
<1>2. /\ conn[c].recvs <= MaxRequests
      /\ conn[c].state # "destroyed"
           => conn[c].recvs + (IF conn[c].received > 0 THEN 1 ELSE 0)
                <= 1 + Cardinality(Rearmed(c))
      /\ conn[c].state = "new" => conn[c].received = 0
  BY DEF IInv, ReceivesInv, StreamInv
<1>3. Rearmed(c)' \in SUBSET (1 .. MaxRequests) /\ Rearmed(c) \in SUBSET (1 .. MaxRequests)
  BY DEF Rearmed
<1>4. /\ Cardinality(Rearmed(c)) \in Nat /\ Cardinality(Rearmed(c)') \in Nat
      /\ conn'[c].state # "destroyed" => Cardinality(Rearmed(c)) <= Cardinality(Rearmed(c)')
  BY <1>3, RequestNumbers
<1> QED
  BY <1>1, <1>2, <1>4, Sizes

\* What a step that serves no request may make of one connection.
Quiet(c, k) ==
  /\ k \in ConnRecords
  /\ k.received = conn[c].received
  /\ k.sent = conn[c].sent \/ (k.sent = conn[c].sent + 1 /\ conn[c].sent < MostPieces)
  /\ k.state = "new" => conn[c].state = "new" /\ k.recvs = conn[c].recvs
  /\ k.state # "destroyed" => conn[c].state # "destroyed"
  /\ k.dqe_ = conn[c].dqe_ \/ (k.dqe_ = <<>> /\ k.state = "destroyed")
  /\ k.recvs <= conn[c].recvs \/ (conn[c].state = "new" /\ k.recvs <= 1)
  /\ \A i \in 1 .. Len(k.dqe1_) : k.dqe1_[i] \in answered
  /\ \A i \in 1 .. Len(k.sends) : k.sends[i].ans \subseteq answered

\* A step after which the requests are where they were.
LEMMA QuietKeeps ==
  ASSUME IInv, Typed', IoInv', WorkersInv', \A w \in Workers : worker'[w].ans \subseteq answered,
         io'.ret = io.ret, UNCHANGED <<request_queue_, answered>>,
         \A c \in Connections : Quiet(c, conn'[c]),
         \A r \in Requests : \/ conn'[Client(r)].state = "destroyed"
                             \/ /\ BeingServed(r, {"recv", "dispatch"})'
                                     = BeingServed(r, {"recv", "dispatch"})
                                /\ BeingServed(r, {"dispatch"})' = BeingServed(r, {"dispatch"})
  PROVE  IInv'
<1>1. /\ Typed /\ StreamInv /\ ParkedInv /\ ServedInv
      /\ \A c \in Connections : /\ conn[c] \in ConnRecords /\ conn'[c] \in ConnRecords
                                 /\ conn[c].sent \in Nat /\ conn[c].received \in Nat
      /\ \A r \in Requests : Client(r) \in Connections
  BY DEF IInv, Typed, ConnRecords, Client, Requests
<1>2. StreamInv'
  <2>1. MostPieces \in Nat
    BY Sizes
  <2>2. \A c \in Connections : conn[c].received <= conn[c].sent /\ conn[c].sent <= MostPieces
    BY <1>1 DEF StreamInv
  <2>3. \A c \in Connections : conn'[c].sent = conn[c].sent
                                \/ (conn'[c].sent = conn[c].sent + 1 /\ conn[c].sent < MostPieces)
    BY DEF Quiet
  <2>4. \A c \in Connections : conn'[c].received <= conn'[c].sent /\ conn'[c].sent <= MostPieces
    BY <1>1, <2>1, <2>2, <2>3 DEF Quiet
  <2>5. \A c \in Connections : conn'[c].state = "new"
                                 => conn'[c].recvs = 0 /\ conn'[c].received = 0
    BY <1>1 DEF StreamInv, Quiet
  <2> QED
    BY <2>4, <2>5 DEF StreamInv
<1>3. ParkedInv'
  <2> SUFFICES ASSUME NEW c \in Connections
               PROVE  \A i \in 1 .. Len(conn'[c].dqe_) : Client(conn'[c].dqe_[i]) = c
    BY DEF ParkedInv
  <2>1. CASE conn'[c].dqe_ = conn[c].dqe_
    BY <1>1, <2>1 DEF ParkedInv
  <2>2. CASE conn'[c].dqe_ = <<>>
    BY <2>2
  <2> QED
    BY <2>1, <2>2 DEF Quiet
<1>4. ServedInv'
  <2> SUFFICES ASSUME NEW r \in Requests, conn'[Client(r)].state # "destroyed"
               PROVE  Places(r)' = (IF Arrived(r)' THEN 1 ELSE 0)
    BY DEF ServedInv
  <2>1. /\ conn[Client(r)].state # "destroyed"
        /\ conn'[Client(r)].dqe_ = conn[Client(r)].dqe_
        /\ conn'[Client(r)].received = conn[Client(r)].received
    BY <1>1 DEF Quiet
  <2>2. BeingServed(r, {"recv", "dispatch"})' = BeingServed(r, {"recv", "dispatch"})
    OBVIOUS
  <2>3. Places(r)' = Places(r)
    BY <2>1, <2>2 DEF Places
  <2>4. Arrived(r)' <=> Arrived(r)
    BY <2>1 DEF Arrived
  <2> QED
    BY <1>1, <2>1, <2>3, <2>4 DEF ServedInv
<1>5. ReceivesInv'
  <2>1. \A c \in Connections : conn'[c].state # "destroyed" => Rearmed(c) \subseteq Rearmed(c)'
    <3> SUFFICES ASSUME NEW c \in Connections, conn'[c].state # "destroyed",
                        NEW i \in 1 .. MaxRequests
                 PROVE  i \in Rearmed(c) => i \in Rearmed(c)'
      BY DEF Rearmed
    <3>1. <<c, i>> \in Requests /\ Client(<<c, i>>) = c
      BY DEF Requests, Client
    <3>2. BeingServed(<<c, i>>, {"dispatch"})' = BeingServed(<<c, i>>, {"dispatch"})
      BY <3>1
    <3> QED
      BY <3>2 DEF Rearmed
  <2> QED
    BY <2>1, ReceivesStay DEF Quiet
<1>6. AnswersInv'
  BY DEF AnswersInv, Quiet
<1> QED
  BY <1>2, <1>3, <1>4, <1>5, <1>6 DEF IInv

LEMMA OneConnection ==
  ASSUME IInv, NEW c \in Connections, NEW k, Quiet(c, k), conn' = [conn EXCEPT ![c] = k]
  PROVE  conn' \in [Connections -> ConnRecords] /\ \A d \in Connections : Quiet(d, conn'[d])
<1>1. /\ conn \in [Connections -> ConnRecords]
      /\ \A d \in Connections : conn[d] \in ConnRecords /\ conn[d].recvs \in Nat
  BY DEF IInv, Typed, ConnRecords
<1>2. /\ conn' \in [Connections -> ConnRecords]
      /\ conn'[c] = k /\ \A d \in Connections : d # c => conn'[d] = conn[d]
  BY <1>1 DEF Quiet
<1>3. ASSUME NEW d \in Connections
      PROVE  Quiet(d, conn[d])
  <2>1. /\ \A i \in 1 .. Len(conn[d].dqe1_) : conn[d].dqe1_[i] \in answered
        /\ \A i \in 1 .. Len(conn[d].sends) : conn[d].sends[i].ans \subseteq answered
    BY DEF IInv, AnswersInv
  <2>2. conn[d] \in ConnRecords /\ conn[d].recvs <= conn[d].recvs
    BY <1>1
  <2> QED
    BY <2>1, <2>2 DEF Quiet
<1>4. ASSUME NEW d \in Connections
      PROVE  Quiet(d, conn'[d])
  BY <1>2, <1>3
<1> QED
  BY <1>2, <1>4

\* A step of a client, the accept thread or the IO thread.
LEMMA ConnectionKeeps ==
  ASSUME IInv, NEW c \in Connections, NEW k, Quiet(c, k), conn' = [conn EXCEPT ![c] = k],
         UNCHANGED <<request_queue_, worker, answered>>,
         io' \in IoRecords, IoInv', io'.ret = io.ret
  PROVE  IInv'
<1>1. Typed'
  BY OneConnection DEF IInv, Typed
<1>2. WorkersInv' /\ \A w \in Workers : worker'[w].ans \subseteq answered
  BY DEF IInv, WorkersInv, AnswersInv
<1>3. \A r : /\ BeingServed(r, {"recv", "dispatch"})' = BeingServed(r, {"recv", "dispatch"})
             /\ BeingServed(r, {"dispatch"})' = BeingServed(r, {"dispatch"})
  BY DEF BeingServed
<1> QED
  BY <1>1, <1>2, <1>3, OneConnection, QuietKeeps

\* A step of a worker that is done with its request, or goes on to the next
\* statement with it.
LEMMA WorkerKeeps ==
  ASSUME IInv, NEW w \in Workers, NEW v \in WorkerRecords,
         worker' = [worker EXCEPT ![w] = v],
         {v.at, worker[w].at} \cap {"recv", "dispatch"} = {},
         v.at \notin {"idle", "undefined"} => v.message \in Requests,
         v.ans \subseteq answered,
         NEW c \in Connections, NEW k, Quiet(c, k), conn' = [conn EXCEPT ![c] = k],
         UNCHANGED <<request_queue_, io, answered>>
  PROVE  IInv'
<1>1. /\ worker \in [Workers -> WorkerRecords] /\ worker'[w] = v
      /\ \A x \in Workers : x # w => worker'[x] = worker[x]
      /\ worker' \in [Workers -> WorkerRecords]
  BY DEF IInv, Typed
<1>2. Typed'
  BY <1>1, OneConnection DEF IInv, Typed
<1>3. IoInv'
  BY DEF IInv, IoInv
<1>4. WorkersInv'
  BY <1>1 DEF IInv, WorkersInv
<1>5. \A x \in Workers : worker'[x].ans \subseteq answered
  BY <1>1 DEF IInv, AnswersInv
<1>6. \A r : /\ BeingServed(r, {"recv", "dispatch"})' = BeingServed(r, {"recv", "dispatch"})
             /\ BeingServed(r, {"dispatch"})' = BeingServed(r, {"dispatch"})
  BY <1>1 DEF BeingServed
<1> QED
  BY <1>2, <1>3, <1>4, <1>5, <1>6, OneConnection, QuietKeeps

-----------------------------------------------------------------------------
(* The steps of the clients and of the IO thread that serve no request.    *)

\* Connection k and its fields, but for those that nothing depends on.
Has(k, state, sent, received, recvs, sends, dqe_, dqe1_) ==
  /\ k \in ConnRecords /\ k.state = state
  /\ k.sent = sent /\ k.received = received
  /\ k.recvs = recvs /\ k.sends = sends
  /\ k.dqe_ = dqe_ /\ k.dqe1_ = dqe1_

LEMMA Edited ==
  ASSUME NEW j \in ConnRecords
  PROVE  /\ Has(j, j.state, j.sent, j.received, j.recvs, j.sends, j.dqe_, j.dqe1_)
         /\ \A x \in {"new", "open", "closed", "destroyed"} :
              Has([j EXCEPT !.state = x],
                  x, j.sent, j.received, j.recvs, j.sends, j.dqe_, j.dqe1_)
         /\ Has([j EXCEPT !.left = TRUE],
                j.state, j.sent, j.received, j.recvs, j.sends, j.dqe_, j.dqe1_)
         /\ \A x \in Nat :
              /\ Has([j EXCEPT !.sent = x],
                     j.state, x, j.received, j.recvs, j.sends, j.dqe_, j.dqe1_)
              /\ Has([j EXCEPT !.recvs = x],
                     j.state, j.sent, j.received, x, j.sends, j.dqe_, j.dqe1_)
              /\ Has([j EXCEPT !.spaces = x],
                     j.state, j.sent, j.received, j.recvs, j.sends, j.dqe_, j.dqe1_)
         /\ \A x \in Seq(SendRecords) :
              Has([j EXCEPT !.sends = x],
                  j.state, j.sent, j.received, j.recvs, x, j.dqe_, j.dqe1_)
         /\ \A x \in Seq(Requests) :
              /\ Has([j EXCEPT !.dqe_ = x],
                     j.state, j.sent, j.received, j.recvs, j.sends, x, j.dqe1_)
              /\ Has([j EXCEPT !.dqe1_ = x],
                     j.state, j.sent, j.received, j.recvs, j.sends, j.dqe_, x)
  BY DEF ConnRecords, Has

LEMMA ConnectionIs ==
  ASSUME IInv, NEW c \in Connections
  PROVE  /\ conn[c] \in ConnRecords /\ conn[c].recvs \in Nat /\ conn[c].spaces \in Nat
         /\ conn[c].sent \in Nat /\ conn[c].received \in Nat
         /\ conn[c].sends \in Seq(SendRecords)
         /\ conn[c].dqe1_ \in Seq(Requests) /\ conn[c].dqe_ \in Seq(Requests)
         /\ \A i \in 1 .. Len(conn[c].dqe1_) : conn[c].dqe1_[i] \in answered
         /\ \A i \in 1 .. Len(conn[c].sends) : conn[c].sends[i].ans \subseteq answered
  BY DEF IInv, Typed, AnswersInv, ConnRecords

\* A connection that is left with the receives that it had, or fewer.
LEMMA QuietIs ==
  ASSUME IInv, NEW c \in Connections, NEW state, NEW recvs \in Nat, NEW sends, NEW dqe1_, NEW k,
         Has(k, state, conn[c].sent, conn[c].received, recvs, sends, conn[c].dqe_, dqe1_),
         state = conn[c].state \/ (state = "closed" /\ conn[c].state # "destroyed"),
         recvs = conn[c].recvs \/ (recvs < conn[c].recvs /\ conn[c].state # "new"),
         \A i \in 1 .. Len(dqe1_) : dqe1_[i] \in answered,
         \A i \in 1 .. Len(sends) : sends[i].ans \subseteq answered
  PROVE  Quiet(c, k)
  BY ConnectionIs DEF Quiet, Has

LEMMA TailKeeps ==
  ASSUME NEW S, NEW s \in Seq(S), s # <<>>
  PROVE  /\ Tail(s) \in Seq(S)
         /\ \A i \in 1 .. Len(Tail(s)) : i + 1 \in 1 .. Len(s) /\ Tail(s)[i] = s[i + 1]
         /\ Head(s) \in S /\ Head(s) = s[1] /\ 1 \in 1 .. Len(s)
  OBVIOUS

LEMMA QuietUnchanged ==
  ASSUME IInv, NEW c \in Connections
  PROVE  Quiet(c, conn[c])
<1>1. Has(conn[c], conn[c].state, conn[c].sent, conn[c].received, conn[c].recvs, conn[c].sends,
          conn[c].dqe_, conn[c].dqe1_)
  BY ConnectionIs DEF Has
<1> QED
  BY <1>1, ConnectionIs, QuietIs

\* Closing, or losing a receive or a send that has ended.
LEMMA QuietEdits ==
  ASSUME IInv, NEW c \in Connections, NEW j, j = conn[c]
  PROVE  /\ Quiet(c, Closed(j))
         /\ \A x \in Nat : Quiet(c, [j EXCEPT !.spaces = x])
         /\ Quiet(c, [j EXCEPT !.left = TRUE])
         /\ j.sends # <<>> => /\ Quiet(c, [j EXCEPT !.sends = Tail(j.sends)])
                              /\ Quiet(c, Closed([j EXCEPT !.sends = Tail(j.sends)]))
         /\ j.recvs > 0 => Quiet(c, [j EXCEPT !.recvs = j.recvs - 1])
<1>1. /\ j \in ConnRecords /\ j.recvs \in Nat /\ j.sends \in Seq(SendRecords)
      /\ \A i \in 1 .. Len(j.dqe1_) : j.dqe1_[i] \in answered
      /\ \A i \in 1 .. Len(j.sends) : j.sends[i].ans \subseteq answered
  BY ConnectionIs
<1>2. ASSUME NEW k, NEW state, NEW recvs \in Nat, NEW sends,
             Has(k, state, j.sent, j.received, recvs, sends, j.dqe_, j.dqe1_),
             state = j.state \/ (state = "closed" /\ j.state # "destroyed"),
             recvs = j.recvs \/ (recvs < j.recvs /\ j.state # "new"),
             \A i \in 1 .. Len(sends) : sends[i].ans \subseteq answered
      PROVE  Quiet(c, k)
  <2>1. /\ Has(k, state, conn[c].sent, conn[c].received, recvs, sends, conn[c].dqe_, conn[c].dqe1_)
        /\ state = conn[c].state \/ (state = "closed" /\ conn[c].state # "destroyed")
        /\ recvs = conn[c].recvs \/ (recvs < conn[c].recvs /\ conn[c].state # "new")
        /\ \A i \in 1 .. Len(conn[c].dqe1_) : conn[c].dqe1_[i] \in answered
    BY <1>1, <1>2
  <2> QED
    BY <1>2, <2>1, QuietIs
<1>3. ASSUME NEW k \in ConnRecords
      PROVE  \E x \in {"new", "open", "closed", "destroyed"} :
               /\ Closed(k) = [k EXCEPT !.state = x]
               /\ x = k.state \/ (x = "closed" /\ k.state = "open")
  <2>1. k.state \in {"new", "open", "closed", "destroyed"}
    BY DEF ConnRecords
  <2> QED
    BY <2>1, ClosedIs
<1>4. Quiet(c, Closed(j))
  <2>1. PICK x \in {"new", "open", "closed", "destroyed"} :
          /\ Closed(j) = [j EXCEPT !.state = x]
          /\ x = j.state \/ (x = "closed" /\ j.state = "open")
    BY <1>1, <1>3
  <2>2. Has([j EXCEPT !.state = x], x, j.sent, j.received, j.recvs, j.sends, j.dqe_, j.dqe1_)
    BY <1>1, Edited
  <2>3. Has(Closed(j), x, j.sent, j.received, j.recvs, j.sends, j.dqe_, j.dqe1_)
    BY <2>1, <2>2
  <2> QED
    BY <1>1, <1>2, <2>1, <2>3
<1>5. ASSUME NEW x \in Nat
      PROVE  Quiet(c, [j EXCEPT !.spaces = x])
  <2>1. Has([j EXCEPT !.spaces = x],
            j.state, j.sent, j.received, j.recvs, j.sends, j.dqe_, j.dqe1_)
    BY <1>1, Edited
  <2> QED
    BY <1>1, <1>2, <2>1
<1>6. Quiet(c, [j EXCEPT !.left = TRUE])
  <2>1. Has([j EXCEPT !.left = TRUE],
            j.state, j.sent, j.received, j.recvs, j.sends, j.dqe_, j.dqe1_)
    BY <1>1, Edited
  <2> QED
    BY <1>1, <1>2, <2>1
<1>7. ASSUME j.sends # <<>>
      PROVE  /\ Quiet(c, [j EXCEPT !.sends = Tail(j.sends)])
             /\ Quiet(c, Closed([j EXCEPT !.sends = Tail(j.sends)]))
  <2> DEFINE rest == Tail(j.sends)
             k == [j EXCEPT !.sends = rest]
  <2>1. rest \in Seq(SendRecords) /\ \A i \in 1 .. Len(rest) : rest[i].ans \subseteq answered
    BY <1>1, <1>7, TailKeeps
  <2> HIDE DEF rest
  <2>2. Has(k, j.state, j.sent, j.received, j.recvs, rest, j.dqe_, j.dqe1_)
    BY <1>1, <2>1, Edited
  <2> HIDE DEF k
  <2>3. Quiet(c, k)
    BY <1>1, <1>2, <2>1, <2>2
  <2>4. k \in ConnRecords /\ k.state = j.state
    BY <2>2 DEF Has
  <2>5. PICK x \in {"new", "open", "closed", "destroyed"} :
          /\ Closed(k) = [k EXCEPT !.state = x]
          /\ x = k.state \/ (x = "closed" /\ k.state = "open")
    BY <1>3, <2>4
  <2>6. Has(Closed(k), x, k.sent, k.received, k.recvs, k.sends, k.dqe_, k.dqe1_)
    BY <2>4, <2>5, Edited
  <2>7. Has(Closed(k), x, j.sent, j.received, j.recvs, rest, j.dqe_, j.dqe1_)
    BY <2>2, <2>6 DEF Has
  <2>8. Quiet(c, Closed(k))
    BY <1>1, <1>2, <2>1, <2>4, <2>5, <2>7
  <2> QED
    BY <2>3, <2>8 DEF k, rest
<1>8. ASSUME j.recvs > 0
      PROVE  Quiet(c, [j EXCEPT !.recvs = j.recvs - 1])
  <2>1. j.recvs - 1 \in Nat /\ j.recvs - 1 < j.recvs /\ j.state # "new"
    BY <1>1, <1>8 DEF IInv, StreamInv
  <2>2. Has([j EXCEPT !.recvs = j.recvs - 1],
            j.state, j.sent, j.received, j.recvs - 1, j.sends, j.dqe_, j.dqe1_)
    BY <1>1, <2>1, Edited
  <2> QED
    BY <1>1, <1>2, <2>1, <2>2
<1> QED
  BY <1>4, <1>5, <1>6, <1>7, <1>8

LEMMA ClientsKeep ==
  ASSUME IInv, NEW c \in Connections, ClientSend(c) \/ ClientLeave(c) \/ AddConnection(c)
  PROVE  IInv'
<1>1. io' = io /\ io \in IoRecords /\ IoInv
  BY DEF IInv, Typed, ClientSend, ClientLeave, AddConnection
<1>2. IoInv'
  BY <1>1 DEF IoInv
<1>3. UNCHANGED <<request_queue_, worker, answered>>
  BY DEF ClientSend, ClientLeave, AddConnection
<1>4. PICK j : j = conn[c]
  OBVIOUS
<1>5. /\ j \in ConnRecords /\ j.sent \in Nat /\ j.recvs \in Nat
      /\ \A i \in 1 .. Len(j.dqe1_) : j.dqe1_[i] \in answered
      /\ \A i \in 1 .. Len(j.sends) : j.sends[i].ans \subseteq answered
  BY <1>4, ConnectionIs
<1>6. PICK k : Quiet(c, k) /\ conn' = [conn EXCEPT ![c] = k]
  <2>1. CASE ClientSend(c)
    <3>1. PICK x \in Nat : x = j.sent + 1
      BY <1>5
    <3> DEFINE k == [j EXCEPT !.sent = x]
    <3>2. conn' = [conn EXCEPT ![c] = k] /\ j.sent < MostPieces
      BY <1>4, <2>1, <3>1 DEF ClientSend, MostPieces
    <3>3. Has(k, j.state, x, j.received, j.recvs, j.sends, j.dqe_, j.dqe1_)
      BY <1>5, Edited
    <3> HIDE DEF k
    <3>4. Quiet(c, k)
      BY <1>4, <1>5, <3>1, <3>2, <3>3 DEF Quiet, Has
    <3> QED
      BY <3>2, <3>4 DEF k
  <2>2. CASE ClientLeave(c)
    <3>1. conn' = [conn EXCEPT ![c] = [j EXCEPT !.left = TRUE]]
      BY <1>4, <2>2 DEF ClientLeave
    <3>2. Quiet(c, [j EXCEPT !.left = TRUE])
      BY <1>4, QuietEdits
    <3> QED
      BY <3>1, <3>2
  <2>3. CASE AddConnection(c)
    <3>1. j.state = "new" /\ j.recvs = 0
      BY <1>4, <2>3 DEF AddConnection, IInv, StreamInv
    <3> DEFINE n == [j EXCEPT !.state = "open"]
    <3>2. PICK k \in PostRecv(n) : conn' = [conn EXCEPT ![c] = k]
      BY <1>4, <2>3 DEF AddConnection
    <3>3. Has(n, "open", j.sent, j.received, 0, j.sends, j.dqe_, j.dqe1_)
      BY <1>5, <3>1, Edited
    <3> HIDE DEF n
    <3>4. n \in ConnRecords /\ n.state = "open" /\ n.recvs + 1 = 1
      BY <3>3 DEF Has
    <3>5. k = [n EXCEPT !.recvs = 1] \/ k = [n EXCEPT !.state = "closed"]
      BY <3>4, PostRecvIs
    <3>6. /\ Has([n EXCEPT !.recvs = 1],
                 n.state, n.sent, n.received, 1, n.sends, n.dqe_, n.dqe1_)
          /\ Has([n EXCEPT !.state = "closed"],
                 "closed", n.sent, n.received, n.recvs, n.sends, n.dqe_, n.dqe1_)
      BY <3>4, Edited
    <3>7. \E state \in {"open", "closed"}, recvs \in {0, 1} :
            Has(k, state, j.sent, j.received, recvs, j.sends, j.dqe_, j.dqe1_)
      BY <3>3, <3>5, <3>6 DEF Has
    <3>8. Quiet(c, k)
      BY <1>4, <1>5, <3>1, <3>7 DEF Quiet, Has
    <3> QED
      BY <3>2, <3>8
  <2> QED
    BY <2>1, <2>2, <2>3
<1> QED
  BY <1>1, <1>2, <1>3, <1>6, ConnectionKeeps

LEMMA CompletionsKeep ==
  ASSUME IInv, NEW c \in Connections,
         HandleWrite(c) \/ HandleQueueSpace(c) \/ OperationFails(c) \/ IoUsesDestroyed(c)
  PROVE  IInv'
<1>1. io \in IoRecords /\ io.at = "wait" /\ io.ret = <<>>
  <2>1. io.at = "wait"
    BY DEF HandleWrite, HandleQueueSpace, OperationFails, IoUsesDestroyed
  <2> QED
    BY <2>1 DEF IInv, Typed, IoInv
<1>2. UNCHANGED <<request_queue_, worker, answered>>
  BY DEF HandleWrite, HandleQueueSpace, OperationFails, IoUsesDestroyed
<1>3. \/ io' = io \/ io' = [io EXCEPT !.at = "undefined"]
      \/ \E x \in {"blocked", "space"} : io' = [io EXCEPT !.at = x, !.conn = c]
  BY DEF HandleWrite, HandleQueueSpace, OperationFails, IoUsesDestroyed
<1>4. /\ io' \in IoRecords /\ io'.ret = io.ret
      /\ io'.at = "wait" \/ io'.at = "undefined" \/ io'.at = "blocked"
           \/ (io'.at = "space" /\ io'.conn = c)
  BY <1>1, <1>3 DEF IoRecords
<1>5. IoInv'
  <2>1. io'.ret = <<>> /\ Len(io'.ret) = 0
    BY <1>1, <1>4
  <2> QED
    BY <1>4, <2>1 DEF IoInv
<1>6. PICK j : j = conn[c]
  OBVIOUS
<1>7. /\ j \in ConnRecords /\ j.recvs \in Nat /\ j.spaces \in Nat
      /\ j.sends \in Seq(SendRecords)
      /\ \A i \in 1 .. Len(j.sends) : j.sends[i].ans \subseteq answered
  BY <1>6, ConnectionIs
<1>8. PICK k : Quiet(c, k) /\ conn' = [conn EXCEPT ![c] = k]
  <2>1. CASE HandleWrite(c)
    <3> DEFINE k == [j EXCEPT !.sends = Tail(j.sends)]
    <3>1. j.sends # <<>>
      BY <1>6, <2>1 DEF HandleWrite
    <3>2. Quiet(c, k) /\ Quiet(c, Closed(k))
      BY <1>6, <3>1, QuietEdits
    <3>3. conn' = [conn EXCEPT ![c] = k] \/ conn' = [conn EXCEPT ![c] = Closed(k)]
      BY <1>6, <2>1 DEF HandleWrite
    <3> QED
      BY <3>2, <3>3
  <2>2. CASE HandleQueueSpace(c)
    <3>1. PICK x \in Nat : x = j.spaces - 1
      BY <1>6, <1>7, <2>2 DEF HandleQueueSpace
    <3>2. conn' = [conn EXCEPT ![c] = [j EXCEPT !.spaces = x]]
      BY <1>6, <2>2, <3>1 DEF HandleQueueSpace
    <3>3. Quiet(c, [j EXCEPT !.spaces = x])
      BY <1>6, QuietEdits
    <3> QED
      BY <3>2, <3>3
  <2>3. CASE OperationFails(c)
    <3>1. PICK k \in OneLess(j) :
            conn' = [conn EXCEPT ![c] =
              IF k.state = "open" THEN k
              ELSE [k EXCEPT !.state = "destroyed", !.dqe_ = <<>>, !.dqe1_ = <<>>]]
      BY <1>6, <2>3 DEF OperationFails
    <3>2. \/ j.recvs > 0 /\ k = [j EXCEPT !.recvs = j.recvs - 1]
          \/ j.sends # <<>> /\ k = [j EXCEPT !.sends = Tail(j.sends)]
      BY <3>1 DEF OneLess
    <3>3. Quiet(c, k) /\ k.sent = j.sent
      <4>1. CASE j.recvs > 0 /\ k = [j EXCEPT !.recvs = j.recvs - 1]
        <5>1. Quiet(c, [j EXCEPT !.recvs = j.recvs - 1])
          BY <1>6, <4>1, QuietEdits
        <5>2. k.sent = j.sent
          BY <1>7, <4>1 DEF ConnRecords
        <5> QED
          BY <4>1, <5>1, <5>2
      <4>2. CASE j.sends # <<>> /\ k = [j EXCEPT !.sends = Tail(j.sends)]
        <5>1. Quiet(c, [j EXCEPT !.sends = Tail(j.sends)])
          BY <1>6, <4>2, QuietEdits
        <5>2. k.sent = j.sent
          BY <1>7, <4>2 DEF ConnRecords
        <5> QED
          BY <4>2, <5>1, <5>2
      <4> QED
        BY <3>2, <4>1, <4>2
    <3> DEFINE l == [k EXCEPT !.state = "destroyed", !.dqe_ = <<>>, !.dqe1_ = <<>>]
    <3>4. /\ l \in ConnRecords /\ l.state = "destroyed"
          /\ l.sent = k.sent /\ l.received = k.received
          /\ l.recvs = k.recvs /\ l.sends = k.sends
          /\ l.dqe_ = <<>> /\ l.dqe1_ = <<>> /\ Len(<<>>) = 0
      <4>1. <<>> \in Seq(Requests) /\ k \in ConnRecords
        BY <3>3, EmptySeq DEF Quiet
      <4> QED
        BY <4>1 DEF ConnRecords
    <3>5. j.state # "new"
      BY <1>6, <2>3 DEF OperationFails, Exists
    <3>6. k.recvs <= j.recvs /\ k.received = j.received
          /\ \A i \in 1 .. Len(k.sends) : k.sends[i].ans \subseteq answered
      BY <1>6, <3>3, <3>5 DEF Quiet
    <3> HIDE DEF l
    <3>7. Quiet(c, l)
      BY <1>6, <3>3, <3>4, <3>5, <3>6 DEF Quiet
    <3> QED
      BY <3>1, <3>3, <3>7 DEF l
  <2>4. CASE IoUsesDestroyed(c)
    <3>1. conn' = [conn EXCEPT ![c] = conn[c]]
      BY <2>4 DEF IoUsesDestroyed, IInv, Typed
    <3> QED
      BY <3>1, QuietUnchanged
  <2> QED
    BY <2>1, <2>2, <2>3, <2>4
<1> QED
  BY <1>2, <1>4, <1>5, <1>8, ConnectionKeeps

\* handleRead sees the queue full; handqueuefull ends.
LEMMA IoGoesOnKeeps ==
  ASSUME IInv, HandleReadFull \/ MoveParkedEnds
  PROVE  IInv'
<1>1. CASE HandleReadFull
  <2>1. /\ io \in IoRecords /\ IoInv /\ io.at = "read" /\ io' = [io EXCEPT !.at = "park"]
        /\ conn' = conn
    BY <1>1 DEF HandleReadFull, IInv, Typed
  <2>2. io' \in IoRecords /\ io'.ret = io.ret /\ IoInv' /\ io.conn \in Connections
    BY <2>1 DEF IoRecords, IoInv
  <2>3. Quiet(io.conn, conn[io.conn])
    BY <2>2, QuietUnchanged
  <2>4. conn' = [conn EXCEPT ![io.conn] = conn[io.conn]]
    BY <2>1, <2>2 DEF IInv, Typed
  <2>5. UNCHANGED <<request_queue_, worker, answered>>
    BY <1>1 DEF HandleReadFull
  <2> QED
    BY <2>2, <2>3, <2>4, <2>5, ConnectionKeeps
<1>2. CASE MoveParkedEnds
  <2>1. /\ io \in IoRecords /\ IoInv /\ io.at = "space" /\ io' = IoWaits
        /\ UNCHANGED <<request_queue_, worker, answered>>
    BY <1>2 DEF MoveParkedEnds, IInv, Typed
  <2>2. io.ret = <<>> /\ io.conn \in Connections
    BY <2>1 DEF IoInv
  <2>3. io' \in IoRecords /\ io'.ret = io.ret /\ io'.at = "wait" /\ Len(io'.ret) = 0
    <3>1. <<>> \in Seq(Requests) /\ Len(<<>>) = 0
      BY EmptySeq
    <3> QED
      BY <2>1, <2>2, <3>1 DEF IoWaits, IoRecords
  <2>4. IoInv'
    BY <2>2, <2>3 DEF IoInv
  <2>5. PICK j : j = conn[io.conn]
    OBVIOUS
  <2>6. PICK k \in {j} \cup PostSpace(j) : conn' = [conn EXCEPT ![io.conn] = k]
    BY <1>2, <2>5 DEF MoveParkedEnds
  <2>7. j \in ConnRecords /\ \E x \in Nat : x = j.spaces + 1
    BY <2>2, <2>5, ConnectionIs
  <2>8. k = j \/ \E x \in Nat : k = [j EXCEPT !.spaces = x]
    BY <2>6, <2>7, PostSpaceIs
  <2>9. Quiet(io.conn, k)
    <3>1. Quiet(io.conn, j) /\ \A x \in Nat : Quiet(io.conn, [j EXCEPT !.spaces = x])
      BY <2>2, <2>5, QuietEdits, QuietUnchanged
    <3> QED
      BY <2>8, <3>1
  <2> QED
    BY <2>1, <2>2, <2>3, <2>4, <2>6, <2>9, ConnectionKeeps
<1> QED
  BY <1>1, <1>2

-----------------------------------------------------------------------------
(* The workers' steps after the response was added.                        *)

LEMMA WorkerIs ==
  ASSUME IInv, NEW w \in Workers
  PROVE  /\ worker[w] \in WorkerRecords
         /\ worker[w].n \in {0, 1} /\ worker[w].ans \subseteq answered
         /\ worker[w].at \notin {"idle", "undefined"}
              => worker[w].message \in Requests /\ ConnOf(w) \in Connections
<1>1. worker[w] \in WorkerRecords /\ worker[w].ans \subseteq answered
  BY DEF IInv, Typed, AnswersInv
<1>2. worker[w].at \notin {"idle", "undefined"} => worker[w].message \in Requests
  BY DEF IInv, WorkersInv
<1> QED
  BY <1>1, <1>2 DEF WorkerRecords, ConnOf, Client, Requests

LEMMA PostSendKeeps ==
  ASSUME IInv, NEW w \in Workers,
         \/ PostSendSwap(w) \/ PostSendFails(w) \/ PostSendEncode(w)
         \/ PostSendPop(w) \/ PostSend(w) \/ NotifySpace(w)
  PROVE  IInv'
<1> DEFINE c == ConnOf(w)
<1>1. worker[w].at \in {"swap", "drain", "pop", "space"}
  BY DEF PostSendSwap, PostSendFails, PostSendEncode, PostSendPop, PostSend, NotifySpace, Step
<1>2. PICK u : u = worker[w]
  OBVIOUS
<1>3. PICK j : j = conn[c]
  OBVIOUS
<1>4. /\ u \in WorkerRecords /\ u.n \in {0, 1} /\ u.ans \subseteq answered
      /\ u.message \in Requests /\ c \in Connections
      /\ answered \subseteq Requests
  BY <1>1, <1>2, WorkerIs DEF IInv, Typed
<1>5. j.state \in {"open", "closed"}
  BY <1>3 DEF PostSendSwap, PostSendFails, PostSendEncode, PostSendPop, PostSend, NotifySpace,
              Step, Exists
<1>6. /\ j \in ConnRecords /\ j.recvs \in Nat /\ j.spaces \in Nat
      /\ j.sends \in Seq(SendRecords) /\ j.dqe1_ \in Seq(Requests)
      /\ \A i \in 1 .. Len(j.dqe1_) : j.dqe1_[i] \in answered
      /\ \A i \in 1 .. Len(j.sends) : j.sends[i].ans \subseteq answered
  BY <1>3, <1>4, ConnectionIs
<1>7. /\ UNCHANGED <<request_queue_, io, answered>>
  BY DEF PostSendSwap, PostSendFails, PostSendEncode, PostSendPop, PostSend, NotifySpace
<1>8. Quiet(c, j) /\ Quiet(c, Closed(j)) /\ \A x \in Nat : Quiet(c, [j EXCEPT !.spaces = x])
  BY <1>3, <1>4, QuietEdits, QuietUnchanged
<1> HIDE DEF c
<1>9. ASSUME NEW x \in Seq(Requests), \A i \in 1 .. Len(x) : x[i] \in answered
      PROVE  Quiet(c, [j EXCEPT !.dqe1_ = x])
  <2>1. Has([j EXCEPT !.dqe1_ = x],
            j.state, j.sent, j.received, j.recvs, j.sends, j.dqe_, x)
    BY <1>6, Edited
  <2> QED
    BY <1>3, <1>4, <1>6, <1>9, <2>1, QuietIs
<1>10. ASSUME NEW v \in WorkerRecords, NEW k, Quiet(c, k),
              worker' = [worker EXCEPT ![w] = v], conn' = [conn EXCEPT ![c] = k],
              v.at \in {"idle", "drain", "pop", "space", "undefined"},
              v.message = u.message \/ v.at = "idle", v.ans \subseteq answered
       PROVE  IInv'
  <2>1. {v.at, worker[w].at} \cap {"recv", "dispatch"} = {}
    BY <1>1, <1>10
  <2>2. v.at \notin {"idle", "undefined"} => v.message \in Requests
    BY <1>4, <1>10
  <2> QED
    BY <1>4, <1>7, <1>10, <2>1, <2>2, WorkerKeeps
<1>11. CASE PostSendSwap(w)
  <2>1. PICK m \in LeftOver : worker' = [worker EXCEPT ![w] = [u EXCEPT !.at = "drain", !.n = m]]
    BY <1>2, <1>11 DEF PostSendSwap, Step, At
  <2> DEFINE v == [u EXCEPT !.at = "drain", !.n = m]
  <2>2. v \in WorkerRecords /\ v.at = "drain" /\ v.message = u.message /\ v.ans = u.ans
    BY <1>4, <2>1, LeftOverAssumption DEF WorkerRecords
  <2>3. conn' = [conn EXCEPT ![c] = [j EXCEPT !.dqe1_ = <<>>]]
    BY <1>3, <1>11 DEF PostSendSwap, c
  <2>4. Quiet(c, [j EXCEPT !.dqe1_ = <<>>])
    <3>1. <<>> \in Seq(Requests) /\ \A i \in 1 .. Len(<<>>) : <<>>[i] \in answered
      BY EmptySeq
    <3> QED
      BY <1>9, <3>1
  <2> HIDE DEF v
  <2>5. worker' = [worker EXCEPT ![w] = v]
    BY <2>1 DEF v
  <2> QED
    BY <1>4, <1>10, <2>2, <2>3, <2>4, <2>5
<1>12. CASE PostSendFails(w)
  <2> DEFINE v == [u EXCEPT !.at = "space"]
  <2>1. worker' = [worker EXCEPT ![w] = v] /\ conn' = [conn EXCEPT ![c] = Closed(j)]
    BY <1>2, <1>3, <1>12 DEF PostSendFails, Step, At, c
  <2>2. v \in WorkerRecords /\ v.at = "space" /\ v.message = u.message /\ v.ans = u.ans
    BY <1>4 DEF WorkerRecords
  <2> HIDE DEF v
  <2> QED
    BY <1>4, <1>8, <1>10, <2>1, <2>2
<1>13. CASE PostSendEncode(w)
  <2> DEFINE ans == u.ans \cup {Head(j.dqe1_)}
             v == [u EXCEPT !.at = "pop", !.n = 1, !.ans = ans]
  <2>1. worker' = [worker EXCEPT ![w] = v] /\ conn' = conn /\ j.dqe1_ # <<>>
    BY <1>2, <1>3, <1>13 DEF PostSendEncode, Step, At, c
  <2>2. ans \subseteq answered
    <3>1. Head(j.dqe1_) \in answered
      BY <1>6, <2>1, TailKeeps
    <3> QED
      BY <1>4, <3>1
  <2>3. ans \in SUBSET Requests
    BY <1>4, <2>2
  <2> HIDE DEF ans
  <2>4. v \in WorkerRecords /\ v.at = "pop" /\ v.message = u.message /\ v.ans = ans
    BY <1>4, <2>3 DEF WorkerRecords
  <2> HIDE DEF v
  <2>5. conn' = [conn EXCEPT ![c] = j]
    BY <1>3, <1>4, <2>1 DEF IInv, Typed, c
  <2> QED
    BY <1>4, <1>8, <1>10, <2>1, <2>2, <2>4, <2>5
<1>14. CASE PostSendPop(w)
  <2> DEFINE at == IF j.dqe1_ = <<>> THEN "undefined" ELSE "drain"
             v == [u EXCEPT !.at = at]
  <2>1. worker' = [worker EXCEPT ![w] = v]
    BY <1>2, <1>3, <1>14 DEF PostSendPop, Step, At, c
  <2>2. v \in WorkerRecords /\ v.at = at /\ v.message = u.message /\ v.ans = u.ans
    BY <1>4 DEF WorkerRecords
  <2>3. at \in {"drain", "undefined"}
    OBVIOUS
  <2> HIDE DEF at, v
  <2>4. PICK k : Quiet(c, k) /\ conn' = [conn EXCEPT ![c] = k]
    <3>1. CASE j.dqe1_ = <<>>
      <4>1. conn' = [conn EXCEPT ![c] = j]
        BY <1>3, <1>4, <1>14, <3>1 DEF PostSendPop, IInv, Typed, c
      <4> QED
        BY <1>8, <4>1
    <3>2. CASE j.dqe1_ # <<>>
      <4>1. conn' = [conn EXCEPT ![c] = [j EXCEPT !.dqe1_ = Tail(j.dqe1_)]]
        BY <1>3, <1>14, <3>2 DEF PostSendPop, c
      <4>2. /\ Tail(j.dqe1_) \in Seq(Requests)
            /\ \A i \in 1 .. Len(Tail(j.dqe1_)) : Tail(j.dqe1_)[i] \in answered
        BY <1>6, <3>2, TailKeeps
      <4> QED
        BY <1>9, <4>1, <4>2
    <3> QED
      BY <3>1, <3>2
  <2> QED
    BY <1>4, <1>10, <2>1, <2>2, <2>3, <2>4
<1>15. CASE PostSend(w)
  <2> DEFINE v == [u EXCEPT !.at = "space", !.n = 0, !.ans = {}]
             s == [n |-> u.n, ans |-> u.ans]
  <2>1. worker' = [worker EXCEPT ![w] = v]
    BY <1>2, <1>15 DEF PostSend, Step, At
  <2>2. v \in WorkerRecords /\ v.at = "space" /\ v.message = u.message /\ v.ans = {}
    BY <1>4 DEF WorkerRecords
  <2> HIDE DEF v
  <2>3. PICK l \in Attempt(j, [j EXCEPT !.sends = Append(j.sends, s)]) :
          conn' = [conn EXCEPT ![c] = l]
    BY <1>2, <1>3, <1>15 DEF PostSend, c
  <2>4. s \in SendRecords /\ s.ans = u.ans
    BY <1>4 DEF SendRecords
  <2> HIDE DEF s
  <2> DEFINE more == Append(j.sends, s)
             k == [j EXCEPT !.sends = more]
  <2>5. more \in Seq(SendRecords) /\ \A i \in 1 .. Len(more) : more[i].ans \subseteq answered
    <3>1. /\ more \in Seq(SendRecords) /\ Len(more) = Len(j.sends) + 1 /\ Len(j.sends) \in Nat
          /\ more[Len(j.sends) + 1] = s
          /\ \A i \in 1 .. Len(j.sends) : more[i] = j.sends[i]
      BY <1>6, <2>4
    <3> HIDE DEF more
    <3> QED
      BY <1>4, <1>6, <2>4, <3>1, SMTT(30)
  <2> HIDE DEF more
  <2>6. Has(k, j.state, j.sent, j.received, j.recvs, more, j.dqe_, j.dqe1_)
    BY <1>6, <2>5, Edited
  <2> HIDE DEF k
  <2>7. Quiet(c, k)
    <3>1. /\ Has(k, conn[c].state, conn[c].sent, conn[c].received, conn[c].recvs, more,
                  conn[c].dqe_, conn[c].dqe1_)
          /\ conn[c].recvs \in Nat
          /\ \A i \in 1 .. Len(conn[c].dqe1_) : conn[c].dqe1_[i] \in answered
      BY <1>3, <1>4, <1>6, <2>6
    <3> QED
      BY <1>4, <2>5, <3>1, QuietIs
  <2>8. l \in {k, Closed(j)}
    BY <2>3 DEF Attempt, k, more
  <2> QED
    BY <1>8, <1>10, <2>1, <2>2, <2>3, <2>7, <2>8
<1>16. CASE NotifySpace(w)
  <2>1. worker' = [worker EXCEPT ![w] = IdleWorker]
    BY <1>16 DEF NotifySpace, Step
  <2>2. IdleWorker \in WorkerRecords /\ IdleWorker.at = "idle" /\ IdleWorker.ans = {}
    BY DEF IdleWorker, WorkerRecords
  <2>3. PICK l \in {j} \cup PostSpace(j) : conn' = [conn EXCEPT ![c] = l]
    BY <1>3, <1>16 DEF NotifySpace, c
  <2>4. l = j \/ \E x \in Nat : l = [j EXCEPT !.spaces = x]
    <3>1. j.spaces + 1 \in Nat
      BY <1>6
    <3> QED
      BY <1>6, <2>3, <3>1, PostSpaceIs
  <2> QED
    BY <1>8, <1>10, <2>1, <2>2, <2>3, <2>4
<1> QED
  BY <1>11, <1>12, <1>13, <1>14, <1>15, <1>16

\* The requests of the worker's connection, which is no more, are not counted.
LEMMA WorkerUsesDestroyedKeeps ==
  ASSUME IInv, NEW w \in Workers, WorkerUsesDestroyed(w)
  PROVE  IInv'
<1> DEFINE v == [worker[w] EXCEPT !.at = "undefined"]
<1>1. /\ worker[w].at \notin {"idle", "undefined"}
      /\ conn[ConnOf(w)].state = "destroyed"
      /\ worker' = [worker EXCEPT ![w] = v]
      /\ UNCHANGED <<conn, request_queue_, io, answered>>
  BY DEF WorkerUsesDestroyed
<1>2. /\ worker \in [Workers -> WorkerRecords] /\ worker[w] \in WorkerRecords
      /\ worker[w].message \in Requests
  BY <1>1, WorkerIs DEF IInv, Typed
<1>3. v \in WorkerRecords /\ v.at = "undefined" /\ v.message = worker[w].message
        /\ v.ans = worker[w].ans
  BY <1>2 DEF WorkerRecords
<1> HIDE DEF v
<1>4. /\ worker' \in [Workers -> WorkerRecords]
      /\ worker'[w] = v /\ \A x \in Workers : x # w => worker'[x] = worker[x]
  BY <1>1, <1>2, <1>3
<1>5. Typed'
  BY <1>1, <1>4 DEF IInv, Typed
<1>6. IoInv'
  BY <1>1 DEF IInv, IoInv
<1>7. WorkersInv'
  BY <1>3, <1>4 DEF IInv, WorkersInv
<1>8. \A x \in Workers : worker'[x].ans \subseteq answered
  BY <1>3, <1>4 DEF IInv, AnswersInv
<1>9. \A c \in Connections : Quiet(c, conn'[c])
  BY <1>1, QuietUnchanged
<1>10. ASSUME NEW r \in Requests, conn'[Client(r)].state # "destroyed"
       PROVE  /\ BeingServed(r, {"recv", "dispatch"})' = BeingServed(r, {"recv", "dispatch"})
              /\ BeingServed(r, {"dispatch"})' = BeingServed(r, {"dispatch"})
  <2>1. worker[w].message # r /\ v.message # r
    BY <1>1, <1>3, <1>10 DEF ConnOf
  <2> QED
    BY <1>4, <2>1 DEF BeingServed
<1> QED
  BY <1>1, <1>5, <1>6, <1>7, <1>8, <1>9, <1>10, QuietKeeps

-----------------------------------------------------------------------------
(* The steps that take a request on.                                       *)

LEMMA ServersAre ==
  ASSUME NEW r, NEW labels
  PROVE  /\ IsFiniteSet(BeingServed(r, labels))
         /\ Cardinality(BeingServed(r, labels)) \in Nat
<1>1. BeingServed(r, labels) \subseteq Workers
  BY DEF BeingServed
<1> QED
  BY <1>1, ThreadsAssumption, FS_Subset, FS_CardinalityType

\* A request goes from one place to another.
LEMMA ServingKeeps ==
  ASSUME IInv, Typed', IoInv', ParkedInv', WorkersInv', AnswersInv', ReceivesInv',
         \A c \in Connections :
           /\ conn'[c].received = conn[c].received /\ conn'[c].sent = conn[c].sent
           /\ conn'[c].state = "new" => conn[c].state = "new" /\ conn'[c].recvs = conn[c].recvs
           /\ conn'[c].state # "destroyed" => conn[c].state # "destroyed",
         \A r \in Requests : Places(r)' = Places(r)
  PROVE  IInv'
<1>1. StreamInv'
  BY DEF IInv, StreamInv
<1>2. ServedInv'
  <2> SUFFICES ASSUME NEW r \in Requests, conn'[Client(r)].state # "destroyed"
               PROVE  Places(r)' = (IF Arrived(r)' THEN 1 ELSE 0)
    BY DEF ServedInv
  <2>1. Client(r) \in Connections
    BY DEF Client, Requests
  <2>2. Arrived(r)' <=> Arrived(r)
    BY <2>1 DEF Arrived
  <2>3. Places(r) = (IF Arrived(r) THEN 1 ELSE 0)
    BY <2>1 DEF IInv, ServedInv
  <2> QED
    BY <2>2, <2>3
<1> QED
  BY <1>1, <1>2 DEF IInv

\* The IO thread takes a request on: s are the requests that it leaves parked.
LEMMA IoServingKeeps ==
  ASSUME IInv, NEW c \in Connections, NEW s \in Seq(Requests),
         \A i \in 1 .. Len(s) : Client(s[i]) = c,
         conn' = [conn EXCEPT ![c] = [conn[c] EXCEPT !.dqe_ = s]],
         request_queue_' \in Seq(Requests), Len(request_queue_') <= Capacity,
         io' \in IoRecords, IoInv', UNCHANGED <<worker, answered>>,
         \A r \in Requests :
           Occurrences(io.ret, r) + Occurrences(request_queue_, r)
               + (IF Client(r) = c THEN Occurrences(conn[c].dqe_, r) ELSE 0)
             = Occurrences(io'.ret, r) + Occurrences(request_queue_', r)
                 + (IF Client(r) = c THEN Occurrences(s, r) ELSE 0)
  PROVE  IInv'
<1>1. /\ conn \in [Connections -> ConnRecords] /\ Typed
      /\ \A d \in Connections : /\ conn[d].recvs \in Nat /\ conn[d].dqe_ \in Seq(Requests)
                                /\ conn[d] \in ConnRecords
  BY ConnectionIs DEF IInv, Typed
<1>2. PICK j : j = conn[c]
  OBVIOUS
<1> DEFINE k == [j EXCEPT !.dqe_ = s]
<1>3. Has(k, j.state, j.sent, j.received, j.recvs, j.sends, s, j.dqe1_)
  BY <1>1, <1>2, Edited
<1>4. conn' = [conn EXCEPT ![c] = k]
  BY <1>2
<1> HIDE DEF k
<1>5. /\ conn' \in [Connections -> ConnRecords]
      /\ conn'[c] = k /\ \A d \in Connections : d # c => conn'[d] = conn[d]
  BY <1>1, <1>3, <1>4 DEF Has
<1>6. Typed'
  BY <1>1, <1>5 DEF Typed
<1>7. ParkedInv'
  BY <1>3, <1>5 DEF IInv, ParkedInv, Has
<1>8. WorkersInv'
  BY DEF IInv, WorkersInv
<1>9. \A d \in Connections : /\ conn'[d].state = conn[d].state /\ conn'[d].sent = conn[d].sent
                             /\ conn'[d].received = conn[d].received
                             /\ conn'[d].recvs = conn[d].recvs
                             /\ conn'[d].sends = conn[d].sends
                             /\ conn'[d].dqe1_ = conn[d].dqe1_
  BY <1>2, <1>3, <1>5 DEF Has
<1>10. AnswersInv'
  BY <1>9 DEF IInv, AnswersInv
<1>11. ReceivesInv'
  <2>1. \A d \in Connections : Rearmed(d)' = Rearmed(d)
    BY DEF Rearmed, BeingServed
  <2>2. \A d \in Connections : conn'[d].recvs <= conn[d].recvs
    BY <1>1, <1>9
  <2> QED
    BY <1>6, <1>9, <2>1, <2>2, ReceivesStay
<1>12. \A r \in Requests : Places(r)' = Places(r)
  <2> SUFFICES ASSUME NEW r \in Requests
               PROVE  Places(r)' = Places(r)
    OBVIOUS
  <2> DEFINE n == Cardinality(BeingServed(r, {"recv", "dispatch"}))
  <2>1. BeingServed(r, {"recv", "dispatch"})' = BeingServed(r, {"recv", "dispatch"})
    BY DEF BeingServed
  <2>2. n \in Nat
    BY ServersAre
  <2>3. Client(r) \in Connections
    BY DEF Client, Requests
  <2>4. conn'[Client(r)].dqe_ = IF Client(r) = c THEN s ELSE conn[Client(r)].dqe_
    BY <1>3, <1>5, <2>3 DEF Has
  <2>5. /\ Occurrences(io.ret, r) \in Nat /\ Occurrences(io'.ret, r) \in Nat
        /\ Occurrences(request_queue_, r) \in Nat /\ Occurrences(request_queue_', r) \in Nat
        /\ Occurrences(s, r) \in Nat /\ Occurrences(conn[Client(r)].dqe_, r) \in Nat
    BY <1>1, <2>3, OccurrencesAre DEF Typed, IoRecords
  <2>6. Places(r)' = Occurrences(io'.ret, r) + Occurrences(request_queue_', r)
                       + (IF Client(r) = c THEN Occurrences(s, r)
                                           ELSE Occurrences(conn[Client(r)].dqe_, r))
                       + n + (IF r \in answered THEN 1 ELSE 0)
    BY <2>1, <2>4 DEF Places
  <2>7. Places(r) = Occurrences(io.ret, r) + Occurrences(request_queue_, r)
                      + Occurrences(conn[Client(r)].dqe_, r)
                      + n + (IF r \in answered THEN 1 ELSE 0)
    BY DEF Places
  <2> HIDE DEF n
  <2> QED
    BY <2>2, <2>5, <2>6, <2>7, SMTT(30)
<1> QED
  BY <1>1, <1>6, <1>7, <1>8, <1>9, <1>10, <1>11, <1>12, ServingKeeps

\* enqueue, when the queue is not full
LEMMA EnqueueIs ==
  ASSUME Typed, ~QueueFull, NEW x \in Requests, Enqueue(x)
  PROVE  /\ request_queue_' \in Seq(Requests) /\ Len(request_queue_') <= Capacity
         /\ \A r : Occurrences(request_queue_', r)
                     = Occurrences(request_queue_, r) + (IF x = r THEN 1 ELSE 0)
<1>1. /\ request_queue_ \in Seq(Requests) /\ Len(request_queue_) \in Nat
      /\ Len(request_queue_) < Capacity
      /\ request_queue_' = Append(request_queue_, x)
  BY Sizes DEF Typed, QueueFull, Enqueue
<1> QED
  BY <1>1, Sizes, OccurrencesOfAppend

\* After a request was taken from ret.
LEMMA RetIs ==
  ASSUME IInv, io.at \in {"read", "park"}, NextRequest
  PROVE  /\ IoInv'
         /\ \A r : Occurrences(io.ret, r)
                     = Occurrences(io'.ret, r) + (IF Head(io.ret) = r THEN 1 ELSE 0)
<1>1. /\ io' \in IoRecords /\ io.ret # <<>> /\ io.ret \in Seq(Requests)
      /\ io.conn \in Connections /\ io'.ret = Tail(io.ret)
      /\ \/ io' = IoWaits /\ Tail(io.ret) = <<>>
         \/ io'.at = "read" /\ io'.conn = io.conn /\ Tail(io.ret) # <<>>
  BY NextRequestIs DEF IInv
<1>2. \A i \in 1 .. Len(Tail(io.ret)) :
        i + 1 \in 1 .. Len(io.ret) /\ Tail(io.ret)[i] = io.ret[i + 1]
  BY <1>1, TailKeeps
<1>3. IoInv'
  <2>1. CASE io' = IoWaits /\ Tail(io.ret) = <<>>
    <3>1. io'.at = "wait" /\ io'.ret = <<>> /\ Len(io'.ret) = 0
      BY <2>1 DEF IoWaits
    <3> QED
      BY <3>1 DEF IoInv
  <2>2. CASE io'.at = "read" /\ io'.conn = io.conn /\ Tail(io.ret) # <<>>
    <3>1. \A i \in 1 .. Len(io'.ret) : Client(io'.ret[i]) = io'.conn
      BY <1>1, <1>2, <2>2 DEF IInv, IoInv
    <3> QED
      BY <1>1, <2>2, <3>1 DEF IoInv
  <2> QED
    BY <1>1, <2>1, <2>2
<1> QED
  BY <1>1, <1>3, OccurrencesOfTail

LEMMA HandleReadEnqueueKeeps ==
  ASSUME IInv, HandleReadEnqueue
  PROVE  IInv'
<1>1. io.at = "read" /\ ~QueueFull /\ Enqueue(Head(io.ret)) /\ NextRequest
        /\ UNCHANGED <<conn, worker, answered>>
  BY DEF HandleReadEnqueue
<1>2. io' \in IoRecords /\ Head(io.ret) \in Requests /\ io.conn \in Connections
        /\ io.ret \in Seq(Requests) /\ io'.ret \in Seq(Requests)
  BY <1>1, NextRequestIs DEF IInv, IoRecords
<1> DEFINE c == io.conn
           s == conn[c].dqe_
<1>3. /\ s \in Seq(Requests) /\ \A i \in 1 .. Len(s) : Client(s[i]) = c
      /\ conn' = [conn EXCEPT ![c] = [conn[c] EXCEPT !.dqe_ = s]]
  <2>1. conn[c] \in ConnRecords /\ conn \in [Connections -> ConnRecords]
    BY <1>2 DEF IInv, Typed
  <2>2. [conn[c] EXCEPT !.dqe_ = s] = conn[c]
    BY <2>1 DEF ConnRecords
  <2> QED
    BY <1>1, <1>2, <2>1, <2>2, ConnectionIs DEF IInv, ParkedInv
<1>4. ASSUME NEW r \in Requests
      PROVE  Occurrences(io.ret, r) + Occurrences(request_queue_, r)
                 + (IF Client(r) = c THEN Occurrences(conn[c].dqe_, r) ELSE 0)
               = Occurrences(io'.ret, r) + Occurrences(request_queue_', r)
                   + (IF Client(r) = c THEN Occurrences(s, r) ELSE 0)
  <2>1. /\ Occurrences(io.ret, r) = Occurrences(io'.ret, r) + (IF Head(io.ret) = r THEN 1 ELSE 0)
        /\ Occurrences(request_queue_', r)
             = Occurrences(request_queue_, r) + (IF Head(io.ret) = r THEN 1 ELSE 0)
    BY <1>1, <1>2, RetIs, EnqueueIs DEF IInv
  <2>2. Occurrences(io'.ret, r) \in Nat /\ Occurrences(request_queue_, r) \in Nat
          /\ Occurrences(s, r) \in Nat
    BY <1>2, <1>3, OccurrencesAre DEF IInv, Typed
  <2> QED
    BY <2>1, <2>2
<1>5. IoInv' /\ request_queue_' \in Seq(Requests) /\ Len(request_queue_') <= Capacity
  BY <1>1, <1>2, RetIs, EnqueueIs DEF IInv
<1> HIDE DEF c, s
<1>6. c \in Connections
  BY <1>2 DEF c
<1> QED
  BY <1>1, <1>2, <1>3, <1>4, <1>5, <1>6, IoServingKeeps

LEMMA HandleReadParkKeeps ==
  ASSUME IInv, HandleReadPark
  PROVE  IInv'
<1> DEFINE c == io.conn
           x == Head(io.ret)
           s == Append(conn[c].dqe_, x)
<1>1. io.at = "park" /\ NextRequest /\ UNCHANGED <<request_queue_, worker, answered>>
        /\ conn' = [conn EXCEPT ![c] = [conn[c] EXCEPT !.dqe_ = s]]
  BY DEF HandleReadPark
<1>2. io' \in IoRecords /\ x \in Requests /\ c \in Connections /\ Client(x) = c
        /\ io.ret \in Seq(Requests) /\ io'.ret \in Seq(Requests)
  BY <1>1, NextRequestIs DEF IInv, IoRecords
<1>3. /\ conn[c].dqe_ \in Seq(Requests)
      /\ \A i \in 1 .. Len(conn[c].dqe_) : Client(conn[c].dqe_[i]) = c
  BY <1>2, ConnectionIs DEF IInv, ParkedInv
<1>4. IoInv'
  BY <1>1, RetIs
<1>5. \A r : Occurrences(io.ret, r) = Occurrences(io'.ret, r) + (IF x = r THEN 1 ELSE 0)
  BY <1>1, RetIs
<1>6. \A r : Occurrences(s, r) = Occurrences(conn[c].dqe_, r) + (IF x = r THEN 1 ELSE 0)
  BY <1>2, <1>3, OccurrencesOfAppend
<1> HIDE DEF c, x
<1>7. s \in Seq(Requests) /\ \A i \in 1 .. Len(s) : Client(s[i]) = c
  <2>1. /\ s \in Seq(Requests) /\ Len(s) = Len(conn[c].dqe_) + 1 /\ Len(conn[c].dqe_) \in Nat
        /\ s[Len(conn[c].dqe_) + 1] = x
        /\ \A i \in 1 .. Len(conn[c].dqe_) : s[i] = conn[c].dqe_[i]
    BY <1>2, <1>3
  <2> HIDE DEF s
  <2> QED
    BY <1>2, <1>3, <2>1, SMTT(30)
<1> HIDE DEF s
<1>8. ASSUME NEW r \in Requests
      PROVE  Occurrences(io.ret, r) + Occurrences(request_queue_, r)
                 + (IF Client(r) = c THEN Occurrences(conn[c].dqe_, r) ELSE 0)
               = Occurrences(io'.ret, r) + Occurrences(request_queue_', r)
                   + (IF Client(r) = c THEN Occurrences(s, r) ELSE 0)
  <2>1. Occurrences(io'.ret, r) \in Nat /\ Occurrences(request_queue_, r) \in Nat
          /\ Occurrences(conn[c].dqe_, r) \in Nat
    BY <1>2, <1>3, OccurrencesAre DEF IInv, Typed
  <2>2. /\ Occurrences(io.ret, r) = Occurrences(io'.ret, r) + (IF x = r THEN 1 ELSE 0)
        /\ Occurrences(s, r) = Occurrences(conn[c].dqe_, r) + (IF x = r THEN 1 ELSE 0)
        /\ request_queue_' = request_queue_
        /\ x = r => Client(r) = c
    BY <1>1, <1>2, <1>5, <1>6
  <2> QED
    BY <2>1, <2>2
<1>9. request_queue_' \in Seq(Requests) /\ Len(request_queue_') <= Capacity
  BY <1>1 DEF IInv, Typed
<1> QED
  BY <1>1, <1>2, <1>4, <1>7, <1>8, <1>9, IoServingKeeps

LEMMA MoveParkedKeeps ==
  ASSUME IInv, MoveParked
  PROVE  IInv'
<1> DEFINE c == io.conn
           x == Head(conn[c].dqe_)
           s == Tail(conn[c].dqe_)
<1>1. io.at = "space" /\ conn[c].dqe_ # <<>> /\ ~QueueFull /\ Enqueue(x)
        /\ conn' = [conn EXCEPT ![c] = [conn[c] EXCEPT !.dqe_ = s]]
        /\ UNCHANGED <<io, worker, answered>>
  BY DEF MoveParked
<1>2. c \in Connections /\ IoInv' /\ io' \in IoRecords /\ io.ret \in Seq(Requests)
  BY <1>1 DEF IInv, Typed, IoInv, IoRecords
<1>3. /\ conn[c].dqe_ \in Seq(Requests)
      /\ \A i \in 1 .. Len(conn[c].dqe_) : Client(conn[c].dqe_[i]) = c
  BY <1>2, ConnectionIs DEF IInv, ParkedInv
<1>4. /\ s \in Seq(Requests) /\ x \in Requests
      /\ x = conn[c].dqe_[1] /\ 1 \in 1 .. Len(conn[c].dqe_)
      /\ \A i \in 1 .. Len(s) : i + 1 \in 1 .. Len(conn[c].dqe_) /\ s[i] = conn[c].dqe_[i + 1]
  BY <1>1, <1>3, TailKeeps
<1>5. \A r : Occurrences(conn[c].dqe_, r) = Occurrences(s, r) + (IF x = r THEN 1 ELSE 0)
  BY <1>1, <1>3, OccurrencesOfTail
<1>6. /\ request_queue_' \in Seq(Requests) /\ Len(request_queue_') <= Capacity
      /\ \A r : Occurrences(request_queue_', r)
                  = Occurrences(request_queue_, r) + (IF x = r THEN 1 ELSE 0)
  BY <1>1, <1>4, EnqueueIs DEF IInv
<1> HIDE DEF c, x, s
<1>7. \A i \in 1 .. Len(s) : Client(s[i]) = c
  BY <1>3, <1>4
<1>8. Client(x) = c
  BY <1>3, <1>4
<1>9. ASSUME NEW r \in Requests
      PROVE  Occurrences(io.ret, r) + Occurrences(request_queue_, r)
                 + (IF Client(r) = c THEN Occurrences(conn[c].dqe_, r) ELSE 0)
               = Occurrences(io'.ret, r) + Occurrences(request_queue_', r)
                   + (IF Client(r) = c THEN Occurrences(s, r) ELSE 0)
  <2>1. Occurrences(io.ret, r) \in Nat /\ Occurrences(request_queue_, r) \in Nat
          /\ Occurrences(s, r) \in Nat /\ io' = io
    BY <1>1, <1>2, <1>4, OccurrencesAre DEF IInv, Typed
  <2>2. /\ Occurrences(conn[c].dqe_, r) = Occurrences(s, r) + (IF x = r THEN 1 ELSE 0)
        /\ Occurrences(request_queue_', r)
             = Occurrences(request_queue_, r) + (IF x = r THEN 1 ELSE 0)
        /\ x = r => Client(r) = c
    BY <1>5, <1>6, <1>8
  <2> QED
    BY <2>1, <2>2
<1> QED
  BY <1>1, <1>2, <1>4, <1>6, <1>7, <1>9, IoServingKeeps

\* The n requests of c after the first ones, and how often one occurs in them.
Numbered(c, before, n) == [i \in 1 .. n |-> <<c, before + i>>]

LEMMA OccurrencesOfNumbered ==
  ASSUME NEW c, NEW before \in Nat, NEW n \in Nat, NEW r
  PROVE  /\ \A i \in Nat : r = <<c, i>> =>
              Occurrences(Numbered(c, before, n), r)
                = IF before < i /\ i <= before + n THEN 1 ELSE 0
         /\ r[1] # c => Occurrences(Numbered(c, before, n), r) = 0
<1> DEFINE s == Numbered(c, before, n)
<1>1. DOMAIN s = 1 .. n /\ \A j \in 1 .. n : s[j] = <<c, before + j>>
  BY DEF Numbered
<1> HIDE DEF s
<1>2. Occurrences(s, r) = Cardinality(Indices(s, r))
  BY DEF Occurrences, Indices
<1>3. ASSUME NEW i \in Nat, r = <<c, i>>
      PROVE  Occurrences(s, r) = IF before < i /\ i <= before + n THEN 1 ELSE 0
  <2>1. \A j \in 1 .. n : s[j] = r <=> before + j = i
    BY <1>1, <1>3
  <2>2. CASE before < i /\ i <= before + n
    <3>1. i - before \in 1 .. n
      BY <1>3, <2>2
    <3>2. \A j \in 1 .. n : before + j = i <=> j = i - before
      BY <1>3
    <3>3. Indices(s, r) = {i - before}
      BY <1>1, <2>1, <3>1, <3>2 DEF Indices
    <3> QED
      BY <1>2, <2>2, <3>3, FS_Singleton
  <2>3. CASE ~(before < i /\ i <= before + n)
    <3>1. \A j \in 1 .. n : before + j # i
      BY <1>3, <2>3
    <3>2. Indices(s, r) = {}
      BY <1>1, <2>1, <3>1 DEF Indices
    <3> QED
      BY <1>2, <2>3, <3>2, FS_EmptySet
  <2> QED
    BY <2>2, <2>3
<1>4. ASSUME r[1] # c
      PROVE  Occurrences(s, r) = 0
  <2>1. \A j \in 1 .. n : s[j] # r
    BY <1>1, <1>4
  <2>2. Indices(s, r) = {}
    BY <1>1, <2>1 DEF Indices
  <2> QED
    BY <1>2, <2>2, FS_EmptySet
<1> QED
  BY <1>3, <1>4 DEF s

LEMMA HandleReadKeeps ==
  ASSUME IInv, NEW c \in Connections, NEW pieces \in Nat, HandleRead(c, pieces)
  PROVE  IInv'
<1> DEFINE s == Parsed(c, pieces)
           before == conn[c].received \div Parts
           after == (conn[c].received + pieces) \div Parts
<1>1. /\ conn \in [Connections -> ConnRecords] /\ conn[c] \in ConnRecords
      /\ \A d \in Connections : /\ conn[d].recvs \in Nat /\ conn[d].received \in Nat
                                /\ conn[d].dqe_ \in Seq(Requests)
      /\ io \in IoRecords /\ Typed
  BY ConnectionIs DEF IInv, Typed
<1>2. /\ io.at = "wait" /\ Exists(c) /\ conn[c].recvs > 0
      /\ conn[c].received + pieces <= conn[c].sent
      /\ UNCHANGED <<request_queue_, worker, answered>>
      /\ io' = IF s = <<>> THEN io ELSE [at |-> "read", conn |-> c, ret |-> s]
  BY DEF HandleRead
<1>3. PICK k : /\ k \in ConnRecords /\ conn' = [conn EXCEPT ![c] = k]
               /\ k.state = conn[c].state /\ k.sent = conn[c].sent
               /\ k.recvs = conn[c].recvs - 1 /\ k.received = conn[c].received + pieces
               /\ k.sends = conn[c].sends /\ k.dqe_ = conn[c].dqe_ /\ k.dqe1_ = conn[c].dqe1_
  <2>1. PICK j \in ConnRecords : j = conn[c]
    BY <1>1
  <2>2. PICK m \in Nat : m = j.recvs - 1
    BY <1>1, <1>2, <2>1
  <2>3. PICK n \in Nat : n = j.received + pieces
    BY <1>1, <2>1
  <2> DEFINE k == [j EXCEPT !.recvs = m, !.received = n]
  <2>4. /\ k \in ConnRecords
        /\ k.state = j.state /\ k.sent = j.sent /\ k.recvs = m /\ k.received = n
        /\ k.sends = j.sends /\ k.dqe_ = j.dqe_ /\ k.dqe1_ = j.dqe1_
    BY DEF ConnRecords
  <2>5. conn' = [conn EXCEPT ![c] = k]
    BY <1>1, <2>1, <2>2, <2>3 DEF HandleRead, ReceivesLeft
  <2> HIDE DEF k
  <2> QED
    BY <2>1, <2>2, <2>3, <2>4, <2>5
<1>4. /\ conn' \in [Connections -> ConnRecords]
      /\ conn'[c] = k /\ \A d \in Connections : d # c => conn'[d] = conn[d]
  BY <1>1, <1>3
<1>5. /\ before \in Nat /\ after \in Nat /\ before <= after /\ after <= MaxRequests
      /\ s \in Seq(Requests) /\ Len(s) = after - before
      /\ \A i \in 1 .. after - before : s[i] = <<c, before + i>>
  BY <1>1, <1>2, ParsedIs DEF IInv
<1>6. s = [i \in 1 .. after - before |-> <<c, before + i>>]
  BY DEF Parsed
<1>7. \A n \in Nat : /\ n <= before <=> n * Parts <= conn[c].received
                     /\ n <= after <=> n * Parts <= conn[c].received + pieces
  BY <1>1, Sizes, QuotientIs
<1> HIDE DEF s, before, after
<1>8. /\ io' \in IoRecords
      /\ \/ s = <<>> /\ io' = io
         \/ s # <<>> /\ io'.at = "read" /\ io'.conn = c /\ io'.ret = s
  BY <1>1, <1>2, <1>5 DEF IoRecords
<1>9. Typed'
  BY <1>2, <1>4, <1>8 DEF IInv, Typed
<1>10. StreamInv'
  BY <1>2, <1>3, <1>4 DEF IInv, StreamInv, Exists
<1>11. IoInv'
  <2>1. CASE s = <<>> /\ io' = io
    BY <2>1 DEF IInv, IoInv
  <2>2. CASE s # <<>> /\ io'.at = "read" /\ io'.conn = c /\ io'.ret = s
    <3>1. \A i \in 1 .. Len(s) : Client(s[i]) = c
      BY <1>5 DEF Client
    <3> QED
      BY <2>2, <3>1 DEF IoInv
  <2> QED
    BY <1>8, <2>1, <2>2
<1>12. ParkedInv'
  BY <1>3, <1>4 DEF IInv, ParkedInv
<1>13. WorkersInv'
  BY <1>2 DEF IInv, WorkersInv
<1>14. AnswersInv'
  BY <1>2, <1>3, <1>4 DEF IInv, AnswersInv
<1>15. ReceivesInv'
  <2>1. \A d \in Connections : Rearmed(d)' = Rearmed(d)
    BY <1>2 DEF Rearmed, BeingServed
  <2>2. \A d \in Connections : conn[d].recvs <= conn[d].recvs
    BY <1>1
  <2> QED
    BY <1>3, <1>4, <1>9, <2>1, <2>2, ReceivesStay
<1>16. ServedInv'
  <2> SUFFICES ASSUME NEW r \in Requests, conn'[Client(r)].state # "destroyed"
               PROVE  Places(r)' = (IF Arrived(r)' THEN 1 ELSE 0)
    BY DEF ServedInv
  <2> DEFINE b == Cardinality(BeingServed(r, {"recv", "dispatch"}))
             q == Occurrences(request_queue_, r)
             p == Occurrences(conn[Client(r)].dqe_, r)
             a == IF r \in answered THEN 1 ELSE 0
  <2>1. Client(r) \in Connections /\ r[2] \in Nat /\ r = <<Client(r), r[2]>> /\ Client(r) = r[1]
    BY DEF Client, Requests
  <2>2. /\ conn'[Client(r)].dqe_ = conn[Client(r)].dqe_
        /\ conn'[Client(r)].state = conn[Client(r)].state
    BY <1>3, <1>4, <2>1
  <2>3. BeingServed(r, {"recv", "dispatch"})' = BeingServed(r, {"recv", "dispatch"})
    BY <1>2 DEF BeingServed
  <2>4. b \in Nat /\ q \in Nat /\ p \in Nat /\ a \in Nat
    BY <1>1, <2>1, ServersAre, OccurrencesAre DEF Typed
  <2>5. Places(r)' = Occurrences(io'.ret, r) + q + p + b + a
    BY <1>2, <2>2, <2>3 DEF Places
  <2>6. Places(r) = Occurrences(io.ret, r) + q + p + b + a
    BY DEF Places
  <2>7. Places(r) = IF Arrived(r) THEN 1 ELSE 0
    BY <2>1, <2>2 DEF IInv, ServedInv
  <2>8. Occurrences(io.ret, r) = 0
    <3>1. io.ret = <<>>
      BY <1>2 DEF IInv, IoInv
    <3> QED
      BY <3>1, OccurrencesOfEmpty
  <2>9. Occurrences(io'.ret, r) = Occurrences(s, r)
    BY <1>8, <2>8, OccurrencesOfEmpty
  <2> HIDE DEF a, b, p, q
  <2>10. CASE Client(r) = c
    <3>1. Occurrences(s, r) = IF before < r[2] /\ r[2] <= after THEN 1 ELSE 0
      <4>1. PICK n \in Nat : n = after - before
        BY <1>5
      <4>2. s = Numbered(c, before, n) /\ before + n = after
        BY <1>5, <1>6, <4>1 DEF Numbered
      <4>3. \A i \in Nat : r = <<c, i>> =>
              Occurrences(s, r) = IF before < i /\ i <= before + n THEN 1 ELSE 0
        BY <1>5, <4>2, OccurrencesOfNumbered
      <4> QED
        BY <2>1, <2>10, <4>2, <4>3
    <3>2. /\ Arrived(r) <=> r[2] <= before
          /\ Arrived(r)' <=> r[2] <= after
      <4> DEFINE all == r[2] * Parts
      <4>1. all \in Nat
        BY <2>1, Sizes
      <4>2. /\ r[2] <= before <=> all <= conn[c].received
            /\ r[2] <= after <=> all <= conn[c].received + pieces
        BY <1>7, <2>1
      <4>3. /\ Arrived(r) <=> conn[c].received >= all
            /\ Arrived(r)' <=> conn[c].received + pieces >= all
        BY <1>3, <1>4, <2>10 DEF Arrived
      <4> HIDE DEF all
      <4> QED
        BY <1>1, <4>1, <4>2, <4>3
    <3> QED
      BY <1>5, <2>1, <2>4, <2>5, <2>6, <2>7, <2>8, <2>9, <3>1, <3>2
  <2>11. CASE Client(r) # c
    <3>1. Occurrences(s, r) = 0
      <4>1. PICK n \in Nat : n = after - before
        BY <1>5
      <4>2. s = Numbered(c, before, n)
        BY <1>6, <4>1 DEF Numbered
      <4>3. r[1] # c => Occurrences(s, r) = 0
        BY <1>5, <4>2, OccurrencesOfNumbered
      <4> QED
        BY <2>1, <2>11, <4>3
    <3>2. Arrived(r)' <=> Arrived(r)
      BY <1>4, <2>1, <2>11 DEF Arrived
    <3> QED
      BY <2>4, <2>5, <2>6, <2>7, <2>8, <2>9, <3>1, <3>2
  <2> QED
    BY <2>10, <2>11
<1> QED
  BY <1>9, <1>10, <1>11, <1>12, <1>13, <1>14, <1>15, <1>16 DEF IInv

\* A worker that has a request of a connection that exists is the one that has it.
LEMMA OnlyServer ==
  ASSUME IInv, NEW w \in Workers, worker[w].at \in {"recv", "dispatch"}, Exists(ConnOf(w))
  PROVE  /\ BeingServed(worker[w].message, {"recv", "dispatch"}) = {w}
         /\ worker[w].message \notin answered
         /\ conn[ConnOf(w)].received > 0
<1> DEFINE r == worker[w].message
           S == BeingServed(r, {"recv", "dispatch"})
<1>1. /\ r \in Requests /\ ConnOf(w) \in Connections /\ Client(r) = ConnOf(w)
      /\ w \in S
  BY WorkerIs DEF ConnOf, BeingServed
<1>2. IsFiniteSet(S) /\ Cardinality(S) \in Nat
  BY ServersAre
<1>3. S # {} /\ Cardinality(S) >= 1
  BY <1>1, <1>2, FS_EmptySet
<1>4. Places(r) = IF Arrived(r) THEN 1 ELSE 0
  BY <1>1 DEF IInv, ServedInv, Exists
<1>5. /\ Occurrences(io.ret, r) \in Nat /\ Occurrences(request_queue_, r) \in Nat
      /\ Occurrences(conn[Client(r)].dqe_, r) \in Nat
  BY <1>1, ConnectionIs, OccurrencesAre DEF IInv, Typed, IoRecords
<1>6. Places(r) = Occurrences(io.ret, r) + Occurrences(request_queue_, r)
                    + Occurrences(conn[Client(r)].dqe_, r)
                    + Cardinality(S) + (IF r \in answered THEN 1 ELSE 0)
  BY DEF Places
<1> HIDE DEF r, S
<1>7. Arrived(r) /\ Cardinality(S) = 1 /\ r \notin answered
  BY <1>2, <1>3, <1>4, <1>5, <1>6
<1>8. S = {w}
  <2>1. IsFiniteSet(S \ {w}) /\ Cardinality(S \ {w}) = 0
    BY <1>1, <1>2, <1>7, FS_RemoveElement
  <2>2. S \ {w} = {}
    BY <2>1, FS_EmptySet
  <2> QED
    BY <1>1, <2>2
<1>9. conn[ConnOf(w)].received > 0
  <2> DEFINE all == r[2] * Parts
  <2>1. r[2] \in Nat \ {0}
    BY <1>1 DEF Requests
  <2>2. all \in Nat \ {0}
    BY <2>1, Sizes
  <2>3. conn[ConnOf(w)].received >= all /\ conn[ConnOf(w)].received \in Nat
    BY <1>1, <1>7, ConnectionIs DEF Arrived
  <2> HIDE DEF all
  <2> QED
    BY <2>2, <2>3
<1> QED
  BY <1>7, <1>8, <1>9 DEF r, S

LEMMA DequeueKeeps ==
  ASSUME IInv, NEW w \in Workers, Dequeue(w)
  PROVE  IInv'
<1> DEFINE x == Head(request_queue_)
<1>1. /\ worker[w].at = "idle" /\ request_queue_ # <<>>
      /\ request_queue_' = Tail(request_queue_)
      /\ UNCHANGED <<conn, io, answered>>
      /\ worker \in [Workers -> WorkerRecords] /\ worker[w] \in WorkerRecords
      /\ request_queue_ \in Seq(Requests) /\ Len(request_queue_) <= Capacity /\ Typed
  BY DEF Dequeue, IInv, Typed
<1>2. /\ x \in Requests /\ request_queue_' \in Seq(Requests) /\ Len(request_queue_') <= Capacity
  <2>1. /\ x \in Requests /\ Tail(request_queue_) \in Seq(Requests)
        /\ Len(Tail(request_queue_)) = Len(request_queue_) - 1 /\ Len(request_queue_) \in Nat
    BY <1>1
  <2> QED
    BY <1>1, <2>1, Sizes
<1>3. PICK v \in WorkerRecords : /\ worker' = [worker EXCEPT ![w] = v]
                                 /\ v.at = "recv" /\ v.message = x /\ v.ans = worker[w].ans
  <2>1. PICK u \in WorkerRecords : u = worker[w]
    BY <1>1
  <2>2. PICK y \in Requests : y = x
    BY <1>2
  <2> DEFINE v == [u EXCEPT !.at = "recv", !.message = y]
  <2>3. v \in WorkerRecords /\ v.at = "recv" /\ v.message = y /\ v.ans = u.ans
    BY DEF WorkerRecords
  <2>4. worker' = [worker EXCEPT ![w] = v]
    BY <1>1, <2>1, <2>2 DEF Dequeue
  <2> HIDE DEF v
  <2> QED
    BY <2>1, <2>2, <2>3, <2>4
<1>4. \A r : Occurrences(request_queue_, r)
               = Occurrences(request_queue_', r) + (IF x = r THEN 1 ELSE 0)
  BY <1>1, OccurrencesOfTail
<1> HIDE DEF x
<1>5. /\ worker' \in [Workers -> WorkerRecords]
      /\ worker'[w] = v /\ \A u \in Workers : u # w => worker'[u] = worker[u]
  BY <1>1, <1>3
<1>6. Typed'
  BY <1>1, <1>2, <1>5 DEF Typed
<1>7. IoInv' /\ ParkedInv'
  BY <1>1 DEF IInv, IoInv, ParkedInv
<1>8. WorkersInv'
  BY <1>2, <1>3, <1>5 DEF IInv, WorkersInv
<1>9. AnswersInv'
  BY <1>1, <1>3, <1>5 DEF IInv, AnswersInv
<1>10. ReceivesInv'
  <2>1. \A c \in Connections : Rearmed(c)' = Rearmed(c)
    BY <1>1, <1>3, <1>5 DEF Rearmed, BeingServed
  <2>2. \A c \in Connections : conn[c].recvs <= conn[c].recvs
    BY ConnectionIs
  <2> QED
    BY <1>1, <1>6, <2>1, <2>2, ReceivesStay
<1>11. ASSUME NEW r \in Requests
       PROVE  Places(r)' = Places(r)
  <2> DEFINE S == BeingServed(r, {"recv", "dispatch"})
             p == Occurrences(conn[Client(r)].dqe_, r)
             a == IF r \in answered THEN 1 ELSE 0
  <2>1. IsFiniteSet(S) /\ Cardinality(S) \in Nat /\ w \notin S
    BY <1>1, ServersAre, ZenonT(30) DEF BeingServed
  <2>2. BeingServed(r, {"recv", "dispatch"})' = IF x = r THEN S \cup {w} ELSE S
    BY <1>1, <1>3, <1>5 DEF BeingServed
  <2>3. Cardinality(S \cup {w}) = Cardinality(S) + 1
    BY <2>1, FS_AddElement
  <2>4. Client(r) \in Connections
    BY DEF Client, Requests
  <2>5. p \in Nat /\ a \in Nat /\ Occurrences(io.ret, r) \in Nat
          /\ Occurrences(request_queue_', r) \in Nat
    BY <1>1, <1>2, <2>4, ConnectionIs, OccurrencesAre DEF Typed, IoRecords
  <2>6. Places(r)' = Occurrences(io.ret, r) + Occurrences(request_queue_', r) + p
                       + Cardinality(IF x = r THEN S \cup {w} ELSE S) + a
    BY <1>1, <2>2 DEF Places
  <2>7. Places(r) = Occurrences(io.ret, r) + Occurrences(request_queue_, r) + p
                      + Cardinality(S) + a
    BY DEF Places
  <2> HIDE DEF S, p, a
  <2> QED
    BY <1>4, <2>1, <2>3, <2>5, <2>6, <2>7
<1> QED
  BY <1>1, <1>6, <1>7, <1>8, <1>9, <1>10, <1>11, ServingKeeps

LEMMA WorkerPostRecvKeeps ==
  ASSUME IInv, NEW w \in Workers, WorkerPostRecv(w)
  PROVE  IInv'
<1>1. PICK r, c : r = worker[w].message /\ c = ConnOf(w)
  OBVIOUS
<1>2. /\ worker[w].at = "recv" /\ Exists(c) /\ worker' = [worker EXCEPT ![w] = At(w, "dispatch")]
      /\ UNCHANGED <<request_queue_, io, answered>>
      /\ worker \in [Workers -> WorkerRecords] /\ worker[w] \in WorkerRecords
      /\ conn \in [Connections -> ConnRecords] /\ Typed
  BY <1>1 DEF WorkerPostRecv, Step, IInv, Typed
<1>3. /\ r \in Requests /\ c \in Connections /\ Client(r) = c
      /\ BeingServed(r, {"recv", "dispatch"}) = {w} /\ r \notin answered
      /\ conn[c].received > 0
  BY <1>1, <1>2, WorkerIs, OnlyServer DEF ConnOf
<1>4. PICK v \in WorkerRecords : /\ worker' = [worker EXCEPT ![w] = v]
                                 /\ v.at = "dispatch" /\ v.message = r
                                 /\ v.ans = worker[w].ans
  <2>1. PICK u \in WorkerRecords : u = worker[w]
    BY <1>2
  <2> DEFINE v == [u EXCEPT !.at = "dispatch"]
  <2>2. v \in WorkerRecords /\ v.at = "dispatch" /\ v.message = u.message /\ v.ans = u.ans
    BY DEF WorkerRecords
  <2>3. worker' = [worker EXCEPT ![w] = v]
    BY <1>2, <2>1 DEF At
  <2> HIDE DEF v
  <2> QED
    BY <1>1, <2>1, <2>2, <2>3
<1>5. PICK k : /\ k \in ConnRecords /\ conn' = [conn EXCEPT ![c] = k]
               /\ k.sent = conn[c].sent /\ k.received = conn[c].received
               /\ k.recvs \in {conn[c].recvs, conn[c].recvs + 1}
               /\ k.state # "new" /\ k.state # "destroyed"
               /\ k.sends = conn[c].sends /\ k.dqe_ = conn[c].dqe_ /\ k.dqe1_ = conn[c].dqe1_
  <2>1. PICK j : j = conn[c]
    OBVIOUS
  <2>2. j \in ConnRecords /\ j.state \in {"open", "closed"}
    BY <1>2, <1>3, <2>1 DEF Exists
  <2>3. PICK n \in Nat : n = j.recvs + 1
    BY <1>3, <2>1, ConnectionIs
  <2>4. PICK k \in PostRecv(j) : conn' = [conn EXCEPT ![c] = k]
    BY <1>1, <2>1 DEF WorkerPostRecv
  <2>5. k = [j EXCEPT !.recvs = n] \/ k = [j EXCEPT !.state = "closed"]
    BY <2>2, <2>3, <2>4, PostRecvIs
  <2>6. /\ Has([j EXCEPT !.recvs = n], j.state, j.sent, j.received, n, j.sends, j.dqe_, j.dqe1_)
        /\ Has([j EXCEPT !.state = "closed"],
               "closed", j.sent, j.received, j.recvs, j.sends, j.dqe_, j.dqe1_)
    BY <2>2, Edited
  <2>7. \/ Has(k, j.state, j.sent, j.received, n, j.sends, j.dqe_, j.dqe1_)
        \/ Has(k, "closed", j.sent, j.received, j.recvs, j.sends, j.dqe_, j.dqe1_)
    BY <2>5, <2>6
  <2>8. /\ k.sent = j.sent /\ k.received = j.received /\ k.recvs \in {j.recvs, j.recvs + 1}
        /\ k.state # "new" /\ k.state # "destroyed"
        /\ k.sends = j.sends /\ k.dqe_ = j.dqe_ /\ k.dqe1_ = j.dqe1_
    BY <2>2, <2>3, <2>7 DEF Has
  <2>9. k \in ConnRecords
    BY <2>2, <2>4, PostRecvIs
  <2> QED
    BY <2>1, <2>4, <2>8, <2>9
<1>6. /\ worker' \in [Workers -> WorkerRecords]
      /\ worker'[w] = v /\ \A x \in Workers : x # w => worker'[x] = worker[x]
  BY <1>2, <1>4
<1>7. /\ conn' \in [Connections -> ConnRecords]
      /\ conn'[c] = k /\ \A d \in Connections : d # c => conn'[d] = conn[d]
  BY <1>2, <1>3, <1>5
<1>8. Typed'
  BY <1>2, <1>6, <1>7 DEF Typed
<1>9. IoInv'
  BY <1>2 DEF IInv, IoInv
<1>10. ParkedInv'
  BY <1>5, <1>7 DEF IInv, ParkedInv
<1>11. WorkersInv'
  BY <1>3, <1>4, <1>6 DEF IInv, WorkersInv
<1>12. AnswersInv'
  <2>1. \A d \in Connections : conn'[d].dqe1_ = conn[d].dqe1_ /\ conn'[d].sends = conn[d].sends
    BY <1>5, <1>7
  <2>2. \A x \in Workers : worker'[x].ans = worker[x].ans
    BY <1>4, <1>6
  <2> QED
    BY <1>2, <2>1, <2>2 DEF IInv, AnswersInv
<1>13. \A d \in Connections : /\ conn'[d].received = conn[d].received
                              /\ conn'[d].sent = conn[d].sent
                              /\ conn'[d].dqe_ = conn[d].dqe_
                              /\ conn'[d].state = "new" => conn[d].state = "new"
                                                           /\ conn'[d].recvs = conn[d].recvs
                              /\ conn'[d].state # "destroyed" => conn[d].state # "destroyed"
  BY <1>2, <1>5, <1>7 DEF Exists
<1>14. ASSUME NEW q
       PROVE  /\ BeingServed(q, {"recv", "dispatch"})' = BeingServed(q, {"recv", "dispatch"})
              /\ BeingServed(q, {"dispatch"})'
                   = BeingServed(q, {"dispatch"}) \cup (IF q = r THEN {w} ELSE {})
  BY <1>1, <1>2, <1>4, <1>6 DEF BeingServed
<1>15. ReceivesInv'
  <2> SUFFICES ASSUME NEW d \in Connections
               PROVE  /\ conn'[d].recvs <= MaxRequests
                      /\ conn'[d].state # "destroyed"
                           => conn'[d].recvs + (IF conn'[d].received > 0 THEN 1 ELSE 0)
                                <= 1 + Cardinality(Rearmed(d)')
    BY DEF ReceivesInv
  <2>1. /\ conn[d].recvs <= MaxRequests
        /\ conn[d].state # "destroyed"
             => conn[d].recvs + (IF conn[d].received > 0 THEN 1 ELSE 0)
                  <= 1 + Cardinality(Rearmed(d))
    BY DEF IInv, ReceivesInv
  <2>2. CASE d # c
    <3>1. \A i : <<d, i>> # r
      BY <1>3, <2>2 DEF Client
    <3>2. Rearmed(d)' = Rearmed(d)
      BY <1>2, <1>14, <3>1 DEF Rearmed
    <3>3. conn'[d] = conn[d]
      BY <1>7, <2>2
    <3> QED
      BY <2>1, <3>2, <3>3
  <2>3. CASE d = c
    <3>1. r[2] \in 1 .. MaxRequests /\ r = <<c, r[2]>>
      BY <1>3 DEF Requests, Client
    <3>2. BeingServed(r, {"dispatch"}) = {}
      <4>1. BeingServed(r, {"dispatch"}) \subseteq BeingServed(r, {"recv", "dispatch"}) \ {w}
        BY <1>2 DEF BeingServed
      <4> QED
        BY <1>3, <4>1
    <3>3. r[2] \notin Rearmed(c)
      BY <1>3, <3>1, <3>2 DEF Rearmed
    <3>4. Rearmed(c)' = Rearmed(c) \cup {r[2]}
      <4>1. \A i : <<c, i>> = r <=> i = r[2]
        BY <3>1
      <4> QED
        BY <1>2, <1>14, <3>1, <4>1 DEF Rearmed
    <3>5. /\ Rearmed(c) \in SUBSET (1 .. MaxRequests) /\ Rearmed(c)' \in SUBSET (1 .. MaxRequests)
      BY DEF Rearmed
    <3>6. /\ Cardinality(Rearmed(c)) \in Nat /\ Cardinality(Rearmed(c)') <= MaxRequests
          /\ Cardinality(Rearmed(c)') = Cardinality(Rearmed(c)) + 1
      BY <3>3, <3>4, <3>5, RequestNumbers, FS_AddElement
    <3>7. conn[c].recvs \in Nat /\ conn[c].received \in Nat
      BY <1>3, ConnectionIs
    <3>8. conn[c].state # "destroyed"
      BY <1>2 DEF Exists
    <3>9. conn'[c].recvs \in {conn[c].recvs, conn[c].recvs + 1} /\ conn'[c].received > 0
      BY <1>3, <1>5, <1>7
    <3> QED
      BY <1>3, <2>1, <2>3, <3>6, <3>7, <3>8, <3>9, Sizes
  <2> QED
    BY <2>2, <2>3
<1>16. ASSUME NEW q \in Requests
       PROVE  Places(q)' = Places(q)
  <2>1. Client(q) \in Connections
    BY DEF Client, Requests
  <2>2. conn'[Client(q)].dqe_ = conn[Client(q)].dqe_
    BY <1>13, <2>1
  <2> QED
    BY <1>2, <1>14, <2>2 DEF Places
<1> QED
  BY <1>8, <1>9, <1>10, <1>11, <1>12, <1>13, <1>15, <1>16, ServingKeeps

LEMMA DispatchKeeps ==
  ASSUME IInv, NEW w \in Workers, Dispatch(w)
  PROVE  IInv'
<1>1. PICK r, c : r = worker[w].message /\ c = ConnOf(w)
  OBVIOUS
<1>2. /\ worker[w].at = "dispatch" /\ Exists(c)
      /\ worker' = [worker EXCEPT ![w] = At(w, "swap")]
      /\ UNCHANGED <<request_queue_, io>> /\ answered' = answered \cup {r}
      /\ worker \in [Workers -> WorkerRecords] /\ worker[w] \in WorkerRecords
      /\ conn \in [Connections -> ConnRecords] /\ Typed /\ answered \subseteq Requests
  BY <1>1 DEF Dispatch, Step, IInv, Typed
<1>3. /\ r \in Requests /\ c \in Connections /\ Client(r) = c
      /\ BeingServed(r, {"recv", "dispatch"}) = {w} /\ r \notin answered
  BY <1>1, <1>2, WorkerIs, OnlyServer DEF ConnOf
<1>4. PICK v \in WorkerRecords : /\ worker' = [worker EXCEPT ![w] = v]
                                 /\ v.at = "swap" /\ v.message = r
                                 /\ v.ans = worker[w].ans
  <2>1. PICK u \in WorkerRecords : u = worker[w]
    BY <1>2
  <2> DEFINE v == [u EXCEPT !.at = "swap"]
  <2>2. v \in WorkerRecords /\ v.at = "swap" /\ v.message = u.message /\ v.ans = u.ans
    BY DEF WorkerRecords
  <2>3. worker' = [worker EXCEPT ![w] = v]
    BY <1>2, <2>1 DEF At
  <2> HIDE DEF v
  <2> QED
    BY <1>1, <2>1, <2>2, <2>3
<1>5. PICK k : /\ k \in ConnRecords /\ conn' = [conn EXCEPT ![c] = k]
               /\ k.sent = conn[c].sent /\ k.received = conn[c].received
               /\ k.recvs = conn[c].recvs /\ k.state = conn[c].state
               /\ k.sends = conn[c].sends /\ k.dqe_ = conn[c].dqe_
               /\ k.dqe1_ = Append(conn[c].dqe1_, r)
  <2>1. PICK j : j = conn[c]
    OBVIOUS
  <2>2. PICK x \in Seq(Requests) : x = Append(j.dqe1_, r)
    <3>1. j.dqe1_ \in Seq(Requests)
      BY <1>3, <2>1, ConnectionIs
    <3>2. Append(j.dqe1_, r) \in Seq(Requests)
      BY <1>3, <3>1
    <3> QED
      BY <3>2
  <2> DEFINE k == [j EXCEPT !.dqe1_ = x]
  <2>3. Has(k, j.state, j.sent, j.received, j.recvs, j.sends, j.dqe_, x)
    BY <1>2, <1>3, <2>1, Edited
  <2>4. conn' = [conn EXCEPT ![c] = k]
    BY <1>1, <2>1, <2>2 DEF Dispatch
  <2> HIDE DEF k
  <2> QED
    BY <2>1, <2>2, <2>3, <2>4 DEF Has
<1>6. /\ worker' \in [Workers -> WorkerRecords]
      /\ worker'[w] = v /\ \A x \in Workers : x # w => worker'[x] = worker[x]
  BY <1>2, <1>4
<1>7. /\ conn' \in [Connections -> ConnRecords]
      /\ conn'[c] = k /\ \A d \in Connections : d # c => conn'[d] = conn[d]
  BY <1>2, <1>3, <1>5
<1>8. Typed'
  BY <1>2, <1>3, <1>6, <1>7 DEF Typed
<1>9. IoInv'
  BY <1>2 DEF IInv, IoInv
<1>10. ParkedInv'
  BY <1>5, <1>7 DEF IInv, ParkedInv
<1>11. WorkersInv'
  BY <1>3, <1>4, <1>6 DEF IInv, WorkersInv
<1>12. AnswersInv'
  <2>1. \A d \in Connections : conn'[d].sends = conn[d].sends
    BY <1>5, <1>7
  <2>2. \A x \in Workers : worker'[x].ans = worker[x].ans
    BY <1>4, <1>6
  <2>3. ASSUME NEW d \in Connections
        PROVE  \A i \in 1 .. Len(conn'[d].dqe1_) : conn'[d].dqe1_[i] \in answered'
    <3>1. \A i \in 1 .. Len(conn[d].dqe1_) : conn[d].dqe1_[i] \in answered'
      BY <1>2, ConnectionIs
    <3>2. CASE d = c
      <4> DEFINE s == conn[c].dqe1_
                 t == Append(s, r)
      <4>1. s \in Seq(Requests)
        BY <1>3, ConnectionIs
      <4>2. Len(t) = Len(s) + 1 /\ Len(s) \in Nat /\ t[Len(s) + 1] = r
              /\ \A i \in 1 .. Len(s) : t[i] = s[i]
        BY <1>3, <4>1
      <4>3. conn'[d].dqe1_ = t
        BY <1>5, <1>7, <3>2
      <4>4. \A i \in 1 .. Len(s) : s[i] \in answered'
        BY <3>1, <3>2
      <4> HIDE DEF s, t
      <4> QED
        BY <1>2, <4>2, <4>3, <4>4
    <3>3. CASE d # c
      BY <1>7, <3>1, <3>3
    <3> QED
      BY <3>2, <3>3
  <2> QED
    BY <1>2, <2>1, <2>2, <2>3 DEF IInv, AnswersInv
<1>13. \A d \in Connections : /\ conn'[d].received = conn[d].received
                              /\ conn'[d].sent = conn[d].sent
                              /\ conn'[d].dqe_ = conn[d].dqe_
                              /\ conn'[d].recvs = conn[d].recvs
                              /\ conn'[d].state = conn[d].state
  BY <1>5, <1>7
<1>14. ASSUME NEW q
       PROVE  /\ BeingServed(q, {"recv", "dispatch"})'
                   = IF q = r THEN {} ELSE BeingServed(q, {"recv", "dispatch"})
              /\ q # r => BeingServed(q, {"dispatch"})' = BeingServed(q, {"dispatch"})
  <2>1. q = r => BeingServed(q, {"recv", "dispatch"})' = {}
    <3>1. BeingServed(q, {"recv", "dispatch"})'
            \subseteq BeingServed(q, {"recv", "dispatch"}) \ {w}
      BY <1>4, <1>6 DEF BeingServed
    <3> QED
      BY <1>3, <3>1
  <2>2. q # r => /\ BeingServed(q, {"recv", "dispatch"})' = BeingServed(q, {"recv", "dispatch"})
                 /\ BeingServed(q, {"dispatch"})' = BeingServed(q, {"dispatch"})
    BY <1>1, <1>4, <1>6 DEF BeingServed
  <2> QED
    BY <2>1, <2>2
<1>15. ReceivesInv'
  <2>1. \A d \in Connections : Rearmed(d) \subseteq Rearmed(d)'
    BY <1>2, <1>14 DEF Rearmed
  <2>2. \A d \in Connections : conn'[d].recvs <= conn[d].recvs
    BY <1>13, ConnectionIs
  <2> QED
    BY <1>8, <1>13, <2>1, <2>2, ReceivesStay
<1>16. ASSUME NEW q \in Requests
       PROVE  Places(q)' = Places(q)
  <2>1. Client(q) \in Connections
    BY DEF Client, Requests
  <2>2. conn'[Client(q)].dqe_ = conn[Client(q)].dqe_
    BY <1>13, <2>1
  <2>3. q # r => (q \in answered' <=> q \in answered)
    BY <1>2
  <2>4. CASE q # r
    BY <1>2, <1>14, <2>2, <2>3, <2>4 DEF Places
  <2>5. CASE q = r
    <3> DEFINE b == Cardinality(BeingServed(q, {"recv", "dispatch"}))
               bb == Cardinality(BeingServed(q, {"recv", "dispatch"})')
    <3>1. b = 1 /\ bb = 0
      BY <1>3, <1>14, <2>5, FS_EmptySet, FS_Singleton
    <3>2. q \notin answered /\ q \in answered'
      BY <1>2, <1>3, <2>5
    <3>3. /\ Occurrences(io.ret, q) \in Nat /\ Occurrences(request_queue_, q) \in Nat
          /\ Occurrences(conn[Client(q)].dqe_, q) \in Nat
      BY <1>2, <2>1, ConnectionIs, OccurrencesAre DEF Typed, IoRecords
    <3>4. Places(q) = Occurrences(io.ret, q) + Occurrences(request_queue_, q)
                        + Occurrences(conn[Client(q)].dqe_, q) + b + 0
      BY <3>2 DEF Places
    <3>5. Places(q)' = Occurrences(io.ret, q) + Occurrences(request_queue_, q)
                         + Occurrences(conn[Client(q)].dqe_, q) + bb + 1
      BY <1>2, <2>2, <3>2 DEF Places
    <3> HIDE DEF b, bb
    <3> QED
      BY <3>1, <3>3, <3>4, <3>5
  <2> QED
    BY <2>4, <2>5
<1> QED
  BY <1>8, <1>9, <1>10, <1>11, <1>12, <1>13, <1>15, <1>16, ServingKeeps

-----------------------------------------------------------------------------
(* The invariant.                                                          *)

LEMMA NextKeeps == IInv /\ [Next]_vars => IInv'
<1> SUFFICES ASSUME IInv, [Next]_vars
             PROVE  IInv'
  OBVIOUS
<1>1. CASE \E c \in Connections : ClientSend(c) \/ ClientLeave(c) \/ AddConnection(c)
  BY <1>1, ClientsKeep
<1>2. CASE IoThread
  <2>1. ASSUME NEW c \in Connections, NEW pieces \in 0 .. MaxRequests * Parts,
               HandleRead(c, pieces)
        PROVE  IInv'
    <3>1. pieces \in Nat
      BY <2>1, Sizes DEF MostPieces
    <3> QED
      BY <2>1, <3>1, HandleReadKeeps
  <2>2. ASSUME NEW c \in Connections,
               HandleWrite(c) \/ HandleQueueSpace(c) \/ OperationFails(c) \/ IoUsesDestroyed(c)
        PROVE  IInv'
    BY <2>2, CompletionsKeep
  <2>3. HandleReadEnqueue \/ HandleReadPark \/ MoveParked => IInv'
    BY HandleReadEnqueueKeeps, HandleReadParkKeeps, MoveParkedKeeps
  <2>4. HandleReadFull \/ MoveParkedEnds => IInv'
    BY IoGoesOnKeeps
  <2> QED
    BY <1>2, <2>1, <2>2, <2>3, <2>4 DEF IoThread
<1>3. ASSUME NEW w \in Workers, WorkerThread(w)
      PROVE  IInv'
  <2>1. Dequeue(w) \/ WorkerPostRecv(w) \/ Dispatch(w) => IInv'
    BY DequeueKeeps, WorkerPostRecvKeeps, DispatchKeeps
  <2>2. PostSendSwap(w) \/ PostSendFails(w) \/ PostSendEncode(w)
          \/ PostSendPop(w) \/ PostSend(w) \/ NotifySpace(w) => IInv'
    BY PostSendKeeps
  <2>3. WorkerUsesDestroyed(w) => IInv'
    BY WorkerUsesDestroyedKeeps
  <2> QED
    BY <1>3, <2>1, <2>2, <2>3 DEF WorkerThread
<1>4. CASE UNCHANGED vars
  <2> USE <1>4 DEF vars
  <2>1. Typed' /\ StreamInv' /\ IoInv' /\ ParkedInv' /\ WorkersInv' /\ AnswersInv'
    BY DEF IInv, Typed, StreamInv, IoInv, ParkedInv, WorkersInv, AnswersInv
  <2>2. ServedInv'
    BY DEF IInv, ServedInv, Places, Arrived, BeingServed
  <2>3. ReceivesInv'
    BY DEF IInv, ReceivesInv, Rearmed, BeingServed
  <2> QED
    BY <2>1, <2>2, <2>3 DEF IInv
<1> QED
  BY <1>1, <1>2, <1>3, <1>4 DEF Next

LEMMA Invariance == Spec => []IInv
  BY InitInv, NextKeeps, PTL DEF Spec

LEMMA InvImpliesTypeOK == IInv => TypeOK
<1> SUFFICES ASSUME IInv
             PROVE  TypeOK
  OBVIOUS
<1>1. ASSUME NEW c \in Connections
      PROVE  /\ conn[c].state \in {"new", "open", "closed", "destroyed"}
             /\ conn[c].left \in BOOLEAN
             /\ 0 <= conn[c].received /\ conn[c].received <= conn[c].sent
             /\ conn[c].sent <= MaxRequests * Parts
             /\ conn[c].recvs \in 0 .. MaxRequests /\ conn[c].spaces \in Nat
             /\ conn[c].sends \in Seq([n : {0, 1}, ans : SUBSET answered])
             /\ conn[c].dqe_ \in Seq(Requests) /\ conn[c].dqe1_ \in Seq(Requests)
  <2>1. PICK k : k = conn[c]
    OBVIOUS
  <2>2. k \in ConnRecords
    BY <2>1, ConnectionIs
  <2>3. /\ k.state \in {"new", "open", "closed", "destroyed"} /\ k.left \in BOOLEAN
        /\ k.sent \in Nat /\ k.received \in Nat /\ k.recvs \in Nat /\ k.spaces \in Nat
        /\ k.dqe_ \in Seq(Requests) /\ k.dqe1_ \in Seq(Requests)
        /\ k.sends \in Seq(SendRecords)
    BY <2>2 DEF ConnRecords
  <2>4. k.received <= k.sent /\ k.sent <= MaxRequests * Parts /\ k.recvs <= MaxRequests
    BY <2>1 DEF IInv, StreamInv, ReceivesInv, MostPieces
  <2>5. k.sends \in Seq([n : {0, 1}, ans : SUBSET answered])
    <3> DEFINE s == k.sends
               S == [n : {0, 1}, ans : SUBSET answered]
    <3>1. \A i \in 1 .. Len(s) : s[i] \in SendRecords /\ s[i].ans \subseteq answered
      BY <2>1, <2>3, ConnectionIs
    <3>2. \A i \in 1 .. Len(s) : s[i] \in S
      BY <3>1 DEF SendRecords
    <3>3. Len(s) \in Nat /\ s = [i \in 1 .. Len(s) |-> s[i]]
      BY <2>3
    <3> HIDE DEF s, S
    <3>4. [i \in 1 .. Len(s) |-> s[i]] \in Seq(S)
      BY <3>2, <3>3
    <3> QED
      BY <3>3, <3>4 DEF s, S
  <2> QED
    BY <2>1, <2>3, <2>4, <2>5, Sizes
<1>2. worker \in [Workers -> [at : {"idle", "recv", "dispatch", "swap", "drain", "pop",
                                    "space", "undefined"},
                              message : Requests \cup {NoMessage},
                              n : {0, 1}, ans : SUBSET answered]]
  <2>1. worker \in [Workers -> WorkerRecords]
          /\ \A w \in Workers : worker[w] \in WorkerRecords /\ worker[w].ans \subseteq answered
    BY WorkerIs DEF IInv, Typed
  <2> QED
    BY <2>1 DEF WorkerRecords
<1> QED
  BY <1>1, <1>2 DEF TypeOK, IInv, Typed, IoRecords

\* Each variable has its type, and in particular the receives of a connection
\* are no more than its client's requests, what is being sent are responses,
\* and the queue is within its capacity.
THEOREM TypeCorrect == Spec => []TypeOK
  BY Invariance, InvImpliesTypeOK, PTL

\* A request that has arrived is in one place, from the decoder to its response,
\* as long as its connection exists: handleRead, handqueuefull and the workers
\* neither drop it nor serve it twice.
THEOREM ServedOnce == Spec => []EachRequestIsServedOnce
<1>1. IInv => EachRequestIsServedOnce
  BY DEF IInv, ServedInv, EachRequestIsServedOnce, Exists
<1> QED
  BY <1>1, Invariance, PTL

-----------------------------------------------------------------------------
(* Open connections listen, unless a part of a request has been read or a  *)
(* request has been parked.                                                *)

\* Request r is parked, or on its way to a worker that will post a receive.
Waits(r) ==
  \/ r \in ToSet(io.ret) \/ r \in ToSet(request_queue_) \/ r \in ToSet(conn[Client(r)].dqe_)
  \/ BeingServed(r, {"recv"}) # {}

\* The decoder has got a part of a request of connection k.
Split(k) == k.received % Parts # 0

ListenInv ==
  \A c \in Connections : conn[c].state = "open" /\ ~conn[c].left =>
    conn[c].recvs > 0 \/ Split(conn[c]) \/ \E i \in 1 .. MaxRequests : Waits(<<c, i>>)

LEMMA ToSetIs ==
  ASSUME NEW S, NEW s \in Seq(S)
  PROVE  /\ ToSet(<<>>) = {}
         /\ \A x \in S : ToSet(Append(s, x)) = ToSet(s) \cup {x}
         /\ s # <<>> => ToSet(s) = ToSet(Tail(s)) \cup {Head(s)}
<1>1. ToSet(<<>>) = {}
  BY DEF ToSet
<1>2. ASSUME NEW x \in S
      PROVE  ToSet(Append(s, x)) = ToSet(s) \cup {x}
  <2> DEFINE t == Append(s, x)
             n == Len(s)
  <2>1. /\ n \in Nat /\ DOMAIN s = 1 .. n /\ DOMAIN t = 1 .. n + 1
        /\ t[n + 1] = x /\ \A i \in 1 .. n : t[i] = s[i]
    OBVIOUS
  <2> HIDE DEF t, n
  <2>2. \A i : i \in 1 .. n + 1 <=> (i \in 1 .. n \/ i = n + 1)
    BY <2>1
  <2>3. ToSet(t) = ToSet(s) \cup {x}
    BY <2>1, <2>2 DEF ToSet
  <2> QED
    BY <2>3 DEF t
<1>3. ASSUME s # <<>>
      PROVE  ToSet(s) = ToSet(Tail(s)) \cup {Head(s)}
  <2> DEFINE t == Tail(s)
             n == Len(s)
  <2>1. /\ n \in Nat \ {0} /\ DOMAIN s = 1 .. n /\ DOMAIN t = 1 .. n - 1
        /\ Head(s) = s[1] /\ \A i \in 1 .. n - 1 : t[i] = s[i + 1]
    BY <1>3
  <2> HIDE DEF t, n
  <2>2. \A i : i \in 1 .. n <=> (i = 1 \/ (i \in Int /\ i - 1 \in 1 .. n - 1))
    BY <2>1
  <2>3. \A i \in 1 .. n - 1 : i + 1 \in 1 .. n /\ t[i] = s[i + 1]
    BY <2>1
  <2>4. ASSUME NEW i \in 1 .. n
        PROVE  s[i] = Head(s) \/ (i - 1 \in 1 .. n - 1 /\ t[i - 1] = s[i])
    BY <2>1
  <2>5. ToSet(s) = ToSet(t) \cup {Head(s)}
    <3>1. ToSet(s) \subseteq ToSet(t) \cup {Head(s)}
      BY <2>1, <2>4 DEF ToSet
    <3>2. ToSet(t) \subseteq ToSet(s)
      BY <2>1, <2>3 DEF ToSet
    <3>3. Head(s) \in ToSet(s)
      BY <2>1 DEF ToSet
    <3> QED
      BY <3>1, <3>2, <3>3
  <2> QED
    BY <2>5 DEF t
<1> QED
  BY <1>1, <1>2, <1>3

LEMMA ListenFrame ==
  ASSUME ListenInv,
         \A c \in Connections : conn'[c].state = "open" /\ ~conn'[c].left =>
           \/ conn'[c].recvs > 0 \/ Split(conn'[c])
           \/ \E i \in 1 .. MaxRequests : Waits(<<c, i>>)'
           \/ /\ conn[c].state = "open" /\ ~conn[c].left
              /\ conn[c].recvs > 0 => conn'[c].recvs > 0
              /\ conn'[c].received = conn[c].received
              /\ \A i \in 1 .. MaxRequests : Waits(<<c, i>>) => Waits(<<c, i>>)'
  PROVE  ListenInv'
  BY DEF ListenInv, Split

Listens(k) == k.state = "open" /\ ~k.left

\* A connection with what its listening depends on, or one that need not listen.
SameListener(k, j) ==
  Listens(k) => Listens(j) /\ k.recvs = j.recvs /\ k.received = j.received /\ k.dqe_ = j.dqe_

LEMMA SameListeners ==
  ASSUME NEW j \in ConnRecords, NEW x
  PROVE  /\ SameListener(j, j) /\ SameListener(Closed(j), j)
         /\ SameListener([j EXCEPT !.sent = x], j)
         /\ SameListener([j EXCEPT !.left = TRUE], j)
         /\ SameListener([j EXCEPT !.spaces = x], j)
         /\ SameListener([j EXCEPT !.sends = x], j)
         /\ SameListener(Closed([j EXCEPT !.sends = x]), j)
         /\ SameListener([j EXCEPT !.dqe1_ = x], j)
<1>1. /\ SameListener(j, j)
      /\ SameListener([j EXCEPT !.sent = x], j)
      /\ SameListener([j EXCEPT !.left = TRUE], j)
      /\ SameListener([j EXCEPT !.spaces = x], j)
      /\ SameListener([j EXCEPT !.sends = x], j)
      /\ SameListener([j EXCEPT !.dqe1_ = x], j)
  BY DEF ConnRecords, SameListener, Listens
<1>2. SameListener(Closed(j), j)
  <2>1. Closed(j).state # "open"
    BY DEF Closed, ConnRecords
  <2> QED
    BY <2>1 DEF SameListener, Listens
<1>3. SameListener(Closed([j EXCEPT !.sends = x]), j)
  <2> DEFINE k == [j EXCEPT !.sends = x]
  <2>1. Closed(k).state # "open"
    BY DEF Closed, ConnRecords
  <2> HIDE DEF k
  <2>2. SameListener(Closed(k), j)
    BY <2>1 DEF SameListener, Listens
  <2> QED
    BY <2>2 DEF k
<1> QED
  BY <1>1, <1>2, <1>3

LEMMA QuietListens ==
  ASSUME IInv, ListenInv, NEW c \in Connections, NEW k, conn' = [conn EXCEPT ![c] = k],
         SameListener(k, conn[c]) \/ (k.recvs > 0 /\ Listens(k)),
         io'.ret = io.ret, UNCHANGED request_queue_,
         \A d \in Connections : \A i \in 1 .. MaxRequests :
           (conn'[d].state = "open" /\ ~(conn'[d].recvs > 0)
              /\ BeingServed(<<d, i>>, {"recv"}) # {})
             => BeingServed(<<d, i>>, {"recv"})' # {}
  PROVE  ListenInv'
<1> SUFFICES ASSUME NEW d \in Connections, conn'[d].state = "open" /\ ~conn'[d].left
             PROVE  \/ conn'[d].recvs > 0 \/ Split(conn'[d])
                    \/ \E i \in 1 .. MaxRequests : Waits(<<d, i>>)'
                    \/ /\ conn[d].state = "open" /\ ~conn[d].left
                       /\ conn[d].recvs > 0 => conn'[d].recvs > 0
                       /\ conn'[d].received = conn[d].received
                       /\ \A i \in 1 .. MaxRequests : Waits(<<d, i>>) => Waits(<<d, i>>)'
  BY ListenFrame
<1>1. conn'[d] = IF d = c THEN k ELSE conn[d]
  BY DEF IInv, Typed
<1>2. CASE d = c /\ k.recvs > 0
  BY <1>1, <1>2
<1>3. CASE ~(conn'[d].recvs > 0) /\ (d # c \/ SameListener(k, conn[c]))
  <2>1. /\ conn[d].state = "open" /\ ~conn[d].left
        /\ conn'[d].recvs = conn[d].recvs /\ conn'[d].received = conn[d].received
        /\ conn'[d].dqe_ = conn[d].dqe_
    BY <1>1, <1>3 DEF SameListener, Listens
  <2>2. ASSUME NEW i \in 1 .. MaxRequests, Waits(<<d, i>>)
        PROVE  Waits(<<d, i>>)'
    <3>1. Client(<<d, i>>) = d
      BY DEF Client
    <3>2. \/ <<d, i>> \in ToSet(io.ret) \/ <<d, i>> \in ToSet(request_queue_)
          \/ <<d, i>> \in ToSet(conn[d].dqe_) \/ BeingServed(<<d, i>>, {"recv"}) # {}
      BY <2>2, <3>1 DEF Waits
    <3>3. \/ <<d, i>> \in ToSet(io'.ret) \/ <<d, i>> \in ToSet(request_queue_')
          \/ <<d, i>> \in ToSet(conn'[d].dqe_) \/ BeingServed(<<d, i>>, {"recv"})' # {}
      BY <1>3, <2>1, <3>2
    <3> QED
      BY <3>1, <3>3 DEF Waits
  <2> QED
    BY <2>1, <2>2
<1> QED
  BY <1>1, <1>2, <1>3

\* The steps of clients and the accept thread, of completions, and of the IO
\* thread that take no request on.
LEMMA ConnectionListens ==
  ASSUME IInv, ListenInv, NEW c \in Connections,
         \/ ClientSend(c) \/ ClientLeave(c) \/ AddConnection(c)
         \/ HandleWrite(c) \/ HandleQueueSpace(c) \/ OperationFails(c) \/ IoUsesDestroyed(c)
  PROVE  ListenInv'
<1>1. PICK j \in ConnRecords : j = conn[c]
  BY ConnectionIs
<1>2. UNCHANGED <<request_queue_, worker>> /\ io'.ret = io.ret
  <2>1. UNCHANGED <<request_queue_, worker>>
    BY DEF ClientSend, ClientLeave, AddConnection, HandleWrite, HandleQueueSpace, OperationFails,
           IoUsesDestroyed
  <2>2. \/ io' = io \/ io' = [io EXCEPT !.at = "undefined"]
        \/ \E x \in {"blocked", "space"} : io' = [io EXCEPT !.at = x, !.conn = c]
    BY DEF ClientSend, ClientLeave, AddConnection, HandleWrite, HandleQueueSpace, OperationFails,
           IoUsesDestroyed
  <2>3. io \in IoRecords
    BY DEF IInv, Typed
  <2> QED
    BY <2>1, <2>2, <2>3 DEF IoRecords
<1>3. \A r : BeingServed(r, {"recv"})' = BeingServed(r, {"recv"})
  BY <1>2 DEF BeingServed
<1>4. PICK k : /\ conn' = [conn EXCEPT ![c] = k]
               /\ SameListener(k, j) \/ (k.recvs > 0 /\ Listens(k))
  <2>1. CASE ClientSend(c)
    <3>1. conn' = [conn EXCEPT ![c] = [j EXCEPT !.sent = j.sent + 1]]
      BY <1>1, <2>1 DEF ClientSend
    <3> QED
      BY <3>1, SameListeners
  <2>2. CASE ClientLeave(c)
    <3>1. conn' = [conn EXCEPT ![c] = [j EXCEPT !.left = TRUE]]
      BY <1>1, <2>2 DEF ClientLeave
    <3> QED
      BY <3>1, SameListeners
  <2>3. CASE AddConnection(c)
    <3> DEFINE n == [j EXCEPT !.state = "open"]
    <3>1. PICK k \in PostRecv(n) : conn' = [conn EXCEPT ![c] = k]
      BY <1>1, <2>3 DEF AddConnection
    <3>2. n \in ConnRecords /\ n.state = "open" /\ n.recvs \in Nat
      BY DEF ConnRecords
    <3> HIDE DEF n
    <3>3. k = [n EXCEPT !.recvs = n.recvs + 1] \/ k = [n EXCEPT !.state = "closed"]
      BY <3>1, <3>2, PostRecvIs
    <3>4. CASE k = [n EXCEPT !.recvs = n.recvs + 1]
      <4>1. k.recvs > 0 /\ k.left = n.left /\ k.state = "open"
        BY <3>2, <3>4 DEF ConnRecords
      <4> QED
        BY <3>1, <4>1 DEF SameListener, Listens
    <3>5. CASE k = [n EXCEPT !.state = "closed"]
      <4>1. k.state = "closed"
        BY <3>2, <3>5 DEF ConnRecords
      <4> QED
        BY <3>1, <4>1 DEF SameListener, Listens
    <3> QED
      BY <3>3, <3>4, <3>5
  <2>4. CASE HandleWrite(c)
    <3>1. \/ conn' = [conn EXCEPT ![c] = [j EXCEPT !.sends = Tail(j.sends)]]
          \/ conn' = [conn EXCEPT ![c] = Closed([j EXCEPT !.sends = Tail(j.sends)])]
      BY <1>1, <2>4 DEF HandleWrite
    <3> QED
      BY <3>1, SameListeners
  <2>5. CASE HandleQueueSpace(c)
    <3>1. conn' = [conn EXCEPT ![c] = [j EXCEPT !.spaces = j.spaces - 1]]
      BY <1>1, <2>5 DEF HandleQueueSpace
    <3> QED
      BY <3>1, SameListeners
  <2>6. CASE OperationFails(c)
    <3>1. PICK k \in OneLess(j) :
            conn' = [conn EXCEPT ![c] =
              IF k.state = "open" THEN k
              ELSE [k EXCEPT !.state = "destroyed", !.dqe_ = <<>>, !.dqe1_ = <<>>]]
      BY <1>1, <2>6 DEF OperationFails
    <3>2. j.state = "closed" \/ j.left
      BY <1>1, <2>6 DEF OperationFails
    <3>3. k.state = j.state /\ k.left = j.left /\ DOMAIN k = DOMAIN j
      BY <3>1 DEF OneLess, ConnRecords
    <3>4. [k EXCEPT !.state = "destroyed", !.dqe_ = <<>>, !.dqe1_ = <<>>].state = "destroyed"
      BY <3>3 DEF ConnRecords
    <3>5. ~Listens(k) /\ ~Listens([k EXCEPT !.state = "destroyed", !.dqe_ = <<>>, !.dqe1_ = <<>>])
      BY <3>2, <3>3, <3>4 DEF Listens
    <3> QED
      BY <3>1, <3>5 DEF SameListener
  <2>7. CASE IoUsesDestroyed(c)
    <3>1. conn' = [conn EXCEPT ![c] = j]
      BY <1>1, <2>7 DEF IoUsesDestroyed, IInv, Typed
    <3> QED
      BY <3>1, SameListeners
  <2> QED
    BY <2>1, <2>2, <2>3, <2>4, <2>5, <2>6, <2>7
<1> QED
  BY <1>1, <1>2, <1>3, <1>4, QuietListens

LEMMA IoGoesOnListens ==
  ASSUME IInv, ListenInv, HandleReadFull \/ MoveParkedEnds
  PROVE  ListenInv'
<1>1. io.at \in {"read", "space"} /\ UNCHANGED <<request_queue_, worker>> /\ io \in IoRecords
  BY DEF HandleReadFull, MoveParkedEnds, IInv, Typed
<1>2. io.conn \in Connections
  BY <1>1 DEF IInv, IoInv
<1>3. io'.ret = io.ret
  <2>1. CASE HandleReadFull
    BY <1>1, <2>1 DEF HandleReadFull, IoRecords
  <2>2. CASE MoveParkedEnds
    BY <2>2 DEF MoveParkedEnds, IoWaits, IInv, IoInv
  <2> QED
    BY <2>1, <2>2
<1>4. PICK j \in ConnRecords : j = conn[io.conn]
  BY <1>2, ConnectionIs
<1>5. PICK k : conn' = [conn EXCEPT ![io.conn] = k] /\ SameListener(k, j)
  <2>1. CASE HandleReadFull
    <3>1. conn' = [conn EXCEPT ![io.conn] = j]
      BY <1>4, <2>1 DEF HandleReadFull, IInv, Typed
    <3> QED
      BY <3>1, SameListeners
  <2>2. CASE MoveParkedEnds
    <3>1. PICK k \in {j} \cup PostSpace(j) : conn' = [conn EXCEPT ![io.conn] = k]
      BY <1>4, <2>2 DEF MoveParkedEnds
    <3>2. k = j \/ k = [j EXCEPT !.spaces = j.spaces + 1]
      BY <3>1 DEF PostSpace
    <3> QED
      BY <3>1, <3>2, SameListeners
  <2> QED
    BY <2>1, <2>2
<1>6. \A r : BeingServed(r, {"recv"})' = BeingServed(r, {"recv"})
  BY <1>1 DEF BeingServed
<1> QED
  BY <1>1, <1>2, <1>3, <1>4, <1>5, <1>6, QuietListens

\* A worker's steps, but for the first two.
LEMMA WorkerListens ==
  ASSUME IInv, ListenInv, NEW w \in Workers,
         \/ Dispatch(w) \/ PostSendSwap(w) \/ PostSendFails(w) \/ PostSendEncode(w)
         \/ PostSendPop(w) \/ PostSend(w) \/ NotifySpace(w)
  PROVE  ListenInv'
<1> USE DEF PostSendSwap, PostSendFails, PostSendEncode, PostSendPop, PostSend, NotifySpace,
            Dispatch
<1>1. worker[w].at \in {"dispatch", "swap", "drain", "pop", "space"}
  BY DEF Step
<1>2. UNCHANGED <<request_queue_, io>>
  OBVIOUS
<1>3. PICK c : c = ConnOf(w)
  OBVIOUS
<1>4. /\ c \in Connections /\ worker[w] \in WorkerRecords
      /\ worker \in [Workers -> WorkerRecords]
  BY <1>1, <1>3, WorkerIs DEF IInv, Typed
<1>5. PICK j \in ConnRecords : j = conn[c]
  BY <1>4, ConnectionIs
<1>6. PICK k : conn' = [conn EXCEPT ![c] = k] /\ SameListener(k, j)
  <2>1. CASE Dispatch(w)
    <3>1. conn' = [conn EXCEPT ![c] = [j EXCEPT !.dqe1_ = Append(j.dqe1_, worker[w].message)]]
      BY <1>3, <1>5, <2>1
    <3> QED
      BY <3>1, SameListeners
  <2>2. CASE PostSendSwap(w)
    <3>1. conn' = [conn EXCEPT ![c] = [j EXCEPT !.dqe1_ = <<>>]]
      BY <1>3, <1>5, <2>2
    <3> QED
      BY <3>1, SameListeners
  <2>3. CASE PostSendFails(w)
    <3>1. conn' = [conn EXCEPT ![c] = Closed(j)]
      BY <1>3, <1>5, <2>3
    <3> QED
      BY <3>1, SameListeners
  <2>4. CASE PostSendEncode(w) \/ (PostSendPop(w) /\ j.dqe1_ = <<>>)
    <3>1. conn' = conn
      BY <1>3, <1>5, <2>4
    <3>2. conn' = [conn EXCEPT ![c] = j]
      BY <1>5, <3>1 DEF IInv, Typed
    <3> QED
      BY <3>2, SameListeners
  <2>5. CASE PostSendPop(w) /\ j.dqe1_ # <<>>
    <3>1. conn' = [conn EXCEPT ![c] = [j EXCEPT !.dqe1_ = Tail(j.dqe1_)]]
      BY <1>3, <1>5, <2>5
    <3> QED
      BY <3>1, SameListeners
  <2>6. CASE PostSend(w)
    <3> DEFINE s == Append(j.sends, [n |-> worker[w].n, ans |-> worker[w].ans])
    <3>1. PICK l \in Attempt(j, [j EXCEPT !.sends = s]) : conn' = [conn EXCEPT ![c] = l]
      BY <1>3, <1>5, <2>6
    <3>2. l \in {[j EXCEPT !.sends = s], Closed(j)}
      BY <3>1 DEF Attempt
    <3> QED
      BY <3>1, <3>2, SameListeners
  <2>7. CASE NotifySpace(w)
    <3>1. PICK l \in {j} \cup PostSpace(j) : conn' = [conn EXCEPT ![c] = l]
      BY <1>3, <1>5, <2>7
    <3>2. l = j \/ l = [j EXCEPT !.spaces = j.spaces + 1]
      BY <3>1 DEF PostSpace
    <3> QED
      BY <3>1, <3>2, SameListeners
  <2> QED
    BY <2>1, <2>2, <2>3, <2>4, <2>5, <2>6, <2>7
<1>7. /\ \A x \in Workers : x # w => worker'[x] = worker[x]
      /\ worker'[w].at # "recv"
  <2>1. PICK v : worker' = [worker EXCEPT ![w] = v] /\ v.at # "recv"
    <3>1. PICK u \in WorkerRecords : u = worker[w]
      BY <1>4
    <3>2. CASE NotifySpace(w)
      BY <3>2 DEF Step, IdleWorker
    <3>3. CASE PostSendSwap(w)
      <4>1. PICK m : worker' = [worker EXCEPT ![w] = [u EXCEPT !.at = "drain", !.n = m]]
        BY <3>1, <3>3 DEF Step, At
      <4>2. [u EXCEPT !.at = "drain", !.n = m].at = "drain"
        BY DEF WorkerRecords
      <4> QED
        BY <4>1, <4>2
    <3>4. CASE PostSendEncode(w)
      <4>1. PICK a : worker' = [worker EXCEPT ![w] = [u EXCEPT !.at = "pop", !.n = 1, !.ans = a]]
        BY <3>1, <3>4 DEF Step, At
      <4>2. [u EXCEPT !.at = "pop", !.n = 1, !.ans = a].at = "pop"
        BY DEF WorkerRecords
      <4> QED
        BY <4>1, <4>2
    <3>5. CASE PostSend(w)
      <4>1. worker' = [worker EXCEPT ![w] = [u EXCEPT !.at = "space", !.n = 0, !.ans = {}]]
        BY <3>1, <3>5 DEF Step, At
      <4>2. [u EXCEPT !.at = "space", !.n = 0, !.ans = {}].at = "space"
        BY DEF WorkerRecords
      <4> QED
        BY <4>1, <4>2
    <3>6. CASE Dispatch(w) \/ PostSendFails(w) \/ PostSendPop(w)
      <4>1. \E x \in {"swap", "space", "drain", "undefined"} :
              worker' = [worker EXCEPT ![w] = [u EXCEPT !.at = x]]
        BY <3>1, <3>6 DEF Step, At
      <4>2. \A x : [u EXCEPT !.at = x].at = x
        BY DEF WorkerRecords
      <4> QED
        BY <4>1, <4>2
    <3> QED
      BY <3>2, <3>3, <3>4, <3>5, <3>6
  <2> QED
    BY <1>4, <2>1
<1>8. \A r : BeingServed(r, {"recv"})' = BeingServed(r, {"recv"})
  BY <1>1, <1>7 DEF BeingServed
<1> QED
  BY <1>2, <1>4, <1>5, <1>6, <1>8, QuietListens

LEMMA WorkerUsesDestroyedListens ==
  ASSUME IInv, ListenInv, NEW w \in Workers, WorkerUsesDestroyed(w)
  PROVE  ListenInv'
<1>1. PICK c : c = ConnOf(w)
  OBVIOUS
<1>2. /\ c \in Connections /\ worker[w] \in WorkerRecords
      /\ conn[c].state = "destroyed" /\ UNCHANGED <<conn, request_queue_, io>>
      /\ \A x \in Workers : x # w => worker'[x] = worker[x]
      /\ conn \in [Connections -> ConnRecords] /\ conn[c] \in ConnRecords
  BY <1>1, WorkerIs DEF WorkerUsesDestroyed, IInv, Typed
<1>3. conn' = [conn EXCEPT ![c] = conn[c]]
  BY <1>2
<1>4. SameListener(conn[c], conn[c])
  BY <1>2, SameListeners
<1>5. ASSUME NEW d \in Connections, NEW i \in 1 .. MaxRequests, conn'[d].state = "open"
      PROVE  BeingServed(<<d, i>>, {"recv"}) \subseteq BeingServed(<<d, i>>, {"recv"})'
  <2>1. worker[w].message # <<d, i>>
    BY <1>1, <1>2, <1>5 DEF ConnOf, Client
  <2> QED
    BY <1>2, <2>1 DEF BeingServed
<1> QED
  BY <1>2, <1>3, <1>4, <1>5, QuietListens

\* A step that takes a request on, from one place that listening counts to the
\* next, and leaves the receives as they were.
LEMMA TakingOnListens ==
  ASSUME ListenInv,
         \A c \in Connections : /\ conn'[c].state = conn[c].state
                                /\ conn'[c].left = conn[c].left
                                /\ conn'[c].recvs = conn[c].recvs
                                /\ conn'[c].received = conn[c].received,
         \A r \in Requests : Waits(r) => Waits(r)'
  PROVE  ListenInv'
<1>1. \A c \in Connections : \A i \in 1 .. MaxRequests : Waits(<<c, i>>) => Waits(<<c, i>>)'
  <2> SUFFICES ASSUME NEW c \in Connections, NEW i \in 1 .. MaxRequests, Waits(<<c, i>>)
               PROVE  Waits(<<c, i>>)'
    OBVIOUS
  <2>1. PICK r \in Requests : r = <<c, i>>
    BY DEF Requests
  <2>2. Waits(r) => Waits(r)'
    OBVIOUS
  <2> QED
    BY <2>1, <2>2
<1> QED
  BY <1>1, ListenFrame

LEMMA HandleReadServesListens ==
  ASSUME IInv, ListenInv, HandleReadEnqueue \/ HandleReadPark
  PROVE  ListenInv'
<1>1. io.at \in {"read", "park"} /\ NextRequest /\ UNCHANGED <<worker, answered>>
  BY DEF HandleReadEnqueue, HandleReadPark
<1>2. PICK x, c : x = Head(io.ret) /\ c = io.conn
  OBVIOUS
<1>3. /\ io.ret # <<>> /\ io.ret \in Seq(Requests) /\ io'.ret = Tail(io.ret)
      /\ x \in Requests /\ c \in Connections /\ Client(x) = c
  BY <1>1, <1>2, NextRequestIs DEF IInv
<1>4. ToSet(io.ret) = ToSet(io'.ret) \cup {x}
  BY <1>2, <1>3, ToSetIs
<1>5. \A r : BeingServed(r, {"recv"})' = BeingServed(r, {"recv"})
  BY <1>1 DEF BeingServed
<1>6. CASE HandleReadEnqueue
  <2>1. ~QueueFull /\ Enqueue(x) /\ conn' = conn
    BY <1>2, <1>6 DEF HandleReadEnqueue
  <2>2. request_queue_ \in Seq(Requests) /\ request_queue_' = Append(request_queue_, x)
    BY <2>1, Sizes DEF IInv, Typed, QueueFull, Enqueue
  <2>3. ToSet(request_queue_') = ToSet(request_queue_) \cup {x}
    BY <1>3, <2>2, ToSetIs
  <2>4. \A r \in Requests : Waits(r) => Waits(r)'
    BY <1>4, <1>5, <2>1, <2>3 DEF Waits
  <2> QED
    BY <2>1, <2>4, TakingOnListens
<1>7. CASE HandleReadPark
  <2>1. PICK j \in ConnRecords : j = conn[c]
    BY <1>3, ConnectionIs
  <2>2. j.dqe_ \in Seq(Requests)
    BY DEF ConnRecords
  <2>3. PICK s \in Seq(Requests) : s = Append(j.dqe_, x)
    <3>1. Append(j.dqe_, x) \in Seq(Requests)
      BY <1>3, <2>2
    <3> QED
      BY <3>1
  <2>4. conn' = [conn EXCEPT ![c] = [j EXCEPT !.dqe_ = s]] /\ request_queue_' = request_queue_
    BY <1>2, <1>7, <2>1, <2>3 DEF HandleReadPark
  <2>5. PICK k : k = [j EXCEPT !.dqe_ = s]
    OBVIOUS
  <2>6. /\ k.dqe_ = s /\ k.state = j.state /\ k.left = j.left
        /\ k.recvs = j.recvs /\ k.received = j.received
    BY <2>5 DEF ConnRecords
  <2>7. \A d \in Connections : conn'[d] = IF d = c THEN k ELSE conn[d]
    BY <2>4, <2>5 DEF IInv, Typed
  <2>8. ToSet(s) = ToSet(conn[c].dqe_) \cup {x}
    BY <1>3, <2>1, <2>2, <2>3, ToSetIs
  <2>9. ASSUME NEW r \in Requests, Waits(r)
        PROVE  Waits(r)'
    <3>1. Client(r) \in Connections
      BY DEF Client, Requests
    <3>2. ToSet(conn[Client(r)].dqe_) \subseteq ToSet(conn'[Client(r)].dqe_)
      BY <2>6, <2>7, <2>8, <3>1
    <3>3. r = x => r \in ToSet(conn'[Client(r)].dqe_)
      BY <1>3, <2>6, <2>7, <2>8
    <3>4. \/ r \in ToSet(io'.ret) \/ r \in ToSet(request_queue_')
          \/ r \in ToSet(conn'[Client(r)].dqe_) \/ BeingServed(r, {"recv"})' # {}
      BY <1>4, <1>5, <2>4, <2>9, <3>2, <3>3 DEF Waits
    <3> QED
      BY <3>4 DEF Waits
  <2> QED
    BY <2>1, <2>6, <2>7, <2>9, TakingOnListens
<1> QED
  BY <1>6, <1>7

LEMMA MoveParkedListens ==
  ASSUME IInv, ListenInv, MoveParked
  PROVE  ListenInv'
<1>1. io.at = "space" /\ UNCHANGED <<io, worker, answered>> /\ ~QueueFull
  BY DEF MoveParked
<1>2. PICK c : c = io.conn
  OBVIOUS
<1>3. c \in Connections
  BY <1>1, <1>2 DEF IInv, IoInv
<1>4. PICK j \in ConnRecords : j = conn[c]
  BY <1>3, ConnectionIs
<1>5. j.dqe_ \in Seq(Requests) /\ j.dqe_ # <<>>
  BY <1>2, <1>4 DEF ConnRecords, MoveParked
<1>6. PICK s \in Seq(Requests), x \in Requests : s = Tail(j.dqe_) /\ x = Head(j.dqe_)
  BY <1>5, TailKeeps
<1>7. conn' = [conn EXCEPT ![c] = [j EXCEPT !.dqe_ = s]] /\ Enqueue(x)
  BY <1>2, <1>4, <1>6 DEF MoveParked
<1>8. request_queue_ \in Seq(Requests) /\ request_queue_' = Append(request_queue_, x)
  BY <1>1, <1>7, Sizes DEF IInv, Typed, QueueFull, Enqueue
<1>9. PICK k : k = [j EXCEPT !.dqe_ = s]
  OBVIOUS
<1>10. /\ k.dqe_ = s /\ k.state = j.state /\ k.left = j.left
       /\ k.recvs = j.recvs /\ k.received = j.received
  BY <1>9 DEF ConnRecords
<1>11. \A d \in Connections : conn'[d] = IF d = c THEN k ELSE conn[d]
  BY <1>7, <1>9 DEF IInv, Typed
<1>12. /\ ToSet(conn[c].dqe_) = ToSet(s) \cup {x}
       /\ ToSet(request_queue_') = ToSet(request_queue_) \cup {x}
  BY <1>4, <1>5, <1>6, <1>8, ToSetIs
<1>13. \A r : BeingServed(r, {"recv"})' = BeingServed(r, {"recv"})
  BY <1>1 DEF BeingServed
<1>14. ASSUME NEW r \in Requests, Waits(r)
       PROVE  Waits(r)'
  <2>1. Client(r) \in Connections
    BY DEF Client, Requests
  <2>2. ToSet(conn[Client(r)].dqe_) \subseteq ToSet(conn'[Client(r)].dqe_) \cup {x}
    BY <1>10, <1>11, <1>12, <2>1
  <2>3. \/ r \in ToSet(io'.ret) \/ r \in ToSet(request_queue_')
        \/ r \in ToSet(conn'[Client(r)].dqe_) \/ BeingServed(r, {"recv"})' # {}
    BY <1>1, <1>12, <1>13, <1>14, <2>2 DEF Waits
  <2> QED
    BY <2>3 DEF Waits
<1> QED
  BY <1>4, <1>10, <1>11, <1>14, TakingOnListens

LEMMA DequeueListens ==
  ASSUME IInv, ListenInv, NEW w \in Workers, Dequeue(w)
  PROVE  ListenInv'
<1>1. PICK x : x = Head(request_queue_)
  OBVIOUS
<1>2. /\ worker[w].at = "idle" /\ request_queue_ # <<>> /\ request_queue_ \in Seq(Requests)
      /\ request_queue_' = Tail(request_queue_) /\ UNCHANGED <<conn, io, answered>>
      /\ worker \in [Workers -> WorkerRecords] /\ worker[w] \in WorkerRecords
  BY DEF Dequeue, IInv, Typed
<1>3. ToSet(request_queue_) = ToSet(request_queue_') \cup {x}
  BY <1>1, <1>2, ToSetIs
<1>4. PICK u \in WorkerRecords : u = worker[w]
  BY <1>2
<1>5. PICK v : v = [u EXCEPT !.at = "recv", !.message = x]
  OBVIOUS
<1>6. worker' = [worker EXCEPT ![w] = v] /\ v.at = "recv" /\ v.message = x
  BY <1>1, <1>2, <1>4, <1>5 DEF Dequeue, WorkerRecords
<1>7. worker'[w] = v /\ \A y \in Workers : y # w => worker'[y] = worker[y]
  BY <1>2, <1>6
<1>8. ASSUME NEW r
      PROVE  /\ BeingServed(r, {"recv"}) \subseteq BeingServed(r, {"recv"})'
             /\ r = x => w \in BeingServed(r, {"recv"})'
  BY <1>2, <1>6, <1>7 DEF BeingServed
<1>9. ASSUME NEW r \in Requests, Waits(r)
      PROVE  Waits(r)'
  <2>1. \/ r \in ToSet(io'.ret) \/ r \in ToSet(request_queue_')
        \/ r \in ToSet(conn'[Client(r)].dqe_) \/ BeingServed(r, {"recv"})' # {}
    BY <1>2, <1>3, <1>8, <1>9 DEF Waits
  <2> QED
    BY <2>1 DEF Waits
<1> QED
  BY <1>2, <1>9, TakingOnListens

LEMMA WorkerPostRecvListens ==
  ASSUME IInv, ListenInv, NEW w \in Workers, WorkerPostRecv(w)
  PROVE  ListenInv'
<1>1. PICK c : c = ConnOf(w)
  OBVIOUS
<1>2. /\ worker[w].at = "recv" /\ Exists(c) /\ worker' = [worker EXCEPT ![w] = At(w, "dispatch")]
      /\ UNCHANGED <<request_queue_, io, answered>>
      /\ worker \in [Workers -> WorkerRecords]
  BY <1>1 DEF WorkerPostRecv, Step, IInv, Typed
<1>3. c \in Connections
  BY <1>1, <1>2, WorkerIs
<1>4. PICK j \in ConnRecords : j = conn[c]
  BY <1>3, ConnectionIs
<1>5. PICK k \in PostRecv(j) : conn' = [conn EXCEPT ![c] = k]
  BY <1>1, <1>4 DEF WorkerPostRecv
<1>6. k.state = "open" => k.recvs > 0
  <2>1. j.recvs \in Nat /\ j.state \in {"open", "closed"}
    BY <1>2, <1>4 DEF Exists, ConnRecords
  <2>2. k = [j EXCEPT !.recvs = j.recvs + 1] \/ k = [j EXCEPT !.state = "closed"]
    BY <1>5, <2>1, PostRecvIs
  <2>3. CASE k = [j EXCEPT !.recvs = j.recvs + 1]
    <3>1. k.recvs = j.recvs + 1
      BY <2>3 DEF ConnRecords
    <3> QED
      BY <2>1, <3>1
  <2>4. CASE k = [j EXCEPT !.state = "closed"]
    <3>1. k.state = "closed"
      BY <2>4 DEF ConnRecords
    <3> QED
      BY <3>1
  <2> QED
    BY <2>2, <2>3, <2>4
<1>7. /\ \A x \in Workers : x # w => worker'[x] = worker[x]
      /\ \A d \in Connections : conn'[d] = IF d = c THEN k ELSE conn[d]
  BY <1>2, <1>5 DEF IInv, Typed
<1>8. ASSUME NEW d \in Connections, NEW i \in 1 .. MaxRequests, d # c
      PROVE  BeingServed(<<d, i>>, {"recv"}) \subseteq BeingServed(<<d, i>>, {"recv"})'
  <2>1. worker[w].message # <<d, i>>
    BY <1>1, <1>8 DEF ConnOf, Client
  <2> QED
    BY <1>7, <2>1 DEF BeingServed
<1>9. SameListener(k, conn[c]) \/ (k.recvs > 0 /\ Listens(k))
  BY <1>6 DEF SameListener, Listens
<1>10. ASSUME NEW d \in Connections, NEW i \in 1 .. MaxRequests,
              conn'[d].state = "open", ~(conn'[d].recvs > 0),
              BeingServed(<<d, i>>, {"recv"}) # {}
       PROVE  BeingServed(<<d, i>>, {"recv"})' # {}
  <2>1. d # c
    BY <1>6, <1>7, <1>10
  <2> QED
    BY <1>8, <1>10, <2>1
<1> QED
  BY <1>2, <1>3, <1>5, <1>9, <1>10, QuietListens

\* A read of an open connection whose client has not left gets at least one
\* piece.  Either it ends within a request, or it has completed one.
LEMMA HandleReadListens ==
  ASSUME IInv, ListenInv, NEW c \in Connections, NEW pieces \in Nat,
         HandleRead(c, pieces)
  PROVE  ListenInv'
<1>1. /\ io.at = "wait" /\ conn[c].recvs > 0
      /\ conn[c].received + pieces <= conn[c].sent
      /\ pieces = 0 => conn[c].left
      /\ UNCHANGED <<request_queue_, worker, answered>>
      /\ io' = IF Parsed(c, pieces) = <<>> THEN io
               ELSE [at |-> "read", conn |-> c, ret |-> Parsed(c, pieces)]
  BY DEF HandleRead
<1>2. io.ret = <<>> /\ ToSet(io.ret) = {}
  BY <1>1 DEF IInv, IoInv, ToSet
<1>3. PICK j \in ConnRecords : j = conn[c]
  BY ConnectionIs
<1>4. PICK k : k = [j EXCEPT !.recvs = j.recvs - 1, !.received = j.received + pieces]
  OBVIOUS
<1>5. /\ k.state = j.state /\ k.left = j.left /\ k.dqe_ = j.dqe_
      /\ k.received = j.received + pieces
  BY <1>4 DEF ConnRecords
<1>6. conn' = [conn EXCEPT ![c] = k] /\ conn \in [Connections -> ConnRecords]
  BY <1>3, <1>4 DEF HandleRead, ReceivesLeft, IInv, Typed
<1>7. \A d \in Connections : conn'[d] = IF d = c THEN k ELSE conn[d]
  BY <1>6
<1>8. \A r : BeingServed(r, {"recv"})' = BeingServed(r, {"recv"})
  BY <1>1 DEF BeingServed
<1> SUFFICES ASSUME NEW d \in Connections, conn'[d].state = "open" /\ ~conn'[d].left
             PROVE  \/ conn'[d].recvs > 0 \/ Split(conn'[d])
                    \/ \E i \in 1 .. MaxRequests : Waits(<<d, i>>)'
                    \/ /\ conn[d].state = "open" /\ ~conn[d].left
                       /\ conn[d].recvs > 0 => conn'[d].recvs > 0
                       /\ conn'[d].received = conn[d].received
                       /\ \A i \in 1 .. MaxRequests : Waits(<<d, i>>) => Waits(<<d, i>>)'
  BY ListenFrame
<1>9. CASE d # c
  <2>1. conn'[d] = conn[d]
    BY <1>7, <1>9
  <2>2. ASSUME NEW i \in 1 .. MaxRequests, Waits(<<d, i>>)
        PROVE  Waits(<<d, i>>)'
    <3>1. Client(<<d, i>>) = d
      BY DEF Client
    <3>2. \/ <<d, i>> \in ToSet(request_queue_')
          \/ <<d, i>> \in ToSet(conn'[d].dqe_) \/ BeingServed(<<d, i>>, {"recv"})' # {}
      BY <1>1, <1>2, <1>8, <2>1, <2>2, <3>1 DEF Waits
    <3> QED
      BY <3>1, <3>2 DEF Waits
  <2> QED
    BY <2>1, <2>2
<1>10. CASE d = c /\ ~Split(k)
  <2> DEFINE s == Parsed(c, pieces)
             a == conn[c].received
             b == conn[c].received + pieces
             before == a \div Parts
             after == b \div Parts
  <2>1. a \in Nat /\ b \in Nat /\ a < b /\ b % Parts = 0
    <3>1. pieces > 0
      BY <1>1, <1>3, <1>5, <1>7, <1>10
    <3>2. b % Parts = 0
      BY <1>3, <1>5, <1>10 DEF Split
    <3>3. conn[c].received \in Nat
      BY ConnectionIs
    <3> QED
      BY <3>1, <3>2, <3>3
  <2>2. /\ before \in Nat /\ after \in Nat /\ after <= MaxRequests
        /\ s \in Seq(Requests) /\ Len(s) = after - before
        /\ \A i \in 1 .. after - before : s[i] = <<c, before + i>>
    BY <1>1, ParsedIs DEF IInv
  <2> HIDE DEF s, a, b
  <2>3. before < after
    <3>1. after * Parts = b
      <4>1. b = Parts * after + (b % Parts)
        BY <2>1, Sizes, Quotient
      <4> HIDE DEF after
      <4>2. after * Parts = Parts * after /\ Parts * after \in Int
        BY <2>2, Sizes
      <4> QED
        BY <2>1, <4>1, <4>2
    <3>2. after <= before <=> after * Parts <= a
      BY <2>1, <2>2, Sizes, QuotientIs
    <3> HIDE DEF before, after
    <3> QED
      BY <2>1, <2>2, <3>1, <3>2
  <2> HIDE DEF before, after
  <2>4. 1 \in 1 .. after - before /\ after - before >= 1 /\ before + 1 \in 1 .. MaxRequests
    BY <2>2, <2>3, Sizes
  <2>5. DOMAIN s = 1 .. after - before /\ s # <<>>
    BY <2>2, <2>4
  <2>6. <<c, before + 1>> \in ToSet(s)
    BY <2>2, <2>4, <2>5 DEF ToSet
  <2>7. io'.ret = s
    BY <1>1, <2>5 DEF s
  <2>8. PICK n \in 1 .. MaxRequests : n = before + 1
    BY <2>4
  <2>9. <<c, n>> \in ToSet(io'.ret)
    BY <2>6, <2>7, <2>8
  <2>10. Waits(<<c, n>>)'
    BY <2>9 DEF Waits
  <2> QED
    BY <1>10, <2>8, <2>10
<1>11. CASE d = c /\ Split(k)
  BY <1>7, <1>11
<1> QED
  BY <1>9, <1>10, <1>11

\* An open connection without a receive is one of which a part of a request has
\* been read, or a request parked, or one of whose requests is on its way to a
\* worker that will post the next receive: the worker that takes a request
\* does so before anything else, so a receive is lost in these two ways only.
THEOREM Listen == Spec => []DeafOnlyIfSplitOrParked
<1>1. Init => ListenInv
  BY DEF Init, ListenInv, NewConnection
<1>2. IInv /\ ListenInv /\ [Next]_vars => ListenInv'
  <2> SUFFICES ASSUME IInv, ListenInv, [Next]_vars
               PROVE  ListenInv'
    OBVIOUS
  <2>1. CASE \E c \in Connections : ClientSend(c) \/ ClientLeave(c) \/ AddConnection(c)
    BY <2>1, ConnectionListens
  <2>2. CASE IoThread
    <3>1. ASSUME NEW c \in Connections, NEW pieces \in 0 .. MaxRequests * Parts,
                 HandleRead(c, pieces)
          PROVE  ListenInv'
      <4>1. pieces \in Nat
        BY <3>1, Sizes DEF MostPieces
      <4> QED
        BY <3>1, <4>1, HandleReadListens
    <3>2. ASSUME NEW c \in Connections,
                 HandleWrite(c) \/ HandleQueueSpace(c) \/ OperationFails(c) \/ IoUsesDestroyed(c)
          PROVE  ListenInv'
      BY <3>2, ConnectionListens
    <3>3. HandleReadEnqueue \/ HandleReadPark \/ MoveParked => ListenInv'
      BY HandleReadServesListens, MoveParkedListens
    <3>4. HandleReadFull \/ MoveParkedEnds => ListenInv'
      BY IoGoesOnListens
    <3> QED
      BY <2>2, <3>1, <3>2, <3>3, <3>4 DEF IoThread
  <2>3. ASSUME NEW w \in Workers, WorkerThread(w)
        PROVE  ListenInv'
    <3>1. Dequeue(w) \/ WorkerPostRecv(w) \/ WorkerUsesDestroyed(w) => ListenInv'
      BY DequeueListens, WorkerPostRecvListens, WorkerUsesDestroyedListens
    <3>2. Dispatch(w) \/ PostSendSwap(w) \/ PostSendFails(w) \/ PostSendEncode(w)
            \/ PostSendPop(w) \/ PostSend(w) \/ NotifySpace(w) => ListenInv'
      BY WorkerListens
    <3> QED
      BY <2>3, <3>1, <3>2 DEF WorkerThread
  <2>4. CASE UNCHANGED vars
    BY <2>4 DEF vars, ListenInv, Waits, Split, BeingServed
  <2> QED
    BY <2>1, <2>2, <2>3, <2>4 DEF Next
<1>3. ListenInv => DeafOnlyIfSplitOrParked
  <2> SUFFICES ASSUME ListenInv, NEW c \in Connections, conn[c].state = "open", ~conn[c].left,
                      ~(conn[c].recvs > 0), ~Split(conn[c]), conn[c].dqe_ = <<>>
               PROVE  ReceiveIsDue(c)
    BY DEF DeafOnlyIfSplitOrParked, Split
  <2>1. PICK i \in 1 .. MaxRequests : Waits(<<c, i>>)
    BY DEF ListenInv
  <2> DEFINE r == <<c, i>>
  <2>2. r \in {c} \X (1 .. MaxRequests) /\ Client(r) = c
    BY DEF Client
  <2>3. ToSet(conn[c].dqe_) = {}
    BY DEF ToSet
  <2>4. r \in ToSet(io.ret) \cup ToSet(request_queue_) \/ BeingServed(r, {"recv"}) # {}
    BY <2>1, <2>2, <2>3 DEF Waits
  <2> HIDE DEF r
  <2> QED
    BY <2>2, <2>4 DEF ReceiveIsDue
<1>4. Init /\ [][Next]_vars /\ []IInv => []ListenInv
  BY <1>1, <1>2, PTL
<1> QED
  BY <1>3, <1>4, Invariance, PTL DEF Spec
=============================================================================
