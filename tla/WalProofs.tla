------------------------------ MODULE WalProofs ------------------------------
(***************************************************************************)
(* Proofs about Wal, for any appenders, keys and values, any size of files *)
(* and buffer, and any number of appends and crashes.                      *)
(***************************************************************************)
EXTENDS Wal, SequenceTheorems, WellFoundedInduction, FiniteSetTheorems, TLAPS

-----------------------------------------------------------------------------
(* Induction over a set of numbers.                                        *)

LEMMA SetInduction ==
  ASSUME NEW n \in Nat, NEW S, 0 \in S, \A m \in 0 .. n - 1 : m \in S => m + 1 \in S
  PROVE  \A m \in 0 .. n : m \in S
<1> DEFINE T == {m \in 0 .. n : m \notin S}
           R == OpToRel(<, Nat)
<1>1. SUFFICES ASSUME T # {}
               PROVE  FALSE
  OBVIOUS
<1>2. T \subseteq Nat
  OBVIOUS
<1>3. PICK x \in T : \A y \in T : ~(<<y, x>> \in R)
  <2> HIDE DEF T, R
  <2> QED
    BY <1>1, <1>2, NatLessThanWellFounded, WFMin DEF R
<1>4. x \in 0 .. n /\ x \notin S /\ x # 0
  OBVIOUS
<1>5. x - 1 \in 0 .. n - 1 /\ (x - 1) + 1 = x
  BY <1>4
<1>6. x - 1 \in T
  BY <1>4, <1>5
<1>7. <<x - 1, x>> \in R
  BY <1>5 DEF OpToRel
<1> QED
  BY <1>3, <1>6, <1>7

-----------------------------------------------------------------------------
(* Seconds.                                                                *)

LEMMA Quotient ==
  ASSUME NEW n \in Nat \ {0}, NEW a \in Nat
  PROVE  /\ a \div n \in Nat
         /\ a = n * (a \div n) + (a % n)
         /\ a % n \in 0 .. n - 1
  OBVIOUS

LEMMA Multiple ==
  ASSUME NEW n \in Nat, NEW j \in Nat
  PROVE  n * (j + 1) = n * j + n /\ n * j \in Nat
  OBVIOUS

LEMMA ProductGrows ==
  ASSUME NEW n \in Nat \ {0}, NEW j \in Nat, NEW k \in Nat, j <= k
  PROVE  n * j <= n * k
<1> DEFINE S == {d \in Nat : n * j <= n * (j + d)}
<1>1. 0 \in S
  BY Multiple
<1>2. ASSUME NEW d \in 0 .. (k - j) - 1, d \in S
      PROVE  d + 1 \in S
  <2>1. n * ((j + d) + 1) = n * (j + d) + n /\ n * (j + d) \in Nat /\ n * j \in Nat
    BY Multiple
  <2>2. j + (d + 1) = (j + d) + 1 /\ d + 1 \in Nat
    OBVIOUS
  <2> DEFINE a == n * (j + d)
             b == n * ((j + d) + 1)
             c == n * j
  <2>3. c <= a /\ b = a + n /\ a \in Nat /\ c \in Nat
    BY <1>2, <2>1
  <2> HIDE DEF a, b, c
  <2>4. c <= b
    BY <2>3
  <2> QED
    BY <2>2, <2>4 DEF b, c
<1>3. k - j \in Nat /\ j + (k - j) = k
  OBVIOUS
<1>4. k - j \in S
  <2> HIDE DEF S
  <2> QED
    BY <1>1, <1>2, <1>3, SetInduction
<1> QED
  BY <1>3, <1>4

LEMMA SecondsGrow ==
  ASSUME NEW a \in Nat, NEW b \in Nat, a <= b
  PROVE  /\ Second(a) \in Nat /\ Second(b) \in Nat
         /\ Second(a) <= Second(b)
<1> DEFINE n == TicksPerSecond
           p == a \div n
           q == b \div n
<1>1. n \in Nat \ {0}
  BY SizeAssumption
<1> HIDE DEF n
<1>2. /\ p \in Nat /\ a = n * p + (a % n) /\ a % n \in 0 .. n - 1
      /\ q \in Nat /\ b = n * q + (b % n) /\ b % n \in 0 .. n - 1
  BY <1>1, Quotient
<1>3. ASSUME q < p
      PROVE  FALSE
  <2> DEFINE np == n * p
             nq == n * q
             nr == n * (q + 1)
             r == a % n
             s == b % n
  <2>1. nr <= np
    <3>1. q + 1 \in Nat /\ q + 1 <= p
      BY <1>2, <1>3
    <3> HIDE DEF p, q
    <3> QED
      BY <1>1, <1>2, <3>1, ProductGrows
  <2>2. nr = nq + n /\ nq \in Nat
    BY <1>1, <1>2, Multiple
  <2>3. a = np + r /\ b = nq + s /\ r \in 0 .. n - 1 /\ s \in 0 .. n - 1
    BY <1>2
  <2>4. np \in Nat /\ nr \in Nat
    BY <1>1, <1>2, Multiple
  <2> HIDE DEF np, nq, nr, r, s
  <2> QED
    BY <1>1, <2>1, <2>2, <2>3, <2>4
<1> HIDE DEF p, q
<1>4. p <= q
  BY <1>2, <1>3
<1> QED
  BY <1>2, <1>4 DEF p, q, n, Second

-----------------------------------------------------------------------------
(* The whole records of a file.                                            *)

\* f is the function that Intact defines for a file.
IsIntact(f, file) ==
  f = [i \in 0 .. Len(file) |-> IF i = 0 THEN <<>>
                                ELSE IF file[i] = Torn THEN f[i - 1]
                                ELSE Append(f[i - 1], file[i])]

LEMMA IntactExists ==
  ASSUME NEW S, NEW file \in Seq(S)
  PROVE  \E f : IsIntact(f, file)
<1> DEFINE Upto(f, n) == f = [i \in 0 .. n |-> IF i = 0 THEN <<>>
                                               ELSE IF file[i] = Torn THEN f[i - 1]
                                               ELSE Append(f[i - 1], file[i])]
           N == {n \in Nat : \E f : Upto(f, n)}
<1>1. 0 \in N
  <2> DEFINE f == [i \in 0 .. 0 |-> <<>>]
  <2>1. Upto(f, 0)
    OBVIOUS
  <2> QED
    BY <2>1
<1>2. ASSUME NEW n \in 0 .. Len(file) - 1, n \in N
      PROVE  n + 1 \in N
  <2>1. PICK f : Upto(f, n)
    BY <1>2
  <2> DEFINE last == IF file[n + 1] = Torn THEN f[n] ELSE Append(f[n], file[n + 1])
             g == [i \in 0 .. n + 1 |-> IF i = n + 1 THEN last ELSE f[i]]
             h == [i \in 0 .. n + 1 |-> IF i = 0 THEN <<>>
                                        ELSE IF file[i] = Torn THEN g[i - 1]
                                        ELSE Append(g[i - 1], file[i])]
  <2>2. ASSUME NEW i \in 0 .. n + 1
        PROVE  g[i] = h[i]
    <3>1. CASE i = n + 1
      <4>1. g[i - 1] = f[n] /\ g[i] = last
        BY <3>1
      <4> HIDE DEF g
      <4> QED
        BY <3>1, <4>1
    <3>2. CASE i # n + 1
      <4>1. i \in 0 .. n /\ g[i] = f[i] /\ (i # 0 => i - 1 \in 0 .. n /\ g[i - 1] = f[i - 1])
        BY <3>2
      <4>2. f[i] = IF i = 0 THEN <<>> ELSE IF file[i] = Torn THEN f[i - 1]
                                      ELSE Append(f[i - 1], file[i])
        BY <2>1, <4>1
      <4> HIDE DEF g
      <4> QED
        BY <4>1, <4>2
    <3> QED
      BY <3>1, <3>2
  <2>3. g = h
    <3>1. DOMAIN g = 0 .. n + 1 /\ DOMAIN h = 0 .. n + 1
      OBVIOUS
    <3> QED
      BY <2>2
  <2>4. Upto(g, n + 1)
    BY <2>3
  <2> HIDE DEF g, Upto
  <2> QED
    BY <2>4
<1>3. Len(file) \in N
  <2> HIDE DEF N
  <2>1. Len(file) \in Nat /\ Len(file) \in 0 .. Len(file)
    OBVIOUS
  <2> QED
    BY <1>1, <1>2, <2>1, SetInduction
<1> QED
  BY <1>3 DEF IsIntact

LEMMA IntactIs ==
  ASSUME NEW S, NEW file \in Seq(S)
  PROVE  \E f : IsIntact(f, file) /\ Intact(file) = f[Len(file)]
<1> DEFINE intact[i \in 0 .. Len(file)] == IF i = 0 THEN <<>>
                                           ELSE IF file[i] = Torn THEN intact[i - 1]
                                           ELSE Append(intact[i - 1], file[i])
<1>1. IsIntact(intact, file)
  <2>1. \E f : f = [i \in 0 .. Len(file) |-> IF i = 0 THEN <<>>
                                ELSE IF file[i] = Torn THEN f[i - 1]
                                ELSE Append(f[i - 1], file[i])]
    BY IntactExists DEF IsIntact
  <2> QED
    BY <2>1 DEF IsIntact
<1>2. Intact(file) = intact[Len(file)]
  BY DEF Intact
<1> HIDE DEF intact
<1> QED
  BY <1>1, <1>2

LEMMA IntactOfEmpty == Intact(<<>>) = <<>>
<1>1. <<>> \in Seq({}) /\ Len(<<>>) = 0
  OBVIOUS
<1>2. PICK f : IsIntact(f, <<>>) /\ Intact(<<>>) = f[Len(<<>>)]
  BY <1>1, IntactIs
<1> QED
  BY <1>1, <1>2 DEF IsIntact

LEMMA IntactOfAppend ==
  ASSUME NEW S, NEW file \in Seq(S), NEW x \in S
  PROVE  Intact(Append(file, x)) = IF x = Torn THEN Intact(file) ELSE Append(Intact(file), x)
<1> DEFINE more == Append(file, x)
           n == Len(file)
<1>1. /\ more \in Seq(S) /\ Len(more) = n + 1 /\ n \in Nat
      /\ more[n + 1] = x /\ \A i \in 1 .. n : more[i] = file[i]
  OBVIOUS
<1> HIDE DEF more, n
<1>2. PICK f : IsIntact(f, file) /\ Intact(file) = f[n]
  BY IntactIs DEF n
<1>3. PICK g : IsIntact(g, more) /\ Intact(more) = g[n + 1]
  BY <1>1, IntactIs
<1> DEFINE N == {i \in 0 .. n : g[i] = f[i]}
<1>4. 0 \in N
  BY <1>1, <1>2, <1>3 DEF IsIntact, n
<1>5. ASSUME NEW m \in 0 .. n - 1, m \in N
      PROVE  m + 1 \in N
  <2>1. /\ m + 1 \in 0 .. n /\ m + 1 \in 0 .. n + 1 /\ m + 1 # 0 /\ (m + 1) - 1 = m
        /\ more[m + 1] = file[m + 1]
    BY <1>1
  <2>2. f[m + 1] = IF file[m + 1] = Torn THEN f[m] ELSE Append(f[m], file[m + 1])
    BY <1>2, <2>1 DEF IsIntact, n
  <2>3. g[m + 1] = IF more[m + 1] = Torn THEN g[m] ELSE Append(g[m], more[m + 1])
    <3>1. m + 1 \in 0 .. Len(more)
      BY <1>1, <2>1
    <3>2. g[m + 1] = IF m + 1 = 0 THEN <<>>
                     ELSE IF more[m + 1] = Torn THEN g[(m + 1) - 1]
                     ELSE Append(g[(m + 1) - 1], more[m + 1])
      BY <1>3, <3>1 DEF IsIntact
    <3> QED
      BY <2>1, <3>2
  <2> QED
    BY <1>5, <2>1, <2>2, <2>3
<1>6. g[n] = f[n]
  <2>1. n \in 0 .. n
    BY <1>1
  <2>2. n \in N
    <3> HIDE DEF N
    <3> QED
      BY <1>1, <1>4, <1>5, <2>1, SetInduction
  <2> QED
    BY <2>2
<1>7. g[n + 1] = IF x = Torn THEN g[n] ELSE Append(g[n], x)
  <2>1. n + 1 \in 0 .. n + 1 /\ n + 1 # 0 /\ (n + 1) - 1 = n
    BY <1>1
  <2> QED
    BY <1>1, <1>3, <2>1 DEF IsIntact
<1>8. Intact(more) = IF x = Torn THEN Intact(file) ELSE Append(Intact(file), x)
  BY <1>2, <1>3, <1>6, <1>7
<1> QED
  BY <1>8 DEF more

\* Sequences of length n.
LEMMA LongerByOne ==
  ASSUME NEW S, NEW n \in Nat, NEW s \in Seq(S), Len(s) = n + 1
  PROVE  \E t \in Seq(S), x \in S : Len(t) = n /\ s = Append(t, x)
<1> DEFINE t == SubSeq(s, 1, n)
           x == s[n + 1]
<1>1. t \in Seq(S) /\ Len(t) = n /\ \A i \in 1 .. n : t[i] = s[i]
  OBVIOUS
<1>2. x \in S
  OBVIOUS
<1> HIDE DEF t
<1>3. Append(t, x) \in Seq(S) /\ Len(Append(t, x)) = n + 1
  BY <1>1, <1>2
<1>4. \A i \in 1 .. n + 1 : Append(t, x)[i] = s[i]
  BY <1>1
<1>5. s = Append(t, x)
  BY <1>3, <1>4, SeqEqual
<1> QED
  BY <1>1, <1>2, <1>5

LEMMA IntactIsWhole ==
  ASSUME NEW S, NEW file \in Seq(S)
  PROVE  Intact(file) \in Seq(S \ {Torn})
<1> DEFINE N == {n \in Nat : \A s \in Seq(S) : Len(s) = n => Intact(s) \in Seq(S \ {Torn})}
<1>1. 0 \in N
  <2>1. ASSUME NEW s \in Seq(S), Len(s) = 0
        PROVE  Intact(s) \in Seq(S \ {Torn})
    <3>1. s = <<>> /\ <<>> \in Seq(S \ {Torn})
      BY <2>1, EmptySeq
    <3> QED
      BY <3>1, IntactOfEmpty
  <2> QED
    BY <2>1
<1>2. ASSUME NEW n \in 0 .. Len(file) - 1, n \in N
      PROVE  n + 1 \in N
  <2>1. ASSUME NEW s \in Seq(S), Len(s) = n + 1
        PROVE  Intact(s) \in Seq(S \ {Torn})
    <3>1. PICK t \in Seq(S), x \in S : Len(t) = n /\ s = Append(t, x)
      <4>1. n \in Nat
        OBVIOUS
      <4> HIDE DEF N
      <4> QED
        BY <2>1, <4>1, LongerByOne, SMTT(30)
    <3>2. Intact(t) \in Seq(S \ {Torn})
      BY <1>2, <3>1
    <3>3. Intact(s) = IF x = Torn THEN Intact(t) ELSE Append(Intact(t), x)
      BY <3>1, IntactOfAppend
    <3>4. x = Torn \/ x \in S \ {Torn}
      BY <3>1
    <3> QED
      BY <3>2, <3>3, <3>4
  <2> QED
    BY <2>1
<1>3. Len(file) \in N
  <2> HIDE DEF N
  <2>1. Len(file) \in Nat /\ Len(file) \in 0 .. Len(file)
    OBVIOUS
  <2> QED
    BY <1>1, <1>2, <2>1, SetInduction
<1> QED
  BY <1>3

LEMMA IntactIsTyped ==
  ASSUME NEW S, NEW file \in Seq(S \cup {Torn})
  PROVE  Intact(file) \in Seq(S)
<1>1. Intact(file) \in Seq((S \cup {Torn}) \ {Torn})
  BY IntactIsWhole
<1>2. (S \cup {Torn}) \ {Torn} \subseteq S
  OBVIOUS
<1> QED
  BY <1>1, <1>2

LEMMA AppendIsLast ==
  ASSUME NEW S, NEW s \in Seq(S), NEW t \in Seq(S), NEW x \in S
  PROVE  /\ s \o Append(t, x) = Append(s \o t, x)
         /\ s \o t \in Seq(S)
         /\ s \o <<>> = s
<1>1. s \o t \in Seq(S)
  OBVIOUS
<1>2. /\ s \o Append(t, x) \in Seq(S) /\ Append(s \o t, x) \in Seq(S)
      /\ Len(s \o Append(t, x)) = Len(s) + Len(t) + 1
      /\ Len(Append(s \o t, x)) = Len(s) + Len(t) + 1
  OBVIOUS
<1>3. \A i \in 1 .. Len(s) + Len(t) + 1 : (s \o Append(t, x))[i] = Append(s \o t, x)[i]
  OBVIOUS
<1>4. s \o Append(t, x) = Append(s \o t, x)
  BY <1>2, <1>3, SeqEqual
<1> QED
  BY <1>1, <1>4, ConcatEmptySeq

\* Whole records that are written to a file are whole.
LEMMA IntactOfConcat ==
  ASSUME NEW S, Torn \notin S, NEW file \in Seq(S \cup {Torn}), NEW recs \in Seq(S)
  PROVE  Intact(file \o recs) = Intact(file) \o recs
<1> DEFINE T == S \cup {Torn}
           N == {n \in Nat : \A s \in Seq(S) : Len(s) = n => Intact(file \o s) = Intact(file) \o s}
<1>1. Intact(file) \in Seq(S) /\ file \in Seq(T) /\ \A s \in Seq(S) : s \in Seq(T)
  BY IntactIsTyped
<1>2. 0 \in N
  <2>1. ASSUME NEW s \in Seq(S), Len(s) = 0
        PROVE  Intact(file \o s) = Intact(file) \o s
    <3>1. s = <<>>
      BY <2>1, EmptySeq
    <3> QED
      BY <1>1, <3>1, ConcatEmptySeq
  <2> QED
    BY <2>1
<1>3. ASSUME NEW n \in 0 .. Len(recs) - 1, n \in N
      PROVE  n + 1 \in N
  <2>1. ASSUME NEW s \in Seq(S), Len(s) = n + 1
        PROVE  Intact(file \o s) = Intact(file) \o s
    <3>1. PICK t \in Seq(S), x \in S : Len(t) = n /\ s = Append(t, x)
      <4>1. n \in Nat
        OBVIOUS
      <4> HIDE DEF N
      <4> QED
        BY <2>1, <4>1, LongerByOne
    <3>2. t \in Seq(T) /\ x \in T /\ x # Torn
      BY <1>1, <3>1
    <3> HIDE DEF T
    <3>3. file \o s = Append(file \o t, x) /\ file \o t \in Seq(T)
      BY <1>1, <3>1, <3>2, AppendIsLast
    <3>4. Intact(file \o s) = Append(Intact(file \o t), x)
      BY <3>2, <3>3, IntactOfAppend
    <3>5. Intact(file \o t) = Intact(file) \o t
      BY <1>3, <3>1
    <3>6. Intact(file) \o s = Append(Intact(file) \o t, x)
      BY <1>1, <3>1, AppendIsLast
    <3> QED
      BY <3>4, <3>5, <3>6
  <2> QED
    BY <2>1
<1>4. Len(recs) \in N
  <2> HIDE DEF N
  <2>1. Len(recs) \in Nat /\ Len(recs) \in 0 .. Len(recs)
    OBVIOUS
  <2> QED
    BY <1>2, <1>3, <2>1, SetInduction
<1> QED
  BY <1>4
-----------------------------------------------------------------------------
(* FlattenSeq.                                                             *)

\* g is the function that FlattenSeq defines for a sequence of sequences.
IsFlatten(g, seqs) ==
  g = [i \in 1 .. Len(seqs) |-> IF i = 1 THEN seqs[i] ELSE g[i - 1] \o seqs[i]]

LEMMA FlattenExists ==
  ASSUME NEW S, NEW seqs \in Seq(S)
  PROVE  \E g : IsFlatten(g, seqs)
<1> DEFINE Upto(g, n) == g = [i \in 1 .. n |-> IF i = 1 THEN seqs[i] ELSE g[i - 1] \o seqs[i]]
           N == {n \in Nat : \E g : Upto(g, n)}
<1>1. 0 \in N
  <2> DEFINE g == [i \in 1 .. 0 |-> <<>>]
  <2>1. Upto(g, 0)
    OBVIOUS
  <2> QED
    BY <2>1
<1>2. ASSUME NEW n \in 0 .. Len(seqs) - 1, n \in N
      PROVE  n + 1 \in N
  <2>1. PICK g : Upto(g, n)
    BY <1>2
  <2> DEFINE last == IF n = 0 THEN seqs[n + 1] ELSE g[n] \o seqs[n + 1]
             h == [i \in 1 .. n + 1 |-> IF i = n + 1 THEN last ELSE g[i]]
             k == [i \in 1 .. n + 1 |-> IF i = 1 THEN seqs[i] ELSE h[i - 1] \o seqs[i]]
  <2>2. ASSUME NEW i \in 1 .. n + 1
        PROVE  h[i] = k[i]
    <3>1. CASE i = n + 1
      <4>1. h[i] = last /\ (n # 0 => h[i - 1] = g[n]) /\ (n = 0 <=> i = 1)
        BY <3>1
      <4> HIDE DEF h
      <4> QED
        BY <3>1, <4>1
    <3>2. CASE i # n + 1
      <4>1. i \in 1 .. n /\ h[i] = g[i] /\ (i # 1 => i - 1 \in 1 .. n /\ h[i - 1] = g[i - 1])
        BY <3>2
      <4>2. g[i] = IF i = 1 THEN seqs[i] ELSE g[i - 1] \o seqs[i]
        BY <2>1, <4>1
      <4> HIDE DEF h
      <4> QED
        BY <4>1, <4>2
    <3> QED
      BY <3>1, <3>2
  <2>3. h = k
    <3>1. DOMAIN h = 1 .. n + 1 /\ DOMAIN k = 1 .. n + 1
      OBVIOUS
    <3> QED
      BY <2>2
  <2>4. Upto(h, n + 1)
    BY <2>3
  <2> HIDE DEF h, Upto
  <2> QED
    BY <2>4
<1>3. Len(seqs) \in N
  <2> HIDE DEF N
  <2>1. Len(seqs) \in Nat /\ Len(seqs) \in 0 .. Len(seqs)
    OBVIOUS
  <2> QED
    BY <1>1, <1>2, <2>1, SetInduction
<1> QED
  BY <1>3 DEF IsFlatten

LEMMA FlattenIs ==
  ASSUME NEW S, NEW seqs \in Seq(S), Len(seqs) # 0
  PROVE  \E g : IsFlatten(g, seqs) /\ FlattenSeq(seqs) = g[Len(seqs)]
<1> DEFINE flatten[i \in 1 .. Len(seqs)] == IF i = 1 THEN seqs[i] ELSE flatten[i - 1] \o seqs[i]
<1>1. IsFlatten(flatten, seqs)
  <2>1. \E g : g = [i \in 1 .. Len(seqs) |-> IF i = 1 THEN seqs[i] ELSE g[i - 1] \o seqs[i]]
    BY FlattenExists DEF IsFlatten
  <2> QED
    BY <2>1 DEF IsFlatten
<1>2. FlattenSeq(seqs) = flatten[Len(seqs)]
  BY DEF FlattenSeq
<1> HIDE DEF flatten
<1> QED
  BY <1>1, <1>2

\* t is appended to the k-th of the sequences, after which all are empty.
GrownAt(S, k, t, seqs, more) ==
  /\ seqs \in Seq(Seq(S)) /\ more \in Seq(Seq(S)) /\ Len(seqs) = Len(more)
  /\ \A i \in 1 .. Len(seqs) :
       /\ more[i] = IF i = k THEN seqs[i] \o t ELSE seqs[i]
       /\ i > k => seqs[i] = <<>>

LEMMA Associative ==
  ASSUME NEW S, NEW s \in Seq(S), NEW t \in Seq(S), NEW u \in Seq(S)
  PROVE  /\ s \o (t \o u) = (s \o t) \o u
         /\ (s \o t) \o <<>> = s \o t
         /\ s \o <<>> = s
         /\ s \o t \in Seq(S)
<1>1. s \o t \in Seq(S)
  OBVIOUS
<1> QED
  BY <1>1, ConcatAssociative, ConcatEmptySeq, SMTT(30)

LEMMA FlattenGrows ==
  ASSUME NEW S, NEW n \in Nat \ {0}, NEW k \in 1 .. n, NEW t \in Seq(S),
         NEW seqs, NEW more, Len(seqs) = n, GrownAt(S, k, t, seqs, more)
  PROVE  /\ FlattenSeq(seqs) \in Seq(S)
         /\ FlattenSeq(more) = FlattenSeq(seqs) \o t
<1>1. PICK g : IsFlatten(g, seqs) /\ FlattenSeq(seqs) = g[n]
  BY FlattenIs DEF GrownAt
<1>2. PICK h : IsFlatten(h, more) /\ FlattenSeq(more) = h[n]
  BY FlattenIs DEF GrownAt
<1> DEFINE P(i) == g[i] \in Seq(S) /\ h[i] = IF i < k THEN g[i] ELSE g[i] \o t
           N == {j \in 0 .. n - 1 : P(j + 1)}
<1>3. 0 \in N
  <2>1. g[1] = seqs[1] /\ h[1] = more[1] /\ seqs[1] \in Seq(S)
    BY <1>1, <1>2 DEF IsFlatten, GrownAt
  <2>2. more[1] = IF 1 = k THEN seqs[1] \o t ELSE seqs[1]
    <3>1. 1 \in 1 .. Len(seqs)
      OBVIOUS
    <3> QED
      BY <3>1, Zenon DEF GrownAt
  <2>3. 1 = k <=> ~(1 < k)
    OBVIOUS
  <2>4. P(1)
    BY <2>1, <2>2, <2>3
  <2> QED
    BY <2>4
<1>4. ASSUME NEW j \in 0 .. (n - 1) - 1, j \in N
      PROVE  j + 1 \in N
  <2> DEFINE i == j + 1
  <2>1. i \in 1 .. n /\ i + 1 \in 1 .. n /\ i + 1 # 1 /\ (i + 1) - 1 = i /\ j + 1 \in 0 .. n - 1
    OBVIOUS
  <2>2. P(i)
    BY <1>4
  <2> HIDE DEF i
  <2>3. g[i + 1] = g[i] \o seqs[i + 1]
    BY <1>1, <2>1 DEF IsFlatten
  <2>4. h[i + 1] = h[i] \o more[i + 1]
    BY <1>2, <2>1 DEF IsFlatten, GrownAt
  <2>5. seqs[i + 1] \in Seq(S) /\ g[i + 1] \in Seq(S)
    <3>1. seqs[i + 1] \in Seq(S)
      BY <2>1 DEF GrownAt
    <3> QED
      BY <2>2, <2>3, <3>1
  <2>6. /\ more[i + 1] = IF i + 1 = k THEN seqs[i + 1] \o t ELSE seqs[i + 1]
        /\ i + 1 > k => seqs[i + 1] = <<>>
    BY <2>1 DEF GrownAt
  <2>7. h[i + 1] = IF i + 1 < k THEN g[i + 1] ELSE g[i + 1] \o t
    <3>1. CASE i + 1 < k
      <4>1. i < k /\ i + 1 # k
        BY <2>1, <3>1
      <4> QED
        BY <2>2, <2>3, <2>4, <2>6, <3>1, <4>1
    <3>2. CASE i + 1 = k
      <4>1. i < k /\ ~(i + 1 < k)
        BY <2>1, <3>2
      <4>2. h[i + 1] = g[i] \o (seqs[i + 1] \o t)
        BY <2>2, <2>4, <2>6, <3>2, <4>1
      <4>3. g[i] \o (seqs[i + 1] \o t) = (g[i] \o seqs[i + 1]) \o t
        <5> DEFINE a == g[i]
                   b == seqs[i + 1]
        <5>1. a \in Seq(S) /\ b \in Seq(S)
          BY <2>2, <2>5
        <5> HIDE DEF a, b, P, N
        <5>2. a \o (b \o t) = (a \o b) \o t
          BY <5>1, ConcatAssociative, SMTT(30)
        <5> QED
          BY <5>2 DEF a, b
      <4> QED
        BY <2>3, <4>1, <4>2, <4>3
    <3>3. CASE i + 1 > k
      <4>1. ~(i < k) /\ ~(i + 1 < k) /\ i + 1 # k
        BY <2>1, <3>3
      <4>2. h[i + 1] = (g[i] \o t) \o <<>> /\ g[i + 1] = g[i] \o <<>>
        BY <2>2, <2>3, <2>4, <2>6, <3>3, <4>1
      <4>3. g[i] \o <<>> = g[i] /\ (g[i] \o t) \o <<>> = g[i] \o t
        BY <2>2, Associative
      <4> QED
        BY <4>1, <4>2, <4>3
    <3> QED
      BY <2>1, <3>1, <3>2, <3>3
  <2> QED
    BY <2>1, <2>5, <2>7 DEF i
<1>5. n - 1 \in N
  <2> HIDE DEF N
  <2>1. n - 1 \in Nat /\ n - 1 \in 0 .. n - 1
    OBVIOUS
  <2> QED
    BY <1>3, <1>4, <2>1, SetInduction
<1>6. P(n)
  <2>1. (n - 1) + 1 = n
    OBVIOUS
  <2> QED
    BY <1>5, <2>1
<1> QED
  BY <1>1, <1>2, <1>6

LEMMA FlattenIsTyped ==
  ASSUME NEW S, NEW seqs \in Seq(Seq(S)), Len(seqs) # 0
  PROVE  FlattenSeq(seqs) \in Seq(S)
<1> DEFINE n == Len(seqs)
<1>1. n \in Nat \ {0}
  OBVIOUS
<1>2. PICK g : IsFlatten(g, seqs) /\ FlattenSeq(seqs) = g[n]
  BY FlattenIs
<1> DEFINE N == {j \in 0 .. n - 1 : g[j + 1] \in Seq(S)}
<1>3. 0 \in N
  <2>1. g[1] = seqs[1] /\ seqs[1] \in Seq(S)
    BY <1>1, <1>2 DEF IsFlatten
  <2> QED
    BY <1>1, <2>1
<1>4. ASSUME NEW j \in 0 .. (n - 1) - 1, j \in N
      PROVE  j + 1 \in N
  <2>1. /\ j + 2 \in 1 .. n /\ j + 2 # 1 /\ (j + 2) - 1 = j + 1
        /\ j + 1 \in 0 .. n - 1 /\ (j + 1) + 1 = j + 2
    BY <1>1
  <2>2. g[j + 2] = g[j + 1] \o seqs[j + 2] /\ seqs[j + 2] \in Seq(S)
    <3>1. g[j + 2] = IF j + 2 = 1 THEN seqs[j + 2] ELSE g[(j + 2) - 1] \o seqs[j + 2]
      BY <1>2, <2>1 DEF IsFlatten
    <3>2. seqs[j + 2] \in Seq(S)
      BY <2>1
    <3> HIDE DEF n
    <3> QED
      BY <2>1, <3>1, <3>2, Zenon
  <2>3. g[j + 2] \in Seq(S)
    BY <1>4, <2>2
  <2> QED
    BY <2>1, <2>3
<1>5. n - 1 \in N
  <2> HIDE DEF N, n
  <2>1. n - 1 \in Nat /\ n - 1 \in 0 .. n - 1
    BY <1>1
  <2> QED
    BY <1>3, <1>4, <2>1, SetInduction
<1>6. (n - 1) + 1 = n
  BY <1>1
<1> QED
  BY <1>2, <1>5, <1>6

LEMMA FlattenOfEmpty ==
  ASSUME NEW seqs \in Seq(Seq({})), Len(seqs) # 0
  PROVE  FlattenSeq(seqs) = <<>>
<1>1. FlattenSeq(seqs) \in Seq({})
  BY FlattenIsTyped
<1> QED
  BY <1>1
-----------------------------------------------------------------------------
(* What is on disk.                                                        *)

\* The files' whole records, file by file, and one after the other.
Parts(files) == [i \in 1 .. Cardinality(Files) |-> Intact(files[i - 1])]
Contents(files) == FlattenSeq(Parts(files))

LEMMA FilesAre ==
  /\ Second(MaxTime) \in Nat
  /\ Cardinality(Files) = Second(MaxTime) + 1
  /\ \A i : i \in 1 .. Cardinality(Files) => i - 1 \in Files
  /\ \A f : f \in Files => f + 1 \in 1 .. Cardinality(Files) /\ (f + 1) - 1 = f
<1>1. Second(MaxTime) \in Nat
  BY SecondsGrow, BoundsAssumption
<1>2. Cardinality(Files) = Second(MaxTime) + 1
  <2> DEFINE m == Second(MaxTime)
  <2>1. m \in Nat /\ m \in Int /\ 0 \in Int /\ ~(0 > m) /\ m - 0 + 1 = m + 1
    BY <1>1
  <2> HIDE DEF m
  <2>2. Cardinality(0 .. m) = m + 1
    BY <2>1, FS_Interval
  <2> QED
    BY <2>2 DEF Files, m
<1> QED
  BY <1>1, <1>2 DEF Files

LEMMA PartsAreTyped ==
  ASSUME NEW files \in [Files -> Seq(Record \cup {Torn})]
  PROVE  /\ Parts(files) \in Seq(Seq(Record))
         /\ Len(Parts(files)) = Cardinality(Files)
         /\ \A i \in 1 .. Cardinality(Files) : Parts(files)[i] = Intact(files[i - 1])
<1>1. \A i \in 1 .. Cardinality(Files) : Intact(files[i - 1]) \in Seq(Record)
  BY FilesAre, IntactIsTyped
<1>2. Cardinality(Files) \in Nat \ {0}
  BY FilesAre
<1> QED
  BY <1>1, <1>2 DEF Parts

LEMMA ContentsAreTyped ==
  ASSUME NEW files \in [Files -> Seq(Record \cup {Torn})]
  PROVE  Contents(files) \in Seq(Record)
<1>1. Parts(files) \in Seq(Seq(Record)) /\ Len(Parts(files)) # 0
  BY PartsAreTyped, FilesAre
<1> QED
  BY <1>1, FlattenIsTyped DEF Contents

LEMMA ContentsOfEmpty ==
  ASSUME NEW files \in [Files -> Seq(Record \cup {Torn})], \A f \in Files : files[f] = <<>>
  PROVE  Contents(files) = <<>>
<1>1. \A i \in 1 .. Cardinality(Files) : Intact(files[i - 1]) = <<>>
  BY FilesAre, IntactOfEmpty
<1>2. <<>> \in Seq({}) /\ Cardinality(Files) \in Nat \ {0}
  BY FilesAre
<1>3. Parts(files) \in Seq(Seq({})) /\ Len(Parts(files)) # 0
  <2> DEFINE n == Cardinality(Files)
             parts == [i \in 1 .. n |-> <<>>]
  <2>1. Parts(files) = parts
    BY <1>1 DEF Parts
  <2>2. n \in Nat \ {0}
    BY <1>2
  <2> HIDE DEF n
  <2>3. parts \in [1 .. n -> Seq({})] /\ Len(parts) = n
    BY <1>2, <2>2
  <2> HIDE DEF parts
  <2>4. parts \in Seq(Seq({}))
    BY <2>2, <2>3
  <2> QED
    BY <2>1, <2>2, <2>3, <2>4
<1> QED
  BY <1>3, FlattenOfEmpty DEF Contents

\* The records written to the last file that is not empty come after the rest.
LEMMA ContentsGrow ==
  ASSUME NEW files \in [Files -> Seq(Record \cup {Torn})], NEW f \in Files, NEW recs \in Seq(Record),
         \A g \in Files : g > f => files[g] = <<>>
  PROVE  LET more == [files EXCEPT ![f] = @ \o recs]
         IN  /\ more \in [Files -> Seq(Record \cup {Torn})]
             /\ Contents(more) = Contents(files) \o recs
<1> DEFINE more == [files EXCEPT ![f] = @ \o recs]
           n == Cardinality(Files)
           k == f + 1
<1>1. files[f] \o recs \in Seq(Record \cup {Torn})
  <2>1. recs \in Seq(Record \cup {Torn}) /\ files[f] \in Seq(Record \cup {Torn})
    OBVIOUS
  <2> QED
    BY <2>1
<1>2. /\ more \in [Files -> Seq(Record \cup {Torn})]
      /\ \A g \in Files : more[g] = IF g = f THEN files[f] \o recs ELSE files[g]
  BY <1>1
<1> HIDE DEF more
<1>3. n \in Nat \ {0} /\ k \in 1 .. n
  BY FilesAre
<1>4. Intact(more[f]) = Intact(files[f]) \o recs
  BY <1>2, TornAssumption, IntactOfConcat, ZenonT(30)
<1>5. ASSUME NEW i \in 1 .. n
      PROVE  /\ Parts(more)[i] = IF i = k THEN Parts(files)[i] \o recs ELSE Parts(files)[i]
             /\ i > k => Parts(files)[i] = <<>>
  <2>1. /\ Parts(more)[i] = Intact(more[i - 1])
        /\ Parts(files)[i] = Intact(files[i - 1])
    BY <1>2, PartsAreTyped
  <2>2. i - 1 \in Files /\ (i = k <=> i - 1 = f) /\ (i > k => i - 1 > f)
    BY FilesAre DEF Files
  <2>3. i > k => files[i - 1] = <<>>
    BY <2>2
  <2> QED
    BY <1>2, <1>4, <2>1, <2>2, <2>3, IntactOfEmpty
<1>6. GrownAt(Record, k, recs, Parts(files), Parts(more)) /\ Len(Parts(files)) = n
  BY <1>2, <1>5, PartsAreTyped DEF GrownAt
<1>7. FlattenSeq(Parts(more)) = FlattenSeq(Parts(files)) \o recs
  <2> HIDE DEF k, n
  <2> QED
    BY <1>3, <1>6, FlattenGrows
<1> QED
  BY <1>2, <1>7 DEF Contents, more

\* A record of which only the first bytes are written is none.
LEMMA ContentsTorn ==
  ASSUME NEW files \in [Files -> Seq(Record \cup {Torn})], NEW f \in Files
  PROVE  LET torn == [files EXCEPT ![f] = Append(@, Torn)]
         IN  /\ torn \in [Files -> Seq(Record \cup {Torn})]
             /\ \A g \in Files : g # f => torn[g] = files[g]
             /\ Contents(torn) = Contents(files)
<1> DEFINE torn == [files EXCEPT ![f] = Append(@, Torn)]
<1>1. files[f] \in Seq(Record \cup {Torn}) /\ Append(files[f], Torn) \in Seq(Record \cup {Torn})
  OBVIOUS
<1>2. /\ torn \in [Files -> Seq(Record \cup {Torn})]
      /\ \A g \in Files : torn[g] = IF g = f THEN Append(files[f], Torn) ELSE files[g]
  BY <1>1
<1> HIDE DEF torn
<1>3. Intact(Append(files[f], Torn)) = Intact(files[f])
  BY <1>1, IntactOfAppend
<1>4. \A i \in 1 .. Cardinality(Files) : Intact(torn[i - 1]) = Intact(files[i - 1])
  BY <1>2, <1>3, FilesAre
<1>5. Parts(torn) = Parts(files)
  BY <1>4 DEF Parts
<1> QED
  BY <1>2, <1>5 DEF Contents, torn

-----------------------------------------------------------------------------
(* Type correctness.                                                       *)

LEMMA OnDiskIs == OnDisk = Contents(disk)
BY DEF OnDisk, Contents, Parts

LEMMA FileNameIsTyped ==
  ASSUME now \in 0 .. MaxTime
  PROVE  FileName \in Files /\ FileName = Second(now) /\ Second(now) \in Nat
<1>1. now \in Nat /\ MaxTime \in Nat /\ now <= MaxTime
  BY BoundsAssumption
<1>2. Second(now) \in Nat /\ Second(MaxTime) \in Nat /\ Second(now) <= Second(MaxTime)
  BY <1>1, SecondsGrow
<1> QED
  BY <1>2 DEF FileName, Files

LEMMA FlushedIsTyped ==
  ASSUME TypeOK
  PROVE  Flushed \in [Files -> Seq(Record \cup {Torn})]
<1>1. /\ disk \in [Files -> Seq(Record \cup {Torn})] /\ logFilePath_ \in Files
      /\ stream \in Seq(Record)
  BY DEF TypeOK
<1>2. disk[logFilePath_] \in Seq(Record \cup {Torn}) /\ stream \in Seq(Record \cup {Torn})
  BY <1>1
<1>3. disk[logFilePath_] \o stream \in Seq(Record \cup {Torn})
  BY <1>2
<1> QED
  BY <1>1, <1>3 DEF Flushed

LEMMA Divided ==
  ASSUME NEW S, NEW s \in Seq(S), NEW n \in 0 .. Len(s)
  PROVE  LET first == SubSeq(s, 1, n)
             rest == SubSeq(s, n + 1, Len(s))
         IN  /\ first \in Seq(S) /\ rest \in Seq(S)
             /\ first \o rest = s
<1>1. SubSeq(s, 1, n) \in Seq(S) /\ SubSeq(s, n + 1, Len(s)) \in Seq(S)
  OBVIOUS
<1>2. 1 \in 1 .. Len(s) + 1 /\ n \in 1 - 1 .. Len(s) /\ Len(s) \in n .. Len(s)
  OBVIOUS
<1>3. SubSeq(s, 1, n) \o SubSeq(s, n + 1, Len(s)) = SubSeq(s, 1, Len(s))
  BY <1>2, ConcatAdjacentSubSeq
<1>4. SubSeq(s, 1, Len(s)) = s
  BY SubSeqFull
<1> QED
  BY <1>1, <1>3, <1>4

LEMMA HeadMoves ==
  ASSUME NEW S, NEW s \in Seq(S), NEW q \in Seq(S), q # <<>>
  PROVE  /\ Head(q) \in S /\ Tail(q) \in Seq(S)
         /\ Len(q) # 1 => Tail(q) # <<>>
         /\ Append(s, Head(q)) \in Seq(S)
         /\ Append(s, Head(q)) \o Tail(q) = s \o q
<1> DEFINE head == Head(q)
           tail == Tail(q)
           one == <<head>>
<1>1. /\ head \in S /\ tail \in Seq(S) /\ Append(s, head) \in Seq(S) /\ one \in Seq(S)
      /\ Len(q) # 1 => tail # <<>>
  <2>1. head \in S /\ tail \in Seq(S) /\ Append(s, head) \in Seq(S) /\ one \in Seq(S)
    OBVIOUS
  <2>2. Len(tail) = Len(q) - 1 /\ Len(q) \in Nat
    BY HeadTailProperties
  <2> HIDE DEF tail
  <2>3. tail = <<>> => Len(tail) = 0
    BY EmptySeq
  <2>4. Len(q) # 1 => tail # <<>>
    BY <2>2, <2>3
  <2> QED
    BY <2>1, <2>4
<1>2. Append(s, head) = s \o one
  BY <1>1, AppendIsConcat
<1>3. q = one \o tail
  <2>1. 1 \in 1 .. Len(q) /\ Len(q) \in 1 .. Len(q) /\ head = q[1]
    OBVIOUS
  <2>2. SubSeq(q, 1, Len(q)) = <<q[1]>> \o SubSeq(q, 1 + 1, Len(q))
    BY <2>1, SubSeqRecursiveFirst
  <2>3. tail = SubSeq(q, 2, Len(q))
    BY TailIsSubSeq
  <2> QED
    BY <2>1, <2>2, <2>3, SubSeqFull
<1> HIDE DEF head, tail, one
<1>4. s \o (one \o tail) = (s \o one) \o tail
  BY <1>1, Associative
<1>5. Append(s, head) \o tail = s \o q
  BY <1>2, <1>3, <1>4
<1> QED
  BY <1>1, <1>5 DEF head, tail
-----------------------------------------------------------------------------
(* The inductive invariant.                                                *)

\* The flusher has a record in its hands when it is about to write one.
Typed ==
  /\ TypeOK
  /\ flusher \in {"roll", "write"} => localQueue # <<>>

\* Between two batches nothing is in the flusher's hands, and after one
\* nothing in the stream; told to exit, it leaves no record behind.
FlusherInv ==
  /\ flusher \in {"wait", "flush", "ended", "dead"} => localQueue = <<>>
  /\ flusher \in {"wait", "ended", "dead"} => stream = <<>>
  /\ shouldExit => stop_ /\ logQueue_ = <<>>
  /\ flusher = "ended" => shouldExit
  /\ closing = "closed" => flusher = "ended"
  /\ flusher = "dead" => /\ logQueue_ = <<>>
                         /\ \A a \in Appenders : appending[a] = NoRecord

\* The open file is the last one that has been written to.
FilesInv ==
  /\ logFilePath_ <= Second(now)
  /\ \A f \in Files : f > logFilePath_ => disk[f] = <<>>

IInv == Typed /\ FlusherInv /\ FilesInv /\ LogInOrder

LEMMA InitTyped == Init => Typed
<1> SUFFICES ASSUME Init
             PROVE  Typed
  OBVIOUS
<1>1. now = 0 /\ now \in 0 .. MaxTime /\ 0 \in 0 .. MaxAppends /\ 0 \in 0 .. MaxCrashes
  BY BoundsAssumption DEF Init
<1>2. logFilePath_ \in Files
  BY <1>1, FileNameIsTyped DEF Init
<1>3. disk \in [Files -> Seq(Record \cup {Torn})]
  BY DEF Init
<1>4. appending \in [Appenders -> Record \cup {NoRecord}]
  BY DEF Init
<1>5. {logQueue_, localQueue, stream, accepted} \subseteq Seq(Record)
  BY DEF Init
<1>6. TypeOK
  BY <1>1, <1>2, <1>3, <1>4, <1>5 DEF Init, TypeOK
<1> QED
  BY <1>6 DEF Init, Typed

LEMMA NextTyped == Typed /\ [Next]_vars => Typed'
<1> SUFFICES ASSUME Typed, [Next]_vars
             PROVE  Typed'
  OBVIOUS
<1> USE DEF Typed
<1> DEFINE Bytes == Seq(Record \cup {Torn})
<1>1. /\ now \in 0 .. MaxTime
      /\ logQueue_ \in Seq(Record) /\ localQueue \in Seq(Record)
      /\ stream \in Seq(Record) /\ accepted \in Seq(Record)
      /\ disk \in [Files -> Bytes] /\ logFilePath_ \in Files
      /\ FileName \in Files /\ Flushed \in [Files -> Bytes]
      /\ <<>> \in Seq(Record)
  BY FileNameIsTyped, FlushedIsTyped, SMTT(30) DEF TypeOK
<1>2. CASE Tick
  <2>1. now' \in 0 .. MaxTime
    BY <1>1, <1>2, BoundsAssumption DEF Tick
  <2> QED
    BY <1>2, <2>1 DEF Tick, TypeOK, queueVars, fileVars, callVars
<1>3. ASSUME NEW a \in Appenders, NEW k \in Keys, NEW v \in Values, AppendStamp(a, k, v)
      PROVE  Typed'
  <2>1. [key |-> k, val |-> v, ts |-> now] \in Record
    BY <1>1 DEF Record
  <2>2. appending' \in [Appenders -> Record \cup {NoRecord}]
    BY <1>3, <2>1 DEF AppendStamp, TypeOK
  <2>3. begun' \in 0 .. MaxAppends
    BY <1>3, BoundsAssumption DEF AppendStamp, TypeOK
  <2> QED
    BY <1>3, <2>2, <2>3 DEF AppendStamp, TypeOK, queueVars, fileVars
<1>4. ASSUME NEW a \in Appenders, AppendPush(a)
      PROVE  Typed'
  <2>1. appending[a] \in Record
    BY <1>4 DEF AppendPush, TypeOK
  <2>2. logQueue_' \in Seq(Record) /\ accepted' \in Seq(Record)
    BY <1>1, <1>4, <2>1 DEF AppendPush
  <2>3. appending' \in [Appenders -> Record \cup {NoRecord}]
    BY <1>4 DEF AppendPush, TypeOK
  <2> QED
    BY <1>4, <2>2, <2>3 DEF AppendPush, TypeOK, fileVars
<1>5. ASSUME NEW a \in Appenders, AppendRejected(a)
      PROVE  Typed'
  <2>1. appending' \in [Appenders -> Record \cup {NoRecord}]
    BY <1>5 DEF AppendRejected, TypeOK
  <2> QED
    BY <1>5, <2>1 DEF AppendRejected, TypeOK, queueVars, fileVars
<1>6. CASE FlusherTake
  BY <1>1, <1>6 DEF FlusherTake, StopSeen, TypeOK, fileVars, callVars
<1>7. CASE FlusherRoll
  <2>1. /\ disk' \in [Files -> Bytes] /\ stream' \in Seq(Record) /\ logFilePath_' \in Files
        /\ localQueue' = localQueue /\ localQueue # <<>>
    BY <1>1, <1>7 DEF FlusherRoll, Opened, fileVars
  <2> QED
    BY <1>7, <2>1 DEF FlusherRoll, TypeOK, queueVars, callVars
<1>8. CASE FlusherWrite
  <2>1. localQueue # <<>> /\ flusher = "write"
    BY <1>8 DEF FlusherWrite
  <2> DEFINE buffered == Append(stream, Head(localQueue))
  <2>2. PICK n \in 0 .. Len(buffered) :
          /\ disk' = [disk EXCEPT ![logFilePath_] = @ \o SubSeq(buffered, 1, n)]
          /\ stream' = SubSeq(buffered, n + 1, Len(buffered))
    BY <1>8 DEF FlusherWrite
  <2>3. Head(localQueue) \in Record /\ Tail(localQueue) \in Seq(Record) /\ buffered \in Seq(Record)
    BY <1>1, <2>1, HeadMoves
  <2> HIDE DEF buffered
  <2>4. SubSeq(buffered, 1, n) \in Seq(Record) /\ stream' \in Seq(Record)
    BY <2>2, <2>3, Divided
  <2> DEFINE written == SubSeq(buffered, 1, n)
  <2>5. disk' \in [Files -> Bytes]
    <3>1. disk' = [disk EXCEPT ![logFilePath_] = @ \o written] /\ written \in Seq(Record)
      BY <2>2, <2>4
    <3> HIDE DEF written
    <3>2. disk[logFilePath_] \in Bytes /\ written \in Bytes
      BY <1>1, <3>1
    <3>3. disk[logFilePath_] \o written \in Bytes
      BY <3>2
    <3> QED
      BY <1>1, <3>1, <3>3
  <2>6. /\ localQueue' \in Seq(Record)
        /\ flusher' = IF Len(localQueue) = 1 THEN "flush" ELSE "roll"
        /\ Len(localQueue) # 1 => localQueue' # <<>>
    <3>1. /\ localQueue' = Tail(localQueue)
          /\ flusher' = IF Len(localQueue) = 1 THEN "flush" ELSE "roll"
      BY <1>8 DEF FlusherWrite
    <3>2. Len(localQueue) # 1 => Tail(localQueue) # <<>>
      BY <1>1, <2>1, HeadMoves
    <3> QED
      BY <2>3, <3>1, <3>2
  <2> QED
    BY <1>8, <2>4, <2>5, <2>6 DEF FlusherWrite, TypeOK, queueVars, callVars
<1>9. CASE FlusherFlush
  BY <1>1, <1>9 DEF FlusherFlush, TypeOK, queueVars, callVars
<1>10. CASE CloseStop
  BY <1>10 DEF CloseStop, TypeOK, fileVars
<1>11. CASE CloseJoin
  BY <1>1, <1>11 DEF CloseJoin, TypeOK, queueVars
<1>12. CASE Crash
  <2>1. disk' \in [Files -> Bytes]
    <3>1. [disk EXCEPT ![logFilePath_] = Append(@, Torn)] \in [Files -> Bytes]
      BY <1>1, ContentsTorn
    <3>2. disk' = disk \/ disk' = [disk EXCEPT ![logFilePath_] = Append(@, Torn)]
      BY <1>12 DEF Crash
    <3> QED
      BY <1>1, <3>1, <3>2
  <2>2. accepted' \in Seq(Record)
    BY <1>1, <1>12, OnDiskIs, ContentsAreTyped DEF Crash
  <2>3. crashes' \in 0 .. MaxCrashes
    BY <1>12, BoundsAssumption DEF Crash, TypeOK
  <2>4. appending' \in [Appenders -> Record \cup {NoRecord}]
    BY <1>12 DEF Crash
  <2>5. /\ {logQueue_', localQueue', stream', accepted'} \subseteq Seq(Record)
        /\ flusher' = "dead" /\ stop_' = FALSE /\ shouldExit' = FALSE /\ closing' = "no"
    BY <1>1, <1>12, <2>2 DEF Crash
  <2> QED
    BY <1>12, <2>1, <2>3, <2>4, <2>5 DEF Crash, TypeOK
<1>13. CASE Restart
  BY <1>1, <1>13 DEF Restart, TypeOK, queueVars, callVars
<1>14. CASE UNCHANGED vars
  BY <1>14 DEF TypeOK, vars
<1> QED
  BY <1>2, <1>3, <1>4, <1>5, <1>6, <1>7, <1>8, <1>9, <1>10, <1>11, <1>12, <1>13, <1>14
     DEF Next, Flusher

LEMMA InitFlusher == Init => FlusherInv
BY DEF Init, FlusherInv

LEMMA NextFlusher == Typed /\ FlusherInv /\ [Next]_vars => FlusherInv'
<1> SUFFICES ASSUME Typed, FlusherInv, [Next]_vars
             PROVE  FlusherInv'
  OBVIOUS
<1> USE DEF FlusherInv
<1>1. /\ logQueue_ \in Seq(Record) /\ localQueue \in Seq(Record)
      /\ shouldExit \in BOOLEAN /\ stop_ \in BOOLEAN
  BY DEF Typed, TypeOK
<1>2. CASE Tick
  BY <1>2 DEF Tick, queueVars, fileVars, callVars
<1>3. ASSUME NEW a \in Appenders, NEW k \in Keys, NEW v \in Values, AppendStamp(a, k, v)
      PROVE  FlusherInv'
  BY <1>3 DEF AppendStamp, Up, queueVars, fileVars
<1>4. ASSUME NEW a \in Appenders, AppendPush(a)
      PROVE  FlusherInv'
  <2>1. ~stop_ /\ ~shouldExit /\ flusher # "dead"
    BY <1>4 DEF AppendPush
  <2> QED
    BY <1>4, <2>1 DEF AppendPush, fileVars
<1>5. ASSUME NEW a \in Appenders, AppendRejected(a)
      PROVE  FlusherInv'
  <2>1. flusher # "dead"
    BY <1>5 DEF AppendRejected
  <2> QED
    BY <1>5, <2>1 DEF AppendRejected, queueVars, fileVars
<1>6. CASE FlusherTake
  <2>1. /\ flusher = "wait" /\ localQueue' = logQueue_ /\ logQueue_' = <<>>
        /\ shouldExit' = stop_ /\ stop_' = stop_
        /\ flusher' = IF logQueue_ = <<>> THEN "flush" ELSE "roll"
        /\ closing' = closing
    BY <1>6 DEF FlusherTake, StopSeen, callVars
  <2> QED
    BY <2>1
<1>7. CASE FlusherRoll
  BY <1>7 DEF FlusherRoll, queueVars, callVars
<1>8. CASE FlusherWrite
  <2>1. /\ flusher = "write" /\ localQueue # <<>> /\ localQueue' = Tail(localQueue)
        /\ flusher' = IF Len(localQueue) = 1 THEN "flush" ELSE "roll"
        /\ UNCHANGED <<logQueue_, stop_, shouldExit, closing>>
    BY <1>8 DEF FlusherWrite, Typed, queueVars, callVars
  <2>2. Len(localQueue) = 1 => Tail(localQueue) = <<>>
    BY <1>1, <2>1
  <2> QED
    BY <2>1, <2>2
<1>9. CASE FlusherFlush
  BY <1>9 DEF FlusherFlush, ToldToExit, queueVars, callVars
<1>10. CASE CloseStop
  BY <1>10 DEF CloseStop, Up, fileVars
<1>11. CASE CloseJoin
  BY <1>11 DEF CloseJoin, queueVars
<1>12. CASE Crash
  BY <1>12 DEF Crash
<1>13. CASE Restart
  BY <1>13 DEF Restart, Up, queueVars, callVars
<1>14. CASE UNCHANGED vars
  BY <1>14 DEF vars
<1> QED
  BY <1>2, <1>3, <1>4, <1>5, <1>6, <1>7, <1>8, <1>9, <1>10, <1>11, <1>12, <1>13, <1>14
     DEF Next, Flusher

-----------------------------------------------------------------------------

LEMMA InitFiles == Init => FilesInv
<1> SUFFICES ASSUME Init
             PROVE  FilesInv
  OBVIOUS
<1>1. now \in 0 .. MaxTime
  BY BoundsAssumption DEF Init
<1> QED
  BY <1>1, FileNameIsTyped DEF Init, FilesInv

\* With a clock that is never set back the seconds only grow.
LEMMA SecondIsMonotone ==
  ASSUME ~ClockIsSetBack, Typed, [Next]_vars
  PROVE  Second(now) \in Nat /\ Second(now') \in Nat /\ Second(now) <= Second(now')
<1>1. now \in Nat /\ (now' = now \/ now' = now + 1)
  <2>1. now \in Nat
    BY BoundsAssumption DEF Typed, TypeOK
  <2> QED
    BY <2>1 DEF Next, vars, Tick, AppendStamp, AppendPush, AppendRejected, Flusher, FlusherTake,
       FlusherRoll, FlusherWrite, FlusherFlush, CloseStop, CloseJoin, Crash, Restart
<1> QED
  BY <1>1, SecondsGrow

LEMMA NextFiles == ~ClockIsSetBack /\ Typed /\ FilesInv /\ [Next]_vars => FilesInv'
<1> SUFFICES ASSUME ~ClockIsSetBack, Typed, FilesInv, [Next]_vars
             PROVE  FilesInv'
  OBVIOUS
<1> DEFINE Now == Second(now)
           Then == Second(now')
<1>1. /\ disk \in [Files -> Seq(Record \cup {Torn})] /\ logFilePath_ \in Files /\ logFilePath_ \in Nat
      /\ \A f \in Files : f \in Nat
      /\ Now \in Nat /\ Then \in Nat /\ Now <= Then
      /\ logFilePath_ <= Now
      /\ FileName = Now
      /\ \A f \in Files : f > logFilePath_ => disk[f] = <<>>
  BY SecondIsMonotone DEF Typed, TypeOK, FilesInv, FileName, Files
<1>2. FilesInv' <=> /\ logFilePath_' <= Then
                    /\ \A f \in Files : f > logFilePath_' => disk'[f] = <<>>
  BY DEF FilesInv, Files, Second
<1> HIDE DEF Now, Then
\* A step that only writes to the open file
<1>3. ASSUME logFilePath_' = logFilePath_, \A f \in Files : f # logFilePath_ => disk'[f] = disk[f]
      PROVE  FilesInv'
  <2>1. logFilePath_' <= Then
    BY <1>1, <1>3
  <2>2. ASSUME NEW f \in Files, f > logFilePath_'
        PROVE  disk'[f] = <<>>
    BY <1>1, <1>3, <2>2
  <2> QED
    BY <1>2, <2>1, <2>2
\* A step that opens the file of the second
<1>4. ASSUME logFilePath_' = Now, \A f \in Files : f # logFilePath_ => disk'[f] = disk[f]
      PROVE  FilesInv'
  <2>1. logFilePath_' <= Then
    BY <1>1, <1>4
  <2>2. ASSUME NEW f \in Files, f > logFilePath_'
        PROVE  disk'[f] = <<>>
    BY <1>1, <1>4, <2>2
  <2> QED
    BY <1>2, <2>1, <2>2
<1>5. ASSUME NEW x
      PROVE  \A f \in Files : f # logFilePath_ => [disk EXCEPT ![logFilePath_] = x][f] = disk[f]
  BY <1>1
<1>6. CASE Tick
  BY <1>3, <1>6 DEF Tick, fileVars
<1>7. ASSUME NEW a \in Appenders, NEW k \in Keys, NEW v \in Values, AppendStamp(a, k, v)
      PROVE  FilesInv'
  BY <1>3, <1>7 DEF AppendStamp, fileVars
<1>8. ASSUME NEW a \in Appenders, AppendPush(a)
      PROVE  FilesInv'
  BY <1>3, <1>8 DEF AppendPush, fileVars
<1>9. ASSUME NEW a \in Appenders, AppendRejected(a)
      PROVE  FilesInv'
  BY <1>3, <1>9 DEF AppendRejected, fileVars
<1>10. CASE FlusherTake
  BY <1>3, <1>10 DEF FlusherTake, fileVars
<1>11. CASE FlusherRoll
  <2>1. CASE UNCHANGED fileVars
    BY <1>3, <2>1 DEF fileVars
  <2>2. CASE disk' = Opened(Flushed) /\ logFilePath_' = FileName
    <3>1. \A f \in Files : f # logFilePath_ => disk'[f] = disk[f]
      BY <1>5, <2>2 DEF Opened, Flushed
    <3> QED
      BY <1>1, <1>4, <2>2, <3>1
  <2> QED
    BY <1>11, <2>1, <2>2 DEF FlusherRoll
<1>12. CASE FlusherWrite
  <2>1. logFilePath_' = logFilePath_ /\ \E x : disk' = [disk EXCEPT ![logFilePath_] = x]
    BY <1>12 DEF FlusherWrite
  <2> QED
    BY <1>3, <1>5, <2>1
<1>13. CASE FlusherFlush
  BY <1>3, <1>5, <1>13 DEF FlusherFlush, Flushed
<1>14. CASE CloseStop
  BY <1>3, <1>14 DEF CloseStop, fileVars
<1>15. CASE CloseJoin
  BY <1>3, <1>5, <1>15 DEF CloseJoin, Flushed
<1>16. CASE Crash
  <2>1. logFilePath_' = logFilePath_ /\ (disk' = disk \/ \E x : disk' = [disk EXCEPT ![logFilePath_] = x])
    BY <1>16 DEF Crash
  <2> QED
    BY <1>3, <1>5, <2>1
<1>17. CASE Restart
  BY <1>1, <1>4, <1>17 DEF Restart
<1>18. CASE UNCHANGED vars
  BY <1>3, <1>18 DEF vars
<1> QED
  BY <1>6, <1>7, <1>8, <1>9, <1>10, <1>11, <1>12, <1>13, <1>14, <1>15, <1>16, <1>17, <1>18
     DEF Next, Flusher

-----------------------------------------------------------------------------

LEMMA InitOrder == Init => LogInOrder
<1> SUFFICES ASSUME Init
             PROVE  LogInOrder
  OBVIOUS
<1>1. disk \in [Files -> Seq(Record \cup {Torn})] /\ \A f \in Files : disk[f] = <<>>
  BY DEF Init
<1>2. OnDisk = <<>>
  BY <1>1, OnDiskIs, ContentsOfEmpty
<1> QED
  BY <1>2 DEF Init, LogInOrder

LEMMA NextOrder == IInv /\ Typed' /\ [Next]_vars => LogInOrder'
<1> SUFFICES ASSUME IInv, Typed', [Next]_vars
             PROVE  LogInOrder'
  OBVIOUS
<1>1. /\ OnDisk \in Seq(Record) /\ stream \in Seq(Record) /\ localQueue \in Seq(Record)
      /\ logQueue_ \in Seq(Record) /\ accepted \in Seq(Record)
      /\ OnDisk \o stream \o localQueue \o logQueue_ = accepted
      /\ disk \in [Files -> Seq(Record \cup {Torn})] /\ logFilePath_ \in Files
      /\ OnDisk = Contents(disk) /\ OnDisk' = Contents(disk')
  BY OnDiskIs, ContentsAreTyped
     DEF IInv, Typed, TypeOK, LogInOrder, OnDisk, Contents, Parts, Files, Second
<1>2. LogInOrder' <=> OnDisk' \o stream' \o localQueue' \o logQueue_' = accepted'
  BY DEF LogInOrder
\* A step that leaves the records where they are
<1>3. ASSUME UNCHANGED <<disk, stream, localQueue, logQueue_, accepted>>
      PROVE  LogInOrder'
  BY <1>1, <1>2, <1>3
\* A step that passes on what the stream holds
<1>4. ASSUME disk' = Flushed, stream' = <<>>, UNCHANGED <<localQueue, logQueue_, accepted>>
      PROVE  LogInOrder'
  <2>1. OnDisk' = OnDisk \o stream
    BY <1>1, <1>4, ContentsGrow DEF Flushed, IInv, FilesInv
  <2>2. (OnDisk \o stream) \o <<>> = OnDisk \o stream
    BY <1>1, Associative
  <2> QED
    BY <1>1, <1>2, <1>4, <2>1, <2>2
<1>5. CASE Tick
  BY <1>3, <1>5 DEF Tick, queueVars, fileVars, callVars
<1>6. ASSUME NEW a \in Appenders, NEW k \in Keys, NEW v \in Values, AppendStamp(a, k, v)
      PROVE  LogInOrder'
  BY <1>3, <1>6 DEF AppendStamp, queueVars, fileVars
<1>7. ASSUME NEW a \in Appenders, AppendPush(a)
      PROVE  LogInOrder'
  <2> DEFINE before == OnDisk \o stream \o localQueue
  <2>1. appending[a] \in Record
    BY <1>7 DEF AppendPush, IInv, Typed, TypeOK
  <2>2. /\ logQueue_' = Append(logQueue_, appending[a])
        /\ accepted' = Append(accepted, appending[a])
        /\ UNCHANGED <<disk, stream, localQueue>>
    BY <1>7 DEF AppendPush, fileVars
  <2>3. before \in Seq(Record)
    BY <1>1
  <2>4. /\ accepted = before \o logQueue_
        /\ LogInOrder' <=> before \o logQueue_' = accepted'
    BY <1>1, <1>2, <2>2
  <2> HIDE DEF before
  <2>5. before \o Append(logQueue_, appending[a]) = Append(before \o logQueue_, appending[a])
    BY <1>1, <2>1, <2>3, AppendIsLast, SMTT(30)
  <2> QED
    BY <2>2, <2>4, <2>5
<1>8. ASSUME NEW a \in Appenders, AppendRejected(a)
      PROVE  LogInOrder'
  BY <1>3, <1>8 DEF AppendRejected, queueVars, fileVars
<1>9. CASE FlusherTake
  <2>1. /\ localQueue = <<>> /\ localQueue' = logQueue_ /\ logQueue_' = <<>>
        /\ UNCHANGED <<disk, stream, accepted>>
    BY <1>9 DEF FlusherTake, fileVars, callVars, IInv, FlusherInv
  <2> DEFINE before == OnDisk \o stream
  <2>2. before \in Seq(Record)
    BY <1>1
  <2>3. /\ accepted = (before \o <<>>) \o logQueue_
        /\ LogInOrder' <=> (before \o logQueue_) \o <<>> = accepted
    BY <1>1, <1>2, <2>1
  <2> HIDE DEF before
  <2>4. before \o <<>> = before /\ (before \o logQueue_) \o <<>> = before \o logQueue_
    BY <1>1, <2>2, Associative
  <2> QED
    BY <2>3, <2>4
<1>10. CASE FlusherRoll
  <2>1. CASE UNCHANGED fileVars
    BY <1>3, <1>10, <2>1 DEF FlusherRoll, fileVars, queueVars, callVars
  <2>2. CASE disk' = Opened(Flushed) /\ stream' = <<>>
    BY <1>4, <1>10, <2>2 DEF FlusherRoll, Opened, queueVars, callVars
  <2> QED
    BY <1>10, <2>1, <2>2 DEF FlusherRoll
<1>11. CASE FlusherWrite
  <2>1. localQueue # <<>>
    BY <1>11 DEF FlusherWrite, IInv, Typed
  <2> DEFINE buffered == Append(stream, Head(localQueue))
             written(n) == SubSeq(buffered, 1, n)
  <2>2. PICK n \in 0 .. Len(buffered) :
          /\ disk' = [disk EXCEPT ![logFilePath_] = @ \o written(n)]
          /\ stream' = SubSeq(buffered, n + 1, Len(buffered))
    BY <1>11 DEF FlusherWrite
  <2>3. localQueue' = Tail(localQueue) /\ UNCHANGED <<logQueue_, accepted>>
    BY <1>11 DEF FlusherWrite, queueVars, callVars
  <2>4. /\ Tail(localQueue) \in Seq(Record) /\ buffered \in Seq(Record)
        /\ buffered \o Tail(localQueue) = stream \o localQueue
    BY <1>1, <2>1, HeadMoves, SMTT(30)
  <2> HIDE DEF buffered
  <2>5. written(n) \in Seq(Record) /\ stream' \in Seq(Record) /\ written(n) \o stream' = buffered
    BY <2>2, <2>4, Divided
  <2> DEFINE recs == written(n)
             rest == stream'
             tail == Tail(localQueue)
  <2> HIDE DEF written, recs, rest, tail
  <2>6. /\ recs \in Seq(Record) /\ rest \in Seq(Record) /\ tail \in Seq(Record)
        /\ (recs \o rest) \o tail = stream \o localQueue
    BY <2>4, <2>5 DEF recs, rest, tail
  <2>7. OnDisk' = OnDisk \o recs
    <3>1. disk' = [disk EXCEPT ![logFilePath_] = @ \o recs]
      BY <2>2 DEF recs
    <3>2. \A g \in Files : g > logFilePath_ => disk[g] = <<>>
      BY DEF IInv, FilesInv
    <3>3. /\ disk \in [Files -> Seq(Record \cup {Torn})] /\ logFilePath_ \in Files
          /\ recs \in Seq(Record)
      BY <1>1, <2>6
    <3>4. Contents([disk EXCEPT ![logFilePath_] = @ \o recs]) = Contents(disk) \o recs
      BY <3>2, <3>3, ContentsGrow
    <3> QED
      BY <1>1, <3>1, <3>4
  <2>8. ((OnDisk \o recs) \o rest) \o tail = (OnDisk \o stream) \o localQueue
    <3> DEFINE onDisk == OnDisk
               both == recs \o rest
    <3>1. onDisk \in Seq(Record) /\ both \in Seq(Record)
      BY <1>1, <2>6
    <3>2. stream \in Seq(Record) /\ localQueue \in Seq(Record)
      BY <1>1
    <3>3. recs \in Seq(Record) /\ rest \in Seq(Record) /\ tail \in Seq(Record)
      BY <2>6
    <3> HIDE DEF onDisk
    <3>4. (onDisk \o recs) \o rest = onDisk \o both
      BY <3>1, <3>3, ConcatAssociative, SMTT(30)
    <3>5. (onDisk \o both) \o tail = onDisk \o (both \o tail)
      <4>1. tail \in Seq(Record)
        BY <3>3
      <4> HIDE DEF both
      <4> QED
        BY <3>1, <4>1, ConcatAssociative, SMTT(30)
    <3>6. (onDisk \o stream) \o localQueue = onDisk \o (stream \o localQueue)
      BY <3>1, <3>2, ConcatAssociative, SMTT(30)
    <3>7. both \o tail = stream \o localQueue
      BY <2>6
    <3> HIDE DEF both
    <3>8. ((onDisk \o recs) \o rest) \o tail = (onDisk \o stream) \o localQueue
      BY <3>4, <3>5, <3>6, <3>7
    <3> QED
      BY <3>8 DEF onDisk
  <2>9. OnDisk' \o stream' \o localQueue' = OnDisk \o stream \o localQueue
    BY <2>3, <2>7, <2>8 DEF rest, tail
  <2> QED
    BY <1>1, <1>2, <2>3, <2>9
<1>12. CASE FlusherFlush
  BY <1>4, <1>12 DEF FlusherFlush, queueVars, callVars
<1>13. CASE CloseStop
  BY <1>3, <1>13 DEF CloseStop, fileVars
<1>14. CASE CloseJoin
  BY <1>4, <1>14 DEF CloseJoin, queueVars
<1>15. CASE Crash
  <2>1. /\ stream' = <<>> /\ localQueue' = <<>> /\ logQueue_' = <<>> /\ accepted' = OnDisk
        /\ disk' = disk \/ disk' = [disk EXCEPT ![logFilePath_] = Append(@, Torn)]
    BY <1>15 DEF Crash
  <2>2. OnDisk' = OnDisk
    BY <1>1, <2>1, ContentsTorn
  <2>3. OnDisk \o <<>> = OnDisk
    BY <1>1, Associative
  <2> QED
    BY <1>2, <2>1, <2>2, <2>3
<1>16. CASE Restart
  BY <1>3, <1>16 DEF Restart, queueVars, callVars
<1>17. CASE UNCHANGED vars
  BY <1>3, <1>17 DEF vars
<1> QED
  BY <1>5, <1>6, <1>7, <1>8, <1>9, <1>10, <1>11, <1>12, <1>13, <1>14, <1>15, <1>16, <1>17
     DEF Next, Flusher

-----------------------------------------------------------------------------
(* Least and greatest numbers.                                             *)

LEMMA MinIs ==
  ASSUME NEW S \in SUBSET Nat, S # {}
  PROVE  Min(S) \in S /\ \A m \in S : Min(S) <= m
<1> DEFINE R == OpToRel(<, Nat)
<1>1. PICK x \in S : \A y \in S : ~(<<y, x>> \in R)
  BY NatLessThanWellFounded, WFMin
<1>2. \A y \in S : x <= y
  <2>1. ASSUME NEW y \in S, ~(x <= y)
        PROVE  FALSE
    <3>1. <<y, x>> \in R
      BY <2>1 DEF OpToRel
    <3> QED
      BY <1>1, <3>1
  <2> QED
    BY <2>1
<1> QED
  BY <1>2 DEF Min

LEMMA MaxIs ==
  ASSUME NEW S \in SUBSET Nat, S # {}, NEW n \in Nat, \A m \in S : m <= n
  PROVE  Max(S) \in S /\ \A m \in S : Max(S) >= m
<1> DEFINE B == {b \in Nat : \A m \in S : m <= b}
           b == Min(B)
<1>1. B \in SUBSET Nat /\ n \in B
  OBVIOUS
<1>2. b \in B /\ \A c \in B : b <= c
  <2> HIDE DEF B
  <2> QED
    BY <1>1, MinIs
<1> HIDE DEF b
<1>3. b \in S
  <2>1. ASSUME b \notin S
        PROVE  FALSE
    <3>1. PICK m \in S : TRUE
      OBVIOUS
    <3>2. \A x \in S : x <= b - 1
      BY <1>2, <2>1
    <3>3. m <= b - 1 /\ m \in Nat /\ b \in Nat
      BY <1>2, <3>1, <3>2
    <3>4. b - 1 \in Nat /\ ~(b <= b - 1)
      BY <3>3
    <3>5. b - 1 \in B
      BY <3>2, <3>4
    <3> QED
      BY <1>2, <3>4, <3>5
  <2> QED
    BY <2>1
<1>4. \A m \in S : b >= m
  BY <1>2, <1>3
<1> QED
  BY <1>3, <1>4 DEF Max

-----------------------------------------------------------------------------
(* A sequence of sequences and its concatenation.                          *)

Elements(s) == {s[i] : i \in 1 .. Len(s)}

\* s stands in t, in one piece.
Embedded(s, t) ==
  \E b \in Nat : b + Len(s) <= Len(t) /\ \A p \in 1 .. Len(s) : t[b + p] = s[p]

LEMMA ElementsOfConcat ==
  ASSUME NEW S, NEW s \in Seq(S), NEW t \in Seq(S)
  PROVE  Elements(s \o t) = Elements(s) \cup Elements(t)
<1> DEFINE u == s \o t
           m == Len(s)
           n == Len(t)
<1>1. /\ m \in Nat /\ n \in Nat /\ Len(u) = m + n
      /\ \A i \in 1 .. m + n : u[i] = IF i <= m THEN s[i] ELSE t[i - m]
  OBVIOUS
<1> HIDE DEF u
<1>2. ASSUME NEW i \in 1 .. m + n
      PROVE  u[i] \in Elements(s) \cup Elements(t)
  <2>1. i <= m => i \in 1 .. m /\ u[i] = s[i]
    BY <1>1
  <2>2. ~(i <= m) => i - m \in 1 .. n /\ u[i] = t[i - m]
    BY <1>1
  <2> QED
    BY <2>1, <2>2 DEF Elements
<1>3. ASSUME NEW i \in 1 .. m
      PROVE  s[i] \in Elements(u)
  <2>1. i \in 1 .. m + n /\ u[i] = s[i]
    BY <1>1
  <2> QED
    BY <1>1, <2>1 DEF Elements
<1>4. ASSUME NEW i \in 1 .. n
      PROVE  t[i] \in Elements(u)
  <2>1. m + i \in 1 .. m + n /\ u[m + i] = t[i]
    BY <1>1
  <2> QED
    BY <1>1, <2>1 DEF Elements
<1>5. Elements(u) \subseteq Elements(s) \cup Elements(t)
  BY <1>1, <1>2 DEF Elements
<1>6. Elements(s) \subseteq Elements(u) /\ Elements(t) \subseteq Elements(u)
  BY <1>3, <1>4 DEF Elements
<1> QED
  BY <1>5, <1>6 DEF u

LEMMA EmbeddedInConcat ==
  ASSUME NEW S, NEW s \in Seq(S), NEW t \in Seq(S), NEW u \in Seq(S)
  PROVE  /\ Embedded(s, t) => Embedded(s, t \o u)
         /\ Embedded(u, t \o u)
         /\ Embedded(s, s)
<1> DEFINE v == t \o u
           m == Len(t)
           n == Len(u)
           l == Len(s)
<1>1. /\ m \in Nat /\ n \in Nat /\ l \in Nat /\ Len(v) = m + n
      /\ \A i \in 1 .. m + n : v[i] = IF i <= m THEN t[i] ELSE u[i - m]
  OBVIOUS
<1> HIDE DEF v
<1>2. ASSUME Embedded(s, t)
      PROVE  Embedded(s, v)
  <2>1. PICK b \in Nat : b + l <= m /\ \A p \in 1 .. l : t[b + p] = s[p]
    BY <1>2 DEF Embedded
  <2>2. \A p \in 1 .. l : v[b + p] = s[p]
    <3>1. ASSUME NEW p \in 1 .. l
          PROVE  v[b + p] = s[p]
      <4>1. b + p \in 1 .. m + n /\ b + p <= m
        BY <1>1, <2>1
      <4> QED
        BY <1>1, <2>1, <4>1
    <3> QED
      BY <3>1
  <2>3. b + l <= m + n
    BY <1>1, <2>1
  <2> QED
    BY <1>1, <2>2, <2>3 DEF Embedded
<1>3. Embedded(u, v)
  <2>1. ASSUME NEW p \in 1 .. n
        PROVE  v[m + p] = u[p]
    <3>1. m + p \in 1 .. m + n /\ ~(m + p <= m) /\ (m + p) - m = p
      BY <1>1
    <3> QED
      BY <1>1, <3>1
  <2>2. m + n <= m + n
    BY <1>1
  <2> QED
    BY <1>1, <2>1, <2>2 DEF Embedded
<1>4. Embedded(s, s)
  <2>1. 0 \in Nat /\ 0 + l <= l /\ \A p \in 1 .. l : s[0 + p] = s[p]
    BY <1>1
  <2> QED
    BY <2>1 DEF Embedded
<1> QED
  BY <1>2, <1>3, <1>4 DEF v

\* The concatenation has the elements of the sequences and no other, and
\* keeps each of them in one piece.
LEMMA FlattenHas ==
  ASSUME NEW S, NEW n \in Nat \ {0}, NEW seqs \in [1 .. n -> Seq(S)]
  PROVE  /\ FlattenSeq(seqs) \in Seq(S)
         /\ Elements(FlattenSeq(seqs)) = UNION {Elements(seqs[i]) : i \in 1 .. n}
         /\ \A i \in 1 .. n : Embedded(seqs[i], FlattenSeq(seqs))
<1>1. seqs \in Seq(Seq(S)) /\ Len(seqs) = n
  OBVIOUS
<1>2. PICK g : IsFlatten(g, seqs) /\ FlattenSeq(seqs) = g[n]
  BY <1>1, FlattenIs
<1>3. \A i \in 1 .. n : seqs[i] \in Seq(S) /\ g[i] = IF i = 1 THEN seqs[i] ELSE g[i - 1] \o seqs[i]
  BY <1>1, <1>2 DEF IsFlatten
<1> DEFINE P(i) == /\ g[i] \in Seq(S)
                   /\ Elements(g[i]) = UNION {Elements(seqs[l]) : l \in 1 .. i}
                   /\ \A l \in 1 .. i : Embedded(seqs[l], g[i])
           N == {j \in 0 .. n - 1 : P(j + 1)}
<1>4. 0 \in N
  <2>1. g[1] = seqs[1] /\ seqs[1] \in Seq(S)
    BY <1>3
  <2>2. Embedded(seqs[1], g[1])
    BY <2>1, EmbeddedInConcat
  <2>3. 1 .. 1 = {1}
    OBVIOUS
  <2>4. P(1)
    BY <2>1, <2>2, <2>3
  <2> QED
    BY <2>4
<1>5. ASSUME NEW j \in 0 .. (n - 1) - 1, j \in N
      PROVE  j + 1 \in N
  <2> DEFINE i == j + 1
  <2>1. /\ i \in 1 .. n /\ i + 1 \in 1 .. n /\ i + 1 # 1 /\ (i + 1) - 1 = i /\ i \in 0 .. n - 1
        /\ 1 .. i + 1 = (1 .. i) \cup {i + 1}
    OBVIOUS
  <2>2. P(i)
    BY <1>5
  <2> HIDE DEF i
  <2> DEFINE s == g[i]
             t == seqs[i + 1]
  <2>3. g[i + 1] = s \o t /\ s \in Seq(S) /\ t \in Seq(S)
    BY <1>3, <2>1, <2>2
  <2>4. Elements(s \o t) = Elements(s) \cup Elements(t) /\ s \o t \in Seq(S)
    <3> HIDE DEF s, t
    <3> QED
      BY <2>3, ElementsOfConcat
  <2>5. \A l \in 1 .. i + 1 : Embedded(seqs[l], s \o t)
    <3>1. ASSUME NEW l \in 1 .. i
          PROVE  Embedded(seqs[l], s \o t)
      <4>1. l \in 1 .. n
        BY <2>1
      <4>2. seqs[l] \in Seq(S) /\ Embedded(seqs[l], s)
        BY <1>3, <2>2, <4>1
      <4> HIDE DEF s, t
      <4> QED
        BY <2>3, <4>2, EmbeddedInConcat
    <3>2. Embedded(t, s \o t)
      <4> HIDE DEF s, t
      <4> QED
        BY <2>3, EmbeddedInConcat
    <3> QED
      BY <2>1, <3>1, <3>2
  <2>6. Elements(s \o t) = UNION {Elements(seqs[l]) : l \in 1 .. i + 1}
    <3>1. Elements(s) = UNION {Elements(seqs[l]) : l \in 1 .. i}
      BY <2>2
    <3> QED
      BY <2>1, <2>4, <3>1
  <2>7. P(i + 1)
    BY <2>3, <2>4, <2>5, <2>6
  <2> QED
    BY <2>1, <2>7 DEF i
<1>6. n - 1 \in N
  <2> HIDE DEF N
  <2>1. n - 1 \in Nat /\ n - 1 \in 0 .. n - 1
    OBVIOUS
  <2> QED
    BY <1>4, <1>5, <2>1, SetInduction
<1>7. P(n)
  <2>1. (n - 1) + 1 = n
    OBVIOUS
  <2> QED
    BY <1>6, <2>1
<1> QED
  BY <1>2, <1>7

-----------------------------------------------------------------------------
(* What a reader makes of a file.                                          *)

\* Only the last record of a file may be torn.
IsWhole(file) == \A i \in 1 .. Len(file) : file[i] # Torn
IsWholeButLast(file) == \A i \in 1 .. Len(file) - 1 : file[i] # Torn

InTimeOrder(recs) == \A i, j \in 1 .. Len(recs) : i < j => recs[i].ts < recs[j].ts

Upto(recs, maxTs) == {r \in Elements(recs) : r.ts <= maxTs}

LEMMA IntactOfWhole ==
  ASSUME NEW S, Torn \notin S, NEW file \in Seq(S)
  PROVE  Intact(file) = file
<1>1. <<>> \in Seq(S \cup {Torn})
  OBVIOUS
<1>2. Intact(<<>> \o file) = Intact(<<>>) \o file
  BY <1>1, IntactOfConcat
<1>3. <<>> \o file = file
  BY ConcatEmptySeq
<1> QED
  BY <1>2, <1>3, IntactOfEmpty

\* A file is its whole records, and perhaps a torn one.
LEMMA FileIs ==
  ASSUME NEW S, Torn \notin S, NEW file \in Seq(S \cup {Torn}), IsWholeButLast(file)
  PROVE  /\ Intact(file) \in Seq(S)
         /\ IsWhole(file) => Intact(file) = file
         /\ ~IsWhole(file) => file = Append(Intact(file), Torn)
<1>1. Intact(file) \in Seq(S)
  BY IntactIsTyped
<1>2. Len(file) \in Nat /\ \A i \in 1 .. Len(file) : file[i] \in S \cup {Torn}
  OBVIOUS
<1>3. ASSUME IsWhole(file)
      PROVE  Intact(file) = file
  <2>1. \A i \in 1 .. Len(file) : file[i] \in S
    BY <1>2, <1>3 DEF IsWhole
  <2>2. file \in Seq(S)
    BY <1>2, <2>1
  <2> QED
    BY <2>2, IntactOfWhole
<1>4. ASSUME ~IsWhole(file)
      PROVE  file = Append(Intact(file), Torn)
  <2> DEFINE n == Len(file) - 1
  <2>1. n \in Nat /\ Len(file) = n + 1 /\ file[n + 1] = Torn
    BY <1>2, <1>4 DEF IsWhole, IsWholeButLast
  <2>2. PICK t \in Seq(S \cup {Torn}), x \in S \cup {Torn} : Len(t) = n /\ file = Append(t, x)
    <3> DEFINE T == S \cup {Torn}
    <3>1. file \in Seq(T) /\ n \in Nat /\ Len(file) = n + 1
      BY <2>1
    <3> HIDE DEF n, T
    <3>2. \E t \in Seq(T), x \in T : Len(t) = n /\ file = Append(t, x)
      BY <3>1, LongerByOne
    <3> QED
      BY <3>2 DEF T
  <2>3. x = Torn /\ \A i \in 1 .. n : t[i] = file[i]
    BY <2>1, <2>2
  <2>4. \A i \in 1 .. n : t[i] \in S
    BY <2>2, <2>3 DEF IsWholeButLast
  <2>5. t \in Seq(S)
    BY <2>1, <2>2, <2>4
  <2>6. Intact(file) = Intact(t)
    BY <2>2, <2>3, IntactOfAppend
  <2>7. Intact(t) = t
    BY <2>5, IntactOfWhole
  <2> QED
    BY <2>2, <2>3, <2>6, <2>7
<1> QED
  BY <1>1, <1>3, <1>4

\* The reader calls back for the whole records up to the timestamp.
LEMMA ScanIs ==
  ASSUME NEW file \in Seq(Record \cup {Torn}), IsWholeButLast(file), InTimeOrder(Intact(file)),
         NEW maxTs \in Nat, OversizedValues \cap Values = {}
  PROVE  /\ Scan(file, maxTs) \in Seq(Record)
         /\ Elements(Scan(file, maxTs)) = Upto(Intact(file), maxTs)
<1> DEFINE recs == Intact(file)
           n == Len(recs)
           len == Len(file)
           stops == {i \in 1 .. len : ~Readable(file[i], maxTs)} \cup {len + 1}
           m == Min(stops)
<1>1. /\ recs \in Seq(Record) /\ n \in Nat /\ len \in Nat
      /\ \A i \in 1 .. n : i \in 1 .. len /\ file[i] = recs[i] /\ recs[i] \in Record
      /\ n <= len
      /\ \A i \in 1 .. len : i \notin 1 .. n => file[i] = Torn
  <2>1. recs \in Seq(Record) /\ (recs = file \/ file = Append(recs, Torn))
    BY FileIs, TornAssumption
  <2> HIDE DEF recs
  <2>2. n \in Nat /\ \A i \in 1 .. n : recs[i] \in Record
    BY <2>1
  <2>3. CASE file = recs
    BY <2>1, <2>2, <2>3
  <2>4. CASE file = Append(recs, Torn)
    <3>1. /\ len = n + 1 /\ file[n + 1] = Torn
          /\ \A i \in 1 .. n : file[i] = recs[i]
      BY <2>1, <2>4
    <3> HIDE DEF n, len
    <3> QED
      BY <2>1, <2>2, <3>1
  <2> QED
    BY <2>1, <2>3, <2>4
<1> HIDE DEF recs, n, len
<1>2. ASSUME NEW i \in 1 .. n
      PROVE  Readable(file[i], maxTs) <=> recs[i].ts <= maxTs
  <2>1. file[i] = recs[i] /\ recs[i] \in Record
    BY <1>1
  <2>2. recs[i] # Torn /\ recs[i].val \in Values
    BY <2>1, TornAssumption DEF Record
  <2> QED
    BY <2>1, <2>2 DEF Readable
<1>3. stops \in SUBSET Nat /\ stops # {}
  BY <1>1
<1>4. m \in stops /\ \A i \in stops : m <= i
  <2> HIDE DEF stops
  <2> QED
    BY <1>3, MinIs
<1>5. m \in 1 .. len + 1 /\ m - 1 \in 0 .. len
  BY <1>1, <1>4
<1>6. ASSUME NEW i \in 1 .. m - 1
      PROVE  i \in 1 .. n /\ recs[i].ts <= maxTs
  <2>1. i \in 1 .. len /\ i \notin stops
    BY <1>1, <1>4, <1>5
  <2>2. Readable(file[i], maxTs)
    BY <2>1
  <2>3. i \in 1 .. n
    BY <1>1, <2>1, <2>2 DEF Readable
  <2> QED
    BY <1>2, <2>2, <2>3
<1>7. ASSUME NEW i \in 1 .. n, recs[i].ts <= maxTs
      PROVE  i \in 1 .. m - 1
  <2>1. ASSUME m <= i
        PROVE  FALSE
    <3>1. m \in 1 .. n /\ m \in 1 .. len
      BY <1>1, <1>5, <2>1
    <3>2. ~Readable(file[m], maxTs)
      BY <1>1, <1>4, <3>1
    <3>3. ~(recs[m].ts <= maxTs)
      BY <1>2, <3>1, <3>2
    <3>4. recs[m].ts \in Nat /\ recs[i].ts \in Nat
      BY <1>1, <3>1 DEF Record
    <3>5. m = i \/ recs[m].ts < recs[i].ts
      BY <1>1, <1>5, <2>1, <3>1 DEF InTimeOrder, recs, n
    <3> QED
      BY <1>7, <3>3, <3>4, <3>5
  <2> QED
    BY <1>1, <1>5, <2>1
<1>8. Scan(file, maxTs) = SubSeq(file, 1, m - 1)
  BY DEF Scan, len
<1> HIDE DEF m
<1> DEFINE scan == SubSeq(file, 1, m - 1)
<1>9. /\ Len(scan) = m - 1 /\ m - 1 \in Nat
      /\ \A i \in 1 .. m - 1 : scan[i] = file[i]
  BY <1>5 DEF len
<1>10. scan \in Seq(Record)
  <2>1. \A i \in 1 .. m - 1 : file[i] \in Record
    BY <1>1, <1>6
  <2>2. scan = [i \in 1 .. m - 1 |-> file[i]]
    BY <1>5 DEF len
  <2> HIDE DEF scan
  <2> QED
    BY <1>9, <2>1, <2>2
<1> HIDE DEF scan
<1>11. ASSUME NEW r
       PROVE  r \in Elements(scan) <=> r \in Upto(recs, maxTs)
  <2>1. ASSUME NEW i \in 1 .. m - 1, r = scan[i]
        PROVE  r \in Upto(recs, maxTs)
    <3>1. i \in 1 .. n /\ r = recs[i] /\ recs[i].ts <= maxTs
      BY <1>1, <1>6, <1>9, <2>1
    <3> QED
      BY <3>1 DEF Upto, Elements, n
  <2>2. ASSUME NEW i \in 1 .. n, r = recs[i], recs[i].ts <= maxTs
        PROVE  r \in Elements(scan)
    <3>1. i \in 1 .. m - 1 /\ r = scan[i]
      BY <1>1, <1>7, <1>9, <2>2
    <3> QED
      BY <1>9, <3>1 DEF Elements
  <2> QED
    BY <1>9, <2>1, <2>2 DEF Upto, Elements, n
<1>12. Elements(scan) = Upto(recs, maxTs)
  BY <1>11
<1> QED
  BY <1>8, <1>10, <1>12 DEF scan, recs
-----------------------------------------------------------------------------
(* What a collector makes of the records.                                  *)

\* r is the newest of the records for its key.
IsNewest(r, records) ==
  r \in records /\ \A s \in records : s.key = r.key => s.ts <= r.ts

\* No two of the records have one timestamp.
AreDated(records) == \A r, s \in records : r.ts = s.ts => r = s

LEMMA CollectedIs ==
  ASSUME NEW recs \in Seq(Record), NEW k, AreDated(Elements(recs))
  PROVE  /\ \A r \in Elements(recs) : r.key = k /\ IsNewest(r, Elements(recs)) => Collected(recs, k) = r.val
         /\ (\A r \in Elements(recs) : r.key # k) => Collected(recs, k) = Absent
<1> DEFINE n == Len(recs)
           its == {i \in 1 .. n : recs[i].key = k}
           times == {recs[i].ts : i \in its}
           latest == Max(times)
           first == {i \in its : recs[i].ts = latest}
<1>1. n \in Nat /\ DOMAIN recs = 1 .. n /\ \A i \in 1 .. n : recs[i] \in Record /\ recs[i].ts \in Nat
  <2>1. n \in Nat /\ DOMAIN recs = 1 .. n /\ \A i \in 1 .. n : recs[i] \in Record
    OBVIOUS
  <2> QED
    BY <2>1 DEF Record
<1>2. Collected(recs, k) = IF its = {} THEN Absent ELSE recs[Min(first)].val
  BY <1>1 DEF Collected
<1> HIDE DEF n
<1>3. ASSUME NEW r \in Elements(recs), r.key = k, IsNewest(r, Elements(recs))
      PROVE  Collected(recs, k) = r.val
  <2>1. PICK p \in 1 .. n : r = recs[p]
    BY DEF Elements, n
  <2>2. p \in its /\ r.ts \in times /\ r.ts \in Nat
    BY <1>1, <1>3, <2>1
  <2>3. \A t \in times : t <= r.ts
    <3>1. ASSUME NEW i \in its
          PROVE  recs[i].ts <= r.ts
      <4>1. recs[i] \in Elements(recs)
        BY DEF Elements, n
      <4> QED
        BY <1>3, <4>1 DEF IsNewest
    <3> QED
      BY <3>1
  <2>4. latest = r.ts
    <3>1. times \in SUBSET Nat /\ times # {}
      BY <1>1, <2>2
    <3> HIDE DEF times
    <3>2. latest \in times /\ \A t \in times : latest >= t
      BY <2>2, <2>3, <3>1, MaxIs
    <3>3. latest >= r.ts /\ latest <= r.ts /\ latest \in Nat
      BY <2>2, <2>3, <3>1, <3>2
    <3> QED
      BY <2>2, <3>3
  <2> HIDE DEF latest
  <2>5. p \in first /\ first \in SUBSET Nat
    BY <2>1, <2>2, <2>4
  <2>6. Min(first) \in first
    <3> HIDE DEF first
    <3> QED
      BY <2>5, MinIs
  <2>7. recs[Min(first)] \in Elements(recs) /\ recs[Min(first)].ts = r.ts
    BY <2>4, <2>6 DEF Elements, n
  <2>8. recs[Min(first)] = r
    BY <2>7 DEF AreDated
  <2>9. its # {}
    BY <2>2
  <2> QED
    BY <1>2, <2>8, <2>9
<1>4. ASSUME \A r \in Elements(recs) : r.key # k
      PROVE  Collected(recs, k) = Absent
  <2>1. its = {}
    BY <1>4 DEF Elements, n
  <2> QED
    BY <1>2, <2>1
<1> QED
  BY <1>3, <1>4

LEMMA LoggedIs ==
  ASSUME NEW recs \in Seq(Record), NEW k, NEW maxTs \in Nat, InTimeOrder(recs)
  PROVE  \/ \E r \in Upto(recs, maxTs) : /\ r.key = k /\ IsNewest(r, Upto(recs, maxTs))
                                         /\ Logged(recs, k, maxTs) = r.val
         \/ /\ \A r \in Upto(recs, maxTs) : r.key # k
            /\ Logged(recs, k, maxTs) = Absent
<1> DEFINE n == Len(recs)
           its == {i \in 1 .. n : recs[i].key = k /\ recs[i].ts <= maxTs}
<1>1. n \in Nat /\ DOMAIN recs = 1 .. n /\ \A i \in 1 .. n : recs[i] \in Record /\ recs[i].ts \in Nat
  <2>1. n \in Nat /\ DOMAIN recs = 1 .. n /\ \A i \in 1 .. n : recs[i] \in Record
    OBVIOUS
  <2> QED
    BY <2>1 DEF Record
<1>2. Logged(recs, k, maxTs) = IF its = {} THEN Absent ELSE recs[Max(its)].val
  BY <1>1 DEF Logged
<1> HIDE DEF n
<1>3. \A r \in Upto(recs, maxTs) : \E i \in 1 .. n : r = recs[i] /\ recs[i].ts <= maxTs
  BY DEF Upto, Elements, n
<1>4. CASE its = {}
  <2>1. \A r \in Upto(recs, maxTs) : r.key # k
    BY <1>3, <1>4
  <2> QED
    BY <1>2, <1>4, <2>1
<1>5. CASE its # {}
  <2> DEFINE p == Max(its)
             r == recs[p]
  <2>1. its \in SUBSET Nat /\ \A i \in its : i <= n
    BY <1>1
  <2>2. p \in its /\ \A i \in its : p >= i
    <3> HIDE DEF its
    <3> QED
      BY <1>1, <1>5, <2>1, MaxIs
  <2> HIDE DEF p
  <2>3. r \in Upto(recs, maxTs) /\ r.key = k
    BY <2>2 DEF Upto, Elements, n
  <2>4. ASSUME NEW s \in Upto(recs, maxTs), s.key = k
        PROVE  s.ts <= r.ts
    <3>1. PICK i \in 1 .. n : s = recs[i] /\ recs[i].ts <= maxTs
      BY <1>3
    <3>2. p >= i
      BY <2>2, <2>4, <3>1
    <3>3. i = p \/ recs[i].ts < recs[p].ts
      BY <1>1, <2>2, <3>2 DEF InTimeOrder, n
    <3>4. recs[i].ts \in Nat /\ recs[p].ts \in Nat
      BY <1>1, <2>2
    <3> QED
      BY <3>1, <3>3, <3>4
  <2>5. IsNewest(r, Upto(recs, maxTs))
    BY <2>3, <2>4 DEF IsNewest
  <2> QED
    BY <1>2, <1>5, <2>3, <2>5 DEF p
<1> QED
  BY <1>4, <1>5

-----------------------------------------------------------------------------
(* What is read of the files.                                              *)

LEMMA OrderReachesAll ==
  ASSUME NEW order \in [1 .. Cardinality(Files) -> Files],
         \A i, j \in DOMAIN order : i # j => order[i] # order[j]
  PROVE  \A f \in Files : \E i \in 1 .. Cardinality(Files) : order[i] = f
<1> DEFINE n == Cardinality(Files)
           I == 1 .. n
<1>1. n \in Nat \ {0} /\ IsFiniteSet(Files)
  <2>1. Second(MaxTime) \in Int /\ 0 \in Int
    BY FilesAre
  <2>2. IsFiniteSet(Files)
    BY <2>1, FS_Interval DEF Files
  <2> QED
    BY <2>2, FilesAre
<1> HIDE DEF n
<1>2. Cardinality(I) = n
  <2>1. 1 \in Int /\ n \in Int /\ ~(1 > n) /\ n - 1 + 1 = n
    BY <1>1
  <2> QED
    BY <2>1, FS_Interval
<1>3. order \in [I -> Files] /\ \A i, j \in I : order[i] = order[j] => i = j
  BY DEF n
<1> HIDE DEF I
<1>4. order \in Injection(I, Files)
  BY <1>3 DEF Injection, IsInjective
<1>5. order \in Surjection(I, Files)
  <2>1. Cardinality(I) = Cardinality(Files)
    BY <1>2 DEF n
  <2> QED
    BY <1>1, <1>4, <2>1, FS_Injection
<1>6. \A f \in Files : \E i \in I : order[i] = f
  BY <1>5 DEF Surjection
<1> QED
  BY <1>6 DEF I, n

LEMMA InOneFile ==
  ASSUME NEW s, NEW t, s \in Seq(Record), t \in Seq(Record), Embedded(s, t), InTimeOrder(t)
  PROVE  InTimeOrder(s)
<1>1. PICK b \in Nat : b + Len(s) <= Len(t) /\ \A p \in 1 .. Len(s) : t[b + p] = s[p]
  BY DEF Embedded
<1>2. Len(s) \in Nat /\ Len(t) \in Nat
  OBVIOUS
<1>3. ASSUME NEW i \in 1 .. Len(s), NEW j \in 1 .. Len(s), i < j
      PROVE  s[i].ts < s[j].ts
  <2>1. b + i \in 1 .. Len(t) /\ b + j \in 1 .. Len(t) /\ b + i < b + j
    BY <1>1, <1>2, <1>3
  <2>2. t[b + i].ts < t[b + j].ts
    BY <2>1 DEF InTimeOrder
  <2> QED
    BY <1>1, <2>2
<1> QED
  BY <1>3 DEF InTimeOrder

\* In whatever order the files are read, the records up to the timestamp
\* come back, and no others.
LEMMA DeliveredAre ==
  ASSUME NEW files \in [Files -> Seq(Record \cup {Torn})],
         \A f \in Files : IsWholeButLast(files[f]),
         InTimeOrder(Contents(files)), OversizedValues \cap Values = {},
         NEW order \in [1 .. Cardinality(Files) -> Files],
         \A i, j \in DOMAIN order : i # j => order[i] # order[j],
         NEW maxTs \in Nat
  PROVE  LET delivered == Delivered([i \in 1 .. Cardinality(Files) |-> files[order[i]]], maxTs)
         IN  /\ delivered \in Seq(Record)
             /\ Elements(delivered) = Upto(Contents(files), maxTs)
<1> DEFINE n == Cardinality(Files)
           read == [i \in 1 .. n |-> files[order[i]]]
           scans == [i \in 1 .. n |-> Scan(files[order[i]], maxTs)]
           all == Contents(files)
<1>1. n \in Nat \ {0}
  BY FilesAre
<1>2. Parts(files) \in [1 .. n -> Seq(Record)] /\ \A i \in 1 .. n : Parts(files)[i] = Intact(files[i - 1])
  <2>1. /\ Parts(files) \in Seq(Seq(Record)) /\ Len(Parts(files)) = n
        /\ \A i \in 1 .. n : Parts(files)[i] = Intact(files[i - 1])
    BY PartsAreTyped
  <2> QED
    BY <2>1
<1>3. /\ all \in Seq(Record)
      /\ Elements(all) = UNION {Elements(Parts(files)[i]) : i \in 1 .. n}
      /\ \A i \in 1 .. n : Embedded(Parts(files)[i], all)
  <2> HIDE DEF n
  <2> QED
    BY <1>1, <1>2, FlattenHas DEF Contents
<1>4. Delivered(read, maxTs) = FlattenSeq(scans)
  <2>1. DOMAIN read = 1 .. n /\ \A i \in 1 .. n : read[i] = files[order[i]]
    OBVIOUS
  <2> HIDE DEF read, n
  <2>2. [i \in DOMAIN read |-> Scan(read[i], maxTs)] = scans
    BY <2>1
  <2> QED
    BY <2>2 DEF Delivered
<1> HIDE DEF all, n
<1>5. \A i \in 1 .. n : i - 1 \in Files /\ order[i] \in Files
  BY FilesAre DEF n
<1>6. ASSUME NEW f \in Files
      PROVE  /\ f + 1 \in 1 .. n /\ (f + 1) - 1 = f
             /\ Parts(files)[f + 1] = Intact(files[f])
             /\ Scan(files[f], maxTs) \in Seq(Record)
             /\ Elements(Scan(files[f], maxTs)) = Upto(Intact(files[f]), maxTs)
  <2>1. f + 1 \in 1 .. n /\ (f + 1) - 1 = f
    BY FilesAre DEF n
  <2>2. Parts(files)[f + 1] = Intact(files[f]) /\ Intact(files[f]) \in Seq(Record)
    BY <1>2, <2>1
  <2>3. InTimeOrder(Intact(files[f]))
    BY <1>3, <2>1, <2>2, InOneFile DEF all
  <2> QED
    BY <2>1, <2>2, <2>3, ScanIs
<1>7. scans \in [1 .. n -> Seq(Record)]
  BY <1>5, <1>6
<1>8. /\ FlattenSeq(scans) \in Seq(Record)
      /\ Elements(FlattenSeq(scans)) = UNION {Elements(scans[i]) : i \in 1 .. n}
  <2> HIDE DEF scans
  <2> QED
    BY <1>1, <1>7, FlattenHas
<1>9. \A i \in 1 .. n : Elements(scans[i]) = Upto(Intact(files[order[i]]), maxTs)
  BY <1>5, <1>6
<1> HIDE DEF scans
<1>10. ASSUME NEW r \in UNION {Elements(scans[i]) : i \in 1 .. n}
       PROVE  r \in Upto(all, maxTs)
  <2>1. PICK i \in 1 .. n : r \in Upto(Intact(files[order[i]]), maxTs)
    BY <1>9
  <2>2. order[i] + 1 \in 1 .. n /\ Parts(files)[order[i] + 1] = Intact(files[order[i]])
    BY <1>5, <1>6
  <2> QED
    BY <1>3, <2>1, <2>2 DEF Upto
<1>11. ASSUME NEW r \in Upto(all, maxTs)
       PROVE  r \in UNION {Elements(scans[i]) : i \in 1 .. n}
  <2>1. PICK i \in 1 .. n : r \in Elements(Parts(files)[i]) /\ r.ts <= maxTs
    BY <1>3 DEF Upto
  <2>2. r \in Upto(Intact(files[i - 1]), maxTs)
    BY <1>2, <2>1 DEF Upto
  <2>3. PICK j \in 1 .. n : order[j] = i - 1
    BY <1>5, OrderReachesAll DEF n
  <2> QED
    BY <1>9, <2>2, <2>3
<1> QED
  BY <1>4, <1>8, <1>10, <1>11 DEF read, n, all

LEMMA OrderDates ==
  ASSUME NEW recs \in Seq(Record), InTimeOrder(recs)
  PROVE  AreDated(Elements(recs))
<1>1. Len(recs) \in Nat /\ \A i \in 1 .. Len(recs) : recs[i].ts \in Nat
  <2>1. Len(recs) \in Nat /\ \A i \in 1 .. Len(recs) : recs[i] \in Record
    OBVIOUS
  <2> QED
    BY <2>1 DEF Record
<1>2. ASSUME NEW i \in 1 .. Len(recs), NEW j \in 1 .. Len(recs), recs[i].ts = recs[j].ts
      PROVE  i = j
  BY <1>1, <1>2 DEF InTimeOrder
<1> QED
  BY <1>2 DEF AreDated, Elements

\* Recovery to a timestamp finds the last value that the files record up to it.
LEMMA RecoveryIsRight ==
  ASSUME NEW all \in Seq(Record), InTimeOrder(all), NEW maxTs \in Nat, NEW k,
         NEW delivered \in Seq(Record), Elements(delivered) = Upto(all, maxTs)
  PROVE  Collected(delivered, k) = Logged(all, k, maxTs)
<1>1. AreDated(Elements(delivered))
  <2>1. AreDated(Elements(all))
    BY OrderDates
  <2> QED
    BY <2>1 DEF AreDated, Upto
<1> QED
  BY <1>1, CollectedIs, LoggedIs

-----------------------------------------------------------------------------
(* The records' timestamps.                                                *)

\* The record that is about to be pushed is newer than those accepted, and
\* the clock has passed them all.
TimesInv ==
  /\ \A i \in 1 .. Len(accepted) : accepted[i].ts <= now
  /\ InTimeOrder(accepted)
  /\ \A a \in Appenders : appending[a] # NoRecord =>
       /\ appending[a].ts <= now
       /\ \A i \in 1 .. Len(accepted) : accepted[i].ts < appending[a].ts

\* Only a crash tears a record, and the file it was the last of is not
\* written to again.
TornInv ==
  /\ \A f \in Files : IsWholeButLast(disk[f])
  /\ Up => IsWhole(disk[logFilePath_])

OneAppender == \A a, b \in Appenders : a = b

LEMMA InitTimes == Init => TimesInv /\ TornInv
<1> SUFFICES ASSUME Init
             PROVE  TimesInv /\ TornInv
  OBVIOUS
<1>1. Len(<<>>) = 0
  OBVIOUS
<1>2. TimesInv
  BY <1>1 DEF Init, TimesInv, InTimeOrder
<1>3. logFilePath_ \in Files /\ \A f \in Files : disk[f] = <<>>
  <2>1. now \in 0 .. MaxTime
    BY BoundsAssumption DEF Init
  <2> QED
    BY <2>1, FileNameIsTyped DEF Init
<1>4. TornInv
  BY <1>1, <1>3 DEF TornInv, IsWhole, IsWholeButLast
<1> QED
  BY <1>2, <1>4

\* What is on disk is the beginning of what was accepted.
LEMMA RestOfLog ==
  ASSUME Typed, LogInOrder
  PROVE  LET rest == stream \o (localQueue \o logQueue_)
         IN  OnDisk \in Seq(Record) /\ rest \in Seq(Record) /\ accepted = OnDisk \o rest
<1> DEFINE all == OnDisk
           rest == stream \o (localQueue \o logQueue_)
<1>1. /\ all \in Seq(Record) /\ stream \in Seq(Record)
      /\ localQueue \in Seq(Record) /\ logQueue_ \in Seq(Record)
  BY OnDiskIs, ContentsAreTyped DEF Typed, TypeOK
<1>2. accepted = ((all \o stream) \o localQueue) \o logQueue_
  BY DEF LogInOrder
<1> HIDE DEF all, rest
<1>3. localQueue \o logQueue_ \in Seq(Record) /\ all \o stream \in Seq(Record)
  BY <1>1, Associative
<1>4. ((all \o stream) \o localQueue) \o logQueue_ = (all \o stream) \o (localQueue \o logQueue_)
  <2> DEFINE s == all \o stream
  <2>1. s \in Seq(Record)
    BY <1>3
  <2> HIDE DEF s
  <2>2. s \o (localQueue \o logQueue_) = (s \o localQueue) \o logQueue_
    BY <1>1, <2>1, ConcatAssociative, SMTT(30)
  <2> QED
    BY <2>2 DEF s
<1>5. (all \o stream) \o (localQueue \o logQueue_) = all \o (stream \o (localQueue \o logQueue_))
  <2> DEFINE q == localQueue \o logQueue_
  <2>1. q \in Seq(Record)
    BY <1>3
  <2> HIDE DEF q
  <2>2. all \o (stream \o q) = (all \o stream) \o q
    BY <1>1, <2>1, ConcatAssociative, SMTT(30)
  <2> QED
    BY <2>2 DEF q
<1>6. rest \in Seq(Record)
  <2> DEFINE q == localQueue \o logQueue_
  <2>1. q \in Seq(Record)
    BY <1>3
  <2> HIDE DEF q
  <2>2. stream \o q \in Seq(Record)
    BY <1>1, <2>1, Associative
  <2> QED
    BY <2>2 DEF q, rest
<1> QED
  BY <1>1, <1>2, <1>4, <1>5, <1>6 DEF all, rest

LEMMA NextTimes ==
  ASSUME ~ClockIsSetBack, DistinctTimes, OneAppender
  PROVE  Typed /\ LogInOrder /\ TimesInv /\ [Next]_vars => TimesInv'
<1> SUFFICES ASSUME Typed, LogInOrder, TimesInv, [Next]_vars
             PROVE  TimesInv'
  OBVIOUS
<1> DEFINE n == Len(accepted)
<1>1. /\ accepted \in Seq(Record) /\ n \in Nat
      /\ \A i \in 1 .. n : accepted[i] \in Record /\ accepted[i].ts \in Nat /\ accepted[i].ts <= now
      /\ now \in Nat
      /\ \A i, j \in 1 .. n : i < j => accepted[i].ts < accepted[j].ts
      /\ \A a \in Appenders : appending[a] # NoRecord =>
           /\ appending[a] \in Record /\ appending[a].ts \in Nat /\ appending[a].ts <= now
           /\ \A i \in 1 .. n : accepted[i].ts < appending[a].ts
  <2>1. /\ accepted \in Seq(Record) /\ now \in Nat
        /\ \A a \in Appenders : appending[a] # NoRecord => appending[a] \in Record
    BY BoundsAssumption DEF Typed, TypeOK
  <2>2. n \in Nat /\ \A i \in 1 .. n : accepted[i] \in Record
    BY <2>1
  <2>3. \A r \in Record : r.ts \in Nat
    BY DEF Record
  <2> QED
    BY <2>1, <2>2, <2>3 DEF TimesInv, InTimeOrder
<1> HIDE DEF n
\* A step that accepts nothing, stamps nothing and does not set the clock back
<1>2. ASSUME accepted' = accepted, now' \in Nat, now <= now',
             \A a \in Appenders : appending'[a] = appending[a] \/ appending'[a] = NoRecord
      PROVE  TimesInv'
  <2>1. \A i \in 1 .. n : accepted[i].ts <= now'
    BY <1>1, <1>2
  <2>2. ASSUME NEW a \in Appenders, appending'[a] # NoRecord
        PROVE  appending'[a].ts <= now' /\ \A i \in 1 .. n : accepted[i].ts < appending'[a].ts
    BY <1>1, <1>2, <2>2
  <2> QED
    BY <1>2, <2>1, <2>2 DEF TimesInv, InTimeOrder, n
<1>3. ASSUME UNCHANGED <<accepted, now, appending>>
      PROVE  TimesInv'
  BY <1>1, <1>2, <1>3
<1>4. CASE Tick
  <2>1. now' \in Nat /\ now <= now'
    BY <1>1, <1>4 DEF Tick
  <2>2. accepted' = accepted /\ appending' = appending
    BY <1>4 DEF Tick, callVars
  <2> QED
    BY <1>2, <2>1, <2>2
<1>5. ASSUME NEW a \in Appenders, NEW k \in Keys, NEW v \in Values, AppendStamp(a, k, v)
      PROVE  TimesInv'
  <2>1. /\ appending' = [appending EXCEPT ![a] = [key |-> k, val |-> v, ts |-> now]]
        /\ now \notin Stamps
        /\ accepted' = accepted /\ now' = now
    BY <1>5 DEF AppendStamp
  <2>2. /\ appending \in [Appenders -> Record \cup {NoRecord}]
        /\ \A b \in Appenders : b = a
    BY DEF Typed, TypeOK, OneAppender
  <2>3. \A b \in Appenders : appending'[b].ts = now
    BY <2>1, <2>2
  <2>4. \A i \in 1 .. n : accepted[i].ts < now
    <3>1. ASSUME NEW i \in 1 .. n
          PROVE  accepted[i].ts # now
      <4>1. i \in DOMAIN accepted
        BY <1>1 DEF n
      <4> QED
        BY <2>1, <4>1 DEF Stamps
    <3> QED
      BY <1>1, <3>1
  <2>5. now <= now
    BY <1>1
  <2> QED
    BY <1>1, <2>1, <2>3, <2>4, <2>5 DEF TimesInv, InTimeOrder, n
<1>6. ASSUME NEW a \in Appenders, AppendPush(a)
      PROVE  TimesInv'
  <2> DEFINE r == appending[a]
  <2>1. /\ r # NoRecord /\ accepted' = Append(accepted, r) /\ now' = now
        /\ appending' = [appending EXCEPT ![a] = NoRecord]
    BY <1>6 DEF AppendPush
  <2>2. r \in Record /\ r.ts \in Nat /\ r.ts <= now /\ \A i \in 1 .. n : accepted[i].ts < r.ts
    BY <1>1, <2>1
  <2>3. \A b \in Appenders : appending'[b] = NoRecord
    <3>1. appending \in [Appenders -> Record \cup {NoRecord}] /\ \A b \in Appenders : b = a
      BY DEF Typed, TypeOK, OneAppender
    <3> QED
      BY <2>1, <3>1
  <2> HIDE DEF r
  <2>4. /\ Len(accepted') = n + 1 /\ accepted'[n + 1] = r
        /\ \A i \in 1 .. n : accepted'[i] = accepted[i]
    BY <1>1, <2>1, <2>2 DEF n
  <2>5. ASSUME NEW i \in 1 .. n + 1
        PROVE  accepted'[i].ts <= now
    <3>1. i = n + 1 \/ i \in 1 .. n
      BY <1>1
    <3> QED
      BY <1>1, <2>2, <2>4, <3>1
  <2>6. ASSUME NEW i \in 1 .. n + 1, NEW j \in 1 .. n + 1, i < j
        PROVE  accepted'[i].ts < accepted'[j].ts
    <3>1. i \in 1 .. n /\ (j = n + 1 \/ j \in 1 .. n)
      BY <1>1, <2>6
    <3> QED
      BY <1>1, <2>2, <2>4, <2>6, <3>1
  <2> QED
    BY <2>1, <2>3, <2>4, <2>5, <2>6 DEF TimesInv, InTimeOrder
<1>7. ASSUME NEW a \in Appenders, AppendRejected(a)
      PROVE  TimesInv'
  <2>1. appending' = [appending EXCEPT ![a] = NoRecord] /\ accepted' = accepted /\ now' = now
    BY <1>7 DEF AppendRejected
  <2>2. \A b \in Appenders : appending'[b] = appending[b] \/ appending'[b] = NoRecord
    <3>1. appending \in [Appenders -> Record \cup {NoRecord}]
      BY DEF Typed, TypeOK
    <3> QED
      BY <2>1, <3>1
  <2>3. now' \in Nat /\ now <= now'
    BY <1>1, <2>1
  <2> QED
    BY <1>2, <2>1, <2>2, <2>3
<1>8. CASE FlusherTake
  BY <1>3, <1>8 DEF FlusherTake, callVars
<1>9. CASE FlusherRoll
  BY <1>3, <1>9 DEF FlusherRoll, callVars
<1>10. CASE FlusherWrite
  BY <1>3, <1>10 DEF FlusherWrite, callVars
<1>11. CASE FlusherFlush
  BY <1>3, <1>11 DEF FlusherFlush, callVars
<1>12. CASE CloseStop
  BY <1>3, <1>12 DEF CloseStop
<1>13. CASE CloseJoin
  BY <1>3, <1>13 DEF CloseJoin
\* What a crash leaves is the beginning of what was accepted.
<1>14. CASE Crash
  <2> DEFINE all == OnDisk
             rest == stream \o (localQueue \o logQueue_)
  <2>1. accepted' = OnDisk /\ now' = now /\ \A a \in Appenders : appending'[a] = NoRecord
    BY <1>14 DEF Crash
  <2>2. all \in Seq(Record) /\ rest \in Seq(Record) /\ accepted = all \o rest
    BY RestOfLog
  <2> HIDE DEF all, rest
  <2>3. /\ Len(all) \in Nat /\ Len(all) <= n
        /\ \A i \in 1 .. Len(all) : i \in 1 .. n /\ all[i] = accepted[i]
    BY <2>2 DEF n
  <2>4. accepted' = all
    BY <2>1 DEF all
  <2> QED
    BY <1>1, <2>1, <2>3, <2>4 DEF TimesInv, InTimeOrder
<1>15. CASE Restart
  BY <1>3, <1>15 DEF Restart, callVars
<1>16. CASE UNCHANGED vars
  BY <1>3, <1>16 DEF vars
<1> QED
  BY <1>4, <1>5, <1>6, <1>7, <1>8, <1>9, <1>10, <1>11, <1>12, <1>13, <1>14, <1>15, <1>16
     DEF Next, Flusher

-----------------------------------------------------------------------------
(* Torn records.                                                           *)

LEMMA WholeConcat ==
  ASSUME NEW file \in Seq(Record \cup {Torn}), NEW recs \in Seq(Record), IsWhole(file)
  PROVE  IsWhole(file \o recs) /\ IsWholeButLast(file \o recs)
<1> DEFINE more == file \o recs
           m == Len(file)
           n == Len(recs)
<1>1. /\ m \in Nat /\ n \in Nat /\ Len(more) = m + n
      /\ \A i \in 1 .. m + n : more[i] = IF i <= m THEN file[i] ELSE recs[i - m]
  <2>1. recs \in Seq(Record \cup {Torn})
    OBVIOUS
  <2> QED
    BY <2>1
<1> HIDE DEF more
<1>2. ASSUME NEW i \in 1 .. m + n
      PROVE  more[i] # Torn
  <2>1. CASE i <= m
    <3>1. i \in 1 .. m
      BY <1>1, <2>1
    <3> QED
      BY <1>1, <2>1, <3>1 DEF IsWhole
  <2>2. CASE ~(i <= m)
    <3>1. i - m \in 1 .. n
      BY <1>1, <2>2
    <3>2. recs[i - m] \in Record
      BY <3>1
    <3> QED
      BY <1>1, <2>2, <3>2, TornAssumption
  <2> QED
    BY <2>1, <2>2
<1>3. IsWhole(more) /\ IsWholeButLast(more)
  BY <1>1, <1>2 DEF IsWhole, IsWholeButLast
<1> QED
  BY <1>3 DEF more

LEMMA WholeAppend ==
  ASSUME NEW file \in Seq(Record \cup {Torn}), IsWhole(file)
  PROVE  IsWholeButLast(Append(file, Torn))
<1>1. Len(file) \in Nat /\ Len(Append(file, Torn)) = Len(file) + 1
  OBVIOUS
<1>2. \A i \in 1 .. Len(file) : Append(file, Torn)[i] = file[i]
  OBVIOUS
<1> QED
  BY <1>1, <1>2 DEF IsWhole, IsWholeButLast

LEMMA NextTorn ==
  ASSUME ~ClockIsSetBack, ~RestartWithinSecond
  PROVE  Typed /\ FilesInv /\ TornInv /\ [Next]_vars => TornInv'
<1> SUFFICES ASSUME Typed, FilesInv, TornInv, [Next]_vars
             PROVE  TornInv'
  OBVIOUS
<1> DEFINE Bytes == Seq(Record \cup {Torn})
<1>1. /\ disk \in [Files -> Bytes] /\ logFilePath_ \in Files /\ FileName \in Files
      /\ stream \in Seq(Record) /\ localQueue \in Seq(Record)
      /\ \A f \in Files : IsWholeButLast(disk[f])
  BY FileNameIsTyped DEF Typed, TypeOK, TornInv
<1>2. TornInv' <=> /\ \A f \in Files : IsWholeButLast(disk'[f])
                   /\ Up' => IsWhole(disk'[logFilePath_'])
  BY DEF TornInv, Files, Second, IsWhole, IsWholeButLast
<1>3. Up => IsWhole(disk[logFilePath_])
  BY DEF TornInv
<1>4. IsWhole(<<>>)
  <2>1. Len(<<>>) = 0
    OBVIOUS
  <2> QED
    BY <2>1 DEF IsWhole
\* A step that writes nothing
<1>5. ASSUME UNCHANGED <<disk, logFilePath_>>, Up' => Up
      PROVE  TornInv'
  BY <1>1, <1>2, <1>3, <1>5
\* A step that writes whole records to the open file
<1>6. ASSUME NEW recs \in Seq(Record), disk' = [disk EXCEPT ![logFilePath_] = @ \o recs], Up
      PROVE  IsWhole(disk'[logFilePath_]) /\ \A f \in Files : IsWholeButLast(disk'[f])
  <2> DEFINE old == disk[logFilePath_]
  <2>1. old \in Bytes /\ IsWhole(old)
    BY <1>1, <1>3, <1>6
  <2>2. \A f \in Files : disk'[f] = IF f = logFilePath_ THEN old \o recs ELSE disk[f]
    BY <1>1, <1>6
  <2> HIDE DEF old
  <2>3. IsWhole(old \o recs) /\ IsWholeButLast(old \o recs)
    BY <2>1, WholeConcat
  <2> QED
    BY <1>1, <2>2, <2>3
<1>7. ASSUME NEW recs \in Seq(Record), disk' = [disk EXCEPT ![logFilePath_] = @ \o recs], Up,
             logFilePath_' = logFilePath_
      PROVE  TornInv'
  BY <1>2, <1>6, <1>7
<1>8. CASE Tick
  BY <1>5, <1>8 DEF Tick, fileVars, Up
<1>9. ASSUME NEW a \in Appenders, NEW k \in Keys, NEW v \in Values, AppendStamp(a, k, v)
      PROVE  TornInv'
  BY <1>5, <1>9 DEF AppendStamp, fileVars, Up
<1>10. ASSUME NEW a \in Appenders, AppendPush(a)
       PROVE  TornInv'
  BY <1>5, <1>10 DEF AppendPush, fileVars, Up
<1>11. ASSUME NEW a \in Appenders, AppendRejected(a)
       PROVE  TornInv'
  BY <1>5, <1>11 DEF AppendRejected, fileVars, Up
<1>12. CASE FlusherTake
  BY <1>5, <1>12 DEF FlusherTake, fileVars, Up
\* The new file is the open one, or one that nothing has been written to.
<1>13. CASE FlusherRoll
  <2>1. Up
    BY <1>13 DEF FlusherRoll, Up
  <2>2. CASE UNCHANGED fileVars
    BY <1>5, <2>1, <2>2 DEF fileVars
  <2>3. CASE disk' = Flushed /\ logFilePath_' = FileName
    <3>1. IsWhole(disk'[logFilePath_]) /\ \A f \in Files : IsWholeButLast(disk'[f])
      BY <1>1, <1>6, <2>1, <2>3 DEF Flushed
    <3>2. FileName # logFilePath_ => disk'[FileName] = <<>>
      <4>1. ASSUME FileName # logFilePath_
            PROVE  disk'[FileName] = <<>>
        <5>1. FileName > logFilePath_
          BY <1>1, <4>1 DEF FilesInv, FileName, Files
        <5> QED
          BY <1>1, <2>3, <4>1, <5>1 DEF Flushed, FilesInv
      <4> QED
        BY <4>1
    <3>3. IsWhole(disk'[logFilePath_'])
      BY <1>4, <2>3, <3>1, <3>2
    <3> QED
      BY <1>2, <3>1, <3>3
  <2> QED
    BY <1>13, <2>2, <2>3 DEF FlusherRoll, Opened
<1>14. CASE FlusherWrite
  <2> DEFINE buffered == Append(stream, Head(localQueue))
  <2>1. PICK n \in 0 .. Len(buffered) :
          disk' = [disk EXCEPT ![logFilePath_] = @ \o SubSeq(buffered, 1, n)]
    BY <1>14 DEF FlusherWrite
  <2>2. Up /\ logFilePath_' = logFilePath_ /\ localQueue # <<>>
    BY <1>14 DEF FlusherWrite, Up, Typed
  <2>3. buffered \in Seq(Record)
    BY <1>1, <2>2, HeadMoves
  <2> HIDE DEF buffered
  <2>4. SubSeq(buffered, 1, n) \in Seq(Record)
    BY <2>3, Divided
  <2> DEFINE written == SubSeq(buffered, 1, n)
  <2> HIDE DEF written
  <2>5. written \in Seq(Record) /\ disk' = [disk EXCEPT ![logFilePath_] = @ \o written]
    BY <2>1, <2>4 DEF written
  <2> QED
    BY <1>7, <2>2, <2>5
<1>15. CASE FlusherFlush
  BY <1>1, <1>7, <1>15 DEF FlusherFlush, Flushed, Up
<1>16. CASE CloseStop
  BY <1>5, <1>16 DEF CloseStop, fileVars, Up
<1>17. CASE CloseJoin
  BY <1>1, <1>7, <1>17 DEF CloseJoin, Flushed, Up
<1>18. CASE Crash
  <2>1. Up /\ ~Up'
    BY <1>18 DEF Crash, Up
  <2>2. disk' = disk \/ disk' = [disk EXCEPT ![logFilePath_] = Append(@, Torn)]
    BY <1>18 DEF Crash
  <2>3. ASSUME disk' = [disk EXCEPT ![logFilePath_] = Append(@, Torn)], NEW f \in Files
        PROVE  IsWholeButLast(disk'[f])
    <3>1. disk'[f] = IF f = logFilePath_ THEN Append(disk[f], Torn) ELSE disk[f]
      BY <1>1, <2>3
    <3>2. disk[f] \in Bytes /\ (f = logFilePath_ => IsWhole(disk[f]))
      BY <1>1, <1>3, <2>1
    <3>3. f = logFilePath_ => IsWholeButLast(Append(disk[f], Torn))
      BY <3>2, WholeAppend
    <3> QED
      BY <1>1, <3>1, <3>3
  <2> QED
    BY <1>1, <1>2, <2>1, <2>2, <2>3
\* A new process opens a file that nothing has been written to.
<1>19. CASE Restart
  <2>1. FileName > logFilePath_ /\ logFilePath_' = FileName /\ disk' = disk
    BY <1>19 DEF Restart, FileName
  <2>2. disk'[logFilePath_'] = <<>>
    BY <1>1, <2>1 DEF FilesInv
  <2> QED
    BY <1>1, <1>2, <1>4, <2>1, <2>2
<1>20. CASE UNCHANGED vars
  BY <1>5, <1>20 DEF vars, Up
<1> QED
  BY <1>8, <1>9, <1>10, <1>11, <1>12, <1>13, <1>14, <1>15, <1>16, <1>17, <1>18, <1>19, <1>20
     DEF Next, Flusher

LEMMA WhatIsLeft ==
  ASSUME OversizedValues \cap Values = {}, IInv, TimesInv, TornInv
  PROVE  RecoversPointInTime
<1> DEFINE n == Cardinality(Files)
           all == Contents(disk)
<1>1. disk \in [Files -> Seq(Record \cup {Torn})] /\ all \in Seq(Record) /\ OnDisk = all
  BY OnDiskIs, ContentsAreTyped DEF IInv, Typed, TypeOK
<1>2. InTimeOrder(all)
  <2> DEFINE rest == stream \o (localQueue \o logQueue_)
  <2>1. rest \in Seq(Record) /\ accepted = all \o rest
    BY <1>1, RestOfLog DEF IInv
  <2>2. Embedded(all, accepted) /\ accepted \in Seq(Record)
    <3> HIDE DEF rest, all
    <3>1. Embedded(all, all)
      BY <1>1, EmbeddedInConcat
    <3>2. Embedded(all, all \o rest) /\ all \o rest \in Seq(Record)
      BY <1>1, <2>1, <3>1, EmbeddedInConcat, Associative
    <3> QED
      BY <2>1, <3>2
  <2> HIDE DEF all
  <2> QED
    BY <1>1, <2>2, InOneFile DEF TimesInv
<1> HIDE DEF all
<1>3. ASSUME NEW maxTs \in 0 .. MaxTime, NEW files \in Orders, NEW k \in Keys
      PROVE  Collected(Delivered(files, maxTs), k) = Logged(OnDisk, k, maxTs)
  <2>1. PICK order \in [1 .. n -> Files] :
          /\ \A i, j \in DOMAIN order : i # j => order[i] # order[j]
          /\ files = [i \in 1 .. n |-> disk[order[i]]]
    BY DEF Orders
  <2>2. maxTs \in Nat
    OBVIOUS
  <2>3. Delivered(files, maxTs) \in Seq(Record) /\ Elements(Delivered(files, maxTs)) = Upto(all, maxTs)
    BY <1>1, <1>2, <2>1, <2>2, DeliveredAre DEF TornInv, all
  <2> QED
    BY <1>1, <1>2, <2>2, <2>3, RecoveryIsRight
<1> QED
  BY <1>3 DEF RecoversPointInTime

-----------------------------------------------------------------------------
(* The theorems.                                                           *)

\* The variables keep their types, whatever the clock does: append, the
\* flusher and a crash put only records, and torn ones, where they belong.
THEOREM TypeCorrect == Spec => []TypeOK
<1>1. Init => Typed
  BY InitTyped
<1>2. Typed /\ [Next]_vars => Typed'
  BY NextTyped
<1>3. Typed => TypeOK
  BY DEF Typed
<1> QED
  BY <1>1, <1>2, <1>3, PTL DEF Spec

LEMMA Inductive ==
  ASSUME ~ClockIsSetBack
  PROVE  Spec => []IInv
<1>1. Init => IInv
  BY InitTyped, InitFlusher, InitFiles, InitOrder DEF IInv
<1>2. IInv /\ [Next]_vars => IInv'
  <2> SUFFICES ASSUME IInv, [Next]_vars
               PROVE  IInv'
    OBVIOUS
  <2>1. Typed'
    BY NextTyped DEF IInv
  <2>2. FlusherInv'
    BY NextFlusher DEF IInv
  <2>3. FilesInv'
    BY NextFiles DEF IInv
  <2>4. LogInOrder'
    BY <2>1, NextOrder
  <2> QED
    BY <2>1, <2>2, <2>3, <2>4 DEF IInv
<1> QED
  BY <1>1, <1>2, PTL DEF Spec

\* While the clock is not set back, nothing is lost, duplicated or reordered
\* between append and the files, through any number of rolls, crashes and
\* restarts, and however the stream's buffer is emptied.
THEOREM InOrder ==
  ASSUME ~ClockIsSetBack
  PROVE  Spec => []LogInOrder
<1>1. IInv => LogInOrder
  BY DEF IInv
<1> QED
  BY <1>1, Inductive, PTL

\* While the clock is not set back, close returns with every accepted record
\* on disk, one that append accepted just before the stop flag was set too.
THEOREM Drains ==
  ASSUME ~ClockIsSetBack
  PROVE  Spec => []CloseDrains
<1>1. IInv => CloseDrains
  <2> SUFFICES ASSUME IInv, closing = "closed"
               PROVE  accepted = OnDisk
    BY DEF CloseDrains
  <2>1. stream = <<>> /\ localQueue = <<>> /\ logQueue_ = <<>>
    BY DEF IInv, FlusherInv
  <2>2. OnDisk \in Seq(Record)
    BY OnDiskIs, ContentsAreTyped DEF IInv, Typed, TypeOK
  <2>3. OnDisk \o <<>> = OnDisk
    BY <2>2, ConcatEmptySeq
  <2> QED
    BY <2>1, <2>3 DEF IInv, LogInOrder
<1> QED
  BY <1>1, Inductive, PTL

\* A crash tears at most the last record of the file that is open, and the
\* server opens another one when it is started again: whatever the number of
\* crashes, and in whatever order the directory lists the files, recovery to a
\* timestamp finds for every key the last value recorded up to it.  It does so
\* for the log of one appender (the engine appends under its exclusive lock)
\* with distinct timestamps and readable values, and a clock that is not set
\* back nor still in the second of the crash: Wal_oversized, Wal_clock_back and
\* Wal_restart show what becomes of it without.
THEOREM PointInTime ==
  ASSUME ~ClockIsSetBack, ~RestartWithinSecond, DistinctTimes, OneAppender,
         OversizedValues \cap Values = {}
  PROVE  Spec => []RecoversPointInTime
<1> DEFINE Inv == TimesInv /\ TornInv
<1>1. Init => Inv
  BY InitTimes
<1>2. IInv /\ Inv /\ [Next]_vars => Inv'
  BY NextTimes, NextTorn DEF IInv
<1>3. IInv /\ Inv => RecoversPointInTime
  BY WhatIsLeft
<1> QED
  BY <1>1, <1>2, <1>3, Inductive, PTL DEF Spec
=============================================================================
