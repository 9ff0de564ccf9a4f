------------------------- MODULE SubsFilterRefinement -------------------------
(***************************************************************************)
(* The substitution filter implements SubsContract, step by step: whatever *)
(* the pieces in which the body comes and goes, what the client has got is *)
(* a beginning of what the contract owes it, and all of it in the end.     *)
(***************************************************************************)
EXTENDS SubsFilterProofs, FiniteSetTheorems

-------------------------------------------------------------------------------
(* What is on its way                                                       *)

\* The bytes in the buffers of q.
Flight(q, m) == FlattenSeq([i \in DOMAIN q |-> m[q[i]]])

\* A queue, and the memory that holds its buffers.
Queue(N, q, m) == N \in Nat /\ q \in Seq(0 .. N) /\ m \in [0 .. N -> Seq(Byte)]

\* What a queue without buffers holds.
LEMMA FlightEmpty == ASSUME NEW m PROVE Flight(<<>>, m) = <<>>
<1>1. [i \in DOMAIN <<>> |-> m[<<>>[i]]] = <<>>
  OBVIOUS
<1>2. FlattenSeq(<<>>) = <<>>
  BY DEF FlattenSeq
<1> QED BY <1>1, <1>2 DEF Flight

\* The texts in the buffers of a queue.
LEMMA PartsOf ==
    ASSUME NEW N, NEW q, NEW m, Queue(N, q, m)
    PROVE  /\ Len(q) \in Nat /\ DOMAIN q = 1 .. Len(q) /\ \A i \in 1 .. Len(q) : q[i] \in 0 .. N
           /\ [i \in DOMAIN q |-> m[q[i]]] \in [1 .. Len(q) -> Seq(Byte)]
<1>1. Len(q) \in Nat /\ DOMAIN q = 1 .. Len(q) /\ \A i \in 1 .. Len(q) : q[i] \in 0 .. N
  BY SeqIs DEF Queue
<1> QED BY <1>1 DEF Queue

\* What is in a queue is a text.
LEMMA FlightType ==
    ASSUME NEW N, NEW q, NEW m, Queue(N, q, m)
    PROVE  Flight(q, m) \in Seq(Byte)
<1> DEFINE f == [i \in DOMAIN q |-> m[q[i]]]
<1>1. Len(q) \in Nat /\ f \in [1 .. Len(q) -> Seq(Byte)]
  BY PartsOf
<1> HIDE DEF f
<1>2. FlattenSeq(f) \in Seq(Byte)
  BY <1>1, Flattened
<1> QED BY <1>2 DEF Flight, f

\* A buffer more.
LEMMA FlightAppend ==
    ASSUME NEW N, NEW q, NEW m, Queue(N, q, m), NEW b \in 0 .. N
    PROVE  Flight(Append(q, b), m) = Flight(q, m) \o m[b]
<1> DEFINE n == Len(q)
           e == Append(q, b)
           f == [i \in DOMAIN q |-> m[q[i]]]
           h == [i \in DOMAIN e |-> m[e[i]]]
<1>1. n \in Nat /\ DOMAIN q = 1 .. n /\ f \in [1 .. n -> Seq(Byte)]
  BY PartsOf
<1>2. e \in Seq(0 .. N) /\ Len(e) = n + 1 /\ e[n + 1] = b /\ \A i \in 1 .. n : e[i] = q[i]
  BY DEF Queue
<1> HIDE DEF e
<1>3. DOMAIN e = 1 .. n + 1 /\ h \in [1 .. n + 1 -> Seq(Byte)]
  <2>1. Queue(N, e, m)
    BY <1>2 DEF Queue
  <2> QED BY <1>2, <2>1, PartsOf
<1>4. \A i \in 1 .. n : h[i] = f[i]
  BY <1>1, <1>2, <1>3
<1>5. h[n + 1] = m[b]
  BY <1>1, <1>2, <1>3
<1> HIDE DEF f, h, n
<1>6. FlattenSeq(h) = FlattenSeq(f) \o h[n + 1]
  BY <1>1, <1>3, <1>4, FlattenedOneMore
<1> QED BY <1>5, <1>6 DEF Flight, f, h, e

\* Joining and adding at the end.
LEMMA JoinAppend ==
    ASSUME NEW S, NEW s \in Seq(S), NEW t \in Seq(S), NEW x \in S
    PROVE  s \o Append(t, x) = Append(s \o t, x)
<1> DEFINE a == s \o Append(t, x)
           b == Append(s \o t, x)
           n == Len(s) + Len(t) + 1
<1>1. Len(s) \in Nat /\ Len(t) \in Nat /\ n \in Nat
  OBVIOUS
<1>2. a \in Seq(S) /\ b \in Seq(S) /\ Len(a) = n /\ Len(b) = n
  OBVIOUS
<1>3. ASSUME NEW i \in 1 .. n PROVE a[i] = b[i]
  OBVIOUS
<1> HIDE DEF a, b, n
<1>4. a = b
  BY <1>1, <1>2, <1>3
<1> QED BY <1>4 DEF a, b

\* What is in two queues, one behind the other.
LEMMA FlightJoin ==
    ASSUME NEW N, NEW q, NEW m, Queue(N, q, m), NEW r \in Seq(0 .. N)
    PROVE  q \o r \in Seq(0 .. N) /\ Flight(q \o r, m) = Flight(q, m) \o Flight(r, m)
<1> DEFINE S == 0 .. N
           G == {s \in Seq(S) : q \o s \in Seq(S) /\ Flight(q \o s, m) = Flight(q, m) \o Flight(s, m)}
<1>1. <<>> \in G
  <2>1. q \o <<>> = q /\ q \in Seq(S) /\ <<>> \in Seq(S)
    BY DEF Queue
  <2>2. Flight(q, m) \o <<>> = Flight(q, m)
    BY FlightType
  <2> QED BY <2>1, <2>2, FlightEmpty
<1>2. ASSUME NEW s \in Seq(S), NEW x \in S, s \in G PROVE Append(s, x) \in G
  <2>1. q \o s \in Seq(S) /\ Flight(q \o s, m) = Flight(q, m) \o Flight(s, m)
    BY <1>2
  <2>2. Queue(N, q \o s, m) /\ Queue(N, s, m)
    BY <2>1 DEF Queue
  <2>3. Flight(Append(q \o s, x), m) = Flight(q \o s, m) \o m[x]
    BY <2>2, FlightAppend
  <2>4. Flight(Append(s, x), m) = Flight(s, m) \o m[x]
    BY <2>2, FlightAppend
  <2>5. q \o Append(s, x) = Append(q \o s, x)
    <3> HIDE DEF S
    <3>1. q \in Seq(S)
      BY DEF Queue, S
    <3> QED BY <3>1, JoinAppend
  <2>6. Append(s, x) \in Seq(S) /\ Append(q \o s, x) \in Seq(S)
    BY <2>1
  <2>8. (Flight(q, m) \o Flight(s, m)) \o m[x] = Flight(q, m) \o (Flight(s, m) \o m[x])
    <3> DEFINE a == Flight(q, m)
               b == Flight(s, m)
               c == m[x]
    <3>1. Three(Byte, a, b, c)
      BY <2>2, FlightType DEF Three, Queue
    <3> HIDE DEF a, b, c
    <3>2. (a \o b) \o c = a \o (b \o c)
      BY <3>1, JoinJoin
    <3> QED BY <3>2 DEF a, b, c
  <2> QED BY <2>1, <2>3, <2>4, <2>5, <2>6, <2>8
<1> HIDE DEF G
<1>3. r \in G
  BY <1>1, <1>2, SequenceInduction
<1> QED BY <1>3 DEF G

\* What is in a queue depends on its buffers only.
LEMMA FlightSame ==
    ASSUME NEW q, NEW m, NEW k, \A b \in ToSet(q) : m[b] = k[b]
    PROVE  Flight(q, m) = Flight(q, k)
<1>1. \A i \in DOMAIN q : m[q[i]] = k[q[i]]
  BY DEF ToSet
<1>2. [i \in DOMAIN q |-> m[q[i]]] = [i \in DOMAIN q |-> k[q[i]]]
  BY <1>1
<1> QED BY <1>2 DEF Flight

\* Buffers without bytes hold none.
LEMMA UnsentFlight ==
    ASSUME NEW N, NEW q, NEW m, Queue(N, q, m)
    PROVE  Unsent(q, m) \in Seq(0 .. N) /\ Flight(Unsent(q, m), m) = Flight(q, m)
<1> DEFINE S == 0 .. N
           n == Len(q)
           f == [i \in DOMAIN q |-> m[q[i]]]
<1>1. n \in Nat /\ DOMAIN q = 1 .. n /\ f \in [1 .. n -> Seq(Byte)] /\ \A i \in 1 .. n : q[i] \in S
  BY PartsOf
<1>2. PICK r : Keeps(r, S, q, m)
  BY UnsentSteps DEF Queue
<1>3. PICK g : Rows(Byte, g, f, n) /\ FlattenSeq(f) = g[n]
  <2> HIDE DEF f
  <2> QED BY <1>1, FlattenRows
<1> DEFINE Good == {k \in Nat : k =< n => Flight(r[k], m) = g[k]}
<1>4. 0 \in Good
  BY <1>2, <1>3, FlightEmpty DEF Keeps, Rows
<1>5. ASSUME NEW k \in Nat, k \in Good PROVE k + 1 \in Good
  <2> DEFINE i == k + 1
  <2> SUFFICES ASSUME i =< n PROVE Flight(r[i], m) = g[i]
    OBVIOUS
  <2>1. i \in 1 .. n /\ i - 1 = k /\ k =< n /\ k \in 0 .. n
    OBVIOUS
  <2> HIDE DEF i
  <2>2. Flight(r[k], m) = g[k]
    BY <1>5, <2>1
  <2>3. r[k] \in Seq(S) /\ r[i] = IF m[q[i]] = <<>> THEN r[k] ELSE Append(r[k], q[i])
    BY <1>2, <2>1 DEF Keeps
  <2>4. g[k] \in Seq(Byte) /\ g[i] = g[k] \o m[q[i]]
    BY <1>1, <1>3, <2>1 DEF Rows
  <2>5. CASE m[q[i]] = <<>>
    <3>1. g[k] \o <<>> = g[k]
      BY <2>4
    <3> QED BY <2>2, <2>3, <2>4, <2>5, <3>1
  <2>6. CASE m[q[i]] # <<>>
    <3>1. Queue(N, r[k], m) /\ q[i] \in S
      BY <1>1, <2>1, <2>3 DEF Queue
    <3>2. Flight(Append(r[k], q[i]), m) = Flight(r[k], m) \o m[q[i]]
      <4> DEFINE a == r[k]
                 b == q[i]
      <4>1. Queue(N, a, m) /\ b \in 0 .. N
        BY <3>1
      <4> HIDE DEF a, b
      <4>2. Flight(Append(a, b), m) = Flight(a, m) \o m[b]
        BY <4>1, FlightAppend
      <4> QED BY <4>2 DEF a, b
    <3> QED BY <2>2, <2>3, <2>4, <2>6, <3>2
  <2> QED BY <2>5, <2>6
<1> HIDE DEF Good
<1>6. n \in Good
  BY <1>1, <1>4, <1>5, Induction
<1>7. Flight(r[n], m) = g[n]
  BY <1>1, <1>6 DEF Good
<1>8. Unsent(q, m) = r[n] /\ r[n] \in Seq(S)
  BY <1>1, <1>2 DEF Keeps
<1> QED BY <1>3, <1>7, <1>8 DEF Flight

\* Sequences with the same elements are the same.
LEMMA SameSeq ==
    ASSUME NEW S, NEW s \in Seq(S), NEW t \in Seq(S), Len(s) = Len(t),
           \A i \in 1 .. Len(s) : s[i] = t[i]
    PROVE  s = t
OBVIOUS

\* What two sequences joined are.
LEMMA JoinedIs ==
    ASSUME NEW S, NEW s \in Seq(S), NEW t \in Seq(S)
    PROVE  /\ s \o t \in Seq(S) /\ Len(s \o t) = Len(s) + Len(t)
           /\ \A i \in 1 .. Len(s) : (s \o t)[i] = s[i]
           /\ \A i \in 1 .. Len(t) : (s \o t)[Len(s) + i] = t[i]
OBVIOUS

\* A part of a sequence.
LEMMA PartIs ==
    ASSUME NEW S, NEW s \in Seq(S), NEW b \in 0 .. Len(s), NEW a \in 0 .. b
    PROVE  /\ SubSeq(s, a + 1, b) \in Seq(S) /\ Len(SubSeq(s, a + 1, b)) = b - a
           /\ \A i \in 1 .. b - a : SubSeq(s, a + 1, b)[i] = s[a + i]
<1>1. \A i \in a + 1 .. b : s[i] \in S
  BY SeqIs
<1> QED BY <1>1, SubSeqProperties

\* What is left of a text after k bytes of it have been sent.
Left(t, k) == IF k <= 0 THEN t ELSE SubSeq(t, k + 1, Len(t))

\* What is left of two texts, one behind the other, behind the k-th byte.
LEMMA TailJoin ==
    ASSUME NEW S, NEW s \in Seq(S), NEW t \in Seq(S), NEW k \in Nat
    PROVE  SubSeq(s \o t, k + 1, Len(s \o t)) =
             SubSeq(s, k + 1, Len(s)) \o Left(t, k - Len(s))
<1> DEFINE m == Len(s)
           n == Len(t)
           st == s \o t
           a == SubSeq(st, k + 1, m + n)
           b == SubSeq(s, k + 1, m)
           c == SubSeq(t, k - m + 1, n)
           o == IF k =< m + n THEN m + n - k ELSE 0
<1>1. m \in Nat /\ n \in Nat /\ o \in Nat /\ k \in Nat
  OBVIOUS
<1>2. /\ st \in Seq(S) /\ Len(st) = m + n
      /\ \A i \in 1 .. m : st[i] = s[i]
      /\ \A i \in 1 .. n : st[m + i] = t[i]
  OBVIOUS
<1> HIDE DEF st
<1>3. a \in Seq(S) /\ Len(a) = o /\ \A i \in 1 .. o : a[i] = st[k + i]
  <2>1. \A i \in k + 1 .. m + n : st[i] \in S
    BY <1>1, <1>2, SeqIs
  <2> QED BY <1>1, <1>2, <2>1, SubSeqProperties
<1>4. CASE k =< m
  <2>1. b \in Seq(S) /\ Len(b) = m - k /\ \A i \in 1 .. m - k : b[i] = s[k + i]
    <3>1. \A i \in k + 1 .. m : s[i] \in S
      BY <1>1, SeqIs
    <3> QED BY <1>1, <1>4, <3>1, SubSeqProperties
  <2> DEFINE d == b \o t
  <2> HIDE DEF a, b
  <2>2. /\ d \in Seq(S) /\ Len(d) = o
        /\ \A i \in 1 .. m - k : d[i] = b[i]
        /\ \A i \in 1 .. n : d[(m - k) + i] = t[i]
    <3>1. /\ b \o t \in Seq(S) /\ Len(b \o t) = Len(b) + n
          /\ \A i \in 1 .. Len(b) : (b \o t)[i] = b[i]
          /\ \A i \in 1 .. n : (b \o t)[Len(b) + i] = t[i]
      <4>1. b \in Seq(S) /\ t \in Seq(S)
        BY <2>1
      <4> QED BY <4>1, JoinedIs
    <3>2. (m - k) + n = o
      BY <1>1, <1>4
    <3> HIDE DEF o, m, n
    <3> QED BY <2>1, <3>1, <3>2
  <2>3. ASSUME NEW i \in 1 .. o PROVE a[i] = d[i]
    <3>1. CASE i =< m - k
      <4>1. i \in 1 .. m - k /\ k + i \in 1 .. m
        BY <1>1, <1>4, <3>1
      <4>2. d[i] = b[i]
        BY <2>2, <4>1
      <4> QED BY <1>2, <1>3, <2>1, <4>1, <4>2
    <3>2. CASE ~ (i =< m - k)
      <4>1. i - (m - k) \in 1 .. n /\ k + i = m + (i - (m - k))
        BY <1>1, <1>4, <3>2
      <4>2. d[i] = t[i - (m - k)]
        <5>1. i = (m - k) + (i - (m - k))
          BY <1>1
        <5> QED BY <2>2, <4>1, <5>1
      <4>3. st[m + (i - (m - k))] = t[i - (m - k)]
        BY <1>2, <4>1
      <4> QED BY <1>3, <4>1, <4>2, <4>3
    <3> QED BY <3>1, <3>2
  <2> HIDE DEF d
  <2>4. a = d
    <3> HIDE DEF o
    <3> QED BY <1>3, <2>2, <2>3, SameSeq
  <2>5. k - m <= 0
    BY <1>1, <1>4
  <2> QED BY <1>2, <2>4, <2>5 DEF a, b, d, st, Left
<1>5. CASE ~ (k =< m)
  <2>1. b = <<>>
    BY <1>1, <1>5, SubSeqEmpty
  <2>2. c \in Seq(S) /\ Len(c) = o /\ \A i \in 1 .. o : c[i] = t[(k - m) + i]
    <3>1. \A i \in k - m + 1 .. n : t[i] \in S
      BY <1>1, <1>5, SeqIs
    <3> QED BY <1>1, <1>5, <3>1, SubSeqProperties
  <2> HIDE DEF a, b, c
  <2>3. ASSUME NEW i \in 1 .. o PROVE a[i] = c[i]
    <3>1. (k - m) + i \in 1 .. n /\ k + i = m + ((k - m) + i)
      BY <1>1, <1>5
    <3>2. st[m + ((k - m) + i)] = t[(k - m) + i]
      BY <1>2, <3>1
    <3> QED BY <1>3, <2>2, <3>1, <3>2
  <2>4. a = c
    <3> HIDE DEF o
    <3> QED BY <1>3, <2>2, <2>3, SameSeq
  <2>5. <<>> \o c = c
    BY <2>2
  <2>6. ~ (k - m <= 0)
    BY <1>1, <1>5
  <2> QED BY <1>2, <2>1, <2>4, <2>5, <2>6 DEF a, b, c, st, Left
<1> QED BY <1>4, <1>5

\* Rows of the same texts are the same.
LEMMA RowsSame ==
    ASSUME NEW S, NEW g, NEW f, NEW n \in Nat, Rows(S, g, f, n),
           NEW h, NEW e, NEW j \in 0 .. n, Rows(S, h, e, j), \A i \in 1 .. j : e[i] = f[i]
    PROVE  h[j] = g[j]
<1> DEFINE Same == {m \in Nat : m =< j => h[m] = g[m]}
<1>1. 0 \in Same
  BY DEF Rows
<1>2. ASSUME NEW m \in Nat, m \in Same PROVE m + 1 \in Same
  <2> DEFINE i == m + 1
  <2> SUFFICES ASSUME i =< j PROVE h[i] = g[i]
    OBVIOUS
  <2>1. i \in 1 .. j /\ i \in 1 .. n /\ i - 1 = m /\ m =< j
    OBVIOUS
  <2> HIDE DEF i
  <2>2. h[i] = h[m] \o e[i] /\ g[i] = g[m] \o f[i]
    BY <2>1 DEF Rows
  <2>3. h[m] = g[m]
    BY <1>2, <2>1
  <2> QED BY <2>1, <2>2, <2>3
<1> HIDE DEF Same
<1>3. j \in Same
  BY <1>1, <1>2, Induction
<1> QED BY <1>3 DEF Same

\* The rows of what is in a queue.
QueueRows(q, m, g) == Rows(Byte, g, [j \in DOMAIN q |-> m[q[j]]], Len(q))

\* How many bytes are before the i-th buffer.
LEMMA BeforeIs ==
    ASSUME NEW N, NEW q, NEW m, Queue(N, q, m), NEW g, QueueRows(q, m, g),
           NEW i \in 1 .. Len(q)
    PROVE  Before(q, m, i) = Len(g[i - 1])
<1> DEFINE n == Len(q)
           f == [j \in DOMAIN q |-> m[q[j]]]
           e == [j \in 1 .. i - 1 |-> m[q[j]]]
<1>1. n \in Nat /\ DOMAIN q = 1 .. n /\ f \in [1 .. n -> Seq(Byte)]
  BY PartsOf
<1>2. i - 1 \in Nat /\ i - 1 \in 0 .. n /\ \A j \in 1 .. i - 1 : j \in 1 .. n
  BY <1>1
<1>3. \A j \in 1 .. i - 1 : e[j] = f[j]
  BY <1>1, <1>2
<1>4. e \in [1 .. i - 1 -> Seq(Byte)]
  BY <1>1, <1>2 DEF Queue
<1>5. Rows(Byte, g, f, n)
  BY DEF QueueRows
<1> HIDE DEF e, f, n
<1> DEFINE j == i - 1
<1> HIDE DEF j
<1>6. PICK h : Rows(Byte, h, e, j) /\ FlattenSeq(e) = h[j]
  BY <1>2, <1>4, FlattenRows DEF j
<1>7. h[j] = g[j]
  BY <1>1, <1>2, <1>3, <1>5, <1>6, RowsSame DEF j
<1> QED BY <1>6, <1>7 DEF Before, e, j

\* What a buffer of the queue holds after k bytes of it have been sent.
LEMMA DrainedAt ==
    ASSUME NEW N, NEW q, NEW m, Queue(N, q, m), IsInjective(q), NEW k \in Nat,
           NEW g, QueueRows(q, m, g), NEW i \in 1 .. Len(q)
    PROVE  Drained(q, m, k)[q[i]] = Left(m[q[i]], k - Len(g[i - 1]))
<1> DEFINE b == q[i]
           I == {j \in 1 .. Len(q) : q[j] = b}
           at == SelectInSeq(q, LAMBDA c : c = b)
<1>1. Len(q) \in Nat /\ DOMAIN q = 1 .. Len(q) /\ b \in 0 .. N /\ DOMAIN m = 0 .. N
  BY PartsOf DEF Queue
<1>2. I = {i}
  BY <1>1 DEF IsInjective
<1>3. at = IF I # {} THEN Min(I) ELSE 0
  BY Zenon DEF SelectInSeq
<1>4. at = i
  <2>1. I \in SUBSET Nat /\ I # {}
    BY <1>1, <1>2
  <2> HIDE DEF I, at
  <2>2. Min(I) \in I
    BY <2>1, MinIn
  <2> QED BY <1>2, <1>3, <2>1, <2>2
<1>5. Drained(q, m, k)[b] = IF at = 0 \/ k - Before(q, m, at) <= 0 THEN m[b]
                            ELSE SubSeq(m[b], k - Before(q, m, at) + 1, Len(m[b]))
  <2> HIDE DEF b
  <2> QED BY <1>1 DEF Drained
<1>6. Before(q, m, i) = Len(g[i - 1])
  BY BeforeIs
<1>7. i # 0
  BY <1>1
<1> HIDE DEF at, b
<1> QED BY <1>4, <1>5, <1>6, <1>7 DEF b, Left

\* What is sent are the first bytes of the queue.
LEMMA DrainedFlight ==
    ASSUME NEW N, NEW q, NEW m, Queue(N, q, m), IsInjective(q), NEW k \in Nat
    PROVE  /\ Queue(N, q, Drained(q, m, k))
           /\ Flight(q, Drained(q, m, k)) = SubSeq(Flight(q, m), k + 1, Len(Flight(q, m)))
<1> DEFINE n == Len(q)
           d == Drained(q, m, k)
           f == [j \in DOMAIN q |-> m[q[j]]]
           e == [j \in DOMAIN q |-> d[q[j]]]
           rest(s) == SubSeq(s, k + 1, Len(s))
<1>1. n \in Nat /\ DOMAIN q = 1 .. n /\ f \in [1 .. n -> Seq(Byte)]
  BY PartsOf
<1>2. Queue(N, q, d)
  BY DrainedType DEF Queue
<1>3. e \in [1 .. n -> Seq(Byte)]
  <2> HIDE DEF d
  <2> QED BY <1>2, PartsOf
<1>4. \A i \in 1 .. n : f[i] = m[q[i]] /\ e[i] = d[q[i]]
  BY <1>1
<1> HIDE DEF e, f
<1>5. PICK g : Rows(Byte, g, f, n) /\ FlattenSeq(f) = g[n]
  BY <1>1, FlattenRows
<1>6. PICK h : Rows(Byte, h, e, n) /\ FlattenSeq(e) = h[n]
  BY <1>1, <1>3, FlattenRows
<1>7. ASSUME NEW i \in 1 .. n
      PROVE  e[i] = Left(f[i], k - Len(g[i - 1]))
  <2>1. d[q[i]] = Left(m[q[i]], k - Len(g[i - 1]))
    <3>1. QueueRows(q, m, g)
      BY <1>5 DEF f, QueueRows
    <3> HIDE DEF d
    <3> QED BY <3>1, DrainedAt DEF d
  <2> HIDE DEF d
  <2> QED BY <1>4, <2>1
<1> HIDE DEF d, n
<1> DEFINE Good == {j \in Nat : j =< n => h[j] = rest(g[j])}
<1>8. 0 \in Good
  <2>1. g[0] = <<>> /\ h[0] = <<>>
    BY <1>5, <1>6 DEF Rows
  <2>2. SubSeq(<<>>, k + 1, Len(<<>>)) = <<>>
    BY SubSeqEmpty
  <2> QED BY <2>1, <2>2
<1>9. ASSUME NEW j \in Nat, j \in Good PROVE j + 1 \in Good
  <2> DEFINE i == j + 1
  <2> SUFFICES ASSUME i =< n PROVE h[i] = rest(g[i])
    OBVIOUS
  <2>1. i \in 1 .. n /\ i - 1 = j /\ j =< n /\ j \in 0 .. n
    BY <1>1
  <2> HIDE DEF i
  <2>2. h[j] = rest(g[j])
    BY <1>9, <2>1
  <2>3. g[j] \in Seq(Byte) /\ g[i] = g[j] \o f[i] /\ f[i] \in Seq(Byte)
    BY <1>1, <1>5, <2>1 DEF Rows
  <2>4. h[i] = h[j] \o e[i]
    BY <1>6, <2>1 DEF Rows
  <2> DEFINE s == g[j]
             t == f[i]
  <2>5. e[i] = Left(t, k - Len(s))
    BY <1>7, <2>1
  <2>6. s \in Seq(Byte) /\ t \in Seq(Byte)
    BY <2>3
  <2> HIDE DEF s, t
  <2>7. rest(s \o t) = rest(s) \o Left(t, k - Len(s))
    BY <2>6, TailJoin
  <2> HIDE DEF rest
  <2> QED BY <2>2, <2>3, <2>4, <2>5, <2>7 DEF s, t
<1> HIDE DEF Good
<1>10. n \in Good
  BY <1>1, <1>8, <1>9, Induction
<1>11. h[n] = rest(g[n])
  BY <1>1, <1>10 DEF Good
<1> HIDE DEF rest
<1>12. Flight(q, d) = rest(Flight(q, m))
  BY <1>5, <1>6, <1>11 DEF Flight, e, f
<1> QED BY <1>2, <1>12 DEF d, rest

\* A text is what the buffers hold that it fills.
LEMMA PiecesFlight ==
    ASSUME NEW text \in Seq(Byte)
    PROVE  FlattenSeq(Pieces(text)) = text
<1> DEFINE n == Len(text)
           B == BufSize
           num == (n + B - 1) \div B
           at == [i \in 0 .. num |-> IF i * B =< n THEN i * B ELSE n]
           f == Pieces(text)
<1>2. n \in Nat /\ B \in Nat \ {0}
  BY SizeAssumption
<1>3. num \in Nat /\ n =< num * B /\ \A i \in 1 .. num : (i - 1) * B < n
  BY <1>2, BuffersNeeded
<1>4. f = [i \in 1 .. num |-> SubSeq(text, (i - 1) * B + 1, Min({i * B, n}))]
  BY DEF Pieces
<1> HIDE DEF n, B, num, f
<1>5. ASSUME NEW i \in 1 .. num
      PROVE  at[i - 1] =< at[i] /\ f[i] = SubSeq(text, at[i - 1] + 1, at[i])
  <2>1. i * B \in Nat /\ (i - 1) * B \in Nat /\ i * B = (i - 1) * B + B /\ (i - 1) * B < n
    BY <1>2, <1>3
  <2>2. i - 1 \in 0 .. num /\ i \in 0 .. num
    BY <1>3
  <2>3. at[i - 1] = (i - 1) * B
    BY <1>2, <2>1, <2>2
  <2>4. at[i] = IF i * B =< n THEN i * B ELSE n
    BY <2>2
  <2>5. Min({i * B, n}) = at[i]
    <3> DEFINE a == i * B
    <3>1. a \in Nat
      BY <2>1
    <3> HIDE DEF a
    <3>2. Min({a, n}) = IF a =< n THEN a ELSE n
      BY <1>2, <3>1, Smaller
    <3> HIDE DEF at
    <3> QED BY <2>4, <3>2 DEF a
  <2>6. f[i] = SubSeq(text, (i - 1) * B + 1, Min({i * B, n}))
    BY <1>4
  <2> DEFINE a == (i - 1) * B
             b == i * B
  <2>7. a \in Nat /\ b \in Nat /\ b = a + B /\ a < n
    BY <2>1
  <2> HIDE DEF at, a, b
  <2>8. at[i - 1] =< at[i]
    BY <1>2, <2>3, <2>4, <2>7 DEF a, b
  <2>9. f[i] = SubSeq(text, at[i - 1] + 1, at[i])
    BY <2>3, <2>5, <2>6, Zenon
  <2> QED BY <2>8, <2>9
<1>6. at \in [0 .. num -> 0 .. n] /\ at[0] = 0 /\ at[num] = n
  <2>1. \A i \in 0 .. num : i * B \in Nat
    BY <1>2, <1>3
  <2>2. 0 * B = 0
    BY <1>2
  <2> QED BY <1>2, <1>3, <2>1, <2>2
<1> HIDE DEF at
<1>7. f \in [1 .. num -> Seq(Byte)]
  <2>1. f \in Seq(Seq(Byte))
    BY PiecesType DEF f
  <2>2. DOMAIN f = 1 .. num
    BY <1>4
  <2>3. \A i \in DOMAIN f : f[i] \in Seq(Byte)
    BY <2>1
  <2>4. f = [i \in 1 .. num |-> f[i]]
    BY <1>4, <2>2
  <2> HIDE DEF Pieces
  <2> QED BY <2>2, <2>3, <2>4
<1>8. Cuts(Byte, text, num, at, f)
  BY <1>2, <1>3, <1>5, <1>6, <1>7 DEF Cuts, n
<1> QED BY <1>8, FlattenedPieces DEF f

\* Leaving buffers out, none comes twice that did not before.
LEMMA UnsentOnce ==
    ASSUME NEW S, NEW q \in Seq(S), NEW m, IsInjective(q)
    PROVE  IsInjective(Unsent(q, m))
<1> DEFINE n == Len(q)
<1>1. n \in Nat /\ DOMAIN q = 1 .. n /\ \A i \in 1 .. n : q[i] \in S
  BY SeqIs
<1>2. PICK r : Keeps(r, S, q, m)
  BY UnsentSteps
<1> HIDE DEF n
<1> DEFINE Good == {k \in Nat : k =< n => /\ IsInjective(r[k])
                                          /\ \A x \in ToSet(r[k]) : \E j \in 1 .. k : q[j] = x}
<1>3. 0 \in Good
  <2>1. r[0] = <<>>
    BY <1>2 DEF Keeps
  <2> QED BY <2>1 DEF IsInjective, ToSet
<1>4. ASSUME NEW k \in Nat, k \in Good PROVE k + 1 \in Good
  <2> DEFINE i == k + 1
  <2> SUFFICES ASSUME i =< n
               PROVE  IsInjective(r[i]) /\ \A x \in ToSet(r[i]) : \E j \in 1 .. i : q[j] = x
    OBVIOUS
  <2>1. i \in 1 .. n /\ i - 1 = k /\ k =< n /\ k \in 0 .. n /\ 1 .. k \subseteq 1 .. i /\ i \in 1 .. i
        /\ i \notin 1 .. k /\ 1 .. k \subseteq 1 .. n
    BY <1>1
  <2> HIDE DEF i
  <2>2. IsInjective(r[k]) /\ \A x \in ToSet(r[k]) : \E j \in 1 .. k : q[j] = x
    BY <1>4, <2>1
  <2>3. r[k] \in Seq(S) /\ r[i] = IF m[q[i]] = <<>> THEN r[k] ELSE Append(r[k], q[i])
    BY <1>2, <2>1 DEF Keeps, n
  <2>4. CASE m[q[i]] = <<>>
    BY <2>1, <2>2, <2>3, <2>4
  <2>5. CASE m[q[i]] # <<>>
    <3> DEFINE p == r[k]
               b == q[i]
               e == Append(p, b)
    <3>1. p \in Seq(S) /\ b \in S /\ r[i] = e
      BY <1>1, <2>1, <2>3, <2>5
    <3>2. b \notin ToSet(p)
      <4> SUFFICES ASSUME b \in ToSet(p) PROVE FALSE
        OBVIOUS
      <4>1. PICK j \in 1 .. k : q[j] = b
        BY <2>2
      <4> QED BY <1>1, <2>1, <4>1 DEF IsInjective
    <3> HIDE DEF p, b
    <3>3. ToSet(e) = ToSet(p) \cup {b}
      BY <3>1, AppendSet
    <3>4. IsInjective(e)
      <4> DEFINE l == Len(p)
      <4>1. l \in Nat /\ DOMAIN p = 1 .. l /\ DOMAIN e = 1 .. l + 1 /\ e[l + 1] = b
            /\ \A j \in 1 .. l : e[j] = p[j] /\ p[j] # b
        BY <3>1, <3>2 DEF ToSet
      <4> HIDE DEF e, l
      <4>2. ASSUME NEW u \in 1 .. l + 1, NEW v \in 1 .. l + 1, e[u] = e[v] PROVE u = v
        <5>1. CASE u \in 1 .. l /\ v \in 1 .. l
          BY <2>2, <4>1, <4>2, <5>1 DEF IsInjective, p
        <5>2. CASE u = l + 1 \/ v = l + 1
          BY <4>1, <4>2, <5>2
        <5> QED BY <4>1, <5>1, <5>2
      <4> QED BY <4>1, <4>2 DEF IsInjective
    <3> HIDE DEF e
    <3>5. ASSUME NEW x \in ToSet(e) PROVE \E j \in 1 .. i : q[j] = x
      <4>1. CASE x \in ToSet(p)
        BY <2>1, <2>2, <4>1 DEF p
      <4>2. CASE x = b
        BY <2>1, <4>2 DEF b
      <4> QED BY <3>3, <4>1, <4>2
    <3> QED BY <3>1, <3>4, <3>5
  <2> QED BY <2>4, <2>5
<1> HIDE DEF Good
<1>5. n \in Good
  BY <1>1, <1>3, <1>4, Induction
<1>6. IsInjective(r[n])
  BY <1>1, <1>5 DEF Good
<1> QED BY <1>2, <1>6 DEF Keeps, n

\* A text begins with what it was joined from.
LEMMA PrefixJoin ==
    ASSUME NEW S, NEW s \in Seq(S), NEW t \in Seq(S)
    PROVE  IsPrefix(s, s \o t)
<1> DEFINE st == s \o t
           n == Len(s)
<1>1. /\ st \in Seq(S) /\ Len(st) = n + Len(t) /\ \A i \in 1 .. n : st[i] = s[i]
  BY JoinedIs
<1>2. n \in Nat /\ Len(t) \in Nat /\ n =< Len(st)
  BY <1>1
<1>3. SubSeq(s, 1, n) = s
  OBVIOUS
<1> HIDE DEF st
<1>4. SubSeq(st, 1, n) = s
  <2> DEFINE o == SubSeq(st, 0 + 1, n)
  <2>1. o \in Seq(S) /\ Len(o) = n - 0 /\ \A i \in 1 .. n - 0 : o[i] = st[0 + i]
    BY <1>1, <1>2, PartIs
  <2> HIDE DEF o
  <2>2. o \in Seq(S) /\ Len(o) = n /\ \A i \in 1 .. n : o[i] = s[i]
    BY <1>1, <1>2, <2>1
  <2>3. o = s
    BY <2>2, SameSeq
  <2> QED BY <2>3 DEF o
<1> QED BY <1>2, <1>3, <1>4 DEF IsPrefix, st, n

\* What the client has got, and then what is on its way to it.
Delivered == sent \o Flight(down, mem)

\* The client gets what is on its way, from its beginning, and the end of the body
\* behind all of it.
LEMMA SendKeeps ==
    ASSUME NEW N, NEW out, NEW m, NEW last \in BOOLEAN, Queue(N, down \o out, m),
           IsInjective(down \o out), sent \in Seq(Byte), NextBodyFilter(out, m, last)
    PROVE  /\ Delivered' = sent \o Flight(down \o out, m)
           /\ sent' \in Seq(Byte) /\ IsPrefix(sent, sent') /\ IsInjective(down')
           /\ tail' # "none" => tail # "none" \/ last
           /\ tail' = "sent" => tail = "sent" \/ down' = <<>>
<1> DEFINE q == down \o out
           text == Flight(q, m)
           end == IF last /\ tail = "none" THEN "queued" ELSE tail
<1>1. PICK k \in 0 .. Len(text) :
        /\ mem' = Drained(q, m, k) /\ down' = Unsent(q, mem')
        /\ sent' = sent \o SubSeq(text, 1, k)
        /\ \/ tail' = end
           \/ end = "queued" /\ down' = <<>> /\ tail' = "sent"
  BY DEF NextBodyFilter, Flight
<1>2. Queue(N, q, m) /\ IsInjective(q) /\ q \in Seq(0 .. N)
  BY DEF Queue
<1> HIDE DEF q
<1>3. text \in Seq(Byte) /\ Len(text) \in Nat /\ k \in Nat /\ k =< Len(text)
  BY <1>2, FlightType
<1>4. Queue(N, q, mem') /\ Flight(q, mem') = SubSeq(text, k + 1, Len(text))
  BY ZenonT(30), <1>1, <1>2, <1>3, DrainedFlight
<1>5. Flight(down', mem') = SubSeq(text, k + 1, Len(text))
  BY <1>1, <1>4, UnsentFlight
<1>6. IsInjective(down')
  BY <1>1, <1>2, UnsentOnce
<1> HIDE DEF text
<1> DEFINE a == SubSeq(text, 1, k)
           b == SubSeq(text, k + 1, Len(text))
<1>7. a \in Seq(Byte) /\ b \in Seq(Byte)
  <2>1. SubSeq(text, 0 + 1, k) \in Seq(Byte) /\ b \in Seq(Byte)
    BY <1>3, PartIs
  <2>2. 0 + 1 = 1
    OBVIOUS
  <2> QED BY <2>1, <2>2
<1>8. a \o b = text
  <2> DEFINE l == Len(text)
  <2>1. l \in 0 .. Len(text) /\ k \in 0 .. l
    BY <1>3
  <2>2. SubSeq(text, 1, l) = text
    BY <1>3
  <2> HIDE DEF l
  <2>3. SubSeq(text, 1, k) \o SubSeq(text, k + 1, l) = SubSeq(text, 1, l)
    BY <1>3, <2>1, PartsJoin
  <2> QED BY <2>2, <2>3 DEF l
<1> HIDE DEF a, b
<1>9. (sent \o a) \o b = sent \o text
  <2>1. Three(Byte, sent, a, b)
    BY <1>7 DEF Three
  <2>2. (sent \o a) \o b = sent \o (a \o b)
    BY <2>1, JoinJoin
  <2> QED BY <1>8, <2>2
<1>10. sent' = sent \o a /\ sent' \in Seq(Byte)
  BY <1>1, <1>7 DEF a
<1>11. IsPrefix(sent, sent')
  BY <1>7, <1>10, PrefixJoin
<1>12. Delivered' = sent \o text
  BY <1>5, <1>9, <1>10 DEF Delivered, b
<1>13. /\ tail' # "none" => tail # "none" \/ last
       /\ tail' = "sent" => tail = "sent" \/ down' = <<>>
  BY <1>1
<1> QED BY <1>6, <1>10, <1>11, <1>12, <1>13 DEF text, q

\* The buffers of a call hold what it puts out.
LEMMA OwnFlight ==
    ASSUME NEW N \in Nat, NEW own \in Seq(1 .. N), IsInjective(own), NEW text \in Seq(Byte),
           Len(own) = Len(Pieces(text))
    PROVE  Flight(own, Contents(own, Pieces(text), N)) = text
<1> DEFINE pieces == Pieces(text)
           m == Contents(own, pieces, N)
           n == Len(own)
           at(b) == SelectInSeq(own, LAMBDA o : o = b)
           e == [i \in DOMAIN own |-> m[own[i]]]
<1>1. n \in Nat /\ DOMAIN own = 1 .. n /\ \A i \in 1 .. n : own[i] \in 1 .. N
  BY SeqIs
<1>2. pieces \in Seq(Seq(Byte)) /\ Len(pieces) = n /\ DOMAIN pieces = 1 .. n
  BY PiecesType
<1>3. ASSUME NEW i \in 1 .. n PROVE m[own[i]] = pieces[i]
  <2> DEFINE b == own[i]
             I == {j \in 1 .. Len(own) : own[j] = b}
  <2>1. b \in 0 .. N /\ Contains(own, b)
    <3>1. b \in 1 .. N /\ 1 .. N \subseteq 0 .. N
      BY <1>1
    <3>2. Contains(own, b)
      BY <1>1 DEF Contains
    <3> QED BY <3>1, <3>2
  <2>2. at(b) = IF I # {} THEN Min(I) ELSE 0
    BY Zenon DEF SelectInSeq
  <2>3. I = {i}
    BY <1>1 DEF IsInjective
  <2>4. I \in SUBSET Nat /\ I # {}
    BY <1>1, <2>3
  <2> HIDE DEF I
  <2>5. Min(I) \in I
    BY <2>4, MinIn
  <2>6. m[b] = pieces[at(b)]
    <3> HIDE DEF b, pieces, at
    <3> QED BY <2>1 DEF Contents, at
  <2> HIDE DEF b, at, m
  <2> QED BY <2>2, <2>3, <2>4, <2>5, <2>6 DEF b
<1>4. e = pieces
  <2> HIDE DEF m
  <2>1. e = [i \in 1 .. n |-> pieces[i]]
    BY <1>1, <1>3
  <2> HIDE DEF e, pieces
  <2>2. pieces = [i \in 1 .. n |-> pieces[i]]
    BY <1>2
  <2> QED BY <2>1, <2>2
<1>5. FlattenSeq(pieces) = text
  BY PiecesFlight
<1> HIDE DEF e, pieces
<1>6. Flight(own, m) = FlattenSeq(e)
  BY DEF Flight, e, pieces
<1> QED BY <1>4, <1>5, <1>6 DEF pieces

\* What has become of the queue of the later filters.
Sends(last) ==
    /\ sent' \in Seq(Byte) /\ IsPrefix(sent, sent') /\ IsInjective(down')
    /\ tail' # "none" => tail # "none" \/ last
    /\ tail' = "sent" => tail = "sent" \/ down' = <<>>

\* Output: what the call puts out is on its way behind what was.
LEMMA OutputDelivers ==
    ASSUME Typed, NoReuseInFlight, installed, IsInjective(down), NEW c \in Gathered,
           NEW chain, NEW last \in BOOLEAN, Output(c, chain, last)
    PROVE  Delivered' = Delivered \o c.out /\ Sends(last)
<1> DEFINE pieces == Pieces(c.out)
           n == Len(pieces)
           own == GetChainBufs(n)
           N == Max({bufs, bufs + n - Len(free)})
           m == Contents(own, pieces, N)
           out == IF last /\ chain # <<>> /\ own = <<>> THEN <<0>> ELSE own
           unused == SubSeq(free, Len(own) + 1, Len(free))
           q == busy \o out
<1>1. /\ bufs \in Nat /\ free \in Seq(1 .. bufs) /\ busy \in Seq(0 .. bufs)
      /\ down \in Seq(0 .. bufs) /\ mem \in [0 .. bufs -> Seq(Byte)]
      /\ \A b \in 1 .. bufs : Len(mem[b]) <= BufSize
      /\ sent \in Seq(Byte) /\ tail \in {"none", "queued", "sent"}
  BY DEF Typed
<1>2. /\ IsInjective(free) /\ IsInjective(busy)
      /\ \A x \in ToSet(free) : x \notin ToSet(busy) /\ x \notin ToSet(down)
      /\ \A x \in ToSet(down) : x \in ToSet(busy)
  BY DEF NoReuseInFlight
<1>3. c.out \in Seq(Byte)
  BY DEF Gathered
<1>4. /\ pieces \in Seq(Seq(Byte)) /\ n \in Nat
      /\ \A i \in 1 .. n : Len(pieces[i]) =< BufSize
  BY <1>3, PiecesType
<1>5. /\ bufs' = N
      /\ \/ /\ out = <<>> /\ busy = <<>>
            /\ buffered' = TRUE
            /\ UNCHANGED <<wire, free, busy>>
         \/ /\ out # <<>> \/ busy # <<>>
            /\ NextBodyFilter(own, m, last)
            /\ UpdateChains(q, mem', unused)
            /\ buffered' = FlagAfterOutput(last)
  BY Zenon DEF Output, Contents
<1>6. /\ N \in Nat /\ bufs =< N
      /\ own \in Seq(1 .. N) /\ Len(own) = n /\ IsInjective(own)
      /\ \A x \in ToSet(own) : x \in ToSet(free) \/ x > bufs
  <2> HIDE DEF n
  <2> QED BY <1>1, <1>2, <1>4, OwnIs
<1>7. CASE out = <<>> /\ busy = <<>>
  <2>1. own = <<>>
    <3> HIDE DEF own
    <3> QED BY <1>7
  <2> HIDE DEF own
  <2>2. n = 0
    BY <1>6, <2>1
  <2>3. c.out = <<>>
    <3>1. FlattenSeq(pieces) = c.out
      BY <1>3, PiecesFlight
    <3>2. pieces = <<>>
      <4> HIDE DEF pieces
      <4> QED BY <1>4, <2>2
    <3> HIDE DEF pieces
    <3>3. FlattenSeq(<<>>) = <<>>
      BY DEF FlattenSeq
    <3> QED BY <3>1, <3>2, <3>3
  <2> HIDE DEF out, N, m, unused, q, n, pieces
  <2>4. UNCHANGED <<mem, down, tail, sent>>
    BY <1>5, <1>7 DEF wire
  <2>5. Delivered' = Delivered
    BY <2>4 DEF Delivered, Flight
  <2>6. Delivered \in Seq(Byte)
    <3>1. Queue(bufs, down, mem)
      BY <1>1 DEF Queue
    <3>2. Flight(down, mem) \in Seq(Byte)
      BY <3>1, FlightType
    <3> QED BY <1>1, <3>2 DEF Delivered
  <2>7. Delivered \o <<>> = Delivered
    BY <2>6
  <2>8. IsPrefix(sent, sent)
    <3>1. sent \o <<>> = sent /\ <<>> \in Seq(Byte)
      BY <1>1
    <3> QED BY <1>1, <3>1, PrefixJoin
  <2>9. down' = <<>>
    <3>1. ToSet(down) = {}
      BY <1>2, <1>7 DEF ToSet
    <3>2. Len(down) \in Nat /\ DOMAIN down = 1 .. Len(down)
      BY <1>1, SeqIs
    <3>3. Len(down) = 0
      <4> SUFFICES ASSUME Len(down) # 0 PROVE FALSE
        OBVIOUS
      <4>1. 1 \in DOMAIN down
        BY <3>2
      <4> QED BY <3>1, <4>1 DEF ToSet
    <3> QED BY <1>1, <2>4, <3>3
  <2> QED BY <1>1, <2>3, <2>4, <2>5, <2>7, <2>8, <2>9 DEF Sends
<1>8. CASE out # <<>> \/ busy # <<>>
  <2>1. NextBodyFilter(own, m, last)
    <3> HIDE DEF out, own, N, m, unused, q
    <3> QED BY <1>5, <1>8
  <2> HIDE DEF out, own, N, unused, q, n
  <2>2. m \in [0 .. N -> Seq(Byte)]
    <3> HIDE DEF pieces
    <3> QED BY <1>1, <1>4, <1>6, ContentsType DEF n
  <2>3. Flight(own, m) = c.out
    <3>1. Len(own) = Len(Pieces(c.out))
      BY <1>6 DEF n
    <3> QED BY <1>3, <1>6, <3>1, OwnFlight
  <2>4. 0 .. bufs \subseteq 0 .. N /\ down \in Seq(0 .. N) /\ own \in Seq(0 .. N)
    <3>1. 0 .. bufs \subseteq 0 .. N /\ 1 .. N \subseteq 0 .. N
      BY <1>1, <1>6
    <3> QED BY <1>1, <1>6, <3>1, SeqMonotonic
  <2>5. \A x \in ToSet(down) : x \notin ToSet(own) /\ x \in 0 .. bufs /\ x \in 0 .. N
    <3>1. \A x \in ToSet(down) : x \in 0 .. bufs
      BY <1>1, SeqIs DEF ToSet
    <3> QED BY <1>1, <1>2, <1>6, <2>4, <3>1
  <2>6. Flight(down, m) = Flight(down, mem)
    <3>1. ASSUME NEW b \in ToSet(down) PROVE m[b] = mem[b]
      <4>1. ~ Contains(own, b)
        BY <2>5 DEF Contains, ToSet
      <4>2. b \in 0 .. N /\ b =< bufs
        BY <1>1, <2>5
      <4> QED BY <4>1, <4>2 DEF Contents
    <3> HIDE DEF m
    <3> QED BY <3>1, FlightSame
  <2> HIDE DEF m
  <2>7. Queue(N, down, m)
    BY <1>6, <2>2, <2>4 DEF Queue
  <2>8. down \o own \in Seq(0 .. N) /\ Flight(down \o own, m) = Flight(down, m) \o Flight(own, m)
    BY <2>4, <2>7, FlightJoin
  <2>9. IsInjective(down \o own)
    BY <1>6, <2>4, <2>5, JoinedOnce
  <2>10. Queue(N, down \o own, m)
    BY <2>7, <2>8 DEF Queue
  <2>11. /\ Delivered' = sent \o Flight(down \o own, m) /\ Sends(last)
    BY <1>1, <2>1, <2>9, <2>10, SendKeeps DEF Sends
  <2>12. (sent \o Flight(down, mem)) \o c.out = sent \o (Flight(down, mem) \o c.out)
    <3> DEFINE f == Flight(down, mem)
               o == c.out
    <3>1. f \in Seq(Byte)
      BY <2>6, <2>7, FlightType
    <3>2. Three(Byte, sent, f, o)
      BY <1>1, <1>3, <3>1 DEF Three
    <3> HIDE DEF f, o
    <3>3. (sent \o f) \o o = sent \o (f \o o)
      BY <3>2, JoinJoin
    <3> QED BY <3>3 DEF f, o
  <2> QED BY <2>3, <2>6, <2>8, <2>11, <2>12 DEF Delivered
<1> QED BY <1>5, <1>7, <1>8

\* Pass: what has come goes down behind what was on its way.
LEMMA PassDelivers ==
    ASSUME Typed, IsInjective(down), NEW text \in Seq(Byte), NEW last \in BOOLEAN,
           text = <<>> \/ (Alone /\ ~ installed), Pass(text, last)
    PROVE  Delivered' = Delivered \o text /\ Sends(last)
<1> DEFINE out == IF text = <<>> \/ Contains(down, 0) THEN <<>> ELSE <<0>>
           m == [mem EXCEPT ![0] = @ \o text]
           q == down \o out
<1>1. bufs \in Nat /\ down \in Seq(0 .. bufs) /\ mem \in [0 .. bufs -> Seq(Byte)] /\ 0 \in 0 .. bufs
      /\ sent \in Seq(Byte)
  BY DEF Typed
<1>2. NextBodyFilter(out, m, last)
  BY DEF Pass
<1>3. mem[0] \in Seq(Byte) /\ mem[0] \o text \in Seq(Byte) /\ m \in [0 .. bufs -> Seq(Byte)]
      /\ m[0] = mem[0] \o text
  BY <1>1
<1>4. Queue(bufs, down, mem)
  BY <1>1 DEF Queue
<1>5. Flight(down, mem) \in Seq(Byte)
  BY <1>4, FlightType
<1>6. /\ q \in Seq(0 .. bufs) /\ IsInjective(q) /\ Flight(q, m) = Flight(down, mem) \o text
  <2>1. CASE text = <<>>
    <3>1. out = <<>> /\ q = down
      BY <1>1, <2>1
    <3>2. m = mem
      <4>1. mem[0] \o text = mem[0]
        BY <1>3, <2>1
      <4> QED BY <1>1, <4>1
    <3>3. Flight(down, mem) \o text = Flight(down, mem)
      BY <1>5, <2>1
    <3> HIDE DEF m, q, out
    <3> QED BY <1>1, <3>1, <3>2, <3>3
  <2>2. CASE text # <<>>
    <3>1. down = IF mem[0] = <<>> THEN <<>> ELSE <<0>>
      BY <2>2 DEF Alone
    <3>2. q = <<0>>
      <4>1. CASE mem[0] = <<>>
        <5>1. down = <<>>
          BY <3>1, <4>1
        <5>2. ~ Contains(down, 0)
          BY <5>1 DEF Contains
        <5> QED BY <2>2, <5>1, <5>2
      <4>2. CASE mem[0] # <<>>
        <5>1. down = <<0>>
          BY <3>1, <4>2
        <5>2. Contains(down, 0)
          BY <5>1 DEF Contains
        <5> QED BY <5>1, <5>2
      <4> QED BY <4>1, <4>2
    <3> HIDE DEF q
    <3>3. q \in Seq(0 .. bufs) /\ IsInjective(q)
      BY <1>1, <3>2 DEF IsInjective
    <3>4. Flight(<<0>>, m) = m[0]
      <4>1. [i \in DOMAIN <<0>> |-> m[<<0>>[i]]] = <<m[0]>>
        <5> HIDE DEF m
        <5> QED OBVIOUS
      <4> HIDE DEF m
      <4> QED BY <4>1, FlattenOne DEF Flight
    <3>5. Flight(down, mem) = mem[0]
      <4>1. CASE mem[0] = <<>>
        BY <3>1, <4>1, FlightEmpty
      <4>2. CASE mem[0] # <<>>
        <5>1. [i \in DOMAIN <<0>> |-> mem[<<0>>[i]]] = <<mem[0]>>
          OBVIOUS
        <5>2. Flight(<<0>>, mem) = mem[0]
          BY <5>1, FlattenOne DEF Flight
        <5> QED BY <3>1, <4>2, <5>2
      <4> QED BY <4>1, <4>2
    <3> HIDE DEF m
    <3> QED BY <1>3, <3>2, <3>3, <3>4, <3>5
  <2> QED BY <2>1, <2>2
<1>7. Queue(bufs, down \o out, m) /\ IsInjective(down \o out)
  BY <1>1, <1>3, <1>6 DEF Queue
<1> HIDE DEF m, out
<1>8. Delivered' = sent \o Flight(q, m) /\ Sends(last)
  BY <1>1, <1>2, <1>7, SendKeeps DEF Sends
<1> HIDE DEF q
<1>9. (sent \o Flight(down, mem)) \o text = sent \o (Flight(down, mem) \o text)
  <2> DEFINE f == Flight(down, mem)
  <2>1. Three(Byte, sent, f, text)
    BY <1>1, <1>5 DEF Three
  <2> HIDE DEF f
  <2>2. (sent \o f) \o text = sent \o (f \o text)
    BY <2>1, JoinJoin
  <2> QED BY <2>2 DEF f
<1> QED BY <1>6, <1>8, <1>9 DEF Delivered

-------------------------------------------------------------------------------
(* The operators of the contract                                            *)

\* The library's operators are the same in the instance.
LEMMA SameOperators ==
    /\ \A s, t : Contract!IsPrefix(s, t) <=> IsPrefix(s, t)
    /\ \A S : Contract!Min(S) = Min(S) /\ Contract!Max(S) = Max(S)
    /\ \A s : Contract!FlattenSeq(s) = FlattenSeq(s)
<1>1. \A s, t : Contract!IsPrefix(s, t) <=> IsPrefix(s, t)
  BY DEF Contract!IsPrefix, IsPrefix
<1>2. \A S : Contract!Min(S) = Min(S) /\ Contract!Max(S) = Max(S)
  BY Zenon DEF Contract!Min, Min, Contract!Max, Max
<1>3. \A s : Contract!FlattenSeq(s) = FlattenSeq(s)
  BY Zenon DEF Contract!FlattenSeq, FlattenSeq
<1> QED BY <1>1, <1>2, <1>3

-------------------------------------------------------------------------------
(* The lines of a text                                                      *)

\* The linefeeds of a text, the last of them (0 if there is none), and what is
\* behind it.
Feeds(text) == {i \in DOMAIN text : text[i] = LF}
LastFeed(text) == Max(Feeds(text) \cup {0})
Rest(text) == SubSeq(text, LastFeed(text) + 1, Len(text))

\* The n-th end of a line: the one of the ends in E that has n of those in X up to
\* it.
EndAt(E, X, n) == CHOOSE e \in E : Cardinality({b \in X : b <= e}) = n

\* The line that ends at e, and begins behind the last of the places in Z before e.
LineTo(text, Z, e) == SubSeq(text, Max({b \in Z : b < e}) + 1, e)

\* The lines one after another: as many as there are ends in X.
LinesIn(text, E, X, Z) == [n \in 1 .. Cardinality(X) |-> LineTo(text, Z, EndAt(E, X, n))]

\* The same, where each end in E counts, and the first line begins behind place 0.
LinesTo(text, E) == LinesIn(text, E, E, E \cup {0})

\* The ends of the lines: of a whole text the last byte, too.
Ends(text, whole) == Feeds(text) \cup (IF whole /\ text # <<>> THEN {Len(text)} ELSE {})

\* The lines of the contract.
LEMMA LinesAre ==
    ASSUME NEW text \in Seq(Byte), NEW whole \in BOOLEAN
    PROVE  Contract!Lines(text, whole) = LinesTo(text, Ends(text, whole))
<1> DEFINE E == Ends(text, whole)
           X == {i \in DOMAIN text : text[i] = LF} \cup (IF whole THEN {Len(text)} ELSE {})
<1>1. Len(text) \in Nat /\ DOMAIN text = 1 .. Len(text)
  BY SeqIs
<1>2. X \ {0} = E
  <2>1. CASE text = <<>>
    BY <1>1, <2>1 DEF Ends, Feeds
  <2>2. CASE text # <<>>
    <3>1. Len(text) # 0
      BY <2>2
    <3> QED BY <1>1, <2>2, <3>1 DEF Ends, Feeds
  <2> QED BY <2>1, <2>2
<1>4. X = E \/ (X = E \cup {0} /\ text = <<>>)
  BY <1>1, <1>2
<1>5. X \cup {0} = E \cup {0}
  BY <1>2
<1> HIDE DEF E
<1>6. Contract!Lines(text, whole) = LinesIn(text, X, X \ {0}, X \cup {0})
  BY Zenon DEF Contract!Lines, Contract!Cardinality, Contract!Max, Cardinality, Max, LinesIn, LineTo, EndAt
<1> HIDE DEF X
<1>7. CASE X = E
  BY <1>2, <1>5, <1>6, <1>7 DEF LinesTo, E
<1>8. CASE text = <<>>
  <2>1. E = {}
    <3>1. whole /\ text # <<>> <=> FALSE
      BY <1>8
    <3>2. Feeds(text) = {}
      BY <1>1, <1>8 DEF Feeds
    <3> QED BY <3>1, <3>2 DEF E, Ends
  <2>2. Cardinality(E) = 0
    BY <2>1, FS_EmptySet
  <2>3. \A A, B : LinesIn(text, A, E, B) = <<>>
    BY <2>2 DEF LinesIn
  <2>4. LinesIn(text, X, X \ {0}, X \cup {0}) = <<>> /\ LinesIn(text, E, E, E \cup {0}) = <<>>
    BY <1>2, <2>3
  <2> QED BY <1>6, <2>4 DEF LinesTo, E
<1> QED BY <1>4, <1>7, <1>8

\* Some of the places of a text, of which each has its number.
Ranked(text, E) ==
    /\ E \in SUBSET (1 .. Len(text)) /\ IsFiniteSet(E) /\ Cardinality(E) \in Nat
    /\ \A n \in 1 .. Cardinality(E) : \E e \in E : Cardinality({b \in E : b <= e}) = n

\* The line that ends at a place is a text.
LEMMA LineType ==
    ASSUME NEW text \in Seq(Byte), NEW E, Ranked(text, E), NEW e \in 1 .. Len(text)
    PROVE  /\ LineTo(text, E \cup {0}, e) \in Seq(Byte)
           /\ Max({b \in E \cup {0} : b < e}) \in 0 .. e - 1
<1> DEFINE Z == {b \in E \cup {0} : b < e}
<1>1. Len(text) \in Nat /\ E \in SUBSET (1 .. Len(text)) /\ e \in Nat
  BY SeqIs DEF Ranked
<1>2. Z \in SUBSET Nat /\ Z # {} /\ \A z \in Z : z =< e - 1
  <2>1. \A b \in E \cup {0} : b \in Nat
    BY <1>1
  <2>2. 0 \in Z
    BY <1>1
  <2>3. \A z \in Z : z \in Nat /\ z =< e - 1
    BY <1>1, <2>1
  <2> HIDE DEF Z
  <2> QED BY <2>2, <2>3
<1>3. e - 1 \in Nat
  OBVIOUS
<1> HIDE DEF Z
<1>4. Max(Z) \in Z
  BY <1>2, <1>3, MaxIn
<1>5. Max(Z) \in 0 .. e - 1
  <2>1. Max(Z) \in Nat /\ Max(Z) =< e - 1
    BY <1>2, <1>4
  <2> QED BY <1>3, <2>1
<1> DEFINE a == Max(Z)
<1> HIDE DEF a
<1>6. a \in 0 .. e /\ e \in 0 .. Len(text)
  BY <1>1, <1>5 DEF a
<1>7. SubSeq(text, a + 1, e) \in Seq(Byte)
  BY <1>6, PartIs
<1> QED BY <1>5, <1>7 DEF LineTo, a, Z

\* What the lines of a text are.
LEMMA LinesType ==
    ASSUME NEW text \in Seq(Byte), NEW E, Ranked(text, E)
    PROVE  /\ LinesTo(text, E) \in Seq(Seq(Byte)) /\ Len(LinesTo(text, E)) = Cardinality(E)
           /\ \A n \in 1 .. Cardinality(E) :
                EndAt(E, E, n) \in E /\ LinesTo(text, E)[n] = LineTo(text, E \cup {0}, EndAt(E, E, n))
<1> DEFINE m == Cardinality(E)
           ls == LinesTo(text, E)
<1>1. m \in Nat /\ E \in SUBSET (1 .. Len(text))
  BY DEF Ranked
<1>2. ASSUME NEW n \in 1 .. m PROVE EndAt(E, E, n) \in E
  <2>1. \E e \in E : Cardinality({b \in E : b <= e}) = n
    BY DEF Ranked
  <2> QED BY <2>1, Zenon DEF EndAt
<1>3. ls = [n \in 1 .. m |-> LineTo(text, E \cup {0}, EndAt(E, E, n))]
  BY DEF LinesTo, LinesIn
<1>4. ASSUME NEW n \in 1 .. m PROVE LineTo(text, E \cup {0}, EndAt(E, E, n)) \in Seq(Byte)
  <2> DEFINE e == EndAt(E, E, n)
  <2>1. e \in 1 .. Len(text)
    BY <1>1, <1>2
  <2> HIDE DEF e
  <2>2. LineTo(text, E \cup {0}, e) \in Seq(Byte)
    BY <2>1, LineType
  <2> QED BY <2>2 DEF e
<1>5. ls \in [1 .. m -> Seq(Byte)]
  BY <1>3, <1>4
<1> HIDE DEF ls, m
<1>6. ls \in Seq(Seq(Byte)) /\ Len(ls) = m
  BY <1>1, <1>5, IsSeq
<1>7. \A n \in 1 .. m : ls[n] = LineTo(text, E \cup {0}, EndAt(E, E, n))
  BY <1>3
<1> QED BY <1>2, <1>6, <1>7 DEF ls, m

\* One more end of a line behind the others.
LEMMA OneMoreEnd ==
    ASSUME NEW text \in Seq(Byte), NEW E, Ranked(text, E), NEW f \in 1 .. Len(text),
           \A e \in E : e < f
    PROVE  /\ Ranked(text, E \cup {f})
           /\ LinesTo(text, E \cup {f}) =
                Append(LinesTo(text, E), SubSeq(text, Max(E \cup {0}) + 1, f))
<1> DEFINE F == E \cup {f}
           m == Cardinality(E)
           up(X, e) == {b \in X : b <= e}
<1>1. m \in Nat /\ E \in SUBSET (1 .. Len(text)) /\ f \notin E /\ Len(text) \in Nat
      /\ F \in SUBSET (1 .. Len(text)) /\ IsFiniteSet(E)
  BY SeqIs DEF Ranked
<1>2. IsFiniteSet(F) /\ Cardinality(F) = m + 1
  BY <1>1, FS_AddElement
<1>3. \A e \in E : up(F, e) = up(E, e)
  BY <1>1
<1>4. up(F, f) = F
  <2>1. \A e \in F : e =< f
    BY <1>1
  <2> HIDE DEF F
  <2> QED BY <2>1
<1> HIDE DEF up, F, m
<1>5. Ranked(text, F)
  <2>1. ASSUME NEW n \in 1 .. m + 1 PROVE \E e \in F : Cardinality(up(F, e)) = n
    <3>1. CASE n \in 1 .. m
      <4>1. PICK e \in E : Cardinality(up(E, e)) = n
        BY <3>1 DEF Ranked, up, m
      <4> QED BY <1>3, <4>1 DEF F
    <3>2. CASE n = m + 1
      BY <1>2, <1>4, <3>2 DEF F
    <3> QED BY <1>1, <3>1, <3>2
  <2>2. \A n \in 1 .. m + 1 : \E e \in F : Cardinality({b \in F : b <= e}) = n
    BY <2>1 DEF up
  <2>3. m + 1 \in Nat
    BY <1>1
  <2> QED BY <1>1, <1>2, <2>2, <2>3 DEF Ranked
<1> DEFINE new == LinesTo(text, F)
           old == LinesTo(text, E)
           line == SubSeq(text, Max(E \cup {0}) + 1, f)
<1>6. /\ old \in Seq(Seq(Byte)) /\ Len(old) = m
      /\ \A n \in 1 .. m :
           EndAt(E, E, n) \in E /\ old[n] = LineTo(text, E \cup {0}, EndAt(E, E, n))
  BY LinesType DEF m
<1>7. /\ new \in Seq(Seq(Byte)) /\ Len(new) = m + 1
      /\ \A n \in 1 .. m + 1 :
           EndAt(F, F, n) \in F /\ new[n] = LineTo(text, F \cup {0}, EndAt(F, F, n))
  BY <1>2, <1>5, LinesType
<1>8. ASSUME NEW n \in 1 .. m PROVE EndAt(F, F, n) = EndAt(E, E, n)
  <2>1. \A e : e \in F /\ Cardinality(up(F, e)) = n <=> e \in E /\ Cardinality(up(E, e)) = n
    <3>1. n # m + 1
      BY <1>1
    <3> QED BY <1>2, <1>3, <1>4, <3>1 DEF F
  <2> QED BY <2>1, Zenon DEF EndAt, up
<1>9. EndAt(F, F, m + 1) = f
  <2> DEFINE e == EndAt(F, F, m + 1)
  <2>1. e \in F /\ Cardinality(up(F, e)) = m + 1
    <3>1. f \in F /\ Cardinality(up(F, f)) = m + 1
      BY <1>2, <1>4 DEF F
    <3> QED BY <3>1, Zenon DEF EndAt, up
  <2> HIDE DEF e
  <2>2. ASSUME e \in E PROVE FALSE
    <3>1. up(E, e) \subseteq E
      BY DEF up
    <3>2. Cardinality(up(E, e)) =< m
      BY <1>1, <3>1, FS_Subset DEF m
    <3>3. Cardinality(up(E, e)) = m + 1
      BY <1>3, <2>1, <2>2
    <3> QED BY <1>1, <3>2, <3>3
  <2> QED BY <2>1, <2>2 DEF F, e
<1>10. ASSUME NEW n \in 1 .. m PROVE new[n] = old[n]
  <2> DEFINE e == EndAt(E, E, n)
  <2> HIDE DEF e, new, old
  <2>3. n \in 1 .. m + 1
    BY <1>1
  <2>4. e = EndAt(F, F, n)
    BY <1>8 DEF e
  <2>1. e \in E /\ new[n] = LineTo(text, F \cup {0}, e) /\ old[n] = LineTo(text, E \cup {0}, e)
    <3>1. e \in E /\ old[n] = LineTo(text, E \cup {0}, e)
      BY <1>6 DEF e
    <3>2. new[n] = LineTo(text, F \cup {0}, EndAt(F, F, n))
      BY <1>7, <2>3
    <3> QED BY <2>4, <3>1, <3>2
  <2>2. {b \in F \cup {0} : b < e} = {b \in E \cup {0} : b < e}
    BY <1>1, <2>1 DEF F
  <2> QED BY <2>1, <2>2 DEF LineTo
<1>11. new[m + 1] = line
  <2> HIDE DEF new
  <2>1. new[m + 1] = LineTo(text, F \cup {0}, f)
    <3>1. m + 1 \in 1 .. m + 1
      BY <1>1
    <3>2. new[m + 1] = LineTo(text, F \cup {0}, EndAt(F, F, m + 1))
      BY <1>7, <3>1
    <3> QED BY <1>9, <3>2
  <2>2. {b \in F \cup {0} : b < f} = E \cup {0}
    <3>1. 0 < f /\ ~ (f < f)
      BY <1>1
    <3> QED BY <3>1 DEF F
  <2> QED BY <2>1, <2>2 DEF LineTo
<1>12. line \in Seq(Byte)
  <2>1. new[m + 1] \in Seq(Byte)
    <3> HIDE DEF new
    <3> QED BY <1>1, <1>7
  <2> QED BY <1>11, <2>1
<1> HIDE DEF new, old, line
<1>13. new = Append(old, line)
  <2> DEFINE s == Append(old, line)
  <2>1. s \in Seq(Seq(Byte)) /\ Len(s) = m + 1 /\ s[m + 1] = line /\ \A n \in 1 .. m : s[n] = old[n]
    BY <1>6, <1>12
  <2> HIDE DEF s
  <2>2. \A n \in 1 .. m + 1 : new[n] = s[n]
    BY SMTT(30), <1>1, <1>10, <1>11, <2>1
  <2>3. new = s
    BY <1>1, <1>7, <2>1, <2>2, SameSeq
  <2> QED BY <2>3 DEF s
<1> QED BY <1>5, <1>13 DEF F, new, old, line

\* A byte more.
LEMMA LongerIs ==
    ASSUME NEW text \in Seq(Byte), NEW b \in Byte
    PROVE  LET t == Append(text, b) IN
           /\ t \in Seq(Byte) /\ Len(text) \in Nat /\ Len(t) = Len(text) + 1
           /\ DOMAIN text = 1 .. Len(text) /\ DOMAIN t = 1 .. Len(text) + 1
           /\ t[Len(text) + 1] = b /\ \A i \in 1 .. Len(text) : t[i] = text[i]
OBVIOUS

\* The linefeeds of a text with a byte more.
LEMMA FeedsLonger ==
    ASSUME NEW text \in Seq(Byte), NEW b \in Byte
    PROVE  Feeds(Append(text, b)) = Feeds(text) \cup (IF b = LF THEN {Len(text) + 1} ELSE {})
<1> DEFINE t == Append(text, b)
           n == Len(text)
<1>1. /\ n \in Nat /\ DOMAIN text = 1 .. n /\ DOMAIN t = 1 .. n + 1
      /\ t[n + 1] = b /\ \A i \in 1 .. n : t[i] = text[i]
  BY LongerIs
<1> HIDE DEF t, n
<1>2. \A i \in 1 .. n + 1 : i \in 1 .. n \/ i = n + 1
  BY <1>1
<1>3. n + 1 \in 1 .. n + 1 /\ n + 1 \notin 1 .. n /\ 1 .. n \subseteq 1 .. n + 1
  BY <1>1
<1>4. Feeds(t) = Feeds(text) \cup (IF b = LF THEN {n + 1} ELSE {})
  BY <1>1, <1>2, <1>3 DEF Feeds
<1> QED BY <1>4 DEF t, n

\* The places of a text are places of one that begins with it.
LEMMA RankedLonger ==
    ASSUME NEW text \in Seq(Byte), NEW b \in Byte, NEW E, Ranked(text, E)
    PROVE  Ranked(Append(text, b), E)
<1>1. Len(Append(text, b)) = Len(text) + 1 /\ Len(text) \in Nat
  BY LongerIs
<1>2. 1 .. Len(text) \subseteq 1 .. Len(Append(text, b))
  BY <1>1
<1> QED BY <1>2 DEF Ranked

\* The linefeeds have their numbers.
LEMMA FeedsRanked == ASSUME NEW text \in Seq(Byte) PROVE Ranked(text, Feeds(text))
<1> DEFINE G == {t \in Seq(Byte) : Ranked(t, Feeds(t))}
<1>1. <<>> \in G
  <2>1. Feeds(<<>>) = {} /\ <<>> \in Seq(Byte) /\ Len(<<>>) = 0
    BY DEF Feeds
  <2>2. IsFiniteSet({}) /\ Cardinality({}) = 0
    BY FS_EmptySet
  <2>3. Ranked(<<>>, {})
    BY <2>1, <2>2 DEF Ranked
  <2> QED BY <2>1, <2>3
<1>2. ASSUME NEW t \in Seq(Byte), NEW b \in Byte, t \in G PROVE Append(t, b) \in G
  <2> DEFINE u == Append(t, b)
             n == Len(t) + 1
  <2>1. u \in Seq(Byte) /\ Len(u) = n /\ n \in 1 .. n /\ Len(t) \in Nat
    BY LongerIs
  <2>2. Ranked(t, Feeds(t)) /\ Ranked(u, Feeds(t))
    BY <1>2, RankedLonger
  <2>3. Feeds(u) = Feeds(t) \cup (IF b = LF THEN {n} ELSE {})
    BY FeedsLonger
  <2>4. \A e \in Feeds(t) : e < n
    BY <2>1, <2>2 DEF Ranked
  <2> HIDE DEF u, n
  <2>5. CASE b = LF
    <3>1. Ranked(u, Feeds(t) \cup {n})
      BY <2>1, <2>2, <2>4, OneMoreEnd
    <3> QED BY <2>1, <2>3, <2>5, <3>1 DEF u
  <2>6. CASE b # LF
    BY <2>1, <2>2, <2>3, <2>6 DEF u
  <2> QED BY <2>5, <2>6
<1> HIDE DEF G
<1>3. text \in G
  BY <1>1, <1>2, SequenceInduction
<1> QED BY <1>3 DEF G

\* The last linefeed.
LEMMA LastFeedIs ==
    ASSUME NEW text \in Seq(Byte)
    PROVE  /\ LastFeed(text) \in 0 .. Len(text) /\ LastFeed(text) \in Feeds(text) \cup {0}
           /\ \A e \in Feeds(text) : e =< LastFeed(text)
           /\ Rest(text) \in Seq(Byte) /\ Len(Rest(text)) = Len(text) - LastFeed(text)
<1> DEFINE Z == Feeds(text) \cup {0}
           n == Len(text)
<1>1. n \in Nat /\ \A z \in Z : z \in 0 .. n
  <2>1. n \in Nat /\ \A z \in Feeds(text) : z \in 1 .. n
    BY FeedsRanked, SeqIs DEF Ranked
  <2> QED BY <2>1
<1>2. Z \in SUBSET Nat /\ Z # {} /\ \A z \in Z : z =< n
  <2>1. 0 \in Z
    OBVIOUS
  <2> HIDE DEF Z
  <2> QED BY <1>1, <2>1
<1> HIDE DEF Z, n
<1>3. Max(Z) \in Z /\ \A y \in Z : y =< Max(Z)
  BY <1>1, <1>2, MaxIn
<1>4. LastFeed(text) \in 0 .. n /\ LastFeed(text) \in Z /\ \A y \in Z : y =< LastFeed(text)
  BY <1>1, <1>3 DEF LastFeed, Z
<1> DEFINE l == LastFeed(text)
<1> HIDE DEF l
<1>5. l \in 0 .. n /\ n \in 0 .. Len(text) /\ l \in 0 .. n
  BY <1>1, <1>4 DEF n, l
<1>6. SubSeq(text, l + 1, n) \in Seq(Byte) /\ Len(SubSeq(text, l + 1, n)) = n - l
  BY <1>5, PartIs
<1> QED BY <1>4, <1>6 DEF Z, n, l, Rest

\* The lines up to the same places are the same.
LEMMA LinesLonger ==
    ASSUME NEW text \in Seq(Byte), NEW b \in Byte, NEW E, Ranked(text, E)
    PROVE  LinesTo(Append(text, b), E) = LinesTo(text, E)
<1> DEFINE t == Append(text, b)
           m == Cardinality(E)
           new == LinesTo(t, E)
           old == LinesTo(text, E)
           n == Len(text)
<1>1. Ranked(t, E) /\ t \in Seq(Byte) /\ n \in Nat /\ Len(t) = n + 1
      /\ \A i \in 1 .. n : t[i] = text[i]
  BY RankedLonger, LongerIs
<1>2. /\ old \in Seq(Seq(Byte)) /\ Len(old) = m
      /\ \A i \in 1 .. m : EndAt(E, E, i) \in E /\ old[i] = LineTo(text, E \cup {0}, EndAt(E, E, i))
  BY LinesType
<1> HIDE DEF t
<1>3. /\ new \in Seq(Seq(Byte)) /\ Len(new) = m
      /\ \A i \in 1 .. m : EndAt(E, E, i) \in E /\ new[i] = LineTo(t, E \cup {0}, EndAt(E, E, i))
  BY <1>1, LinesType
<1> HIDE DEF new, old
<1>4. ASSUME NEW i \in 1 .. m PROVE new[i] = old[i]
  <2> DEFINE e == EndAt(E, E, i)
             a == Max({z \in E \cup {0} : z < e})
  <2>1. e \in 1 .. n
    BY <1>2 DEF Ranked
  <2>2. a \in 0 .. e - 1
    <3> HIDE DEF e
    <3> QED BY <2>1, LineType
  <2>3. new[i] = SubSeq(t, a + 1, e) /\ old[i] = SubSeq(text, a + 1, e)
    BY <1>2, <1>3 DEF LineTo
  <2> HIDE DEF a, e
  <2>4. a \in 0 .. e /\ e \in 0 .. n /\ e \in 0 .. Len(t)
    BY <1>1, <2>1, <2>2
  <2> DEFINE s == SubSeq(t, a + 1, e)
             u == SubSeq(text, a + 1, e)
  <2>5. s \in Seq(Byte) /\ Len(s) = e - a /\ \A j \in 1 .. e - a : s[j] = t[a + j]
    BY <1>1, <2>4, PartIs
  <2>6. u \in Seq(Byte) /\ Len(u) = e - a /\ \A j \in 1 .. e - a : u[j] = text[a + j]
    BY <2>4, PartIs
  <2>7. \A j \in 1 .. e - a : a + j \in 1 .. n
    BY <1>1, <2>4
  <2> HIDE DEF s, u
  <2>8. s = u
    BY SMTT(30), <1>1, <2>5, <2>6, <2>7, SameSeq
  <2> QED BY <2>3, <2>8 DEF s, u
<1>5. new = old
  BY <1>2, <1>3, <1>4, SameSeq
<1> QED BY <1>5 DEF new, old, t

\* The lines of a text that has not ended.
LEMMA LinesOpen ==
    ASSUME NEW text \in Seq(Byte)
    PROVE  /\ Contract!Lines(text, FALSE) = LinesTo(text, Feeds(text))
           /\ Contract!Lines(text, FALSE) \in Seq(Seq(Byte))
<1>1. Ends(text, FALSE) = Feeds(text)
  BY DEF Ends
<1>2. Contract!Lines(text, FALSE) = LinesTo(text, Feeds(text))
  BY <1>1, LinesAre
<1>3. LinesTo(text, Feeds(text)) \in Seq(Seq(Byte))
  BY FeedsRanked, LinesType
<1> QED BY <1>2, <1>3

\* What is behind the last linefeed, with a byte more.
LEMMA RestLonger ==
    ASSUME NEW text \in Seq(Byte), NEW b \in Byte
    PROVE  /\ b # LF => Rest(Append(text, b)) = Append(Rest(text), b)
           /\ b = LF => Rest(Append(text, b)) = <<>>
           /\ SubSeq(Append(text, b), LastFeed(text) + 1, Len(text) + 1) = Append(Rest(text), b)
<1> DEFINE t == Append(text, b)
           n == Len(text)
           l == LastFeed(text)
           r == Rest(text)
           s == SubSeq(t, l + 1, n + 1)
           u == Append(r, b)
<1>1. /\ n \in Nat /\ t \in Seq(Byte) /\ Len(t) = n + 1
      /\ t[n + 1] = b /\ \A i \in 1 .. n : t[i] = text[i]
  BY LongerIs
<1>2. l \in 0 .. n /\ \A e \in Feeds(text) : e =< l
  BY LastFeedIs
<1>3. r \in Seq(Byte) /\ Len(r) = n - l /\ \A i \in 1 .. n - l : r[i] = text[l + i]
  <2> DEFINE k == Len(text)
  <2>1. k \in 0 .. Len(text) /\ l \in 0 .. k
    BY <1>1, <1>2
  <2> HIDE DEF k, l
  <2>2. /\ SubSeq(text, l + 1, k) \in Seq(Byte) /\ Len(SubSeq(text, l + 1, k)) = k - l
        /\ \A i \in 1 .. k - l : SubSeq(text, l + 1, k)[i] = text[l + i]
    BY <2>1, PartIs
  <2> QED BY <2>2 DEF k, l, Rest
<1> HIDE DEF t, l, r, n
<1>4. s \in Seq(Byte) /\ Len(s) = (n + 1) - l /\ \A i \in 1 .. (n + 1) - l : s[i] = t[l + i]
  <2> DEFINE k == n + 1
  <2>1. k \in 0 .. Len(t) /\ l \in 0 .. k
    BY <1>1, <1>2
  <2> HIDE DEF k
  <2>2. /\ SubSeq(t, l + 1, k) \in Seq(Byte) /\ Len(SubSeq(t, l + 1, k)) = k - l
        /\ \A i \in 1 .. k - l : SubSeq(t, l + 1, k)[i] = t[l + i]
    BY <1>1, <2>1, PartIs
  <2> QED BY <2>2 DEF k
<1>5. /\ u \in Seq(Byte) /\ Len(u) = (n + 1) - l /\ u[n - l + 1] = b
      /\ \A i \in 1 .. n - l : u[i] = r[i]
  <2>1. /\ u \in Seq(Byte) /\ Len(u) = Len(r) + 1 /\ u[Len(r) + 1] = b
        /\ \A i \in 1 .. Len(r) : u[i] = r[i]
    BY <1>3, LongerIs
  <2>2. n - l + 1 = (n + 1) - l
    BY <1>1, <1>2
  <2> HIDE DEF u
  <2> QED BY <1>3, <2>1, <2>2
<1> HIDE DEF s, u
<1>6. ASSUME NEW i \in 1 .. (n + 1) - l PROVE s[i] = u[i]
  <2>1. CASE i \in 1 .. n - l
    <3>1. l + i \in 1 .. n
      BY <1>1, <1>2, <2>1
    <3> QED BY <1>1, <1>3, <1>4, <1>5, <2>1, <3>1
  <2>2. CASE i = n - l + 1
    <3>1. l + i = n + 1
      BY <1>1, <1>2, <2>2
    <3> QED BY <1>1, <1>4, <1>5, <2>2, <3>1
  <2> QED BY <1>1, <1>2, <2>1, <2>2
<1>7. s = u
  BY <1>4, <1>5, <1>6, SameSeq
<1>8. Feeds(t) = Feeds(text) \cup (IF b = LF THEN {n + 1} ELSE {})
  BY FeedsLonger DEF t, n
<1>9. CASE b # LF
  <2>1. Feeds(t) = Feeds(text)
    BY <1>8, <1>9
  <2>2. LastFeed(t) = l
    BY <2>1 DEF LastFeed, l
  <2> QED BY <1>1, <1>7, <1>9, <2>2 DEF Rest, s, t, u, r, l, n
<1>10. CASE b = LF
  <2>1. n + 1 \in Feeds(t)
    BY <1>8, <1>10
  <2>2. LastFeed(t) \in 0 .. n + 1 /\ n + 1 =< LastFeed(t)
    BY <1>1, <2>1, LastFeedIs
  <2>3. Rest(t) \in Seq(Byte) /\ Len(Rest(t)) = (n + 1) - LastFeed(t)
    BY <1>1, LastFeedIs
  <2>4. Len(Rest(t)) = 0
    BY <1>1, <2>2, <2>3
  <2>5. Rest(t) = <<>>
    BY <2>3, <2>4
  <2> QED BY <1>7, <1>10, <2>5 DEF s, t, u, r, l, n
<1> QED BY <1>9, <1>10

\* One byte more ends a line, or not.
LEMMA LinesNext ==
    ASSUME NEW text \in Seq(Byte), NEW b \in Byte
    PROVE  /\ b = LF => Contract!Lines(Append(text, b), FALSE) =
                          Append(Contract!Lines(text, FALSE), Append(Rest(text), b))
           /\ b # LF => Contract!Lines(Append(text, b), FALSE) = Contract!Lines(text, FALSE)
<1> DEFINE t == Append(text, b)
           n == Len(text) + 1
           E == Feeds(text)
<1>1. /\ t \in Seq(Byte) /\ Len(t) = n /\ n \in 1 .. Len(t) /\ Len(text) \in Nat
  BY LongerIs
<1>2. Ranked(text, E) /\ Ranked(t, E)
  BY FeedsRanked, RankedLonger
<1>3. /\ Contract!Lines(text, FALSE) = LinesTo(text, E)
      /\ Contract!Lines(t, FALSE) = LinesTo(t, Feeds(t))
  BY <1>1, LinesOpen
<1>4. LinesTo(t, E) = LinesTo(text, E)
  BY <1>2, LinesLonger
<1>5. Feeds(t) = E \cup (IF b = LF THEN {n} ELSE {})
  BY FeedsLonger
<1>6. \A e \in E : e < n
  BY <1>1, <1>2 DEF Ranked
<1>7. SubSeq(t, LastFeed(text) + 1, n) = Append(Rest(text), b)
  BY RestLonger
<1> HIDE DEF n, E, t
<1>8. LinesTo(t, E \cup {n}) = Append(LinesTo(t, E), SubSeq(t, Max(E \cup {0}) + 1, n))
  BY <1>1, <1>2, <1>6, OneMoreEnd
<1>9. SubSeq(t, Max(E \cup {0}) + 1, n) = Append(Rest(text), b)
  BY <1>7 DEF LastFeed, E
<1>10. CASE b = LF
  <2>1. Feeds(t) = E \cup {n}
    BY <1>5, <1>10
  <2> QED BY <1>3, <1>4, <1>8, <1>9, <1>10, <2>1 DEF t
<1>11. CASE b # LF
  <2>1. Feeds(t) = E
    BY <1>5, <1>11
  <2> QED BY <1>3, <1>4, <1>11, <2>1 DEF t
<1> QED BY <1>10, <1>11

\* What is left at the end is a line of its own.
LEMMA LinesEnd ==
    ASSUME NEW text \in Seq(Byte)
    PROVE  /\ Rest(text) = <<>> => Contract!Lines(text, TRUE) = Contract!Lines(text, FALSE)
           /\ Rest(text) # <<>> => Contract!Lines(text, TRUE) =
                                     Append(Contract!Lines(text, FALSE), Rest(text))
<1> DEFINE n == Len(text)
           E == Feeds(text)
           l == LastFeed(text)
<1>1. n \in Nat
  BY SeqIs
<1>2. Ranked(text, E)
  BY FeedsRanked
<1>3. /\ Contract!Lines(text, FALSE) = LinesTo(text, E)
      /\ Contract!Lines(text, TRUE) = LinesTo(text, Ends(text, TRUE))
  BY LinesOpen, LinesAre
<1>4. l \in 0 .. n /\ l \in E \cup {0} /\ (\A e \in E : e =< l)
      /\ Rest(text) \in Seq(Byte) /\ Len(Rest(text)) = n - l
  BY LastFeedIs
<1>5. Ends(text, TRUE) = E \cup (IF text # <<>> THEN {n} ELSE {})
  BY DEF Ends
<1>6. text = <<>> <=> n = 0
  OBVIOUS
<1>7. Rest(text) = <<>> <=> n = l
  BY <1>1, <1>4
<1> HIDE DEF n, E, l
<1>8. CASE n = l
  <2>1. Ends(text, TRUE) = E
    BY <1>4, <1>5, <1>6, <1>8
  <2> QED BY <1>3, <1>7, <1>8, <2>1
<1>9. CASE n # l
  <2>1. n \in 1 .. Len(text) /\ \A e \in E : e < n
    <3>1. \A e \in E : e \in 1 .. n
      BY <1>2 DEF Ranked, n
    <3> QED BY <1>1, <1>4, <1>9, <3>1 DEF n
  <2>2. Ends(text, TRUE) = E \cup {n}
    <3>1. text # <<>>
      BY <1>6, <2>1
    <3> QED BY <1>5, <3>1
  <2>3. LinesTo(text, E \cup {n}) = Append(LinesTo(text, E), SubSeq(text, Max(E \cup {0}) + 1, n))
    BY <1>2, <2>1, OneMoreEnd
  <2>4. SubSeq(text, Max(E \cup {0}) + 1, n) = Rest(text)
    BY DEF Rest, LastFeed, E, n
  <2> QED BY <1>3, <1>7, <1>9, <2>2, <2>3, <2>4
<1> QED BY <1>8, <1>9

\* Before the first byte there is no line.
LEMMA NoLines == Rest(<<>>) = <<>> /\ Contract!Lines(<<>>, FALSE) = <<>>
<1>1. <<>> \in Seq(Byte) /\ Len(<<>>) = 0
  OBVIOUS
<1>2. LastFeed(<<>>) \in 0 .. 0 /\ Rest(<<>>) \in Seq(Byte)
      /\ Len(Rest(<<>>)) = 0 - LastFeed(<<>>)
  BY <1>1, LastFeedIs
<1>3. Len(Rest(<<>>)) = 0
  BY <1>2
<1>4. Rest(<<>>) = <<>>
  BY <1>2, <1>3
<1>5. Feeds(<<>>) = {}
  BY DEF Feeds
<1>6. Contract!Lines(<<>>, FALSE) \in Seq(Seq(Byte)) /\ Len(Contract!Lines(<<>>, FALSE)) = 0
  <2>1. Len(LinesTo(<<>>, Feeds(<<>>))) = Cardinality(Feeds(<<>>))
    BY <1>1, FeedsRanked, LinesType
  <2>2. Cardinality(Feeds(<<>>)) = 0
    BY <1>5, FS_EmptySet
  <2> QED BY <1>1, <2>1, <2>2, LinesOpen
<1> DEFINE ls == Contract!Lines(<<>>, FALSE)
<1>7. ls \in Seq(Seq(Byte)) /\ Len(ls) = 0
  BY <1>6 DEF ls
<1> HIDE DEF ls
<1>8. ls = <<>>
  BY <1>7
<1> QED BY <1>4, <1>8 DEF ls

-------------------------------------------------------------------------------
(* The matches in a line                                                    *)

\* A pair whose fixed string is one text.
Fine(pair) == pair \in Pair /\ (~ pair.regex => Len(pair.match) = 1 /\ ~ pair.anchored)

\* What is behind the place i of a text.
From(text, i) == SubSeq(text, i, Len(text))

\* That is a text.
LEMMA FromIs ==
    ASSUME NEW text \in Seq(Byte), NEW i \in 1 .. Len(text) + 1
    PROVE  /\ From(text, i) \in Seq(Byte) /\ Len(From(text, i)) = Len(text) + 1 - i
           /\ \A j \in 1 .. (Len(text) + 1) - i : From(text, i)[j] = text[(i - 1) + j]
<1> DEFINE a == i - 1
           n == Len(text)
<1>1. n \in 0 .. Len(text) /\ a \in 0 .. n /\ i = a + 1 /\ n \in Nat
  OBVIOUS
<1> HIDE DEF a, n
<1>2. /\ SubSeq(text, a + 1, n) \in Seq(Byte) /\ Len(SubSeq(text, a + 1, n)) = n - a
      /\ \A j \in 1 .. n - a : SubSeq(text, a + 1, n)[j] = text[a + j]
  BY <1>1, PartIs
<1>3. n - a = (n + 1) - i /\ n + 1 - i = (n + 1) - i
  BY <1>1
<1>4. From(text, i) = SubSeq(text, a + 1, n)
  BY <1>1 DEF From, n
<1> QED BY <1>1, <1>2, <1>3, <1>4 DEF a, n

\* The texts of the pair that fit at the place i.
Fitting(line, pair, i) ==
    {n \in DOMAIN pair.match : /\ pair.regex \/ pair.match[n] # <<>>
                               /\ IsPrefix(pair.match[n], From(line, i))}

\* The contract says the same.
LEMMA FittingIs ==
    ASSUME NEW line, NEW pair
    PROVE  /\ \A i : Contract!Fitting(line, pair, i) = Fitting(line, pair, i)
           /\ Contract!Matches(line, pair) = {i \in DOMAIN line : Fitting(line, pair, i) # {}}
           /\ \A i : Contract!SizeAt(line, pair, i) = Len(pair.match[Min(Fitting(line, pair, i))])
<1>1. \A i : Contract!Fitting(line, pair, i) = Fitting(line, pair, i)
  BY SameOperators DEF Contract!Fitting, Fitting, From
<1>2. Contract!Matches(line, pair) = {i \in DOMAIN line : Fitting(line, pair, i) # {}}
  BY <1>1 DEF Contract!Matches
<1>3. \A i : Contract!SizeAt(line, pair, i) = Len(pair.match[Min(Fitting(line, pair, i))])
  BY <1>1, SameOperators, Zenon DEF Contract!SizeAt
<1> QED BY <1>1, <1>2, <1>3

\* The text that fits at the place i, and is tried first.
FitsFirst(line, pair, i, n) ==
    /\ n \in DOMAIN pair.match /\ pair.match[n] \in Seq(Byte)
    /\ n \in Fitting(line, pair, i) /\ Contract!SizeAt(line, pair, i) = Len(pair.match[n])
    /\ i + Len(pair.match[n]) =< Len(line) + 1
    /\ \A j \in 1 .. Len(pair.match[n]) : pair.match[n][j] = line[(i - 1) + j]

\* Where there is a match, some text does.
LEMMA MatchIs ==
    ASSUME NEW line \in Seq(Byte), NEW pair \in Pair, NEW i \in Contract!Matches(line, pair)
    PROVE  /\ i \in 1 .. Len(line)
           /\ \A n : n \in Fitting(line, pair, i) /\ (\A k \in Fitting(line, pair, i) : n =< k) =>
                       FitsFirst(line, pair, i, n)
           /\ \E n \in Fitting(line, pair, i) : \A k \in Fitting(line, pair, i) : n =< k
<1> DEFINE F == Fitting(line, pair, i)
<1>1. pair.match \in Seq(Seq(Byte))
  BY DEF Pair
<1>2. i \in 1 .. Len(line) /\ F # {} /\ Len(line) \in Nat
  BY FittingIs, SeqIs
<1>3. \A n \in F : n \in Nat /\ n \in DOMAIN pair.match /\ pair.match[n] \in Seq(Byte)
                   /\ IsPrefix(pair.match[n], From(line, i))
  BY <1>1 DEF Fitting
<1>4. F \in SUBSET Nat
  BY <1>3
<1>5. Contract!SizeAt(line, pair, i) = Len(pair.match[Min(F)])
  BY FittingIs
<1> HIDE DEF F
<1>6. Min(F) \in F /\ \A k \in F : Min(F) =< k
  BY <1>2, <1>4, MinIn
<1>7. ASSUME NEW n \in F, \A k \in F : n =< k PROVE FitsFirst(line, pair, i, n)
  <2>1. n =< Min(F) /\ Min(F) =< n /\ n \in Nat /\ Min(F) \in Nat
    BY <1>3, <1>6, <1>7
  <2>2. n = Min(F)
    BY <2>1
  <2> DEFINE s == pair.match[n]
             t == From(line, i)
  <2>3. s \in Seq(Byte) /\ IsPrefix(s, t) /\ Len(s) \in Nat
    BY <1>3
  <2>4. /\ t \in Seq(Byte) /\ Len(t) = Len(line) + 1 - i
        /\ \A j \in 1 .. (Len(line) + 1) - i : t[j] = line[(i - 1) + j]
    <3>1. i \in 1 .. Len(line) + 1
      BY <1>2
    <3> QED BY <3>1, FromIs
  <2> HIDE DEF s, t
  <2>5. Len(s) =< Len(t) /\ \A j \in 1 .. Len(s) : s[j] = t[j]
    BY <2>3, <2>4, PrefixIs
  <2>6. i + Len(s) =< Len(line) + 1
    BY <1>2, <2>3, <2>4, <2>5
  <2>7. ASSUME NEW j \in 1 .. Len(s) PROVE s[j] = line[(i - 1) + j]
    <3>1. j \in 1 .. (Len(line) + 1) - i
      BY <1>2, <2>3, <2>6
    <3> QED BY <2>4, <2>5, <3>1
  <2> QED BY <1>3, <1>5, <2>2, <2>6, <2>7 DEF FitsFirst, s, F
<1> QED BY <1>2, <1>6, <1>7 DEF F

\* What is behind a place of what is behind another.
LEMMA FromFrom ==
    ASSUME NEW text \in Seq(Byte), NEW p \in 0 .. Len(text), NEW i \in 1 .. (Len(text) - p) + 1
    PROVE  From(From(text, p + 1), i) = From(text, p + i)
<1> DEFINE n == Len(text)
           s == From(text, p + 1)
           t == From(s, i)
           u == From(text, p + i)
<1>1. n \in Nat /\ p \in Nat /\ p =< n /\ p + 1 \in 1 .. n + 1 /\ p + i \in 1 .. n + 1
      /\ i \in 1 .. (n - p) + 1
  BY SeqIs
<1>2. /\ s \in Seq(Byte) /\ Len(s) = n + 1 - (p + 1)
      /\ \A j \in 1 .. (n + 1) - (p + 1) : s[j] = text[((p + 1) - 1) + j]
  BY <1>1, FromIs
<1>3. /\ u \in Seq(Byte) /\ Len(u) = n + 1 - (p + i)
      /\ \A j \in 1 .. (n + 1) - (p + i) : u[j] = text[((p + i) - 1) + j]
  BY <1>1, FromIs
<1>4. Len(s) = n - p
  BY <1>1, <1>2
<1> HIDE DEF s, u, n
<1>5. i \in 1 .. Len(s) + 1
  BY <1>1, <1>4
<1>6. /\ t \in Seq(Byte) /\ Len(t) = Len(s) + 1 - i
      /\ \A j \in 1 .. (Len(s) + 1) - i : t[j] = s[(i - 1) + j]
  BY <1>2, <1>5, FromIs
<1> HIDE DEF t
<1>7. Len(t) = Len(u)
  BY <1>1, <1>3, <1>4, <1>6
<1>8. ASSUME NEW j \in 1 .. Len(t) PROVE t[j] = u[j]
  <2>1. j \in 1 .. (Len(s) + 1) - i /\ j \in 1 .. (n + 1) - (p + i)
        /\ (i - 1) + j \in 1 .. (n + 1) - (p + 1)
        /\ ((p + 1) - 1) + ((i - 1) + j) = ((p + i) - 1) + j
    BY <1>1, <1>4, <1>6
  <2>2. t[j] = s[(i - 1) + j]
    BY <1>6, <2>1
  <2>3. s[(i - 1) + j] = text[((p + 1) - 1) + ((i - 1) + j)]
    BY <1>2, <2>1
  <2>4. u[j] = text[((p + i) - 1) + j]
    BY <1>3, <2>1
  <2> QED BY <2>1, <2>2, <2>3, <2>4
<1>9. t = u
  BY <1>3, <1>6, <1>7, <1>8, SameSeq
<1> QED BY <1>9 DEF s, t, u

\* Where the text behind the place p may match next.
NextPlaces(line, pair, p) ==
    {i \in Contract!Matches(line, pair) : i > p /\ (pair.anchored => i = p + 1)}

\* The place i is the next, and n the text tried first that fits there.
IsNext(line, pair, p, i, n) ==
    /\ i \in NextPlaces(line, pair, p) /\ \A k \in NextPlaces(line, pair, p) : i =< k
    /\ n \in Fitting(line, pair, i) /\ \A k \in Fitting(line, pair, i) : n =< k

\* What fits behind the place p fits in the line.
LEMMA FittingBehind ==
    ASSUME NEW line \in Seq(Byte), NEW pair, NEW p \in 0 .. Len(line),
           NEW i \in 1 .. Len(line) - p
    PROVE  Fitting(From(line, p + 1), pair, i) = Fitting(line, pair, p + i)
<1>1. i \in 1 .. (Len(line) - p) + 1
  OBVIOUS
<1>2. From(From(line, p + 1), i) = From(line, p + i)
  BY <1>1, FromFrom
<1> QED BY <1>2 DEF Fitting

\* subs_memmem: the first place where the string is.
LEMMA MemmemIs ==
    ASSUME NEW l \in Seq(Byte), NEW s \in Seq(Byte)
    PROVE  LET at == {i \in 1 .. Len(l) : s # <<>> /\ IsPrefix(s, From(l, i))} IN
           /\ at = {} => Memmem(l, s) = 0
           /\ at # {} => Memmem(l, s) \in at /\ \A k \in at : Memmem(l, s) =< k
<1> DEFINE at == {i \in 1 .. Len(l) : s # <<>> /\ IsPrefix(s, From(l, i))}
           in == {i \in 1 .. Len(l) - Len(s) + 1 : IsPrefix(s, SubSeq(l, i, Len(l)))}
<1>1. Len(l) \in Nat /\ Len(s) \in Nat
  OBVIOUS
<1>2. CASE s = <<>>
  BY <1>2 DEF Memmem
<1>3. CASE s # <<>>
  <2>1. Len(s) # 0
    BY <1>3
  <2>2. ASSUME NEW i \in 1 .. Len(l), IsPrefix(s, From(l, i)) PROVE i \in 1 .. Len(l) - Len(s) + 1
    <3> DEFINE t == From(l, i)
    <3>1. t \in Seq(Byte) /\ Len(t) = Len(l) + 1 - i
      <4>1. i \in 1 .. Len(l) + 1
        BY <1>1
      <4> QED BY <4>1, FromIs
    <3>2. IsPrefix(s, t)
      BY <2>2
    <3> HIDE DEF t
    <3>3. Len(s) =< Len(t)
      BY <3>1, <3>2, PrefixIs
    <3> QED BY <1>1, <3>1, <3>3
  <2>3. 1 .. Len(l) - Len(s) + 1 \subseteq 1 .. Len(l)
    BY <1>1, <2>1
  <2>4. in = at
    BY <1>3, <2>2, <2>3 DEF From
  <2>5. Memmem(l, s) = IF in = {} THEN 0 ELSE Min(in)
    BY <1>3, Zenon DEF Memmem
  <2>6. at \in SUBSET Nat
    BY <1>1
  <2> HIDE DEF at, in
  <2>7. at # {} => Min(at) \in at /\ \A k \in at : Min(at) =< k
    BY <2>6, MinIn
  <2> QED BY <2>4, <2>5, <2>7 DEF at
<1> QED BY <1>2, <1>3

\* Behind the place p, one finds what is next.
LEMMA NextBehind ==
    ASSUME NEW line \in Seq(Byte), NEW pair, NEW p \in 0 .. Len(line)
    PROVE  LET src == From(line, p + 1) IN
           /\ src \in Seq(Byte) /\ Len(src) = Len(line) - p
           /\ \A i \in 1 .. Len(line) - p :
                p + i \in NextPlaces(line, pair, p) <=>
                  Fitting(src, pair, i) # {} /\ (pair.anchored => i = 1)
           /\ \A k \in NextPlaces(line, pair, p) : k \in Nat /\ k - p \in 1 .. Len(line) - p
<1> DEFINE src == From(line, p + 1)
           n == Len(line)
<1>1. n \in Nat /\ p \in Nat /\ p =< n /\ p + 1 \in 1 .. n + 1 /\ DOMAIN line = 1 .. n
  BY SeqIs
<1>2. src \in Seq(Byte) /\ Len(src) = n - p
  <2>1. src \in Seq(Byte) /\ Len(src) = n + 1 - (p + 1)
    BY <1>1, FromIs
  <2> HIDE DEF src, n
  <2> QED BY <1>1, <2>1
<1>3. Contract!Matches(line, pair) = {i \in 1 .. n : Fitting(line, pair, i) # {}}
  BY <1>1, FittingIs
<1>4. ASSUME NEW i \in 1 .. n - p
      PROVE  p + i \in NextPlaces(line, pair, p) <=>
               Fitting(src, pair, i) # {} /\ (pair.anchored => i = 1)
  <2>1. Fitting(src, pair, i) = Fitting(line, pair, p + i)
    BY FittingBehind
  <2>2. p + i \in 1 .. n /\ p + i > p /\ (p + i = p + 1 <=> i = 1)
    BY <1>1
  <2> QED BY <1>3, <2>1, <2>2 DEF NextPlaces
<1>5. ASSUME NEW k \in NextPlaces(line, pair, p) PROVE k \in Nat /\ k - p \in 1 .. n - p
  <2>1. k \in 1 .. n /\ k > p
    BY <1>3 DEF NextPlaces
  <2> QED BY <1>1, <2>1
<1> QED BY <1>2, <1>4, <1>5

\* What the search finds is the next match, and it finds it.
LEMMA FoundIs ==
    ASSUME NEW line \in Seq(Byte), NEW pair, Fine(pair), NEW p \in 0 .. Len(line)
    PROVE  /\ \A in \in Found(From(line, p + 1), pair) :
                IsNext(line, pair, p, p + in[1], in[2]) /\ in[1] \in 1 .. Len(line) - p
           /\ NextPlaces(line, pair, p) # {} => Found(From(line, p + 1), pair) # {}
<1> DEFINE src == From(line, p + 1)
           K == NextPlaces(line, pair, p)
           n == Len(line) - p
<1>1. /\ src \in Seq(Byte) /\ Len(src) = n
      /\ \A i \in 1 .. n : p + i \in K <=> Fitting(src, pair, i) # {} /\ (pair.anchored => i = 1)
      /\ \A k \in K : k \in Nat /\ k - p \in 1 .. n
  BY NextBehind
<1>2. n \in Nat /\ p \in Nat /\ DOMAIN src = 1 .. n
  BY <1>1, SeqIs
<1>3. \A i \in 1 .. n : Fitting(src, pair, i) = Fitting(line, pair, p + i)
  BY FittingBehind
<1>4. pair.match \in Seq(Seq(Byte)) /\ DOMAIN pair.match \subseteq Nat
  BY DEF Fine, Pair
<1> HIDE DEF src, n, K
<1>5. CASE pair.regex
  <2> DEFINE fits == {in \in (DOMAIN src) \X (DOMAIN pair.match) :
                        /\ pair.anchored => in[1] = 1
                        /\ IsPrefix(pair.match[in[2]], SubSeq(src, in[1], Len(src)))}
  <2>1. Found(src, pair) = {in \in fits : \A other \in fits :
                              in[1] < other[1] \/ (in[1] = other[1] /\ in[2] <= other[2])}
    BY <1>5, Zenon DEF Found, RegexExec
  <2>2. \A i \in 1 .. n : \A m : m \in Fitting(src, pair, i) <=>
          m \in DOMAIN pair.match /\ IsPrefix(pair.match[m], SubSeq(src, i, Len(src)))
    BY <1>5 DEF Fitting, From
  <2>3. ASSUME NEW in \in fits
        PROVE  /\ in[1] \in 1 .. n /\ p + in[1] \in K /\ in[2] \in Fitting(line, pair, p + in[1])
               /\ in[2] \in Nat
    <3>1. in[1] \in 1 .. n /\ in[2] \in DOMAIN pair.match /\ (pair.anchored => in[1] = 1)
          /\ IsPrefix(pair.match[in[2]], SubSeq(src, in[1], Len(src)))
      BY <1>2
    <3>2. in[2] \in Fitting(src, pair, in[1])
      BY <2>2, <3>1
    <3> QED BY <1>1, <1>3, <1>4, <3>1, <3>2
  <2>4. ASSUME NEW i \in 1 .. n, p + i \in K, NEW m \in Fitting(line, pair, p + i)
        PROVE  <<i, m>> \in fits
    <3>1. m \in Fitting(src, pair, i) /\ (pair.anchored => i = 1)
      BY <1>1, <1>3, <2>4
    <3>2. m \in DOMAIN pair.match /\ IsPrefix(pair.match[m], SubSeq(src, i, Len(src)))
      BY <2>2, <3>1
    <3> QED BY <1>2, <3>1, <3>2
  <2> HIDE DEF fits
  <2>5. ASSUME NEW in \in Found(src, pair)
        PROVE  IsNext(line, pair, p, p + in[1], in[2]) /\ in[1] \in 1 .. n
    <3>1. in \in fits /\ \A other \in fits :
            in[1] < other[1] \/ (in[1] = other[1] /\ in[2] <= other[2])
      BY <2>1
    <3>2. /\ in[1] \in 1 .. n /\ p + in[1] \in K /\ in[2] \in Fitting(line, pair, p + in[1])
          /\ in[2] \in Nat
      BY <2>3, <3>1
    <3>3. ASSUME NEW k \in K PROVE p + in[1] =< k
      <4>1. k \in Nat /\ k - p \in 1 .. n /\ k = p + (k - p)
        BY <1>1, <1>2
      <4>2. PICK m : m \in Fitting(line, pair, k)
        <5>1. Fitting(src, pair, k - p) # {}
          BY <1>1, <4>1
        <5> QED BY <1>3, <4>1, <5>1
      <4>3. <<k - p, m>> \in fits
        BY <2>4, <4>1, <4>2
      <4> DEFINE q == k - p
      <4>4. in[1] < <<q, m>>[1] \/ in[1] = <<q, m>>[1]
        BY <3>1, <4>3
      <4>5. in[1] =< q
        <5>1. q \in Nat
          BY <4>1
        <5> HIDE DEF q
        <5> QED BY <3>2, <4>4, <5>1
      <4> QED BY <1>2, <3>2, <4>1, <4>5
    <3>4. ASSUME NEW m \in Fitting(line, pair, p + in[1]) PROVE in[2] =< m
      <4>1. <<in[1], m>> \in fits
        BY <2>4, <3>2
      <4>2. in[1] < <<in[1], m>>[1] \/ (in[1] = <<in[1], m>>[1] /\ in[2] <= <<in[1], m>>[2])
        BY <3>1, <4>1
      <4> QED BY <3>2, <4>2
    <3> QED BY <3>2, <3>3, <3>4 DEF IsNext, K
  <2>6. ASSUME K # {} PROVE Found(src, pair) # {}
    <3>1. K \in SUBSET Nat
      BY <1>1
    <3>2. PICK k \in K : \A l \in K : k =< l
      BY <2>6, <3>1, LeastIn
    <3> DEFINE i == k - p
    <3>3. i \in 1 .. n /\ k = p + i /\ i \in Nat
      BY <1>1, <1>2
    <3> HIDE DEF i
    <3> DEFINE F == Fitting(line, pair, k)
    <3>4. F # {}
      <4>1. Fitting(src, pair, i) # {}
        BY <1>1, <3>3
      <4> QED BY <1>3, <3>3, <4>1
    <3>5. F \in SUBSET Nat
      BY <1>4 DEF Fitting
    <3> HIDE DEF F
    <3>6. PICK m \in F : \A l \in F : m =< l
      BY <3>4, <3>5, LeastIn
    <3>7. <<i, m>> \in fits
      BY <2>4, <3>3, <3>6 DEF F
    <3>8. ASSUME NEW other \in fits
          PROVE  i < other[1] \/ (i = other[1] /\ m <= other[2])
      <4>1. /\ other[1] \in 1 .. n /\ p + other[1] \in K
            /\ other[2] \in Fitting(line, pair, p + other[1])
        BY <2>3
      <4>2. i =< other[1]
        BY <1>2, <3>2, <3>3, <4>1
      <4>3. i = other[1] => m =< other[2]
        BY <3>3, <3>6, <4>1 DEF F
      <4> QED BY <3>3, <4>1, <4>2, <4>3
    <3>9. <<i, m>>[1] = i /\ <<i, m>>[2] = m
      OBVIOUS
    <3>10. <<i, m>> \in Found(src, pair)
      BY <2>1, <3>7, <3>8, <3>9
    <3> QED BY <3>10
  <2> QED BY <2>5, <2>6 DEF src, K, n
<1>6. CASE ~ pair.regex
  <2> DEFINE s == pair.match[1]
             at == {i \in 1 .. Len(src) : s # <<>> /\ IsPrefix(s, From(src, i))}
             m == Memmem(src, s)
  <2>1. Len(pair.match) = 1 /\ ~ pair.anchored /\ s \in Seq(Byte) /\ DOMAIN pair.match = {1}
    BY <1>4, <1>6 DEF Fine
  <2>2. Found(src, pair) = {<<x, 1>> : x \in {m} \ {0}}
    BY <1>6, Zenon DEF Found
  <2>3. /\ at = {} => m = 0
        /\ at # {} => m \in at /\ \A k \in at : m =< k
    BY <1>1, <2>1, MemmemIs
  <2>4. \A i \in 1 .. n : Fitting(src, pair, i) = IF i \in at THEN {1} ELSE {}
    BY <1>1, <1>6, <2>1 DEF Fitting
  <2>5. \A i \in 1 .. n : p + i \in K <=> i \in at
    BY <1>1, <2>1, <2>4
  <2>6. \A i \in at : i \in 1 .. n
    BY <1>1
  <2> HIDE DEF at, m
  <2>7. ASSUME NEW in \in Found(src, pair)
        PROVE  IsNext(line, pair, p, p + in[1], in[2]) /\ in[1] \in 1 .. n
    <3>1. in = <<m, 1>> /\ m # 0
      BY <2>2
    <3>2. in[1] = m /\ in[2] = 1
      BY <3>1
    <3>3. m \in at /\ \A k \in at : m =< k
      BY <2>3, <3>1
    <3>4. m \in 1 .. n /\ p + m \in K
      BY <2>5, <2>6, <3>3
    <3>5. Fitting(line, pair, p + m) = {1}
      BY <1>3, <2>4, <3>3, <3>4
    <3>6. ASSUME NEW k \in K PROVE p + m =< k
      <4>1. k \in Nat /\ k - p \in 1 .. n /\ k = p + (k - p)
        BY <1>1, <1>2
      <4>2. k - p \in at
        BY <2>5, <4>1
      <4> QED BY <1>2, <3>3, <3>4, <4>1, <4>2
    <3> QED BY <3>2, <3>4, <3>5, <3>6 DEF IsNext, K
  <2>8. ASSUME K # {} PROVE Found(src, pair) # {}
    <3>1. PICK k \in K : TRUE
      BY <2>8
    <3>2. k - p \in 1 .. n /\ k = p + (k - p)
      BY <1>1, <1>2, <3>1
    <3>3. k - p \in at
      BY <2>5, <3>1, <3>2
    <3>4. m \in at
      BY <2>3, <3>3
    <3>5. m # 0
      BY <2>6, <3>4
    <3> QED BY <2>2, <3>5
  <2> QED BY <2>7, <2>8 DEF src, K, n
<1>7. pair.regex \in BOOLEAN
  BY DEF Fine, Pair
<1> QED BY <1>5, <1>6, <1>7

\* A match counts if it begins behind those that count before it.
Counts(line, pair, C, i) ==
    /\ \A j \in C : j < i => j + Contract!SizeAt(line, pair, j) <= i
    /\ pair.anchored => i = 1 \/ \E j \in C : j < i /\ j + Contract!SizeAt(line, pair, j) = i

\* There are such matches.
LEMMA CountedExist ==
    ASSUME NEW line \in Seq(Byte), NEW pair
    PROVE  \E C \in SUBSET Contract!Matches(line, pair) :
             \A i \in Contract!Matches(line, pair) : i \in C <=> Counts(line, pair, C, i)
<1> DEFINE M == Contract!Matches(line, pair)
           n == Len(line)
           Fits(k, C) == \A i \in M : i =< k => (i \in C <=> Counts(line, pair, C, i))
           S == {k \in Nat : \E C \in SUBSET {i \in M : i =< k} : Fits(k, C)}
<1>1. n \in Nat /\ \A i \in M : i \in Nat /\ i \in 1 .. n
  <2>1. M = {i \in DOMAIN line : Fitting(line, pair, i) # {}} /\ DOMAIN line = 1 .. n /\ n \in Nat
    BY FittingIs, SeqIs
  <2> HIDE DEF M
  <2> QED BY <2>1
<1> HIDE DEF M, n
<1>2. 0 \in S
  <2>1. {} \in SUBSET {i \in M : i =< 0} /\ Fits(0, {})
    BY <1>1
  <2> QED BY <2>1
<1>3. ASSUME NEW k \in Nat, k \in S PROVE k + 1 \in S
  <2>1. PICK C \in SUBSET {i \in M : i =< k} : Fits(k, C)
    BY <1>3
  <2> DEFINE l == k + 1
             D == IF l \in M /\ Counts(line, pair, C, l) THEN C \cup {l} ELSE C
  <2>2. l \in Nat /\ \A i \in M : (i =< l <=> i =< k \/ i = l) /\ (i =< k => i < l) /\ (i = l => ~ (i =< k))
    BY <1>1
  <2>3. l \notin C /\ ~ (l < l)
    BY <2>1, <2>2
  <2> HIDE DEF l
  <2>4. D \in SUBSET {i \in M : i =< l}
    BY <2>1, <2>2
  <2>5. \A j : j \in D => j \in C \/ j = l
    OBVIOUS
  <2>6. \A j : j \in C => j \in D
    OBVIOUS
  <2>7. l \in M => (l \in D <=> Counts(line, pair, C, l))
    BY <2>3
  <2> HIDE DEF D
  <2>8. ASSUME NEW i \in M, i =< l PROVE Counts(line, pair, D, i) <=> Counts(line, pair, C, i)
    <3>1. ~ (l < i)
      BY <1>1, <2>2, <2>8
    <3> QED BY <2>5, <2>6, <3>1 DEF Counts
  <2>9. ASSUME NEW i \in M, i =< l PROVE i \in D <=> Counts(line, pair, D, i)
    <3>1. CASE i = l
      BY <2>7, <2>8, <2>9, <3>1
    <3>2. CASE i # l
      <4>1. i =< k
        BY <2>2, <2>9, <3>2
      <4>2. i \in C <=> Counts(line, pair, C, i)
        BY <2>1, <4>1
      <4> QED BY <2>5, <2>6, <2>8, <2>9, <3>2, <4>2
    <3> QED BY <3>1, <3>2
  <2>10. l \in S
    BY <2>2, <2>4, <2>9
  <2> QED BY <2>10 DEF l
<1> HIDE DEF S
<1>4. n \in S
  BY <1>1, <1>2, <1>3, Induction
<1>5. PICK C \in SUBSET {i \in M : i =< n} : Fits(n, C)
  BY <1>4 DEF S
<1>6. C \in SUBSET M /\ \A i \in M : i \in C <=> Counts(line, pair, C, i)
  BY <1>1, <1>5
<1> QED BY <1>6 DEF M

\* The contract has them in Counted.
LEMMA CountedIs ==
    ASSUME NEW line \in Seq(Byte), NEW pair
    PROVE  LET M == Contract!Matches(line, pair)
               C == Contract!Counted(line, pair)
           IN C \in SUBSET M /\ \A i \in M : i \in C <=> Counts(line, pair, C, i)
<1> DEFINE M == Contract!Matches(line, pair)
           end == [i \in M |-> i + Contract!SizeAt(line, pair, i)]
           Rule(C) == \A i \in M :
             i \in C <=> LET before == {j \in C : j < i}
                         IN /\ \A j \in before : end[j] <= i
                            /\ pair.anchored => i = 1 \/ \E j \in before : end[j] = i
           C0 == Contract!Counted(line, pair)
<1>1. C0 = CHOOSE C \in SUBSET M : Rule(C)
  BY Zenon DEF Contract!Counted
<1>2. ASSUME NEW C \in SUBSET M
      PROVE  Rule(C) <=> \A i \in M : i \in C <=> Counts(line, pair, C, i)
  <2>1. \A j \in C : end[j] = j + Contract!SizeAt(line, pair, j)
    OBVIOUS
  <2> HIDE DEF end
  <2> QED BY <2>1 DEF Counts
<1>3. \E C \in SUBSET M : Rule(C)
  <2>1. \E C \in SUBSET M : \A i \in M : i \in C <=> Counts(line, pair, C, i)
    BY CountedExist
  <2> HIDE DEF Rule, M
  <2> QED BY <1>2, <2>1
<1> HIDE DEF Rule, M, C0
<1>4. C0 \in SUBSET M /\ Rule(C0)
  BY <1>1, <1>3
<1>5. \A i \in M : i \in C0 <=> Counts(line, pair, C0, i)
  BY <1>2, <1>4
<1> QED BY <1>4, <1>5 DEF M, C0

\* Where a match is, and how far it goes.
LEMMA SizeIs ==
    ASSUME NEW line \in Seq(Byte), NEW pair \in Pair, NEW i \in Contract!Matches(line, pair)
    PROVE  /\ i \in 1 .. Len(line) /\ Contract!SizeAt(line, pair, i) \in Nat
           /\ i + Contract!SizeAt(line, pair, i) =< Len(line) + 1
<1>1. PICK n \in Fitting(line, pair, i) : \A k \in Fitting(line, pair, i) : n =< k
  BY MatchIs
<1>2. i \in 1 .. Len(line) /\ FitsFirst(line, pair, i, n)
  BY <1>1, MatchIs
<1>3. Len(pair.match[n]) \in Nat
  BY <1>2 DEF FitsFirst
<1> QED BY <1>2, <1>3 DEF FitsFirst

\* The matches that count up to the place p end there or before; behind an
\* expression bound to the beginning, one of them ends right there.
Cut(line, pair, p) ==
    /\ \A j \in Contract!Counted(line, pair) : j =< p => j + Contract!SizeAt(line, pair, j) =< p + 1
    /\ pair.anchored => p = 0 \/ \E j \in Contract!Counted(line, pair) :
                                   j =< p /\ j + Contract!SizeAt(line, pair, j) = p + 1

\* The next place is that of the next match that counts.
LEMMA CutNext ==
    ASSUME NEW line \in Seq(Byte), NEW pair \in Pair, NEW p \in 0 .. Len(line),
           Cut(line, pair, p)
    PROVE  LET C == Contract!Counted(line, pair)
               size(i) == Contract!SizeAt(line, pair, i)
           IN /\ \A j \in C : j > p => \E k \in NextPlaces(line, pair, p) : k =< j
              /\ \A i, n : IsNext(line, pair, p, i, n) => i \in C /\ \A j \in C : j > p => i =< j
              /\ \A i, n : IsNext(line, pair, p, i, n) /\ size(i) > 0 =>
                             Cut(line, pair, (i + size(i)) - 1)
<1> DEFINE C == Contract!Counted(line, pair)
           M == Contract!Matches(line, pair)
           K == NextPlaces(line, pair, p)
           size(i) == Contract!SizeAt(line, pair, i)
<1>1. C \in SUBSET M /\ \A i \in M : i \in C <=> Counts(line, pair, C, i)
  BY CountedIs
<1>2. \A i \in M : i \in Nat \ {0} /\ size(i) \in Nat
  <2>1. ASSUME NEW i \in M PROVE i \in Nat \ {0} /\ size(i) \in Nat
    BY SizeIs
  <2> QED BY <2>1
<1>3. \A i : i \in K <=> i \in M /\ i > p /\ (pair.anchored => i = p + 1)
  BY DEF NextPlaces
<1>4. /\ \A j \in C : j =< p => j + size(j) =< p + 1
      /\ pair.anchored => p = 0 \/ \E j \in C : j =< p /\ j + size(j) = p + 1
  BY DEF Cut
<1>5. \A i \in M : Counts(line, pair, C, i) <=>
        /\ \A j \in C : j < i => j + size(j) =< i
        /\ pair.anchored => i = 1 \/ \E j \in C : j < i /\ j + size(j) = i
  BY DEF Counts
<1>6. p \in Nat
  OBVIOUS
<1>c. Cut(line, pair, p) <=> TRUE
  OBVIOUS
<1> DEFINE q(i) == (i + size(i)) - 1
<1>7. \A i : Cut(line, pair, q(i)) <=>
        /\ \A j \in C : j =< q(i) => j + size(j) =< q(i) + 1
        /\ pair.anchored => q(i) = 0 \/ \E j \in C : j =< q(i) /\ j + size(j) = q(i) + 1
  BY DEF Cut
<1> HIDE DEF C, M, K, size
<1>8. ASSUME NEW j \in C, j > p PROVE \E k \in K : k =< j
  <2> DEFINE S == {k \in C : k > p}
  <2>1. S \in SUBSET Nat /\ j \in S
    BY <1>1, <1>2, <1>8
  <2>2. PICK k \in S : \A x \in S : k =< x
    BY <2>1, LeastIn
  <2>3. k \in C /\ k > p /\ k \in M /\ k \in Nat \ {0} /\ k =< j
    BY <1>1, <1>2, <2>1, <2>2
  <2>4. \A x \in C : x < k => x =< p
    BY <1>1, <1>2, <1>6, <2>2, <2>3
  <2> HIDE DEF S
  <2>5. pair.anchored => k = p + 1
    <3> SUFFICES ASSUME pair.anchored PROVE k = p + 1
      OBVIOUS
    <3>1. k = 1 \/ \E x \in C : x < k /\ x + size(x) = k
      BY <1>1, <1>5, <2>3
    <3>2. CASE k = 1
      BY <1>6, <2>3, <3>2
    <3>3. ASSUME NEW x \in C, x < k, x + size(x) = k PROVE k = p + 1
      <4>1. x + size(x) =< p + 1
        BY <1>4, <2>4, <3>3
      <4> QED BY <1>6, <2>3, <3>3, <4>1
    <3> QED BY <3>1, <3>2, <3>3
  <2> QED BY <1>3, <2>3, <2>5
<1>9. ASSUME NEW i, NEW n, IsNext(line, pair, p, i, n)
      PROVE  i \in C /\ (\A j \in C : j > p => i =< j) /\ i \in M /\ i > p
  <2>1. i \in K /\ \A k \in K : i =< k
    BY <1>9 DEF IsNext, K
  <2>2. i \in M /\ i > p /\ (pair.anchored => i = p + 1) /\ i \in Nat \ {0}
    BY <1>2, <1>3, <2>1
  <2>3. \A k \in K : k \in Nat
    BY <1>2, <1>3
  <2>4. ASSUME NEW j \in C, j > p PROVE i =< j
    <3>1. PICK k \in K : k =< j
      BY <1>8, <2>4
    <3>2. i =< k /\ k \in Nat /\ j \in Nat
      BY <1>1, <1>2, <2>1, <2>3
    <3> QED BY <2>2, <3>1, <3>2
  <2>5. ASSUME NEW j \in C, j < i PROVE j =< p /\ j + size(j) =< i
    <3>1. j \in Nat /\ size(j) \in Nat
      BY <1>1, <1>2
    <3>2. j =< p
      BY <1>6, <2>2, <2>4, <2>5, <3>1
    <3>3. j + size(j) =< p + 1
      BY <1>4, <3>2
    <3> QED BY <1>6, <2>2, <3>1, <3>2, <3>3
  <2>6. pair.anchored => i = 1 \/ \E j \in C : j < i /\ j + size(j) = i
    <3> SUFFICES ASSUME pair.anchored PROVE i = 1 \/ \E j \in C : j < i /\ j + size(j) = i
      OBVIOUS
    <3>1. CASE p = 0
      BY <2>2, <3>1
    <3>2. CASE p # 0
      <4>1. PICK j \in C : j =< p /\ j + size(j) = p + 1
        BY <1>4, <3>2
      <4>2. j < i /\ j + size(j) = i
        <5>1. j \in Nat
          BY <1>1, <1>2
        <5> QED BY <1>6, <2>2, <4>1, <5>1
      <4> QED BY <4>2
    <3> QED BY <3>1, <3>2
  <2>7. i \in C
    BY <1>1, <1>5, <2>2, <2>5, <2>6
  <2> QED BY <2>2, <2>4, <2>7
<1>10. ASSUME NEW i, NEW n, IsNext(line, pair, p, i, n), size(i) > 0 PROVE Cut(line, pair, q(i))
  <2>1. i \in C /\ (\A j \in C : j > p => i =< j) /\ i > p /\ i \in Nat /\ size(i) \in Nat
    BY <1>1, <1>2, <1>9, <1>10
  <2>2. ASSUME NEW j \in C, j =< q(i) PROVE j + size(j) =< q(i) + 1
    <3>1. j \in Nat /\ size(j) \in Nat /\ j \in M
      BY <1>1, <1>2
    <3>2. CASE j =< p
      <4>1. j + size(j) =< p + 1
        BY <1>4, <3>2
      <4> QED BY <1>6, <1>10, <2>1, <3>1, <4>1
    <3>3. CASE j = i
      BY <2>1, <3>3
    <3>4. CASE i < j
      <4>1. i + size(i) =< j
        BY <1>1, <1>5, <2>1, <3>1, <3>4
      <4> QED BY <2>1, <2>2, <3>1, <4>1
    <3>5. j =< p \/ j = i \/ i < j
      BY <1>6, <2>1, <3>1
    <3> QED BY <3>2, <3>3, <3>4, <3>5
  <2>3. i =< q(i) /\ i + size(i) = q(i) + 1
    BY <1>10, <2>1
  <2> QED BY <1>7, <2>1, <2>2, <2>3
<1> QED BY <1>8, <1>9, <1>10 DEF C, K, size

-------------------------------------------------------------------------------
(* What a pair makes of a line                                              *)

\* The bytes of a text behind the place a, up to the place b.
Between(text, a, b) == SubSeq(text, a + 1, b)

\* One byte more of it.
LEMMA BetweenLonger ==
    ASSUME NEW S, NEW line \in Seq(S), NEW m \in 1 .. Len(line), NEW k, k = m - 1,
           NEW a \in 0 .. k
    PROVE  /\ Between(line, a, k) \in Seq(S)
           /\ Between(line, a, m) = Between(line, a, k) \o <<line[m]>>
<1> DEFINE s == Between(line, a, k)
           t == <<line[m]>>
           u == Between(line, a, m)
           v == s \o t
<1>1. Len(line) \in Nat /\ line[m] \in S
  BY SeqIs
<1>2. k \in 0 .. Len(line) /\ m \in 0 .. Len(line) /\ a \in 0 .. m /\ a \in 0 .. k /\ k \in Nat
  BY <1>1
<1>3. s \in Seq(S) /\ Len(s) = k - a /\ \A i \in 1 .. k - a : s[i] = line[a + i]
  BY <1>2, PartIs DEF Between
<1>4. u \in Seq(S) /\ Len(u) = m - a /\ \A i \in 1 .. m - a : u[i] = line[a + i]
  BY <1>2, PartIs DEF Between
<1>5. t \in Seq(S) /\ Len(t) = 1 /\ t[1] = line[m]
  BY <1>1
<1> HIDE DEF s, t, u
<1>6. /\ v \in Seq(S) /\ Len(v) = Len(s) + Len(t)
      /\ \A i \in 1 .. Len(s) : v[i] = s[i]
      /\ \A i \in 1 .. Len(t) : v[Len(s) + i] = t[i]
  <2>1. s \in Seq(S) /\ t \in Seq(S)
    BY <1>3, <1>5
  <2> QED BY <2>1, JoinedIs
<1> HIDE DEF v
<1>7. v[(k - a) + 1] = line[m]
  BY <1>3, <1>5, <1>6
<1>8. ASSUME NEW i \in 1 .. m - a PROVE u[i] = v[i]
  <2>1. i \in 1 .. k - a \/ (i = (k - a) + 1 /\ a + i = m)
    BY <1>2
  <2> QED BY <1>3, <1>4, <1>6, <1>7, <2>1
<1>9. Len(u) = Len(v)
  BY <1>2, <1>3, <1>4, <1>5, <1>6
<1>10. u = v
  BY <1>4, <1>6, <1>8, <1>9, SameSeq
<1> QED BY <1>3, <1>10 DEF s, t, u, v

\* Between these places bytes of the line itself are joined.
Plain(line, f, a, b) == \A i \in a + 1 .. b : f[i] = <<line[i]>>

\* There the line is as it was.
LEMMA PlainRun ==
    ASSUME NEW S, NEW line \in Seq(S), NEW g, NEW f, NEW n \in Nat, Rows(S, g, f, n),
           n =< Len(line), NEW b \in 0 .. n, NEW a \in 0 .. b, Plain(line, f, a, b)
    PROVE  g[b] = g[a] \o Between(line, a, b)
<1> DEFINE Ok(k) == g[k] = g[a] \o Between(line, a, k)
           G == {k \in Nat : a =< k /\ k =< b => Ok(k)}
<1>1. g \in [0 .. n -> Seq(S)] /\ \A m \in 1 .. n : g[m] = g[m - 1] \o f[m]
  BY DEF Rows
<1>2. Len(line) \in Nat /\ \A i \in 1 .. Len(line) : line[i] \in S
  BY SeqIs
<1>3. Ok(a)
  <2>1. Between(line, a, a) = <<>>
    BY DEF Between
  <2>2. g[a] \in Seq(S) /\ g[a] \o <<>> = g[a]
    BY <1>1
  <2> QED BY <2>1, <2>2
<1>4. 0 \in G
  <2>1. a =< 0 => a = 0
    OBVIOUS
  <2> QED BY <1>3, <2>1
<1>5. ASSUME NEW k \in Nat, k \in G PROVE k + 1 \in G
  <2> DEFINE m == k + 1
  <2> SUFFICES ASSUME a =< m, m =< b PROVE Ok(m)
    <3> HIDE DEF Ok
    <3> QED OBVIOUS
  <2>1. CASE a = m
    BY <1>3, <2>1
  <2>2. CASE a # m
    <3>1. m \in 1 .. n /\ m - 1 = k /\ m \in a + 1 .. b /\ a \in 0 .. k /\ a =< k /\ k =< b
          /\ m \in 1 .. Len(line) /\ k = m - 1
      BY <1>2, <2>2
    <3> HIDE DEF m
    <3>2. g[k] = g[a] \o Between(line, a, k)
      BY <1>5, <3>1
    <3>3. g[m] = g[k] \o <<line[m]>>
      BY <1>1, <3>1 DEF Plain
    <3> DEFINE s == Between(line, a, k)
               t == <<line[m]>>
               x == g[a]
    <3>4. s \in Seq(S) /\ Between(line, a, m) = s \o t
      BY <3>1, BetweenLonger
    <3>5. x \in Seq(S) /\ t \in Seq(S)
      BY <1>1, <1>2, <3>1
    <3> HIDE DEF s, t, x
    <3>6. (x \o s) \o t = x \o (s \o t)
      <4>1. Three(S, x, s, t)
        BY <3>4, <3>5 DEF Three
      <4> QED BY <4>1, JoinJoin
    <3> QED BY <3>2, <3>3, <3>4, <3>6 DEF s, t, x
  <2> QED BY <2>1, <2>2
<1> HIDE DEF G, Ok
<1>6. b \in Nat /\ a =< b
  OBVIOUS
<1>7. b \in G
  BY <1>4, <1>5, <1>6, Induction
<1>8. Ok(b)
  BY <1>6, <1>7 DEF G
<1> QED BY <1>8 DEF Ok

\* Where nothing is joined, nothing is added.
LEMMA VoidRun ==
    ASSUME NEW S, NEW g, NEW f, NEW n \in Nat, Rows(S, g, f, n),
           NEW b \in 0 .. n, NEW a \in 0 .. b, \A i \in a + 1 .. b : f[i] = <<>>
    PROVE  g[b] = g[a]
<1> DEFINE G == {d \in Nat : a + d =< b => g[a + d] = g[a]}
<1>1. g \in [0 .. n -> Seq(S)] /\ \A m \in 1 .. n : g[m] = g[m - 1] \o f[m]
  BY DEF Rows
<1>2. 0 \in G
  OBVIOUS
<1>3. ASSUME NEW d \in Nat, d \in G PROVE d + 1 \in G
  <2> SUFFICES ASSUME a + (d + 1) =< b PROVE g[a + (d + 1)] = g[a]
    OBVIOUS
  <2> DEFINE m == a + (d + 1)
             k == a + d
  <2>1. m \in 1 .. n /\ m - 1 = k /\ m \in a + 1 .. b /\ k =< b /\ k \in 0 .. n
    OBVIOUS
  <2>2. g[k] = g[a]
    BY <1>3, <2>1
  <2> HIDE DEF m, k
  <2>3. g[m] = g[k] \o <<>>
    BY <1>1, <2>1
  <2>4. g[k] \in Seq(S)
    BY <1>1, <2>1
  <2>5. g[k] \o <<>> = g[k]
    BY <2>4
  <2> QED BY <2>2, <2>3, <2>5 DEF m
<1> HIDE DEF G
<1>4. b - a \in Nat
  OBVIOUS
<1>5. b - a \in G
  BY <1>2, <1>3, <1>4, Induction
<1>6. a + (b - a) = b
  OBVIOUS
<1> QED BY <1>5, <1>6 DEF G

\* What is put in the place of a match, as the contract has it.
LEMMA FilledSame ==
    ASSUME NEW sub \in Seq(Byte \cup {Quote}), NEW text \in Seq(Byte)
    PROVE  Contract!Filled(sub, text) = Filled(sub, text)
<1> DEFINE n == Len(sub)
           f == [m \in 1 .. n |-> IF sub[m] = Quote THEN text ELSE <<sub[m]>>]
<1>1. n \in Nat /\ DOMAIN sub = 1 .. n /\ \A m \in 1 .. n : sub[m] \in Byte \cup {Quote}
  BY SeqIs
<1>2. Contract!Filled(sub, text) = FlattenSeq(f)
  <2>1. Contract!Filled(sub, text) =
          Contract!FlattenSeq([m \in DOMAIN sub |-> IF sub[m] = Quote THEN text ELSE <<sub[m]>>])
    BY DEF Contract!Filled
  <2>2. \A s : Contract!FlattenSeq(s) = FlattenSeq(s)
    BY SameOperators
  <2> QED BY <1>1, <2>1, <2>2
<1>3. f \in [1 .. n -> Seq(Byte)]
  <2>1. ASSUME NEW m \in 1 .. n PROVE (IF sub[m] = Quote THEN text ELSE <<sub[m]>>) \in Seq(Byte)
    <3>1. CASE sub[m] = Quote
      BY <3>1
    <3>2. CASE sub[m] # Quote
      <4>1. sub[m] \in Byte
        BY <1>1, <3>2
      <4>2. <<sub[m]>> \in Seq(Byte)
        BY <4>1
      <4> QED BY <3>2, <4>2
    <3> QED BY <3>1, <3>2
  <2> QED BY <2>1
<1>4. \A m \in 1 .. n : f[m] = IF sub[m] = Quote THEN text ELSE <<sub[m]>>
  OBVIOUS
<1>5. PICK r \in [0 .. n -> Seq(Byte)] :
        /\ r[0] = <<>> /\ Filled(sub, text) = r[n]
        /\ \A m \in 1 .. n : r[m] = IF sub[m] = Quote THEN r[m - 1] \o text ELSE Append(r[m - 1], sub[m])
  BY FilledSteps, Zenon
<1> HIDE DEF f, n
<1>6. PICK g : Rows(Byte, g, f, n) /\ FlattenSeq(f) = g[n]
  BY <1>1, <1>3, FlattenRows
<1> DEFINE Same == {m \in Nat : m =< n => r[m] = g[m]}
<1>7. 0 \in Same
  BY <1>5, <1>6 DEF Rows
<1>8. ASSUME NEW k \in Nat, k \in Same PROVE k + 1 \in Same
  <2> DEFINE m == k + 1
  <2> SUFFICES ASSUME m =< n PROVE r[m] = g[m]
    OBVIOUS
  <2>1. m \in 1 .. n /\ m - 1 = k /\ k =< n /\ k \in 0 .. n
    BY <1>1
  <2> HIDE DEF m
  <2>2. r[k] = g[k] /\ r[k] \in Seq(Byte)
    BY <1>5, <1>8, <2>1
  <2>3. g[m] = g[k] \o f[m]
    BY <1>6, <2>1 DEF Rows
  <2>4. CASE sub[m] = Quote
    BY <1>4, <1>5, <2>1, <2>2, <2>3, <2>4
  <2>5. CASE sub[m] # Quote
    <3>1. sub[m] \in Byte /\ f[m] = <<sub[m]>> /\ r[m] = Append(r[k], sub[m])
      BY <1>1, <1>4, <1>5, <2>1, <2>5
    <3>2. r[k] \o <<sub[m]>> = Append(r[k], sub[m])
      BY <2>2, <3>1
    <3> QED BY <2>2, <2>3, <3>1, <3>2
  <2> QED BY <2>4, <2>5
<1> HIDE DEF Same
<1>9. n \in Same
  BY <1>1, <1>7, <1>8, Induction
<1>10. r[n] = g[n]
  BY <1>1, <1>9 DEF Same
<1> QED BY <1>2, <1>5, <1>6, <1>10

\* A byte of a line is in one of the matches D.
Covered(line, pair, D, i) ==
    \E j \in D : j <= i /\ i < j + Contract!SizeAt(line, pair, j)

\* What is put in the place of the match at i.
PutAt(line, pair, i) ==
    Filled(pair.sub, SubSeq(line, i, (i + Contract!SizeAt(line, pair, i)) - 1))

\* What the contract has in the place of a byte, if the matches D are replaced.
Written(line, pair, D, i) ==
    (IF i \in D THEN PutAt(line, pair, i) ELSE <<>>)
      \o (IF Covered(line, pair, D, i) THEN <<>> ELSE <<line[i]>>)

\* In detail.
LEMMA WrittenAt ==
    ASSUME NEW line \in Seq(Byte), NEW pair \in Pair,
           NEW D \in SUBSET Contract!Matches(line, pair), NEW i \in 1 .. Len(line)
    PROVE  /\ Written(line, pair, D, i) \in Seq(Byte)
           /\ i \in D => PutAt(line, pair, i) \in Seq(Byte)
           /\ i \notin D /\ ~ Covered(line, pair, D, i) => Written(line, pair, D, i) = <<line[i]>>
           /\ i \notin D /\ Covered(line, pair, D, i) => Written(line, pair, D, i) = <<>>
           /\ i \in D /\ Covered(line, pair, D, i) =>
                Written(line, pair, D, i) = PutAt(line, pair, i)
           /\ i \in D /\ ~ Covered(line, pair, D, i) =>
                Written(line, pair, D, i) = PutAt(line, pair, i) \o <<line[i]>>
<1> DEFINE A == PutAt(line, pair, i)
           B == <<line[i]>>
           none == <<>>
           X == IF i \in D THEN A ELSE none
           Y == IF Covered(line, pair, D, i) THEN none ELSE B
           W == Written(line, pair, D, i)
<1>1. W = X \o Y
  BY DEF Written
<1>2. none \in Seq(Byte) /\ B \in Seq(Byte) /\ none = <<>>
  BY SeqIs
<1>3. ASSUME i \in D PROVE A \in Seq(Byte)
  <2> DEFINE size == Contract!SizeAt(line, pair, i)
  <2>1. size \in Nat /\ i + size =< Len(line) + 1 /\ Len(line) \in Nat
    BY <1>3, SizeIs
  <2> DEFINE b == (i + size) - 1
             a == i - 1
  <2>2. b \in 0 .. Len(line) /\ a \in 0 .. b /\ a + 1 = i
    BY <2>1
  <2> HIDE DEF a, b
  <2>3. SubSeq(line, a + 1, b) \in Seq(Byte)
    BY <2>2, PartIs
  <2>4. pair.sub \in Seq(Byte \cup {Quote})
    BY DEF Pair
  <2>5. SubSeq(line, i, b) \in Seq(Byte)
    BY <2>2, <2>3
  <2>6. Filled(pair.sub, SubSeq(line, i, b)) \in Seq(Byte)
    BY <2>4, <2>5, FilledType
  <2> QED BY <2>6 DEF PutAt, b
<1> HIDE DEF A, B, none, W
<1>4. X \in Seq(Byte) /\ Y \in Seq(Byte)
  BY <1>2, <1>3
<1>5. i \notin D => X = none
  OBVIOUS
<1>6. i \in D => X = A
  OBVIOUS
<1>7. Covered(line, pair, D, i) => Y = none
  OBVIOUS
<1>8. ~ Covered(line, pair, D, i) => Y = B
  OBVIOUS
<1> HIDE DEF X, Y
<1>9. X \o Y \in Seq(Byte) /\ X \o <<>> = X /\ <<>> \o Y = Y
  BY <1>4
<1> QED BY <1>1, <1>2, <1>3, <1>5, <1>6, <1>7, <1>8, <1>9 DEF A, B, W

\* The contract's line is the last of the rows of what is written.
LEMMA WrittenRows ==
    ASSUME NEW line \in Seq(Byte), NEW pair \in Pair,
           NEW D \in SUBSET Contract!Matches(line, pair)
    PROVE  \E g, f : /\ Rows(Byte, g, f, Len(line)) /\ Contract!Substituted(line, pair, D) = g[Len(line)]
                     /\ \A i \in 1 .. Len(line) : f[i] = Written(line, pair, D, i)
<1> DEFINE n == Len(line)
           W(i) == Written(line, pair, D, i)
           f == [i \in 1 .. n |-> W(i)]
           size == [i \in D |-> Contract!SizeAt(line, pair, i)]
           V(i) == (IF i \in D THEN Contract!Filled(pair.sub, SubSeq(line, i, i + size[i] - 1)) ELSE <<>>)
                     \o (IF \E j \in D : j <= i /\ i < j + size[j] THEN <<>> ELSE <<line[i]>>)
<1>1. n \in Nat /\ DOMAIN line = 1 .. n
  BY SeqIs
<1>2. \A i \in 1 .. n : W(i) \in Seq(Byte)
  BY WrittenAt
<1>3. ASSUME NEW i \in 1 .. n PROVE V(i) = W(i)
  <2>1. \A j \in D : size[j] = Contract!SizeAt(line, pair, j)
    OBVIOUS
  <2> HIDE DEF size
  <2>2. (\E j \in D : j <= i /\ i < j + size[j]) <=> Covered(line, pair, D, i)
    BY <2>1 DEF Covered
  <2>3. ASSUME i \in D
        PROVE  Contract!Filled(pair.sub, SubSeq(line, i, i + size[i] - 1)) = PutAt(line, pair, i)
    <3> DEFINE z == size[i]
    <3>1. z = Contract!SizeAt(line, pair, i) /\ z \in Nat /\ i + z =< n + 1
      BY <2>1, <2>3, SizeIs
    <3> HIDE DEF z
    <3> DEFINE b == (i + z) - 1
               a == i - 1
    <3>2. b \in 0 .. n /\ a \in 0 .. b /\ a + 1 = i /\ i + z - 1 = b
      BY <1>1, <3>1
    <3>3. PutAt(line, pair, i) = Filled(pair.sub, SubSeq(line, i, b))
      BY <3>1 DEF PutAt
    <3> HIDE DEF a, b
    <3>4. SubSeq(line, a + 1, b) \in Seq(Byte)
      BY <3>2, PartIs
    <3>5. SubSeq(line, i, b) \in Seq(Byte) /\ pair.sub \in Seq(Byte \cup {Quote})
      BY <3>2, <3>4 DEF Pair
    <3>6. Contract!Filled(pair.sub, SubSeq(line, i, b)) = Filled(pair.sub, SubSeq(line, i, b))
      BY <3>5, FilledSame
    <3> QED BY <3>2, <3>3, <3>6 DEF z
  <2>4. CASE i \in D
    BY <2>2, <2>3, <2>4, Zenon DEF Written
  <2>5. CASE i \notin D
    BY <2>2, <2>5, Zenon DEF Written
  <2> QED BY <2>4, <2>5
<1>4. Contract!Substituted(line, pair, D) = Contract!FlattenSeq([i \in DOMAIN line |-> V(i)])
  BY Zenon DEF Contract!Substituted
<1> HIDE DEF V
<1>5. [i \in DOMAIN line |-> V(i)] = f
  BY <1>1, <1>3
<1>6. Contract!Substituted(line, pair, D) = FlattenSeq(f)
  BY <1>4, <1>5, SameOperators
<1>7. f \in [1 .. n -> Seq(Byte)] /\ \A i \in 1 .. n : f[i] = W(i)
  BY <1>2
<1> HIDE DEF f, W, n
<1>8. PICK g : Rows(Byte, g, f, n) /\ FlattenSeq(f) = g[n]
  BY <1>1, <1>7, FlattenRows
<1> QED BY <1>6, <1>7, <1>8 DEF W, n

\* What a turn leads to that finds the match at i when p bytes are done.
TurnTo(s, line, pair, p, i) ==
    [src |-> From(line, i + Contract!SizeAt(line, pair, i)),
     dst |-> (s.dst \o Between(line, p, i - 1)) \o PutAt(line, pair, i),
     matched |-> TRUE, count |-> s.count + 1,
     spins |-> (i = p + 1 /\ Contract!SizeAt(line, pair, i) = 0) /\ ~ pair.once]

\* In detail.
IsTurnTo(t, s, line, pair, p, i) ==
    /\ t.src = From(line, i + Contract!SizeAt(line, pair, i))
    /\ t.dst = (s.dst \o Between(line, p, i - 1)) \o PutAt(line, pair, i)
    /\ t.count = s.count + 1 /\ t.matched
    /\ t.spins <=> (i = p + 1 /\ Contract!SizeAt(line, pair, i) = 0) /\ ~ pair.once

\* It leads there.
LEMMA TurnToIs ==
    ASSUME NEW s, NEW line, NEW pair, NEW p, NEW i
    PROVE  IsTurnTo(TurnTo(s, line, pair, p, i), s, line, pair, p, i)
<1> DEFINE a == From(line, i + Contract!SizeAt(line, pair, i))
           b == (s.dst \o Between(line, p, i - 1)) \o PutAt(line, pair, i)
           c == s.count + 1
           d == (i = p + 1 /\ Contract!SizeAt(line, pair, i) = 0) /\ ~ pair.once
           t == TurnTo(s, line, pair, p, i)
<1>1. t = [src |-> a, dst |-> b, matched |-> TRUE, count |-> c, spins |-> d]
  BY DEF TurnTo
<1> HIDE DEF a, b, c, d, t
<1>2. t.src = a /\ t.dst = b /\ t.count = c /\ t.matched = TRUE /\ t.spins = d
  BY <1>1
<1>3. (t.spins <=> d) /\ t.matched
  BY <1>2, Zenon
<1> QED BY <1>2, <1>3 DEF a, b, c, d, t, IsTurnTo

\* A turn finds the next place, or none.
LEMMA TurnIs ==
    ASSUME NEW line \in Seq(Byte), NEW pair, Fine(pair), NEW p \in 0 .. Len(line),
           NEW s \in Turn, s.src = From(line, p + 1), ~ (pair.once /\ s.matched), ~ s.spins
    PROVE  \/ NextPlaces(line, pair, p) = {} /\ MatchStep(s, pair) = s
           \/ \E i, n : IsNext(line, pair, p, i, n) /\ MatchStep(s, pair) = TurnTo(s, line, pair, p, i)
<1> DEFINE src == s.src
           found == Found(src, pair)
           in == CHOOSE in \in found : TRUE
           match == pair.match[in[2]]
           L == Len(line)
           i == p + in[1]
           size == Contract!SizeAt(line, pair, i)
<1>1. L \in Nat /\ src \in Seq(Byte) /\ Len(src) = L - p /\ pair \in Pair
      /\ \A j \in 1 .. L - p : src[j] = line[p + j]
  <2>1. /\ src \in Seq(Byte) /\ Len(src) = L + 1 - (p + 1)
        /\ \A j \in 1 .. (L + 1) - (p + 1) : src[j] = line[((p + 1) - 1) + j]
    <3>1. p + 1 \in 1 .. L + 1
      OBVIOUS
    <3> DEFINE q == p + 1
    <3> HIDE DEF q
    <3>2. /\ From(line, q) \in Seq(Byte) /\ Len(From(line, q)) = L + 1 - q
          /\ \A j \in 1 .. (L + 1) - q : From(line, q)[j] = line[(q - 1) + j]
      BY <3>1, FromIs DEF q
    <3> QED BY <3>2 DEF q
  <2>2. L \in Nat
    OBVIOUS
  <2>3. (L + 1) - (p + 1) = L - p /\ L + 1 - (p + 1) = L - p /\ \A j \in Nat : ((p + 1) - 1) + j = p + j
    BY <2>2
  <2> HIDE DEF src, L
  <2>4. \A j \in 1 .. L - p : src[j] = line[p + j]
    BY <2>1, <2>3
  <2> QED BY <2>1, <2>2, <2>3, <2>4 DEF Fine
<1>2. MatchStep(s, pair) =
        IF found = {} THEN s
        ELSE [src |-> Behind(src, in[1], match),
              dst |-> s.dst \o SubSeq(src, 1, in[1] - 1) \o Filled(pair.sub, match),
              matched |-> TRUE, count |-> s.count + 1,
              spins |-> Behind(src, in[1], match) = src /\ ~ pair.once]
  BY DEF MatchStep
<1>3. CASE found = {}
  <2>1. NextPlaces(line, pair, p) = {}
    BY <1>3, FoundIs
  <2> QED BY <1>2, <1>3, <2>1
<1>4. CASE found # {}
  <2>1. in \in found
    BY <1>4
  <2> HIDE DEF in
  <2>2. IsNext(line, pair, p, i, in[2]) /\ in[1] \in 1 .. L - p
    BY <2>1, FoundIs
  <2> DEFINE a == in[1]
             n == in[2]
  <2>3. a \in 1 .. L - p /\ i = p + a /\ match = pair.match[n]
    BY <2>2
  <2>4. i \in Contract!Matches(line, pair) /\ n \in Fitting(line, pair, i)
        /\ \A k \in Fitting(line, pair, i) : n =< k
    BY <2>2 DEF IsNext, NextPlaces
  <2> HIDE DEF a, n, found
  <2>5. FitsFirst(line, pair, i, n)
    <3> HIDE DEF i
    <3> QED BY <1>1, <2>4, MatchIs
  <2>6. /\ match \in Seq(Byte) /\ Len(match) = size /\ size \in Nat /\ i + size =< L + 1
        /\ \A j \in 1 .. size : match[j] = line[(i - 1) + j]
    <3>1. pair.match[n] \in Seq(Byte) /\ Contract!SizeAt(line, pair, i) = Len(pair.match[n])
          /\ i + Len(pair.match[n]) =< Len(line) + 1
          /\ \A j \in 1 .. Len(pair.match[n]) : pair.match[n][j] = line[(i - 1) + j]
      BY <2>5 DEF FitsFirst
    <3> DEFINE w == pair.match[n]
    <3>2. w \in Seq(Byte)
      BY <3>1
    <3>3. Len(w) \in Nat
      BY <3>2
    <3> HIDE DEF i
    <3> QED BY <2>3, <3>1, <3>3
  <2> HIDE DEF match, size, i
  <2>7. i \in 1 .. L /\ i - 1 \in 0 .. L /\ p \in 0 .. i - 1
    BY <1>1, <2>3
  <2>8. match = SubSeq(line, i, (i + size) - 1)
    <3> DEFINE b == (i + size) - 1
               c == i - 1
               t == SubSeq(line, c + 1, b)
    <3>1. b \in 0 .. L /\ c \in 0 .. b /\ b - c = size /\ c + 1 = i
      BY <1>1, <2>6, <2>7
    <3> HIDE DEF b, c
    <3>2. t \in Seq(Byte) /\ Len(t) = b - c /\ \A j \in 1 .. b - c : t[j] = line[c + j]
      BY <3>1, PartIs DEF L
    <3> HIDE DEF t
    <3>3. \A j \in 1 .. Len(match) : match[j] = t[j]
      <4>1. i - 1 = c
        BY <1>1, <2>7 DEF c
      <4> QED BY <2>6, <3>1, <3>2, <4>1
    <3>4. match = t
      BY <2>6, <3>1, <3>2, <3>3, SameSeq
    <3> QED BY <3>1, <3>4 DEF t, b
  <2>9. SubSeq(src, 1, a - 1) = Between(line, p, i - 1)
    <3> DEFINE u == SubSeq(src, 1, a - 1)
               v == Between(line, p, i - 1)
               d == a - 1
               c == i - 1
    <3>1. d \in 0 .. Len(src) /\ 0 \in 0 .. d /\ c \in 0 .. L /\ p \in 0 .. c /\ c - p = d /\ d - 0 = d /\ d \in Nat
      BY <1>1, <2>3, <2>7
    <3> HIDE DEF d, c
    <3>2. v \in Seq(Byte) /\ Len(v) = c - p /\ \A j \in 1 .. c - p : v[j] = line[p + j]
      <4>1. SubSeq(line, p + 1, c) \in Seq(Byte) /\ Len(SubSeq(line, p + 1, c)) = c - p
            /\ \A j \in 1 .. c - p : SubSeq(line, p + 1, c)[j] = line[p + j]
        BY <3>1, PartIs DEF L
      <4> QED BY <4>1 DEF Between, c
    <3>3. u \in Seq(Byte) /\ Len(u) = d /\ \A j \in 1 .. d : u[j] = src[j]
      <4>1. SubSeq(src, 0 + 1, d) \in Seq(Byte) /\ Len(SubSeq(src, 0 + 1, d)) = d - 0
            /\ \A j \in 1 .. d - 0 : SubSeq(src, 0 + 1, d)[j] = src[0 + j]
        BY <1>1, <3>1, PartIs
      <4>2. 0 + 1 = 1 /\ (\A j \in 1 .. d : 0 + j = j) /\ d - 0 = d
        BY <3>1
      <4>3. u = SubSeq(src, 0 + 1, d)
        BY <4>2 DEF d
      <4> HIDE DEF u
      <4> QED BY <4>1, <4>2, <4>3
    <3> HIDE DEF u, v
    <3>4. \A j \in 1 .. d : u[j] = v[j]
      <4>1. \A j \in 1 .. d : j \in 1 .. L - p
        BY <1>1, <2>3, <3>1 DEF d
      <4> QED BY <1>1, <3>1, <3>2, <3>3, <4>1
    <3>5. u = v
      BY <3>1, <3>2, <3>3, <3>4, SameSeq
    <3> QED BY <3>5 DEF u, v
  <2>10. Behind(src, a, match) = From(line, i + size)
    <3> DEFINE x == a + size
    <3>1. x \in 1 .. (L - p) + 1 /\ p + x = i + size
      BY <1>1, <2>3, <2>6
    <3>2. Behind(src, a, match) = From(src, x)
      BY <2>6 DEF Behind, From
    <3> HIDE DEF x
    <3>3. From(From(line, p + 1), x) = From(line, p + x)
      BY <3>1, FromFrom DEF L
    <3> QED BY <3>1, <3>2, <3>3
  <2>11. From(line, i + size) = src <=> (i = p + 1 /\ size = 0)
    <3> DEFINE x == i + size
    <3>1. x \in 1 .. L + 1
      BY <1>1, <2>6, <2>7
    <3>2. x = p + 1 <=> (i = p + 1 /\ size = 0)
      BY <1>1, <2>6, <2>7
    <3> HIDE DEF x
    <3>3. Len(From(line, x)) = L + 1 - x
      BY <3>1, FromIs DEF L
    <3>4. From(line, x) = src => x = p + 1
      BY <1>1, <3>1, <3>3
    <3> QED BY <3>2, <3>4 DEF x
  <2>12. MatchStep(s, pair) = TurnTo(s, line, pair, p, i)
    <3>1. PutAt(line, pair, i) = Filled(pair.sub, match)
      BY <2>8 DEF PutAt, size
    <3>2. MatchStep(s, pair) =
           [src |-> Behind(src, a, match),
            dst |-> s.dst \o SubSeq(src, 1, a - 1) \o Filled(pair.sub, match),
            matched |-> TRUE, count |-> s.count + 1,
            spins |-> Behind(src, a, match) = src /\ ~ pair.once]
      BY <1>2, <1>4 DEF a
    <3> HIDE DEF src
    <3>3. (Behind(src, a, match) = src /\ ~ pair.once) = ((i = p + 1 /\ size = 0) /\ ~ pair.once)
      BY <2>10, <2>11
    <3> QED BY <2>9, <2>10, <3>1, <3>2, <3>3, Zenon DEF TurnTo, size
  <2> QED BY <2>2, <2>12 DEF i
<1> QED BY <1>3, <1>4

\* The rows of a line in which the matches D are replaced.
Made(line, pair, D, g, f) ==
    /\ D \in SUBSET Contract!Matches(line, pair)
    /\ Rows(Byte, g, f, Len(line)) /\ \A i \in 1 .. Len(line) : f[i] = Written(line, pair, D, i)

\* Between two matches the line is as it was.
LEMMA GapWritten ==
    ASSUME NEW line \in Seq(Byte), NEW pair \in Pair, NEW D, NEW g, NEW f,
           Made(line, pair, D, g, f), NEW b \in 0 .. Len(line), NEW a \in 0 .. b,
           \A j \in D : j =< a => j + Contract!SizeAt(line, pair, j) =< a + 1,
           \A j \in D : j > a => b < j
    PROVE  g[b] = g[a] \o Between(line, a, b)
<1> DEFINE n == Len(line)
<1>1. n \in Nat /\ D \in SUBSET Contract!Matches(line, pair) /\ Rows(Byte, g, f, n)
      /\ \A i \in 1 .. n : f[i] = Written(line, pair, D, i)
  BY DEF Made
<1>2. \A j \in D : j \in Nat /\ Contract!SizeAt(line, pair, j) \in Nat
  <2>1. ASSUME NEW j \in D PROVE j \in Nat /\ Contract!SizeAt(line, pair, j) \in Nat
    BY <1>1, SizeIs
  <2> QED BY <2>1
<1>3. ASSUME NEW i \in a + 1 .. b PROVE f[i] = <<line[i]>>
  <2>1. i \in 1 .. n /\ i > a /\ i =< b
    BY <1>1
  <2>2. i \notin D
    BY <1>1, <2>1
  <2>3. ~ Covered(line, pair, D, i)
    <3>1. ASSUME NEW j \in D, j <= i, i < j + Contract!SizeAt(line, pair, j) PROVE FALSE
      <4>1. j \in Nat /\ Contract!SizeAt(line, pair, j) \in Nat
        BY <1>2
      <4>2. CASE j =< a
        <5>1. j + Contract!SizeAt(line, pair, j) =< a + 1
          BY <4>2
        <5> QED BY <2>1, <3>1, <4>1, <5>1
      <4>3. CASE j > a
        BY <2>1, <3>1, <4>1, <4>3
      <4> QED BY <4>1, <4>2, <4>3
    <3> QED BY <3>1 DEF Covered
  <2> QED BY <1>1, <2>1, <2>2, <2>3, WrittenAt
<1>4. b \in 0 .. n /\ a \in 0 .. b /\ n =< Len(line)
  BY <1>1
<1>5. Plain(line, f, a, b)
  BY <1>3 DEF Plain
<1>6. n \in Nat
  BY <1>1
<1>7. Rows(Byte, g, f, n) /\ n =< Len(line)
  BY <1>1
<1> HIDE DEF n
<1> QED BY <1>4, <1>5, <1>6, <1>7, PlainRun

\* A match is replaced.
LEMMA MatchWritten ==
    ASSUME NEW line \in Seq(Byte), NEW pair \in Pair, NEW D, NEW g, NEW f,
           Made(line, pair, D, g, f), NEW i \in D, NEW size,
           size = Contract!SizeAt(line, pair, i), size > 0,
           \A j \in D : j > i => i + size =< j
    PROVE  g[(i + size) - 1] = g[i - 1] \o PutAt(line, pair, i)
<1> DEFINE n == Len(line)
           b == (i + size) - 1
<1>1. n \in Nat /\ D \in SUBSET Contract!Matches(line, pair) /\ Rows(Byte, g, f, n)
      /\ \A k \in 1 .. n : f[k] = Written(line, pair, D, k)
  BY DEF Made
<1>2. i \in 1 .. n /\ size \in Nat /\ i + size =< n + 1
  BY <1>1, SizeIs
<1>3. b \in 0 .. n /\ i \in 0 .. b
  BY <1>1, <1>2
<1>4. f[i] = PutAt(line, pair, i)
  <2>1. Covered(line, pair, D, i)
    <3>1. i <= i /\ i < i + size
      BY <1>2
    <3> QED BY <3>1 DEF Covered
  <2> QED BY <1>1, <1>2, <2>1, WrittenAt
<1>5. g[i] = g[i - 1] \o f[i]
  BY <1>1, <1>2 DEF Rows
<1>6. ASSUME NEW k \in i + 1 .. b PROVE f[k] = <<>>
  <2>1. k \in 1 .. n /\ i < k /\ k < i + size /\ i <= k
    BY <1>1, <1>2
  <2>2. k \notin D
    BY <1>2, <2>1
  <2>3. Covered(line, pair, D, k)
    BY <2>1 DEF Covered
  <2> QED BY <1>1, <2>1, <2>2, <2>3, WrittenAt
<1> HIDE DEF n, b
<1>7. g[b] = g[i]
  BY <1>1, <1>3, <1>6, VoidRun
<1> QED BY <1>4, <1>5, <1>7 DEF b

\* The matches in front of a place end there or before.
EndsBefore(line, pair, D, i) == \A j \in D : j < i => j + Contract!SizeAt(line, pair, j) =< i

\* What is put in front of the byte at i.
PutBefore(line, pair, i) == PutAt(line, pair, i) \o <<line[i]>>

\* An empty match is replaced in front of the byte where it is.
LEMMA EmptyWritten ==
    ASSUME NEW line \in Seq(Byte), NEW pair \in Pair, NEW D, NEW g, NEW f,
           Made(line, pair, D, g, f), NEW i \in D, Contract!SizeAt(line, pair, i) = 0,
           EndsBefore(line, pair, D, i)
    PROVE  g[i] = g[i - 1] \o PutBefore(line, pair, i)
<1> DEFINE n == Len(line)
<1>1. n \in Nat /\ D \in SUBSET Contract!Matches(line, pair) /\ Rows(Byte, g, f, n)
      /\ \A k \in 1 .. n : f[k] = Written(line, pair, D, k)
  BY DEF Made
<1>2. i \in 1 .. n
  BY <1>1, SizeIs
<1>3. ~ Covered(line, pair, D, i)
  <2>1. ASSUME NEW j \in D, j <= i, i < j + Contract!SizeAt(line, pair, j) PROVE FALSE
    <3>1. j \in Nat /\ Contract!SizeAt(line, pair, j) \in Nat
      BY <1>1, SizeIs
    <3>2. CASE j = i
      BY <1>2, <2>1, <3>2
    <3>3. CASE j < i
      <4>1. j + Contract!SizeAt(line, pair, j) =< i
        BY <3>3 DEF EndsBefore
      <4> QED BY <1>2, <2>1, <3>1, <4>1
    <3> QED BY <1>2, <2>1, <3>1, <3>2, <3>3
  <2> QED BY <2>1 DEF Covered
<1>4. f[i] = PutAt(line, pair, i) \o <<line[i]>>
  BY <1>1, <1>2, <1>3, WrittenAt
<1>5. g[i] = g[i - 1] \o f[i]
  BY <1>1, <1>2 DEF Rows
<1> QED BY <1>4, <1>5 DEF PutBefore

\* Between two places, and from the second to the end.
LEMMA BetweenFrom ==
    ASSUME NEW line \in Seq(Byte), NEW p \in 0 .. Len(line)
    PROVE  /\ From(line, p + 1) = Between(line, p, Len(line)) /\ From(line, p + 1) \in Seq(Byte)
           /\ From(line, 1) = line
<1>1. From(line, p + 1) = Between(line, p, Len(line))
  BY DEF From, Between
<1>2. From(line, p + 1) \in Seq(Byte)
  <2>1. p + 1 \in 1 .. Len(line) + 1
    OBVIOUS
  <2> DEFINE q == p + 1
  <2>2. q \in 1 .. Len(line) + 1
    BY <2>1
  <2> HIDE DEF q
  <2>3. From(line, q) \in Seq(Byte)
    BY <2>2, FromIs
  <2> QED BY <2>3 DEF q
<1>3. From(line, 1) = line
  <2>1. 1 \in 1 .. Len(line) + 1 /\ Len(line) \in Nat
    OBVIOUS
  <2>2. /\ From(line, 1) \in Seq(Byte) /\ Len(From(line, 1)) = Len(line) + 1 - 1
        /\ \A j \in 1 .. (Len(line) + 1) - 1 : From(line, 1)[j] = line[(1 - 1) + j]
    BY <2>1, FromIs
  <2> DEFINE t == From(line, 1)
             n == Len(line)
  <2>3. t \in Seq(Byte) /\ Len(t) = n + 1 - 1 /\ \A j \in 1 .. (n + 1) - 1 : t[j] = line[(1 - 1) + j]
    BY <2>2
  <2>4. n \in Nat /\ n = Len(line)
    OBVIOUS
  <2> HIDE DEF t, n
  <2>5. Len(t) = Len(line) /\ \A j \in 1 .. Len(t) : t[j] = line[j]
    BY <2>3, <2>4
  <2>6. t = line
    BY <2>3, <2>5, SameSeq
  <2> QED BY <2>6 DEF t
<1> QED BY <1>1, <1>2, <1>3

\* The matches that count do not overlap.
LEMMA CountedApart ==
    ASSUME NEW line \in Seq(Byte), NEW pair \in Pair
    PROVE  LET C == Contract!Counted(line, pair) IN
           /\ C \in SUBSET Contract!Matches(line, pair) /\ C \in SUBSET (1 .. Len(line))
           /\ \A i \in C : /\ Contract!SizeAt(line, pair, i) \in Nat
                           /\ i + Contract!SizeAt(line, pair, i) =< Len(line) + 1
           /\ \A i, j \in C : i < j => i + Contract!SizeAt(line, pair, i) =< j
<1> DEFINE C == Contract!Counted(line, pair)
           M == Contract!Matches(line, pair)
<1>1. C \in SUBSET M /\ \A i \in M : i \in C <=> Counts(line, pair, C, i)
  BY CountedIs
<1>2. ASSUME NEW i \in C PROVE /\ i \in 1 .. Len(line) /\ Contract!SizeAt(line, pair, i) \in Nat
                               /\ i + Contract!SizeAt(line, pair, i) =< Len(line) + 1
  BY <1>1, SizeIs
<1>3. ASSUME NEW i \in C, NEW j \in C, i < j PROVE i + Contract!SizeAt(line, pair, i) =< j
  <2>1. Counts(line, pair, C, j)
    BY <1>1
  <2> QED BY <1>3, <2>1 DEF Counts
<1>4. C \in SUBSET (1 .. Len(line))
  BY <1>2
<1> QED BY <1>1, <1>2, <1>3, <1>4

\* Between two turns p bytes of the line are done.
Good(line, pair, g, s, k, p) ==
    LET C == Contract!Counted(line, pair) IN
    /\ p \in 0 .. Len(line) /\ Cut(line, pair, p)
    /\ s.src = From(line, p + 1) /\ s.dst = g[p] /\ ~ s.spins
    /\ s.count # 0 <=> \E j \in C : j =< p
    /\ \A j \in C : j =< p => Contract!SizeAt(line, pair, j) > 0
    /\ k =< p \/ NextPlaces(line, pair, p) = {}

\* The loop does not get past the empty match at i.
Trapped(line, pair, s, k, i) ==
    /\ i \in Contract!Counted(line, pair) /\ Contract!SizeAt(line, pair, i) = 0
    /\ \/ s.spins /\ s.count # 0
       \/ /\ ~ s.spins /\ s.src = From(line, i) /\ k < i
          /\ \E n : IsNext(line, pair, i - 1, i, n)

\* A turn for a pair that replaces all its matches.
LEMMA GoodTurn ==
    ASSUME NEW line \in Seq(Byte), NEW pair, Fine(pair), ~ pair.once, NEW g, NEW f,
           Made(line, pair, Contract!Counted(line, pair), g, f),
           NEW s \in Turn, NEW k \in Nat, NEW p, Good(line, pair, g, s, k, p)
    PROVE  \/ \E q : Good(line, pair, g, MatchStep(s, pair), k + 1, q)
           \/ \E i : Trapped(line, pair, MatchStep(s, pair), k + 1, i)
<1> DEFINE C == Contract!Counted(line, pair)
           L == Len(line)
           size(i) == Contract!SizeAt(line, pair, i)
           t == MatchStep(s, pair)
<1>1. pair \in Pair /\ L \in Nat
  BY DEF Fine
<1>2. /\ p \in 0 .. L /\ Cut(line, pair, p)
      /\ s.src = From(line, p + 1) /\ s.dst = g[p] /\ ~ s.spins
      /\ s.count # 0 <=> \E j \in C : j =< p
      /\ \A j \in C : j =< p => size(j) > 0
      /\ k =< p \/ NextPlaces(line, pair, p) = {}
  BY DEF Good
<1>3. \/ NextPlaces(line, pair, p) = {} /\ t = s
      \/ \E i, n : IsNext(line, pair, p, i, n) /\ t = TurnTo(s, line, pair, p, i)
  BY <1>2, TurnIs
<1>4. /\ C \in SUBSET (1 .. L)
      /\ \A i \in C : size(i) \in Nat /\ i + size(i) =< L + 1
      /\ \A i, j \in C : i < j => i + size(i) =< j
  BY <1>1, CountedApart
<1>5. CASE NextPlaces(line, pair, p) = {} /\ t = s
  <2>1. Good(line, pair, g, s, k + 1, p)
    BY <1>2, <1>5 DEF Good
  <2> QED BY <1>5, <2>1
<1>6. ASSUME NEW i, NEW n, IsNext(line, pair, p, i, n), t = TurnTo(s, line, pair, p, i)
      PROVE  \/ \E q : Good(line, pair, g, t, k + 1, q)
             \/ \E j : Trapped(line, pair, t, k + 1, j)
  <2>1. i \in C /\ (\A j \in C : j > p => i =< j) /\ (size(i) > 0 => Cut(line, pair, (i + size(i)) - 1))
    BY <1>1, <1>2, <1>6, CutNext
  <2>2. i \in NextPlaces(line, pair, p) /\ i > p
    BY <1>6 DEF IsNext, NextPlaces
  <2>3. k =< p /\ i \in 1 .. L /\ size(i) \in Nat /\ i + size(i) =< L + 1 /\ p \in 0 .. L
    BY <1>2, <1>4, <2>1, <2>2
  <2>4. /\ t.src = From(line, i + size(i))
        /\ t.dst = (s.dst \o Between(line, p, i - 1)) \o PutAt(line, pair, i)
        /\ t.count = s.count + 1 /\ (t.spins <=> (i = p + 1 /\ size(i) = 0) /\ ~ pair.once)
    <3> DEFINE u == TurnTo(s, line, pair, p, i)
    <3>1. IsTurnTo(u, s, line, pair, p, i) /\ t = u
      BY <1>6, TurnToIs
    <3> HIDE DEF t, u
    <3>2. IsTurnTo(t, s, line, pair, p, i)
      BY <3>1
    <3> QED BY <3>2 DEF IsTurnTo
  <2>5. CASE size(i) = 0
    <3>1. CASE i = p + 1
      <4>1. t.spins /\ t.count # 0
        <5>1. s.count \in Nat
          BY DEF Turn
        <5> QED BY <2>4, <2>5, <3>1, <5>1
      <4>2. Trapped(line, pair, t, k + 1, i)
        BY <2>1, <2>5, <4>1 DEF Trapped
      <4> QED BY <4>2
    <3>2. CASE i # p + 1
      <4>1. ~ t.spins /\ t.src = From(line, i) /\ k + 1 < i /\ i + size(i) = i
        BY <1>1, <2>2, <2>3, <2>4, <2>5, <3>2
      <4>2. IsNext(line, pair, i - 1, i, n)
        <5>1. /\ i \in Contract!Matches(line, pair) /\ n \in Fitting(line, pair, i)
              /\ \A x \in Fitting(line, pair, i) : n =< x
          BY <1>6 DEF IsNext, NextPlaces
        <5>2. i > i - 1 /\ i = (i - 1) + 1
          BY <2>3
        <5>3. \A x \in NextPlaces(line, pair, i - 1) : i =< x
          <6>1. ASSUME NEW x \in Contract!Matches(line, pair), x > i - 1 PROVE i =< x
            <7>1. x \in 1 .. L
              BY <1>1, SizeIs
            <7> QED BY <2>3, <6>1, <7>1
          <6> QED BY <6>1 DEF NextPlaces
        <5> QED BY <5>1, <5>2, <5>3 DEF IsNext, NextPlaces
      <4>3. Trapped(line, pair, t, k + 1, i)
        BY <2>1, <2>5, <4>1, <4>2 DEF Trapped
      <4> QED BY <4>3
    <3> QED BY <3>1, <3>2
  <2>6. CASE size(i) # 0
    <3> DEFINE q == (i + size(i)) - 1
               z == size(i)
    <3>1. z > 0 /\ z \in Nat /\ z = size(i)
      BY <2>3, <2>6
    <3>2. q \in 0 .. L /\ k + 1 =< q /\ i =< q /\ p < q /\ q + 1 = i + size(i)
      BY <1>1, <2>2, <2>3, <3>1
    <3>3. Cut(line, pair, q)
      BY <2>1, <3>1
    <3>4. t.dst = g[q]
      <4>1. g[i - 1] = g[p] \o Between(line, p, i - 1)
        <5> DEFINE b == i - 1
        <5>1. b \in 0 .. L /\ p \in 0 .. b
          BY <1>1, <2>2, <2>3
        <5>2. \A j \in C : j > p => b < j
          <6>1. ASSUME NEW j \in C, j > p PROVE b < j
            <7>1. i =< j /\ j \in Nat
              BY <1>4, <2>1, <6>1
            <7> QED BY <2>3, <7>1
          <6> QED BY <6>1
        <5>3. \A j \in C : j =< p => j + Contract!SizeAt(line, pair, j) =< p + 1
          BY <1>2 DEF Cut
        <5> HIDE DEF b, C
        <5>4. g[b] = g[p] \o Between(line, p, b)
          BY <1>1, <5>1, <5>2, <5>3, GapWritten DEF C
        <5> QED BY <5>4 DEF b
      <4>2. g[(i + z) - 1] = g[i - 1] \o PutAt(line, pair, i)
        <5>1. \A j \in C : j > i => i + z =< j
          <6>1. ASSUME NEW j \in C, j > i PROVE i + z =< j
            <7>1. i < j
              BY <1>4, <2>3, <6>1
            <7> QED BY <1>4, <2>1, <7>1
          <6> QED BY <6>1
        <5>2. Made(line, pair, C, g, f) /\ z = Contract!SizeAt(line, pair, i)
          OBVIOUS
        <5>3. pair \in Pair /\ i \in C /\ z > 0
          BY <1>1, <2>1, <3>1
        <5> HIDE DEF z, C
        <5> QED BY ONLY line \in Seq(Byte), <5>1, <5>2, <5>3, MatchWritten
      <4> QED BY <1>2, <2>4, <4>1, <4>2
    <3>5. t.src = From(line, q + 1) /\ ~ t.spins
      BY <2>4, <2>6, <3>2
    <3>6. t.count # 0 /\ \E j \in C : j =< q
      <4>1. s.count \in Nat
        BY DEF Turn
      <4> QED BY <2>1, <2>4, <3>2, <4>1
    <3>7. ASSUME NEW j \in C, j =< q PROVE size(j) > 0
      <4>1. j \in Nat /\ size(j) \in Nat
        BY <1>4
      <4>2. CASE j =< p
        BY <1>2, <4>2
      <4>3. CASE j = i
        BY <3>1, <4>3
      <4>4. CASE i < j
        <5>1. i + size(i) =< j
          BY <1>4, <2>1, <4>4
        <5> QED BY <2>3, <3>2, <3>7, <4>1, <5>1
      <4>5. j =< p \/ j = i \/ i < j
        <5>1. j > p => i =< j
          BY <2>1
        <5> QED BY <2>3, <4>1, <5>1
      <4> QED BY <4>2, <4>3, <4>4, <4>5
    <3> HIDE DEF q
    <3>8. Good(line, pair, g, t, k + 1, q)
      BY <3>2, <3>3, <3>4, <3>5, <3>6, <3>7 DEF Good
    <3> QED BY <3>8
  <2> QED BY <2>5, <2>6
<1> QED BY <1>3, <1>5, <1>6, Zenon

\* From there the loop does not get on.
LEMMA TrappedTurn ==
    ASSUME NEW line \in Seq(Byte), NEW pair, Fine(pair), ~ pair.once,
           NEW s \in Turn, NEW k \in Nat, NEW i, Trapped(line, pair, s, k, i)
    PROVE  Trapped(line, pair, MatchStep(s, pair), k + 1, i)
<1> DEFINE t == MatchStep(s, pair)
           p == i - 1
<1>1. i \in Contract!Counted(line, pair) /\ Contract!SizeAt(line, pair, i) = 0
  BY DEF Trapped
<1>2. CASE s.spins
  <2>1. t = s /\ s.count # 0
    BY <1>2 DEF MatchStep, Trapped
  <2> QED BY <1>1, <1>2, <2>1 DEF Trapped
<1>3. CASE ~ s.spins
  <2>1. s.src = From(line, i) /\ \E n : IsNext(line, pair, i - 1, i, n)
    BY <1>3 DEF Trapped
  <2>2. i \in 1 .. Len(line)
    <3>1. pair \in Pair
      BY DEF Fine
    <3> QED BY <1>1, <3>1, CountedApart
  <2>3. p \in 0 .. Len(line) /\ p + 1 = i /\ (\E n : IsNext(line, pair, p, i, n)) /\ i \in Nat
    BY <2>1, <2>2
  <2> HIDE DEF p
  <2>4. \/ NextPlaces(line, pair, p) = {} /\ t = s
        \/ \E j, n : IsNext(line, pair, p, j, n) /\ t = TurnTo(s, line, pair, p, j)
    BY <1>3, <2>1, <2>3, TurnIs
  <2>5. NextPlaces(line, pair, p) # {} /\ i \in NextPlaces(line, pair, p)
        /\ \A x \in NextPlaces(line, pair, p) : i =< x
    BY <2>3 DEF IsNext
  <2>6. PICK j, n : IsNext(line, pair, p, j, n) /\ t = TurnTo(s, line, pair, p, j)
    BY <2>4, <2>5
  <2>7. j = i
    <3>1. j \in NextPlaces(line, pair, p) /\ j =< i /\ i =< j
      BY <2>5, <2>6 DEF IsNext
    <3>2. j \in Nat
      <4>1. j \in Contract!Matches(line, pair) /\ pair \in Pair
        BY <3>1 DEF NextPlaces, Fine
      <4>2. j \in 1 .. Len(line)
        BY <4>1, SizeIs
      <4> QED BY <4>2
    <3> QED BY <2>3, <3>1, <3>2
  <2>8. t.spins /\ t.count # 0
    <3>1. /\ t.spins <=> (j = p + 1 /\ Contract!SizeAt(line, pair, j) = 0) /\ ~ pair.once
          /\ t.count = s.count + 1
      <4> DEFINE u == TurnTo(s, line, pair, p, j)
      <4>1. IsTurnTo(u, s, line, pair, p, j) /\ t = u
        BY <2>6, TurnToIs
      <4> HIDE DEF t, u
      <4>2. IsTurnTo(t, s, line, pair, p, j)
        BY <4>1
      <4> QED BY <4>2 DEF IsTurnTo
    <3>2. s.count \in Nat
      BY DEF Turn
    <3> QED BY <1>1, <2>3, <2>7, <3>1, <3>2
  <2> QED BY <1>1, <2>8 DEF Trapped
<1> QED BY <1>2, <1>3

\* What the loop makes of a line for a pair that replaces all its matches: it
\* does not end exactly if one of them is empty.
LEMMA AllReplaced ==
    ASSUME NEW line \in Seq(Byte), NEW pair, Fine(pair), ~ pair.once, NEW already \in BOOLEAN
    PROVE  LET done == Substitution(line, pair, already)
               C == Contract!Counted(line, pair)
           IN /\ done \in Turn
              /\ done.spins <=> \E i \in C : Contract!SizeAt(line, pair, i) = 0
              /\ done.spins => done.count # 0
              /\ ~ done.spins => /\ done.count # 0 <=> C # {}
                                 /\ done.dst \o done.src = Contract!Substituted(line, pair, C)
<1> DEFINE done == Substitution(line, pair, already)
           C == Contract!Counted(line, pair)
           L == Len(line)
           size(i) == Contract!SizeAt(line, pair, i)
<1>1. pair \in Pair /\ L \in Nat
  BY DEF Fine
<1>2. C \in SUBSET Contract!Matches(line, pair) /\ C \in SUBSET (1 .. L)
      /\ \A i \in C : size(i) \in Nat /\ i + size(i) =< L + 1
  BY <1>1, CountedApart
<1>3. PICK g, f : /\ Rows(Byte, g, f, L) /\ Contract!Substituted(line, pair, C) = g[L]
                  /\ \A i \in 1 .. L : f[i] = Written(line, pair, C, i)
  BY <1>1, <1>2, WrittenRows
<1>4. Made(line, pair, C, g, f)
  BY <1>2, <1>3 DEF Made
<1>5. PICK r \in [0 .. L -> Turn] :
        /\ r[0] = [src |-> line, dst |-> <<>>, matched |-> already, count |-> 0, spins |-> FALSE]
        /\ done = r[L] /\ \A m \in 1 .. L : r[m] = MatchStep(r[m - 1], pair)
  BY <1>1, SubstitutionSteps, Zenon
<1> HIDE DEF done
<1> DEFINE State(k) == \/ \E p : Good(line, pair, g, r[k], k, p)
                       \/ \E i : Trapped(line, pair, r[k], k, i)
           S == {k \in Nat : k =< L => State(k)}
<1>6. Good(line, pair, g, r[0], 0, 0)
  <2>1. r[0].src = line /\ r[0].dst = <<>> /\ r[0].count = 0 /\ ~ r[0].spins
    BY <1>5
  <2>2. g[0] = <<>> /\ From(line, 0 + 1) = line /\ 0 \in 0 .. L
    BY <1>1, <1>3, BetweenFrom DEF Rows
  <2>3. \A j \in C : ~ (j =< 0)
    BY <1>2
  <2>4. Cut(line, pair, 0)
    BY <2>3 DEF Cut
  <2> QED BY <2>1, <2>2, <2>3, <2>4 DEF Good
<1>7. 0 \in S
  BY <1>6
<1>8. ASSUME NEW k \in Nat, k \in S PROVE k + 1 \in S
  <2> DEFINE m == k + 1
  <2>1. ASSUME m =< L PROVE State(m)
    <3>1. m \in 1 .. L /\ m - 1 = k /\ k \in 0 .. L /\ k =< L
      BY <1>1, <2>1
    <3>2. r[k] \in Turn /\ State(k)
      BY <1>5, <1>8, <3>1
    <3>3. r[m] = MatchStep(r[k], pair)
      BY <1>5, <3>1
    <3>4. ASSUME NEW p, Good(line, pair, g, r[k], k, p)
          PROVE  \/ \E q : Good(line, pair, g, MatchStep(r[k], pair), k + 1, q)
                 \/ \E i : Trapped(line, pair, MatchStep(r[k], pair), k + 1, i)
      BY <1>4, <3>2, <3>4, GoodTurn
    <3>5. ASSUME NEW i, Trapped(line, pair, r[k], k, i)
          PROVE  Trapped(line, pair, MatchStep(r[k], pair), k + 1, i)
      BY <3>2, <3>5, TrappedTurn
    <3>6. \/ \E q : Good(line, pair, g, MatchStep(r[k], pair), k + 1, q)
          \/ \E i : Trapped(line, pair, MatchStep(r[k], pair), k + 1, i)
      BY <3>2, <3>4, <3>5
    <3> QED BY <3>3, <3>6
  <2> HIDE DEF State
  <2>2. m \in S
    BY <2>1
  <2> QED BY <2>2
<1> HIDE DEF S
<1>9. L \in S
  BY <1>1, <1>7, <1>8, Induction
<1>10. State(L) /\ r[L] \in Turn
  BY <1>1, <1>5, <1>9 DEF S
<1>11. ASSUME NEW p, Good(line, pair, g, r[L], L, p)
       PROVE  /\ ~ done.spins /\ \A i \in C : size(i) # 0
              /\ done.count # 0 <=> C # {}
              /\ done.dst \o done.src = g[L]
  <2>1. /\ p \in 0 .. L /\ Cut(line, pair, p)
        /\ done.src = From(line, p + 1) /\ done.dst = g[p] /\ ~ done.spins
        /\ done.count # 0 <=> \E j \in C : j =< p
        /\ \A j \in C : j =< p => size(j) > 0
        /\ L =< p \/ NextPlaces(line, pair, p) = {}
    BY <1>5, <1>11 DEF Good
  <2>2. NextPlaces(line, pair, p) = {}
    <3>1. ASSUME L =< p, NEW i \in NextPlaces(line, pair, p) PROVE FALSE
      <4>1. i \in Contract!Matches(line, pair) /\ i > p
        BY <3>1 DEF NextPlaces
      <4>2. i \in 1 .. L
        BY <1>1, <4>1, SizeIs
      <4> QED BY <1>1, <2>1, <3>1, <4>1, <4>2
    <3> QED BY <2>1, <3>1
  <2>3. \A j \in C : ~ (j > p)
    BY <1>1, <2>1, <2>2, CutNext
  <2>4. \A j \in C : j =< p /\ size(j) > 0
    <3>1. \A j \in C : j \in Nat /\ size(j) \in Nat
      BY <1>2
    <3> QED BY <2>1, <2>3, <3>1
  <2>5. \A i \in C : size(i) # 0
    <3>1. \A j \in C : size(j) \in Nat
      BY <1>2
    <3> QED BY <2>4, <3>1
  <2>6. g[L] = g[p] \o Between(line, p, L)
    <3>1. L \in 0 .. L /\ p \in 0 .. L
      BY <1>1, <2>1
    <3>2. \A j \in C : j =< p => j + size(j) =< p + 1
      BY <2>1 DEF Cut
    <3>3. \A j \in C : j > p => L < j
      BY <2>3
    <3> QED BY <1>1, <1>4, <3>1, <3>2, <3>3, GapWritten
  <2>7. Between(line, p, L) = From(line, p + 1)
    BY <2>1, BetweenFrom
  <2> QED BY <2>1, <2>4, <2>5, <2>6, <2>7
<1>12. ASSUME NEW i, Trapped(line, pair, r[L], L, i)
       PROVE  done.spins /\ done.count # 0 /\ i \in C /\ size(i) = 0
  <2>1. i \in C /\ size(i) = 0 /\ ((done.spins /\ done.count # 0) \/ L < i)
    BY <1>5, <1>12 DEF Trapped
  <2>2. i \in 1 .. L
    BY <1>2, <2>1
  <2> QED BY <1>1, <2>1, <2>2
<1>13. done \in Turn
  BY <1>5, <1>10
<1>14. CASE \E p : Good(line, pair, g, r[L], L, p)
  BY <1>3, <1>11, <1>13, <1>14 DEF done
<1>15. CASE \E i : Trapped(line, pair, r[L], L, i)
  BY <1>12, <1>13, <1>15 DEF done
<1> QED BY <1>10, <1>14, <1>15

\* A line in which nothing is replaced.
LEMMA NothingReplaced ==
    ASSUME NEW line \in Seq(Byte), NEW pair \in Pair
    PROVE  Contract!Substituted(line, pair, {}) = line
<1> DEFINE L == Len(line)
           none == {}
<1>1. none \in SUBSET Contract!Matches(line, pair) /\ L \in Nat /\ none = {}
  OBVIOUS
<1> HIDE DEF none
<1>2. PICK g, f : /\ Rows(Byte, g, f, L) /\ Contract!Substituted(line, pair, none) = g[L]
                  /\ \A i \in 1 .. L : f[i] = Written(line, pair, none, i)
  BY <1>1, WrittenRows
<1>3. Made(line, pair, none, g, f)
  BY <1>1, <1>2 DEF Made
<1>4. g[L] = g[0] \o Between(line, 0, L)
  <2>1. L \in 0 .. L /\ 0 \in 0 .. L
    BY <1>1
  <2>2. /\ \A j \in none : j =< 0 => j + Contract!SizeAt(line, pair, j) =< 0 + 1
        /\ \A j \in none : j > 0 => L < j
    BY <1>1
  <2> QED BY <1>3, <2>1, <2>2, GapWritten
<1>5. Between(line, 0, L) = line
  <2>1. 0 \in 0 .. L /\ 0 + 1 = 1
    BY <1>1
  <2>2. From(line, 0 + 1) = Between(line, 0, L) /\ From(line, 1) = line
    BY <2>1, BetweenFrom
  <2> QED BY <2>1, <2>2
<1>6. g[0] = <<>>
  BY <1>2 DEF Rows
<1>7. <<>> \o line = line
  OBVIOUS
<1> QED BY <1>1, <1>2, <1>4, <1>5, <1>6, <1>7

\* The bytes from a place on are the one there and those behind it.
LEMMA FromNext ==
    ASSUME NEW line \in Seq(Byte), NEW i \in 1 .. Len(line)
    PROVE  /\ From(line, i) = <<line[i]>> \o Between(line, i, Len(line))
           /\ <<line[i]>> \in Seq(Byte) /\ Between(line, i, Len(line)) \in Seq(Byte)
<1> DEFINE L == Len(line)
           s == <<line[i]>>
           t == Between(line, i, L)
           u == From(line, i)
           v == s \o t
<1>1. L \in Nat /\ line[i] \in Byte /\ i \in 1 .. L + 1 /\ i \in 1 .. L
  BY SeqIs
<1>2. s \in Seq(Byte) /\ Len(s) = 1 /\ s[1] = line[i]
  BY <1>1
<1>3. t \in Seq(Byte) /\ Len(t) = L - i /\ \A j \in 1 .. L - i : t[j] = line[i + j]
  <2>1. L \in 0 .. Len(line) /\ i \in 0 .. L
    BY <1>1
  <2> HIDE DEF L
  <2> QED BY <2>1, PartIs DEF Between
<1>4. u \in Seq(Byte) /\ Len(u) = (L + 1) - i /\ \A j \in 1 .. (L + 1) - i : u[j] = line[(i - 1) + j]
  BY <1>1, FromIs
<1> HIDE DEF s, t, u, L
<1>5. /\ v \in Seq(Byte) /\ Len(v) = Len(s) + Len(t)
      /\ \A j \in 1 .. Len(s) : v[j] = s[j]
      /\ \A j \in 1 .. Len(t) : v[Len(s) + j] = t[j]
  <2>1. s \in Seq(Byte) /\ t \in Seq(Byte)
    BY <1>2, <1>3
  <2> QED BY <2>1, JoinedIs
<1> HIDE DEF v
<1>6. ASSUME NEW j \in 1 .. Len(u) PROVE u[j] = v[j]
  <2>1. j \in 1 .. (L + 1) - i /\ u[j] = line[(i - 1) + j]
    BY <1>1, <1>4
  <2>2. CASE j = 1
    <3>1. (i - 1) + 1 = i /\ v[1] = line[i]
      BY <1>1, <1>2, <1>5
    <3> QED BY <2>1, <2>2, <3>1
  <2>3. CASE j # 1
    <3> DEFINE k == j - 1
    <3>1. k \in 1 .. L - i /\ 1 + k = j /\ (i - 1) + j = i + k
      BY <1>1, <2>1, <2>3
    <3> HIDE DEF k
    <3>2. v[Len(s) + k] = t[k] /\ t[k] = line[i + k]
      BY <1>3, <1>5, <3>1
    <3> QED BY <1>2, <2>1, <3>1, <3>2
  <2> QED BY <2>2, <2>3
<1>7. Len(u) = Len(v)
  BY <1>1, <1>2, <1>3, <1>4, <1>5
<1>8. u = v
  BY <1>4, <1>5, <1>6, <1>7, SameSeq
<1> QED BY <1>2, <1>3, <1>8 DEF s, t, u, v, L

\* One match replaced, with what is in front of it and behind it.
LEMMA OneWritten ==
    ASSUME NEW line \in Seq(Byte), NEW pair \in Pair, NEW i \in Contract!Matches(line, pair)
    PROVE  Contract!Substituted(line, pair, {i}) =
             (Between(line, 0, i - 1) \o PutAt(line, pair, i))
               \o From(line, i + Contract!SizeAt(line, pair, i))
<1> DEFINE L == Len(line)
           D == {i}
           size == Contract!SizeAt(line, pair, i)
           A == Between(line, 0, i - 1)
           P == PutAt(line, pair, i)
<1>1. D \in SUBSET Contract!Matches(line, pair) /\ L \in Nat /\ i \in D /\ \A j \in D : j = i
  OBVIOUS
<1>2. i \in 1 .. L /\ size \in Nat /\ i + size =< L + 1
  BY SizeIs
<1> HIDE DEF D
<1>3. PICK g, f : /\ Rows(Byte, g, f, L) /\ Contract!Substituted(line, pair, D) = g[L]
                  /\ \A k \in 1 .. L : f[k] = Written(line, pair, D, k)
  BY <1>1, WrittenRows
<1>4. Made(line, pair, D, g, f)
  BY <1>1, <1>3 DEF Made
<1>5. g[i - 1] = A
  <2> DEFINE b == i - 1
  <2>1. b \in 0 .. L /\ 0 \in 0 .. b
    BY <1>1, <1>2
  <2>2. \A j \in D : j =< 0 => j + Contract!SizeAt(line, pair, j) =< 0 + 1
    BY <1>1, <1>2
  <2>3. \A j \in D : j > 0 => b < j
    BY <1>1, <1>2
  <2>4. Between(line, 0, b) \in Seq(Byte)
    <3>1. SubSeq(line, 0 + 1, b) \in Seq(Byte)
      <4> HIDE DEF b
      <4> QED BY <2>1, PartIs
    <3> QED BY <3>1 DEF Between
  <2>5. g[0] = <<>>
    BY <1>3 DEF Rows
  <2> HIDE DEF b
  <2>6. g[b] = g[0] \o Between(line, 0, b)
    BY <1>4, <2>1, <2>2, <2>3, GapWritten
  <2>7. <<>> \o Between(line, 0, b) = Between(line, 0, b)
    BY <2>4
  <2> QED BY <2>5, <2>6, <2>7 DEF b
<1>6. CASE size # 0
  <2> DEFINE q == (i + size) - 1
             z == size
  <2>1. z > 0 /\ z = Contract!SizeAt(line, pair, i) /\ \A j \in D : j > i => i + z =< j
    BY <1>1, <1>2, <1>6
  <2>2. g[(i + z) - 1] = g[i - 1] \o P
    <3> HIDE DEF z
    <3> QED BY <1>1, <1>4, <2>1, MatchWritten
  <2>3. q \in 0 .. L /\ L \in 0 .. L /\ q + 1 = i + size
    BY <1>1, <1>2, <1>6
  <2>4. g[L] = g[q] \o Between(line, q, L)
    <3>1. \A j \in D : j =< q => j + Contract!SizeAt(line, pair, j) =< q + 1
      BY <1>1, <1>2, <2>3
    <3>2. \A j \in D : j > q => L < j
      BY <1>1, <1>2, <1>6
    <3> HIDE DEF q
    <3> QED BY <1>4, <2>3, <3>1, <3>2, GapWritten
  <2>5. From(line, q + 1) = Between(line, q, L)
    <3> HIDE DEF q
    <3> QED BY <2>3, BetweenFrom
  <2> HIDE DEF P, A
  <2> QED BY <1>3, <1>5, <2>2, <2>3, <2>4, <2>5 DEF D, P, A
<1>7. CASE size = 0
  <2> DEFINE B == <<line[i]>>
             F == Between(line, i, L)
  <2>1. g[i] = g[i - 1] \o (P \o B)
    <3>1. EndsBefore(line, pair, D, i)
      BY <1>1, <1>2 DEF EndsBefore
    <3>2. g[i] = g[i - 1] \o PutBefore(line, pair, i)
      BY <1>1, <1>4, <1>7, <3>1, EmptyWritten
    <3> QED BY <3>2 DEF PutBefore
  <2>2. g[L] = g[i] \o F
    <3>1. \A j \in D : j =< i => j + Contract!SizeAt(line, pair, j) =< i + 1
      BY <1>1, <1>2, <1>7
    <3>2. \A j \in D : j > i => L < j
      BY <1>1, <1>2
    <3>3. L \in 0 .. L /\ i \in 0 .. L
      BY <1>1, <1>2
    <3> QED BY <1>4, <3>1, <3>2, <3>3, GapWritten
  <2>3. From(line, i) = B \o F /\ B \in Seq(Byte) /\ F \in Seq(Byte)
    BY <1>2, FromNext
  <2>4. P \in Seq(Byte)
    BY <1>1, <1>2, WrittenAt
  <2>5. A \in Seq(Byte)
    <3>1. i - 1 \in 0 .. L
      BY <1>1, <1>2
    <3>2. g[i - 1] \in Seq(Byte)
      BY <1>3, <3>1 DEF Rows
    <3> QED BY <1>5, <3>2
  <2>6. i + size = i
    BY <1>2, <1>7
  <2> HIDE DEF A, P, B, F
  <2>7. (A \o (P \o B)) \o F = (A \o P) \o (B \o F)
    <3> DEFINE AP == A \o P
    <3>1. AP \in Seq(Byte)
      BY <2>4, <2>5
    <3>2. Three(Byte, A, P, B)
      BY <2>3, <2>4, <2>5 DEF Three
    <3>3. AP \o B = A \o (P \o B)
      BY <3>2, JoinJoin
    <3> HIDE DEF AP
    <3>4. Three(Byte, AP, B, F)
      BY <2>3, <3>1 DEF Three
    <3>5. (AP \o B) \o F = AP \o (B \o F)
      BY <3>4, JoinJoin
    <3> QED BY <3>3, <3>5 DEF AP
  <2>8. g[L] = (A \o P) \o From(line, i + size)
    BY <1>5, <2>1, <2>2, <2>3, <2>6, <2>7
  <2> QED BY <1>3, <2>8 DEF D, A, P
<1> QED BY <1>6, <1>7

\* What the loop makes of a line for a pair that replaces only its first match.
LEMMA OneReplaced ==
    ASSUME NEW line \in Seq(Byte), NEW pair, Fine(pair), pair.once
    PROVE  LET done == Substitution(line, pair, FALSE)
               C == Contract!Counted(line, pair)
           IN /\ done \in Turn /\ ~ done.spins
              /\ done.count # 0 <=> C # {}
              /\ C # {} => done.dst \o done.src = Contract!Substituted(line, pair, {Min(C)})
<1> DEFINE done == Substitution(line, pair, FALSE)
           C == Contract!Counted(line, pair)
           L == Len(line)
           base == [src |-> line, dst |-> <<>>, matched |-> FALSE, count |-> 0, spins |-> FALSE]
<1>1. pair \in Pair /\ L \in Nat
  BY DEF Fine
<1>2. C \in SUBSET Contract!Matches(line, pair) /\ C \in SUBSET (1 .. L)
  BY <1>1, CountedApart
<1>3. PICK r \in [0 .. L -> Turn] :
        /\ r[0] = base /\ done = r[L] /\ \A m \in 1 .. L : r[m] = MatchStep(r[m - 1], pair)
  <2>1. FALSE \in BOOLEAN
    OBVIOUS
  <2> QED BY <1>1, <2>1, SubstitutionSteps, Zenon
<1>4. /\ base \in Turn /\ base.src = From(line, 0 + 1) /\ base.dst = <<>> /\ base.count = 0
      /\ ~ (pair.once /\ base.matched) /\ ~ base.spins /\ 0 \in 0 .. L
  <2>1. 0 \in 0 .. L /\ 0 + 1 = 1
    BY <1>1
  <2>2. From(line, 1) = line
    BY <2>1, BetweenFrom
  <2>3. r[0] \in Turn
    BY <1>3, <2>1
  <2> QED BY <1>3, <2>1, <2>2, <2>3
<1>5. /\ \A j \in C : j > 0 => \E k \in NextPlaces(line, pair, 0) : k =< j
      /\ \A i, n : IsNext(line, pair, 0, i, n) => i \in C /\ \A j \in C : j > 0 => i =< j
  <2>1. Cut(line, pair, 0)
    <3>1. \A j \in C : ~ (j =< 0)
      BY <1>2
    <3> QED BY <3>1 DEF Cut
  <2> QED BY <1>1, <1>4, <2>1, CutNext
<1> HIDE DEF base, done
<1>6. \/ NextPlaces(line, pair, 0) = {} /\ MatchStep(base, pair) = base
      \/ \E i, n : IsNext(line, pair, 0, i, n) /\ MatchStep(base, pair) = TurnTo(base, line, pair, 0, i)
  BY <1>4, TurnIs
<1>7. CASE NextPlaces(line, pair, 0) = {} /\ MatchStep(base, pair) = base
  <2>1. C = {}
    <3>1. \A j \in C : j > 0
      BY <1>2
    <3> QED BY <1>5, <1>7, <3>1
  <2> DEFINE S == {k \in Nat : k =< L => r[k] = base}
  <2>2. 0 \in S
    BY <1>3
  <2>3. ASSUME NEW k \in Nat, k \in S PROVE k + 1 \in S
    <3> DEFINE m == k + 1
    <3>1. ASSUME m =< L PROVE r[m] = base
      <4>1. m \in 1 .. L /\ m - 1 = k /\ k =< L
        BY <1>1, <3>1
      <4> QED BY <1>3, <1>7, <2>3, <4>1
    <3> QED BY <3>1
  <2> HIDE DEF S
  <2>4. L \in S
    BY <1>1, <2>2, <2>3, Induction
  <2>5. done = base
    BY <1>1, <1>3, <2>4 DEF S
  <2> HIDE DEF C
  <2> QED BY <1>4, <2>1, <2>5 DEF done, C
<1>8. ASSUME NEW i, NEW n, IsNext(line, pair, 0, i, n),
             MatchStep(base, pair) = TurnTo(base, line, pair, 0, i)
      PROVE  /\ done \in Turn /\ ~ done.spins /\ done.count # 0 /\ C # {}
             /\ done.dst \o done.src = Contract!Substituted(line, pair, {Min(C)})
  <2> DEFINE t == MatchStep(base, pair)
             size == Contract!SizeAt(line, pair, i)
  <2>1. i \in C /\ \A j \in C : i =< j
    <3>1. \A j \in C : j > 0
      BY <1>2
    <3> QED BY <1>5, <1>8, <3>1
  <2>2. i \in 1 .. L /\ i \in Contract!Matches(line, pair) /\ Min(C) = i
    <3>1. i \in 1 .. L /\ i \in Contract!Matches(line, pair) /\ C \in SUBSET Nat /\ C # {}
      BY <1>2, <2>1
    <3>2. Min(C) \in C /\ \A y \in C : Min(C) =< y
      BY <3>1, MinIn
    <3>3. Min(C) =< i /\ i =< Min(C) /\ Min(C) \in Nat
      BY <2>1, <3>1, <3>2
    <3> QED BY <3>1, <3>3
  <2>3. IsTurnTo(t, base, line, pair, 0, i)
    BY <1>8, TurnToIs
  <2>4. /\ t.src = From(line, i + size)
        /\ t.dst = (base.dst \o Between(line, 0, i - 1)) \o PutAt(line, pair, i)
        /\ t.count = base.count + 1 /\ t.matched /\ ~ t.spins
    <3> HIDE DEF t
    <3> QED BY <2>3 DEF IsTurnTo
  <2>5. MatchStep(t, pair) = t
    <3>1. pair.once /\ t.matched
      BY <2>4
    <3> HIDE DEF t
    <3> QED BY <3>1 DEF MatchStep
  <2> DEFINE S == {k \in Nat : 1 =< k /\ k =< L => r[k] = t}
  <2>6. 0 \in S
    OBVIOUS
  <2>7. ASSUME NEW k \in Nat, k \in S PROVE k + 1 \in S
    <3> DEFINE m == k + 1
    <3>1. ASSUME m =< L PROVE r[m] = t
      <4>1. m \in 1 .. L /\ m - 1 = k
        BY <1>1, <3>1
      <4>2. r[m] = MatchStep(r[k], pair)
        BY <1>3, <4>1
      <4>3. CASE k = 0
        BY <1>3, <4>2, <4>3
      <4>4. CASE k # 0
        <5>1. r[k] = t
          BY <2>7, <4>1, <4>4
        <5> HIDE DEF t
        <5> QED BY <2>5, <4>2, <5>1
      <4> QED BY <4>3, <4>4
    <3> HIDE DEF t
    <3> QED BY <3>1
  <2> HIDE DEF S, t
  <2>8. L \in S
    BY <1>1, <2>6, <2>7, Induction
  <2>9. done = t /\ done \in Turn
    <3>1. 1 =< L /\ L \in 0 .. L
      BY <1>1, <2>2
    <3> QED BY <1>1, <1>3, <2>8, <3>1 DEF S
  <2>10. t.dst = Between(line, 0, i - 1) \o PutAt(line, pair, i)
    <3> DEFINE b == i - 1
    <3>1. b \in 0 .. L /\ 0 \in 0 .. b
      BY <1>1, <2>2
    <3> HIDE DEF b
    <3>2. SubSeq(line, 0 + 1, b) \in Seq(Byte)
      BY <3>1, PartIs
    <3>3. Between(line, 0, b) \in Seq(Byte)
      BY <3>2 DEF Between
    <3>4. <<>> \o Between(line, 0, b) = Between(line, 0, b)
      BY <3>3
    <3> QED BY <1>4, <2>4, <3>4 DEF b
  <2>11. t.dst \o t.src = Contract!Substituted(line, pair, {i})
    BY <1>1, <2>2, <2>4, <2>10, OneWritten
  <2>12. t.count # 0
    BY <1>4, <2>4
  <2> HIDE DEF C
  <2> QED BY <2>1, <2>2, <2>4, <2>9, <2>11, <2>12
<1> QED BY <1>6, <1>7, <1>8 DEF done

-------------------------------------------------------------------------------
(* What the pairs make of the lines                                         *)

\* The matches that are replaced in a line, already being whether one has been
\* in a line before.
Chosen(line, pair, already) ==
    LET C == Contract!Counted(line, pair) IN
    IF ~ pair.once THEN C ELSE IF already \/ C = {} THEN {} ELSE {Min(C)}

\* The line with them replaced.
Become(line, pair, already) == Contract!Substituted(line, pair, Chosen(line, pair, already))

\* One of its matches is empty, and all are to be replaced.
Spin(line, pair) ==
    ~ pair.once /\ \E i \in Contract!Counted(line, pair) : Contract!SizeAt(line, pair, i) = 0

\* It is a text.
LEMMA BecomeType ==
    ASSUME NEW line \in Seq(Byte), NEW pair \in Pair, NEW already \in BOOLEAN
    PROVE  Become(line, pair, already) \in Seq(Byte)
<1> DEFINE C == Contract!Counted(line, pair)
           D == Chosen(line, pair, already)
<1>1. C \in SUBSET Contract!Matches(line, pair) /\ C \in SUBSET (1 .. Len(line))
  BY CountedApart
<1>2. C # {} => Min(C) \in C
  <2>1. C \in SUBSET Nat
    BY <1>1
  <2> HIDE DEF C
  <2> QED BY <2>1, MinIn
<1>3. D \in SUBSET Contract!Matches(line, pair)
  <2>1. D = IF ~ pair.once THEN C ELSE IF already \/ C = {} THEN {} ELSE {Min(C)}
    BY DEF Chosen
  <2> HIDE DEF D, C
  <2> QED BY <1>1, <1>2, <2>1
<1> HIDE DEF D
<1>4. PICK g, f : Rows(Byte, g, f, Len(line)) /\ Contract!Substituted(line, pair, D) = g[Len(line)]
  BY <1>3, WrittenRows
<1>5. Len(line) \in 0 .. Len(line)
  OBVIOUS
<1>6. g[Len(line)] \in Seq(Byte)
  BY <1>4, <1>5 DEF Rows
<1> QED BY <1>4, <1>6 DEF Become, D

\* A line that is shorter than what is looked for has no match.
LEMMA TooShort ==
    ASSUME NEW line \in Seq(Byte), NEW pair, Fine(pair), ~ pair.regex,
           Len(line) < Len(pair.match[1])
    PROVE  Contract!Counted(line, pair) = {}
<1>1. pair \in Pair /\ Len(pair.match) = 1
  BY DEF Fine
<1>2. pair.match \in Seq(Seq(Byte))
  BY <1>1 DEF Pair
<1>3. DOMAIN pair.match = {1} /\ pair.match[1] \in Seq(Byte)
  <2>1. DOMAIN pair.match = 1 .. 1
    BY <1>1, <1>2
  <2> QED BY <1>2, <2>1
<1>4. ASSUME NEW i \in Contract!Matches(line, pair) PROVE FALSE
  <2>1. PICK n \in Fitting(line, pair, i) : \A k \in Fitting(line, pair, i) : n =< k
    BY <1>1, <1>4, MatchIs
  <2>2. i \in 1 .. Len(line) /\ FitsFirst(line, pair, i, n)
    BY <1>1, <2>1, MatchIs
  <2>3. n = 1 /\ i + Len(pair.match[n]) =< Len(line) + 1
    BY <1>3, <2>2 DEF FitsFirst
  <2>4. Len(pair.match[1]) \in Nat /\ Len(line) \in Nat
    BY <1>3
  <2> QED BY <2>2, <2>3, <2>4
<1>5. Contract!Counted(line, pair) \in SUBSET Contract!Matches(line, pair)
  BY <1>1, CountedApart
<1> QED BY <1>4, <1>5

\* What is in the hands of the loop over the pairs.
Content(s) == IF s.dst # <<>> THEN s.dst ELSE s.src

\* What the loop over the pairs makes of a line with one of them.
LEMMA PairDoes ==
    ASSUME response.pairs \in Seq(Pair), NEW s \in Passing, NEW i \in DOMAIN response.pairs,
           Fine(response.pairs[i])
    PROVE  LET pair == response.pairs[i]
               x == Content(s)
               t == MatchPair(s, i)
           IN /\ x \in Seq(Byte) /\ t \in Passing
              /\ t.spins <=> s.spins \/ Spin(x, pair)
              /\ ~ t.spins => /\ Content(t) = Become(x, pair, s.matched[i])
                              /\ t.matched = [s.matched EXCEPT ![i] = @ \/ Contract!Counted(x, pair) # {}]
<1> DEFINE pair == response.pairs[i]
           x == Content(s)
           t == MatchPair(s, i)
           done == Substitution(x, pair, s.matched[i])
           C == Contract!Counted(x, pair)
           now == [s.matched EXCEPT ![i] = @ \/ C # {}]
<1>1. /\ pair \in Pair /\ x \in Seq(Byte) /\ s.matched[i] \in BOOLEAN
      /\ s.matched \in [DOMAIN response.pairs -> BOOLEAN] /\ s.spins \in BOOLEAN
  BY DEF Passing, Content
<1>2. t \in Passing
  BY PairType
<1>3. t = IF \/ ~ pair.regex /\ Len(x) < Len(pair.match[1])
             \/ pair.once /\ s.matched[i]
             \/ done.count = 0
          THEN [s EXCEPT !.src = x, !.dst = <<>>]
          ELSE [src |-> <<>>, dst |-> done.dst \o done.src,
                matched |-> [s.matched EXCEPT ![i] = TRUE],
                spins |-> s.spins \/ done.spins]
  BY DEF MatchPair, Content
<1>4. Contract!Substituted(x, pair, {}) = x
  <2> HIDE DEF x, pair
  <2> QED BY <1>1, NothingReplaced
<1> DEFINE left == [s EXCEPT !.src = x, !.dst = <<>>]
<1>5. ASSUME t = left, C = {} \/ (pair.once /\ s.matched[i])
      PROVE  /\ t.spins <=> s.spins \/ Spin(x, pair)
             /\ Content(t) = Become(x, pair, s.matched[i]) /\ t.matched = now
  <2>1. t.spins = s.spins /\ t.src = x /\ t.dst = <<>> /\ t.matched = s.matched
    <3> HIDE DEF x, t
    <3> QED BY <1>5 DEF Passing
  <2>2. ~ Spin(x, pair)
    BY <1>5 DEF Spin
  <2>3. Chosen(x, pair, s.matched[i]) = {}
    BY <1>5 DEF Chosen
  <2>4. Content(t) = x
    <3> HIDE DEF t, x
    <3> QED BY <2>1 DEF Content
  <2>5. now = s.matched
    <3>1. (s.matched[i] \/ C # {}) = s.matched[i]
      BY <1>1, <1>5
    <3> HIDE DEF C
    <3> QED BY <1>1, <3>1
  <2> HIDE DEF t, x, now
  <2> QED BY <1>4, <2>1, <2>2, <2>3, <2>4, <2>5, Zenon DEF Become
<1>6. CASE pair.once /\ s.matched[i]
  BY <1>1, <1>2, <1>3, <1>5, <1>6
<1>7. CASE ~ pair.regex /\ Len(x) < Len(pair.match[1])
  <2>1. C = {}
    <3> HIDE DEF x, pair
    <3> QED BY <1>1, <1>7, TooShort DEF pair
  <2> QED BY <1>1, <1>2, <1>3, <1>5, <1>7, <2>1
<1>8. CASE ~ (pair.once /\ s.matched[i]) /\ ~ (~ pair.regex /\ Len(x) < Len(pair.match[1]))
  <2>1. /\ done \in Turn
        /\ done.spins <=> Spin(x, pair)
        /\ ~ done.spins => /\ done.count # 0 <=> C # {}
                           /\ C # {} => done.dst \o done.src = Become(x, pair, s.matched[i])
        /\ done.spins => done.count # 0
    <3> HIDE DEF x
    <3>1. CASE pair.once
      <4>1. s.matched[i] = FALSE
        BY <1>1, <1>8, <3>1
      <4>2. /\ done \in Turn /\ ~ done.spins
            /\ done.count # 0 <=> C # {}
            /\ C # {} => done.dst \o done.src = Contract!Substituted(x, pair, {Min(C)})
        <5> DEFINE p == pair
        <5>1. Fine(p) /\ p.once
          BY <3>1
        <5> HIDE DEF p
        <5>2. LET d == Substitution(x, p, FALSE)
                  K == Contract!Counted(x, p)
              IN /\ d \in Turn /\ ~ d.spins
                 /\ d.count # 0 <=> K # {}
                 /\ K # {} => d.dst \o d.src = Contract!Substituted(x, p, {Min(K)})
          BY <1>1, <5>1, OneReplaced
        <5> QED BY <4>1, <5>2 DEF p
      <4>3. C # {} => Chosen(x, pair, s.matched[i]) = {Min(C)}
        BY <3>1, <4>1 DEF Chosen
      <4>4. ~ Spin(x, pair)
        BY <3>1 DEF Spin
      <4> HIDE DEF C, done
      <4> QED BY <4>2, <4>3, <4>4 DEF Become
    <3>2. CASE ~ pair.once
      <4>1. /\ done \in Turn
            /\ done.spins <=> \E k \in C : Contract!SizeAt(x, pair, k) = 0
            /\ done.spins => done.count # 0
            /\ ~ done.spins => /\ done.count # 0 <=> C # {}
                               /\ done.dst \o done.src = Contract!Substituted(x, pair, C)
        <5> DEFINE p == pair
                   b == s.matched[i]
        <5>1. Fine(p) /\ ~ p.once /\ b \in BOOLEAN
          BY <1>1, <3>2
        <5> HIDE DEF p, b
        <5>2. LET d == Substitution(x, p, b)
                  K == Contract!Counted(x, p)
              IN /\ d \in Turn
                 /\ d.spins <=> \E k \in K : Contract!SizeAt(x, p, k) = 0
                 /\ d.spins => d.count # 0
                 /\ ~ d.spins => /\ d.count # 0 <=> K # {}
                                 /\ d.dst \o d.src = Contract!Substituted(x, p, K)
          BY <1>1, <5>1, AllReplaced
        <5> QED BY <5>2 DEF p, b
      <4>2. Chosen(x, pair, s.matched[i]) = C
        BY <3>2 DEF Chosen
      <4>3. Spin(x, pair) <=> \E k \in C : Contract!SizeAt(x, pair, k) = 0
        BY <3>2 DEF Spin
      <4> HIDE DEF C, done
      <4> QED BY <4>1, <4>2, <4>3 DEF Become
    <3> QED BY <3>1, <3>2
  <2> HIDE DEF done
  <2>2. done.count \in Nat /\ done.spins \in BOOLEAN
    BY <2>1 DEF Turn
  <2>3. CASE done.count = 0
    <3>1. t = left
      BY <1>3, <2>3
    <3>2. ~ done.spins => C = {}
      BY <2>1, <2>3
    <3>3. CASE ~ done.spins
      BY <1>1, <1>2, <1>5, <3>1, <3>2, <3>3
    <3>4. ~ done.spins
      BY <2>1, <2>3
    <3> QED BY <3>3, <3>4
  <2>4. CASE done.count # 0
    <3>1. /\ t.src = <<>> /\ t.dst = done.dst \o done.src
          /\ t.matched = [s.matched EXCEPT ![i] = TRUE]
          /\ t.spins = (s.spins \/ done.spins)
      <4>1. t = [src |-> <<>>, dst |-> done.dst \o done.src,
                matched |-> [s.matched EXCEPT ![i] = TRUE],
                spins |-> s.spins \/ done.spins]
        BY <1>3, <1>8, <2>4
      <4> HIDE DEF t
      <4> QED BY <4>1
    <3> HIDE DEF t, x
    <3>2. t.spins <=> s.spins \/ Spin(x, pair)
      BY <2>1, <3>1
    <3>3. Content(t) = done.dst \o done.src
      <4> DEFINE y == done.dst \o done.src
      <4> HIDE DEF y
      <4>1. t.src = <<>> /\ t.dst = y
        BY <3>1 DEF y
      <4>2. Content(t) = y
        BY <4>1 DEF Content
      <4> QED BY <4>2 DEF y
    <3>4. ASSUME ~ t.spins PROVE Content(t) = Become(x, pair, s.matched[i]) /\ t.matched = now
      <4>1. ~ done.spins /\ C # {}
        BY <2>1, <2>4, <3>1, <3>4
      <4>2. now = [s.matched EXCEPT ![i] = TRUE]
        <5>1. (s.matched[i] \/ C # {}) = TRUE
          BY <4>1
        <5> HIDE DEF C
        <5> QED BY <1>1, <5>1
      <4> QED BY <2>1, <3>1, <3>3, <4>1, <4>2
    <3> QED BY <1>1, <1>2, <3>2, <3>4 DEF t, x
  <2> QED BY <2>3, <2>4
<1> QED BY <1>6, <1>7, <1>8

\* A pair has a match in one of the first lines.
HitIn(lines, pair, n) == \E m \in 1 .. n : Contract!Counted(lines[m], pair) # {}

\* A pair applied to the lines, one line after the other.
LEMMA ApplyIs ==
    ASSUME NEW lines \in Seq(Seq(Byte)), NEW pair \in Pair
    PROVE  Contract!Apply(lines, pair) =
             [n \in 1 .. Len(lines) |-> Become(lines[n], pair, HitIn(lines, pair, n - 1))]
<1> DEFINE N == Len(lines)
           I == {i \in 1 .. N : Contract!Counted(lines[i], pair) # {}}
           at == IF I = {} THEN 0 ELSE Min(I)
           C(n) == Contract!Counted(lines[n], pair)
           D(n) == IF ~ pair.once THEN C(n) ELSE IF n = at THEN {Min(C(n))} ELSE {}
<1>1. N \in Nat /\ DOMAIN lines = 1 .. N
  BY SeqIs
<1>2. Contract!Apply(lines, pair) = [n \in 1 .. N |-> Contract!Substituted(lines[n], pair, D(n))]
  <2> DEFINE cat == IF I = {} THEN 0 ELSE Contract!Min(I)
             cD(n) == IF ~ pair.once THEN C(n) ELSE IF n = cat THEN {Contract!Min(C(n))} ELSE {}
  <2>1. Contract!Apply(lines, pair) = [n \in DOMAIN lines |-> Contract!Substituted(lines[n], pair, cD(n))]
    BY Zenon DEF Contract!Apply, Contract!SelectInSeq
  <2>2. cat = at /\ \A n : cD(n) = D(n)
    <3>1. \A S : Contract!Min(S) = Min(S)
      BY SameOperators
    <3> HIDE DEF I, C
    <3>2. cat = at
      BY <3>1
    <3> QED BY <3>1, <3>2
  <2> HIDE DEF cD, D, cat, at
  <2> QED BY <1>1, <2>1, <2>2
<1>3. ASSUME NEW n \in 1 .. N
      PROVE  D(n) = Chosen(lines[n], pair, HitIn(lines, pair, n - 1))
  <2>1. \A m : m \in I <=> m \in 1 .. N /\ C(m) # {}
    OBVIOUS
  <2>2. I # {} => Min(I) \in I /\ \A y \in I : Min(I) =< y
    <3>1. I \in SUBSET Nat
      BY <1>1
    <3> HIDE DEF I
    <3> QED BY <3>1, MinIn
  <2>3. HitIn(lines, pair, n - 1) <=> \E m \in 1 .. n - 1 : m \in I
    <3>1. \A m \in 1 .. n - 1 : m \in 1 .. N
      BY <1>1
    <3> QED BY <2>1, <3>1 DEF HitIn
  <2> HIDE DEF I, C
  <2>4. n = at <=> n \in I /\ ~ \E m \in 1 .. n - 1 : m \in I
    <3>1. CASE I = {}
      BY <1>1, <3>1
    <3>2. CASE I # {}
      <4>1. at = Min(I) /\ at \in I /\ at \in 1 .. N /\ \A y \in I : at =< y
        BY <2>1, <2>2, <3>2
      <4>2. \A y \in I : y \in 1 .. N
        BY <2>1
      <4> HIDE DEF at
      <4>3. ASSUME n = at PROVE n \in I /\ ~ \E m \in 1 .. n - 1 : m \in I
        BY <1>1, <4>1, <4>3
      <4>4. ASSUME n \in I, ~ \E m \in 1 .. n - 1 : m \in I PROVE n = at
        <5>1. ~ (at \in 1 .. n - 1) /\ at =< n
          BY <4>1, <4>4
        <5> QED BY <1>1, <4>1, <5>1
      <4> QED BY <4>3, <4>4
    <3> QED BY <3>1, <3>2
  <2>5. n \in I <=> C(n) # {}
    BY <2>1
  <2> HIDE DEF at
  <2>6. CASE ~ pair.once
    <3>1. D(n) = C(n)
      BY <2>6
    <3>2. Chosen(lines[n], pair, HitIn(lines, pair, n - 1)) = C(n)
      BY <2>6 DEF Chosen, C
    <3> QED BY <3>1, <3>2
  <2>7. CASE pair.once
    <3>1. D(n) = IF n = at THEN {Min(C(n))} ELSE {}
      BY <2>7
    <3>2. Chosen(lines[n], pair, HitIn(lines, pair, n - 1)) =
            IF HitIn(lines, pair, n - 1) \/ C(n) = {} THEN {} ELSE {Min(C(n))}
      BY <2>7 DEF Chosen, C
    <3> QED BY <2>3, <2>4, <2>5, <3>1, <3>2
  <2> QED BY <2>6, <2>7
<1> HIDE DEF D, N
<1> QED BY <1>2, <1>3 DEF Become, N

\* The lines remain lines.
LEMMA ApplyType ==
    ASSUME NEW lines \in Seq(Seq(Byte)), NEW pair \in Pair
    PROVE  /\ Contract!Apply(lines, pair) \in Seq(Seq(Byte))
           /\ Len(Contract!Apply(lines, pair)) = Len(lines)
<1> DEFINE N == Len(lines)
           B(n) == Become(lines[n], pair, HitIn(lines, pair, n - 1))
           A == [n \in 1 .. N |-> B(n)]
<1>1. ASSUME NEW n \in 1 .. N PROVE B(n) \in Seq(Byte)
  <2>1. lines[n] \in Seq(Byte) /\ HitIn(lines, pair, n - 1) \in BOOLEAN
    BY SeqIs DEF HitIn
  <2> QED BY <2>1, BecomeType
<1>2. Contract!Apply(lines, pair) = A
  BY ApplyIs
<1>3. N \in Nat
  OBVIOUS
<1> HIDE DEF B, N
<1>4. A \in [1 .. N -> Seq(Byte)]
  BY <1>1
<1> HIDE DEF A
<1>5. A \in Seq(Seq(Byte)) /\ Len(A) = N
  BY <1>3, <1>4, IsSeq
<1> QED BY <1>2, <1>5 DEF N

\* A line more.
LEMMA ApplyAppend ==
    ASSUME NEW lines \in Seq(Seq(Byte)), NEW line \in Seq(Byte), NEW pair \in Pair
    PROVE  /\ Contract!Apply(Append(lines, line), pair) =
                Append(Contract!Apply(lines, pair), Become(line, pair, HitIn(lines, pair, Len(lines))))
           /\ HitIn(Append(lines, line), pair, Len(Append(lines, line))) <=>
                HitIn(lines, pair, Len(lines)) \/ Contract!Counted(line, pair) # {}
<1> DEFINE N == Len(lines)
           ls == Append(lines, line)
           A == Contract!Apply(lines, pair)
           B == Contract!Apply(ls, pair)
           b == Become(line, pair, HitIn(lines, pair, N))
           E == Append(A, b)
<1>1. N \in Nat /\ ls \in Seq(Seq(Byte)) /\ Len(ls) = N + 1 /\ ls[N + 1] = line
      /\ \A n \in 1 .. N : ls[n] = lines[n]
  OBVIOUS
<1>2. A = [n \in 1 .. N |-> Become(lines[n], pair, HitIn(lines, pair, n - 1))]
  BY ApplyIs
<1>3. A \in Seq(Seq(Byte)) /\ Len(A) = N
  BY ApplyType
<1> HIDE DEF ls
<1>4. B = [n \in 1 .. Len(ls) |-> Become(ls[n], pair, HitIn(ls, pair, n - 1))]
  BY <1>1, ApplyIs
<1>5. B \in Seq(Seq(Byte)) /\ Len(B) = N + 1
  BY <1>1, ApplyType
<1>6. b \in Seq(Byte)
  <2>1. HitIn(lines, pair, N) \in BOOLEAN
    BY DEF HitIn
  <2> QED BY <2>1, BecomeType
<1>7. ASSUME NEW n \in 0 .. N PROVE HitIn(ls, pair, n) <=> HitIn(lines, pair, n)
  <2>1. \A m \in 1 .. n : ls[m] = lines[m]
    BY <1>1
  <2> QED BY <2>1 DEF HitIn
<1> HIDE DEF b, A, B, N
<1>8. E \in Seq(Seq(Byte)) /\ Len(E) = N + 1 /\ E[N + 1] = b /\ \A n \in 1 .. N : E[n] = A[n]
  BY <1>1, <1>3, <1>6
<1> HIDE DEF E
<1>9. ASSUME NEW n \in 1 .. N + 1 PROVE B[n] = E[n]
  <2>1. B[n] = Become(ls[n], pair, HitIn(ls, pair, n - 1)) /\ n - 1 \in 0 .. N
    BY <1>1, <1>4
  <2>2. HitIn(ls, pair, n - 1) = HitIn(lines, pair, n - 1)
    <3>1. HitIn(ls, pair, n - 1) <=> HitIn(lines, pair, n - 1)
      BY <1>7, <2>1
    <3>2. HitIn(ls, pair, n - 1) \in BOOLEAN /\ HitIn(lines, pair, n - 1) \in BOOLEAN
      BY DEF HitIn
    <3> QED BY <3>1, <3>2
  <2>3. CASE n = N + 1
    <3>1. n - 1 = N
      BY <1>1, <2>3
    <3> QED BY <1>1, <1>8, <2>1, <2>2, <2>3, <3>1 DEF b
  <2>4. CASE n # N + 1
    <3>1. n \in 1 .. N
      BY <1>1, <2>4
    <3> QED BY <1>1, <1>2, <1>8, <2>1, <2>2, <3>1
  <2> QED BY <2>3, <2>4
<1>10. B = E
  BY <1>5, <1>8, <1>9, SameSeq
<1>11. HitIn(ls, pair, N + 1) <=> HitIn(lines, pair, N) \/ Contract!Counted(line, pair) # {}
  <2>1. \A m : m \in 1 .. N + 1 <=> m \in 1 .. N \/ m = N + 1
    BY <1>1
  <2>2. HitIn(ls, pair, N + 1) <=> \/ \E m \in 1 .. N : Contract!Counted(ls[m], pair) # {}
                                   \/ Contract!Counted(ls[N + 1], pair) # {}
    BY <2>1 DEF HitIn
  <2>3. (\E m \in 1 .. N : Contract!Counted(ls[m], pair) # {}) <=> HitIn(lines, pair, N)
    BY <1>1 DEF HitIn
  <2> QED BY <1>1, <2>2, <2>3
<1> QED BY <1>1, <1>10, <1>11 DEF B, E, A, b, N, ls

-------------------------------------------------------------------------------
(* The lines after each pair                                                *)

\* T[m] is what the first m pairs make of the lines.
Tabled(T, lines, ps) ==
    /\ T \in [0 .. Len(ps) -> Seq(Seq(Byte))] /\ T[0] = lines
    /\ \A m \in 1 .. Len(ps) : T[m] = Contract!Apply(T[m - 1], ps[m])

\* The lines are folded over the pairs, pair by pair.
LEMMA ApplySteps ==
    ASSUME NEW lines \in Seq(Seq(Byte)), NEW ps \in Seq(Pair)
    PROVE  \E T : Tabled(T, lines, ps) /\ Contract!FoldLeft(Contract!Apply, lines, ps) = T[Len(ps)]
<1> DEFINE V == Seq(Seq(Byte))
           n == Len(ps)
           Put(d, i) == Contract!Apply(d, ps[i])
           F(it) == [s \in SUBSET DOMAIN ps |->
                       IF s = {} THEN lines ELSE Put(it[s \ {Contract!Max(s)}], Contract!Max(s))]
           step == [p \in V \X (1 .. n) |-> Put(p[1], p[2])]
<1>1. n \in Nat /\ DOMAIN ps = 1 .. n /\ lines \in V /\ \A i \in 1 .. n : ps[i] \in Pair
  BY SeqIs
<1>2. ASSUME NEW d \in V, NEW i \in 1 .. n PROVE Put(d, i) \in V
  <2>1. ps[i] \in Pair
    BY <1>1
  <2> QED BY <2>1, ApplyType
<1>3. step \in Steps(V, n)
  <2> HIDE DEF Put, V, n
  <2> QED BY <1>2 DEF Steps
<1>4. Contract!FoldLeft(Contract!Apply, lines, ps) = (CHOOSE it : it = F(it))[DOMAIN ps]
  BY Zenon DEF Contract!FoldLeft, Contract!MapThenFoldSet
<1>5. \A s : Contract!Max(s) = Max(s)
  BY SameOperators
<1> HIDE DEF V, n
<1>6. \E it : it = F(it)
  <2> HIDE DEF step
  <2>1. PICK it : Unrolled(it, V, lines, n, step)
    BY <1>1, <1>3, FoldExists
  <2> HIDE DEF Put
  <2>2. ASSUME NEW s \in SUBSET (1 .. n)
        PROVE  it[s] = IF s = {} THEN lines ELSE Put(it[s \ {Contract!Max(s)}], Contract!Max(s))
    <3>1. CASE s = {}
      BY <2>1, <3>1 DEF FoldAt, Unrolled
    <3>2. CASE s # {}
      <4>1. it[s \ {Max(s)}] \in V /\ Max(s) \in 1 .. n
        BY <1>1, <2>1, <3>2, MaxIndex DEF Unrolled
      <4>2. it[s] = step[<<it[s \ {Max(s)}], Max(s)>>]
        BY <2>1, <3>2 DEF FoldAt, Unrolled
      <4>3. Contract!Max(s) = Max(s)
        BY <1>5
      <4> QED BY <3>2, <4>1, <4>2, <4>3 DEF step
    <3> QED BY <3>1, <3>2
  <2>3. it = F(it)
    BY <1>1, <2>1, <2>2 DEF Unrolled
  <2> HIDE DEF F
  <2> QED BY <2>3
<1>7. PICK it : it = F(it) /\ Contract!FoldLeft(Contract!Apply, lines, ps) = it[DOMAIN ps]
  <2> HIDE DEF F
  <2> QED BY <1>4, <1>6, Zenon
<1> HIDE DEF Put
<1>8. Unrolls(it, V, lines, n, step)
  <2>1. it[{}] = lines
    BY <1>7
  <2>2. ASSUME NEW s \in SUBSET (1 .. n), s # {}, it[s \ {Max(s)}] \in V
        PROVE  it[s] = step[<<it[s \ {Max(s)}], Max(s)>>]
    <3>1. it[s] = Put(it[s \ {Max(s)}], Max(s)) /\ Max(s) \in 1 .. n
      BY <1>1, <1>5, <1>7, <2>2, MaxIndex
    <3> QED BY <2>2, <3>1
  <2> HIDE DEF step, F
  <2> QED BY <2>1, <2>2 DEF Unrolls
<1>9. Sums(it, V, lines, n, step)
  <2> HIDE DEF F, step
  <2> QED BY <1>1, <1>3, <1>8, FoldSteps
<1> HIDE DEF F
<1>10. PICK r : Accumulates(r, V, lines, n, step) /\ Contract!FoldLeft(Contract!Apply, lines, ps) = r[n]
  <2> HIDE DEF step
  <2> QED BY <1>1, <1>7, <1>9 DEF Sums
<1>11. r \in [0 .. n -> V] /\ r[0] = lines
  <2> HIDE DEF step
  <2> QED BY <1>10 DEF Accumulates
<1>12. ASSUME NEW m \in 1 .. n PROVE r[m] = Contract!Apply(r[m - 1], ps[m])
  <2>1. r[m] = step[<<r[m - 1], m>>] /\ m - 1 \in 0 .. n
    <3> HIDE DEF step
    <3> QED BY <1>1, <1>10 DEF Accumulates
  <2>2. r[m - 1] \in V
    BY <1>11, <2>1
  <2> QED BY <2>1, <2>2 DEF Put
<1>13. Tabled(r, lines, ps)
  BY <1>11, <1>12 DEF Tabled, V, n
<1> QED BY <1>10, <1>13 DEF n

\* The pairs qs are the first of ps.
FirstOf(qs, ps) == Len(qs) =< Len(ps) /\ \A i \in 1 .. Len(qs) : qs[i] = ps[i]

\* There is one such table, and the first pairs make the same of the lines
\* whether more follow or not.
LEMMA TabledSame ==
    ASSUME NEW lines, NEW ps \in Seq(Pair), NEW qs \in Seq(Pair), FirstOf(qs, ps),
           NEW T, Tabled(T, lines, ps), NEW U, Tabled(U, lines, qs)
    PROVE  \A m \in 0 .. Len(qs) : U[m] = T[m]
<1> DEFINE n == Len(qs)
           Same == {m \in Nat : m =< n => U[m] = T[m]}
<1>1. n \in Nat /\ Len(ps) \in Nat /\ n =< Len(ps) /\ \A i \in 1 .. n : qs[i] = ps[i]
  BY DEF FirstOf
<1>2. 0 \in Same
  BY DEF Tabled
<1>3. ASSUME NEW k \in Nat, k \in Same PROVE k + 1 \in Same
  <2> DEFINE m == k + 1
  <2> SUFFICES ASSUME m =< n PROVE U[m] = T[m]
    OBVIOUS
  <2>1. m \in 1 .. n /\ m \in 1 .. Len(ps) /\ m - 1 = k /\ k =< n
    BY <1>1
  <2> HIDE DEF m
  <2>2. U[m] = Contract!Apply(U[k], qs[m])
    BY <2>1 DEF Tabled
  <2>3. T[m] = Contract!Apply(T[k], ps[m])
    BY <2>1 DEF Tabled
  <2>4. qs[m] = ps[m] /\ U[k] = T[k]
    BY <1>1, <1>3, <2>1
  <2> QED BY <2>2, <2>3, <2>4
<1> HIDE DEF Same
<1>4. \A m \in Nat : m \in Same
  BY <1>2, <1>3, Induction
<1> QED BY <1>1, <1>4 DEF Same

\* An expression finds the empty text in a line, and is to replace all it finds.
Stuck(T, ps) == \E n \in 1 .. Len(ps) : \E m \in DOMAIN T[n - 1] : Spin(T[n - 1][m], ps[n])

\* What the contract says of a body, in terms of the table of its lines.
LEMMA ContractSays ==
    ASSUME NEW r, r.pairs \in Seq(Pair), NEW text, NEW whole, Contract!Rewritten(r),
           Contract!Lines(text, whole) \in Seq(Seq(Byte)),
           NEW T, Tabled(T, Contract!Lines(text, whole), r.pairs)
    PROVE  /\ Contract!Owed(r, text, whole) = FlattenSeq(T[Len(r.pairs)])
           /\ Contract!Endless(r, text, whole) <=> Stuck(T, r.pairs)
<1> DEFINE ps == r.pairs
           lines == Contract!Lines(text, whole)
           first(n) == SubSeq(ps, 1, n - 1)
<1>1. Len(ps) \in Nat /\ DOMAIN ps = 1 .. Len(ps) /\ FirstOf(ps, ps)
  BY SeqIs DEF FirstOf
<1>0. ps \in Seq(Pair) /\ lines \in Seq(Seq(Byte)) /\ Tabled(T, lines, ps)
  OBVIOUS
<1>2. Contract!FoldLeft(Contract!Apply, lines, ps) = T[Len(ps)]
  <2> HIDE DEF lines, ps
  <2>1. PICK U : Tabled(U, lines, ps) /\ Contract!FoldLeft(Contract!Apply, lines, ps) = U[Len(ps)]
    BY <1>0, ApplySteps
  <2>2. \A m \in 0 .. Len(ps) : U[m] = T[m]
    BY <1>0, <1>1, <2>1, TabledSame
  <2> QED BY <1>1, <2>1, <2>2
<1>3. Contract!Owed(r, text, whole) = FlattenSeq(T[Len(ps)])
  <2>1. Contract!Owed(r, text, whole) = Contract!FlattenSeq(Contract!FoldLeft(Contract!Apply, lines, ps))
    BY Zenon DEF Contract!Owed
  <2>2. \A s : Contract!FlattenSeq(s) = FlattenSeq(s)
    BY SameOperators
  <2> QED BY <1>2, <2>1, <2>2
<1>4. ASSUME NEW n \in 1 .. Len(ps)
      PROVE  Contract!FoldLeft(Contract!Apply, lines, first(n)) = T[n - 1]
  <2> DEFINE qs == first(n)
  <2>1. qs \in Seq(Pair) /\ Len(qs) = n - 1 /\ \A i \in 1 .. n - 1 : qs[i] = ps[i]
    BY <1>1
  <2> HIDE DEF qs, lines, ps
  <2>2. PICK U : Tabled(U, lines, qs) /\ Contract!FoldLeft(Contract!Apply, lines, qs) = U[Len(qs)]
    BY <1>0, <2>1, ApplySteps
  <2>3. FirstOf(qs, ps)
    BY <1>1, <2>1 DEF FirstOf
  <2>4. \A m \in 0 .. Len(qs) : U[m] = T[m]
    <3>1. qs \in Seq(Pair) /\ Tabled(U, lines, qs)
      BY <2>1, <2>2
    <3> QED BY <1>0, <2>3, <3>1, TabledSame
  <2>5. Len(qs) \in 0 .. Len(qs)
    BY <1>1, <2>1
  <2> QED BY <2>1, <2>2, <2>4, <2>5 DEF qs, ps, lines
<1>5. Contract!Endless(r, text, whole) <=>
        \E n \in DOMAIN ps : ~ ps[n].once /\
          \E m \in DOMAIN Contract!FoldLeft(Contract!Apply, lines, first(n)) :
            \E i \in Contract!Counted(Contract!FoldLeft(Contract!Apply, lines, first(n))[m], ps[n]) :
              Contract!SizeAt(Contract!FoldLeft(Contract!Apply, lines, first(n))[m], ps[n], i) = 0
  BY Zenon DEF Contract!Endless
<1>6. (\E n \in DOMAIN ps : ~ ps[n].once /\
          \E m \in DOMAIN Contract!FoldLeft(Contract!Apply, lines, first(n)) :
            \E i \in Contract!Counted(Contract!FoldLeft(Contract!Apply, lines, first(n))[m], ps[n]) :
              Contract!SizeAt(Contract!FoldLeft(Contract!Apply, lines, first(n))[m], ps[n], i) = 0)
      <=> \E n \in 1 .. Len(ps) : ~ ps[n].once /\ \E m \in DOMAIN T[n - 1] :
            \E i \in Contract!Counted(T[n - 1][m], ps[n]) : Contract!SizeAt(T[n - 1][m], ps[n], i) = 0
  <2>1. \A n \in 1 .. Len(ps) : Contract!FoldLeft(Contract!Apply, lines, first(n)) = T[n - 1]
    BY <1>4
  <2> DEFINE F(n) == Contract!FoldLeft(Contract!Apply, lines, first(n))
  <2>2. \A n \in 1 .. Len(ps) : F(n) = T[n - 1]
    BY <2>1
  <2> DEFINE I(t, n) == \E m \in DOMAIN t :
                          \E i \in Contract!Counted(t[m], ps[n]) : Contract!SizeAt(t[m], ps[n], i) = 0
  <2> HIDE DEF first, ps, lines, F, I
  <2>3. (\E n \in DOMAIN ps : ~ ps[n].once /\ I(F(n), n))
        <=> \E n \in 1 .. Len(ps) : ~ ps[n].once /\ I(T[n - 1], n)
    BY <1>1, <2>2
  <2> QED BY <2>3, Zenon DEF F, I
<1>7. (\E n \in 1 .. Len(ps) : ~ ps[n].once /\ \E m \in DOMAIN T[n - 1] :
            \E i \in Contract!Counted(T[n - 1][m], ps[n]) : Contract!SizeAt(T[n - 1][m], ps[n], i) = 0)
      <=> Stuck(T, ps)
  <2> HIDE DEF ps
  <2> QED BY Zenon DEF Stuck, Spin
<1> QED BY <1>3, <1>5, <1>6, <1>7, Zenon

\* One line more, what the pairs make of it, and the table with it.
Longer(T, lines, line, ps, U, x) ==
    /\ Tabled(U, Append(lines, line), ps)
    /\ x \in [0 .. Len(ps) -> Seq(Byte)] /\ x[0] = line
    /\ \A m \in 0 .. Len(ps) : Len(T[m]) = Len(lines) /\ U[m] = Append(T[m], x[m])
    /\ \A m \in 1 .. Len(ps) :
         /\ x[m] = Become(x[m - 1], ps[m], HitIn(T[m - 1], ps[m], Len(lines)))
         /\ HitIn(U[m - 1], ps[m], Len(lines) + 1) <=>
              HitIn(T[m - 1], ps[m], Len(lines)) \/ Contract!Counted(x[m - 1], ps[m]) # {}

\* There is such a table.
LEMMA TableLonger ==
    ASSUME NEW lines \in Seq(Seq(Byte)), NEW line \in Seq(Byte), NEW ps \in Seq(Pair),
           NEW T, Tabled(T, lines, ps)
    PROVE  \E U, x : Longer(T, lines, line, ps, U, x)
<1> DEFINE n == Len(ps)
           N == Len(lines)
           more == Append(lines, line)
<1>1. n \in Nat /\ N \in Nat /\ more \in Seq(Seq(Byte)) /\ \A i \in 1 .. n : ps[i] \in Pair
  BY SeqIs
<1>2. T \in [0 .. n -> Seq(Seq(Byte))] /\ T[0] = lines
      /\ \A m \in 1 .. n : T[m] = Contract!Apply(T[m - 1], ps[m])
  BY DEF Tabled
<1>3. PICK U : Tabled(U, more, ps)
  <2> HIDE DEF more
  <2> QED BY <1>1, ApplySteps
<1>4. U \in [0 .. n -> Seq(Seq(Byte))] /\ U[0] = more
      /\ \A m \in 1 .. n : U[m] = Contract!Apply(U[m - 1], ps[m])
  <2> HIDE DEF more
  <2> QED BY <1>3 DEF Tabled
<1> DEFINE x == [m \in 0 .. n |-> U[m][N + 1]]
           Same == {m \in Nat : m =< n => /\ Len(T[m]) = N /\ x[m] \in Seq(Byte)
                                          /\ U[m] = Append(T[m], x[m])}
<1> HIDE DEF n
<1>5. 0 \in Same /\ x[0] = line
  <2>1. x[0] = more[N + 1] /\ more[N + 1] = line
    BY <1>1, <1>4
  <2> HIDE DEF x, more
  <2> QED BY <1>2, <1>4, <2>1 DEF more
<1>6. ASSUME NEW m \in 1 .. n, Len(T[m - 1]) = N, x[m - 1] \in Seq(Byte),
             U[m - 1] = Append(T[m - 1], x[m - 1])
      PROVE  /\ Len(T[m]) = N /\ x[m] \in Seq(Byte) /\ U[m] = Append(T[m], x[m])
             /\ x[m] = Become(x[m - 1], ps[m], HitIn(T[m - 1], ps[m], N))
             /\ HitIn(U[m - 1], ps[m], N + 1) <=>
                  HitIn(T[m - 1], ps[m], N) \/ Contract!Counted(x[m - 1], ps[m]) # {}
  <2> DEFINE p == ps[m]
             t == T[m - 1]
             l == x[m - 1]
             b == Become(l, p, HitIn(t, p, N))
  <2>1. m - 1 \in 0 .. n /\ m \in 0 .. n
    BY <1>1
  <2>2. p \in Pair /\ t \in Seq(Seq(Byte)) /\ l \in Seq(Byte) /\ Len(t) = N
    BY <1>1, <1>2, <1>6, <2>1
  <2>3. U[m] = Contract!Apply(Append(t, l), p) /\ T[m] = Contract!Apply(t, p)
    BY <1>2, <1>4, <1>6
  <2>4. x[m] = U[m][N + 1]
    BY <2>1
  <2>5. U[m - 1] = Append(t, l)
    BY <1>6
  <2> HIDE DEF p, t, l, x
  <2>6. /\ Contract!Apply(Append(t, l), p) = Append(Contract!Apply(t, p), Become(l, p, HitIn(t, p, Len(t))))
        /\ HitIn(Append(t, l), p, Len(Append(t, l))) <=>
             HitIn(t, p, Len(t)) \/ Contract!Counted(l, p) # {}
    BY <2>2, ApplyAppend
  <2>7. Contract!Apply(t, p) \in Seq(Seq(Byte)) /\ Len(Contract!Apply(t, p)) = N
    BY <2>2, ApplyType
  <2>8. Len(Append(t, l)) = N + 1
    BY <2>2
  <2>9. b \in Seq(Byte)
    <3>1. HitIn(t, p, N) \in BOOLEAN
      BY DEF HitIn
    <3> QED BY <2>2, <3>1, BecomeType
  <2>10. U[m] = Append(T[m], b) /\ Len(T[m]) = N /\ T[m] \in Seq(Seq(Byte))
    BY <2>2, <2>3, <2>6, <2>7
  <2> HIDE DEF b
  <2>11. x[m] = b
    BY <1>1, <2>4, <2>9, <2>10
  <2>12. HitIn(U[m - 1], p, N + 1) <=> HitIn(t, p, N) \/ Contract!Counted(l, p) # {}
    BY <2>2, <2>5, <2>6, <2>8
  <2> QED BY <2>9, <2>10, <2>11, <2>12 DEF b, p, t, l
<1>7. ASSUME NEW k \in Nat, k \in Same PROVE k + 1 \in Same
  <2> DEFINE m == k + 1
  <2> HIDE DEF x
  <2> SUFFICES ASSUME m =< n PROVE Len(T[m]) = N /\ x[m] \in Seq(Byte) /\ U[m] = Append(T[m], x[m])
    OBVIOUS
  <2>1. m \in 1 .. n /\ m - 1 = k /\ k =< n
    BY <1>1
  <2> HIDE DEF m
  <2> QED BY <1>6, <1>7, <2>1
<1>8. \A m \in Nat : m \in Same
  <2> HIDE DEF Same
  <2> QED BY <1>5, <1>7, Induction
<1>9. \A m \in 0 .. n : Len(T[m]) = N /\ x[m] \in Seq(Byte) /\ U[m] = Append(T[m], x[m])
  <2> HIDE DEF x
  <2> QED BY <1>1, <1>8
<1>10. x \in [0 .. n -> Seq(Byte)]
  <2> DEFINE X == Seq(Byte)
  <2>1. \A m \in 0 .. n : x[m] \in X
    BY <1>9
  <2> HIDE DEF X
  <2> QED BY <2>1 DEF X
<1>11. \A m \in 1 .. n : m - 1 \in 0 .. n
  BY <1>1
<1>12. \A m \in 1 .. n : /\ x[m] = Become(x[m - 1], ps[m], HitIn(T[m - 1], ps[m], N))
                         /\ HitIn(U[m - 1], ps[m], N + 1) <=>
                              HitIn(T[m - 1], ps[m], N) \/ Contract!Counted(x[m - 1], ps[m]) # {}
  <2> HIDE DEF x
  <2> QED BY <1>6, <1>9, <1>11
<1>13. Longer(T, lines, line, ps, U, x)
  <2> HIDE DEF x
  <2> QED BY <1>3, <1>5, <1>9, <1>10, <1>12 DEF Longer, n
<1> HIDE DEF x
<1> QED BY <1>13

\* A line more leaves the filter stuck, or brings it to that itself.
LEMMA StuckLonger ==
    ASSUME NEW lines \in Seq(Seq(Byte)), NEW line \in Seq(Byte), NEW ps \in Seq(Pair),
           NEW T, Tabled(T, lines, ps), NEW U, NEW x, Longer(T, lines, line, ps, U, x)
    PROVE  Stuck(U, ps) <=> Stuck(T, ps) \/ \E n \in 1 .. Len(ps) : Spin(x[n - 1], ps[n])
<1> DEFINE N == Len(lines)
<1>1. ASSUME NEW n \in 1 .. Len(ps)
      PROVE  (\E m \in DOMAIN U[n - 1] : Spin(U[n - 1][m], ps[n])) <=>
                \/ \E m \in DOMAIN T[n - 1] : Spin(T[n - 1][m], ps[n])
                \/ Spin(x[n - 1], ps[n])
  <2> DEFINE t == T[n - 1]
             l == x[n - 1]
             u == U[n - 1]
             p == ps[n]
  <2>1. n - 1 \in 0 .. Len(ps) /\ N \in Nat
    OBVIOUS
  <2>2. t \in Seq(Seq(Byte)) /\ l \in Seq(Byte) /\ u = Append(t, l) /\ N \in Nat /\ Len(t) = N
    <3>1. T \in [0 .. Len(ps) -> Seq(Seq(Byte))]
      BY DEF Tabled
    <3>2. /\ x \in [0 .. Len(ps) -> Seq(Byte)]
          /\ \A m \in 0 .. Len(ps) : Len(T[m]) = N /\ U[m] = Append(T[m], x[m])
      BY Zenon DEF Longer
    <3> QED BY <2>1, <3>1, <3>2
  <2> HIDE DEF t, l, u, p, N
  <2>3. DOMAIN t = 1 .. N /\ DOMAIN u = 1 .. N + 1 /\ u[N + 1] = l /\ \A i \in 1 .. N : u[i] = t[i]
    BY <2>2
  <2>4. \A m : m \in 1 .. N + 1 <=> m \in 1 .. N \/ m = N + 1
    BY <2>2
  <2>5. (\E m \in DOMAIN u : Spin(u[m], p)) <=> (\E m \in DOMAIN t : Spin(t[m], p)) \/ Spin(l, p)
    BY <2>3, <2>4
  <2> QED BY <2>5 DEF t, l, u, p
<1> QED BY <1>1, Zenon DEF Stuck

-------------------------------------------------------------------------------
(* What the filter makes of a line                                          *)

\* What begins a beginning of a text begins the text.
LEMMA PrefixTrans ==
    ASSUME NEW S, NEW s \in Seq(S), NEW t \in Seq(S), NEW u \in Seq(S),
           IsPrefix(s, t), IsPrefix(t, u)
    PROVE  IsPrefix(s, u)
<1>1. Len(s) =< Len(t) /\ \A j \in 1 .. Len(s) : s[j] = t[j]
  BY PrefixIs
<1>2. Len(t) =< Len(u) /\ \A j \in 1 .. Len(t) : t[j] = u[j]
  BY PrefixIs
<1>3. Len(s) \in Nat /\ Len(t) \in Nat /\ Len(u) \in Nat
  OBVIOUS
<1>4. Len(s) =< Len(u) /\ \A j \in 1 .. Len(s) : s[j] = u[j]
  BY <1>1, <1>2, <1>3
<1> QED BY <1>4, PrefixIs

\* A text begins itself.
LEMMA PrefixSelf ==
    ASSUME NEW S, NEW s \in Seq(S)
    PROVE  IsPrefix(s, s)
<1>1. Len(s) =< Len(s) /\ \A j \in 1 .. Len(s) : s[j] = s[j]
  OBVIOUS
<1> QED BY <1>1, PrefixIs

\* pair->matched is set of the pairs that have a match in the lines.
Marked(marks, T, lines, ps) == \A i \in 1 .. Len(ps) : marks[i] <=> HitIn(T[i - 1], ps[i], Len(lines))

\* The loop over the pairs is at the line that the first m of them leave, and
\* has set their marks, unless one of them has made it spin.
Stage(s, spun, T, lines, U, x, m) ==
    /\ s.spins <=> spun \/ \E n \in 1 .. m : Spin(x[n - 1], response.pairs[n])
    /\ ~ s.spins =>
         /\ Content(s) = x[m]
         /\ \A i \in 1 .. Len(response.pairs) :
              s.matched[i] <=> IF i <= m THEN HitIn(U[i - 1], response.pairs[i], Len(lines) + 1)
                               ELSE HitIn(T[i - 1], response.pairs[i], Len(lines))

\* A pair takes it to the next.
LEMMA StageNext ==
    ASSUME response.pairs \in Seq(Pair), NEW s \in Passing, NEW m \in 1 .. Len(response.pairs),
           Fine(response.pairs[m]), NEW lines \in Seq(Seq(Byte)), NEW line \in Seq(Byte), NEW spun,
           NEW T, Tabled(T, lines, response.pairs),
           NEW U, NEW x, Longer(T, lines, line, response.pairs, U, x),
           Stage(s, spun, T, lines, U, x, m - 1)
    PROVE  Stage(MatchPair(s, m), spun, T, lines, U, x, m)
<1> DEFINE ps == response.pairs
           P == Len(ps)
           N == Len(lines)
           pair == ps[m]
           t == MatchPair(s, m)
           y == Content(s)
           spin(k) == spun \/ \E n \in 1 .. k : Spin(x[n - 1], ps[n])
           mark(k, i) == IF i <= k THEN HitIn(U[i - 1], ps[i], N + 1) ELSE HitIn(T[i - 1], ps[i], N)
<1>1. m \in DOMAIN ps /\ P \in Nat /\ m \in 1 .. P /\ m - 1 \in 0 .. P
  BY SeqIs
<1>2. /\ t.spins <=> s.spins \/ Spin(y, pair)
      /\ ~ t.spins => /\ Content(t) = Become(y, pair, s.matched[m])
                      /\ t.matched = [s.matched EXCEPT ![m] = @ \/ Contract!Counted(y, pair) # {}]
  BY <1>1, PairDoes
<1>3. /\ s.spins <=> spin(m - 1)
      /\ ~ s.spins => y = x[m - 1] /\ \A i \in 1 .. P : s.matched[i] <=> mark(m - 1, i)
  BY Zenon DEF Stage
<1>4. /\ x[m] = Become(x[m - 1], pair, HitIn(T[m - 1], pair, N))
      /\ HitIn(U[m - 1], pair, N + 1) <=>
           HitIn(T[m - 1], pair, N) \/ Contract!Counted(x[m - 1], pair) # {}
  BY <1>1, Zenon DEF Longer
<1>5. spin(m) <=> spin(m - 1) \/ Spin(x[m - 1], pair)
  <2>1. \A n : n \in 1 .. m <=> n \in 1 .. m - 1 \/ n = m
    BY <1>1
  <2> QED BY <2>1
<1>6. s.matched \in [1 .. P -> BOOLEAN]
  BY <1>1 DEF Passing
<1> HIDE DEF ps, P, N, pair, t, y, spin
<1>7. t.spins <=> spin(m)
  <2>1. CASE s.spins
    BY <1>2, <1>3, <1>5, <2>1
  <2>2. CASE ~ s.spins
    BY <1>2, <1>3, <1>5, <2>2
  <2> QED BY <2>1, <2>2
<1>8. ASSUME ~ t.spins
      PROVE  Content(t) = x[m] /\ \A i \in 1 .. P : t.matched[i] <=> mark(m, i)
  <2>1. ~ s.spins /\ y = x[m - 1]
    BY <1>2, <1>3, <1>8
  <2>2. \A i \in 1 .. P : s.matched[i] <=> mark(m - 1, i)
    BY <1>3, <2>1
  <2>3. mark(m - 1, m) = HitIn(T[m - 1], pair, N) /\ mark(m, m) = HitIn(U[m - 1], pair, N + 1)
    BY <1>1 DEF pair
  <2>4. s.matched[m] = HitIn(T[m - 1], pair, N)
    <3>1. s.matched[m] \in BOOLEAN
      BY <1>1, <1>6
    <3>2. HitIn(T[m - 1], pair, N) \in BOOLEAN
      BY DEF HitIn
    <3>3. s.matched[m] <=> HitIn(T[m - 1], pair, N)
      BY <1>1, <2>2, <2>3
    <3> QED BY <3>1, <3>2, <3>3
  <2>5. Content(t) = x[m]
    BY <1>2, <1>4, <1>8, <2>1, <2>4
  <2> HIDE DEF mark
  <2>6. ASSUME NEW i \in 1 .. P PROVE t.matched[i] <=> mark(m, i)
    <3> DEFINE c == Contract!Counted(y, pair) # {}
    <3>1. t.matched = [s.matched EXCEPT ![m] = @ \/ c]
      BY <1>2, <1>8
    <3> HIDE DEF c
    <3>2. CASE i = m
      <4>1. t.matched[i] = (s.matched[m] \/ c)
        BY <1>1, <1>6, <3>1, <3>2
      <4>2. c <=> Contract!Counted(x[m - 1], pair) # {}
        BY <2>1 DEF c
      <4> QED BY <1>4, <2>3, <2>4, <3>2, <4>1, <4>2
    <3>3. CASE i # m
      <4>1. t.matched[i] = s.matched[i]
        BY <1>6, <3>1, <3>3
      <4>2. mark(m, i) = mark(m - 1, i)
        <5>1. i <= m <=> i <= m - 1
          BY <1>1, <3>3
        <5> QED BY <5>1 DEF mark
      <4> QED BY <2>2, <4>1, <4>2
    <3> QED BY <3>2, <3>3
  <2> QED BY <2>5, <2>6
<1> QED BY <1>7, <1>8, Zenon DEF Stage, ps, P, N, t, spin

\* What is gathered agrees with the lines: the filter spins if it is stuck in one
\* of them, and else has made of them what the pairs make of them, where the
\* output comes behind what there was before.
Synced(c, lines, before) ==
    \E T : /\ Tabled(T, lines, response.pairs)
           /\ IsPrefix(before, FlattenSeq(T[Len(response.pairs)]))
           /\ c.spins <=> Stuck(T, response.pairs)
           /\ ~ c.spins => /\ Marked(c.matched, T, lines, response.pairs)
                           /\ before \o c.out = FlattenSeq(T[Len(response.pairs)])

\* ngx_http_subs_match keeps this.
LEMMA MatchSynced ==
    ASSUME response.pairs \in Seq(Pair), \A i \in DOMAIN response.pairs : Fine(response.pairs[i]),
           NEW c \in Gathered, NEW lines \in Seq(Seq(Byte)), NEW before \in Seq(Byte),
           Synced(c, lines, before)
    PROVE  Synced(Match(c), Append(lines, c.line), before)
<1> DEFINE ps == response.pairs
           P == Len(ps)
           N == Len(lines)
           line == c.line
           base == [src |-> line, dst |-> <<>>, matched |-> c.matched, spins |-> c.spins]
           more == Append(lines, line)
           d == Match(c)
<1>1. /\ line \in Seq(Byte) /\ c.out \in Seq(Byte) /\ P \in Nat /\ N \in Nat /\ Len(more) = N + 1
      /\ DOMAIN ps = 1 .. P /\ ps \in Seq(Pair) /\ c.spins \in BOOLEAN
  BY SeqIs DEF Gathered
<1>2. base \in Passing
  BY DEF Passing, Gathered
<1>3. base.spins = c.spins /\ base.matched = c.matched /\ Content(base) = line
  BY DEF Content
<1>4. PICK T : /\ Tabled(T, lines, ps)
               /\ IsPrefix(before, FlattenSeq(T[P]))
               /\ c.spins <=> Stuck(T, ps)
               /\ ~ c.spins => /\ Marked(c.matched, T, lines, ps)
                               /\ before \o c.out = FlattenSeq(T[P])
  BY Zenon DEF Synced
<1> DEFINE fold == FoldLeftDomain(MatchPair, base, response.pairs)
<1>5. /\ d.spins = fold.spins /\ d.matched = fold.matched
      /\ d.out = c.out \o (IF fold.dst = <<>> THEN fold.src ELSE fold.dst)
  <2>1. d = [line |-> <<>>, matched |-> fold.matched, spins |-> fold.spins,
             out |-> c.out \o (IF fold.dst = <<>> THEN fold.src ELSE fold.dst)]
    BY DEF Match
  <2> HIDE DEF fold, d
  <2> QED BY <2>1
<1> HIDE DEF base, d, line
<1>6. PICK r \in [0 .. P -> Passing] :
        /\ r[0] = base /\ fold = r[P] /\ \A m \in 1 .. P : r[m] = MatchPair(r[m - 1], m)
  BY <1>1, <1>2, PairsSteps
<1> HIDE DEF fold, ps
<1>7. PICK U, x : Longer(T, lines, line, ps, U, x)
  BY <1>1, <1>4, TableLonger
<1> DEFINE At(m) == Stage(r[m], c.spins, T, lines, U, x, m)
           Reached == {m \in Nat : m =< P => At(m)}
<1>8. 0 \in Reached
  <2>1. r[0].spins <=> c.spins \/ \E n \in 1 .. 0 : Spin(x[n - 1], ps[n])
    <3>1. ~ \E n \in 1 .. 0 : Spin(x[n - 1], ps[n])
      OBVIOUS
    <3>2. r[0].spins = c.spins
      BY <1>3, <1>6
    <3> QED BY <3>1, <3>2
  <2>2. Content(r[0]) = x[0]
    <3>1. x[0] = line
      BY <1>7, Zenon DEF Longer
    <3> QED BY <1>3, <1>6, <3>1
  <2>3. ASSUME ~ r[0].spins, NEW i \in 1 .. P
        PROVE  r[0].matched[i] <=> IF i <= 0 THEN HitIn(U[i - 1], ps[i], N + 1)
                                   ELSE HitIn(T[i - 1], ps[i], N)
    <3>1. ~ c.spins
      BY <1>3, <1>6, <2>3
    <3>2. Marked(c.matched, T, lines, ps)
      BY <1>4, <3>1
    <3>3. c.matched[i] <=> HitIn(T[i - 1], ps[i], N)
      BY <3>2, Zenon DEF Marked
    <3>4. ~ (i <= 0) /\ r[0].matched = c.matched
      BY <1>1, <1>3, <1>6
    <3> QED BY <3>3, <3>4
  <2>4. At(0)
    BY <2>1, <2>2, <2>3, Zenon DEF Stage, ps
  <2> HIDE DEF At
  <2> QED BY <2>4
<1>9. ASSUME NEW k \in Nat, k \in Reached PROVE k + 1 \in Reached
  <2> DEFINE m == k + 1
  <2> SUFFICES ASSUME m =< P PROVE At(m)
    OBVIOUS
  <2>1. m \in 1 .. P /\ m - 1 = k /\ k =< P /\ k \in 0 .. P
    BY <1>1
  <2> HIDE DEF m
  <2>2. Stage(r[k], c.spins, T, lines, U, x, m - 1)
    BY <1>9, <2>1
  <2>3. r[m] = MatchPair(r[k], m) /\ r[k] \in Passing
    BY <1>6, <2>1
  <2>4. Fine(response.pairs[m]) /\ m \in 1 .. Len(response.pairs) /\ response.pairs \in Seq(Pair)
    BY <1>1, <2>1 DEF ps
  <2>5. Tabled(T, lines, response.pairs) /\ Longer(T, lines, line, response.pairs, U, x)
    BY <1>4, <1>7 DEF ps
  <2>6. Stage(MatchPair(r[k], m), c.spins, T, lines, U, x, m)
    BY <1>1, <2>2, <2>3, <2>4, <2>5, StageNext
  <2> QED BY <2>3, <2>6
<1> HIDE DEF Reached
<1>10. P \in Reached
  BY <1>1, <1>8, <1>9, Induction
<1>11. At(P)
  BY <1>1, <1>10 DEF Reached
<1>12. /\ d.spins <=> c.spins \/ \E n \in 1 .. P : Spin(x[n - 1], ps[n])
       /\ ~ d.spins =>
            /\ Content(r[P]) = x[P]
            /\ \A i \in 1 .. P : d.matched[i] <=> IF i <= P THEN HitIn(U[i - 1], ps[i], N + 1)
                                                  ELSE HitIn(T[i - 1], ps[i], N)
  BY <1>5, <1>6, <1>11, Zenon DEF Stage, ps
<1>13. Tabled(U, more, ps)
  BY <1>7, Zenon DEF Longer
<1>14. Stuck(U, ps) <=> Stuck(T, ps) \/ \E n \in 1 .. P : Spin(x[n - 1], ps[n])
  BY <1>1, <1>4, <1>7, StuckLonger
<1>15. d.spins <=> Stuck(U, ps)
  BY <1>4, <1>12, <1>14
<1>16. P \in 0 .. P
  BY <1>1
<1>17. T[P] \in Seq(Seq(Byte)) /\ Len(T[P]) = N /\ U[P] = Append(T[P], x[P]) /\ x[P] \in Seq(Byte)
  <2>1. T \in [0 .. P -> Seq(Seq(Byte))]
    BY <1>4, Zenon DEF Tabled
  <2>2. /\ x \in [0 .. P -> Seq(Byte)]
        /\ \A m \in 0 .. P : Len(T[m]) = N /\ U[m] = Append(T[m], x[m])
    BY <1>7, Zenon DEF Longer
  <2> QED BY <1>16, <2>1, <2>2
<1>18. FlattenSeq(U[P]) = FlattenSeq(T[P]) \o x[P] /\ FlattenSeq(T[P]) \in Seq(Byte)
  <2> DEFINE f == T[P]
             h == U[P]
             e == x[P]
  <2>1. N \in Nat /\ f \in Seq(Seq(Byte)) /\ Len(f) = N /\ h = Append(f, e) /\ e \in Seq(Byte)
    BY <1>1, <1>17
  <2> HIDE DEF f, h, e, N
  <2>2. DOMAIN f = 1 .. N /\ \A i \in 1 .. N : f[i] \in Seq(Byte)
    BY <2>1, SeqIs
  <2>3. h \in Seq(Seq(Byte)) /\ Len(h) = N + 1 /\ h[N + 1] = e /\ \A i \in 1 .. N : h[i] = f[i]
    BY <2>1
  <2>4. DOMAIN h = 1 .. N + 1 /\ \A i \in 1 .. N + 1 : h[i] \in Seq(Byte)
    BY <2>3, SeqIs
  <2>5. f \in [1 .. N -> Seq(Byte)]
    BY <2>1, <2>2
  <2>6. h \in [1 .. N + 1 -> Seq(Byte)]
    BY <2>3, <2>4
  <2>7. \A i \in 1 .. N : h[i] = f[i]
    BY <2>3
  <2>8. FlattenSeq(h) = FlattenSeq(f) \o h[N + 1]
    BY ZenonT(30), <2>1, <2>5, <2>6, <2>7, FlattenedOneMore
  <2>9. FlattenSeq(f) \in Seq(Byte)
    BY <2>1, <2>5, Flattened
  <2> QED BY <2>3, <2>8, <2>9 DEF f, h, e
<1>19. IsPrefix(before, FlattenSeq(U[P]))
  <2> DEFINE o == FlattenSeq(T[P])
             e == x[P]
  <2>1. o \in Seq(Byte) /\ e \in Seq(Byte) /\ IsPrefix(before, o)
    BY <1>4, <1>17, <1>18
  <2> HIDE DEF o, e
  <2>2. IsPrefix(o, o \o e) /\ o \o e \in Seq(Byte)
    BY <2>1, PrefixJoin
  <2>3. IsPrefix(before, o \o e)
    BY <2>1, <2>2, PrefixTrans
  <2> QED BY <1>18, <2>3 DEF o, e
<1>20. ASSUME ~ d.spins PROVE Marked(d.matched, U, more, ps) /\ before \o d.out = FlattenSeq(U[P])
  <2>1. Marked(d.matched, U, more, ps)
    <3>1. \A i \in 1 .. P : i <= P
      BY <1>1
    <3>2. \A i \in 1 .. P : d.matched[i] <=> HitIn(U[i - 1], ps[i], N + 1)
      BY <1>12, <1>20, <3>1
    <3> HIDE DEF N, more
    <3> QED BY <1>1, <3>2 DEF Marked
  <2>2. d.out = c.out \o x[P]
    <3>1. (IF fold.dst = <<>> THEN fold.src ELSE fold.dst) = Content(r[P])
      BY <1>6 DEF Content
    <3> QED BY <1>5, <1>12, <1>20, <3>1
  <2> DEFINE e == x[P]
             o == c.out
             f == T[P]
  <2>3. Three(Byte, before, o, e)
    BY <1>1, <1>17 DEF Three
  <2>4. before \o o = FlattenSeq(f)
    <3>1. ~ c.spins
      BY <1>12, <1>20
    <3> QED BY <1>4, <3>1
  <2>5. FlattenSeq(U[P]) = FlattenSeq(f) \o e
    BY <1>18
  <2> HIDE DEF e, o, f
  <2>6. (before \o o) \o e = before \o (o \o e)
    BY <2>3, JoinJoin
  <2> QED BY <2>1, <2>2, <2>4, <2>5, <2>6 DEF e, o
<1> QED BY <1>13, <1>15, <1>19, <1>20, Zenon DEF Synced, ps, P, d, more, line

-------------------------------------------------------------------------------
(* What the filter makes of a chain                                         *)

FinePairs == response.pairs \in Seq(Pair) /\ \A i \in DOMAIN response.pairs : Fine(response.pairs[i])

\* What is gathered agrees with a text: it has the rest of its last line.
Ahead(c, text, whole, before) ==
    /\ c.line = IF whole THEN <<>> ELSE Rest(text)
    /\ Synced(c, Contract!Lines(text, whole), before)

\* A byte of a buffer keeps this.
LEMMA ByteAhead ==
    ASSUME FinePairs, NEW c \in Gathered, NEW before \in Seq(Byte), NEW t \in Seq(Byte),
           Ahead(c, t, FALSE, before),
           NEW text \in Seq(Byte), NEW i \in 1 .. Len(text), NEW last \in BOOLEAN
    PROVE  Ahead(Taken(c, text, i, last), Append(t, text[i]), last /\ i = Len(text), before)
<1> DEFINE b == text[i]
           e == [c EXCEPT !.line = Append(@, b)]
           u == Append(t, b)
           whole == last /\ i = Len(text)
           lines == Contract!Lines(t, FALSE)
           line == Append(Rest(t), b)
<1>1. b \in Byte /\ u \in Seq(Byte) /\ Rest(t) \in Seq(Byte) /\ lines \in Seq(Seq(Byte))
  <2>1. b \in Byte /\ u \in Seq(Byte)
    OBVIOUS
  <2>2. Rest(t) \in Seq(Byte)
    BY LastFeedIs
  <2>3. lines \in Seq(Seq(Byte))
    BY LinesOpen
  <2> QED BY <2>1, <2>2, <2>3
<1>2. line \in Seq(Byte) /\ line # <<>>
  <2> DEFINE s == Rest(t)
  <2>1. s \in Seq(Byte) /\ b \in Byte
    BY <1>1
  <2> HIDE DEF s, b
  <2>2. Append(s, b) \in Seq(Byte) /\ Len(Append(s, b)) = Len(s) + 1 /\ Len(s) \in Nat
    BY <2>1
  <2>3. Append(s, b) # <<>>
    BY SMTT(30), <2>1
  <2> QED BY <2>2, <2>3 DEF s, b
<1>3. c.line = Rest(t) /\ Synced(c, lines, before)
  BY DEF Ahead
<1>4. e \in Gathered
  BY TakenType DEF FinePairs
<1>5. e.line = line /\ e.matched = c.matched /\ e.out = c.out /\ e.spins = c.spins
  BY <1>3 DEF Gathered
<1> HIDE DEF b, e, u, whole, line, lines
<1>6. Synced(e, lines, before)
  BY <1>3, <1>5 DEF Synced
<1>7. Match(e).line = <<>> /\ Synced(Match(e), Append(lines, line), before)
  <2>1. Match(e).line = <<>>
    BY <1>4, MatchType DEF FinePairs
  <2>2. Synced(Match(e), Append(lines, e.line), before)
    BY <1>1, <1>4, <1>6, MatchSynced DEF FinePairs
  <2> QED BY <1>5, <2>1, <2>2
<1>8. /\ b = LF => Contract!Lines(u, FALSE) = Append(lines, line) /\ Rest(u) = <<>>
      /\ b # LF => Contract!Lines(u, FALSE) = lines /\ Rest(u) = line
  BY <1>1, LinesNext, RestLonger DEF u, lines, line
<1>9. /\ Rest(u) = <<>> => Contract!Lines(u, TRUE) = Contract!Lines(u, FALSE)
      /\ Rest(u) # <<>> => Contract!Lines(u, TRUE) = Append(Contract!Lines(u, FALSE), Rest(u))
  BY <1>1, LinesEnd
<1>10. Taken(c, text, i, last) = IF b = LF \/ whole THEN Match(e) ELSE e
  BY Zenon DEF Taken, EndsLine, b, whole, e
<1>11. whole \in BOOLEAN
  BY DEF whole
<1>12. CASE whole
  <2>1. Contract!Lines(u, TRUE) = Append(lines, line)
    BY <1>2, <1>8, <1>9
  <2>2. whole = TRUE /\ Taken(c, text, i, last) = Match(e)
    BY <1>10, <1>11, <1>12
  <2> QED BY <1>7, <2>1, <2>2 DEF Ahead, u, b, whole
<1>13. CASE ~ whole /\ b = LF
  <2>1. whole = FALSE /\ Taken(c, text, i, last) = Match(e)
    BY <1>10, <1>11, <1>13
  <2>2. Ahead(Match(e), u, FALSE, before)
    BY <1>7, <1>8, <1>13 DEF Ahead
  <2> QED BY <2>1, <2>2 DEF u, b, whole
<1>14. CASE ~ whole /\ b # LF
  <2>1. whole = FALSE /\ Taken(c, text, i, last) = e
    BY <1>10, <1>11, <1>14
  <2>2. Ahead(e, u, FALSE, before)
    BY <1>5, <1>6, <1>8, <1>14 DEF Ahead
  <2> QED BY <2>1, <2>2 DEF u, b, whole
<1> QED BY <1>12, <1>13, <1>14

\* So does a buffer.
LEMMA BufferAhead ==
    ASSUME FinePairs, NEW c \in Gathered, NEW before \in Seq(Byte), NEW t \in Seq(Byte),
           Ahead(c, t, FALSE, before), NEW text \in Seq(Byte), NEW last \in BOOLEAN
    PROVE  Ahead(ProcessBuffer(c, text, last), t \o text, last, before)
<1> DEFINE fold == FoldLeftDomain(LAMBDA d, i :
                     LET e == [d EXCEPT !.line = Append(@, text[i])]
                     IN IF EndsLine(text, i, last) THEN Match(e) ELSE e, c, text)
<1>1. CASE text = <<>>
  <2>1. t \o text = t
    BY <1>1
  <2>2. ProcessBuffer(c, text, last) = IF c.line # <<>> /\ last THEN Match(c) ELSE c
    BY <1>1 DEF ProcessBuffer
  <2>3. /\ c.line = Rest(t) /\ Synced(c, Contract!Lines(t, FALSE), before)
        /\ Contract!Lines(t, FALSE) \in Seq(Seq(Byte))
    BY LinesOpen DEF Ahead
  <2>4. /\ Rest(t) = <<>> => Contract!Lines(t, TRUE) = Contract!Lines(t, FALSE)
        /\ Rest(t) # <<>> => Contract!Lines(t, TRUE) = Append(Contract!Lines(t, FALSE), Rest(t))
    BY LinesEnd
  <2>5. CASE last = FALSE
    BY <2>1, <2>2, <2>5
  <2>6. CASE last = TRUE /\ Rest(t) = <<>>
    <3>1. ProcessBuffer(c, text, last) = c
      BY <2>2, <2>3, <2>6
    <3> QED BY <2>1, <2>3, <2>4, <2>6, <3>1 DEF Ahead
  <2>7. CASE last = TRUE /\ Rest(t) # <<>>
    <3>1. ProcessBuffer(c, text, last) = Match(c)
      BY <2>2, <2>3, <2>7
    <3>2. Match(c).line = <<>>
      BY MatchType DEF FinePairs
    <3>3. Synced(Match(c), Append(Contract!Lines(t, FALSE), c.line), before)
      BY <2>3, MatchSynced DEF FinePairs
    <3> QED BY <2>1, <2>3, <2>4, <2>7, <3>1, <3>2, <3>3 DEF Ahead
  <2> QED BY <2>5, <2>6, <2>7
<1>2. CASE text # <<>>
  <2> DEFINE n == Len(text)
             so(m) == SubSeq(text, 1, m)
             all(m) == last /\ m = Len(text)
  <2>1. n \in Nat /\ n # 0
    BY <1>2
  <2>2. ProcessBuffer(c, text, last) = fold
    BY <1>2 DEF ProcessBuffer
  <2>9. response.pairs \in Seq(Pair)
    BY DEF FinePairs
  <2>3. PICK r \in [0 .. n -> Gathered] :
          /\ r[0] = c
          /\ fold = r[n]
          /\ \A m \in 1 .. n : r[m] = Taken(r[m - 1], text, m, last)
    BY <2>9, BytesSteps, ZenonT(60)
  <2> HIDE DEF fold
  <2> DEFINE At(m) == Ahead(r[m], t \o so(m), all(m), before)
             Reached == {m \in Nat : m =< n => At(m)}
  <2>4. 0 \in Reached
    <3>1. so(0) = <<>>
      OBVIOUS
    <3>2. t \o so(0) = t
      BY <3>1
    <3>3. all(0) = FALSE
      BY <2>1
    <3> HIDE DEF so, all
    <3> QED BY <2>3, <3>2, <3>3
  <2>5. ASSUME NEW k \in Nat, k \in Reached PROVE k + 1 \in Reached
    <3> DEFINE m == k + 1
    <3> SUFFICES ASSUME m =< n PROVE At(m)
      OBVIOUS
    <3>1. m \in 1 .. n /\ m - 1 = k /\ k =< n /\ k \in 0 .. n
      BY <2>1
    <3>2. all(k) = FALSE
      BY <2>1
    <3> HIDE DEF m
    <3>3. so(k) \in Seq(Byte) /\ so(m) = Append(so(k), text[m]) /\ text[m] \in Byte
      <4>1. text[m] \in Byte
        BY <3>1
      <4>2. so(k) \in Seq(Byte) /\ Len(so(k)) = k /\ so(m) \in Seq(Byte) /\ Len(so(m)) = m
        BY <3>1
      <4>3. \A i \in 1 .. m : so(m)[i] = text[i]
        BY <3>1
      <4>4. \A i \in 1 .. k : so(k)[i] = text[i]
        BY <3>1
      <4> HIDE DEF so
      <4> DEFINE a == Append(so(k), text[m])
      <4>5. a \in Seq(Byte) /\ Len(a) = m /\ a[m] = text[m] /\ \A i \in 1 .. k : a[i] = text[i]
        BY <3>1, <4>1, <4>2, <4>4
      <4> HIDE DEF a
      <4>6. \A i \in 1 .. m : so(m)[i] = a[i]
        <5>1. \A i \in 1 .. m : i = m \/ i \in 1 .. k
          BY <3>1
        <5> QED BY <4>3, <4>5, <5>1
      <4>7. so(m) = a
        BY <4>2, <4>5, <4>6, SameSeq
      <4> QED BY <4>1, <4>2, <4>7 DEF a
    <3>4. At(k)
      BY <2>5, <3>1
    <3> HIDE DEF so
    <3>5. t \o so(m) = Append(t \o so(k), text[m]) /\ t \o so(k) \in Seq(Byte)
      <4>1. t \o Append(so(k), text[m]) = Append(t \o so(k), text[m])
        BY <3>3, JoinAppend
      <4>2. t \o so(k) \in Seq(Byte)
        BY <3>3
      <4> QED BY <3>3, <4>1, <4>2
    <3>6. Ahead(r[k], t \o so(k), FALSE, before)
      BY <3>2, <3>4
    <3>7. r[k] \in Gathered /\ r[m] = Taken(r[k], text, m, last) /\ m \in 1 .. Len(text)
      BY <2>3, <3>1
    <3> DEFINE v == t \o so(k)
    <3>8. v \in Seq(Byte) /\ Ahead(r[k], v, FALSE, before)
      BY <3>5, <3>6
    <3> HIDE DEF v
    <3>9. Ahead(Taken(r[k], text, m, last), Append(v, text[m]), last /\ m = Len(text), before)
      BY <3>7, <3>8, ByteAhead
    <3> QED BY <3>5, <3>7, <3>9 DEF v
  <2> HIDE DEF Reached
  <2>6. n \in Reached
    BY <2>1, <2>4, <2>5, Induction
  <2>7. At(n)
    BY <2>1, <2>6 DEF Reached
  <2>8. so(n) = text /\ all(n) = last
    OBVIOUS
  <2> HIDE DEF so, all
  <2> QED BY <2>2, <2>3, <2>7, <2>8
<1> QED BY <1>1, <1>2

\* So does a chain.
LEMMA ChainAhead ==
    ASSUME FinePairs, NEW before \in Seq(Byte), NEW t \in Seq(Byte), NEW chain \in Seq(Seq(Byte)),
           NEW last \in BOOLEAN, chain = <<>> => last = FALSE,
           line_in \in Seq(Byte), matched \in [DOMAIN response.pairs -> BOOLEAN],
           Ahead([line |-> line_in, matched |-> matched, out |-> <<>>, spins |-> FALSE],
                 t, FALSE, before)
    PROVE  Ahead(Gather(chain, last), t \o FlattenSeq(chain), last, before)
<1> DEFINE n == Len(chain)
           base == [line |-> line_in, matched |-> matched, out |-> <<>>, spins |-> FALSE]
           all(m) == last /\ m = n
<1>1. n \in Nat /\ (n = 0 => last = FALSE) /\ \A m \in 1 .. n : chain[m] \in Seq(Byte)
  BY SeqIs
<1>2. chain \in [1 .. n -> Seq(Byte)]
  <2>1. DOMAIN chain = 1 .. n /\ \A m \in 1 .. n : chain[m] \in Seq(Byte)
    BY SeqIs
  <2> HIDE DEF n
  <2> QED BY <2>1
<1> HIDE DEF n
<1>3. PICK g : Rows(Byte, g, chain, n) /\ FlattenSeq(chain) = g[n]
  BY <1>1, <1>2, FlattenRows
<1>4. response.pairs \in Seq(Pair)
  BY DEF FinePairs
<1>5. PICK r \in [0 .. n -> Gathered] :
        /\ r[0] = base /\ Gather(chain, last) = r[n]
        /\ \A m \in 1 .. n : r[m] = ProcessBuffer(r[m - 1], chain[m], last /\ m = n)
  BY <1>4, GatherSteps DEF n
<1>6. Ahead(base, t, FALSE, before)
  OBVIOUS
<1> HIDE DEF base
<1> DEFINE At(m) == Ahead(r[m], t \o g[m], all(m), before)
           Reached == {m \in Nat : m =< n => At(m)}
<1>7. 0 \in Reached
  <2>1. g[0] = <<>>
    BY <1>3 DEF Rows
  <2>2. t \o g[0] = t
    BY <2>1
  <2>3. all(0) = FALSE
    BY <1>1
  <2> HIDE DEF all
  <2> QED BY <1>5, <1>6, <2>2, <2>3
<1>8. ASSUME NEW k \in Nat, k \in Reached PROVE k + 1 \in Reached
  <2> DEFINE m == k + 1
  <2> SUFFICES ASSUME m =< n PROVE At(m)
    OBVIOUS
  <2>1. m \in 1 .. n /\ m - 1 = k /\ k =< n /\ k \in 0 .. n
    BY <1>1
  <2>2. all(k) = FALSE
    BY <1>1
  <2> HIDE DEF m
  <2>3. At(k)
    BY <1>8, <2>1
  <2>4. g[k] \in Seq(Byte) /\ chain[m] \in Seq(Byte) /\ g[m] = g[k] \o chain[m]
    <3>1. g \in [0 .. n -> Seq(Byte)] /\ \A i \in 1 .. n : g[i] = g[i - 1] \o chain[i]
      BY <1>3, Zenon DEF Rows
    <3> QED BY <1>1, <2>1, <3>1
  <2>5. r[k] \in Gathered /\ r[m] = ProcessBuffer(r[k], chain[m], all(m)) /\ all(m) \in BOOLEAN
    BY <1>5, <2>1
  <2> DEFINE v == t \o g[k]
             b == chain[m]
             w == all(m)
  <2>6. v \in Seq(Byte) /\ Ahead(r[k], v, FALSE, before)
    <3>1. v \in Seq(Byte)
      BY <2>4
    <3>2. Ahead(r[k], v, FALSE, before)
      BY <2>2, <2>3
    <3> QED BY <3>1, <3>2
  <2>7. v \o b = t \o g[m]
    <3> DEFINE a == g[k]
    <3>1. Three(Byte, t, a, b)
      BY <2>4 DEF Three
    <3> HIDE DEF a, b
    <3>2. (t \o a) \o b = t \o (a \o b)
      BY <3>1, JoinJoin
    <3> QED BY <2>4, <3>2 DEF a, b
  <2>8. b \in Seq(Byte) /\ w \in BOOLEAN
    BY <2>4, <2>5
  <2> HIDE DEF v, b, w
  <2>9. Ahead(ProcessBuffer(r[k], b, w), v \o b, w, before)
    BY <2>5, <2>6, <2>8, BufferAhead
  <2> QED BY <2>5, <2>7, <2>9 DEF b, w
<1> HIDE DEF Reached
<1>9. n \in Reached
  BY <1>1, <1>7, <1>8, Induction
<1>10. At(n)
  BY <1>1, <1>9 DEF Reached
<1>11. all(n) = last
  OBVIOUS
<1> HIDE DEF all
<1> QED BY <1>3, <1>5, <1>10, <1>11

\* Of no lines nothing is made.
LEMMA NothingYet ==
    ASSUME NEW ps \in Seq(Pair), NEW T, Tabled(T, <<>>, ps)
    PROVE  ~ Stuck(T, ps) /\ FlattenSeq(T[Len(ps)]) = <<>> /\ T[Len(ps)] = <<>>
<1> DEFINE P == Len(ps)
           Reached == {m \in Nat : m =< P => T[m] = <<>>}
<1>1. P \in Nat /\ P \in 0 .. P /\ \A m \in 1 .. P : ps[m] \in Pair
  BY SeqIs
<1>2. T[0] = <<>> /\ \A m \in 1 .. P : T[m] = Contract!Apply(T[m - 1], ps[m])
  BY Zenon DEF Tabled
<1> HIDE DEF P
<1>3. 0 \in Reached
  BY <1>2
<1>4. ASSUME NEW k \in Nat, k \in Reached PROVE k + 1 \in Reached
  <2> DEFINE m == k + 1
  <2> SUFFICES ASSUME m =< P PROVE T[m] = <<>>
    OBVIOUS
  <2>1. m \in 1 .. P /\ m - 1 = k /\ k =< P
    BY <1>1
  <2> HIDE DEF m
  <2> DEFINE pair == ps[m]
             none == <<>>
             t == Contract!Apply(none, pair)
  <2>2. pair \in Pair /\ none \in Seq(Seq(Byte)) /\ Len(none) = 0
    BY <1>1, <2>1
  <2> HIDE DEF pair, none
  <2>3. t \in Seq(Seq(Byte)) /\ Len(t) = 0
    BY <2>2, ApplyType
  <2>4. T[m] = t
    BY <1>2, <1>4, <2>1 DEF pair, none
  <2> HIDE DEF t
  <2>5. t = <<>>
    BY <2>3
  <2> QED BY <2>4, <2>5
<1> HIDE DEF Reached
<1>5. \A m \in Nat : m \in Reached
  BY <1>3, <1>4, Induction
<1>6. \A m \in 0 .. P : T[m] = <<>>
  BY <1>1, <1>5 DEF Reached
<1>7. ~ Stuck(T, ps)
  <2>1. \A n \in 1 .. P : n - 1 \in 0 .. P
    BY <1>1
  <2>2. \A n \in 1 .. P : DOMAIN T[n - 1] = {}
    BY <1>6, <2>1
  <2> QED BY <2>2 DEF Stuck, P
<1>8. FlattenSeq(<<>>) = <<>>
  BY DEF FlattenSeq
<1> QED BY <1>1, <1>6, <1>7, <1>8 DEF P

\* The lines of a text are texts.
LEMMA LinesAny ==
    ASSUME NEW text \in Seq(Byte), NEW whole \in BOOLEAN
    PROVE  Contract!Lines(text, whole) \in Seq(Seq(Byte))
<1>1. Contract!Lines(text, FALSE) \in Seq(Seq(Byte))
  BY LinesOpen
<1>2. Rest(text) \in Seq(Byte)
  BY LastFeedIs
<1>3. /\ Rest(text) = <<>> => Contract!Lines(text, TRUE) = Contract!Lines(text, FALSE)
      /\ Rest(text) # <<>> => Contract!Lines(text, TRUE) =
                                Append(Contract!Lines(text, FALSE), Rest(text))
  BY LinesEnd
<1>4. Append(Contract!Lines(text, FALSE), Rest(text)) \in Seq(Seq(Byte))
  <2> DEFINE l == Contract!Lines(text, FALSE)
             r == Rest(text)
             S == Seq(Byte)
  <2>1. l \in Seq(S) /\ r \in S
    BY <1>1, <1>2
  <2> HIDE DEF l, r, S
  <2>2. Append(l, r) \in Seq(S)
    BY <2>1
  <2> QED BY <2>2 DEF l, r, S
<1>5. Contract!Lines(text, TRUE) \in Seq(Seq(Byte))
  BY <1>1, <1>3, <1>4
<1> QED BY <1>1, <1>5

-------------------------------------------------------------------------------
(* The invariant                                                            *)

\* What the filter keeps from one chain to the next.
Kept == [line |-> line_in, matched |-> matched, out |-> <<>>, spins |-> FALSE]

\* It is stuck in a line of the body.
Stopped ==
    \E T : /\ Tabled(T, Contract!Lines(received, ended), response.pairs)
           /\ Stuck(T, response.pairs)
           /\ IsPrefix(Delivered, FlattenSeq(T[Len(response.pairs)]))

\* What is sent, and on its way to the client, is what the contract owes for the
\* lines that are complete, and the rest of the body is the line begun; the marks
\* of the pairs are those of the lines.  A filter that hangs does so in a line of
\* the body, and a body that is not the filter's is delivered as it comes.
RInv ==
    /\ IInv /\ IsInjective(down)
    /\ installed <=> headed /\ Contract!Rewritten(response)
    /\ tail = "sent" => ended /\ down = <<>>
    /\ ~ headed => \A i \in DOMAIN matched : ~ matched[i]
    /\ ~ installed => ~ hung /\ received = Delivered
    /\ hung => tail = "none" /\ Stopped
    /\ installed /\ ~ hung => Ahead(Kept, received, ended, Delivered)

\* The pairs are as they should be.
LEMMA AreFine == ASSUME Typed PROVE FinePairs
<1>1. response \in Responses
  BY DEF Typed
<1>2. response.pairs \in Seq(Pair)
  BY <1>1, ResponsesAssumption
<1>3. ASSUME NEW i \in DOMAIN response.pairs PROVE Fine(response.pairs[i])
  <2>1. response.pairs[i] \in Pair
    BY <1>2
  <2>2. ~ response.pairs[i].regex => Len(response.pairs[i].match) = 1 /\ ~ response.pairs[i].anchored
    BY <1>1, PlainAssumption
  <2> QED BY <2>1, <2>2 DEF Fine
<1> QED BY <1>2, <1>3 DEF FinePairs

\* What is on its way is a text.
LEMMA DeliveredType ==
    ASSUME Typed
    PROVE  Delivered \in Seq(Byte) /\ Flight(down, mem) \in Seq(Byte) /\ sent \in Seq(Byte)
<1>1. Queue(bufs, down, mem)
  BY DEF Typed, Queue
<1>2. Flight(down, mem) \in Seq(Byte)
  BY <1>1, FlightType
<1>3. sent \in Seq(Byte)
  BY DEF Typed
<1> QED BY <1>2, <1>3 DEF Delivered

\* The client has got a beginning of what it is owed, and all of it when it is
\* told so.
Owing ==
    /\ IsPrefix(sent, Contract!Owed(response, received, ended))
    /\ tail = "sent" => ended /\ sent = Contract!Owed(response, received, ended)

\* The invariant says so, and that the filter hangs exactly if the body makes it.
LEMMA SentOwed == RInv => Owing /\ HangExplained
<1> SUFFICES ASSUME RInv PROVE Owing /\ HangExplained
  OBVIOUS
<1> DEFINE ps == response.pairs
           lines == Contract!Lines(received, ended)
           owed == Contract!Owed(response, received, ended)
           endless == Contract!Endless(response, received, ended)
           way == Flight(down, mem)
<1>1. IInv /\ Typed /\ Early
  BY DEF RInv, IInv
<1>2. FinePairs /\ ps \in Seq(Pair)
  BY <1>1, AreFine DEF FinePairs
<1>3. /\ Delivered \in Seq(Byte) /\ way \in Seq(Byte) /\ sent \in Seq(Byte)
      /\ received \in Seq(Byte) /\ ended \in BOOLEAN
  BY <1>1, DeliveredType DEF Typed
<1>4. lines \in Seq(Seq(Byte))
  BY <1>3, LinesAny
<1>5. Delivered = sent \o way
  BY DEF Delivered
<1>6. down = <<>> => way = <<>>
  BY FlightEmpty
<1>7. ASSUME Contract!Rewritten(response), NEW T, Tabled(T, lines, ps)
      PROVE  owed = FlattenSeq(T[Len(ps)]) /\ (endless <=> Stuck(T, ps))
  BY <1>2, <1>4, <1>7, ContractSays
<1>8. ~ Contract!Rewritten(response) => owed = received /\ ~ endless
  BY Zenon DEF Contract!Owed, Contract!Endless
<1> HIDE DEF ps, lines, owed, endless, way
<1>9. IsPrefix(sent, Delivered)
  BY <1>3, <1>5, PrefixJoin
<1>10. tail = "sent" => ended /\ sent = Delivered
  <2>1. ASSUME tail = "sent" PROVE sent = Delivered
    <3>1. way = <<>>
      BY <1>6, <2>1 DEF RInv
    <3> QED BY <1>3, <1>5, <3>1
  <2> QED BY <2>1 DEF RInv
<1>11. CASE ~ installed
  <2>1. ~ hung /\ received = Delivered
    BY <1>11 DEF RInv
  <2>2. CASE ~ Contract!Rewritten(response)
    BY <1>8, <1>9, <1>10, <2>1, <2>2 DEF Owing, HangExplained, owed, endless
  <2>3. CASE Contract!Rewritten(response)
    <3>1. ~ headed
      BY <1>11, <2>3 DEF RInv
    <3>2. received = <<>> /\ ended = FALSE
      BY <1>1, <1>3, <3>1 DEF Early
    <3>3. lines = <<>>
      BY <3>2, NoLines DEF lines
    <3>4. PICK T : Tabled(T, lines, ps)
      BY <1>2, <1>4, ApplySteps
    <3>5. owed = FlattenSeq(T[Len(ps)]) /\ (endless <=> Stuck(T, ps))
      BY <1>7, <2>3, <3>4
    <3>6. FlattenSeq(T[Len(ps)]) = <<>> /\ ~ Stuck(T, ps)
      BY <1>2, <3>3, <3>4, NothingYet
    <3>7. owed = received
      BY <3>2, <3>5, <3>6
    <3> QED BY <1>9, <1>10, <2>1, <3>5, <3>6, <3>7 DEF Owing, HangExplained, owed, endless
  <2> QED BY <2>2, <2>3
<1>12. CASE installed /\ ~ hung
  <2>1. Synced(Kept, lines, Delivered)
    BY <1>12 DEF RInv, Ahead, lines
  <2>2. Kept.out = <<>> /\ Kept.spins = FALSE
    BY DEF Kept
  <2>3. PICK T : /\ Tabled(T, lines, ps)
                 /\ ~ Stuck(T, ps) /\ Delivered \o <<>> = FlattenSeq(T[Len(ps)])
    BY <2>1, <2>2 DEF Synced, ps
  <2>4. Contract!Rewritten(response)
    BY <1>12 DEF RInv
  <2>5. owed = FlattenSeq(T[Len(ps)]) /\ ~ endless
    BY <1>7, <2>3, <2>4
  <2>6. owed = Delivered
    BY <1>3, <2>3, <2>5
  <2> QED BY <1>9, <1>10, <1>12, <2>5, <2>6 DEF Owing, HangExplained, owed, endless
<1>13. CASE installed /\ hung
  <2>1. tail = "none" /\ Stopped
    BY <1>13 DEF RInv
  <2>2. PICK T : /\ Tabled(T, lines, ps) /\ Stuck(T, ps)
                 /\ IsPrefix(Delivered, FlattenSeq(T[Len(ps)]))
    BY <2>1, Zenon DEF Stopped, ps, lines
  <2>3. Contract!Rewritten(response)
    BY <1>13 DEF RInv
  <2>4. owed = FlattenSeq(T[Len(ps)]) /\ endless
    BY <1>7, <2>2, <2>3
  <2>5. owed \in Seq(Byte)
    <3>1. T[Len(ps)] \in Seq(Seq(Byte))
      BY <1>2, <2>2 DEF Tabled
    <3> QED BY <2>4, <3>1, FlattenType
  <2>6. IsPrefix(sent, owed)
    <3>1. IsPrefix(Delivered, owed)
      BY <2>2, <2>4
    <3> QED BY <1>3, <1>9, <2>5, <3>1, PrefixTrans
  <2> QED BY <1>13, <2>1, <2>4, <2>6 DEF Owing, HangExplained, owed, endless
<1> QED BY <1>11, <1>12, <1>13, <1>1 DEF Typed

\* It holds at first.
LEMMA InitRefines == Init => RInv
<1> SUFFICES ASSUME Init PROVE RInv
  OBVIOUS
<1>1. IInv
  BY InitInv
<1>2. /\ headed = FALSE /\ installed = FALSE /\ received = <<>> /\ down = <<>> /\ tail = "none"
      /\ sent = <<>> /\ hung = FALSE /\ matched = [i \in DOMAIN response.pairs |-> FALSE]
  BY DEF Init
<1>3. IsInjective(down)
  BY <1>2 DEF IsInjective
<1>4. Delivered = <<>>
  <2>1. Flight(down, mem) = <<>>
    BY <1>2, FlightEmpty
  <2> QED BY <1>2, <2>1 DEF Delivered
<1> QED BY <1>1, <1>2, <1>3, <1>4 DEF RInv

\* The header filter keeps it: a filter that takes part has nothing to tell yet.
LEMMA HeaderRefines == ASSUME RInv, HeaderFilter PROVE RInv'
<1>1. IInv /\ Typed /\ Early /\ Alone
  BY DEF RInv, IInv
<1>2. IInv'
  BY <1>1, HeaderInv
<1>3. /\ ~ headed /\ headed' = TRUE
      /\ installed' = (response.pairs # <<>> /\ response.exempt = {})
      /\ UNCHANGED <<response, received, ended, line_in, matched, bufs, hung, mem, down, tail, sent>>
  BY DEF HeaderFilter, wire
<1>4. ~ installed /\ received = <<>> /\ ended = FALSE /\ line_in = <<>> /\ ~ hung
  BY <1>1, <1>3 DEF Early, Alone, Typed, RInv
<1>5. Delivered' = Delivered /\ Delivered = <<>>
  <2>1. Delivered' = Delivered
    BY <1>3 DEF Delivered, Flight
  <2>2. Delivered = received
    BY <1>4 DEF RInv
  <2> QED BY <1>4, <2>1, <2>2
<1>6. installed' <=> headed' /\ Contract!Rewritten(response')
  BY <1>3 DEF Contract!Rewritten
<1>7. FinePairs /\ response.pairs \in Seq(Pair)
  BY <1>1, AreFine DEF FinePairs
<1>8. ASSUME installed' PROVE Ahead(Kept, received, ended, Delivered)'
  <2>1. Rest(received') = <<>> /\ Contract!Lines(received', ended') = <<>>
    BY <1>3, <1>4, NoLines
  <2> DEFINE none == <<>>
  <2>2. none \in Seq(Seq(Byte)) /\ Len(none) = 0
    OBVIOUS
  <2> HIDE DEF none
  <2>3. PICK T : Tabled(T, none, response.pairs)
    BY <1>7, <2>2, ApplySteps
  <2>4. ~ Stuck(T, response.pairs) /\ FlattenSeq(T[Len(response.pairs)]) = <<>>
    BY <1>7, <2>3, NothingYet DEF none
  <2>5. Marked(matched, T, none, response.pairs)
    <3>1. \A i \in 1 .. Len(response.pairs) : ~ matched[i]
      <4>1. DOMAIN matched = 1 .. Len(response.pairs)
        BY <1>1, <1>7, SeqIs DEF Typed
      <4> QED BY <1>3, <4>1 DEF RInv
    <3>2. \A i : ~ HitIn(T[i - 1], response.pairs[i], Len(none))
      <4>1. 1 .. Len(none) = {}
        BY <2>2
      <4> QED BY <4>1 DEF HitIn
    <3> QED BY <3>1, <3>2 DEF Marked
  <2>6. IsPrefix(<<>>, <<>>) /\ <<>> \o <<>> = <<>>
    <3> DEFINE e == <<>>
    <3>1. e \in Seq(Byte) /\ Len(e) = 0 /\ e \o e = e
      OBVIOUS
    <3> HIDE DEF e
    <3>2. IsPrefix(e, e)
      BY <3>1, PrefixSelf
    <3> QED BY <3>1, <3>2 DEF e
  <2> DEFINE k == Kept'
             d == Delivered'
  <2>7. k.line = <<>> /\ k.matched = matched /\ k.out = <<>> /\ k.spins = FALSE /\ d = <<>>
    BY <1>3, <1>4, <1>5 DEF Kept
  <2> HIDE DEF k, d
  <2>8. /\ Tabled(T, Contract!Lines(received', ended'), response'.pairs)
        /\ IsPrefix(d, FlattenSeq(T[Len(response'.pairs)]))
        /\ k.spins <=> Stuck(T, response'.pairs)
        /\ ~ k.spins => /\ Marked(k.matched, T, Contract!Lines(received', ended'), response'.pairs)
                        /\ d \o k.out = FlattenSeq(T[Len(response'.pairs)])
    BY <1>3, <2>1, <2>3, <2>4, <2>5, <2>6, <2>7 DEF none
  <2>9. k.line = IF ended' THEN <<>> ELSE Rest(received')
    BY <2>1, <2>7
  <2> QED BY <2>8, <2>9, Zenon DEF Ahead, Synced, k, d
<1>9. /\ IsInjective(down') /\ (tail' = "sent" => ended' /\ down' = <<>>)
      /\ ~ hung' /\ received' = Delivered'
  BY <1>3, <1>4, <1>5 DEF RInv
<1>10. headed'
  BY <1>3
<1> QED BY <1>2, <1>6, <1>8, <1>9, <1>10, Zenon DEF RInv

\* After output has been handed down, the filter keeps what was gathered.
LEMMA OutputKeeps ==
    ASSUME Typed, NoReuseInFlight, installed, IsInjective(down), NEW c \in Gathered, ~ c.spins,
           NEW chain, NEW last \in BOOLEAN, Output(c, chain, last),
           Ahead(c, received', ended', Delivered), response' = response
    PROVE  Ahead(Kept, received, ended, Delivered)' /\ Sends(last)
<1>1. Delivered' = Delivered \o c.out /\ Sends(last)
  BY OutputDelivers
<1>2. line_in' = c.line /\ matched' = c.matched
  BY DEF Output
<1>3. Delivered \in Seq(Byte) /\ c.out \in Seq(Byte) /\ Delivered' \in Seq(Byte)
  <2>1. Delivered \in Seq(Byte) /\ c.out \in Seq(Byte)
    BY DeliveredType DEF Gathered
  <2>2. Delivered \o c.out \in Seq(Byte)
    BY <2>1
  <2> QED BY <1>1, <2>1, <2>2
<1>4. PICK T : /\ Tabled(T, Contract!Lines(received', ended'), response.pairs)
               /\ ~ Stuck(T, response.pairs)
               /\ Marked(c.matched, T, Contract!Lines(received', ended'), response.pairs)
               /\ Delivered \o c.out = FlattenSeq(T[Len(response.pairs)])
  BY DEF Ahead, Synced
<1> DEFINE k == Kept'
           d == Delivered'
<1>5. k.line = c.line /\ k.matched = c.matched /\ k.out = <<>> /\ k.spins = FALSE
  BY <1>2 DEF Kept
<1>6. d \in Seq(Byte) /\ d = FlattenSeq(T[Len(response.pairs)])
  BY <1>1, <1>3, <1>4
<1> HIDE DEF k, d
<1>7. d \o <<>> = d /\ IsPrefix(d, d)
  <2>1. d \o <<>> = d
    BY <1>6
  <2>2. IsPrefix(d, d)
    BY <1>6, PrefixSelf
  <2> QED BY <2>1, <2>2
<1>8. /\ Tabled(T, Contract!Lines(received', ended'), response'.pairs)
      /\ IsPrefix(d, FlattenSeq(T[Len(response'.pairs)]))
      /\ k.spins <=> Stuck(T, response'.pairs)
      /\ ~ k.spins => /\ Marked(k.matched, T, Contract!Lines(received', ended'), response'.pairs)
                      /\ d \o k.out = FlattenSeq(T[Len(response'.pairs)])
  BY <1>4, <1>5, <1>6, <1>7
<1>9. k.line = IF ended' THEN <<>> ELSE Rest(received')
  BY <1>5 DEF Ahead
<1> QED BY <1>1, <1>8, <1>9, Zenon DEF Ahead, Synced, k, d

\* A chain without buffers leaves what is gathered as it is.
LEMMA GatherNone ==
    ASSUME Typed, NEW last \in BOOLEAN
    PROVE  Gather(<<>>, last) = Kept /\ Kept \in Gathered /\ Kept.spins = FALSE
<1> DEFINE none == <<>>
<1>1. response.pairs \in Seq(Pair)
  BY AreFine DEF FinePairs
<1>2. line_in \in Seq(Byte) /\ matched \in [DOMAIN response.pairs -> BOOLEAN]
  BY DEF Typed
<1>3. none \in Seq(Seq(Byte)) /\ Len(none) = 0
  OBVIOUS
<1> HIDE DEF none
<1>4. PICK r \in [0 .. Len(none) -> Gathered] : r[0] = Kept /\ Gather(none, last) = r[Len(none)]
  BY ZenonT(30), <1>1, <1>2, <1>3, GatherSteps DEF Kept
<1>5. r[0] \in Gathered
  BY <1>3
<1> QED BY <1>3, <1>4, <1>5 DEF none, Kept

\* A chain from upstream keeps the invariant.
LEMMA ReceiveRefines ==
    ASSUME RInv, NEW chain \in Chains, NEW last \in BOOLEAN, Receive(chain, last)
    PROVE  RInv' /\ IsPrefix(sent, sent')
<1> DEFINE text == FlattenSeq(chain)
           c == Gather(chain, last)
<1>1. IInv /\ Typed /\ Early /\ Alone /\ NoReuseInFlight
  BY DEF RInv, IInv
<1>2. IInv'
  BY <1>1, ReceiveInv
<1>3. chain \in Seq(Seq(Byte)) /\ chain # <<>>
  BY ChainsAssumption
<1>4. text \in Seq(Byte)
  BY <1>3, FlattenType
<1>5. /\ headed /\ ~ ended /\ ~ hung /\ received' = received \o text /\ ended' = last
      /\ response' = response /\ headed' = headed
      /\ IF installed THEN Substitute(chain, last) ELSE Pass(text, last)
  BY DEF Receive
<1>6. tail = "none" /\ ended = FALSE
  BY <1>1, <1>5 DEF Early, Typed
<1>7. IsInjective(down) /\ (installed <=> Contract!Rewritten(response))
  BY <1>5 DEF RInv
<1>8. ASSUME Sends(last), UNCHANGED <<installed, hung>>,
             installed' => Ahead(Kept, received, ended, Delivered)',
             ~ installed' => received' = Delivered'
      PROVE  RInv' /\ IsPrefix(sent, sent')
  <2>1. /\ IsInjective(down') /\ IsPrefix(sent, sent')
        /\ tail' = "sent" => last /\ down' = <<>>
    BY <1>6, <1>8 DEF Sends
  <2>2. /\ installed' <=> headed' /\ Contract!Rewritten(response')
        /\ headed' /\ ~ hung' /\ (tail' = "sent" => ended')
    BY <1>5, <1>7, <1>8, <2>1
  <2> QED BY <1>2, <1>8, <2>1, <2>2, Zenon DEF RInv
<1>9. CASE ~ installed
  <2>1. Pass(text, last)
    BY <1>5, <1>9
  <2>2. Delivered' = Delivered \o text /\ Sends(last)
    BY <1>1, <1>4, <1>7, <1>9, <2>1, PassDelivers
  <2>3. UNCHANGED <<installed, hung>>
    BY <2>1 DEF Pass, filter
  <2>4. received' = Delivered'
    BY <1>5, <1>9, <2>2 DEF RInv
  <2> QED BY <1>8, <1>9, <2>2, <2>3, <2>4
<1>10. CASE installed
  <2>1. Substitute(chain, last)
    BY <1>5, <1>10
  <2>2. FinePairs /\ response.pairs \in Seq(Pair)
    BY <1>1, AreFine DEF FinePairs
  <2>3. /\ line_in \in Seq(Byte) /\ matched \in [DOMAIN response.pairs -> BOOLEAN]
        /\ received \in Seq(Byte) /\ Delivered \in Seq(Byte)
    BY <1>1, DeliveredType DEF Typed
  <2>4. c \in Gathered
    BY <1>3, <2>2, <2>3, GatherType
  <2>5. Ahead(c, received', ended', Delivered)
    <3>1. Ahead(Kept, received, FALSE, Delivered)
      BY <1>5, <1>6, <1>10 DEF RInv
    <3>2. Ahead([line |-> line_in, matched |-> matched, out |-> <<>>, spins |-> FALSE],
                received, FALSE, Delivered)
      BY <3>1 DEF Kept
    <3>3. Ahead(Gather(chain, last), received \o FlattenSeq(chain), last, Delivered)
      BY <1>3, <2>2, <2>3, <3>2, ChainAhead
    <3> QED BY <1>5, <3>3
  <2>6. \/ c.spins /\ hung' = TRUE /\ UNCHANGED <<installed, wire>>
        \/ ~ c.spins /\ Output(c, chain, last)
    BY <2>1 DEF Substitute
  <2> HIDE DEF c
  <2>7. CASE c.spins /\ hung' = TRUE /\ UNCHANGED <<installed, wire>>
    <3>1. PICK T : /\ Tabled(T, Contract!Lines(received', ended'), response.pairs)
                   /\ IsPrefix(Delivered, FlattenSeq(T[Len(response.pairs)]))
                   /\ Stuck(T, response.pairs)
      BY <2>5, <2>7 DEF Ahead, Synced
    <3>2. Delivered' = Delivered
      BY <2>7 DEF wire, Delivered, Flight
    <3> DEFINE d == Delivered'
    <3>3. IsPrefix(d, FlattenSeq(T[Len(response.pairs)]))
      BY <3>1, <3>2
    <3> HIDE DEF d
    <3>4. Stopped'
      BY <1>5, <3>1, <3>3 DEF Stopped, d
    <3>5. tail' = "none" /\ down' = down /\ sent' = sent /\ installed'
      BY <1>6, <1>10, <2>7 DEF wire
    <3>6. IsPrefix(sent, sent')
      BY <1>1, <3>5, PrefixSelf DEF Typed
    <3>7. headed' /\ Contract!Rewritten(response') /\ IsInjective(down')
      BY <1>5, <1>7, <1>10, <3>5
    <3>8. hung' /\ tail' # "sent"
      BY <2>7, <3>5
    <3> QED BY <1>2, <3>4, <3>5, <3>6, <3>7, <3>8, Zenon DEF RInv
  <2>8. CASE ~ c.spins /\ Output(c, chain, last)
    <3>1. Ahead(Kept, received, ended, Delivered)' /\ Sends(last)
      BY <1>1, <1>5, <1>7, <1>10, <2>4, <2>5, <2>8, OutputKeeps
    <3>2. UNCHANGED <<installed, hung>>
      BY <2>8 DEF Output
    <3>3. installed'
      BY <1>10, <3>2
    <3> QED BY <1>8, <3>1, <3>2, <3>3
  <2> QED BY <2>6, <2>7, <2>8
<1> QED BY <1>9, <1>10

\* So does a call without a chain.
LEMMA FlushRefines == ASSUME RInv, Flush PROVE RInv' /\ IsPrefix(sent, sent')
<1> DEFINE none == <<>>
<1>1. IInv /\ Typed /\ Early /\ Alone /\ NoReuseInFlight
  BY DEF RInv, IInv
<1>2. IInv'
  BY <1>1, FlushInv
<1>3. /\ ~ hung /\ (down # <<>> \/ tail = "queued")
      /\ IF installed /\ busy # <<>> THEN Substitute(none, ended) ELSE Pass(none, FALSE)
      /\ UNCHANGED <<response, headed, received, ended>>
  BY DEF Flush
<1>4. tail # "sent" /\ IsInjective(down) /\ ended \in BOOLEAN /\ received \in Seq(Byte)
  BY <1>1, <1>3 DEF RInv, Typed
<1>5. none \in Seq(Byte) /\ none = <<>>
  OBVIOUS
<1> HIDE DEF none
<1>6. ASSUME NEW last \in BOOLEAN, last => ended, Sends(last), UNCHANGED <<installed, hung>>,
             \A i \in DOMAIN matched : ~ headed /\ ~ matched[i] => ~ matched'[i],
             DOMAIN matched' = DOMAIN matched,
             installed' => Ahead(Kept, received, ended, Delivered)',
             ~ installed' => received' = Delivered'
      PROVE  RInv' /\ IsPrefix(sent, sent')
  <2>1. /\ IsInjective(down') /\ IsPrefix(sent, sent')
        /\ tail' = "sent" => down' = <<>> /\ (tail # "none" \/ last)
    BY <1>4, <1>6 DEF Sends
  <2>2. tail' = "sent" => ended' /\ down' = <<>>
    BY <1>1, <1>3, <1>6, <2>1 DEF Early
  <2>3. /\ installed' <=> headed' /\ Contract!Rewritten(response')
        /\ ~ hung'
    BY <1>3, <1>6 DEF RInv
  <2>4. ~ headed' => \A i \in DOMAIN matched' : ~ matched'[i]
    BY <1>3, <1>6 DEF RInv
  <2> QED BY <1>2, <1>6, <2>1, <2>2, <2>3, <2>4, Zenon DEF RInv
<1>7. CASE installed /\ busy # <<>>
  <2>1. Substitute(none, ended)
    BY <1>3, <1>7
  <2>2. Gather(none, ended) = Kept /\ Kept \in Gathered /\ Kept.spins = FALSE
    BY <1>1, <1>4, <1>5, GatherNone
  <2>3. Output(Kept, none, ended)
    BY <2>1, <2>2 DEF Substitute
  <2>4. Ahead(Kept, received, ended, Delivered)
    BY <1>3, <1>7 DEF RInv
  <2>5. received' = received /\ ended' = ended /\ response' = response
    BY <1>3
  <2>6. UNCHANGED <<installed, hung>> /\ matched' = matched
    <3>1. matched' = Kept.matched /\ UNCHANGED <<installed, hung>>
      BY <2>3 DEF Output
    <3> QED BY <3>1 DEF Kept
  <2> DEFINE k == Kept
             l == ended
  <2>7. /\ k \in Gathered /\ ~ k.spins /\ l \in BOOLEAN /\ Output(k, none, l)
        /\ Ahead(k, received', ended', Delivered)
    BY <1>4, <2>2, <2>3, <2>4, <2>5
  <2> HIDE DEF k, l
  <2>8. Ahead(Kept, received, ended, Delivered)' /\ Sends(l)
    BY <1>1, <1>4, <1>7, <2>5, <2>7, OutputKeeps
  <2>9. installed'
    BY <1>7, <2>6
  <2>10. l => ended
    BY DEF l
  <2> QED BY <1>6, <2>6, <2>7, <2>8, <2>9, <2>10
<1>8. CASE ~ (installed /\ busy # <<>>)
  <2>1. Pass(none, FALSE)
    BY <1>3, <1>8
  <2>2. Delivered' = Delivered \o none /\ Sends(FALSE)
    BY <1>1, <1>4, <1>5, <2>1, PassDelivers
  <2>3. UNCHANGED <<installed, hung, line_in, matched>>
    BY <2>1 DEF Pass, filter
  <2>4. Delivered' = Delivered
    <3>1. Delivered \in Seq(Byte)
      BY <1>1, DeliveredType
    <3> QED BY <1>5, <2>2, <3>1
  <2>5. ~ installed' => received' = Delivered'
    BY <1>3, <2>3, <2>4 DEF RInv
  <2>6. installed' => Ahead(Kept, received, ended, Delivered)'
    <3>1. installed => Ahead(Kept, received, ended, Delivered)
      BY <1>3 DEF RInv
    <3>2. Kept' = Kept /\ received' = received /\ ended' = ended /\ response' = response
      BY <1>3, <2>3 DEF Kept
    <3> QED BY <2>3, <2>4, <3>1, <3>2, Zenon DEF Ahead, Synced
  <2> QED BY <1>6, <2>2, <2>3, <2>5, <2>6
<1> QED BY <1>7, <1>8

\* Every step keeps the invariant, and only adds to what the client has got.
LEMMA StepRefines == RInv /\ [Next]_vars => RInv' /\ IsPrefix(sent, sent')
<1> SUFFICES ASSUME RInv, [Next]_vars PROVE RInv' /\ IsPrefix(sent, sent')
  OBVIOUS
<1>1. sent \in Seq(Byte) /\ IInv
  BY DEF RInv, IInv, Typed
<1>2. CASE HeaderFilter
  <2>1. sent' = sent
    BY <1>2 DEF HeaderFilter, wire
  <2>2. IsPrefix(sent, sent')
    BY <1>1, <2>1, PrefixSelf
  <2> QED BY <1>2, <2>2, HeaderRefines
<1>3. CASE \E chain \in Chains, last \in BOOLEAN : Receive(chain, last)
  BY <1>3, ReceiveRefines
<1>4. CASE Flush
  BY <1>4, FlushRefines
<1>5. CASE UNCHANGED vars
  <2>1. UNCHANGED <<response, headed, announced, received, ended, installed, line_in, matched,
                    bufs, free, busy, buffered, hung, mem, down, tail, sent>>
    BY <1>5 DEF vars, filter, wire
  <2>2. IInv'
    BY <1>1, <1>5, StepInv
  <2>3. Delivered' = Delivered /\ Kept' = Kept
    BY <2>1 DEF Delivered, Flight, Kept
  <2>4. Stopped => Stopped'
    BY <2>1, <2>3, Zenon DEF Stopped
  <2>5. Ahead(Kept, received, ended, Delivered) => Ahead(Kept, received, ended, Delivered)'
    BY <2>1, <2>3, Zenon DEF Ahead, Synced
  <2>6. RInv'
    <3>1. installed' <=> headed' /\ Contract!Rewritten(response')
      BY <2>1 DEF RInv
    <3>2. tail' = "sent" => ended' /\ down' = <<>>
      BY <2>1 DEF RInv
    <3>3. ~ headed' => \A i \in DOMAIN matched' : ~ matched'[i]
      BY <2>1 DEF RInv
    <3>4. ~ installed' => ~ hung' /\ received' = Delivered'
      BY <2>1, <2>3 DEF RInv
    <3>5. hung' => tail' = "none" /\ Stopped'
      BY <2>1, <2>4 DEF RInv
    <3>6. installed' /\ ~ hung' => Ahead(Kept, received, ended, Delivered)'
      BY <2>1, <2>5 DEF RInv
    <3>7. IsInjective(down')
      BY <2>1 DEF RInv
    <3> QED BY <2>2, <3>1, <3>2, <3>3, <3>4, <3>5, <3>6, <3>7, Zenon DEF RInv
  <2>7. IsPrefix(sent, sent')
    BY <1>1, <2>1, PrefixSelf
  <2> QED BY <2>6, <2>7
<1> QED BY <1>2, <1>3, <1>4, <1>5 DEF Next

\* Every step is one that the contract allows.
LEMMA StepAllowed == RInv /\ RInv' /\ Owing' /\ [Next]_vars => [Contract!Next]_Contract!vars
<1> SUFFICES ASSUME RInv, RInv', Owing', [Next]_vars PROVE [Contract!Next]_Contract!vars
  OBVIOUS
<1>1. \A s, t : Contract!IsPrefix(s, t) <=> IsPrefix(s, t)
  BY SameOperators
<1>2. IsPrefix(sent, sent')
  BY StepRefines
<1>3. /\ IsPrefix(sent', Contract!Owed(response', received', ended'))
      /\ tail' = "sent" => ended' /\ sent' = Contract!Owed(response', received', ended')
  BY DEF Owing
<1>4. ASSUME UNCHANGED response, tail = "sent" => tail' = "sent" PROVE Contract!Deliver
  <2>1. /\ IsPrefix(sent', Contract!Owed(response, received', ended'))
        /\ tail' = "sent" => ended' /\ sent' = Contract!Owed(response, received', ended')
    BY <1>3, <1>4
  <2> QED BY <1>1, <1>2, <1>4, <2>1, Zenon DEF Contract!Deliver
<1>5. Typed /\ Early
  BY DEF RInv, IInv
<1>6. CASE HeaderFilter
  <2>1. UNCHANGED <<response, received, ended, tail>>
    BY <1>6 DEF HeaderFilter, wire
  <2>2. Contract!Deliver
    BY <1>4, <2>1
  <2> QED BY <2>1, <2>2 DEF Contract!Next
<1>7. ASSUME NEW chain \in Chains, NEW last \in BOOLEAN, Receive(chain, last) PROVE Contract!Next
  <2> DEFINE text == FlattenSeq(chain)
  <2>1. ~ ended /\ received' = received \o text /\ ended' = last /\ response' = response
    BY <1>7 DEF Receive
  <2>2. text \in Seq(Byte)
    <3>1. chain \in Seq(Seq(Byte))
      BY ChainsAssumption
    <3> QED BY <3>1, FlattenType
  <2> HIDE DEF text
  <2>3. received \in Seq(Byte) /\ tail = "none"
    BY <1>5, <2>1 DEF Typed, Early
  <2>4. IsPrefix(received, received')
    BY <2>1, <2>2, <2>3, PrefixJoin
  <2>5. Contract!Arrive
    BY <1>1, <2>1, <2>4 DEF Contract!Arrive
  <2>6. Contract!Deliver
    BY <1>4, <2>1, <2>3
  <2> QED BY <2>1, <2>5, <2>6 DEF Contract!Next
<1>8. CASE Flush
  <2>1. UNCHANGED <<response, received, ended>> /\ (down # <<>> \/ tail = "queued")
    BY <1>8 DEF Flush
  <2>2. tail # "sent"
    BY <2>1 DEF RInv
  <2>3. Contract!Deliver
    BY <1>4, <2>1, <2>2
  <2> QED BY <2>1, <2>3 DEF Contract!Next
<1>9. CASE UNCHANGED vars
  BY <1>9 DEF vars, wire, Contract!vars
<1> QED BY <1>6, <1>7, <1>8, <1>9 DEF Next

-------------------------------------------------------------------------------
(* The theorems                                                             *)

\* In every state of the filter the invariant holds.
THEOREM RefinesAlways == Spec => []RInv
<1>1. Init => RInv
  BY InitRefines
<1>2. RInv /\ [Next]_vars => RInv'
  BY StepRefines
<1> QED BY <1>1, <1>2, PTL DEF Spec

\* The worker hangs in the loop over the matches in a line exactly if the body
\* has a line in which an expression that is to replace all it finds finds the
\* empty text, whatever the pairs are and in whatever pieces the line has come.
THEOREM HangCorrect == Spec => []HangExplained
<1>1. RInv => HangExplained
  BY SentOwed
<1> QED BY <1>1, RefinesAlways, PTL

\* Whatever the pieces in which the body comes and goes, the client has got a
\* beginning of the body with the pairs applied line by line, and all of that
\* when it is told that the body has ended.
THEOREM ContractCorrect == Spec => Contract!Init /\ [][Contract!Next]_Contract!vars
<1>1. Init => Contract!Init
  BY DEF Init, Contract!Init
<1>2. RInv => Owing
  BY SentOwed
<1>3. RInv /\ RInv' /\ Owing' /\ [Next]_vars => [Contract!Next]_Contract!vars
  BY StepAllowed
<1> QED BY <1>1, <1>2, <1>3, RefinesAlways, PTL DEF Spec

===============================================================================
