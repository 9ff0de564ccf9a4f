---------------------------- MODULE SequenceLemmas ----------------------------
(***************************************************************************)
(* What the proofs about the filters and the rewriting of fields need to   *)
(* know of numbers and sequences: least and greatest elements, induction,  *)
(* what a fold over a sequence computes step by step, what texts that are  *)
(* joined begin with, and texts that are spelled anew byte by byte.        *)
(*                                                                         *)
(* Induction is stated for a set of numbers, and a fold for a step that is *)
(* a function, since the provers cannot instantiate a lemma whose          *)
(* parameter is an operator.                                               *)
(***************************************************************************)
EXTENDS SequencesExt, TLAPS, WellFoundedInduction, SequenceTheorems, FiniteSetTheorems

\* A nonempty set of natural numbers has a least element.
LEMMA LeastIn ==
    ASSUME NEW S \in SUBSET Nat, S # {}
    PROVE  \E x \in S : \A y \in S : x =< y
<1> DEFINE Less == {p \in Nat \X Nat : p[1] < p[2]}
<1>1. OpToRel(<, Nat) = Less
  BY DEF OpToRel
<1>2. IsWellFoundedOn(Less, Nat)
  BY <1>1, NatLessThanWellFounded, Zenon
<1>3. PICK x \in S : \A y \in S : ~ (<<y, x>> \in Less)
  <2> HIDE DEF Less
  <2> QED BY <1>2, WFMin
<1>4. ASSUME NEW y \in S PROVE x =< y
  <2>1. x \in Nat /\ y \in Nat
    OBVIOUS
  <2>2. y < x => <<y, x>> \in Less
    BY <2>1
  <2>3. ~ (y < x)
    BY <1>3, <2>2
  <2> QED BY <2>1, <2>3
<1> QED BY <1>4

\* Min and Max are what their names say.
LEMMA MinIn ==
    ASSUME NEW S \in SUBSET Nat, S # {}
    PROVE  Min(S) \in S /\ \A y \in S : Min(S) =< y
BY LeastIn DEF Min

\* The greatest number of a bounded set is one of it.
LEMMA MaxIn ==
    ASSUME NEW S \in SUBSET Nat, S # {}, NEW n \in Nat, \A x \in S : x =< n
    PROVE  Max(S) \in S /\ \A y \in S : y =< Max(S)
<1> DEFINE Bounds == {u \in Nat : \A x \in S : x =< u}
<1>1. PICK u \in Bounds : \A v \in Bounds : u =< v
  <2>1. n \in Bounds
    OBVIOUS
  <2> HIDE DEF Bounds
  <2>2. Bounds \in SUBSET Nat
    BY DEF Bounds
  <2> QED BY <2>1, <2>2, LeastIn
<1>2. u \in S
  <2> SUFFICES ASSUME u \notin S PROVE FALSE
    OBVIOUS
  <2>1. \A x \in S : x \in Nat /\ x =< u /\ x # u
    OBVIOUS
  <2>2. u # 0
    <3>1. PICK x \in S : TRUE
      OBVIOUS
    <3>2. x \in Nat /\ x =< u /\ x # u /\ u \in Nat
      BY <2>1
    <3> HIDE <2>1
    <3> QED BY <3>2
  <2>3. u - 1 \in Bounds
    BY <2>1, <2>2
  <2> QED BY <1>1, <2>3
<1> QED BY <1>1, <1>2 DEF Max

\* The greatest of a set of indices is one.
LEMMA MaxIndex ==
    ASSUME NEW n \in Nat, NEW s \in SUBSET (1 .. n), s # {}
    PROVE  Max(s) \in 1 .. n
<1>1. s \in SUBSET Nat /\ \A x \in s : x =< n
  OBVIOUS
<1>2. Max(s) \in s
  BY <1>1, MaxIn
<1> QED BY <1>2

\* A set of numbers that has 0 and the successor of each of its elements has
\* them all.
LEMMA Induction ==
    ASSUME NEW S, 0 \in S, \A n \in Nat : n \in S => n + 1 \in S
    PROVE  \A n \in Nat : n \in S
<1> DEFINE Out == {n \in Nat : n \notin S}
<1> SUFFICES ASSUME Out # {} PROVE FALSE
  OBVIOUS
<1>1. PICK x \in Out : \A y \in Out : x =< y
  <2>1. Out \in SUBSET Nat
    OBVIOUS
  <2> HIDE DEF Out
  <2> QED BY <2>1, LeastIn
<1>2. x # 0 /\ x - 1 \in Nat
  OBVIOUS
<1>3. x - 1 \in S
  BY <1>1, <1>2
<1> QED BY <1>2, <1>3

\* Sequences as functions.
LEMMA SeqIs ==
    ASSUME NEW S, NEW q \in Seq(S)
    PROVE  Len(q) \in Nat /\ DOMAIN q = 1 .. Len(q) /\ \A i \in 1 .. Len(q) : q[i] \in S
OBVIOUS

\* A function on the numbers up to n is a sequence of length n.
LEMMA IsSeq ==
    ASSUME NEW S, NEW n \in Nat, NEW q \in [1 .. n -> S]
    PROVE  q \in Seq(S) /\ Len(q) = n /\ DOMAIN q = 1 .. n
OBVIOUS

\* The elements of a sequence.
LEMMA ElementsIn ==
    ASSUME NEW S, NEW q \in Seq(S)
    PROVE  ToSet(q) \subseteq S
<1>1. DOMAIN q = 1 .. Len(q) /\ \A i \in 1 .. Len(q) : q[i] \in S
  BY SeqIs
<1> SUFFICES ASSUME NEW x \in ToSet(q) PROVE x \in S
  OBVIOUS
<1>2. PICK i \in DOMAIN q : x = q[i]
  BY DEF ToSet
<1> QED BY <1>1, <1>2

\* The elements of a sequence and those of a longer one.
LEMMA AppendSet ==
    ASSUME NEW S, NEW s \in Seq(S), NEW e \in S
    PROVE  ToSet(Append(s, e)) = ToSet(s) \cup {e}
<1>1. Len(s) \in Nat /\ DOMAIN s = 1 .. Len(s) /\ DOMAIN Append(s, e) = 1 .. Len(s) + 1
  OBVIOUS
<1>2. \A i \in 1 .. Len(s) : Append(s, e)[i] = s[i]
  OBVIOUS
<1>3. Append(s, e)[Len(s) + 1] = e
  OBVIOUS
<1>4. ASSUME NEW x \in ToSet(Append(s, e)) PROVE x \in ToSet(s) \cup {e}
  <2>1. PICK i \in 1 .. Len(s) + 1 : x = Append(s, e)[i]
    BY <1>1 DEF ToSet
  <2>2. CASE i = Len(s) + 1
    BY <1>3, <2>1, <2>2
  <2>3. CASE i \in 1 .. Len(s)
    BY <1>1, <1>2, <2>1, <2>3 DEF ToSet
  <2> QED BY <1>1, <2>2, <2>3
<1>5. ASSUME NEW x \in ToSet(s) \cup {e} PROVE x \in ToSet(Append(s, e))
  <2>1. CASE x = e
    <3>1. Len(s) + 1 \in DOMAIN Append(s, e)
      BY <1>1
    <3> QED BY <1>3, <2>1, <3>1 DEF ToSet
  <2>2. CASE x \in ToSet(s)
    <3>1. PICK i \in 1 .. Len(s) : x = s[i]
      BY <1>1, <2>2 DEF ToSet
    <3>2. i \in DOMAIN Append(s, e) /\ x = Append(s, e)[i]
      BY <1>1, <1>2, <3>1
    <3> QED BY <3>2 DEF ToSet
  <2> QED BY <2>1, <2>2
<1> QED BY <1>4, <1>5

-------------------------------------------------------------------------------
(* Folds.  FoldLeft is defined by a recursive function on the sets of       *)
(* indices, which takes the greatest of a set apart.                       *)

\* One equation of that function.
FoldAt(it, base, step, s) ==
    IF s = {} THEN base ELSE step[<<it[s \ {Max(s)}], Max(s)>>]

\* The steps of a fold over n indices with values of type T, the functions that
\* meet the equation, and the sequence of the values they go through.
Steps(T, n) == [T \X (1 .. n) -> T]

Unrolled(it, T, base, n, step) ==
    /\ it \in [SUBSET (1 .. n) -> T]
    /\ \A s \in SUBSET (1 .. n) : it[s] = FoldAt(it, base, step, s)

Unrolls(it, T, base, n, step) ==
    /\ it[{}] = base
    /\ \A s \in SUBSET (1 .. n) :
         s # {} /\ it[s \ {Max(s)}] \in T => it[s] = step[<<it[s \ {Max(s)}], Max(s)>>]

Accumulates(r, T, base, n, step) ==
    /\ r \in [0 .. n -> T]
    /\ r[0] = base
    /\ \A m \in 1 .. n : r[m] = step[<<r[m - 1], m>>]

Sums(it, T, base, n, step) == \E r : Accumulates(r, T, base, n, step) /\ it[1 .. n] = r[n]

\* There is such a function, whatever the step.
LEMMA FoldExists ==
    ASSUME NEW T, NEW base, base \in T, NEW n, n \in Nat, NEW step, step \in Steps(T, n)
    PROVE  \E it : Unrolled(it, T, base, n, step)
<1> USE DEF Steps
<1> DEFINE Fits(m, it) == /\ it \in [SUBSET (1 .. m) -> T]
                          /\ \A s \in SUBSET (1 .. m) : it[s] = FoldAt(it, base, step, s)
           Good == {m \in Nat : m =< n => \E it : Fits(m, it)}
<1>0. ASSUME NEW m \in Nat PROVE m \in Good <=> (m =< n => \E it : Fits(m, it))
  <2> HIDE DEF Fits
  <2> QED OBVIOUS
<1>1. 0 \in Good
  <2> DEFINE it == [s \in {{}} |-> base]
  <2>1. Fits(0, it)
    BY DEF FoldAt
  <2> HIDE DEF Fits, Good
  <2> QED BY <1>0, <2>1
<1>2. ASSUME NEW m \in Nat, m \in Good PROVE m + 1 \in Good
  <2> HIDE DEF Good
  <2> SUFFICES ASSUME m + 1 =< n PROVE \E it : Fits(m + 1, it)
    <3> HIDE DEF Fits
    <3> QED BY <1>0
  <2>1. PICK it : Fits(m, it)
    <3> HIDE DEF Fits
    <3> QED BY <1>0, <1>2
  <2> DEFINE new == [s \in SUBSET (1 .. m + 1) |->
                       IF m + 1 \in s THEN step[<<it[s \ {m + 1}], m + 1>>] ELSE it[s]]
  <2>2. ASSUME NEW s \in SUBSET (1 .. m + 1), m + 1 \in s
        PROVE  new[s] \in T /\ new[s] = FoldAt(new, base, step, s)
    <3>1. Max(s) = m + 1
      <4>1. s \in SUBSET Nat /\ \A x \in s : x =< m + 1
        OBVIOUS
      <4>2. Max(s) \in s /\ \A y \in s : y =< Max(s)
        BY <2>2, <4>1, MaxIn
      <4>3. Max(s) \in Nat /\ Max(s) =< m + 1 /\ m + 1 =< Max(s)
        BY <2>2, <4>1, <4>2
      <4> QED BY <4>3
    <3>2. s \ {m + 1} \in SUBSET (1 .. m)
      OBVIOUS
    <3>3. new[s \ {m + 1}] = it[s \ {m + 1}] /\ it[s \ {m + 1}] \in T
      BY <2>1, <3>2
    <3>4. m + 1 \in 1 .. n
      OBVIOUS
    <3>5. step[<<it[s \ {m + 1}], m + 1>>] \in T
      BY <3>3, <3>4
    <3>6. new[s] = step[<<it[s \ {m + 1}], m + 1>>]
      BY <2>2
    <3> HIDE DEF new
    <3> QED BY <2>2, <3>1, <3>3, <3>5, <3>6 DEF FoldAt
  <2>3. ASSUME NEW s \in SUBSET (1 .. m + 1), m + 1 \notin s
        PROVE  new[s] \in T /\ new[s] = FoldAt(new, base, step, s)
    <3>1. s \in SUBSET (1 .. m)
      BY <2>3
    <3>2. new[s] = it[s] /\ it[s] \in T /\ it[s] = FoldAt(it, base, step, s)
      BY <2>1, <2>3, <3>1
    <3>3. s \ {Max(s)} \in SUBSET (1 .. m)
      BY <3>1
    <3>4. new[s \ {Max(s)}] = it[s \ {Max(s)}]
      BY <3>3
    <3> HIDE DEF new
    <3> QED BY <3>2, <3>4 DEF FoldAt
  <2>4. new \in [SUBSET (1 .. m + 1) -> T]
    <3>1. \A s \in SUBSET (1 .. m + 1) : new[s] \in T
      BY <2>2, <2>3
    <3> QED BY <3>1
  <2>5. Fits(m + 1, new)
    <3> HIDE DEF new
    <3> QED BY <2>2, <2>3, <2>4
  <2> HIDE DEF new, Fits
  <2> QED BY <2>5
<1> HIDE DEF Good
<1>3. n \in Good
  BY <1>1, <1>2, Induction
<1>4. PICK it : Fits(n, it)
  <2> HIDE DEF Fits
  <2> QED BY <1>0, <1>3
<1> QED BY <1>4 DEF Unrolled

\* The sets such a function is unrolled over: the first m indices.
LEMMA Initial ==
    ASSUME NEW m \in Nat \ {0}
    PROVE  1 .. m # {} /\ Max(1 .. m) = m /\ (1 .. m) \ {Max(1 .. m)} = 1 .. m - 1
<1>1. 1 .. m \in SUBSET Nat /\ m \in 1 .. m /\ \A x \in 1 .. m : x =< m
  OBVIOUS
<1>2. Max(1 .. m) \in 1 .. m /\ \A y \in 1 .. m : y =< Max(1 .. m)
  BY <1>1, MaxIn
<1>3. Max(1 .. m) = m
  <2>1. Max(1 .. m) \in Nat /\ Max(1 .. m) =< m /\ m =< Max(1 .. m)
    BY <1>1, <1>2
  <2> QED BY <2>1
<1> QED BY <1>1, <1>3

\* What a fold computes, one index after the other: it is the function of sets
\* that FoldLeft picks, of which the step is known where its argument has the
\* type T.
LEMMA FoldSteps ==
    ASSUME NEW T, NEW base, base \in T, NEW n, n \in Nat, NEW step, step \in Steps(T, n),
           NEW it, Unrolls(it, T, base, n, step)
    PROVE  Sums(it, T, base, n, step)
<1> USE DEF Steps, Unrolls
<1> DEFINE r == [m \in 0 .. n |-> it[1 .. m]]
<1>1. r[0] = base
  <2>1. 1 .. 0 = {}
    OBVIOUS
  <2>2. r[0] = it[1 .. 0]
    OBVIOUS
  <2> QED BY <2>1, <2>2
<1>2. ASSUME NEW m \in 1 .. n, r[m - 1] \in T
      PROVE  r[m] = step[<<r[m - 1], m>>] /\ r[m] \in T
  <2>1. m \in Nat \ {0} /\ 1 .. m \in SUBSET (1 .. n)
    OBVIOUS
  <2>2. 1 .. m # {} /\ Max(1 .. m) = m /\ (1 .. m) \ {Max(1 .. m)} = 1 .. m - 1
    BY <2>1, Initial
  <2>3. r[m] = it[1 .. m] /\ r[m - 1] = it[1 .. m - 1]
    OBVIOUS
  <2> HIDE DEF r
  <2>4. it[(1 .. m) \ {Max(1 .. m)}] \in T
    BY <1>2, <2>2, <2>3
  <2>5. it[1 .. m] = step[<<it[(1 .. m) \ {Max(1 .. m)}], Max(1 .. m)>>]
    BY <2>1, <2>2, <2>4
  <2>6. r[m] = step[<<r[m - 1], m>>]
    BY <2>2, <2>3, <2>5
  <2> QED BY <1>2, <2>6
<1>3. ASSUME NEW m \in 0 .. n PROVE r[m] \in T
  <2> DEFINE All == {i \in Nat : i =< n => r[i] \in T}
  <2>1. 0 \in All
    BY <1>1
  <2>2. ASSUME NEW i \in Nat, i \in All PROVE i + 1 \in All
    <3> SUFFICES ASSUME i + 1 =< n PROVE r[i + 1] \in T
      OBVIOUS
    <3>1. i + 1 \in 1 .. n /\ (i + 1) - 1 = i /\ r[i] \in T
      BY <2>2
    <3> HIDE DEF r
    <3>2. r[(i + 1) - 1] \in T
      BY <3>1
    <3> QED BY <1>2, <3>1, <3>2
  <2>3. m \in Nat /\ m =< n
    OBVIOUS
  <2> HIDE DEF All
  <2>4. m \in All
    BY <2>1, <2>2, <2>3, Induction
  <2> QED BY <2>3, <2>4 DEF All
<1>4. r \in [0 .. n -> T] /\ it[1 .. n] = r[n]
  BY <1>3
<1>5. \A m \in 1 .. n : r[m] = step[<<r[m - 1], m>>]
  <2> SUFFICES ASSUME NEW m \in 1 .. n PROVE r[m] = step[<<r[m - 1], m>>]
    OBVIOUS
  <2>1. m - 1 \in 0 .. n
    OBVIOUS
  <2> HIDE DEF r
  <2> QED BY <1>2, <1>3, <2>1
<1> HIDE DEF r
<1> QED BY <1>1, <1>4, <1>5 DEF Accumulates, Sums

\* There is a sequence of accumulated values, whatever the step.
LEMMA Accumulators ==
    ASSUME NEW T, NEW base, base \in T, NEW n, n \in Nat, NEW step, step \in Steps(T, n)
    PROVE  \E r : Accumulates(r, T, base, n, step)
<1>1. PICK it : Unrolled(it, T, base, n, step)
  BY FoldExists
<1>2. it[{}] = base
  BY <1>1 DEF Unrolled, FoldAt
<1>3. ASSUME NEW s \in SUBSET (1 .. n), s # {}
      PROVE  it[s] = step[<<it[s \ {Max(s)}], Max(s)>>]
  BY <1>1, <1>3 DEF Unrolled, FoldAt
<1>4. Unrolls(it, T, base, n, step)
  BY <1>2, <1>3 DEF Unrolls
<1>5. Sums(it, T, base, n, step)
  BY <1>4, FoldSteps
<1> QED BY <1>5 DEF Sums

-------------------------------------------------------------------------------
(* Texts in a row                                                           *)

\* FlattenSeq puts texts in a row, one behind the other.
RowOf(g, f, n) == \A i \in 1 .. n : g[i] = IF i = 1 THEN f[i] ELSE g[i - 1] \o f[i]

\* FlattenSeq is the last row of a fold over the parts.
LEMMA FlattensRow ==
    ASSUME NEW S, NEW n \in Nat \ {0}, NEW f \in [1 .. n -> Seq(S)]
    PROVE  \E g : RowOf(g, f, n) /\ FlattenSeq(f) = g[n]
<1> DEFINE T == Seq(S)
           step == [p \in T \X (1 .. n) |-> p[1] \o f[p[2]]]
           Row(g) == [i \in 1 .. n |-> IF i = 1 THEN f[i] ELSE g[i - 1] \o f[i]]
<1>0. Len(f) = n /\ n # 0
  OBVIOUS
<1>1. FlattenSeq(f) = (CHOOSE g : g = Row(g))[n]
  BY <1>0, Zenon DEF FlattenSeq
<1>2. \E g : g = Row(g)
  <2>1. <<>> \in T /\ step \in Steps(T, n)
    BY DEF Steps
  <2> HIDE DEF step, T
  <2>2. PICK r : Accumulates(r, T, <<>>, n, step)
    BY <2>1, Accumulators
  <2> DEFINE g == [i \in 1 .. n |-> r[i]]
  <2>3. ASSUME NEW i \in 1 .. n PROVE r[i] = IF i = 1 THEN f[i] ELSE g[i - 1] \o f[i]
    <3>1. r[i - 1] \in T /\ r[i] = step[<<r[i - 1], i>>] /\ r[0] = <<>>
      BY <2>2 DEF Accumulates
    <3>2. r[i] = r[i - 1] \o f[i]
      BY <3>1 DEF step
    <3>3. CASE i = 1
      <4>1. r[i - 1] = <<>> /\ f[i] \in Seq(S)
        BY <3>1, <3>3
      <4> QED BY <3>2, <3>3, <4>1
    <3>4. CASE i # 1
      <4>1. i - 1 \in 1 .. n
        BY <3>4
      <4> QED BY <3>2, <3>4, <4>1
    <3> QED BY <3>3, <3>4
  <2>4. g = Row(g)
    BY <2>3
  <2> HIDE DEF g, Row
  <2> QED BY <2>4
<1>3. PICK g : g = Row(g) /\ FlattenSeq(f) = g[n]
  <2> HIDE DEF Row
  <2> QED BY <1>1, <1>2, Zenon
<1>4. \A i \in 1 .. n : g[i] = IF i = 1 THEN f[i] ELSE g[i - 1] \o f[i]
  BY <1>3
<1> HIDE DEF Row
<1> QED BY <1>3, <1>4 DEF RowOf

\* What is in the row comes from the texts.
LEMMA Flattened ==
    ASSUME NEW S, NEW n \in Nat, NEW f \in [1 .. n -> Seq(S)]
    PROVE  FlattenSeq(f) \in Seq(S)
<1>1. CASE n = 0
  <2>1. FlattenSeq(f) = f
    BY <1>1 DEF FlattenSeq
  <2>2. f \in [1 .. n -> S]
    BY <1>1
  <2>3. f \in Seq(S)
    BY <2>2
  <2> QED BY <2>1, <2>3
<1>2. CASE n # 0
  <2>1. PICK g : RowOf(g, f, n) /\ FlattenSeq(f) = g[n]
    BY <1>2, FlattensRow
  <2> DEFINE All == {i \in Nat : i + 1 =< n => g[i + 1] \in Seq(S)}
  <2>2. 0 \in All
    <3>1. 1 \in 1 .. n
      BY <1>2
    <3>2. g[1] = f[1] /\ f[1] \in Seq(S)
      BY <2>1, <3>1 DEF RowOf
    <3> QED BY <3>1, <3>2
  <2>3. ASSUME NEW i \in Nat, i \in All PROVE i + 1 \in All
    <3> SUFFICES ASSUME (i + 1) + 1 =< n PROVE g[(i + 1) + 1] \in Seq(S)
      OBVIOUS
    <3> DEFINE j == (i + 1) + 1
    <3>1. i + 1 =< n /\ j \in 1 .. n /\ j # 1 /\ j - 1 = i + 1
      OBVIOUS
    <3>2. g[i + 1] \in Seq(S)
      BY <2>3, <3>1
    <3> HIDE DEF j
    <3>3. g[j] = g[i + 1] \o f[j] /\ f[j] \in Seq(S)
      BY <2>1, <3>1 DEF RowOf
    <3>4. g[j] \in Seq(S)
      BY <3>2, <3>3
    <3> QED BY <3>4 DEF j
  <2> HIDE DEF All
  <2>4. n - 1 \in Nat /\ (n - 1) + 1 = n
    BY <1>2
  <2>5. n - 1 \in All
    BY <2>2, <2>3, <2>4, Induction
  <2> QED BY <2>1, <2>4, <2>5 DEF All
<1> QED BY <1>1, <1>2

\* There are no more elements in the row than texts, if none has more than one.
LEMMA FlattenedShort ==
    ASSUME NEW S, NEW n \in Nat, NEW f \in [1 .. n -> Seq(S)],
           \A i \in 1 .. n : Len(f[i]) =< 1
    PROVE  Len(FlattenSeq(f)) =< n
<1>1. CASE n = 0
  <2>1. FlattenSeq(f) = f /\ Len(f) = n
    BY <1>1 DEF FlattenSeq
  <2> QED BY <2>1
<1>2. CASE n # 0
  <2>1. PICK g : RowOf(g, f, n) /\ FlattenSeq(f) = g[n]
    BY <1>2, FlattensRow
  <2> DEFINE All == {i \in Nat : i + 1 =< n => g[i + 1] \in Seq(S) /\ Len(g[i + 1]) =< i + 1}
  <2>2. 0 \in All
    <3>1. 1 \in 1 .. n
      BY <1>2
    <3>2. g[1] = f[1] /\ f[1] \in Seq(S) /\ Len(f[1]) =< 1
      BY <2>1, <3>1 DEF RowOf
    <3> QED BY <3>1, <3>2
  <2>3. ASSUME NEW i \in Nat, i \in All PROVE i + 1 \in All
    <3> SUFFICES ASSUME (i + 1) + 1 =< n
                 PROVE  g[(i + 1) + 1] \in Seq(S) /\ Len(g[(i + 1) + 1]) =< (i + 1) + 1
      OBVIOUS
    <3> DEFINE j == (i + 1) + 1
    <3>1. i + 1 =< n /\ j \in 1 .. n /\ j # 1 /\ j - 1 = i + 1
      OBVIOUS
    <3>2. g[i + 1] \in Seq(S) /\ Len(g[i + 1]) =< i + 1
      BY <2>3, <3>1
    <3> HIDE DEF j
    <3>3. g[j] = g[i + 1] \o f[j] /\ f[j] \in Seq(S) /\ Len(f[j]) =< 1
      BY <2>1, <3>1 DEF RowOf
    <3>4. /\ g[j] \in Seq(S) /\ Len(g[j]) = Len(g[i + 1]) + Len(f[j])
          /\ Len(g[i + 1]) \in Nat /\ Len(f[j]) \in Nat
      BY <3>2, <3>3
    <3>5. Len(g[j]) =< (i + 1) + 1
      <4> DEFINE x == Len(g[i + 1])
                 y == Len(f[j])
                 z == Len(g[j])
      <4>1. x \in Nat /\ y \in Nat /\ z = x + y /\ x =< i + 1 /\ y =< 1
        BY <3>2, <3>3, <3>4
      <4> HIDE DEF x, y, z
      <4>2. z =< (i + 1) + 1
        BY <4>1
      <4> QED BY <4>2 DEF z
    <3> QED BY <3>4, <3>5 DEF j
  <2> HIDE DEF All
  <2>4. n - 1 \in Nat /\ (n - 1) + 1 = n
    BY <1>2
  <2>5. n - 1 \in All
    BY <2>2, <2>3, <2>4, Induction
  <2> QED BY <2>1, <2>4, <2>5 DEF All
<1> QED BY <1>1, <1>2

-------------------------------------------------------------------------------
(* Joining and cutting                                                      *)

\* Two neighbouring parts of a sequence are one.
LEMMA PartsJoin ==
    ASSUME NEW S, NEW d \in Seq(S), NEW b \in 0 .. Len(d), NEW a \in 0 .. b
    PROVE  SubSeq(d, 1, a) \o SubSeq(d, a + 1, b) = SubSeq(d, 1, b)
<1> DEFINE x == SubSeq(d, 1, a)
           y == SubSeq(d, a + 1, b)
           z == SubSeq(d, 1, b)
<1>1. Len(d) \in Nat /\ a \in Nat /\ b \in Nat /\ a =< b /\ b =< Len(d)
  OBVIOUS
<1>2. \A i \in 1 .. Len(d) : d[i] \in S
  BY SeqIs
<1>3. x \in Seq(S) /\ Len(x) = a /\ \A i \in 1 .. a : x[i] = d[i]
  BY <1>1, <1>2, SubSeqProperties
<1>4. y \in Seq(S) /\ Len(y) = b - a /\ \A i \in 1 .. b - a : y[i] = d[a + i]
  BY <1>1, <1>2, SubSeqProperties
<1>5. z \in Seq(S) /\ Len(z) = b /\ \A i \in 1 .. b : z[i] = d[i]
  BY <1>1, <1>2, SubSeqProperties
<1> HIDE DEF x, y, z
<1>6. x \o y \in Seq(S) /\ Len(x \o y) = b
  BY <1>1, <1>3, <1>4
<1>7. ASSUME NEW i \in 1 .. b PROVE (x \o y)[i] = z[i]
  <2>1. CASE i =< a
    BY <1>1, <1>3, <1>4, <1>5, <2>1
  <2>2. CASE ~ (i =< a)
    <3>1. (x \o y)[i] = y[i - a]
      BY <1>1, <1>3, <1>4, <2>2
    <3>2. i - a \in 1 .. b - a /\ a + (i - a) = i
      BY <1>1, <2>2
    <3>3. y[i - a] = d[a + (i - a)]
      BY <1>4, <3>2
    <3> QED BY <1>5, <3>1, <3>2, <3>3
  <2> QED BY <2>1, <2>2
<1>8. x \o y = z
  BY <1>5, <1>6, <1>7
<1> QED BY <1>8 DEF x, y, z

\* A sequence d cut at the places at into n pieces.
Cuts(S, d, n, at, f) ==
    /\ d \in Seq(S) /\ n \in Nat /\ at \in [0 .. n -> 0 .. Len(d)] /\ f \in [1 .. n -> Seq(S)]
    /\ at[0] = 0 /\ at[n] = Len(d) /\ \A i \in 1 .. n : at[i - 1] =< at[i]
    /\ \A i \in 1 .. n : f[i] = SubSeq(d, at[i - 1] + 1, at[i])

\* A sequence is what its pieces are, one after the other.
LEMMA FlattenedPieces ==
    ASSUME NEW S, NEW d, NEW n, NEW at, NEW f, Cuts(S, d, n, at, f)
    PROVE  FlattenSeq(f) = d
<1> USE DEF Cuts
<1>1. CASE n = 0
  <2>1. FlattenSeq(f) = f /\ Len(f) = 0 /\ Len(d) = 0
    BY <1>1 DEF FlattenSeq
  <2> QED BY <1>1, <2>1
<1>2. CASE n # 0
  <2>1. PICK g : RowOf(g, f, n) /\ FlattenSeq(f) = g[n]
    BY <1>2, FlattensRow
  <2> DEFINE First(m) == SubSeq(d, 1, at[m])
             Good == {m \in Nat : m = 0 \/ m > n \/ g[m] = First(m)}
  <2>2. 0 \in Good
    OBVIOUS
  <2>3. ASSUME NEW m \in Nat, m \in Good PROVE m + 1 \in Good
    <3> SUFFICES ASSUME m + 1 =< n PROVE g[m + 1] = First(m + 1)
      OBVIOUS
    <3>1. m + 1 \in 1 .. n /\ (m + 1) - 1 = m /\ m \in 0 .. n /\ m + 1 \in 0 .. n
      OBVIOUS
    <3>2. f[m + 1] = SubSeq(d, at[m] + 1, at[m + 1]) /\ at[m] =< at[m + 1]
      BY <3>1
    <3>3. g[m + 1] = IF m = 0 THEN f[m + 1] ELSE g[m] \o f[m + 1]
      <4> DEFINE i == m + 1
      <4>1. i \in 1 .. n /\ i - 1 = m /\ (i = 1 <=> m = 0)
        BY <3>1
      <4>2. \A k \in 1 .. n : g[k] = IF k = 1 THEN f[k] ELSE g[k - 1] \o f[k]
        BY <2>1 DEF RowOf
      <4> HIDE DEF i
      <4>3. g[i] = IF m = 0 THEN f[i] ELSE g[m] \o f[i]
        BY <4>1, <4>2
      <4> QED BY <4>3 DEF i
    <3>4. at[m] \in 0 .. Len(d) /\ at[m + 1] \in 0 .. Len(d)
      BY <3>1
    <3>5. CASE m = 0
      BY SMTT(30), <3>2, <3>3, <3>5
    <3>6. CASE m # 0
      <4>1. g[m] = First(m)
        BY <2>3, <3>1, <3>6
      <4>2. First(m) \o SubSeq(d, at[m] + 1, at[m + 1]) = First(m + 1)
        <5> DEFINE a == at[m]
                   b == at[m + 1]
        <5>1. b \in 0 .. Len(d) /\ a \in 0 .. b
          BY <3>2, <3>4
        <5> HIDE DEF a, b
        <5>2. SubSeq(d, 1, a) \o SubSeq(d, a + 1, b) = SubSeq(d, 1, b)
          BY <5>1, PartsJoin
        <5> QED BY <5>2 DEF a, b
      <4>3. g[m + 1] = g[m] \o f[m + 1]
        BY <3>3, <3>6
      <4> HIDE DEF First
      <4> QED BY <3>2, <4>1, <4>2, <4>3
    <3> QED BY <3>5, <3>6
  <2> HIDE DEF Good
  <2>4. n \in Good
    BY <2>2, <2>3, Induction
  <2>5. g[n] = SubSeq(d, 1, Len(d))
    <3>1. n = 0 \/ n > n \/ g[n] = First(n)
      BY <2>4 DEF Good
    <3> HIDE DEF First
    <3>2. g[n] = First(n)
      BY <1>2, <3>1
    <3> QED BY <3>2 DEF First
  <2>6. SubSeq(d, 1, Len(d)) = d
    OBVIOUS
  <2> QED BY <2>1, <2>5, <2>6
<1> QED BY <1>1, <1>2

\* The smaller of two numbers.
LEMMA Smaller == ASSUME NEW a \in Nat, NEW b \in Nat PROVE Min({a, b}) = IF a =< b THEN a ELSE b
<1> DEFINE two == {a, b}
<1>1. two \in SUBSET Nat /\ two # {}
  OBVIOUS
<1> HIDE DEF two
<1>2. Min(two) \in two /\ \A y \in two : Min(two) =< y
  BY <1>1, MinIn
<1> QED BY <1>2 DEF two

\* How many buffers there are: as many as the text takes, and none in excess.
LEMMA BuffersNeeded ==
    ASSUME NEW n \in Nat, NEW B \in Nat \ {0}
    PROVE  LET num == (n + B - 1) \div B IN
           num \in Nat /\ n =< num * B /\ \A i \in 1 .. num : (i - 1) * B < n
<1> DEFINE num == (n + B - 1) \div B
<1>1. num \in Nat /\ num * B =< n + B - 1 /\ n + B - 1 < num * B + B
  OBVIOUS
<1>2. num * B \in Nat
  BY <1>1
<1> HIDE DEF num
<1>3. n =< num * B
  BY <1>1, <1>2
<1>4. ASSUME NEW i \in 1 .. num PROVE (i - 1) * B < n
  <2>1. i * B =< num * B /\ i * B = (i - 1) * B + B /\ i * B \in Nat /\ (i - 1) * B \in Nat
    BY <1>1
  <2> QED BY <1>1, <1>2, <2>1
<1> QED BY <1>1, <1>3, <1>4 DEF num

\* What holds of the empty sequence, and of a longer one if of a shorter, holds
\* of all.
LEMMA SequenceInduction ==
    ASSUME NEW S, NEW G, <<>> \in G, \A s \in Seq(S), x \in S : s \in G => Append(s, x) \in G
    PROVE  \A s \in Seq(S) : s \in G
<1> DEFINE N == {n \in Nat : \A s \in Seq(S) : Len(s) = n => s \in G}
<1>1. 0 \in N
  OBVIOUS
<1>2. ASSUME NEW n \in Nat, n \in N PROVE n + 1 \in N
  <2> SUFFICES ASSUME NEW s \in Seq(S), Len(s) = n + 1 PROVE s \in G
    OBVIOUS
  <2> DEFINE t == SubSeq(s, 1, n)
             x == s[n + 1]
  <2>1. x \in S /\ \A i \in 1 .. n : s[i] \in S
    BY SeqIs
  <2>2. t \in Seq(S) /\ Len(t) = n /\ \A i \in 1 .. n : t[i] = s[i]
    BY <2>1, SubSeqProperties
  <2> HIDE DEF t, x
  <2>3. t \in G
    BY <1>2, <2>2
  <2>4. s = Append(t, x)
    BY <2>1, <2>2 DEF x
  <2> QED BY <2>1, <2>2, <2>3, <2>4
<1> HIDE DEF N
<1>3. \A n \in Nat : n \in N
  BY <1>1, <1>2, Induction
<1> QED BY <1>3 DEF N

\* Joining is associative.
Three(S, s, t, u) == s \in Seq(S) /\ t \in Seq(S) /\ u \in Seq(S)

\* However the three are bracketed, the text is the same.
LEMMA JoinJoin ==
    ASSUME NEW S, NEW s, NEW t, NEW u, Three(S, s, t, u)
    PROVE  (s \o t) \o u = s \o (t \o u)
<1> USE DEF Three
<1> DEFINE a == (s \o t) \o u
           b == s \o (t \o u)
           m == Len(s)
           n == Len(t)
           o == Len(u)
<1>1. m \in Nat /\ n \in Nat /\ o \in Nat
  OBVIOUS
<1>2. a \in Seq(S) /\ b \in Seq(S) /\ Len(a) = m + n + o /\ Len(b) = m + n + o
  OBVIOUS
<1>3. ASSUME NEW i \in 1 .. m + n + o PROVE a[i] = b[i]
  OBVIOUS
<1> HIDE DEF a, b
<1>4. a = b
  BY <1>1, <1>2, <1>3
<1> QED BY <1>4 DEF a, b

\* The rows that FlattenSeq goes through.
Rows(S, g, f, n) ==
    /\ g \in [0 .. n -> Seq(S)] /\ g[0] = <<>>
    /\ \A m \in 1 .. n : g[m] = g[m - 1] \o f[m]

\* FlattenSeq is the last of its rows.
LEMMA FlattenRows ==
    ASSUME NEW S, NEW n \in Nat, NEW f \in [1 .. n -> Seq(S)]
    PROVE  \E g : Rows(S, g, f, n) /\ FlattenSeq(f) = g[n]
<1>1. CASE n = 0
  <2>1. FlattenSeq(f) = <<>>
    BY <1>1 DEF FlattenSeq
  <2> DEFINE g == [m \in 0 .. 0 |-> <<>>]
  <2>2. Rows(S, g, f, n) /\ FlattenSeq(f) = g[n]
    BY <1>1, <2>1 DEF Rows
  <2> QED BY <2>2
<1>2. CASE n # 0
  <2>1. PICK h : RowOf(h, f, n) /\ FlattenSeq(f) = h[n]
    BY <1>2, FlattensRow
  <2> DEFINE step == [p \in Seq(S) \X (1 .. n) |-> p[1] \o f[p[2]]]
  <2>2. <<>> \in Seq(S) /\ step \in Steps(Seq(S), n)
    BY DEF Steps
  <2>3. PICK g : Accumulates(g, Seq(S), <<>>, n, step)
    <3> HIDE DEF step
    <3> QED BY <2>2, Accumulators
  <2>4. g \in [0 .. n -> Seq(S)] /\ g[0] = <<>>
    BY <2>3 DEF Accumulates
  <2>5. ASSUME NEW m \in 1 .. n PROVE g[m] = g[m - 1] \o f[m]
    <3>1. m - 1 \in 0 .. n /\ g[m - 1] \in Seq(S)
      BY <2>4
    <3>2. g[m] = step[<<g[m - 1], m>>]
      BY <2>3 DEF Accumulates
    <3> QED BY <3>1, <3>2
  <2>6. Rows(S, g, f, n)
    BY <2>4, <2>5 DEF Rows
  <2> HIDE DEF step
  <2> DEFINE Same == {m \in Nat : m \in 1 .. n => h[m] = g[m]}
  <2>7. 0 \in Same
    OBVIOUS
  <2>8. ASSUME NEW m \in Nat, m \in Same PROVE m + 1 \in Same
    <3> DEFINE i == m + 1
    <3> SUFFICES ASSUME i \in 1 .. n PROVE h[i] = g[i]
      OBVIOUS
    <3>1. i - 1 = m /\ (i = 1 <=> m = 0)
      OBVIOUS
    <3> HIDE DEF i
    <3>2. h[i] = IF i = 1 THEN f[i] ELSE h[i - 1] \o f[i]
      BY <2>1 DEF RowOf
    <3>3. g[i] = g[i - 1] \o f[i]
      BY <2>5
    <3>4. CASE m = 0
      <4>1. f[i] \in Seq(S)
        OBVIOUS
      <4>2. <<>> \o f[i] = f[i]
        BY <4>1
      <4> QED BY <2>4, <3>1, <3>2, <3>3, <3>4, <4>2
    <3>5. CASE m # 0
      <4>1. m \in 1 .. n
        BY <3>1, <3>5
      <4>2. h[m] = g[m]
        BY <2>8, <4>1
      <4> QED BY <3>1, <3>2, <3>3, <3>5, <4>2
    <3> QED BY <3>4, <3>5
  <2> HIDE DEF Same
  <2>9. n \in Same
    BY <2>7, <2>8, Induction
  <2>10. h[n] = g[n]
    BY <1>2, <2>9 DEF Same
  <2> QED BY <2>1, <2>6, <2>10
<1> QED BY <1>1, <1>2

\* One text more at the end of a row.
LEMMA FlattenedOneMore ==
    ASSUME NEW S, NEW n \in Nat, NEW f \in [1 .. n -> Seq(S)], NEW h \in [1 .. n + 1 -> Seq(S)],
           \A i \in 1 .. n : h[i] = f[i]
    PROVE  FlattenSeq(h) = FlattenSeq(f) \o h[n + 1]
<1>1. PICK g : Rows(S, g, f, n) /\ FlattenSeq(f) = g[n]
  BY FlattenRows
<1>2. n + 1 \in Nat
  OBVIOUS
<1>3. PICK r : Rows(S, r, h, n + 1) /\ FlattenSeq(h) = r[n + 1]
  BY <1>2, FlattenRows
<1> DEFINE Same == {m \in Nat : m =< n => r[m] = g[m]}
<1>4. 0 \in Same
  BY <1>1, <1>3 DEF Rows
<1>5. ASSUME NEW m \in Nat, m \in Same PROVE m + 1 \in Same
  <2> DEFINE i == m + 1
  <2> SUFFICES ASSUME i =< n PROVE r[i] = g[i]
    OBVIOUS
  <2>1. i \in 1 .. n /\ i \in 1 .. n + 1 /\ i - 1 = m
    OBVIOUS
  <2> HIDE DEF i
  <2>2. r[i] = r[i - 1] \o h[i] /\ g[i] = g[i - 1] \o f[i]
    BY <1>1, <1>3, <2>1 DEF Rows
  <2>3. r[m] = g[m]
    BY <1>5, <2>1
  <2> QED BY <2>1, <2>2, <2>3
<1> HIDE DEF Same
<1>6. n \in Same
  BY <1>4, <1>5, Induction
<1>7. r[n] = g[n]
  BY <1>6 DEF Same
<1>8. r[n + 1] = r[n] \o h[n + 1]
  <2> DEFINE i == n + 1
  <2>1. i \in 1 .. n + 1 /\ i - 1 = n
    OBVIOUS
  <2> HIDE DEF i
  <2>2. r[i] = r[i - 1] \o h[i]
    BY <1>3, <2>1 DEF Rows, i
  <2> QED BY <2>1, <2>2 DEF i
<1> QED BY <1>1, <1>3, <1>7, <1>8

-------------------------------------------------------------------------------
(* Parts of sequences                                                       *)

\* The beginning of a text.
LEMMA Beginning ==
    ASSUME NEW S, NEW s \in Seq(S), NEW m \in 0 .. Len(s)
    PROVE  LET t == SubSeq(s, 1, m) IN
           t \in Seq(S) /\ Len(t) = m /\ \A k \in 1 .. m : t[k] = s[k]
BY SubSeqProperties

\* What is a sequence, of whatever.
Sequence(s) == \E S : s \in Seq(S)

\* A part of a sequence is one, and as long as its places are many.
LEMMA PartSequence ==
    ASSUME NEW s, Sequence(s), NEW m \in Int, NEW n \in Int
    PROVE  Sequence(SubSeq(s, m, n)) /\ Len(SubSeq(s, m, n)) = IF m =< n THEN n - m + 1 ELSE 0
<1> DEFINE S == {s[i] : i \in m .. n}
<1>1. \A i \in m .. n : s[i] \in S
  OBVIOUS
<1> HIDE DEF S
<1> QED BY <1>1, SubSeqProperties DEF Sequence

\* Two sequences, one behind the other.
LEMMA JoinedSequence ==
    ASSUME NEW s, NEW t, Sequence(s), Sequence(t)
    PROVE  Sequence(s \o t) /\ Len(s \o t) = Len(s) + Len(t)
<1>1. PICK S : s \in Seq(S)
  BY DEF Sequence
<1>2. PICK T : t \in Seq(T)
  BY DEF Sequence
<1> DEFINE U == S \cup T
<1>3. s \in Seq(U) /\ t \in Seq(U)
  BY <1>1, <1>2
<1> HIDE DEF U
<1> QED BY <1>3 DEF Sequence

\* Sequences put into a row.
LEMMA FlattenedSequence ==
    ASSUME NEW n \in Nat, NEW f, f = [i \in 1 .. n |-> f[i]], \A i \in 1 .. n : Sequence(f[i])
    PROVE  Sequence(FlattenSeq(f))
<1> DEFINE S == UNION {{f[i][k] : k \in DOMAIN f[i]} : i \in 1 .. n}
<1>1. ASSUME NEW i \in 1 .. n PROVE f[i] \in Seq(S)
  <2>1. PICK T : f[i] \in Seq(T)
    BY DEF Sequence
  <2> DEFINE q == f[i]
  <2>2. Len(q) \in Nat /\ DOMAIN q = 1 .. Len(q) /\ q = [k \in 1 .. Len(q) |-> q[k]]
    BY <2>1
  <2>3. \A k \in DOMAIN q : q[k] \in S
    OBVIOUS
  <2> HIDE DEF q, S
  <2>4. q \in Seq(S)
    BY <2>2, <2>3
  <2> QED BY <2>4 DEF q
<1> HIDE DEF S
<1>2. f \in [1 .. n -> Seq(S)]
  BY <1>1
<1> QED BY <1>2, Flattened DEF Sequence

\* Some of the first n numbers are a finite set.
LEMMA IndicesFinite == ASSUME NEW n \in Nat, NEW T, T \subseteq 1 .. n PROVE IsFiniteSet(T)
<1>1. IsFiniteSet(1 .. n)
  BY FS_Interval
<1> QED BY <1>1, FS_Subset

\* What is text of some signs is text of more of them.
LEMMA MoreSigns == ASSUME NEW S, NEW T, S \subseteq T, NEW s \in Seq(S) PROVE s \in Seq(T)
OBVIOUS

\* Two texts, one behind the other.
LEMMA JoinIs ==
    ASSUME NEW S, NEW s \in Seq(S), NEW r \in Seq(S)
    PROVE  /\ s \o r \in Seq(S) /\ Len(s \o r) = Len(s) + Len(r) /\ Len(s) \in Nat /\ Len(r) \in Nat
           /\ \A i \in 1 .. Len(s) + Len(r) : (s \o r)[i] = IF i =< Len(s) THEN s[i] ELSE r[i - Len(s)]
OBVIOUS

\* Two bytes and a text behind them.
LEMMA BehindTwo ==
    ASSUME NEW S, NEW h \in Seq(S), Len(h) = 2, NEW c \in Seq(S)
    PROVE  /\ Len(c) \in Nat /\ h \o c \in Seq(S) /\ Len(h \o c) = Len(c) + 2
           /\ DOMAIN (h \o c) = 1 .. Len(c) + 2
           /\ (h \o c)[1] = h[1] /\ (h \o c)[2] = h[2]
           /\ \A i \in 1 .. Len(c) : (h \o c)[i + 2] = c[i]
<1> DEFINE n == Len(c)
           d == h \o c
<1>0. h \in Seq(S) /\ c \in Seq(S) /\ Len(h) = 2
  OBVIOUS
<1>1. n \in Nat /\ d \in Seq(S) /\ Len(d) = n + 2 /\ DOMAIN d = 1 .. n + 2
  <2>1. d \in Seq(S) /\ Len(d) = Len(h) + n /\ n \in Nat
    BY ONLY <1>0, JoinIs
  <2> HIDE DEF d, n
  <2> QED BY <2>1
<1>2. \A i \in 1 .. n + 2 : d[i] = IF i =< 2 THEN h[i] ELSE c[i - 2]
  <2>1. \A i \in 1 .. Len(h) + n : d[i] = IF i =< Len(h) THEN h[i] ELSE c[i - Len(h)]
    BY ONLY <1>0, JoinIs
  <2> HIDE DEF d, n
  <2> QED BY <1>1, <2>1
<1> HIDE DEF d, n
<1>3. d[1] = h[1] /\ d[2] = h[2]
  BY <1>1, <1>2
<1>4. ASSUME NEW i \in 1 .. n PROVE d[i + 2] = c[i]
  <2> DEFINE j == i + 2
  <2>1. j \in 1 .. n + 2 /\ ~ (j =< 2) /\ j - 2 = i
    BY <1>1
  <2> HIDE DEF j
  <2>2. d[j] = c[i]
    BY <1>2, <2>1
  <2> QED BY <2>2 DEF j
<1> QED BY <1>1, <1>3, <1>4 DEF d, n

\* What begins another text.
LEMMA PrefixIs ==
    ASSUME NEW S, NEW s \in Seq(S), NEW t \in Seq(S)
    PROVE  IsPrefix(s, t) <=> Len(s) =< Len(t) /\ \A i \in 1 .. Len(s) : s[i] = t[i]
<1> DEFINE m == Len(s)
           n == Len(t)
           u == SubSeq(t, 1, m)
<1>1. m \in Nat /\ n \in Nat /\ SubSeq(s, 1, m) = s
  OBVIOUS
<1>2. IsPrefix(s, t) <=> m =< n /\ s = u
  BY <1>1 DEF IsPrefix
<1>3. ASSUME m =< n PROVE u \in Seq(S) /\ Len(u) = m /\ \A i \in 1 .. m : u[i] = t[i]
  <2>1. m \in 0 .. n
    BY <1>1, <1>3
  <2> QED BY <2>1, Beginning
<1> HIDE DEF u
<1>4. ASSUME m =< n PROVE s = u <=> \A i \in 1 .. m : s[i] = t[i]
  BY <1>1, <1>3, <1>4
<1> QED BY <1>2, <1>4

\* A text is what begins it and a rest.
LEMMA PrefixRest ==
    ASSUME NEW S, NEW s \in Seq(S), NEW t \in Seq(S), IsPrefix(s, t)
    PROVE  \E r \in Seq(S) : t = s \o r
<1> DEFINE m == Len(s)
           n == Len(t)
           r == SubSeq(t, m + 1, n)
<1>1. m \in Nat /\ n \in Nat /\ m =< n /\ \A i \in 1 .. m : s[i] = t[i]
  BY PrefixIs
<1>2. \A i \in 1 .. n : t[i] \in S
  BY SeqIs
<1>3. r \in Seq(S) /\ Len(r) = n - m /\ \A i \in 1 .. n - m : r[i] = t[m + i]
  <2>1. \A i \in m + 1 .. n : t[i] \in S
    BY <1>1, <1>2
  <2>2. m + 1 \in Int /\ n \in Int /\ n - (m + 1) + 1 = n - m /\ (m + 1 =< n \/ n - m = 0)
    BY <1>1
  <2>3. \A i \in 1 .. n - m : (m + 1) + i - 1 = m + i
    BY <1>1
  <2> QED BY <1>1, <2>1, <2>2, <2>3, SubSeqProperties
<1> HIDE DEF r
<1> DEFINE q == s \o r
<1>4. q \in Seq(S) /\ Len(q) = n /\ \A i \in 1 .. n : q[i] = IF i =< m THEN s[i] ELSE r[i - m]
  BY <1>1, <1>3
<1> HIDE DEF q
<1>5. ASSUME NEW i \in 1 .. n PROVE q[i] = t[i]
  <2>1. CASE i =< m
    BY <1>1, <1>4, <2>1
  <2>2. CASE ~ (i =< m)
    <3>1. i - m \in 1 .. n - m /\ m + (i - m) = i
      BY <1>1, <2>2
    <3>2. r[i - m] = t[m + (i - m)]
      BY <1>3, <3>1
    <3> QED BY <1>4, <2>2, <3>1, <3>2
  <2> QED BY <2>1, <2>2
<1>6. q = t
  <2> HIDE DEF m, n
  <2>1. Len(t) = n
    BY DEF n
  <2> QED BY <1>4, <1>5, <2>1
<1> QED BY <1>3, <1>6 DEF q

\* The first bytes of what is joined.
LEMMA JoinedStart ==
    ASSUME NEW S, NEW s \in Seq(S), NEW r \in Seq(S)
    PROVE  IsPrefix(s, s \o r)
<1> DEFINE t == s \o r
<1>1. t \in Seq(S) /\ Len(t) = Len(s) + Len(r) /\ Len(s) \in Nat /\ Len(r) \in Nat
  BY JoinIs
<1>2. \A i \in 1 .. Len(s) + Len(r) : t[i] = IF i =< Len(s) THEN s[i] ELSE r[i - Len(s)]
  BY JoinIs
<1> HIDE DEF t
<1>3. \A i \in 1 .. Len(s) : s[i] = t[i]
  BY <1>1, <1>2
<1>4. IsPrefix(s, t)
  BY <1>1, <1>3, PrefixIs
<1> QED BY <1>4 DEF t

\* Texts in a row and more texts behind them.
RowBehind(S, m, n, f, g, h) ==
    /\ m \in Nat /\ n \in Nat /\ f \in [1 .. m -> Seq(S)] /\ g \in [1 .. n -> Seq(S)]
    /\ h \in [1 .. m + n -> Seq(S)]
    /\ \A i \in 1 .. m : h[i] = f[i]
    /\ \A i \in 1 .. n : h[m + i] = g[i]

\* The row of all is the one row behind the other.
LEMMA FlattenedJoin ==
    ASSUME NEW S, NEW m, NEW n, NEW f, NEW g, NEW h, RowBehind(S, m, n, f, g, h)
    PROVE  FlattenSeq(h) = FlattenSeq(f) \o FlattenSeq(g)
<1>1. /\ m \in Nat /\ n \in Nat /\ f \in [1 .. m -> Seq(S)] /\ g \in [1 .. n -> Seq(S)]
      /\ h \in [1 .. m + n -> Seq(S)]
      /\ \A i \in 1 .. m : h[i] = f[i]
      /\ \A i \in 1 .. n : h[m + i] = g[i]
  BY DEF RowBehind
<1>2. PICK x : Rows(S, x, f, m) /\ FlattenSeq(f) = x[m]
  BY <1>1, FlattenRows
<1>3. PICK y : Rows(S, y, g, n) /\ FlattenSeq(g) = y[n]
  BY <1>1, FlattenRows
<1>4. PICK z : Rows(S, z, h, m + n) /\ FlattenSeq(h) = z[m + n]
  <2>1. m + n \in Nat
    BY <1>1
  <2> QED BY <1>1, <2>1, FlattenRows
<1> DEFINE First == {k \in Nat : k =< m => z[k] = x[k]}
           Follows(k) == z[m + k] = x[m] \o y[k]
           Second == {k \in Nat : k =< n => Follows(k)}
<1>5. 0 \in First
  BY <1>2, <1>4 DEF Rows
<1>6. ASSUME NEW k \in Nat, k \in First PROVE k + 1 \in First
  <2> DEFINE i == k + 1
  <2> SUFFICES ASSUME i =< m PROVE z[i] = x[i]
    OBVIOUS
  <2>1. i \in 1 .. m /\ i \in 1 .. m + n /\ i - 1 = k
    BY <1>1
  <2> HIDE DEF i
  <2>2. z[i] = z[i - 1] \o h[i] /\ x[i] = x[i - 1] \o f[i]
    BY <1>2, <1>4, <2>1 DEF Rows
  <2>3. z[k] = x[k]
    BY <1>1, <1>6, <2>1
  <2> QED BY <1>1, <2>1, <2>2, <2>3
<1>7. z[m] = x[m]
  <2> HIDE DEF First
  <2>1. m \in First
    BY <1>1, <1>5, <1>6, Induction
  <2> QED BY <1>1, <2>1 DEF First
<1>8. 0 \in Second
  <2>1. x[m] \o <<>> = x[m] /\ m + 0 = m
    BY <1>1, <1>2 DEF Rows
  <2>2. Follows(0)
    BY <1>3, <1>7, <2>1 DEF Rows
  <2> HIDE DEF Follows
  <2> QED BY <2>2
<1>9. ASSUME NEW k \in Nat, k \in Second PROVE k + 1 \in Second
  <2> DEFINE i == k + 1
             l == m + i
  <2> HIDE DEF Follows
  <2> SUFFICES ASSUME i =< n PROVE Follows(i)
    OBVIOUS
  <2>1. i \in 1 .. n /\ l \in 1 .. m + n /\ i - 1 = k /\ l - 1 = m + k /\ k \in 0 .. n /\ m \in 0 .. m
    BY <1>1
  <2>2. h[l] = g[i]
    BY <1>1, <2>1
  <2> HIDE DEF i, l
  <2>3. z[l] = z[l - 1] \o h[l] /\ y[i] = y[i - 1] \o g[i]
    BY <1>3, <1>4, <2>1 DEF Rows
  <2>4. z[m + k] = x[m] \o y[k]
    <3>1. Follows(k)
      BY <1>9, <2>1
    <3> QED BY <3>1 DEF Follows
  <2>5. x[m] \in Seq(S) /\ y[k] \in Seq(S) /\ g[i] \in Seq(S)
    BY <1>1, <1>2, <1>3, <2>1 DEF Rows
  <2> DEFINE a == x[m]
             b == y[k]
             c == g[i]
  <2>6. Three(S, a, b, c)
    BY <2>5 DEF Three
  <2>7. z[l] = (a \o b) \o c /\ y[i] = b \o c
    BY <2>1, <2>2, <2>3, <2>4
  <2> HIDE DEF a, b, c
  <2>8. z[l] = a \o y[i]
    BY <2>6, <2>7, JoinJoin
  <2> QED BY <2>8 DEF a, Follows, l
<1>10. n \in Second
  <2> HIDE DEF Second
  <2> QED BY <1>1, <1>8, <1>9, Induction
<1>11. Follows(n)
  <2> HIDE DEF Follows
  <2> QED BY <1>1, <1>10
<1> QED BY <1>2, <1>3, <1>4, <1>11

\* A row of one text, and of nothing behind it.
LEMMA RowOfOne ==
    ASSUME NEW S, NEW p \in Seq(S), NEW f \in [1 .. 4 -> Seq(S)], f[1] = p,
           f[2] = <<>>, f[3] = <<>>, f[4] = <<>>
    PROVE  FlattenSeq(f) = p
<1> DEFINE g(n) == [i \in 1 .. n |-> f[i]]
<1>1. \A n \in 0 .. 4 : g(n) \in [1 .. n -> Seq(S)]
  OBVIOUS
<1>2. \A n \in 0 .. 3 : \A i \in 1 .. n : g(n + 1)[i] = g(n)[i]
  OBVIOUS
<1>3. \A n \in 0 .. 3 : g(n + 1)[n + 1] = f[n + 1]
  OBVIOUS
<1>4. g(0) = <<>> /\ g(4) = f
  OBVIOUS
<1> HIDE DEF g
<1>5. \A n \in 0 .. 3 : FlattenSeq(g(n + 1)) = FlattenSeq(g(n)) \o f[n + 1]
  <2> SUFFICES ASSUME NEW n \in 0 .. 3 PROVE FlattenSeq(g(n + 1)) = FlattenSeq(g(n)) \o f[n + 1]
    OBVIOUS
  <2>1. n \in Nat /\ n \in 0 .. 4 /\ n + 1 \in 0 .. 4
    OBVIOUS
  <2> DEFINE u == g(n)
             v == g(n + 1)
  <2>2. u \in [1 .. n -> Seq(S)] /\ v \in [1 .. n + 1 -> Seq(S)] /\ \A i \in 1 .. n : v[i] = u[i]
    BY <1>1, <1>2, <2>1
  <2>3. v[n + 1] = f[n + 1]
    BY <1>3
  <2> HIDE DEF u, v
  <2>4. FlattenSeq(v) = FlattenSeq(u) \o v[n + 1]
    BY ONLY <2>1, <2>2, FlattenedOneMore
  <2> QED BY <2>3, <2>4 DEF u, v
<1>6. FlattenSeq(g(0)) = <<>>
  BY <1>4 DEF FlattenSeq
<1>7. <<>> \o p = p /\ p \o <<>> = p
  OBVIOUS
<1>8. FlattenSeq(g(1)) = p
  <2>1. FlattenSeq(g(0 + 1)) = FlattenSeq(g(0)) \o f[0 + 1]
    BY <1>5
  <2> QED BY <1>6, <1>7, <2>1
<1>9. FlattenSeq(g(2)) = p
  <2>1. FlattenSeq(g(1 + 1)) = FlattenSeq(g(1)) \o f[1 + 1]
    BY <1>5
  <2> QED BY <1>7, <1>8, <2>1
<1>10. FlattenSeq(g(3)) = p
  <2>1. FlattenSeq(g(2 + 1)) = FlattenSeq(g(2)) \o f[2 + 1]
    BY <1>5
  <2> QED BY SMTT(30), <1>7, <1>9, <2>1
<1>11. FlattenSeq(g(4)) = p
  <2>1. FlattenSeq(g(3 + 1)) = FlattenSeq(g(3)) \o f[3 + 1]
    BY SMTT(30), <1>5
  <2>2. 3 + 1 = 4 /\ f[4] = <<>>
    OBVIOUS
  <2>3. FlattenSeq(g(4)) = FlattenSeq(g(3)) \o <<>>
    BY ONLY <2>1, <2>2
  <2> QED BY <1>7, <1>10, <2>3
<1> QED BY <1>4, <1>11

\* What begins with a sign that it has nowhere else cannot overlap itself.
Singular(S, old) == old \in Seq(S) /\ Len(old) > 0 /\ \A j \in 2 .. Len(old) : old[j] # old[1]

\* Signs in a row, of which the first is none of the others.
Row4(S, q, a, b, c, d) ==
    /\ q = <<a, b, c, d>> /\ {a, b, c, d} \subseteq S /\ a \notin {b, c, d}
Row5(S, q, a, b, c, d, e) ==
    /\ q = <<a, b, c, d, e>> /\ {a, b, c, d, e} \subseteq S /\ a \notin {b, c, d, e}
Row6(S, q, a, b, c, d, e, f) ==
    /\ q = <<a, b, c, d, e, f>> /\ {a, b, c, d, e, f} \subseteq S /\ a \notin {b, c, d, e, f}

\* Four such signs.
LEMMA SingularFour ==
    ASSUME NEW S, NEW q, NEW a, NEW b, NEW c, NEW d, Row4(S, q, a, b, c, d)
    PROVE  Singular(S, q) /\ q[1] = a
<1>1. q \in Seq(S) /\ Len(q) = 4 /\ q[1] = a /\ q[2] = b /\ q[3] = c /\ q[4] = d
  BY DEF Row4
<1>2. \A j \in 2 .. 4 : j = 2 \/ j = 3 \/ j = 4
  OBVIOUS
<1>3. \A j \in 2 .. 4 : q[j] # q[1]
  BY <1>1, <1>2 DEF Row4
<1> QED BY <1>1, <1>3 DEF Singular

\* Five.
LEMMA SingularFive ==
    ASSUME NEW S, NEW q, NEW a, NEW b, NEW c, NEW d, NEW e, Row5(S, q, a, b, c, d, e)
    PROVE  Singular(S, q) /\ q[1] = a
<1>1. q \in Seq(S) /\ Len(q) = 5 /\ q[1] = a /\ q[2] = b /\ q[3] = c /\ q[4] = d /\ q[5] = e
  BY DEF Row5
<1>2. \A j \in 2 .. 5 : j = 2 \/ j = 3 \/ j = 4 \/ j = 5
  OBVIOUS
<1>3. \A j \in 2 .. 5 : q[j] # q[1]
  BY <1>1, <1>2 DEF Row5
<1> QED BY <1>1, <1>3 DEF Singular

\* Six.
LEMMA SingularSix ==
    ASSUME NEW S, NEW q, NEW a, NEW b, NEW c, NEW d, NEW e, NEW f, Row6(S, q, a, b, c, d, e, f)
    PROVE  Singular(S, q) /\ q[1] = a
<1>1. /\ q \in Seq(S) /\ Len(q) = 6 /\ q[1] = a /\ q[2] = b /\ q[3] = c /\ q[4] = d /\ q[5] = e
      /\ q[6] = f
  BY DEF Row6
<1>2. \A j \in 2 .. 6 : j = 2 \/ j = 3 \/ j = 4 \/ j = 5 \/ j = 6
  OBVIOUS
<1>3. \A j \in 2 .. 6 : q[j] # q[1]
  BY <1>1, <1>2 DEF Row6
<1> QED BY <1>1, <1>3 DEF Singular

\* What is singular in some signs is so in more.
LEMMA MoreSingular ==
    ASSUME NEW S, NEW T, S \subseteq T, NEW old, Singular(S, old)
    PROVE  Singular(T, old)
BY MoreSigns DEF Singular

-------------------------------------------------------------------------------
(* Texts written anew, byte by byte                                         *)

\* A text with F[b] written for each byte b.
Spelled(F, d) == FlattenSeq([i \in DOMAIN d |-> F[d[i]]])

\* Nothing is spelled with nothing.
LEMMA SpelledEmpty == ASSUME NEW F PROVE Spelled(F, <<>>) = <<>>
<1>1. [i \in DOMAIN <<>> |-> F[<<>>[i]]] = <<>>
  OBVIOUS
<1>2. FlattenSeq(<<>>) = <<>>
  BY DEF FlattenSeq
<1> QED BY <1>1, <1>2 DEF Spelled

\* One byte more is spelled behind the rest.
LEMMA SpelledAppend ==
    ASSUME NEW S, NEW F \in [S -> Seq(S)], NEW d \in Seq(S), NEW x \in S
    PROVE  /\ Spelled(F, d) \in Seq(S)
           /\ Spelled(F, Append(d, x)) = Spelled(F, d) \o F[x]
<1> DEFINE n == Len(d)
           e == Append(d, x)
           f == [i \in DOMAIN d |-> F[d[i]]]
           h == [i \in DOMAIN e |-> F[e[i]]]
<1>1. n \in Nat /\ DOMAIN d = 1 .. n /\ \A i \in 1 .. n : d[i] \in S
  BY SeqIs
<1>2. DOMAIN e = 1 .. n + 1 /\ e[n + 1] = x /\ \A i \in 1 .. n : e[i] = d[i]
  OBVIOUS
<1>3. \A i \in 1 .. n + 1 : e[i] \in S
  <2>1. e \in Seq(S)
    OBVIOUS
  <2> HIDE DEF e
  <2> QED BY <1>2, <2>1, SeqIs
<1> HIDE DEF n, e
<1>4. f \in [1 .. n -> Seq(S)] /\ h \in [1 .. n + 1 -> Seq(S)]
  BY <1>1, <1>2, <1>3
<1>5. \A i \in 1 .. n : h[i] = f[i]
  BY <1>1, <1>2
<1>6. h[n + 1] = F[x]
  BY <1>1, <1>2
<1>7. Spelled(F, d) = FlattenSeq(f) /\ Spelled(F, e) = FlattenSeq(h)
  BY DEF Spelled
<1> HIDE DEF f, h
<1>8. FlattenSeq(h) = FlattenSeq(f) \o h[n + 1]
  BY <1>1, <1>4, <1>5, FlattenedOneMore
<1>9. FlattenSeq(f) \in Seq(S)
  BY <1>1, <1>4, Flattened
<1> QED BY <1>6, <1>7, <1>8, <1>9 DEF e

\* What is spelled is a text again.
LEMMA SpelledIs ==
    ASSUME NEW S, NEW F \in [S -> Seq(S)], NEW d \in Seq(S)
    PROVE  Spelled(F, d) \in Seq(S)
<1> DEFINE f == [i \in DOMAIN d |-> F[d[i]]]
           n == Len(d)
<1>1. n \in Nat /\ DOMAIN d = 1 .. n /\ \A i \in 1 .. n : d[i] \in S
  BY SeqIs
<1> HIDE DEF n
<1>2. f \in [1 .. n -> Seq(S)]
  BY <1>1
<1>3. Spelled(F, d) = FlattenSeq(f)
  BY DEF Spelled
<1> HIDE DEF f
<1> QED BY <1>1, <1>2, <1>3, Flattened

\* Two texts are spelled one after the other.
LEMMA SpelledJoin ==
    ASSUME NEW S, NEW F \in [S -> Seq(S)], NEW d \in Seq(S), NEW e \in Seq(S)
    PROVE  Spelled(F, d \o e) = Spelled(F, d) \o Spelled(F, e)
<1> DEFINE G == {s \in Seq(S) : Spelled(F, d \o s) = Spelled(F, d) \o Spelled(F, s)}
<1>1. <<>> \in G
  <2>1. d \o <<>> = d /\ <<>> \in Seq(S)
    OBVIOUS
  <2>2. Spelled(F, d) \o <<>> = Spelled(F, d)
    BY SpelledIs
  <2> QED BY <2>1, <2>2, SpelledEmpty
<1>2. ASSUME NEW s \in Seq(S), NEW x \in S, s \in G PROVE Append(s, x) \in G
  <2>1. d \o Append(s, x) = Append(d \o s, x) /\ d \o s \in Seq(S) /\ Append(s, x) \in Seq(S)
    <3>1. d \o Append(s, x) = Append(d \o s, x)
      <4> DEFINE a == d \o Append(s, x)
                 b == Append(d \o s, x)
                 n == Len(d) + Len(s) + 1
      <4>1. a \in Seq(S) /\ b \in Seq(S) /\ Len(a) = n /\ Len(b) = n
        OBVIOUS
      <4>2. \A i \in 1 .. n : a[i] = b[i]
        OBVIOUS
      <4> HIDE DEF a, b, n
      <4>3. a = b
        BY <4>1, <4>2
      <4> QED BY <4>3 DEF a, b
    <3> QED BY <3>1
  <2>2. Spelled(F, Append(d \o s, x)) = Spelled(F, d \o s) \o F[x]
    BY <2>1, SpelledAppend
  <2>3. Spelled(F, Append(s, x)) = Spelled(F, s) \o F[x]
    BY SpelledAppend
  <2>4. Spelled(F, d) \in Seq(S) /\ Spelled(F, s) \in Seq(S) /\ F[x] \in Seq(S)
    BY SpelledIs
  <2>5. (Spelled(F, d) \o Spelled(F, s)) \o F[x] = Spelled(F, d) \o (Spelled(F, s) \o F[x])
    <3> DEFINE a == Spelled(F, d)
               b == Spelled(F, s)
               c == F[x]
    <3>1. Three(S, a, b, c)
      BY <2>4 DEF Three
    <3> HIDE DEF a, b, c
    <3>2. (a \o b) \o c = a \o (b \o c)
      BY SMTT(30), <3>1, JoinJoin
    <3> QED BY <3>2 DEF a, b, c
  <2> QED BY <1>2, <2>1, <2>2, <2>3, <2>5
<1>3. \A s \in Seq(S) : s \in G
  <2> HIDE DEF G
  <2> QED BY <1>1, <1>2, SequenceInduction
<1> QED BY <1>3

\* What is spelled can be spelled once more at once.
Twice(S, F, E, H) ==
    /\ F \in [S -> Seq(S)] /\ E \in [S -> Seq(S)] /\ H \in [S -> Seq(S)]
    /\ \A x \in S : Spelled(E, F[x]) = H[x]

\* Spelling what was spelled is spelling once, with both in one.
LEMMA SpelledTwice ==
    ASSUME NEW S, NEW F, NEW E, NEW H, Twice(S, F, E, H), NEW d \in Seq(S)
    PROVE  Spelled(E, Spelled(F, d)) = Spelled(H, d)
<1>0. /\ F \in [S -> Seq(S)] /\ E \in [S -> Seq(S)] /\ H \in [S -> Seq(S)]
      /\ \A x \in S : Spelled(E, F[x]) = H[x]
  BY DEF Twice
<1> DEFINE G == {s \in Seq(S) : Spelled(E, Spelled(F, s)) = Spelled(H, s)}
<1>1. <<>> \in G
  BY SpelledEmpty
<1>2. ASSUME NEW s \in Seq(S), NEW x \in S, s \in G PROVE Append(s, x) \in G
  <2>1. /\ Spelled(F, Append(s, x)) = Spelled(F, s) \o F[x]
        /\ Spelled(H, Append(s, x)) = Spelled(H, s) \o H[x]
    <3>0. s \in Seq(S) /\ x \in S /\ F \in [S -> Seq(S)] /\ H \in [S -> Seq(S)]
      BY <1>0
    <3>1. Spelled(F, s) \in Seq(S) /\ Spelled(F, Append(s, x)) = Spelled(F, s) \o F[x]
      BY ONLY <3>0, SpelledAppend
    <3>2. Spelled(H, s) \in Seq(S) /\ Spelled(H, Append(s, x)) = Spelled(H, s) \o H[x]
      BY ONLY <3>0, SpelledAppend
    <3> QED BY <3>1, <3>2
  <2>2. Spelled(F, s) \in Seq(S) /\ F[x] \in Seq(S)
    <3>0. s \in Seq(S) /\ F \in [S -> Seq(S)]
      BY <1>0
    <3>1. Spelled(F, s) \in Seq(S)
      BY ONLY <3>0, SpelledIs
    <3> QED BY <1>0, <3>1
  <2>3. Spelled(E, Spelled(F, s) \o F[x]) = Spelled(E, Spelled(F, s)) \o Spelled(E, F[x])
    <3>1. E \in [S -> Seq(S)]
      BY <1>0
    <3> QED BY ONLY <2>2, <3>1, SpelledJoin
  <2>4. Append(s, x) \in Seq(S)
    OBVIOUS
  <2> QED BY <1>0, <1>2, <2>1, <2>3, <2>4
<1>3. \A s \in Seq(S) : s \in G
  <2> HIDE DEF G
  <2> QED BY <1>1, <1>2, SequenceInduction
<1> QED BY <1>3

\* The length of what is spelled, with k more bytes for some.
Lengthens(S, F, X, k) ==
    /\ F \in [S -> Seq(S)] /\ k \in Nat
    /\ \A x \in S : Len(F[x]) = IF x \in X THEN k + 1 ELSE 1

\* Each of those adds k.
LEMMA SpelledLength ==
    ASSUME NEW S, NEW F, NEW X, NEW k, Lengthens(S, F, X, k), NEW d \in Seq(S)
    PROVE  /\ Cardinality({i \in 1 .. Len(d) : d[i] \in X}) \in Nat
           /\ Len(Spelled(F, d)) = Len(d) + k * Cardinality({i \in 1 .. Len(d) : d[i] \in X})
<1>0. /\ F \in [S -> Seq(S)] /\ k \in Nat
      /\ \A x \in S : Len(F[x]) = IF x \in X THEN k + 1 ELSE 1
  BY DEF Lengthens
<1> DEFINE At(s) == {i \in 1 .. Len(s) : s[i] \in X}
           G == {s \in Seq(S) : /\ IsFiniteSet(At(s)) /\ Cardinality(At(s)) \in Nat
                                /\ Len(Spelled(F, s)) = Len(s) + k * Cardinality(At(s))}
<1>1. <<>> \in G
  <2>1. At(<<>>) = {}
    OBVIOUS
  <2>2. IsFiniteSet({}) /\ Cardinality({}) = 0
    BY FS_EmptySet
  <2>3. Len(Spelled(F, <<>>)) = 0 /\ Len(<<>>) = 0 /\ k * 0 = 0
    BY <1>0, SpelledEmpty
  <2>4. <<>> \in Seq(S)
    OBVIOUS
  <2> HIDE DEF At
  <2>5. IsFiniteSet(At(<<>>)) /\ Cardinality(At(<<>>)) = 0
    BY <2>1, <2>2
  <2>6. Len(Spelled(F, <<>>)) = Len(<<>>) + k * Cardinality(At(<<>>))
    <3>1. 0 = 0 + k * 0
      BY <1>0
    <3> QED BY <2>3, <2>5, <3>1
  <2> QED BY <2>4, <2>5, <2>6
<1>2. ASSUME NEW s \in Seq(S), NEW x \in S, s \in G PROVE Append(s, x) \in G
  <2> DEFINE n == Len(s)
             t == Append(s, x)
             c == Cardinality(At(s))
  <2>1. n \in Nat /\ t \in Seq(S) /\ Len(t) = n + 1 /\ t[n + 1] = x /\ \A i \in 1 .. n : t[i] = s[i]
    OBVIOUS
  <2>2. IsFiniteSet(At(s)) /\ c \in Nat /\ Len(Spelled(F, s)) = n + k * c
    BY <1>2
  <2>3. At(s) = {i \in 1 .. n : s[i] \in X} /\ At(t) = {i \in 1 .. n + 1 : t[i] \in X}
    BY <2>1
  <2>4. Len(Spelled(F, t)) = Len(Spelled(F, s)) + Len(F[x])
    <3>0. s \in Seq(S) /\ x \in S /\ F \in [S -> Seq(S)]
      BY <1>0
    <3>1. Spelled(F, s) \in Seq(S) /\ Spelled(F, Append(s, x)) = Spelled(F, s) \o F[x]
      BY ONLY <3>0, SpelledAppend
    <3>2. F[x] \in Seq(S)
      BY <1>0
    <3> QED BY <3>1, <3>2
  <2>5. Len(F[x]) = IF x \in X THEN k + 1 ELSE 1
    BY <1>0
  <2> HIDE DEF At, n, t
  <2>6. CASE x \in X
    <3>1. At(t) = At(s) \cup {n + 1} /\ n + 1 \notin At(s)
      <4>1. \A i \in 1 .. n + 1 : i \in 1 .. n \/ i = n + 1
        BY <2>1
      <4>2. \A i \in 1 .. n : i \in 1 .. n + 1 /\ i # n + 1
        BY <2>1
      <4>3. n + 1 \in 1 .. n + 1
        BY <2>1
      <4>4. \A i \in 1 .. n : t[i] \in X <=> s[i] \in X
        BY <2>1
      <4>5. t[n + 1] \in X
        BY <2>1, <2>6
      <4> DEFINE y == n + 1
      <4>6. /\ \A i \in 1 .. y : i \in 1 .. n \/ i = y
            /\ \A i \in 1 .. n : i \in 1 .. y /\ i # y
            /\ y \in 1 .. y /\ t[y] \in X /\ At(t) = {i \in 1 .. y : t[i] \in X}
        BY <2>3, <4>1, <4>2, <4>3, <4>5
      <4> HIDE DEF y
      <4>7. At(t) = At(s) \cup {y} /\ y \notin At(s)
        BY <2>3, <4>4, <4>6
      <4> QED BY <4>7 DEF y
    <3> DEFINE a == At(s)
               y == n + 1
    <3>2. IsFiniteSet(a) /\ At(t) = a \cup {y} /\ y \notin a /\ c = Cardinality(a)
      BY <2>2, <3>1
    <3> HIDE DEF a, c, y
    <3>3. IsFiniteSet(a \cup {y}) /\ Cardinality(a \cup {y}) = IF y \in a THEN Cardinality(a) ELSE Cardinality(a) + 1
      BY <3>2, FS_AddElement
    <3>4. IsFiniteSet(At(t)) /\ Cardinality(At(t)) = c + 1
      BY <3>2, <3>3
    <3>5. k * (c + 1) = k * c + k /\ k * c \in Nat /\ c \in Nat
      BY <1>0, <2>2 DEF c
    <3>6. Len(Spelled(F, s)) = n + k * c
      BY <2>2 DEF c
    <3>7. Len(Spelled(F, t)) = Len(t) + k * Cardinality(At(t))
      <4> HIDE DEF c
      <4> QED BY <1>0, <2>1, <2>4, <2>5, <2>6, <3>4, <3>5, <3>6
    <3> QED BY <2>1, <3>4, <3>5, <3>7 DEF t
  <2>7. CASE x \notin X
    <3>1. At(t) = At(s)
      <4>1. \A i \in 1 .. n + 1 : i \in 1 .. n \/ i = n + 1
        BY <2>1
      <4>2. \A i \in 1 .. n : i \in 1 .. n + 1 /\ i # n + 1
        BY <2>1
      <4> QED BY <2>1, <2>3, <2>7, <4>1, <4>2
    <3> HIDE DEF c
    <3>2. k * c \in Nat
      BY <1>0, <2>2
    <3> QED BY SMTT(30), <1>0, <2>1, <2>2, <2>4, <2>5, <2>7, <3>1, <3>2 DEF c, t
  <2> QED BY <2>6, <2>7
<1>3. \A s \in Seq(S) : s \in G
  <2> HIDE DEF G
  <2> QED BY <1>1, <1>2, SequenceInduction
<1> QED BY <1>3

===============================================================================
