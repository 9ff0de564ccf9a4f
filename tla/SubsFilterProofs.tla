-------------------------- MODULE SubsFilterProofs --------------------------
(***************************************************************************)
(* Proofs about the substitution filter, for all pairs, bodies and chains: *)
(* it keeps apart the buffers it may use again and those that are not yet  *)
(* sent, fills none past its end, asks for more time exactly while it      *)
(* holds back bytes, and announces no length that the body does not have.  *)
(***************************************************************************)
EXTENDS SubsFilter, SequenceLemmas, SequenceTheorems

-------------------------------------------------------------------------------
(* What the loops compute                                                   *)

\* What is put in the place of a match, from what is put there byte by byte.
LEMMA FilledSteps ==
    ASSUME NEW sub \in Seq(Byte \cup {Quote}), NEW match \in Seq(Byte)
    PROVE  \E r \in [0 .. Len(sub) -> Seq(Byte)] :
             /\ r[0] = <<>> /\ Filled(sub, match) = r[Len(sub)]
             /\ \A m \in 1 .. Len(sub) :
                  r[m] = IF sub[m] = Quote THEN r[m - 1] \o match ELSE Append(r[m - 1], sub[m])
<1> DEFINE T == Seq(Byte)
           n == Len(sub)
           Put(t, b) == IF b = Quote THEN t \o match ELSE Append(t, b)
           F(it) == [s \in SUBSET DOMAIN sub |->
                       IF s = {} THEN <<>> ELSE Put(it[s \ {Max(s)}], sub[Max(s)])]
           step == [p \in T \X (1 .. n) |-> Put(p[1], sub[p[2]])]
<1>1. n \in Nat /\ DOMAIN sub = 1 .. n /\ <<>> \in T
  OBVIOUS
<1>2. ASSUME NEW t \in T, NEW i \in 1 .. n PROVE Put(t, sub[i]) \in T
  <2>1. sub[i] \in Byte \cup {Quote}
    OBVIOUS
  <2> QED BY <2>1
<1>3. step \in Steps(T, n)
  <2> HIDE DEF Put, T, n
  <2> QED BY <1>2 DEF Steps
<1>4. Filled(sub, match) = (CHOOSE it : it = F(it))[DOMAIN sub]
  BY Zenon DEF Filled, FoldLeft, MapThenFoldSet
<1>5. \E it : it = F(it)
  <2> HIDE DEF step, n, T
  <2>1. PICK it : Unrolled(it, T, <<>>, n, step)
    BY <1>1, <1>3, FoldExists
  <2> HIDE DEF Put
  <2>2. ASSUME NEW s \in SUBSET (1 .. n)
        PROVE  it[s] = IF s = {} THEN <<>> ELSE Put(it[s \ {Max(s)}], sub[Max(s)])
    <3>1. CASE s = {}
      BY <2>1, <3>1 DEF FoldAt, Unrolled
    <3>2. CASE s # {}
      <4>1. it[s \ {Max(s)}] \in T /\ Max(s) \in 1 .. n
        BY <1>1, <2>1, <3>2, MaxIndex DEF Unrolled
      <4>2. it[s] = step[<<it[s \ {Max(s)}], Max(s)>>]
        BY <2>1, <3>2 DEF FoldAt, Unrolled
      <4> QED BY <3>2, <4>1, <4>2 DEF step
    <3> QED BY <3>1, <3>2
  <2>3. it = F(it)
    BY <1>1, <2>1, <2>2 DEF Unrolled
  <2> HIDE DEF F
  <2> QED BY <2>3
<1>6. PICK it : it = F(it) /\ Filled(sub, match) = it[DOMAIN sub]
  <2> HIDE DEF F
  <2> QED BY <1>4, <1>5, Zenon
<1> HIDE DEF Put, T, n
<1>7. Unrolls(it, T, <<>>, n, step)
  <2>1. it[{}] = <<>>
    BY <1>6
  <2>2. ASSUME NEW s \in SUBSET (1 .. n), s # {}, it[s \ {Max(s)}] \in T
        PROVE  it[s] = step[<<it[s \ {Max(s)}], Max(s)>>]
    <3>1. it[s] = Put(it[s \ {Max(s)}], sub[Max(s)]) /\ Max(s) \in 1 .. n
      BY <1>1, <1>6, <2>2, MaxIndex
    <3> QED BY <2>2, <3>1
  <2> HIDE DEF step, F
  <2> QED BY <2>1, <2>2 DEF Unrolls
<1> HIDE DEF F, step
<1>8. Sums(it, T, <<>>, n, step)
  BY <1>1, <1>3, <1>7, FoldSteps
<1>9. PICK r : Accumulates(r, T, <<>>, n, step) /\ Filled(sub, match) = r[n]
  BY <1>1, <1>6, <1>8 DEF Sums
<1>10. r \in [0 .. n -> T] /\ r[0] = <<>>
  BY <1>9 DEF Accumulates
<1>11. ASSUME NEW m \in 1 .. n PROVE r[m] = Put(r[m - 1], sub[m])
  <2>1. r[m] = step[<<r[m - 1], m>>] /\ m - 1 \in 0 .. n
    BY <1>1, <1>9 DEF Accumulates
  <2>2. r[m - 1] \in T
    BY <1>10, <2>1
  <2> QED BY <2>1, <2>2 DEF step
<1> QED BY <1>9, <1>10, <1>11 DEF T, n, Put

\* What is put in the place of a match is a text.
LEMMA FilledType ==
    ASSUME NEW sub \in Seq(Byte \cup {Quote}), NEW match \in Seq(Byte)
    PROVE  Filled(sub, match) \in Seq(Byte)
<1>1. PICK r \in [0 .. Len(sub) -> Seq(Byte)] : Filled(sub, match) = r[Len(sub)]
  BY FilledSteps
<1>2. Len(sub) \in 0 .. Len(sub)
  OBVIOUS
<1> QED BY <1>1, <1>2

\* Where a match begins, and which of the texts of the pair it is.
LEMMA FoundAt ==
    ASSUME NEW l \in Seq(Byte), NEW pair \in Pair, NEW in \in Found(l, pair)
    PROVE  in[1] \in 1 .. Len(l) /\ in[2] \in DOMAIN pair.match
<1>1. pair.match \in Seq(Seq(Byte)) /\ pair.match # <<>>
  BY DEF Pair
<1>2. CASE pair.regex
  <2>1. in \in (DOMAIN l) \X (DOMAIN pair.match)
    BY <1>2 DEF Found, RegexExec
  <2>2. in[1] \in DOMAIN l /\ in[2] \in DOMAIN pair.match
    BY <2>1
  <2>3. DOMAIN l = 1 .. Len(l)
    OBVIOUS
  <2> QED BY <2>2, <2>3
<1>3. CASE ~ pair.regex
  <2> DEFINE word == pair.match[1]
             at == {i \in 1 .. Len(l) - Len(word) + 1 : IsPrefix(word, SubSeq(l, i, Len(l)))}
  <2>1. in = <<Memmem(l, word), 1>> /\ Memmem(l, word) # 0
    BY <1>3 DEF Found
  <2>2. Memmem(l, word) = IF word = <<>> \/ at = {} THEN 0 ELSE Min(at)
    BY DEF Memmem
  <2>3. 1 \in DOMAIN pair.match /\ word \in Seq(Byte)
    BY <1>1
  <2>4. word # <<>>
    BY <2>1, <2>2
  <2> HIDE DEF word
  <2>5. at \in SUBSET (1 .. Len(l))
    <3>1. Len(word) \in Nat \ {0} /\ Len(l) \in Nat
      BY <2>3, <2>4
    <3> QED BY <3>1
  <2>6. at \in SUBSET Nat
    BY <2>5
  <2> HIDE DEF at
  <2>7. Memmem(l, word) \in at
    BY <2>1, <2>2, <2>6, MinIn
  <2> QED BY <2>1, <2>3, <2>5, <2>7
<1> QED BY <1>2, <1>3

\* What a turn of the loop over the matches in a line leads from and to.
Turn == [src : Seq(Byte), dst : Seq(Byte), matched : BOOLEAN, count : Nat, spins : BOOLEAN]

\* A step of the search for a pair keeps the types of the turn.
LEMMA TurnType ==
    ASSUME NEW s \in Turn, NEW pair \in Pair
    PROVE  MatchStep(s, pair) \in Turn
<1> DEFINE found == Found(s.src, pair)
           in == CHOOSE in \in found : TRUE
           match == pair.match[in[2]]
           src == Behind(s.src, in[1], match)
           dst == s.dst \o SubSeq(s.src, 1, in[1] - 1) \o Filled(pair.sub, match)
           next == [src |-> src, dst |-> dst, matched |-> TRUE, count |-> s.count + 1,
                    spins |-> src = s.src /\ ~ pair.once]
<1>1. MatchStep(s, pair) = IF (pair.once /\ s.matched) \/ s.spins \/ found = {} THEN s ELSE next
  BY DEF MatchStep
<1>2. ASSUME found # {} PROVE next \in Turn
  <2>1. /\ s.src \in Seq(Byte) /\ s.dst \in Seq(Byte) /\ s.count \in Nat
        /\ pair.match \in Seq(Seq(Byte)) /\ pair.sub \in Seq(Byte \cup {Quote})
    BY DEF Turn, Pair
  <2>2. in \in found
    BY <1>2
  <2> HIDE DEF in
  <2>3. in[1] \in 1 .. Len(s.src) /\ in[2] \in DOMAIN pair.match
    BY <2>1, <2>2, FoundAt
  <2>4. match \in Seq(Byte)
    BY <2>1, <2>3
  <2> HIDE DEF match, found
  <2>5. src \in Seq(Byte)
    <3>1. Len(match) \in Nat /\ Len(s.src) \in Nat
      BY <2>1, <2>4
    <3>2. \A i \in in[1] + Len(match) .. Len(s.src) : s.src[i] \in Byte
      BY <2>1, <2>3, <3>1
    <3> QED BY <2>3, <3>1, <3>2, SubSeqProperties DEF Behind
  <2>6. dst \in Seq(Byte)
    <3>1. SubSeq(s.src, 1, in[1] - 1) \in Seq(Byte)
      <4>1. \A i \in 1 .. in[1] - 1 : s.src[i] \in Byte
        BY <2>1, <2>3
      <4> QED BY <2>3, <4>1, SubSeqProperties
    <3>2. Filled(pair.sub, match) \in Seq(Byte)
      BY <2>1, <2>4, FilledType
    <3> QED BY <2>1, <3>1, <3>2
  <2> HIDE DEF src, dst
  <2>7. s.count + 1 \in Nat /\ (src = s.src /\ ~ pair.once) \in BOOLEAN
    BY <2>1
  <2> QED BY <2>5, <2>6, <2>7 DEF Turn
<1> HIDE DEF next, found
<1> QED BY <1>1, <1>2

\* What the loop makes of a line, turn by turn.
LEMMA SubstitutionSteps ==
    ASSUME NEW line \in Seq(Byte), NEW pair \in Pair, NEW already \in BOOLEAN
    PROVE  \E r \in [0 .. Len(line) -> Turn] :
             /\ r[0] = [src |-> line, dst |-> <<>>, matched |-> already, count |-> 0,
                        spins |-> FALSE]
             /\ Substitution(line, pair, already) = r[Len(line)]
             /\ \A m \in 1 .. Len(line) : r[m] = MatchStep(r[m - 1], pair)
<1> DEFINE base == [src |-> line, dst |-> <<>>, matched |-> already, count |-> 0, spins |-> FALSE]
<1> DEFINE T == Turn
           n == Len(line)
           Put(d, i) == MatchStep(d, pair)
           at == [j \in DOMAIN line |-> j]
           F(it) == [s \in SUBSET DOMAIN at |->
                       IF s = {} THEN base ELSE Put(it[s \ {Max(s)}], at[Max(s)])]
           step == [p \in T \X (1 .. n) |-> Put(p[1], p[2])]
<1>1. n \in Nat /\ DOMAIN at = 1 .. n /\ DOMAIN line = 1 .. n /\ base \in T
  BY DEF Turn
<1>2. ASSUME NEW d \in T, NEW i \in 1 .. n PROVE Put(d, i) \in T
  BY TurnType
<1>3. step \in Steps(T, n)
  <2> HIDE DEF Put, T, n
  <2> QED BY <1>2 DEF Steps
<1>4. Substitution(line, pair, already) = (CHOOSE it : it = F(it))[DOMAIN at]
  BY Zenon DEF Substitution, FoldLeftDomain, FoldLeft, MapThenFoldSet
<1>5. \A i \in 1 .. n : at[i] = i
  <2> HIDE DEF n
  <2> QED BY <1>1
<1> HIDE DEF T, n, at, base
<1>6. \E it : it = F(it)
  <2> HIDE DEF step
  <2>1. PICK it : Unrolled(it, T, base, n, step)
    BY <1>1, <1>3, FoldExists
  <2> HIDE DEF Put
  <2>2. ASSUME NEW s \in SUBSET (1 .. n)
        PROVE  it[s] = IF s = {} THEN base ELSE Put(it[s \ {Max(s)}], at[Max(s)])
    <3>1. CASE s = {}
      BY <2>1, <3>1 DEF FoldAt, Unrolled
    <3>2. CASE s # {}
      <4>1. it[s \ {Max(s)}] \in T /\ Max(s) \in 1 .. n
        BY <1>1, <2>1, <3>2, MaxIndex DEF Unrolled
      <4>2. it[s] = step[<<it[s \ {Max(s)}], Max(s)>>]
        BY <2>1, <3>2 DEF FoldAt, Unrolled
      <4> QED BY <1>5, <3>2, <4>1, <4>2 DEF step
    <3> QED BY <3>1, <3>2
  <2>3. it = F(it)
    BY <1>1, <2>1, <2>2 DEF Unrolled
  <2> HIDE DEF F
  <2> QED BY <2>3
<1>7. PICK it : it = F(it) /\ Substitution(line, pair, already) = it[DOMAIN at]
  <2> HIDE DEF F
  <2> QED BY <1>4, <1>6, Zenon
<1> HIDE DEF Put
<1>8. Unrolls(it, T, base, n, step)
  <2>1. it[{}] = base
    BY <1>7
  <2>2. ASSUME NEW s \in SUBSET (1 .. n), s # {}, it[s \ {Max(s)}] \in T
        PROVE  it[s] = step[<<it[s \ {Max(s)}], Max(s)>>]
    <3>1. it[s] = Put(it[s \ {Max(s)}], at[Max(s)]) /\ Max(s) \in 1 .. n
      BY <1>1, <1>7, <2>2, MaxIndex
    <3> QED BY <1>5, <2>2, <3>1
  <2> HIDE DEF step, F
  <2> QED BY <2>1, <2>2 DEF Unrolls
<1>9. Sums(it, T, base, n, step)
  <2> HIDE DEF F, step
  <2> QED BY <1>1, <1>3, <1>8, FoldSteps
<1> HIDE DEF F
<1>10. PICK r : Accumulates(r, T, base, n, step) /\ Substitution(line, pair, already) = r[n]
  <2> HIDE DEF step
  <2> QED BY <1>1, <1>7, <1>9 DEF Sums
<1>11. r \in [0 .. n -> T] /\ r[0] = base
  <2> HIDE DEF step
  <2> QED BY <1>10 DEF Accumulates
<1>12. ASSUME NEW m \in 1 .. n PROVE r[m] = MatchStep(r[m - 1], pair)
  <2>1. r[m] = step[<<r[m - 1], m>>] /\ m - 1 \in 0 .. n
    <3> HIDE DEF step
    <3> QED BY <1>1, <1>10 DEF Accumulates
  <2>2. r[m - 1] \in T
    BY <1>11, <2>1
  <2> QED BY <2>1, <2>2 DEF Put
<1> QED BY <1>10, <1>11, <1>12 DEF T, n, base

\* What the loop makes of a line.
LEMMA SubstitutionType ==
    ASSUME NEW line \in Seq(Byte), NEW pair \in Pair, NEW already \in BOOLEAN
    PROVE  Substitution(line, pair, already) \in Turn
<1>1. PICK r \in [0 .. Len(line) -> Turn] : Substitution(line, pair, already) = r[Len(line)]
  BY SubstitutionSteps
<1>2. Len(line) \in 0 .. Len(line)
  OBVIOUS
<1> QED BY <1>1, <1>2

\* What one pair leads to from what the pair before it made of the line.
Passing == [src : Seq(Byte), dst : Seq(Byte), matched : [DOMAIN response.pairs -> BOOLEAN],
            spins : BOOLEAN]

\* The search for the i-th pair keeps the types of the pass.
LEMMA PairType ==
    ASSUME response.pairs \in Seq(Pair), NEW s \in Passing, NEW i \in DOMAIN response.pairs
    PROVE  MatchPair(s, i) \in Passing
<1> DEFINE pair == response.pairs[i]
           src == IF s.dst # <<>> THEN s.dst ELSE s.src
           done == Substitution(src, pair, s.matched[i])
           left == [s EXCEPT !.src = src, !.dst = <<>>]
           changed == [src |-> <<>>, dst |-> done.dst \o done.src,
                       matched |-> [s.matched EXCEPT ![i] = TRUE],
                       spins |-> s.spins \/ done.spins]
<1>1. pair \in Pair /\ src \in Seq(Byte) /\ s.matched[i] \in BOOLEAN
  BY DEF Passing
<1>2. done \in Turn
  <2> HIDE DEF pair, src
  <2> QED BY <1>1, SubstitutionType
<1>3. MatchPair(s, i) = IF \/ ~ pair.regex /\ Len(src) < Len(pair.match[1])
                           \/ pair.once /\ s.matched[i]
                           \/ done.count = 0
                        THEN left ELSE changed
  BY DEF MatchPair
<1> HIDE DEF done, pair, src
<1>4. left \in Passing
  <2> DEFINE none == <<>>
  <2>1. none \in Seq(Byte)
    OBVIOUS
  <2> HIDE DEF none
  <2>2. [s EXCEPT !.src = src, !.dst = none] \in Passing
    BY <1>1, <2>1 DEF Passing
  <2> QED BY <2>2 DEF none
<1>5. changed \in Passing
  <2>1. done.dst \o done.src \in Seq(Byte) /\ done.spins \in BOOLEAN
    BY <1>2 DEF Turn
  <2>2. [s.matched EXCEPT ![i] = TRUE] \in [DOMAIN response.pairs -> BOOLEAN]
    BY DEF Passing
  <2>3. (s.spins \/ done.spins) \in BOOLEAN
    OBVIOUS
  <2> QED BY <2>1, <2>2, <2>3 DEF Passing
<1> HIDE DEF left, changed
<1> QED BY <1>3, <1>4, <1>5

\* The loop over the pairs, pair by pair.
LEMMA PairsSteps ==
    ASSUME response.pairs \in Seq(Pair), NEW base \in Passing
    PROVE  \E r \in [0 .. Len(response.pairs) -> Passing] :
             /\ r[0] = base
             /\ FoldLeftDomain(MatchPair, base, response.pairs) = r[Len(response.pairs)]
             /\ \A m \in 1 .. Len(response.pairs) : r[m] = MatchPair(r[m - 1], m)
<1> DEFINE T == Passing
           n == Len(response.pairs)
           Put(d, i) == MatchPair(d, i)
           at == [j \in DOMAIN response.pairs |-> j]
           F(it) == [s \in SUBSET DOMAIN at |->
                       IF s = {} THEN base ELSE Put(it[s \ {Max(s)}], at[Max(s)])]
           step == [p \in T \X (1 .. n) |-> Put(p[1], p[2])]
<1>1. n \in Nat /\ DOMAIN at = 1 .. n /\ DOMAIN response.pairs = 1 .. n /\ base \in T
  OBVIOUS
<1>2. ASSUME NEW d \in T, NEW i \in 1 .. n PROVE Put(d, i) \in T
  BY PairType
<1>3. step \in Steps(T, n)
  <2> HIDE DEF Put, T, n
  <2> QED BY <1>2 DEF Steps
<1>4. FoldLeftDomain(MatchPair, base, response.pairs) = (CHOOSE it : it = F(it))[DOMAIN at]
  BY Zenon DEF FoldLeftDomain, FoldLeft, MapThenFoldSet
<1>5. \A i \in 1 .. n : at[i] = i
  <2> HIDE DEF n
  <2> QED BY <1>1
<1> HIDE DEF T, n, at
<1>6. \E it : it = F(it)
  <2> HIDE DEF step
  <2>1. PICK it : Unrolled(it, T, base, n, step)
    BY <1>1, <1>3, FoldExists
  <2> HIDE DEF Put
  <2>2. ASSUME NEW s \in SUBSET (1 .. n)
        PROVE  it[s] = IF s = {} THEN base ELSE Put(it[s \ {Max(s)}], at[Max(s)])
    <3>1. CASE s = {}
      BY <2>1, <3>1 DEF FoldAt, Unrolled
    <3>2. CASE s # {}
      <4>1. it[s \ {Max(s)}] \in T /\ Max(s) \in 1 .. n
        BY <1>1, <2>1, <3>2, MaxIndex DEF Unrolled
      <4>2. it[s] = step[<<it[s \ {Max(s)}], Max(s)>>]
        BY <2>1, <3>2 DEF FoldAt, Unrolled
      <4> QED BY <1>5, <3>2, <4>1, <4>2 DEF step
    <3> QED BY <3>1, <3>2
  <2>3. it = F(it)
    BY <1>1, <2>1, <2>2 DEF Unrolled
  <2> HIDE DEF F
  <2> QED BY <2>3
<1>7. PICK it : it = F(it) /\ FoldLeftDomain(MatchPair, base, response.pairs) = it[DOMAIN at]
  <2> HIDE DEF F
  <2> QED BY <1>4, <1>6, Zenon
<1> HIDE DEF Put
<1>8. Unrolls(it, T, base, n, step)
  <2>1. it[{}] = base
    BY <1>7
  <2>2. ASSUME NEW s \in SUBSET (1 .. n), s # {}, it[s \ {Max(s)}] \in T
        PROVE  it[s] = step[<<it[s \ {Max(s)}], Max(s)>>]
    <3>1. it[s] = Put(it[s \ {Max(s)}], at[Max(s)]) /\ Max(s) \in 1 .. n
      BY <1>1, <1>7, <2>2, MaxIndex
    <3> QED BY <1>5, <2>2, <3>1
  <2> HIDE DEF step, F
  <2> QED BY <2>1, <2>2 DEF Unrolls
<1>9. Sums(it, T, base, n, step)
  <2> HIDE DEF F, step
  <2> QED BY <1>1, <1>3, <1>8, FoldSteps
<1> HIDE DEF F
<1>10. PICK r : Accumulates(r, T, base, n, step) /\ FoldLeftDomain(MatchPair, base, response.pairs) = r[n]
  <2> HIDE DEF step
  <2> QED BY <1>1, <1>7, <1>9 DEF Sums
<1>11. r \in [0 .. n -> T] /\ r[0] = base
  <2> HIDE DEF step
  <2> QED BY <1>10 DEF Accumulates
<1>12. ASSUME NEW m \in 1 .. n PROVE r[m] = MatchPair(r[m - 1], m)
  <2>1. r[m] = step[<<r[m - 1], m>>] /\ m - 1 \in 0 .. n
    <3> HIDE DEF step
    <3> QED BY <1>1, <1>10 DEF Accumulates
  <2>2. r[m - 1] \in T
    BY <1>11, <2>1
  <2> QED BY <2>1, <2>2 DEF Put
<1> QED BY <1>10, <1>11, <1>12 DEF T, n

\* The loop over the pairs.
LEMMA PairsType ==
    ASSUME response.pairs \in Seq(Pair), NEW base \in Passing
    PROVE  FoldLeftDomain(MatchPair, base, response.pairs) \in Passing
<1>1. PICK r \in [0 .. Len(response.pairs) -> Passing] :
        FoldLeftDomain(MatchPair, base, response.pairs) = r[Len(response.pairs)]
  BY PairsSteps
<1>2. Len(response.pairs) \in 0 .. Len(response.pairs)
  OBVIOUS
<1> QED BY <1>1, <1>2

\* What is gathered from a chain: the line begun, and the output.
Gathered == [line : Seq(Byte), matched : [DOMAIN response.pairs -> BOOLEAN], out : Seq(Byte),
             spins : BOOLEAN]

\* After a line has been matched, none is begun.
LEMMA MatchType ==
    ASSUME response.pairs \in Seq(Pair), NEW c \in Gathered
    PROVE  Match(c) \in Gathered /\ Match(c).line = <<>>
<1> DEFINE base == [src |-> c.line, dst |-> <<>>, matched |-> c.matched, spins |-> c.spins]
           m == FoldLeftDomain(MatchPair, base, response.pairs)
<1>1. base \in Passing
  BY DEF Passing, Gathered
<1>2. m \in Passing
  <2> HIDE DEF base
  <2> QED BY <1>1, PairsType
<1>3. Match(c) = [line |-> <<>>, matched |-> m.matched, spins |-> m.spins,
                  out |-> c.out \o (IF m.dst = <<>> THEN m.src ELSE m.dst)]
  BY DEF Match
<1> HIDE DEF m
<1>4. c.out \o (IF m.dst = <<>> THEN m.src ELSE m.dst) \in Seq(Byte)
  BY <1>2 DEF Passing, Gathered
<1>5. <<>> \in Seq(Byte) /\ m.matched \in [DOMAIN response.pairs -> BOOLEAN] /\ m.spins \in BOOLEAN
  BY <1>2 DEF Passing
<1> QED BY <1>3, <1>4, <1>5 DEF Gathered

\* One byte of a buffer: it lengthens the line, and may end it.
Taken(c, text, i, last) ==
    LET e == [c EXCEPT !.line = Append(@, text[i])]
    IN IF EndsLine(text, i, last) THEN Match(e) ELSE e

\* The loop over the bytes of a buffer, byte by byte.
LEMMA BytesSteps ==
    ASSUME response.pairs \in Seq(Pair), NEW c \in Gathered, NEW text \in Seq(Byte),
           NEW last \in BOOLEAN
    PROVE  \E r \in [0 .. Len(text) -> Gathered] :
             /\ r[0] = c
             /\ FoldLeftDomain(LAMBDA d, i :
                  LET e == [d EXCEPT !.line = Append(@, text[i])]
                  IN IF EndsLine(text, i, last) THEN Match(e) ELSE e, c, text) = r[Len(text)]
             /\ \A m \in 1 .. Len(text) : r[m] = Taken(r[m - 1], text, m, last)
<1> DEFINE added(d, i) == [d EXCEPT !.line = Append(@, text[i])]
           all == FoldLeftDomain(LAMBDA d, i :
                    LET e == [d EXCEPT !.line = Append(@, text[i])]
                    IN IF EndsLine(text, i, last) THEN Match(e) ELSE e, c, text)
<1>0. ASSUME NEW d \in Gathered, NEW i \in 1 .. Len(text) PROVE added(d, i) \in Gathered
  <2> DEFINE line == Append(d.line, text[i])
  <2>1. line \in Seq(Byte)
    BY DEF Gathered
  <2> HIDE DEF line
  <2>2. [d EXCEPT !.line = line] \in Gathered
    BY <2>1 DEF Gathered
  <2> QED BY <2>2 DEF line
<1> DEFINE T == Gathered
           n == Len(text)
           Put(d, i) == IF EndsLine(text, i, last) THEN Match(added(d, i)) ELSE added(d, i)
           at == [j \in DOMAIN text |-> j]
           F(it) == [s \in SUBSET DOMAIN at |->
                       IF s = {} THEN c ELSE Put(it[s \ {Max(s)}], at[Max(s)])]
           step == [p \in T \X (1 .. n) |-> Put(p[1], p[2])]
<1>1. n \in Nat /\ DOMAIN at = 1 .. n /\ DOMAIN text = 1 .. n /\ c \in T
  OBVIOUS
<1>2. ASSUME NEW d \in T, NEW i \in 1 .. n PROVE Put(d, i) \in T
  <2>1. added(d, i) \in Gathered
    BY <1>0
  <2> HIDE DEF added
  <2> QED BY <2>1, MatchType
<1>3. step \in Steps(T, n)
  <2> HIDE DEF Put, T, n
  <2> QED BY <1>2 DEF Steps
<1>4. all = (CHOOSE it : it = F(it))[DOMAIN at]
  BY Zenon DEF FoldLeftDomain, FoldLeft, MapThenFoldSet
<1>5. \A i \in 1 .. n : at[i] = i
  <2> HIDE DEF n
  <2> QED BY <1>1
<1> HIDE DEF T, n, at, all
<1>6. \E it : it = F(it)
  <2> HIDE DEF step
  <2>1. PICK it : Unrolled(it, T, c, n, step)
    BY <1>1, <1>3, FoldExists
  <2> HIDE DEF Put
  <2>2. ASSUME NEW s \in SUBSET (1 .. n)
        PROVE  it[s] = IF s = {} THEN c ELSE Put(it[s \ {Max(s)}], at[Max(s)])
    <3>1. CASE s = {}
      BY <2>1, <3>1 DEF FoldAt, Unrolled
    <3>2. CASE s # {}
      <4>1. it[s \ {Max(s)}] \in T /\ Max(s) \in 1 .. n
        BY <1>1, <2>1, <3>2, MaxIndex DEF Unrolled
      <4>2. it[s] = step[<<it[s \ {Max(s)}], Max(s)>>]
        BY <2>1, <3>2 DEF FoldAt, Unrolled
      <4> QED BY <1>5, <3>2, <4>1, <4>2 DEF step
    <3> QED BY <3>1, <3>2
  <2>3. it = F(it)
    BY <1>1, <2>1, <2>2 DEF Unrolled
  <2> HIDE DEF F
  <2> QED BY <2>3
<1>7. PICK it : it = F(it) /\ all = it[DOMAIN at]
  <2> HIDE DEF F
  <2> QED BY <1>4, <1>6, Zenon
<1> HIDE DEF Put, added
<1>8. Unrolls(it, T, c, n, step)
  <2>1. it[{}] = c
    BY <1>7
  <2>2. ASSUME NEW s \in SUBSET (1 .. n), s # {}, it[s \ {Max(s)}] \in T
        PROVE  it[s] = step[<<it[s \ {Max(s)}], Max(s)>>]
    <3>1. it[s] = Put(it[s \ {Max(s)}], at[Max(s)]) /\ Max(s) \in 1 .. n
      BY <1>1, <1>7, <2>2, MaxIndex
    <3> QED BY <1>5, <2>2, <3>1
  <2> HIDE DEF step, F
  <2> QED BY <2>1, <2>2 DEF Unrolls
<1>9. Sums(it, T, c, n, step)
  <2> HIDE DEF F, step
  <2> QED BY <1>1, <1>3, <1>8, FoldSteps
<1> HIDE DEF F
<1>10. PICK r : Accumulates(r, T, c, n, step) /\ all = r[n]
  <2> HIDE DEF step
  <2> QED BY <1>1, <1>7, <1>9 DEF Sums
<1>11. r \in [0 .. n -> T] /\ r[0] = c
  <2> HIDE DEF step
  <2> QED BY <1>10 DEF Accumulates
<1>12. ASSUME NEW m \in 1 .. n PROVE r[m] = Taken(r[m - 1], text, m, last)
  <2>1. r[m] = step[<<r[m - 1], m>>] /\ m - 1 \in 0 .. n
    <3> HIDE DEF step
    <3> QED BY <1>1, <1>10 DEF Accumulates
  <2>2. r[m - 1] \in T
    BY <1>11, <2>1
  <2>3. r[m] = Put(r[m - 1], m)
    BY <2>1, <2>2
  <2> QED BY <2>3 DEF Put, added, Taken
<1> QED BY <1>10, <1>11, <1>12 DEF T, n, all

\* With a byte more, a gathering remains one.
LEMMA TakenType ==
    ASSUME response.pairs \in Seq(Pair), NEW c \in Gathered, NEW text \in Seq(Byte),
           NEW i \in 1 .. Len(text)
    PROVE  [c EXCEPT !.line = Append(@, text[i])] \in Gathered
<1> DEFINE line == Append(c.line, text[i])
<1>1. line \in Seq(Byte)
  BY DEF Gathered
<1> HIDE DEF line
<1>2. [c EXCEPT !.line = line] \in Gathered
  BY <1>1 DEF Gathered
<1> QED BY <1>2 DEF line

\* What the loop over the bytes of a buffer gathers; no line is begun when the
\* last byte was the last of the body.
LEMMA BytesType ==
    ASSUME response.pairs \in Seq(Pair), NEW c \in Gathered, NEW text \in Seq(Byte),
           NEW last \in BOOLEAN
    PROVE  LET all == FoldLeftDomain(LAMBDA d, i :
                        LET e == [d EXCEPT !.line = Append(@, text[i])]
                        IN IF EndsLine(text, i, last) THEN Match(e) ELSE e, c, text)
           IN all \in Gathered /\ (last /\ text # <<>> => all.line = <<>>)
<1> DEFINE all == FoldLeftDomain(LAMBDA d, i :
                    LET e == [d EXCEPT !.line = Append(@, text[i])]
                    IN IF EndsLine(text, i, last) THEN Match(e) ELSE e, c, text)
           n == Len(text)
<1>1. PICK r \in [0 .. n -> Gathered] :
        /\ r[0] = c /\ all = r[n] /\ \A m \in 1 .. n : r[m] = Taken(r[m - 1], text, m, last)
  BY BytesSteps, ZenonT(30)
<1> HIDE DEF all
<1>2. n \in Nat /\ n \in 0 .. n
  OBVIOUS
<1>3. ASSUME last, text # <<>> PROVE all.line = <<>>
  <2>1. n \in 1 .. n /\ n - 1 \in 0 .. n
    BY <1>3
  <2> DEFINE d == r[n - 1]
             e == [d EXCEPT !.line = Append(@, text[n])]
  <2>2. d \in Gathered /\ all = Taken(d, text, n, last)
    BY <1>1, <2>1
  <2> HIDE DEF d, n
  <2>3. EndsLine(text, n, last)
    BY <1>3 DEF EndsLine, n
  <2>4. all = Match(e)
    BY <2>2, <2>3 DEF Taken
  <2>5. e \in Gathered
    BY <2>1, <2>2, TakenType DEF n
  <2> HIDE DEF e
  <2> QED BY <2>4, <2>5, MatchType
<1> QED BY <1>1, <1>2, <1>3 DEF all

\* After the last buffer of the body no line is begun.
LEMMA BufferType ==
    ASSUME response.pairs \in Seq(Pair), NEW c \in Gathered, NEW text \in Seq(Byte),
           NEW last \in BOOLEAN
    PROVE  /\ ProcessBuffer(c, text, last) \in Gathered
           /\ last => ProcessBuffer(c, text, last).line = <<>>
<1>1. CASE text = <<>>
  BY <1>1, MatchType DEF ProcessBuffer
<1>2. CASE text # <<>>
  <2> DEFINE all == FoldLeftDomain(LAMBDA d, i :
                      LET e == [d EXCEPT !.line = Append(@, text[i])]
                      IN IF EndsLine(text, i, last) THEN Match(e) ELSE e, c, text)
  <2>1. ProcessBuffer(c, text, last) = all
    BY <1>2, Zenon DEF ProcessBuffer
  <2>2. all \in Gathered /\ (last /\ text # <<>> => all.line = <<>>)
    BY BytesType, Zenon
  <2> HIDE DEF all
  <2> QED BY <1>2, <2>1, <2>2
<1> QED BY <1>1, <1>2

\* The loop over the buffers of a chain, buffer by buffer.
LEMMA GatherSteps ==
    ASSUME response.pairs \in Seq(Pair), NEW chain \in Seq(Seq(Byte)), NEW last \in BOOLEAN,
           line_in \in Seq(Byte), matched \in [DOMAIN response.pairs -> BOOLEAN]
    PROVE  \E r \in [0 .. Len(chain) -> Gathered] :
             /\ r[0] = [line |-> line_in, matched |-> matched, out |-> <<>>, spins |-> FALSE]
             /\ Gather(chain, last) = r[Len(chain)]
             /\ \A m \in 1 .. Len(chain) :
                  r[m] = ProcessBuffer(r[m - 1], chain[m], last /\ m = Len(chain))
<1> DEFINE base == [line |-> line_in, matched |-> matched, out |-> <<>>, spins |-> FALSE]
<1> DEFINE T == Gathered
           n == Len(chain)
           Put(d, i) == ProcessBuffer(d, chain[i], last /\ i = Len(chain))
           at == [j \in DOMAIN chain |-> j]
           F(it) == [s \in SUBSET DOMAIN at |->
                       IF s = {} THEN base ELSE Put(it[s \ {Max(s)}], at[Max(s)])]
           step == [p \in T \X (1 .. n) |-> Put(p[1], p[2])]
<1>1. n \in Nat /\ DOMAIN at = 1 .. n /\ DOMAIN chain = 1 .. n /\ base \in T
  BY DEF Gathered
<1>2. ASSUME NEW d \in T, NEW i \in 1 .. n PROVE Put(d, i) \in T
  <2>1. chain[i] \in Seq(Byte) /\ (last /\ i = Len(chain)) \in BOOLEAN
    OBVIOUS
  <2> QED BY <2>1, BufferType
<1>3. step \in Steps(T, n)
  <2> HIDE DEF Put, T, n
  <2> QED BY <1>2 DEF Steps
<1>4. Gather(chain, last) = (CHOOSE it : it = F(it))[DOMAIN at]
  BY Zenon DEF Gather, FoldLeftDomain, FoldLeft, MapThenFoldSet
<1>5. \A i \in 1 .. n : at[i] = i
  <2> HIDE DEF n
  <2> QED BY <1>1
<1> HIDE DEF T, n, at, base
<1>6. \E it : it = F(it)
  <2> HIDE DEF step
  <2>1. PICK it : Unrolled(it, T, base, n, step)
    BY <1>1, <1>3, FoldExists
  <2> HIDE DEF Put
  <2>2. ASSUME NEW s \in SUBSET (1 .. n)
        PROVE  it[s] = IF s = {} THEN base ELSE Put(it[s \ {Max(s)}], at[Max(s)])
    <3>1. CASE s = {}
      BY <2>1, <3>1 DEF FoldAt, Unrolled
    <3>2. CASE s # {}
      <4>1. it[s \ {Max(s)}] \in T /\ Max(s) \in 1 .. n
        BY <1>1, <2>1, <3>2, MaxIndex DEF Unrolled
      <4>2. it[s] = step[<<it[s \ {Max(s)}], Max(s)>>]
        BY <2>1, <3>2 DEF FoldAt, Unrolled
      <4> QED BY <1>5, <3>2, <4>1, <4>2 DEF step
    <3> QED BY <3>1, <3>2
  <2>3. it = F(it)
    BY <1>1, <2>1, <2>2 DEF Unrolled
  <2> HIDE DEF F
  <2> QED BY <2>3
<1>7. PICK it : it = F(it) /\ Gather(chain, last) = it[DOMAIN at]
  <2> HIDE DEF F
  <2> QED BY <1>4, <1>6, Zenon
<1> HIDE DEF Put
<1>8. Unrolls(it, T, base, n, step)
  <2>1. it[{}] = base
    BY <1>7
  <2>2. ASSUME NEW s \in SUBSET (1 .. n), s # {}, it[s \ {Max(s)}] \in T
        PROVE  it[s] = step[<<it[s \ {Max(s)}], Max(s)>>]
    <3>1. it[s] = Put(it[s \ {Max(s)}], at[Max(s)]) /\ Max(s) \in 1 .. n
      BY <1>1, <1>7, <2>2, MaxIndex
    <3> QED BY <1>5, <2>2, <3>1
  <2> HIDE DEF step, F
  <2> QED BY <2>1, <2>2 DEF Unrolls
<1>9. Sums(it, T, base, n, step)
  <2> HIDE DEF F, step
  <2> QED BY <1>1, <1>3, <1>8, FoldSteps
<1> HIDE DEF F
<1>10. PICK r : Accumulates(r, T, base, n, step) /\ Gather(chain, last) = r[n]
  <2> HIDE DEF step
  <2> QED BY <1>1, <1>7, <1>9 DEF Sums
<1>11. r \in [0 .. n -> T] /\ r[0] = base
  <2> HIDE DEF step
  <2> QED BY <1>10 DEF Accumulates
<1>12. ASSUME NEW m \in 1 .. n
       PROVE  r[m] = ProcessBuffer(r[m - 1], chain[m], last /\ m = Len(chain))
  <2>1. r[m] = step[<<r[m - 1], m>>] /\ m - 1 \in 0 .. n
    <3> HIDE DEF step
    <3> QED BY <1>1, <1>10 DEF Accumulates
  <2>2. r[m - 1] \in T
    BY <1>11, <2>1
  <2> QED BY <2>1, <2>2 DEF Put
<1> QED BY <1>10, <1>11, <1>12 DEF T, n, base

\* What the loop over the buffers of a chain gathers; the last one of the body
\* leaves no line behind.
LEMMA GatherType ==
    ASSUME response.pairs \in Seq(Pair), NEW chain \in Seq(Seq(Byte)), NEW last \in BOOLEAN,
           line_in \in Seq(Byte), matched \in [DOMAIN response.pairs -> BOOLEAN]
    PROVE  /\ Gather(chain, last) \in Gathered
           /\ last /\ chain # <<>> => Gather(chain, last).line = <<>>
           /\ chain = <<>> => Gather(chain, last).line = line_in
<1> DEFINE base == [line |-> line_in, matched |-> matched, out |-> <<>>, spins |-> FALSE]
           n == Len(chain)
<1>1. PICK r \in [0 .. n -> Gathered] :
        /\ r[0] = base /\ Gather(chain, last) = r[n]
        /\ \A m \in 1 .. n : r[m] = ProcessBuffer(r[m - 1], chain[m], last /\ m = Len(chain))
  BY GatherSteps, Zenon
<1>2. n \in Nat /\ n \in 0 .. n
  OBVIOUS
<1>3. ASSUME last, chain # <<>> PROVE Gather(chain, last).line = <<>>
  <2>1. n \in 1 .. n /\ n - 1 \in 0 .. n
    BY <1>3
  <2>2. r[n - 1] \in Gathered /\ Gather(chain, last) = ProcessBuffer(r[n - 1], chain[n], TRUE)
    BY <1>1, <1>3, <2>1
  <2>3. chain[n] \in Seq(Byte) /\ TRUE \in BOOLEAN
    BY <2>1
  <2> QED BY <2>2, <2>3, BufferType
<1>4. ASSUME chain = <<>> PROVE Gather(chain, last).line = line_in
  <2>1. n = 0
    BY <1>4
  <2>2. Gather(chain, last) = base
    BY <1>1, <2>1
  <2> QED BY <2>2
<1> QED BY <1>1, <1>2, <1>3, <1>4

-------------------------------------------------------------------------------
(* Texts and the buffers they are in                                        *)

\* Texts joined are a text.
LEMMA FlattenType ==
    ASSUME NEW B, NEW seqs \in Seq(Seq(B))
    PROVE  FlattenSeq(seqs) \in Seq(B)
<1> DEFINE T == Seq(B)
           n == Len(seqs)
           step == [p \in T \X (1 .. n) |-> p[1] \o seqs[p[2]]]
           F(it) == [i \in 1 .. n |-> IF i = 1 THEN seqs[i] ELSE it[i - 1] \o seqs[i]]
<1>1. n \in Nat /\ <<>> \in T /\ \A i \in 1 .. n : seqs[i] \in T
  OBVIOUS
<1>2. CASE n = 0
  <2>1. FlattenSeq(seqs) = seqs /\ seqs = <<>>
    BY <1>2 DEF FlattenSeq
  <2> QED BY <2>1
<1>3. CASE n # 0
  <2>1. FlattenSeq(seqs) = (CHOOSE it : it = F(it))[n]
    BY <1>3, Zenon DEF FlattenSeq
  <2>2. step \in Steps(T, n)
    <3>1. \A p \in T \X (1 .. n) : p[1] \o seqs[p[2]] \in T
      <4> SUFFICES ASSUME NEW t \in T, NEW i \in 1 .. n PROVE t \o seqs[i] \in T
        OBVIOUS
      <4> QED BY <1>1
    <3> HIDE DEF T, n
    <3> QED BY <3>1 DEF Steps
  <2>3. \E it : it = F(it)
    <3>0. ASSUME NEW t \in T, NEW i \in 1 .. n PROVE step[<<t, i>>] = t \o seqs[i]
      OBVIOUS
    <3> HIDE DEF step, T
    <3>1. PICK f : Unrolled(f, T, <<>>, n, step)
      BY <1>1, <2>2, FoldExists
    <3> DEFINE it == [i \in 1 .. n |-> f[1 .. i]]
    <3>2. ASSUME NEW i \in 1 .. n
          PROVE  f[1 .. i - 1] \in T /\ f[1 .. i] = f[1 .. i - 1] \o seqs[i]
      <4>1. i \in Nat \ {0} /\ 1 .. i \in SUBSET (1 .. n) /\ 1 .. i - 1 \in SUBSET (1 .. n)
        BY <1>1
      <4>2. 1 .. i # {} /\ Max(1 .. i) = i /\ (1 .. i) \ {Max(1 .. i)} = 1 .. i - 1
        BY <4>1, Initial
      <4>3. f[1 .. i] = step[<<f[1 .. i - 1], i>>] /\ f[1 .. i - 1] \in T
        BY <3>1, <4>1, <4>2 DEF FoldAt, Unrolled
      <4> QED BY <3>0, <4>3
    <3>3. f[1 .. 1 - 1] = <<>>
      <4>1. 1 .. 1 - 1 = {} /\ {} \in SUBSET (1 .. n)
        OBVIOUS
      <4> QED BY <3>1, <4>1 DEF FoldAt, Unrolled
    <3>4. ASSUME NEW i \in 1 .. n
          PROVE  it[i] = IF i = 1 THEN seqs[i] ELSE it[i - 1] \o seqs[i]
      <4>1. CASE i = 1
        <5>1. it[i] = <<>> \o seqs[i]
          BY <3>2, <3>3, <4>1
        <5> HIDE DEF it
        <5> QED BY <1>1, <4>1, <5>1 DEF T
      <4>2. CASE i # 1
        <5>1. i - 1 \in 1 .. n
          BY <1>1, <4>2
        <5>2. it[i - 1] = f[1 .. i - 1] /\ it[i] = f[1 .. i]
          BY <5>1
        <5> HIDE DEF it
        <5> QED BY <3>2, <4>2, <5>2
      <4> QED BY <4>1, <4>2
    <3>5. it = F(it)
      <4>1. it = [i \in 1 .. n |-> it[i]]
        OBVIOUS
      <4> HIDE DEF it, n
      <4> QED BY <3>4, <4>1
    <3> HIDE DEF F, it
    <3> QED BY <3>5
  <2>4. PICK it : it = F(it) /\ FlattenSeq(seqs) = it[n]
    <3> HIDE DEF F
    <3> QED BY <2>1, <2>3, Zenon
  <2>8. \A i \in 1 .. n : it[i] = IF i = 1 THEN seqs[i] ELSE it[i - 1] \o seqs[i]
    <3> HIDE DEF n
    <3> QED BY <2>4
  <2> DEFINE Typed == {i \in Nat : i \in 1 .. n => it[i] \in T}
  <2>5. 0 \in Typed
    OBVIOUS
  <2>6. ASSUME NEW i \in Nat, i \in Typed PROVE i + 1 \in Typed
    <3> SUFFICES ASSUME i + 1 \in 1 .. n PROVE it[i + 1] \in T
      OBVIOUS
    <3>1. it[i + 1] = IF i + 1 = 1 THEN seqs[i + 1] ELSE it[i] \o seqs[i + 1]
      <4>1. (i + 1) - 1 = i
        OBVIOUS
      <4> HIDE DEF n
      <4> QED BY <2>8, <4>1
    <3>2. i # 0 => it[i] \in T
      BY <2>6
    <3> HIDE DEF n
    <3> QED BY <1>1, <3>1, <3>2
  <2>7. n \in Typed
    <3> HIDE DEF Typed
    <3> QED BY <1>1, <2>5, <2>6, Induction
  <2> QED BY <1>1, <1>3, <2>4, <2>7
<1> QED BY <1>2, <1>3

\* One text alone.
LEMMA FlattenOne ==
    ASSUME NEW t
    PROVE  FlattenSeq(<<t>>) = t
<1> DEFINE F(it) == [i \in 1 .. 1 |-> IF i = 1 THEN <<t>>[i] ELSE it[i - 1] \o <<t>>[i]]
           one == [i \in 1 .. 1 |-> t]
<1>1. Len(<<t>>) = 1 /\ <<t>>[1] = t
  OBVIOUS
<1>2. FlattenSeq(<<t>>) = (CHOOSE it : it = F(it))[1]
  <2>1. Len(<<t>>) # 0
    BY <1>1
  <2>2. FlattenSeq(<<t>>) = (CHOOSE it : it = [i \in 1 .. Len(<<t>>) |->
                               IF i = 1 THEN <<t>>[i] ELSE it[i - 1] \o <<t>>[i]])[Len(<<t>>)]
    BY <2>1, Zenon DEF FlattenSeq
  <2> QED BY <1>1, <2>2, Zenon
<1>3. one = F(one)
  OBVIOUS
<1>4. PICK it : it = F(it) /\ FlattenSeq(<<t>>) = it[1]
  <2> HIDE DEF F, one
  <2> QED BY <1>2, <1>3, Zenon
<1> QED BY <1>4

\* The greater of two.
LEMMA MaxOfTwo ==
    ASSUME NEW a \in Int, NEW b \in Int
    PROVE  Max({a, b}) \in {a, b} /\ a =< Max({a, b}) /\ b =< Max({a, b})
<1>1. \E x \in {a, b} : \A y \in {a, b} : y =< x
  <2>1. CASE a =< b
    BY <2>1
  <2>2. CASE ~ (a =< b)
    BY <2>2
  <2> QED BY <2>1, <2>2
<1> QED BY <1>1 DEF Max

\* The pieces a text is cut into fit in a buffer.
LEMMA PiecesType ==
    ASSUME NEW text \in Seq(Byte)
    PROVE  /\ Pieces(text) \in Seq(Seq(Byte)) /\ Len(Pieces(text)) \in Nat
           /\ \A i \in 1 .. Len(Pieces(text)) : Len(Pieces(text)[i]) =< BufSize
<1> DEFINE l == Len(text)
           n == (l + BufSize - 1) \div BufSize
           piece(i) == SubSeq(text, (i - 1) * BufSize + 1, Min({i * BufSize, l}))
<1>1. l \in Nat /\ BufSize \in Nat \ {0}
  BY SizeAssumption
<1>2. n \in Nat
  <2> HIDE DEF l
  <2>1. l + BufSize - 1 \in Nat
    BY <1>1
  <2> QED BY <1>1, <2>1
<1>3. ASSUME NEW i \in 1 .. n PROVE piece(i) \in Seq(Byte) /\ Len(piece(i)) =< BufSize
  <2> DEFINE a == (i - 1) * BufSize
             b == i * BufSize
             e == Min({b, l})
  <2>1. a \in Nat /\ b \in Nat /\ b = a + BufSize
    <3>1. i \in Nat /\ i - 1 \in Nat
      BY <1>2
    <3> HIDE DEF n
    <3> QED BY <1>1, <3>1
  <2> HIDE DEF n, l, a, b
  <2>2. e \in Nat /\ e =< b /\ e =< l
    <3>1. {b, l} \in SUBSET Nat /\ {b, l} # {}
      BY <1>1, <2>1
    <3>2. Min({b, l}) \in {b, l} /\ \A y \in {b, l} : Min({b, l}) =< y
      BY <3>1, MinIn
    <3> QED BY <1>1, <2>1, <3>2
  <2> HIDE DEF e
  <2>3. \A j \in a + 1 .. e : text[j] \in Byte
    <3> SUFFICES ASSUME NEW j \in a + 1 .. e PROVE text[j] \in Byte
      OBVIOUS
    <3>1. j \in 1 .. l
      BY <1>1, <2>1, <2>2
    <3> QED BY <3>1 DEF l
  <2>4. SubSeq(text, a + 1, e) \in Seq(Byte)
        /\ Len(SubSeq(text, a + 1, e)) = IF a + 1 =< e THEN e - (a + 1) + 1 ELSE 0
    BY <2>1, <2>2, <2>3, SubSeqProperties
  <2>5. piece(i) = SubSeq(text, a + 1, e)
    BY DEF a, b, e, l
  <2> HIDE DEF piece
  <2> QED BY <1>1, <2>1, <2>2, <2>4, <2>5
<1>4. Pieces(text) = [i \in 1 .. n |-> piece(i)]
  BY DEF Pieces
<1> HIDE DEF n, piece
<1>5. Pieces(text) \in [1 .. n -> Seq(Byte)]
  BY <1>3, <1>4
<1>6. Pieces(text) \in Seq(Seq(Byte)) /\ Len(Pieces(text)) = n
  BY <1>2, <1>5
<1> QED BY <1>2, <1>3, <1>4, <1>6

\* The head of a queue that can be reclaimed has been sent.
LEMMA ReclaimableIs ==
    ASSUME NEW S, NEW q \in Seq(S), NEW m
    PROVE  /\ Reclaimable(q, m) \in 0 .. Len(q)
           /\ \A j \in 1 .. Reclaimable(q, m) : m[q[j]] = <<>>
<1> DEFINE full == {i \in 1 .. Len(q) : m[q[i]] # <<>>}
           i == IF full # {} THEN Min(full) ELSE 0
<1>1. Reclaimable(q, m) = IF i = 0 THEN Len(q) ELSE i - 1
  BY Zenon DEF Reclaimable, SelectInSeq
<1>2. full \in SUBSET Nat /\ Len(q) \in Nat
  OBVIOUS
<1>3. CASE full = {}
  <2>1. Reclaimable(q, m) = Len(q)
    BY <1>1, <1>3
  <2> QED BY <1>2, <1>3, <2>1
<1>4. CASE full # {}
  <2>1. Min(full) \in full /\ \A y \in full : Min(full) =< y
    <3> HIDE DEF full
    <3> QED BY <1>2, <1>4, MinIn
  <2>2. i = Min(full) /\ i \in 1 .. Len(q)
    BY <1>4, <2>1
  <2> HIDE DEF i
  <2>3. Reclaimable(q, m) = i - 1
    BY <1>1, <2>2
  <2>4. ASSUME NEW j \in 1 .. i - 1 PROVE m[q[j]] = <<>>
    <3>1. j \in 1 .. Len(q) /\ ~ (i =< j)
      BY <1>2, <2>2
    <3>2. j \notin full
      <4> HIDE DEF full
      <4> QED BY <2>1, <2>2, <3>1
    <3> QED BY <3>1, <3>2
  <2> HIDE DEF full
  <2> QED BY <1>2, <2>2, <2>3, <2>4
<1> QED BY <1>3, <1>4

\* What the later filters keep of their queue: all they have kept before each of
\* its buffers.
Keeps(r, S, q, m) ==
    /\ r \in [0 .. Len(q) -> Seq(S)] /\ r[0] = <<>> /\ Unsent(q, m) = r[Len(q)]
    /\ \A k \in 1 .. Len(q) : r[k] = IF m[q[k]] = <<>> THEN r[k - 1] ELSE Append(r[k - 1], q[k])

\* The buffers not sent are gathered one after the other.
LEMMA UnsentSteps ==
    ASSUME NEW S, NEW q \in Seq(S), NEW m
    PROVE  \E r : Keeps(r, S, q, m)
<1> DEFINE T == Seq(S)
           n == Len(q)
           Put(d, b) == IF m[b] = <<>> THEN d ELSE Append(d, b)
           F(it) == [s \in SUBSET DOMAIN q |->
                       IF s = {} THEN <<>> ELSE Put(it[s \ {Max(s)}], q[Max(s)])]
           step == [p \in T \X (1 .. n) |-> Put(p[1], q[p[2]])]
<1>1. n \in Nat /\ DOMAIN q = 1 .. n /\ <<>> \in T
  OBVIOUS
<1>2. ASSUME NEW d \in T, NEW i \in 1 .. n PROVE Put(d, q[i]) \in T
  <2>1. q[i] \in S
    OBVIOUS
  <2> QED BY <2>1
<1>3. step \in Steps(T, n)
  <2> HIDE DEF Put, T, n
  <2> QED BY <1>2 DEF Steps
<1>4. Unsent(q, m) = (CHOOSE it : it = F(it))[DOMAIN q]
  BY Zenon DEF Unsent, FoldLeft, MapThenFoldSet
<1> HIDE DEF T, n
<1>5. \E it : it = F(it)
  <2> HIDE DEF step
  <2>1. PICK it : Unrolled(it, T, <<>>, n, step)
    BY <1>1, <1>3, FoldExists
  <2> HIDE DEF Put
  <2>2. ASSUME NEW s \in SUBSET (1 .. n)
        PROVE  it[s] = IF s = {} THEN <<>> ELSE Put(it[s \ {Max(s)}], q[Max(s)])
    <3>1. CASE s = {}
      BY <2>1, <3>1 DEF FoldAt, Unrolled
    <3>2. CASE s # {}
      <4>1. it[s \ {Max(s)}] \in T /\ Max(s) \in 1 .. n
        BY <1>1, <2>1, <3>2, MaxIndex DEF Unrolled
      <4>2. it[s] = step[<<it[s \ {Max(s)}], Max(s)>>]
        BY <2>1, <3>2 DEF FoldAt, Unrolled
      <4> QED BY <3>2, <4>1, <4>2 DEF step
    <3> QED BY <3>1, <3>2
  <2>3. it = F(it)
    BY <1>1, <2>1, <2>2 DEF Unrolled
  <2> HIDE DEF F
  <2> QED BY <2>3
<1>6. PICK it : it = F(it) /\ Unsent(q, m) = it[DOMAIN q]
  <2> HIDE DEF F
  <2> QED BY <1>4, <1>5, Zenon
<1> HIDE DEF Put
<1>7. Unrolls(it, T, <<>>, n, step)
  <2>1. it[{}] = <<>>
    BY <1>6
  <2>2. ASSUME NEW s \in SUBSET (1 .. n), s # {}, it[s \ {Max(s)}] \in T
        PROVE  it[s] = step[<<it[s \ {Max(s)}], Max(s)>>]
    <3>1. it[s] = Put(it[s \ {Max(s)}], q[Max(s)]) /\ Max(s) \in 1 .. n
      BY <1>1, <1>6, <2>2, MaxIndex
    <3> QED BY <2>2, <3>1
  <2> HIDE DEF step, F
  <2> QED BY <2>1, <2>2 DEF Unrolls
<1> HIDE DEF F
<1>8. PICK r : Accumulates(r, T, <<>>, n, step) /\ it[1 .. n] = r[n]
  <2> HIDE DEF step
  <2>1. Sums(it, T, <<>>, n, step)
    BY <1>1, <1>3, <1>7, FoldSteps
  <2> QED BY <2>1 DEF Sums
<1>9. ASSUME NEW k \in 1 .. n PROVE r[k] = Put(r[k - 1], q[k])
  <2>1. r[k - 1] \in T /\ r[k] = step[<<r[k - 1], k>>]
    <3> HIDE DEF step
    <3>1. k - 1 \in 0 .. n
      BY <1>1
    <3> QED BY <1>8, <3>1 DEF Accumulates
  <2> QED BY <2>1
<1> HIDE DEF step
<1>10. r \in [0 .. n -> T] /\ r[0] = <<>> /\ Unsent(q, m) = r[n]
  BY <1>1, <1>6, <1>8 DEF Accumulates
<1> QED BY <1>9, <1>10 DEF T, n, Put, Keeps

\* How the filter takes the buffers of q back, in UpdateChains.
Pool(q, unused) == FoldLeft(LAMBDA pool, b : IF b = 0 THEN pool ELSE <<b>> \o pool, unused, q)

\* The buffers that are free again are put in front of the others.
LEMMA PoolSteps ==
    ASSUME NEW S, NEW q \in Seq(S), NEW unused \in Seq(S)
    PROVE  \E r \in [0 .. Len(q) -> Seq(S)] :
             /\ r[0] = unused /\ Pool(q, unused) = r[Len(q)]
             /\ \A k \in 1 .. Len(q) : r[k] = IF q[k] = 0 THEN r[k - 1] ELSE <<q[k]>> \o r[k - 1]
<1> DEFINE T == Seq(S)
           n == Len(q)
           Put(d, b) == IF b = 0 THEN d ELSE <<b>> \o d
           F(it) == [s \in SUBSET DOMAIN q |->
                       IF s = {} THEN unused ELSE Put(it[s \ {Max(s)}], q[Max(s)])]
           step == [p \in T \X (1 .. n) |-> Put(p[1], q[p[2]])]
<1>1. n \in Nat /\ DOMAIN q = 1 .. n /\ unused \in T
  OBVIOUS
<1>2. ASSUME NEW d \in T, NEW i \in 1 .. n PROVE Put(d, q[i]) \in T
  <2>1. q[i] \in S
    OBVIOUS
  <2>2. <<q[i]>> \in Seq(S)
    BY <2>1
  <2> QED BY <2>2
<1>3. step \in Steps(T, n)
  <2> HIDE DEF Put, T, n
  <2> QED BY <1>2 DEF Steps
<1>4. Pool(q, unused) = (CHOOSE it : it = F(it))[DOMAIN q]
  BY Zenon DEF Pool, FoldLeft, MapThenFoldSet
<1> HIDE DEF T, n
<1>5. \E it : it = F(it)
  <2> HIDE DEF step
  <2>1. PICK it : Unrolled(it, T, unused, n, step)
    BY <1>1, <1>3, FoldExists
  <2> HIDE DEF Put
  <2>2. ASSUME NEW s \in SUBSET (1 .. n)
        PROVE  it[s] = IF s = {} THEN unused ELSE Put(it[s \ {Max(s)}], q[Max(s)])
    <3>1. CASE s = {}
      BY <2>1, <3>1 DEF FoldAt, Unrolled
    <3>2. CASE s # {}
      <4>1. it[s \ {Max(s)}] \in T /\ Max(s) \in 1 .. n
        BY <1>1, <2>1, <3>2, MaxIndex DEF Unrolled
      <4>2. it[s] = step[<<it[s \ {Max(s)}], Max(s)>>]
        BY <2>1, <3>2 DEF FoldAt, Unrolled
      <4> QED BY <3>2, <4>1, <4>2 DEF step
    <3> QED BY <3>1, <3>2
  <2>3. it = F(it)
    BY <1>1, <2>1, <2>2 DEF Unrolled
  <2> HIDE DEF F
  <2> QED BY <2>3
<1>6. PICK it : it = F(it) /\ Pool(q, unused) = it[DOMAIN q]
  <2> HIDE DEF F
  <2> QED BY <1>4, <1>5, Zenon
<1> HIDE DEF Put
<1>7. Unrolls(it, T, unused, n, step)
  <2>1. it[{}] = unused
    BY <1>6
  <2>2. ASSUME NEW s \in SUBSET (1 .. n), s # {}, it[s \ {Max(s)}] \in T
        PROVE  it[s] = step[<<it[s \ {Max(s)}], Max(s)>>]
    <3>1. it[s] = Put(it[s \ {Max(s)}], q[Max(s)]) /\ Max(s) \in 1 .. n
      BY <1>1, <1>6, <2>2, MaxIndex
    <3> QED BY <2>2, <3>1
  <2> HIDE DEF step, F
  <2> QED BY <2>1, <2>2 DEF Unrolls
<1> HIDE DEF F
<1>8. PICK r : Accumulates(r, T, unused, n, step) /\ it[1 .. n] = r[n]
  <2> HIDE DEF step
  <2>1. Sums(it, T, unused, n, step)
    BY <1>1, <1>3, <1>7, FoldSteps
  <2> QED BY <2>1 DEF Sums
<1>9. ASSUME NEW k \in 1 .. n PROVE r[k] = Put(r[k - 1], q[k])
  <2>1. r[k - 1] \in T /\ r[k] = step[<<r[k - 1], k>>]
    <3> HIDE DEF step
    <3>1. k - 1 \in 0 .. n
      BY <1>1
    <3> QED BY <1>8, <3>1 DEF Accumulates
  <2> QED BY <2>1
<1> HIDE DEF step
<1>10. r \in [0 .. n -> T] /\ r[0] = unused /\ Pool(q, unused) = r[n]
  BY <1>1, <1>6, <1>8 DEF Accumulates
<1> QED BY <1>9, <1>10 DEF T, n, Put

-------------------------------------------------------------------------------
(* Queues of buffers                                                        *)

\* What is in two queues joined, and that nothing is in twice.
LEMMA JoinedSet ==
    ASSUME NEW S, NEW s \in Seq(S), NEW t \in Seq(S)
    PROVE  /\ s \o t \in Seq(S)
           /\ \A x : x \in ToSet(s \o t) <=> x \in ToSet(s) \/ x \in ToSet(t)
<1>1. Range(s \o t) = Range(s) \cup Range(t)
  BY RangeConcatenation
<1>2. ToSet(s \o t) = ToSet(s) \cup ToSet(t)
  BY <1>1 DEF ToSet, Range
<1> QED BY <1>2

\* Two lists that share nothing have nothing twice when joined.
LEMMA JoinedOnce ==
    ASSUME NEW S, NEW s \in Seq(S), NEW t \in Seq(S), IsInjective(s), IsInjective(t),
           \A x \in ToSet(s) : x \notin ToSet(t)
    PROVE  IsInjective(s \o t)
<1>1. /\ Len(s) \in Nat /\ Len(t) \in Nat /\ DOMAIN s = 1 .. Len(s) /\ DOMAIN t = 1 .. Len(t)
      /\ DOMAIN (s \o t) = 1 .. Len(s) + Len(t)
      /\ \A i \in 1 .. Len(s) + Len(t) : (s \o t)[i] = IF i =< Len(s) THEN s[i] ELSE t[i - Len(s)]
  <2>1. s \o t \in Seq(S) /\ Len(s \o t) = Len(s) + Len(t)
    BY ConcatProperties
  <2> QED BY <2>1, ConcatProperties
<1> SUFFICES ASSUME NEW i \in 1 .. Len(s) + Len(t), NEW j \in 1 .. Len(s) + Len(t),
                    (s \o t)[i] = (s \o t)[j]
             PROVE  i = j
  BY <1>1 DEF IsInjective
<1>2. ASSUME NEW k \in 1 .. Len(s), NEW l \in 1 .. Len(t) PROVE s[k] # t[l]
  <2>1. s[k] \in ToSet(s) /\ t[l] \in ToSet(t)
    BY <1>1 DEF ToSet
  <2> QED BY <2>1
<1>3. CASE i =< Len(s) /\ j =< Len(s)
  <2>1. i \in DOMAIN s /\ j \in DOMAIN s /\ s[i] = s[j]
    BY <1>1, <1>3
  <2> QED BY <2>1 DEF IsInjective
<1>4. CASE ~ (i =< Len(s)) /\ ~ (j =< Len(s))
  <2>1. i - Len(s) \in DOMAIN t /\ j - Len(s) \in DOMAIN t /\ t[i - Len(s)] = t[j - Len(s)]
    BY <1>1, <1>4
  <2>2. i - Len(s) = j - Len(s)
    BY <2>1 DEF IsInjective
  <2> QED BY <1>1, <2>2
<1>5. CASE i =< Len(s) /\ ~ (j =< Len(s))
  <2>1. i \in 1 .. Len(s) /\ j - Len(s) \in 1 .. Len(t) /\ s[i] = t[j - Len(s)]
    BY <1>1, <1>5
  <2> QED BY <1>2, <2>1
<1>6. CASE ~ (i =< Len(s)) /\ j =< Len(s)
  <2>1. j \in 1 .. Len(s) /\ i - Len(s) \in 1 .. Len(t) /\ s[j] = t[i - Len(s)]
    BY <1>1, <1>6
  <2> QED BY <1>2, <2>1
<1> QED BY <1>3, <1>4, <1>5, <1>6

\* The head of a queue and the rest of it.
LEMMA Halves ==
    ASSUME NEW S, NEW q \in Seq(S), NEW n \in 0 .. Len(q)
    PROVE  /\ SubSeq(q, 1, n) \in Seq(S) /\ Len(SubSeq(q, 1, n)) = n
           /\ SubSeq(q, n + 1, Len(q)) \in Seq(S) /\ Len(SubSeq(q, n + 1, Len(q))) = Len(q) - n
           /\ \A i \in 1 .. n : SubSeq(q, 1, n)[i] = q[i]
           /\ \A i \in 1 .. Len(q) - n : SubSeq(q, n + 1, Len(q))[i] = q[n + i]
<1>1. Len(q) \in Nat /\ n \in Nat /\ n + 1 \in Int
  OBVIOUS
<1>2. \A i \in 1 .. n : q[i] \in S
  BY <1>1
<1>3. \A i \in n + 1 .. Len(q) : q[i] \in S
  BY <1>1
<1>4. /\ SubSeq(q, 1, n) \in Seq(S) /\ Len(SubSeq(q, 1, n)) = IF 1 =< n THEN n - 1 + 1 ELSE 0
      /\ \A i \in 1 .. n - 1 + 1 : SubSeq(q, 1, n)[i] = q[1 + i - 1]
  BY <1>1, <1>2, SubSeqProperties
<1>5. /\ SubSeq(q, n + 1, Len(q)) \in Seq(S)
      /\ Len(SubSeq(q, n + 1, Len(q))) = IF n + 1 =< Len(q) THEN Len(q) - (n + 1) + 1 ELSE 0
      /\ \A i \in 1 .. Len(q) - (n + 1) + 1 : SubSeq(q, n + 1, Len(q))[i] = q[n + 1 + i - 1]
  BY <1>1, <1>3, SubSeqProperties
<1>6. \A i \in 1 .. n : SubSeq(q, 1, n)[i] = q[i]
  BY <1>1, <1>4
<1>7. \A i \in 1 .. Len(q) - n : SubSeq(q, n + 1, Len(q))[i] = q[n + i]
  BY <1>1, <1>5
<1> QED BY <1>1, <1>4, <1>5, <1>6, <1>7

\* The two parts of a list that has nothing twice share nothing.
LEMMA HalvesApart ==
    ASSUME NEW S, NEW q \in Seq(S), IsInjective(q), NEW n \in 0 .. Len(q)
    PROVE  LET a == SubSeq(q, 1, n)
               b == SubSeq(q, n + 1, Len(q))
           IN /\ IsInjective(a) /\ IsInjective(b)
              /\ \A x \in ToSet(a) : x \notin ToSet(b) /\ x \in ToSet(q)
              /\ \A x \in ToSet(b) : x \in ToSet(q)
              /\ \A x \in ToSet(q) : x \in ToSet(a) \/ x \in ToSet(b)
<1> DEFINE a == SubSeq(q, 1, n)
           b == SubSeq(q, n + 1, Len(q))
           l == Len(q)
<1>1. /\ a \in Seq(S) /\ Len(a) = n /\ b \in Seq(S) /\ Len(b) = l - n
      /\ \A i \in 1 .. n : a[i] = q[i]
      /\ \A i \in 1 .. l - n : b[i] = q[n + i]
  BY SMTT(30), Halves
<1>2. l \in Nat /\ n \in 0 .. l /\ DOMAIN q = 1 .. l
  OBVIOUS
<1> HIDE DEF a, b
<1>3. DOMAIN a = 1 .. n /\ DOMAIN b = 1 .. l - n
  BY <1>1
<1> HIDE DEF l
<1>4. \A i, j \in 1 .. l : q[i] = q[j] => i = j
  BY <1>2 DEF IsInjective
<1>5. IsInjective(a)
  BY <1>1, <1>2, <1>3, <1>4 DEF IsInjective
<1>6. IsInjective(b)
  <2> SUFFICES ASSUME NEW i \in 1 .. l - n, NEW j \in 1 .. l - n, b[i] = b[j] PROVE i = j
    BY <1>3 DEF IsInjective
  <2>1. n + i \in 1 .. l /\ n + j \in 1 .. l /\ q[n + i] = q[n + j]
    BY <1>1, <1>2
  <2>2. n + i = n + j
    BY <1>4, <2>1
  <2> QED BY <1>2, <2>2
<1>7. ASSUME NEW x \in ToSet(a) PROVE x \notin ToSet(b) /\ x \in ToSet(q)
  <2>1. PICK i \in 1 .. n : x = q[i]
    BY <1>1, <1>3 DEF ToSet
  <2>2. ASSUME NEW j \in 1 .. l - n PROVE b[j] # x
    <3>1. b[j] = q[n + j] /\ n + j \in 1 .. l /\ i \in 1 .. l /\ n + j # i
      BY <1>1, <1>2
    <3> QED BY <1>4, <2>1, <3>1
  <2> QED BY <1>2, <1>3, <2>1, <2>2 DEF ToSet
<1>8. ASSUME NEW x \in ToSet(b) PROVE x \in ToSet(q)
  <2>1. PICK i \in 1 .. l - n : x = q[n + i]
    BY <1>1, <1>3 DEF ToSet
  <2> QED BY <1>2, <2>1 DEF ToSet
<1>9. ASSUME NEW x \in ToSet(q) PROVE x \in ToSet(a) \/ x \in ToSet(b)
  <2>1. PICK i \in 1 .. l : x = q[i]
    BY <1>2 DEF ToSet
  <2>2. CASE i =< n
    <3>1. i \in 1 .. n /\ a[i] = x
      BY <1>1, <1>2, <2>1, <2>2
    <3> QED BY <1>3, <3>1 DEF ToSet
  <2>3. CASE ~ (i =< n)
    <3>1. i - n \in 1 .. l - n /\ n + (i - n) = i
      BY <1>2, <2>3
    <3>2. b[i - n] = x
      BY <1>1, <2>1, <3>1
    <3> QED BY <1>3, <3>1, <3>2 DEF ToSet
  <2> QED BY <2>2, <2>3
<1> QED BY <1>5, <1>6, <1>7, <1>8, <1>9 DEF a, b

\* What the later filters keep is of their queue, and not sent yet.
LEMMA UnsentIs ==
    ASSUME NEW S, NEW q \in Seq(S), NEW m
    PROVE  /\ Unsent(q, m) \in Seq(S)
           /\ \A b \in ToSet(Unsent(q, m)) : b \in ToSet(q) /\ m[b] # <<>>
<1> DEFINE n == Len(q)
           Rest(d) == \A b \in ToSet(d) : b \in ToSet(q) /\ m[b] # <<>>
<1> HIDE DEF Rest
<1>0. PICK r : Keeps(r, S, q, m)
  BY UnsentSteps
<1>1. /\ r \in [0 .. n -> Seq(S)] /\ r[0] = <<>> /\ Unsent(q, m) = r[n]
      /\ \A k \in 1 .. n : r[k] = IF m[q[k]] = <<>> THEN r[k - 1] ELSE Append(r[k - 1], q[k])
  BY <1>0 DEF Keeps
<1>2. n \in Nat /\ \A k \in 1 .. n : q[k] \in S /\ q[k] \in ToSet(q)
  BY DEF ToSet
<1> HIDE DEF n
<1> DEFINE Good == {k \in Nat : k =< n => Rest(r[k])}
<1>3. 0 \in Good
  <2>1. ToSet(r[0]) = {}
    BY <1>1 DEF ToSet
  <2> QED BY <2>1 DEF Rest
<1>4. ASSUME NEW k \in Nat, k \in Good PROVE k + 1 \in Good
  <2> SUFFICES ASSUME k + 1 =< n PROVE Rest(r[k + 1])
    OBVIOUS
  <2>1. k \in 0 .. n /\ k + 1 \in 1 .. n /\ (k + 1) - 1 = k /\ Rest(r[k])
    BY <1>2, <1>4
  <2> HIDE DEF Good
  <2>2. r[k + 1] = IF m[q[k + 1]] = <<>> THEN r[k] ELSE Append(r[k], q[k + 1])
    BY <1>1, <2>1
  <2>3. CASE m[q[k + 1]] = <<>>
    BY <2>1, <2>2, <2>3
  <2>4. CASE m[q[k + 1]] # <<>>
    <3>1. r[k] \in Seq(S) /\ q[k + 1] \in S /\ q[k + 1] \in ToSet(q)
      BY <1>1, <1>2, <2>1
    <3>2. ToSet(r[k + 1]) = ToSet(r[k]) \cup {q[k + 1]}
      BY <2>2, <2>4, <3>1, AppendSet
    <3> QED BY <2>1, <2>4, <3>1, <3>2 DEF Rest
  <2> QED BY <2>3, <2>4
<1>5. n \in Good
  <2> HIDE DEF Good
  <2> QED BY <1>2, <1>3, <1>4, Induction
<1> QED BY <1>1, <1>2, <1>5 DEF Rest

\* A buffer put before others.
LEMMA ConsIs ==
    ASSUME NEW S, NEW p \in Seq(S), NEW b \in S
    PROVE  /\ <<b>> \o p \in Seq(S)
           /\ \A x : x \in ToSet(<<b>> \o p) <=> x = b \/ x \in ToSet(p)
           /\ IsInjective(p) /\ b \notin ToSet(p) => IsInjective(<<b>> \o p)
<1> DEFINE one == <<b>>
<1>1. one \in Seq(S) /\ IsInjective(one) /\ \A x : x \in ToSet(one) <=> x = b
  <2>1. one \in Seq(S) /\ DOMAIN one = {1} /\ one[1] = b
    OBVIOUS
  <2> HIDE DEF one
  <2> QED BY <2>1 DEF ToSet, IsInjective
<1> HIDE DEF one
<1>2. one \o p \in Seq(S) /\ \A x : x \in ToSet(one \o p) <=> x \in ToSet(one) \/ x \in ToSet(p)
  BY <1>1, JoinedSet
<1>3. ASSUME IsInjective(p), b \notin ToSet(p) PROVE IsInjective(one \o p)
  <2>1. \A x \in ToSet(one) : x \notin ToSet(p)
    BY <1>1, <1>3
  <2> QED BY <1>1, <1>3, <2>1, JoinedOnce
<1> QED BY <1>1, <1>2, <1>3 DEF one

\* What is taken back is on offer once, if it was not before.
LEMMA PoolIs ==
    ASSUME NEW S, NEW q \in Seq(S), NEW unused \in Seq(S), IsInjective(q), IsInjective(unused),
           \A x \in ToSet(q) : x \notin ToSet(unused)
    PROVE  /\ Pool(q, unused) \in Seq(S) /\ IsInjective(Pool(q, unused))
           /\ \A x : x \in ToSet(Pool(q, unused)) =>
                     x \in ToSet(unused) \/ (x # 0 /\ x \in ToSet(q))
<1> DEFINE pool == Pool(q, unused)
           n == Len(q)
           Has(d, k) == \A x : x \in ToSet(d) =>
                          x \in ToSet(unused) \/ (x # 0 /\ \E j \in 1 .. k : q[j] = x)
<1>1. PICK r \in [0 .. n -> Seq(S)] :
        /\ r[0] = unused /\ pool = r[n]
        /\ \A k \in 1 .. n : r[k] = IF q[k] = 0 THEN r[k - 1] ELSE <<q[k]>> \o r[k - 1]
  BY SMTT(30), PoolSteps
<1>2. n \in Nat /\ DOMAIN q = 1 .. n /\ \A k \in 1 .. n : q[k] \in S /\ q[k] \in ToSet(q)
  BY DEF ToSet
<1>3. \A j, k \in 1 .. n : q[j] = q[k] => j = k
  BY <1>2 DEF IsInjective
<1> HIDE DEF n, pool
<1> DEFINE Good == {k \in Nat : k =< n => IsInjective(r[k]) /\ Has(r[k], k)}
<1>4. 0 \in Good
  BY <1>1
<1>5. ASSUME NEW k \in Nat, k \in Good PROVE k + 1 \in Good
  <2> SUFFICES ASSUME k + 1 =< n PROVE IsInjective(r[k + 1]) /\ Has(r[k + 1], k + 1)
    OBVIOUS
  <2>1. /\ k \in 0 .. n /\ k + 1 \in 1 .. n /\ (k + 1) - 1 = k
        /\ IsInjective(r[k]) /\ Has(r[k], k)
    BY <1>2, <1>5
  <2> HIDE DEF Good
  <2>2. r[k + 1] = IF q[k + 1] = 0 THEN r[k] ELSE <<q[k + 1]>> \o r[k]
    BY <1>1, <2>1
  <2>3. 1 .. k \subseteq 1 .. k + 1 /\ k + 1 \in 1 .. k + 1
    OBVIOUS
  <2>4. CASE q[k + 1] = 0
    BY <2>1, <2>2, <2>3, <2>4
  <2>5. CASE q[k + 1] # 0
    <3> DEFINE b == q[k + 1]
    <3>1. r[k] \in Seq(S) /\ b \in S /\ b \in ToSet(q)
      BY <1>2, <2>1
    <3>2. b \notin ToSet(r[k])
      <4> SUFFICES ASSUME b \in ToSet(r[k]) PROVE FALSE
        OBVIOUS
      <4>1. b \notin ToSet(unused)
        BY <3>1
      <4>2. PICK j \in 1 .. k : q[j] = b
        BY <2>1, <4>1
      <4>3. j \in 1 .. n /\ j # k + 1
        BY <1>2, <2>1
      <4> QED BY <1>3, <2>1, <4>2, <4>3
    <3>3. /\ IsInjective(r[k + 1])
          /\ \A x : x \in ToSet(r[k + 1]) <=> x = b \/ x \in ToSet(r[k])
      <4> HIDE DEF b
      <4>1. r[k + 1] = <<b>> \o r[k]
        BY <2>2, <2>5 DEF b
      <4> QED BY <2>1, <3>1, <3>2, <4>1, ConsIs
    <3>4. Has(r[k + 1], k + 1)
      <4> SUFFICES ASSUME NEW x, x \in ToSet(r[k + 1])
                   PROVE  x \in ToSet(unused) \/ (x # 0 /\ \E j \in 1 .. k + 1 : q[j] = x)
        OBVIOUS
      <4>1. CASE x = b
        BY <2>3, <2>5, <4>1
      <4>2. CASE x \in ToSet(r[k])
        BY <2>1, <2>3, <4>2
      <4> QED BY <3>3, <4>1, <4>2
    <3> QED BY <3>3, <3>4
  <2> QED BY <2>4, <2>5
<1>6. n \in Good
  <2> HIDE DEF Good
  <2> QED BY <1>2, <1>4, <1>5, Induction
<1>7. n \in 0 .. n /\ IsInjective(r[n]) /\ Has(r[n], n)
  BY <1>2, <1>6
<1>8. pool \in Seq(S) /\ IsInjective(pool)
  BY <1>1, <1>7
<1>9. \A x : x \in ToSet(pool) => x \in ToSet(unused) \/ (x # 0 /\ x \in ToSet(q))
  BY <1>1, <1>2, <1>7
<1> QED BY <1>8, <1>9 DEF pool

\* The buffers a text is put in are taken from free, from its head, or are new;
\* no other is left in free.
LEMMA OwnIs ==
    ASSUME bufs \in Nat, free \in Seq(1 .. bufs), IsInjective(free), NEW n \in Nat
    PROVE  LET own == GetChainBufs(n)
               created == Max({bufs, bufs + n - Len(free)})
               unused == SubSeq(free, n + 1, Len(free))
           IN /\ created \in Nat /\ bufs =< created
              /\ own \in Seq(1 .. created) /\ Len(own) = n /\ IsInjective(own)
              /\ \A x \in ToSet(own) : x \in ToSet(free) \/ x > bufs
              /\ unused \in Seq(1 .. bufs) /\ IsInjective(unused)
              /\ \A x \in ToSet(unused) : x \in ToSet(free) /\ x \notin ToSet(own)
<1> DEFINE own == GetChainBufs(n)
           l == Len(free)
           created == Max({bufs, bufs + n - l})
           unused == SubSeq(free, n + 1, l)
<1>1. l \in Nat /\ DOMAIN free = 1 .. l /\ \A i \in 1 .. l : free[i] \in 1 .. bufs /\ free[i] \in ToSet(free)
  BY DEF ToSet
<1>2. own = [i \in 1 .. n |-> IF i <= l THEN free[i] ELSE bufs + i - l]
  BY DEF GetChainBufs
<1>3. \A i, j \in 1 .. l : free[i] = free[j] => i = j
  BY <1>1 DEF IsInjective
<1> HIDE DEF l, own
<1>4. created \in Nat /\ bufs =< created /\ bufs + n - l =< created
  <2>1. bufs \in Int /\ bufs + n - l \in Int
    BY <1>1
  <2>2. created \in {bufs, bufs + n - l} /\ bufs =< created /\ bufs + n - l =< created
    BY <2>1, MaxOfTwo
  <2> HIDE DEF created
  <2> QED BY <2>1, <2>2
<1> HIDE DEF created
<1>5. ASSUME NEW i \in 1 .. n
      PROVE  own[i] \in 1 .. created /\ (i =< l => own[i] = free[i])
             /\ (~ (i =< l) => own[i] = bufs + i - l /\ own[i] > bufs)
  <2>1. own[i] = IF i <= l THEN free[i] ELSE bufs + i - l
    BY <1>2
  <2> QED BY <1>1, <1>4, <2>1
<1>6. own \in Seq(1 .. created) /\ Len(own) = n /\ DOMAIN own = 1 .. n
  <2>1. own \in [1 .. n -> 1 .. created]
    BY <1>2, <1>5
  <2> QED BY <2>1, IsSeq
<1>7. IsInjective(own)
  <2> SUFFICES ASSUME NEW i \in 1 .. n, NEW j \in 1 .. n, own[i] = own[j] PROVE i = j
    BY <1>6 DEF IsInjective
  <2>1. CASE i =< l /\ j =< l
    <3>1. i \in 1 .. l /\ j \in 1 .. l /\ free[i] = free[j]
      BY <1>5, <2>1
    <3> QED BY <1>3, <3>1
  <2>2. CASE ~ (i =< l) /\ ~ (j =< l)
    <3>1. bufs + i - l = bufs + j - l
      BY <1>5, <2>2
    <3> QED BY <1>1, <3>1
  <2>3. CASE i =< l /\ ~ (j =< l)
    <3>1. i \in 1 .. l /\ own[i] = free[i] /\ own[j] > bufs
      BY <1>5, <2>3
    <3> QED BY <1>1, <3>1
  <2>4. CASE ~ (i =< l) /\ j =< l
    <3>1. j \in 1 .. l /\ own[j] = free[j] /\ own[i] > bufs
      BY <1>5, <2>4
    <3> QED BY <1>1, <3>1
  <2> QED BY <2>1, <2>2, <2>3, <2>4
<1>8. ASSUME NEW x \in ToSet(own)
      PROVE  /\ x \in ToSet(free) \/ x > bufs
             /\ \E i \in 1 .. n : x = own[i]
  <2>1. PICK i \in 1 .. n : x = own[i]
    BY <1>6 DEF ToSet
  <2>2. CASE i =< l
    <3>1. i \in 1 .. l /\ own[i] = free[i]
      BY <1>5, <2>2
    <3> QED BY <1>1, <2>1, <3>1
  <2>3. CASE ~ (i =< l)
    BY <1>5, <2>1, <2>3
  <2> QED BY <2>1, <2>2, <2>3
<1>9. /\ unused \in Seq(1 .. bufs) /\ IsInjective(unused)
      /\ \A x \in ToSet(unused) : x \in ToSet(free) /\ x \notin ToSet(own)
  <2>1. CASE n =< l
    <3>1. n \in 0 .. Len(free)
      BY <1>1, <2>1 DEF l
    <3>2. /\ unused \in Seq(1 .. bufs) /\ Len(unused) = l - n
          /\ \A i \in 1 .. l - n : unused[i] = free[n + i]
      BY <3>1, Halves DEF l
    <3>3. IsInjective(unused) /\ \A x \in ToSet(unused) : x \in ToSet(free)
      BY <3>1, HalvesApart DEF l
    <3> HIDE DEF unused
    <3>4. ASSUME NEW x \in ToSet(unused), x \in ToSet(own) PROVE FALSE
      <4>1. PICK i \in 1 .. n : x = own[i]
        BY <1>8, <3>4
      <4>2. PICK j \in 1 .. l - n : x = free[n + j]
        <5>1. DOMAIN unused = 1 .. l - n
          BY <3>2
        <5> QED BY <3>2, <5>1 DEF ToSet
      <4>3. i \in 1 .. l /\ n + j \in 1 .. l /\ i # n + j /\ own[i] = free[i]
        BY <1>1, <1>5, <2>1
      <4> QED BY <1>3, <4>1, <4>2, <4>3
    <3> QED BY <3>2, <3>3, <3>4
  <2>2. CASE ~ (n =< l)
    <3>1. unused = <<>>
      <4>1. n + 1 \in Int /\ l \in Int /\ l < n + 1
        BY <1>1, <2>2
      <4> QED BY <4>1, SubSeqEmpty
    <3> HIDE DEF unused
    <3>2. unused \in Seq(1 .. bufs) /\ DOMAIN unused = {}
      BY <3>1
    <3> QED BY <3>2 DEF IsInjective, ToSet
  <2> QED BY <2>1, <2>2
<1>10. \A x \in ToSet(own) : x \in ToSet(free) \/ x > bufs
  BY <1>8
<1> HIDE DEF unused
<1> QED BY <1>4, <1>6, <1>7, <1>9, <1>10 DEF own, created, unused, l

-------------------------------------------------------------------------------
(* The invariant                                                            *)

\* Every variable has its type.
Typed ==
    /\ response \in Responses /\ headed \in BOOLEAN /\ installed \in BOOLEAN
    /\ announced \in BOOLEAN /\ ended \in BOOLEAN /\ buffered \in BOOLEAN /\ hung \in BOOLEAN
    /\ received \in Seq(Byte) /\ sent \in Seq(Byte) /\ line_in \in Seq(Byte)
    /\ matched \in [DOMAIN response.pairs -> BOOLEAN]
    /\ bufs \in Nat /\ free \in Seq(1 .. bufs)
    /\ busy \in Seq(0 .. bufs) /\ down \in Seq(0 .. bufs)
    /\ mem \in [0 .. bufs -> Seq(Byte)]
    /\ \A b \in 1 .. bufs : Len(mem[b]) <= BufSize
    /\ tail \in {"none", "queued", "sent"}

\* The end of the body is queued only when it has come; before that, and without
\* the filter, no buffer of its own queue is the empty one.
Early == /\ ~ ended => tail = "none" /\ 0 \notin ToSet(busy)
         /\ ~ headed => ~ installed /\ ~ announced /\ ~ ended /\ received = <<>>
         /\ announced => ~ installed

\* Without the filter there are only the buffers of upstream: what the client has
\* not got of the body is in them, and they are held down exactly while something is.
Alone ==
    ~ installed =>
      /\ free = <<>> /\ busy = <<>> /\ line_in = <<>> /\ ~ buffered
      /\ Len(received) = Len(sent) + Len(mem[0])
      /\ down = IF mem[0] = <<>> THEN <<>> ELSE <<0>>
      /\ tail = "sent" => mem[0] = <<>>

IInv == Typed /\ Early /\ Alone /\ NoReuseInFlight /\ BufferedMeansHeld

-------------------------------------------------------------------------------
(* What is handed down                                                      *)

\* Sending takes bytes from the buffers, and adds none.
LEMMA DrainedType ==
    ASSUME NEW N \in Nat, NEW q \in Seq(0 .. N), NEW m \in [0 .. N -> Seq(Byte)], NEW k \in Nat
    PROVE  /\ Drained(q, m, k) \in [0 .. N -> Seq(Byte)]
           /\ \A b \in 0 .. N : Len(Drained(q, m, k)[b]) <= Len(m[b])
<1> DEFINE at(b) == SelectInSeq(q, LAMBDA c : c = b)
           gone(b) == k - Before(q, m, at(b))
           after(b) == IF at(b) = 0 \/ gone(b) <= 0 THEN m[b]
                       ELSE SubSeq(m[b], gone(b) + 1, Len(m[b]))
<1>1. Drained(q, m, k) = [b \in 0 .. N |-> after(b)]
  BY DEF Drained
<1>2. ASSUME NEW b \in 0 .. N PROVE after(b) \in Seq(Byte) /\ Len(after(b)) <= Len(m[b])
  <2> DEFINE i == at(b)
             g == gone(b)
  <2>1. i \in 0 .. Len(q)
    <3> DEFINE I == {j \in 1 .. Len(q) : q[j] = b}
    <3>1. i = IF I # {} THEN Min(I) ELSE 0
      BY Zenon DEF SelectInSeq
    <3>2. I \in SUBSET Nat /\ I \in SUBSET (1 .. Len(q)) /\ Len(q) \in Nat
      OBVIOUS
    <3> HIDE DEF I, i
    <3>3. I # {} => Min(I) \in 1 .. Len(q)
      BY <3>2, MinIn
    <3> QED BY <3>1, <3>2, <3>3
  <2>2. m[b] \in Seq(Byte) /\ Len(m[b]) \in Nat
    OBVIOUS
  <2>3. CASE i = 0 \/ g <= 0
    BY <2>2, <2>3
  <2>4. CASE ~ (i = 0) /\ ~ (g <= 0)
    <3>1. g \in Int
      <4> DEFINE head == [j \in 1 .. i - 1 |-> m[q[j]]]
      <4>1. g = k - Len(FlattenSeq(head))
        BY DEF Before
      <4>2. head \in Seq(Seq(Byte))
        <5>1. \A j \in 1 .. i - 1 : m[q[j]] \in Seq(Byte)
          <6> SUFFICES ASSUME NEW j \in 1 .. i - 1 PROVE m[q[j]] \in Seq(Byte)
            OBVIOUS
          <6> HIDE DEF i
          <6>1. q[j] \in 0 .. N
            BY <2>1
          <6> QED BY <6>1
        <5> HIDE DEF i
        <5>2. i - 1 \in Nat
          BY <2>1, <2>4
        <5>3. head \in [1 .. i - 1 -> Seq(Byte)]
          BY <5>1
        <5> HIDE DEF head
        <5> QED BY <5>2, <5>3, IsSeq
      <4> HIDE DEF head
      <4>3. FlattenSeq(head) \in Seq(Byte)
        BY <4>2, FlattenType
      <4> HIDE DEF g
      <4> QED BY <4>1, <4>3
    <3>2. after(b) = SubSeq(m[b], g + 1, Len(m[b]))
      BY <2>4
    <3> HIDE DEF g, i, after
    <3>3. g + 1 \in Int /\ \A j \in g + 1 .. Len(m[b]) : m[b][j] \in Byte
      BY <2>2, <2>4, <3>1
    <3>4. /\ SubSeq(m[b], g + 1, Len(m[b])) \in Seq(Byte)
          /\ Len(SubSeq(m[b], g + 1, Len(m[b]))) = IF g + 1 =< Len(m[b]) THEN Len(m[b]) - (g + 1) + 1 ELSE 0
      BY <2>2, <3>3, SubSeqProperties
    <3> QED BY <2>2, <2>4, <3>1, <3>2, <3>4
  <2> QED BY <2>3, <2>4
<1> HIDE DEF after
<1> QED BY <1>1, <1>2

\* What a call of the later filters does to the buffers and to the client.
LEMMA SendIs ==
    ASSUME NEW N \in Nat, down \in Seq(0 .. N), NEW out \in Seq(0 .. N),
           NEW m \in [0 .. N -> Seq(Byte)], NEW last \in BOOLEAN,
           sent \in Seq(Byte), tail \in {"none", "queued", "sent"},
           NextBodyFilter(out, m, last)
    PROVE  /\ mem' \in [0 .. N -> Seq(Byte)] /\ \A b \in 0 .. N : Len(mem'[b]) <= Len(m[b])
           /\ down' \in Seq(0 .. N)
           /\ \A b \in ToSet(down') : (b \in ToSet(down) \/ b \in ToSet(out)) /\ mem'[b] # <<>>
           /\ sent' \in Seq(Byte) /\ tail' \in {"none", "queued", "sent"}
           /\ tail = "none" /\ ~ last => tail' = "none"
<1> DEFINE q == down \o out
           parts == [i \in DOMAIN q |-> m[q[i]]]
           text == FlattenSeq(parts)
           end == IF last /\ tail = "none" THEN "queued" ELSE tail
<1>1. PICK k \in 0 .. Len(text) :
        /\ mem' = Drained(q, m, k) /\ down' = Unsent(q, mem')
        /\ sent' = sent \o SubSeq(text, 1, k)
        /\ \/ tail' = end
           \/ end = "queued" /\ down' = <<>> /\ tail' = "sent"
  BY DEF NextBodyFilter
<1>2. q \in Seq(0 .. N) /\ \A x : x \in ToSet(q) <=> x \in ToSet(down) \/ x \in ToSet(out)
  BY JoinedSet
<1> HIDE DEF q
<1>3. text \in Seq(Byte)
  <2>1. parts \in Seq(Seq(Byte))
    <3>1. Len(q) \in Nat /\ DOMAIN q = 1 .. Len(q) /\ \A i \in 1 .. Len(q) : q[i] \in 0 .. N
      BY <1>2, SeqIs
    <3>2. parts \in [1 .. Len(q) -> Seq(Byte)]
      BY <3>1
    <3> HIDE DEF parts
    <3> QED BY <3>1, <3>2, IsSeq
  <2> HIDE DEF parts
  <2> QED BY <2>1, FlattenType
<1> HIDE DEF text
<1>4. k \in Nat
  BY <1>3
<1>5. mem' \in [0 .. N -> Seq(Byte)] /\ \A b \in 0 .. N : Len(mem'[b]) <= Len(m[b])
  BY <1>1, <1>2, <1>4, DrainedType
<1>6. /\ down' \in Seq(0 .. N)
      /\ \A b \in ToSet(down') : b \in ToSet(q) /\ mem'[b] # <<>>
  BY <1>1, <1>2, UnsentIs
<1>7. sent' \in Seq(Byte)
  <2>1. \A i \in 1 .. k : text[i] \in Byte
    BY <1>3, <1>4
  <2>2. SubSeq(text, 1, k) \in Seq(Byte)
    BY <1>4, <2>1, SubSeqProperties
  <2> QED BY <1>1, <2>2
<1>8. tail' \in {"none", "queued", "sent"} /\ (tail = "none" /\ ~ last => tail' = "none")
  BY <1>1
<1> QED BY <1>2, <1>5, <1>6, <1>7, <1>8

\* A chain that goes past the filter, or the empty one that asks for more of what
\* the later filters hold.
LEMMA PassType ==
    ASSUME Typed, NEW text \in Seq(Byte), NEW last \in BOOLEAN, Pass(text, last)
    PROVE  /\ UNCHANGED filter
           /\ mem' \in [0 .. bufs -> Seq(Byte)] /\ \A b \in 1 .. bufs : Len(mem'[b]) <= BufSize
           /\ down' \in Seq(0 .. bufs)
           /\ \A b \in ToSet(down') : b \in ToSet(down) \/ (b = 0 /\ text # <<>>)
           /\ sent' \in Seq(Byte) /\ tail' \in {"none", "queued", "sent"}
           /\ tail = "none" /\ ~ last => tail' = "none"
<1> DEFINE out == IF text = <<>> \/ Contains(down, 0) THEN <<>> ELSE <<0>>
           m == [mem EXCEPT ![0] = @ \o text]
<1>1. UNCHANGED filter /\ NextBodyFilter(out, m, last)
  BY DEF Pass
<1>2. /\ bufs \in Nat /\ down \in Seq(0 .. bufs) /\ mem \in [0 .. bufs -> Seq(Byte)]
      /\ sent \in Seq(Byte) /\ tail \in {"none", "queued", "sent"} /\ BufSize \in Nat
      /\ \A b \in 1 .. bufs : Len(mem[b]) <= BufSize
  BY SizeAssumption DEF Typed
<1>3. /\ m \in [0 .. bufs -> Seq(Byte)] /\ \A b \in 1 .. bufs : m[b] = mem[b]
  <2>1. 0 \in 0 .. bufs /\ mem[0] \o text \in Seq(Byte)
    BY <1>2
  <2> QED BY <1>2, <2>1
<1>4. out \in Seq(0 .. bufs) /\ \A b \in ToSet(out) : b = 0 /\ text # <<>>
  <2>1. CASE out = <<>>
    <3> HIDE DEF out
    <3>1. out \in Seq(0 .. bufs) /\ DOMAIN out = {}
      BY <2>1
    <3> QED BY <3>1 DEF ToSet
  <2>2. CASE out # <<>>
    <3>1. text # <<>> /\ out = <<0>> /\ 0 \in 0 .. bufs
      BY <1>2, <2>2
    <3> HIDE DEF out
    <3>2. out \in Seq(0 .. bufs) /\ DOMAIN out = {1} /\ out[1] = 0
      BY <3>1
    <3> QED BY <3>1, <3>2 DEF ToSet
  <2> QED BY <2>1, <2>2
<1> HIDE DEF out, m
<1>5. /\ mem' \in [0 .. bufs -> Seq(Byte)] /\ \A b \in 0 .. bufs : Len(mem'[b]) <= Len(m[b])
      /\ down' \in Seq(0 .. bufs)
      /\ \A b \in ToSet(down') : (b \in ToSet(down) \/ b \in ToSet(out)) /\ mem'[b] # <<>>
      /\ sent' \in Seq(Byte) /\ tail' \in {"none", "queued", "sent"}
      /\ tail = "none" /\ ~ last => tail' = "none"
  BY <1>1, <1>2, <1>3, <1>4, SendIs
<1>6. ASSUME NEW b \in 1 .. bufs PROVE Len(mem'[b]) <= BufSize
  <2>1. b \in 0 .. bufs /\ m[b] = mem[b] /\ Len(mem[b]) <= BufSize
    BY <1>2, <1>3
  <2>2. mem'[b] \in Seq(Byte) /\ mem[b] \in Seq(Byte) /\ Len(mem'[b]) <= Len(mem[b])
    BY <1>2, <1>5, <2>1
  <2> QED BY <1>2, <2>1, <2>2
<1> QED BY <1>1, <1>4, <1>5, <1>6

\* The queue of upstream's own buffers.
LEMMA SendOwn ==
    ASSUME NEW N \in Nat, NEW m \in [0 .. N -> Seq(Byte)], NEW k \in Nat
    PROVE  /\ Drained(<<0>>, m, k)[0] = IF k = 0 THEN m[0] ELSE SubSeq(m[0], k + 1, Len(m[0]))
           /\ Drained(<<>>, m, k)[0] = m[0]
<1> DEFINE at(q) == SelectInSeq(q, LAMBDA c : c = 0)
           gone(q) == k - Before(q, m, at(q))
<1>1. 0 \in DOMAIN m
  OBVIOUS
<1>2. ASSUME NEW q PROVE Drained(q, m, k)[0] = IF at(q) = 0 \/ gone(q) <= 0 THEN m[0]
                                               ELSE SubSeq(m[0], gone(q) + 1, Len(m[0]))
  BY <1>1 DEF Drained
<1>3. at(<<>>) = 0
  <2>1. {i \in 1 .. Len(<<>>) : <<>>[i] = 0} = {}
    OBVIOUS
  <2>2. at(<<>>) = IF {i \in 1 .. Len(<<>>) : <<>>[i] = 0} # {}
                   THEN Min({i \in 1 .. Len(<<>>) : <<>>[i] = 0}) ELSE 0
    BY Zenon DEF SelectInSeq
  <2> QED BY <2>1, <2>2
<1>4. at(<<0>>) = 1
  <2> DEFINE I == {i \in 1 .. Len(<<0>>) : <<0>>[i] = 0}
  <2>1. I = {1}
    OBVIOUS
  <2>2. at(<<0>>) = IF I # {} THEN Min(I) ELSE 0
    BY Zenon DEF SelectInSeq
  <2>3. {1} \in SUBSET Nat /\ {1} # {}
    OBVIOUS
  <2>4. Min({1}) = 1
    BY <2>3, MinIn
  <2> HIDE DEF I
  <2> QED BY <2>1, <2>2, <2>3, <2>4
<1>5. gone(<<0>>) = k
  <2>1. [j \in 1 .. 1 - 1 |-> m[<<0>>[j]]] = <<>>
    OBVIOUS
  <2>2. Before(<<0>>, m, 1) = Len(FlattenSeq(<<>>))
    BY <2>1 DEF Before
  <2>3. Len(FlattenSeq(<<>>)) = 0
    BY DEF FlattenSeq
  <2> QED BY <1>4, <2>2, <2>3
<1>6. gone(<<0>>) <= 0 <=> k = 0
  BY <1>5
<1> HIDE DEF at, gone
<1> QED BY SMTT(30), <1>2, <1>3, <1>4, <1>5, <1>6

\* The list of no buffer, and that of the one that is not of the pool.
LEMMA UnsentOwn ==
    ASSUME NEW m
    PROVE  Unsent(<<>>, m) = <<>> /\ Unsent(<<0>>, m) = IF m[0] = <<>> THEN <<>> ELSE <<0>>
<1> DEFINE none == <<>>
           one == <<0>>
<1>1. none \in Seq({0}) /\ Len(none) = 0 /\ one \in Seq({0}) /\ Len(one) = 1 /\ one[1] = 0
  OBVIOUS
<1>2. none = <<>> /\ Append(none, 0) = one
  OBVIOUS
<1> HIDE DEF none, one
<1>3. Unsent(none, m) = none
  <2>1. PICK r : Keeps(r, {0}, none, m)
    BY <1>1, UnsentSteps
  <2> QED BY <1>1, <1>2, <2>1 DEF Keeps
<1>4. Unsent(one, m) = IF m[0] = <<>> THEN none ELSE one
  <2>1. PICK r : Keeps(r, {0}, one, m)
    BY <1>1, UnsentSteps
  <2>2. r[0] = none /\ Unsent(one, m) = r[1]
    BY <1>1, <1>2, <2>1 DEF Keeps
  <2>3. r[1] = IF m[0] = <<>> THEN r[0] ELSE Append(r[0], 0)
    <3>1. r[1] = IF m[one[1]] = <<>> THEN r[1 - 1] ELSE Append(r[1 - 1], one[1])
      BY <1>1, <2>1 DEF Keeps
    <3>2. 1 - 1 = 0
      OBVIOUS
    <3> QED BY <1>1, <3>1, <3>2
  <2> QED BY <1>1, <1>2, <2>2, <2>3
<1> QED BY <1>2, <1>3, <1>4 DEF one

\* Without the filter nothing of the body is lost or sent twice.
LEMMA PassAlone ==
    ASSUME Typed, Alone, ~ installed, tail # "sent", NEW text \in Seq(Byte), NEW last \in BOOLEAN,
           Pass(text, last)
    PROVE  /\ Len(sent') + Len(mem'[0]) = Len(sent) + Len(mem[0]) + Len(text)
           /\ down' = IF mem'[0] = <<>> THEN <<>> ELSE <<0>>
           /\ tail' = "sent" => mem'[0] = <<>>
<1> DEFINE out == IF text = <<>> \/ Contains(down, 0) THEN <<>> ELSE <<0>>
           m == [mem EXCEPT ![0] = @ \o text]
           q == down \o out
           all == FlattenSeq([i \in DOMAIN q |-> m[q[i]]])
           end == IF last /\ tail = "none" THEN "queued" ELSE tail
<1>1. PICK k \in 0 .. Len(all) :
        /\ mem' = Drained(q, m, k) /\ down' = Unsent(q, mem')
        /\ sent' = sent \o SubSeq(all, 1, k)
        /\ \/ tail' = end
           \/ end = "queued" /\ down' = <<>> /\ tail' = "sent"
  BY DEF Pass, NextBodyFilter
<1>2. /\ bufs \in Nat /\ mem \in [0 .. bufs -> Seq(Byte)] /\ 0 \in 0 .. bufs
      /\ sent \in Seq(Byte) /\ down = IF mem[0] = <<>> THEN <<>> ELSE <<0>>
  BY DEF Typed, Alone
<1>3. m \in [0 .. bufs -> Seq(Byte)] /\ m[0] = mem[0] \o text /\ m[0] \in Seq(Byte)
      /\ mem[0] \in Seq(Byte)
  <2>1. mem[0] \o text \in Seq(Byte)
    BY <1>2
  <2> QED BY <1>2, <2>1
<1>4. q = IF m[0] = <<>> THEN <<>> ELSE <<0>>
  <2>1. CASE mem[0] # <<>>
    <3>1. down = <<0>> /\ Contains(down, 0)
      BY <1>2, <2>1 DEF Contains
    <3>2. q = <<0>>
      BY <3>1
    <3>3. m[0] # <<>>
      BY <1>3, <2>1, ConcatEqualIffEmpty
    <3> QED BY <3>2, <3>3
  <2>2. CASE mem[0] = <<>>
    <3>1. down = <<>> /\ ~ Contains(down, 0) /\ m[0] = text
      BY <1>2, <1>3, <2>2 DEF Contains
    <3>2. q = IF text = <<>> THEN <<>> ELSE <<0>>
      BY <3>1
    <3> HIDE DEF q, m
    <3> QED BY <3>1, <3>2
  <2> QED BY <2>1, <2>2
<1>5. all = m[0]
  <2> DEFINE parts == [i \in DOMAIN q |-> m[q[i]]]
  <2> HIDE DEF m
  <2>1. CASE m[0] = <<>>
    <3>1. q = <<>>
      BY <1>4, <2>1
    <3> HIDE DEF q
    <3>2. parts = <<>>
      BY <3>1
    <3> HIDE DEF parts
    <3>3. FlattenSeq(parts) = <<>>
      BY <3>2 DEF FlattenSeq
    <3> QED BY <2>1, <3>3 DEF parts
  <2>2. CASE m[0] # <<>>
    <3>1. q = <<0>>
      BY <1>4, <2>2
    <3> HIDE DEF q
    <3>2. parts = <<m[0]>>
      BY <3>1
    <3> HIDE DEF parts
    <3>3. FlattenSeq(parts) = m[0]
      BY <3>2, FlattenOne
    <3> QED BY <3>3 DEF parts
  <2> QED BY <2>1, <2>2
<1> HIDE DEF all, m, q, out
<1>6. k \in Nat /\ k =< Len(m[0])
  BY <1>1, <1>3, <1>5
<1>7. mem'[0] = IF k = 0 THEN m[0] ELSE SubSeq(m[0], k + 1, Len(m[0]))
  <2>1. CASE m[0] = <<>>
    <3>1. q = <<>> /\ k = 0
      BY <1>4, <1>6, <2>1
    <3> QED BY <1>1, <1>2, <1>3, <1>6, <3>1, SendOwn
  <2>2. CASE m[0] # <<>>
    <3>1. q = <<0>>
      BY <1>4, <2>2
    <3> QED BY <1>1, <1>2, <1>3, <1>6, <3>1, SendOwn
  <2> QED BY <2>1, <2>2
<1>8. Len(mem'[0]) = Len(m[0]) - k
  <2>1. CASE k = 0
    BY <1>3, <1>7, <2>1
  <2>2. CASE k # 0
    <3> DEFINE l == Len(m[0])
    <3>1. k + 1 \in Int /\ l \in Nat /\ \A i \in k + 1 .. l : m[0][i] \in Byte
      BY <1>3, <1>6
    <3>2. Len(SubSeq(m[0], k + 1, l)) = IF k + 1 =< l THEN l - (k + 1) + 1 ELSE 0
      BY <3>1, SubSeqProperties
    <3>3. mem'[0] = SubSeq(m[0], k + 1, l)
      BY <1>7, <2>2
    <3> HIDE DEF l
    <3>4. k =< l
      BY <1>6 DEF l
    <3>5. Len(mem'[0]) = l - k
      BY <1>6, <3>1, <3>2, <3>3, <3>4
    <3> QED BY <3>5 DEF l
  <2> QED BY <2>1, <2>2
<1>9. Len(sent') = Len(sent) + k
  <2>1. \A i \in 1 .. k : all[i] \in Byte
    BY <1>3, <1>5, <1>6
  <2>2. SubSeq(all, 1, k) \in Seq(Byte) /\ Len(SubSeq(all, 1, k)) = IF 1 =< k THEN k - 1 + 1 ELSE 0
    BY <1>6, <2>1, SubSeqProperties
  <2>3. sent' = sent \o SubSeq(all, 1, k)
    BY <1>1
  <2>4. Len(SubSeq(all, 1, k)) = k
    BY <1>6, <2>2
  <2> QED BY <1>2, <2>2, <2>3, <2>4, ConcatProperties
<1>10. Len(m[0]) = Len(mem[0]) + Len(text)
  BY <1>3, ConcatProperties
<1>11. down' = IF mem'[0] = <<>> THEN <<>> ELSE <<0>>
  <2>1. CASE m[0] = <<>>
    <3>1. q = <<>> /\ k = 0 /\ mem'[0] = <<>>
      BY <1>4, <1>6, <1>7, <2>1
    <3> QED BY <1>1, <3>1, UnsentOwn
  <2>2. CASE m[0] # <<>>
    <3>1. q = <<0>>
      BY <1>4, <2>2
    <3> QED BY <1>1, <3>1, UnsentOwn
  <2> QED BY <2>1, <2>2
<1>12. tail' = "sent" => mem'[0] = <<>>
  <2> SUFFICES ASSUME tail' = "sent" PROVE mem'[0] = <<>>
    OBVIOUS
  <2>1. end # "sent"
    OBVIOUS
  <2> HIDE DEF end
  <2>2. down' = <<>>
    BY <1>1, <2>1
  <2>3. <<>> # <<0>>
    OBVIOUS
  <2> QED BY <1>11, <2>2, <2>3
<1>13. Len(sent') + Len(mem'[0]) = Len(sent) + Len(mem[0]) + Len(text)
  <2> DEFINE a == Len(sent)
             b == Len(mem[0])
             c == Len(text)
             e == Len(m[0])
  <2>1. a \in Nat /\ b \in Nat /\ c \in Nat /\ e = b + c
    BY <1>2, <1>3, <1>10, SeqIs
  <2>2. Len(sent') = a + k /\ Len(mem'[0]) = e - k
    BY <1>8, <1>9
  <2> HIDE DEF a, b, c, e
  <2>3. (a + k) + (e - k) = a + b + c
    BY <1>6, <2>1
  <2> QED BY <2>2, <2>3 DEF a, b, c
<1> QED BY <1>11, <1>12, <1>13

\* What is taken back has been sent, and the rest of the queue is busy.
LEMMA TakenBack ==
    ASSUME NEW N \in Nat, NEW q \in Seq(0 .. N), IsInjective(q),
           NEW unused \in Seq(1 .. N), IsInjective(unused),
           \A x \in ToSet(q) : x \notin ToSet(unused), NEW m, UpdateChains(q, m, unused)
    PROVE  /\ busy' \in Seq(0 .. N) /\ IsInjective(busy')
           /\ free' \in Seq(1 .. N) /\ IsInjective(free')
           /\ \A x \in ToSet(free') : /\ x \in ToSet(unused) \/ (x \in ToSet(q) /\ m[x] = <<>>)
                                      /\ x \notin ToSet(busy')
           /\ \A x \in ToSet(busy') : x \in ToSet(q)
           /\ \A x \in ToSet(q) : m[x] # <<>> => x \in ToSet(busy')
<1> DEFINE n == Reclaimable(q, m)
           a == SubSeq(q, 1, n)
           b == SubSeq(q, n + 1, Len(q))
<1>1. n \in 0 .. Len(q) /\ \A j \in 1 .. n : m[q[j]] = <<>>
  BY ReclaimableIs
<1>2. busy' = b /\ free' = Pool(a, unused)
  BY Zenon DEF UpdateChains, Pool
<1> HIDE DEF n
<1>3. /\ a \in Seq(0 .. N) /\ Len(a) = n /\ b \in Seq(0 .. N)
      /\ \A i \in 1 .. n : a[i] = q[i]
  BY <1>1, Halves
<1>4. /\ IsInjective(a) /\ IsInjective(b)
      /\ \A x \in ToSet(a) : x \notin ToSet(b) /\ x \in ToSet(q)
      /\ \A x \in ToSet(b) : x \in ToSet(q)
      /\ \A x \in ToSet(q) : x \in ToSet(a) \/ x \in ToSet(b)
  BY <1>1, HalvesApart
<1> HIDE DEF a, b
<1>5. \A x \in ToSet(a) : m[x] = <<>>
  <2> SUFFICES ASSUME NEW x \in ToSet(a) PROVE m[x] = <<>>
    OBVIOUS
  <2>1. DOMAIN a = 1 .. n
    BY <1>3, SeqIs
  <2>2. PICK i \in 1 .. n : x = a[i]
    BY <2>1 DEF ToSet
  <2> QED BY <1>1, <1>3, <2>2
<1>6. unused \in Seq(0 .. N) /\ \A x \in ToSet(unused) : x \in 1 .. N
  <2>1. 1 .. N \subseteq 0 .. N
    OBVIOUS
  <2>2. unused \in Seq(0 .. N)
    BY <2>1, SeqMonotonic
  <2> QED BY <2>2 DEF ToSet
<1>7. \A x \in ToSet(a) : x \notin ToSet(unused)
  BY <1>4
<1>8. /\ free' \in Seq(0 .. N) /\ IsInjective(free')
      /\ \A x \in ToSet(free') : x \in ToSet(unused) \/ (x # 0 /\ x \in ToSet(a))
  BY <1>2, <1>3, <1>4, <1>6, <1>7, PoolIs
<1>9. free' \in Seq(1 .. N)
  <2>1. Len(free') \in Nat /\ DOMAIN free' = 1 .. Len(free') /\ free' \in [1 .. Len(free') -> 0 .. N]
    BY <1>8, LenProperties
  <2>2. \A i \in 1 .. Len(free') : free'[i] \in 1 .. N
    <3> SUFFICES ASSUME NEW i \in 1 .. Len(free') PROVE free'[i] \in 1 .. N
      OBVIOUS
    <3>1. free'[i] \in ToSet(free') /\ free'[i] \in 0 .. N
      BY <2>1 DEF ToSet
    <3> QED BY <1>6, <1>8, <3>1
  <2>3. free' \in [1 .. Len(free') -> 1 .. N]
    BY <2>1, <2>2
  <2> QED BY <2>1, <2>3, IsSeq
<1>10. ASSUME NEW x \in ToSet(free')
       PROVE  /\ x \in ToSet(unused) \/ (x \in ToSet(q) /\ m[x] = <<>>)
              /\ x \notin ToSet(busy')
  BY <1>2, <1>4, <1>5, <1>8
<1>11. \A x \in ToSet(q) : m[x] # <<>> => x \in ToSet(busy')
  BY <1>2, <1>4, <1>5
<1> QED BY <1>2, <1>3, <1>4, <1>8, <1>9, <1>10, <1>11

\* What is in the buffers when output has been put in some of them.
Contents(own, pieces, created) ==
    [b \in 0 .. created |->
       IF Contains(own, b) THEN pieces[SelectInSeq(own, LAMBDA o : o = b)]
       ELSE IF b <= bufs THEN mem[b] ELSE <<>>]

\* The memory of the buffers after new ones were filled.
LEMMA ContentsType ==
    ASSUME bufs \in Nat, mem \in [0 .. bufs -> Seq(Byte)],
           \A b \in 1 .. bufs : Len(mem[b]) <= BufSize,
           NEW N \in Nat, NEW own \in Seq(1 .. N), NEW pieces \in Seq(Seq(Byte)),
           Len(own) = Len(pieces), \A i \in 1 .. Len(pieces) : Len(pieces[i]) =< BufSize
    PROVE  /\ Contents(own, pieces, N) \in [0 .. N -> Seq(Byte)]
           /\ \A b \in 1 .. N : Len(Contents(own, pieces, N)[b]) <= BufSize
<1> DEFINE at(b) == SelectInSeq(own, LAMBDA o : o = b)
           in(b) == IF Contains(own, b) THEN pieces[at(b)] ELSE IF b <= bufs THEN mem[b] ELSE <<>>
<1>1. Contents(own, pieces, N) = [b \in 0 .. N |-> in(b)]
  BY DEF Contents
<1>2. ASSUME NEW b \in 0 .. N PROVE in(b) \in Seq(Byte) /\ (b # 0 => Len(in(b)) <= BufSize)
  <2>1. CASE Contains(own, b)
    <3> DEFINE I == {i \in 1 .. Len(own) : own[i] = b}
    <3>1. at(b) = IF I # {} THEN Min(I) ELSE 0
      BY Zenon DEF SelectInSeq
    <3>2. I # {} /\ I \in SUBSET Nat
      <4>1. PICK i \in 1 .. Len(own) : own[i] = b
        BY <2>1, Zenon DEF Contains
      <4>2. i \in I
        BY <4>1
      <4>3. I \in SUBSET Nat
        OBVIOUS
      <4> HIDE DEF I
      <4> QED BY <4>2, <4>3
    <3>3. Min(I) \in I
      <4> HIDE DEF I
      <4> QED BY <3>2, MinIn
    <3>4. at(b) \in 1 .. Len(pieces)
      BY <3>1, <3>2, <3>3
    <3>5. in(b) = pieces[at(b)]
      BY <2>1
    <3> HIDE DEF in, at, I
    <3>6. pieces[at(b)] \in Seq(Byte)
      BY <3>4, SeqIs
    <3> QED BY <3>4, <3>5, <3>6
  <2>2. CASE ~ Contains(own, b) /\ b <= bufs
    <3>1. in(b) = mem[b] /\ b \in 0 .. bufs
      BY <2>2
    <3> QED BY <3>1
  <2>3. CASE ~ Contains(own, b) /\ ~ (b <= bufs)
    <3>1. in(b) = <<>>
      BY <2>3
    <3>2. <<>> \in Seq(Byte) /\ Len(<<>>) = 0 /\ BufSize \in Nat
      BY SizeAssumption
    <3> HIDE DEF in
    <3> QED BY <3>1, <3>2
  <2> QED BY <2>1, <2>2, <2>3
<1> HIDE DEF in
<1>3. Contents(own, pieces, N) \in [0 .. N -> Seq(Byte)]
  BY <1>1, <1>2
<1>4. \A b \in 1 .. N : Len(Contents(own, pieces, N)[b]) <= BufSize
  BY <1>1, <1>2
<1> QED BY <1>3, <1>4

\* Output: a call that hands down nothing, while nothing is busy, leaves the
\* buffers as they are.
LEMMA NothingOut ==
    ASSUME Typed, NEW c \in Gathered, NEW chain, NEW last \in BOOLEAN, busy = <<>>,
           GetChainBufs(Len(Pieces(c.out))) = <<>>, IsInjective(free)
    PROVE  Max({bufs, bufs + Len(Pieces(c.out)) - Len(free)}) = bufs
<1> DEFINE n == Len(Pieces(c.out))
           l == Len(free)
<1>1. c.out \in Seq(Byte)
  BY DEF Gathered
<1>2. n \in Nat
  BY <1>1, PiecesType
<1>3. bufs \in Nat /\ free \in Seq(1 .. bufs)
  BY DEF Typed
<1>4. l \in Nat
  BY <1>3, SeqIs
<1>5. Len(GetChainBufs(n)) = n
  <2> HIDE DEF n
  <2> QED BY <1>2, <1>3, OwnIs
<1>6. n = 0
  BY <1>5
<1> HIDE DEF n, l
<1>7. bufs \in Int /\ bufs + n - l \in Int
  BY <1>2, <1>3, <1>4
<1>8. Max({bufs, bufs + n - l}) \in {bufs, bufs + n - l} /\ bufs =< Max({bufs, bufs + n - l})
  BY <1>7, MaxOfTwo
<1> QED BY <1>3, <1>4, <1>6, <1>8 DEF n, l

\* What a call of ngx_http_subs_output does to the buffers, their queues and the
\* flag.
Handed(c, chain, last) ==
    /\ line_in' = c.line /\ matched' = c.matched /\ UNCHANGED <<installed, hung>>
    /\ bufs' \in Nat /\ free' \in Seq(1 .. bufs') /\ busy' \in Seq(0 .. bufs')
    /\ down' \in Seq(0 .. bufs') /\ mem' \in [0 .. bufs' -> Seq(Byte)]
    /\ \A b \in 1 .. bufs' : Len(mem'[b]) <= BufSize
    /\ sent' \in Seq(Byte) /\ tail' \in {"none", "queued", "sent"}
    /\ IsInjective(free') /\ IsInjective(busy')
    /\ \A x \in ToSet(free') : x \notin ToSet(busy') /\ x \notin ToSet(down')
    /\ \A x \in ToSet(down') : x \in ToSet(busy')
    /\ ~ last => (0 \in ToSet(busy') => 0 \in ToSet(busy)) /\ (tail = "none" => tail' = "none")
    /\ buffered' \in BOOLEAN /\ (~ last => buffered')
    /\ last /\ (busy # <<>> \/ chain # <<>>) => ~ buffered'

\* Every buffer is free, in flight or on its way down after Output, and none twice.
LEMMA OutputHands ==
    ASSUME Typed, NoReuseInFlight, installed, NEW c \in Gathered, NEW chain, NEW last \in BOOLEAN,
           last /\ chain # <<>> => 0 \notin ToSet(busy), Output(c, chain, last)
    PROVE  Handed(c, chain, last)
<1> DEFINE pieces == Pieces(c.out)
           n == Len(pieces)
           own == GetChainBufs(n)
           N == Max({bufs, bufs + n - Len(free)})
           m == Contents(own, pieces, N)
           out == IF last /\ chain # <<>> /\ own = <<>> THEN <<0>> ELSE own
           unused == SubSeq(free, Len(own) + 1, Len(free))
           q == busy \o out
<1>1. /\ bufs \in Nat /\ free \in Seq(1 .. bufs) /\ busy \in Seq(0 .. bufs)
      /\ down \in Seq(0 .. bufs) /\ mem \in [0 .. bufs -> Seq(Byte)]
      /\ \A b \in 1 .. bufs : Len(mem[b]) <= BufSize
      /\ sent \in Seq(Byte) /\ tail \in {"none", "queued", "sent"}
  BY DEF Typed
<1>2. /\ IsInjective(free) /\ IsInjective(busy)
      /\ \A x \in ToSet(free) : x \notin ToSet(busy) /\ x \notin ToSet(down)
      /\ \A x \in ToSet(down) : x \in ToSet(busy)
  BY DEF NoReuseInFlight
<1>3. /\ pieces \in Seq(Seq(Byte)) /\ n \in Nat
      /\ \A i \in 1 .. n : Len(pieces[i]) =< BufSize
  <2>1. c.out \in Seq(Byte)
    BY DEF Gathered
  <2> QED BY <2>1, PiecesType
<1>4. /\ line_in' = c.line /\ matched' = c.matched /\ UNCHANGED <<installed, hung>>
      /\ bufs' = N
      /\ \/ /\ out = <<>> /\ busy = <<>>
            /\ buffered' = TRUE
            /\ UNCHANGED <<wire, free, busy>>
         \/ /\ out # <<>> \/ busy # <<>>
            /\ NextBodyFilter(own, m, last)
            /\ UpdateChains(q, mem', unused)
            /\ buffered' = FlagAfterOutput(last)
  BY Zenon DEF Output, Contents
<1>5. CASE out = <<>> /\ busy = <<>>
  <2>1. own = <<>> /\ ~ (last /\ chain # <<>>)
    <3> HIDE DEF own
    <3> QED BY <1>5
  <2>2. bufs' = bufs
    BY <1>2, <1>4, <1>5, <2>1, NothingOut
  <2> HIDE DEF out, own, N, m, unused, q, n
  <2>3. buffered' = TRUE /\ UNCHANGED <<mem, down, tail, sent, free, busy>>
    BY <1>4, <1>5 DEF wire
  <2> QED BY <1>1, <1>2, <1>4, <1>5, <2>1, <2>2, <2>3 DEF Handed
<1>6. CASE out # <<>> \/ busy # <<>>
  <2>1. /\ NextBodyFilter(own, m, last) /\ UpdateChains(q, mem', unused)
        /\ buffered' = ~ last /\ bufs' = N
    <3> HIDE DEF out, own, N, m, unused, q
    <3> QED BY <1>4, <1>6 DEF FlagAfterOutput
  <2>2. /\ N \in Nat /\ bufs =< N
        /\ own \in Seq(1 .. N) /\ Len(own) = n /\ IsInjective(own)
        /\ \A x \in ToSet(own) : x \in ToSet(free) \/ x > bufs
    <3> HIDE DEF n
    <3> QED BY <1>1, <1>2, <1>3, OwnIs
  <2>3. /\ unused \in Seq(1 .. bufs) /\ IsInjective(unused)
        /\ \A x \in ToSet(unused) : x \in ToSet(free) /\ x \notin ToSet(own)
    <3>1. unused = SubSeq(free, n + 1, Len(free))
      BY <2>2
    <3> HIDE DEF n, unused
    <3> QED BY <1>1, <1>2, <1>3, <3>1, OwnIs
  <2> HIDE DEF n, N, own, unused
  <2>4. /\ m \in [0 .. N -> Seq(Byte)]
        /\ \A b \in 1 .. N : Len(m[b]) <= BufSize
    <3> HIDE DEF pieces
    <3> QED BY <1>1, <1>3, <2>2, ContentsType DEF n
  <2> HIDE DEF m
  <2>5. /\ 0 .. bufs \subseteq 0 .. N /\ 1 .. bufs \subseteq 1 .. N /\ 1 .. N \subseteq 0 .. N
        /\ busy \in Seq(0 .. N) /\ down \in Seq(0 .. N) /\ unused \in Seq(1 .. N)
        /\ own \in Seq(0 .. N)
    <3>1. 0 .. bufs \subseteq 0 .. N /\ 1 .. bufs \subseteq 1 .. N /\ 1 .. N \subseteq 0 .. N
      BY <1>1, <2>2
    <3> QED BY <1>1, <2>2, <2>3, <3>1, SeqMonotonic
  <2>6. /\ mem' \in [0 .. N -> Seq(Byte)] /\ \A b \in 0 .. N : Len(mem'[b]) <= Len(m[b])
        /\ down' \in Seq(0 .. N)
        /\ \A b \in ToSet(down') : (b \in ToSet(down) \/ b \in ToSet(own)) /\ mem'[b] # <<>>
        /\ sent' \in Seq(Byte) /\ tail' \in {"none", "queued", "sent"}
        /\ tail = "none" /\ ~ last => tail' = "none"
    BY <1>1, <2>1, <2>2, <2>4, <2>5, SendIs
  <2>7. /\ out \in Seq(0 .. N) /\ IsInjective(out)
        /\ \A x \in ToSet(out) : x \in ToSet(own) \/ (x = 0 /\ last /\ chain # <<>>)
        /\ \A x \in ToSet(own) : x \in ToSet(out)
    <3>1. CASE last /\ chain # <<>> /\ own = <<>>
      <4>1. out = <<0>> /\ 0 \in 0 .. N /\ ToSet(own) = {}
        BY <2>2, <3>1 DEF ToSet
      <4> HIDE DEF out
      <4>2. out \in Seq(0 .. N) /\ DOMAIN out = {1} /\ out[1] = 0
        BY <4>1
      <4> QED BY <3>1, <4>1, <4>2 DEF ToSet, IsInjective
    <3>2. CASE ~ (last /\ chain # <<>> /\ own = <<>>)
      <4>1. out = own
        BY <3>2
      <4> HIDE DEF out
      <4> QED BY <2>2, <2>5, <4>1
    <3> QED BY <3>1, <3>2
  <2> HIDE DEF out
  <2>8. \A x \in ToSet(own) : x \in 1 .. N
    BY <2>2, SeqIs DEF ToSet
  <2>9. \A x \in ToSet(busy) : x \in 0 .. bufs
    BY <1>1, SeqIs DEF ToSet
  <2>10. \A x \in ToSet(busy) : x \notin ToSet(out)
    <3> SUFFICES ASSUME NEW x \in ToSet(busy), x \in ToSet(out) PROVE FALSE
      OBVIOUS
    <3>1. CASE x \in ToSet(own)
      <4>1. x \in ToSet(free) \/ x > bufs
        BY <2>2, <3>1
      <4> QED BY <1>1, <1>2, <2>9, <4>1
    <3>2. CASE x = 0 /\ last /\ chain # <<>>
      BY <3>2
    <3> QED BY <2>7, <3>1, <3>2
  <2>11. /\ q \in Seq(0 .. N) /\ IsInjective(q)
         /\ \A x : x \in ToSet(q) <=> x \in ToSet(busy) \/ x \in ToSet(out)
    BY <1>2, <2>5, <2>7, <2>10, JoinedSet, JoinedOnce
  <2> HIDE DEF q
  <2>12. \A x \in ToSet(q) : x \notin ToSet(unused)
    <3> SUFFICES ASSUME NEW x \in ToSet(q), x \in ToSet(unused) PROVE FALSE
      OBVIOUS
    <3>1. x \in ToSet(free) /\ x \notin ToSet(own)
      BY <2>3
    <3>2. x \in 1 .. bufs
      BY <1>1, <3>1, SeqIs DEF ToSet
    <3>3. x # 0 /\ x \notin ToSet(busy)
      BY <1>1, <1>2, <3>1, <3>2
    <3> QED BY <2>7, <2>11, <3>1, <3>3
  <2>13. /\ busy' \in Seq(0 .. N) /\ IsInjective(busy')
         /\ free' \in Seq(1 .. N) /\ IsInjective(free')
         /\ \A x \in ToSet(free') : /\ x \in ToSet(unused) \/ (x \in ToSet(q) /\ mem'[x] = <<>>)
                                    /\ x \notin ToSet(busy')
         /\ \A x \in ToSet(busy') : x \in ToSet(q)
         /\ \A x \in ToSet(q) : mem'[x] # <<>> => x \in ToSet(busy')
    BY <2>1, <2>2, <2>3, <2>5, <2>11, <2>12, TakenBack
  <2>14. \A x \in ToSet(down') : x \in ToSet(busy')
    BY <1>2, <2>6, <2>7, <2>11, <2>13
  <2>15. \A x \in ToSet(free') : x \notin ToSet(busy') /\ x \notin ToSet(down')
    BY <2>13, <2>14
  <2>16. ASSUME NEW b \in 1 .. N PROVE Len(mem'[b]) <= BufSize
    <3>1. b \in 0 .. N /\ Len(mem'[b]) <= Len(m[b]) /\ Len(m[b]) <= BufSize
      BY <2>4, <2>5, <2>6
    <3>2. mem'[b] \in Seq(Byte) /\ m[b] \in Seq(Byte)
      BY <2>4, <2>6, <3>1
    <3>3. Len(mem'[b]) \in Nat /\ Len(m[b]) \in Nat /\ BufSize \in Nat
      BY <3>2, SeqIs, SizeAssumption
    <3> QED BY <3>1, <3>3
  <2>17. ASSUME ~ last, 0 \in ToSet(busy') PROVE 0 \in ToSet(busy)
    <3>1. 0 \in ToSet(busy) \/ 0 \in ToSet(out)
      BY <2>11, <2>13, <2>17
    <3>2. 0 \notin ToSet(own)
      BY <2>2, <2>8
    <3> QED BY <2>7, <2>17, <3>1, <3>2
  <2>18. /\ bufs' \in Nat /\ free' \in Seq(1 .. bufs') /\ busy' \in Seq(0 .. bufs')
         /\ down' \in Seq(0 .. bufs') /\ mem' \in [0 .. bufs' -> Seq(Byte)]
         /\ \A b \in 1 .. bufs' : Len(mem'[b]) <= BufSize
    BY <2>1, <2>2, <2>6, <2>13, <2>16
  <2>19. buffered' \in BOOLEAN /\ (~ last => buffered') /\ (last => ~ buffered')
    BY <2>1
  <2> QED BY <1>4, <2>6, <2>13, <2>14, <2>15, <2>17, <2>18, <2>19 DEF Handed
<1> QED BY <1>4, <1>5, <1>6

-------------------------------------------------------------------------------
(* The steps                                                                *)

\* The invariant holds before the response has come.
LEMMA InitInv == Init => IInv
<1> SUFFICES ASSUME Init PROVE IInv
  OBVIOUS
<1>1. <<>> \in Seq(Byte) /\ Len(<<>>) = 0
  OBVIOUS
<1>2. DOMAIN mem = {0} /\ mem[0] = <<>> /\ mem \in [0 .. 0 -> Seq(Byte)]
  <2>1. 0 .. 0 = {0}
    OBVIOUS
  <2> QED BY <1>1, <2>1 DEF Init
<1>3. ToSet(free) = {} /\ ToSet(busy) = {} /\ ToSet(down) = {}
  BY DEF Init, ToSet
<1>4. IsInjective(free) /\ IsInjective(busy)
  BY DEF Init, IsInjective
<1>5. <<>> \in Seq(1 .. 0) /\ <<>> \in Seq(0 .. 0)
  OBVIOUS
<1>6. Typed
  <2>1. matched \in [DOMAIN response.pairs -> BOOLEAN]
    BY DEF Init
  <2>2. bufs = 0 /\ \A b \in 1 .. bufs : FALSE
    BY DEF Init
  <2>3. mem \in [0 .. bufs -> Seq(Byte)] /\ free \in Seq(1 .. bufs) /\ busy \in Seq(0 .. bufs)
        /\ down \in Seq(0 .. bufs) /\ bufs \in Nat
    BY <1>2, <1>5, <2>2 DEF Init
  <2>4. received \in Seq(Byte) /\ sent \in Seq(Byte) /\ line_in \in Seq(Byte)
    BY <1>1 DEF Init
  <2> QED BY <2>1, <2>2, <2>3, <2>4 DEF Init, Typed
<1>7. Early
  BY <1>3 DEF Init, Early
<1>8. Alone
  BY <1>1, <1>2 DEF Init, Alone
<1>9. NoReuseInFlight
  BY <1>3, <1>4 DEF Init, NoReuseInFlight
<1>10. BufferedMeansHeld
  BY DEF Init, BufferedMeansHeld
<1> QED BY <1>6, <1>7, <1>8, <1>9, <1>10 DEF IInv

\* Before anything of the body has come, nothing is held down.
LEMMA NothingHeld ==
    ASSUME Typed, Alone, ~ installed, received = <<>>
    PROVE  mem[0] = <<>> /\ down = <<>>
<1>1. mem[0] \in Seq(Byte) /\ sent \in Seq(Byte)
  <2>1. 0 \in 0 .. bufs /\ mem \in [0 .. bufs -> Seq(Byte)]
    BY DEF Typed
  <2> QED BY <2>1 DEF Typed
<1> DEFINE a == Len(sent)
           b == Len(mem[0])
<1>2. a \in Nat /\ b \in Nat
  BY <1>1, SeqIs
<1>3. Len(received) = a + b /\ down = IF mem[0] = <<>> THEN <<>> ELSE <<0>>
  BY DEF Alone
<1>4. Len(received) = 0
  OBVIOUS
<1> HIDE DEF a, b
<1>5. b = 0
  BY <1>2, <1>3, <1>4
<1>6. mem[0] = <<>>
  BY <1>1, <1>5 DEF b
<1> QED BY <1>3, <1>6

\* The header filter keeps it.
LEMMA HeaderInv == ASSUME IInv, HeaderFilter PROVE IInv'
<1>1. /\ ~ headed /\ headed' = TRUE /\ installed' \in BOOLEAN
      /\ announced' = (response.length /\ ~ installed')
      /\ UNCHANGED <<response, received, ended, line_in, matched, bufs, free, busy,
                     buffered, hung, mem, down, tail, sent>>
  BY DEF HeaderFilter, LengthKept, wire
<1>2. Typed /\ Early /\ Alone /\ NoReuseInFlight /\ BufferedMeansHeld
  BY DEF IInv
<1>3. ~ installed /\ ~ ended /\ received = <<>>
  BY <1>1, <1>2 DEF Early
<1>4. down = <<>>
  BY <1>2, <1>3, NothingHeld
<1>7. ToSet(down) = {}
  BY <1>4 DEF ToSet
<1>8. announced' \in BOOLEAN
  <2>1. response.length \in BOOLEAN
    BY <1>2, ResponsesAssumption DEF Typed
  <2> QED BY <1>1, <2>1
<1>9. Typed'
  BY <1>1, <1>2, <1>8 DEF Typed
<1>10. Early'
  BY <1>1, <1>2 DEF Early
<1>11. Alone'
  BY <1>1, <1>2, <1>3 DEF Alone
<1>12. NoReuseInFlight'
  BY <1>1, <1>2, <1>7 DEF NoReuseInFlight
<1>13. BufferedMeansHeld'
  BY <1>1, <1>2 DEF BufferedMeansHeld
<1> QED BY <1>9, <1>10, <1>11, <1>12, <1>13 DEF IInv

\* A chain that goes past the filter.
LEMMA PassInv ==
    ASSUME IInv, headed, NEW text \in Seq(Byte), NEW last \in BOOLEAN, Pass(text, last),
           tail # "sent", installed => busy = <<>> /\ text = <<>>,
           UNCHANGED <<response, headed, announced>>, received' \in Seq(Byte),
           Len(received') = Len(received) + Len(text),
           ended' \in BOOLEAN, ended => ended', last => ended', installed => ended' = ended
    PROVE  IInv'
<1>1. Typed /\ Early /\ Alone /\ NoReuseInFlight /\ BufferedMeansHeld
  BY DEF IInv
<1>2. /\ UNCHANGED <<installed, line_in, matched, bufs, free, busy, buffered, hung>>
      /\ mem' \in [0 .. bufs -> Seq(Byte)] /\ \A b \in 1 .. bufs : Len(mem'[b]) <= BufSize
      /\ down' \in Seq(0 .. bufs)
      /\ \A b \in ToSet(down') : b \in ToSet(down) \/ (b = 0 /\ text # <<>>)
      /\ sent' \in Seq(Byte) /\ tail' \in {"none", "queued", "sent"}
      /\ tail = "none" /\ ~ last => tail' = "none"
  BY <1>1, PassType DEF filter
<1>3. Typed'
  BY <1>1, <1>2 DEF Typed
<1>4. Early'
  BY <1>1, <1>2 DEF Early
<1>5. Alone'
  <2>1. CASE installed
    BY <1>2, <2>1 DEF Alone
  <2>2. CASE ~ installed
    <3>1. /\ Len(sent') + Len(mem'[0]) = Len(sent) + Len(mem[0]) + Len(text)
          /\ down' = IF mem'[0] = <<>> THEN <<>> ELSE <<0>>
          /\ tail' = "sent" => mem'[0] = <<>>
      BY <1>1, <2>2, PassAlone
    <3>2. /\ free = <<>> /\ busy = <<>> /\ line_in = <<>> /\ ~ buffered
          /\ Len(received) = Len(sent) + Len(mem[0])
      BY <1>1, <2>2 DEF Alone
    <3>3. Len(received') = Len(sent') + Len(mem'[0])
      BY <3>1, <3>2
    <3> QED BY <1>2, <3>1, <3>2, <3>3 DEF Alone
  <2> QED BY <2>1, <2>2
<1>6. NoReuseInFlight'
  <2>1. CASE installed
    <3>1. ToSet(busy) = {}
      BY <2>1 DEF ToSet
    <3>2. ToSet(down) = {}
      BY <1>1, <2>1, <3>1 DEF NoReuseInFlight
    <3>3. \A b \in ToSet(down') : FALSE
      BY <1>2, <2>1, <3>2
    <3> QED BY <1>1, <1>2, <3>3 DEF NoReuseInFlight
  <2>2. CASE ~ installed
    <3>1. free = <<>>
      BY <1>1, <2>2 DEF Alone
    <3>2. ToSet(free) = {}
      BY <3>1 DEF ToSet
    <3> QED BY <1>1, <1>2, <2>2, <3>2 DEF NoReuseInFlight
  <2> QED BY <2>1, <2>2
<1>7. BufferedMeansHeld'
  <2>1. CASE installed
    BY <1>1, <1>2, <2>1 DEF BufferedMeansHeld
  <2>2. CASE ~ installed
    BY <1>1, <1>2, <2>2 DEF BufferedMeansHeld, Alone
  <2> QED BY <2>1, <2>2
<1> QED BY <1>3, <1>4, <1>5, <1>6, <1>7 DEF IInv

\* A chain that the filter works on.
LEMMA SubstituteInv ==
    ASSUME IInv, headed, installed, ~ hung, NEW chain \in Seq(Seq(Byte)), NEW last \in BOOLEAN,
           Substitute(chain, last),
           UNCHANGED <<response, headed, announced>>, received' \in Seq(Byte), ended' = last,
           \/ ~ ended /\ chain # <<>>
           \/ ended = last /\ chain = <<>> /\ busy # <<>>
    PROVE  IInv'
<1> DEFINE c == Gather(chain, last)
<1>1. Typed /\ Early /\ NoReuseInFlight /\ BufferedMeansHeld
  BY DEF IInv
<1>2. response.pairs \in Seq(Pair)
  BY <1>1, ResponsesAssumption DEF Typed
<1>3. /\ c \in Gathered
      /\ last /\ chain # <<>> => c.line = <<>>
      /\ chain = <<>> => c.line = line_in
  BY <1>1, <1>2, GatherType DEF Typed
<1>4. \/ hung' = TRUE /\ UNCHANGED <<installed, line_in, matched, bufs, free, busy, buffered, wire>>
      \/ Output(c, chain, last)
  BY DEF Substitute
<1> HIDE DEF c
<1>5. CASE hung' = TRUE /\ UNCHANGED <<installed, line_in, matched, bufs, free, busy, buffered, wire>>
  <2>1. /\ hung' = TRUE /\ UNCHANGED <<installed, line_in, matched, bufs, free, busy, buffered>>
        /\ UNCHANGED <<mem, down, tail, sent>>
    BY <1>5 DEF wire
  <2>2. Typed'
    BY <1>1, <2>1 DEF Typed
  <2>3. Early'
    BY <1>1, <2>1 DEF Early
  <2>4. Alone'
    BY <2>1 DEF Alone
  <2>5. NoReuseInFlight'
    BY <1>1, <2>1 DEF NoReuseInFlight
  <2>6. BufferedMeansHeld'
    BY <1>1, <2>1 DEF BufferedMeansHeld
  <2> QED BY <2>2, <2>3, <2>4, <2>5, <2>6 DEF IInv
<1>6. CASE Output(c, chain, last)
  <2>1. last /\ chain # <<>> => 0 \notin ToSet(busy)
    BY <1>1 DEF Early
  <2>2. Handed(c, chain, last)
    BY <1>1, <1>3, <1>6, <2>1, OutputHands
  <2>3. /\ c.line \in Seq(Byte) /\ c.matched \in [DOMAIN response.pairs -> BOOLEAN]
    BY <1>3 DEF Gathered
  <2>4. Typed'
    BY <1>1, <2>2, <2>3 DEF Typed, Handed
  <2>5. Early'
    BY <1>1, <2>2 DEF Early, Handed
  <2>6. Alone'
    BY <2>2 DEF Alone, Handed
  <2>7. NoReuseInFlight'
    BY <2>2 DEF NoReuseInFlight, Handed
  <2>8. BufferedMeansHeld'
    <3>1. CASE ~ last
      BY <2>2, <3>1 DEF BufferedMeansHeld, Handed
    <3>2. CASE last
      <4>1. ~ buffered'
        BY <2>2, <3>2 DEF Handed
      <4>2. c.line = <<>>
        BY <1>1, <1>3, <3>2 DEF BufferedMeansHeld
      <4> QED BY <2>2, <4>1, <4>2 DEF BufferedMeansHeld, Handed
    <3> QED BY <3>1, <3>2
  <2> QED BY <2>4, <2>5, <2>6, <2>7, <2>8 DEF IInv
<1> QED BY <1>4, <1>5, <1>6

\* A chain from upstream keeps it.
LEMMA ReceiveInv ==
    ASSUME IInv, NEW chain \in Chains, NEW last \in BOOLEAN, Receive(chain, last) PROVE IInv'
<1> DEFINE text == FlattenSeq(chain)
<1>1. chain \in Seq(Seq(Byte)) /\ chain # <<>>
  BY ChainsAssumption
<1>2. text \in Seq(Byte)
  BY <1>1, FlattenType
<1>3. /\ headed /\ ~ ended /\ ~ hung /\ received' = received \o text /\ ended' = last
      /\ UNCHANGED <<response, headed, announced>>
      /\ IF installed THEN Substitute(chain, last) ELSE Pass(text, last)
  BY DEF Receive
<1> HIDE DEF text
<1>4. received \in Seq(Byte) /\ tail = "none"
  BY <1>3 DEF IInv, Typed, Early
<1>5. received' \in Seq(Byte) /\ Len(received') = Len(received) + Len(text)
  BY <1>2, <1>3, <1>4, ConcatProperties
<1>6. CASE installed
  BY <1>1, <1>3, <1>5, <1>6, SubstituteInv
<1>7. CASE ~ installed
  BY <1>2, <1>3, <1>4, <1>5, <1>7, PassInv
<1> QED BY <1>6, <1>7

\* So does a call without a chain.
LEMMA FlushInv == ASSUME IInv, Flush PROVE IInv'
<1> DEFINE none == <<>>
<1>1. /\ ~ hung /\ (down # <<>> \/ tail = "queued")
      /\ IF installed /\ busy # <<>> THEN Substitute(none, ended) ELSE Pass(none, FALSE)
      /\ UNCHANGED <<response, headed, announced, received, ended>>
  BY DEF Flush
<1>2. none \in Seq(Seq(Byte)) /\ none \in Seq(Byte) /\ Len(none) = 0 /\ none = <<>>
  OBVIOUS
<1> HIDE DEF none
<1>3. received \in Seq(Byte) /\ ended \in BOOLEAN
  BY DEF IInv, Typed
<1>4. Len(received') = Len(received) + Len(none) /\ received' \in Seq(Byte)
  BY <1>1, <1>2, <1>3
<1>5. headed
  <2> SUFFICES ASSUME ~ headed PROVE FALSE
    OBVIOUS
  <2>1. ~ installed /\ ~ ended /\ received = <<>> /\ tail = "none"
    BY DEF IInv, Early
  <2>2. down = <<>>
    BY <2>1, NothingHeld DEF IInv
  <2> QED BY <1>1, <2>1, <2>2
<1>6. CASE installed /\ busy # <<>>
  BY <1>1, <1>2, <1>3, <1>4, <1>5, <1>6, SubstituteInv
<1>7. CASE ~ (installed /\ busy # <<>>)
  <2>1. tail # "sent"
    <3> SUFFICES ASSUME tail = "sent" PROVE FALSE
      OBVIOUS
    <3>1. down # <<>>
      BY <1>1
    <3>2. CASE installed
      <4>1. busy = <<>>
        BY <1>7, <3>2
      <4>2. ToSet(down) \subseteq ToSet(busy)
        BY <3>2 DEF IInv, NoReuseInFlight
      <4>3. ToSet(busy) = {}
        BY <4>1 DEF ToSet
      <4>4. down \in Seq(0 .. bufs)
        BY DEF IInv, Typed
      <4>5. 1 \in DOMAIN down
        BY <3>1, <4>4
      <4> QED BY <4>2, <4>3, <4>5 DEF ToSet
    <3>3. CASE ~ installed
      BY <3>1, <3>3 DEF IInv, Alone
    <3> QED BY <3>2, <3>3
  <2>2. Pass(none, FALSE) /\ FALSE \in BOOLEAN
    BY <1>1, <1>7
  <2> QED BY <1>1, <1>2, <1>3, <1>4, <1>5, <1>7, <2>1, <2>2, PassInv
<1> QED BY <1>6, <1>7

\* Every step keeps it.
LEMMA StepInv == IInv /\ [Next]_vars => IInv'
<1> SUFFICES ASSUME IInv, [Next]_vars PROVE IInv'
  OBVIOUS
<1>1. CASE HeaderFilter
  BY <1>1, HeaderInv
<1>2. CASE \E chain \in Chains, last \in BOOLEAN : Receive(chain, last)
  BY <1>2, ReceiveInv
<1>3. CASE Flush
  BY <1>3, FlushInv
<1>4. CASE UNCHANGED vars
  <2>1. UNCHANGED <<response, headed, announced, received, ended, installed, line_in, matched,
                    bufs, free, busy, buffered, hung, mem, down, tail, sent>>
    BY <1>4 DEF vars, filter, wire
  <2> QED BY <2>1 DEF IInv, Typed, Early, Alone, NoReuseInFlight, BufferedMeansHeld
<1> QED BY <1>1, <1>2, <1>3, <1>4 DEF Next

-------------------------------------------------------------------------------
(* The theorems                                                             *)

\* In every state of the filter the inductive invariant holds: the parts are typed,
\* the response is where its flags say, a body that is passed on is untouched, and
\* the buffers are accounted for.
THEOREM TypedAlways == Spec => []IInv
<1>1. Init => IInv
  BY InitInv
<1>2. IInv /\ [Next]_vars => IInv'
  BY StepInv
<1> QED BY <1>1, <1>2, PTL DEF Spec

\* Every variable keeps its type, and no buffer is filled past its end, whatever
\* the texts and the size of the buffers.
THEOREM TypeCorrect == Spec => []TypeOK
<1>1. IInv => TypeOK
  <2> SUFFICES ASSUME Typed PROVE TypeOK
    BY DEF IInv
  <2>1. DOMAIN matched = DOMAIN response.pairs /\ DOMAIN mem = 0 .. bufs
    BY DEF Typed
  <2>2. ToSet(free) \subseteq 1 .. bufs
    <3>1. free \in Seq(1 .. bufs)
      BY DEF Typed
    <3> QED BY <3>1, ElementsIn
  <2>3. ToSet(busy) \cup ToSet(down) \subseteq 0 .. bufs
    <3>1. busy \in Seq(0 .. bufs) /\ down \in Seq(0 .. bufs)
      BY DEF Typed
    <3>2. ToSet(busy) \subseteq 0 .. bufs /\ ToSet(down) \subseteq 0 .. bufs
      BY <3>1, ElementsIn
    <3> QED BY <3>2
  <2> QED BY <2>1, <2>2, <2>3 DEF Typed, TypeOK
<1> QED BY <1>1, TypedAlways, PTL

\* However slowly the client reads, a buffer that the later filters have not sent
\* is not one that get_chain_buf may hand out, and none is on offer twice.
THEOREM ReuseCorrect == Spec => []NoReuseInFlight
<1>1. IInv => NoReuseInFlight
  BY DEF IInv
<1> QED BY <1>1, TypedAlways, PTL

\* The flag is up while bytes of a line wait in the filter, and down when the
\* body has ended.
THEOREM BufferedCorrect == Spec => []BufferedMeansHeld
<1>1. IInv => BufferedMeansHeld
  BY DEF IInv
<1> QED BY <1>1, TypedAlways, PTL

\* A client that was told a length is sent so many bytes, if it is told that the
\* body has ended.
THEOREM LengthCorrect == Spec => []LengthHonest
<1>1. IInv => LengthHonest
  <2> SUFFICES ASSUME IInv, announced, tail = "sent" PROVE Len(sent) = Len(received)
    BY DEF LengthHonest
  <2>1. ~ installed
    BY DEF IInv, Early
  <2>2. Len(received) = Len(sent) + Len(mem[0]) /\ mem[0] = <<>>
    BY <2>1 DEF IInv, Alone
  <2>3. Len(mem[0]) = 0
    BY <2>2
  <2>4. Len(sent) \in Nat
    BY SeqIs DEF IInv, Typed
  <2> QED BY <2>2, <2>3, <2>4
<1> QED BY <1>1, TypedAlways, PTL

===============================================================================
