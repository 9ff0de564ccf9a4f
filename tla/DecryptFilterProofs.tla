------------------------- MODULE DecryptFilterProofs -------------------------
(***************************************************************************)
(* Proofs about the decryption of responses, for all responses, divisions  *)
(* into buffers and calls: the loop over the packets of a buffer ends, as  *)
(* each turn leaves less to do, and the filter stays within its types.     *)
(***************************************************************************)
EXTENDS DecryptFilter, SequenceLemmas, SequenceTheorems

-------------------------------------------------------------------------------
(* Bytes                                                                    *)

\* The bytes are strings; the provers do not know it of those that are written
\* out in the model, so they are named here.
Signs == {"\"", ">", "<", "'", "&"}
Byte == STRING \cup {Unreadable} \cup {ByteAt(n) : n \in Escapes}
          \cup {Letters[i] : i \in DOMAIN Cipher} \cup {Hidden[b] : b \in DOMAIN Hidden}
          \cup DOMAIN HexDigits \cup Signs
Bytestring == Seq(Byte)

-------------------------------------------------------------------------------
(* Decoding does not lengthen                                               *)

\* Where a text is replaced by at most one byte, the whole does not grow.
LEMMA ReplacedShorter ==
    ASSUME NEW d \in Bytestring, NEW old, NEW new \in Bytestring, Len(new) =< 1
    PROVE  Replaced(d, old, new) \in Bytestring /\ Len(Replaced(d, old, new)) =< Len(d)
<1> DEFINE at == Places(d, old, 1)
           Piece(i) == CASE i \in at -> new
                         [] \E k \in at : k < i /\ i < k + Len(old) -> <<>>
                         [] OTHER -> <<d[i]>>
           f == [i \in DOMAIN d |-> Piece(i)]
           n == Len(d)
<1>1. n \in Nat /\ DOMAIN d = 1 .. n
  BY DEF Bytestring
<1>2. Replaced(d, old, new) = IF at = {} THEN d ELSE FlattenSeq(f)
  BY DEF Replaced
<1>3. ASSUME NEW i \in 1 .. n PROVE Piece(i) \in Bytestring /\ Len(Piece(i)) =< 1
  <2>1. <<d[i]>> \in Bytestring /\ Len(<<d[i]>>) = 1
    BY <1>1 DEF Bytestring
  <2>2. <<>> \in Bytestring /\ Len(<<>>) = 0
    BY DEF Bytestring
  <2> HIDE DEF at
  <2> QED BY <2>1, <2>2
<1> HIDE DEF Piece
<1>4. f \in [1 .. n -> Seq(Byte)] /\ \A i \in 1 .. n : Len(f[i]) =< 1
  BY <1>1, <1>3 DEF Bytestring
<1> HIDE DEF f, n, at
<1>5. FlattenSeq(f) \in Seq(Byte) /\ Len(FlattenSeq(f)) =< n
  BY <1>1, <1>4, Flattened, FlattenedShort
<1> QED BY <1>1, <1>2, <1>5 DEF Bytestring, n

\* The text of a page that stands for a character stands for no more than one.
LEMMA EntitiesShort ==
    /\ Len(Entities) = 6 /\ DOMAIN Entities = 1 .. 6
    /\ \A i \in 1 .. 6 : Entities[i][2] \in Bytestring /\ Len(Entities[i][2]) =< 1
<1> DEFINE Shown(i) == Entities[i][2]
           One(i) == \E b \in Signs : Shown(i) = <<b>>
<1>1. Len(Entities) = 6 /\ DOMAIN Entities = 1 .. 6
  BY DEF Entities
<1>2. /\ Entities[1][2] = <<"\"">> /\ Entities[2][2] = <<>> /\ Entities[3][2] = <<">">>
      /\ Entities[4][2] = <<"<">> /\ Entities[5][2] = <<"'">> /\ Entities[6][2] = <<"&">>
  BY DEF Entities
<1>3. One(1) /\ One(3) /\ One(4) /\ One(5) /\ One(6)
  BY <1>2, Zenon DEF Signs
<1>4. Shown(2) = <<>>
  BY <1>2, Zenon
<1> HIDE DEF Shown
<1>5. ASSUME NEW i \in 1 .. 6 PROVE Shown(i) \in Bytestring /\ Len(Shown(i)) =< 1
  <2>1. CASE i = 2
    <3>1. <<>> \in Seq(Byte) /\ Len(<<>>) = 0
      OBVIOUS
    <3>2. Shown(i) = <<>>
      BY <1>4, <2>1
    <3> DEFINE t == Shown(i)
    <3>3. t \in Seq(Byte) /\ Len(t) = 0
      BY <3>1, <3>2
    <3> HIDE DEF t
    <3>4. t \in Bytestring /\ Len(t) =< 1
      BY <3>3 DEF Bytestring
    <3> QED BY <3>4 DEF t
  <2>2. CASE i # 2
    <3>1. One(i)
      <4>1. i = 1 \/ i = 3 \/ i = 4 \/ i = 5 \/ i = 6
        BY <2>2
      <4> HIDE DEF One
      <4> QED BY <1>3, <4>1
    <3>2. PICK b \in Signs : Shown(i) = <<b>>
      BY <3>1
    <3>3. b \in Byte
      BY DEF Byte
    <3>4. <<b>> \in Seq(Byte) /\ Len(<<b>>) = 1
      BY <3>3
    <3> QED BY <3>2, <3>4 DEF Bytestring
  <2> QED BY <2>1, <2>2
<1> QED BY <1>1, <1>5 DEF Shown

\* There are twenty escapes, each of them for a byte.
LEMMA EscapesAre == Escapes = 1 .. 20 /\ \A n \in 1 .. 20 : ByteAt(n) \in Byte
<1>1. Escapes = 1 .. 20
  BY DEF EscapedBytes, Escapes
<1> QED BY <1>1 DEF Byte

\* Decrypt_AES256 keeps the length.
LEMMA DecryptedSame ==
    ASSUME NEW s \in Bytestring
    PROVE  Decrypt_AES256(s) \in Bytestring /\ Len(Decrypt_AES256(s)) = Len(s)
<1>1. Len(s) \in Nat /\ DOMAIN s = 1 .. Len(s) /\ \A i \in 1 .. Len(s) : s[i] \in Byte
  BY DEF Bytestring
<1>2. \A x \in DOMAIN Hidden : Hidden[x] \in Byte
  BY DEF Byte
<1>3. \A i \in DOMAIN Cipher : Letters[i] \in Byte
  BY DEF Byte
<1>4. Unreadable \in Byte
  BY DEF Byte
<1>5. Decrypt_AES256(s) \in [1 .. Len(s) -> Byte]
  BY <1>1, <1>2, <1>3, <1>4 DEF Decrypt_AES256
<1> QED BY <1>1, <1>5 DEF Bytestring

\* ReplaceBase64Code makes one byte of two.
LEMMA ByteOfType == ASSUME NEW high, NEW low PROVE ByteOf(high, low) \in Byte
BY DEF ByteOf, Byte

\* ReplaceBase64Code makes at most half as many bytes.
LEMMA BytesShorter ==
    ASSUME NEW d \in Bytestring
    PROVE  ReplaceBase64Code(d) \in Bytestring /\ Len(ReplaceBase64Code(d)) =< Len(d)
<1> DEFINE n == Len(d) \div 2
<1>1. Len(d) \in Nat
  BY DEF Bytestring
<1>2. n \in Nat /\ n =< Len(d)
  BY <1>1
<1>3. ReplaceBase64Code(d) \in [1 .. n -> Byte]
  BY ByteOfType DEF ReplaceBase64Code
<1> HIDE DEF n
<1> QED BY <1>2, <1>3 DEF Bytestring
\* The two loops of ReplaceHtmlCode.
WithoutEntities(d) == FoldLeft(LAMBDA s, e : Replaced(s, e[1], e[2]), d, Entities)
WithoutEscapes(d, at) == FoldLeft(LAMBDA s, n : Replaced(s, Escape(n), <<ByteAt(n)>>), d, at)

\* The first loop of ReplaceHtmlCode does not lengthen the text.
LEMMA EntitiesShorter ==
    ASSUME NEW base \in Bytestring
    PROVE  WithoutEntities(base) \in Bytestring /\ Len(WithoutEntities(base)) =< Len(base)
<1> DEFINE T == {t \in Bytestring : Len(t) =< Len(base)}
           n == Len(Entities)
           Put(t, e) == Replaced(t, e[1], e[2])
           F(it) == [s \in SUBSET DOMAIN Entities |->
                       IF s = {} THEN base ELSE Put(it[s \ {Max(s)}], Entities[Max(s)])]
           step == [p \in T \X (1 .. n) |-> Put(p[1], Entities[p[2]])]
<1>1. n \in Nat /\ DOMAIN Entities = 1 .. n /\ base \in T
  <2>1. Len(base) \in Nat
    BY DEF Bytestring
  <2> QED BY <2>1, EntitiesShort
<1>2. ASSUME NEW t \in T, NEW i \in 1 .. n PROVE Put(t, Entities[i]) \in T
  <2>1. Entities[i][2] \in Bytestring /\ Len(Entities[i][2]) =< 1
    BY EntitiesShort
  <2>2. Replaced(t, Entities[i][1], Entities[i][2]) \in Bytestring /\ Len(Replaced(t, Entities[i][1], Entities[i][2])) =< Len(t)
    BY <2>1, ReplacedShorter
  <2>3. Len(t) \in Nat /\ Len(base) \in Nat /\ Len(Replaced(t, Entities[i][1], Entities[i][2])) \in Nat
    BY <2>2 DEF Bytestring
  <2> QED BY <2>2, <2>3
<1>3. step \in Steps(T, n)
  <2> HIDE DEF Put, T, n
  <2> QED BY <1>2 DEF Steps
<1>4. WithoutEntities(base) = (CHOOSE it : it = F(it))[DOMAIN Entities]
  BY Zenon DEF FoldLeft, MapThenFoldSet, WithoutEntities
<1> HIDE DEF T, n
<1>5. \E it : it = F(it)
  <2> HIDE DEF step
  <2>1. PICK it : Unrolled(it, T, base, n, step)
    BY <1>1, <1>3, FoldExists
  <2> HIDE DEF Put
  <2>2. ASSUME NEW s \in SUBSET (1 .. n)
        PROVE  it[s] = IF s = {} THEN base ELSE Put(it[s \ {Max(s)}], Entities[Max(s)])
    <3>1. CASE s = {}
      BY <2>1, <3>1 DEF FoldAt, Unrolled
    <3>2. CASE s # {}
      <4>1. it[s \ {Max(s)}] \in T /\ Max(s) \in 1 .. n
        BY <1>1, <2>1, <3>2, MaxIndex DEF Unrolled
      <4>2. it[s] = step[<<it[s \ {Max(s)}], Max(s)>>]
        BY <2>1, <3>2 DEF FoldAt, Unrolled
      <4> QED BY <3>2, <4>1, <4>2 DEF step
    <3> QED BY <3>1, <3>2
  <2>3. it = F(it)
    BY <1>1, <2>1, <2>2 DEF Unrolled
  <2> HIDE DEF F
  <2> QED BY <2>3
<1>6. PICK it : it = F(it) /\ WithoutEntities(base) = it[DOMAIN Entities]
  <2> HIDE DEF F
  <2> QED BY <1>4, <1>5, Zenon
<1> HIDE DEF Put
<1>7. Unrolls(it, T, base, n, step)
  <2>1. it[{}] = base
    BY <1>6
  <2>2. ASSUME NEW s \in SUBSET (1 .. n), s # {}, it[s \ {Max(s)}] \in T
        PROVE  it[s] = step[<<it[s \ {Max(s)}], Max(s)>>]
    <3>1. it[s] = Put(it[s \ {Max(s)}], Entities[Max(s)]) /\ Max(s) \in 1 .. n
      BY <1>1, <1>6, <2>2, MaxIndex
    <3> QED BY <2>2, <3>1
  <2> HIDE DEF step, F
  <2> QED BY <2>1, <2>2 DEF Unrolls
<1> HIDE DEF F
<1> HIDE DEF step
<1>8. Sums(it, T, base, n, step)
  BY <1>1, <1>3, <1>7, FoldSteps
<1>9. it[1 .. n] \in T
  BY <1>1, <1>8 DEF Sums, Accumulates
<1> QED BY <1>1, <1>6, <1>9 DEF T

\* The second one does not either.
LEMMA EscapesShorter ==
    ASSUME NEW base \in Bytestring, NEW at \in Seq(Escapes)
    PROVE  WithoutEscapes(base, at) \in Bytestring /\ Len(WithoutEscapes(base, at)) =< Len(base)
<1> DEFINE T == {t \in Bytestring : Len(t) =< Len(base)}
           n == Len(at)
           Put(t, e) == Replaced(t, Escape(e), <<ByteAt(e)>>)
           F(it) == [s \in SUBSET DOMAIN at |->
                       IF s = {} THEN base ELSE Put(it[s \ {Max(s)}], at[Max(s)])]
           step == [p \in T \X (1 .. n) |-> Put(p[1], at[p[2]])]
<1>1. n \in Nat /\ DOMAIN at = 1 .. n /\ base \in T
  <2>1. Len(base) \in Nat
    BY DEF Bytestring
  <2> QED BY <2>1
<1>2. ASSUME NEW t \in T, NEW i \in 1 .. n PROVE Put(t, at[i]) \in T
  <2>1. <<ByteAt(at[i])>> \in Bytestring /\ Len(<<ByteAt(at[i])>>) =< 1
    <3>1. at[i] \in Escapes
      BY <1>1, SeqIs DEF n
    <3>2. ByteAt(at[i]) \in Byte
      BY <3>1, EscapesAre
    <3> QED BY <3>2 DEF Bytestring
  <2>2. Replaced(t, Escape(at[i]), <<ByteAt(at[i])>>) \in Bytestring /\ Len(Replaced(t, Escape(at[i]), <<ByteAt(at[i])>>)) =< Len(t)
    BY <2>1, ReplacedShorter
  <2>3. Len(t) \in Nat /\ Len(base) \in Nat /\ Len(Replaced(t, Escape(at[i]), <<ByteAt(at[i])>>)) \in Nat
    BY <2>2 DEF Bytestring
  <2> QED BY <2>2, <2>3
<1>3. step \in Steps(T, n)
  <2> HIDE DEF Put, T, n
  <2> QED BY <1>2 DEF Steps
<1>4. WithoutEscapes(base, at) = (CHOOSE it : it = F(it))[DOMAIN at]
  BY Zenon DEF FoldLeft, MapThenFoldSet, WithoutEscapes
<1> HIDE DEF T, n
<1>5. \E it : it = F(it)
  <2> HIDE DEF step
  <2>1. PICK it : Unrolled(it, T, base, n, step)
    BY <1>1, <1>3, FoldExists
  <2> HIDE DEF Put
  <2>2. ASSUME NEW s \in SUBSET (1 .. n)
        PROVE  it[s] = IF s = {} THEN base ELSE Put(it[s \ {Max(s)}], at[Max(s)])
    <3>1. CASE s = {}
      BY <2>1, <3>1 DEF FoldAt, Unrolled
    <3>2. CASE s # {}
      <4>1. it[s \ {Max(s)}] \in T /\ Max(s) \in 1 .. n
        BY <1>1, <2>1, <3>2, MaxIndex DEF Unrolled
      <4>2. it[s] = step[<<it[s \ {Max(s)}], Max(s)>>]
        BY <2>1, <3>2 DEF FoldAt, Unrolled
      <4> QED BY <3>2, <4>1, <4>2 DEF step
    <3> QED BY <3>1, <3>2
  <2>3. it = F(it)
    BY <1>1, <2>1, <2>2 DEF Unrolled
  <2> HIDE DEF F
  <2> QED BY <2>3
<1>6. PICK it : it = F(it) /\ WithoutEscapes(base, at) = it[DOMAIN at]
  <2> HIDE DEF F
  <2> QED BY <1>4, <1>5, Zenon
<1> HIDE DEF Put
<1>7. Unrolls(it, T, base, n, step)
  <2>1. it[{}] = base
    BY <1>6
  <2>2. ASSUME NEW s \in SUBSET (1 .. n), s # {}, it[s \ {Max(s)}] \in T
        PROVE  it[s] = step[<<it[s \ {Max(s)}], Max(s)>>]
    <3>1. it[s] = Put(it[s \ {Max(s)}], at[Max(s)]) /\ Max(s) \in 1 .. n
      BY <1>1, <1>6, <2>2, MaxIndex
    <3> QED BY <2>2, <3>1
  <2> HIDE DEF step, F
  <2> QED BY <2>1, <2>2 DEF Unrolls
<1> HIDE DEF F
<1> HIDE DEF step
<1>8. Sums(it, T, base, n, step)
  BY <1>1, <1>3, <1>7, FoldSteps
<1>9. it[1 .. n] \in T
  BY <1>1, <1>8 DEF Sums, Accumulates
<1> QED BY <1>1, <1>6, <1>9 DEF T

\* ReplaceHtmlCode and the decoding of a packet do not lengthen it.
LEMMA HtmlShorter ==
    ASSUME NEW d \in Bytestring
    PROVE  ReplaceHtmlCode(d) \in Bytestring /\ Len(ReplaceHtmlCode(d)) =< Len(d)
<1> DEFINE at == [n \in Escapes |-> n]
           plain == WithoutEntities(d)
<1>1. ReplaceHtmlCode(d) = WithoutEscapes(plain, at)
  BY Zenon DEF ReplaceHtmlCode, WithoutEscapes, WithoutEntities
<1>2. at \in Seq(Escapes)
  <2>1. at \in [1 .. 20 -> Escapes]
    BY EscapesAre
  <2> HIDE DEF at
  <2> QED BY <2>1, IsSeq
<1>3. plain \in Bytestring /\ Len(plain) =< Len(d)
  BY EntitiesShorter
<1> HIDE DEF plain, at
<1>4. /\ WithoutEscapes(plain, at) \in Bytestring
      /\ Len(WithoutEscapes(plain, at)) =< Len(plain)
  BY <1>2, <1>3, EscapesShorter
<1>5. Len(d) \in Nat /\ Len(plain) \in Nat /\ Len(WithoutEscapes(plain, at)) \in Nat
  BY <1>3, <1>4 DEF Bytestring
<1> QED BY <1>1, <1>3, <1>4, <1>5

\* The plain text of a packet is no longer than its ciphertext.
LEMMA PlainShorter ==
    ASSUME NEW type, NEW s \in Bytestring
    PROVE  PlainOf(type, s) \in Bytestring /\ Len(PlainOf(type, s)) =< Len(s)
<1> DEFINE html == ReplaceHtmlCode(s)
           code == IF type = 1 THEN ReplaceBase64Code(html) ELSE html
<1>1. html \in Bytestring /\ Len(html) =< Len(s)
  BY HtmlShorter
<1> HIDE DEF html
<1>2. code \in Bytestring /\ Len(code) =< Len(html)
  <2>1. ReplaceBase64Code(html) \in Bytestring /\ Len(ReplaceBase64Code(html)) =< Len(html)
    BY <1>1, BytesShorter
  <2>2. Len(html) \in Nat
    BY <1>1 DEF Bytestring
  <2> QED BY <1>1, <2>1, <2>2
<1>3. PlainOf(type, s) = Decrypt_AES256(code)
  BY DEF PlainOf, html
<1> HIDE DEF code
<1>4. Decrypt_AES256(code) \in Bytestring /\ Len(Decrypt_AES256(code)) = Len(code)
  BY <1>2, DecryptedSame
<1>5. Len(s) \in Nat /\ Len(html) \in Nat /\ Len(code) \in Nat
  BY <1>1, <1>2 DEF Bytestring
<1> QED BY <1>1, <1>2, <1>3, <1>4, <1>5

-------------------------------------------------------------------------------
(* Where packets begin and end                                              *)

\* A place where a text is found has room for it.
LEMMA PlacesIn ==
    ASSUME NEW d \in Bytestring, NEW s, Len(s) \in Nat, NEW k \in Nat
    PROVE  \A p \in Places(d, s, k) : p \in Nat /\ k =< p /\ p + Len(s) =< Len(d) + 1
<1>1. Len(d) \in Nat
  BY DEF Bytestring
<1> QED BY <1>1 DEF Places

\* A head has a byte at least.
LEMMA HeadLengths == HeadTypes = 0 .. 2 /\ \A t \in HeadTypes : Len(Heads[t]) \in Nat \ {0}
<1>1. HeadTypes = 0 .. 2
  BY DEF HeadTypes, Heads
<1>2. Len(Heads[0]) = 2 /\ Len(Heads[1]) = 2 /\ Len(Heads[2]) = 7
  BY DEF Heads
<1>3. \A t \in 0 .. 2 : t = 0 \/ t = 1 \/ t = 2
  OBVIOUS
<1> DEFINE m(t) == Len(Heads[t])
<1>4. m(0) = 2 /\ m(1) = 2 /\ m(2) = 7
  BY <1>2
<1> HIDE DEF m
<1>5. \A t \in 0 .. 2 : m(t) \in Nat \ {0}
  BY <1>3, <1>4
<1> QED BY <1>1, <1>5 DEF m

\* The head that is found is in the text.
LEMMA HeadFound ==
    ASSUME NEW d \in Bytestring, NEW kt \in FirstHead(d)
    PROVE  /\ kt[2] \in HeadTypes /\ kt[1] \in 1 .. Len(d)
           /\ kt[1] + Len(Heads[kt[2]]) \in 2 .. Len(d) + 1
           /\ kt[1] < kt[1] + Len(Heads[kt[2]])
<1>1. /\ kt \in (1 .. Len(d) - 2) \X HeadTypes
      /\ kt[1] \in Places(d, Heads[kt[2]], 1)
  BY DEF FirstHead
<1>2. kt[2] \in HeadTypes /\ kt[1] \in 1 .. Len(d) - 2 /\ Len(d) \in Nat
  BY <1>1 DEF Bytestring
<1> DEFINE m == Len(Heads[kt[2]])
<1>3. m \in Nat \ {0}
  BY <1>2, HeadLengths
<1>4. kt[1] \in Nat /\ kt[1] + m =< Len(d) + 1
  BY <1>1, <1>3, PlacesIn
<1> HIDE DEF m
<1>5. kt[1] \in 1 .. Len(d) /\ kt[1] + m \in 2 .. Len(d) + 1 /\ kt[1] < kt[1] + m
  BY <1>2, <1>3, <1>4
<1> QED BY <1>2, <1>5 DEF m

\* The closer is behind the place where the packet begins, or there is none.
LEMMA CloserIn ==
    ASSUME NEW d \in Bytestring, NEW k \in 1 .. Len(d) + 1, NEW code, NEW starts \in BOOLEAN
    PROVE  CloserAt(d, k, code, starts) \in {0} \cup k .. Len(d) + 1
<1> DEFINE at == Places(d, <<Closers[code]>>, k)
<1>1. Len(d) \in Nat /\ k \in Nat /\ k =< Len(d) + 1
  BY DEF Bytestring
<1>2. Len(<<Closers[code]>>) = 1
  OBVIOUS
<1>3. \A p \in at : p \in Nat /\ k =< p /\ p =< Len(d) + 1
  <2>1. \A p \in at : p \in Nat /\ k =< p /\ p + Len(<<Closers[code]>>) =< Len(d) + 1
    BY <1>1, <1>2, PlacesIn
  <2> HIDE DEF at
  <2> QED BY <1>1, <1>2, <2>1
<1>4. CloserAt(d, k, code, starts) =
        IF code \in DOMAIN Closers THEN IF at = {} THEN 0 ELSE Min(at)
        ELSE IF starts THEN Len(d) + 1 ELSE 0
  BY DEF CloserAt
<1> HIDE DEF at
<1>5. at # {} => Min(at) \in at
  <2>1. at \in SUBSET Nat
    BY <1>3
  <2> QED BY <2>1, MinIn
<1>6. at # {} => Min(at) \in k .. Len(d) + 1
  BY <1>1, <1>3, <1>5
<1>7. 0 \in {0} \cup k .. Len(d) + 1 /\ Len(d) + 1 \in {0} \cup k .. Len(d) + 1
  BY <1>1
<1> QED BY <1>4, <1>6, <1>7

\* The packet ends behind its beginning, and before the text does.
LEMMA EndIn ==
    ASSUME NEW d \in Bytestring, NEW k \in 1 .. Len(d) + 1,
           NEW closer \in {0} \cup k .. Len(d) + 1
    PROVE  PacketEnd(d, k, closer) \in k .. Len(d) + 1
<1> DEFINE end == IF closer = 0 THEN Len(d) + 1 ELSE closer
           ends == UNION {Places(d, s, k) : s \in Terminators \cup {<<EndFlag>>}}
           all == (ends \cap k .. end) \cup {end}
<1>1. Len(d) \in Nat /\ k \in Nat /\ k =< Len(d) + 1
  BY DEF Bytestring
<1>2. end \in k .. Len(d) + 1
  BY <1>1
<1>3. PacketEnd(d, k, closer) = Min(all)
  BY DEF PacketEnd
<1> HIDE DEF end, ends
<1>4. all # {} /\ \A p \in all : p \in k .. Len(d) + 1
  BY <1>1, <1>2
<1> HIDE DEF all
<1>5. Min(all) \in all
  <2>1. all \in SUBSET Nat
    BY <1>1, <1>4
  <2> QED BY <1>4, <2>1, MinIn
<1> QED BY <1>3, <1>4, <1>5

\* The dots that end a text are part of it.
LEMMA DotsWithin ==
    ASSUME NEW s \in Bytestring
    PROVE  WithoutDots(s) \in 0 .. Len(s)
<1>1. Len(s) \in Nat
  BY DEF Bytestring
<1>2. Len(Reverse(s)) = Len(s) /\ Len(Dots) = 3 /\ Len(Reverse(Dots)) = Len(Dots)
  <2>1. Dots \in Seq({"."}) /\ Len(Dots) = 3
    BY DEF Dots
  <2>2. \A S : \A t \in Seq(S) : Len(Reverse(t)) = Len(t)
    BY DEF Reverse
  <2> QED BY <2>1, <2>2 DEF Bytestring
<1>3. IsSuffix(Dots, s) => 3 =< Len(s)
  BY <1>2 DEF IsSuffix, IsPrefix
<1> QED BY <1>1, <1>3 DEF WithoutDots

\* A head and the packet behind it are replaced by plain text that is no longer
\* than the packet.
LEMMA SplicedShorter ==
    ASSUME NEW d \in Bytestring, NEW h \in 1 .. Len(d), NEW k \in 2 .. Len(d) + 1, h < k,
           NEW n \in Nat, k + n =< Len(d) + 1, NEW plain \in Bytestring, Len(plain) =< n
    PROVE  /\ Spliced(d, h, k, plain, n) \in Bytestring
           /\ Len(Spliced(d, h, k, plain, n)) < Len(d)
<1> DEFINE a == SubSeq(d, 1, h - 1)
           b == SubSeq(d, k + n, Len(d))
           x == Len(a)
           y == Len(b)
           p == Len(plain)
<1>1. /\ Len(d) \in Nat /\ h \in Nat /\ k \in Nat /\ 1 =< h /\ h =< Len(d)
      /\ p \in Nat /\ p =< n
  BY DEF Bytestring
<1>2. a \in Bytestring /\ x = h - 1
  BY <1>1, SubSeqProperties DEF Bytestring
<1>3. b \in Bytestring /\ y = Len(d) + 1 - (k + n)
  BY <1>1, SubSeqProperties DEF Bytestring
<1> HIDE DEF a, b
<1>4. a \o plain \o b \in Bytestring /\ Len(a \o plain \o b) = x + p + y
  BY SMTT(30), <1>2, <1>3 DEF Bytestring
<1>5. x + p + y < Len(d)
  <2> HIDE DEF x, y, p
  <2> QED BY <1>1, <1>2, <1>3
<1> HIDE DEF x, y, p
<1> QED BY <1>4, <1>5 DEF Spliced, a, b

-------------------------------------------------------------------------------
(* The invariant                                                            *)

Links == Seq(Bytestring) \ {<<>>}
Parts == [chains : Seq(Links), plain : Bytestring, lastPacket : Bytestring, lastDePacketLen : Nat,
          out : Bytestring, flaws : SUBSET STRING, twice : BOOLEAN]
Passes == 1 .. 3
Call == [resp : Responses, bufs : Links, cl : Nat, pass : Passes, null : BOOLEAN]

\* A call that is at a buffer of its chain.
AtBuffer(c) == c \in Call /\ c.cl \in DOMAIN c.bufs

Typed == /\ ctx \in [Responses -> Parts]
         /\ run = Idle \/ AtBuffer(run)
         /\ startCode \in DOMAIN Closers \cup {"none"}
         /\ encodetype \in {0, 1} /\ endCode \in BOOLEAN /\ alive \in BOOLEAN

\* From one turn to the next: the call goes on in its chain, or it stays at the
\* buffer and has less to do there.
Advances(c) ==
    AtBuffer(c) /\ c.resp = run.resp /\ (c.pass > run.pass \/ (c.pass = run.pass /\ c.cl > run.cl))
Stays(c, d) ==
    /\ AtBuffer(c) /\ c.resp = run.resp /\ c.pass = run.pass /\ c.cl = run.cl
    /\ c.bufs[c.cl] = d

\* A buffer of a chain is filled anew.
LEMMA LinksKept ==
    ASSUME NEW bufs \in Links, NEW i \in DOMAIN bufs, NEW d \in Bytestring
    PROVE  /\ [bufs EXCEPT ![i] = d] \in Links /\ Len([bufs EXCEPT ![i] = d]) = Len(bufs)
           /\ [bufs EXCEPT ![i] = d][i] = d
<1>1. Len(bufs) \in Nat /\ DOMAIN bufs = 1 .. Len(bufs) /\ Len(bufs) # 0
  BY DEF Links
<1> DEFINE f == [bufs EXCEPT ![i] = d]
<1>2. f \in [1 .. Len(bufs) -> Bytestring] /\ f[i] = d
  BY <1>1 DEF Links
<1> HIDE DEF f
<1>3. f \in Seq(Bytestring) /\ Len(f) = Len(bufs)
  BY <1>1, <1>2, IsSeq
<1>4. f # <<>>
  BY <1>1, <1>3
<1> QED BY <1>2, <1>3, <1>4 DEF f, Links

\* A call with another chain, at another buffer, in another pass.
WithChain(c, bufs) == [c EXCEPT !.bufs = bufs]
WithBuffer(c, bufs, cl) == [c EXCEPT !.bufs = bufs, !.cl = cl]
WithPass(c, bufs, cl, pass) == [c EXCEPT !.bufs = bufs, !.cl = cl, !.pass = pass]

\* The call keeps its type when its chain changes,
LEMMA CallWithChain ==
    ASSUME NEW c \in Call, NEW bufs \in Links
    PROVE  LET d == WithChain(c, bufs) IN
           d \in Call /\ d.bufs = bufs /\ d.cl = c.cl /\ d.pass = c.pass /\ d.resp = c.resp
BY DEF Call, WithChain

\* when it goes on to another buffer,
LEMMA CallWithBuffer ==
    ASSUME NEW c \in Call, NEW bufs \in Links, NEW cl \in Nat
    PROVE  LET d == WithBuffer(c, bufs, cl) IN
           d \in Call /\ d.bufs = bufs /\ d.cl = cl /\ d.pass = c.pass /\ d.resp = c.resp
BY DEF Call, WithBuffer

\* and when the next pass begins.
LEMMA CallWithPass ==
    ASSUME NEW c \in Call, NEW bufs \in Links, NEW cl \in Nat, NEW pass \in Passes
    PROVE  LET d == WithPass(c, bufs, cl, pass) IN
           d \in Call /\ d.bufs = bufs /\ d.cl = cl /\ d.pass = pass /\ d.resp = c.resp
BY DEF Call, WithPass

\* The loops go on to a buffer.
LEMMA AfterIs ==
    ASSUME AtBuffer(run), run.pass =< 2, NEW bufs \in Links, Len(bufs) = Len(run.bufs)
    PROVE  Advances(After(bufs))
<1>1. /\ run \in Call /\ Len(bufs) \in Nat /\ DOMAIN bufs = 1 .. Len(bufs)
      /\ DOMAIN run.bufs = 1 .. Len(run.bufs) /\ 1 \in 1 .. Len(bufs)
  BY DEF AtBuffer, Call, Links
<1>2. run.cl \in 1 .. Len(run.bufs) /\ run.pass \in 1 .. 2
  BY <1>1 DEF AtBuffer, Call, Passes
<1>3. CASE run.cl < Len(run.bufs)
  <2> DEFINE cl == run.cl + 1
             c == WithBuffer(run, bufs, cl)
  <2>1. After(bufs) = c
    BY <1>3 DEF After, WithBuffer
  <2>2. cl \in Nat
    BY <1>2
  <2> HIDE DEF cl
  <2>3. run \in Call
    BY <1>1
  <2>4. c \in Call /\ c.bufs = bufs /\ c.cl = cl /\ c.pass = run.pass /\ c.resp = run.resp
    BY <2>2, <2>3, CallWithBuffer, ZenonT(30)
  <2> HIDE DEF c
  <2> QED BY <1>1, <1>2, <1>3, <2>1, <2>4 DEF Advances, AtBuffer, cl
<1>4. CASE ~ (run.cl < Len(run.bufs))
  <2> DEFINE first == 1
             pass == run.pass + 1
             c == WithPass(run, bufs, first, pass)
  <2>1. After(bufs) = c
    BY <1>4 DEF After, WithPass
  <2>2. first \in Nat /\ pass \in Passes
    BY <1>2 DEF Passes
  <2> HIDE DEF first, pass
  <2>3. run \in Call
    BY <1>1
  <2>4. c \in Call /\ c.bufs = bufs /\ c.cl = first /\ c.pass = pass /\ c.resp = run.resp
    BY <2>2, <2>3, CallWithPass
  <2> HIDE DEF c
  <2> QED BY <1>1, <1>2, <1>4, <2>1, <2>4 DEF Advances, AtBuffer, first, pass
<1> QED BY <1>3, <1>4

\* A packet is cut out of the text behind its head.
LEMMA PacketIn ==
    ASSUME NEW d \in Bytestring, NEW k \in 1 .. Len(d) + 1, NEW end \in k .. Len(d) + 1
    PROVE  LET packet == SubSeq(d, k, end - 1)
           IN packet \in Bytestring /\ Len(packet) = end - k
<1>1. Len(d) \in Nat /\ k \in Nat /\ end \in Nat /\ 1 =< k /\ k =< end /\ end - 1 =< Len(d)
  BY DEF Bytestring
<1> QED BY <1>1, SubSeqProperties DEF Bytestring

\* The end of the buffer at hand that is the beginning of a cut head is left out.
LEMMA BytesIn ==
    ASSUME AtBuffer(run)
    PROVE  Data \in Bytestring /\ Bytes \in Bytestring /\ Len(Bytes) =< Len(Data)
<1>1. Data \in Bytestring
  BY DEF Data, AtBuffer, Call, Links
<1>2. Len(Data) \in Nat
  BY <1>1 DEF Bytestring
<1>3. CASE Cut
  <2>1. Data # <<>>
    BY <1>3 DEF Cut, HeadIsCut
  <2>2. Len(Data) # 0
    BY <1>1, <2>1 DEF Bytestring
  <2>3. Bytes = SubSeq(Data, 1, Len(Data) - 1)
    BY <1>3 DEF Bytes, Front
  <2>4. Bytes \in Bytestring /\ Len(Bytes) = Len(Data) - 1
    <3>1. 1 \in 1 .. Len(Data) + 1 /\ Len(Data) \in 1 .. Len(Data) + 1
      BY <1>2, <2>2
    <3> DEFINE d == Data
               n == Len(d)
    <3>2. d \in Bytestring /\ 1 \in 1 .. Len(d) + 1 /\ n \in 1 .. Len(d) + 1
      BY <1>1, <3>1
    <3>3. Bytes = SubSeq(d, 1, n - 1)
      BY <2>3
    <3> HIDE DEF d, n
    <3>4. SubSeq(d, 1, n - 1) \in Bytestring /\ Len(SubSeq(d, 1, n - 1)) = n - 1
      BY <3>2, PacketIn
    <3> QED BY <3>3, <3>4 DEF d, n
  <2> QED BY <1>1, <1>2, <2>4
<1>4. CASE ~ Cut
  BY <1>1, <1>2, <1>4 DEF Bytes
<1> QED BY <1>3, <1>4

\* What is kept of a packet, and of its plain text.
WithPacket(c, r, packet, n) ==
    [c EXCEPT ![r].lastPacket = packet, ![r].lastDePacketLen = n]

\* Only what is kept of a packet changes in the context.
LEMMA PacketKept ==
    ASSUME NEW c \in [Responses -> Parts], NEW r \in Responses, NEW packet \in Bytestring,
           NEW n \in Nat
    PROVE  /\ WithPacket(c, r, packet, n) \in [Responses -> Parts]
           /\ WithPacket(c, r, packet, n)[r].lastPacket = packet
BY DEF Parts, WithPacket

\* The bytes that take the place of a packet and its head.
LEMMA PacketReplaced ==
    ASSUME NEW d \in Bytestring, NEW h \in 1 .. Len(d), NEW k \in 2 .. Len(d) + 1, h < k,
           NEW end \in k .. Len(d) + 1, NEW size \in 0 .. end - k, NEW flag \in 0 .. 1,
           flag = 1 => end =< Len(d), NEW plain \in Bytestring, Len(plain) =< size
    PROVE  /\ Spliced(d, h, k, plain, size + flag) \in Bytestring
           /\ Len(Spliced(d, h, k, plain, size + flag)) < Len(d)
<1> DEFINE n == size + flag
<1>1. Len(d) \in Nat /\ Len(plain) \in Nat
  BY DEF Bytestring
<1>2. n \in Nat /\ k + n =< Len(d) + 1 /\ Len(plain) =< n
  BY <1>1
<1> HIDE DEF n
<1>3. Spliced(d, h, k, plain, n) \in Bytestring /\ Len(Spliced(d, h, k, plain, n)) < Len(d)
  BY <1>2, SplicedShorter
<1> QED BY <1>3 DEF n

\* Where a turn leads to in the buffer at hand.
Lessens(c, d) == Stays(c, d) /\ d \in Bytestring /\ Len(d) < Len(Data)

\* A packet of which the end is there is gone afterwards, with its head; the first
\* part of one is kept, and the loop goes on to the next buffer.
LEMMA DecryptTurn ==
    ASSUME ctx \in [Responses -> Parts], AtBuffer(run), run.pass =< 2, NEW h, NEW k,
           h \in 1 .. Len(Bytes), k \in 2 .. Len(Bytes) + 1, h < k,
           NEW code, NEW type, NEW starts \in BOOLEAN, Decrypt(h, k, code, type, starts)
    PROVE  \/ ctx' \in [Responses -> Parts] /\ Advances(run')
           \/ ctx' = ctx /\ \E d \in Bytestring : Lessens(run', d)
<1> DEFINE d == Bytes
           closer == CloserAt(d, k, code, starts)
           open == Continues(d, k, closer)
           end == PacketEnd(d, k, closer)
           flagged == end <= Len(d) /\ d[end] = EndFlag
           packet == SubSeq(d, k, end - 1)
           size == IF open THEN Len(packet) ELSE WithoutDots(packet)
           text == SubSeq(packet, 1, size)
           plain == PlainOf(type, text)
           flag == IF flagged THEN 1 ELSE 0
           new == Spliced(d, h, k, plain, size + flag)
           bufs == [run.bufs EXCEPT ![run.cl] = new]
<1>1. IF open THEN /\ ctx' = WithPacket(ctx, run.resp, packet, Len(plain))
                   /\ run' = After(bufs)
      ELSE run' = WithChain(run, bufs) /\ ctx' = ctx
  BY Zenon DEF Decrypt, WithPacket, WithChain
<1>2. d \in Bytestring /\ Data \in Bytestring /\ Len(d) =< Len(Data)
  BY BytesIn
<1>3. h \in 1 .. Len(d) /\ k \in 2 .. Len(d) + 1
  OBVIOUS
<1> HIDE DEF d
<1>4. Len(d) \in Nat /\ Len(Data) \in Nat /\ k \in 1 .. Len(d) + 1 /\ k \in Nat
  BY <1>2, <1>3 DEF Bytestring
<1>5. closer \in {0} \cup k .. Len(d) + 1
  BY <1>2, <1>4, CloserIn
<1> HIDE DEF closer
<1>6. end \in k .. Len(d) + 1
  BY <1>2, <1>4, <1>5, EndIn
<1>7. flag \in 0 .. 1 /\ (flag = 1 => end =< Len(d))
  OBVIOUS
<1> HIDE DEF open, flag
<1> HIDE DEF end
<1>8. packet \in Bytestring /\ Len(packet) = end - k
  BY <1>2, <1>4, <1>6, PacketIn
<1> HIDE DEF packet
<1>9. size \in 0 .. Len(packet)
  BY <1>8, DotsWithin DEF Bytestring
<1> HIDE DEF size
<1>10. text \in Bytestring /\ Len(text) = size
  BY <1>8, <1>9, SubSeqProperties DEF Bytestring
<1> HIDE DEF text
<1>11. plain \in Bytestring /\ Len(plain) =< size
  <2>1. plain \in Bytestring /\ Len(plain) =< Len(text)
    BY <1>10, PlainShorter
  <2> QED BY <1>10, <2>1
<1> HIDE DEF plain
<1>12. size \in 0 .. end - k
  BY <1>8, <1>9
<1>13. new \in Bytestring /\ Len(new) < Len(d)
  BY <1>2, <1>3, <1>6, <1>7, <1>11, <1>12, PacketReplaced
<1> HIDE DEF new
<1>14. run \in Call /\ run.bufs \in Links /\ run.cl \in DOMAIN run.bufs /\ run.resp \in Responses
  BY DEF AtBuffer, Call
<1>15. bufs \in Links /\ Len(bufs) = Len(run.bufs) /\ bufs[run.cl] = new
  BY <1>13, <1>14, LinksKept
<1> HIDE DEF bufs
<1>16. CASE open
  <2> DEFINE n == Len(plain)
  <2>1. n \in Nat
    BY <1>11 DEF Bytestring
  <2>2. ctx' = WithPacket(ctx, run.resp, packet, n) /\ run' = After(bufs)
    BY <1>1, <1>16
  <2> HIDE DEF n
  <2>3. WithPacket(ctx, run.resp, packet, n) \in [Responses -> Parts]
    BY <1>8, <1>14, <2>1, PacketKept
  <2>4. Advances(After(bufs))
    BY <1>15, AfterIs
  <2> QED BY <2>2, <2>3, <2>4
<1>17. CASE ~ open
  <2> DEFINE c == WithChain(run, bufs)
  <2>1. run' = c /\ ctx' = ctx
    BY <1>1, <1>17
  <2>2. /\ c \in Call /\ c.bufs = bufs /\ c.cl = run.cl /\ c.pass = run.pass
        /\ c.resp = run.resp
    BY <1>14, <1>15, CallWithChain
  <2> HIDE DEF c
  <2>3. DOMAIN bufs = DOMAIN run.bufs
    BY <1>14, <1>15 DEF Links
  <2>4. Stays(c, new)
    BY <1>14, <1>15, <2>2, <2>3 DEF AtBuffer, Stays
  <2>5. Len(new) < Len(Data)
    <3>1. Len(new) \in Nat
      BY <1>13 DEF Bytestring
    <3> QED BY <1>2, <1>4, <1>13, <3>1
  <2> QED BY <1>13, <2>1, <2>4, <2>5 DEF Lessens
<1> QED BY <1>16, <1>17

\* What is left to do after a turn: the bytes of the buffer, and twice those kept.
Progress(c, kept, d) == Stays(c, d) /\ Len(d) + 2 * Len(kept) < Left

\* A byte is one of the buffer's, or unknown.
LEMMA ByteOfMemory == ASSUME NEW d \in Bytestring, NEW n PROVE MemoryAt(d, n) \in Byte
BY DEF Bytestring, Byte, MemoryAt

\* The bytes of a buffer after the rest of a packet was decrypted in it.
Rest(plain, done, d, size, flagged) ==
    LET bytes == NewPart(plain, done) \o SubSeq(d, size + (IF flagged THEN 2 ELSE 1), Len(d))
    IN IF flagged THEN Append(bytes, MemoryAt(d, Len(bytes) + 1)) ELSE bytes

\* What is behind a place of a text.
LEMMA TailIn ==
    ASSUME NEW d \in Bytestring, NEW from \in 1 .. Len(d) + 1
    PROVE  SubSeq(d, from, Len(d)) \in Bytestring /\ Len(SubSeq(d, from, Len(d))) = (Len(d) + 1) - from
<1>1. Len(d) \in Nat /\ from \in Nat /\ 1 =< from
  BY DEF Bytestring
<1> QED BY <1>1, SubSeqProperties DEF Bytestring

\* The new plain text and the old bytes behind the packet, counted.
LEMMA RestShorter ==
    ASSUME NEW plain \in Bytestring, NEW done \in Nat, done =< Len(plain), NEW d \in Bytestring,
           NEW size \in 0 .. Len(d), NEW flagged \in BOOLEAN, flagged => size < Len(d)
    PROVE  /\ Rest(plain, done, d, size, flagged) \in Bytestring
           /\ Len(Rest(plain, done, d, size, flagged)) = (Len(plain) - done) + (Len(d) - size)
<1> DEFINE new == SubSeq(plain, done + 1, Len(plain))
           from == size + (IF flagged THEN 2 ELSE 1)
           old == SubSeq(d, from, Len(d))
           bytes == new \o old
           byte == MemoryAt(d, Len(bytes) + 1)
           p == Len(plain)
           n == Len(d)
           x == Len(new)
           y == Len(old)
<1>1. p \in Nat /\ n \in Nat
  BY DEF Bytestring
<1>2. new \in Bytestring /\ x = p - done
  <2>1. done + 1 \in 1 .. p + 1
    BY <1>1
  <2> QED BY <1>1, <2>1, SubSeqProperties DEF Bytestring
<1>3. old \in Bytestring /\ y = (n + 1) - from
  <2>1. from \in 1 .. n + 1
    BY <1>1
  <2> HIDE DEF from
  <2> QED BY <2>1, TailIn
<1> HIDE DEF from, new, old
<1>4. bytes \in Bytestring /\ Len(bytes) = x + y
  BY <1>2, <1>3 DEF Bytestring
<1>5. byte \in Byte
  BY ByteOfMemory
<1>6. Rest(plain, done, d, size, flagged) = IF flagged THEN Append(bytes, byte) ELSE bytes
  BY Zenon DEF NewPart, Rest, from, new, old
<1> HIDE DEF byte, bytes
<1>7. Append(bytes, byte) \in Bytestring /\ Len(Append(bytes, byte)) = Len(bytes) + 1
  BY <1>4, <1>5 DEF Bytestring
<1>8. x + y + (IF flagged THEN 1 ELSE 0) = (p - done) + (n - size)
  <2> HIDE DEF x, y, p, n
  <2> QED BY <1>1, <1>2, <1>3 DEF from
<1>9. x \in Nat /\ y \in Nat
  BY <1>2, <1>3 DEF Bytestring
<1> HIDE DEF x, y, p, n
<1>10. CASE flagged
  BY <1>4, <1>6, <1>7, <1>8, <1>9, <1>10 DEF n, p
<1>11. CASE ~ flagged
  BY <1>4, <1>6, <1>8, <1>9, <1>11 DEF n, p
<1> QED BY <1>10, <1>11

\* The rest of a packet takes the place of its ciphertext, and nothing is kept.
LEMMA RestTurn ==
    ASSUME ctx \in [Responses -> Parts], AtBuffer(run), run.pass =< 2, DecryptRest, alive'
    PROVE  /\ ctx' \in [Responses -> Parts]
           /\ \E d \in Bytestring : Progress(run', ctx'[run.resp].lastPacket, d)
<1> DEFINE d == Bytes
           closer == CloserAt(d, 1, startCode, StartsInHead(Data))
           end == PacketEnd(d, 1, closer)
           flagged == end <= Len(d) /\ d[end] = EndFlag
           packet == SubSeq(d, 1, end - 1)
           size == IF Continues(d, 1, closer) THEN Len(packet) ELSE WithoutDots(packet)
           read == SubSeq(packet, 1, size)
           kept == Context.lastPacket
           done == Context.lastDePacketLen
           text == kept \o read
           plain == PlainOf(encodetype, text)
           new == Rest(plain, done, d, size, flagged)
           bufs == [run.bufs EXCEPT ![run.cl] = new]
<1>1. /\ ~ (Len(plain) < done)
      /\ run' = WithChain(run, bufs)
      /\ ctx' = WithPacket(ctx, run.resp, <<>>, 0)
      /\ kept # <<>> /\ Len(d) > 2
  BY Zenon DEF DecryptRest, Rest, WithChain, WithPacket
<1>2. d \in Bytestring /\ Data \in Bytestring /\ Len(d) =< Len(Data)
  BY BytesIn
<1>3. StartsInHead(Data) \in BOOLEAN
  BY DEF StartsInHead
<1> HIDE DEF d
<1>4. Len(d) \in Nat /\ Len(Data) \in Nat /\ 1 \in 1 .. Len(d) + 1
  BY <1>2 DEF Bytestring
<1>5. closer \in {0} \cup 1 .. Len(d) + 1
  BY <1>2, <1>3, <1>4, CloserIn
<1>6. end \in 1 .. Len(d) + 1
  <2> HIDE DEF closer
  <2> QED BY <1>2, <1>4, <1>5, EndIn
<1>7. flagged \in BOOLEAN /\ (flagged => end =< Len(d))
  OBVIOUS
<1> HIDE DEF flagged
<1> HIDE DEF end
<1>8. packet \in Bytestring /\ Len(packet) = end - 1
  BY <1>2, <1>4, <1>6, PacketIn
<1> HIDE DEF packet
<1>9. size \in 0 .. Len(packet)
  BY <1>8, DotsWithin DEF Bytestring
<1> HIDE DEF size
<1>10. read \in Bytestring /\ Len(read) = size
  BY <1>8, <1>9, SubSeqProperties DEF Bytestring
<1> HIDE DEF read
<1>11. run \in Call /\ run.bufs \in Links /\ run.cl \in DOMAIN run.bufs /\ run.resp \in Responses
  BY DEF AtBuffer, Call
<1>12. kept \in Bytestring /\ done \in Nat
  BY <1>11 DEF Context, Parts
<1>13. Left = Len(Data) + 2 * Len(kept)
  BY DEF Left
<1> HIDE DEF kept, done
<1>14. text \in Bytestring /\ Len(text) = Len(kept) + size
  BY <1>10, <1>12 DEF Bytestring
<1> HIDE DEF text
<1>15. plain \in Bytestring /\ Len(plain) =< Len(text)
  BY <1>14, PlainShorter
<1> HIDE DEF plain
<1>16. Len(plain) \in Nat /\ Len(kept) \in Nat \ {0}
  BY <1>1, <1>12, <1>15 DEF Bytestring
<1>17. done =< Len(plain)
  BY <1>1, <1>12, <1>16
<1>18. size \in 0 .. Len(d) /\ (flagged => size < Len(d))
  BY <1>4, <1>6, <1>7, <1>8, <1>9
<1>19. new \in Bytestring /\ Len(new) = (Len(plain) - done) + (Len(d) - size)
  BY <1>2, <1>7, <1>12, <1>15, <1>17, <1>18, RestShorter
<1> HIDE DEF new
<1>20. bufs \in Links /\ Len(bufs) = Len(run.bufs) /\ bufs[run.cl] = new
  BY <1>11, <1>19, LinksKept
<1> HIDE DEF bufs
<1> DEFINE c == WithChain(run, bufs)
           none == <<>>
           zero == 0
<1>21. run' = c /\ ctx' = WithPacket(ctx, run.resp, none, zero)
  BY <1>1
<1>22. none \in Bytestring /\ Len(none) = 0 /\ zero \in Nat
  BY DEF Bytestring
<1>23. /\ c \in Call /\ c.bufs = bufs /\ c.cl = run.cl /\ c.pass = run.pass
       /\ c.resp = run.resp
  BY <1>11, <1>20, CallWithChain
<1> HIDE DEF c, none, zero
<1>24. /\ WithPacket(ctx, run.resp, none, zero) \in [Responses -> Parts]
       /\ WithPacket(ctx, run.resp, none, zero)[run.resp].lastPacket = none
  BY <1>11, <1>22, PacketKept
<1>25. DOMAIN bufs = DOMAIN run.bufs
  BY <1>11, <1>20 DEF Links
<1>26. Stays(c, new)
  BY <1>11, <1>20, <1>23, <1>25 DEF AtBuffer, Stays
<1>27. Len(new) < Left
  BY <1>2, <1>4, <1>9, <1>8, <1>12, <1>13, <1>14, <1>15, <1>16, <1>18, <1>19
<1>28. Len(new) + 2 * Len(none) < Left
  BY <1>19, <1>22, <1>27 DEF Bytestring
<1> QED BY <1>19, <1>21, <1>24, <1>26, <1>28 DEF Progress

-------------------------------------------------------------------------------
(* Every turn gets on                                                       *)

GoesOn ==
    \/ run'.pass > run.pass
    \/ run'.pass = run.pass /\ (run'.cl > run.cl \/ (run'.cl = run.cl /\ Left' < Left))
TurnTyped == ctx' \in [Responses -> Parts] /\ AtBuffer(run')
SignsTyped == /\ startCode' \in DOMAIN Closers \cup {"none"}
              /\ encodetype' \in {0, 1} /\ endCode' \in BOOLEAN /\ alive' \in BOOLEAN

\* The loop goes on to the next buffer.
LEMMA OnAdvance ==
    ASSUME AtBuffer(run), Advances(run')
    PROVE  AtBuffer(run') /\ GoesOn
BY DEF Advances, GoesOn

\* The loop stays at the buffer, with less to do.
LEMMA OnProgress ==
    ASSUME NEW d \in Bytestring, Progress(run', ctx'[run.resp].lastPacket, d)
    PROVE  AtBuffer(run') /\ GoesOn
<1>1. /\ AtBuffer(run') /\ run'.resp = run.resp /\ run'.pass = run.pass /\ run'.cl = run.cl
      /\ run'.bufs[run'.cl] = d
  BY DEF Progress, Stays
<1>2. Left' = Len(run'.bufs[run'.cl]) + 2 * Len(ctx'[run'.resp].lastPacket)
  BY DEF Left, Data, Context
<1>3. Left' = Len(d) + 2 * Len(ctx'[run.resp].lastPacket)
  BY <1>1, <1>2, Zenon
<1>4. Left' < Left
  BY <1>3 DEF Progress
<1> QED BY <1>1, <1>4 DEF GoesOn

\* The character that StartCode finds has a closer.
LEMMA StartCodeIn ==
    ASSUME NEW d \in Bytestring, NEW k \in Nat, NEW earlier \in DOMAIN Closers \cup {"none"}
    PROVE  StartCode(d, k, earlier) \in DOMAIN Closers \cup {"none"}
<1> DEFINE marks == {i \in 1 .. k - 1 : d[i] \in DOMAIN Closers}
<1>1. StartCode(d, k, earlier) = IF marks = {} THEN earlier ELSE d[Max(marks)]
  BY Zenon DEF StartCode
<1>2. CASE marks = {}
  BY <1>1, <1>2
<1>3. CASE marks # {}
  <2>1. marks \in SUBSET Nat /\ k \in Nat /\ \A i \in marks : i =< k
    OBVIOUS
  <2>2. \A i \in marks : d[i] \in DOMAIN Closers
    OBVIOUS
  <2> HIDE DEF marks
  <2>3. Max(marks) \in marks
    BY <1>3, <2>1, MaxIn
  <2> QED BY <1>1, <1>3, <2>2, <2>3
<1> QED BY <1>2, <1>3

\* A turn that finds nothing goes on to the next buffer.
LEMMA NothingFoundTurn ==
    ASSUME Typed, NothingFound
    PROVE  TurnTyped /\ SignsTyped /\ GoesOn
<1>1. AtBuffer(run) /\ run.pass =< 2 /\ ctx' = ctx /\ ctx \in [Responses -> Parts]
  BY DEF NothingFound, Typed, Working
<1>2. Bytes \in Bytestring
  BY <1>1, BytesIn
<1>3. run \in Call /\ run.bufs \in Links /\ run.cl \in DOMAIN run.bufs
  BY <1>1 DEF AtBuffer, Call
<1> DEFINE bufs == [run.bufs EXCEPT ![run.cl] = Bytes]
<1>4. bufs \in Links /\ Len(bufs) = Len(run.bufs)
  BY <1>2, <1>3, LinksKept
<1>5. run' = After(bufs)
  BY DEF NothingFound
<1> HIDE DEF bufs
<1>6. Advances(run')
  BY <1>1, <1>4, <1>5, AfterIs
<1>7. SignsTyped
  BY DEF NothingFound, Typed, SignsTyped, Cut, HeadIsCut
<1> QED BY <1>1, <1>6, <1>7, OnAdvance DEF TurnTyped

\* A turn that decrypts a packet with its head.
LEMMA DecryptGoesOn ==
    ASSUME Typed, AtBuffer(run), run.pass =< 2, NEW h, NEW k,
           h \in 1 .. Len(Bytes), k \in 2 .. Len(Bytes) + 1, h < k,
           NEW code, NEW type, NEW starts \in BOOLEAN, Decrypt(h, k, code, type, starts),
           Context.lastPacket = <<>>
    PROVE  TurnTyped /\ GoesOn
<1>1. ctx \in [Responses -> Parts]
  BY DEF Typed
<1>2. \/ ctx' \in [Responses -> Parts] /\ Advances(run')
      \/ ctx' = ctx /\ \E d \in Bytestring : Lessens(run', d)
  BY <1>1, DecryptTurn
<1>3. CASE ctx' \in [Responses -> Parts] /\ Advances(run')
  BY <1>3, OnAdvance DEF TurnTyped
<1>4. CASE ctx' = ctx /\ \E d \in Bytestring : Lessens(run', d)
  <2>1. PICK d \in Bytestring : Lessens(run', d)
    BY <1>4
  <2> DEFINE kept == ctx'[run.resp].lastPacket
             n == Len(kept)
  <2>2. kept = Context.lastPacket
    BY <1>4 DEF Context
  <2>3. n = 0
    BY <2>2
  <2>4. Left = Len(Data) + 2 * n
    BY <2>2 DEF Left
  <2>5. Len(d) < Len(Data) /\ Len(d) \in Nat /\ Len(Data) \in Nat
    <3>1. Data \in Bytestring
      BY BytesIn
    <3> QED BY <2>1, <3>1 DEF Bytestring, Lessens
  <2>6. Len(d) + 2 * n < Left
    <3> HIDE DEF n
    <3> QED BY <2>3, <2>4, <2>5
  <2>7. Progress(run', kept, d)
    BY <2>1, <2>6 DEF Lessens, Progress
  <2>8. AtBuffer(run') /\ GoesOn
    BY <2>7, OnProgress
  <2> QED BY <1>1, <1>4, <2>8 DEF TurnTyped
<1> QED BY <1>2, <1>3, <1>4

\* A turn at a head, with the closer and the encoding that the head says.
LEMMA DecryptAtHeadTurn ==
    ASSUME Typed, DecryptAtHead
    PROVE  TurnTyped /\ SignsTyped /\ GoesOn
<1>1. AtBuffer(run) /\ run.pass =< 2 /\ Context.lastPacket = <<>>
  BY DEF DecryptAtHead, Typed, Working
<1>2. Bytes \in Bytestring
  BY <1>1, BytesIn
<1>3. PICK kt \in FirstHead(Bytes) :
         /\ startCode' = StartCode(Bytes, kt[1], startCode)
         /\ encodetype' = EncodeType(kt[2])
         /\ Decrypt(kt[1], kt[1] + Len(Heads[kt[2]]), StartCode(Bytes, kt[1], startCode),
                    EncodeType(kt[2]), FALSE)
  BY DEF DecryptAtHead
<1>4. /\ kt[1] \in 1 .. Len(Bytes) /\ kt[1] + Len(Heads[kt[2]]) \in 2 .. Len(Bytes) + 1
      /\ kt[1] < kt[1] + Len(Heads[kt[2]])
  BY <1>2, HeadFound
<1> DEFINE h == kt[1]
           k == kt[1] + Len(Heads[kt[2]])
           code == StartCode(Bytes, kt[1], startCode)
           type == EncodeType(kt[2])
           starts == FALSE
<1>5. /\ Decrypt(h, k, code, type, starts) /\ startCode' = code /\ encodetype' = type
      /\ h \in 1 .. Len(Bytes) /\ k \in 2 .. Len(Bytes) + 1 /\ h < k /\ starts \in BOOLEAN
  BY <1>3, <1>4
<1>6. type \in {0, 1}
  BY DEF EncodeType
<1>7. code \in DOMAIN Closers \cup {"none"}
  <2>1. kt[1] \in Nat /\ startCode \in DOMAIN Closers \cup {"none"}
    BY <1>4 DEF Typed
  <2> QED BY <1>2, <2>1, StartCodeIn
<1> HIDE DEF h, k, code, type, starts
<1>8. TurnTyped /\ GoesOn
  BY <1>1, <1>5, DecryptGoesOn
<1>9. endCode' \in BOOLEAN /\ alive' \in BOOLEAN
  BY DEF DecryptAtHead, Typed, Cut, HeadIsCut
<1> QED BY <1>5, <1>6, <1>7, <1>8, <1>9 DEF SignsTyped

\* A turn at the second byte of a head, with those of an earlier packet.
LEMMA DecryptAtStartTurn ==
    ASSUME Typed, DecryptAtStart
    PROVE  TurnTyped /\ SignsTyped /\ GoesOn
<1>1. AtBuffer(run) /\ run.pass =< 2 /\ Context.lastPacket = <<>> /\ Len(Bytes) > 2
  BY DEF DecryptAtStart, Typed, Working
<1>2. Bytes \in Bytestring
  BY <1>1, BytesIn
<1> DEFINE h == 1
           k == 2
           starts == TRUE
<1>3. Decrypt(h, k, startCode, encodetype, starts)
  BY DEF DecryptAtStart
<1>4. h \in 1 .. Len(Bytes) /\ k \in 2 .. Len(Bytes) + 1 /\ h < k /\ starts \in BOOLEAN
  BY <1>1, <1>2 DEF Bytestring
<1> HIDE DEF h, k, starts
<1>5. TurnTyped /\ GoesOn
  BY <1>1, <1>3, <1>4, DecryptGoesOn
<1>6. SignsTyped
  BY DEF DecryptAtStart, Typed, SignsTyped
<1> QED BY <1>5, <1>6

\* A turn at the rest of a packet uses up what was kept.
LEMMA DecryptRestTurn ==
    ASSUME Typed, DecryptRest, alive'
    PROVE  TurnTyped /\ SignsTyped /\ GoesOn
<1>1. AtBuffer(run) /\ run.pass =< 2 /\ ctx \in [Responses -> Parts]
  BY DEF DecryptRest, Typed, Working
<1>2. /\ ctx' \in [Responses -> Parts]
      /\ \E d \in Bytestring : Progress(run', ctx'[run.resp].lastPacket, d)
  BY <1>1, RestTurn
<1>3. AtBuffer(run') /\ GoesOn
  BY <1>2, OnProgress
<1>4. SignsTyped
  BY DEF DecryptRest, Typed, SignsTyped, Cut, HeadIsCut
<1> QED BY <1>2, <1>3, <1>4 DEF TurnTyped

-------------------------------------------------------------------------------
(* The invariant holds                                                      *)

\* Sequences over a larger set.
LEMMA SeqWithin ==
    ASSUME NEW S, NEW T, S \subseteq T, NEW q \in Seq(S)
    PROVE  q \in Seq(T)
<1> DEFINE n == Len(q)
<1>1. n \in Nat /\ DOMAIN q = 1 .. n /\ \A i \in 1 .. n : q[i] \in S
  BY SeqIs
<1>2. q \in [1 .. n -> T]
  <2>1. q = [i \in 1 .. n |-> q[i]]
    BY <1>1
  <2> QED BY <1>1, <2>1
<1> HIDE DEF n
<1> QED BY <1>1, <1>2, IsSeq

\* What may pass through the filter is of the types it works on.
LEMMA LoadsTyped ==
    ASSUME NEW load \in Loads, NEW r \in Responses
    PROVE  /\ load[r].chains \in Seq(Links) /\ load[r].plain \in Bytestring
           /\ load[r].flaws \in SUBSET STRING /\ load[r].twice \in BOOLEAN
<1>1. /\ load[r].chains \in Seq(Chain) /\ load[r].plain \in Buffer
      /\ load[r].flaws \in SUBSET STRING /\ load[r].twice \in BOOLEAN
  BY LoadsAssumption
<1>2. Buffer \subseteq Bytestring
  <2> SUFFICES ASSUME NEW q \in Buffer PROVE q \in Bytestring
    OBVIOUS
  <2>1. STRING \subseteq Byte
    BY DEF Byte
  <2>2. q \in Seq(STRING)
    BY DEF Buffer
  <2>3. q \in Seq(Byte)
    BY <2>1, <2>2, SeqWithin
  <2> QED BY <2>3 DEF Bytestring
<1>3. Chain \subseteq Links
  <2> SUFFICES ASSUME NEW q \in Chain PROVE q \in Links
    OBVIOUS
  <2>1. q \in Seq(Buffer) /\ q # <<>>
    BY DEF Chain
  <2>2. q \in Seq(Bytestring)
    BY <1>2, <2>1, SeqWithin
  <2> QED BY <2>1, <2>2 DEF Links
<1>4. load[r].chains \in Seq(Links)
  BY <1>1, <1>3, SeqWithin
<1> QED BY <1>1, <1>2, <1>4

\* The worker starts with every response ahead of it.
LEMMA InitTyped == Init => Typed
<1> SUFFICES ASSUME Init PROVE Typed
  OBVIOUS
<1>1. PICK load \in Loads :
        ctx = [r \in Responses |-> [chains |-> load[r].chains, plain |-> load[r].plain,
                                    lastPacket |-> <<>>, lastDePacketLen |-> 0,
                                    out |-> <<>>, flaws |-> load[r].flaws,
                                    twice |-> load[r].twice]]
  BY DEF Init
<1>2. <<>> \in Bytestring
  BY DEF Bytestring
<1>3. ASSUME NEW r \in Responses PROVE ctx[r] \in Parts
  BY <1>1, <1>2, LoadsTyped DEF Parts
<1>4. ctx \in [Responses -> Parts]
  BY <1>1, <1>3
<1> QED BY <1>4 DEF Init, Typed

\* A call begins.
LEMMA BodyFilterTyped ==
    ASSUME Typed, NEW r \in Responses, BodyFilter(r)
    PROVE  Typed'
<1> DEFINE calls == ctx[r].chains
           bufs == Head(calls)
           null == bufs = << <<>> >>
           c == [resp |-> r, bufs |-> bufs, cl |-> 1, pass |-> 1, null |-> null]
<1>1. ctx \in [Responses -> Parts] /\ calls \in Seq(Links) /\ calls # <<>>
  BY DEF BodyFilter, Parts, Typed
<1>2. bufs \in Links /\ Tail(calls) \in Seq(Links)
  BY <1>1
<1>3. run' = c /\ ctx' = [ctx EXCEPT ![r].chains = Tail(calls)]
  BY DEF BodyFilter
<1> HIDE DEF calls
<1>4. 1 \in DOMAIN bufs
  BY <1>2 DEF Links
<1>5. c \in Call /\ c.bufs = bufs /\ c.cl = 1
  <2>1. null \in BOOLEAN
    OBVIOUS
  <2> HIDE DEF null
  <2> QED BY <1>2, <2>1 DEF Call, Passes
<1>6. AtBuffer(c)
  <2> HIDE DEF c, bufs
  <2> QED BY <1>4, <1>5 DEF AtBuffer
<1> HIDE DEF c
<1>7. ctx' \in [Responses -> Parts]
  BY <1>1, <1>2, <1>3 DEF Parts
<1> QED BY <1>3, <1>6, <1>7 DEF BodyFilter, Typed, globals

\* The chain is sent.
LEMMA OutputTyped ==
    ASSUME Typed, Output
    PROVE  Typed'
<1> DEFINE sent == FlattenSeq(run.bufs)
           r == run.resp
           out == ctx[r].out \o sent
<1>1. AtBuffer(run) /\ ctx \in [Responses -> Parts]
  BY DEF Output, Typed, Working
<1>2. run.bufs \in Links /\ r \in Responses
  BY <1>1 DEF AtBuffer, Call
<1>3. sent \in Bytestring
  <2> DEFINE f == run.bufs
             n == Len(f)
  <2>1. f \in [1 .. n -> Seq(Byte)] /\ n \in Nat
    BY <1>2 DEF Bytestring, Links
  <2> HIDE DEF f, n
  <2>2. FlattenSeq(f) \in Seq(Byte)
    BY <2>1, Flattened
  <2> QED BY <2>2 DEF Bytestring, f
<1>4. ctx' = [ctx EXCEPT ![r].out = out]
  BY DEF Output
<1> HIDE DEF sent
<1>5. out \in Bytestring
  BY <1>1, <1>2, <1>3 DEF Bytestring, Parts
<1> HIDE DEF out, r
<1>6. ctx' \in [Responses -> Parts]
  BY <1>1, <1>2, <1>4, <1>5 DEF Parts
<1> QED BY <1>6 DEF Output, Typed, globals

\* A turn that the worker survives keeps the types and gets on.
LEMMA ReplaceTurn ==
    ASSUME Typed, Replace, alive'
    PROVE  TurnTyped /\ SignsTyped /\ GoesOn
<1>1. CASE ReadNull
  BY <1>1 DEF ReadNull
<1>2. CASE NothingFound
  BY <1>2, NothingFoundTurn
<1>3. CASE DecryptAtHead
  BY <1>3, DecryptAtHeadTurn
<1>4. CASE DecryptAtStart
  BY <1>4, DecryptAtStartTurn
<1>5. CASE DecryptRest
  BY <1>5, DecryptRestTurn
<1> QED BY <1>1, <1>2, <1>3, <1>4, <1>5 DEF Replace

\* A turn that kills the worker changes nothing else of what is typed.
LEMMA ReplaceTyped ==
    ASSUME Typed, Replace
    PROVE  Typed'
<1>1. CASE alive'
  BY <1>1, ReplaceTurn DEF SignsTyped, TurnTyped, Typed
<1>2. CASE ~ alive'
  <2>1. alive
    BY DEF Replace, ReadNull, NothingFound, DecryptAtHead, DecryptAtStart, DecryptRest, Working
  <2>2. CASE ReadNull
    BY <2>2 DEF ReadNull, Typed, globals
  <2>3. CASE DecryptRest
    <3>1. ctx' = ctx /\ run' = run /\ alive' = FALSE
      BY <1>2, <2>1, <2>3, Zenon DEF DecryptRest
    <3>2. startCode' = startCode /\ encodetype' = encodetype /\ endCode' \in BOOLEAN
      BY <2>3 DEF DecryptRest, Typed, Cut, HeadIsCut
    <3> QED BY <3>1, <3>2 DEF Typed
  <2> QED BY <1>2, <2>1, <2>2, <2>3 DEF Replace, NothingFound, DecryptAtHead, DecryptAtStart
<1> QED BY <1>1, <1>2

\* Every step keeps the types.
LEMMA NextTyped == Typed /\ [Next]_vars => Typed'
<1> SUFFICES ASSUME Typed, [Next]_vars PROVE Typed'
  OBVIOUS
<1>1. CASE Replace
  BY <1>1, ReplaceTyped
<1>2. CASE Output
  BY <1>2, OutputTyped
<1>3. ASSUME NEW r \in Responses, BodyFilter(r) PROVE Typed'
  BY <1>3, BodyFilterTyped
<1>4. CASE UNCHANGED vars
  BY <1>4 DEF Typed, vars, AtBuffer
<1> QED BY <1>1, <1>2, <1>3, <1>4 DEF Next

\* The call at hand and all that is kept of the responses is of its type.
THEOREM TypedAlways == Spec => []Typed
<1>1. Init => Typed
  BY InitTyped
<1>2. Typed /\ [Next]_vars => Typed'
  BY NextTyped
<1> QED BY <1>1, <1>2, PTL DEF Spec

\* The worker's globals and the call that is worked on stay within their types.
THEOREM TypeCorrect == Spec => []TypeOK
<1>1. Typed => TypeOK
  BY DEF AtBuffer, Call, Passes, Typed, TypeOK, Working
<1> QED BY <1>1, TypedAlways, PTL

\* replace_ngx_str_t does not call itself forever: each turn over a buffer goes on in
\* the chain or leaves less to do, for every response, division and order of calls.
THEOREM TurnsCorrect == Spec => TurnsEnd
<1>1. Typed /\ [Next]_vars =>
        [run # Idle /\ run' # Idle /\ alive' =>
            \/ run'.pass > run.pass
            \/ run'.pass = run.pass /\ (run'.cl > run.cl \/ (run'.cl = run.cl /\ Left' < Left))]_vars
  <2> SUFFICES ASSUME Typed, Next, run # Idle, run' # Idle, alive' PROVE GoesOn
    BY DEF GoesOn
  <2>1. CASE Replace
    BY <2>1, ReplaceTurn
  <2>2. CASE Output
    BY <2>2 DEF Output
  <2>3. CASE \E r \in Responses : BodyFilter(r)
    BY <2>3 DEF BodyFilter
  <2> QED BY <2>1, <2>2, <2>3 DEF Next
<1> QED BY <1>1, TypedAlways, PTL DEF Spec, TurnsEnd

===============================================================================
