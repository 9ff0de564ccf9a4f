---------------------------- MODULE ValuePathProofs ----------------------------
(***************************************************************************)
(* Proofs about the way of a posted value, for all policies, requests and   *)
(* ciphertexts: which form is applied, that the chain is the body, what     *)
(* the passes of replace_post write, when one is written past its space,    *)
(* that what is escaped is read back, and that a page in which the value of *)
(* the body is written shows every ciphertext in its order.                 *)
(***************************************************************************)
EXTENDS ValuePath, SequenceLemmas, SequenceTheorems, FiniteSetTheorems

-------------------------------------------------------------------------------
(* The form that is applied                                                 *)

\* A pattern with a star that is not meant as GetPostPolicy takes it, for that URL.
Special(url, pattern) ==
    /\ Star \in ToSet(pattern)
    /\ Star \in ToSet(Front(pattern)) \/ Len(url) < Len(pattern) \/ Star \in ToSet(url)

\* What ToSet is for text.
LEMMA InText ==
    ASSUME NEW s \in Text, NEW x
    PROVE  /\ Len(s) \in Nat /\ DOMAIN s = 1 .. Len(s)
           /\ x \in ToSet(s) <=> \E k \in 1 .. Len(s) : s[k] = x
BY DEF Text, ToSet

\* A pattern without a star fits the URL that it is.
LEMMA FitsPlain ==
    ASSUME NEW url \in Text, NEW pattern \in Text, Star \notin ToSet(pattern)
    PROVE  Fits(url, pattern) <=> Meant(url, pattern)
<1>1. \A k \in 1 .. Len(pattern) : pattern[k] # Star
  BY InText
<1>2. DOMAIN pattern = 1 .. Len(pattern)
  BY InText
<1>3. Nul # Star
  BY DEF Nul, Star
<1>4. \A k : ByteIn(pattern, k) # Star
  BY <1>1, <1>2, <1>3 DEF ByteIn
<1> QED BY <1>4 DEF Fits, Meant

\* The first star of a pattern that ends with its only one.
LEMMA StarLast ==
    ASSUME NEW pattern \in Text, Star \in ToSet(pattern), Star \notin ToSet(Front(pattern))
    PROVE  /\ Len(pattern) \in Nat \ {0} /\ pattern[Len(pattern)] = Star
           /\ \A k \in 1 .. Len(pattern) - 1 : pattern[k] # Star
           /\ Min({k \in DOMAIN pattern : pattern[k] = Star}) = Len(pattern)
<1> DEFINE n == Len(pattern)
           front == SubSeq(pattern, 1, n - 1)
<1>1. n \in Nat /\ DOMAIN pattern = 1 .. n /\ \E k \in 1 .. n : pattern[k] = Star
  BY InText
<1>2. front \in Text /\ Len(front) = n - 1 /\ \A k \in 1 .. n - 1 : front[k] = pattern[k]
  <2>1. n # 0
    BY <1>1
  <2> QED BY <1>1, <2>1, SubSeqProperties DEF Text
<1>3. Star \notin ToSet(front)
  BY DEF Front
<1> HIDE DEF front
<1>4. \A k \in 1 .. n - 1 : pattern[k] # Star
  BY <1>2, <1>3, InText
<1>5. pattern[n] = Star /\ n # 0
  <2> HIDE DEF n
  <2> QED BY <1>1, <1>4
<1>6. {k \in DOMAIN pattern : pattern[k] = Star} = {n}
  <2> HIDE DEF n
  <2> QED BY <1>1, <1>4, <1>5
<1>7. Min({n}) = n
  <2> DEFINE one == {n}
  <2>1. one \in SUBSET Nat /\ one # {}
    BY <1>1
  <2> HIDE DEF one
  <2>2. Min(one) \in one
    BY <2>1, MinIn
  <2> QED BY <2>2 DEF one
<1> QED BY <1>1, <1>4, <1>5, <1>6, <1>7

\* A pattern that ends with its only star fits what begins as it does.
LEMMA FitsStar ==
    ASSUME NEW url \in Text, NEW pattern \in Text, Star \in ToSet(pattern), ~ Special(url, pattern)
    PROVE  Fits(url, pattern) <=> Meant(url, pattern)
<1> DEFINE n == Len(pattern)
           m == Len(url)
           left == SubSeq(pattern, 1, n - 1)
           right == SubSeq(pattern, n + 1, n)
<1>1. /\ n \in Nat \ {0} /\ pattern[n] = Star /\ \A k \in 1 .. n - 1 : pattern[k] # Star
      /\ Min({k \in DOMAIN pattern : pattern[k] = Star}) = n
  BY StarLast DEF Special
<1>2. /\ m \in Nat /\ n =< m /\ DOMAIN url = 1 .. m /\ DOMAIN pattern = 1 .. n
      /\ \A k \in 1 .. m : url[k] # Star
  BY <1>1, InText DEF Special
<1>3. left \in Text /\ Len(left) = n - 1 /\ \A k \in 1 .. n - 1 : left[k] = pattern[k]
  <2>1. n - 1 \in 0 .. n
    BY <1>1
  <2> QED BY <2>1, Beginning DEF Text
<1>4. right = <<>> /\ Len(right) = 0
  BY <1>1, SubSeqProperties DEF Text
<1>5. IsSuffix(<<>>, url)
  <2>1. Len(Reverse(url)) = m /\ Reverse(<<>>) = <<>>
    BY <1>2 DEF Reverse
  <2> QED BY <1>2, <2>1 DEF IsPrefix, IsSuffix
<1>6. /\ Meant(url, pattern) <=>
            /\ IsPrefix(left, url) /\ IsSuffix(right, url)
            /\ Len(left) + Len(right) <= m
      /\ IsPrefix(left, url) <=>
            Len(left) <= m /\ SubSeq(left, 1, Len(left)) = SubSeq(url, 1, Len(left))
  BY <1>1, Zenon DEF IsPrefix, Meant
<1>7. SubSeq(left, 1, n - 1) = left
  <2>1. \A t \in Seq(STRING) : SubSeq(t, 1, Len(t)) = t
    OBVIOUS
  <2> HIDE DEF left
  <2> QED BY <1>3, <2>1 DEF Text
<1> HIDE DEF n, m, left, right
<1>8. Meant(url, pattern) <=> SubSeq(url, 1, n - 1) = left
  BY <1>1, <1>2, <1>3, <1>4, <1>5, <1>6, <1>7
<1>9. url # pattern
  <2>1. pattern[n] = Star /\ url[n] # Star
    BY <1>1, <1>2
  <2> QED BY <2>1
<1>10. \A k \in 1 .. m : ByteIn(pattern, k) = Star <=> k = n
  <2>1. Nul # Star
    BY DEF Nul, Star
  <2>2. SUFFICES ASSUME NEW k \in 1 .. m PROVE ByteIn(pattern, k) = Star <=> k = n
    OBVIOUS
  <2>3. CASE k \in 1 .. n - 1
    BY <1>1, <1>2, <2>3 DEF ByteIn
  <2>4. CASE k = n
    BY <1>1, <1>2, <2>4 DEF ByteIn
  <2>5. CASE k > n
    BY <1>1, <1>2, <2>1, <2>5 DEF ByteIn
  <2> QED BY <1>1, <2>3, <2>4, <2>5
<1>11. Fits(url, pattern) <=> SubSeq(url, 1, n - 1) = left
  <2>1. n \in 1 .. m /\ url[n] # Star
    BY <1>1, <1>2
  <2>2. left = SubSeq(pattern, 1, n - 1)
    BY DEF left, n
  <2> DEFINE Differ(k) == /\ SubSeq(url, 1, k - 1) = SubSeq(pattern, 1, k - 1)
                          /\ ByteIn(pattern, k) = Star
                          /\ url[k] # Star
  <2>3. Fits(url, pattern) <=> \E k \in 1 .. m : Differ(k)
    BY <1>2, <1>9, Zenon DEF Fits
  <2>4. ByteIn(pattern, n) = Star
    BY <1>10, <2>1
  <2>5. Differ(n) <=> SubSeq(url, 1, n - 1) = left
    BY <2>1, <2>2, <2>4
  <2>6. \A k \in 1 .. m : Differ(k) => k = n
    BY <1>10
  <2> HIDE DEF Differ
  <2> QED BY <2>1, <2>3, <2>5, <2>6
<1> QED BY <1>8, <1>11

\* Where the patterns that may fit are meant as they are taken, those fit that are
\* meant.
LEMMA FitsMeant ==
    ASSUME NEW url \in Text, NEW pattern \in Text, ~ Special(url, pattern)
    PROVE  Fits(url, pattern) <=> Meant(url, pattern)
BY FitsPlain, FitsStar

\* The form that GetPostPolicy finds.
Looked == /\ request \in Requests
          /\ stage # "arrived" => found = GetPostPolicy(request.sites, request.server, request.url)

\* So the form applied is the one LookupExplained says.
LEMMA LookedExplains == ASSUME Looked PROVE LookupExplained
<1> DEFINE sites == request.sites
           url == request.url
           forms == {ij \in FormPlaces(sites) : sites[ij[1]].proxyhost = request.server}
           UrlOf(ij) == sites[ij[1]].urls[ij[2]]
<1> SUFFICES ASSUME stage # "arrived",
                    ~ \E ij \in forms : Special(url, UrlOf(ij))
             PROVE  found = FirstOf({ij \in forms : Meant(url, UrlOf(ij))})
  BY DEF LookupExplained, Special
<1>1. sites \in Seq(Site) /\ url \in Text
  BY RequestsAssumption DEF Looked
<1>2. ASSUME NEW ij \in FormPlaces(sites) PROVE UrlOf(ij) \in Text
  <2>1. PICK i \in DOMAIN sites : ij \in {i} \X (DOMAIN sites[i].urls)
    BY DEF FormPlaces
  <2>2. ij[1] = i /\ ij[2] \in DOMAIN sites[i].urls
    BY <2>1
  <2>3. sites[i] \in Site
    BY <1>1, <2>1
  <2>4. sites[i].urls \in Seq(Text)
    BY <2>3 DEF Site
  <2> QED BY <2>2, <2>4
<1>3. ASSUME NEW ij \in forms PROVE Fits(url, UrlOf(ij)) <=> Meant(url, UrlOf(ij))
  <2>1. UrlOf(ij) \in Text /\ ~ Special(url, UrlOf(ij))
    BY <1>2
  <2> QED BY <1>1, <2>1, FitsMeant
<1>4. {ij \in FormPlaces(sites) : sites[ij[1]].proxyhost = request.server /\ Fits(url, UrlOf(ij))}
        = {ij \in forms : Meant(url, UrlOf(ij))}
  BY <1>3
<1> QED BY <1>4 DEF GetPostPolicy, Looked

\* The form applied is the first whose pattern is meant for the URL, but for the
\* patterns and URLs that GetPostPolicy is not made for, whatever the policies.
THEOREM LookupCorrect == Spec => []LookupExplained
<1>1. Init => Looked
  BY DEF Init, Looked
<1>2. Looked /\ [Next]_vars => Looked'
  <2> SUFFICES ASSUME Looked, [Next]_vars PROVE Looked'
    OBVIOUS
  <2>1. request' = request
    BY DEF Next, Lookup, Search, ReplacePost, Send, Decode, EncryptData, EncryptDataBase64,
           EncryptPart, Show, vars
  <2>2. CASE Lookup
    BY <2>1, <2>2 DEF Looked, Lookup
  <2>3. CASE found' = found /\ (stage = "arrived" => stage' = "arrived")
    BY <2>1, <2>3 DEF Looked
  <2> QED BY <2>2, <2>3 DEF Next, Search, ReplacePost, Send, Decode, EncryptData,
               EncryptDataBase64, EncryptPart, Show, vars
<1>3. Looked => LookupExplained
  BY LookedExplains
<1> QED BY <1>1, <1>2, <1>3, PTL DEF Spec

-------------------------------------------------------------------------------
(* The chain                                                                *)

\* The buffers hold the text, in full and in its order, and none is empty.
LEMMA ChainIs ==
    ASSUME NEW d, Sequence(d)
    PROVE  /\ FlattenSeq(createchain(d)) = d
           /\ createchain(d) = <<>> => d = <<>>
           /\ <<>> \notin ToSet(createchain(d))
<1>1. PICK S : d \in Seq(S)
  BY DEF Sequence
<1> DEFINE n == Len(d)
           B == BufferSize
           num == (n + B - 1) \div B
           at == [i \in 0 .. num |-> IF i * B =< n THEN i * B ELSE n]
           f == createchain(d)
<1>2. n \in Nat /\ B \in Nat \ {0}
  BY <1>1, ConstantsAssumption
<1>3. num \in Nat /\ n =< num * B /\ \A i \in 1 .. num : (i - 1) * B < n
  BY <1>2, BuffersNeeded
<1>4. f = [i \in 1 .. num |-> SubSeq(d, (i - 1) * B + 1, Min({i * B, n}))]
  BY DEF createchain
<1> HIDE DEF n, B, num, f
<1>5. ASSUME NEW i \in 1 .. num
      PROVE  /\ at[i - 1] = (i - 1) * B /\ at[i - 1] < at[i]
             /\ f[i] = SubSeq(d, at[i - 1] + 1, at[i])
  <2>1. i * B \in Nat /\ (i - 1) * B \in Nat /\ i * B = (i - 1) * B + B /\ (i - 1) * B < n
    BY <1>2, <1>3
  <2>2. i - 1 \in 0 .. num /\ i \in 0 .. num
    BY <1>3
  <2>3. at[i - 1] = (i - 1) * B
    BY <1>2, <2>1, <2>2
  <2>4. at[i] = IF i * B =< n THEN i * B ELSE n
    BY <2>2
  <2>5. Min({i * B, n}) = at[i]
    <3> DEFINE a == i * B
    <3>1. a \in Nat
      BY <2>1
    <3> HIDE DEF a
    <3>2. Min({a, n}) = IF a =< n THEN a ELSE n
      BY <1>2, <3>1, Smaller
    <3> HIDE DEF at
    <3> QED BY <2>4, <3>2 DEF a
  <2>6. f[i] = SubSeq(d, (i - 1) * B + 1, Min({i * B, n}))
    BY <1>4
  <2> DEFINE a == (i - 1) * B
             b == i * B
  <2>7. a \in Nat /\ b \in Nat /\ b = a + B /\ a < n
    BY <2>1
  <2> HIDE DEF at, a, b
  <2>8. at[i - 1] < at[i]
    BY <1>2, <2>3, <2>4, <2>7 DEF a, b
  <2>9. f[i] = SubSeq(d, at[i - 1] + 1, at[i])
    BY <2>3, <2>5, <2>6, Zenon
  <2> QED BY <2>3, <2>8, <2>9
<1>6. at \in [0 .. num -> 0 .. n] /\ at[0] = 0 /\ at[num] = n
  <2>1. \A i \in 0 .. num : i * B \in Nat
    BY <1>2, <1>3
  <2>2. 0 * B = 0
    BY <1>2
  <2> QED BY <1>2, <1>3, <2>1, <2>2
<1>7. \A i \in 1 .. num : at[i - 1] \in 0 .. n /\ at[i] \in 0 .. n
  <2> HIDE DEF at
  <2> QED BY <1>3, <1>6
<1> HIDE DEF at
<1>8. ASSUME NEW i \in 1 .. num PROVE f[i] \in Seq(S) /\ f[i] # <<>>
  <2> DEFINE a == at[i - 1]
             b == at[i]
  <2>1. a \in 0 .. n /\ b \in 0 .. n /\ a < b /\ f[i] = SubSeq(d, a + 1, b)
    BY <1>5, <1>7
  <2> HIDE DEF a, b
  <2>2. \A k \in a + 1 .. b : d[k] \in S
    BY <1>1, <1>2, <2>1 DEF n
  <2>3. SubSeq(d, a + 1, b) \in Seq(S) /\ Len(SubSeq(d, a + 1, b)) = b - a
    BY <1>2, <2>1, <2>2, SubSeqProperties
  <2>4. b - a # 0 /\ Len(<<>>) = 0
    BY <1>2, <2>1
  <2>5. f[i] \in Seq(S) /\ Len(f[i]) # 0
    BY <2>1, <2>3, <2>4
  <2> QED BY <2>4, <2>5
<1>9. f \in [1 .. num -> Seq(S)] /\ DOMAIN f = 1 .. num
  BY <1>4, <1>8
<1>10. FlattenSeq(f) = d
  <2>1. \A i \in 1 .. num : at[i - 1] =< at[i]
    BY <1>2, <1>5, <1>7
  <2>2. \A i \in 1 .. num : f[i] = SubSeq(d, at[i - 1] + 1, at[i])
    BY <1>5
  <2>3. num \in Nat /\ f \in [1 .. num -> Seq(S)]
    BY <1>3, <1>9
  <2>4. at \in [0 .. num -> 0 .. Len(d)] /\ at[0] = 0 /\ at[num] = Len(d)
    BY <1>6 DEF n
  <2>5. Cuts(S, d, num, at, f)
    BY <1>1, <2>1, <2>2, <2>3, <2>4 DEF Cuts
  <2> QED BY <2>5, FlattenedPieces
<1>11. f = <<>> => d = <<>>
  <2> SUFFICES ASSUME f = <<>> PROVE d = <<>>
    OBVIOUS
  <2>1. num = 0
    BY <1>3, <1>9
  <2>2. n = 0
    BY <1>6, <2>1
  <2> QED BY <1>1, <2>2 DEF n
<1>12. <<>> \notin ToSet(f)
  BY <1>8, <1>9 DEF ToSet
<1> QED BY <1>10, <1>11, <1>12 DEF f

-------------------------------------------------------------------------------
(* What is sent is a sequence of bytes, whatever the bytes.                 *)

\* The least of some numbers is a number.
LEMMA LeastNumber == ASSUME NEW S \in SUBSET Nat, S # {} PROVE Min(S) \in Nat
BY MinIn

\* The text that is seen ends with the body, or before a zero byte.
LEMMA CStringSees ==
    ASSUME NEW S, NEW b \in Seq(S), NEW t, t = CString(b), NEW n, n = Len(t)
    PROVE  /\ n \in 0 .. Len(b) /\ \A i \in 1 .. n : t[i] = b[i] /\ b[i] # Nul
           /\ n < Len(b) => b[n + 1] = Nul
           /\ t \in Seq(S)
<1> DEFINE at == {k \in DOMAIN b : b[k] = Nul}
<1>1. Len(b) \in Nat /\ DOMAIN b = 1 .. Len(b)
  OBVIOUS
<1>2. t = IF at = {} THEN b ELSE SubSeq(b, 1, Min(at) - 1)
  BY DEF CString
<1>3. CASE at = {}
  BY <1>1, <1>2, <1>3
<1>4. CASE at # {}
  <2>1. PICK m : m = Min(at)
    OBVIOUS
  <2>2. m \in at /\ \A y \in at : m =< y
    <3>1. at \in SUBSET Nat
      BY <1>1
    <3> HIDE DEF at
    <3> QED BY <1>4, <2>1, <3>1, MinIn
  <2>3. m \in 1 .. Len(b) /\ b[m] = Nul
    BY <1>1, <2>2
  <2>4. ASSUME NEW i \in 1 .. m - 1 PROVE b[i] # Nul
    <3>1. i \in DOMAIN b /\ i \notin at
      BY <1>1, <2>2, <2>3
    <3> QED BY <3>1
  <2>5. t = SubSeq(b, 1, m - 1)
    BY <1>2, <1>4, <2>1
  <2> HIDE DEF at
  <2>6. m - 1 \in 0 .. Len(b)
    BY <1>1, <2>3
  <2>7. t \in Seq(S) /\ Len(t) = m - 1 /\ \A i \in 1 .. m - 1 : t[i] = b[i]
    BY <2>5, <2>6, Beginning
  <2> QED BY <1>1, <2>3, <2>4, <2>7
<1> QED BY <1>3, <1>4

\* A text as a C string.
LEMMA CStringIs ==
    ASSUME NEW s, Sequence(s)
    PROVE  Sequence(CString(s)) /\ Len(CString(s)) \in Nat /\ DOMAIN CString(s) = 1 .. Len(CString(s))
<1>1. PICK S : s \in Seq(S)
  BY DEF Sequence
<1>2. CString(s) \in Seq(S)
  BY <1>1, CStringSees
<1> QED BY <1>2 DEF Sequence

\* Places are numbers.
LEMMA PlacesAre ==
    ASSUME NEW d, Sequence(d), NEW s, Sequence(s), NEW i \in Nat
    PROVE  Places(d, s, i) \in SUBSET Nat
<1>1. Len(d) \in Nat /\ Len(s) \in Nat
  BY DEF Sequence
<1> QED BY <1>1 DEF Places

\* Replacing makes a sequence of one.
LEMMA ReplacedIs ==
    ASSUME NEW d, Sequence(d), NEW old, NEW new, Sequence(new)
    PROVE  Sequence(Replaced(d, old, new))
<1> DEFINE at == Places(d, old, 1)
           Piece(i) == CASE i \in at -> new
                         [] \E k \in at : k < i /\ i < k + Len(old) -> <<>>
                         [] OTHER -> <<d[i]>>
           f == [i \in DOMAIN d |-> Piece(i)]
<1>1. Len(d) \in Nat /\ DOMAIN d = 1 .. Len(d)
  BY DEF Sequence
<1>2. ASSUME NEW i PROVE Sequence(Piece(i))
  <2>1. Piece(i) = new \/ Piece(i) = <<>> \/ Piece(i) = <<d[i]>>
    OBVIOUS
  <2> HIDE DEF Piece
  <2>2. <<>> \in Seq({}) /\ <<d[i]>> \in Seq({d[i]})
    OBVIOUS
  <2> QED BY <2>1, <2>2 DEF Sequence
<1>3. Replaced(d, old, new) = IF at = {} THEN d ELSE FlattenSeq(f)
  BY DEF Replaced
<1> HIDE DEF at, Piece
<1>4. f = [i \in 1 .. Len(d) |-> f[i]] /\ \A i \in 1 .. Len(d) : Sequence(f[i])
  BY <1>1, <1>2
<1> HIDE DEF f
<1>5. Sequence(FlattenSeq(f))
  BY <1>1, <1>4, FlattenedSequence
<1> QED BY <1>3, <1>5

\* Two digits for each byte.
LEMMA HexadecimalIs ==
    ASSUME NEW d \in Seq(DOMAIN HexDigits)
    PROVE  Sequence(Hexadecimal(d))
<1> DEFINE f == [i \in DOMAIN d |-> HexDigits[d[i]]]
<1>1. Len(d) \in Nat /\ DOMAIN d = 1 .. Len(d) /\ \A i \in 1 .. Len(d) : d[i] \in DOMAIN HexDigits
  BY SeqIs
<1>2. ASSUME NEW b \in DOMAIN HexDigits PROVE Sequence(HexDigits[b])
  <2>1. PICK k : HexDigits[b] = <<HexTable[k][2], HexTable[k][3]>>
    BY Zenon DEF HexDigits
  <2> DEFINE x == HexTable[k][2]
             y == HexTable[k][3]
  <2> HIDE DEF x, y
  <2>2. <<x, y>> \in Seq({x, y})
    OBVIOUS
  <2>3. Sequence(<<x, y>>)
    BY <2>2 DEF Sequence
  <2> QED BY <2>1, <2>3 DEF x, y
<1>3. \A i \in 1 .. Len(d) : Sequence(f[i])
  BY <1>1, <1>2
<1>4. f = [i \in 1 .. Len(d) |-> f[i]]
  BY <1>1
<1>5. Hexadecimal(d) = FlattenSeq(f)
  BY DEF Hexadecimal
<1> HIDE DEF f
<1> QED BY <1>1, <1>3, <1>4, <1>5, FlattenedSequence

\* What findWildString knows while it searches.
Findings == [j : Nat, p : Nat, plen : Nat]

\* A step of the search keeps the types of what it knows.
LEMMA FindStepIs ==
    ASSUME NEW src, NEW dest, NEW at \in Findings, NEW i \in Nat
    PROVE  FindStep(src, dest, at, i) \in Findings
<1>1. Restarted \in Findings
  BY DEF Findings, Restarted
<1>2. at.j \in Nat /\ at.p \in Nat /\ at.plen \in Nat
  BY DEF Findings
<1>3. [j |-> at.j + 1, p |-> IF at.p = 0 THEN i ELSE at.p, plen |-> at.plen + 1] \in Findings
  BY <1>2 DEF Findings
<1>4. ASSUME NEW c \in BOOLEAN
      PROVE  [at EXCEPT !.plen = @ + 1, !.j = IF c THEN @ + 2 ELSE @] \in Findings
  <2> DEFINE next == [at EXCEPT !.plen = @ + 1]
             j == IF c THEN at.j + 2 ELSE at.j
  <2>1. next \in Findings /\ next.j = at.j
    BY <1>2 DEF Findings
  <2>2. j \in Nat
    BY <1>2
  <2> HIDE DEF j, next
  <2>3. [next EXCEPT !.j = j] \in Findings
    BY <2>1, <2>2 DEF Findings
  <2> QED BY <2>1, <2>3 DEF j, next
<1> DEFINE c == src[i] = ByteIn(dest, at.j + 1)
           Onward == [at EXCEPT !.plen = @ + 1, !.j = IF c THEN @ + 2 ELSE @]
<1>5. Onward \in Findings
  BY <1>4
<1>6. \/ FindStep(src, dest, at, i) = at \/ FindStep(src, dest, at, i) = Restarted
      \/ FindStep(src, dest, at, i) =
           [j |-> at.j + 1, p |-> IF at.p = 0 THEN i ELSE at.p, plen |-> at.plen + 1]
      \/ FindStep(src, dest, at, i) = Onward
  BY Zenon DEF FindStep
<1> HIDE DEF Onward
<1> QED BY <1>1, <1>3, <1>5, <1>6

\* What the search knows behind each byte of the text that it sees.
Runs(b, d, r, n) ==
    /\ n = Len(CString(b)) /\ r \in [0 .. n -> Findings] /\ r[0] = Restarted
    /\ \A m \in 1 .. n : r[m] = FindStep(b, d, r[m - 1], m)
    /\ findWildString(b, d) = r[n]

\* The search is a run of turns.
LEMMA FoundRuns ==
    ASSUME NEW b, Sequence(b), NEW d
    PROVE  \E r, n : Runs(b, d, r, n)
<1> DEFINE t == CString(b)
           n == Len(t)
           indices == [i \in DOMAIN t |-> i]
           F(it) == [s \in SUBSET DOMAIN indices |->
                       IF s = {} THEN Restarted
                       ELSE FindStep(t, d, it[s \ {Max(s)}], indices[Max(s)])]
           step == [p \in Findings \X (1 .. n) |-> FindStep(t, d, p[1], p[2])]
<1>1. n \in Nat /\ DOMAIN t = 1 .. n
  BY CStringIs
<1>2. findWildString(b, d) = (CHOOSE it : it = F(it))[DOMAIN indices]
  BY Zenon DEF findWildString, FoldLeft, MapThenFoldSet
<1> HIDE DEF n, t
<1>3. DOMAIN indices = 1 .. n /\ \A i \in 1 .. n : indices[i] = i
  BY <1>1
<1>4. Restarted \in Findings /\ step \in Steps(Findings, n)
  <2>1. Restarted \in Findings
    BY DEF Findings, Restarted
  <2>2. \A at \in Findings, i \in 1 .. n : FindStep(t, d, at, i) \in Findings
    BY <1>1, FindStepIs
  <2> QED BY <2>1, <2>2 DEF Steps
<1> HIDE DEF indices
<1>5. \E it : it = F(it)
  <2> HIDE DEF step
  <2>1. PICK it : Unrolled(it, Findings, Restarted, n, step)
    BY <1>1, <1>4, FoldExists
  <2>2. ASSUME NEW s \in SUBSET (1 .. n)
        PROVE  it[s] = IF s = {} THEN Restarted
                       ELSE FindStep(t, d, it[s \ {Max(s)}], indices[Max(s)])
    <3>1. CASE s = {}
      BY <2>1, <3>1 DEF FoldAt, Unrolled
    <3>2. CASE s # {}
      <4>1. it[s \ {Max(s)}] \in Findings /\ Max(s) \in 1 .. n
        BY <1>1, <2>1, <3>2, MaxIndex DEF Unrolled
      <4>2. it[s] = step[<<it[s \ {Max(s)}], Max(s)>>]
        BY <2>1, <3>2 DEF FoldAt, Unrolled
      <4>3. indices[Max(s)] = Max(s)
        BY <1>3, <4>1
      <4> QED BY <3>2, <4>1, <4>2, <4>3 DEF step
    <3> QED BY <3>1, <3>2
  <2>3. it = F(it)
    BY <1>3, <2>1, <2>2 DEF Unrolled
  <2> HIDE DEF F
  <2> QED BY <2>3
<1>6. PICK it : it = F(it) /\ findWildString(b, d) = it[DOMAIN indices]
  <2> HIDE DEF F
  <2> QED BY <1>2, <1>5, Zenon
<1>7. Unrolls(it, Findings, Restarted, n, step)
  <2>1. it[{}] = Restarted
    BY <1>6
  <2>2. ASSUME NEW s \in SUBSET (1 .. n), s # {}, it[s \ {Max(s)}] \in Findings
        PROVE  it[s] = step[<<it[s \ {Max(s)}], Max(s)>>]
    <3>1. /\ it[s] = FindStep(t, d, it[s \ {Max(s)}], indices[Max(s)])
          /\ Max(s) \in 1 .. n
      BY <1>1, <1>3, <1>6, <2>2, MaxIndex
    <3>2. indices[Max(s)] = Max(s)
      BY <1>3, <3>1
    <3> QED BY <2>2, <3>1, <3>2
  <2> HIDE DEF step, F
  <2> QED BY <2>1, <2>2 DEF Unrolls
<1> HIDE DEF F, step
<1>8. Sums(it, Findings, Restarted, n, step)
  BY <1>1, <1>4, <1>7, FoldSteps
<1>9. PICK r : Accumulates(r, Findings, Restarted, n, step) /\ it[1 .. n] = r[n]
  BY <1>8 DEF Sums
<1>10. ASSUME NEW m \in 1 .. n PROVE r[m] = FindStep(b, d, r[m - 1], m)
  <2>1. r[m] = step[<<r[m - 1], m>>] /\ r[m - 1] \in Findings
    BY <1>1, <1>9 DEF Accumulates
  <2>2. r[m] = FindStep(t, d, r[m - 1], m)
    BY <2>1 DEF step
  <2>3. t[m] = b[m]
    BY CStringSees DEF n, Sequence, t
  <2> QED BY <2>2, <2>3 DEF FindStep
<1>11. Runs(b, d, r, n)
  <2>1. n = Len(CString(b))
    BY DEF n, t
  <2> QED BY <1>3, <1>6, <1>9, <1>10, <2>1 DEF Accumulates, Runs
<1> QED BY <1>11

\* What is found is a place and a length.
LEMMA FoundIs ==
    ASSUME NEW src, Sequence(src), NEW dest
    PROVE  findWildString(src, dest) \in Findings
<1>1. PICK r, n : Runs(src, dest, r, n)
  BY FoundRuns
<1>2. n \in Nat
  <2>1. Len(CString(src)) \in Nat
    BY CStringIs
  <2> QED BY <1>1, <2>1, Zenon DEF Runs
<1> QED BY <1>1, <1>2 DEF Runs

\* What the invariant needs of the variables: what is uploaded is a sequence, and
\* what is sent is the chain of it.
Uploading ==
    /\ request \in Requests /\ start \in Int /\ size \in Int /\ split_offset \in Nat
    /\ stage \notin {"shown", "opened"} => Sequence(text)
    /\ stage = "sent" => bufs = createchain(Upload)

\* The body is a sequence.
LEMMA BodyIs == ASSUME request \in Requests PROVE Sequence(Body) /\ Len(Body) \in Nat
BY RequestsAssumption DEF Body, Sequence, Text

\* The length of a value is a number.
LEMMA LengthIs ==
    ASSUME request \in Requests, NEW k \in Nat
    PROVE  LengthAt(k) \in Int
<1>1. Sequence(Body) /\ Len(Body) \in Nat /\ Sequence(CString(Body))
  BY BodyIs, CStringIs
<1>2. Sequence(Boundary)
  <2> DEFINE at == Places(CString(Body), <<"\r", "\n">>, 1)
  <2>1. Sequence(<<>>) /\ Sequence(<<"\r", "\n">>)
    <3>1. <<>> \in Seq({}) /\ <<"\r", "\n">> \in Seq({"\r", "\n"})
      OBVIOUS
    <3> QED BY <3>1 DEF Sequence
  <2>2. at \in SUBSET Nat
    BY <1>1, <2>1, PlacesAre
  <2>3. Boundary = IF at = {} THEN <<>> ELSE SubSeq(Body, 1, Min(at) - 1)
    BY DEF Boundary
  <2> HIDE DEF at
  <2>4. at # {} => Min(at) - 1 \in Int
    BY <2>2, LeastNumber
  <2> QED BY <1>1, <2>1, <2>3, <2>4, PartSequence
<1>3. Sequence(Closing)
  <2>1. Sequence(<<"%", "2", "2", "%", "7", "D">>) /\ Sequence(<<"&">>)
    <3>1. <<"%", "2", "2", "%", "7", "D">> \in Seq({"%", "2", "7", "D"}) /\ <<"&">> \in Seq({"&"})
      OBVIOUS
    <3> QED BY <3>1 DEF Sequence
  <2> QED BY <1>2, <2>1 DEF Closing
<1> DEFINE at == Places(CString(Body), Closing, k)
<1>4. at \in SUBSET Nat
  BY <1>1, <1>3, PlacesAre
<1>5. LengthAt(k) = IF at = {} THEN IF request.type \in Multipart THEN 0 ELSE Len(Body) + 1 - k
                    ELSE Min(at) - k - (IF request.type \in Multipart THEN 2 ELSE 0)
  BY DEF LengthAt
<1> HIDE DEF at
<1>6. at # {} => Min(at) \in Nat
  BY <1>4, LeastNumber
<1> QED BY <1>1, <1>5, <1>6

\* What is uploaded is a sequence.
LEMMA UploadIs == ASSUME Uploading, Sequence(text) PROVE Sequence(Upload)
<1>1. Sequence(Body) /\ Len(Body) \in Nat
  BY BodyIs DEF Uploading
<1>2. start - 1 \in Int /\ start + size \in Int /\ Len(Body) \in Int
  BY <1>1 DEF Uploading
<1>3. Sequence(SubSeq(Body, 1, start - 1)) /\ Sequence(SubSeq(Body, start + size, Len(Body)))
  BY <1>1, <1>2, PartSequence
<1>4. Sequence(SubSeq(Body, 1, start - 1) \o text)
  BY <1>3, JoinedSequence
<1>5. Sequence(SubSeq(Body, 1, start - 1) \o text \o SubSeq(Body, start + size, Len(Body)))
  BY <1>3, <1>4, JoinedSequence
<1> QED BY <1>1, <1>5 DEF Upload

\* With or without the flag, a text is a sequence.
LEMMA FlaggedIs == ASSUME NEW s, Sequence(s) PROVE Sequence(Flagged(s)) /\ Len(Flagged(s)) \in Nat
<1>1. PICK S : s \in Seq(S)
  BY DEF Sequence
<1>2. s \in Seq(S \cup {EndFlag})
  BY <1>1
<1>3. Append(s, EndFlag) \in Seq(S \cup {EndFlag})
  BY <1>2
<1>4. Sequence(Append(s, EndFlag))
  BY <1>3 DEF Sequence
<1>5. Sequence(Flagged(s))
  BY <1>4 DEF Flagged
<1> QED BY <1>5 DEF Sequence

\* The heads of the packets that are written.
LEMMA HeadsAre == Sequence(Heads[0]) /\ Len(Heads[0]) = 2 /\ Sequence(Heads[1]) /\ Len(Heads[1]) = 2
<1>1. Heads[0] = <<"ff", "fe">> /\ Heads[1] = <<"[", "1f">>
  BY DEF Heads
<1>2. <<"ff", "fe">> \in Seq({"ff", "fe"}) /\ <<"[", "1f">> \in Seq({"[", "1f"})
  OBVIOUS
<1> QED BY <1>1, <1>2 DEF Sequence

\* A packet written in digits.
LEMMA PacketIs ==
    ASSUME NEW c \in Seq(DOMAIN HexDigits)
    PROVE  Sequence(Flagged(Heads[1] \o Hexadecimal(c)))
BY HeadsAre, HexadecimalIs, JoinedSequence, FlaggedIs

\* The zeros behind a packet, as many as its escapes will take.
LEMMA CountIs == ASSUME NEW d, Sequence(d) PROVE replace_counts(d) \in Nat
<1> DEFINE at == {i \in DOMAIN d : d[i] \in Specials /\ (d[i] = "ff" => i > 1)}
<1>1. Len(d) \in Nat /\ at \subseteq 1 .. Len(d)
  BY DEF Sequence
<1>2. IsFiniteSet(at)
  BY <1>1, FS_Interval, FS_Subset
<1>3. Cardinality(at) \in Nat
  BY <1>2, FS_CardinalityType
<1> HIDE DEF at
<1>4. 3 * Cardinality(at) \in Nat
  BY <1>3
<1> QED BY <1>4 DEF replace_counts, at

\* One pass of replace_post over a sequence.
LEMMA PassIs ==
    ASSUME NEW n, NEW d, Sequence(d)
    PROVE  Sequence(replace_post(n, d))
<1>1. Sequence(Part(n, d)) /\ Len(Part(n, d)) \in Nat /\ Len(d) \in Nat
  <2>1. Len(d) \in Nat
    BY DEF Sequence
  <2>2. Sequence(Part(n, d))
    BY <2>1, PartSequence DEF Part
  <2> QED BY <2>1, <2>2 DEF Sequence
<1>2. Sequence(Escape(n))
  <2> DEFINE x == EscapedBytes[n][2]
             y == EscapedBytes[n][3]
  <2> HIDE DEF x, y
  <2>1. <<"$", x, y, ";">> \in Seq({"$", x, y, ";"})
    OBVIOUS
  <2> QED BY <2>1 DEF Escape, Sequence, x, y
<1>3. Sequence(Replaced(Part(n, d), <<ByteAt(n)>>, Escape(n)))
  BY <1>1, <1>2, ReplacedIs
<1> DEFINE s == Replaced(Part(n, d), <<ByteAt(n)>>, Escape(n))
           m == Len(Part(n, d))
<1>4. Len(d) - m \in Int /\ m \in Int
  BY <1>1
<1> HIDE DEF s, m
<1>5. Sequence(SubSeq(d, 1, Len(d) - m)) /\ Sequence(SubSeq(s, 1, m))
  BY <1>3, <1>4, PartSequence DEF s
<1>6. Sequence(SubSeq(d, 1, Len(d) - m) \o SubSeq(s, 1, m))
  BY <1>5, JoinedSequence
<1> QED BY <1>6 DEF replace_post, s, m

\* The end of a part is a place.
LEMMA PartEndIs == ASSUME NEW v, Sequence(v), NEW k \in Nat PROVE PartEnd(v, k) \in Nat
<1> DEFINE at == Places(CString(v), Comma, k)
<1>1. Sequence(CString(v)) /\ Len(CString(v)) \in Nat
  BY CStringIs
<1>2. Sequence(Comma)
  <2>1. <<"%", "2", "C">> \in Seq({"%", "2", "C"})
    OBVIOUS
  <2> QED BY <2>1 DEF Comma, Sequence
<1>3. at \in SUBSET Nat
  BY <1>1, <1>2, PlacesAre
<1>4. PartEnd(v, k) = IF at = {} THEN Len(CString(v)) + 1 ELSE Min(at)
  BY DEF PartEnd
<1> HIDE DEF at
<1> QED BY <1>1, <1>3, <1>4, LeastNumber

\* A step that leaves the upload alone.
LEMMA UploadKept ==
    ASSUME Uploading, UNCHANGED <<request, start, size, split_offset, text>>,
           stage' \notin {"sent", "shown", "opened"}, stage \notin {"shown", "opened"}
    PROVE  Uploading'
BY DEF Uploading

\* The search finds a place and a length.
LEMMA SearchUploads == ASSUME Uploading, Search PROVE Uploading'
<1> DEFINE at == findWildString(Body, request.name)
           k == at.p + at.plen
<1>1. at.p \in Nat /\ at.plen \in Nat
  <2>1. at \in Findings
    BY BodyIs, FoundIs DEF Uploading
  <2> HIDE DEF at
  <2> QED BY <2>1 DEF Findings
<1>2. k \in Nat /\ LengthAt(k) \in Int
  <2>1. k \in Nat
    BY <1>1
  <2> HIDE DEF k
  <2> QED BY <2>1, LengthIs DEF Uploading
<1>3. /\ stage = "search" /\ stage' \in {"clear", "kept"}
      /\ (start' = k /\ size' = LengthAt(k)) \/ (start' = start /\ size' = size)
      /\ request' = request /\ split_offset' = split_offset /\ text' = text
  BY DEF Search, sealing
<1> HIDE DEF k
<1> QED BY <1>2, <1>3 DEF Uploading

\* The encryptions that write a value at once write a sequence.
LEMMA EncryptUploads ==
    ASSUME Uploading, NEW c \in CiphersOf(request), EncryptData(c) \/ EncryptDataBase64(c)
    PROVE  Uploading'
<1>1. c \in Seq(DOMAIN HexDigits)
  BY RequestsAssumption DEF Uploading
<1>2. Sequence(text')
  <2>1. CASE EncryptData(c)
    <3> DEFINE d == Heads[0] \o c
               count == replace_counts(d)
               zeros == [i \in 1 .. count |-> "00"]
    <3>1. Sequence(c)
      BY <1>1 DEF Sequence
    <3>2. Sequence(d)
      BY <3>1, HeadsAre, JoinedSequence
    <3>3. text' = IF count > 0 THEN d \o zeros ELSE Flagged(d)
      BY <2>1 DEF EncryptData
    <3> HIDE DEF d
    <3>4. count \in Nat
      BY <3>2, CountIs
    <3> HIDE DEF count
    <3>5. Sequence(zeros)
      <4>1. zeros \in Seq({"00"})
        BY <3>4
      <4> QED BY <4>1 DEF Sequence
    <3> HIDE DEF zeros
    <3>6. Sequence(d \o zeros) /\ Sequence(Flagged(d))
      BY <3>2, <3>5, JoinedSequence, FlaggedIs
    <3> QED BY <3>3, <3>6
  <2>2. CASE EncryptDataBase64(c)
    <3> DEFINE e == IF request.type = "URLJSON" THEN <<"fe">> \o c ELSE c
    <3>1. e \in Seq(DOMAIN HexDigits)
      <4>1. "fe" \in DOMAIN HexDigits
        <5>1. 4 \in DOMAIN HexTable /\ HexTable[4][1] = "fe"
          BY DEF HexTable
        <5>2. HexTable[4][1] \in {HexTable[i][1] : i \in DOMAIN HexTable}
          BY <5>1
        <5>3. DOMAIN HexDigits = {HexTable[i][1] : i \in DOMAIN HexTable}
          BY DEF HexDigits
        <5> QED BY <5>1, <5>2, <5>3
      <4>2. <<"fe">> \in Seq(DOMAIN HexDigits)
        BY <4>1
      <4> DEFINE D == DOMAIN HexDigits
      <4>3. c \in Seq(D) /\ <<"fe">> \in Seq(D)
        BY <1>1, <4>2
      <4> HIDE DEF D
      <4>4. <<"fe">> \o c \in Seq(D)
        BY <4>3
      <4>5. e \in Seq(D)
        BY <4>3, <4>4
      <4> QED BY <4>5 DEF D
    <3>2. text' = Flagged(Heads[1] \o Hexadecimal(e))
      BY <2>2 DEF EncryptDataBase64
    <3> HIDE DEF e
    <3> QED BY <3>1, <3>2, PacketIs
  <2> QED BY <2>1, <2>2
<1>3. /\ stage = "clear" /\ stage' \in {"passes", "sealed"}
      /\ UNCHANGED <<request, start, size, split_offset>>
  BY DEF EncryptData, EncryptDataBase64
<1> QED BY <1>2, <1>3 DEF Uploading

\* So does every pass of replace_post.
LEMMA PassUploads == ASSUME Uploading, ReplacePost PROVE Uploading'
<1> DEFINE next == replace_post(pass + 1, text)
<1>1. stage = "passes" /\ Sequence(text)
  BY DEF ReplacePost, Uploading
<1>2. Sequence(next) /\ Sequence(Flagged(next))
  BY <1>1, PassIs, FlaggedIs
<1>3. /\ text' = next \/ text' = Flagged(next)
      /\ stage' \in {"passes", "sealed"}
      /\ UNCHANGED <<request, start, size, split_offset>>
  BY <1>1 DEF ReplacePost, sealing
<1> HIDE DEF next
<1> QED BY <1>2, <1>3 DEF Uploading

\* And so does every turn of the loop over the parts of a value.
LEMMA PartUploads ==
    ASSUME Uploading, NEW c \in CiphersOf(request), EncryptPart(c)
    PROVE  Uploading'
<1> DEFINE v == IF stage = "clear" THEN ValueAt(start, size) ELSE text
           k == split_offset + 1
           end == PartEnd(v, k)
           packet == Flagged(Heads[1] \o Hexadecimal(c))
<1>1. c \in Seq(DOMAIN HexDigits) /\ stage \in {"clear", "parts"}
  BY RequestsAssumption DEF EncryptPart, Uploading
<1>2. Sequence(packet) /\ Len(packet) \in Nat
  <2>1. Sequence(packet)
    BY <1>1, PacketIs
  <2> QED BY <2>1 DEF Sequence
<1>3. Sequence(v) /\ Len(v) \in Nat
  <2>1. Sequence(ValueAt(start, size))
    <3>1. start + size - 1 \in Int /\ start \in Int
      BY DEF Uploading
    <3>2. Sequence(SubSeq(Body, start, start + size - 1))
      BY <3>1, BodyIs, PartSequence DEF Uploading
    <3> QED BY <3>2 DEF ValueAt
  <2>2. Sequence(v)
    BY <1>1, <2>1 DEF Uploading
  <2> QED BY <2>2 DEF Sequence
<1>4. /\ text' = SubSeq(v, 1, k - 1) \o packet \o SubSeq(v, end, Len(v))
      /\ split_offset' \in {split_offset, split_offset + Len(packet) + Len(Comma)}
      /\ stage' \in {"parts", "sealed"}
      /\ UNCHANGED <<request, start, size>>
  BY DEF EncryptPart
<1>5. k \in Nat /\ k - 1 \in Int /\ split_offset \in Nat
  BY DEF Uploading
<1> HIDE DEF v, packet
<1>6. end \in Nat
  BY <1>3, <1>5, PartEndIs
<1> HIDE DEF end, k
<1>7. Sequence(SubSeq(v, 1, k - 1)) /\ Sequence(SubSeq(v, end, Len(v)))
  BY <1>3, <1>5, <1>6, PartSequence
<1>8. Sequence(SubSeq(v, 1, k - 1) \o packet)
  BY <1>2, <1>7, JoinedSequence
<1>9. Sequence(text')
  BY <1>4, <1>7, <1>8, JoinedSequence
<1>10. split_offset' \in Nat
  <2>1. Len(Comma) \in Nat
    BY DEF Comma
  <2> QED BY <1>2, <1>4, <1>5, <2>1
<1> QED BY <1>1, <1>4, <1>9, <1>10 DEF Uploading

\* The chain is made from what is uploaded.
LEMMA SendUploads == ASSUME Uploading, Send PROVE Uploading'
<1>1. /\ bufs' = createchain(Upload) /\ stage \in {"kept", "sealed"} /\ stage' = "sent"
      /\ UNCHANGED <<request, start, size, split_offset, text>>
  BY DEF Send, sealing
<1>2. Upload' = Upload
  BY <1>1 DEF Body, Upload
<1> DEFINE up == Upload
<1>3. bufs' = createchain(up) /\ Upload' = up
  BY <1>1, <1>2
<1> HIDE DEF up
<1>4. bufs' = createchain(Upload')
  BY <1>3
<1> QED BY <1>1, <1>4 DEF Uploading

\* What is uploaded and sent is kept up by every step.
LEMMA UploadingAlways == Spec => []Uploading
<1>1. Init => Uploading
  <2> SUFFICES ASSUME Init PROVE Uploading
    OBVIOUS
  <2>1. Sequence(<<>>)
    <3>1. <<>> \in Seq({})
      OBVIOUS
    <3> QED BY <3>1 DEF Sequence
  <2> QED BY <2>1 DEF Init, Uploading
<1>2. Uploading /\ [Next]_vars => Uploading'
  <2> SUFFICES ASSUME Uploading, [Next]_vars PROVE Uploading'
    OBVIOUS
  <2>1. CASE Lookup
    <3>1. /\ stage = "arrived" /\ stage' \in {"declined", "search", "kept"}
          /\ UNCHANGED <<request, start, size, split_offset, text>>
      BY <2>1 DEF Lookup, sealing
    <3> QED BY <3>1, UploadKept
  <2>2. CASE Search
    BY <2>2, SearchUploads
  <2>3. CASE ReplacePost
    BY <2>3, PassUploads
  <2>4. CASE Send
    BY <2>4, SendUploads
  <2>5. CASE Decode
    BY <2>5 DEF Decode, Uploading, sealing
  <2>6. ASSUME NEW c \in CiphersOf(request), EncryptData(c) \/ EncryptDataBase64(c) \/ EncryptPart(c)
        PROVE  Uploading'
    BY <2>6, EncryptUploads, PartUploads
  <2>7. ASSUME NEW c \in Opens, NEW n \in DOMAIN ciphers, Show(c, n) PROVE Uploading'
    <3>1. /\ stage' = "shown"
          /\ UNCHANGED <<request, start, size, split_offset>>
      BY <2>7, Zenon DEF Show, sealing
    <3> QED BY <3>1 DEF Uploading
  <2>8. CASE UNCHANGED vars
    <3>1. UNCHANGED <<request, start, size, split_offset, text, bufs, stage>>
      BY <2>8 DEF sealing, vars
    <3>2. Upload' = Upload
      BY <3>1 DEF Body, Upload
    <3>3. createchain(Upload)' = createchain(Upload)
      BY <3>2 DEF createchain
    <3> QED BY <3>1, <3>3 DEF Uploading
  <2> QED BY <2>1, <2>2, <2>3, <2>4, <2>5, <2>6, <2>7, <2>8 DEF Next
<1> QED BY <1>1, <1>2, PTL DEF Spec

\* The chain that is sent is what is uploaded, in full, whatever the requests, the
\* ciphertexts and the size of a buffer.
THEOREM ChainCorrect == Spec => []ChainWhole
<1>1. Uploading => ChainWhole
  <2> SUFFICES ASSUME Uploading, stage = "sent"
               PROVE  /\ FlattenSeq(bufs) = Upload
                      /\ bufs = <<>> => Upload = <<>>
                      /\ <<>> \notin ToSet(bufs)
    BY DEF ChainWhole
  <2>1. Sequence(Upload) /\ bufs = createchain(Upload)
    BY UploadIs DEF Uploading
  <2> DEFINE d == Upload
  <2>2. Sequence(d) /\ bufs = createchain(d)
    BY <2>1
  <2> HIDE DEF d
  <2>3. /\ FlattenSeq(bufs) = d
        /\ bufs = <<>> => d = <<>>
        /\ <<>> \notin ToSet(bufs)
    BY <2>2, ChainIs
  <2> QED BY <2>3 DEF d
<1> QED BY <1>1, UploadingAlways, PTL


-------------------------------------------------------------------------------
(* The escapes                                                              *)

\* The signs that an escape is written with, and the place of a byte in the table.
Signs == {"$", ";", "0", "1", "2", "3", "4", "5", "6", "7", "8", "9", "a", "b", "c", "d", "e", "f"}

Rank(b) ==
    CASE b = " " -> 1
      [] b = "\n" -> 2
      [] b = "\r" -> 3
      [] b = "<" -> 4
      [] b = "&" -> 5
      [] b = "\"" -> 6
      [] b = ">" -> 7
      [] b = "'" -> 8
      [] b = "%" -> 9
      [] b = "+" -> 10
      [] b = "(" -> 11
      [] b = "/" -> 12
      [] b = "[" -> 13
      [] b = ":" -> 14
      [] b = "-" -> 15
      [] b = "]" -> 16
      [] b = "00" -> 17
      [] b = "fd" -> 18
      [] b = "ff" -> 19
      [] b = "\\" -> 20

\* The twenty rows differ in their byte, none of which is a sign of an escape.
LEMMA EscapeTable ==
    /\ Escapes = 1 .. 20 /\ Len(EscapedBytes) = 20
    /\ \A n \in 1 .. 20 : /\ Rank(ByteAt(n)) = n /\ ByteAt(n) \notin Signs /\ ByteAt(n) # "fe"
                          /\ EscapedBytes[n][2] \in Signs /\ EscapedBytes[n][3] \in Signs
<1> DEFINE Entry(n) == /\ Rank(EscapedBytes[n][1]) = n /\ EscapedBytes[n][1] \notin Signs
                       /\ EscapedBytes[n][1] # "fe"
                       /\ EscapedBytes[n][2] \in Signs /\ EscapedBytes[n][3] \in Signs
<1>1. Escapes = 1 .. 20 /\ Len(EscapedBytes) = 20
  BY DEF EscapedBytes, Escapes
<1>2. Entry(1)
  <2>1. Rank(" ") = 1
    BY Zenon DEF Rank
  <2>2. " " \notin Signs /\ " " # "fe"
    BY Zenon DEF Signs
  <2>3. EscapedBytes[1][1] = " "
    BY Zenon DEF EscapedBytes
  <2>4. EscapedBytes[1][2] = "2" /\ EscapedBytes[1][3] = "0"
    BY Zenon DEF EscapedBytes
  <2>5. EscapedBytes[1][2] \in Signs /\ EscapedBytes[1][3] \in Signs
    BY <2>4, Zenon DEF Signs
  <2> QED BY <2>1, <2>2, <2>3, <2>5, Zenon
<1>3. Entry(2)
  <2>1. EscapedBytes[2] = <<"\n", "0", "a">>
    BY DEF EscapedBytes
  <2> QED BY <2>1 DEF Rank, Signs
<1>4. Entry(3)
  <2>1. EscapedBytes[3] = <<"\r", "0", "d">>
    BY DEF EscapedBytes
  <2> QED BY <2>1 DEF Rank, Signs
<1>5. Entry(4)
  <2>1. EscapedBytes[4] = <<"<", "3", "c">>
    BY DEF EscapedBytes
  <2> QED BY <2>1 DEF Rank, Signs
<1>6. Entry(5)
  <2>1. EscapedBytes[5] = <<"&", "2", "6">>
    BY DEF EscapedBytes
  <2> QED BY <2>1 DEF Rank, Signs
<1>7. Entry(6)
  <2>1. Rank("\"") = 6
    BY Zenon DEF Rank
  <2>2. "\"" \notin Signs /\ "\"" # "fe"
    BY Zenon DEF Signs
  <2>3. EscapedBytes[6][1] = "\""
    BY Zenon DEF EscapedBytes
  <2>4. EscapedBytes[6][2] = "2" /\ EscapedBytes[6][3] = "2"
    BY Zenon DEF EscapedBytes
  <2>5. EscapedBytes[6][2] \in Signs /\ EscapedBytes[6][3] \in Signs
    BY <2>4, Zenon DEF Signs
  <2> QED BY <2>1, <2>2, <2>3, <2>5, Zenon
<1>8. Entry(7)
  <2>1. EscapedBytes[7] = <<">", "3", "e">>
    BY DEF EscapedBytes
  <2> QED BY <2>1 DEF Rank, Signs
<1>9. Entry(8)
  <2>1. EscapedBytes[8] = <<"'", "2", "7">>
    BY DEF EscapedBytes
  <2> QED BY <2>1 DEF Rank, Signs
<1>10. Entry(9)
  <2>1. EscapedBytes[9] = <<"%", "2", "5">>
    BY DEF EscapedBytes
  <2> QED BY <2>1 DEF Rank, Signs
<1>11. Entry(10)
  <2>1. EscapedBytes[10] = <<"+", "2", "b">>
    BY DEF EscapedBytes
  <2> QED BY <2>1 DEF Rank, Signs
<1>12. Entry(11)
  <2>1. EscapedBytes[11] = <<"(", "2", "8">>
    BY DEF EscapedBytes
  <2> QED BY <2>1 DEF Rank, Signs
<1>13. Entry(12)
  <2>1. EscapedBytes[12] = <<"/", "2", "f">>
    BY DEF EscapedBytes
  <2> QED BY <2>1 DEF Rank, Signs
<1>14. Entry(13)
  <2>1. EscapedBytes[13] = <<"[", "5", "b">>
    BY DEF EscapedBytes
  <2> QED BY <2>1 DEF Rank, Signs
<1>15. Entry(14)
  <2>1. EscapedBytes[14] = <<":", "3", "a">>
    BY DEF EscapedBytes
  <2> QED BY <2>1 DEF Rank, Signs
<1>16. Entry(15)
  <2>1. EscapedBytes[15] = <<"-", "2", "d">>
    BY DEF EscapedBytes
  <2> QED BY <2>1 DEF Rank, Signs
<1>17. Entry(16)
  <2>1. EscapedBytes[16] = <<"]", "5", "d">>
    BY DEF EscapedBytes
  <2> QED BY <2>1 DEF Rank, Signs
<1>18. Entry(17)
  <2>1. EscapedBytes[17] = <<"00", "0", "0">>
    BY DEF EscapedBytes
  <2> QED BY <2>1 DEF Rank, Signs
<1>19. Entry(18)
  <2>1. EscapedBytes[18] = <<"fd", "f", "d">>
    BY DEF EscapedBytes
  <2> QED BY <2>1 DEF Rank, Signs
<1>20. Entry(19)
  <2>1. EscapedBytes[19] = <<"ff", "f", "f">>
    BY DEF EscapedBytes
  <2> QED BY <2>1 DEF Rank, Signs
<1>21. Entry(20)
  <2>1. EscapedBytes[20] = <<"\\", "5", "c">>
    BY DEF EscapedBytes
  <2> QED BY <2>1 DEF Rank, Signs
<1> HIDE DEF Entry
<1>22. \A n \in 1 .. 20 : Entry(n)
  BY <1>2, <1>3, <1>4, <1>5, <1>6, <1>7, <1>8, <1>9, <1>10, <1>11, <1>12, <1>13, <1>14, <1>15, <1>16, <1>17, <1>18, <1>19, <1>20, <1>21
<1> QED BY <1>1, <1>22 DEF ByteAt, Entry

\* No two escapes are for the same byte.
LEMMA EscapesDiffer == \A m, n \in 1 .. 20 : ByteAt(m) = ByteAt(n) => m = n
BY EscapeTable

\* The bytes that ciphertext, heads and escapes consist of.
Octet == DOMAIN HexDigits \cup Signs \cup Specials \cup {"ff", "fe"}

\* What one pass writes for a byte, and what the first n passes do.
EscapeAt(n) == [b \in Octet |-> IF b = ByteAt(n) THEN Escape(n) ELSE <<b>>]
EscapesTo(n) ==
    [b \in Octet |-> IF \E m \in 1 .. n : ByteAt(m) = b
                     THEN Escape(CHOOSE m \in 1 .. n : ByteAt(m) = b) ELSE <<b>>]

\* Four signs in a row.
Four(S, q, w, x, y, z) == q = <<w, x, y, z>> /\ w \in S /\ x \in S /\ y \in S /\ z \in S

\* They are a text of four.
LEMMA FourSigns ==
    ASSUME NEW S, NEW q, NEW w, NEW x, NEW y, NEW z, Four(S, q, w, x, y, z)
    PROVE  q \in Seq(S) /\ Len(q) = 4 /\ q[1] = w
BY DEF Four

\* An escape is four signs.
LEMMA EscapeIs ==
    ASSUME NEW n \in 1 .. 20
    PROVE  /\ Escape(n) \in Seq(Signs) /\ Escape(n) \in Seq(Octet) /\ Len(Escape(n)) = 4
           /\ Escape(n)[1] = "$" /\ ByteAt(n) \in Octet /\ ByteAt(n) \in Specials
<1> DEFINE x == EscapedBytes[n][2]
           y == EscapedBytes[n][3]
<1>1. x \in Signs /\ y \in Signs /\ ByteAt(n) \in Specials
  BY EscapeTable DEF Specials
<1>2. "$" \in Signs /\ ";" \in Signs
  BY DEF Signs
<1>3. Escape(n) = <<"$", x, y, ";">>
  BY DEF Escape
<1> HIDE DEF x, y
<1>4. Escape(n) \in Seq(Signs) /\ Len(Escape(n)) = 4 /\ Escape(n)[1] = "$"
  <2>1. Four(Signs, Escape(n), "$", x, y, ";")
    BY <1>1, <1>2, <1>3 DEF Four
  <2> QED BY <2>1, FourSigns
<1>5. Signs \subseteq Octet /\ Specials \subseteq Octet
  BY DEF Octet
<1>6. Escape(n) \in Seq(Octet)
  <2>1. "$" \in Octet /\ x \in Octet /\ y \in Octet /\ ";" \in Octet
    BY <1>1, <1>2, <1>5
  <2>2. Four(Octet, Escape(n), "$", x, y, ";")
    BY <1>3, <2>1 DEF Four
  <2> QED BY <2>2, FourSigns
<1> QED BY <1>1, <1>4, <1>5, <1>6

\* A pass writes text for each byte.
LEMMA EscapeAtIs == ASSUME NEW n \in 1 .. 20 PROVE EscapeAt(n) \in [Octet -> Seq(Octet)]
<1>1. Escape(n) \in Seq(Octet)
  BY EscapeIs
<1>2. \A b \in Octet : <<b>> \in Seq(Octet)
  OBVIOUS
<1> QED BY <1>1, <1>2 DEF EscapeAt

\* What the first passes write for a byte: its escape if one of them is for it.
LEMMA EscapesToIs ==
    ASSUME NEW n \in 0 .. 20, NEW b \in Octet
    PROVE  /\ \A m \in 1 .. n : ByteAt(m) = b => EscapesTo(n)[b] = Escape(m)
           /\ (\A m \in 1 .. n : ByteAt(m) # b) => EscapesTo(n)[b] = <<b>>
           /\ EscapesTo(n)[b] \in Seq(Octet)
<1>1. ASSUME NEW m \in 1 .. n, ByteAt(m) = b PROVE EscapesTo(n)[b] = Escape(m)
  <2>1. \A k \in 1 .. n : ByteAt(k) = b => k = m
    BY <1>1, EscapesDiffer
  <2>2. (CHOOSE k \in 1 .. n : ByteAt(k) = b) = m
    BY <1>1, <2>1
  <2>3. EscapesTo(n)[b] = Escape(CHOOSE k \in 1 .. n : ByteAt(k) = b)
    BY <1>1 DEF EscapesTo
  <2> QED BY <2>2, <2>3
<1>2. ASSUME \A m \in 1 .. n : ByteAt(m) # b PROVE EscapesTo(n)[b] = <<b>>
  BY <1>2 DEF EscapesTo
<1>3. EscapesTo(n)[b] \in Seq(Octet)
  <2>1. CASE \E m \in 1 .. n : ByteAt(m) = b
    <3>1. PICK m \in 1 .. n : ByteAt(m) = b
      BY <2>1
    <3>2. m \in 1 .. 20
      OBVIOUS
    <3>3. EscapesTo(n)[b] = Escape(m) /\ Escape(m) \in Seq(Octet)
      BY <1>1, <3>1, <3>2, EscapeIs
    <3> QED BY <3>3
  <2>2. CASE \A m \in 1 .. n : ByteAt(m) # b
    <3>1. <<b>> \in Seq(Octet)
      OBVIOUS
    <3> QED BY <1>2, <2>2, <3>1
  <2> QED BY <2>1, <2>2
<1> QED BY <1>1, <1>2, <1>3

\* So they write text for each byte.
LEMMA EscapesToType == ASSUME NEW n \in 0 .. 20 PROVE EscapesTo(n) \in [Octet -> Seq(Octet)]
<1>1. \A b \in Octet : EscapesTo(n)[b] \in Seq(Octet)
  BY EscapesToIs
<1>2. EscapesTo(n) = [b \in Octet |-> EscapesTo(n)[b]]
  BY DEF EscapesTo
<1> QED BY <1>1, <1>2

\* A text of bytes that are written as they are.
LEMMA SpelledSelf ==
    ASSUME NEW S, NEW F \in [S -> Seq(S)], NEW d \in Seq(S),
           \A i \in 1 .. Len(d) : F[d[i]] = <<d[i]>>
    PROVE  Spelled(F, d) = d
<1> DEFINE Same(s) == \A i \in 1 .. Len(s) : F[s[i]] = <<s[i]>>
           G == {s \in Seq(S) : Same(s) => Spelled(F, s) = s}
<1>1. <<>> \in G
  BY SpelledEmpty
<1>2. ASSUME NEW s \in Seq(S), NEW x \in S, s \in G PROVE Append(s, x) \in G
  <2> DEFINE t == Append(s, x)
  <2>1. t \in Seq(S) /\ Len(t) = Len(s) + 1 /\ t[Len(s) + 1] = x /\ \A i \in 1 .. Len(s) : t[i] = s[i]
    OBVIOUS
  <2>2. Len(s) \in Nat
    OBVIOUS
  <2>3. s \in Seq(S) /\ x \in S /\ F \in [S -> Seq(S)]
    OBVIOUS
  <2>4. Spelled(F, s) \in Seq(S) /\ Spelled(F, t) = Spelled(F, s) \o F[x]
    BY ONLY <2>3, SpelledAppend
  <2> SUFFICES ASSUME Same(t) PROVE Spelled(F, t) = t
    BY <2>1
  <2> HIDE DEF t
  <2>5. F[x] = <<x>>
    BY SMTT(30), <2>1, <2>2
  <2>6. Same(s)
    BY <2>1, <2>2
  <2>7. Spelled(F, s) = s
    <3> HIDE DEF Same
    <3> QED BY <1>2, <2>6
  <2>8. s \o <<x>> = Append(s, x)
    OBVIOUS
  <2> QED BY <2>4, <2>5, <2>7, <2>8 DEF t
<1>3. \A s \in Seq(S) : s \in G
  <2> HIDE DEF G
  <2> QED BY <1>1, <1>2, SequenceInduction
<1> QED BY <1>3

\* A single byte.
LEMMA SpelledOne ==
    ASSUME NEW S, NEW F \in [S -> Seq(S)], NEW x \in S
    PROVE  Spelled(F, <<x>>) = F[x]
<1>1. <<>> \in Seq(S) /\ x \in S /\ F \in [S -> Seq(S)]
  OBVIOUS
<1>2. Spelled(F, Append(<<>>, x)) = Spelled(F, <<>>) \o F[x]
  BY ONLY <1>1, SpelledAppend
<1>3. Append(<<>>, x) = <<x>> /\ <<>> \o F[x] = F[x]
  <2>1. F[x] \in Seq(S)
    OBVIOUS
  <2> QED BY <2>1
<1> QED BY <1>2, <1>3, SpelledEmpty

\* One pass more escapes the bytes of one escape more, and nothing twice.
LEMMA EscapesStep ==
    ASSUME NEW n \in 0 .. 19, NEW b \in Octet
    PROVE  Spelled(EscapeAt(n + 1), EscapesTo(n)[b]) = EscapesTo(n + 1)[b]
<1> DEFINE k == n + 1
           E == EscapeAt(k)
<1>1. k \in 1 .. 20 /\ n \in 0 .. 20 /\ k \in 0 .. 20 /\ \A m \in 1 .. k : m \in 1 .. n \/ m = k
  OBVIOUS
<1>2. E \in [Octet -> Seq(Octet)]
  BY <1>1, EscapeAtIs
<1>3. \A x \in Octet : E[x] = IF x = ByteAt(k) THEN Escape(k) ELSE <<x>>
  BY DEF EscapeAt
<1>4. \A m \in 1 .. n : m \in 1 .. k /\ m \in 1 .. 20
  OBVIOUS
<1>5. k \in 1 .. k
  OBVIOUS
<1> HIDE DEF E, k
<1>6. CASE \E m \in 1 .. n : ByteAt(m) = b
  <2>1. PICK m \in 1 .. n : ByteAt(m) = b
    BY <1>6
  <2>2. EscapesTo(n)[b] = Escape(m) /\ EscapesTo(k)[b] = Escape(m)
    BY <1>1, <1>4, <2>1, EscapesToIs
  <2>3. Escape(m) \in Seq(Signs) /\ Escape(m) \in Seq(Octet)
    BY <1>4, EscapeIs
  <2> DEFINE e == Escape(m)
  <2> HIDE DEF e
  <2>4. e \in Seq(Signs) /\ e \in Seq(Octet)
    BY <2>3 DEF e
  <2>5. \A i \in 1 .. Len(e) : E[e[i]] = <<e[i]>>
    <3>1. \A i \in 1 .. Len(e) : e[i] \in Signs /\ e[i] \in Octet
      BY <2>4, SeqIs
    <3>2. ByteAt(k) \notin Signs
      BY <1>1, EscapeTable
    <3> QED BY <1>3, <3>1, <3>2
  <2>6. Spelled(E, e) = e
    BY <1>2, <2>4, <2>5, SpelledSelf
  <2> QED BY <2>2, <2>6 DEF E, e, k
<1>7. CASE \A m \in 1 .. n : ByteAt(m) # b
  <2>1. EscapesTo(n)[b] = <<b>>
    BY <1>1, <1>7, EscapesToIs
  <2>2. Spelled(E, <<b>>) = E[b]
    BY <1>2, SpelledOne
  <2>3. EscapesTo(k)[b] = E[b]
    <3>1. CASE b = ByteAt(k)
      BY <1>1, <1>3, <1>5, <3>1, EscapesToIs
    <3>2. CASE b # ByteAt(k)
      <4>1. \A m \in 1 .. k : ByteAt(m) # b
        BY <1>1, <1>7, <3>2
      <4> QED BY <1>1, <1>3, <3>2, <4>1, EscapesToIs
    <3> QED BY <3>1, <3>2
  <2> QED BY <2>1, <2>2, <2>3 DEF E, k
<1> QED BY <1>6, <1>7

\* A pass over a text writes it anew.
LEMMA ReplacedSpells ==
    ASSUME NEW n \in 1 .. 20, NEW d \in Seq(Octet)
    PROVE  Replaced(d, <<ByteAt(n)>>, Escape(n)) = Spelled(EscapeAt(n), d)
<1> DEFINE b == ByteAt(n)
           old == <<b>>
           new == Escape(n)
           E == EscapeAt(n)
           at == Places(d, old, 1)
           Piece(i) == CASE i \in at -> new
                         [] \E k \in at : k < i /\ i < k + Len(old) -> <<>>
                         [] OTHER -> <<d[i]>>
           f == [i \in DOMAIN d |-> Piece(i)]
           h == [i \in DOMAIN d |-> E[d[i]]]
<1>1. Len(d) \in Nat /\ DOMAIN d = 1 .. Len(d) /\ \A i \in 1 .. Len(d) : d[i] \in Octet
  BY SeqIs
<1>2. E \in [Octet -> Seq(Octet)]
  BY EscapeAtIs
<1>3. \A x \in Octet : E[x] = IF x = b THEN new ELSE <<x>>
  BY DEF EscapeAt
<1>4. Len(old) = 1
  OBVIOUS
<1>5. Replaced(d, old, new) = IF at = {} THEN d ELSE FlattenSeq(f)
  BY DEF Replaced
<1>6. Spelled(E, d) = FlattenSeq(h)
  BY DEF Spelled
<1>7. at = {k \in 1 .. Len(d) - Len(old) + 1 : SubSeq(d, k, k + Len(old) - 1) = old}
  BY DEF Places
<1> HIDE DEF b, new, E, at
<1>8. \A k : k \in at <=> k \in 1 .. Len(d) /\ d[k] = b
  <2>1. ASSUME NEW k \in 1 .. Len(d) PROVE SubSeq(d, k, k) = <<d[k]>>
    <3>1. SubSeq(d, k, k) \in Seq(Octet) /\ Len(SubSeq(d, k, k)) = 1 /\ SubSeq(d, k, k)[1] = d[k]
      <4>1. k \in Int /\ k =< k /\ k - k + 1 = 1 /\ 1 \in 1 .. 1 /\ k + 1 - 1 = k
        BY <1>1
      <4>2. \A i \in k .. k : d[i] \in Octet
        BY <1>1
      <4> QED BY <4>1, <4>2, SubSeqProperties
    <3> DEFINE q == SubSeq(d, k, k)
    <3> HIDE DEF q
    <3>2. q \in Seq(Octet) /\ Len(q) = 1 /\ q[1] = d[k]
      BY <3>1 DEF q
    <3>3. q = <<d[k]>>
      BY <3>2
    <3> QED BY <3>3 DEF q
  <2>2. 1 .. Len(d) - Len(old) + 1 = 1 .. Len(d) /\ \A k \in 1 .. Len(d) : k + Len(old) - 1 = k
    BY <1>1, <1>4
  <2>3. \A x : <<x>> = <<b>> <=> x = b
    OBVIOUS
  <2>4. at = {k \in 1 .. Len(d) : SubSeq(d, k, k) = <<b>>}
    BY <1>7, <2>2
  <2> QED BY <2>1, <2>3, <2>4
<1>9. CASE at = {}
  <2>1. \A i \in 1 .. Len(d) : E[d[i]] = <<d[i]>>
    BY <1>1, <1>3, <1>8, <1>9
  <2>2. Spelled(E, d) = d
    BY <1>2, <2>1, SpelledSelf
  <2> QED BY <1>5, <1>9, <2>2 DEF b, E, new
<1>10. CASE at # {}
  <2>1. ASSUME NEW i \in 1 .. Len(d) PROVE Piece(i) = E[d[i]]
    <3>0. ~ \E k \in at : k < i /\ i < k + Len(old)
      BY <1>1, <1>4, <1>8
    <3>1. CASE i \in at
      <4>1. Piece(i) = new
        BY <3>0, <3>1
      <4>2. E[d[i]] = new
        BY <1>1, <1>3, <1>8, <3>1
      <4> QED BY <4>1, <4>2
    <3>2. CASE i \notin at
      <4>1. Piece(i) = <<d[i]>>
        BY <3>0, <3>2
      <4>2. E[d[i]] = <<d[i]>>
        BY <1>1, <1>3, <1>8, <3>2
      <4> QED BY <4>1, <4>2
    <3> QED BY <3>1, <3>2
  <2> HIDE DEF Piece
  <2>2. f = h
    BY <1>1, <2>1
  <2> QED BY <1>5, <1>6, <1>10, <2>2 DEF b, E, new
<1> QED BY <1>9, <1>10

\* Ciphertext with the escapes of the first passes.
LEMMA EscapedSpells ==
    ASSUME NEW n \in 0 .. 20, NEW c \in Seq(Octet)
    PROVE  /\ Escaped(c, n) = Spelled(EscapesTo(n), c)
           /\ Escaped(c, n) \in Seq(Octet)
<1> DEFINE f == [i \in DOMAIN c |->
                   IF \E m \in 1 .. n : ByteAt(m) = c[i]
                   THEN Escape(CHOOSE m \in 1 .. n : ByteAt(m) = c[i]) ELSE <<c[i]>>]
           h == [i \in DOMAIN c |-> EscapesTo(n)[c[i]]]
<1>1. DOMAIN c = 1 .. Len(c) /\ \A i \in 1 .. Len(c) : c[i] \in Octet
  BY SeqIs
<1>2. f = h
  BY <1>1 DEF EscapesTo
<1>3. Escaped(c, n) = FlattenSeq(f) /\ Spelled(EscapesTo(n), c) = FlattenSeq(h)
  BY DEF Escaped, Spelled
<1>4. EscapesTo(n) \in [Octet -> Seq(Octet)]
  BY EscapesToType
<1>5. Spelled(EscapesTo(n), c) \in Seq(Octet)
  BY <1>4, SpelledIs
<1> QED BY <1>2, <1>3, <1>5

\* How long ciphertext gets by the first n passes, and by all of them.
LEMMA EscapedLength ==
    ASSUME NEW n \in 0 .. 20, NEW c \in Seq(Octet)
    PROVE  LET some == {i \in 1 .. Len(c) : \E m \in 1 .. n : ByteAt(m) = c[i]}
               all == {i \in 1 .. Len(c) : c[i] \in Specials} IN
           /\ Cardinality(some) \in Nat /\ Cardinality(all) \in Nat
           /\ Len(Escaped(c, n)) = Len(c) + 3 * Cardinality(some)
           /\ Cardinality(some) =< Cardinality(all)
           /\ n = 20 => some = all
<1> DEFINE X == {ByteAt(m) : m \in 1 .. n}
           some == {i \in 1 .. Len(c) : \E m \in 1 .. n : ByteAt(m) = c[i]}
           all == {i \in 1 .. Len(c) : c[i] \in Specials}
           F == EscapesTo(n)
<1>1. some = {i \in 1 .. Len(c) : c[i] \in X}
  OBVIOUS
<1>2. Specials = {ByteAt(m) : m \in 1 .. 20}
  BY EscapeTable DEF Specials
<1>3. X \subseteq Specials /\ (n = 20 => X = Specials)
  <2>1. \A m \in 1 .. n : m \in 1 .. 20
    OBVIOUS
  <2> QED BY <1>2, <2>1
<1>4. \A x \in Octet : Len(F[x]) = IF x \in X THEN 3 + 1 ELSE 1
  <2> SUFFICES ASSUME NEW x \in Octet PROVE Len(F[x]) = IF x \in X THEN 3 + 1 ELSE 1
    OBVIOUS
  <2>1. CASE x \in X
    <3>1. PICK m \in 1 .. n : ByteAt(m) = x
      BY <2>1
    <3>2. F[x] = Escape(m)
      BY <3>1, EscapesToIs
    <3>3. m \in 1 .. 20
      OBVIOUS
    <3>4. Len(Escape(m)) = 4
      BY <3>3, EscapeIs
    <3> QED BY <2>1, <3>2, <3>4
  <2>2. CASE x \notin X
    <3>1. \A m \in 1 .. n : ByteAt(m) # x
      BY <2>2
    <3>2. F[x] = <<x>>
      BY <3>1, EscapesToIs
    <3> QED BY <2>2, <3>2
  <2> QED BY <2>1, <2>2
<1>5. F \in [Octet -> Seq(Octet)]
  BY EscapesToType
<1> HIDE DEF F, X
<1>6. /\ Cardinality({i \in 1 .. Len(c) : c[i] \in X}) \in Nat
      /\ Len(Spelled(F, c)) = Len(c) + 3 * Cardinality({i \in 1 .. Len(c) : c[i] \in X})
  <2>1. Lengthens(Octet, F, X, 3)
    BY <1>4, <1>5 DEF Lengthens
  <2> QED BY <2>1, SpelledLength
<1>7. Escaped(c, n) = Spelled(F, c)
  BY EscapedSpells DEF F
<1>8. IsFiniteSet(all) /\ some \subseteq all
  <2>1. Len(c) \in Nat /\ all \subseteq 1 .. Len(c)
    OBVIOUS
  <2> HIDE DEF all
  <2>2. IsFiniteSet(all)
    BY <2>1, IndicesFinite
  <2> USE DEF all
  <2> QED BY <1>1, <1>3, <2>2
<1>9. Cardinality(all) \in Nat /\ Cardinality(some) =< Cardinality(all)
  BY <1>8, FS_Subset, FS_CardinalityType
<1>10. n = 20 => some = all
  BY <1>1, <1>3
<1> QED BY <1>1, <1>6, <1>7, <1>9, <1>10

\* The head needs no escapes: 0xff does not count in the first place.
LEMMA CountedBehindHead ==
    ASSUME NEW c \in Seq(Octet)
    PROVE  replace_counts(Heads[0] \o c) = 3 * Cardinality({i \in 1 .. Len(c) : c[i] \in Specials})
<1> DEFINE d == Heads[0] \o c
           n == Len(c)
           A == {i \in 1 .. n : c[i] \in Specials}
           B == {i \in DOMAIN d : d[i] \in Specials /\ (d[i] = "ff" => i > 1)}
           f == [i \in A |-> i + 2]
<1>1. Heads[0] = <<"ff", "fe">>
  BY DEF Heads
<1>2. /\ n \in Nat /\ Len(d) = n + 2 /\ DOMAIN d = 1 .. n + 2 /\ d[1] = "ff" /\ d[2] = "fe"
      /\ \A i \in 1 .. n : d[i + 2] = c[i]
  <2> DEFINE head == <<"ff", "fe">>
  <2>1. head \in Seq({"ff", "fe"}) /\ Len(head) = 2 /\ head[1] = "ff" /\ head[2] = "fe"
    OBVIOUS
  <2>2. {"ff", "fe"} \subseteq Octet
    BY DEF Octet
  <2>3. d = head \o c
    BY <1>1
  <2> HIDE DEF head, d
  <2>4. head \in Seq(Octet)
    BY <2>1, <2>2
  <2> QED BY <2>1, <2>3, <2>4, BehindTwo
<1>3. "fe" \notin Specials
  BY EscapeTable DEF Specials
<1> HIDE DEF d
<1>4. B = {i \in 1 .. n + 2 : d[i] \in Specials /\ (d[i] = "ff" => i > 1)}
  BY <1>2
<1>5. 1 \notin B /\ 2 \notin B
  BY <1>2, <1>3
<1> HIDE DEF n
<1>6. \A i \in 1 .. n : i + 2 \in B <=> i \in A
  BY <1>2, <1>4
<1>7. \A j \in B : j - 2 \in 1 .. n /\ (j - 2) + 2 = j
  <2> SUFFICES ASSUME NEW j \in B PROVE j - 2 \in 1 .. n /\ (j - 2) + 2 = j
    OBVIOUS
  <2>1. j \in 1 .. n + 2 /\ j # 1 /\ j # 2
    BY <1>4, <1>5
  <2> QED BY <1>2, <2>1
<1>8. IsFiniteSet(A)
  <2>1. A \subseteq 1 .. n
    OBVIOUS
  <2> HIDE DEF A
  <2> QED BY <1>2, <2>1, IndicesFinite
<1>9. f \in Bijection(A, B)
  <2>1. f \in [A -> B]
    BY <1>6
  <2>2. \A i, j \in A : f[i] = f[j] => i = j
    BY <1>2
  <2>3. \A j \in B : \E i \in A : f[i] = j
    <3> SUFFICES ASSUME NEW j \in B PROVE \E i \in A : f[i] = j
      OBVIOUS
    <3> DEFINE i == j - 2
    <3>1. i \in 1 .. n /\ i + 2 = j
      BY <1>7
    <3> HIDE DEF i
    <3>2. i \in A
      BY <1>6, <3>1
    <3>3. f[i] = j
      BY <3>1, <3>2
    <3> QED BY <3>2, <3>3
  <2> HIDE DEF A, B, f
  <2> QED BY <2>1, <2>2, <2>3 DEF Bijection, Injection, Surjection, IsInjective
<1>10. Cardinality(B) = Cardinality(A)
  <2> HIDE DEF A, B, f
  <2> QED BY <1>8, <1>9, FS_Bijection DEF ExistsBijection
<1>11. replace_counts(d) = 3 * Cardinality(B)
  BY DEF replace_counts
<1> QED BY <1>10, <1>11 DEF d, n

\* The pass for 0xff.
LEMMA FlagPassIs == FlagPass \in 1 .. 20 /\ ByteAt(FlagPass) = "ff"
<1>1. EscapedBytes[19] = <<"ff", "f", "f">>
  BY DEF EscapedBytes
<1>2. 19 \in Escapes /\ ByteAt(19) = "ff"
  BY <1>1, EscapeTable DEF ByteAt
<1>3. FlagPass \in Escapes /\ ByteAt(FlagPass) = "ff"
  BY <1>2 DEF FlagPass
<1> QED BY <1>3, EscapeTable

\* The first head, and that only the pass for 0xff would change it.
LEMMA FirstHead0 ==
    /\ Heads[0] \in Seq(Octet) /\ Len(Heads[0]) = 2 /\ Heads[0][1] = "ff" /\ Heads[0][2] = "fe"
    /\ \A n \in 1 .. 20 : n # FlagPass => Spelled(EscapeAt(n), Heads[0]) = Heads[0]
<1> DEFINE h == Heads[0]
<1>1. h = <<"ff", "fe">>
  BY DEF Heads
<1>2. {"ff", "fe"} \subseteq Octet
  BY DEF Octet
<1>3. h \in Seq(Octet) /\ Len(h) = 2 /\ h[1] = "ff" /\ h[2] = "fe"
  BY <1>1, <1>2
<1> HIDE DEF h
<1>4. ASSUME NEW n \in 1 .. 20, n # FlagPass PROVE Spelled(EscapeAt(n), h) = h
  <2>1. ByteAt(n) # "ff" /\ ByteAt(n) # "fe"
    BY <1>4, EscapesDiffer, EscapeTable, FlagPassIs
  <2> DEFINE E == EscapeAt(n)
  <2>2. \A x \in Octet : E[x] = IF x = ByteAt(n) THEN Escape(n) ELSE <<x>>
    BY DEF EscapeAt
  <2>3. E \in [Octet -> Seq(Octet)]
    BY EscapeAtIs
  <2> HIDE DEF E
  <2>4. \A i \in 1 .. Len(h) : E[h[i]] = <<h[i]>>
    <3>1. "ff" \in Octet /\ "fe" \in Octet
      BY <1>2
    <3>2. \A i \in 1 .. Len(h) : i = 1 \/ i = 2
      BY <1>3
    <3> QED BY <1>3, <2>1, <2>2, <3>1, <3>2
  <2>5. Spelled(E, h) = h
    BY <1>3, <2>3, <2>4, SpelledSelf
  <2> QED BY <2>5 DEF E
<1> QED BY <1>3, <1>4 DEF h

\* One pass over a buffer that begins with the head and the ciphertext, escaped so
\* far, and has space for one escape more.
Halfway(n, c, d) ==
    /\ n \in 0 .. 19 /\ c \in Seq(Octet) /\ d \in Seq(Octet)
    /\ IsPrefix(Heads[0] \o Escaped(c, n), d) /\ Len(Escaped(c, n + 1)) + 2 =< Len(d)

\* What the pass makes of that buffer, before it is cut off at its length.
PassLeaves(n, c, d, w, r) ==
    /\ w \in Seq(Octet) /\ r \in Seq(Octet) /\ w = Escaped(c, n + 1) \o r
    /\ Len(w) + 2 >= Len(d)
    /\ replace_post(n + 1, d) = SubSeq(Heads[0] \o w, 1, Len(d))

\* It is the head, the ciphertext with one escape more, and what is left of the zeros.
LEMMA PassWrites ==
    ASSUME NEW n, NEW c, NEW d, Halfway(n, c, d)
    PROVE  \E w, r : PassLeaves(n, c, d, w, r)
<1> DEFINE H == Heads[0]
           k == n + 1
           E == EscapeAt(k)
           X == Escaped(c, n)
           Y == Escaped(c, k)
           L == Len(d)
<1>1. /\ n \in 0 .. 19 /\ n \in 0 .. 20 /\ k \in 0 .. 20 /\ k \in 1 .. 20
      /\ c \in Seq(Octet) /\ d \in Seq(Octet) /\ L \in Nat
      /\ IsPrefix(H \o X, d) /\ Len(Y) + 2 =< L
  BY DEF Halfway
<1>2. H \in Seq(Octet) /\ Len(H) = 2 /\ (k # FlagPass => Spelled(E, H) = H)
  BY <1>1, FirstHead0
<1>3. X \in Seq(Octet) /\ Y \in Seq(Octet) /\ X = Spelled(EscapesTo(n), c) /\ Y = Spelled(EscapesTo(k), c)
  BY <1>1, EscapedSpells
<1>4. E \in [Octet -> Seq(Octet)]
  BY <1>1, EscapeAtIs
<1>5. Spelled(E, X) = Y
  <2>1. \A b \in Octet : Spelled(E, EscapesTo(n)[b]) = EscapesTo(k)[b]
    BY <1>1, EscapesStep
  <2>2. EscapesTo(n) \in [Octet -> Seq(Octet)] /\ EscapesTo(k) \in [Octet -> Seq(Octet)]
    BY <1>1, EscapesToType
  <2> DEFINE F == EscapesTo(n)
             G == EscapesTo(k)
  <2>3. Twice(Octet, F, E, G)
    BY <1>4, <2>1, <2>2 DEF Twice
  <2> HIDE DEF E, F, G, k
  <2>4. Spelled(E, Spelled(F, c)) = Spelled(G, c)
    BY <1>1, <2>3, SpelledTwice
  <2> QED BY <1>3, <2>4 DEF F, G
<1>6. Len(Part(k, d)) \in Nat /\ Len(d) - Len(d) = 0 /\ SubSeq(d, 1, 0) = <<>>
  <2>1. Sequence(d)
    BY <1>1 DEF Sequence
  <2>2. Sequence(Part(k, d))
    BY <1>1, <2>1, PartSequence DEF Part
  <2> QED BY <1>1, <2>2, SubSeqEmpty DEF Sequence
<1>7. replace_post(k, d) =
        SubSeq(d, 1, L - Len(Part(k, d)))
          \o SubSeq(Replaced(Part(k, d), <<ByteAt(k)>>, Escape(k)), 1, Len(Part(k, d)))
  BY DEF replace_post
<1>8. Part(k, d) = IF k = FlagPass THEN SubSeq(d, 3, L) ELSE d
  BY DEF Part
<1> HIDE DEF H, E, X, Y, L
<1>9. PICK rest \in Seq(Octet) : d = (H \o X) \o rest
  <2>1. H \o X \in Seq(Octet)
    BY <1>2, <1>3
  <2> QED BY <1>1, <2>1, PrefixRest
<1> DEFINE v == X \o rest
           r == Spelled(E, rest)
           w == Y \o r
<1>10. v \in Seq(Octet) /\ d = H \o v /\ Len(v) \in Nat /\ L = Len(v) + 2
  <2>1. Three(Octet, H, X, rest)
    BY <1>2, <1>3 DEF Three
  <2>2. d = H \o v
    <3>1. (H \o X) \o rest = H \o (X \o rest)
      BY ONLY <2>1, JoinJoin
    <3> QED BY <1>9, <3>1
  <2>3. v \in Seq(Octet)
    BY <1>3
  <2> HIDE DEF v
  <2>4. Len(v) \in Nat /\ Len(H \o v) = Len(v) + 2
    BY <1>2, <2>3, BehindTwo
  <2> QED BY <2>2, <2>3, <2>4 DEF L
<1>11. r \in Seq(Octet) /\ w \in Seq(Octet)
  <2>1. r \in Seq(Octet)
    BY <1>4, SpelledIs
  <2> HIDE DEF r
  <2> QED BY <1>3, <2>1
<1>12. Spelled(E, v) = w
  <2>1. X \in Seq(Octet) /\ rest \in Seq(Octet)
    BY <1>3
  <2>2. Spelled(E, X \o rest) = Spelled(E, X) \o Spelled(E, rest)
    BY ONLY <1>4, <2>1, SpelledJoin
  <2> QED BY <1>5, <2>2
<1>13. Len(w) >= Len(v) /\ Len(w) \in Nat
  <2> DEFINE B == {ByteAt(k)}
  <2>1. \A x \in Octet : Len(E[x]) = IF x \in B THEN 3 + 1 ELSE 1
    <3>1. \A x \in Octet : E[x] = IF x = ByteAt(k) THEN Escape(k) ELSE <<x>>
      BY DEF E, EscapeAt
    <3>2. Len(Escape(k)) = 4 /\ \A x : Len(<<x>>) = 1
      BY <1>1, EscapeIs
    <3> DEFINE e == Escape(k)
               one == ByteAt(k)
    <3> HIDE DEF e, one
    <3>3. \A x \in Octet : E[x] = IF x = one THEN e ELSE <<x>>
      BY <3>1 DEF e, one
    <3>4. Len(e) = 4
      BY <3>2 DEF e
    <3>5. \A x \in Octet : Len(E[x]) = IF x = one THEN 4 ELSE 1
      BY <3>2, <3>3, <3>4
    <3> QED BY <3>5 DEF one
  <2>2. Lengthens(Octet, E, B, 3)
    BY <1>4, <2>1 DEF Lengthens
  <2> HIDE DEF B, v
  <2>3. /\ Cardinality({i \in 1 .. Len(v) : v[i] \in B}) \in Nat
        /\ Len(Spelled(E, v)) = Len(v) + 3 * Cardinality({i \in 1 .. Len(v) : v[i] \in B})
    BY <1>10, <2>2, SpelledLength
  <2> QED BY <1>10, <1>12, <2>3
<1> HIDE DEF v, r, w
<1>14. replace_post(k, d) = SubSeq(H \o w, 1, L)
  <2>1. CASE k = FlagPass
    <3>1. Part(k, d) = v
      <4> DEFINE u == SubSeq(d, 3, L)
                 n1 == Len(v)
      <4>1. /\ Len(H \o v) = n1 + 2 /\ \A i \in 1 .. n1 : (H \o v)[i + 2] = v[i]
        BY <1>2, <1>10, BehindTwo
      <4>2. \A i \in 3 .. L : d[i] \in Octet
        BY <1>1 DEF L
      <4>3. u \in Seq(Octet) /\ Len(u) = IF 3 =< L THEN L - 3 + 1 ELSE 0
        BY <1>1, <4>2, SubSeqProperties
      <4>4. \A i \in 1 .. L - 3 + 1 : u[i] = d[3 + i - 1]
        BY <1>1, <4>2, SubSeqProperties
      <4> HIDE DEF u, n1
      <4>5. n1 \in Nat /\ L = n1 + 2 /\ Len(u) = n1
        BY <1>10, <4>3 DEF n1
      <4>6. ASSUME NEW i \in 1 .. n1 PROVE u[i] = v[i]
        <5>1. i \in 1 .. L - 3 + 1 /\ 3 + i - 1 = i + 2
          BY <4>5
        <5> QED BY <1>10, <4>1, <4>4, <5>1
      <4>7. u = v
        <5>1. Len(v) = n1
          BY DEF n1
        <5> QED BY <1>10, <4>3, <4>5, <4>6, <5>1
      <4> QED BY <1>8, <2>1, <4>7 DEF u
    <3>2. Replaced(v, <<ByteAt(k)>>, Escape(k)) = w
      BY <1>1, <1>10, <1>12, ReplacedSpells DEF E
    <3>3. L - Len(v) = 2
      BY <1>10
    <3>4. replace_post(k, d) = SubSeq(d, 1, 2) \o SubSeq(w, 1, Len(v))
      BY <1>7, <3>1, <3>2, <3>3
    <3> DEFINE p == SubSeq(d, 1, 2)
               q == SubSeq(w, 1, Len(v))
               s == SubSeq(H \o w, 1, L)
               m == Len(v)
    <3>5. m \in Nat /\ L = m + 2 /\ m \in 0 .. Len(w) /\ 2 \in 0 .. Len(d) /\ L \in 0 .. Len(w) + 2
      BY <1>10, <1>13 DEF L
    <3>6. p \in Seq(Octet) /\ Len(p) = 2 /\ \A i \in 1 .. 2 : p[i] = d[i]
      BY <1>1, <3>5, Beginning
    <3>7. q \in Seq(Octet) /\ Len(q) = m /\ \A i \in 1 .. m : q[i] = w[i]
      BY <1>11, <3>5, Beginning
    <3>8. /\ H \o w \in Seq(Octet) /\ Len(H \o w) = Len(w) + 2
          /\ (H \o w)[1] = H[1] /\ (H \o w)[2] = H[2] /\ \A i \in 1 .. Len(w) : (H \o w)[i + 2] = w[i]
      BY <1>2, <1>11, BehindTwo
    <3> DEFINE hw == H \o w
    <3>9. s \in Seq(Octet) /\ Len(s) = L /\ \A i \in 1 .. L : s[i] = hw[i]
      <4> HIDE DEF hw
      <4>1. hw \in Seq(Octet) /\ L \in 0 .. Len(hw)
        BY <3>5, <3>8 DEF hw
      <4>2. s = SubSeq(hw, 1, L)
        BY DEF hw
      <4> QED BY <4>1, <4>2, Beginning
    <3>10. d[1] = H[1] /\ d[2] = H[2]
      BY <1>2, <1>10, BehindTwo
    <3> DEFINE t == p \o q
    <3> HIDE DEF p, q, s, hw, m
    <3>11. t \in Seq(Octet) /\ Len(t) = m + 2 /\ t[1] = p[1] /\ t[2] = p[2] /\ \A i \in 1 .. m : t[i + 2] = q[i]
      BY SMTT(30), <3>6, <3>7, BehindTwo
    <3> HIDE DEF t
    <3>12. ASSUME NEW i \in 1 .. L PROVE t[i] = s[i]
      <4>1. CASE i = 1
        BY <3>5, <3>6, <3>8, <3>9, <3>10, <3>11, <4>1 DEF hw
      <4>2. CASE i = 2
        BY <3>5, <3>6, <3>8, <3>9, <3>10, <3>11, <4>2 DEF hw
      <4>3. CASE i # 1 /\ i # 2
        <5> DEFINE j == i - 2
        <5>1. j \in 1 .. m /\ j \in 1 .. Len(w) /\ j + 2 = i
          BY <1>13, <3>5, <4>3
        <5> HIDE DEF j
        <5>2. t[j + 2] = w[j] /\ hw[j + 2] = w[j]
          BY <3>7, <3>8, <3>11, <5>1 DEF hw
        <5> QED BY <3>9, <5>1, <5>2
      <4> QED BY <4>1, <4>2, <4>3
    <3>13. t = s
      <4>1. t \in Seq(Octet) /\ s \in Seq(Octet) /\ Len(t) = L /\ Len(s) = L
        BY <3>5, <3>9, <3>11
      <4> QED BY <3>12, <4>1
    <3> QED BY <3>4, <3>13 DEF p, q, s, t, m
  <2>2. CASE k # FlagPass
    <3>1. Part(k, d) = d
      BY <1>8, <2>2
    <3>2. Replaced(d, <<ByteAt(k)>>, Escape(k)) = Spelled(E, d)
      BY <1>1, ReplacedSpells DEF E
    <3>3. Spelled(E, d) = H \o w
      <4>1. Spelled(E, H \o v) = Spelled(E, H) \o Spelled(E, v)
        BY <1>2, <1>4, <1>10, SpelledJoin
      <4> QED BY <1>2, <1>10, <1>12, <2>2, <4>1
    <3>4. replace_post(k, d) = SubSeq(d, 1, 0) \o SubSeq(H \o w, 1, L)
      BY <1>6, <1>7, <3>1, <3>2, <3>3 DEF L
    <3>5. SubSeq(H \o w, 1, L) \in Seq(Octet)
      <4> DEFINE hw == H \o w
      <4>1. hw \in Seq(Octet) /\ Len(hw) = Len(w) + 2
        BY <1>2, <1>11, BehindTwo
      <4> HIDE DEF hw
      <4>2. L \in 0 .. Len(hw)
        BY <1>10, <1>13, <4>1
      <4>3. SubSeq(hw, 1, L) \in Seq(Octet)
        BY <4>1, <4>2, Beginning
      <4> QED BY <4>3 DEF hw
    <3> DEFINE s == SubSeq(H \o w, 1, L)
    <3>6. s \in Seq(Octet) /\ replace_post(k, d) = <<>> \o s
      BY <1>6, <3>4, <3>5
    <3> HIDE DEF s
    <3>7. <<>> \o s = s
      BY <3>6
    <3> QED BY <3>6, <3>7 DEF s
  <2> QED BY <2>1, <2>2
<1>15. PassLeaves(n, c, d, w, r)
  <2>1. Len(w) + 2 >= Len(d)
    BY <1>10, <1>13 DEF L
  <2> QED BY <1>11, <1>14, <2>1 DEF H, L, PassLeaves, w, Y
<1> QED BY <1>15

\* So the next pass finds the buffer as this one did.
LEMMA PassExact ==
    ASSUME NEW n, NEW c, NEW d, Halfway(n, c, d)
    PROVE  /\ replace_post(n + 1, d) \in Seq(Octet) /\ Len(replace_post(n + 1, d)) = Len(d)
           /\ IsPrefix(Heads[0] \o Escaped(c, n + 1), replace_post(n + 1, d))
<1> DEFINE H == Heads[0]
           Y == Escaped(c, n + 1)
           L == Len(d)
           next == replace_post(n + 1, d)
<1>1. PICK w, r : PassLeaves(n, c, d, w, r)
  BY PassWrites
<1>2. /\ w \in Seq(Octet) /\ r \in Seq(Octet) /\ w = Y \o r /\ Len(w) + 2 >= L
      /\ next = SubSeq(H \o w, 1, L)
  BY <1>1 DEF PassLeaves
<1>3. H \in Seq(Octet) /\ Len(H) = 2
  BY FirstHead0
<1>4. Y \in Seq(Octet) /\ L \in Nat /\ Len(Y) + 2 =< L
  <2>1. n + 1 \in 0 .. 20 /\ c \in Seq(Octet) /\ L \in Nat /\ Len(Y) + 2 =< L
    BY DEF Halfway
  <2> HIDE DEF L
  <2> QED BY <2>1, EscapedSpells
<1> HIDE DEF H, Y, L, next
<1> DEFINE hw == H \o w
           hy == H \o Y
<1>5. hw \in Seq(Octet) /\ Len(hw) = Len(w) + 2 /\ Len(w) \in Nat
  BY <1>2, <1>3, BehindTwo
<1>6. hy \in Seq(Octet) /\ Len(hy) = Len(Y) + 2 /\ Len(Y) \in Nat
  BY <1>3, <1>4, BehindTwo
<1>7. hw = hy \o r
  <2>1. Three(Octet, H, Y, r)
    BY <1>2, <1>3, <1>4 DEF Three
  <2> QED BY <1>2, <2>1, JoinJoin
<1> HIDE DEF hw, hy
<1>8. next \in Seq(Octet) /\ Len(next) = L /\ \A i \in 1 .. L : next[i] = hw[i]
  <2>1. L \in 0 .. Len(hw) /\ next = SubSeq(hw, 1, L)
    BY <1>2, <1>4, <1>5 DEF hw
  <2> QED BY <1>5, <2>1, Beginning
<1>9. IsPrefix(hy, hw)
  BY <1>2, <1>6, <1>7, JoinedStart
<1>10. \A i \in 1 .. Len(hy) : hy[i] = hw[i]
  BY <1>5, <1>6, <1>9, PrefixIs
<1>11. IsPrefix(hy, next)
  <2>1. Len(hy) =< Len(next) /\ \A i \in 1 .. Len(hy) : hy[i] = next[i]
    BY <1>4, <1>6, <1>8, <1>10
  <2> QED BY <1>6, <1>8, <2>1, PrefixIs
<1> QED BY <1>8, <1>11 DEF H, Y, L, hy, next
\* The passes make the text longer, and the last of them makes it as long as it gets.
LEMMA EscapedGrows ==
    ASSUME NEW n \in 0 .. 20, NEW c \in Seq(Octet)
    PROVE  /\ Len(Escaped(c, n)) \in Nat /\ Len(Escaped(c, 20)) \in Nat
           /\ Len(Escaped(c, n)) =< Len(Escaped(c, 20))
           /\ 3 * Cardinality({i \in 1 .. Len(c) : c[i] \in Specials}) \in Nat
           /\ Len(Escaped(c, 20)) = Len(c) + 3 * Cardinality({i \in 1 .. Len(c) : c[i] \in Specials})
<1> DEFINE some == {i \in 1 .. Len(c) : \E m \in 1 .. n : ByteAt(m) = c[i]}
           twenty == {i \in 1 .. Len(c) : \E m \in 1 .. 20 : ByteAt(m) = c[i]}
           all == {i \in 1 .. Len(c) : c[i] \in Specials}
<1>1. /\ Cardinality(some) \in Nat /\ Cardinality(all) \in Nat
      /\ Len(Escaped(c, n)) = Len(c) + 3 * Cardinality(some)
      /\ Cardinality(some) =< Cardinality(all)
  BY EscapedLength
<1>2. Len(Escaped(c, 20)) = Len(c) + 3 * Cardinality(all)
  <2>1. 20 \in 0 .. 20
    OBVIOUS
  <2>2. Len(Escaped(c, 20)) = Len(c) + 3 * Cardinality(twenty) /\ twenty = all
    BY <2>1, EscapedLength
  <2> HIDE DEF twenty, all
  <2> QED BY <2>2
<1> DEFINE N == Len(c)
           A == Cardinality(some)
           B == Cardinality(all)
           X == Len(Escaped(c, n))
           Y == Len(Escaped(c, 20))
<1>3. N \in Nat /\ A \in Nat /\ B \in Nat /\ X = N + 3 * A /\ Y = N + 3 * B /\ A =< B
  BY <1>1, <1>2
<1> HIDE DEF N, A, B, X, Y, some, all
<1>4. X \in Nat /\ Y \in Nat /\ X =< Y /\ 3 * B \in Nat
  BY <1>3
<1> QED BY <1>3, <1>4 DEF N, B, X, Y, all

\* Before the first pass the buffer holds the head and the ciphertext as it is, and
\* the zeros that the escapes will take the place of.
LEMMA PassesBegin ==
    ASSUME NEW c \in Seq(DOMAIN HexDigits), NEW count, count = replace_counts(Heads[0] \o c)
    PROVE  LET d == (Heads[0] \o c) \o [i \in 1 .. count |-> "00"] IN
           /\ count \in Nat /\ c \in Seq(Octet)
           /\ count = 0 => Escaped(c, 20) = c
           /\ count > 0 => Halfway(0, c, d) /\ Len(d) = Len(Escaped(c, 20)) + 2 /\ Len(c) > 0
<1> DEFINE H == Heads[0]
           h == H \o c
           zeros == [i \in 1 .. count |-> "00"]
           d == h \o zeros
           all == {i \in 1 .. Len(c) : c[i] \in Specials}
<1>1. c \in Seq(Octet) /\ Len(c) \in Nat /\ \A i \in 1 .. Len(c) : c[i] \in Octet
  <2>1. DOMAIN HexDigits \subseteq Octet
    BY DEF Octet
  <2> DEFINE D == DOMAIN HexDigits
  <2>2. c \in Seq(D) /\ D \subseteq Octet
    BY <2>1
  <2> HIDE DEF D
  <2> QED BY <2>2
<1>2. count = 3 * Cardinality(all)
  BY <1>1, CountedBehindHead
<1>3. count \in Nat /\ Len(Escaped(c, 20)) = Len(c) + count /\ Len(Escaped(c, 20)) \in Nat
  <2>1. 20 \in 0 .. 20
    OBVIOUS
  <2>2. 3 * Cardinality(all) \in Nat /\ Len(Escaped(c, 20)) = Len(c) + 3 * Cardinality(all)
    BY <1>1, <2>1, EscapedGrows
  <2> HIDE DEF all
  <2> QED BY <1>1, <1>2, <2>2
<1>4. IsFiniteSet(all)
  <2>1. all \subseteq 1 .. Len(c)
    OBVIOUS
  <2> HIDE DEF all
  <2> QED BY <1>1, <2>1, IndicesFinite
<1>5. Escaped(c, 0) = c
  <2>1. 0 \in 0 .. 20
    OBVIOUS
  <2>2. Escaped(c, 0) = Spelled(EscapesTo(0), c) /\ EscapesTo(0) \in [Octet -> Seq(Octet)]
    BY <1>1, <2>1, EscapedSpells, EscapesToType
  <2> DEFINE F == EscapesTo(0)
  <2>3. \A i \in 1 .. Len(c) : F[c[i]] = <<c[i]>>
    <3>1. \A m \in 1 .. 0 : FALSE
      OBVIOUS
    <3> QED BY <1>1, <2>1, <3>1, EscapesToIs
  <2> HIDE DEF F
  <2>4. F \in [Octet -> Seq(Octet)] /\ c \in Seq(Octet)
    BY <1>1, <2>2 DEF F
  <2>5. Spelled(F, c) = c
    BY ONLY <2>3, <2>4, SpelledSelf
  <2> QED BY <2>2, <2>5 DEF F
<1>6. CASE count = 0
  <2>1. all = {}
    <3> HIDE DEF all
    <3>1. Cardinality(all) \in Nat
      BY <1>4, FS_CardinalityType
    <3>2. Cardinality(all) = 0
      BY <1>2, <1>6, <3>1
    <3> QED BY <1>4, <3>2, FS_EmptySet
  <2>2. 20 \in 0 .. 20
    OBVIOUS
  <2>3. Escaped(c, 20) = Spelled(EscapesTo(20), c) /\ EscapesTo(20) \in [Octet -> Seq(Octet)]
    BY <1>1, <2>2, EscapedSpells, EscapesToType
  <2> DEFINE F == EscapesTo(20)
  <2>4. \A i \in 1 .. Len(c) : F[c[i]] = <<c[i]>>
    <3> SUFFICES ASSUME NEW i \in 1 .. Len(c) PROVE F[c[i]] = <<c[i]>>
      OBVIOUS
    <3>1. c[i] \in Octet /\ c[i] \notin Specials
      BY <1>1, <2>1
    <3>2. \A m \in 1 .. 20 : ByteAt(m) # c[i]
      BY <3>1, EscapeIs
    <3> QED BY <2>2, <3>1, <3>2, EscapesToIs
  <2> HIDE DEF F
  <2>5. F \in [Octet -> Seq(Octet)] /\ c \in Seq(Octet)
    BY <1>1, <2>3 DEF F
  <2>6. Spelled(F, c) = c
    BY ONLY <2>4, <2>5, SpelledSelf
  <2>7. Escaped(c, 20) = c
    BY <2>3, <2>6 DEF F
  <2> QED BY <1>1, <1>6, <2>7
<1>7. CASE count > 0
  <2>1. zeros \in Seq(Octet) /\ Len(zeros) = count
    <3>1. EscapedBytes[17] = <<"00", "0", "0">>
      BY DEF EscapedBytes
    <3>2. ByteAt(17) \in Octet /\ ByteAt(17) = "00"
      <4>1. 17 \in 1 .. 20
        OBVIOUS
      <4> QED BY SMTT(30), <3>1, <4>1, EscapeIs DEF ByteAt
    <3>3. "00" \in Octet
      BY <3>2
    <3> QED BY <1>3, <3>3
  <2>2. H \in Seq(Octet) /\ Len(H) = 2
    BY FirstHead0
  <2> HIDE DEF zeros, H
  <2>3. h \in Seq(Octet) /\ Len(h) = Len(c) + 2
    BY <1>1, <2>2, BehindTwo
  <2> HIDE DEF h
  <2>4. d \in Seq(Octet) /\ Len(d) = Len(c) + 2 + count /\ IsPrefix(h, d)
    <3>1. d \in Seq(Octet) /\ Len(d) = Len(h) + Len(zeros) /\ IsPrefix(h, d)
      BY <2>1, <2>3, JoinIs, JoinedStart
    <3> QED BY <1>1, <2>1, <2>3, <3>1
  <2>5. Len(c) > 0
    <3> SUFFICES ASSUME Len(c) = 0 PROVE FALSE
      BY <1>1
    <3>1. all = {}
      OBVIOUS
    <3>2. Cardinality(all) = 0
      BY <3>1, FS_EmptySet
    <3> HIDE DEF all
    <3> QED BY <1>2, <1>7, <3>2
  <2> HIDE DEF d
  <2>6. 0 + 1 \in 0 .. 20 /\ 0 + 1 = 1
    OBVIOUS
  <2>7. Len(Escaped(c, 1)) \in Nat /\ Len(Escaped(c, 1)) =< Len(Escaped(c, 20))
    BY <1>1, <2>6, EscapedGrows
  <2>8. Len(Escaped(c, 1)) + 2 =< Len(d)
    BY <1>1, <1>3, <2>4, <2>7
  <2>9. Halfway(0, c, d)
    <3>1. IsPrefix(Heads[0] \o Escaped(c, 0), d)
      BY <1>5, <2>4 DEF h, H
    <3>2. 0 \in 0 .. 19 /\ Len(Escaped(c, 0 + 1)) + 2 =< Len(d)
      BY <2>6, <2>8
    <3> QED BY <1>1, <2>4, <3>1, <3>2 DEF Halfway
  <2>10. Len(d) = Len(Escaped(c, 20)) + 2
    BY <1>1, <1>3, <2>4
  <2> QED BY <1>1, <1>3, <1>7, <2>5, <2>9, <2>10 DEF d, h, H, zeros
<1> QED
  <2> HIDE DEF d
  <2>1. count = 0 \/ count > 0
    BY <1>3
  <2> QED BY <1>1, <1>3, <1>6, <1>7, <2>1 DEF d
\* A pass overruns its space only if 0xff is the first byte of what it works on.
LEMMA OverrunAt ==
    ASSUME NEW n \in 1 .. 20, NEW d \in Seq(Octet), Overruns(n, d)
    PROVE  Len(d) >= 3 /\ d[3] = "ff"
<1> DEFINE piece == Part(n, d)
           N == Len(piece)
           E == EscapeAt(n)
           X == {ByteAt(n)}
           A == {i \in 1 .. Len(piece) : piece[i] \in X}
           B == {i \in DOMAIN piece : piece[i] \in Specials /\ (piece[i] = "ff" => i > 1)}
<1>1. Len(d) \in Nat /\ \A i \in 1 .. Len(d) : d[i] \in Octet
  BY SeqIs
<1>2. piece = IF n = FlagPass THEN SubSeq(d, 3, Len(d)) ELSE d
  BY DEF Part
<1>3. n = FlagPass => /\ piece \in Seq(Octet) /\ (Len(piece) > 0 => Len(d) >= 3 /\ piece[1] = d[3])
  <2> SUFFICES ASSUME n = FlagPass
               PROVE  piece \in Seq(Octet) /\ (Len(piece) > 0 => Len(d) >= 3 /\ piece[1] = d[3])
    OBVIOUS
  <2> DEFINE q == SubSeq(d, 3, Len(d))
  <2>1. \A i \in 3 .. Len(d) : d[i] \in Octet
    BY <1>1
  <2>2. CASE Len(d) >= 3
    <3>1. q \in Seq(Octet) /\ Len(q) = Len(d) - 2 /\ \A i \in 1 .. Len(d) - 2 : q[i] = d[3 + i - 1]
      <4>1. 3 \in Int /\ Len(d) \in Int /\ 3 =< Len(d) /\ Len(d) - 3 + 1 = Len(d) - 2
        BY <1>1, <2>2
      <4> QED BY <2>1, <4>1, SubSeqProperties
    <3> HIDE DEF q
    <3>2. 1 \in 1 .. Len(d) - 2 /\ 3 + 1 - 1 = 3
      BY <1>1, <2>2
    <3>3. q[1] = d[3]
      BY <3>1, <3>2
    <3> QED BY <1>2, <2>2, <3>1, <3>3 DEF q
  <2>3. CASE ~ (Len(d) >= 3)
    <3>1. q = <<>>
      BY <1>1, <2>3
    <3> QED BY <1>2, <3>1
  <2> QED BY <2>2, <2>3
<1>4. piece \in Seq(Octet) /\ N \in Nat
  <2>1. piece \in Seq(Octet)
    BY <1>2, <1>3
  <2> HIDE DEF piece
  <2> QED BY <2>1
<1>5. Overruns(n, d) => Len(Replaced(piece, <<ByteAt(n)>>, Escape(n))) > N + replace_counts(piece)
  BY DEF Overruns
<1>6. replace_counts(piece) = 3 * Cardinality(B)
  BY DEF replace_counts
<1> HIDE DEF piece
<1>7. /\ Cardinality(A) \in Nat
      /\ Len(Replaced(piece, <<ByteAt(n)>>, Escape(n))) = N + 3 * Cardinality(A)
  <2>1. Lengthens(Octet, E, X, 3)
    <3>1. E \in [Octet -> Seq(Octet)] /\ Len(Escape(n)) = 4
      BY EscapeAtIs, EscapeIs
    <3>2. \A x \in Octet : E[x] = IF x = ByteAt(n) THEN Escape(n) ELSE <<x>>
      BY DEF EscapeAt
    <3> HIDE DEF E
    <3>3. \A x \in Octet : Len(E[x]) = IF x \in X THEN 3 + 1 ELSE 1
      <4> SUFFICES ASSUME NEW x \in Octet PROVE Len(E[x]) = IF x \in X THEN 3 + 1 ELSE 1
        OBVIOUS
      <4>1. CASE x = ByteAt(n)
        BY <3>1, <3>2, <4>1
      <4>2. CASE x # ByteAt(n)
        <5>1. E[x] = <<x>> /\ x \notin X
          BY <3>2, <4>2
        <5>2. Len(<<x>>) = 1
          OBVIOUS
        <5> HIDE DEF X
        <5> QED BY <5>1, <5>2
      <4> QED BY <4>1, <4>2
    <3> HIDE DEF X
    <3> QED BY <3>1, <3>3 DEF Lengthens
  <2>2. Replaced(piece, <<ByteAt(n)>>, Escape(n)) = Spelled(E, piece)
    BY <1>4, ReplacedSpells
  <2> HIDE DEF E, X
  <2> QED BY <1>4, <2>1, <2>2, SpelledLength
<1>8. DOMAIN piece = 1 .. N
  BY <1>4
<1>9. IsFiniteSet(B) /\ Cardinality(B) \in Nat
  <2>1. B \subseteq 1 .. N
    BY <1>8
  <2> HIDE DEF B
  <2> QED BY <1>4, <2>1, IndicesFinite, FS_CardinalityType
<1>10. ~ (A \subseteq B)
  <2> HIDE DEF A, B
  <2> SUFFICES ASSUME A \subseteq B PROVE FALSE
    OBVIOUS
  <2>1. Cardinality(A) =< Cardinality(B)
    BY <1>9, FS_Subset
  <2> DEFINE a == Cardinality(A)
             b == Cardinality(B)
  <2>2. a \in Nat /\ b \in Nat /\ a =< b /\ N + 3 * a > N + 3 * b
    BY <1>5, <1>6, <1>7, <1>9, <2>1
  <2> HIDE DEF a, b, N
  <2> QED BY <1>4, <2>2
<1>11. PICK i \in A : i \notin B
  BY <1>10
<1>12. i \in 1 .. N /\ piece[i] = ByteAt(n) /\ piece[i] = "ff" /\ ~ (i > 1)
  <2>1. ByteAt(n) \in Specials
    BY EscapeIs
  <2> QED BY <1>8, <1>11, <2>1
<1>13. n = FlagPass
  BY <1>12, EscapesDiffer, FlagPassIs
<1>14. i = 1 /\ Len(piece) > 0
  BY <1>4, <1>12
<1> QED BY <1>3, <1>12, <1>13, <1>14

\* A text begins with a byte that no pass escapes only if it was there before.
LEMMA EscapedFirst ==
    ASSUME NEW n \in 0 .. 20, NEW c \in Seq(Octet), Len(c) > 0
    PROVE  Len(Escaped(c, n)) > 0 /\ (Escaped(c, n)[1] # "$" => Escaped(c, n)[1] = c[1])
<1> DEFINE F == EscapesTo(n)
           a == c[1]
           one == <<a>>
           r == Tail(c)
<1>1. a \in Octet /\ one \in Seq(Octet) /\ r \in Seq(Octet) /\ c = one \o r
  <2>1. a \in Octet
    OBVIOUS
  <2>2. r \in Seq(Octet) /\ one \in Seq(Octet)
    BY <2>1
  <2>3. c = one \o r
    OBVIOUS
  <2> QED BY <2>1, <2>2, <2>3
<1>2. F \in [Octet -> Seq(Octet)]
  BY EscapesToType
<1>3. F[a] \in Seq(Octet) /\ Len(F[a]) > 0 /\ (F[a][1] # "$" => F[a][1] = a)
  <2>1. CASE \E m \in 1 .. n : ByteAt(m) = a
    <3>1. PICK m \in 1 .. n : ByteAt(m) = a
      BY <2>1
    <3>2. m \in 1 .. 20
      OBVIOUS
    <3>3. F[a] = Escape(m)
      BY <1>1, <3>1, EscapesToIs
    <3>4. Escape(m) \in Seq(Octet) /\ Len(Escape(m)) = 4 /\ Escape(m)[1] = "$"
      BY <3>2, EscapeIs
    <3> QED BY <3>3, <3>4
  <2>2. CASE \A m \in 1 .. n : ByteAt(m) # a
    <3>1. F[a] = one
      BY <1>1, <2>2, EscapesToIs
    <3>2. one \in Seq(Octet) /\ Len(one) > 0 /\ one[1] = a
      BY <1>1
    <3> QED BY <3>1, <3>2
  <2> QED BY <2>1, <2>2
<1>4. Escaped(c, n) = Spelled(F, c)
  BY EscapedSpells
<1> HIDE DEF F, one, r
<1>5. Spelled(F, c) = Spelled(F, one) \o Spelled(F, r)
  BY <1>1, <1>2, SpelledJoin
<1>6. Spelled(F, one) = F[a]
  <2> HIDE DEF a
  <2> QED BY <1>1, <1>2, SpelledOne DEF one
<1>7. Spelled(F, r) \in Seq(Octet)
  BY <1>1, <1>2, SpelledIs
<1> DEFINE p == F[a]
           q == Spelled(F, r)
<1> HIDE DEF p, q
<1>8. p \in Seq(Octet) /\ q \in Seq(Octet) /\ Len(p) > 0
  BY <1>3, <1>7 DEF p, q
<1>9. Len(p \o q) > 0 /\ (p \o q)[1] = p[1]
  <2>1. /\ Len(p \o q) = Len(p) + Len(q) /\ Len(p) \in Nat /\ Len(q) \in Nat
        /\ \A i \in 1 .. Len(p) + Len(q) : (p \o q)[i] = IF i =< Len(p) THEN p[i] ELSE q[i - Len(p)]
    BY <1>8, JoinIs
  <2> DEFINE pq == p \o q
  <2> HIDE DEF pq
  <2>2. /\ Len(pq) = Len(p) + Len(q) /\ Len(p) \in Nat /\ Len(q) \in Nat
        /\ \A i \in 1 .. Len(p) + Len(q) : pq[i] = IF i =< Len(p) THEN p[i] ELSE q[i - Len(p)]
    BY <2>1 DEF pq
  <2>3. 1 \in 1 .. Len(p) + Len(q) /\ 1 =< Len(p)
    BY <1>8, <2>2
  <2>4. Len(pq) > 0 /\ pq[1] = p[1]
    BY <1>8, <2>2, <2>3
  <2> QED BY <2>4 DEF pq
<1>10. Escaped(c, n) = p \o q
  BY <1>4, <1>5, <1>6 DEF p, q
<1> QED BY <1>3, <1>9, <1>10 DEF p
\* What a pass leaves is what the next one works on, and the last one the packet;
\* its copy has space enough unless the ciphertext begins with 0xff.
LEMMA PassOn ==
    ASSUME NEW n, NEW c, NEW d, Halfway(n, c, d), Len(c) > 0, Len(d) = Len(Escaped(c, 20)) + 2
    PROVE  LET next == replace_post(n + 1, d) IN
           /\ n + 1 = 20 => next = Heads[0] \o Escaped(c, 20)
           /\ n + 1 # 20 => Halfway(n + 1, c, next) /\ Len(next) = Len(Escaped(c, 20)) + 2
           /\ Overruns(n + 1, d) => c[1] = "ff"
<1> DEFINE next == replace_post(n + 1, d)
           H == Heads[0]
           k == n + 1
           Y == Escaped(c, k)
           X == Escaped(c, n)
<1>1. /\ n \in 0 .. 19 /\ k \in 1 .. 20 /\ k \in 0 .. 20 /\ n \in 0 .. 20 /\ c \in Seq(Octet)
      /\ d \in Seq(Octet) /\ IsPrefix(H \o X, d) /\ k = n + 1
  BY DEF Halfway
<1>2. next \in Seq(Octet) /\ Len(next) = Len(d) /\ IsPrefix(H \o Y, next)
  BY PassExact
<1>3. H \in Seq(Octet) /\ Len(H) = 2
  BY FirstHead0
<1>4. Y \in Seq(Octet) /\ X \in Seq(Octet)
  BY <1>1, EscapedSpells
<1> DEFINE hx == H \o X
           hy == H \o Y
<1> HIDE DEF H, X, Y, k, next
<1>5. hy \in Seq(Octet) /\ Len(hy) = Len(Y) + 2 /\ Len(Y) \in Nat
  BY <1>3, <1>4, BehindTwo
<1>6. /\ hx \in Seq(Octet) /\ Len(hx) = Len(X) + 2 /\ Len(X) \in Nat
      /\ \A i \in 1 .. Len(X) : hx[i + 2] = X[i]
  BY SMTT(30), <1>3, <1>4, BehindTwo
<1> HIDE DEF hx, hy
<1>7. IsPrefix(hy, next) /\ IsPrefix(hx, d)
  BY <1>1, <1>2 DEF hx, hy
<1>8. ASSUME k = 20 PROVE next = H \o Escaped(c, 20)
  <2>1. Len(hy) = Len(next) /\ \A i \in 1 .. Len(hy) : hy[i] = next[i]
    <3>1. Y = Escaped(c, 20)
      BY <1>8 DEF Y
    <3>2. Len(hy) = Len(next)
      BY <1>2, <1>5, <3>1
    <3> QED BY <1>2, <1>5, <1>7, <3>2, PrefixIs
  <2>2. next = hy
    BY <1>2, <1>5, <2>1
  <2> QED BY <1>8, <2>2 DEF hy, Y
<1>9. ASSUME k # 20 PROVE Halfway(k, c, next) /\ Len(next) = Len(Escaped(c, 20)) + 2
  <2>1. k \in 0 .. 19 /\ k + 1 \in 0 .. 20
    BY <1>1, <1>9
  <2>2. /\ Len(Escaped(c, k + 1)) \in Nat /\ Len(Escaped(c, 20)) \in Nat
        /\ Len(Escaped(c, k + 1)) =< Len(Escaped(c, 20))
    BY <1>1, <2>1, EscapedGrows
  <2>3. Len(Escaped(c, k + 1)) + 2 =< Len(next)
    <3> DEFINE a == Len(Escaped(c, k + 1))
               b == Len(Escaped(c, 20))
    <3>1. a \in Nat /\ b \in Nat /\ a =< b /\ Len(next) = b + 2
      BY <1>2, <2>2
    <3> HIDE DEF a, b
    <3>2. a + 2 =< Len(next)
      BY <3>1
    <3> QED BY <3>2 DEF a
  <2>4. IsPrefix(Heads[0] \o Escaped(c, k), next)
    BY <1>7 DEF hy, H, Y
  <2> QED BY <1>1, <1>2, <2>1, <2>3, <2>4 DEF Halfway
<1>10. ASSUME Overruns(k, d) PROVE c[1] = "ff"
  <2>1. d[3] = "ff"
    BY <1>1, <1>10, OverrunAt
  <2>2. Len(X) > 0 /\ (X[1] # "$" => X[1] = c[1])
    BY <1>1, EscapedFirst DEF X
  <2>3. X[1] = d[3]
    <3>1. 1 \in 1 .. Len(X) /\ 1 + 2 = 3 /\ 3 \in 1 .. Len(hx)
      BY <1>6, <2>2
    <3>2. hx[3] = X[1]
      BY <1>6, <3>1
    <3>3. hx[3] = d[3]
      BY <1>1, <1>6, <1>7, <3>1, PrefixIs
    <3> QED BY <3>2, <3>3
  <2>4. "ff" # "$"
    OBVIOUS
  <2> QED BY <2>1, <2>2, <2>3, <2>4
<1> QED BY <1>8, <1>9, <1>10 DEF k, H, next

\* The last pass.
LEMMA Passes == Len(EscapedBytes) = 20
BY DEF EscapedBytes

\* Throughout the passes the buffer holds the head and the ciphertext, escaped so
\* far, and has space for the rest of the escapes; before them nothing has been
\* written anywhere.
Passing ==
    /\ request \in Requests
    /\ stage \in {"arrived", "search", "clear", "parts"} => space = "ok" /\ pass = 0
    /\ stage = "passes" => /\ Halfway(pass, ciphers[1], text) /\ Len(ciphers[1]) > 0
                           /\ Len(text) = Len(Escaped(ciphers[1], 20)) + 2
    /\ stage = "sealed" /\ request.type \notin InDigits =>
         text = Flagged(Heads[0] \o Escaped(ciphers[1], 20))
    /\ space = "overrun" => ciphers[1][1] = "ff"

\* EncryptData prepares the buffer of the passes, or writes the packet at once.
LEMMA EncryptPasses ==
    ASSUME Passing, NEW c \in CiphersOf(request), EncryptData(c)
    PROVE  Passing'
<1> DEFINE d == Heads[0] \o c
           count == replace_counts(d)
           zeros == [i \in 1 .. count |-> "00"]
<1>1. /\ text' = IF count > 0 THEN d \o zeros ELSE Flagged(d)
      /\ stage = "clear" /\ stage' = IF count > 0 THEN "passes" ELSE "sealed"
      /\ ciphers' = <<c>> /\ UNCHANGED <<request, pass, space>>
  BY DEF EncryptData
<1>2. c \in Seq(DOMAIN HexDigits)
  BY RequestsAssumption DEF Passing
<1>3. /\ count \in Nat /\ (count = 0 => Escaped(c, 20) = c)
      /\ count > 0 => /\ Halfway(0, c, d \o zeros) /\ Len(d \o zeros) = Len(Escaped(c, 20)) + 2
                      /\ Len(c) > 0
  BY <1>2, PassesBegin
<1>4. space = "ok" /\ pass = 0 /\ request \in Requests
  BY <1>1 DEF Passing
<1>5. ciphers'[1] = c
  BY <1>1
<1>6. Flagged(d)' = Flagged(d)
  BY <1>1 DEF Flagged
<1> HIDE DEF count, zeros
<1>7. CASE count > 0
  <2>1. /\ stage' = "passes" /\ text' = d \o zeros /\ pass' = 0 /\ space' = "ok"
        /\ request' \in Requests
    BY <1>1, <1>4, <1>7
  <2> HIDE DEF d
  <2>2. /\ Halfway(pass', ciphers'[1], text') /\ Len(ciphers'[1]) > 0
        /\ Len(text') = Len(Escaped(ciphers'[1], 20)) + 2
    BY <1>3, <1>5, <1>7, <2>1
  <2> QED BY <2>1, <2>2 DEF Passing
<1>8. CASE ~ (count > 0)
  <2>1. count = 0
    BY <1>3, <1>8
  <2>2. /\ stage' = "sealed" /\ text' = Flagged(d) /\ space' = "ok" /\ request' \in Requests
    BY <1>1, <1>4, <1>8
  <2>3. text' = Flagged(Heads[0] \o Escaped(ciphers'[1], 20))
    BY <1>3, <1>5, <2>1, <2>2
  <2>4. (text = Flagged(Heads[0] \o Escaped(ciphers[1], 20)))'
    BY <1>1, <2>3 DEF Flagged
  <2> QED BY <2>2, <2>4 DEF Passing
<1> QED BY <1>7, <1>8

\* Every pass keeps to that.
LEMMA PassPasses == ASSUME Passing, ReplacePost PROVE Passing'
<1> DEFINE c == ciphers[1]
           next == replace_post(pass + 1, text)
<1>1. /\ stage = "passes" /\ pass' = pass + 1 /\ ciphers' = ciphers /\ request' = request
      /\ space' = IF Overruns(pass + 1, text) THEN "overrun" ELSE space
      /\ IF pass + 1 = 20 THEN stage' = "sealed" /\ text' = Flagged(next)
         ELSE stage' = "passes" /\ text' = next
  BY Passes DEF ReplacePost, sealing
<1>2. /\ request \in Requests /\ Halfway(pass, c, text) /\ Len(c) > 0
      /\ Len(text) = Len(Escaped(c, 20)) + 2 /\ (space = "overrun" => c[1] = "ff")
  BY <1>1 DEF Passing
<1>3. /\ pass + 1 = 20 => next = Heads[0] \o Escaped(c, 20)
      /\ pass + 1 # 20 => Halfway(pass + 1, c, next) /\ Len(next) = Len(Escaped(c, 20)) + 2
      /\ Overruns(pass + 1, text) => c[1] = "ff"
  <2> DEFINE p == pass
             t == text
  <2>1. Halfway(p, c, t) /\ Len(c) > 0 /\ Len(t) = Len(Escaped(c, 20)) + 2
    BY <1>2
  <2> HIDE DEF c, p, t
  <2>2. /\ p + 1 = 20 => replace_post(p + 1, t) = Heads[0] \o Escaped(c, 20)
        /\ p + 1 # 20 => /\ Halfway(p + 1, c, replace_post(p + 1, t))
                         /\ Len(replace_post(p + 1, t)) = Len(Escaped(c, 20)) + 2
        /\ Overruns(p + 1, t) => c[1] = "ff"
    BY ONLY <2>1, PassOn
  <2> QED BY <2>2 DEF p, t
<1>4. space' = "overrun" => ciphers'[1][1] = "ff"
  BY <1>1, <1>2, <1>3
<1> HIDE DEF next
<1>5. CASE pass + 1 = 20
  <2>1. stage' = "sealed" /\ text' = Flagged(Heads[0] \o Escaped(ciphers[1], 20))
    BY <1>1, <1>3, <1>5
  <2>2. (text = Flagged(Heads[0] \o Escaped(ciphers[1], 20)))'
    BY <1>1, <2>1 DEF Flagged
  <2> QED BY <1>1, <1>2, <1>4, <2>1, <2>2 DEF Passing
<1>6. CASE pass + 1 # 20
  <2>1. stage' = "passes" /\ text' = next
    BY <1>1, <1>6
  <2>2. /\ Halfway(pass', ciphers'[1], text') /\ Len(ciphers'[1]) > 0
        /\ Len(text') = Len(Escaped(ciphers'[1], 20)) + 2
    BY <1>1, <1>2, <1>3, <1>6, <2>1
  <2> QED BY <1>1, <1>2, <1>4, <2>1, <2>2 DEF Passing
<1> QED BY <1>5, <1>6
\* The steps outside of the passes and the encryptions.
LEMMA OtherPasses ==
    ASSUME Passing, UNCHANGED <<request, ciphers, pass, space>>,
           stage' \in {"declined", "search", "kept", "clear", "sent", "shown", "opened"},
           stage' \in {"search", "clear"} => stage \in {"arrived", "search"}
    PROVE  Passing'
BY DEF Passing

\* The encryptions that write digits.
LEMMA DigitsPass ==
    ASSUME Passing, NEW c, EncryptDataBase64(c) \/ EncryptPart(c)
    PROVE  Passing'
<1>1. /\ stage \in {"clear", "parts"} /\ stage' \in {"parts", "sealed"}
      /\ request.type \in InDigits /\ UNCHANGED <<request, pass, space>>
  <2>1. CASE EncryptDataBase64(c)
    BY <2>1 DEF EncryptDataBase64
  <2>2. CASE EncryptPart(c)
    <3>1. request.type \in InDigits
      BY <2>2, Zenon DEF EncryptPart, InDigits
    <3> QED BY <2>2, <3>1 DEF EncryptPart
  <2> QED BY <2>1, <2>2
<1>2. (request.type \in InDigits)'
  BY <1>1 DEF InDigits
<1>3. space' = "ok" /\ pass' = 0 /\ request' \in Requests
  BY <1>1 DEF Passing
<1> QED BY <1>1, <1>2, <1>3 DEF Passing

\* All that the passes do is inductive.
LEMMA PassingAlways == Spec => []Passing
<1>1. Init => Passing
  BY DEF Init, Passing
<1>2. Passing /\ [Next]_vars => Passing'
  <2> SUFFICES ASSUME Passing, [Next]_vars PROVE Passing'
    OBVIOUS
  <2>1. CASE Lookup
    <3>1. /\ stage' \in {"declined", "search", "kept"} /\ stage = "arrived"
          /\ UNCHANGED <<request, ciphers, pass, space>>
      BY <2>1 DEF Lookup, sealing
    <3> QED BY <3>1, OtherPasses
  <2>2. CASE Search
    <3>1. /\ stage' \in {"clear", "kept"} /\ stage = "search"
          /\ UNCHANGED <<request, ciphers, pass, space>>
      BY <2>2 DEF Search, sealing
    <3> QED BY <3>1, OtherPasses
  <2>3. CASE ReplacePost
    BY <2>3, PassPasses
  <2>4. CASE Send
    <3>1. stage' = "sent" /\ UNCHANGED <<request, ciphers, pass, space>>
      BY <2>4 DEF Send, sealing
    <3> QED BY <3>1, OtherPasses
  <2>5. CASE Decode
    <3>1. stage' = "opened" /\ UNCHANGED <<request, ciphers, pass, space>>
      BY <2>5 DEF Decode, sealing
    <3> QED BY <3>1, OtherPasses
  <2>6. ASSUME NEW c \in CiphersOf(request), EncryptData(c) \/ EncryptDataBase64(c) \/ EncryptPart(c)
        PROVE  Passing'
    BY <2>6, EncryptPasses, DigitsPass
  <2>7. ASSUME NEW c \in Opens, NEW n \in DOMAIN ciphers, Show(c, n) PROVE Passing'
    <3>1. stage' = "shown" /\ UNCHANGED <<request, ciphers, pass, space>>
      BY <2>7, Zenon DEF Show, sealing
    <3> QED BY <3>1, OtherPasses
  <2>8. CASE UNCHANGED vars
    <3>1. UNCHANGED <<request, ciphers, pass, space, stage, text>>
      BY <2>8 DEF sealing, vars
    <3>2. Flagged(Heads[0] \o Escaped(ciphers[1], 20))' = Flagged(Heads[0] \o Escaped(ciphers[1], 20))
      BY <3>1 DEF Flagged
    <3> QED BY <3>1, <3>2 DEF Passing
  <2> QED BY <2>1, <2>2, <2>3, <2>4, <2>5, <2>6, <2>7, <2>8 DEF Next
<1> QED BY <1>1, <1>2, PTL DEF Spec

\* After each pass of replace_post the buffer begins with the head and the
\* ciphertext escaped so far, and after the last it holds nothing else, whatever
\* the ciphertext is.
THEOREM PassesCorrect == Spec => []PassesExact
<1>1. Passing => PassesExact
  <2> SUFFICES ASSUME Passing PROVE PassesExact
    OBVIOUS
  <2>1. stage = "passes" => IsPrefix(Heads[0] \o Escaped(ciphers[1], pass), text)
    BY DEF Halfway, Passing
  <2>2. stage = "sealed" /\ request.type \notin InDigits =>
          text = Flagged(Heads[0] \o Escaped(ciphers[1], 20))
    BY DEF Passing
  <2> QED BY <2>1, <2>2, Passes DEF PassesExact
<1> QED BY <1>1, PassingAlways, PTL

\* A pass writes past its space only where 0xff is the first byte of the ciphertext.
THEOREM OverrunFlagCorrect == Spec => []OverrunNeedsFlag
<1>1. Passing => OverrunNeedsFlag
  BY DEF OverrunNeedsFlag, Passing
<1> QED BY <1>1, PassingAlways, PTL

-------------------------------------------------------------------------------
(* Text with some of it replaced                                            *)

\* Where a text is found in another.
LEMMA PlacesIn ==
    ASSUME NEW S, NEW d \in Seq(S), NEW s \in Seq(S), NEW i \in Nat \ {0}, NEW k
    PROVE  k \in Places(d, s, i) <=> /\ k \in i .. Len(d) - Len(s) + 1
                                     /\ \A j \in 1 .. Len(s) : d[k + j - 1] = s[j]
<1> DEFINE m == Len(s)
           n == Len(d)
           t == SubSeq(d, k, k + m - 1)
<1>1. m \in Nat /\ n \in Nat
  OBVIOUS
<1>2. k \in Places(d, s, i) <=> k \in i .. n - m + 1 /\ t = s
  BY DEF Places
<1>3. ASSUME k \in i .. n - m + 1
      PROVE  t = s <=> \A j \in 1 .. m : d[k + j - 1] = s[j]
  <2>1. k \in Int /\ k + m - 1 \in Int /\ k >= 1 /\ k + m - 1 =< n
    BY <1>1, <1>3
  <2>2. \A x \in k .. k + m - 1 : d[x] \in S
    <3>1. \A x \in 1 .. n : d[x] \in S
      BY SeqIs
    <3> QED BY <1>1, <2>1, <3>1
  <2>3. t \in Seq(S) /\ Len(t) = m /\ \A j \in 1 .. m : t[j] = d[k + j - 1]
    <3>1. (k + m - 1) - k + 1 = m /\ (k =< k + m - 1 <=> m # 0)
      BY <1>1, <2>1
    <3> QED BY <1>1, <2>1, <2>2, <3>1, SubSeqProperties
  <2> HIDE DEF t, m
  <2>4. s \in Seq(S) /\ Len(s) = m
    BY DEF m
  <2>5. t = s => \A j \in 1 .. m : t[j] = s[j]
    OBVIOUS
  <2>6. (\A j \in 1 .. m : t[j] = s[j]) => t = s
    BY <1>1, <2>3, <2>4
  <2> QED BY <2>3, <2>5, <2>6
<1> HIDE DEF t
<1> QED BY <1>2, <1>3

\* A text that is searched for another one from some place on.
Sought(S, d, s, i) == d \in Seq(S) /\ s \in Seq(S) /\ i \in Nat \ {0}

\* What is found there.
LEMMA SoughtIn ==
    ASSUME NEW S, NEW d, NEW s, NEW i, Sought(S, d, s, i), NEW k
    PROVE  k \in Places(d, s, i) <=> /\ k \in i .. Len(d) - Len(s) + 1
                                     /\ \A j \in 1 .. Len(s) : d[k + j - 1] = s[j]
<1>1. d \in Seq(S) /\ s \in Seq(S) /\ i \in Nat \ {0}
  BY DEF Sought
<1> QED BY <1>1, PlacesIn

\* A text is at the place k, from i on.
IsAt(d, s, i, k) == k \in i .. Len(d) - Len(s) + 1 /\ \A j \in 1 .. Len(s) : d[k + j - 1] = s[j]

\* That is where it is found.
LEMMA SoughtAt ==
    ASSUME NEW S, NEW d, NEW s, NEW i, Sought(S, d, s, i), NEW k
    PROVE  k \in Places(d, s, i) <=> IsAt(d, s, i, k)
BY SoughtIn DEF IsAt

\* What replacing makes of each byte.
Covered(at, old, i) == \E k \in at : k < i /\ i < k + Len(old)
Pieces(d, old, new) ==
    [i \in 1 .. Len(d) |-> IF i \in Places(d, old, 1) THEN new
                           ELSE IF Covered(Places(d, old, 1), old, i) THEN <<>> ELSE <<d[i]>>]

\* Replacing puts these in a row.
LEMMA ReplacedPieces ==
    ASSUME NEW S, NEW d \in Seq(S), NEW old, Singular(S, old), NEW new \in Seq(S)
    PROVE  /\ Replaced(d, old, new) = FlattenSeq(Pieces(d, old, new))
           /\ Pieces(d, old, new) \in [1 .. Len(d) -> Seq(S)]
           /\ Places(d, old, 1) = {} => Replaced(d, old, new) = d
<1> DEFINE at == Places(d, old, 1)
           Piece(i) == CASE i \in at -> new
                         [] \E k \in at : k < i /\ i < k + Len(old) -> <<>>
                         [] OTHER -> <<d[i]>>
           f == [i \in DOMAIN d |-> Piece(i)]
           h == Pieces(d, old, new)
           n == Len(d)
<1>1. n \in Nat /\ DOMAIN d = 1 .. n /\ \A i \in 1 .. n : d[i] \in S
  BY SeqIs
<1>2. Replaced(d, old, new) = IF at = {} THEN d ELSE FlattenSeq(f)
  BY DEF Replaced
<1>3. old \in Seq(S) /\ Len(old) \in Nat \ {0} /\ \A j \in 2 .. Len(old) : old[j] # old[1]
  BY DEF Singular
<1>4. \A k : k \in at <=> /\ k \in 1 .. n - Len(old) + 1
                          /\ \A j \in 1 .. Len(old) : d[k + j - 1] = old[j]
  <2> SUFFICES ASSUME NEW k
               PROVE  k \in at <=> /\ k \in 1 .. n - Len(old) + 1
                                   /\ \A j \in 1 .. Len(old) : d[k + j - 1] = old[j]
    OBVIOUS
  <2>1. Sought(S, d, old, 1)
    BY <1>3 DEF Sought
  <2>2. k \in Places(d, old, 1) <=> IsAt(d, old, 1, k)
    BY ONLY <2>1, SoughtAt, Zenon
  <2> QED BY <2>2 DEF IsAt
<1>5. h = [i \in 1 .. n |-> IF i \in at THEN new ELSE IF Covered(at, old, i) THEN <<>> ELSE <<d[i]>>]
  BY DEF Pieces
<1> HIDE DEF at, h, n
<1>6. ASSUME NEW i \in at, Covered(at, old, i) PROVE FALSE
  <2>1. PICK k \in at : k < i /\ i < k + Len(old)
    BY <1>6 DEF Covered
  <2>2. i \in Nat /\ k \in Nat
    BY <1>1, <1>3, <1>4
  <2> DEFINE j == i - k + 1
  <2>3. j \in 2 .. Len(old) /\ j \in 1 .. Len(old) /\ k + j - 1 = i /\ 1 \in 1 .. Len(old) /\ i + 1 - 1 = i
    BY <1>3, <2>1, <2>2
  <2> HIDE DEF j
  <2>4. d[k + j - 1] = old[j] /\ d[i + 1 - 1] = old[1]
    BY <1>4, <2>3
  <2>5. d[i] = old[j] /\ d[i] = old[1]
    BY <2>3, <2>4
  <2> QED BY <1>3, <2>3, <2>5
<1>7. ASSUME NEW i \in 1 .. n PROVE Piece(i) = h[i]
  <2>1. CASE i \in at
    <3>1. ~ \E k \in at : k < i /\ i < k + Len(old)
      BY <1>6, <2>1 DEF Covered
    <3> QED BY <1>5, <2>1, <3>1
  <2>2. CASE i \notin at /\ Covered(at, old, i)
    <3>1. \E k \in at : k < i /\ i < k + Len(old)
      BY <2>2 DEF Covered
    <3> QED BY <1>5, <2>2, <3>1
  <2>3. CASE i \notin at /\ ~ Covered(at, old, i)
    <3>1. ~ \E k \in at : k < i /\ i < k + Len(old)
      BY <2>3 DEF Covered
    <3> QED BY <1>5, <2>3, <3>1
  <2> QED BY <2>1, <2>2, <2>3
<1>8. h \in [1 .. n -> Seq(S)]
  <2>1. <<>> \in Seq(S) /\ \A i \in 1 .. n : <<d[i]>> \in Seq(S)
    BY <1>1
  <2> QED BY <1>5, <2>1
<1> HIDE DEF Piece
<1>9. f = h
  BY <1>1, <1>5, <1>7
<1> HIDE DEF f
<1>10. ASSUME at = {} PROVE FlattenSeq(h) = d
  <2> DEFINE F == [x \in S |-> <<x>>]
  <2>1. F \in [S -> Seq(S)]
    OBVIOUS
  <2>2. \A i \in 1 .. Len(d) : F[d[i]] = <<d[i]>>
    BY <1>1 DEF n
  <2>3. [i \in DOMAIN d |-> F[d[i]]] = h
    <3>1. \A i \in 1 .. n : h[i] = <<d[i]>>
      BY <1>5, <1>10 DEF Covered
    <3> QED BY <1>1, <1>5, <2>2, <3>1 DEF n
  <2>4. Spelled(F, d) = d
    <3> HIDE DEF F
    <3> QED BY <2>1, <2>2, SpelledSelf
  <2> QED BY <2>3, <2>4 DEF Spelled
<1> QED BY <1>2, <1>8, <1>9, <1>10 DEF at, h, n

\* Replacing makes text of text, and none longer if one sign at most takes the
\* place of several.
LEMMA ReplacedText ==
    ASSUME NEW S, NEW d \in Seq(S), NEW old, Singular(S, old), NEW new \in Seq(S)
    PROVE  /\ Replaced(d, old, new) \in Seq(S)
           /\ Len(new) =< 1 => Len(Replaced(d, old, new)) =< Len(d)
<1> DEFINE h == Pieces(d, old, new)
           n == Len(d)
<1>1. Replaced(d, old, new) = FlattenSeq(h) /\ h \in [1 .. n -> Seq(S)]
  BY ReplacedPieces
<1>2. n \in Nat
  OBVIOUS
<1>3. \A i \in 1 .. n : h[i] = new \/ h[i] = <<>> \/ h[i] = <<d[i]>>
  BY DEF Pieces
<1> HIDE DEF h, n
<1>4. FlattenSeq(h) \in Seq(S)
  BY <1>1, <1>2, Flattened
<1>5. ASSUME Len(new) =< 1 PROVE Len(FlattenSeq(h)) =< n
  <2>1. \A i \in 1 .. n : Len(h[i]) =< 1
    <3> SUFFICES ASSUME NEW i \in 1 .. n PROVE Len(h[i]) =< 1
      OBVIOUS
    <3> DEFINE x == d[i]
    <3>1. Len(<<>>) = 0 /\ Len(<<x>>) = 1
      OBVIOUS
    <3> HIDE DEF x
    <3>2. h[i] = new \/ h[i] = <<>> \/ h[i] = <<x>>
      BY <1>3 DEF x
    <3>3. CASE h[i] = new
      BY <1>5, <3>3
    <3>4. CASE h[i] = <<>>
      BY <3>1, <3>4
    <3>5. CASE h[i] = <<x>>
      BY <3>1, <3>5
    <3> QED BY <3>2, <3>3, <3>4, <3>5
  <2> QED BY <1>1, <1>2, <2>1, FlattenedShort
<1> QED BY <1>1, <1>4, <1>5 DEF n

\* Text without the first sign of what is replaced stays as it is.
LEMMA ReplacedSame ==
    ASSUME NEW S, NEW d \in Seq(S), NEW old, Singular(S, old), NEW new \in Seq(S),
           \A i \in 1 .. Len(d) : d[i] # old[1]
    PROVE  Replaced(d, old, new) = d
<1>1. Places(d, old, 1) = {}
  <2> SUFFICES ASSUME NEW k \in Places(d, old, 1) PROVE FALSE
    OBVIOUS
  <2>1. old \in Seq(S) /\ Len(old) \in Nat \ {0} /\ Len(d) \in Nat
    BY DEF Singular
  <2>2. k \in 1 .. Len(d) - Len(old) + 1 /\ \A j \in 1 .. Len(old) : d[k + j - 1] = old[j]
    BY <2>1, PlacesIn
  <2>3. 1 \in 1 .. Len(old) /\ k \in 1 .. Len(d) /\ k + 1 - 1 = k
    BY <2>1, <2>2
  <2>4. d[k] = old[1]
    BY <2>2, <2>3
  <2> QED BY <2>3, <2>4
<1> QED BY <1>1, ReplacedPieces

\* Where a text is found in another from its beginning on.
LEMMA FoundAt ==
    ASSUME NEW S, NEW d \in Seq(S), NEW old, Singular(S, old)
    PROVE  \A k : k \in Places(d, old, 1) <=> /\ k \in 1 .. Len(d) - Len(old) + 1
                                              /\ \A j \in 1 .. Len(old) : d[k + j - 1] = old[j]
<1> SUFFICES ASSUME NEW k
             PROVE  k \in Places(d, old, 1) <=> /\ k \in 1 .. Len(d) - Len(old) + 1
                                                /\ \A j \in 1 .. Len(old) : d[k + j - 1] = old[j]
  OBVIOUS
<1>1. d \in Seq(S) /\ old \in Seq(S) /\ 1 \in Nat \ {0}
  BY DEF Singular
<1> QED BY ONLY <1>1, PlacesIn

\* Two texts, where what is replaced is in the one or the other and not in both.
Apart(S, s, t, old, new) ==
    /\ s \in Seq(S) /\ t \in Seq(S) /\ new \in Seq(S) /\ Singular(S, old)
    /\ \A k \in Places(s \o t, old, 1) : k + Len(old) - 1 =< Len(s) \/ k > Len(s)

\* It is replaced in the one and in the other.
LEMMA ReplacedJoin ==
    ASSUME NEW S, NEW s, NEW t, NEW old, NEW new, Apart(S, s, t, old, new)
    PROVE  Replaced(s \o t, old, new) = Replaced(s, old, new) \o Replaced(t, old, new)
<1> DEFINE m == Len(s)
           n == Len(t)
           l == Len(old)
           st == s \o t
           P == Places(s, old, 1)
           Q == Places(t, old, 1)
           R == Places(st, old, 1)
           f == Pieces(s, old, new)
           g == Pieces(t, old, new)
           h == Pieces(st, old, new)
<1>1. /\ s \in Seq(S) /\ t \in Seq(S) /\ new \in Seq(S) /\ Singular(S, old)
      /\ \A k \in R : k + l - 1 =< m \/ k > m
  BY DEF Apart
<1>2. /\ st \in Seq(S) /\ Len(st) = m + n /\ m \in Nat /\ n \in Nat
      /\ \A i \in 1 .. m + n : st[i] = IF i =< m THEN s[i] ELSE t[i - m]
  BY <1>1, JoinIs
<1>3. l \in Nat \ {0} /\ old \in Seq(S)
  BY <1>1 DEF Singular
<1>4. /\ \A k : k \in P <=> k \in 1 .. m - l + 1 /\ \A j \in 1 .. l : s[k + j - 1] = old[j]
      /\ \A k : k \in Q <=> k \in 1 .. n - l + 1 /\ \A j \in 1 .. l : t[k + j - 1] = old[j]
  BY <1>1, FoundAt
<1> HIDE DEF st
<1>5. \A k : k \in R <=> k \in 1 .. (m + n) - l + 1 /\ \A j \in 1 .. l : st[k + j - 1] = old[j]
  <2>1. \A k : k \in R <=> k \in 1 .. Len(st) - l + 1 /\ \A j \in 1 .. l : st[k + j - 1] = old[j]
    BY <1>1, <1>2, FoundAt
  <2> QED BY <1>2, <2>1
<1>6. /\ f = [i \in 1 .. m |-> IF i \in P THEN new ELSE IF Covered(P, old, i) THEN <<>> ELSE <<s[i]>>]
      /\ g = [i \in 1 .. n |-> IF i \in Q THEN new ELSE IF Covered(Q, old, i) THEN <<>> ELSE <<t[i]>>]
      /\ h = [i \in 1 .. Len(st) |-> IF i \in R THEN new
                                     ELSE IF Covered(R, old, i) THEN <<>> ELSE <<st[i]>>]
  BY DEF Pieces
<1>7. /\ Replaced(s, old, new) = FlattenSeq(f) /\ f \in [1 .. m -> Seq(S)]
      /\ Replaced(t, old, new) = FlattenSeq(g) /\ g \in [1 .. n -> Seq(S)]
  BY <1>1, ReplacedPieces
<1>8. Replaced(st, old, new) = FlattenSeq(h) /\ h \in [1 .. Len(st) -> Seq(S)]
  BY <1>1, <1>2, ReplacedPieces
<1> HIDE DEF m, n, l, P, Q, R, f, g, h
<1>9. ASSUME NEW k \in Nat, k =< m PROVE k \in R <=> k \in P
  <2>1. ASSUME k \in 1 .. m - l + 1, NEW j \in 1 .. l PROVE st[k + j - 1] = s[k + j - 1]
    <3> DEFINE i == k + j - 1
    <3>1. i \in 1 .. m + n /\ i =< m
      BY <1>2, <1>3, <2>1
    <3> HIDE DEF i
    <3> QED BY <1>2, <3>1 DEF i
  <2>2. k \in 1 .. m - l + 1 => k \in 1 .. (m + n) - l + 1
    BY <1>2, <1>3
  <2>3. k \in R => k \in 1 .. m - l + 1
    BY <1>1, <1>2, <1>3, <1>5, <1>9
  <2> QED BY <1>4, <1>5, <2>1, <2>2, <2>3
<1>10. ASSUME NEW k \in Nat \ {0} PROVE m + k \in R <=> k \in Q
  <2>1. ASSUME k \in 1 .. n - l + 1, NEW j \in 1 .. l PROVE st[(m + k) + j - 1] = t[k + j - 1]
    <3> DEFINE i == (m + k) + j - 1
    <3>1. i \in 1 .. m + n /\ ~ (i =< m) /\ i - m = k + j - 1
      BY <1>2, <1>3, <2>1
    <3> HIDE DEF i
    <3> QED BY <1>2, <3>1 DEF i
  <2>2. m + k \in 1 .. (m + n) - l + 1 <=> k \in 1 .. n - l + 1
    BY <1>2, <1>3
  <2> QED BY <1>4, <1>5, <2>1, <2>2
<1>11. ASSUME NEW i \in 1 .. m PROVE h[i] = f[i]
  <2>1. i \in R <=> i \in P
    BY <1>2, <1>9
  <2>2. Covered(R, old, i) <=> Covered(P, old, i)
    <3>1. ASSUME NEW k, k < i, k \in R PROVE k \in P
      BY <1>2, <1>5, <1>9, <3>1
    <3>2. ASSUME NEW k, k < i, k \in P PROVE k \in R
      BY <1>2, <1>4, <1>9, <3>2
    <3> QED BY <3>1, <3>2 DEF Covered
  <2>3. i \in 1 .. Len(st) /\ st[i] = s[i]
    BY <1>2
  <2> QED BY <1>6, <2>1, <2>2, <2>3
<1>12. ASSUME NEW i \in 1 .. n PROVE h[m + i] = g[i]
  <2>1. m + i \in R <=> i \in Q
    BY <1>2, <1>10
  <2>2. Covered(R, old, m + i) <=> Covered(Q, old, i)
    <3>1. ASSUME NEW k \in R, k < m + i, m + i < k + l PROVE \E q \in Q : q < i /\ i < q + l
      <4>1. k \in Nat /\ k > m
        BY SMTT(30), <1>1, <1>2, <1>3, <1>5, <3>1
      <4> DEFINE q == k - m
      <4>2. q \in Nat \ {0} /\ m + q = k /\ q < i /\ i < q + l
        BY <1>2, <1>3, <3>1, <4>1
      <4> HIDE DEF q
      <4>3. q \in Q
        BY <1>10, <3>1, <4>2
      <4> QED BY <4>2, <4>3
    <3>2. ASSUME NEW k \in Q, k < i, i < k + l PROVE \E q \in R : q < m + i /\ m + i < q + l
      <4>1. k \in Nat \ {0}
        BY <1>2, <1>3, <1>4
      <4> DEFINE q == m + k
      <4>2. q \in R
        BY <1>10, <4>1
      <4>3. q < m + i /\ m + i < q + l
        BY <1>2, <1>3, <3>2, <4>1
      <4> HIDE DEF q
      <4> QED BY <4>2, <4>3
    <3>3. Covered(R, old, m + i) <=> \E k \in R : k < m + i /\ m + i < k + l
      BY DEF Covered, l
    <3>4. Covered(Q, old, i) <=> \E k \in Q : k < i /\ i < k + l
      BY DEF Covered, l
    <3> QED BY <3>1, <3>2, <3>3, <3>4
  <2>3. m + i \in 1 .. Len(st) /\ st[m + i] = t[i]
    <3> DEFINE j == m + i
    <3>1. j \in 1 .. m + n /\ ~ (j =< m) /\ j - m = i
      BY <1>2
    <3> HIDE DEF j
    <3> QED BY <1>2, <3>1 DEF j
  <2> QED BY <1>6, <2>1, <2>2, <2>3
<1>13. RowBehind(S, m, n, f, g, h)
  BY <1>2, <1>7, <1>8, <1>11, <1>12 DEF RowBehind
<1>14. FlattenSeq(h) = FlattenSeq(f) \o FlattenSeq(g)
  BY <1>13, FlattenedJoin
<1> QED BY <1>7, <1>8, <1>14 DEF st

-------------------------------------------------------------------------------
(* What the filter makes of escapes and entities                            *)

\* The signs of the entities, and all that the text of a packet is written with.
Letters == {"&", ";", "<", ">", "\"", "'", "q", "u", "o", "t", "b", "r", " ", "/", "g", "l", "#",
            "0", "3", "9", "a", "m", "p"}
Glyph == Octet \cup Letters

\* What an entity is, and what stands for it.
Entity(e) == /\ Singular(Glyph, e[1]) /\ e[1][1] \in {"&", "<"}
             /\ e[2] \in Seq(Glyph) /\ Len(e[2]) =< 1

\* The six entities.
LEMMA EntitiesAre == Len(Entities) = 6 /\ DOMAIN Entities = 1 .. 6 /\ \A i \in 1 .. 6 : Entity(Entities[i])
<1> DEFINE One(i) == \E b \in Letters : Entities[i][2] = <<b>>
<1>1. Len(Entities) = 6 /\ DOMAIN Entities = 1 .. 6
  BY DEF Entities
<1>2. /\ Entities[1][2] = <<"\"">> /\ Entities[2][2] = <<>> /\ Entities[3][2] = <<">">>
      /\ Entities[4][2] = <<"<">> /\ Entities[5][2] = <<"'">> /\ Entities[6][2] = <<"&">>
  BY DEF Entities
<1>3. One(1) /\ One(3) /\ One(4) /\ One(5) /\ One(6)
  BY <1>2, Zenon DEF Letters
<1>4. ASSUME NEW i \in 1 .. 6 PROVE Entities[i][2] \in Seq(Glyph) /\ Len(Entities[i][2]) =< 1
  <2>1. CASE i = 2
    <3>1. <<>> \in Seq(Glyph) /\ Len(<<>>) = 0
      OBVIOUS
    <3> DEFINE t == Entities[i][2]
    <3>2. t = <<>>
      BY <1>2, <2>1
    <3> HIDE DEF t
    <3>3. t \in Seq(Glyph) /\ Len(t) =< 1
      BY <3>1, <3>2
    <3> QED BY <3>3 DEF t
  <2>2. CASE i # 2
    <3>1. One(i)
      <4>1. i = 1 \/ i = 3 \/ i = 4 \/ i = 5 \/ i = 6
        BY <2>2
      <4> HIDE DEF One
      <4> QED BY <1>3, <4>1
    <3>2. PICK b \in Letters : Entities[i][2] = <<b>>
      BY <3>1
    <3>3. b \in Glyph
      BY DEF Glyph
    <3>4. <<b>> \in Seq(Glyph) /\ Len(<<b>>) = 1
      BY <3>3
    <3> QED BY <3>2, <3>4
  <2> QED BY <2>1, <2>2
<1> DEFINE Name(e) == Singular(Glyph, e) /\ e[1] \in {"&", "<"}
<1>5. \A s : s \in Letters => s \in Glyph
  BY DEF Glyph
<1>6. /\ "&" \in Letters /\ ";" \in Letters /\ "<" \in Letters /\ ">" \in Letters /\ "q" \in Letters
      /\ "u" \in Letters /\ "o" \in Letters /\ "t" \in Letters /\ "b" \in Letters /\ "r" \in Letters
      /\ " " \in Letters /\ "/" \in Letters /\ "g" \in Letters /\ "l" \in Letters /\ "#" \in Letters
      /\ "0" \in Letters /\ "3" \in Letters /\ "9" \in Letters /\ "a" \in Letters /\ "m" \in Letters
      /\ "p" \in Letters
  BY Zenon DEF Letters
<1>7. Name(Entities[1][1])
  <2> DEFINE e == Entities[1][1]
  <2>1. e = <<"&", "q", "u", "o", "t", ";">>
    BY DEF Entities
  <2> HIDE DEF e
  <2>2. {"&", "q", "u", "o", "t", ";"} \subseteq Glyph
    BY <1>5, <1>6
  <2>3. Row6(Glyph, e, "&", "q", "u", "o", "t", ";")
    BY <2>1, <2>2, Zenon DEF Row6
  <2>4. Singular(Glyph, e) /\ e[1] = "&"
    BY <2>3, SingularSix
  <2> QED BY <2>4 DEF e
<1>8. Name(Entities[2][1])
  <2> DEFINE e == Entities[2][1]
  <2>1. e = <<"<", "b", "r", " ", "/", ">">>
    BY DEF Entities
  <2> HIDE DEF e
  <2>2. {"<", "b", "r", " ", "/", ">"} \subseteq Glyph
    BY <1>5, <1>6
  <2>3. Row6(Glyph, e, "<", "b", "r", " ", "/", ">")
    BY <2>1, <2>2, Zenon DEF Row6
  <2>4. Singular(Glyph, e) /\ e[1] = "<"
    BY <2>3, SingularSix
  <2> QED BY <2>4 DEF e
<1>9. Name(Entities[3][1])
  <2> DEFINE e == Entities[3][1]
  <2>1. e = <<"&", "g", "t", ";">>
    BY DEF Entities
  <2> HIDE DEF e
  <2>2. {"&", "g", "t", ";"} \subseteq Glyph
    BY <1>5, <1>6
  <2>3. Row4(Glyph, e, "&", "g", "t", ";")
    BY <2>1, <2>2, Zenon DEF Row4
  <2>4. Singular(Glyph, e) /\ e[1] = "&"
    BY <2>3, SingularFour
  <2> QED BY <2>4 DEF e
<1>10. Name(Entities[4][1])
  <2> DEFINE e == Entities[4][1]
  <2>1. e = <<"&", "l", "t", ";">>
    BY DEF Entities
  <2> HIDE DEF e
  <2>2. {"&", "l", "t", ";"} \subseteq Glyph
    BY <1>5, <1>6
  <2>3. Row4(Glyph, e, "&", "l", "t", ";")
    BY <2>1, <2>2, Zenon DEF Row4
  <2>4. Singular(Glyph, e) /\ e[1] = "&"
    BY <2>3, SingularFour
  <2> QED BY <2>4 DEF e
<1>11. Name(Entities[5][1])
  <2> DEFINE e == Entities[5][1]
  <2>1. e = <<"&", "#", "0", "3", "9", ";">>
    BY DEF Entities
  <2> HIDE DEF e
  <2>2. {"&", "#", "0", "3", "9", ";"} \subseteq Glyph
    BY <1>5, <1>6
  <2>3. Row6(Glyph, e, "&", "#", "0", "3", "9", ";")
    BY <2>1, <2>2, Zenon DEF Row6
  <2>4. Singular(Glyph, e) /\ e[1] = "&"
    BY <2>3, SingularSix
  <2> QED BY <2>4 DEF e
<1>12. Name(Entities[6][1])
  <2> DEFINE e == Entities[6][1]
  <2>1. e = <<"&", "a", "m", "p", ";">>
    BY DEF Entities
  <2> HIDE DEF e
  <2>2. {"&", "a", "m", "p", ";"} \subseteq Glyph
    BY <1>5, <1>6
  <2>3. Row5(Glyph, e, "&", "a", "m", "p", ";")
    BY <2>1, <2>2, Zenon DEF Row5
  <2>4. Singular(Glyph, e) /\ e[1] = "&"
    BY <2>3, SingularFive
  <2> QED BY <2>4 DEF e
<1> HIDE DEF Name
<1>13. ASSUME NEW i \in 1 .. 6 PROVE Name(Entities[i][1])
  <2>1. i = 1 \/ i = 2 \/ i = 3 \/ i = 4 \/ i = 5 \/ i = 6
    OBVIOUS
  <2> QED BY <1>7, <1>8, <1>9, <1>10, <1>11, <1>12, <2>1
<1> QED BY <1>1, <1>4, <1>13 DEF Entity, Name

\* The digits of the escapes, and which escape has two of them.
Digit == {"0", "1", "2", "3", "4", "5", "6", "7", "8", "9", "a", "b", "c", "d", "e", "f"}

Numbered(x, y) ==
    CASE x = "2" /\ y = "0" -> 1
      [] x = "0" /\ y = "a" -> 2
      [] x = "0" /\ y = "d" -> 3
      [] x = "3" /\ y = "c" -> 4
      [] x = "2" /\ y = "6" -> 5
      [] x = "2" /\ y = "2" -> 6
      [] x = "3" /\ y = "e" -> 7
      [] x = "2" /\ y = "7" -> 8
      [] x = "2" /\ y = "5" -> 9
      [] x = "2" /\ y = "b" -> 10
      [] x = "2" /\ y = "8" -> 11
      [] x = "2" /\ y = "f" -> 12
      [] x = "5" /\ y = "b" -> 13
      [] x = "3" /\ y = "a" -> 14
      [] x = "2" /\ y = "d" -> 15
      [] x = "5" /\ y = "d" -> 16
      [] x = "0" /\ y = "0" -> 17
      [] x = "f" /\ y = "d" -> 18
      [] x = "f" /\ y = "f" -> 19
      [] x = "5" /\ y = "c" -> 20

\* The twenty rows differ in their digits.
LEMMA DigitTable ==
    \A n \in 1 .. 20 : /\ EscapedBytes[n][2] \in Digit /\ EscapedBytes[n][3] \in Digit
                       /\ Numbered(EscapedBytes[n][2], EscapedBytes[n][3]) = n
<1> DEFINE Entry(n) == /\ EscapedBytes[n][2] \in Digit /\ EscapedBytes[n][3] \in Digit
                       /\ Numbered(EscapedBytes[n][2], EscapedBytes[n][3]) = n
<1>1. Entry(1)
  <2>1. EscapedBytes[1][2] = "2" /\ EscapedBytes[1][3] = "0"
    BY Zenon DEF EscapedBytes
  <2>2. "2" \in Digit /\ "0" \in Digit
    BY DEF Digit
  <2>3. Numbered("2", "0") = 1
    BY DEF Numbered
  <2> QED BY <2>1, <2>2, <2>3
<1>2. Entry(2)
  <2>1. EscapedBytes[2][2] = "0" /\ EscapedBytes[2][3] = "a"
    BY Zenon DEF EscapedBytes
  <2>2. "0" \in Digit /\ "a" \in Digit
    BY DEF Digit
  <2>3. Numbered("0", "a") = 2
    BY DEF Numbered
  <2> QED BY <2>1, <2>2, <2>3
<1>3. Entry(3)
  <2>1. EscapedBytes[3][2] = "0" /\ EscapedBytes[3][3] = "d"
    BY Zenon DEF EscapedBytes
  <2>2. "0" \in Digit /\ "d" \in Digit
    BY DEF Digit
  <2>3. Numbered("0", "d") = 3
    BY DEF Numbered
  <2> QED BY <2>1, <2>2, <2>3
<1>4. Entry(4)
  <2>1. EscapedBytes[4][2] = "3" /\ EscapedBytes[4][3] = "c"
    BY Zenon DEF EscapedBytes
  <2>2. "3" \in Digit /\ "c" \in Digit
    BY DEF Digit
  <2>3. Numbered("3", "c") = 4
    BY DEF Numbered
  <2> QED BY <2>1, <2>2, <2>3
<1>5. Entry(5)
  <2>1. EscapedBytes[5][2] = "2" /\ EscapedBytes[5][3] = "6"
    BY Zenon DEF EscapedBytes
  <2>2. "2" \in Digit /\ "6" \in Digit
    BY DEF Digit
  <2>3. Numbered("2", "6") = 5
    BY DEF Numbered
  <2> QED BY <2>1, <2>2, <2>3
<1>6. Entry(6)
  <2>1. EscapedBytes[6][2] = "2" /\ EscapedBytes[6][3] = "2"
    BY Zenon DEF EscapedBytes
  <2>2. "2" \in Digit /\ "2" \in Digit
    BY DEF Digit
  <2>3. Numbered("2", "2") = 6
    BY DEF Numbered
  <2> QED BY <2>1, <2>2, <2>3
<1>7. Entry(7)
  <2>1. EscapedBytes[7][2] = "3" /\ EscapedBytes[7][3] = "e"
    BY Zenon DEF EscapedBytes
  <2>2. "3" \in Digit /\ "e" \in Digit
    BY DEF Digit
  <2>3. Numbered("3", "e") = 7
    BY DEF Numbered
  <2> QED BY <2>1, <2>2, <2>3
<1>8. Entry(8)
  <2>1. EscapedBytes[8][2] = "2" /\ EscapedBytes[8][3] = "7"
    BY Zenon DEF EscapedBytes
  <2>2. "2" \in Digit /\ "7" \in Digit
    BY DEF Digit
  <2>3. Numbered("2", "7") = 8
    BY DEF Numbered
  <2> QED BY <2>1, <2>2, <2>3
<1>9. Entry(9)
  <2>1. EscapedBytes[9][2] = "2" /\ EscapedBytes[9][3] = "5"
    BY Zenon DEF EscapedBytes
  <2>2. "2" \in Digit /\ "5" \in Digit
    BY DEF Digit
  <2>3. Numbered("2", "5") = 9
    BY DEF Numbered
  <2> QED BY <2>1, <2>2, <2>3
<1>10. Entry(10)
  <2>1. EscapedBytes[10][2] = "2" /\ EscapedBytes[10][3] = "b"
    BY Zenon DEF EscapedBytes
  <2>2. "2" \in Digit /\ "b" \in Digit
    BY DEF Digit
  <2>3. Numbered("2", "b") = 10
    BY DEF Numbered
  <2> QED BY <2>1, <2>2, <2>3
<1>11. Entry(11)
  <2>1. EscapedBytes[11][2] = "2" /\ EscapedBytes[11][3] = "8"
    BY Zenon DEF EscapedBytes
  <2>2. "2" \in Digit /\ "8" \in Digit
    BY DEF Digit
  <2>3. Numbered("2", "8") = 11
    BY DEF Numbered
  <2> QED BY <2>1, <2>2, <2>3
<1>12. Entry(12)
  <2>1. EscapedBytes[12][2] = "2" /\ EscapedBytes[12][3] = "f"
    BY Zenon DEF EscapedBytes
  <2>2. "2" \in Digit /\ "f" \in Digit
    BY DEF Digit
  <2>3. Numbered("2", "f") = 12
    BY DEF Numbered
  <2> QED BY <2>1, <2>2, <2>3
<1>13. Entry(13)
  <2>1. EscapedBytes[13][2] = "5" /\ EscapedBytes[13][3] = "b"
    BY Zenon DEF EscapedBytes
  <2>2. "5" \in Digit /\ "b" \in Digit
    BY DEF Digit
  <2>3. Numbered("5", "b") = 13
    BY DEF Numbered
  <2> QED BY <2>1, <2>2, <2>3
<1>14. Entry(14)
  <2>1. EscapedBytes[14][2] = "3" /\ EscapedBytes[14][3] = "a"
    BY Zenon DEF EscapedBytes
  <2>2. "3" \in Digit /\ "a" \in Digit
    BY DEF Digit
  <2>3. Numbered("3", "a") = 14
    BY DEF Numbered
  <2> QED BY <2>1, <2>2, <2>3
<1>15. Entry(15)
  <2>1. EscapedBytes[15][2] = "2" /\ EscapedBytes[15][3] = "d"
    BY Zenon DEF EscapedBytes
  <2>2. "2" \in Digit /\ "d" \in Digit
    BY DEF Digit
  <2>3. Numbered("2", "d") = 15
    BY DEF Numbered
  <2> QED BY <2>1, <2>2, <2>3
<1>16. Entry(16)
  <2>1. EscapedBytes[16][2] = "5" /\ EscapedBytes[16][3] = "d"
    BY Zenon DEF EscapedBytes
  <2>2. "5" \in Digit /\ "d" \in Digit
    BY DEF Digit
  <2>3. Numbered("5", "d") = 16
    BY DEF Numbered
  <2> QED BY <2>1, <2>2, <2>3
<1>17. Entry(17)
  <2>1. EscapedBytes[17][2] = "0" /\ EscapedBytes[17][3] = "0"
    BY Zenon DEF EscapedBytes
  <2>2. "0" \in Digit /\ "0" \in Digit
    BY DEF Digit
  <2>3. Numbered("0", "0") = 17
    BY DEF Numbered
  <2> QED BY <2>1, <2>2, <2>3
<1>18. Entry(18)
  <2>1. EscapedBytes[18][2] = "f" /\ EscapedBytes[18][3] = "d"
    BY Zenon DEF EscapedBytes
  <2>2. "f" \in Digit /\ "d" \in Digit
    BY DEF Digit
  <2>3. Numbered("f", "d") = 18
    BY DEF Numbered
  <2> QED BY <2>1, <2>2, <2>3
<1>19. Entry(19)
  <2>1. EscapedBytes[19][2] = "f" /\ EscapedBytes[19][3] = "f"
    BY Zenon DEF EscapedBytes
  <2>2. "f" \in Digit /\ "f" \in Digit
    BY DEF Digit
  <2>3. Numbered("f", "f") = 19
    BY DEF Numbered
  <2> QED BY <2>1, <2>2, <2>3
<1>20. Entry(20)
  <2>1. EscapedBytes[20][2] = "5" /\ EscapedBytes[20][3] = "c"
    BY Zenon DEF EscapedBytes
  <2>2. "5" \in Digit /\ "c" \in Digit
    BY DEF Digit
  <2>3. Numbered("5", "c") = 20
    BY DEF Numbered
  <2> QED BY <2>1, <2>2, <2>3
<1> HIDE DEF Entry
<1>21. \A n \in 1 .. 20 : Entry(n)
  BY <1>1, <1>2, <1>3, <1>4, <1>5, <1>6, <1>7, <1>8, <1>9, <1>10,
     <1>11, <1>12, <1>13, <1>14, <1>15, <1>16, <1>17, <1>18, <1>19, <1>20
<1> QED BY <1>21 DEF Entry

\* An escape begins with a sign that it has nowhere else, ends with another, and no
\* other has its digits.
LEMMA EscapeRead ==
    ASSUME NEW n \in 1 .. 20
    PROVE  /\ Singular(Octet, Escape(n)) /\ Len(Escape(n)) = 4
           /\ Escape(n)[1] = "$" /\ Escape(n)[4] = ";"
           /\ Escape(n)[2] \in Digit /\ Escape(n)[3] \in Digit
           /\ \A m \in 1 .. 20 :
                Escape(n)[2] = Escape(m)[2] /\ Escape(n)[3] = Escape(m)[3] => m = n
<1> DEFINE X(m) == EscapedBytes[m][2]
           Y(m) == EscapedBytes[m][3]
<1>1. \A m \in 1 .. 20 : X(m) \in Digit /\ Y(m) \in Digit /\ Numbered(X(m), Y(m)) = m
  BY DigitTable
<1>2. ASSUME NEW m \in 1 .. 20
      PROVE  /\ Escape(m) = <<"$", X(m), Y(m), ";">> /\ Escape(m)[2] = X(m) /\ Escape(m)[3] = Y(m)
             /\ Escape(m)[4] = ";"
  <2> DEFINE x == X(m)
             y == Y(m)
  <2>1. Escape(m) = <<"$", x, y, ";">>
    BY DEF Escape
  <2> HIDE DEF x, y
  <2>2. Escape(m)[2] = x /\ Escape(m)[3] = y /\ Escape(m)[4] = ";"
    <3> DEFINE e == Escape(m)
    <3>1. e = <<"$", x, y, ";">>
      BY <2>1
    <3> HIDE DEF e
    <3>2. e[2] = x /\ e[3] = y /\ e[4] = ";"
      BY <3>1
    <3> QED BY <3>2 DEF e
  <2> QED BY <2>1, <2>2 DEF x, y
<1> HIDE DEF X, Y
<1>3. ASSUME NEW m \in 1 .. 20, Escape(n)[2] = Escape(m)[2], Escape(n)[3] = Escape(m)[3] PROVE m = n
  BY <1>1, <1>2, <1>3
<1>4. Row4(Octet, Escape(n), "$", X(n), Y(n), ";")
  <2>1. "$" \notin Digit /\ "$" # ";"
    BY DEF Digit
  <2>2. "$" \in Octet /\ ";" \in Octet
    BY DEF Octet, Signs
  <2>3. Digit \subseteq Octet
    BY DEF Digit, Octet, Signs
  <2> QED BY <1>1, <1>2, <2>1, <2>2, <2>3 DEF Row4
<1>5. Singular(Octet, Escape(n))
  BY <1>4, SingularFour
<1> QED BY <1>1, <1>2, <1>3, <1>5, EscapeIs

\* The two loops of ReplaceHtmlCode, and the texts they go through.
WithoutEntities(d) == FoldLeft(LAMBDA s, e : Replaced(s, e[1], e[2]), d, Entities)
WithoutEscapes(d, at) == FoldLeft(LAMBDA s, n : Replaced(s, Escape(n), <<ByteAt(n)>>), d, at)

TurnsEntities(S, e, d) ==
    /\ e \in [0 .. 6 -> Seq(S)] /\ e[0] = d
    /\ \A i \in 1 .. 6 : e[i] = Replaced(e[i - 1], Entities[i][1], Entities[i][2])
TurnsEscapes(S, r, d) ==
    /\ r \in [0 .. 20 -> Seq(S)] /\ r[0] = d
    /\ \A i \in 1 .. 20 : r[i] = Replaced(r[i - 1], Escape(i), <<ByteAt(i)>>)

\* The first loop goes through the entities one by one.
LEMMA EntityTurns ==
    ASSUME NEW S, Glyph \subseteq S, NEW base \in Seq(S)
    PROVE  \E e : TurnsEntities(S, e, base) /\ WithoutEntities(base) = e[6]
<1> DEFINE T == Seq(S)
           n == 6
           Put(t, e) == Replaced(t, e[1], e[2])
           F(it) == [s \in SUBSET DOMAIN Entities |->
                       IF s = {} THEN base ELSE Put(it[s \ {Max(s)}], Entities[Max(s)])]
           step == [p \in T \X (1 .. n) |-> Put(p[1], Entities[p[2]])]
<1>1. n \in Nat /\ DOMAIN Entities = 1 .. n /\ base \in T
  BY EntitiesAre
<1>2. ASSUME NEW t \in T, NEW i \in 1 .. n PROVE Put(t, Entities[i]) \in T
  <2>1. Entity(Entities[i])
    BY EntitiesAre
  <2>2. Singular(S, Entities[i][1]) /\ Entities[i][2] \in Seq(S)
    BY <2>1, MoreSigns, MoreSingular DEF Entity
  <2> QED BY <2>2, ReplacedText
<1>3. step \in Steps(T, n)
  <2> HIDE DEF Put, T, n
  <2> QED BY <1>2 DEF Steps
<1>4. WithoutEntities(base) = (CHOOSE it : it = F(it))[DOMAIN Entities]
  BY Zenon DEF FoldLeft, MapThenFoldSet, WithoutEntities
<1> HIDE DEF T, n
<1>5. \E it : it = F(it)
  <2> HIDE DEF step
  <2>1. PICK it : Unrolled(it, T, base, n, step)
    BY <1>1, <1>3, FoldExists
  <2> HIDE DEF Put
  <2>2. ASSUME NEW s \in SUBSET (1 .. n)
        PROVE  it[s] = IF s = {} THEN base ELSE Put(it[s \ {Max(s)}], Entities[Max(s)])
    <3>1. CASE s = {}
      BY <2>1, <3>1 DEF FoldAt, Unrolled
    <3>2. CASE s # {}
      <4>1. it[s \ {Max(s)}] \in T /\ Max(s) \in 1 .. n
        BY <1>1, <2>1, <3>2, MaxIndex DEF Unrolled
      <4>2. it[s] = step[<<it[s \ {Max(s)}], Max(s)>>]
        BY <2>1, <3>2 DEF FoldAt, Unrolled
      <4> QED BY <3>2, <4>1, <4>2 DEF step
    <3> QED BY <3>1, <3>2
  <2>3. it = F(it)
    BY <1>1, <2>1, <2>2 DEF Unrolled
  <2> HIDE DEF F
  <2> QED BY <2>3
<1>6. PICK it : it = F(it) /\ WithoutEntities(base) = it[DOMAIN Entities]
  <2> HIDE DEF F
  <2> QED BY <1>4, <1>5, Zenon
<1> HIDE DEF Put
<1>7. Unrolls(it, T, base, n, step)
  <2>1. it[{}] = base
    BY <1>6
  <2>2. ASSUME NEW s \in SUBSET (1 .. n), s # {}, it[s \ {Max(s)}] \in T
        PROVE  it[s] = step[<<it[s \ {Max(s)}], Max(s)>>]
    <3>1. it[s] = Put(it[s \ {Max(s)}], Entities[Max(s)]) /\ Max(s) \in 1 .. n
      BY <1>1, <1>6, <2>2, MaxIndex
    <3> QED BY <2>2, <3>1
  <2> HIDE DEF step, F
  <2> QED BY <2>1, <2>2 DEF Unrolls
<1> HIDE DEF F
<1> HIDE DEF step
<1>8. Sums(it, T, base, n, step)
  BY <1>1, <1>3, <1>7, FoldSteps
<1>9. PICK r : Accumulates(r, T, base, n, step) /\ it[1 .. n] = r[n]
  BY <1>8 DEF Sums
<1>10. \A i \in 1 .. n : r[i] = Replaced(r[i - 1], Entities[i][1], Entities[i][2])
  <2> SUFFICES ASSUME NEW i \in 1 .. n PROVE r[i] = Replaced(r[i - 1], Entities[i][1], Entities[i][2])
    OBVIOUS
  <2>1. r[i - 1] \in T /\ r[i] = step[<<r[i - 1], i>>]
    BY <1>1, <1>9 DEF Accumulates
  <2>2. r[i] = Put(r[i - 1], Entities[i])
    BY <2>1 DEF step
  <2> QED BY <2>2 DEF Put
<1>11. r \in [0 .. n -> T] /\ r[0] = base /\ WithoutEntities(base) = r[n]
  BY <1>1, <1>6, <1>9 DEF Accumulates
<1> QED BY <1>10, <1>11 DEF T, n, TurnsEntities

\* The second loop goes through the escapes.
LEMMA EscapeTurns ==
    ASSUME NEW S, Glyph \subseteq S, NEW base \in Seq(S), NEW at, at = [n \in Escapes |-> n]
    PROVE  \E r : TurnsEscapes(S, r, base) /\ WithoutEscapes(base, at) = r[20]
<1>0. \A i \in 1 .. 20 : at[i] = i
  BY EscapeTable
<1> DEFINE T == Seq(S)
           n == 20
           Put(t, e) == Replaced(t, Escape(e), <<ByteAt(e)>>)
           F(it) == [s \in SUBSET DOMAIN at |->
                       IF s = {} THEN base ELSE Put(it[s \ {Max(s)}], at[Max(s)])]
           step == [p \in T \X (1 .. n) |-> Put(p[1], at[p[2]])]
<1>1. n \in Nat /\ DOMAIN at = 1 .. n /\ base \in T
  BY EscapeTable
<1>2. ASSUME NEW t \in T, NEW i \in 1 .. n PROVE Put(t, at[i]) \in T
  <2>1. Singular(S, Escape(i)) /\ <<ByteAt(i)>> \in Seq(S)
    <3>1. Octet \subseteq S
      BY DEF Glyph
    <3>2. Singular(Octet, Escape(i)) /\ ByteAt(i) \in Octet
      BY EscapeRead, EscapeIs
    <3> QED BY <3>1, <3>2, MoreSingular
  <2>2. at[i] = i
    BY <1>0
  <2> QED BY <2>1, <2>2, ReplacedText
<1>3. step \in Steps(T, n)
  <2> HIDE DEF Put, T, n
  <2> QED BY <1>2 DEF Steps
<1>4. WithoutEscapes(base, at) = (CHOOSE it : it = F(it))[DOMAIN at]
  BY Zenon DEF FoldLeft, MapThenFoldSet, WithoutEscapes
<1> HIDE DEF T, n
<1>5. \E it : it = F(it)
  <2> HIDE DEF step
  <2>1. PICK it : Unrolled(it, T, base, n, step)
    BY <1>1, <1>3, FoldExists
  <2> HIDE DEF Put
  <2>2. ASSUME NEW s \in SUBSET (1 .. n)
        PROVE  it[s] = IF s = {} THEN base ELSE Put(it[s \ {Max(s)}], at[Max(s)])
    <3>1. CASE s = {}
      BY <2>1, <3>1 DEF FoldAt, Unrolled
    <3>2. CASE s # {}
      <4>1. it[s \ {Max(s)}] \in T /\ Max(s) \in 1 .. n
        BY <1>1, <2>1, <3>2, MaxIndex DEF Unrolled
      <4>2. it[s] = step[<<it[s \ {Max(s)}], Max(s)>>]
        BY <2>1, <3>2 DEF FoldAt, Unrolled
      <4> QED BY <3>2, <4>1, <4>2 DEF step
    <3> QED BY <3>1, <3>2
  <2>3. it = F(it)
    BY <1>1, <2>1, <2>2 DEF Unrolled
  <2> HIDE DEF F
  <2> QED BY <2>3
<1>6. PICK it : it = F(it) /\ WithoutEscapes(base, at) = it[DOMAIN at]
  <2> HIDE DEF F
  <2> QED BY <1>4, <1>5, Zenon
<1> HIDE DEF Put
<1>7. Unrolls(it, T, base, n, step)
  <2>1. it[{}] = base
    BY <1>6
  <2>2. ASSUME NEW s \in SUBSET (1 .. n), s # {}, it[s \ {Max(s)}] \in T
        PROVE  it[s] = step[<<it[s \ {Max(s)}], Max(s)>>]
    <3>1. it[s] = Put(it[s \ {Max(s)}], at[Max(s)]) /\ Max(s) \in 1 .. n
      BY <1>1, <1>6, <2>2, MaxIndex
    <3> QED BY <2>2, <3>1
  <2> HIDE DEF step, F
  <2> QED BY <2>1, <2>2 DEF Unrolls
<1> HIDE DEF F
<1> HIDE DEF step
<1>8. Sums(it, T, base, n, step)
  BY <1>1, <1>3, <1>7, FoldSteps
<1>9. PICK r : Accumulates(r, T, base, n, step) /\ it[1 .. n] = r[n]
  BY <1>8 DEF Sums
<1>10. \A i \in 1 .. n : r[i] = Replaced(r[i - 1], Escape(i), <<ByteAt(i)>>)
  <2> SUFFICES ASSUME NEW i \in 1 .. n PROVE r[i] = Replaced(r[i - 1], Escape(i), <<ByteAt(i)>>)
    OBVIOUS
  <2>1. r[i - 1] \in T /\ r[i] = step[<<r[i - 1], i>>]
    BY <1>1, <1>9 DEF Accumulates
  <2>2. r[i] = Put(r[i - 1], at[i])
    BY <2>1 DEF step
  <2>3. i \in 1 .. 20
    BY DEF n
  <2>4. at[i] = i
    BY <1>0, <2>3
  <2> QED BY <2>2, <2>4 DEF Put
<1>11. r \in [0 .. n -> T] /\ r[0] = base /\ WithoutEscapes(base, at) = r[n]
  BY <1>1, <1>6, <1>9 DEF Accumulates
<1> QED BY <1>10, <1>11 DEF T, n, TurnsEscapes

\* The texts that ReplaceHtmlCode goes through.
LEMMA HtmlTurns ==
    ASSUME NEW S, Glyph \subseteq S, NEW d \in Seq(S)
    PROVE  \E e, r : TurnsEntities(S, e, d) /\ TurnsEscapes(S, r, e[6]) /\ ReplaceHtmlCode(d) = r[20]
<1> DEFINE at == [n \in Escapes |-> n]
<1>1. ReplaceHtmlCode(d) = WithoutEscapes(WithoutEntities(d), at)
  BY Zenon DEF ReplaceHtmlCode, WithoutEscapes, WithoutEntities
<1>2. PICK e : TurnsEntities(S, e, d) /\ WithoutEntities(d) = e[6]
  BY EntityTurns
<1>3. e[6] \in Seq(S)
  BY <1>2 DEF TurnsEntities
<1> DEFINE base == e[6]
<1> HIDE DEF base
<1>4. \E r : TurnsEscapes(S, r, base) /\ WithoutEscapes(base, at) = r[20]
  BY <1>3, EscapeTurns DEF base
<1> QED BY <1>1, <1>2, <1>4 DEF base

-------------------------------------------------------------------------------
(* Escapes are read back                                                    *)

\* A text with one byte more.
LEMMA OneMore ==
    ASSUME NEW S, NEW s \in Seq(S), NEW x \in S
    PROVE  /\ Append(s, x) \in Seq(S) /\ Len(s) \in Nat /\ Len(Append(s, x)) = Len(s) + 1
           /\ Append(s, x)[Len(s) + 1] = x /\ \A i \in 1 .. Len(s) : Append(s, x)[i] = s[i]
           /\ Append(s, x) = s \o <<x>> /\ <<x>> \in Seq(S)
OBVIOUS

\* A text that is not empty has a last byte.
LEMMA LastByte ==
    ASSUME NEW S, NEW q \in Seq(S), Len(q) > 0
    PROVE  \E p \in Seq(S), x \in S : q = Append(p, x)
<1> DEFINE n == Len(q)
           p == [i \in 1 .. n - 1 |-> q[i]]
<1>1. n \in Nat /\ n > 0 /\ DOMAIN q = 1 .. n /\ \A i \in 1 .. n : q[i] \in S
  BY SeqIs
<1> HIDE DEF n
<1>2. p \in Seq(S) /\ Len(p) = n - 1 /\ q[n] \in S
  <2>1. n - 1 \in Nat /\ p \in [1 .. n - 1 -> S]
    BY <1>1
  <2> HIDE DEF p
  <2> QED BY <1>1, <2>1, IsSeq
<1>3. \A i \in 1 .. n - 1 : p[i] = q[i]
  OBVIOUS
<1> DEFINE x == q[n]
<1> HIDE DEF p
<1>4. q = Append(p, x)
  <2> DEFINE r == Append(p, x)
  <2>1. r \in Seq(S) /\ Len(r) = Len(p) + 1 /\ r[Len(p) + 1] = x /\ \A i \in 1 .. Len(p) : r[i] = p[i]
    BY <1>2, OneMore
  <2> HIDE DEF r
  <2>2. Len(r) = n /\ \A i \in 1 .. n : r[i] = q[i]
    BY <1>1, <1>2, <1>3, <2>1
  <2>3. q = r
    BY <1>1, <2>1, <2>2 DEF n
  <2> QED BY <2>3 DEF r
<1> QED BY <1>2, <1>4

\* What is still escaped when the first n escapes have been read.
EscapesFrom(n) ==
    [b \in Octet |-> IF \E m \in n + 1 .. 20 : ByteAt(m) = b
                     THEN Escape(CHOOSE m \in n + 1 .. 20 : ByteAt(m) = b) ELSE <<b>>]

\* A byte is written as it is, or with its escape.
LEMMA EscapesFromIs ==
    ASSUME NEW n \in 0 .. 20
    PROVE  /\ \A b \in Octet, m \in n + 1 .. 20 : ByteAt(m) = b => EscapesFrom(n)[b] = Escape(m)
           /\ \A b \in Octet : (\A m \in n + 1 .. 20 : ByteAt(m) # b) => EscapesFrom(n)[b] = <<b>>
           /\ EscapesFrom(n) \in [Octet -> Seq(Octet)]
<1>0. \A m \in n + 1 .. 20 : m \in 1 .. 20
  OBVIOUS
<1>1. ASSUME NEW b \in Octet, NEW m \in n + 1 .. 20, ByteAt(m) = b PROVE EscapesFrom(n)[b] = Escape(m)
  <2>1. \A k \in n + 1 .. 20 : ByteAt(k) = b => k = m
    BY <1>0, <1>1, EscapesDiffer
  <2>2. (CHOOSE k \in n + 1 .. 20 : ByteAt(k) = b) = m
    BY <1>1, <2>1
  <2>3. EscapesFrom(n)[b] = Escape(CHOOSE k \in n + 1 .. 20 : ByteAt(k) = b)
    BY <1>1 DEF EscapesFrom
  <2> QED BY <2>2, <2>3
<1>2. ASSUME NEW b \in Octet, \A m \in n + 1 .. 20 : ByteAt(m) # b PROVE EscapesFrom(n)[b] = <<b>>
  BY <1>2 DEF EscapesFrom
<1>3. ASSUME NEW b \in Octet PROVE EscapesFrom(n)[b] \in Seq(Octet)
  <2>1. CASE \E m \in n + 1 .. 20 : ByteAt(m) = b
    <3>1. PICK m \in n + 1 .. 20 : ByteAt(m) = b
      BY <2>1
    <3>2. EscapesFrom(n)[b] = Escape(m) /\ Escape(m) \in Seq(Octet)
      BY <1>0, <1>1, <3>1, EscapeIs
    <3> QED BY <3>2
  <2>2. CASE \A m \in n + 1 .. 20 : ByteAt(m) # b
    <3>1. <<b>> \in Seq(Octet)
      OBVIOUS
    <3> QED BY <1>2, <2>2, <3>1
  <2> QED BY <2>1, <2>2
<1>4. EscapesFrom(n) = [b \in Octet |-> EscapesFrom(n)[b]]
  BY DEF EscapesFrom
<1>5. EscapesFrom(n) \in [Octet -> Seq(Octet)]
  BY <1>3, <1>4
<1> QED BY <1>1, <1>2, <1>5

\* The sign at the end of an escape.
Ender == ";"

\* An escape is four signs, and where it ends.
LEMMA EscapeEnds ==
    ASSUME NEW n \in 1 .. 20
    PROVE  /\ Escape(n) \in Seq(Octet) /\ Len(Escape(n)) = 4 /\ Escape(n)[4] = Ender
           /\ \A j \in 2 .. 4 : Escape(n)[j] # Escape(n)[1]
           /\ Escape(n)[1] # Ender /\ Escape(n)[2] # Ender /\ Escape(n)[3] # Ender
<1>1. Escape(n)[4] = Ender
  BY EscapeRead, Zenon DEF Ender
<1>2. Escape(n) \in Seq(Octet) /\ Len(Escape(n)) = 4
  BY EscapeIs
<1>3. \A j \in 2 .. 4 : Escape(n)[j] # Escape(n)[1]
  <2>1. Singular(Octet, Escape(n))
    BY EscapeRead, Zenon
  <2> QED BY <1>2, <2>1 DEF Singular
<1>4. Escape(n)[2] \in Digit /\ Escape(n)[3] \in Digit
  BY EscapeRead, Zenon
<1>5. Ender \notin Digit
  BY Zenon DEF Ender, Digit
<1> QED BY <1>1, <1>2, <1>3, <1>4, <1>5

\* Where what is written does not end in a semicolon, its last byte is the text's.
EndsPlain(F, s, q, x) ==
    LET a == Spelled(F, s) IN
    /\ q \in Seq(Octet) /\ x \in Octet /\ s = Append(q, x) /\ x = a[Len(a)]
    /\ Len(Spelled(F, q)) = Len(a) - 1
    /\ \A i \in 1 .. Len(a) - 1 : Spelled(F, q)[i] = a[i]

\* Each byte is written as it is, or with an escape.
Writes(F) == /\ F \in [Octet -> Seq(Octet)]
             /\ \A b \in Octet : F[b] = <<b>> \/ \E m \in 1 .. 20 : F[b] = Escape(m)

\* So it is while the escapes are read one by one.
LEMMA EscapesFromWrites == ASSUME NEW n \in 0 .. 20 PROVE Writes(EscapesFrom(n))
<1>1. \A m \in n + 1 .. 20 : m \in 1 .. 20
  OBVIOUS
<1> QED BY <1>1, EscapesFromIs DEF Writes

\* So it is where each byte is written in one of these ways.
LEMMA EndingPlain ==
    ASSUME NEW K, Writes(K), NEW s \in Seq(Octet), NEW a \in Seq(Octet), a = Spelled(K, s),
           Len(a) > 0, a[Len(a)] # Ender
    PROVE  \E q, x : EndsPlain(K, s, q, x)
<1>0. K \in [Octet -> Seq(Octet)]
  BY DEF Writes
<1>1. Len(a) > 0 /\ a[Len(a)] # Ender
  OBVIOUS
<1>2. Len(s) > 0
  <2> SUFFICES ASSUME Len(s) = 0 PROVE FALSE
    OBVIOUS
  <2>1. s = <<>>
    OBVIOUS
  <2>2. a = <<>>
    BY <2>1, SpelledEmpty
  <2> QED BY <1>1, <2>2
<1>3. PICK q \in Seq(Octet), y \in Octet : s = Append(q, y)
  BY <1>2, LastByte
<1> DEFINE b == Spelled(K, q)
           e == K[y]
<1>4. b \in Seq(Octet) /\ a = b \o e /\ e \in Seq(Octet)
  BY <1>0, <1>3, SpelledAppend
<1>5. e = <<y>> \/ \E m \in 1 .. 20 : e = Escape(m)
  BY DEF Writes
<1> HIDE DEF b, e
<1>6. /\ Len(a) = Len(b) + Len(e) /\ Len(b) \in Nat /\ Len(e) \in Nat
      /\ \A i \in 1 .. Len(b) + Len(e) : a[i] = IF i =< Len(b) THEN b[i] ELSE e[i - Len(b)]
  BY <1>4, JoinIs
<1>7. CASE e = <<y>>
  <2>1. Len(e) = 1 /\ e[1] = y
    BY <1>7
  <2>2. Len(b) = Len(a) - 1 /\ y = a[Len(a)] /\ \A i \in 1 .. Len(a) - 1 : b[i] = a[i]
    BY <1>6, <2>1
  <2> QED BY <1>3, <2>2 DEF EndsPlain, b
<1>8. CASE \E m \in 1 .. 20 : e = Escape(m)
  <2>1. Len(e) = 4 /\ e[4] = Ender
    BY <1>8, EscapeEnds
  <2>2. a[Len(a)] = e[4]
    BY <1>6, <2>1
  <2> QED BY <1>1, <2>1, <2>2
<1> QED BY <1>5, <1>7, <1>8

\* Four signs, the last of which ends them, and the first of which begins them.
Mark(old) ==
    /\ Singular(Octet, old) /\ old \in Seq(Octet) /\ Len(old) = 4 /\ old[4] = Ender
    /\ \A j \in 2 .. 4 : old[j] # old[1]
    /\ old[1] # Ender /\ old[2] # Ender /\ old[3] # Ender /\ old[1] = "$"

\* An escape is such a mark.
LEMMA EscapeMarks == ASSUME NEW n \in 1 .. 20 PROVE Mark(Escape(n))
<1>1. Singular(Octet, Escape(n))
  BY EscapeRead, Zenon
<1> QED BY <1>1, EscapeEnds, EscapeIs DEF Mark

\* One byte of the text less, and of what is written.
Stepped(K, s, a, q, b) ==
    /\ q \in Seq(Octet) /\ b \in Seq(Octet) /\ b = Spelled(K, q)
    /\ Len(b) = Len(a) - 1 /\ \A i \in 1 .. Len(b) : b[i] = a[i]
    /\ Len(s) = Len(q) + 1 /\ s[Len(s)] = a[Len(a)] /\ \A i \in 1 .. Len(q) : s[i] = q[i]

\* Before an end that is none it is the same byte.
LEMMA StepBack ==
    ASSUME NEW K, Writes(K), NEW s \in Seq(Octet), NEW a \in Seq(Octet), a = Spelled(K, s),
           Len(a) > 0, a[Len(a)] # Ender
    PROVE  \E q, b : Stepped(K, s, a, q, b)
<1>1. PICK q, x : EndsPlain(K, s, q, x)
  BY EndingPlain
<1> DEFINE b == Spelled(K, q)
<1>2. /\ q \in Seq(Octet) /\ x \in Octet /\ s = Append(q, x) /\ x = a[Len(a)]
      /\ Len(b) = Len(a) - 1 /\ \A i \in 1 .. Len(a) - 1 : b[i] = a[i]
  BY <1>1 DEF EndsPlain
<1>3. b \in Seq(Octet)
  BY <1>2, SpelledIs DEF Writes
<1>4. b = Spelled(K, q)
  OBVIOUS
<1> HIDE DEF b
<1>5. Len(s) = Len(q) + 1 /\ s[Len(q) + 1] = x /\ \A i \in 1 .. Len(q) : s[i] = q[i]
  BY <1>2, OneMore
<1>6. Stepped(K, s, a, q, b)
  BY <1>2, <1>3, <1>4, <1>5 DEF Stepped
<1> QED BY <1>6

\* Three bytes before an end that is none are the text's own.
LEMMA ThreeBack ==
    ASSUME NEW K, Writes(K), NEW s \in Seq(Octet), NEW a \in Seq(Octet), a = Spelled(K, s),
           NEW n, n = Len(a), n > 2, a[n] # Ender, a[n - 1] # Ender, a[n - 2] # Ender
    PROVE  LET m == Len(s) IN m > 2 /\ s[m] = a[n] /\ s[m - 1] = a[n - 1] /\ s[m - 2] = a[n - 2]
<1> DEFINE m == Len(s)
<1>0. n \in Nat /\ m \in Nat
  OBVIOUS
<1>1. PICK q, b : Stepped(K, s, a, q, b)
  BY StepBack
<1>2. /\ q \in Seq(Octet) /\ b \in Seq(Octet) /\ b = Spelled(K, q)
      /\ Len(b) = n - 1 /\ \A i \in 1 .. n - 1 : b[i] = a[i]
      /\ m = Len(q) + 1 /\ s[m] = a[n] /\ \A i \in 1 .. Len(q) : s[i] = q[i]
  BY <1>1 DEF Stepped
<1> HIDE DEF m
<1>3. b[n - 1] = a[n - 1] /\ b[n - 2] = a[n - 2]
  BY <1>0, <1>2
<1>4. PICK p, c : Stepped(K, q, b, p, c)
  BY <1>2, <1>3, StepBack
<1>5. /\ p \in Seq(Octet) /\ c \in Seq(Octet) /\ c = Spelled(K, p)
      /\ Len(c) = n - 2 /\ \A i \in 1 .. n - 2 : c[i] = b[i]
      /\ Len(q) = Len(p) + 1 /\ q[Len(q)] = b[n - 1] /\ \A i \in 1 .. Len(p) : q[i] = p[i]
  BY <1>0, <1>2, <1>4 DEF Stepped
<1>6. c[n - 2] = b[n - 2]
  BY <1>0, <1>5
<1>7. PICK o, d : Stepped(K, p, c, o, d)
  <2>1. Len(c) > 0 /\ c[Len(c)] # Ender
    <3>1. Len(c) = n - 2 /\ c[n - 2] # Ender
      BY <1>3, <1>5, <1>6
    <3> QED BY <1>0, <3>1
  <2> QED BY <1>5, <2>1, StepBack
<1>8. o \in Seq(Octet) /\ Len(p) = Len(o) + 1 /\ p[Len(p)] = c[n - 2]
  BY <1>5, <1>7 DEF Stepped
<1>9. Len(o) \in Nat /\ m = Len(o) + 3 /\ Len(q) = Len(o) + 2 /\ Len(p) = Len(o) + 1
  BY <1>2, <1>5, <1>8
<1>10. s[m - 1] = q[Len(q)] /\ s[m - 2] = q[Len(p)] /\ q[Len(p)] = p[Len(p)]
  <2>1. m - 1 = Len(q) /\ m - 2 = Len(p) /\ Len(q) \in 1 .. Len(q) /\ Len(p) \in 1 .. Len(q)
        /\ Len(p) \in 1 .. Len(p)
    BY <1>9
  <2> QED BY <1>2, <1>5, <2>1
<1>11. m > 2
  BY <1>9
<1> QED BY <1>2, <1>3, <1>5, <1>6, <1>8, <1>10, <1>11 DEF m

\* Where a mark is not in the text, none is where what is written meets one byte more.
LEMMA MarkApart ==
    ASSUME NEW K, Writes(K), NEW s \in Seq(Octet), NEW x \in Octet, NEW a, a = Spelled(K, s),
           NEW old, Mark(old), Places(Append(s, x), old, 1) = {}, NEW new \in Seq(Octet)
    PROVE  Apart(Octet, a, K[x], old, new)
<1> DEFINE t == K[x]
           u == Append(s, x)
           w == a \o t
<1>0. K \in [Octet -> Seq(Octet)]
  BY DEF Writes
<1>1. a \in Seq(Octet) /\ t \in Seq(Octet)
  BY <1>0, SpelledIs
<1>2. t = <<x>> \/ \E m \in 1 .. 20 : t = Escape(m)
  BY DEF Writes
<1>3. u \in Seq(Octet) /\ Len(u) = Len(s) + 1 /\ Len(s) \in Nat /\ u[Len(s) + 1] = x /\ \A i \in 1 .. Len(s) : u[i] = s[i]
  BY OneMore
<1>4. Places(u, old, 1) = {}
  OBVIOUS
<1> HIDE DEF t, u
<1>5. /\ w \in Seq(Octet) /\ Len(w) = Len(a) + Len(t) /\ Len(a) \in Nat /\ Len(t) \in Nat
      /\ \A i \in 1 .. Len(a) + Len(t) : w[i] = IF i =< Len(a) THEN a[i] ELSE t[i - Len(a)]
  BY <1>1, JoinIs
<1>6. Places(w, old, 1) = Places(a \o t, old, 1)
  OBVIOUS
<1> HIDE DEF w
<1>7. /\ Singular(Octet, old) /\ old \in Seq(Octet) /\ Len(old) = 4 /\ old[4] = Ender
      /\ \A j \in 2 .. 4 : old[j] # old[1]
      /\ old[1] # Ender /\ old[2] # Ender /\ old[3] # Ender
  BY DEF Mark
<1>8. ASSUME NEW k \in Places(w, old, 1), k + 4 - 1 > Len(a), k =< Len(a) PROVE FALSE
  <2>1. k \in 1 .. Len(w) - 4 + 1 /\ \A j \in 1 .. 4 : w[k + j - 1] = old[j]
    <3>1. w \in Seq(Octet) /\ Singular(Octet, old) /\ k \in Places(w, old, 1)
      BY <1>5, <1>7
    <3>2. k \in 1 .. Len(w) - Len(old) + 1 /\ \A j \in 1 .. Len(old) : w[k + j - 1] = old[j]
      BY ONLY <3>1, FoundAt
    <3> QED BY <1>7, <3>2
  <2>2. k \in Nat /\ w[k] = old[1] /\ w[k + 1] = old[2] /\ w[k + 2] = old[3] /\ w[k + 3] = old[4]
    BY <1>5, <2>1
  <2>3. CASE \E m \in 1 .. 20 : t = Escape(m)
    <3>1. PICK m \in 1 .. 20 : t = Escape(m)
      BY <2>3
    <3>2. t[1] = "$" /\ Len(t) = 4
      BY <3>1, EscapeIs
    <3>4. PICK j \in 2 .. 4 : k + j - 1 = Len(a) + 1
      <4>1. k = Len(a) \/ k = Len(a) - 1 \/ k = Len(a) - 2
        BY <1>5, <1>8, <2>1
      <4> QED BY <1>5, <4>1
    <3>5. old[j] = w[Len(a) + 1] /\ w[Len(a) + 1] = t[1]
      <4>1. j \in 1 .. 4 /\ Len(a) + 1 > Len(a) /\ Len(a) + 1 - Len(a) = 1 /\ Len(a) + 1 \in 1 .. Len(a) + Len(t)
        BY <1>5, <3>2
      <4>2. w[k + j - 1] = old[j]
        BY <2>1, <4>1
      <4> QED BY <1>5, <3>4, <4>1, <4>2
    <3>6. old[1] = "$"
      BY <1>7 DEF Mark
    <3> QED BY <1>7, <3>2, <3>4, <3>5, <3>6
  <2>4. CASE t = <<x>>
    <3>1. Len(t) = 1 /\ t[1] = x
      BY <2>4
    <3>2. k = Len(a) - 2
      BY <1>5, <1>8, <2>1, <3>1
    <3>3. x = old[4] /\ a[Len(a)] = old[3] /\ a[Len(a) - 1] = old[2] /\ a[Len(a) - 2] = old[1]
      <4>1. /\ k + 3 = Len(a) + 1 /\ k + 2 = Len(a) /\ k + 1 = Len(a) - 1
            /\ k \in 1 .. Len(a) /\ k + 1 \in 1 .. Len(a) /\ k + 2 \in 1 .. Len(a)
        BY <1>5, <2>1, <3>2
      <4>2. w[k] = a[k] /\ w[k + 1] = a[k + 1] /\ w[k + 2] = a[k + 2]
        BY <1>5, <4>1
      <4>3. w[k + 3] = t[1]
        BY <1>5, <3>1, <4>1
      <4> QED BY <2>2, <3>1, <3>2, <4>1, <4>2, <4>3
    <3> DEFINE n == Len(a)
    <3>4. n = Len(a) /\ n > 2 /\ a[n] # Ender /\ a[n - 1] # Ender /\ a[n - 2] # Ender
      BY <1>5, <1>7, <2>1, <3>2, <3>3
    <3> HIDE DEF n
    <3>5. Len(s) > 2 /\ s[Len(s)] = a[n] /\ s[Len(s) - 1] = a[n - 1] /\ s[Len(s) - 2] = a[n - 2]
      <4>1. a \in Seq(Octet) /\ a = Spelled(K, s) /\ Writes(K)
        BY <1>1
      <4>2. s \in Seq(Octet)
        OBVIOUS
      <4> QED BY ONLY <3>4, <4>1, <4>2, ThreeBack
    <3>6. s[Len(s)] = old[3] /\ s[Len(s) - 1] = old[2] /\ s[Len(s) - 2] = old[1]
      BY <3>3, <3>4, <3>5
    <3> DEFINE h == Len(s) - 2
    <3>7. h \in 1 .. Len(u) - 4 + 1 /\ \A j \in 1 .. 4 : u[h + j - 1] = old[j]
      <4>1. u[h] = old[1] /\ u[h + 1] = old[2] /\ u[h + 2] = old[3] /\ u[h + 3] = old[4]
        <5>1. h + 1 = Len(s) - 1 /\ h + 2 = Len(s) /\ h + 3 = Len(s) + 1
              /\ h \in 1 .. Len(s) /\ h + 1 \in 1 .. Len(s) /\ h + 2 \in 1 .. Len(s)
          BY <1>3, <3>5
        <5>2. u[h] = s[h] /\ u[h + 1] = s[h + 1] /\ u[h + 2] = s[h + 2] /\ u[h + 3] = x
          BY <1>3, <5>1
        <5>3. s[h] = old[1]
          BY <3>6
        <5> HIDE DEF h
        <5> QED BY <3>3, <3>6, <5>1, <5>2, <5>3
      <4>2. \A j \in 1 .. 4 : j = 1 \/ j = 2 \/ j = 3 \/ j = 4
        OBVIOUS
      <4>3. h + 1 - 1 = h /\ h + 2 - 1 = h + 1 /\ h + 3 - 1 = h + 2 /\ h + 4 - 1 = h + 3
        BY <1>3
      <4>4. h \in 1 .. Len(u) - 4 + 1
        BY <1>3, <3>5
      <4> QED BY <4>1, <4>2, <4>3, <4>4
    <3>8. h \in Places(u, old, 1)
      BY <1>3, <1>7, <3>7, FoundAt
    <3> QED BY <1>4, <3>8
  <2> QED BY <1>2, <2>3, <2>4
<1>9. \A k \in Places(a \o t, old, 1) : k + Len(old) - 1 =< Len(a) \/ k > Len(a)
  <2>1. \A k \in Places(w, old, 1) : k \in Int
    BY <1>5, <1>7, FoundAt
  <2> QED BY SMTT(30), <1>5, <1>6, <1>7, <1>8, <2>1
<1> QED BY <1>1, <1>7, <1>9 DEF Apart, t

\* What is all of a text is replaced as a whole.
LEMMA ReplacedWhole ==
    ASSUME NEW old, Mark(old), NEW new \in Seq(Octet)
    PROVE  Replaced(old, old, new) = new
<1>0. Singular(Octet, old) /\ old \in Seq(Octet) /\ Len(old) = 4 /\ \A j \in 2 .. 4 : old[j] # old[1]
  BY DEF Mark
<1>1. \A k : k \in Places(old, old, 1) <=> k = 1
  <2>1. \A k : k \in Places(old, old, 1) <=> /\ k \in 1 .. Len(old) - Len(old) + 1
                                             /\ \A j \in 1 .. Len(old) : old[k + j - 1] = old[j]
    BY ONLY <1>0, FoundAt
  <2>2. 1 .. Len(old) - Len(old) + 1 = {1}
    BY <1>0
  <2>3. \A j \in 1 .. Len(old) : old[1 + j - 1] = old[j]
    BY <1>0
  <2> QED BY <2>1, <2>2, <2>3
<1> DEFINE at == Places(old, old, 1)
           f == Pieces(old, old, new)
<1>2. Replaced(old, old, new) = FlattenSeq(f) /\ f \in [1 .. Len(old) -> Seq(Octet)]
  <2>1. old \in Seq(Octet) /\ Singular(Octet, old) /\ new \in Seq(Octet)
    BY <1>0
  <2> QED BY ONLY <2>1, ReplacedPieces
<1>3. \A i \in 1 .. Len(old) : f[i] = IF i \in at THEN new ELSE IF Covered(at, old, i) THEN <<>> ELSE <<old[i]>>
  BY DEF Pieces
<1>4. at = {1}
  BY <1>1
<1>5. \A i \in 2 .. 4 : Covered(at, old, i)
  <2>1. \A i \in 2 .. 4 : 1 < i /\ i < 1 + Len(old)
    BY <1>0
  <2> HIDE DEF at
  <2> QED BY <1>4, <2>1 DEF Covered
<1>6. f \in [1 .. 4 -> Seq(Octet)]
  BY <1>0, <1>2
<1> HIDE DEF f, at
<1>7. f[1] = new /\ f[2] = <<>> /\ f[3] = <<>> /\ f[4] = <<>>
  BY <1>0, <1>3, <1>4, <1>5
<1>8. FlattenSeq(f) = new
  BY <1>6, <1>7, RowOfOne
<1> QED BY <1>2, <1>8

\* Nothing is read where an escape is not.
LEMMA ReplacedNowhere ==
    ASSUME NEW d \in Seq(Octet), NEW old, Mark(old), NEW new \in Seq(Octet),
           \A k \in 1 .. Len(d) - 3 : \E j \in 1 .. 4 : d[k + j - 1] # old[j]
    PROVE  Replaced(d, old, new) = d
<1>0. Singular(Octet, old) /\ Len(old) = 4
  BY DEF Mark
<1>1. \A k : k \in Places(d, old, 1) <=> /\ k \in 1 .. Len(d) - Len(old) + 1
                                         /\ \A j \in 1 .. Len(old) : d[k + j - 1] = old[j]
  <2>1. d \in Seq(Octet) /\ Singular(Octet, old)
    BY <1>0
  <2> QED BY ONLY <2>1, FoundAt
<1>2. 1 .. Len(d) - Len(old) + 1 = 1 .. Len(d) - 3 /\ 1 .. Len(old) = 1 .. 4
  BY <1>0
<1>3. Places(d, old, 1) = {}
  BY <1>1, <1>2
<1> QED BY <1>0, <1>3, ReplacedPieces

\* What is not in a text is not in the beginning of it.
LEMMA NotBefore ==
    ASSUME NEW s \in Seq(Octet), NEW x \in Octet, NEW old, Mark(old), Places(Append(s, x), old, 1) = {}
    PROVE  Places(s, old, 1) = {}
<1> DEFINE u == Append(s, x)
<1>0. Singular(Octet, old) /\ Len(old) = 4
  BY DEF Mark
<1>1. u \in Seq(Octet) /\ Len(u) = Len(s) + 1 /\ Len(s) \in Nat /\ \A i \in 1 .. Len(s) : u[i] = s[i]
  BY OneMore
<1>2. Places(u, old, 1) = {}
  OBVIOUS
<1> HIDE DEF u
<1>3. \A k : k \in Places(u, old, 1) <=> /\ k \in 1 .. Len(u) - Len(old) + 1
                                         /\ \A j \in 1 .. Len(old) : u[k + j - 1] = old[j]
  <2>1. u \in Seq(Octet) /\ Singular(Octet, old)
    BY <1>0, <1>1
  <2> QED BY ONLY <2>1, FoundAt
<1>4. s \in Seq(Octet)
  OBVIOUS
<1>5. \A k : k \in Places(s, old, 1) <=> /\ k \in 1 .. Len(s) - Len(old) + 1
                                         /\ \A j \in 1 .. Len(old) : s[k + j - 1] = old[j]
  <2>1. s \in Seq(Octet) /\ Singular(Octet, old)
    BY <1>0
  <2> QED BY ONLY <2>1, FoundAt
<1> SUFFICES ASSUME NEW k \in Places(s, old, 1) PROVE FALSE
  OBVIOUS
<1>6. k \in 1 .. Len(s) - 3 /\ \A j \in 1 .. 4 : s[k + j - 1] = old[j]
  BY <1>0, <1>1, <1>5
<1>7. \A j \in 1 .. 4 : u[k + j - 1] = old[j]
  <2> SUFFICES ASSUME NEW j \in 1 .. 4 PROVE u[k + j - 1] = old[j]
    OBVIOUS
  <2>1. k + j - 1 \in 1 .. Len(s)
    BY <1>1, <1>6
  <2> QED BY SMTT(30), <1>1, <1>6, <2>1
<1>8. k \in 1 .. Len(u) - 3
  BY <1>1, <1>6
<1>9. k \in Places(u, old, 1)
  BY <1>0, <1>1, <1>3, <1>7, <1>8
<1> QED BY <1>2, <1>9

\* One escape is read: what is written for the bytes is replaced byte by byte.
Reads(K, F, old, new) ==
    /\ Writes(K) /\ F \in [Octet -> Seq(Octet)] /\ Mark(old) /\ new \in Seq(Octet)
    /\ \A x \in Octet : Replaced(K[x], old, new) = F[x]

\* So it is in a text that does not read like the escape.
LEMMA ReadAll ==
    ASSUME NEW K, NEW F, NEW old, NEW new, Reads(K, F, old, new), NEW c \in Seq(Octet), Places(c, old, 1) = {}
    PROVE  Replaced(Spelled(K, c), old, new) = Spelled(F, c)
<1>0. K \in [Octet -> Seq(Octet)] /\ F \in [Octet -> Seq(Octet)] /\ Mark(old) /\ Writes(K) /\ new \in Seq(Octet)
  BY DEF Reads, Writes
<1> DEFINE Good(s) == Places(s, old, 1) = {} => Replaced(Spelled(K, s), old, new) = Spelled(F, s)
           G == {s \in Seq(Octet) : Good(s)}
<1>1. <<>> \in G
  <2>1. Spelled(K, <<>>) = <<>> /\ Spelled(F, <<>>) = <<>>
    BY SpelledEmpty
  <2>2. <<>> \in Seq(Octet) /\ 1 .. Len(<<>>) - 3 = {}
    OBVIOUS
  <2>3. Replaced(<<>>, old, new) = <<>>
    BY <1>0, <2>2, ReplacedNowhere
  <2> QED BY <2>1, <2>2, <2>3
<1>2. ASSUME NEW s \in Seq(Octet), NEW x \in Octet, s \in G PROVE Append(s, x) \in G
  <2> DEFINE t == Append(s, x)
             a == Spelled(K, s)
             e == K[x]
             b == Spelled(F, s)
  <2>1. t \in Seq(Octet)
    BY OneMore
  <2>2. Good(s)
    BY <1>2
  <2> HIDE DEF Good
  <2> SUFFICES ASSUME Places(t, old, 1) = {} PROVE Replaced(Spelled(K, t), old, new) = Spelled(F, t)
    BY <2>1 DEF Good
  <2>3. Places(s, old, 1) = {}
    BY <1>0, NotBefore
  <2>4. Replaced(a, old, new) = b
    BY <2>2, <2>3 DEF Good
  <2>5. Apart(Octet, a, e, old, new)
    BY <1>0, MarkApart
  <2>6. Spelled(K, t) = a \o e /\ Spelled(F, t) = b \o F[x]
    <3>1. K \in [Octet -> Seq(Octet)] /\ F \in [Octet -> Seq(Octet)] /\ s \in Seq(Octet) /\ x \in Octet
      BY <1>0
    <3> QED BY ONLY <3>1, SpelledAppend
  <2>7. Replaced(e, old, new) = F[x]
    BY DEF Reads
  <2> HIDE DEF a, b, e, t
  <2>8. Replaced(a \o e, old, new) = Replaced(a, old, new) \o Replaced(e, old, new)
    BY <2>5, ReplacedJoin
  <2> QED BY <2>4, <2>6, <2>7, <2>8
<1>3. \A s \in Seq(Octet) : s \in G
  <2> HIDE DEF G
  <2> QED BY <1>1, <1>2, SequenceInduction
<1> QED BY <1>3

\* Of each byte the n-th pass reads its escape, if the byte is the n-th one.
LEMMA ReadByte ==
    ASSUME NEW n \in 1 .. 20
    PROVE  Reads(EscapesFrom(n - 1), EscapesFrom(n), Escape(n), <<ByteAt(n)>>)
<1> DEFINE k == n - 1
           K == EscapesFrom(k)
           F == EscapesFrom(n)
           old == Escape(n)
           new == <<ByteAt(n)>>
<1>0. k \in 0 .. 20 /\ n \in 0 .. 20 /\ k + 1 = n /\ n \in n .. 20
  OBVIOUS
<1>1. /\ \A b \in Octet, m \in n .. 20 : ByteAt(m) = b => K[b] = Escape(m)
      /\ \A b \in Octet : (\A m \in n .. 20 : ByteAt(m) # b) => K[b] = <<b>>
      /\ Writes(K)
  <2> HIDE DEF k
  <2>1. /\ \A b \in Octet, m \in k + 1 .. 20 : ByteAt(m) = b => K[b] = Escape(m)
        /\ \A b \in Octet : (\A m \in k + 1 .. 20 : ByteAt(m) # b) => K[b] = <<b>>
    BY <1>0, EscapesFromIs
  <2>2. Writes(K)
    BY <1>0, EscapesFromWrites
  <2> HIDE DEF K
  <2> QED BY <1>0, <2>1, <2>2
<1>2. /\ \A b \in Octet, m \in n + 1 .. 20 : ByteAt(m) = b => F[b] = Escape(m)
      /\ \A b \in Octet : (\A m \in n + 1 .. 20 : ByteAt(m) # b) => F[b] = <<b>>
      /\ F \in [Octet -> Seq(Octet)]
  BY <1>0, EscapesFromIs
<1>3. Mark(old) /\ new \in Seq(Octet) /\ ByteAt(n) \in Octet
  <2>1. ByteAt(n) \in Octet
    BY EscapeIs
  <2> QED BY <2>1, EscapeMarks
<1>4. Len(old) = 4
  BY <1>3 DEF Mark
<1>5. \A m \in n + 1 .. 20 : m \in n .. 20 /\ m \in 1 .. 20 /\ m # n
  OBVIOUS
<1>6. \A m \in n .. 20 : m = n \/ m \in n + 1 .. 20
  OBVIOUS
<1> HIDE DEF k, K, F
<1>7. ASSUME NEW x \in Octet PROVE Replaced(K[x], old, new) = F[x]
  <2>1. CASE x = ByteAt(n)
    <3>1. K[x] = old
      BY <1>0, <1>1, <2>1
    <3>2. \A m \in n + 1 .. 20 : ByteAt(m) # x
      BY <1>5, <2>1, EscapesDiffer
    <3>3. F[x] = new
      BY <1>2, <2>1, <3>2
    <3>4. Replaced(old, old, new) = new
      BY <1>3, ReplacedWhole
    <3> QED BY <3>1, <3>3, <3>4
  <2>2. ASSUME NEW m \in n + 1 .. 20, x = ByteAt(m) PROVE Replaced(K[x], old, new) = F[x]
    <3>1. K[x] = Escape(m) /\ F[x] = Escape(m)
      BY <1>1, <1>2, <1>5, <2>2
    <3>2. Escape(m) \in Seq(Octet) /\ Len(Escape(m)) = 4
      BY <1>5, EscapeIs
    <3>3. Escape(m)[2] # old[2] \/ Escape(m)[3] # old[3]
      BY <1>5, EscapeRead
    <3> DEFINE d == Escape(m)
    <3> HIDE DEF d, old
    <3>4. d \in Seq(Octet) /\ Len(d) = 4 /\ (d[2] # old[2] \/ d[3] # old[3])
      BY <3>2, <3>3 DEF d
    <3>5. \A i \in 1 .. Len(d) - 3 : \E j \in 1 .. 4 : d[i + j - 1] # old[j]
      <4> SUFFICES ASSUME NEW i \in 1 .. Len(d) - 3 PROVE \E j \in 1 .. 4 : d[i + j - 1] # old[j]
        OBVIOUS
      <4>1. i = 1
        BY <3>4
      <4>2. d[i + 2 - 1] = d[2] /\ d[i + 3 - 1] = d[3] /\ 2 \in 1 .. 4 /\ 3 \in 1 .. 4
        BY <4>1
      <4> QED BY <3>4, <4>2
    <3>6. Replaced(d, old, new) = d
      BY <1>3, <3>4, <3>5, ReplacedNowhere
    <3> QED BY <3>1, <3>6 DEF d
  <2>3. CASE \A m \in n .. 20 : ByteAt(m) # x
    <3>1. K[x] = <<x>> /\ F[x] = <<x>>
      BY <1>1, <1>2, <1>5, <2>3
    <3>2. <<x>> \in Seq(Octet) /\ 1 .. Len(<<x>>) - 3 = {}
      OBVIOUS
    <3>3. Replaced(<<x>>, old, new) = <<x>>
      BY <1>3, <3>2, ReplacedNowhere
    <3> QED BY <3>1, <3>3
  <2> QED BY <1>6, <2>1, <2>2, <2>3
<1>8. Reads(K, F, old, new)
  BY <1>1, <1>2, <1>3, <1>7 DEF Reads
<1> QED BY <1>8 DEF K, F, k

\* Nothing that ciphertext is escaped for is in what is written.
LEMMA SpelledClear ==
    ASSUME NEW c \in Seq(Octet)
    PROVE  Spelled(EscapesFrom(0), c) \in Seq(Octet \ Specials)
<1> DEFINE K == EscapesFrom(0)
           T == Octet \ Specials
           G == {s \in Seq(Octet) : Spelled(K, s) \in Seq(T)}
<1>0. K \in [Octet -> Seq(Octet)]
  BY EscapesFromIs
<1>1. \A b \in Octet : K[b] \in Seq(T)
  <2> SUFFICES ASSUME NEW b \in Octet PROVE K[b] \in Seq(T)
    OBVIOUS
  <2>0. 0 \in 0 .. 20 /\ 0 + 1 .. 20 = 1 .. 20
    OBVIOUS
  <2>1. CASE \E m \in 1 .. 20 : ByteAt(m) = b
    <3>1. PICK m \in 1 .. 20 : ByteAt(m) = b
      BY <2>1
    <3>2. K[b] = Escape(m)
      BY <2>0, <3>1, EscapesFromIs
    <3>3. Escape(m) \in Seq(Signs)
      BY EscapeIs
    <3>4. Signs \subseteq T
      <4>1. \A k \in 1 .. 20 : ByteAt(k) \notin Signs
        BY EscapeTable
      <4>2. Escapes = 1 .. 20
        BY EscapeTable
      <4> QED BY <4>1, <4>2 DEF Octet, Specials
    <3> QED BY <3>2, <3>3, <3>4, MoreSigns
  <2>2. CASE \A m \in 1 .. 20 : ByteAt(m) # b
    <3>1. K[b] = <<b>>
      BY <2>0, <2>2, EscapesFromIs
    <3>2. b \in T
      <4>1. Escapes = 1 .. 20
        BY EscapeTable
      <4> QED BY <2>2, <4>1 DEF Specials
    <3>3. <<b>> \in Seq(T)
      BY <3>2
    <3> QED BY <3>1, <3>3
  <2> QED BY <2>1, <2>2
<1> HIDE DEF K, T
<1>2. <<>> \in G
  <2>1. Spelled(K, <<>>) = <<>>
    BY SpelledEmpty
  <2>2. <<>> \in Seq(T) /\ <<>> \in Seq(Octet)
    OBVIOUS
  <2> QED BY <2>1, <2>2
<1>3. ASSUME NEW s \in Seq(Octet), NEW x \in Octet, s \in G PROVE Append(s, x) \in G
  <2>1. Spelled(K, Append(s, x)) = Spelled(K, s) \o K[x]
    <3>1. K \in [Octet -> Seq(Octet)] /\ s \in Seq(Octet) /\ x \in Octet
      BY <1>0
    <3> QED BY ONLY <3>1, SpelledAppend
  <2> DEFINE a == Spelled(K, s)
             e == K[x]
  <2>2. a \in Seq(T) /\ e \in Seq(T)
    BY <1>1, <1>3
  <2> HIDE DEF a, e
  <2>3. a \o e \in Seq(T)
    BY <2>2, JoinIs
  <2>4. Append(s, x) \in Seq(Octet)
    BY OneMore
  <2> QED BY <2>1, <2>3, <2>4 DEF a, e
<1>4. \A s \in Seq(Octet) : s \in G
  <2> HIDE DEF G
  <2> QED BY <1>2, <1>3, SequenceInduction
<1> QED BY <1>4 DEF K, T

\* The passes of the encoding write what the passes of the decoding begin with.
LEMMA EscapedFrom ==
    ASSUME NEW c \in Seq(Octet)
    PROVE  Escaped(c, 20) = Spelled(EscapesFrom(0), c)
<1>0. 20 \in 0 .. 20 /\ 0 \in 0 .. 20 /\ 0 + 1 .. 20 = 1 .. 20
  OBVIOUS
<1>1. \A b \in Octet : EscapesTo(20)[b] = EscapesFrom(0)[b]
  <2> SUFFICES ASSUME NEW b \in Octet PROVE EscapesTo(20)[b] = EscapesFrom(0)[b]
    OBVIOUS
  <2>1. CASE \E m \in 1 .. 20 : ByteAt(m) = b
    <3>1. PICK m \in 1 .. 20 : ByteAt(m) = b
      BY <2>1
    <3>2. EscapesTo(20)[b] = Escape(m)
      BY <1>0, <3>1, EscapesToIs
    <3>3. EscapesFrom(0)[b] = Escape(m)
      BY <1>0, <3>1, EscapesFromIs
    <3> QED BY <3>2, <3>3
  <2>2. CASE \A m \in 1 .. 20 : ByteAt(m) # b
    <3>2. EscapesTo(20)[b] = <<b>>
      BY <1>0, <2>2, EscapesToIs
    <3>3. EscapesFrom(0)[b] = <<b>>
      BY <1>0, <2>2, EscapesFromIs
    <3> QED BY <3>2, <3>3
  <2> QED BY <2>1, <2>2
<1>2. EscapesTo(20) \in [Octet -> Seq(Octet)] /\ EscapesFrom(0) \in [Octet -> Seq(Octet)]
  BY <1>0, EscapesToType, EscapesFromIs
<1>3. EscapesTo(20) = EscapesFrom(0)
  BY <1>1, <1>2
<1>4. Escaped(c, 20) = Spelled(EscapesTo(20), c)
  BY <1>0, EscapedSpells
<1> QED BY <1>3, <1>4

\* A text in which no entity begins has none.
LEMMA NoEntities ==
    ASSUME NEW S, Glyph \subseteq S, NEW d \in Seq(S), NEW e, TurnsEntities(S, e, d),
           \A i \in 1 .. Len(d) : d[i] \notin {"&", "<"}
    PROVE  e[6] = d
<1> DEFINE P == {n \in Nat : n =< 6 => e[n] = d}
<1>1. 0 \in P
  BY DEF TurnsEntities
<1>2. ASSUME NEW n \in Nat, n \in P PROVE n + 1 \in P
  <2> SUFFICES ASSUME n + 1 =< 6 PROVE e[n + 1] = d
    OBVIOUS
  <2>1. n + 1 \in 1 .. 6 /\ n + 1 - 1 = n /\ e[n] = d
    BY <1>2
  <2> DEFINE m == n + 1
             old == Entities[m][1]
             new == Entities[m][2]
  <2>2. e[m] = Replaced(d, old, new)
    <3>1. e[m] = Replaced(e[m - 1], old, new)
      BY <2>1 DEF TurnsEntities
    <3>2. m - 1 = n
      BY <2>1
    <3> HIDE DEF m, old, new
    <3> QED BY <2>1, <3>1, <3>2
  <2>3. Entity(Entities[m])
    BY <2>1, EntitiesAre
  <2>4. Singular(S, old) /\ new \in Seq(S) /\ old[1] \in {"&", "<"}
    BY <2>3, MoreSingular, MoreSigns DEF Entity
  <2> HIDE DEF old, new
  <2>5. Replaced(d, old, new) = d
    BY <2>4, ReplacedSame
  <2> QED BY <2>2, <2>5
<1>3. \A n \in Nat : n \in P
  <2> HIDE DEF P
  <2> QED BY <1>1, <1>2, Induction
<1>4. 6 \in Nat /\ 6 =< 6
  OBVIOUS
<1> QED BY <1>3, <1>4

\* The texts that the passes of the decoding go through, if none reads a byte
\* of the ciphertext for an escape.
LEMMA EscapesRead ==
    ASSUME NEW S, NEW c \in Seq(Octet), \A n \in 1 .. 20 : Places(c, Escape(n), 1) = {},
           NEW r, TurnsEscapes(S, r, Spelled(EscapesFrom(0), c))
    PROVE  r[20] = c
<1> DEFINE K(n) == EscapesFrom(n)
           P == {n \in Nat : n =< 20 => r[n] = Spelled(K(n), c)}
<1>1. 0 \in P
  BY DEF TurnsEscapes
<1>2. ASSUME NEW n \in Nat, n \in P PROVE n + 1 \in P
  <2> SUFFICES ASSUME n + 1 =< 20 PROVE r[n + 1] = Spelled(K(n + 1), c)
    OBVIOUS
  <2> DEFINE m == n + 1
             old == Escape(m)
             new == <<ByteAt(m)>>
  <2>1. m \in 1 .. 20 /\ m - 1 = n /\ r[n] = Spelled(K(n), c)
    BY <1>2
  <2>2. r[m] = Replaced(r[m - 1], old, new)
    BY <2>1 DEF TurnsEscapes
  <2>3. Places(c, old, 1) = {}
    BY <2>1
  <2>4. Reads(K(m - 1), K(m), old, new)
    BY <2>1, ReadByte
  <2> HIDE DEF m, old, new, K
  <2>5. Replaced(Spelled(K(m - 1), c), old, new) = Spelled(K(m), c)
    BY <2>3, <2>4, ReadAll
  <2>6. r[m] = Spelled(K(m), c)
    BY <2>1, <2>2, <2>5
  <2> QED BY <2>6 DEF m
<1>3. \A n \in Nat : n \in P
  <2> HIDE DEF P
  <2> QED BY <1>1, <1>2, Induction
<1>4. r[20] = Spelled(K(20), c)
  <2>1. 20 \in Nat /\ 20 =< 20
    OBVIOUS
  <2> QED BY <1>3, <2>1
<1>5. Spelled(K(20), c) = c
  <2>0. 20 \in 0 .. 20 /\ 20 + 1 .. 20 = {}
    OBVIOUS
  <2> DEFINE F == K(20)
  <2>1. F \in [Octet -> Seq(Octet)] /\ \A b \in Octet : F[b] = <<b>>
    BY <2>0, EscapesFromIs
  <2> HIDE DEF F
  <2>2. \A i \in 1 .. Len(c) : F[c[i]] = <<c[i]>>
    BY <2>1, SeqIs
  <2>3. Spelled(F, c) = c
    BY <2>1, <2>2, SpelledSelf
  <2> QED BY <2>3 DEF F
<1> QED BY <1>4, <1>5

\* ReplaceHtmlCode makes the ciphertext again of what the twenty passes of
\* replace_post made of it, unless the ciphertext reads like an escape: no text
\* that stands for a character of a page is read in it, no pass reads what an
\* earlier one wrote, and no escape and the bytes around it read like another.
THEOREM EscapesReadBack ==
    ASSUME NEW c \in Seq(DOMAIN HexDigits), ~ Accident(c)
    PROVE  ReplaceHtmlCode(Escaped(c, Len(EscapedBytes))) = c
<1>1. c \in Seq(Octet)
  BY MoreSigns DEF Octet
<1>2. Escapes = 1 .. 20 /\ Len(EscapedBytes) = 20
  BY EscapeTable
<1>3. \A n \in 1 .. 20 : Places(c, Escape(n), 1) = {}
  BY <1>2 DEF Accident
<1> DEFINE d == Spelled(EscapesFrom(0), c)
<1>4. Escaped(c, Len(EscapedBytes)) = d
  BY <1>1, <1>2, EscapedFrom
<1>5. d \in Seq(Octet \ Specials)
  BY <1>1, SpelledClear
<1>6. \A i \in 1 .. Len(d) : d[i] \notin {"&", "<"}
  <2>1. "&" \in Specials /\ "<" \in Specials
    <3>1. ByteAt(5) = "&" /\ ByteAt(4) = "<"
      BY Zenon DEF ByteAt, EscapedBytes
    <3>2. 4 \in Escapes /\ 5 \in Escapes
      BY <1>2
    <3> QED BY <3>1, <3>2 DEF Specials
  <2> HIDE DEF d
  <2>2. \A i \in 1 .. Len(d) : d[i] \in Octet \ Specials
    BY <1>5, SeqIs
  <2> QED BY <2>1, <2>2
<1>7. d \in Seq(Glyph)
  <2> HIDE DEF d
  <2> QED BY <1>5, MoreSigns DEF Glyph
<1> HIDE DEF d
<1>8. PICK e, r : TurnsEntities(Glyph, e, d) /\ TurnsEscapes(Glyph, r, e[6]) /\ ReplaceHtmlCode(d) = r[20]
  BY <1>7, HtmlTurns
<1>9. e[6] = d
  BY <1>6, <1>7, <1>8, NoEntities
<1>10. r[20] = c
  BY <1>1, <1>3, <1>8, <1>9, EscapesRead DEF d
<1> QED BY <1>4, <1>8, <1>10

-------------------------------------------------------------------------------
(* Digits are read back                                                     *)

\* The digits that a byte of ciphertext is written with.
Hexes == {"0", "1", "2", "3", "4", "5", "6", "7", "8", "9", "A", "B", "C", "D", "E", "F"}

\* The row of the table with these two.
HexRow(x, y) ==
    CASE x = "C" /\ y = "1" -> 1
      [] x = "C" /\ y = "2" -> 2
      [] x = "C" /\ y = "3" -> 3
      [] x = "F" /\ y = "E" -> 4
      [] x = "2" /\ y = "4" -> 5
      [] x = "3" /\ y = "0" -> 6
      [] x = "3" /\ y = "2" -> 7
      [] x = "3" /\ y = "B" -> 8
      [] x = "2" /\ y = "9" -> 9
      [] x = "2" /\ y = "E" -> 10
      [] x = "A" /\ y = "1" -> 11
      [] x = "B" /\ y = "C" -> 12
      [] x = "2" /\ y = "0" -> 13
      [] x = "0" /\ y = "0" -> 14
      [] x = "F" /\ y = "D" -> 15
      [] x = "F" /\ y = "F" -> 16
      [] x = "5" /\ y = "C" -> 17
      [] x = "2" /\ y = "5" -> 18
      [] x = "2" /\ y = "6" -> 19
      [] x = "2" /\ y = "C" -> 20

\* The twenty rows differ in their digits.
LEMMA HexTableIs ==
    /\ DOMAIN HexTable = 1 .. 20
    /\ \A n \in 1 .. 20 : /\ HexTable[n][2] \in Hexes /\ HexTable[n][3] \in Hexes
                          /\ HexRow(HexTable[n][2], HexTable[n][3]) = n
<1> DEFINE Entry(n) == /\ HexTable[n][2] \in Hexes /\ HexTable[n][3] \in Hexes
                       /\ HexRow(HexTable[n][2], HexTable[n][3]) = n
<1>0. DOMAIN HexTable = 1 .. 20
  BY DEF HexTable
<1>1. Entry(1)
  <2>1. HexTable[1][2] = "C" /\ HexTable[1][3] = "1"
    BY Zenon DEF HexTable
  <2>2. "C" \in Hexes /\ "1" \in Hexes
    BY DEF Hexes
  <2>3. HexRow("C", "1") = 1
    BY DEF HexRow
  <2> QED BY <2>1, <2>2, <2>3
<1>2. Entry(2)
  <2>1. HexTable[2][2] = "C" /\ HexTable[2][3] = "2"
    BY Zenon DEF HexTable
  <2>2. "C" \in Hexes /\ "2" \in Hexes
    BY DEF Hexes
  <2>3. HexRow("C", "2") = 2
    BY DEF HexRow
  <2> QED BY <2>1, <2>2, <2>3
<1>3. Entry(3)
  <2>1. HexTable[3][2] = "C" /\ HexTable[3][3] = "3"
    BY Zenon DEF HexTable
  <2>2. "C" \in Hexes /\ "3" \in Hexes
    BY DEF Hexes
  <2>3. HexRow("C", "3") = 3
    BY DEF HexRow
  <2> QED BY <2>1, <2>2, <2>3
<1>4. Entry(4)
  <2>1. HexTable[4][2] = "F" /\ HexTable[4][3] = "E"
    BY Zenon DEF HexTable
  <2>2. "F" \in Hexes /\ "E" \in Hexes
    BY DEF Hexes
  <2>3. HexRow("F", "E") = 4
    BY DEF HexRow
  <2> QED BY <2>1, <2>2, <2>3
<1>5. Entry(5)
  <2>1. HexTable[5][2] = "2" /\ HexTable[5][3] = "4"
    BY Zenon DEF HexTable
  <2>2. "2" \in Hexes /\ "4" \in Hexes
    BY DEF Hexes
  <2>3. HexRow("2", "4") = 5
    BY DEF HexRow
  <2> QED BY <2>1, <2>2, <2>3
<1>6. Entry(6)
  <2>1. HexTable[6][2] = "3" /\ HexTable[6][3] = "0"
    BY Zenon DEF HexTable
  <2>2. "3" \in Hexes /\ "0" \in Hexes
    BY DEF Hexes
  <2>3. HexRow("3", "0") = 6
    BY DEF HexRow
  <2> QED BY <2>1, <2>2, <2>3
<1>7. Entry(7)
  <2>1. HexTable[7][2] = "3" /\ HexTable[7][3] = "2"
    BY Zenon DEF HexTable
  <2>2. "3" \in Hexes /\ "2" \in Hexes
    BY DEF Hexes
  <2>3. HexRow("3", "2") = 7
    BY DEF HexRow
  <2> QED BY <2>1, <2>2, <2>3
<1>8. Entry(8)
  <2>1. HexTable[8][2] = "3" /\ HexTable[8][3] = "B"
    BY Zenon DEF HexTable
  <2>2. "3" \in Hexes /\ "B" \in Hexes
    BY DEF Hexes
  <2>3. HexRow("3", "B") = 8
    BY DEF HexRow
  <2> QED BY <2>1, <2>2, <2>3
<1>9. Entry(9)
  <2>1. HexTable[9][2] = "2" /\ HexTable[9][3] = "9"
    BY Zenon DEF HexTable
  <2>2. "2" \in Hexes /\ "9" \in Hexes
    BY DEF Hexes
  <2>3. HexRow("2", "9") = 9
    BY DEF HexRow
  <2> QED BY <2>1, <2>2, <2>3
<1>10. Entry(10)
  <2>1. HexTable[10][2] = "2" /\ HexTable[10][3] = "E"
    BY Zenon DEF HexTable
  <2>2. "2" \in Hexes /\ "E" \in Hexes
    BY DEF Hexes
  <2>3. HexRow("2", "E") = 10
    BY DEF HexRow
  <2> QED BY <2>1, <2>2, <2>3
<1>11. Entry(11)
  <2>1. HexTable[11][2] = "A" /\ HexTable[11][3] = "1"
    BY Zenon DEF HexTable
  <2>2. "A" \in Hexes /\ "1" \in Hexes
    BY DEF Hexes
  <2>3. HexRow("A", "1") = 11
    BY DEF HexRow
  <2> QED BY <2>1, <2>2, <2>3
<1>12. Entry(12)
  <2>1. HexTable[12][2] = "B" /\ HexTable[12][3] = "C"
    BY Zenon DEF HexTable
  <2>2. "B" \in Hexes /\ "C" \in Hexes
    BY DEF Hexes
  <2>3. HexRow("B", "C") = 12
    BY DEF HexRow
  <2> QED BY <2>1, <2>2, <2>3
<1>13. Entry(13)
  <2>1. HexTable[13][2] = "2" /\ HexTable[13][3] = "0"
    BY Zenon DEF HexTable
  <2>2. "2" \in Hexes /\ "0" \in Hexes
    BY DEF Hexes
  <2>3. HexRow("2", "0") = 13
    BY DEF HexRow
  <2> QED BY <2>1, <2>2, <2>3
<1>14. Entry(14)
  <2>1. HexTable[14][2] = "0" /\ HexTable[14][3] = "0"
    BY Zenon DEF HexTable
  <2>2. "0" \in Hexes /\ "0" \in Hexes
    BY DEF Hexes
  <2>3. HexRow("0", "0") = 14
    BY DEF HexRow
  <2> QED BY <2>1, <2>2, <2>3
<1>15. Entry(15)
  <2>1. HexTable[15][2] = "F" /\ HexTable[15][3] = "D"
    BY Zenon DEF HexTable
  <2>2. "F" \in Hexes /\ "D" \in Hexes
    BY DEF Hexes
  <2>3. HexRow("F", "D") = 15
    BY DEF HexRow
  <2> QED BY <2>1, <2>2, <2>3
<1>16. Entry(16)
  <2>1. HexTable[16][2] = "F" /\ HexTable[16][3] = "F"
    BY Zenon DEF HexTable
  <2>2. "F" \in Hexes /\ "F" \in Hexes
    BY DEF Hexes
  <2>3. HexRow("F", "F") = 16
    BY DEF HexRow
  <2> QED BY <2>1, <2>2, <2>3
<1>17. Entry(17)
  <2>1. HexTable[17][2] = "5" /\ HexTable[17][3] = "C"
    BY Zenon DEF HexTable
  <2>2. "5" \in Hexes /\ "C" \in Hexes
    BY DEF Hexes
  <2>3. HexRow("5", "C") = 17
    BY DEF HexRow
  <2> QED BY <2>1, <2>2, <2>3
<1>18. Entry(18)
  <2>1. HexTable[18][2] = "2" /\ HexTable[18][3] = "5"
    BY Zenon DEF HexTable
  <2>2. "2" \in Hexes /\ "5" \in Hexes
    BY DEF Hexes
  <2>3. HexRow("2", "5") = 18
    BY DEF HexRow
  <2> QED BY <2>1, <2>2, <2>3
<1>19. Entry(19)
  <2>1. HexTable[19][2] = "2" /\ HexTable[19][3] = "6"
    BY Zenon DEF HexTable
  <2>2. "2" \in Hexes /\ "6" \in Hexes
    BY DEF Hexes
  <2>3. HexRow("2", "6") = 19
    BY DEF HexRow
  <2> QED BY <2>1, <2>2, <2>3
<1>20. Entry(20)
  <2>1. HexTable[20][2] = "2" /\ HexTable[20][3] = "C"
    BY Zenon DEF HexTable
  <2>2. "2" \in Hexes /\ "C" \in Hexes
    BY DEF Hexes
  <2>3. HexRow("2", "C") = 20
    BY DEF HexRow
  <2> QED BY <2>1, <2>2, <2>3
<1> HIDE DEF Entry
<1>21. \A n \in 1 .. 20 : Entry(n)
  BY <1>1, <1>2, <1>3, <1>4, <1>5, <1>6, <1>7, <1>8, <1>9, <1>10, <1>11, <1>12, <1>13, <1>14, <1>15, <1>16, <1>17, <1>18, <1>19, <1>20
<1> QED BY <1>0, <1>21 DEF Entry

\* A byte is written with two digits, no other byte with the same.
LEMMA HexDigitsAre ==
    ASSUME NEW b \in DOMAIN HexDigits
    PROVE  /\ HexDigits[b] = <<HexDigits[b][1], HexDigits[b][2]>>
           /\ HexDigits[b][1] \in Hexes /\ HexDigits[b][2] \in Hexes
           /\ \A c \in DOMAIN HexDigits :
                HexDigits[c][1] = HexDigits[b][1] /\ HexDigits[c][2] = HexDigits[b][2] => c = b
<1> DEFINE At(c) == CHOOSE i \in DOMAIN HexTable : HexTable[i][1] = c
<1>1. \A c \in DOMAIN HexDigits : \E i \in DOMAIN HexTable : HexTable[i][1] = c
  BY DEF HexDigits
<1>2. \A c \in DOMAIN HexDigits : HexDigits[c] = <<HexTable[At(c)][2], HexTable[At(c)][3]>>
  BY Zenon DEF HexDigits
<1>3. \A c \in DOMAIN HexDigits : At(c) \in DOMAIN HexTable /\ HexTable[At(c)][1] = c
  BY <1>1
<1> HIDE DEF At
<1>4. \A c \in DOMAIN HexDigits : HexDigits[c][1] = HexTable[At(c)][2] /\ HexDigits[c][2] = HexTable[At(c)][3]
  BY <1>2
<1>5. \A c \in DOMAIN HexDigits : At(c) \in 1 .. 20
  BY <1>3, HexTableIs
<1>6. HexDigits[b][1] \in Hexes /\ HexDigits[b][2] \in Hexes
  BY <1>4, <1>5, HexTableIs
<1>7. HexDigits[b] = <<HexDigits[b][1], HexDigits[b][2]>>
  BY <1>2
<1>8. ASSUME NEW c \in DOMAIN HexDigits,
             HexDigits[c][1] = HexDigits[b][1], HexDigits[c][2] = HexDigits[b][2]
      PROVE  c = b
  <2>1. HexTable[At(c)][2] = HexTable[At(b)][2] /\ HexTable[At(c)][3] = HexTable[At(b)][3]
    BY <1>4, <1>8
  <2>2. HexRow(HexTable[At(c)][2], HexTable[At(c)][3]) = At(c) /\ HexRow(HexTable[At(b)][2], HexTable[At(b)][3]) = At(b)
    BY <1>5, HexTableIs
  <2>3. At(c) = At(b)
    BY <2>1, <2>2
  <2> QED BY <1>3, <2>3
<1> QED BY <1>6, <1>7, <1>8

\* The bytes and their digits; and how the one are written with the other.
Written == DOMAIN HexDigits \cup Hexes
WritesHex == [b \in Written |-> IF b \in DOMAIN HexDigits THEN HexDigits[b] ELSE <<>>]

\* Every byte is written with two signs.
LEMMA WritesHexIs ==
    /\ WritesHex \in [Written -> Seq(Written)]
    /\ \A b \in DOMAIN HexDigits : b \in Written /\ WritesHex[b] = HexDigits[b]
<1>1. \A b \in DOMAIN HexDigits : HexDigits[b] \in Seq(Written)
  <2> SUFFICES ASSUME NEW b \in DOMAIN HexDigits PROVE HexDigits[b] \in Seq(Written)
    OBVIOUS
  <2> DEFINE x == HexDigits[b][1]
             y == HexDigits[b][2]
  <2>1. HexDigits[b] = <<x, y>> /\ x \in Written /\ y \in Written
    BY HexDigitsAre DEF Written
  <2> HIDE DEF x, y
  <2> QED BY <2>1
<1>2. <<>> \in Seq(Written)
  OBVIOUS
<1> QED BY <1>1, <1>2 DEF Written, WritesHex

\* The digits, one pair behind the other.
LEMMA HexadecimalSpells ==
    ASSUME NEW c \in Seq(DOMAIN HexDigits)
    PROVE  Hexadecimal(c) = Spelled(WritesHex, c) /\ c \in Seq(Written)
<1> DEFINE f == [i \in DOMAIN c |-> HexDigits[c[i]]]
           h == [i \in DOMAIN c |-> WritesHex[c[i]]]
<1>1. \A i \in DOMAIN c : c[i] \in DOMAIN HexDigits
  OBVIOUS
<1>2. f = h
  BY <1>1, WritesHexIs
<1>3. c \in Seq(Written)
  <2>1. DOMAIN HexDigits \subseteq Written
    BY DEF Written
  <2> QED BY <2>1, MoreSigns
<1> HIDE DEF f, h
<1>4. Hexadecimal(c) = FlattenSeq(f) /\ Spelled(WritesHex, c) = FlattenSeq(h)
  BY DEF Hexadecimal, Spelled, f, h
<1> QED BY <1>2, <1>3, <1>4

\* The two digits of the i-th byte, and that there are no others.
InPairs(c, d) ==
    /\ d \in Seq(Hexes) /\ Len(d) = 2 * Len(c)
    /\ \A i \in 1 .. Len(c) : d[2 * i - 1] = HexDigits[c[i]][1] /\ d[2 * i] = HexDigits[c[i]][2]

\* So ciphertext is written.
LEMMA HexadecimalPairs ==
    ASSUME NEW c \in Seq(DOMAIN HexDigits)
    PROVE  InPairs(c, Hexadecimal(c))
<1> DEFINE S == DOMAIN HexDigits
           F == WritesHex
           H(s) == Spelled(F, s)
           G == {s \in Seq(S) : InPairs(s, H(s))}
<1>0. S \subseteq Written /\ F \in [Written -> Seq(Written)]
  BY WritesHexIs DEF Written
<1>1. <<>> \in G
  <2>1. H(<<>>) = <<>>
    BY SpelledEmpty
  <2>2. InPairs(<<>>, <<>>)
    BY DEF InPairs
  <2> QED BY <2>1, <2>2
<1>2. ASSUME NEW s \in Seq(S), NEW x \in S, s \in G PROVE Append(s, x) \in G
  <2> DEFINE t == Append(s, x)
             a == H(s)
             e == HexDigits[x]
             n == Len(s)
  <2>1. H(t) = a \o e
    <3>1. F \in [Written -> Seq(Written)] /\ s \in Seq(Written) /\ x \in Written
      BY <1>0, MoreSigns
    <3>2. Spelled(F, Append(s, x)) = Spelled(F, s) \o F[x]
      BY ONLY <3>1, SpelledAppend
    <3> QED BY <3>2, WritesHexIs
  <2>2. t \in Seq(S) /\ n \in Nat /\ Len(t) = n + 1 /\ t[n + 1] = x /\ \A i \in 1 .. n : t[i] = s[i]
    BY OneMore
  <2>3. a \in Seq(Hexes) /\ Len(a) = 2 * n
        /\ \A i \in 1 .. n : a[2 * i - 1] = HexDigits[s[i]][1] /\ a[2 * i] = HexDigits[s[i]][2]
    BY <1>2 DEF InPairs
  <2>4. e \in Seq(Hexes) /\ Len(e) = 2
    <3> DEFINE y == e[1]
               z == e[2]
    <3>1. e = <<y, z>> /\ y \in Hexes /\ z \in Hexes
      BY HexDigitsAre
    <3> HIDE DEF y, z, e
    <3> QED BY <3>1
  <2>5. e[1] = HexDigits[x][1] /\ e[2] = HexDigits[x][2]
    OBVIOUS
  <2> DEFINE d == a \o e
  <2> HIDE DEF t, a, e, n, H
  <2>6. d \in Seq(Hexes) /\ Len(d) = 2 * n + 2
        /\ \A i \in 1 .. 2 * n + 2 : d[i] = IF i =< 2 * n THEN a[i] ELSE e[i - 2 * n]
    <3>1. a \in Seq(Hexes) /\ e \in Seq(Hexes)
      BY <2>3, <2>4
    <3>2. /\ a \o e \in Seq(Hexes) /\ Len(a \o e) = Len(a) + Len(e)
          /\ \A i \in 1 .. Len(a) + Len(e) : (a \o e)[i] = IF i =< Len(a) THEN a[i] ELSE e[i - Len(a)]
      BY ONLY <3>1, JoinIs
    <3> HIDE DEF d
    <3>3. /\ d \in Seq(Hexes) /\ Len(d) = Len(a) + Len(e)
          /\ \A i \in 1 .. Len(a) + Len(e) : d[i] = IF i =< Len(a) THEN a[i] ELSE e[i - Len(a)]
      BY <3>2 DEF d
    <3> QED BY <2>2, <2>3, <2>4, <3>3
  <2> HIDE DEF d
  <2>7. \A i \in 1 .. n + 1 : d[2 * i - 1] = HexDigits[t[i]][1] /\ d[2 * i] = HexDigits[t[i]][2]
    <3>1. ASSUME NEW i \in 1 .. n PROVE d[2 * i - 1] = HexDigits[t[i]][1] /\ d[2 * i] = HexDigits[t[i]][2]
      <4>1. 2 * i - 1 \in 1 .. 2 * n + 2 /\ 2 * i \in 1 .. 2 * n + 2 /\ 2 * i - 1 =< 2 * n /\ 2 * i =< 2 * n
        BY <2>2
      <4> QED BY <2>2, <2>3, <2>6, <4>1
    <3>2. d[2 * (n + 1) - 1] = e[1] /\ d[2 * (n + 1)] = e[2]
      <4> DEFINE k == 2 * n
      <4>1. k \in Nat /\ 2 * (n + 1) - 1 = k + 1 /\ 2 * (n + 1) = k + 2
        <5>1. n \in Nat
          BY <2>2
        <5> QED BY ONLY <5>1
      <4>2. \A i \in 1 .. k + 2 : d[i] = IF i =< k THEN a[i] ELSE e[i - k]
        BY <2>6
      <4> HIDE DEF k
      <4>3. d[k + 1] = e[1] /\ d[k + 2] = e[2]
        BY <4>1, <4>2
      <4> QED BY <4>1, <4>3
    <3>3. \A i \in 1 .. n + 1 : i \in 1 .. n \/ i = n + 1
      BY <2>2
    <3> QED BY <2>2, <2>5, <3>1, <3>2, <3>3
  <2>8. InPairs(t, d)
    BY <2>2, <2>6, <2>7 DEF InPairs
  <2> QED BY <2>1, <2>2, <2>8 DEF t, d
<1>3. \A s \in Seq(S) : s \in G
  <2> HIDE DEF G, S
  <2> QED BY <1>1, <1>2, SequenceInduction
<1>4. InPairs(c, H(c))
  BY <1>3
<1> QED BY <1>4, HexadecimalSpells

\* ReplaceBase64Code makes of the digits of EncryptDataBase64 the bytes again
\* that were written with them.
THEOREM DigitsReadBack ==
    ASSUME NEW c \in Seq(DOMAIN HexDigits)
    PROVE  ReplaceBase64Code(Hexadecimal(c)) = c
<1> DEFINE d == Hexadecimal(c)
           r == ReplaceBase64Code(d)
           n == Len(c)
<1>1. n \in Nat /\ DOMAIN c = 1 .. n /\ \A i \in 1 .. n : c[i] \in DOMAIN HexDigits
  BY SeqIs
<1>2. /\ Len(d) = 2 * n
      /\ \A i \in 1 .. n : d[2 * i - 1] = HexDigits[c[i]][1] /\ d[2 * i] = HexDigits[c[i]][2]
  BY HexadecimalPairs DEF InPairs
<1>3. r = [i \in 1 .. Len(d) \div 2 |-> ByteOf(d[2 * i - 1], d[2 * i])]
  BY DEF ReplaceBase64Code
<1> HIDE DEF d, r, n
<1>4. Len(d) \div 2 = n
  BY <1>1, <1>2
<1>5. ASSUME NEW b \in DOMAIN HexDigits PROVE ByteOf(HexDigits[b][1], HexDigits[b][2]) = b
  <2> DEFINE x == HexDigits[b][1]
             y == HexDigits[b][2]
             is == {k \in DOMAIN HexDigits : HexDigits[k] = <<x, y>>}
  <2>1. b \in is
    BY HexDigitsAre
  <2>2. \A k \in is : k = b
    BY HexDigitsAre
  <2>3. is = {b}
    BY <2>1, <2>2
  <2>4. ByteOf(x, y) = IF is = {} THEN Unreadable ELSE CHOOSE k \in is : TRUE
    BY DEF ByteOf
  <2> HIDE DEF is
  <2> QED BY <2>3, <2>4
<1>6. \A i \in 1 .. n : r[i] = c[i]
  BY <1>1, <1>2, <1>3, <1>4, <1>5
<1>7. r = [i \in 1 .. n |-> c[i]]
  BY <1>3, <1>4, <1>6
<1>8. c = [i \in 1 .. n |-> c[i]]
  BY <1>1
<1> QED BY <1>7, <1>8 DEF r, d

-------------------------------------------------------------------------------
(* The packet that a page shows                                             *)

\* A single byte in a text.
LEMMA OnePlace ==
    ASSUME NEW S, NEW d \in Seq(S), NEW x \in S, NEW k \in Nat \ {0}
    PROVE  \A i : i \in Places(d, <<x>>, k) <=> i \in k .. Len(d) /\ d[i] = x
<1> DEFINE s == <<x>>
<1>1. s \in Seq(S) /\ Len(s) = 1 /\ s[1] = x
  OBVIOUS
<1>2. Places(d, s, k) = Places(d, <<x>>, k)
  OBVIOUS
<1> HIDE DEF s
<1> SUFFICES ASSUME NEW i PROVE i \in Places(d, s, k) <=> i \in k .. Len(d) /\ d[i] = x
  BY <1>2
<1>3. i \in Places(d, s, k) <=> /\ i \in k .. Len(d) - Len(s) + 1
                                /\ \A j \in 1 .. Len(s) : d[i + j - 1] = s[j]
  <2>1. d \in Seq(S) /\ s \in Seq(S) /\ k \in Nat \ {0}
    BY <1>1
  <2> QED BY ONLY <2>1, PlacesIn
<1>4. Len(d) \in Nat /\ k .. Len(d) - Len(s) + 1 = k .. Len(d) /\ 1 .. Len(s) = {1}
  BY <1>1
<1>5. ASSUME i \in k .. Len(d) PROVE i + 1 - 1 = i
  BY <1>5
<1> QED BY <1>1, <1>3, <1>4, <1>5

\* The text b stands in d from the place k to the one before z.
Stands(S, d, k, z, b) ==
    /\ d \in Seq(S) /\ b \in Seq(S) /\ k \in Nat \ {0} /\ z = k + Len(b) /\ z =< Len(d)
    /\ \A i \in 1 .. Len(b) : d[k + i - 1] = b[i]

\* Between those places is that text.
LEMMA StandsThere ==
    ASSUME NEW S, NEW d, NEW k, NEW z, NEW b, Stands(S, d, k, z, b)
    PROVE  SubSeq(d, k, z - 1) = b
<1>1. /\ d \in Seq(S) /\ b \in Seq(S) /\ k \in Nat /\ k > 0 /\ z = k + Len(b) /\ z =< Len(d)
      /\ Len(b) \in Nat /\ Len(d) \in Nat
      /\ \A i \in 1 .. Len(b) : d[k + i - 1] = b[i]
  BY DEF Stands
<1> DEFINE e == SubSeq(d, k, z - 1)
           m == z - 1
<1>2. m \in Int /\ k \in Int /\ k =< m + 1 /\ m - k + 1 = Len(b)
  BY <1>1
<1>3. e \in Seq(S) /\ Len(e) = Len(b) /\ \A i \in 1 .. Len(b) : e[i] = d[k + i - 1]
  <2>1. \A i \in k .. m : d[i] \in S
    <3>1. \A i \in 1 .. Len(d) : d[i] \in S
      BY <1>1, SeqIs
    <3> QED BY <1>1, <3>1
  <2>2. e = SubSeq(d, k, m)
    OBVIOUS
  <2> HIDE DEF m, e
  <2>3. e \in Seq(S) /\ Len(e) = IF k =< m THEN m - k + 1 ELSE 0
    BY <1>2, <2>1, <2>2, SubSeqProperties
  <2>4. \A i \in 1 .. m - k + 1 : e[i] = d[k + i - 1]
    BY <1>2, <2>1, <2>2, SubSeqProperties
  <2>5. Len(b) = IF k =< m THEN m - k + 1 ELSE 0
    BY <1>1, <1>2
  <2> QED BY <1>2, <2>3, <2>4, <2>5
<1> HIDE DEF e
<1>4. e = b
  <2>1. \A i \in 1 .. Len(b) : e[i] = b[i]
    BY <1>1, <1>3
  <2>2. e \in Seq(S) /\ b \in Seq(S) /\ Len(e) = Len(b)
    BY <1>1, <1>3
  <2> QED BY <2>1, <2>2
<1> QED BY <1>4 DEF e

\* What closes a packet, and where: behind the text, not in it.
Closed(S, d, k, z, b, q) ==
    /\ Stands(S, d, k, z, b) /\ q \in S /\ EndFlag \in S /\ d[Len(d)] = q
    /\ d[z] = EndFlag \/ d[z] = q
    /\ \A i \in 1 .. Len(b) : b[i] # q
    /\ \A s \in Terminators \cup {<<EndFlag>>} : \A i \in k .. z - 1 : i \notin Places(d, s, k)

\* Where the packet that begins at k ends in a page that goes no further.
PacketAt(d, k, c) == PacketEnd(d, k, CloserAt(d, k, c, FALSE))

\* The packet is that text.
LEMMA PacketThere ==
    ASSUME NEW S, NEW d, NEW k, NEW z, NEW b, NEW q, Closed(S, d, k, z, b, q),
           NEW c \in DOMAIN Closers, Closers[c] = q
    PROVE  PacketAt(d, k, c) = z
<1>1. /\ d \in Seq(S) /\ b \in Seq(S) /\ k \in Nat \ {0} /\ z = k + Len(b) /\ z =< Len(d)
      /\ Len(b) \in Nat /\ Len(d) \in Nat /\ z \in Nat /\ k =< z
      /\ \A i \in 1 .. Len(b) : d[k + i - 1] = b[i]
      /\ q \in S /\ EndFlag \in S /\ d[Len(d)] = q /\ (d[z] = EndFlag \/ d[z] = q)
      /\ \A i \in 1 .. Len(b) : b[i] # q
      /\ \A s \in Terminators \cup {<<EndFlag>>} : \A i \in k .. z - 1 : i \notin Places(d, s, k)
  BY DEF Closed, Stands
<1> DEFINE at == Places(d, <<q>>, k)
           e == CloserAt(d, k, c, FALSE)
           flags == Places(d, <<EndFlag>>, k)
           ends == UNION {Places(d, s, k) : s \in Terminators \cup {<<EndFlag>>}}
           some == (ends \cap k .. e) \cup {e}
<1>2. \A i : i \in at <=> i \in k .. Len(d) /\ d[i] = q
  <2>1. d \in Seq(S) /\ q \in S /\ k \in Nat \ {0}
    BY <1>1
  <2> QED BY ONLY <2>1, OnePlace
<1>3. \A i : i \in flags <=> i \in k .. Len(d) /\ d[i] = EndFlag
  <2>1. d \in Seq(S) /\ EndFlag \in S /\ k \in Nat \ {0}
    BY <1>1
  <2> QED BY ONLY <2>1, OnePlace
<1>4. e = IF at = {} THEN 0 ELSE Min(at)
  BY DEF CloserAt
<1>5. PacketEnd(d, k, e) = IF e = 0 THEN PacketEnd(d, k, 0) ELSE Min(some)
  BY DEF PacketEnd
<1>6. \A i \in ends : \A j \in k .. z - 1 : i # j
  BY <1>1
<1>7. flags \subseteq ends
  OBVIOUS
<1> HIDE DEF e, at, flags, ends
<1>8. Len(d) \in at
  <2>1. Len(d) \in k .. Len(d) /\ d[Len(d)] = q
    BY <1>1
  <2> QED BY <1>2, <2>1
<1>9. at \in SUBSET Nat /\ at # {}
  BY <1>1, <1>2, <1>8
<1>10. e \in at /\ \A i \in at : e =< i
  BY <1>4, <1>9, MinIn
<1>11. e \in Nat /\ z =< e /\ e # 0
  <2>1. e \in k .. Len(d) /\ d[e] = q
    BY <1>2, <1>10
  <2>2. ASSUME e < z PROVE FALSE
    <3> DEFINE i == e - k + 1
    <3>1. i \in 1 .. Len(b) /\ k + i - 1 = e
      BY <1>1, <2>1, <2>2
    <3> HIDE DEF i
    <3> QED BY <1>1, <2>1, <3>1
  <2> QED BY <1>1, <2>1, <2>2
<1>12. some \in SUBSET Nat /\ some # {} /\ \A i \in some : z =< i
  <2>1. \A i \in ends \cap k .. e : z =< i
    BY <1>1, <1>6, <1>11
  <2>2. ends \cap k .. e \subseteq Nat
    BY <1>1, <1>11
  <2> QED BY <1>11, <2>1, <2>2
<1>13. z \in some
  <2>1. CASE d[z] = EndFlag
    <3>1. z \in flags
      BY <1>1, <1>3, <2>1
    <3> QED BY <1>1, <1>7, <1>11, <3>1
  <2>2. CASE d[z] = q
    <3>1. z \in at
      BY <1>1, <1>2, <2>2
    <3>2. z = e
      BY <1>1, <1>10, <1>11, <3>1
    <3> QED BY <3>2
  <2> QED BY <1>1, <2>1, <2>2
<1> HIDE DEF some
<1>14. Min(some) \in some /\ \A i \in some : Min(some) =< i
  BY <1>12, MinIn
<1>15. Min(some) = z
  <2>1. Min(some) =< z /\ z =< Min(some) /\ Min(some) \in Nat
    BY <1>12, <1>13, <1>14
  <2> QED BY <1>1, <2>1
<1>16. PacketEnd(d, k, e) = z
  BY <1>5, <1>11, <1>15
<1> QED BY <1>16 DEF PacketAt, e

\* Of two numbers of a set with as many up to the one as up to the other.
LEMMA SameRank ==
    ASSUME NEW X \in SUBSET Nat, NEW g \in X, NEW h \in X,
           Cardinality({x \in X : x =< g}) = Cardinality({x \in X : x =< h})
    PROVE  g = h
<1> DEFINE Upto(a) == {x \in X : x =< a}
<1>0. \A a, x : x \in Upto(a) <=> x \in X /\ x =< a
  OBVIOUS
<1> HIDE DEF Upto
<1>1. ASSUME NEW a \in X, NEW b \in X, a < b, Cardinality(Upto(a)) = Cardinality(Upto(b))
      PROVE  FALSE
  <2> DEFINE A == Upto(a)
             B == Upto(b)
  <2>1. A \subseteq B /\ b \in B /\ b \notin A
    <3>1. a \in Nat /\ b \in Nat /\ \A x \in A : x \in Nat /\ x \in X /\ x =< a
      BY <1>0
    <3>2. \A x \in A : x =< b
      BY <1>1, <3>1
    <3>3. b =< b /\ ~ (b =< a)
      BY <1>1, <3>1
    <3> QED BY <1>0, <3>1, <3>2, <3>3
  <2>2. IsFiniteSet(B)
    <3>1. IsFiniteSet(0 .. b)
      BY FS_Interval
    <3>2. B \subseteq 0 .. b
      <4>1. b \in Nat /\ \A x \in B : x \in Nat /\ x =< b
        BY <1>0
      <4> QED BY <4>1
    <3> QED BY <3>1, <3>2, FS_Subset
  <2>3. Cardinality(A) = Cardinality(B)
    BY <1>1
  <2> HIDE DEF A, B
  <2>4. IsFiniteSet(A) /\ Cardinality(A) =< Cardinality(B) /\ (Cardinality(A) = Cardinality(B) => A = B)
    BY <2>1, <2>2, FS_Subset
  <2> QED BY <2>1, <2>3, <2>4
<1>2. g \in Nat /\ h \in Nat
  OBVIOUS
<1>3. Cardinality(Upto(g)) = Cardinality(Upto(h))
  BY DEF Upto
<1> QED BY <1>1, <1>2, <1>3

\* The head of the n-th packet is the one with n heads up to it.
LEMMA NthHead ==
    ASSUME NEW heads \in SUBSET Nat, NEW h \in heads, NEW n,
           Cardinality({g \in heads : g =< h}) = n
    PROVE  (CHOOSE g \in heads : Cardinality({x \in heads : x =< g}) = n) = h
<1> DEFINE w == CHOOSE g \in heads : Cardinality({x \in heads : x =< g}) = n
<1>1. w \in heads /\ Cardinality({x \in heads : x =< w}) = n
  OBVIOUS
<1> HIDE DEF w
<1>2. w = h
  BY <1>1, SameRank
<1> QED BY <1>2 DEF w

\* The character that ends a line.
LineFeed == "\n"

\* Bytes that are escaped, which the ends of packets begin with.
LEMMA SpecialsAre ==
    /\ "<" \in Specials /\ " " \in Specials /\ "(" \in Specials /\ "/" \in Specials /\ "[" \in Specials
    /\ ":" \in Specials /\ "-" \in Specials /\ "]" \in Specials /\ "&" \in Specials /\ "ff" \in Specials
    /\ "fd" \in Specials /\ "'" \in Specials /\ "\"" \in Specials /\ "%" \in Specials
    /\ LineFeed \in Specials
<1>1. \A n \in 1 .. 20 : ByteAt(n) \in Specials
  BY EscapeTable DEF Specials
<1>2. ByteAt(4) = "<" /\ ByteAt(1) = " " /\ ByteAt(11) = "(" /\ ByteAt(12) = "/" /\ ByteAt(13) = "["
  BY Zenon DEF ByteAt, EscapedBytes
<1>3. ByteAt(14) = ":" /\ ByteAt(15) = "-" /\ ByteAt(16) = "]" /\ ByteAt(5) = "&" /\ ByteAt(19) = "ff"
  BY Zenon DEF ByteAt, EscapedBytes
<1>4. ByteAt(18) = "fd" /\ ByteAt(8) = "'" /\ ByteAt(6) = "\"" /\ ByteAt(2) = LineFeed /\ ByteAt(9) = "%"
  BY Zenon DEF ByteAt, EscapedBytes, LineFeed
<1>5. /\ 1 \in 1 .. 20 /\ 2 \in 1 .. 20 /\ 4 \in 1 .. 20 /\ 5 \in 1 .. 20 /\ 6 \in 1 .. 20 /\ 8 \in 1 .. 20
      /\ 9 \in 1 .. 20 /\ 11 \in 1 .. 20
      /\ 12 \in 1 .. 20 /\ 13 \in 1 .. 20 /\ 14 \in 1 .. 20 /\ 15 \in 1 .. 20 /\ 16 \in 1 .. 20
      /\ 18 \in 1 .. 20 /\ 19 \in 1 .. 20
  OBVIOUS
<1>6. ByteAt(4) \in Specials /\ ByteAt(1) \in Specials /\ ByteAt(11) \in Specials /\ ByteAt(12) \in Specials /\ ByteAt(13) \in Specials
  BY <1>1, <1>5
<1>7. ByteAt(14) \in Specials /\ ByteAt(15) \in Specials /\ ByteAt(16) \in Specials /\ ByteAt(5) \in Specials /\ ByteAt(19) \in Specials
  BY <1>1, <1>5
<1>8. ByteAt(18) \in Specials /\ ByteAt(8) \in Specials /\ ByteAt(6) \in Specials /\ ByteAt(2) \in Specials /\ ByteAt(9) \in Specials
  BY <1>1, <1>5
<1> QED BY <1>2, <1>3, <1>4, <1>6, <1>7, <1>8, Zenon

\* The signs that ends of packets are written with.
Enders == Specials \cup {"n", "b", "s", "p", ";", "\t", "a1", "bc", "bd", "fe", "1f"}

\* A text of one sign or two.
LEMMA FewSigns ==
    ASSUME NEW S, NEW x \in S, NEW y \in S
    PROVE  /\ <<x>> \in Seq(S) /\ Len(<<x>>) = 1 /\ <<x>>[1] = x
           /\ <<x, y>> \in Seq(S) /\ Len(<<x, y>>) = 2 /\ <<x, y>>[1] = x /\ <<x, y>>[2] = y
           /\ ToSet(<<x, y>>) = {x, y}
<1>1. ToSet(<<x, y>>) = {x, y}
  BY DEF ToSet
<1> QED BY <1>1

\* What ends a packet: a byte that is escaped, or text that begins with one; a
\* line break; or two bytes that are not escaped.
EndsPacket(s) ==
    /\ s \in Seq(Enders) /\ Len(s) > 0
    /\ \/ s[1] \in Specials
       \/ s[1] = "\t" /\ Len(s) = 2 /\ s[2] = LineFeed
       \/ /\ s[1] = "a1" /\ Len(s) = 2 /\ s[2] \in {"bc", "bd"} /\ s \in Terminators
          /\ ToSet(s) \cap Specials = {}

\* The bytes that end a packet though they are not escaped.
Unescaped == {"a1", "bc", "bd"}

\* They are in no row of the table.
LEMMA NotEscaped == \A b \in Unescaped : b \notin Specials
<1> DEFINE Entry(n) == EscapedBytes[n][1] \notin Unescaped
<1>1. Entry(1)
  BY Zenon DEF EscapedBytes, Unescaped
<1>2. Entry(2)
  BY Zenon DEF EscapedBytes, Unescaped
<1>3. Entry(3)
  BY Zenon DEF EscapedBytes, Unescaped
<1>4. Entry(4)
  BY Zenon DEF EscapedBytes, Unescaped
<1>5. Entry(5)
  BY Zenon DEF EscapedBytes, Unescaped
<1>6. Entry(6)
  BY Zenon DEF EscapedBytes, Unescaped
<1>7. Entry(7)
  BY Zenon DEF EscapedBytes, Unescaped
<1>8. Entry(8)
  BY Zenon DEF EscapedBytes, Unescaped
<1>9. Entry(9)
  BY Zenon DEF EscapedBytes, Unescaped
<1>10. Entry(10)
  BY Zenon DEF EscapedBytes, Unescaped
<1>11. Entry(11)
  BY Zenon DEF EscapedBytes, Unescaped
<1>12. Entry(12)
  BY Zenon DEF EscapedBytes, Unescaped
<1>13. Entry(13)
  BY Zenon DEF EscapedBytes, Unescaped
<1>14. Entry(14)
  BY Zenon DEF EscapedBytes, Unescaped
<1>15. Entry(15)
  BY Zenon DEF EscapedBytes, Unescaped
<1>16. Entry(16)
  BY Zenon DEF EscapedBytes, Unescaped
<1>17. Entry(17)
  BY Zenon DEF EscapedBytes, Unescaped
<1>18. Entry(18)
  BY Zenon DEF EscapedBytes, Unescaped
<1>19. Entry(19)
  BY Zenon DEF EscapedBytes, Unescaped
<1>20. Entry(20)
  BY Zenon DEF EscapedBytes, Unescaped
<1> HIDE DEF Entry
<1>21. \A n \in 1 .. 20 : Entry(n)
  BY <1>1, <1>2, <1>3, <1>4, <1>5, <1>6, <1>7, <1>8, <1>9, <1>10, <1>11, <1>12, <1>13, <1>14, <1>15, <1>16, <1>17, <1>18, <1>19, <1>20
<1> QED BY <1>21, EscapeTable DEF ByteAt, Entry, Specials

\* A line that is ended behind a tab, and a blank that breaks no line.
TabFeed == <<"\t", "\n">>
Nbsp == <<"&", "n", "b", "s", "p", ";">>

\* All that ends a packet is of one of these kinds.
LEMMA EndersAre == \A s \in Terminators \cup {<<EndFlag>>} : EndsPacket(s)
<1> DEFINE Nine == {"<", " ", LineFeed, "(", "/", "[", ":", "-", "]"}
<1>1. \A s \in Terminators \cup {<<EndFlag>>} :
         \/ \E b \in Nine : s = <<b>>
         \/ s = TabFeed \/ s = Nbsp \/ s = <<"a1", "bc">> \/ s = <<"a1", "bd">>
         \/ s = Heads[0] \/ s = Heads[1] \/ s = <<EndFlag>>
  BY Zenon DEF Terminators, TabFeed, Nbsp, ShortHeads, LineFeed
<1>2. Nine \subseteq Specials
  BY SpecialsAre, Zenon
<1>3. Specials \subseteq Enders /\ \A x \in {"n", "b", "s", "p", ";", "\t", "a1", "bc", "bd", "fe", "1f"} : x \in Enders
  BY Zenon DEF Enders
<1> HIDE DEF Nine
<1>4. ASSUME NEW b \in Specials PROVE EndsPacket(<<b>>)
  <2>1. <<b>> \in Seq(Enders) /\ Len(<<b>>) = 1 /\ <<b>>[1] = b
    BY <1>3, FewSigns
  <2> QED BY <2>1 DEF EndsPacket
<1>5. EndsPacket(TabFeed)
  <2> DEFINE x == "\t"
             y == LineFeed
  <2>1. TabFeed = <<x, y>>
    BY Zenon DEF TabFeed, LineFeed
  <2>2. x \in Enders /\ y \in Enders
    BY <1>3, SpecialsAre, Zenon
  <2>3. x = "\t"
    OBVIOUS
  <2> HIDE DEF x, y
  <2>4. <<x, y>> \in Seq(Enders) /\ Len(<<x, y>>) = 2 /\ <<x, y>>[1] = x /\ <<x, y>>[2] = y
    BY <2>2, FewSigns
  <2>5. TabFeed \in Seq(Enders) /\ Len(TabFeed) = 2 /\ TabFeed[1] = x /\ TabFeed[2] = y
    BY <2>1, <2>4
  <2>6. Len(TabFeed) > 0
    BY <2>5
  <2> QED BY <2>3, <2>5, <2>6, Zenon DEF EndsPacket, y
<1>6. EndsPacket(Nbsp)
  <2> DEFINE a == "&"
             n == "n"
             b == "b"
             s == "s"
             p == "p"
             e == ";"
  <2>1. Nbsp = <<a, n, b, s, p, e>>
    BY DEF Nbsp
  <2>2. a \in Enders /\ n \in Enders /\ b \in Enders /\ s \in Enders /\ p \in Enders /\ e \in Enders
    BY <1>3, SpecialsAre, Zenon
  <2>3. n # a /\ b # a /\ s # a /\ p # a /\ e # a
    BY Zenon
  <2>4. a \in Specials
    BY SpecialsAre, Zenon
  <2> HIDE DEF a, n, b, s, p, e
  <2>5. Row6(Enders, Nbsp, a, n, b, s, p, e)
    BY <2>1, <2>2, <2>3 DEF Row6
  <2>6. Singular(Enders, Nbsp) /\ Nbsp[1] = a
    BY <2>5, SingularSix
  <2> QED BY <2>4, <2>6 DEF EndsPacket, Singular
<1>7. EndsPacket(Heads[0]) /\ EndsPacket(Heads[1])
  <2>1. "ff" \in Specials /\ "[" \in Specials
    BY SpecialsAre, Zenon
  <2>2. ASSUME NEW x \in Specials, NEW y \in Enders, NEW h, h = <<x, y>> PROVE EndsPacket(h)
    <3>1. <<x, y>> \in Seq(Enders) /\ Len(<<x, y>>) = 2 /\ <<x, y>>[1] = x
      BY <1>3, FewSigns
    <3> QED BY <2>2, <3>1 DEF EndsPacket
  <2>3. Heads[0] = <<"ff", "fe">> /\ Heads[1] = <<"[", "1f">>
    BY DEF Heads
  <2>4. "fe" \in Enders /\ "1f" \in Enders
    BY <1>3, Zenon
  <2> QED BY <2>1, <2>2, <2>3, <2>4
<1>8. ASSUME NEW y \in {"bc", "bd"}, <<"a1", y>> \in Terminators PROVE EndsPacket(<<"a1", y>>)
  <2> DEFINE x == "a1"
             h == <<x, y>>
  <2>1. x \in Enders /\ y \in Enders /\ x \in Unescaped /\ y \in Unescaped /\ x = "a1"
    BY <1>3, Zenon DEF Unescaped
  <2>2. x \notin Specials /\ y \notin Specials
    BY <2>1, NotEscaped
  <2>3. h \in Terminators
    BY <1>8
  <2> HIDE DEF x
  <2>4. h \in Seq(Enders) /\ Len(h) = 2 /\ h[1] = x /\ h[2] = y /\ ToSet(h) = {x, y}
    BY <2>1, FewSigns
  <2> HIDE DEF h
  <2>5. ToSet(h) \cap Specials = {}
    BY <2>2, <2>4
  <2>6. EndsPacket(h)
    BY <2>1, <2>3, <2>4, <2>5 DEF EndsPacket
  <2> QED BY <2>6 DEF h, x
<1>9. <<"a1", "bc">> \in Terminators /\ <<"a1", "bd">> \in Terminators
  BY Zenon DEF Terminators
<1>10. EndsPacket(<<"a1", "bc">>) /\ EndsPacket(<<"a1", "bd">>)
  BY <1>8, <1>9
<1>11. EndFlag \in Specials
  BY SpecialsAre, Zenon DEF EndFlag
<1> SUFFICES ASSUME NEW s \in Terminators \cup {<<EndFlag>>} PROVE EndsPacket(s)
  OBVIOUS
<1> QED BY <1>1, <1>2, <1>4, <1>5, <1>6, <1>7, <1>10, <1>11, Zenon

\* What closes a packet.
LEMMA ClosersAre ==
    ASSUME NEW c \in DOMAIN Closers
    PROVE  Closers[c] \in {"'", "\"", "<", ")", "&"} /\ (Closers[c] = ")" => c = "(")
<1>1. c \in {"'", "\"", ">", "(", "=", " "}
  BY Zenon DEF Closers
<1>2. Closers[c] = CASE c = "(" -> ")" [] c = "=" -> "&" [] c \in {">", " "} -> "<" [] OTHER -> c
  BY <1>1, Zenon DEF Closers
<1>3. CASE c = "("
  BY <1>2, <1>3, Zenon
<1>4. CASE c = "="
  BY <1>2, <1>4, Zenon
<1>5. CASE c \in {">", " "}
  BY <1>2, <1>5, Zenon
<1>6. CASE c \in {"'", "\""}
  BY <1>2, <1>6, Zenon
<1> QED BY <1>1, <1>3, <1>4, <1>5, <1>6, Zenon

\* A sign that no escape is written with is in the text where it is in what is
\* written.
LEMMA SignRaw ==
    ASSUME NEW K, Writes(K), NEW x, x \notin Signs, NEW c \in Seq(Octet), NEW a, a = Spelled(K, c),
           NEW i \in 1 .. Len(a), a[i] = x
    PROVE  \E j \in 1 .. Len(c) : c[j] = x
<1> DEFINE Has(s) == \E j \in 1 .. Len(s) : s[j] = x
           G == {s \in Seq(Octet) : Has(Spelled(K, s)) => Has(s)}
<1>0. K \in [Octet -> Seq(Octet)]
  BY DEF Writes
<1>1. <<>> \in G
  <2>1. Spelled(K, <<>>) = <<>>
    BY SpelledEmpty
  <2> QED BY <2>1
<1>2. ASSUME NEW s \in Seq(Octet), NEW b \in Octet, s \in G PROVE Append(s, b) \in G
  <2> DEFINE p == Spelled(K, s)
             t == K[b]
             u == Append(s, b)
             w == p \o t
  <2>1. Spelled(K, u) = w
    <3>1. K \in [Octet -> Seq(Octet)] /\ s \in Seq(Octet) /\ b \in Octet
      BY <1>0
    <3> QED BY ONLY <3>1, SpelledAppend
  <2>2. p \in Seq(Octet) /\ t \in Seq(Octet)
    BY <1>0, SpelledIs
  <2>3. t = <<b>> \/ t \in Seq(Signs)
    <3>1. t = <<b>> \/ \E m \in 1 .. 20 : t = Escape(m)
      BY DEF Writes
    <3> QED BY <3>1, EscapeIs
  <2>4. u \in Seq(Octet) /\ Len(s) \in Nat /\ Len(u) = Len(s) + 1 /\ u[Len(s) + 1] = b /\ \A j \in 1 .. Len(s) : u[j] = s[j]
    BY OneMore
  <2>5. Has(p) => Has(s)
    BY <1>2
  <2> HIDE DEF p, t, u
  <2>6. /\ Len(w) = Len(p) + Len(t) /\ Len(p) \in Nat /\ Len(t) \in Nat
        /\ \A j \in 1 .. Len(p) + Len(t) : w[j] = IF j =< Len(p) THEN p[j] ELSE t[j - Len(p)]
    BY <2>2, JoinIs
  <2> HIDE DEF w
  <2>7. ASSUME Has(w) PROVE Has(u)
    <3>1. PICK j \in 1 .. Len(w) : w[j] = x
      BY <2>7
    <3>2. CASE j =< Len(p)
      <4>1. Has(p)
        BY <2>6, <3>1, <3>2
      <4>2. PICK k \in 1 .. Len(s) : s[k] = x
        BY <2>5, <4>1
      <4>3. k \in 1 .. Len(u) /\ u[k] = x
        BY <2>4, <4>2
      <4> QED BY <4>3
    <3>3. CASE j > Len(p)
      <4>1. PICK k \in 1 .. Len(t) : t[k] = x
        <5>1. j - Len(p) \in 1 .. Len(t) /\ t[j - Len(p)] = x
          BY <2>6, <3>1, <3>3
        <5> QED BY <5>1
      <4>2. t \notin Seq(Signs)
        <5> SUFFICES ASSUME t \in Seq(Signs) PROVE FALSE
          OBVIOUS
        <5>1. t[k] \in Signs
          BY SeqIs
        <5> QED BY <4>1, <5>1
      <4>3. x = b
        BY <2>3, <4>1, <4>2
      <4>4. Len(s) + 1 \in 1 .. Len(u)
        BY <2>4
      <4> QED BY <2>4, <4>3, <4>4
    <3> QED BY <2>6, <3>1, <3>2, <3>3
  <2> QED BY <2>1, <2>4, <2>7 DEF u
<1>3. \A s \in Seq(Octet) : s \in G
  <2> HIDE DEF G
  <2> QED BY <1>1, <1>2, SequenceInduction
<1>4. Has(Spelled(K, c)) => Has(c)
  BY <1>3
<1> QED BY <1>4

\* One sign and the next.
HasPair(s, x, y) == \E i \in 1 .. Len(s) - 1 : s[i] = x /\ s[i + 1] = y

\* Two such signs follow each other in the text where they do in what is written.
LEMMA PairRaw ==
    ASSUME NEW K, Writes(K), NEW x, x \notin Signs, NEW y, y \notin Signs, NEW c \in Seq(Octet),
           NEW a, a = Spelled(K, c), HasPair(a, x, y)
    PROVE  HasPair(c, x, y)
<1> DEFINE G == {s \in Seq(Octet) : HasPair(Spelled(K, s), x, y) => HasPair(s, x, y)}
<1>0. K \in [Octet -> Seq(Octet)]
  BY DEF Writes
<1>1. <<>> \in G
  <2>1. Spelled(K, <<>>) = <<>>
    BY SpelledEmpty
  <2> QED BY <2>1
<1>2. ASSUME NEW s \in Seq(Octet), NEW b \in Octet, s \in G PROVE Append(s, b) \in G
  <2> DEFINE p == Spelled(K, s)
             t == K[b]
             u == Append(s, b)
             w == p \o t
  <2>1. Spelled(K, u) = w
    <3>1. K \in [Octet -> Seq(Octet)] /\ s \in Seq(Octet) /\ b \in Octet
      BY <1>0
    <3> QED BY ONLY <3>1, SpelledAppend
  <2>2. p \in Seq(Octet) /\ t \in Seq(Octet)
    BY <1>0, SpelledIs
  <2>3. t = <<b>> \/ t \in Seq(Signs)
    <3>1. t = <<b>> \/ \E m \in 1 .. 20 : t = Escape(m)
      BY DEF Writes
    <3> QED BY <3>1, EscapeIs
  <2>4. u \in Seq(Octet) /\ Len(s) \in Nat /\ Len(u) = Len(s) + 1 /\ u[Len(s) + 1] = b /\ \A j \in 1 .. Len(s) : u[j] = s[j]
    BY OneMore
  <2>5. HasPair(p, x, y) => HasPair(s, x, y)
    BY <1>2
  <2>9. ASSUME Len(p) > 0, p[Len(p)] = x PROVE Len(s) > 0 /\ s[Len(s)] = x
    <3>1. x # Ender
      BY Zenon DEF Signs, Ender
    <3>2. PICK q, z : EndsPlain(K, s, q, z)
      BY <2>2, <2>9, <3>1, EndingPlain
    <3>3. q \in Seq(Octet) /\ z \in Octet /\ s = Append(q, z) /\ z = p[Len(p)]
      BY <3>2 DEF EndsPlain
    <3> HIDE DEF p
    <3>4. Len(Append(q, z)) = Len(q) + 1 /\ Append(q, z)[Len(q) + 1] = z /\ Len(q) \in Nat
      BY <3>3, OneMore
    <3> QED BY <2>9, <3>3, <3>4
  <2> HIDE DEF p, t, u
  <2>6. /\ Len(w) = Len(p) + Len(t) /\ Len(p) \in Nat /\ Len(t) \in Nat
        /\ \A j \in 1 .. Len(p) + Len(t) : w[j] = IF j =< Len(p) THEN p[j] ELSE t[j - Len(p)]
    BY <2>2, JoinIs
  <2> HIDE DEF w
  <2>7. ASSUME HasPair(w, x, y) PROVE HasPair(u, x, y)
    <3>1. PICK j \in 1 .. Len(w) - 1 : w[j] = x /\ w[j + 1] = y
      BY <2>7 DEF HasPair
    <3>2. CASE j + 1 =< Len(p)
      <4>1. j \in 1 .. Len(p) - 1 /\ p[j] = x /\ p[j + 1] = y
        BY <2>6, <3>1, <3>2
      <4>2. PICK k \in 1 .. Len(s) - 1 : s[k] = x /\ s[k + 1] = y
        BY <2>5, <4>1 DEF HasPair
      <4>3. k \in 1 .. Len(u) - 1 /\ u[k] = x /\ u[k + 1] = y
        BY <2>4, <4>2
      <4> QED BY <4>3 DEF HasPair
    <3>3. CASE j + 1 > Len(p)
      <4>1. PICK k \in 1 .. Len(t) : t[k] = y /\ k = j + 1 - Len(p)
        <5>1. j + 1 - Len(p) \in 1 .. Len(t) /\ t[j + 1 - Len(p)] = y
          BY <2>6, <3>1, <3>3
        <5> QED BY <5>1
      <4>2. t \notin Seq(Signs)
        <5> SUFFICES ASSUME t \in Seq(Signs) PROVE FALSE
          OBVIOUS
        <5>1. t[k] \in Signs
          BY SeqIs
        <5> QED BY <4>1, <5>1
      <4>3. y = b /\ k = 1
        <5>1. t = <<b>>
          BY <2>3, <4>2
        <5>2. Len(t) = 1 /\ t[1] = b
          BY <5>1
        <5>3. k = 1
          BY <4>1, <5>2
        <5> QED BY <4>1, <5>2, <5>3
      <4>4. j = Len(p)
        BY <2>6, <3>1, <4>1, <4>3
      <4>5. Len(p) > 0 /\ p[Len(p)] = x
        BY <2>6, <3>1, <4>4
      <4>6. Len(s) > 0 /\ s[Len(s)] = x
        BY <2>9, <4>5
      <4>7. Len(s) \in 1 .. Len(u) - 1 /\ u[Len(s)] = x /\ u[Len(s) + 1] = y
        BY <2>4, <4>3, <4>6
      <4> QED BY <4>7 DEF HasPair
    <3> QED BY <2>6, <3>1, <3>2, <3>3
  <2> QED BY <2>1, <2>4, <2>7 DEF u
<1>3. \A s \in Seq(Octet) : s \in G
  <2> HIDE DEF G
  <2> QED BY <1>1, <1>2, SequenceInduction
<1>4. HasPair(Spelled(K, c), x, y) => HasPair(c, x, y)
  BY <1>3
<1> QED BY <1>4

\* Ciphertext that the filter reads, written as it is, as the end of the packet.
Breaks(c, code) ==
    \/ \E s \in Terminators : Places(c, s, 1) # {} /\ ToSet(s) \cap Specials = {}
    \/ code = "(" /\ ")" \in ToSet(c)
    \/ IsSuffix(Dots, c)

\* What stands behind a packet: the flag, or what closes it.
Behinds(S, d, z, q, code) ==
    /\ q \in S /\ EndFlag \in S /\ d[Len(d)] = q /\ (d[z] = EndFlag \/ d[z] = q)
    /\ code \in DOMAIN Closers /\ q = Closers[code]

\* That begins no line and ends no pair of bytes.
LEMMA BehindsEnd ==
    ASSUME NEW S, NEW d, NEW z, NEW q, NEW code, Behinds(S, d, z, q, code)
    PROVE  d[z] # LineFeed /\ d[z] # "bc" /\ d[z] # "bd"
<1>1. q \in {"'", "\"", "<", ")", "&"}
  BY ClosersAre DEF Behinds
<1>2. d[z] = EndFlag \/ d[z] = q
  BY DEF Behinds
<1>3. EndFlag \notin {LineFeed, "bc", "bd"}
  BY Zenon DEF EndFlag, LineFeed
<1>4. q \notin {LineFeed, "bc", "bd"}
  BY <1>1, Zenon DEF LineFeed
<1> QED BY <1>2, <1>3, <1>4, Zenon

\* What a place of a text in another is.
LEMMA PlaceThere ==
    ASSUME NEW T, NEW d, NEW s, NEW k, NEW i, d \in Seq(T), s \in Seq(T), k \in Nat \ {0}
    PROVE  i \in Places(d, s, k) <=> /\ i \in k .. Len(d) - Len(s) + 1
                                     /\ \A j \in 1 .. Len(s) : d[i + j - 1] = s[j]
BY PlacesIn

\* What is written for ciphertext is closed by what is behind it.
LEMMA EscapedCloses ==
    ASSUME NEW S, NEW c \in Seq(Octet), NEW a, a = Spelled(EscapesFrom(0), c), NEW d, NEW k, NEW z,
           Stands(S, d, k, z, a), NEW q, NEW code, Behinds(S, d, z, q, code), ~ Breaks(c, code)
    PROVE  Closed(S, d, k, z, a, q)
<1> DEFINE K == EscapesFrom(0)
<1>0. Writes(K)
  <2>1. 0 \in 0 .. 20
    OBVIOUS
  <2> QED BY <2>1, EscapesFromWrites
<1>1. a = Spelled(K, c)
  OBVIOUS
<1> HIDE DEF K
<1>2. \A i \in 1 .. Len(a) : a[i] \in Octet \ Specials
  <2>1. a \in Seq(Octet \ Specials)
    BY SpelledClear
  <2> QED BY <2>1, SeqIs
<1>3. \A i \in 1 .. Len(a) : a[i] # q
  <2>1. q \in {"'", "\"", "<", ")", "&"} /\ (q = ")" => code = "(")
    BY ClosersAre DEF Behinds
  <2>2. CASE q = ")"
    <3>1. ")" \notin ToSet(c)
      BY <2>1, <2>2 DEF Breaks
    <3>2. \A j \in 1 .. Len(c) : c[j] # ")"
      BY <3>1 DEF ToSet
    <3>3. ")" \notin Signs
      BY Zenon DEF Signs
    <3>4. ASSUME NEW i \in 1 .. Len(a), a[i] = ")" PROVE FALSE
      <4> DEFINE x == ")"
      <4>1. a[i] = x /\ x \notin Signs /\ \A j \in 1 .. Len(c) : c[j] # x
        BY <3>2, <3>3, <3>4
      <4> HIDE DEF x
      <4> QED BY <1>0, <1>1, <4>1, SignRaw
    <3> QED BY <2>2, <3>4
  <2>3. CASE q # ")"
    <3>1. q \in Specials
      BY <2>1, <2>3, SpecialsAre, Zenon
    <3> QED BY <1>2, <3>1
  <2> QED BY <2>2, <2>3
<1>4. ASSUME NEW s, s \in Terminators \cup {<<EndFlag>>}, NEW i, i \in k .. z - 1, i \in Places(d, s, k)
      PROVE  FALSE
  <2> DEFINE T == S \cup Enders
             j == i - k + 1
  <2>1. EndsPacket(s)
    BY <1>4, EndersAre
  <2>2. /\ d \in Seq(S) /\ k \in Nat \ {0} /\ z = k + Len(a) /\ z =< Len(d) /\ Len(a) \in Nat
        /\ \A n \in 1 .. Len(a) : d[k + n - 1] = a[n]
    BY DEF Stands
  <2>3. s \in Seq(Enders) /\ Len(s) > 0
    BY <2>1 DEF EndsPacket
  <2>4. \A n \in 1 .. Len(s) : d[i + n - 1] = s[n]
    <3>1. d \in Seq(T) /\ s \in Seq(T) /\ k \in Nat \ {0}
      BY <2>2, <2>3, MoreSigns
    <3> HIDE DEF T
    <3>2. i \in Places(d, s, k) <=> /\ i \in k .. Len(d) - Len(s) + 1
                                    /\ \A n \in 1 .. Len(s) : d[i + n - 1] = s[n]
      BY ONLY <3>1, PlaceThere
    <3> QED BY <1>4, <3>2
  <2>5. j \in 1 .. Len(a) /\ k + j - 1 = i /\ d[i] = a[j]
    <3>1. j \in 1 .. Len(a) /\ k + j - 1 = i
      BY <1>4, <2>2
    <3> HIDE DEF j
    <3> QED BY <2>2, <3>1
  <2>6. d[i] = s[1]
    <3>1. 1 \in 1 .. Len(s) /\ i + 1 - 1 = i
      BY <1>4, <2>2, <2>3
    <3> QED BY <2>4, <3>1
  <2>7. ASSUME Len(s) = 2
        PROVE  d[i + 1] = s[2] /\ (j < Len(a) => a[j + 1] = s[2]) /\ (j = Len(a) => d[z] = s[2])
    <3>1. 2 \in 1 .. Len(s) /\ i + 2 - 1 = i + 1
      BY <1>4, <2>2, <2>7
    <3>2. d[i + 1] = s[2]
      BY <2>4, <3>1
    <3>3. j < Len(a) => j + 1 \in 1 .. Len(a) /\ k + (j + 1) - 1 = i + 1
      BY <1>4, <2>2
    <3>4. j = Len(a) => i + 1 = z
      BY <1>4, <2>2
    <3> HIDE DEF j
    <3>5. j < Len(a) => d[i + 1] = a[j + 1]
      BY <2>2, <3>3
    <3> QED BY <3>2, <3>4, <3>5
  <2>8. j < Len(a) \/ j = Len(a)
    BY <2>2, <2>5
  <2> HIDE DEF j, T
  <2>9. d[z] # LineFeed /\ d[z] # "bc" /\ d[z] # "bd"
    BY BehindsEnd
  <2>10. CASE s[1] \in Specials
    BY <1>2, <2>5, <2>6, <2>10
  <2>11. CASE Len(s) = 2 /\ s[2] = LineFeed
    <3>1. j < Len(a) => j + 1 \in 1 .. Len(a)
      BY <2>2, <2>5
    <3>2. LineFeed \in Specials
      BY SpecialsAre
    <3>3. j < Len(a) => a[j + 1] \notin Specials
      BY <1>2, <3>1
    <3> QED BY <2>7, <2>8, <2>9, <2>11, <3>2, <3>3
  <2>12. CASE s[1] = "a1" /\ Len(s) = 2 /\ s[2] \in {"bc", "bd"} /\ s \in Terminators /\ ToSet(s) \cap Specials = {}
    <3> DEFINE x == s[1]
               y == s[2]
    <3>1. x \notin Signs /\ y \notin Signs
      BY <2>12, Zenon DEF Signs
    <3>2. j < Len(a)
      BY <2>7, <2>8, <2>9, <2>12
    <3>3. HasPair(a, x, y)
      <4>1. j \in 1 .. Len(a) - 1 /\ a[j] = x /\ a[j + 1] = y
        BY <2>2, <2>5, <2>6, <2>7, <2>12, <3>2
      <4> QED BY <4>1 DEF HasPair
    <3> HIDE DEF x, y
    <3>4. HasPair(c, x, y)
      BY <1>0, <1>1, <3>1, <3>3, PairRaw
    <3>5. PICK n \in 1 .. Len(c) - 1 : c[n] = x /\ c[n + 1] = y
      BY <3>4 DEF HasPair
    <3>6. n \in Places(c, s, 1)
      <4> DEFINE U == Octet \cup Enders
      <4>1. c \in Seq(U) /\ s \in Seq(U) /\ 1 \in Nat \ {0}
        BY <2>3, MoreSigns
      <4> HIDE DEF U
      <4>2. n \in Places(c, s, 1) <=> /\ n \in 1 .. Len(c) - Len(s) + 1
                                      /\ \A m \in 1 .. Len(s) : c[n + m - 1] = s[m]
        BY ONLY <4>1, PlacesIn
      <4>3. n \in 1 .. Len(c) - Len(s) + 1
        BY <2>12, <3>5
      <4>4. ASSUME NEW m \in 1 .. Len(s) PROVE c[n + m - 1] = s[m]
        <5>1. m = 1 \/ m = 2
          BY <2>12
        <5>2. n + 1 - 1 = n /\ n + 2 - 1 = n + 1
          BY <3>5
        <5>3. CASE m = 1
          BY <3>5, <5>2, <5>3 DEF x
        <5>4. CASE m = 2
          BY <3>5, <5>2, <5>4 DEF y
        <5> QED BY <5>1, <5>3, <5>4
      <4> QED BY <4>2, <4>3, <4>4
    <3> QED BY <2>12, <3>6 DEF Breaks
  <2> QED BY <2>1, <2>10, <2>11, <2>12 DEF EndsPacket
<1>5. q \in S /\ EndFlag \in S /\ d[Len(d)] = q /\ (d[z] = EndFlag \/ d[z] = q)
  BY DEF Behinds
<1> QED BY <1>3, <1>4, <1>5 DEF Closed

\* No byte that is escaped, and none of what ends packets, is a digit.
LEMMA HexesClear == \A b \in Hexes : b \notin Specials /\ b \notin {"\t", "a1", "$", ".", ")", "&", "<"}
<1> DEFINE Entry(n) == EscapedBytes[n][1] \notin Hexes
<1>1. Entry(1)
  BY Zenon DEF EscapedBytes, Hexes
<1>2. Entry(2)
  BY Zenon DEF EscapedBytes, Hexes
<1>3. Entry(3)
  BY Zenon DEF EscapedBytes, Hexes
<1>4. Entry(4)
  BY Zenon DEF EscapedBytes, Hexes
<1>5. Entry(5)
  BY Zenon DEF EscapedBytes, Hexes
<1>6. Entry(6)
  BY Zenon DEF EscapedBytes, Hexes
<1>7. Entry(7)
  BY Zenon DEF EscapedBytes, Hexes
<1>8. Entry(8)
  BY Zenon DEF EscapedBytes, Hexes
<1>9. Entry(9)
  BY Zenon DEF EscapedBytes, Hexes
<1>10. Entry(10)
  BY Zenon DEF EscapedBytes, Hexes
<1>11. Entry(11)
  BY Zenon DEF EscapedBytes, Hexes
<1>12. Entry(12)
  BY Zenon DEF EscapedBytes, Hexes
<1>13. Entry(13)
  BY Zenon DEF EscapedBytes, Hexes
<1>14. Entry(14)
  BY Zenon DEF EscapedBytes, Hexes
<1>15. Entry(15)
  BY Zenon DEF EscapedBytes, Hexes
<1>16. Entry(16)
  BY Zenon DEF EscapedBytes, Hexes
<1>17. Entry(17)
  BY Zenon DEF EscapedBytes, Hexes
<1>18. Entry(18)
  BY Zenon DEF EscapedBytes, Hexes
<1>19. Entry(19)
  BY Zenon DEF EscapedBytes, Hexes
<1>20. Entry(20)
  BY Zenon DEF EscapedBytes, Hexes
<1> HIDE DEF Entry
<1>21. \A n \in 1 .. 20 : Entry(n)
  BY <1>1, <1>2, <1>3, <1>4, <1>5, <1>6, <1>7, <1>8, <1>9, <1>10, <1>11, <1>12, <1>13, <1>14, <1>15, <1>16, <1>17, <1>18, <1>19, <1>20
<1>22. \A b \in Hexes : b \notin Specials
  BY <1>21, EscapeTable DEF ByteAt, Entry, Specials
<1>23. "\t" \notin Hexes /\ "a1" \notin Hexes /\ "$" \notin Hexes
  BY Zenon DEF Hexes
<1>24. "." \notin Hexes /\ ")" \notin Hexes /\ "&" \notin Hexes /\ "<" \notin Hexes
  BY Zenon DEF Hexes
<1> QED BY <1>22, <1>23, <1>24, Zenon

\* What is written in digits is closed by what is behind it.
LEMMA DigitsClose ==
    ASSUME NEW S, NEW a \in Seq(Hexes), NEW d, NEW k, NEW z, Stands(S, d, k, z, a),
           NEW q, NEW code, Behinds(S, d, z, q, code)
    PROVE  Closed(S, d, k, z, a, q)
<1>1. \A i \in 1 .. Len(a) : a[i] \in Hexes
  BY SeqIs
<1>2. \A i \in 1 .. Len(a) : a[i] # q
  <2>1. q \in {"'", "\"", "<", ")", "&"}
    BY ClosersAre DEF Behinds
  <2>2. "'" \in Specials /\ "\"" \in Specials
    BY SpecialsAre, Zenon
  <2>3. q \in Specials \/ q \in {"<", ")", "&"}
    BY <2>1, <2>2, Zenon
  <2> QED BY <1>1, <2>3, HexesClear
<1>3. ASSUME NEW s, s \in Terminators \cup {<<EndFlag>>}, NEW i, i \in k .. z - 1, i \in Places(d, s, k)
      PROVE  FALSE
  <2> DEFINE T == S \cup Enders
             j == i - k + 1
  <2>1. EndsPacket(s)
    BY <1>3, EndersAre
  <2>2. /\ d \in Seq(S) /\ k \in Nat \ {0} /\ z = k + Len(a) /\ z =< Len(d) /\ Len(a) \in Nat
        /\ \A n \in 1 .. Len(a) : d[k + n - 1] = a[n]
    BY DEF Stands
  <2>3. s \in Seq(Enders) /\ Len(s) > 0
    BY <2>1 DEF EndsPacket
  <2>4. \A n \in 1 .. Len(s) : d[i + n - 1] = s[n]
    <3>1. d \in Seq(T) /\ s \in Seq(T) /\ k \in Nat \ {0}
      BY <2>2, <2>3, MoreSigns
    <3> HIDE DEF T
    <3>2. i \in Places(d, s, k) <=> /\ i \in k .. Len(d) - Len(s) + 1
                                    /\ \A n \in 1 .. Len(s) : d[i + n - 1] = s[n]
      BY ONLY <3>1, PlaceThere
    <3> QED BY <1>3, <3>2
  <2>5. j \in 1 .. Len(a) /\ k + j - 1 = i /\ d[i] = a[j]
    <3>1. j \in 1 .. Len(a) /\ k + j - 1 = i
      BY <1>3, <2>2
    <3> HIDE DEF j
    <3> QED BY <2>2, <3>1
  <2>6. d[i] = s[1]
    <3>1. 1 \in 1 .. Len(s) /\ i + 1 - 1 = i
      BY <1>3, <2>2, <2>3
    <3> QED BY <2>4, <3>1
  <2> HIDE DEF j
  <2>7. s[1] \in Hexes
    BY <1>1, <2>5, <2>6
  <2>8. s[1] \in Specials \/ s[1] = "\t" \/ s[1] = "a1"
    BY <2>1, Zenon DEF EndsPacket
  <2> QED BY <2>7, <2>8, HexesClear, Zenon
<1>4. q \in S /\ EndFlag \in S /\ d[Len(d)] = q /\ (d[z] = EndFlag \/ d[z] = q)
  BY DEF Behinds
<1> QED BY <1>2, <1>3, <1>4 DEF Closed

\* Digits are no escapes and no entities.
LEMMA DigitsPlain ==
    ASSUME NEW a \in Seq(Hexes)
    PROVE  ReplaceHtmlCode(a) = a
<1> DEFINE S == Glyph \cup Hexes
<1>1. a \in Seq(S) /\ Glyph \subseteq S
  BY MoreSigns
<1>2. \A i \in 1 .. Len(a) : a[i] \in Hexes
  BY SeqIs
<1> HIDE DEF S
<1>3. PICK e, r : TurnsEntities(S, e, a) /\ TurnsEscapes(S, r, e[6]) /\ ReplaceHtmlCode(a) = r[20]
  BY <1>1, HtmlTurns
<1>4. e[6] = a
  <2>1. \A i \in 1 .. Len(a) : a[i] \notin {"&", "<"}
    BY <1>2, HexesClear, Zenon
  <2> QED BY <1>1, <1>3, <2>1, NoEntities
<1>5. /\ r[0] = a /\ r \in [0 .. 20 -> Seq(S)]
      /\ \A i \in 1 .. 20 : r[i] = Replaced(r[i - 1], Escape(i), <<ByteAt(i)>>)
  BY <1>3, <1>4 DEF TurnsEscapes
<1> DEFINE P == {n \in Nat : n =< 20 => r[n] = a}
<1>6. 0 \in P
  BY <1>5
<1>7. ASSUME NEW n \in Nat, n \in P PROVE n + 1 \in P
  <2> SUFFICES ASSUME n + 1 =< 20 PROVE r[n + 1] = a
    OBVIOUS
  <2> DEFINE m == n + 1
             old == Escape(m)
             new == <<ByteAt(m)>>
  <2>1. m \in 1 .. 20 /\ m - 1 = n /\ r[n] = a
    BY <1>7
  <2>2. r[m] = Replaced(r[m - 1], old, new)
    BY <1>5, <2>1
  <2>3. Singular(Octet, old) /\ old[1] = "$"
    BY <2>1, EscapeRead, Zenon
  <2>4. new \in Seq(Octet)
    <3>1. ByteAt(m) \in Octet
      BY <2>1, EscapeIs
    <3> QED BY <3>1
  <2> HIDE DEF old, new, m
  <2>5. Singular(S, old) /\ new \in Seq(S)
    <3>1. Octet \subseteq S
      BY DEF S, Glyph
    <3> QED BY <2>3, <2>4, <3>1, MoreSingular, MoreSigns
  <2>6. \A i \in 1 .. Len(a) : a[i] # old[1]
    BY <1>2, <2>3, HexesClear, Zenon
  <2>7. Replaced(a, old, new) = a
    BY <1>1, <2>5, <2>6, ReplacedSame
  <2> QED BY <2>1, <2>2, <2>7 DEF m
<1>8. \A n \in Nat : n \in P
  <2> HIDE DEF P
  <2> QED BY <1>6, <1>7, Induction
<1>9. 20 \in Nat /\ 20 =< 20
  OBVIOUS
<1> QED BY <1>3, <1>8, <1>9

\* Dots at the end of a text.
LEMMA DotsIs ==
    ASSUME NEW T, NEW s \in Seq(T)
    PROVE  LET n == Len(s) IN
           IsSuffix(Dots, s) <=> n > 2 /\ s[n] = "." /\ s[n - 1] = "." /\ s[n - 2] = "."
<1> DEFINE n == Len(s)
           S == T \cup {"."}
           r == Reverse(s)
           d == Reverse(Dots)
<1>1. n \in Nat /\ s \in Seq(S) /\ \A i \in 1 .. n : s[i] \in S
  BY MoreSigns, SeqIs
<1>2. r = [i \in 1 .. n |-> s[(n - i) + 1]]
  BY DEF Reverse
<1>3. Len(Dots) = 3 /\ Dots[1] = "." /\ Dots[2] = "." /\ Dots[3] = "."
  BY DEF Dots
<1>4. d = [i \in 1 .. 3 |-> Dots[(3 - i) + 1]]
  BY <1>3 DEF Reverse
<1>5. "." \in S
  OBVIOUS
<1> HIDE DEF n, S, r, d
<1>6. r \in Seq(S) /\ Len(r) = n
  <2>1. \A i \in 1 .. n : (n - i) + 1 \in 1 .. n
    BY <1>1
  <2>2. r \in [1 .. n -> S]
    BY <1>1, <1>2, <2>1
  <2> QED BY <1>1, <2>2, IsSeq
<1>7. d \in Seq(S) /\ Len(d) = 3
  <2>1. \A i \in 1 .. 3 : (3 - i) + 1 \in {1, 2, 3}
    OBVIOUS
  <2>2. d \in [1 .. 3 -> S]
    BY <1>3, <1>4, <1>5, <2>1
  <2>3. 3 \in Nat
    OBVIOUS
  <2> QED BY <2>2, <2>3, IsSeq
<1>8. d[1] = "." /\ d[2] = "." /\ d[3] = "."
  <2>1. 1 \in 1 .. 3 /\ 2 \in 1 .. 3 /\ 3 \in 1 .. 3 /\ (3 - 1) + 1 = 3 /\ (3 - 2) + 1 = 2 /\ (3 - 3) + 1 = 1
    OBVIOUS
  <2> QED BY <1>3, <1>4, <2>1
<1>9. IsSuffix(Dots, s) <=> IsPrefix(d, r)
  BY DEF IsSuffix, d, r
<1>10. IsPrefix(d, r) <=> 3 =< n /\ \A i \in 1 .. 3 : d[i] = r[i]
  <2>1. IsPrefix(d, r) <=> Len(d) =< Len(r) /\ \A i \in 1 .. Len(d) : d[i] = r[i]
    BY ZenonT(30), <1>6, <1>7, PrefixIs
  <2> QED BY <1>6, <1>7, <2>1
<1>11. ASSUME 3 =< n PROVE r[1] = s[n] /\ r[2] = s[n - 1] /\ r[3] = s[n - 2]
  <2>1. 1 \in 1 .. n /\ 2 \in 1 .. n /\ 3 \in 1 .. n /\ (n - 1) + 1 = n /\ (n - 2) + 1 = n - 1 /\ (n - 3) + 1 = n - 2
    BY <1>1, <1>11
  <2> QED BY <1>2, <2>1
<1>12. 1 .. 3 = {1, 2, 3}
  OBVIOUS
<1>13. (3 =< n) <=> (n > 2)
  BY <1>1
<1> QED BY <1>8, <1>9, <1>10, <1>11, <1>12, <1>13 DEF n

\* What is written for ciphertext ends in dots only where that does.
LEMMA DotsRaw ==
    ASSUME NEW K, Writes(K), NEW c \in Seq(Octet), NEW a \in Seq(Octet), a = Spelled(K, c), IsSuffix(Dots, a)
    PROVE  IsSuffix(Dots, c)
<1> DEFINE n == Len(a)
           m == Len(c)
<1>1. n > 2 /\ a[n] = "." /\ a[n - 1] = "." /\ a[n - 2] = "."
  BY DotsIs
<1>2. "." # Ender
  BY Zenon DEF Ender
<1>3. a[n] # Ender /\ a[n - 1] # Ender /\ a[n - 2] # Ender
  BY <1>1, <1>2
<1>4. m > 2 /\ c[m] = a[n] /\ c[m - 1] = a[n - 1] /\ c[m - 2] = a[n - 2]
  <2>0. n = Len(a)
    OBVIOUS
  <2> HIDE DEF n
  <2> QED BY <1>1, <1>3, <2>0, ThreeBack
<1>5. m > 2 /\ c[m] = "." /\ c[m - 1] = "." /\ c[m - 2] = "."
  BY <1>1, <1>4
<1> QED BY <1>5, DotsIs

\* Digits are no dots.
LEMMA DigitsEnd == ASSUME NEW a \in Seq(Hexes) PROVE ~ IsSuffix(Dots, a)
<1> DEFINE n == Len(a)
<1>1. n \in Nat /\ \A i \in 1 .. n : a[i] \in Hexes
  BY SeqIs
<1> SUFFICES ASSUME n > 2, a[n] = "." PROVE FALSE
  BY DotsIs
<1>2. n \in 1 .. n
  BY <1>1
<1>3. a[n] \in Hexes
  BY <1>1, <1>2
<1> QED BY <1>3, HexesClear, Zenon

\* What the filter takes out of a page.
TakenOut(d, k, code) ==
    LET packet == SubSeq(d, k, PacketAt(d, k, code) - 1)
    IN SubSeq(packet, 1, WithoutDots(packet))

\* It is the text that is closed, unless that ends in dots.
LEMMA TakenOutIs ==
    ASSUME NEW S, NEW d, NEW k, NEW z, NEW b, NEW q, Closed(S, d, k, z, b, q),
           NEW c \in DOMAIN Closers, Closers[c] = q, ~ IsSuffix(Dots, b)
    PROVE  TakenOut(d, k, c) = b
<1>1. PacketAt(d, k, c) = z
  BY PacketThere
<1>2. SubSeq(d, k, z - 1) = b
  BY StandsThere DEF Closed
<1>3. b \in Seq(S)
  BY DEF Closed, Stands
<1>4. SubSeq(b, 1, Len(b)) = b
  BY <1>3
<1>5. WithoutDots(b) = Len(b)
  BY DEF WithoutDots
<1>6. TakenOut(d, k, c) = SubSeq(b, 1, WithoutDots(b))
  BY <1>1, <1>2 DEF TakenOut
<1> QED BY <1>4, <1>5, <1>6

\* A page d: a before a packet, its head h, what is in it and what is behind it.
Page(S, a, h, b, g, d) ==
    /\ a \in Seq(S) /\ h \in Seq(S) /\ b \in Seq(S) /\ g \in Seq(S) /\ Len(h) = 2 /\ Len(g) > 0
    /\ d = a \o (h \o (b \o g))

\* What is where in it.
LEMMA PageIs ==
    ASSUME NEW S, NEW a, NEW h, NEW b, NEW g, NEW d, Page(S, a, h, b, g, d)
    PROVE  LET m == Len(a) n == Len(b) o == Len(g) IN
           /\ d \in Seq(S) /\ Len(d) = m + n + o + 2 /\ m \in Nat /\ n \in Nat /\ o \in Nat \ {0}
           /\ \A i \in 1 .. m : d[i] = a[i]
           /\ d[m + 1] = h[1] /\ d[m + 2] = h[2]
           /\ \A i \in 1 .. n : d[m + 2 + i] = b[i]
           /\ \A i \in 1 .. o : d[m + n + 2 + i] = g[i]
<1> DEFINE m == Len(a)
           n == Len(b)
           o == Len(g)
           x == b \o g
           y == h \o x
           l == Len(x)
<1>1. a \in Seq(S) /\ h \in Seq(S) /\ b \in Seq(S) /\ g \in Seq(S) /\ Len(h) = 2 /\ o > 0 /\ d = a \o y
  BY DEF Page
<1>2. x \in Seq(S) /\ l = n + o /\ n \in Nat /\ o \in Nat /\ \A i \in 1 .. n + o : x[i] = IF i =< n THEN b[i] ELSE g[i - n]
  BY <1>1, JoinIs
<1> HIDE DEF x
<1>3. y \in Seq(S) /\ Len(y) = 2 + l /\ l \in Nat /\ \A i \in 1 .. 2 + l : y[i] = IF i =< 2 THEN h[i] ELSE x[i - 2]
  <2>1. h \in Seq(S) /\ x \in Seq(S)
    BY <1>1, <1>2
  <2>2. /\ h \o x \in Seq(S) /\ Len(h \o x) = Len(h) + Len(x) /\ Len(x) \in Nat
        /\ \A i \in 1 .. Len(h) + Len(x) : (h \o x)[i] = IF i =< Len(h) THEN h[i] ELSE x[i - Len(h)]
    BY ONLY <2>1, JoinIs
  <2>3. Len(h) = 2
    BY <1>1
  <2> QED BY <2>2, <2>3
<1> HIDE DEF y
<1>4. /\ d \in Seq(S) /\ Len(d) = m + Len(y) /\ m \in Nat
      /\ \A i \in 1 .. m + Len(y) : d[i] = IF i =< m THEN a[i] ELSE y[i - m]
  BY <1>1, <1>3, JoinIs
<1> HIDE DEF m, n, o, l
<1>5. Len(d) = m + n + o + 2
  BY <1>2, <1>3, <1>4
<1>6. \A i \in 1 .. m : d[i] = a[i]
  BY SMTT(30), <1>2, <1>3, <1>4
<1>7. d[m + 1] = h[1] /\ d[m + 2] = h[2]
  <2>1. d[m + 1] = y[1] /\ d[m + 2] = y[2]
    BY <1>2, <1>3, <1>4
  <2>2. y[1] = h[1] /\ y[2] = h[2]
    BY <1>3
  <2> QED BY <2>1, <2>2
<1>8. \A i \in 1 .. l : d[m + 2 + i] = x[i]
  <2> SUFFICES ASSUME NEW i \in 1 .. l PROVE d[m + 2 + i] = x[i]
    OBVIOUS
  <2>1. m + 2 + i \in 1 .. m + Len(y) /\ m + 2 + i - m = i + 2 /\ ~ (m + 2 + i =< m)
    BY <1>3, <1>4
  <2>2. d[m + 2 + i] = y[i + 2]
    BY <1>4, <2>1
  <2>3. i + 2 \in 1 .. 2 + l /\ ~ (i + 2 =< 2) /\ i + 2 - 2 = i
    BY <1>3
  <2>4. y[i + 2] = x[i]
    BY <1>3, <2>3
  <2> QED BY <2>2, <2>4
<1>9. \A i \in 1 .. n : d[m + 2 + i] = b[i]
  BY <1>2, <1>8
<1>10. \A i \in 1 .. o : d[m + n + 2 + i] = g[i]
  <2> SUFFICES ASSUME NEW i \in 1 .. o PROVE d[m + n + 2 + i] = g[i]
    OBVIOUS
  <2>1. n + i \in 1 .. l /\ m + 2 + (n + i) = m + n + 2 + i
    BY <1>2, <1>4
  <2>2. d[m + 2 + (n + i)] = x[n + i]
    BY <1>8, <2>1
  <2>3. n + i \in 1 .. n + o /\ ~ (n + i =< n) /\ n + i - n = i
    BY <1>2
  <2>4. x[n + i] = g[i]
    BY <1>2, <2>3
  <2> QED BY <2>1, <2>2, <2>4
<1>11. m \in Nat /\ n \in Nat /\ o \in Nat \ {0} /\ d \in Seq(S)
  BY <1>1, <1>2, <1>4
<1> QED BY ONLY <1>5, <1>6, <1>7, <1>9, <1>10, <1>11 DEF m, n, o

\* How many of the heads are up to the place l, and which of them is the n-th.
HeadsTo(heads, l) == Cardinality({p \in heads : p =< l})
NthOf(heads, n) == CHOOSE p \in heads : Cardinality({x \in heads : x =< p}) = n

\* The packet with m heads before it: where its head is found, and that it stands
\* there.
LEMMA PacketIn ==
    ASSUME NEW S, NEW a, NEW h, NEW b, NEW g, NEW d, Page(S, a, h, b, g, d), NEW m \in Nat,
           NEW heads, heads = Places(d, h, 1), HeadsTo(heads, Len(a)) = m
    PROVE  LET k == Len(a) + 3
               z == k + Len(b) IN
           /\ NthOf(heads, m + 1) = Len(a) + 1
           /\ Stands(S, d, k, z, b) /\ d[z] = g[1] /\ d[Len(d)] = g[Len(g)]
<1> DEFINE l == Len(a)
           n == Len(b)
           o == Len(g)
           k == l + 3
           z == k + n
           at == l + 1
<1>1. /\ d \in Seq(S) /\ Len(d) = l + n + o + 2 /\ l \in Nat /\ n \in Nat /\ o \in Nat \ {0}
      /\ d[l + 1] = h[1] /\ d[l + 2] = h[2]
      /\ \A i \in 1 .. n : d[l + 2 + i] = b[i]
      /\ \A i \in 1 .. o : d[l + n + 2 + i] = g[i]
  BY PageIs
<1>2. h \in Seq(S) /\ Len(h) = 2 /\ b \in Seq(S)
  BY DEF Page
<1> HIDE DEF l, n, o
<1>3. Stands(S, d, k, z, b)
  <2>1. \A i \in 1 .. n : k + i - 1 = l + 2 + i
    BY <1>1
  <2>2. \A i \in 1 .. n : d[k + i - 1] = b[i]
    BY <1>1, <2>1
  <2>3. k \in Nat \ {0} /\ z = k + n /\ z =< Len(d)
    BY <1>1
  <2> QED BY <1>1, <1>2, <2>2, <2>3 DEF Stands, n
<1>4. d[z] = g[1]
  <2>1. 1 \in 1 .. o /\ z = l + n + 2 + 1
    BY <1>1
  <2> HIDE DEF z
  <2> QED BY <1>1, <2>1
<1>5. d[Len(d)] = g[o]
  <2>1. o \in 1 .. o /\ Len(d) = l + n + 2 + o
    BY <1>1
  <2> QED BY <1>1, <2>1
<1>6. \A p : p \in heads <=> /\ p \in 1 .. Len(d) - 1
                             /\ d[p] = h[1] /\ d[p + 1] = h[2]
  <2> SUFFICES ASSUME NEW p PROVE p \in heads <=> p \in 1 .. Len(d) - 1 /\ d[p] = h[1] /\ d[p + 1] = h[2]
    OBVIOUS
  <2>1. d \in Seq(S) /\ h \in Seq(S) /\ 1 \in Nat \ {0}
    BY <1>1, <1>2
  <2>2. p \in Places(d, h, 1) <=> p \in 1 .. Len(d) - Len(h) + 1 /\ \A j \in 1 .. Len(h) : d[p + j - 1] = h[j]
    BY ONLY SMTT(30), <2>1, PlaceThere
  <2>3. 1 .. Len(h) = {1, 2} /\ Len(d) - Len(h) + 1 = Len(d) - 1
    BY <1>1, <1>2
  <2>4. ASSUME p \in 1 .. Len(d) - 1 PROVE p + 1 - 1 = p /\ p + 2 - 1 = p + 1
    BY <1>1, <2>4
  <2> QED BY <2>2, <2>3, <2>4
<1>7. at \in heads /\ heads \in SUBSET Nat
  <2>1. l + 1 \in 1 .. Len(d) - 1 /\ (l + 1) + 1 = l + 2
    BY <1>1
  <2>2. l + 1 \in heads
    BY <1>1, <1>6, <2>1
  <2>3. \A p \in heads : p \in Nat
    BY <1>1, <1>6
  <2> QED BY <2>2, <2>3
<1>8. Cardinality({x \in heads : x =< at}) = m + 1
  <2> DEFINE A == {p \in heads : p =< l}
             B == {x \in heads : x =< at}
  <2>1. B = A \cup {at}
    <3>1. \A x \in heads : x =< at <=> x =< l \/ x = at
      BY <1>1, <1>7
    <3> QED BY <1>7, <3>1
  <2>2. at \notin A
    BY <1>1
  <2>3. IsFiniteSet(A) /\ Cardinality(A) = m
    <3>1. A \subseteq 0 .. l
      BY <1>1, <1>7
    <3>2. IsFiniteSet(0 .. l)
      BY FS_Interval, <1>1
    <3>3. Cardinality(A) = m
      BY DEF HeadsTo, l
    <3> HIDE DEF A
    <3> QED BY <3>1, <3>2, <3>3, FS_Subset
  <2> HIDE DEF A, B, at
  <2>4. Cardinality(A \cup {at}) = Cardinality(A) + 1
    BY <2>2, <2>3, FS_AddElement
  <2> QED BY <2>1, <2>3, <2>4 DEF B
<1> HIDE DEF at
<1>9. (CHOOSE p \in heads : Cardinality({x \in heads : x =< p}) = m + 1) = at
  <2> DEFINE c == m + 1
  <2>1. Cardinality({x \in heads : x =< at}) = c
    BY <1>8
  <2> HIDE DEF c
  <2>2. (CHOOSE p \in heads : Cardinality({x \in heads : x =< p}) = c) = at
    BY <1>7, <2>1, NthHead
  <2> QED BY <2>2 DEF c
<1> QED BY <1>3, <1>4, <1>5, <1>9 DEF NthOf, at, l, n, o

\* What the filter takes out of the page that shows the text t, from behind the
\* n-th head, where the character c is before the packet.
ShownAs(t, c, n) ==
    LET shown == Replaced(t, Comma, <<",">>) \o <<Closers[c]>>
        heads == Places(shown, SubSeq(t, 1, 2), 1)
    IN TakenOut(shown, 2 + NthOf(heads, n), c)

\* That page has the text b, with its end, where the filter takes it from.
PageWith(S, t, c, n, b) ==
    \E d, k : /\ ShownAs(t, c, n) = TakenOut(d, k, c)
              /\ Stands(S, d, k, k + Len(b), b) /\ Behinds(S, d, k + Len(b), Closers[c], c)

\* The page that shows t, with what is before, in and behind its packet, and with m
\* heads before that.
Shows(S, t, c, a, h, b, g, m) ==
    LET d == Replaced(t, Comma, <<",">>) \o <<Closers[c]>> IN
    /\ Page(S, a, h, b, g, d) /\ h = SubSeq(t, 1, 2) /\ m \in Nat
    /\ HeadsTo(Places(d, h, 1), Len(a)) = m
    /\ c \in DOMAIN Closers /\ Closers[c] \in S /\ EndFlag \in S
    /\ g[1] \in {EndFlag, Closers[c]} /\ g[Len(g)] = Closers[c]

\* Such a page has its packet where the filter takes it from.
LEMMA ShownFrom ==
    ASSUME NEW S, NEW t, NEW c, NEW a, NEW h, NEW b, NEW g, NEW m, Shows(S, t, c, a, h, b, g, m)
    PROVE  PageWith(S, t, c, m + 1, b)
<1> DEFINE q == Closers[c]
           d == Replaced(t, Comma, <<",">>) \o <<q>>
           heads == Places(d, h, 1)
           w == NthOf(heads, m + 1)
           k == Len(a) + 3
           z == k + Len(b)
<1>1. /\ Page(S, a, h, b, g, d) /\ h = SubSeq(t, 1, 2) /\ m \in Nat
      /\ HeadsTo(heads, Len(a)) = m
      /\ c \in DOMAIN Closers /\ q \in S /\ EndFlag \in S
      /\ g[1] \in {EndFlag, q} /\ g[Len(g)] = q
  BY DEF Shows
<1>2. ShownAs(t, c, m + 1) = TakenOut(d, 2 + w, c)
  BY <1>1 DEF ShownAs
<1>3. heads = Places(d, h, 1)
  OBVIOUS
<1> HIDE DEF d, heads, q
<1>4. w = Len(a) + 1 /\ Stands(S, d, k, z, b) /\ d[z] = g[1] /\ d[Len(d)] = g[Len(g)]
  <2>1. Page(S, a, h, b, g, d) /\ m \in Nat /\ heads = Places(d, h, 1) /\ HeadsTo(heads, Len(a)) = m
    BY <1>1, <1>3
  <2> QED BY ONLY <2>1, PacketIn
<1>5. Behinds(S, d, z, q, c)
  BY <1>1, <1>4 DEF Behinds, q
<1> HIDE DEF w
<1>6. 2 + w = k
  <2>1. Len(a) \in Nat
    BY <1>1 DEF Page
  <2> QED BY <1>4, <2>1
<1> HIDE DEF k
<1> QED BY <1>2, <1>4, <1>5, <1>6 DEF PageWith, q

\* The filter takes out what is written for ciphertext, unless that breaks the packet.
LEMMA EscapedShown ==
    ASSUME NEW S, NEW t, NEW code, NEW n, NEW c \in Seq(Octet), NEW a, a = Spelled(EscapesFrom(0), c),
           PageWith(S, t, code, n, a)
    PROVE  ShownAs(t, code, n) = a \/ Breaks(c, code)
<1> SUFFICES ASSUME ~ Breaks(c, code) PROVE ShownAs(t, code, n) = a
  OBVIOUS
<1> DEFINE q == Closers[code]
<1>1. PICK d, k : /\ ShownAs(t, code, n) = TakenOut(d, k, code)
                  /\ Stands(S, d, k, k + Len(a), a) /\ Behinds(S, d, k + Len(a), q, code)
  BY DEF PageWith
<1> DEFINE z == k + Len(a)
<1>2. Stands(S, d, k, z, a) /\ Behinds(S, d, z, q, code)
  BY <1>1
<1> HIDE DEF z, q
<1>3. Closed(S, d, k, z, a, q)
  BY <1>2, EscapedCloses
<1>4. ~ IsSuffix(Dots, a)
  <2> DEFINE K == EscapesFrom(0)
  <2>0. Writes(K)
    <3>1. 0 \in 0 .. 20
      OBVIOUS
    <3> QED BY <3>1, EscapesFromWrites
  <2>1. a = Spelled(K, c)
    OBVIOUS
  <2> HIDE DEF K
  <2>2. a \in Seq(Octet)
    BY <2>0, <2>1, SpelledIs DEF Writes
  <2>3. ~ IsSuffix(Dots, c)
    BY DEF Breaks
  <2> QED BY <2>0, <2>1, <2>2, <2>3, DotsRaw
<1>5. code \in DOMAIN Closers /\ Closers[code] = q
  BY <1>2 DEF Behinds
<1>6. TakenOut(d, k, code) = a
  BY <1>3, <1>4, <1>5, TakenOutIs
<1> QED BY <1>1, <1>6

\* It takes out digits always.
LEMMA DigitsShown ==
    ASSUME NEW S, NEW t, NEW code, NEW n, NEW a \in Seq(Hexes), PageWith(S, t, code, n, a)
    PROVE  ShownAs(t, code, n) = a
<1> DEFINE q == Closers[code]
<1>1. PICK d, k : /\ ShownAs(t, code, n) = TakenOut(d, k, code)
                  /\ Stands(S, d, k, k + Len(a), a) /\ Behinds(S, d, k + Len(a), q, code)
  BY DEF PageWith
<1> DEFINE z == k + Len(a)
<1>2. Stands(S, d, k, z, a) /\ Behinds(S, d, z, q, code)
  BY <1>1
<1> HIDE DEF z, q
<1>3. Closed(S, d, k, z, a, q)
  BY <1>2, DigitsClose
<1>4. ~ IsSuffix(Dots, a)
  BY DigitsEnd
<1>5. code \in DOMAIN Closers /\ Closers[code] = q
  BY <1>2 DEF Behinds
<1>6. TakenOut(d, k, code) = a
  BY <1>3, <1>4, <1>5, TakenOutIs
<1> QED BY <1>1, <1>6

\* The sign of a page that stands for a comma's three, and the signs of both.
CommaShown == <<",">>
CommaSigns == {"%", "2", "C", ","}

\* The comma as it is encoded for a URL.
LEMMA CommaIs ==
    ASSUME NEW S, CommaSigns \subseteq S
    PROVE  /\ Singular(S, Comma) /\ Len(Comma) = 3 /\ Comma[1] = "%" /\ Comma[2] = "2" /\ Comma[3] = "C"
           /\ CommaShown \in Seq(S) /\ Len(CommaShown) = 1 /\ CommaShown[1] = ","
<1> DEFINE x == "%"
           y == "2"
           z == "C"
           w == ","
<1>1. Comma = <<x, y, z>> /\ CommaShown = <<w>>
  BY DEF Comma, CommaShown
<1>2. x \in S /\ y \in S /\ z \in S /\ w \in S
  BY Zenon DEF CommaSigns
<1>3. y # x /\ z # x
  BY Zenon
<1>4. x = "%" /\ y = "2" /\ z = "C" /\ w = ","
  OBVIOUS
<1> HIDE DEF x, y, z, w
<1>5. /\ <<x, y, z>> \in Seq(S) /\ Len(<<x, y, z>>) = 3
      /\ <<x, y, z>>[1] = x /\ <<x, y, z>>[2] = y /\ <<x, y, z>>[3] = z
      /\ <<w>> \in Seq(S) /\ Len(<<w>>) = 1 /\ <<w>>[1] = w
  BY <1>2
<1>6. Comma \in Seq(S) /\ Len(Comma) = 3 /\ Comma[1] = x /\ Comma[2] = y /\ Comma[3] = z
  BY <1>1, <1>5
<1>7. CommaShown \in Seq(S) /\ Len(CommaShown) = 1 /\ CommaShown[1] = w
  BY <1>1, <1>5
<1>8. Singular(S, Comma)
  <2>1. ASSUME NEW j \in 2 .. Len(Comma) PROVE Comma[j] # Comma[1]
    <3>1. j = 2 \/ j = 3
      BY <1>6
    <3> QED BY <1>3, <1>6, <3>1
  <2>2. Len(Comma) > 0
    BY <1>6
  <2> QED BY <1>6, <2>1, <2>2 DEF Singular
<1> QED BY <1>4, <1>6, <1>7, <1>8

\* A text of one packet.
Packet(S, t, h, b, f) ==
    /\ h \in Seq(S) /\ Len(h) = 2 /\ b \in Seq(S) /\ f \in {<<>>, <<EndFlag>>} /\ t = h \o (b \o f)
    /\ h[1] # "%" /\ h[2] # "%" /\ \A i \in 1 .. Len(b) : b[i] # "%"

\* It is shown as it is.
LEMMA OnePacket ==
    ASSUME NEW S, CommaSigns \subseteq S, EndFlag \in S, NEW t, NEW h, NEW b, NEW f, Packet(S, t, h, b, f),
           NEW code \in DOMAIN Closers, Closers[code] \in S
    PROVE  Shows(S, t, code, <<>>, h, b, f \o <<Closers[code]>>, 0)
<1> DEFINE q == Closers[code]
           e == <<q>>
           g == f \o e
           n == Len(b)
           u == b \o f
           none == <<>>
<1>1. h \in Seq(S) /\ Len(h) = 2 /\ b \in Seq(S) /\ (f = none \/ f = <<EndFlag>>) /\ t = h \o u
      /\ h[1] # "%" /\ h[2] # "%" /\ \A i \in 1 .. n : b[i] # "%"
  BY DEF Packet
<1>2. f \in Seq(S) /\ Len(f) \in Nat /\ \A i \in 1 .. Len(f) : f[i] = EndFlag
  <2>1. CASE f = <<>>
    BY <2>1
  <2>2. CASE f = <<EndFlag>>
    <3> DEFINE x == EndFlag
    <3>1. f = <<x>> /\ x \in S
      BY <2>2
    <3> HIDE DEF x
    <3>2. f \in Seq(S) /\ Len(f) = 1 /\ f[1] = x
      BY <3>1
    <3>3. 1 .. Len(f) = {1}
      BY <3>2
    <3> QED BY <3>2, <3>3 DEF x
  <2> QED BY <1>1, <2>1, <2>2
<1>3. q \in S /\ e \in Seq(S) /\ Len(e) = 1 /\ e[1] = q
  OBVIOUS
<1>4. EndFlag # "%"
  BY Zenon DEF EndFlag
<1> HIDE DEF q, e, g, u, none
<1>5. /\ u \in Seq(S) /\ Len(u) = n + Len(f) /\ n \in Nat
      /\ \A i \in 1 .. n + Len(f) : u[i] = IF i =< n THEN b[i] ELSE f[i - n]
  BY <1>1, <1>2, JoinIs DEF u
<1>6. \A i \in 1 .. Len(u) : u[i] # "%"
  <2> SUFFICES ASSUME NEW i \in 1 .. Len(u) PROVE u[i] # "%"
    OBVIOUS
  <2>1. CASE i =< n
    BY <1>1, <1>5, <2>1
  <2>2. CASE i > n
    <3>1. i - n \in 1 .. Len(f) /\ ~ (i =< n)
      BY <1>2, <1>5, <2>2
    <3> QED BY <1>2, <1>4, <1>5, <3>1
  <2> QED BY <1>5, <2>1, <2>2
<1>7. /\ h \o u \in Seq(S) /\ Len(h \o u) = 2 + Len(u) /\ Len(u) \in Nat
      /\ \A i \in 1 .. 2 + Len(u) : (h \o u)[i] = IF i =< 2 THEN h[i] ELSE u[i - 2]
  <2>1. h \in Seq(S) /\ u \in Seq(S)
    BY <1>1, <1>5
  <2>2. /\ h \o u \in Seq(S) /\ Len(h \o u) = Len(h) + Len(u) /\ Len(u) \in Nat
        /\ \A i \in 1 .. Len(h) + Len(u) : (h \o u)[i] = IF i =< Len(h) THEN h[i] ELSE u[i - Len(h)]
    BY ONLY <2>1, JoinIs
  <2> QED BY <1>1, <2>2
<1>8. t \in Seq(S) /\ Len(t) = 2 + Len(u) /\ Len(u) \in Nat
      /\ \A i \in 1 .. 2 + Len(u) : t[i] = IF i =< 2 THEN h[i] ELSE u[i - 2]
  BY <1>1, <1>7
<1>9. Replaced(t, Comma, CommaShown) = t
  <2>1. Singular(S, Comma) /\ CommaShown \in Seq(S) /\ Comma[1] = "%"
    BY CommaIs
  <2>2. \A i \in 1 .. Len(t) : t[i] # Comma[1]
    <3> SUFFICES ASSUME NEW i \in 1 .. Len(t) PROVE t[i] # "%"
      BY <2>1
    <3>1. CASE i =< 2
      <4>1. i = 1 \/ i = 2
        BY <1>8, <3>1
      <4>2. t[i] = h[i]
        BY <1>8, <3>1
      <4> QED BY <1>1, <4>1, <4>2
    <3>2. CASE i > 2
      <4>1. i - 2 \in 1 .. Len(u) /\ ~ (i =< 2)
        BY <1>8, <3>2
      <4> QED BY <1>6, <1>8, <4>1
    <3> QED BY <1>8, <3>1, <3>2
  <2> QED BY <1>8, <2>1, <2>2, ReplacedSame
<1>10. SubSeq(t, 1, 2) = h
  <2> DEFINE s == SubSeq(t, 1, 2)
  <2>1. 2 \in 0 .. Len(t)
    BY <1>8
  <2>2. s \in Seq(S) /\ Len(s) = 2 /\ \A i \in 1 .. 2 : s[i] = t[i]
    BY <1>8, <2>1, Beginning
  <2>3. \A i \in 1 .. 2 : t[i] = h[i]
    BY <1>8
  <2> HIDE DEF s
  <2>4. s = h
    <3>1. s \in Seq(S) /\ h \in Seq(S) /\ Len(s) = Len(h) /\ \A i \in 1 .. Len(h) : s[i] = h[i]
      BY <1>1, <2>2, <2>3
    <3> QED BY ONLY <3>1
  <2> QED BY <2>4 DEF s
<1>11. g \in Seq(S) /\ Len(g) = Len(f) + 1 /\ Len(g) > 0 /\ g[1] \in {EndFlag, q} /\ g[Len(g)] = q
  <2>1. g \in Seq(S) /\ Len(g) = Len(f) + 1
        /\ \A i \in 1 .. Len(f) + 1 : g[i] = IF i =< Len(f) THEN f[i] ELSE e[i - Len(f)]
    <3>1. f \in Seq(S) /\ e \in Seq(S)
      BY <1>2, <1>3
    <3>2. f \o e \in Seq(S) /\ Len(f \o e) = Len(f) + Len(e)
          /\ \A i \in 1 .. Len(f) + Len(e) : (f \o e)[i] = IF i =< Len(f) THEN f[i] ELSE e[i - Len(f)]
      BY ONLY <3>1, JoinIs
    <3>3. Len(e) = 1
      BY <1>3
    <3> QED BY <3>2, <3>3 DEF g
  <2>2. g[Len(f) + 1] = q
    <3>1. Len(f) + 1 \in 1 .. Len(f) + 1 /\ ~ (Len(f) + 1 =< Len(f)) /\ Len(f) + 1 - Len(f) = 1
      BY <1>2
    <3> QED BY <1>3, <2>1, <3>1
  <2>3. g[1] \in {EndFlag, q}
    <3>1. CASE Len(f) = 0
      BY <2>2, <3>1
    <3>2. CASE Len(f) > 0
      <4>1. 1 \in 1 .. Len(f) + 1 /\ 1 =< Len(f) /\ 1 \in 1 .. Len(f)
        BY <1>2, <3>2
      <4> QED BY <1>2, <2>1, <4>1
    <3> QED BY <1>2, <3>1, <3>2
  <2> QED BY <1>2, <2>1, <2>2, <2>3
<1>12. t \o e = none \o (h \o (b \o g))
  <2>1. (b \o f) \o e = b \o (f \o e)
    <3>1. Three(S, b, f, e)
      BY <1>1, <1>2, <1>3 DEF Three
    <3> QED BY <3>1, JoinJoin
  <2>2. (h \o u) \o e = h \o (u \o e)
    <3>1. Three(S, h, u, e)
      BY <1>1, <1>3, <1>5 DEF Three
    <3> QED BY <3>1, JoinJoin
  <2>3. t \o e = h \o (b \o g)
    BY <1>1, <2>1, <2>2 DEF u, g
  <2> DEFINE x == h \o (b \o g)
  <2>4. x \in Seq(S)
    <3>1. b \o g \in Seq(S)
      BY <1>1, <1>11
    <3> QED BY <1>1, <3>1
  <2> HIDE DEF x
  <2>5. none \o x = x
    BY <2>4 DEF none
  <2> QED BY <2>3, <2>5 DEF x
<1> DEFINE d == t \o e
<1>13. Page(S, none, h, b, g, d)
  <2>1. none \in Seq(S)
    BY DEF none
  <2> QED BY <1>1, <1>11, <1>12, <2>1 DEF Page
<1>14. HeadsTo(Places(d, h, 1), Len(none)) = 0
  <2>1. Len(none) = 0
    BY DEF none
  <2>2. \A p \in Places(d, h, 1) : ~ (p =< 0)
    BY DEF Places
  <2>3. {p \in Places(d, h, 1) : p =< 0} = {}
    BY <2>2
  <2>4. Cardinality({}) = 0
    BY FS_EmptySet
  <2> QED BY <2>1, <2>3, <2>4 DEF HeadsTo
<1>15. d = Replaced(t, Comma, <<",">>) \o <<Closers[code]>>
  BY <1>9 DEF CommaShown, e, q
<1> HIDE DEF d
<1>16. 0 \in Nat /\ code \in DOMAIN Closers /\ q = Closers[code]
  BY DEF q
<1> QED BY <1>3, <1>10, <1>11, <1>13, <1>14, <1>15, <1>16 DEF Shows, none, g, e

-------------------------------------------------------------------------------
(* The parts of a value that commas divide                                  *)

\* Two texts, one behind the other, and what is where.
LEMMA JoinedAs ==
    ASSUME NEW S, NEW s \in Seq(S), NEW r \in Seq(S), NEW w, w = s \o r, NEW m, m = Len(s), NEW n, n = Len(r)
    PROVE  /\ w \in Seq(S) /\ Len(w) = m + n /\ m \in Nat /\ n \in Nat
           /\ \A i \in 1 .. m : w[i] = s[i]
           /\ \A i \in 1 .. n : w[m + i] = r[i]
<1>1. /\ s \o r \in Seq(S) /\ Len(s \o r) = Len(s) + Len(r) /\ Len(s) \in Nat /\ Len(r) \in Nat
      /\ \A i \in 1 .. Len(s) + Len(r) : (s \o r)[i] = IF i =< Len(s) THEN s[i] ELSE r[i - Len(s)]
  BY JoinIs
<1>2. /\ w \in Seq(S) /\ Len(w) = m + n /\ m \in Nat /\ n \in Nat
      /\ \A i \in 1 .. m + n : w[i] = IF i =< m THEN s[i] ELSE r[i - m]
  BY <1>1
<1>3. ASSUME NEW i \in 1 .. n PROVE w[m + i] = r[i]
  <2>1. m + i \in 1 .. m + n /\ ~ (m + i =< m) /\ m + i - m = i
    BY <1>2
  <2> QED BY <1>2, <2>1
<1> QED BY <1>2, <1>3

\* Texts written for the parts of a value, one more behind the rest.
LEMMA SpelledMore ==
    ASSUME NEW C, NEW S, NEW F \in [C -> Seq(S)], NEW u \in Seq(C), NEW c \in C
    PROVE  /\ Spelled(F, u) \in Seq(S) /\ F[c] \in Seq(S)
           /\ Spelled(F, Append(u, c)) = Spelled(F, u) \o F[c]
<1> DEFINE n == Len(u)
           e == Append(u, c)
           f == [i \in DOMAIN u |-> F[u[i]]]
           h == [i \in DOMAIN e |-> F[e[i]]]
<1>1. n \in Nat /\ DOMAIN u = 1 .. n /\ \A i \in 1 .. n : u[i] \in C
  BY SeqIs
<1>2. DOMAIN e = 1 .. n + 1 /\ e[n + 1] = c /\ \A i \in 1 .. n : e[i] = u[i]
  OBVIOUS
<1>3. \A i \in 1 .. n + 1 : e[i] \in C
  <2>1. e \in Seq(C)
    OBVIOUS
  <2> HIDE DEF e
  <2> QED BY <1>2, <2>1, SeqIs
<1> HIDE DEF n, e
<1>4. f \in [1 .. n -> Seq(S)] /\ h \in [1 .. n + 1 -> Seq(S)]
  BY <1>1, <1>2, <1>3
<1>5. \A i \in 1 .. n : h[i] = f[i]
  BY <1>1, <1>2
<1>6. h[n + 1] = F[c]
  BY <1>1, <1>2
<1>7. Spelled(F, u) = FlattenSeq(f) /\ Spelled(F, e) = FlattenSeq(h)
  BY DEF Spelled
<1> HIDE DEF f, h
<1>8. FlattenSeq(h) = FlattenSeq(f) \o h[n + 1]
  BY <1>1, <1>4, <1>5, FlattenedOneMore
<1>9. FlattenSeq(f) \in Seq(S)
  BY <1>1, <1>4, Flattened
<1> QED BY <1>6, <1>7, <1>8, <1>9 DEF e

\* The signs of pages.
PageSigns == STRING \cup Octet \cup Hexes \cup CommaSigns \cup {"[", "1f", EndFlag}
                 \cup {"'", "\"", "<", ")", "&"}

\* Ciphertexts, the packet of one of them, written in digits, and its sign.
Ciphertext == Seq(DOMAIN HexDigits)
DigitPacket(c) == Append(Heads[1] \o Hexadecimal(c), EndFlag)
Bracket == "["

\* What it consists of.
LEMMA DigitHead == /\ Heads[1] \in Seq(PageSigns) /\ Len(Heads[1]) = 2 /\ Heads[1][1] = Bracket
                   /\ Heads[1][2] # Bracket /\ Heads[1][1] # "%" /\ Heads[1][2] # "%"
<1> DEFINE x == "["
           y == "1f"
<1>1. Heads[1] = <<x, y>>
  BY DEF Heads
<1>2. x \in PageSigns /\ y \in PageSigns
  BY Zenon DEF PageSigns
<1>3. x = Bracket /\ y # Bracket /\ x # "%" /\ y # "%"
  BY Zenon DEF Bracket
<1> HIDE DEF x, y
<1>4. <<x, y>> \in Seq(PageSigns) /\ Len(<<x, y>>) = 2 /\ <<x, y>>[1] = x /\ <<x, y>>[2] = y
  BY <1>2, FewSigns
<1>5. Heads[1] \in Seq(PageSigns) /\ Len(Heads[1]) = 2 /\ Heads[1][1] = x /\ Heads[1][2] = y
  BY <1>1, <1>4
<1> QED BY <1>3, <1>5

\* The digits in it are none of the signs that matter, and nor is the flag.
LEMMA DigitSigns ==
    /\ \A b \in Hexes : b \in PageSigns /\ b # Bracket /\ b # "%"
    /\ EndFlag \in PageSigns /\ EndFlag # Bracket /\ EndFlag # "%"
    /\ CommaSigns \subseteq PageSigns /\ "," # Bracket
    /\ \A c \in DOMAIN Closers : Closers[c] \in PageSigns
<1>1. Bracket \in Specials /\ "%" \in Specials
  BY SpecialsAre DEF Bracket
<1>2. \A b \in Hexes : b # Bracket /\ b # "%"
  BY <1>1, HexesClear
<1>3. EndFlag # Bracket /\ EndFlag # "%" /\ "," # Bracket
  BY Zenon DEF EndFlag, Bracket
<1>4. Hexes \subseteq PageSigns /\ EndFlag \in PageSigns /\ CommaSigns \subseteq PageSigns
  BY Zenon DEF PageSigns
<1>5. \A x \in {"'", "\"", "<", ")", "&"} : x \in PageSigns
  BY Zenon DEF PageSigns
<1>6. \A c \in DOMAIN Closers : Closers[c] \in {"'", "\"", "<", ")", "&"}
  BY ClosersAre
<1>7. \A c \in DOMAIN Closers : Closers[c] \in PageSigns
  BY <1>5, <1>6, Zenon
<1> QED BY <1>2, <1>3, <1>4, <1>7

\* Such a packet.
LEMMA DigitPacketIs ==
    ASSUME NEW c \in Ciphertext
    PROVE  LET p == DigitPacket(c) IN
           /\ p \in Seq(PageSigns) /\ Len(p) > 2 /\ p[1] = Bracket
           /\ \A i \in 2 .. Len(p) : p[i] # Bracket
           /\ \A i \in 1 .. Len(p) : p[i] # "%"
           /\ p = Heads[1] \o (Hexadecimal(c) \o <<EndFlag>>)
           /\ Hexadecimal(c) \in Seq(Hexes) /\ Hexadecimal(c) \in Seq(PageSigns) /\ <<EndFlag>> \in Seq(PageSigns)
<1> DEFINE S == PageSigns
           h == Heads[1]
           b == Hexadecimal(c)
           f == <<EndFlag>>
           p == DigitPacket(c)
           u == b \o f
           n == Len(b)
<1>1. h \in Seq(S) /\ Len(h) = 2 /\ h[1] = Bracket /\ h[2] # Bracket /\ h[1] # "%" /\ h[2] # "%"
  BY DigitHead
<1>2. b \in Seq(Hexes)
  BY HexadecimalPairs DEF InPairs, Ciphertext
<1>3. \A i \in 1 .. n : b[i] # Bracket /\ b[i] # "%"
  <2>1. \A i \in 1 .. n : b[i] \in Hexes
    BY <1>2, SeqIs
  <2> HIDE DEF b, n
  <2> QED BY <2>1, DigitSigns
<1>4. b \in Seq(S)
  <2>1. Hexes \subseteq S
    BY DigitSigns
  <2> HIDE DEF S, b
  <2> QED BY <1>2, <2>1, MoreSigns
<1>5. f \in Seq(S) /\ Len(f) = 1 /\ f[1] = EndFlag /\ EndFlag # Bracket /\ EndFlag # "%"
  <2> DEFINE x == EndFlag
  <2>1. x \in S /\ EndFlag # Bracket /\ EndFlag # "%"
    BY DigitSigns
  <2>2. f = <<x>>
    OBVIOUS
  <2> HIDE DEF S, f, x
  <2>3. f \in Seq(S) /\ Len(f) = 1 /\ f[1] = x
    BY <2>1, <2>2
  <2> QED BY <2>1, <2>3 DEF x
<1>6. p = h \o u
  <2>1. Three(S, h, b, f)
    BY <1>1, <1>4, <1>5 DEF Three
  <2> HIDE DEF S, h, b, f
  <2>2. (h \o b) \o f = h \o (b \o f)
    BY <2>1, JoinJoin
  <2>3. h \o b \in Seq(S)
    BY <1>1, <1>4
  <2>4. Append(h \o b, EndFlag) = (h \o b) \o <<EndFlag>>
    <3> DEFINE w == h \o b
               x == EndFlag
    <3>1. w \in Seq(S) /\ x \in S
      BY <2>3, DigitSigns DEF S
    <3> HIDE DEF w, x
    <3>2. Append(w, x) = w \o <<x>>
      BY <3>1
    <3> QED BY <3>2 DEF w, x
  <2> QED BY <2>2, <2>4 DEF DigitPacket, h, b, f
<1> HIDE DEF S, h, b, f, u, n, p
<1>7. u \in Seq(S) /\ Len(u) = n + 1 /\ n \in Nat /\ (\A i \in 1 .. n : u[i] = b[i]) /\ u[n + 1] = EndFlag
  <2>1. u \in Seq(S) /\ Len(u) = n + 1 /\ n \in Nat /\ (\A i \in 1 .. n : u[i] = b[i]) /\ \A i \in 1 .. 1 : u[n + i] = f[i]
    <3> DEFINE o == Len(f)
    <3>1. b \in Seq(S) /\ f \in Seq(S) /\ u = b \o f /\ n = Len(b) /\ o = Len(f)
      BY <1>4, <1>5 DEF u, n
    <3>2. o = 1
      BY <1>5
    <3> HIDE DEF o
    <3>3. u \in Seq(S) /\ Len(u) = n + o /\ n \in Nat /\ (\A i \in 1 .. n : u[i] = b[i]) /\ \A i \in 1 .. o : u[n + i] = f[i]
      BY ONLY <3>1, JoinedAs
    <3> QED BY <3>2, <3>3
  <2> QED BY <1>5, <2>1
<1>8. \A i \in 1 .. n + 1 : u[i] # Bracket /\ u[i] # "%"
  <2>1. \A i \in 1 .. n + 1 : i \in 1 .. n \/ i = n + 1
    BY <1>7
  <2> QED BY <1>3, <1>5, <1>7, <2>1
<1>9. p \in Seq(S) /\ Len(p) = n + 3 /\ p[1] = h[1] /\ p[2] = h[2] /\ \A i \in 1 .. n + 1 : p[2 + i] = u[i]
  <2> DEFINE o == Len(u)
             m == Len(h)
  <2>1. h \in Seq(S) /\ u \in Seq(S) /\ p = h \o u /\ m = Len(h) /\ o = Len(u)
    BY <1>1, <1>6, <1>7
  <2>2. o = n + 1 /\ m = 2
    BY <1>1, <1>7
  <2> HIDE DEF o, m
  <2>3. p \in Seq(S) /\ Len(p) = m + o /\ (\A i \in 1 .. m : p[i] = h[i]) /\ \A i \in 1 .. o : p[m + i] = u[i]
    BY ONLY <2>1, JoinedAs
  <2> QED BY <1>7, <2>2, <2>3
<1>10. ASSUME NEW i \in 3 .. n + 3 PROVE p[i] # Bracket /\ p[i] # "%"
  <2>1. i - 2 \in 1 .. n + 1 /\ 2 + (i - 2) = i
    BY <1>7
  <2> QED BY <1>8, <1>9, <2>1
<1>11. \A i \in 1 .. Len(p) : i = 1 \/ i = 2 \/ i \in 3 .. n + 3
  BY <1>7, <1>9
<1>12. \A i \in 2 .. Len(p) : i \in 1 .. Len(p) /\ i # 1
  BY <1>7, <1>9
<1>13. \A i \in 2 .. Len(p) : p[i] # Bracket
  BY <1>1, <1>9, <1>10, <1>11, <1>12
<1>14. \A i \in 1 .. Len(p) : p[i] # "%"
  BY <1>1, <1>9, <1>10, <1>11
<1>15. Len(p) > 2
  BY <1>7, <1>9
<1> QED BY <1>1, <1>2, <1>4, <1>5, <1>6, <1>9, <1>13, <1>14, <1>15 DEF S, h, b, f, u, p

\* A comma as it is encoded is replaced as a whole.
LEMMA CommaReplaced ==
    ASSUME NEW S, CommaSigns \subseteq S
    PROVE  Replaced(Comma, Comma, CommaShown) = CommaShown
<1> DEFINE old == Comma
           new == CommaShown
           at == Places(old, old, 1)
           f == Pieces(old, old, new)
           g == [i \in 1 .. 4 |-> IF i = 4 THEN <<>> ELSE f[i]]
<1>1. Singular(S, old) /\ old \in Seq(S) /\ Len(old) = 3 /\ new \in Seq(S)
  BY CommaIs DEF Singular
<1>2. \A j \in 2 .. 3 : old[j] # old[1]
  BY <1>1 DEF Singular
<1> HIDE DEF old, new
<1>3. \A k : k \in at <=> k = 1
  <2>0. old \in Seq(S) /\ Singular(S, old)
    BY <1>1
  <2>1. \A k : k \in Places(old, old, 1) <=> /\ k \in 1 .. Len(old) - Len(old) + 1
                                             /\ \A j \in 1 .. Len(old) : old[k + j - 1] = old[j]
    BY ONLY <2>0, FoundAt
  <2>2. 1 .. Len(old) - Len(old) + 1 = {1}
    BY <1>1
  <2>3. \A j \in 1 .. Len(old) : old[1 + j - 1] = old[j]
    BY <1>1
  <2> QED BY <2>1, <2>2, <2>3
<1>4. Replaced(old, old, new) = FlattenSeq(f) /\ f \in [1 .. Len(old) -> Seq(S)]
  <2>1. old \in Seq(S) /\ Singular(S, old) /\ new \in Seq(S)
    BY <1>1
  <2> QED BY ONLY <2>1, ReplacedPieces
<1>5. \A i \in 1 .. Len(old) : f[i] = IF i \in at THEN new ELSE IF Covered(at, old, i) THEN <<>> ELSE <<old[i]>>
  BY DEF Pieces
<1>6. at = {1}
  BY <1>3
<1>7. \A i \in 2 .. 3 : Covered(at, old, i)
  <2>1. \A i \in 2 .. 3 : 1 < i /\ i < 1 + Len(old)
    BY <1>1
  <2> HIDE DEF at
  <2> QED BY <1>6, <2>1 DEF Covered
<1>8. f \in [1 .. 3 -> Seq(S)]
  BY <1>1, <1>4
<1> HIDE DEF f, at
<1>9. f[1] = new /\ f[2] = <<>> /\ f[3] = <<>>
  BY <1>1, <1>5, <1>6, <1>7
<1>10. g \in [1 .. 4 -> Seq(S)] /\ g[1] = new /\ g[2] = <<>> /\ g[3] = <<>> /\ g[4] = <<>> /\ \A i \in 1 .. 3 : g[i] = f[i]
  <2>1. <<>> \in Seq(S)
    OBVIOUS
  <2>2. \A i \in 1 .. 4 : i = 4 \/ i \in 1 .. 3
    OBVIOUS
  <2> QED BY <1>8, <1>9, <2>1, <2>2
<1> HIDE DEF g
<1>11. FlattenSeq(g) = new
  BY <1>1, <1>10, RowOfOne
<1>12. FlattenSeq(g) = FlattenSeq(f) \o g[4]
  <2> DEFINE n == 3
  <2>1. n \in Nat /\ f \in [1 .. n -> Seq(S)] /\ g \in [1 .. n + 1 -> Seq(S)] /\ \A i \in 1 .. n : g[i] = f[i]
    BY <1>8, <1>10
  <2>2. n + 1 = 4
    OBVIOUS
  <2> HIDE DEF n
  <2>3. FlattenSeq(g) = FlattenSeq(f) \o g[n + 1]
    BY ONLY <2>1, FlattenedOneMore
  <2> QED BY <2>2, <2>3
<1>13. FlattenSeq(f) \in Seq(S)
  <2>1. 3 \in Nat
    OBVIOUS
  <2> QED BY <1>8, <2>1, Flattened
<1>14. FlattenSeq(f) \o <<>> = FlattenSeq(f)
  BY <1>13
<1> QED BY <1>4, <1>10, <1>11, <1>12, <1>14 DEF old, new

\* A text without that sign stays what it is, before any other.
LEMMA ReplacedBehind ==
    ASSUME NEW S, CommaSigns \subseteq S, NEW p \in Seq(S), \A i \in 1 .. Len(p) : p[i] # "%", NEW r \in Seq(S)
    PROVE  Replaced(p \o r, Comma, CommaShown) = p \o Replaced(r, Comma, CommaShown)
<1>1. Singular(S, Comma) /\ Comma[1] = "%" /\ Len(Comma) = 3 /\ CommaShown \in Seq(S)
  BY CommaIs
<1> DEFINE w == p \o r
           m == Len(p)
           n == Len(r)
<1>2. w \in Seq(S) /\ Len(w) = m + n /\ m \in Nat /\ n \in Nat /\ \A i \in 1 .. m : w[i] = p[i]
  <2>1. w = p \o r /\ m = Len(p) /\ n = Len(r) /\ p \in Seq(S) /\ r \in Seq(S)
    OBVIOUS
  <2> HIDE DEF w, m, n
  <2> QED BY ONLY <2>1, JoinedAs
<1>3. Apart(S, p, r, Comma, CommaShown)
  <2>1. ASSUME NEW k, k \in Places(w, Comma, 1) PROVE k + Len(Comma) - 1 =< m \/ k > m
    <3>1. w \in Seq(S) /\ Singular(S, Comma)
      BY <1>1, <1>2
    <3> HIDE DEF w
    <3>2. k \in 1 .. Len(w) - Len(Comma) + 1 /\ \A j \in 1 .. Len(Comma) : w[k + j - 1] = Comma[j]
      <4>1. k \in Places(w, Comma, 1) <=> /\ k \in 1 .. Len(w) - Len(Comma) + 1
                                          /\ \A j \in 1 .. Len(Comma) : w[k + j - 1] = Comma[j]
        BY ONLY <3>1, FoundAt
      <4> QED BY <2>1, <4>1
    <3>3. w[k] = "%" /\ k \in Nat /\ k > 0
      <4>1. 1 \in 1 .. Len(Comma) /\ k + 1 - 1 = k
        BY <1>1, <1>2, <3>2
      <4> QED BY <1>1, <1>2, <3>2, <4>1
    <3>4. k > m
      <4> SUFFICES ASSUME k =< m PROVE FALSE
        BY <1>2, <3>3
      <4>1. k \in 1 .. m
        BY <1>2, <3>3
      <4> QED BY <1>2, <3>3, <4>1
    <3> QED BY <3>4
  <2> QED BY <1>1, <2>1 DEF Apart
<1> HIDE DEF w, m, n
<1>4. Replaced(p \o r, Comma, CommaShown) = Replaced(p, Comma, CommaShown) \o Replaced(r, Comma, CommaShown)
  BY <1>3, ReplacedJoin
<1>5. Replaced(p, Comma, CommaShown) = p
  <2>1. p \in Seq(S) /\ Singular(S, Comma) /\ CommaShown \in Seq(S) /\ \A i \in 1 .. Len(p) : p[i] # Comma[1]
    BY <1>1
  <2> QED BY ONLY <2>1, ReplacedSame
<1> QED BY <1>4, <1>5

\* A comma before any text is replaced.
LEMMA CommaBefore ==
    ASSUME NEW S, CommaSigns \subseteq S, NEW r \in Seq(S)
    PROVE  Replaced(Comma \o r, Comma, CommaShown) = CommaShown \o Replaced(r, Comma, CommaShown)
<1> DEFINE c == Comma
           w == c \o r
           m == Len(c)
           n == Len(r)
<1>1. Singular(S, c) /\ m = 3 /\ CommaShown \in Seq(S) /\ c \in Seq(S) /\ \A j \in 2 .. 3 : c[j] # c[1]
  BY CommaIs DEF Singular
<1> HIDE DEF c
<1>2. w \in Seq(S) /\ Len(w) = m + n /\ m \in Nat /\ n \in Nat /\ \A i \in 1 .. m : w[i] = c[i]
  <2>1. w = c \o r /\ m = Len(c) /\ n = Len(r) /\ c \in Seq(S) /\ r \in Seq(S)
    BY <1>1
  <2> HIDE DEF w, m, n
  <2> QED BY ONLY <2>1, JoinedAs
<1>3. Apart(S, c, r, c, CommaShown)
  <2>1. ASSUME NEW k, k \in Places(w, c, 1) PROVE k + Len(c) - 1 =< m \/ k > m
    <3>1. w \in Seq(S) /\ Singular(S, c)
      BY <1>1, <1>2
    <3> HIDE DEF w
    <3>2. k \in 1 .. Len(w) - Len(c) + 1 /\ \A j \in 1 .. Len(c) : w[k + j - 1] = c[j]
      <4>1. k \in Places(w, c, 1) <=> /\ k \in 1 .. Len(w) - Len(c) + 1
                                      /\ \A j \in 1 .. Len(c) : w[k + j - 1] = c[j]
        BY ONLY <3>1, FoundAt
      <4> QED BY <2>1, <4>1
    <3>3. w[k] = c[1] /\ k \in Nat /\ k > 0
      <4>1. 1 \in 1 .. Len(c) /\ k + 1 - 1 = k
        BY <1>1, <1>2, <3>2
      <4> QED BY <1>1, <1>2, <3>2, <4>1
    <3>4. k > m \/ k = 1
      <4> SUFFICES ASSUME k =< m, k # 1 PROVE FALSE
        BY <1>2, <3>3
      <4>1. k \in 1 .. m /\ k \in 2 .. 3
        BY <1>1, <1>2, <3>3
      <4> QED BY <1>1, <1>2, <3>3, <4>1
    <3> QED BY <1>1, <3>4
  <2> QED BY <1>1, <2>1 DEF Apart
<1> HIDE DEF w, m, n
<1>4. Replaced(c \o r, c, CommaShown) = Replaced(c, c, CommaShown) \o Replaced(r, c, CommaShown)
  BY <1>3, ReplacedJoin
<1> QED BY <1>4, CommaReplaced DEF c

\* A text as the page shows it.
Commas(r) == Replaced(r, Comma, CommaShown)

\* It is a text again.
LEMMA CommasIs ==
    ASSUME NEW S, PageSigns \subseteq S, NEW r \in Seq(S)
    PROVE  /\ Commas(r) \in Seq(S) /\ Commas(Comma \o r) = CommaShown \o Commas(r)
           /\ Comma \in Seq(S) /\ CommaShown \in Seq(S) /\ CommaSigns \subseteq S
<1>1. CommaSigns \subseteq S
  BY DigitSigns
<1>2. Singular(S, Comma) /\ CommaShown \in Seq(S) /\ Comma \in Seq(S)
  BY <1>1, CommaIs DEF Singular
<1>3. Replaced(r, Comma, CommaShown) \in Seq(S)
  <2>1. r \in Seq(S) /\ Singular(S, Comma) /\ CommaShown \in Seq(S)
    BY <1>2
  <2> QED BY ONLY <2>1, ReplacedText
<1>4. Replaced(Comma \o r, Comma, CommaShown) = CommaShown \o Replaced(r, Comma, CommaShown)
  BY <1>1, CommaBefore
<1> QED BY <1>1, <1>2, <1>3, <1>4 DEF Commas

\* A packet, with what divides it from the next one, in what is sent and in a page.
PartSent == [c \in Ciphertext |-> DigitPacket(c) \o Comma]
PartShown == [c \in Ciphertext |-> DigitPacket(c) \o CommaShown]

\* The parts that are encrypted, and how a page shows them.
Done(u) == Spelled(PartSent, u)
Joined(u) == Spelled(PartShown, u)

\* Such packets.
LEMMA PartsAre ==
    ASSUME NEW S, PageSigns \subseteq S
    PROVE  /\ PartSent \in [Ciphertext -> Seq(S)] /\ PartShown \in [Ciphertext -> Seq(S)]
           /\ \A c \in Ciphertext : /\ PartSent[c] = DigitPacket(c) \o Comma
                                    /\ PartShown[c] = DigitPacket(c) \o CommaShown
                                    /\ DigitPacket(c) \in Seq(S)
<1>1. Comma \in Seq(S) /\ CommaShown \in Seq(S)
  <2>1. <<>> \in Seq(S)
    OBVIOUS
  <2> QED BY <2>1, CommasIs
<1>2. ASSUME NEW c \in Ciphertext
      PROVE  DigitPacket(c) \in Seq(S) /\ DigitPacket(c) \o Comma \in Seq(S) /\ DigitPacket(c) \o CommaShown \in Seq(S)
  <2> DEFINE p == DigitPacket(c)
  <2>1. p \in Seq(PageSigns)
    BY DigitPacketIs
  <2> HIDE DEF p
  <2>2. p \in Seq(S)
    BY <2>1, MoreSigns
  <2>3. p \o Comma \in Seq(S) /\ p \o CommaShown \in Seq(S)
    BY <1>1, <2>2
  <2> QED BY <2>2, <2>3 DEF p
<1> QED BY <1>2, Zenon DEF PartSent, PartShown

\* One part more.
LEMMA DoneMore ==
    ASSUME NEW S, PageSigns \subseteq S, NEW u \in Seq(Ciphertext), NEW c \in Ciphertext
    PROVE  /\ Done(u) \in Seq(S) /\ Joined(u) \in Seq(S) /\ DigitPacket(c) \in Seq(S)
           /\ Done(Append(u, c)) = Done(u) \o (DigitPacket(c) \o Comma)
           /\ Joined(Append(u, c)) = Joined(u) \o (DigitPacket(c) \o CommaShown)
<1> DEFINE C == Ciphertext
           F == PartSent
           E == PartShown
<1>1. F \in [C -> Seq(S)] /\ E \in [C -> Seq(S)]
  BY PartsAre
<1>2. u \in Seq(C) /\ c \in C
  OBVIOUS
<1>3. F[c] = DigitPacket(c) \o Comma /\ E[c] = DigitPacket(c) \o CommaShown /\ DigitPacket(c) \in Seq(S)
  BY PartsAre
<1> HIDE DEF C, F, E
<1>4. Spelled(F, u) \in Seq(S) /\ Spelled(F, Append(u, c)) = Spelled(F, u) \o F[c]
  <2>1. F \in [C -> Seq(S)] /\ u \in Seq(C) /\ c \in C
    BY <1>1, <1>2
  <2> QED BY ONLY <2>1, SpelledMore
<1>5. Spelled(E, u) \in Seq(S) /\ Spelled(E, Append(u, c)) = Spelled(E, u) \o E[c]
  <2>1. E \in [C -> Seq(S)] /\ u \in Seq(C) /\ c \in C
    BY <1>1, <1>2
  <2> QED BY ONLY <2>1, SpelledMore
<1> QED BY <1>3, <1>4, <1>5 DEF Done, Joined, F, E

\* A page shows each part as its packet, with a comma behind it.
LEMMA ShownParts ==
    ASSUME NEW S, PageSigns \subseteq S
    PROVE  \A u \in Seq(Ciphertext), r \in Seq(S) : Commas(Done(u) \o r) = Joined(u) \o Commas(r)
<1> DEFINE C == Ciphertext
           G == {u \in Seq(C) : \A r \in Seq(S) : Commas(Done(u) \o r) = Joined(u) \o Commas(r)}
<1>1. <<>> \in G
  <2>1. Done(<<>>) = <<>> /\ Joined(<<>>) = <<>>
    BY SpelledEmpty DEF Done, Joined
  <2>2. ASSUME NEW r \in Seq(S) PROVE Commas(<<>> \o r) = <<>> \o Commas(r)
    <3> DEFINE q == Commas(r)
    <3>1. q \in Seq(S) /\ <<>> \o r = r
      BY CommasIs
    <3> HIDE DEF q
    <3>2. <<>> \o q = q
      BY <3>1
    <3> QED BY <3>1, <3>2 DEF q
  <2>3. <<>> \in Seq(C)
    OBVIOUS
  <2> QED BY <2>1, <2>2, <2>3
<1>2. ASSUME NEW u \in Seq(C), NEW c \in C, u \in G PROVE Append(u, c) \in G
  <2> DEFINE D == Done(u)
             J == Joined(u)
             p == DigitPacket(c)
             f == Comma
             s == CommaShown
  <2>1. /\ D \in Seq(S) /\ J \in Seq(S) /\ p \in Seq(S)
        /\ Done(Append(u, c)) = D \o (p \o f) /\ Joined(Append(u, c)) = J \o (p \o s)
    BY DoneMore
  <2>2. ASSUME NEW r \in Seq(S)
        PROVE  Commas((D \o (p \o f)) \o r) = (J \o (p \o s)) \o Commas(r)
    <3> DEFINE q == Commas(r)
               fr == f \o r
               sq == s \o q
    <3>1. q \in Seq(S) /\ Commas(fr) = sq /\ f \in Seq(S) /\ s \in Seq(S) /\ CommaSigns \subseteq S
      BY CommasIs
    <3>2. fr \in Seq(S) /\ sq \in Seq(S)
      <4> HIDE DEF f, s, q
      <4> QED BY <3>1
    <3>3. Commas(p \o fr) = p \o Commas(fr)
      <4>1. \A i \in 1 .. Len(p) : p[i] # "%"
        BY DigitPacketIs
      <4> HIDE DEF p, fr
      <4> QED BY <2>1, <3>1, <3>2, <4>1, ReplacedBehind DEF Commas
    <3>4. \A x \in Seq(S) : Commas(D \o x) = J \o Commas(x)
      BY <1>2
    <3> HIDE DEF D, J, p, f, s, q
    <3>5. (p \o f) \o r = p \o (f \o r) /\ (p \o s) \o q = p \o (s \o q)
      <4>1. Three(S, p, f, r)
        BY <2>1, <3>1 DEF Three
      <4>2. Three(S, p, s, q)
        BY <2>1, <3>1 DEF Three
      <4>3. (p \o f) \o r = p \o (f \o r)
        BY ONLY <4>1, JoinJoin
      <4>4. (p \o s) \o q = p \o (s \o q)
        BY ONLY <4>2, JoinJoin
      <4> QED BY <4>3, <4>4
    <3>6. p \o f \in Seq(S) /\ p \o s \in Seq(S)
      BY <2>1, <3>1
    <3>7. (D \o (p \o f)) \o r = D \o ((p \o f) \o r) /\ (J \o (p \o s)) \o q = J \o ((p \o s) \o q)
      <4> DEFINE pf == p \o f
                 ps == p \o s
      <4>1. Three(S, D, pf, r) /\ Three(S, J, ps, q)
        BY <2>1, <3>1, <3>6 DEF Three
      <4> HIDE DEF pf, ps
      <4>2. (D \o pf) \o r = D \o (pf \o r)
        BY <4>1, JoinJoin
      <4>3. (J \o ps) \o q = J \o (ps \o q)
        BY <4>1, JoinJoin
      <4> QED BY <4>2, <4>3 DEF pf, ps
    <3> HIDE DEF fr, sq
    <3>8. p \o fr \in Seq(S)
      BY <2>1, <3>2
    <3>9. Commas(D \o (p \o fr)) = J \o Commas(p \o fr)
      BY <3>4, <3>8
    <3>10. (D \o (p \o f)) \o r = D \o (p \o fr)
      BY <3>5, <3>7 DEF fr
    <3>11. (J \o (p \o s)) \o q = J \o (p \o sq)
      BY <3>5, <3>7 DEF sq
    <3>12. Commas((D \o (p \o f)) \o r) = (J \o (p \o s)) \o q
      BY <3>1, <3>3, <3>9, <3>10, <3>11
    <3> QED BY <3>12 DEF q
  <2> HIDE DEF D, J, p, f, s
  <2>3. Append(u, c) \in Seq(C)
    OBVIOUS
  <2> QED BY <2>1, <2>2, <2>3
<1>3. \A u \in Seq(C) : u \in G
  <2> HIDE DEF G, C
  <2> QED BY <1>1, <1>2, SequenceInduction
<1> HIDE DEF C
<1> QED BY <1>3 DEF C

\* A packet and the comma behind it.
PartOf(S, c, q) == PageSigns \subseteq S /\ c \in Ciphertext /\ q = DigitPacket(c) \o CommaShown

\* They have one head, at their beginning.
LEMMA PartIs ==
    ASSUME NEW S, NEW c, NEW q, PartOf(S, c, q)
    PROVE  /\ q \in Seq(S) /\ Len(q) > 2 /\ q[1] = Bracket /\ q[2] = Heads[1][2]
           /\ \A i \in 2 .. Len(q) : q[i] # Bracket
<1> DEFINE p == DigitPacket(c)
           h == Heads[1]
           t == Hexadecimal(c) \o <<EndFlag>>
           n == Len(p)
           x == ","
           s == <<x>>
<1>0. PageSigns \subseteq S /\ c \in Ciphertext /\ q = p \o CommaShown
  BY DEF PartOf
<1>1. p \in Seq(PageSigns) /\ n > 2 /\ p[1] = Bracket /\ (\A i \in 2 .. n : p[i] # Bracket) /\ p = h \o t
  BY <1>0, DigitPacketIs
<1>2. t \in Seq(PageSigns)
  <2> DEFINE a == Hexadecimal(c)
             f == <<EndFlag>>
  <2>1. a \in Seq(PageSigns) /\ f \in Seq(PageSigns)
    BY <1>0, DigitPacketIs
  <2> HIDE DEF a, f
  <2>2. a \o f \in Seq(PageSigns)
    BY <2>1
  <2> QED BY <2>2 DEF a, f
<1>3. h \in Seq(PageSigns) /\ Len(h) = 2
  BY DigitHead
<1> HIDE DEF p, h, t
<1>4. p[2] = h[2]
  <2> DEFINE m == Len(h)
             o == Len(t)
  <2>1. h \in Seq(PageSigns) /\ t \in Seq(PageSigns) /\ p = h \o t /\ m = Len(h) /\ o = Len(t)
    BY <1>1, <1>2, <1>3
  <2>2. m = 2
    BY <1>3
  <2> HIDE DEF m, o
  <2>3. \A i \in 1 .. m : p[i] = h[i]
    BY ONLY <2>1, JoinedAs
  <2> QED BY <2>2, <2>3
<1>5. s = CommaShown /\ s \in Seq(PageSigns) /\ Len(s) = 1 /\ s[1] = x /\ x # Bracket
  <2>1. x \in PageSigns /\ x # Bracket
    BY DigitSigns DEF CommaSigns
  <2>2. s = CommaShown
    BY DEF CommaShown
  <2> HIDE DEF x
  <2>3. s \in Seq(PageSigns) /\ Len(s) = 1 /\ s[1] = x
    BY <2>1, FewSigns
  <2> QED BY <2>1, <2>2, <2>3
<1> HIDE DEF s, x
<1>6. /\ q \in Seq(PageSigns) /\ Len(q) = n + 1 /\ n \in Nat
      /\ (\A i \in 1 .. n : q[i] = p[i]) /\ q[n + 1] = x
  <2> DEFINE o == Len(s)
  <2>1. p \in Seq(PageSigns) /\ s \in Seq(PageSigns) /\ q = p \o s /\ n = Len(p) /\ o = Len(s)
    BY <1>0, <1>1, <1>5 DEF p
  <2>2. o = 1
    BY <1>5
  <2> HIDE DEF n, o
  <2>3. /\ q \in Seq(PageSigns) /\ Len(q) = n + o /\ n \in Nat
        /\ (\A i \in 1 .. n : q[i] = p[i]) /\ \A i \in 1 .. o : q[n + i] = s[i]
    BY ONLY <2>1, JoinedAs
  <2> QED BY <1>5, <2>2, <2>3
<1>7. q \in Seq(S)
  BY <1>0, <1>6, MoreSigns
<1> HIDE DEF n
<1>8. \A i \in 2 .. n + 1 : (i \in 2 .. n /\ i \in 1 .. n) \/ i = n + 1
  BY <1>6
<1>9. \A i \in 2 .. n + 1 : q[i] # Bracket
  BY <1>1, <1>5, <1>6, <1>8
<1>10. 1 \in 1 .. n /\ 2 \in 1 .. n
  BY <1>1, <1>6
<1>11. Len(q) > 2 /\ q[1] = Bracket /\ q[2] = h[2]
  <2>1. q[1] = p[1] /\ q[2] = p[2]
    BY <1>6, <1>10
  <2>2. Len(q) > 2
    <3>1. n > 2
      BY <1>1
    <3> QED BY <1>6, <3>1
  <2> QED BY <1>1, <1>4, <2>1, <2>2
<1>12. \A i \in 2 .. Len(q) : q[i] # Bracket
  BY <1>6, <1>9
<1> QED BY <1>7, <1>11, <1>12 DEF h

\* A text with one head more in it: J before the part q that begins with it.
OneHead(S, J, q, g, d) ==
    /\ PageSigns \subseteq S /\ J \in Seq(S) /\ q \in Seq(S) /\ g \in Seq(S) /\ d = J \o (q \o g)
    /\ Len(q) > 2 /\ q[1] = Bracket /\ q[2] = Heads[1][2] /\ \A i \in 2 .. Len(q) : q[i] # Bracket

\* It counts one head more.
LEMMA HeadMore ==
    ASSUME NEW S, NEW J, NEW q, NEW g, NEW d, OneHead(S, J, q, g, d), NEW k \in Nat,
           HeadsTo(Places(d, Heads[1], 1), Len(J)) = k
    PROVE  HeadsTo(Places(d, Heads[1], 1), Len(J) + Len(q)) = k + 1
<1> DEFINE h == Heads[1]
           m == Len(J)
           n == Len(q)
           o == Len(g)
           w == q \o g
           heads == Places(d, h, 1)
           A == {p \in heads : p =< m}
           B == {p \in heads : p =< m + n}
<1>0. /\ PageSigns \subseteq S /\ J \in Seq(S) /\ q \in Seq(S) /\ g \in Seq(S) /\ d = J \o w
      /\ n > 2 /\ q[1] = Bracket /\ q[2] = h[2] /\ \A i \in 2 .. n : q[i] # Bracket
  BY DEF OneHead
<1>1. h \in Seq(S) /\ Len(h) = 2 /\ h[1] = Bracket /\ h[2] # Bracket
  <2>1. h \in Seq(PageSigns) /\ Len(h) = 2 /\ h[1] = Bracket /\ h[2] # Bracket
    BY DigitHead
  <2> HIDE DEF h
  <2>2. h \in Seq(S)
    BY <1>0, <2>1, MoreSigns
  <2> QED BY <2>1, <2>2
<1> HIDE DEF h
<1>2. w \in Seq(S) /\ Len(w) = n + o /\ n \in Nat /\ o \in Nat /\ \A i \in 1 .. n : w[i] = q[i]
  <2>1. q \in Seq(S) /\ g \in Seq(S) /\ w = q \o g /\ n = Len(q) /\ o = Len(g)
    BY <1>0
  <2> HIDE DEF w, n, o
  <2> QED BY ONLY <2>1, JoinedAs
<1> HIDE DEF w
<1>3. /\ d \in Seq(S) /\ Len(d) = m + n + o /\ m \in Nat /\ \A i \in 1 .. n : d[m + i] = q[i]
  <2> DEFINE l == Len(w)
  <2>1. J \in Seq(S) /\ w \in Seq(S) /\ d = J \o w /\ m = Len(J) /\ l = Len(w)
    BY <1>0, <1>2
  <2>2. l = n + o
    BY <1>2
  <2> HIDE DEF m, l
  <2>3. d \in Seq(S) /\ Len(d) = m + l /\ m \in Nat /\ \A i \in 1 .. l : d[m + i] = w[i]
    BY ONLY <2>1, JoinedAs
  <2>4. \A i \in 1 .. n : i \in 1 .. l
    BY <1>2, <2>2
  <2> QED BY <1>2, <2>2, <2>3, <2>4
<1> HIDE DEF m, n, o
<1>4. \A p : p \in heads <=> p \in 1 .. Len(d) - 1 /\ d[p] = Bracket /\ d[p + 1] = h[2]
  <2>1. Singular(S, h)
    BY <1>1 DEF Singular
  <2>2. \A p : p \in heads <=> p \in 1 .. Len(d) - Len(h) + 1 /\ \A j \in 1 .. Len(h) : d[p + j - 1] = h[j]
    <3>1. d \in Seq(S) /\ Singular(S, h)
      BY <1>3, <2>1
    <3>2. \A p : p \in Places(d, h, 1) <=> /\ p \in 1 .. Len(d) - Len(h) + 1
                                           /\ \A j \in 1 .. Len(h) : d[p + j - 1] = h[j]
      BY ONLY <3>1, FoundAt
    <3> QED BY <3>2
  <2> HIDE DEF heads
  <2>3. Len(d) - Len(h) + 1 = Len(d) - 1
    BY <1>1, <1>2, <1>3
  <2>4. ASSUME NEW p \in 1 .. Len(d) - 1
        PROVE  (\A j \in 1 .. Len(h) : d[p + j - 1] = h[j]) <=> d[p] = h[1] /\ d[p + 1] = h[2]
    <3>1. p + 1 - 1 = p /\ p + 2 - 1 = p + 1 /\ 1 .. Len(h) = {1, 2}
      BY <1>1
    <3> QED BY <3>1
  <2> QED BY <1>1, <2>2, <2>3, <2>4
<1> HIDE DEF heads
<1>5. m + 1 \in heads
  <2>1. m + 1 \in 1 .. Len(d) - 1 /\ m + 1 + 1 = m + 2 /\ 1 \in 1 .. n /\ 2 \in 1 .. n
    BY <1>0, <1>2, <1>3
  <2> QED BY <1>0, <1>3, <1>4, <2>1
<1>6. ASSUME NEW p \in heads, p =< m + n PROVE p =< m \/ p = m + 1
  <2> SUFFICES ASSUME ~ (p =< m), p # m + 1 PROVE FALSE
    OBVIOUS
  <2>1. p \in 1 .. Len(d) - 1 /\ d[p] = Bracket
    BY <1>4
  <2>2. p - m \in 2 .. n /\ p - m \in 1 .. n /\ m + (p - m) = p
    BY <1>2, <1>3, <1>6, <2>1
  <2>3. d[m + (p - m)] = q[p - m]
    BY <1>3, <2>2
  <2> QED BY <1>0, <2>1, <2>2, <2>3
<1>7. \A p \in heads : p \in 1 .. Len(d) /\ p \in Nat
  BY <1>2, <1>3, <1>4
<1>8. B = A \cup {m + 1} /\ m + 1 \notin A
  <2>1. m + 1 =< m + n /\ ~ (m + 1 =< m)
    BY <1>0, <1>2, <1>3
  <2>2. \A p \in heads : p =< m => p =< m + n
    BY <1>2, <1>3, <1>7
  <2> DEFINE l == m + n
             y == m + 1
  <2>3. y \in heads /\ y =< l /\ ~ (y =< m) /\ (\A p \in heads : p =< m => p =< l)
    BY <1>5, <2>1, <2>2
  <2>4. \A p \in heads : p =< l => p =< m \/ p = y
    BY <1>6
  <2>5. B = {p \in heads : p =< l}
    OBVIOUS
  <2> HIDE DEF l, y, B
  <2>6. B = A \cup {y} /\ y \notin A
    BY <2>3, <2>4, <2>5
  <2> QED BY <2>6 DEF y
<1>9. IsFiniteSet(A)
  <2>1. A \subseteq 1 .. Len(d) /\ Len(d) \in Nat
    BY <1>2, <1>3, <1>7
  <2> HIDE DEF A
  <2> QED BY <2>1, IndicesFinite
<1>10. Cardinality(A) = k /\ HeadsTo(heads, m + n) = Cardinality(B)
  BY DEF HeadsTo, heads, h, m
<1> HIDE DEF A, B
<1>11. Cardinality(B) = k + 1
  <2> DEFINE y == m + 1
  <2>1. B = A \cup {y} /\ y \notin A /\ IsFiniteSet(A)
    BY <1>8, <1>9
  <2> HIDE DEF y
  <2>2. Cardinality(A \cup {y}) = Cardinality(A) + 1
    BY <2>1, FS_AddElement
  <2> QED BY <1>10, <2>1, <2>2
<1> QED BY <1>10, <1>11 DEF heads, h, m, n

\* So there are as many heads as parts.
LEMMA CountHeads ==
    ASSUME NEW S, PageSigns \subseteq S
    PROVE  \A u \in Seq(Ciphertext), g \in Seq(S) :
             HeadsTo(Places(Joined(u) \o g, Heads[1], 1), Len(Joined(u))) = Len(u)
<1> DEFINE C == Ciphertext
           h == Heads[1]
           G == {u \in Seq(C) : \A g \in Seq(S) : HeadsTo(Places(Joined(u) \o g, h, 1), Len(Joined(u))) = Len(u)}
<1>1. <<>> \in G
  <2>1. Joined(<<>>) = <<>>
    BY SpelledEmpty DEF Joined
  <2> DEFINE e == <<>>
  <2>2. e \in Seq(C) /\ Len(e) = 0 /\ Joined(e) = e
    BY <2>1
  <2> HIDE DEF e
  <2>3. ASSUME NEW g \in Seq(S) PROVE HeadsTo(Places(e \o g, h, 1), Len(e)) = Len(e)
    <3> DEFINE heads == Places(e \o g, h, 1)
    <3>1. \A p \in heads : ~ (p =< 0)
      BY DEF Places
    <3> HIDE DEF heads
    <3>2. {p \in heads : p =< 0} = {}
      BY <3>1
    <3>3. Cardinality({}) = 0
      BY FS_EmptySet
    <3>4. HeadsTo(heads, 0) = 0
      BY <3>2, <3>3 DEF HeadsTo
    <3> QED BY <2>2, <3>4 DEF heads
  <2>4. e \in G
    BY <2>2, <2>3
  <2> QED BY <2>4 DEF e
<1>2. ASSUME NEW u \in Seq(C), NEW c \in C, u \in G PROVE Append(u, c) \in G
  <2> DEFINE J == Joined(u)
             q == DigitPacket(c) \o CommaShown
             n == Len(u)
             v == Append(u, c)
  <2>1. J \in Seq(S) /\ Joined(v) = J \o q
    BY DoneMore
  <2>2. /\ q \in Seq(S) /\ Len(q) > 2 /\ q[1] = Bracket /\ q[2] = Heads[1][2]
        /\ \A i \in 2 .. Len(q) : q[i] # Bracket
    <3>1. PartOf(S, c, q)
      BY DEF PartOf
    <3> HIDE DEF q
    <3> QED BY ONLY <3>1, PartIs
  <2>3. v \in Seq(C) /\ Len(v) = n + 1 /\ n \in Nat
    OBVIOUS
  <2>4. ASSUME NEW g \in Seq(S) PROVE HeadsTo(Places((J \o q) \o g, h, 1), Len(J \o q)) = n + 1
    <3> DEFINE d == J \o (q \o g)
    <3>0. q \o g \in Seq(S)
      <4> HIDE DEF q
      <4> QED BY <2>2
    <3>1. HeadsTo(Places(d, h, 1), Len(J)) = n
      BY <1>2, <3>0
    <3> HIDE DEF n, J, q
    <3>2. OneHead(S, J, q, g, d)
      BY <2>1, <2>2 DEF OneHead
    <3>3. (J \o q) \o g = d /\ Len(J \o q) = Len(J) + Len(q)
      <4>1. Three(S, J, q, g)
        BY <2>1, <2>2 DEF Three
      <4>2. (J \o q) \o g = J \o (q \o g)
        BY <4>1, JoinJoin
      <4>3. Len(J \o q) = Len(J) + Len(q)
        BY <2>1, <2>2
      <4> QED BY <4>2, <4>3
    <3> HIDE DEF d
    <3>4. HeadsTo(Places(d, Heads[1], 1), Len(J) + Len(q)) = n + 1
      BY <2>3, <3>1, <3>2, HeadMore
    <3> QED BY <3>3, <3>4
  <2> HIDE DEF J, q, n, v, h
  <2>5. v \in G
    BY <2>1, <2>3, <2>4
  <2> QED BY <2>5 DEF v
<1>3. \A u \in Seq(C) : u \in G
  <2> HIDE DEF G, C
  <2> QED BY <1>1, <1>2, SequenceInduction
<1> HIDE DEF C
<1> QED BY <1>3 DEF C, h

\* Four texts, one behind the other.
FourTexts(S, h, b, f, x) == h \in Seq(S) /\ b \in Seq(S) /\ f \in Seq(S) /\ x \in Seq(S)

\* Joined in whatever order.
LEMMA JoinFour ==
    ASSUME NEW S, NEW h, NEW b, NEW f, NEW x, FourTexts(S, h, b, f, x)
    PROVE  (h \o (b \o f)) \o x = h \o (b \o (f \o x))
<1> DEFINE u == b \o f
<1>0. h \in Seq(S) /\ b \in Seq(S) /\ f \in Seq(S) /\ x \in Seq(S)
  BY DEF FourTexts
<1>1. u \in Seq(S)
  BY <1>0
<1>2. (b \o f) \o x = b \o (f \o x)
  <2>1. Three(S, b, f, x)
    BY <1>0 DEF Three
  <2> QED BY <2>1, JoinJoin
<1> HIDE DEF u
<1>3. (h \o u) \o x = h \o (u \o x)
  <2>1. Three(S, h, u, x)
    BY <1>0, <1>1 DEF Three
  <2> QED BY <2>1, JoinJoin
<1> QED BY <1>2, <1>3 DEF u

\* A value whose parts are encrypted: those of u before the one of c.
Parted(S, t, u, c, rest) ==
    /\ PageSigns \subseteq S /\ u \in Seq(Ciphertext) /\ c \in Ciphertext /\ rest \in Seq(S)
    /\ t = Done(u) \o (DigitPacket(c) \o rest) /\ SubSeq(t, 1, 2) = Heads[1]

\* The page shows that part.
LEMMA PartInPage ==
    ASSUME NEW S, NEW t, NEW u, NEW c, NEW rest, Parted(S, t, u, c, rest), NEW code \in DOMAIN Closers
    PROVE  PageWith(S, t, code, Len(u) + 1, Hexadecimal(c))
<1> DEFINE h == Heads[1]
           b == Hexadecimal(c)
           f == <<EndFlag>>
           p == DigitPacket(c)
           D == Done(u)
           J == Joined(u)
           r == Commas(rest)
           q == Closers[code]
           e == <<q>>
           x == r \o e
           g == f \o x
           d == Commas(t) \o e
<1>1. /\ PageSigns \subseteq S /\ u \in Seq(Ciphertext) /\ c \in Ciphertext /\ rest \in Seq(S)
      /\ t = D \o (p \o rest) /\ SubSeq(t, 1, 2) = h
  BY DEF Parted
<1>2. D \in Seq(S) /\ J \in Seq(S) /\ p \in Seq(S)
  BY <1>1, DoneMore
<1>3. /\ h \in Seq(S) /\ Len(h) = 2 /\ b \in Seq(S) /\ f \in Seq(S) /\ p = h \o (b \o f)
      /\ (\A i \in 1 .. Len(p) : p[i] # "%") /\ Len(f) = 1 /\ f[1] = EndFlag /\ EndFlag \in S
  <2>1. h \in Seq(PageSigns) /\ Len(h) = 2
    BY DigitHead
  <2>2. /\ b \in Seq(PageSigns) /\ f \in Seq(PageSigns) /\ p = h \o (b \o f)
        /\ \A i \in 1 .. Len(p) : p[i] # "%"
    BY <1>1, DigitPacketIs
  <2>3. EndFlag \in PageSigns
    BY DigitSigns
  <2> DEFINE y == EndFlag
  <2>4. f = <<y>> /\ y \in S
    BY <1>1, <2>3
  <2> HIDE DEF h, b, f, p, y
  <2>5. Len(f) = 1 /\ f[1] = y
    BY <2>4
  <2>6. h \in Seq(S) /\ b \in Seq(S) /\ f \in Seq(S)
    BY <1>1, <2>1, <2>2, MoreSigns
  <2> QED BY <2>1, <2>2, <2>4, <2>5, <2>6 DEF y
<1>4. q \in S /\ e \in Seq(S) /\ Len(e) = 1 /\ e[1] = q
  <2>1. q \in S
    BY <1>1, DigitSigns
  <2> HIDE DEF q
  <2> QED BY <2>1, FewSigns
<1>5. r \in Seq(S) /\ CommaSigns \subseteq S
  BY <1>1, CommasIs
<1>6. Commas(t) = J \o (p \o r)
  <2> DEFINE pr == p \o rest
  <2>1. pr \in Seq(S)
    <3> HIDE DEF p
    <3> QED BY <1>1, <1>2
  <2>2. Commas(D \o pr) = J \o Commas(pr)
    <3> HIDE DEF pr, D, J
    <3>1. \A a \in Seq(Ciphertext), y \in Seq(S) : Commas(Done(a) \o y) = Joined(a) \o Commas(y)
      BY <1>1, ShownParts
    <3> QED BY <1>1, <2>1, <3>1 DEF D, J
  <2>3. Commas(p \o rest) = p \o r
    <3> HIDE DEF p
    <3> QED BY <1>1, <1>2, <1>3, <1>5, ReplacedBehind DEF Commas
  <2> QED BY <1>1, <2>2, <2>3
<1> HIDE DEF h, b, f, p, D, J, r, q, e
<1>7. x \in Seq(S) /\ Len(x) > 0 /\ x[Len(x)] = q
  <2> DEFINE m == Len(r)
             n == Len(e)
  <2>1. r \in Seq(S) /\ e \in Seq(S) /\ x = r \o e /\ m = Len(r) /\ n = Len(e)
    BY <1>4, <1>5
  <2>2. n = 1
    BY <1>4
  <2> HIDE DEF m, n, x
  <2>3. x \in Seq(S) /\ Len(x) = m + n /\ m \in Nat /\ \A i \in 1 .. n : x[m + i] = e[i]
    BY ONLY <2>1, JoinedAs
  <2>4. 1 \in 1 .. n
    BY <2>2
  <2> QED BY <1>4, <2>2, <2>3, <2>4
<1> HIDE DEF x
<1>8. g \in Seq(S) /\ Len(g) > 0 /\ g[1] = EndFlag /\ g[Len(g)] = q
  <2> DEFINE m == Len(f)
             n == Len(x)
  <2>1. f \in Seq(S) /\ x \in Seq(S) /\ g = f \o x /\ m = Len(f) /\ n = Len(x)
    BY <1>3, <1>7
  <2>2. m = 1 /\ n > 0
    BY <1>3, <1>7
  <2> HIDE DEF m, n, g
  <2>3. /\ g \in Seq(S) /\ Len(g) = m + n /\ n \in Nat /\ (\A i \in 1 .. m : g[i] = f[i])
        /\ \A i \in 1 .. n : g[m + i] = x[i]
    BY ONLY <2>1, JoinedAs
  <2>4. n \in 1 .. n /\ 1 \in 1 .. m
    BY <2>2, <2>3
  <2> QED BY <1>3, <1>7, <2>1, <2>2, <2>3, <2>4
<1>9. d = J \o (p \o x)
  <2> DEFINE pr == p \o r
  <2>1. pr \in Seq(S)
    BY <1>2, <1>5
  <2>2. (J \o pr) \o e = J \o (pr \o e)
    <3> HIDE DEF pr
    <3>1. Three(S, J, pr, e)
      BY <1>2, <1>4, <2>1 DEF Three
    <3> QED BY <3>1, JoinJoin
  <2>3. (p \o r) \o e = p \o (r \o e)
    <3>1. Three(S, p, r, e)
      BY <1>2, <1>4, <1>5 DEF Three
    <3> QED BY <3>1, JoinJoin
  <2> QED BY <1>6, <2>2, <2>3 DEF x
<1>10. p \o x = h \o (b \o g)
  <2>1. (h \o (b \o f)) \o x = h \o (b \o (f \o x))
    <3>1. FourTexts(S, h, b, f, x)
      BY <1>3, <1>7 DEF FourTexts
    <3> QED BY ONLY <3>1, JoinFour
  <2> QED BY <1>3, <2>1
<1>11. p \o x \in Seq(S)
  BY <1>2, <1>7
<1>12. HeadsTo(Places(d, h, 1), Len(J)) = Len(u)
  <2> DEFINE y == p \o x
  <2>1. y \in Seq(S) /\ d = J \o y
    BY <1>9, <1>11
  <2> HIDE DEF y, d
  <2>2. HeadsTo(Places(Joined(u) \o y, Heads[1], 1), Len(Joined(u))) = Len(u)
    BY <1>1, <2>1, CountHeads
  <2> QED BY <2>1, <2>2 DEF J, h
<1> HIDE DEF g
<1>13. Page(S, J, h, b, g, d)
  BY <1>2, <1>3, <1>8, <1>9, <1>10 DEF Page
<1>14. d = Replaced(t, Comma, <<",">>) \o <<Closers[code]>>
  BY DEF Commas, CommaShown, e, q
<1>15. Len(u) \in Nat
  BY <1>1
<1> HIDE DEF d
<1>16. Shows(S, t, code, J, h, b, g, Len(u))
  BY <1>1, <1>3, <1>4, <1>8, <1>12, <1>13, <1>14, <1>15 DEF Shows, q
<1>17. PageWith(S, t, code, Len(u) + 1, b)
  BY <1>16, ShownFrom
<1> QED BY <1>17 DEF b

\* The n-th of the ciphertexts v is in t as a packet, with the parts of n - 1
\* others before it.
Held(S, t, v, n) ==
    \E a \in Seq(Ciphertext), rest \in Seq(S) :
        Len(a) = n - 1 /\ t = Done(a) \o (DigitPacket(v[n]) \o rest)

\* Each of the parts that are encrypted is there, and the last one as well.
LEMMA PartsHeld ==
    ASSUME NEW S, PageSigns \subseteq S
    PROVE  \A u \in Seq(Ciphertext) : \A w \in Ciphertext, tail \in Seq(S) :
             \A n \in 1 .. Len(u) + 1 : Held(S, Done(u) \o (DigitPacket(w) \o tail), Append(u, w), n)
<1> DEFINE C == Ciphertext
           G == {u \in Seq(C) : \A w \in C, tail \in Seq(S) :
                   \A n \in 1 .. Len(u) + 1 : Held(S, Done(u) \o (DigitPacket(w) \o tail), Append(u, w), n)}
<1>0. ASSUME NEW u \in Seq(C), NEW w \in C, NEW tail \in Seq(S), NEW n, n = Len(u) + 1
      PROVE  Held(S, Done(u) \o (DigitPacket(w) \o tail), Append(u, w), n)
  <2> DEFINE v == Append(u, w)
             t == Done(u) \o (DigitPacket(w) \o tail)
  <2>1. v[n] = w /\ Len(u) = n - 1
    BY <1>0
  <2> HIDE DEF v, t
  <2>2. t = Done(u) \o (DigitPacket(v[n]) \o tail)
    BY <2>1 DEF t
  <2>3. Held(S, t, v, n)
    BY <2>1, <2>2 DEF Held
  <2> QED BY <2>3 DEF v, t
<1>1. <<>> \in G
  <2> DEFINE e == <<>>
  <2>1. e \in Seq(C) /\ Len(e) = 0
    OBVIOUS
  <2> HIDE DEF e
  <2>2. ASSUME NEW w \in C, NEW tail \in Seq(S), NEW n \in 1 .. Len(e) + 1
        PROVE  Held(S, Done(e) \o (DigitPacket(w) \o tail), Append(e, w), n)
    <3>1. n = Len(e) + 1
      BY <2>1
    <3> HIDE DEF C
    <3> QED BY <1>0, <2>1, <3>1
  <2>3. e \in G
    BY <2>1, <2>2
  <2> QED BY <2>3 DEF e
<1>2. ASSUME NEW u \in Seq(C), NEW c \in C, u \in G PROVE Append(u, c) \in G
  <2> DEFINE v == Append(u, c)
             D == Done(u)
             p == DigitPacket(c)
             f == Comma
  <2>1. v \in Seq(C) /\ Len(v) = Len(u) + 1 /\ Len(u) \in Nat
    OBVIOUS
  <2>2. D \in Seq(S) /\ p \in Seq(S) /\ Done(v) = D \o (p \o f)
    BY DoneMore
  <2>3. ASSUME NEW w \in C, NEW tail \in Seq(S), NEW n \in 1 .. Len(v) + 1
        PROVE  Held(S, Done(v) \o (DigitPacket(w) \o tail), Append(v, w), n)
    <3>1. CASE n = Len(v) + 1
      <4> HIDE DEF C, v
      <4> QED BY <1>0, <2>1, <3>1
    <3>2. CASE n # Len(v) + 1
      <4> DEFINE x == DigitPacket(w) \o tail
                 y == f \o x
                 t == Done(v) \o x
      <4>1. n \in 1 .. Len(u) + 1 /\ n \in 1 .. Len(v)
        BY <2>1, <3>2
      <4>2. Append(v, w)[n] = v[n]
        BY <2>1, <4>1
      <4>3. x \in Seq(S) /\ f \in Seq(S)
        <5>1. DigitPacket(w) \in Seq(S) /\ f \in Seq(S)
          <6>1. DigitPacket(w) \in Seq(S)
            BY DoneMore
          <6>2. f \in Seq(S)
            BY CommasIs
          <6> QED BY <6>1, <6>2
        <5> DEFINE q == DigitPacket(w)
        <5> HIDE DEF q, f
        <5>2. q \o tail \in Seq(S)
          BY <5>1 DEF q
        <5> QED BY <5>1, <5>2 DEF q
      <4> HIDE DEF x, D, p, f
      <4>4. y \in Seq(S)
        BY <4>3
      <4>5. t = D \o (p \o y)
        <5> DEFINE pf == p \o f
        <5>1. pf \in Seq(S)
          BY <2>2, <4>3
        <5>2. (D \o pf) \o x = D \o (pf \o x)
          <6> HIDE DEF pf
          <6>1. Three(S, D, pf, x)
            BY <2>2, <4>3, <5>1 DEF Three
          <6> QED BY <6>1, JoinJoin
        <5>3. (p \o f) \o x = p \o (f \o x)
          <6>1. Three(S, p, f, x)
            BY <2>2, <4>3 DEF Three
          <6> QED BY <6>1, JoinJoin
        <5> QED BY <2>2, <5>2, <5>3
      <4> HIDE DEF y
      <4>6. Held(S, D \o (p \o y), v, n)
        <5>1. \A a \in C, b \in Seq(S) : \A k \in 1 .. Len(u) + 1 :
                Held(S, Done(u) \o (DigitPacket(a) \o b), Append(u, a), k)
          BY <1>2
        <5> HIDE DEF C, G
        <5> QED BY <4>1, <4>4, <5>1 DEF D, p
      <4> HIDE DEF t, C
      <4>7. Held(S, t, v, n)
        BY <4>5, <4>6
      <4> DEFINE z == Append(v, w)
      <4>8. Held(S, t, z, n)
        <5>1. z[n] = v[n]
          BY <4>2
        <5> HIDE DEF z, v
        <5> QED BY <4>7, <5>1 DEF Held
      <4> QED BY <4>8 DEF t, x
    <3> QED BY <3>1, <3>2
  <2> HIDE DEF v
  <2>4. v \in G
    BY <2>1, <2>3
  <2> QED BY <2>4 DEF v
<1>3. \A u \in Seq(C) : u \in G
  <2> HIDE DEF G, C
  <2> QED BY <1>1, <1>2, SequenceInduction
<1> HIDE DEF C
<1> QED BY <1>3 DEF C

\* A value whose last part is encrypted, behind those of u, with what may be
\* behind the zero byte that ended the search.
Laid(S, t, u, w, tail) ==
    /\ PageSigns \subseteq S /\ u \in Seq(Ciphertext) /\ w \in Ciphertext /\ tail \in Seq(S)
    /\ t = Done(u) \o (DigitPacket(w) \o tail)

\* It begins with the head of its first packet.
LEMMA LaidHead ==
    ASSUME NEW S, NEW t, NEW u, NEW w, NEW tail, Laid(S, t, u, w, tail)
    PROVE  /\ SubSeq(t, 1, 2) = Heads[1]
           /\ \A n \in 1 .. Len(u) + 1 : Held(S, t, Append(u, w), n) /\ Append(u, w)[n] \in Ciphertext
<1> DEFINE v == Append(u, w)
<1>1. PageSigns \subseteq S /\ u \in Seq(Ciphertext) /\ w \in Ciphertext /\ Len(u) \in Nat
  BY DEF Laid
<1>2. v \in Seq(Ciphertext) /\ Len(v) = Len(u) + 1
  <2> DEFINE C == Ciphertext
  <2>1. u \in Seq(C) /\ w \in C
    BY <1>1
  <2> HIDE DEF C
  <2>2. v \in Seq(C) /\ Len(v) = Len(u) + 1
    BY <2>1
  <2> QED BY <2>2 DEF C
<1>3. \A n \in 1 .. Len(u) + 1 : Held(S, t, v, n)
  <2>1. \A n \in 1 .. Len(u) + 1 : Held(S, Done(u) \o (DigitPacket(w) \o tail), Append(u, w), n)
    BY PartsHeld DEF Laid
  <2> QED BY <2>1 DEF Laid
<1> HIDE DEF v
<1>4. \A n \in 1 .. Len(u) + 1 : v[n] \in Ciphertext
  <2>1. \A n \in 1 .. Len(v) : v[n] \in Ciphertext
    BY <1>2, SeqIs
  <2> QED BY <1>2, <2>1
<1>5. 1 \in 1 .. Len(u) + 1
  BY <1>1
<1>6. PICK a \in Seq(Ciphertext), rest \in Seq(S) :
        Len(a) = 1 - 1 /\ t = Done(a) \o (DigitPacket(v[1]) \o rest)
  BY <1>3, <1>5 DEF Held
<1> DEFINE h == Heads[1]
           b == Hexadecimal(v[1])
           f == <<EndFlag>>
           p == DigitPacket(v[1])
           y == b \o (f \o rest)
<1>7. Done(a) = <<>>
  <2>1. Len(a) = 0
    BY <1>6
  <2>2. a = <<>>
    BY <2>1
  <2> QED BY <2>2, SpelledEmpty DEF Done
<1>8. /\ h \in Seq(S) /\ Len(h) = 2 /\ b \in Seq(S) /\ f \in Seq(S) /\ p = h \o (b \o f)
  <2>1. h \in Seq(PageSigns) /\ Len(h) = 2
    BY DigitHead
  <2>2. b \in Seq(PageSigns) /\ f \in Seq(PageSigns) /\ p = h \o (b \o f)
    BY <1>4, <1>5, DigitPacketIs
  <2> HIDE DEF h, b, f, p
  <2>3. h \in Seq(S) /\ b \in Seq(S) /\ f \in Seq(S)
    BY <1>1, <2>1, <2>2, MoreSigns
  <2> QED BY <2>1, <2>2, <2>3
<1> HIDE DEF h, b, f
<1>9. p \o rest = h \o y
  <2>1. FourTexts(S, h, b, f, rest)
    BY <1>8 DEF FourTexts
  <2>2. (h \o (b \o f)) \o rest = h \o (b \o (f \o rest))
    BY ONLY SMTT(30), <2>1, JoinFour
  <2> QED BY <1>8, <2>2
<1>10. y \in Seq(S)
  <2>1. f \o rest \in Seq(S)
    BY <1>8
  <2> QED BY <1>8, <2>1
<1>11. t = h \o y
  <2> DEFINE x == p \o rest
  <2>1. x = h \o y
    BY <1>9
  <2>2. t = <<>> \o x
    BY <1>6, <1>7
  <2> HIDE DEF x, y, p
  <2>3. h \o y \in Seq(S)
    BY <1>8, <1>10
  <2>4. <<>> \o x = x
    BY <2>1, <2>3
  <2> QED BY <2>1, <2>2, <2>4
<1> HIDE DEF y, p
<1>12. SubSeq(t, 1, 2) = h
  <2> DEFINE m == Len(h)
             n == Len(y)
             g == SubSeq(t, 1, m)
  <2>1. h \in Seq(S) /\ y \in Seq(S) /\ t = h \o y /\ m = Len(h) /\ n = Len(y)
    BY <1>8, <1>10, <1>11
  <2> HIDE DEF m, n
  <2>2. t \in Seq(S) /\ Len(t) = m + n /\ m \in Nat /\ n \in Nat /\ \A i \in 1 .. m : t[i] = h[i]
    BY ONLY <2>1, JoinedAs
  <2>3. g \in Seq(S) /\ Len(g) = m /\ \A i \in 1 .. m : g[i] = t[i]
    BY <2>2
  <2> HIDE DEF g
  <2>4. g = h
    <3>1. \A i \in 1 .. m : g[i] = h[i]
      BY <2>2, <2>3
    <3>2. g \in Seq(S) /\ h \in Seq(S) /\ Len(g) = m /\ Len(h) = m
      BY <2>1, <2>3
    <3> QED BY ONLY <3>1, <3>2
  <2>5. m = 2
    BY <1>8, <2>1
  <2> QED BY <2>4, <2>5 DEF g
<1> QED BY <1>3, <1>4, <1>12 DEF h, v

\* The filter takes every part out of the page, written in digits.
LEMMA LaidShown ==
    ASSUME NEW S, NEW t, NEW u, NEW w, NEW tail, Laid(S, t, u, w, tail), NEW code \in DOMAIN Closers,
           NEW n \in 1 .. Len(u) + 1
    PROVE  ShownAs(t, code, n) = Hexadecimal(Append(u, w)[n]) /\ Append(u, w)[n] \in Ciphertext
<1> DEFINE c == Append(u, w)[n]
<1>1. SubSeq(t, 1, 2) = Heads[1] /\ Held(S, t, Append(u, w), n) /\ c \in Ciphertext /\ PageSigns \subseteq S
      /\ u \in Seq(Ciphertext)
  BY LaidHead DEF Laid
<1>2. PICK a \in Seq(Ciphertext), rest \in Seq(S) : Len(a) = n - 1 /\ t = Done(a) \o (DigitPacket(c) \o rest)
  BY <1>1 DEF Held
<1> HIDE DEF c
<1>3. Parted(S, t, a, c, rest)
  BY <1>1, <1>2 DEF Parted
<1>4. PageWith(S, t, code, Len(a) + 1, Hexadecimal(c))
  BY <1>3, PartInPage
<1>5. Len(a) + 1 = n
  BY <1>1, <1>2
<1>6. Hexadecimal(c) \in Seq(Hexes)
  BY <1>1, HexadecimalPairs DEF InPairs, Ciphertext
<1> DEFINE b == Hexadecimal(c)
<1>7. PageWith(S, t, code, n, b) /\ b \in Seq(Hexes)
  BY <1>4, <1>5, <1>6
<1> HIDE DEF b
<1>8. ShownAs(t, code, n) = b
  BY <1>7, DigitsShown
<1> QED BY <1>1, <1>8 DEF b, c

-------------------------------------------------------------------------------
(* A value that is one packet                                               *)

\* A packet of one head and what is in it.
OneHeaded(h, b) ==
    /\ h \in Seq(PageSigns) /\ Len(h) = 2 /\ b \in Seq(PageSigns)
    /\ h[1] # "%" /\ h[2] # "%" /\ \A i \in 1 .. Len(b) : b[i] # "%"

\* With the flag or without, the page shows it.
LEMMA OneInPage ==
    ASSUME NEW h, NEW b, OneHeaded(h, b), NEW t, t = Flagged(h \o b), NEW code \in DOMAIN Closers
    PROVE  PageWith(PageSigns, t, code, 1, b)
<1> DEFINE S == PageSigns
           none == <<>>
           g == <<EndFlag>>
           x == EndFlag
           hb == h \o b
<1>1. /\ h \in Seq(S) /\ Len(h) = 2 /\ b \in Seq(S)
      /\ h[1] # "%" /\ h[2] # "%" /\ \A i \in 1 .. Len(b) : b[i] # "%"
  BY DEF OneHeaded
<1>2. CommaSigns \subseteq S /\ x \in S /\ Closers[code] \in S
  BY DigitSigns
<1>3. g \in Seq(S) /\ none \in Seq(S) /\ g = <<x>>
  <2>1. g = <<x>>
    OBVIOUS
  <2> HIDE DEF S, g, x
  <2>2. <<x>> \in Seq(S) /\ <<>> \in Seq(S)
    BY <1>2
  <2> QED BY <2>1, <2>2
<1> HIDE DEF S, g, x
<1>4. hb \in Seq(S)
  BY <1>1
<1>5. PICK f \in {none, g} : t = hb \o f
  <2>1. t = Append(hb, x) \/ t = hb
    BY Zenon DEF Flagged, x
  <2>2. hb \o none = hb /\ hb \o g = Append(hb, x)
    <3> HIDE DEF hb
    <3>1. hb \o <<>> = hb /\ hb \o <<x>> = Append(hb, x)
      BY <1>2, <1>4
    <3> QED BY <1>3, <3>1
  <2> HIDE DEF hb, none
  <2> QED BY <2>1, <2>2
<1> HIDE DEF none
<1>6. f \in Seq(S)
  BY <1>3, <1>5
<1>7. t = h \o (b \o f)
  <2>1. Three(S, h, b, f)
    BY <1>1, <1>6 DEF Three
  <2>2. (h \o b) \o f = h \o (b \o f)
    BY <2>1, JoinJoin
  <2> QED BY <1>5, <2>2
<1>8. f \in {<<>>, <<EndFlag>>}
  BY <1>5 DEF none, g
<1>9. Packet(S, t, h, b, f)
  BY <1>1, <1>7, <1>8 DEF Packet
<1> DEFINE e == <<>>
           w == f \o <<Closers[code]>>
<1>10. Shows(S, t, code, e, h, b, w, 0)
  BY <1>2, <1>9, OnePacket DEF x
<1> HIDE DEF e, w
<1>11. PageWith(S, t, code, 0 + 1, b)
  BY <1>10, ShownFrom
<1> QED BY <1>11 DEF S

\* The filter takes one packet of digits out of the page.
LEMMA DigitsInPage ==
    ASSUME NEW c \in Ciphertext, NEW t, t = Flagged(Heads[1] \o Hexadecimal(c)), NEW code \in DOMAIN Closers
    PROVE  ShownAs(t, code, 1) = Hexadecimal(c)
<1> DEFINE h == Heads[1]
           b == Hexadecimal(c)
<1>1. h \in Seq(PageSigns) /\ Len(h) = 2 /\ h[1] # "%" /\ h[2] # "%"
  BY DigitHead
<1>2. b \in Seq(PageSigns) /\ b \in Seq(Hexes)
  BY DigitPacketIs
<1>3. t = Flagged(h \o b)
  OBVIOUS
<1> HIDE DEF h, b
<1>4. \A i \in 1 .. Len(b) : b[i] # "%"
  <2>1. \A i \in 1 .. Len(b) : b[i] \in Hexes
    BY <1>2, SeqIs
  <2> QED BY <2>1, DigitSigns
<1>5. OneHeaded(h, b)
  BY <1>1, <1>2, <1>4 DEF OneHeaded
<1>6. PageWith(PageSigns, t, code, 1, b)
  BY <1>3, <1>5, OneInPage
<1>7. ShownAs(t, code, 1) = b
  BY <1>2, <1>6, DigitsShown
<1> QED BY <1>7 DEF b

\* It takes out what is escaped, unless the ciphertext breaks the packet.
LEMMA EscapedInPage ==
    ASSUME NEW c \in Ciphertext, NEW t, t = Flagged(Heads[0] \o Escaped(c, 20)), NEW code \in DOMAIN Closers
    PROVE  ShownAs(t, code, 1) = Escaped(c, 20) \/ Breaks(c, code)
<1> DEFINE h == Heads[0]
           b == Escaped(c, 20)
           x == "ff"
           y == "fe"
<1>1. c \in Seq(Octet)
  <2>1. DOMAIN HexDigits \subseteq Octet
    BY DEF Octet
  <2> QED BY <2>1, MoreSigns DEF Ciphertext
<1>2. b = Spelled(EscapesFrom(0), c) /\ b \in Seq(Octet \ Specials)
  BY <1>1, EscapedFrom, SpelledClear
<1>3. h \in Seq(PageSigns) /\ Len(h) = 2 /\ h[1] # "%" /\ h[2] # "%"
  <2>1. h = <<x, y>>
    BY DEF Heads
  <2>2. x \in PageSigns /\ y \in PageSigns
    BY Zenon DEF PageSigns, Octet
  <2>3. x # "%" /\ y # "%"
    BY Zenon
  <2> HIDE DEF x, y, h
  <2>4. <<x, y>> \in Seq(PageSigns) /\ Len(<<x, y>>) = 2 /\ <<x, y>>[1] = x /\ <<x, y>>[2] = y
    BY <2>2, FewSigns
  <2> QED BY <2>1, <2>3, <2>4
<1>4. t = Flagged(h \o b)
  OBVIOUS
<1> HIDE DEF h, b, x, y
<1>5. b \in Seq(PageSigns)
  <2> DEFINE P == Octet \ Specials
  <2>1. P \subseteq PageSigns
    BY Zenon DEF PageSigns
  <2>2. b \in Seq(P)
    BY <1>2
  <2> HIDE DEF P
  <2> QED BY <2>1, <2>2, MoreSigns
<1>6. \A i \in 1 .. Len(b) : b[i] # "%"
  <2> DEFINE P == Octet \ Specials
  <2>1. \A z \in P : z # "%"
    BY SpecialsAre
  <2>2. b \in Seq(P)
    BY <1>2
  <2> HIDE DEF P
  <2>3. \A i \in 1 .. Len(b) : b[i] \in P
    BY <2>2, SeqIs
  <2> QED BY <2>1, <2>3
<1>7. OneHeaded(h, b)
  BY <1>3, <1>5, <1>6 DEF OneHeaded
<1>8. PageWith(PageSigns, t, code, 1, b)
  BY <1>4, <1>7, OneInPage
<1>9. ShownAs(t, code, 1) = b \/ Breaks(c, code)
  BY <1>1, <1>2, <1>8, EscapedShown
<1> QED BY <1>9 DEF b

-------------------------------------------------------------------------------
(* The loop over the parts                                                  *)

\* What a search sees of a text is its beginning.
LEMMA CStringStart ==
    ASSUME NEW S, NEW v \in Seq(S)
    PROVE  LET s == CString(v) IN
           /\ s \in Seq(S) /\ Len(s) \in Nat /\ Len(s) =< Len(v) /\ \A i \in 1 .. Len(s) : s[i] = v[i]
<1> DEFINE at == {k \in DOMAIN v : v[k] = Nul}
<1>1. Len(v) \in Nat /\ DOMAIN v = 1 .. Len(v) /\ \A i \in 1 .. Len(v) : v[i] \in S
  BY SeqIs
<1>2. CString(v) = IF at = {} THEN v ELSE SubSeq(v, 1, Min(at) - 1)
  BY DEF CString
<1>3. at # {} => Min(at) \in 1 .. Len(v)
  <2>1. at \in SUBSET Nat /\ at \subseteq 1 .. Len(v)
    BY <1>1
  <2> HIDE DEF at
  <2>2. at # {} => Min(at) \in at
    BY <2>1, MinIn
  <2> QED BY <2>1, <2>2
<1> HIDE DEF at
<1>4. CASE at = {}
  BY <1>1, <1>2, <1>4
<1>5. CASE at # {}
  <2> DEFINE m == Min(at) - 1
             s == SubSeq(v, 1, m)
  <2>1. m \in 0 .. Len(v) - 1 /\ CString(v) = s
    BY <1>1, <1>2, <1>3, <1>5
  <2> HIDE DEF m
  <2>2. s \in Seq(S) /\ Len(s) = m /\ \A i \in 1 .. m : s[i] = v[i]
    BY <1>1, <2>1
  <2> HIDE DEF s
  <2> QED BY <1>1, <2>1, <2>2
<1> QED BY <1>4, <1>5

\* A search for the end of a part.
Searched(S, v, k, end) == PageSigns \subseteq S /\ v \in Seq(S) /\ k \in Nat \ {0} /\ end = PartEnd(v, k)

\* Where the part ends.
LEMMA PartEnds ==
    ASSUME NEW S, NEW v, NEW k, NEW end, Searched(S, v, k, end)
    PROVE  /\ end \in Nat \ {0} /\ Len(CString(v)) \in Nat
           /\ ~ (end > Len(CString(v))) => /\ end + 2 =< Len(v)
                                           /\ \A j \in 1 .. 3 : v[end + j - 1] = Comma[j]
<1> DEFINE s == CString(v)
           n == Len(s)
           at == Places(s, Comma, k)
<1>0. PageSigns \subseteq S /\ v \in Seq(S) /\ k \in Nat \ {0} /\ end = PartEnd(v, k)
  BY DEF Searched
<1>1. s \in Seq(S) /\ n \in Nat /\ n =< Len(v) /\ \A i \in 1 .. n : s[i] = v[i]
  BY <1>0, CStringStart
<1>2. Comma \in Seq(S) /\ Len(Comma) = 3
  <2>1. CommaSigns \subseteq S
    BY <1>0, DigitSigns
  <2> QED BY <2>1, CommaIs DEF Singular
<1>3. end = IF at = {} THEN n + 1 ELSE Min(at)
  BY <1>0 DEF PartEnd
<1>4. Len(v) \in Nat
  BY <1>0
<1>5. \A i : i \in at <=> i \in k .. n - 3 + 1 /\ \A j \in 1 .. 3 : s[i + j - 1] = Comma[j]
  <2> DEFINE f == Comma
             m == Len(f)
  <2>1. s \in Seq(S) /\ f \in Seq(S) /\ k \in Nat \ {0}
    BY <1>0, <1>1, <1>2
  <2>2. m = 3 /\ at = Places(s, f, k)
    BY <1>2
  <2> HIDE DEF s, f, m, at
  <2>3. \A i : i \in Places(s, f, k) <=> i \in k .. Len(s) - Len(f) + 1 /\ \A j \in 1 .. Len(f) : s[i + j - 1] = f[j]
    BY <2>1, PlaceThere
  <2> QED BY <2>2, <2>3 DEF m, f
<1> HIDE DEF s, n, at
<1>6. CASE at = {}
  BY <1>1, <1>3, <1>6 DEF n, s
<1>7. CASE at # {}
  <2>1. at \in SUBSET Nat
    BY <1>0, <1>1, <1>5
  <2>2. end \in at
    BY <1>3, <1>7, <2>1, MinIn
  <2>3. end \in k .. n - 3 + 1 /\ \A j \in 1 .. 3 : s[end + j - 1] = Comma[j]
    BY <1>5, <2>2
  <2>4. \A j \in 1 .. 3 : end + j - 1 \in 1 .. n
    BY <1>0, <1>1, <2>3
  <2>5. \A j \in 1 .. 3 : v[end + j - 1] = Comma[j]
    BY <1>1, <2>3, <2>4
  <2>6. end + 2 =< Len(v) /\ end \in Nat \ {0} /\ end =< n
    BY <1>0, <1>1, <1>4, <2>3
  <2> QED BY <1>1, <2>5, <2>6 DEF n, s
<1> QED BY <1>6, <1>7

\* A value, the first parts of which are encrypted, with the next one's packet in
\* its place.
Stepping(S, v, D, rest, k, p, t) ==
    /\ PageSigns \subseteq S /\ D \in Seq(S) /\ rest \in Seq(S) /\ v = D \o rest /\ k = Len(D) + 1
    /\ p \in Seq(S) /\ t = SubSeq(v, 1, k - 1) \o p \o SubSeq(v, PartEnd(v, k), Len(v))

\* The value of that step: the parts before, the packet, and a tail that begins with
\* the comma where one was found.
Followed(S, v, D, k, p, t) ==
    \E tail \in Seq(S) :
      /\ t = D \o (p \o tail)
      /\ ~ (PartEnd(v, k) > Len(CString(v))) => \E more \in Seq(S) : tail = Comma \o more

\* Behind the packet is the rest of the value, and that begins with the comma where
\* one was found.
LEMMA PartStep ==
    ASSUME NEW S, NEW v, NEW D, NEW rest, NEW k, NEW p, NEW t, Stepping(S, v, D, rest, k, p, t)
    PROVE  Followed(S, v, D, k, p, t)
<1> DEFINE end == PartEnd(v, k)
           l == Len(v)
           a == SubSeq(v, 1, k - 1)
           tail == SubSeq(v, end, l)
           more == SubSeq(v, end + 3, l)
           head == SubSeq(v, end, end + 2)
<1>1. /\ PageSigns \subseteq S /\ D \in Seq(S) /\ rest \in Seq(S) /\ v = D \o rest /\ k = Len(D) + 1
      /\ p \in Seq(S) /\ t = a \o p \o tail
  BY DEF Stepping
<1>2. v \in Seq(S) /\ k \in Nat \ {0} /\ l \in Nat
  BY <1>1
<1>3. /\ end \in Nat \ {0}
      /\ ~ (end > Len(CString(v))) => end + 2 =< l /\ \A j \in 1 .. 3 : v[end + j - 1] = Comma[j]
  <2>1. Searched(S, v, k, end)
    BY <1>1, <1>2 DEF Searched
  <2> HIDE DEF end, l
  <2>2. /\ end \in Nat \ {0}
        /\ ~ (end > Len(CString(v))) => end + 2 =< Len(v) /\ \A j \in 1 .. 3 : v[end + j - 1] = Comma[j]
    BY ONLY <2>1, PartEnds
  <2> QED BY <2>2 DEF l
<1> HIDE DEF end
<1>4. a = D
  <2> DEFINE m == Len(D)
             n == Len(rest)
  <2>1. D \in Seq(S) /\ rest \in Seq(S) /\ v = D \o rest /\ m = Len(D) /\ n = Len(rest)
    BY <1>1
  <2>2. a = SubSeq(v, 1, m)
    BY <1>1
  <2> HIDE DEF m, n
  <2>3. v \in Seq(S) /\ Len(v) = m + n /\ m \in Nat /\ n \in Nat /\ \A i \in 1 .. m : v[i] = D[i]
    BY ONLY <2>1, JoinedAs
  <2> HIDE DEF a
  <2>4. a \in Seq(S) /\ Len(a) = m /\ \A i \in 1 .. m : a[i] = v[i]
    BY <2>2, <2>3
  <2>5. \A i \in 1 .. m : a[i] = D[i]
    BY <2>3, <2>4
  <2>6. a \in Seq(S) /\ D \in Seq(S) /\ Len(a) = m /\ Len(D) = m
    BY <2>1, <2>4
  <2> QED BY ONLY <2>5, <2>6
<1>5. tail \in Seq(S)
  BY <1>2, <1>3
<1>6. t = D \o (p \o tail)
  <2> HIDE DEF tail, a
  <2>1. Three(S, D, p, tail)
    BY <1>1, <1>5 DEF Three
  <2>2. (D \o p) \o tail = D \o (p \o tail)
    BY <2>1, JoinJoin
  <2> QED BY <1>1, <1>4, <2>2
<1>7. ASSUME ~ (end > Len(CString(v))) PROVE \E x \in Seq(S) : tail = Comma \o x
  <2>1. end + 2 =< l /\ \A j \in 1 .. 3 : v[end + j - 1] = Comma[j]
    BY <1>3, <1>7
  <2>2. more \in Seq(S)
    BY <1>2, <1>3
  <2>3. head = Comma
    <3>1. Comma \in Seq(S) /\ Len(Comma) = 3
      <4>1. CommaSigns \subseteq S
        BY <1>1, DigitSigns
      <4> QED BY <4>1, CommaIs DEF Singular
    <3>2. head \in Seq(S) /\ Len(head) = 3 /\ \A j \in 1 .. 3 : head[j] = v[end + j - 1]
      BY <1>2, <1>3, <2>1
    <3> HIDE DEF head
    <3>3. \A j \in 1 .. 3 : head[j] = Comma[j]
      BY <2>1, <3>2
    <3> DEFINE f == Comma
    <3>4. head \in Seq(S) /\ f \in Seq(S) /\ Len(head) = 3 /\ Len(f) = 3 /\ \A j \in 1 .. 3 : head[j] = f[j]
      BY <3>1, <3>2, <3>3
    <3> HIDE DEF f
    <3>5. head = f
      BY ONLY <3>4
    <3> QED BY <3>5 DEF f
  <2>4. tail = head \o more
    <3> DEFINE w == head \o more
    <3>1. tail \in Seq(S) /\ Len(tail) = l - end + 1 /\ \A i \in 1 .. l - end + 1 : tail[i] = v[end + i - 1]
      BY <1>2, <1>3, <2>1
    <3>2. head \in Seq(S) /\ Len(head) = 3 /\ \A j \in 1 .. 3 : head[j] = v[end + j - 1]
      BY <1>2, <1>3, <2>1
    <3>3. more \in Seq(S) /\ Len(more) = l - end - 2 /\ \A i \in 1 .. l - end - 2 : more[i] = v[end + 3 + i - 1]
      BY <1>2, <1>3, <2>1
    <3> HIDE DEF tail, head, more, l
    <3>4. /\ w \in Seq(S) /\ Len(w) = l - end + 1 /\ \A i \in 1 .. 3 : w[i] = head[i]
          /\ \A i \in 1 .. l - end - 2 : w[3 + i] = more[i]
      <4> DEFINE m == Len(head)
                 n == Len(more)
      <4>1. head \in Seq(S) /\ more \in Seq(S) /\ w = head \o more /\ m = Len(head) /\ n = Len(more)
        BY <3>2, <3>3
      <4>2. m = 3 /\ n = l - end - 2
        BY <3>2, <3>3
      <4> HIDE DEF m, n, w
      <4>3. /\ w \in Seq(S) /\ Len(w) = m + n /\ (\A i \in 1 .. m : w[i] = head[i])
            /\ \A i \in 1 .. n : w[m + i] = more[i]
        BY ONLY <4>1, JoinedAs
      <4>4. m + n = l - end + 1
        BY <1>2, <1>3, <4>2 DEF l
      <4> QED BY <4>2, <4>3, <4>4
    <3> HIDE DEF w
    <3>5. ASSUME NEW i \in 1 .. l - end + 1 PROVE w[i] = tail[i]
      <4>1. CASE i \in 1 .. 3
        BY <3>1, <3>2, <3>4, <4>1
      <4>2. CASE i \notin 1 .. 3
        <5>1. l \in Nat
          BY <1>2
        <5>2. i - 3 \in 1 .. l - end - 2 /\ 3 + (i - 3) = i /\ end + 3 + (i - 3) - 1 = end + i - 1
          BY <1>3, <4>2, <5>1
        <5>3. w[3 + (i - 3)] = more[i - 3] /\ more[i - 3] = v[end + 3 + (i - 3) - 1]
          BY <3>3, <3>4, <5>2
        <5> QED BY <3>1, <5>2, <5>3
      <4> QED BY <4>1, <4>2
    <3> DEFINE o == l - end + 1
    <3>6. w \in Seq(S) /\ tail \in Seq(S) /\ Len(w) = o /\ Len(tail) = o /\ \A i \in 1 .. o : w[i] = tail[i]
      BY <3>1, <3>4, <3>5
    <3> HIDE DEF o
    <3>7. w = tail
      BY ONLY <3>6
    <3> QED BY <3>7 DEF w
  <2> HIDE DEF tail, head, more
  <2> QED BY <2>2, <2>3, <2>4
<1> HIDE DEF tail
<1>8. \E x \in Seq(S) :
        /\ t = D \o (p \o x)
        /\ ~ (end > Len(CString(v))) => \E more2 \in Seq(S) : x = Comma \o more2
  BY <1>5, <1>6, <1>7 DEF end
<1> HIDE DEF tail, a, l, more, head
<1> QED BY <1>8 DEF Followed, end

-------------------------------------------------------------------------------
(* What comes back                                                          *)

\* What EncryptDataBase642 encrypts with a byte of its head, and the others without.
Wrapped(c) == IF request.type = "URLJSON" THEN <<"fe">> \o c ELSE c

\* That is ciphertext, too.
LEMMA WrappedIs == ASSUME NEW c \in Ciphertext PROVE Wrapped(c) \in Ciphertext
<1> DEFINE D == DOMAIN HexDigits
           x == "fe"
<1>1. x \in D
  <2>1. 4 \in DOMAIN HexTable /\ HexTable[4][1] = "fe"
    BY DEF HexTable
  <2>2. HexTable[4][1] \in {HexTable[i][1] : i \in DOMAIN HexTable}
    BY <2>1
  <2>3. DOMAIN HexDigits = {HexTable[i][1] : i \in DOMAIN HexTable}
    BY DEF HexDigits
  <2> QED BY <2>1, <2>2, <2>3
<1>2. Wrapped(c) = <<x>> \o c \/ Wrapped(c) = c
  BY DEF Wrapped
<1>3. c \in Seq(D)
  BY DEF Ciphertext
<1> HIDE DEF D, x
<1>4. <<x>> \o c \in Seq(D)
  BY <1>1, <1>3
<1>5. Wrapped(c) \in Seq(D)
  BY <1>2, <1>3, <1>4
<1> QED BY <1>5 DEF Ciphertext, D

\* A value that is encrypted at once, and one some parts of which are.
One == \E c \in Ciphertext : ciphers = <<c>>
Parting ==
    /\ request.type = "POSTURLSPLIT" /\ ciphers \in Seq(Ciphertext)
    /\ \E S : \E rest \in Seq(S) : PageSigns \subseteq S /\ text = Done(ciphers) \o rest
    /\ split_offset = Len(Done(ciphers))

\* What is sent.
SealedAs ==
    /\ request.type \notin InDigits => One /\ text = Flagged(Heads[0] \o Escaped(ciphers[1], 20))
    /\ request.type \in InDigits \ {"POSTURLSPLIT"} =>
         One /\ text = Flagged(Heads[1] \o Hexadecimal(Wrapped(ciphers[1])))
    /\ request.type = "POSTURLSPLIT" =>
         \E S, u, w, tail : ciphers = Append(u, w) /\ Laid(S, text, u, w, tail)

\* What is taken out of the page.
TakenAs ==
    /\ ciphers[part] \in Ciphertext
    /\ request.type \notin InDigits => text = Escaped(ciphers[part], 20) \/ Breaks(ciphers[part], open)
    /\ request.type \in InDigits => text = Hexadecimal(Wrapped(ciphers[part]))

\* All of that, stage by stage; nothing is encrypted of a request that is kept.
Packed ==
    /\ request \in Requests
    /\ stage \in {"arrived", "search", "declined", "kept"} => size = 0
    /\ stage \in {"arrived", "search", "clear"} => ciphers = <<>> /\ split_offset = 0
    /\ stage = "passes" => request.type \notin InDigits /\ One
    /\ stage = "parts" => Parting
    /\ stage = "sealed" => SealedAs
    /\ stage = "sent" /\ size > 0 => SealedAs
    /\ stage = "shown" => TakenAs
    /\ stage = "opened" => Returned

\* What the filter decodes of that is the ciphertext, where nothing in it misleads
\* the filter.
LEMMA DecodeReturns == ASSUME Packed, Decode PROVE Packed'
<1> DEFINE c == ciphers[part]
           e == Wrapped(c)
<1>1. /\ stage = "shown" /\ stage' = "opened" /\ UNCHANGED <<request, ciphers, part, open>>
      /\ request.type \in InDigits => text' = ReplaceBase64Code(ReplaceHtmlCode(text))
      /\ request.type \notin InDigits => text' = ReplaceHtmlCode(text)
  BY DEF Decode, sealing, page
<1>2. /\ request \in Requests /\ c \in Ciphertext
      /\ request.type \notin InDigits => text = Escaped(c, 20) \/ Breaks(c, open)
      /\ request.type \in InDigits => text = Hexadecimal(e)
  BY <1>1 DEF Packed, TakenAs
<1>3. e \in Ciphertext
  BY <1>2, WrappedIs
<1>4. request.type \in InDigits => text' = e
  <2> SUFFICES ASSUME request.type \in InDigits PROVE text' = e
    OBVIOUS
  <2> DEFINE d == Hexadecimal(e)
  <2>1. d \in Seq(Hexes)
    BY <1>3, HexadecimalPairs DEF InPairs, Ciphertext
  <2> HIDE DEF e
  <2>2. ReplaceBase64Code(d) = e
    BY <1>3, DigitsReadBack DEF Ciphertext
  <2>3. text' = ReplaceBase64Code(ReplaceHtmlCode(d))
    BY <1>1, <1>2
  <2> HIDE DEF d
  <2>4. ReplaceHtmlCode(d) = d
    BY <2>1, DigitsPlain
  <2> QED BY <2>2, <2>3, <2>4
<1>5. request.type \notin InDigits => text' = c \/ Accident(c) \/ Breaks(c, open)
  <2> SUFFICES ASSUME request.type \notin InDigits, ~ Accident(c), ~ Breaks(c, open) PROVE text' = c
    OBVIOUS
  <2> HIDE DEF c
  <2>1. text' = ReplaceHtmlCode(Escaped(c, 20))
    BY <1>1, <1>2
  <2>2. ReplaceHtmlCode(Escaped(c, Len(EscapedBytes))) = c
    BY <1>2, EscapesReadBack DEF Ciphertext
  <2> QED BY <2>1, <2>2, Passes
<1>6. c' = c /\ open' = open /\ request' = request /\ e = (IF request.type = "URLJSON" THEN <<"fe">> \o c ELSE c)
  BY <1>1 DEF Wrapped
<1> HIDE DEF e
<1>7. Returned'
  <2>1. (ciphers[part])' = c
    BY <1>6
  <2>2. Broken(c)' <=> Breaks(c, open)
    BY <1>6 DEF Broken, Breaks
  <2> QED BY <1>4, <1>5, <1>6, <2>1, <2>2 DEF Returned
<1> QED BY <1>1, <1>2, <1>7 DEF Packed

\* What a page leaves of the state.
LEMMA ShowIs ==
    ASSUME NEW c, NEW n, Show(c, n)
    PROVE  /\ stage = "sent" /\ size > 0 /\ stage' = "shown" /\ text' = ShownAs(text, c, n)
           /\ open' = c /\ part' = n /\ UNCHANGED <<request, ciphers>>
<1>1. text' = ShownAs(text, c, n)
  BY Zenon DEF Show, ShownAs, TakenOut, NthOf, PacketAt
<1>2. /\ stage = "sent" /\ size > 0 /\ stage' = "shown"
      /\ open' = c /\ part' = n /\ request' = request /\ sealing' = sealing
  BY Zenon DEF Show
<1> QED BY <1>1, <1>2 DEF sealing

\* The filter takes out of the page what was sent.
LEMMA ShowPacks ==
    ASSUME Packed, NEW c \in Opens, NEW n \in DOMAIN ciphers, Show(c, n)
    PROVE  Packed'
<1>1. /\ stage = "sent" /\ size > 0 /\ stage' = "shown" /\ text' = ShownAs(text, c, n)
      /\ open' = c /\ part' = n /\ request' = request /\ ciphers' = ciphers
  BY ShowIs
<1>2. SealedAs /\ request \in Requests
  BY <1>1 DEF Packed
<1>3. c \in DOMAIN Closers
  BY ConstantsAssumption
<1> DEFINE x == ciphers[n]
<1>4. One => n = 1 /\ x \in Ciphertext
  BY DEF One
<1>5. /\ x \in Ciphertext
      /\ request.type \notin InDigits => text' = Escaped(x, 20) \/ Breaks(x, c)
      /\ request.type \in InDigits => text' = Hexadecimal(Wrapped(x))
  <2>1. CASE request.type \notin InDigits
    <3>1. One /\ text = Flagged(Heads[0] \o Escaped(ciphers[1], 20))
      BY <1>2, <2>1 DEF SealedAs
    <3>2. n = 1 /\ x \in Ciphertext /\ text = Flagged(Heads[0] \o Escaped(x, 20))
      BY <1>4, <3>1
    <3> HIDE DEF x
    <3>3. ShownAs(text, c, 1) = Escaped(x, 20) \/ Breaks(x, c)
      BY <1>3, <3>2, EscapedInPage
    <3> QED BY <1>1, <2>1, <3>2, <3>3
  <2>2. CASE request.type \in InDigits \ {"POSTURLSPLIT"}
    <3>1. One /\ text = Flagged(Heads[1] \o Hexadecimal(Wrapped(ciphers[1])))
      BY <1>2, <2>2 DEF SealedAs
    <3> DEFINE e == Wrapped(x)
    <3>2. n = 1 /\ x \in Ciphertext /\ text = Flagged(Heads[1] \o Hexadecimal(e))
      BY <1>4, <3>1
    <3> HIDE DEF x
    <3>3. e \in Ciphertext
      BY <3>2, WrappedIs
    <3> HIDE DEF e
    <3>4. ShownAs(text, c, 1) = Hexadecimal(e)
      BY <1>3, <3>2, <3>3, DigitsInPage
    <3> QED BY <1>1, <2>2, <3>2, <3>4 DEF e
  <2>3. CASE request.type = "POSTURLSPLIT"
    <3>1. request.type \in InDigits /\ Wrapped(x) = x
      BY <2>3 DEF InDigits, Wrapped
    <3>2. PICK S, u, w, tail : ciphers = Append(u, w) /\ Laid(S, text, u, w, tail)
      BY <1>2, <2>3 DEF SealedAs
    <3>3. n \in 1 .. Len(u) + 1
      <4>1. u \in Seq(Ciphertext) /\ w \in Ciphertext
        BY <3>2 DEF Laid
      <4> DEFINE C == Ciphertext
      <4>2. u \in Seq(C)
        BY <4>1
      <4> HIDE DEF C
      <4>3. DOMAIN Append(u, w) = 1 .. Len(u) + 1
        BY <4>2
      <4> QED BY <3>2, <4>3
    <3>4. ShownAs(text, c, n) = Hexadecimal(Append(u, w)[n]) /\ Append(u, w)[n] \in Ciphertext
      BY <1>3, <3>2, <3>3, LaidShown
    <3> QED BY <1>1, <3>1, <3>2, <3>4
  <2> QED BY <2>1, <2>2, <2>3
<1>6. (ciphers[part])' = x /\ open' = c /\ request' = request
  BY <1>1
<1> HIDE DEF x
<1>7. TakenAs'
  <2>1. Wrapped(ciphers[part])' = Wrapped(x)
    BY <1>6 DEF Wrapped
  <2> QED BY <1>5, <1>6, <2>1 DEF TakenAs
<1> QED BY <1>1, <1>2, <1>7 DEF Packed

\* Encrypting a value at once makes one ciphertext and its packet.
LEMMA EncryptPacks ==
    ASSUME Packed, Passing', NEW c \in CiphersOf(request), EncryptData(c)
    PROVE  Packed'
<1>1. /\ stage' \in {"passes", "sealed"} /\ ciphers' = <<c>> /\ request' = request
      /\ request.type \notin InDigits
  BY DEF EncryptData
<1>2. request \in Requests /\ c \in Ciphertext
  BY RequestsAssumption DEF Packed, Ciphertext
<1>3. One'
  BY <1>1, <1>2 DEF One
<1>4. (request.type \notin InDigits)'
  BY <1>1 DEF InDigits
<1>5. stage' = "sealed" => SealedAs'
  <2> SUFFICES ASSUME stage' = "sealed" PROVE SealedAs'
    OBVIOUS
  <2>1. (text = Flagged(Heads[0] \o Escaped(ciphers[1], 20)))'
    BY <1>4 DEF Passing
  <2>2. request'.type # "POSTURLSPLIT"
    BY <1>4 DEF InDigits
  <2> QED BY <1>3, <1>4, <2>1, <2>2 DEF SealedAs
<1> QED BY <1>1, <1>2, <1>3, <1>4, <1>5 DEF Packed

\* So does every pass, in the end.
LEMMA PassPacks == ASSUME Packed, Passing', ReplacePost PROVE Packed'
<1>1. /\ stage = "passes" /\ stage' \in {"passes", "sealed"} /\ ciphers' = ciphers /\ request' = request
  BY DEF ReplacePost, sealing
<1>2. request \in Requests /\ request.type \notin InDigits /\ One
  BY <1>1 DEF Packed
<1>3. One' /\ (request.type \notin InDigits)'
  BY <1>1, <1>2 DEF One, InDigits
<1>4. stage' = "sealed" => SealedAs'
  <2> SUFFICES ASSUME stage' = "sealed" PROVE SealedAs'
    OBVIOUS
  <2>1. (text = Flagged(Heads[0] \o Escaped(ciphers[1], 20)))'
    BY <1>3 DEF Passing
  <2>2. request'.type # "POSTURLSPLIT"
    BY <1>3 DEF InDigits
  <2> QED BY <1>3, <2>1, <2>2 DEF SealedAs
<1> QED BY <1>1, <1>2, <1>3, <1>4 DEF Packed

\* And writing it in digits.
LEMMA DigitsPack ==
    ASSUME Packed, NEW c \in CiphersOf(request), EncryptDataBase64(c)
    PROVE  Packed'
<1>1. /\ stage' = "sealed" /\ ciphers' = <<c>> /\ request' = request
      /\ request.type \in InDigits \ {"POSTURLSPLIT"}
      /\ text' = Flagged(Heads[1] \o Hexadecimal(Wrapped(c)))
  BY Zenon DEF EncryptDataBase64, Wrapped
<1>2. request \in Requests /\ c \in Ciphertext
  BY RequestsAssumption DEF Packed, Ciphertext
<1>3. One'
  BY <1>1, <1>2 DEF One
<1>4. (text = Flagged(Heads[1] \o Hexadecimal(Wrapped(ciphers[1]))))'
  <2>1. ciphers'[1] = c
    BY <1>1
  <2>2. Wrapped(ciphers[1])' = Wrapped(c)
    BY <1>1, <2>1 DEF Wrapped
  <2>3. Flagged(Heads[1] \o Hexadecimal(Wrapped(ciphers[1])))' = Flagged(Heads[1] \o Hexadecimal(Wrapped(c)))
    <3> DEFINE s == Heads[1] \o Hexadecimal(Wrapped(c))
    <3>1. (Heads[1] \o Hexadecimal(Wrapped(ciphers[1])))' = s
      BY <2>2
    <3> HIDE DEF s
    <3>2. Flagged(Heads[1] \o Hexadecimal(Wrapped(ciphers[1])))' = Flagged(s)
      BY <1>1, <3>1 DEF Flagged
    <3> QED BY <3>2 DEF s
  <2> QED BY <1>1, <2>3
<1>5. (request.type \in InDigits \ {"POSTURLSPLIT"})'
  BY <1>1 DEF InDigits
<1>6. SealedAs'
  BY <1>3, <1>4, <1>5 DEF SealedAs
<1> QED BY <1>1, <1>2, <1>6 DEF Packed

\* The value, the first parts of which are encrypted.
LEMMA PartBegun ==
    ASSUME Packed, Uploading, NEW c, EncryptPart(c), NEW v,
           v = IF stage = "clear" THEN ValueAt(start, size) ELSE text
    PROVE  /\ ciphers \in Seq(Ciphertext) /\ split_offset = Len(Done(ciphers))
           /\ \E S : \E rest \in Seq(S) : PageSigns \subseteq S /\ v = Done(ciphers) \o rest
<1>1. stage \in {"clear", "parts"}
  BY DEF EncryptPart
<1>2. CASE stage = "parts"
  <2>1. Parting /\ v = text
    BY <1>2 DEF Packed
  <2> QED BY <2>1 DEF Parting
<1>3. CASE stage = "clear"
  <2>1. v = ValueAt(start, size) /\ ciphers = <<>> /\ split_offset = 0
    BY <1>3 DEF Packed
  <2>2. Sequence(v)
    <3>1. start + size - 1 \in Int /\ start \in Int
      BY DEF Uploading
    <3>2. Sequence(SubSeq(Body, start, start + size - 1))
      BY <3>1, BodyIs, PartSequence DEF Uploading
    <3> QED BY <2>1, <3>2 DEF ValueAt
  <2>3. PICK T : v \in Seq(T)
    BY <2>2 DEF Sequence
  <2> DEFINE S == PageSigns \cup T
  <2>4. T \subseteq S /\ PageSigns \subseteq S
    OBVIOUS
  <2> HIDE DEF S
  <2>5. v \in Seq(S)
    BY <2>3, <2>4, MoreSigns
  <2>6. Done(ciphers) = <<>>
    BY <2>1, SpelledEmpty DEF Done
  <2>7. <<>> \o v = v
    BY <2>5
  <2>8. \E rest \in Seq(S) : PageSigns \subseteq S /\ v = Done(ciphers) \o rest
    BY <2>4, <2>5, <2>6, <2>7
  <2>9. ciphers \in Seq(Ciphertext) /\ split_offset = Len(Done(ciphers))
    <3>1. Len(<<>>) = 0 /\ <<>> \in Seq(Ciphertext)
      OBVIOUS
    <3> QED BY <2>1, <2>6, <3>1
  <2> QED BY <2>8, <2>9
<1> QED BY <1>1, <1>2, <1>3

\* One part more of what is sent.
LEMMA PartWritten ==
    ASSUME NEW S, NEW v, NEW u \in Seq(Ciphertext), NEW rest, NEW k, NEW c \in Ciphertext, NEW t,
           Stepping(S, v, Done(u), rest, k, DigitPacket(c), t)
    PROVE  /\ PartEnd(v, k) > Len(CString(v)) => \E tail : Laid(S, t, u, c, tail)
           /\ ~ (PartEnd(v, k) > Len(CString(v))) =>
                /\ \E more \in Seq(S) : t = Done(Append(u, c)) \o more
                /\ Len(Done(Append(u, c))) = Len(Done(u)) + Len(DigitPacket(c)) + Len(Comma)
<1> DEFINE D == Done(u)
           p == DigitPacket(c)
           f == Comma
           pf == p \o f
<1>1. PageSigns \subseteq S
  BY DEF Stepping
<1>2. PICK tail \in Seq(S) :
        /\ t = D \o (p \o tail)
        /\ ~ (PartEnd(v, k) > Len(CString(v))) => \E more \in Seq(S) : tail = f \o more
  <2>1. Stepping(S, v, D, rest, k, p, t)
    OBVIOUS
  <2> HIDE DEF D, p
  <2>2. Followed(S, v, D, k, p, t)
    BY ONLY <2>1, PartStep
  <2> QED BY <2>2 DEF Followed
<1>3. Laid(S, t, u, c, tail)
  BY <1>1, <1>2 DEF Laid
<1>4. D \in Seq(S) /\ p \in Seq(S) /\ Done(Append(u, c)) = D \o pf
  BY <1>1, DoneMore
<1>5. f \in Seq(S)
  BY <1>1, <1>2, CommasIs
<1> HIDE DEF D, p, f
<1>6. ASSUME ~ (PartEnd(v, k) > Len(CString(v)))
      PROVE  \E more \in Seq(S) : t = (D \o pf) \o more
  <2>1. PICK more \in Seq(S) : tail = f \o more
    BY <1>2, <1>6
  <2>2. p \o (f \o more) = pf \o more
    <3>1. Three(S, p, f, more)
      BY <1>4, <1>5 DEF Three
    <3> QED BY <3>1, JoinJoin
  <2>3. pf \in Seq(S)
    BY <1>4, <1>5
  <2> HIDE DEF pf
  <2>4. D \o (pf \o more) = (D \o pf) \o more
    <3>1. Three(S, D, pf, more)
      BY <1>4, <2>3 DEF Three
    <3> QED BY <3>1, JoinJoin
  <2>5. t = (D \o pf) \o more
    BY <1>2, <2>1, <2>2, <2>4
  <2> QED BY <2>5
<1>7. Len(D \o pf) = Len(D) + Len(p) + Len(f)
  <2>1. pf \in Seq(S) /\ Len(pf) = Len(p) + Len(f) /\ Len(p) \in Nat /\ Len(f) \in Nat
    BY <1>4, <1>5
  <2> HIDE DEF pf
  <2>2. Len(D \o pf) = Len(D) + Len(pf) /\ Len(D) \in Nat
    <3>1. D \in Seq(S) /\ pf \in Seq(S)
      BY <1>4, <2>1
    <3> QED BY ONLY <3>1
  <2> QED BY <2>1, <2>2
<1> QED BY <1>3, <1>4, <1>6, <1>7 DEF D, p, f

\* Each turn of the loop leaves the packets of the parts that it has passed.
LEMMA PartPacks ==
    ASSUME Packed, Uploading, NEW c \in CiphersOf(request), EncryptPart(c)
    PROVE  Packed'
<1> DEFINE v == IF stage = "clear" THEN ValueAt(start, size) ELSE text
           k == split_offset + 1
           end == PartEnd(v, k)
           packet == Flagged(Heads[1] \o Hexadecimal(c))
           p == DigitPacket(c)
           D == Done(ciphers)
<1>1. /\ request.type = "POSTURLSPLIT" /\ ciphers' = Append(ciphers, c) /\ request' = request
      /\ text' = SubSeq(v, 1, k - 1) \o packet \o SubSeq(v, end, Len(v))
      /\ end > Len(CString(v)) => stage' = "sealed"
      /\ ~ (end > Len(CString(v))) => stage' = "parts" /\ split_offset' = split_offset + Len(packet) + Len(Comma)
  BY Zenon DEF EncryptPart
<1>2. packet = p
  BY <1>1, Zenon DEF Flagged, Flagging, DigitPacket
<1>3. request \in Requests /\ c \in Ciphertext
  BY RequestsAssumption DEF Packed, Ciphertext
<1>4. /\ ciphers \in Seq(Ciphertext) /\ split_offset = Len(D)
      /\ \E S : \E rest \in Seq(S) : PageSigns \subseteq S /\ v = D \o rest
  BY PartBegun
<1>5. PICK S : \E rest \in Seq(S) : PageSigns \subseteq S /\ v = D \o rest
  BY <1>4
<1>6. PICK rest \in Seq(S) : PageSigns \subseteq S /\ v = D \o rest
  BY <1>5
<1> DEFINE t == SubSeq(v, 1, k - 1) \o p \o SubSeq(v, end, Len(v))
<1>7. text' = t
  BY <1>1, <1>2
<1> HIDE DEF v, packet, p
<1>8. D \in Seq(S) /\ p \in Seq(S)
  BY <1>3, <1>4, <1>6, DoneMore DEF p
<1>9. k = Len(D) + 1
  BY <1>4
<1> HIDE DEF k
<1>10. Stepping(S, v, D, rest, k, p, t)
  BY <1>6, <1>8, <1>9 DEF Stepping
<1> HIDE DEF t
<1> DEFINE u == ciphers
<1>11. /\ PartEnd(v, k) > Len(CString(v)) => \E tail : Laid(S, t, u, c, tail)
       /\ ~ (PartEnd(v, k) > Len(CString(v))) =>
            /\ \E more \in Seq(S) : t = Done(Append(u, c)) \o more
            /\ Len(Done(Append(u, c))) = Len(Done(u)) + Len(p) + Len(Comma)
  <2>1. u \in Seq(Ciphertext) /\ Stepping(S, v, Done(u), rest, k, DigitPacket(c), t)
    BY <1>4, <1>10 DEF p
  <2> HIDE DEF u
  <2> QED BY <1>3, <2>1, PartWritten DEF p
<1>12. CASE end > Len(CString(v))
  <2>1. stage' = "sealed"
    BY <1>1, <1>12 DEF v, k
  <2>2. PICK tail : Laid(S, t, u, c, tail)
    BY <1>11, <1>12
  <2>3. \E X, a, w, z : ciphers' = Append(a, w) /\ Laid(X, text', a, w, z)
    BY <1>1, <1>7, <2>2
  <2>4. request'.type = "POSTURLSPLIT" /\ (request.type \in InDigits)' /\ request' \in Requests
    BY <1>1, <1>3 DEF InDigits
  <2>5. SealedAs'
    BY <2>3, <2>4 DEF SealedAs
  <2> QED BY <2>1, <2>4, <2>5 DEF Packed
<1>13. CASE ~ (end > Len(CString(v)))
  <2>1. stage' = "parts" /\ split_offset' = split_offset + Len(packet) + Len(Comma)
    BY <1>1, <1>13 DEF v, k, packet
  <2>2. /\ \E more \in Seq(S) : t = Done(Append(u, c)) \o more
        /\ Len(Done(Append(u, c))) = Len(Done(u)) + Len(p) + Len(Comma)
    BY <1>11, <1>13
  <2>3. ciphers' \in Seq(Ciphertext)
    <3> DEFINE C == Ciphertext
    <3>1. ciphers \in Seq(C) /\ c \in C
      BY <1>3, <1>4
    <3> HIDE DEF C
    <3>2. Append(ciphers, c) \in Seq(C)
      BY <3>1
    <3> QED BY <1>1, <3>2 DEF C
  <2>4. Done(ciphers)' = Done(Append(u, c))
    BY <1>1 DEF Done, PartSent
  <2>5. (split_offset = Len(Done(ciphers)))'
    <3>1. split_offset' = Len(Done(u)) + Len(p) + Len(Comma)
      BY <1>2, <1>4, <2>1
    <3> QED BY <2>2, <2>4, <3>1
  <2>6. (\E X : \E r \in Seq(X) : PageSigns \subseteq X /\ text = Done(ciphers) \o r)'
    <3>1. PICK more \in Seq(S) : t = Done(Append(u, c)) \o more
      BY <2>2
    <3>2. text' = Done(ciphers)' \o more /\ more \in Seq(S) /\ PageSigns \subseteq S
      BY <1>6, <1>7, <2>4, <3>1
    <3> QED BY <3>2
  <2>7. Parting'
    BY <1>1, <2>3, <2>5, <2>6 DEF Parting
  <2> QED BY <1>1, <1>3, <2>1, <2>7 DEF Packed
<1> QED BY <1>12, <1>13

\* The steps before a value is encrypted, and the one that sends it.
LEMMA OtherPacks ==
    ASSUME Packed, Lookup \/ Search \/ Send \/ UNCHANGED vars
    PROVE  Packed'
<1>1. CASE Lookup
  <2>1. /\ stage = "arrived" /\ stage' \in {"declined", "search", "kept"}
        /\ UNCHANGED <<request, size, ciphers, split_offset>>
    BY <1>1 DEF Lookup, sealing
  <2> QED BY <2>1 DEF Packed
<1>2. CASE Search
  <2>1. /\ stage = "search"
        /\ stage' = "clear" \/ (stage' = "kept" /\ size' = size)
        /\ UNCHANGED <<request, ciphers, split_offset>>
    BY <1>2 DEF Search, sealing
  <2> QED BY <2>1 DEF Packed
<1>3. CASE Send
  <2>1. /\ stage \in {"kept", "sealed"} /\ stage' = "sent"
        /\ UNCHANGED <<request, size, ciphers, text>>
    BY <1>3 DEF Send, sealing
  <2>2. SealedAs' <=> SealedAs
    <3>1. Flagged(Heads[0] \o Escaped(ciphers[1], 20))' = Flagged(Heads[0] \o Escaped(ciphers[1], 20))
      BY <2>1 DEF Flagged
    <3>2. Flagged(Heads[1] \o Hexadecimal(Wrapped(ciphers[1])))' = Flagged(Heads[1] \o Hexadecimal(Wrapped(ciphers[1])))
      BY <2>1 DEF Flagged, Wrapped
    <3> QED BY <2>1, <3>1, <3>2 DEF SealedAs, One
  <2> QED BY <2>1, <2>2 DEF Packed
<1>4. CASE UNCHANGED vars
  <2>1. UNCHANGED <<request, size, ciphers, split_offset, text, open, part, stage>>
    BY <1>4 DEF vars, sealing, page
  <2>2. SealedAs' <=> SealedAs
    <3>1. Flagged(Heads[0] \o Escaped(ciphers[1], 20))' = Flagged(Heads[0] \o Escaped(ciphers[1], 20))
      BY <2>1 DEF Flagged
    <3>2. Flagged(Heads[1] \o Hexadecimal(Wrapped(ciphers[1])))' = Flagged(Heads[1] \o Hexadecimal(Wrapped(ciphers[1])))
      BY <2>1 DEF Flagged, Wrapped
    <3> QED BY <2>1, <3>1, <3>2 DEF SealedAs, One
  <2>3. TakenAs' <=> TakenAs
    <3>1. Wrapped(ciphers[part])' = Wrapped(ciphers[part])
      BY <2>1 DEF Wrapped
    <3> QED BY <2>1, <3>1 DEF TakenAs
  <2>4. Returned' <=> Returned
    <3>1. Broken(ciphers[part])' = Broken(ciphers[part])
      BY <2>1 DEF Broken
    <3> QED BY <2>1, <3>1 DEF Returned
  <2>5. (Parting' <=> Parting) /\ (One' <=> One)
    <3>1. Done(ciphers)' = Done(ciphers)
      BY <2>1 DEF Done, PartSent
    <3> QED BY <2>1, <3>1 DEF Parting, One
  <2> QED BY <2>1, <2>2, <2>3, <2>4, <2>5 DEF Packed
<1> QED BY <1>1, <1>2, <1>3, <1>4

\* What the filter takes out of a page and decodes is the ciphertext again, whatever
\* the requests, the ciphertexts and the characters before a packet, and for every
\* part of a value that commas divide; except where ciphertext written as it is
\* reads like an escape or holds what ends a packet.
THEOREM ReturnedCorrect == Spec => []Returned
<1>1. Init => Packed
  BY DEF Init, Packed, sealing, page
<1>2. Packed /\ Uploading /\ Passing' /\ [Next]_vars => Packed'
  <2> SUFFICES ASSUME Packed, Uploading, Passing', [Next]_vars PROVE Packed'
    OBVIOUS
  <2>1. CASE Lookup \/ Search \/ Send \/ UNCHANGED vars
    BY <2>1, OtherPacks
  <2>2. CASE ReplacePost
    BY <2>2, PassPacks
  <2>3. CASE Decode
    BY <2>3, DecodeReturns
  <2>4. ASSUME NEW c \in CiphersOf(request), EncryptData(c) \/ EncryptDataBase64(c) \/ EncryptPart(c)
        PROVE  Packed'
    BY <2>4, EncryptPacks, DigitsPack, PartPacks
  <2>5. ASSUME NEW c \in Opens, NEW n \in DOMAIN ciphers, Show(c, n) PROVE Packed'
    BY <2>5, ShowPacks
  <2> QED BY <2>1, <2>2, <2>3, <2>4, <2>5 DEF Next
<1>3. Packed => Returned
  BY DEF Packed, Returned
<1> QED BY <1>1, <1>2, <1>3, UploadingAlways, PassingAlways, PTL DEF Spec

-------------------------------------------------------------------------------
(* What the search for a name finds.                                        *)

\* A name d that is looked for in b: l bytes of it are before its first star.
Looks(b, d, l) ==
    /\ b \in Seq(STRING) /\ d \in Seq(STRING) /\ l \in 0 .. Len(d)
    /\ \A j \in 1 .. l : d[j] # Star
    /\ l < Len(d) => d[l + 1] = Star

\* What is before the star of the name, and what follows it, at a place of b.
LeftAt(b, d, l, k) == k + l - 1 =< Len(b) /\ \A x \in 1 .. l : b[k + x - 1] = d[x]
RightAt(b, d, l, k) == /\ k + (Len(d) - l - 1) - 1 =< Len(b)
                       /\ \A x \in 1 .. Len(d) - l - 1 : b[k + x - 1] = d[l + 1 + x]

\* What is before the first star of a name.
LEMMA LooksFor ==
    ASSUME NEW b \in Seq(STRING), NEW d \in Seq(STRING)
    PROVE  LET stars == {j \in DOMAIN d : d[j] = Star}
               l == IF stars = {} THEN Len(d) ELSE Min(stars) - 1
           IN Looks(b, d, l) /\ (stars = {} <=> l = Len(d))
<1> DEFINE stars == {j \in DOMAIN d : d[j] = Star}
           l == IF stars = {} THEN Len(d) ELSE Min(stars) - 1
<1>1. Len(d) \in Nat /\ DOMAIN d = 1 .. Len(d)
  OBVIOUS
<1>2. CASE stars = {}
  BY <1>1, <1>2 DEF Looks
<1>3. CASE stars # {}
  <2>1. stars \in SUBSET Nat
    BY <1>1
  <2>2. Min(stars) \in stars /\ \A y \in stars : Min(stars) =< y
    <3> HIDE DEF stars
    <3> QED BY <1>3, <2>1, MinIn
  <2>3. PICK m : m = Min(stars)
    OBVIOUS
  <2>4. m \in 1 .. Len(d) /\ d[m] = Star /\ \A y \in stars : m =< y
    BY <1>1, <2>2, <2>3
  <2>5. ASSUME NEW j \in 1 .. m - 1 PROVE d[j] # Star
    <3>1. j \notin stars /\ j \in DOMAIN d
      BY <1>1, <2>4
    <3> QED BY <3>1
  <2>6. l = m - 1
    BY <1>3, <2>3
  <2> HIDE DEF l, stars
  <2>7. l \in 0 .. Len(d) /\ l + 1 = m /\ l # Len(d)
    BY <1>1, <2>4, <2>6
  <2>8. \A j \in 1 .. l : d[j] # Star
    BY <2>5, <2>6
  <2>9. Looks(b, d, l)
    BY <1>1, <2>4, <2>7, <2>8 DEF Looks
  <2> QED BY <1>1, <1>3, <2>7, <2>9 DEF l, stars
<1> QED BY <1>2, <1>3

\* Where the parts of the name are.
LEMMA PartsAt ==
    ASSUME NEW b, NEW d, NEW l, Looks(b, d, l), NEW k \in Nat \ {0}
    PROVE  /\ Len(SubSeq(d, 1, l)) = l /\ SubSeq(d, 1, l) \in Seq(STRING)
           /\ k \in Places(b, SubSeq(d, 1, l), k) <=> LeftAt(b, d, l, k)
           /\ l < Len(d) => /\ Len(SubSeq(d, l + 2, Len(d))) = Len(d) - l - 1
                            /\ SubSeq(d, l + 2, Len(d)) \in Seq(STRING)
                            /\ \A y : y \in Places(b, SubSeq(d, l + 2, Len(d)), k) <=>
                                        y \in k .. Len(b) + 1 /\ RightAt(b, d, l, y)
<1> DEFINE n == Len(d)
           left == SubSeq(d, 1, l)
           right == SubSeq(d, l + 2, n)
<1>1. b \in Seq(STRING) /\ d \in Seq(STRING) /\ n \in Nat /\ l \in 0 .. n /\ Len(b) \in Nat
  BY DEF Looks
<1>2. \A x \in 1 .. n : d[x] \in STRING
  BY <1>1, SeqIs
<1>3. left \in Seq(STRING) /\ Len(left) = l /\ \A x \in 1 .. l : left[x] = d[x]
  BY <1>1, Beginning
<1>4. k \in Places(b, left, k) <=> LeftAt(b, d, l, k)
  <2> HIDE DEF left
  <2>1. k \in Places(b, left, k) <=> /\ k \in k .. Len(b) - Len(left) + 1
                                     /\ \A j \in 1 .. Len(left) : b[k + j - 1] = left[j]
    <3>1. Sought(STRING, b, left, k)
      BY <1>1, <1>3 DEF Sought
    <3>2. k \in Places(b, left, k) <=> IsAt(b, left, k, k)
      BY ONLY <3>1, SoughtAt, Zenon
    <3> QED BY <3>2 DEF IsAt
  <2>2. LeftAt(b, d, l, k) <=> k + l - 1 =< Len(b) /\ \A j \in 1 .. l : b[k + j - 1] = d[j]
    BY DEF LeftAt
  <2>3. k \in k .. Len(b) - l + 1 <=> k + l - 1 =< Len(b)
    BY <1>1
  <2>4. (\A j \in 1 .. l : b[k + j - 1] = left[j]) <=> \A j \in 1 .. l : b[k + j - 1] = d[j]
    BY <1>3
  <2>5. Len(left) = l
    BY <1>3
  <2> QED BY <2>1, <2>2, <2>3, <2>4, <2>5
<1>5. ASSUME l < n
      PROVE  /\ right \in Seq(STRING) /\ Len(right) = n - l - 1
             /\ \A x \in 1 .. n - l - 1 : right[x] = d[l + 1 + x]
  <2>1. \A x \in l + 2 .. n : d[x] \in STRING
    BY <1>1, <1>2
  <2>2. n - (l + 2) + 1 = n - l - 1 /\ (l + 2 =< n \/ n - l - 1 = 0) /\ l + 2 \in Int
    BY <1>1, <1>5
  <2>3. \A x \in 1 .. n - l - 1 : (l + 2) + x - 1 = l + 1 + x
    BY <1>1
  <2>4. /\ right \in Seq(STRING)
        /\ Len(right) = IF l + 2 =< n THEN n - (l + 2) + 1 ELSE 0
        /\ \A x \in 1 .. n - (l + 2) + 1 : right[x] = d[(l + 2) + x - 1]
    <3> HIDE DEF n
    <3>1. l + 2 \in Int /\ n \in Int
      BY <1>1
    <3> QED BY ONLY <2>1, <3>1, SubSeqProperties DEF right
  <2> HIDE DEF right, n
  <2>5. Len(right) = n - l - 1
    BY <1>1, <1>5, <2>2, <2>4
  <2> QED BY <2>2, <2>3, <2>4, <2>5
<1>6. ASSUME l < n, NEW y
      PROVE  y \in Places(b, right, k) <=> y \in k .. Len(b) + 1 /\ RightAt(b, d, l, y)
  <2>1. right \in Seq(STRING) /\ Len(right) = n - l - 1
        /\ \A x \in 1 .. n - l - 1 : right[x] = d[l + 1 + x]
    BY <1>5, <1>6
  <2> HIDE DEF right
  <2>2. y \in Places(b, right, k) <=> /\ y \in k .. Len(b) - Len(right) + 1
                                      /\ \A j \in 1 .. Len(right) : b[y + j - 1] = right[j]
    <3>1. Sought(STRING, b, right, k)
      BY <1>1, <2>1 DEF Sought
    <3>2. y \in Places(b, right, k) <=> IsAt(b, right, k, y)
      BY ONLY <3>1, SoughtAt, Zenon
    <3> QED BY <3>2 DEF IsAt
  <2>3. RightAt(b, d, l, y) <=> /\ y + (n - l - 1) - 1 =< Len(b)
                                /\ \A x \in 1 .. n - l - 1 : b[y + x - 1] = d[l + 1 + x]
    BY DEF RightAt
  <2> HIDE DEF n
  <2>4. (\A j \in 1 .. n - l - 1 : b[y + j - 1] = right[j])
          <=> (\A x \in 1 .. n - l - 1 : b[y + x - 1] = d[l + 1 + x])
    BY <2>1
  <2>5. y \in k .. Len(b) - (n - l - 1) + 1 <=> y \in k .. Len(b) + 1 /\ y + (n - l - 1) - 1 =< Len(b)
    BY <1>1, <1>6
  <2> QED BY <2>1, <2>2, <2>3, <2>4, <2>5
<1> QED BY <1>3, <1>4, <1>5, <1>6

\* The end of what a star stands for is the first place of what follows it.
FirstRight(b, d, l, k, e) ==
    /\ e \in k + l .. Len(b) + 1 /\ RightAt(b, d, l, e)
    /\ \A y \in k + l .. e - 1 : ~ RightAt(b, d, l, y)

\* How long the name is at a place.
LEMMA NameIs ==
    ASSUME NEW b, NEW d, NEW l, Looks(b, d, l), NEW k \in Nat \ {0}
    PROVE  /\ l = Len(d) => NameAt(b, d, k) = IF LeftAt(b, d, l, k) THEN l ELSE 0
           /\ l < Len(d) /\ LeftAt(b, d, l, k) =>
                \A e : FirstRight(b, d, l, k, e) => NameAt(b, d, k) = e + Len(d) - l - 1 - k
           /\ l < Len(d) /\ NameAt(b, d, k) # 0 =>
                LeftAt(b, d, l, k) /\ \E e : FirstRight(b, d, l, k, e)
<1> DEFINE stars == {j \in DOMAIN d : d[j] = Star}
           star == IF stars = {} THEN Len(d) + 1 ELSE Min(stars)
           left == SubSeq(d, 1, l)
           right == SubSeq(d, l + 2, Len(d))
           ends == Places(b, right, k + l)
           m == IF stars = {} THEN Len(d) ELSE Min(stars) - 1
<1>1. b \in Seq(STRING) /\ d \in Seq(STRING) /\ Len(d) \in Nat /\ l \in 0 .. Len(d)
      /\ Len(b) \in Nat /\ k + l \in Nat \ {0}
  BY DEF Looks
<1>2. Looks(b, d, m) /\ (stars = {} <=> m = Len(d))
  BY <1>1, LooksFor
<1>3. star = m + 1
  <2>1. stars # {} => Min(stars) \in stars
    <3>1. stars \in SUBSET Nat
      BY <1>1
    <3> HIDE DEF stars
    <3> QED BY <3>1, MinIn
  <2>2. stars # {} => Min(stars) \in Nat
    BY <1>1, <2>1
  <2> HIDE DEF stars
  <2> QED BY <1>1, <2>2
<1> HIDE DEF stars, star, m
<1>4. m = l
  BY <1>1, <1>2 DEF Looks
<1>5. NameAt(b, d, k) = IF k \notin Places(b, left, k) THEN 0
                        ELSE IF stars = {} THEN Len(d)
                        ELSE IF ends = {} THEN 0 ELSE Min(ends) + Len(right) - k
  <2>1. SubSeq(d, 1, star - 1) = left /\ SubSeq(d, star + 1, Len(d)) = right /\ Len(left) = l
    <3>1. star - 1 = l /\ star + 1 = l + 2
      BY <1>1, <1>3, <1>4
    <3> HIDE DEF left, right
    <3>2. Len(left) = l
      BY PartsAt DEF left
    <3> QED BY <3>1, <3>2 DEF left, right
  <2>2. NameAt(b, d, k) =
          IF k \notin Places(b, SubSeq(d, 1, star - 1), k) THEN 0
          ELSE IF stars = {} THEN Len(d)
          ELSE IF Places(b, SubSeq(d, star + 1, Len(d)), k + Len(SubSeq(d, 1, star - 1))) = {} THEN 0
          ELSE Min(Places(b, SubSeq(d, star + 1, Len(d)), k + Len(SubSeq(d, 1, star - 1))))
                 + Len(SubSeq(d, star + 1, Len(d))) - k
    BY Zenon DEF NameAt, star, stars
  <2> HIDE DEF left, right
  <2> QED BY <2>1, <2>2 DEF ends
<1>6. k \in Places(b, left, k) <=> LeftAt(b, d, l, k)
  BY PartsAt
<1>7. ASSUME l < Len(d)
      PROVE  /\ Len(right) = Len(d) - l - 1
             /\ \A y : y \in ends <=> y \in k + l .. Len(b) + 1 /\ RightAt(b, d, l, y)
  <2> HIDE DEF right
  <2> QED BY <1>1, <1>7, PartsAt DEF right, ends
<1> HIDE DEF left, right, ends
<1>8. CASE l = Len(d)
  BY <1>1, <1>2, <1>4, <1>5, <1>6, <1>8
<1>9. CASE l < Len(d)
  <2>1. ends \in SUBSET Nat
    <3>1. k + l .. Len(b) + 1 \subseteq Nat
      BY <1>1
    <3> QED BY <1>7, <1>9, <3>1
  <2>2. stars # {}
    BY <1>1, <1>2, <1>4, <1>9
  <2>3. ASSUME NEW e, FirstRight(b, d, l, k, e) PROVE e \in ends /\ Min(ends) = e
    <3>1. e \in ends /\ e \in Nat
      BY <1>7, <1>9, <2>1, <2>3 DEF FirstRight
    <3>2. Min(ends) \in ends /\ Min(ends) =< e
      BY <2>1, <3>1, MinIn
    <3>3. Min(ends) \notin k + l .. e - 1
      BY <1>7, <1>9, <2>3, <3>2 DEF FirstRight
    <3>4. Min(ends) \in k + l .. Len(b) + 1
      BY <1>7, <1>9, <3>2
    <3> QED BY <1>1, <3>1, <3>2, <3>3, <3>4
  <2>4. ASSUME ends # {} PROVE FirstRight(b, d, l, k, Min(ends))
    <3>1. PICK e : e = Min(ends)
      OBVIOUS
    <3>2. e \in ends /\ \A y \in ends : e =< y
      BY <2>1, <2>4, <3>1, MinIn
    <3>3. ASSUME NEW y \in k + l .. e - 1 PROVE ~ RightAt(b, d, l, y)
      <4>1. e \in k + l .. Len(b) + 1
        BY <1>7, <1>9, <3>2
      <4>2. y \in k + l .. Len(b) + 1 /\ ~ (e =< y)
        BY <1>1, <4>1
      <4> QED BY <1>7, <1>9, <3>2, <4>2
    <3>4. FirstRight(b, d, l, k, e)
      BY <1>7, <1>9, <3>2, <3>3 DEF FirstRight
    <3> QED BY <3>1, <3>4
  <2>5. ASSUME NEW e, FirstRight(b, d, l, k, e), LeftAt(b, d, l, k)
        PROVE  NameAt(b, d, k) = e + Len(d) - l - 1 - k
    <3>1. NameAt(b, d, k) = e + (Len(d) - l - 1) - k
      BY <1>5, <1>6, <1>7, <1>9, <2>2, <2>3, <2>5
    <3>2. e \in Int
      BY <1>1, <2>5 DEF FirstRight
    <3> QED BY <1>1, <3>1, <3>2
  <2>6. ASSUME NameAt(b, d, k) # 0
        PROVE  LeftAt(b, d, l, k) /\ \E e : FirstRight(b, d, l, k, e)
    <3>1. ends # {} /\ LeftAt(b, d, l, k)
      BY <1>5, <1>6, <2>2, <2>6
    <3> QED BY <2>4, <3>1
  <2> QED BY <1>1, <1>9, <2>5, <2>6
<1> QED BY <1>1, <1>8, <1>9

-------------------------------------------------------------------------------
(* What the loop of findWildString knows behind each byte.                  *)

\* What a turn makes of what is known: nothing more once all is found; a byte that
\* fits; one that the star stands for; and one that does not fit.
Ends(d, at, next) == at.j > Len(d) => next = at
Matches(b, d, i, at, next) ==
    at.j =< Len(d) /\ b[i] = d[at.j] =>
      /\ next.j = at.j + 1 /\ next.plen = at.plen + 1
      /\ next.p = IF at.p = 0 THEN i ELSE at.p
Spans(b, d, i, at, next) ==
    at.j =< Len(d) /\ b[i] # d[at.j] /\ at.p # 0 /\ d[at.j] = Star =>
      /\ next.j = IF b[i] = ByteIn(d, at.j + 1) THEN at.j + 2 ELSE at.j
      /\ next.p = at.p /\ next.plen = at.plen + 1
Restarting(b, d, i, at, next) ==
    at.j =< Len(d) /\ b[i] # d[at.j] /\ (at.p = 0 \/ d[at.j] # Star) => next = Restarted

\* One turn of the loop, case by case.
LEMMA TurnIs ==
    ASSUME NEW b, NEW d \in Seq(STRING), NEW at \in Findings, NEW i \in Nat, NEW next,
           next = FindStep(b, d, at, i)
    PROVE  /\ next \in Findings /\ Ends(d, at, next) /\ Matches(b, d, i, at, next)
           /\ Spans(b, d, i, at, next) /\ Restarting(b, d, i, at, next)
<1> USE DEF Ends, Matches, Spans, Restarting
<1>1. at.j \in Nat /\ at.p \in Nat /\ at.plen \in Nat /\ Len(d) \in Nat
  BY DEF Findings
<1>2. next \in Findings
  BY FindStepIs
<1>3. CASE at.j > Len(d)
  BY <1>1, <1>2, <1>3 DEF FindStep
<1>4. CASE at.j =< Len(d) /\ b[i] = d[at.j]
  BY <1>1, <1>2, <1>4 DEF FindStep
<1>5. CASE at.j =< Len(d) /\ b[i] # d[at.j] /\ at.p # 0 /\ d[at.j] = Star
  <2> DEFINE c == b[i] = ByteIn(d, at.j + 1)
             then == [at EXCEPT !.plen = @ + 1, !.j = IF c THEN @ + 2 ELSE @]
  <2>1. next = then
    BY <1>1, <1>5 DEF FindStep
  <2> HIDE DEF c
  <2>2. /\ then.j = IF c THEN at.j + 2 ELSE at.j
        /\ then.p = at.p /\ then.plen = at.plen + 1
    BY DEF Findings
  <2> HIDE DEF then
  <2> QED BY <1>1, <1>2, <1>5, <2>1, <2>2 DEF c
<1>6. CASE at.j =< Len(d) /\ b[i] # d[at.j] /\ (at.p = 0 \/ d[at.j] # Star)
  BY <1>1, <1>2, <1>6 DEF FindStep
<1> QED BY <1>1, <1>3, <1>4, <1>5, <1>6

\* The first bytes of what is before the star are found.
InLeft(b, d, l, i, at) ==
    /\ at.p \in 1 .. i /\ at.plen = i - at.p + 1 /\ at.plen < l /\ at.j = at.plen + 1
    /\ \A x \in 1 .. at.plen : b[at.p + x - 1] = d[x]

\* All of it is, and the byte that follows the star is not.
AtStar(b, d, l, i, at) ==
    /\ 1 =< l /\ l < Len(d) /\ at.p \in 1 .. i /\ at.plen = i - at.p + 1
    /\ at.plen >= l /\ at.j = l + 1 /\ LeftAt(b, d, l, at.p)
    /\ \A y \in at.p + l .. i : b[y] # ByteIn(d, l + 2)

\* That byte is found first at e, and so are others behind it.
InRight(b, d, l, i, at, e) ==
    /\ 1 =< l /\ l < Len(d) /\ at.p \in 1 .. i /\ at.plen = i - at.p + 1
    /\ e \in at.p + l .. i /\ at.j = l + 2 + (i - e + 1) /\ at.j =< Len(d)
    /\ LeftAt(b, d, l, at.p)
    /\ \A y \in at.p + l .. e - 1 : b[y] # d[l + 2]
    /\ \A x \in 1 .. i - e + 1 : b[e + x - 1] = d[l + 1 + x]

\* All of the name is.
Complete(b, d, i, at) ==
    /\ at.j = Len(d) + 1 /\ at.p \in 1 .. i /\ at.plen >= 1 /\ at.p + at.plen - 1 =< i
    /\ NameAt(b, d, at.p) = at.plen

\* What the search knows is true of the bytes it has seen.
Knows(b, d, l, i, at) ==
    \/ at = Restarted \/ InLeft(b, d, l, i, at) \/ AtStar(b, d, l, i, at)
    \/ \E e : InRight(b, d, l, i, at, e)
    \/ Complete(b, d, i, at)

\* A star stands for text only where there is one in the name, and only one.
Unstarred(b, d, l, i) ==
    l < Len(d) => (\A j \in l + 2 .. Len(d) : d[j] # Star) /\ \A y \in 1 .. i : b[y] # Star

\* A turn with the byte at i.
Turn(b, d, l, i, at, next) ==
    /\ Looks(b, d, l) /\ Unstarred(b, d, l, i) /\ i \in 1 .. Len(b) /\ b[i] # Nul
    /\ at \in Findings /\ next = FindStep(b, d, at, i)

\* All of what is before the star was found just now; and what follows it, to the
\* byte at i.
LeftNow(b, d, l, i, next) ==
    /\ 1 =< l /\ next \in Findings /\ next.p \in 1 .. i /\ next.plen = i - next.p + 1
    /\ next.plen = l /\ next.j = l + 1
    /\ \A x \in 1 .. l : b[next.p + x - 1] = d[x]
RightNow(b, d, l, i, next, e) ==
    /\ next \in Findings /\ next.p \in 1 .. i /\ next.plen = i - next.p + 1
    /\ 1 =< l /\ l + 1 < Len(d) /\ e \in next.p + l .. i /\ LeftAt(b, d, l, next.p)
    /\ next.j = l + 2 + (i - e + 1) /\ next.j =< Len(d) + 1
    /\ \A y \in next.p + l .. e - 1 : b[y] # d[l + 2]
    /\ \A x \in 1 .. i - e + 1 : b[e + x - 1] = d[l + 1 + x]

\* All of what is before the star is found: then there is a star, or that was all.
LEMMA LeftFound ==
    ASSUME NEW b, NEW d, NEW l, NEW i, NEW at, NEW next, Turn(b, d, l, i, at, next),
           LeftNow(b, d, l, i, next)
    PROVE  Knows(b, d, l, i, next)
<1> USE DEF LeftNow
<1>1. Looks(b, d, l) /\ i \in 1 .. Len(b) /\ Len(b) \in Nat /\ Len(d) \in Nat /\ l \in 0 .. Len(d)
  BY DEF Looks, Turn
<1>2. next.p \in Nat \ {0} /\ LeftAt(b, d, l, next.p)
  BY <1>1 DEF LeftAt
<1>3. CASE l = Len(d)
  <2>1. NameAt(b, d, next.p) = l
    BY <1>1, <1>2, <1>3, NameIs
  <2> QED BY <1>1, <1>2, <1>3, <2>1 DEF Complete, Knows
<1>4. CASE l < Len(d)
  <2>1. AtStar(b, d, l, i, next)
    BY <1>1, <1>2, <1>4 DEF AtStar
  <2> QED BY <2>1 DEF Knows
<1> QED BY <1>1, <1>3, <1>4

\* All of what follows the star is found.
LEMMA RightFound ==
    ASSUME NEW b, NEW d, NEW l, NEW i, NEW at, NEW next, Turn(b, d, l, i, at, next),
           NEW e, RightNow(b, d, l, i, next, e)
    PROVE  Knows(b, d, l, i, next)
<1>0. /\ next \in Findings /\ next.p \in 1 .. i /\ next.plen = i - next.p + 1
      /\ 1 =< l /\ l + 1 < Len(d) /\ e \in next.p + l .. i /\ LeftAt(b, d, l, next.p)
      /\ next.j = l + 2 + (i - e + 1) /\ next.j =< Len(d) + 1
      /\ \A y \in next.p + l .. e - 1 : b[y] # d[l + 2]
      /\ \A x \in 1 .. i - e + 1 : b[e + x - 1] = d[l + 1 + x]
  BY DEF RightNow
<1>1. /\ Looks(b, d, l) /\ i \in Nat /\ i =< Len(b) /\ Len(b) \in Nat
      /\ Len(d) \in Nat /\ l \in Nat /\ l =< Len(d)
  BY DEF Looks, Turn
<1>2. PICK p \in Nat \ {0} : p = next.p
  BY <1>0, <1>1
<1>3. e \in Nat /\ p + l =< e /\ e =< i /\ p =< i
  BY <1>0, <1>1, <1>2
<1>4. CASE next.j =< Len(d)
  <2>1. InRight(b, d, l, i, next, e)
    BY <1>0, <1>1, <1>4 DEF InRight
  <2> QED BY <2>1 DEF Knows
<1>5. CASE next.j = Len(d) + 1
  <2>1. i - e + 1 = Len(d) - l - 1
    <3>1. l + 2 + (i - e + 1) = Len(d) + 1
      BY <1>0, <1>5
    <3> QED BY ONLY <1>1, <1>3, <3>1
  <2>2. RightAt(b, d, l, e)
    <3>1. e + (Len(d) - l - 1) - 1 = i
      BY <1>0, <1>1, <1>3, <2>1
    <3> QED BY <1>0, <1>1, <2>1, <3>1 DEF RightAt
  <2>3. ASSUME NEW y \in p + l .. e - 1 PROVE ~ RightAt(b, d, l, y)
    <3>1. b[y] # d[l + 2] /\ y \in Int
      BY <1>0, <1>2
    <3>2. 1 \in 1 .. Len(d) - l - 1 /\ y + 1 - 1 = y /\ l + 1 + 1 = l + 2
      BY <1>0, <1>1, <3>1
    <3> QED BY <3>1, <3>2 DEF RightAt
  <2>4. FirstRight(b, d, l, p, e)
    BY <1>0, <1>1, <1>2, <1>3, <2>2, <2>3 DEF FirstRight
  <2>5. NameAt(b, d, p) = e + Len(d) - l - 1 - p
    <3>1. LeftAt(b, d, l, p) /\ l < Len(d)
      BY <1>0, <1>1, <1>2
    <3> QED BY <1>0, <1>1, <2>4, <3>1, NameIs
  <2>6. NameAt(b, d, p) = i - p + 1
    BY <1>0, <1>1, <1>3, <2>1, <2>5
  <2>7. Complete(b, d, i, next)
    <3>1. next.plen = i - p + 1
      BY <1>0, <1>2
    <3>2. next.plen >= 1 /\ p + next.plen - 1 =< i
      BY ONLY p \in Nat \ {0}, <1>1, <1>3, <3>1
    <3> QED BY <1>0, <1>2, <1>5, <2>6, <3>1, <3>2 DEF Complete
  <2> QED BY <2>7 DEF Knows
<1>6. next.j \in Nat
  BY <1>0 DEF Findings
<1>7. next.j =< Len(d) \/ next.j = Len(d) + 1
  <2>1. Len(d) \in Nat /\ next.j =< Len(d) + 1
    BY <1>0, <1>1
  <2> QED BY ONLY <1>6, <2>1
<1> QED BY <1>4, <1>5, <1>7

\* A turn where nothing of the name was found.
LEMMA TurnBegins ==
    ASSUME NEW b, NEW d, NEW l, NEW i, NEW at, NEW next, Turn(b, d, l, i, at, next), at = Restarted
    PROVE  Knows(b, d, l, i, next)
<1>1. /\ Looks(b, d, l) /\ d \in Seq(STRING) /\ i \in Nat /\ 1 =< i /\ i =< Len(b) /\ Len(b) \in Nat
      /\ Len(d) \in Nat /\ l \in Nat /\ l =< Len(d) /\ at \in Findings /\ next = FindStep(b, d, at, i)
      /\ (\A x \in 1 .. l : d[x] # Star) /\ (l < Len(d) => d[l + 1] = Star /\ b[i] # Star)
  BY DEF Looks, Turn, Unstarred
<1>2. at.j = 1 /\ at.p = 0 /\ at.plen = 0
  BY DEF Restarted
<1>3. CASE Len(d) = 0 \/ b[i] # d[1]
  <2>1. next = Restarted
    <3>1. Ends(d, at, next)
      BY <1>1, TurnIs
    <3>2. Restarting(b, d, i, at, next)
      BY <1>1, TurnIs
    <3> QED BY <1>1, <1>2, <1>3, <3>1, <3>2 DEF Ends, Restarting
  <2> QED BY <2>1 DEF Knows
<1>4. CASE Len(d) # 0 /\ b[i] = d[1]
  <2>1. next \in Findings /\ next.j = 2 /\ next.plen = 1 /\ next.p = i
    <3>1. Matches(b, d, i, at, next)
      BY <1>1, TurnIs
    <3>2. next \in Findings
      BY <1>1, TurnIs
    <3> QED BY <1>1, <1>2, <1>4, <3>1, <3>2 DEF Matches
  <2>2. 1 =< l
    BY <1>1, <1>4
  <2>3. \A x \in 1 .. 1 : b[i + x - 1] = d[x]
    BY <1>1, <1>4
  <2>4. CASE l = 1
    <3>1. LeftNow(b, d, l, i, next)
      BY <1>1, <2>1, <2>2, <2>3, <2>4 DEF LeftNow
    <3> QED BY ONLY <3>1, Turn(b, d, l, i, at, next), LeftFound
  <2>5. CASE 1 < l
    <3>1. InLeft(b, d, l, i, next)
      BY <1>1, <2>1, <2>3, <2>5 DEF InLeft
    <3> QED BY <3>1 DEF Knows
  <2> QED BY <1>1, <2>2, <2>4, <2>5
<1> QED BY <1>3, <1>4

\* A turn within what is before the star.
LEMMA TurnInLeft ==
    ASSUME NEW b, NEW d, NEW l, NEW i, NEW at, NEW next, Turn(b, d, l, i, at, next),
           InLeft(b, d, l, i - 1, at)
    PROVE  Knows(b, d, l, i, next)
<1>1. /\ d \in Seq(STRING) /\ i \in Nat /\ 1 =< i /\ i =< Len(b) /\ Len(b) \in Nat
      /\ Len(d) \in Nat /\ l \in Nat /\ l =< Len(d) /\ at \in Findings /\ next = FindStep(b, d, at, i)
      /\ \A x \in 1 .. l : d[x] # Star
  BY DEF Looks, Turn, Unstarred
<1>2. PICK p \in Nat, m \in Nat : p = at.p /\ m = at.plen
  BY DEF Findings, Turn
<1>3. /\ 1 =< p /\ p =< i - 1 /\ m = i - p /\ m < l /\ at.j = m + 1
      /\ \A x \in 1 .. m : b[p + x - 1] = d[x]
  BY <1>1, <1>2 DEF InLeft
<1>4. CASE b[i] # d[m + 1]
  <2>1. Restarting(b, d, i, at, next)
    BY <1>1, TurnIs
  <2>2. d[m + 1] # Star
    BY <1>1, <1>3
  <2> QED BY <1>1, <1>3, <1>4, <2>1, <2>2 DEF Knows, Restarting
<1>5. CASE b[i] = d[m + 1]
  <2>1. next \in Findings /\ next.j = m + 2 /\ next.plen = m + 1 /\ next.p = p
    <3>1. Matches(b, d, i, at, next)
      BY <1>1, TurnIs
    <3>2. next \in Findings
      BY <1>1, TurnIs
    <3>3. at.j =< Len(d) /\ at.j + 1 = m + 2 /\ at.p # 0
      BY <1>1, <1>2, <1>3
    <3> QED BY <1>2, <1>3, <1>5, <3>1, <3>2, <3>3 DEF Matches
  <2>2. ASSUME NEW x \in 1 .. m + 1 PROVE b[p + x - 1] = d[x]
    <3>1. x = m + 1 => p + x - 1 = i
      BY <1>1, <1>3
    <3> QED BY <1>3, <1>5, <3>1
  <2>3. CASE m + 1 = l
    <3>1. next.p \in 1 .. i /\ next.plen = i - next.p + 1 /\ next.plen = l /\ next.j = l + 1
      BY <1>1, <1>3, <2>1, <2>3
    <3>2. \A x \in 1 .. l : b[next.p + x - 1] = d[x]
      BY <2>1, <2>2, <2>3
    <3>3. LeftNow(b, d, l, i, next)
      BY <1>1, <1>3, <2>1, <2>3, <3>1, <3>2 DEF LeftNow
    <3> QED BY ONLY <3>3, Turn(b, d, l, i, at, next), LeftFound
  <2>4. CASE m + 1 < l
    <3>1. next.p \in 1 .. i /\ next.plen = i - next.p + 1 /\ next.plen < l /\ next.j = next.plen + 1
      BY <1>1, <1>3, <2>1, <2>4
    <3>2. InLeft(b, d, l, i, next)
      BY <2>1, <2>2, <3>1 DEF InLeft
    <3> QED BY <3>2 DEF Knows
  <2> QED BY <1>1, <1>3, <2>3, <2>4
<1> QED BY <1>4, <1>5

\* A turn with a byte that the star may stand for.
LEMMA TurnAtStar ==
    ASSUME NEW b, NEW d, NEW l, NEW i, NEW at, NEW next, Turn(b, d, l, i, at, next),
           AtStar(b, d, l, i - 1, at)
    PROVE  Knows(b, d, l, i, next)
<1>1. /\ d \in Seq(STRING) /\ i \in Nat /\ 1 =< i /\ i =< Len(b) /\ Len(b) \in Nat
      /\ Len(d) \in Nat /\ l \in Nat /\ 1 =< l /\ l < Len(d) /\ at \in Findings
      /\ next = FindStep(b, d, at, i) /\ d[l + 1] = Star /\ b[i] # Star /\ b[i] # Nul
  BY DEF AtStar, Looks, Turn, Unstarred
<1>2. PICK p \in Nat, m \in Nat : p = at.p /\ m = at.plen
  BY DEF Findings, Turn
<1>3. /\ 1 =< p /\ p =< i - 1 /\ m = i - p /\ m >= l /\ at.j = l + 1 /\ LeftAt(b, d, l, p)
      /\ \A y \in p + l .. i - 1 : b[y] # ByteIn(d, l + 2)
  BY <1>1, <1>2 DEF AtStar
<1>4. /\ next \in Findings /\ next.p = p /\ next.plen = m + 1
      /\ next.j = IF b[i] = ByteIn(d, l + 2) THEN l + 3 ELSE l + 1
  <2>1. Spans(b, d, i, at, next)
    BY <1>1, TurnIs
  <2>2. next \in Findings
    BY <1>1, TurnIs
  <2>3. at.j + 1 = l + 2 /\ at.j + 2 = l + 3
    BY <1>1, <1>3
  <2>4. at.j =< Len(d) /\ b[i] # d[at.j] /\ at.p # 0 /\ d[at.j] = Star
    BY <1>1, <1>2, <1>3
  <2>5. next.j = (IF b[i] = ByteIn(d, at.j + 1) THEN at.j + 2 ELSE at.j) /\ next.p = at.p /\ next.plen = at.plen + 1
    BY <2>1, <2>4 DEF Spans
  <2> QED BY <1>2, <1>3, <2>2, <2>3, <2>5
<1>5. next.p \in 1 .. i /\ next.plen = i - next.p + 1 /\ p + l =< i
  BY <1>1, <1>3, <1>4
<1>6. CASE b[i] # ByteIn(d, l + 2)
  <2>1. ASSUME NEW y \in p + l .. i PROVE b[y] # ByteIn(d, l + 2)
    BY <1>1, <1>3, <1>6
  <2>2. AtStar(b, d, l, i, next)
    BY <1>1, <1>3, <1>4, <1>5, <1>6, <2>1 DEF AtStar
  <2> QED BY <2>2 DEF Knows
<1>7. CASE b[i] = ByteIn(d, l + 2)
  <2>1. l + 2 \in DOMAIN d /\ b[i] = d[l + 2]
    BY <1>1, <1>7 DEF ByteIn
  <2>2. l + 2 =< Len(d)
    BY <1>1, <2>1
  <2>3. \A y \in p + l .. i - 1 : b[y] # d[l + 2]
    BY <1>3, <2>1 DEF ByteIn
  <2>4. \A x \in 1 .. i - i + 1 : b[i + x - 1] = d[l + 1 + x]
    BY <1>1, <2>1
  <2>5. i \in next.p + l .. i /\ next.j = l + 2 + (i - i + 1) /\ next.j =< Len(d) + 1 /\ l + 1 < Len(d)
    BY <1>1, <1>4, <1>5, <1>7, <2>2
  <2>6. RightNow(b, d, l, i, next, i)
    BY <1>1, <1>3, <1>4, <1>5, <2>3, <2>4, <2>5 DEF RightNow
  <2> QED BY ONLY <2>6, Turn(b, d, l, i, at, next), RightFound
<1> QED BY <1>6, <1>7

\* A turn within what follows the star.
LEMMA TurnInRight ==
    ASSUME NEW b, NEW d, NEW l, NEW i, NEW at, NEW next, Turn(b, d, l, i, at, next),
           NEW e, InRight(b, d, l, i - 1, at, e)
    PROVE  Knows(b, d, l, i, next)
<1>1. /\ d \in Seq(STRING) /\ i \in Nat /\ 1 =< i /\ i =< Len(b) /\ Len(b) \in Nat
      /\ Len(d) \in Nat /\ l \in Nat /\ 1 =< l /\ l < Len(d) /\ at \in Findings
      /\ next = FindStep(b, d, at, i) /\ \A x \in l + 2 .. Len(d) : d[x] # Star
  BY DEF InRight, Looks, Turn, Unstarred
<1>2. PICK p \in Nat, m \in Nat : p = at.p /\ m = at.plen
  BY DEF Findings, Turn
<1>3. /\ 1 =< p /\ p =< i - 1 /\ m = i - p /\ e \in p + l .. i - 1
      /\ at.j = l + 2 + (i - e) /\ at.j =< Len(d) /\ LeftAt(b, d, l, p)
      /\ \A y \in p + l .. e - 1 : b[y] # d[l + 2]
  <2>1. /\ p \in 1 .. i - 1 /\ m = (i - 1) - p + 1 /\ e \in p + l .. i - 1
        /\ at.j = l + 2 + ((i - 1) - e + 1) /\ at.j =< Len(d) /\ LeftAt(b, d, l, p)
        /\ \A y \in p + l .. e - 1 : b[y] # d[l + 2]
    BY <1>2 DEF InRight
  <2> QED BY <1>1, <2>1
<1>4. PICK j \in Nat : j = at.j /\ j = l + 2 + (i - e) /\ j =< Len(d) /\ e \in Nat /\ e =< i - 1 /\ l + 3 =< j
  <2>1. e \in Nat /\ e =< i - 1
    BY <1>1, <1>3
  <2>2. l + 2 + (i - e) \in Nat /\ l + 3 =< l + 2 + (i - e)
    BY <1>1, <2>1
  <2> QED BY <1>3, <2>1, <2>2
<1>5. CASE b[i] # d[j]
  <2>1. Restarting(b, d, i, at, next)
    BY <1>1, TurnIs
  <2>2. d[j] # Star
    BY <1>1, <1>4
  <2> QED BY <1>1, <1>4, <1>5, <2>1, <2>2 DEF Knows, Restarting
<1>6. CASE b[i] = d[j]
  <2>1. next \in Findings /\ next.j = j + 1 /\ next.plen = m + 1 /\ next.p = p
    <3>1. Matches(b, d, i, at, next)
      BY <1>1, TurnIs
    <3>2. next \in Findings
      BY <1>1, TurnIs
    <3> QED BY <1>1, <1>2, <1>3, <1>4, <1>6, <3>1, <3>2 DEF Matches
  <2>2. ASSUME NEW x \in 1 .. i - e + 1 PROVE b[e + x - 1] = d[l + 1 + x]
    <3>1. CASE x = i - e + 1
      <4>1. e + x - 1 = i /\ l + 1 + x = j
        BY <1>1, <1>4, <3>1
      <4> QED BY <1>6, <4>1
    <3>2. CASE x # i - e + 1
      <4>1. x \in 1 .. (i - 1) - e + 1
        BY <1>1, <1>4, <3>2
      <4> QED BY <4>1 DEF InRight
    <3> QED BY <3>1, <3>2
  <2>3. /\ next.p \in 1 .. i /\ next.plen = i - next.p + 1 /\ e \in next.p + l .. i
        /\ next.j = l + 2 + (i - e + 1) /\ next.j =< Len(d) + 1 /\ l + 1 < Len(d)
    BY <1>1, <1>3, <1>4, <2>1
  <2>4. RightNow(b, d, l, i, next, e)
    BY <1>1, <1>3, <2>1, <2>2, <2>3 DEF RightNow
  <2> QED BY ONLY <2>4, Turn(b, d, l, i, at, next), RightFound
<1> QED BY <1>5, <1>6

\* What is known stays known when there is nothing left to look for.
LEMMA TurnEnds ==
    ASSUME NEW b, NEW d, NEW l, NEW i, NEW at, Looks(b, d, l), i \in 1 .. Len(b), at \in Findings,
           at.j > Len(d), Knows(b, d, l, i - 1, at)
    PROVE  Knows(b, d, l, i, at)
<1>1. Len(d) \in Nat /\ l \in Nat /\ l =< Len(d) /\ i \in Nat
  BY DEF Looks
<1>2. PICK j \in Nat, p \in Nat, m \in Nat : j = at.j /\ p = at.p /\ m = at.plen
  BY DEF Findings
<1>3. ~ InLeft(b, d, l, i - 1, at)
  BY <1>1, <1>2 DEF InLeft
<1>4. ~ AtStar(b, d, l, i - 1, at)
  BY <1>1, <1>2 DEF AtStar
<1>5. ASSUME NEW e PROVE ~ InRight(b, d, l, i - 1, at, e)
  BY <1>1, <1>2 DEF InRight
<1>6. ASSUME Complete(b, d, i - 1, at) PROVE Complete(b, d, i, at)
  <2>1. at.p \in 1 .. i /\ at.p + at.plen - 1 =< i
    <3>1. p \in 1 .. i - 1 /\ p + m - 1 =< i - 1
      BY <1>2, <1>6 DEF Complete
    <3> QED BY <1>1, <1>2, <3>1
  <2> QED BY <1>6, <2>1 DEF Complete
<1> QED BY <1>3, <1>4, <1>5, <1>6 DEF Knows

\* A turn adds to what is known.
LEMMA TurnKnows ==
    ASSUME NEW b, NEW d, NEW l, NEW i, NEW at, NEW next, Turn(b, d, l, i, at, next),
           Knows(b, d, l, i - 1, at)
    PROVE  Knows(b, d, l, i, next)
<1>1. CASE at = Restarted
  BY <1>1, TurnBegins
<1>2. CASE InLeft(b, d, l, i - 1, at)
  BY <1>2, TurnInLeft
<1>3. CASE AtStar(b, d, l, i - 1, at)
  BY <1>3, TurnAtStar
<1>4. ASSUME NEW e, InRight(b, d, l, i - 1, at, e) PROVE Knows(b, d, l, i, next)
  BY <1>4, TurnInRight
<1>5. CASE Complete(b, d, i - 1, at)
  <2>1. Looks(b, d, l) /\ i \in 1 .. Len(b) /\ at \in Findings /\ d \in Seq(STRING) /\ i \in Nat
        /\ next = FindStep(b, d, at, i) /\ Len(d) \in Nat
    BY DEF Looks, Turn
  <2>2. at.j > Len(d)
    BY <1>5, <2>1 DEF Complete
  <2>3. Ends(d, at, next)
    BY <2>1, TurnIs
  <2>4. next = at
    BY <2>2, <2>3 DEF Ends
  <2>5. Knows(b, d, l, i, at)
    BY <2>1, <2>2, TurnEnds
  <2> QED BY <2>4, <2>5
<1> QED BY <1>1, <1>2, <1>3, <1>4, <1>5 DEF Knows

\* What is found ends where the search is, until it is complete.
Bounded(d, i, at) ==
    /\ at \in Findings /\ at.p =< i /\ at.j >= 1 /\ (at.p = 0 => at = Restarted)
    /\ at.p # 0 => /\ at.plen >= 1 /\ at.p + at.plen - 1 =< i
                   /\ at.j =< Len(d) => at.p + at.plen - 1 = i
Reach(d, i, at) == IF at.j > Len(d) THEN at.p + at.plen - 1 ELSE i
SoFar(b, d, l, i, at) ==
    Bounded(d, i, at) /\ (Unstarred(b, d, l, Reach(d, i, at)) => Knows(b, d, l, i, at))

\* A turn keeps that.
LEMMA TurnBounded ==
    ASSUME NEW b, NEW d \in Seq(STRING), NEW i \in Nat \ {0}, NEW at, NEW next, next = FindStep(b, d, at, i),
           Bounded(d, i - 1, at)
    PROVE  Bounded(d, i, next) /\ (at.j =< Len(d) => Reach(d, i, next) = i)
<1>1. at \in Findings /\ Len(d) \in Nat
  BY DEF Bounded
<1>2. PICK j \in Nat, p \in Nat, m \in Nat : j = at.j /\ p = at.p /\ m = at.plen
  BY <1>1 DEF Findings
<1>3. /\ p =< i - 1 /\ j >= 1 /\ (p = 0 => at = Restarted)
      /\ p # 0 => m >= 1 /\ p + m - 1 =< i - 1 /\ (j =< Len(d) => p + m - 1 = i - 1)
  BY <1>2 DEF Bounded
<1>4. /\ next \in Findings /\ Ends(d, at, next) /\ Matches(b, d, i, at, next)
      /\ Spans(b, d, i, at, next) /\ Restarting(b, d, i, at, next)
  BY <1>1, TurnIs
<1>5. p = 0 => m = 0 /\ j = 1
  BY <1>2, <1>3 DEF Restarted
<1>6. CASE j > Len(d)
  <2>1. next = at
    BY <1>2, <1>4, <1>6 DEF Ends
  <2> QED BY <1>1, <1>2, <1>3, <1>6, <2>1 DEF Bounded
<1>7. CASE j =< Len(d) /\ b[i] = d[j]
  <2>1. next.j = j + 1 /\ next.plen = m + 1 /\ next.p = IF p = 0 THEN i ELSE p
    BY <1>2, <1>4, <1>7 DEF Matches
  <2>2. next.p \in 1 .. i /\ next.p + next.plen - 1 = i /\ next.plen >= 1 /\ next.j >= 1
    <3>1. PICK q \in Nat, w \in Nat : q = next.p /\ w = next.plen
      BY <1>4 DEF Findings
    <3>2. w = m + 1 /\ q = IF p = 0 THEN i ELSE p
      BY <2>1, <3>1
    <3>3. (p = 0 /\ m = 0) \/ (1 =< p /\ p =< i - 1 /\ p + m - 1 = i - 1)
      BY <1>3, <1>5, <1>7
    <3>4. 1 =< q /\ q =< i /\ q + w - 1 = i /\ w >= 1
      BY <3>2, <3>3
    <3>5. 1 =< j + 1
      BY <1>2
    <3> QED BY <1>2, <2>1, <3>1, <3>4, <3>5
  <2> QED BY <1>4, <2>2 DEF Bounded, Reach
<1>8. CASE j =< Len(d) /\ b[i] # d[j] /\ p # 0 /\ d[j] = Star
  <2>1. /\ next.j = IF b[i] = ByteIn(d, j + 1) THEN j + 2 ELSE j
        /\ next.p = p /\ next.plen = m + 1
    BY <1>2, <1>4, <1>8 DEF Spans
  <2>2. next.p \in 1 .. i /\ next.p + next.plen - 1 = i /\ next.plen >= 1
    <3>1. 1 =< p /\ p =< i /\ p + (m + 1) - 1 = i /\ m + 1 >= 1
      BY <1>3, <1>8
    <3> QED BY <2>1, <3>1
  <2>3. next.j >= 1
    BY <1>2, <1>3, <2>1
  <2> QED BY <1>4, <2>2, <2>3 DEF Bounded, Reach
<1>9. CASE j =< Len(d) /\ b[i] # d[j] /\ (p = 0 \/ d[j] # Star)
  <2>1. next = Restarted
    BY <1>2, <1>4, <1>9 DEF Restarting
  <2>2. Restarted \in Findings /\ Restarted.p = 0 /\ Restarted.j = 1
    BY DEF Findings, Restarted
  <2> QED BY <1>1, <1>2, <1>3, <1>9, <2>1, <2>2 DEF Bounded, Reach
<1> QED BY <1>1, <1>2, <1>6, <1>7, <1>8, <1>9

\* A turn keeps all that is known.
LEMMA TurnSoFar ==
    ASSUME NEW b, NEW d, NEW l, NEW i, NEW at, NEW next, Looks(b, d, l), i \in 1 .. Len(b),
           b[i] # Nul, next = FindStep(b, d, at, i), SoFar(b, d, l, i - 1, at)
    PROVE  SoFar(b, d, l, i, next)
<1>1. d \in Seq(STRING) /\ i \in Nat \ {0} /\ Len(d) \in Nat /\ Bounded(d, i - 1, at) /\ at \in Findings
  BY DEF Bounded, Looks, SoFar
<1>2. Bounded(d, i, next) /\ (at.j =< Len(d) => Reach(d, i, next) = i)
  BY <1>1, TurnBounded
<1>3. CASE at.j > Len(d)
  <2>1. Ends(d, at, next)
    BY <1>1, TurnIs
  <2>2. next = at
    BY <1>3, <2>1 DEF Ends
  <2>3. Reach(d, i, next) = Reach(d, i - 1, at)
    BY <1>3, <2>2 DEF Reach
  <2>4. Knows(b, d, l, i - 1, at) => Knows(b, d, l, i, at)
    BY <1>1, <1>3, TurnEnds
  <2> QED BY <1>2, <2>2, <2>3, <2>4 DEF SoFar
<1>4. CASE at.j =< Len(d)
  <2>1. ASSUME Unstarred(b, d, l, i) PROVE Knows(b, d, l, i, next)
    <3>1. Unstarred(b, d, l, Reach(d, i - 1, at))
      <4>1. Reach(d, i - 1, at) = i - 1
        <5>1. at.j \in Nat
          BY <1>1 DEF Findings
        <5> QED BY <1>1, <1>4, <5>1 DEF Reach
      <4>2. Unstarred(b, d, l, i - 1)
        BY <1>1, <2>1 DEF Unstarred
      <4> QED BY <4>1, <4>2
    <3>2. Knows(b, d, l, i - 1, at)
      BY <3>1 DEF SoFar
    <3>3. Turn(b, d, l, i, at, next)
      BY <1>1, <2>1 DEF Turn
    <3> QED BY <3>2, <3>3, TurnKnows
  <2> QED BY <1>2, <1>4, <2>1 DEF SoFar
<1>5. at.j \in Nat
  BY <1>1 DEF Findings
<1> QED BY <1>1, <1>3, <1>4, <1>5

\* All that the search knows behind each byte is true.
LEMMA RunKnows ==
    ASSUME NEW b, NEW d, NEW l, NEW r, NEW n, Looks(b, d, l), Runs(b, d, r, n)
    PROVE  \A m \in 0 .. n : SoFar(b, d, l, m, r[m])
<1> DEFINE S == {m \in Nat : m =< n => SoFar(b, d, l, m, r[m])}
<1>1. b \in Seq(STRING) /\ d \in Seq(STRING) /\ Len(d) \in Nat /\ Len(b) \in Nat
  BY DEF Looks
<1>2. n \in 0 .. Len(b) /\ \A i \in 1 .. n : b[i] # Nul
  BY <1>1, CStringSees DEF Runs
<1>3. 0 \in S
  <2>1. r[0] = Restarted
    BY DEF Runs
  <2>2. Bounded(d, 0, Restarted)
    BY DEF Bounded, Findings, Restarted
  <2>3. Knows(b, d, l, 0, Restarted)
    BY DEF Knows
  <2> QED BY <2>1, <2>2, <2>3 DEF SoFar
<1>4. ASSUME NEW m \in Nat, m \in S PROVE m + 1 \in S
  <2> SUFFICES ASSUME m + 1 =< n PROVE SoFar(b, d, l, m + 1, r[m + 1])
    BY <1>4
  <2>1. m + 1 \in 1 .. n /\ (m + 1) - 1 = m /\ m + 1 \in 1 .. Len(b) /\ m =< n
    BY <1>2
  <2>2. r[m + 1] = FindStep(b, d, r[m], m + 1)
    BY <2>1 DEF Runs
  <2>3. SoFar(b, d, l, (m + 1) - 1, r[m])
    BY <1>4, <2>1
  <2>4. b[m + 1] # Nul
    BY <1>2, <2>1
  <2> HIDE DEF S
  <2> QED BY ONLY Looks(b, d, l), <2>1, <2>2, <2>3, <2>4, TurnSoFar
<1> HIDE DEF S
<1>5. \A m \in Nat : m \in S
  BY <1>3, <1>4, Induction
<1> QED BY <1>2, <1>5 DEF S

-------------------------------------------------------------------------------
(* Where the search finds the first name.                                   *)

\* The name ends first where the one at k ends, and none before k ends there.
FirstName(b, d, k, first) ==
    /\ k \in 1 .. Len(b) /\ NameAt(b, d, k) > 0 /\ k + NameAt(b, d, k) = first
    /\ \A i \in 1 .. Len(b) : NameAt(b, d, i) > 0 =>
         i + NameAt(b, d, i) >= first /\ (i + NameAt(b, d, i) = first => i >= k)

\* The first of what follows the star is also where all of it is first.
Directly(b, d, l, k, e) ==
    /\ 1 =< l /\ l + 1 < Len(d) /\ e \in k + l .. Len(b) /\ RightAt(b, d, l, e)
    /\ \A y \in k + l .. e - 1 : b[y] # d[l + 2]

\* Nothing keeps the search from the name at k.
Plainly(b, d, l, k, first) ==
    /\ Looks(b, d, l) /\ FirstName(b, d, k, first)
    /\ Unstarred(b, d, l, first - 1) /\ \A y \in 1 .. first - 1 : b[y] # Nul
    /\ \A p \in 1 .. k - 1 : k - p =< l => \E x \in 1 .. k - p : b[p + x - 1] # d[x]
    /\ l < Len(d) => \E e : Directly(b, d, l, k, e)

\* The end of the name is that of what follows its star.
LEMMA NameEnds ==
    ASSUME NEW b, NEW d, NEW l, NEW k, NEW first, Plainly(b, d, l, k, first)
    PROVE  /\ LeftAt(b, d, l, k) /\ 1 =< l /\ k \in Nat \ {0}
           /\ l = Len(d) => first = k + l
           /\ \A e : l < Len(d) /\ Directly(b, d, l, k, e) =>
                FirstRight(b, d, l, k, e) /\ first = e + (Len(d) - l - 1)
<1>1. /\ Looks(b, d, l) /\ Len(b) \in Nat /\ Len(d) \in Nat /\ l \in 0 .. Len(d)
      /\ k \in 1 .. Len(b) /\ k \in Nat \ {0} /\ NameAt(b, d, k) > 0 /\ first = k + NameAt(b, d, k)
  BY DEF FirstName, Looks, Plainly
<1>2. CASE l = Len(d)
  <2>1. NameAt(b, d, k) = IF LeftAt(b, d, l, k) THEN l ELSE 0
    BY <1>1, <1>2, NameIs
  <2>2. LeftAt(b, d, l, k) /\ NameAt(b, d, k) = l
    BY <1>1, <2>1
  <2> QED BY <1>1, <1>2, <2>2
<1>3. CASE l < Len(d)
  <2>1. LeftAt(b, d, l, k)
    BY <1>1, <1>3, NameIs
  <2>2. 1 =< l
    <3>1. PICK e : Directly(b, d, l, k, e)
      BY <1>3 DEF Plainly
    <3> QED BY <3>1 DEF Directly
  <2>3. ASSUME NEW e, Directly(b, d, l, k, e)
        PROVE  FirstRight(b, d, l, k, e) /\ first = e + (Len(d) - l - 1)
    <3>1. /\ l + 1 < Len(d) /\ e \in k + l .. Len(b) /\ RightAt(b, d, l, e)
          /\ \A y \in k + l .. e - 1 : b[y] # d[l + 2]
      BY <2>3 DEF Directly
    <3>2. ASSUME NEW y \in k + l .. e - 1 PROVE ~ RightAt(b, d, l, y)
      <4>1. 1 \in 1 .. Len(d) - l - 1 /\ y + 1 - 1 = y /\ l + 1 + 1 = l + 2
        BY <1>1, <3>1
      <4> QED BY <3>1, <4>1 DEF RightAt
    <3>3. FirstRight(b, d, l, k, e)
      BY <1>1, <3>1, <3>2 DEF FirstRight
    <3>4. NameAt(b, d, k) = e + Len(d) - l - 1 - k
      BY <1>1, <1>3, <2>1, <3>3, NameIs
    <3>5. e \in Nat
      BY <1>1, <3>1
    <3> QED BY <1>1, <3>3, <3>4, <3>5
  <2> QED BY <1>1, <1>3, <2>1, <2>2, <2>3
<1> QED BY <1>1, <1>2, <1>3

\* Behind what is before the star, at a place before k, the name would be too.
LEMMA NoneBefore ==
    ASSUME NEW b, NEW d, NEW l, NEW k, NEW first, Plainly(b, d, l, k, first),
           NEW p \in 1 .. k - 1, l < Len(d), LeftAt(b, d, l, p)
    PROVE  FALSE
<1>1. /\ Looks(b, d, l) /\ Len(b) \in Nat /\ Len(d) \in Nat /\ l \in Nat
      /\ k \in 1 .. Len(b) /\ k \in Nat \ {0} /\ p \in Nat \ {0} /\ p < k /\ p \in 1 .. Len(b)
      /\ NameAt(b, d, p) > 0 => /\ p + NameAt(b, d, p) >= first
                                /\ p + NameAt(b, d, p) = first => p >= k
  BY DEF FirstName, Looks, Plainly
<1>2. PICK e : Directly(b, d, l, k, e)
  BY DEF Plainly
<1>3. 1 =< l /\ FirstRight(b, d, l, k, e) /\ first = e + (Len(d) - l - 1)
  BY <1>2, NameEnds
<1>4. e \in k + l .. Len(b) + 1 /\ RightAt(b, d, l, e) /\ e \in Nat
  BY <1>1, <1>3 DEF FirstRight
<1> DEFINE ends == {y \in p + l .. Len(b) + 1 : RightAt(b, d, l, y)}
<1>5. ends \in SUBSET Nat /\ e \in ends
  BY <1>1, <1>4
<1>6. PICK x \in ends : \A y \in ends : x =< y
  <2> HIDE DEF ends
  <2> QED BY <1>5, LeastIn
<1>7. x \in Nat /\ x =< e /\ x \in p + l .. Len(b) + 1 /\ RightAt(b, d, l, x)
  BY <1>5, <1>6
<1>8. FirstRight(b, d, l, p, x)
  <2>1. ASSUME NEW y \in p + l .. x - 1 PROVE ~ RightAt(b, d, l, y)
    <3>1. y \in p + l .. Len(b) + 1 /\ ~ (x =< y)
      BY <1>1, <1>7
    <3> QED BY <1>6, <3>1
  <2> QED BY <1>7, <2>1 DEF FirstRight
<1>9. NameAt(b, d, p) = x + Len(d) - l - 1 - p
  BY <1>1, <1>8, NameIs
<1>10. NameAt(b, d, p) > 0 /\ p + NameAt(b, d, p) =< first
  <2>1. p + l =< x /\ l < Len(d)
    BY <1>1, <1>7
  <2> HIDE DEF ends
  <2> QED BY <1>1, <1>3, <1>4, <1>7, <1>9, <2>1
<1>11. NameAt(b, d, p) \in Int /\ first \in Int
  BY <1>1, <1>3, <1>4, <1>7, <1>9
<1> HIDE DEF ends
<1>12. PICK q \in Int : q = NameAt(b, d, p)
  BY <1>11
<1>13. p + q >= first /\ (p + q = first => p >= k) /\ p + q =< first
  BY <1>1, <1>10, <1>12
<1> QED BY ONLY <1>1, <1>11, <1>12, <1>13

\* Before the name nothing is found.
LEMMA RestartedBefore ==
    ASSUME NEW b, NEW d, NEW l, NEW k, NEW first, Plainly(b, d, l, k, first),
           NEW at, SoFar(b, d, l, k - 1, at)
    PROVE  at = Restarted
<1>1. /\ Looks(b, d, l) /\ Len(b) \in Nat /\ Len(d) \in Nat /\ l \in Nat
      /\ k \in 1 .. Len(b) /\ k \in Nat \ {0} /\ NameAt(b, d, k) > 0 /\ k + NameAt(b, d, k) = first
      /\ Bounded(d, k - 1, at) /\ at \in Findings
  BY DEF Bounded, FirstName, Looks, Plainly, SoFar
<1>2. PICK j \in Nat, p \in Nat, m \in Nat : j = at.j /\ p = at.p /\ m = at.plen
  BY <1>1 DEF Findings
<1>3. first \in Nat /\ k =< first - 1 /\ l =< Len(d)
  <2>1. l = Len(d) => first = k + l
    BY NameEnds
  <2>2. l # Len(d) => l < Len(d) /\ \E e \in Nat : first = e + (Len(d) - l - 1) /\ k + l =< e
    <3> SUFFICES ASSUME l # Len(d)
                 PROVE  l < Len(d) /\ \E e \in Nat : first = e + (Len(d) - l - 1) /\ k + l =< e
      OBVIOUS
    <3>1. l < Len(d)
      BY <1>1 DEF Looks
    <3>2. PICK e : Directly(b, d, l, k, e)
      BY <3>1 DEF Plainly
    <3>3. first = e + (Len(d) - l - 1)
      BY <3>1, <3>2, NameEnds
    <3>4. e \in k + l .. Len(b)
      BY <3>2 DEF Directly
    <3> QED BY <1>1, <3>1, <3>3, <3>4
  <2>3. 1 =< l
    BY NameEnds
  <2> QED BY <1>1, <2>1, <2>2, <2>3
<1>4. Knows(b, d, l, k - 1, at)
  <2>1. Reach(d, k - 1, at) \in Int /\ Reach(d, k - 1, at) =< k - 1
    <3>1. CASE j > Len(d) /\ p = 0
      <4>1. m = 0
        BY <1>1, <1>2, <3>1 DEF Bounded, Restarted
      <4> QED BY <1>1, <1>2, <3>1, <4>1 DEF Reach
    <3>2. CASE j > Len(d) /\ p # 0
      BY <1>1, <1>2, <3>2 DEF Bounded, Reach
    <3>3. CASE ~ (j > Len(d))
      BY <1>1, <1>2, <3>3 DEF Reach
    <3> QED BY <3>1, <3>2, <3>3
  <2>2. Unstarred(b, d, l, first - 1)
    BY DEF Plainly
  <2>3. Unstarred(b, d, l, Reach(d, k - 1, at))
    BY <1>1, <1>3, <2>1, <2>2 DEF Unstarred
  <2> QED BY <2>3 DEF SoFar
<1>5. ASSUME Complete(b, d, k - 1, at) PROVE FALSE
  <2>1. p \in 1 .. k - 1 /\ m >= 1 /\ p + m - 1 =< k - 1 /\ NameAt(b, d, p) = m
    BY <1>2, <1>5 DEF Complete
  <2>2. p \in 1 .. Len(b)
    BY <1>1, <2>1
  <2>3. p + m >= first
    BY <1>2, <2>1, <2>2 DEF FirstName, Plainly
  <2>4. k \in Nat /\ first \in Nat /\ k =< first - 1 /\ p + m - 1 =< k - 1
    BY <1>1, <1>3, <2>1
  <2> QED BY ONLY p \in Nat, m \in Nat, <2>3, <2>4
<1>6. ASSUME InLeft(b, d, l, k - 1, at) PROVE FALSE
  <2>1. p \in 1 .. k - 1 /\ m = k - p /\ m < l /\ \A x \in 1 .. m : b[p + x - 1] = d[x]
    BY <1>1, <1>2, <1>6 DEF InLeft
  <2>2. k - p =< l
    BY <1>1, <2>1
  <2> QED BY <2>1, <2>2 DEF Plainly
<1>7. ASSUME AtStar(b, d, l, k - 1, at) PROVE FALSE
  <2>1. at.p \in 1 .. k - 1 /\ l < Len(d) /\ LeftAt(b, d, l, at.p)
    BY <1>7 DEF AtStar
  <2> QED BY <2>1, NoneBefore
<1>8. ASSUME NEW e, InRight(b, d, l, k - 1, at, e) PROVE FALSE
  <2>1. at.p \in 1 .. k - 1 /\ l < Len(d) /\ LeftAt(b, d, l, at.p)
    BY <1>8 DEF InRight
  <2> QED BY <2>1, NoneBefore
<1> QED BY <1>4, <1>5, <1>6, <1>7, <1>8 DEF Knows

\* What the search knows, in numbers.
Stage(at, p, m, j) == at \in Findings /\ at.p = p /\ at.plen = m /\ at.j = j

\* A byte that fits.
LEMMA StageMatches ==
    ASSUME NEW b, NEW d \in Seq(STRING), NEW i \in Nat, NEW at, NEW next, next = FindStep(b, d, at, i),
           NEW p \in Nat, NEW m \in Nat, NEW j \in Nat, Stage(at, p, m, j), j =< Len(d), b[i] = d[j]
    PROVE  Stage(next, IF p = 0 THEN i ELSE p, m + 1, j + 1)
<1>1. at \in Findings
  BY DEF Stage
<1>2. next \in Findings /\ Matches(b, d, i, at, next)
  BY <1>1, TurnIs
<1> QED BY <1>2 DEF Matches, Stage

\* A byte that the star stands for, or that is the one behind it.
LEMMA StageSpans ==
    ASSUME NEW b, NEW d \in Seq(STRING), NEW i \in Nat, NEW at, NEW next, next = FindStep(b, d, at, i),
           NEW p \in Nat \ {0}, NEW m \in Nat, NEW j \in Nat, Stage(at, p, m, j), j =< Len(d),
           d[j] = Star, b[i] # Star
    PROVE  Stage(next, p, m + 1, IF b[i] = ByteIn(d, j + 1) THEN j + 2 ELSE j)
<1>1. at \in Findings
  BY DEF Stage
<1>2. next \in Findings /\ Spans(b, d, i, at, next)
  BY <1>1, TurnIs
<1> QED BY <1>2 DEF Spans, Stage

\* A byte behind the end of the name.
LEMMA StageEnds ==
    ASSUME NEW b, NEW d \in Seq(STRING), NEW i \in Nat, NEW at, NEW next, next = FindStep(b, d, at, i),
           NEW p \in Nat, NEW m \in Nat, NEW j \in Nat, Stage(at, p, m, j), j > Len(d)
    PROVE  Stage(next, p, m, j)
<1>1. at \in Findings
  BY DEF Stage
<1>2. Ends(d, at, next)
  BY <1>1, TurnIs
<1> QED BY <1>2 DEF Ends, Stage

\* A run up to the end of the name at k.
Straight(b, d, l, k, first, r, n) ==
    Plainly(b, d, l, k, first) /\ Runs(b, d, r, n)

\* It has all of the bytes up to there.
LEMMA StraightIs ==
    ASSUME NEW b, NEW d, NEW l, NEW k, NEW first, NEW r, NEW n, Straight(b, d, l, k, first, r, n)
    PROVE  /\ Looks(b, d, l) /\ d \in Seq(STRING) /\ Len(d) \in Nat /\ l \in Nat /\ l =< Len(d)
           /\ k \in Nat \ {0} /\ n \in Nat /\ n =< Len(b) /\ first \in Nat /\ first - 1 =< n /\ 1 =< l
           /\ k + l =< first /\ LeftAt(b, d, l, k)
           /\ \A i \in 1 .. n : r[i] = FindStep(b, d, r[i - 1], i)
           /\ Stage(r[k - 1], 0, 0, 1)
<1>1. /\ Plainly(b, d, l, k, first) /\ Runs(b, d, r, n) /\ Looks(b, d, l) /\ b \in Seq(STRING)
      /\ d \in Seq(STRING) /\ Len(d) \in Nat /\ Len(b) \in Nat /\ l \in Nat /\ l =< Len(d)
  BY DEF Looks, Plainly, Straight
<1>2. 1 =< l /\ LeftAt(b, d, l, k) /\ k \in Nat \ {0}
  BY <1>1, NameEnds
<1>3. n \in 0 .. Len(b) /\ (n < Len(b) => b[n + 1] = Nul)
  BY <1>1, CStringSees DEF Runs
<1>4. first \in Nat /\ k + l =< first /\ first - 1 =< Len(b)
  <2>1. CASE l = Len(d)
    <3>1. first = k + l
      BY <1>1, <2>1, NameEnds
    <3> QED BY <1>1, <1>2, <3>1 DEF LeftAt
  <2>2. CASE l < Len(d)
    <3>1. PICK e : Directly(b, d, l, k, e)
      BY <1>1, <2>2 DEF Plainly
    <3>2. first = e + (Len(d) - l - 1)
      BY <1>1, <2>2, <3>1, NameEnds
    <3>3. e \in k + l .. Len(b) /\ e + (Len(d) - l - 1) - 1 =< Len(b)
      BY <3>1 DEF Directly, RightAt
    <3> QED BY <1>1, <1>2, <2>2, <3>2, <3>3
  <2> QED BY <1>1, <2>1, <2>2
<1>5. first - 1 =< n
  <2> SUFFICES ASSUME ~ (first - 1 =< n) PROVE FALSE
    OBVIOUS
  <2>1. n < Len(b) /\ n + 1 \in 1 .. first - 1
    BY <1>1, <1>3, <1>4
  <2> QED BY <1>1, <1>3, <2>1 DEF Plainly
<1>6. Stage(r[k - 1], 0, 0, 1)
  <2>1. k - 1 \in 0 .. n
    BY <1>1, <1>2, <1>3, <1>4, <1>5
  <2>2. SoFar(b, d, l, k - 1, r[k - 1])
    BY <1>1, <2>1, RunKnows
  <2>3. r[k - 1] = Restarted
    BY <1>1, <2>2, RestartedBefore
  <2> QED BY <2>3 DEF Findings, Restarted, Stage
<1> QED BY <1>1, <1>2, <1>3, <1>4, <1>5, <1>6 DEF Runs

\* It finds what is before the star,
LEMMA LeftRun ==
    ASSUME NEW b, NEW d, NEW l, NEW k, NEW first, NEW r, NEW n, Straight(b, d, l, k, first, r, n)
    PROVE  Stage(r[k + l - 1], k, l, l + 1)
<1> DEFINE S == {m \in Nat : m < l => Stage(r[k + m], k, m + 1, m + 2)}
<1>1. /\ d \in Seq(STRING) /\ Len(d) \in Nat /\ l \in Nat /\ l =< Len(d)
      /\ k \in Nat \ {0} /\ n \in Nat /\ first \in Nat /\ first - 1 =< n /\ 1 =< l /\ k + l =< first
      /\ (\A x \in 1 .. l : b[k + x - 1] = d[x])
      /\ \A i \in 1 .. n : r[i] = FindStep(b, d, r[i - 1], i)
  <2> HIDE DEF S
  <2>1. /\ d \in Seq(STRING) /\ Len(d) \in Nat /\ l \in Nat /\ l =< Len(d)
        /\ k \in Nat \ {0} /\ n \in Nat /\ first \in Nat /\ first - 1 =< n /\ 1 =< l /\ k + l =< first
        /\ LeftAt(b, d, l, k)
        /\ \A i \in 1 .. n : r[i] = FindStep(b, d, r[i - 1], i)
    BY ONLY Straight(b, d, l, k, first, r, n), StraightIs
  <2>2. \A x \in 1 .. l : b[k + x - 1] = d[x]
    BY <2>1 DEF LeftAt
  <2> QED BY <2>1, <2>2
<1>2. 0 \in S
  <2>1. Stage(r[k - 1], 0, 0, 1)
    BY StraightIs
  <2>2. b[k] = d[1] /\ k \in 1 .. n
    <3>1. 1 \in 1 .. l /\ k + 1 - 1 = k
      BY <1>1
    <3> QED BY <1>1, <3>1
  <2>3. r[k] = FindStep(b, d, r[k - 1], k) /\ 1 =< Len(d)
    BY <1>1, <2>2
  <2>4. Stage(r[k], IF 0 = 0 THEN k ELSE 0, 0 + 1, 1 + 1)
    <3> HIDE DEF S
    <3> QED BY <1>1, <2>1, <2>2, <2>3, StageMatches
  <2> QED BY <1>1, <2>4
<1>3. ASSUME NEW m \in Nat, m \in S PROVE m + 1 \in S
  <2> SUFFICES ASSUME m + 1 < l PROVE Stage(r[k + (m + 1)], k, (m + 1) + 1, (m + 1) + 2)
    OBVIOUS
  <2>1. Stage(r[k + m], k, m + 1, m + 2)
    BY <1>1, <1>3
  <2> HIDE DEF S
  <2>2. PICK i \in Nat : i = k + m + 1
    BY <1>1
  <2>3. i \in 1 .. n /\ i - 1 = k + m /\ m + 2 \in 1 .. l /\ k + (m + 2) - 1 = i /\ k + (m + 1) = i
    BY <1>1, <2>2
  <2>4. r[i] = FindStep(b, d, r[k + m], i) /\ b[i] = d[m + 2] /\ m + 2 =< Len(d)
    BY <1>1, <2>3
  <2>5. Stage(r[i], IF k = 0 THEN i ELSE k, (m + 1) + 1, (m + 2) + 1)
    <3>1. m + 1 \in Nat /\ m + 2 \in Nat /\ k \in Nat
      <4>1. k \in Nat \ {0}
        BY <1>1
      <4> QED BY ONLY m \in Nat, <4>1
    <3> QED BY ONLY <1>1, <2>1, <2>2, <2>4, <3>1, StageMatches
  <2>6. (m + 1) + 2 = (m + 2) + 1 /\ k # 0
    BY <1>1
  <2> QED BY <2>3, <2>5, <2>6
<1> HIDE DEF S
<1>4. \A m \in Nat : m \in S
  BY <1>2, <1>3, Induction
<1>5. l - 1 \in Nat /\ l - 1 < l /\ k + (l - 1) = k + l - 1 /\ (l - 1) + 1 = l /\ (l - 1) + 2 = l + 1
  BY <1>1
<1>6. Stage(r[k + (l - 1)], k, (l - 1) + 1, (l - 1) + 2)
  BY <1>4, <1>5 DEF S
<1> QED BY <1>5, <1>6

\* then goes on to the byte that follows it,
LEMMA StarRun ==
    ASSUME NEW b, NEW d, NEW l, NEW k, NEW first, NEW r, NEW n, Straight(b, d, l, k, first, r, n),
           l < Len(d), NEW e, Directly(b, d, l, k, e)
    PROVE  Stage(r[e - 1], k, e - k, l + 1)
<1> DEFINE S == {m \in Nat : k + l + m =< e => Stage(r[k + l + m - 1], k, l + m, l + 1)}
<1>1. /\ d \in Seq(STRING) /\ Len(d) \in Nat /\ l \in Nat /\ l + 1 =< Len(d) /\ d[l + 1] = Star
      /\ k \in Nat \ {0} /\ n \in Nat /\ first \in Nat /\ first - 1 =< n
      /\ \A i \in 1 .. n : r[i] = FindStep(b, d, r[i - 1], i)
  BY StraightIs DEF Looks
<1>2. /\ e \in Nat /\ k + l =< e /\ l + 1 < Len(d) /\ \A y \in k + l .. e - 1 : b[y] # d[l + 2]
  BY <1>1 DEF Directly
<1>3. e =< first - 1
  <2>1. first = e + (Len(d) - l - 1)
    BY NameEnds DEF Straight
  <2> QED BY <1>1, <1>2, <2>1
<1>4. \A y \in 1 .. first - 1 : b[y] # Star
  BY DEF Plainly, Straight, Unstarred
<1>5. 0 \in S
  <2>1. Stage(r[k + l - 1], k, l, l + 1)
    BY LeftRun
  <2>2. k + l + 0 - 1 = k + l - 1 /\ l + 0 = l
    BY <1>1
  <2> QED BY <2>1, <2>2
<1>6. ASSUME NEW m \in Nat, m \in S PROVE m + 1 \in S
  <2> SUFFICES ASSUME k + l + (m + 1) =< e
               PROVE  Stage(r[k + l + (m + 1) - 1], k, l + (m + 1), l + 1)
    OBVIOUS
  <2>1. Stage(r[k + l + m - 1], k, l + m, l + 1)
    <3>1. k + l + m =< e
      BY <1>1, <1>2
    <3> QED BY <1>6, <3>1
  <2> HIDE DEF S
  <2>2. PICK i \in Nat : i = k + l + m
    BY <1>1
  <2>3. i \in 1 .. n /\ i \in 1 .. first - 1 /\ i \in k + l .. e - 1 /\ k + l + (m + 1) - 1 = i /\ l + (m + 1) = (l + m) + 1
    BY <1>1, <1>2, <1>3, <2>2
  <2>4. r[i] = FindStep(b, d, r[k + l + m - 1], i) /\ b[i] # Star /\ b[i] # d[l + 2]
    BY <1>1, <1>2, <1>4, <2>2, <2>3
  <2>5. Stage(r[i], k, (l + m) + 1, IF b[i] = ByteIn(d, (l + 1) + 1) THEN (l + 1) + 2 ELSE l + 1)
    <3>1. l + m \in Nat /\ l + 1 \in Nat
      BY <1>1
    <3> QED BY ONLY <1>1, <2>1, <2>2, <2>4, <3>1, StageSpans
  <2>6. ByteIn(d, (l + 1) + 1) = d[l + 2]
    <3>1. (l + 1) + 1 = l + 2 /\ l + 2 \in DOMAIN d
      BY <1>1, <1>2
    <3> QED BY <3>1 DEF ByteIn
  <2> QED BY <2>3, <2>4, <2>5, <2>6
<1> HIDE DEF S
<1>7. \A m \in Nat : m \in S
  BY <1>5, <1>6, Induction
<1>8. e - (k + l) \in Nat /\ k + l + (e - (k + l)) - 1 = e - 1 /\ l + (e - (k + l)) = e - k /\ k + l + (e - (k + l)) =< e
  BY <1>1, <1>2
<1>9. Stage(r[k + l + (e - (k + l)) - 1], k, l + (e - (k + l)), l + 1)
  BY <1>7, <1>8 DEF S
<1> QED BY <1>8, <1>9

\* then finds what follows the star;
LEMMA RightRun ==
    ASSUME NEW b, NEW d, NEW l, NEW k, NEW first, NEW r, NEW n, Straight(b, d, l, k, first, r, n),
           l < Len(d), NEW e, Directly(b, d, l, k, e)
    PROVE  Stage(r[first - 1], k, first - k, Len(d) + 1)
<1> DEFINE S == {m \in Nat : l + 2 + m =< Len(d) => Stage(r[e + m], k, e - k + m + 1, l + 3 + m)}
<1>1. /\ d \in Seq(STRING) /\ Len(d) \in Nat /\ l \in Nat /\ l + 1 =< Len(d) /\ d[l + 1] = Star
      /\ k \in Nat \ {0} /\ n \in Nat /\ first \in Nat /\ first - 1 =< n
      /\ \A i \in 1 .. n : r[i] = FindStep(b, d, r[i - 1], i)
  BY StraightIs DEF Looks
<1>2. /\ e \in Nat /\ k + l =< e /\ l + 1 < Len(d)
      /\ \A x \in 1 .. Len(d) - l - 1 : b[e + x - 1] = d[l + 1 + x]
  BY <1>1 DEF Directly, RightAt
<1>3. first = e + (Len(d) - l - 1) /\ e - k \in Nat
  <2>1. first = e + (Len(d) - l - 1)
    BY NameEnds DEF Straight
  <2>2. e - k \in Nat
    <3>1. e \in Nat /\ k \in Nat /\ l \in Nat /\ k + l =< e
      BY <1>1, <1>2
    <3> QED BY ONLY <3>1
  <2> QED BY <2>1, <2>2
<1>4. 0 \in S
  <2>1. Stage(r[e - 1], k, e - k, l + 1)
    BY StarRun
  <2>2. b[e] = d[l + 2]
    <3>1. 1 \in 1 .. Len(d) - l - 1 /\ e + 1 - 1 = e /\ l + 1 + 1 = l + 2
      BY <1>1, <1>2
    <3> QED BY <1>2, <3>1
  <2>3. e \in 1 .. n /\ e \in 1 .. first - 1
    BY <1>1, <1>2, <1>3
  <2>4. b[e] # Star
    BY <2>3 DEF Plainly, Straight, Unstarred
  <2>5. r[e] = FindStep(b, d, r[e - 1], e)
    BY <1>1, <2>3
  <2>6. Stage(r[e], k, (e - k) + 1, IF b[e] = ByteIn(d, (l + 1) + 1) THEN (l + 1) + 2 ELSE l + 1)
    <3>1. l + 1 \in Nat
      BY <1>1
    <3> QED BY ONLY <1>1, <1>2, <1>3, <2>1, <2>4, <2>5, <3>1, StageSpans
  <2>7. ByteIn(d, (l + 1) + 1) = d[l + 2]
    <3>1. (l + 1) + 1 = l + 2 /\ l + 2 \in DOMAIN d
      BY <1>1, <1>2
    <3> QED BY <3>1 DEF ByteIn
  <2>8. e + 0 = e /\ (e - k) + 1 = e - k + 0 + 1 /\ (l + 1) + 2 = l + 3 + 0
    BY <1>1, <1>2
  <2> QED BY <2>2, <2>6, <2>7, <2>8
<1>5. ASSUME NEW m \in Nat, m \in S PROVE m + 1 \in S
  <2> SUFFICES ASSUME l + 2 + (m + 1) =< Len(d)
               PROVE  Stage(r[e + (m + 1)], k, e - k + (m + 1) + 1, l + 3 + (m + 1))
    OBVIOUS
  <2>1. Stage(r[e + m], k, e - k + m + 1, l + 3 + m)
    BY <1>1, <1>5
  <2> HIDE DEF S
  <2>2. PICK i \in Nat : i = e + m + 1
    BY <1>2
  <2>3. /\ i \in 1 .. n /\ e + (m + 1) = i /\ i - 1 = e + m /\ m + 2 \in 1 .. Len(d) - l - 1
        /\ e + (m + 2) - 1 = i /\ l + 1 + (m + 2) = l + 3 + m /\ l + 3 + m =< Len(d)
    BY <1>1, <1>2, <1>3, <2>2
  <2>4. r[i] = FindStep(b, d, r[e + m], i) /\ b[i] = d[l + 3 + m]
    BY <1>1, <1>2, <2>3
  <2>5. Stage(r[i], IF k = 0 THEN i ELSE k, (e - k + m + 1) + 1, (l + 3 + m) + 1)
    <3>1. e - k + m + 1 \in Nat /\ l + 3 + m \in Nat /\ k \in Nat
      BY <1>1, <1>3
    <3>2. PICK u \in Nat, v \in Nat : u = e - k + m + 1 /\ v = l + 3 + m
      BY <3>1
    <3>3. Stage(r[e + m], k, u, v) /\ v =< Len(d) /\ b[i] = d[v]
      BY <2>1, <2>3, <2>4, <3>2
    <3>4. Stage(r[i], IF k = 0 THEN i ELSE k, u + 1, v + 1)
      BY ONLY <1>1, <2>2, <2>4, <3>1, <3>3, StageMatches
    <3> QED BY <3>2, <3>4
  <2>6. (e - k + m + 1) + 1 = e - k + (m + 1) + 1 /\ (l + 3 + m) + 1 = l + 3 + (m + 1) /\ k # 0
    BY <1>1, <1>3
  <2> QED BY <2>3, <2>5, <2>6
<1> HIDE DEF S
<1>6. \A m \in Nat : m \in S
  BY <1>4, <1>5, Induction
<1>7. PICK m \in Nat : m = Len(d) - l - 2
  BY <1>1, <1>2
<1>8. l + 2 + m =< Len(d) /\ e + m = first - 1 /\ e - k + m + 1 = first - k /\ l + 3 + m = Len(d) + 1
  BY <1>1, <1>2, <1>3, <1>7
<1>9. Stage(r[e + m], k, e - k + m + 1, l + 3 + m)
  BY <1>6, <1>8 DEF S
<1> QED BY <1>8, <1>9

\* and that is what it finds.
LEMMA FoundStraight ==
    ASSUME NEW b, NEW d, NEW l, NEW k, NEW first, NEW r, NEW n, Straight(b, d, l, k, first, r, n)
    PROVE  Stage(findWildString(b, d), k, first - k, Len(d) + 1)
<1> DEFINE S == {m \in Nat : first - 1 + m =< n => Stage(r[first - 1 + m], k, first - k, Len(d) + 1)}
<1>1. /\ d \in Seq(STRING) /\ Len(d) \in Nat /\ l \in Nat /\ l =< Len(d)
      /\ k \in Nat \ {0} /\ n \in Nat /\ first \in Nat /\ first - 1 =< n /\ k + l =< first
      /\ \A i \in 1 .. n : r[i] = FindStep(b, d, r[i - 1], i)
  BY StraightIs
<1>2. Stage(r[first - 1], k, first - k, Len(d) + 1)
  <2>1. CASE l = Len(d)
    <3>1. Stage(r[k + l - 1], k, l, l + 1)
      BY LeftRun
    <3>2. first = k + l
      BY <2>1, NameEnds DEF Straight
    <3>3. first - 1 = k + l - 1 /\ first - k = l
      BY <1>1, <3>2
    <3> QED BY <2>1, <3>1, <3>3
  <2>2. CASE l < Len(d)
    <3>1. PICK e : Directly(b, d, l, k, e)
      BY <2>2 DEF Plainly, Straight
    <3> QED BY <2>2, <3>1, RightRun
  <2> QED BY <1>1, <2>1, <2>2
<1>3. 0 \in S
  <2>1. first - 1 + 0 = first - 1
    BY <1>1
  <2> QED BY <1>2, <2>1
<1>4. ASSUME NEW m \in Nat, m \in S PROVE m + 1 \in S
  <2> SUFFICES ASSUME first - 1 + (m + 1) =< n
               PROVE  Stage(r[first - 1 + (m + 1)], k, first - k, Len(d) + 1)
    OBVIOUS
  <2>1. Stage(r[first - 1 + m], k, first - k, Len(d) + 1)
    BY <1>1, <1>4
  <2> HIDE DEF S
  <2>2. PICK i \in Nat : i = first + m
    BY <1>1
  <2>3. i \in 1 .. n /\ i - 1 = first - 1 + m /\ first - 1 + (m + 1) = i
    BY <1>1, <2>2
  <2>4. r[i] = FindStep(b, d, r[first - 1 + m], i)
    BY <1>1, <2>3
  <2>5. Stage(r[i], k, first - k, Len(d) + 1)
    <3>1. first - k \in Nat /\ Len(d) + 1 \in Nat /\ Len(d) + 1 > Len(d) /\ k \in Nat
      BY <1>1
    <3> QED BY ONLY <1>1, <2>1, <2>2, <2>4, <3>1, StageEnds
  <2> QED BY <2>3, <2>5
<1> HIDE DEF S
<1>5. \A m \in Nat : m \in S
  BY <1>3, <1>4, Induction
<1>6. PICK m \in Nat : m = n - (first - 1)
  BY <1>1
<1>7. first - 1 + m =< n /\ first - 1 + m = n
  BY <1>1, <1>6
<1>8. Stage(r[first - 1 + m], k, first - k, Len(d) + 1)
  BY <1>5, <1>7 DEF S
<1> QED BY <1>7, <1>8 DEF Runs, Straight

\* Whatever is found ends where the text does, or begins the name as it is there,
\* unless a star is in the way.
LEMMA FoundWhat ==
    ASSUME NEW b, NEW d, NEW l, Looks(b, d, l), NEW at, at = findWildString(b, d), at.p # 0
    PROVE  /\ at \in Findings
           /\ \/ at.p + at.plen = Len(CString(b)) + 1
              \/ ~ Unstarred(b, d, l, at.p + at.plen - 1)
              \/ at.p \in 1 .. Len(b) /\ NameAt(b, d, at.p) = at.plen /\ at.plen > 0
<1>1. b \in Seq(STRING) /\ Len(b) \in Nat /\ Len(d) \in Nat /\ l \in Nat /\ l =< Len(d)
  BY DEF Looks
<1>2. PICK r, n : Runs(b, d, r, n)
  BY <1>1, FoundRuns DEF Sequence
<1>3. n = Len(CString(b)) /\ n \in 0 .. Len(b) /\ at = r[n]
  BY <1>1, <1>2, CStringSees DEF Runs
<1>4. SoFar(b, d, l, n, at)
  <2>1. n \in 0 .. n
    BY <1>3
  <2> QED BY <1>2, <1>3, <2>1, RunKnows
<1>5. at \in Findings /\ Bounded(d, n, at)
  BY <1>4 DEF Bounded, SoFar
<1>6. PICK j \in Nat, p \in Nat, m \in Nat : j = at.j /\ p = at.p /\ m = at.plen
  BY <1>5 DEF Findings
<1>7. CASE j =< Len(d)
  <2>1. p + m - 1 = n
    BY <1>5, <1>6, <1>7 DEF Bounded
  <2>2. p + m = n + 1
    <3>1. n \in Nat
      BY <1>1, <1>3
    <3> QED BY ONLY p \in Nat, m \in Nat, <2>1, <3>1
  <2> QED BY <1>3, <1>5, <1>6, <2>2
<1>8. CASE j > Len(d) /\ Unstarred(b, d, l, at.p + at.plen - 1)
  <2>1. Reach(d, n, at) = at.p + at.plen - 1
    BY <1>6, <1>8 DEF Reach
  <2>2. Knows(b, d, l, n, at)
    BY <1>4, <1>8, <2>1 DEF SoFar
  <2>3. at # Restarted
    BY DEF Restarted
  <2>4. ~ InLeft(b, d, l, n, at)
    BY <1>1, <1>6, <1>8 DEF InLeft
  <2>5. ~ AtStar(b, d, l, n, at)
    BY <1>1, <1>6, <1>8 DEF AtStar
  <2>6. ASSUME NEW e PROVE ~ InRight(b, d, l, n, at, e)
    BY <1>1, <1>6, <1>8 DEF InRight
  <2>7. Complete(b, d, n, at)
    BY <2>2, <2>3, <2>4, <2>5, <2>6 DEF Knows
  <2>8. p \in 1 .. n /\ m >= 1 /\ NameAt(b, d, p) = m
    BY <1>6, <2>7 DEF Complete
  <2>9. p \in 1 .. Len(b) /\ m > 0
    BY <1>3, <1>6, <2>8
  <2> QED BY <1>5, <1>6, <2>8, <2>9
<1> QED BY <1>1, <1>5, <1>6, <1>7, <1>8

\* The name of the field in the words of its search.
LEMMA NameLooks ==
    ASSUME request \in Requests
    PROVE  LET d == request.name
               l == Len(BeforeStar)
           IN /\ Looks(Body, d, l) /\ BeforeStar = SubSeq(d, 1, l)
              /\ l < Len(d) <=> Star \in ToSet(d)
<1> DEFINE d == request.name
           stars == {j \in DOMAIN d : d[j] = Star}
           m == IF stars = {} THEN Len(d) ELSE Min(stars) - 1
<1>1. Body \in Seq(STRING) /\ d \in Seq(STRING)
  BY RequestsAssumption DEF Body, Text
<1>2. Looks(Body, d, m) /\ (stars = {} <=> m = Len(d))
  <2> HIDE DEF d
  <2> QED BY <1>1, LooksFor
<1>3. BeforeStar = SubSeq(d, 1, m)
  <2>1. stars = {} => BeforeStar = d /\ m = Len(d)
    BY DEF BeforeStar
  <2>2. stars # {} => BeforeStar = SubSeq(d, 1, Min(stars) - 1) /\ m = Min(stars) - 1
    BY DEF BeforeStar
  <2>3. SubSeq(d, 1, Len(d)) = d
    <3> HIDE DEF d
    <3> QED BY <1>1
  <2> HIDE DEF d, stars, m
  <2> QED BY <2>1, <2>2, <2>3
<1>4. stars # {} <=> Star \in ToSet(d)
  BY DEF ToSet
<1> HIDE DEF d, stars, m
<1>5. Len(BeforeStar) = m
  BY <1>2, <1>3, PartsAt
<1>6. m < Len(d) <=> stars # {}
  BY <1>2 DEF Looks
<1> QED BY <1>2, <1>3, <1>4, <1>5, <1>6 DEF d

\* A byte is met before a place.
LEMMA BeforeIs ==
    ASSUME request \in Requests, NEW k \in Nat, k - 1 =< Len(Body), NEW c
    PROVE  Before(c, k) <=> \E y \in 1 .. k - 1 : Body[y] = c
<1>1. Body \in Seq(STRING)
  BY RequestsAssumption DEF Body, Text
<1> DEFINE t == SubSeq(Body, 1, k - 1)
<1>2. CASE k = 0
  <2>1. t = <<>>
    BY <1>1, <1>2, SubSeqEmpty
  <2>2. ToSet(<<>>) = {}
    BY DEF ToSet
  <2> HIDE DEF t
  <2>3. c \notin ToSet(t)
    BY <2>1, <2>2
  <2>4. ~ \E y \in 1 .. k - 1 : Body[y] = c
    BY <1>2
  <2>5. Before(c, k) <=> c \in ToSet(t)
    BY DEF Before, t
  <2> QED BY <2>3, <2>4, <2>5
<1>3. CASE k # 0
  <2>1. k - 1 \in 0 .. Len(Body)
    BY <1>1, <1>3
  <2>2. t \in Seq(STRING) /\ Len(t) = k - 1 /\ \A y \in 1 .. k - 1 : t[y] = Body[y]
    BY <1>1, <2>1, Beginning
  <2> HIDE DEF t
  <2>3. c \in ToSet(t) <=> \E y \in 1 .. k - 1 : Body[y] = c
    <3>1. DOMAIN t = 1 .. k - 1
      BY <2>2
    <3> QED BY <2>2, <3>1 DEF ToSet
  <2> QED BY <2>3 DEF Before, t
<1> QED BY <1>2, <1>3

\* No star is in the way.
LEMMA StarredIs ==
    ASSUME request \in Requests, NEW k \in Nat, k - 1 =< Len(Body)
    PROVE  ~ Starred(k) <=> Unstarred(Body, request.name, Len(BeforeStar), k - 1)
<1> DEFINE d == request.name
           l == Len(BeforeStar)
<1>1. Looks(Body, d, l) /\ (l < Len(d) <=> Star \in ToSet(d))
  BY NameLooks
<1>2. AfterStar = SubSeq(d, l + 2, Len(d))
  BY DEF AfterStar
<1> HIDE DEF d, l
<1>3. ASSUME l < Len(d)
      PROVE  Star \in ToSet(AfterStar) <=> \E j \in l + 2 .. Len(d) : d[j] = Star
  <2>1. d \in Seq(STRING) /\ l \in Nat /\ Len(d) \in Nat
    BY <1>1 DEF Looks
  <2>2. \A x \in l + 2 .. Len(d) : d[x] \in STRING
    BY <2>1, SeqIs
  <2>3. /\ AfterStar \in Seq(STRING)
        /\ Len(AfterStar) = IF l + 2 =< Len(d) THEN Len(d) - (l + 2) + 1 ELSE 0
        /\ \A i \in 1 .. Len(d) - (l + 2) + 1 : AfterStar[i] = d[(l + 2) + i - 1]
    <3>1. l + 2 \in Int /\ Len(d) \in Int
      BY <2>1
    <3> QED BY ONLY <1>2, <2>2, <3>1, SubSeqProperties
  <2>4. PICK w \in Nat : w = Len(d) - l - 1
    <3>1. Len(d) - l - 1 \in Nat
      BY <1>3, <2>1
    <3> QED BY <3>1
  <2>5. DOMAIN AfterStar = 1 .. w /\ \A i \in 1 .. w : AfterStar[i] = d[l + 1 + i]
    <3>1. Len(AfterStar) = w
      BY <1>3, <2>1, <2>3, <2>4
    <3>2. DOMAIN AfterStar = 1 .. w
      BY <2>3, <3>1
    <3>3. ASSUME NEW i \in 1 .. w PROVE AfterStar[i] = d[l + 1 + i]
      <4>1. (l + 2) + i - 1 = l + 1 + i /\ Len(d) - (l + 2) + 1 = w
        BY <2>1, <2>4
      <4>2. AfterStar[i] = d[(l + 2) + i - 1]
        BY <2>3, <4>1
      <4> QED BY <4>1, <4>2
    <3> QED BY <3>2, <3>3
  <2>6. ASSUME NEW i \in 1 .. w PROVE l + 1 + i \in l + 2 .. Len(d)
    BY <2>1, <2>4
  <2>7. ASSUME NEW j \in l + 2 .. Len(d) PROVE \E i \in 1 .. w : l + 1 + i = j
    <3>1. j - l - 1 \in 1 .. w /\ l + 1 + (j - l - 1) = j
      BY <2>1, <2>4
    <3> QED BY <3>1
  <2>8. Star \in ToSet(AfterStar) <=> \E i \in 1 .. w : AfterStar[i] = Star
    BY <2>5 DEF ToSet
  <2> QED BY <2>5, <2>6, <2>7, <2>8
<1>4. Before(Star, k) <=> \E y \in 1 .. k - 1 : Body[y] = Star
  BY BeforeIs
<1>5. Starred(k) <=> l < Len(d) /\ (Before(Star, k) \/ Star \in ToSet(AfterStar))
  BY <1>1 DEF d, Starred
<1>6. ~ Starred(k) <=> Unstarred(Body, d, l, k - 1)
  BY <1>3, <1>4, <1>5 DEF Unstarred
<1> QED BY <1>6 DEF d, l

\* What the field is found to be, and whether it is one.
Finding == findWildString(Body, request.name)
Place == Finding.p + Finding.plen
Finds ==
    /\ request.type \in Multipart => Boundary # <<>>
    /\ Finding.p # 0 /\ LengthAt(Place) > 0 /\ ~ IsEncryptData(ValueAt(Place, LengthAt(Place)))

\* The value is the one that the search finds, if it is made and finds one.
Seeking ==
    /\ request \in Requests
    /\ IF stage \in {"arrived", "search", "declined"} THEN start = 0 /\ size = 0
       ELSE \/ start = 0 /\ size = 0 /\ ~ Finds
            \/ /\ start = 0 /\ size = 0 /\ Places(Body, request.name, 1) = {}
               /\ Star \notin ToSet(request.name) \/ request.type \notin Patterned
            \/ start = Place /\ size = LengthAt(Place) /\ Finds

\* Every step keeps it so.
LEMMA SeekingAlways == Spec => []Seeking
<1>1. Init => Seeking
  BY DEF Init, Seeking
<1>2. Seeking /\ [Next]_vars => Seeking'
  <2> SUFFICES ASSUME Seeking, [Next]_vars PROVE Seeking'
    OBVIOUS
  <2>1. ASSUME request' = request
        PROVE  /\ Finds' <=> Finds
               /\ Place' = Place /\ LengthAt(Place)' = LengthAt(Place)
               /\ Places(Body, request.name, 1)' = Places(Body, request.name, 1)
    BY <2>1 DEF Body, Boundary, Closing, Finding, Finds, IsEncryptData, LengthAt, Place, ValueAt
  <2>2. ASSUME request' = request, start' = start, size' = size,
               \/ stage' = stage
               \/ {stage, stage'} \cap {"arrived", "search", "declined"} = {}
        PROVE  Seeking'
    <3> HIDE DEF Finds, Place
    <3> QED BY <2>1, <2>2 DEF Seeking
  <2>3. CASE Lookup
    <3>1. /\ stage = "arrived" /\ request' = request /\ start' = start /\ size' = size
          /\ \/ stage' = "declined" \/ stage' = "search"
             \/ /\ stage' = "kept" /\ Places(Body, request.name, 1) = {}
                /\ Star \notin ToSet(request.name) \/ request.type \notin Patterned
      BY <2>3 DEF Lookup
    <3>2. Places(Body, request.name, 1)' = Places(Body, request.name, 1)
      BY <2>1, <3>1
    <3>3. start = 0 /\ size = 0
      BY <3>1 DEF Seeking
    <3> QED BY <3>1, <3>2, <3>3 DEF Seeking
  <2>4. CASE Search
    <3>1. /\ stage = "search" /\ request' = request /\ stage' \in {"clear", "kept"}
          /\ \/ Finds /\ start' = Place /\ size' = LengthAt(Place)
             \/ ~ Finds /\ start' = start /\ size' = size
      BY <2>4 DEF Finding, Finds, Place, Search
    <3> QED BY <2>1, <3>1 DEF Seeking
  <2>5. CASE ReplacePost
    BY <2>2, <2>5 DEF ReplacePost
  <2>6. CASE Send
    BY <2>2, <2>6 DEF Send
  <2>7. CASE Decode
    BY <2>2, <2>7 DEF Decode
  <2>8. ASSUME NEW c \in CiphersOf(request), EncryptData(c) \/ EncryptDataBase64(c) \/ EncryptPart(c)
        PROVE  Seeking'
    <3>1. /\ stage \in {"clear", "parts"} /\ stage' \in {"passes", "sealed", "parts"}
          /\ request' = request /\ start' = start /\ size' = size
      BY <2>8, Zenon DEF EncryptData, EncryptDataBase64, EncryptPart
    <3> QED BY <2>2, <3>1
  <2>9. ASSUME NEW c \in Opens, NEW n \in DOMAIN ciphers, Show(c, n) PROVE Seeking'
    <3>1. stage = "sent" /\ stage' = "shown" /\ request' = request /\ start' = start /\ size' = size
      BY <2>9, Zenon DEF Show
    <3> QED BY <2>2, <3>1
  <2>10. CASE UNCHANGED vars
    BY <2>2, <2>10 DEF vars
  <2> QED BY <2>3, <2>4, <2>5, <2>6, <2>7, <2>8, <2>9, <2>10 DEF Next
<1> QED BY <1>1, <1>2, PTL DEF Spec

\* No value begins where the text ends.
LEMMA NothingAtEnd ==
    ASSUME request \in Requests, request.type \in Multipart => Boundary # <<>>,
           Len(CString(Body)) = Len(Body)
    PROVE  LengthAt(Len(Body) + 1) = 0
<1> DEFINE n == Len(Body)
           at == Places(CString(Body), Closing, n + 1)
<1>1. n \in Nat /\ Sequence(Body)
  BY BodyIs
<1>2. Len(Closing) \in Nat /\ Len(Closing) # 0
  <2>1. CASE request.type \in Multipart
    <3>1. \E S : Boundary \in Seq(S)
      <4>1. PICK m : m = Min(Places(CString(Body), <<"\r", "\n">>, 1)) - 1
        OBVIOUS
      <4>2. Boundary = <<>> \/ Boundary = SubSeq(Body, 1, m)
        BY <4>1 DEF Boundary
      <4>3. Places(CString(Body), <<"\r", "\n">>, 1) # {} => m \in Int
        <5>1. Places(CString(Body), <<"\r", "\n">>, 1) \in SUBSET Nat
          <6>1. Sequence(CString(Body))
            BY <1>1, CStringIs
          <6>2. Sequence(<<"\r", "\n">>)
            <7>1. <<"\r", "\n">> \in Seq({"\r", "\n"})
              OBVIOUS
            <7> QED BY <7>1 DEF Sequence
          <6> QED BY <6>1, <6>2, PlacesAre
        <5> QED BY <4>1, <5>1, LeastNumber
      <4>4. Boundary # <<>> => Places(CString(Body), <<"\r", "\n">>, 1) # {}
        BY DEF Boundary
      <4>5. CASE Boundary = <<>>
        <5>1. <<>> \in Seq({})
          OBVIOUS
        <5> QED BY <4>5, <5>1
      <4>6. CASE Boundary # <<>>
        <5>1. m \in Int /\ 1 \in Int /\ Boundary = SubSeq(Body, 1, m)
          BY <4>2, <4>3, <4>4, <4>6
        <5>2. Sequence(SubSeq(Body, 1, m))
          BY ONLY <1>1, <5>1, PartSequence
        <5> QED BY <5>1, <5>2 DEF Sequence
      <4> QED BY <4>5, <4>6
    <3>2. Closing = Boundary
      BY <2>1 DEF Closing
    <3> QED BY <2>1, <3>1, <3>2
  <2>2. CASE request.type \notin Multipart
    <3>1. Closing = <<"%", "2", "2", "%", "7", "D">> \/ Closing = <<"&">>
      BY <2>2 DEF Closing
    <3>2. Len(<<"%", "2", "2", "%", "7", "D">>) = 6
      OBVIOUS
    <3>3. Len(<<"&">>) = 1
      OBVIOUS
    <3>4. Len(Closing) = 6 \/ Len(Closing) = 1
      BY <3>1, <3>2, <3>3, Zenon
    <3>5. PICK w : w = Len(Closing)
      OBVIOUS
    <3>6. w = 6 \/ w = 1
      BY <3>4, <3>5
    <3> QED BY ONLY <3>5, <3>6
  <2> QED BY <2>1, <2>2
<1>3. at = {}
  <2>1. Len(CString(Body)) = n
    OBVIOUS
  <2> QED BY <1>1, <1>2, <2>1 DEF Places
<1>4. LengthAt(n + 1) = IF at = {} THEN IF request.type \in Multipart THEN 0 ELSE n + 1 - (n + 1)
                        ELSE Min(at) - (n + 1) - (IF request.type \in Multipart THEN 2 ELSE 0)
  BY DEF LengthAt
<1> HIDE DEF at
<1> QED BY <1>1, <1>3, <1>4

\* What is found without a reason is the name.
LEMMA FoundNamed ==
    ASSUME Seeking, size > 0
    PROVE  start \in Named \/ Before(Nul, start + 1) \/ Starred(start)
<1> DEFINE b == Body
           d == request.name
           l == Len(BeforeStar)
           at == findWildString(b, d)
           n == Len(CString(b))
<1>1. request \in Requests /\ b \in Seq(STRING) /\ Len(b) \in Nat /\ DOMAIN b = 1 .. Len(b)
  BY RequestsAssumption DEF Body, Seeking, Text
<1>2. Looks(b, d, l)
  BY <1>1, NameLooks
<1>3. Finds /\ start = Place /\ size = LengthAt(start)
  BY DEF Seeking
<1>4. at.p # 0 /\ start = at.p + at.plen /\ (request.type \in Multipart => Boundary # <<>>)
  BY <1>3 DEF Finding, Finds, Place
<1>5. n \in 0 .. Len(b) /\ (n < Len(b) => b[n + 1] = Nul)
  BY <1>1, CStringSees
<1>6. /\ at \in Findings
      /\ \/ at.p + at.plen = n + 1
         \/ ~ Unstarred(b, d, l, at.p + at.plen - 1)
         \/ at.p \in 1 .. Len(b) /\ NameAt(b, d, at.p) = at.plen /\ at.plen > 0
  <2> HIDE DEF b, d, l
  <2> QED BY <1>2, <1>4, FoundWhat
<1>7. start \in Nat
  BY <1>4, <1>6 DEF Findings
<1>8. CASE start = n + 1
  <2>1. CASE n = Len(b)
    <3>1. LengthAt(Len(Body) + 1) = 0
      BY <1>1, <1>4, <2>1, NothingAtEnd
    <3> QED BY <1>3, <1>8, <2>1, <3>1
  <2>2. CASE n # Len(b)
    <3>1. start \in 1 .. Len(b) /\ Body[start] = Nul
      BY <1>1, <1>5, <1>8, <2>2
    <3>2. start + 1 \in Nat /\ (start + 1) - 1 =< Len(Body) /\ start \in 1 .. (start + 1) - 1
      BY <1>7, <3>1
    <3>3. Before(Nul, start + 1)
      BY <1>1, <3>1, <3>2, BeforeIs
    <3> QED BY <3>3
  <2> QED BY <2>1, <2>2
<1>9. CASE at.p \in 1 .. Len(b) /\ NameAt(b, d, at.p) = at.plen /\ at.plen > 0
  <2>1. start \in Named
    BY <1>1, <1>4, <1>9 DEF Named
  <2> QED BY <2>1
<1>10. CASE start =< n /\ ~ Unstarred(b, d, l, at.p + at.plen - 1)
  <2>1. start - 1 =< Len(Body)
    BY <1>1, <1>5, <1>7, <1>10
  <2>2. start - 1 = at.p + at.plen - 1
    <3>1. at.p \in Nat /\ at.plen \in Nat
      BY <1>6 DEF Findings
    <3> HIDE DEF at
    <3> QED BY <1>4, <3>1
  <2>3. ~ Starred(start) <=> Unstarred(Body, request.name, Len(BeforeStar), start - 1)
    BY ONLY <1>1, <1>7, <2>1, StarredIs
  <2>4. ~ Unstarred(Body, request.name, Len(BeforeStar), start - 1)
    <3> HIDE DEF at
    <3> QED BY <1>10, <2>2
  <2> QED BY <2>3, <2>4
<1>11. start =< n + 1
  <2>1. PICK r, m : Runs(b, d, r, m)
    BY <1>1, FoundRuns DEF Sequence
  <2>2. m = n /\ at = r[n] /\ n \in 0 .. n
    BY <1>5, <2>1 DEF Runs
  <2>3. Bounded(d, n, at)
    <3> HIDE DEF at, b, d, l
    <3> QED BY <1>2, <2>1, <2>2, RunKnows DEF SoFar
  <2>4. at.p + at.plen - 1 =< n /\ at.p \in Nat /\ at.plen \in Nat
    <3> HIDE DEF at, b, d, l
    <3> QED BY <1>4, <1>6, <2>3 DEF Bounded, Findings
  <2>5. start - 1 =< n
    BY <1>4, <2>4
  <2> QED BY <1>5, <1>7, <2>5
<1> HIDE DEF at, b, d, l, n
<1> QED BY <1>4, <1>5, <1>6, <1>7, <1>8, <1>9, <1>10, <1>11

\* The length of a name is a number.
LEMMA NameLength ==
    ASSUME NEW b, NEW d, NEW l, Looks(b, d, l), NEW k \in Nat \ {0}
    PROVE  NameAt(b, d, k) \in Int
<1>1. Len(d) \in Nat /\ l \in Nat /\ l =< Len(d) /\ Len(b) \in Nat
  BY DEF Looks
<1>2. CASE l = Len(d)
  <2>1. NameAt(b, d, k) = IF LeftAt(b, d, l, k) THEN l ELSE 0
    BY <1>2, NameIs
  <2> QED BY <1>1, <2>1
<1>3. CASE l < Len(d) /\ NameAt(b, d, k) # 0
  <2>1. LeftAt(b, d, l, k) /\ \E e : FirstRight(b, d, l, k, e)
    BY <1>3, NameIs
  <2>2. PICK e : FirstRight(b, d, l, k, e)
    BY <2>1
  <2>3. NameAt(b, d, k) = e + Len(d) - l - 1 - k
    BY <1>3, <2>1, <2>2, NameIs
  <2>4. e \in Int
    BY <1>1, <2>2 DEF FirstRight
  <2> QED BY <1>1, <2>3, <2>4
<1> QED BY <1>1, <1>2, <1>3

\* The first name: its end is the first, and it begins first.
FirstAt(first, k) ==
    /\ Named # {} /\ first = Min(Named)
    /\ k = Min({i \in DOMAIN Body : NameAt(Body, request.name, i) > 0
                                    /\ i + NameAt(Body, request.name, i) = first})

\* It is the one that the search meets first.
LEMMA FirstIs ==
    ASSUME request \in Requests, NEW first, NEW k, FirstAt(first, k)
    PROVE  FirstName(Body, request.name, k, first)
<1> DEFINE b == Body
           d == request.name
           l == Len(BeforeStar)
           S == {i \in DOMAIN b : NameAt(b, d, i) > 0}
           T == {i \in DOMAIN b : NameAt(b, d, i) > 0 /\ i + NameAt(b, d, i) = first}
<1>1. Looks(b, d, l) /\ b \in Seq(STRING) /\ Len(b) \in Nat /\ DOMAIN b = 1 .. Len(b)
  BY NameLooks DEF Looks
<1>2. Named = {i + NameAt(b, d, i) : i \in S} /\ first = Min(Named) /\ Named # {} /\ k = Min(T)
  BY DEF FirstAt, Named
<1> HIDE DEF b, d, l
<1>3. \A i \in 1 .. Len(b) : NameAt(b, d, i) \in Int
  <2> SUFFICES ASSUME NEW i \in 1 .. Len(b) PROVE NameAt(b, d, i) \in Int
    OBVIOUS
  <2>1. i \in Nat \ {0}
    BY <1>1
  <2> QED BY ONLY <1>1, <2>1, NameLength
<1>4. Named \in SUBSET Nat
  <2> SUFFICES ASSUME NEW i \in S PROVE i + NameAt(b, d, i) \in Nat
    BY <1>2
  <2>1. i \in 1 .. Len(b) /\ NameAt(b, d, i) > 0
    BY <1>1
  <2>2. PICK q \in Int : q = NameAt(b, d, i)
    BY <1>3, <2>1
  <2> HIDE DEF S
  <2> QED BY <1>1, <2>1, <2>2
<1>5. first \in Named /\ \A y \in Named : first =< y
  BY <1>2, <1>4, MinIn
<1>6. T # {} /\ T \in SUBSET Nat
  <2>1. PICK i \in S : first = i + NameAt(b, d, i)
    BY <1>2, <1>5
  <2> QED BY <1>1, <2>1
<1>7. k \in T /\ \A y \in T : k =< y
  <2> HIDE DEF T
  <2> QED BY <1>2, <1>6, MinIn
<1>8. ASSUME NEW i \in 1 .. Len(b), NameAt(b, d, i) > 0
      PROVE  i + NameAt(b, d, i) >= first /\ (i + NameAt(b, d, i) = first => i >= k)
  <2>1. i \in S /\ (i + NameAt(b, d, i) = first => i \in T)
    BY <1>1, <1>8
  <2>2. i + NameAt(b, d, i) \in Named
    BY <1>2, <2>1
  <2>3. first =< i + NameAt(b, d, i)
    BY <1>5, <2>2
  <2>4. i \in T => k =< i
    BY <1>7
  <2>5. first \in Nat /\ i + NameAt(b, d, i) \in Nat
    BY <1>4, <1>5, <2>2
  <2> HIDE DEF S, T
  <2> QED BY <2>1, <2>3, <2>4, <2>5
<1>9. k \in 1 .. Len(b) /\ NameAt(b, d, k) > 0 /\ k + NameAt(b, d, k) = first
  BY <1>1, <1>7
<1> HIDE DEF S, T
<1>10. FirstName(b, d, k, first)
  BY <1>8, <1>9 DEF FirstName
<1> QED BY <1>10 DEF b, d

\* The text before the first name does not look like it.
LEMMA RestartsNot ==
    ASSUME request \in Requests, NEW k \in 1 .. Len(Body), ~ Restarts(k),
           NEW p \in 1 .. k - 1, k - p =< Len(BeforeStar)
    PROVE  \E x \in 1 .. k - p : Body[p + x - 1] # request.name[x]
<1> DEFINE b == Body
           d == request.name
           l == Len(BeforeStar)
           s == SubSeq(b, p, k - 1)
           t == SubSeq(d, 1, l)
<1>1. Looks(b, d, l) /\ BeforeStar = t
  BY NameLooks
<1> HIDE DEF l
<1>2. b \in Seq(STRING) /\ Len(b) \in Nat /\ d \in Seq(STRING) /\ l \in 0 .. Len(d) /\ Len(d) \in Nat
  BY <1>1 DEF Looks
<1>3. ~ IsPrefix(s, t)
  <2>1. IsPrefix(s, t) => Restarts(k)
    BY <1>1 DEF Restarts
  <2> QED BY <2>1
<1> HIDE DEF b, d
<1>4. t \in Seq(STRING) /\ Len(t) = l /\ \A x \in 1 .. l : t[x] = d[x]
  BY <1>2, Beginning
<1>5. p \in Nat \ {0} /\ k \in Nat /\ p < k /\ k - 1 =< Len(b) /\ k - p =< l
  BY <1>2 DEF b, l
<1>6. s \in Seq(STRING) /\ Len(s) = k - p /\ \A x \in 1 .. k - p : s[x] = b[p + x - 1]
  <2>1. \A x \in p .. k - 1 : b[x] \in STRING
    <3>1. \A x \in 1 .. Len(b) : b[x] \in STRING
      BY <1>2, SeqIs
    <3> QED BY <1>2, <1>5, <3>1
  <2>2. /\ s \in Seq(STRING)
        /\ Len(s) = IF p =< k - 1 THEN (k - 1) - p + 1 ELSE 0
        /\ \A x \in 1 .. (k - 1) - p + 1 : s[x] = b[p + x - 1]
    <3>1. p \in Int /\ k - 1 \in Int
      BY <1>5
    <3> QED BY ONLY <2>1, <3>1, SubSeqProperties
  <2>3. p =< k - 1 /\ (k - 1) - p + 1 = k - p
    BY <1>5
  <2> HIDE DEF s
  <2> QED BY <2>2, <2>3
<1> HIDE DEF s, t
<1>7. ~ (Len(s) =< Len(t) /\ \A x \in 1 .. Len(s) : s[x] = t[x])
  BY <1>3, <1>4, <1>6, PrefixIs
<1>8. PICK x \in 1 .. k - p : s[x] # t[x]
  BY <1>4, <1>5, <1>6, <1>7
<1>9. s[x] = b[p + x - 1]
  BY <1>6
<1>10. t[x] = d[x]
  <2>1. x \in 1 .. l
    BY <1>2, <1>5
  <2> QED BY <1>4, <2>1
<1>11. b[p + x - 1] # d[x]
  BY <1>8, <1>9, <1>10
<1> QED BY <1>11 DEF b, d

\* What follows the star is met first as a whole.
LEMMA CommitsNot ==
    ASSUME request \in Requests, NEW k \in 1 .. Len(Body), ~ Commits(k),
           BeforeStar # <<>>, Star \in ToSet(request.name)
    PROVE  \E e : Directly(Body, request.name, Len(BeforeStar), k, e)
<1> DEFINE b == Body
           d == request.name
           l == Len(BeforeStar)
           at == {i \in k + l .. Len(b) : IsPrefix(<<b[i]>>, AfterStar)}
<1>1. Looks(b, d, l) /\ l < Len(d) /\ BeforeStar = SubSeq(d, 1, l)
  BY NameLooks
<1>2. AfterStar = SubSeq(d, l + 2, Len(d))
  BY DEF AfterStar
<1>3. at # {} /\ Min(at) \in Places(b, AfterStar, Min(at))
  BY DEF Commits
<1>4. k \in Nat \ {0}
  <2>1. Len(Body) \in Nat
    BY BodyIs
  <2> QED BY <2>1
<1>5. b \in Seq(STRING) /\ Len(b) \in Nat /\ d \in Seq(STRING) /\ l \in Nat /\ l < Len(d) /\ Len(d) \in Nat
  BY <1>1 DEF Looks
<1> HIDE DEF b, d, l
<1>6. l # 0
  <2>1. SubSeq(d, 1, l) \in Seq(STRING) /\ Len(SubSeq(d, 1, l)) = l
    BY ONLY <1>1, <1>4, PartsAt
  <2>2. BeforeStar \in Seq(STRING) /\ Len(BeforeStar) = l
    BY <1>1, <2>1, Zenon
  <2> QED BY <2>2
<1>7. AfterStar \in Seq(STRING) /\ Len(AfterStar) = Len(d) - l - 1
  BY ONLY <1>1, <1>2, <1>4, PartsAt
<1>8. at \in SUBSET Nat
  BY <1>4, <1>5
<1>9. PICK e : e = Min(at)
  OBVIOUS
<1>10. e \in at /\ \A y \in at : e =< y
  <2> HIDE DEF at
  <2> QED BY <1>3, <1>8, <1>9, MinIn
<1>11. e \in k + l .. Len(b) /\ e \in Nat \ {0} /\ IsPrefix(<<b[e]>>, AfterStar)
  BY <1>4, <1>5, <1>10
<1>12. \A i \in 1 .. Len(b) : b[i] \in STRING
  BY <1>5, SeqIs
<1>13. ASSUME NEW i \in 1 .. Len(b)
       PROVE  IsPrefix(<<b[i]>>, AfterStar) <=> 1 =< Len(AfterStar) /\ b[i] = AfterStar[1]
  <2>1. b[i] \in STRING
    BY <1>12
  <2>2. <<b[i]>> \in Seq(STRING) /\ Len(<<b[i]>>) = 1 /\ <<b[i]>>[1] = b[i]
    BY <2>1
  <2> DEFINE u == <<b[i]>>
  <2> HIDE DEF u
  <2>3. u \in Seq(STRING) /\ Len(u) = 1 /\ u[1] = b[i]
    BY <2>2 DEF u
  <2>4. IsPrefix(u, AfterStar) <=> Len(u) =< Len(AfterStar) /\ \A x \in 1 .. Len(u) : u[x] = AfterStar[x]
    BY ONLY <1>7, <2>3, PrefixIs
  <2>5. IsPrefix(u, AfterStar) <=> 1 =< Len(AfterStar) /\ b[i] = AfterStar[1]
    BY <1>7, <2>3, <2>4
  <2> QED BY <2>5 DEF u
<1>14. l + 1 < Len(d) /\ b[e] = AfterStar[1]
  <2>1. e \in 1 .. Len(b)
    BY <1>5, <1>11
  <2>2. 1 =< Len(AfterStar) /\ b[e] = AfterStar[1]
    BY <1>11, <1>13, <2>1
  <2>3. l + 1 < Len(d)
    BY <1>5, <1>7, <2>2
  <2> QED BY <2>2, <2>3
<1>15. RightAt(b, d, l, e)
  <2>1. e \in Places(b, AfterStar, e)
    BY <1>3, <1>9
  <2> HIDE DEF at
  <2> QED BY ONLY <1>1, <1>2, <1>11, <2>1, PartsAt
<1>16. AfterStar[1] = d[l + 2]
  <2>1. b[e + 1 - 1] = d[l + 1 + 1]
    <3>1. 1 \in 1 .. Len(d) - l - 1
      BY <1>5, <1>14
    <3> QED BY <1>15, <3>1 DEF RightAt
  <2>2. e + 1 - 1 = e /\ l + 1 + 1 = l + 2
    BY <1>5, <1>11
  <2> QED BY <1>14, <2>1, <2>2
<1>17. ASSUME NEW y \in k + l .. e - 1 PROVE b[y] # d[l + 2]
  <2>1. y \in k + l .. Len(b) /\ y \in 1 .. Len(b) /\ ~ (e =< y)
    BY <1>4, <1>5, <1>11
  <2>2. ~ IsPrefix(<<b[y]>>, AfterStar)
    BY <1>10, <2>1
  <2>3. 1 =< Len(AfterStar)
    BY <1>5, <1>7, <1>14
  <2> QED BY <1>13, <1>16, <2>1, <2>2, <2>3
<1> HIDE DEF at
<1>18. Directly(b, d, l, k, e)
  BY <1>5, <1>6, <1>11, <1>14, <1>15, <1>17 DEF Directly
<1> QED BY <1>18 DEF b, d, l

\* Without a boundary no value has a length.
LEMMA NothingBounds ==
    ASSUME request \in Requests, request.type \in Multipart, Boundary = <<>>,
           NEW k \in Nat \ {0}, k - 1 =< Len(CString(Body))
    PROVE  LengthAt(k) =< 0
<1> DEFINE t == CString(Body)
           at == Places(t, Closing, k)
<1>1. t \in Seq(STRING) /\ Len(t) \in Nat /\ k - 1 =< Len(t)
  <2>1. Body \in Seq(STRING)
    BY RequestsAssumption DEF Body, Text
  <2>2. CString(Body) \in Seq(STRING)
    BY <2>1, CStringSees
  <2> QED BY <2>2
<1>2. Closing = <<>>
  BY DEF Closing
<1>3. LengthAt(k) = IF at = {} THEN 0 ELSE Min(at) - k - 2
  BY DEF LengthAt
<1> HIDE DEF t
<1>4. <<>> \in Seq(STRING) /\ Len(<<>>) = 0
  OBVIOUS
<1>5. k \in at /\ at \in SUBSET Nat
  <2>1. at = Places(t, <<>>, k)
    BY <1>2
  <2>2. Sought(STRING, t, <<>>, k)
    BY <1>1, <1>4 DEF Sought
  <2>3. k \in at <=> k \in k .. Len(t) - 0 + 1 /\ \A j \in 1 .. 0 : t[k + j - 1] = <<>>[j]
    <3>1. k \in Places(t, <<>>, k) <=> /\ k \in k .. Len(t) - Len(<<>>) + 1
                                       /\ \A j \in 1 .. Len(<<>>) : t[k + j - 1] = <<>>[j]
      BY ONLY <2>2, SoughtIn
    <3> HIDE DEF at
    <3> QED BY <1>4, <2>1, <3>1
  <2>4. k \in k .. Len(t) - 0 + 1 /\ 1 .. 0 = {}
    BY <1>1
  <2>5. at \in SUBSET Nat
    <3>1. Sequence(t) /\ Sequence(<<>>)
      BY <1>1, <1>4 DEF Sequence
    <3>2. Places(t, <<>>, k) \in SUBSET Nat
      BY <3>1, PlacesAre
    <3> HIDE DEF at
    <3> QED BY <2>1, <3>2
  <2> QED BY <2>3, <2>4, <2>5
<1> HIDE DEF at
<1>6. Min(at) \in Nat /\ Min(at) =< k
  BY <1>5, MinIn
<1> QED BY <1>3, <1>5, <1>6

\* A name without a star that is nowhere in the body is not the one of a place.
LEMMA NameNowhere ==
    ASSUME request \in Requests, Places(Body, request.name, 1) = {},
           Star \notin ToSet(request.name), NEW k \in 1 .. Len(Body)
    PROVE  ~ (NameAt(Body, request.name, k) > 0)
<1> DEFINE b == Body
           d == request.name
           l == Len(BeforeStar)
<1>1. Looks(b, d, l) /\ ~ (l < Len(d))
  BY NameLooks
<1>2. Places(b, d, 1) = {}
  OBVIOUS
<1>3. Len(Body) \in Nat
  BY BodyIs
<1> HIDE DEF b, d, l
<1>4. b \in Seq(STRING) /\ d \in Seq(STRING) /\ Len(d) \in Nat /\ l = Len(d) /\ k \in Nat \ {0}
      /\ Len(b) \in Nat
  BY <1>1, <1>3 DEF Looks
<1>5. NameAt(b, d, k) = IF LeftAt(b, d, l, k) THEN l ELSE 0
  BY ONLY <1>1, <1>4, NameIs
<1>6. ASSUME LeftAt(b, d, l, k) PROVE FALSE
  <2>1. Sought(STRING, b, d, 1)
    BY <1>4 DEF Sought
  <2>2. k \in Places(b, d, 1) <=> /\ k \in 1 .. Len(b) - Len(d) + 1
                                  /\ \A j \in 1 .. Len(d) : b[k + j - 1] = d[j]
    BY ONLY <2>1, SoughtIn
  <2>3. k \in 1 .. Len(b) - Len(d) + 1
    BY <1>4, <1>6 DEF LeftAt
  <2>4. \A j \in 1 .. Len(d) : b[k + j - 1] = d[j]
    BY <1>4, <1>6 DEF LeftAt
  <2> QED BY <1>2, <2>2, <2>3, <2>4
<1>7. NameAt(b, d, k) = 0
  BY <1>5, <1>6
<1> QED BY <1>7 DEF b, d

\* The first value is found without a reason not to.
LEMMA FoundFirst ==
    ASSUME Seeking, stage \notin {"arrived", "search", "declined"},
           NEW first, NEW k, FirstAt(first, k), start # first
    PROVE  \/ Restarts(k) \/ Before(Nul, first) \/ Starred(first)
           \/ Star \in ToSet(request.name)
                /\ (request.type \notin Patterned \/ BeforeStar = <<>> \/ Commits(k))
           \/ LengthAt(first) <= 0 \/ IsEncryptData(ValueAt(first, LengthAt(first)))
<1> DEFINE b == Body
           d == request.name
           l == Len(BeforeStar)
<1> SUFFICES ASSUME ~ Restarts(k), ~ Before(Nul, first), ~ Starred(first),
                    Star \in ToSet(d) => /\ request.type \in Patterned
                                         /\ BeforeStar # <<>> /\ ~ Commits(k),
                    ~ (LengthAt(first) <= 0), ~ IsEncryptData(ValueAt(first, LengthAt(first)))
             PROVE  FALSE
  OBVIOUS
<1>1. request \in Requests /\ Looks(b, d, l) /\ (l < Len(d) <=> Star \in ToSet(d))
  BY NameLooks DEF Seeking
<1>2. FirstName(b, d, k, first)
  BY <1>1, FirstIs
<1>3. b \in Seq(STRING) /\ Len(b) \in Nat /\ Len(d) \in Nat /\ l \in 0 .. Len(d)
      /\ k \in 1 .. Len(b) /\ k \in Nat \ {0} /\ NameAt(b, d, k) > 0 /\ k + NameAt(b, d, k) = first
  <2> HIDE DEF b, d, l
  <2> QED BY <1>1, <1>2 DEF FirstName, Looks
<1>4. l < Len(d) => \E e : Directly(b, d, l, k, e)
  BY <1>1, <1>3, CommitsNot
<1>5. first \in Nat /\ first - 1 =< Len(b)
  <2> HIDE DEF b, d, l
  <2>1. CASE l = Len(d)
    <3>1. NameAt(b, d, k) = IF LeftAt(b, d, l, k) THEN l ELSE 0
      BY ONLY <1>1, <1>3, <2>1, NameIs
    <3>2. LeftAt(b, d, l, k) /\ first = k + l
      BY <1>3, <3>1
    <3> QED BY <1>3, <3>2 DEF LeftAt
  <2>2. CASE l < Len(d)
    <3>1. LeftAt(b, d, l, k) /\ \E e : FirstRight(b, d, l, k, e)
      BY ONLY <1>1, <1>3, <2>2, NameIs
    <3>2. PICK e : FirstRight(b, d, l, k, e)
      BY <3>1
    <3>3. NameAt(b, d, k) = e + Len(d) - l - 1 - k
      BY ONLY <1>1, <1>3, <2>2, <3>1, <3>2, NameIs
    <3>4. e \in Nat /\ e + (Len(d) - l - 1) - 1 =< Len(b)
      BY <1>3, <3>2 DEF FirstRight, RightAt
    <3>5. first = e + Len(d) - l - 1
      BY <1>3, <3>3, <3>4
    <3> QED BY <1>3, <2>2, <3>4, <3>5
  <2> QED BY <1>3, <2>1, <2>2
<1>6. Unstarred(b, d, l, first - 1)
  BY <1>1, <1>5, StarredIs
<1>7. \A y \in 1 .. first - 1 : b[y] # Nul
  BY <1>1, <1>5, BeforeIs
<1>8. \A p \in 1 .. k - 1 : k - p =< l => \E x \in 1 .. k - p : b[p + x - 1] # d[x]
  BY <1>1, <1>3, RestartsNot
<1> HIDE DEF b, d, l
<1>9. Plainly(b, d, l, k, first)
  BY <1>1, <1>2, <1>4, <1>6, <1>7, <1>8 DEF Plainly
<1>10. PICK r, n : Runs(b, d, r, n)
  BY <1>3, FoundRuns DEF Sequence
<1>11. Straight(b, d, l, k, first, r, n)
  BY <1>9, <1>10 DEF Straight
<1>12. Stage(findWildString(b, d), k, first - k, Len(d) + 1)
  BY <1>11, FoundStraight
<1>13. Finding.p = k /\ Place = first
  <2>1. Finding = findWildString(b, d)
    BY DEF b, d, Finding
  <2>2. Finding.p = k /\ Finding.plen = first - k
    BY <1>12, <2>1 DEF Stage
  <2>3. Place = k + (first - k)
    BY <2>2 DEF Place
  <2> QED BY <1>3, <1>5, <2>2, <2>3
<1>14. first - 1 =< n /\ n = Len(CString(b))
  BY <1>10, <1>11, StraightIs DEF Runs
<1>15. request.type \in Multipart => Boundary # <<>>
  <2> SUFFICES ASSUME request.type \in Multipart, Boundary = <<>> PROVE FALSE
    OBVIOUS
  <2>1. first \in Nat \ {0}
    <3>1. k \in Nat \ {0} /\ NameAt(b, d, k) > 0 /\ NameAt(b, d, k) \in Int
      BY <1>1, <1>3, NameLength
    <3> QED BY <1>3, <3>1
  <2>2. first - 1 =< Len(CString(Body))
    BY <1>14 DEF b
  <2> QED BY <1>1, <2>1, <2>2, NothingBounds
<1>16. LengthAt(first) > 0
  <2>1. LengthAt(first) \in Int
    BY <1>1, <1>5, LengthIs
  <2> QED BY <2>1
<1>17. Finds
  BY <1>3, <1>13, <1>15, <1>16 DEF Finds
<1>18. start # Place
  BY <1>13
<1>19. Places(Body, request.name, 1) = {} /\ (Star \notin ToSet(request.name) \/ request.type \notin Patterned)
  <2> HIDE DEF Finds, Place
  <2> QED BY <1>17, <1>18 DEF Seeking
<1>20. Star \notin ToSet(request.name)
  BY <1>19 DEF d
<1>21. ~ (NameAt(Body, request.name, k) > 0)
  BY <1>1, <1>3, <1>19, <1>20, NameNowhere DEF b
<1> QED BY <1>3, <1>21 DEF b, d

\* What is encrypted stands behind the name and is the first value that does,
\* but for the reasons that FoundExplained gives; so it holds of every search,
\* whatever the fields, their names and the bodies are.
THEOREM FoundCorrect == Spec => []FoundExplained
<1>1. Seeking => FoundExplained
  <2> SUFFICES ASSUME Seeking PROVE FoundExplained
    OBVIOUS
  <2>1. size > 0 => start \in Named \/ Before(Nul, start + 1) \/ Starred(start)
    BY FoundNamed
  <2>2. ASSUME stage \notin {"arrived", "search", "declined"}, Named # {}, start # Min(Named),
               NEW k, k = Min({i \in DOMAIN Body : NameAt(Body, request.name, i) > 0
                                        /\ i + NameAt(Body, request.name, i) = Min(Named)})
        PROVE  \/ Restarts(k) \/ Before(Nul, Min(Named)) \/ Starred(Min(Named))
               \/ Star \in ToSet(request.name)
                    /\ (request.type \notin Patterned \/ BeforeStar = <<>> \/ Commits(k))
               \/ LengthAt(Min(Named)) <= 0
               \/ IsEncryptData(ValueAt(Min(Named), LengthAt(Min(Named))))
    <3>1. FirstAt(Min(Named), k)
      BY <2>2 DEF FirstAt
    <3> QED BY ONLY Seeking, <2>2, <3>1, FoundFirst
  <2> QED BY <2>1, <2>2, Zenon DEF FoundExplained
<1> QED BY <1>1, SeekingAlways, PTL

===============================================================================
