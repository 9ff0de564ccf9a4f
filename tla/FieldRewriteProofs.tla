-------------------------- MODULE FieldRewriteProofs --------------------------
(***************************************************************************)
(* Proofs about FieldRewrite, for bodies, policies and numbers of runs of  *)
(* any size.  A step of the loop changes at most one value, the one at the *)
(* place the search found; ReplaceOne says so once for every action, and   *)
(* the invariants follow from what encryption does to that one value.      *)
(***************************************************************************)
EXTENDS FieldRewrite, SequenceLemmas

\* The search that is under way has a field and a place to look from; that of
\* a GET, which does not look first, finds something.
IInv == /\ TypeOK
        /\ original \in Seq(Clear)
        /\ form \in Seq(FieldPolicy)
        /\ spooled \in BOOLEAN /\ (spooled => method = "POST")
        /\ from \in Nat \ {0}
        /\ stage = "search" => field # 0
        /\ stage = "idle" => pass = 0
        /\ stage = "search" /\ method = "GET" => Occurrence(body, Field, 1) # 0

\* What can be given back, and that a prefix stands only before values whose
\* fields recognise it.
RecoverInv == /\ \A f \in ToSet(form) : PrefixKnown(original, f)
              /\ Recoverable

-------------------------------------------------------------------------------
(* Lemmas about the search and the replacement                              *)

\* What the search finds is a value of the body with a name of the field.
LEMMA OccurrenceNamed ==
    ASSUME NEW b \in Seq(Value), NEW f \in FieldPolicy, NEW n \in Nat \ {0},
           Occurrence(b, f, n) # 0
    PROVE /\ Occurrence(b, f, n) \in DOMAIN b
          /\ b[Occurrence(b, f, n)].name \in f.names
<1> DEFINE at == {i \in n .. Len(b) : b[i].name \in f.names}
<1>1. at # {} /\ Occurrence(b, f, n) = Min(at)
  BY DEF Occurrence
<1>2. at \in SUBSET Nat
  OBVIOUS
<1>3. Min(at) \in at
  BY <1>1, <1>2, MinIn
<1> QED BY <1>1, <1>3

\* Encryption keeps a value a value, with its name and prefix.
LEMMA SealedType ==
    ASSUME NEW v \in Value, NEW type \in Types
    PROVE /\ Sealed(v, type) \in Value
          /\ Sealed(v, type).name = v.name
          /\ Sealed(v, type).prefix = v.prefix
          /\ Sealed(v, type).layers = v.layers + 1
          /\ Sealed(v, type).data = SealedData(type, v.data)
<1>1. v.layers + 1 \in Nat /\ SealedSize(type, v.size) \in Nat
  BY DEF SealedSize, Value
<1>2. SealedData(type, v.data) \in Data
  <2>1. v.data \in Data /\ <<"head">> \in Data
    BY DEF Value, Data
  <2>2. <<"head">> \o v.data \in Data
    BY <2>1 DEF Data
  <2> QED BY <2>1, <2>2 DEF SealedData
<1> QED BY <1>1, <1>2 DEF Sealed, Value
-------------------------------------------------------------------------------
(* Types                                                                    *)

\* A value that is not encrypted yet is a value.
LEMMA ClearIsValue == Clear \subseteq Value
BY DEF Clear, Value

\* The body as it comes is of its type.
LEMMA InitType == ASSUME InputTypes, Init PROVE IInv
<1>1. original \in Seq(Clear) /\ form \in Seq(FieldPolicy)
  BY DEF Init, InputTypes
<1>2. original \in Seq(Value)
  BY <1>1, ClearIsValue
<1> QED BY <1>1, <1>2 DEF Init, IInv, TypeOK, InputTypes

\* Replacing one value by another with its name and prefix keeps the shape.
LEMMA ReplaceOne ==
    ASSUME IInv, NEW k \in DOMAIN body, NEW w \in Value,
           w.name = body[k].name, w.prefix = body[k].prefix,
           body' = [body EXCEPT ![k] = w], UNCHANGED <<method, original, spooled>>
    PROVE /\ body' \in Seq(Value)
          /\ Len(body') = (IF spooled' THEN 0 ELSE Len(original'))
          /\ \A i \in DOMAIN body' : /\ body'[i].name = original'[i].name
                                     /\ body'[i].prefix = original'[i].prefix
<1>1. body \in Seq(Value)
  BY DEF IInv, TypeOK
<1>2. body' \in Seq(Value) /\ Len(body') = Len(body)
  BY <1>1
<1>3. \A i \in DOMAIN body' : body'[i] = IF i = k THEN w ELSE body[i]
  BY <1>1
<1> QED BY <1>1, <1>2, <1>3 DEF IInv, TypeOK

\* What replaceGetBuf puts into the URL has the name and the prefix, too.
LEMMA SealedInUrlType ==
    ASSUME NEW b \in Seq(Value), NEW k \in DOMAIN b
    PROVE /\ SealedInUrl(b, k) \in Value
          /\ SealedInUrl(b, k).name = b[k].name
          /\ SealedInUrl(b, k).prefix = b[k].prefix
<1> DEFINE v == Sealed(b[k], "POSTURL")
           d == IF k = Len(b) THEN v.data \o <<"nul">> ELSE v.data
<1>1. b[k] \in Value /\ "POSTURL" \in Types
  BY DEF Types
<1>2. v \in Value /\ v.name = b[k].name /\ v.prefix = b[k].prefix
  BY <1>1, SealedType
<1>3. SealedInUrl(b, k) = [v EXCEPT !.data = d]
  BY DEF SealedInUrl
<1> HIDE DEF v
<1>4. v.data \in Data
  BY <1>2 DEF Value
<1>5. v.data \o <<"nul">> \in Data
  BY <1>4 DEF Data
<1>6. d \in Data
  BY <1>4, <1>5
<1> HIDE DEF d
<1> QED BY <1>2, <1>3, <1>6 DEF Value

\* It is encrypted once more.
LEMMA UrlLayers ==
    ASSUME NEW b \in Seq(Value), NEW k \in DOMAIN b
    PROVE  SealedInUrl(b, k).layers = b[k].layers + 1
<1> DEFINE v == Sealed(b[k], "POSTURL")
           d == IF k = Len(b) THEN v.data \o <<"nul">> ELSE v.data
<1>1. b[k] \in Value /\ "POSTURL" \in Types
  BY DEF Types
<1>2. v \in Value /\ v.layers = b[k].layers + 1
  BY <1>1, SealedType
<1>3. SealedInUrl(b, k) = [v EXCEPT !.data = d]
  BY DEF SealedInUrl
<1> HIDE DEF v, d
<1> QED BY <1>2, <1>3 DEF Value

\* The field under way is one of the policy.
LEMMA FieldInForm ==
    ASSUME IInv, stage = "search"
    PROVE Field \in FieldPolicy /\ Field.type \in Types
<1>1. form \in Seq(FieldPolicy) /\ field \in 1 .. Len(form)
  BY DEF IInv, TypeOK
<1>2. Field \in FieldPolicy
  BY <1>1 DEF Field
<1> QED BY <1>2 DEF FieldPolicy

\* Every replacement keeps the types.
LEMMA StepType == ASSUME InputTypes, IInv, [Next]_vars PROVE IInv'
<1> USE DEF IInv, TypeOK
<1>1. CASE GetBody
  BY <1>1 DEF GetBody, InputTypes
<1>2. CASE NextField
  <2>1. field' \in 1 .. Len(form) /\ form' = form
    BY <1>2 DEF NextField
  <2>2. stage' = "search" /\ method' = "GET" => Occurrence(body', Field', 1) # 0
    BY <1>2 DEF NextField, Wanted, Field
  <2> QED BY <1>2, <2>1, <2>2 DEF NextField
<1>3. CASE ReplaceBuf
  <2> DEFINE k == Occurrence(body, Field, from)
             w == Sealed(body[k], Field.type)
  <2>1. CASE stage' \in {"next", "dead"} /\ UNCHANGED <<body, from>>
    BY <1>3, <2>1 DEF ReplaceBuf
  <2>2. CASE k # 0 /\ body' = [body EXCEPT ![k] = w] /\ GoOn(k)
    <3>1. Field \in FieldPolicy /\ Field.type \in Types
      BY <1>3, FieldInForm DEF ReplaceBuf
    <3>2. k \in DOMAIN body
      BY <2>2, <3>1, OccurrenceNamed
    <3>3. w \in Value /\ w.name = body[k].name /\ w.prefix = body[k].prefix
      BY <3>1, <3>2, SealedType
    <3>4. UNCHANGED <<method, original, spooled, form, field, pass>> /\ method = "POST" /\ stage = "search"
      BY <1>3 DEF ReplaceBuf
    <3>5. /\ body' \in Seq(Value) /\ Len(body') = (IF spooled' THEN 0 ELSE Len(original'))
          /\ \A i \in DOMAIN body' : /\ body'[i].name = original'[i].name
                                     /\ body'[i].prefix = original'[i].prefix
      <4> HIDE DEF k, w
      <4> QED BY <2>2, <3>2, <3>3, <3>4, ReplaceOne
    <3>6. stage' \in {"next", "search"} /\ from' \in Nat \ {0}
      <4> HIDE DEF k, w
      <4> QED BY <2>2, <3>2, <3>4 DEF GoOn
    <3> QED BY <3>4, <3>5, <3>6
  <2> QED BY <1>3, <2>1, <2>2 DEF ReplaceBuf, StopAt
<1>4. CASE ReplaceGetBuf
  <2> DEFINE k == Occurrence(body, Field, 1)
  <2>1. k \in DOMAIN body
    BY <1>4, FieldInForm, OccurrenceNamed DEF ReplaceGetBuf
  <2>2. /\ stage' = "next"
        /\ UNCHANGED <<method, original, spooled, form, field, from, pass>>
    BY <1>4 DEF ReplaceGetBuf
  <2>3. CASE UNCHANGED body
    BY <2>2, <2>3
  <2>4. CASE body' = [body EXCEPT ![k] = SealedInUrl(body, k)]
    <3>1. /\ SealedInUrl(body, k) \in Value
          /\ SealedInUrl(body, k).name = body[k].name
          /\ SealedInUrl(body, k).prefix = body[k].prefix
      BY <2>1, SealedInUrlType
    <3>2. /\ body' \in Seq(Value) /\ Len(body') = (IF spooled' THEN 0 ELSE Len(original'))
          /\ \A i \in DOMAIN body' : /\ body'[i].name = original'[i].name
                                     /\ body'[i].prefix = original'[i].prefix
      <4> HIDE DEF k
      <4> QED BY <2>1, <2>2, <2>4, <3>1, ReplaceOne
    <3> QED BY <2>2, <3>2
  <2> QED BY <1>4, <2>3, <2>4 DEF ReplaceGetBuf
<1>5. CASE Finish
  BY <1>5 DEF Finish
<1>6. CASE UNCHANGED vars
  BY <1>6 DEF vars, Field
<1> QED BY <1>1, <1>2, <1>3, <1>4, <1>5, <1>6 DEF Next

\* For every request and policy the values keep their names, order and
\* prefixes through replaceBuf and replaceGetBuf, whatever they are replaced by.
THEOREM TypeCorrect == InputTypes => (Spec => []TypeOK)
<1> SUFFICES ASSUME InputTypes PROVE Spec => []TypeOK
  OBVIOUS
<1>1. Init => IInv
  BY InitType
<1>2. IInv /\ [Next]_vars => IInv'
  BY StepType
<1>3. IInv => TypeOK
  BY DEF IInv
<1> QED BY <1>1, <1>2, <1>3, PTL DEF Spec
-------------------------------------------------------------------------------
(* What the response filter can give back                                   *)

\* The body as it comes has the data of the client.
LEMMA InitRecover == ASSUME InputTypes, Init PROVE RecoverInv
<1>1. /\ \A f \in ToSet(form) : PrefixKnown(original, f)
      /\ original \in Seq(Clear) /\ method \in {"POST", "GET"}
      /\ ~ spooled => body = original
  BY DEF Init, InputTypes
<1>2. ASSUME NEW k \in DOMAIN original, ~ spooled, method = "GET"
      PROVE  body[k].data = original[k].data \o Behind(IF k = Len(original) THEN body[k].layers ELSE 0)
  <2>1. original[k] \in Clear
    BY <1>1
  <2>2. body[k].layers = 0 /\ body[k].data = original[k].data /\ original[k].data \in Data
    BY <1>1, <1>2, <2>1 DEF Clear
  <2>3. Behind(0) = <<>>
    BY DEF Behind
  <2>4. original[k].data \o <<>> = original[k].data
    BY <2>2 DEF Data
  <2> QED BY <2>2, <2>3, <2>4
<1> QED BY <1>1, <1>2 DEF RecoverInv, Recoverable

\* What one encryption more puts behind.
LEMMA BehindMore ==
    ASSUME NEW d \in Data, NEW n \in Nat
    PROVE  (d \o Behind(n)) \o <<"nul">> = d \o Behind(n + 1)
<1> DEFINE S == Bytes \cup {"head", "nul"}
<1>1. d \in Seq(S) /\ Behind(n) \in Seq(S) /\ Behind(n + 1) \in Seq(S)
  BY DEF Behind, Data
<1>2. Behind(n + 1) = Append(Behind(n), "nul")
  BY DEF Behind
<1>3. "nul" \in S
  OBVIOUS
<1> HIDE DEF S
<1>4. <<"nul">> \in Seq(S)
  BY <1>3
<1>5. Behind(n) \o <<"nul">> = Append(Behind(n), "nul")
  BY <1>1, <1>3
<1>6. (d \o Behind(n)) \o <<"nul">> = d \o (Behind(n) \o <<"nul">>)
  BY <1>1, <1>4, ConcatAssociative
<1> QED BY <1>2, <1>5, <1>6

\* A step that encrypts a posted value: which one, and what becomes of it.
LEMMA PostStep ==
    ASSUME IInv, ReplaceBuf, ~ UNCHANGED body
    PROVE \E k \in DOMAIN body, w \in Value :
            /\ UNCHANGED <<method, original, spooled, form>> /\ method = "POST"
            /\ body' = [body EXCEPT ![k] = w]
            /\ Field \in ToSet(form) /\ body[k].name \in Field.names
            /\ ~ IsEncryptData(body[k])
            /\ w.layers = body[k].layers + 1 /\ w.prefix = body[k].prefix
            /\ w.data = SealedData(Field.type, body[k].data) /\ w.name = body[k].name
<1> DEFINE k == Occurrence(body, Field, from)
           w == Sealed(body[k], Field.type)
<1>1. /\ UNCHANGED <<method, original, spooled, form>> /\ stage = "search" /\ method = "POST"
      /\ k # 0 /\ ~ IsEncryptData(body[k])
      /\ body' = [body EXCEPT ![k] = w]
  BY DEF ReplaceBuf, StopAt
<1>2. Field \in FieldPolicy /\ Field.type \in Types
  BY <1>1, FieldInForm
<1>3. Field \in ToSet(form)
  <2>1. field \in DOMAIN form
    BY <1>1 DEF IInv, TypeOK
  <2> QED BY <2>1 DEF Field, ToSet
<1>4. body \in Seq(Value) /\ from \in Nat \ {0}
  BY DEF IInv, TypeOK
<1>5. k \in DOMAIN body /\ body[k].name \in Field.names
  BY <1>1, <1>2, <1>4, OccurrenceNamed
<1>6. body[k] \in Value
  BY <1>4, <1>5
<1>7. /\ w \in Value /\ w.layers = body[k].layers + 1 /\ w.prefix = body[k].prefix
      /\ w.name = body[k].name /\ w.data = SealedData(Field.type, body[k].data)
  BY <1>2, <1>6, SealedType
<1> HIDE DEF k, w
<1> QED BY <1>1, <1>3, <1>5, <1>7

\* A step that encrypts a parameter of a URL.
LEMMA GetStep ==
    ASSUME IInv, ReplaceGetBuf, ~ UNCHANGED body
    PROVE \E k \in DOMAIN body, w \in Value :
            /\ UNCHANGED <<method, original, spooled, form>> /\ method = "GET"
            /\ body' = [body EXCEPT ![k] = w]
            /\ w.layers = body[k].layers + 1
            /\ w.data = IF k = Len(body) THEN body[k].data \o <<"nul">> ELSE body[k].data
<1> DEFINE k == Occurrence(body, Field, 1)
           w == SealedInUrl(body, k)
           v == Sealed(body[k], "POSTURL")
<1>1. /\ UNCHANGED <<method, original, spooled, form>> /\ stage = "search" /\ method = "GET"
      /\ body' = [body EXCEPT ![k] = w]
  BY DEF ReplaceGetBuf
<1>2. Field \in FieldPolicy
  BY <1>1, FieldInForm
<1>3. body \in Seq(Value) /\ k # 0
  BY <1>1 DEF IInv, TypeOK
<1>4. k \in DOMAIN body
  BY <1>2, <1>3, OccurrenceNamed
<1>5. body[k] \in Value /\ "POSTURL" \in Types
  BY <1>3, <1>4 DEF Types
<1>6. w \in Value /\ w.layers = body[k].layers + 1
  BY <1>3, <1>4, SealedInUrlType, UrlLayers
<1>7. v \in Value /\ v.data = body[k].data
  BY <1>5, SealedType DEF SealedData
<1>8. w = [v EXCEPT !.data = IF k = Len(body) THEN v.data \o <<"nul">> ELSE v.data]
  <2> HIDE DEF k
  <2> QED BY DEF SealedInUrl
<1> HIDE DEF v, k, w
<1>9. w.data = IF k = Len(body) THEN body[k].data \o <<"nul">> ELSE body[k].data
  BY <1>7, <1>8 DEF Value
<1> QED BY <1>1, <1>4, <1>6, <1>9

\* Where one value changes, only what becomes of that one has to be looked at.
RecoversAt(k) ==
    LET v == body[k]
        data == original[k].data
    IN \/ spooled
       \/ /\ method = "GET"
          /\ v.data = data \o Behind(IF k = Len(original) THEN v.layers ELSE 0)
       \/ /\ method = "POST"
          /\ \/ v.data = data
             \/ /\ v.data = <<"head">> \o data /\ v.layers = 1
                /\ \E f \in ToSet(form) : f.type = "URLJSON" /\ v.name \in f.names

\* So the invariant speaks of one place at a time.
LEMMA RecoverOne ==
    ASSUME IInv, RecoverInv, NEW k \in DOMAIN body, NEW w \in Value,
           UNCHANGED <<method, original, spooled, form>>,
           body' = [body EXCEPT ![k] = w], RecoversAt(k)'
    PROVE  RecoverInv'
<1>1. body \in Seq(Value)
  BY DEF IInv, TypeOK
<1>2. \A i \in DOMAIN body : i # k => body'[i] = body[i]
  BY <1>1
<1>3. DOMAIN original = DOMAIN body \/ spooled
  BY <1>1, ClearIsValue DEF IInv, TypeOK
<1>4. ASSUME NEW i \in DOMAIN original PROVE RecoversAt(i)'
  <2>1. CASE spooled
    BY <2>1 DEF RecoversAt
  <2>2. CASE i = k
    BY <2>2
  <2>3. CASE ~ spooled /\ i # k
    <3>1. RecoversAt(i)
      BY DEF RecoverInv, Recoverable, RecoversAt
    <3>2. body'[i] = body[i]
      BY <1>2, <1>3, <2>3
    <3> QED BY <3>1, <3>2 DEF RecoversAt
  <2> QED BY <2>1, <2>2, <2>3
<1>5. Recoverable'
  BY <1>4 DEF RecoversAt, Recoverable
<1> QED BY <1>5 DEF RecoverInv

\* Each replacement does to the data what its type and place do, once.
LEMMA StepRecover ==
    ASSUME IInv, RecoverInv, [Next]_vars
    PROVE RecoverInv'
<1>0. body \in Seq(Value) /\ original \in Seq(Value)
  BY ClearIsValue DEF IInv, TypeOK
<1>1. CASE UNCHANGED <<method, original, spooled, form, body>>
  BY <1>1 DEF RecoverInv, Recoverable
<1>2. CASE ReplaceBuf /\ ~ UNCHANGED body
  <2>1. PICK k \in DOMAIN body, w \in Value :
            /\ UNCHANGED <<method, original, spooled, form>> /\ method = "POST"
            /\ body' = [body EXCEPT ![k] = w]
            /\ Field \in ToSet(form) /\ body[k].name \in Field.names
            /\ ~ IsEncryptData(body[k])
            /\ w.layers = body[k].layers + 1 /\ w.prefix = body[k].prefix
            /\ w.data = SealedData(Field.type, body[k].data) /\ w.name = body[k].name
    BY <1>2, PostStep
  <2>2. /\ body[k] \in Value /\ body'[k] = w /\ k \in DOMAIN original /\ ~ spooled
        /\ original[k].name = body[k].name /\ original[k].prefix = body[k].prefix
        /\ original[k] \in ToSet(original)
    <3>1. ~ spooled /\ k \in DOMAIN original
      BY <1>0 DEF IInv, TypeOK
    <3> QED BY <1>0, <2>1, <3>1 DEF IInv, TypeOK, ToSet
  <2>3. ASSUME NEW f \in ToSet(form), f.type = "URLJSON", body[k].name \in f.names
        PROVE  body[k].layers = 0
    <3>1. PrefixKnown(original, f)
      BY DEF RecoverInv
    <3>2. ~ body[k].prefix
      BY <2>2, <2>3, <3>1 DEF PrefixKnown, Multipart
    <3>3. body[k].layers \in Nat
      BY <2>2 DEF Value
    <3> QED BY <2>1, <3>2, <3>3 DEF IsEncryptData
  <2>4. body[k].data = original[k].data
    <3>1. RecoversAt(k)
      BY <2>2 DEF RecoverInv, Recoverable, RecoversAt
    <3> QED BY <2>1, <2>2, <2>3, <3>1 DEF RecoversAt
  <2>5. RecoversAt(k)'
    <3>1. CASE Field.type = "URLJSON"
      <4>1. w.data = <<"head">> \o original[k].data
        BY <2>1, <2>4, <3>1 DEF SealedData
      <4>2. w.layers = 1
        BY <2>1, <2>3, <3>1
      <4>3. \E f \in ToSet(form) : f.type = "URLJSON" /\ w.name \in f.names
        BY <2>1, <3>1
      <4> QED BY <2>1, <2>2, <4>1, <4>2, <4>3 DEF RecoversAt
    <3>2. CASE Field.type # "URLJSON"
      <4>1. w.data = original[k].data
        BY <2>1, <2>4, <3>2 DEF SealedData
      <4> QED BY <2>1, <2>2, <4>1 DEF RecoversAt
    <3> QED BY <3>1, <3>2
  <2> QED BY <2>1, <2>5, RecoverOne
<1>3. CASE ReplaceGetBuf /\ ~ UNCHANGED body
  <2>1. PICK k \in DOMAIN body, w \in Value :
            /\ UNCHANGED <<method, original, spooled, form>> /\ method = "GET"
            /\ body' = [body EXCEPT ![k] = w]
            /\ w.layers = body[k].layers + 1
            /\ w.data = IF k = Len(body) THEN body[k].data \o <<"nul">> ELSE body[k].data
    BY <1>3, GetStep
  <2>2. ~ spooled /\ Len(body) = Len(original) /\ k \in DOMAIN original
    BY <1>0, <2>1 DEF IInv, TypeOK
  <2>3. body[k] \in Value /\ original[k] \in Value /\ body'[k] = w
    BY <1>0, <2>1, <2>2
  <2>4. PICK n \in Nat : n = body[k].layers
    BY <2>3 DEF Value
  <2>5. original[k].data \in Data
    BY <2>3 DEF Value
  <2>6. body[k].data = original[k].data \o Behind(IF k = Len(original) THEN n ELSE 0)
    <3>1. RecoversAt(k)
      BY <2>2 DEF RecoverInv, Recoverable, RecoversAt
    <3> QED BY <2>1, <2>2, <2>4, <3>1 DEF RecoversAt
  <2>7. w.data = original[k].data \o Behind(IF k = Len(original) THEN w.layers ELSE 0)
    <3>1. CASE k = Len(original)
      <4>1. w.data = (original[k].data \o Behind(n)) \o <<"nul">>
        BY <2>1, <2>2, <2>6, <3>1
      <4> QED BY <2>1, <2>4, <2>5, <3>1, <4>1, BehindMore
    <3>2. CASE k # Len(original)
      BY <2>1, <2>2, <2>6, <3>2
    <3> QED BY <3>1, <3>2
  <2>8. RecoversAt(k)'
    BY <2>1, <2>3, <2>7 DEF RecoversAt
  <2> QED BY <2>1, <2>8, RecoverOne
<1>4. UNCHANGED <<method, original, spooled, form>>
  BY DEF Next, GetBody, NextField, ReplaceBuf, ReplaceGetBuf, Finish, vars
<1> QED BY <1>1, <1>2, <1>3, <1>4 DEF Next, GetBody, NextField, Finish, vars

\* For any request, policy and number of runs: what has been lost of the client's data
\* is what a field of type URLJSON puts in front, once, and what each encryption of
\* the value that ends a URL puts behind it; and all of a body in a file.
THEOREM RecoverableCorrect == InputTypes => (Spec => []Recoverable)
<1> SUFFICES ASSUME InputTypes PROVE Spec => []Recoverable
  OBVIOUS
<1>1. Init => IInv /\ RecoverInv
  BY InitType, InitRecover
<1>2. IInv /\ RecoverInv /\ [Next]_vars => IInv' /\ RecoverInv'
  BY StepType, StepRecover
<1>3. RecoverInv => Recoverable
  BY DEF RecoverInv
<1> QED BY <1>1, <1>2, <1>3, PTL DEF Spec
-------------------------------------------------------------------------------
(* Nothing is encrypted twice                                               *)

\* No value is encrypted twice before the rewriting begins.
LEMMA InitOnce == ASSUME InputTypes, Init PROVE EncryptedOnce
<1>1. body \in Seq(Clear)
  <2>1. original \in Seq(Clear)
    BY DEF Init, InputTypes
  <2> QED BY <2>1 DEF Init
<1>2. ASSUME NEW k \in DOMAIN body PROVE body[k].layers <= 1
  <2>1. body[k] \in Clear
    BY <1>1
  <2> QED BY <2>1 DEF Clear
<1> QED BY <1>2 DEF EncryptedOnce

\* A replacement encrypts no value that is encrypted already.
LEMMA StepOnce == ASSUME IInv, EncryptedOnce, [Next]_vars PROVE EncryptedOnce'
<1>1. CASE UNCHANGED <<method, body>>
  BY <1>1 DEF EncryptedOnce
<1>2. CASE ReplaceBuf /\ ~ UNCHANGED body
  <2>1. PICK k \in DOMAIN body, w \in Value :
            /\ UNCHANGED method /\ method = "POST"
            /\ body' = [body EXCEPT ![k] = w]
            /\ ~ IsEncryptData(body[k])
            /\ w.layers = body[k].layers + 1 /\ w.prefix = body[k].prefix
    BY <1>2, PostStep
  <2>2. body \in Seq(Value) /\ body[k] \in Value
    BY DEF IInv, TypeOK
  <2>3. /\ DOMAIN body' = DOMAIN body
        /\ \A i \in DOMAIN body' : body'[i] = IF i = k THEN w ELSE body[i]
    BY <2>1, <2>2
  <2>4. ~ w.prefix => w.layers <= 1
    <3>1. body[k].layers \in Nat
      BY <2>2 DEF Value
    <3> QED BY <2>1, <3>1 DEF IsEncryptData
  <2> QED BY <2>1, <2>3, <2>4 DEF EncryptedOnce
<1>3. CASE ReplaceGetBuf
  BY <1>3 DEF ReplaceGetBuf, EncryptedOnce
<1> QED BY <1>1, <1>2, <1>3 DEF Next, GetBody, NextField, ReplaceBuf, Finish, vars

\* However often the handler runs over a posted body, and whatever the fields of
\* the policy, no value that is recognised as encrypted is encrypted again.
THEOREM OnceCorrect == InputTypes => (Spec => []EncryptedOnce)
<1> SUFFICES ASSUME InputTypes PROVE Spec => []EncryptedOnce
  OBVIOUS
<1>1. Init => IInv /\ EncryptedOnce
  BY InitType, InitOnce
<1>2. IInv /\ EncryptedOnce /\ [Next]_vars => IInv' /\ EncryptedOnce'
  BY StepType, StepOnce
<1> QED BY <1>1, <1>2, PTL DEF Spec
-------------------------------------------------------------------------------
(* The lengths                                                              *)

\* What a value adds to the length of its body.
Weight(v) == v.size + (IF v.prefix THEN PrefixSize ELSE 0)

\* The length of a body, added up from its first value to its last.
LEMMA SizeSteps ==
    ASSUME NEW b \in Seq(Value)
    PROVE  \E r \in [0 .. Len(b) -> Nat] :
             /\ r[0] = 0
             /\ \A m \in 1 .. Len(b) : r[m] = r[m - 1] + Weight(b[m])
             /\ Size(b) = r[Len(b)]
<1> DEFINE n == Len(b)
           F(it) == [s \in SUBSET DOMAIN b |->
                       IF s = {} THEN 0
                       ELSE it[s \ {Max(s)}] + b[Max(s)].size
                              + (IF b[Max(s)].prefix THEN PrefixSize ELSE 0)]
           step == [p \in Nat \X (1 .. n) |-> p[1] + Weight(b[p[2]])]
<1>1. n \in Nat /\ DOMAIN b = 1 .. n
  OBVIOUS
<1>2. \A i \in 1 .. n : Weight(b[i]) \in Nat
  <2> SUFFICES ASSUME NEW i \in 1 .. n PROVE Weight(b[i]) \in Nat
    OBVIOUS
  <2>1. b[i] \in Value
    OBVIOUS
  <2>2. b[i].size \in Nat
    BY <2>1 DEF Value
  <2> QED BY <2>2 DEF Weight, PrefixSize
<1>3. step \in [Nat \X (1 .. n) -> Nat]
  <2> HIDE DEF n
  <2> QED BY <1>2
<1>4. ASSUME NEW a \in Nat, NEW i \in 1 .. n
      PROVE  a + b[i].size + (IF b[i].prefix THEN PrefixSize ELSE 0) = step[<<a, i>>]
  <2>1. b[i] \in Value
    OBVIOUS
  <2>2. b[i].size \in Nat
    BY <2>1 DEF Value
  <2>3. step[<<a, i>>] = a + Weight(b[i])
    OBVIOUS
  <2> HIDE DEF step, n
  <2> QED BY <2>2, <2>3 DEF Weight, PrefixSize
<1>5. ASSUME NEW s \in SUBSET (1 .. n), s # {} PROVE Max(s) \in 1 .. n
  <2>1. s \in SUBSET Nat /\ \A x \in s : x =< n
    BY <1>1
  <2>2. Max(s) \in s
    BY <1>1, <1>5, <2>1, MaxIn
  <2> QED BY <2>2
<1>6. Size(b) = (CHOOSE it : it = F(it))[DOMAIN b]
  BY Zenon DEF Size, FoldLeft, MapThenFoldSet
<1>7. \E it : it = F(it)
  <2> HIDE DEF step, n
  <2>1. 0 \in Nat /\ n \in Nat /\ step \in Steps(Nat, n)
    BY <1>1, <1>3 DEF Steps
  <2>2. PICK it : Unrolled(it, Nat, 0, n, step)
    BY <2>1, FoldExists
  <2>3. ASSUME NEW s \in SUBSET (1 .. n)
        PROVE  it[s] = IF s = {} THEN 0
                       ELSE it[s \ {Max(s)}] + b[Max(s)].size
                              + (IF b[Max(s)].prefix THEN PrefixSize ELSE 0)
    <3>1. CASE s = {}
      BY <2>2, <3>1 DEF FoldAt, Unrolled
    <3>2. CASE s # {}
      <4>1. it[s \ {Max(s)}] \in Nat
        BY <2>2 DEF Unrolled
      <4>2. it[s] = step[<<it[s \ {Max(s)}], Max(s)>>]
        BY <2>2, <3>2 DEF FoldAt, Unrolled
      <4> QED BY <1>4, <1>5, <3>2, <4>1, <4>2
    <3> QED BY <3>1, <3>2
  <2>4. it = F(it)
    BY <1>1, <2>2, <2>3 DEF Unrolled
  <2> HIDE DEF F
  <2> QED BY <2>4
<1>8. PICK it : it = F(it) /\ Size(b) = it[DOMAIN b]
  <2> HIDE DEF F
  <2> QED BY <1>6, <1>7, Zenon
<1>9. it[{}] = 0
  <2>1. {} \in SUBSET DOMAIN b
    OBVIOUS
  <2> HIDE DEF n, step
  <2> QED BY <1>8, <2>1
<1>10. ASSUME NEW s \in SUBSET (1 .. n), s # {}, it[s \ {Max(s)}] \in Nat
       PROVE  it[s] = step[<<it[s \ {Max(s)}], Max(s)>>]
  <2> HIDE DEF n, step
  <2>1. it[s] = it[s \ {Max(s)}] + b[Max(s)].size
                  + (IF b[Max(s)].prefix THEN PrefixSize ELSE 0)
    BY <1>1, <1>8, <1>10
  <2> HIDE DEF F
  <2> QED BY <1>4, <1>5, <1>10, <2>1
<1> HIDE DEF n, F, step
<1>11. PICK r : Accumulates(r, Nat, 0, n, step) /\ it[1 .. n] = r[n]
  <2>1. 0 \in Nat /\ n \in Nat /\ step \in Steps(Nat, n)
    BY <1>1, <1>3 DEF Steps
  <2>2. Unrolls(it, Nat, 0, n, step)
    BY <1>9, <1>10 DEF Unrolls
  <2>3. Sums(it, Nat, 0, n, step)
    BY <2>1, <2>2, FoldSteps
  <2> QED BY <2>3 DEF Sums
<1>12. \A m \in 1 .. n : r[m] = r[m - 1] + Weight(b[m])
  <2> SUFFICES ASSUME NEW m \in 1 .. n PROVE r[m] = r[m - 1] + Weight(b[m])
    OBVIOUS
  <2>1. r[m - 1] \in Nat
    BY <1>1, <1>11 DEF Accumulates
  <2>2. step[<<r[m - 1], m>>] = r[m - 1] + Weight(b[m])
    BY <2>1 DEF step
  <2> QED BY <1>11, <2>2 DEF Accumulates
<1> QED BY <1>1, <1>8, <1>11, <1>12 DEF n, Accumulates

\* What a body loses or gains when one of its values is replaced.
LEMMA SizeReplaced ==
    ASSUME NEW b \in Seq(Value), NEW k \in DOMAIN b, NEW w \in Value, w.prefix = b[k].prefix
    PROVE  /\ Size(b) \in Nat
           /\ Size([b EXCEPT ![k] = w]) = Size(b) + w.size - b[k].size
<1> DEFINE n == Len(b)
           c == [b EXCEPT ![k] = w]
           gain == w.size - b[k].size
<1>1. n \in Nat /\ k \in 1 .. n /\ DOMAIN b = 1 .. n
  OBVIOUS
<1>2. c \in Seq(Value) /\ Len(c) = n /\ \A m \in 1 .. n : c[m] = IF m = k THEN w ELSE b[m]
  OBVIOUS
<1>3. PICK r \in [0 .. n -> Nat] : /\ r[0] = 0
                                   /\ \A m \in 1 .. n : r[m] = r[m - 1] + Weight(b[m])
                                   /\ Size(b) = r[n]
  BY SizeSteps
<1>4. PICK t \in [0 .. n -> Nat] : /\ t[0] = 0
                                   /\ \A m \in 1 .. n : t[m] = t[m - 1] + Weight(c[m])
                                   /\ Size(c) = t[n]
  <2> HIDE DEF c, n
  <2> QED BY <1>2, SizeSteps
<1>5. gain \in Int /\ Weight(w) = Weight(b[k]) + gain /\ \A m \in 1 .. n : Weight(b[m]) \in Nat
  <2>1. \A m \in 1 .. n : b[m] \in Value
    OBVIOUS
  <2>2. w.size \in Nat /\ \A m \in 1 .. n : b[m].size \in Nat
    BY <2>1 DEF Value
  <2> QED BY <1>1, <2>2 DEF Weight, PrefixSize
<1> HIDE DEF c, n, gain
<1> DEFINE Apart == {m \in Nat : m =< n => t[m] = r[m] + IF k =< m THEN gain ELSE 0}
<1>6. 0 \in Apart
  BY <1>1, <1>3, <1>4
<1>7. ASSUME NEW m \in Nat, m \in Apart PROVE m + 1 \in Apart
  <2> SUFFICES ASSUME m + 1 =< n
               PROVE  t[m + 1] = r[m + 1] + IF k =< m + 1 THEN gain ELSE 0
    OBVIOUS
  <2>1. m + 1 \in 1 .. n /\ (m + 1) - 1 = m /\ m \in 0 .. n
    BY <1>1
  <2>2. t[m] = r[m] + IF k =< m THEN gain ELSE 0
    BY <1>1, <1>7
  <2>3. r[m + 1] = r[m] + Weight(b[m + 1]) /\ t[m + 1] = t[m] + Weight(c[m + 1])
    BY <1>3, <1>4, <2>1
  <2>4. c[m + 1] = IF m + 1 = k THEN w ELSE b[m + 1]
    BY <1>2, <2>1
  <2>5. r[m] \in Nat /\ t[m] \in Nat /\ Weight(b[m + 1]) \in Nat /\ k \in Nat
    <3>1. r[m] \in Nat /\ t[m] \in Nat
      BY <2>1
    <3>2. Weight(b[m + 1]) \in Nat
      BY <1>5, <2>1
    <3> QED BY <1>1, <3>1, <3>2
  <2>6. CASE m + 1 = k
    BY <1>5, <2>2, <2>3, <2>4, <2>5, <2>6
  <2>7. CASE m + 1 # k
    <3>1. c[m + 1] = b[m + 1] /\ (k =< m + 1 <=> k =< m)
      BY <2>4, <2>5, <2>7
    <3> QED BY <1>5, <2>2, <2>3, <2>5, <3>1
  <2> QED BY <2>6, <2>7
<1>8. n \in Apart
  <2> HIDE DEF Apart
  <2> QED BY <1>1, <1>6, <1>7, Induction
<1>9. Size(c) = Size(b) + gain /\ Size(b) \in Nat
  BY <1>1, <1>3, <1>4, <1>5, <1>8
<1>10. w.size \in Nat /\ b[k].size \in Nat
  <2>1. b[k] \in Value
    OBVIOUS
  <2> QED BY <2>1 DEF Value
<1> QED BY <1>9, <1>10 DEF c, gain

\* Between two runs the header has the length of the body, unless that is in a
\* file still; during one, the length that replaceBuf passes on is that of the body.
LengthInv ==
    method = "POST" =>
      /\ stage = "idle" => content_length = Size(body) \/ (body = <<>> /\ content_length \in Nat)
      /\ stage = "done" => content_length = Size(body)
      /\ stage \in {"next", "search"} => body_len = Size(body)

\* GetBody takes the lesser of two lengths that are the same.
LEMMA LeastOfOne == ASSUME NEW n \in Nat PROVE Min({n, n}) = n
<1>1. {n, n} \in SUBSET Nat /\ {n, n} # {}
  OBVIOUS
<1>2. Min({n, n}) \in {n, n}
  BY <1>1, MinIn
<1> QED BY <1>2

\* The length of a body is a number.
LEMMA SizeIn == ASSUME NEW b \in Seq(Value) PROVE Size(b) \in Nat
<1>1. Len(b) \in Nat
  OBVIOUS
<1> QED BY <1>1, SizeSteps

\* Nothing has no length.
LEMMA SizeNothing == Size(<<>>) = 0
<1>1. <<>> \in Seq(Value) /\ Len(<<>>) = 0
  OBVIOUS
<1> QED BY <1>1, SizeSteps

\* Whatever the header says, a body in a file has nothing to copy.
LEMMA LeastOfNone == ASSUME NEW n \in Nat PROVE Min({n, 0}) = 0
<1>1. {n, 0} \in SUBSET Nat /\ {n, 0} # {}
  OBVIOUS
<1>2. Min({n, 0}) \in {n, 0} /\ Min({n, 0}) =< 0
  BY <1>1, MinIn
<1> QED BY <1>2

\* The length of the body as it comes is in the header.
LEMMA InitLength == ASSUME InputTypes, Init PROVE LengthInv
<1>1. original \in Seq(Value)
  BY ClearIsValue DEF Init, InputTypes
<1>2. content_length \in Nat /\ content_length = Size(original)
  BY <1>1, SizeIn DEF Init
<1> QED BY <1>2 DEF Init, LengthInv

\* Every replacement counts what it adds.
LEMMA StepLength == ASSUME IInv, LengthInv, [Next]_vars PROVE LengthInv'
<1>1. body \in Seq(Value)
  BY DEF IInv, TypeOK
<1>2. CASE GetBody
  <2>1. CASE method = "POST"
    <3>1. /\ content_length = Size(body) \/ (body = <<>> /\ content_length \in Nat)
          /\ Size(body) \in Nat /\ body_len' = Min({content_length, Size(body)})
      BY <1>1, <1>2, <2>1, SizeIn DEF GetBody, LengthInv
    <3>2. body_len' = Size(body)
      <4>1. CASE content_length = Size(body)
        BY <3>1, <4>1, LeastOfOne
      <4>2. CASE body = <<>> /\ content_length \in Nat
        BY <3>1, <4>2, LeastOfNone, SizeNothing
      <4> QED BY <3>1, <4>1, <4>2
    <3> QED BY <1>2, <3>2 DEF GetBody, LengthInv
  <2> QED BY <1>2, <2>1 DEF GetBody, LengthInv
<1>3. CASE NextField
  BY <1>3 DEF NextField, LengthInv
<1>4. CASE ReplaceBuf
  <2> DEFINE k == Occurrence(body, Field, from)
             w == Sealed(body[k], Field.type)
  <2>1. CASE stage' \in {"next", "search", "dead"} /\ UNCHANGED <<body, body_len>>
    BY <1>4, <2>1 DEF ReplaceBuf, LengthInv
  <2>2. CASE /\ k # 0 /\ GoOn(k) /\ body' = [body EXCEPT ![k] = w]
             /\ body_len' = NewLength(body[k], w)
    <3>1. Field \in FieldPolicy /\ Field.type \in Types /\ from \in Nat \ {0}
      BY <1>4, FieldInForm DEF ReplaceBuf, IInv
    <3>2. k \in DOMAIN body
      BY <1>1, <2>2, <3>1, OccurrenceNamed
    <3>3. w \in Value /\ w.prefix = body[k].prefix
      BY <1>1, <3>1, <3>2, SealedType
    <3>4. Size(body') = Size(body) + w.size - body[k].size
      <4> HIDE DEF k, w
      <4> QED BY <1>1, <2>2, <3>2, <3>3, SizeReplaced
    <3>5. UNCHANGED method /\ method = "POST" /\ stage = "search"
      BY <1>4 DEF ReplaceBuf
    <3>6. stage' \in {"next", "search"}
      <4> HIDE DEF k, w
      <4> QED BY <2>2, <3>5 DEF GoOn
    <3>7. body_len = Size(body)
      BY <3>5 DEF LengthInv
    <3>8. body_len' = Size(body')
      <4> HIDE DEF k, w
      <4> QED BY <2>2, <3>4, <3>7 DEF NewLength
    <3> QED BY <3>6, <3>8 DEF LengthInv
  <2> QED BY <1>4, <2>1, <2>2 DEF ReplaceBuf, StopAt
<1>5. CASE ReplaceGetBuf
  BY <1>5 DEF ReplaceGetBuf, LengthInv
<1>6. CASE Finish
  BY <1>6 DEF Finish, LengthInv
<1>7. CASE UNCHANGED vars
  BY <1>7 DEF vars, LengthInv
<1> QED BY <1>2, <1>3, <1>4, <1>5, <1>6, <1>7 DEF Next

\* For every posted body and policy the length in the header is that of the
\* body that goes up: what replaceBuf adds and takes away in each turn is what
\* the body gains and loses, so that getBody never cuts a body short.
THEOREM LengthCorrect == InputTypes => (Spec => []LengthMatches)
<1> SUFFICES ASSUME InputTypes PROVE Spec => []LengthMatches
  OBVIOUS
<1>1. Init => IInv /\ LengthInv
  BY InitType, InitLength
<1>2. IInv /\ LengthInv /\ [Next]_vars => IInv' /\ LengthInv'
  BY StepType, StepLength
<1>3. LengthInv => LengthMatches
  BY DEF LengthInv, LengthMatches
<1> QED BY <1>1, <1>2, <1>3, PTL DEF Spec
-------------------------------------------------------------------------------
(* What stays in clear, and why                                             *)

\* A value is encrypted, or there is the reason PlainExplained allows.
Explained(i, k) ==
    \/ body[k].layers > 0
    \/ \E s \in ToSet(stopped) : s.field = i /\ s.at < k
    \/ /\ form[i].type \in Single
       /\ \E j \in 1 .. k - 1 : body[j].name \in form[i].names /\ body[j].layers > 0

Stops == [field : Nat, at : Nat, pass : Nat]

\* The fields that are done with have left nothing behind that is not
\* explained, and the field under way nothing before the place it has come to.
PlainInv ==
    /\ stopped \in Seq(Stops)
    /\ stage = "done" => field = Len(form)
    /\ \A i \in DOMAIN form, k \in DOMAIN body :
         (i < field \/ (i = field /\ stage # "search")) /\ Covered(form[i], k) => Explained(i, k)
    /\ stage = "search" => \A k \in DOMAIN body :
         k < from /\ Covered(Field, k) => Explained(field, k)

\* The search finds the first value that has a name of the field.
LEMMA OccurrenceFirst ==
    ASSUME NEW b \in Seq(Value), NEW f \in FieldPolicy, NEW n \in Nat \ {0},
           NEW k \in DOMAIN b, n =< k, b[k].name \in f.names
    PROVE  Occurrence(b, f, n) # 0 /\ Occurrence(b, f, n) =< k
<1> DEFINE at == {i \in n .. Len(b) : b[i].name \in f.names}
<1>1. k \in at /\ at # {} /\ at \in SUBSET Nat
  OBVIOUS
<1>2. Min(at) \in at /\ Min(at) =< k
  BY <1>1, MinIn
<1>3. Occurrence(b, f, n) = Min(at)
  BY <1>1 DEF Occurrence
<1>4. 0 \notin at
  OBVIOUS
<1> HIDE DEF at
<1> QED BY <1>2, <1>3, <1>4

\* It looks at nothing but the names.
LEMMA OccurrenceSame ==
    ASSUME NEW b \in Seq(Value), NEW c \in Seq(Value), Len(c) = Len(b),
           \A k \in DOMAIN b : c[k].name = b[k].name,
           NEW f
    PROVE  Occurrence(c, f, 1) = Occurrence(b, f, 1)
<1>1. \A i \in 1 .. Len(b) : i \in DOMAIN b /\ c[i].name = b[i].name
  OBVIOUS
<1>2. {i \in 1 .. Len(c) : c[i].name \in f.names} = {i \in 1 .. Len(b) : b[i].name \in f.names}
  BY <1>1
<1> QED BY <1>2 DEF Occurrence

\* The body of a request changes in one place or not at all, and only where a
\* posted value is not empty.
LEMMA OneValue ==
    ASSUME IInv, NEW k \in DOMAIN body, NEW w \in Value, w.name = body[k].name,
           w.layers = body[k].layers + 1, method = "POST" => body[k].data # <<>>,
           body' = [body EXCEPT ![k] = w]
    PROVE  /\ body' \in Seq(Value) /\ Len(body') = Len(body)
           /\ body'[k].layers > 0
           /\ \A i \in DOMAIN body :
                /\ body'[i].name = body[i].name
                /\ body[i].layers > 0 => body'[i].layers > 0
                /\ method = "POST" /\ body[i].data = <<>> => body'[i].data = <<>>
<1>1. body \in Seq(Value) /\ body[k] \in Value
  BY DEF IInv, TypeOK
<1>2. /\ body' \in Seq(Value) /\ Len(body') = Len(body)
      /\ \A i \in DOMAIN body : body'[i] = IF i = k THEN w ELSE body[i]
  BY <1>1
<1>3. body[k].layers \in Nat /\ w.layers > 0
  BY <1>1 DEF Value
<1> QED BY <1>2, <1>3

\* A step leaves the request and its form, and neither adds nor drops a value.
LEMMA StepBody ==
    ASSUME IInv, [Next]_vars
    PROVE  /\ UNCHANGED <<method, form>> /\ body' \in Seq(Value) /\ Len(body') = Len(body)
           /\ \A i \in DOMAIN body :
                /\ body'[i].name = body[i].name
                /\ body[i].layers > 0 => body'[i].layers > 0
                /\ method = "POST" /\ body[i].data = <<>> => body'[i].data = <<>>
<1>1. body \in Seq(Value)
  BY DEF IInv, TypeOK
<1>2. CASE UNCHANGED <<method, form, body>>
  BY <1>1, <1>2
<1>3. CASE ReplaceBuf /\ ~ UNCHANGED body
  <2> DEFINE k == Occurrence(body, Field, from)
             w == Sealed(body[k], Field.type)
  <2>1. /\ UNCHANGED <<method, form>> /\ stage = "search" /\ method = "POST"
        /\ k # 0 /\ body[k].data # <<>> /\ body' = [body EXCEPT ![k] = w]
    BY <1>3 DEF ReplaceBuf, StopAt
  <2>2. Field \in FieldPolicy /\ Field.type \in Types /\ from \in Nat \ {0}
    BY <2>1, FieldInForm DEF IInv
  <2>3. k \in DOMAIN body
    BY <1>1, <2>1, <2>2, OccurrenceNamed
  <2>4. w \in Value /\ w.name = body[k].name /\ w.layers = body[k].layers + 1
    BY <1>1, <2>2, <2>3, SealedType
  <2> HIDE DEF k, w
  <2> QED BY <2>1, <2>3, <2>4, OneValue
<1>4. CASE ReplaceGetBuf /\ ~ UNCHANGED body
  <2> DEFINE k == Occurrence(body, Field, 1)
             w == SealedInUrl(body, k)
  <2>1. /\ UNCHANGED <<method, form>> /\ stage = "search" /\ method = "GET"
        /\ body' = [body EXCEPT ![k] = w] /\ k # 0
    BY <1>4 DEF ReplaceGetBuf, IInv
  <2>2. Field \in FieldPolicy
    BY <2>1, FieldInForm
  <2>3. k \in DOMAIN body
    BY <1>1, <2>1, <2>2, OccurrenceNamed
  <2>4. w \in Value /\ w.name = body[k].name /\ w.layers = body[k].layers + 1
    BY <1>1, <2>3, SealedInUrlType, UrlLayers
  <2> HIDE DEF k, w
  <2> QED BY <2>1, <2>3, <2>4, OneValue
<1> QED BY <1>2, <1>3, <1>4 DEF Next, GetBody, NextField, ReplaceBuf, ReplaceGetBuf, Finish, vars

\* What a field covers after a step it covered before it.
LEMMA CoveredBefore ==
    ASSUME IInv, [Next]_vars, NEW i \in DOMAIN form, NEW k \in DOMAIN body,
           Covered(form[i], k)'
    PROVE  Covered(form[i], k)
<1>1. /\ UNCHANGED <<method, form>> /\ body \in Seq(Value)
      /\ body' \in Seq(Value) /\ Len(body') = Len(body)
      /\ \A j \in DOMAIN body :
           /\ body'[j].name = body[j].name
           /\ method = "POST" /\ body[j].data = <<>> => body'[j].data = <<>>
  BY StepBody DEF IInv, TypeOK
<1>2. Occurrence(body', form[i], 1) = Occurrence(body, form[i], 1)
  <2>1. \A j \in DOMAIN body : body'[j].name = body[j].name
    BY <1>1
  <2> QED BY <1>1, <2>1, OccurrenceSame
<1>3. Covered(form[i], k)' <=>
        /\ body[k].name \in form[i].names
        /\ \/ /\ method = "POST" /\ body'[k].data # <<>>
              /\ form[i].type # "FORMJSON" /\ (form[i].wild => form[i].type \in Patterned)
           \/ /\ method = "GET" /\ form[i].type = "POSTURL"
              /\ ~ form[i].wild /\ k = Occurrence(body, form[i], 1)
  BY <1>1, <1>2 DEF Covered
<1> QED BY <1>1, <1>3 DEF Covered

\* What was explained stays so.
LEMMA ExplainedStays ==
    ASSUME IInv, [Next]_vars, ToSet(stopped) \subseteq ToSet(stopped'),
           NEW i \in DOMAIN form, NEW k \in DOMAIN body, Explained(i, k)
    PROVE  Explained(i, k)'
<1>1. /\ UNCHANGED form /\ body \in Seq(Value) /\ Len(body') = Len(body)
      /\ \A j \in DOMAIN body : /\ body'[j].name = body[j].name
                                /\ body[j].layers > 0 => body'[j].layers > 0
  BY StepBody DEF IInv, TypeOK
<1>2. CASE body[k].layers > 0
  BY <1>1, <1>2 DEF Explained
<1>3. CASE \E s \in ToSet(stopped) : s.field = i /\ s.at < k
  BY <1>3 DEF Explained
<1>4. CASE /\ form[i].type \in Single
           /\ \E j \in 1 .. k - 1 : body[j].name \in form[i].names /\ body[j].layers > 0
  <2>1. \A j \in 1 .. k - 1 : j \in DOMAIN body
    BY <1>1
  <2> QED BY <1>1, <1>4, <2>1 DEF Explained
<1> QED BY <1>2, <1>3, <1>4 DEF Explained

\* The values a search leaves behind when it ends, or goes on at from': each is
\* explained.
LEMMA SearchLeaves ==
    ASSUME IInv, PlainInv, ReplaceBuf, NEW k \in DOMAIN body, Covered(Field, k),
           stage' = "search" => k < from'
    PROVE  Explained(field, k)'
<1> DEFINE o == Occurrence(body, Field, from)
           w == Sealed(body[o], Field.type)
<1>1. stage = "search" /\ method = "POST" /\ UNCHANGED <<form, field>> /\ [Next]_vars
  BY DEF ReplaceBuf, Next
<1>2. /\ Field \in FieldPolicy /\ Field.type \in Types /\ field \in DOMAIN form
      /\ body \in Seq(Value) /\ from \in Nat \ {0} /\ Field = form[field]
  BY <1>1, FieldInForm DEF IInv, TypeOK, Field
<1>3. body[k].name \in Field.names /\ body[k].data # <<>> /\ Field.type # "FORMJSON"
  BY <1>1 DEF Covered
<1>4. ToSet(stopped) \subseteq ToSet(stopped')
  <2>1. CASE UNCHANGED stopped
    BY <2>1
  <2>2. CASE o # 0 /\ StopAt(o)
    <3>1. [field |-> field, at |-> o, pass |-> pass] \in Stops
      <4>1. o \in DOMAIN body
        BY <1>2, <2>2, OccurrenceNamed
      <4> HIDE DEF o
      <4> QED BY <1>2, <4>1 DEF Stops, IInv, TypeOK
    <3> HIDE DEF o
    <3> QED BY <2>2, <3>1, AppendSet DEF PlainInv, StopAt
  <2> QED BY <2>1, <2>2 DEF ReplaceBuf
<1>5. CASE k < from
  BY <1>1, <1>2, <1>4, <1>5, ExplainedStays DEF PlainInv
<1>6. CASE from =< k
  <2>1. o # 0 /\ o =< k
    BY <1>2, <1>3, <1>6, OccurrenceFirst
  <2>2. o \in DOMAIN body /\ body[o].name \in Field.names
    BY <1>2, <2>1, OccurrenceNamed
  <2>3. CASE (body[o].data = <<>> \/ IsEncryptData(body[o])) /\ StopAt(o)
    <3>1. CASE o = k
      <4>1. body[k].layers > 0
        <5> HIDE DEF o
        <5> QED BY <1>3, <2>3, <3>1 DEF IsEncryptData
      <4>2. Explained(field, k)
        BY <4>1 DEF Explained
      <4> QED BY <1>1, <1>2, <1>4, <4>2, ExplainedStays
    <3>2. CASE o < k
      <4> DEFINE s == [field |-> field, at |-> o, pass |-> pass]
      <4>1. s \in Stops /\ stopped' = Append(stopped, s)
        <5> HIDE DEF o
        <5> QED BY <1>2, <2>2, <2>3 DEF Stops, IInv, TypeOK, StopAt
      <4>2. s \in ToSet(stopped') /\ s.field = field /\ s.at < k
        <5>1. s.field = field /\ s.at = o
          OBVIOUS
        <5> HIDE DEF s, o
        <5> QED BY <3>2, <4>1, <5>1, AppendSet DEF PlainInv
      <4> HIDE DEF s
      <4> QED BY <1>1, <4>2 DEF Explained
    <3> HIDE DEF o
    <3> QED BY <1>2, <2>1, <2>2, <3>1, <3>2
  <2>4. CASE body[o].data # <<>> /\ body' = [body EXCEPT ![o] = w] /\ GoOn(o)
    <3>1. w \in Value /\ w.name = body[o].name /\ w.layers = body[o].layers + 1
      BY <1>2, <2>2, SealedType
    <3>2. body'[o].layers > 0 /\ body'[o].name = body[o].name
      <4> HIDE DEF o, w
      <4> QED BY <1>1, <2>2, <2>4, <3>1, OneValue
    <3>3. CASE o = k
      <4> HIDE DEF o, w
      <4> QED BY <3>2, <3>3 DEF Explained
    <3>4. CASE o < k
      <4> HIDE DEF o, w
      <4>1. Field.type \in Single
        BY <1>1, <1>2, <2>2, <2>4, <3>4 DEF GoOn
      <4>2. o \in 1 .. k - 1
        BY <1>2, <2>2, <3>4
      <4> QED BY <1>1, <1>2, <2>2, <3>2, <4>1, <4>2 DEF Explained
    <3> HIDE DEF o, w
    <3> QED BY <1>2, <2>1, <2>2, <3>3, <3>4
  <2> QED BY <1>3, <2>1, <2>3, <2>4 DEF ReplaceBuf
<1> QED BY <1>2, <1>5, <1>6

\* The same for the one search of a URL.
LEMMA UrlLeaves ==
    ASSUME IInv, ReplaceGetBuf, NEW k \in DOMAIN body, Covered(Field, k)
    PROVE  Explained(field, k)'
<1>1. stage = "search" /\ method = "GET" /\ UNCHANGED <<form, field>>
  BY DEF ReplaceGetBuf
<1>2. k = Occurrence(body, Field, 1) /\ Field.type = "POSTURL"
  BY <1>1 DEF Covered
<1>3. body' = [body EXCEPT ![k] = SealedInUrl(body, k)]
  BY <1>2 DEF ReplaceGetBuf
<1>4. body \in Seq(Value)
  BY DEF IInv, TypeOK
<1>5. /\ SealedInUrl(body, k) \in Value /\ SealedInUrl(body, k).name = body[k].name
      /\ SealedInUrl(body, k).layers = body[k].layers + 1
  BY <1>4, SealedInUrlType, UrlLayers
<1>6. body'[k].layers > 0
  BY <1>1, <1>3, <1>5, OneValue
<1> QED BY <1>6 DEF Explained

\* A field that is passed over covers nothing.
LEMMA PassedOver ==
    ASSUME IInv, NEW i \in DOMAIN form, ~ Wanted(form[i]), NEW k \in DOMAIN body,
           Covered(form[i], k)
    PROVE  FALSE
<1>1. body \in Seq(Value) /\ form[i] \in FieldPolicy /\ k \in Nat \ {0}
  BY DEF IInv, TypeOK
<1>2. ~ form[i].wild
  BY DEF Wanted, Covered
<1>3. Occurrence(body, form[i], 1) = 0
  BY <1>2 DEF Wanted
<1>4. 1 \in Nat \ {0} /\ 1 =< k
  BY <1>1
<1>5. body[k].name \in form[i].names
  BY DEF Covered
<1> QED BY <1>1, <1>3, <1>4, <1>5, OccurrenceFirst

\* A stop that was recorded stays recorded.
LEMMA StoppedStep == ASSUME IInv, PlainInv, [Next]_vars
                     PROVE  stopped' \in Seq(Stops) /\ ToSet(stopped) \subseteq ToSet(stopped')
<1>1. CASE UNCHANGED stopped
  BY <1>1 DEF PlainInv
<1>2. CASE ReplaceBuf /\ ~ UNCHANGED stopped
  <2> DEFINE o == Occurrence(body, Field, from)
             s == [field |-> field, at |-> o, pass |-> pass]
  <2>1. o # 0 /\ StopAt(o) /\ stage = "search"
    BY <1>2 DEF ReplaceBuf
  <2>2. o \in DOMAIN body /\ body \in Seq(Value)
    BY <2>1, FieldInForm, OccurrenceNamed DEF IInv, TypeOK
  <2> HIDE DEF o
  <2>3. s \in Stops
    BY <2>2 DEF Stops, IInv, TypeOK
  <2>4. stopped' = Append(stopped, s)
    BY <2>1 DEF StopAt
  <2> HIDE DEF s
  <2> QED BY <2>3, <2>4, AppendSet DEF PlainInv
<1> QED BY <1>1, <1>2 DEF Next, GetBody, NextField, ReplaceBuf, ReplaceGetBuf, Finish, vars

\* Each value that is left in clear has its reason after the step.
LEMMA StepPlain == ASSUME IInv, PlainInv, [Next]_vars PROVE PlainInv'
<1>1. /\ UNCHANGED form /\ DOMAIN body' = DOMAIN body
      /\ \A i \in DOMAIN form, k \in DOMAIN body :
           Covered(form[i], k)' => Covered(form[i], k)
  <2>1. UNCHANGED form /\ DOMAIN body' = DOMAIN body
    BY StepBody DEF IInv, TypeOK
  <2> QED BY <2>1, CoveredBefore
<1>2. \A i \in DOMAIN form, k \in DOMAIN body : Explained(i, k) => Explained(i, k)'
  BY StoppedStep, ExplainedStays
<1>3. form \in Seq(FieldPolicy) /\ field \in 0 .. Len(form) /\ DOMAIN form = 1 .. Len(form)
  BY DEF IInv, TypeOK
<1>4. stage' = "done" => field' = Len(form')
  BY DEF PlainInv, Next, GetBody, NextField, ReplaceBuf, StopAt, GoOn, ReplaceGetBuf, Finish, vars
<1>5. ASSUME NEW i \in DOMAIN form, NEW k \in DOMAIN body, Covered(form[i], k)',
             i < field' \/ (i = field' /\ stage' # "search")
      PROVE  Explained(i, k)'
  <2>1. Covered(form[i], k)
    BY <1>1, <1>5
  <2>2. CASE i < field \/ (i = field /\ stage # "search")
    BY <1>2, <2>1, <2>2 DEF PlainInv
  <2>3. CASE GetBody
    BY <1>3, <1>5, <2>3 DEF GetBody
  <2>4. CASE NextField
    <3>1. i = field + 1 => ~ Wanted(form[i])
      BY <1>3, <1>5, <2>4 DEF NextField
    <3>2. i # field + 1 => i < field \/ (i = field /\ stage # "search")
      BY <1>3, <1>5, <2>4 DEF NextField
    <3> QED BY <2>1, <2>2, <3>1, <3>2, PassedOver
  <2>5. CASE ReplaceBuf
    <3>1. field' = field /\ stage = "search"
      BY <2>5 DEF ReplaceBuf
    <3>2. CASE i = field
      <4>1. Covered(Field, k) /\ stage' # "search"
        <5>1. Covered(Field, k)
          BY <2>1, <3>2 DEF Field, Covered
        <5> QED BY <1>3, <1>5, <3>1, <3>2, <5>1
      <4>2. Explained(field, k)'
        BY <2>5, <4>1, SearchLeaves
      <4> QED BY <3>1, <3>2, <4>2 DEF Explained
    <3> QED BY <1>5, <2>2, <3>1, <3>2
  <2>6. CASE ReplaceGetBuf
    <3>1. field' = field /\ stage = "search"
      BY <2>6 DEF ReplaceGetBuf
    <3>2. CASE i = field
      <4>1. Covered(Field, k)
        BY <2>1, <3>2 DEF Field, Covered
      <4>2. Explained(field, k)'
        BY <2>6, <4>1, UrlLeaves
      <4> QED BY <3>1, <3>2, <4>2 DEF Explained
    <3> QED BY <1>5, <2>2, <3>1, <3>2
  <2>7. CASE Finish \/ UNCHANGED vars
    <3>1. field' = field /\ (stage' # "search" => stage # "search")
      BY <2>7 DEF Finish, vars
    <3> QED BY <1>5, <2>2, <3>1
  <2> QED BY <2>3, <2>4, <2>5, <2>6, <2>7 DEF Next
<1>6. ASSUME stage' = "search", NEW k \in DOMAIN body, k < from', Covered(Field, k)'
      PROVE  Explained(field, k)'
  <2>1. k \in Nat /\ k # 0
    BY DEF IInv, TypeOK
  <2>2. CASE NextField
    BY <1>6, <2>1, <2>2 DEF NextField
  <2>3. CASE ReplaceBuf
    <3>1. UNCHANGED <<form, field>> /\ field \in DOMAIN form
      BY <1>3, <2>3 DEF ReplaceBuf, IInv
    <3>2. Covered(form[field], k)'
      BY <1>6, <3>1 DEF Field
    <3>3. Covered(Field, k)
      BY <1>1, <3>1, <3>2, CoveredBefore DEF Field
    <3> QED BY <1>6, <2>3, <3>1, <3>3, SearchLeaves
  <2>4. CASE UNCHANGED vars
    <3>1. Covered(Field, k) /\ k < from /\ stage = "search"
      BY <1>6, <2>4 DEF vars, Field, Covered
    <3>2. Explained(field, k)
      BY <3>1 DEF PlainInv
    <3> QED BY <2>4, <3>2 DEF vars, Explained
  <2> QED BY <1>6, <2>2, <2>3, <2>4 DEF Next, GetBody, ReplaceGetBuf, Finish
<1> QED BY <1>1, <1>4, <1>5, <1>6, StoppedStep DEF PlainInv

\* For every body, policy and number of runs a value that a field names goes up
\* in clear only for one of the two reasons: the loop of replaceBuf had stopped
\* at an earlier value, empty or encrypted already, or its type takes one value.
THEOREM PlainCorrect == InputTypes => (Spec => []PlainExplained)
<1> SUFFICES ASSUME InputTypes PROVE Spec => []PlainExplained
  OBVIOUS
<1>1. Init => IInv /\ PlainInv
  <2> SUFFICES ASSUME Init PROVE PlainInv
    BY InitType
  <2>1. stopped = <<>> /\ stage = "idle" /\ field = 0 /\ form \in Seq(FieldPolicy)
    BY DEF Init, InputTypes
  <2>2. \A i \in DOMAIN form : ~ (i =< field)
    BY <2>1
  <2> QED BY <2>1, <2>2 DEF PlainInv
<1>2. IInv /\ PlainInv /\ [Next]_vars => IInv' /\ PlainInv'
  BY StepType, StepPlain
<1>3. IInv /\ PlainInv => PlainExplained
  <2> SUFFICES ASSUME IInv, PlainInv, stage = "done", NEW i \in DOMAIN form,
                      NEW k \in DOMAIN body, Covered(form[i], k), body[k].layers = 0
               PROVE  \/ \E s \in ToSet(stopped) : s.field = i /\ s.at < k
                      \/ /\ form[i].type \in Single
                         /\ \E j \in 1 .. k - 1 :
                              body[j].name \in form[i].names /\ body[j].layers > 0
    BY DEF PlainExplained
  <2>1. field = Len(form) /\ i \in 1 .. Len(form)
    BY DEF PlainInv, IInv
  <2>2. Explained(i, k)
    BY <2>1 DEF PlainInv
  <2> QED BY <2>2 DEF Explained
<1> QED BY <1>1, <1>2, <1>3, PTL DEF Spec
===============================================================================
