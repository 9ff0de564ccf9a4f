----------------------------- MODULE FieldRewrite -----------------------------
(***************************************************************************)
(* What get_raw_http_body does to a request for which there is a policy:   *)
(* for each field of the policy in turn it looks for the field's name in   *)
(* the body, or in the URL of a GET, and puts the encrypted value in the   *)
(* place of the value that follows.  A request whose phases are resumed    *)
(* goes through all of it again (see RequestPhase).                        *)
(*                                                                         *)
(* A body is the sequence of its named values; the text between them is    *)
(* left out.  Of a value the model keeps what removing every layer of      *)
(* encryption would give (data), how many layers there are, and its size.  *)
(* A pattern that names a field stands for the set of names it matches.    *)
(***************************************************************************)
EXTENDS SequencesExt

CONSTANTS Bytes,    \* what values consist of
          Posts,    \* the bodies that clients post
          Urls,     \* the URLs that clients get
          Forms,    \* the lists of fields a policy may have
          Passes    \* how often the handler may run on the request

VARIABLES method,          \* "POST" or "GET"
          original,        \* the body, or the URL, as the client sent it
          spooled,         \* nginx has put the body into a temporary file
          body,            \* what is in memory of the body as it is now
          form,            \* the policy's fields: pPostPolicy->pFieldPolicy
          stage,           \* "idle", "next", "search" or "done"; "dead" if the worker is
          field,           \* index of the field being worked on
          from,            \* where the search for its name goes on
          stopped,         \* the fields whose search ended early in a pass, with where
          body_len,        \* the length the code keeps of the body
          content_length,  \* the length in the request header
          pass             \* runs so far

vars == <<method, original, spooled, body, form, stage, field, from, stopped, body_len,
          content_length, pass>>

Types == {"POSTFORM", "POSTFORMS", "POSTFORMSW", "POSTURL", "POSTURLS",
          "POSTURLSW", "POSTURLSPLIT", "FORMJSON", "URLJSON"}

\* What clients send, what it becomes, and the rows of a policy.
\* Values may gain a byte left of the head, or zeros.
Data == Seq(Bytes \cup {"head", "nul"})
Clear == [name : STRING, prefix : BOOLEAN, data : Data, size : Nat, layers : {0}]
Value == [name : STRING, prefix : BOOLEAN, data : Data, size : Nat, layers : Nat]
FieldPolicy == [names : SUBSET STRING, wild : BOOLEAN, type : Types]

ASSUME InputTypes == /\ Posts \subseteq Seq(Clear)
                     /\ Urls \subseteq Seq(Clear)
                     /\ Forms \subseteq Seq(FieldPolicy)
                     /\ Passes \in Nat \ {0}

\* Types that stop after one value.
Single == {"POSTFORM", "POSTFORMS", "POSTURL"}

\* Types whose name may be a pattern.
Patterned == {"POSTURLSW", "POSTFORMSW", "POSTURLSPLIT", "URLJSON"}

\* Types that are looked for in multipart bodies.
Multipart == {"POSTFORM", "POSTFORMS", "POSTFORMSW"}

\* The text "http://" before the values of two multipart fields stays in clear;
\* "prefix" marks such values.
PrefixSize == 7
PrefixKnown(b, f) ==
    \A v \in ToSet(b) : v.prefix /\ v.name \in f.names => f.type \in Multipart /\ ~ f.wild

Size(b) == FoldLeft(LAMBDA n, v : n + v.size + (IF v.prefix THEN PrefixSize ELSE 0), 0, b)

Field == form[field]

\* Where the field's name occurs next in the body, 0 if nowhere.
Occurrence(b, f, k) ==
    LET at == {i \in k .. Len(b) : b[i].name \in f.names}
    IN IF at = {} THEN 0 ELSE Min(at)

\* Mutant: a value is encrypted whether or not it is already.
IsEncryptDataNever(v) == FALSE

\* Values that begin with one of the heads encryption puts in front; a value
\* with the prefix begins with that.
IsEncryptData(v) == v.layers > 0 /\ ~ v.prefix

\* Mutant: the encrypted value is written over the end of the name.
SealedOverName(v, type) == [v EXCEPT !.layers = @ + 1, !.name = "cut"]

\* The head takes the place of a byte in the hexadecimal forms.  Sizes are
\* those of values in which nothing needs escaping or decoding.
SealedSize(type, n) == CASE type \in {"POSTFORM", "POSTURL"} -> n + 2
                         [] type = "POSTFORMS" -> n + 3
                         [] type \in {"POSTFORMSW", "POSTURLSPLIT"} -> 2 * (n + 1) + 1
                         [] type = "URLJSON" -> 2 * (n + 2)
                         [] OTHER -> 2 * (n + 1)

\* URLJSON takes the head of two bytes, of which the second stays in front of
\* the data.
SealedData(type, d) == IF type = "URLJSON" THEN <<"head">> \o d ELSE d

Sealed(v, type) == [v EXCEPT !.layers = @ + 1,
                             !.data = SealedData(type, @),
                             !.size = SealedSize(type, @)]

\* Mutant: the end of a value is always taken too far.
SealedInUrlOverrun(b, k) == [Sealed(b[k], "POSTURL") EXCEPT !.data = @ \o <<"nul">>]

\* replaceGetBuf: when no "&" follows, the end of the value is taken the name's
\* length too far, and what is there is encoded with it: zeros, of which two bytes
\* are cut off again by get_raw_http_body.  "nul" stands for the rest.
SealedInUrl(b, k) ==
    [Sealed(b[k], "POSTURL") EXCEPT !.data = IF k = Len(b) THEN @ \o <<"nul">> ELSE @]

Init == /\ \/ method = "POST" /\ original \in Posts
           \/ method = "GET" /\ original \in Urls
        /\ spooled \in BOOLEAN /\ (spooled => method = "POST" /\ original # <<>>)
        /\ body = IF spooled THEN <<>> ELSE original
        /\ form \in Forms
        /\ \A f \in ToSet(form) : PrefixKnown(original, f)
        /\ stage = "idle" /\ field = 0 /\ from = 1 /\ stopped = <<>>
        /\ body_len = 0 /\ content_length = Size(original)
        /\ pass = 0

\* What is in memory is copied into one buffer of content_length bytes; a buffer
\* that stands for a file has nothing there.
GetBody == /\ stage = "idle" \/ (stage = "done" /\ pass < Passes)
           /\ stage' = "next" /\ field' = 0 /\ pass' = pass + 1
           /\ body_len' = Min({content_length, Size(body)})
           /\ UNCHANGED <<method, original, spooled, body, form, from, stopped, content_length>>

\* A name that is not in the body is passed over, unless it is a pattern of a
\* type that may have one.
Wanted(f) == IF f.wild THEN method = "POST" /\ f.type \in Patterned
             ELSE Occurrence(body, f, 1) # 0

NextField ==
    /\ stage = "next" /\ field < Len(form)
    /\ field' = field + 1
    /\ from' = 1
    /\ stage' = IF Wanted(form[field + 1]) THEN "search" ELSE "next"
    /\ UNCHANGED <<method, original, spooled, body, form, stopped, body_len, content_length, pass>>

\* Mutant: the length is left as it was.
NewLengthForgotten(v, w) == body_len

\* replaceEnBuf: *body_len + (endata_len - data_len)
NewLength(v, w) == body_len + w.size - v.size

\* The search stops before the value at k.
StopAt(k) == /\ stage' = "next"
             /\ stopped' = Append(stopped, [field |-> field, at |-> k, pass |-> pass])
             /\ UNCHANGED <<body, body_len, from>>

\* Mutant: what follows an encrypted value is passed over.
GoOnSkipping(k) == IF Field.type \in Single
                   THEN stage' = "next" /\ from' = from
                   ELSE stage' = stage /\ from' = k + 2

\* The types with several values go on behind the one just encrypted.
GoOn(k) == IF Field.type \in Single
           THEN stage' = "next" /\ from' = from
           ELSE stage' = stage /\ from' = k + 1

\* One turn of the loop in replaceBuf.  The copy of an empty body is not
\* terminated: a pattern is looked for in whatever the memory holds, and where it
\* is found, the rest of the body has a negative length.
ReplaceBuf ==
    /\ stage = "search" /\ method = "POST"
    /\ LET k == Occurrence(body, Field, from)
           v == body[k]
           w == Sealed(v, Field.type)
       IN \/ /\ k = 0 \/ Field.type = "FORMJSON"
             /\ stage' = "next"
             /\ UNCHANGED <<body, body_len, from, stopped>>
          \/ /\ body = <<>> /\ Field.type # "FORMJSON"
             /\ stage' = "dead"
             /\ UNCHANGED <<body, body_len, from, stopped>>
          \/ /\ k # 0 /\ Field.type # "FORMJSON"
             /\ v.data = <<>> \/ IsEncryptData(v)
             /\ StopAt(k)
          \/ /\ k # 0 /\ Field.type # "FORMJSON"
             /\ ~ (v.data = <<>> \/ IsEncryptData(v))
             /\ body' = [body EXCEPT ![k] = w]
             /\ body_len' = NewLength(v, w)
             /\ GoOn(k)
             /\ UNCHANGED stopped
    /\ UNCHANGED <<method, original, spooled, form, field, content_length, pass>>

\* replaceGetBuf, for the first occurrence and for one type only.
ReplaceGetBuf ==
    /\ stage = "search" /\ method = "GET"
    /\ LET k == Occurrence(body, Field, 1)
       IN body' = IF Field.type = "POSTURL" THEN [body EXCEPT ![k] = SealedInUrl(body, k)]
                  ELSE body
    /\ stage' = "next"
    /\ UNCHANGED <<method, original, spooled, form, field, from, stopped, body_len, content_length, pass>>

\* The new length goes into the header and the new body into the request.
Finish == /\ stage = "next" /\ field = Len(form)
          /\ stage' = "done"
          /\ content_length' = IF method = "POST" THEN body_len ELSE content_length
          /\ UNCHANGED <<method, original, spooled, body, form, field, from, stopped, body_len, pass>>

Next == GetBody \/ NextField \/ ReplaceBuf \/ ReplaceGetBuf \/ Finish

Spec == Init /\ [][Next]_vars

-------------------------------------------------------------------------------
(* Properties                                                               *)

\* Every variable is within its type, and the values keep their names, order
\* and prefixes whatever is put in their place.
TypeOK ==
    /\ body \in Seq(Value)
    /\ stage \in {"idle", "next", "search", "done", "dead"}
    /\ field \in 0 .. Len(form)
    /\ pass \in 0 .. Passes
    /\ method \in {"POST", "GET"}
    /\ Len(body) = IF spooled THEN 0 ELSE Len(original)
    /\ \A k \in DOMAIN body : /\ body[k].name = original[k].name
                              /\ body[k].prefix = original[k].prefix

\* What n encryptions of the value that ends a URL put behind it.
Behind(n) == [i \in 1 .. n |-> "nul"]

\* What the response filter can give back: it removes every layer it finds, so
\* the client's data comes back as it survives each encryption, through all
\* fields and runs.  The value that ends a URL gains what is behind it each time
\* it is encrypted; a posted one has the second byte of a head in front if a field
\* of type URLJSON was the one to encrypt it, and then no other encrypts it again;
\* all others are whole.  Nothing comes back of a body in a file.
Recoverable ==
    \A k \in DOMAIN original :
      LET v == body[k]
          data == original[k].data
      IN \/ spooled
         \/ /\ method = "GET"
            /\ v.data = data \o Behind(IF k = Len(original) THEN v.layers ELSE 0)
         \/ /\ method = "POST"
            /\ \/ v.data = data
               \/ /\ v.data = <<"head">> \o data /\ v.layers = 1
                  /\ \E f \in ToSet(form) : f.type = "URLJSON" /\ v.name \in f.names

\* However often the handler runs on it, a posted value is encrypted once;
\* only those that keep a prefix in front are not recognised.
EncryptedOnce ==
    method = "POST" => \A k \in DOMAIN body : ~ body[k].prefix => body[k].layers <= 1

\* The header announces the body that is sent: the lengths kept through every
\* replacement add up, and that of a body in a file becomes 0 as the body does.
LengthMatches == method = "POST" /\ stage = "done" => content_length = Size(body)

\* The values that a field should see encrypted: of a URL only the first.
Covered(f, k) ==
    /\ body[k].name \in f.names
    /\ \/ /\ method = "POST" /\ body[k].data # <<>>
          /\ f.type # "FORMJSON" /\ (f.wild => f.type \in Patterned)
       \/ /\ method = "GET" /\ f.type = "POSTURL"
          /\ ~ f.wild /\ k = Occurrence(body, f, 1)

\* A value that a field names stays in clear only behind a value at which the
\* search for that field stopped (one that was empty, or encrypted already),
\* or, for the types that take one value, behind another encrypted value.
PlainExplained ==
    stage = "done" =>
      \A i \in DOMAIN form, k \in DOMAIN body :
        Covered(form[i], k) /\ body[k].layers = 0 =>
          \/ \E s \in ToSet(stopped) : s.field = i /\ s.at < k
          \/ /\ form[i].type \in Single
             /\ \E j \in 1 .. k - 1 : body[j].name \in form[i].names /\ body[j].layers > 0

\* README.md: what a request uploads is encrypted, so no value that a field
\* names leaves in clear.
UploadEncrypted ==
    stage = "done" =>
      \A f \in ToSet(form), k \in DOMAIN body : Covered(f, k) => body[k].layers > 0
===============================================================================
