------------------------------- MODULE ValuePath -------------------------------
(***************************************************************************)
(* One posted value on its way, as text.  The policy of the request is      *)
(* found by its URL and the value by the name of a field; EncryptData,      *)
(* EncryptDataBase64 or EncryptDataBase642 writes its ciphertext behind a   *)
(* head; the body is cut into a chain of buffers and sent.  A page of the   *)
(* application then shows the text as it was uploaded, and the response     *)
(* filter takes the packet out of the page and decodes it.                  *)
(*                                                                         *)
(* FieldRewrite has the loops over several fields and values, in which the  *)
(* search is an abstract one; here are one field and what the search really *)
(* finds.  The escapes are written by twenty passes over one buffer, whose  *)
(* length was computed before: a step of its own for each.  One type of     *)
(* field is encrypted part by part, where commas divide its value.          *)
(***************************************************************************)
EXTENDS Packets, Matching

CONSTANTS Requests,     \* what clients post, with the policies of the worker
          CiphersOf(_), \* what the AES library may make of the value of one
          BufferSize,   \* CHAIN_BUFFER_SIZE
          Opens         \* the characters that a page may put before a packet

Text == Seq(STRING)

\* A site's forms are the patterns of their URLs; each has one field, of that
\* name and type.  typed is what the user entered for it, and stands, encoded as
\* the body is, at the place at.
Site == [proxyhost : STRING, urls : Seq(Text)]
Types == {"POSTFORM", "POSTFORMS", "POSTFORMSW", "POSTURL", "POSTURLS", "POSTURLSW",
          "POSTURLSPLIT", "URLJSON"}

ASSUME RequestsAssumption ==
    \A r \in Requests :
      /\ r.sites \in Seq(Site) /\ r.server \in STRING /\ r.url \in Text
      /\ r.name \in Text /\ r.type \in Types /\ r.body \in Text /\ r.typed \in Text /\ r.at \in Nat
      /\ CiphersOf(r) \subseteq Seq(DOMAIN HexDigits)
ASSUME ConstantsAssumption == BufferSize \in Nat \ {0} /\ Opens \subseteq DOMAIN Closers

VARIABLES request,  \* the request, with what it is looked up in
          found,    \* the place of the form found: a set of at most one
          start,    \* where the value begins in the body, 0 if none is found
          size,     \* its length
          ciphers,  \* the ciphertexts of its parts: one, but for POSTURLSPLIT
  split_offset,  \* what comes before the part that is encrypted next
          text,     \* the encoded value; later what is decoded of it
          pass,     \* the passes done
          space,    \* "overrun" once a pass wrote more than it had space for
          bufs,     \* the chain that is sent
          open,     \* the character before the packet in the page
          part,     \* which packet of the value that is
  stage     \* "arrived", "search", "kept", "clear", "parts", "passes",
            \* "sealed", "sent", "shown", "opened" or "declined"

sealing == <<ciphers, split_offset>>
page == <<open, part>>
vars == <<request, found, start, size, sealing, text, pass, space, bufs, page, stage>>

Multipart == {"POSTFORM", "POSTFORMS", "POSTFORMSW"}
Patterned == {"POSTURLSW", "POSTFORMSW", "POSTURLSPLIT", "URLJSON"}
InDigits == {"POSTFORMSW", "POSTURLS", "POSTURLSW", "POSTURLSPLIT", "URLJSON"}
Decoding == (InDigits \cup {"POSTURL"}) \ {"URLJSON"}
Flagging == {"POSTFORMS", "POSTFORMSW", "POSTURLSPLIT"}

Init == /\ request \in Requests
        /\ found = {} /\ start = 0 /\ size = 0 /\ ciphers = <<>> /\ split_offset = 0
        /\ text = <<>> /\ pass = 0
        /\ space = "ok" /\ bufs = <<>> /\ open = "none" /\ part = 1 /\ stage = "arrived"

Body == request.body
ValueAt(k, n) == SubSeq(Body, k, k + n - 1)

\* get_raw_http_body looks for the policy, and whether the field is in the
\* body: a pattern is looked for later, if its type may have one.
Lookup ==
    /\ stage = "arrived"
    /\ found' = GetPostPolicy(request.sites, request.server, request.url)
    /\ stage' = IF found' = {} THEN "declined"
                ELSE IF \/ Places(Body, request.name, 1) # {}
                        \/ Star \in ToSet(request.name) /\ request.type \in Patterned
                     THEN "search" ELSE "kept"
    /\ UNCHANGED <<request, start, size, sealing, text, pass, space, bufs, page>>

\* findsplit: the first line of a multipart body is its boundary.
Boundary == LET at == Places(CString(Body), <<"\r", "\n">>, 1)
            IN IF at = {} THEN <<>> ELSE SubSeq(Body, 1, Min(at) - 1)

\* What ends a value; a boundary has a line break before it.
Closing == IF request.type \in Multipart THEN Boundary
           ELSE IF request.type = "URLJSON" THEN <<"%", "2", "2", "%", "7", "D">> ELSE <<"&">>

\* The length of the value that begins at k.  Where a boundary follows at once the
\* two bytes taken off for its line break leave less than nothing: getmemlen counts
\* up to an address behind it, which is their difference once a compiler has made
\* a subtraction of the loop, as it does with optimisation.
LengthAt(k) ==
    LET at == Places(CString(Body), Closing, k)
    IN IF at = {} THEN IF request.type \in Multipart THEN 0 ELSE Len(Body) + 1 - k
       ELSE Min(at) - k - (IF request.type \in Multipart THEN 2 ELSE 0)

IsEncryptData(v) == Len(v) > 2 /\ \E t \in ShortHeads : IsPrefix(Heads[t], v)

\* replaceBuf finds the name and the value behind it.
Search ==
    LET at == findWildString(Body, request.name)
        k == at.p + at.plen
        n == LengthAt(k)
    IN /\ stage = "search"
       /\ IF /\ request.type \in Multipart => Boundary # <<>>
             /\ at.p # 0 /\ n > 0 /\ ~ IsEncryptData(ValueAt(k, n))
          THEN start' = k /\ size' = n /\ stage' = "clear"
          ELSE UNCHANGED <<start, size>> /\ stage' = "kept"
       /\ UNCHANGED <<request, found, sealing, text, pass, space, bufs, page>>

\* What is encrypted: the types for URL-encoded bodies undo that first, and so
\* does one for multipart bodies.
Plain == IF request.type \in Decoding THEN replaceURLcode(ValueAt(start, size))
         ELSE ValueAt(start, size)

\* Flagged text, where the type of the field asks for it.
Flagged(s) == IF request.type \in Flagging THEN Append(s, EndFlag) ELSE s

\* EncryptData: the head and the ciphertext, in a buffer enlarged by what the
\* escapes will take.
EncryptData(c) ==
    LET d == Heads[0] \o c
        count == replace_counts(d)
    IN /\ stage = "clear" /\ request.type \notin InDigits /\ Len(c) = Len(Plain)
       /\ ciphers' = <<c>>
       /\ text' = IF count > 0 THEN d \o [i \in 1 .. count |-> "00"] ELSE Flagged(d)
       /\ stage' = IF count > 0 THEN "passes" ELSE "sealed"
       /\ UNCHANGED <<request, found, start, size, split_offset, pass, space, bufs, page>>

\* One pass of replace_post.
ReplacePost ==
    LET next == replace_post(pass + 1, text) IN
    /\ stage = "passes"
    /\ pass' = pass + 1
    /\ space' = IF Overruns(pass + 1, text) THEN "overrun" ELSE space
    /\ IF pass + 1 = Len(EscapedBytes) THEN stage' = "sealed" /\ text' = Flagged(next)
       ELSE stage' = stage /\ text' = next
    /\ UNCHANGED <<request, found, start, size, sealing, bufs, page>>

\* EncryptDataBase64 leaves out its head of one byte; EncryptDataBase642 has a
\* head of two, the second of which becomes data.
EncryptDataBase64(c) ==
    /\ stage = "clear" /\ request.type \in InDigits \ {"POSTURLSPLIT"} /\ Len(c) = Len(Plain)
    /\ ciphers' = <<c>>
    /\ text' = Flagged(Heads[1] \o Hexadecimal(IF request.type = "URLJSON"
                                               THEN <<"fe">> \o c ELSE c))
    /\ stage' = "sealed"
    /\ UNCHANGED <<request, found, start, size, split_offset, pass, space, bufs, page>>

\* Mutant: the comma is looked for with small digits.
PartEnd_Small(v, k) ==
    LET at == Places(CString(v), <<"%", "2", "c">>, k)
    IN IF at = {} THEN Len(CString(v)) + 1 ELSE Min(at)

\* Where the part that begins at k ends: before the next comma, as it is encoded
\* for a URL, or with the text.
Comma == <<"%", "2", "C">>
PartEnd(v, k) == LET at == Places(CString(v), Comma, k)
                 IN IF at = {} THEN Len(CString(v)) + 1 ELSE Min(at)

\* One turn of the loop of replaceBuf over the parts of a value: the packet takes
\* the place of the part, and the next one begins behind it and the comma.
EncryptPart(c) ==
    LET v == IF stage = "clear" THEN ValueAt(start, size) ELSE text
        k == split_offset + 1
        end == PartEnd(v, k)
        packet == Flagged(Heads[1] \o Hexadecimal(c))
    IN /\ stage \in {"clear", "parts"} /\ request.type = "POSTURLSPLIT"
       /\ Len(c) = Len(replaceURLcode(SubSeq(v, k, end - 1)))
       /\ ciphers' = Append(ciphers, c)
       /\ text' = SubSeq(v, 1, k - 1) \o packet \o SubSeq(v, end, Len(v))
       /\ IF end > Len(CString(v)) THEN stage' = "sealed" /\ UNCHANGED split_offset
          ELSE stage' = "parts" /\ split_offset' = split_offset + Len(packet) + Len(Comma)
       /\ UNCHANGED <<request, found, start, size, pass, space, bufs, page>>

\* replaceEnBuf: the body with the encoded value in the place of the value.
Upload == IF size = 0 THEN Body
          ELSE SubSeq(Body, 1, start - 1) \o text \o SubSeq(Body, start + size, Len(Body))

\* Mutant: what does not fill a buffer is forgotten.
createchain_Whole(d) ==
    [i \in 1 .. Len(d) \div BufferSize |-> SubSeq(d, (i - 1) * BufferSize + 1, i * BufferSize)]

\* Buffers of one size, the last with the rest; none for an empty body, whose
\* first is sent all the same.
createchain(d) ==
    LET num == (Len(d) + BufferSize - 1) \div BufferSize
    IN [i \in 1 .. num |-> SubSeq(d, (i - 1) * BufferSize + 1, Min({i * BufferSize, Len(d)}))]

Send == /\ stage \in {"kept", "sealed"}
        /\ bufs' = createchain(Upload)
        /\ stage' = "sent"
        /\ UNCHANGED <<request, found, start, size, sealing, text, pass, space, page>>

\* The page, in which commas are what they were: the n-th packet begins behind its
\* head and ends where the filter says.
Show(c, n) ==
    LET shown == Replaced(text, Comma, <<",">>) \o <<Closers[c]>>
        heads == Places(shown, SubSeq(text, 1, 2), 1)
        k == 2 + CHOOSE h \in heads : Cardinality({g \in heads : g <= h}) = n
        packet == SubSeq(shown, k, PacketEnd(shown, k, CloserAt(shown, k, c, FALSE)) - 1)
    IN /\ stage = "sent" /\ size > 0
       /\ open' = c /\ part' = n
       /\ text' = SubSeq(packet, 1, WithoutDots(packet))
       /\ stage' = "shown"
       /\ UNCHANGED <<request, found, start, size, sealing, pass, space, bufs>>

\* ReplaceHtmlCode, and ReplaceBase64Code for the second head.
Decode ==
    LET plain == ReplaceHtmlCode(text) IN
    /\ stage = "shown"
    /\ text' = IF request.type \in InDigits THEN ReplaceBase64Code(plain) ELSE plain
    /\ stage' = "opened"
    /\ UNCHANGED <<request, found, start, size, sealing, pass, space, bufs, page>>

Next == \/ Lookup \/ Search \/ ReplacePost \/ Send \/ Decode
        \/ \E c \in CiphersOf(request) : EncryptData(c) \/ EncryptDataBase64(c) \/ EncryptPart(c)
        \/ \E c \in Opens, n \in DOMAIN ciphers : Show(c, n)

Spec == Init /\ [][Next]_vars

-------------------------------------------------------------------------------
(* Properties                                                               *)

\* Everything stays within its type, and four bytes for each byte of ciphertext,
\* with the head and the flag, are the most a packet takes.
TypeOK ==
    /\ found \in SUBSET FormPlaces(request.sites) /\ Cardinality(found) <= 1
    /\ start \in 0 .. Len(Body) /\ start + size <= Len(Body) + 1
    /\ ciphers \in Seq(CiphersOf(request)) /\ split_offset \in Nat
    /\ part \in 1 .. Max({1, Len(ciphers)})
    /\ text \in Text
    /\ Len(text) <= 4 * Len(FlattenSeq(ciphers)) + 3 * Len(ciphers)
                     + (IF request.type = "POSTURLSPLIT" THEN size ELSE 0)
    /\ pass \in 0 .. Len(EscapedBytes) /\ space \in {"ok", "overrun"}
    /\ bufs \in Seq(Text) /\ open \in Opens \cup {"none"}
    /\ stage \in {"arrived", "search", "kept", "clear", "parts", "passes", "sealed",
                  "sent", "shown", "opened", "declined"}

\* What a pattern is meant for: the star stands for any text.
Meant(url, pattern) ==
    IF Star \notin ToSet(pattern) THEN url = pattern
    ELSE LET star == Min({k \in DOMAIN pattern : pattern[k] = Star})
             left == SubSeq(pattern, 1, star - 1)
             right == SubSeq(pattern, star + 1, Len(pattern))
         IN IsPrefix(left, url) /\ IsSuffix(right, url) /\ Len(left) + Len(right) <= Len(url)

\* The form applied is the first whose pattern is meant for the URL, unless in
\* some pattern text follows a star, the star would stand for nothing, or the
\* URL has a star itself.
LookupExplained ==
    stage # "arrived" =>
      LET forms == {ij \in FormPlaces(request.sites) :
                      request.sites[ij[1]].proxyhost = request.server}
          UrlOf(ij) == request.sites[ij[1]].urls[ij[2]]
      IN \/ found = FirstOf({ij \in forms : Meant(request.url, UrlOf(ij))})
         \/ \E ij \in forms : /\ Star \in ToSet(UrlOf(ij))
                              /\ \/ Star \in ToSet(Front(UrlOf(ij)))
                                 \/ Len(request.url) < Len(UrlOf(ij))
                                 \/ Star \in ToSet(request.url)

\* The places behind the name, wherever it is in the body.
Named == {k + NameAt(Body, request.name, k) : k \in
            {i \in DOMAIN Body : NameAt(Body, request.name, i) > 0}}

\* What of the name is before its first star, and behind it, if it has one.
BeforeStar ==
    LET stars == {j \in DOMAIN request.name : request.name[j] = Star}
    IN IF stars = {} THEN request.name ELSE SubSeq(request.name, 1, Min(stars) - 1)
AfterStar == SubSeq(request.name, Len(BeforeStar) + 2, Len(request.name))

\* The text before the place k looks like the beginning of the name; so the
\* search has begun to compare there, and does not try again at k.
Restarts(k) == \E i \in 1 .. k - 1 : IsPrefix(SubSeq(Body, i, k - 1), BeforeStar)

\* The byte behind the star is in the text behind the place k before all of
\* what follows the star is.
Commits(k) ==
    LET at == {i \in k + Len(BeforeStar) .. Len(Body) : IsPrefix(<<Body[i]>>, AfterStar)}
    IN at = {} \/ Min(at) \notin Places(Body, AfterStar, Min(at))

\* A star of the name is met as a byte before the place k: there is one in the
\* body, or the name has a second one.
Before(b, k) == b \in ToSet(SubSeq(Body, 1, k - 1))
Starred(k) == Star \in ToSet(request.name) /\ (Before(Star, k) \/ Star \in ToSet(AfterStar))

\* What is encrypted stands behind the name, and is the first value that does.
\* If it is not, the text before it has a zero byte, at which the search ends
\* with what it has, or a star is compared as a byte; or the text before the
\* name looks like its beginning; the name is a pattern of a type that may not
\* have one, begins with its star, or what follows the star is there in part
\* before it is as a whole; or the value is empty or encrypted already.
FoundExplained ==
    /\ size > 0 => start \in Named \/ Before(Nul, start + 1) \/ Starred(start)
    /\ stage \notin {"arrived", "search", "declined"} /\ Named # {} /\ start # Min(Named) =>
         LET first == Min(Named)
             k == Min({i \in DOMAIN Body : NameAt(Body, request.name, i) > 0
                                           /\ i + NameAt(Body, request.name, i) = first})
         IN \/ Restarts(k) \/ Before(Nul, first) \/ Starred(first)
            \/ Star \in ToSet(request.name)
                 /\ (request.type \notin Patterned \/ BeforeStar = <<>> \/ Commits(k))
            \/ LengthAt(first) <= 0 \/ IsEncryptData(ValueAt(first, LengthAt(first)))

\* The chain is the body that the length in the header was computed from, in
\* full, and has a first buffer, unless the body is empty: then it has none, and
\* what is sent is behind the end of an array of no links.
ChainWhole == stage = "sent" => /\ FlattenSeq(bufs) = Upload
                                /\ bufs = <<>> => Upload = <<>>
                                /\ <<>> \notin ToSet(bufs)

\* Text in which encoding for a URL, or undoing that, changes something.
Coded(s) == ToSet(s) \cap {" ", "%", "&"} # {}

\* What is encrypted is what the user typed, except that "+" is not the blank
\* it stands for in a body that is URL-encoded, that POSTFORMSW undoes an
\* encoding that its body never had, and that URLJSON keeps the one it has.
PlainExact ==
    stage = "clear" /\ start = request.at =>
      \/ Plain = request.typed
      \/ request.type \in Decoding \ Multipart /\ " " \in ToSet(request.typed)
      \/ request.type = "POSTFORMSW" /\ "%" \in ToSet(request.typed)
      \/ request.type = "URLJSON" /\ Coded(request.typed)

\* Of a value that commas divide, each part that the user typed becomes a packet,
\* also an empty one, in their order, and nothing of it stays in clear.
PartsApart ==
    stage = "sealed" /\ request.type = "POSTURLSPLIT" /\ start = request.at =>
      LET commas == {i \in DOMAIN request.typed : request.typed[i] = ","}
          marks == SetToSortSeq(commas \cup {0, Len(request.typed) + 1}, LAMBDA i, k : i < k)
      IN /\ Len(ciphers) = Len(marks) - 1
         /\ \A n \in DOMAIN ciphers : Len(ciphers[n]) = marks[n + 1] - marks[n] - 1
         /\ text = FlattenSeq([n \in DOMAIN ciphers |->
                      (IF n = 1 THEN <<>> ELSE Comma) \o Flagged(Heads[1] \o Hexadecimal(ciphers[n]))])

\* Ciphertext with those bytes escaped that the first n passes escape.
Escaped(d, n) ==
    FlattenSeq([i \in DOMAIN d |->
        IF \E m \in 1 .. n : ByteAt(m) = d[i]
        THEN Escape(CHOOSE m \in 1 .. n : ByteAt(m) = d[i]) ELSE <<d[i]>>])

\* After each pass of replace_post the buffer begins with the head and the
\* ciphertext escaped so far, and after the last it holds nothing else: the
\* length computed by replace_counts is what the passes take, and no pass
\* escapes what another one wrote, or the zeros behind the text for more than
\* the end of the buffer pushes out.
PassesExact ==
    /\ stage = "passes" => IsPrefix(Heads[0] \o Escaped(ciphers[1], pass), text)
    /\ stage = "sealed" /\ request.type \notin InDigits =>
         text = Flagged(Heads[0] \o Escaped(ciphers[1], Len(EscapedBytes)))

\* A pass writes past its space only where 0xff is the first byte of the
\* ciphertext: it is the first of the part that the pass works on, and
\* replace_counts does not count it there.
OverrunNeedsFlag == space = "overrun" => ciphers[1][1] = "ff"

\* Ciphertext that reads like an escape.
Accident(d) == \E n \in Escapes : Places(d, Escape(n), 1) # {}

\* Ciphertext in which the filter sees the end of the packet: what is not
\* escaped of the things that end one.
Broken(d) == \/ \E s \in Terminators : Places(d, s, 1) # {} /\ ToSet(s) \cap Specials = {}
             \/ open = "(" /\ ")" \in ToSet(d)
             \/ IsSuffix(Dots, d)

\* What the filter takes out of a page and decodes is the ciphertext again,
\* except where that, written as it is, reads like an escape or holds what
\* ends a packet; EncryptDataBase642 puts a byte of its head in front.
Returned ==
    stage = "opened" =>
       LET cipher == ciphers[part] IN
       IF request.type \notin InDigits THEN text = cipher \/ Accident(cipher) \/ Broken(cipher)
       ELSE text = IF request.type = "URLJSON" THEN <<"fe">> \o cipher ELSE cipher
===============================================================================
