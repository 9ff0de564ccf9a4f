---------------------------- MODULE DecryptFilter ----------------------------
(***************************************************************************)
(* replace_ngx_str_t: every encrypted packet in a response is replaced by  *)
(* its plain text.  The body filter runs it twice over the chain of        *)
(* buffers it is about to send; it works on one buffer at a time and calls *)
(* itself until it finds nothing more in it.  A packet that the end of a   *)
(* buffer cuts is decrypted as far as it goes, kept in the response's      *)
(* context, and decrypted again together with the rest.  A head that is    *)
(* cut is announced by endCode; that, the character before the last head   *)
(* (startCode) and the encoding of the last packet (encodetype) belong to  *)
(* the worker and not to a response.                                       *)
(*                                                                         *)
(* Packets says what a packet is and where it ends.  A response may end    *)
(* with a chain whose one buffer has no data, at the address NULL.         *)
(***************************************************************************)
EXTENDS Packets

CONSTANTS Responses,  \* the responses that a worker has under way
          Loads       \* what may pass through them: the chains of a response's
                      \* calls, the plain text that should come out, the flaws
                      \* of the division into buffers, and whether it puts a
                      \* packet's end flag into another buffer than its head

\* Bytes, and chains of buffers; the filter sends on an empty chain without a look
\* at it.
Buffer == Seq(STRING)
Chain == Seq(Buffer) \ {<<>>}

ASSUME LoadsAssumption ==
    \A load \in Loads, r \in Responses :
        load[r] \in [chains : Seq(Chain), plain : Buffer, flaws : SUBSET STRING, twice : BOOLEAN]

VARIABLES ctx,         \* of each response: the chains to come, the packet kept, the output
          run,         \* the call that is being worked on
          startCode, encodetype, endCode,  \* the globals of the worker
          alive        \* FALSE once the worker has died of a bad address

globals == <<startCode, encodetype, endCode>>
vars == <<ctx, run, startCode, encodetype, endCode, alive>>

\* A byte is encrypted by where it is in its packet, and a few of them to
\* bytes that are escaped.
Cipher == <<"c1", "c2", "c3", "c4", "c5", "c6">>
Letters == <<"p1", "p2", "p3", "p4", "p5", "p6">>
Hidden == " " :> "blank" @@ "00" :> "zero"

\* Decrypt_AES256 undoes the encryption of a byte where the byte was encrypted.
Decrypt_AES256(s) ==
    [i \in DOMAIN s |-> CASE s[i] \in DOMAIN Hidden -> Hidden[s[i]]
                          [] i \in DOMAIN Cipher /\ s[i] = Cipher[i] -> Letters[i]
                          [] OTHER -> Unreadable]

PlainOf(type, s) ==
    Decrypt_AES256(IF type = 1 THEN ReplaceBase64Code(ReplaceHtmlCode(s)) ELSE ReplaceHtmlCode(s))

-------------------------------------------------------------------------------
(* The parts of one turn of replace_ngx_str_t over the bytes d of a buffer  *)

\* Mutant: the next buffer is not looked at.
HeadIsCut_First(d, next) == d # <<>> /\ next # <<>> /\ \E t \in ShortHeads : Last(d) = Heads[t][1]

\* The buffer ends with the first byte of a head and the next one starts with
\* the second.
HeadIsCut(d, next) ==
    /\ d # <<>> /\ next # <<>>
    /\ \E t \in ShortHeads : Heads[t] = <<Last(d), Head(next)>>

\* Mutant: only the second head is known.
StartsInHeadOfDigits(d) == endCode /\ d # <<>> /\ Head(d) = "1f"

\* The buffer starts with the second byte of a head that was cut.
StartsInHead(d) == endCode /\ d # <<>> /\ Head(d) \in {"fe", "1f"}

-------------------------------------------------------------------------------
\* No call is being worked on.
Idle == [resp |-> "none"]

Init == /\ \E load \in Loads :
             ctx = [r \in Responses |-> [chains |-> load[r].chains, plain |-> load[r].plain,
                                         lastPacket |-> <<>>, lastDePacketLen |-> 0,
                                         out |-> <<>>, flaws |-> load[r].flaws,
                                         twice |-> load[r].twice]]
        /\ run = Idle
        /\ startCode = "none" /\ encodetype = 0 /\ endCode = FALSE /\ alive = TRUE

\* ngx_http_subs_body_filter has its chain of output and begins the first loop.
BodyFilter(r) ==
    /\ alive /\ run = Idle /\ ctx[r].chains # <<>>
    /\ run' = [resp |-> r, bufs |-> Head(ctx[r].chains), cl |-> 1, pass |-> 1,
               null |-> Head(ctx[r].chains) = << <<>> >>]
    /\ ctx' = [ctx EXCEPT ![r].chains = Tail(@)]
    /\ UNCHANGED <<globals, alive>>

Working == alive /\ run # Idle

\* The buffer at hand, and the one behind it.
Data == run.bufs[run.cl]
Following == IF run.cl < Len(run.bufs) THEN run.bufs[run.cl + 1] ELSE <<>>

\* Mutant: the loop goes on behind the last buffer.
AfterPastEnd(bufs) ==
    IF run.cl <= Len(bufs) THEN [run EXCEPT !.bufs = bufs, !.cl = @ + 1]
    ELSE [run EXCEPT !.bufs = bufs, !.cl = 1, !.pass = @ + 1]

\* The loops go on to the next buffer, or to the second pass.
After(bufs) ==
    IF run.cl < Len(bufs) THEN [run EXCEPT !.bufs = bufs, !.cl = @ + 1]
    ELSE [run EXCEPT !.bufs = bufs, !.cl = 1, !.pass = @ + 1]

\* The bytes of the buffer without the first byte of a head that is cut.
Cut == ~ endCode /\ HeadIsCut(Data, Following)
Bytes == IF Cut THEN Front(Data) ELSE Data

Context == ctx[run.resp]

\* The buffer without data is read when a cut head has been announced.
ReadNull ==
    /\ Working /\ run.pass <= 2 /\ endCode /\ run.null
    /\ alive' = FALSE
    /\ UNCHANGED <<ctx, run, globals>>

\* A turn that finds no packet.
NothingFound ==
    /\ Working /\ run.pass <= 2
    /\ ~ (endCode /\ run.null)
    /\ \/ Len(Bytes) <= 2
       \/ Context.lastPacket = <<>> /\ ~ StartsInHead(Data) /\ FirstHead(Bytes) = {}
    /\ endCode' = (endCode \/ Cut)
    /\ run' = After([run.bufs EXCEPT ![run.cl] = Bytes])
    /\ UNCHANGED <<ctx, startCode, encodetype, alive>>

\* Mutant: the head stays in front of the plain text.
Spliced_KeepsHead(d, h, k, plain, n) == SubSeq(d, 1, k - 1) \o plain \o SubSeq(d, k + n, Len(d))

\* The plain text is copied over the head, and what is behind the n bytes of the
\* packet moves up to it.
Spliced(d, h, k, plain, n) == SubSeq(d, 1, h - 1) \o plain \o SubSeq(d, k + n, Len(d))

\* A packet is decrypted whose head is at h and whose ciphertext begins at k.
Decrypt(h, k, code, type, starts) ==
    LET d == Bytes
        closer == CloserAt(d, k, code, starts)
        open == Continues(d, k, closer)
        end == PacketEnd(d, k, closer)
        flagged == end <= Len(d) /\ d[end] = EndFlag
        packet == SubSeq(d, k, end - 1)
        size == IF open THEN Len(packet) ELSE WithoutDots(packet)
        plain == PlainOf(type, SubSeq(packet, 1, size))
        bufs == [run.bufs EXCEPT ![run.cl] =
                    Spliced(d, h, k, plain, size + (IF flagged THEN 1 ELSE 0))]
    IN IF open
       THEN /\ ctx' = [ctx EXCEPT ![run.resp].lastPacket = packet,
                                  ![run.resp].lastDePacketLen = Len(plain)]
            /\ run' = After(bufs)
       ELSE run' = [run EXCEPT !.bufs = bufs] /\ UNCHANGED ctx

\* A turn that finds a head in the buffer.
DecryptAtHead ==
    /\ Working /\ run.pass <= 2 /\ Len(Bytes) > 2
    /\ Context.lastPacket = <<>> /\ ~ StartsInHead(Data)
    /\ \E kt \in FirstHead(Bytes) :
         /\ startCode' = StartCode(Bytes, kt[1], startCode)
         /\ encodetype' = EncodeType(kt[2])
         /\ Decrypt(kt[1], kt[1] + Len(Heads[kt[2]]), StartCode(Bytes, kt[1], startCode),
                    EncodeType(kt[2]), FALSE)
    /\ endCode' = (endCode \/ Cut)
    /\ UNCHANGED alive

\* A turn in a buffer that starts with the second byte of a head.
DecryptAtStart ==
    /\ Working /\ run.pass <= 2 /\ Len(Bytes) > 2
    /\ Context.lastPacket = <<>> /\ StartsInHead(Data)
    /\ Decrypt(1, 2, startCode, encodetype, TRUE)
    /\ endCode' = FALSE
    /\ UNCHANGED <<startCode, encodetype, alive>>

\* Mutant: the first new byte is left out.
NewPartOneLess(plain, done) == SubSeq(plain, done + 2, Len(plain))

\* What the rest of a packet adds to the plain text.
NewPart(plain, done) == SubSeq(plain, done + 1, Len(plain))

\* A byte of memory, behind the buffer an unknown one.
MemoryAt(d, n) == IF n \in DOMAIN d THEN d[n] ELSE Unreadable

\* A turn in a buffer that begins with the rest of a packet.  The length does
\* not count an end flag, which leaves a byte of the old text at the end; and a
\* negative length of what is new is an enormous one to memcpy.
DecryptRest ==
    /\ Working /\ run.pass <= 2 /\ Len(Bytes) > 2
    /\ Context.lastPacket # <<>>
    /\ LET d == Bytes
           closer == CloserAt(d, 1, startCode, StartsInHead(Data))
           end == PacketEnd(d, 1, closer)
           flagged == end <= Len(d) /\ d[end] = EndFlag
           packet == SubSeq(d, 1, end - 1)
           size == IF Continues(d, 1, closer) THEN Len(packet) ELSE WithoutDots(packet)
           plain == PlainOf(encodetype, Context.lastPacket \o SubSeq(packet, 1, size))
           new == NewPart(plain, Context.lastDePacketLen)
           bytes == new \o SubSeq(d, size + (IF flagged THEN 2 ELSE 1), Len(d))
       IN IF Len(plain) < Context.lastDePacketLen
          THEN /\ alive' = FALSE
               /\ UNCHANGED <<ctx, run>>
          ELSE /\ run' = [run EXCEPT !.bufs[run.cl] =
                             IF flagged THEN Append(bytes, MemoryAt(d, Len(bytes) + 1)) ELSE bytes]
               /\ ctx' = [ctx EXCEPT ![run.resp].lastPacket = <<>>,
                                     ![run.resp].lastDePacketLen = 0]
               /\ UNCHANGED alive
    /\ endCode' = (endCode \/ Cut)
    /\ UNCHANGED <<startCode, encodetype>>

\* Both passes are over: the chain is sent.
Output ==
    /\ Working /\ run.pass > 2
    /\ ctx' = [ctx EXCEPT ![run.resp].out = @ \o FlattenSeq(run.bufs)]
    /\ run' = Idle
    /\ UNCHANGED <<globals, alive>>

Replace == ReadNull \/ NothingFound \/ DecryptAtHead \/ DecryptAtStart \/ DecryptRest

Next == Replace \/ Output \/ \E r \in Responses : BodyFilter(r)

Spec == Init /\ [][Next]_vars

-------------------------------------------------------------------------------
(* Properties                                                               *)

\* The worker's globals and the call at hand stay within their types.
TypeOK ==
    /\ startCode \in DOMAIN Closers \cup {"none"}
    /\ encodetype \in {0, 1} /\ endCode \in BOOLEAN /\ alive \in BOOLEAN
    /\ Working => run.resp \in Responses /\ run.cl \in DOMAIN run.bufs /\ run.pass \in 1 .. 3

Complete(r) == alive /\ ctx[r].chains = <<>> /\ run = Idle

\* A cut head may be lost, and endCode stay: the buffer behind it is too short
\* to be looked at ("short"), or is taken for the rest of a packet that is kept
\* because its opening character ("opener") or its closer ("ending") is in another
\* buffer.
HeadLost == \E r \in Responses : ctx[r].flaws \cap {"short", "opener", "ending"} # {}

\* A response whose division has no flaw comes out as it should when it is
\* complete, whatever other responses the worker has under way: every packet
\* replaced by its plain text and the text around them as it came.  Where a
\* buffer ends right behind a head the packet stays encrypted, and so does the
\* part of a packet that is in a third buffer (src/ngx_cep_httpfilter.c:191, 463).
\* Only a head lost by another response can spoil it.
Decrypted ==
    \A r \in Responses :
       Complete(r) /\ ctx[r].flaws = {} /\ ~ ctx[r].twice /\ ~ HeadLost => ctx[r].out = ctx[r].plain

\* If the end flag of a packet is in another buffer than its head, one byte of
\* the response is sent twice, and nothing else is wrong with it
\* (src/ngx_cep_httpfilter.c:460).
FlagRepeats ==
    \A r \in Responses :
       Complete(r) /\ ctx[r].flaws = {} /\ ctx[r].twice /\ ~ HeadLost =>
          \E i \in DOMAIN ctx[r].plain : ctx[r].out = InsertAt(ctx[r].plain, i, ctx[r].plain[i])

\* The worker dies only when an escape of some response was cut, whose first part
\* decodes to more bytes alone than with the rest (src/ngx_cep_httpfilter.c:457),
\* or a head was lost, by the buffer without data that ends this or another
\* response (src/ngx_cep_httpfilter.c:165).
CrashExplained ==
    ~ alive => HeadLost \/ \E r \in Responses : "escape" \in ctx[r].flaws

\* Between two calls no head is awaited unless one was lost, and a packet is kept
\* only of a response with a flaw: what one response leaves in the worker's
\* globals is not taken up by another.
QuietBetweenCalls ==
    run = Idle => /\ endCode => HeadLost
                  /\ \A r \in Responses : ctx[r].lastPacket = <<>> \/ ctx[r].flaws # {}

\* What is left to do in a buffer: its bytes, and those kept of a packet, which
\* count double: they may come back into the buffer, but are not kept then.
Left == Len(Data) + 2 * Len(Context.lastPacket)

\* The filter calls itself until it finds nothing more in a buffer
\* (src/ngx_cep_httpfilter.c:474), whatever the responses and their divisions.  It
\* comes to an end: a turn goes on in the chain or leaves less to do, also where
\* the plain text, or what a faulty turn left over, looks like a packet again.
TurnsEnd ==
    [][run # Idle /\ run' # Idle /\ alive' =>
         \/ run'.pass > run.pass
         \/ run'.pass = run.pass /\ (run'.cl > run.cl \/ (run'.cl = run.cl /\ Left' < Left))]_vars
===============================================================================
