--------------------------- MODULE MCDecryptFilter ---------------------------
(* Constants of the runs of DecryptFilter.                                  *)
EXTENDS DecryptFilter

CONSTANTS r1, r2

TwoResponses == {r1, r2}

\* A piece of a response: its bytes as upstream sends them, what the client
\* should see of it, and the flaw, if it is one, of a buffer that ends behind
\* the first i - 1 of its bytes.  A buffer of the model stands for a full one: its
\* text that is far from any packet is left out.
Text(s) == [code |-> s, plain |-> s, type |-> "text", begin |-> 0, end |-> 0, flagged |-> FALSE,
            flaw |-> [i \in DOMAIN s |-> "none"]]

Raw(n) == SubSeq(Cipher, 1, n)
Shown(n) == SubSeq(Letters, 1, n)

\* A packet behind a character that opens it, and what closes it.  The flaws are
\* a head cut off from what is before it ("opener"), a head that is cut ("head"),
\* an escape that is cut, and a cut between the packet and its closer ("ending").
Packet(open, type, cipher, plain, close) ==
    LET body == IF type = 0 THEN cipher ELSE Hexadecimal(cipher)
        begin == 1 + Len(Heads[type])
        end == begin + Len(body)
        FlawOf(o) ==
            CASE o = 1 -> "opener"
              [] o > 1 /\ o < begin -> "head"
              [] o > end -> "ending"
              [] \E k \in Places(body, Escape(1), 1) : begin + k <= o /\ o <= begin + k + 2 -> "escape"
              [] OTHER -> "none"
    IN [code |-> <<open>> \o Heads[type] \o body \o close,
        plain |-> <<open>> \o plain \o SelectSeq(close, LAMBDA b : b # EndFlag),
        type |-> type, begin |-> begin, end |-> end, flagged |-> close[1] = EndFlag,
        flaw |-> [i \in 1 .. end + Len(close) |-> FlawOf(i - 1)]]

\* What is seen of a piece when buffers end behind as many bytes as at says.  A
\* packet whose head ends a buffer stays as it is, but for the spelled head,
\* which disappears; and the part of a packet that is in a third buffer stays,
\* and half a byte before it may be lost.
Expected(piece, at) ==
    LET last == Max(at)
        body == SubSeq(piece.code, piece.begin + 1, last)
        done == IF piece.type = 0 THEN Len(body) - 3 * Cardinality(Places(body, Escape(1), 1))
                                  ELSE Len(body) \div 2
    IN IF piece.begin \in at
       THEN IF piece.type = 2 THEN <<piece.code[1]>> \o SubSeq(piece.code, piece.begin + 1, Len(piece.code))
                              ELSE piece.code
       ELSE IF Cardinality(at) < 2 \/ \E o \in at : piece.flaw[o + 1] # "none" THEN piece.plain
       ELSE SubSeq(piece.plain, 1, 1 + done) \o SubSeq(piece.code, last + 1, Len(piece.code))

Neighbours ==
    {Text(<<"t", "\n">>),
     Packet("\"", 0, Raw(3), Shown(3), <<"\"">>),
     Packet(">", 1, <<"c1", " ">>, <<"p1", "blank">>, <<"<">>),
     Packet("=", 0, Raw(2), Shown(2), <<"fd", "t", "&">>),
     Packet("\"", 2, Raw(1), Shown(1), <<"\"">>)}
Pieces ==
    {Packet("\"", 0, Raw(6), Shown(6), <<"\"">>),
     Packet("\"", 1, Raw(2), Shown(2), <<"\"">>),
     Packet(">", 0, Raw(3), Shown(3), Dots \o <<"<">>),
     Packet("(", 0, <<"c1">> \o Escape(1) \o <<"c3">>, <<"p1", "blank", "p3">>,
            <<"&", "n", "b", "s", "p", ";", ")">>)}
FewPieces == {Packet("\"", 0, Raw(2), Shown(2), <<"\"">>), Packet(">", 1, Raw(2), Shown(2), <<"<">>)}

\* If every packet is between tags, a head may be cut.
TagPieces == {Text(<<"t", "\n">>),
              [Packet(">", 0, Raw(3), Shown(3), <<"<">>) EXCEPT !.flaw[3] = "none"]}

\* One call, or one call for each piece, which is a line then.  If the last call
\* has no data of its own it has the buffer without data.
Response(stream, plain, chains, flaws, twice) ==
    [chains |-> IF Last(stream) = "\n" THEN Append(chains, << <<>> >>) ELSE chains,
     plain |-> plain, flaws |-> flaws, twice |-> twice]

\* One call whose stream is cut behind its a-th and its b-th byte.  A buffer that
\* begins within a packet may be so short that it is not looked at ("short").
\* The byte repeated after an end flag may be one of another packet ("flag").
OneCall(ps, a, b) ==
    LET stream == FlattenSeq([i \in DOMAIN ps |-> ps[i].code])
        before == [i \in DOMAIN ps |-> Len(FlattenSeq([j \in 1 .. i - 1 |-> ps[j].code]))]
        At(i) == {c - before[i] : c \in {a, b}} \cap 1 .. Len(ps[i].code) - 1
        Within(i, c) == c - before[i] \in 2 .. ps[i].end
        Twice(i) == /\ ps[i].flagged /\ ps[i].begin \notin At(i)
                    /\ Cardinality(At(i) \cap ps[i].begin .. ps[i].end) = 1
        short == \E i \in DOMAIN ps :
                    \/ Within(i, a) /\ b > a /\ b <= a + 3
                    \/ /\ Within(i, b) /\ b + 3 >= Len(stream)
                       /\ a = b \/ a < before[i] + ps[i].begin
        again == \E i, j \in DOMAIN ps : i < j /\ Twice(i) /\ Within(j, b)
        flaws == UNION {{ps[i].flaw[o + 1] : o \in At(i)} : i \in DOMAIN ps}
                    \cup (IF short THEN {"short"} ELSE {}) \cup (IF again THEN {"flag"} ELSE {})
    IN Response(stream, FlattenSeq([i \in DOMAIN ps |-> Expected(ps[i], At(i))]),
                <<SelectSeq(<<SubSeq(stream, 1, a), SubSeq(stream, a + 1, b),
                              SubSeq(stream, b + 1, Len(stream))>>, LAMBDA buf : buf # <<>>)>>,
                flaws \ {"none"}, \E i \in DOMAIN ps : Twice(i))
Lengths(ps) == FoldLeft(LAMBDA n, p : n + Len(p.code), 0, ps)
Calls(ps) ==
    LET Lines(f(_)) == [i \in DOMAIN ps |-> Append(f(ps[i]), "\n")]
        code == Lines(LAMBDA p : p.code)
    IN {Response(FlattenSeq(code), FlattenSeq(Lines(LAMBDA p : p.plain)),
                 [i \in DOMAIN ps |-> <<code[i]>>], {}, FALSE)}

Bodies(pieces, n) == SeqOf(pieces, n) \ {<<>>}

AllCuts(ps) ==
    LET places == 0 .. Lengths(ps) - 1
    IN UNION {{OneCall(ps, a, b) : b \in a .. Lengths(ps) - 1} : a \in places}
OneCut(ps) == {OneCall(ps, 0, b) : b \in 0 .. Lengths(ps) - 1}

Nothing == [chains |-> <<>>, plain |-> <<>>, flaws |-> {}, twice |-> FALSE]
Pairs(firsts, seconds) == {r1 :> a @@ r2 :> b : a \in firsts, b \in seconds}
Few == UNION {Calls(ps) : ps \in Bodies(FewPieces, 2)}
        \cup {b \in UNION {OneCut(ps) : ps \in Bodies(FewPieces, 1)} : b.flaws = {}}

\* A response alone; one behind, before and between the calls of another; and
\* two whose packets are between tags.
Cutting(pieces, n) == UNION {AllCuts(ps) : ps \in Bodies(pieces, n)}
AllLoads == Pairs(Cutting(Neighbours, 2), {Nothing})
             \cup Pairs(Cutting(Pieces, 1), Few)
             \cup Pairs(Cutting(TagPieces, 2), Cutting(TagPieces, 1))

\* A packet at the end of a line, behind a character whose closer is not there.
OpenLine == {r1 :> b @@ r2 :> Nothing :
               b \in Calls(<<Text(<<"t", "t">>), Packet("=", 0, Raw(2), Shown(2), <<"\n">>)>>)}
===============================================================================
