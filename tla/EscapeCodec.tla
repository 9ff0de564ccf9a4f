----------------------------- MODULE EscapeCodec -----------------------------
(***************************************************************************)
(* How ciphertext is written into a request and read in a response.  Either *)
(* the bytes that a browser or an application would change are escaped, "$" *)
(* and two digits and ";" for each (replace_counts, replace_post), or every *)
(* byte is written with two digits (EncryptDataBase64).  ReplaceHtmlCode    *)
(* and ReplaceBase64Code go back.                                           *)
(*                                                                         *)
(* A byte is a string: a printable one is itself, another is written with   *)
(* its two hexadecimal digits.                                              *)
(***************************************************************************)
EXTENDS SequencesExt

\* The bytes that are escaped, in the order in which replace_post replaces
\* them, and the digits of each.
EscapedBytes ==
    << <<" ", "2", "0">>, <<"\n", "0", "a">>, <<"\r", "0", "d">>, <<"<", "3", "c">>,
       <<"&", "2", "6">>, <<"\"", "2", "2">>, <<">", "3", "e">>, <<"'", "2", "7">>,
       <<"%", "2", "5">>, <<"+", "2", "b">>, <<"(", "2", "8">>, <<"/", "2", "f">>,
       <<"[", "5", "b">>, <<":", "3", "a">>, <<"-", "2", "d">>, <<"]", "5", "d">>,
       <<"00", "0", "0">>, <<"fd", "f", "d">>, <<"ff", "f", "f">>, <<"\\", "5", "c">> >>

Escapes == DOMAIN EscapedBytes
ByteAt(n) == EscapedBytes[n][1]
Escape(n) == <<"$", EscapedBytes[n][2], EscapedBytes[n][3], ";">>
Specials == {ByteAt(n) : n \in Escapes}

\* The first escape that replaces 0xff does so behind the head.
FlagPass == CHOOSE n \in Escapes : ByteAt(n) = "ff"

\* The text that stands for some characters of a page, in the order in which
\* ReplaceHtmlCode looks for it; a line break stands for nothing.
Entities ==
    << <<<<"&", "q", "u", "o", "t", ";">>, <<"\"">> >>,
       <<<<"<", "b", "r", " ", "/", ">">>, <<>> >>,
       <<<<"&", "g", "t", ";">>, <<">">> >>,
       <<<<"&", "l", "t", ";">>, <<"<">> >>,
       <<<<"&", "#", "0", "3", "9", ";">>, <<"'">> >>,
       <<<<"&", "a", "m", "p", ";">>, <<"&">> >> >>

-------------------------------------------------------------------------------
\* Where in d the sequence s begins, among the places from i on.
Places(d, s, i) == {k \in i .. Len(d) - Len(s) + 1 : SubSeq(d, k, k + Len(s) - 1) = s}

\* replace_str, replace_char, strings_replace1, strings_replace2: every
\* occurrence of old, which cannot overlap another, becomes new.
Replaced(d, old, new) ==
    LET at == Places(d, old, 1)
        Part(i) == CASE i \in at -> new
                     [] \E k \in at : k < i /\ i < k + Len(old) -> <<>>
                     [] OTHER -> <<d[i]>>
    IN IF at = {} THEN d ELSE FlattenSeq([i \in DOMAIN d |-> Part(i)])

\* Mutant: an escape counts as four bytes more.
replace_counts_Four(d) ==
    4 * Cardinality({i \in DOMAIN d : d[i] \in Specials /\ (d[i] = "ff" => i > 1)})

\* What escaping adds to the length: three bytes for each byte escaped, 0xff
\* in the first place not counted.
replace_counts(d) ==
    3 * Cardinality({i \in DOMAIN d : d[i] \in Specials /\ (d[i] = "ff" => i > 1)})

\* The bytes that the n-th pass of replace_post works on.
Part(n, d) == IF n = FlagPass THEN SubSeq(d, 3, Len(d)) ELSE d

\* Mutant: 0xff is escaped in the head as well.
replace_post_Twice(n, d) == SubSeq(Replaced(d, <<ByteAt(n)>>, Escape(n)), 1, Len(d))

\* replace_strs and replace_chars: the text keeps its length.
replace_post(n, d) ==
    SubSeq(d, 1, Len(d) - Len(Part(n, d)))
        \o SubSeq(Replaced(Part(n, d), <<ByteAt(n)>>, Escape(n)), 1, Len(Part(n, d)))

\* Mutant: the copy has no space for the escapes.
Overruns_NoOffset(n, d) ==
    Len(Replaced(Part(n, d), <<ByteAt(n)>>, Escape(n))) > Len(Part(n, d))

\* Is more written in that pass than the space allocated for it.
Overruns(n, d) ==
    LET part == Part(n, d)
    IN Len(Replaced(part, <<ByteAt(n)>>, Escape(n))) > Len(part) + replace_counts(part)

\* Mutant: one escape is forgotten.
ReplaceHtmlCode_NoFlag(d) ==
    FoldLeft(LAMBDA s, n : IF n = FlagPass THEN s ELSE Replaced(s, Escape(n), <<ByteAt(n)>>),
             d, [n \in Escapes |-> n])

\* Entities first, then the escapes in their order.
ReplaceHtmlCode(d) ==
    FoldLeft(LAMBDA s, n : Replaced(s, Escape(n), <<ByteAt(n)>>),
             FoldLeft(LAMBDA s, e : Replaced(s, e[1], e[2]), d, Entities),
             [n \in Escapes |-> n])

-------------------------------------------------------------------------------
\* "%02X" of the bytes that occur in ciphertext here; Unreadable is read from
\* any other pair of digits.
Unreadable == "?"
HexTable ==
    << <<"c1", "C", "1">>, <<"c2", "C", "2">>, <<"c3", "C", "3">>, <<"fe", "F", "E">>,
       <<"$", "2", "4">>, <<"0", "3", "0">>, <<"2", "3", "2">>, <<";", "3", "B">>,
       <<")", "2", "9">>, <<".", "2", "E">>, <<"a1", "A", "1">>, <<"bc", "B", "C">>,
       <<" ", "2", "0">>, <<"00", "0", "0">>, <<"fd", "F", "D">>, <<"ff", "F", "F">>,
       <<"\\", "5", "C">>, <<"%", "2", "5">>, <<"&", "2", "6">>, <<",", "2", "C">> >>
HexDigits == [b \in {HexTable[i][1] : i \in DOMAIN HexTable} |->
                 LET at == CHOOSE i \in DOMAIN HexTable : HexTable[i][1] = b
                 IN <<HexTable[at][2], HexTable[at][3]>>]

\* hexchar2int, for both digits.
ByteOf(high, low) ==
    LET is == {b \in DOMAIN HexDigits : HexDigits[b] = <<high, low>>}
    IN IF is = {} THEN Unreadable ELSE CHOOSE b \in is : TRUE

Hexadecimal(d) == FlattenSeq([i \in DOMAIN d |-> HexDigits[d[i]]])

\* ReplaceBase64Code: an odd digit at the end is dropped.
ReplaceBase64Code(d) == [i \in 1 .. Len(d) \div 2 |-> ByteOf(d[2 * i - 1], d[2 * i])]

\* Mutant: the two digits stay in the text.
replaceURLcode_All(d) ==
    FlattenSeq([i \in DOMAIN d |->
        IF d[i] = "%" THEN <<IF i + 2 > Len(d) THEN Unreadable ELSE ByteOf(d[i + 1], d[i + 2])>>
        ELSE <<d[i]>>])

\* "%" and two digits become the byte; "+" stays.
replaceURLcode(d) ==
    LET from[i \in 1 .. Len(d) + 3] ==
          IF i > Len(d) THEN <<>>
          ELSE IF d[i] # "%" THEN <<d[i]>> \o from[i + 1]
          ELSE <<IF i + 2 > Len(d) THEN Unreadable ELSE ByteOf(d[i + 1], d[i + 2])>> \o from[i + 3]
    IN from[1]
===============================================================================
