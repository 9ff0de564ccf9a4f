---------------------------- MODULE MCSubsFilter ----------------------------
(* Constants of the runs of SubsFilter.                                     *)
EXTENDS SubsFilter

ByteTexts(n) == BoundedSeq({"a", "b", LF}, n)

\* One buffer of up to two bytes, or two of which either may be empty.
ShortChains == {<<t>> : t \in ByteTexts(2)}
                 \cup {<<"a">>, <<>>} \X {<<>>, <<"b">>, <<LF>>}

\* Every pair that the interesting cases need: one that shortens and can meet
\* itself ("aa"), one whose result feeds the next, one used only once, one that
\* empties a line, and one with an empty match, which never matches.
Fixed(text, sub, once) ==
    [match |-> <<text>>, sub |-> sub, once |-> once, regex |-> FALSE, anchored |-> FALSE]
Shorten == Fixed(<<"a", "a">>, <<"b">>, FALSE)
Grow == Fixed(<<"b">>, <<"a", "b", "a">>, FALSE)
Once == Fixed(<<"b">>, <<>>, TRUE)
Drop == Fixed(<<"a", LF>>, <<>>, FALSE)
Void == Fixed(<<>>, <<"b">>, FALSE)

\* Regular expressions, by the texts they match: "ab|b", which quotes its match,
\* "^b", which does so too, and "a*", which is greedy, for all and for one match.
Regex(texts, sub, once, anchored) ==
    [match |-> texts, sub |-> sub, once |-> once, regex |-> TRUE, anchored |-> anchored]
Either == Regex(<< <<"a", "b">>, <<"b">> >>, <<"b", Quote>>, FALSE, FALSE)
AtFront == Regex(<< <<"b">> >>, <<Quote, "a">>, FALSE, TRUE)
Star(once) == Regex(<< <<"a", "a", "a">>, <<"a", "a">>, <<"a">>, <<>> >>, <<"b">>, once, FALSE)

Answer(pairs) == [pairs |-> pairs, exempt |-> {}, length |-> TRUE]

Untouched == {Answer(<<>>), [pairs |-> <<Grow>>, exempt |-> {"encoded"}, length |-> TRUE]}
PlainResponses == {Answer(<<Shorten, Void, Once>>), Answer(<<Grow, Drop>>)}
RegexResponses == {Answer(<<Either>>), Answer(<<AtFront>>), Answer(<<Star(TRUE)>>),
                   Answer(<<Drop, Star(FALSE)>>)}
AllResponses == Untouched \cup PlainResponses \cup RegexResponses

BodyOf(r) == IF r \in RegexResponses \cup Untouched THEN 3 ELSE 4
=============================================================================
