----------------------------- MODULE MCValuePath -----------------------------
(* Constants of the run of ValuePath.                                       *)
EXTENDS ValuePath

AllOpens == DOMAIN Closers

Copies(b, n) == [i \in 1 .. n |-> b]

\* A form as a browser encodes it for a URL.
Encoded(s) ==
    FlattenSeq([i \in DOMAIN s |-> CASE s[i] = " " -> <<"+">>
                                     [] s[i] \in {"%", "&", ","} -> <<"%">> \o HexDigits[s[i]]
                                     [] OTHER -> <<s[i]>>])

\* A request whose body has one field: its name as it stands in the body, the
\* text before and behind the value.  A multipart body begins with its boundary.
Name(type) == IF type \in Multipart THEN <<"n", "=", "\r", "\n">> ELSE <<"&", "n", "=">>
Posted(type, before, pattern, name, typed, behind) ==
    LET front == (IF type \in Multipart THEN <<"--", "\r", "\n">> ELSE <<>>) \o before \o name
        value == IF type \in Multipart THEN typed ELSE Encoded(typed)
        end == CASE type \in Multipart -> <<"\r", "\n", "--">>
                 [] type = "URLJSON" -> <<"%", "2", "2", "%", "7", "D">>
                 [] OTHER -> <<>>
    IN [sites |-> <<[proxyhost |-> "s", urls |-> << <<"/", "a">> >>]>>,
        server |-> "s", url |-> <<"/", "a">>, type |-> type, name |-> pattern,
        body |-> front \o value \o end \o behind, typed |-> typed, at |-> Len(front) + 1]

\* Every ciphertext of up to three bytes; and what reads like an escape or ends
\* a packet, behind one more byte.
Bytes == {"c1", " ", "00", "fd", "ff", "\\", "$", ")", "a1", "bc"}
Longer == {<<b>> \o s : b \in {"c1", "ff", "\\", "$"},
                        s \in {<<"$", "2", "0", ";">>, <<".", ".", ".">>, <<"$", "2", " ", ";">>,
                               <<"ff", "\\", "00">>}}
Ciphers == BoundedSeq(Bytes, 3) \cup Longer
Sealing ==
    {Posted(type, <<>>, Name(type), Name(type), Copies("x", n), <<>>) :
       type \in {"POSTURL", "POSTFORMS", "POSTURLS", "POSTURLSPLIT", "URLJSON"}, n \in 1 .. 5}
      \cup {Posted("POSTURLSPLIT", <<>>, Name("POSTURLSPLIT"), Name("POSTURLSPLIT"), typed, <<>>) :
               typed \in {<<"x", ",", "x">>, <<",", "x">>, <<"x", ",", ",">>}}

\* Patterns for URLs, two to a site, at two sites, of one name or two.
Patterns == {<<"/", "a">>, <<"/", "*">>, <<"/", "a", "*">>, <<"/", "*", "b">>, <<"/", "*", "*">>}
Sites == {<<[proxyhost |-> "s", urls |-> <<u, v>>], [proxyhost |-> host, urls |-> <<w>>]>> :
            u, v, w \in Patterns, host \in {"s", "t"}}
Simple == Posted("POSTURL", <<>>, Name("POSTURL"), Name("POSTURL"), <<"x">>, <<>>)
Looked == {[Simple EXCEPT !.sites = sites, !.server = server, !.url = url, !.body = body] :
             sites \in Sites, server \in {"s", "t"},
             url \in {<<"/">>, <<"/", "a">>, <<"/", "b">>, <<"/", "a", "b">>, <<"/", "a", "*">>},
             body \in {<<>>, Simple.body}}

\* Names and patterns, behind and before other text; and what users type.
Befores(type) ==
    IF type \in Multipart
    THEN {<<>>, <<"n">>, <<"n", "x">>, <<"n", "=">>, <<"00", "\r", "\n", "--", "\r", "\n">>}
    ELSE {<<>>, <<"&">>, <<"&", "n">>, <<"&", "m", "=", "x">>, <<"&", "n", "=">>,
          <<"&", "n", "=", "[", "1f", "C", "1">>, <<"&", "n", "*", "x">>, <<"&", "n", "00", "x">>}
Stars(type) ==
    IF type \in Multipart
    THEN {<<Name(type), Name(type)>>,
          << <<"n", "*", "=", "\r", "\n">>, <<"n", "=", "=", "\r", "\n">> >>}
    ELSE {<<Name(type), Name(type)>>, << <<"&", "n", "*", "=">>, <<"&", "n", "n", "=">> >>,
          << <<"&", "n", "*", "=">>, <<"&", "n", "=">> >>, << <<"*", "n", "=">>, Name(type) >>,
          << <<"&", "n", "*", "=", "*", "x">>, <<"&", "n", "n", "=">> >>}
Typed(type) == BoundedSeq({"x", " ", "%"}, 2) \cup {<<"%", "2", "0">>}
    \cup IF type # "POSTURLSPLIT" THEN {}
         ELSE {<<",">>, <<"x", ",", "%", ",">>, <<"%", "2", "C">>, <<" ", "x", ",", ",", "x">>}
Located ==
    UNION {{Posted(type, before, name[1], name[2], typed, behind) :
              before \in Befores(type), name \in Stars(type), typed \in Typed(type),
              behind \in IF type \in Multipart THEN {<<>>} ELSE {<<>>, <<"&", "m", "=", "x">>}} :
           type \in Types}

CiphersIn(r) == IF r \in Sealing THEN Ciphers ELSE {Copies("c1", n) : n \in 0 .. 8}
AllRequests == Sealing \cup Looked \cup Located
===============================================================================
