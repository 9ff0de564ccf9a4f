--------------------------- MODULE MCFieldRewrite ---------------------------
(* Constants of the runs of FieldRewrite.                                   *)
EXTENDS FieldRewrite

XOnly == {"x"}

\* A value as a client sends it.
Plain(name, data, prefix) ==
    [name |-> name, prefix |-> prefix, data |-> data, size |-> Len(data), layers |-> 0]

Values(names, prefixes) ==
    {Plain(name, data, prefix) :
       name \in names, data \in {<<>>, <<"x">>}, prefix \in prefixes}

Literal(name, types) == {[names |-> {name}, wild |-> FALSE, type |-> t] : t \in types}
Pattern(names, types) == {[names |-> names, wild |-> TRUE, type |-> t] : t \in types}

None == {}

\* Bodies of up to three values under two names a policy knows and one it does
\* not; and URLs that end in a parameter a policy knows, or in another.
PostBodies == BoundedSeq(Values({"a", "b", "c"}, {FALSE}) \cup Values({"a"}, {TRUE}), 3)
GetUrls == {b \o e : b \in BoundedSeq(Values({"a", "b"}, {FALSE}), 3),
                     e \in {<<>>, <<Plain("c", <<"x">>, FALSE)>>}}

AnyField == Literal("a", Types)
              \cup Literal("b", {"POSTURL", "POSTURLS"})
              \cup Pattern({"a", "b"}, {"POSTURLSW", "URLJSON", "POSTURL"})
TwoFields == AnyField \X AnyField

\* The smallest requests that go wrong.
TwoValues == {<<v, w>> : v, w \in Values({"a"}, {FALSE})}
SeveralOnly == {<<f>> : f \in Literal("a", {"POSTURLS"})}
=============================================================================
