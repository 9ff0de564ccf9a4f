----------------------------- MODULE SubsContract -----------------------------
(***************************************************************************)
(* What the substitution filter promises for one response: the client gets *)
(* the upstream body with every pair applied to each of its lines, whatever*)
(* pieces the body arrives and leaves in, and gets its end.  The text the  *)
(* client is owed is defined by the positions of the matches in the whole  *)
(* body, without reference to how the filter works.                        *)
(*                                                                         *)
(* What a pair looks for is the sequence of the texts that it matches, in  *)
(* the order in which it tries them at a place: one text, or all that a    *)
(* regular expression stands for.  What it puts there may quote the match. *)
(***************************************************************************)
EXTENDS SequencesExt

CONSTANTS Responses,  \* the responses upstream may give
          LF,         \* the byte that ends a line
          Quote       \* in what a pair puts there: the text matched

VARIABLES response,  \* what is known of the response from its header
          received,  \* the body upstream has delivered
          ended,     \* has upstream delivered all of it
          sent,      \* the body the client has got
          closed     \* has the client been told that this is all

vars == <<response, received, ended, sent, closed>>

\* A response is left alone without pairs to apply or for any of the reasons
\* in exempt.
Rewritten(r) == r.pairs # <<>> /\ r.exempt = {}

\* The texts that fit at the place i; an empty one only as an expression.
Fitting(line, pair, i) ==
    {n \in DOMAIN pair.match : /\ pair.regex \/ pair.match[n] # <<>>
                               /\ IsPrefix(pair.match[n], SubSeq(line, i, Len(line)))}
Matches(line, pair) == {i \in DOMAIN line : Fitting(line, pair, i) # {}}
SizeAt(line, pair, i) == Len(pair.match[Min(Fitting(line, pair, i))])

\* Of overlapping matches the leftmost counts: the matches of which none begins
\* inside another that counts.  What is anchored matches at the beginning of the
\* line, and again behind each of its matches.
Counted(line, pair) ==
    LET M == Matches(line, pair)
        end == [i \in M |-> i + SizeAt(line, pair, i)]
    IN CHOOSE C \in SUBSET M : \A i \in M :
         i \in C <=> LET before == {j \in C : j < i}
                    IN /\ \A j \in before : end[j] <= i
                       /\ pair.anchored => i = 1 \/ \E j \in before : end[j] = i

Filled(sub, text) == FlattenSeq([n \in DOMAIN sub |-> IF sub[n] = Quote THEN text ELSE <<sub[n]>>])

Substituted(line, pair, C) ==
    LET size == [i \in C |-> SizeAt(line, pair, i)]
    IN FlattenSeq([i \in DOMAIN line |->
         (IF i \in C THEN Filled(pair.sub, SubSeq(line, i, i + size[i] - 1)) ELSE <<>>)
           \o (IF \E j \in C : j <= i /\ i < j + size[j] THEN <<>> ELSE <<line[i]>>)])

\* A pair marked once replaces only the first match of the response.
Apply(lines, pair) ==
    LET at == SelectInSeq(lines, LAMBDA line : Counted(line, pair) # {})
        C(n) == LET all == Counted(lines[n], pair)
                IN IF ~ pair.once THEN all ELSE IF n = at THEN {Min(all)} ELSE {}
    IN [n \in DOMAIN lines |-> Substituted(lines[n], pair, C(n))]

\* The lines complete so far; at the end of the body its rest is one, too.
Lines(text, whole) ==
    LET ends == {i \in DOMAIN text : text[i] = LF}
                  \cup (IF whole THEN {Len(text)} ELSE {})
        first(e) == Max({b \in ends \cup {0} : b < e}) + 1
    IN [n \in 1 .. Cardinality(ends \ {0}) |->
         LET e == CHOOSE e \in ends : Cardinality({b \in ends \ {0} : b <= e}) = n
         IN SubSeq(text, first(e), e)]

Owed(r, text, whole) ==
    IF Rewritten(r)
    THEN FlattenSeq(FoldLeft(Apply, Lines(text, whole), r.pairs))
    ELSE text

\* An expression finds the empty text somewhere in a line, where it will find it
\* again and again.
Endless(r, text, whole) ==
    Rewritten(r) /\ \E n \in DOMAIN r.pairs :
      LET pair == r.pairs[n]
          lines == FoldLeft(Apply, Lines(text, whole), SubSeq(r.pairs, 1, n - 1))
      IN ~ pair.once /\ \E m \in DOMAIN lines :
           \E i \in Counted(lines[m], pair) : SizeAt(lines[m], pair, i) = 0

Init == /\ response \in Responses
        /\ received = <<>>
        /\ ended = FALSE
        /\ sent = <<>>
        /\ closed = FALSE

\* Upstream delivers more, or all, of the body.
Arrive == /\ ~ ended
          /\ IsPrefix(received, received')
          /\ ended' \in BOOLEAN

\* The client gets more of what it is owed by now.
Deliver == LET owed == Owed(response, received', ended')
           IN /\ IsPrefix(sent, sent')
              /\ IsPrefix(sent', owed)
              /\ closed => closed'
              /\ closed' => ended' /\ sent' = owed

Next == /\ Arrive \/ UNCHANGED <<received, ended>>
        /\ Deliver
        /\ UNCHANGED response

\* A body that has ended is delivered whole, unless the filter cannot get past a
\* line of it.
Finished == ended /\ ~ Endless(response, received, ended) ~> closed

Spec == Init /\ [][Next]_vars /\ Finished
===============================================================================
