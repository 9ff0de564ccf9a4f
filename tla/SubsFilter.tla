------------------------------ MODULE SubsFilter ------------------------------
(***************************************************************************)
(* The substitution filter of ngx_encryption_proxy.c on one response: the  *)
(* header filter that decides whether it takes part, the body filter that  *)
(* gathers lines, replaces in them and hands output buffers down, and the  *)
(* reuse of these buffers once they have been sent.                        *)
(*                                                                         *)
(* Buffers are numbered from 1 in the order they are created; 0 stands for *)
(* buffers that are not the filter's own: those of upstream in a response  *)
(* it leaves alone, and the empty one that carries the end of the body.    *)
(* What the buffers contain is in mem, and only there, so a buffer written *)
(* again before it was sent would change what is sent.                     *)
(***************************************************************************)
EXTENDS SequencesExt

CONSTANTS
  Responses,  \* what the upstream header and the location say
  Chains,     \* what upstream may deliver at once: contents of its buffers
  Byte,       \* the bytes of a body, as far as they are told apart
  LF,         \* the byte that ends a line
  Quote,      \* a variable in what a pair puts in the place of a match: the match
  BufSize,    \* size of an output buffer: conf->bufs.size
  MaxInput(_) \* bound: bytes of the body of a response

\* What a pair looks for, and what it puts in the place of a match.
Pair == [match : Seq(Seq(Byte)) \ {<<>>}, sub : Seq(Byte \cup {Quote}),
         once : BOOLEAN, regex : BOOLEAN, anchored : BOOLEAN]

ASSUME ResponsesAssumption ==
    \A r \in Responses : r.pairs \in Seq(Pair) /\ r.length \in BOOLEAN

\* A fixed string is one text, in which a ^ has no meaning.
ASSUME PlainAssumption ==
    \A r \in Responses : \A n \in DOMAIN r.pairs :
      ~ r.pairs[n].regex => Len(r.pairs[n].match) = 1 /\ ~ r.pairs[n].anchored

\* A chain has a buffer: nginx passes an empty chain only to have output flushed.
ASSUME ChainsAssumption == Chains \subseteq Seq(Seq(Byte)) \ {<<>>}

\* The directive for the buffers takes no size 0.
ASSUME SizeAssumption == BufSize \in Nat \ {0}

VARIABLES
  response,   \* [pairs, exempt, length]; a pair is [match, sub, once, regex,
              \* anchored], where match has the texts that it matches in the
              \* order in which they are tried
  headed,     \* has the header been passed on
  installed,  \* is the filter's context set
  announced,  \* does the header passed on have a Content-Length
  received,   \* bytes of the body so far
  ended,      \* the last buffer has come: ctx->last
  line_in,    \* the line begun: ctx->line_in
  matched,    \* pair->matched # 0, of each pair
  bufs,       \* buffers created: ctx->bufs
  free, busy, \* ctx->free, ctx->busy
  mem,        \* the bytes between pos and last of each buffer
  down,       \* buffers the next filters hold, not sent yet
  tail,       \* the end of the body: "none", "queued" or "sent"
  sent,       \* bytes the client has got
  buffered,   \* NGX_HTTP_SUB_BUFFERED in r->connection->buffered
  hung        \* does the worker run in a loop that does not end

filter == <<installed, line_in, matched, bufs, free, busy, buffered, hung>>
wire == <<mem, down, tail, sent>>
vars == <<response, headed, announced, received, ended, filter, wire>>

-------------------------------------------------------------------------------
(* Replacing in a line                                                      *)

\* subs_memmem: where s first occurs in l, 0 if nowhere or if s is empty.
Memmem(l, s) ==
    IF s = <<>> THEN 0
    ELSE LET at == {i \in 1 .. Len(l) - Len(s) + 1 : IsPrefix(s, SubSeq(l, i, Len(l)))}
         IN IF at = {} THEN 0 ELSE Min(at)

\* ngx_regex_exec: the leftmost place of a match, and which text is matched;
\* a set of at most one pair.
RegexExec(l, pair) ==
    LET fits == {in \in (DOMAIN l) \X (DOMAIN pair.match) :
                   /\ pair.anchored => in[1] = 1
                   /\ IsPrefix(pair.match[in[2]], SubSeq(l, in[1], Len(l)))}
    IN {in \in fits : \A other \in fits :
          in[1] < other[1] \/ (in[1] = other[1] /\ in[2] <= other[2])}

Found(l, pair) ==
    IF pair.regex THEN RegexExec(l, pair)
    ELSE {<<at, 1>> : at \in {Memmem(l, pair.match[1])} \ {0}}

\* What is put in the place of a match.
Filled(sub, match) == FoldLeft(LAMBDA t, b : IF b = Quote THEN t \o match ELSE Append(t, b), <<>>, sub)

\* Mutant: pos is set to where the match begins.
BehindItsStart(src, at, match) == SubSeq(src, at, Len(src))

\* pos is set behind the match.
Behind(src, at, match) == SubSeq(src, at + Len(match), Len(src))

\* One turn of the loop in ngx_http_subs_match_fix_substituion or
\* ngx_http_subs_match_regex_substituion.  A turn that takes nothing from src is
\* followed by the same again, unless one is enough.
MatchStep(s, pair) ==
    LET found == Found(s.src, pair)
        in == CHOOSE in \in found : TRUE
        match == pair.match[in[2]]
        src == Behind(s.src, in[1], match)
    IN IF (pair.once /\ s.matched) \/ s.spins \/ found = {}
       THEN s
       ELSE [src |-> src,
             dst |-> s.dst \o SubSeq(s.src, 1, in[1] - 1) \o Filled(pair.sub, match),
             matched |-> TRUE, count |-> s.count + 1,
             spins |-> src = s.src /\ ~ pair.once]

\* Every other turn takes at least a byte.
Substitution(line, pair, already) ==
    FoldLeftDomain(LAMBDA s, i : MatchStep(s, pair),
                   [src |-> line, dst |-> <<>>, matched |-> already, count |-> 0,
                    spins |-> FALSE],
                   line)

\* One pair of ngx_http_subs_match: the buffers are exchanged when the pair
\* before has written to dst.
MatchPair(s, i) ==
    LET pair == response.pairs[i]
        src == IF s.dst # <<>> THEN s.dst ELSE s.src
        done == Substitution(src, pair, s.matched[i])
    IN IF \/ ~ pair.regex /\ Len(src) < Len(pair.match[1])
          \/ pair.once /\ s.matched[i]
          \/ done.count = 0
       THEN [s EXCEPT !.src = src, !.dst = <<>>]
       ELSE [src |-> <<>>, dst |-> done.dst \o done.src,
             matched |-> [s.matched EXCEPT ![i] = TRUE],
             spins |-> s.spins \/ done.spins]

\* ngx_http_subs_match on c.line; c.out collects the output of this call.
Match(c) ==
    LET m == FoldLeftDomain(MatchPair,
                            [src |-> c.line, dst |-> <<>>, matched |-> c.matched,
                             spins |-> c.spins],
                            response.pairs)
    IN [line |-> <<>>, matched |-> m.matched, spins |-> m.spins,
        out |-> c.out \o (IF m.dst = <<>> THEN m.src ELSE m.dst)]

\* Mutant: the last byte of the body ends no line.
EndsLineAtLinefeed(text, i, last) == text[i] = LF

\* A byte that ends a line: a linefeed, or the last byte of the body.
EndsLine(text, i, last) == text[i] = LF \/ (last /\ i = Len(text))

\* ngx_http_subs_body_filter_process_buffer
ProcessBuffer(c, text, last) ==
    IF text = <<>>
    THEN IF c.line # <<>> /\ last THEN Match(c) ELSE c
    ELSE FoldLeftDomain(LAMBDA d, i :
             LET e == [d EXCEPT !.line = Append(@, text[i])]
             IN IF EndsLine(text, i, last) THEN Match(e) ELSE e, c, text)

\* The loop of ngx_http_subs_body_filter over the buffers of a chain.
Gather(chain, last) ==
    FoldLeftDomain(LAMBDA d, i : ProcessBuffer(d, chain[i], last /\ i = Len(chain)),
                   [line |-> line_in, matched |-> matched, out |-> <<>>, spins |-> FALSE],
                   chain)

-------------------------------------------------------------------------------
(* Output buffers                                                           *)

\* Mutant: a buffer is filled past its end.
PiecesOverlong(text) == IF text = <<>> THEN <<>> ELSE <<text>>

\* ngx_http_subs_out_chain_append: a text fills buffers of BufSize, one after
\* the other.
Pieces(text) ==
    [n \in 1 .. (Len(text) + BufSize - 1) \div BufSize |->
        SubSeq(text, (n - 1) * BufSize + 1, Min({n * BufSize, Len(text)}))]

\* ngx_http_subs_get_chain_buf: from the head of free, then new ones.
GetChainBufs(n) ==
    [i \in 1 .. n |-> IF i <= Len(free) THEN free[i] ELSE bufs + i - Len(free)]

\* How many of the first k of q's bytes are in its buffers before the i-th.
Before(q, m, i) == Len(FlattenSeq([j \in 1 .. i - 1 |-> m[q[j]]]))

\* The buffers of q after k bytes of q have been sent.
Drained(q, m, k) ==
    [b \in DOMAIN m |->
        LET i == SelectInSeq(q, LAMBDA c : c = b)
            gone == k - Before(q, m, i)
        IN IF i = 0 \/ gone <= 0 THEN m[b]
           ELSE SubSeq(m[b], gone + 1, Len(m[b]))]

Unsent(q, m) == FoldLeft(LAMBDA rest, b : IF m[b] = <<>> THEN rest ELSE Append(rest, b), <<>>, q)

\* Mutant: all of busy is taken back, sent or not.
ReclaimableUndrained(q, m) == Len(q)

\* How many buffers at the head of q can be reclaimed.
Reclaimable(q, m) == LET i == SelectInSeq(q, LAMBDA b : m[b] # <<>>)
                     IN IF i = 0 THEN Len(q) ELSE i - 1

\* ngx_chain_update_chains: drained buffers at the head of busy go to the head
\* of what is left of free, one after the other, unless they are not the filter's.
UpdateChains(q, m, unused) ==
    LET n == Reclaimable(q, m)
    IN /\ busy' = SubSeq(q, n + 1, Len(q))
       /\ free' = FoldLeft(LAMBDA pool, b : IF b = 0 THEN pool ELSE <<b>> \o pool,
                           unused, SubSeq(q, 1, n))

\* ngx_http_next_body_filter: the later filters take the buffers of out, whose
\* contents are in m, and send as much of what they hold as the client takes.
NextBodyFilter(out, m, last) ==
    LET q == down \o out
        text == FlattenSeq([i \in DOMAIN q |-> m[q[i]]])
        end == IF last /\ tail = "none" THEN "queued" ELSE tail
    IN \E k \in 0 .. Len(text) :
       /\ mem' = Drained(q, m, k)
       /\ down' = Unsent(q, mem')
       /\ sent' = sent \o SubSeq(text, 1, k)
       /\ \/ tail' = end
          \/ end = "queued" /\ down' = <<>> /\ tail' = "sent"

\* Mutant: the flag is never cleared.
FlagAfterOutputKept(last) == TRUE

\* The flag that keeps nginx from ending the request: set on entry, cleared
\* in ngx_http_subs_output after the last buffer.
FlagAfterOutput(last) == ~ last

\* ngx_http_subs_output, and what of ngx_http_subs_body_filter is between it and
\* the loop over the chain: c has what the loop has made of the chain.
Output(c, chain, last) ==
    LET pieces == Pieces(c.out)
        own == GetChainBufs(Len(pieces))
        created == Max({bufs, bufs + Len(pieces) - Len(free)})
        m == [b \in 0 .. created |->
                IF Contains(own, b) THEN pieces[SelectInSeq(own, LAMBDA o : o = b)]
                ELSE IF b <= bufs THEN mem[b] ELSE <<>>]
        out == IF last /\ chain # <<>> /\ own = <<>> THEN <<0>> ELSE own
    IN /\ line_in' = c.line
       /\ matched' = c.matched
       /\ bufs' = created
       /\ UNCHANGED <<installed, hung>>
       /\ \/ /\ out = <<>> /\ busy = <<>>
             /\ buffered' = TRUE
             /\ UNCHANGED <<wire, free, busy>>
          \/ /\ out # <<>> \/ busy # <<>>
             /\ NextBodyFilter(own, m, last)
             /\ UpdateChains(busy \o out, mem', SubSeq(free, Len(own) + 1, Len(free)))
             /\ buffered' = FlagAfterOutput(last)

\* ngx_http_subs_body_filter on a chain, or on none when nginx only wants
\* output flushed.
Substitute(chain, last) ==
    LET c == Gather(chain, last)
    IN \/ /\ c.spins
          /\ hung' = TRUE
          /\ UNCHANGED <<installed, line_in, matched, bufs, free, busy, buffered, wire>>
       \/ ~ c.spins /\ Output(c, chain, last)

-------------------------------------------------------------------------------
(* One response                                                             *)

Init == /\ response \in Responses
        /\ headed = FALSE /\ installed = FALSE /\ announced = FALSE
        /\ received = <<>> /\ ended = FALSE
        /\ line_in = <<>>
        /\ matched = [i \in DOMAIN response.pairs |-> FALSE]
        /\ bufs = 0 /\ free = <<>> /\ busy = <<>>
        /\ mem = [b \in {0} |-> <<>>]
        /\ down = <<>> /\ tail = "none" /\ sent = <<>>
        /\ buffered = FALSE /\ hung = FALSE

\* Mutant: Content-Length is left in the header.
LengthKeptAlways(takes_part) == response.length

\* ngx_http_clear_content_length, for a response whose body will change.
LengthKept(takes_part) == response.length /\ ~ takes_part

\* ngx_http_subs_header_filter and ngx_http_subs_init_context
HeaderFilter ==
    /\ ~ headed
    /\ headed' = TRUE
    /\ installed' = (response.pairs # <<>> /\ response.exempt = {})
    /\ announced' = LengthKept(installed')
    /\ UNCHANGED <<response, received, ended, line_in, matched, bufs, free, busy,
                   buffered, hung, wire>>

\* The chain goes past a filter without context.
Pass(text, last) ==
    /\ NextBodyFilter(IF text = <<>> \/ Contains(down, 0) THEN <<>> ELSE <<0>>,
                      [mem EXCEPT ![0] = @ \o text], last)
    /\ UNCHANGED filter

\* A chain comes from upstream; last is set on its last buffer.
Receive(chain, last) ==
    LET text == FlattenSeq(chain)
    IN /\ headed /\ ~ ended /\ ~ hung
       /\ Len(received) + Len(text) <= MaxInput(response)
       /\ received' = received \o text
       /\ ended' = last
       /\ IF installed THEN Substitute(chain, last) ELSE Pass(text, last)
       /\ UNCHANGED <<response, headed, announced>>

\* The client's socket takes more: ngx_http_writer calls with no chain.
Flush ==
    /\ ~ hung
    /\ down # <<>> \/ tail = "queued"
    /\ IF installed /\ busy # <<>> THEN Substitute(<<>>, ended) ELSE Pass(<<>>, FALSE)
    /\ UNCHANGED <<response, headed, announced, received, ended>>

Next == \/ HeaderFilter
        \/ \E chain \in Chains, last \in BOOLEAN : Receive(chain, last)
        \/ Flush

Progress == Flush /\ <<sent, tail>>' # <<sent, tail>>

\* The client goes on reading, so that the socket takes more in the end.
Spec == Init /\ [][Next]_vars /\ WF_vars(Progress)

-------------------------------------------------------------------------------
(* Properties                                                               *)

TypeOK ==
    /\ response \in Responses
    /\ {headed, installed, announced, ended, buffered, hung} \subseteq BOOLEAN
    /\ DOMAIN matched = DOMAIN response.pairs
    /\ DOMAIN mem = 0 .. bufs
    /\ \A b \in 1 .. bufs : Len(mem[b]) <= BufSize
    /\ ToSet(free) \subseteq 1 .. bufs
    /\ ToSet(busy) \cup ToSet(down) \subseteq 0 .. bufs
    /\ tail \in {"none", "queued", "sent"}

\* A buffer has one owner: one the later filters have not sent yet is still
\* busy, and no buffer is offered for reuse twice, so that neither
\* get_chain_buf nor update_chains can hand out one in flight.
NoReuseInFlight ==
    /\ IsInjective(free) /\ IsInjective(busy)
    /\ ToSet(free) \cap (ToSet(busy) \cup ToSet(down)) = {}
    /\ installed => ToSet(down) \subseteq ToSet(busy)

\* The flag tells nginx whether the filter holds back bytes of the body: it is
\* up while a line is unfinished, or nginx would end the request without it,
\* and down once the body has ended, or nginx would never end it.
BufferedMeansHeld ==
    /\ line_in # <<>> => buffered
    /\ ended /\ ~ hung => ~ buffered /\ line_in = <<>>

\* A body is never announced with a length other than it turns out to have:
\* ngx_http_subs_header_filter clears Content-Length of what it may change.
LengthHonest == announced /\ tail = "sent" => Len(sent) = Len(received)

Contract == INSTANCE SubsContract WITH closed <- tail = "sent"

\* The loop over the matches in a line (ngx_http_subs_match_regex_substituion)
\* does not end exactly if an expression that is to replace all its matches finds
\* the empty text in a line: behind what it matches in that line something is
\* left, or it matches nothing else.
HangExplained == hung <=> Contract!Endless(response, received, ended)

\* Whatever the pieces in which the body comes and goes, the client gets the
\* body with the pairs applied line by line, in order and to its end.
ImplementsContract == Contract!Spec
===============================================================================
