# Verification of ngx_encryption_proxy

`ngx_encryption_proxy` is an nginx module that sits in front of a web
application. On the way up it encrypts the form fields that a policy names; on
the way down it finds encrypted packets in the response and decrypts them. The
policies are kept in an SQLite file and edited through an HTTP API that the
module itself answers. This directory holds TLA+ models of that program, the
TLC runs that check them and the TLAPS proofs about them.

## The system and its parts

| Part | Where | State | Operations |
|---|---|---|---|
| Rewrite-phase handler | `ngx_encryption_proxy.c:1525-1616` | the process-wide flag `waiting_more_body`; nginx's request (reference count, body) | enter the handler, body complete, finalize |
| Request rewriting | `ngx_encryption_proxy.c:1225-1524`, `ngx_cep_httpfilter.c:523-1191` | the request's body or URL and its length | find each field of the policy, encrypt each occurrence, rebuild the body |
| Management API | `ngx_encryption_proxy.c:1323-1404`, `policymanage.c:593-1263` | none of its own | get, add, modify, delete of sites, forms, fields |
| Policy store | `policymanage.c:9-592` | SQLite file `/etc/getway.db`, tables Site, Form, Field, shared by all workers | one statement per connection, no transactions |
| Policy cache | `ngx_cep_policy.c`, `policymanage.c:347-592` | global `sites`, one per worker process | reload at start and after each management request; lookup by host and URL |
| Response substitution | `ngx_encryption_proxy.c:116-982` | per response: partial line, output chain, busy and free buffers | collect lines across buffers, apply the pairs, emit |
| Response decryption | `ngx_cep_httpfilter.c:14-520` | per response: the partial packet; process-wide: `startCode`, `encodetype`, `endCode` | find packet heads and ends, also across buffers; decrypt in place |
| Escaping | `ngx_cep_httpfilter.c:1260-1776` | none | `$xx;` escapes and their inverse, HTML entities |
| Chain of buffers | `ngx_cep_httpfilter.c:1193-1223` | none | cut a body into a chain of 4096-byte buffers |
| Configuration | `ngx_encryption_proxy.c:984-1223` | the substitution pairs | parse and merge directives |
| AES, SQLite, cJSON, nginx | outside, or vendored | | |

How they interact: nginx calls the rewrite handler for each request. The handler
asks nginx for the body and rewrites it (lookup in the cache, encryption) or, on
the management host, runs an operation on the store and reloads the cache of the
worker that served it. On the way back nginx calls the body filter with the
response, a few buffers at a time. A worker is single threaded: requests and
responses of a worker interleave at event boundaries and share its globals; the
workers share only the database file.

What is hard: the globals that belong to one request or response and are read
by the next (`waiting_more_body`, `startCode`, `encodetype`, `endCode`); the
second run of the whole rewriting when a request is resumed; packets, lines
and heads that straddle buffers; the database read as a count and then a list
while another worker writes; caches of the other workers; operations of several
statements without a transaction.

### What makes each part correct

- Handler: every accepted request is forwarded once, rewritten by then, and
  keeps no reference; nothing is lost unless another request took the flag.
- Rewriting: a value is encrypted once however often the handler runs, what the
  client sent can be got back, the length in the header is that of the body, and
  a named value stays in clear only for reasons that can be named.
- Store and cache: a cache describes a state of the database; a list never
  holds more rows than were allocated for it; deletions leave no children; a
  modification changes what the API says it changes.
- Substitution: the output does not depend on how the response was cut into
  buffers; the end is passed on once, and the buffered flag goes down.
- Decryption: every complete packet is decrypted once, however it was cut, and
  other responses of the worker do not disturb it.
- Escaping: unescape after escape is the identity, no escaped packet holds a
  byte that ends a packet, and the escapes fit the space computed for them.
- Lookup: the policy applied is the one whose pattern is meant for the URL, and
  what is encrypted is what the user typed into a field that it names.

## The plan

In the order of what matters most to a client of the proxy. The first six rows
are done; the first three components have an abstract specification beside the
detailed one, the others are held to reference definitions.

| # | Modules | Held to | Composes | Proofs |
|---|---|---|---|---|
| 1 | `RequestPhase` | `RequestContract` (refinement) | | `RequestPhaseProofs`: all invariants and the steps of the refinement |
| 2 | `PolicyStore` over `PolicyTables` | `PolicyContract` (refinement) | | `PolicyStoreProofs`: all invariants, and the steps of the refinement |
| 3 | `SubsFilter` | `SubsContract` (refinement) | | `SubsFilterProofs`: all invariants but `HangExplained`; `SubsFilterRefinement`: that one and the steps of the refinement |
| 4 | `FieldRewrite` | | | `FieldRewriteProofs`: all invariants |
| 5 | `DecryptFilter` over `Packets` and `EscapeCodec` | what the client should see, carried by each load | 6 | `DecryptFilterProofs`: `TypeOK` and `TurnsEnd` |
| 6 | `ValuePath` over `Matching`, `Packets` and `EscapeCodec` | what a pattern, a name and an escape are meant for | lookup, search, encryption, chain, response | `ValuePathProofs`: lookup, search, passes, chain, and that what is shown is read back |
| 7 | `ResponseChain` | the composition of 3 and 5 on one chain of output | 3 and 5 | |
| 8 | `RequestPath` | `RequestContract` with the rewriting of 4 in place of a counter | 1 and 4 | |

Rows 7 and 8 would take the loads of `decrypt_all` and of `request_load`. What they
can add is small: the two filters share nothing but the buffers of one chain, which
the second changes in place after the first has filled them, and the handler does
to a request what `FieldRewrite` repeats.

Further theorems worth having, in this order: `QuietBetweenCalls` and
`CrashExplained` of `DecryptFilter`; `PartsApart` of `ValuePath`.

## The models and the code

### RequestPhase: one worker's rewrite phase

`ngx_http_p2s_urlquery_handler` asks nginx for the body and returns;
`p2s_urlquery_process_handler` is called when the body is there. Between them
they use one C global, `waiting_more_body`, for all requests of the worker. An
action is one event of the worker, with all the calls nested in it:

| Action | Event |
|---|---|
| `DeclineMethod`, `RejectBody` | a method that is not handled; an error while reading the body |
| `ArriveReady` | the body came with the header: nginx calls the post handler from inside `ngx_http_read_client_request_body` |
| `ArriveLate` | `NGX_AGAIN`: the flag goes up and the handler returns it, so that the rewrite phase finalizes the request, which drops one reference |
| `BodyComplete` | the rest of the body: the post handler takes the flag and resumes the phases, or finds it gone and finalizes |
| `ClientAbort`, `UpstreamDone` | the client goes away; the answer is complete |

A request is a record of its reference count and of how often it was rewritten,
resumed and forwarded. Resuming enters the handler again, so a request whose body
was late is rewritten twice; a request that takes the flag of another is
forwarded twice, and its second upstream leaves a reference nobody drops
(`leaked`). A management request that runs twice finds its header sent and is
finalized with an error (`EndOfEvent`). A request that is freed without ever
having been forwarded is `lost`.

External, modelled from how the handler relies on them: the reference count,
the rewrite-phase checker, the synchronous call of the post handler. The branch
`conf == NULL` cannot be reached and is left out.

*Runs.* `request_load` takes three requests of every kind in every overlap, with
clients that go away. Three is what it takes for one request to raise the flag, a
second to take it, and a third to find the result; the invariants are sums over
requests. Symmetry is sound there: only invariants are checked. `request_serial`
has no request arrive while another waits and no client go away; under this
light load (which real clients do not promise) the handler implements
`RequestContract`: sent at most once, rewritten by then, settled in the end.
`request_admin_once` shows a disagreement with the API comment: a management
operation whose body is late is run twice. *Fairness*: `BodyComplete` (a client
that began a body sends the rest, in a run without aborts) and `UpstreamDone`
(upstream answers, or nginx's timeout does). Deadlock is checked; `Quiet` is the
end of all requests.

### PolicyStore: the management API, the tables, the caches

`PolicyTables` has the three tables and what one SQL statement does to them;
`PolicyStore` the workers. `policymanage.c` opens a connection for each statement
and has no transactions, so one action is one statement of one worker; what a
worker computes between two statements belongs to the first. `Receive` dispatches
a request as `get_raw_http_body` does, `Execute` runs the one-statement
operations, `Read` the count and the read of sites, forms and fields (for an
operation or for the reload), `DeleteSitePolicy` its sequence of deletions,
`ReadBack` the select that finds the id an addition is answered with, `Send` the answer and the start of the reload, `Die` the end of a worker, which
the master replaces by one with the policies read at start.

A list is counted, allocated and read by two statements. Rows beyond the space
allocated are written over other memory: the model sets `heap` to `corrupt`,
drops the rows, and from then on the worker may go on or die. `sites.index`, which
`ShowSitePolicyAllTableInfo` counts up, goes back to 0 only with the release of a
cache that is not empty. `exposed` and `tainted` are history: they say which
disturbance a worker has met, and the code has no such variables.

Left out: the columns proxyhost, desc, menu and submenu, which only travel through;
JSON and the wording of answers; memory leaks; reconfiguration by signal. A request that is refused, or reads a single
row, is the operation `other`: it changes nothing and is followed by the reload
as any other. The schema is not in the repository: that `id` is the integer
primary key, and that rows come in its order, is read off the statements. Id 0
is among the ids because that is what a request without an id is given.

*Runs.* `store_single`: one worker, no failures, up to two sites, two forms and a
field, three requests: the store implements `PolicyContract`, in which each
operation is atomic and the cache exact from its end on; every operation is
finished. `store_shared` starts from one of several situations: two workers with
three requests between them (one to put something there, two to overlap), or one
worker that may die at any point and whose statements and answers may fail, with
two requests over the fullest table. It shows what can go wrong only for the
reasons stated: a list is written past its space only if a count failed or another
worker changed the table between count and read; a cache differs from the tables
only after a failure, a change by another worker, or a respawn; a site is
deleted with only its own forms (unless another worker changed the table between
its statements: a slot of zeros then names a form with id 0, a case `DeletesOwnForms`
states and does not exclude); rows are left without what they belong to by the
requests that do that by themselves (to delete a form, to put a row where there is
nothing), or by a deletion that was disturbed, and never by a death; an addition is answered with its own id or with that of a later row that
says the same of what the select compares, since the last row read wins
(`policymanage.c:124`). The comparison is part of the definition `RowsLike`; no
column of the tables is unique but the id.
`store_type` shows that an added field never keeps the type it was given.
*Fairness*: a worker that began an operation goes on, since SQLite's statements
return. No deadlock check: clients stop after `situation.requests`.

### SubsFilter: substitution in a response

One response through `ngx_http_subs_header_filter` and
`ngx_http_subs_body_filter`. `HeaderFilter` decides whether the filter takes part
(`exempt` collects header-only, untyped, other type, bypassed and encoded);
`Receive` is a call with a chain from upstream, `Flush` one with no chain. A call
gathers bytes into `line_in`, applies the pairs to each line that ends
(`FixSubstitution`, `MatchPair`, `Match`), fills buffers of `BufSize` taken from
`free` or created, hands them on (`NextBodyFilter`: the client takes any number of
the pending bytes) and reclaims what was sent (`UpdateChains`). What is in a
buffer is in `mem` only, so that reusing a buffer in flight would change what the
client gets.

`SubsContract` says what the client is owed by the positions of matches in the
whole body, without line buffer, chains or buffers: the leftmost of overlapping
matches count, a pair marked once replaces one match of the response, a line ends
at a linefeed or with the body.

A pair is the sequence of the texts it matches, in the order in which they are
tried at a place: one text, or those that a regular expression stands for over short
lines (`a*` is `aaa`, `aa`, `a` and nothing). `Quote` in what it puts there is the text
matched, `$0`. Where an expression finds the empty text, `pos` stays where it is and
the loop does not end: the worker is `hung`, and every request of it with it. The
contract says when that is (`Endless`), `HangExplained` that it is then and only then.

Left out: a failed allocation, which ends the response; groups within a match and
lookaround (but for `^`); case (an expression of the spellings says the same, except
that an insensitive pair is passed over in lines shorter than its pattern's text); and
the decryption that the filter does on its output, which changes nothing in a body
without heads (`DecryptFilter` models it).

*Run.* `subs_filter`: bodies of up to 4 bytes over two letters and the linefeed,
delivered as one or two buffers a call, either of which may be empty; output
buffers of 2 bytes, so that a line needs several and a text ends inside one; eight
responses, whose pairs shorten, grow, feed each other, empty a line, match
nothing, or apply once, or are expressions with alternatives, with `^`, and with `*`
for one match or all (bodies of up to 3 bytes for these). A line, a match and an output buffer are all cut in every
place at these sizes. It shows that the client gets what it is owed, in order,
to its end; that no buffer is reused in flight; that the buffered flag is up
exactly as long as needed; and that no response is announced with a length it
does not have. *Fairness*: the client keeps reading. No deadlock check: a response
ends.

### FieldRewrite: encryption in a request

What `get_raw_http_body` does to one request: `GetBody` copies the body,
`NextField` takes the next field of the policy, `ReplaceBuf` is one turn of the
loop in `replaceBuf`, `ReplaceGetBuf` the whole of `replaceGetBuf`, `Finish` puts
length and body in place. A body is the sequence of its named values. Of a value
the model has its data (what removing every layer of encryption gives), the
number of layers, its size, and whether it begins with `http://`, which for the two
multipart types stays in front in clear. A pattern stands for the set of names it
matches. `Passes` is 2 in the runs because `RequestPhase` runs the handler twice
on a request whose body was late. `spooled` says that nginx has put the body in a
temporary file: the buffers that stand for it have nothing in memory, and an empty
body replaces it. The copy of an empty body is not terminated either, and a pattern
looked for in it may be found in what the memory holds: then the worker is `"dead"`.

Left out: finding a name or a pattern in the text, URL decoding and the escapes,
which are in `ValuePath` for one value (sizes here are those of values without
anything to escape); AES; the conversion to gbk; and the bytes between values. A value of type
`POSTURLSPLIT` is one without commas here; `ValuePath` divides it. A multipart value
without its closing
boundary counts as empty, one of `URLJSON` has its closing `%22%7D`. nginx has all of a
body in the file or none (it may leave a part in memory), and the names in URLs have the three bytes
or more that those of the built-in policies have. `FORMJSON` is a type that `replaceBuf` does not handle.

*Runs.* `fields_all`: bodies of up to three values under three names, empty or
not, with and without the prefix, in memory or in a file; URLs of up to four, that end in a parameter
the policy names or in another; every pair of fields out
of all types, literal and patterns; two runs of the handler.
`Recoverable` says what is left of the client's data when every layer of encryption is
removed, and names what is not: a `URLJSON` field puts the second byte of its head in
front of the value it encrypts, and no field encrypts that value again; each encryption
of the value that ends a URL puts what is behind it behind the data, once more in each
run and for each field; and nothing comes back of a body in a file. All other values are whole. Three
values are needed for the search of one field to stop and another to be behind;
two fields for one to meet what the other has encrypted. `fields_gap` shows the
disagreement with `src/README.md`: behind an empty value, values of the same
field are uploaded in clear. No deadlock check: a request ends.

### EscapeCodec, Packets, Matching: text

Three modules without variables, used by the two that follow. Text is a sequence
of bytes; a printable byte is itself, another is named by its two digits.
`EscapeCodec` has the escapes (`replace_counts`, the passes of `replace_post`, and
`ReplaceHtmlCode`, which undoes them after the entities) and the digits
(`Hexadecimal`, `ReplaceBase64Code`, `replaceURLcode`). `Packets` has the three heads,
what opens and closes a packet, and what else ends one. The branch for `'/>` before
the end of a packet (`ngx_cep_httpfilter.c:330`) is never taken, because `/` has ended
the packet before; it is left out. `Matching` has `GetPostPolicy` and
`findWildString`, byte by byte, as their loops compare.

### ValuePath: one value there and back

The way of one posted value, one action for each function that changes it:
`Lookup` finds the policy, `Search` the value, `EncryptData` or `EncryptDataBase64`
write the ciphertext, `EncryptPart` that of a part of a value that commas divide,
`ReplacePost` is one of the twenty passes that escape it,
`Send` makes the chain; `Show` puts the packet into a page, behind any of the
characters that open one, and `Decode` is what the response filter makes of it.
AES is any ciphertext of the length of the text. `space` becomes `overrun` when a
pass writes more than was allocated for it.

Left out: what is in `FieldRewrite` (several values and fields, values that are
encrypted already by an earlier run, the prefix `http://`, URLs of GET), and the
conversion to gbk.

*Run.* `value_path` has three kinds of requests. Ciphertexts: every one of up to
three bytes out of ten (one plain, and the ones that are escaped, end packets, or
begin escapes and heads), and longer ones that read like escapes. Lookups: two
sites with three patterns, five URLs. Searches: every type, names with and without
a star, with two, also in front, text before the name that looks like its beginning, has a zero byte,
a star or an encrypted value, and typed text with blanks, percent signs and commas. It shows:

- the policy applied is the one meant (`LookupExplained`), except where text, be it
  another star, follows a star, a star stands for nothing, or the URL has a star itself:
  in these cases the code decides by something else, and the property says no more;
- what is encrypted is the value of the first field of that name, or the reason why
  not (`FoundExplained`), and it is what the user typed, or the reason why not
  (`PlainExact`);
- of a value that commas divide each part, also an empty one, becomes a packet, and
  nothing stays in clear (`PartsApart`);
- the passes of `replace_post` together escape what is to be escaped, once, and the
  length counted is the length taken (`PassesExact`); a pass writes past its space
  only if the ciphertext begins with 0xff (`OverrunNeedsFlag`);
- the chain has the whole body, in buffers of which none is empty (`ChainWhole`;
  4 bytes in place of 4096 make bodies of no, one and several buffers, full or not; the
  empty body, which has none, is named in the property and still sent);
- the ciphertext is read again as it was written, unless it reads like an escape or
  holds what ends a packet (`Returned`).

### DecryptFilter: decryption in responses

`replace_ngx_str_t`, called twice over each chain of output of each response of
a worker. One action is one turn of that function on one buffer, up to the call
of itself: `ReadNull`, `NothingFound`, `DecryptAtHead`, `DecryptAtStart` (the buffer
starts with the second byte of a head that was cut), `DecryptRest` (the buffer starts
with the rest of a packet). `BodyFilter` begins a call, `Output` sends the chain. `ctx` has
what belongs to a response (`lastPacket`, `lastDePacketLen`), the other variables
are the worker's globals `startCode`, `encodetype` and `endCode`, which calls for other
responses change in between, and whether it is `alive`: a negative length given to
`memcpy`, and the address NULL of the buffer without data that may end a response,
end it. The cipher decrypts byte *i* only at place *i* of its packet, so that
decrypting a part of a packet by itself shows.

A load carries what the client should see and the *flaws* of its division into
buffers: `opener` and `ending` (a head, or a closer, cut off from its packet), `head`
(a cut head), `escape` (a cut escape), `short` (a buffer too short to be looked at),
`flag` (a repeated byte falls into another packet).

*Runs.* `decrypt_all`: one or two of five pieces in a row (text, packets of the three
heads in quotes, tags and parameters, with an escaped byte and the end flag) with
every two cuts; one of four (a long one, digits, dots, an escape and `&nbsp;`) with
every two cuts beside a second response; and responses whose packets are in tags,
with cut heads, beside each other: all calls interleaved in every order. It shows:

- a response without flaws comes out as it should (`Decrypted`), which says what that
  is: a packet whose head ends a buffer stays encrypted (`ngx_cep_httpfilter.c:191`),
  and so does the part of a packet in a third buffer (`:463`); all else is decrypted
  once, also when a cut lies between the digits of a byte;
- if the end flag is not in the buffer of the head, exactly one byte is repeated, and
  nothing else is wrong (`FlagRepeats`, `:460`);
- a worker dies only of a cut escape or of a head that was lost (`CrashExplained`);
- between calls no head is awaited unless one was lost, and no packet kept of a
  response without flaws (`QuietBetweenCalls`);
- every turn goes on or leaves less to do, so that no call recurses for ever
  (`TurnsEnd`), flaws or not.

`decrypt_open`: a packet at the end of a line, behind a character whose closer does
not follow, is decrypted and then damaged by the second pass. No fairness is
assumed: the end of a call is shown by what its turns use up. No deadlock check:
responses end.

## Runs

| Run | Expected | Question |
|---|---|---|
| `request_load` | pass | what can the shared flag do to requests, under any load |
| `request_serial` | pass | is the handler right when requests do not overlap |
| `request_admin_once` | violation | is a management operation run once |
| `store_single` | pass | is an operation of one undisturbed worker atomic |
| `store_shared` | pass | what can two workers do to each other, and failures and deaths to one |
| `store_type` | violation | does an added field keep its type |
| `subs_filter` | pass | is the output independent of how the body is cut, and when does the filter not end |
| `fields_all` | pass | is a request encrypted once and with the right length, and which values come back whole |
| `fields_gap` | violation | is every named value encrypted |
| `value_path` | pass | does one value come back as it was typed, through lookup, search, escapes and chain |
| `decrypt_all` | pass | is every packet decrypted, however it is cut and whatever comes between, and what else happens |
| `decrypt_open` | violation | also a packet whose closer is missing |

Each property is also checked against a mutant, a definition marked `Mutant:`
beside the one it changes, that a plausible error in the code would give: TLC finds
the property violated there.

## Proofs

TLAPS proves the following for every value of the constants that fulfils the named
assumptions; nothing is taken on trust. An invariant of a run is seldom inductive as
it stands: each section names what it is strengthened by, and why.

### RequestPhaseProofs

For any finite set of requests (`RequestsAssumption`) and either value of the modes
(`ModesAssumption`):

- `TypeCorrect`, `LossCorrect`, `ReferencesCorrect`, `RewriteCorrect`: `TypeOK`,
  `LossNeedsThief`, `ReferencesHeld`, `ForwardedRewritten` are invariants of `Spec` in
  every mode. That a lost request has a thief needs
  `FlagOwed` (a suspended request finds the flag up, or somebody else has used
  it), and the references need `Shape`, which ties the count of each request to its
  state, resumptions and suspensions. `IInv` is the conjunction. The lemma
  `Outcomes` computes once what the nested calls of a handler do to a record;
  `Arrivals` and `Completion` say what each event then does, `OneRequest` that such a
  step keeps `IInv`.
- `ResumesCorrect`: no more requests are resumed on a flag than were suspended. The
  sets `Resumed` and `Delayed` are counted, with the flag on one side: whoever takes
  it joins the first, whoever raises it the second.
- `SerialCorrect`: without overlap and aborts every accepted request is forwarded
  once. It rests on a second invariant, `SerialInv`: the flag is up exactly while one
  request is suspended.
- `ContractCorrect`: in that mode every step is a step or a stutter of
  `RequestContract`, and the initial state maps to an initial one. The liveness of the
  contract is left to TLC.

### PolicyStoreProofs

For any number of workers, any finite sets of ids (`IdsAssumption`) and any
situations (`SituationsAssumption`):

- `TypeCorrect`. `Typed` adds the `Shape` of a worker: at which statement it holds what,
  that its places `i` and `j` are within the list it holds, and which requests can be
  at which statement. Without it a step could read a list beyond its end. `StepOf`
  sums up the actions as what they do to one worker and the database; `StepTyped` is
  proved for it once, and so are the invariants below.
- `OverrunCorrect`. `Within` says that a worker that is about to read rows has space for
  those that are in the table now, unless it was exposed; that is what the step
  before it, the count, establishes, and what every write of another worker ends.
- `CurrentCorrect`. `Reading` describes a reload halfway: which sites of the cache are
  complete, which have their own columns only, and how much space the rest has.
  `SitesAll` says that at its end the list is `View` of the tables.
- `OwnFormsCorrect`. `Owning`: the forms still to be deleted are those that are in the
  table and of that site, each once, and those before have no fields left.
- `AnswerCorrect`. `Answering`: what was added is there until it is read back, and each
  row found says the same.
- `OrphansCorrect`. A step leaves a stray row only if it is one of the requests that do
  that by themselves, or the worker was disturbed; for the deletion of a site this
  rests on `Owning`.
- `ContractCorrect`: with one worker whose statements and answers do not fail (the mode of
  `store_single`) the initial state maps to an initial one and every step is a step or a
  stutter of `PolicyContract`. Such a worker stays `Solo`, undisturbed (`SoloStep`), so
  `Owning` and `Reading` say what they say without exception. The statements of a
  deletion are not seen, since the contract is shown the tables without the site from its
  first statement on (`EraseUnseen`); an insertion, an update or the end of a deletion is the one
  step that performs (`MeaningIs`); the end of the reload is the one that answers, with the
  list that `SitesAll` gives. What needs fairness, that it answers, is left to TLC.

The folds and sorted lists of the model are reasoned about in `SequenceLemmas` (what
is at the n-th place of the sorted ids, that `Each` has a row for each).

### SubsFilterProofs

For any pairs (`ResponsesAssumption`), chains (`ChainsAssumption`), buffers of at
least a byte (`SizeAssumption`) and any set of bytes:

- `TypedAlways`, `TypeCorrect`: the three nested loops over bytes, pairs and lines keep
  the types (`Turn`, `Passing` and `Gathered` are those of their accumulators), and no
  buffer is filled past its end.
- `ReuseCorrect`, `BufferedCorrect`: a buffer that was handed on and not sent is not
  among the free ones; the flag is up while something is held. The invariant `IInv`
  adds `Early` (nothing of the end is queued before the end has come) and `Alone` (a
  response without the filter has the one buffer of upstream, held as long as it has bytes).
- `LengthCorrect`: what was announced is what is sent. From `Alone`: an announced
  response has no filter.

### SubsFilterRefinement

Under the same assumptions and `PlainAssumption`, which says that a pair with a fixed string
has one text and no anchor (`ngx_encryption_proxy.c:628-642` searches for its string as it is, with `subs_memmem`):

- `ContractCorrect`: the initial state maps to an initial one, and every step is a step or a
  stutter of `SubsContract`. The client has at any time a beginning of what is owed, and
  all of it when it is told that the body has ended, in whatever pieces the body comes, is
  buffered and is sent.
- `HangCorrect`: `HangExplained`, that the worker hangs in the loop over the matches if and
  only if the contract says that the body makes it.

`RefinesAlways` is the invariant they follow from, `RInv`: what is sent or on its way
(`Delivered`) is what is owed for the complete lines, the rest of the body is `line_in`,
`matched` says for which pairs a match has been found in those lines, and a filter that hangs is
`Stuck` in one of them. What the client has got alone is not enough to go on from: a buffer
that is on its way and a line that is held are not in it.

The argument has two halves that meet in `RInv`. The lower one is about buffers:
`OutputDelivers` and `PassDelivers` show that filling them, handing them on, what the client
takes of them and what comes back as free neither lose nor reorder a byte. The upper one is about
what the bytes are:

- the lines of a text and what is behind the last linefeed, and what a further byte or the
  end makes of them (`LinesNext`, `LinesEnd`);
- one pair and one line: the contract speaks of the places in the whole line
  that count (`Counted`), the code looks for the next place behind the last one and copies what is between.
  `NextBehind` and `CutNext` say that these are the same places, `AllReplaced`, `OneReplaced` and
  `NothingReplaced` that the loop writes what `Substituted` says; `TrappedTurn` that a match of the
  empty text is found again in every turn;
- the pairs one after another, where a pair works on what the one before it wrote
  (`PairDoes`, `ApplyAppend`). The contract applies each pair to all lines before the
  next one, the code all pairs to a line before the next line. The table of both (`Tabled`) has a
  row for each pair and a column for each line, and `TableLonger` says that a line more
  is a column more;
- `MatchSynced`, `ByteAhead` and `ChainAhead` carry the invariant through a line, a byte
  and a chain.

### FieldRewriteProofs

For bodies, URLs, policies and numbers of runs of any size (`InputTypes`, which says
what clients send and policies hold):

- `TypeCorrect`: every value keeps its name, its prefix and its place. `IInv` adds
  that a search under way has a field and a place, and that a GET looks only for
  what is there, without which `Min` of no places would be taken.
- `RecoverableCorrect`: what encryption does to the data of a value is one of the
  exceptions that `Recoverable` names, for every type of field and every place in a URL.
  `RecoverInv` is said of one value (`RecoversAt`) and adds what makes it inductive: a
  posted value whose data has gained a byte has its one layer and no prefix, so
  `IsEncryptData` keeps every later field and run from it, and one without a layer is as it came. In
  a URL nothing recognises the layers, and their number says what is behind the last value
  (`BehindMore`).
- `OnceCorrect`: a posted value without the prefix is encrypted at most once.
- `LengthCorrect`: the length in the header is that of the body. `LengthInv` follows the
  length that the code keeps beside the body through every replacement (from 0 for a body
  in a file); the sum over the
  values is a fold, of which a lemma says what replacing one value does to it.
- `PlainCorrect`: a value that a field names is in clear only for a reason that is on
  record. `PlainInv` says for every field and place what has been searched so far
  (`Explained`), also halfway through a field.

`ReplaceOne` reduces every action to the one value it replaces; `OccurrenceNamed`
says that the place found bears a name of the field.

### DecryptFilterProofs

For any responses, divisions into buffers and order of calls (`LoadsAssumption`):

- `TypedAlways`, `TypeCorrect`: the context of every response, the call at hand and the
  globals keep their types; every turn is at a buffer of its chain.
- `TurnsCorrect`: every turn goes on in the chain or leaves less to do, which is that
  `replace_ngx_str_t` does not call itself for ever. What there is to do is
  `Left`, the bytes of the buffer and twice those of a packet that is kept: a packet
  that is completed may make the buffer longer by what it was, and decoding makes no
  text longer (`PlainShorter`).

### ValuePathProofs

For any sites, URLs, bodies, ciphertexts and sizes of a buffer (`RequestsAssumption`,
`ConstantsAssumption`):

- `LookupCorrect`: `FitsPlain` and `FitsStar` say what `GetPostPolicy` takes a pattern
  for, byte by byte, `FitsMeant` that this is what it is meant for unless one of the
  three exceptions holds. The proof found that a second star is such an exception.
- `FoundCorrect`: whatever the body, the name and the stars in it, what is encrypted
  stands behind the name and is the first value that does, but for the reasons that
  `FoundExplained` lists. `FoundRuns` makes a row of states of the loop of `findWildString`,
  one for each byte up to the first zero byte. `SoFar` is the invariant of the loop:
  what is found is within the bytes seen (`Bounded`), and the name is there as far as
  the loop has compared it (`Knows`), unless a star was compared as a byte; so a
  search that ends has found the name (`FoundWhat`). `FoundStraight`
  follows the loop from the place where the name begins: it finds the name there unless a
  match that began earlier was broken (`Restarts`), or what follows the star is there in
  part before it is as a whole (`Commits`). The invariant of the steps is `Seeking`:
  the value is the one that the search finds, if it is made and finds one.
  The proof found that a second star of the name is an exception of its own; the run now
  has a name with two, for which the property would not hold without that exception.
- `PassesCorrect`: however long the ciphertext and whatever its bytes, the twenty passes
  of `replace_post` over one buffer write the head and every byte in its escape, exactly
  once, and fill the buffer exactly. `Passing` says what the buffer begins with after each pass and
  that there is space for the rest; `Spelled` is a text written anew byte by byte, and
  `EscapesStep` with `SpelledTwice` says that one pass more over what n passes wrote is
  what n + 1 passes write of the ciphertext, which holds because no byte that is escaped occurs in an
  escape (`EscapeTable`). `EscapedLength` and `CountedBehindHead` compare the length
  with what `replace_counts` counts.
- `OverrunFlagCorrect`: a pass writes past its space only behind 0xff as first byte.
  `OverrunAt` says of what text that is true, `EscapedFirst` that such a byte was there from the
  beginning.
- `ChainCorrect`: the chain is the body, whatever text was put in it. `Uploading` says that
  it is a sequence, `ChainIs` that cutting one into buffers and joining them gives it
  back (by `PartsJoin`).
- `EscapesReadBack`: `ReplaceHtmlCode` undoes the twenty passes. It replaces first six
  entities, of which none occurs in what was written, then twenty escapes, one after
  another, in a text where the others still stand. A replacement that is
  correct in each part of a text may find its pattern across the border of two; `ReplacedJoin`
  says when that cannot happen, and `MarkApart` that escapes never do, unless the ciphertext
  itself holds one (`Accident`).
- `DigitsReadBack`: `ReplaceBase64Code` undoes `Hexadecimal`.
- `ReturnedCorrect`: what is shown of a value in a page and taken out of it is the
  ciphertext. The invariant `Packed` says for each stage what the value is: nothing is
  encrypted of a request that is kept; `Parting`, the parts behind which the loop over the
  commas stands, each a packet and its comma, and the rest of the value, not searched yet;
  `SealedAs`, the text that is sent, either one packet or a row of them; `TakenAs`, what the
  filter takes out, which is what was written unless it breaks off early (`Breaks`).
  `Passing` is needed for the packet that twenty passes write. Two
  arguments carry it. The one about a single packet (`DigitsInPage`, `EscapedInPage`): in a page that
  has it behind any character, its head is the only one, and what closes it is not in
  it. The one about a row of packets (`LaidShown`): the page turns each `%2C` into a
  comma (`Commas`), which changes nothing within a packet, so the n-th head in the page
  is that of the n-th packet (`CountHeads`), and the comma ends it. `PartPacks`
  is the step of the loop: the comma that is found divides the rest of the
  value, and what was written before it stays.

### How recursion is proved about

The models recurse over data only with the folds of the community modules and with
recursive functions. `SequenceLemmas` unfolds them once: it proves by
induction over the natural numbers what the n-th row of a fold is, with the invariant
given as a set (`Accumulates`), and the other modules cite that. `SequenceInduction`
of `ValuePathProofs` is the same for sequences that grow at their end.

### Model-checked only

- All liveness: `SubsContract`, `PolicyContract` and `RequestContract` with their
  fairness, and that operations finish. Fairness is out of the prover's reach.
- `Decrypted`, `FlagRepeats`, `QuietBetweenCalls` and `CrashExplained` of `DecryptFilter`:
  they speak of what the loads carry, which is what MC modules compute.
- `TypeOK` of `ValuePath`: that a byte such as `"$"` is one of `STRING` is not known
  to the provers. What of it the other proofs need (`Uploading`, `Passing`) is proved of sequences over any set.
- `PlainExact` and `PartsApart` of `ValuePath`: they compare what `replaceURLcode` computes
  with `typed`, which the requests of the MC module put in the body, encoded, at the place `at`.

## Known deviations

Found while modelling and shown by a run: a management operation run twice
(`request_admin_once`), the lost type of a field (`store_type`), values in clear behind
an empty one (`fields_gap`), a packet without its closer (`decrypt_open`).

Found while modelling, without a run of their own:

- a request that is chunked, or whose host or URL is too long, is forwarded
  without being rewritten (`ngx_encryption_proxy.c:1301`; `Skipped`);
- modifying a site leaves its key as it was (`policymanage.c:91`; `UpdateSitePolicy`);
- a value of type `URLJSON` comes back with the second byte of the head in front
  (`ngx_cep_httpfilter.c:805`, `:753`; `Recoverable`);
- the last parameter of a URL is encoded with the zeros behind it, in a buffer whose
  size does not count them, and two bytes of the result are cut off again
  (`ngx_cep_httpfilter.c:1124-1129`, `:1167-1176`; `Recoverable`);
- a body that nginx has put in a temporary file is replaced by an empty one: such
  buffers have nothing in memory (`ngx_encryption_proxy.c:1418-1430`, `:1482-1489`;
  `Recoverable` and `LengthMatches` say what is left). A site with policies needs a
  `client_body_buffer_size` that holds what its users post;
- the copy of an empty body is not terminated, so a pattern is looked for in whatever the memory
  holds (`ngx_encryption_proxy.c:1431`; stage `"dead"`), and a chain of no buffers is sent for
  it (`ngx_cep_httpfilter.c:1194`; `ChainWhole` names this case and does not exclude it);
- a boundary that follows a name at once gives a value a negative length. The model takes
  that as no value, as `replaceBuf` does with the difference of the two addresses, which
  is what a compiler makes of the loop in `getmemlen` with nginx's own `-O`; compiled as
  written, the loop runs on (`ngx_cep_httpfilter.c:795-797`, `:481-489`; `LengthAt`);
- a value with the prefix `http://` is encrypted again by the second run
  (`ngx_cep_httpfilter.c:835-858`); it still decrypts, as the response filter goes on
  until it finds no head;
- a ciphertext that begins with 0xff makes a pass of `replace_post` write three bytes
  past what it allocated (`ngx_cep_httpfilter.c:1464`; `OverrunNeedsFlag`);
- `$` is not escaped, nor `)`, `...` and the bytes a1bc: ciphertext with these may be read as
  something else (`ngx_cep_httpfilter.c:1477`, `:294-328`; `Returned`);
- a name right behind text that looks like its beginning, or behind a zero byte, is
  not found, nor is a pattern that begins with its star; a part of the name before the
  zero byte is enough, and a star in the body counts as the one of the name, as does a
  second star of the name as any byte, so that text that no field holds is encrypted (`ngx_cep_httpfilter.c:557-590`; `FoundExplained`);
- a blank typed into a form is encrypted as `+`, and `%` in a multipart value of type
  `POSTFORMSW` as the start of an escape (`ngx_cep_httpfilter.c:666`; `PlainExact`);
- of a pattern, what follows the star is not compared, and a star does not stand for
  nothing (`ngx_cep_policy.c:936-944`; `LookupExplained`);
- an expression that matches the empty text hangs the worker, and `^` matches again
  behind each of its matches (`ngx_encryption_proxy.c:706-760`; `HangExplained`,
  `SubsContract`);
- an addition may be answered with the id of an earlier request's twin
  (`policymanage.c:124`; `AnswerNamesRow`);
- in responses: what `Decrypted`, `FlagRepeats` and `CrashExplained` say above; a packet whose
  head was cut is decoded with the encoding and the closer of the packet before it
  (`ngx_cep_httpfilter.c:201`), also when its opener was in the buffer before; a head spelled
  `[\u001f` that ends its buffer disappears.

## Not modelled

- Directives and their merging: sequential, at start.
- AES and its key: declared but not in the repository; external in the models.
- SQLite and cJSON: vendored. SQLite appears as tables with atomic statements,
  which may fail.
- Logging and the built-in policy tables: they change nothing that the rest of
  the program reads.
- The conversion to gbk (iconv is outside) and groups in regular expressions: see the
  sections above.
