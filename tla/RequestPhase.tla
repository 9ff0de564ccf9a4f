----------------------------- MODULE RequestPhase -----------------------------
(***************************************************************************)
(* The rewrite-phase handler of ngx_encryption_proxy.c: how one worker     *)
(* process takes a client request through reading its body, rewriting the  *)
(* body (get_raw_http_body) and the later phases that forward it upstream. *)
(*                                                                         *)
(* The worker is single threaded: each action below is one event handled   *)
(* to its end, every nested call included.  Requests interleave only       *)
(* between events, and they share one process-wide variable, the C global  *)
(* waiting_more_body.                                                      *)
(*                                                                         *)
(* nginx itself is external: the reference count of the request, the       *)
(* re-entry of the post handler when the body is already there, and the    *)
(* rewrite-phase checker are modelled from how the handler relies on them. *)
(***************************************************************************)
EXTENDS Naturals, FiniteSets

CONSTANTS Requests,  \* the requests a worker receives
          Overlap,   \* may a request arrive while another waits for its body
          Aborts     \* may a client go away while its body is awaited

ASSUME RequestsAssumption == IsFiniteSet(Requests)
ASSUME ModesAssumption == Overlap \in BOOLEAN /\ Aborts \in BOOLEAN

VARIABLES waiting_more_body,  \* the flag shared by all requests of the worker
          req                 \* the progress of each request

vars == <<waiting_more_body, req>>

(***************************************************************************)
(* Kinds of request, as far as the handler tells them apart:               *)
(*   get    GET with a policy: the URL is rewritten                        *)
(*   post   POST with a policy: the body is rewritten                      *)
(*   admin  POST to the management host: a policy operation is run         *)
(*   other  any other method: the handler declines at once                 *)
(* and its header: with a Content-Length ("sized") or without ("chunked"), *)
(* or with a host or URL longer than the handler's buffers ("overlong").   *)
(***************************************************************************)
Kinds == {"get", "post", "admin", "other"}
Headers == {"sized", "chunked", "overlong"}
Sensitive == {"get", "post"}
Handled == Kinds \ {"other"}

States == {"new",        \* not yet seen
           "suspended",  \* the handler returned NGX_AGAIN, body incomplete
           "upstream",   \* the phases after the handler run
           "done",       \* answered and freed
           "leaked",     \* answered, but a reference is left: never freed
           "lost",       \* freed without having been forwarded
           "ended"}      \* freed after an error, an abort or an admin answer

Request == [state : States, kind : Kinds, header : Headers, suspends : 0..1,
            count : 0..2, rewrites : 0..2, resumes : 0..1, forwards : 0..2]

TypeOK == /\ waiting_more_body \in {0, 1}
          /\ req \in [Requests -> Request]

Fresh == [state |-> "new", kind |-> "other", header |-> "sized", suspends |-> 0,
          count |-> 0, rewrites |-> 0, resumes |-> 0, forwards |-> 0]

Init == /\ waiting_more_body = 0
        /\ req = [r \in Requests |-> Fresh]

-------------------------------------------------------------------------------
(* The steps of one call, as functions of the request they work on.        *)

\* A request enters the phases with nginx's own reference on it.
Accepted(k, h) == [Fresh EXCEPT !.kind = k, !.header = h, !.count = 1]

\* Mutant: the reference is not taken.
AcquireMissing(q) == q

\* ngx_http_read_client_request_body takes a reference.
Acquire(q) == [q EXCEPT !.count = @ + 1]

\* Mutant: the reference is kept.
ReleaseMissing(q) == q

\* ngx_http_finalize_request(r, NGX_DONE) or (r, NGX_AGAIN) drops one; the
\* last one frees the request, whatever became of it.
Release(q) == IF q.count = 1
              THEN [q EXCEPT !.count = 0, !.state = "lost"]
              ELSE [q EXCEPT !.count = @ - 1]

\* Mutant: the body is not processed.
GetRawHttpBodySkipped(q) == q

\* The early returns of get_raw_http_body.
Skipped(q) == \/ q.header = "overlong"
              \/ q.header = "chunked" /\ q.kind # "get"

\* get_raw_http_body: rewrites the URL of a "get" and the body of a "post",
\* runs the management operation of an "admin".
GetRawHttpBody(q) == IF Skipped(q) THEN q ELSE [q EXCEPT !.rewrites = @ + 1]

\* The handler returned NGX_DECLINED: the phases go on to the content phase.
Content(q) == [q EXCEPT !.state = "upstream", !.forwards = @ + 1]

\* The handler when the body is there and the flag is down: the post handler
\* runs inside ngx_http_read_client_request_body and drops its reference.
HandleReady(q) == Content(Release(GetRawHttpBody(Acquire(q))))

\* ngx_http_core_run_phases from the post handler enters the handler again;
\* the flag is down by then.
RunPhases(q) == HandleReady([q EXCEPT !.resumes = @ + 1])

\* Mutant: the phases are resumed and the reference is dropped as well.
ProcessHandlerFallsThrough(q) ==
    IF waiting_more_body = 1
    THEN Release(RunPhases(GetRawHttpBody(q)))
    ELSE Release(GetRawHttpBody(q))

\* The post handler: it rewrites, then resumes the phases if the flag is up.
ProcessHandler(q) == IF waiting_more_body = 1
                     THEN RunPhases(GetRawHttpBody(q))
                     ELSE Release(GetRawHttpBody(q))

\* A management request that is processed again finds its response header
\* sent: it is finalized with an error, which ends it after this event.
EndOfEvent(q) == IF q.kind = "admin" /\ q.rewrites = 2
                 THEN [q EXCEPT !.count = 0, !.state = "ended"]
                 ELSE q

-------------------------------------------------------------------------------
(* The events of the worker. *)

Suspended == {r \in Requests : req[r].state = "suspended"}

MayArrive(r) == /\ req[r].state = "new"
                /\ Overlap \/ Suspended = {}

\* A method the handler does not care for is forwarded as it is.
DeclineMethod(r) ==
    /\ MayArrive(r)
    /\ req' = [req EXCEPT ![r] = Content(Accepted("other", "sized"))]
    /\ UNCHANGED waiting_more_body

\* Reading the body fails at once: the handler returns the status, and the
\* rewrite phase ends the request with it.
RejectBody(r) ==
    /\ MayArrive(r)
    /\ \E k \in Handled, h \in Headers :
         req' = [req EXCEPT ![r] = [Accepted(k, h) EXCEPT !.count = 0,
                                                       !.state = "ended"]]
    /\ UNCHANGED waiting_more_body

\* Mutant: the flag stays up after a resumption.
ArriveReadyKeepsFlag(r) ==
    /\ MayArrive(r)
    /\ \E k \in Handled, h \in Headers :
         LET q == ProcessHandler(Acquire(Accepted(k, h)))
         IN  req' = [req EXCEPT ![r] = EndOfEvent(Content(q))]
    /\ UNCHANGED waiting_more_body

\* The whole body (or none) came with the header.  With the flag down this is
\* HandleReady; with the flag up (another request raised it) the post handler
\* runs the phases from inside, and the outer handler then declines as well.
ArriveReady(r) ==
    /\ MayArrive(r)
    /\ \E k \in Handled, h \in Headers :
         LET q == ProcessHandler(Acquire(Accepted(k, h)))
         IN  req' = [req EXCEPT ![r] = EndOfEvent(Content(q))]
    /\ waiting_more_body' = 0

\* Mutant: the flag is not raised on NGX_AGAIN.
ArriveLateNoFlag(r) ==
    /\ MayArrive(r)
    /\ \E k \in Handled, h \in Headers :
         req' = [req EXCEPT ![r] = [Release(Acquire(Accepted(k, h)))
                                      EXCEPT !.state = "suspended",
                                             !.suspends = 1]]
    /\ UNCHANGED waiting_more_body

\* Part of the body is missing: NGX_AGAIN, which the rewrite phase takes as a
\* status to finalize the request with.
ArriveLate(r) ==
    /\ MayArrive(r)
    /\ \E k \in Handled, h \in Headers :
         req' = [req EXCEPT ![r] = [Release(Acquire(Accepted(k, h)))
                                      EXCEPT !.state = "suspended",
                                             !.suspends = 1]]
    /\ waiting_more_body' = 1

\* The rest of the body of a suspended request has arrived.
BodyComplete(r) ==
    /\ req[r].state = "suspended"
    /\ req' = [req EXCEPT ![r] = EndOfEvent(ProcessHandler(req[r]))]
    /\ waiting_more_body' = 0

\* The client of a suspended request goes away; nothing lowers the flag.
ClientAbort(r) ==
    /\ Aborts
    /\ req[r].state = "suspended"
    /\ req' = [req EXCEPT ![r].count = 0, ![r].state = "ended"]
    /\ UNCHANGED waiting_more_body

\* The response is complete: nginx drops its own reference.
UpstreamDone(r) ==
    /\ req[r].state = "upstream"
    /\ req' = [req EXCEPT ![r].count = @ - 1,
                          ![r].state = IF req[r].count = 1 THEN "done"
                                                           ELSE "leaked"]
    /\ UNCHANGED waiting_more_body

\* All requests have been received and nothing is under way.
Quiet == /\ \A r \in Requests : req[r].state \notin {"new", "suspended", "upstream"}
         /\ UNCHANGED vars

Arrive(r) == \/ DeclineMethod(r)
             \/ RejectBody(r)
             \/ ArriveReady(r)
             \/ ArriveLate(r)

Next == \/ \E r \in Requests : \/ Arrive(r)
                               \/ BodyComplete(r)
                               \/ ClientAbort(r)
                               \/ UpstreamDone(r)
        \/ Quiet

\* A client that has begun a body sends the rest unless it aborts; upstream
\* answers, or nginx's own timeout answers in its place.
Fairness == \A r \in Requests : /\ WF_vars(BodyComplete(r))
                                /\ WF_vars(UpstreamDone(r))

Spec == Init /\ [][Next]_vars
FairSpec == Spec /\ Fairness

-------------------------------------------------------------------------------
(* Safety, for any load and with clients that go away. *)

\* A request that is forwarded has had its URL or body rewritten, whichever of
\* the paths through the two handlers it took, unless get_raw_http_body
\* returned early on its header.
ForwardedRewritten ==
    \A r \in Requests :
        req[r].forwards > 0 /\ req[r].kind \in Sensitive /\ ~Skipped(req[r])
            => req[r].rewrites > 0

\* The reference counts nginx is handed back are right on every path: a live
\* request has a reference (no use after free), and one is left over only on
\* a request that took the flag of another.
ReferencesHeld ==
    \A r \in Requests :
        /\ req[r].state \in {"suspended", "upstream", "leaked"} => req[r].count > 0
        /\ req[r].state \in {"done", "lost", "ended"} => req[r].count = 0
        /\ req[r].state = "leaked" => req[r].resumes = 1 /\ req[r].suspends = 0

\* Each time the phase engine is resumed, one suspension is used up: however
\* requests share the flag, there are never more resumptions than requests
\* that were suspended, one still owed while the flag is up.
ResumesWithinSuspensions ==
    Cardinality({r \in Requests : req[r].resumes = 1}) + waiting_more_body
        <= Cardinality({r \in Requests : req[r].suspends = 1})

\* A request is freed without being forwarded only when some other request
\* was resumed on its flag: alone, a suspended request is never lost.
LossNeedsThief ==
    \A r \in Requests :
        req[r].state = "lost" => \E s \in Requests \ {r} : req[s].resumes = 1

(* Where requests do not arrive during the wait of another and clients stay. *)

\* Every request that was accepted is forwarded once, no more and no less,
\* and none keeps a reference.
ForwardedOnce ==
    \A r \in Requests :
        /\ req[r].state \notin {"lost", "leaked"}
        /\ req[r].state \in {"upstream", "done"} => req[r].forwards = 1

Stage(q) == CASE q.state = "new"                           -> "idle"
              [] q.state = "suspended"                     -> "held"
              [] q.state = "upstream" /\ q.forwards = 1    -> "sent"
              [] q.state \in {"done", "ended"}             -> "closed"
              [] OTHER                                     -> "broken"

Contract == INSTANCE RequestContract
              WITH phase <- [r \in Requests |-> Stage(req[r])],
                   plain <- [r \in Requests |->
                               /\ req[r].state # "new"
                               /\ req[r].kind \in Sensitive
                               /\ ~Skipped(req[r])
                               /\ req[r].rewrites = 0]

\* The handler implements the contract: sent on at most once and rewritten by
\* then, and a request that is held is settled in the end.
ImplementsContract == Contract!Spec

(* What the documentation says. *)

\* The management API (comment at ngx_encryption_proxy.c:1275-1290) answers
\* one request with the result of one operation: it is run once.
AdminRunOnce ==
    \A r \in Requests : req[r].kind = "admin" => req[r].rewrites <= 1
===============================================================================
