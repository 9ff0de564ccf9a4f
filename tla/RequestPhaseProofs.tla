-------------------------- MODULE RequestPhaseProofs --------------------------
(***************************************************************************)
(* Proofs about RequestPhase, for any number of requests.                  *)
(*                                                                         *)
(* What a single request can look like is the predicate Shape; each event  *)
(* replaces one request by one of the four outcomes below, so a lemma per  *)
(* outcome says that it has the shape.  What relates requests to each      *)
(* other and to the flag is in IInv.                                       *)
(***************************************************************************)
EXTENDS RequestPhase, FiniteSetTheorems, TLAPS

\* What holds of each request at all times.
Shape(q) ==
    /\ q \in Request
    /\ q.state = "new" => q = Fresh
    /\ q.state = "suspended" => /\ q.suspends = 1
                                /\ q.count = 1 /\ q.rewrites = 0
                                /\ q.resumes = 0 /\ q.forwards = 0
    /\ q.state = "upstream" => \/ q.count = 1
                               \/ q.count = 2 /\ q.resumes = 1 /\ q.suspends = 0
    /\ q.state = "leaked" => q.count = 1 /\ q.resumes = 1 /\ q.suspends = 0
    /\ q.state \in {"done", "lost", "ended"} => q.count = 0
    /\ q.forwards > 0 /\ q.kind \in Sensitive /\ ~Skipped(q) => q.rewrites > 0

\* A suspended request finds the flag up, or somebody else has used it.
FlagOwed(r) == \/ waiting_more_body = 1
               \/ \E s \in Requests \ {r} : req[s].resumes = 1

IInv == /\ waiting_more_body \in {0, 1}
        /\ req \in [Requests -> Request]
        /\ \A r \in Requests : Shape(req[r])
        /\ \A r \in Requests : req[r].state = "suspended" => FlagOwed(r)
        /\ LossNeedsThief

-------------------------------------------------------------------------------
(* The outcomes of the events, one request at a time. *)

\* A request written out by its fields.
Rec(st, k, h, l, c, w, rs, f) ==
    [state |-> st, kind |-> k, header |-> h, suspends |-> l,
     count |-> c, rewrites |-> w, resumes |-> rs, forwards |-> f]

\* How much one run of get_raw_http_body adds.
Once(k, h) == IF h = "overlong" \/ (h = "chunked" /\ k # "get") THEN 0 ELSE 1

\* Each step of a call, on a request written out.
LEMMA Steps ==
    ASSUME NEW st \in States, NEW k \in Kinds, NEW h \in Headers, NEW l \in 0..1,
           NEW c \in Nat, NEW w \in Nat, NEW rs \in Nat, NEW f \in Nat
    PROVE  /\ Acquire(Rec(st, k, h, l, c, w, rs, f)) = Rec(st, k, h, l, c + 1, w, rs, f)
           /\ c > 1 => Release(Rec(st, k, h, l, c, w, rs, f)) = Rec(st, k, h, l, c - 1, w, rs, f)
           /\ c > 0 => Release(Rec(st, k, h, l, c + 1, w, rs, f)) = Rec(st, k, h, l, c, w, rs, f)
           /\ c = 1 => Release(Rec(st, k, h, l, c, w, rs, f)) = Rec("lost", k, h, l, 0, w, rs, f)
           /\ GetRawHttpBody(Rec(st, k, h, l, c, w, rs, f))
                = Rec(st, k, h, l, c, w + Once(k, h), rs, f)
           /\ Content(Rec(st, k, h, l, c, w, rs, f)) = Rec("upstream", k, h, l, c, w, rs, f + 1)
<1> DEFINE q == Rec(st, k, h, l, c, w, rs, f)
<1>1. Acquire(q) = Rec(st, k, h, l, c + 1, w, rs, f)
  BY DEF Acquire, Rec
<1>2. c > 1 => Release(q) = Rec(st, k, h, l, c - 1, w, rs, f)
  BY DEF Release, Rec
<1>6. c > 0 => Release(Rec(st, k, h, l, c + 1, w, rs, f)) = q
  BY DEF Release, Rec
<1>3. c = 1 => Release(q) = Rec("lost", k, h, l, 0, w, rs, f)
  BY DEF Release, Rec
<1>4. GetRawHttpBody(q) = Rec(st, k, h, l, c, w + Once(k, h), rs, f)
  BY DEF GetRawHttpBody, Skipped, Once, Rec
<1>5. Content(q) = Rec("upstream", k, h, l, c, w, rs, f + 1)
  <2>1. q.forwards = f
    BY DEF Rec
  <2>2. Content(q) = [q EXCEPT !.state = "upstream", !.forwards = f + 1]
    BY <2>1 DEF Content
  <2>3. [q EXCEPT !.state = "upstream"] = Rec("upstream", k, h, l, c, w, rs, f)
    BY DEF Rec
  <2>4. [Rec("upstream", k, h, l, c, w, rs, f) EXCEPT !.forwards = f + 1]
           = Rec("upstream", k, h, l, c, w, rs, f + 1)
    BY DEF Rec
  <2>5. Content(q) = [[q EXCEPT !.state = "upstream"] EXCEPT !.forwards = f + 1]
    BY <2>2
  <2> QED BY <2>3, <2>4, <2>5
<1> QED BY <1>1, <1>2, <1>3, <1>4, <1>5, <1>6

\* The handler, entered with the flag down, on a request written out.
LEMMA HandlerStep ==
    ASSUME NEW st \in States, NEW k \in Kinds, NEW h \in Headers, NEW l \in 0..1,
           NEW c \in Nat \ {0}, NEW w \in Nat, NEW rs \in Nat, NEW f \in Nat
    PROVE  /\ HandleReady(Rec(st, k, h, l, c, w, rs, f))
                = Rec("upstream", k, h, l, c, w + Once(k, h), rs, f + 1)
           /\ RunPhases(Rec(st, k, h, l, c, w, rs, f))
                = Rec("upstream", k, h, l, c, w + Once(k, h), rs + 1, f + 1)
<1>0. Once(k, h) \in Nat
  BY DEF Once
<1>1. ASSUME NEW n \in Nat
      PROVE  HandleReady(Rec(st, k, h, l, c, w, n, f))
               = Rec("upstream", k, h, l, c, w + Once(k, h), n, f + 1)
  <2>0. PICK v \in Nat : v = w + Once(k, h)
    BY <1>0
  <2>1. Acquire(Rec(st, k, h, l, c, w, n, f)) = Rec(st, k, h, l, c + 1, w, n, f)
    BY SMTT(30), Steps
  <2>2. GetRawHttpBody(Rec(st, k, h, l, c + 1, w, n, f)) = Rec(st, k, h, l, c + 1, v, n, f)
    <3>1. PICK d \in Nat : d = c + 1
      OBVIOUS
    <3>2. GetRawHttpBody(Rec(st, k, h, l, d, w, n, f)) = Rec(st, k, h, l, d, w + Once(k, h), n, f)
      BY SMTT(30), Steps
    <3> QED BY <2>0, <3>1, <3>2
  <2>3. Release(Rec(st, k, h, l, c + 1, v, n, f)) = Rec(st, k, h, l, c, v, n, f)
    BY SMTT(30), c > 0, c \in Nat, Steps
  <2>4. Content(Rec(st, k, h, l, c, v, n, f)) = Rec("upstream", k, h, l, c, v, n, f + 1)
    BY Steps
  <2> QED BY <2>0, <2>1, <2>2, <2>3, <2>4 DEF HandleReady
<1>2. [Rec(st, k, h, l, c, w, rs, f) EXCEPT !.resumes = @ + 1]
        = Rec(st, k, h, l, c, w, rs + 1, f)
  BY DEF Rec
<1>3. RunPhases(Rec(st, k, h, l, c, w, rs, f)) = HandleReady(Rec(st, k, h, l, c, w, rs + 1, f))
  BY <1>2 DEF RunPhases
<1> QED BY <1>1, <1>3

\* A request as it enters the handler.
LEMMA AcceptedRec ==
    ASSUME NEW k \in Kinds, NEW h \in Headers
    PROVE  Accepted(k, h) = Rec("new", k, h, 0, 1, 0, 0, 0)
<1>1. [Fresh EXCEPT !.kind = k] = [Rec("new", "other", "sized", 0, 0, 0, 0, 0)
                                     EXCEPT !.kind = k]
  BY DEF Fresh, Rec
<1>2. [Rec("new", "other", "sized", 0, 0, 0, 0, 0) EXCEPT !.kind = k]
        = Rec("new", k, "sized", 0, 0, 0, 0, 0)
  BY DEF Rec
<1>3. [Rec("new", k, "sized", 0, 0, 0, 0, 0) EXCEPT !.header = h]
        = Rec("new", k, h, 0, 0, 0, 0, 0)
  BY DEF Rec
<1>4. [Rec("new", k, h, 0, 0, 0, 0, 0) EXCEPT !.count = 1]
        = Rec("new", k, h, 0, 1, 0, 0, 0)
  BY DEF Rec
<1>5. Accepted(k, h) = [[[Fresh EXCEPT !.kind = k] EXCEPT !.header = h] EXCEPT !.count = 1]
  BY DEF Accepted
<1> QED BY <1>1, <1>2, <1>3, <1>4, <1>5

\* The four outcomes: arrived with its body (flag down, flag up), and
\* suspended before (flag up, flag down).
LEMMA Outcomes ==
    ASSUME NEW k \in Kinds, NEW h \in Headers
    PROVE  /\ Content(Release(GetRawHttpBody(Acquire(Accepted(k, h)))))
                = Rec("upstream", k, h, 0, 1, Once(k, h), 0, 1)
           /\ Content(RunPhases(GetRawHttpBody(Acquire(Accepted(k, h)))))
                = Rec("upstream", k, h, 0, 2, 2 * Once(k, h), 1, 2)
           /\ RunPhases(GetRawHttpBody(Rec("suspended", k, h, 1, 1, 0, 0, 0)))
                = Rec("upstream", k, h, 1, 1, 2 * Once(k, h), 1, 1)
           /\ Release(GetRawHttpBody(Rec("suspended", k, h, 1, 1, 0, 0, 0)))
                = Rec("lost", k, h, 1, 0, Once(k, h), 0, 0)
<1>0. Once(k, h) \in Nat /\ Once(k, h) + Once(k, h) = 2 * Once(k, h)
  BY DEF Once
<1>1. Accepted(k, h) = Rec("new", k, h, 0, 1, 0, 0, 0)
  BY AcceptedRec
<1>2. GetRawHttpBody(Acquire(Accepted(k, h))) = Rec("new", k, h, 0, 2, Once(k, h), 0, 0)
  <2>1. "new" \in States
    BY DEF States
  <2>2. Acquire(Accepted(k, h)) = Rec("new", k, h, 0, 2, 0, 0, 0)
    BY <1>1, <2>1, Steps
  <2> QED BY <2>1, <2>2, <1>0, Steps
<1>3. Release(GetRawHttpBody(Acquire(Accepted(k, h)))) = Rec("new", k, h, 0, 1, Once(k, h), 0, 0)
  BY <1>0, <1>2, Steps DEF States
<1>4. Content(Release(GetRawHttpBody(Acquire(Accepted(k, h)))))
        = Rec("upstream", k, h, 0, 1, Once(k, h), 0, 1)
  BY <1>0, <1>3, Steps DEF States
<1>5. RunPhases(GetRawHttpBody(Acquire(Accepted(k, h))))
        = Rec("upstream", k, h, 0, 2, 2 * Once(k, h), 1, 1)
  BY <1>0, <1>2, HandlerStep DEF States
<1>6. Content(RunPhases(GetRawHttpBody(Acquire(Accepted(k, h)))))
        = Rec("upstream", k, h, 0, 2, 2 * Once(k, h), 1, 2)
  BY <1>0, <1>5, Steps DEF States
<1>7. GetRawHttpBody(Rec("suspended", k, h, 1, 1, 0, 0, 0))
        = Rec("suspended", k, h, 1, 1, Once(k, h), 0, 0)
  BY <1>0, Steps DEF States
<1>8. RunPhases(GetRawHttpBody(Rec("suspended", k, h, 1, 1, 0, 0, 0)))
        = Rec("upstream", k, h, 1, 1, 2 * Once(k, h), 1, 1)
  BY <1>0, <1>7, HandlerStep DEF States
<1>9. Release(GetRawHttpBody(Rec("suspended", k, h, 1, 1, 0, 0, 0)))
        = Rec("lost", k, h, 1, 0, Once(k, h), 0, 0)
  BY <1>0, <1>7, Steps DEF States
<1> QED BY <1>4, <1>6, <1>8, <1>9

\* When a request written out has the shape of a request.
LEMMA ShapeRec ==
    ASSUME NEW s \in States \ {"new", "leaked"}, NEW k \in Kinds, NEW h \in Headers,
           NEW l \in 0..1, NEW c \in 0..2, NEW w \in 0..2, NEW n \in 0..1, NEW f \in 0..2,
           s = "suspended" => l = 1 /\ c = 1 /\ w = 0 /\ n = 0 /\ f = 0,
           s = "upstream" => c = 1 \/ (c = 2 /\ n = 1 /\ l = 0),
           s \in {"done", "lost", "ended"} => c = 0,
           f > 0 /\ k \in Sensitive /\ Once(k, h) = 1 => w > 0
    PROVE  Shape(Rec(s, k, h, l, c, w, n, f))
<1> DEFINE q == Rec(s, k, h, l, c, w, n, f)
<1>1. /\ q.state = s /\ q.kind = k /\ q.header = h /\ q.suspends = l
      /\ q.count = c /\ q.rewrites = w /\ q.resumes = n /\ q.forwards = f
  BY DEF Rec
<1>2. q \in Request
  BY DEF Rec, Request
<1>3. q.forwards > 0 /\ q.kind \in Sensitive /\ ~Skipped(q) => q.rewrites > 0
  <2>1. ~Skipped(q) => Once(k, h) = 1
    BY <1>1 DEF Skipped, Once
  <2> QED BY <1>1, <2>1
<1> HIDE DEF q
<1>4. Shape(q)
  BY <1>1, <1>2, <1>3 DEF Shape
<1> QED BY <1>4 DEF q

\* What the end of an event makes of a request written out.
LEMMA EndOfEventRec ==
    ASSUME NEW s \in States, NEW k \in Kinds, NEW h \in Headers, NEW l \in 0..1,
           NEW c \in 0..2, NEW w \in 0..2, NEW n \in 0..1, NEW f \in 0..2
    PROVE  EndOfEvent(Rec(s, k, h, l, c, w, n, f)) \in
             {Rec(s, k, h, l, c, w, n, f), Rec("ended", k, h, l, 0, w, n, f)}
<1> DEFINE q == Rec(s, k, h, l, c, w, n, f)
<1>1. [q EXCEPT !.count = 0] = Rec(s, k, h, l, 0, w, n, f)
  BY DEF Rec
<1>2. [Rec(s, k, h, l, 0, w, n, f) EXCEPT !.state = "ended"] = Rec("ended", k, h, l, 0, w, n, f)
  BY DEF Rec
<1>3. [q EXCEPT !.count = 0, !.state = "ended"]
        = [[q EXCEPT !.count = 0] EXCEPT !.state = "ended"]
  OBVIOUS
<1> QED BY <1>1, <1>2, <1>3 DEF EndOfEvent

\* A request that an event leaves in state s, or ended: suspended l times and
\* resumed n times and, if it is live, with c references and sent on f times.
Outcome(q, s, l, n, c, f) ==
    /\ Shape(q)
    /\ q.state \in {s, "ended"} /\ q.suspends = l /\ q.resumes = n
    /\ q.state \in {"upstream", "suspended"} => q.count = c /\ q.forwards = f

\* The outcome of a request that is written out.
LEMMA OutcomeRec ==
    ASSUME NEW s \in States \ {"new", "leaked"}, NEW k \in Kinds, NEW h \in Headers,
           NEW l \in 0..1, NEW c \in 0..2, NEW w \in 0..2, NEW n \in 0..1, NEW f \in 0..2,
           s = "suspended" => l = 1 /\ c = 1 /\ w = 0 /\ n = 0 /\ f = 0,
           s = "upstream" => c = 1 \/ (c = 2 /\ n = 1 /\ l = 0),
           s \in {"done", "lost", "ended"} => c = 0,
           f > 0 /\ k \in Sensitive /\ Once(k, h) = 1 => w > 0
    PROVE  /\ Outcome(Rec(s, k, h, l, c, w, n, f), s, l, n, c, f)
           /\ Outcome(EndOfEvent(Rec(s, k, h, l, c, w, n, f)), s, l, n, c, f)
<1> DEFINE p == Rec(s, k, h, l, c, w, n, f)
           e == Rec("ended", k, h, l, 0, w, n, f)
<1>1. Shape(p)
  BY ShapeRec
<1>2. Shape(e)
  <2>1. "ended" \in States \ {"new", "leaked"}
    BY DEF States
  <2> QED BY <2>1, ShapeRec
<1>3. /\ p.state = s /\ p.suspends = l /\ p.resumes = n /\ p.count = c /\ p.forwards = f
      /\ e.state = "ended" /\ e.suspends = l /\ e.resumes = n
  BY DEF Rec
<1>4. EndOfEvent(p) \in {p, e}
  BY EndOfEventRec
<1> HIDE DEF p, e
<1>5. Outcome(p, s, l, n, c, f) /\ Outcome(e, s, l, n, c, f)
  BY <1>1, <1>2, <1>3 DEF Outcome
<1>6. Outcome(EndOfEvent(p), s, l, n, c, f)
  BY <1>4, <1>5
<1> QED BY <1>5, <1>6 DEF p

\* Request r has become such a request.
Becomes(r, s, l, n, c, f) ==
    \E q : req' = [req EXCEPT ![r] = q] /\ Outcome(q, s, l, n, c, f)

\* What each event makes of its request, by the state of the flag.
LEMMA Arrivals ==
    ASSUME NEW r \in Requests
    PROVE  /\ DeclineMethod(r) => Becomes(r, "upstream", 0, 0, 1, 1)
           /\ RejectBody(r) => Becomes(r, "ended", 0, 0, 0, 0)
           /\ ArriveReady(r) /\ waiting_more_body = 1
                => Becomes(r, "upstream", 0, 1, 2, 2)
           /\ ArriveReady(r) /\ waiting_more_body = 0
                => Becomes(r, "upstream", 0, 0, 1, 1)
           /\ ArriveLate(r) => Becomes(r, "suspended", 1, 0, 1, 0)
<1>1. ASSUME DeclineMethod(r) PROVE Becomes(r, "upstream", 0, 0, 1, 1)
  <2>1. Accepted("other", "sized") = Rec("new", "other", "sized", 0, 1, 0, 0, 0)
    BY AcceptedRec DEF Kinds, Headers
  <2>2. Content(Accepted("other", "sized")) = Rec("upstream", "other", "sized", 0, 1, 0, 0, 1)
    BY <2>1, Steps DEF States, Kinds, Headers
  <2>3. req' = [req EXCEPT ![r] = Rec("upstream", "other", "sized", 0, 1, 0, 0, 1)]
    BY <1>1, <2>2 DEF DeclineMethod
  <2>4. Outcome(Rec("upstream", "other", "sized", 0, 1, 0, 0, 1), "upstream", 0, 0, 1, 1)
    <3>1. /\ "other" \in Kinds /\ "other" \notin Sensitive /\ "sized" \in Headers
          /\ "upstream" \in States \ {"new", "leaked"}
      BY DEF States, Kinds, Headers, Sensitive
    <3> QED BY <3>1, OutcomeRec
  <2> QED BY <2>3, <2>4 DEF Becomes
<1>2. ASSUME RejectBody(r) PROVE Becomes(r, "ended", 0, 0, 0, 0)
  <2>1. PICK k \in Handled, h \in Headers :
           req' = [req EXCEPT ![r] = [Accepted(k, h) EXCEPT !.count = 0, !.state = "ended"]]
    BY <1>2 DEF RejectBody
  <2>2. k \in Kinds
    BY DEF Handled
  <2>3. [Accepted(k, h) EXCEPT !.count = 0] = Rec("new", k, h, 0, 0, 0, 0, 0)
    <3>1. Accepted(k, h) = Rec("new", k, h, 0, 1, 0, 0, 0)
      BY <2>2, AcceptedRec
    <3> QED BY <3>1 DEF Rec
  <2>4. [Rec("new", k, h, 0, 0, 0, 0, 0) EXCEPT !.state = "ended"]
          = Rec("ended", k, h, 0, 0, 0, 0, 0)
    BY DEF Rec
  <2>5. [Accepted(k, h) EXCEPT !.count = 0, !.state = "ended"]
          = [[Accepted(k, h) EXCEPT !.count = 0] EXCEPT !.state = "ended"]
    OBVIOUS
  <2>6. req' = [req EXCEPT ![r] = Rec("ended", k, h, 0, 0, 0, 0, 0)]
    BY <2>1, <2>3, <2>4, <2>5
  <2>7. Outcome(Rec("ended", k, h, 0, 0, 0, 0, 0), "ended", 0, 0, 0, 0)
    BY <2>2, OutcomeRec DEF States
  <2> QED BY <2>6, <2>7 DEF Becomes
<1>3. ASSUME ArriveReady(r)
      PROVE  /\ waiting_more_body = 1 => Becomes(r, "upstream", 0, 1, 2, 2)
             /\ waiting_more_body = 0 => Becomes(r, "upstream", 0, 0, 1, 1)
  <2>1. PICK k \in Handled, h \in Headers :
           req' = [req EXCEPT ![r] =
                     EndOfEvent(Content(ProcessHandler(Acquire(Accepted(k, h)))))]
    BY <1>3 DEF ArriveReady
  <2>2. k \in Kinds /\ Once(k, h) \in {0, 1}
    BY DEF Handled, Once
  <2>3. CASE waiting_more_body = 1
    <3>1. req' = [req EXCEPT ![r] = EndOfEvent(Rec("upstream", k, h, 0, 2, 2 * Once(k, h), 1, 2))]
      BY <2>1, <2>2, <2>3, Outcomes DEF ProcessHandler
    <3>2. PICK w \in 0..2 : w = 2 * Once(k, h)
      BY <2>2
    <3>3. Outcome(EndOfEvent(Rec("upstream", k, h, 0, 2, w, 1, 2)), "upstream", 0, 1, 2, 2)
      BY <2>2, <3>2, OutcomeRec DEF States
    <3> QED BY <2>3, <3>1, <3>2, <3>3 DEF Becomes
  <2>4. CASE waiting_more_body = 0
    <3>1. \A p : ProcessHandler(p) = Release(GetRawHttpBody(p))
      BY <2>4 DEF ProcessHandler
    <3>2. req' = [req EXCEPT ![r] = EndOfEvent(Rec("upstream", k, h, 0, 1, Once(k, h), 0, 1))]
      BY <2>1, <2>2, <3>1, Outcomes
    <3>3. Outcome(EndOfEvent(Rec("upstream", k, h, 0, 1, Once(k, h), 0, 1)), "upstream", 0, 0, 1, 1)
      BY <2>2, OutcomeRec DEF States
    <3> QED BY <2>4, <3>2, <3>3 DEF Becomes
  <2> QED BY <2>3, <2>4
<1>4. ASSUME ArriveLate(r) PROVE Becomes(r, "suspended", 1, 0, 1, 0)
  <2>1. PICK k \in Handled, h \in Headers :
           req' = [req EXCEPT ![r] = [Release(Acquire(Accepted(k, h)))
                                        EXCEPT !.state = "suspended", !.suspends = 1]]
    BY <1>4 DEF ArriveLate
  <2>2. k \in Kinds
    BY DEF Handled
  <2>3. Acquire(Accepted(k, h)) = Rec("new", k, h, 0, 2, 0, 0, 0)
    BY <2>2, AcceptedRec, Steps DEF States
  <2>4. Release(Acquire(Accepted(k, h))) = Rec("new", k, h, 0, 1, 0, 0, 0)
    BY <2>2, <2>3, Steps DEF States
  <2>5. [Rec("new", k, h, 0, 1, 0, 0, 0) EXCEPT !.state = "suspended"]
          = Rec("suspended", k, h, 0, 1, 0, 0, 0)
    BY DEF Rec
  <2>6. [Rec("suspended", k, h, 0, 1, 0, 0, 0) EXCEPT !.suspends = 1]
          = Rec("suspended", k, h, 1, 1, 0, 0, 0)
    BY DEF Rec
  <2>7. req' = [req EXCEPT ![r] = Rec("suspended", k, h, 1, 1, 0, 0, 0)]
    BY <2>1, <2>4, <2>5, <2>6
  <2>8. Outcome(Rec("suspended", k, h, 1, 1, 0, 0, 0), "suspended", 1, 0, 1, 0)
    BY <2>2, OutcomeRec DEF States
  <2> QED BY <2>7, <2>8 DEF Becomes
<1> QED BY <1>1, <1>2, <1>3, <1>4

\* What the arrival of the whole body makes of a request.
LEMMA Completion ==
    ASSUME NEW r \in Requests, Shape(req[r]), BodyComplete(r)
    PROVE  /\ waiting_more_body = 1 => Becomes(r, "upstream", 1, 1, 1, 1)
           /\ waiting_more_body = 0 => Becomes(r, "lost", 1, 0, 0, 0)
<1> DEFINE k == req[r].kind
           h == req[r].header
<1>1. req[r] = Rec("suspended", k, h, 1, 1, 0, 0, 0) /\ k \in Kinds /\ h \in Headers
  BY DEF BodyComplete, Shape, Request, Rec
<1>2. Once(k, h) \in {0, 1}
  BY DEF Once
<1>3. req' = [req EXCEPT ![r] = EndOfEvent(ProcessHandler(req[r]))]
  BY DEF BodyComplete
<1> HIDE DEF k, h
<1>4. CASE waiting_more_body = 1
  <2>1. req' = [req EXCEPT ![r] = EndOfEvent(Rec("upstream", k, h, 1, 1, 2 * Once(k, h), 1, 1))]
    BY <1>1, <1>3, <1>4, Outcomes DEF ProcessHandler
  <2>2. PICK w \in 0..2 : w = 2 * Once(k, h)
    BY <1>2
  <2>3. Outcome(EndOfEvent(Rec("upstream", k, h, 1, 1, w, 1, 1)), "upstream", 1, 1, 1, 1)
    BY <1>1, <1>2, <2>2, OutcomeRec DEF States
  <2>4. Becomes(r, "upstream", 1, 1, 1, 1)
    BY <2>1, <2>2, <2>3 DEF Becomes
  <2> QED BY <1>4, <2>4
<1>5. CASE waiting_more_body = 0
  <2>1. \A p : ProcessHandler(p) = Release(GetRawHttpBody(p))
    BY <1>5 DEF ProcessHandler
  <2>2. req' = [req EXCEPT ![r] = EndOfEvent(Rec("lost", k, h, 1, 0, Once(k, h), 0, 0))]
    BY <1>1, <1>3, <2>1, Outcomes
  <2>3. Outcome(EndOfEvent(Rec("lost", k, h, 1, 0, Once(k, h), 0, 0)), "lost", 1, 0, 0, 0)
    BY <1>1, <1>2, OutcomeRec DEF States
  <2>4. Becomes(r, "lost", 1, 0, 0, 0)
    BY <2>2, <2>3 DEF Becomes
  <2> QED BY <1>5, <2>4
<1> QED BY <1>4, <1>5

-------------------------------------------------------------------------------
(* The inductive invariant. *)

\* The invariant holds when no request has come yet.
LEMMA InitIInv == Init => IInv
<1> SUFFICES ASSUME Init PROVE IInv
  OBVIOUS
<1>1. Fresh \in Request /\ Fresh.state = "new" /\ Fresh.forwards = 0
  BY DEF Fresh, Request, States, Kinds, Headers
<1>2. Shape(Fresh)
  BY <1>1 DEF Shape
<1>3. \A r \in Requests : req[r] = Fresh
  BY DEF Init
<1> QED BY <1>1, <1>2, <1>3 DEF Init, IInv, LossNeedsThief

\* An event of request r that leaves it well shaped keeps the invariant, if it
\* never forgets a resumption and resumes r whenever it lowers the flag.
LEMMA OneRequest ==
    ASSUME IInv, NEW r \in Requests, NEW q, Shape(q),
           req' = [req EXCEPT ![r] = q],
           waiting_more_body' \in {0, 1},
           req[r].resumes = 1 => q.resumes = 1,
           waiting_more_body = 1 /\ waiting_more_body' = 0 => q.resumes = 1,
           q.state = "suspended" => waiting_more_body' = 1,
           q.state = "lost" => req[r].state = "suspended" /\ waiting_more_body = 0
    PROVE  IInv'
<1>1. /\ \A s \in Requests : req'[s] = IF s = r THEN q ELSE req[s]
      /\ req' \in [Requests -> Request]
  BY DEF IInv, Shape
<1>2. \A s \in Requests : Shape(req[s])'
  BY <1>1 DEF IInv, Shape, Skipped
<1>3. \A s \in Requests : req[s].resumes = 1 => req'[s].resumes = 1
  BY <1>1
<1>4. ASSUME NEW s \in Requests, req'[s].state = "suspended"
      PROVE  FlagOwed(s)'
  <2>1. CASE s = r
    BY <1>1, <1>4, <2>1 DEF FlagOwed
  <2>2. CASE s # r
    <3>1. FlagOwed(s)
      BY <1>1, <1>4, <2>2 DEF IInv
    <3>2. CASE waiting_more_body = 1
      BY <1>1, <2>2, <3>2 DEF FlagOwed
    <3>3. CASE \E t \in Requests \ {s} : req[t].resumes = 1
      BY <1>3, <3>3 DEF FlagOwed
    <3> QED BY <3>1, <3>2, <3>3 DEF FlagOwed
  <2> QED BY <2>1, <2>2
<1>5. LossNeedsThief'
  <2> SUFFICES ASSUME NEW s \in Requests, req'[s].state = "lost"
               PROVE  \E t \in Requests \ {s} : req'[t].resumes = 1
    BY DEF LossNeedsThief
  <2>1. \E t \in Requests \ {s} : req[t].resumes = 1
    BY <1>1 DEF IInv, FlagOwed, LossNeedsThief
  <2> QED BY <1>3, <2>1
<1> QED BY <1>1, <1>2, <1>4, <1>5 DEF IInv

\* Every step of a request or of the worker keeps it.
LEMMA NextIInv == IInv /\ [Next]_vars => IInv'
<1> SUFFICES ASSUME IInv, [Next]_vars PROVE IInv'
  OBVIOUS
<1>0. waiting_more_body \in {0, 1} /\ \A r \in Requests : Shape(req[r])
  BY DEF IInv
\* An event that keeps the flag, or resumes as it lowers it, and loses nobody.
<1>1. ASSUME NEW r \in Requests, NEW s, NEW l, NEW n, NEW c, NEW f,
             Becomes(r, s, l, n, c, f), waiting_more_body' \in {0, 1},
             req[r].resumes = 0,
             waiting_more_body = 1 /\ waiting_more_body' = 0 => n = 1,
             s = "suspended" => waiting_more_body' = 1,
             s = "lost" => req[r].state = "suspended" /\ waiting_more_body = 0
      PROVE  IInv'
  <2>1. PICK q : /\ Shape(q)
                 /\ req' = [req EXCEPT ![r] = q]
                 /\ q.state \in {s, "ended"} /\ q.resumes = n
    BY <1>1 DEF Becomes, Outcome
  <2>2. /\ req[r].resumes = 1 => q.resumes = 1
        /\ q.state = "suspended" => s = "suspended"
        /\ q.state = "lost" => s = "lost"
    BY <1>1, <2>1
  <2> QED BY <1>1, <2>1, <2>2, OneRequest
<1>2. ASSUME NEW r \in Requests, Arrive(r) PROVE IInv'
  <2>1. req[r].resumes = 0
    <3>1. req[r].state = "new"
      BY <1>2 DEF Arrive, DeclineMethod, RejectBody, ArriveReady, ArriveLate, MayArrive
    <3> QED BY <1>0, <3>1 DEF Shape, Fresh
  <2>2. CASE DeclineMethod(r)
    <3>1. Becomes(r, "upstream", 0, 0, 1, 1) /\ waiting_more_body' = waiting_more_body
      BY <2>2, Arrivals DEF DeclineMethod
    <3>2. waiting_more_body' \in {0, 1} /\ ~(waiting_more_body = 1 /\ waiting_more_body' = 0)
      BY <1>0, <3>1
    <3> QED BY <1>1, <2>1, <3>1, <3>2
  <2>3. CASE RejectBody(r)
    <3>1. Becomes(r, "ended", 0, 0, 0, 0) /\ waiting_more_body' = waiting_more_body
      BY <2>3, Arrivals DEF RejectBody
    <3>2. waiting_more_body' \in {0, 1} /\ ~(waiting_more_body = 1 /\ waiting_more_body' = 0)
      BY <1>0, <3>1
    <3> QED BY <1>1, <2>1, <3>1, <3>2
  <2>4. CASE ArriveReady(r)
    <3>1. waiting_more_body' = 0
      BY <2>4 DEF ArriveReady
    <3>2. CASE waiting_more_body = 1
      <4>1. Becomes(r, "upstream", 0, 1, 2, 2)
        BY <2>4, <3>2, Arrivals
      <4> QED BY <1>1, <2>1, <3>1, <4>1
    <3>3. CASE waiting_more_body = 0
      <4>1. Becomes(r, "upstream", 0, 0, 1, 1)
        BY <2>4, <3>3, Arrivals
      <4>2. ~(waiting_more_body = 1 /\ waiting_more_body' = 0)
        BY <3>3
      <4> QED BY <1>1, <2>1, <3>1, <4>1, <4>2
    <3> QED BY <1>0, <3>2, <3>3
  <2>5. CASE ArriveLate(r)
    <3>1. Becomes(r, "suspended", 1, 0, 1, 0) /\ waiting_more_body' = 1
      BY <2>5, Arrivals DEF ArriveLate
    <3>2. ~(waiting_more_body = 1 /\ waiting_more_body' = 0)
      BY <3>1
    <3> QED BY <1>1, <2>1, <3>1, <3>2
  <2> QED BY <1>2, <2>2, <2>3, <2>4, <2>5 DEF Arrive
<1>3. ASSUME NEW r \in Requests, BodyComplete(r) PROVE IInv'
  <2>1. Shape(req[r])
    BY <1>0
  <2>2. req[r].state = "suspended" /\ req[r].resumes = 0 /\ waiting_more_body' = 0
    BY <1>3, <2>1 DEF BodyComplete, Shape
  <2>3. CASE waiting_more_body = 1
    <3>1. Becomes(r, "upstream", 1, 1, 1, 1)
      BY <1>3, <2>1, <2>3, Completion
    <3> QED BY <1>1, <2>2, <3>1
  <2>4. CASE waiting_more_body = 0
    <3>1. Becomes(r, "lost", 1, 0, 0, 0)
      BY <1>3, <2>1, <2>4, Completion
    <3>2. ~(waiting_more_body = 1 /\ waiting_more_body' = 0)
      BY <2>4
    <3> QED BY <1>1, <2>2, <2>4, <3>1, <3>2
  <2> QED BY <1>0, <2>3, <2>4
<1>4. ASSUME NEW r \in Requests, ClientAbort(r) \/ UpstreamDone(r) PROVE IInv'
  <2> DEFINE q == IF ClientAbort(r)
                  THEN [req[r] EXCEPT !.count = 0, !.state = "ended"]
                  ELSE [req[r] EXCEPT !.count = @ - 1,
                                      !.state = IF req[r].count = 1 THEN "done" ELSE "leaked"]
  <2>1. waiting_more_body' = waiting_more_body /\ req' = [req EXCEPT ![r] = q]
    BY <1>4 DEF ClientAbort, UpstreamDone
  <2>2. Shape(q) /\ q.state \in {"ended", "done", "leaked"} /\ q.resumes = req[r].resumes
    <3>1. CASE ClientAbort(r)
      <4> DEFINE p == req[r]
      <4>1. /\ Shape(p) /\ p.state = "suspended"
            /\ q = [p EXCEPT !.count = 0, !.state = "ended"]
        BY <1>0, <3>1 DEF ClientAbort
      <4> HIDE DEF p, q
      <4>2. p \in Request /\ p.forwards = 0
        BY <4>1 DEF Shape
      <4>3. /\ q.count = 0 /\ q.state = "ended" /\ q.resumes = p.resumes
            /\ q.forwards = p.forwards
        BY <4>1, <4>2 DEF Request
      <4>4. q \in Request
        <5>1. 0 \in 0..2 /\ "ended" \in States
          BY DEF States
        <5> HIDE DEF States
        <5> QED BY <4>1, <4>2, <5>1 DEF Request
      <4>5. Shape(q)
        BY <4>2, <4>3, <4>4 DEF Shape
      <4> QED BY <4>3, <4>5 DEF p
    <3>2. CASE ~ClientAbort(r)
      <4> DEFINE p == req[r]
      <4>1. /\ Shape(p) /\ p.state = "upstream"
            /\ q = [p EXCEPT !.count = p.count - 1,
                             !.state = IF p.count = 1 THEN "done" ELSE "leaked"]
        BY <1>0, <1>4, <3>2 DEF UpstreamDone
      <4> HIDE DEF p, q
      <4>2. p \in Request
        BY <4>1 DEF Shape
      <4>3. /\ q.count = p.count - 1 /\ q.state = (IF p.count = 1 THEN "done" ELSE "leaked")
            /\ q.kind = p.kind /\ q.header = p.header /\ q.suspends = p.suspends
            /\ q.rewrites = p.rewrites /\ q.resumes = p.resumes /\ q.forwards = p.forwards
        BY <4>1, <4>2 DEF Request
      <4>4. p.count = 1 \/ (p.count = 2 /\ p.resumes = 1 /\ p.suspends = 0)
        BY <4>1 DEF Shape
      <4>5. q \in Request
        <5>1. p.count - 1 \in 0..2 /\ (IF p.count = 1 THEN "done" ELSE "leaked") \in States
          BY <4>4 DEF States
        <5> HIDE DEF States
        <5> QED BY <4>1, <4>2, <5>1 DEF Request
      <4>6. Skipped(q) = Skipped(p)
        BY <4>3 DEF Skipped
      <4>7. q.state \in {"done", "leaked"}
        BY <4>3
      <4>8. Shape(q)
        BY <4>1, <4>3, <4>4, <4>5, <4>6, <4>7 DEF Shape
      <4> QED BY <4>3, <4>7, <4>8 DEF p
    <3> QED BY <3>1, <3>2
  <2> HIDE DEF q
  <2>3. /\ waiting_more_body' \in {0, 1}
        /\ req[r].resumes = 1 => q.resumes = 1
        /\ ~(waiting_more_body = 1 /\ waiting_more_body' = 0)
        /\ q.state # "suspended" /\ q.state # "lost"
    BY <1>0, <2>1, <2>2
  <2> QED BY <2>1, <2>2, <2>3, OneRequest
<1>5. ASSUME UNCHANGED vars PROVE IInv'
  BY <1>5 DEF vars, IInv, Shape, Skipped, FlagOwed, LossNeedsThief
<1> QED
  BY <1>2, <1>3, <1>4, <1>5 DEF Next, Quiet

\* So it holds always.
LEMMA Invariance == Spec => []IInv
<1>1. Init => IInv
  BY InitIInv
<1>2. IInv /\ [Next]_vars => IInv'
  BY NextIInv
<1> QED BY <1>1, <1>2, PTL DEF Spec

-------------------------------------------------------------------------------
(* Resumptions and suspensions, counted.  An event changes at most the one *)
(* request it is about, so either count moves by what that request adds.   *)

Resumed == {r \in Requests : req[r].resumes = 1}
Delayed == {r \in Requests : req[r].suspends = 1}

\* How the counts follow from what becomes of one request.
LEMMA Counts ==
    ASSUME IInv, NEW r \in Requests, NEW q, Shape(q), req' = [req EXCEPT ![r] = q],
           req[r].resumes <= q.resumes, req[r].suspends <= q.suspends
    PROVE  /\ Cardinality(Resumed) \in Nat /\ Cardinality(Delayed) \in Nat
           /\ Cardinality(Resumed') = Cardinality(Resumed) + (q.resumes - req[r].resumes)
           /\ Cardinality(Delayed') = Cardinality(Delayed) + (q.suspends - req[r].suspends)
<1>1. \A s \in Requests : req'[s] = IF s = r THEN q ELSE req[s]
  BY DEF IInv
<1>2. q \in Request /\ req[r] \in Request
  BY DEF IInv, Shape
<1>3. /\ q.resumes \in 0..1 /\ q.suspends \in 0..1
      /\ req[r].resumes \in 0..1 /\ req[r].suspends \in 0..1
  BY <1>2 DEF Request
<1>4. /\ IsFiniteSet(Resumed) /\ IsFiniteSet(Delayed)
      /\ Cardinality(Resumed) \in Nat /\ Cardinality(Delayed) \in Nat
  BY RequestsAssumption, FS_Subset, FS_CardinalityType DEF Resumed, Delayed
<1>5. Resumed' = IF q.resumes = 1 THEN Resumed \cup {r} ELSE Resumed
  BY <1>1, <1>3 DEF Resumed
<1>6. Delayed' = IF q.suspends = 1 THEN Delayed \cup {r} ELSE Delayed
  BY <1>1, <1>3 DEF Delayed
<1>7. /\ r \in Resumed <=> req[r].resumes = 1
      /\ r \in Delayed <=> req[r].suspends = 1
  BY DEF Resumed, Delayed
<1>8. /\ Cardinality(Resumed \cup {r})
           = IF r \in Resumed THEN Cardinality(Resumed) ELSE Cardinality(Resumed) + 1
      /\ Cardinality(Delayed \cup {r})
           = IF r \in Delayed THEN Cardinality(Delayed) ELSE Cardinality(Delayed) + 1
  BY <1>4, FS_AddElement
<1>9. /\ Cardinality(Resumed') = IF q.resumes = 1 THEN Cardinality(Resumed \cup {r})
                                 ELSE Cardinality(Resumed)
      /\ Cardinality(Delayed') = IF q.suspends = 1 THEN Cardinality(Delayed \cup {r})
                                 ELSE Cardinality(Delayed)
  BY <1>5, <1>6
<1> QED BY <1>3, <1>4, <1>7, <1>8, <1>9

\* A step that uses up a suspension, or the flag, for each resumption.
LEMMA CountStep ==
    ASSUME IInv, ResumesWithinSuspensions, [Next]_vars
    PROVE  ResumesWithinSuspensions'
<1>1. /\ IInv' /\ \A s \in Requests : Shape(req[s]) /\ Shape(req'[s])
      /\ waiting_more_body \in {0, 1} /\ waiting_more_body' \in {0, 1}
  BY NextIInv DEF IInv, Shape, Skipped
<1>2. /\ ResumesWithinSuspensions
           <=> Cardinality(Resumed) + waiting_more_body <= Cardinality(Delayed)
      /\ ResumesWithinSuspensions'
           <=> Cardinality(Resumed') + waiting_more_body' <= Cardinality(Delayed')
  BY DEF ResumesWithinSuspensions, Resumed, Delayed
<1>3. ASSUME NEW r \in Requests, NEW q, Shape(q), req' = [req EXCEPT ![r] = q],
             req[r].resumes <= q.resumes, req[r].suspends <= q.suspends,
             (q.resumes - req[r].resumes) + waiting_more_body'
               <= (q.suspends - req[r].suspends) + waiting_more_body
      PROVE  ResumesWithinSuspensions'
  <2>1. /\ Cardinality(Resumed) \in Nat /\ Cardinality(Delayed) \in Nat
        /\ Cardinality(Resumed') = Cardinality(Resumed) + (q.resumes - req[r].resumes)
        /\ Cardinality(Delayed') = Cardinality(Delayed) + (q.suspends - req[r].suspends)
    BY <1>3, Counts
  <2>2. /\ q.resumes \in 0..1 /\ q.suspends \in 0..1
        /\ req[r].resumes \in 0..1 /\ req[r].suspends \in 0..1
    BY <1>1, <1>3 DEF Shape, Request
  <2> QED BY <1>1, <1>2, <1>3, <2>1, <2>2
\* An event that leaves its request suspended l times and resumed n times.
<1>4. ASSUME NEW r \in Requests, NEW s, NEW l \in 0..1, NEW n \in 0..1, NEW c, NEW f,
             Becomes(r, s, l, n, c, f), req[r].resumes = 0, req[r].suspends <= l,
             n + waiting_more_body' <= (l - req[r].suspends) + waiting_more_body
      PROVE  ResumesWithinSuspensions'
  <2>1. PICK q : /\ Shape(q) /\ req' = [req EXCEPT ![r] = q]
                 /\ q.suspends = l /\ q.resumes = n
    BY <1>4 DEF Becomes, Outcome
  <2>2. req[r].suspends \in 0..1
    BY <1>1 DEF Shape, Request
  <2>3. n - 0 + waiting_more_body' <= (l - req[r].suspends) + waiting_more_body
    BY <1>1, <1>4, <2>2
  <2>4. req[r].resumes <= n /\ req[r].suspends <= l /\ req[r].resumes = 0
    BY <1>4
  <2> QED BY <1>3, <2>1, <2>3, <2>4
<1>5. ASSUME NEW r \in Requests, Arrive(r) PROVE ResumesWithinSuspensions'
  <2>1. req[r].resumes = 0 /\ req[r].suspends = 0
    <3>1. req[r].state = "new"
      BY <1>5 DEF Arrive, DeclineMethod, RejectBody, ArriveReady, ArriveLate, MayArrive
    <3> QED BY <1>1, <3>1 DEF Shape, Fresh
  <2>2. CASE DeclineMethod(r)
    <3>1. Becomes(r, "upstream", 0, 0, 1, 1)
      BY <2>2, Arrivals
    <3>2. waiting_more_body' = waiting_more_body
      BY <2>2 DEF DeclineMethod
    <3> QED BY <1>1, <1>4, <2>1, <3>1, <3>2
  <2>3. CASE RejectBody(r)
    <3>1. Becomes(r, "ended", 0, 0, 0, 0)
      BY <2>3, Arrivals
    <3>2. waiting_more_body' = waiting_more_body
      BY <2>3 DEF RejectBody
    <3> QED BY <1>1, <1>4, <2>1, <3>1, <3>2
  <2>4. CASE ArriveReady(r)
    <3>1. waiting_more_body' = 0
      BY <2>4 DEF ArriveReady
    <3>2. CASE waiting_more_body = 1
      <4>1. Becomes(r, "upstream", 0, 1, 2, 2)
        BY <2>4, <3>2, Arrivals
      <4> QED BY <1>4, <2>1, <3>1, <3>2, <4>1
    <3>3. CASE waiting_more_body = 0
      <4>1. Becomes(r, "upstream", 0, 0, 1, 1)
        BY <2>4, <3>3, Arrivals
      <4> QED BY <1>4, <2>1, <3>1, <3>3, <4>1
    <3> QED BY <1>1, <3>2, <3>3
  <2>5. CASE ArriveLate(r)
    <3>1. Becomes(r, "suspended", 1, 0, 1, 0)
      BY <2>5, Arrivals
    <3>2. waiting_more_body' = 1
      BY <2>5 DEF ArriveLate
    <3> QED BY <1>1, <1>4, <2>1, <3>1, <3>2
  <2> QED BY <1>5, <2>2, <2>3, <2>4, <2>5 DEF Arrive
<1>6. ASSUME NEW r \in Requests, BodyComplete(r) PROVE ResumesWithinSuspensions'
  <2>1. req[r].resumes = 0 /\ req[r].suspends = 1 /\ waiting_more_body' = 0
    BY <1>1, <1>6 DEF BodyComplete, Shape
  <2>2. \/ waiting_more_body = 1 /\ Becomes(r, "upstream", 1, 1, 1, 1)
        \/ waiting_more_body = 0 /\ Becomes(r, "lost", 1, 0, 0, 0)
    BY <1>1, <1>6, Completion
  <2> QED BY <1>4, <2>1, <2>2
<1>7. ASSUME NEW r \in Requests, ClientAbort(r) \/ UpstreamDone(r)
      PROVE  ResumesWithinSuspensions'
  <2>1. UNCHANGED waiting_more_body /\ req' = [req EXCEPT ![r] = req'[r]]
    BY <1>1, <1>7 DEF ClientAbort, UpstreamDone, IInv
  <2>2. req[r] \in Request /\ req \in [Requests -> Request]
    BY <1>1 DEF IInv, Shape
  <2>3. req'[r].resumes = req[r].resumes /\ req'[r].suspends = req[r].suspends
    BY <1>7, <2>2 DEF ClientAbort, UpstreamDone, Request
  <2>4. req[r].resumes \in Nat /\ req[r].suspends \in Nat
    BY <2>2 DEF Request
  <2>5. Shape(req'[r])
    BY <1>1
  <2> HIDE <1>1
  <2>6. waiting_more_body \in {0, 1}
    BY <1>1
  <2> QED BY <1>3, <2>1, <2>3, <2>4, <2>5, <2>6
<1>8. ASSUME UNCHANGED vars PROVE ResumesWithinSuspensions'
  BY <1>8 DEF vars, ResumesWithinSuspensions
<1> QED BY <1>5, <1>6, <1>7, <1>8 DEF Next, Quiet

-------------------------------------------------------------------------------
(* What follows for any load, any number of requests and any aborts. *)

\* The types of the flag and of the requests, the bounds on the reference
\* count, the rewrites and the forwards among them.
THEOREM TypeCorrect == Spec => []TypeOK
<1>1. IInv => TypeOK
  BY DEF IInv, TypeOK
<1> QED BY <1>1, Invariance, PTL

\* No request is freed unforwarded unless another was resumed on its flag.
THEOREM LossCorrect == Spec => []LossNeedsThief
<1>1. IInv => LossNeedsThief
  BY DEF IInv
<1> QED BY <1>1, Invariance, PTL

\* A live request holds a reference, and one is left over only after a theft.
THEOREM ReferencesCorrect == Spec => []ReferencesHeld
<1>1. IInv => ReferencesHeld
  BY DEF IInv, Shape, ReferencesHeld
<1> QED BY <1>1, Invariance, PTL

\* Nothing with a readable header is forwarded before it has been rewritten.
THEOREM RewriteCorrect == Spec => []ForwardedRewritten
<1>1. IInv => ForwardedRewritten
  BY DEF IInv, Shape, ForwardedRewritten
<1> QED BY <1>1, Invariance, PTL

\* The phase engine is never resumed more often than requests were suspended,
\* one resumption still owed while the flag is up.
THEOREM ResumesCorrect == Spec => []ResumesWithinSuspensions
<1>1. Init => IInv /\ ResumesWithinSuspensions
  <2> SUFFICES ASSUME Init PROVE ResumesWithinSuspensions
    BY InitIInv
  <2>1. /\ {r \in Requests : req[r].resumes = 1} = {}
        /\ {r \in Requests : req[r].suspends = 1} = {}
    BY DEF Init, Fresh
  <2> QED BY <2>1, FS_EmptySet DEF ResumesWithinSuspensions, Init
<1>2. /\ IInv /\ ResumesWithinSuspensions
      /\ [Next]_vars
      => (IInv /\ ResumesWithinSuspensions)'
  BY NextIInv, CountStep
<1> QED BY <1>1, <1>2, PTL DEF Spec

-------------------------------------------------------------------------------
(* What follows where no request arrives while another waits, and clients  *)
(* stay: the flag is up exactly while one request is suspended.            *)

SerialInv ==
    /\ IInv
    /\ ForwardedOnce
    /\ \A r \in Requests : req[r].state = "upstream" => req[r].count = 1
    /\ \A r \in Suspended : waiting_more_body = 1
    /\ waiting_more_body = 1 => Suspended # {}
    /\ \A r, s \in Suspended : r = s

\* An event of r that nobody else waits through, or that ends r's own wait.
LEMMA SerialRequest ==
    ASSUME SerialInv, IInv', NEW r \in Requests, NEW q,
           req' = [req EXCEPT ![r] = q],
           q.state \notin {"lost", "leaked"},
           q.state \in {"upstream", "done"} => q.forwards = 1,
           q.state = "upstream" => q.count = 1,
           \/ q.state # "suspended" /\ req[r].state # "suspended" /\ UNCHANGED waiting_more_body
           \/ q.state = "suspended" /\ Suspended = {} /\ waiting_more_body' = 1
           \/ q.state # "suspended" /\ req[r].state = "suspended" /\ waiting_more_body' = 0
    PROVE  SerialInv'
<1>1. \A s \in Requests : req'[s] = IF s = r THEN q ELSE req[s]
  BY DEF SerialInv, IInv
<1>2. ForwardedOnce' /\ \A s \in Requests : req'[s].state = "upstream" => req'[s].count = 1
  BY <1>1 DEF SerialInv, ForwardedOnce
<1>3. Suspended' = IF q.state = "suspended" THEN Suspended \cup {r} ELSE Suspended \ {r}
  BY <1>1 DEF Suspended
<1>4. r \in Suspended <=> req[r].state = "suspended"
  BY DEF Suspended
<1>5. /\ \A s \in Suspended' : waiting_more_body' = 1
      /\ waiting_more_body' = 1 => Suspended' # {}
      /\ \A s, t \in Suspended' : s = t
  <2>1. CASE q.state # "suspended" /\ req[r].state # "suspended" /\ UNCHANGED waiting_more_body
    <3>1. Suspended' = Suspended
      BY <1>3, <1>4, <2>1
    <3> QED BY <2>1, <3>1 DEF SerialInv
  <2>2. CASE q.state = "suspended" /\ Suspended = {} /\ waiting_more_body' = 1
    BY <1>3, <2>2
  <2>3. CASE q.state # "suspended" /\ req[r].state = "suspended" /\ waiting_more_body' = 0
    <3>1. Suspended' = {}
      BY <1>3, <1>4, <2>3 DEF SerialInv
    <3>2. waiting_more_body' # 1
      BY <2>3
    <3> QED BY <3>1, <3>2
  <2> QED BY <2>1, <2>2, <2>3
<1> QED BY <1>2, <1>5 DEF SerialInv

\* One request at a time, none aborted: a step keeps what holds of those.
LEMMA SerialStep ==
    ASSUME Overlap = FALSE, Aborts = FALSE, SerialInv, [Next]_vars
    PROVE  SerialInv'
<1>1. IInv /\ IInv' /\ \A r \in Requests : Shape(req[r])
  BY NextIInv DEF SerialInv, IInv
<1>2. ASSUME NEW r \in Requests, Arrive(r) PROVE SerialInv'
  <2>1. MayArrive(r)
    BY <1>2 DEF Arrive, DeclineMethod, RejectBody, ArriveReady, ArriveLate
  <2>2. req[r].state = "new" /\ Suspended = {}
    BY <2>1 DEF MayArrive
  <2>3. req[r].state # "suspended" /\ waiting_more_body = 0
    BY <1>1, <2>2 DEF SerialInv, IInv
  <2>4. CASE DeclineMethod(r) \/ RejectBody(r) \/ ArriveReady(r)
    <3>1. UNCHANGED waiting_more_body
      BY <2>3, <2>4 DEF DeclineMethod, RejectBody, ArriveReady
    <3>2. Becomes(r, "upstream", 0, 0, 1, 1) \/ Becomes(r, "ended", 0, 0, 0, 0)
      BY <2>3, <2>4, Arrivals
    <3>3. PICK q : /\ req' = [req EXCEPT ![r] = q]
                   /\ q.state \in {"upstream", "ended"}
                   /\ q.state = "upstream" => q.count = 1 /\ q.forwards = 1
      <4>1. CASE Becomes(r, "upstream", 0, 0, 1, 1)
        BY <4>1 DEF Becomes, Outcome
      <4>2. CASE Becomes(r, "ended", 0, 0, 0, 0)
        BY <4>2 DEF Becomes, Outcome
      <4> QED BY <3>2, <4>1, <4>2
    <3> QED BY <1>1, <2>3, <3>1, <3>3, SerialRequest
  <2>5. CASE ArriveLate(r)
    <3>1. waiting_more_body' = 1
      BY <2>5 DEF ArriveLate
    <3>2. req' = [req EXCEPT ![r] = req'[r]] /\ req'[r].state = "suspended"
      BY <1>1, <2>5 DEF ArriveLate, IInv, Request
    <3> QED BY <1>1, <2>2, <3>1, <3>2, SerialRequest
  <2> QED BY <1>2, <2>4, <2>5 DEF Arrive
<1>3. ASSUME NEW r \in Requests, BodyComplete(r) PROVE SerialInv'
  <2>1. /\ req[r].state = "suspended" /\ r \in Suspended
        /\ waiting_more_body' = 0 /\ waiting_more_body = 1
    BY <1>3 DEF BodyComplete, Suspended, SerialInv
  <2>2. Becomes(r, "upstream", 1, 1, 1, 1)
    BY <1>1, <1>3, <2>1, Completion
  <2>3. PICK q : /\ req' = [req EXCEPT ![r] = q]
                 /\ q.state \in {"upstream", "ended"}
                 /\ q.state = "upstream" => q.count = 1 /\ q.forwards = 1
    BY <2>2 DEF Becomes, Outcome
  <2> QED BY <1>1, <2>1, <2>3, SerialRequest
<1>4. ASSUME NEW r \in Requests, UpstreamDone(r) PROVE SerialInv'
  <2> DEFINE p == req[r]
             q == [p EXCEPT !.count = p.count - 1,
                            !.state = IF p.count = 1 THEN "done" ELSE "leaked"]
  <2>1. p \in Request /\ p.state = "upstream" /\ p.count = 1 /\ p.forwards = 1
    BY <1>1, <1>4 DEF UpstreamDone, SerialInv, ForwardedOnce, Shape
  <2>2. req' = [req EXCEPT ![r] = q] /\ UNCHANGED waiting_more_body
    BY <1>4 DEF UpstreamDone
  <2>3. q.state = "done" /\ q.forwards = 1
    BY <2>1 DEF Request
  <2> HIDE DEF q
  <2> QED BY <1>1, <2>1, <2>2, <2>3, SerialRequest
<1>5. ASSUME UNCHANGED vars PROVE SerialInv'
  BY <1>1, <1>5 DEF vars, SerialInv, ForwardedOnce, Suspended
<1> QED
  BY <1>2, <1>3, <1>4, <1>5 DEF Next, Quiet, ClientAbort

\* It holds when no request has come yet.
LEMMA SerialInit == Init => SerialInv
<1> SUFFICES ASSUME Init PROVE SerialInv
  OBVIOUS
<1>1. \A r \in Requests : req[r].state = "new"
  BY DEF Init, Fresh
<1>2. Suspended = {} /\ waiting_more_body # 1
  BY <1>1 DEF Suspended, Init
<1> QED BY <1>1, <1>2, InitIInv DEF SerialInv, ForwardedOnce

\* Every accepted request is forwarded exactly once and keeps no reference.
THEOREM SerialCorrect ==
    ASSUME Overlap = FALSE, Aborts = FALSE
    PROVE  Spec => []ForwardedOnce
<1>1. Init => SerialInv
  BY SerialInit
<1>2. SerialInv /\ [Next]_vars => SerialInv'
  BY SerialStep
<1>3. SerialInv => ForwardedOnce
  BY DEF SerialInv
<1> QED BY <1>1, <1>2, <1>3, PTL DEF Spec

-------------------------------------------------------------------------------
(* The handler implements RequestContract, step by step, where no request   *)
(* arrives while another waits for its body and clients stay: the initial   *)
(* states map to initial states, and what an event does to its request is   *)
(* one step of the contract.                                                *)

\* The variables of the contract, as RequestPhase maps them.
Plain(q) == /\ q.state # "new"
            /\ q.kind \in Sensitive
            /\ ~Skipped(q)
            /\ q.rewrites = 0

Phase == [r \in Requests |-> Stage(req[r])]
PlainNow == [r \in Requests |-> Plain(req[r])]

\* An event changes both at its request only.
LEMMA Mapped ==
    ASSUME IInv, NEW r \in Requests, NEW q, req' = [req EXCEPT ![r] = q]
    PROVE  /\ Phase' = [Phase EXCEPT ![r] = Stage(q)]
           /\ PlainNow' = [PlainNow EXCEPT ![r] = Plain(q)]
           /\ Phase[r] = Stage(req[r]) /\ PlainNow[r] = Plain(req[r])
<1>1. \A s \in Requests : req'[s] = IF s = r THEN q ELSE req[s]
  BY DEF IInv
<1>2. Phase' = [s \in Requests |-> Stage(req'[s])]
  BY DEF Phase, Stage
<1>3. PlainNow' = [s \in Requests |-> Plain(req'[s])]
  BY DEF PlainNow, Plain, Skipped
<1>4. Phase' = [Phase EXCEPT ![r] = Stage(q)]
  <2>1. \A s \in Requests : Stage(req'[s]) = IF s = r THEN Stage(q) ELSE Stage(req[s])
    BY <1>1
  <2> QED BY <1>2, <2>1 DEF Phase
<1>5. PlainNow' = [PlainNow EXCEPT ![r] = Plain(q)]
  <2>1. \A s \in Requests : Plain(req'[s]) = IF s = r THEN Plain(q) ELSE Plain(req[s])
    BY <1>1
  <2> QED BY <1>3, <2>1 DEF PlainNow
<1> QED BY <1>4, <1>5 DEF Phase, PlainNow

\* The steps of the contract, with the mapping put in.
LEMMA ContractSteps ==
    ASSUME NEW r \in Requests, NEW to, NEW p \in BOOLEAN,
           Phase' = [Phase EXCEPT ![r] = to], PlainNow' = [PlainNow EXCEPT ![r] = p]
    PROVE  /\ Phase[r] = "idle" /\ to = "held" => Contract!Next
           /\ Phase[r] \in {"idle", "held"} /\ to = "sent" /\ p = FALSE => Contract!Next
           /\ Phase[r] \in {"idle", "held"} /\ to = "closed" => Contract!Next
           /\ Phase[r] = "sent" /\ to = "closed" /\ PlainNow' = PlainNow => Contract!Next
<1>1. Phase[r] = "idle" /\ to = "held" => Contract!Hold(r)
  BY DEF Contract!Hold, Contract!Move, Phase, PlainNow, Plain
<1>2. Phase[r] \in {"idle", "held"} /\ to = "sent" /\ p = FALSE => Contract!Send(r)
  BY DEF Contract!Send, Contract!Move, Phase, PlainNow, Plain
<1>3. Phase[r] \in {"idle", "held"} /\ to = "closed" => Contract!Refuse(r)
  BY DEF Contract!Refuse, Contract!Move, Phase, PlainNow, Plain
<1>4. Phase[r] = "sent" /\ to = "closed" /\ PlainNow' = PlainNow => Contract!Close(r)
  BY DEF Contract!Close, Contract!Move, Phase, PlainNow, Plain
<1> QED BY <1>1, <1>2, <1>3, <1>4 DEF Contract!Next

\* Where a request is in the contract, by its state.
LEMMA Stages ==
    ASSUME NEW q
    PROVE  /\ q.state = "new" => Stage(q) = "idle" /\ Plain(q) = FALSE
           /\ q.state = "suspended" => Stage(q) = "held"
           /\ q.state = "upstream" /\ q.forwards = 1 => Stage(q) = "sent"
           /\ q.state \in {"done", "ended"} => Stage(q) = "closed"
           /\ Plain(q) \in BOOLEAN
           /\ Shape(q) /\ q.state = "upstream" /\ q.forwards = 1 => Plain(q) = FALSE
<1>1. q.state = "upstream" => ~(q.state \in {"new", "suspended"})
  OBVIOUS
<1>2. q.state \in {"done", "ended"} => ~(q.state \in {"new", "suspended", "upstream"})
  OBVIOUS
<1>3. Shape(q) /\ q.state = "upstream" /\ q.forwards = 1 => Plain(q) = FALSE
  BY DEF Shape, Plain, Request
<1> QED BY <1>1, <1>2, <1>3 DEF Stage, Plain

\* Each step of the handler is one of the contract, or none.
LEMMA RefinesStep ==
    ASSUME Overlap = FALSE, Aborts = FALSE, SerialInv, [Next]_vars
    PROVE  [Contract!Next]_Contract!vars
<1>1. SerialInv' /\ IInv /\ \A r \in Requests : Shape(req[r]) /\ Shape(req'[r])
  BY SerialStep DEF SerialInv, IInv, Shape, Skipped
\* An event of r, waiting at most for its body, that sends r on or ends it.
<1>2. ASSUME NEW r \in Requests, NEW q, Shape(q), req' = [req EXCEPT ![r] = q],
             req[r].state \in {"new", "suspended"}, q.state \in {"upstream", "ended"},
             q.state = "upstream" => q.forwards = 1
      PROVE  Contract!Next
  <2>1. /\ Phase' = [Phase EXCEPT ![r] = Stage(q)]
        /\ PlainNow' = [PlainNow EXCEPT ![r] = Plain(q)]
        /\ Phase[r] \in {"idle", "held"}
    BY <1>1, <1>2, Mapped, Stages
  <2>2. CASE q.state = "upstream"
    BY <1>2, <2>1, <2>2, Stages, ContractSteps
  <2>3. CASE q.state = "ended"
    BY <1>2, <2>1, <2>3, Stages, ContractSteps
  <2> QED BY <1>2, <2>2, <2>3
<1>3. ASSUME NEW r \in Requests, req[r].state \in {"new", "suspended"}, NEW l, NEW n, NEW c
      PROVE  /\ Becomes(r, "upstream", l, n, c, 1) => Contract!Next
             /\ Becomes(r, "ended", l, n, c, 0) => Contract!Next
  <2>1. ASSUME Becomes(r, "upstream", l, n, c, 1) PROVE Contract!Next
    <3>1. PICK q : /\ Shape(q) /\ req' = [req EXCEPT ![r] = q]
                   /\ q.state \in {"upstream", "ended"}
                   /\ q.state = "upstream" => q.forwards = 1
      BY <2>1 DEF Becomes, Outcome
    <3> QED BY <1>2, <1>3, <3>1
  <2>2. ASSUME Becomes(r, "ended", l, n, c, 0) PROVE Contract!Next
    <3>1. PICK q : Shape(q) /\ req' = [req EXCEPT ![r] = q] /\ q.state = "ended"
      BY <2>2 DEF Becomes, Outcome
    <3> QED BY <1>2, <1>3, <3>1
  <2> QED BY <2>1, <2>2
<1>4. ASSUME NEW r \in Requests, Arrive(r) PROVE Contract!Next
  <2>1. req[r].state = "new" /\ Suspended = {} /\ waiting_more_body = 0
    <3>1. MayArrive(r)
      BY <1>4 DEF Arrive, DeclineMethod, RejectBody, ArriveReady, ArriveLate
    <3> QED BY <3>1 DEF MayArrive, SerialInv, IInv
  <2>2. CASE DeclineMethod(r)
    <3>1. Becomes(r, "upstream", 0, 0, 1, 1)
      BY <2>2, Arrivals
    <3> QED BY <1>3, <2>1, <3>1
  <2>3. CASE RejectBody(r)
    <3>1. Becomes(r, "ended", 0, 0, 0, 0)
      BY <2>3, Arrivals
    <3> QED BY <1>3, <2>1, <3>1
  <2>4. CASE ArriveReady(r)
    <3>1. Becomes(r, "upstream", 0, 0, 1, 1)
      BY <2>1, <2>4, Arrivals
    <3> QED BY <1>3, <2>1, <3>1
  <2>5. CASE ArriveLate(r)
    <3>1. PICK q : req' = [req EXCEPT ![r] = q] /\ q.state = "suspended"
      <4>1. req' = [req EXCEPT ![r] = req'[r]] /\ req'[r].state = "suspended"
        BY <1>1, <2>5 DEF ArriveLate, IInv, Request
      <4> QED BY <4>1
    <3>2. /\ Phase' = [Phase EXCEPT ![r] = Stage(q)]
          /\ PlainNow' = [PlainNow EXCEPT ![r] = Plain(q)]
          /\ Phase[r] = "idle"
      BY <1>1, <2>1, <3>1, Mapped, Stages
    <3> QED BY <3>1, <3>2, Stages, ContractSteps
  <2> QED BY <1>4, <2>2, <2>3, <2>4, <2>5 DEF Arrive
<1>5. ASSUME NEW r \in Requests, BodyComplete(r) PROVE Contract!Next
  <2>1. req[r].state = "suspended" /\ waiting_more_body = 1
    BY <1>5 DEF BodyComplete, Suspended, SerialInv
  <2>2. Becomes(r, "upstream", 1, 1, 1, 1)
    BY <1>1, <1>5, <2>1, Completion
  <2> QED BY <1>3, <2>1, <2>2
<1>6. ASSUME NEW r \in Requests, UpstreamDone(r) PROVE Contract!Next
  <2> DEFINE p == req[r]
             q == [p EXCEPT !.count = p.count - 1,
                            !.state = IF p.count = 1 THEN "done" ELSE "leaked"]
  <2>1. p \in Request /\ p.state = "upstream" /\ p.count = 1 /\ p.forwards = 1
    BY <1>1, <1>6 DEF UpstreamDone, SerialInv, ForwardedOnce, Shape
  <2>2. req' = [req EXCEPT ![r] = q]
    BY <1>6 DEF UpstreamDone
  <2>3. /\ q.state = "done" /\ q.kind = p.kind /\ q.header = p.header
        /\ q.rewrites = p.rewrites
    BY <2>1 DEF Request
  <2> HIDE DEF q
  <2>4. Plain(q) = Plain(p)
    BY <2>1, <2>3 DEF Plain, Skipped
  <2>5. /\ Phase' = [Phase EXCEPT ![r] = Stage(q)]
        /\ PlainNow' = [PlainNow EXCEPT ![r] = Plain(q)]
        /\ Phase[r] = "sent" /\ PlainNow[r] = Plain(p) /\ Stage(q) = "closed"
    BY <1>1, <2>1, <2>2, <2>3, Mapped, Stages
  <2>6. PlainNow' = PlainNow
    BY <2>4, <2>5 DEF PlainNow
  <2> QED BY <2>5, <2>6, Stages, ContractSteps
<1>7. ASSUME UNCHANGED vars PROVE UNCHANGED Contract!vars
  BY <1>7 DEF vars, Contract!vars
<1> QED
  BY <1>4, <1>5, <1>6, <1>7 DEF Next, Quiet, ClientAbort

\* Whatever the handler does to its requests, the contract allows: each is
\* sent on at most once and with nothing of it left in clear, and stays closed.
THEOREM ContractCorrect ==
    ASSUME Overlap = FALSE, Aborts = FALSE
    PROVE  Spec => Contract!Init /\ [][Contract!Next]_Contract!vars
<1>1. Init => SerialInv
  BY SerialInit
<1>2. SerialInv /\ [Next]_vars => SerialInv'
  BY SerialStep
<1>3. SerialInv /\ [Next]_vars => [Contract!Next]_Contract!vars
  BY RefinesStep
<1>4. Init => Contract!Init
  <2> SUFFICES ASSUME Init PROVE Contract!Init
    OBVIOUS
  <2>1. \A r \in Requests : req[r].state = "new"
    BY DEF Init, Fresh
  <2> QED BY <2>1 DEF Contract!Init, Stage
<1> QED BY <1>1, <1>2, <1>3, <1>4, PTL DEF Spec
===============================================================================
