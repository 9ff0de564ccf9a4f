--------------------------- MODULE RequestContract ----------------------------
(***************************************************************************)
(* What the rewrite-phase handler promises for each client request,        *)
(* whatever the worker does in between: a request is sent on at most once, *)
(* only after its sensitive data has been rewritten, and a request whose   *)
(* body was awaited is eventually sent on or closed, never forgotten.      *)
(***************************************************************************)
CONSTANT Requests

VARIABLES phase,  \* how far the worker has taken each request
          plain   \* does the request still carry sensitive data in clear

vars == <<phase, plain>>

Phases == {"idle", "held", "sent", "closed"}

TypeOK == /\ phase \in [Requests -> Phases]
          /\ plain \in [Requests -> BOOLEAN]

Init == /\ phase = [r \in Requests |-> "idle"]
        /\ plain = [r \in Requests |-> FALSE]

Move(r, from, to) == /\ phase[r] \in from
                     /\ phase' = [phase EXCEPT ![r] = to]

\* The body of r is awaited.
Hold(r) == /\ Move(r, {"idle"}, "held")
           /\ \E p \in BOOLEAN : plain' = [plain EXCEPT ![r] = p]

\* r goes upstream, and nothing of it is left in clear.
Send(r) == /\ Move(r, {"idle", "held"}, "sent")
           /\ plain' = [plain EXCEPT ![r] = FALSE]

\* r ends with an error or with an answer of the worker's own.
Refuse(r) == /\ Move(r, {"idle", "held"}, "closed")
             /\ \E p \in BOOLEAN : plain' = [plain EXCEPT ![r] = p]

\* r has been answered.
Close(r) == /\ Move(r, {"sent"}, "closed")
            /\ UNCHANGED plain

Next == \E r \in Requests : Hold(r) \/ Send(r) \/ Refuse(r) \/ Close(r)

Settle(r) == phase[r] = "held" /\ (Send(r) \/ Refuse(r))

Spec == /\ Init /\ [][Next]_vars
        /\ \A r \in Requests : WF_vars(Settle(r)) /\ WF_vars(Close(r))
===============================================================================
