---------------------------- MODULE PolicyContract ----------------------------
(***************************************************************************)
(* What the management API promises to the one worker that serves it: each *)
(* operation changes the tables in one step, a site goes together with its *)
(* forms and their fields, and from the end of the operation on the worker *)
(* applies exactly the policies in the tables.                             *)
(***************************************************************************)
EXTENDS PolicyTables

VARIABLES policies,  \* the tables
          applied,   \* the policies the worker applies to requests
          call       \* the management operation it is busy with, if any

vars == <<policies, applied, call>>

\* What a change means.
Meaning(d, q) == IF q.verb = "delete" /\ q.table = "sites"
                 THEN Erased(d, q.id)
                 ELSE Statement(d, q)

Init == /\ policies \in Database
        /\ applied = View(policies)
        /\ call = "none"

\* While the worker is busy it applies no policies to anything.
Take == /\ call = "none"
        /\ call' = "taken"
        /\ applied' = <<>>
        /\ UNCHANGED policies

Perform == /\ call = "taken"
           /\ call' = "performed"
           /\ \/ \E q \in Writes : policies' = Meaning(policies, q)
              \/ UNCHANGED policies
           /\ UNCHANGED applied

Answer == /\ call = "performed"
          /\ call' = "none"
          /\ applied' = View(policies)
          /\ UNCHANGED policies

Next == Take \/ Perform \/ Answer

Spec == Init /\ [][Next]_vars /\ WF_vars(Perform \/ Answer)

===============================================================================
