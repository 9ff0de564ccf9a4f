---------------------------- MODULE MCPolicyStore ----------------------------
(* Constants of the runs of PolicyStore.                                    *)
EXTENDS PolicyStore, TLC

CONSTANTS w1, w2, h1, k1, u1, n1

OneWorker == {w1}
TwoWorkers == {w1, w2}

\* Ids that clients name; 0 is what a request without an id is given.
NoIds == {}
ZeroId == {0}
TwoIds == {0, 1}

OneHost == {h1}
OneKey == {k1}
OneUrl == {u1}
OneName == {n1}
OneType == {"POSTFORM"}
TwoTypes == {"POSTFORM", "POSTURL"}

\* The file at the start: empty, with one site, or with two sites of which
\* one has two forms and one of these a field.
Nothing == [sites |-> <<>>, forms |-> <<>>, fields |-> <<>>]
OneSite == [sites |-> 0 :> [host |-> h1, key |-> k1],
            forms |-> 0 :> [site_id |-> 0, url |-> u1], fields |-> <<>>]
TwoSites ==
    [sites |-> [s \in TwoIds |-> [host |-> h1, key |-> k1]],
     forms |-> [f \in TwoIds |-> [site_id |-> 1, url |-> u1]],
     fields |-> 0 :> [form_id |-> 1, field_name |-> n1, type |-> StoredType]]

\* One worker undisturbed, from a file that is empty or full.
Undisturbed(files) ==
    [file : files, forms : {FormIds}, fields : {FieldIds}, busy : {OneWorker}, requests : {3},
     faults : {FALSE}, crashes : {FALSE}]
Single == Undisturbed({Nothing, TwoSites})
Empty == Undisturbed({Nothing})

\* Two workers whose statements interleave, and no requests about fields; one
\* with failures and deaths.
Shared ==
    [file : {Nothing, OneSite}, forms : {ZeroId}, fields : {NoIds}, busy : {TwoWorkers},
     requests : {3}, faults : {FALSE}, crashes : {FALSE}]
    \cup [file : {Nothing, TwoSites}, forms : {FormIds}, fields : {FieldIds}, busy : {OneWorker},
          requests : {2}, faults : {TRUE}, crashes : {TRUE}]

==============================================================================
