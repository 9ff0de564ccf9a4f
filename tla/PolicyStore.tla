------------------------------ MODULE PolicyStore ------------------------------
(***************************************************************************)
(* The management operations and the policy cache: PolicyManage/           *)
(* policymanage.c and the reload in ngx_cep_policy.c, as the worker        *)
(* processes of one nginx run them over one SQLite file.                   *)
(*                                                                         *)
(* Every statement opens a connection of its own and there are no          *)
(* transactions, so an operation is a sequence of statements.  One action  *)
(* is one statement of one worker with the computation up to the next;     *)
(* statements of several workers interleave in every way.  Lists are read  *)
(* with two statements: one counts the rows, space for that many is        *)
(* allocated, the other reads the rows into it.                            *)
(***************************************************************************)
EXTENDS PolicyTables

CONSTANTS Workers,  \* worker processes
          Situations  \* the circumstances of a run, each a record of what the
                      \* file holds at the start (file), the forms and the
                      \* fields that requests name, the workers they reach
                      \* (busy), how many there are (requests), whether a
                      \* statement or the sending of an answer may fail
                      \* (faults) and a worker die (crashes)

ASSUME SituationsAssumption ==
    \A e \in Situations : /\ e.file \in Database /\ e.busy \subseteq Workers
                          /\ e.forms \subseteq FormIds /\ e.fields \subseteq FieldIds
                          /\ e.requests \in Nat /\ {e.faults, e.crashes} \subseteq BOOLEAN

VARIABLES db,     \* the tables in the file
          boot,   \* the policies the master process read at start
          situation,  \* the circumstances
          requests,  \* how many management requests were sent
          worker  \* what each worker holds and does

vars == <<db, boot, situation, requests, worker>>

Counts == {"countSites", "countForms", "countFields"}
Selects == {"selectSites", "selectForms", "selectFields"}
Deletes == {"deleteFields", "deleteForm", "deleteSite"}
Stages == {"idle", "statement", "readBack", "send"} \cup Counts \cup Selects \cup Deletes

NoRequest == [verb |-> "none"]

(***************************************************************************)
(* A worker:                                                               *)
(*   stage    the statement it runs next                                   *)
(*   req      the management request it serves                             *)
(*   answer   the id with which an addition is answered                    *)
(*   reload   is it past the operation, reloading its cache                *)
(*   cache    the global "sites": a slot for each counted site             *)
(*   index    sites.index, where the next row read goes                    *)
(*   local    the list an operation reads for itself                       *)
(*   i, j     the site and the form whose rows are being read or deleted   *)
(*   heap     "corrupt" once a row was written past the space allocated    *)
(* and, kept for the properties only:                                      *)
(*   exposed  a count failed, or the tables changed between a count and    *)
(*            the read that goes with it                                   *)
(*   tainted  since the operation or the reload began, a statement failed, *)
(*            the tables were changed by another worker, or the worker     *)
(*            came to its cache otherwise                                  *)
(***************************************************************************)
Fresh(policies) ==
    [stage |-> "idle", req |-> NoRequest, answer |-> {}, reload |-> FALSE, cache |-> policies,
     index |-> Len(policies), local |-> <<>>, i |-> 0, j |-> 0, heap |-> "ok",
     exposed |-> FALSE, tainted |-> FALSE]

\* ngx_http_subs_filter_init: the master reads the policies when it reads the
\* configuration; the workers are forked from it.
Init == /\ situation \in Situations
        /\ db = situation.file
        /\ boot = View(db)
        /\ requests = 0
        /\ worker = [w \in Workers |-> Fresh(boot)]

-------------------------------------------------------------------------------
(* Lists.                                                                  *)

\* The list being read: the cache in a reload, else the operation's own.
Held(q) == IF q.reload THEN q.cache ELSE q.local
Hold(q, slots) == IF q.reload THEN [q EXCEPT !.cache = slots]
                  ELSE [q EXCEPT !.local = slots]

\* malloc and memset for n slots.
Zeros(n, zero) == [k \in 1..n |-> zero]

\* The rows go to the slots from + 1, from + 2, ...; what lies beyond the
\* slots is written over other memory.
Fill(slots, from, rows) ==
    [k \in DOMAIN slots |-> IF k - from \in DOMAIN rows THEN rows[k - from]
                            ELSE slots[k]]
Heap(q, slots, from, rows) ==
    IF from + Len(rows) > Len(slots) THEN "corrupt" ELSE q.heap

\* The outcome of a statement.
Failed(q, ok) == [q EXCEPT !.tainted = @ \/ ~ok]
FailedCount(q, ok) == [q EXCEPT !.tainted = @ \/ ~ok, !.exposed = @ \/ ~ok]

Idle(q) == [q EXCEPT !.stage = "idle", !.req = NoRequest, !.answer = {},
                     !.reload = FALSE, !.local = <<>>, !.i = 0, !.j = 0]

\* Mutant: the last form is left out.
NextDeleteStopsEarly(q) == IF q.j + 1 < Len(q.local[1].forms)
                           THEN [q EXCEPT !.stage = "deleteFields", !.j = @ + 1]
                           ELSE [q EXCEPT !.stage = "deleteSite"]

\* The loop of DeleteSitePolicy over the forms it has read.
NextDelete(q) == IF q.j < Len(q.local[1].forms)
                 THEN [q EXCEPT !.stage = "deleteFields", !.j = @ + 1]
                 ELSE [q EXCEPT !.stage = "deleteSite"]

\* A list has been read.
Listed(q) == CASE q.reload -> Idle(q)
               [] ~q.reload /\ q.req.verb = "delete" ->
                      NextDelete([q EXCEPT !.j = 0])
               [] OTHER -> [q EXCEPT !.stage = "send"]

\* The loop of GetSitePolicy over the sites, of QueryFormPolicy over the forms.
NextSite(q) == IF q.i < Len(Held(q))
               THEN [q EXCEPT !.stage = "countForms", !.i = @ + 1]
               ELSE Listed(q)
NextForm(q) == IF q.j < Len(Held(q)[q.i].forms)
               THEN [q EXCEPT !.stage = "countFields", !.j = @ + 1]
               ELSE NextSite(q)

\* Mutant: index is never set back.
CountSitesKeepsIndex(q, ok) ==
    LET n == IF ok THEN Cardinality(DOMAIN db.sites) ELSE 0
    IN  FailedCount([Hold(q, Zeros(n, ZeroSite)) EXCEPT !.stage = "selectSites"], ok)

\* GetSitePolicy and GetSitesPolicy.  index goes back to 0 only together with
\* the release of a cache that is not empty.
CountSites(q, ok) ==
    LET n == IF ok THEN Cardinality(DOMAIN db.sites) ELSE 0
        freed == IF q.reload /\ Len(q.cache) > 0 THEN [q EXCEPT !.index = 0] ELSE q
    IN  FailedCount([Hold(freed, Zeros(n, ZeroSite)) EXCEPT !.stage = "selectSites"],
                    ok)

SelectSites(q, ok) ==
    LET rows == IF ok THEN Each(LAMBDA s : SiteSlot(db, s),
                                Ascending(DOMAIN db.sites))
                ELSE <<>>
        from == IF q.reload THEN q.index ELSE 0
        read == [Hold(q, Fill(Held(q), from, rows)) EXCEPT
                    !.index = IF q.reload THEN from + Len(rows) ELSE @,
                    !.heap = Heap(q, Held(q), from, rows)]
    IN  Failed(IF q.reload THEN NextSite([read EXCEPT !.i = 0]) ELSE Listed(read), ok)

\* Mutant: the count of the forms is not restricted to the site.
CountFormsOfAll(q, ok) ==
    LET space == [Held(q)[q.i] EXCEPT
                     !.forms = Zeros(Cardinality(DOMAIN db.forms), ZeroForm)]
    IN  FailedCount([Hold(q, [Held(q) EXCEPT ![q.i] = space]) EXCEPT
                        !.stage = "selectForms"], ok)

\* QueryFormPolicy for the site in slot i.
CountForms(q, ok) ==
    LET slot == Held(q)[q.i]
        n == IF ok THEN Cardinality(FormsOf(db, slot.id)) ELSE 0
        space == [slot EXCEPT !.forms = Zeros(n, ZeroForm)]
    IN  FailedCount([Hold(q, [Held(q) EXCEPT ![q.i] = space]) EXCEPT
                        !.stage = "selectForms"], ok)

SelectForms(q, ok) ==
    LET slot == Held(q)[q.i]
        rows == IF ok THEN Each(LAMBDA f : FormSlot(db, f),
                                Ascending(FormsOf(db, slot.id)))
                ELSE <<>>
        filled == [slot EXCEPT !.forms = Fill(@, 0, rows)]
        read == [Hold(q, [Held(q) EXCEPT ![q.i] = filled]) EXCEPT
                    !.heap = Heap(q, slot.forms, 0, rows)]
    IN  Failed(NextForm([read EXCEPT !.j = 0]), ok)

\* QueryFieldPolicy for the form in slot j of the site in slot i.
CountFields(q, ok) ==
    LET n == IF ok THEN Cardinality(FieldsOf(db, Held(q)[q.i].forms[q.j].id)) ELSE 0
    IN  FailedCount([Hold(q, [Held(q) EXCEPT
                                 ![q.i].forms[q.j].fields = Zeros(n, ZeroField)])
                        EXCEPT !.stage = "selectFields"], ok)

SelectFields(q, ok) ==
    LET slot == Held(q)[q.i].forms[q.j]
        rows == IF ok THEN Each(LAMBDA n : FieldSlot(db, n),
                                Ascending(FieldsOf(db, slot.id)))
                ELSE <<>>
        read == [Hold(q, [Held(q) EXCEPT
                             ![q.i].forms[q.j].fields = Fill(@, 0, rows)])
                    EXCEPT !.heap = Heap(q, slot.fields, 0, rows)]
    IN  Failed(NextForm(read), ok)

-------------------------------------------------------------------------------
(* The steps of a worker.                                                  *)

\* A change of the tables disturbs the other workers.
Disturbed(q, d) ==
    IF d = db THEN q
    ELSE [q EXCEPT !.tainted = TRUE, !.exposed = @ \/ q.stage \in Selects]

\* Worker w becomes q and the tables d.
Step(w, d, q) ==
    /\ db' = d
    /\ worker' = [v \in Workers |-> IF v = w THEN q ELSE Disturbed(worker[v], d)]
    /\ UNCHANGED <<boot, situation>>

Outcomes == IF situation.faults THEN BOOLEAN ELSE {TRUE}

\* What clients ask for: the list of a form's fields names a form.
Asked(req) ==
    \/ req.table = "sites" \/ (req.table = "forms" /\ req.verb = "list")
    \/ req.table = "forms" /\ req.id \in situation.forms
    \/ req.table = "fields" /\ req.id \in (IF req.verb = "list" THEN situation.forms ELSE situation.fields)

\* get_raw_http_body picks the operation by the URL.
Receive(w, req) ==
    LET q == [worker[w] EXCEPT !.req = req, !.tainted = FALSE]
        site == [ZeroSite EXCEPT !.id = req.id]
        form == [ZeroForm EXCEPT !.id = req.id]
    IN
    /\ w \in situation.busy /\ worker[w].stage = "idle"
    /\ requests < situation.requests /\ Asked(req)
    /\ requests' = requests + 1
    /\ Step(w, db,
         CASE req.table = "sites" /\ req.verb = "list" ->
                  [q EXCEPT !.stage = "countSites"]
           [] \/ req.table = "sites" /\ req.verb = "delete"
              \/ req.table = "forms" /\ req.verb = "list" ->
                  [q EXCEPT !.stage = "countForms", !.local = <<site>>, !.i = 1]
           [] req.table = "fields" /\ req.verb = "list" ->
                  [q EXCEPT !.stage = "countFields", !.i = 1, !.j = 1,
                            !.local = <<[ZeroSite EXCEPT !.forms = <<form>>]>>]
           [] OTHER -> [q EXCEPT !.stage = "statement"])

\* The operations of a single statement.  What was added is read back.
Execute(w) ==
    LET q == worker[w]
        added == q.req.verb = "add" /\ q.req.id \notin DOMAIN db[q.req.table]
    IN
    /\ q.stage = "statement"
    /\ \E ok \in Outcomes :
          Step(w, IF ok /\ q.req.verb # "other" THEN Statement(db, q.req) ELSE db,
               Failed([q EXCEPT !.stage = IF ok /\ added THEN "readBack" ELSE "send"], ok))

\* GetSitePolicyByHost, GetFormPolicy, GetFieldPolicy: every row read overwrites
\* the one before, the id too; without a row the id is that of the request.
ReadBack(w) ==
    LET q == worker[w] IN
    /\ q.stage = "readBack"
    /\ \E ok \in Outcomes :
          LET ids == IF ok THEN RowsLike(db, q.req) ELSE {}
              last == Nth(ids, Cardinality(ids))
          IN Step(w, db, Failed([q EXCEPT !.stage = "send",
                                    !.answer = {IF ids = {} THEN q.req.id ELSE last}], ok))

Read(w) ==
    LET q == worker[w] IN
    \E ok \in Outcomes :
        \/ q.stage = "countSites" /\ Step(w, db, CountSites(q, ok))
        \/ q.stage = "selectSites" /\ Step(w, db, SelectSites(q, ok))
        \/ q.stage = "countForms" /\ Step(w, db, CountForms(q, ok))
        \/ q.stage = "selectForms" /\ Step(w, db, SelectForms(q, ok))
        \/ q.stage = "countFields" /\ Step(w, db, CountFields(q, ok))
        \/ q.stage = "selectFields" /\ Step(w, db, SelectFields(q, ok))

\* DeleteSitePolicy after QueryFormPolicy: each form's fields, the form, and
\* the site at the end, whatever became of the statements before.
DeleteSitePolicy(w) ==
    LET q == worker[w]
        form == q.local[1].forms[q.j].id
    IN
    \E ok \in Outcomes :
        \/ /\ q.stage = "deleteFields"
           /\ Step(w, IF ok THEN DeleteField4Form(db, form) ELSE db,
                   Failed([q EXCEPT !.stage = "deleteForm"], ok))
        \/ /\ q.stage = "deleteForm"
           /\ Step(w, IF ok THEN DeleteFormPolicy(db, form) ELSE db,
                   Failed(NextDelete(q), ok))
        \/ /\ q.stage = "deleteSite"
           /\ Step(w, IF ok THEN DeleteSiteRow(db, q.req.id) ELSE db,
                   Failed([q EXCEPT !.stage = "send"], ok))

\* Mutant: no reload after the answer.
SendOnly(w) == /\ worker[w].stage = "send"
               /\ Step(w, db, Idle(worker[w]))

\* The answer is sent before the reload; without it there is no reload.
Send(w) ==
    LET q == worker[w] IN
    /\ q.stage = "send"
    /\ \E ok \in Outcomes :
          Step(w, db,
               IF ok THEN [q EXCEPT !.stage = "countSites", !.reload = TRUE,
                                    !.local = <<>>, !.tainted = FALSE, !.answer = {},
                                    !.i = 0, !.j = 0]
               ELSE Failed(Idle(q), FALSE))

\* A worker dies; the master forks another with the policies of the start.
Die(w) == /\ situation.crashes \/ worker[w].heap = "corrupt"
          /\ UNCHANGED requests
          /\ Step(w, db, [Fresh(boot) EXCEPT !.tainted = TRUE])

Work(w) == /\ Execute(w) \/ ReadBack(w) \/ Read(w) \/ DeleteSitePolicy(w) \/ Send(w)
           /\ UNCHANGED requests

Next == \E w \in Workers :
            \/ \E req \in Writes \cup Reads : Receive(w, req)
            \/ Work(w)
            \/ Die(w)

\* A worker that has begun an operation goes on: nothing in it waits for
\* another process except SQLite, whose statements return.
Spec == Init /\ [][Next]_vars /\ \A w \in Workers : WF_vars(Work(w))

-------------------------------------------------------------------------------
(* Properties.                                                             *)

FieldSlots == [id : FieldIds \cup {0}, row : FieldRow \cup {NoRow}]
FormSlots == [id : FormIds \cup {0}, row : FormRow \cup {NoRow},
              fields : Seq(FieldSlots)]
SiteSlots == [id : SiteIds \cup {0}, row : SiteRow \cup {NoRow},
              forms : Seq(FormSlots)]

Worker == [stage : Stages, req : Writes \cup Reads \cup {NoRequest},
           answer : SUBSET (SiteIds \cup FormIds \cup FieldIds),
           reload : BOOLEAN, cache : Seq(SiteSlots), index : Nat,
           local : Seq(SiteSlots), i : Nat, j : Nat, heap : {"ok", "corrupt"},
           exposed : BOOLEAN, tainted : BOOLEAN]

\* The tables keep their columns, and every list is made of rows and zeros.
TypeOK == /\ db \in Database
          /\ boot \in Seq(SiteSlots) /\ requests \in 0..situation.requests
          /\ worker \in [Workers -> Worker]

\* A list is written past its space (ShowSitePolicyAllTableInfo,
\* ShowFormPolicyAllTableInfo, ShowFieldPolicyAllTableInfo count up index
\* without a check) only if a count failed or another process changed the
\* tables between the count and the read: never through what earlier
\* reloads left in index.
OverrunExposed == \A w \in Workers :
    worker[w].heap = "corrupt" => worker[w].exposed

\* A worker that reloaded without a failed statement, and since when no other
\* worker changed the tables, applies exactly the policies in the tables
\* (InitPostPolicy after each operation).
CurrentUnlessTainted == \A w \in Workers : LET q == worker[w] IN
    q.stage = "idle" /\ ~q.tainted /\ q.heap = "ok" => q.cache = View(db)

\* Rows of which the row they belong to is gone: a form added later under the
\* same id takes such fields over, a site such forms.
Orphans(d) == {<<"fields", n>> : n \in {n \in DOMAIN d.fields : d.fields[n].form_id \notin DOMAIN d.forms}}
    \cup {<<"forms", f>> : f \in {f \in DOMAIN d.forms : d.forms[f].site_id \notin DOMAIN d.sites}}

\* Children are deleted before what they belong to, so that a worker that dies on
\* the way leaves none behind (DeleteSitePolicy).  They are left by a request to
\* delete a form (DeleteFormPolicy), by one that puts a row where there is nothing
\* to belong to (UpdateFormPolicy, UpdateFieldPolicy), and by the deletion of a site
\* that was disturbed.
OrphansExplained ==
    [][\A o \in Orphans(db') \ Orphans(db) : \E w \in Workers :
         LET q == worker[w] IN
         \/ /\ q.stage = "statement" /\ q.req.table = "forms" /\ q.req.verb = "delete"
            /\ o[1] = "fields" /\ q.req.id = db.fields[o[2]].form_id
         \/ /\ q.stage = "statement" /\ q.req.verb \in {"add", "modify"}
            /\ <<q.req.table, q.req.id>> = o
         \/ q.stage \in {"deleteForm", "deleteSite"} /\ q.tainted]_vars

\* Until DeleteSitePolicy comes to the site itself, what it deletes are forms of
\* that site, each of them still to come, and no other.
DeletesOwnForms == \A w \in Workers : LET q == worker[w] IN
    q.stage \in {"deleteFields", "deleteForm"} /\ ~q.tainted =>
        FormsOf(db, q.req.id) =
            {q.local[1].forms[n].id : n \in q.j..Len(q.local[1].forms)}

\* Undisturbed, an addition is answered with the id it was given, or with that of
\* a later row that says the same: the rows read back are those of the site and
\* the url that were named, and the one added is among them (AddSite, AddForm,
\* AddField).
AnswerNamesRow == \A w \in Workers : LET q == worker[w] IN
    q.stage = "send" /\ q.req.verb = "add" /\ ~q.tainted =>
        \A id \in q.answer :
            \/ id = q.req.id
            \/ /\ id > q.req.id
               /\ CASE q.req.table = "sites" -> db.sites[id].host = q.req.row.host
                    [] q.req.table = "forms" -> db.forms[id] = q.req.row
                    [] OTHER -> db.fields[id].form_id = q.req.row.form_id

(***************************************************************************)
(* With one worker and no failure the store keeps the contract.  From the  *)
(* first statement that deletes something of a site on, the tables are     *)
(* taken to be without it; while the worker is busy it applies nothing.    *)
(***************************************************************************)
TheWorker == CHOOSE w \in Workers : TRUE
Performed(q) == q.reload \/ q.stage \in {"readBack", "send"} \/ q.stage \in Deletes

Tables(q, d) == IF q.stage \in Deletes THEN Erased(d, q.req.id) ELSE d
Applies(q) == IF q.stage = "idle" THEN q.cache ELSE <<>>
Call(q) == IF q.stage = "idle" THEN "none" ELSE IF Performed(q) THEN "performed" ELSE "taken"

Contract == INSTANCE PolicyContract WITH
    policies <- Tables(worker[TheWorker], db),
    applied <- Applies(worker[TheWorker]),
    call <- Call(worker[TheWorker])

\* The management API of one undisturbed worker is atomic, and every operation
\* it has begun is finished (get_raw_http_body, DeleteSitePolicy,
\* InitPostPolicy).
ImplementsContract == Contract!Spec

\* "/addfield {form_id:'123',field_name:...,type:'',desc:''}" stores the type
\* it names (UpdateFieldPolicy).
AddFieldStoresType ==
    [][\A w \in Workers : LET q == worker[w] IN
         q.stage = "statement" /\ q.req.table = "fields" /\ q.req.verb = "add"
             /\ worker'[w].stage = "readBack"
         => db'.fields[q.req.id].type = q.req.row.type]_vars

===============================================================================
