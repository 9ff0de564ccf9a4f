----------------------------- MODULE PolicyTables -----------------------------
(***************************************************************************)
(* The policy tables of PolicyManage/policymanage.c: sites, the forms of a *)
(* site and the fields of a form, and what one SQL statement of the        *)
(* program does to them.  A table maps the id of a row to the other        *)
(* columns; a query returns its rows in the order of their ids.            *)
(*                                                                         *)
(* The schema is not in the repository.  That "id" is the integer primary  *)
(* key of each table is read off the statements, which address rows by id. *)
(* Columns that only travel through (proxyhost, desc, menu, submenu) are   *)
(* left out.                                                               *)
(***************************************************************************)
EXTENDS Integers, FiniteSets, Functions, Sequences

CONSTANTS SiteIds, FormIds, FieldIds,  \* ids a client may name
          Hosts, Keys, Urls, Names, Types  \* values of the columns

\* An id is an int of the program, so that there are finitely many.
ASSUME IdsAssumption == /\ SiteIds \cup FormIds \cup FieldIds \subseteq Nat
                        /\ IsFiniteSet(SiteIds \cup FormIds \cup FieldIds)

SiteRow == [host : Hosts, key : Keys]
FormRow == [site_id : SiteIds, url : Urls]
FieldRow == [form_id : FormIds, field_name : Names, type : Types]

\* A table: some ids, each with a row.
Table(Ids, Row) == UNION {[D -> Row] : D \in SUBSET Ids}

Database == [sites : Table(SiteIds, SiteRow),
             forms : Table(FormIds, FormRow),
             fields : Table(FieldIds, FieldRow)]

\* The type a field gets: UpdateFieldPolicy spells out field.type, which its
\* callers leave at 0, over the type the client named.
StoredType == "POSTFORM"
ASSUME TypesAssumption == StoredType \in Types

-------------------------------------------------------------------------------
(* Queries.                                                                *)

\* The rows "where site_id = s", "where form_id = f".
FormsOf(d, s) == {f \in DOMAIN d.forms : d.forms[f].site_id = s}
FieldsOf(d, f) == {n \in DOMAIN d.fields : d.fields[n].form_id = f}

\* Mutant: a form is looked for by its url alone.
RowsLikeUrl(d, q) ==
    CASE q.table = "sites" -> {s \in DOMAIN d.sites : d.sites[s].host = q.row.host \/ s = q.id}
      [] q.table = "forms" -> {f \in DOMAIN d.forms : d.forms[f].url = q.row.url}
      [] q.table = "fields" -> {}

\* The rows that an operation reads back that has added q: those "where host =
\* ... or id = ...", "where site_id = ... and url = ...", "where form_id = ... and
\* field_name = ...".
RowsLike(d, q) ==
    CASE q.table = "sites" -> {s \in DOMAIN d.sites : d.sites[s].host = q.row.host \/ s = q.id}
      [] q.table = "forms" -> {f \in FormsOf(d, q.row.site_id) : d.forms[f].url = q.row.url}
      [] q.table = "fields" ->
             {n \in FieldsOf(d, q.row.form_id) : d.fields[n].field_name = q.row.field_name}

\* The n-th smallest of a set of ids, and the whole set in order.
Nth(S, n) == CHOOSE i \in S : Cardinality({k \in S : k <= i}) = n
Ascending(S) == [n \in 1..Cardinality(S) |-> Nth(S, n)]

-------------------------------------------------------------------------------
(* Statements.  A request names a table, a verb, an id and, for "add" and  *)
(* "modify", a row.                                                        *)

Write(table, Ids, Row) ==
    [table : {table}, verb : {"add", "modify"}, id : Ids, row : Row]
        \cup [table : {table}, verb : {"delete"}, id : Ids]

Writes == Write("sites", SiteIds, SiteRow) \cup Write("forms", FormIds, FormRow)
              \cup Write("fields", FieldIds, FieldRow)

\* Reads that query a list, and those that change and list nothing: the
\* reads of one row and the requests whose validation fails.
Reads == [table : {"sites"}, verb : {"list"}]
             \cup [table : {"forms"}, verb : {"list"}, id : SiteIds]
             \cup [table : {"fields"}, verb : {"list"}, id : FormIds]
             \cup [table : {"sites"}, verb : {"other"}]

\* insert: a row whose id is taken is refused.
Inserted(t, id, row) == IF id \in DOMAIN t THEN t
                        ELSE [x \in DOMAIN t \cup {id} |-> IF x = id THEN row ELSE t[x]]

\* delete where id = ...
Removed(t, ids) == Restrict(t, DOMAIN t \ ids)

\* UpdateSitePolicy: the update sets host and leaves key.
UpdateSitePolicy(t, q) ==
    CASE q.verb = "add" -> Inserted(t, q.id, q.row)
      [] q.verb = "modify" /\ q.id \in DOMAIN t ->
             [t EXCEPT ![q.id].host = q.row.host]
      [] OTHER -> t

UpdateFormPolicy(t, q) ==
    CASE q.verb = "add" -> Inserted(t, q.id, q.row)
      [] q.verb = "modify" /\ q.id \in DOMAIN t -> [t EXCEPT ![q.id] = q.row]
      [] OTHER -> t

\* Mutant: no type is spelled out.
UpdateFieldPolicyUntyped(t, q) ==
    IF q.verb = "add" THEN Inserted(t, q.id, [q.row EXCEPT !.type = ""]) ELSE t

UpdateFieldPolicy(t, q) ==
    LET row == [q.row EXCEPT !.type = StoredType] IN
    CASE q.verb = "add" -> Inserted(t, q.id, row)
      [] q.verb = "modify" /\ q.id \in DOMAIN t -> [t EXCEPT ![q.id] = row]
      [] OTHER -> t

DeleteFieldPolicy(d, f) == [d EXCEPT !.fields = Removed(@, {f})]

\* Mutant: the fields stay.
DeleteField4FormSkipped(d, f) == d

DeleteField4Form(d, f) == [d EXCEPT !.fields = Removed(@, FieldsOf(d, f))]
DeleteFormPolicy(d, f) == [d EXCEPT !.forms = Removed(@, {f})]
DeleteSiteRow(d, s) == [d EXCEPT !.sites = Removed(@, {s})]

\* A site without its forms, the forms without their fields.
Erased(d, s) ==
    LET forms == FormsOf(d, s)
        orphans == UNION {FieldsOf(d, f) : f \in forms}
    IN  [sites |-> Removed(d.sites, {s}), forms |-> Removed(d.forms, forms),
         fields |-> Removed(d.fields, orphans)]

\* The operations that are one statement; DeleteSitePolicy is not.
Statement(d, q) ==
    CASE q.verb = "delete" /\ q.table = "forms" -> DeleteFormPolicy(d, q.id)
      [] q.verb = "delete" /\ q.table = "fields" -> DeleteFieldPolicy(d, q.id)
      [] q.verb # "delete" /\ q.table = "sites" ->
             [d EXCEPT !.sites = UpdateSitePolicy(@, q)]
      [] q.verb # "delete" /\ q.table = "forms" ->
             [d EXCEPT !.forms = UpdateFormPolicy(@, q)]
      [] q.verb # "delete" /\ q.table = "fields" ->
             [d EXCEPT !.fields = UpdateFieldPolicy(@, q)]

-------------------------------------------------------------------------------
(* The policies as a worker holds them: the SitePolicys structure.         *)

\* One slot of each array; a slot nothing was read into is all zeros.
FieldSlot(d, n) == [id |-> n, row |-> d.fields[n]]
FormSlot(d, f) == [id |-> f, row |-> d.forms[f], fields |-> <<>>]
SiteSlot(d, s) == [id |-> s, row |-> d.sites[s], forms |-> <<>>]

NoRow == [none |-> 0]
ZeroField == [id |-> 0, row |-> NoRow]
ZeroForm == [id |-> 0, row |-> NoRow, fields |-> <<>>]
ZeroSite == [id |-> 0, row |-> NoRow, forms |-> <<>>]

Each(Op(_), ids) == [n \in DOMAIN ids |-> Op(ids[n])]

\* What a complete and undisturbed read of the tables gives.
FormView(d, f) ==
    [FormSlot(d, f) EXCEPT
        !.fields = Each(LAMBDA n : FieldSlot(d, n), Ascending(FieldsOf(d, f)))]
SiteView(d, s) ==
    [SiteSlot(d, s) EXCEPT
        !.forms = Each(LAMBDA f : FormView(d, f), Ascending(FormsOf(d, s)))]
View(d) == Each(LAMBDA s : SiteView(d, s), Ascending(DOMAIN d.sites))

===============================================================================
