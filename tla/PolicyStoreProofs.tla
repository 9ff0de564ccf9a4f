--------------------------- MODULE PolicyStoreProofs ---------------------------
(***************************************************************************)
(* Proofs about PolicyStore, for any number of workers, rows and requests, *)
(* and whatever fails or dies in between.                                  *)
(***************************************************************************)
EXTENDS PolicyStore, SequenceLemmas, FiniteSetTheorems

-------------------------------------------------------------------------------
(* Ids in order                                                             *)

\* The ids up to one of them.
UpTo(S, i) == {k \in S : k <= i}

\* How many there are up to an id tells the ids apart.
LEMMA RanksDiffer ==
    ASSUME NEW S \in SUBSET Nat, IsFiniteSet(S), NEW a \in S, NEW b \in S, a < b
    PROVE  Cardinality(UpTo(S, a)) < Cardinality(UpTo(S, b))
<1>1. UpTo(S, b) \in SUBSET S /\ UpTo(S, a) \in SUBSET UpTo(S, b)
  <2>1. \A k \in S : k \in Nat
    OBVIOUS
  <2>2. \A k \in S : k <= a => k <= b
    BY <2>1
  <2> QED BY <2>2 DEF UpTo
<1>2. IsFiniteSet(UpTo(S, b))
  BY <1>1, FS_Subset
<1>3. /\ IsFiniteSet(UpTo(S, a)) /\ Cardinality(UpTo(S, a)) <= Cardinality(UpTo(S, b))
      /\ Cardinality(UpTo(S, b)) = Cardinality(UpTo(S, a)) => UpTo(S, a) = UpTo(S, b)
  BY <1>1, <1>2, FS_Subset
<1>4. b \in UpTo(S, b) /\ b \notin UpTo(S, a)
  BY DEF UpTo
<1>5. Cardinality(UpTo(S, a)) \in Nat /\ Cardinality(UpTo(S, b)) \in Nat
  BY <1>2, <1>3, FS_CardinalityType
<1> QED BY <1>3, <1>4, <1>5

\* A nonempty finite set of numbers has a greatest.
LEMMA GreatestIn ==
    ASSUME NEW S \in SUBSET Nat, IsFiniteSet(S), S # {}
    PROVE  \E x \in S : \A y \in S : y <= x
<1> DEFINE Ranks == {n \in Nat : \E i \in S : n = Cardinality(S) - Cardinality(UpTo(S, i))}
<1>1. \A i \in S : /\ Cardinality(UpTo(S, i)) \in Nat
                   /\ Cardinality(UpTo(S, i)) <= Cardinality(S)
  <2> SUFFICES ASSUME NEW i \in S
               PROVE  /\ Cardinality(UpTo(S, i)) \in Nat
                      /\ Cardinality(UpTo(S, i)) <= Cardinality(S)
    OBVIOUS
  <2>1. UpTo(S, i) \in SUBSET S
    BY DEF UpTo
  <2> QED BY <2>1, FS_Subset, FS_CardinalityType
<1>2. Cardinality(S) \in Nat
  BY FS_CardinalityType
<1>3. Ranks # {}
  <2>1. PICK i \in S : TRUE
    OBVIOUS
  <2>2. Cardinality(S) - Cardinality(UpTo(S, i)) \in Ranks
    BY <1>1, <1>2
  <2> QED BY <2>2
<1>4. PICK n \in Ranks : \A m \in Ranks : n <= m
  <2>1. Ranks \in SUBSET Nat
    OBVIOUS
  <2> HIDE DEF Ranks
  <2> QED BY <1>3, <2>1, LeastIn
<1>5. PICK x \in S : n = Cardinality(S) - Cardinality(UpTo(S, x))
  OBVIOUS
<1>6. ASSUME NEW y \in S PROVE y <= x
  <2> SUFFICES ASSUME x < y PROVE FALSE
    OBVIOUS
  <2>1. Cardinality(UpTo(S, x)) < Cardinality(UpTo(S, y))
    BY RanksDiffer
  <2>2. Cardinality(S) - Cardinality(UpTo(S, y)) \in Ranks
    BY <1>1, <1>2
  <2> HIDE DEF Ranks
  <2> QED BY <1>1, <1>2, <1>4, <1>5, <2>1, <2>2
<1> QED BY <1>6

\* Every rank up to the number of the ids is taken by one of them.
LEMMA RankTaken ==
    ASSUME NEW S \in SUBSET Nat, IsFiniteSet(S), NEW n \in 1 .. Cardinality(S)
    PROVE  \E i \in S : Cardinality(UpTo(S, i)) = n
<1> DEFINE Ok(T) == \A m \in 1 .. Cardinality(T) : \E i \in T : Cardinality(UpTo(T, i)) = m
           Sizes == {c \in Nat : \A T \in SUBSET Nat :
                       IsFiniteSet(T) /\ Cardinality(T) = c => Ok(T)}
<1>1. 0 \in Sizes
  OBVIOUS
<1>2. ASSUME NEW c \in Nat, c \in Sizes PROVE c + 1 \in Sizes
  <2> SUFFICES ASSUME NEW T \in SUBSET Nat, IsFiniteSet(T), Cardinality(T) = c + 1,
                      NEW m \in 1 .. c + 1
               PROVE  \E i \in T : Cardinality(UpTo(T, i)) = m
    OBVIOUS
  <2>1. PICK x \in T : \A y \in T : y <= x
    <3>1. T # {}
      BY FS_EmptySet
    <3> QED BY <3>1, GreatestIn
  <2> DEFINE R == T \ {x}
  <2>2. IsFiniteSet(R) /\ Cardinality(R) = c /\ R \in SUBSET Nat
    <3>1. IsFiniteSet(R) /\ Cardinality(R) = Cardinality(T) - 1
      BY FS_RemoveElement
    <3> QED BY <3>1
  <2>3. CASE m = c + 1
    <3>1. UpTo(T, x) = T
      BY <2>1 DEF UpTo
    <3> QED BY <2>3, <3>1
  <2>4. CASE m # c + 1
    <3>1. m \in 1 .. Cardinality(R)
      BY <2>2, <2>4
    <3>2. Ok(R)
      <4> HIDE DEF R
      <4> QED BY <1>2, <2>2
    <3>3. PICK i \in R : Cardinality(UpTo(R, i)) = m
      <4> HIDE DEF R
      <4> QED BY <3>1, <3>2
    <3>4. UpTo(T, i) = UpTo(R, i)
      BY <2>1 DEF UpTo
    <3> QED BY <3>3, <3>4
  <2> QED BY <2>3, <2>4
<1>3. Cardinality(S) \in Nat
  BY FS_CardinalityType
<1>4. Cardinality(S) \in Sizes
  <2> HIDE DEF Sizes
  <2> QED BY <1>1, <1>2, <1>3, Induction
<1> QED BY <1>4

\* The n-th smallest id has n ids up to it.
LEMMA NthIn ==
    ASSUME NEW S \in SUBSET Nat, IsFiniteSet(S), NEW n \in 1 .. Cardinality(S)
    PROVE  Nth(S, n) \in S /\ Cardinality(UpTo(S, Nth(S, n))) = n
<1>1. \E i \in S : Cardinality(UpTo(S, i)) = n
  BY RankTaken
<1>2. Nth(S, n) = CHOOSE i \in S : Cardinality(UpTo(S, i)) = n
  BY DEF Nth, UpTo
<1> QED BY <1>1, <1>2

\* The ids in order are all the ids, each of them once.
LEMMA AscendingIs ==
    ASSUME NEW S \in SUBSET Nat, IsFiniteSet(S)
    PROVE  /\ Cardinality(S) \in Nat
           /\ Ascending(S) \in Seq(S) /\ Len(Ascending(S)) = Cardinality(S)
           /\ \A a, b \in DOMAIN Ascending(S) :
                Ascending(S)[a] = Ascending(S)[b] => a = b
           /\ \A x \in S : \E a \in DOMAIN Ascending(S) : Ascending(S)[a] = x
<1>1. Cardinality(S) \in Nat
  BY FS_CardinalityType
<1>2. Ascending(S) \in [1 .. Cardinality(S) -> S]
  BY NthIn DEF Ascending
<1>3. /\ Ascending(S) \in Seq(S) /\ Len(Ascending(S)) = Cardinality(S)
      /\ DOMAIN Ascending(S) = 1 .. Cardinality(S)
  BY <1>1, <1>2
<1>4. \A a \in 1 .. Cardinality(S) : /\ Ascending(S)[a] \in S
                                     /\ Cardinality(UpTo(S, Ascending(S)[a])) = a
  BY NthIn DEF Ascending
<1>5. ASSUME NEW x \in S PROVE \E a \in DOMAIN Ascending(S) : Ascending(S)[a] = x
  <2> DEFINE a == Cardinality(UpTo(S, x))
  <2>1. UpTo(S, x) \in SUBSET S /\ x \in UpTo(S, x)
    BY DEF UpTo
  <2>2. IsFiniteSet(UpTo(S, x)) /\ a <= Cardinality(S) /\ a \in Nat /\ a # 0
    BY <2>1, FS_Subset, FS_CardinalityType, FS_EmptySet
  <2>3. a \in 1 .. Cardinality(S)
    BY <1>1, <2>2
  <2>4. Ascending(S)[a] \in S /\ Cardinality(UpTo(S, Ascending(S)[a])) = a
    BY <1>4, <2>3
  <2> DEFINE y == Ascending(S)[a]
  <2>5. y \in Nat /\ x \in Nat /\ ~ (y < x) /\ ~ (x < y)
    <3>1. y \in S /\ Cardinality(UpTo(S, y)) = Cardinality(UpTo(S, x)) /\ a \in Nat
      BY <2>2, <2>4
    <3> HIDE DEF y
    <3> QED BY <3>1, RanksDiffer
  <2>6. y = x
    <3> HIDE DEF y
    <3> QED BY <2>5
  <2> QED BY <1>3, <2>3, <2>6
<1> QED BY <1>1, <1>3, <1>4, <1>5

\* The last of them is the greatest.
LEMMA LastIsGreatest ==
    ASSUME NEW S \in SUBSET Nat, IsFiniteSet(S), S # {}
    PROVE  /\ Nth(S, Cardinality(S)) \in S
           /\ \A k \in S : k <= Nth(S, Cardinality(S))
<1>1. Cardinality(S) \in Nat /\ Cardinality(S) # 0
  BY FS_CardinalityType, FS_EmptySet
<1> DEFINE n == Cardinality(S)
           x == Nth(S, n)
<1>2. n \in 1 .. Cardinality(S)
  BY <1>1
<1>3. x \in S /\ Cardinality(UpTo(S, x)) = Cardinality(S)
  <2> HIDE DEF n
  <2>1. x \in S /\ Cardinality(UpTo(S, x)) = n
    BY <1>2, NthIn
  <2> QED BY <2>1 DEF n
<1> HIDE DEF x
<1>4. UpTo(S, x) \in SUBSET S
  BY DEF UpTo
<1>5. UpTo(S, x) = S
  BY <1>3, <1>4, FS_Subset
<1>6. \A k \in S : k <= x
  BY <1>5 DEF UpTo
<1> QED BY <1>3, <1>6 DEF x

-------------------------------------------------------------------------------
(* The tables                                                               *)

\* A table has some identifiers and a row for each.
LEMMA TableIs ==
    ASSUME NEW Ids, NEW Row, NEW t
    PROVE  t \in Table(Ids, Row) <=> DOMAIN t \in SUBSET Ids /\ t \in [DOMAIN t -> Row]
BY DEF Table

\* What each kind of statement makes of a table.
LEMMA InsertedIs ==
    ASSUME NEW t, NEW id, NEW row
    PROVE  /\ \A x : x \in DOMAIN Inserted(t, id, row) <=> x \in DOMAIN t \/ x = id
           /\ \A x \in DOMAIN t : Inserted(t, id, row)[x] = t[x]
           /\ id \notin DOMAIN t => Inserted(t, id, row)[id] = row
BY DEF Inserted

\* INSERT keeps the type of a table.
LEMMA InsertedType ==
    ASSUME NEW Ids, NEW Row, NEW t \in Table(Ids, Row), NEW id \in Ids, NEW row \in Row
    PROVE  Inserted(t, id, row) \in Table(Ids, Row)
<1>1. DOMAIN t \in SUBSET Ids /\ t \in [DOMAIN t -> Row]
  BY TableIs
<1> DEFINE u == Inserted(t, id, row)
<1>2. CASE id \in DOMAIN t
  BY <1>2 DEF Inserted
<1>3. CASE id \notin DOMAIN t
  <2>1. u = [x \in DOMAIN t \cup {id} |-> IF x = id THEN row ELSE t[x]]
    BY <1>3 DEF Inserted
  <2>2. u \in [DOMAIN u -> Row] /\ DOMAIN u \in SUBSET Ids
    BY <1>1, <2>1
  <2> HIDE DEF u
  <2> QED BY <2>2, TableIs DEF u
<1> QED BY <1>2, <1>3

\* DELETE takes out the rows named and leaves the others.
LEMMA RemovedIs ==
    ASSUME NEW t, NEW ids
    PROVE  /\ \A x : x \in DOMAIN Removed(t, ids) <=> x \in DOMAIN t /\ x \notin ids
           /\ \A x \in DOMAIN t : x \notin ids => Removed(t, ids)[x] = t[x]
BY DEF Removed, Restrict

\* DELETE keeps the type of a table.
LEMMA RemovedType ==
    ASSUME NEW Ids, NEW Row, NEW t \in Table(Ids, Row), NEW ids
    PROVE  Removed(t, ids) \in Table(Ids, Row)
<1> DEFINE u == Removed(t, ids)
<1>1. DOMAIN t \in SUBSET Ids /\ t \in [DOMAIN t -> Row]
  BY TableIs
<1>2. u = [x \in DOMAIN t \ ids |-> t[x]]
  BY DEF Removed, Restrict
<1>3. u \in [DOMAIN u -> Row] /\ DOMAIN u \in SUBSET Ids
  BY <1>1, <1>2
<1> HIDE DEF u
<1> QED BY <1>3, TableIs DEF u

\* An update of one row.
LEMMA ChangedIs ==
    ASSUME NEW Ids, NEW Row, NEW t \in Table(Ids, Row), NEW id \in Ids, NEW row \in Row
    PROVE  /\ [t EXCEPT ![id] = row] \in Table(Ids, Row)
           /\ DOMAIN [t EXCEPT ![id] = row] = DOMAIN t
<1> DEFINE u == [t EXCEPT ![id] = row]
<1>1. DOMAIN t \in SUBSET Ids /\ t \in [DOMAIN t -> Row]
  BY TableIs
<1>2. DOMAIN u = DOMAIN t /\ u \in [DOMAIN t -> Row]
  BY <1>1
<1>3. u \in Table(Ids, Row)
  <2> HIDE DEF u
  <2> QED BY <1>1, <1>2, TableIs
<1> QED BY <1>2, <1>3

\* The parts of the tables, and the tables with one part replaced.
LEMMA DatabaseIs ==
    ASSUME NEW d \in Database
    PROVE  /\ d.sites \in Table(SiteIds, SiteRow)
           /\ d.forms \in Table(FormIds, FormRow)
           /\ d.fields \in Table(FieldIds, FieldRow)
           /\ \A t \in Table(SiteIds, SiteRow) :
                LET e == [d EXCEPT !.sites = t]
                IN  e \in Database /\ e.sites = t /\ e.forms = d.forms /\ e.fields = d.fields
           /\ \A t \in Table(FormIds, FormRow) :
                LET e == [d EXCEPT !.forms = t]
                IN  e \in Database /\ e.sites = d.sites /\ e.forms = t /\ e.fields = d.fields
           /\ \A t \in Table(FieldIds, FieldRow) :
                LET e == [d EXCEPT !.fields = t]
                IN  e \in Database /\ e.sites = d.sites /\ e.forms = d.forms /\ e.fields = t
BY DEF Database

\* The rows of a table and of a query are finitely many.
LEMMA RowsFinite ==
    ASSUME NEW d \in Database
    PROVE  /\ IsFiniteSet(DOMAIN d.sites) /\ DOMAIN d.sites \in SUBSET SiteIds
           /\ IsFiniteSet(DOMAIN d.forms) /\ DOMAIN d.forms \in SUBSET FormIds
           /\ IsFiniteSet(DOMAIN d.fields) /\ DOMAIN d.fields \in SUBSET FieldIds
           /\ SiteIds \in SUBSET Nat /\ FormIds \in SUBSET Nat /\ FieldIds \in SUBSET Nat
<1>1. /\ DOMAIN d.sites \in SUBSET SiteIds /\ DOMAIN d.forms \in SUBSET FormIds
      /\ DOMAIN d.fields \in SUBSET FieldIds
  BY DatabaseIs, TableIs
<1> DEFINE All == SiteIds \cup FormIds \cup FieldIds
<1>2. IsFiniteSet(All) /\ All \in SUBSET Nat
  BY IdsAssumption
<1>3. /\ DOMAIN d.sites \in SUBSET All /\ DOMAIN d.forms \in SUBSET All
      /\ DOMAIN d.fields \in SUBSET All
  BY <1>1
<1>4. /\ IsFiniteSet(DOMAIN d.sites) /\ IsFiniteSet(DOMAIN d.forms)
      /\ IsFiniteSet(DOMAIN d.fields)
  <2> HIDE DEF All
  <2> QED BY <1>2, <1>3, FS_Subset
<1> QED BY <1>1, <1>2, <1>4

\* What a query finds is a finite set of rows of its table.
LEMMA QueriesFinite ==
    ASSUME NEW d \in Database, NEW s
    PROVE  /\ FormsOf(d, s) \in SUBSET DOMAIN d.forms
           /\ FieldsOf(d, s) \in SUBSET DOMAIN d.fields
           /\ IsFiniteSet(FormsOf(d, s)) /\ IsFiniteSet(FieldsOf(d, s))
           /\ FormsOf(d, s) \in SUBSET Nat /\ FieldsOf(d, s) \in SUBSET Nat
<1>1. /\ FormsOf(d, s) \in SUBSET DOMAIN d.forms
      /\ FieldsOf(d, s) \in SUBSET DOMAIN d.fields
  BY DEF FormsOf, FieldsOf
<1>2. IsFiniteSet(FormsOf(d, s)) /\ IsFiniteSet(FieldsOf(d, s))
  BY <1>1, RowsFinite, FS_Subset
<1> QED BY <1>1, <1>2, RowsFinite

\* The requests that are one statement.
Single(q) == q \in Writes /\ ~ (q.table = "sites" /\ q.verb = "delete")

\* A request to write by its table and verb.
LEMMA WriteIs ==
    ASSUME NEW q \in Writes
    PROVE  /\ q.table \in {"sites", "forms", "fields"} /\ q.verb \in {"add", "modify", "delete"}
           /\ q.table = "sites" => q.id \in SiteIds /\ (q.verb # "delete" => q.row \in SiteRow)
           /\ q.table = "forms" => q.id \in FormIds /\ (q.verb # "delete" => q.row \in FormRow)
           /\ q.table = "fields" => q.id \in FieldIds /\ (q.verb # "delete" => q.row \in FieldRow)
BY DEF Writes, Write

\* What a statement of a request does to the tables: it adds or changes the row
\* of its id or deletes it, and leaves the other tables alone.
LEMMA StatementIs ==
    ASSUME NEW d \in Database, NEW q, Single(q)
    PROVE  LET e == Statement(d, q) IN
           /\ e \in Database
           /\ q.table = "sites" =>
                /\ e.forms = d.forms /\ e.fields = d.fields
                /\ DOMAIN d.sites \subseteq DOMAIN e.sites
                /\ q.verb = "add" /\ q.id \notin DOMAIN d.sites =>
                     q.id \in DOMAIN e.sites /\ e.sites[q.id] = q.row
           /\ q.table = "forms" =>
                /\ e.sites = d.sites /\ e.fields = d.fields
                /\ \A f \in DOMAIN d.forms : f \in DOMAIN e.forms \/ f = q.id
                /\ q.verb # "delete" => DOMAIN d.forms \subseteq DOMAIN e.forms
                /\ \A f \in DOMAIN e.forms :
                     f = q.id \/ (f \in DOMAIN d.forms /\ e.forms[f] = d.forms[f])
                /\ q.verb = "delete" => q.id \notin DOMAIN e.forms
                /\ q.verb = "add" /\ q.id \notin DOMAIN d.forms =>
                     q.id \in DOMAIN e.forms /\ e.forms[q.id] = q.row
           /\ q.table = "fields" =>
                /\ e.sites = d.sites /\ e.forms = d.forms
                /\ \A n \in DOMAIN e.fields :
                     n = q.id \/ (n \in DOMAIN d.fields /\ e.fields[n] = d.fields[n])
                /\ q.verb = "delete" => q.id \notin DOMAIN e.fields
                /\ q.verb = "add" /\ q.id \notin DOMAIN d.fields =>
                     /\ q.id \in DOMAIN e.fields
                     /\ e.fields[q.id] = [q.row EXCEPT !.type = StoredType]
<1> DEFINE e == Statement(d, q)
<1>0. q \in Writes /\ ~ (q.table = "sites" /\ q.verb = "delete")
  BY DEF Single
<1>1. CASE q.table = "sites"
  <2>1. q.verb \in {"add", "modify"} /\ q.id \in SiteIds /\ q.row \in SiteRow
    BY <1>0, <1>1, WriteIs
  <2>2. e = [d EXCEPT !.sites = UpdateSitePolicy(d.sites, q)]
    BY <1>1, <2>1 DEF Statement
  <2>3. d.sites \in Table(SiteIds, SiteRow)
    BY DatabaseIs
  <2> DEFINE u == UpdateSitePolicy(d.sites, q)
  <2>4. /\ u \in Table(SiteIds, SiteRow) /\ DOMAIN d.sites \subseteq DOMAIN u
        /\ q.verb = "add" /\ q.id \notin DOMAIN d.sites => q.id \in DOMAIN u /\ u[q.id] = q.row
    <3>1. CASE q.verb = "add"
      <4>1. u = Inserted(d.sites, q.id, q.row)
        BY <3>1 DEF UpdateSitePolicy
      <4>2. /\ u \in Table(SiteIds, SiteRow) /\ \A x : x \in DOMAIN u <=> x \in DOMAIN d.sites \/ x = q.id
            /\ q.id \notin DOMAIN d.sites => u[q.id] = q.row
        BY <2>1, <2>3, <4>1, InsertedIs, InsertedType
      <4> HIDE DEF u
      <4> QED BY <4>2
    <3>2. CASE q.verb = "modify" /\ q.id \in DOMAIN d.sites
      <4> DEFINE row == [d.sites[q.id] EXCEPT !.host = q.row.host]
      <4>1. row \in SiteRow
        <5>1. d.sites[q.id] \in SiteRow
          BY <2>3, <3>2, TableIs
        <5> QED BY <2>1, <5>1 DEF SiteRow
      <4>2. u = [d.sites EXCEPT ![q.id] = row]
        BY <3>2 DEF UpdateSitePolicy
      <4> HIDE DEF u, row
      <4> QED BY <2>1, <2>3, <3>2, <4>1, <4>2, ChangedIs
    <3>3. CASE q.verb = "modify" /\ q.id \notin DOMAIN d.sites
      <4>1. u = d.sites
        BY <3>3 DEF UpdateSitePolicy
      <4> QED BY <2>3, <3>3, <4>1
    <3> QED BY <2>1, <3>1, <3>2, <3>3
  <2> HIDE DEF e, u
  <2>5. e \in Database /\ e.sites = u /\ e.forms = d.forms /\ e.fields = d.fields
    BY <2>2, <2>4, DatabaseIs DEF u
  <2> QED BY <1>1, <2>4, <2>5 DEF e
<1>2. CASE q.table = "forms" /\ q.verb = "delete"
  <2>1. e = [d EXCEPT !.forms = Removed(d.forms, {q.id})]
    BY <1>2 DEF Statement, DeleteFormPolicy
  <2>2. d.forms \in Table(FormIds, FormRow)
    BY DatabaseIs
  <2>3. /\ Removed(d.forms, {q.id}) \in Table(FormIds, FormRow)
        /\ \A x : x \in DOMAIN Removed(d.forms, {q.id}) <=> x \in DOMAIN d.forms /\ x # q.id
        /\ \A x \in DOMAIN d.forms : x # q.id => Removed(d.forms, {q.id})[x] = d.forms[x]
    BY <2>2, RemovedIs, RemovedType
  <2> HIDE DEF e
  <2>4. e \in Database /\ e.sites = d.sites /\ e.fields = d.fields
        /\ e.forms = Removed(d.forms, {q.id})
    BY <2>1, <2>3, DatabaseIs
  <2> QED BY <1>2, <2>3, <2>4 DEF e
<1>3. CASE q.table = "forms" /\ q.verb # "delete"
  <2>1. q.verb \in {"add", "modify"} /\ q.id \in FormIds /\ q.row \in FormRow
    BY <1>0, <1>3, WriteIs
  <2>2. e = [d EXCEPT !.forms = UpdateFormPolicy(d.forms, q)]
    BY <1>3, <2>1 DEF Statement
  <2>3. d.forms \in Table(FormIds, FormRow)
    BY DatabaseIs
  <2> DEFINE u == UpdateFormPolicy(d.forms, q)
  <2>4. /\ u \in Table(FormIds, FormRow) /\ DOMAIN d.forms \subseteq DOMAIN u
        /\ \A f \in DOMAIN u : f = q.id \/ (f \in DOMAIN d.forms /\ u[f] = d.forms[f])
        /\ q.verb = "add" /\ q.id \notin DOMAIN d.forms => q.id \in DOMAIN u /\ u[q.id] = q.row
    <3>1. CASE q.verb = "add"
      <4>1. u = Inserted(d.forms, q.id, q.row)
        BY <3>1 DEF UpdateFormPolicy
      <4>2. /\ u \in Table(FormIds, FormRow) /\ \A x : x \in DOMAIN u <=> x \in DOMAIN d.forms \/ x = q.id
            /\ \A x \in DOMAIN d.forms : u[x] = d.forms[x]
            /\ q.id \notin DOMAIN d.forms => u[q.id] = q.row
        BY <2>1, <2>3, <4>1, InsertedIs, InsertedType
      <4> HIDE DEF u
      <4> QED BY <4>2
    <3>2. CASE q.verb = "modify" /\ q.id \in DOMAIN d.forms
      <4>1. u = [d.forms EXCEPT ![q.id] = q.row]
        BY <3>2 DEF UpdateFormPolicy
      <4>2. u \in Table(FormIds, FormRow) /\ DOMAIN u = DOMAIN d.forms
        <5> HIDE DEF u
        <5> QED BY <2>1, <2>3, <4>1, ChangedIs
      <4>3. \A x \in DOMAIN u : x = q.id \/ u[x] = d.forms[x]
        <5> HIDE DEF u
        <5> QED BY <4>1, <4>2
      <4> HIDE DEF u
      <4> QED BY <3>2, <4>2, <4>3
    <3>3. CASE q.verb = "modify" /\ q.id \notin DOMAIN d.forms
      <4>1. u = d.forms
        BY <3>3 DEF UpdateFormPolicy
      <4> QED BY <2>3, <3>3, <4>1
    <3> QED BY <2>1, <3>1, <3>2, <3>3
  <2> HIDE DEF e, u
  <2>5. e \in Database /\ e.sites = d.sites /\ e.forms = u /\ e.fields = d.fields
    BY <2>2, <2>4, DatabaseIs DEF u
  <2> QED BY <1>3, <2>4, <2>5 DEF e
<1>4. CASE q.table = "fields" /\ q.verb = "delete"
  <2>1. e = [d EXCEPT !.fields = Removed(d.fields, {q.id})]
    BY <1>4 DEF Statement, DeleteFieldPolicy
  <2>2. d.fields \in Table(FieldIds, FieldRow)
    BY DatabaseIs
  <2>3. /\ Removed(d.fields, {q.id}) \in Table(FieldIds, FieldRow)
        /\ \A x : x \in DOMAIN Removed(d.fields, {q.id}) <=> x \in DOMAIN d.fields /\ x # q.id
        /\ \A x \in DOMAIN d.fields : x # q.id => Removed(d.fields, {q.id})[x] = d.fields[x]
    BY <2>2, RemovedIs, RemovedType
  <2> HIDE DEF e
  <2>4. e \in Database /\ e.sites = d.sites /\ e.forms = d.forms
        /\ e.fields = Removed(d.fields, {q.id})
    BY <2>1, <2>3, DatabaseIs
  <2> QED BY <1>4, <2>3, <2>4 DEF e
<1>5. CASE q.table = "fields" /\ q.verb # "delete"
  <2> DEFINE row == [q.row EXCEPT !.type = StoredType]
  <2>1. q.verb \in {"add", "modify"} /\ q.id \in FieldIds /\ row \in FieldRow
    <3>1. q.verb \in {"add", "modify"} /\ q.id \in FieldIds /\ q.row \in FieldRow
      BY <1>0, <1>5, WriteIs
    <3> QED BY <3>1, TypesAssumption DEF FieldRow
  <2>2. e = [d EXCEPT !.fields = UpdateFieldPolicy(d.fields, q)]
    BY <1>5, <2>1 DEF Statement
  <2>3. d.fields \in Table(FieldIds, FieldRow)
    BY DatabaseIs
  <2> DEFINE u == UpdateFieldPolicy(d.fields, q)
  <2>4. /\ u \in Table(FieldIds, FieldRow)
        /\ \A f \in DOMAIN u : f = q.id \/ (f \in DOMAIN d.fields /\ u[f] = d.fields[f])
        /\ q.verb = "add" /\ q.id \notin DOMAIN d.fields => q.id \in DOMAIN u /\ u[q.id] = row
    <3>1. CASE q.verb = "add"
      <4>1. u = Inserted(d.fields, q.id, row)
        BY <3>1 DEF UpdateFieldPolicy
      <4>2. /\ u \in Table(FieldIds, FieldRow) /\ \A x : x \in DOMAIN u <=> x \in DOMAIN d.fields \/ x = q.id
            /\ \A x \in DOMAIN d.fields : u[x] = d.fields[x]
            /\ q.id \notin DOMAIN d.fields => u[q.id] = row
        BY <2>1, <2>3, <4>1, InsertedIs, InsertedType
      <4> HIDE DEF u, row
      <4> QED BY <4>2
    <3>2. CASE q.verb = "modify" /\ q.id \in DOMAIN d.fields
      <4>1. u = [d.fields EXCEPT ![q.id] = row]
        BY <3>2 DEF UpdateFieldPolicy
      <4>2. u \in Table(FieldIds, FieldRow) /\ DOMAIN u = DOMAIN d.fields
        <5> HIDE DEF u, row
        <5> QED BY <2>1, <2>3, <4>1, ChangedIs
      <4>3. \A x \in DOMAIN u : x = q.id \/ u[x] = d.fields[x]
        <5> HIDE DEF u, row
        <5> QED BY <4>1, <4>2
      <4> HIDE DEF u, row
      <4> QED BY <3>2, <4>2, <4>3
    <3>3. CASE q.verb = "modify" /\ q.id \notin DOMAIN d.fields
      <4>1. u = d.fields
        BY <3>3 DEF UpdateFieldPolicy
      <4> QED BY <2>3, <3>3, <4>1
    <3> QED BY <2>1, <3>1, <3>2, <3>3
  <2> HIDE DEF e, u
  <2>5. e \in Database /\ e.sites = d.sites /\ e.forms = d.forms /\ e.fields = u
    BY <2>2, <2>4, DatabaseIs DEF u
  <2> QED BY <1>5, <2>4, <2>5 DEF e
<1> HIDE DEF e
<1>6. CASE q.table = "forms"
  BY <1>2, <1>3, <1>6
<1>7. CASE q.table = "fields"
  BY <1>4, <1>5, <1>7
<1> QED BY <1>0, <1>1, <1>6, <1>7, WriteIs DEF e

\* What the statements of DeleteSitePolicy do to them.
LEMMA DeletesIs ==
    ASSUME NEW d \in Database, NEW x
    PROVE  /\ LET e == DeleteField4Form(d, x) IN
              /\ e \in Database /\ e.sites = d.sites /\ e.forms = d.forms
              /\ \A n : n \in DOMAIN e.fields <=> n \in DOMAIN d.fields /\ d.fields[n].form_id # x
              /\ \A n \in DOMAIN e.fields : e.fields[n] = d.fields[n]
           /\ LET e == DeleteFormPolicy(d, x) IN
              /\ e \in Database /\ e.sites = d.sites /\ e.fields = d.fields
              /\ \A f : f \in DOMAIN e.forms <=> f \in DOMAIN d.forms /\ f # x
              /\ \A f \in DOMAIN e.forms : e.forms[f] = d.forms[f]
           /\ LET e == DeleteSiteRow(d, x) IN
              /\ e \in Database /\ e.forms = d.forms /\ e.fields = d.fields
              /\ \A s : s \in DOMAIN e.sites <=> s \in DOMAIN d.sites /\ s # x
<1>1. /\ d.sites \in Table(SiteIds, SiteRow) /\ d.forms \in Table(FormIds, FormRow)
      /\ d.fields \in Table(FieldIds, FieldRow)
  BY DatabaseIs
<1> DEFINE t == Removed(d.fields, FieldsOf(d, x))
           u == Removed(d.forms, {x})
           v == Removed(d.sites, {x})
<1>2. /\ t \in Table(FieldIds, FieldRow)
      /\ \A n : n \in DOMAIN t <=> n \in DOMAIN d.fields /\ n \notin FieldsOf(d, x)
      /\ \A n \in DOMAIN d.fields : n \notin FieldsOf(d, x) => t[n] = d.fields[n]
  BY <1>1, RemovedIs, RemovedType
<1>3. \A n \in DOMAIN d.fields : n \in FieldsOf(d, x) <=> d.fields[n].form_id = x
  BY DEF FieldsOf
<1>4. /\ u \in Table(FormIds, FormRow)
      /\ \A n : n \in DOMAIN u <=> n \in DOMAIN d.forms /\ n # x
      /\ \A n \in DOMAIN d.forms : n # x => u[n] = d.forms[n]
  BY <1>1, RemovedIs, RemovedType
<1>5. /\ v \in Table(SiteIds, SiteRow)
      /\ \A n : n \in DOMAIN v <=> n \in DOMAIN d.sites /\ n # x
  BY <1>1, RemovedIs, RemovedType
<1>6. /\ DeleteField4Form(d, x) = [d EXCEPT !.fields = t]
      /\ DeleteFormPolicy(d, x) = [d EXCEPT !.forms = u]
      /\ DeleteSiteRow(d, x) = [d EXCEPT !.sites = v]
  BY DEF DeleteField4Form, DeleteFormPolicy, DeleteSiteRow
<1> HIDE DEF t, u, v
<1>7. /\ LET e == DeleteField4Form(d, x) IN
         e \in Database /\ e.sites = d.sites /\ e.forms = d.forms /\ e.fields = t
      /\ LET e == DeleteFormPolicy(d, x) IN
         e \in Database /\ e.sites = d.sites /\ e.fields = d.fields /\ e.forms = u
      /\ LET e == DeleteSiteRow(d, x) IN
         e \in Database /\ e.forms = d.forms /\ e.fields = d.fields /\ e.sites = v
  BY <1>2, <1>4, <1>5, <1>6, DatabaseIs
<1> QED BY <1>2, <1>3, <1>4, <1>5, <1>7

-------------------------------------------------------------------------------
(* Lists                                                                    *)

\* An array as calloc gives it.
LEMMA ZerosIs ==
    ASSUME NEW T, NEW z \in T, NEW n \in Nat
    PROVE  /\ Zeros(n, z) \in Seq(T) /\ Len(Zeros(n, z)) = n
           /\ \A k \in 1 .. n : Zeros(n, z)[k] = z
BY DEF Zeros

\* Rows go into the slots there are.
LEMMA FillIs ==
    ASSUME NEW T, NEW slots \in Seq(T), NEW n \in Nat, NEW rows \in Seq(T)
    PROVE  /\ Fill(slots, n, rows) \in Seq(T) /\ Len(Fill(slots, n, rows)) = Len(slots)
           /\ \A k \in 1 .. Len(slots) :
                Fill(slots, n, rows)[k] = IF k - n \in 1 .. Len(rows) THEN rows[k - n]
                                          ELSE slots[k]
<1> DEFINE f == Fill(slots, n, rows)
<1>1. f = [k \in 1 .. Len(slots) |-> IF k - n \in 1 .. Len(rows) THEN rows[k - n] ELSE slots[k]]
  BY DEF Fill
<1>2. \A k \in 1 .. Len(slots) : (IF k - n \in 1 .. Len(rows) THEN rows[k - n] ELSE slots[k]) \in T
  OBVIOUS
<1> HIDE DEF f
<1>3. f \in [1 .. Len(slots) -> T]
  BY <1>1, <1>2
<1>4. f \in Seq(T) /\ Len(f) = Len(slots)
  BY <1>3
<1> QED BY <1>1, <1>4 DEF f

\* As many rows as there are slots take the place of all of them.
LEMMA FillAll ==
    ASSUME NEW T, NEW slots \in Seq(T), NEW rows \in Seq(T), Len(rows) = Len(slots)
    PROVE  Fill(slots, 0, rows) = rows
<1> DEFINE f == Fill(slots, 0, rows)
<1>0. 0 \in Nat
  OBVIOUS
<1>1. f \in Seq(T) /\ Len(f) = Len(slots)
  BY <1>0, FillIs
<1>2. \A k \in 1 .. Len(slots) : f[k] = rows[k]
  <2> SUFFICES ASSUME NEW k \in 1 .. Len(slots) PROVE f[k] = rows[k]
    OBVIOUS
  <2>1. f[k] = IF k - 0 \in 1 .. Len(rows) THEN rows[k - 0] ELSE slots[k]
    BY <1>0, FillIs
  <2>2. k - 0 = k /\ k \in 1 .. Len(rows)
    OBVIOUS
  <2> HIDE DEF f
  <2> QED BY <2>1, <2>2
<1> HIDE DEF f
<1> QED BY <1>1, <1>2 DEF f

\* The rows of the three queries.
SiteRows(d) == Each(LAMBDA s : SiteSlot(d, s), Ascending(DOMAIN d.sites))
FormRows(d, s) == Each(LAMBDA f : FormSlot(d, f), Ascending(FormsOf(d, s)))
FieldRows(d, f) == Each(LAMBDA n : FieldSlot(d, n), Ascending(FieldsOf(d, f)))

\* The slot that a row fills is of its type, and so is an empty one.
LEMMA SlotTypes ==
    ASSUME NEW d \in Database
    PROVE  /\ \A s \in DOMAIN d.sites : SiteSlot(d, s) \in SiteSlots
           /\ \A f \in DOMAIN d.forms : FormSlot(d, f) \in FormSlots
           /\ \A n \in DOMAIN d.fields : FieldSlot(d, n) \in FieldSlots
           /\ ZeroSite \in SiteSlots /\ ZeroForm \in FormSlots /\ ZeroField \in FieldSlots
<1>1. /\ DOMAIN d.sites \in SUBSET SiteIds /\ d.sites \in [DOMAIN d.sites -> SiteRow]
      /\ DOMAIN d.forms \in SUBSET FormIds /\ d.forms \in [DOMAIN d.forms -> FormRow]
      /\ DOMAIN d.fields \in SUBSET FieldIds /\ d.fields \in [DOMAIN d.fields -> FieldRow]
  BY DatabaseIs, TableIs
<1>2. \A s \in DOMAIN d.sites : SiteSlot(d, s) \in SiteSlots
  BY <1>1 DEF SiteSlot, SiteSlots
<1>3. \A f \in DOMAIN d.forms : FormSlot(d, f) \in FormSlots
  BY <1>1 DEF FormSlot, FormSlots
<1>4. \A n \in DOMAIN d.fields : FieldSlot(d, n) \in FieldSlots
  BY <1>1 DEF FieldSlot, FieldSlots
<1>5. ZeroSite \in SiteSlots /\ ZeroForm \in FormSlots /\ ZeroField \in FieldSlots
  BY DEF ZeroSite, ZeroForm, ZeroField, SiteSlots, FormSlots, FieldSlots
<1> QED BY <1>2, <1>3, <1>4, <1>5

\* SELECT of the sites gives one slot for each row.
LEMMA SiteRowsIs ==
    ASSUME NEW d \in Database
    PROVE  /\ Cardinality(DOMAIN d.sites) \in Nat
           /\ SiteRows(d) \in Seq(SiteSlots) /\ Len(SiteRows(d)) = Cardinality(DOMAIN d.sites)
           /\ \A k \in 1 .. Cardinality(DOMAIN d.sites) :
                /\ Ascending(DOMAIN d.sites)[k] \in DOMAIN d.sites
                /\ SiteRows(d)[k] = SiteSlot(d, Ascending(DOMAIN d.sites)[k])
<1> DEFINE S == DOMAIN d.sites
           a == Ascending(S)
<1>1. S \in SUBSET Nat /\ IsFiniteSet(S)
  BY RowsFinite
<1>2. Cardinality(S) \in Nat /\ a \in Seq(S) /\ Len(a) = Cardinality(S)
  <2> HIDE DEF S
  <2> QED BY <1>1, AscendingIs
<1>3. SiteRows(d) = [k \in DOMAIN a |-> SiteSlot(d, a[k])]
  BY DEF SiteRows, Each
<1> HIDE DEF a
<1>4. \A k \in DOMAIN a : SiteSlot(d, a[k]) \in SiteSlots
  BY <1>2, SlotTypes
<1>5. DOMAIN a = 1 .. Cardinality(S)
  BY <1>2
<1> HIDE DEF S
<1>6. SiteRows(d) \in [1 .. Cardinality(S) -> SiteSlots]
  BY <1>3, <1>4, <1>5
<1>7. SiteRows(d) \in Seq(SiteSlots) /\ Len(SiteRows(d)) = Cardinality(S)
  BY <1>2, <1>6
<1>8. \A k \in 1 .. Cardinality(S) : a[k] \in S /\ SiteRows(d)[k] = SiteSlot(d, a[k])
  BY <1>2, <1>3, <1>5
<1> QED BY <1>2, <1>7, <1>8 DEF S, a

\* SELECT of the forms of a site gives one slot for each.
LEMMA FormRowsIs ==
    ASSUME NEW d \in Database, NEW s
    PROVE  /\ Cardinality(FormsOf(d, s)) \in Nat
           /\ FormRows(d, s) \in Seq(FormSlots) /\ Len(FormRows(d, s)) = Cardinality(FormsOf(d, s))
           /\ \A k \in 1 .. Cardinality(FormsOf(d, s)) :
                /\ Ascending(FormsOf(d, s))[k] \in DOMAIN d.forms
                /\ FormRows(d, s)[k] = FormSlot(d, Ascending(FormsOf(d, s))[k])
<1> DEFINE S == FormsOf(d, s)
           a == Ascending(S)
<1>1. S \in SUBSET Nat /\ IsFiniteSet(S) /\ S \in SUBSET DOMAIN d.forms
  BY QueriesFinite
<1>2. Cardinality(S) \in Nat /\ a \in Seq(S) /\ Len(a) = Cardinality(S)
  <2> HIDE DEF S
  <2> QED BY <1>1, AscendingIs
<1>3. FormRows(d, s) = [k \in DOMAIN a |-> FormSlot(d, a[k])]
  BY DEF FormRows, Each
<1> HIDE DEF a, S
<1>4. \A k \in DOMAIN a : a[k] \in DOMAIN d.forms /\ FormSlot(d, a[k]) \in FormSlots
  <2>1. \A k \in DOMAIN a : a[k] \in S
    BY <1>2
  <2>2. \A k \in DOMAIN a : a[k] \in DOMAIN d.forms
    BY <1>1, <2>1
  <2> QED BY <2>2, SlotTypes
<1>5. DOMAIN a = 1 .. Cardinality(S)
  BY <1>2
<1>6. FormRows(d, s) \in [1 .. Cardinality(S) -> FormSlots]
  BY <1>3, <1>4, <1>5
<1>7. FormRows(d, s) \in Seq(FormSlots) /\ Len(FormRows(d, s)) = Cardinality(S)
  BY <1>2, <1>6
<1>8. \A k \in 1 .. Cardinality(S) : /\ a[k] \in DOMAIN d.forms
                                     /\ FormRows(d, s)[k] = FormSlot(d, a[k])
  BY <1>3, <1>4, <1>5
<1> QED BY <1>2, <1>7, <1>8 DEF S, a

\* SELECT of the fields of a form gives one slot for each.
LEMMA FieldRowsIs ==
    ASSUME NEW d \in Database, NEW f
    PROVE  /\ Cardinality(FieldsOf(d, f)) \in Nat
           /\ FieldRows(d, f) \in Seq(FieldSlots)
           /\ Len(FieldRows(d, f)) = Cardinality(FieldsOf(d, f))
<1> DEFINE S == FieldsOf(d, f)
           a == Ascending(S)
<1>1. S \in SUBSET Nat /\ IsFiniteSet(S) /\ S \in SUBSET DOMAIN d.fields
  BY QueriesFinite
<1>2. Cardinality(S) \in Nat /\ a \in Seq(S) /\ Len(a) = Cardinality(S)
  <2> HIDE DEF S
  <2> QED BY <1>1, AscendingIs
<1>3. FieldRows(d, f) = [k \in DOMAIN a |-> FieldSlot(d, a[k])]
  BY DEF FieldRows, Each
<1> HIDE DEF a, S
<1>4. \A k \in DOMAIN a : FieldSlot(d, a[k]) \in FieldSlots
  BY <1>1, <1>2, SlotTypes
<1>5. DOMAIN a = 1 .. Cardinality(S)
  BY <1>2
<1>6. FieldRows(d, f) \in [1 .. Cardinality(S) -> FieldSlots]
  BY <1>3, <1>4, <1>5
<1>7. FieldRows(d, f) \in Seq(FieldSlots) /\ Len(FieldRows(d, f)) = Cardinality(S)
  BY <1>2, <1>6
<1> QED BY <1>2, <1>7 DEF S

\* A list with one slot changed.
LEMMA SlotReplaced ==
    ASSUME NEW h \in Seq(SiteSlots), NEW i \in 1 .. Len(h), NEW fs \in Seq(FormSlots)
    PROVE  /\ [h[i] EXCEPT !.forms = fs] \in SiteSlots
           /\ [h[i] EXCEPT !.forms = fs].forms = fs
           /\ [h[i] EXCEPT !.forms = fs].id = h[i].id
           /\ [h[i] EXCEPT !.forms = fs].row = h[i].row
<1>1. h[i] \in SiteSlots
  OBVIOUS
<1> QED BY <1>1 DEF SiteSlots

\* Of a list g only the rows below site i differ from those of h.
OneSite(h, g, i) ==
    /\ Len(g) = Len(h) /\ \A k \in 1 .. Len(h) : k # i => g[k] = h[k]
    /\ g[i].id = h[i].id /\ g[i].row = h[i].row

\* ... and below that site only those of form j, which are fs.
FieldsPut(h, i, j, fs) == [h EXCEPT ![i].forms[j].fields = fs]
OneForm(h, g, i, j, fs) ==
    /\ OneSite(h, g, i) /\ Len(g[i].forms) = Len(h[i].forms)
    /\ \A l \in 1 .. Len(h[i].forms) :
         g[i].forms[l] = IF l = j THEN [h[i].forms[j] EXCEPT !.fields = fs]
                         ELSE h[i].forms[l]

\* The fields of one form are replaced, and all else stays.
LEMMA FieldsReplaced ==
    ASSUME NEW h \in Seq(SiteSlots), NEW i \in 1 .. Len(h), NEW j \in 1 .. Len(h[i].forms),
           NEW fs \in Seq(FieldSlots)
    PROVE  /\ FieldsPut(h, i, j, fs) \in Seq(SiteSlots)
           /\ OneForm(h, FieldsPut(h, i, j, fs), i, j, fs)
<1> DEFINE g == [h EXCEPT ![i].forms[j].fields = fs]
           form == [h[i].forms[j] EXCEPT !.fields = fs]
           forms == [h[i].forms EXCEPT ![j] = form]
           site == [h[i] EXCEPT !.forms = forms]
<1>1. h[i] \in SiteSlots
  OBVIOUS
<1>2. h[i].forms \in Seq(FormSlots)
  BY <1>1 DEF SiteSlots
<1>3. h[i].forms[j] \in FormSlots
  BY <1>2
<1>4. form \in FormSlots
  BY <1>3 DEF FormSlots
<1>5. g = [h EXCEPT ![i] = site] /\ g = FieldsPut(h, i, j, fs)
  BY DEF FieldsPut
<1> HIDE DEF form, g
<1>6. forms \in Seq(FormSlots) /\ Len(forms) = Len(h[i].forms)
      /\ \A l \in 1 .. Len(h[i].forms) : forms[l] = IF l = j THEN form ELSE h[i].forms[l]
  BY <1>2, <1>4
<1> HIDE DEF forms
<1>7. site \in SiteSlots /\ site.forms = forms /\ site.id = h[i].id /\ site.row = h[i].row
  BY <1>1, <1>6 DEF SiteSlots
<1> HIDE DEF site
<1>8. /\ g \in Seq(SiteSlots) /\ Len(g) = Len(h) /\ g[i] = site
      /\ \A k \in 1 .. Len(h) : k # i => g[k] = h[k]
  BY <1>5, <1>7
<1> QED BY <1>5, <1>6, <1>7, <1>8 DEF OneSite, OneForm, form

-------------------------------------------------------------------------------
(* What the steps of a worker do to it, field by field                      *)

\* Everything but the stage and the two marks stays.
Same(q, r) ==
    /\ r.req = q.req /\ r.answer = q.answer /\ r.reload = q.reload /\ r.cache = q.cache
    /\ r.index = q.index /\ r.local = q.local /\ r.i = q.i /\ r.j = q.j /\ r.heap = q.heap

\* The stage, the marks and what the other list of the worker holds stay.
Beside(q, r) ==
    /\ r.req = q.req /\ r.answer = q.answer /\ r.reload = q.reload
    /\ q.reload => r.local = q.local
    /\ ~ q.reload => r.cache = q.cache /\ r.index = q.index

\* What a worker is filling is an array of sites.
LEMMA HeldType == ASSUME NEW q \in Worker PROVE Held(q) \in Seq(SiteSlots)
BY DEF Worker, Held

\* The slots in it are of their types.
LEMMA HeldForm ==
    ASSUME NEW q \in Worker, NEW i \in 1 .. Len(Held(q))
    PROVE  /\ Held(q)[i] \in SiteSlots /\ Held(q)[i].forms \in Seq(FormSlots)
           /\ \A j \in 1 .. Len(Held(q)[i].forms) :
                Held(q)[i].forms[j] \in FormSlots /\ Held(q)[i].forms[j].fields \in Seq(FieldSlots)
<1>1. Held(q)[i] \in SiteSlots
  BY HeldType
<1>2. Held(q)[i].forms \in Seq(FormSlots)
  BY <1>1 DEF SiteSlots
<1>3. \A j \in 1 .. Len(Held(q)[i].forms) : Held(q)[i].forms[j] \in FormSlots
  BY <1>2
<1>4. \A f \in FormSlots : f.fields \in Seq(FieldSlots)
  BY DEF FormSlots
<1> QED BY <1>1, <1>2, <1>3, <1>4

\* Another array in place of the one held, and nothing else changed.
LEMMA HoldIs ==
    ASSUME NEW q \in Worker, NEW h \in Seq(SiteSlots)
    PROVE  LET r == Hold(q, h) IN
           /\ r \in Worker /\ Held(r) = h /\ Beside(q, r) /\ r.stage = q.stage
           /\ r.index = q.index /\ r.i = q.i /\ r.j = q.j /\ r.heap = q.heap
           /\ r.tainted = q.tainted /\ r.exposed = q.exposed
<1>1. CASE q.reload
  BY <1>1 DEF Worker, Hold, Held, Beside
<1>2. CASE ~ q.reload
  BY <1>2 DEF Worker, Hold, Held, Beside
<1> QED BY <1>1, <1>2

\* A statement that fails taints the worker, and changes nothing else.
LEMMA MarksAre ==
    ASSUME NEW q \in Worker, NEW ok \in BOOLEAN
    PROVE  /\ LET r == Failed(q, ok) IN
              /\ r \in Worker /\ Same(q, r) /\ r.stage = q.stage /\ Held(r) = Held(q)
              /\ r.exposed = q.exposed /\ (r.tainted <=> q.tainted \/ ~ ok)
           /\ LET r == FailedCount(q, ok) IN
              /\ r \in Worker /\ Same(q, r) /\ r.stage = q.stage /\ Held(r) = Held(q)
              /\ (r.exposed <=> q.exposed \/ ~ ok) /\ (r.tainted <=> q.tainted \/ ~ ok)
BY DEF Worker, Failed, FailedCount, Same, Held

\* A change of the stage alone.
LEMMA StageIs ==
    ASSUME NEW q \in Worker, NEW stage \in Stages
    PROVE  LET r == [q EXCEPT !.stage = stage] IN
           /\ r \in Worker /\ Same(q, r) /\ r.stage = stage /\ Held(r) = Held(q)
           /\ r.exposed = q.exposed /\ r.tainted = q.tainted
BY DEF Worker, Same, Held

\* A worker that is through keeps its cache and forgets its request.
LEMMA IdleIs ==
    ASSUME NEW q \in Worker
    PROVE  LET r == Idle(q) IN
           /\ r \in Worker /\ r.stage = "idle" /\ r.answer = {}
           /\ ~ r.reload /\ r.cache = q.cache
           /\ r.index = q.index /\ r.heap = q.heap
           /\ r.exposed = q.exposed /\ r.tainted = q.tainted
<1>1. "idle" \in Stages
  BY DEF Stages
<1> DEFINE p == [q EXCEPT !.stage = "idle", !.req = NoRequest, !.answer = {}]
           r == [p EXCEPT !.reload = FALSE, !.local = <<>>, !.i = 0, !.j = 0]
<1>2. /\ p \in Worker /\ p.stage = "idle" /\ p.answer = {}
      /\ p.cache = q.cache /\ p.index = q.index
      /\ p.heap = q.heap /\ p.exposed = q.exposed /\ p.tainted = q.tainted
  BY <1>1 DEF Worker
<1>3. Idle(q) = r
  BY DEF Idle
<1> HIDE DEF p
<1>4. r \in Worker
  <2>1. <<>> \in Seq(SiteSlots)
    OBVIOUS
  <2> QED BY <1>2, <2>1 DEF Worker
<1>5. /\ r.stage = p.stage /\ r.answer = p.answer /\ ~ r.reload /\ r.cache = p.cache
      /\ r.index = p.index /\ r.heap = p.heap /\ r.exposed = p.exposed /\ r.tainted = p.tainted
  BY <1>2 DEF Worker
<1> HIDE DEF r
<1> QED BY <1>2, <1>3, <1>4, <1>5 DEF r

\* The loop of DeleteSitePolicy goes on, or comes to the site.
LEMMA NextDeleteIs ==
    ASSUME NEW q \in Worker
    PROVE  LET r == NextDelete(q) IN
           /\ r \in Worker /\ r.req = q.req /\ r.reload = q.reload /\ r.cache = q.cache
           /\ r.index = q.index /\ r.local = q.local /\ r.heap = q.heap
           /\ r.exposed = q.exposed /\ r.tainted = q.tainted
           /\ \/ /\ r.stage = "deleteFields"
                 /\ q.j < Len(q.local[1].forms) /\ r.j = q.j + 1
              \/ /\ r.stage = "deleteSite"
                 /\ ~ (q.j < Len(q.local[1].forms))
<1>0. {"deleteFields", "deleteSite"} \subseteq Stages
  BY DEF Stages, Deletes
<1>1. CASE q.j < Len(q.local[1].forms)
  <2>1. NextDelete(q) = [q EXCEPT !.stage = "deleteFields", !.j = q.j + 1]
    BY <1>1 DEF NextDelete
  <2>2. q.j + 1 \in Nat
    BY DEF Worker
  <2> DEFINE r == [q EXCEPT !.stage = "deleteFields", !.j = q.j + 1]
  <2>3. r \in Worker
    BY <1>0, <2>2 DEF Worker
  <2>4. /\ r.req = q.req /\ r.reload = q.reload /\ r.cache = q.cache
        /\ r.index = q.index /\ r.local = q.local /\ r.heap = q.heap
        /\ r.exposed = q.exposed /\ r.tainted = q.tainted
        /\ r.stage = "deleteFields" /\ r.j = q.j + 1
    BY DEF Worker
  <2> HIDE DEF r
  <2> QED BY <1>1, <2>1, <2>3, <2>4 DEF r
<1>2. CASE ~ (q.j < Len(q.local[1].forms))
  <2>1. NextDelete(q) = [q EXCEPT !.stage = "deleteSite"]
    BY <1>2 DEF NextDelete
  <2> QED BY <1>0, <1>2, <2>1, StageIs DEF Same
<1> QED BY <1>1, <1>2

\* What follows when a list is complete.
LEMMA ListedIs ==
    ASSUME NEW q \in Worker
    PROVE  LET r == Listed(q) IN
           /\ r \in Worker /\ r.cache = q.cache /\ r.index = q.index /\ r.heap = q.heap
           /\ r.exposed = q.exposed /\ r.tainted = q.tainted /\ ~ r.reload
           /\ q.reload => r.stage = "idle" /\ r.answer = {}
           /\ ~ q.reload => r.req = q.req /\ r.local = q.local
           /\ ~ q.reload /\ q.req.verb # "delete" => r.stage = "send"
           /\ ~ q.reload /\ q.req.verb = "delete" =>
                \/ r.stage = "deleteFields" /\ 0 < Len(q.local[1].forms) /\ r.j = 1
                \/ r.stage = "deleteSite" /\ ~ (0 < Len(q.local[1].forms))
<1>1. CASE q.reload
  <2>1. Listed(q) = Idle(q)
    BY <1>1 DEF Listed
  <2> QED BY <1>1, <2>1, IdleIs
<1>2. CASE ~ q.reload /\ q.req.verb = "delete"
  <2> DEFINE p == [q EXCEPT !.j = 0]
  <2>1. Listed(q) = NextDelete(p)
    BY <1>2 DEF Listed
  <2>2. /\ p \in Worker /\ p.req = q.req /\ p.reload = q.reload /\ p.cache = q.cache
        /\ p.index = q.index /\ p.local = q.local /\ p.heap = q.heap
        /\ p.exposed = q.exposed /\ p.tainted = q.tainted /\ p.j = 0
    BY DEF Worker
  <2> HIDE DEF p
  <2> QED BY <1>2, <2>1, <2>2, NextDeleteIs
<1>3. CASE ~ q.reload /\ q.req.verb # "delete"
  <2>1. Listed(q) = [q EXCEPT !.stage = "send"]
    BY <1>3 DEF Listed
  <2>2. "send" \in Stages
    BY DEF Stages
  <2> QED BY <1>3, <2>1, <2>2, StageIs DEF Same
<1> QED BY <1>1, <1>2, <1>3

\* What follows the forms of a site.
LEMMA NextSiteIs ==
    ASSUME NEW q \in Worker
    PROVE  LET r == NextSite(q) IN
           /\ r \in Worker /\ r.cache = q.cache /\ r.index = q.index /\ r.heap = q.heap
           /\ r.exposed = q.exposed /\ r.tainted = q.tainted
           /\ q.i < Len(Held(q)) =>
                /\ r.stage = "countForms" /\ r.i = q.i + 1
                /\ r.req = q.req /\ r.reload = q.reload /\ r.local = q.local
           /\ ~ (q.i < Len(Held(q))) => r = Listed(q)
<1>1. CASE q.i < Len(Held(q))
  <2>1. NextSite(q) = [q EXCEPT !.stage = "countForms", !.i = q.i + 1]
    BY <1>1 DEF NextSite
  <2>2. q.i + 1 \in Nat /\ "countForms" \in Stages
    BY DEF Worker, Stages, Counts
  <2> DEFINE r == [q EXCEPT !.stage = "countForms", !.i = q.i + 1]
  <2>3. r \in Worker
    BY <2>2 DEF Worker
  <2>4. /\ r.req = q.req /\ r.reload = q.reload /\ r.cache = q.cache
        /\ r.index = q.index /\ r.local = q.local /\ r.heap = q.heap
        /\ r.exposed = q.exposed /\ r.tainted = q.tainted
        /\ r.stage = "countForms" /\ r.i = q.i + 1
    BY DEF Worker
  <2> HIDE DEF r
  <2> QED BY <1>1, <2>1, <2>3, <2>4 DEF r
<1>2. CASE ~ (q.i < Len(Held(q)))
  BY <1>2, ListedIs DEF NextSite
<1> QED BY <1>1, <1>2

\* What follows the fields of a form.
LEMMA NextFormIs ==
    ASSUME NEW q \in Worker
    PROVE  LET r == NextForm(q) IN
           /\ r \in Worker /\ r.cache = q.cache /\ r.index = q.index /\ r.heap = q.heap
           /\ r.exposed = q.exposed /\ r.tainted = q.tainted
           /\ q.j < Len(Held(q)[q.i].forms) =>
                /\ r.stage = "countFields" /\ r.j = q.j + 1 /\ r.i = q.i
                /\ r.req = q.req /\ r.reload = q.reload /\ r.local = q.local
           /\ ~ (q.j < Len(Held(q)[q.i].forms)) => r = NextSite(q)
<1>1. CASE q.j < Len(Held(q)[q.i].forms)
  <2>1. NextForm(q) = [q EXCEPT !.stage = "countFields", !.j = q.j + 1]
    BY <1>1 DEF NextForm
  <2>2. q.j + 1 \in Nat /\ "countFields" \in Stages
    BY DEF Worker, Stages, Counts
  <2> DEFINE r == [q EXCEPT !.stage = "countFields", !.j = q.j + 1]
  <2>3. r \in Worker
    BY <2>2 DEF Worker
  <2>4. /\ r.req = q.req /\ r.reload = q.reload /\ r.cache = q.cache
        /\ r.index = q.index /\ r.local = q.local /\ r.heap = q.heap
        /\ r.exposed = q.exposed /\ r.tainted = q.tainted
        /\ r.stage = "countFields" /\ r.j = q.j + 1 /\ r.i = q.i
    BY DEF Worker
  <2> HIDE DEF r
  <2> QED BY <1>1, <2>1, <2>3, <2>4 DEF r
<1>2. CASE ~ (q.j < Len(Held(q)[q.i].forms))
  BY <1>2, NextSiteIs DEF NextForm
<1> QED BY <1>1, <1>2

\* How many rows a query counts, if it can.
SitesCounted(ok) == IF ok THEN Cardinality(DOMAIN db.sites) ELSE 0
FormsCounted(s, ok) == IF ok THEN Cardinality(FormsOf(db, s)) ELSE 0
FieldsCounted(f, ok) == IF ok THEN Cardinality(FieldsOf(db, f)) ELSE 0

\* Space is allocated for what is counted.
LEMMA CountSitesIs ==
    ASSUME db \in Database, NEW q \in Worker, NEW ok \in BOOLEAN
    PROVE  LET r == CountSites(q, ok) IN
           /\ r \in Worker /\ r.stage = "selectSites" /\ Beside(q, r)
           /\ r.heap = q.heap /\ (r.tainted <=> q.tainted \/ ~ ok)
           /\ (r.exposed <=> q.exposed \/ ~ ok)
           /\ r.index = IF q.reload /\ Len(q.cache) > 0 THEN 0 ELSE q.index
           /\ SitesCounted(ok) \in Nat
           /\ Held(r) = Zeros(SitesCounted(ok), ZeroSite)
<1> DEFINE n == SitesCounted(ok)
           h == Zeros(n, ZeroSite)
           freed == IF q.reload /\ Len(q.cache) > 0 THEN [q EXCEPT !.index = 0] ELSE q
           held == Hold(freed, h)
           moved == [held EXCEPT !.stage = "selectSites"]
<1>1. n \in Nat
  BY SiteRowsIs DEF SitesCounted
<1>2. h \in Seq(SiteSlots)
  <2> HIDE DEF n
  <2> QED BY <1>1, SlotTypes, ZerosIs
<1>3. CountSites(q, ok) = FailedCount(moved, ok)
  BY DEF CountSites, SitesCounted
<1> HIDE DEF h, n
<1>4. /\ freed \in Worker /\ (Beside(q, freed) \/ (q.reload /\ freed.local = q.local))
      /\ freed.index = IF q.reload /\ Len(q.cache) > 0 THEN 0 ELSE q.index
      /\ freed \in Worker /\ freed.req = q.req /\ freed.answer = q.answer
      /\ freed.reload = q.reload /\ freed.heap = q.heap /\ freed.local = q.local
      /\ freed.cache = q.cache
      /\ freed.tainted = q.tainted /\ freed.exposed = q.exposed
  BY DEF Worker, Beside
<1> HIDE DEF freed
<1>5. /\ held \in Worker /\ Held(held) = h /\ Beside(freed, held) /\ held.index = freed.index
      /\ held.heap = freed.heap /\ held.tainted = freed.tainted /\ held.exposed = freed.exposed
  BY <1>2, <1>4, HoldIs
<1> HIDE DEF held
<1>6. /\ moved \in Worker /\ Same(held, moved) /\ moved.stage = "selectSites"
      /\ Held(moved) = Held(held) /\ moved.tainted = held.tainted /\ moved.exposed = held.exposed
  <2>1. "selectSites" \in Stages
    BY DEF Stages, Selects
  <2> QED BY <1>5, <2>1, StageIs
<1> HIDE DEF moved
<1>7. LET r == FailedCount(moved, ok) IN
      /\ r \in Worker /\ Same(moved, r) /\ r.stage = moved.stage /\ Held(r) = Held(moved)
      /\ (r.exposed <=> moved.exposed \/ ~ ok) /\ (r.tainted <=> moved.tainted \/ ~ ok)
  BY <1>6, MarksAre
<1> DEFINE r == FailedCount(moved, ok)
<1>8. /\ r \in Worker /\ r.stage = "selectSites" /\ Beside(q, r)
      /\ r.heap = q.heap /\ r.index = freed.index /\ Held(r) = h
  <2> HIDE DEF r
  <2> QED BY <1>4, <1>5, <1>6, <1>7 DEF Same, Beside, r
<1>9. (r.tainted <=> q.tainted \/ ~ ok) /\ (r.exposed <=> q.exposed \/ ~ ok)
  <2> HIDE DEF r
  <2> QED BY <1>4, <1>5, <1>6, <1>7 DEF r
<1> HIDE DEF r
<1> QED BY <1>1, <1>3, <1>4, <1>8, <1>9 DEF r, h, n

\* A count leaves a worker with new space in its list.
LEMMA CountedIs ==
    ASSUME NEW q \in Worker, NEW h \in Seq(SiteSlots), NEW stage \in Stages, NEW ok \in BOOLEAN
    PROVE  LET r == FailedCount([Hold(q, h) EXCEPT !.stage = stage], ok) IN
           /\ r \in Worker /\ r.stage = stage /\ Beside(q, r) /\ Held(r) = h
           /\ r.index = q.index /\ r.i = q.i /\ r.j = q.j /\ r.heap = q.heap
           /\ (r.tainted <=> q.tainted \/ ~ ok) /\ (r.exposed <=> q.exposed \/ ~ ok)
<1> DEFINE held == Hold(q, h)
           moved == [held EXCEPT !.stage = stage]
           r == FailedCount(moved, ok)
<1>1. /\ held \in Worker /\ Held(held) = h /\ Beside(q, held) /\ held.stage = q.stage
      /\ held.index = q.index /\ held.i = q.i /\ held.j = q.j /\ held.heap = q.heap
      /\ held.tainted = q.tainted /\ held.exposed = q.exposed
  BY HoldIs
<1> HIDE DEF held
<1>2. /\ moved \in Worker /\ Same(held, moved) /\ moved.stage = stage
      /\ Held(moved) = Held(held) /\ moved.tainted = held.tainted /\ moved.exposed = held.exposed
  BY <1>1, StageIs
<1> HIDE DEF moved
<1>3. /\ r \in Worker /\ Same(moved, r) /\ r.stage = moved.stage /\ Held(r) = Held(moved)
      /\ (r.exposed <=> moved.exposed \/ ~ ok) /\ (r.tainted <=> moved.tainted \/ ~ ok)
  BY <1>2, MarksAre
<1> HIDE DEF r
<1> QED BY <1>1, <1>2, <1>3 DEF Same, Beside, r, moved, held

\* A read leaves it with the rows in its list.
LEMMA ReadIs ==
    ASSUME NEW q \in Worker, NEW h \in Seq(SiteSlots), NEW v \in {"ok", "corrupt"}
    PROVE  LET r == [Hold(q, h) EXCEPT !.heap = v] IN
           /\ r \in Worker /\ r.stage = q.stage /\ Beside(q, r) /\ Held(r) = h
           /\ r.index = q.index /\ r.i = q.i /\ r.j = q.j /\ r.heap = v
           /\ r.tainted = q.tainted /\ r.exposed = q.exposed
<1> DEFINE held == Hold(q, h)
           r == [held EXCEPT !.heap = v]
<1>1. /\ held \in Worker /\ Held(held) = h /\ Beside(q, held) /\ held.stage = q.stage
      /\ held.index = q.index /\ held.i = q.i /\ held.j = q.j
      /\ held.tainted = q.tainted /\ held.exposed = q.exposed
  BY HoldIs
<1> HIDE DEF held
<1>2. r \in Worker
  BY <1>1 DEF Worker
<1>3. /\ r.stage = held.stage /\ r.req = held.req /\ r.answer = held.answer
      /\ r.reload = held.reload /\ r.local = held.local /\ r.cache = held.cache
      /\ r.index = held.index /\ r.i = held.i /\ r.j = held.j /\ r.heap = v
      /\ r.tainted = held.tainted /\ r.exposed = held.exposed
  BY <1>1 DEF Worker
<1> HIDE DEF r
<1> QED BY <1>1, <1>2, <1>3 DEF Beside, Held, r, held

\* The forms of one site are replaced, and all else stays.
LEMMA FormsReplaced ==
    ASSUME NEW h \in Seq(SiteSlots), NEW i \in 1 .. Len(h), NEW fs \in Seq(FormSlots)
    PROVE  LET g == [h EXCEPT ![i] = [h[i] EXCEPT !.forms = fs]] IN
           g \in Seq(SiteSlots) /\ OneSite(h, g, i) /\ g[i].forms = fs
<1> DEFINE site == [h[i] EXCEPT !.forms = fs]
           g == [h EXCEPT ![i] = site]
<1>1. site \in SiteSlots /\ site.forms = fs /\ site.id = h[i].id /\ site.row = h[i].row
  BY SlotReplaced
<1> HIDE DEF site
<1>2. /\ g \in Seq(SiteSlots) /\ Len(g) = Len(h) /\ g[i] = site
      /\ \A k \in 1 .. Len(h) : k # i => g[k] = h[k]
  BY <1>1
<1> QED BY <1>1, <1>2 DEF OneSite, site

\* COUNT of the forms of a site allocates as many slots.
LEMMA CountFormsIs ==
    ASSUME db \in Database, NEW q \in Worker, NEW ok \in BOOLEAN, q.i \in 1 .. Len(Held(q))
    PROVE  LET r == CountForms(q, ok)
               h == Held(q)
               n == FormsCounted(h[q.i].id, ok)
           IN
           /\ r \in Worker /\ r.stage = "selectForms" /\ Beside(q, r)
           /\ r.index = q.index /\ r.i = q.i /\ r.j = q.j /\ r.heap = q.heap
           /\ (r.tainted <=> q.tainted \/ ~ ok) /\ (r.exposed <=> q.exposed \/ ~ ok)
           /\ n \in Nat /\ OneSite(h, Held(r), q.i) /\ Held(r)[q.i].forms = Zeros(n, ZeroForm)
<1> DEFINE h == Held(q)
           n == FormsCounted(h[q.i].id, ok)
           fs == Zeros(n, ZeroForm)
           g == [h EXCEPT ![q.i] = [h[q.i] EXCEPT !.forms = fs]]
           r == FailedCount([Hold(q, g) EXCEPT !.stage = "selectForms"], ok)
<1>1. n \in Nat
  BY FormRowsIs DEF FormsCounted
<1>2. CountForms(q, ok) = r
  BY DEF CountForms, FormsCounted
<1>3. fs \in Seq(FormSlots)
  <2> HIDE DEF n
  <2> QED BY <1>1, SlotTypes, ZerosIs
<1>4. h \in Seq(SiteSlots)
  BY HeldType
<1> HIDE DEF n, fs, h
<1>5. g \in Seq(SiteSlots) /\ OneSite(h, g, q.i) /\ g[q.i].forms = fs
  BY <1>3, <1>4, FormsReplaced DEF h
<1>6. "selectForms" \in Stages
  BY DEF Stages, Selects
<1> HIDE DEF g
<1>7. /\ r \in Worker /\ r.stage = "selectForms" /\ Beside(q, r) /\ Held(r) = g
      /\ r.index = q.index /\ r.i = q.i /\ r.j = q.j /\ r.heap = q.heap
      /\ (r.tainted <=> q.tainted \/ ~ ok) /\ (r.exposed <=> q.exposed \/ ~ ok)
  BY <1>5, <1>6, CountedIs
<1> HIDE DEF r
<1> QED BY <1>1, <1>2, <1>5, <1>7 DEF fs, n, h

\* COUNT of the fields of a form allocates as many slots.
LEMMA CountFieldsIs ==
    ASSUME db \in Database, NEW q \in Worker, NEW ok \in BOOLEAN, q.i \in 1 .. Len(Held(q)),
           q.j \in 1 .. Len(Held(q)[q.i].forms)
    PROVE  LET r == CountFields(q, ok)
               n == FieldsCounted(Held(q)[q.i].forms[q.j].id, ok)
           IN
           /\ r \in Worker /\ r.stage = "selectFields" /\ Beside(q, r)
           /\ r.index = q.index /\ r.i = q.i /\ r.j = q.j /\ r.heap = q.heap
           /\ (r.tainted <=> q.tainted \/ ~ ok) /\ (r.exposed <=> q.exposed \/ ~ ok)
           /\ n \in Nat /\ OneForm(Held(q), Held(r), q.i, q.j, Zeros(n, ZeroField))
<1> DEFINE h == Held(q)
           n == FieldsCounted(h[q.i].forms[q.j].id, ok)
           fs == Zeros(n, ZeroField)
           g == FieldsPut(h, q.i, q.j, fs)
           r == FailedCount([Hold(q, g) EXCEPT !.stage = "selectFields"], ok)
<1>1. n \in Nat
  BY FieldRowsIs DEF FieldsCounted
<1>2. CountFields(q, ok) = r
  BY DEF CountFields, FieldsCounted, FieldsPut
<1>3. fs \in Seq(FieldSlots)
  <2> HIDE DEF n
  <2> QED BY <1>1, SlotTypes, ZerosIs
<1>4. h \in Seq(SiteSlots) /\ q.i \in 1 .. Len(h) /\ q.j \in 1 .. Len(h[q.i].forms)
  BY HeldType
<1> HIDE DEF n, fs, h
<1>5. g \in Seq(SiteSlots) /\ OneForm(h, g, q.i, q.j, fs)
  BY <1>3, <1>4, FieldsReplaced
<1>6. "selectFields" \in Stages
  BY DEF Stages, Selects
<1> HIDE DEF g
<1>7. /\ r \in Worker /\ r.stage = "selectFields" /\ Beside(q, r) /\ Held(r) = g
      /\ r.index = q.index /\ r.i = q.i /\ r.j = q.j /\ r.heap = q.heap
      /\ (r.tainted <=> q.tainted \/ ~ ok) /\ (r.exposed <=> q.exposed \/ ~ ok)
  BY <1>5, <1>6, CountedIs
<1> HIDE DEF r
<1> QED BY <1>1, <1>2, <1>5, <1>7 DEF fs, n, h

\* The rows that a query returns, if it can.
SitesFetched(ok) == IF ok THEN SiteRows(db) ELSE <<>>
FormsFetched(s, ok) == IF ok THEN FormRows(db, s) ELSE <<>>
FieldsFetched(f, ok) == IF ok THEN FieldRows(db, f) ELSE <<>>

\* What a SELECT fetches fits the slots by its type.
LEMMA FetchedType ==
    ASSUME db \in Database, NEW ok \in BOOLEAN, NEW x
    PROVE  /\ SitesFetched(ok) \in Seq(SiteSlots)
           /\ FormsFetched(x, ok) \in Seq(FormSlots)
           /\ FieldsFetched(x, ok) \in Seq(FieldSlots)
<1>1. /\ SiteRows(db) \in Seq(SiteSlots) /\ FormRows(db, x) \in Seq(FormSlots)
      /\ FieldRows(db, x) \in Seq(FieldSlots)
  BY SiteRowsIs, FormRowsIs, FieldRowsIs
<1> QED BY <1>1 DEF SitesFetched, FormsFetched, FieldsFetched

\* The heap is whole or not.
LEMMA HeapIs ==
    ASSUME NEW q \in Worker, NEW slots, NEW from, NEW rows
    PROVE  Heap(q, slots, from, rows) \in {"ok", "corrupt"}
BY DEF Heap, Worker

\* Where the rows of the sites go.
From(q) == IF q.reload THEN q.index ELSE 0

\* SELECT of the sites fills the slots from where it starts.
LEMMA SelectSitesIs ==
    ASSUME db \in Database, NEW q \in Worker, NEW ok \in BOOLEAN
    PROVE  LET rows == SitesFetched(ok) IN
           /\ rows \in Seq(SiteSlots) /\ From(q) \in Nat
           /\ \E p \in Worker :
                /\ Beside(q, p) /\ p.stage = q.stage
                /\ p.tainted = q.tainted /\ p.exposed = q.exposed
                /\ Held(p) = Fill(Held(q), From(q), rows)
                /\ p.heap = Heap(q, Held(q), From(q), rows)
                /\ q.reload => p.i = 0 /\ p.index = q.index + Len(rows)
                /\ SelectSites(q, ok) = Failed(IF q.reload THEN NextSite(p) ELSE Listed(p), ok)
<1> DEFINE rows == SitesFetched(ok)
           from == From(q)
           h == Fill(Held(q), from, rows)
           v == Heap(q, Held(q), from, rows)
           x == IF q.reload THEN from + Len(rows) ELSE q.index
           held == Hold(q, h)
           read == [held EXCEPT !.index = IF q.reload THEN from + Len(rows) ELSE @, !.heap = v]
           p == IF q.reload THEN [read EXCEPT !.i = 0] ELSE read
<1>1. rows \in Seq(SiteSlots)
  BY FetchedType
<1>2. from \in Nat
  BY DEF Worker, From
<1>3. h \in Seq(SiteSlots)
  <2> HIDE DEF rows, from
  <2> QED BY <1>1, <1>2, HeldType, FillIs
<1>4. v \in {"ok", "corrupt"}
  BY HeapIs
<1>5. SelectSites(q, ok) = Failed(IF q.reload THEN NextSite([read EXCEPT !.i = 0])
                                  ELSE Listed(read), ok)
  BY DEF SelectSites, SitesFetched, SiteRows, From
<1>6. x \in Nat
  <2> HIDE DEF rows, from
  <2>1. q.index \in Nat
    BY DEF Worker
  <2> QED BY <1>1, <1>2, <2>1
<1> HIDE DEF rows, from, h, v
<1>7. /\ held \in Worker /\ Held(held) = h /\ Beside(q, held) /\ held.stage = q.stage
      /\ held.index = q.index /\ held.tainted = q.tainted /\ held.exposed = q.exposed
  BY <1>3, HoldIs
<1> HIDE DEF held
<1>8. read = [held EXCEPT !.index = x, !.heap = v]
  BY <1>7
<1> HIDE DEF x, read
<1>9. read \in Worker
  BY <1>4, <1>6, <1>7, <1>8 DEF Worker
<1>10. /\ read.stage = held.stage /\ read.req = held.req /\ read.answer = held.answer
       /\ read.reload = held.reload /\ read.local = held.local /\ read.cache = held.cache
       /\ read.index = x /\ read.heap = v
       /\ read.tainted = held.tainted /\ read.exposed = held.exposed
  BY <1>7, <1>8 DEF Worker
<1>11. /\ p \in Worker /\ p.stage = read.stage /\ p.req = read.req /\ p.answer = read.answer
       /\ p.reload = read.reload /\ p.local = read.local /\ p.cache = read.cache
       /\ p.index = x /\ p.heap = v /\ (q.reload => p.i = 0)
       /\ p.tainted = read.tainted /\ p.exposed = read.exposed
  BY <1>9, <1>10 DEF Worker
<1>12. SelectSites(q, ok) = Failed(IF q.reload THEN NextSite(p) ELSE Listed(p), ok)
  <2>1. CASE q.reload
    BY <1>5, <2>1
  <2>2. CASE ~ q.reload
    BY <1>5, <2>2
  <2> QED BY <2>1, <2>2
<1> HIDE DEF p
<1>13. Beside(q, p) /\ Held(p) = h
  BY <1>7, <1>10, <1>11 DEF Beside, Held, x
<1>14. q.reload => p.index = q.index + Len(rows)
  BY <1>11 DEF x, from, From
<1> QED BY <1>1, <1>2, <1>7, <1>10, <1>11, <1>12, <1>13, <1>14 DEF rows, from, h, v

\* SELECT of the forms fills the slots of one site.
LEMMA SelectFormsIs ==
    ASSUME db \in Database, NEW q \in Worker, NEW ok \in BOOLEAN, q.i \in 1 .. Len(Held(q))
    PROVE  LET slot == Held(q)[q.i]
               rows == FormsFetched(slot.id, ok)
           IN
           /\ rows \in Seq(FormSlots)
           /\ \E p \in Worker :
                /\ Beside(q, p) /\ p.stage = q.stage /\ p.index = q.index /\ p.i = q.i /\ p.j = 0
                /\ p.tainted = q.tainted /\ p.exposed = q.exposed
                /\ OneSite(Held(q), Held(p), q.i)
                /\ Held(p)[q.i].forms = Fill(slot.forms, 0, rows)
                /\ p.heap = Heap(q, slot.forms, 0, rows)
                /\ SelectForms(q, ok) = Failed(NextForm(p), ok)
<1> DEFINE h == Held(q)
           slot == h[q.i]
           rows == FormsFetched(slot.id, ok)
           fs == Fill(slot.forms, 0, rows)
           v == Heap(q, slot.forms, 0, rows)
           g == [h EXCEPT ![q.i] = [h[q.i] EXCEPT !.forms = fs]]
           read == [Hold(q, g) EXCEPT !.heap = v]
           p == [read EXCEPT !.j = 0]
<1>1. rows \in Seq(FormSlots)
  BY FetchedType
<1>2. SelectForms(q, ok) = Failed(NextForm(p), ok)
  BY DEF SelectForms, FormsFetched, FormRows
<1>3. h \in Seq(SiteSlots) /\ q.i \in 1 .. Len(h)
  BY HeldType
<1>4. fs \in Seq(FormSlots)
  <2> HIDE DEF rows, h
  <2>1. slot \in SiteSlots
    BY <1>3
  <2>2. slot.forms \in Seq(FormSlots)
    <3> HIDE DEF slot
    <3> QED BY <2>1 DEF SiteSlots
  <2> HIDE DEF slot
  <2> QED BY <1>1, <2>2, FillIs
<1>5. v \in {"ok", "corrupt"}
  BY HeapIs
<1> HIDE DEF rows, fs, v, h
<1>6. g \in Seq(SiteSlots) /\ OneSite(h, g, q.i) /\ g[q.i].forms = fs
  BY SMTT(30), <1>3, <1>4, FormsReplaced
<1> HIDE DEF g
<1>7. /\ read \in Worker /\ read.stage = q.stage /\ Beside(q, read) /\ Held(read) = g
      /\ read.index = q.index /\ read.i = q.i /\ read.j = q.j /\ read.heap = v
      /\ read.tainted = q.tainted /\ read.exposed = q.exposed
  BY <1>5, <1>6, ReadIs
<1> HIDE DEF read
<1>8. /\ p \in Worker /\ p.stage = read.stage /\ p.req = read.req /\ p.answer = read.answer
      /\ p.reload = read.reload /\ p.local = read.local /\ p.cache = read.cache
      /\ p.index = read.index /\ p.heap = read.heap /\ p.i = read.i /\ p.j = 0
      /\ p.tainted = read.tainted /\ p.exposed = read.exposed
  BY <1>7 DEF Worker
<1> HIDE DEF p
<1>9. Beside(q, p) /\ Held(p) = g
  BY <1>7, <1>8 DEF Beside, Held
<1> QED BY <1>1, <1>2, <1>6, <1>7, <1>8, <1>9 DEF fs, v, rows, h

\* SELECT of the fields fills the slots of one form.
LEMMA SelectFieldsIs ==
    ASSUME db \in Database, NEW q \in Worker, NEW ok \in BOOLEAN, q.i \in 1 .. Len(Held(q)),
           q.j \in 1 .. Len(Held(q)[q.i].forms)
    PROVE  LET slot == Held(q)[q.i].forms[q.j]
               rows == FieldsFetched(slot.id, ok)
           IN
           /\ rows \in Seq(FieldSlots)
           /\ \E p \in Worker :
                /\ Beside(q, p) /\ p.stage = q.stage /\ p.index = q.index
                /\ p.i = q.i /\ p.j = q.j
                /\ p.tainted = q.tainted /\ p.exposed = q.exposed
                /\ OneForm(Held(q), Held(p), q.i, q.j, Fill(slot.fields, 0, rows))
                /\ p.heap = Heap(q, slot.fields, 0, rows)
                /\ SelectFields(q, ok) = Failed(NextForm(p), ok)
<1> DEFINE h == Held(q)
           slot == h[q.i].forms[q.j]
           rows == FieldsFetched(slot.id, ok)
           fs == Fill(slot.fields, 0, rows)
           v == Heap(q, slot.fields, 0, rows)
           g == FieldsPut(h, q.i, q.j, fs)
           p == [Hold(q, g) EXCEPT !.heap = v]
<1>1. rows \in Seq(FieldSlots)
  BY FetchedType
<1>2. SelectFields(q, ok) = Failed(NextForm(p), ok)
  BY DEF SelectFields, FieldsFetched, FieldRows, FieldsPut
<1>3. h \in Seq(SiteSlots) /\ q.i \in 1 .. Len(h) /\ q.j \in 1 .. Len(h[q.i].forms)
  BY HeldType
<1>4. fs \in Seq(FieldSlots)
  <2> HIDE DEF rows, h
  <2>1. h[q.i] \in SiteSlots
    BY <1>3
  <2>2. h[q.i].forms \in Seq(FormSlots)
    BY <2>1 DEF SiteSlots
  <2>3. slot \in FormSlots
    BY <1>3, <2>2
  <2>4. slot.fields \in Seq(FieldSlots)
    <3> HIDE DEF slot
    <3> QED BY <2>3 DEF FormSlots
  <2> HIDE DEF slot
  <2> QED BY <1>1, <2>4, FillIs
<1>5. v \in {"ok", "corrupt"}
  BY HeapIs
<1> HIDE DEF rows, fs, v, h
<1>6. g \in Seq(SiteSlots) /\ OneForm(h, g, q.i, q.j, fs)
  BY <1>3, <1>4, FieldsReplaced
<1> HIDE DEF g
<1>7. /\ p \in Worker /\ p.stage = q.stage /\ Beside(q, p) /\ Held(p) = g
      /\ p.index = q.index /\ p.i = q.i /\ p.j = q.j /\ p.heap = v
      /\ p.tainted = q.tainted /\ p.exposed = q.exposed
  BY ZenonT(30), <1>5, <1>6, ReadIs
<1> HIDE DEF p
<1> QED BY <1>1, <1>2, <1>6, <1>7 DEF fs, v, rows, h

-------------------------------------------------------------------------------
(* Which worker is where: the type invariant                                *)

SiteDelete(req) == req \in Writes /\ req.table = "sites" /\ req.verb = "delete"

OfForms(q) == q.stage \in {"countForms", "selectForms", "countFields", "selectFields"}
OfFields(q) == q.stage \in {"countFields", "selectFields"}
OfErasure(q) == q.stage \in {"deleteFields", "deleteForm"}

\* A list is read for the request, or to reload the cache.
Listing(q) == \/ q.req.verb = "list"
              \/ SiteDelete(q.req) /\ OfForms(q)

Shape(q) ==
    /\ q \in Worker
    /\ q.reload => q.stage \in Counts \cup Selects
    /\ ~ q.reload /\ q.stage \in Counts \cup Selects => Listing(q)
    /\ ~ q.reload /\ OfForms(q) => Len(q.local) = 1
    /\ OfForms(q) => q.i \in 1 .. Len(Held(q))
    /\ OfFields(q) => q.j \in 1 .. Len(Held(q)[q.i].forms)
    /\ q.stage = "statement" => q.req.verb = "other" \/ Single(q.req)
    /\ q.stage = "readBack" => Single(q.req) /\ q.req.verb = "add"
    /\ q.stage \in Deletes => SiteDelete(q.req) /\ Len(q.local) = 1
    /\ OfErasure(q) => q.j \in 1 .. Len(q.local[1].forms)

\* What a step has to leave a worker with that goes on to the next site.
Onward(q) ==
    /\ q \in Worker
    /\ ~ q.reload => /\ q.req.verb = "list" \/ SiteDelete(q.req)
                     /\ Len(q.local) = 1

\* A worker that differs in nothing that Shape reads has it too.
LEMMA SameShape ==
    ASSUME NEW q, NEW r \in Worker, Shape(q), Same(q, r), r.stage = q.stage
    PROVE  Shape(r)
BY DEF Shape, Same, Held, Listing, OfForms, OfFields, OfErasure

\* A failed statement leaves the shape.
LEMMA MarkedShape ==
    ASSUME NEW q, Shape(q), NEW ok \in BOOLEAN
    PROVE  Shape(Failed(q, ok)) /\ Shape(FailedCount(q, ok))
<1>1. q \in Worker
  BY DEF Shape
<1> DEFINE r == Failed(q, ok)
           s == FailedCount(q, ok)
<1>2. /\ r \in Worker /\ Same(q, r) /\ r.stage = q.stage
      /\ s \in Worker /\ Same(q, s) /\ s.stage = q.stage
  BY <1>1, MarksAre
<1> HIDE DEF r, s
<1> QED BY <1>2, SameShape DEF r, s

\* A worker outside of the loading has nothing else to fulfil.
LEMMA ShapeIdle ==
    ASSUME NEW q, q \in Worker, q.stage \in {"idle", "send"}, ~ q.reload
    PROVE  Shape(q)
BY DEF Shape, OfForms, OfFields, OfErasure, Deletes, Counts, Selects

\* The shape when all sites are loaded,
LEMMA ShapeListed ==
    ASSUME NEW q \in Worker,
           ~ q.reload => \/ q.req.verb = "list"
                         \/ SiteDelete(q.req) /\ Len(q.local) = 1
    PROVE  Shape(Listed(q))
<1> DEFINE r == Listed(q)
<1>1. /\ r \in Worker /\ ~ r.reload
      /\ q.reload => r.stage = "idle"
      /\ ~ q.reload => r.req = q.req /\ r.local = q.local
      /\ ~ q.reload /\ q.req.verb # "delete" => r.stage = "send"
      /\ ~ q.reload /\ q.req.verb = "delete" =>
           \/ r.stage = "deleteFields" /\ 0 < Len(q.local[1].forms) /\ r.j = 1
           \/ r.stage = "deleteSite" /\ ~ (0 < Len(q.local[1].forms))
  BY ListedIs
<1> HIDE DEF r
<1>2. CASE q.reload
  BY <1>1, <1>2, ShapeIdle DEF r
<1>3. CASE ~ q.reload /\ q.req.verb = "list"
  BY <1>1, <1>3, ShapeIdle DEF r
<1>4. CASE ~ q.reload /\ SiteDelete(q.req) /\ Len(q.local) = 1
  <2>1. SiteDelete(r.req) /\ Len(r.local) = 1 /\ q.req.verb = "delete"
    BY <1>1, <1>4 DEF SiteDelete
  <2>2. Len(q.local[1].forms) \in Nat
    <3>1. q.local \in Seq(SiteSlots)
      BY DEF Worker
    <3>2. q.local[1] \in SiteSlots
      BY <1>4, <3>1
    <3>3. q.local[1].forms \in Seq(FormSlots)
      BY <3>2 DEF SiteSlots
    <3> QED BY <3>3
  <2>3. r.stage \in {"deleteFields", "deleteSite"}
    BY <1>1, <1>4, <2>1
  <2>4. r.stage = "deleteFields" => r.j \in 1 .. Len(r.local[1].forms)
    BY <1>1, <1>4, <2>1, <2>2
  <2>5. Shape(r)
    BY <1>1, <2>1, <2>3, <2>4 DEF Shape, OfForms, OfFields, OfErasure, Counts, Selects
  <2> QED BY <2>5 DEF r
<1> QED BY <1>2, <1>3, <1>4

\* when the next site is,
LEMMA ShapeNextSite ==
    ASSUME NEW q, Onward(q)
    PROVE  Shape(NextSite(q))
<1>0. q \in Worker
  BY DEF Onward
<1> DEFINE r == NextSite(q)
<1>1. CASE q.i < Len(Held(q))
  <2>1. /\ r \in Worker /\ r.cache = q.cache /\ r.stage = "countForms" /\ r.i = q.i + 1
        /\ r.req = q.req /\ r.reload = q.reload /\ r.local = q.local
    BY <1>0, <1>1, NextSiteIs
  <2>2. q.i \in Nat /\ Len(Held(q)) \in Nat
    BY <1>0, HeldType DEF Worker
  <2> HIDE DEF r
  <2>3. Held(r) = Held(q)
    BY <2>1 DEF Held
  <2>4. r.i \in 1 .. Len(Held(r))
    BY <1>1, <2>1, <2>2, <2>3
  <2>5. Shape(r)
    BY <2>1, <2>4 DEF Onward, Shape, OfForms, OfFields, OfErasure, Deletes, Listing, Counts
  <2> QED BY <2>5 DEF r
<1>2. CASE ~ (q.i < Len(Held(q)))
  <2>1. r = Listed(q)
    BY <1>0, <1>2, NextSiteIs
  <2>2. Shape(Listed(q))
    BY <1>0, ShapeListed DEF Onward
  <2> QED BY <2>1, <2>2
<1> QED BY <1>1, <1>2

\* and when the next form of a site is.
LEMMA ShapeNextForm ==
    ASSUME NEW q, Onward(q), q.i \in 1 .. Len(Held(q))
    PROVE  Shape(NextForm(q))
<1>0. q \in Worker
  BY DEF Onward
<1> DEFINE r == NextForm(q)
<1>1. CASE q.j < Len(Held(q)[q.i].forms)
  <2>1. /\ r \in Worker /\ r.cache = q.cache /\ r.stage = "countFields"
        /\ r.j = q.j + 1 /\ r.i = q.i
        /\ r.req = q.req /\ r.reload = q.reload /\ r.local = q.local
    BY <1>0, <1>1, NextFormIs
  <2>2. q.j \in Nat /\ Len(Held(q)[q.i].forms) \in Nat
    <3>1. Held(q)[q.i] \in SiteSlots
      BY <1>0, HeldType
    <3>2. Held(q)[q.i].forms \in Seq(FormSlots)
      BY <3>1 DEF SiteSlots
    <3> QED BY <1>0, <3>2 DEF Worker
  <2> HIDE DEF r
  <2>3. Held(r) = Held(q)
    BY <2>1 DEF Held
  <2>4. r.i \in 1 .. Len(Held(r)) /\ r.j \in 1 .. Len(Held(r)[r.i].forms)
    BY <1>1, <2>1, <2>2, <2>3
  <2>5. Shape(r)
    BY <2>1, <2>4 DEF Onward, Shape, OfForms, OfFields, OfErasure, Deletes, Listing, Counts
  <2> QED BY <2>5 DEF r
<1>2. CASE ~ (q.j < Len(Held(q)[q.i].forms))
  <2>1. r = NextSite(q)
    BY <1>0, <1>2, NextFormIs
  <2> QED BY <2>1, ShapeNextSite
<1> QED BY <1>1, <1>2

\* The statements that read a list.
LEMMA ShapeCounts ==
    ASSUME db \in Database, NEW q, Shape(q), NEW ok \in BOOLEAN
    PROVE  /\ q.stage = "countSites" => Shape(CountSites(q, ok))
           /\ q.stage = "countForms" => Shape(CountForms(q, ok))
           /\ q.stage = "countFields" => Shape(CountFields(q, ok))
<1>0. q \in Worker
  BY DEF Shape
<1>1. ASSUME q.stage = "countSites" PROVE Shape(CountSites(q, ok))
  <2> DEFINE r == CountSites(q, ok)
  <2>1. r \in Worker /\ r.stage = "selectSites" /\ r.req = q.req /\ r.reload = q.reload
    BY <1>0, CountSitesIs DEF Beside
  <2> HIDE DEF r
  <2>2. Shape(r)
    BY <1>1, <2>1 DEF Shape, Listing, OfForms, OfFields, OfErasure, Counts, Selects, Deletes
  <2> QED BY <2>2 DEF r
<1>2. ASSUME q.stage = "countForms" PROVE Shape(CountForms(q, ok))
  <2> DEFINE r == CountForms(q, ok)
  <2>0. q.i \in 1 .. Len(Held(q))
    BY <1>2 DEF Shape, OfForms
  <2>1. /\ r \in Worker /\ r.stage = "selectForms" /\ Beside(q, r)
        /\ r.i = q.i /\ Len(Held(r)) = Len(Held(q))
    BY <1>0, <2>0, CountFormsIs DEF OneSite
  <2> HIDE DEF r
  <2>2. r.req = q.req /\ r.reload = q.reload
    BY <2>1 DEF Beside
  <2>3. ~ r.reload => Len(r.local) = 1
    BY <1>2, <2>1, <2>2 DEF Shape, OfForms, Held
  <2>4. Shape(r)
    BY <1>2, <2>0, <2>1, <2>2, <2>3
       DEF Shape, Listing, OfForms, OfFields, OfErasure, Counts, Selects, Deletes
  <2> QED BY <2>4 DEF r
<1>3. ASSUME q.stage = "countFields" PROVE Shape(CountFields(q, ok))
  <2> DEFINE r == CountFields(q, ok)
  <2>0. q.i \in 1 .. Len(Held(q)) /\ q.j \in 1 .. Len(Held(q)[q.i].forms)
    BY <1>3 DEF Shape, OfForms, OfFields
  <2>1. /\ r \in Worker /\ r.stage = "selectFields" /\ Beside(q, r)
        /\ r.i = q.i /\ Len(Held(r)) = Len(Held(q)) /\ r.j = q.j
        /\ Len(Held(r)[q.i].forms) = Len(Held(q)[q.i].forms)
    BY <1>0, <2>0, CountFieldsIs DEF OneForm, OneSite
  <2> HIDE DEF r
  <2>2. r.req = q.req /\ r.reload = q.reload
    BY <2>1 DEF Beside
  <2>3. ~ r.reload => Len(r.local) = 1
    BY <1>3, <2>1, <2>2 DEF Shape, OfForms, Held
  <2>4. Shape(r)
    BY <1>3, <2>0, <2>1, <2>2, <2>3
       DEF Shape, Listing, OfForms, OfFields, OfErasure, Counts, Selects, Deletes
  <2> QED BY <2>4 DEF r
<1> QED BY <1>1, <1>2, <1>3

\* The three SELECT of the loading keep the shape.
LEMMA ShapeSelects ==
    ASSUME db \in Database, NEW q, Shape(q), NEW ok \in BOOLEAN
    PROVE  /\ q.stage = "selectSites" => Shape(SelectSites(q, ok))
           /\ q.stage = "selectForms" => Shape(SelectForms(q, ok))
           /\ q.stage = "selectFields" => Shape(SelectFields(q, ok))
<1>0. q \in Worker
  BY DEF Shape
<1>1. ASSUME q.stage = "selectSites" PROVE Shape(SelectSites(q, ok))
  <2>1. PICK p \in Worker :
           /\ Beside(q, p)
           /\ SelectSites(q, ok) = Failed(IF q.reload THEN NextSite(p) ELSE Listed(p), ok)
    BY <1>0, SelectSitesIs
  <2>2. p.req = q.req /\ p.reload = q.reload
    BY <2>1 DEF Beside
  <2>3. ~ q.reload => q.req.verb = "list"
    BY <1>1 DEF Shape, Listing, OfForms, Selects
  <2>4. CASE q.reload
    <3>1. Onward(p)
      BY <2>2, <2>4 DEF Onward
    <3> QED BY <2>1, <2>4, <3>1, ShapeNextSite, MarkedShape
  <2>5. CASE ~ q.reload
    <3>1. Shape(Listed(p))
      BY <2>2, <2>3, <2>5, ShapeListed
    <3> QED BY <2>1, <2>5, <3>1, MarkedShape
  <2> QED BY <2>4, <2>5
<1>2. ASSUME q.stage = "selectForms" PROVE Shape(SelectForms(q, ok))
  <2>0. q.i \in 1 .. Len(Held(q))
    BY <1>2 DEF Shape, OfForms
  <2>1. PICK p \in Worker :
           /\ Beside(q, p) /\ p.i = q.i /\ OneSite(Held(q), Held(p), q.i)
           /\ SelectForms(q, ok) = Failed(NextForm(p), ok)
    BY <1>0, <2>0, SelectFormsIs
  <2>2. p.req = q.req /\ p.reload = q.reload /\ Len(Held(p)) = Len(Held(q))
    BY <2>1 DEF Beside, OneSite
  <2>3. ~ q.reload => Len(p.local) = 1 /\ (q.req.verb = "list" \/ SiteDelete(q.req))
    BY <1>2, <2>2 DEF Shape, Listing, OfForms, Selects, Held
  <2>4. Onward(p) /\ p.i \in 1 .. Len(Held(p))
    BY <2>0, <2>1, <2>2, <2>3 DEF Onward
  <2> QED BY <2>1, <2>4, ShapeNextForm, MarkedShape
<1>3. ASSUME q.stage = "selectFields" PROVE Shape(SelectFields(q, ok))
  <2>0. q.i \in 1 .. Len(Held(q)) /\ q.j \in 1 .. Len(Held(q)[q.i].forms)
    BY <1>3 DEF Shape, OfForms, OfFields
  <2>1. PICK p \in Worker :
           LET slot == Held(q)[q.i].forms[q.j]
               rows == FieldsFetched(slot.id, ok)
           IN
           /\ Beside(q, p) /\ p.i = q.i
           /\ OneForm(Held(q), Held(p), q.i, q.j, Fill(slot.fields, 0, rows))
           /\ SelectFields(q, ok) = Failed(NextForm(p), ok)
    BY <1>0, <2>0, SelectFieldsIs
  <2>2. p.req = q.req /\ p.reload = q.reload /\ Len(Held(p)) = Len(Held(q))
    BY <2>1 DEF Beside, OneForm, OneSite
  <2>3. ~ q.reload => Len(p.local) = 1 /\ (q.req.verb = "list" \/ SiteDelete(q.req))
    BY <1>3, <2>1, <2>2 DEF Shape, Listing, OfForms, Selects, Held
  <2>4. Onward(p) /\ p.i \in 1 .. Len(Held(p))
    BY <2>0, <2>1, <2>2, <2>3 DEF Onward
  <2> QED BY <2>1, <2>4, ShapeNextForm, MarkedShape
<1> QED BY <1>1, <1>2, <1>3

\* The rows read back are rows of the table of the request.
LEMMA RowsLikeIs ==
    ASSUME NEW d \in Database, NEW req, Single(req), req.verb = "add"
    PROVE  /\ IsFiniteSet(RowsLike(d, req)) /\ RowsLike(d, req) \in SUBSET Nat
           /\ RowsLike(d, req) \in SUBSET (SiteIds \cup FormIds \cup FieldIds)
           /\ req.id \in SiteIds \cup FormIds \cup FieldIds
<1>0. req \in Writes
  BY DEF Single
<1>1. CASE req.table = "sites"
  <2>1. RowsLike(d, req) \in SUBSET DOMAIN d.sites /\ req.id \in SiteIds
    BY <1>0, <1>1, WriteIs DEF RowsLike
  <2> HIDE DEF RowsLike
  <2> QED BY <2>1, RowsFinite, FS_Subset
<1>2. CASE req.table = "forms"
  <2>1. RowsLike(d, req) \in SUBSET DOMAIN d.forms /\ req.id \in FormIds
    BY <1>0, <1>2, WriteIs DEF RowsLike, FormsOf
  <2> QED BY <2>1, RowsFinite, FS_Subset
<1>3. CASE req.table = "fields"
  <2>1. RowsLike(d, req) \in SUBSET DOMAIN d.fields /\ req.id \in FieldIds
    BY <1>0, <1>3, WriteIs DEF RowsLike, FieldsOf
  <2> QED BY <2>1, RowsFinite, FS_Subset
<1> QED BY <1>0, <1>1, <1>2, <1>3, WriteIs

\* A complete read of the tables gives lists of the type.
LEMMA ViewIs ==
    ASSUME NEW d \in Database
    PROVE  /\ \A f \in DOMAIN d.forms :
                /\ FormView(d, f) \in FormSlots
                /\ FormView(d, f) = [FormSlot(d, f) EXCEPT !.fields = FieldRows(d, f)]
           /\ \A s \in DOMAIN d.sites :
                /\ SiteView(d, s) \in SiteSlots
                /\ SiteView(d, s).id = s /\ SiteView(d, s).row = d.sites[s]
                /\ Len(SiteView(d, s).forms) = Cardinality(FormsOf(d, s))
                /\ \A k \in 1 .. Cardinality(FormsOf(d, s)) :
                     SiteView(d, s).forms[k] = FormView(d, Ascending(FormsOf(d, s))[k])
           /\ View(d) \in Seq(SiteSlots) /\ Len(View(d)) = Cardinality(DOMAIN d.sites)
           /\ \A k \in 1 .. Cardinality(DOMAIN d.sites) :
                View(d)[k] = SiteView(d, Ascending(DOMAIN d.sites)[k])
<1>1. ASSUME NEW f \in DOMAIN d.forms
      PROVE  /\ FormView(d, f) \in FormSlots
             /\ FormView(d, f) = [FormSlot(d, f) EXCEPT !.fields = FieldRows(d, f)]
  <2>1. FormView(d, f) = [FormSlot(d, f) EXCEPT !.fields = FieldRows(d, f)]
    BY DEF FormView, FieldRows
  <2>2. FieldRows(d, f) \in Seq(FieldSlots) /\ FormSlot(d, f) \in FormSlots
    BY FieldRowsIs, SlotTypes
  <2>3. [FormSlot(d, f) EXCEPT !.fields = FieldRows(d, f)] \in FormSlots
    BY <2>2 DEF FormSlots
  <2> QED BY <2>1, <2>3
<1>2. ASSUME NEW s \in DOMAIN d.sites
      PROVE  /\ SiteView(d, s) \in SiteSlots
             /\ SiteView(d, s).id = s /\ SiteView(d, s).row = d.sites[s]
             /\ Len(SiteView(d, s).forms) = Cardinality(FormsOf(d, s))
             /\ \A k \in 1 .. Cardinality(FormsOf(d, s)) :
                  SiteView(d, s).forms[k] = FormView(d, Ascending(FormsOf(d, s))[k])
  <2> DEFINE S == FormsOf(d, s)
             a == Ascending(S)
             fs == [k \in DOMAIN a |-> FormView(d, a[k])]
  <2>1. SiteView(d, s) = [SiteSlot(d, s) EXCEPT !.forms = fs]
    BY DEF SiteView, Each
  <2>2. /\ Cardinality(S) \in Nat /\ a \in Seq(S) /\ Len(a) = Cardinality(S)
        /\ S \in SUBSET DOMAIN d.forms
    BY QueriesFinite, AscendingIs
  <2>3. DOMAIN a = 1 .. Cardinality(S) /\ \A k \in DOMAIN a : FormView(d, a[k]) \in FormSlots
    <3> HIDE DEF S, a
    <3>1. DOMAIN a = 1 .. Cardinality(S) /\ \A k \in DOMAIN a : a[k] \in DOMAIN d.forms
      BY <2>2
    <3> QED BY <1>1, <3>1
  <2>4. fs \in Seq(FormSlots) /\ Len(fs) = Cardinality(S)
    <3> HIDE DEF S, a
    <3>1. fs \in [1 .. Cardinality(S) -> FormSlots]
      BY <2>3
    <3> HIDE DEF fs
    <3> QED BY <2>2, <3>1
  <2>5. \A k \in 1 .. Cardinality(S) : fs[k] = FormView(d, a[k])
    <3> HIDE DEF S, a
    <3> QED BY <2>3
  <2>6. SiteSlot(d, s) \in SiteSlots
    BY SlotTypes
  <2>7. SiteSlot(d, s).id = s /\ SiteSlot(d, s).row = d.sites[s]
    BY DEF SiteSlot
  <2> HIDE DEF fs
  <2>8. /\ SiteView(d, s) \in SiteSlots /\ SiteView(d, s).forms = fs
        /\ SiteView(d, s).id = s /\ SiteView(d, s).row = d.sites[s]
    BY <2>1, <2>4, <2>6, <2>7 DEF SiteSlots
  <2> QED BY <2>4, <2>5, <2>8
<1>3. /\ View(d) \in Seq(SiteSlots) /\ Len(View(d)) = Cardinality(DOMAIN d.sites)
      /\ \A k \in 1 .. Cardinality(DOMAIN d.sites) :
           View(d)[k] = SiteView(d, Ascending(DOMAIN d.sites)[k])
  <2> DEFINE S == DOMAIN d.sites
             a == Ascending(S)
             v == [k \in DOMAIN a |-> SiteView(d, a[k])]
  <2>1. View(d) = v
    BY DEF View, Each
  <2>2. S \in SUBSET Nat /\ IsFiniteSet(S)
    BY RowsFinite
  <2>3. Cardinality(S) \in Nat /\ a \in Seq(S) /\ Len(a) = Cardinality(S)
    <3> HIDE DEF S
    <3> QED BY <2>2, AscendingIs
  <2>4. DOMAIN a = 1 .. Cardinality(S) /\ \A k \in DOMAIN a : SiteView(d, a[k]) \in SiteSlots
    <3>1. DOMAIN a = 1 .. Cardinality(S) /\ \A k \in DOMAIN a : a[k] \in S
      <4> HIDE DEF S, a
      <4> QED BY <2>3
    <3> HIDE DEF a
    <3> QED BY <1>2, <3>1
  <2> HIDE DEF S, a
  <2>5. v \in [1 .. Cardinality(S) -> SiteSlots]
    BY <2>4
  <2>6. v \in Seq(SiteSlots) /\ Len(v) = Cardinality(S)
    <3> HIDE DEF v
    <3> QED BY <2>3, <2>5
  <2>7. \A k \in 1 .. Cardinality(S) : v[k] = SiteView(d, a[k])
    BY <2>4
  <2> HIDE DEF v
  <2> QED BY <2>1, <2>6, <2>7 DEF S, a
<1> QED BY <1>1, <1>2, <1>3

\* The worker that a fork begins with.
LEMMA FreshIs ==
    ASSUME NEW policies \in Seq(SiteSlots)
    PROVE  /\ Shape(Fresh(policies)) /\ Shape([Fresh(policies) EXCEPT !.tainted = TRUE])
           /\ Fresh(policies).answer = {} /\ Fresh(policies).stage = "idle" /\ Fresh(policies).heap = "ok"
           /\ Fresh(policies).cache = policies /\ Fresh(policies).index = Len(policies)
           /\ LET r == [Fresh(policies) EXCEPT !.tainted = TRUE] IN
              /\ r.stage = "idle" /\ r.answer = {} /\ ~ r.reload /\ r.heap = "ok"
              /\ r.cache = policies /\ r.index = Len(policies) /\ r.tainted
<1> DEFINE q == Fresh(policies)
           r == [q EXCEPT !.tainted = TRUE]
<1>1. q \in Worker
  <2>1. "idle" \in Stages /\ <<>> \in Seq(SiteSlots)
    BY DEF Stages
  <2>2. Len(policies) \in Nat
    OBVIOUS
  <2> QED BY <2>1, <2>2 DEF Worker, Fresh
<1>2. /\ q.stage = "idle" /\ q.answer = {} /\ ~ q.reload /\ q.heap = "ok" /\ q.cache = policies
      /\ q.index = Len(policies)
  BY DEF Fresh
<1> HIDE DEF q
<1>3. /\ r \in Worker /\ r.stage = "idle" /\ r.answer = {} /\ ~ r.reload /\ r.heap = "ok"
      /\ r.cache = policies /\ r.index = Len(policies) /\ r.tainted
  BY <1>1, <1>2 DEF Worker
<1> HIDE DEF r
<1> QED BY <1>1, <1>2, <1>3, ShapeIdle DEF q, r

\* Empty slots, and those with an identifier only.
LEMMA ZeroIs ==
    /\ ZeroSite \in SiteSlots /\ ZeroForm \in FormSlots
    /\ \A s \in SiteIds : LET r == [ZeroSite EXCEPT !.id = s]
                          IN  r \in SiteSlots /\ r.id = s
    /\ \A f \in FormIds : [ZeroForm EXCEPT !.id = f] \in FormSlots
<1>1. ZeroSite \in SiteSlots /\ ZeroForm \in FormSlots
  BY DEF ZeroSite, ZeroForm, SiteSlots, FormSlots
<1>2. \A s \in SiteIds : LET r == [ZeroSite EXCEPT !.id = s]
                         IN  r \in SiteSlots /\ r.id = s
  BY <1>1 DEF SiteSlots
<1>3. \A f \in FormIds : [ZeroForm EXCEPT !.id = f] \in FormSlots
  BY <1>1 DEF FormSlots
<1> QED BY <1>1, <1>2, <1>3

\* The steps that are not reads of a list.  What a request makes of a worker,
Received(q, req) ==
    LET p == [q EXCEPT !.req = req, !.tainted = FALSE]
        site == [ZeroSite EXCEPT !.id = req.id]
        form == [ZeroForm EXCEPT !.id = req.id]
    IN CASE req.table = "sites" /\ req.verb = "list" -> [p EXCEPT !.stage = "countSites"]
         [] \/ req.table = "sites" /\ req.verb = "delete"
            \/ req.table = "forms" /\ req.verb = "list" ->
                [p EXCEPT !.stage = "countForms", !.local = <<site>>, !.i = 1]
         [] req.table = "fields" /\ req.verb = "list" ->
                [p EXCEPT !.stage = "countFields", !.i = 1, !.j = 1,
                          !.local = <<[ZeroSite EXCEPT !.forms = <<form>>]>>]
         [] OTHER -> [p EXCEPT !.stage = "statement"]

\* field by field.
LEMMA ReceivedIs ==
    ASSUME NEW q, Shape(q), q.stage = "idle", NEW req \in Writes \cup Reads
    PROVE  LET r == Received(q, req) IN
           /\ Shape(r) /\ ~ r.reload /\ r.req = req /\ ~ r.tainted /\ r.exposed = q.exposed
           /\ r.answer = q.answer /\ r.cache = q.cache /\ r.index = q.index /\ r.heap = q.heap
           /\ r.stage \in {"countSites", "countForms", "countFields", "statement"}
           /\ r.stage = "countForms" => r.local[1].id = req.id
           /\ SiteDelete(req) => r.stage = "countForms"
<1> DEFINE p == [q EXCEPT !.req = req, !.tainted = FALSE]
           r == Received(q, req)
<1>0. q \in Worker /\ ~ q.reload
  BY DEF Shape, Counts, Selects
<1>1. /\ p \in Worker /\ ~ p.reload /\ p.req = req /\ ~ p.tainted /\ p.exposed = q.exposed
      /\ p.answer = q.answer /\ p.cache = q.cache /\ p.index = q.index /\ p.heap = q.heap
  BY <1>0 DEF Worker
<1>2. CASE req.table = "sites" /\ req.verb = "list"
  <2>1. r = [p EXCEPT !.stage = "countSites"] /\ "countSites" \in Stages
    BY <1>2 DEF Received, Stages, Counts
  <2> HIDE DEF p
  <2>2. r \in Worker /\ Same(p, r) /\ r.stage = "countSites" /\ ~ r.tainted /\ r.exposed = q.exposed
    BY <1>1, <2>1, StageIs
  <2> HIDE DEF r
  <2>3. /\ ~ r.reload /\ r.req = req /\ r.answer = q.answer /\ r.cache = q.cache /\ r.index = q.index /\ r.heap = q.heap
    BY <1>1, <2>2 DEF Same
  <2>4. Shape(r) /\ ~ SiteDelete(req)
    BY <1>2, <2>2, <2>3 DEF Shape, Listing, SiteDelete, OfForms, OfFields, OfErasure, Counts, Selects, Deletes
  <2> QED BY <2>2, <2>3, <2>4 DEF r
<1>3. CASE \/ req.table = "sites" /\ req.verb = "delete"
           \/ req.table = "forms" /\ req.verb = "list"
  <2> DEFINE site == [ZeroSite EXCEPT !.id = req.id]
             local == <<site>>
  <2>1. r = [p EXCEPT !.stage = "countForms", !.local = local, !.i = 1] /\ "countForms" \in Stages
    BY <1>3 DEF Received, Stages, Counts
  <2>2. req.id \in SiteIds /\ (SiteDelete(req) \/ req.verb = "list")
    BY <1>3, WriteIs DEF SiteDelete, Writes, Write, Reads
  <2>3. site \in SiteSlots /\ site.id = req.id
    BY <2>2, ZeroIs
  <2> HIDE DEF site
  <2>4. local \in Seq(SiteSlots) /\ Len(local) = 1 /\ local[1] = site
    BY <2>3
  <2> HIDE DEF p, local
  <2>5. r \in Worker
    <3>1. [p EXCEPT !.stage = "countForms"] \in Worker
      BY <1>1, <2>1 DEF Worker
    <3>2. 1 \in Nat /\ local \in Seq(SiteSlots)
      BY <2>4
    <3>3. [[p EXCEPT !.stage = "countForms"] EXCEPT !.local = local, !.i = 1] \in Worker
      BY <3>1, <3>2 DEF Worker
    <3> QED BY <2>1, <3>3
  <2>6. /\ ~ r.reload /\ r.req = req /\ ~ r.tainted /\ r.exposed = q.exposed
        /\ r.answer = q.answer /\ r.cache = q.cache /\ r.index = q.index /\ r.heap = q.heap
        /\ r.stage = "countForms" /\ r.local = local /\ r.i = 1
    BY <1>1, <2>1 DEF Worker
  <2> HIDE DEF r
  <2>7. Held(r) = local
    BY <2>6 DEF Held
  <2>8. Shape(r)
    <3>1. OfForms(r) /\ ~ OfFields(r) /\ ~ OfErasure(r) /\ r.stage \notin Deletes
      BY <2>6 DEF OfForms, OfFields, OfErasure, Deletes
    <3>2. Listing(r)
      BY <2>2, <2>6, <3>1 DEF Listing
    <3>4. Len(Held(r)) = 1 /\ Len(r.local) = 1 /\ r.i = 1
      BY <2>4, <2>6, <2>7
    <3>3. r.i \in 1 .. Len(Held(r)) /\ Len(r.local) = 1
      BY <3>4
    <3> QED BY <2>5, <2>6, <3>1, <3>2, <3>3 DEF Shape
  <2> QED BY <2>3, <2>4, <2>6, <2>8 DEF r
<1>4. CASE req.table = "fields" /\ req.verb = "list"
  <2> DEFINE form == [ZeroForm EXCEPT !.id = req.id]
             forms == <<form>>
             site == [ZeroSite EXCEPT !.forms = forms]
             local == <<site>>
  <2>1. /\ r = [p EXCEPT !.stage = "countFields", !.i = 1, !.j = 1, !.local = local]
        /\ "countFields" \in Stages
    BY <1>4 DEF Received, Stages, Counts
  <2>2. req.id \in FormIds /\ ~ SiteDelete(req)
    BY <1>4 DEF SiteDelete, Writes, Write, Reads
  <2>3. form \in FormSlots
    BY <2>2, ZeroIs
  <2> HIDE DEF form
  <2>4. forms \in Seq(FormSlots) /\ Len(forms) = 1
    BY <2>3
  <2> HIDE DEF forms
  <2>5. site \in SiteSlots /\ site.forms = forms
    BY <2>4, ZeroIs DEF SiteSlots
  <2> HIDE DEF site
  <2>6. local \in Seq(SiteSlots) /\ Len(local) = 1 /\ local[1] = site
    BY <2>5
  <2> HIDE DEF p, local
  <2>7. r \in Worker
    <3>1. [p EXCEPT !.stage = "countFields"] \in Worker
      BY <1>1, <2>1 DEF Worker
    <3>2. 1 \in Nat /\ local \in Seq(SiteSlots)
      BY <2>6
    <3>3. [[p EXCEPT !.stage = "countFields"] EXCEPT !.i = 1, !.j = 1, !.local = local] \in Worker
      BY <3>1, <3>2 DEF Worker
    <3> QED BY <2>1, <3>3
  <2>8. /\ ~ r.reload /\ r.req = req /\ ~ r.tainted /\ r.exposed = q.exposed
        /\ r.answer = q.answer /\ r.cache = q.cache /\ r.index = q.index /\ r.heap = q.heap
        /\ r.stage = "countFields" /\ r.local = local /\ r.i = 1 /\ r.j = 1
    BY <1>1, <2>1 DEF Worker
  <2> HIDE DEF r
  <2>9. Held(r) = local
    BY <2>8 DEF Held
  <2>10. Len(Held(r)[r.i].forms) = 1 /\ Len(Held(r)) = 1
    BY <2>4, <2>5, <2>6, <2>8, <2>9
  <2>11. Shape(r)
    BY <1>4, <2>6, <2>7, <2>8, <2>10
       DEF Shape, Listing, OfForms, OfFields, OfErasure, Counts, Selects, Deletes
  <2> QED BY <2>2, <2>8, <2>11 DEF r
<1>5. CASE ~ \/ req.table = "sites" /\ req.verb \in {"list", "delete"}
             \/ req.table = "forms" /\ req.verb = "list"
             \/ req.table = "fields" /\ req.verb = "list"
  <2>1. r = [p EXCEPT !.stage = "statement"] /\ "statement" \in Stages
    BY <1>5 DEF Received, Stages
  <2> HIDE DEF p
  <2>2. r \in Worker /\ Same(p, r) /\ r.stage = "statement" /\ ~ r.tainted /\ r.exposed = q.exposed
    BY <1>1, <2>1, StageIs
  <2>3. req.verb = "other" \/ Single(req)
    BY <1>5 DEF Single, Reads
  <2> HIDE DEF r
  <2>4. /\ ~ r.reload /\ r.req = req /\ r.answer = q.answer /\ r.cache = q.cache /\ r.index = q.index /\ r.heap = q.heap
    BY <1>1, <2>2 DEF Same
  <2>5. Shape(r) /\ ~ SiteDelete(req)
    BY <1>5, <2>2, <2>3, <2>4 DEF Shape, SiteDelete, OfForms, OfFields, OfErasure, Counts, Selects, Deletes
  <2> QED BY <2>2, <2>4, <2>5 DEF r
<1> QED BY <1>2, <1>3, <1>4, <1>5

\* what a statement makes of it: the outcome of the operation, the answer, ...
LEMMA ExecutedIs ==
    ASSUME NEW q, Shape(q), NEW ok \in BOOLEAN, NEW stage \in {"readBack", "send"},
           q.stage = "statement",
           stage = "readBack" => Single(q.req) /\ q.req.verb = "add"
    PROVE  LET r == Failed([q EXCEPT !.stage = stage], ok) IN
           /\ Shape(r) /\ Same(q, r) /\ r.stage = stage /\ ~ r.reload
           /\ r.exposed = q.exposed /\ (r.tainted <=> q.tainted \/ ~ ok)
<1> DEFINE p == [q EXCEPT !.stage = stage]
           r == Failed(p, ok)
<1>0. q \in Worker /\ ~ q.reload
  BY DEF Shape, Counts, Selects
<1>1. stage \in Stages
  BY DEF Stages
<1>2. /\ p \in Worker /\ Same(q, p) /\ p.stage = stage
      /\ p.exposed = q.exposed /\ p.tainted = q.tainted
  BY <1>0, <1>1, StageIs
<1> HIDE DEF p
<1>3. ~ p.reload /\ p.req = q.req
  BY <1>0, <1>2 DEF Same
<1>4. Shape(p)
  BY <1>2, <1>3 DEF Shape, OfForms, OfFields, OfErasure, Deletes, Counts, Selects
<1>5. /\ Shape(r) /\ Same(p, r) /\ r.stage = p.stage /\ r.exposed = p.exposed
      /\ (r.tainted <=> p.tainted \/ ~ ok)
  BY <1>2, <1>4, MarkedShape, MarksAre
<1> HIDE DEF r
<1> QED BY <1>2, <1>3, <1>5 DEF Same, r, p

LastOf(q, ids) == IF ids = {} THEN q.req.id ELSE Nth(ids, Cardinality(ids))

\* The worker when it has read back what it answers.
LEMMA AnsweredIs ==
    ASSUME db \in Database, NEW q, Shape(q), NEW ok \in BOOLEAN, q.stage = "readBack"
    PROVE  LET ids == IF ok THEN RowsLike(db, q.req) ELSE {}
               x == LastOf(q, ids)
               r == Failed([q EXCEPT !.stage = "send", !.answer = {x}], ok)
           IN
           /\ Shape(r) /\ r.stage = "send" /\ ~ r.reload /\ r.req = q.req /\ r.answer = {x}
           /\ r.cache = q.cache /\ r.index = q.index /\ r.heap = q.heap
           /\ r.exposed = q.exposed /\ (r.tainted <=> q.tainted \/ ~ ok)
           /\ ok => RowsLike(db, q.req) \in SUBSET Nat /\ q.req.id \in Nat
           /\ ids # {} => x \in ids /\ \A k \in ids : k <= x
<1> DEFINE rows == RowsLike(db, q.req)
           ids == IF ok THEN rows ELSE {}
           x == LastOf(q, ids)
           p == [q EXCEPT !.stage = "send", !.answer = {x}]
           r == Failed(p, ok)
           All == SiteIds \cup FormIds \cup FieldIds
<1>0. q \in Worker /\ ~ q.reload /\ Single(q.req) /\ q.req.verb = "add"
  BY DEF Shape, Counts, Selects
<1>1. IsFiniteSet(rows) /\ rows \in SUBSET Nat /\ rows \in SUBSET All /\ q.req.id \in All
  BY <1>0, RowsLikeIs
<1>2. q.req.id \in Nat
  BY <1>1, IdsAssumption
<1> HIDE DEF rows
<1>3. ids # {} => x \in ids /\ \A k \in ids : k <= x
  <2> SUFFICES ASSUME ids # {} PROVE x \in ids /\ \A k \in ids : k <= x
    OBVIOUS
  <2>1. ids = rows /\ x = Nth(ids, Cardinality(ids))
    BY DEF LastOf
  <2> HIDE DEF ids, x
  <2>2. IsFiniteSet(ids) /\ ids \in SUBSET Nat /\ ids # {}
    BY <1>1, <2>1
  <2> QED BY <2>1, <2>2, LastIsGreatest
<1>4. x \in All
  <2> HIDE DEF All
  <2>1. CASE ids = {}
    BY <1>1, <2>1 DEF LastOf
  <2>2. CASE ids # {}
    BY <1>1, <1>3, <2>2
  <2> QED BY <2>1, <2>2
<1> HIDE DEF x
<1>5. p \in Worker
  <2>1. "send" \in Stages /\ {x} \in SUBSET All
    BY <1>4 DEF Stages
  <2> QED BY <1>0, <2>1 DEF Worker
<1>6. /\ p.stage = "send" /\ p.answer = {x} /\ p.req = q.req /\ ~ p.reload
      /\ p.cache = q.cache /\ p.index = q.index /\ p.heap = q.heap
      /\ p.exposed = q.exposed /\ p.tainted = q.tainted
  BY <1>0 DEF Worker
<1> HIDE DEF p
<1>7. Shape(p)
  BY <1>5, <1>6, ShapeIdle
<1>8. /\ Shape(r) /\ Same(p, r) /\ r.stage = p.stage /\ r.exposed = p.exposed
      /\ (r.tainted <=> p.tainted \/ ~ ok)
  BY <1>5, <1>7, MarkedShape, MarksAre
<1> HIDE DEF r
<1> QED BY <1>1, <1>2, <1>3, <1>6, <1>8 DEF Same, r, p, x, rows

\* ... the reload after the answer, or the end,
Reloading(q) == [q EXCEPT !.stage = "countSites", !.reload = TRUE, !.local = <<>>,
                          !.tainted = FALSE, !.answer = {}, !.i = 0, !.j = 0]

\* The worker when the answer is sent, or the connection is gone.
LEMMA SentIs ==
    ASSUME NEW q, Shape(q), q.stage = "send"
    PROVE  /\ LET r == Reloading(q) IN
              /\ Shape(r) /\ r.stage = "countSites" /\ r.reload /\ r.cache = q.cache
              /\ r.index = q.index /\ r.heap = q.heap /\ r.exposed = q.exposed /\ ~ r.tainted
           /\ LET r == Failed(Idle(q), FALSE) IN
              /\ Shape(r) /\ r.stage = "idle" /\ r.answer = {} /\ ~ r.reload /\ r.cache = q.cache
              /\ r.index = q.index /\ r.heap = q.heap /\ r.exposed = q.exposed /\ r.tainted
<1>0. q \in Worker
  BY DEF Shape
<1> DEFINE p == [q EXCEPT !.stage = "countSites", !.reload = TRUE, !.tainted = FALSE]
           r == [p EXCEPT !.local = <<>>, !.answer = {}, !.i = 0, !.j = 0]
           s == Idle(q)
           t == Failed(s, FALSE)
<1>1. Reloading(q) = r
  BY DEF Reloading
<1>2. p \in Worker
  <2>1. "countSites" \in Stages
    BY DEF Stages, Counts
  <2> QED BY <1>0, <2>1 DEF Worker
<1>3. /\ p.stage = "countSites" /\ p.reload /\ p.cache = q.cache
      /\ p.index = q.index /\ p.heap = q.heap /\ p.exposed = q.exposed /\ ~ p.tainted
  BY <1>0 DEF Worker
<1> HIDE DEF p
<1>4. r \in Worker
  <2>1. <<>> \in Seq(SiteSlots)
    OBVIOUS
  <2> QED BY <1>2, <2>1 DEF Worker
<1>5. /\ r.stage = "countSites" /\ r.reload /\ r.cache = q.cache
      /\ r.index = q.index /\ r.heap = q.heap /\ r.exposed = q.exposed /\ ~ r.tainted
  BY <1>2, <1>3 DEF Worker
<1> HIDE DEF r
<1>6. Shape(r)
  BY <1>4, <1>5 DEF Shape, OfForms, OfFields, OfErasure, Deletes, Counts, Selects
<1>7. /\ s \in Worker /\ s.stage = "idle" /\ s.answer = {} /\ ~ s.reload /\ s.cache = q.cache
      /\ s.index = q.index /\ s.heap = q.heap /\ s.exposed = q.exposed
  BY <1>0, IdleIs
<1> HIDE DEF s
<1>8. Shape(s)
  BY <1>7, ShapeIdle
<1>9. /\ Shape(t) /\ Same(s, t) /\ t.stage = s.stage /\ t.exposed = s.exposed /\ t.tainted
  BY <1>7, <1>8, MarkedShape, MarksAre
<1> HIDE DEF t
<1> QED BY <1>1, <1>5, <1>6, <1>7, <1>9 DEF Same, r, s, t

\* ... and the steps of the deletion of a site.
LEMMA ErasedIs ==
    ASSUME NEW q, Shape(q), NEW ok \in BOOLEAN
    PROVE  /\ q.stage = "deleteFields" =>
                LET r == Failed([q EXCEPT !.stage = "deleteForm"], ok) IN
                /\ Shape(r) /\ Same(q, r) /\ r.stage = "deleteForm"
                /\ r.exposed = q.exposed /\ (r.tainted <=> q.tainted \/ ~ ok)
           /\ q.stage = "deleteForm" =>
                LET r == Failed(NextDelete(q), ok) IN
                /\ Shape(r) /\ r.req = q.req /\ r.reload = q.reload /\ r.cache = q.cache
                /\ r.index = q.index /\ r.local = q.local /\ r.heap = q.heap
                /\ r.exposed = q.exposed /\ (r.tainted <=> q.tainted \/ ~ ok)
                /\ \/ /\ r.stage = "deleteFields" /\ r.j = q.j + 1
                   \/ /\ r.stage = "deleteSite" /\ ~ (q.j < Len(q.local[1].forms))
           /\ q.stage = "deleteSite" =>
                LET r == Failed([q EXCEPT !.stage = "send"], ok) IN
                /\ Shape(r) /\ Same(q, r) /\ r.stage = "send"
                /\ r.exposed = q.exposed /\ (r.tainted <=> q.tainted \/ ~ ok)
<1>0. q \in Worker
  BY DEF Shape
<1>1. ASSUME NEW stage \in {"deleteForm", "send"},
             q.stage \in {"deleteFields", "deleteSite"},
             stage = "deleteForm" => q.stage = "deleteFields"
      PROVE  LET r == Failed([q EXCEPT !.stage = stage], ok) IN
             /\ Shape(r) /\ Same(q, r) /\ r.stage = stage
             /\ r.exposed = q.exposed /\ (r.tainted <=> q.tainted \/ ~ ok)
  <2> DEFINE p == [q EXCEPT !.stage = stage]
             r == Failed(p, ok)
  <2>1. stage \in Stages
    BY DEF Stages, Deletes
  <2>2. /\ p \in Worker /\ Same(q, p) /\ p.stage = stage
        /\ p.exposed = q.exposed /\ p.tainted = q.tainted
    BY <1>0, <2>1, StageIs
  <2> HIDE DEF p
  <2>3. /\ ~ p.reload /\ SiteDelete(p.req) /\ Len(p.local) = 1
        /\ p.stage = "deleteForm" => p.j \in 1 .. Len(p.local[1].forms)
    BY <1>1, <2>2 DEF Same, Shape, OfErasure, Deletes, Counts, Selects
  <2>4. Shape(p)
    BY <2>2, <2>3 DEF Shape, OfForms, OfFields, OfErasure, Deletes, Counts, Selects
  <2>5. /\ Shape(r) /\ Same(p, r) /\ r.stage = p.stage /\ r.exposed = p.exposed
        /\ (r.tainted <=> p.tainted \/ ~ ok)
    BY <2>2, <2>4, MarkedShape, MarksAre
  <2> HIDE DEF r
  <2> QED BY <2>2, <2>5 DEF Same, r, p
<1>2. ASSUME q.stage = "deleteForm"
      PROVE  LET r == Failed(NextDelete(q), ok) IN
             /\ Shape(r) /\ r.req = q.req /\ r.reload = q.reload /\ r.cache = q.cache
             /\ r.index = q.index /\ r.local = q.local /\ r.heap = q.heap
             /\ r.exposed = q.exposed /\ (r.tainted <=> q.tainted \/ ~ ok)
             /\ \/ /\ r.stage = "deleteFields" /\ r.j = q.j + 1
                \/ /\ r.stage = "deleteSite" /\ ~ (q.j < Len(q.local[1].forms))
  <2> DEFINE p == NextDelete(q)
             r == Failed(p, ok)
  <2>1. /\ p \in Worker /\ p.req = q.req /\ p.reload = q.reload /\ p.cache = q.cache
        /\ p.index = q.index /\ p.local = q.local /\ p.heap = q.heap
        /\ p.exposed = q.exposed /\ p.tainted = q.tainted
        /\ \/ /\ p.stage = "deleteFields"
              /\ q.j < Len(q.local[1].forms) /\ p.j = q.j + 1
           \/ /\ p.stage = "deleteSite"
              /\ ~ (q.j < Len(q.local[1].forms))
    BY <1>0, NextDeleteIs
  <2> HIDE DEF p
  <2>2. ~ q.reload /\ SiteDelete(q.req) /\ Len(q.local) = 1 /\ q.j \in 1 .. Len(q.local[1].forms)
    BY <1>2 DEF Shape, OfErasure, Deletes, Counts, Selects
  <2>3. p.stage = "deleteFields" => p.j \in 1 .. Len(p.local[1].forms)
    BY <2>1, <2>2
  <2>4. Shape(p)
    BY <2>1, <2>2, <2>3 DEF Shape, OfForms, OfFields, OfErasure, Deletes, Counts, Selects
  <2>5. /\ Shape(r) /\ Same(p, r) /\ r.stage = p.stage /\ r.exposed = p.exposed
        /\ (r.tainted <=> p.tainted \/ ~ ok)
    BY <2>1, <2>4, MarkedShape, MarksAre
  <2> HIDE DEF r
  <2> QED BY <2>1, <2>5 DEF Same, r, p
<1>3. q.stage = "deleteFields" =>
        LET r == Failed([q EXCEPT !.stage = "deleteForm"], ok) IN
        /\ Shape(r) /\ Same(q, r) /\ r.stage = "deleteForm"
        /\ r.exposed = q.exposed /\ (r.tainted <=> q.tainted \/ ~ ok)
  <2> SUFFICES ASSUME q.stage = "deleteFields"
               PROVE  LET r == Failed([q EXCEPT !.stage = "deleteForm"], ok) IN
                      /\ Shape(r) /\ Same(q, r) /\ r.stage = "deleteForm"
                      /\ r.exposed = q.exposed /\ (r.tainted <=> q.tainted \/ ~ ok)
    OBVIOUS
  <2>1. "deleteForm" \in {"deleteForm", "send"} /\ q.stage \in {"deleteFields", "deleteSite"}
    OBVIOUS
  <2> QED BY <1>1, <2>1, Zenon
<1>4. q.stage = "deleteSite" =>
        LET r == Failed([q EXCEPT !.stage = "send"], ok) IN
        /\ Shape(r) /\ Same(q, r) /\ r.stage = "send"
        /\ r.exposed = q.exposed /\ (r.tainted <=> q.tainted \/ ~ ok)
  BY <1>1, "send" \in {"deleteForm", "send"}
<1> QED BY <1>2, <1>3, <1>4

-------------------------------------------------------------------------------
(* A worker's steps, each on its own: it becomes r and the tables d.        *)

Receives(q, d, r) ==
    q.stage = "idle" /\ d = db /\ \E req \in Writes \cup Reads : r = Received(q, req)
Executes(q, d, r) ==
    /\ q.stage = "statement"
    /\ \E ok \in BOOLEAN, stage \in {"readBack", "send"} :
          /\ d = IF ok /\ q.req.verb # "other" THEN Statement(db, q.req) ELSE db
          /\ r = Failed([q EXCEPT !.stage = stage], ok)
          /\ stage = "readBack" =>
               ok /\ q.req.verb = "add" /\ q.req.id \notin DOMAIN db[q.req.table]
Answers(q, d, r) ==
    /\ q.stage = "readBack" /\ d = db
    /\ \E ok \in BOOLEAN :
          r = Failed([q EXCEPT !.stage = "send",
                               !.answer = {LastOf(q, IF ok THEN RowsLike(db, q.req) ELSE {})}], ok)
Counting(q, d, r) ==
    /\ d = db
    /\ \E ok \in BOOLEAN : \/ q.stage = "countSites" /\ r = CountSites(q, ok)
                           \/ q.stage = "countForms" /\ r = CountForms(q, ok)
                           \/ q.stage = "countFields" /\ r = CountFields(q, ok)
Selecting(q, d, r) ==
    /\ d = db
    /\ \E ok \in BOOLEAN : \/ q.stage = "selectSites" /\ r = SelectSites(q, ok)
                           \/ q.stage = "selectForms" /\ r = SelectForms(q, ok)
                           \/ q.stage = "selectFields" /\ r = SelectFields(q, ok)
Erases(q, d, r) ==
    \E ok \in BOOLEAN :
        \/ /\ q.stage = "deleteFields"
           /\ d = IF ok THEN DeleteField4Form(db, q.local[1].forms[q.j].id) ELSE db
           /\ r = Failed([q EXCEPT !.stage = "deleteForm"], ok)
        \/ /\ q.stage = "deleteForm"
           /\ d = IF ok THEN DeleteFormPolicy(db, q.local[1].forms[q.j].id) ELSE db
           /\ r = Failed(NextDelete(q), ok)
        \/ /\ q.stage = "deleteSite"
           /\ d = IF ok THEN DeleteSiteRow(db, q.req.id) ELSE db
           /\ r = Failed([q EXCEPT !.stage = "send"], ok)
Sends(q, d, r) ==
    q.stage = "send" /\ d = db /\ (r = Reloading(q) \/ r = Failed(Idle(q), FALSE))
Dies(d, r) == d = db /\ r = [Fresh(boot) EXCEPT !.tainted = TRUE]

StepOf(q, d, r) ==
    \/ Receives(q, d, r) \/ Executes(q, d, r) \/ Answers(q, d, r)
    \/ Counting(q, d, r) \/ Selecting(q, d, r) \/ Erases(q, d, r)
    \/ Sends(q, d, r) \/ Dies(d, r)

\* The same for the form of a site.
LEMMA FormErasedIs ==
    ASSUME NEW q, Shape(q), NEW ok \in BOOLEAN, q.stage = "deleteForm"
    PROVE  LET e == Failed(NextDelete(q), ok) IN
           /\ e.req = q.req /\ e.reload = q.reload /\ e.local = q.local
           /\ (e.tainted <=> q.tainted \/ ~ ok)
           /\ \/ e.stage = "deleteFields" /\ e.j = q.j + 1
              \/ e.stage = "deleteSite" /\ ~ (q.j < Len(q.local[1].forms))
<1> DEFINE e == Failed(NextDelete(q), ok)
<1>1. e.req = q.req /\ e.reload = q.reload /\ e.local = q.local
  BY ZenonT(30), ErasedIs
<1>2. e.tainted <=> q.tainted \/ ~ ok
  BY ErasedIs
<1>3. \/ e.stage = "deleteFields" /\ e.j = q.j + 1
      \/ e.stage = "deleteSite" /\ ~ (q.j < Len(q.local[1].forms))
  BY ErasedIs
<1> QED BY <1>1, <1>2, <1>3

\* A step of the system is a step of one worker.
LEMMA NextIs ==
    ASSUME Next, SituationsAssumption, requests \in 0 .. situation.requests,
           situation \in Situations
    PROVE  /\ requests' \in 0 .. situation.requests
           /\ \E w \in Workers : \E d, r : Step(w, d, r) /\ StepOf(worker[w], d, r)
<1>1. PICK w \in Workers :
         \/ \E req \in Writes \cup Reads : Receive(w, req)
         \/ Work(w)
         \/ Die(w)
  BY DEF Next
<1> DEFINE q == worker[w]
           Goal == /\ requests' \in 0 .. situation.requests
                   /\ \E d, r : Step(w, d, r) /\ StepOf(q, d, r)
<1>2. ASSUME NEW req \in Writes \cup Reads, Receive(w, req) PROVE Goal
  <2>1. q.stage = "idle" /\ Step(w, db, Received(q, req))
    BY <1>2 DEF Receive, Received
  <2>2. requests' \in 0 .. situation.requests
    <3>1. requests < situation.requests /\ requests' = requests + 1
      BY <1>2 DEF Receive
    <3>2. situation.requests \in Nat
      BY DEF SituationsAssumption
    <3> QED BY <3>1, <3>2
  <2>3. Receives(q, db, Received(q, req))
    BY <2>1 DEF Receives
  <2> QED BY <2>1, <2>2, <2>3 DEF StepOf
<1>3. ASSUME Die(w) PROVE Goal
  <2>1. Step(w, db, [Fresh(boot) EXCEPT !.tainted = TRUE]) /\ requests' = requests
    BY <1>3 DEF Die
  <2>2. Dies(db, [Fresh(boot) EXCEPT !.tainted = TRUE])
    BY DEF Dies
  <2> QED BY <2>1, <2>2 DEF StepOf
<1>4. ASSUME Work(w) PROVE Goal
  <2>0. requests' = requests
    BY <1>4 DEF Work
  <2>a. \A ok \in Outcomes : ok \in BOOLEAN
    BY DEF Outcomes
  <2>1. ASSUME Execute(w) PROVE \E d, r : Step(w, d, r) /\ StepOf(q, d, r)
    <3>1. PICK ok \in Outcomes :
            Step(w, IF ok /\ q.req.verb # "other" THEN Statement(db, q.req) ELSE db,
                 Failed([q EXCEPT !.stage =
                    IF ok /\ q.req.verb = "add" /\ q.req.id \notin DOMAIN db[q.req.table]
                    THEN "readBack" ELSE "send"], ok))
      BY <2>1 DEF Execute
    <3> DEFINE d == IF ok /\ q.req.verb # "other" THEN Statement(db, q.req) ELSE db
               added == ok /\ q.req.verb = "add" /\ q.req.id \notin DOMAIN db[q.req.table]
               stage == IF added THEN "readBack" ELSE "send"
               r == Failed([q EXCEPT !.stage = stage], ok)
    <3>2. q.stage = "statement" /\ ok \in BOOLEAN
      BY <2>1, <2>a DEF Execute
    <3>3. stage \in {"readBack", "send"} /\ (stage = "readBack" => added)
      OBVIOUS
    <3>4. Executes(q, d, r)
      <4> HIDE DEF stage
      <4> QED BY <3>2, <3>3 DEF Executes
    <3>5. Step(w, d, r)
      BY <3>1
    <3> HIDE DEF d, r
    <3> QED BY <3>4, <3>5 DEF StepOf
  <2>2. ASSUME ReadBack(w) PROVE \E d, r : Step(w, d, r) /\ StepOf(q, d, r)
    <3>1. PICK ok \in Outcomes :
            Step(w, db, Failed([q EXCEPT !.stage = "send",
                 !.answer = {LastOf(q, IF ok THEN RowsLike(db, q.req) ELSE {})}], ok))
      BY <2>2 DEF ReadBack, LastOf
    <3> DEFINE r == Failed([q EXCEPT !.stage = "send",
                    !.answer = {LastOf(q, IF ok THEN RowsLike(db, q.req) ELSE {})}], ok)
    <3>2. q.stage = "readBack" /\ ok \in BOOLEAN
      BY <2>2, <2>a DEF ReadBack
    <3>3. Answers(q, db, r)
      BY <3>2 DEF Answers
    <3>4. Step(w, db, r)
      BY <3>1
    <3> HIDE DEF r
    <3> QED BY <3>3, <3>4 DEF StepOf
  <2>3. ASSUME Read(w) PROVE \E d, r : Step(w, d, r) /\ StepOf(q, d, r)
    <3>1. PICK r : Step(w, db, r) /\ (Counting(q, db, r) \/ Selecting(q, db, r))
      BY <2>3, <2>a DEF Read, Counting, Selecting
    <3> QED BY <3>1 DEF StepOf
  <2>4. ASSUME DeleteSitePolicy(w) PROVE \E d, r : Step(w, d, r) /\ StepOf(q, d, r)
    <3>1. PICK d, r : Step(w, d, r) /\ Erases(q, d, r)
      BY <2>4, <2>a DEF DeleteSitePolicy, Erases
    <3> QED BY <3>1 DEF StepOf
  <2>5. ASSUME Send(w) PROVE \E d, r : Step(w, d, r) /\ StepOf(q, d, r)
    <3>1. PICK r : Step(w, db, r) /\ Sends(q, db, r)
      BY <2>5, <2>a DEF Send, Sends, Reloading
    <3> QED BY <3>1 DEF StepOf
  <2> HIDE DEF q
  <2>6. \E d, r : Step(w, d, r) /\ StepOf(q, d, r)
    BY <1>4, <2>1, <2>2, <2>3, <2>4, <2>5 DEF Work
  <2> QED BY <2>0, <2>6
<1> QED BY <1>1, <1>2, <1>3, <1>4

\* The type invariant, with what a worker has to hold at each statement.
Typed == TypeOK /\ situation \in Situations /\ \A w \in Workers : Shape(worker[w])

\* A step keeps the types of the database and of the worker that takes it.
LEMMA StepTyped ==
    ASSUME db \in Database, boot \in Seq(SiteSlots), NEW q, Shape(q), NEW d, NEW r, StepOf(q, d, r)
    PROVE  d \in Database /\ Shape(r)
<1>1. CASE Receives(q, d, r)
  BY <1>1, ReceivedIs DEF Receives
<1>2. CASE Executes(q, d, r)
  <2>1. PICK ok \in BOOLEAN, stage \in {"readBack", "send"} :
           /\ d = IF ok /\ q.req.verb # "other" THEN Statement(db, q.req) ELSE db
           /\ r = Failed([q EXCEPT !.stage = stage], ok)
           /\ stage = "readBack" => q.req.verb = "add"
    BY <1>2 DEF Executes
  <2>2. q.stage = "statement" /\ (q.req.verb = "other" \/ Single(q.req))
    BY <1>2 DEF Executes, Shape
  <2>3. Shape(r)
    BY <2>1, <2>2, ExecutedIs
  <2>4. CASE ok /\ q.req.verb # "other"
    BY <2>1, <2>2, <2>3, <2>4, StatementIs
  <2> QED BY <2>1, <2>3, <2>4
<1>3. CASE Answers(q, d, r)
  <2>1. PICK ok \in BOOLEAN :
          r = Failed([q EXCEPT !.stage = "send",
                               !.answer = {LastOf(q, IF ok THEN RowsLike(db, q.req) ELSE {})}], ok)
    BY <1>3 DEF Answers
  <2>2. q.stage = "readBack" /\ d = db
    BY <1>3 DEF Answers
  <2> QED BY <2>1, <2>2, AnsweredIs
<1>4. CASE Counting(q, d, r)
  BY <1>4, ShapeCounts DEF Counting
<1>5. CASE Selecting(q, d, r)
  BY <1>5, ShapeSelects DEF Selecting
<1>6. CASE Erases(q, d, r)
  <2>1. PICK ok \in BOOLEAN :
        \/ /\ q.stage = "deleteFields"
           /\ d = IF ok THEN DeleteField4Form(db, q.local[1].forms[q.j].id) ELSE db
           /\ r = Failed([q EXCEPT !.stage = "deleteForm"], ok)
        \/ /\ q.stage = "deleteForm"
           /\ d = IF ok THEN DeleteFormPolicy(db, q.local[1].forms[q.j].id) ELSE db
           /\ r = Failed(NextDelete(q), ok)
        \/ /\ q.stage = "deleteSite"
           /\ d = IF ok THEN DeleteSiteRow(db, q.req.id) ELSE db
           /\ r = Failed([q EXCEPT !.stage = "send"], ok)
    BY <1>6 DEF Erases
  <2>2. d \in Database
    BY <2>1, DeletesIs
  <2>3. Shape(r)
    BY <2>1, ErasedIs
  <2> QED BY <2>2, <2>3
<1>7. CASE Sends(q, d, r)
  BY <1>7, SentIs DEF Sends
<1>8. CASE Dies(d, r)
  BY <1>8, FreshIs DEF Dies
<1> QED BY <1>1, <1>2, <1>3, <1>4, <1>5, <1>6, <1>7, <1>8 DEF StepOf

\* What a step of another worker leaves as it is.
LEMMA DisturbedIs ==
    ASSUME NEW q, Shape(q), NEW d
    PROVE  LET r == Disturbed(q, d) IN
           /\ Shape(r) /\ Same(q, r) /\ r.stage = q.stage
           /\ (r.tainted <=> q.tainted \/ d # db)
           /\ (r.exposed <=> q.exposed \/ (d # db /\ q.stage \in Selects))
<1> DEFINE r == Disturbed(q, d)
<1>0. q \in Worker
  BY DEF Shape
<1>1. CASE d = db
  <2>1. r = q
    BY <1>1 DEF Disturbed
  <2> HIDE DEF r
  <2> QED BY <1>1, <2>1 DEF Same, r
<1>2. CASE d # db
  <2>1. r = [q EXCEPT !.tainted = TRUE, !.exposed = q.exposed \/ q.stage \in Selects]
    BY <1>2 DEF Disturbed
  <2> HIDE DEF r
  <2>2. r \in Worker
    <3>1. (q.exposed \/ q.stage \in Selects) \in BOOLEAN
      OBVIOUS
    <3> QED BY <1>0, <2>1, <3>1 DEF Worker
  <2>3. /\ Same(q, r) /\ r.stage = q.stage /\ r.tainted
        /\ (r.exposed <=> q.exposed \/ q.stage \in Selects)
    BY <1>0, <2>1 DEF Worker, Same
  <2>4. Shape(r)
    BY <2>2, <2>3, SameShape
  <2> QED BY <1>2, <2>3, <2>4 DEF r
<1> QED BY <1>1, <1>2

\* What the invariant says of a step: a worker makes it, and the other workers
\* are at most disturbed.
LEMMA StepIs ==
    ASSUME Typed, SituationsAssumption, Next
    PROVE  /\ Typed'
           /\ \E w \in Workers :
                /\ Shape(worker[w]) /\ Shape(worker'[w]) /\ db' \in Database
                /\ StepOf(worker[w], db', worker'[w])
                /\ \A v \in Workers : v # w => worker'[v] = Disturbed(worker[v], db')
                /\ boot' = boot
<1>0. /\ db \in Database /\ boot \in Seq(SiteSlots) /\ requests \in 0 .. situation.requests
      /\ situation \in Situations /\ \A w \in Workers : Shape(worker[w])
  BY DEF Typed, TypeOK
<1>1. /\ requests' \in 0 .. situation.requests
      /\ \E w \in Workers : \E d, r : Step(w, d, r) /\ StepOf(worker[w], d, r)
  BY <1>0, NextIs
<1> PICK w \in Workers : \E d, r : Step(w, d, r) /\ StepOf(worker[w], d, r)
  BY <1>1
<1>2. PICK d, r : Step(w, d, r) /\ StepOf(worker[w], d, r)
  OBVIOUS
<1>3. d \in Database /\ Shape(r) /\ Shape(worker[w])
  BY <1>0, <1>2, StepTyped
<1>4. /\ db' = d /\ worker' = [v \in Workers |-> IF v = w THEN r ELSE Disturbed(worker[v], d)]
      /\ boot' = boot /\ situation' = situation
  BY <1>2 DEF Step
<1>5. \A v \in Workers : Shape(worker'[v])
  <2> SUFFICES ASSUME NEW v \in Workers PROVE Shape(worker'[v])
    OBVIOUS
  <2>1. Shape(Disturbed(worker[v], d))
    BY <1>0, DisturbedIs
  <2> QED BY <1>3, <1>4, <2>1
<1>6. worker' \in [Workers -> Worker]
  <2>1. \A v \in Workers : worker'[v] \in Worker
    BY <1>5 DEF Shape
  <2>2. worker' = [v \in Workers |-> worker'[v]]
    BY <1>4
  <2> QED BY <2>1, <2>2
<1>7. Typed'
  BY <1>0, <1>1, <1>3, <1>4, <1>5, <1>6 DEF Typed, TypeOK
<1>8. /\ worker'[w] = r /\ \A v \in Workers : v # w => worker'[v] = Disturbed(worker[v], db')
  BY <1>4
<1>9. StepOf(worker[w], db', worker'[w]) /\ Shape(worker'[w])
  BY <1>2, <1>3, <1>4, <1>8
<1> QED BY <1>3, <1>4, <1>7, <1>8, <1>9

\* The types hold when the workers start.
LEMMA TypedInit ==
    ASSUME Init, SituationsAssumption
    PROVE  Typed
<1>1. /\ situation \in Situations /\ db = situation.file /\ boot = View(db) /\ requests = 0
      /\ worker = [w \in Workers |-> Fresh(boot)]
  BY DEF Init
<1>2. db \in Database /\ situation.requests \in Nat
  BY <1>1 DEF SituationsAssumption
<1>3. boot \in Seq(SiteSlots)
  BY <1>1, <1>2, ViewIs
<1>4. Shape(Fresh(boot))
  BY <1>3, FreshIs
<1>5. \A w \in Workers : Shape(worker[w])
  BY <1>1, <1>4
<1>6. worker \in [Workers -> Worker]
  BY <1>1, <1>4 DEF Shape
<1> QED BY <1>1, <1>2, <1>3, <1>5, <1>6 DEF Typed, TypeOK

\* The types hold always.
LEMMA TypedInv == Spec => []Typed
<1>1. Init => Typed
  BY TypedInit, SituationsAssumption
<1>2. Typed /\ [Next]_vars => Typed'
  <2> SUFFICES ASSUME Typed, [Next]_vars PROVE Typed'
    OBVIOUS
  <2>1. CASE Next
    BY <2>1, StepIs, SituationsAssumption
  <2>2. CASE UNCHANGED vars
    BY <2>2 DEF vars, Typed, TypeOK
  <2> QED BY <2>1, <2>2
<1> QED BY <1>1, <1>2, PTL DEF Spec

\* TypeOK for every set of workers, of ids and of circumstances: the statements
\* keep the columns of the tables, and what the loops index is in the lists they
\* index (policymanage.c).
THEOREM TypeCorrect == Spec => []TypeOK
BY TypedInv, PTL DEF Typed

-------------------------------------------------------------------------------
(* How the reading of a list goes on                                        *)

Kept(p, r) == /\ r.cache = p.cache /\ r.index = p.index /\ r.heap = p.heap
              /\ r.exposed = p.exposed
Remains(p, r) == r.req = p.req /\ r.reload = p.reload /\ r.local = p.local

\* The list is complete,
Ends(p, r) ==
    \/ p.reload /\ r.stage = "idle" /\ ~ r.reload /\ r.answer = {}
    \/ ~ p.reload /\ p.req.verb # "delete" /\ Remains(p, r) /\ r.stage = "send"
    \/ /\ ~ p.reload /\ p.req.verb = "delete" /\ Remains(p, r)
       /\ \/ r.stage = "deleteFields" /\ 0 < Len(p.local[1].forms) /\ r.j = 1
          \/ r.stage = "deleteSite" /\ ~ (0 < Len(p.local[1].forms))

\* comes to the next site, to the next form,
ToSite(p, r) ==
    \/ /\ p.i < Len(Held(p)) /\ Remains(p, r)
       /\ r.stage = "countForms" /\ r.i = p.i + 1
    \/ ~ (p.i < Len(Held(p))) /\ Ends(p, r)
ToForm(p, r) ==
    \/ /\ p.j < Len(Held(p)[p.i].forms) /\ Remains(p, r)
       /\ r.stage = "countFields" /\ r.j = p.j + 1 /\ r.i = p.i
    \/ ~ (p.j < Len(Held(p)[p.i].forms)) /\ ToSite(p, r)

\* Wherever the loading goes on to, what was loaded stays.
LEMMA GoesOn ==
    ASSUME NEW p \in Worker, NEW ok \in BOOLEAN
    PROVE  /\ LET r == Failed(Listed(p), ok) IN
              Kept(p, r) /\ Ends(p, r) /\ (r.tainted <=> p.tainted \/ ~ ok)
           /\ LET r == Failed(NextSite(p), ok) IN
              Kept(p, r) /\ ToSite(p, r) /\ (r.tainted <=> p.tainted \/ ~ ok)
           /\ LET r == Failed(NextForm(p), ok) IN
              Kept(p, r) /\ ToForm(p, r) /\ (r.tainted <=> p.tainted \/ ~ ok)
<1>1. ASSUME NEW l \in Worker
      PROVE  LET r == Failed(l, ok) IN
             /\ Same(l, r) /\ r.stage = l.stage /\ r.exposed = l.exposed
             /\ (r.tainted <=> l.tainted \/ ~ ok)
  BY MarksAre
<1>2. LET r == Failed(Listed(p), ok) IN
      Kept(p, r) /\ Ends(p, r) /\ (r.tainted <=> p.tainted \/ ~ ok)
  <2> DEFINE l == Listed(p)
             r == Failed(l, ok)
  <2>1. /\ l \in Worker /\ l.cache = p.cache /\ l.index = p.index /\ l.heap = p.heap
        /\ l.exposed = p.exposed /\ l.tainted = p.tainted /\ ~ l.reload
        /\ p.reload => l.stage = "idle" /\ l.answer = {}
        /\ ~ p.reload => l.req = p.req /\ l.local = p.local
        /\ ~ p.reload /\ p.req.verb # "delete" => l.stage = "send"
        /\ ~ p.reload /\ p.req.verb = "delete" =>
             \/ l.stage = "deleteFields" /\ 0 < Len(p.local[1].forms) /\ l.j = 1
             \/ l.stage = "deleteSite" /\ ~ (0 < Len(p.local[1].forms))
    BY ListedIs
  <2> HIDE DEF l
  <2>2. /\ Same(l, r) /\ r.stage = l.stage /\ r.exposed = l.exposed
        /\ (r.tainted <=> l.tainted \/ ~ ok)
    BY <1>1, <2>1
  <2> HIDE DEF r
  <2>3. Kept(p, r) /\ (r.tainted <=> p.tainted \/ ~ ok)
    BY <2>1, <2>2 DEF Kept, Same
  <2>4. p.reload \in BOOLEAN /\ l.reload \in BOOLEAN
    BY <2>1 DEF Worker
  <2>5. Ends(p, r)
    <3>1. CASE p.reload
      BY <2>1, <2>2, <3>1 DEF Ends, Same
    <3>2. CASE ~ p.reload
      <4>0. l.reload = p.reload
        BY <2>1, <2>4, <3>2
      <4>1. Remains(p, r)
        BY <2>1, <2>2, <3>2, <4>0 DEF Remains, Same
      <4> QED BY <2>1, <2>2, <3>2, <4>1 DEF Ends, Same
    <3> QED BY <3>1, <3>2
  <2> QED BY <2>3, <2>5 DEF r, l
<1>3. LET r == Failed(NextSite(p), ok) IN
      Kept(p, r) /\ ToSite(p, r) /\ (r.tainted <=> p.tainted \/ ~ ok)
  <2>1. CASE p.i < Len(Held(p))
    <3> DEFINE l == NextSite(p)
               r == Failed(l, ok)
    <3>1. /\ l \in Worker /\ l.cache = p.cache /\ l.index = p.index /\ l.heap = p.heap
          /\ l.exposed = p.exposed /\ l.tainted = p.tainted
          /\ l.stage = "countForms" /\ l.i = p.i + 1
          /\ l.req = p.req /\ l.reload = p.reload /\ l.local = p.local
      BY <2>1, NextSiteIs
    <3> HIDE DEF l
    <3>2. /\ Same(l, r) /\ r.stage = l.stage /\ r.exposed = l.exposed
          /\ (r.tainted <=> l.tainted \/ ~ ok)
      BY <1>1, <3>1
    <3> HIDE DEF r
    <3>3. Kept(p, r) /\ ToSite(p, r) /\ (r.tainted <=> p.tainted \/ ~ ok)
      BY <2>1, <3>1, <3>2 DEF Kept, ToSite, Remains, Same
    <3> QED BY <3>3 DEF r, l
  <2>2. CASE ~ (p.i < Len(Held(p)))
    <3>1. NextSite(p) = Listed(p)
      BY <2>2, NextSiteIs
    <3> QED BY <1>2, <2>2, <3>1 DEF ToSite
  <2> QED BY <2>1, <2>2
<1>4. LET r == Failed(NextForm(p), ok) IN
      Kept(p, r) /\ ToForm(p, r) /\ (r.tainted <=> p.tainted \/ ~ ok)
  <2>1. CASE p.j < Len(Held(p)[p.i].forms)
    <3> DEFINE l == NextForm(p)
               r == Failed(l, ok)
    <3>1. /\ l \in Worker /\ l.cache = p.cache /\ l.index = p.index /\ l.heap = p.heap
          /\ l.exposed = p.exposed /\ l.tainted = p.tainted
          /\ l.stage = "countFields" /\ l.j = p.j + 1 /\ l.i = p.i
          /\ l.req = p.req /\ l.reload = p.reload /\ l.local = p.local
      BY <2>1, NextFormIs
    <3> HIDE DEF l
    <3>2. /\ Same(l, r) /\ r.stage = l.stage /\ r.exposed = l.exposed
          /\ (r.tainted <=> l.tainted \/ ~ ok)
      BY <1>1, <3>1
    <3> HIDE DEF r
    <3>3. Kept(p, r) /\ ToForm(p, r) /\ (r.tainted <=> p.tainted \/ ~ ok)
      BY <2>1, <3>1, <3>2 DEF Kept, ToForm, Remains, Same
    <3> QED BY <3>3 DEF r, l
  <2>2. CASE ~ (p.j < Len(Held(p)[p.i].forms))
    <3>1. NextForm(p) = NextSite(p)
      BY <2>2, NextFormIs
    <3> QED BY <1>3, <2>2, <3>1 DEF ToForm
  <2> QED BY <2>1, <2>2
<1> QED BY <1>2, <1>3, <1>4

\* A count comes to the selection.
LEMMA CountingIs ==
    ASSUME db \in Database, NEW q, Shape(q), NEW d, NEW r, Counting(q, d, r)
    PROVE  r.stage \in Selects
<1>1. q \in Worker
  BY DEF Shape
<1>2. q.stage = "countForms" => q.i \in 1 .. Len(Held(q))
  BY DEF Shape, OfForms
<1>3. q.stage = "countFields" => q.i \in 1 .. Len(Held(q)) /\ q.j \in 1 .. Len(Held(q)[q.i].forms)
  BY DEF Shape, OfForms, OfFields
<1>4. r.stage = "selectSites" \/ r.stage = "selectForms" \/ r.stage = "selectFields"
  BY <1>1, <1>2, <1>3, CountSitesIs, CountFormsIs, CountFieldsIs DEF Counting
<1> QED BY <1>4 DEF Selects

\* A selection takes in the rows and goes on with the list.
LEMMA SelectsOn ==
    ASSUME db \in Database, NEW q, Shape(q), NEW d, NEW r, Selecting(q, d, r)
    PROVE  \E p \in Worker, ok \in BOOLEAN :
             /\ p.req = q.req /\ p.reload = q.reload
             /\ \/ r = Failed(Listed(p), ok) \/ r = Failed(NextSite(p), ok)
                \/ r = Failed(NextForm(p), ok)
<1>0. q \in Worker
  BY DEF Shape
<1>1. PICK ok \in BOOLEAN : \/ q.stage = "selectSites" /\ r = SelectSites(q, ok)
                            \/ q.stage = "selectForms" /\ r = SelectForms(q, ok)
                            \/ q.stage = "selectFields" /\ r = SelectFields(q, ok)
  BY DEF Selecting
<1>2. ASSUME q.stage = "selectSites", r = SelectSites(q, ok)
      PROVE  \E p \in Worker :
               /\ p.req = q.req /\ p.reload = q.reload
               /\ r = Failed(Listed(p), ok) \/ r = Failed(NextSite(p), ok)
  <2>1. PICK p \in Worker :
           /\ Beside(q, p)
           /\ SelectSites(q, ok) = Failed(IF q.reload THEN NextSite(p) ELSE Listed(p), ok)
    BY <1>0, SelectSitesIs
  <2>2. p.req = q.req /\ p.reload = q.reload
    BY <2>1 DEF Beside
  <2>3. CASE q.reload
    BY <1>2, <2>1, <2>2, <2>3
  <2>4. CASE ~ q.reload
    BY <1>2, <2>1, <2>2, <2>4
  <2> QED BY <2>3, <2>4
<1>3. ASSUME q.stage = "selectForms", r = SelectForms(q, ok)
      PROVE  \E p \in Worker :
               p.req = q.req /\ p.reload = q.reload /\ r = Failed(NextForm(p), ok)
  <2>1. q.i \in 1 .. Len(Held(q))
    BY <1>3 DEF Shape, OfForms
  <2>2. PICK p \in Worker : Beside(q, p) /\ SelectForms(q, ok) = Failed(NextForm(p), ok)
    BY <1>0, <2>1, SelectFormsIs
  <2> QED BY <1>3, <2>2 DEF Beside
<1>4. ASSUME q.stage = "selectFields", r = SelectFields(q, ok)
      PROVE  \E p \in Worker :
               p.req = q.req /\ p.reload = q.reload /\ r = Failed(NextForm(p), ok)
  <2>1. q.i \in 1 .. Len(Held(q)) /\ q.j \in 1 .. Len(Held(q)[q.i].forms)
    BY <1>4 DEF Shape, OfForms, OfFields
  <2>2. PICK p \in Worker : Beside(q, p) /\ SelectFields(q, ok) = Failed(NextForm(p), ok)
    BY <1>0, <2>1, SelectFieldsIs
  <2> QED BY <1>4, <2>2 DEF Beside
<1> QED BY <1>1, <1>2, <1>3, <1>4

\* How a selection of rows goes on.
LEMMA SelectingIs ==
    ASSUME db \in Database, NEW q, Shape(q), NEW d, NEW r, Selecting(q, d, r)
    PROVE  \/ r.stage \in {"countForms", "countFields", "deleteFields", "deleteSite"}
           \/ r.stage = "idle" /\ r.answer = {}
           \/ r.stage = "send" /\ r.req.verb # "add"
<1>0. q \in Worker
  BY DEF Shape
<1>2. PICK p \in Worker, ok \in BOOLEAN :
         /\ p.req = q.req /\ p.reload = q.reload
         /\ \/ r = Failed(Listed(p), ok) \/ r = Failed(NextSite(p), ok)
            \/ r = Failed(NextForm(p), ok)
  BY SelectsOn
<1>3. Ends(p, r) \/ ToSite(p, r) \/ ToForm(p, r)
  BY <1>2, GoesOn
<1>4. ~ q.reload => q.req.verb # "add"
  <2>1. q.stage \in Selects
    BY DEF Selecting, Selects
  <2> QED BY <2>1 DEF Shape, Listing, SiteDelete
<1>5. ASSUME Ends(p, r)
      PROVE  \/ r.stage \in {"deleteFields", "deleteSite"}
             \/ r.stage = "idle" /\ r.answer = {}
             \/ r.stage = "send" /\ r.req.verb # "add"
  BY <1>2, <1>4, <1>5 DEF Ends, Remains
<1> QED BY <1>3, <1>5 DEF ToSite, ToForm

-------------------------------------------------------------------------------
(* What an addition is answered                                             *)

Added(d, req) ==
    /\ req.table = "sites" => req.id \in DOMAIN d.sites
    /\ req.table = "forms" => req.id \in DOMAIN d.forms /\ d.forms[req.id] = req.row
    /\ req.table = "fields" =>
         /\ req.id \in DOMAIN d.fields
         /\ d.fields[req.id] = [req.row EXCEPT !.type = StoredType]
NamesRow(d, req, x) ==
    \/ x = req.id
    \/ /\ x > req.id
       /\ CASE req.table = "sites" -> d.sites[x].host = req.row.host
            [] req.table = "forms" -> d.forms[x] = req.row
            [] OTHER -> d.fields[x].form_id = req.row.form_id

\* Before the answer nothing is answered; what was added is read back.
Answering(q, d) ==
    /\ q.stage \in {"idle", "statement"} => q.answer = {}
    /\ q.stage = "readBack" /\ ~ q.tainted => Added(d, q.req)
    /\ q.stage = "send" /\ q.req.verb = "add" /\ ~ q.tainted =>
         \A x \in q.answer : NamesRow(d, q.req, x)

\* The row added is among those read back, and all of these say the same.
LEMMA ReadBackNames ==
    ASSUME NEW d \in Database, NEW req, Single(req), req.verb = "add", Added(d, req)
    PROVE  /\ req.id \in RowsLike(d, req)
           /\ \A x \in RowsLike(d, req) : x > req.id => NamesRow(d, req, x)
<1>0. req \in Writes /\ req.table \in {"sites", "forms", "fields"}
  BY WriteIs DEF Single
<1>1. CASE req.table = "sites"
  <2>1. /\ req.id \in RowsLike(d, req)
        /\ \A x \in RowsLike(d, req) : d.sites[x].host = req.row.host \/ x = req.id
    BY <1>1 DEF RowsLike, Added
  <2> QED BY <1>1, <2>1 DEF NamesRow
<1>2. CASE req.table = "forms"
  <2>1. req.row \in FormRow /\ \A x \in DOMAIN d.forms : d.forms[x] \in FormRow
    BY <1>0, <1>2, WriteIs, DatabaseIs, TableIs
  <2>2. /\ req.id \in RowsLike(d, req)
        /\ \A x \in RowsLike(d, req) : /\ x \in DOMAIN d.forms
                                       /\ d.forms[x].site_id = req.row.site_id
                                       /\ d.forms[x].url = req.row.url
    BY <1>2 DEF RowsLike, Added, FormsOf
  <2>3. \A a, b \in FormRow : a.site_id = b.site_id /\ a.url = b.url => a = b
    BY DEF FormRow
  <2>4. \A x \in RowsLike(d, req) : d.forms[x] = req.row
    BY <2>1, <2>2, <2>3
  <2> QED BY <1>2, <2>2, <2>4 DEF NamesRow
<1>3. CASE req.table = "fields"
  <2>1. req.row \in FieldRow
    BY <1>0, <1>3, WriteIs
  <2>2. LET row == [req.row EXCEPT !.type = StoredType] IN
        row.form_id = req.row.form_id /\ row.field_name = req.row.field_name
    BY <2>1 DEF FieldRow
  <2>3. /\ req.id \in RowsLike(d, req)
        /\ \A x \in RowsLike(d, req) : d.fields[x].form_id = req.row.form_id
    BY <1>3, <2>2 DEF RowsLike, Added, FieldsOf
  <2> QED BY <1>3, <2>3 DEF NamesRow
<1> QED BY <1>0, <1>1, <1>2, <1>3

\* A step keeps that the answer names a row of the request.
LEMMA StepAnswering ==
    ASSUME db \in Database, boot \in Seq(SiteSlots), NEW q, Shape(q), Answering(q, db),
           NEW d, NEW r, StepOf(q, d, r)
    PROVE  Answering(r, d)
<1>1. CASE Receives(q, d, r)
  <2>1. /\ r.answer = q.answer /\ q.stage = "idle"
        /\ r.stage \in {"countSites", "countForms", "countFields", "statement"}
    BY <1>1, ReceivedIs DEF Receives
  <2> QED BY <2>1 DEF Answering
<1>2. CASE Executes(q, d, r)
  <2>1. PICK ok \in BOOLEAN, stage \in {"readBack", "send"} :
           /\ d = IF ok /\ q.req.verb # "other" THEN Statement(db, q.req) ELSE db
           /\ r = Failed([q EXCEPT !.stage = stage], ok)
           /\ stage = "readBack" =>
                ok /\ q.req.verb = "add" /\ q.req.id \notin DOMAIN db[q.req.table]
    BY <1>2 DEF Executes
  <2>2. q.stage = "statement" /\ (q.req.verb = "other" \/ Single(q.req))
    BY <1>2 DEF Executes, Shape
  <2>3. Same(q, r) /\ r.stage = stage
    BY <2>1, <2>2, ExecutedIs
  <2>4. r.req = q.req /\ r.answer = {}
    BY <2>2, <2>3 DEF Same, Answering
  <2>5. ASSUME stage = "readBack" PROVE Added(d, q.req)
    <3>1. d = Statement(db, q.req) /\ Single(q.req) /\ q.req.verb = "add"
      BY <2>1, <2>2, <2>5
    <3>2. /\ q.req.table = "sites" => q.req.id \notin DOMAIN db.sites
          /\ q.req.table = "forms" => q.req.id \notin DOMAIN db.forms
          /\ q.req.table = "fields" => q.req.id \notin DOMAIN db.fields
      BY <2>1, <2>5
    <3> QED BY <3>1, <3>2, StatementIs DEF Added
  <2> QED BY <2>3, <2>4, <2>5 DEF Answering
<1>3. CASE Answers(q, d, r)
  <2>1. PICK ok \in BOOLEAN :
          r = Failed([q EXCEPT !.stage = "send",
                               !.answer = {LastOf(q, IF ok THEN RowsLike(db, q.req) ELSE {})}], ok)
    BY <1>3 DEF Answers
  <2>2. /\ q.stage = "readBack" /\ d = db /\ Single(q.req) /\ q.req.verb = "add"
    BY <1>3 DEF Answers, Shape
  <2> DEFINE ids == IF ok THEN RowsLike(db, q.req) ELSE {}
             x == LastOf(q, ids)
  <2>3. /\ r.stage = "send" /\ r.req = q.req /\ r.answer = {x}
        /\ (r.tainted <=> q.tainted \/ ~ ok)
        /\ ok => RowsLike(db, q.req) \in SUBSET Nat /\ q.req.id \in Nat
        /\ ids # {} => x \in ids /\ \A k \in ids : k <= x
    BY <2>1, <2>2, AnsweredIs
  <2>4. ASSUME ~ r.tainted PROVE NamesRow(d, q.req, x)
    <3>1. ok /\ ids = RowsLike(db, q.req) /\ Added(db, q.req)
      BY <2>2, <2>3, <2>4 DEF Answering
    <3> HIDE DEF ids, x
    <3>2. /\ q.req.id \in ids
          /\ \A y \in ids : y > q.req.id => NamesRow(db, q.req, y)
      BY <2>2, <3>1, ReadBackNames
    <3>3. x \in ids /\ q.req.id <= x /\ x \in Nat /\ q.req.id \in Nat
      BY <2>3, <3>1, <3>2
    <3>4. CASE x = q.req.id
      BY <3>4 DEF NamesRow
    <3>5. CASE x > q.req.id
      BY <2>2, <3>2, <3>3, <3>5
    <3> QED BY <3>3, <3>4, <3>5
  <2> HIDE DEF x
  <2> QED BY <2>3, <2>4 DEF Answering
<1>4. CASE Counting(q, d, r)
  <2>2. r.stage \in Selects
    BY <1>4, CountingIs
  <2> QED BY <2>2 DEF Answering, Selects
<1>5. CASE Selecting(q, d, r)
  <2>1. \/ r.stage \in {"countForms", "countFields", "deleteFields", "deleteSite"}
        \/ r.stage = "idle" /\ r.answer = {}
        \/ r.stage = "send" /\ r.req.verb # "add"
    BY <1>5, SelectingIs
  <2> QED BY <2>1 DEF Answering
<1>6. CASE Erases(q, d, r)
  <2>1. r.req = q.req /\ r.stage \in Deletes \cup {"send"}
    BY <1>6, ErasedIs DEF Erases, Same, Deletes
  <2>2. q.stage \in Deletes
    BY <1>6 DEF Erases, Deletes
  <2>3. q.req.verb = "delete"
    BY <2>2 DEF Shape, SiteDelete
  <2> QED BY <2>1, <2>3 DEF Answering, Deletes
<1>7. CASE Sends(q, d, r)
  <2>1. r.stage = "countSites" \/ (r.stage = "idle" /\ r.answer = {})
    BY <1>7, SentIs DEF Sends
  <2> QED BY <2>1 DEF Answering
<1>8. CASE Dies(d, r)
  <2>1. r.stage = "idle" /\ r.answer = {}
    BY <1>8, FreshIs DEF Dies
  <2> QED BY <2>1 DEF Answering
<1> QED BY <1>1, <1>2, <1>3, <1>4, <1>5, <1>6, <1>7, <1>8 DEF StepOf

\* A step of another worker does too.
LEMMA DisturbedAnswering ==
    ASSUME NEW q, Shape(q), Answering(q, db), NEW d
    PROVE  Answering(Disturbed(q, d), d)
<1> DEFINE r == Disturbed(q, d)
<1>1. Same(q, r) /\ r.stage = q.stage /\ (r.tainted <=> q.tainted \/ d # db)
  BY DisturbedIs
<1> HIDE DEF r
<1>2. Answering(r, d)
  BY <1>1 DEF Answering, Same
<1> QED BY <1>2 DEF r

\* So it holds always.
LEMMA AnsweringInv == Spec => [](Typed /\ \A w \in Workers : Answering(worker[w], db))
<1> DEFINE I == Typed /\ \A w \in Workers : Answering(worker[w], db)
<1>1. Init => I
  <2> SUFFICES ASSUME Init PROVE I
    OBVIOUS
  <2>1. Typed
    BY TypedInit, SituationsAssumption
  <2>2. boot \in Seq(SiteSlots) /\ worker = [w \in Workers |-> Fresh(boot)]
    BY <2>1 DEF Typed, TypeOK, Init
  <2>3. Answering(Fresh(boot), db)
    BY <2>2, FreshIs DEF Answering
  <2> QED BY <2>1, <2>2, <2>3
<1>2. I /\ [Next]_vars => I'
  <2> SUFFICES ASSUME I, [Next]_vars PROVE I'
    OBVIOUS
  <2>1. CASE Next
    <3>1. Typed' /\ db \in Database /\ boot \in Seq(SiteSlots)
      BY <2>1, StepIs, SituationsAssumption DEF Typed, TypeOK
    <3>2. PICK w \in Workers :
            /\ StepOf(worker[w], db', worker'[w])
            /\ \A v \in Workers : v # w => worker'[v] = Disturbed(worker[v], db')
      BY <2>1, StepIs, SituationsAssumption
    <3>3. \A v \in Workers : Shape(worker[v]) /\ Answering(worker[v], db)
      BY DEF Typed
    <3>4. ASSUME NEW v \in Workers PROVE Answering(worker'[v], db')
      <4>1. CASE v = w
        BY <3>1, <3>2, <3>3, <4>1, StepAnswering
      <4>2. CASE v # w
        <5>1. Answering(Disturbed(worker[v], db'), db')
          BY <3>3, DisturbedAnswering
        <5> QED BY <3>2, <4>2, <5>1
      <4> QED BY <4>1, <4>2
    <3> QED BY <3>1, <3>4
  <2>2. CASE UNCHANGED vars
    BY <2>2 DEF vars, Typed, TypeOK
  <2> QED BY <2>1, <2>2
<1> QED BY <1>1, <1>2, PTL DEF Spec

\* AnswerNamesRow for every set of workers and ids: unless something else came
\* between, an addition is answered with its id or with that of a later row that
\* says the same (AddSite, AddForm, AddField and what they read back).
THEOREM AnswerCorrect == Spec => []AnswerNamesRow
<1>1. ASSUME Typed, \A w \in Workers : Answering(worker[w], db)
      PROVE  AnswerNamesRow
  BY <1>1 DEF AnswerNamesRow, Answering, NamesRow
<1> QED BY <1>1, AnsweringInv, PTL

-------------------------------------------------------------------------------
(* Lists stay within their space                                            *)

\* Unless it was exposed, a worker has space for the rows it is about to read;
\* sites.index never points beyond the cache, and is 0 when the cache is read.
Within(q, d) ==
    /\ q.heap = "corrupt" => q.exposed
    /\ ~ q.exposed /\ q.stage = "selectSites" => Len(Held(q)) = Cardinality(DOMAIN d.sites)
    /\ ~ q.exposed /\ q.stage = "selectForms" =>
         Len(Held(q)[q.i].forms) = Cardinality(FormsOf(d, Held(q)[q.i].id))
    /\ ~ q.exposed /\ q.stage = "selectFields" =>
         LET form == Held(q)[q.i].forms[q.j] IN
         Len(form.fields) = Cardinality(FieldsOf(d, form.id))
    /\ q.heap = "ok" => IF q.reload /\ q.stage = "selectSites" THEN q.index = 0
                        ELSE q.index <= Len(q.cache)

\* A worker that is not about to read a list.
LEMMA WithinElsewhere ==
    ASSUME NEW r, r.stage \notin Selects, NEW d, r.heap = "corrupt" => r.exposed,
           r.heap = "ok" => r.index <= Len(r.cache)
    PROVE  Within(r, d)
BY DEF Within, Selects

\* Steps outside of the SELECT keep the counts as they are.
LEMMA KeptWithin ==
    ASSUME NEW q, NEW r, Within(q, db), q.stage \notin Selects, r.stage \notin Selects,
           r.heap = q.heap, r.index = q.index, r.cache = q.cache, r.exposed <=> q.exposed,
           NEW d
    PROVE  Within(r, d)
<1>1. /\ r.heap = "corrupt" => r.exposed
      /\ r.heap = "ok" => r.index <= Len(r.cache)
  BY DEF Within, Selects
<1> QED BY <1>1, WithinElsewhere

\* A COUNT allocates for the rows that are there.
LEMMA CountWithin ==
    ASSUME db \in Database, NEW q, Shape(q), Within(q, db), NEW d, NEW r, Counting(q, d, r)
    PROVE  Within(r, d)
<1>0. q \in Worker /\ d = db
  BY DEF Shape, Counting
<1>1. PICK ok \in BOOLEAN : \/ q.stage = "countSites" /\ r = CountSites(q, ok)
                            \/ q.stage = "countForms" /\ r = CountForms(q, ok)
                            \/ q.stage = "countFields" /\ r = CountFields(q, ok)
  BY DEF Counting
<1>2. CASE q.stage = "countSites" /\ r = CountSites(q, ok)
  <2> DEFINE n == SitesCounted(ok)
  <2>1. /\ r \in Worker /\ r.stage = "selectSites" /\ Beside(q, r) /\ r.heap = q.heap
        /\ (r.exposed <=> q.exposed \/ ~ ok)
        /\ r.index = IF q.reload /\ Len(q.cache) > 0 THEN 0 ELSE q.index
        /\ n \in Nat /\ Held(r) = Zeros(n, ZeroSite)
    BY <1>0, <1>2, CountSitesIs
  <2>2. Len(Held(r)) = n
    <3> HIDE DEF n
    <3> QED BY <2>1, ZerosIs, ZeroIs
  <2>3. ~ r.exposed => Len(Held(r)) = Cardinality(DOMAIN d.sites)
    BY <1>0, <2>1, <2>2 DEF SitesCounted
  <2>4. q.heap = "ok" => q.index <= Len(q.cache)
    BY <1>2 DEF Within
  <2>5. r.heap = "ok" /\ r.reload => r.index = 0
    <3>1. q.index \in Nat /\ Len(q.cache) \in Nat
      BY <1>0 DEF Worker
    <3>2. r.reload = q.reload
      BY <2>1 DEF Beside
    <3> QED BY <2>1, <2>4, <3>1, <3>2
  <2>6. r.heap = "ok" /\ ~ r.reload => r.index <= Len(r.cache)
    BY <2>1, <2>4 DEF Beside
  <2>7. r.heap = "corrupt" => r.exposed
    BY <2>1 DEF Within
  <2> QED BY <2>1, <2>3, <2>5, <2>6, <2>7 DEF Within
<1>3. CASE q.stage = "countForms" /\ r = CountForms(q, ok)
  <2> DEFINE n == FormsCounted(Held(q)[q.i].id, ok)
  <2>0. q.i \in 1 .. Len(Held(q))
    BY <1>3 DEF Shape, OfForms
  <2>1. /\ r.stage = "selectForms" /\ Beside(q, r) /\ r.heap = q.heap
        /\ (r.exposed <=> q.exposed \/ ~ ok) /\ r.index = q.index /\ r.i = q.i
        /\ n \in Nat /\ OneSite(Held(q), Held(r), q.i) /\ Held(r)[q.i].forms = Zeros(n, ZeroForm)
    BY <1>0, <1>3, <2>0, CountFormsIs
  <2>2. Len(Held(r)[r.i].forms) = n
    <3> HIDE DEF n
    <3> QED BY <2>1, ZerosIs, ZeroIs
  <2>3. ~ r.exposed => Len(Held(r)[r.i].forms) = Cardinality(FormsOf(d, Held(r)[r.i].id))
    BY <1>0, <2>1, <2>2 DEF FormsCounted, OneSite
  <2>4. Len(r.cache) = Len(q.cache) /\ r.reload = q.reload
    BY <2>1 DEF Beside, OneSite, Held
  <2>5. r.heap = "ok" => r.index <= Len(r.cache)
    BY <1>3, <2>1, <2>4 DEF Within
  <2>6. r.heap = "corrupt" => r.exposed
    BY <2>1 DEF Within
  <2> QED BY <2>1, <2>3, <2>5, <2>6 DEF Within
<1>4. CASE q.stage = "countFields" /\ r = CountFields(q, ok)
  <2> DEFINE form == Held(q)[q.i].forms[q.j]
             n == FieldsCounted(form.id, ok)
             fs == Zeros(n, ZeroField)
  <2>0. q.i \in 1 .. Len(Held(q)) /\ q.j \in 1 .. Len(Held(q)[q.i].forms)
    BY <1>4 DEF Shape, OfForms, OfFields
  <2>1. /\ r.stage = "selectFields" /\ Beside(q, r) /\ r.heap = q.heap
        /\ (r.exposed <=> q.exposed \/ ~ ok) /\ r.index = q.index /\ r.i = q.i /\ r.j = q.j
        /\ n \in Nat /\ OneForm(Held(q), Held(r), q.i, q.j, fs)
    BY <1>0, <1>4, <2>0, CountFieldsIs
  <2>2. Len(fs) = n
    <3> HIDE DEF n
    <3> QED BY <2>1, ZerosIs, SlotTypes
  <2>3. Held(r)[r.i].forms[r.j] = [form EXCEPT !.fields = fs]
    <3> HIDE DEF fs
    <3> QED BY <2>0, <2>1 DEF OneForm
  <2>4. form \in FormSlots
    BY <1>0, <2>0, HeldForm
  <2>5. [form EXCEPT !.fields = fs].id = form.id /\ [form EXCEPT !.fields = fs].fields = fs
    <3> HIDE DEF fs, form
    <3> QED BY <2>4 DEF FormSlots
  <2>6. ~ r.exposed => LET f == Held(r)[r.i].forms[r.j] IN
                       Len(f.fields) = Cardinality(FieldsOf(d, f.id))
    <3> HIDE DEF fs, form
    <3> QED BY <1>0, <2>1, <2>2, <2>3, <2>5 DEF FieldsCounted
  <2>7. Len(r.cache) = Len(q.cache) /\ r.reload = q.reload
    BY <2>1 DEF Beside, OneForm, OneSite, Held
  <2>8. r.heap = "ok" => r.index <= Len(r.cache)
    BY <1>4, <2>1, <2>7 DEF Within
  <2>9. r.heap = "corrupt" => r.exposed
    BY <2>1 DEF Within
  <2> QED BY <2>1, <2>6, <2>8, <2>9 DEF Within
<1> QED BY <1>1, <1>2, <1>3, <1>4

\* A selection does not come to another selection.
LEMMA LeavesSelects ==
    ASSUME NEW p, NEW r, Ends(p, r) \/ ToSite(p, r) \/ ToForm(p, r)
    PROVE  r.stage \notin Selects
BY DEF Ends, ToSite, ToForm, Selects

\* A SELECT fetches no more rows than there are.
LEMMA RowsFit ==
    ASSUME db \in Database, NEW ok \in BOOLEAN, NEW x
    PROVE  /\ Len(SitesFetched(ok)) <= Cardinality(DOMAIN db.sites)
           /\ Len(FormsFetched(x, ok)) <= Cardinality(FormsOf(db, x))
           /\ Len(FieldsFetched(x, ok)) <= Cardinality(FieldsOf(db, x))
           /\ Len(SitesFetched(ok)) \in Nat /\ Len(FormsFetched(x, ok)) \in Nat
           /\ Len(FieldsFetched(x, ok)) \in Nat
           /\ ok => /\ Len(SitesFetched(ok)) = Cardinality(DOMAIN db.sites)
                    /\ Len(FormsFetched(x, ok)) = Cardinality(FormsOf(db, x))
                    /\ Len(FieldsFetched(x, ok)) = Cardinality(FieldsOf(db, x))
<1>1. /\ Cardinality(DOMAIN db.sites) \in Nat /\ Len(SiteRows(db)) = Cardinality(DOMAIN db.sites)
      /\ Cardinality(FormsOf(db, x)) \in Nat /\ Len(FormRows(db, x)) = Cardinality(FormsOf(db, x))
      /\ Cardinality(FieldsOf(db, x)) \in Nat
      /\ Len(FieldRows(db, x)) = Cardinality(FieldsOf(db, x))
  BY SiteRowsIs, FormRowsIs, FieldRowsIs
<1>2. CASE ok
  BY <1>1, <1>2 DEF SitesFetched, FormsFetched, FieldsFetched
<1>3. CASE ~ ok
  BY <1>1, <1>3 DEF SitesFetched, FormsFetched, FieldsFetched
<1> QED BY <1>2, <1>3

\* Rows for which there are slots do not corrupt the heap.
LEMMA HeapStays ==
    ASSUME NEW q, NEW slots, NEW rows, Len(rows) <= Len(slots), Len(rows) \in Nat,
           Len(slots) \in Nat
    PROVE  Heap(q, slots, 0, rows) = q.heap
BY DEF Heap

\* A SELECT of an undisturbed worker stays within the slots.
LEMMA SelectWithin ==
    ASSUME db \in Database, NEW q, Shape(q), Within(q, db), NEW d, NEW r, Selecting(q, d, r)
    PROVE  Within(r, d)
<1>0. q \in Worker
  BY DEF Shape
<1>1. PICK ok \in BOOLEAN : \/ q.stage = "selectSites" /\ r = SelectSites(q, ok)
                            \/ q.stage = "selectForms" /\ r = SelectForms(q, ok)
                            \/ q.stage = "selectFields" /\ r = SelectFields(q, ok)
  BY DEF Selecting
<1>2. CASE q.stage = "selectSites" /\ r = SelectSites(q, ok)
  <2> DEFINE rows == SitesFetched(ok)
             slots == Held(q)
  <2>1. PICK p \in Worker :
           /\ Beside(q, p) /\ p.exposed = q.exposed
           /\ Held(p) = Fill(slots, From(q), rows)
           /\ p.heap = Heap(q, slots, From(q), rows)
           /\ q.reload => p.index = q.index + Len(rows)
           /\ SelectSites(q, ok) = Failed(IF q.reload THEN NextSite(p) ELSE Listed(p), ok)
    BY <1>0, SelectSitesIs
  <2>2. rows \in Seq(SiteSlots) /\ From(q) \in Nat /\ slots \in Seq(SiteSlots) /\ Len(rows) \in Nat
        /\ Len(slots) \in Nat
    BY <1>0, SelectSitesIs, HeldType
  <2>3. Kept(p, r) /\ (Ends(p, r) \/ ToSite(p, r))
    <3>1. CASE q.reload
      BY <1>2, <2>1, <3>1, GoesOn
    <3>2. CASE ~ q.reload
      BY <1>2, <2>1, <3>2, GoesOn
    <3> QED BY <3>1, <3>2
  <2>4. r.stage \notin Selects
    BY <2>3, LeavesSelects
  <2>5. Len(Held(p)) = Len(slots) /\ p.reload = q.reload
    <3> HIDE DEF rows, slots
    <3> QED BY <2>1, <2>2, FillIs DEF Beside
  <2>6. p.heap = "ok" => q.heap = "ok" /\ From(q) + Len(rows) <= Len(slots)
    <3> HIDE DEF rows, slots
    <3> QED BY <2>1, <2>2 DEF Heap
  <2>7. r.heap = "ok" => r.index <= Len(r.cache)
    <3> SUFFICES ASSUME p.heap = "ok" PROVE p.index <= Len(p.cache)
      BY <2>3 DEF Kept
    <3>1. CASE q.reload
      BY <2>1, <2>5, <2>6, <3>1 DEF From, Held
    <3>2. CASE ~ q.reload
      BY <1>2, <2>1, <2>6, <3>2 DEF Beside, Within
    <3> QED BY <3>1, <3>2
  <2>8. r.heap = "corrupt" => r.exposed
    <3> SUFFICES ASSUME p.heap = "corrupt", ~ q.exposed PROVE FALSE
      BY <2>1, <2>3 DEF Kept
    <3>1. q.heap = "ok"
      BY <1>0 DEF Within, Worker
    <3>2. From(q) = 0
      BY <1>2, <3>1 DEF Within, From
    <3>3. Len(slots) = Cardinality(DOMAIN db.sites)
      BY <1>2 DEF Within
    <3>4. Len(rows) <= Len(slots)
      BY <3>3, RowsFit
    <3> HIDE DEF rows, slots
    <3> QED BY <2>1, <2>2, <3>1, <3>2, <3>4, HeapStays
  <2> QED BY <2>4, <2>7, <2>8, WithinElsewhere
<1>3. CASE q.stage = "selectForms" /\ r = SelectForms(q, ok)
  <2> DEFINE slot == Held(q)[q.i]
             rows == FormsFetched(slot.id, ok)
  <2>0. q.i \in 1 .. Len(Held(q))
    BY <1>3 DEF Shape, OfForms
  <2>1. PICK p \in Worker :
           /\ Beside(q, p) /\ p.index = q.index /\ p.exposed = q.exposed
           /\ OneSite(Held(q), Held(p), q.i)
           /\ p.heap = Heap(q, slot.forms, 0, rows)
           /\ SelectForms(q, ok) = Failed(NextForm(p), ok)
    BY <1>0, <2>0, SelectFormsIs
  <2>2. Kept(p, r) /\ ToForm(p, r)
    BY <1>3, <2>1, GoesOn
  <2>3. r.stage \notin Selects
    BY <2>2, LeavesSelects
  <2>4. slot.forms \in Seq(FormSlots) /\ Len(slot.forms) \in Nat /\ Len(rows) \in Nat
    <3>1. slot.forms \in Seq(FormSlots)
      BY <1>0, <2>0, HeldForm
    <3>2. Len(rows) \in Nat
      BY RowsFit
    <3> HIDE DEF slot
    <3> QED BY <3>1, <3>2
  <2>5. Len(p.cache) = Len(q.cache)
    BY <2>1 DEF Beside, OneSite, Held
  <2>6. p.heap = "ok" => q.heap = "ok"
    BY <2>1 DEF Heap
  <2>7. r.heap = "ok" => r.index <= Len(r.cache)
    <3> SUFFICES ASSUME p.heap = "ok" PROVE p.index <= Len(p.cache)
      BY <2>2 DEF Kept
    <3> QED BY <1>3, <2>1, <2>5, <2>6 DEF Within
  <2>8. r.heap = "corrupt" => r.exposed
    <3> SUFFICES ASSUME p.heap = "corrupt", ~ q.exposed PROVE FALSE
      BY <2>1, <2>2 DEF Kept
    <3>1. q.heap = "ok"
      BY <1>0 DEF Within, Worker
    <3>2. Len(slot.forms) = Cardinality(FormsOf(db, slot.id))
      BY <1>3 DEF Within
    <3>3. Len(rows) <= Len(slot.forms)
      BY <3>2, RowsFit
    <3> HIDE DEF rows, slot
    <3> QED BY <2>1, <2>4, <3>1, <3>3, HeapStays
  <2> QED BY <2>3, <2>7, <2>8, WithinElsewhere
<1>4. CASE q.stage = "selectFields" /\ r = SelectFields(q, ok)
  <2> DEFINE slot == Held(q)[q.i].forms[q.j]
             rows == FieldsFetched(slot.id, ok)
  <2>0. q.i \in 1 .. Len(Held(q)) /\ q.j \in 1 .. Len(Held(q)[q.i].forms)
    BY <1>4 DEF Shape, OfForms, OfFields
  <2>1. PICK p \in Worker :
           /\ Beside(q, p) /\ p.index = q.index /\ p.exposed = q.exposed
           /\ OneForm(Held(q), Held(p), q.i, q.j, Fill(slot.fields, 0, rows))
           /\ p.heap = Heap(q, slot.fields, 0, rows)
           /\ SelectFields(q, ok) = Failed(NextForm(p), ok)
    BY <1>0, <2>0, SelectFieldsIs
  <2>2. Kept(p, r) /\ ToForm(p, r)
    BY <1>4, <2>1, GoesOn
  <2>3. r.stage \notin Selects
    BY <2>2, LeavesSelects
  <2>4. slot.fields \in Seq(FieldSlots) /\ Len(slot.fields) \in Nat /\ Len(rows) \in Nat
    BY <1>0, <2>0, HeldForm, RowsFit
  <2>5. Len(p.cache) = Len(q.cache)
    BY <2>1 DEF Beside, OneForm, OneSite, Held
  <2>6. p.heap = "ok" => q.heap = "ok"
    BY <2>1 DEF Heap
  <2>7. r.heap = "ok" => r.index <= Len(r.cache)
    <3> SUFFICES ASSUME p.heap = "ok" PROVE p.index <= Len(p.cache)
      BY <2>2 DEF Kept
    <3> QED BY <1>4, <2>1, <2>5, <2>6 DEF Within
  <2>8. r.heap = "corrupt" => r.exposed
    <3> SUFFICES ASSUME p.heap = "corrupt", ~ q.exposed PROVE FALSE
      BY <2>1, <2>2 DEF Kept
    <3>1. q.heap = "ok"
      BY <1>0 DEF Within, Worker
    <3>2. Len(slot.fields) = Cardinality(FieldsOf(db, slot.id))
      BY <1>4 DEF Within
    <3>3. Len(rows) <= Len(slot.fields)
      BY <3>2, RowsFit
    <3> HIDE DEF rows, slot
    <3> QED BY <2>1, <2>4, <3>1, <3>3, HeapStays
  <2> QED BY <2>3, <2>7, <2>8, WithinElsewhere
<1> QED BY <1>1, <1>2, <1>3, <1>4

\* A step keeps that only an exposed worker writes past its slots.
LEMMA StepWithin ==
    ASSUME db \in Database, boot \in Seq(SiteSlots), NEW q, Shape(q), Within(q, db),
           NEW d, NEW r, StepOf(q, d, r)
    PROVE  Within(r, d)
<1>1. CASE Receives(q, d, r)
  <2>1. /\ r.cache = q.cache /\ r.index = q.index /\ r.heap = q.heap /\ r.exposed = q.exposed
        /\ r.stage \in {"countSites", "countForms", "countFields", "statement"}
    BY <1>1, ReceivedIs DEF Receives
  <2>2. q.stage \notin Selects /\ r.stage \notin Selects
    BY <1>1, <2>1 DEF Receives, Selects
  <2> QED BY <2>1, <2>2, KeptWithin
<1>2. CASE Executes(q, d, r)
  <2>1. Same(q, r) /\ r.exposed = q.exposed /\ r.stage \in {"readBack", "send"}
    <3>1. PICK ok \in BOOLEAN, stage \in {"readBack", "send"} :
             /\ r = Failed([q EXCEPT !.stage = stage], ok)
             /\ stage = "readBack" => q.req.verb = "add"
      BY <1>2 DEF Executes
    <3>2. q.stage = "statement" /\ (q.req.verb = "other" \/ Single(q.req))
      BY <1>2 DEF Executes, Shape
    <3>3. Same(q, r) /\ r.stage = stage /\ r.exposed = q.exposed
      BY <3>1, <3>2, ExecutedIs
    <3> QED BY <3>3
  <2>2. q.stage \notin Selects /\ r.stage \notin Selects
    BY <1>2, <2>1 DEF Executes, Selects
  <2> QED BY <2>1, <2>2, KeptWithin DEF Same
<1>3. CASE Answers(q, d, r)
  <2>1. /\ r.cache = q.cache /\ r.index = q.index /\ r.heap = q.heap /\ r.exposed = q.exposed
        /\ r.stage = "send" /\ q.stage = "readBack"
    <3>1. PICK ok \in BOOLEAN :
            r = Failed([q EXCEPT !.stage = "send",
                         !.answer = {LastOf(q, IF ok THEN RowsLike(db, q.req) ELSE {})}], ok)
      BY <1>3 DEF Answers
    <3>2. q.stage = "readBack"
      BY <1>3 DEF Answers
    <3> QED BY <3>1, <3>2, AnsweredIs
  <2>2. q.stage \notin Selects /\ r.stage \notin Selects
    BY <2>1 DEF Selects
  <2> QED BY <2>1, <2>2, KeptWithin
<1>4. CASE Counting(q, d, r)
  BY <1>4, CountWithin
<1>5. CASE Selecting(q, d, r)
  BY <1>5, SelectWithin
<1>6. CASE Erases(q, d, r)
  <2>1. /\ r.cache = q.cache /\ r.index = q.index /\ r.heap = q.heap /\ r.exposed = q.exposed
        /\ r.stage \in Deletes \cup {"send"}
    BY <1>6, ErasedIs DEF Erases, Same, Deletes
  <2>2. q.stage \in Deletes
    BY <1>6 DEF Erases, Deletes
  <2>3. q.stage \notin Selects /\ r.stage \notin Selects
    BY <2>1, <2>2 DEF Selects, Deletes
  <2> QED BY <2>1, <2>3, KeptWithin
<1>7. CASE Sends(q, d, r)
  <2>1. /\ r.cache = q.cache /\ r.index = q.index /\ r.heap = q.heap /\ r.exposed = q.exposed
        /\ r.stage \in {"countSites", "idle"} /\ q.stage = "send"
    BY ZenonT(30), <1>7, SentIs DEF Sends
  <2>2. q.stage \notin Selects /\ r.stage \notin Selects
    BY <2>1 DEF Selects
  <2> QED BY <2>1, <2>2, KeptWithin
<1>8. CASE Dies(d, r)
  <2>1. r.stage = "idle" /\ r.heap = "ok" /\ r.cache = boot /\ r.index = Len(boot)
    BY <1>8, FreshIs DEF Dies
  <2>2. r.stage \notin Selects /\ r.index <= Len(r.cache)
    BY <2>1 DEF Selects
  <2> QED BY <2>1, <2>2, WithinElsewhere
<1> QED BY <1>1, <1>2, <1>3, <1>4, <1>5, <1>6, <1>7, <1>8 DEF StepOf

\* A step of another worker between COUNT and SELECT exposes the worker.
LEMMA DisturbedWithin ==
    ASSUME NEW q, Shape(q), Within(q, db), NEW d
    PROVE  Within(Disturbed(q, d), d)
<1> DEFINE r == Disturbed(q, d)
<1>1. /\ Same(q, r) /\ r.stage = q.stage
      /\ (r.exposed <=> q.exposed \/ (d # db /\ q.stage \in Selects))
  BY DisturbedIs
<1> HIDE DEF r
<1>2. Held(r) = Held(q) /\ r.i = q.i /\ r.j = q.j
  BY <1>1 DEF Same, Held
<1>3. CASE d = db
  BY <1>1, <1>2, <1>3 DEF Within, Same, r
<1>4. CASE d # db /\ q.stage \in Selects
  <2>1. r.exposed
    BY <1>1, <1>4
  <2>2. r.heap = "ok" => IF r.reload /\ r.stage = "selectSites" THEN r.index = 0
                         ELSE r.index <= Len(r.cache)
    BY <1>1 DEF Within, Same
  <2> QED BY <2>1, <2>2 DEF Within, r
<1>5. CASE d # db /\ q.stage \notin Selects
  <2>1. /\ r.heap = q.heap /\ r.index = q.index /\ r.cache = q.cache /\ (r.exposed <=> q.exposed)
        /\ r.stage \notin Selects
    BY <1>1, <1>5 DEF Same
  <2>2. Within(r, d)
    BY <1>5, <2>1, KeptWithin
  <2> QED BY <2>2 DEF r
<1> QED BY <1>3, <1>4, <1>5

\* So it holds always.
LEMMA WithinInv == Spec => [](Typed /\ \A w \in Workers : Within(worker[w], db))
<1> DEFINE I == Typed /\ \A w \in Workers : Within(worker[w], db)
<1>1. Init => I
  <2> SUFFICES ASSUME Init PROVE I
    OBVIOUS
  <2>1. Typed
    BY TypedInit, SituationsAssumption
  <2>2. boot \in Seq(SiteSlots) /\ worker = [w \in Workers |-> Fresh(boot)]
    BY <2>1 DEF Typed, TypeOK, Init
  <2>3. Within(Fresh(boot), db)
    <3>1. /\ Fresh(boot).stage = "idle" /\ Fresh(boot).heap = "ok"
          /\ Fresh(boot).cache = boot /\ Fresh(boot).index = Len(boot)
      BY <2>2, FreshIs
    <3>2. Len(boot) \in Nat
      BY <2>2
    <3>3. Fresh(boot).stage \notin Selects /\ Fresh(boot).index <= Len(Fresh(boot).cache)
      BY <3>1, <3>2 DEF Selects
    <3> QED BY <3>1, <3>3, WithinElsewhere
  <2> QED BY <2>1, <2>2, <2>3
<1>2. I /\ [Next]_vars => I'
  <2> SUFFICES ASSUME I, [Next]_vars PROVE I'
    OBVIOUS
  <2>1. CASE Next
    <3>1. Typed' /\ db \in Database /\ boot \in Seq(SiteSlots)
      BY <2>1, StepIs, SituationsAssumption DEF Typed, TypeOK
    <3>2. PICK w \in Workers :
            /\ StepOf(worker[w], db', worker'[w])
            /\ \A v \in Workers : v # w => worker'[v] = Disturbed(worker[v], db')
      BY <2>1, StepIs, SituationsAssumption
    <3>3. \A v \in Workers : Shape(worker[v]) /\ Within(worker[v], db)
      BY DEF Typed
    <3>4. ASSUME NEW v \in Workers PROVE Within(worker'[v], db')
      <4>1. CASE v = w
        BY <3>1, <3>2, <3>3, <4>1, StepWithin
      <4>2. CASE v # w
        <5>1. Within(Disturbed(worker[v], db'), db')
          BY <3>3, DisturbedWithin
        <5> QED BY <3>2, <4>2, <5>1
      <4> QED BY <4>1, <4>2
    <3> QED BY <3>1, <3>4
  <2>2. CASE UNCHANGED vars
    BY <2>2 DEF vars, Typed, TypeOK
  <2> QED BY <2>1, <2>2
<1> QED BY <1>1, <1>2, PTL DEF Spec

\* OverrunExposed for every set of workers and ids: what earlier reloads leave in
\* sites.index never leads past the space of a list (GetSitePolicy,
\* ShowSitePolicyAllTableInfo); only a count that failed or another worker's
\* change between a count and its read does.
THEOREM OverrunCorrect == Spec => []OverrunExposed
<1>1. ASSUME Typed, \A w \in Workers : Within(worker[w], db)
      PROVE  OverrunExposed
  BY <1>1 DEF OverrunExposed, Within
<1> QED BY <1>1, WithinInv, PTL

-------------------------------------------------------------------------------
(* A site is deleted with its forms and no other                            *)

\* The forms are the rows of S in order; those from j on are the rows of S.
Lists(forms, S) ==
    Len(forms) = Cardinality(S) /\ \A l \in 1 .. Len(forms) : forms[l].id = Ascending(S)[l]
Ahead(forms, j, S) ==
    /\ \A a, b \in 1 .. Len(forms) : forms[a].id = forms[b].id => a = b
    /\ \A x : x \in S <=> \E n \in j .. Len(forms) : forms[n].id = x

\* While nothing has disturbed it, the deletion of a site has in its list first
\* space for the forms of the site, then these forms, then those of them that
\* are still to be deleted.
Erasing(q, d) ==
    LET forms == q.local[1].forms
        mine == FormsOf(d, q.req.id)
    IN
    /\ OfForms(q) => q.local[1].id = q.req.id
    /\ q.stage = "selectForms" => Len(forms) = Cardinality(mine)
    /\ OfFields(q) => Lists(forms, mine)
    /\ OfErasure(q) => Ahead(forms, q.j, mine)
    /\ q.stage = "deleteForm" => \A n \in DOMAIN d.fields : d.fields[n].form_id # forms[q.j].id
    /\ q.stage = "deleteSite" => \A f : f \notin mine
Undisturbed(q) == SiteDelete(q.req) /\ ~ q.reload /\ ~ q.tainted
Owning(q, d) == Undisturbed(q) => Erasing(q, d)

\* A worker that has loaded no form yet owns what it has loaded.
LEMMA OwningElsewhere ==
    ASSUME NEW r, r.stage \in {"idle", "statement", "readBack", "send", "countSites", "selectSites"},
           NEW d
    PROVE  Owning(r, d)
BY DEF Owning, Erasing, OfForms, OfFields, OfErasure

\* A complete list is a list of what is still to come.
LEMMA ListsAhead ==
    ASSUME NEW S \in SUBSET Nat, IsFiniteSet(S), NEW forms \in Seq(FormSlots), Lists(forms, S)
    PROVE  Ahead(forms, 1, S) /\ (Len(forms) = 0 => \A f : f \notin S)
<1> DEFINE a == Ascending(S)
<1>1. /\ a \in Seq(S) /\ Len(a) = Cardinality(S) /\ Cardinality(S) \in Nat
      /\ \A k, l \in DOMAIN a : a[k] = a[l] => k = l
      /\ \A x \in S : \E k \in DOMAIN a : a[k] = x
  BY AscendingIs
<1> HIDE DEF a
<1>2. DOMAIN a = 1 .. Len(forms) /\ \A l \in 1 .. Len(forms) : forms[l].id = a[l]
  BY <1>1 DEF Lists, a
<1>3. \A k, l \in 1 .. Len(forms) : forms[k].id = forms[l].id => k = l
  BY <1>1, <1>2
<1>4. ASSUME NEW x \in S PROVE \E n \in 1 .. Len(forms) : forms[n].id = x
  <2>1. PICK k \in DOMAIN a : a[k] = x
    BY <1>1
  <2> QED BY <1>2, <2>1
<1>5. ASSUME NEW n \in 1 .. Len(forms) PROVE forms[n].id \in S
  BY <1>1, <1>2
<1>6. Len(forms) = 0 => \A f : f \notin S
  <2> SUFFICES ASSUME Len(forms) = 0, NEW f \in S PROVE FALSE
    OBVIOUS
  <2> QED BY <1>4
<1>7. \A x : x \in S <=> \E n \in 1 .. Len(forms) : forms[n].id = x
  BY <1>4, <1>5
<1>8. Ahead(forms, 1, S)
  BY <1>3, <1>7 DEF Ahead
<1> QED BY <1>6, <1>8

\* The ids of the forms stay when the fields of one are replaced.
LEMMA SameIds ==
    ASSUME NEW q \in Worker, NEW i \in 1 .. Len(Held(q)), NEW j \in 1 .. Len(Held(q)[i].forms),
           NEW g, NEW fs, OneForm(Held(q), g, i, j, fs)
    PROVE  /\ Len(g[i].forms) = Len(Held(q)[i].forms) /\ g[i].id = Held(q)[i].id
           /\ \A l \in 1 .. Len(Held(q)[i].forms) : g[i].forms[l].id = Held(q)[i].forms[l].id
<1>1. Held(q)[i].forms[j] \in FormSlots
  BY HeldForm
<1>2. [Held(q)[i].forms[j] EXCEPT !.fields = fs].id = Held(q)[i].forms[j].id
  BY <1>1 DEF FormSlots
<1> QED BY <1>2 DEF OneForm, OneSite

\* A COUNT keeps that the forms loaded are those of their sites.
LEMMA CountOwning ==
    ASSUME db \in Database, NEW q, Shape(q), Owning(q, db), NEW d, NEW r, Counting(q, d, r)
    PROVE  Owning(r, d)
<1>0. q \in Worker /\ d = db
  BY DEF Shape, Counting
<1>1. PICK ok \in BOOLEAN : \/ q.stage = "countSites" /\ r = CountSites(q, ok)
                            \/ q.stage = "countForms" /\ r = CountForms(q, ok)
                            \/ q.stage = "countFields" /\ r = CountFields(q, ok)
  BY DEF Counting
<1>2. CASE q.stage = "countSites" /\ r = CountSites(q, ok)
  <2>1. r.stage = "selectSites"
    BY <1>0, <1>2, CountSitesIs
  <2> QED BY <2>1, OwningElsewhere
<1>3. CASE q.stage = "countForms" /\ r = CountForms(q, ok)
  <2> SUFFICES ASSUME Undisturbed(r) PROVE Erasing(r, d)
    BY DEF Owning
  <2> DEFINE n == FormsCounted(Held(q)[q.i].id, ok)
  <2>0. q.i \in 1 .. Len(Held(q))
    BY <1>3 DEF Shape, OfForms
  <2>1. /\ r.stage = "selectForms" /\ Beside(q, r) /\ (r.tainted <=> q.tainted \/ ~ ok)
        /\ n \in Nat /\ OneSite(Held(q), Held(r), q.i) /\ Held(r)[q.i].forms = Zeros(n, ZeroForm)
    BY <1>0, <1>3, <2>0, CountFormsIs
  <2>2. r.req = q.req /\ r.reload = q.reload /\ ok /\ ~ q.tainted /\ SiteDelete(q.req) /\ ~ q.reload
    BY <2>1 DEF Beside, Undisturbed
  <2>3. q.local[1].id = q.req.id
    BY <1>3, <2>2 DEF Owning, Undisturbed, Erasing, OfForms
  <2>4. Len(q.local) = 1
    BY <1>3, <2>2 DEF Shape, OfForms
  <2>5. Held(q) = q.local /\ Held(r) = r.local
    BY <2>2 DEF Held
  <2>6. q.i = 1
    <3>1. Len(Held(q)) = 1
      BY <2>4, <2>5
    <3> QED BY <2>0, <3>1
  <2>7. Len(r.local[1].forms) = n
    <3> HIDE DEF n
    <3>1. r.local[1].forms = Zeros(n, ZeroForm)
      BY <2>1, <2>5, <2>6
    <3> QED BY <2>1, <3>1, ZerosIs, ZeroIs
  <2>8. r.local[1].id = r.req.id /\ n = Cardinality(FormsOf(d, r.req.id))
    BY <1>0, <2>1, <2>2, <2>3, <2>5, <2>6 DEF OneSite, FormsCounted
  <2> HIDE DEF n
  <2> QED BY <2>1, <2>7, <2>8 DEF Erasing, OfFields, OfErasure
<1>4. CASE q.stage = "countFields" /\ r = CountFields(q, ok)
  <2> SUFFICES ASSUME Undisturbed(r) PROVE Erasing(r, d)
    BY DEF Owning
  <2> DEFINE n == FieldsCounted(Held(q)[q.i].forms[q.j].id, ok)
             fs == Zeros(n, ZeroField)
  <2>0. q.i \in 1 .. Len(Held(q)) /\ q.j \in 1 .. Len(Held(q)[q.i].forms)
    BY <1>4 DEF Shape, OfForms, OfFields
  <2>1. /\ r.stage = "selectFields" /\ Beside(q, r) /\ (r.tainted <=> q.tainted \/ ~ ok)
        /\ OneForm(Held(q), Held(r), q.i, q.j, fs)
    BY <1>0, <1>4, <2>0, CountFieldsIs
  <2> HIDE DEF fs
  <2>2. r.req = q.req /\ r.reload = q.reload /\ ~ q.tainted /\ SiteDelete(q.req) /\ ~ q.reload
    BY <2>1 DEF Beside, Undisturbed
  <2>3. q.local[1].id = q.req.id /\ Lists(q.local[1].forms, FormsOf(db, q.req.id))
    BY <1>4, <2>2 DEF Owning, Undisturbed, Erasing, OfForms, OfFields
  <2>4. Len(q.local) = 1
    BY <1>4, <2>2 DEF Shape, OfForms
  <2>5. Held(q) = q.local /\ Held(r) = r.local
    BY <2>2 DEF Held
  <2>6. q.i = 1
    <3>1. Len(Held(q)) = 1
      BY <2>4, <2>5
    <3> QED BY <2>0, <3>1
  <2>7. /\ Len(r.local[1].forms) = Len(q.local[1].forms) /\ r.local[1].id = q.local[1].id
        /\ \A l \in 1 .. Len(q.local[1].forms) : r.local[1].forms[l].id = q.local[1].forms[l].id
    <3>1. /\ Len(Held(r)[q.i].forms) = Len(Held(q)[q.i].forms)
          /\ Held(r)[q.i].id = Held(q)[q.i].id
          /\ \A l \in 1 .. Len(Held(q)[q.i].forms) :
               Held(r)[q.i].forms[l].id = Held(q)[q.i].forms[l].id
      BY <1>0, <2>0, <2>1, SameIds
    <3> QED BY <2>5, <2>6, <3>1
  <2>8. Lists(r.local[1].forms, FormsOf(d, r.req.id)) /\ r.local[1].id = r.req.id
    BY <1>0, <2>2, <2>3, <2>7 DEF Lists
  <2> QED BY <2>1, <2>8 DEF Erasing, OfErasure
<1> QED BY <1>1, <1>2, <1>3, <1>4

\* With its list complete the deletion comes to the fields of the next form, to
\* the first form or, if there is none, to the site.
LEMMA GoesOwning ==
    ASSUME NEW p \in Worker, NEW ok \in BOOLEAN, NEW d \in Database, NEW r, ToForm(p, r),
           r.tainted <=> p.tainted \/ ~ ok,
           ok /\ Undisturbed(p) =>
             /\ Len(p.local) = 1 /\ p.i = 1 /\ p.local[1].id = p.req.id
             /\ Lists(p.local[1].forms, FormsOf(d, p.req.id))
    PROVE  Owning(r, d)
<1>1. CASE r.stage \in {"idle", "send"}
  BY <1>1, OwningElsewhere
<1>2. CASE r.stage \notin {"idle", "send"}
  <2> SUFFICES ASSUME Undisturbed(r) PROVE Erasing(r, d)
    BY DEF Owning
  <2>1. Remains(p, r)
    BY <1>2 DEF ToForm, ToSite, Ends
  <2>2. r.req = p.req /\ r.reload = p.reload /\ r.local = p.local /\ ok /\ Undisturbed(p)
    BY <2>1 DEF Remains, Undisturbed
  <2> DEFINE forms == p.local[1].forms
             mine == FormsOf(d, p.req.id)
  <2>3. Len(p.local) = 1 /\ p.i = 1 /\ p.local[1].id = p.req.id /\ Lists(forms, mine)
    BY <2>2
  <2>4. Held(p) = p.local /\ ~ (p.i < Len(Held(p)))
    <3>1. Held(p) = p.local
      BY <2>2 DEF Undisturbed, Held
    <3>2. Len(Held(p)) = 1 /\ p.i = 1
      BY <2>3, <3>1
    <3> QED BY <3>1, <3>2
  <2>5. forms \in Seq(FormSlots) /\ Len(forms) \in Nat
    <3>1. 1 \in 1 .. Len(Held(p))
      BY <2>3, <2>4
    <3>2. Held(p)[1].forms \in Seq(FormSlots)
      BY <3>1, HeldForm
    <3> QED BY <2>4, <3>2
  <2>6. mine \in SUBSET Nat /\ IsFiniteSet(mine)
    BY QueriesFinite
  <2> HIDE DEF forms, mine
  <2>7. Ahead(forms, 1, mine) /\ (Len(forms) = 0 => \A f : f \notin mine)
    BY <2>3, <2>5, <2>6, ListsAhead
  <2>8. \/ r.stage = "countFields"
        \/ r.stage = "deleteFields" /\ r.j = 1
        \/ r.stage = "deleteSite" /\ ~ (0 < Len(forms))
    BY <1>2, <2>2, <2>4 DEF ToForm, ToSite, Ends, forms
  <2>9. CASE r.stage = "countFields"
    BY <2>2, <2>3, <2>9 DEF Erasing, OfForms, OfFields, OfErasure, forms, mine
  <2>10. CASE r.stage = "deleteFields" /\ r.j = 1
    BY <2>2, <2>7, <2>10 DEF Erasing, OfForms, OfFields, OfErasure, forms, mine
  <2>11. CASE r.stage = "deleteSite" /\ ~ (0 < Len(forms))
    <3>1. \A f : f \notin mine
      BY <2>5, <2>7, <2>11
    <3> QED BY <2>2, <2>11, <3>1 DEF Erasing, OfForms, OfFields, OfErasure, mine
  <2> QED BY <2>8, <2>9, <2>10, <2>11
<1> QED BY <1>1, <1>2

\* A SELECT does too.
LEMMA SelectOwning ==
    ASSUME db \in Database, NEW q, Shape(q), Owning(q, db), NEW d, NEW r, Selecting(q, d, r)
    PROVE  Owning(r, d)
<1>0. q \in Worker /\ d = db
  BY DEF Shape, Selecting
<1>1. PICK ok \in BOOLEAN : \/ q.stage = "selectSites" /\ r = SelectSites(q, ok)
                            \/ q.stage = "selectForms" /\ r = SelectForms(q, ok)
                            \/ q.stage = "selectFields" /\ r = SelectFields(q, ok)
  BY DEF Selecting
<1>2. CASE q.stage = "selectSites" /\ r = SelectSites(q, ok)
  <2>1. PICK p \in Worker :
           /\ Beside(q, p)
           /\ SelectSites(q, ok) = Failed(IF q.reload THEN NextSite(p) ELSE Listed(p), ok)
    BY <1>0, SelectSitesIs
  <2>2. p.reload = q.reload /\ p.req = q.req
    BY <2>1 DEF Beside
  <2>3. CASE q.reload
    <3>1. ToSite(p, r)
      BY <1>2, <2>1, <2>3, GoesOn
    <3>2. r.stage = "idle" \/ r.reload
      BY <2>2, <2>3, <3>1 DEF ToSite, Ends, Remains
    <3> QED BY <3>2, OwningElsewhere DEF Owning, Undisturbed
  <2>4. CASE ~ q.reload
    <3>1. Ends(p, r)
      BY <1>2, <2>1, <2>4, GoesOn
    <3>2. q.req.verb = "list"
      BY <1>2, <2>4 DEF Shape, Listing, OfForms, Selects
    <3>3. r.stage = "send"
      BY <2>2, <2>4, <3>1, <3>2 DEF Ends
    <3> QED BY <3>3, OwningElsewhere
  <2> QED BY <2>3, <2>4
<1>3. CASE q.stage = "selectForms" /\ r = SelectForms(q, ok)
  <2> DEFINE slot == Held(q)[q.i]
             rows == FormsFetched(slot.id, ok)
  <2>0. q.i \in 1 .. Len(Held(q))
    BY <1>3 DEF Shape, OfForms
  <2>1. PICK p \in Worker :
           /\ Beside(q, p) /\ p.i = q.i /\ p.tainted = q.tainted
           /\ OneSite(Held(q), Held(p), q.i)
           /\ Held(p)[q.i].forms = Fill(slot.forms, 0, rows)
           /\ SelectForms(q, ok) = Failed(NextForm(p), ok)
    BY <1>0, <2>0, SelectFormsIs
  <2>2. ToForm(p, r) /\ (r.tainted <=> p.tainted \/ ~ ok)
    BY <1>3, <2>1, GoesOn
  <2>3. ASSUME ok, Undisturbed(p)
        PROVE  /\ Len(p.local) = 1 /\ p.i = 1 /\ p.local[1].id = p.req.id
               /\ Lists(p.local[1].forms, FormsOf(d, p.req.id))
    <3>1. p.req = q.req /\ p.reload = q.reload /\ ~ q.tainted /\ SiteDelete(q.req) /\ ~ q.reload
      BY <2>1, <2>3 DEF Beside, Undisturbed
    <3>2. /\ q.local[1].id = q.req.id
          /\ Len(q.local[1].forms) = Cardinality(FormsOf(db, q.req.id))
      BY <1>3, <3>1 DEF Owning, Undisturbed, Erasing, OfForms
    <3>3. Len(q.local) = 1 /\ Held(q) = q.local /\ Held(p) = p.local
      BY <1>3, <3>1 DEF Shape, OfForms, Held
    <3>4. q.i = 1
      <4>1. Len(Held(q)) = 1
        BY <3>3
      <4> QED BY <2>0, <4>1
    <3>5. slot.id = q.req.id /\ slot.forms \in Seq(FormSlots)
          /\ Len(slot.forms) = Cardinality(FormsOf(db, q.req.id))
      <4>1. slot.forms \in Seq(FormSlots)
        BY <1>0, <2>0, HeldForm
      <4> QED BY <3>2, <3>3, <3>4, <4>1
    <3>6. rows = FormRows(db, q.req.id)
      BY <2>3, <3>5 DEF FormsFetched
    <3>7. Fill(slot.forms, 0, rows) = rows
      <4>1. rows \in Seq(FormSlots) /\ Len(rows) = Len(slot.forms)
        BY <3>5, <3>6, FormRowsIs
      <4> HIDE DEF rows, slot
      <4> QED BY <3>5, <4>1, FillAll
    <3>8. p.local[1].forms = FormRows(db, q.req.id)
      BY <2>1, <3>3, <3>4, <3>6, <3>7
    <3>9. Lists(FormRows(db, q.req.id), FormsOf(db, q.req.id))
      <4> DEFINE S == FormsOf(db, q.req.id)
      <4>1. /\ Len(FormRows(db, q.req.id)) = Cardinality(S)
            /\ \A k \in 1 .. Cardinality(S) :
                 FormRows(db, q.req.id)[k] = FormSlot(db, Ascending(S)[k])
        BY FormRowsIs
      <4>2. \A f : FormSlot(db, f).id = f
        BY DEF FormSlot
      <4> HIDE DEF S
      <4> QED BY <4>1, <4>2 DEF Lists, S
    <3>10. Len(p.local) = 1 /\ p.i = 1 /\ p.local[1].id = q.req.id
      BY <2>1, <3>2, <3>3, <3>4 DEF OneSite
    <3> QED BY <1>0, <3>1, <3>8, <3>9, <3>10
  <2> QED BY <1>0, <2>2, <2>3, GoesOwning
<1>4. CASE q.stage = "selectFields" /\ r = SelectFields(q, ok)
  <2> DEFINE slot == Held(q)[q.i].forms[q.j]
             fs == Fill(slot.fields, 0, FieldsFetched(slot.id, ok))
  <2>0. q.i \in 1 .. Len(Held(q)) /\ q.j \in 1 .. Len(Held(q)[q.i].forms)
    BY <1>4 DEF Shape, OfForms, OfFields
  <2>1. PICK p \in Worker :
           /\ Beside(q, p) /\ p.i = q.i /\ p.tainted = q.tainted
           /\ OneForm(Held(q), Held(p), q.i, q.j, fs)
           /\ SelectFields(q, ok) = Failed(NextForm(p), ok)
    BY <1>0, <2>0, SelectFieldsIs
  <2> HIDE DEF fs
  <2>2. ToForm(p, r) /\ (r.tainted <=> p.tainted \/ ~ ok)
    BY <1>4, <2>1, GoesOn
  <2>3. ASSUME ok, Undisturbed(p)
        PROVE  /\ Len(p.local) = 1 /\ p.i = 1 /\ p.local[1].id = p.req.id
               /\ Lists(p.local[1].forms, FormsOf(d, p.req.id))
    <3>1. p.req = q.req /\ p.reload = q.reload /\ ~ q.tainted /\ SiteDelete(q.req) /\ ~ q.reload
      BY <2>1, <2>3 DEF Beside, Undisturbed
    <3>2. q.local[1].id = q.req.id /\ Lists(q.local[1].forms, FormsOf(db, q.req.id))
      BY <1>4, <3>1 DEF Owning, Undisturbed, Erasing, OfForms, OfFields
    <3>3. Len(q.local) = 1 /\ Held(q) = q.local /\ Held(p) = p.local
      BY <1>4, <3>1 DEF Shape, OfForms, Held
    <3>4. q.i = 1
      <4>1. Len(Held(q)) = 1
        BY <3>3
      <4> QED BY <2>0, <4>1
    <3>5. /\ Len(Held(p)[q.i].forms) = Len(Held(q)[q.i].forms)
          /\ Held(p)[q.i].id = Held(q)[q.i].id
          /\ \A l \in 1 .. Len(Held(q)[q.i].forms) :
               Held(p)[q.i].forms[l].id = Held(q)[q.i].forms[l].id
      BY ZenonT(30), <1>0, <2>0, <2>1, SameIds
    <3>6. Len(p.local) = 1
      BY <2>1, <3>3 DEF OneForm, OneSite
    <3>7. Lists(p.local[1].forms, FormsOf(db, q.req.id)) /\ p.local[1].id = q.req.id
      BY <3>2, <3>3, <3>4, <3>5 DEF Lists
    <3> QED BY <1>0, <2>1, <3>1, <3>4, <3>6, <3>7
  <2> QED BY <1>0, <2>2, <2>3, GoesOwning
<1> QED BY <1>1, <1>2, <1>3, <1>4

\* The form deleted is the first of those to come.
LEMMA AheadNext ==
    ASSUME NEW forms \in Seq(FormSlots), NEW j \in 1 .. Len(forms), NEW S, NEW T,
           Ahead(forms, j, S), \A x : x \in T <=> x \in S /\ x # forms[j].id
    PROVE  /\ Ahead(forms, j + 1, T)
           /\ ~ (j < Len(forms)) => \A x : x \notin T
<1>0. Len(forms) \in Nat /\ j \in Nat
  OBVIOUS
<1>1. ASSUME NEW x \in T PROVE \E n \in j + 1 .. Len(forms) : forms[n].id = x
  <2>1. PICK n \in j .. Len(forms) : forms[n].id = x
    BY DEF Ahead
  <2>2. n # j
    BY <2>1
  <2>3. n \in j + 1 .. Len(forms)
    BY <1>0, <2>2
  <2> QED BY <2>1, <2>3
<1>2. ASSUME NEW n \in j + 1 .. Len(forms) PROVE forms[n].id \in T
  <2>1. n \in j .. Len(forms) /\ n \in 1 .. Len(forms) /\ n # j
    BY <1>0
  <2>2. forms[n].id \in S /\ forms[n].id # forms[j].id
    BY <2>1 DEF Ahead
  <2> QED BY <2>2
<1>3. ~ (j < Len(forms)) => \A x : x \notin T
  BY <1>0, <1>1
<1> QED BY <1>1, <1>2, <1>3 DEF Ahead

\* A step of the deletion of a site, on the worker and on the tables.
ErasesFields(q, d, r, ok) ==
    /\ Same(q, r) /\ r.stage = "deleteForm" /\ (r.tainted <=> q.tainted \/ ~ ok)
    /\ ok \/ d = db
    /\ ok => LET x == q.local[1].forms[q.j].id IN
             /\ d.sites = db.sites /\ d.forms = db.forms
             /\ \A n : n \in DOMAIN d.fields <=> n \in DOMAIN db.fields /\ db.fields[n].form_id # x
             /\ \A n \in DOMAIN d.fields : d.fields[n] = db.fields[n]
ErasesForm(q, d, r, ok) ==
    /\ r.req = q.req /\ r.reload = q.reload /\ r.local = q.local
    /\ (r.tainted <=> q.tainted \/ ~ ok)
    /\ \/ r.stage = "deleteFields" /\ r.j = q.j + 1
       \/ r.stage = "deleteSite" /\ ~ (q.j < Len(q.local[1].forms))
    /\ ok \/ d = db
    /\ ok => LET x == q.local[1].forms[q.j].id IN
             /\ d.sites = db.sites /\ d.fields = db.fields
             /\ \A f : f \in DOMAIN d.forms <=> f \in DOMAIN db.forms /\ f # x
             /\ \A f \in DOMAIN d.forms : d.forms[f] = db.forms[f]
ErasesSite(q, d, r, ok) ==
    /\ Same(q, r) /\ r.stage = "send" /\ (r.tainted <=> q.tainted \/ ~ ok)
    /\ ok \/ d = db
    /\ ok => /\ d.forms = db.forms /\ d.fields = db.fields
             /\ \A x : x \in DOMAIN d.sites <=> x \in DOMAIN db.sites /\ x # q.req.id

\* A DELETE is that of the fields, of a form or of the site.
LEMMA ErasesIs ==
    ASSUME db \in Database, NEW q, Shape(q), NEW d, NEW r, Erases(q, d, r)
    PROVE  \E ok \in BOOLEAN :
             \/ q.stage = "deleteFields" /\ ErasesFields(q, d, r, ok)
             \/ q.stage = "deleteForm" /\ ErasesForm(q, d, r, ok)
             \/ q.stage = "deleteSite" /\ ErasesSite(q, d, r, ok)
<1>1. PICK ok \in BOOLEAN :
        \/ /\ q.stage = "deleteFields"
           /\ d = IF ok THEN DeleteField4Form(db, q.local[1].forms[q.j].id) ELSE db
           /\ r = Failed([q EXCEPT !.stage = "deleteForm"], ok)
        \/ /\ q.stage = "deleteForm"
           /\ d = IF ok THEN DeleteFormPolicy(db, q.local[1].forms[q.j].id) ELSE db
           /\ r = Failed(NextDelete(q), ok)
        \/ /\ q.stage = "deleteSite"
           /\ d = IF ok THEN DeleteSiteRow(db, q.req.id) ELSE db
           /\ r = Failed([q EXCEPT !.stage = "send"], ok)
  BY DEF Erases
<1>2. CASE /\ q.stage = "deleteFields"
           /\ d = IF ok THEN DeleteField4Form(db, q.local[1].forms[q.j].id) ELSE db
           /\ r = Failed([q EXCEPT !.stage = "deleteForm"], ok)
  <2>1. Same(q, r) /\ r.stage = "deleteForm" /\ (r.tainted <=> q.tainted \/ ~ ok)
    BY <1>2, ErasedIs
  <2>2. ASSUME ok PROVE d = DeleteField4Form(db, q.local[1].forms[q.j].id)
    BY <1>2, <2>2
  <2>3. ASSUME ok PROVE LET x == q.local[1].forms[q.j].id IN
             /\ d.sites = db.sites /\ d.forms = db.forms
             /\ \A n : n \in DOMAIN d.fields <=> n \in DOMAIN db.fields /\ db.fields[n].form_id # x
             /\ \A n \in DOMAIN d.fields : d.fields[n] = db.fields[n]
    <3> DEFINE x == q.local[1].forms[q.j].id
    <3>1. d = DeleteField4Form(db, x)
      BY <2>2, <2>3
    <3> HIDE DEF x
    <3>2. /\ d.sites = db.sites /\ d.forms = db.forms
          /\ \A n : n \in DOMAIN d.fields <=> n \in DOMAIN db.fields /\ db.fields[n].form_id # x
          /\ \A n \in DOMAIN d.fields : d.fields[n] = db.fields[n]
      BY <3>1, DeletesIs
    <3> QED BY <3>2 DEF x
  <2> QED BY <1>2, <2>1, <2>3 DEF ErasesFields
<1>3. CASE /\ q.stage = "deleteForm"
           /\ d = IF ok THEN DeleteFormPolicy(db, q.local[1].forms[q.j].id) ELSE db
           /\ r = Failed(NextDelete(q), ok)
  <2>1. /\ r.req = q.req /\ r.reload = q.reload /\ r.local = q.local
        /\ (r.tainted <=> q.tainted \/ ~ ok)
        /\ \/ r.stage = "deleteFields" /\ r.j = q.j + 1
           \/ r.stage = "deleteSite" /\ ~ (q.j < Len(q.local[1].forms))
    <3> DEFINE e == Failed(NextDelete(q), ok)
    <3>1. /\ e.req = q.req /\ e.reload = q.reload /\ e.local = q.local
          /\ (e.tainted <=> q.tainted \/ ~ ok)
          /\ \/ e.stage = "deleteFields" /\ e.j = q.j + 1
             \/ e.stage = "deleteSite" /\ ~ (q.j < Len(q.local[1].forms))
      BY <1>3, FormErasedIs, Zenon
    <3>2. r = e
      BY <1>3
    <3> HIDE DEF e
    <3> QED BY <3>1, <3>2
  <2>2. ASSUME ok PROVE d = DeleteFormPolicy(db, q.local[1].forms[q.j].id)
    BY <1>3, <2>2
  <2>3. ASSUME ok PROVE LET x == q.local[1].forms[q.j].id IN
             /\ d.sites = db.sites /\ d.fields = db.fields
             /\ \A f : f \in DOMAIN d.forms <=> f \in DOMAIN db.forms /\ f # x
             /\ \A f \in DOMAIN d.forms : d.forms[f] = db.forms[f]
    <3> DEFINE x == q.local[1].forms[q.j].id
    <3>1. d = DeleteFormPolicy(db, x)
      BY <2>2, <2>3
    <3> HIDE DEF x
    <3>2. /\ d.sites = db.sites /\ d.fields = db.fields
          /\ \A f : f \in DOMAIN d.forms <=> f \in DOMAIN db.forms /\ f # x
          /\ \A f \in DOMAIN d.forms : d.forms[f] = db.forms[f]
      BY <3>1, DeletesIs
    <3> QED BY <3>2 DEF x
  <2> QED BY <1>3, <2>1, <2>3 DEF ErasesForm
<1>4. CASE /\ q.stage = "deleteSite"
           /\ d = IF ok THEN DeleteSiteRow(db, q.req.id) ELSE db
           /\ r = Failed([q EXCEPT !.stage = "send"], ok)
  <2>1. Same(q, r) /\ r.stage = "send" /\ (r.tainted <=> q.tainted \/ ~ ok)
    BY <1>4, ErasedIs
  <2>2. ASSUME ok PROVE d = DeleteSiteRow(db, q.req.id)
    BY <1>4, <2>2
  <2>3. ASSUME ok
        PROVE  /\ d.forms = db.forms /\ d.fields = db.fields
               /\ \A x : x \in DOMAIN d.sites <=> x \in DOMAIN db.sites /\ x # q.req.id
    BY <2>2, <2>3, DeletesIs
  <2> QED BY <1>4, <2>1, <2>3 DEF ErasesSite
<1> QED BY <1>1, <1>2, <1>3, <1>4

\* A DELETE keeps that the forms loaded are those of their sites.
LEMMA EraseOwning ==
    ASSUME db \in Database, NEW q, Shape(q), Owning(q, db), NEW d, NEW r, Erases(q, d, r)
    PROVE  Owning(r, d)
<1>0. q \in Worker
  BY DEF Shape
<1>1. PICK ok \in BOOLEAN :
        \/ q.stage = "deleteFields" /\ ErasesFields(q, d, r, ok)
        \/ q.stage = "deleteForm" /\ ErasesForm(q, d, r, ok)
        \/ q.stage = "deleteSite" /\ ErasesSite(q, d, r, ok)
  BY ErasesIs
<1> DEFINE forms == q.local[1].forms
           x == forms[q.j].id
           s == q.req.id
<1>2. CASE q.stage = "deleteFields" /\ ErasesFields(q, d, r, ok)
  <2> SUFFICES ASSUME Undisturbed(r) PROVE Erasing(r, d)
    BY DEF Owning
  <2>1. Same(q, r) /\ r.stage = "deleteForm" /\ (r.tainted <=> q.tainted \/ ~ ok)
    BY <1>2 DEF ErasesFields
  <2>2. r.req = q.req /\ r.j = q.j /\ r.local = q.local /\ Undisturbed(q) /\ ok
    BY <2>1 DEF Same, Undisturbed
  <2>4. /\ d.forms = db.forms
        /\ \A n \in DOMAIN d.fields : n \in DOMAIN db.fields /\ db.fields[n].form_id # x
        /\ \A n \in DOMAIN d.fields : d.fields[n] = db.fields[n]
    BY <1>2, <2>2 DEF ErasesFields
  <2>5. FormsOf(d, s) = FormsOf(db, s)
    BY <2>4 DEF FormsOf
  <2>6. Ahead(forms, q.j, FormsOf(d, s))
    BY <1>2, <2>2, <2>5 DEF Owning, Erasing, OfErasure
  <2>7. \A n \in DOMAIN d.fields : d.fields[n].form_id # x
    BY <2>4
  <2> QED BY <2>1, <2>2, <2>6, <2>7 DEF Erasing, OfForms, OfFields
<1>3. CASE q.stage = "deleteForm" /\ ErasesForm(q, d, r, ok)
  <2> SUFFICES ASSUME Undisturbed(r) PROVE Erasing(r, d)
    BY DEF Owning
  <2>1. /\ r.req = q.req /\ r.reload = q.reload /\ r.local = q.local
        /\ (r.tainted <=> q.tainted \/ ~ ok)
        /\ \/ r.stage = "deleteFields" /\ r.j = q.j + 1
           \/ r.stage = "deleteSite" /\ ~ (q.j < Len(forms))
    BY <1>3 DEF ErasesForm
  <2>2. Undisturbed(q) /\ ok
    BY <2>1 DEF Undisturbed
  <2>4. /\ \A f : f \in DOMAIN d.forms <=> f \in DOMAIN db.forms /\ f # x
        /\ \A f \in DOMAIN d.forms : d.forms[f] = db.forms[f]
    BY <1>3, <2>2 DEF ErasesForm
  <2>5. \A f : f \in FormsOf(d, s) <=> f \in FormsOf(db, s) /\ f # x
    BY <2>4 DEF FormsOf
  <2>6. Ahead(forms, q.j, FormsOf(db, s))
    BY <1>3, <2>2 DEF Owning, Erasing, OfErasure
  <2>7. forms \in Seq(FormSlots) /\ q.j \in 1 .. Len(forms)
    <3>1. q.j \in 1 .. Len(forms) /\ Len(q.local) = 1 /\ ~ q.reload
      BY <1>3 DEF Shape, OfErasure, Deletes, Counts, Selects
    <3>2. Held(q) = q.local
      BY <3>1 DEF Held
    <3>3. 1 \in 1 .. Len(Held(q))
      BY <3>1, <3>2
    <3>4. Held(q)[1].forms \in Seq(FormSlots)
      BY <1>0, <3>3, HeldForm
    <3> QED BY <3>1, <3>2, <3>4
  <2>8. /\ Ahead(forms, q.j + 1, FormsOf(d, s))
        /\ ~ (q.j < Len(forms)) => \A f : f \notin FormsOf(d, s)
    <3> HIDE DEF forms
    <3>1. \A f : f \in FormsOf(d, s) <=> f \in FormsOf(db, s) /\ f # forms[q.j].id
      BY <2>5 DEF forms
    <3> QED BY <2>6, <2>7, <3>1, AheadNext
  <2>9. CASE r.stage = "deleteFields" /\ r.j = q.j + 1
    BY <2>1, <2>8, <2>9 DEF Erasing, OfForms, OfFields, OfErasure
  <2>10. CASE r.stage = "deleteSite" /\ ~ (q.j < Len(forms))
    BY <2>1, <2>8, <2>10 DEF Erasing, OfForms, OfFields, OfErasure
  <2> QED BY <2>1, <2>9, <2>10
<1>4. CASE q.stage = "deleteSite" /\ ErasesSite(q, d, r, ok)
  <2>1. r.stage = "send"
    BY <1>4 DEF ErasesSite
  <2> QED BY <2>1, OwningElsewhere
<1> QED BY <1>1, <1>2, <1>3, <1>4

\* Every step does.
LEMMA StepOwning ==
    ASSUME db \in Database, boot \in Seq(SiteSlots), NEW q, Shape(q), Owning(q, db),
           NEW d, NEW r, StepOf(q, d, r)
    PROVE  Owning(r, d)
<1>1. CASE Receives(q, d, r)
  <2>1. PICK req \in Writes \cup Reads : r = Received(q, req)
    BY <1>1 DEF Receives
  <2>2. /\ r.req = req /\ (SiteDelete(req) => r.stage = "countForms")
        /\ r.stage = "countForms" => r.local[1].id = req.id
    BY <1>1, <2>1, ReceivedIs DEF Receives
  <2> QED BY <2>2 DEF Owning, Undisturbed, Erasing, OfForms, OfFields, OfErasure
<1>2. CASE Executes(q, d, r)
  <2>1. PICK ok \in BOOLEAN, stage \in {"readBack", "send"} :
           /\ r = Failed([q EXCEPT !.stage = stage], ok)
           /\ stage = "readBack" => q.req.verb = "add"
    BY <1>2 DEF Executes
  <2>2. q.stage = "statement" /\ (q.req.verb = "other" \/ Single(q.req))
    BY <1>2 DEF Executes, Shape
  <2>3. r.stage = stage
    BY <2>1, <2>2, ExecutedIs
  <2> QED BY <2>3, OwningElsewhere
<1>3. CASE Answers(q, d, r)
  <2>1. PICK ok \in BOOLEAN :
          r = Failed([q EXCEPT !.stage = "send",
                       !.answer = {LastOf(q, IF ok THEN RowsLike(db, q.req) ELSE {})}], ok)
    BY <1>3 DEF Answers
  <2>2. r.stage = "send"
    BY <1>3, <2>1, AnsweredIs DEF Answers
  <2> QED BY <2>2, OwningElsewhere
<1>4. CASE Counting(q, d, r)
  BY <1>4, CountOwning
<1>5. CASE Selecting(q, d, r)
  BY <1>5, SelectOwning
<1>6. CASE Erases(q, d, r)
  BY <1>6, EraseOwning
<1>7. CASE Sends(q, d, r)
  <2>1. r.stage \in {"countSites", "idle"}
    BY <1>7, SentIs DEF Sends
  <2> QED BY <2>1, OwningElsewhere
<1>8. CASE Dies(d, r)
  <2>1. r.stage = "idle"
    BY <1>8, FreshIs DEF Dies
  <2> QED BY <2>1, OwningElsewhere
<1> QED BY <1>1, <1>2, <1>3, <1>4, <1>5, <1>6, <1>7, <1>8 DEF StepOf

\* A step of another worker does too, as it taints the worker.
LEMMA DisturbedOwning ==
    ASSUME NEW q, Shape(q), Owning(q, db), NEW d
    PROVE  Owning(Disturbed(q, d), d)
<1> DEFINE r == Disturbed(q, d)
<1>1. Same(q, r) /\ r.stage = q.stage /\ (r.tainted <=> q.tainted \/ d # db)
  BY DisturbedIs
<1> HIDE DEF r
<1>2. Owning(r, d)
  BY <1>1 DEF Owning, Undisturbed, Erasing, OfForms, OfFields, OfErasure, Same
<1> QED BY <1>2 DEF r

\* So it holds always.
LEMMA OwningInv == Spec => [](Typed /\ \A w \in Workers : Owning(worker[w], db))
<1> DEFINE I == Typed /\ \A w \in Workers : Owning(worker[w], db)
<1>1. Init => I
  <2> SUFFICES ASSUME Init PROVE I
    OBVIOUS
  <2>1. Typed
    BY TypedInit, SituationsAssumption
  <2>2. boot \in Seq(SiteSlots) /\ worker = [w \in Workers |-> Fresh(boot)]
    BY <2>1 DEF Typed, TypeOK, Init
  <2>3. Owning(Fresh(boot), db)
    <3>1. Fresh(boot).stage = "idle"
      BY <2>2, FreshIs
    <3> QED BY <3>1, OwningElsewhere
  <2> QED BY <2>1, <2>2, <2>3
<1>2. I /\ [Next]_vars => I'
  <2> SUFFICES ASSUME I, [Next]_vars PROVE I'
    OBVIOUS
  <2>1. CASE Next
    <3>1. Typed' /\ db \in Database /\ boot \in Seq(SiteSlots)
      BY <2>1, StepIs, SituationsAssumption DEF Typed, TypeOK
    <3>2. PICK w \in Workers :
            /\ StepOf(worker[w], db', worker'[w])
            /\ \A v \in Workers : v # w => worker'[v] = Disturbed(worker[v], db')
      BY <2>1, StepIs, SituationsAssumption
    <3>3. \A v \in Workers : Shape(worker[v]) /\ Owning(worker[v], db)
      BY DEF Typed
    <3>4. ASSUME NEW v \in Workers PROVE Owning(worker'[v], db')
      <4>1. CASE v = w
        BY <3>1, <3>2, <3>3, <4>1, StepOwning
      <4>2. CASE v # w
        <5>1. Owning(Disturbed(worker[v], db'), db')
          BY <3>3, DisturbedOwning
        <5> QED BY <3>2, <4>2, <5>1
      <4> QED BY <4>1, <4>2
    <3> QED BY <3>1, <3>4
  <2>2. CASE UNCHANGED vars
    BY <2>2 DEF vars, Typed, TypeOK
  <2> QED BY <2>1, <2>2
<1> QED BY <1>1, <1>2, PTL DEF Spec

\* DeletesOwnForms for every set of workers, sites, forms and fields: up to the
\* site itself a deletion that nothing disturbs has all the forms of its site and
\* no other before it (DeleteSitePolicy, QueryFormPolicy).
THEOREM OwnFormsCorrect == Spec => []DeletesOwnForms
<1>1. ASSUME Typed, \A w \in Workers : Owning(worker[w], db)
      PROVE  DeletesOwnForms
  <2> SUFFICES ASSUME NEW w \in Workers, worker[w].stage \in {"deleteFields", "deleteForm"},
                      ~ worker[w].tainted
               PROVE  FormsOf(db, worker[w].req.id) =
                        {worker[w].local[1].forms[n].id :
                           n \in worker[w].j .. Len(worker[w].local[1].forms)}
    BY DEF DeletesOwnForms
  <2> DEFINE q == worker[w]
  <2>1. Shape(q) /\ Owning(q, db)
    BY <1>1 DEF Typed
  <2>2. Undisturbed(q) /\ OfErasure(q)
    BY <2>1 DEF Shape, Undisturbed, OfErasure, Deletes, Counts, Selects
  <2>3. Ahead(q.local[1].forms, q.j, FormsOf(db, q.req.id))
    BY <2>1, <2>2 DEF Owning, Erasing
  <2> HIDE DEF q
  <2>4. \A x : x \in FormsOf(db, q.req.id) <=>
               \E n \in q.j .. Len(q.local[1].forms) : q.local[1].forms[n].id = x
    BY <2>3 DEF Ahead
  <2>5. FormsOf(db, q.req.id) = {q.local[1].forms[n].id : n \in q.j .. Len(q.local[1].forms)}
    <3> DEFINE F == FormsOf(db, q.req.id)
               forms == q.local[1].forms
               R == q.j .. Len(forms)
    <3>1. \A x : x \in F <=> \E n \in R : forms[n].id = x
      BY <2>4
    <3> HIDE DEF F, forms, R
    <3>2. \A x : x \in F <=> x \in {forms[n].id : n \in R}
      BY <3>1
    <3>3. F = {forms[n].id : n \in R}
      BY <3>2
    <3> QED BY <3>3 DEF F, forms, R
  <2> QED BY <2>5 DEF q
<1> QED BY <1>1, OwningInv, PTL

-------------------------------------------------------------------------------
(* Rows left behind                                                        *)

\* A row without the row it belongs to.
StrayForm(d, f) == f \in DOMAIN d.forms /\ d.forms[f].site_id \notin DOMAIN d.sites
StrayField(d, n) == n \in DOMAIN d.fields /\ d.fields[n].form_id \notin DOMAIN d.forms

\* What OrphansExplained says of a worker that leaves o behind.
Leaves(q, o) ==
    \/ /\ q.stage = "statement" /\ q.req.table = "forms" /\ q.req.verb = "delete"
       /\ o[1] = "fields" /\ q.req.id = db.fields[o[2]].form_id
    \/ /\ q.stage = "statement" /\ q.req.verb \in {"add", "modify"}
       /\ <<q.req.table, q.req.id>> = o
    \/ q.stage \in {"deleteForm", "deleteSite"} /\ q.tainted

\* Orphans, row by row.
LEMMA OrphansAre ==
    ASSUME NEW d, NEW o
    PROVE  o \in Orphans(d) <=> \/ \E n : o = <<"fields", n>> /\ StrayField(d, n)
                                \/ \E f : o = <<"forms", f>> /\ StrayForm(d, f)
BY DEF Orphans, StrayField, StrayForm

\* Only the statements of Execute and of DeleteSitePolicy leave rows behind.
LEMMA ExecuteLeaves ==
    ASSUME db \in Database, NEW q, Shape(q), NEW d, NEW r, Executes(q, d, r)
    PROVE  /\ \A n : StrayField(d, n) /\ ~ StrayField(db, n) => Leaves(q, <<"fields", n>>)
           /\ \A f : StrayForm(d, f) /\ ~ StrayForm(db, f) => Leaves(q, <<"forms", f>>)
<1>1. CASE d = db
  BY <1>1
<1>2. CASE d # db
  <2>1. q.stage = "statement" /\ Single(q.req) /\ d = Statement(db, q.req)
    BY <1>2 DEF Executes, Shape
  <2> DEFINE req == q.req
  <2>2. req \in Writes
    BY <2>1 DEF Single
  <2>3. \/ req.table = "sites" /\ req.verb \in {"add", "modify"}
        \/ req.table = "forms" /\ req.verb \in {"add", "modify", "delete"}
        \/ req.table = "fields" /\ req.verb \in {"add", "modify", "delete"}
    BY <2>1, <2>2 DEF Single, Writes, Write
  <2>4. CASE req.table = "sites"
    <3>1. d.forms = db.forms /\ d.fields = db.fields /\ DOMAIN db.sites \subseteq DOMAIN d.sites
      BY <2>1, <2>4, StatementIs
    <3> QED BY <3>1 DEF StrayForm, StrayField
  <2>5. CASE req.table = "forms"
    <3>1. /\ d.sites = db.sites /\ d.fields = db.fields
          /\ \A f \in DOMAIN db.forms : f \in DOMAIN d.forms \/ f = req.id
          /\ req.verb # "delete" => DOMAIN db.forms \subseteq DOMAIN d.forms
          /\ \A f \in DOMAIN d.forms :
               f = req.id \/ (f \in DOMAIN db.forms /\ d.forms[f] = db.forms[f])
          /\ req.verb = "delete" => req.id \notin DOMAIN d.forms
      <4>1. Single(req) /\ d = Statement(db, req)
        BY <2>1
      <4> HIDE DEF req
      <4>2. d.sites = db.sites /\ d.fields = db.fields
        BY <2>5, <4>1, StatementIs
      <4>3. \A f \in DOMAIN db.forms : f \in DOMAIN d.forms \/ f = req.id
        BY <2>5, <4>1, StatementIs
      <4>4. req.verb # "delete" => DOMAIN db.forms \subseteq DOMAIN d.forms
        BY <2>5, <4>1, StatementIs
      <4>5. \A f \in DOMAIN d.forms :
              f = req.id \/ (f \in DOMAIN db.forms /\ d.forms[f] = db.forms[f])
        <5>1. \A f \in DOMAIN Statement(db, req).forms :
                f = req.id \/ (f \in DOMAIN db.forms /\ Statement(db, req).forms[f] = db.forms[f])
          BY <2>5, <4>1, StatementIs
        <5> QED BY <4>1, <5>1
      <4>6. req.verb = "delete" => req.id \notin DOMAIN d.forms
        BY <2>5, <4>1, StatementIs
      <4> QED BY <4>2, <4>3, <4>4, <4>5, <4>6
    <3> HIDE DEF req
    <3>2. ASSUME NEW n, StrayField(d, n), ~ StrayField(db, n)
          PROVE  req.verb = "delete" /\ req.id = db.fields[n].form_id
      BY <3>1, <3>2 DEF StrayField
    <3>3. ASSUME NEW f, StrayForm(d, f), ~ StrayForm(db, f)
          PROVE  f = req.id /\ req.verb \in {"add", "modify"}
      BY <2>3, <2>5, <3>1, <3>3 DEF StrayForm
    <3> QED BY <2>1, <2>5, <3>2, <3>3 DEF Leaves, req
  <2>6. CASE req.table = "fields"
    <3>1. /\ d.sites = db.sites /\ d.forms = db.forms
          /\ \A n \in DOMAIN d.fields :
               n = req.id \/ (n \in DOMAIN db.fields /\ d.fields[n] = db.fields[n])
          /\ req.verb = "delete" => req.id \notin DOMAIN d.fields
      <4>1. Single(req) /\ d = Statement(db, req)
        BY <2>1
      <4> HIDE DEF req
      <4>2. d.sites = db.sites /\ d.forms = db.forms
        BY <2>6, <4>1, StatementIs
      <4>3. \A n \in DOMAIN d.fields :
              n = req.id \/ (n \in DOMAIN db.fields /\ d.fields[n] = db.fields[n])
        <5>1. \A n \in DOMAIN Statement(db, req).fields :
                n = req.id \/ (n \in DOMAIN db.fields /\ Statement(db, req).fields[n] = db.fields[n])
          BY <2>6, <4>1, StatementIs
        <5> QED BY <4>1, <5>1
      <4>4. req.verb = "delete" => req.id \notin DOMAIN d.fields
        BY <2>6, <4>1, StatementIs
      <4> QED BY <4>2, <4>3, <4>4
    <3> HIDE DEF req
    <3>2. ASSUME NEW n, StrayField(d, n), ~ StrayField(db, n)
          PROVE  n = req.id /\ req.verb \in {"add", "modify"}
      BY <2>3, <2>6, <3>1, <3>2 DEF StrayField
    <3>3. ASSUME NEW f, StrayForm(d, f) PROVE StrayForm(db, f)
      BY <3>1, <3>3 DEF StrayForm
    <3> QED BY <2>1, <2>6, <3>2, <3>3 DEF Leaves, req
  <2> QED BY <2>3, <2>4, <2>5, <2>6
<1> QED BY <1>1, <1>2

\* The rows that a DELETE makes orphans are of the site it deletes.
LEMMA EraseLeaves ==
    ASSUME db \in Database, NEW q, Shape(q), Owning(q, db), NEW d, NEW r, Erases(q, d, r)
    PROVE  /\ \A n : StrayField(d, n) /\ ~ StrayField(db, n) => Leaves(q, <<"fields", n>>)
           /\ \A f : StrayForm(d, f) /\ ~ StrayForm(db, f) => Leaves(q, <<"forms", f>>)
<1>1. PICK ok \in BOOLEAN :
        \/ q.stage = "deleteFields" /\ ErasesFields(q, d, r, ok)
        \/ q.stage = "deleteForm" /\ ErasesForm(q, d, r, ok)
        \/ q.stage = "deleteSite" /\ ErasesSite(q, d, r, ok)
  BY ErasesIs
<1> DEFINE x == q.local[1].forms[q.j].id
<1>2. CASE d = db
  BY <1>2
<1>3. CASE q.stage = "deleteFields" /\ ErasesFields(q, d, r, ok) /\ ok
  <2>1. /\ d.sites = db.sites /\ d.forms = db.forms
        /\ \A n \in DOMAIN d.fields : n \in DOMAIN db.fields /\ d.fields[n] = db.fields[n]
    BY <1>3 DEF ErasesFields
  <2> QED BY <2>1 DEF StrayField, StrayForm
<1>4. CASE q.stage = "deleteForm" /\ ErasesForm(q, d, r, ok) /\ ok
  <2>1. /\ d.sites = db.sites /\ d.fields = db.fields
        /\ \A f : f \in DOMAIN d.forms <=> f \in DOMAIN db.forms /\ f # x
        /\ \A f \in DOMAIN d.forms : d.forms[f] = db.forms[f]
    BY <1>4 DEF ErasesForm
  <2>2. q.tainted \/ \A n \in DOMAIN db.fields : db.fields[n].form_id # x
    <3>1. SiteDelete(q.req) /\ ~ q.reload
      BY <1>4 DEF Shape, OfErasure, Deletes, Counts, Selects
    <3> QED BY <1>4, <3>1 DEF Owning, Undisturbed, Erasing
  <2> HIDE DEF x
  <2>3. \A f : StrayForm(d, f) => StrayForm(db, f)
    BY <2>1 DEF StrayForm
  <2>4. \A n : StrayField(d, n) /\ ~ StrayField(db, n) => q.tainted
    BY <2>1, <2>2 DEF StrayField
  <2> QED BY <1>4, <2>3, <2>4 DEF Leaves
<1>5. CASE q.stage = "deleteSite" /\ ErasesSite(q, d, r, ok) /\ ok
  <2>1. /\ d.forms = db.forms /\ d.fields = db.fields
        /\ \A s : s \in DOMAIN d.sites <=> s \in DOMAIN db.sites /\ s # q.req.id
    BY <1>5 DEF ErasesSite
  <2>2. q.tainted \/ \A f : f \notin FormsOf(db, q.req.id)
    <3>1. SiteDelete(q.req) /\ ~ q.reload
      BY <1>5 DEF Shape, OfErasure, Deletes, Counts, Selects
    <3> QED BY <1>5, <3>1 DEF Owning, Undisturbed, Erasing
  <2>3. \A n : StrayField(d, n) => StrayField(db, n)
    BY <2>1 DEF StrayField
  <2>4. \A f : StrayForm(d, f) /\ ~ StrayForm(db, f) => f \in FormsOf(db, q.req.id)
    BY <2>1 DEF StrayForm, FormsOf
  <2> QED BY <1>5, <2>2, <2>3, <2>4 DEF Leaves
<1> QED BY <1>1, <1>2, <1>3, <1>4, <1>5 DEF ErasesFields, ErasesForm, ErasesSite

\* No other step makes orphans of rows that were none.
LEMMA StepLeaves ==
    ASSUME db \in Database, NEW q, Shape(q), Owning(q, db), NEW d, NEW r, StepOf(q, d, r),
           NEW o \in Orphans(d) \ Orphans(db)
    PROVE  Leaves(q, o)
<1>1. d # db
  OBVIOUS
<1>2. Executes(q, d, r) \/ Erases(q, d, r)
  BY <1>1 DEF StepOf, Receives, Answers, Counting, Selecting, Sends, Dies
<1>3. /\ \A n : StrayField(d, n) /\ ~ StrayField(db, n) => Leaves(q, <<"fields", n>>)
      /\ \A f : StrayForm(d, f) /\ ~ StrayForm(db, f) => Leaves(q, <<"forms", f>>)
  BY <1>2, ExecuteLeaves, EraseLeaves
<1>4. \/ \E n : o = <<"fields", n>> /\ StrayField(d, n)
      \/ \E f : o = <<"forms", f>> /\ StrayForm(d, f)
  BY OrphansAre
<1>5. ~ \/ \E n : o = <<"fields", n>> /\ StrayField(db, n)
        \/ \E f : o = <<"forms", f>> /\ StrayForm(db, f)
  BY OrphansAre
<1> QED BY <1>3, <1>4, <1>5

\* OrphansExplained for every set of workers, sites, forms and fields: a row comes
\* to belong to nothing only by a request that says so or by a deletion of a site
\* that something disturbed, wherever a worker dies or a statement fails.
THEOREM OrphansCorrect == Spec => OrphansExplained
<1>1. ASSUME Typed, \A w \in Workers : Owning(worker[w], db), [Next]_vars
      PROVE  [\A o \in Orphans(db') \ Orphans(db) : \E w \in Workers :
                Leaves(worker[w], o)]_vars
  <2> SUFFICES ASSUME Next, NEW o \in Orphans(db') \ Orphans(db)
               PROVE  \E w \in Workers : Leaves(worker[w], o)
    BY <1>1
  <2>1. PICK w \in Workers : StepOf(worker[w], db', worker'[w])
    BY <1>1, StepIs, SituationsAssumption
  <2>2. db \in Database /\ Shape(worker[w]) /\ Owning(worker[w], db)
    BY <1>1 DEF Typed, TypeOK
  <2>3. Leaves(worker[w], o)
    BY <2>1, <2>2, StepLeaves
  <2> QED BY <2>3
<1>2. [\A o \in Orphans(db') \ Orphans(db) : \E w \in Workers : Leaves(worker[w], o)]_vars
      => [\A o \in Orphans(db') \ Orphans(db) : \E w \in Workers :
            LET q == worker[w] IN
            \/ /\ q.stage = "statement" /\ q.req.table = "forms" /\ q.req.verb = "delete"
               /\ o[1] = "fields" /\ q.req.id = db.fields[o[2]].form_id
            \/ /\ q.stage = "statement" /\ q.req.verb \in {"add", "modify"}
               /\ <<q.req.table, q.req.id>> = o
            \/ q.stage \in {"deleteForm", "deleteSite"} /\ q.tainted]_vars
  BY Zenon DEF Leaves
<1> QED BY <1>1, <1>2, OwningInv, PTL DEF Spec, OrphansExplained

-------------------------------------------------------------------------------
(* What a reload leaves in the cache                                       *)

\* The rows of a list h for the sites of d: those up to the n-th are complete, the
\* others are as the sites' own query left them.
SitesDone(h, d, n) ==
    /\ Len(h) = Cardinality(DOMAIN d.sites)
    /\ \A k \in 1 .. Len(h) : k <= n => h[k] = SiteView(d, Ascending(DOMAIN d.sites)[k])
    /\ \A k \in 1 .. Len(h) : n < k => h[k] = SiteSlot(d, Ascending(DOMAIN d.sites)[k])
FormsDone(fs, d, S, n) ==
    /\ Len(fs) = Cardinality(S)
    /\ \A k \in 1 .. Len(fs) : k <= n => fs[k] = FormView(d, Ascending(S)[k])
    /\ \A k \in 1 .. Len(fs) : n < k => fs[k] = FormSlot(d, Ascending(S)[k])

\* The same of all the rows but the i-th, which is only known by its own columns.
SitesBut(h, d, i) ==
    /\ Len(h) = Cardinality(DOMAIN d.sites)
    /\ \A k \in 1 .. Len(h) : k < i => h[k] = SiteView(d, Ascending(DOMAIN d.sites)[k])
    /\ \A k \in 1 .. Len(h) : i < k => h[k] = SiteSlot(d, Ascending(DOMAIN d.sites)[k])
    /\ h[i].id = Ascending(DOMAIN d.sites)[i]
    /\ h[i].row = d.sites[Ascending(DOMAIN d.sites)[i]]
FormsBut(fs, d, S, j) ==
    /\ Len(fs) = Cardinality(S)
    /\ \A k \in 1 .. Len(fs) : k < j => fs[k] = FormView(d, Ascending(S)[k])
    /\ \A k \in 1 .. Len(fs) : j < k => fs[k] = FormSlot(d, Ascending(S)[k])
    /\ fs[j].id = Ascending(S)[j] /\ fs[j].row = d.forms[Ascending(S)[j]]

\* A reload that nothing has disturbed has space for what it is about to read, the
\* complete rows of what it has read, and the rows' own columns of the rest; at
\* its end the cache is what is in the tables.
Reading(q, d) ==
    LET h == q.cache IN
    /\ q.stage = "selectSites" => Len(h) = Cardinality(DOMAIN d.sites)
    /\ OfForms(q) => SitesBut(h, d, q.i)
    /\ q.stage = "selectForms" => Len(h[q.i].forms) = Cardinality(FormsOf(d, h[q.i].id))
    /\ OfFields(q) => FormsBut(h[q.i].forms, d, FormsOf(d, h[q.i].id), q.j)
    /\ q.stage = "selectFields" =>
         Len(h[q.i].forms[q.j].fields) = Cardinality(FieldsOf(d, h[q.i].forms[q.j].id))
Faithful(q) == ~ q.tainted /\ q.heap = "ok"
Reloads(q, d) ==
    Faithful(q) => /\ q.reload => Reading(q, d)
                   /\ q.stage = "idle" => q.cache = View(d)

\* A worker that neither reloads nor has done so.
LEMMA ReloadsElsewhere ==
    ASSUME NEW r, Faithful(r) => ~ r.reload /\ r.stage # "idle", NEW d
    PROVE  Reloads(r, d)
BY DEF Reloads

\* When all the sites are done the list is that of the tables.
LEMMA SitesAll ==
    ASSUME NEW d \in Database, NEW h \in Seq(SiteSlots), NEW n \in Nat, SitesDone(h, d, n),
           ~ (n < Len(h))
    PROVE  h = View(d)
<1>1. /\ View(d) \in Seq(SiteSlots) /\ Len(View(d)) = Cardinality(DOMAIN d.sites)
      /\ \A k \in 1 .. Cardinality(DOMAIN d.sites) :
           View(d)[k] = SiteView(d, Ascending(DOMAIN d.sites)[k])
  BY ViewIs
<1>2. Len(h) = Len(View(d)) /\ Len(h) \in Nat
  BY <1>1 DEF SitesDone
<1>3. \A k \in 1 .. Len(h) : h[k] = View(d)[k]
  BY <1>1, <1>2 DEF SitesDone
<1>4. h \in [1 .. Len(h) -> SiteSlots] /\ View(d) \in [1 .. Len(h) -> SiteSlots]
  BY <1>1, <1>2
<1> QED BY <1>3, <1>4

\* Slots with the same columns are the same.
LEMMA SlotsEqual ==
    ASSUME NEW x \in SiteSlots, NEW y \in SiteSlots, x.id = y.id, x.row = y.row, x.forms = y.forms
    PROVE  x = y
BY DEF SiteSlots

\* Slots with equal parts are equal.
LEMMA FormSlotsEqual ==
    ASSUME NEW x \in FormSlots, NEW y \in FormSlots, x.id = y.id, x.row = y.row, x.fields = y.fields
    PROVE  x = y
BY DEF FormSlots

\* When all the forms of a site are done, so is the site.
LEMMA FormsAll ==
    ASSUME NEW d \in Database, NEW h \in Seq(SiteSlots), NEW i \in 1 .. Len(h), SitesBut(h, d, i),
           NEW n \in Nat, FormsDone(h[i].forms, d, FormsOf(d, h[i].id), n),
           ~ (n < Len(h[i].forms))
    PROVE  SitesDone(h, d, i)
<1> DEFINE s == Ascending(DOMAIN d.sites)[i]
           v == SiteView(d, s)
           S == FormsOf(d, s)
<1>1. Len(h) \in Nat /\ Len(h) = Cardinality(DOMAIN d.sites) /\ i \in Nat
  BY DEF SitesBut
<1>2. s \in DOMAIN d.sites
  BY <1>1, SiteRowsIs
<1> HIDE DEF s
<1>3. /\ v \in SiteSlots /\ v.id = s /\ v.row = d.sites[s] /\ Len(v.forms) = Cardinality(S)
      /\ \A k \in 1 .. Cardinality(S) : v.forms[k] = FormView(d, Ascending(S)[k])
  BY <1>2, ViewIs
<1>4. h[i] \in SiteSlots /\ h[i].id = s /\ h[i].row = d.sites[s]
  BY DEF SitesBut, s
<1>5. h[i].forms \in Seq(FormSlots) /\ v.forms \in Seq(FormSlots)
  BY <1>3, <1>4 DEF SiteSlots
<1>6. h[i].forms = v.forms
  <2> DEFINE fs == h[i].forms
             gs == v.forms
  <2>1. FormsDone(fs, d, S, n)
    BY <1>4
  <2>2. Len(fs) \in Nat /\ Len(fs) = Cardinality(S)
    BY <1>5, <2>1 DEF FormsDone
  <2>3. \A k \in 1 .. Len(fs) : fs[k] = FormView(d, Ascending(S)[k])
    <3> HIDE DEF fs, S
    <3> QED BY <2>1, <2>2 DEF FormsDone, fs
  <2>4. \A k \in 1 .. Len(fs) : fs[k] = gs[k]
    BY <1>3, <2>2, <2>3
  <2>5. fs \in [1 .. Len(fs) -> FormSlots] /\ gs \in [1 .. Len(fs) -> FormSlots]
    BY <1>3, <1>5, <2>2
  <2> HIDE DEF fs, gs
  <2>6. fs = gs
    BY <2>4, <2>5
  <2> QED BY <2>6 DEF fs, gs
<1> HIDE DEF v
<1>7. h[i] = v
  BY <1>3, <1>4, <1>6, SlotsEqual
<1>8. \A k \in 1 .. Len(h) : k <= i => h[k] = SiteView(d, Ascending(DOMAIN d.sites)[k])
  BY <1>1, <1>7 DEF SitesBut, v, s
<1> QED BY <1>1, <1>8 DEF SitesBut, SitesDone

\* From a list whose first i sites are done a worker comes to the next of them,
\* with what a reload has then.
LEMMA ToSiteReloads ==
    ASSUME db \in Database, NEW p \in Worker, p.reload, Faithful(p) => SitesDone(p.cache, db, p.i),
           NEW r, Kept(p, r), ToSite(p, r), r.tainted = FALSE => p.tainted = FALSE
    PROVE  Reloads(r, db)
<1> SUFFICES ASSUME Faithful(r)
             PROVE  /\ r.reload => Reading(r, db)
                    /\ r.stage = "idle" => r.cache = View(db)
  BY DEF Reloads
<1>1. r.cache = p.cache /\ Held(p) = p.cache /\ p.cache \in Seq(SiteSlots) /\ p.i \in Nat
  BY DEF Kept, Held, Worker
<1>2. SitesDone(p.cache, db, p.i)
  <2>1. p.heap = "ok" /\ p.tainted \in BOOLEAN
    BY DEF Kept, Faithful, Worker
  <2>2. ~ p.tainted
    BY <2>1 DEF Faithful
  <2> QED BY <2>1, <2>2 DEF Faithful
<1>3. CASE ~ (p.i < Len(p.cache))
  <2>1. r.stage = "idle" /\ ~ r.reload
    BY <1>1, <1>3 DEF ToSite, Ends
  <2>2. p.cache = View(db)
    BY <1>1, <1>2, <1>3, SitesAll
  <2> QED BY <1>1, <2>1, <2>2
<1>4. CASE p.i < Len(p.cache)
  <2>1. r.stage = "countForms" /\ r.i = p.i + 1
    BY <1>1, <1>4 DEF ToSite
  <2> DEFINE i == p.i + 1
             h == p.cache
  <2>2. i \in 1 .. Len(h) /\ Len(h) \in Nat /\ p.i \in Nat
    BY <1>1, <1>4
  <2>3. h[i] = SiteSlot(db, Ascending(DOMAIN db.sites)[i])
    BY <1>2, <2>2 DEF SitesDone
  <2>4. /\ h[i].id = Ascending(DOMAIN db.sites)[i]
        /\ h[i].row = db.sites[Ascending(DOMAIN db.sites)[i]]
    <3> HIDE DEF i, h
    <3> QED BY <2>3 DEF SiteSlot
  <2>5. SitesBut(h, db, i)
    BY <1>2, <2>2, <2>4 DEF SitesDone, SitesBut
  <2> QED BY <1>1, <2>1, <2>5 DEF Reading, OfForms, OfFields
<1> QED BY <1>3, <1>4

\* The same of the forms of the site in hand.
LEMMA ToFormReloads ==
    ASSUME db \in Database, NEW p \in Worker, p.reload, p.i \in 1 .. Len(p.cache),
           Faithful(p) => /\ SitesBut(p.cache, db, p.i)
                          /\ FormsDone(p.cache[p.i].forms, db, FormsOf(db, p.cache[p.i].id), p.j),
           NEW r, Kept(p, r), ToForm(p, r), r.tainted = FALSE => p.tainted = FALSE
    PROVE  Reloads(r, db)
<1>1. /\ r.cache = p.cache /\ Held(p) = p.cache /\ p.cache \in Seq(SiteSlots)
      /\ p.i \in Nat /\ p.j \in Nat
  BY DEF Kept, Held, Worker
<1>2. CASE ~ (p.j < Len(p.cache[p.i].forms))
  <2>1. ToSite(p, r)
    BY <1>1, <1>2 DEF ToForm
  <2>2. Faithful(p) => SitesDone(p.cache, db, p.i)
    BY <1>1, <1>2, FormsAll
  <2> QED BY <2>1, <2>2, ToSiteReloads
<1>3. CASE p.j < Len(p.cache[p.i].forms)
  <2> SUFFICES ASSUME Faithful(r) PROVE Reading(r, db) /\ r.stage # "idle"
    BY DEF Reloads
  <2>1. r.stage = "countFields" /\ r.j = p.j + 1 /\ r.i = p.i
    BY <1>1, <1>3 DEF ToForm
  <2>2. Faithful(p)
    <3>1. p.heap = "ok" /\ p.tainted \in BOOLEAN
      BY DEF Kept, Faithful, Worker
    <3>2. ~ p.tainted
      BY <3>1 DEF Faithful
    <3> QED BY <3>1, <3>2 DEF Faithful
  <2> DEFINE j == p.j + 1
             fs == p.cache[p.i].forms
             S == FormsOf(db, p.cache[p.i].id)
  <2>3. SitesBut(p.cache, db, p.i) /\ FormsDone(fs, db, S, p.j)
    BY <2>2
  <2>4. fs \in Seq(FormSlots)
    <3>1. p.cache[p.i] \in SiteSlots
      BY <1>1
    <3> QED BY <3>1 DEF SiteSlots
  <2>5. j \in 1 .. Len(fs) /\ Len(fs) \in Nat /\ p.j \in Nat
    BY SMTT(30), <1>1, <1>3, <2>4
  <2> HIDE DEF fs, S
  <2>6. fs[j] = FormSlot(db, Ascending(S)[j])
    BY <2>3, <2>5 DEF FormsDone
  <2>7. fs[j].id = Ascending(S)[j] /\ fs[j].row = db.forms[Ascending(S)[j]]
    <3> HIDE DEF j
    <3> QED BY <2>6 DEF FormSlot
  <2>8. FormsBut(fs, db, S, j)
    BY <2>3, <2>5, <2>7 DEF FormsDone, FormsBut
  <2> QED BY <1>1, <2>1, <2>3, <2>8 DEF Reading, OfForms, OfFields, fs, S
<1> QED BY <1>2, <1>3

\* Reading the fields of a form leaves the forms read so far as they are.
LEMMA FormsButKept ==
    ASSUME NEW fs, NEW d, NEW S, NEW j \in Nat, FormsBut(fs, d, S, j), NEW gs,
           Len(gs) = Len(fs), \A l \in 1 .. Len(fs) : l # j => gs[l] = fs[l],
           gs[j].id = fs[j].id, gs[j].row = fs[j].row
    PROVE  FormsBut(gs, d, S, j)
<1>1. ASSUME NEW l \in 1 .. Len(gs), l < j PROVE gs[l] = FormView(d, Ascending(S)[l])
  <2>1. gs[l] = fs[l]
    BY <1>1
  <2> QED BY <1>1, <2>1 DEF FormsBut
<1>2. ASSUME NEW l \in 1 .. Len(gs), j < l PROVE gs[l] = FormSlot(d, Ascending(S)[l])
  <2>1. gs[l] = fs[l]
    BY <1>2
  <2> QED BY <1>2, <2>1 DEF FormsBut
<1>3. Len(gs) = Cardinality(S)
  BY DEF FormsBut
<1>4. gs[j].id = Ascending(S)[j] /\ gs[j].row = d.forms[Ascending(S)[j]]
  BY DEF FormsBut
<1> QED BY <1>1, <1>2, <1>3, <1>4 DEF FormsBut

\* A COUNT keeps what a reload has loaded so far.
LEMMA CountReloads ==
    ASSUME db \in Database, NEW q, Shape(q), Reloads(q, db), NEW d, NEW r, Counting(q, d, r)
    PROVE  Reloads(r, db)
<1>0. q \in Worker
  BY DEF Shape
<1>1. PICK ok \in BOOLEAN : \/ q.stage = "countSites" /\ r = CountSites(q, ok)
                            \/ q.stage = "countForms" /\ r = CountForms(q, ok)
                            \/ q.stage = "countFields" /\ r = CountFields(q, ok)
  BY DEF Counting
<1>2. CASE q.stage = "countSites" /\ r = CountSites(q, ok)
  <2> DEFINE n == SitesCounted(ok)
  <2>1. /\ r \in Worker /\ r.stage = "selectSites" /\ Beside(q, r)
        /\ (r.tainted <=> q.tainted \/ ~ ok) /\ n \in Nat /\ Held(r) = Zeros(n, ZeroSite)
    BY <1>0, <1>2, CountSitesIs
  <2>2. Len(Held(r)) = n
    <3> HIDE DEF n
    <3> QED BY <2>1, ZerosIs, ZeroIs
  <2>3. Faithful(r) /\ r.reload => Len(r.cache) = Cardinality(DOMAIN db.sites)
    BY <2>1, <2>2 DEF Faithful, SitesCounted, Held
  <2> QED BY <2>1, <2>3 DEF Reloads, Reading, OfForms, OfFields
<1>3. CASE q.stage = "countForms" /\ r = CountForms(q, ok)
  <2> DEFINE n == FormsCounted(Held(q)[q.i].id, ok)
  <2>0. q.i \in 1 .. Len(Held(q))
    BY <1>3 DEF Shape, OfForms
  <2>1. /\ r.stage = "selectForms" /\ Beside(q, r) /\ r.heap = q.heap
        /\ (r.tainted <=> q.tainted \/ ~ ok) /\ r.i = q.i
        /\ n \in Nat /\ OneSite(Held(q), Held(r), q.i) /\ Held(r)[q.i].forms = Zeros(n, ZeroForm)
    BY <1>0, <1>3, <2>0, CountFormsIs
  <2>2. Len(Held(r)[r.i].forms) = n
    <3> HIDE DEF n
    <3> QED BY <2>1, ZerosIs, ZeroIs
  <2> SUFFICES ASSUME Faithful(r), r.reload PROVE Reading(r, db)
    BY <2>1 DEF Reloads
  <2>3. ok /\ Faithful(q) /\ q.reload /\ Held(q) = q.cache /\ Held(r) = r.cache
    BY <2>1 DEF Faithful, Beside, Held
  <2>4. SitesBut(q.cache, db, q.i)
    BY <1>3, <2>3 DEF Reloads, Reading, OfForms
  <2>5. SitesBut(r.cache, db, r.i)
    BY <2>0, <2>1, <2>3, <2>4 DEF SitesBut, OneSite
  <2>6. Len(r.cache[r.i].forms) = Cardinality(FormsOf(db, r.cache[r.i].id))
    BY <2>1, <2>2, <2>3 DEF FormsCounted, OneSite
  <2> QED BY <2>1, <2>5, <2>6 DEF Reading, OfForms, OfFields
<1>4. CASE q.stage = "countFields" /\ r = CountFields(q, ok)
  <2> DEFINE form == Held(q)[q.i].forms[q.j]
             n == FieldsCounted(form.id, ok)
             fs == Zeros(n, ZeroField)
             S == FormsOf(db, q.cache[q.i].id)
  <2>0. q.i \in 1 .. Len(Held(q)) /\ q.j \in 1 .. Len(Held(q)[q.i].forms)
    BY <1>4 DEF Shape, OfForms, OfFields
  <2>1. /\ r.stage = "selectFields" /\ Beside(q, r) /\ r.heap = q.heap
        /\ (r.tainted <=> q.tainted \/ ~ ok) /\ r.i = q.i /\ r.j = q.j
        /\ n \in Nat /\ OneForm(Held(q), Held(r), q.i, q.j, fs)
    BY <1>0, <1>4, <2>0, CountFieldsIs
  <2>2. Len(fs) = n
    <3> HIDE DEF n
    <3> QED BY <2>1, ZerosIs, SlotTypes
  <2> SUFFICES ASSUME Faithful(r), r.reload PROVE Reading(r, db)
    BY <2>1 DEF Reloads
  <2>3. ok /\ Faithful(q) /\ q.reload /\ Held(q) = q.cache /\ Held(r) = r.cache
    BY <2>1 DEF Faithful, Beside, Held
  <2>4. SitesBut(q.cache, db, q.i) /\ FormsBut(q.cache[q.i].forms, db, S, q.j)
    BY <1>4, <2>3 DEF Reloads, Reading, OfForms, OfFields
  <2>5. form \in FormSlots
    BY <1>0, <2>0, HeldForm
  <2>6. /\ [form EXCEPT !.fields = fs].id = form.id /\ [form EXCEPT !.fields = fs].fields = fs
        /\ [form EXCEPT !.fields = fs].row = form.row
    <3> HIDE DEF fs, form
    <3> QED BY <2>5 DEF FormSlots
  <2>7. r.cache[r.i].forms[r.j] = [form EXCEPT !.fields = fs]
    <3> HIDE DEF fs
    <3> QED BY <2>0, <2>1, <2>3 DEF OneForm
  <2>8. SitesBut(r.cache, db, r.i) /\ r.cache[r.i].id = q.cache[q.i].id
    <3>1. OneSite(q.cache, r.cache, q.i)
      BY <2>1, <2>3 DEF OneForm
    <3> QED BY SMTT(30), <2>0, <2>1, <2>3, <2>4, <3>1 DEF SitesBut, OneSite
  <2>9. /\ Len(r.cache[r.i].forms) = Len(q.cache[q.i].forms)
        /\ \A l \in 1 .. Len(q.cache[q.i].forms) :
             l # q.j => r.cache[r.i].forms[l] = q.cache[q.i].forms[l]
    <3> HIDE DEF fs
    <3> QED BY ZenonT(30), <2>1, <2>3 DEF OneForm
  <2>10. FormsBut(r.cache[r.i].forms, db, S, r.j)
    <3>1. /\ r.cache[r.i].forms[r.j].id = q.cache[q.i].forms[q.j].id
          /\ r.cache[r.i].forms[r.j].row = q.cache[q.i].forms[q.j].row
      BY <2>3, <2>6, <2>7
    <3>2. q.j \in Nat /\ r.j = q.j
      BY <1>0, <2>1 DEF Worker
    <3> DEFINE old == q.cache[q.i].forms
               new == r.cache[r.i].forms
    <3>3. FormsBut(old, db, S, q.j)
      BY <2>4
    <3>4. Len(new) = Len(old) /\ \A l \in 1 .. Len(old) : l # q.j => new[l] = old[l]
      BY <2>9
    <3>5. new[q.j].id = old[q.j].id /\ new[q.j].row = old[q.j].row
      BY <3>1, <3>2
    <3> HIDE DEF S, fs, form, old, new
    <3>6. FormsBut(new, db, S, q.j)
      BY <3>2, <3>3, <3>4, <3>5, FormsButKept
    <3> QED BY <3>2, <3>6 DEF new
  <2>11. Len(r.cache[r.i].forms[r.j].fields) = Cardinality(FieldsOf(db, r.cache[r.i].forms[r.j].id))
    <3> HIDE DEF fs, form
    <3> QED BY <2>2, <2>3, <2>6, <2>7 DEF FieldsCounted
  <2> QED BY <2>1, <2>8, <2>10, <2>11 DEF Reading, OfForms, OfFields
<1> QED BY <1>1, <1>2, <1>3, <1>4

\* A SELECT loads the rows as they are in the database.
LEMMA SelectReloads ==
    ASSUME db \in Database, NEW q, Shape(q), Within(q, db), Reloads(q, db), q.reload,
           NEW d, NEW r, Selecting(q, d, r)
    PROVE  Reloads(r, db)
<1>0. q \in Worker /\ Held(q) = q.cache /\ q.cache \in Seq(SiteSlots)
  BY DEF Shape, Worker, Held
<1>1. PICK ok \in BOOLEAN : \/ q.stage = "selectSites" /\ r = SelectSites(q, ok)
                            \/ q.stage = "selectForms" /\ r = SelectForms(q, ok)
                            \/ q.stage = "selectFields" /\ r = SelectFields(q, ok)
  BY DEF Selecting
<1>2. CASE q.stage = "selectSites" /\ r = SelectSites(q, ok)
  <2> DEFINE rows == SitesFetched(ok)
             slots == q.cache
  <2>1. PICK p \in Worker :
           /\ Beside(q, p) /\ p.tainted = q.tainted
           /\ Held(p) = Fill(slots, From(q), rows)
           /\ p.heap = Heap(q, slots, From(q), rows)
           /\ q.reload => p.i = 0
           /\ SelectSites(q, ok) = Failed(IF q.reload THEN NextSite(p) ELSE Listed(p), ok)
    BY <1>0, SelectSitesIs
  <2>2. r = Failed(NextSite(p), ok)
    BY <1>2, <2>1
  <2>3. Kept(p, r) /\ ToSite(p, r) /\ (r.tainted <=> p.tainted \/ ~ ok)
    BY <2>2, GoesOn
  <2>4. p.reload /\ Held(p) = p.cache /\ p.i = 0
    BY <2>1 DEF Beside, Held
  <2>5. ASSUME Faithful(r) PROVE SitesDone(p.cache, db, p.i)
    <3>1. ok /\ p.heap = "ok" /\ ~ q.tainted
      BY <2>1, <2>3, <2>5 DEF Faithful, Kept
    <3>2. q.heap = "ok" /\ Faithful(q)
      BY <2>1, <3>1 DEF Heap, Faithful
    <3>3. From(q) = 0 /\ Len(slots) = Cardinality(DOMAIN db.sites)
      BY <1>2, <3>2 DEF Within, From, Reloads, Reading
    <3>4. rows = SiteRows(db)
      BY <3>1 DEF SitesFetched
    <3>5. Len(rows) = Len(slots) /\ rows \in Seq(SiteSlots)
      BY <3>3, <3>4, SiteRowsIs
    <3>6. p.cache = rows
      <4> HIDE DEF rows, slots
      <4>1. slots \in Seq(SiteSlots)
        BY <1>0 DEF slots
      <4>2. Fill(slots, 0, rows) = rows
        BY <3>5, <4>1, FillAll
      <4> QED BY <2>1, <2>4, <3>3, <4>2
    <3>7. /\ Len(p.cache) = Cardinality(DOMAIN db.sites) /\ Cardinality(DOMAIN db.sites) \in Nat
          /\ \A k \in 1 .. Cardinality(DOMAIN db.sites) :
               p.cache[k] = SiteSlot(db, Ascending(DOMAIN db.sites)[k])
      BY <3>4, <3>6, SiteRowsIs
    <3> QED BY <2>4, <3>7 DEF SitesDone
  <2>6. CASE Faithful(r)
    <3>1. SitesDone(p.cache, db, p.i)
      BY <2>5, <2>6
    <3>2. Faithful(p) => SitesDone(p.cache, db, p.i)
      BY <3>1
    <3>3. r.tainted = FALSE => p.tainted = FALSE
      BY <2>3 DEF Worker
    <3> HIDE DEF rows, slots
    <3> QED BY <2>3, <2>4, <3>2, <3>3, ToSiteReloads
  <2>7. CASE ~ Faithful(r)
    BY <2>7 DEF Reloads
  <2> QED BY <2>6, <2>7
<1>3. CASE q.stage = "selectForms" /\ r = SelectForms(q, ok)
  <2> DEFINE slot == q.cache[q.i]
             rows == FormsFetched(slot.id, ok)
             S == FormsOf(db, slot.id)
  <2>0. q.i \in 1 .. Len(q.cache)
    BY <1>0, <1>3 DEF Shape, OfForms
  <2>1. PICK p \in Worker :
           /\ Beside(q, p) /\ p.i = q.i /\ p.j = 0 /\ p.tainted = q.tainted
           /\ OneSite(Held(q), Held(p), q.i)
           /\ Held(p)[q.i].forms = Fill(slot.forms, 0, rows)
           /\ p.heap = Heap(q, slot.forms, 0, rows)
           /\ SelectForms(q, ok) = Failed(NextForm(p), ok)
    BY <1>0, <2>0, SelectFormsIs
  <2>2. r = Failed(NextForm(p), ok)
    BY <1>3, <2>1
  <2>3. Kept(p, r) /\ ToForm(p, r) /\ (r.tainted <=> p.tainted \/ ~ ok)
    BY <2>2, GoesOn
  <2>4. p.reload /\ Held(p) = p.cache /\ OneSite(q.cache, p.cache, q.i)
    BY <1>0, <2>1 DEF Beside, Held
  <2>5. p.i \in 1 .. Len(p.cache) /\ p.cache[p.i].id = slot.id
    BY <2>0, <2>1, <2>4 DEF OneSite
  <2>6. ASSUME Faithful(r)
        PROVE  SitesBut(p.cache, db, p.i) /\ FormsDone(p.cache[p.i].forms, db, S, p.j)
    <3>1. ok /\ p.heap = "ok" /\ ~ q.tainted
      BY <2>1, <2>3, <2>6 DEF Faithful, Kept
    <3>2. q.heap = "ok" /\ Faithful(q)
      BY <2>1, <3>1 DEF Heap, Faithful
    <3>3. SitesBut(q.cache, db, q.i) /\ Len(slot.forms) = Cardinality(S)
      BY <1>3, <3>2 DEF Reloads, Reading, OfForms
    <3>4. SitesBut(p.cache, db, p.i)
      BY <2>0, <2>1, <2>4, <3>3 DEF SitesBut, OneSite
    <3>5. rows = FormRows(db, slot.id)
      BY <3>1 DEF FormsFetched
    <3>6. Len(rows) = Len(slot.forms) /\ rows \in Seq(FormSlots) /\ slot.forms \in Seq(FormSlots)
      <4>1. slot.forms \in Seq(FormSlots)
        BY <1>0, <2>0, HeldForm
      <4>2. Len(rows) = Cardinality(S) /\ rows \in Seq(FormSlots)
        BY <3>5, FormRowsIs
      <4> QED BY <3>3, <4>1, <4>2
    <3>7. p.cache[p.i].forms = rows
      <4> HIDE DEF rows, slot
      <4>1. Fill(slot.forms, 0, rows) = rows
        BY <3>6, FillAll
      <4> QED BY <2>1, <2>4, <4>1
    <3>8. /\ Len(rows) = Cardinality(S) /\ Cardinality(S) \in Nat
          /\ \A k \in 1 .. Cardinality(S) : rows[k] = FormSlot(db, Ascending(S)[k])
      BY <3>5, FormRowsIs
    <3>9. FormsDone(p.cache[p.i].forms, db, S, p.j)
      <4> HIDE DEF rows, S
      <4> QED BY <2>1, <3>7, <3>8 DEF FormsDone
    <3> QED BY <3>4, <3>9
  <2>7. CASE Faithful(r)
    <3>1. Faithful(p) => SitesBut(p.cache, db, p.i) /\ FormsDone(p.cache[p.i].forms, db, S, p.j)
      BY <2>6, <2>7
    <3>2. Faithful(p) => /\ SitesBut(p.cache, db, p.i)
                         /\ FormsDone(p.cache[p.i].forms, db, FormsOf(db, p.cache[p.i].id), p.j)
      BY <2>5, <3>1
    <3>3. r.tainted = FALSE => p.tainted = FALSE
      BY <2>3 DEF Worker
    <3> HIDE DEF rows, slot, S
    <3> QED BY <2>3, <2>4, <2>5, <3>2, <3>3, ToFormReloads
  <2>8. CASE ~ Faithful(r)
    BY <2>8 DEF Reloads
  <2> QED BY <2>7, <2>8
<1>4. CASE q.stage = "selectFields" /\ r = SelectFields(q, ok)
  <2> DEFINE slot == q.cache[q.i].forms[q.j]
             rows == FieldsFetched(slot.id, ok)
             fs == Fill(slot.fields, 0, rows)
             S == FormsOf(db, q.cache[q.i].id)
  <2>0. q.i \in 1 .. Len(q.cache) /\ q.j \in 1 .. Len(q.cache[q.i].forms)
    BY <1>0, <1>4 DEF Shape, OfForms, OfFields
  <2>1. PICK p \in Worker :
           /\ Beside(q, p) /\ p.i = q.i /\ p.j = q.j /\ p.tainted = q.tainted
           /\ OneForm(Held(q), Held(p), q.i, q.j, fs)
           /\ p.heap = Heap(q, slot.fields, 0, rows)
           /\ SelectFields(q, ok) = Failed(NextForm(p), ok)
    BY <1>0, <2>0, SelectFieldsIs
  <2>2. r = Failed(NextForm(p), ok)
    BY <1>4, <2>1
  <2>3. Kept(p, r) /\ ToForm(p, r) /\ (r.tainted <=> p.tainted \/ ~ ok)
    BY <2>2, GoesOn
  <2>4. p.reload /\ Held(p) = p.cache /\ OneForm(q.cache, p.cache, q.i, q.j, fs)
    BY <1>0, <2>1 DEF Beside, Held
  <2>5. p.i \in 1 .. Len(p.cache) /\ p.cache[p.i].id = q.cache[q.i].id
    BY <2>0, <2>1, <2>4 DEF OneSite, OneForm
  <2>6. ASSUME Faithful(r)
        PROVE  SitesBut(p.cache, db, p.i) /\ FormsDone(p.cache[p.i].forms, db, S, p.j)
    <3>1. ok /\ p.heap = "ok" /\ ~ q.tainted
      BY <2>1, <2>3, <2>6 DEF Faithful, Kept
    <3>2. q.heap = "ok" /\ Faithful(q)
      BY <2>1, <3>1 DEF Heap, Faithful
    <3>3. /\ SitesBut(q.cache, db, q.i) /\ FormsBut(q.cache[q.i].forms, db, S, q.j)
          /\ Len(slot.fields) = Cardinality(FieldsOf(db, slot.id))
      BY <1>4, <3>2 DEF Reloads, Reading, OfForms, OfFields
    <3>4. SitesBut(p.cache, db, p.i)
      <4>1. OneSite(q.cache, p.cache, q.i)
        BY <2>4 DEF OneForm
      <4>2. p.i = q.i /\ SitesBut(q.cache, db, q.i) /\ q.i \in 1 .. Len(q.cache)
        BY <2>0, <2>1, <3>3
      <4> QED BY <4>1, <4>2 DEF SitesBut, OneSite
    <3>5. rows = FieldRows(db, slot.id)
      BY <3>1 DEF FieldsFetched
    <3>6. slot \in FormSlots /\ slot.fields \in Seq(FieldSlots)
      BY <1>0, <2>0, HeldForm
    <3>7. fs = FieldRows(db, slot.id) /\ fs \in Seq(FieldSlots)
      <4>1. Len(rows) = Cardinality(FieldsOf(db, slot.id)) /\ rows \in Seq(FieldSlots)
        BY <3>5, FieldRowsIs
      <4>2. Len(rows) = Len(slot.fields)
        BY <3>3, <4>1
      <4> HIDE DEF rows, slot
      <4>3. Fill(slot.fields, 0, rows) = rows
        BY <3>6, <4>1, <4>2, FillAll
      <4> QED BY <3>5, <4>1, <4>3
    <3>8. [slot EXCEPT !.fields = fs] = FormView(db, Ascending(S)[q.j])
      <4> DEFINE x == [slot EXCEPT !.fields = fs]
                 f == Ascending(S)[q.j]
                 y == FormView(db, f)
      <4>1. slot.id = f /\ slot.row = db.forms[f]
        BY <3>3 DEF FormsBut
      <4>2. f \in DOMAIN db.forms
        <5>1. q.j \in 1 .. Cardinality(S)
          BY <2>0, <3>3 DEF FormsBut
        <5> QED BY <5>1, FormRowsIs
      <4>3. y \in FormSlots /\ y = [FormSlot(db, f) EXCEPT !.fields = FieldRows(db, f)]
        BY <4>2, ViewIs
      <4>4. y.id = f /\ y.row = db.forms[f] /\ y.fields = FieldRows(db, f)
        <5> HIDE DEF f
        <5> QED BY <4>3 DEF FormSlot
      <4> HIDE DEF slot, fs, f, y
      <4>5. x \in FormSlots /\ x.id = slot.id /\ x.row = slot.row /\ x.fields = fs
        BY <3>6, <3>7 DEF FormSlots
      <4> HIDE DEF x
      <4>6. x = y
        <5>1. x.id = y.id /\ x.row = y.row /\ x.fields = y.fields /\ x \in FormSlots /\ y \in FormSlots
          BY <3>7, <4>1, <4>3, <4>4, <4>5 DEF slot, f
        <5> QED BY <5>1, FormSlotsEqual
      <4> QED BY <4>6 DEF x, y, f
    <3>9. FormsDone(p.cache[p.i].forms, db, S, p.j)
      <4> DEFINE gs == p.cache[p.i].forms
                 hs == q.cache[q.i].forms
      <4>1. /\ Len(gs) = Len(hs)
            /\ \A l \in 1 .. Len(hs) : l # q.j => gs[l] = hs[l]
            /\ gs[q.j] = [slot EXCEPT !.fields = fs]
        <5>1. OneForm(q.cache, p.cache, q.i, q.j, fs) /\ p.i = q.i /\ q.j \in 1 .. Len(hs)
          BY <2>0, <2>1, <2>4
        <5> HIDE DEF fs
        <5> QED BY <5>1 DEF OneForm
      <4>2. gs[q.j] = FormView(db, Ascending(S)[q.j])
        BY <3>8, <4>1
      <4>3. p.j = q.j /\ q.j \in 1 .. Len(hs) /\ Len(hs) \in Nat /\ FormsBut(hs, db, S, q.j)
        <5>1. hs \in Seq(FormSlots)
          BY <1>0, <2>0, HeldForm
        <5>2. p.j = q.j /\ q.j \in 1 .. Len(hs) /\ FormsBut(hs, db, S, q.j)
          BY <2>0, <2>1, <3>3
        <5> HIDE DEF hs
        <5> QED BY <5>1, <5>2
      <4> HIDE DEF gs, hs, S, fs, slot
      <4>4. FormsDone(gs, db, S, p.j)
        <5>1. q.j \in Nat
          BY <4>3
        <5>2. Len(gs) = Cardinality(S)
          BY <4>1, <4>3 DEF FormsBut
        <5>3. ASSUME NEW k \in 1 .. Len(gs), k <= q.j PROVE gs[k] = FormView(db, Ascending(S)[k])
          BY <4>1, <4>2, <4>3, <5>1, <5>3 DEF FormsBut
        <5>4. ASSUME NEW k \in 1 .. Len(gs), q.j < k PROVE gs[k] = FormSlot(db, Ascending(S)[k])
          BY <4>1, <4>3, <5>1, <5>4 DEF FormsBut
        <5> QED BY <4>3, <5>2, <5>3, <5>4 DEF FormsDone
      <4> QED BY <4>4 DEF gs
    <3> QED BY <3>4, <3>9
  <2>7. CASE Faithful(r)
    <3> HIDE DEF fs
    <3>1. Faithful(p) => SitesBut(p.cache, db, p.i) /\ FormsDone(p.cache[p.i].forms, db, S, p.j)
      BY <2>6, <2>7
    <3>2. Faithful(p) => /\ SitesBut(p.cache, db, p.i)
                         /\ FormsDone(p.cache[p.i].forms, db, FormsOf(db, p.cache[p.i].id), p.j)
      BY <2>5, <3>1
    <3>3. r.tainted = FALSE => p.tainted = FALSE
      BY <2>3 DEF Worker
    <3> HIDE DEF rows, slot, S
    <3> QED BY <2>3, <2>4, <2>5, <3>2, <3>3, ToFormReloads
  <2>8. CASE ~ Faithful(r)
    BY <2>8 DEF Reloads
  <2> QED BY <2>7, <2>8
<1> QED BY <1>1, <1>2, <1>3, <1>4

\* Every step of a reload does one or the other.
LEMMA StepReloads ==
    ASSUME db \in Database, boot \in Seq(SiteSlots), NEW q, Shape(q), Within(q, db),
           Reloads(q, db), NEW d, NEW r, StepOf(q, d, r)
    PROVE  Reloads(r, d)
<1>0. q.reload => q.stage \in Counts \cup Selects
  BY DEF Shape
<1>1. CASE Receives(q, d, r)
  <2>1. /\ r.stage \in {"countSites", "countForms", "countFields", "statement"} /\ ~ r.reload
    BY <1>1, ReceivedIs DEF Receives
  <2> QED BY <2>1, ReloadsElsewhere
<1>2. CASE Executes(q, d, r)
  <2>1. PICK ok \in BOOLEAN, stage \in {"readBack", "send"} :
           /\ r = Failed([q EXCEPT !.stage = stage], ok)
           /\ stage = "readBack" => q.req.verb = "add"
    BY <1>2 DEF Executes
  <2>2. q.stage = "statement" /\ (q.req.verb = "other" \/ Single(q.req))
    BY <1>2 DEF Executes, Shape
  <2>3. Same(q, r) /\ r.stage = stage
    BY <2>1, <2>2, ExecutedIs
  <2>4. ~ r.reload /\ r.stage # "idle"
    BY <1>0, <2>2, <2>3 DEF Same, Counts, Selects
  <2> QED BY <2>4, ReloadsElsewhere
<1>3. CASE Answers(q, d, r)
  <2>1. PICK ok \in BOOLEAN :
          r = Failed([q EXCEPT !.stage = "send",
                       !.answer = {LastOf(q, IF ok THEN RowsLike(db, q.req) ELSE {})}], ok)
    BY <1>3 DEF Answers
  <2>2. r.stage = "send" /\ ~ r.reload
    BY <1>3, <2>1, AnsweredIs DEF Answers
  <2> QED BY <2>2, ReloadsElsewhere
<1>4. CASE Counting(q, d, r)
  <2>1. d = db
    BY <1>4 DEF Counting
  <2> QED BY <1>4, <2>1, CountReloads
<1>5. CASE Selecting(q, d, r)
  <2>1. d = db
    BY <1>5 DEF Selecting
  <2>2. CASE q.reload
    BY <1>5, <2>1, <2>2, SelectReloads
  <2>3. CASE ~ q.reload
    <3>1. PICK p \in Worker, ok \in BOOLEAN :
             /\ p.req = q.req /\ p.reload = q.reload
             /\ \/ r = Failed(Listed(p), ok) \/ r = Failed(NextSite(p), ok)
                \/ r = Failed(NextForm(p), ok)
      BY <1>5, SelectsOn
    <3>2. Ends(p, r) \/ ToSite(p, r) \/ ToForm(p, r)
      BY <3>1, GoesOn
    <3>3. ~ r.reload /\ r.stage # "idle"
      BY <2>3, <3>1, <3>2 DEF Ends, ToSite, ToForm, Remains
    <3> QED BY <3>3, ReloadsElsewhere
  <2> QED BY <2>2, <2>3
<1>6. CASE Erases(q, d, r)
  <2>1. PICK ok \in BOOLEAN :
          \/ q.stage = "deleteFields" /\ ErasesFields(q, d, r, ok)
          \/ q.stage = "deleteForm" /\ ErasesForm(q, d, r, ok)
          \/ q.stage = "deleteSite" /\ ErasesSite(q, d, r, ok)
    BY <1>6, ErasesIs
  <2>2. ~ r.reload /\ r.stage # "idle"
    BY <1>0, <2>1 DEF ErasesFields, ErasesForm, ErasesSite, Same, Counts, Selects
  <2> QED BY <2>2, ReloadsElsewhere
<1>7. CASE Sends(q, d, r)
  <2>1. CASE r = Reloading(q)
    <3>1. r.stage = "countSites"
      BY <1>7, <2>1, SentIs DEF Sends
    <3> QED BY <3>1 DEF Reloads, Reading, OfForms, OfFields
  <2>2. CASE r = Failed(Idle(q), FALSE)
    <3>1. r.tainted
      BY <1>7, <2>2, SentIs DEF Sends
    <3> QED BY <3>1 DEF Reloads, Faithful
  <2> QED BY <1>7, <2>1, <2>2 DEF Sends
<1>8. CASE Dies(d, r)
  <2>1. r.tainted
    BY <1>8, FreshIs DEF Dies
  <2> QED BY <2>1 DEF Reloads, Faithful
<1> QED BY <1>1, <1>2, <1>3, <1>4, <1>5, <1>6, <1>7, <1>8 DEF StepOf

\* A step of another worker taints the reload if it changes the database.
LEMMA DisturbedReloads ==
    ASSUME NEW q, Shape(q), Reloads(q, db), NEW d
    PROVE  Reloads(Disturbed(q, d), d)
<1> DEFINE r == Disturbed(q, d)
<1>1. Same(q, r) /\ r.stage = q.stage /\ (r.tainted <=> q.tainted \/ d # db)
  BY DisturbedIs
<1> HIDE DEF r
<1>2. CASE d = db
  <2>1. Reading(q, db) => Reading(r, d)
    BY <1>1, <1>2 DEF Reading, OfForms, OfFields, Same
  <2>2. Reloads(r, d)
    BY <1>1, <1>2, <2>1 DEF Reloads, Faithful, Same
  <2> QED BY <2>2 DEF r
<1>3. CASE d # db
  <2>1. Reloads(r, d)
    BY <1>1, <1>3 DEF Reloads, Faithful
  <2> QED BY <2>1 DEF r
<1> QED BY <1>2, <1>3

\* So a reload that is not tainted has loaded the database as it is.
LEMMA ReloadsInv ==
    Spec => [](Typed /\ \A w \in Workers : Within(worker[w], db) /\ Reloads(worker[w], db))
<1> DEFINE W == Typed /\ \A w \in Workers : Within(worker[w], db)
           I == \A w \in Workers : Reloads(worker[w], db)
<1>1. Init => I
  <2> SUFFICES ASSUME Init PROVE I
    OBVIOUS
  <2>1. Typed
    BY TypedInit, SituationsAssumption
  <2>2. boot \in Seq(SiteSlots) /\ worker = [w \in Workers |-> Fresh(boot)] /\ boot = View(db)
    BY <2>1 DEF Typed, TypeOK, Init
  <2>3. /\ Fresh(boot).stage = "idle" /\ Fresh(boot).cache = boot /\ ~ Fresh(boot).reload
    <3>1. Fresh(boot).stage = "idle" /\ Fresh(boot).cache = boot
      BY <2>2, FreshIs
    <3>2. ~ Fresh(boot).reload
      BY DEF Fresh
    <3> QED BY <3>1, <3>2
  <2>4. Reloads(Fresh(boot), db)
    BY <2>2, <2>3 DEF Reloads
  <2> QED BY <2>2, <2>4
<1>2. W /\ I /\ [Next]_vars => I'
  <2> SUFFICES ASSUME W, I, [Next]_vars PROVE I'
    OBVIOUS
  <2>1. CASE Next
    <3>1. db \in Database /\ boot \in Seq(SiteSlots)
      BY DEF Typed, TypeOK
    <3>2. PICK w \in Workers :
            /\ StepOf(worker[w], db', worker'[w])
            /\ \A v \in Workers : v # w => worker'[v] = Disturbed(worker[v], db')
      BY <2>1, StepIs, SituationsAssumption
    <3>3. \A v \in Workers : Shape(worker[v]) /\ Within(worker[v], db) /\ Reloads(worker[v], db)
      BY DEF Typed
    <3>4. ASSUME NEW v \in Workers PROVE Reloads(worker'[v], db')
      <4>1. CASE v = w
        BY <3>1, <3>2, <3>3, <4>1, StepReloads
      <4>2. CASE v # w
        <5>1. Reloads(Disturbed(worker[v], db'), db')
          BY <3>3, DisturbedReloads
        <5> QED BY <3>2, <4>2, <5>1
      <4> QED BY <4>1, <4>2
    <3> QED BY <3>4
  <2>2. CASE UNCHANGED vars
    BY <2>2 DEF vars
  <2> QED BY <2>1, <2>2
<1>3. W /\ I => Typed /\ \A w \in Workers : Within(worker[w], db) /\ Reloads(worker[w], db)
  OBVIOUS
<1>4. Spec => []W
  BY WithinInv
<1> QED BY <1>1, <1>2, <1>3, <1>4, PTL DEF Spec

\* CurrentUnlessTainted for every set of workers, sites, forms and fields and any
\* number of requests: a reload of six kinds of statements, through which other
\* workers' statements may run at any point, leaves in the cache exactly what is in
\* the tables unless it was marked (InitPostPolicy, GetSitePolicy,
\* QueryFormPolicy, QueryFieldPolicy).
THEOREM CurrentCorrect == Spec => []CurrentUnlessTainted
<1>1. ASSUME Typed, \A w \in Workers : Within(worker[w], db) /\ Reloads(worker[w], db)
      PROVE  CurrentUnlessTainted
  BY <1>1 DEF CurrentUnlessTainted, Reloads, Faithful
<1> QED BY <1>1, ReloadsInv, PTL
-------------------------------------------------------------------------------
(* One worker without failures keeps the contract                           *)

\* Rows that are taken out in two steps.
LEMMA RemovedTwice ==
    ASSUME NEW t, NEW A, NEW B
    PROVE  Removed(Removed(t, A), B) = Removed(t, A \cup B)
<1> DEFINE u == Removed(t, A)
<1>1. u = [x \in DOMAIN t \ A |-> t[x]]
  BY DEF Removed, Restrict
<1>2. Removed(u, B) = [x \in DOMAIN u \ B |-> u[x]]
  BY DEF Removed, Restrict
<1>3. DOMAIN u = DOMAIN t \ A /\ \A x \in DOMAIN u : u[x] = t[x]
  BY <1>1
<1> HIDE DEF u
<1>4. DOMAIN u \ B = DOMAIN t \ (A \cup B)
  BY <1>3
<1>5. Removed(u, B) = [x \in DOMAIN t \ (A \cup B) |-> t[x]]
  BY <1>2, <1>3, <1>4
<1> QED BY <1>5 DEF Removed, Restrict, u

\* The fields of a form of a site, and a form that has no fields left, go with the
\* site: it makes no difference if they are gone already.
LEMMA ErasedAlready ==
    ASSUME NEW d \in Database, NEW s, NEW x \in FormsOf(d, s)
    PROVE  /\ Erased(DeleteField4Form(d, x), s) = Erased(d, s)
           /\ FieldsOf(d, x) = {} => Erased(DeleteFormPolicy(d, x), s) = Erased(d, s)
<1> DEFINE forms == FormsOf(d, s)
           orphans == UNION {FieldsOf(d, f) : f \in forms}
           Fields(e, F) == UNION {FieldsOf(e, f) : f \in F}
<1>1. /\ d.sites \in Table(SiteIds, SiteRow) /\ d.forms \in Table(FormIds, FormRow)
      /\ d.fields \in Table(FieldIds, FieldRow)
  BY DatabaseIs
<1>2. Erased(DeleteField4Form(d, x), s) = Erased(d, s)
  <2> DEFINE e == DeleteField4Form(d, x)
             A == FieldsOf(d, x)
             B == Fields(e, FormsOf(e, s))
  <2>1. Removed(d.fields, A) \in Table(FieldIds, FieldRow)
    BY <1>1, RemovedType
  <2>2. e.sites = d.sites /\ e.forms = d.forms /\ e.fields = Removed(d.fields, A)
    BY <2>1, DatabaseIs DEF DeleteField4Form
  <2> HIDE DEF e
  <2>3. FormsOf(e, s) = forms
    BY <2>2 DEF FormsOf
  <2>4. \A f : FieldsOf(e, f) = FieldsOf(d, f) \ A
    <3>1. /\ \A n : n \in DOMAIN e.fields <=> n \in DOMAIN d.fields /\ n \notin A
          /\ \A n \in DOMAIN d.fields : n \notin A => e.fields[n] = d.fields[n]
      BY <2>2, RemovedIs
    <3> HIDE DEF A
    <3> QED BY <3>1 DEF FieldsOf
  <2>5. A \cup B = orphans
    <3> HIDE DEF forms
    <3>1. x \in forms
      BY DEF forms
    <3>2. B = UNION {FieldsOf(e, f) : f \in forms}
      BY <2>3
    <3>3. \A n : n \in B <=> \E f \in forms : n \in FieldsOf(d, f) /\ n \notin A
      BY <2>4, <3>2
    <3>4. \A n : n \in orphans <=> \E f \in forms : n \in FieldsOf(d, f)
      OBVIOUS
    <3>5. A \subseteq orphans
      BY <3>1, <3>4
    <3> HIDE DEF A, B, orphans
    <3> QED BY <3>3, <3>4, <3>5
  <2>6. Erased(e, s) = [sites |-> Removed(d.sites, {s}), forms |-> Removed(d.forms, forms),
                        fields |-> Removed(Removed(d.fields, A), B)]
    BY <2>2, <2>3 DEF Erased
  <2>7. Removed(Removed(d.fields, A), B) = Removed(d.fields, orphans)
    <3> HIDE DEF A, B, orphans
    <3> QED BY <2>5, RemovedTwice
  <2> HIDE DEF A, B
  <2> QED BY <2>6, <2>7 DEF Erased, e
<1>3. ASSUME FieldsOf(d, x) = {} PROVE Erased(DeleteFormPolicy(d, x), s) = Erased(d, s)
  <2> DEFINE e == DeleteFormPolicy(d, x)
             F == FormsOf(e, s)
             B == Fields(e, F)
  <2>1. Removed(d.forms, {x}) \in Table(FormIds, FormRow)
    BY <1>1, RemovedType
  <2>2. e.sites = d.sites /\ e.fields = d.fields /\ e.forms = Removed(d.forms, {x})
    BY <2>1, DatabaseIs DEF DeleteFormPolicy
  <2> HIDE DEF e
  <2>3. F = forms \ {x}
    <3>1. /\ \A f : f \in DOMAIN e.forms <=> f \in DOMAIN d.forms /\ f \notin {x}
          /\ \A f \in DOMAIN d.forms : f \notin {x} => e.forms[f] = d.forms[f]
      BY <2>2, RemovedIs
    <3> QED BY <3>1 DEF FormsOf
  <2>4. \A f : FieldsOf(e, f) = FieldsOf(d, f)
    BY <2>2 DEF FieldsOf
  <2>5. B = orphans
    <3> HIDE DEF forms, F
    <3>1. \A n : n \in B <=> \E f \in forms \ {x} : n \in FieldsOf(d, f)
      BY <2>3, <2>4
    <3>2. \A n : n \in orphans <=> \E f \in forms : n \in FieldsOf(d, f)
      OBVIOUS
    <3> HIDE DEF B, orphans
    <3> QED BY <1>3, <3>1, <3>2
  <2>6. {x} \cup F = forms
    <3> HIDE DEF F
    <3> QED BY <2>3
  <2>7. Erased(e, s) = [sites |-> Removed(d.sites, {s}),
                        forms |-> Removed(Removed(d.forms, {x}), F),
                        fields |-> Removed(d.fields, B)]
    BY <2>2 DEF Erased
  <2>8. Removed(Removed(d.forms, {x}), F) = Removed(d.forms, forms)
    <3> HIDE DEF F, forms
    <3> QED BY <2>6, RemovedTwice
  <2> HIDE DEF F, B, orphans
  <2> QED BY <2>5, <2>7, <2>8 DEF Erased, e, orphans
<1> QED BY <1>2, <1>3

\* Where a site has no forms left it is the site's row alone that goes.
LEMMA ErasedLast ==
    ASSUME NEW d \in Database, NEW s, FormsOf(d, s) = {}
    PROVE  Erased(d, s) = DeleteSiteRow(d, s)
<1>1. /\ d.sites \in Table(SiteIds, SiteRow) /\ d.forms \in Table(FormIds, FormRow)
      /\ d.fields \in Table(FieldIds, FieldRow)
  BY DatabaseIs
<1>2. ASSUME NEW Ids, NEW Row, NEW t \in Table(Ids, Row) PROVE Removed(t, {}) = t
  <2>1. t \in [DOMAIN t -> Row]
    BY TableIs
  <2>2. t = [x \in DOMAIN t |-> t[x]] /\ DOMAIN t \ {} = DOMAIN t
    BY <2>1
  <2> QED BY <2>2 DEF Removed, Restrict
<1>3. UNION {FieldsOf(d, f) : f \in {}} = {}
  OBVIOUS
<1>4. Removed(d.forms, {}) = d.forms /\ Removed(d.fields, {}) = d.fields
  BY <1>1, <1>2
<1>5. Erased(d, s) = [sites |-> Removed(d.sites, {s}), forms |-> d.forms, fields |-> d.fields]
  BY <1>3, <1>4 DEF Erased
<1>6. d = [sites |-> d.sites, forms |-> d.forms, fields |-> d.fields]
  BY DEF Database
<1> QED BY <1>5, <1>6 DEF DeleteSiteRow

\* An undisturbed worker.
Solo(q) == ~ q.tainted /\ ~ q.exposed

\* What a worker is left with by an operation of which no statement fails.
LEMMA ReadSolo ==
    ASSUME db \in Database, NEW q, Shape(q), Solo(q)
    PROVE  /\ q.stage = "countSites" => Solo(CountSites(q, TRUE))
           /\ q.stage = "countForms" => Solo(CountForms(q, TRUE))
           /\ q.stage = "countFields" => Solo(CountFields(q, TRUE))
           /\ q.stage = "selectSites" => Solo(SelectSites(q, TRUE))
           /\ q.stage = "selectForms" => Solo(SelectForms(q, TRUE))
           /\ q.stage = "selectFields" => Solo(SelectFields(q, TRUE))
<1>0. q \in Worker
  BY DEF Shape
<1>1. OfForms(q) => q.i \in 1 .. Len(Held(q))
  BY DEF Shape
<1>2. OfFields(q) => q.i \in 1 .. Len(Held(q)) /\ q.j \in 1 .. Len(Held(q)[q.i].forms)
  BY DEF Shape, OfFields, OfForms
<1>3. q.stage = "countSites" => Solo(CountSites(q, TRUE))
  BY <1>0, CountSitesIs DEF Solo
<1>4. q.stage = "countForms" => Solo(CountForms(q, TRUE))
  BY <1>0, <1>1, CountFormsIs DEF Solo, OfForms
<1>5. q.stage = "countFields" => Solo(CountFields(q, TRUE))
  BY <1>0, <1>2, CountFieldsIs DEF Solo, OfFields
<1>6. ASSUME NEW p \in Worker, p.tainted = q.tainted, p.exposed = q.exposed
      PROVE  /\ Solo(Failed(Listed(p), TRUE)) /\ Solo(Failed(NextSite(p), TRUE))
             /\ Solo(Failed(NextForm(p), TRUE))
  BY <1>6, GoesOn DEF Solo, Kept
<1>7. ASSUME q.stage = "selectSites" PROVE Solo(SelectSites(q, TRUE))
  <2>1. PICK p \in Worker :
           /\ p.tainted = q.tainted /\ p.exposed = q.exposed
           /\ SelectSites(q, TRUE) = Failed(IF q.reload THEN NextSite(p) ELSE Listed(p), TRUE)
    BY <1>0, SelectSitesIs
  <2>2. CASE q.reload
    BY <1>6, <2>1, <2>2
  <2>3. CASE ~ q.reload
    BY <1>6, <2>1, <2>3
  <2> QED BY <2>2, <2>3
<1>8. ASSUME q.stage = "selectForms" PROVE Solo(SelectForms(q, TRUE))
  <2>1. q.i \in 1 .. Len(Held(q))
    BY <1>1, <1>8 DEF OfForms
  <2>2. PICK p \in Worker : /\ p.tainted = q.tainted /\ p.exposed = q.exposed
                            /\ SelectForms(q, TRUE) = Failed(NextForm(p), TRUE)
    BY <1>0, <2>1, SelectFormsIs
  <2> QED BY <1>6, <2>2
<1>9. ASSUME q.stage = "selectFields" PROVE Solo(SelectFields(q, TRUE))
  <2>1. q.i \in 1 .. Len(Held(q)) /\ q.j \in 1 .. Len(Held(q)[q.i].forms)
    BY <1>2, <1>9 DEF OfFields
  <2>2. PICK p \in Worker : /\ p.tainted = q.tainted /\ p.exposed = q.exposed
                            /\ SelectFields(q, TRUE) = Failed(NextForm(p), TRUE)
    BY <1>0, <2>1, SelectFieldsIs
  <2> QED BY <1>6, <2>2
<1> QED BY <1>3, <1>4, <1>5, <1>7, <1>8, <1>9
\* A worker that is alone and whose statements do not fail stays undisturbed.
LEMMA SoloStep ==
    ASSUME Typed, SituationsAssumption, \A e \in Situations : ~ e.faults /\ ~ e.crashes,
           NEW w, Workers = {w},
           Within(worker[w], db), Solo(worker[w]), Next
    PROVE  Solo(worker'[w])
<1> DEFINE q == worker[w]
           Goal == Solo(worker'[w])
<1>1. Shape(q) /\ db \in Database /\ situation \in Situations
  BY DEF Typed, TypeOK
<1>2. Outcomes = {TRUE} /\ ~ situation.crashes
  BY <1>1 DEF Outcomes
<1>3. ASSUME NEW d, NEW r, Step(w, d, r) PROVE worker'[w] = r
  BY <1>3 DEF Step
<1>4. q.heap # "corrupt"
  BY DEF Within, Solo
<1>5. \/ \E req \in Writes \cup Reads : Receive(w, req)
      \/ Work(w)
      \/ Die(w)
  BY DEF Next
<1>6. ASSUME NEW req \in Writes \cup Reads, Receive(w, req) PROVE Goal
  <2>1. q.stage = "idle" /\ Step(w, db, Received(q, req))
    BY <1>6 DEF Receive, Received
  <2>2. Solo(Received(q, req))
    BY <1>1, <2>1, ReceivedIs DEF Solo
  <2> QED BY <1>3, <2>1, <2>2
<1>7. ~ Die(w)
  BY <1>2, <1>4 DEF Die
<1>8. ASSUME Execute(w) PROVE Goal
  <2> DEFINE added == q.req.verb = "add" /\ q.req.id \notin DOMAIN db[q.req.table]
             stage == IF added THEN "readBack" ELSE "send"
             d == IF q.req.verb # "other" THEN Statement(db, q.req) ELSE db
             r == Failed([q EXCEPT !.stage = stage], TRUE)
  <2>1. q.stage = "statement" /\ Step(w, d, r)
    BY <1>2, <1>8 DEF Execute
  <2>2. stage \in {"readBack", "send"} /\ (stage = "readBack" => q.req.verb = "add")
    OBVIOUS
  <2>3. stage = "readBack" => Single(q.req)
    BY <1>1, <2>1, <2>2 DEF Shape
  <2> HIDE DEF stage, d
  <2>4. r.exposed = q.exposed /\ (r.tainted <=> q.tainted \/ ~ TRUE)
    <3> HIDE DEF q
    <3>1. Shape(q) /\ q.stage = "statement"
      BY <1>1, <2>1 DEF q
    <3> QED BY <2>2, <2>3, <3>1, ExecutedIs
  <2> QED BY <1>3, <2>1, <2>4 DEF Solo
<1>9. ASSUME ReadBack(w) PROVE Goal
  <2> DEFINE r == Failed([q EXCEPT !.stage = "send",
                                   !.answer = {LastOf(q, IF TRUE THEN RowsLike(db, q.req) ELSE {})}], TRUE)
  <2>1. q.stage = "readBack" /\ Step(w, db, r)
    BY <1>2, <1>9 DEF ReadBack, LastOf
  <2>2. Solo(r)
    BY <1>1, <2>1, AnsweredIs DEF Solo
  <2> HIDE DEF r
  <2> QED BY <1>3, <2>1, <2>2
<1>10. ASSUME Read(w) PROVE Goal
  <2>1. \/ q.stage = "countSites" /\ Step(w, db, CountSites(q, TRUE))
        \/ q.stage = "selectSites" /\ Step(w, db, SelectSites(q, TRUE))
        \/ q.stage = "countForms" /\ Step(w, db, CountForms(q, TRUE))
        \/ q.stage = "selectForms" /\ Step(w, db, SelectForms(q, TRUE))
        \/ q.stage = "countFields" /\ Step(w, db, CountFields(q, TRUE))
        \/ q.stage = "selectFields" /\ Step(w, db, SelectFields(q, TRUE))
    BY <1>2, <1>10 DEF Read
  <2> HIDE DEF q
  <2>2. Solo(q)
    BY DEF q
  <2> QED BY <1>1, <1>3, <2>1, <2>2, ReadSolo
<1>11. ASSUME DeleteSitePolicy(w) PROVE Goal
  <2>1. PICK d, r : /\ Step(w, d, r)
                    /\ \/ q.stage = "deleteFields" /\ r = Failed([q EXCEPT !.stage = "deleteForm"], TRUE)
                       \/ q.stage = "deleteForm" /\ r = Failed(NextDelete(q), TRUE)
                       \/ q.stage = "deleteSite" /\ r = Failed([q EXCEPT !.stage = "send"], TRUE)
    BY <1>2, <1>11 DEF DeleteSitePolicy
  <2>2. r.exposed = q.exposed /\ (r.tainted <=> q.tainted)
    <3>1. CASE q.stage = "deleteFields" /\ r = Failed([q EXCEPT !.stage = "deleteForm"], TRUE)
      BY <1>1, <3>1, ErasedIs
    <3>2. CASE q.stage = "deleteForm" /\ r = Failed(NextDelete(q), TRUE)
      BY <1>1, <3>2, ErasedIs
    <3>3. CASE q.stage = "deleteSite" /\ r = Failed([q EXCEPT !.stage = "send"], TRUE)
      BY <1>1, <3>3, ErasedIs
    <3> QED BY <2>1, <3>1, <3>2, <3>3
  <2> QED BY <1>3, <2>1, <2>2 DEF Solo
<1>12. ASSUME Send(w) PROVE Goal
  <2>1. q.stage = "send" /\ Step(w, db, Reloading(q))
    BY <1>2, <1>12 DEF Send, Reloading
  <2>2. Solo(Reloading(q))
    BY <1>1, <2>1, SentIs DEF Solo
  <2> QED BY <1>3, <2>1, <2>2
<1> HIDE DEF Goal
<1>13. Goal
  BY <1>5, <1>6, <1>7, <1>8, <1>9, <1>10, <1>11, <1>12 DEF Work
<1> QED BY <1>13 DEF Goal

\* What the contract means by a request, and its policies of the tables.
LEMMA MeaningIs ==
    /\ Contract!Database = Database /\ Contract!Writes = Writes
    /\ \A d, q : Contract!Meaning(d, q) = IF q.verb = "delete" /\ q.table = "sites"
                                          THEN Erased(d, q.id) ELSE Statement(d, q)
    /\ \A d : Contract!View(d) = View(d)
<1>1. Contract!Database = Database /\ Contract!Writes = Writes
  BY DEF Contract!Database, Contract!Table, Contract!SiteRow, Contract!FormRow, Contract!FieldRow,
         Contract!Writes, Contract!Write, Database, Table, SiteRow, FormRow, FieldRow, Writes, Write
<1>2. \A t, ids : Contract!Removed(t, ids) = Removed(t, ids)
  BY DEF Contract!Removed, Contract!Restrict, Removed, Restrict
<1>3. \A d, s : Contract!FormsOf(d, s) = FormsOf(d, s) /\ Contract!FieldsOf(d, s) = FieldsOf(d, s)
  BY DEF Contract!FormsOf, Contract!FieldsOf, FormsOf, FieldsOf
<1>4. \A d, s : Contract!Erased(d, s) = Erased(d, s)
  BY <1>2, <1>3 DEF Contract!Erased, Erased
<1>5. \A d, q : Contract!Statement(d, q) = Statement(d, q)
  BY ZenonT(30), <1>2 DEF Contract!Statement, Contract!DeleteFormPolicy, Contract!DeleteFieldPolicy,
              Contract!UpdateSitePolicy, Contract!UpdateFormPolicy, Contract!UpdateFieldPolicy,
              Contract!Inserted, Contract!StoredType, Statement, DeleteFormPolicy, DeleteFieldPolicy,
              UpdateSitePolicy, UpdateFormPolicy, UpdateFieldPolicy, Inserted, StoredType
<1>6. \A d : Contract!View(d) = View(d)
  <2>1. \A S : Contract!Ascending(S) = Ascending(S)
    BY DEF Contract!Ascending, Contract!Nth, Contract!Cardinality, Ascending, Nth, Cardinality
  <2>2. ASSUME NEW d, NEW f PROVE Contract!FormView(d, f) = FormView(d, f)
    BY <1>3, <2>1 DEF Contract!FormView, Contract!FormSlot, Contract!FieldSlot, Contract!Each,
                      FormView, FormSlot, FieldSlot, Each
  <2>3. ASSUME NEW d, NEW s PROVE Contract!SiteView(d, s) = SiteView(d, s)
    BY <1>3, <2>1, <2>2 DEF Contract!SiteView, Contract!SiteSlot, Contract!Each, SiteView, SiteSlot, Each
  <2> QED BY <2>1, <2>3 DEF Contract!View, Contract!Each, View, Each
<1> QED BY <1>1, <1>4, <1>5, <1>6 DEF Contract!Meaning

\* The steps of the contract as a step of the worker makes them.
TakesUp(q, d, r) == /\ Call(q) = "none" /\ Call(r) = "taken"
                    /\ Applies(r) = <<>> /\ Tables(r, d) = Tables(q, db)
Performs(q, d, r) == /\ Call(q) = "taken" /\ Call(r) = "performed" /\ Applies(r) = Applies(q)
                     /\ \/ \E req \in Writes : Tables(r, d) = Contract!Meaning(Tables(q, db), req)
                        \/ Tables(r, d) = Tables(q, db)
IsThrough(q, d, r) == /\ Call(q) = "performed" /\ Call(r) = "none"
                      /\ Applies(r) = View(Tables(r, d)) /\ Tables(r, d) = Tables(q, db)
GoesUnseen(q, d, r) ==
    Call(r) = Call(q) /\ Applies(r) = Applies(q) /\ Tables(r, d) = Tables(q, db)

\* A deletion of a site changes nothing for the contract until it is sent.
LEMMA EraseUnseen ==
    ASSUME db \in Database, NEW q, Shape(q), Solo(q), Owning(q, db),
           NEW d, NEW r, Erases(q, d, r), Solo(r)
    PROVE  GoesUnseen(q, d, r)
<1> DEFINE forms == q.local[1].forms
           x == forms[q.j].id
           s == q.req.id
<1>1. PICK ok \in BOOLEAN :
        \/ /\ q.stage = "deleteFields"
           /\ d = IF ok THEN DeleteField4Form(db, x) ELSE db
           /\ r = Failed([q EXCEPT !.stage = "deleteForm"], ok)
        \/ /\ q.stage = "deleteForm"
           /\ d = IF ok THEN DeleteFormPolicy(db, x) ELSE db
           /\ r = Failed(NextDelete(q), ok)
        \/ /\ q.stage = "deleteSite"
           /\ d = IF ok THEN DeleteSiteRow(db, s) ELSE db
           /\ r = Failed([q EXCEPT !.stage = "send"], ok)
  BY DEF Erases
<1>2. q.stage \in Deletes /\ SiteDelete(q.req) /\ ~ q.reload
  <2>1. q.stage \in Deletes
    BY <1>1 DEF Deletes
  <2> QED BY <2>1 DEF Shape, Deletes, Counts, Selects
<1>3. Erasing(q, db)
  BY <1>2 DEF Owning, Undisturbed, Solo
<1>4. /\ ok /\ r.req = q.req
      /\ q.stage = "deleteFields" => r.stage = "deleteForm"
      /\ q.stage = "deleteForm" => r.stage \in {"deleteFields", "deleteSite"}
      /\ q.stage = "deleteSite" => r.stage = "send"
  <2>1. CASE q.stage = "deleteFields"
    <3>1. r = Failed([q EXCEPT !.stage = "deleteForm"], ok)
      BY <1>1, <2>1
    <3>2. Same(q, r) /\ r.stage = "deleteForm" /\ (r.tainted <=> q.tainted \/ ~ ok)
      BY <2>1, <3>1, ErasedIs
    <3> QED BY <2>1, <3>2 DEF Solo, Same
  <2>2. CASE q.stage = "deleteForm"
    <3>1. r = Failed(NextDelete(q), ok)
      BY <1>1, <2>2
    <3>2. r.req = q.req /\ (r.tainted <=> q.tainted \/ ~ ok)
      BY <1>2, <2>2, <3>1, FormErasedIs
    <3>3. r.stage = "deleteFields" \/ r.stage = "deleteSite"
      BY <1>2, <2>2, <3>1, FormErasedIs
    <3> QED BY <2>2, <3>2, <3>3 DEF Solo
  <2>3. CASE q.stage = "deleteSite"
    <3>1. r = Failed([q EXCEPT !.stage = "send"], ok)
      BY <1>1, <2>3
    <3>2. Same(q, r) /\ r.stage = "send" /\ (r.tainted <=> q.tainted \/ ~ ok)
      BY <2>3, <3>1, ErasedIs
    <3> QED BY <2>3, <3>2 DEF Solo, Same
  <2> QED BY <1>1, <2>1, <2>2, <2>3
<1>5. Call(q) = "performed" /\ Call(r) = "performed" /\ Applies(r) = Applies(q)
  BY <1>1, <1>4 DEF Call, Performed, Applies, Deletes
<1>6. OfErasure(q) => x \in FormsOf(db, s)
  <2> SUFFICES ASSUME OfErasure(q) PROVE x \in FormsOf(db, s)
    OBVIOUS
  <2>1. Ahead(forms, q.j, FormsOf(db, s)) /\ q.j \in 1 .. Len(forms)
    BY <1>3 DEF Erasing, Shape
  <2>2. q.j \in q.j .. Len(forms)
    BY <2>1
  <2> HIDE DEF forms
  <2> QED BY <2>1, <2>2 DEF Ahead
<1>7. Tables(r, d) = Tables(q, db)
  <2>1. CASE q.stage = "deleteFields"
    <3>1. d = DeleteField4Form(db, x) /\ r.stage \in Deletes /\ OfErasure(q)
      BY <1>1, <1>4, <2>1 DEF Deletes, OfErasure
    <3>2. Erased(d, s) = Erased(db, s)
      BY <1>6, <3>1, ErasedAlready
    <3> QED BY <1>2, <1>4, <3>1, <3>2 DEF Tables
  <2>2. CASE q.stage = "deleteForm"
    <3>1. d = DeleteFormPolicy(db, x) /\ r.stage \in Deletes /\ OfErasure(q)
      BY <1>1, <1>4, <2>2 DEF Deletes, OfErasure
    <3>2. FieldsOf(db, x) = {}
      BY <1>3, <2>2 DEF Erasing, FieldsOf
    <3>3. Erased(d, s) = Erased(db, s)
      BY <1>6, <3>1, <3>2, ErasedAlready
    <3> QED BY <1>2, <1>4, <3>1, <3>3 DEF Tables
  <2>3. CASE q.stage = "deleteSite"
    <3>1. d = DeleteSiteRow(db, s) /\ r.stage \notin Deletes
      BY <1>1, <1>4, <2>3 DEF Deletes
    <3>2. FormsOf(db, s) = {}
      BY <1>3, <2>3 DEF Erasing
    <3>3. d = Erased(db, s)
      BY <3>1, <3>2, ErasedLast
    <3> QED BY <1>2, <3>1, <3>3 DEF Tables
  <2> QED BY <1>1, <2>1, <2>2, <2>3
<1> QED BY <1>5, <1>7 DEF GoesUnseen

\* A selection of rows that completes a list performs what was asked for, or ends
\* the reload; any other goes unseen.
LEMMA SelectSeen ==
    ASSUME db \in Database, NEW q, Shape(q), NEW d, NEW r, Selecting(q, d, r), Shape(r),
           Solo(r), r.heap = "ok", Reloads(r, d)
    PROVE  GoesUnseen(q, d, r) \/ Performs(q, d, r) \/ IsThrough(q, d, r)
<1>1. PICK p \in Worker, ok \in BOOLEAN :
         /\ p.req = q.req /\ p.reload = q.reload
         /\ \/ r = Failed(Listed(p), ok) \/ r = Failed(NextSite(p), ok)
            \/ r = Failed(NextForm(p), ok)
  BY SelectsOn
<1>2. Ends(p, r) \/ ToSite(p, r) \/ ToForm(p, r)
  BY <1>1, GoesOn
<1>3. d = db /\ q.stage \in Selects
  BY DEF Selecting, Selects
<1>4. /\ Tables(q, db) = db /\ Applies(q) = <<>>
      /\ Call(q) = IF q.reload THEN "performed" ELSE "taken"
  BY <1>3 DEF Tables, Applies, Call, Performed, Selects, Deletes
<1>5. ~ q.reload => q.req.verb = "list" \/ SiteDelete(q.req)
  BY <1>3 DEF Shape, Listing
<1>6. CASE Ends(p, r)
  <2>1. CASE q.reload
    <3>1. r.stage = "idle" /\ r.cache = View(d)
      <4>1. r.stage = "idle"
        BY <1>1, <1>6, <2>1 DEF Ends
      <4> QED BY <4>1 DEF Reloads, Faithful, Solo
    <3>2. Applies(r) = View(d) /\ Call(r) = "none" /\ Tables(r, d) = db
      BY <1>3, <3>1 DEF Applies, Call, Tables, Deletes
    <3> QED BY <1>3, <1>4, <2>1, <3>2 DEF IsThrough
  <2>2. CASE ~ q.reload /\ q.req.verb # "delete"
    <3>1. r.stage = "send"
      BY <1>1, <1>6, <2>2 DEF Ends
    <3>2. Applies(r) = <<>> /\ Call(r) = "performed" /\ Tables(r, d) = db
      BY <1>3, <3>1 DEF Applies, Call, Performed, Tables, Deletes
    <3> QED BY <1>4, <2>2, <3>2 DEF Performs
  <2>3. CASE ~ q.reload /\ q.req.verb = "delete"
    <3>1. r.stage \in Deletes /\ r.req = q.req
      BY <1>1, <1>6, <2>3 DEF Ends, Remains, Deletes
    <3>2. Applies(r) = <<>> /\ Call(r) = "performed" /\ Tables(r, d) = Erased(db, q.req.id)
      BY <1>3, <3>1 DEF Applies, Call, Performed, Tables, Deletes
    <3>3. SiteDelete(q.req)
      BY <1>5, <2>3
    <3>4. q.req \in Writes /\ Contract!Meaning(db, q.req) = Erased(db, q.req.id)
      BY <3>3, MeaningIs DEF SiteDelete
    <3> QED BY <1>4, <2>3, <3>2, <3>4 DEF Performs
  <2> QED BY <2>1, <2>2, <2>3
<1>7. CASE ~ Ends(p, r)
  <2>1. Remains(p, r) /\ r.stage \in {"countForms", "countFields"}
    BY <1>2, <1>7 DEF ToSite, ToForm
  <2>2. r.reload = q.reload
    BY <1>1, <2>1 DEF Remains
  <2>3. Applies(r) = <<>> /\ Call(r) = Call(q) /\ Tables(r, d) = db
    BY <1>3, <1>4, <2>1, <2>2 DEF Applies, Call, Performed, Tables, Deletes
  <2> QED BY <1>4, <2>3 DEF GoesUnseen
<1> QED BY <1>6, <1>7

\* Every step of an undisturbed worker is one of the contract's, or is not seen.
LEMMA StepSeen ==
    ASSUME db \in Database, boot \in Seq(SiteSlots), NEW q, Shape(q), Solo(q), Owning(q, db),
           NEW d, NEW r, StepOf(q, d, r), Shape(r), Solo(r), r.heap = "ok", Reloads(r, d)
    PROVE  \/ GoesUnseen(q, d, r) \/ TakesUp(q, d, r) \/ Performs(q, d, r) \/ IsThrough(q, d, r)
<1>1. CASE Receives(q, d, r)
  <2>1. d = db /\ q.stage = "idle" /\ ~ r.reload
        /\ r.stage \in {"countSites", "countForms", "countFields", "statement"}
    BY <1>1, ReceivedIs DEF Receives
  <2> QED BY <2>1 DEF TakesUp, Call, Performed, Applies, Tables, Deletes
<1>2. CASE Executes(q, d, r)
  <2>1. PICK ok \in BOOLEAN, stage \in {"readBack", "send"} :
           /\ d = IF ok /\ q.req.verb # "other" THEN Statement(db, q.req) ELSE db
           /\ r = Failed([q EXCEPT !.stage = stage], ok)
           /\ stage = "readBack" => q.req.verb = "add"
    BY <1>2 DEF Executes
  <2>2. q.stage = "statement" /\ (q.req.verb = "other" \/ Single(q.req)) /\ ~ q.reload
    BY <1>2 DEF Executes, Shape, Counts, Selects
  <2>3. r.stage = stage /\ ok
    <3>1. stage = "readBack" => Single(q.req) /\ q.req.verb = "add"
      BY <2>1, <2>2
    <3>2. r.stage = stage /\ (r.tainted <=> q.tainted \/ ~ ok)
      BY <2>1, <2>2, <3>1, ExecutedIs
    <3> QED BY <3>2 DEF Solo
  <2>4. /\ Call(q) = "taken" /\ Call(r) = "performed" /\ Applies(r) = Applies(q)
        /\ Tables(r, d) = d /\ Tables(q, db) = db
    BY <2>2, <2>3 DEF Call, Performed, Applies, Tables, Deletes
  <2>5. CASE q.req.verb = "other"
    BY <2>1, <2>4, <2>5 DEF Performs
  <2>6. CASE q.req.verb # "other"
    <3>1. d = Statement(db, q.req) /\ Single(q.req)
      BY <2>1, <2>2, <2>3, <2>6
    <3>2. q.req \in Writes /\ d = Contract!Meaning(db, q.req)
      BY <3>1, MeaningIs DEF Single
    <3> QED BY <2>4, <3>2 DEF Performs
  <2> QED BY <2>5, <2>6
<1>3. CASE Answers(q, d, r)
  <2>1. q.stage = "readBack" /\ d = db
    BY <1>3 DEF Answers
  <2>2. PICK ok \in BOOLEAN :
          r = Failed([q EXCEPT !.stage = "send",
                               !.answer = {LastOf(q, IF ok THEN RowsLike(db, q.req) ELSE {})}], ok)
    BY <1>3 DEF Answers
  <2>3. r.stage = "send"
    BY <2>1, <2>2, AnsweredIs
  <2> QED BY <2>1, <2>3 DEF GoesUnseen, Call, Performed, Applies, Tables, Deletes
<1>4. CASE Counting(q, d, r)
  <2>1. d = db /\ q.stage \in Counts /\ r.stage \in Selects
    BY <1>4, CountingIs DEF Counting, Counts
  <2>2. r.reload = q.reload
    <3>0. q \in Worker
      BY DEF Shape
    <3>1. q.stage = "countForms" => q.i \in 1 .. Len(Held(q))
      BY DEF Shape, OfForms
    <3>2. q.stage = "countFields" =>
            q.i \in 1 .. Len(Held(q)) /\ q.j \in 1 .. Len(Held(q)[q.i].forms)
      BY DEF Shape, OfForms, OfFields
    <3> QED BY <1>4, <3>0, <3>1, <3>2, CountSitesIs, CountFormsIs, CountFieldsIs
               DEF Counting, Beside
  <2> QED BY <2>1, <2>2 DEF GoesUnseen, Call, Performed, Applies, Tables, Counts, Selects, Deletes
<1>5. CASE Selecting(q, d, r)
  BY <1>5, SelectSeen
<1>6. CASE Erases(q, d, r)
  BY <1>6, EraseUnseen
<1>7. CASE Sends(q, d, r)
  <2>1. q.stage = "send" /\ d = db
    BY <1>7 DEF Sends
  <2>2. r # Failed(Idle(q), FALSE)
    BY <2>1, SentIs DEF Solo
  <2>3. r.stage = "countSites" /\ r.reload
    <3>1. r = Reloading(q)
      BY <1>7, <2>2 DEF Sends
    <3> QED BY <2>1, <3>1, SentIs
  <2> QED BY <2>1, <2>3 DEF GoesUnseen, Call, Performed, Applies, Tables, Deletes
<1>8. ~ Dies(d, r)
  BY FreshIs DEF Dies, Solo
<1> QED BY <1>1, <1>2, <1>3, <1>4, <1>5, <1>6, <1>7, <1>8 DEF StepOf

\* All that is known of the one worker.
Alone(w) == /\ Typed /\ Solo(worker[w]) /\ Within(worker[w], db)
            /\ Owning(worker[w], db) /\ Reloads(worker[w], db)

\* The contract's variables, by the worker.
LEMMA ContractIs ==
    ASSUME NEW w, Workers = {w}
    PROVE  /\ TheWorker = w
           /\ Alone(w) /\ Alone(w)' /\ StepOf(worker[w], db', worker'[w])
                => [Contract!Next]_Contract!vars
<1>1. TheWorker = w
  BY DEF TheWorker
<1>2. ASSUME Alone(w), Alone(w)', StepOf(worker[w], db', worker'[w])
      PROVE  [Contract!Next]_Contract!vars
  <2> DEFINE q == worker[w]
             r == worker'[w]
             d == db'
  <2>1. /\ db \in Database /\ boot \in Seq(SiteSlots) /\ Shape(q) /\ Solo(q) /\ Owning(q, db)
        /\ StepOf(q, d, r) /\ Shape(r) /\ Solo(r) /\ Reloads(r, d) /\ Within(r, d)
    BY <1>2 DEF Alone, Typed, TypeOK
  <2>2. r.heap = "ok"
    BY <2>1 DEF Within, Solo, Shape, Worker
  <2>3. \/ GoesUnseen(q, d, r) \/ TakesUp(q, d, r) \/ Performs(q, d, r) \/ IsThrough(q, d, r)
    BY <2>1, <2>2, StepSeen
  <2>4. CASE TakesUp(q, d, r)
    <3>1. Contract!Take
      BY <1>1, <2>4 DEF Contract!Take, TakesUp
    <3> QED BY <3>1 DEF Contract!Next
  <2>5. CASE Performs(q, d, r)
    <3>1. Contract!Perform
      BY <1>1, <2>5, MeaningIs DEF Contract!Perform, Performs
    <3> QED BY <3>1 DEF Contract!Next
  <2>6. CASE IsThrough(q, d, r)
    <3>1. Contract!Answer
      BY <1>1, <2>6, MeaningIs DEF Contract!Answer, IsThrough
    <3> QED BY <3>1 DEF Contract!Next
  <2>7. CASE GoesUnseen(q, d, r)
    BY <1>1, <2>7 DEF Contract!vars, GoesUnseen
  <2> QED BY <2>3, <2>4, <2>5, <2>6, <2>7
<1> QED BY <1>1, <1>2

\* The management API of one worker whose statements and answers do not fail is
\* atomic: whatever is asked for, and in however many statements it is done, the
\* tables change in one step as the request means it, a site goes together with its
\* forms and their fields, and from the end of each operation on the worker applies
\* what is in the tables (get_raw_http_body, DeleteSitePolicy, InitPostPolicy).
THEOREM ContractCorrect ==
    ASSUME \A e \in Situations : ~ e.faults /\ ~ e.crashes, NEW one, Workers = {one}
    PROVE  Spec => Contract!Init /\ [][Contract!Next]_Contract!vars
<1>1. Init => Contract!Init
  <2> SUFFICES ASSUME Init PROVE Contract!Init
    OBVIOUS
  <2>1. Typed
    BY TypedInit, SituationsAssumption
  <2>2. db \in Database /\ boot = View(db) /\ worker[one] = Fresh(boot)
    BY <2>1 DEF Typed, TypeOK, Init
  <2>3. worker[one].stage = "idle" /\ worker[one].cache = View(db)
    BY <2>2 DEF Fresh
  <2>4. TheWorker = one
    BY ContractIs
  <2>5. /\ Tables(worker[one], db) = db /\ Applies(worker[one]) = View(db)
        /\ Call(worker[one]) = "none"
    BY <2>3 DEF Tables, Applies, Call, Deletes
  <2> QED BY <2>2, <2>4, <2>5, MeaningIs DEF Contract!Init
<1>2. Alone(one) /\ Alone(one)' /\ [Next]_vars => [Contract!Next]_Contract!vars
  <2> SUFFICES ASSUME Alone(one), Alone(one)', [Next]_vars PROVE [Contract!Next]_Contract!vars
    OBVIOUS
  <2>1. CASE Next
    <3>1. StepOf(worker[one], db', worker'[one])
      BY <2>1, StepIs, SituationsAssumption DEF Alone
    <3> QED BY <3>1, ContractIs
  <2>2. CASE UNCHANGED vars
    BY <2>2 DEF vars, Contract!vars
  <2> QED BY <2>1, <2>2
<1>3. Spec => []Alone(one)
  <2> DEFINE W == Typed /\ \A w \in Workers : Within(worker[w], db)
  <2>1. Init => Solo(worker[one])
    BY DEF Init, Fresh, Solo
  <2>2. W /\ Solo(worker[one]) /\ [Next]_vars => Solo(worker[one])'
    <3> SUFFICES ASSUME W, Solo(worker[one]), [Next]_vars PROVE Solo(worker[one])'
      OBVIOUS
    <3>1. CASE Next
      BY <3>1, SoloStep, SituationsAssumption
    <3>2. CASE UNCHANGED vars
      BY <3>2 DEF vars, Solo
    <3> QED BY <3>1, <3>2
  <2>3. Spec => []W
    BY WithinInv, PTL
  <2>4. Spec => []Solo(worker[one])
    BY <2>1, <2>2, <2>3, PTL DEF Spec
  <2>5. /\ Typed /\ \A w \in Workers : Within(worker[w], db) /\ Reloads(worker[w], db)
        /\ Typed /\ \A w \in Workers : Owning(worker[w], db)
        /\ Solo(worker[one])
        => Alone(one)
    BY DEF Alone
  <2> QED BY <2>4, <2>5, ReloadsInv, OwningInv, PTL
<1> QED BY <1>1, <1>2, <1>3, PTL DEF Spec

===============================================================================
