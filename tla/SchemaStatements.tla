-------------------------- MODULE SchemaStatements --------------------------
(***************************************************************************)
(* What the statements of a migration do to a database, and what refuses   *)
(* them.  A database gives every table its shape: the references its       *)
(* columns make, each with what happens to the row when the referenced one *)
(* is deleted; the combinations of columns that are unique; those of its   *)
(* columns that a migration adds to, or renames in, a table that was there *)
(* before, and which of them are required (NOT NULL without a default);    *)
(* and the kinds, the values that fit the column whose type a migration    *)
(* changes.  The other columns and the indexes that are not unique are     *)
(* left out; a table and its indexes are made by one statement.            *)
(*                                                                         *)
(* rows is a bag of those rows a statement can stumble on: of each its     *)
(* table, the value of the column that matters there (the type of a        *)
(* credential or of a calendar object, the UID of a contact, the name in a *)
(* change of an address book) and whether its name has a value.  They are  *)
(* all of one user, in one collection.                                     *)
(*                                                                         *)
(* SQLite cannot alter a reference.  A migration rebuilds the table: a new *)
(* one is created as temporary_t, the rows are copied, t is dropped and    *)
(* the new one renamed to t; a revert renames t to temporary_t, creates a  *)
(* new t, copies the rows and drops temporary_t.  A rename takes the       *)
(* references of the other tables with it.                                 *)
(***************************************************************************)
EXTENDS Naturals, Sequences, FiniteSets, Bags, SequencesExt

Temporary(t) == "temporary_" \o t

Ref(to) == [to |-> to, del |-> "NO ACTION"]
Owned(to) == [to |-> to, del |-> "CASCADE"]
Pointer(to) == [to |-> to, del |-> "SET NULL"]

Nothing ==
  [refs |-> {}, uniques |-> {}, columns |-> {}, required |-> {}, kinds |-> {}]
Plus(a, b) == [f \in DOMAIN a |-> a[f] \cup b[f]]
Minus(a, b) == [f \in DOMAIN a |-> a[f] \ b[f]]
Bare(shape) == [shape EXCEPT !.refs = {}]

\* A table as a migration or an entity describes it.
Table(t, refs, uniques) ==
  [name |-> t, shape |-> [Nothing EXCEPT !.refs = refs, !.uniques = uniques]]
WithColumns(table, columns) == [table EXCEPT !.shape.columns = columns]
Requiring(table, columns) == [table EXCEPT !.shape.required = columns]
WithKinds(table, kinds) == [table EXCEPT !.shape.kinds = kinds]
WithUniques(table, uniques) == [table EXCEPT !.shape.uniques = uniques]
WithRefs(table, refs) == [table EXCEPT !.shape.refs = refs]

Empty == [t \in {} |-> Nothing]

-----------------------------------------------------------------------------
(* Statements: old is what an alteration takes away, new what it, or a     *)
(* table it creates, brings.                                               *)

Statement(op, t, old, new) == [op |-> op, table |-> t, old |-> old, new |-> new]
Create(table) == Statement("create", table.name, Nothing, Bare(table.shape))
Drop(table) == Statement("drop", table.name, Nothing, Nothing)
Rebuild(table) == Statement("rebuild", table.name, Nothing, table.shape)
RebuildBack(table) == Statement("rebuild back", table.name, Nothing, table.shape)
Alter(t, old, new) == Statement("alter", t, old, new)
Key(ref) == [Nothing EXCEPT !.refs = {ref}]
Column(c) == [Nothing EXCEPT !.columns = {c}]
RequiredColumn(c) == [Nothing EXCEPT !.columns = {c}, !.required = {c}]
Unique(u) == [Nothing EXCEPT !.uniques = {u}]
Kinds(ks) == [Nothing EXCEPT !.kinds = ks]

AddKey(t, ref) == Alter(t, Nothing, Key(ref))
DropKey(t, ref) == Alter(t, Key(ref), Nothing)
AddColumn(t, c) == Alter(t, Nothing, Column(c))
DropColumn(t, c) == Alter(t, Column(c), Nothing)
AddRequiredColumn(t, c) == Alter(t, Nothing, RequiredColumn(c))
DropRequiredColumn(t, c) == Alter(t, RequiredColumn(c), Nothing)
RenameColumn(t, c, d) == Alter(t, Column(c), Column(d))
AddUnique(t, u) == Alter(t, Nothing, Unique(u))
DropUnique(t, u) == Alter(t, Unique(u), Nothing)
Widen(t, kinds) == Alter(t, Nothing, Kinds(kinds))
Narrow(t, kinds) == Alter(t, Kinds(kinds), Nothing)
DeleteRows(t, kinds) == Statement("delete", t, Kinds(kinds), Nothing)

\* Every reference to table a becomes one to table b.
Renamed(db, a, b) ==
  [t \in DOMAIN db |-> [db[t] EXCEPT !.refs =
     {IF r.to = a THEN [r EXCEPT !.to = b] ELSE r : r \in db[t].refs}]]

With(db, t, shape) == [u \in DOMAIN db \cup {t} |-> IF u = t THEN shape ELSE db[u]]

Row(t, value) == [table |-> t, value |-> value, named |-> TRUE]
In(rows, t) == {r \in BagToSet(rows) : r.table = t}

\* The bag has r and, as another row, q.
Two(rows, r, q) == r # q \/ CopiesIn(r, rows) > 1

\* Two rows of t are equal in the columns u, of which those that are not
\* represented were unique before.
Clash(rows, t, u) ==
  /\ u \cap {"uid", "name"} # {}
  /\ \E r, q \in In(rows, t) :
       /\ Two(rows, r, q)
       /\ "uid" \in u => r.value = q.value
       /\ "name" \in u => ~r.named /\ ~q.named

\* Rows of the table do not let the statement through.  A rebuild copies them
\* under the constraints of the new table, SQLite having no value for a required
\* column it adds; Postgres has none either, and MySQL takes the empty string.
RowsRefuse(db, rows, s, engine) ==
  LET t == s.table
      there == In(rows, t)
  IN \/ s.op \in {"rebuild", "rebuild back"} /\ there # {}
           /\ \/ s.new.required \ db[t].columns # {}
              \/ s.new.kinds # {} /\ \E r \in there : r.value \notin s.new.kinds
     \/ s.op = "alter"
           /\ \/ engine = "postgres" /\ s.new.required # {} /\ there # {}
              \/ \E r \in there : r.value \in s.old.kinds
              \/ \E u \in s.new.uniques : Clash(rows, t, u)

\* The statement is refused: for the schema's sake (TypeORM turns SQLite's
\* references off while it migrates) or for that of the rows.
Fails(db, rows, s, engine) ==
  LET there == s.table \in DOMAIN db
      pointing == {u \in DOMAIN db \ {s.table} :
                     \E r \in db[u].refs : r.to = s.table}
  IN \/ s.op = "create" /\ there
     \/ s.op # "create" /\ ~there
     \/ s.op = "drop" /\ engine # "sqlite" /\ pointing # {}
     \/ s.op = "alter" /\ there
           /\ \/ Minus(s.old, db[s.table]) # Nothing
              \/ Minus(s.new, db[s.table]) # s.new
              \/ \E r \in s.new.refs : r.to \notin DOMAIN db
     \/ there /\ RowsRefuse(db, rows, s, engine)

\* The database after a statement that is not refused.
After(db, s) ==
  LET t == s.table
  IN CASE s.op = "create" -> With(db, t, s.new)
       [] s.op = "drop" -> [u \in DOMAIN db \ {t} |-> db[u]]
       [] s.op = "rebuild" -> With(Renamed(db, Temporary(t), t), t, s.new)
       [] s.op = "rebuild back" -> With(Renamed(db, t, Temporary(t)), t, s.new)
       [] s.op = "alter" -> With(db, t, Plus(Minus(db[t], s.old), s.new))
       [] s.op = "delete" -> db

\* Its rows after it.
RowsAfter(rows, s) ==
  LET t == s.table
      Gone(r) ==
        /\ r.table = t
        /\ s.op = "drop" \/ (s.op = "delete" /\ r.value \in s.old.kinds)
      Blank(r) == IF r.table = t /\ s.op = "alter" /\ "name" \in s.new.required
                  THEN [r EXCEPT !.named = FALSE] ELSE r
  IN BagOfAll(Blank, [r \in {q \in BagToSet(rows) : ~Gone(q)} |-> rows[r]])

-----------------------------------------------------------------------------
(* The shapes the generated migrations have: tables is a sequence of       *)
(* Tables in the order of the file, and a revert undoes it backwards.      *)

Migration(up, down) == [up |-> up, down |-> down]

Each(tables, Op(_)) == [i \in DOMAIN tables |-> Op(tables[i])]
EachRef(tables, Op(_, _)) ==
  FlattenSeq(Each(tables, LAMBDA x :
    Each(SetToSeq(x.shape.refs), LAMBDA r : Op(x.name, r))))

\* SQLite: the tables are created bare and then rebuilt with their references.
MakingByRebuild(tables) ==
  LET back == Reverse(tables)
      Stripped(x) == RebuildBack(WithRefs(x, {}))
  IN Migration(Each(tables, Create) \o Each(tables, Rebuild),
               Each(back, Stripped) \o Each(back, Drop))

RebuildingOnce(table, old) == Migration(<<Rebuild(table)>>, <<RebuildBack(old)>>)

\* Postgres and MySQL: the tables are created and their references added.
Making(tables) ==
  LET back == Reverse(tables)
  IN Migration(Each(tables, Create) \o EachRef(tables, AddKey),
               EachRef(back, DropKey) \o Each(back, Drop))
=============================================================================
