----------------------------- MODULE Migrations -----------------------------
(***************************************************************************)
(* How a database gets from one version to another.  A server that starts  *)
(* runs all pending migrations in one transaction; a developer reverts the *)
(* last one.  The statements are those of the migration files, and what    *)
(* comes out is compared with what the entity classes declare.  A server   *)
(* that has all its migrations writes rows, and reverts and migrations     *)
(* then find them.                                                         *)
(*                                                                         *)
(* A process may die between two statements, or a statement be refused.    *)
(* SQLite and Postgres then roll the transaction back.  On MySQL every     *)
(* statement that changes the schema commits, so a half done migration     *)
(* stays.                                                                  *)
(***************************************************************************)
EXTENDS SchemaStatements

CONSTANTS Engines,      \* of "sqlite", "postgres", "mysql"
          Inserted,     \* the rows a server inserts, of those defined below
          MaxRows,      \* bound: rows a statement can stumble on
          MaxCrashes    \* bound: processes that die in a migration

ASSUME EnginesAssumption == Engines \subseteq {"sqlite", "postgres", "mysql"}

\* What a server can insert: credentials, tasks and events, changes of an address
\* book, contacts (one UID twice when two requests race past the check) and
\* calendars.
Insertable ==
  {Row("credentials", v) : v \in {"basic", "digest", "oauth2"}} \cup
  {Row("calendar_objects", v) : v \in {"VEVENT", "VTODO", "VJOURNAL"}} \cup
  {Row("addressbook_changes", v) : v \in {"uuid", "file name"}} \cup
  {Row("address_objects", "a UID"), Row("calendars", "any")}

ASSUME InsertedAssumption == Inserted \subseteq Insertable
ASSUME MaxRowsAssumption == MaxRows \in Nat
ASSUME MaxCrashesAssumption == MaxCrashes \in Nat

Sqlite == INSTANCE SqliteMigrations
Postgres == INSTANCE PostgresMigrations
Mysql == INSTANCE MysqlMigrations
LOCAL E == INSTANCE Entities

VARIABLES engine,   \* the engine of this installation
          db,       \* its tables and their shapes
          rows,     \* a bag of rows in them
          applied,  \* how many migrations its table of migrations lists
          run,      \* the migrations in progress
          crashes,  \* how many processes died so far
          broken    \* whether a migration was left half done

vars == <<engine, db, rows, applied, run, crashes, broken>>

Lists ==
  [e \in Engines |->
     CASE e = "sqlite" -> Sqlite!SqliteMigrationList
       [] e = "postgres" -> Postgres!PostgresMigrationList
       [] e = "mysql" -> Mysql!MysqlMigrationList]
Schemas == [e \in Engines |-> E!Declared(e)]

List == Lists[engine]
Latest == Len(List)
Declared == Schemas[engine]

Transactional(e) == e \in {"sqlite", "postgres"}

\* dir is "idle", "up" or "down", at the number of statements done of the
\* migration in progress, saved what a rollback brings back: on MySQL, of a
\* revert whose schema changes have not begun.
Idle == [dir |-> "idle", at |-> 0, saved |-> <<>>]

Running(dir) ==
  [dir |-> dir, at |-> 0,
   saved |-> IF Transactional(engine) \/ dir = "down"
             THEN <<db, rows, applied>> ELSE <<>>]

Statements == List[IF run.dir = "up" THEN applied + 1 ELSE applied][run.dir]
Migrating == run.dir # "idle"
Due == Migrating /\ run.at < Len(Statements)

\* The statement that is due, if any.
Pending == IF Due THEN {Statements[run.at + 1]} ELSE {}
Refused == \E s \in Pending : Fails(db, rows, s, engine)

\* MySQL has committed statements of the migration in progress.
HalfDone ==
  ~Transactional(engine) /\ \E i \in 1..run.at : Statements[i].op # "delete"

Init ==
  /\ engine \in Engines
  /\ db = Empty
  /\ rows = EmptyBag
  /\ applied = 0
  /\ run = Idle
  /\ crashes = 0
  /\ broken = FALSE

-----------------------------------------------------------------------------
\* Migrations are run into an empty database only.
Start_Mutant ==
  /\ run = Idle
  /\ applied = 0
  /\ run' = Running("up")
  /\ UNCHANGED <<engine, db, rows, applied, crashes, broken>>

\* A server starts and finds pending migrations.
Start ==
  /\ run = Idle
  /\ applied < Latest
  /\ run' = Running("up")
  /\ UNCHANGED <<engine, db, rows, applied, crashes, broken>>

\* migration:revert undoes the last migration.
Revert ==
  /\ run = Idle
  /\ applied > 0
  /\ run' = Running("down")
  /\ UNCHANGED <<engine, db, rows, applied, crashes, broken>>

\* A server that has nothing to migrate serves a request that inserts a row; a
\* user has one credential of a type, a calendar object is in a calendar.
Insert(row) ==
  /\ run = Idle
  /\ applied = Latest
  /\ BagCardinality(rows) < MaxRows
  /\ row.table = "credentials" => ~BagIn(row, rows)
  /\ row.table = "calendar_objects" => In(rows, "calendars") # {}
  /\ rows' = rows (+) SetToBag({row})
  /\ UNCHANGED <<engine, db, applied, run, crashes, broken>>

Execute ==
  /\ \E s \in Pending :
       /\ ~Fails(db, rows, s, engine)
       /\ db' = After(db, s)
       /\ rows' = RowsAfter(rows, s)
  /\ run' = [run EXCEPT !.at = run.at + 1]
  /\ UNCHANGED <<engine, applied, crashes, broken>>

\* All statements done: the table of migrations is brought up to date, and the
\* next migration begins or the transaction commits.
Record ==
  /\ Migrating
  /\ ~Due
  /\ applied' = IF run.dir = "up" THEN applied + 1 ELSE applied - 1
  /\ run' = IF run.dir = "up" /\ applied' < Latest THEN [run EXCEPT !.at = 0] ELSE Idle
  /\ UNCHANGED <<engine, db, rows, crashes, broken>>

RollBack ==
  /\ run' = Idle
  /\ IF Transactional(engine) \/ (run.dir = "down" /\ ~HalfDone)
     THEN db' = run.saved[1] /\ rows' = run.saved[2] /\ applied' = run.saved[3]
     ELSE UNCHANGED <<db, rows, applied>>
  /\ broken' = (broken \/ HalfDone)
  /\ UNCHANGED engine

\* A statement is refused: the transaction is rolled back and the process exits.
Fail == Refused /\ RollBack /\ UNCHANGED crashes

Crash ==
  /\ Migrating
  /\ crashes < MaxCrashes
  /\ crashes' = crashes + 1
  /\ RollBack

\* The running migration goes on.
Proceed == Execute \/ Record \/ Fail

Next ==
  \/ Start \/ Revert \/ Proceed \/ Crash
  \/ \E row \in Inserted : Insert(row)

\* A service is restarted until it runs, and a running migration goes on.
Fairness == WF_vars(Start) /\ WF_vars(Proceed)

Spec == Init /\ [][Next]_vars /\ Fairness

-----------------------------------------------------------------------------
AtHead == run = Idle /\ applied = Latest

\* No migration was left half done, which only MySQL does.
Intact == ~broken

\* The rows deleted with those of table t.
Cascade(keys, t) ==
  LET Owners(u) == {r.to : r \in {k \in keys[u].refs : k.del = "CASCADE"}}
      gone[n \in Nat] ==
        IF n = 0 THEN {t}
        ELSE LET before == gone[n - 1]
             IN before \cup {u \in DOMAIN keys : Owners(u) \cap before # {}}
  IN gone[Cardinality(DOMAIN keys)]

\* The table of migrations lists a prefix of the list and a migration in
\* progress is at a statement it has.
TypeOK ==
  /\ engine \in Engines
  /\ applied \in 0..Latest
  /\ crashes \in 0..MaxCrashes
  /\ Migrating => run.at \in 0..Len(Statements)
  /\ IsABag(rows) /\ BagCardinality(rows) \in 0..MaxRows
  /\ broken \in BOOLEAN /\ (broken => ~Transactional(engine))
  /\ \A t \in DOMAIN db : \A r \in db[t].refs :
       r.del \in {"NO ACTION", "CASCADE", "SET NULL"}

\* After the last migration the database is the one the entities declare, by
\* whatever reverts and crashes it came there: the same references with the
\* same ON DELETE, the same unique indexes, the added columns and the widened
\* enumerations.  Only a revert that stopped half way on MySQL can leave one that
\* looks migrated and is not.
SchemaMatchesEntities == AtHead /\ Intact => db = Declared

\* A tenant can be deleted, and nothing of it stays: its row takes those of
\* every other table along, and nothing but a cascade or a cleared column hangs
\* on any row.  A calendar that goes leaves its owner.
TenantGoesWhole ==
  AtHead /\ Intact =>
    /\ Cascade(db, "tenants") = DOMAIN db
    /\ \A t \in DOMAIN db : \A r \in db[t].refs : r.del # "NO ACTION"
    /\ Cascade(db, "calendars") \cap {"users", "principals", "tenants"} = {}

\* Where no migration was left half done, none is refused but for rows it has no
\* place for.  Forward, those are calendars or contacts that a revert has left
\* without the name the migration adds; back, credentials of the types the
\* revert takes away, on Postgres changes that do not name a uuid, and contacts
\* with one UID.  Tasks never hold a revert up, and no other row does.
RefusedForRowsOnly ==
  Intact => \A s \in Pending :
    Fails(db, rows, s, engine) =>
      IF run.dir = "up"
      THEN s.table \in {"calendars", "address_objects"} /\ In(rows, s.table) # {}
      ELSE \/ s.table = "credentials"
                /\ \E r \in In(rows, "credentials") : r.value # "basic"
           \/ s.table = "addressbook_changes" /\ engine = "postgres"
                /\ \E r \in In(rows, "addressbook_changes") : r.value # "uuid"
           \/ s.table = "address_objects"
                /\ \E r, q \in In(rows, "address_objects") :
                     Two(rows, r, q) /\ r.value = q.value

\* The plain form: a migration and its revert always run.
NothingRefused == Intact => ~Refused

\* Every calendar and contact has the column of its name.
Nameable ==
  \A t \in {"calendars", "address_objects"} :
    In(rows, t) # {} => "name" \in db[t].columns

\* A database that is no longer reverted, and whose calendars and contacts no
\* revert has left without a name, gets to the last migration and stays.
EventuallyMigrated ==
  <>[](run.dir # "down" /\ Intact /\ Nameable) => <>[]AtHead

\* A revert leaves no reference to a table that does not exist.
ReferencesResolve ==
  run = Idle => \A t \in DOMAIN db : \A r \in db[t].refs : r.to \in DOMAIN db
=============================================================================
