----------------------------- MODULE Migrations -----------------------------
(***************************************************************************)
(* The SQLite schema and its migrations (backend/migrations/*.js with      *)
(* their SQL files), run by db-migrate from backend/src/db/migrationRunner *)
(* at startup and from the command line.                                   *)
(*                                                                         *)
(* A script is run statement by statement and may stop after any of them,  *)
(* by an error or because the process is killed; what db-migrate has done  *)
(* by then stays or is rolled back.  The database of the stores in memory  *)
(* (db/store.ts) is not this one.                                          *)
(***************************************************************************)
EXTENDS Integers, Sequences, FiniteSets, SequencesExt

CONSTANTS Idle   \* no migration runs

VARIABLES
  schema,      \* [tables : name -> columns and rows, indexes : (name, column)]
  applied,     \* number of migrations on record: they are applied in order
  migrating    \* the run: its direction, statements to go, schema before

migrationVars == <<schema, applied, migrating>>

\* The third table, idempotency_keys, is like these two but never altered.
BaseTables == {"collaterals", "loans"}
Backup == [collaterals |-> "collaterals_backup", loans |-> "loans_backup"]
SoftDelete == {"deleted_at", "deletedAt"}

\* idx_collaterals_owner and idx_loans_borrower are on "base" columns.
Schema == [tables : SUBSET (BaseTables \cup {Backup[t] : t \in BaseTables}),
           columns : SUBSET (BaseTables \X SoftDelete),
           rows : SUBSET (BaseTables \cup {Backup[t] : t \in BaseTables}),
           indexes : SUBSET (BaseTables \X (SoftDelete \cup {"base"}))]

EmptySchema == [tables |-> {}, columns |-> {}, rows |-> {}, indexes |-> {}]

-----------------------------------------------------------------------------
(* Statements: their operation, table and column; CanExecute, or an error. *)

Stmt(op, t, c) == [op |-> op, table |-> t, column |-> c]

CanExecute(s, db) ==
  CASE s.op = "addColumn" -> s.table \in db.tables /\ <<s.table, s.column>> \notin db.columns
    [] s.op = "dropColumn" -> <<s.table, s.column>> \in db.columns \ db.indexes
    [] s.op = "backUp" -> s.table \in db.tables /\ Backup[s.table] \notin db.tables
    [] s.op = "copyBack" -> {s.table, Backup[s.table]} \subseteq db.tables
    [] s.op = "dropTable" -> s.table \in db.tables
    [] s.op = "dropBackup" -> Backup[s.table] \in db.tables
    [] s.op = "createTable" -> s.table \notin db.tables
    [] s.op = "createIndex" -> s.table \in db.tables
    [] OTHER -> TRUE     \* IF EXISTS, IF NOT EXISTS

\* DROP TABLE takes the columns and the indexes of the table with it.
WithoutTable(db, t) ==
  [tables |-> db.tables \ {t}, rows |-> db.rows \ {t},
   columns |-> {x \in db.columns : x[1] # t}, indexes |-> {x \in db.indexes : x[1] # t}]

\* An index is known by its name: one on a base column, and one on the column
\* that marks deleted rows, whichever it is.
SameName(t, c) == {x \in BaseTables \X (SoftDelete \cup {"base"}) :
                     x[1] = t /\ (x[2] = "base" <=> c = "base")}

Execute(s, db) ==
  LET t == s.table  b == Backup[s.table]  c == s.column IN
  CASE s.op \in {"createTable", "ensureTable"} -> [db EXCEPT !.tables = @ \cup {t}]
    [] s.op \in {"dropTable", "dropTableIfThere"} -> WithoutTable(db, t)
    [] s.op = "dropBackup" -> WithoutTable(db, b)
    [] s.op = "addColumn" -> [db EXCEPT !.columns = @ \cup {<<t, c>>}]
    [] s.op = "dropColumn" -> [db EXCEPT !.columns = @ \ {<<t, c>>}]
    [] s.op = "createIndex" ->
         IF SameName(t, c) \cap db.indexes # {} THEN db
         ELSE [db EXCEPT !.indexes = @ \cup {<<t, c>>}]
    [] s.op = "dropIndex" -> [db EXCEPT !.indexes = @ \ SameName(t, c)]
    [] s.op = "backUp" ->
         [db EXCEPT !.tables = @ \cup {b}, !.rows = IF t \in @ THEN @ \cup {b} ELSE @]
    [] s.op = "copyBack" ->
         [db EXCEPT !.rows = IF b \in @ THEN @ \cup {t} ELSE @]

-----------------------------------------------------------------------------
(* The scripts.                                                            *)

Both(op, c) == <<Stmt(op, "collaterals", c), Stmt(op, "loans", c)>>

InitialSchemaUp == Both("ensureTable", "base") \o Both("createIndex", "base")
InitialSchemaDown == Both("dropIndex", "base") \o Both("dropTableIfThere", "base")

SoftDeleteUp == Both("addColumn", "deleted_at") \o Both("createIndex", "deleted_at")

\* Mutant: the copy is made of the table that was created anew.
RecreateFirst(t) ==
  <<Stmt("dropTable", t, ""), Stmt("createTable", t, ""), Stmt("backUp", t, ""),
    Stmt("copyBack", t, ""), Stmt("dropBackup", t, "")>>

Recreate(t) ==
  <<Stmt("backUp", t, ""), Stmt("dropTable", t, ""), Stmt("createTable", t, ""),
    Stmt("copyBack", t, ""), Stmt("dropBackup", t, "")>>

SoftDeleteDown ==
  Both("dropIndex", "deleted_at") \o Recreate("collaterals") \o Recreate("loans")
    \o Both("createIndex", "base")

SoftDeleteAgainUp == Both("addColumn", "deletedAt") \o Both("createIndex", "deletedAt")
SoftDeleteAgainDown == Both("dropIndex", "deletedAt") \o Both("dropColumn", "deletedAt")

Scripts == << [up |-> InitialSchemaUp, down |-> InitialSchemaDown],
              [up |-> SoftDeleteUp, down |-> SoftDeleteDown],
              [up |-> SoftDeleteAgainUp, down |-> SoftDeleteAgainDown] >>

Versions == 0 .. Len(Scripts)

MigrationsTypeOK ==
  /\ schema \in Schema
  /\ applied \in Versions
  /\ migrating = Idle \/ /\ migrating.up \in BOOLEAN
                         /\ migrating.before \in Schema
                         /\ migrating.left \in 0 .. 14

MigrationsInit ==
  /\ schema = EmptySchema /\ applied = 0 /\ migrating = Idle

-----------------------------------------------------------------------------
(* Runs.                                                                   *)

Script == IF migrating.up THEN Scripts[applied + 1].up ELSE Scripts[applied].down

\* Rows come in through other clients of the database.
Populate(t) ==
  /\ migrating = Idle
  /\ t \in schema.tables /\ t \notin schema.rows
  /\ schema' = [schema EXCEPT !.rows = @ \cup {t}]
  /\ UNCHANGED <<applied, migrating>>

BeginMigration(up, version) ==
  /\ migrating = Idle
  /\ version \in DOMAIN Scripts
  /\ migrating' = [up |-> up, before |-> schema,
                   left |-> Len(IF up THEN Scripts[version].up ELSE Scripts[version].down)]
  /\ UNCHANGED <<schema, applied>>

\* runMigrations: db-migrate goes on to the next pending one.
MigrateUp == BeginMigration(TRUE, applied + 1)

\* rollbackMigration, not in production.
RollBack == BeginMigration(FALSE, applied)

NextStatement == Script[Len(Script) - migrating.left + 1]

RunStatement ==
  /\ migrating # Idle /\ migrating.left > 0
  /\ CanExecute(NextStatement, schema)
  /\ schema' = Execute(NextStatement, schema)
  /\ migrating' = [migrating EXCEPT !.left = @ - 1]
  /\ UNCHANGED applied

\* db-migrate adds or removes its record.
Recorded ==
  /\ migrating # Idle /\ migrating.left = 0
  /\ applied' = IF migrating.up THEN applied + 1 ELSE applied - 1
  /\ migrating' = Idle
  /\ UNCHANGED schema

\* A statement fails, or the process ends; the runner logs and rethrows.
MigrationFails ==
  /\ migrating # Idle
  /\ schema' \in {schema, migrating.before}
  /\ migrating' = Idle
  /\ UNCHANGED applied

MigrationsNext ==
  \/ \E t \in BaseTables : Populate(t)
  \/ MigrateUp \/ RollBack \/ RunStatement \/ Recorded \/ MigrationFails

MigrationsSpec == MigrationsInit /\ [][MigrationsNext]_migrationVars

-----------------------------------------------------------------------------
(* Properties.                                                             *)

\* The rows of a table are in it or in its backup, wherever runs in either
\* direction have stopped and been tried again, unless the initial schema is
\* being rolled back.
RowsSurvive ==
  [][\A t \in BaseTables :
       {t, Backup[t]} \cap schema.rows # {} /\ {t, Backup[t]} \cap schema'.rows = {}
         => applied = 1 /\ ~migrating.up]_migrationVars
=============================================================================
