--------------------------- MODULE SchemaMigrations ---------------------------
(***************************************************************************)
(* Opening the buffer file (storage/sqlite.py SQLiteStorage.__init__):     *)
(* create whatever is missing, read the version the file says it has, and  *)
(* run the migrations from there to the version of the code, one           *)
(* transaction each (storage/migrations.py run_sqlite_migrations).         *)
(*                                                                         *)
(* The file is a set of steps: step v is what the migration to version v   *)
(* adds, columns to the tables of an older release or tables of its own.   *)
(* Several processes may open it at once and each may die at any point;    *)
(* what SQLite promises them is external: a statement outside a            *)
(* transaction, and a transaction, are done entirely or not at all, and a  *)
(* transaction that read before another one committed can not write.       *)
(***************************************************************************)
EXTENDS Integers, Sequences, FiniteSets, SequencesExt

CONSTANTS Openers,      \* the processes that open the file
          Target,       \* TARGET_SCHEMA_VERSION
          ColumnSteps,  \* the versions that add columns; the others add tables
          IndexedSteps, \* the columns create_schema has an index on
          OldestFile,   \* the oldest version a file is found at
          MaxBusy,      \* bound on the locks that are not had in time
          MaxDeaths     \* bound on the processes that die

ASSUME MigrationAssumption ==
  /\ Target \in Nat \ {0} /\ ColumnSteps \subseteq 2 .. Target
  /\ IndexedSteps \subseteq ColumnSteps /\ OldestFile \in 1 .. Target
  /\ MaxBusy \in Nat /\ MaxDeaths \in Nat

Steps == 1 .. Target
TableSteps == Steps \ ColumnSteps
-----------------------------------------------------------------------------
VARIABLES
  schema,    \* the steps the file has
  versions,  \* the rows of schema_version, in the order of version_id
  opener,    \* [Openers -> where it is, the version it is at, if what it read is current]
  busy, deaths

schemaVars == <<schema, versions, opener, busy, deaths>>

Closed == [at |-> "closed", version |-> 0, fresh |-> TRUE]
Move(o, at) == opener' = [opener EXCEPT ![o].at = at]

\* A commit makes what the others have read in an open transaction stale.
MoveAndCommit(o, at, version) ==
  opener' = [p \in Openers |->
               IF p = o THEN [at |-> at, version |-> version, fresh |-> TRUE]
               ELSE [opener[p] EXCEPT !.fresh = FALSE]]

\* No file yet, or one that a release of an earlier version made.
SchemaInit ==
  /\ \/ schema = {} /\ versions = <<>>
     \/ \E v \in OldestFile .. Target : schema = 1 .. v /\ versions = <<v>>
  /\ opener = [o \in Openers |-> Closed] /\ busy = 0 /\ deaths = 0
-----------------------------------------------------------------------------
(* create_schema *)

\* Mutant: new tables are made as the first release made them.
CreatedPlain == IF 1 \in schema THEN schema \union TableSteps ELSE TableSteps

\* A table is made with every column there is now; one that exists stays as it is.
Created == IF 1 \in schema THEN schema \union TableSteps ELSE Steps

CreateTables(o) ==
  /\ opener[o].at = "closed"
  /\ schema' = Created
  /\ MoveAndCommit(o, "indexes", 0)
  /\ UNCHANGED <<versions, busy, deaths>>

\* An index on a column that the table does not have is an error.
CreateIndexes(o) ==
  /\ opener[o].at = "indexes"
  /\ Move(o, IF IndexedSteps \subseteq schema THEN "count" ELSE "no such column")
  /\ UNCHANGED <<schema, versions, busy, deaths>>

CountVersions(o) ==
  /\ opener[o].at = "count"
  /\ Move(o, IF versions = <<>> THEN "seed" ELSE "read")
  /\ UNCHANGED <<schema, versions, busy, deaths>>

SeedVersion(o) ==
  /\ opener[o].at = "seed"
  /\ versions' = Append(versions, Target)
  /\ MoveAndCommit(o, "read", 0)
  /\ UNCHANGED <<schema, busy, deaths>>
-----------------------------------------------------------------------------
(* _run_migrations, run_sqlite_migrations *)

Recorded == IF versions = <<>> THEN 0 ELSE Last(versions)

ReadVersion(o) ==
  /\ opener[o].at = "read"
  /\ opener' = [opener EXCEPT ![o] =
       [at |-> IF Recorded >= Target THEN "open" ELSE "begin",
        version |-> Recorded, fresh |-> TRUE]]
  /\ UNCHANGED <<schema, versions, busy, deaths>>

\* The transaction begins with a look at the columns there are.
InspectColumns(o) ==
  /\ opener[o].at = "begin"
  /\ opener' = [opener EXCEPT ![o] =
       [at |-> "migrate", version |-> opener[o].version, fresh |-> TRUE]]
  /\ UNCHANGED <<schema, versions, busy, deaths>>

After(version) == IF version >= Target THEN "open" ELSE "begin"

\* Mutant: the version is recorded in a transaction before the one that alters.
MigrateInTwo(o) ==
  LET next == opener[o].version + 1 IN
  /\ opener[o].at = "migrate" /\ opener[o].fresh
  /\ IF ~Contains(versions, next)
     THEN versions' = Append(versions, next) /\ UNCHANGED <<schema, opener>>
     ELSE schema' = schema \union {next} /\ MoveAndCommit(o, After(next), next)
          /\ UNCHANGED versions
  /\ UNCHANGED <<busy, deaths>>

\* The columns that are missing and the new version are one commit.
Migrate(o) ==
  LET next == opener[o].version + 1 IN
  /\ opener[o].at = "migrate" /\ opener[o].fresh
  /\ schema' = schema \union {next}
  /\ versions' = Append(versions, next)
  /\ MoveAndCommit(o, After(next), next)
  /\ UNCHANGED <<busy, deaths>>

\* It is rolled back and opening fails with a MigrationError.
MigrateIsStale(o) ==
  /\ opener[o].at = "migrate" /\ ~opener[o].fresh
  /\ Move(o, "busy")
  /\ UNCHANGED <<schema, versions, busy, deaths>>
-----------------------------------------------------------------------------
\* A write that does not get its lock within the timeout of the connection.
IsBusy(o) ==
  /\ opener[o].at \in {"closed", "indexes", "seed", "migrate"} /\ busy < MaxBusy
  /\ busy' = busy + 1
  /\ Move(o, "busy")
  /\ UNCHANGED <<schema, versions, deaths>>

\* An open storage writes to the file.
Write(o) ==
  /\ opener[o].at = "open"
  /\ \E p \in Openers : opener[p].at = "migrate" /\ opener[p].fresh
  /\ MoveAndCommit(o, "open", opener[o].version)
  /\ UNCHANGED <<schema, versions, busy, deaths>>

\* A process that dies, or that failed to open the file, is started again.
Die(o) ==
  /\ opener[o].at # "closed" /\ deaths < MaxDeaths
  /\ deaths' = deaths + 1
  /\ opener' = [opener EXCEPT ![o] = Closed]
  /\ UNCHANGED <<schema, versions, busy>>

SchemaNext ==
  \E o \in Openers :
    \/ CreateTables(o) \/ CreateIndexes(o) \/ CountVersions(o) \/ SeedVersion(o)
    \/ ReadVersion(o) \/ InspectColumns(o) \/ Migrate(o) \/ MigrateIsStale(o)
    \/ IsBusy(o) \/ Write(o) \/ Die(o)

SchemaSpec == SchemaInit /\ [][SchemaNext]_schemaVars
-----------------------------------------------------------------------------
\* A file has all that any of its version rows promises, whoever opened it and died on
\* the way: a migration skipped on the word of a row was done (run_sqlite_migrations).
VersionsAreTrue ==
  \A i \in DOMAIN versions : 1 .. versions[i] \subseteq schema

\* A storage that is open has every table and column of the code, though the last row
\* may be older than another process has left it (_run_migrations).
OpenFileIsComplete ==
  \A o \in Openers : opener[o].at = "open" => schema = Steps

\* A file is what it says and what its users take it for, whoever died on the way.
FilesAreWhatTheySay == VersionsAreTrue /\ OpenFileIsComplete

\* Opening the file fails only when another process is in the way: a file of any
\* earlier version is brought up to date (migrations.py "auto-migrate without data loss").
OldFilesOpen ==
  \A o \in Openers : opener[o].at # "no such column"
=============================================================================
