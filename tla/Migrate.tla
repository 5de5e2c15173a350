------------------------------ MODULE Migrate ------------------------------
(* store.Migrate (store/migrate.go), run by every instance of the server    *)
(* that starts, against the one database: a step is one statement.          *)
(*                                                                          *)
(* What Postgres does is taken from how the code uses it: DDL is part of    *)
(* the transaction; CREATE ... IF NOT EXISTS looks for a committed object,  *)
(* and when it finds none it waits for an open transaction that is making   *)
(* it and fails if that one commits; so does INSERT on its primary key; and *)
(* a rollback, or the loss of the connection, undoes a transaction.         *)
EXTENDS Integers

CONSTANTS
    Servers,    \* instances of the program
    Latest      \* per instance: how many migrations its binary embeds

ASSUME MigrateAssumption == Latest \in [Servers -> Nat]

\* migrationNames: the embedded files, numbered in the order of their names.
Embedded(i) == 1 .. Latest[i]
Versions    == UNION {Embedded(i) : i \in Servers}

VARIABLES
    pc,         \* per instance: the statement its main goroutine is at
    table,      \* schema_migrations exists
    schema,     \* versions whose tables exist
    recorded,   \* rows of schema_migrations
    todo,       \* per instance: the names it has yet to apply
    doing,      \* per instance: the version that it applies
    made, rows, \* per instance: what its open transaction created and inserted
    failed,     \* instances whose run returns an error
    lost        \* history: per instance, versions it lost to another instance

tx     == <<made, rows>>
memory == <<todo, doing>>
base   == <<table, schema, recorded>>

\* schema_migrations itself, where lost names versions.
Table == 0

GoTo(i, p) == pc' = [pc EXCEPT ![i] = p]

MigrateInit ==
    /\ table = FALSE /\ schema = {} /\ recorded = {}
    /\ todo = [i \in Servers |-> {}]
    /\ doing = [i \in Servers |-> Table]
    /\ made = [i \in Servers |-> {}]
    /\ rows = [i \in Servers |-> {}]
    /\ lost = [i \in Servers |-> {}]

Rollback(i) ==
    /\ made' = [made EXCEPT ![i] = {}]
    /\ rows' = [rows EXCEPT ![i] = {}]

\* Mutant: run goes on and serves when Migrate has failed.
LogAndServe(i) ==
    /\ GoTo(i, "listen")
    /\ Rollback(i)
    /\ failed' = failed
    /\ UNCHANGED <<base, memory>>

\* Migrate returns an error, and so does run: tx.Rollback, then db.Close.
Return(i) ==
    /\ GoTo(i, "close db")
    /\ Rollback(i)
    /\ failed' = failed \cup {i}
    /\ UNCHANGED <<base, memory>>

\* The database refuses a statement because v is another's by now.
Conflict(i, v) ==
    /\ lost' = [lost EXCEPT ![i] = @ \cup {v}]
    /\ Return(i)

\* CREATE TABLE IF NOT EXISTS schema_migrations, outside any transaction: ...
EnsureTable(i) ==
    /\ pc[i] = "ensure table"
    /\ GoTo(i, IF table THEN "read" ELSE "create table")
    /\ UNCHANGED <<base, memory, tx, failed, lost>>

\* ... it was missing, and is created unless somebody has by now.
CreateTable(i) ==
    /\ pc[i] = "create table"
    /\ \/ table /\ Conflict(i, Table)
       \/ /\ ~table
          /\ table' = TRUE
          /\ GoTo(i, "read")
          /\ UNCHANGED <<schema, recorded, memory, tx, failed, lost>>

\* Mutant: the names are counted from 0.
ReadFromZero(i) ==
    /\ pc[i] = "read"
    /\ todo' = [todo EXCEPT ![i] = (0 .. Latest[i]) \ recorded]
    /\ GoTo(i, "next")
    /\ UNCHANGED <<base, doing, tx, failed, lost>>

\* Mutant: the loop does not skip what is applied.
ReadNothing(i) ==
    /\ pc[i] = "read"
    /\ todo' = [todo EXCEPT ![i] = Embedded(i)]
    /\ GoTo(i, "next")
    /\ UNCHANGED <<base, doing, tx, failed, lost>>

\* The applied set is read once; the loop skips what it holds.
ReadApplied(i) ==
    /\ pc[i] = "read"
    /\ todo' = [todo EXCEPT ![i] = Embedded(i) \ recorded]
    /\ GoTo(i, "next")
    /\ UNCHANGED <<base, doing, tx, failed, lost>>

\* Mutant: the names are taken in any order.
BeginAny(i) ==
    /\ pc[i] = "next"
    /\ \E v \in todo[i] :
         /\ doing' = [doing EXCEPT ![i] = v]
         /\ GoTo(i, IF v \in schema THEN "record" ELSE "create")
    /\ UNCHANGED <<base, todo, tx, failed, lost>>

\* applyOne on the next name: BeginTx, and the migration's first CREATE
\* TABLE IF NOT EXISTS looks for its table.
Begin(i) ==
    /\ pc[i] = "next"
    /\ \E v \in todo[i] :
         /\ \A w \in todo[i] : v <= w
         /\ doing' = [doing EXCEPT ![i] = v]
         /\ GoTo(i, IF v \in schema THEN "record" ELSE "create")
    /\ UNCHANGED <<base, todo, tx, failed, lost>>

Create(i) ==
    LET v == doing[i] IN
    /\ pc[i] = "create"
    /\ \A j \in Servers \ {i} : v \notin made[j]
    /\ \/ v \in schema /\ Conflict(i, v)
       \/ /\ v \notin schema
          /\ made' = [made EXCEPT ![i] = @ \cup {v}]
          /\ GoTo(i, "record")
          /\ UNCHANGED <<base, memory, rows, failed, lost>>

Record(i) ==
    LET v == doing[i] IN
    /\ pc[i] = "record"
    /\ \A j \in Servers \ {i} : v \notin rows[j]
    /\ \/ v \in recorded /\ Conflict(i, v)
       \/ /\ v \notin recorded
          /\ rows' = [rows EXCEPT ![i] = @ \cup {v}]
          /\ GoTo(i, "commit")
          /\ UNCHANGED <<base, memory, made, failed, lost>>

Committed(i) ==
    /\ schema' = schema \cup made[i]
    /\ recorded' = recorded \cup rows[i]
    /\ Rollback(i)

Commit(i) ==
    /\ pc[i] = "commit"
    /\ Committed(i)
    /\ todo' = [todo EXCEPT ![i] = @ \ {doing[i]}]
    /\ GoTo(i, "next")
    /\ UNCHANGED <<table, doing, failed, lost>>

\* The connection is lost when the commit has been done, before it is told.
CommitUntold(i) ==
    /\ pc[i] = "commit"
    /\ Committed(i)
    /\ failed' = failed \cup {i}
    /\ GoTo(i, "close db")
    /\ UNCHANGED <<table, memory, lost>>

Migrated(i) ==
    /\ pc[i] = "next" /\ todo[i] = {}
    /\ GoTo(i, "listen")
    /\ UNCHANGED <<base, memory, tx, failed, lost>>

MigrateStep(i) ==
    \/ EnsureTable(i) \/ CreateTable(i) \/ ReadApplied(i)
    \/ Begin(i) \/ Create(i) \/ Record(i) \/ Commit(i) \/ Migrated(i)

Applying  == {"create", "record", "commit"}
Migrating == {"ensure table", "create table", "read", "next"} \cup Applying

\* Any statement may fail: the database, or the way to it, is down.
MigrateFault(i) ==
    \/ pc[i] \in Migrating /\ Return(i) /\ UNCHANGED lost
    \/ CommitUntold(i)

----------------------------------------------------------------------------
(* The tables and their record never differ, and no migration is skipped,   *)
(* whoever crashes where and however many instances apply them at once:     *)
(* "Each *.up.sql file is applied in filename (lexicographic) order inside  *)
(* its own transaction" (migrate.go:12-13).                                 *)
SchemaInOrder ==
    /\ recorded = schema
    /\ \A v \in schema : \A w \in 1 .. v : w \in schema

(* "so running it on every startup is safe" (migrate.go:20): an instance    *)
(* that fails because another applied a migration first does not meet that  *)
(* one again when it is restarted.                                          *)
TriesOnce ==
    \A i \in Servers :
        /\ pc[i] \in Applying => doing[i] \notin lost[i]
        /\ pc[i] = "create table" => Table \notin lost[i]
=============================================================================
