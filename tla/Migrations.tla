----------------------------- MODULE Migrations -----------------------------
(***************************************************************************)
(* internal/storage/migrations.go: the schema migrations that              *)
(* InitializeDatabase (init.go) runs at each start, and RollbackToVersion. *)
(* Each migration and the dropping of the tables is one transaction; the   *)
(* steps between them are exposed to a crash and to a second instance of   *)
(* the program on the same database file.                                  *)
(*                                                                         *)
(* Of a migration's SQL only what later code depends on is kept: what the  *)
(* migration builds, that it builds it IF NOT EXISTS, and that migration v *)
(* needs what v - 1 built (an index needs its table).                      *)
(***************************************************************************)
EXTENDS Integers, Sequences, FiniteSets

CONSTANTS Procs,    \* instances of the program
          Latest,   \* the highest Version in GetMigrations
          MaxRows   \* bound: rows of schema_version

ASSUME MigrationAssumption == Latest \in Nat \ {0} /\ MaxRows \in Nat

VARIABLES table,   \* does schema_version exist?
          rows,    \* its versions in the order of their ids
          built,   \* migrations whose tables or indexes exist
          pc,      \* where each instance is
          current, \* the version it read
          target,  \* the version it migrates to
          at,      \* the migration its loop is at
         overtaken \* history: instances that another's rollback has dropped
                   \* the tables of since they read the version

vars == <<table, rows, built, pc, current, target, at, overtaken>>
locals == <<current, target, at>>

Versions == 1..Latest

\* Mutant: the version is how many rows there are.
CountsRows == IF Len(rows) <= Latest THEN Len(rows) ELSE Latest

\* GetVersion: the newest row; 0 without rows or without the table.
GetVersion == IF table /\ rows # <<>> THEN rows[Len(rows)] ELSE 0

Init == /\ table = FALSE
        /\ rows = <<>>
        /\ built = {}
        /\ pc \in [Procs -> {"stopped", "absent"}]   \* absent: never started
        /\ current = [p \in Procs |-> 0]
        /\ target = [p \in Procs |-> 0]
        /\ at = [p \in Procs |-> 1]
        /\ overtaken = {}

Goto(p, l) == pc' = [pc EXCEPT ![p] = l]

\* RunMigrations: create schema_version ...
RunMigrations(p) ==
    /\ pc[p] = "stopped"
    /\ table' = TRUE
    /\ target' = [target EXCEPT ![p] = Latest]
    /\ Goto(p, "read_version")
    /\ UNCHANGED <<rows, built, current, at, overtaken>>

\* ... read the version ...
ReadVersion(p) ==
    /\ pc[p] = "read_version"
    /\ current' = [current EXCEPT ![p] = GetVersion]
    /\ at' = [at EXCEPT ![p] = 1]
    /\ overtaken' = overtaken \ {p}
    /\ Goto(p, "apply")
    /\ UNCHANGED <<table, rows, built, target>>

\* ... and apply the migrations above it, one transaction each: what it
\* builds and its row of schema_version, or nothing.
ApplyMigration(p) ==
    /\ pc[p] = "apply"
    /\ at[p] <= target[p]
    /\ at[p] > current[p]
    /\ Len(rows) < MaxRows
    /\ \A v \in Versions : v < at[p] => v \in built
    /\ table \/ at[p] = 1       \* migration 1 creates schema_version too
    /\ table' = TRUE
    /\ built' = built \cup {at[p]}
    /\ rows' = Append(rows, at[p])
    /\ at' = [at EXCEPT ![p] = @ + 1]
    /\ UNCHANGED <<pc, current, target, overtaken>>

\* The transaction fails: the database is busy, or the migration finds that
\* what it needs has been dropped.  It is rolled back and the start fails.
FailMigration(p) ==
    /\ \/ pc[p] = "apply" /\ at[p] <= target[p] /\ at[p] > current[p]
       \/ pc[p] = "drop"
    /\ Goto(p, "failed")
    /\ UNCHANGED <<table, rows, built, locals, overtaken>>

\* Mutant: skips the first pending migration.
SkipOffByOne(p) ==
    /\ pc[p] = "apply"
    /\ at[p] <= target[p]
    /\ at[p] <= current[p] + 1
    /\ at' = [at EXCEPT ![p] = @ + 1]
    /\ UNCHANGED <<table, rows, built, pc, current, target, overtaken>>

SkipMigration(p) ==
    /\ pc[p] = "apply"
    /\ at[p] <= target[p]
    /\ at[p] <= current[p]
    /\ at' = [at EXCEPT ![p] = @ + 1]
    /\ UNCHANGED <<table, rows, built, pc, current, target, overtaken>>

Migrated(p) ==
    /\ pc[p] = "apply"
    /\ at[p] > target[p]
    /\ Goto(p, "ready")
    /\ UNCHANGED <<table, rows, built, locals, overtaken>>

\* RollbackToVersion reads the version, refuses a target that is not below
\* it ...
RollbackToVersion(p, v) ==
    /\ pc[p] = "ready"
    /\ v < GetVersion
    /\ target' = [target EXCEPT ![p] = v]
    /\ Goto(p, "drop")
    /\ UNCHANGED <<table, rows, built, current, at, overtaken>>

\* Mutant: only the tables of the first migration are dropped.
DropsFirstOnly(p) ==
    /\ pc[p] = "drop"
    /\ table' = FALSE
    /\ rows' = <<>>
    /\ built' = built \ {1}
    /\ current' = [current EXCEPT ![p] = 0]
    /\ at' = [at EXCEPT ![p] = 1]
    /\ overtaken' = Procs \ {p}
    /\ Goto(p, "apply")
    /\ UNCHANGED target

\* ... drops every table, the versions with them, in one transaction, and
\* applies migrations 1..v again, above a version taken for 0.
DropTables(p) ==
    /\ pc[p] = "drop"
    /\ table' = FALSE
    /\ rows' = <<>>
    /\ built' = {}
    /\ current' = [current EXCEPT ![p] = 0]
    /\ at' = [at EXCEPT ![p] = 1]
    /\ overtaken' = Procs \ {p}
    /\ Goto(p, "apply")
    /\ UNCHANGED target

\* The instance exits or dies; a later start runs the migrations again.
Exit(p) ==
    /\ pc[p] \notin {"stopped", "absent"}
    /\ Goto(p, "stopped")
    /\ current' = [current EXCEPT ![p] = 0]
    /\ target' = [target EXCEPT ![p] = 0]
    /\ at' = [at EXCEPT ![p] = 1]
    /\ UNCHANGED <<table, rows, built, overtaken>>

Migrate(p) == ReadVersion(p) \/ ApplyMigration(p) \/ SkipMigration(p)
              \/ Migrated(p) \/ DropTables(p)

Next == \E p \in Procs :
            \/ RunMigrations(p)
            \/ Migrate(p)
            \/ FailMigration(p)
            \/ \E v \in 0..Latest : RollbackToVersion(p, v)
            \/ Exit(p)

Spec == Init /\ [][Next]_vars

-----------------------------------------------------------------------------
\* Type invariant of the database and of the instances' loops.
TypeOK ==
    /\ table \in BOOLEAN
    /\ rows \in Seq(Versions)
    /\ built \subseteq Versions
    /\ pc \in [Procs -> {"stopped", "read_version", "apply", "ready",
                         "failed", "drop", "absent"}]
    /\ current \in [Procs -> 0..Latest]
    /\ target \in [Procs -> 0..Latest]
    /\ at \in [Procs -> 1..(Latest + 1)]
    /\ overtaken \subseteq Procs

\* What the database says it is at, it is at: every migration up to the
\* recorded version has its tables and indexes, after any interleaving of
\* instances, rollbacks and crashes.
VersionIsBuilt == \A v \in Versions : v <= GetVersion => v \in built

\* Migrations are built from the bottom: no index without its table.
BuiltInOrder == \A v, w \in Versions : v < w /\ w \in built => v \in built

RowsInTable == ~table => rows = <<>>

\* The inductive invariant: a version is recorded only on top of those below
\* it, and goes with the tables, because a rollback drops schema_version too.
IInv == TypeOK /\ RowsInTable /\ BuiltInOrder /\ VersionIsBuilt

\* An instance that reports success has every table and index up to its
\* target, although others migrate, record versions, fail and end between its
\* look at the version and its last migration: it acts on a version that is out
\* of date, and may record one below the newest, but skips none that it needs.
\* Only the rollback of another instance since then takes them away.
ReadyIsBuilt ==
    \A p \in Procs \ overtaken : pc[p] = "ready" => 1..target[p] \subseteq built

\* An instance that has the database for itself finds it, once it is ready,
\* at the version it migrated or rolled back to, whatever crash came before.
Alone(p) == \A q \in Procs : pc[q] = "absent" <=> q # p

ReadyAtTarget ==
    \A p \in Procs : Alone(p) /\ pc[p] = "ready" => GetVersion = target[p]

=============================================================================
