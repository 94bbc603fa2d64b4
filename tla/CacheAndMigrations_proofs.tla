---------------------- MODULE CacheAndMigrations_proofs ----------------------
(***************************************************************************)
(* Proofs about two of the parts of internal/storage that share nothing    *)
(* but the manager: Migrations, for any number of instances and of         *)
(* migrations, and ConversationCache, for any sets of ids and sizes, any   *)
(* limits and any of the policies.                                         *)
(***************************************************************************)
EXTENDS Migrations, ConversationCache, FiniteSetTheorems, WellFoundedInduction, TLAPS


\* Appending a version makes it the recorded one.
LEMMA VersionAppended ==
    ASSUME NEW p, rows \in Seq(Versions), NEW v \in Versions, table',
           rows' = Append(rows, v)
    PROVE  rows' \in Seq(Versions) /\ GetVersion' = v
<1>1. /\ rows' \in Seq(Versions)
      /\ Len(rows') = Len(rows) + 1
      /\ rows'[Len(rows) + 1] = v
      /\ rows' # <<>>
  OBVIOUS
<1> QED
  BY <1>1 DEF GetVersion

LEMMA GetVersionType ==
    ASSUME rows \in Seq(Versions)
    PROVE  GetVersion \in 0..Latest
<1>1. CASE rows # <<>>
  <2>1. Len(rows) \in 1..Len(rows)
    BY <1>1
  <2>2. rows[Len(rows)] \in Versions
    BY <2>1
  <2> QED
    BY <2>2, MigrationAssumption DEF GetVersion, Versions
<1>2. CASE rows = <<>>
  BY <1>2, MigrationAssumption DEF GetVersion
<1> QED
  BY <1>1, <1>2

LEMMA InitIInv == Init => IInv
<1> SUFFICES ASSUME Init PROVE IInv
  OBVIOUS
<1>1. TypeOK
  <2> <<>> \in Seq(Versions)
    OBVIOUS
  <2>1. rows \in Seq(Versions) /\ built \subseteq Versions /\ table \in BOOLEAN
        /\ overtaken \subseteq Procs
    BY DEF Init
  <2>2. /\ current \in [Procs -> 0..Latest]
        /\ target \in [Procs -> 0..Latest]
        /\ at \in [Procs -> 1..(Latest + 1)]
    BY MigrationAssumption DEF Init
  <2>3. pc \in [Procs -> {"stopped", "read_version", "apply", "ready",
                         "failed", "drop", "absent"}]
    BY DEF Init
  <2> QED
    BY <2>1, <2>2, <2>3 DEF TypeOK
<1>2. GetVersion = 0
  BY DEF Init, GetVersion
<1>3. RowsInTable /\ BuiltInOrder /\ VersionIsBuilt
  BY <1>2 DEF Init, RowsInTable, BuiltInOrder, VersionIsBuilt, Versions
<1> QED
  BY <1>1, <1>3 DEF IInv

\* The steps that touch neither the rows nor what is built.
LEMMA QuietStep ==
    ASSUME IInv, UNCHANGED <<rows, built>>, table' = table \/ table' = TRUE, TypeOK'
    PROVE  IInv'
<1>1. GetVersion' = GetVersion \/ (~table /\ rows = <<>>)
  BY DEF IInv, RowsInTable, GetVersion
<1>2. CASE GetVersion' = GetVersion
  BY <1>2 DEF IInv, RowsInTable, BuiltInOrder, VersionIsBuilt
<1>3. CASE ~table /\ rows = <<>>
  <2>1. GetVersion' = 0
    BY <1>3 DEF GetVersion
  <2> QED
    BY <1>3, <2>1 DEF IInv, RowsInTable, BuiltInOrder, VersionIsBuilt, Versions
<1> QED
  BY <1>1, <1>2, <1>3

LEMMA ApplyStep == ASSUME IInv, NEW p \in Procs, ApplyMigration(p) PROVE IInv'
<1> USE DEF IInv
<1> PICK v \in Nat : v = at[p]
  BY DEF TypeOK
<1>1. /\ v \in Versions
      /\ \A w \in Versions : w < v => w \in built
      /\ table'
      /\ built' = built \cup {v}
      /\ rows' = Append(rows, v)
      /\ at' = [at EXCEPT ![p] = v + 1]
      /\ UNCHANGED <<pc, current, target, overtaken>>
  BY MigrationAssumption DEF ApplyMigration, TypeOK, Versions
<1>2. rows' \in Seq(Versions) /\ GetVersion' = v
  BY <1>1, VersionAppended DEF TypeOK
<1>3. at' \in [Procs -> 1..(Latest + 1)]
  BY <1>1, MigrationAssumption DEF TypeOK, Versions
<1>4. TypeOK'
  BY <1>1, <1>2, <1>3 DEF TypeOK
<1>5. BuiltInOrder' /\ VersionIsBuilt'
  BY <1>1, <1>2, MigrationAssumption DEF BuiltInOrder, VersionIsBuilt, Versions
<1>6. RowsInTable'
  BY <1>1 DEF RowsInTable
<1> QED
  BY <1>4, <1>5, <1>6

LEMMA DropStep == ASSUME IInv, NEW p \in Procs, DropTables(p) PROVE IInv'
<1> USE DEF IInv
<1>1. /\ table' = FALSE /\ rows' = <<>> /\ built' = {}
      /\ current' = [current EXCEPT ![p] = 0]
      /\ at' = [at EXCEPT ![p] = 1]
      /\ pc' = [pc EXCEPT ![p] = "apply"]
      /\ overtaken' \subseteq Procs
      /\ UNCHANGED target
  BY DEF DropTables, Goto
<1>2. TypeOK'
  <2> <<>> \in Seq(Versions)
    OBVIOUS
  <2>1. rows' \in Seq(Versions) /\ built' \subseteq Versions /\ table' \in BOOLEAN
        /\ overtaken' \subseteq Procs
    BY <1>1
  <2>2. /\ current' \in [Procs -> 0..Latest]
        /\ target' \in [Procs -> 0..Latest]
        /\ at' \in [Procs -> 1..(Latest + 1)]
    BY <1>1, MigrationAssumption DEF TypeOK
  <2>3. pc' \in [Procs -> {"stopped", "read_version", "apply", "ready",
                          "failed", "drop", "absent"}]
    BY <1>1 DEF TypeOK
  <2> QED
    BY <2>1, <2>2, <2>3 DEF TypeOK
<1>3. GetVersion' = 0
  BY <1>1 DEF GetVersion
<1> QED
  BY <1>1, <1>2, <1>3 DEF RowsInTable, BuiltInOrder, VersionIsBuilt, Versions

\* Versions, tables and indexes agree in every reachable state.
THEOREM Invariance == Spec => []IInv
<1>1. IInv /\ [Next]_vars => IInv'
  <2> SUFFICES ASSUME IInv, [Next]_vars PROVE IInv'
    OBVIOUS
  <2> USE DEF IInv
  <2>1. ASSUME NEW p \in Procs, RunMigrations(p) PROVE IInv'
    <3>1. TypeOK'
      BY <2>1, MigrationAssumption DEF RunMigrations, Goto, TypeOK
    <3> QED
      BY <2>1, <3>1, QuietStep DEF RunMigrations
  <2>2. ASSUME NEW p \in Procs, ReadVersion(p) PROVE IInv'
    <3>1. GetVersion \in 0..Latest
      BY GetVersionType DEF TypeOK
    <3>2. TypeOK'
      BY <2>2, <3>1, MigrationAssumption DEF ReadVersion, Goto, TypeOK
    <3> QED
      BY <2>2, <3>2, QuietStep DEF ReadVersion
  <2>3. ASSUME NEW p \in Procs, FailMigration(p) \/ Migrated(p) PROVE IInv'
    <3>1. TypeOK'
      BY <2>3 DEF FailMigration, Migrated, Goto, TypeOK, locals
    <3> QED
      BY <2>3, <3>1, QuietStep DEF FailMigration, Migrated
  <2>4. ASSUME NEW p \in Procs, SkipMigration(p) PROVE IInv'
    <3>1. TypeOK'
      <4>1. at' \in [Procs -> 1..(Latest + 1)]
        BY <2>4, MigrationAssumption DEF SkipMigration, TypeOK
      <4> QED
        BY <2>4, <4>1 DEF SkipMigration, TypeOK
    <3> QED
      BY <2>4, <3>1, QuietStep DEF SkipMigration
  <2>5. ASSUME NEW p \in Procs, NEW v \in 0..Latest, RollbackToVersion(p, v)
        PROVE  IInv'
    <3>1. TypeOK'
      BY <2>5 DEF RollbackToVersion, Goto, TypeOK
    <3> QED
      BY <2>5, <3>1, QuietStep DEF RollbackToVersion
  <2>6. ASSUME NEW p \in Procs, Exit(p) PROVE IInv'
    <3>1. TypeOK'
      BY <2>6, MigrationAssumption DEF Exit, Goto, TypeOK
    <3> QED
      BY <2>6, <3>1, QuietStep DEF Exit
  <2>7. CASE UNCHANGED vars
    <3>1. TypeOK'
      BY <2>7 DEF vars, TypeOK
    <3> QED
      BY <2>7, <3>1, QuietStep DEF vars
  <2> QED
    BY <2>1, <2>2, <2>3, <2>4, <2>5, <2>6, <2>7, ApplyStep, DropStep
       DEF Next, Migrate
<1> QED
  BY InitIInv, <1>1, PTL DEF Spec

\* What the database says it is at, it is at.
THEOREM VersionCorrect == Spec => []VersionIsBuilt
<1>1. IInv => VersionIsBuilt
  BY DEF IInv
<1> QED
  BY Invariance, <1>1, PTL

-----------------------------------------------------------------------------
(***************************************************************************)
(* An instance that no rollback has overtaken has below its loop what the  *)
(* loop has passed: what it skips was built when it read the version.      *)
(***************************************************************************)
Passed(p) ==
    /\ pc[p] = "apply" => 1..current[p] \subseteq built /\ 1..(at[p] - 1) \subseteq built
    /\ pc[p] = "ready" => 1..target[p] \subseteq built

PassedInv == \A p \in Procs \ overtaken : Passed(p)

\* A step of another instance that builds something or nothing leaves that so.
LEMMA OthersPass ==
    ASSUME IInv, PassedInv, NEW p \in Procs, built \subseteq built', overtaken' \subseteq overtaken,
           \A q \in Procs \ {p} : /\ pc'[q] = pc[q] /\ current'[q] = current[q]
                                  /\ target'[q] = target[q] /\ at'[q] = at[q]
                                  /\ q \in overtaken' <=> q \in overtaken,
           p \notin overtaken' => Passed(p)'
    PROVE  PassedInv'
<1>1. \A q \in (Procs \ {p}) \ overtaken' : Passed(q)'
  BY DEF PassedInv, Passed
<1> QED
  BY <1>1 DEF PassedInv

LEMMA PassedStep ==
    ASSUME IInv, PassedInv, [Next]_vars PROVE PassedInv'
<1> USE DEF Goto
<1>1. /\ pc \in [Procs -> {"stopped", "read_version", "apply", "ready", "failed", "drop", "absent"}]
      /\ current \in [Procs -> 0..Latest] /\ target \in [Procs -> 0..Latest]
      /\ at \in [Procs -> 1..(Latest + 1)] /\ rows \in Seq(Versions)
      /\ overtaken \subseteq Procs
  BY DEF IInv, TypeOK
<1>2. Latest \in Nat \ {0}
  BY MigrationAssumption
<1>3. GetVersion \in 0..Latest /\ 1..GetVersion \subseteq built
  BY <1>1, <1>2, GetVersionType DEF IInv, VersionIsBuilt, Versions
<1>4. ASSUME NEW p \in Procs,
             RunMigrations(p) \/ FailMigration(p) \/ Exit(p)
             \/ \E v \in 0..Latest : RollbackToVersion(p, v)
      PROVE  PassedInv'
  <2>1. Passed(p)' /\ built' = built /\ overtaken' = overtaken
    BY <1>1, <1>4 DEF RunMigrations, FailMigration, Exit, RollbackToVersion, Passed, locals
  <2>2. \A q \in Procs \ {p} : /\ pc'[q] = pc[q] /\ current'[q] = current[q]
                                /\ target'[q] = target[q] /\ at'[q] = at[q]
    BY <1>1, <1>4 DEF RunMigrations, FailMigration, Exit, RollbackToVersion, locals
  <2> QED
    BY <2>1, <2>2, OthersPass
<1>5. ASSUME NEW p \in Procs, ReadVersion(p) PROVE PassedInv'
  <2>1. /\ pc'[p] = "apply" /\ current'[p] = GetVersion /\ at'[p] = 1
        /\ built' = built /\ overtaken' = overtaken \ {p}
    BY <1>1, <1>5 DEF ReadVersion
  <2>2. \A q \in Procs \ {p} : /\ pc'[q] = pc[q] /\ current'[q] = current[q]
                                /\ target'[q] = target[q] /\ at'[q] = at[q]
    BY <1>1, <1>5 DEF ReadVersion
  <2>3. Passed(p)'
    BY <1>3, <2>1 DEF Passed
  <2> QED
    BY <2>1, <2>2, <2>3, OthersPass
<1>6. ASSUME NEW p \in Procs, ApplyMigration(p) PROVE PassedInv'
  <2>1. /\ pc[p] = "apply" /\ pc' = pc /\ current' = current /\ target' = target
        /\ built' = built \cup {at[p]} /\ overtaken' = overtaken
        /\ at' = [at EXCEPT ![p] = at[p] + 1]
        /\ \A v \in Versions : v < at[p] => v \in built
    BY <1>6 DEF ApplyMigration
  <2>2. at'[p] = at[p] + 1 /\ \A q \in Procs \ {p} : at'[q] = at[q]
    BY <1>1, <2>1
  <2>3. 1..(at'[p] - 1) \subseteq built'
    BY <1>1, <1>2, <2>1, <2>2 DEF Versions
  <2>4. p \notin overtaken' => Passed(p)'
    BY <2>1, <2>3 DEF PassedInv, Passed
  <2> QED
    BY <2>1, <2>2, <2>4, OthersPass
<1>7. ASSUME NEW p \in Procs, SkipMigration(p) PROVE PassedInv'
  <2>1. /\ pc[p] = "apply" /\ pc' = pc /\ current' = current /\ target' = target
        /\ built' = built /\ overtaken' = overtaken /\ at[p] <= current[p]
        /\ at' = [at EXCEPT ![p] = at[p] + 1]
    BY <1>7 DEF SkipMigration
  <2>2. at'[p] = at[p] + 1 /\ \A q \in Procs \ {p} : at'[q] = at[q]
    BY <1>1, <2>1
  <2>3. p \notin overtaken' => Passed(p)'
    <3> SUFFICES ASSUME p \notin overtaken' PROVE Passed(p)'
      OBVIOUS
    <3>1. 1..current[p] \subseteq built
      BY <2>1 DEF PassedInv, Passed
    <3>2. 1..(at'[p] - 1) \subseteq 1..current[p]
      BY <1>1, <2>1, <2>2
    <3> QED
      BY <2>1, <3>1, <3>2 DEF Passed
  <2> QED
    BY <2>1, <2>2, <2>3, OthersPass
<1>8. ASSUME NEW p \in Procs, Migrated(p) PROVE PassedInv'
  <2>1. /\ pc[p] = "apply" /\ at[p] > target[p] /\ built' = built /\ overtaken' = overtaken
        /\ pc' = [pc EXCEPT ![p] = "ready"] /\ UNCHANGED <<current, target, at>>
    BY <1>8 DEF Migrated, locals
  <2>2. p \notin overtaken' => Passed(p)'
    <3> SUFFICES ASSUME p \notin overtaken' PROVE Passed(p)'
      OBVIOUS
    <3>1. 1..(at[p] - 1) \subseteq built
      BY <2>1 DEF PassedInv, Passed
    <3>2. 1..target[p] \subseteq 1..(at[p] - 1)
      BY <1>1, <2>1
    <3>3. pc'[p] = "ready"
      BY <1>1, <2>1
    <3> QED
      BY <2>1, <3>1, <3>2, <3>3 DEF Passed
  <2>3. \A q \in Procs \ {p} : pc'[q] = pc[q]
    BY <1>1, <2>1
  <2> QED
    BY <2>1, <2>2, <2>3, OthersPass
<1>9. ASSUME NEW p \in Procs, DropTables(p) PROVE PassedInv'
  <2>1. /\ pc'[p] = "apply" /\ current'[p] = 0 /\ at'[p] = 1 /\ overtaken' = Procs \ {p}
    BY <1>1, <1>9 DEF DropTables
  <2> QED
    BY <2>1 DEF PassedInv, Passed
<1>10. CASE UNCHANGED vars
  BY <1>10 DEF vars, PassedInv, Passed
<1> QED
  BY <1>4, <1>5, <1>6, <1>7, <1>8, <1>9, <1>10 DEF Next, Migrate

\* An instance that reports success has all it migrated to, unless another one
\* has rolled the database back since it looked at the version.
THEOREM SuccessIsBuilt == Spec => []ReadyIsBuilt
<1>1. Init => PassedInv
  BY DEF Init, PassedInv, Passed
<1>2. PassedInv => ReadyIsBuilt
  BY DEF PassedInv, Passed, ReadyIsBuilt
<1> QED
  BY <1>1, <1>2, Invariance, PassedStep, PTL DEF Spec

-----------------------------------------------------------------------------
(***************************************************************************)
(* An instance that is alone.  Nobody joins it later; while its loop runs,  *)
(* the recorded version is what it read until the loop has passed that, and *)
(* the last migration it applied from then on.                             *)
(***************************************************************************)
OnItsWay(p) ==
    /\ pc[p] = "read_version" => target[p] = Latest
    /\ pc[p] = "apply" =>
         /\ current[p] <= target[p] /\ at[p] <= target[p] + 1
         /\ GetVersion = IF at[p] <= current[p] THEN current[p] ELSE at[p] - 1
    /\ pc[p] = "ready" => GetVersion = target[p]

AloneInv == \A p \in Procs : Alone(p) => OnItsWay(p)

\* Each step is one of an instance that was started.
StepOf(p) ==
    \/ RunMigrations(p) \/ ReadVersion(p) \/ ApplyMigration(p) \/ SkipMigration(p)
    \/ Migrated(p) \/ DropTables(p) \/ FailMigration(p) \/ Exit(p)
    \/ \E v \in 0..Latest : RollbackToVersion(p, v)

\* A step moves one instance, which is not an absent one and becomes none.
LEMMA AbsentStayAbsent ==
    ASSUME IInv, NEW p \in Procs, StepOf(p)
    PROVE  /\ pc[p] # "absent" /\ pc'[p] # "absent"
           /\ \A q \in Procs \ {p} : pc'[q] = pc[q]
<1>1. pc \in [Procs -> {"stopped", "read_version", "apply", "ready", "failed", "drop", "absent"}]
  BY DEF IInv, TypeOK
<1> QED
  BY <1>1 DEF StepOf, RunMigrations, ReadVersion, ApplyMigration, SkipMigration, Migrated,
              DropTables, FailMigration, Exit, RollbackToVersion, Goto

\* A step of an instance that is alone leaves the version where its loop says.
LEMMA AloneStep ==
    ASSUME IInv, NEW p \in Procs, OnItsWay(p), StepOf(p)
    PROVE  OnItsWay(p)'
<1> USE DEF Goto
<1>1. /\ pc \in [Procs -> {"stopped", "read_version", "apply", "ready", "failed", "drop", "absent"}]
      /\ current \in [Procs -> 0..Latest] /\ target \in [Procs -> 0..Latest]
      /\ at \in [Procs -> 1..(Latest + 1)] /\ rows \in Seq(Versions)
  BY DEF IInv, TypeOK
<1>2. Latest \in Nat \ {0}
  BY MigrationAssumption
<1>3. GetVersion \in 0..Latest
  BY <1>1, GetVersionType
<1>4. UNCHANGED <<table, rows>> => GetVersion' = GetVersion
  BY DEF GetVersion
<1>5. CASE RunMigrations(p)
  BY <1>1, <1>2, <1>5 DEF RunMigrations, OnItsWay
<1>6. CASE ReadVersion(p)
  <2>1. /\ current'[p] = GetVersion /\ at'[p] = 1 /\ pc'[p] = "apply" /\ target'[p] = Latest
        /\ GetVersion' = GetVersion
    BY <1>1, <1>4, <1>6 DEF ReadVersion, OnItsWay
  <2> QED
    BY <1>2, <1>3, <2>1 DEF OnItsWay
<1>7. CASE ApplyMigration(p)
  <2>1. /\ pc[p] = "apply" /\ at[p] <= target[p] /\ at[p] > current[p]
        /\ table' /\ rows' = Append(rows, at[p])
        /\ at' = [at EXCEPT ![p] = @ + 1] /\ UNCHANGED <<pc, current, target>>
    BY <1>7 DEF ApplyMigration
  <2>2. at[p] \in Versions
    BY <1>1, <1>2, <2>1 DEF Versions
  <2>3. GetVersion' = at[p]
    BY <1>1, <2>1, <2>2, VersionAppended
  <2>4. at'[p] = at[p] + 1
    BY <1>1, <2>1
  <2> QED
    BY <1>1, <1>2, <2>1, <2>3, <2>4 DEF OnItsWay
<1>8. CASE SkipMigration(p)
  <2>1. /\ pc[p] = "apply" /\ at[p] <= target[p] /\ at[p] <= current[p]
        /\ at'[p] = at[p] + 1 /\ UNCHANGED <<pc, current, target>> /\ GetVersion' = GetVersion
    BY <1>1, <1>4, <1>8 DEF SkipMigration
  <2> QED
    BY <1>1, <1>2, <2>1 DEF OnItsWay
<1>9. CASE Migrated(p)
  <2>1. /\ pc[p] = "apply" /\ at[p] > target[p] /\ pc'[p] = "ready"
        /\ UNCHANGED target /\ GetVersion' = GetVersion
    BY <1>1, <1>4, <1>9 DEF Migrated, locals
  <2>2. /\ current[p] \in Nat /\ target[p] \in Nat /\ at[p] \in Nat
        /\ current[p] <= target[p] /\ at[p] <= target[p] + 1
        /\ GetVersion = IF at[p] <= current[p] THEN current[p] ELSE at[p] - 1
    BY <1>1, <1>2, <2>1 DEF OnItsWay
  <2>3. GetVersion = target[p]
    BY <2>1, <2>2
  <2> QED
    BY <2>1, <2>3 DEF OnItsWay
<1>10. CASE DropTables(p)
  <2>1. /\ pc'[p] = "apply" /\ current'[p] = 0 /\ at'[p] = 1 /\ UNCHANGED target /\ GetVersion' = 0
    BY <1>1, <1>10 DEF DropTables, GetVersion
  <2> QED
    BY <1>1, <1>2, <2>1 DEF OnItsWay
<1>11. CASE FailMigration(p) \/ Exit(p) \/ \E v \in 0..Latest : RollbackToVersion(p, v)
  BY <1>1, <1>11 DEF FailMigration, Exit, RollbackToVersion, OnItsWay
<1> QED
  BY <1>5, <1>6, <1>7, <1>8, <1>9, <1>10, <1>11 DEF StepOf

\* An instance that has the database for itself is, once it is ready, at the
\* version it migrated or rolled back to, whatever failed or ended before.
THEOREM AloneReachesTarget == Spec => []ReadyAtTarget
<1>1. Init => AloneInv
  BY DEF Init, AloneInv, OnItsWay
<1>2. IInv /\ AloneInv /\ [Next]_vars => AloneInv'
  <2> SUFFICES ASSUME IInv, AloneInv, [Next]_vars, NEW p \in Procs, Alone(p)'
               PROVE  OnItsWay(p)'
    BY DEF AloneInv
  <2>1. CASE \E q \in Procs : StepOf(q)
    <3>1. PICK q \in Procs : StepOf(q)
      BY <2>1
    <3>2. Alone(p) /\ q = p
      BY <3>1, AbsentStayAbsent DEF Alone
    <3> QED
      BY <3>1, <3>2, AloneStep DEF AloneInv
  <2>2. CASE UNCHANGED vars
    BY <2>2 DEF vars, AloneInv, Alone, OnItsWay, GetVersion
  <2> QED
    BY <2>1, <2>2 DEF Next, Migrate, StepOf
<1>3. AloneInv => ReadyAtTarget
  BY DEF AloneInv, OnItsWay, ReadyAtTarget
<1> QED
  BY Invariance, <1>1, <1>2, <1>3, PTL DEF Spec

-----------------------------------------------------------------------------
(***************************************************************************)
(* ConversationCache.  A list lists each id of its map once, and the       *)
(* counter is the sum of what the maps record: CacheInv.  That says what   *)
(* Unlisted and SizeOf return, by induction along the list and over the    *)
(* subsets, and what eviction keeps: each removal, each iteration of its   *)
(* loop, and the loop.                                                     *)
(***************************************************************************)

\* A set of naturals with an element has a least one.
LEMMA LeastNatural ==
    ASSUME NEW T \in SUBSET Nat, T /= {}
    PROVE  \E m \in T : \A k \in T : m <= k
<1>1. IsWellFoundedOn(OpToRel(<, Nat), Nat)
    BY NatLessThanWellFounded
<1>2. PICK m \in T : \A k \in T : <<k, m>> \notin OpToRel(<, Nat)
    BY <1>1, WFMin
<1>3. ASSUME NEW k \in T, k < m PROVE FALSE
  <2>1. <<k, m>> \in Nat \X Nat /\ <<k, m>>[1] < <<k, m>>[2]
      BY <1>3
  <2>2. QED  BY <1>2, <2>1 DEF OpToRel
<1>4. QED  BY <1>3

\* A function of values in T, from a on by the steps of G.
Recursion(T, a, N, G) == \E g \in [0..N -> T] : g[0] = a /\ \A n \in 1..N : g[n] = G[n][g[n - 1]]

\* A recursion along the naturals defines a function, of values in T if its steps stay
\* there.
LEMMA RecursionDefined ==
    ASSUME NEW T, NEW a \in T, NEW N \in Nat, NEW G \in [Nat -> [T -> T]]
    PROVE  Recursion(T, a, N, G)
<1> DEFINE F(g, n) == IF n = 0 THEN a ELSE G[n][g[n - 1]]
           Defined(c) == \E g \in [0..c -> T] : g = [n \in 0..c |-> F(g, n)]
           Lacking == {c \in 0..N : ~ Defined(c)}
<1> HIDE DEF Defined
<1>1. Lacking = {}
  <2> SUFFICES ASSUME Lacking /= {} PROVE FALSE
      OBVIOUS
  <2>1. PICK m \in Lacking : \A c \in Lacking : m <= c
    <3>1. Lacking \in SUBSET Nat
        OBVIOUS
    <3> HIDE DEF Lacking
    <3>2. QED  BY <3>1, LeastNatural
  <2>2. m \in 0..N /\ ~ Defined(m) /\ \A c \in 0..N : c < m => Defined(c)
      BY <2>1
  <2>3. CASE m = 0
    <3> DEFINE h == [n \in 0..0 |-> a]
    <3>1. h \in [0..0 -> T] /\ h = [n \in 0..0 |-> F(h, n)]
        OBVIOUS
    <3> HIDE DEF h
    <3>2. QED  BY <2>2, <2>3, <3>1 DEF Defined
  <2>4. CASE m > 0
    <3>1. m \in Nat /\ m - 1 \in 0..N /\ m - 1 < m
        BY <2>2, <2>4
    <3>2. PICK g \in [0..(m - 1) -> T] : g = [n \in 0..(m - 1) |-> F(g, n)]
        BY <2>2, <3>1 DEF Defined
    <3> DEFINE f == [n \in 0..m |-> IF n = m THEN F(g, m) ELSE g[n]]
    <3>3. \A n \in 0..(m - 1) : f[n] = g[n] /\ g[n] = F(g, n) /\ g[n] \in T
        BY <3>1, <3>2
    <3>4. f[m] = F(g, m)
        BY <3>1
    <3>5. ASSUME NEW n \in 0..m PROVE f[n] = F(f, n) /\ f[n] \in T
      <4> HIDE DEF f
      <4>1. CASE n = 0
        <5>1. n \in 0..(m - 1)
            BY <3>1, <4>1
        <5>2. QED  BY <3>3, <4>1, <5>1
      <4>2. CASE n > 0
        <5>1. n - 1 \in 0..(m - 1) /\ n \in Nat
            BY <3>1, <4>2
        <5>2. f[n - 1] = g[n - 1] /\ g[n - 1] \in T
            BY <3>3, <5>1
        <5>3. f[n] = G[n][g[n - 1]]
          <6>1. CASE n = m
              BY <3>4, <4>2, <6>1
          <6>2. CASE n /= m
            <7>1. n \in 0..(m - 1)
                BY <3>1, <6>2
            <7>2. QED  BY <3>3, <4>2, <7>1
          <6>3. QED  BY <6>1, <6>2
        <5>4. G[n][g[n - 1]] \in T
            BY <5>1, <5>2
        <5>5. QED  BY <4>2, <5>2, <5>3, <5>4
      <4>3. QED  BY <3>1, <4>1, <4>2
    <3>6. f = [n \in 0..m |-> F(f, n)] /\ f \in [0..m -> T]
        BY <3>5
    <3> HIDE DEF f
    <3>7. QED  BY <2>2, <3>6 DEF Defined
  <2>5. QED  BY <2>2, <2>3, <2>4
<1>2. Defined(N)
    BY <1>1
<1>3. PICK g \in [0..N -> T] : g = [n \in 0..N |-> F(g, n)]
    BY <1>2 DEF Defined
<1>4. g[0] = a
    BY <1>3
<1>5. ASSUME NEW n \in 1..N PROVE g[n] = G[n][g[n - 1]]
    BY <1>3
<1>6. QED  BY <1>4, <1>5 DEF Recursion

\* What Unlisted computes, step by step.
LEMMA UnlistedSteps ==
    ASSUME NEW I, NEW list \in Seq(I), NEW S
    PROVE  \E left :
               /\ left[0] = <<>>
               /\ \A n \in 1..Len(list) :
                     left[n] = IF list[n] \in S THEN left[n - 1] ELSE Append(left[n - 1], list[n])
               /\ Unlisted(list, S) = left[Len(list)]
<1>1. PICK N \in Nat : N = Len(list)
    OBVIOUS
<1>2. PICK none \in Seq(I) : none = <<>>
  <2>1. <<>> \in Seq(I)
      OBVIOUS
  <2>2. QED  BY Zenon, <2>1
<1> DEFINE Step(l, n) == IF list[n] \in S THEN l ELSE Append(l, list[n])
           F(h, n) == IF n = 0 THEN none ELSE Step(h[n - 1], n)
<1>3. \A l \in Seq(I), n \in 1..N : Step(l, n) \in Seq(I)
    BY <1>1
<1>4. PICK T : T = Seq(I)
    OBVIOUS
<1> HIDE DEF Step
<1>5. PICK g \in [0..N -> Seq(I)] : g[0] = none /\ \A n \in 1..N : g[n] = Step(g[n - 1], n)
  <2> DEFINE G == [n \in Nat |-> [l \in T |-> IF n \in 1..N THEN Step(l, n) ELSE l]]
  <2>1. G \in [Nat -> [T -> T]]
      BY <1>3, <1>4
  <2>2. \A n \in 1..N, l \in T : G[n][l] = Step(l, n)
      OBVIOUS
  <2> HIDE DEF G
  <2>3. none \in T
      BY <1>4
  <2>4. PICK g \in [0..N -> T] : g[0] = none /\ \A n \in 1..N : g[n] = G[n][g[n - 1]]
    <3>1. Recursion(T, none, N, G)
        BY <2>1, <2>3, RecursionDefined
    <3>2. QED  BY <3>1 DEF Recursion
  <2>5. ASSUME NEW n \in 1..N PROVE g[n] = Step(g[n - 1], n)
    <3>1. n - 1 \in 0..N
        OBVIOUS
    <3>2. QED  BY <2>2, <2>4, <3>1
  <2>6. QED  BY <1>4, <2>4, <2>5
<1>7. g = [n \in 0..N |-> F(g, n)]
    BY <1>5
<1> DEFINE L == CHOOSE h : h = [n \in 0..N |-> F(h, n)]
<1>8. L = [n \in 0..N |-> F(L, n)]
    BY <1>7
<1>9. Unlisted(list, S) = L[N]
    BY <1>1, <1>2 DEF Unlisted, Step
<1> HIDE DEF L
<1>10. L[0] = none
    BY <1>8
<1>11. \A n \in 1..N : L[n] = Step(L[n - 1], n)
    BY <1>8
<1>12. QED  BY <1>1, <1>2, <1>9, <1>10, <1>11 DEF Step

\* Induction over the first naturals.
LEMMA InductionUpTo ==
    ASSUME NEW N \in Nat, NEW T, 0 \in T, \A n \in 1..N : n - 1 \in T => n \in T
    PROVE  0..N \subseteq T
<1> DEFINE Lacking == (0..N) \ T
<1>1. SUFFICES ASSUME Lacking /= {} PROVE FALSE
    OBVIOUS
<1>2. PICK m \in Lacking : \A k \in Lacking : m <= k
  <2>1. Lacking \in SUBSET Nat
      OBVIOUS
  <2> HIDE DEF Lacking
  <2>2. QED  BY <1>1, <2>1, LeastNatural
<1>3. m \in 1..N /\ m - 1 \in 0..N /\ ~ (m <= m - 1)
    BY <1>2
<1>4. m - 1 \in T
    BY <1>2, <1>3
<1>5. QED  BY <1>2, <1>3, <1>4

Distinct(s, I) == s \in Seq(I) /\ IsInjective(s)

LEMMA AppendedIds ==
    ASSUME NEW I, NEW s, Distinct(s, I), NEW x \in I \ ToSet(s)
    PROVE  Distinct(Append(s, x), I) /\ ToSet(Append(s, x)) = ToSet(s) \cup {x}
<1>1. PICK t : t = Append(s, x)
    OBVIOUS
<1>2. s \in Seq(I) /\ DOMAIN s = 1..Len(s) /\ Len(s) \in Nat
    BY DEF Distinct
<1>3. /\ t \in Seq(I) /\ DOMAIN t = 1..Len(s) + 1
      /\ \A i \in 1..Len(s) : t[i] = s[i]
      /\ t[Len(s) + 1] = x
    BY <1>1, <1>2
<1>4. IsInjective(t)
    BY <1>2, <1>3 DEF IsInjective, Distinct, ToSet
<1>5. ToSet(t) = ToSet(s) \cup {x}
  <2>1. ASSUME NEW y \in ToSet(s) PROVE y \in ToSet(t)
      BY <1>2, <1>3 DEF ToSet
  <2>2. ASSUME NEW y \in ToSet(t) PROVE y \in ToSet(s) \/ y = x
      BY <1>2, <1>3 DEF ToSet
  <2>3. x \in ToSet(t)
      BY <1>2, <1>3 DEF ToSet
  <2>4. QED  BY <2>1, <2>2, <2>3
<1>6. QED  BY <1>1, <1>3, <1>4, <1>5 DEF Distinct

LEMMA PrependedIds ==
    ASSUME NEW I, NEW s, Distinct(s, I), NEW x \in I \ ToSet(s)
    PROVE  Distinct(<<x>> \o s, I) /\ ToSet(<<x>> \o s) = ToSet(s) \cup {x}
<1>1. PICK t : t = <<x>> \o s
    OBVIOUS
<1>2. s \in Seq(I) /\ DOMAIN s = 1..Len(s) /\ Len(s) \in Nat
    BY DEF Distinct
<1>3. /\ t \in Seq(I) /\ DOMAIN t = 1..Len(s) + 1
      /\ \A i \in 1..Len(s) : t[i + 1] = s[i]
      /\ t[1] = x
    BY <1>1, <1>2
<1>4. \A i \in 2..Len(s) + 1 : i - 1 \in 1..Len(s) /\ t[i] = s[i - 1]
  <2> SUFFICES ASSUME NEW i \in 2..Len(s) + 1 PROVE i - 1 \in 1..Len(s) /\ t[i] = s[i - 1]
      OBVIOUS
  <2>1. i - 1 \in 1..Len(s) /\ (i - 1) + 1 = i
      BY <1>2
  <2>2. QED  BY <1>3, <2>1
<1>5. IsInjective(t)
  <2> SUFFICES ASSUME NEW i \in 1..Len(s) + 1, NEW j \in 1..Len(s) + 1, t[i] = t[j]
               PROVE  i = j
      BY <1>3 DEF IsInjective
  <2>1. CASE i = 1 /\ j = 1
      BY <2>1
  <2>2. CASE i = 1 /\ j /= 1
    <3>1. j \in 2..Len(s) + 1
        BY <1>2, <2>2
    <3>2. t[j] \in ToSet(s)
        BY <1>2, <1>4, <3>1 DEF ToSet
    <3>3. QED  BY <1>3, <2>2, <3>2
  <2>3. CASE i /= 1 /\ j = 1
    <3>1. i \in 2..Len(s) + 1
        BY <1>2, <2>3
    <3>2. t[i] \in ToSet(s)
        BY <1>2, <1>4, <3>1 DEF ToSet
    <3>3. QED  BY <1>3, <2>3, <3>2
  <2>4. CASE i /= 1 /\ j /= 1
    <3>1. i \in 2..Len(s) + 1 /\ j \in 2..Len(s) + 1
        BY <1>2, <2>4
    <3>2. s[i - 1] = s[j - 1] /\ i - 1 \in DOMAIN s /\ j - 1 \in DOMAIN s
        BY <1>2, <1>4, <3>1
    <3>3. i - 1 = j - 1
        BY <3>2 DEF IsInjective, Distinct
    <3>4. QED  BY <1>2, <3>3
  <2>5. QED  BY <2>1, <2>2, <2>3, <2>4
<1>6. ToSet(t) = ToSet(s) \cup {x}
  <2>1. ASSUME NEW y \in ToSet(s) PROVE y \in ToSet(t)
    <3>1. PICK i \in 1..Len(s) : y = s[i]
        BY <1>2 DEF ToSet
    <3>2. i + 1 \in DOMAIN t /\ y = t[i + 1]
        BY <1>2, <1>3, <3>1
    <3>3. QED  BY <3>2 DEF ToSet
  <2>2. ASSUME NEW y \in ToSet(t) PROVE y \in ToSet(s) \/ y = x
    <3>1. PICK i \in 1..Len(s) + 1 : y = t[i]
        BY <1>3 DEF ToSet
    <3>2. CASE i = 1
        BY <1>3, <3>1, <3>2
    <3>3. CASE i /= 1
        BY <1>2, <1>4, <3>1, <3>3 DEF ToSet
    <3>4. QED  BY <3>2, <3>3
  <2>3. x \in ToSet(t)
      BY <1>2, <1>3 DEF ToSet
  <2>4. QED  BY <2>1, <2>2, <2>3
<1>7. QED  BY <1>1, <1>3, <1>5, <1>6 DEF Distinct

\* Dropping ids leaves the others, each once.
LEMMA UnlistedIds ==
    ASSUME NEW I, NEW list, Distinct(list, I), NEW S
    PROVE  Distinct(Unlisted(list, S), I) /\ ToSet(Unlisted(list, S)) = ToSet(list) \ S
<1>1. list \in Seq(I) /\ DOMAIN list = 1..Len(list) /\ Len(list) \in Nat
    BY DEF Distinct
<1>2. PICK left :
          /\ left[0] = <<>>
          /\ \A n \in 1..Len(list) :
                left[n] = IF list[n] \in S THEN left[n - 1] ELSE Append(left[n - 1], list[n])
          /\ Unlisted(list, S) = left[Len(list)]
    BY <1>1, UnlistedSteps
<1> DEFINE Before(n) == {list[i] : i \in 1..n} \ S
           Good(n) == Distinct(left[n], I) /\ ToSet(left[n]) = Before(n)
           T == {n \in 0..Len(list) : Good(n)}
<1>3. 0 \in T
  <2>1. Distinct(<<>>, I) /\ ToSet(<<>>) = {}
      BY DEF Distinct, ToSet, IsInjective
  <2>2. Before(0) = {}
      OBVIOUS
  <2>3. QED  BY <1>1, <1>2, <2>1, <2>2
<1>4. ASSUME NEW n \in 1..Len(list), n - 1 \in T PROVE n \in T
  <2>1. Good(n - 1) /\ n \in 0..Len(list) /\ n - 1 \in Nat /\ n \in Nat
      BY <1>1, <1>4
  <2>2. Before(n) = Before(n - 1) \cup ({list[n]} \ S)
    <3>1. 1..n = (1..(n - 1)) \cup {n}
        BY <2>1
    <3>2. QED  BY <3>1
  <2>3. CASE list[n] \in S
      BY <1>2, <2>1, <2>2, <2>3
  <2>4. CASE list[n] \notin S
    <3>1. list[n] \in I
        BY <1>1
    <3>2. list[n] \notin Before(n - 1)
      <4> SUFFICES ASSUME NEW i \in 1..(n - 1), list[i] = list[n] PROVE FALSE
          OBVIOUS
      <4>1. i \in DOMAIN list /\ n \in DOMAIN list /\ i /= n
          BY <1>1, <2>1
      <4>2. QED  BY <4>1 DEF Distinct, IsInjective
    <3>3. left[n] = Append(left[n - 1], list[n])
        BY <1>2, <2>4
    <3> HIDE DEF Before
    <3>4. Distinct(left[n], I) /\ ToSet(left[n]) = Before(n - 1) \cup {list[n]}
        BY <2>1, <3>1, <3>2, <3>3, AppendedIds
    <3>5. QED  BY <2>1, <2>2, <2>4, <3>4
  <2>5. QED  BY <2>3, <2>4
<1>5. Len(list) \in T
  <2> HIDE DEF T
  <2>1. 0..Len(list) \subseteq T
      BY <1>1, <1>3, <1>4, InductionUpTo
  <2>2. QED  BY <1>1, <2>1
<1>6. Before(Len(list)) = ToSet(list) \ S
    BY <1>1 DEF ToSet
<1>7. QED  BY <1>2, <1>5, <1>6

\* A list without repetition is as long as the set of what it lists.
LEMMA DistinctCount ==
    ASSUME NEW I, NEW s, Distinct(s, I)
    PROVE  IsFiniteSet(ToSet(s)) /\ Cardinality(ToSet(s)) = Len(s) /\ Len(s) \in Nat
<1>1. s \in Seq(I) /\ DOMAIN s = 1..Len(s) /\ Len(s) \in Nat
    BY DEF Distinct
<1>2. s \in [1..Len(s) -> ToSet(s)]
    BY <1>1 DEF ToSet
<1>3. s \in Bijection(1..Len(s), ToSet(s))
    BY <1>1, <1>2 DEF ToSet, Bijection, Injection, Surjection, IsInjective, Distinct
<1>4. ExistsBijection(1..Len(s), ToSet(s))
    BY <1>3 DEF ExistsBijection
<1>5. QED  BY <1>1, <1>4, FS_NatBijection, FS_CountingElements

\* Induction over the subsets of a finite set: a set of them that holds each one it holds
\* all the one-smaller ones of.
LEMMA SubsetInduction ==
    ASSUME NEW D, IsFiniteSet(D), NEW Good, {} \in Good,
           \A S \in SUBSET D : S /= {} /\ (\A y \in S : S \ {y} \in Good) => S \in Good
    PROVE  SUBSET D \subseteq Good
<1>1. PICK N \in Nat : N = Cardinality(D)
    BY FS_CardinalityType
<1> DEFINE T == {n \in 0..N : \A S \in SUBSET D : Cardinality(S) = n => S \in Good}
<1>2. \A S \in SUBSET D : IsFiniteSet(S) /\ Cardinality(S) \in 0..N
    BY <1>1, FS_Subset, FS_CardinalityType
<1>3. 0 \in T
  <2> SUFFICES ASSUME NEW S \in SUBSET D, Cardinality(S) = 0 PROVE S \in Good
      OBVIOUS
  <2>1. S = {}
      BY <1>2, FS_EmptySet
  <2>2. QED  BY <2>1
<1>4. ASSUME NEW n \in 1..N, n - 1 \in T PROVE n \in T
  <2> SUFFICES ASSUME NEW S \in SUBSET D, Cardinality(S) = n PROVE S \in Good
      OBVIOUS
  <2>1. IsFiniteSet(S) /\ S /= {}
      BY <1>2, FS_EmptySet
  <2>2. ASSUME NEW y \in S PROVE S \ {y} \in Good
    <3>1. Cardinality(S \ {y}) = n - 1
        BY <2>1, FS_RemoveElement
    <3>2. QED  BY <1>4, <3>1
  <2>3. QED  BY <2>1, <2>2
<1>5. 0..N \subseteq T
  <2> HIDE DEF T
  <2>1. QED  BY <1>3, <1>4, InductionUpTo
<1>6. QED  BY <1>2, <1>5

\* Finitely many entries, each with a size.
Sized(f) == IsFiniteSet(DOMAIN f) /\ \A x \in DOMAIN f : f[x].Size \in Nat

Some(T) == CHOOSE x \in T : TRUE

\* What SizeOf computes.
SizesSum(f) ==
    \E sum : /\ sum[{}] = 0
             /\ \A T \in SUBSET DOMAIN f :
                   T /= {} => sum[T] = f[Some(T)].Size + sum[T \ {Some(T)}]
             /\ \A S : SizeOf(f, S) = sum[S]

LEMMA SizeSteps ==
    ASSUME NEW f, Sized(f)
    PROVE  SizesSum(f)
<1>1. PICK D : D = DOMAIN f /\ IsFiniteSet(D) /\ \A x \in D : f[x].Size \in Nat
    BY DEF Sized
<1>2. PICK N \in Nat : N = Cardinality(D)
    BY <1>1, FS_CardinalityType
<1>3. PICK U : U = [SUBSET D -> Nat]
    OBVIOUS
<1> DEFINE F(g, T) == IF T = {} THEN 0 ELSE f[Some(T)].Size + g[T \ {Some(T)}]
           Step(g) == [T \in SUBSET D |-> F(g, T)]
           None == [T \in SUBSET D |-> 0]
           G == [n \in Nat |-> [g \in U |-> Step(g)]]
<1>4. \A T \in SUBSET D : T /= {} => Some(T) \in T
    BY DEF Some
<1>5. ASSUME NEW g \in U PROVE Step(g) \in U
  <2> SUFFICES ASSUME NEW T \in SUBSET D PROVE F(g, T) \in Nat
      BY <1>3
  <2>1. T /= {} => f[Some(T)].Size \in Nat /\ g[T \ {Some(T)}] \in Nat
      BY <1>1, <1>3, <1>4
  <2>2. QED  BY <2>1
<1>6. None \in U
    BY <1>3
<1> HIDE DEF Step, None
<1>7. G \in [Nat -> [U -> U]] /\ \A n \in Nat, g \in U : G[n][g] = Step(g)
    BY <1>5
<1> HIDE DEF G
<1>8. Recursion(U, None, N + 1, G)
  <2>1. N + 1 \in Nat
      BY <1>2
  <2>2. QED  BY <1>6, <1>7, <2>1, RecursionDefined
<1>9. PICK h \in [0..N + 1 -> U] : h[0] = None /\ \A n \in 1..N + 1 : h[n] = G[n][h[n - 1]]
    BY <1>8 DEF Recursion
<1>10. \A n \in 1..N + 1 : h[n - 1] \in U /\ h[n] = Step(h[n - 1])
  <2> SUFFICES ASSUME NEW n \in 1..N + 1 PROVE h[n - 1] \in U /\ h[n] = Step(h[n - 1])
      OBVIOUS
  <2>1. n - 1 \in 0..N + 1 /\ n \in Nat
      BY <1>2
  <2>2. QED  BY <1>7, <1>9, <2>1
<1>11. \A n \in 1..N + 1, T \in SUBSET D : h[n][T] = F(h[n - 1], T)
    BY <1>10 DEF Step
\* After as many steps as a set has elements its sum stays.
<1> DEFINE Stays(n) == \A T \in SUBSET D : Cardinality(T) <= n => h[n + 1][T] = h[n][T]
           Settled == {n \in 0..N : Stays(n)}
<1>12. \A T \in SUBSET D : IsFiniteSet(T) /\ Cardinality(T) \in Nat /\ Cardinality(T) <= N
    BY <1>1, <1>2, FS_Subset, FS_CardinalityType
<1>13. h[0][{}] = 0 /\ \A n \in 1..N + 1 : h[n][{}] = 0
  <2>1. {} \in SUBSET D
      OBVIOUS
  <2>2. QED  BY <1>9, <1>11, <2>1 DEF None
<1>14. 0 \in Settled
  <2> SUFFICES ASSUME NEW T \in SUBSET D, Cardinality(T) <= 0 PROVE h[0 + 1][T] = h[0][T]
      BY <1>2
  <2>1. T = {}
      BY <1>12, FS_EmptySet
  <2>2. QED  BY <1>2, <1>13, <2>1
<1>15. ASSUME NEW n \in 1..N, n - 1 \in Settled PROVE n \in Settled
  <2> SUFFICES ASSUME NEW T \in SUBSET D, Cardinality(T) <= n PROVE h[n + 1][T] = h[n][T]
      BY <1>2
  <2>0. n \in 1..N + 1 /\ n + 1 \in 1..N + 1 /\ (n + 1) - 1 = n /\ (n - 1) + 1 = n
      BY <1>2
  <2>1. CASE T = {}
      BY <1>13, <2>0, <2>1
  <2>2. CASE T /= {}
    <3>1. PICK x \in T : x = Some(T)
        BY <1>4, <2>2
    <3>2. T \ {x} \in SUBSET D /\ Cardinality(T \ {x}) <= n - 1
        BY <1>12, <2>0, FS_RemoveElement
    <3>3. h[n][T \ {x}] = h[n - 1][T \ {x}]
        BY <1>15, <2>0, <3>2
    <3>4. h[n + 1][T] = F(h[n], T) /\ h[n][T] = F(h[n - 1], T)
        BY <1>11, <2>0
    <3>5. QED  BY <2>2, <3>1, <3>3, <3>4
  <2>3. QED  BY <2>1, <2>2
<1>16. N \in Settled
  <2> HIDE DEF Settled
  <2>1. \A n \in 1..N : n - 1 \in Settled => n \in Settled
      BY <1>15
  <2>2. 0..N \subseteq Settled
      BY <1>2, <1>14, <2>1, InductionUpTo
  <2>3. QED  BY <1>2, <2>2
<1>17. h[N] = [T \in SUBSET D |-> F(h[N], T)]
  <2>1. h[N] \in [SUBSET D -> Nat]
    <3>1. N \in 0..N + 1
        BY <1>2
    <3>2. h[N] \in U
        BY <1>9, <3>1
    <3>3. QED  BY <1>3, <3>2
  <2>2. ASSUME NEW T \in SUBSET D PROVE h[N][T] = F(h[N], T)
    <3>1. h[N + 1][T] = h[N][T]
        BY <1>12, <1>16
    <3>2. N + 1 \in 1..N + 1 /\ (N + 1) - 1 = N
        BY <1>2
    <3>3. QED  BY <1>11, <3>1, <3>2
  <2> HIDE DEF F
  <2>3. QED  BY <2>1, <2>2
<1> DEFINE L == CHOOSE g : g = [T \in SUBSET D |-> F(g, T)]
<1> HIDE DEF F
<1>18. L = [T \in SUBSET D |-> F(L, T)]
    BY <1>17
<1>19. ASSUME NEW S PROVE SizeOf(f, S) = L[S]
    BY <1>1 DEF SizeOf, F, Some
<1> HIDE DEF L
<1>20. \A T \in SUBSET D : L[T] = F(L, T)
    BY <1>18
<1>21. L[{}] = 0
    BY <1>20 DEF F
<1>22. \A T \in SUBSET D : T /= {} => L[T] = f[Some(T)].Size + L[T \ {Some(T)}]
    BY <1>20 DEF F
<1>23. QED  BY <1>1, <1>19, <1>21, <1>22 DEF SizesSum

\* Sizes add up: entry by entry, in any order.
LEMMA SizeAdds ==
    ASSUME NEW f, Sized(f)
    PROVE  /\ SizeOf(f, {}) = 0
           /\ \A T \in SUBSET DOMAIN f : SizeOf(f, T) \in Nat
           /\ \A T \in SUBSET DOMAIN f : \A y \in T : SizeOf(f, T) = f[y].Size + SizeOf(f, T \ {y})
<1>1. PICK D : D = DOMAIN f /\ IsFiniteSet(D) /\ \A x \in D : f[x].Size \in Nat
    BY DEF Sized
<1>2. PICK sum : /\ sum[{}] = 0
                 /\ \A T \in SUBSET D : T /= {} => sum[T] = f[Some(T)].Size + sum[T \ {Some(T)}]
                 /\ \A S : SizeOf(f, S) = sum[S]
  <2>1. SizesSum(f)
      BY SizeSteps
  <2>2. QED  BY <1>1, <2>1 DEF SizesSum
<1>3. \A T \in SUBSET D : T /= {} => Some(T) \in T
    BY DEF Some
<1> DEFINE Natural == {T \in SUBSET D : sum[T] \in Nat}
           Adds(T) == \A y \in T : sum[T] = f[y].Size + sum[T \ {y}]
           Adding == {T \in SUBSET D : Adds(T)}
<1>4. SUBSET D \subseteq Natural
  <2>1. {} \in Natural
      BY <1>2
  <2>2. ASSUME NEW S \in SUBSET D, S /= {}, \A y \in S : S \ {y} \in Natural
        PROVE  S \in Natural
    <3>1. Some(S) \in S /\ sum[S \ {Some(S)}] \in Nat /\ f[Some(S)].Size \in Nat
        BY <1>1, <1>3, <2>2
    <3>2. QED  BY <1>2, <2>2, <3>1
  <2> HIDE DEF Natural
  <2>3. \A S \in SUBSET D : S /= {} /\ (\A y \in S : S \ {y} \in Natural) => S \in Natural
      BY <2>2
  <2>4. QED  BY <1>1, <2>1, <2>3, SubsetInduction
<1>5. SUBSET D \subseteq Adding
  <2>1. {} \in Adding
      OBVIOUS
  <2>2. ASSUME NEW S \in SUBSET D, S /= {}, \A y \in S : S \ {y} \in Adding
        PROVE  S \in Adding
    <3> SUFFICES ASSUME NEW y \in S PROVE sum[S] = f[y].Size + sum[S \ {y}]
        OBVIOUS
    <3>1. PICK x \in S : x = Some(S)
        BY <1>3, <2>2
    <3>2. sum[S] = f[x].Size + sum[S \ {x}]
        BY <1>2, <2>2, <3>1
    <3>3. CASE x = y
        BY <3>2, <3>3
    <3>4. CASE x /= y
      <4>1. y \in S \ {x} /\ x \in S \ {y} /\ (S \ {x}) \ {y} = (S \ {y}) \ {x}
          BY <3>4
      <4>2. sum[S \ {x}] = f[y].Size + sum[(S \ {x}) \ {y}]
          BY <2>2, <4>1
      <4>3. sum[S \ {y}] = f[x].Size + sum[(S \ {x}) \ {y}]
          BY <2>2, <4>1
      <4>4. sum[(S \ {x}) \ {y}] \in Nat /\ f[x].Size \in Nat /\ f[y].Size \in Nat
          BY <1>1, <1>4
      <4>5. QED  BY <3>2, <4>2, <4>3, <4>4
    <3>5. QED  BY <3>3, <3>4
  <2> HIDE DEF Adding
  <2>3. \A S \in SUBSET D : S /= {} /\ (\A y \in S : S \ {y} \in Adding) => S \in Adding
      BY <2>2
  <2>4. QED  BY <1>1, <2>1, <2>3, SubsetInduction
<1>6. \A T \in SUBSET D : sum[T] \in Nat
    BY <1>4
<1>7. \A T \in SUBSET D : \A y \in T : sum[T] = f[y].Size + sum[T \ {y}]
    BY <1>5
<1>8. \A S : SizeOf(f, S) = sum[S]
    BY <1>2
<1>9. \A T \in SUBSET D : \A y \in T : SizeOf(f, T) = f[y].Size + SizeOf(f, T \ {y})
    BY <1>7, <1>8
<1>10. SizeOf(f, {}) = 0 /\ \A T \in SUBSET D : SizeOf(f, T) \in Nat
    BY <1>2, <1>6, <1>8
<1>11. QED  BY <1>1, <1>9, <1>10

\* The size of a set is that of a part of it and of the rest.
LEMMA SizeSplits ==
    ASSUME NEW f, Sized(f), NEW T \in SUBSET DOMAIN f, NEW S \in SUBSET T
    PROVE  SizeOf(f, T) = SizeOf(f, S) + SizeOf(f, T \ S)
<1>1. PICK D : D = DOMAIN f /\ IsFiniteSet(D) /\ \A x \in D : f[x].Size \in Nat
    BY DEF Sized
<1> DEFINE Good == {R \in SUBSET D : R \subseteq T => SizeOf(f, T) = SizeOf(f, R) + SizeOf(f, T \ R)}
<1>2. /\ SizeOf(f, {}) = 0
      /\ \A R \in SUBSET D : SizeOf(f, R) \in Nat
      /\ \A R \in SUBSET D : \A y \in R : SizeOf(f, R) = f[y].Size + SizeOf(f, R \ {y})
    BY <1>1, SizeAdds
<1>3. {} \in Good
  <2>1. T \ {} = T /\ SizeOf(f, T) \in Nat
      BY <1>1, <1>2
  <2>2. QED  BY <1>2, <2>1
<1>4. ASSUME NEW R \in SUBSET D, R /= {}, \A y \in R : R \ {y} \in Good
      PROVE  R \in Good
  <2> SUFFICES ASSUME R \subseteq T PROVE SizeOf(f, T) = SizeOf(f, R) + SizeOf(f, T \ R)
      OBVIOUS
  <2>1. PICK y \in R : TRUE
      BY <1>4
  <2>2. SizeOf(f, T) = SizeOf(f, R \ {y}) + SizeOf(f, T \ (R \ {y}))
      BY <1>4
  <2>3. SizeOf(f, R) = f[y].Size + SizeOf(f, R \ {y})
      BY <1>2
  <2>4. SizeOf(f, T \ (R \ {y})) = f[y].Size + SizeOf(f, T \ R)
    <3>1. T \ (R \ {y}) \in SUBSET D /\ y \in T \ (R \ {y}) /\ (T \ (R \ {y})) \ {y} = T \ R
        BY <1>1
    <3>2. QED  BY <1>2, <3>1
  <2>5. /\ SizeOf(f, R \ {y}) \in Nat /\ SizeOf(f, T \ R) \in Nat /\ f[y].Size \in Nat
        /\ SizeOf(f, T) \in Nat /\ SizeOf(f, R) \in Nat
    <3>1. R \ {y} \in SUBSET D /\ T \ R \in SUBSET D /\ T \in SUBSET D
        BY <1>1
    <3>2. QED  BY <1>1, <1>2, <3>1
  <2>6. QED  BY <2>2, <2>3, <2>4, <2>5
<1>5. SUBSET D \subseteq Good
  <2> HIDE DEF Good
  <2>1. \A R \in SUBSET D : R /= {} /\ (\A y \in R : R \ {y} \in Good) => R \in Good
      BY <1>4
  <2>2. QED  BY <1>1, <1>3, <2>1, SubsetInduction
<1>6. QED  BY <1>1, <1>5

\* Entries of the same sizes take the same.
LEMMA SizeAgrees ==
    ASSUME NEW f, NEW g, Sized(f), Sized(g), NEW T \in SUBSET (DOMAIN f \cap DOMAIN g),
           \A x \in T : f[x].Size = g[x].Size
    PROVE  SizeOf(f, T) = SizeOf(g, T)
<1>1. IsFiniteSet(T)
    BY FS_Subset DEF Sized
<1> DEFINE Good == {R \in SUBSET T : SizeOf(f, R) = SizeOf(g, R)}
<1>2. /\ SizeOf(f, {}) = 0 /\ SizeOf(g, {}) = 0
      /\ \A R \in SUBSET T : \A y \in R :
            /\ SizeOf(f, R) = f[y].Size + SizeOf(f, R \ {y})
            /\ SizeOf(g, R) = g[y].Size + SizeOf(g, R \ {y})
    BY SizeAdds
<1>3. {} \in Good
    BY <1>2
<1>4. ASSUME NEW R \in SUBSET T, R /= {}, \A y \in R : R \ {y} \in Good
      PROVE  R \in Good
  <2>1. PICK y \in R : TRUE
      BY <1>4
  <2>2. SizeOf(f, R \ {y}) = SizeOf(g, R \ {y})
      BY <1>4
  <2>3. QED  BY <1>2, <2>1, <2>2
<1>5. SUBSET T \subseteq Good
  <2> HIDE DEF Good
  <2>1. \A R \in SUBSET T : R /= {} /\ (\A y \in R : R \ {y} \in Good) => R \in Good
      BY <1>4
  <2>2. QED  BY <1>1, <1>3, <2>1, SubsetInduction
<1>6. QED  BY <1>5

-----------------------------------------------------------------------------
PartialEntries == UNION {[D -> CacheEntry] : D \in SUBSET ConvIds}
PartialTools == UNION {[D -> ToolCacheEntry] : D \in SUBSET ToolIds}

\* A cache whose list names its entries, each once, and whose counter holds what they take
\* and what is accounted for elsewhere.
Caches(rest) ==
    {c \in [conversations : PartialEntries, list : Seq(ConvIds), memory : Int] :
        /\ IsInjective(c.list) /\ ToSet(c.list) = DOMAIN c.conversations
        /\ c.memory = TotalSize(c.conversations) + rest}

LEMMA CacheTypes ==
    ASSUME NEW rest \in Nat, NEW c \in Caches(rest)
    PROVE  /\ c.conversations \in [DOMAIN c.conversations -> CacheEntry]
           /\ DOMAIN c.conversations \subseteq ConvIds
           /\ Sized(c.conversations)
           /\ Distinct(c.list, ConvIds) /\ ToSet(c.list) = DOMAIN c.conversations
           /\ Len(c.list) \in Nat /\ Cardinality(DOMAIN c.conversations) = Len(c.list)
           /\ c.memory = TotalSize(c.conversations) + rest /\ c.memory \in Int
           /\ TotalSize(c.conversations) \in Nat
<1>1. c.conversations \in PartialEntries /\ c.list \in Seq(ConvIds) /\ c.memory \in Int
    BY DEF Caches
<1>2. /\ c.conversations \in [DOMAIN c.conversations -> CacheEntry]
      /\ DOMAIN c.conversations \subseteq ConvIds
    BY <1>1 DEF PartialEntries
<1>3. /\ IsInjective(c.list) /\ ToSet(c.list) = DOMAIN c.conversations
      /\ c.memory = TotalSize(c.conversations) + rest
    BY DEF Caches
<1>4. Distinct(c.list, ConvIds)
    BY <1>1, <1>3 DEF Distinct
<1>5. /\ IsFiniteSet(DOMAIN c.conversations) /\ Len(c.list) \in Nat
      /\ Cardinality(DOMAIN c.conversations) = Len(c.list)
    BY <1>3, <1>4, DistinctCount
<1>6. \A id \in DOMAIN c.conversations : c.conversations[id].Size \in Nat
    BY <1>2, CacheAssumption DEF CacheEntry
<1>7. Sized(c.conversations)
    BY <1>5, <1>6 DEF Sized
<1>8. TotalSize(c.conversations) \in Nat
    BY <1>7, SizeAdds DEF TotalSize
<1>9. QED  BY <1>1, <1>2, <1>3, <1>4, <1>5, <1>7, <1>8

\* Fewer entries: a part, and the sizes of it.
Shrunk(f, S, g) ==
    /\ DOMAIN g = DOMAIN f \ S /\ \A x \in DOMAIN f \ S : g[x] = f[x]
    /\ Sized(g) /\ TotalSize(f) = TotalSize(g) + SizeOf(f, S)
    /\ SizeOf(f, S) \in Nat /\ TotalSize(g) \in Nat

LEMMA WithoutSizes ==
    ASSUME NEW f, Sized(f), NEW S \in SUBSET DOMAIN f, NEW g, g = Without(f, S)
    PROVE  Shrunk(f, S, g)
<1>1. DOMAIN g = DOMAIN f \ S /\ \A x \in DOMAIN f \ S : g[x] = f[x]
    BY DEF Without, Restrict
<1>2. Sized(g)
    BY <1>1, FS_Subset DEF Sized
<1>3. SizeOf(g, DOMAIN g) = SizeOf(f, DOMAIN f \ S)
    BY <1>1, <1>2, SizeAgrees
<1>4. SizeOf(f, DOMAIN f) = SizeOf(f, S) + SizeOf(f, DOMAIN f \ S)
    BY SizeSplits
<1>5. SizeOf(f, S) \in Nat /\ SizeOf(f, DOMAIN f \ S) \in Nat
    BY SizeAdds
<1>6. QED  BY <1>1, <1>2, <1>3, <1>4, <1>5 DEF TotalSize, Shrunk

\* removeConversationUnsafe keeps list, map and counter together.
LEMMA RemovedTogether ==
    ASSUME NEW rest \in Nat, NEW c \in Caches(rest), NEW S \in SUBSET DOMAIN c.conversations
    PROVE  LET d == RemoveAll(c, S)
           IN /\ d \in Caches(rest)
              /\ DOMAIN d.conversations = DOMAIN c.conversations \ S
              /\ \A id \in DOMAIN d.conversations : d.conversations[id] = c.conversations[id]
              /\ d.memory = c.memory - SizeOf(c.conversations, S)
              /\ S /= {} => Len(d.list) < Len(c.list)
<1>1. PICK d : d = RemoveAll(c, S)
    OBVIOUS
<1>2. PICK f, l : f = Without(c.conversations, S) /\ l = Unlisted(c.list, S)
    OBVIOUS
<1>3. d = [conversations |-> f, list |-> l, memory |-> c.memory - SizeOf(c.conversations, S)]
    BY <1>1, <1>2 DEF RemoveAll
<1>4. /\ c.conversations \in [DOMAIN c.conversations -> CacheEntry]
      /\ DOMAIN c.conversations \subseteq ConvIds
      /\ Sized(c.conversations)
      /\ Distinct(c.list, ConvIds) /\ ToSet(c.list) = DOMAIN c.conversations
      /\ Len(c.list) \in Nat /\ Cardinality(DOMAIN c.conversations) = Len(c.list)
      /\ c.memory = TotalSize(c.conversations) + rest /\ c.memory \in Int
      /\ TotalSize(c.conversations) \in Nat
    BY CacheTypes
<1>5. /\ DOMAIN f = DOMAIN c.conversations \ S
      /\ \A x \in DOMAIN c.conversations \ S : f[x] = c.conversations[x]
      /\ TotalSize(c.conversations) = TotalSize(f) + SizeOf(c.conversations, S)
      /\ SizeOf(c.conversations, S) \in Nat /\ TotalSize(f) \in Nat
  <2>1. PICK h : h = c.conversations
      OBVIOUS
  <2>2. Sized(h) /\ S \in SUBSET DOMAIN h
      BY <1>4, <2>1
  <2>3. Shrunk(h, S, f)
      BY <1>2, <2>1, <2>2, WithoutSizes
  <2>4. QED  BY <2>1, <2>3 DEF Shrunk
<1>6. f \in PartialEntries
  <2>1. f = [x \in DOMAIN c.conversations \ S |-> c.conversations[x]]
      BY <1>2 DEF Without, Restrict
  <2>2. f \in [DOMAIN c.conversations \ S -> CacheEntry]
      BY <1>4, <2>1
  <2>3. QED  BY <1>4, <2>2 DEF PartialEntries
<1>7. Distinct(l, ConvIds) /\ ToSet(l) = DOMAIN f
    BY <1>2, <1>4, <1>5, UnlistedIds
<1>8. d \in Caches(rest)
  <2>1. l \in Seq(ConvIds) /\ IsInjective(l)
      BY <1>7 DEF Distinct
  <2>2. c.memory - SizeOf(c.conversations, S) \in Int
        /\ c.memory - SizeOf(c.conversations, S) = TotalSize(f) + rest
      BY <1>4, <1>5
  <2>3. QED  BY <1>3, <1>6, <1>7, <2>1, <2>2 DEF Caches
<1>9. S /= {} => Len(l) < Len(c.list)
  <2>1. IsFiniteSet(DOMAIN c.conversations) /\ IsFiniteSet(ToSet(l))
        /\ Cardinality(DOMAIN f) = Len(l) /\ Len(l) \in Nat
      BY <1>4, <1>7, DistinctCount
  <2>2. /\ Cardinality(DOMAIN f) <= Cardinality(DOMAIN c.conversations)
        /\ Cardinality(DOMAIN f) = Cardinality(DOMAIN c.conversations) => DOMAIN f = DOMAIN c.conversations
    <3>1. DOMAIN f \in SUBSET DOMAIN c.conversations
        BY <1>5
    <3>2. QED  BY <2>1, <3>1, FS_Subset
  <2>3. S /= {} => DOMAIN f /= DOMAIN c.conversations
      BY <1>5
  <2>4. QED  BY <1>4, <2>1, <2>2, <2>3
<1>10. QED  BY <1>1, <1>3, <1>5, <1>8, <1>9

\* What is true of a cache d that evictions have made of c, and of whether they go on after
\* n iterations.
Evicted(c, d) == DOMAIN c.conversations \ DOMAIN d.conversations

NeededTheLast(c, d, limit) ==
    Evicted(c, d) /= {} =>
        \E id \in Evicted(c, d) : \/ Len(d.list) + 1 > MaxConversations
                                  \/ d.memory + c.conversations[id].Size > limit

FewestUsesGone(c, d) ==
    \A gone \in Evicted(c, d), kept \in DOMAIN d.conversations :
        c.conversations[gone].AccessCount <= c.conversations[kept].AccessCount

Evicting(c, d, limit) ==
    /\ DOMAIN d.conversations \subseteq DOMAIN c.conversations
    /\ \A id \in DOMAIN d.conversations : d.conversations[id] = c.conversations[id]
    /\ Len(d.list) <= Len(c.list)
    /\ evictionPolicy = "lru" => NeededTheLast(c, d, limit) /\ (Evicted(c, d) = {} => d = c)
    /\ evictionPolicy = "lfu" /\ Len(c.list) <= MaxConversations => FewestUsesGone(c, d)
    /\ evictionPolicy = "ttl" /\ Len(c.list) <= MaxConversations => Evicted(c, d) \subseteq Expired(c)

Done(d, limit) ==
    /\ Len(d.list) <= MaxConversations
    /\ evictionPolicy /= "ttl" => d.memory <= limit \/ Len(d.list) = 0

\* How an iteration ends: when it goes on it has evicted an entry.
Iterated(rest, c, e, limit) ==
    /\ e \in Caches(rest) \X BOOLEAN
    /\ Evicting(c, e[1], limit)
    /\ e[2] => Len(e[1].list) < Len(c.list)
    /\ ~ e[2] => Done(e[1], limit)

Policies == evictionPolicy \in {"lru", "lfu", "ttl"}

\* d is c without one conversation.
RemovedOne(rest, c, d, id) ==
    /\ d \in Caches(rest)
    /\ DOMAIN d.conversations = DOMAIN c.conversations \ {id}
    /\ \A x \in DOMAIN d.conversations : d.conversations[x] = c.conversations[x]
    /\ d.memory + c.conversations[id].Size = c.memory
    /\ Len(d.list) + 1 = Len(c.list)
    /\ Evicted(c, d) = {id}
    /\ c.conversations[id].Size \in Nat

\* Evicting one conversation.
LEMMA OneRemoved ==
    ASSUME NEW rest \in Nat, NEW c \in Caches(rest), NEW id \in DOMAIN c.conversations,
           NEW d, d = RemoveAll(c, {id})
    PROVE  RemovedOne(rest, c, d, id)
<1>1. /\ d \in Caches(rest)
      /\ DOMAIN d.conversations = DOMAIN c.conversations \ {id}
      /\ \A x \in DOMAIN d.conversations : d.conversations[x] = c.conversations[x]
      /\ d.memory = c.memory - SizeOf(c.conversations, {id})
    BY RemovedTogether
<1>2. Sized(c.conversations) /\ c.memory \in Int /\ Len(c.list) \in Nat
      /\ Cardinality(DOMAIN c.conversations) = Len(c.list)
    BY CacheTypes
<1>3. Len(d.list) \in Nat /\ Cardinality(DOMAIN d.conversations) = Len(d.list)
    BY <1>1, CacheTypes
<1>4. SizeOf(c.conversations, {id}) = c.conversations[id].Size /\ c.conversations[id].Size \in Nat
  <2>1. PICK f : f = c.conversations
      OBVIOUS
  <2>2. SizeOf(f, {}) = 0 /\ SizeOf(f, {id}) = f[id].Size + SizeOf(f, {id} \ {id})
      BY <1>2, <2>1, SizeAdds
  <2>3. {id} \ {id} = {} /\ f[id].Size \in Nat
      BY <1>2, <2>1 DEF Sized
  <2>4. QED  BY <2>1, <2>2, <2>3
<1>5. Cardinality(DOMAIN d.conversations) = Cardinality(DOMAIN c.conversations) - 1
  <2>1. PICK D, E : D = DOMAIN c.conversations /\ E = DOMAIN d.conversations
      OBVIOUS
  <2>2. IsFiniteSet(D) /\ id \in D /\ E = D \ {id}
      BY <1>1, <1>2, <2>1 DEF Sized
  <2>3. Cardinality(E) = Cardinality(D) - 1
      BY <2>2, FS_RemoveElement
  <2>4. QED  BY <2>1, <2>3
<1>6. Evicted(c, d) = {id}
    BY <1>1 DEF Evicted
<1>7. d.memory + c.conversations[id].Size = c.memory
    BY <1>1, <1>2, <1>4
<1>8. Len(d.list) + 1 = Len(c.list)
    BY <1>2, <1>3, <1>5
<1>9. QED  BY <1>1, <1>4, <1>6, <1>7, <1>8 DEF RemovedOne

LEMMA OldestRemoved ==
    ASSUME NEW rest \in Nat, NEW c \in Caches(rest), c.list /= <<>>
    PROVE  \E id \in DOMAIN c.conversations : EvictOldest(c) = RemoveAll(c, {id})
<1>1. Distinct(c.list, ConvIds) /\ ToSet(c.list) = DOMAIN c.conversations
    BY CacheTypes
<1>2. Last(c.list) \in ToSet(c.list)
    BY <1>1 DEF Distinct, Last, ToSet
<1>3. QED  BY <1>1, <1>2 DEF EvictOldest

\* Evicting one entry for a reason.
LEMMA OneEvicted ==
    ASSUME NEW rest \in Nat, NEW c \in Caches(rest), NEW limit \in Nat,
           NEW id \in DOMAIN c.conversations,
           Len(c.list) > MaxConversations \/ c.memory > limit,
           evictionPolicy = "ttl" => Len(c.list) > MaxConversations,
           evictionPolicy = "lfu" => Len(c.list) > MaxConversations \/ id \in LeastUsed(c),
           NEW d, d = RemoveAll(c, {id})
    PROVE  /\ d \in Caches(rest) /\ Evicting(c, d, limit)
           /\ Len(d.list) \in Nat /\ Len(d.list) + 1 = Len(c.list)
<1>2. /\ d \in Caches(rest)
      /\ DOMAIN d.conversations = DOMAIN c.conversations \ {id}
      /\ \A x \in DOMAIN d.conversations : d.conversations[x] = c.conversations[x]
      /\ d.memory + c.conversations[id].Size = c.memory
      /\ Len(d.list) + 1 = Len(c.list)
      /\ Evicted(c, d) = {id}
      /\ c.conversations[id].Size \in Nat
  <2>1. RemovedOne(rest, c, d, id)
      BY OneRemoved
  <2>2. QED  BY <2>1 DEF RemovedOne
<1>3. Len(d.list) \in Nat /\ Len(c.list) \in Nat /\ d.memory \in Int /\ c.memory \in Int
      /\ MaxConversations \in Nat
    BY <1>2, CacheTypes, CacheAssumption
<1>4. NeededTheLast(c, d, limit)
    BY <1>2, <1>3 DEF NeededTheLast
<1>5. evictionPolicy = "lfu" /\ Len(c.list) <= MaxConversations => FewestUsesGone(c, d)
  <2> SUFFICES ASSUME evictionPolicy = "lfu", Len(c.list) <= MaxConversations
               PROVE  FewestUsesGone(c, d)
      OBVIOUS
  <2>1. id \in LeastUsed(c)
      BY <1>3
  <2>2. \A other \in DOMAIN c.conversations :
            c.conversations[id].AccessCount <= c.conversations[other].AccessCount
      BY <2>1 DEF LeastUsed
  <2>3. QED  BY <1>2, <2>2 DEF FewestUsesGone
<1>6. evictionPolicy = "ttl" => ~ (Len(c.list) <= MaxConversations)
    BY <1>3
<1>7. Evicting(c, d, limit)
  <2>1. DOMAIN d.conversations \subseteq DOMAIN c.conversations /\ Len(d.list) <= Len(c.list)
    <3>1. DOMAIN d.conversations \subseteq DOMAIN c.conversations
        BY <1>2
    <3>2. PICK m, n : m = Len(d.list) /\ n = Len(c.list)
        OBVIOUS
    <3>3. m \in Nat /\ m + 1 = n
        BY <1>2, <1>3, <3>2
    <3>4. m <= n
        BY <3>3
    <3>5. QED  BY <3>1, <3>2, <3>4
  <2>2. Evicted(c, d) /= {}
      BY <1>2
  <2>3. \A x \in DOMAIN d.conversations : d.conversations[x] = c.conversations[x]
      BY <1>2
  <2>4. QED  BY <1>4, <1>5, <1>6, <2>1, <2>2, <2>3 DEF Evicting
<1>8. QED  BY <1>2, <1>3, <1>7

\* Nothing evicted.
LEMMA NoneEvicted ==
    ASSUME NEW rest \in Nat, NEW c \in Caches(rest), NEW limit
    PROVE  Evicting(c, c, limit)
<1>1. Evicted(c, c) = {} /\ Len(c.list) \in Nat
    BY CacheTypes DEF Evicted
<1>2. QED  BY <1>1 DEF Evicting, NeededTheLast, FewestUsesGone

LEMMA IteratedPair ==
    ASSUME NEW rest, NEW c, NEW limit, NEW d \in Caches(rest), NEW more \in BOOLEAN,
           Evicting(c, d, limit), more => Len(d.list) < Len(c.list), ~ more => Done(d, limit)
    PROVE  Iterated(rest, c, <<d, more>>, limit)
<1>1. PICK e : e = <<d, more>>
    OBVIOUS
<1>2. e[1] = d /\ e[2] = more /\ e \in Caches(rest) \X BOOLEAN
    BY <1>1
<1>3. QED  BY <1>1, <1>2 DEF Iterated

LEMMA IterationEvicts ==
    ASSUME NEW rest \in Nat, NEW c \in Caches(rest), NEW limit \in Nat, Policies,
           NEW e \in Iterate(c, limit)
    PROVE  Iterated(rest, c, e, limit)
<1>1. /\ Len(c.list) \in Nat /\ c.memory \in Int /\ MaxConversations \in Nat
      /\ c.list \in Seq(ConvIds) /\ Cardinality(DOMAIN c.conversations) = Len(c.list)
      /\ ToSet(c.list) = DOMAIN c.conversations
    BY CacheTypes, CacheAssumption DEF Distinct
<1>2. c.list = <<>> <=> Len(c.list) = 0
    BY <1>1
<1>4. CASE Len(c.list) > MaxConversations
  <2>1. e = <<EvictOldest(c), TRUE>>
      BY <1>4 DEF Iterate
  <2>2. PICK id \in DOMAIN c.conversations : EvictOldest(c) = RemoveAll(c, {id})
    <3>1. c.list /= <<>>
        BY <1>1, <1>2, <1>4
    <3>2. QED  BY <3>1, OldestRemoved
  <2>3. PICK d : d = RemoveAll(c, {id})
      OBVIOUS
  <2>4. d \in Caches(rest) /\ Evicting(c, d, limit) /\ Len(d.list) \in Nat
        /\ Len(d.list) + 1 = Len(c.list)
      BY <1>4, <2>3, OneEvicted
  <2>5. e = <<d, TRUE>> /\ Len(d.list) < Len(c.list)
      BY <1>1, <2>1, <2>2, <2>3, <2>4
  <2>6. QED  BY <2>4, <2>5, IteratedPair
<1>5. CASE ~ (Len(c.list) > MaxConversations) /\ c.memory <= limit
  <2>1. e = <<c, FALSE>>
      BY <1>5 DEF Iterate
  <2>2. Done(c, limit)
      BY <1>1, <1>5 DEF Done
  <2>3. QED  BY <2>1, <2>2, NoneEvicted, IteratedPair
<1>6. CASE ~ (Len(c.list) > MaxConversations) /\ ~ (c.memory <= limit)
  <2>1. e \in EvictByPolicy(c) /\ c.memory > limit
    <3>1. Iterate(c, limit) = EvictByPolicy(c)
        BY <1>6 DEF Iterate
    <3>2. c.memory > limit
        BY <1>1, <1>6
    <3>3. QED  BY <3>1, <3>2
  <2>2. CASE evictionPolicy = "lfu"
    <3>1. CASE c.list = <<>>
      <4>1. e = <<c, FALSE>>
          BY <2>1, <2>2, <3>1 DEF EvictByPolicy
      <4>2. Done(c, limit)
          BY <1>1, <1>2, <1>6, <3>1 DEF Done
      <4>3. QED  BY <4>1, <4>2, NoneEvicted, IteratedPair
    <3>2. CASE c.list /= <<>>
      <4>1. PICK id \in LeastUsed(c) : e = <<RemoveAll(c, {id}), TRUE>>
          BY <2>1, <2>2, <3>2 DEF EvictByPolicy
      <4>2. id \in DOMAIN c.conversations
          BY DEF LeastUsed
      <4>3. PICK d : d = RemoveAll(c, {id})
          OBVIOUS
      <4>4. d \in Caches(rest) /\ Evicting(c, d, limit) /\ Len(d.list) \in Nat
            /\ Len(d.list) + 1 = Len(c.list)
          BY <2>1, <2>2, <4>2, <4>3, OneEvicted
      <4>5. e = <<d, TRUE>> /\ Len(d.list) < Len(c.list)
          BY <1>1, <4>1, <4>3, <4>4
      <4>6. QED  BY <4>4, <4>5, IteratedPair
    <3>3. QED  BY <3>1, <3>2
  <2>3. CASE evictionPolicy = "ttl"
    <3>1. e = <<RemoveAll(c, Expired(c)), Expired(c) # {}>>
        BY <2>1, <2>3 DEF EvictByPolicy
    <3>2. Expired(c) \in SUBSET DOMAIN c.conversations
        BY DEF Expired
    <3>3. PICK d, S : d = RemoveAll(c, S) /\ S = Expired(c)
        OBVIOUS
    <3>4. /\ d \in Caches(rest)
          /\ DOMAIN d.conversations = DOMAIN c.conversations \ S
          /\ \A id \in DOMAIN d.conversations : d.conversations[id] = c.conversations[id]
          /\ S /= {} => Len(d.list) < Len(c.list)
        BY <3>2, <3>3, RemovedTogether
    <3>5. Len(d.list) \in Nat /\ Cardinality(DOMAIN d.conversations) = Len(d.list)
        BY <3>4, CacheTypes
    <3>6. Len(d.list) <= Len(c.list)
      <4>1. S = {} => DOMAIN d.conversations = DOMAIN c.conversations
          BY <3>4
      <4>2. S = {} => Len(d.list) = Len(c.list)
          BY <1>1, <3>5, <4>1
      <4>3. S /= {} => Len(d.list) < Len(c.list)
          BY <3>4
      <4>4. QED  BY <1>1, <3>5, <4>2, <4>3
    <3>7. Evicting(c, d, limit)
        BY <2>3, <3>2, <3>3, <3>4, <3>6 DEF Evicting, Evicted
    <3>8. Done(d, limit)
        BY <1>1, <1>6, <2>3, <3>5, <3>6 DEF Done
    <3>9. PICK more \in BOOLEAN : more = (S # {})
        OBVIOUS
    <3>10. e = <<d, more>> /\ (more => Len(d.list) < Len(c.list))
        BY <3>1, <3>3, <3>4, <3>9
    <3>11. QED  BY <3>4, <3>7, <3>8, <3>10, IteratedPair
  <2>4. CASE evictionPolicy = "lru"
    <3>1. e = <<EvictOldest(c), EvictOldest(c).list # <<>>>>
        BY <2>1, <2>4 DEF EvictByPolicy
    <3>2. CASE c.list = <<>>
      <4>1. EvictOldest(c) = c
          BY <3>2 DEF EvictOldest
      <4>2. e = <<c, FALSE>>
          BY <3>1, <3>2, <4>1
      <4>3. Done(c, limit)
          BY <1>1, <1>2, <1>6, <3>2 DEF Done
      <4>4. QED  BY <4>2, <4>3, NoneEvicted, IteratedPair
    <3>3. CASE c.list /= <<>>
      <4>1. PICK id \in DOMAIN c.conversations : EvictOldest(c) = RemoveAll(c, {id})
          BY <3>3, OldestRemoved
      <4>2. PICK d : d = RemoveAll(c, {id})
          OBVIOUS
      <4>3. d \in Caches(rest) /\ Evicting(c, d, limit) /\ Len(d.list) \in Nat
            /\ Len(d.list) + 1 = Len(c.list)
          BY <2>1, <2>4, <4>2, OneEvicted
      <4>4. d.list = <<>> => Len(d.list) = 0
          OBVIOUS
      <4>5. d.list = <<>> => Done(d, limit)
          BY <1>1, <1>6, <4>3, <4>4 DEF Done
      <4>6. e = <<d, d.list # <<>>>>
          BY <3>1, <4>1, <4>2
      <4>7. PICK more \in BOOLEAN : more = (d.list # <<>>)
          OBVIOUS
      <4>8. Len(d.list) < Len(c.list)
          BY <1>1, <4>3
      <4>9. e = <<d, more>> /\ (~ more => Done(d, limit))
          BY <4>5, <4>6, <4>7
      <4>10. QED  BY <4>3, <4>8, <4>9, IteratedPair
    <3>4. QED  BY <3>2, <3>3
  <2>5. QED  BY <2>2, <2>3, <2>4 DEF Policies
<1>7. QED  BY <1>4, <1>5, <1>6

\* Evictions after evictions.
LEMMA EvictingOn ==
    ASSUME NEW rest \in Nat, NEW c \in Caches(rest), NEW d \in Caches(rest),
           NEW b \in Caches(rest), NEW limit \in Nat, Policies,
           Evicting(c, d, limit), Evicting(d, b, limit)
    PROVE  Evicting(c, b, limit)
<1>1. /\ Len(c.list) \in Nat /\ Len(d.list) \in Nat /\ Len(b.list) \in Nat
      /\ b.memory \in Int /\ MaxConversations \in Nat
    BY CacheTypes, CacheAssumption
<1>2. /\ DOMAIN b.conversations \subseteq DOMAIN d.conversations
      /\ DOMAIN d.conversations \subseteq DOMAIN c.conversations
      /\ \A id \in DOMAIN d.conversations : d.conversations[id] = c.conversations[id]
      /\ \A id \in DOMAIN b.conversations : b.conversations[id] = d.conversations[id]
      /\ Len(d.list) <= Len(c.list) /\ Len(b.list) <= Len(d.list)
    BY DEF Evicting
<1>3. /\ \A id \in DOMAIN b.conversations : b.conversations[id] = c.conversations[id]
      /\ Len(b.list) <= Len(c.list)
    BY <1>1, <1>2
<1>4. Evicted(c, b) = Evicted(c, d) \cup Evicted(d, b)
    BY <1>2 DEF Evicted
<1>5. \A id \in Evicted(d, b) : d.conversations[id] = c.conversations[id]
    BY <1>2 DEF Evicted
<1>6. ASSUME evictionPolicy = "lru"
      PROVE  NeededTheLast(c, b, limit) /\ (Evicted(c, b) = {} => b = c)
  <2>1. /\ NeededTheLast(c, d, limit) /\ (Evicted(c, d) = {} => d = c)
        /\ NeededTheLast(d, b, limit) /\ (Evicted(d, b) = {} => b = d)
      BY <1>6 DEF Evicting
  <2>2. Evicted(c, b) = {} => b = c
      BY <1>4, <2>1
  <2>3. CASE Evicted(d, b) = {}
    <3>1. b = d
        BY <2>1, <2>3
    <3>2. QED  BY <2>1, <2>2, <3>1
  <2>4. CASE Evicted(d, b) /= {}
    <3>1. PICK id \in Evicted(d, b) : \/ Len(b.list) + 1 > MaxConversations
                                      \/ b.memory + d.conversations[id].Size > limit
        BY <2>1, <2>4 DEF NeededTheLast
    <3>2. id \in Evicted(c, b) /\ d.conversations[id] = c.conversations[id]
        BY <1>4, <1>5
    <3>3. QED  BY <2>2, <3>1, <3>2 DEF NeededTheLast
  <2>5. QED  BY <2>3, <2>4
<1>7. ASSUME evictionPolicy = "lfu", Len(c.list) <= MaxConversations PROVE FewestUsesGone(c, b)
  <2>1. FewestUsesGone(c, d) /\ FewestUsesGone(d, b)
      BY <1>1, <1>2, <1>7 DEF Evicting
  <2> SUFFICES ASSUME NEW gone \in Evicted(c, b), NEW kept \in DOMAIN b.conversations
               PROVE  c.conversations[gone].AccessCount <= c.conversations[kept].AccessCount
      BY <1>3 DEF FewestUsesGone
  <2>2. kept \in DOMAIN d.conversations /\ d.conversations[kept] = c.conversations[kept]
        /\ b.conversations[kept] = c.conversations[kept]
      BY <1>2
  <2>3. CASE gone \in Evicted(c, d)
      BY <2>1, <2>2, <2>3 DEF FewestUsesGone
  <2>4. CASE gone \in Evicted(d, b)
      BY <1>5, <2>1, <2>2, <2>4 DEF FewestUsesGone
  <2>5. QED  BY <1>4, <2>3, <2>4
<1>8. ASSUME evictionPolicy = "ttl", Len(c.list) <= MaxConversations
      PROVE  Evicted(c, b) \subseteq Expired(c)
  <2>1. Evicted(c, d) \subseteq Expired(c) /\ Evicted(d, b) \subseteq Expired(d)
      BY <1>1, <1>2, <1>8 DEF Evicting
  <2>2. Expired(d) \subseteq Expired(c)
      BY <1>2 DEF Expired
  <2>3. QED  BY <1>4, <2>1, <2>2
<1>9. QED  BY <1>2, <1>3, <1>6, <1>7, <1>8 DEF Evicting

\* The loop of evictIfNecessary, from a cache c on.
Loop(rest, c, e, limit, n) ==
    /\ e \in Caches(rest) \X BOOLEAN
    /\ Evicting(c, e[1], limit)
    /\ e[2] => Len(e[1].list) + n <= Len(c.list)
    /\ ~ e[2] => Done(e[1], limit)

LEMMA LoopStep ==
    ASSUME NEW rest \in Nat, NEW c \in Caches(rest), NEW limit \in Nat, Policies,
           NEW n \in Nat, NEW e, Loop(rest, c, e, limit, n), e[2] = TRUE,
           NEW b \in Iterate(e[1], limit)
    PROVE  Loop(rest, c, b, limit, n + 1)
<1>1. PICK d \in Caches(rest) : d = e[1]
    BY DEF Loop
<1>2. Iterated(rest, d, b, limit)
    BY <1>1, IterationEvicts
<1>3. b[1] \in Caches(rest) /\ Evicting(d, b[1], limit)
      /\ b \in Caches(rest) \X BOOLEAN
      /\ (b[2] => Len(b[1].list) < Len(d.list)) /\ (~ b[2] => Done(b[1], limit))
    BY <1>2 DEF Iterated
<1>4. Evicting(c, d, limit) /\ Len(d.list) + n <= Len(c.list)
    BY <1>1 DEF Loop
<1>5. PICK f \in Caches(rest) : f = b[1]
    BY <1>3
<1>6. Evicting(c, f, limit)
    BY <1>3, <1>4, <1>5, EvictingOn
<1>7. Len(f.list) \in Nat /\ Len(d.list) \in Nat /\ Len(c.list) \in Nat
    BY CacheTypes
<1>8. b[2] => Len(f.list) + (n + 1) <= Len(c.list)
  <2>1. b[2] => Len(f.list) < Len(d.list)
      BY <1>3, <1>5
  <2>2. PICK x, y, z : x = Len(f.list) /\ y = Len(d.list) /\ z = Len(c.list)
      OBVIOUS
  <2>3. x \in Nat /\ y \in Nat /\ z \in Nat /\ y + n <= z
      BY <1>4, <1>7, <2>2
  <2>4. x < y => x + (n + 1) <= z
      BY <2>3
  <2>5. QED  BY <2>1, <2>2, <2>4
<1>9. QED  BY <1>3, <1>5, <1>6, <1>8 DEF Loop

\* evictIfNecessary ends within its limits, and every cache it can end in keeps list, map
\* and counter together.
LEMMA NecessaryEvicted ==
    ASSUME NEW rest \in Nat, NEW c \in Caches(rest), NEW limit \in Nat, Policies,
           NEW d \in EvictIfNecessary(c, limit)
    PROVE  d \in Caches(rest) /\ Evicting(c, d, limit) /\ Done(d, limit)
<1>1. PICK N \in Nat : N = Len(c.list) + 1
  <2>1. Len(c.list) \in Nat
      BY CacheTypes
  <2>2. QED  BY <2>1
<1>2. PICK U : U = Caches(rest) \X BOOLEAN
    OBVIOUS
<1>3. PICK start : start = {<<c, TRUE>>}
    OBVIOUS
<1> DEFINE Step(A) == UNION {IF e[2] THEN Iterate(e[1], limit) ELSE {e} : e \in A}
           G == [n \in Nat |-> [A \in SUBSET U |-> Step(A)]]
           F(h, n) == IF n = 0 THEN start ELSE Step(h[n - 1])
<1>4. \A A, b : b \in Step(A) <=> \E e \in A : IF e[2] THEN b \in Iterate(e[1], limit) ELSE b = e
    OBVIOUS
<1> HIDE DEF Step
<1>5. ASSUME NEW A \in SUBSET U PROVE Step(A) \in SUBSET U
  <2> SUFFICES ASSUME NEW b \in Step(A) PROVE b \in U
      OBVIOUS
  <2>1. PICK e \in A : IF e[2] THEN b \in Iterate(e[1], limit) ELSE b = e
      BY <1>4
  <2>2. CASE e[2]
    <3>1. PICK g \in Caches(rest) : g = e[1]
        BY <1>2
    <3>2. Iterated(rest, g, b, limit)
        BY <2>1, <2>2, <3>1, IterationEvicts
    <3>3. QED  BY <1>2, <3>2 DEF Iterated
  <2>3. QED  BY <2>1, <2>2
<1>6. start \in SUBSET U
  <2>1. <<c, TRUE>> \in U
      BY <1>2
  <2>2. QED  BY <1>3, <2>1
<1>7. PICK h \in [0..N -> SUBSET U] : h[0] = start /\ \A n \in 1..N : h[n] = Step(h[n - 1])
  <2>1. G \in [Nat -> [SUBSET U -> SUBSET U]]
      BY <1>5
  <2>2. \A n \in 1..N, A \in SUBSET U : G[n][A] = Step(A)
      OBVIOUS
  <2> HIDE DEF G
  <2>3. Recursion(SUBSET U, start, N, G)
      BY <1>6, <2>1, RecursionDefined
  <2>4. PICK h \in [0..N -> SUBSET U] : h[0] = start /\ \A n \in 1..N : h[n] = G[n][h[n - 1]]
      BY <2>3 DEF Recursion
  <2>5. ASSUME NEW n \in 1..N PROVE h[n] = Step(h[n - 1])
    <3>1. n - 1 \in 0..N
        OBVIOUS
    <3>2. QED  BY <2>2, <2>4, <3>1
  <2>6. QED  BY <2>4, <2>5
<1>8. h = [n \in 0..N |-> F(h, n)]
    BY <1>7
<1> DEFINE L == CHOOSE g : g = [n \in 0..N |-> F(g, n)]
<1>9. L = [n \in 0..N |-> F(L, n)]
    BY <1>8
<1>10. EvictIfNecessary(c, limit) = {e[1] : e \in L[N]}
    BY <1>1, <1>3 DEF EvictIfNecessary, Step
<1> HIDE DEF L
<1>11. L[0] = start /\ \A n \in 1..N : L[n] = Step(L[n - 1])
    BY <1>9
<1> DEFINE Good == {n \in 0..N : \A e \in L[n] : Loop(rest, c, e, limit, n)}
<1>12. 0 \in Good
  <2>1. ASSUME NEW e \in L[0] PROVE Loop(rest, c, e, limit, 0)
    <3>1. e = <<c, TRUE>>
        BY <1>3, <1>11
    <3>2. e[1] = c /\ e[2] = TRUE /\ e \in Caches(rest) \X BOOLEAN
        BY <3>1
    <3>3. Len(c.list) \in Nat
        BY CacheTypes
    <3>4. QED  BY <3>2, <3>3, NoneEvicted DEF Loop
  <2>2. QED  BY <2>1
<1>13. ASSUME NEW n \in 1..N, n - 1 \in Good PROVE n \in Good
  <2> SUFFICES ASSUME NEW b \in L[n] PROVE Loop(rest, c, b, limit, n)
      OBVIOUS
  <2>1. PICK e \in L[n - 1] : IF e[2] THEN b \in Iterate(e[1], limit) ELSE b = e
      BY <1>4, <1>11
  <2>2. Loop(rest, c, e, limit, n - 1) /\ n - 1 \in Nat /\ (n - 1) + 1 = n
      BY <1>13
  <2>3. CASE e[2]
    <3>1. e[2] = TRUE
        BY <2>2, <2>3 DEF Loop
    <3>2. Loop(rest, c, b, limit, (n - 1) + 1)
        BY <2>1, <2>2, <2>3, <3>1, LoopStep
    <3>3. QED  BY <2>2, <3>2
  <2>4. CASE ~ e[2]
      BY <2>1, <2>2, <2>4 DEF Loop
  <2>5. QED  BY <2>3, <2>4
<1>14. N \in Good
  <2> HIDE DEF Good
  <2>1. \A n \in 1..N : n - 1 \in Good => n \in Good
      BY <1>13
  <2>2. 0..N \subseteq Good
      BY <1>12, <2>1, InductionUpTo
  <2>3. QED  BY <2>2
<1>15. PICK e \in L[N] : d = e[1]
    BY <1>10
<1>16. Loop(rest, c, e, limit, N)
    BY <1>14
<1>17. d \in Caches(rest)
    BY <1>15, <1>16 DEF Loop
<1>18. ~ e[2]
  <2>1. Len(d.list) \in Nat /\ Len(c.list) \in Nat
      BY <1>17, CacheTypes
  <2>2. e[2] => Len(d.list) + N <= Len(c.list)
      BY <1>15, <1>16 DEF Loop
  <2>3. PICK x, y : x = Len(d.list) /\ y = Len(c.list)
      OBVIOUS
  <2>4. x \in Nat /\ y \in Nat /\ N = y + 1 /\ (e[2] => x + N <= y)
      BY <1>1, <2>1, <2>2, <2>3
  <2>5. QED  BY <2>4
<1>19. QED  BY <1>15, <1>16, <1>17, <1>18 DEF Loop

-----------------------------------------------------------------------------
(***************************************************************************)
(* The invariant.                                                          *)
(***************************************************************************)
ToolsKept ==
    /\ toolExecutions \in PartialTools
    /\ Distinct(toolList, ToolIds) /\ ToSet(toolList) = DOMAIN toolExecutions
    /\ Len(toolList) <= MaxToolExecutions

CacheInv ==
    /\ Entries \in Caches(TotalSize(toolExecutions))
    /\ Len(conversationList) <= MaxConversations
    /\ ToolsKept
    /\ memoryLimit \in Limits /\ Policies

LEMMA EntriesFields ==
    /\ Entries.conversations = conversations /\ Entries.list = conversationList
    /\ Entries.memory = currentMemory
    BY DEF Entries

LEMMA ToolTypes ==
    ASSUME ToolsKept
    PROVE  /\ toolExecutions \in [DOMAIN toolExecutions -> ToolCacheEntry]
           /\ DOMAIN toolExecutions \subseteq ToolIds
           /\ Sized(toolExecutions) /\ TotalSize(toolExecutions) \in Nat
           /\ Cardinality(DOMAIN toolExecutions) = Len(toolList) /\ Len(toolList) \in Nat
<1>1. /\ toolExecutions \in [DOMAIN toolExecutions -> ToolCacheEntry]
      /\ DOMAIN toolExecutions \subseteq ToolIds
    BY DEF ToolsKept, PartialTools
<1>2. /\ IsFiniteSet(DOMAIN toolExecutions) /\ Cardinality(DOMAIN toolExecutions) = Len(toolList)
      /\ Len(toolList) \in Nat
    BY DistinctCount DEF ToolsKept
<1>3. \A id \in DOMAIN toolExecutions : toolExecutions[id].Size \in Nat
    BY <1>1, CacheAssumption DEF ToolCacheEntry
<1>4. Sized(toolExecutions)
    BY <1>2, <1>3 DEF Sized
<1>5. TotalSize(toolExecutions) \in Nat
    BY <1>4, SizeAdds DEF TotalSize
<1>6. QED  BY <1>1, <1>2, <1>4, <1>5

LEMMA MovedToFront ==
    ASSUME NEW I, NEW list, Distinct(list, I), NEW id \in ToSet(list)
    PROVE  Distinct(MoveToFront(list, id), I) /\ ToSet(MoveToFront(list, id)) = ToSet(list)
<1>1. PICK l : l = Unlisted(list, {id})
    OBVIOUS
<1>2. Distinct(l, I) /\ ToSet(l) = ToSet(list) \ {id}
    BY <1>1, UnlistedIds
<1>3. id \in I \ ToSet(l)
    BY <1>2 DEF Distinct, ToSet
<1>4. Distinct(<<id>> \o l, I) /\ ToSet(<<id>> \o l) = ToSet(l) \cup {id}
    BY <1>2, <1>3, PrependedIds
<1>5. QED  BY <1>1, <1>2, <1>4 DEF MoveToFront

\* The first n are left when the others go.
LEMMA OldestGone ==
    ASSUME NEW I, NEW list, Distinct(list, I), NEW n \in Nat
    PROVE  /\ Oldest(list, n) \subseteq ToSet(list)
           /\ Len(Unlisted(list, Oldest(list, n))) <= n
<1>1. list \in Seq(I) /\ DOMAIN list = 1..Len(list) /\ Len(list) \in Nat
    BY DEF Distinct
<1>2. Oldest(list, n) \subseteq ToSet(list)
    BY <1>1 DEF Oldest, ToSet
<1>3. PICK l : l = Unlisted(list, Oldest(list, n))
    OBVIOUS
<1>4. Distinct(l, I) /\ ToSet(l) = ToSet(list) \ Oldest(list, n)
    BY <1>3, UnlistedIds
<1>5. Cardinality(ToSet(l)) = Len(l) /\ Len(l) \in Nat
    BY <1>4, DistinctCount
<1> DEFINE k == Len(list)
<1> HIDE DEF k
<1>6. k \in Nat /\ DOMAIN list = 1..k /\ \A i \in 1..k : list[i] \in I
    BY <1>1 DEF k
<1> DEFINE m == IF n <= k THEN n ELSE k
<1>7. m \in Nat /\ m <= n /\ m <= k /\ \A i \in 1..k : i \in n + 1..k \/ i \in 1..m
    BY <1>6
<1> HIDE DEF m
<1> DEFINE t == [i \in 1..m |-> list[i]]
<1>8. Distinct(t, I) /\ Len(t) = m
  <2>1. 1..m \subseteq 1..k
      BY <1>6, <1>7
  <2>2. \A i \in 1..m : list[i] \in I
      BY <1>6, <2>1
  <2>3. t \in Seq(I) /\ Len(t) = m
      BY <1>7, <2>2
  <2>4. IsInjective(t)
      BY <1>6, <2>1 DEF Distinct, IsInjective
  <2>5. QED  BY <2>3, <2>4 DEF Distinct
<1>9. IsFiniteSet(ToSet(t)) /\ Cardinality(ToSet(t)) = m
  <2> HIDE DEF t
  <2>1. QED  BY <1>8, DistinctCount
<1>10. ToSet(l) \subseteq ToSet(t)
  <2> SUFFICES ASSUME NEW x \in ToSet(l) PROVE x \in ToSet(t)
      OBVIOUS
  <2>1. PICK i \in 1..k : x = list[i]
      BY <1>4, <1>6 DEF ToSet
  <2>2. ~ (i \in n + 1..k)
      BY <1>4, <2>1 DEF Oldest, k
  <2>3. i \in 1..m /\ x = t[i] /\ DOMAIN t = 1..m
      BY <1>7, <2>1, <2>2
  <2> HIDE DEF t
  <2>4. QED  BY <2>3 DEF ToSet
<1> HIDE DEF t
<1>11. Cardinality(ToSet(l)) <= Cardinality(ToSet(t))
    BY <1>9, <1>10, FS_Subset
<1>12. QED  BY <1>2, <1>3, <1>5, <1>7, <1>9, <1>11

\* One entry more: id with e.
Grown(f, id, e, g) ==
    /\ DOMAIN g = DOMAIN f \cup {id} /\ g[id] = e
    /\ \A x \in DOMAIN f : g[x] = f[x]
    /\ Sized(g) /\ TotalSize(g) = TotalSize(f) + e.Size

LEMMA WithSizes ==
    ASSUME NEW f, Sized(f), NEW id, id \notin DOMAIN f, NEW e, e.Size \in Nat,
           NEW g, g = With(f, id, e)
    PROVE  Grown(f, id, e, g)
<1>1. /\ DOMAIN g = DOMAIN f \cup {id} /\ g[id] = e
      /\ \A x \in DOMAIN f : g[x] = f[x]
    BY DEF With
<1>2. Sized(g)
    BY <1>1, FS_AddElement DEF Sized
<1>3. SizeOf(g, DOMAIN g) = e.Size + SizeOf(g, DOMAIN g \ {id})
    BY <1>1, <1>2, SizeAdds
<1>4. DOMAIN g \ {id} = DOMAIN f
    BY <1>1
<1>5. SizeOf(g, DOMAIN f) = SizeOf(f, DOMAIN f)
    BY <1>1, <1>2, SizeAgrees
<1>6. SizeOf(f, DOMAIN f) \in Nat
    BY SizeAdds
<1>7. QED  BY <1>1, <1>2, <1>3, <1>4, <1>5, <1>6 DEF TotalSize, Grown

LEMMA SameSizes ==
    ASSUME NEW f, NEW g, Sized(f), DOMAIN g = DOMAIN f,
           \A x \in DOMAIN f : g[x].Size = f[x].Size
    PROVE  Sized(g) /\ TotalSize(g) = TotalSize(f)
<1>1. Sized(g)
    BY DEF Sized
<1>2. QED  BY <1>1, SizeAgrees DEF TotalSize

LEMMA EntriesKept ==
    ASSUME CacheInv
    PROVE  /\ TotalSize(toolExecutions) \in Nat
           /\ conversations \in [DOMAIN conversations -> CacheEntry]
           /\ DOMAIN conversations \subseteq ConvIds
           /\ Sized(conversations)
           /\ Distinct(conversationList, ConvIds) /\ ToSet(conversationList) = DOMAIN conversations
           /\ Len(conversationList) \in Nat
           /\ Cardinality(DOMAIN conversations) = Len(conversationList)
           /\ currentMemory = TotalSize(conversations) + TotalSize(toolExecutions)
           /\ currentMemory \in Int
           /\ TotalSize(conversations) \in Nat
<1>1. PICK rest \in Nat : rest = TotalSize(toolExecutions)
    BY ToolTypes DEF CacheInv
<1>2. PICK c \in Caches(rest) : c = Entries
    BY <1>1 DEF CacheInv
<1>3. /\ c.conversations \in [DOMAIN c.conversations -> CacheEntry]
      /\ DOMAIN c.conversations \subseteq ConvIds
      /\ Sized(c.conversations)
      /\ Distinct(c.list, ConvIds) /\ ToSet(c.list) = DOMAIN c.conversations
      /\ Len(c.list) \in Nat /\ Cardinality(DOMAIN c.conversations) = Len(c.list)
      /\ c.memory = TotalSize(c.conversations) + rest /\ c.memory \in Int
      /\ TotalSize(c.conversations) \in Nat
    BY CacheTypes
<1>4. c.conversations = conversations /\ c.list = conversationList /\ c.memory = currentMemory
    BY <1>2, EntriesFields
<1>5. QED  BY <1>1, <1>3, <1>4

\* What makes a cache one.
LEMMA CachesAre ==
    ASSUME NEW rest, NEW f, NEW l, NEW m, DOMAIN f \subseteq ConvIds, f \in [DOMAIN f -> CacheEntry],
           Distinct(l, ConvIds), ToSet(l) = DOMAIN f, m \in Int, m = TotalSize(f) + rest
    PROVE  [conversations |-> f, list |-> l, memory |-> m] \in Caches(rest)
<1>1. f \in PartialEntries
    BY DEF PartialEntries
<1>2. l \in Seq(ConvIds) /\ IsInjective(l)
    BY DEF Distinct
<1>3. QED  BY <1>1, <1>2 DEF Caches

\* What the cache has become.
LEMMA Becomes ==
    ASSUME NEW rest, NEW c \in Caches(rest), Become(c)
    PROVE  Entries' = c
<1>1. c = [conversations |-> c.conversations, list |-> c.list, memory |-> c.memory]
    BY DEF Caches
<1>2. Entries' = [conversations |-> c.conversations, list |-> c.list, memory |-> c.memory]
    BY DEF Entries, Become
<1>3. QED  BY <1>1, <1>2

LEMMA EntriesAfter ==
    ASSUME NEW rest, DOMAIN conversations' \subseteq ConvIds,
           conversations' \in [DOMAIN conversations' -> CacheEntry],
           Distinct(conversationList', ConvIds), ToSet(conversationList') = DOMAIN conversations',
           currentMemory' \in Int, currentMemory' = TotalSize(conversations') + rest
    PROVE  Entries' \in Caches(rest)
<1>1. PICK f, l, m : f = conversations' /\ l = conversationList' /\ m = currentMemory'
    OBVIOUS
<1>2. [conversations |-> f, list |-> l, memory |-> m] \in Caches(rest)
    BY <1>1, CachesAre
<1>3. Entries' = [conversations |-> f, list |-> l, memory |-> m]
    BY <1>1 DEF Entries
<1>4. QED  BY <1>2, <1>3

\* A cache with fewer entries has a shorter list.
LEMMA FewerListed ==
    ASSUME NEW rest \in Nat, NEW c \in Caches(rest), NEW d \in Caches(rest),
           DOMAIN d.conversations \subseteq DOMAIN c.conversations
    PROVE  Len(d.list) <= Len(c.list)
<1>1. /\ Cardinality(DOMAIN d.conversations) = Len(d.list)
      /\ Cardinality(DOMAIN c.conversations) = Len(c.list)
      /\ IsFiniteSet(DOMAIN c.conversations)
    BY CacheTypes DEF Sized
<1>2. Cardinality(DOMAIN d.conversations) <= Cardinality(DOMAIN c.conversations)
    BY <1>1, FS_Subset
<1>3. QED  BY <1>1, <1>2

\* The invariant after a step that leaves the tool executions alone.
LEMMA ToolsApart ==
    ASSUME CacheInv, UNCHANGED toolVars, Entries' \in Caches(TotalSize(toolExecutions)),
           Len(conversationList') <= MaxConversations,
           memoryLimit' \in Limits, evictionPolicy' = evictionPolicy
    PROVE  CacheInv'
<1>1. ToolsKept'
    BY DEF CacheInv, ToolsKept, toolVars
<1>2. Entries' \in Caches(TotalSize(toolExecutions'))
    BY DEF toolVars
<1>3. Policies'
    BY DEF CacheInv, Policies
<1>4. QED  BY <1>1, <1>2, <1>3 DEF CacheInv

\* A step that takes the entries of a set.
LEMMA StepRemoves ==
    ASSUME CacheInv, NEW S \in SUBSET DOMAIN conversations, Become(RemoveAll(Entries, S)),
           UNCHANGED <<toolVars, configVars>>
    PROVE  CacheInv'
<1>1. PICK rest \in Nat : rest = TotalSize(toolExecutions)
    BY EntriesKept
<1>2. PICK c \in Caches(rest) : c = Entries
    BY <1>1 DEF CacheInv
<1>3. c.conversations = conversations /\ c.list = conversationList
    BY <1>2, EntriesFields
<1>4. PICK d : d = RemoveAll(c, S)
    OBVIOUS
<1>5. d \in Caches(rest) /\ DOMAIN d.conversations = DOMAIN c.conversations \ S
    BY <1>3, <1>4, RemovedTogether
<1>6. Len(d.list) <= Len(c.list) /\ Len(d.list) \in Nat /\ Len(c.list) \in Nat
    BY <1>5, FewerListed, CacheTypes
<1>7. Become(d)
    BY <1>2, <1>4
<1>8. Entries' \in Caches(rest)
    BY <1>5, <1>7, Becomes
<1>9. Len(conversationList') <= MaxConversations
  <2>1. conversationList' = d.list
      BY <1>7 DEF Become
  <2>2. Len(c.list) <= MaxConversations
      BY <1>3 DEF CacheInv
  <2>3. QED  BY <1>6, <2>1, <2>2, CacheAssumption
<1>10. memoryLimit' \in Limits /\ evictionPolicy' = evictionPolicy /\ UNCHANGED toolVars
    BY DEF configVars, CacheInv
<1>11. QED  BY <1>1, <1>8, <1>9, <1>10, ToolsApart

\* A step that moves an entry to the front and changes what is recorded of it.
LEMMA StepTouches ==
    ASSUME CacheInv, NEW id \in DOMAIN conversations, conversationList' = MoveToFront(conversationList, id),
           DOMAIN conversations' = DOMAIN conversations,
           \A x \in DOMAIN conversations : conversations'[x] \in CacheEntry,
           conversations' \in [DOMAIN conversations -> CacheEntry],
           currentMemory' = TotalSize(conversations') + TotalSize(toolExecutions),
           UNCHANGED <<toolVars, configVars>>
    PROVE  CacheInv'
<1>1. PICK rest \in Nat : rest = TotalSize(toolExecutions)
    BY EntriesKept
<1>2. /\ Distinct(conversationList, ConvIds) /\ ToSet(conversationList) = DOMAIN conversations
      /\ DOMAIN conversations \subseteq ConvIds /\ IsFiniteSet(DOMAIN conversations)
    BY EntriesKept DEF Sized
<1>3. Distinct(conversationList', ConvIds) /\ ToSet(conversationList') = DOMAIN conversations
    BY <1>2, MovedToFront
<1>4. Len(conversationList') = Len(conversationList)
  <2>1. PICK l : l = conversationList'
      OBVIOUS
  <2>2. PICK k : k = conversationList
      OBVIOUS
  <2>3. Cardinality(ToSet(l)) = Len(l) /\ Cardinality(ToSet(k)) = Len(k)
      BY <1>2, <1>3, <2>1, <2>2, DistinctCount
  <2>4. QED  BY <1>2, <1>3, <2>1, <2>2, <2>3
<1>5. TotalSize(conversations') \in Nat
  <2>1. PICK f : f = conversations'
      OBVIOUS
  <2>2. Sized(f)
      BY <1>2, <2>1, CacheAssumption DEF Sized, CacheEntry
  <2>3. TotalSize(f) \in Nat
      BY <2>2, SizeAdds DEF TotalSize
  <2>4. QED  BY <2>1, <2>3
<1>6. currentMemory' \in Int /\ currentMemory' = TotalSize(conversations') + rest
    BY <1>1, <1>5
<1>7. Entries' \in Caches(rest)
    BY <1>2, <1>3, <1>6, EntriesAfter
<1>8. Len(conversationList') <= MaxConversations
    BY <1>4 DEF CacheInv
<1>9. memoryLimit' \in Limits /\ evictionPolicy' = evictionPolicy /\ UNCHANGED toolVars
    BY DEF configVars, CacheInv
<1>10. QED  BY <1>1, <1>7, <1>8, <1>9, ToolsApart

LEMMA GetHitKeeps ==
    ASSUME CacheInv, NEW id \in ConvIds, GetHit(id)
    PROVE  CacheInv'
<1> USE DEF GetHit
<1>1. /\ Sized(conversations) /\ conversations \in [DOMAIN conversations -> CacheEntry]
      /\ currentMemory = TotalSize(conversations) + TotalSize(toolExecutions)
    BY EntriesKept
<1>2. PICK f, g : f = conversations /\ g = conversations'
    OBVIOUS
<1>3. g = [f EXCEPT ![id].AccessCount = @ + 1] /\ id \in DOMAIN f /\ f[id].AccessCount < MaxAccess
    BY <1>2
<1>4. f \in [DOMAIN f -> CacheEntry]
    BY <1>1, <1>2
<1>5. /\ DOMAIN g = DOMAIN f /\ \A x \in DOMAIN f : g[x].Size = f[x].Size
      /\ g \in [DOMAIN f -> CacheEntry]
    BY <1>3, <1>4, CacheAssumption DEF CacheEntry
<1>6. TotalSize(g) = TotalSize(f)
  <2>1. Sized(f)
      BY <1>1, <1>2
  <2>2. DOMAIN g = DOMAIN f /\ \A x \in DOMAIN f : g[x].Size = f[x].Size
      BY <1>5
  <2>3. QED  BY ONLY <2>1, <2>2, SameSizes
<1>7. UNCHANGED <<toolVars, configVars>> /\ currentMemory' = currentMemory
    OBVIOUS
<1>8. QED  BY <1>1, <1>2, <1>3, <1>5, <1>6, <1>7, StepTouches

LEMMA PutExistingKeeps ==
    ASSUME CacheInv, NEW id \in ConvIds, NEW size \in Sizes, PutExisting(id, size)
    PROVE  CacheInv'
<1> USE DEF PutExisting
<1>1. conversations \in [DOMAIN conversations -> CacheEntry]
    BY EntriesKept
<1>2. PICK f, g : f = conversations /\ g = conversations'
    OBVIOUS
<1>3. g = [f EXCEPT ![id].Size = size] /\ id \in DOMAIN f
    BY <1>2
<1>4. DOMAIN g = DOMAIN f /\ g \in [DOMAIN f -> CacheEntry]
    BY <1>1, <1>2, <1>3 DEF CacheEntry
<1>5. currentMemory' = TotalSize(conversations') + TotalSize(toolExecutions)
    BY DEF UpdateMemoryUsage, toolVars
<1>6. UNCHANGED <<toolVars, configVars>>
    OBVIOUS
<1>7. QED  BY <1>2, <1>3, <1>4, <1>5, <1>6, StepTouches

LEMMA ExpireKeeps ==
    ASSUME CacheInv, NEW id \in ConvIds, Expire(id)
    PROVE  CacheInv'
<1> USE DEF Expire
<1>1. /\ Sized(conversations) /\ conversations \in [DOMAIN conversations -> CacheEntry]
      /\ Distinct(conversationList, ConvIds) /\ ToSet(conversationList) = DOMAIN conversations
      /\ DOMAIN conversations \subseteq ConvIds
      /\ currentMemory = TotalSize(conversations) + TotalSize(toolExecutions)
      /\ currentMemory \in Int
    BY EntriesKept
<1>2. PICK f, g : f = conversations /\ g = conversations'
    OBVIOUS
<1>3. g = [f EXCEPT ![id].expired = TRUE] /\ id \in DOMAIN f
    BY <1>2
<1>4. f \in [DOMAIN f -> CacheEntry]
    BY <1>1, <1>2
<1>5. /\ DOMAIN g = DOMAIN f /\ \A x \in DOMAIN f : g[x].Size = f[x].Size
      /\ g \in [DOMAIN f -> CacheEntry]
    BY <1>3, <1>4 DEF CacheEntry
<1>6. TotalSize(g) = TotalSize(f)
  <2>1. Sized(f)
      BY <1>1, <1>2
  <2>2. DOMAIN g = DOMAIN f /\ \A x \in DOMAIN f : g[x].Size = f[x].Size
      BY <1>5
  <2>3. QED  BY ONLY <2>1, <2>2, SameSizes
<1>7. conversationList' = conversationList /\ currentMemory' = currentMemory
    OBVIOUS
<1>8. Entries' \in Caches(TotalSize(toolExecutions))
    BY <1>1, <1>2, <1>5, <1>6, <1>7, EntriesAfter
<1>9. Len(conversationList') <= MaxConversations
    BY <1>7 DEF CacheInv
<1>10. memoryLimit' \in Limits /\ evictionPolicy' = evictionPolicy /\ UNCHANGED toolVars
    BY DEF configVars, CacheInv
<1>11. QED  BY <1>8, <1>9, <1>10, ToolsApart

LEMMA RemovalKeeps ==
    ASSUME CacheInv, NEW id \in ConvIds, GetExpired(id) \/ RemoveConversation(id)
    PROVE  CacheInv'
<1>1. id \in DOMAIN conversations
    BY EntriesFields DEF GetExpired, RemoveConversation, Expired
<1>2. {id} \in SUBSET DOMAIN conversations
    BY <1>1
<1>3. Become(RemoveAll(Entries, {id})) /\ UNCHANGED <<toolVars, configVars>>
    BY DEF GetExpired, RemoveConversation
<1>4. QED  BY <1>2, <1>3, StepRemoves

LEMMA MemoryMonitorKeeps ==
    ASSUME CacheInv, MemoryMonitor
    PROVE  CacheInv'
<1>1. Distinct(conversationList, ConvIds) /\ ToSet(conversationList) = DOMAIN conversations
    BY EntriesKept
<1>2. MaxConversations \div 2 \in Nat
    BY CacheAssumption
<1>3. PICK S : S = Oldest(conversationList, MaxConversations \div 2)
    OBVIOUS
<1>4. S \in SUBSET DOMAIN conversations
    BY <1>1, <1>2, <1>3, OldestGone
<1>5. Become(RemoveAll(Entries, S)) /\ UNCHANGED <<toolVars, configVars>>
    BY <1>3, EntriesFields DEF MemoryMonitor, EvictDownTo
<1>6. QED  BY <1>4, <1>5, StepRemoves

LEMMA CleanupKeeps ==
    ASSUME CacheInv, Cleanup
    PROVE  CacheInv'
<1>1. PICK rest \in Nat : rest = TotalSize(toolExecutions)
    BY EntriesKept
<1>2. PICK c \in Caches(rest) : c = Entries
    BY <1>1 DEF CacheInv
<1>3. c.conversations = conversations /\ c.list = conversationList
    BY <1>2, EntriesFields
<1>4. PICK S \in SUBSET DOMAIN c.conversations : S = Expired(c)
    BY DEF Expired
<1>5. PICK d : d = RemoveAll(c, S)
    OBVIOUS
<1>6. d \in Caches(rest) /\ DOMAIN d.conversations = DOMAIN c.conversations \ S
    BY <1>5, RemovedTogether
<1>7. Len(d.list) <= Len(c.list) /\ Len(d.list) \in Nat /\ Len(c.list) \in Nat
    BY <1>6, FewerListed, CacheTypes
<1>8. conversations' = d.conversations /\ conversationList' = d.list
    BY <1>2, <1>4, <1>5 DEF Cleanup
<1>9. /\ d.conversations \in [DOMAIN d.conversations -> CacheEntry]
      /\ DOMAIN d.conversations \subseteq ConvIds
      /\ Distinct(d.list, ConvIds) /\ ToSet(d.list) = DOMAIN d.conversations
      /\ TotalSize(d.conversations) \in Nat
    BY <1>6, CacheTypes
<1>10. UNCHANGED <<toolVars, configVars>>
    BY DEF Cleanup
<1>11. currentMemory' = TotalSize(conversations') + rest
    BY <1>1, <1>10 DEF Cleanup, UpdateMemoryUsage, toolVars
<1>12. currentMemory' \in Int
    BY <1>8, <1>9, <1>11
<1>13. Entries' \in Caches(rest)
    BY <1>8, <1>9, <1>11, <1>12, EntriesAfter
<1>14. Len(conversationList') <= MaxConversations
    BY <1>3, <1>7, <1>8, CacheAssumption DEF CacheInv
<1>15. memoryLimit' \in Limits /\ evictionPolicy' = evictionPolicy /\ UNCHANGED toolVars
    BY <1>10 DEF configVars, CacheInv
<1>16. QED  BY <1>1, <1>13, <1>14, <1>15, ToolsApart

\* What PutNew evicts from.
Put(id, size) ==
    [conversations |-> With(conversations, id, [Size |-> size, AccessCount |-> 1, expired |-> FALSE]),
     list |-> <<id>> \o conversationList,
     memory |-> currentMemory + size]

WithNew(p, id) ==
    /\ p \in Caches(TotalSize(toolExecutions))
    /\ DOMAIN p.conversations = DOMAIN conversations \cup {id}
    /\ \A x \in DOMAIN conversations : p.conversations[x] = conversations[x]
    /\ Len(p.list) = Len(conversationList) + 1

LEMMA PutTypes ==
    ASSUME CacheInv, NEW id \in ConvIds, id \notin DOMAIN conversations, NEW size \in Sizes,
           NEW p, p = Put(id, size)
    PROVE  WithNew(p, id)
<1>1. /\ Sized(conversations) /\ conversations \in [DOMAIN conversations -> CacheEntry]
      /\ Distinct(conversationList, ConvIds) /\ ToSet(conversationList) = DOMAIN conversations
      /\ DOMAIN conversations \subseteq ConvIds
      /\ currentMemory = TotalSize(conversations) + TotalSize(toolExecutions)
      /\ currentMemory \in Int /\ TotalSize(conversations) \in Nat /\ TotalSize(toolExecutions) \in Nat
    BY EntriesKept
<1>2. PICK e : e = [Size |-> size, AccessCount |-> 1, expired |-> FALSE]
    OBVIOUS
<1>3. e \in CacheEntry /\ e.Size = size /\ e.Size \in Nat /\ e.expired = FALSE
    BY <1>2, CacheAssumption DEF CacheEntry
<1>4. PICK f : f = With(conversations, id, e)
    OBVIOUS
<1>5. /\ DOMAIN f = DOMAIN conversations \cup {id} /\ f[id] = e
      /\ \A x \in DOMAIN conversations : f[x] = conversations[x]
      /\ TotalSize(f) = TotalSize(conversations) + e.Size
  <2>1. PICK g : g = conversations
      OBVIOUS
  <2>2. Sized(g) /\ id \notin DOMAIN g /\ e.Size \in Nat /\ f = With(g, id, e)
      BY <1>1, <1>3, <1>4, <2>1
  <2>3. /\ DOMAIN f = DOMAIN g \cup {id} /\ f[id] = e /\ \A x \in DOMAIN g : f[x] = g[x]
        /\ TotalSize(f) = TotalSize(g) + e.Size
    <3>1. Grown(g, id, e, f)
        BY ONLY <2>2, WithSizes
    <3>2. QED  BY <3>1 DEF Grown
  <2>4. QED  BY <2>1, <2>3
<1>6. f \in [DOMAIN f -> CacheEntry]
  <2>1. f = [x \in DOMAIN f |-> f[x]]
      BY <1>4 DEF With
  <2>2. \A x \in DOMAIN f : f[x] \in CacheEntry
      BY <1>1, <1>3, <1>5
  <2>3. QED  BY <2>1, <2>2
<1>7. PICK l : l = <<id>> \o conversationList
    OBVIOUS
<1>8. Distinct(l, ConvIds) /\ ToSet(l) = DOMAIN f
    BY <1>1, <1>5, <1>7, PrependedIds
<1>9. Len(l) = Len(conversationList) + 1
    BY <1>1, <1>7 DEF Distinct
<1>10. PICK m : m = currentMemory + size
    OBVIOUS
<1>11. m \in Int /\ m = TotalSize(f) + TotalSize(toolExecutions)
    BY <1>1, <1>3, <1>5, <1>10
<1>12. p = [conversations |-> f, list |-> l, memory |-> m]
    BY <1>2, <1>4, <1>7, <1>10 DEF Put
<1>13. p \in Caches(TotalSize(toolExecutions))
  <2>1. PICK rest : rest = TotalSize(toolExecutions)
      OBVIOUS
  <2>2. DOMAIN f \subseteq ConvIds /\ m = TotalSize(f) + rest /\ m \in Int
      BY <1>1, <1>5, <1>11, <2>1
  <2>3. [conversations |-> f, list |-> l, memory |-> m] \in Caches(rest)
      BY ONLY <1>6, <1>8, <2>2, CachesAre
  <2>4. QED  BY <1>12, <2>1, <2>3
<1>14. p.conversations = f /\ p.list = l
    BY <1>12
<1>15. QED  BY <1>5, <1>9, <1>13, <1>14 DEF WithNew

\* What eviction under pressure from c leaves.
Freed(c, limit) ==
    /\ Entries' \in Caches(TotalSize(toolExecutions))
    /\ Evicting(c, Entries', limit)
    /\ Done(Entries', limit)

LEMMA EvictionFrees ==
    ASSUME CacheInv, NEW c \in Caches(TotalSize(toolExecutions)), NEW limit \in Limits,
           NEW d \in EvictIfNecessary(c, limit), Become(d)
    PROVE  Freed(c, limit)
<1>1. PICK rest \in Nat : rest = TotalSize(toolExecutions)
    BY EntriesKept
<1>2. c \in Caches(rest) /\ limit \in Nat /\ Policies
    BY <1>1, CacheAssumption DEF CacheInv
<1>3. d \in Caches(rest) /\ Evicting(c, d, limit) /\ Done(d, limit)
    BY <1>2, NecessaryEvicted
<1>4. Entries' = d
    BY <1>3, Becomes
<1>5. QED  BY <1>1, <1>3, <1>4 DEF Freed

LEMMA PutNewFrees ==
    ASSUME CacheInv, NEW id \in ConvIds, NEW size \in Sizes, PutNew(id, size)
    PROVE  Freed(Put(id, size), memoryLimit)
<1>1. id \notin DOMAIN conversations
    BY DEF PutNew
<1>2. PICK p : p = Put(id, size)
    OBVIOUS
<1>3. \E d \in EvictIfNecessary(p, memoryLimit) : Become(d)
    BY <1>2 DEF PutNew, Put
<1>4. p \in Caches(TotalSize(toolExecutions))
    BY <1>1, <1>2, PutTypes DEF WithNew
<1>5. memoryLimit \in Limits
    BY DEF CacheInv
<1>6. Freed(p, memoryLimit)
    BY <1>3, <1>4, <1>5, EvictionFrees
<1>7. QED  BY <1>2, <1>6

LEMMA SetMemoryLimitFrees ==
    ASSUME CacheInv, NEW limit \in Limits, SetMemoryLimit(limit)
    PROVE  Freed(Entries, limit) /\ memoryLimit' = limit
<1>1. PICK c : c = Entries
    OBVIOUS
<1>2. c \in Caches(TotalSize(toolExecutions))
    BY <1>1 DEF CacheInv
<1>3. \E d \in EvictIfNecessary(c, limit) : Become(d)
    BY <1>1 DEF SetMemoryLimit
<1>4. Freed(c, limit)
    BY <1>2, <1>3, EvictionFrees
<1>5. QED  BY <1>1, <1>4 DEF SetMemoryLimit

LEMMA PressureKeeps ==
    ASSUME CacheInv, NEW c, NEW limit, Freed(c, limit), UNCHANGED toolVars,
           memoryLimit' \in Limits, evictionPolicy' = evictionPolicy
    PROVE  CacheInv'
<1>1. Entries' \in Caches(TotalSize(toolExecutions))
    BY DEF Freed
<1>2. PICK d : d = Entries'
    OBVIOUS
<1>3. Len(d.list) <= MaxConversations
    BY <1>2 DEF Freed, Done
<1>4. d.list = conversationList'
    BY <1>2 DEF Entries
<1>5. QED  BY <1>1, <1>3, <1>4, ToolsApart

LEMMA PutNewKeeps ==
    ASSUME CacheInv, NEW id \in ConvIds, NEW size \in Sizes, PutNew(id, size)
    PROVE  CacheInv'
<1>1. Freed(Put(id, size), memoryLimit)
    BY PutNewFrees
<1>2. UNCHANGED toolVars /\ memoryLimit' \in Limits /\ evictionPolicy' = evictionPolicy
    BY DEF PutNew, configVars, CacheInv
<1>3. QED  BY <1>1, <1>2, PressureKeeps

LEMMA SetMemoryLimitKeeps ==
    ASSUME CacheInv, NEW limit \in Limits, SetMemoryLimit(limit)
    PROVE  CacheInv'
<1>1. Freed(Entries, limit)
    BY SetMemoryLimitFrees
<1>2. UNCHANGED toolVars /\ memoryLimit' \in Limits /\ evictionPolicy' = evictionPolicy
    BY DEF SetMemoryLimit
<1>3. QED  BY <1>1, <1>2, PressureKeeps

LEMMA ToolSizes == ToolsKept => TotalSize(toolExecutions) \in Nat
    BY ToolTypes

\* The invariant after a step that leaves the conversations alone.
LEMMA ConversationsApart ==
    ASSUME CacheInv, UNCHANGED <<conversationVars, configVars>>, ToolsKept',
           currentMemory' = TotalSize(conversations) + TotalSize(toolExecutions')
    PROVE  CacheInv'
<1>1. /\ conversations \in [DOMAIN conversations -> CacheEntry]
      /\ DOMAIN conversations \subseteq ConvIds
      /\ Distinct(conversationList, ConvIds) /\ ToSet(conversationList) = DOMAIN conversations
      /\ TotalSize(conversations) \in Nat
    BY EntriesKept
<1>2. conversations' = conversations /\ conversationList' = conversationList
    BY DEF conversationVars
<1>3. TotalSize(toolExecutions') \in Nat
  <2>1. (TotalSize(toolExecutions) \in Nat)'
      BY ToolSizes, PTL
  <2>2. QED  BY <2>1
<1>4. PICK rest \in Nat : rest = TotalSize(toolExecutions')
    BY <1>3
<1>5. currentMemory' \in Int /\ currentMemory' = TotalSize(conversations') + rest
    BY <1>1, <1>2, <1>4
<1>6. Entries' \in Caches(rest)
    BY <1>1, <1>2, <1>5, EntriesAfter
<1>7. Len(conversationList') <= MaxConversations /\ memoryLimit' \in Limits /\ Policies'
    BY <1>2 DEF CacheInv, configVars, Policies
<1>8. QED  BY <1>4, <1>6, <1>7 DEF CacheInv

LEMMA PutToolExistingKeeps ==
    ASSUME CacheInv, NEW id \in ToolIds, PutToolExisting(id)
    PROVE  CacheInv'
<1>1. ToolsKept
    BY DEF CacheInv
<1>2. /\ Distinct(toolList, ToolIds) /\ ToSet(toolList) = DOMAIN toolExecutions
      /\ id \in ToSet(toolList)
    BY <1>1 DEF ToolsKept, PutToolExisting
<1>3. toolList' = MoveToFront(toolList, id) /\ toolExecutions' = toolExecutions
    BY DEF PutToolExisting
<1>4. Distinct(toolList', ToolIds) /\ ToSet(toolList') = DOMAIN toolExecutions
    BY <1>2, <1>3, MovedToFront
<1>5. Len(toolList') = Len(toolList)
  <2>1. PICK l, k : l = toolList' /\ k = toolList
      OBVIOUS
  <2>2. Cardinality(ToSet(l)) = Len(l) /\ Cardinality(ToSet(k)) = Len(k)
      BY <1>2, <1>4, <2>1, DistinctCount
  <2>3. QED  BY <1>2, <1>4, <2>1, <2>2
<1>6. ToolsKept'
    BY <1>1, <1>3, <1>4, <1>5 DEF ToolsKept
<1>7. currentMemory' = TotalSize(conversations) + TotalSize(toolExecutions')
    BY <1>3, EntriesKept DEF PutToolExisting
<1>8. UNCHANGED <<conversationVars, configVars>>
    BY DEF PutToolExisting
<1>9. QED  BY <1>6, <1>7, <1>8, ConversationsApart

LEMMA PutToolNewKeeps ==
    ASSUME CacheInv, NEW id \in ToolIds, NEW size \in Sizes, PutToolNew(id, size)
    PROVE  CacheInv'
<1>1. ToolsKept
    BY DEF CacheInv
<1>2. /\ toolExecutions \in [DOMAIN toolExecutions -> ToolCacheEntry]
      /\ DOMAIN toolExecutions \subseteq ToolIds
      /\ Sized(toolExecutions) /\ TotalSize(toolExecutions) \in Nat
      /\ Distinct(toolList, ToolIds) /\ ToSet(toolList) = DOMAIN toolExecutions
    BY <1>1, ToolTypes DEF ToolsKept
<1>3. PICK f, e : f = toolExecutions /\ e = [Size |-> size]
    OBVIOUS
<1>4. e \in ToolCacheEntry /\ e.Size = size /\ e.Size \in Nat
    BY <1>3, CacheAssumption DEF ToolCacheEntry
<1>5. PICK put : put = With(f, id, e)
    OBVIOUS
<1>6. Sized(f) /\ id \notin DOMAIN f
    BY <1>2, <1>3 DEF PutToolNew
<1>7. Grown(f, id, e, put)
    BY <1>4, <1>5, <1>6, WithSizes
<1>8. /\ DOMAIN put = DOMAIN f \cup {id} /\ put[id] = e
      /\ \A x \in DOMAIN f : put[x] = f[x]
      /\ Sized(put) /\ TotalSize(put) = TotalSize(f) + e.Size
    BY <1>7 DEF Grown
<1>9. PICK list : list = <<id>> \o toolList
    OBVIOUS
<1>10. Distinct(list, ToolIds) /\ ToSet(list) = DOMAIN put
    BY <1>2, <1>3, <1>6, <1>8, <1>9, PrependedIds
<1>11. PICK S : S = Oldest(list, MaxToolExecutions)
    OBVIOUS
<1>12. S \in SUBSET DOMAIN put /\ Len(Unlisted(list, S)) <= MaxToolExecutions
    BY <1>10, <1>11, CacheAssumption, OldestGone
<1>13. PICK g : g = Without(put, S)
    OBVIOUS
<1>14. /\ DOMAIN g = DOMAIN put \ S /\ \A x \in DOMAIN put \ S : g[x] = put[x]
       /\ TotalSize(put) = TotalSize(g) + SizeOf(put, S)
       /\ SizeOf(put, S) \in Nat /\ TotalSize(g) \in Nat
  <2>1. Shrunk(put, S, g)
      BY <1>8, <1>12, <1>13, WithoutSizes
  <2>2. QED  BY <2>1 DEF Shrunk
<1>15. /\ toolExecutions' = g /\ toolList' = Unlisted(list, S)
       /\ currentMemory' = currentMemory + size - SizeOf(put, S)
       /\ UNCHANGED <<conversationVars, configVars>>
    BY <1>3, <1>5, <1>9, <1>11, <1>13 DEF PutToolNew
<1>16. ToolsKept'
  <2>1. Distinct(toolList', ToolIds) /\ ToSet(toolList') = DOMAIN toolExecutions'
      BY <1>10, <1>14, <1>15, UnlistedIds
  <2>2. toolExecutions' \in PartialTools
    <3>1. g = [x \in DOMAIN g |-> g[x]]
        BY <1>13 DEF Without, Restrict
    <3>2. \A x \in DOMAIN g : g[x] \in ToolCacheEntry
        BY <1>2, <1>3, <1>4, <1>8, <1>14
    <3>3. DOMAIN g \subseteq ToolIds
        BY <1>2, <1>3, <1>8, <1>14
    <3>4. g \in [DOMAIN g -> ToolCacheEntry]
        BY <3>1, <3>2
    <3>5. QED  BY <1>15, <3>3, <3>4 DEF PartialTools
  <2>3. Len(toolList') <= MaxToolExecutions
      BY <1>12, <1>15
  <2>4. QED  BY <2>1, <2>2, <2>3 DEF ToolsKept
<1>17. currentMemory' = TotalSize(conversations) + TotalSize(toolExecutions')
  <2>1. /\ currentMemory = TotalSize(conversations) + TotalSize(f)
        /\ TotalSize(conversations) \in Nat /\ TotalSize(f) \in Nat /\ size \in Nat
      BY <1>2, <1>3, <1>4, EntriesKept
  <2>2. QED  BY <1>4, <1>8, <1>14, <1>15, <2>1
<1>18. QED  BY <1>15, <1>16, <1>17, ConversationsApart

LEMMA EmptyCache ==
    /\ Empty \in PartialEntries /\ Empty \in PartialTools /\ DOMAIN Empty = {}
    /\ TotalSize(Empty) = 0
    /\ Distinct(<<>>, ConvIds) /\ Distinct(<<>>, ToolIds) /\ ToSet(<<>>) = {} /\ Len(<<>>) = 0
<1>1. DOMAIN Empty = {} /\ Empty \in [{} -> CacheEntry] /\ Empty \in [{} -> ToolCacheEntry]
    BY DEF Empty
<1>2. Empty \in PartialEntries /\ Empty \in PartialTools
    BY <1>1 DEF PartialEntries, PartialTools
<1>3. Sized(Empty)
    BY <1>1, FS_EmptySet DEF Sized
<1>4. TotalSize(Empty) = 0
    BY <1>1, <1>3, SizeAdds DEF TotalSize
<1>5. Distinct(<<>>, ConvIds) /\ Distinct(<<>>, ToolIds) /\ ToSet(<<>>) = {} /\ Len(<<>>) = 0
    BY DEF Distinct, IsInjective, ToSet
<1>6. QED  BY <1>1, <1>2, <1>4, <1>5

Cleared ==
    /\ conversations = Empty /\ conversationList = <<>>
    /\ toolExecutions = Empty /\ toolList = <<>>
    /\ currentMemory = 0 /\ memoryLimit \in Limits /\ Policies

LEMMA ClearedKeeps == Cleared => CacheInv
<1> SUFFICES ASSUME Cleared PROVE CacheInv
    OBVIOUS
<1> USE DEF Cleared
<1>1. Entries \in Caches(0)
  <2>1. Entries = [conversations |-> Empty, list |-> <<>>, memory |-> 0]
      BY DEF Entries
  <2>2. [conversations |-> Empty, list |-> <<>>, memory |-> 0] \in Caches(0)
    <3>1. PICK f, l, m : f = Empty /\ l = <<>> /\ m = 0
        OBVIOUS
    <3>2. f \in [DOMAIN f -> CacheEntry] /\ DOMAIN f \subseteq ConvIds
        BY <3>1, EmptyCache DEF Empty
    <3>3. Distinct(l, ConvIds) /\ ToSet(l) = DOMAIN f /\ m \in Int /\ m = TotalSize(f) + 0
        BY <3>1, EmptyCache
    <3>4. [conversations |-> f, list |-> l, memory |-> m] \in Caches(0)
        BY ONLY <3>2, <3>3, CachesAre
    <3>5. QED  BY <3>1, <3>4
  <2>3. QED  BY <2>1, <2>2
<1>2. ToolsKept
    BY EmptyCache, CacheAssumption DEF ToolsKept
<1>3. TotalSize(toolExecutions) = 0 /\ Len(conversationList) <= MaxConversations
    BY EmptyCache, CacheAssumption
<1>4. QED  BY <1>1, <1>2, <1>3 DEF CacheInv

LEMMA ClearKeeps ==
    ASSUME CacheInv, Clear
    PROVE  CacheInv'
<1>1. Cleared'
    BY DEF Clear, CacheInv, configVars, Policies, Cleared
<1>2. QED  BY <1>1, ClearedKeeps, PTL

-----------------------------------------------------------------------------
LEMMA CacheInvStep == CacheInv /\ [CacheNext]_cacheVars => CacheInv'
<1> SUFFICES ASSUME CacheInv, [CacheNext]_cacheVars PROVE CacheInv'
    OBVIOUS
<1>1. ASSUME NEW id \in ConvIds, GetHit(id) PROVE CacheInv'
    BY <1>1, GetHitKeeps
<1>2. ASSUME NEW id \in ConvIds, GetExpired(id) \/ RemoveConversation(id) PROVE CacheInv'
    BY <1>2, RemovalKeeps
<1>3. ASSUME NEW id \in ConvIds, Expire(id) PROVE CacheInv'
    BY <1>3, ExpireKeeps
<1>4. ASSUME NEW id \in ConvIds, NEW size \in Sizes, PutExisting(id, size) PROVE CacheInv'
    BY <1>4, PutExistingKeeps
<1>5. ASSUME NEW id \in ConvIds, NEW size \in Sizes, PutNew(id, size) PROVE CacheInv'
    BY <1>5, PutNewKeeps
<1>6. ASSUME NEW id \in ToolIds, PutToolExisting(id) PROVE CacheInv'
    BY <1>6, PutToolExistingKeeps
<1>7. ASSUME NEW id \in ToolIds, NEW size \in Sizes, PutToolNew(id, size) PROVE CacheInv'
    BY <1>7, PutToolNewKeeps
<1>8. ASSUME NEW limit \in Limits, SetMemoryLimit(limit) PROVE CacheInv'
    BY <1>8, SetMemoryLimitKeeps
<1>9. CASE Clear
    BY <1>9, ClearKeeps
<1>10. CASE Cleanup
    BY <1>10, CleanupKeeps
<1>11. CASE MemoryMonitor
    BY <1>11, MemoryMonitorKeeps
<1>12. CASE UNCHANGED cacheVars
  <2>1. /\ Entries' = Entries /\ ToolsKept' /\ TotalSize(toolExecutions') = TotalSize(toolExecutions)
        /\ conversationList' = conversationList /\ memoryLimit' = memoryLimit
        /\ evictionPolicy' = evictionPolicy /\ UNCHANGED toolVars
      BY <1>12 DEF cacheVars, conversationVars, toolVars, configVars, Entries, ToolsKept, CacheInv
  <2>2. QED  BY <2>1, ToolsApart DEF CacheInv
<1>13. QED
    BY <1>1, <1>2, <1>3, <1>4, <1>5, <1>6, <1>7, <1>8, <1>9, <1>10, <1>11, <1>12 DEF CacheNext

LEMMA CacheInvInit == CacheInit => CacheInv
<1>1. CacheInit => Cleared
    BY DEF CacheInit, Cleared, Policies
<1>2. QED  BY <1>1, ClearedKeeps

LEMMA CacheInvAlways == CacheSpec => []CacheInv
    BY CacheInvInit, CacheInvStep, PTL DEF CacheSpec

LEMMA CacheInvImplies == CacheInv => CacheIsConsistent
<1> SUFFICES ASSUME CacheInv PROVE CacheIsConsistent
    OBVIOUS
<1>1. /\ TotalSize(toolExecutions) \in Nat
      /\ conversations \in [DOMAIN conversations -> CacheEntry]
      /\ DOMAIN conversations \subseteq ConvIds
      /\ ToSet(conversationList) = DOMAIN conversations
      /\ Cardinality(DOMAIN conversations) = Len(conversationList)
      /\ currentMemory = TotalSize(conversations) + TotalSize(toolExecutions)
      /\ TotalSize(conversations) \in Nat
    BY EntriesKept
<1>2. ToolsKept
    BY DEF CacheInv
<1>3. /\ toolExecutions \in [DOMAIN toolExecutions -> ToolCacheEntry]
      /\ DOMAIN toolExecutions \subseteq ToolIds
      /\ ToSet(toolList) = DOMAIN toolExecutions
      /\ Cardinality(DOMAIN toolExecutions) = Len(toolList)
    BY <1>2, ToolTypes DEF ToolsKept
<1>4. CacheTypeOK
    BY <1>1, <1>3 DEF CacheTypeOK, CacheInv, Policies
<1>5. ListsMatchMaps
    BY <1>1, <1>3, <1>4 DEF ListsMatchMaps, Lists
<1>6. MemoryIsAccounted
    BY <1>1 DEF MemoryIsAccounted
<1>7. CountsWithinLimits
    BY <1>1, <1>2, <1>3 DEF CountsWithinLimits, CacheInv, ToolsKept
<1>8. QED  BY <1>5, <1>6, <1>7 DEF CacheIsConsistent

\* After any sequence of Get, Put, PutTool, Remove, Clear, SetMemoryLimit, clean-ups and evictions,
\* lists, maps, counter and numbers of entries agree, whatever the sizes and the limits.
THEOREM CacheStaysConsistent == CacheSpec => []CacheIsConsistent
    BY CacheInvAlways, CacheInvImplies, PTL

-----------------------------------------------------------------------------
(***************************************************************************)
(* What goes under pressure.                                               *)
(***************************************************************************)
LEMMA StepFreesMemory ==
    ASSUME CacheInv, UnderPressure, evictionPolicy /= "ttl"
    PROVE  currentMemory' <= memoryLimit' \/ conversations' = Empty
<1>1. PICK c, limit : Freed(c, limit) /\ memoryLimit' = limit
  <2>1. CASE \E id \in ConvIds, size \in Sizes : PutNew(id, size)
    <3>1. PICK id \in ConvIds, size \in Sizes : PutNew(id, size)
        BY <2>1
    <3>2. memoryLimit' = memoryLimit
        BY <3>1 DEF PutNew, configVars
    <3>3. QED  BY <3>1, <3>2, PutNewFrees
  <2>2. CASE \E l \in Limits : SetMemoryLimit(l)
      BY <2>2, SetMemoryLimitFrees
  <2>3. QED  BY <2>1, <2>2 DEF UnderPressure
<1>2. PICK rest \in Nat : rest = TotalSize(toolExecutions)
    BY EntriesKept
<1>3. PICK d \in Caches(rest) : d = Entries'
    BY <1>1, <1>2 DEF Freed
<1>4. d.conversations = conversations' /\ d.memory = currentMemory'
    BY <1>3 DEF Entries
<1>5. d.memory <= limit \/ Len(d.list) = 0
    BY <1>1, <1>3 DEF Freed, Done
<1>6. CASE Len(d.list) = 0
  <2>1. d.conversations \in [DOMAIN d.conversations -> CacheEntry] /\ ToSet(d.list) = DOMAIN d.conversations
      BY <1>2, CacheTypes
  <2>2. d.list \in Seq(ConvIds)
      BY DEF Caches
  <2>3. ToSet(d.list) = {}
      BY <1>6, <2>2 DEF ToSet
  <2>4. d.conversations = Empty
      BY <2>1, <2>3 DEF Empty
  <2>5. QED  BY <1>4, <2>4
<1>7. QED  BY <1>1, <1>4, <1>5, <1>6

\* The cache after a step under pressure, and what it lost: e.
LEMMA PressedFields ==
    ASSUME CacheInv, NEW c, NEW limit, Freed(c, limit)
    PROVE  \E d : /\ d = Entries'
                  /\ d.conversations = conversations' /\ d.memory = currentMemory'
                  /\ Len(d.list) = Cardinality(DOMAIN conversations')
                  /\ Evicting(c, d, limit)
                  /\ Evicted(c, d) = DOMAIN c.conversations \ DOMAIN conversations'
<1>1. PICK rest \in Nat : rest = TotalSize(toolExecutions)
    BY EntriesKept
<1>2. PICK d \in Caches(rest) : d = Entries'
    BY <1>1 DEF Freed
<1>3. d.conversations = conversations' /\ d.memory = currentMemory'
    BY <1>2 DEF Entries
<1>4. Cardinality(DOMAIN d.conversations) = Len(d.list)
    BY CacheTypes
<1>5. Evicting(c, d, limit)
    BY <1>2 DEF Freed
<1>6. Evicted(c, d) = DOMAIN c.conversations \ DOMAIN conversations'
    BY <1>3 DEF Evicted
<1>7. QED  BY <1>2, <1>3, <1>4, <1>5, <1>6

NoneTooMany ==
    \E id \in Lost : \/ Cardinality(DOMAIN conversations') + 1 > MaxConversations
                     \/ currentMemory' + conversations[id].Size > memoryLimit'

LEMMA LastWasNeeded ==
    ASSUME CacheInv, NEW c, NEW limit, Freed(c, limit), memoryLimit' = limit,
           evictionPolicy = "lru", Lost /= {},
           DOMAIN c.conversations \ DOMAIN conversations' = Lost,
           \A x \in DOMAIN conversations : c.conversations[x] = conversations[x]
    PROVE  NoneTooMany
<1>1. PICK d : /\ d.memory = currentMemory'
               /\ Len(d.list) = Cardinality(DOMAIN conversations')
               /\ Evicting(c, d, limit) /\ Evicted(c, d) = Lost
    BY PressedFields
<1>2. PICK id \in Evicted(c, d) : \/ Len(d.list) + 1 > MaxConversations
                                  \/ d.memory + c.conversations[id].Size > limit
    BY <1>1 DEF Evicting, NeededTheLast
<1>3. id \in Lost /\ c.conversations[id] = conversations[id]
    BY <1>1, <1>2 DEF Lost
<1>4. QED  BY <1>1, <1>2, <1>3 DEF NoneTooMany

LEMMA StepEvictsNoMore ==
    ASSUME CacheInv, evictionPolicy = "lru", UnderPressure, Lost /= {},
           Added /= {} \/ memoryLimit' /= memoryLimit
    PROVE  NoneTooMany
<1>1. ASSUME NEW id \in ConvIds, NEW size \in Sizes, PutNew(id, size) PROVE NoneTooMany
  <2>1. PICK p : p = Put(id, size)
      OBVIOUS
  <2>2. id \notin DOMAIN conversations /\ memoryLimit' = memoryLimit
      BY <1>1 DEF PutNew, configVars
  <2>3. Freed(p, memoryLimit)
      BY <1>1, <2>1, PutNewFrees
  <2>4. /\ DOMAIN p.conversations = DOMAIN conversations \cup {id}
        /\ \A x \in DOMAIN conversations : p.conversations[x] = conversations[x]
    <3>1. WithNew(p, id)
        BY <1>1, <2>1, <2>2, PutTypes
    <3>2. QED  BY <3>1 DEF WithNew
  <2>5. DOMAIN conversations' \subseteq DOMAIN p.conversations
    <3>1. PICK d : d.conversations = conversations' /\ Evicting(p, d, memoryLimit)
        BY <2>3, PressedFields
    <3>2. QED  BY <3>1 DEF Evicting
  <2>6. id \in DOMAIN conversations'
      BY <2>2, <2>4, <2>5 DEF Added
  <2>7. DOMAIN p.conversations \ DOMAIN conversations' = Lost
      BY <2>4, <2>6 DEF Lost
  <2>8. QED  BY <2>2, <2>3, <2>4, <2>7, LastWasNeeded
<1>2. ASSUME NEW limit \in Limits, SetMemoryLimit(limit) PROVE NoneTooMany
  <2>1. Freed(Entries, limit) /\ memoryLimit' = limit
      BY <1>2, SetMemoryLimitFrees
  <2>2. PICK c : c = Entries
      OBVIOUS
  <2>3. c.conversations = conversations
      BY <2>2, EntriesFields
  <2>4. Freed(c, limit)
      BY <2>1, <2>2
  <2>5. DOMAIN c.conversations \ DOMAIN conversations' = Lost
      BY <2>3 DEF Lost
  <2>6. QED  BY <2>1, <2>3, <2>4, <2>5, LastWasNeeded
<1>3. QED  BY <1>1, <1>2 DEF UnderPressure

\* Who goes, of the entries of the cache that eviction works on.
FewestGo == \A gone \in Lost, kept \in DOMAIN conversations \ Lost :
                conversations[gone].AccessCount <= conversations[kept].AccessCount

LEMMA VictimsOfPolicy ==
    ASSUME CacheInv, NEW c, NEW limit, Freed(c, limit), Len(c.list) <= MaxConversations,
           DOMAIN conversations \subseteq DOMAIN c.conversations,
           \A x \in DOMAIN conversations : c.conversations[x] = conversations[x]
    PROVE  /\ evictionPolicy = "lfu" => FewestGo
           /\ evictionPolicy = "ttl" => Lost \subseteq Expired(Entries)
<1>1. PICK d : /\ d.conversations = conversations' /\ Evicting(c, d, limit)
               /\ Evicted(c, d) = DOMAIN c.conversations \ DOMAIN conversations'
    BY PressedFields
<1>2. Lost \subseteq Evicted(c, d) /\ DOMAIN conversations \ Lost \subseteq DOMAIN d.conversations
    BY <1>1 DEF Lost
<1>3. ASSUME evictionPolicy = "lfu" PROVE FewestGo
  <2> SUFFICES ASSUME NEW gone \in Lost, NEW kept \in DOMAIN conversations \ Lost
               PROVE  conversations[gone].AccessCount <= conversations[kept].AccessCount
      BY DEF FewestGo
  <2>1. FewestUsesGone(c, d)
      BY <1>1, <1>3 DEF Evicting
  <2>2. gone \in Evicted(c, d) /\ kept \in DOMAIN d.conversations /\ kept \in DOMAIN conversations
      BY <1>2
  <2>3. c.conversations[gone].AccessCount <= d.conversations[kept].AccessCount
      BY <1>1, <2>1, <2>2 DEF FewestUsesGone, Evicting
  <2>4. c.conversations[gone] = conversations[gone] /\ c.conversations[kept] = conversations[kept]
      BY <2>2 DEF Lost
  <2>5. d.conversations[kept] = c.conversations[kept]
      BY <1>1, <2>2 DEF Evicting
  <2>6. QED  BY <2>3, <2>4, <2>5
<1>4. ASSUME evictionPolicy = "ttl" PROVE Lost \subseteq Expired(Entries)
  <2> SUFFICES ASSUME NEW gone \in Lost PROVE gone \in Expired(Entries)
      OBVIOUS
  <2>1. gone \in Expired(c)
      BY <1>1, <1>2, <1>4 DEF Evicting
  <2>2. c.conversations[gone] = conversations[gone] /\ gone \in DOMAIN conversations
      BY DEF Lost
  <2>3. QED  BY <2>1, <2>2, EntriesFields DEF Expired
<1>5. QED  BY <1>3, <1>4

LEMMA StepFollowsPolicy ==
    ASSUME CacheInv, NEW policy, PolicyChooses(policy)
    PROVE  /\ policy = "lfu" => FewestGo
           /\ policy = "ttl" => Lost \subseteq Expired(Entries)
<1> DEFINE Goal == /\ policy = "lfu" => FewestGo
                   /\ policy = "ttl" => Lost \subseteq Expired(Entries)
<1>1. evictionPolicy = policy
    BY DEF PolicyChooses
<1>2. ASSUME NEW limit \in Limits, SetMemoryLimit(limit) PROVE Goal
  <2>1. PICK c : c = Entries
      OBVIOUS
  <2>2. Freed(c, limit)
      BY <1>2, <2>1, SetMemoryLimitFrees
  <2>3. c.conversations = conversations /\ Len(c.list) <= MaxConversations
      BY <2>1, EntriesFields DEF CacheInv
  <2>4. QED  BY <1>1, <2>2, <2>3, VictimsOfPolicy
<1>3. ASSUME NEW id \in ConvIds, NEW size \in Sizes, PutNew(id, size),
             Cardinality(DOMAIN conversations) < MaxConversations
      PROVE  Goal
  <2>1. PICK p : p = Put(id, size)
      OBVIOUS
  <2>2. id \notin DOMAIN conversations
      BY <1>3 DEF PutNew
  <2>3. Freed(p, memoryLimit)
      BY <1>3, <2>1, PutNewFrees
  <2>4. /\ DOMAIN p.conversations = DOMAIN conversations \cup {id}
        /\ \A x \in DOMAIN conversations : p.conversations[x] = conversations[x]
        /\ Len(p.list) = Len(conversationList) + 1
    <3>1. WithNew(p, id)
        BY <1>3, <2>1, <2>2, PutTypes
    <3>2. QED  BY <3>1 DEF WithNew
  <2>5. Len(p.list) <= MaxConversations
      BY <1>3, <2>4, EntriesKept, CacheAssumption
  <2>6. QED  BY <1>1, <2>3, <2>4, <2>5, VictimsOfPolicy
<1>4. QED  BY <1>2, <1>3 DEF PolicyChooses

\* evictIfNecessary frees what it has to, no more than that with lru, and what the policy names,
\* for any number of entries and any order of its loop over the map.
THEOREM CacheEvictionFollowsPolicy == CacheSpec => EvictionFollowsPolicy
<1>1. CacheInv => [UnderPressure /\ evictionPolicy # "ttl" =>
                      currentMemory' <= memoryLimit' \/ conversations' = Empty]_cacheVars
    BY StepFreesMemory
<1>2. CacheInv =>
        [/\ evictionPolicy = "lru" /\ UnderPressure
         /\ Lost # {} /\ (Added # {} \/ memoryLimit' # memoryLimit)
         => \E id \in Lost :
              \/ Cardinality(DOMAIN conversations') + 1 > MaxConversations
              \/ currentMemory' + conversations[id].Size > memoryLimit']_cacheVars
    BY StepEvictsNoMore DEF NoneTooMany
<1>3. CacheInv =>
        [/\ PolicyChooses("lfu") =>
              \A gone \in Lost, kept \in DOMAIN conversations \ Lost :
                  conversations[gone].AccessCount <= conversations[kept].AccessCount
         /\ PolicyChooses("ttl") => Lost \subseteq Expired(Entries)]_cacheVars
    BY StepFollowsPolicy DEF FewestGo
<1>4. QED  BY CacheInvAlways, <1>1, <1>2, <1>3, PTL
       DEF EvictionFollowsPolicy, PressureFreesMemory, EvictsNoMoreThanNeeded, VictimsFollowPolicy
=============================================================================
