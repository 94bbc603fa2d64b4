----------------------------- MODULE ConfigFiles -----------------------------
(***************************************************************************)
(* The files beside the configuration (internal/config): profiles and        *)
(* environments, built in or loaded from their directories, and the          *)
(* migration of a configuration file to the current version.                 *)
(***************************************************************************)
EXTENDS Integers, Sequences, FiniteSets, Functions

CONSTANTS Builtins,     \* names of built-in profiles and environments
          Names,        \* other names
          Contents,     \* configurations and overrides
          Paths,        \* configuration files to migrate
          Blank,        \* what is in a file cut by a failed write
          MaxEdits,     \* bound: operations on profiles, environments and their files
          MaxSeconds    \* bound on the time in the names of backups

ASSUME FilesAssumption == {MaxEdits, MaxSeconds} \subseteq Nat /\ Names \cap Builtins = {} /\ Blank \notin Contents

VARIABLES profiles,     \* pm.profiles: configuration of each name
          profileFiles, \* files of the directory, by name: the profile in it, or Blank
          unsaved,      \* profiles whose last write failed, or that were only imported
          environments, environmentFiles, currentEnv,
          edits,
          versioned,    \* configuration files: form, version and settings
          originals,    \* what each file held before its migration
          migration,    \* of each file, how far its migration is
          backups,      \* by version and second: contents, and whether written again
          seconds

storeVars == <<profiles, profileFiles, unsaved, environments, environmentFiles, currentEnv, edits>>
migrationVars == <<versioned, originals, migration, backups, seconds>>

\* A directory of built-in entries, and of those in the files, which come last.  A file
\* that was cut gives an entry without a name.
Loaded(files) ==
    LET named == {n \in DOMAIN files : files[n] /= Blank}
        empty == IF named = DOMAIN files THEN {} ELSE {""}
    IN [n \in Builtins \cup named \cup empty |->
           IF n \in named THEN files[n] ELSE IF n = "" THEN "zero" ELSE "builtin"]

With(f, n, v) == [m \in DOMAIN f \cup {n} |-> IF m = n THEN v ELSE f[m]]
Without(f, n) == Restrict(f, DOMAIN f \ {n})

CurrentVersion == 3
MigrationIdle == [step |-> "none"]

\* Files of the first two versions.
FirstForms(p) == {[form |-> "raw", version |-> v, settings |-> p] : v \in 1..2}

StoreInit ==
    /\ profileFiles = [n \in {} |-> Blank]
    /\ environmentFiles \in UNION {[N -> Contents] : N \in SUBSET Names}
    /\ profiles = Loaded(profileFiles) /\ environments = Loaded(environmentFiles)
    /\ unsaved = {} /\ edits = 0
    /\ currentEnv \in Builtins

MigrationInit ==
    /\ versioned \in {v \in [Paths -> UNION {FirstForms(p) : p \in Paths}] : \A p \in Paths : v[p].settings = p}
    /\ originals = versioned
    /\ migration = [p \in Paths |-> MigrationIdle]
    /\ backups = [b \in {} |-> Blank]
    /\ seconds = 0

-----------------------------------------------------------------------------
\* Profiles and environments.
Edit == edits < MaxEdits /\ edits' = edits + 1

\* SaveProfile writes nothing for a built-in one; a write that fails leaves a cut file.
SaveProfile(n, c) ==
    IF n \in Builtins THEN UNCHANGED <<profileFiles, unsaved>>
    ELSE \/ profileFiles' = With(profileFiles, n, c) /\ unsaved' = unsaved \ {n}
         \/ profileFiles' = With(profileFiles, n, Blank) /\ unsaved' = unsaved \cup {n}

CreateProfile(n, c) ==
    /\ n \notin DOMAIN profiles
    /\ profiles' = With(profiles, n, c)
    /\ SaveProfile(n, c)

\* Mutant: the profile is saved as it was.
UpdateProfileSavesOld ==
    /\ Edit
    /\ \E n \in DOMAIN profiles, c \in Contents :
          /\ profiles' = With(profiles, n, c)
          /\ SaveProfile(n, profiles[n])
    /\ UNCHANGED <<environments, environmentFiles, currentEnv>>

UpdateProfile ==
    /\ Edit
    /\ \E n \in DOMAIN profiles, c \in Contents :
          /\ profiles' = With(profiles, n, c)
          /\ SaveProfile(n, c)
    /\ UNCHANGED <<environments, environmentFiles, currentEnv>>

NewProfile ==
    /\ Edit
    /\ \E n \in Names, c \in Contents : CreateProfile(n, c)
    /\ UNCHANGED <<environments, environmentFiles, currentEnv>>

CloneProfile ==
    /\ Edit
    /\ \E source \in DOMAIN profiles, n \in Names : CreateProfile(n, profiles[source])
    /\ UNCHANGED <<environments, environmentFiles, currentEnv>>

\* The file may resist, and the profile comes back with the next start.
DeleteProfile ==
    /\ Edit
    /\ \E n \in DOMAIN profiles \ Builtins :
          /\ profiles' = Without(profiles, n)
          /\ \/ profileFiles' = Without(profileFiles, n) /\ unsaved' = unsaved \ {n}
             \/ UNCHANGED profileFiles /\ unsaved' = unsaved \cup {n}
    /\ UNCHANGED <<environments, environmentFiles, currentEnv>>

\* ImportProfile, from a file elsewhere, replaces what has the name, and saves nothing.
ImportProfile ==
    /\ Edit
    /\ \E n \in Names \cup Builtins, c \in Contents :
          /\ profiles' = With(profiles, n, c)
          /\ unsaved' = unsaved \cup {n}
    /\ UNCHANGED <<profileFiles, environments, environmentFiles, currentEnv>>

SetEnvironment ==
    /\ Edit
    /\ currentEnv' \in Builtins \ {currentEnv}
    /\ UNCHANGED <<profiles, profileFiles, unsaved, environments, environmentFiles>>

\* A built-in environment that a file has replaced is not written.
SaveEnvironmentConfig ==
    /\ Edit
    /\ \E n \in DOMAIN environments \ Builtins :
          environmentFiles' \in {With(environmentFiles, n, environments[n]), With(environmentFiles, n, Blank)}
    /\ UNCHANGED <<profiles, profileFiles, unsaved, environments, currentEnv>>

\* The program starts again: LoadProfiles, LoadEnvironmentConfigs.
Restart ==
    /\ Edit
    /\ profiles' = Loaded(profileFiles) /\ environments' = Loaded(environmentFiles)
    /\ unsaved' = {n \in DOMAIN profileFiles : profileFiles[n] = Blank}
    /\ currentEnv' \in Builtins
    /\ UNCHANGED <<profileFiles, environmentFiles>>

StoreNext ==
    \/ NewProfile \/ CloneProfile \/ UpdateProfile \/ DeleteProfile \/ ImportProfile
    \/ SetEnvironment \/ SaveEnvironmentConfig \/ Restart

-----------------------------------------------------------------------------
\* Migration of a file.  Another process may migrate another file.
DetectConfigVersion(file) == IF file = Blank THEN 1 ELSE file.version

Migrating(p, step) == migration[p].step = step

ReadConfig ==
    \E p \in Paths :
        /\ Migrating(p, "none") /\ DetectConfigVersion(versioned[p]) < CurrentVersion
        /\ migration' = [migration EXCEPT ![p] = [step |-> "backup", data |-> versioned[p]]]
        /\ UNCHANGED <<versioned, originals, backups, seconds>>

\* Mutant: the backup is taken when the file has been cut.
BackupAfterCut ==
    \E p \in Paths :
        /\ Migrating(p, "backup")
        /\ LET name == <<DetectConfigVersion(migration[p].data), seconds>>
           IN /\ backups' = With(backups, name, [contents |-> Blank, again |-> name \in DOMAIN backups])
              /\ migration' = [migration EXCEPT ![p] = [step |-> "write", data |-> @.data, backup |-> name]]
        /\ UNCHANGED <<versioned, originals, seconds>>

\* The name of a backup has the version and the second, and not the file it is of.
CreateBackup ==
    \E p \in Paths :
        /\ Migrating(p, "backup")
        /\ LET name == <<DetectConfigVersion(migration[p].data), seconds>>
           IN /\ backups' = With(backups, name, [contents |-> versioned[p], again |-> name \in DOMAIN backups])
              /\ migration' = [migration EXCEPT ![p] = [step |-> "write", data |-> @.data, backup |-> name]]
        /\ UNCHANGED <<versioned, originals, seconds>>

\* From the first version by the second, which keeps the settings; a file of the second
\* that has no version in it comes out without its own.  (The first version is embedded as a
\* whole document, migration.go:289, which the encoder may refuse: then MigrationEnds is all
\* that happens.)
Migrated(file) ==
    [form |-> "versioned", version |-> CurrentVersion,
     settings |-> IF file = Blank \/ (file.form = "raw" /\ file.version = 2) THEN "none" ELSE file.settings]

CutConfig ==
    \E p \in Paths :
        /\ Migrating(p, "write")
        /\ versioned' = [versioned EXCEPT ![p] = Blank]
        /\ migration' = [migration EXCEPT ![p].step = "rest"]
        /\ UNCHANGED <<originals, backups, seconds>>

WriteMigrated ==
    \E p \in Paths :
        /\ Migrating(p, "rest")
        /\ versioned' = [versioned EXCEPT ![p] = Migrated(migration[p].data)]
        /\ migration' = [migration EXCEPT ![p].step = "migrated"]
        /\ UNCHANGED <<originals, backups, seconds>>

\* Parsing, encoding or writing fails, or the program ends, at any step; what is then in
\* the file is migrated by the next start.
MigrationEnds ==
    \E p \in Paths :
        /\ migration[p].step \in {"backup", "write", "rest"}
        /\ migration' = [migration EXCEPT ![p] = MigrationIdle]
        /\ UNCHANGED <<versioned, originals, backups, seconds>>

\* SaveConfigToFile replaces a migrated file by one without a version, which is taken for
\* one of the second.
SaveUnversioned ==
    \E p \in Paths :
        /\ Migrating(p, "migrated")
        /\ versioned' = [versioned EXCEPT ![p] = [form |-> "raw", version |-> 2, settings |-> "saved"]]
        /\ originals' = [originals EXCEPT ![p] = versioned'[p]]
        /\ migration' = [migration EXCEPT ![p] = MigrationIdle]
        /\ UNCHANGED <<backups, seconds>>

PassSecond ==
    /\ seconds < MaxSeconds /\ seconds' = seconds + 1
    /\ UNCHANGED <<versioned, originals, migration, backups>>

MigrationNext ==
    \/ ReadConfig \/ CreateBackup \/ CutConfig \/ WriteMigrated \/ MigrationEnds \/ SaveUnversioned \/ PassSecond

-----------------------------------------------------------------------------
\* What is in memory of the profiles of users is what the next start finds, in name and
\* content, unless the last write or removal of the file failed or the profile was imported.
ProfilesMatchFiles ==
    LET own == {n \in Names : n \notin unsaved}
    IN \A n \in own : /\ n \in DOMAIN profiles <=> n \in DOMAIN profileFiles
                      /\ n \in DOMAIN profiles => profiles[n] = profileFiles[n]

\* What a file held before its migration is still in the file or in some backup, wherever
\* the migration failed or ended and however often it was begun again, unless a backup
\* was written over within its second.
OriginalIsKept ==
    \A p \in Paths :
        \/ originals[p] = versioned[p]
        \/ \E b \in DOMAIN backups :
              /\ b[1] = DetectConfigVersion(originals[p])
              /\ backups[b].contents = originals[p] \/ backups[b].again
=============================================================================
