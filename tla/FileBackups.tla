----------------------------- MODULE FileBackups -----------------------------
(***************************************************************************)
(* The backups of files (internal/tools/file_backup.go) and the batch       *)
(* operations that rely on them (multi_file_ops.go).  A backup is a file    *)
(* named after the sanitized path, its version and second; the manager      *)
(* lists the backups it made in memory, since the metadata it saves has no  *)
(* exported field.                                                         *)
(***************************************************************************)
EXTENDS Integers, FiniteSetsExt, Sequences

CONSTANTS Paths,          \* files
          StoredAs,       \* sanitizePath and base name: some paths may have the same
          Contents,       \* what they hold
          Empty,          \* the content of a truncated file
          Absent,         \* no such file
          MaxBackups,     \* backups kept of a file
          RetentionTime,  \* seconds a backup is kept by CleanupExpired
          RenamedTo,      \* a batch renaming or copy: the new path of every old one
          BatchFiles,     \* file lists of batch operations; an empty one does nothing
          MaxNow,         \* bound: seconds
          MaxMade,        \* bound: backups made
          MaxErrors       \* bound: failed system calls

ASSUME BackupsAssumption ==
    /\ {MaxBackups, MaxNow} \subseteq Nat \ {0} /\ {RetentionTime, MaxMade, MaxErrors} \subseteq Nat
    /\ DOMAIN StoredAs = Paths
    /\ RenamedTo \in [Paths -> Paths] /\ BatchFiles \subseteq Seq(Paths) \ {<<>>}

VARIABLES files,    \* content of every file
          disk,     \* content of every backup file
          listed,   \* metadata: the backups of each file, a newer one with a higher version;
                    \* cut, whether its file was cut short, is kept for the properties
          now,      \* the clock, in seconds
          batch,    \* the batch operation in progress
          made,     \* backups made so far
          errors    \* failures so far

backupVars == <<files, disk, listed, now, batch, made, errors>>

Keys == [name : {StoredAs[p] : p \in Paths}, version : 1..MaxMade, second : 1..MaxNow]
\* before, what the files held when the batch began, is kept for the properties.
NoBatch == [op |-> "none", pc |-> "idle", todo |-> <<>>, names |-> <<>>, backup |-> FALSE,
            before |-> [p \in Paths |-> Absent]]

BackupInit ==
    /\ files \in [Paths -> Contents \cup {Absent}]
    /\ disk = [k \in Keys |-> Absent]
    /\ listed = [p \in Paths |-> {}]
    /\ now = 1
    /\ batch = NoBatch
    /\ made = 0
    /\ errors = 0

Erring == errors < MaxErrors /\ errors' = errors + 1
KeyOf(p, b) == [name |-> StoredAs[p], version |-> b.version, second |-> b.second]

NewerOf(B, b) == {c \in B : c.version > b.version}
NewestOf(B) == {b \in B : NewerOf(B, b) = {}}

\* Mutant: versions are counted.
VersionByCount(p) == Cardinality(listed[p]) + 1

GetNextVersion(p) == IF listed[p] = {} THEN 1 ELSE Max({b.version : b \in listed[p]}) + 1

\* The file is copied and listed with its checksum, and the oldest backups above the
\* limit are deleted.  What the copy holds is not looked at again: an error of the
\* deferred closing of the compressor or the file, which cuts it short, is ignored.
Copied(p, cut) ==
    LET b    == [version |-> GetNextVersion(p), second |-> now, checksum |-> files[p],
                 cut |-> cut]
        all  == listed[p] \cup {b}
        gone == {c \in all : Cardinality(NewerOf(all, c)) >= MaxBackups}
    IN /\ files[p] /= Absent /\ made < MaxMade
       /\ made' = made + 1
       /\ listed' = [listed EXCEPT ![p] = all \ gone]
       /\ disk' = [k \in Keys |-> IF \E c \in gone : k = KeyOf(p, c) THEN Absent
                                  ELSE IF k /= KeyOf(p, b) THEN disk[k]
                                  ELSE IF cut THEN Empty ELSE files[p]]

\* CreateBackup succeeds.
CreateBackup(p) ==
    \/ Copied(p, FALSE) /\ UNCHANGED errors
    \/ Copied(p, TRUE) /\ Erring

\* CreateBackup fails: while copying, and a truncated file may stay that is not
\* listed; or when the metadata is saved, and the backup is listed all the same.
CreateBackupFails(p) ==
    /\ Erring
    /\ \/ /\ files[p] /= Absent /\ made < MaxMade
          /\ made' = made + 1
          /\ disk' \in {disk, [disk EXCEPT
                ![KeyOf(p, [version |-> GetNextVersion(p), second |-> now])] = Empty]}
          /\ UNCHANGED listed
       \/ \E cut \in BOOLEAN : Copied(p, cut)

(***************************************************************************)
(* The backup tool.                                                        *)
(***************************************************************************)
Alone == batch.pc = "idle"

Backup ==
    \E p \in Paths :
        /\ Alone
        /\ CreateBackup(p) \/ CreateBackupFails(p)
        /\ UNCHANGED <<files, now, batch>>

\* findBackup: the newest with the identifier, which is a second; the version; the
\* newest not after a time; or the newest.
FindBackup(p) ==
    LET Of(s)  == NewestOf({b \in listed[p] : b.second = s})
        Till(s) == NewestOf({b \in listed[p] : b.second <= s})
    IN (UNION {Of(s) \cup Till(s) : s \in 1..now}) \cup {b \in listed[p] : b.version \in 1..MaxMade}

\* RestoreBackup, the file as it is backed up first if the caller says so.  That may
\* evict the backup to restore, and then the file stays as it is, as it does when
\* that backup fails; it is truncated if it cannot be written.
RestoreBackup ==
    \E p \in Paths, first \in BOOLEAN :
        \E b \in FindBackup(p) :
            /\ Alone
            /\ LET saved == disk'[KeyOf(p, b)]
               IN \/ /\ IF first /\ files[p] /= Absent THEN CreateBackup(p)
                        ELSE UNCHANGED <<disk, listed, made, errors>>
                     /\ files' = [files EXCEPT ![p] = IF saved = Absent THEN @ ELSE saved]
                  \/ /\ first /\ CreateBackupFails(p)
                     /\ UNCHANGED files
                  \/ /\ IF first /\ files[p] /= Absent THEN \E cut \in BOOLEAN : Copied(p, cut)
                        ELSE UNCHANGED <<disk, listed, made>>
                     /\ files' = [files EXCEPT ![p] = Empty] /\ saved /= Absent /\ Erring
            /\ UNCHANGED <<now, batch>>

\* DeleteBackup takes the newest backup with the identifier off the list; its file
\* may fail to go.
DeleteBackup ==
    \E p \in Paths, s \in 1..now :
        \E b \in NewestOf({c \in listed[p] : c.second = s}) :
            /\ Alone
            /\ listed' = [listed EXCEPT ![p] = @ \ {b}]
            /\ \/ disk' = [disk EXCEPT ![KeyOf(p, b)] = Absent] /\ UNCHANGED errors
               \/ UNCHANGED disk /\ Erring
            /\ UNCHANGED <<files, now, batch, made>>

CleanupExpired ==
    LET Expired(b) == b.second < now - RetentionTime
    IN /\ Alone /\ \E p \in Paths : \E b \in listed[p] : Expired(b)
       /\ listed' = [p \in Paths |-> {b \in listed[p] : ~ Expired(b)}]
       /\ disk' = [k \in Keys |->
             IF \E p \in Paths : \E b \in listed[p] : k = KeyOf(p, b) /\ Expired(b)
             THEN Absent ELSE disk[k]]
       /\ UNCHANGED <<files, now, batch, made, errors>>

\* The program starts again: loadMetadata reads what saveMetadata wrote, an object
\* without fields.
LoadMetadata ==
    /\ listed /= [p \in Paths |-> {}] \/ ~ Alone
    /\ listed' = [p \in Paths |-> {}]
    /\ batch' = NoBatch
    /\ UNCHANGED <<files, disk, now, made, errors>>

BackupTick ==
    /\ now < MaxNow
    /\ now' = now + 1
    /\ UNCHANGED <<files, disk, listed, batch, made, errors>>

(***************************************************************************)
(* Batch operations.                                                       *)
(***************************************************************************)
Begin(op, pc, names, backup) ==
    /\ Alone
    /\ batch' = [op |-> op, pc |-> pc, todo |-> names, names |-> names, backup |-> backup,
                 before |-> IF backup THEN files ELSE NoBatch.before]

Advanced == [batch EXCEPT !.todo = Tail(@),
                          !.pc = IF Len(batch.todo) = 1 THEN "done" ELSE @]

BatchEdit ==
    \E names \in BatchFiles, backup \in BOOLEAN :
        /\ Begin("edit", IF backup THEN "backup" ELSE "edit", names, backup)
        /\ UNCHANGED <<files, disk, listed, now, made, errors>>

\* All files are backed up before the first is edited; one that cannot be ends the
\* operation.
BatchBackup ==
    /\ batch.op = "edit" /\ batch.pc = "backup"
    /\ \/ /\ CreateBackup(Head(batch.todo))
          /\ batch' = IF Len(batch.todo) = 1
                      THEN [batch EXCEPT !.pc = "edit", !.todo = batch.names]
                      ELSE [batch EXCEPT !.todo = Tail(@)]
       \/ /\ files[Head(batch.todo)] = Absent
          /\ batch' = [batch EXCEPT !.pc = "done"]
          /\ UNCHANGED <<disk, listed, made, errors>>
       \/ /\ CreateBackupFails(Head(batch.todo))
          /\ batch' = [batch EXCEPT !.pc = "done"]
    /\ UNCHANGED <<files, now>>

\* What an edit makes of a file, whichever of the operations it is.
Edited(p) ==
    /\ files[p] /= Absent
    /\ \E c \in Contents : files' = [files EXCEPT ![p] = c]
    /\ UNCHANGED errors

\* The next file is read, edited and written; one that cannot be is skipped, and
\* truncated if the writing failed.
EditNext ==
    LET p == Head(batch.todo)
    IN /\ batch.op = "edit" /\ batch.pc = "edit"
       /\ \/ files' = files /\ UNCHANGED errors
          \/ Edited(p)
          \/ files[p] /= Absent /\ files' = [files EXCEPT ![p] = Empty] /\ Erring
       /\ batch' = Advanced
       /\ UNCHANGED <<disk, listed, now, made>>

BatchDelete ==
    \E names \in BatchFiles, backup \in BOOLEAN :
        /\ Begin("delete", "delete", names, backup)
        /\ UNCHANGED <<files, disk, listed, now, made, errors>>

\* The next file is backed up, if the caller says so, and removed; one without its
\* backup is skipped, and one that cannot be removed stays.
DeleteNext ==
    LET p == Head(batch.todo)
    IN /\ batch.op = "delete" /\ batch.pc = "delete"
       /\ \/ /\ files[p] /= Absent
             /\ IF batch.backup THEN CreateBackup(p) ELSE UNCHANGED <<disk, listed, made, errors>>
             /\ files' \in {files, [files EXCEPT ![p] = Absent]}
          \/ /\ batch.backup /\ CreateBackupFails(p)
             /\ UNCHANGED files
          \/ files[p] = Absent /\ UNCHANGED <<files, disk, listed, made, errors>>
       /\ batch' = Advanced
       /\ UNCHANGED now

BatchRename ==
    \E names \in BatchFiles :
        /\ Begin("rename", "rename", names, FALSE)
        /\ UNCHANGED <<files, disk, listed, now, made, errors>>

\* The new path by pattern, prefix, suffix or extension.
Renamed(p) == RenamedTo[p]

\* A renaming replaces the file of the new name; there is no backup.
RenameNext ==
    LET p == Head(batch.todo)
        q == Renamed(p)
    IN /\ batch.op = "rename" /\ batch.pc = "rename"
       /\ files' = IF files[p] = Absent \/ p = q THEN files
                   ELSE [files EXCEPT ![q] = files[p], ![p] = Absent]
       /\ batch' = Advanced
       /\ UNCHANGED <<disk, listed, now, made, errors>>

BatchCopy ==
    \E names \in BatchFiles, overwrite \in BOOLEAN :
        /\ Begin(IF overwrite THEN "overwrite" ELSE "copy", "copy", names, FALSE)
        /\ UNCHANGED <<files, disk, listed, now, made, errors>>

\* A file that exists is overwritten only if the caller says so; a file that is
\* copied onto itself is truncated first.
CopyNext ==
    LET p == Head(batch.todo)
        q == RenamedTo[p]
        refused == files[q] /= Absent /\ batch.op = "copy"
    IN /\ batch.pc = "copy"
       /\ \/ /\ files' = IF refused \/ files[p] = Absent THEN files
                         ELSE [files EXCEPT ![q] = IF p = q THEN Empty ELSE files[p]]
             /\ UNCHANGED errors
          \/ ~ refused /\ files[p] /= Absent /\ files' = [files EXCEPT ![q] = Empty] /\ Erring
       /\ batch' = Advanced
       /\ UNCHANGED <<disk, listed, now, made>>

BatchEnds ==
    /\ batch.pc = "done"
    /\ batch' = NoBatch
    /\ UNCHANGED <<files, disk, listed, now, made, errors>>

BackupNext ==
    \/ Backup \/ RestoreBackup \/ DeleteBackup \/ CleanupExpired \/ LoadMetadata \/ BackupTick
    \/ BatchEdit \/ BatchBackup \/ EditNext \/ BatchDelete \/ DeleteNext
    \/ BatchRename \/ RenameNext \/ BatchCopy \/ CopyNext \/ BatchEnds

-----------------------------------------------------------------------------
\* No other path is sanitized to the same name.
HasOwnName(p) == \A q \in Paths \ {p} : StoredAs[q] /= StoredAs[p]

\* Every backup that is listed is on disk and holds the content its checksum was
\* taken of, however many were made, deleted and evicted within a second, after
\* backups that failed at each of their steps: a restore gives what was saved.  Not so
\* for a path whose name another shares, which overwrites and deletes its backups, nor
\* for a backup whose copy was cut short without an error.
ListedBackupsAreIntact ==
    \A p \in Paths : HasOwnName(p) =>
        \A b \in listed[p] : b.cut \/ disk[KeyOf(p, b)] = b.checksum

\* While a batch edit or deletion with backups runs, whatever it has changed can be
\* restored to what it was before, a file that is named twice included.
BatchChangesAreBackedUp ==
    batch.backup =>
        \A p \in Paths :
            files[p] /= batch.before[p] =>
                \E b \in listed[p] : b.checksum = batch.before[p]

\* A listed backup can be restored, and a batch changes nothing that has none.
BackupsCoverChanges == ListedBackupsAreIntact /\ BatchChangesAreBackedUp
=============================================================================
