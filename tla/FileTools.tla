------------------------------ MODULE FileTools ------------------------------
(***************************************************************************)
(* The file tools.  A call of one shares nothing with a call of another but *)
(* the files, so that each behaviour here is one of a single tool, the      *)
(* others at rest.                                                         *)
(***************************************************************************)
EXTENDS FileOps, FileBackups, FileWatch, AuditTrail, Searching, DiffPreview, FilePermissions

VARIABLE tool   \* the tool this behaviour is about

vars == <<tool, fileVars, backupVars, watchVars, trailVars, searchVars, diffVars, permissionVars>>

\* A tool at rest has one state.
Init ==
    /\ tool \in {"files", "backups", "watch", "trail", "search", "diff", "permissions"}
    /\ IF tool = "files" THEN FileInit ELSE text = NoFile /\ FileInit
    /\ IF tool = "backups" THEN BackupInit ELSE files = [p \in Paths |-> Absent] /\ BackupInit
    /\ IF tool = "watch" THEN WatchInit
       ELSE tree = {} /\ opts = [recursive |-> FALSE, filtered |-> FALSE] /\ WatchInit
    /\ TrailInit
    /\ IF tool = "search" THEN SearchInit
       ELSE /\ workspace = (CHOOSE w \in Workspaces : TRUE)
            /\ request = (CHOOSE r \in Requests : TRUE)
            /\ SearchInit
    /\ IF tool = "diff" THEN DiffInit ELSE oldLines = <<>> /\ newLines = <<>> /\ DiffInit
    /\ IF tool = "permissions" THEN PermissionsInit
       ELSE mode = (CHOOSE m \in FirstModes : TRUE) /\ PermissionsInit

Next ==
    \/ /\ tool = "files" /\ FileNext
       /\ UNCHANGED <<tool, backupVars, watchVars, trailVars, searchVars, diffVars, permissionVars>>
    \/ /\ tool = "backups" /\ BackupNext
       /\ UNCHANGED <<tool, fileVars, watchVars, trailVars, searchVars, diffVars, permissionVars>>
    \/ /\ tool = "watch" /\ WatchNext
       /\ UNCHANGED <<tool, fileVars, backupVars, trailVars, searchVars, diffVars, permissionVars>>
    \/ /\ tool = "trail" /\ TrailNext
       /\ UNCHANGED <<tool, fileVars, backupVars, watchVars, searchVars, diffVars, permissionVars>>
    \/ /\ tool = "search" /\ SearchNext
       /\ UNCHANGED <<tool, fileVars, backupVars, watchVars, trailVars, diffVars, permissionVars>>
    \/ /\ tool = "diff" /\ DiffNext
       /\ UNCHANGED <<tool, fileVars, backupVars, watchVars, trailVars, searchVars, permissionVars>>
    \/ /\ tool = "permissions" /\ PermissionsNext
       /\ UNCHANGED <<tool, fileVars, backupVars, watchVars, trailVars, searchVars, diffVars>>

Spec == Init /\ [][Next]_vars
=============================================================================
