---------------------------- MODULE SecurityAudit ----------------------------
(***************************************************************************)
(* The security auditor (internal/security/audit.go): callers put events   *)
(* into a bounded channel, a goroutine writes them to the current log file, *)
(* files are rotated when they are full and the oldest ones are removed by  *)
(* goroutines of their own.  A file's name is the second it was opened in.  *)
(***************************************************************************)
EXTENDS Naturals, FiniteSets, Sequences

CONSTANTS Users,        \* those whom events name
          NoUser,       \* the empty name
          MinLevel,     \* AuditConfig.MinLevel
          BufferSize,   \* AuditConfig.BufferSize
          MaxFileSize,  \* AuditConfig.MaxFileSize, in events
          MaxFiles,     \* AuditConfig.MaxFiles
          MaxEvents,    \* bound: events logged
          MaxFaults     \* bound: failures to open a file

ASSUME AuditAssumption ==
    /\ NoUser \notin Users
    /\ MinLevel \in {"debug", "info", "warning", "error", "critical"}
    /\ {BufferSize, MaxFileSize, MaxFiles} \subseteq Nat \ {0}
    /\ {MaxEvents, MaxFaults} \subseteq Nat

VARIABLES now,       \* the second it is
          counter,   \* eventCounter
          buffer,    \* the channel of events
          logs,      \* the log files: a later one has a higher name
          current,   \* the open file: its name, its handle and currentSize
          cleaners,  \* goroutines in cleanupOldFiles that have not listed yet
          doomed,    \* names they decided to remove
          rotator,   \* where periodicRotation is
          writing,   \* eventWriter runs
          faults,
          gone       \* ids of events dropped, failed to be written or removed

auditVars == <<counter, buffer, logs, current, cleaners, doomed, rotator, writing, faults, gone>>

(***************************************************************************)
(* Events, as the callers of the Log methods make them.  "about" is what   *)
(* the detector looks for in a message or a command.                       *)
(***************************************************************************)
Severity == [debug |-> 0, info |-> 1, warning |-> 2, error |-> 3, critical |-> 4]

AuditEvent(type, level, failed, user, about, source) ==
    [type |-> type, level |-> level, failed |-> failed, user |-> user,
     about |-> about, source |-> source]

LogAuthentication(user, success) ==
    AuditEvent("authentication", IF success THEN "info" ELSE "warning",
               ~success, user, "nothing", "authentication_system")

LogAuthorization(user, allowed) ==
    AuditEvent("authorization", IF allowed THEN "info" ELSE "warning",
               FALSE, user, "nothing", "authorization_system")

LogSecurityViolation(about) ==
    AuditEvent("security_violation", "critical", FALSE, NoUser, about, "caller")

LogToolExecution(user, success, about) ==
    AuditEvent("tool_execution", IF success THEN "info" ELSE "error",
               ~success, user, about, "tool_executor")

LogFileOperation(user, success) ==
    AuditEvent("file_operation", IF success THEN "info" ELSE "warning",
               ~success, user, "nothing", "file_system")

Calls == {LogAuthentication(u, ok) : u \in Users, ok \in BOOLEAN}
         \cup {LogAuthorization(u, ok) : u \in Users, ok \in BOOLEAN}
         \cup {LogSecurityViolation(a) : a \in {"privilege", "nothing"}}
         \cup {LogToolExecution(u, ok, a) : u \in Users, ok \in BOOLEAN,
                                            a \in {"suspicious", "nothing"}}
         \cup {LogFileOperation(u, ok) : u \in Users, ok \in BOOLEAN}

ShouldLog(level) == Severity[level] >= Severity[MinLevel]

\* An event below the level is ignored.
Loggable(event) == IF ShouldLog(event.level) THEN <<event>> ELSE <<>>

\* LogEvent for each of a sequence of events: they get an id and the time and
\* enter the channel as long as there is room.
LogEvents(events) ==
    LET Stamped(i) == [event |-> events[i], id |-> counter + i, time |-> now]
        room  == BufferSize - Len(buffer)
        queued == IF Len(events) <= room THEN Len(events) ELSE room
    IN /\ counter + Len(events) <= MaxEvents
       /\ counter' = counter + Len(events)
       /\ buffer' = buffer \o [i \in 1..queued |-> Stamped(i)]
       /\ gone' = gone \cup {counter + i : i \in queued+1..Len(events)}

LogEvent(event) ==
    /\ LogEvents(Loggable(event))
    /\ UNCHANGED <<logs, current, cleaners, doomed, rotator, writing, faults>>

(***************************************************************************)
(* Log files.                                                              *)
(***************************************************************************)
Names(files) == {f.name : f \in files}
LogFiles == Names(logs)

Ids(events) == {e.id : e \in events}
Without(files, name) == {f \in files : f.name /= name}
EmptyFile(name) == [name |-> name, events |-> {}]

\* Mutant: the new file is opened for truncation.
RotateTruncates(files, size) ==
    /\ logs' = Without(files, now) \cup {EmptyFile(now)}
    /\ current' = [name |-> now, open |-> TRUE, size |-> 0]
    /\ cleaners' = cleaners + 1
    /\ UNCHANGED faults

\* rotateLogFile on a given content of the directory: the handle is closed
\* first, so it stays closed, with its size, when no new file can be opened.
RotateLogFile(files, size) ==
    \/ /\ logs' = IF now \in Names(files) THEN files ELSE files \cup {EmptyFile(now)}
       /\ current' = [name |-> now, open |-> TRUE, size |-> 0]
       /\ cleaners' = cleaners + 1
       /\ UNCHANGED faults
    \/ /\ faults < MaxFaults
       /\ faults' = faults + 1
       /\ logs' = files
       /\ current' = [current EXCEPT !.open = FALSE, !.size = size]
       /\ UNCHANGED cleaners

WrittenTo(file, event) ==
    IF file.name = current.name THEN [file EXCEPT !.events = @ \cup {event}] ELSE file
Written(event) == {WrittenTo(f, event) : f \in logs}

AuditInit ==
    /\ now = 1
    /\ counter = 0
    /\ buffer = <<>>
    /\ logs = {EmptyFile(1)}
    /\ current = [name |-> 1, open |-> TRUE, size |-> 0]
    /\ cleaners = 1
    /\ doomed = {}
    /\ rotator = "waiting"
    /\ writing = TRUE
    /\ faults = 0
    /\ gone = {}

\* eventWriter takes an event: writeEvent, and rotation of a full file.
WriteEvent ==
    /\ writing /\ buffer /= <<>>
    /\ buffer' = Tail(buffer)
    /\ IF current.open
       THEN /\ UNCHANGED gone
            /\ IF current.size + 1 >= MaxFileSize
               THEN RotateLogFile(Written(Head(buffer)), current.size + 1)
               ELSE /\ logs' = Written(Head(buffer))
                    /\ current' = [current EXCEPT !.size = @ + 1]
                    /\ UNCHANGED <<cleaners, faults>>
       ELSE /\ gone' = gone \cup {Head(buffer).id}
            /\ UNCHANGED <<logs, current, cleaners, faults>>
    /\ UNCHANGED <<counter, doomed, rotator, writing>>

\* periodicRotation: checkAndRotate asks under the read lock ...
RotationNeeded ==
    /\ rotator = "waiting"
    /\ current.size >= MaxFileSize
    /\ rotator' = "rotating"
    /\ UNCHANGED <<counter, buffer, logs, current, cleaners, doomed, writing, faults, gone>>

\* ... and rotates under the write lock, without asking again.
CheckAndRotate ==
    /\ rotator = "rotating"
    /\ rotator' = "waiting"
    /\ RotateLogFile(logs, current.size)
    /\ UNCHANGED <<counter, buffer, doomed, writing, gone>>

NewerThan(name, names) == {n \in names : n > name}

\* A goroutine of cleanupOldFiles lists the files and chooses the oldest ones.
CleanupOldFiles ==
    /\ cleaners > 0
    /\ cleaners' = cleaners - 1
    /\ doomed' = doomed \cup {name \in LogFiles :
                               Cardinality(NewerThan(name, LogFiles)) >= MaxFiles}
    /\ UNCHANGED <<counter, buffer, logs, current, rotator, writing, faults, gone>>

\* It removes one of them.
RemoveFile ==
    \E name \in doomed :
        /\ doomed' = doomed \ {name}
        /\ logs' = Without(logs, name)
        /\ gone' = gone \cup UNION {Ids(f.events) : f \in logs \ Without(logs, name)}
        /\ UNCHANGED <<counter, buffer, current, cleaners, rotator, writing, faults>>

\* Close closes stopChan and waits: each goroutine ends at a select of its own
\* (what is left in the channel is not written), then the file is closed.
EventWriterExits ==
    /\ writing
    /\ writing' = FALSE
    /\ UNCHANGED <<counter, buffer, logs, current, cleaners, doomed, rotator, faults, gone>>

PeriodicRotationExits ==
    /\ rotator = "waiting" /\ ~writing
    /\ rotator' = "done"
    /\ UNCHANGED <<counter, buffer, logs, current, cleaners, doomed, writing, faults, gone>>

Close ==
    /\ ~writing /\ rotator = "done" /\ current.open
    /\ current' = [current EXCEPT !.open = FALSE]
    /\ UNCHANGED <<counter, buffer, logs, cleaners, doomed, rotator, writing, faults, gone>>

AuditNext ==
    \/ WriteEvent \/ RotationNeeded \/ CheckAndRotate
    \/ CleanupOldFiles \/ RemoveFile
    \/ EventWriterExits \/ PeriodicRotationExits \/ Close

-----------------------------------------------------------------------------
InBuffer == {buffer[i].id : i \in DOMAIN buffer}
InLogs == UNION {Ids(f.events) : f \in logs}

\* Whatever goroutines rotate, write and clean up at once, an event that was
\* given an id is in exactly one place: in the channel, in one log file, or
\* among those that were dropped on a full channel, failed to be written or
\* went with a removed file.
EventsConserved ==
    /\ InBuffer \cup InLogs \cup gone = 1..counter
    /\ InBuffer \cap InLogs = {} /\ (InBuffer \cup InLogs) \cap gone = {}
    /\ \A f, g \in logs : f /= g => Ids(f.events) \cap Ids(g.events) = {}

\* cleanupOldFiles works from a listing that may be old; still no file is
\* removed unless MaxFiles newer ones exist, and never the one being written.
CleanupSparesNewest ==
    /\ \A name \in doomed \cap LogFiles :
           Cardinality(NewerThan(name, LogFiles)) >= MaxFiles
    /\ current.name \in LogFiles

\* No event is lost or written twice, and no file goes before its time.
LogIsKept == EventsConserved /\ CleanupSparesNewest
=============================================================================
