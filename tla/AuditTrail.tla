------------------------------ MODULE AuditTrail ------------------------------
(***************************************************************************)
(* The audit trail of file operations (internal/tools/audit_trail.go): an   *)
(* operation is entered as pending and completed later, and every change is *)
(* flushed: the log on disk is read, merged with the entries in memory and  *)
(* written.  The file tools have one trail and the tool that cleans up has  *)
(* another one, over the same log and without a lock.                       *)
(***************************************************************************)
EXTENDS Integers, FiniteSets

CONSTANTS MaxEntries,    \* of each trail
          MaxIds,        \* bound: entries made; an identifier is a time stamp
          MaxLogFaults   \* bound: failed flushes, overlapping calls and crashes

Trails == {"files", "tool"}

ASSUME TrailAssumption ==
    MaxEntries \in [Trails -> Nat \ {0}] /\ {MaxIds, MaxLogFaults} \subseteq Nat

VARIABLES entries,      \* in the memory of the files' trail; a later one has a higher identifier
          loaded,       \* in the memory of the tool's trail
          trailLog,     \* entries in the log
          flush,        \* the call of each trail that is about to write the log
          lastId,       \* entries made
          running,      \* identifiers of the operations that have not returned
          unlogged,     \* history: entries a flush around which failed, or which the tool's
                        \* trail has written as pending, and no flush of the files' trail since
          abandoned,    \* history: entries a program that has ended left pending, or that
                        \* memory had when two calls of the files' trail overlapped
          logFaults     \* failures so far

trailVars == <<entries, loaded, trailLog, flush, lastId, running, unlogged, abandoned, logFaults>>

\* held and ends: the entries memory had or has, and the operation the call completes.
NoFlush == [pc |-> "idle", content |-> {}, held |-> {}, ends |-> 0]

TrailInit ==
    /\ entries = {} /\ loaded = {} /\ trailLog = {}
    /\ flush = [t \in Trails |-> NoFlush]
    /\ lastId = 0
    /\ running = {} /\ abandoned = {} /\ unlogged = {}
    /\ logFaults = 0

Ids(es) == {e.id : e \in es}
Pending(es) == {e \in es : e.status = "pending"}
NewerIn(es, e) == {d \in es : d.id > e.id}

\* Mutant: what the log holds replaces what is in memory.
MergeKeepsLogged(logged, es) == logged \cup {e \in es : e.id \notin Ids(logged)}

\* The entries of the log that are not in memory, and those in memory.
Merge(logged, es) == {e \in logged : e.id \notin Ids(es)} \cup es

Newest(t, es) == {e \in es : Cardinality(NewerIn(es, e)) < MaxEntries[t]}

\* A log that is being written may be read empty, as one that cannot be read counts.
ReadLog == {trailLog} \cup (IF \E t \in Trails : flush[t].pc = "write" THEN {{}} ELSE {})

\* The first half of Flush, after memory has become es.
Flush(t, es, held, ends) ==
    \E logged \in ReadLog :
        flush' = [flush EXCEPT ![t] = [pc |-> "write", content |-> Newest(t, Merge(logged, es)),
                                       held |-> held, ends |-> ends]]

\* A call of the files' trail that makes its entries es.
Changes(es, ends) ==
    /\ entries' = es
    /\ Flush("files", es, Ids(entries \cup es), ends)
    /\ UNCHANGED <<loaded, trailLog, unlogged, abandoned, logFaults>>

Returned(t) == flush[t].pc = "idle"

\* Whether it succeeded is left out: an entry is pending or has ended.
NewEntry(status) == [id |-> lastId + 1, status |-> status]

WithoutOldest(es) == {e \in es : \E d \in es : d.id < e.id}

\* One entry for an operation that has ended; memory loses its oldest entry.
LogOperation ==
    LET all == entries \cup {NewEntry("ended")}
    IN /\ Returned("files") /\ lastId < MaxIds
       /\ lastId' = lastId + 1
       /\ Changes(IF Cardinality(all) > MaxEntries["files"] THEN WithoutOldest(all) ELSE all, 0)
       /\ UNCHANGED running

\* AuditingFileExecutor enters the operation and executes it.  Memory is not limited.
StartOperation ==
    /\ Returned("files") /\ lastId < MaxIds
    /\ lastId' = lastId + 1
    /\ Changes(entries \cup {NewEntry("pending")}, 0)
    /\ running' = running \cup {lastId + 1}

Completed(e, id) == IF e.id = id THEN [e EXCEPT !.status = "ended"] ELSE e

\* It has ended, and returns after the flush; an entry that memory has lost is not
\* completed.
CompleteOperation ==
    \E id \in running :
        /\ Returned("files")
        /\ IF id \in Ids(entries)
           THEN Changes({Completed(e, id) : e \in entries}, id) /\ UNCHANGED running
           ELSE /\ running' = running \ {id}
                /\ UNCHANGED <<entries, loaded, trailLog, flush, unlogged, abandoned, logFaults>>
        /\ UNCHANGED lastId

\* NewAuditTrailExecutor makes the tool's trail, which loads the log.
NewTool ==
    /\ Returned("tool")
    /\ loaded' \in ReadLog /\ loaded' /= loaded
    /\ UNCHANGED <<entries, trailLog, flush, lastId, running, unlogged, abandoned, logFaults>>

\* The entries the tool has loaded that are before a date are removed, those of
\* operations that are running included, and the rest is flushed.  Two of these calls
\* that overlap leave in memory and in the log what one of them does.
CleanupAuditTrail ==
    \E cutoff \in 0..lastId :
        /\ Returned("tool") /\ loaded /= {}
        /\ loaded' = {e \in loaded : e.id > cutoff}
        /\ Flush("tool", loaded', {}, 0)
        /\ UNCHANGED <<entries, trailLog, lastId, running, unlogged, abandoned, logFaults>>

\* The second half of Flush: the log is written and the call returns.  If the other trail
\* writes as well, what comes out may be neither log.  A writing that fails may leave the
\* old log or lose it.
WriteLog(t) ==
    /\ flush[t].pc = "write"
    /\ flush' = [flush EXCEPT ![t] = NoFlush]
    /\ running' = running \ {flush[t].ends}
    /\ \/ /\ \/ trailLog' = flush[t].content
             \/ trailLog' = {} /\ \E u \in Trails \ {t} : flush[u].pc = "write"
          /\ unlogged' = IF t = "files" THEN unlogged \ Ids(entries)
                         ELSE unlogged \cup Ids(Pending(trailLog'))
          /\ UNCHANGED logFaults
       \/ /\ logFaults < MaxLogFaults
          /\ logFaults' = logFaults + 1
          /\ trailLog' \in {trailLog, {}}
          /\ unlogged' = unlogged \cup flush[t].held
    /\ UNCHANGED <<entries, loaded, lastId, abandoned>>

\* A call of the files' trail for a new operation before another one of it has returned,
\* a data race on the slice of entries: some may be lost, and the wrong one completed.
\* Each call writes the log, in either order.
Overlap ==
    LET all == entries \cup {NewEntry("pending")}
    IN \E kept \in SUBSET all, id \in Ids(all) :
        /\ flush["files"].pc = "write" /\ lastId < MaxIds /\ logFaults < MaxLogFaults
        /\ logFaults' = logFaults + 1
        /\ lastId' = lastId + 1
        /\ running' = running \cup {lastId + 1}
        /\ entries' = {Completed(e, id) : e \in kept}
        /\ \/ UNCHANGED flush
           \/ Flush("files", entries', flush["files"].held, flush["files"].ends)
        /\ trailLog' \in {trailLog, flush["files"].content}
        /\ abandoned' = abandoned \cup Ids(all) \cup flush["files"].held
        /\ UNCHANGED <<loaded, unlogged>>

\* The program ends, perhaps while it writes the log, and the next one may load it.
Restart ==
    /\ logFaults < MaxLogFaults
    /\ logFaults' = logFaults + 1
    /\ trailLog' \in ReadLog
    /\ entries' \in {{}, trailLog'} /\ loaded' = {}
    /\ flush' = [t \in Trails |-> NoFlush]
    /\ abandoned' = abandoned \cup Ids(Pending(trailLog'))
    /\ running' = {}
    /\ UNCHANGED <<lastId, unlogged>>

TrailNext ==
    \/ LogOperation \/ StartOperation \/ CompleteOperation
    \/ NewTool \/ CleanupAuditTrail
    \/ (\E t \in Trails : WriteLog(t)) \/ Overlap \/ Restart

-----------------------------------------------------------------------------
\* An entry the log shows as pending belongs to an operation that has not returned, or
\* that had not when its program ended: completions survive evictions from memory and
\* merges with older logs.  An entry may stay pending if no flush of its trail succeeded
\* between its end and its loss from memory, or if two calls of its trail overlapped while
\* it was in memory, and becomes pending again if the tool's trail has read it so, until
\* the next flush of its own.
EndedIsNotPending ==
    Ids(Pending(trailLog)) \subseteq running \cup abandoned \cup unlogged
=============================================================================
