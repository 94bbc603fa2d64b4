--------------------------- MODULE FileTools_proofs ---------------------------
(***************************************************************************)
(* Proofs about the file tools: a recursive watch follows the directories,  *)
(* a change of permissions reports what it did not change, the backups      *)
(* cover what a batch changes, a search finds what is there, a preview      *)
(* shows every change and an edit keeps the text it does not name.  No step *)
(* of one tool changes what another is about, so that each has an inductive *)
(* invariant of its own.                                                    *)
(***************************************************************************)
EXTENDS FileTools, FiniteSetTheorems, SequenceTheorems, WellFoundedInduction, TLAPS

-----------------------------------------------------------------------------
(***************************************************************************)
(* The inductive invariants.                                               *)
(***************************************************************************)

(* The watcher.                                                            *)
Change == [op : {"create", "remove"}, dir : Dirs] \cup {Overflow}
InHand == [pc : {"send", "add"}, op : {"create", "remove"}, dir : Dirs, isDir : BOOLEAN]

WatchTypes ==
    /\ tree \subseteq Dirs /\ walk \subseteq Dirs
    /\ opts \in [recursive : BOOLEAN, filtered : BOOLEAN]
    /\ queue \in Seq(Change)
    /\ loop = NoChange \/ loop \in InHand
    /\ state \in {"new", "adding", "walking", "added", "running", "stopped"}

\* What the kernel watches exists and is in the table of watches.
KernelWatches ==
    /\ kernel \subseteq {Root} \cup tree /\ kernel \subseteq watches
    /\ ~ opts.recursive => watches \subseteq {Root}
    /\ state = "running" /\ Root \notin watches => kernel = {}

\* Until the watcher is running, the root is watched as soon as anything is.
RootFirst ==
    /\ state = "new" => kernel = {}
    /\ state \in {"new", "adding", "walking", "added"} => loop = NoChange
    /\ state \in {"adding", "walking", "added"} => Root \in watches
    /\ state \in {"adding", "walking"} => opts.recursive
    /\ state = "added" => ~ opts.recursive
    /\ state \in {"adding", "walking", "added", "running"} /\ Root \in watches => Root \in kernel

\* The watcher has still to hear of d or is about to watch it.
Expected(d) ==
    \/ state = "adding"
    \/ state = "walking" /\ d \in walk
    \/ \E i \in 1..Len(queue) : queue[i] = [op |-> "create", dir |-> d]
    \/ loop \in InHand /\ loop.op = "create" /\ loop.dir = d /\ loop.isDir

\* A directory that is not watched is expected, or it was missed.
NoneForgotten ==
    opts.recursive /\ Root \in watches /\ state \in {"adding", "walking", "running"} =>
        \A d \in tree \ (kernel \cup missed) : Expected(d)

\* A change in hand is passed on before it is added, and only a new directory is added.
AddsDirectories == loop \in InHand /\ loop.pc = "add" => loop.op = "create" /\ loop.isDir

WatchInv == WatchTypes /\ KernelWatches /\ RootFirst /\ NoneForgotten /\ AddsDirectories

(* The permissions tool.                                                   *)
ChangeState == [pc : {"idle", "walk"}, operation : {"get", "set", "add", "remove"},
                bits : SUBSET Bits, root : Nat, at : Nat, recursive : BOOLEAN,
                changed : SUBSET Entries, errors : SUBSET Entries, cancelled : BOOLEAN]

\* An entry that the walk has been at.
Dealt(e) == e \in change.changed \/ ({e} \cup Ancestors[e]) \cap change.errors /= {}

\* The walk is below the path of the call, and everything before it is dealt with.
WalkedInOrder ==
    change.pc = "walk" =>
        /\ change.root \in Entries /\ change.at \in Below(change.root)
        /\ change.recursive => \A e \in Below(change.root) : e < change.at => Dealt(e)

PermissionsInv == change \in ChangeState /\ WalkedInOrder /\ UnchangedIsReported

(* The backups and the batch operations.                                   *)
Held == Contents \cup {Empty, Absent}
BatchState == [op : {"none", "edit", "delete", "rename", "copy", "overwrite"},
               pc : {"idle", "done", "backup", "edit", "delete", "rename", "copy"},
               todo : Seq(Paths), names : Seq(Paths), backup : BOOLEAN, before : [Paths -> Held]]

BackupTypes ==
    /\ files \in [Paths -> Held] /\ disk \in [Keys -> Held]
    /\ DOMAIN listed = Paths
    /\ made \in Nat /\ made <= MaxMade /\ now \in 1..MaxNow
    /\ batch \in BatchState

\* The versions listed of a file differ, so that its backups lie in different files.
VersionsDiffer ==
    \A p \in Paths :
        /\ \A b \in listed[p] : b.version \in 1..made /\ b.second \in 1..MaxNow
        /\ \A b, c \in listed[p] : b.version = c.version => b = c

\* How far a batch is, by the operation it is.
BatchFits ==
    /\ batch.pc \notin {"idle", "done"} => batch.todo /= <<>> /\ batch.names /= <<>>
    /\ batch.pc = "idle" => ~ batch.backup
    /\ batch.pc = "backup" => batch.backup
    /\ batch.backup => \/ batch.op = "edit" /\ batch.pc \in {"backup", "edit", "done"}
                       \/ batch.op = "delete" /\ batch.pc \in {"delete", "done"}

Covered(p) == \E b \in listed[p] : b.checksum = batch.before[p]

\* An edit changes nothing before all its files have backups, and then only those.
EditsAreCovered ==
    /\ batch.pc = "backup" =>
           /\ files = batch.before
           /\ \A i \in 1..Len(batch.names) :
                  \/ Covered(batch.names[i])
                  \/ \E j \in 1..Len(batch.todo) : batch.todo[j] = batch.names[i]
    /\ batch.backup /\ batch.pc = "edit" =>
           \A j \in 1..Len(batch.todo) : Covered(batch.todo[j])

\* A deletion that makes backups leaves a file as it was or removes it.
DeletesOrKeeps ==
    batch.backup /\ batch.op = "delete" => \A p \in Paths : files[p] \in {batch.before[p], Absent}

BackupInv == /\ BackupTypes /\ VersionsDiffer /\ BatchFits /\ EditsAreCovered /\ DeletesOrKeeps
             /\ BackupsCoverChanges

(* The audit trail: an entry has an identifier of its own.                 *)
Identified(es, last) ==
    /\ IsFiniteSet(es)
    /\ \A e \in es : e = [id |-> e.id, status |-> e.status] /\ e.id \in 1..last
    /\ \A d, e \in es : d.id = e.id => d = e

\* What memory has as pending was not completed, and is not being so.
PendingInMemory ==
    \A e \in entries : e.status = "pending" =>
        e.id \in (running \ {flush["files"].ends}) \cup abandoned

\* What the log has as pending and was not lost is in memory, to be completed there, or
\* was until a call that has not written the log yet.
PendingInLog ==
    \A e \in trailLog : e.status = "pending" =>
        \/ e.id \in abandoned \cup unlogged
        \/ e.id \in running /\ e.id \in Ids(entries) \cup flush["files"].held

\* The same of what a call is about to write, without what its end makes untrue.
PendingInFlush ==
    \A e \in flush["files"].content : e.status = "pending" =>
        \/ e.id \in abandoned
        \/ e.id \in unlogged /\ e.id \notin Ids(entries)
        \/ e.id \in running \ {flush["files"].ends} /\ e.id \in Ids(entries)

FlushTypes ==
    /\ DOMAIN flush = Trails
    /\ \A t \in Trails : flush[t].pc = "idle" => flush[t] = NoFlush
    /\ flush["files"].ends \in {0} \cup flush["files"].held
    /\ flush["tool"].ends = 0 /\ flush["tool"].held = {}

AllIdentified ==
    /\ lastId \in Nat
    /\ Identified(entries, lastId) /\ Identified(loaded, lastId) /\ Identified(trailLog, lastId)
    /\ \A t \in Trails : Identified(flush[t].content, lastId)

TrailInv == FlushTypes /\ AllIdentified /\ PendingInMemory /\ PendingInLog /\ PendingInFlush

(* Writing a file: where the text before the call is, step by step.        *)
TextIsSomewhere ==
    /\ second \in 1..MaxSecond /\ DOMAIN bak = 1..MaxSecond
    /\ DOMAIN call = DOMAIN Idle /\ call.stamp \in 0..MaxSecond
    /\ call.pc = "backup" => call.stamp = 0 /\ text = call.before
    /\ call.pc \in {"open", "write", "restore", "sync"} /\ call.stamp > 0 =>
           bak[call.stamp] = call.before

-----------------------------------------------------------------------------
\* A step is one of a part or leaves what the part is about as it is.
LEMMA StepOfATool ==
    ASSUME [Next]_vars
    PROVE  /\ WatchNext \/ UNCHANGED watchVars
           /\ BackupNext \/ UNCHANGED backupVars
           /\ PermissionsNext \/ UNCHANGED permissionVars
           /\ TrailNext \/ UNCHANGED trailVars
           /\ FileNext \/ UNCHANGED fileVars
BY DEF Next, vars

-----------------------------------------------------------------------------
(***************************************************************************)
(* The watcher.                                                            *)
(***************************************************************************)
\* The kernel adds a change to its queue, so that what is expected stays expected.
LEMMA TellsInOrder ==
    ASSUME queue \in Seq(Change), NEW op \in {"create", "remove"}, NEW d \in Dirs
    PROVE  /\ Told(op, d) \in Seq(Change)
           /\ \A i \in 1..Len(queue) : i \in 1..Len(Told(op, d)) /\ Told(op, d)[i] = queue[i]
           /\ Root \in kernel /\ HasRoom =>
                  /\ Len(Told(op, d)) \in 1..Len(Told(op, d))
                  /\ Told(op, d)[Len(Told(op, d))] = [op |-> op, dir |-> d]
<1>1. [op |-> op, dir |-> d] \in Change /\ Overflow \in Change
    BY DEF Change
<1>2. PICK c \in Change : c = IF HasRoom THEN [op |-> op, dir |-> d] ELSE Overflow
    BY <1>1
<1>3. Told(op, d) = IF Root \notin kernel \/ Len(queue) > KernelQueue THEN queue
                   ELSE Append(queue, c)
    BY <1>2 DEF Told
<1>4. HasRoom => ~ (Len(queue) > KernelQueue)
    BY WatchAssumption DEF HasRoom
<1>5. CASE Root \notin kernel \/ Len(queue) > KernelQueue
    BY <1>3, <1>4, <1>5
<1>6. CASE ~ (Root \notin kernel \/ Len(queue) > KernelQueue)
  <2>1. Told(op, d) = Append(queue, c) /\ (HasRoom => c = [op |-> op, dir |-> d])
      BY <1>2, <1>3, <1>6
  <2>2. QED  BY <2>1
<1>7. QED  BY <1>5, <1>6

\* What is expected stays so as long as nothing is read, walked or added.
LEMMA StillExpected ==
    ASSUME NEW d, Expected(d), UNCHANGED <<state, walk, loop>>,
           \A i \in 1..Len(queue) : i \in 1..Len(queue') /\ queue'[i] = queue[i]
    PROVE  Expected(d)'
BY DEF Expected

\* What watcher.Add does not add is missed.
LEMMA AddsOrMisses ==
    ASSUME NEW found, Add(found)
    PROVE  \E added \in SUBSET found :
               /\ kernel' = kernel \cup added /\ watches' = watches \cup added
               /\ missed' = (missed \ added) \cup (found \ added)
<1>1. CASE kernel' = kernel \cup found /\ watches' = watches \cup found /\ missed' = missed \ found
  <2>1. missed' = (missed \ found) \cup (found \ found)
      BY <1>1
  <2>2. QED  BY <1>1, <2>1
<1>2. CASE missed' = missed \cup found /\ UNCHANGED <<kernel, watches>>
  <2>1. /\ kernel' = kernel \cup {} /\ watches' = watches \cup {}
        /\ missed' = (missed \ {}) \cup (found \ {})
      BY <1>2
  <2>2. {} \in SUBSET found
      OBVIOUS
  <2>3. QED  BY <2>1, <2>2
<1>3. QED  BY <1>1, <1>2 DEF Add

LEMMA WatchStep == WatchInv /\ [Next]_vars => WatchInv'
<1> SUFFICES ASSUME WatchInv, [Next]_vars PROVE WatchInv'
    OBVIOUS
<1> USE DEF WatchInv
<1>a. /\ Root \notin Dirs /\ tree \subseteq Dirs /\ queue \in Seq(Change)
    BY WatchAssumption DEF WatchTypes
<1>b. NoChange \notin InHand /\ NoChange.pc = "select"
    BY DEF NoChange, InHand
<1>1. CASE UNCHANGED watchVars
    BY <1>1 DEF watchVars, WatchTypes, KernelWatches, RootFirst, NoneForgotten, Expected, AddsDirectories
<1>2. CASE MakeDir
  <2>1. PICK d \in Dirs \ tree :
            /\ tree' = tree \cup {d} /\ queue' = Told("create", d)
            /\ missed' = IF HasRoom THEN missed \ {d} ELSE missed \cup {d}
            /\ UNCHANGED <<kernel, opts, watches, walk, state, loop>>
      BY <1>2 DEF MakeDir
  <2>2. /\ queue' \in Seq(Change)
        /\ \A i \in 1..Len(queue) : i \in 1..Len(queue') /\ queue'[i] = queue[i]
        /\ Root \in kernel /\ HasRoom => \E i \in 1..Len(queue') : queue'[i] = [op |-> "create", dir |-> d]
      BY <1>a, <2>1, TellsInOrder
  <2>3. WatchTypes' /\ KernelWatches' /\ RootFirst' /\ AddsDirectories'
      BY <2>1, <2>2 DEF WatchTypes, KernelWatches, RootFirst, AddsDirectories
  <2>4. ASSUME opts.recursive, Root \in watches, state \in {"adding", "walking", "running"},
               NEW c \in tree' \ (kernel' \cup missed')
        PROVE  Expected(c)'
    <3>1. CASE c = d
        BY <2>1, <2>2, <2>4, <3>1 DEF RootFirst, Expected
    <3>2. CASE c /= d
        BY <2>1, <2>2, <2>4, <3>2, StillExpected DEF NoneForgotten
    <3>3. QED  BY <3>1, <3>2
  <2>5. NoneForgotten'
      BY <2>1, <2>4 DEF NoneForgotten
  <2>6. QED  BY <2>3, <2>5
<1>3. CASE RemoveDir
  <2>1. PICK d \in tree :
            /\ tree' = tree \ {d} /\ kernel' = kernel \ {d} /\ queue' = Told("remove", d)
            /\ UNCHANGED <<missed, opts, watches, walk, state, loop>>
      BY <1>3 DEF RemoveDir
  <2>2. /\ queue' \in Seq(Change)
        /\ \A i \in 1..Len(queue) : i \in 1..Len(queue') /\ queue'[i] = queue[i]
      BY <1>a, <2>1, TellsInOrder
  <2>3. WatchTypes' /\ KernelWatches' /\ RootFirst' /\ AddsDirectories'
      BY <1>a, <2>1, <2>2 DEF WatchTypes, KernelWatches, RootFirst, AddsDirectories
  <2>4. NoneForgotten'
      BY <2>1, <2>2, StillExpected DEF NoneForgotten
  <2>5. QED  BY <2>3, <2>4
<1>4. CASE AddWatch
    BY <1>4 DEF AddWatch, WatchTypes, KernelWatches, RootFirst, NoneForgotten, Expected, AddsDirectories
<1>5. CASE ListSubdirectories
    BY <1>5 DEF ListSubdirectories, WatchTypes, KernelWatches, RootFirst, NoneForgotten, Expected,
                AddsDirectories
<1>6. CASE AddRecursiveWatch
  <2>1. PICK d \in walk :
            /\ state = "walking" /\ walk' = walk \ {d}
            /\ Add({d} \cap tree)
            /\ UNCHANGED <<tree, queue, opts, state, loop>>
      BY <1>6 DEF AddRecursiveWatch
  <2>a. PICK added \in SUBSET ({d} \cap tree) :
            /\ kernel' = kernel \cup added /\ watches' = watches \cup added
            /\ missed' = (missed \ added) \cup (({d} \cap tree) \ added)
      BY <2>1, AddsOrMisses
  <2>2. WatchTypes' /\ KernelWatches' /\ RootFirst' /\ AddsDirectories'
      BY <1>a, <2>1, <2>a DEF WatchTypes, KernelWatches, RootFirst, AddsDirectories
  <2>3. NoneForgotten'
      BY <2>1, <2>a DEF NoneForgotten, RootFirst, Expected
  <2>4. QED  BY <2>2, <2>3
<1>7. CASE Start
  <2>1. /\ state = "added" \/ (state = "walking" /\ walk = {})
        /\ state' = "running"
        /\ UNCHANGED <<tree, kernel, queue, missed, opts, watches, walk, loop>>
      BY <1>7 DEF Start
  <2>2. WatchTypes' /\ KernelWatches' /\ RootFirst' /\ AddsDirectories'
      BY <2>1 DEF WatchTypes, KernelWatches, RootFirst, AddsDirectories
  <2>3. NoneForgotten'
      BY <2>1 DEF NoneForgotten, RootFirst, Expected
  <2>4. QED  BY <2>2, <2>3
<1>8. CASE StopWatch
    BY <1>8 DEF StopWatch, WatchTypes, KernelWatches, RootFirst, NoneForgotten, AddsDirectories
<1>9. CASE RemoveWatch
  <2>1. /\ state = "running" /\ Root \notin watches' /\ kernel' = {} /\ watches' \subseteq watches
        /\ UNCHANGED <<tree, queue, missed, opts, walk, state, loop>>
      BY <1>9 DEF RemoveWatch, KernelWatches
  <2>2. QED
      BY <2>1 DEF WatchTypes, KernelWatches, RootFirst, NoneForgotten, AddsDirectories
<1>10. CASE ReadChange
  <2>1. /\ state = "running" /\ loop.pc = "select" /\ queue /= <<>>
        /\ loop' = [pc |-> "send", op |-> Head(queue).op, dir |-> Head(queue).dir,
                    isDir |-> Head(queue).dir \in tree]
        /\ queue' = Tail(queue)
        /\ UNCHANGED <<tree, kernel, missed, opts, watches, walk, state>> /\ Head(queue) /= Overflow
      BY <1>10 DEF ReadChange
  <2>2. Head(queue) \in Change /\ queue' \in Seq(Change) /\ Head(queue) = queue[1]
      BY <1>a, <2>1
  <2>3. loop \notin InHand
      BY <2>1 DEF InHand
  <2>4. /\ loop' \in InHand /\ loop'.pc = "send" /\ loop'.op = Head(queue).op
        /\ loop'.dir = Head(queue).dir /\ (loop'.dir \in tree => loop'.isDir)
    <3> DEFINE isDir == Head(queue).dir \in tree
    <3>1. isDir \in BOOLEAN /\ loop'.isDir = isDir
        BY <2>1
    <3>2. loop' = [pc |-> "send", op |-> Head(queue).op, dir |-> Head(queue).dir, isDir |-> isDir]
        BY <2>1
    <3> HIDE DEF isDir
    <3>3. loop' \in InHand /\ loop'.dir = Head(queue).dir
        BY <2>1, <2>2, <3>1, <3>2 DEF InHand, Change
    <3>4. QED  BY <3>1, <3>2, <3>3 DEF isDir
  <2>5. WatchTypes' /\ KernelWatches' /\ RootFirst' /\ AddsDirectories'
      BY <2>1, <2>2, <2>4 DEF WatchTypes, KernelWatches, RootFirst, AddsDirectories
  <2>6. ASSUME opts.recursive, Root \in watches, NEW d \in tree \ (kernel \cup missed)
        PROVE  Expected(d)'
    <3>1. PICK i \in 1..Len(queue) : queue[i] = [op |-> "create", dir |-> d]
        BY <2>1, <2>3, <2>6 DEF NoneForgotten, Expected
    <3>2. CASE i = 1
        BY <2>2, <2>4, <3>1, <3>2 DEF Expected
    <3>3. CASE i > 1
      <4>1. i - 1 \in 1..Len(queue') /\ queue'[i - 1] = queue[i]
          BY <1>a, <2>1, <3>1, <3>3
      <4>2. QED  BY <3>1, <4>1 DEF Expected
    <3>4. QED  BY <3>1, <3>2, <3>3
  <2>7. NoneForgotten'
      BY <2>1, <2>6 DEF NoneForgotten
  <2>8. QED  BY <2>5, <2>7
<1>11. CASE SendEvent
  <2>1. /\ loop.pc = "send"
        /\ loop' = IF loop.op = "create" /\ loop.isDir THEN [loop EXCEPT !.pc = "add"] ELSE NoChange
        /\ UNCHANGED <<tree, kernel, queue, missed, opts, watches, walk, state>>
      BY <1>11 DEF SendEvent
  <2>2. loop \in InHand
      BY <1>b, <2>1 DEF WatchTypes
  <2>3. CASE loop.op = "create" /\ loop.isDir
    <3>1. /\ loop' \in InHand /\ loop'.pc = "add" /\ loop'.op = "create" /\ loop'.isDir
          /\ loop'.dir = loop.dir
        BY <2>1, <2>2, <2>3 DEF InHand
    <3>2. QED
        BY <1>b, <2>1, <2>2, <3>1 DEF WatchTypes, KernelWatches, RootFirst, NoneForgotten, Expected,
                                AddsDirectories
  <2>4. CASE ~ (loop.op = "create" /\ loop.isDir)
    <3>1. loop' = NoChange /\ loop' \notin InHand
        BY <1>b, <2>1, <2>4
    <3>2. QED
        BY <2>1, <2>4, <3>1 DEF WatchTypes, KernelWatches, RootFirst, NoneForgotten, Expected,
                                AddsDirectories
  <2>5. QED  BY <2>3, <2>4
<1>12. CASE HandleNewDirectory
  <2> DEFINE found == IF state = "running" /\ opts.recursive /\ Root \in watches
                      THEN {loop.dir} \cap tree ELSE {}
  <2>0. /\ loop.pc = "add" /\ loop' = NoChange /\ Add(found)
        /\ UNCHANGED <<tree, queue, opts, walk, state>>
      BY <1>12 DEF HandleNewDirectory
  <2>1. PICK added \in SUBSET found :
            /\ loop.pc = "add" /\ loop' = NoChange
            /\ kernel' = kernel \cup added /\ watches' = watches \cup added
            /\ missed' = (missed \ added) \cup (found \ added)
            /\ UNCHANGED <<tree, queue, opts, walk, state>>
      BY <2>0, AddsOrMisses
  <2>2. loop \in InHand
      BY <1>b, <2>1 DEF WatchTypes
  <2>3. loop' \notin InHand
      BY <1>b, <2>1
  <2>4. state = "running" => (Root \in watches' <=> Root \in watches)
      BY <1>a, <2>1
  <2>5. WatchTypes' /\ KernelWatches' /\ RootFirst' /\ AddsDirectories'
      BY <1>a, <2>1, <2>3 DEF WatchTypes, KernelWatches, RootFirst, AddsDirectories
  <2>6. ASSUME opts.recursive, Root \in watches', state \in {"adding", "walking", "running"},
               NEW d \in tree \ (kernel' \cup missed')
        PROVE  Expected(d)'
    <3>1. state = "running"
        BY <1>b, <2>2, <2>6 DEF RootFirst
    <3>2. Root \in watches /\ d /= loop.dir /\ d \notin kernel \cup missed
        BY <2>1, <2>4, <2>6, <3>1
    <3>3. Expected(d)
        BY <2>6, <3>2 DEF NoneForgotten
    <3>4. QED  BY <2>1, <3>1, <3>2, <3>3 DEF Expected
  <2>7. NoneForgotten'
      BY <2>1, <2>6 DEF NoneForgotten
  <2>8. QED  BY <2>5, <2>7
<1>13. CASE ProcessEvent \/ GetEvents \/ CollectEvent \/ CollectTimesOut
  <2>1. UNCHANGED <<tree, kernel, queue, missed, opts, watches, walk, state, loop>>
      BY <1>13 DEF ProcessEvent, GetEvents, CollectEvent, CollectTimesOut
  <2>2. QED
      BY <2>1 DEF WatchTypes, KernelWatches, RootFirst, NoneForgotten, Expected, AddsDirectories
<1>14. CASE HandleError
  <2>1. /\ queue /= <<>> /\ Head(queue) = Overflow /\ queue' = Tail(queue)
        /\ UNCHANGED <<tree, kernel, missed, opts, watches, walk, state, loop>>
      BY <1>14 DEF HandleError
  <2>2. /\ queue' \in Seq(Change)
        /\ \A i \in 1..Len(queue) : queue[i] = Overflow \/ (/\ i - 1 \in 1..Len(queue')
                                                          /\ queue'[i - 1] = queue[i])
      BY <1>a, <2>1
  <2>3. WatchTypes' /\ KernelWatches' /\ RootFirst' /\ AddsDirectories'
      BY <2>1, <2>2 DEF WatchTypes, KernelWatches, RootFirst, AddsDirectories
  <2>4. ASSUME NEW d, Expected(d) PROVE Expected(d)'
    <3>1. [op |-> "create", dir |-> d] /= Overflow
        BY DEF Overflow
    <3>2. QED  BY <2>1, <2>2, <2>4, <3>1 DEF Expected
  <2>5. NoneForgotten'
      BY <2>1, <2>4 DEF NoneForgotten
  <2>6. QED  BY <2>3, <2>5
<1>15. WatchNext \/ UNCHANGED watchVars
    BY StepOfATool
<1>16. QED
    BY <1>1, <1>2, <1>3, <1>4, <1>5, <1>6, <1>7, <1>8, <1>9, <1>10, <1>11, <1>12, <1>13, <1>14,
       <1>15
    DEF WatchNext

(* When the watcher has read every change, the kernel watches the directories that exist   *)
(* and no others, but for those that could not be watched or whose making was lost         *)
(* (file_watch.go: AddWatch, addRecursiveWatches, handleNewDirectory and RemoveWatch, while *)
(* directories come and go).                                                               *)
THEOREM WatchersFollowDirectories == Spec => []WatchesFollowTheTree
<1>1. Init => WatchInv
  <2> SUFFICES ASSUME Init PROVE WatchInv
      OBVIOUS
  <2>1. WatchInit
      BY Zenon DEF Init
  <2>2. NoChange \notin InHand
      BY DEF NoChange, InHand
  <2>3. QED
      BY <2>1, <2>2 DEF WatchInit, WatchInv, WatchTypes, KernelWatches, RootFirst, NoneForgotten,
                        AddsDirectories
<1>2. WatchInv /\ [Next]_vars => WatchInv'
    BY WatchStep
<1>3. WatchInv => WatchesFollowTheTree
  <2> SUFFICES ASSUME WatchInv, state = "running", queue = <<>>, loop.pc = "select"
               PROVE  IF Root \notin watches THEN kernel = {}
                      ELSE /\ kernel \subseteq {Root} \cup (IF opts.recursive THEN tree ELSE {})
                           /\ {Root} \cup (IF opts.recursive THEN tree \ missed ELSE {})
                                  \subseteq kernel
      BY DEF WatchesFollowTheTree
  <2>1. \A d : ~ Expected(d)
      BY DEF Expected, InHand
  <2>2. QED
      BY <2>1 DEF WatchInv, KernelWatches, RootFirst, NoneForgotten
<1>4. QED  BY <1>1, <1>2, <1>3, PTL DEF Spec

-----------------------------------------------------------------------------
(***************************************************************************)
(* The permissions.                                                        *)
(***************************************************************************)
\* A set of natural numbers has a least element: induction, in the form the provers take.
LEMMA LeastNatural ==
    ASSUME NEW T \in SUBSET Nat, T /= {}
    PROVE  \E m \in T : \A k \in T : m <= k
<1>1. IsWellFoundedOn(OpToRel(<, Nat), Nat)
    BY NatLessThanWellFounded
<1>2. PICK m \in T : \A k \in T : <<k, m>> \notin OpToRel(<, Nat)
    BY <1>1, WFMin
<1>3. ASSUME NEW k \in T, k < m PROVE FALSE
  <2>1. <<k, m>> \in Nat \X Nat /\ <<k, m>>[1] < <<k, m>>[2]
      BY <1>3
  <2>2. QED  BY <1>2, <2>1 DEF OpToRel
<1>4. QED  BY <1>3

\* The recursion over the parents is well-founded, so that it defines the ancestors.
LEMMA AncestorsDefined ==
    /\ \A e \in Entries : /\ ParentOf[e] \in {0} \cup Entries /\ ParentOf[e] < e
                          /\ Ancestors[e] = Ancestors[ParentOf[e]]
                                 \cup (IF ParentOf[e] = 0 THEN {} ELSE {ParentOf[e]})
    /\ Ancestors[0] = {}
<1> DEFINE N == Cardinality(Entries)
           F(g, e) == IF e = 0 THEN {}
                      ELSE g[ParentOf[e]] \cup (IF ParentOf[e] = 0 THEN {} ELSE {ParentOf[e]})
           Defined(n) == \E g : g = [e \in 0..n |-> F(g, e)]
           Lacking == {n \in 0..N : ~ Defined(n)}
<1>1. N \in Nat /\ Entries = 1..N
    BY FS_CardinalityType, PermissionsAssumption
<1> HIDE DEF N
<1>2. \A e \in Entries : ParentOf[e] \in 0..(e - 1)
  <2>1. ASSUME NEW e \in Entries PROVE ParentOf[e] \in 0..(e - 1)
    <3>1. ParentOf[e] \in {0} \cup Entries /\ ParentOf[e] < e
        BY PermissionsAssumption
    <3>2. QED  BY <1>1, <3>1
  <2>2. QED  BY <2>1
<1> HIDE DEF Defined
<1>3. Lacking = {}
  <2> SUFFICES ASSUME Lacking /= {} PROVE FALSE
      OBVIOUS
  <2>1. PICK m \in Lacking : \A k \in Lacking : m <= k
    <3>1. Lacking \in SUBSET Nat
        BY <1>1
    <3> HIDE DEF Lacking
    <3>2. QED  BY <3>1, LeastNatural
  <2>2. m \in 0..N /\ ~ Defined(m) /\ \A k \in 0..N : k < m => Defined(k)
      BY <1>1, <2>1
  <2>3. CASE m = 0
    <3>1. [e \in 0..0 |-> {}] = [e \in 0..0 |-> F([x \in 0..0 |-> {}], e)]
        OBVIOUS
    <3>2. QED  BY <2>2, <2>3, <3>1 DEF Defined
  <2>4. CASE m > 0
    <3>1. m \in Nat /\ m - 1 \in 0..N /\ m - 1 < m
        BY <1>1, <2>2, <2>4
    <3>2. PICK g : g = [e \in 0..(m - 1) |-> F(g, e)]
        BY <2>2, <3>1 DEF Defined
    <3> DEFINE f == [e \in 0..m |-> IF e = m THEN F(g, m) ELSE g[e]]
    <3>3. ASSUME NEW e \in 0..m PROVE f[e] = F(f, e)
      <4>1. CASE e = 0
          BY <2>4, <3>1, <3>2, <4>1
      <4>2. CASE e > 0
        <5>1. e \in Entries /\ ParentOf[e] \in 0..(m - 1)
            BY <1>1, <1>2, <2>2, <3>1, <4>2
        <5>2. f[ParentOf[e]] = g[ParentOf[e]]
            BY <3>1, <5>1
        <5>3. f[e] = F(g, e)
          <6>1. CASE e = m
              BY <6>1
          <6>2. CASE e /= m
            <7>1. e \in 0..(m - 1) /\ f[e] = g[e]
                BY <3>1, <6>2
            <7>2. QED  BY <3>2, <7>1
          <6>3. QED  BY <6>1, <6>2
        <5>4. QED  BY <4>2, <5>2, <5>3
      <4>3. QED  BY <3>1, <4>1, <4>2
    <3>4. f = [e \in 0..m |-> F(f, e)]
        BY <3>3
    <3> HIDE DEF f
    <3>5. QED  BY <2>2, <3>4 DEF Defined
  <2>5. QED  BY <1>1, <2>2, <2>3, <2>4
<1>4. Defined(N)
    BY <1>1, <1>3
<1>5. {0} \cup Entries = 0..N
    BY <1>1
<1>6. Ancestors = [e \in {0} \cup Entries |-> F(Ancestors, e)]
  <2>1. \E g : g = [e \in {0} \cup Entries |-> F(g, e)]
      BY <1>4, <1>5 DEF Defined
  <2>2. QED  BY <2>1 DEF Ancestors
<1>7. QED  BY <1>1, <1>2, <1>5, <1>6

\* A directory comes before what is below it.
LEMMA AncestorsComeFirst ==
    \A e \in Entries : Ancestors[e] \subseteq Entries /\ \A d \in Ancestors[e] : d < e
<1> DEFINE Before(e) == Ancestors[e] \subseteq Entries /\ \A d \in Ancestors[e] : d < e
           Bad == {e \in Entries : ~ Before(e)}
<1>1. Entries \subseteq Nat \ {0}
    BY FS_CardinalityType, PermissionsAssumption
<1>2. SUFFICES ASSUME Bad /= {} PROVE FALSE
    OBVIOUS
<1> HIDE DEF Before
<1>3. PICK m \in Bad : \A e \in Bad : m <= e
  <2>1. Bad \in SUBSET Nat
      BY <1>1
  <2> HIDE DEF Bad
  <2>2. QED  BY <1>2, <2>1, LeastNatural
<1>4. m \in Entries /\ ~ Before(m) /\ \A e \in Entries : e < m => Before(e)
    BY <1>1, <1>3
<1>5. CASE ParentOf[m] = 0
    BY <1>4, <1>5, AncestorsDefined DEF Before
<1>6. CASE ParentOf[m] /= 0
  <2>1. ParentOf[m] \in Entries /\ ParentOf[m] < m /\ Before(ParentOf[m])
      BY <1>4, <1>6, AncestorsDefined
  <2>2. Ancestors[m] = Ancestors[ParentOf[m]] \cup {ParentOf[m]}
      BY <1>4, <1>6, AncestorsDefined
  <2>3. Before(m)
      BY <1>1, <1>4, <2>1, <2>2 DEF Before
  <2>4. QED  BY <1>4, <2>3
<1>7. QED  BY <1>5, <1>6

LEMMA BelowIsBehind ==
    ASSUME NEW root \in Entries
    PROVE  /\ root \in Below(root) /\ Below(root) \subseteq Entries
           /\ \A e \in Below(root) : e = root \/ root < e
BY AncestorsComeFirst DEF Below

\* The next entry is the first one behind.
LEMMA NextIsFirst ==
    ASSUME NEW e \in Entries, change.root \in Entries
    PROVE  \/ NextEntry(e) = 0 /\ \A x \in Below(change.root) : ~ (x > e)
           \/ /\ NextEntry(e) \in Below(change.root) /\ NextEntry(e) > e
              /\ \A x \in Below(change.root) : x > e => NextEntry(e) <= x
<1> DEFINE later == {x \in Below(change.root) : x > e}
<1>1. Entries \subseteq Nat \ {0}
    BY FS_CardinalityType, PermissionsAssumption
<1>2. later \in SUBSET Nat
    BY <1>1, BelowIsBehind
<1>3. CASE later = {}
    BY <1>3 DEF NextEntry
<1>4. CASE later /= {}
  <2>1. NextEntry(e) = CHOOSE x \in later : \A y \in later : x <= y
      BY <1>4 DEF NextEntry
  <2>2. \E x \in later : \A y \in later : x <= y
    <3> HIDE DEF later
    <3>1. QED  BY <1>2, <1>4, LeastNatural
  <2>3. NextEntry(e) \in later /\ \A y \in later : NextEntry(e) <= y
    <3> HIDE DEF later
    <3>1. QED  BY <2>1, <2>2
  <2>4. QED  BY <2>3
<1>5. QED  BY <1>3, <1>4

\* A step of the walk that deals with its entry.
LEMMA WalkAdvances ==
    ASSUME PermissionsInv, change.pc = "walk",
           NEW done \in SUBSET Entries, NEW failed \in SUBSET Entries, Advance(done, failed),
           change.at \in done \/ ({change.at} \cup Ancestors[change.at]) \cap failed /= {}
    PROVE  PermissionsInv'
<1> DEFINE next == IF change.recursive THEN NextEntry(change.at) ELSE 0
<1>1. Entries \subseteq Nat \ {0}
    BY FS_CardinalityType, PermissionsAssumption
<1>2. change.at \in Entries /\ change.root \in Entries /\ change.at \in Below(change.root)
    BY BelowIsBehind DEF PermissionsInv, WalkedInOrder
<1>3. next \in Nat
  <2>1. NextEntry(change.at) = 0 \/ NextEntry(change.at) \in Below(change.root)
      BY <1>2, NextIsFirst
  <2>2. NextEntry(change.at) \in Nat
    <3>1. Below(change.root) \subseteq Nat
        BY <1>1, <1>2, BelowIsBehind
    <3>2. QED  BY <2>1, <3>1
  <2>3. QED  BY <2>2
<1>4. change' = [change EXCEPT !.changed = @ \cup done, !.errors = @ \cup failed,
                               !.at = next, !.pc = IF next = 0 THEN "idle" ELSE @]
    BY DEF Advance
<1>5. change \in ChangeState
    BY DEF PermissionsInv
<1> HIDE DEF next
<1>6. /\ change' \in ChangeState
      /\ change'.changed = change.changed \cup done /\ change'.errors = change.errors \cup failed
      /\ change'.at = next /\ change'.pc = IF next = 0 THEN "idle" ELSE "walk"
      /\ change'.root = change.root /\ change'.recursive = change.recursive
    BY <1>3, <1>4, <1>5 DEF ChangeState
<1>7. \A e \in Entries : Dealt(e) => Dealt(e)'
    BY <1>6 DEF Dealt
<1>8. PICK a : a = change.at
    OBVIOUS
<1>9. Dealt(a)'
  <2>1. a \in change'.changed \/ ({a} \cup Ancestors[a]) \cap change'.errors /= {}
      BY <1>6, <1>8
  <2>2. QED  BY <2>1 DEF Dealt
<1>10. Below(change'.root) = Below(change.root) /\ Below(change.root) \subseteq Entries /\ a \in Nat
    BY <1>1, <1>2, <1>6, <1>8, BelowIsBehind
<1>11. change.recursive =>
           \/ next = 0 /\ \A x \in Below(change.root) : ~ (x > a)
           \/ /\ next \in Below(change.root) /\ next > a
              /\ \A x \in Below(change.root) : x > a => next <= x
    BY <1>2, <1>8, NextIsFirst DEF next
<1>12. change.recursive => \A e \in Below(change.root) : e < a \/ e = a => Dealt(e)'
    BY <1>7, <1>8, <1>9, <1>10 DEF PermissionsInv, WalkedInOrder
<1>13. CASE ~ change.recursive
  <2>1. next = 0
      BY <1>13 DEF next
  <2>2. QED
      BY <1>6, <1>13, <2>1 DEF PermissionsInv, WalkedInOrder, UnchangedIsReported
<1>14. CASE change.recursive /\ next = 0
  <2>1. \A e \in Below(change.root) : ~ (e > a)
      BY <1>1, <1>10, <1>11, <1>14
  <2>2. ASSUME NEW e \in Below(change.root) PROVE Dealt(e)'
    <3>1. e \in Nat /\ ~ (e > a)
        BY <1>1, <1>10, <2>1
    <3>2. e < a \/ e = a
        BY <1>10, <3>1
    <3>3. QED  BY <1>12, <1>14, <3>2
  <2>3. UnchangedIsReported' /\ WalkedInOrder'
      BY <1>6, <1>10, <1>14, <2>2 DEF UnchangedIsReported, WalkedInOrder, Dealt
  <2>4. QED  BY <1>6, <2>3 DEF PermissionsInv
<1>15. CASE change.recursive /\ next /= 0
  <2>1. /\ next \in Below(change.root) /\ next > a
        /\ \A x \in Below(change.root) : x > a => next <= x
      BY <1>11, <1>15
  <2>2. ASSUME NEW e \in Below(change.root), e < next PROVE Dealt(e)'
    <3>1. e \in Nat /\ next \in Nat
        BY <1>1, <1>10, <2>1
    <3>2. ~ (e > a)
        BY <2>1, <2>2, <3>1
    <3>3. e < a \/ e = a
        BY <1>10, <3>1, <3>2
    <3>4. QED  BY <1>12, <1>15, <3>3
  <2>3. PICK b : b = next
      OBVIOUS
  <2>4. /\ change'.root \in Entries /\ b \in Below(change'.root) /\ change'.at = b
        /\ \A e \in Below(change'.root) : e < b => Dealt(e)'
      BY <1>2, <1>6, <1>10, <2>1, <2>2, <2>3
  <2>5. UnchangedIsReported' /\ WalkedInOrder'
      BY <1>6, <1>15, <2>4 DEF UnchangedIsReported, WalkedInOrder
  <2>6. QED  BY <1>6, <2>5 DEF PermissionsInv
<1>16. QED  BY <1>13, <1>14, <1>15

LEMMA PermissionsStep == PermissionsInv /\ [Next]_vars => PermissionsInv'
<1> SUFFICES ASSUME PermissionsInv, [Next]_vars PROVE PermissionsInv'
    OBVIOUS
<1>0. change \in ChangeState
    BY DEF PermissionsInv
<1>1. CASE UNCHANGED permissionVars
    BY <1>1 DEF permissionVars, PermissionsInv, WalkedInOrder, UnchangedIsReported, Dealt
<1>2. CASE Execute
  <2>1. PICK root \in Entries, operation \in {"set", "add", "remove"}, bits \in Modes,
             recursive \in BOOLEAN :
            change' = [NoChangeYet EXCEPT !.pc = "walk", !.operation = operation, !.bits = bits,
                                          !.root = root, !.at = root, !.recursive = recursive]
      BY <1>2, ZenonT(60) DEF Execute
  <2>2. root \in Nat /\ bits \in SUBSET Bits
      BY FS_CardinalityType, PermissionsAssumption
  <2>3. change' = [pc |-> "walk", operation |-> operation, bits |-> bits, root |-> root, at |-> root,
                   recursive |-> recursive, changed |-> {}, errors |-> {}, cancelled |-> FALSE]
      BY <2>1 DEF NoChangeYet
  <2>4. change' \in ChangeState
      BY <2>2, <2>3 DEF ChangeState
  <2>5. root \in Below(root) /\ Below(root) \subseteq Nat /\ \A e \in Below(root) : ~ (e < root)
      BY <2>2, BelowIsBehind, FS_CardinalityType, PermissionsAssumption
  <2>6. WalkedInOrder' /\ UnchangedIsReported'
      BY <2>3, <2>5 DEF WalkedInOrder, UnchangedIsReported
  <2>7. QED  BY <2>4, <2>6 DEF PermissionsInv
<1>3. CASE ChangeMode
  <2>1. change.pc = "walk" /\ Advance({change.at}, {}) /\ change.at \in Entries
      BY <1>3, BelowIsBehind DEF ChangeMode, PermissionsInv, WalkedInOrder
  <2>2. QED  BY <2>1, WalkAdvances
<1>4. CASE ReportError
  <2> DEFINE failed == IF Visited(change.at) THEN {change.at}
                       ELSE {d \in Ancestors[change.at] \cap Below(change.root) : ~ Readable(d)}
  <2>1. change.pc = "walk" /\ Advance({}, failed)
        /\ change.root \in Entries /\ change.at \in Entries
      BY <1>4, BelowIsBehind DEF ReportError, PermissionsInv, WalkedInOrder
  <2>2. failed \in SUBSET Entries /\ ({change.at} \cup Ancestors[change.at]) \cap failed /= {}
      BY <2>1, BelowIsBehind DEF Visited
  <2> HIDE DEF failed
  <2>3. QED  BY <2>1, <2>2, WalkAdvances
<1>5. CASE CancelWalk
  <2>1. change' = [change EXCEPT !.pc = "idle", !.cancelled = TRUE]
      BY <1>5 DEF CancelWalk
  <2>2. change' \in ChangeState /\ change'.pc = "idle" /\ change'.cancelled
      BY <1>0, <2>1 DEF ChangeState
  <2>3. QED
      BY <2>2 DEF PermissionsInv, WalkedInOrder, UnchangedIsReported
<1>6. PermissionsNext \/ UNCHANGED permissionVars
    BY StepOfATool
<1>7. QED  BY <1>1, <1>2, <1>3, <1>4, <1>5, <1>6 DEF PermissionsNext

(* A recursive change of permissions that was not cancelled has dealt with every entry     *)
(* below its path: it is changed, or an error names it or a directory above it             *)
(* (file_ops.go: the walk of changePermissionsRecursive).                                  *)
THEOREM UnchangedEntriesAreReported == Spec => []UnchangedIsReported
<1>1. Init => PermissionsInv
  <2> SUFFICES ASSUME Init PROVE PermissionsInv
      OBVIOUS
  <2>1. PermissionsInit
      BY Zenon DEF Init
  <2>2. QED
      BY <2>1 DEF PermissionsInit, NoChangeYet, PermissionsInv, ChangeState, WalkedInOrder,
                  UnchangedIsReported
<1>2. PermissionsInv /\ [Next]_vars => PermissionsInv'
    BY PermissionsStep
<1>3. PermissionsInv => UnchangedIsReported
    BY DEF PermissionsInv
<1>4. QED  BY <1>1, <1>2, <1>3, PTL DEF Spec

-----------------------------------------------------------------------------
(***************************************************************************)
(* The backups.                                                            *)
(***************************************************************************)
\* A set of natural numbers that has a bound has a greatest element.
LEMMA GreatestNatural ==
    ASSUME NEW n \in Nat, NEW T \in SUBSET (0..n), T /= {}
    PROVE  Max(T) \in T /\ \A k \in T : k <= Max(T)
<1> DEFINE Bounds == {k \in Nat : \A t \in T : t <= k}
<1>1. PICK m \in Bounds : \A k \in Bounds : m <= k
  <2>1. Bounds \in SUBSET Nat /\ n \in Bounds
      OBVIOUS
  <2> HIDE DEF Bounds
  <2>2. QED  BY <2>1, LeastNatural
<1>2. m \in T
  <2> SUFFICES ASSUME m \notin T PROVE FALSE
      OBVIOUS
  <2>1. PICK t : t \in T
      OBVIOUS
  <2>2. t \in Nat /\ t <= m /\ t /= m
      BY <1>1, <2>1
  <2>3. m - 1 \in Nat /\ \A k \in T : k <= m - 1
      BY <1>1, <2>2
  <2>4. m - 1 \in Bounds
      BY <2>3
  <2>5. m <= m - 1 /\ m \in Nat
      BY <1>1, <2>4
  <2>6. QED  BY <2>5
<1>3. \E x \in T : \A y \in T : x >= y
    BY <1>1, <1>2
<1>4. Max(T) \in T /\ \A y \in T : Max(T) >= y
    BY <1>3 DEF Max
<1>5. QED  BY <1>4

\* A new backup has a higher version than those listed.
LEMMA VersionsGrow ==
    ASSUME BackupTypes, VersionsDiffer, NEW p \in Paths
    PROVE  /\ GetNextVersion(p) \in 1..(made + 1)
           /\ \A b \in listed[p] : b.version \in Nat /\ b.version < GetNextVersion(p)
<1>1. made \in Nat
    BY DEF BackupTypes
<1>2. CASE listed[p] = {}
    BY <1>1, <1>2 DEF GetNextVersion
<1>3. CASE listed[p] /= {}
  <2> DEFINE T == {b.version : b \in listed[p]}
  <2>1. T \in SUBSET (1..made) /\ T /= {}
      BY <1>3 DEF VersionsDiffer
  <2>2. GetNextVersion(p) = Max(T) + 1
      BY <1>3 DEF GetNextVersion
  <2>3. \A b \in listed[p] : b.version \in T
      OBVIOUS
  <2> HIDE DEF T
  <2>4. T \in SUBSET (0..made)
      BY <1>1, <2>1
  <2>5. Max(T) \in T /\ \A k \in T : k <= Max(T)
      BY <1>1, <2>1, <2>4, GreatestNatural
  <2>6. Max(T) \in 1..made /\ GetNextVersion(p) \in 1..(made + 1)
    <3> DEFINE m == Max(T)
    <3>1. m \in 1..made
        BY <2>1, <2>5
    <3> HIDE DEF m
    <3>2. m + 1 \in 1..(made + 1)
        BY <1>1, <3>1
    <3>3. QED  BY <2>2, <3>1, <3>2 DEF m
  <2>7. ASSUME NEW b \in listed[p] PROVE b.version \in Nat /\ b.version < GetNextVersion(p)
    <3>1. b.version \in 1..made /\ b.version <= Max(T)
        BY <2>1, <2>3, <2>5
    <3>2. QED  BY <1>1, <2>2, <2>6, <3>1
  <2>8. QED  BY <2>6, <2>7
<1>4. QED  BY <1>2, <1>3

\* Backups lie in one file only if the version and the name of the path agree.
LEMMA KeysDiffer ==
    ASSUME NEW p \in Paths, NEW q \in Paths, NEW b, NEW c, KeyOf(p, b) = KeyOf(q, c)
    PROVE  StoredAs[p] = StoredAs[q] /\ b.version = c.version /\ (HasOwnName(p) => p = q)
BY DEF KeyOf, HasOwnName

LEMMA ListedHaveKeys ==
    ASSUME BackupTypes, VersionsDiffer
    PROVE  \A p \in Paths : \A b \in listed[p] : KeyOf(p, b) \in Keys
BY BackupsAssumption DEF BackupTypes, VersionsDiffer, KeyOf, Keys

\* A file that is copied is listed, and no path with a name of its own loses a backup.
LEMMA CopiedKeeps ==
    ASSUME BackupTypes, VersionsDiffer, ListedBackupsAreIntact, NEW p \in Paths,
           NEW cut \in BOOLEAN, Copied(p, cut)
    PROVE  /\ disk' \in [Keys -> Held] /\ DOMAIN listed' = Paths
           /\ made' \in Nat /\ made' <= MaxMade
           /\ VersionsDiffer' /\ ListedBackupsAreIntact'
           /\ \E b \in listed'[p] : b.checksum = files[p]
           /\ \A q \in Paths : q /= p => listed'[q] = listed[q]
<1> DEFINE b    == [version |-> GetNextVersion(p), second |-> now, checksum |-> files[p],
                    cut |-> cut]
           all  == listed[p] \cup {b}
           gone == {c \in all : Cardinality(NewerOf(all, c)) >= MaxBackups}
<1>1. /\ files[p] /= Absent /\ made < MaxMade /\ made' = made + 1
      /\ listed' = [listed EXCEPT ![p] = all \ gone]
      /\ disk' = [k \in Keys |-> IF \E c \in gone : k = KeyOf(p, c) THEN Absent
                                 ELSE IF k /= KeyOf(p, b) THEN disk[k]
                                 ELSE IF cut THEN Empty ELSE files[p]]
    BY DEF Copied
<1>2. /\ made \in Nat /\ MaxMade \in Nat /\ MaxBackups \in Nat \ {0} /\ now \in 1..MaxNow
      /\ files[p] \in Held /\ {Absent, Empty} \subseteq Held /\ disk \in [Keys -> Held]
      /\ DOMAIN listed = Paths
    BY BackupsAssumption DEF BackupTypes, Held
<1>3. /\ b.version \in 1..(made + 1) /\ b.second = now /\ b.checksum = files[p] /\ b.cut = cut
      /\ \A c \in listed[p] : c.version \in Nat /\ c.version < b.version
    BY VersionsGrow
<1>4. b \notin gone
  <2>1. NewerOf(all, b) = {}
      BY <1>2, <1>3 DEF NewerOf
  <2>2. Cardinality(NewerOf(all, b)) = 0
      BY <2>1, FS_EmptySet
  <2>3. QED  BY <1>2, <2>2
<1>5. b \in all /\ gone \subseteq all /\ all = listed[p] \cup {b}
    OBVIOUS
<1> HIDE DEF b, all, gone
<1>6. listed'[p] = all \ gone /\ \A q \in Paths : q /= p => listed'[q] = listed[q]
    BY <1>1, <1>2
<1>7. disk' \in [Keys -> Held] /\ DOMAIN listed' = Paths /\ made' \in Nat /\ made' <= MaxMade
    BY <1>1, <1>2
<1>8. \A c, d \in all : c.version = d.version => c = d
    BY <1>2, <1>3, <1>5 DEF VersionsDiffer
<1>9. VersionsDiffer'
  <2> SUFFICES ASSUME NEW q \in Paths
               PROVE  /\ \A c \in listed'[q] : c.version \in 1..made' /\ c.second \in 1..MaxNow
                      /\ \A c, d \in listed'[q] : c.version = d.version => c = d
      BY DEF VersionsDiffer
  <2>1. \A c \in listed[q] : c.version \in 1..made' /\ c.second \in 1..MaxNow
      BY <1>1, <1>2 DEF VersionsDiffer
  <2>2. CASE q = p
      BY <1>1, <1>2, <1>3, <1>5, <1>6, <1>8, <2>1, <2>2
  <2>3. CASE q /= p
      BY <1>6, <2>1, <2>3 DEF VersionsDiffer
  <2>4. QED  BY <2>2, <2>3
<1>10. KeyOf(p, b) \in Keys
    BY <1>1, <1>2, <1>3 DEF KeyOf, Keys
<1>11. ASSUME NEW q \in Paths, HasOwnName(q), NEW c \in listed'[q], c.cut /= TRUE
       PROVE  disk'[KeyOf(q, c)] = c.checksum
  <2>1. CASE q /= p
    <3>1. c \in listed[q] /\ KeyOf(q, c) \in Keys
        BY <1>6, <1>11, <2>1, ListedHaveKeys
    <3>2. \A d : KeyOf(q, c) /= KeyOf(p, d)
        BY <1>11, <2>1, KeysDiffer
    <3>3. disk'[KeyOf(q, c)] = disk[KeyOf(q, c)]
        BY <1>1, <3>1, <3>2
    <3>4. disk[KeyOf(q, c)] = c.checksum
        BY <1>11, <3>1, Zenon DEF ListedBackupsAreIntact
    <3>5. QED  BY <3>3, <3>4
  <2>2. CASE q = p
    <3>1. c \in all /\ c \notin gone
        BY <1>6, <1>11, <2>2
    <3>2. \A d \in gone : KeyOf(p, c) /= KeyOf(p, d)
        BY <1>5, <1>8, <3>1, KeysDiffer
    <3>3. CASE c = b
      <4>1. disk'[KeyOf(p, b)] = IF cut THEN Empty ELSE files[p]
          BY <1>1, <1>10, <3>2, <3>3
      <4>2. ~ cut
          BY <1>3, <1>11, <3>3
      <4>3. QED  BY <1>3, <2>2, <3>3, <4>1, <4>2
    <3>4. CASE c /= b
      <4>1. c \in listed[p] /\ KeyOf(p, c) \in Keys
          BY <1>5, <3>1, <3>4, ListedHaveKeys
      <4>2. KeyOf(p, c) /= KeyOf(p, b)
          BY <1>5, <1>8, <3>1, <3>4, KeysDiffer
      <4>3. disk'[KeyOf(p, c)] = disk[KeyOf(p, c)]
          BY <1>1, <3>2, <4>1, <4>2
      <4>4. disk[KeyOf(p, c)] = c.checksum
          BY <1>11, <2>2, <4>1, Zenon DEF ListedBackupsAreIntact
      <4>5. QED  BY <2>2, <4>3, <4>4
    <3>5. QED  BY <3>3, <3>4
  <2>3. QED  BY <2>1, <2>2
<1>12. ListedBackupsAreIntact'
    BY <1>11, Zenon DEF ListedBackupsAreIntact, HasOwnName
<1>13. \E c \in listed'[p] : c.checksum = files[p]
    BY <1>3, <1>4, <1>5, <1>6
<1>14. QED  BY <1>6, <1>7, <1>9, <1>12, <1>13

LEMMA CreateBackupKeeps ==
    ASSUME BackupTypes, VersionsDiffer, ListedBackupsAreIntact, NEW p \in Paths, CreateBackup(p)
    PROVE  /\ disk' \in [Keys -> Held] /\ DOMAIN listed' = Paths
           /\ made' \in Nat /\ made' <= MaxMade
           /\ VersionsDiffer' /\ ListedBackupsAreIntact'
           /\ \E b \in listed'[p] : b.checksum = files[p]
           /\ \A q \in Paths : q /= p => listed'[q] = listed[q]
<1>1. PICK cut \in BOOLEAN : Copied(p, cut)
    BY Zenon DEF CreateBackup
<1>2. QED  BY <1>1, CopiedKeeps

\* A backup that fails lists nothing, or it is listed all the same.
LEMMA FailedBackupKeeps ==
    ASSUME BackupTypes, VersionsDiffer, ListedBackupsAreIntact, NEW p \in Paths, CreateBackupFails(p)
    PROVE  /\ disk' \in [Keys -> Held] /\ DOMAIN listed' = Paths
           /\ made' \in Nat /\ made' <= MaxMade
           /\ VersionsDiffer' /\ ListedBackupsAreIntact'
           /\ \A q \in Paths : q /= p => listed'[q] = listed[q]
           /\ files[p] /= Absent
           /\ listed' = listed \/ \E b \in listed'[p] : b.checksum = files[p]
<1> DEFINE key == KeyOf(p, [version |-> GetNextVersion(p), second |-> now])
<1>1. CASE \E cut \in BOOLEAN : Copied(p, cut)
    BY <1>1, CopiedKeeps DEF Copied
<1>2. CASE /\ files[p] /= Absent /\ made < MaxMade /\ made' = made + 1 /\ listed' = listed
           /\ disk' \in {disk, [disk EXCEPT ![key] = Empty]}
  <2>1. /\ made \in Nat /\ MaxMade \in Nat /\ Empty \in Held /\ disk \in [Keys -> Held]
        /\ DOMAIN listed = Paths
      BY BackupsAssumption DEF BackupTypes, Held
  <2>2. ASSUME NEW q \in Paths, HasOwnName(q), NEW b \in listed[q] PROVE KeyOf(q, b) /= key
    <3>1. CASE q = p
        BY <2>2, <3>1, VersionsGrow DEF KeyOf
    <3>2. CASE q /= p
        BY <2>2, <3>2, KeysDiffer
    <3>3. QED  BY <3>1, <3>2
  <2> HIDE DEF key
  <2>3. disk' \in [Keys -> Held] /\ made' \in Nat /\ made' <= MaxMade
      BY <1>2, <2>1
  <2>4. VersionsDiffer'
      BY <1>2, <2>1 DEF VersionsDiffer
  <2>5. ASSUME NEW q \in Paths, HasOwnName(q), NEW b \in listed[q], b.cut /= TRUE
        PROVE  disk'[KeyOf(q, b)] = b.checksum
    <3>1. disk[KeyOf(q, b)] = b.checksum
        BY <2>5, Zenon DEF ListedBackupsAreIntact
    <3>2. KeyOf(q, b) /= key /\ KeyOf(q, b) \in Keys
        BY <2>2, <2>5, ListedHaveKeys
    <3>3. QED  BY <1>2, <2>1, <3>1, <3>2
  <2>6. ListedBackupsAreIntact'
      BY <1>2, <2>5, Zenon DEF ListedBackupsAreIntact, HasOwnName
  <2>7. QED  BY <1>2, <2>1, <2>3, <2>4, <2>6
<1>3. QED  BY <1>1, <1>2, Zenon DEF CreateBackupFails

\* Without a batch that makes backups the list may lose backups, if no file of another goes.
LEMMA FewerListed ==
    ASSUME BackupTypes, VersionsDiffer, ListedBackupsAreIntact,
           DOMAIN listed' = Paths, disk' \in [Keys -> Held], made' = made,
           \A p \in Paths : listed'[p] \subseteq listed[p],
           \A p \in Paths : HasOwnName(p) =>
               \A b \in listed'[p] : disk'[KeyOf(p, b)] = disk[KeyOf(p, b)]
    PROVE  VersionsDiffer' /\ ListedBackupsAreIntact'
<1>1. VersionsDiffer'
    BY DEF VersionsDiffer
<1>2. ASSUME NEW p \in Paths, HasOwnName(p), NEW b \in listed'[p], b.cut /= TRUE
      PROVE  disk'[KeyOf(p, b)] = b.checksum
  <2>1. disk[KeyOf(p, b)] = b.checksum
      BY <1>2, Zenon DEF ListedBackupsAreIntact
  <2>2. QED  BY <1>2, <2>1
<1>3. ListedBackupsAreIntact'
    BY <1>2, Zenon DEF ListedBackupsAreIntact, HasOwnName
<1>4. QED  BY <1>1, <1>3

\* Calls of the backup tool come when no batch operation is running.
LEMMA AloneKeeps ==
    ASSUME BackupInv, Alone, UNCHANGED batch,
           BackupTypes', VersionsDiffer', ListedBackupsAreIntact'
    PROVE  BackupInv'
BY DEF BackupInv, Alone, BatchFits, EditsAreCovered, DeletesOrKeeps, BackupsCoverChanges,
       BatchChangesAreBackedUp

\* The calls of the backup tool.
LEMMA BackupToolStep ==
    ASSUME BackupInv, Backup \/ RestoreBackup \/ DeleteBackup \/ CleanupExpired
    PROVE  BackupInv'
<1>0. /\ BackupTypes /\ VersionsDiffer /\ ListedBackupsAreIntact
      /\ files \in [Paths -> Held] /\ disk \in [Keys -> Held] /\ DOMAIN listed = Paths
      /\ Empty \in Held /\ Absent \in Held
    BY DEF BackupInv, BackupsCoverChanges, BackupTypes, Held
<1>1. CASE Backup
  <2>1. PICK p \in Paths : /\ Alone /\ UNCHANGED <<files, now, batch>>
                           /\ CreateBackup(p) \/ CreateBackupFails(p)
      BY <1>1 DEF Backup
  <2>2. /\ disk' \in [Keys -> Held] /\ DOMAIN listed' = Paths /\ made' \in Nat /\ made' <= MaxMade
        /\ VersionsDiffer' /\ ListedBackupsAreIntact'
      BY <1>0, <2>1, CreateBackupKeeps, FailedBackupKeeps
  <2>3. BackupTypes'
      BY <1>0, <2>1, <2>2 DEF BackupTypes
  <2>4. QED  BY <2>1, <2>2, <2>3, AloneKeeps
<1>2. CASE RestoreBackup
  <2>1. PICK p \in Paths : \E b \in FindBackup(p) :
            /\ Alone
            /\ \/ CreateBackup(p)
               \/ CreateBackupFails(p)
               \/ \E cut \in BOOLEAN : Copied(p, cut)
               \/ UNCHANGED <<disk, listed, made>>
            /\ LET saved == disk'[KeyOf(p, b)]
               IN files' \in {files, [files EXCEPT ![p] = IF saved = Absent THEN @ ELSE saved],
                              [files EXCEPT ![p] = Empty]}
            /\ UNCHANGED <<now, batch>>
      BY <1>2 DEF RestoreBackup
  <2>2. PICK b \in FindBackup(p) :
            /\ Alone
            /\ \/ CreateBackup(p)
               \/ CreateBackupFails(p)
               \/ \E cut \in BOOLEAN : Copied(p, cut)
               \/ UNCHANGED <<disk, listed, made>>
            /\ files' \in {files, [files EXCEPT ![p] = IF disk'[KeyOf(p, b)] = Absent THEN @
                                                       ELSE disk'[KeyOf(p, b)]],
                           [files EXCEPT ![p] = Empty]}
            /\ UNCHANGED <<now, batch>>
      BY <2>1
  <2>3. b \in listed[p]
    <3>1. \A B : NewestOf(B) \subseteq B
        BY DEF NewestOf
    <3> DEFINE Of(t)   == NewestOf({c \in listed[p] : c.second = t})
               Till(t) == NewestOf({c \in listed[p] : c.second <= t})
    <3>2. FindBackup(p) = (UNION {Of(t) \cup Till(t) : t \in 1..now})
                          \cup {c \in listed[p] : c.version \in 1..MaxMade}
        BY Zenon DEF FindBackup
    <3>3. \A t : Of(t) \subseteq listed[p] /\ Till(t) \subseteq listed[p]
        BY <3>1
    <3> HIDE DEF Of, Till
    <3>4. b \in FindBackup(p)
        OBVIOUS
    <3>5. (\E t \in 1..now : b \in Of(t) \cup Till(t)) \/ b \in {c \in listed[p] : c.version \in 1..MaxMade}
        BY <3>2, <3>4
    <3>6. QED  BY <3>3, <3>5
  <2>4. /\ disk' \in [Keys -> Held] /\ DOMAIN listed' = Paths /\ made' \in Nat /\ made' <= MaxMade
        /\ VersionsDiffer' /\ ListedBackupsAreIntact'
    <3>1. CASE CreateBackup(p)
        BY <1>0, <3>1, CreateBackupKeeps
    <3>2. CASE CreateBackupFails(p) \/ \E cut \in BOOLEAN : Copied(p, cut)
        BY <1>0, <3>2, FailedBackupKeeps, CopiedKeeps
    <3>3. CASE UNCHANGED <<disk, listed, made>>
        BY <1>0, <3>3 DEF BackupTypes, VersionsDiffer, ListedBackupsAreIntact
    <3>4. QED  BY <2>2, <3>1, <3>2, <3>3
  <2>5. disk'[KeyOf(p, b)] \in Held
      BY <1>0, <2>3, <2>4, ListedHaveKeys
  <2>6. files' \in [Paths -> Held]
      BY <1>0, <2>2, <2>5
  <2>7. BackupTypes'
      BY <1>0, <2>2, <2>4, <2>6 DEF BackupTypes
  <2>8. QED  BY <2>2, <2>4, <2>7, AloneKeeps
<1>3. CASE DeleteBackup
  <2>1. PICK p \in Paths, s \in 1..now : \E b \in NewestOf({c \in listed[p] : c.second = s}) :
            /\ Alone /\ listed' = [listed EXCEPT ![p] = @ \ {b}]
            /\ disk' = [disk EXCEPT ![KeyOf(p, b)] = Absent] \/ UNCHANGED disk
            /\ UNCHANGED <<files, now, batch, made>>
      BY <1>3 DEF DeleteBackup
  <2>2. PICK b \in listed[p] :
            /\ Alone /\ listed' = [listed EXCEPT ![p] = @ \ {b}]
            /\ disk' = [disk EXCEPT ![KeyOf(p, b)] = Absent] \/ UNCHANGED disk
            /\ UNCHANGED <<files, now, batch, made>>
      BY <2>1 DEF NewestOf
  <2>3. /\ disk' \in [Keys -> Held] /\ DOMAIN listed' = Paths
        /\ \A q \in Paths : listed'[q] \subseteq listed[q]
      BY <1>0, <2>2
  <2>4. ASSUME NEW q \in Paths, HasOwnName(q), NEW c \in listed'[q]
        PROVE  disk'[KeyOf(q, c)] = disk[KeyOf(q, c)]
    <3>1. c \in listed[q] /\ (q = p => c /= b)
        BY <1>0, <2>2, <2>4
    <3>2. KeyOf(q, c) /= KeyOf(p, b)
        BY <1>0, <2>4, <3>1, KeysDiffer DEF VersionsDiffer
    <3>3. QED  BY <1>0, <2>2, <3>1, <3>2, ListedHaveKeys
  <2>5. VersionsDiffer' /\ ListedBackupsAreIntact'
      BY <1>0, <2>2, <2>3, <2>4, FewerListed
  <2>6. BackupTypes'
      BY <1>0, <2>2, <2>3 DEF BackupTypes
  <2>7. QED  BY <2>2, <2>5, <2>6, AloneKeeps
<1>4. CASE CleanupExpired
  <2> DEFINE Expired(b) == b.second < now - RetentionTime
  <2>1. /\ Alone /\ listed' = [p \in Paths |-> {b \in listed[p] : ~ Expired(b)}]
        /\ disk' = [k \in Keys |->
                IF \E p \in Paths : \E b \in listed[p] : k = KeyOf(p, b) /\ Expired(b)
                THEN Absent ELSE disk[k]]
        /\ UNCHANGED <<files, now, batch, made>>
      BY <1>4 DEF CleanupExpired
  <2> HIDE DEF Expired
  <2>2. /\ disk' \in [Keys -> Held] /\ DOMAIN listed' = Paths
        /\ \A q \in Paths : listed'[q] \subseteq listed[q]
      BY <1>0, <2>1
  <2>3. ASSUME NEW q \in Paths, HasOwnName(q), NEW c \in listed'[q]
        PROVE  disk'[KeyOf(q, c)] = disk[KeyOf(q, c)]
    <3>1. c \in listed[q] /\ ~ Expired(c) /\ KeyOf(q, c) \in Keys
        BY <1>0, <2>1, <2>3, ListedHaveKeys
    <3>2. \A p \in Paths : \A b \in listed[p] : KeyOf(q, c) = KeyOf(p, b) => p = q /\ b = c
        BY <1>0, <2>3, <3>1, KeysDiffer DEF VersionsDiffer
    <3>3. QED  BY <2>1, <3>1, <3>2
  <2>4. VersionsDiffer' /\ ListedBackupsAreIntact'
      BY <1>0, <2>1, <2>2, <2>3, FewerListed
  <2>5. BackupTypes'
      BY <1>0, <2>1, <2>2 DEF BackupTypes
  <2>6. QED  BY <2>1, <2>4, <2>5, AloneKeeps
<1>5. QED  BY <1>1, <1>2, <1>3, <1>4

\* A batch operation begins when none is running, with a list of files.
LEMMA BeginStep ==
    ASSUME BackupInv,
           NEW op \in {"edit", "delete", "rename", "copy", "overwrite"},
           NEW pc \in {"backup", "edit", "delete", "rename", "copy"},
           NEW names \in BatchFiles, NEW backup \in BOOLEAN,
           Begin(op, pc, names, backup), UNCHANGED <<files, disk, listed, now, made>>,
           pc = "backup" => backup,
           backup => \/ op = "edit" /\ pc = "backup"
                     \/ op = "delete" /\ pc = "delete"
    PROVE  BackupInv'
<1>1. Alone /\ names \in Seq(Paths) /\ names /= <<>>
    BY BackupsAssumption DEF Begin
<1>2. PICK before \in [Paths -> Held] :
          /\ batch' = [op |-> op, pc |-> pc, todo |-> names, names |-> names, backup |-> backup,
                       before |-> before]
          /\ backup => before = files
    BY DEF Begin, NoBatch, BackupInv, BackupTypes, Held
<1>3. /\ batch' \in BatchState /\ batch'.op = op /\ batch'.pc = pc /\ batch'.todo = names
      /\ batch'.names = names /\ batch'.backup = backup /\ batch'.before = before
    BY <1>1, <1>2 DEF BatchState
<1>4. BackupTypes' /\ VersionsDiffer' /\ ListedBackupsAreIntact'
    BY <1>3 DEF BackupInv, BackupsCoverChanges, BackupTypes, VersionsDiffer, ListedBackupsAreIntact
<1>5. BatchFits' /\ DeletesOrKeeps' /\ BatchChangesAreBackedUp'
    BY <1>1, <1>2, <1>3 DEF BatchFits, DeletesOrKeeps, BatchChangesAreBackedUp
<1>6. EditsAreCovered'
    BY <1>2, <1>3 DEF EditsAreCovered
<1>7. QED  BY <1>4, <1>5, <1>6 DEF BackupInv, BackupsCoverChanges

\* A list is its first element and the rest.
LEMMA FirstAndRest ==
    ASSUME NEW todo \in Seq(Paths), todo /= <<>>
    PROVE  /\ Tail(todo) \in Seq(Paths) /\ (Len(todo) /= 1 => Tail(todo) /= <<>>)
           /\ \A j \in 1..Len(Tail(todo)) : j + 1 \in 1..Len(todo) /\ Tail(todo)[j] = todo[j + 1]
           /\ \A i \in 1..Len(todo) : i = 1 \/ (/\ i - 1 \in 1..Len(Tail(todo))
                                                /\ Tail(todo)[i - 1] = todo[i])
           /\ Head(todo) \in Paths /\ Head(todo) = todo[1] /\ 1 \in 1..Len(todo)
<1>1. /\ Len(todo) \in Nat /\ Len(todo) >= 1 /\ Head(todo) = todo[1] /\ todo[1] \in Paths
      /\ Tail(todo) \in Seq(Paths) /\ Len(Tail(todo)) = Len(todo) - 1
    OBVIOUS
<1>2. ASSUME NEW j \in 1..Len(Tail(todo))
      PROVE  j + 1 \in 1..Len(todo) /\ Tail(todo)[j] = todo[j + 1]
    BY <1>1
<1>3. ASSUME NEW i \in 1..Len(todo)
      PROVE  i = 1 \/ (i - 1 \in 1..Len(Tail(todo)) /\ Tail(todo)[i - 1] = todo[i])
    BY <1>1
<1>4. Len(todo) /= 1 => Tail(todo) /= <<>>
  <2>1. \A s : s = <<>> => Len(s) = 0
      OBVIOUS
  <2> DEFINE rest == Tail(todo)
  <2>2. Len(rest) = Len(todo) - 1 /\ Len(todo) \in Nat
      BY <1>1
  <2> HIDE DEF rest
  <2>3. Len(todo) /= 1 => rest /= <<>>
      BY <2>1, <2>2
  <2>4. QED  BY <2>3 DEF rest
<1>5. 1 \in 1..Len(todo)
    BY <1>1
<1>6. QED  BY <1>1, <1>2, <1>3, <1>4, <1>5

\* What is left after the next file.
LEMMA AdvancedBatch ==
    ASSUME BackupTypes, BatchFits, batch.pc \notin {"idle", "done"}
    PROVE  /\ Advanced \in BatchState /\ Advanced.op = batch.op /\ Advanced.backup = batch.backup
           /\ Advanced.before = batch.before /\ Advanced.names = batch.names
           /\ Advanced.pc \in {batch.pc, "done"} /\ Advanced.todo \in Seq(Paths)
           /\ Advanced.pc /= "done" => Advanced.todo /= <<>>
           /\ \A j \in 1..Len(Advanced.todo) : /\ j + 1 \in 1..Len(batch.todo)
                                               /\ Advanced.todo[j] = batch.todo[j + 1]
           /\ Head(batch.todo) \in Paths /\ Head(batch.todo) = batch.todo[1]
           /\ 1 \in 1..Len(batch.todo)
<1>1. batch \in BatchState /\ batch.todo \in Seq(Paths) /\ batch.todo /= <<>>
    BY DEF BackupTypes, BatchState, BatchFits
<1>2. PICK todo : todo = batch.todo
    OBVIOUS
<1>3. /\ Tail(todo) \in Seq(Paths) /\ (Len(todo) /= 1 => Tail(todo) /= <<>>)
      /\ \A j \in 1..Len(Tail(todo)) : j + 1 \in 1..Len(todo) /\ Tail(todo)[j] = todo[j + 1]
      /\ Head(todo) \in Paths /\ Head(todo) = todo[1] /\ 1 \in 1..Len(todo)
    BY <1>1, <1>2, FirstAndRest
<1>4. PICK pc : pc = IF Len(todo) = 1 THEN "done" ELSE batch.pc
    OBVIOUS
<1>5. Advanced = [batch EXCEPT !.todo = Tail(todo), !.pc = pc]
    BY <1>2, <1>4 DEF Advanced
<1>6. pc \in {batch.pc, "done"} /\ (pc /= "done" => Len(todo) /= 1)
    BY <1>4
<1>7. /\ Advanced \in BatchState /\ Advanced.todo = Tail(todo) /\ Advanced.pc = pc
      /\ Advanced.op = batch.op /\ Advanced.backup = batch.backup
      /\ Advanced.before = batch.before /\ Advanced.names = batch.names
    BY <1>1, <1>3, <1>5, <1>6 DEF BatchState
<1>8. QED  BY <1>2, <1>3, <1>6, <1>7

\* A step of a batch that makes no backups.
LEMMA PlainStep ==
    ASSUME BackupInv, ~ batch.backup, batch.pc \in {"edit", "delete", "rename", "copy"},
           batch' = Advanced, files' \in [Paths -> Held],
           BackupTypes', VersionsDiffer', ListedBackupsAreIntact'
    PROVE  BackupInv'
<1>1. /\ batch'.op = batch.op /\ batch'.backup = batch.backup /\ batch'.names = batch.names
      /\ batch'.pc \in {batch.pc, "done"}
      /\ batch'.pc /= "done" => batch'.todo /= <<>>
    BY AdvancedBatch DEF BackupInv
<1>2. QED
    BY <1>1 DEF BackupInv, BatchFits, EditsAreCovered, DeletesOrKeeps, BackupsCoverChanges,
                BatchChangesAreBackedUp

\* The next file of an edit gets its backup.
LEMMA BatchBackupStep == ASSUME BackupInv, BatchBackup PROVE BackupInv'
<1> DEFINE p == Head(batch.todo)
<1>1. /\ BackupTypes /\ VersionsDiffer /\ ListedBackupsAreIntact /\ BatchFits /\ batch \in BatchState
      /\ batch.op = "edit" /\ batch.pc = "backup" /\ UNCHANGED <<files, now>>
      /\ files = batch.before /\ batch.backup
    BY DEF BackupInv, BackupsCoverChanges, BatchBackup, BackupTypes, BatchFits, EditsAreCovered,
           BatchState
<1>2. /\ batch.todo \in Seq(Paths) /\ batch.todo /= <<>> /\ batch.names \in Seq(Paths)
      /\ p \in Paths /\ p = batch.todo[1]
  <2>1. batch.todo \in Seq(Paths) /\ batch.todo /= <<>> /\ batch.names \in Seq(Paths)
      BY <1>1 DEF BatchFits, BatchState
  <2>2. QED  BY <2>1
<1> HIDE DEF p
<1>3. CASE /\ CreateBackup(p)
           /\ batch' = IF Len(batch.todo) = 1 THEN [batch EXCEPT !.pc = "edit", !.todo = batch.names]
                       ELSE [batch EXCEPT !.todo = Tail(@)]
  <2>1. /\ disk' \in [Keys -> Held] /\ DOMAIN listed' = Paths /\ made' \in Nat /\ made' <= MaxMade
        /\ VersionsDiffer' /\ ListedBackupsAreIntact'
        /\ \E b \in listed'[p] : b.checksum = batch.before[p]
        /\ \A q \in Paths : q /= p => listed'[q] = listed[q]
      BY <1>1, <1>2, <1>3, CreateBackupKeeps
  <2>2. /\ batch' \in BatchState /\ batch'.op = "edit" /\ batch'.backup
        /\ batch'.before = batch.before /\ batch'.names = batch.names
        /\ batch'.pc \in {"edit", "backup"}
        /\ batch'.pc = "edit" => Len(batch.todo) = 1 /\ batch'.todo = batch.names
        /\ batch'.pc = "backup" => Len(batch.todo) /= 1 /\ batch'.todo = Tail(batch.todo)
    <3>1. CASE Len(batch.todo) = 1
        BY <1>1, <1>2, <1>3, <3>1 DEF BatchState
    <3>2. CASE Len(batch.todo) /= 1
      <4>1. Tail(batch.todo) \in Seq(Paths)
          BY <1>2
      <4>2. batch' = [batch EXCEPT !.todo = Tail(batch.todo)]
          BY <1>3, <3>2
      <4>3. QED  BY <1>1, <3>2, <4>1, <4>2 DEF BatchState
    <3>3. QED  BY <3>1, <3>2
  <2>3. \A q \in Paths : Covered(q) => Covered(q)'
      BY <2>1, <2>2 DEF Covered
  <2>5. BackupTypes'
      BY <1>1, <2>1, <2>2 DEF BackupTypes
  <2>6. BatchChangesAreBackedUp' /\ DeletesOrKeeps'
      BY <1>1, <2>2 DEF BatchChangesAreBackedUp, DeletesOrKeeps

  <2>7. ASSUME batch'.pc = "backup", NEW i \in 1..Len(batch.names)
        PROVE  \/ Covered(batch.names[i])'
               \/ \E j \in 1..Len(Tail(batch.todo)) : Tail(batch.todo)[j] = batch.names[i]
    <3>1. PICK q : q = batch.names[i]
        OBVIOUS
    <3>2. q \in Paths
        BY <1>2, <3>1
    <3>3. CASE Covered(q)
        BY <2>1, <2>2, <3>1, <3>2, <3>3 DEF Covered
    <3>4. CASE ~ Covered(q)
      <4>1. PICK j \in 1..Len(batch.todo) : batch.todo[j] = q
          BY <1>1, <3>1, <3>4 DEF BackupInv, EditsAreCovered
      <4>2. CASE j = 1
          BY <1>2, <2>1, <2>2, <3>1, <4>1, <4>2 DEF Covered
      <4>3. CASE j /= 1
        <5>1. /\ j - 1 \in 1..Len(Tail(batch.todo))
              /\ Tail(batch.todo)[j - 1] = batch.todo[j]
            BY <1>2, <4>3, FirstAndRest
        <5>2. QED  BY <3>1, <4>1, <5>1
      <4>4. QED  BY <4>2, <4>3
    <3>5. QED  BY <3>3, <3>4
  <2>8. ASSUME batch'.pc = "edit", NEW i \in 1..Len(batch.names)
        PROVE  Covered(batch.names[i])'
    <3>1. PICK q : q = batch.names[i]
        OBVIOUS
    <3>2. q \in Paths /\ Len(batch.todo) = 1
        BY <1>2, <2>2, <2>8, <3>1
    <3>3. CASE Covered(q)
        BY <2>1, <2>2, <3>1, <3>2, <3>3 DEF Covered
    <3>4. CASE ~ Covered(q)
      <4>1. q = p
          BY <1>1, <1>2, <3>1, <3>2, <3>4 DEF BackupInv, EditsAreCovered
      <4>2. QED  BY <2>1, <2>2, <3>1, <4>1 DEF Covered
    <3>5. QED  BY <3>3, <3>4
  <2>9. EditsAreCovered'
    <3>1. CASE batch'.pc = "backup"
      <4>1. /\ batch'.todo = Tail(batch.todo) /\ batch'.names = batch.names
            /\ files' = batch'.before
          BY <1>1, <2>2, <3>1
      <4>2. \A i \in 1..Len(batch'.names) :
              \/ Covered(batch.names[i])'
              \/ \E j \in 1..Len(batch'.todo) : batch'.todo[j] = batch'.names[i]
        <5>1. SUFFICES ASSUME NEW i \in 1..Len(batch.names)
                       PROVE  \/ Covered(batch.names[i])'
                              \/ \E j \in 1..Len(Tail(batch.todo)) :
                                   Tail(batch.todo)[j] = batch.names[i]
            BY <4>1 DEF Covered
        <5>2. QED  BY <2>7, <3>1
      <4>3. QED  BY <3>1, <4>1, <4>2 DEF EditsAreCovered, Covered
    <3>2. CASE batch'.pc = "edit"
      <4>1. batch'.todo = batch'.names
          BY <2>2, <3>2
      <4>2. \A i \in 1..Len(batch'.names) : Covered(batch.names[i])'
          BY <2>2, <2>8, <3>2
      <4>3. QED  BY <3>2, <4>1, <4>2 DEF EditsAreCovered, Covered
    <3>3. QED  BY <2>2, <3>1, <3>2
  <2>10. BatchFits'
    <3>1. Len(batch.todo) /= 1 => Tail(batch.todo) /= <<>>
        BY <1>2, FirstAndRest
    <3>2. batch.names /= <<>>
        BY <1>1 DEF BatchFits
    <3>3. QED  BY <2>2, <3>1, <3>2 DEF BatchFits
  <2>11. QED  BY <2>1, <2>5, <2>6, <2>9, <2>10 DEF BackupInv, BackupsCoverChanges
<1>4. CASE /\ UNCHANGED <<disk, listed, made>> \/ CreateBackupFails(p)
           /\ batch' = [batch EXCEPT !.pc = "done"]
  <2>1. /\ disk' \in [Keys -> Held] /\ DOMAIN listed' = Paths /\ made' \in Nat /\ made' <= MaxMade
        /\ VersionsDiffer' /\ ListedBackupsAreIntact'
    <3>1. CASE UNCHANGED <<disk, listed, made>>
        BY <1>1, <3>1 DEF BackupTypes, VersionsDiffer, ListedBackupsAreIntact
    <3>2. CASE CreateBackupFails(p)
        BY <1>1, <1>2, <3>2, FailedBackupKeeps
    <3>3. QED  BY <1>4, <3>1, <3>2
  <2>2. /\ batch' \in BatchState /\ batch'.pc = "done" /\ batch'.op = "edit"
        /\ batch'.before = batch.before
      BY <1>1, <1>4 DEF BatchState
  <2>3. BackupTypes'
      BY <1>1, <2>1, <2>2 DEF BackupTypes
  <2>4. /\ BatchFits' /\ EditsAreCovered' /\ DeletesOrKeeps' /\ BatchChangesAreBackedUp'
      BY <1>1, <2>2 DEF BatchFits, EditsAreCovered, DeletesOrKeeps, BatchChangesAreBackedUp
  <2>5. QED  BY <2>1, <2>3, <2>4 DEF BackupInv, BackupsCoverChanges
<1>5. QED  BY <1>3, <1>4 DEF BatchBackup, p

\* The next file of an edit is written: it has a backup, if the caller wanted one.
LEMMA EditNextStep == ASSUME BackupInv, EditNext PROVE BackupInv'
<1> DEFINE p == Head(batch.todo)
<1>1. /\ BackupTypes /\ VersionsDiffer /\ ListedBackupsAreIntact /\ BatchFits /\ batch \in BatchState
      /\ batch.op = "edit" /\ batch.pc = "edit" /\ UNCHANGED <<disk, listed, now, made>>
      /\ batch' = Advanced /\ files \in [Paths -> Held]
    BY DEF BackupInv, BackupsCoverChanges, EditNext, BackupTypes
<1>2. /\ batch' \in BatchState /\ batch'.op = "edit" /\ batch'.backup = batch.backup
      /\ batch'.before = batch.before /\ batch'.names = batch.names
      /\ batch'.pc \in {"edit", "done"} /\ (batch'.pc /= "done" => batch'.todo /= <<>>)
      /\ \A j \in 1..Len(batch'.todo) : /\ j + 1 \in 1..Len(batch.todo)
                                        /\ batch'.todo[j] = batch.todo[j + 1]
      /\ p \in Paths /\ p = batch.todo[1] /\ 1 \in 1..Len(batch.todo)
    BY <1>1, AdvancedBatch
<1> HIDE DEF p
<1>3. PICK c \in Held : files' = files \/ files' = [files EXCEPT ![p] = c]
    BY DEF EditNext, Edited, Held, p
<1>4. /\ files' \in [Paths -> Held] /\ \A q \in Paths : q /= p => files'[q] = files[q]
    BY <1>1, <1>3
<1>5. BackupTypes' /\ VersionsDiffer' /\ ListedBackupsAreIntact'
    BY <1>1, <1>2, <1>4 DEF BackupTypes, VersionsDiffer, ListedBackupsAreIntact
<1>6. BatchFits' /\ DeletesOrKeeps'
    BY <1>1, <1>2 DEF BatchFits, DeletesOrKeeps
<1>7. \A q \in Paths : Covered(q) => Covered(q)'
    BY <1>1, <1>2 DEF Covered
<1>8. EditsAreCovered'
    BY <1>1, <1>2, SMTT(60) DEF BackupInv, EditsAreCovered, Covered
<1>9. BatchChangesAreBackedUp'
  <2> SUFFICES ASSUME batch'.backup, NEW q \in Paths, files'[q] /= batch'.before[q]
               PROVE  \E b \in listed'[q] : b.checksum = batch'.before[q]
      BY DEF BatchChangesAreBackedUp
  <2>1. CASE q = p
    <3>1. Covered(batch.todo[1])
        BY <1>1, <1>2 DEF BackupInv, EditsAreCovered
    <3>2. QED  BY <1>1, <1>2, <2>1, <3>1 DEF Covered
  <2>2. CASE q /= p
      BY <1>1, <1>2, <1>4, <2>2 DEF BackupInv, BackupsCoverChanges, BatchChangesAreBackedUp
  <2>3. QED  BY <2>1, <2>2
<1>10. QED  BY <1>5, <1>6, <1>8, <1>9 DEF BackupInv, BackupsCoverChanges

\* The next file of a deletion is backed up, if the caller wants it, and removed.
LEMMA DeleteNextStep == ASSUME BackupInv, DeleteNext PROVE BackupInv'
<1> DEFINE p == Head(batch.todo)
<1>1. /\ BackupTypes /\ VersionsDiffer /\ ListedBackupsAreIntact /\ BatchFits /\ batch \in BatchState
      /\ batch.op = "delete" /\ batch.pc = "delete" /\ now' = now
      /\ batch' = Advanced /\ files \in [Paths -> Held] /\ Absent \in Held
    BY DEF BackupInv, BackupsCoverChanges, DeleteNext, BackupTypes, Held
<1>2. /\ batch' \in BatchState /\ batch'.op = "delete" /\ batch'.backup = batch.backup
      /\ batch'.before = batch.before /\ batch'.names = batch.names
      /\ batch'.pc \in {"delete", "done"} /\ (batch'.pc /= "done" => batch'.todo /= <<>>)
      /\ p \in Paths
    BY <1>1, AdvancedBatch
<1> HIDE DEF p
<1>3. \/ /\ files[p] /= Absent /\ files' \in {files, [files EXCEPT ![p] = Absent]}
         /\ IF batch.backup THEN CreateBackup(p) ELSE UNCHANGED <<disk, listed, made>>
      \/ files' = files /\ CreateBackupFails(p)
      \/ UNCHANGED <<files, disk, listed, made>>
    BY DEF DeleteNext, p
<1>4. /\ files' \in [Paths -> Held] /\ \A q \in Paths : files'[q] = files[q] \/ q = p
      /\ \A q \in Paths : files'[q] \in {files[q], Absent}
    BY <1>1, <1>3
<1>5. /\ disk' \in [Keys -> Held] /\ DOMAIN listed' = Paths /\ made' \in Nat /\ made' <= MaxMade
      /\ VersionsDiffer' /\ ListedBackupsAreIntact' /\ \A q \in Paths : q /= p => listed'[q] = listed[q]
  <2>1. CASE CreateBackup(p)
      BY <1>1, <1>2, <2>1, CreateBackupKeeps
  <2>2. CASE CreateBackupFails(p)
      BY <1>1, <1>2, <2>2, FailedBackupKeeps DEF BackupTypes
  <2>3. CASE UNCHANGED <<disk, listed, made>>
      BY <1>1, <2>3 DEF BackupTypes, VersionsDiffer, ListedBackupsAreIntact
  <2>4. QED  BY <1>3, <2>1, <2>2, <2>3
<1>6. BackupTypes'
    BY <1>1, <1>2, <1>4, <1>5 DEF BackupTypes
<1>7. BatchFits' /\ EditsAreCovered'
    BY <1>1, <1>2 DEF BatchFits, EditsAreCovered
<1>8. DeletesOrKeeps'
    BY <1>1, <1>2, <1>4 DEF BackupInv, DeletesOrKeeps
<1>9. BatchChangesAreBackedUp'
  <2> SUFFICES ASSUME batch'.backup, NEW q \in Paths, files'[q] /= batch'.before[q]
               PROVE  \E b \in listed'[q] : b.checksum = batch'.before[q]
      BY DEF BatchChangesAreBackedUp
  <2>1. CASE listed'[q] = listed[q] /\ files'[q] = files[q]
      BY <1>2, <2>1 DEF BackupInv, BackupsCoverChanges, BatchChangesAreBackedUp
  <2>2. CASE q = p /\ files[p] /= Absent /\ CreateBackup(p)
    <3>1. \E b \in listed'[p] : b.checksum = files[p]
        BY <1>1, <1>2, <2>2, CreateBackupKeeps
    <3>2. files[p] = batch.before[p]
        BY <1>1, <1>2, <2>2 DEF BackupInv, DeletesOrKeeps
    <3>3. QED  BY <1>2, <2>2, <3>1, <3>2
  <2>3. CASE q = p /\ files' = files /\ CreateBackupFails(p)
    <3>1. files[p] /= Absent /\ (listed' = listed \/ \E b \in listed'[p] : b.checksum = files[p])
        BY <1>1, <1>2, <2>3, FailedBackupKeeps
    <3>2. files[p] = batch.before[p]
        BY <1>1, <1>2, <2>3, <3>1 DEF BackupInv, DeletesOrKeeps
    <3>3. QED  BY <1>2, <2>3, <3>2
  <2>4. CASE q = p /\ UNCHANGED <<files, listed>>
      BY <2>1, <2>4
  <2>5. QED  BY <1>2, <1>3, <1>4, <1>5, <2>1, <2>2, <2>3, <2>4
<1>10. QED  BY <1>5, <1>6, <1>7, <1>8, <1>9 DEF BackupInv, BackupsCoverChanges

\* A renaming or copy makes no backups.
LEMMA RenameOrCopyStep == ASSUME BackupInv, RenameNext \/ CopyNext PROVE BackupInv'
<1> DEFINE p == Head(batch.todo)
           q == RenamedTo[p]
<1>1. /\ BackupTypes /\ VersionsDiffer /\ ListedBackupsAreIntact /\ BatchFits /\ batch \in BatchState
      /\ batch.pc \in {"rename", "copy"} /\ UNCHANGED <<disk, listed, now, made>>
      /\ batch' = Advanced /\ files \in [Paths -> Held] /\ {Empty, Absent} \subseteq Held
    BY DEF BackupInv, BackupsCoverChanges, RenameNext, CopyNext, BackupTypes, Held
<1>2. ~ batch.backup
    BY <1>1 DEF BatchFits
<1>3. batch' \in BatchState /\ p \in Paths /\ q \in Paths
    BY <1>1, AdvancedBatch, BackupsAssumption
<1> HIDE DEF p, q
<1>4. files' \in [Paths -> Held]
  <2>1. CASE RenameNext
    <3>1. files' = files \/ files' = [files EXCEPT ![q] = files[p], ![p] = Absent]
        BY <2>1, SMTT(60) DEF RenameNext, Renamed, p, q
    <3>2. QED  BY <1>1, <1>3, <3>1
  <2>2. CASE CopyNext
    <3>1. PICK c \in {Empty, files[p]} : files' = files \/ files' = [files EXCEPT ![q] = c]
        BY <2>2 DEF CopyNext, p, q
    <3>2. QED  BY <1>1, <1>3, <3>1
  <2>3. QED  BY <2>1, <2>2
<1>5. BackupTypes' /\ VersionsDiffer' /\ ListedBackupsAreIntact'
    BY <1>1, <1>3, <1>4 DEF BackupTypes, VersionsDiffer, ListedBackupsAreIntact
<1>6. QED  BY <1>1, <1>2, <1>4, <1>5, PlainStep

LEMMA BackupStep == BackupInv /\ [Next]_vars => BackupInv'
<1> SUFFICES ASSUME BackupInv, [Next]_vars PROVE BackupInv'
    OBVIOUS
<1>1. CASE UNCHANGED backupVars
    BY <1>1 DEF backupVars, BackupInv, BackupTypes, VersionsDiffer, BatchFits, EditsAreCovered, Covered,
                DeletesOrKeeps, BackupsCoverChanges, ListedBackupsAreIntact, BatchChangesAreBackedUp
<1>2. CASE Backup \/ RestoreBackup \/ DeleteBackup \/ CleanupExpired
    BY <1>2, BackupToolStep
<1>3. CASE LoadMetadata \/ BatchEnds
  <2>1. /\ batch' = NoBatch /\ (listed' = [p \in Paths |-> {}] \/ listed' = listed)
        /\ UNCHANGED <<files, disk, now, made>>
      BY <1>3 DEF LoadMetadata, BatchEnds
  <2>2. NoBatch \in BatchState /\ ~ NoBatch.backup /\ NoBatch.pc = "idle"
    <3>1. [p \in Paths |-> Absent] \in [Paths -> Held] /\ <<>> \in Seq(Paths)
        BY DEF Held
    <3>2. QED  BY <3>1 DEF NoBatch, BatchState
  <2>3. BackupTypes' /\ VersionsDiffer' /\ ListedBackupsAreIntact'
      BY <2>1, <2>2 DEF BackupInv, BackupsCoverChanges, BackupTypes, VersionsDiffer,
                        ListedBackupsAreIntact
  <2>4. BatchFits' /\ EditsAreCovered' /\ DeletesOrKeeps' /\ BatchChangesAreBackedUp'
      BY <2>1, <2>2 DEF BatchFits, EditsAreCovered, DeletesOrKeeps, BatchChangesAreBackedUp
  <2>5. QED  BY <2>3, <2>4 DEF BackupInv, BackupsCoverChanges
<1>4. CASE BackupTick
  <2>1. now' \in 1..MaxNow /\ UNCHANGED <<files, disk, listed, batch, made>>
      BY <1>4, BackupsAssumption DEF BackupTick, BackupInv, BackupTypes
  <2>2. QED
      BY <2>1 DEF BackupInv, BackupTypes, VersionsDiffer, BatchFits, EditsAreCovered, Covered,
                  DeletesOrKeeps, BackupsCoverChanges, ListedBackupsAreIntact, BatchChangesAreBackedUp
<1>5. CASE BatchEdit
  <2>1. PICK names \in BatchFiles, backup \in BOOLEAN :
            /\ Begin("edit", IF backup THEN "backup" ELSE "edit", names, backup)
            /\ UNCHANGED <<files, disk, listed, now, made>>
      BY <1>5 DEF BatchEdit
  <2>2. CASE backup
      BY <2>1, <2>2, BeginStep
  <2>3. CASE ~ backup
      BY <2>1, <2>3, BeginStep
  <2>4. QED  BY <2>2, <2>3
<1>6. CASE BatchDelete
    BY <1>6, BeginStep DEF BatchDelete
<1>7. CASE BatchRename
    BY <1>7, BeginStep DEF BatchRename
<1>8. CASE BatchCopy
  <2>1. PICK names \in BatchFiles, overwrite \in BOOLEAN :
            /\ Begin(IF overwrite THEN "overwrite" ELSE "copy", "copy", names, FALSE)
            /\ UNCHANGED <<files, disk, listed, now, made>>
      BY <1>8 DEF BatchCopy
  <2>2. CASE overwrite
      BY <2>1, <2>2, BeginStep
  <2>3. CASE ~ overwrite
      BY <2>1, <2>3, BeginStep
  <2>4. QED  BY <2>2, <2>3
<1>9. BackupNext \/ UNCHANGED backupVars
    BY StepOfATool
<1>10. QED
    BY <1>1, <1>2, <1>3, <1>4, <1>5, <1>6, <1>7, <1>8, <1>9, BatchBackupStep, EditNextStep,
       DeleteNextStep, RenameOrCopyStep DEF BackupNext

(* A backup that is listed holds what it was made of, and while a batch edit or deletion   *)
(* with backups runs, whatever it has changed can be restored (file_backup.go and          *)
(* multi_file_ops.go, a file that is named twice and failures included).                   *)
THEOREM BackupsKeepWhatChanges == Spec => []BackupsCoverChanges
<1>1. Init => BackupInv
  <2> SUFFICES ASSUME Init PROVE BackupInv
      OBVIOUS
  <2>1. BackupInit
      BY Zenon DEF Init
  <2>2. /\ files \in [Paths -> Held] /\ disk \in [Keys -> Held] /\ listed = [p \in Paths |-> {}]
        /\ now = 1 /\ batch = NoBatch /\ made = 0
      BY <2>1 DEF BackupInit, Held
  <2>3. batch \in BatchState /\ ~ batch.backup /\ batch.pc = "idle"
    <3>1. [p \in Paths |-> Absent] \in [Paths -> Held] /\ <<>> \in Seq(Paths)
        BY DEF Held
    <3>2. QED  BY <2>2, <3>1 DEF NoBatch, BatchState
  <2>4. BackupTypes /\ VersionsDiffer
      BY <2>2, <2>3, BackupsAssumption DEF BackupTypes, VersionsDiffer
  <2>5. BatchFits /\ EditsAreCovered /\ DeletesOrKeeps
      BY <2>3 DEF BatchFits, EditsAreCovered, DeletesOrKeeps
  <2>6. BackupsCoverChanges
      BY <2>2, <2>3 DEF BackupsCoverChanges, ListedBackupsAreIntact, BatchChangesAreBackedUp
  <2>7. QED  BY <2>4, <2>5, <2>6 DEF BackupInv
<1>2. BackupInv /\ [Next]_vars => BackupInv'
    BY BackupStep
<1>3. BackupInv => BackupsCoverChanges
    BY DEF BackupInv
<1>4. QED  BY <1>1, <1>2, <1>3, PTL DEF Spec

-----------------------------------------------------------------------------
(***************************************************************************)
(* The audit trail.                                                        *)
(***************************************************************************)
\* Merged entries are those of the log or of memory, and are cut to those.
LEMMA MergeKeeps ==
    ASSUME NEW t, NEW es, NEW logged, NEW last, Identified(es, last), Identified(logged, last)
    PROVE  /\ Identified(Newest(t, Merge(logged, es)), last)
           /\ \A e \in Newest(t, Merge(logged, es)) :
                  e \in es \/ (e \in logged /\ e.id \notin Ids(es))
<1> DEFINE all == Merge(logged, es)
<1>1. \A e \in all : e \in es \/ (e \in logged /\ e.id \notin Ids(es))
    BY DEF Merge
<1>2. all \subseteq es \cup logged
    BY <1>1
<1>3. IsFiniteSet(es \cup logged)
    BY FS_Union DEF Identified
<1>4. Newest(t, all) \subseteq all
    BY DEF Newest
<1>5. IsFiniteSet(Newest(t, all))
    BY <1>2, <1>3, <1>4, FS_Subset
<1>6. \A d, e \in all : d.id = e.id => d = e
    BY <1>1 DEF Identified, Ids
<1>7. QED  BY <1>1, <1>2, <1>4, <1>5, <1>6 DEF Identified

\* An entry with as many newer ones in memory as the log has places is not in the log.
LEMMA OldestIsDropped ==
    ASSUME NEW t \in Trails, NEW es, NEW logged, NEW last, Identified(es, last),
           Identified(logged, last), NEW e, \A d \in es : d.id > e.id,
           Cardinality(es) >= MaxEntries[t]
    PROVE  e \notin Newest(t, Merge(logged, es))
<1> DEFINE all == Merge(logged, es)
<1>1. es \subseteq NewerIn(all, e) /\ NewerIn(all, e) \subseteq es \cup logged
    BY DEF NewerIn, Merge
<1>2. IsFiniteSet(es \cup logged)
    BY FS_Union DEF Identified
<1>3. IsFiniteSet(NewerIn(all, e))
    BY <1>1, <1>2, FS_Subset
<1>4. /\ Cardinality(es) \in Nat /\ Cardinality(NewerIn(all, e)) \in Nat
      /\ Cardinality(es) <= Cardinality(NewerIn(all, e))
    BY <1>1, <1>3, FS_Subset, FS_CardinalityType DEF Identified
<1>5. MaxEntries[t] \in Nat
    BY TrailAssumption
<1>6. ~ (Cardinality(NewerIn(all, e)) < MaxEntries[t])
    BY <1>4, <1>5
<1>7. QED  BY <1>6 DEF Newest

\* Completing entries, and keeping some of them, leaves their identifiers as they are.
LEMMA CompletedFits ==
    ASSUME NEW last, NEW kept, Identified(kept, last), NEW id \in 1..last
    PROVE  LET done == {Completed(e, id) : e \in kept}
           IN /\ Identified(done, last)
              /\ Ids(done) = Ids(kept)
              /\ \A b \in done : b.status = "pending" => b \in kept /\ b.id /= id
<1> DEFINE done == {Completed(e, id) : e \in kept}
<1>1. PICK c : c = [id |-> id, status |-> "ended"]
    OBVIOUS
<1>2. /\ IsFiniteSet(kept)
      /\ \A e \in kept : e = [id |-> e.id, status |-> e.status] /\ e.id \in 1..last
      /\ \A d, e \in kept : d.id = e.id => d = e
    BY DEF Identified
<1>3. \A e \in kept : Completed(e, id) = IF e.id = id THEN c ELSE e
    BY <1>1, <1>2 DEF Completed
<1>4. c.id = id /\ c.status = "ended" /\ c = [id |-> c.id, status |-> c.status]
    BY <1>1
<1>5. \A b \in done : b = c \/ (b \in kept /\ b.id /= id)
    BY <1>3
<1>6. IsFiniteSet(done)
  <2>1. IsFiniteSet(kept \cup {c}) /\ done \subseteq kept \cup {c}
      BY <1>2, <1>5, FS_AddElement
  <2>2. QED  BY <2>1, FS_Subset
<1>7. \A d, e \in done : d.id = e.id => d = e
    BY <1>2, <1>4, <1>5
<1>8. Ids(done) = Ids(kept)
  <2>1. \A e \in kept : Completed(e, id) \in done /\ Completed(e, id).id = e.id
      BY <1>3, <1>4
  <2>2. \A b \in done : \E e \in kept : b.id = e.id
      BY <1>3, <1>4
  <2>3. QED  BY <2>1, <2>2 DEF Ids
<1>9. Identified(done, last)
    BY <1>2, <1>4, <1>5, <1>6, <1>7 DEF Identified
<1>10. QED  BY <1>4, <1>5, <1>8, <1>9

\* What is identified stays so as entries are made.
LEMMA IdentifiedLater ==
    ASSUME NEW es, NEW last \in Nat, NEW later \in Nat, last <= later, Identified(es, last)
    PROVE  Identified(es, later)
BY DEF Identified

LEMMA LogReadIdentified ==
    ASSUME TrailInv, NEW logged \in ReadLog
    PROVE  logged \in {trailLog, {}} /\ Identified(logged, lastId)
<1>1. logged \in {trailLog, {}}
    BY DEF ReadLog
<1>2. QED  BY <1>1, FS_EmptySet DEF TrailInv, AllIdentified, Identified

\* What a call changes before it writes the log.
LEMMA ChangesKeep ==
    ASSUME TrailInv, NEW es, NEW ends, Changes(es, ends), flush["files"].pc = "idle",
           lastId' \in Nat, lastId <= lastId', Identified(es, lastId'), running \subseteq running',
           ends \in {0} \cup Ids(entries),
           \A e \in es : e.status = "pending" => e.id \in (running' \ {ends}) \cup abandoned,
           ends /= 0 => ends \in Ids(es),
           \A e \in trailLog : e.id \in Ids(entries) =>
               e.id \in Ids(es) \/ e \notin Newest("files", Merge(trailLog, es))
    PROVE  TrailInv'
<1>1. PICK logged \in ReadLog :
          flush' = [flush EXCEPT !["files"] =
                       [pc |-> "write", content |-> Newest("files", Merge(logged, es)),
                        held |-> Ids(entries \cup es), ends |-> ends]]
    BY DEF Changes, Flush
<1>2. /\ entries' = es /\ UNCHANGED <<loaded, trailLog, unlogged, abandoned>>
    BY DEF Changes
<1>3. PICK content : content = Newest("files", Merge(logged, es))
    OBVIOUS
<1>4. /\ DOMAIN flush' = Trails /\ flush'["tool"] = flush["tool"]
      /\ flush'["files"] = [pc |-> "write", content |-> content, held |-> Ids(entries \cup es),
                            ends |-> ends]
    BY <1>1, <1>3 DEF TrailInv, FlushTypes, Trails
<1>5. /\ flush'["files"].pc = "write" /\ flush'["files"].content = content
      /\ flush'["files"].held = Ids(entries \cup es) /\ flush'["files"].ends = ends
    BY <1>4
<1>6. flush["files"].held = {} /\ flush["files"].content = {}
    BY DEF TrailInv, FlushTypes, NoFlush, Trails
<1>7. Ids(entries) \subseteq Ids(entries \cup es)
    BY DEF Ids
<1>8. FlushTypes'
    BY <1>4, <1>5, <1>7 DEF TrailInv, FlushTypes, Trails
<1>9. logged \in {trailLog, {}} /\ Identified(logged, lastId')
    BY LogReadIdentified, IdentifiedLater DEF TrailInv, AllIdentified
<1>10. /\ Identified(content, lastId')
       /\ \A e \in content : e \in es \/ (e \in logged /\ e.id \notin Ids(es))
    BY <1>3, <1>9, MergeKeeps
<1>11. AllIdentified'
  <2>1. Identified(loaded, lastId') /\ Identified(trailLog, lastId')
        /\ Identified(flush["tool"].content, lastId')
      BY IdentifiedLater DEF TrailInv, AllIdentified, Trails
  <2>2. QED  BY <1>2, <1>4, <1>5, <1>10, <2>1 DEF AllIdentified, Trails
<1>12. PendingInMemory'
    BY <1>2, <1>5 DEF PendingInMemory
<1>13. PendingInLog'
    BY <1>2, <1>5, <1>6, <1>7 DEF TrailInv, PendingInLog
<1>14. ASSUME NEW e \in content, e.status = "pending"
       PROVE  \/ e.id \in abandoned
              \/ e.id \in unlogged /\ e.id \notin Ids(es)
              \/ e.id \in running' \ {ends} /\ e.id \in Ids(es)
  <2>1. CASE e \in es
      BY <1>14, <2>1 DEF Ids
  <2>2. CASE e \in logged /\ e.id \notin Ids(es)
    <3>1. e \in trailLog /\ logged = trailLog
        BY <1>9, <2>2
    <3>2. e.id \notin Ids(entries)
        BY <1>3, <2>2, <3>1
    <3>3. QED  BY <1>6, <1>14, <2>2, <3>1, <3>2 DEF TrailInv, PendingInLog
  <2>3. QED  BY <1>10, <2>1, <2>2
<1>15. PendingInFlush'
    BY <1>2, <1>5, <1>14 DEF PendingInFlush
<1>16. QED  BY <1>8, <1>11, <1>12, <1>13, <1>15 DEF TrailInv

\* A new entry has an identifier above all others.
LEMMA NewEntryFits ==
    ASSUME TrailInv, lastId' = lastId + 1, NEW status
    PROVE  /\ NewEntry(status) \notin entries
           /\ Identified(entries \cup {NewEntry(status)}, lastId')
           /\ \A e \in entries : e.id < NewEntry(status).id
           /\ NewEntry(status).status = status /\ NewEntry(status).id = lastId + 1
           /\ lastId \in Nat /\ lastId' \in Nat /\ lastId <= lastId'
<1> DEFINE new == NewEntry(status)
<1>1. /\ new = [id |-> lastId + 1, status |-> status] /\ new.id = lastId + 1 /\ new.status = status
      /\ lastId \in Nat
    BY DEF NewEntry, TrailInv, AllIdentified
<1> HIDE DEF new
<1>2. \A e \in entries : e = [id |-> e.id, status |-> e.status] /\ e.id \in 1..lastId
    BY DEF TrailInv, AllIdentified, Identified
<1>3. IsFiniteSet(entries \cup {new})
    BY FS_AddElement DEF TrailInv, AllIdentified, Identified
<1>4. \A d, e \in entries \cup {new} : d.id = e.id => d = e
    BY <1>1, <1>2 DEF TrailInv, AllIdentified, Identified
<1>5. \A e \in entries \cup {new} : e = [id |-> e.id, status |-> e.status] /\ e.id \in 1..(lastId + 1)
    BY <1>1, <1>2
<1>6. QED  BY <1>1, <1>2, <1>3, <1>4, <1>5 DEF Identified, new

\* Idle, no call is about to end an operation.
LEMMA IdleEndsNothing ==
    ASSUME TrailInv, flush["files"].pc = "idle"
    PROVE  /\ flush["files"].ends = 0
           /\ \A e \in entries : e.status = "pending" => e.id \in running \cup abandoned /\ e.id /= 0
<1>1. flush["files"].ends = 0
    BY DEF TrailInv, FlushTypes, NoFlush, Trails
<1>2. \A e \in entries : e.id /= 0
    BY DEF TrailInv, AllIdentified, Identified
<1>3. QED  BY <1>1, <1>2 DEF TrailInv, PendingInMemory

LEMMA LogOperationStep == ASSUME TrailInv, LogOperation PROVE TrailInv'
<1> DEFINE new == NewEntry("ended")
           all == entries \cup {new}
<1>1. /\ lastId' = lastId + 1 /\ flush["files"].pc = "idle"
      /\ Changes(IF Cardinality(all) > MaxEntries["files"] THEN WithoutOldest(all) ELSE all, 0)
      /\ UNCHANGED running
    BY DEF LogOperation, Returned
<1>2. /\ Identified(all, lastId') /\ \A e \in entries : e.id < new.id
      /\ new.status = "ended" /\ new.id = lastId + 1 /\ lastId \in Nat
      /\ lastId' \in Nat /\ lastId <= lastId'
    BY <1>1, NewEntryFits
<1> HIDE DEF new
<1>3. PICK es : es = IF Cardinality(all) > MaxEntries["files"] THEN WithoutOldest(all) ELSE all
    OBVIOUS
<1>4. es = all \/ (es = WithoutOldest(all) /\ Cardinality(all) > MaxEntries["files"])
    BY <1>3
<1>5. es \subseteq all
    BY <1>4 DEF WithoutOldest
<1>6. Identified(es, lastId')
  <2>1. IsFiniteSet(all)
      BY <1>2 DEF Identified
  <2>2. IsFiniteSet(es)
      BY <1>5, <2>1, FS_Subset
  <2>3. QED  BY <1>2, <1>5, <2>2 DEF Identified
<1>7. \A e \in es : e.status = "pending" => e.id \in (running' \ {0}) \cup abandoned
    BY <1>1, <1>2, <1>5, IdleEndsNothing
<1>8. ASSUME NEW e \in trailLog, e.id \in Ids(entries), e.id \notin Ids(es)
      PROVE  e \notin Newest("files", Merge(trailLog, es))
  <2>1. PICK d \in entries : d.id = e.id
      BY <1>8 DEF Ids
  <2>2. d \in all /\ d \notin es /\ es = WithoutOldest(all) /\ Cardinality(all) > MaxEntries["files"]
      BY <1>4, <1>8, <2>1 DEF Ids
  <2>3. \A c \in all : c.id \in Nat
      BY <1>1, <1>2 DEF Identified
  <2>4. \A c \in all : c.id >= d.id
      BY <2>2, <2>3 DEF WithoutOldest
  <2>5. es = all \ {d}
    <3>1. ASSUME NEW c \in all, c /= d PROVE c \in es
      <4>1. c.id /= d.id
          BY <1>2, <2>2, <3>1 DEF Identified
      <4>2. d.id < c.id
          BY <2>2, <2>3, <2>4, <4>1
      <4>3. QED  BY <2>2, <4>2 DEF WithoutOldest
    <3>2. QED  BY <1>5, <2>2, <3>1
  <2>6. Cardinality(es) >= MaxEntries["files"]
    <3>1. IsFiniteSet(all) /\ Cardinality(all) \in Nat
        BY <1>2, FS_CardinalityType DEF Identified
    <3>2. Cardinality(all \ {d}) = Cardinality(all) - 1
        BY <2>2, <3>1, FS_RemoveElement
    <3>3. PICK max : max = MaxEntries["files"]
        OBVIOUS
    <3>4. max \in Nat /\ Cardinality(all) > max
        BY <2>2, <3>3, TrailAssumption DEF Trails
    <3>5. Cardinality(all \ {d}) >= max
        BY <3>1, <3>2, <3>4
    <3>6. QED  BY <2>5, <3>3, <3>5
  <2>7. \A c \in es : c.id > e.id
      BY <1>2, <2>1, <2>2, <2>3, <2>4, <2>5 DEF Identified
  <2>8. Identified(trailLog, lastId')
      BY <1>2, IdentifiedLater DEF AllIdentified, TrailInv
  <2>9. QED  BY <1>6, <2>6, <2>7, <2>8, OldestIsDropped DEF Trails
<1>9. Changes(es, 0) /\ running \subseteq running'
    BY <1>1, <1>3
<1>10. QED  BY <1>1, <1>2, <1>6, <1>7, <1>8, <1>9, ChangesKeep

LEMMA StartOperationStep == ASSUME TrailInv, StartOperation PROVE TrailInv'
<1> DEFINE new == NewEntry("pending")
<1>1. /\ lastId' = lastId + 1 /\ flush["files"].pc = "idle" /\ running' = running \cup {lastId + 1}
      /\ Changes(entries \cup {new}, 0)
    BY DEF StartOperation, Returned
<1>2. /\ Identified(entries \cup {new}, lastId') /\ new.id = lastId + 1
      /\ lastId \in Nat /\ lastId' \in Nat /\ lastId <= lastId'
    BY <1>1, NewEntryFits
<1> HIDE DEF new
<1>3. PICK es : es = entries \cup {new}
    OBVIOUS
<1>4. \A e \in es : e.status = "pending" => e.id \in (running' \ {0}) \cup abandoned
    BY <1>1, <1>2, <1>3, IdleEndsNothing
<1>5. Ids(entries) \subseteq Ids(es)
    BY <1>3 DEF Ids
<1>6. Changes(es, 0) /\ running \subseteq running' /\ Identified(es, lastId')
    BY <1>1, <1>2, <1>3
<1>7. QED  BY <1>1, <1>2, <1>4, <1>5, <1>6, ChangesKeep

\* The entry is completed in memory, unless memory has lost it.
LEMMA CompleteOperationStep == ASSUME TrailInv, CompleteOperation PROVE TrailInv'
<1>1. PICK id \in running :
          /\ flush["files"].pc = "idle" /\ UNCHANGED lastId
          /\ IF id \in Ids(entries)
             THEN Changes({Completed(e, id) : e \in entries}, id) /\ UNCHANGED running
             ELSE /\ running' = running \ {id}
                  /\ UNCHANGED <<entries, loaded, trailLog, flush, unlogged, abandoned>>
    BY DEF CompleteOperation, Returned
<1>2. flush["files"].held = {} /\ flush["files"].content = {}
    BY <1>1 DEF TrailInv, FlushTypes, NoFlush, Trails
<1>3. CASE id \notin Ids(entries)
  <2>1. /\ running' = running \ {id}
        /\ UNCHANGED <<entries, loaded, trailLog, flush, unlogged, abandoned, lastId>>
      BY <1>1, <1>3
  <2>2. FlushTypes' /\ AllIdentified'
      BY <2>1 DEF TrailInv, FlushTypes, AllIdentified
  <2>3. PendingInMemory'
      BY <1>3, <2>1 DEF TrailInv, PendingInMemory, Ids
  <2>4. PendingInLog'
      BY <1>2, <1>3, <2>1 DEF TrailInv, PendingInLog
  <2>5. PendingInFlush'
      BY <1>2, <2>1 DEF PendingInFlush
  <2>6. QED  BY <2>2, <2>3, <2>4, <2>5 DEF TrailInv
<1>4. CASE id \in Ids(entries)
  <2>1. PICK es : es = {Completed(e, id) : e \in entries}
      OBVIOUS
  <2>2. Identified(entries, lastId) /\ id \in 1..lastId /\ lastId \in Nat
      BY <1>4 DEF TrailInv, AllIdentified, Identified, Ids
  <2>3. /\ Identified(es, lastId) /\ Ids(es) = Ids(entries)
        /\ \A b \in es : b.status = "pending" => b \in entries /\ b.id /= id
      BY <2>1, <2>2, CompletedFits
  <2>4. \A e \in es : e.status = "pending" => e.id \in (running' \ {id}) \cup abandoned
      BY <1>1, <1>4, <2>3, IdleEndsNothing
  <2>5. /\ Changes(es, id) /\ lastId' \in Nat /\ lastId <= lastId' /\ running \subseteq running'
        /\ Identified(es, lastId')
      BY <1>1, <1>4, <2>1, <2>2, <2>3
  <2>6. QED  BY <1>1, <1>4, <2>3, <2>4, <2>5, ChangesKeep
<1>5. QED  BY <1>3, <1>4

\* The tool's trail changes nothing but its memory and what it is about to write.
LEMMA ToolStep ==
    ASSUME TrailInv, NewTool \/ CleanupAuditTrail
    PROVE  TrailInv'
<1>1. UNCHANGED <<entries, trailLog, lastId, running, unlogged, abandoned>>
    BY DEF NewTool, CleanupAuditTrail
<1>2. CASE NewTool
  <2>1. UNCHANGED flush /\ loaded' \in ReadLog
      BY <1>2 DEF NewTool
  <2>2. Identified(loaded', lastId)
      BY <2>1, LogReadIdentified
  <2>3. AllIdentified'
      BY <1>1, <2>1, <2>2 DEF TrailInv, AllIdentified
  <2>4. QED  BY <1>1, <2>1, <2>3
        DEF TrailInv, FlushTypes, PendingInMemory, PendingInLog, PendingInFlush, Ids
<1>3. CASE CleanupAuditTrail
  <2>1. PICK cutoff \in 0..lastId, logged \in ReadLog :
            /\ loaded' = {e \in loaded : e.id > cutoff}
            /\ flush' = [flush EXCEPT !["tool"] =
                            [pc |-> "write", content |-> Newest("tool", Merge(logged, loaded')),
                             held |-> {}, ends |-> 0]]
      BY <1>3 DEF CleanupAuditTrail, Flush
  <2>2. PICK es : es = loaded'
      OBVIOUS
  <2>3. PICK content : content = Newest("tool", Merge(logged, es))
      OBVIOUS
  <2>4. /\ DOMAIN flush' = Trails /\ flush'["files"] = flush["files"]
        /\ flush'["tool"] = [pc |-> "write", content |-> content, held |-> {}, ends |-> 0]
      BY <2>1, <2>2, <2>3 DEF TrailInv, FlushTypes, Trails
  <2>5. es \subseteq loaded
      BY <2>1, <2>2
  <2>6. IsFiniteSet(es)
      BY <2>5, FS_Subset DEF TrailInv, AllIdentified, Identified
  <2>7. Identified(es, lastId)
      BY <2>5, <2>6 DEF TrailInv, AllIdentified, Identified
  <2>8. Identified(content, lastId)
      BY <2>3, <2>7, LogReadIdentified, MergeKeeps
  <2>9. FlushTypes'
      BY <2>4 DEF TrailInv, FlushTypes, Trails
  <2>10. AllIdentified'
      BY <1>1, <2>2, <2>4, <2>7, <2>8 DEF TrailInv, AllIdentified, Trails
  <2>11. PendingInMemory' /\ PendingInLog' /\ PendingInFlush'
      BY <1>1, <2>4 DEF TrailInv, PendingInMemory, PendingInLog, PendingInFlush, Ids
  <2>12. QED  BY <2>9, <2>10, <2>11 DEF TrailInv
<1>4. QED  BY <1>2, <1>3

\* The second half of a flush, which may fail.
LEMMA WriteLogStep ==
    ASSUME TrailInv, NEW t \in Trails, WriteLog(t)
    PROVE  TrailInv'
<1>1. /\ flush' = [flush EXCEPT ![t] = NoFlush] /\ running' = running \ {flush[t].ends}
      /\ UNCHANGED <<entries, loaded, lastId, abandoned>>
      /\ \/ /\ trailLog' \in {flush[t].content, {}}
            /\ unlogged' = IF t = "files" THEN unlogged \ Ids(entries)
                           ELSE unlogged \cup Ids(Pending(trailLog'))
         \/ /\ trailLog' \in {trailLog, {}}
            /\ unlogged' = unlogged \cup flush[t].held
    BY DEF WriteLog
<1>2. PICK none : none = NoFlush
    OBVIOUS
<1>3. /\ none.pc = "idle" /\ none.content = {} /\ none.held = {} /\ none.ends = 0
    BY <1>2 DEF NoFlush
<1>4. /\ DOMAIN flush' = Trails /\ flush'[t] = none
      /\ \A u \in Trails \ {t} : flush'[u] = flush[u]
    BY <1>1, <1>2 DEF TrailInv, FlushTypes
<1>5. FlushTypes'
    BY <1>2, <1>3, <1>4 DEF TrailInv, FlushTypes, Trails
<1>6. \A es : es = {} => Identified(es, lastId)
    BY FS_EmptySet DEF Identified
<1>7. AllIdentified'
    BY <1>1, <1>3, <1>4, <1>6 DEF TrailInv, AllIdentified
<1>8. /\ \A e \in entries : e.id /= 0
      /\ \A e \in trailLog : e.id /= 0
      /\ \A e \in flush["files"].content : e.id /= 0
    BY DEF TrailInv, AllIdentified, Identified, Trails
<1>9. CASE t = "tool"
  <2>1. /\ flush["tool"].ends = 0 /\ flush["tool"].held = {} /\ flush'["files"] = flush["files"]
      BY <1>4, <1>9 DEF TrailInv, FlushTypes, Trails
  <2>2. running' = running \ {0} /\ unlogged \subseteq unlogged'
      BY <1>1, <1>9, <2>1
  <2>3. PendingInMemory'
      BY <1>1, <1>8, <2>1, <2>2 DEF TrailInv, PendingInMemory
  <2>4. PendingInFlush'
      BY <1>1, <1>8, <2>1, <2>2 DEF TrailInv, PendingInFlush
  <2>5. ASSUME NEW e \in trailLog', e.status = "pending"
        PROVE  \/ e.id \in abandoned \cup unlogged'
               \/ e.id \in running' /\ e.id \in Ids(entries) \cup flush["files"].held
    <3>1. CASE unlogged' = unlogged \cup Ids(Pending(trailLog'))
        BY <2>5, <3>1 DEF Ids, Pending
    <3>2. CASE trailLog' \in {trailLog, {}}
        BY <1>8, <2>2, <2>5, <3>2 DEF TrailInv, PendingInLog
    <3>3. QED  BY <1>1, <1>9, <3>1, <3>2
  <2>6. PendingInLog'
      BY <1>1, <2>1, <2>5 DEF PendingInLog
  <2>7. QED  BY <1>5, <1>7, <2>3, <2>4, <2>6 DEF TrailInv
<1>10. CASE t = "files"
  <2>1. flush'["files"] = none /\ running' = running \ {flush["files"].ends}
      BY <1>1, <1>4, <1>10
  <2>2. PendingInMemory'
      BY <1>1, <1>3, <1>8, <2>1 DEF TrailInv, PendingInMemory
  <2>3. PendingInFlush'
      BY <1>3, <2>1 DEF PendingInFlush
  <2>4. ASSUME NEW e \in trailLog', e.status = "pending"
        PROVE  e.id \in abandoned \cup unlogged' \/ (e.id \in running' /\ e.id \in Ids(entries))
    <3>1. CASE /\ trailLog' \in {flush["files"].content, {}}
               /\ unlogged' = unlogged \ Ids(entries)
        BY <2>1, <2>4, <3>1 DEF TrailInv, PendingInFlush
    <3>2. CASE /\ trailLog' \in {trailLog, {}}
               /\ unlogged' = unlogged \cup flush["files"].held
      <4>1. \/ e.id \in abandoned \cup unlogged
            \/ e.id \in running /\ e.id \in Ids(entries) \cup flush["files"].held
          BY <2>4, <3>2 DEF TrailInv, PendingInLog
      <4>2. flush["files"].ends \in {0} \cup flush["files"].held
          BY DEF TrailInv, FlushTypes
      <4>3. e.id /= 0
          BY <1>8, <3>2, <2>4
      <4>4. QED  BY <2>1, <3>2, <4>1, <4>2, <4>3
    <3>3. QED  BY <1>1, <1>10, <3>1, <3>2
  <2>5. PendingInLog'
      BY <1>1, <1>3, <2>1, <2>4 DEF PendingInLog
  <2>6. QED  BY <1>5, <1>7, <2>2, <2>3, <2>5 DEF TrailInv
<1>11. QED  BY <1>9, <1>10 DEF Trails

\* What memory had when calls overlap is abandoned, and what it had not stays as it was.
LEMMA OverlapStep == ASSUME TrailInv, Overlap PROVE TrailInv'
<1> DEFINE new == NewEntry("pending")
           all == entries \cup {new}
<1>1. PICK kept \in SUBSET all, id \in Ids(all) :
          /\ flush["files"].pc = "write" /\ lastId' = lastId + 1
          /\ running' = running \cup {lastId + 1}
          /\ entries' = {Completed(e, id) : e \in kept}
          /\ UNCHANGED flush \/ Flush("files", entries', flush["files"].held, flush["files"].ends)
          /\ trailLog' \in {trailLog, flush["files"].content}
          /\ abandoned' = abandoned \cup Ids(all) \cup flush["files"].held
          /\ UNCHANGED <<loaded, unlogged>>
    BY DEF Overlap
<1>2. /\ Identified(all, lastId') /\ new.id = lastId + 1
      /\ lastId \in Nat /\ lastId' \in Nat /\ lastId <= lastId'
    BY <1>1, NewEntryFits
<1> HIDE DEF new
<1>3. PICK es : es = {Completed(e, id) : e \in kept}
    OBVIOUS
<1>4. entries' = es
    BY <1>1, <1>3
<1>5. Identified(es, lastId') /\ Ids(es) \subseteq Ids(all)
  <2>1. IsFiniteSet(kept)
      BY <1>1, <1>2, FS_Subset DEF Identified
  <2>2. Identified(kept, lastId') /\ id \in 1..lastId' /\ Ids(kept) \subseteq Ids(all)
      BY <1>1, <1>2, <2>1 DEF Identified, Ids
  <2>3. Identified(es, lastId') /\ Ids(es) = Ids(kept)
      BY <1>2, <1>3, <2>2, CompletedFits
  <2>4. QED  BY <2>2, <2>3
<1>6. Ids(all) = Ids(entries) \cup {lastId + 1}
  <2>1. \A e \in all : e \in entries \/ e.id = lastId + 1
      BY <1>2
  <2>2. new \in all /\ new.id = lastId + 1 /\ entries \subseteq all
      BY <1>2
  <2>3. QED  BY <2>1, <2>2 DEF Ids
<1>7. PICK first : first = flush'["files"]
    OBVIOUS
<1>8. /\ DOMAIN flush' = Trails /\ flush'["tool"] = flush["tool"]
      /\ first.pc = "write" /\ first.held = flush["files"].held /\ first.ends = flush["files"].ends
      /\ Identified(first.content, lastId')
      /\ \A e \in first.content :
             \/ e \in flush["files"].content
             \/ e \in es
             \/ e \in trailLog /\ e.id \notin Ids(es)
  <2>1. Identified(flush["files"].content, lastId')
      BY <1>2, IdentifiedLater DEF TrailInv, AllIdentified, Trails
  <2>2. CASE UNCHANGED flush
      BY <1>1, <1>7, <2>1, <2>2 DEF TrailInv, FlushTypes
  <2>3. CASE Flush("files", es, flush["files"].held, flush["files"].ends)
    <3>1. PICK logged \in ReadLog :
              flush' = [flush EXCEPT !["files"] =
                           [pc |-> "write", content |-> Newest("files", Merge(logged, es)),
                            held |-> flush["files"].held, ends |-> flush["files"].ends]]
        BY <2>3 DEF Flush
    <3>2. PICK content : content = Newest("files", Merge(logged, es))
        OBVIOUS
    <3>3. /\ DOMAIN flush' = Trails /\ flush'["tool"] = flush["tool"]
          /\ first = [pc |-> "write", content |-> content, held |-> flush["files"].held,
                      ends |-> flush["files"].ends]
        BY <1>7, <3>1, <3>2 DEF TrailInv, FlushTypes, Trails
    <3>4. logged \in {trailLog, {}} /\ Identified(logged, lastId')
        BY <1>2, LogReadIdentified, IdentifiedLater
    <3>5. Identified(content, lastId')
          /\ \A e \in content : e \in es \/ (e \in logged /\ e.id \notin Ids(es))
        BY <1>5, <3>2, <3>4, MergeKeeps
    <3>6. QED  BY <3>3, <3>4, <3>5
  <2>4. QED  BY <1>1, <1>3, <2>2, <2>3
<1>9. FlushTypes'
    BY <1>7, <1>8 DEF TrailInv, FlushTypes, Trails
<1>10. AllIdentified'
  <2>1. /\ Identified(loaded, lastId') /\ Identified(trailLog, lastId')
        /\ Identified(flush["tool"].content, lastId') /\ Identified(flush["files"].content, lastId')
      BY <1>2, IdentifiedLater DEF TrailInv, AllIdentified, Trails
  <2>2. QED  BY <1>1, <1>2, <1>4, <1>5, <1>7, <1>8, <2>1 DEF AllIdentified, Trails
<1>11. PendingInMemory'
    BY <1>1, <1>4, <1>5 DEF PendingInMemory, Ids
<1>12. \A e \in flush["files"].content : e.status = "pending" =>
           e.id \in abandoned' \/ (e.id \in unlogged /\ e.id \notin Ids(es))
  <2>1. \A e \in flush["files"].content : e.id /= lastId + 1
      BY <1>2 DEF TrailInv, AllIdentified, Identified, Trails
  <2>2. QED  BY <1>1, <1>5, <1>6, <2>1 DEF TrailInv, PendingInFlush
<1>13. \A e \in trailLog : e.status = "pending" => e.id \in abandoned' \cup unlogged
    BY <1>1, <1>6 DEF TrailInv, PendingInLog
<1>14. PendingInLog'
    BY <1>1, <1>12, <1>13 DEF PendingInLog
<1>15. PendingInFlush'
  <2>1. \A e \in es : e.id \in abandoned'
      BY <1>1, <1>5 DEF Ids
  <2>2. QED  BY <1>1, <1>4, <1>7, <1>8, <1>12, <1>13, <2>1 DEF PendingInFlush
<1>16. QED  BY <1>9, <1>10, <1>11, <1>14, <1>15 DEF TrailInv

LEMMA RestartStep == ASSUME TrailInv, Restart PROVE TrailInv'
<1>1. /\ trailLog' \in ReadLog /\ entries' \in {{}, trailLog'} /\ loaded' = {}
      /\ flush' = [t \in Trails |-> NoFlush]
      /\ abandoned' = abandoned \cup Ids(Pending(trailLog')) /\ UNCHANGED <<lastId, unlogged>>
    BY DEF Restart
<1>2. PICK none : none = NoFlush
    OBVIOUS
<1>3. /\ none.content = {} /\ none.held = {} /\ none.ends = 0
    BY <1>2 DEF NoFlush
<1>4. DOMAIN flush' = Trails /\ \A t \in Trails : flush'[t] = none
    BY <1>1, <1>2
<1>5. Identified(trailLog', lastId) /\ Identified({}, lastId)
    BY <1>1, LogReadIdentified, FS_EmptySet DEF Identified
<1>6. FlushTypes'
    BY <1>2, <1>3, <1>4 DEF FlushTypes, Trails
<1>7. AllIdentified'
    BY <1>1, <1>3, <1>4, <1>5 DEF TrailInv, AllIdentified
<1>8. \A e \in trailLog' : e.status = "pending" => e.id \in abandoned'
    BY <1>1 DEF Ids, Pending
<1>9. PendingInMemory' /\ PendingInLog'
    BY <1>1, <1>8 DEF PendingInMemory, PendingInLog
<1>10. PendingInFlush'
    BY <1>3, <1>4 DEF PendingInFlush, Trails
<1>11. QED  BY <1>6, <1>7, <1>9, <1>10 DEF TrailInv

LEMMA TrailStep == TrailInv /\ [Next]_vars => TrailInv'
<1> SUFFICES ASSUME TrailInv, [Next]_vars PROVE TrailInv'
    OBVIOUS
<1>1. CASE UNCHANGED trailVars
    BY <1>1
    DEF trailVars, TrailInv, FlushTypes, AllIdentified, PendingInMemory, PendingInLog,
        PendingInFlush, Ids
<1>2. QED
    BY <1>1, StepOfATool, LogOperationStep, StartOperationStep, CompleteOperationStep, ToolStep,
       WriteLogStep, OverlapStep, RestartStep
    DEF TrailNext

(* An operation that has ended does not stay pending in the log (audit_trail.go: Flush,    *)
(* CompleteOperation and cleanupAuditTrail), whatever two memories over one log evict,     *)
(* merge and write in an order of their own; what a failed flush, overlapping calls, a     *)
(* cleanup or an end of the program leaves is told apart.                                  *)
THEOREM EndedOperationsAreLogged == Spec => []EndedIsNotPending
<1>1. Init => TrailInv
  <2> SUFFICES ASSUME Init PROVE TrailInv
      OBVIOUS
  <2>1. TrailInit
      BY Zenon DEF Init
  <2>2. PICK none : none = NoFlush
      OBVIOUS
  <2>3. none.content = {} /\ none.held = {} /\ none.ends = 0
      BY <2>2 DEF NoFlush
  <2>4. DOMAIN flush = Trails /\ \A t \in Trails : flush[t] = none
      BY <2>1, <2>2 DEF TrailInit
  <2>5. FlushTypes
      BY <2>2, <2>3, <2>4 DEF FlushTypes, Trails
  <2>6. Identified({}, 0)
      BY FS_EmptySet DEF Identified
  <2>7. AllIdentified
      BY <2>1, <2>3, <2>4, <2>6 DEF TrailInit, AllIdentified
  <2>8. PendingInMemory /\ PendingInLog /\ PendingInFlush
      BY <2>1, <2>3, <2>4 DEF TrailInit, PendingInMemory, PendingInLog, PendingInFlush, Trails
  <2>9. QED  BY <2>5, <2>7, <2>8 DEF TrailInv
<1>2. TrailInv /\ [Next]_vars => TrailInv'
    BY TrailStep
<1>3. TrailInv => EndedIsNotPending
    BY DEF TrailInv, PendingInLog, EndedIsNotPending, Ids, Pending
<1>4. QED  BY <1>1, <1>2, <1>3, PTL DEF Spec

-----------------------------------------------------------------------------
(***************************************************************************)
(* Writing a file.                                                         *)
(***************************************************************************)
LEMMA SecondsAreCounted == MaxSecond \in Nat /\ MaxSecond >= 1
<1>1. MaxSecond \in Nat \ {0}
    BY Zenon, TextsAssumption
<1>2. QED  BY <1>1

LEMMA FileStep ==
    TextIsSomewhere /\ NothingIsLost /\ [Next]_vars => TextIsSomewhere' /\ NothingIsLost'
<1> SUFFICES ASSUME TextIsSomewhere, NothingIsLost, [Next]_vars
             PROVE  TextIsSomewhere' /\ NothingIsLost'
    OBVIOUS
<1> USE DEF TextIsSomewhere, NothingIsLost
<1>1. CASE UNCHANGED fileVars
    BY <1>1 DEF fileVars
<1>2. ASSUME call'.pc \in {"backup", "open"}, call'.stamp = 0, call'.before = text,
             DOMAIN call' = DOMAIN Idle, UNCHANGED <<text, bak, second>>
      PROVE  TextIsSomewhere' /\ NothingIsLost'
    BY <1>2, SecondsAreCounted
<1>3. CASE WriteFile
  <2>1. PICK new \in Texts, createBackup \in BOOLEAN, append \in BOOLEAN :
            /\ call' = [Idle EXCEPT
                 !.number = call.number + 1,
                 !.pc = IF createBackup /\ text /= NoFile /\ ~ append THEN "backup" ELSE "open",
                 !.operation = IF append THEN "append" ELSE "write",
                 !.before = text,
                 !.new = IF append /\ text /= NoFile THEN text \o new ELSE new]
            /\ UNCHANGED <<text, bak, second>>
      BY <1>3, Zenon DEF WriteFile
  <2> DEFINE pc == IF createBackup /\ text /= NoFile /\ ~ append THEN "backup" ELSE "open"
             after == IF append /\ text /= NoFile THEN text \o new ELSE new
             operation == IF append THEN "append" ELSE "write"
             number == call.number + 1
  <2>2. pc \in {"backup", "open"}
      BY Zenon
  <2>3. call' = [Idle EXCEPT !.number = number, !.pc = pc, !.operation = operation,
                             !.before = text, !.new = after]
      BY <2>1, Zenon
  <2> HIDE DEF pc, after, operation, number
  <2>4. /\ call'.pc = pc /\ call'.stamp = 0 /\ call'.before = text
        /\ DOMAIN call' = DOMAIN Idle
      BY <2>3 DEF Idle
  <2>5. QED  BY <1>2, <2>1, <2>2, <2>4
<1>4. CASE EditFile
  <2>1. PICK e \in Edits, createBackup \in BOOLEAN :
            /\ call' = [Idle EXCEPT !.number = call.number + 1,
                                    !.pc = IF createBackup THEN "backup" ELSE "open",
                                    !.operation = "edit", !.before = text, !.edit = e,
                                    !.new = ApplyEdit(text, e).text,
                                    !.changes = ApplyEdit(text, e).changes]
            /\ UNCHANGED <<text, bak, second>>
      BY <1>4, Zenon DEF EditFile
  <2> DEFINE pc == IF createBackup THEN "backup" ELSE "open"
             number == call.number + 1
             after == ApplyEdit(text, e).text
             changes == ApplyEdit(text, e).changes
  <2>2. pc \in {"backup", "open"}
      BY Zenon
  <2>3. call' = [Idle EXCEPT !.number = number, !.pc = pc, !.operation = "edit",
                             !.before = text, !.edit = e, !.new = after, !.changes = changes]
      BY <2>1, Zenon
  <2> HIDE DEF pc, after, changes, number
  <2>4. /\ call'.pc = pc /\ call'.stamp = 0 /\ call'.before = text
        /\ DOMAIN call' = DOMAIN Idle
      BY <2>3 DEF Idle
  <2>5. QED  BY <1>2, <2>1, <2>2, <2>4
<1>5. CASE CopyToBackup
  <2>1. /\ call.pc = "backup" /\ bak' = [bak EXCEPT ![second] = text]
        /\ call' = [call EXCEPT !.pc = "open", !.stamp = second] /\ UNCHANGED <<text, second>>
      BY <1>5 DEF CopyToBackup
  <2>2. DOMAIN call' = DOMAIN Idle /\ call'.pc = "open" /\ call'.stamp = second
        /\ call'.before = call.before
      BY <2>1 DEF Idle
  <2>3. QED  BY <2>1, <2>2
<1>6. CASE BackupFails
  <2>1. /\ call.pc = "backup" /\ bak' \in {bak, [bak EXCEPT ![second] = <<>>]}
        /\ call' = [call EXCEPT !.pc = "idle", !.outcome = "failed"] /\ UNCHANGED <<text, second>>
      BY <1>6 DEF BackupFails, Return
  <2>2. DOMAIN call' = DOMAIN Idle /\ call'.pc = "idle" /\ call'.stamp = call.stamp
      BY <2>1 DEF Idle
  <2>3. DOMAIN bak' = DOMAIN bak
      BY <2>1
  <2>4. QED  BY <2>1, <2>2, <2>3
<1>7. ASSUME NEW next, NEW outcome, call' = [call EXCEPT !.pc = next, !.outcome = outcome],
             UNCHANGED <<bak, second>>, call.pc \in {"open", "write", "restore", "sync"},
             next \in {"write", "restore", "sync", "idle"},
             next = "idle" /\ outcome = "failed" /\ call.stamp > 0 => text' = bak[call.stamp]
      PROVE  TextIsSomewhere' /\ NothingIsLost'
  <2>1. /\ DOMAIN call' = DOMAIN Idle /\ call'.pc = next /\ call'.outcome = outcome
        /\ call'.stamp = call.stamp /\ call'.before = call.before
      BY <1>7 DEF Idle
  <2>2. QED  BY <1>7, <2>1
<1>8. \A next : [call EXCEPT !.pc = next] = [call EXCEPT !.pc = next, !.outcome = call.outcome]
    BY DEF Idle
<1>9. RestoreOrReturn =>
        \E next \in {"restore", "idle"} : \E outcome :
            /\ call' = [call EXCEPT !.pc = next, !.outcome = outcome]
            /\ next = "idle" => ~ (call.stamp > 0)
    BY <1>8 DEF RestoreOrReturn, Return
<1>10. CASE OpenFails \/ WriteFails
    BY <1>7, <1>9, <1>10 DEF OpenFails, WriteFails
<1>11. CASE OpenFile
  <2>1. PICK outcome :
            /\ call' = [call EXCEPT !.pc = "write", !.outcome = outcome]
            /\ call.pc = "open" /\ UNCHANGED <<bak, second>>
      BY <1>8, <1>11 DEF OpenFile
  <2>2. QED  BY <1>7, <2>1
<1>12. CASE WriteContent
    BY <1>7, <1>8, <1>12 DEF WriteContent, Return
<1>13. CASE Restore \/ RestoreFails
    BY <1>7, <1>13 DEF Restore, RestoreFails, Return
<1>14. CASE Sync \/ SyncFails \/ Crash
    BY <1>7, <1>14 DEF Sync, SyncFails, Crash, Return
<1>15. CASE FileTick
  <2>1. second' \in 1..MaxSecond /\ UNCHANGED <<text, bak, call>>
      BY <1>15, SecondsAreCounted DEF FileTick
  <2>2. QED  BY <2>1
<1>16. QED
    BY <1>1, <1>5, <1>6, <1>10, <1>11, <1>12, <1>13, <1>14, <1>15, <1>3, <1>4, StepOfATool
    DEF FileNext

(* The text before a call that makes a backup is in the file or in the backup when the      *)
(* call has ended, whichever of its system calls failed or was its last (file_ops.go).      *)
THEOREM TextIsNotLost == Spec => []NothingIsLost
<1>1. Init => TextIsSomewhere /\ NothingIsLost
  <2> SUFFICES ASSUME Init PROVE TextIsSomewhere /\ NothingIsLost
      OBVIOUS
  <2>1. FileInit
      BY Zenon DEF Init
  <2>2. QED
    <3>1. /\ bak = [s \in 1..MaxSecond |-> NoFile] /\ second = 1 /\ call = Idle
        BY <2>1 DEF FileInit
    <3>2. MaxSecond \in Nat /\ 1 \in 1..MaxSecond /\ 0 \in 0..MaxSecond
        BY SecondsAreCounted
    <3>3. QED  BY <3>1, <3>2 DEF Idle, TextIsSomewhere, NothingIsLost
<1>2. TextIsSomewhere /\ NothingIsLost /\ [Next]_vars => TextIsSomewhere' /\ NothingIsLost'
    BY FileStep
<1>3. QED  BY <1>1, <1>2, PTL DEF Spec

-----------------------------------------------------------------------------
(***************************************************************************)
(* Recursion and induction along the naturals, for the walks over sequences.*)
(***************************************************************************)
\* A function of values in T, from a on by the steps of G.
Recursion(T, a, N, G) == \E g \in [0..N -> T] : g[0] = a /\ \A n \in 1..N : g[n] = G[n][g[n - 1]]

\* A recursion along the naturals defines a function, of values in T if its steps stay
\* there.
LEMMA RecursionDefined ==
    ASSUME NEW T, NEW a \in T, NEW N \in Nat, NEW G \in [Nat -> [T -> T]]
    PROVE  Recursion(T, a, N, G)
<1> DEFINE F(g, n) == IF n = 0 THEN a ELSE G[n][g[n - 1]]
           Defined(c) == \E g \in [0..c -> T] : g = [n \in 0..c |-> F(g, n)]
           Lacking == {c \in 0..N : ~ Defined(c)}
<1> HIDE DEF Defined
<1>1. Lacking = {}
  <2> SUFFICES ASSUME Lacking /= {} PROVE FALSE
      OBVIOUS
  <2>1. PICK m \in Lacking : \A c \in Lacking : m <= c
    <3>1. Lacking \in SUBSET Nat
        OBVIOUS
    <3> HIDE DEF Lacking
    <3>2. QED  BY <3>1, LeastNatural
  <2>2. m \in 0..N /\ ~ Defined(m) /\ \A c \in 0..N : c < m => Defined(c)
      BY <2>1
  <2>3. CASE m = 0
    <3> DEFINE h == [n \in 0..0 |-> a]
    <3>1. h \in [0..0 -> T] /\ h = [n \in 0..0 |-> F(h, n)]
        OBVIOUS
    <3> HIDE DEF h
    <3>2. QED  BY <2>2, <2>3, <3>1 DEF Defined
  <2>4. CASE m > 0
    <3>1. m \in Nat /\ m - 1 \in 0..N /\ m - 1 < m
        BY <2>2, <2>4
    <3>2. PICK g \in [0..(m - 1) -> T] : g = [n \in 0..(m - 1) |-> F(g, n)]
        BY <2>2, <3>1 DEF Defined
    <3> DEFINE f == [n \in 0..m |-> IF n = m THEN F(g, m) ELSE g[n]]
    <3>3. \A n \in 0..(m - 1) : f[n] = g[n] /\ g[n] = F(g, n) /\ g[n] \in T
        BY <3>1, <3>2
    <3>4. f[m] = F(g, m)
        BY <3>1
    <3>5. ASSUME NEW n \in 0..m PROVE f[n] = F(f, n) /\ f[n] \in T
      <4> HIDE DEF f
      <4>1. CASE n = 0
        <5>1. n \in 0..(m - 1)
            BY <3>1, <4>1
        <5>2. QED  BY <3>3, <4>1, <5>1
      <4>2. CASE n > 0
        <5>1. n - 1 \in 0..(m - 1) /\ n \in Nat
            BY <3>1, <4>2
        <5>2. f[n - 1] = g[n - 1] /\ g[n - 1] \in T
            BY <3>3, <5>1
        <5>3. f[n] = G[n][g[n - 1]]
          <6>1. CASE n = m
              BY <3>4, <4>2, <6>1
          <6>2. CASE n /= m
            <7>1. n \in 0..(m - 1)
                BY <3>1, <6>2
            <7>2. QED  BY <3>3, <4>2, <7>1
          <6>3. QED  BY <6>1, <6>2
        <5>4. G[n][g[n - 1]] \in T
            BY <5>1, <5>2
        <5>5. QED  BY <4>2, <5>2, <5>3, <5>4
      <4>3. QED  BY <3>1, <4>1, <4>2
    <3>6. f = [n \in 0..m |-> F(f, n)] /\ f \in [0..m -> T]
        BY <3>5
    <3> HIDE DEF f
    <3>7. QED  BY <2>2, <3>6 DEF Defined
  <2>5. QED  BY <2>2, <2>3, <2>4
<1>2. Defined(N)
    BY <1>1
<1>3. PICK g \in [0..N -> T] : g = [n \in 0..N |-> F(g, n)]
    BY <1>2 DEF Defined
<1>4. g[0] = a
    BY <1>3
<1>5. ASSUME NEW n \in 1..N PROVE g[n] = G[n][g[n - 1]]
    BY <1>3
<1>6. QED  BY <1>4, <1>5 DEF Recursion

\* Induction over the first naturals.
LEMMA InductionUpTo ==
    ASSUME NEW N \in Nat, NEW T, 0 \in T, \A n \in 1..N : n - 1 \in T => n \in T
    PROVE  0..N \subseteq T
<1> DEFINE Lacking == (0..N) \ T
<1>1. SUFFICES ASSUME Lacking /= {} PROVE FALSE
    OBVIOUS
<1>2. PICK m \in Lacking : \A k \in Lacking : m <= k
  <2>1. Lacking \in SUBSET Nat
      OBVIOUS
  <2> HIDE DEF Lacking
  <2>2. QED  BY <1>1, <2>1, LeastNatural
<1>3. m \in 1..N /\ m - 1 \in 0..N /\ ~ (m <= m - 1)
    BY <1>2
<1>4. m - 1 \in T
    BY <1>2, <1>3
<1>5. QED  BY <1>2, <1>3, <1>4

-----------------------------------------------------------------------------
(***************************************************************************)
(* Searching.                                                              *)
(***************************************************************************)
\* How far the walk of fuzzyMatchAlgorithm is at each character of the name.
GreedyWalk(q, name) ==
    \E found \in [0..Len(name) -> Seq(Nat)] :
        /\ found[0] = <<>>
        /\ \A p \in 1..Len(name) :
              found[p] = IF Len(found[p - 1]) < Len(q) /\ q[Len(found[p - 1]) + 1] = name[p]
                         THEN Append(found[p - 1], p) ELSE found[p - 1]
        /\ FuzzyPositions(q, name) = found[Len(name)]

LEMMA GreedySteps ==
    ASSUME NEW I, NEW q \in Seq(I), NEW name \in Seq(I)
    PROVE  GreedyWalk(q, name)
<1>1. PICK N \in Nat : N = Len(name)
    OBVIOUS
<1>2. PICK T : T = Seq(Nat)
    OBVIOUS
<1>3. PICK none \in T : none = <<>>
  <2>1. <<>> \in T
      BY <1>2
  <2>2. QED  BY Zenon, <2>1
<1> DEFINE Step(l, p) == IF Len(l) < Len(q) /\ q[Len(l) + 1] = name[p] THEN Append(l, p) ELSE l
           F(h, p) == IF p = 0 THEN none ELSE Step(h[p - 1], p)
<1>4. ASSUME NEW l \in T, NEW p \in 1..N PROVE Step(l, p) \in T
  <2>1. p \in Nat /\ Append(l, p) \in Seq(Nat)
      BY <1>2
  <2>2. QED  BY <1>2, <2>1
<1> HIDE DEF Step
<1>5. PICK g \in [0..N -> T] : g[0] = none /\ \A p \in 1..N : g[p] = Step(g[p - 1], p)
  <2> DEFINE G == [p \in Nat |-> [l \in T |-> IF p \in 1..N THEN Step(l, p) ELSE l]]
  <2>1. G \in [Nat -> [T -> T]]
      BY <1>4
  <2>2. \A p \in 1..N, l \in T : G[p][l] = Step(l, p)
      OBVIOUS
  <2> HIDE DEF G
  <2>3. PICK g \in [0..N -> T] : g[0] = none /\ \A p \in 1..N : g[p] = G[p][g[p - 1]]
    <3>1. Recursion(T, none, N, G)
        BY <2>1, RecursionDefined
    <3>2. QED  BY <3>1 DEF Recursion
  <2>4. ASSUME NEW p \in 1..N PROVE g[p] = Step(g[p - 1], p)
    <3>1. p - 1 \in 0..N
        OBVIOUS
    <3>2. QED  BY <2>2, <2>3, <3>1
  <2>5. QED  BY <2>3, <2>4
<1>6. g = [p \in 0..N |-> F(g, p)]
    BY <1>5
<1> DEFINE L == CHOOSE h : h = [p \in 0..N |-> F(h, p)]
<1>7. L = [p \in 0..N |-> F(L, p)]
    BY <1>6
<1>8. FuzzyPositions(q, name) = L[N]
    BY <1>1, <1>3 DEF FuzzyPositions, Step
<1> HIDE DEF L
<1>9. L[0] = none /\ \A p \in 1..N : L[p] = Step(L[p - 1], p)
    BY <1>7
<1>10. L \in [0..N -> T]
  <2> DEFINE Good == {p \in 0..N : L[p] \in T}
  <2>1. 0 \in Good
      BY <1>9
  <2>2. \A p \in 1..N : p - 1 \in Good => p \in Good
      BY <1>4, <1>9
  <2> HIDE DEF Good
  <2>3. 0..N \subseteq Good
      BY <2>1, <2>2, InductionUpTo
  <2>4. \A p \in 0..N : L[p] \in T
      BY <2>3 DEF Good
  <2>5. QED  BY <1>7, <2>4
<1>11. QED  BY <1>1, <1>2, <1>3, <1>8, <1>9, <1>10 DEF GreedyWalk, Step

\* What has been found after p characters: places up to p that fit the query's first
\* characters, and as many of those as can be.
Sound(q, name, at, p) ==
    /\ Len(at) <= Len(q)
    /\ \A k \in 1..Len(at) : /\ at[k] \in 1..p /\ name[at[k]] = q[k]
                             /\ k > 1 => at[k - 1] < at[k]

LEMMA GreedyIsSound ==
    ASSUME NEW I, NEW q \in Seq(I), NEW name \in Seq(I)
    PROVE  Sound(q, name, FuzzyPositions(q, name), Len(name))
<1>1. PICK N, M : N = Len(name) /\ M = Len(q)
    OBVIOUS
<1>2. N \in Nat /\ M \in Nat
    BY <1>1
<1>3. PICK found \in [0..N -> Seq(Nat)] :
          /\ found[0] = <<>>
          /\ \A p \in 1..N :
                found[p] = IF Len(found[p - 1]) < M /\ q[Len(found[p - 1]) + 1] = name[p]
                           THEN Append(found[p - 1], p) ELSE found[p - 1]
          /\ FuzzyPositions(q, name) = found[N]
  <2>1. GreedyWalk(q, name)
      BY GreedySteps
  <2>2. QED  BY <1>1, <2>1 DEF GreedyWalk
<1> DEFINE Good == {p \in 0..N : Sound(q, name, found[p], p)}
<1>4. 0 \in Good
  <2>1. found[0] = <<>> /\ 0 \in 0..N
      BY <1>2, <1>3
  <2>2. Len(<<>>) = 0
      OBVIOUS
  <2>3. QED  BY <1>1, <1>2, <2>1, <2>2 DEF Sound
<1>5. ASSUME NEW p \in 1..N, p - 1 \in Good PROVE p \in Good
  <2>1. p - 1 \in 0..N /\ p \in 0..N /\ p - 1 \in Nat /\ p \in Nat
      BY <1>2
  <2>2. PICK l \in Seq(Nat) : l = found[p - 1]
      BY <1>3, <2>1
  <2>3. PICK n \in Nat : n = Len(l)
      OBVIOUS
  <2>4. /\ n <= M
        /\ \A k \in 1..n : /\ l[k] \in 1..(p - 1) /\ name[l[k]] = q[k]
                           /\ k > 1 => l[k - 1] < l[k]
      BY <1>1, <1>5, <2>2, <2>3 DEF Sound
  <2>5. CASE n < M /\ q[n + 1] = name[p]
    <3>1. PICK m : m = Append(l, p)
        OBVIOUS
    <3>2. found[p] = m
        BY <1>3, <2>2, <2>3, <2>5, <3>1
    <3>3. Len(m) = n + 1 /\ m[n + 1] = p /\ \A k \in 1..n : m[k] = l[k]
        BY <2>1, <2>3, <3>1
    <3>4. ASSUME NEW k \in 1..n + 1
          PROVE  m[k] \in 1..p /\ name[m[k]] = q[k] /\ (k > 1 => m[k - 1] < m[k])
      <4>1. CASE k = n + 1
        <5>1. k > 1 => n \in 1..n /\ k - 1 = n
            BY <2>3, <4>1
        <5>2. k > 1 => m[k - 1] = l[n] /\ l[n] \in 1..(p - 1)
            BY <2>4, <3>3, <5>1
        <5>3. QED  BY <2>1, <2>5, <3>3, <4>1, <5>2
      <4>2. CASE k /= n + 1
        <5>1. k \in 1..n /\ (k > 1 => k - 1 \in 1..n)
            BY <2>3, <4>2
        <5>2. m[k] = l[k] /\ (k > 1 => m[k - 1] = l[k - 1])
            BY <3>3, <5>1
        <5>3. l[k] \in 1..p
            BY <2>1, <2>4, <5>1
        <5>4. QED  BY <2>4, <5>1, <5>2, <5>3
      <4>3. QED  BY <4>1, <4>2
    <3>5. n + 1 <= M
        BY <1>2, <2>3, <2>5
    <3> DEFINE j == n + 1
    <3>6. Len(m) = j /\ j <= M
        BY <3>3, <3>5
    <3>7. \A k \in 1..j : m[k] \in 1..p /\ name[m[k]] = q[k] /\ (k > 1 => m[k - 1] < m[k])
        BY <3>4
    <3> HIDE DEF j
    <3>8. QED  BY <1>1, <2>1, <3>2, <3>6, <3>7 DEF Sound
  <2>6. CASE ~ (n < M /\ q[n + 1] = name[p])
    <3>1. found[p] = l
        BY <1>3, <2>2, <2>3, <2>6
    <3>2. \A k \in 1..n : l[k] \in 1..p
        BY <2>1, <2>4
    <3>3. QED  BY <1>1, <2>1, <2>3, <2>4, <3>1, <3>2 DEF Sound
  <2>7. QED  BY <2>5, <2>6
<1> HIDE DEF Good
<1>6. \A p \in 1..N : p - 1 \in Good => p \in Good
    BY <1>5
<1>7. 0..N \subseteq Good
    BY <1>2, <1>4, <1>6, InductionUpTo
<1>8. N \in Good
    BY <1>2, <1>7
<1>9. QED  BY <1>1, <1>3, <1>8 DEF Good

LEMMA GreedyIsComplete ==
    ASSUME NEW I, NEW q \in Seq(I), NEW name \in Seq(I), q /= <<>>,
           NEW at \in [DOMAIN q -> DOMAIN name], Fits(q, name, at)
    PROVE  Len(q) <= Len(FuzzyPositions(q, name))
<1>1. PICK N, M : N = Len(name) /\ M = Len(q)
    OBVIOUS
<1>2. N \in Nat /\ M \in Nat /\ DOMAIN q = 1..M /\ DOMAIN name = 1..N /\ M > 0
    BY <1>1
<1>3. PICK found \in [0..N -> Seq(Nat)] :
          /\ found[0] = <<>>
          /\ \A p \in 1..N :
                found[p] = IF Len(found[p - 1]) < M /\ q[Len(found[p - 1]) + 1] = name[p]
                           THEN Append(found[p - 1], p) ELSE found[p - 1]
          /\ FuzzyPositions(q, name) = found[N]
  <2>1. GreedyWalk(q, name)
      BY GreedySteps
  <2>2. QED  BY <1>1, <2>1 DEF GreedyWalk
<1>4. /\ \A k \in 1..M : at[k] \in 1..N /\ name[at[k]] = q[k]
      /\ \A k \in 1..M : k > 1 => at[k - 1] < at[k]
    BY <1>2 DEF Fits
<1> DEFINE Good == {p \in 0..N : \A k \in 1..M : at[k] <= p => k <= Len(found[p])}
<1>5. 0 \in Good
    BY <1>2, <1>4
<1>6. ASSUME NEW p \in 1..N, p - 1 \in Good PROVE p \in Good
  <2>1. p - 1 \in 0..N /\ p \in 0..N /\ p - 1 \in Nat /\ p \in Nat
      BY <1>2
  <2>2. PICK l \in Seq(Nat) : l = found[p - 1]
      BY <1>3, <2>1
  <2>3. PICK n \in Nat : n = Len(l)
      OBVIOUS
  <2>4. \A k \in 1..M : at[k] <= p - 1 => k <= n
      BY <1>6, <2>2, <2>3
  <2>5. PICK m \in Nat : /\ m = Len(found[p]) /\ n <= m
                         /\ n < M /\ q[n + 1] = name[p] => m = n + 1
    <3>1. CASE n < M /\ q[n + 1] = name[p]
      <4>1. found[p] = Append(l, p)
          BY <1>3, <2>2, <2>3, <3>1
      <4>2. Len(Append(l, p)) = n + 1
          BY <2>1, <2>3
      <4>3. QED  BY <2>3, <4>1, <4>2
    <3>2. CASE ~ (n < M /\ q[n + 1] = name[p])
      <4>1. found[p] = l
          BY <1>3, <2>2, <2>3, <3>2
      <4>2. QED  BY <2>3, <3>2, <4>1
    <3>3. QED  BY <3>1, <3>2
  <2>6. ASSUME NEW k \in 1..M, at[k] <= p PROVE k <= m
    <3>1. CASE at[k] <= p - 1
      <4>1. k <= n
          BY <2>4, <3>1
      <4>2. QED  BY <2>3, <2>5, <4>1
    <3>2. CASE ~ (at[k] <= p - 1)
      <4>1. at[k] = p
          BY <1>4, <2>1, <2>6, <3>2
      <4>2. q[k] = name[p]
          BY <1>4, <4>1
      <4>3. k - 1 <= n
        <5>1. CASE k = 1
            BY <2>3, <5>1
        <5>2. CASE k > 1
          <6>1. k - 1 \in 1..M /\ at[k - 1] < p
              BY <1>2, <1>4, <4>1, <5>2
          <6>2. at[k - 1] <= p - 1
              BY <1>4, <2>1, <6>1
          <6>3. QED  BY <2>4, <6>1, <6>2
        <5>3. QED  BY <1>2, <5>1, <5>2
      <4>4. CASE k <= n
          BY <2>3, <2>5, <4>4
      <4>5. CASE ~ (k <= n)
        <5>1. k = n + 1 /\ n < M
          <6>1. k \in Nat /\ k <= M /\ M \in Nat /\ n \in Nat
              BY <1>2
          <6>2. QED  BY ONLY <4>3, <4>5, <6>1
        <5>2. QED  BY <2>5, <4>2, <5>1
      <4>6. QED  BY <4>4, <4>5
    <3>3. QED  BY <3>1, <3>2
  <2>7. QED  BY <2>1, <2>5, <2>6
<1> HIDE DEF Good
<1>7. \A p \in 1..N : p - 1 \in Good => p \in Good
    BY <1>6
<1>8. 0..N \subseteq Good
    BY <1>2, <1>5, <1>7, InductionUpTo
<1>9. N \in Good /\ M \in 1..M
    BY <1>2, <1>8
<1>10. at[M] <= N
    BY <1>2, <1>4, <1>9
<1>11. M <= Len(found[N])
    BY <1>9, <1>10 DEF Good
<1>12. QED  BY <1>1, <1>3, <1>11

\* A sequence, of whatever it is made of.
IsSequence(s) == s \in Seq(ToSet(s))

LEMMA SequenceOf ==
    ASSUME NEW S, NEW s \in Seq(S)
    PROVE  IsSequence(s) /\ DOMAIN s = 1..Len(s) /\ Len(s) \in Nat
<1>1. DOMAIN s = 1..Len(s) /\ Len(s) \in Nat
    OBVIOUS
<1>2. \A i \in 1..Len(s) : s[i] \in ToSet(s)
    BY <1>1 DEF ToSet
<1>3. s \in Seq(ToSet(s))
    BY <1>1, <1>2
<1>4. QED  BY <1>1, <1>3 DEF IsSequence

LEMMA ListedInOrder ==
    ASSUME NEW S, IsFiniteSet(S)
    PROVE  /\ Cardinality(S) \in Nat /\ DOMAIN InOrder(S) = 1..Cardinality(S)
           /\ Cardinality(S) = 0 <=> S = {}
    BY FS_CardinalityType, FS_EmptySet DEF InOrder

LEMMA ShorterRange ==
    ASSUME NEW n \in Nat, NEW k \in Nat, k > 0
    PROVE  1..n - k + 1 \subseteq 1..n
OBVIOUS

\* The matches in a line are places of it, and there is one if the query occurs at all.
LEMMA LineMatchesFinite ==
    ASSUME NEW line \in Seq(STRING), request \in Requests
    PROVE  /\ IsFiniteSet(LineMatches(line))
           /\ LineMatches(line) = {} <=> ~ HasSubstring(line, request.query)
<1>1. PICK N \in Nat : N = Len(line)
    OBVIOUS
<1>occ. /\ Occurrences(line) \subseteq 1..N
      /\ Occurrences(line) = {} <=> ~ HasSubstring(line, request.query)
  <2>1. request.query \in Seq(STRING) \ {<<>>}
      BY SearchAssumption DEF Requests
  <2>2. PICK m \in Nat : m = Len(request.query) /\ m > 0
      BY <2>1
  <2>3. Occurrences(line) \subseteq 1..N
    <3>1. Occurrences(line) \subseteq 1..N - m + 1
        BY <1>1, <2>2 DEF Occurrences
    <3>2. 1..N - m + 1 \subseteq 1..N
        BY <2>2, ShorterRange, Zenon
    <3>3. QED  BY <3>1, <3>2
  <2>4. QED  BY <2>3 DEF Occurrences, HasSubstring
<1>2. PICK T : T = SUBSET (1..N)
    OBVIOUS
<1>3. PICK none \in T : none = {}
  <2>1. {} \in T
      BY <1>2
  <2>2. QED  BY Zenon, <2>1
<1> DEFINE Step(s, p) == IF /\ p \in Occurrences(line)
                            /\ request.regex => \A q \in s : q + Len(request.query) <= p
                         THEN s \cup {p} ELSE s
           F(h, p) == IF p = 0 THEN none ELSE Step(h[p - 1], p)
<1>4. \A s \in T, p \in 1..N : Step(s, p) \in T
    BY <1>2
<1> HIDE DEF Step
<1>5. PICK g \in [0..N -> T] : g[0] = none /\ \A p \in 1..N : g[p] = Step(g[p - 1], p)
  <2> DEFINE G == [p \in Nat |-> [s \in T |-> IF p \in 1..N THEN Step(s, p) ELSE s]]
  <2>1. G \in [Nat -> [T -> T]]
      BY <1>4
  <2>2. \A p \in 1..N, s \in T : G[p][s] = Step(s, p)
      OBVIOUS
  <2> HIDE DEF G
  <2>3. PICK g \in [0..N -> T] : g[0] = none /\ \A p \in 1..N : g[p] = G[p][g[p - 1]]
    <3>1. Recursion(T, none, N, G)
        BY <2>1, RecursionDefined
    <3>2. QED  BY <3>1 DEF Recursion
  <2>4. ASSUME NEW p \in 1..N PROVE g[p] = Step(g[p - 1], p)
    <3>1. p - 1 \in 0..N
        OBVIOUS
    <3>2. QED  BY <2>2, <2>3, <3>1
  <2>5. QED  BY <2>3, <2>4
<1>6. g = [p \in 0..N |-> F(g, p)]
    BY <1>5
<1> DEFINE L == CHOOSE h : h = [p \in 0..N |-> F(h, p)]
<1>7. L = [p \in 0..N |-> F(L, p)]
    BY <1>6
<1>8. LineMatches(line) = L[N]
    BY <1>1, <1>3 DEF LineMatches, Step
<1> HIDE DEF L
<1>9. L[0] = none /\ \A p \in 1..N : L[p] = Step(L[p - 1], p)
    BY <1>7
<1> DEFINE Good == {p \in 0..N : /\ L[p] \in T
                                 /\ L[p] = {} <=> \A o \in 1..p : o \notin Occurrences(line)}
<1>10. 0 \in Good
  <2>1. L[0] \in T /\ L[0] = {} /\ 0 \in 0..N /\ 1..0 = {}
      BY <1>1, <1>3, <1>9
  <2>2. QED  BY <2>1
<1>11. ASSUME NEW p \in 1..N, p - 1 \in Good PROVE p \in Good
  <2>1. PICK s : s = L[p - 1]
      OBVIOUS
  <2>2. /\ s \in T /\ L[p] = Step(s, p) /\ Step(s, p) \in T
        /\ s = {} <=> \A o \in 1..p - 1 : o \notin Occurrences(line)
      BY <1>4, <1>9, <1>11, <2>1
  <2>3. Step(s, p) = {} <=> s = {} /\ p \notin Occurrences(line)
      BY DEF Step
  <2>4. 1..p = (1..p - 1) \cup {p}
      OBVIOUS
  <2>5. QED  BY <2>2, <2>3, <2>4
<1> HIDE DEF Good
<1>12. 0..N \subseteq Good
  <2>1. \A p \in 1..N : p - 1 \in Good => p \in Good
      BY <1>11
  <2>2. QED  BY <1>10, <2>1, InductionUpTo
<1>13. /\ L[N] \in SUBSET (1..N)
       /\ L[N] = {} <=> \A o \in 1..N : o \notin Occurrences(line)
  <2>1. N \in Good
      BY <1>12
  <2>2. QED  BY <1>2, <2>1 DEF Good
<1>14. IsFiniteSet(1..N)
    BY FS_Interval
<1>15. L[N] = {} <=> Occurrences(line) = {}
    BY <1>occ, <1>13
<1>16. QED  BY <1>occ, <1>8, <1>13, <1>14, <1>15, FS_Subset

LEMMA FindInLineListed ==
    ASSUME NEW e \in WalkedEntry, NEW i \in DOMAIN e.lines, request \in Requests
    PROVE  /\ IsSequence(FindInLine(e, i))
           /\ FindInLine(e, i) = <<>> <=> ~ HasSubstring(e.lines[i], request.query)
<1>1. e.lines \in Seq(Seq(STRING))
    BY DEF WalkedEntry
<1>2. e.lines[i] \in Seq(STRING)
    BY <1>1
<1>3. PICK at, n : /\ at = InOrder(LineMatches(e.lines[i])) /\ n \in Nat /\ DOMAIN at = 1..n
                   /\ n = 0 <=> ~ HasSubstring(e.lines[i], request.query)
    BY <1>2, LineMatchesFinite, ListedInOrder
<1>4. PICK s : s = FindInLine(e, i)
    OBVIOUS
<1>5. PICK a : a = Around(e.lines, i, request.context)
    OBVIOUS
<1>6. s = [k \in 1..n |-> [line |-> i, start |-> at[k], around |-> a]]
    BY <1>3, <1>4, <1>5 DEF FindInLine
<1>7. DOMAIN s = 1..n /\ \A k \in 1..n : s[k] \in ToSet(s)
    BY <1>6 DEF ToSet
<1>8. s = [k \in 1..n |-> s[k]]
    BY <1>6
<1>9. s \in Seq(ToSet(s)) /\ Len(s) = n
    BY <1>3, <1>7, <1>8
<1>10. s = <<>> <=> n = 0
    BY <1>3, <1>9
<1>11. QED  BY <1>3, <1>4, <1>9, <1>10 DEF IsSequence

\* A line that a file is returned for.
IsWanted(line) == HasSubstring(line, request.query) /= request.invert

LEMMA GrepFileListed ==
    ASSUME NEW e \in WalkedEntry
    PROVE  /\ Len(GrepFile(e)) \in Nat
           /\ GrepFile(e) = <<>> <=> \A i \in DOMAIN e.lines : ~ IsWanted(e.lines[i])
<1>1. e.lines \in Seq(Seq(STRING))
    BY DEF WalkedEntry
<1>2. PICK n \in Nat : DOMAIN e.lines = 1..n
    BY <1>1
<1>3. PICK S : S = {i \in DOMAIN e.lines : (Occurrences(e.lines[i]) /= {}) /= request.invert}
    OBVIOUS
<1>4. IsFiniteSet(S)
  <2>1. S \subseteq 1..n /\ IsFiniteSet(1..n)
      BY <1>2, <1>3, FS_Interval
  <2>2. QED  BY <2>1, FS_Subset
<1>5. PICK at, m : at = InOrder(S) /\ m \in Nat /\ DOMAIN at = 1..m /\ (m = 0 <=> S = {})
    BY <1>4, ListedInOrder
<1>6. PICK s : s = GrepFile(e)
    OBVIOUS
<1>7. s = [k \in 1..m |-> [line |-> at[k], around |-> Around(e.lines, at[k], request.context)]]
    BY <1>3, <1>5, <1>6 DEF GrepFile
<1>8. DOMAIN s = 1..m /\ \A k \in 1..m : s[k] \in ToSet(s)
    BY <1>7 DEF ToSet
<1>9. s = [k \in 1..m |-> s[k]]
    BY <1>7
<1>10. s \in Seq(ToSet(s)) /\ Len(s) = m
    BY <1>5, <1>8, <1>9
<1>11. s = <<>> <=> m = 0
    BY <1>5, <1>10
<1>12. \A line : (Occurrences(line) /= {}) <=> HasSubstring(line, request.query)
    BY DEF Occurrences, HasSubstring
<1>13. ASSUME NEW i \in DOMAIN e.lines
       PROVE  IsWanted(e.lines[i]) <=> (Occurrences(e.lines[i]) /= {}) /= request.invert
  <2>1. PICK o \in BOOLEAN : o = (Occurrences(e.lines[i]) /= {})
      OBVIOUS
  <2>2. PICK h \in BOOLEAN : h = HasSubstring(e.lines[i], request.query)
      BY Zenon DEF HasSubstring
  <2>3. o = h
      BY <1>12, <2>1, <2>2
  <2>4. QED  BY <2>1, <2>2, <2>3 DEF IsWanted
<1>14. S = {} <=> \A i \in DOMAIN e.lines : ~ IsWanted(e.lines[i])
    BY <1>3, <1>13
<1>15. QED  BY <1>5, <1>6, <1>10, <1>11, <1>14

LEMMA FindInFileListed ==
    ASSUME NEW e \in WalkedEntry, request \in Requests
    PROVE  /\ Len(FindInFile(e)) \in Nat
           /\ FindInFile(e) = <<>>
                <=> \A i \in DOMAIN e.lines : ~ HasSubstring(e.lines[i], request.query)
<1>1. PICK N \in Nat : N = Len(e.lines) /\ DOMAIN e.lines = 1..N
    BY DEF WalkedEntry
<1>2. PICK R : R = UNION {ToSet(FindInLine(e, i)) : i \in 1..N}
    OBVIOUS
<1>3. PICK T : T = Seq(R)
    OBVIOUS
<1>4. PICK none \in T : none = <<>>
  <2>1. <<>> \in T
      BY <1>3
  <2>2. QED  BY Zenon, <2>1
<1>5. ASSUME NEW i \in 1..N PROVE FindInLine(e, i) \in Seq(R)
  <2>1. PICK s : s = FindInLine(e, i)
      OBVIOUS
  <2>2. s \in Seq(ToSet(s))
      BY <1>1, <2>1, FindInLineListed DEF IsSequence
  <2>3. ToSet(s) \subseteq R
      BY <1>2, <2>1
  <2>4. QED  BY <2>1, <2>2, <2>3
<1> DEFINE Step(s, i) == s \o FindInLine(e, i)
           F(h, i) == IF i = 0 THEN none ELSE Step(h[i - 1], i)
<1>6. \A s \in T, i \in 1..N : Step(s, i) \in T
    BY <1>3, <1>5
<1> HIDE DEF Step
<1>7. PICK g \in [0..N -> T] : g[0] = none /\ \A i \in 1..N : g[i] = Step(g[i - 1], i)
  <2> DEFINE G == [i \in Nat |-> [s \in T |-> IF i \in 1..N THEN Step(s, i) ELSE s]]
  <2>1. G \in [Nat -> [T -> T]]
      BY <1>6
  <2>2. \A i \in 1..N, s \in T : G[i][s] = Step(s, i)
      OBVIOUS
  <2> HIDE DEF G
  <2>3. PICK g \in [0..N -> T] : g[0] = none /\ \A i \in 1..N : g[i] = G[i][g[i - 1]]
    <3>1. Recursion(T, none, N, G)
        BY <2>1, RecursionDefined
    <3>2. QED  BY <3>1 DEF Recursion
  <2>4. ASSUME NEW i \in 1..N PROVE g[i] = Step(g[i - 1], i)
    <3>1. i - 1 \in 0..N
        OBVIOUS
    <3>2. QED  BY <2>2, <2>3, <3>1
  <2>5. QED  BY <2>3, <2>4
<1>8. g = [i \in 0..N |-> F(g, i)]
    BY <1>7
<1> DEFINE L == CHOOSE h : h = [i \in 0..N |-> F(h, i)]
<1>9. L = [i \in 0..N |-> F(L, i)]
    BY <1>8
<1>10. FindInFile(e) = L[N]
    BY <1>1, <1>4 DEF FindInFile, Step
<1> HIDE DEF L
<1>11. L[0] = none /\ \A i \in 1..N : L[i] = Step(L[i - 1], i)
    BY <1>9
<1> DEFINE Lacks(i) == ~ HasSubstring(e.lines[i], request.query)
           Good == {i \in 0..N : L[i] \in T /\ (L[i] = none <=> \A j \in 1..i : Lacks(j))}
<1>12. 0 \in Good
    BY <1>11
<1>13. ASSUME NEW i \in 1..N, i - 1 \in Good PROVE i \in Good
  <2>1. PICK s, t : s = L[i - 1] /\ t = FindInLine(e, i)
      OBVIOUS
  <2>2. /\ s \in T /\ L[i] = Step(s, i) /\ Step(s, i) \in T
        /\ s = none <=> \A j \in 1..i - 1 : Lacks(j)
      BY <1>6, <1>11, <1>13, <2>1
  <2>3. t \in Seq(R) /\ (t = <<>> <=> Lacks(i))
      BY <1>1, <1>5, <2>1, FindInLineListed
  <2>4. s \o t = <<>> <=> s = <<>> /\ t = <<>>
      BY <1>3, <2>2, <2>3
  <2>5. Step(s, i) = none <=> s = none /\ Lacks(i)
      BY <1>4, <2>1, <2>3, <2>4 DEF Step
  <2>6. 1..i = (1..i - 1) \cup {i}
      OBVIOUS
  <2> HIDE DEF Lacks
  <2>7. QED  BY <2>2, <2>5, <2>6
<1> HIDE DEF Good
<1>14. 0..N \subseteq Good
  <2>1. \A i \in 1..N : i - 1 \in Good => i \in Good
      BY <1>13
  <2>2. QED  BY <1>12, <2>1, InductionUpTo
<1>15. L[N] \in Seq(R) /\ (L[N] = <<>> <=> \A j \in 1..N : Lacks(j))
  <2>1. N \in Good
      BY <1>14
  <2>2. QED  BY <1>3, <1>4, <2>1 DEF Good
<1>16. QED  BY <1>1, <1>10, <1>15

\* Results, each with its matches.
IsResults(rs) == IsSequence(rs) /\ \A n \in 1..Len(rs) : Len(rs[n].matches) \in Nat

\* What MatchesIn computes: the matches of the first results, one more at a time.
AddsUp(rs, upTo) ==
    /\ upTo \in [0..Len(rs) -> Nat] /\ upTo[0] = 0
    /\ \A n \in 1..Len(rs) : upTo[n] = upTo[n - 1] + Len(rs[n].matches)

Added(rs) == \E upTo : AddsUp(rs, upTo) /\ MatchesIn(rs) = upTo[Len(rs)]

LEMMA MatchesAdded ==
    ASSUME NEW rs, IsResults(rs)
    PROVE  Added(rs)
<1>1. PICK N \in Nat : N = Len(rs)
    BY SequenceOf DEF IsResults, IsSequence
<1>2. PICK T : T = Nat
    OBVIOUS
<1>3. PICK none \in T : none = 0
  <2>1. 0 \in T
      BY <1>2
  <2>2. QED  BY Zenon, <2>1
<1> DEFINE Step(s, n) == s + Len(rs[n].matches)
           F(h, n) == IF n = 0 THEN none ELSE Step(h[n - 1], n)
<1>4. ASSUME NEW s \in T, NEW n \in 1..N PROVE Step(s, n) \in T
  <2>1. Len(rs[n].matches) \in Nat
      BY <1>1 DEF IsResults
  <2>2. QED  BY <1>2, <2>1
<1> HIDE DEF Step
<1>5. PICK g \in [0..N -> T] : g[0] = none /\ \A n \in 1..N : g[n] = Step(g[n - 1], n)
  <2> DEFINE G == [n \in Nat |-> [s \in T |-> IF n \in 1..N THEN Step(s, n) ELSE s]]
  <2>1. G \in [Nat -> [T -> T]]
      BY <1>4
  <2>2. \A n \in 1..N, s \in T : G[n][s] = Step(s, n)
      OBVIOUS
  <2> HIDE DEF G
  <2>3. PICK g \in [0..N -> T] : g[0] = none /\ \A n \in 1..N : g[n] = G[n][g[n - 1]]
    <3>1. Recursion(T, none, N, G)
        BY <2>1, RecursionDefined
    <3>2. QED  BY <3>1 DEF Recursion
  <2>4. ASSUME NEW n \in 1..N PROVE g[n] = Step(g[n - 1], n)
    <3>1. n - 1 \in 0..N
        OBVIOUS
    <3>2. QED  BY <2>2, <2>3, <3>1
  <2>5. QED  BY <2>3, <2>4
<1>6. g = [n \in 0..N |-> F(g, n)]
    BY <1>5
<1> DEFINE L == CHOOSE h : h = [n \in 0..N |-> F(h, n)]
<1>7. L = [n \in 0..N |-> F(L, n)]
    BY <1>6
<1>8. MatchesIn(rs) = L[N]
    BY <1>1, <1>3 DEF MatchesIn, Step
<1> HIDE DEF L
<1>9. L[0] = none /\ \A n \in 1..N : L[n] = Step(L[n - 1], n)
    BY <1>7
<1> DEFINE Good == {n \in 0..N : L[n] \in T}
<1>10. 0 \in Good
    BY <1>9
<1>11. \A n \in 1..N : n - 1 \in Good => n \in Good
    BY <1>4, <1>9
<1> HIDE DEF Good
<1>12. 0..N \subseteq Good
    BY <1>10, <1>11, InductionUpTo
<1>13. L \in [0..N -> Nat]
  <2>1. \A n \in 0..N : L[n] \in Nat
      BY <1>2, <1>12 DEF Good
  <2>2. QED  BY <1>7, <2>1
<1>14. AddsUp(rs, L)
    BY <1>1, <1>3, <1>9, <1>13 DEF AddsUp, Step
<1>15. QED  BY <1>1, <1>8, <1>14 DEF Added

LEMMA OneResultMore ==
    ASSUME NEW rs, IsResults(rs), NEW r, Len(r.matches) \in Nat
    PROVE  /\ IsResults(Append(rs, r)) /\ Len(Append(rs, r)) = Len(rs) + 1
           /\ Front(Append(rs, r)) = rs
           /\ MatchesIn(Append(rs, r)) = MatchesIn(rs) + Len(r.matches)
           /\ MatchesIn(rs) \in Nat
<1>1. PICK S : S = ToSet(rs) \cup {r}
    OBVIOUS
<1>2. rs \in Seq(S) /\ r \in S
    BY <1>1 DEF IsResults, IsSequence
<1>3. PICK ss : ss = Append(rs, r)
    OBVIOUS
<1>4. PICK N \in Nat : N = Len(rs) /\ DOMAIN rs = 1..N
    BY <1>2
<1>5. /\ ss \in Seq(S) /\ Len(ss) = N + 1 /\ ss[N + 1] = r
      /\ \A n \in 1..N : ss[n] = rs[n]
    BY <1>2, <1>3, <1>4
<1>6. IsResults(ss)
  <2>1. IsSequence(ss)
      BY <1>5, SequenceOf
  <2>2. ASSUME NEW n \in 1..N + 1 PROVE Len(ss[n].matches) \in Nat
    <3>1. CASE n = N + 1
        BY <1>5, <3>1
    <3>2. CASE n /= N + 1
      <4>1. n \in 1..N
          BY <1>4, <3>2
      <4>2. QED  BY <1>4, <1>5, <4>1 DEF IsResults
    <3>3. QED  BY <3>1, <3>2
  <2>3. QED  BY <1>5, <2>1, <2>2 DEF IsResults
<1>7. Front(ss) = rs
  <2>1. Front(ss) = SubSeq(ss, 1, (N + 1) - 1)
      BY <1>5 DEF Front
  <2>2. (N + 1) - 1 = N
      BY <1>4
  <2>3. Front(ss) = [n \in 1..N |-> ss[n]]
      BY <1>4, <1>5, <2>1, <2>2
  <2>4. rs = [n \in 1..N |-> rs[n]]
      BY <1>2, <1>4
  <2>5. QED  BY <1>5, <2>3, <2>4
<1>8. PICK up : AddsUp(rs, up) /\ MatchesIn(rs) = up[N]
    BY <1>4, MatchesAdded DEF Added
<1>9. PICK on : AddsUp(ss, on) /\ MatchesIn(ss) = on[N + 1]
    BY <1>5, <1>6, MatchesAdded DEF Added
<1>10. /\ up \in [0..N -> Nat] /\ up[0] = 0
       /\ \A n \in 1..N : up[n] = up[n - 1] + Len(rs[n].matches)
    BY <1>4, <1>8 DEF AddsUp
<1>11. /\ on[0] = 0 /\ \A n \in 1..N + 1 : on[n] = on[n - 1] + Len(ss[n].matches)
    BY <1>5, <1>9 DEF AddsUp
<1> DEFINE Good == {n \in 0..N : on[n] = up[n]}
<1>12. 0 \in Good
    BY <1>4, <1>10, <1>11
<1>13. ASSUME NEW n \in 1..N, n - 1 \in Good PROVE n \in Good
  <2>1. n \in 1..N + 1 /\ n \in 0..N
      BY <1>4
  <2>2. on[n] = up[n - 1] + Len(rs[n].matches)
      BY <1>5, <1>11, <1>13, <2>1
  <2>3. QED  BY <1>10, <2>1, <2>2
<1> HIDE DEF Good
<1>14. \A n \in 1..N : n - 1 \in Good => n \in Good
    BY <1>13
<1>15. 0..N \subseteq Good
    BY <1>4, <1>12, <1>14, InductionUpTo
<1>16. on[N] = up[N] /\ N \in 0..N /\ N + 1 \in 1..N + 1 /\ (N + 1) - 1 = N
    BY <1>4, <1>15 DEF Good
<1>17. on[N + 1] = on[N] + Len(r.matches)
    BY <1>5, <1>11, <1>16
<1>18. up[N] \in Nat
    BY <1>10, <1>16
<1>19. QED  BY <1>3, <1>4, <1>5, <1>6, <1>7, <1>8, <1>9, <1>16, <1>17, <1>18

LEMMA NoResults == IsResults(<<>>) /\ MatchesIn(<<>>) = 0 /\ Len(<<>>) = 0
<1>1. IsResults(<<>>) /\ Len(<<>>) = 0
    BY DEF IsResults, IsSequence
<1>2. PICK none : none = <<>>
    OBVIOUS
<1>3. PICK up : AddsUp(none, up) /\ MatchesIn(none) = up[Len(none)]
    BY <1>1, <1>2, MatchesAdded DEF Added
<1>4. QED  BY <1>1, <1>2, <1>3 DEF AddsUp

-----------------------------------------------------------------------------
\* The walk of grep and findinfiles goes on below the limit only.
Statistics == [searched : Nat, matched : Nat, skipped : Nat, total : Nat]

CountedSoFar ==
    /\ IsResults(results)
    /\ statistics \in Statistics
    /\ position \in DOMAIN workspace => statistics.total < request.max
    /\ ResultsAreCounted

SearchInv ==
    /\ workspace \in Workspaces /\ request \in Requests /\ position \in Nat
    /\ request.tool \in {"grep", "findinfiles"} => CountedSoFar
    /\ FilesAreFound

\* What FilesAreFound says when the walk has passed the entries up to last.
FilesUpTo(last) == {i \in DOMAIN workspace : i <= last /\ ~ workspace[i].isDir}
SearchedUpTo(last) ==
    {i \in FilesUpTo(last) : ShouldProcessFile(workspace[i]) /\ workspace[i].readable}
WantedIn(e) == \E k \in DOMAIN e.lines : IsWanted(e.lines[k])
WantedUpTo(last) == {i \in SearchedUpTo(last) : WantedIn(workspace[i])}

FoundUpTo(last, found, stats) ==
    /\ stats.searched = Cardinality(SearchedUpTo(last))
    /\ stats.skipped = Cardinality(FilesUpTo(last) \ SearchedUpTo(last))
    /\ found = WantedUpTo(last)

LastWalked ==
    IF statistics.total >= request.max THEN results[Len(results)].entry ELSE position - 1

LEMMA FilesFound ==
    FilesAreFound <=>
        (request.tool \in {"grep", "findinfiles"} =>
            FoundUpTo(LastWalked, {r.entry : r \in ToSet(results)}, statistics))
BY DEF FilesAreFound, FoundUpTo, LastWalked, FilesUpTo, SearchedUpTo, WantedUpTo, WantedIn, IsWanted

\* One file more: it is skipped, or searched and perhaps found.
LEMMA OneFileMore ==
    ASSUME SearchInv, NEW p \in DOMAIN workspace, ~ workspace[p].isDir,
           NEW found, NEW stats, FoundUpTo(p - 1, found, stats), NEW more, NEW counts,
           IF ShouldProcessFile(workspace[p]) /\ workspace[p].readable
           THEN /\ counts.searched = stats.searched + 1 /\ counts.skipped = stats.skipped
                /\ more = IF WantedIn(workspace[p]) THEN found \cup {p} ELSE found
           ELSE /\ counts.searched = stats.searched /\ counts.skipped = stats.skipped + 1
                /\ more = found
    PROVE  FoundUpTo(p, more, counts)
<1>1. PICK N \in Nat : DOMAIN workspace = 1..N
    BY SearchAssumption DEF SearchInv
<1>2. PICK W, S : W = FilesUpTo(p - 1) /\ S = SearchedUpTo(p - 1)
    OBVIOUS
<1>3. W \subseteq 1..N /\ S \subseteq W /\ p \notin W /\ FilesUpTo(p) = W \cup {p}
    BY <1>1, <1>2 DEF FilesUpTo, SearchedUpTo
<1>4. IsFiniteSet(W) /\ IsFiniteSet(S) /\ IsFiniteSet(W \ S)
  <2>1. IsFiniteSet(1..N)
      BY FS_Interval
  <2>2. QED  BY <1>3, <2>1, FS_Subset
<1>5. stats.searched = Cardinality(S) /\ stats.skipped = Cardinality(W \ S)
    BY <1>2 DEF FoundUpTo
<1>6. found = {i \in S : WantedIn(workspace[i])}
    BY <1>2 DEF FoundUpTo, WantedUpTo
<1>7. CASE ShouldProcessFile(workspace[p]) /\ workspace[p].readable
  <2>1. SearchedUpTo(p) = S \cup {p}
      BY <1>2, <1>3, <1>7 DEF SearchedUpTo
  <2>2. FilesUpTo(p) \ SearchedUpTo(p) = W \ S /\ p \notin S
      BY <1>3, <2>1
  <2>3. Cardinality(S \cup {p}) = Cardinality(S) + 1
      BY <1>4, <2>2, FS_AddElement
  <2>4. more = {i \in S \cup {p} : WantedIn(workspace[i])}
      BY <1>6, <1>7
  <2>5. QED  BY <1>5, <1>7, <2>1, <2>2, <2>3, <2>4 DEF FoundUpTo, WantedUpTo
<1>8. CASE ~ (ShouldProcessFile(workspace[p]) /\ workspace[p].readable)
  <2>1. SearchedUpTo(p) = S
      BY <1>2, <1>3, <1>8 DEF SearchedUpTo
  <2>2. FilesUpTo(p) \ SearchedUpTo(p) = (W \ S) \cup {p} /\ p \notin W \ S
      BY <1>3, <2>1
  <2>3. Cardinality((W \ S) \cup {p}) = Cardinality(W \ S) + 1
      BY <1>4, <2>2, FS_AddElement
  <2>4. QED  BY <1>5, <1>6, <1>8, <2>1, <2>2, <2>3 DEF FoundUpTo, WantedUpTo
<1>9. QED  BY <1>7, <1>8

\* The workspace and the request stay, and with them what is to be found.
LEMMA FoundStays ==
    ASSUME UNCHANGED <<workspace, request>>, NEW last, NEW found, NEW stats,
           FoundUpTo(last, found, stats), last = LastWalked',
           found = {r.entry : r \in ToSet(results')}, stats = statistics'
    PROVE  FilesAreFound'
<1>1. FoundUpTo(last, found, stats)'
    BY DEF FoundUpTo, FilesUpTo, SearchedUpTo, WantedUpTo, WantedIn, IsWanted, ShouldProcessFile,
           SkippedFor, HasSubstring
<1>2. FoundUpTo(LastWalked, {r.entry : r \in ToSet(results)}, statistics)'
    BY <1>1 DEF FoundUpTo, FilesUpTo, SearchedUpTo, WantedUpTo, WantedIn, IsWanted
<1>3. QED
    BY <1>2
    DEF FilesAreFound, FoundUpTo, LastWalked, FilesUpTo, SearchedUpTo, WantedUpTo, WantedIn, IsWanted

\* The entries of results and of one more.
LEMMA EntriesOfOneMore ==
    ASSUME NEW rs, IsResults(rs), NEW r
    PROVE  LET ss == Append(rs, r)
           IN /\ {s.entry : s \in ToSet(ss)} = {s.entry : s \in ToSet(rs)} \cup {r.entry}
              /\ ss[Len(ss)] = r
<1>1. PICK S : S = ToSet(rs) \cup {r}
    OBVIOUS
<1>2. rs \in Seq(S) /\ r \in S
    BY <1>1 DEF IsResults, IsSequence
<1>3. PICK ss : ss = Append(rs, r)
    OBVIOUS
<1>4. PICK N \in Nat : N = Len(rs) /\ DOMAIN rs = 1..N
    BY <1>2
<1>5. /\ DOMAIN ss = 1..N + 1 /\ Len(ss) = N + 1 /\ ss[N + 1] = r
      /\ \A n \in 1..N : ss[n] = rs[n]
    BY <1>2, <1>3, <1>4
<1>6. 1..N + 1 = 1..N \cup {N + 1}
    BY <1>4
<1>7. ToSet(ss) = ToSet(rs) \cup {r}
    BY <1>4, <1>5, <1>6 DEF ToSet
<1>8. {s.entry : s \in ToSet(ss)} = {s.entry : s \in ToSet(rs)} \cup {r.entry}
    BY <1>7
<1>9. QED  BY <1>3, <1>5, <1>8

LEMMA SearchFileFinds ==
    ASSUME SearchInv, SearchFile
    PROVE  FilesAreFound'
<1>1. /\ workspace' = workspace /\ request' = request /\ request.tool \in {"grep", "findinfiles"}
      /\ position \in DOMAIN workspace /\ ~ Entry.isDir /\ Entry = workspace[position]
    BY DEF SearchFile, Walking, Entry
<1>2. CountedSoFar
    BY <1>1 DEF SearchInv
<1>3. PICK N \in Nat : N = Len(workspace) /\ DOMAIN workspace = 1..N
    BY SearchAssumption DEF SearchInv
<1>4. Entry \in WalkedEntry
    BY <1>1, SearchAssumption DEF SearchInv
<1>5. PICK max \in Nat : max = request.max
    BY SearchAssumption DEF SearchInv, Requests
<1>6. PICK st \in Statistics : st = statistics
    BY <1>2 DEF CountedSoFar
<1>7. st.total < max /\ IsResults(results)
    BY <1>1, <1>2, <1>5, <1>6 DEF CountedSoFar
<1>8. PICK F : F = {r.entry : r \in ToSet(results)}
    OBVIOUS
<1>9. FoundUpTo(position - 1, F, st)
  <2>1. LastWalked = position - 1
      BY <1>5, <1>6, <1>7 DEF LastWalked, Statistics
  <2>2. QED  BY <1>1, <1>6, <1>8, <2>1, FilesFound DEF SearchInv
<1>10. PICK ts, G : ts = statistics' /\ G = {r.entry : r \in ToSet(results')}
    OBVIOUS
<1>11. ASSUME LastWalked' = position, FoundUpTo(position, G, ts) PROVE FilesAreFound'
  <2>1. PICK last : last = LastWalked'
      OBVIOUS
  <2>2. FoundUpTo(last, G, ts)
      BY <1>11, <2>1
  <2>3. QED  BY <1>1, <1>10, <2>1, <2>2, FoundStays
<1>12. CASE ~ (ShouldProcessFile(Entry) /\ Entry.readable)
  <2>1. /\ results' = results /\ statistics' = [st EXCEPT !["skipped"] = @ + 1]
        /\ position' = position + 1
      BY <1>6, <1>12 DEF SearchFile, Counted, Continue
  <2>2. ts.total = st.total /\ ts.searched = st.searched /\ ts.skipped = st.skipped + 1
      BY <1>10, <2>1 DEF Statistics
  <2>3. LastWalked' = position
      BY <1>1, <1>3, <1>5, <1>7, <1>10, <2>1, <2>2 DEF LastWalked, Statistics
  <2>4. G = F
      BY <1>8, <1>10, <2>1
  <2>5. FoundUpTo(position, G, ts)
      BY <1>1, <1>9, <1>12, <2>2, <2>4, OneFileMore
  <2>6. QED  BY <1>11, <2>3, <2>5
<1>13. CASE ShouldProcessFile(Entry) /\ Entry.readable
  <2>1. PICK ms : /\ ms = IF request.tool = "grep" THEN GrepFile(Entry) ELSE FindInFile(Entry)
                  /\ statistics' = FileCounted(ms)
                  /\ results' = IF ms = <<>> THEN results
                                ELSE Append(results, [entry |-> position, score |-> 0, matches |-> ms])
                  /\ IF ms /= <<>> /\ statistics'.total >= request.max THEN Stop ELSE Continue
      BY <1>13 DEF SearchFile
  <2>2. ms = <<>> <=> ~ WantedIn(Entry)
    <3>1. CASE request.tool = "grep"
        BY <1>4, <2>1, <3>1, GrepFileListed DEF WantedIn
    <3>2. CASE request.tool /= "grep"
      <4>1. request.invert = FALSE
          BY <3>2 DEF SearchInv, Requests
      <4>2. \A line : IsWanted(line) <=> HasSubstring(line, request.query)
          BY <4>1 DEF IsWanted, HasSubstring
      <4>3. QED  BY <1>4, <2>1, <3>2, <4>2, FindInFileListed DEF WantedIn, SearchInv
    <3>3. QED  BY <3>1, <3>2
  <2>3. CASE ms = <<>>
    <3>1. /\ results' = results /\ statistics' = [st EXCEPT !["searched"] = @ + 1]
          /\ position' = position + 1
        BY <1>6, <2>1, <2>3 DEF FileCounted, Counted, Continue
    <3>2. ts.total = st.total /\ ts.searched = st.searched + 1 /\ ts.skipped = st.skipped
        BY <1>10, <3>1 DEF Statistics
    <3>3. LastWalked' = position
        BY <1>1, <1>3, <1>5, <1>7, <1>10, <3>1, <3>2 DEF LastWalked, Statistics
    <3>4. G = F
        BY <1>8, <1>10, <3>1
    <3>5. FoundUpTo(position, G, ts)
        BY <1>1, <1>9, <1>13, <2>2, <2>3, <3>2, <3>4, OneFileMore
    <3>6. QED  BY <1>11, <3>3, <3>5
  <2>4. CASE ms /= <<>>
    <3>1. PICK r : r = [entry |-> position, score |-> 0, matches |-> ms]
        OBVIOUS
    <3>2. results' = Append(results, r) /\ r.entry = position
        BY <2>1, <2>4, <3>1
    <3>3. G = F \cup {position} /\ results'[Len(results')] = r
        BY <1>7, <1>8, <1>10, <3>2, EntriesOfOneMore
    <3>4. PICK m : m = Len(ms)
        OBVIOUS
    <3>5. PICK us : us = [st EXCEPT !["searched"] = @ + 1]
        OBVIOUS
    <3>6. us.searched = st.searched + 1 /\ us.skipped = st.skipped /\ us \in Statistics
        BY <3>5 DEF Statistics
    <3>7. ts = [us EXCEPT !.matched = @ + 1, !.total = @ + m]
        BY <1>6, <1>10, <2>1, <2>4, <3>4, <3>5 DEF FileCounted, Counted
    <3>8. ts.searched = us.searched /\ ts.skipped = us.skipped
        BY <3>6, <3>7 DEF Statistics
    <3>9. LastWalked' = position
      <4>1. CASE ts.total >= max
          BY <1>1, <1>5, <1>10, <3>2, <3>3, <4>1 DEF LastWalked
      <4>2. CASE ~ (ts.total >= max)
        <5>1. position' = position + 1
            BY <1>5, <1>10, <2>1, <4>2 DEF Continue
        <5>2. QED  BY <1>1, <1>3, <1>5, <1>10, <4>2, <5>1 DEF LastWalked
      <4>3. QED  BY <4>1, <4>2
    <3>10. FoundUpTo(position, G, ts)
        BY <1>1, <1>9, <1>13, <2>2, <2>4, <3>3, <3>6, <3>8, OneFileMore
    <3>11. QED  BY <1>11, <3>9, <3>10
  <2>5. QED  BY <2>3, <2>4
<1>14. QED  BY <1>12, <1>13

\* Below the limit, or at the end of a walk, a step that is over no file finds nothing more.
LEMMA NothingMore ==
    ASSUME SearchInv, request.tool \in {"grep", "findinfiles"},
           UNCHANGED <<workspace, request, results, statistics>>, position' = position + 1,
           position \in DOMAIN workspace => workspace[position].isDir,
           position \in Nat
    PROVE  FilesAreFound'
<1>1. PICK N \in Nat : DOMAIN workspace = 1..N
    BY SearchAssumption DEF SearchInv
<1>2. PICK F : F = {r.entry : r \in ToSet(results)}
    OBVIOUS
<1>3. FoundUpTo(LastWalked, F, statistics)
    BY <1>2, FilesFound DEF SearchInv
<1>4. PICK last, later : last = LastWalked /\ later = LastWalked'
    OBVIOUS
<1>5. last = later \/ (last = position - 1 /\ later = position)
    BY <1>4 DEF LastWalked
<1>6. FilesUpTo(later) = FilesUpTo(last)
    BY <1>1, <1>5 DEF FilesUpTo
<1>7. FoundUpTo(later, F, statistics)
    BY <1>3, <1>4, <1>6 DEF FoundUpTo, SearchedUpTo, WantedUpTo
<1>8. F = {r.entry : r \in ToSet(results')} /\ statistics = statistics'
    BY <1>2
<1>9. PICK stats : stats = statistics
    OBVIOUS
<1>10. QED  BY <1>4, <1>7, <1>8, <1>9, FoundStays

LEMMA SearchFileKeeps ==
    ASSUME SearchInv, SearchFile
    PROVE  SearchInv'
<1>1. workspace' = workspace /\ request' = request /\ request.tool \in {"grep", "findinfiles"}
    BY DEF SearchFile, Walking
<1>2. CountedSoFar
    BY <1>1 DEF SearchInv
<1>3. PICK N \in Nat : N = Len(workspace) /\ DOMAIN workspace = 1..N
    BY SearchAssumption DEF SearchInv
<1>4. Entry \in WalkedEntry /\ position \in DOMAIN workspace
    BY SearchAssumption DEF SearchInv, SearchFile, Walking, Entry
<1>5. PICK max \in Nat : max = request.max /\ max > 0
  <2>1. request.max \in Limits
      BY DEF SearchInv, Requests
  <2>2. request.max \in Nat \ {0}
      BY <2>1, SearchAssumption
  <2>3. QED  BY <2>2
<1>6. PICK st \in Statistics : st = statistics
    BY <1>2 DEF CountedSoFar
<1>7. /\ IsResults(results) /\ st.total < max /\ st.total = MatchesIn(results)
      /\ st.matched = Len(results) /\ (Len(results) > 1 => MatchesIn(Front(results)) < max)
    BY <1>1, <1>2, <1>4, <1>5, <1>6 DEF CountedSoFar, ResultsAreCounted
<1>8. position' = position + 1 \/ position' = N + 1
    BY <1>3 DEF SearchFile, Continue, Stop
<1>9. position' \in Nat
    BY <1>3, <1>8 DEF SearchInv
<1> DEFINE CountsFit(rs, ts) ==
              /\ IsResults(rs) /\ ts \in Statistics /\ ts.total = MatchesIn(rs) /\ ts.matched = Len(rs)
              /\ Len(rs) > 1 => MatchesIn(Front(rs)) < max
              /\ position' \in DOMAIN workspace => ts.total < max
<1>10. ASSUME NEW rs, NEW ts, rs = results', ts = statistics', CountsFit(rs, ts)
       PROVE  CountedSoFar'
  <2>1. /\ IsResults(results') /\ statistics' \in Statistics
        /\ position' \in DOMAIN workspace' => statistics'.total < request'.max
      BY <1>1, <1>5, <1>10
  <2>2. ResultsAreCounted'
      BY <1>1, <1>5, <1>10 DEF ResultsAreCounted
  <2>3. QED  BY <2>1, <2>2 DEF CountedSoFar
<1>11. ASSUME ~ ShouldProcessFile(Entry) \/ ~ Entry.readable PROVE CountedSoFar'
  <2>1. results' = results /\ statistics' = [st EXCEPT !["skipped"] = @ + 1]
      BY <1>6, <1>11 DEF SearchFile, Counted
  <2>2. PICK ts : ts = statistics'
      OBVIOUS
  <2>3. ts \in Statistics /\ ts.total = st.total /\ ts.matched = st.matched
      BY <2>1, <2>2 DEF Statistics
  <2>4. CountsFit(results, ts)
      BY <1>7, <2>3
  <2>5. QED  BY <1>10, <2>1, <2>2, <2>4
<1>12. ASSUME ShouldProcessFile(Entry) /\ Entry.readable PROVE CountedSoFar'
  <2>1. PICK ms : /\ ms = IF request.tool = "grep" THEN GrepFile(Entry) ELSE FindInFile(Entry)
                  /\ statistics' = FileCounted(ms)
                  /\ results' = IF ms = <<>> THEN results
                                ELSE Append(results, [entry |-> position, score |-> 0, matches |-> ms])
                  /\ IF ms /= <<>> /\ statistics'.total >= request.max THEN Stop ELSE Continue
      BY <1>12 DEF SearchFile
  <2>2. PICK m \in Nat : m = Len(ms)
      BY <1>4, <2>1, GrepFileListed, FindInFileListed DEF SearchInv
  <2>3. PICK ts : ts = statistics'
      OBVIOUS
  <2>4. CASE ms = <<>>
    <3>1. results' = results /\ ts = [st EXCEPT !["searched"] = @ + 1]
        BY <1>6, <2>1, <2>3, <2>4 DEF FileCounted, Counted
    <3>2. ts \in Statistics /\ ts.total = st.total /\ ts.matched = st.matched
        BY <3>1 DEF Statistics
    <3>3. CountsFit(results, ts)
        BY <1>7, <3>2
    <3>4. QED  BY <1>10, <2>3, <3>1, <3>3
  <2>5. CASE ms /= <<>>
    <3>1. PICK r : r = [entry |-> position, score |-> 0, matches |-> ms]
        OBVIOUS
    <3>2. results' = Append(results, r) /\ r.matches = ms
        BY <2>1, <2>5, <3>1
    <3>3. ts = [[st EXCEPT !["searched"] = @ + 1] EXCEPT !.matched = @ + 1, !.total = @ + m]
        BY <1>6, <2>1, <2>2, <2>3, <2>5 DEF FileCounted, Counted
    <3>4. ts \in Statistics /\ ts.total = st.total + m /\ ts.matched = st.matched + 1
      <4>1. PICK us : us = [st EXCEPT !["searched"] = @ + 1]
          OBVIOUS
      <4>2. us \in Statistics /\ us.total = st.total /\ us.matched = st.matched
          BY <4>1 DEF Statistics
      <4>3. ts = [us EXCEPT !.matched = @ + 1, !.total = @ + m]
          BY <3>3, <4>1
      <4>4. PICK vs : vs = [us EXCEPT !.matched = @ + 1]
          OBVIOUS
      <4>5. vs \in Statistics /\ vs.total = us.total /\ vs.matched = us.matched + 1
          BY <4>2, <4>4 DEF Statistics
      <4>6. ts = [vs EXCEPT !.total = @ + m]
          BY <4>3, <4>4
      <4>7. ts \in Statistics /\ ts.total = vs.total + m /\ ts.matched = vs.matched
        <5>1. m \in Nat
            BY <2>2
        <5>2. QED  BY ONLY <4>5, <4>6, <5>1 DEF Statistics
      <4>8. QED  BY <4>2, <4>5, <4>7
    <3>5. PICK rs : rs = results'
        OBVIOUS
    <3>6. /\ IsResults(rs) /\ Len(rs) = Len(results) + 1 /\ Front(rs) = results
          /\ MatchesIn(rs) = MatchesIn(results) + m
        BY <1>7, <2>2, <3>2, <3>5, OneResultMore
    <3>7. position' \in DOMAIN workspace => ts.total < max
      <4>1. CASE ts.total >= max
        <5>1. position' = N + 1
            BY <1>3, <1>5, <2>1, <2>3, <2>5, <4>1 DEF Stop
        <5>2. QED  BY <1>3, <5>1
      <4>2. CASE ~ (ts.total >= max)
          BY <1>5, <3>4, <4>2 DEF Statistics
      <4>3. QED  BY <4>1, <4>2
    <3>8. ts.total = MatchesIn(rs) /\ ts.matched = Len(rs) /\ MatchesIn(Front(rs)) < max
        BY <1>7, <3>4, <3>6
    <3>9. CountsFit(rs, ts)
        BY <3>4, <3>6, <3>7, <3>8
    <3>10. QED  BY <1>10, <2>3, <3>5, <3>9
  <2>6. QED  BY <2>4, <2>5
<1>13. CountedSoFar'
    BY <1>11, <1>12
<1>14. QED  BY <1>1, <1>9, <1>13, SearchFileFinds DEF SearchInv

LEMMA StepOfASearch ==
    ASSUME [Next]_vars
    PROVE  SearchNext \/ UNCHANGED searchVars
BY DEF Next, vars

LEMMA EnterDirectoryKeeps ==
    ASSUME SearchInv, EnterDirectory
    PROVE  SearchInv'
<1>1. /\ workspace' = workspace /\ request' = request /\ results' = results
      /\ statistics' = statistics /\ position \in DOMAIN workspace /\ position' = position + 1
      /\ workspace[position].isDir
    BY DEF EnterDirectory, Walking, Continue, Entry
<1>2. position' \in Nat
    BY <1>1 DEF SearchInv
<1>3. ASSUME request.tool \in {"grep", "findinfiles"} PROVE CountedSoFar'
  <2>1. CountedSoFar
      BY <1>3 DEF SearchInv
  <2>2. statistics.total < request.max
      BY <1>1, <2>1 DEF CountedSoFar
  <2>3. IsResults(results') /\ statistics' \in Statistics /\ ResultsAreCounted'
      BY <1>1, <2>1 DEF CountedSoFar, ResultsAreCounted
  <2>4. QED  BY <1>1, <2>2, <2>3 DEF CountedSoFar
<1>4. FilesAreFound'
  <2>1. CASE request.tool \in {"grep", "findinfiles"}
      BY <1>1, <2>1, NothingMore DEF SearchInv
  <2>2. CASE request.tool \notin {"grep", "findinfiles"}
      BY <1>1, <2>2 DEF FilesAreFound
  <2>3. QED  BY <2>1, <2>2
<1>5. QED  BY <1>1, <1>2, <1>3, <1>4 DEF SearchInv

\* The other tools keep their request.
LEMMA OtherSearchKeeps ==
    ASSUME SearchInv, SearchName \/ FuzzyName \/ TreeEntry \/ ListEntry
    PROVE  SearchInv'
<1>1. /\ workspace' = workspace /\ request' = request
      /\ request.tool \in {"search_files", "fuzzy", "tree", "list_directory"}
    BY DEF SearchName, FuzzyName, TreeEntry, ListEntry, Walking
<1>2. request.tool \notin {"grep", "findinfiles"}
    BY <1>1
<1>3. PICK N \in Nat : N = Len(workspace)
    BY SearchAssumption DEF SearchInv
<1>4. position' = position + 1 \/ position' = N + 1
    BY <1>3 DEF SearchName, FuzzyName, TreeEntry, ListEntry, Continue, Stop
<1>5. position' \in Nat
    BY <1>3, <1>4 DEF SearchInv
<1>6. FilesAreFound'
    BY <1>1, <1>2 DEF FilesAreFound
<1>7. QED  BY <1>1, <1>2, <1>5, <1>6 DEF SearchInv

LEMMA FinishKeeps ==
    ASSUME SearchInv, Finish
    PROVE  SearchInv'
<1>1. /\ workspace' = workspace /\ request' = request /\ statistics' = statistics
      /\ position = Len(workspace) + 1 /\ position' = position + 1
    BY DEF Finish
<1>2. PICK N \in Nat : N = Len(workspace) /\ DOMAIN workspace = 1..N
    BY SearchAssumption DEF SearchInv
<1>3. position' \in Nat /\ position' \notin DOMAIN workspace
    BY <1>1, <1>2
<1>4. ASSUME request.tool \in {"grep", "findinfiles"} PROVE CountedSoFar'
  <2>1. request.tool /= "fuzzy" /\ request.tool /= "search_files"
      BY <1>4
  <2>2. results' = results
      BY Zenon, <2>1 DEF Finish
  <2>3. CountedSoFar
      BY <1>4 DEF SearchInv
  <2>4. IsResults(results') /\ statistics' \in Statistics /\ ResultsAreCounted'
      BY <1>1, <2>2, <2>3 DEF CountedSoFar, ResultsAreCounted
  <2>5. QED  BY <1>1, <1>3, <2>4 DEF CountedSoFar
<1>5. FilesAreFound'
  <2>1. CASE request.tool \in {"grep", "findinfiles"}
    <3>1. results' = results
        BY Zenon, <2>1 DEF Finish
    <3>2. position \in Nat /\ position \notin DOMAIN workspace
        BY <1>1, <1>2
    <3>3. QED  BY <1>1, <2>1, <3>1, <3>2, NothingMore
  <2>2. CASE request.tool \notin {"grep", "findinfiles"}
      BY <1>1, <2>2 DEF FilesAreFound
  <2>3. QED  BY <2>1, <2>2
<1>6. QED  BY <1>1, <1>3, <1>4, <1>5 DEF SearchInv

LEMMA SearchStep == SearchInv /\ [Next]_vars => SearchInv'
<1>1. SUFFICES ASSUME SearchInv, [Next]_vars PROVE SearchInv'
    OBVIOUS
<1>2. CASE SearchFile
    BY <1>1, <1>2, SearchFileKeeps
<1>3. CASE SearchName \/ FuzzyName \/ TreeEntry \/ ListEntry
    BY <1>1, <1>3, OtherSearchKeeps
<1>4. CASE EnterDirectory
    BY <1>1, <1>4, EnterDirectoryKeeps
<1>5. CASE Finish
    BY <1>1, <1>5, FinishKeeps
<1>6. CASE UNCHANGED searchVars
  <2>1. UNCHANGED <<workspace, request, position, results, statistics>>
      BY <1>6 DEF searchVars
  <2>2. PICK F, last, stats : /\ F = {r.entry : r \in ToSet(results)} /\ last = LastWalked
                              /\ stats = statistics
      OBVIOUS
  <2>3. last = LastWalked'
      BY <2>1, <2>2 DEF LastWalked
  <2>4. FilesAreFound'
    <3>1. CASE request.tool \in {"grep", "findinfiles"}
      <4>1. FoundUpTo(last, F, stats)
          BY <1>1, <2>2, <3>1, FilesFound DEF SearchInv
      <4>2. QED  BY <2>1, <2>2, <2>3, <4>1, FoundStays
    <3>2. CASE request.tool \notin {"grep", "findinfiles"}
        BY <2>1, <3>2 DEF FilesAreFound
    <3>3. QED  BY <3>1, <3>2
  <2>5. QED  BY <1>1, <2>1, <2>4 DEF SearchInv, CountedSoFar, ResultsAreCounted
<1>7. QED  BY <1>1, <1>2, <1>3, <1>4, <1>5, <1>6, StepOfASearch DEF SearchNext

LEMMA SearchBegins == Init => SearchInv
<1>1. SUFFICES ASSUME Init PROVE SearchInv
    OBVIOUS
<1>2. SearchInit
    BY Zenon, <1>1 DEF Init
<1>3. /\ workspace \in Workspaces /\ request \in Requests /\ position \in Nat
      /\ results = <<>> /\ statistics = NoStatistics
    BY <1>2 DEF SearchInit
<1>4. statistics \in Statistics /\ statistics.total = 0 /\ statistics.matched = 0
    BY <1>3 DEF Statistics, NoStatistics
<1>5. 0 < request.max
  <2>1. request.max \in Limits
      BY <1>3 DEF Requests
  <2>2. request.max \in Nat \ {0}
      BY <2>1, SearchAssumption
  <2>3. QED  BY <2>2
<1>6. IsResults(results) /\ MatchesIn(results) = 0 /\ Len(results) = 0
    BY <1>3, NoResults
<1>7. ResultsAreCounted
    BY <1>4, <1>6 DEF ResultsAreCounted
<1>8. FilesAreFound
  <2>1. PICK N \in Nat : DOMAIN workspace = 1..N
      BY <1>3, SearchAssumption
  <2>2. position = 1 /\ ~ (statistics.total >= request.max)
    <3>1. request.max \in Limits
        BY <1>3 DEF Requests
    <3>2. PICK max \in Nat : max = request.max
        BY <3>1, SearchAssumption
    <3>3. QED  BY <1>2, <1>4, <1>5, <3>2 DEF SearchInit
  <2>3. LastWalked = 0
      BY <2>2 DEF LastWalked
  <2>4. FilesUpTo(0) = {}
      BY <2>1 DEF FilesUpTo
  <2>5. SearchedUpTo(0) = {} /\ WantedUpTo(0) = {} /\ FilesUpTo(0) \ SearchedUpTo(0) = {}
      BY <2>4 DEF SearchedUpTo, WantedUpTo
  <2>6. ToSet(results) = {}
      BY <1>3 DEF ToSet
  <2>7. statistics.searched = 0 /\ statistics.skipped = 0
      BY <1>3 DEF NoStatistics
  <2>8. FoundUpTo(0, {r.entry : r \in ToSet(results)}, statistics)
      BY <2>5, <2>6, <2>7, FS_EmptySet DEF FoundUpTo
  <2>9. QED  BY <2>3, <2>8, FilesFound
<1>9. QED  BY <1>3, <1>4, <1>5, <1>6, <1>7, <1>8 DEF SearchInv, CountedSoFar

LEMMA GreedyHolds == SearchInv => GreedyFindsSubsequences
<1>1. SUFFICES ASSUME SearchInv, NEW i \in DOMAIN workspace
               PROVE  IF FuzzyMatches(request.query, workspace[i].name)
                      THEN Fits(request.query, workspace[i].name,
                                FuzzyPositions(request.query, workspace[i].name))
                      ELSE \A at \in [DOMAIN request.query -> DOMAIN workspace[i].name] :
                              ~ Fits(request.query, workspace[i].name, at)
    BY DEF GreedyFindsSubsequences
<1>2. workspace[i] \in WalkedEntry
    BY <1>1, SearchAssumption DEF SearchInv
<1>3. PICK name \in Seq(STRING) : name = workspace[i].name
    BY <1>2 DEF WalkedEntry
<1>4. request.query \in Queries
    BY <1>1 DEF SearchInv, Requests
<1>5. PICK q \in Seq(STRING) : q = request.query /\ q /= <<>>
    BY <1>4, SearchAssumption
<1>6. PICK found : found = FuzzyPositions(q, name)
    OBVIOUS
<1>7. Sound(q, name, found, Len(name))
    BY <1>6, GreedyIsSound
<1>8. ASSUME FuzzyMatches(q, name) PROVE Fits(q, name, found)
  <2>1. Len(found) = Len(q) /\ DOMAIN q = 1..Len(q)
      BY <1>6, <1>8 DEF FuzzyMatches
  <2>2. QED  BY <1>7, <2>1 DEF Sound, Fits
<1>9. ASSUME ~ FuzzyMatches(q, name), NEW at \in [DOMAIN q -> DOMAIN name], Fits(q, name, at)
      PROVE  FALSE
  <2>1. Len(q) <= Len(found)
      BY <1>5, <1>6, <1>9, GreedyIsComplete
  <2>2. Len(found) <= Len(q)
      BY <1>7 DEF Sound
  <2>3. found \in Seq(Nat)
    <3>1. GreedyWalk(q, name)
        BY GreedySteps
    <3>2. PICK steps \in [0..Len(name) -> Seq(Nat)] : FuzzyPositions(q, name) = steps[Len(name)]
        BY <3>1 DEF GreedyWalk
    <3>3. Len(name) \in 0..Len(name)
        OBVIOUS
    <3>4. QED  BY <1>6, <3>2, <3>3
  <2>4. Len(found) = Len(q)
      BY <2>1, <2>2, <2>3
  <2>5. QED  BY <1>6, <1>9, <2>4 DEF FuzzyMatches
<1>10. QED  BY <1>3, <1>5, <1>6, <1>8, <1>9

LEMMA CountsHold == SearchInv => ResultsAreCounted /\ FilesAreFound
BY DEF SearchInv, CountedSoFar, ResultsAreCounted

\* fuzzyMatchAlgorithm, which takes every character of the query at the first place it
\* can, finds a query in a name exactly if its characters occur there in their order, and
\* what it reports are such places; grep and findinfiles return exactly those of the files
\* they have walked past that were not skipped and have a line with the query (or without
\* it), count every one as searched or as skipped, and report in numbers the matches they
\* return, of which only the last file's go over max_results: for every workspace, query
\* and limit.
THEOREM SearchesFindWhatIsThere == Spec => []SearchesAreRight
<1>1. SearchInv => SearchesAreRight
    BY GreedyHolds, CountsHold DEF SearchesAreRight
<1>2. QED  BY <1>1, SearchBegins, SearchStep, PTL DEF Spec

-----------------------------------------------------------------------------
(***************************************************************************)
(* The diff.                                                               *)
(***************************************************************************)
Operation == [type : {"equal", "delete", "insert"}, old : Nat, new : Nat, text : FileLines]

\* One operation more.
NextNumber(ops, T, i) ==
    NumberOf(ops, T, i + 1) = NumberOf(ops, T, i) + IF ops[i + 1].type \in T THEN 1 ELSE 0

LEMMA NumberNext ==
    ASSUME NEW ops, NEW T
    PROVE  NumberOf(ops, T, 0) = 0 /\ \A i \in Nat : NumberOf(ops, T, i) \in Nat /\ NextNumber(ops, T, i)
<1> DEFINE Of(i) == {j \in 1..i : ops[j].type \in T}
<1>1. Of(0) = {}
    OBVIOUS
<1>2. NumberOf(ops, T, 0) = 0
    BY <1>1, FS_EmptySet DEF NumberOf
<1>3. ASSUME NEW i \in Nat PROVE NumberOf(ops, T, i) \in Nat /\ NextNumber(ops, T, i)
  <2>1. IsFiniteSet(Of(i))
    <3>1. IsFiniteSet(1..i)
        BY FS_Interval
    <3>2. Of(i) \subseteq 1..i
        OBVIOUS
    <3>3. QED  BY <3>1, <3>2, FS_Subset
  <2>2. Of(i + 1) = IF ops[i + 1].type \in T THEN Of(i) \cup {i + 1} ELSE Of(i)
      OBVIOUS
  <2>3. i + 1 \notin Of(i)
      OBVIOUS
  <2>4. NumberOf(ops, T, i) = Cardinality(Of(i)) /\ NumberOf(ops, T, i + 1) = Cardinality(Of(i + 1))
      BY DEF NumberOf
  <2> HIDE DEF Of
  <2>5. PICK c \in Nat : c = Cardinality(Of(i))
      BY <2>1, FS_CardinalityType
  <2>6. Cardinality(Of(i) \cup {i + 1}) = c + 1
      BY <2>1, <2>3, <2>5, FS_AddElement
  <2>7. CASE ops[i + 1].type \in T
      BY <2>2, <2>4, <2>5, <2>6, <2>7 DEF NextNumber
  <2>8. CASE ops[i + 1].type \notin T
      BY <2>2, <2>4, <2>5, <2>8 DEF NextNumber
  <2>9. QED  BY <2>7, <2>8
<1>4. QED  BY <1>2, <1>3

\* The operations spell n lines from the one behind the first a on.
SpellsFrom(ops, T, lines, a, n) ==
    /\ NumberOf(ops, T, Len(ops)) = n
    /\ \A i \in 1..Len(ops) : ops[i].type \in T => ops[i].text = lines[a + NumberOf(ops, T, i)]

LEMMA SpellsAll ==
    ASSUME NEW ops, NEW more, NEW all, NEW N \in Nat, NEW M \in Nat, N = Len(ops), M = Len(more),
           Len(all) = N + M, \A i \in 1..N : all[i] = ops[i], \A i \in 1..M : all[N + i] = more[i],
           NEW T, NEW lines, NEW a \in Nat, NEW n \in Nat, NEW m \in Nat,
           SpellsFrom(ops, T, lines, a, n), SpellsFrom(more, T, lines, a + n, m)
    PROVE  SpellsFrom(all, T, lines, a, n + m)
<1>1. N = Len(ops) /\ M = Len(more)
    OBVIOUS
<1>3. /\ Len(all) = N + M
      /\ \A i \in 1..N : all[i] = ops[i]
      /\ \A i \in 1..M : all[N + i] = more[i]
    OBVIOUS
<1>4. ASSUME NEW i \in 0..N PROVE NumberOf(all, T, i) = NumberOf(ops, T, i)
  <2>1. {j \in 1..i : all[j].type \in T} = {j \in 1..i : ops[j].type \in T}
      BY <1>3
  <2>2. QED  BY <2>1 DEF NumberOf
<1> DEFINE Good == {i \in 0..M : NumberOf(all, T, N + i) = n + NumberOf(more, T, i)}
<1>5. NumberOf(all, T, N) = n
    BY <1>1, <1>4 DEF SpellsFrom
<1>6. 0 \in Good
    BY <1>1, <1>5, NumberNext
<1>7. ASSUME NEW i \in 1..M, i - 1 \in Good PROVE i \in Good
  <2>1. PICK h \in Nat : h = i - 1
      OBVIOUS
  <2>2. i = h + 1 /\ N + h \in Nat /\ N + i = (N + h) + 1
      BY <2>1
  <2>3. NumberOf(all, T, N + h) = n + NumberOf(more, T, h)
      BY <1>7, <2>1
  <2>4. NumberOf(more, T, h) \in Nat /\ NextNumber(more, T, h)
      BY Zenon, NumberNext
  <2>5. NextNumber(all, T, N + h)
      BY Zenon, <2>2, NumberNext
  <2>6. all[(N + h) + 1] = more[h + 1]
      BY <1>3, <2>2
  <2>7. NumberOf(all, T, N + i) = n + NumberOf(more, T, i)
    <3>1. CASE more[h + 1].type \in T
        BY <2>2, <2>3, <2>4, <2>5, <2>6, <3>1 DEF NextNumber
    <3>2. CASE more[h + 1].type \notin T
        BY <2>2, <2>3, <2>4, <2>5, <2>6, <3>2 DEF NextNumber
    <3>3. QED  BY <3>1, <3>2
  <2>8. QED  BY <2>7
<1> HIDE DEF Good
<1>8. 0..M \subseteq Good
    BY <1>6, <1>7, InductionUpTo
<1>9. \A i \in 0..M : NumberOf(all, T, N + i) = n + NumberOf(more, T, i) /\ NumberOf(more, T, i) \in Nat
  <2>1. SUFFICES ASSUME NEW i \in 0..M
                 PROVE  NumberOf(all, T, N + i) = n + NumberOf(more, T, i) /\ NumberOf(more, T, i) \in Nat
      OBVIOUS
  <2>2. i \in Good
      BY Zenon, <1>8
  <2>3. i \in Nat
      OBVIOUS
  <2>4. NumberOf(more, T, i) \in Nat
      BY Zenon, <2>3, NumberNext
  <2>5. QED  BY <2>2, <2>4 DEF Good
<1>10. NumberOf(all, T, N + M) = n + m
  <2>1. NumberOf(more, T, M) = m /\ M \in 0..M
      BY <1>1 DEF SpellsFrom
  <2>2. QED  BY <1>9, <2>1
<1>11. ASSUME NEW i \in 1..N + M, all[i].type \in T
       PROVE  all[i].text = lines[a + NumberOf(all, T, i)]
  <2>1. CASE i <= N
    <3>1. i \in 1..N /\ i \in 0..N
        BY <2>1
    <3>2. QED  BY <1>1, <1>3, <1>4, <1>11, <3>1 DEF SpellsFrom
  <2>2. CASE ~ (i <= N)
    <3>1. PICK j \in 1..M : i = N + j
      <4>1. i - N \in 1..M /\ i = N + (i - N)
          BY <2>2
      <4>2. QED  BY <4>1
    <3>2. all[i] = more[j] /\ j \in 0..M
        BY <1>3, <3>1
    <3>3. more[j].text = lines[(a + n) + NumberOf(more, T, j)]
        BY <1>1, <1>11, <3>2 DEF SpellsFrom
    <3>4. (a + n) + NumberOf(more, T, j) = a + NumberOf(all, T, i)
        BY <1>9, <3>1, <3>2
    <3>5. QED  BY <3>2, <3>3, <3>4
  <2>3. QED  BY <2>1, <2>2
<1>12. QED  BY <1>3, <1>10, <1>11 DEF SpellsFrom

LEMMA SpellsBoth ==
    ASSUME NEW S, NEW ops \in Seq(S), NEW more \in Seq(S),
           NEW T, NEW lines, NEW a \in Nat, NEW n \in Nat, NEW m \in Nat,
           SpellsFrom(ops, T, lines, a, n), SpellsFrom(more, T, lines, a + n, m)
    PROVE  SpellsFrom(ops \o more, T, lines, a, n + m)
<1>1. PICK N \in Nat, M \in Nat : N = Len(ops) /\ M = Len(more)
    OBVIOUS
<1>2. PICK all : all = ops \o more
    OBVIOUS
<1>3. /\ Len(all) = N + M
      /\ \A i \in 1..N : all[i] = ops[i]
      /\ \A i \in 1..M : all[N + i] = more[i]
    BY <1>1, <1>2
<1>4. SpellsFrom(all, T, lines, a, n + m)
    BY Zenon, <1>1, <1>3, SpellsAll
<1>5. QED  BY <1>2, <1>4

\* Operations of these types only, and of other types only.
LEMMA RunSpells ==
    ASSUME NEW more, NEW T, NEW lines, NEW a \in Nat, NEW m \in Nat, m = Len(more),
           \A k \in 1..m : more[k].type \in T /\ more[k].text = lines[a + k]
    PROVE  SpellsFrom(more, T, lines, a, m)
<1> DEFINE Good == {i \in 0..m : NumberOf(more, T, i) = i}
<1>1. 0 \in Good
    BY NumberNext
<1>2. ASSUME NEW i \in 1..m, i - 1 \in Good PROVE i \in Good
  <2>1. PICK h \in Nat : h = i - 1 /\ i = h + 1
      OBVIOUS
  <2>2. NextNumber(more, T, h)
      BY NumberNext
  <2>3. NumberOf(more, T, h) = h /\ more[h + 1].type \in T
      BY <1>2, <2>1
  <2>4. QED  BY <2>1, <2>2, <2>3 DEF NextNumber
<1> HIDE DEF Good
<1>3. 0..m \subseteq Good
    BY <1>1, <1>2, InductionUpTo
<1>4. \A i \in 0..m : NumberOf(more, T, i) = i
    BY <1>3 DEF Good
<1>5. NumberOf(more, T, m) = m /\ \A i \in 1..m : NumberOf(more, T, i) = i
    BY <1>4
<1>6. QED  BY <1>5 DEF SpellsFrom

LEMMA RunLacks ==
    ASSUME NEW more, NEW T, NEW lines, NEW a \in Nat, NEW m \in Nat, m = Len(more),
           \A k \in 1..m : more[k].type \notin T
    PROVE  SpellsFrom(more, T, lines, a, 0)
<1>1. {j \in 1..m : more[j].type \in T} = {}
    OBVIOUS
<1>2. NumberOf(more, T, m) = 0
    BY <1>1, FS_EmptySet DEF NumberOf
<1>3. QED  BY <1>2 DEF SpellsFrom

-----------------------------------------------------------------------------
DiffTypes ==
    /\ oldLines \in Seq(FileLines) /\ newLines \in Seq(FileLines)
    /\ oldIdx \in 0..Len(oldLines) /\ newIdx \in 0..Len(newLines)
    /\ operations \in Seq(Operation)
    /\ opIdx \in 0..Len(operations)

OldTypes == {"delete", "equal"}
NewTypes == {"insert", "equal"}

\* What a comparison adds: operations that spell the lines it goes on by.
Compares(ops, o, n) ==
    /\ ops \in Seq(Operation)
    /\ o \in Nat /\ n \in Nat /\ oldIdx + o <= Len(oldLines) /\ newIdx + n <= Len(newLines)
    /\ SpellsFrom(ops, OldTypes, oldLines, oldIdx, o)
    /\ SpellsFrom(ops, NewTypes, newLines, newIdx, n)

LEMMA InsertsCompare ==
    ASSUME DiffTypes, NEW to \in newIdx..Len(newLines), NEW old \in Nat
    PROVE  /\ Inserts(old, newIdx, to) \in Seq(Operation)
           /\ SpellsFrom(Inserts(old, newIdx, to), NewTypes, newLines, newIdx, to - newIdx)
           /\ \A o \in Nat : SpellsFrom(Inserts(old, newIdx, to), OldTypes, oldLines, o, 0)
<1>1. PICK m \in Nat : m = to - newIdx
    BY DEF DiffTypes
<1>2. PICK from \in Nat : from = newIdx
    BY DEF DiffTypes
<1>3. PICK ops : ops = Inserts(old, newIdx, to)
    OBVIOUS
<1>4. ops = [k \in 1..m |-> Op("insert", old, from + k - 1, newLines[from + k])]
    BY <1>1, <1>2, <1>3 DEF Inserts
<1>5. \A k \in 1..m : from + k \in 1..Len(newLines) /\ from + k - 1 \in Nat
    BY <1>1, <1>2 DEF DiffTypes
<1>6. \A k \in 1..m : ops[k] \in Operation /\ ops[k].type = "insert" /\ ops[k].text = newLines[from + k]
  <2>1. \A k \in 1..m : newLines[from + k] \in FileLines
    <3>1. newLines \in Seq(FileLines)
        BY DEF DiffTypes
    <3>2. \A j \in 1..Len(newLines) : newLines[j] \in FileLines
        BY <3>1
    <3>3. QED  BY <1>5, <3>2
  <2>2. \A k \in 1..m, t \in FileLines : Op("insert", old, from + k - 1, t) \in Operation
      BY <1>5 DEF Op, Operation
  <2>3. QED  BY <1>4, <2>1, <2>2 DEF Op
<1>7. ops \in Seq(Operation) /\ Len(ops) = m
  <2>1. DOMAIN ops = 1..m /\ ops = [k \in 1..m |-> ops[k]]
      BY <1>4
  <2>2. QED  BY <1>1, <1>6, <2>1
<1>8. SpellsFrom(ops, NewTypes, newLines, from, m)
    BY <1>6, <1>7, RunSpells DEF NewTypes
<1>9. \A o \in Nat : SpellsFrom(ops, OldTypes, oldLines, o, 0)
    BY <1>6, <1>7, RunLacks DEF OldTypes
<1>10. QED  BY <1>1, <1>2, <1>3, <1>7, <1>8, <1>9

LEMMA DeletesCompare ==
    ASSUME DiffTypes, NEW to \in oldIdx..Len(oldLines), NEW new \in Nat
    PROVE  /\ Deletes(new, oldIdx, to) \in Seq(Operation)
           /\ SpellsFrom(Deletes(new, oldIdx, to), OldTypes, oldLines, oldIdx, to - oldIdx)
           /\ \A n \in Nat : SpellsFrom(Deletes(new, oldIdx, to), NewTypes, newLines, n, 0)
<1>1. PICK m \in Nat : m = to - oldIdx
    BY DEF DiffTypes
<1>2. PICK from \in Nat : from = oldIdx
    BY DEF DiffTypes
<1>3. PICK ops : ops = Deletes(new, oldIdx, to)
    OBVIOUS
<1>4. ops = [k \in 1..m |-> Op("delete", from + k - 1, new, oldLines[from + k])]
    BY <1>1, <1>2, <1>3 DEF Deletes
<1>5. \A k \in 1..m : from + k \in 1..Len(oldLines) /\ from + k - 1 \in Nat
    BY <1>1, <1>2 DEF DiffTypes
<1>6. \A k \in 1..m : ops[k] \in Operation /\ ops[k].type = "delete" /\ ops[k].text = oldLines[from + k]
  <2>1. \A k \in 1..m : oldLines[from + k] \in FileLines
    <3>1. oldLines \in Seq(FileLines)
        BY DEF DiffTypes
    <3>2. \A j \in 1..Len(oldLines) : oldLines[j] \in FileLines
        BY <3>1
    <3>3. QED  BY <1>5, <3>2
  <2>2. \A k \in 1..m, t \in FileLines : Op("delete", from + k - 1, new, t) \in Operation
      BY <1>5 DEF Op, Operation
  <2>3. QED  BY <1>4, <2>1, <2>2 DEF Op
<1>7. ops \in Seq(Operation) /\ Len(ops) = m
  <2>1. DOMAIN ops = 1..m /\ ops = [k \in 1..m |-> ops[k]]
      BY <1>4
  <2>2. QED  BY <1>1, <1>6, <2>1
<1>8. SpellsFrom(ops, OldTypes, oldLines, from, m)
    BY <1>6, <1>7, RunSpells DEF OldTypes
<1>9. \A n \in Nat : SpellsFrom(ops, NewTypes, newLines, n, 0)
    BY <1>6, <1>7, RunLacks DEF NewTypes
<1>10. QED  BY <1>1, <1>2, <1>3, <1>7, <1>8, <1>9

LEMMA EqualCompares ==
    ASSUME DiffTypes, Both, OldLine = NewLine
    PROVE  Compares(<<Op("equal", oldIdx, newIdx, OldLine)>>, 1, 1)
<1>1. PICK op : op = Op("equal", oldIdx, newIdx, OldLine)
    OBVIOUS
<1>2. PICK ops : ops = <<op>>
    OBVIOUS
<1>3. /\ oldIdx \in Nat /\ newIdx \in Nat /\ oldIdx + 1 <= Len(oldLines) /\ newIdx + 1 <= Len(newLines)
      /\ oldIdx + 1 \in 1..Len(oldLines)
    BY DEF DiffTypes, Both
<1>4. op \in Operation /\ op.type = "equal" /\ op.text = oldLines[oldIdx + 1] /\ op.text = newLines[newIdx + 1]
    BY <1>1, <1>3 DEF DiffTypes, Op, Operation, OldLine, NewLine
<1>5. Len(ops) = 1 /\ ops[1] = op /\ ops \in Seq(Operation)
    BY <1>2, <1>4
<1>6. \A k \in 1..1 : /\ ops[k].type \in OldTypes /\ ops[k].text = oldLines[oldIdx + k]
                      /\ ops[k].type \in NewTypes /\ ops[k].text = newLines[newIdx + k]
  <2>1. SUFFICES ASSUME NEW k \in 1..1
                 PROVE  /\ ops[k].type \in OldTypes /\ ops[k].text = oldLines[oldIdx + k]
                        /\ ops[k].type \in NewTypes /\ ops[k].text = newLines[newIdx + k]
      OBVIOUS
  <2>2. k = 1 /\ ops[k] = op
      BY <1>5, <2>1
  <2>3. op.type \in OldTypes /\ op.type \in NewTypes
      BY <1>4 DEF OldTypes, NewTypes
  <2>4. QED  BY <1>4, <2>2, <2>3
<1>7. SpellsFrom(ops, OldTypes, oldLines, oldIdx, 1)
    BY <1>3, <1>5, <1>6, RunSpells
<1>8. SpellsFrom(ops, NewTypes, newLines, newIdx, 1)
    BY <1>3, <1>5, <1>6, RunSpells
<1>9. QED  BY <1>1, <1>2, <1>3, <1>5, <1>7, <1>8 DEF Compares

LEMMA ModifiedCompares ==
    ASSUME DiffTypes, Both
    PROVE  Compares(Deletes(newIdx, oldIdx, oldIdx + 1) \o Inserts(oldIdx + 1, newIdx, newIdx + 1), 1, 1)
<1>1. /\ oldIdx \in Nat /\ newIdx \in Nat /\ oldIdx + 1 <= Len(oldLines) /\ newIdx + 1 <= Len(newLines)
      /\ oldIdx + 1 \in oldIdx..Len(oldLines) /\ newIdx + 1 \in newIdx..Len(newLines)
      /\ (oldIdx + 1) - oldIdx = 1 /\ (newIdx + 1) - newIdx = 1 /\ oldIdx + 1 \in Nat
      /\ newIdx + 0 = newIdx
    BY DEF DiffTypes, Both
<1>2. PICK del, ins : /\ del = Deletes(newIdx, oldIdx, oldIdx + 1)
                      /\ ins = Inserts(oldIdx + 1, newIdx, newIdx + 1)
    OBVIOUS
<1>3. /\ del \in Seq(Operation) /\ SpellsFrom(del, OldTypes, oldLines, oldIdx, 1)
      /\ SpellsFrom(del, NewTypes, newLines, newIdx, 0)
    BY <1>1, <1>2, DeletesCompare
<1>4. /\ ins \in Seq(Operation) /\ SpellsFrom(ins, NewTypes, newLines, newIdx, 1)
      /\ SpellsFrom(ins, OldTypes, oldLines, oldIdx + 1, 0)
    BY <1>1, <1>2, InsertsCompare
<1>5. SpellsFrom(del \o ins, OldTypes, oldLines, oldIdx, 1 + 0)
    BY <1>1, <1>3, <1>4, SpellsBoth
<1>6. SpellsFrom(del \o ins, NewTypes, newLines, newIdx, 0 + 1)
    BY <1>1, <1>3, <1>4, SpellsBoth
<1>7. 1 + 0 = 1 /\ 0 + 1 = 1 /\ del \o ins \in Seq(Operation)
    BY <1>3, <1>4
<1>8. QED  BY <1>1, <1>2, <1>5, <1>6, <1>7 DEF Compares

\* The lines ahead that are found are within the text.
LEMMA AheadIsWithin ==
    ASSUME DiffTypes
    PROVE  /\ OldAhead /= {} => Min(OldAhead) \in newIdx..Len(newLines)
           /\ NewAhead /= {} => Min(NewAhead) \in oldIdx..Len(oldLines)
<1>1. PICK o \in Nat, n \in Nat : o = Len(oldLines) /\ n = Len(newLines)
    BY DEF DiffTypes
<1>2. PICK l \in Nat : l = LookAhead
    BY DiffAssumption
<1>3. oldIdx \in 0..o /\ newIdx \in 0..n
    BY <1>1 DEF DiffTypes
<1>4. \A a, b \in Nat : Min({a, b}) \in Nat /\ Min({a, b}) <= b
  <2>1. SUFFICES ASSUME NEW a \in Nat, NEW b \in Nat PROVE Min({a, b}) \in Nat /\ Min({a, b}) <= b
      OBVIOUS
  <2>2. \E m \in {a, b} : \A k \in {a, b} : m =< k
      OBVIOUS
  <2>3. QED  BY <2>2 DEF Min
<1>5. OldAhead \subseteq newIdx..n
  <2>1. PICK b \in Nat : b = Min({newIdx + LookAhead, Len(newLines)}) /\ b <= n
      BY <1>1, <1>2, <1>3, <1>4
  <2>2. \A i \in OldAhead : i \in newIdx + 1..b - 1
      BY <2>1 DEF OldAhead
  <2>3. \A i \in newIdx + 1..b - 1 : i \in newIdx..n
      BY <1>3, <2>1
  <2>4. QED  BY <2>2, <2>3
<1>6. NewAhead \subseteq oldIdx..o
  <2>1. PICK b \in Nat : b = Min({oldIdx + LookAhead, Len(oldLines)}) /\ b <= o
      BY <1>1, <1>2, <1>3, <1>4
  <2>2. \A i \in NewAhead : i \in oldIdx + 1..b - 1
      BY <2>1 DEF NewAhead
  <2>3. \A i \in oldIdx + 1..b - 1 : i \in oldIdx..o
      BY <1>3, <2>1
  <2>4. QED  BY <2>2, <2>3
<1>7. \A T \in SUBSET Nat : T /= {} => Min(T) \in T
    BY LeastNatural DEF Min
<1>8. newIdx..n \subseteq Nat /\ oldIdx..o \subseteq Nat
    BY <1>3
<1>9. QED  BY <1>1, <1>5, <1>6, <1>7, <1>8

LEMMA NumbersAreNaturals == \A ops, T : \A i \in Nat : NumberOf(ops, T, i) \in Nat
BY NumberNext

LEMMA LengthsAreNaturals == \A n : \A i \in 1..n : i \in Nat
OBVIOUS

LEMMA SpellsIsSpellsFrom ==
    ASSUME NEW ops, NEW S, ops \in Seq(S), NEW T, NEW lines, NEW n
    PROVE  Spells(ops, T, lines, n) <=> SpellsFrom(ops, T, lines, 0, n)
<1>1. DOMAIN ops = 1..Len(ops)
    OBVIOUS
<1>2. \A i \in 1..Len(ops) : NumberOf(ops, T, i) \in Nat
    BY Zenon, LengthsAreNaturals, NumbersAreNaturals
<1>3. \A i \in 1..Len(ops) : 0 + NumberOf(ops, T, i) = NumberOf(ops, T, i)
    BY <1>2
<1>4. QED  BY <1>1, <1>3 DEF Spells, SpellsFrom

LEMMA ComparisonSpells ==
    ASSUME DiffTypes, DiffIsExact, NEW ops, NEW o, NEW n, Compares(ops, o, n),
           Compare(ops, oldIdx + o, newIdx + n)
    PROVE  DiffTypes' /\ DiffIsExact'
<1>1. /\ oldLines' = oldLines /\ newLines' = newLines /\ oldIdx' = oldIdx + o /\ newIdx' = newIdx + n
      /\ operations' = operations \o ops /\ opIdx' = opIdx
    BY DEF Compare
<1>2. /\ o \in Nat /\ n \in Nat /\ ops \in Seq(Operation)
      /\ oldIdx + o \in 0..Len(oldLines) /\ newIdx + n \in 0..Len(newLines)
      /\ oldIdx \in Nat /\ newIdx \in Nat /\ 0 + oldIdx = oldIdx /\ 0 + newIdx = newIdx
    BY DEF Compares, DiffTypes
<1>3. PICK N \in Nat, M \in Nat : N = Len(operations) /\ M = Len(ops)
    BY <1>2 DEF DiffTypes
<1>4. operations' \in Seq(Operation) /\ Len(operations') = N + M
    BY <1>1, <1>2, <1>3 DEF DiffTypes
<1>5. opIdx' \in 0..Len(operations')
    BY <1>1, <1>3, <1>4 DEF DiffTypes
<1>6. DiffTypes'
    BY <1>1, <1>2, <1>4, <1>5 DEF DiffTypes
<1>7. /\ SpellsFrom(operations, OldTypes, oldLines, 0, oldIdx)
      /\ SpellsFrom(operations, NewTypes, newLines, 0, newIdx)
    BY SpellsIsSpellsFrom DEF DiffIsExact, DiffTypes, OldTypes, NewTypes
<1>8. /\ SpellsFrom(ops, OldTypes, oldLines, 0 + oldIdx, o)
      /\ SpellsFrom(ops, NewTypes, newLines, 0 + newIdx, n)
    BY <1>2 DEF Compares
<1>9. SpellsFrom(operations \o ops, OldTypes, oldLines, 0, oldIdx + o)
    BY <1>2, <1>7, <1>8, SpellsBoth DEF DiffTypes
<1>10. SpellsFrom(operations \o ops, NewTypes, newLines, 0, newIdx + n)
    BY <1>2, <1>7, <1>8, SpellsBoth DEF DiffTypes
<1>11. /\ Spells(operations', OldTypes, oldLines', oldIdx')
       /\ Spells(operations', NewTypes, newLines', newIdx')
    BY <1>1, <1>4, <1>9, <1>10, SpellsIsSpellsFrom
<1>12. QED  BY <1>6, <1>11 DEF DiffIsExact, OldTypes, NewTypes

Comparing == RestIsInserted \/ RestIsDeleted \/ LinesEqual \/ OldLineIsAhead \/ NewLineIsAhead \/ LineModified

\* Each branch of computeDiff adds what spells the lines it passes.
LEMMA ComparesSome ==
    ASSUME DiffTypes, Comparing
    PROVE  \E ops, o, n : Compares(ops, o, n) /\ Compare(ops, oldIdx + o, newIdx + n)
<1>1. /\ oldIdx \in Nat /\ newIdx \in Nat /\ oldIdx <= Len(oldLines) /\ newIdx <= Len(newLines)
      /\ oldIdx + 0 = oldIdx /\ newIdx + 0 = newIdx /\ Len(oldLines) \in Nat /\ Len(newLines) \in Nat
    BY DEF DiffTypes
<1>2. ASSUME NEW to \in newIdx..Len(newLines), NEW ops, ops = Inserts(oldIdx, newIdx, to),
             Compare(ops, oldIdx, to)
      PROVE  Compares(ops, 0, to - newIdx) /\ Compare(ops, oldIdx + 0, newIdx + (to - newIdx))
  <2>1. to \in Nat /\ to - newIdx \in Nat /\ newIdx + (to - newIdx) = to /\ to <= Len(newLines)
      BY <1>1
  <2>2. /\ ops \in Seq(Operation) /\ SpellsFrom(ops, NewTypes, newLines, newIdx, to - newIdx)
        /\ SpellsFrom(ops, OldTypes, oldLines, oldIdx, 0)
      BY <1>1, <1>2, InsertsCompare
  <2>3. QED  BY <1>1, <1>2, <2>1, <2>2 DEF Compares
<1>3. ASSUME NEW to \in oldIdx..Len(oldLines), NEW ops, ops = Deletes(newIdx, oldIdx, to),
             Compare(ops, to, newIdx)
      PROVE  Compares(ops, to - oldIdx, 0) /\ Compare(ops, oldIdx + (to - oldIdx), newIdx + 0)
  <2>1. to \in Nat /\ to - oldIdx \in Nat /\ oldIdx + (to - oldIdx) = to /\ to <= Len(oldLines)
      BY <1>1
  <2>2. /\ ops \in Seq(Operation) /\ SpellsFrom(ops, OldTypes, oldLines, oldIdx, to - oldIdx)
        /\ SpellsFrom(ops, NewTypes, newLines, newIdx, 0)
      BY <1>1, <1>3, DeletesCompare
  <2>3. QED  BY <1>1, <1>3, <2>1, <2>2 DEF Compares
<1>4. CASE RestIsInserted
  <2>1. newIdx + 1 \in newIdx..Len(newLines)
      BY <1>1, <1>4 DEF RestIsInserted, MoreLines
  <2>2. PICK ops : ops = Inserts(oldIdx, newIdx, newIdx + 1) /\ Compare(ops, oldIdx, newIdx + 1)
      BY <1>4 DEF RestIsInserted
  <2>3. QED  BY <1>2, <2>1, <2>2
<1>5. CASE RestIsDeleted
  <2>1. oldIdx + 1 \in oldIdx..Len(oldLines)
      BY <1>1, <1>5 DEF RestIsDeleted, MoreLines
  <2>2. PICK ops : ops = Deletes(newIdx, oldIdx, oldIdx + 1) /\ Compare(ops, oldIdx + 1, newIdx)
      BY <1>5 DEF RestIsDeleted
  <2>3. QED  BY <1>3, <2>1, <2>2
<1>6. CASE LinesEqual
    BY <1>6, EqualCompares DEF LinesEqual
<1>7. CASE OldLineIsAhead
  <2>1. PICK to \in newIdx..Len(newLines) : to = Min(OldAhead)
      BY <1>7, AheadIsWithin DEF OldLineIsAhead
  <2>2. PICK ops : ops = Inserts(oldIdx, newIdx, to) /\ Compare(ops, oldIdx, to)
      BY <1>7, <2>1 DEF OldLineIsAhead
  <2>3. QED  BY <1>2, <2>2
<1>8. CASE NewLineIsAhead
  <2>1. PICK to \in oldIdx..Len(oldLines) : to = Min(NewAhead)
      BY <1>8, AheadIsWithin DEF NewLineIsAhead
  <2>2. PICK ops : ops = Deletes(newIdx, oldIdx, to) /\ Compare(ops, to, newIdx)
      BY <1>8, <2>1 DEF NewLineIsAhead
  <2>3. QED  BY <1>3, <2>2
<1>9. CASE LineModified
    BY <1>9, ModifiedCompares DEF LineModified
<1>10. QED  BY <1>4, <1>5, <1>6, <1>7, <1>8, <1>9 DEF Comparing

-----------------------------------------------------------------------------
\* The n-th of these lines is a change, not context.
IsChange(ls, n) == n \in DOMAIN ls /\ ls[n].mark /= "context"

\* N lists of lines show the first i operations that change something.
Shows(lists, N, ops, i) ==
    /\ \A c \in 1..i : ops[c].type /= "equal" =>
          \E k \in 1..N : \E n \in DOMAIN lists[k] : IsChange(lists[k], n) /\ lists[k][n].op = c
    /\ \A k \in 1..N : \A n : IsChange(lists[k], n) =>
          lists[k][n].op \in 1..i /\ ops[lists[k][n].op].type /= "equal"
    /\ \A k, l \in 1..N : \A n, m :
          IsChange(lists[k], n) /\ IsChange(lists[l], m) /\ (k < l \/ (k = l /\ n < m))
          => lists[k][n].op < lists[l][m].op

LEMMA NoChangeMore ==
    ASSUME NEW lists, NEW N \in Nat, NEW ops, NEW i \in Nat, Shows(lists, N, ops, i), ops[i + 1].type = "equal"
    PROVE  Shows(lists, N, ops, i + 1)
<1>1. \A c \in 1..i + 1 : ops[c].type /= "equal" => c \in 1..i
    OBVIOUS
<1>2. 1..i \subseteq 1..i + 1
    OBVIOUS
<1> HIDE DEF IsChange
<1>3. QED  BY <1>1, <1>2 DEF Shows

\* The last list has one change more, and there may be one list without any behind it.
ShowsOneMore(new, M, lists, N, p, i) ==
    /\ \A k \in 1..N - 1 : new[k] = lists[k]
    /\ M = N + 1 => \A n : ~ IsChange(new[M], n)
    /\ IsChange(new[N], p) /\ new[N][p].op = i + 1
    /\ \A n : IsChange(new[N], n) <=> (IsChange(lists[N], n) \/ n = p)
    /\ \A n : IsChange(lists[N], n) => n \in Nat /\ n < p /\ new[N][n].op = lists[N][n].op

LEMMA OneChangeMore ==
    ASSUME NEW lists, NEW N \in Nat, N > 0, NEW ops, NEW i \in Nat, Shows(lists, N, ops, i),
           ops[i + 1].type /= "equal",
           NEW new, NEW M \in {N, N + 1}, NEW p \in Nat, ShowsOneMore(new, M, lists, N, p, i)
    PROVE  Shows(new, M, ops, i + 1)
<1> USE DEF ShowsOneMore
<1>1. N \in 1..N /\ 1..N \subseteq 1..M /\ \A k \in 1..M : k \in 1..N - 1 \/ k = N \/ (k = N + 1 /\ k = M)
    OBVIOUS
<1>2. \A k \in 1..N - 1 : k \in 1..N /\ k \in 1..M
    OBVIOUS
<1>3. i + 1 \in 1..i + 1 /\ \A c \in 1..i + 1 : c \in 1..i \/ c = i + 1
    OBVIOUS
<1>4. ASSUME NEW c \in 1..i + 1, ops[c].type /= "equal"
      PROVE  \E k \in 1..M : \E n \in DOMAIN new[k] : IsChange(new[k], n) /\ new[k][n].op = c
  <2>1. CASE c = i + 1
    <3>1. p \in DOMAIN new[N]
        BY DEF IsChange
    <3>2. QED  BY <1>1, <2>1, <3>1
  <2>2. CASE c \in 1..i
    <3>1. PICK k \in 1..N : \E n \in DOMAIN lists[k] : IsChange(lists[k], n) /\ lists[k][n].op = c
        BY <1>4, <2>2 DEF Shows
    <3>2. PICK n \in DOMAIN lists[k] : IsChange(lists[k], n) /\ lists[k][n].op = c
        BY <3>1
    <3>3. CASE k = N
      <4>1. IsChange(new[N], n) /\ new[N][n].op = c
          BY <3>2, <3>3
      <4>2. n \in DOMAIN new[N]
          BY <4>1 DEF IsChange
      <4>3. QED  BY <1>1, <4>1, <4>2
    <3>4. CASE k /= N
      <4>1. k \in 1..N - 1
          BY <3>4
      <4>2. QED  BY <1>2, <3>2, <4>1
    <3>5. QED  BY <3>3, <3>4
  <2>3. QED  BY <1>3, <2>1, <2>2
<1>5. ASSUME NEW k \in 1..M, NEW n, IsChange(new[k], n)
      PROVE  /\ new[k][n].op \in 1..i + 1 /\ ops[new[k][n].op].type /= "equal"
             /\ new[k][n].op = i + 1 <=> k = N /\ n = p
             /\ ~ (k = N /\ n = p) => /\ k \in 1..N /\ IsChange(lists[k], n)
                                      /\ new[k][n].op = lists[k][n].op
  <2>1. CASE k = N /\ n = p
      BY <1>3, <2>1
  <2>2. CASE ~ (k = N /\ n = p)
    <3>1. k \in 1..N /\ IsChange(lists[k], n) /\ new[k][n].op = lists[k][n].op
        BY <1>1, <1>2, <1>5, <2>2
    <3>2. lists[k][n].op \in 1..i /\ ops[lists[k][n].op].type /= "equal"
        BY <3>1 DEF Shows
    <3>3. QED  BY <2>2, <3>1, <3>2
  <2>3. QED  BY <2>1, <2>2
<1>6. ASSUME NEW k \in 1..M, NEW l \in 1..M, NEW n, NEW m, IsChange(new[k], n), IsChange(new[l], m),
             k < l \/ (k = l /\ n < m)
      PROVE  new[k][n].op < new[l][m].op
  <2>1. CASE ~ (k = N /\ n = p) /\ ~ (l = N /\ m = p)
    <3>1. /\ k \in 1..N /\ IsChange(lists[k], n) /\ new[k][n].op = lists[k][n].op
          /\ l \in 1..N /\ IsChange(lists[l], m) /\ new[l][m].op = lists[l][m].op
        BY <1>5, <1>6, <2>1
    <3>2. QED  BY <1>6, <3>1 DEF Shows
  <2>2. CASE k = N /\ n = p
    <3>1. ASSUME k < l PROVE FALSE
      <4>1. l = N + 1 /\ l = M
          BY <1>1, <2>2, <3>1
      <4>2. QED  BY <1>6, <4>1
    <3>2. k = l /\ n < m
        BY <1>6, <3>1
    <3>3. IsChange(new[N], m) /\ m /= p
        BY <1>6, <2>2, <3>2
    <3>4. m \in Nat /\ m < p
        BY <3>3
    <3>5. QED  BY <2>2, <3>2, <3>4
  <2>3. CASE ~ (k = N /\ n = p) /\ l = N /\ m = p
    <3>1. new[k][n].op \in 1..i + 1 /\ new[k][n].op /= i + 1 /\ new[l][m].op = i + 1
        BY <1>5, <1>6, <2>3
    <3>2. QED  BY <3>1
  <2>4. QED  BY <2>1, <2>2, <2>3
<1>7. QED  BY <1>4, <1>5, <1>6 DEF Shows

\* A sequence of lines of context.
IsContext(ls) == IsSequence(ls) /\ \A n : ~ IsChange(ls, n)

LEMMA ListedContext ==
    ASSUME NEW m \in Nat, NEW ls, DOMAIN ls = 1..m, ls = [k \in 1..m |-> ls[k]],
           \A k \in 1..m : ls[k].mark = "context"
    PROVE  IsContext(ls)
<1>1. \A k \in 1..m : ls[k] \in ToSet(ls)
    BY DEF ToSet
<1>2. ls \in Seq(ToSet(ls))
    BY <1>1
<1>3. \A n : ~ IsChange(ls, n)
    BY DEF IsChange
<1>4. QED  BY <1>2, <1>3 DEF IsContext, IsSequence

LEMMA MarkedContext == \A i : Marked("context", i).mark = "context"
BY DEF Marked

IsHunk(h) == h = [open |-> h.open, oldStart |-> h.oldStart, newStart |-> h.newStart, lines |-> h.lines]

LEMMA OpenedContext ==
    ASSUME DiffTypes, NEW op \in Operation
    PROVE  IsHunk(OpenedAt(op)) /\ OpenedAt(op).open = TRUE /\ IsContext(OpenedAt(op).lines)
<1>1. PICK a \in Int : a = op.old - ContextLines
    BY DiffAssumption DEF Operation
<1>2. PICK N \in Nat : N = Len(operations)
    BY DEF DiffTypes
<1>3. op.old \in Nat
    BY DEF Operation
<1>4. PICK from \in Int : from = Max({0, a})
  <2>1. \E m \in {0, a} : \A k \in {0, a} : m >= k
      BY <1>1
  <2>2. Max({0, a}) \in {0, a}
      BY <2>1 DEF Max
  <2>3. QED  BY <1>1, <2>2
<1>5. PICK to \in Int : to = Min({op.old, N})
  <2>1. \E m \in {op.old, N} : \A k \in {op.old, N} : m =< k
      BY <1>2, <1>3
  <2>2. Min({op.old, N}) \in {op.old, N}
      BY <2>1 DEF Min
  <2>3. QED  BY <1>2, <1>3, <2>2
<1>6. PICK equal : equal = {i \in from + 1..to : IsEqual(i)}
    OBVIOUS
<1>7. PICK m \in Nat : m = Cardinality(equal)
  <2>1. IsFiniteSet(from + 1..to)
      BY <1>4, <1>5, FS_Interval
  <2>2. IsFiniteSet(equal)
      BY <1>6, <2>1, FS_Subset
  <2>3. QED  BY <2>2, FS_CardinalityType
<1>8. PICK at : at = [k \in 1..m |-> CHOOSE i \in equal : Cardinality({j \in equal : j <= i}) = k]
    OBVIOUS
<1>9. PICK h : h = OpenedAt(op)
    OBVIOUS
<1>10. h = [open |-> TRUE, oldStart |-> Max({1, op.old - ContextLines + 1}),
            newStart |-> Max({1, op.new - ContextLines + 1}),
            lines |-> [k \in DOMAIN at |-> Marked("context", at[k])]]
    BY <1>1, <1>2, <1>4, <1>5, <1>6, <1>7, <1>8, <1>9 DEF OpenedAt
<1>11. PICK ls : ls = [k \in 1..m |-> Marked("context", at[k])]
    OBVIOUS
<1>12. h.lines = ls
    BY <1>8, <1>10, <1>11
<1>13. IsContext(ls)
    BY <1>11, MarkedContext, ListedContext
<1>14. IsHunk(h) /\ h.open = TRUE
    BY <1>10 DEF IsHunk
<1>15. QED  BY <1>9, <1>12, <1>13, <1>14

LEMMA AfterIsContext ==
    ASSUME DiffTypes, opIdx < Len(operations)
    PROVE  IsContext(ContextAfter)
<1>1. PICK N \in Nat : N = Len(operations) /\ opIdx \in 0..N
    BY DEF DiffTypes
<1>2. PICK i \in Nat : i = opIdx + 1 /\ i <= N
    BY <1>1
<1>3. PICK c \in Nat : c = ContextLines
    BY DiffAssumption
<1>4. PICK stop : stop = {j \in i + 1..N : ~ IsEqual(j)}
    OBVIOUS
<1>5. PICK ends : ends = {i + c, N} \cup {j - 1 : j \in stop}
    OBVIOUS
<1>6. \A e \in ends : e \in Nat /\ e >= i
    BY <1>2, <1>3, <1>4, <1>5
<1>7. N \in ends
    BY <1>5
<1>8. PICK last \in Nat : last = Min(ends) /\ last >= i
  <2>1. \E m \in ends : \A k \in ends : m <= k
      BY <1>6, <1>7, LeastNatural
  <2>2. Min(ends) \in ends
      BY <2>1 DEF Min
  <2>3. QED  BY <1>6, <2>2
<1>9. PICK m \in Nat : m = last - i
    BY <1>8
<1>10. PICK ls : ls = ContextAfter
    OBVIOUS
<1>11. ls = [k \in 1..m |-> Marked("context", i + k)]
  <2>1. opIdx + 2 = i + 1
      BY <1>1, <1>2
  <2>2. QED  BY <1>1, <1>2, <1>3, <1>4, <1>5, <1>8, <1>9, <1>10, <2>1 DEF ContextAfter
<1>12. IsContext(ls)
    BY <1>11, MarkedContext, ListedContext
<1>13. QED  BY <1>10, <1>12

\* Lines, a change and context.
IsBoth(S, s, t, both) ==
    /\ both \in Seq(S) /\ Len(both) = Len(s) + Len(t)
    /\ \A i \in 1..Len(s) : both[i] = s[i]
    /\ \A i \in 1..Len(t) : both[Len(s) + i] = t[i]

LEMMA Concatenated ==
    ASSUME NEW S, NEW s \in Seq(S), NEW t \in Seq(S)
    PROVE  IsBoth(S, s, t, s \o t)
BY DEF IsBoth

HasOneMore(grown, cur, x, p) ==
    /\ IsSequence(grown) /\ p \in Nat
    /\ IsChange(grown, p) /\ grown[p] = x
    /\ \A n : IsChange(grown, n) <=> (IsChange(cur, n) \/ n = p)
    /\ \A n : IsChange(cur, n) => n \in Nat /\ n < p /\ grown[n] = cur[n]

LEMMA GrownLines ==
    ASSUME NEW cur, IsSequence(cur), NEW x, x.mark /= "context", NEW after, IsContext(after),
           NEW grown, grown = (cur \o <<x>>) \o after, NEW p, p = Len(cur) + 1
    PROVE  HasOneMore(grown, cur, x, p)
<1>1. PICK S : S = ToSet(cur) \cup {x} \cup ToSet(after)
    OBVIOUS
<1>2. cur \in Seq(S) /\ <<x>> \in Seq(S) /\ after \in Seq(S)
  <2>1. cur \in Seq(ToSet(cur)) /\ after \in Seq(ToSet(after))
      BY DEF IsSequence, IsContext
  <2>2. QED  BY <1>1, <2>1
<1>3. PICK c \in Nat, a \in Nat : c = Len(cur) /\ a = Len(after)
    BY <1>2
<1>4. PICK one : one = cur \o <<x>>
    OBVIOUS
<1>5. grown = one \o after
    BY <1>4
<1>6. one \in Seq(S) /\ Len(one) = c + 1 /\ one[c + 1] = x /\ \A n \in 1..c : one[n] = cur[n]
    BY <1>2, <1>3, <1>4
<1>7. /\ grown \in Seq(S)
      /\ Len(grown) = c + 1 + a /\ grown[c + 1] = x
      /\ \A n \in 1..c : grown[n] = cur[n]
      /\ \A k \in 1..a : grown[c + 1 + k] = after[k]
  <2>1. one \in Seq(S) /\ after \in Seq(S) /\ Len(one) = c + 1 /\ Len(after) = a
      BY <1>2, <1>3, <1>6
  <2>2. PICK g : g = one \o after
      OBVIOUS
  <2>3. /\ g \in Seq(S) /\ Len(g) = Len(one) + Len(after)
        /\ \A i \in 1..Len(one) : g[i] = one[i]
        /\ \A i \in 1..Len(after) : g[Len(one) + i] = after[i]
    <3>1. IsBoth(S, one, after, g)
        BY Zenon, <2>1, <2>2, Concatenated
    <3>2. QED  BY Zenon, <3>1 DEF IsBoth
  <2>4. g = grown
      BY <1>5, <2>2
  <2>5. /\ \A n \in 1..c : n \in 1..c + 1
        /\ c + 1 \in 1..c + 1
      OBVIOUS
  <2>6. grown[c + 1] = x /\ \A n \in 1..c : grown[n] = cur[n]
      BY <1>6, <2>1, <2>3, <2>4, <2>5
  <2>7. QED  BY <2>1, <2>3, <2>4, <2>6
<1>8. DOMAIN grown = 1..c + 1 + a /\ DOMAIN cur = 1..c /\ DOMAIN after = 1..a
    BY <1>2, <1>3, <1>7
<1>9. \A n \in 1..c + 1 + a : n \in 1..c \/ n = c + 1 \/ \E k \in 1..a : n = c + 1 + k
  <2>1. SUFFICES ASSUME NEW n \in 1..c + 1 + a, n \notin 1..c, n /= c + 1
                 PROVE  \E k \in 1..a : n = c + 1 + k
      OBVIOUS
  <2>2. n - (c + 1) \in 1..a /\ n = c + 1 + (n - (c + 1))
      BY <2>1
  <2>3. QED  BY <2>2
<1>10. c + 1 \in 1..c + 1 + a /\ 1..c \subseteq 1..c + 1 + a /\ \A n \in 1..c : n \in Nat /\ n < c + 1
    OBVIOUS
<1>11. IsChange(grown, c + 1)
    BY <1>7, <1>8, <1>10 DEF IsChange
<1>12. \A n : IsChange(cur, n) => n \in 1..c /\ grown[n] = cur[n]
    BY <1>7, <1>8 DEF IsChange
<1>13. \A n \in 1..c : IsChange(cur, n) <=> IsChange(grown, n)
    BY <1>7, <1>8, <1>10 DEF IsChange
<1>14. \A k \in 1..a : ~ IsChange(grown, c + 1 + k)
  <2>1. SUFFICES ASSUME NEW k \in 1..a PROVE ~ IsChange(grown, c + 1 + k)
      OBVIOUS
  <2>2. k \in DOMAIN after /\ grown[c + 1 + k] = after[k]
      BY <1>7, <1>8
  <2>3. ~ IsChange(after, k)
      BY DEF IsContext
  <2>4. after[k].mark = "context"
      BY <2>2, <2>3 DEF IsChange
  <2>5. QED  BY <2>2, <2>4 DEF IsChange
<1>15. \A n : IsChange(grown, n) => n \in 1..c + 1 + a
    BY <1>8 DEF IsChange
<1>16. ASSUME NEW n PROVE IsChange(grown, n) <=> (IsChange(cur, n) \/ n = c + 1)
    BY <1>9, <1>11, <1>12, <1>13, <1>14, <1>15
<1>17. IsSequence(grown)
    BY <1>7, SequenceOf
<1>18. p = c + 1 /\ p \in Nat
    BY <1>3
<1>19. \A n : IsChange(cur, n) => n \in Nat /\ n < p /\ grown[n] = cur[n]
    BY <1>10, <1>12, <1>18
<1>20. QED  BY <1>7, <1>11, <1>16, <1>17, <1>18, <1>19 DEF HasOneMore

-----------------------------------------------------------------------------
HunksWellFormed ==
    /\ IsSequence(hunks) /\ \A k \in 1..Len(hunks) : IsSequence(hunks[k].lines)
    /\ IsSequence(hunk.lines)
    /\ hunk.open \in BOOLEAN /\ IsHunk(hunk)
    /\ ~ hunk.open => Len(hunk.lines) = 0

\* A hunk stays open for a change to come, and none is opened before all is compared.
OpenForAChange ==
    /\ hunk.open => \E j \in opIdx + 1..Len(operations) : ~ IsEqual(j)
    /\ MoreLines => opIdx = 0 /\ Len(hunks) = 0 /\ ~ hunk.open

DiffInv == DiffTypes /\ DiffIsExact /\ HunksWellFormed /\ OpenForAChange /\ HunksShowEveryChange

\* The hunks as one list of lists.
LEMMA HunksAsLists ==
    ASSUME HunksWellFormed, HunksShowEveryChange, NEW lists, lists = [k \in HunkNumbers |-> Shown(k)]
    PROVE  Shows(lists, Len(hunks) + 1, operations, opIdx)
<1>1. PICK N : N = Len(hunks) + 1
    OBVIOUS
<1>2. HunkNumbers = 1..N /\ \A k \in 1..N : lists[k] = Shown(k)
    BY <1>1 DEF HunkNumbers
<1>3. \A k \in 1..N : \A n : n \in ChangesIn(k) <=> IsChange(lists[k], n)
    BY <1>2 DEF ChangesIn, IsChange
<1>4. ASSUME NEW c \in 1..opIdx, operations[c].type /= "equal"
      PROVE  \E k \in 1..N : \E n \in DOMAIN lists[k] : IsChange(lists[k], n) /\ lists[k][n].op = c
  <2>1. PICK k \in 1..N : \E n \in ChangesIn(k) : Shown(k)[n].op = c
      BY <1>2, <1>4 DEF HunksShowEveryChange, IsEqual
  <2>2. PICK n \in ChangesIn(k) : Shown(k)[n].op = c
      BY <2>1
  <2>3. IsChange(lists[k], n) /\ lists[k][n].op = c
      BY <1>2, <1>3, <2>2
  <2>4. n \in DOMAIN lists[k]
      BY <2>3 DEF IsChange
  <2>5. QED  BY <2>3, <2>4
<1>5. ASSUME NEW k \in 1..N, NEW n, IsChange(lists[k], n)
      PROVE  lists[k][n].op \in 1..opIdx /\ operations[lists[k][n].op].type /= "equal"
    BY <1>2, <1>3, <1>5 DEF HunksShowEveryChange, IsEqual
<1>6. ASSUME NEW k \in 1..N, NEW l \in 1..N, NEW n, NEW m, IsChange(lists[k], n), IsChange(lists[l], m),
             k < l \/ (k = l /\ n < m)
      PROVE  lists[k][n].op < lists[l][m].op
    BY <1>2, <1>3, <1>6 DEF HunksShowEveryChange
<1>7. Shows(lists, N, operations, opIdx)
    BY <1>4, <1>5, <1>6 DEF Shows
<1>8. QED  BY <1>1, <1>7

\* And back.
LEMMA ListsAsHunks ==
    ASSUME NEW lists, lists = [k \in HunkNumbers' |-> Shown(k)'],
           Shows(lists, (Len(hunks) + 1)', operations', opIdx'), opIdx' = Len(operations') => ~ hunk'.open
    PROVE  HunksShowEveryChange'
<1>1. PICK N : N = (Len(hunks) + 1)'
    OBVIOUS
<1>2. HunkNumbers' = 1..N /\ \A k \in 1..N : lists[k] = Shown(k)'
    BY <1>1 DEF HunkNumbers
<1>3. \A k \in 1..N : \A n : n \in ChangesIn(k)' <=> IsChange(lists[k], n)
    BY <1>2 DEF ChangesIn, IsChange
<1>4. Shows(lists, N, operations', opIdx')
    BY <1>1
<1>5. ASSUME NEW i \in (1..opIdx)', ~ IsEqual(i)'
      PROVE  \E k \in HunkNumbers' : \E n \in ChangesIn(k)' : Shown(k)'[n].op = i
  <2>1. PICK k \in 1..N : \E n \in DOMAIN lists[k] : IsChange(lists[k], n) /\ lists[k][n].op = i
      BY <1>4, <1>5 DEF Shows, IsEqual
  <2>2. PICK n : IsChange(lists[k], n) /\ lists[k][n].op = i
      BY <2>1
  <2>3. n \in ChangesIn(k)' /\ Shown(k)'[n].op = i
      BY <1>2, <1>3, <2>2
  <2>4. QED  BY <1>2, <2>3
<1>6. ASSUME NEW k \in HunkNumbers', NEW n \in ChangesIn(k)'
      PROVE  Shown(k)'[n].op \in 1..opIdx' /\ operations'[Shown(k)'[n].op].type /= "equal"
    BY <1>2, <1>3, <1>4 DEF Shows
<1>7. ASSUME NEW k \in HunkNumbers', NEW l \in HunkNumbers', NEW n \in ChangesIn(k)', NEW m \in ChangesIn(l)',
             k < l \/ (k = l /\ n < m)
      PROVE  Shown(k)'[n].op < Shown(l)'[m].op
    BY <1>2, <1>3, <1>4, <1>7 DEF Shows
<1>8. QED  BY <1>5, <1>6, <1>7 DEF HunksShowEveryChange, IsEqual

-----------------------------------------------------------------------------
LEMMA ComparingKeeps ==
    ASSUME DiffInv, Comparing
    PROVE  DiffInv'
<1>1. PICK ops, o, n : Compares(ops, o, n) /\ Compare(ops, oldIdx + o, newIdx + n)
    BY ComparesSome DEF DiffInv
<1>2. DiffTypes' /\ DiffIsExact'
    BY <1>1, ComparisonSpells DEF DiffInv
<1>3. opIdx' = opIdx /\ hunk' = hunk /\ hunks' = hunks
    BY <1>1 DEF Compare
<1>4. MoreLines
  <2>1. Both => MoreLines
      BY DEF Both, MoreLines
  <2>2. QED  BY <2>1 DEF Comparing, RestIsInserted, RestIsDeleted, LinesEqual, OldLineIsAhead,
                         NewLineIsAhead, LineModified
<1>5. opIdx = 0 /\ Len(hunks) = 0 /\ ~ hunk.open /\ Len(hunk.lines) = 0
    BY <1>4 DEF DiffInv, OpenForAChange, HunksWellFormed
<1>6. HunksWellFormed'
    BY <1>3 DEF DiffInv, HunksWellFormed, IsHunk, IsSequence
<1>7. OpenForAChange'
    BY <1>3, <1>5 DEF OpenForAChange
<1>8. HunksShowEveryChange'
  <2>1. PICK lists : lists = [k \in HunkNumbers' |-> Shown(k)']
      OBVIOUS
  <2>2. IsSequence(hunks) /\ IsSequence(hunk.lines)
      BY DEF DiffInv, HunksWellFormed
  <2>3. DOMAIN hunks = {} /\ DOMAIN hunk.lines = {}
      BY <1>5, <2>2 DEF IsSequence
  <2>4. HunkNumbers' = 1..1 /\ (Len(hunks) + 1)' = 1
      BY <1>3, <1>5 DEF HunkNumbers
  <2>5. \A k \in 1..1 : lists[k] = hunk.lines
      BY <1>3, <2>1, <2>3, <2>4 DEF Shown
  <2>6. \A k \in 1..1 : \A n1 : ~ IsChange(lists[k], n1)
      BY <2>3, <2>5 DEF IsChange
  <2>7. opIdx' = 0 /\ 1..0 = {}
      BY <1>3, <1>5
  <2>8. Shows(lists, 1, operations', opIdx')
      BY <2>6, <2>7 DEF Shows
  <2>9. QED  BY <1>3, <1>5, <2>1, <2>4, <2>8, ListsAsHunks
<1>9. QED  BY <1>2, <1>6, <1>7, <1>8 DEF DiffInv

LEMMA SkipEqualKeeps ==
    ASSUME DiffInv, SkipEqual
    PROVE  DiffInv'
<1>1. /\ oldLines' = oldLines /\ newLines' = newLines /\ oldIdx' = oldIdx /\ newIdx' = newIdx
      /\ operations' = operations /\ opIdx' = opIdx + 1 /\ hunk' = hunk /\ hunks' = hunks
      /\ ~ MoreLines /\ opIdx < Len(operations) /\ operations[opIdx + 1].type = "equal"
    BY DEF SkipEqual, Grouping, IsEqual
<1>2. PICK N \in Nat : N = Len(operations) /\ opIdx \in 0..N
    BY DEF DiffInv, DiffTypes
<1>3. DiffTypes'
    BY <1>1, <1>2 DEF DiffInv, DiffTypes
<1>4. DiffIsExact'
    BY <1>1 DEF DiffInv, DiffIsExact
<1>5. HunksWellFormed'
    BY <1>1 DEF DiffInv, HunksWellFormed
<1>6. hunk.open => \E j \in opIdx' + 1..N : ~ IsEqual(j)
  <2>1. SUFFICES ASSUME hunk.open PROVE \E j \in opIdx' + 1..N : ~ IsEqual(j)
      OBVIOUS
  <2>2. PICK j \in opIdx + 1..N : ~ IsEqual(j)
      BY <1>2, <2>1 DEF DiffInv, OpenForAChange
  <2>3. j /= opIdx + 1
      BY <1>1, <2>2 DEF IsEqual
  <2>4. j \in opIdx' + 1..N
      BY <1>1, <1>2, <2>3
  <2>5. QED  BY <2>2, <2>4
<1>7. OpenForAChange'
    BY <1>1, <1>2, <1>6 DEF OpenForAChange, IsEqual, MoreLines
<1>8. opIdx' = N => ~ hunk.open
    BY <1>2, <1>6
<1>9. HunksShowEveryChange'
  <2>1. PICK lists : lists = [k \in HunkNumbers |-> Shown(k)]
      OBVIOUS
  <2>2. Shows(lists, Len(hunks) + 1, operations, opIdx)
      BY <2>1, HunksAsLists DEF DiffInv
  <2>3. Len(hunks) + 1 \in Nat
      BY DEF DiffInv, HunksWellFormed, IsSequence
  <2>4. Shows(lists, Len(hunks) + 1, operations, opIdx + 1)
      BY <1>1, <1>2, <2>2, <2>3, NoChangeMore
  <2>5. lists = [k \in HunkNumbers' |-> Shown(k)']
      BY <1>1, <2>1 DEF HunkNumbers, Shown
  <2>6. QED  BY <1>1, <1>2, <1>8, <2>4, <2>5, ListsAsHunks
<1>10. QED  BY <1>3, <1>4, <1>5, <1>7, <1>9 DEF DiffInv

\* What AddChange makes of the open hunk, or of a new one.
Grows(grown) ==
    /\ IsHunk(grown) /\ grown.open = TRUE /\ IsSequence(grown.lines)
    /\ \E p \in Nat :
          /\ IsChange(grown.lines, p) /\ grown.lines[p].op = opIdx + 1
          /\ \A n : IsChange(grown.lines, n) <=> (IsChange(hunk.lines, n) \/ n = p)
          /\ \A n : IsChange(hunk.lines, n) => n \in Nat /\ n < p /\ grown.lines[n].op = hunk.lines[n].op
    /\ IF ClosesHunk THEN hunks' = Append(hunks, grown) /\ hunk' = NoHunk
       ELSE hunk' = grown /\ UNCHANGED hunks

LEMMA AddChangeGrows ==
    ASSUME DiffInv, AddChange
    PROVE  \E grown : Grows(grown)
<1>1. PICK op \in Operation : op = operations[opIdx + 1]
  <2>1. opIdx < Len(operations) /\ operations \in Seq(Operation) /\ opIdx \in 0..Len(operations)
      BY DEF AddChange, Grouping, DiffInv, DiffTypes
  <2>2. opIdx + 1 \in 1..Len(operations)
      BY <2>1
  <2>3. QED  BY <2>1, <2>2
<1>2. PICK mark : mark = (IF op.type = "delete" THEN "deleted" ELSE "inserted")
    OBVIOUS
<1>3. PICK current : current = (IF hunk.open THEN hunk ELSE OpenedAt(op))
    OBVIOUS
<1>4. PICK x : x = Marked(mark, opIdx + 1)
    OBVIOUS
<1>5. PICK grown : grown = [current EXCEPT !.lines = @ \o <<x>> \o ContextAfter]
    OBVIOUS
<1>6. IF ClosesHunk THEN hunks' = Append(hunks, grown) /\ hunk' = NoHunk
      ELSE hunk' = grown /\ UNCHANGED hunks
    BY <1>1, <1>2, <1>3, <1>4, <1>5 DEF AddChange
<1>7. IsHunk(current) /\ current.open = TRUE /\ IsSequence(current.lines)
  <2>1. CASE hunk.open
      BY <1>3, <2>1 DEF DiffInv, HunksWellFormed
  <2>2. CASE ~ hunk.open
      BY <1>3, <2>2, OpenedContext DEF DiffInv, IsContext
  <2>3. QED  BY <2>1, <2>2
<1>8. /\ \A n : IsChange(current.lines, n) <=> IsChange(hunk.lines, n)
      /\ \A n : IsChange(hunk.lines, n) => current.lines[n] = hunk.lines[n]
  <2>1. CASE hunk.open
      BY <1>3, <2>1
  <2>2. CASE ~ hunk.open
    <3>1. \A n : ~ IsChange(current.lines, n)
        BY <1>3, <2>2, OpenedContext DEF DiffInv, IsContext
    <3>2. IsSequence(hunk.lines) /\ Len(hunk.lines) = 0
        BY <2>2 DEF DiffInv, HunksWellFormed
    <3>3. DOMAIN hunk.lines = {}
        BY <3>2 DEF IsSequence
    <3>4. \A n : ~ IsChange(hunk.lines, n)
        BY <3>3 DEF IsChange
    <3>5. QED  BY <3>1, <3>4
  <2>3. QED  BY <2>1, <2>2
<1>9. x.mark /= "context" /\ x.op = opIdx + 1
    BY <1>2, <1>4 DEF Marked
<1>10. IsContext(ContextAfter)
    BY AfterIsContext DEF AddChange, Grouping, DiffInv
<1>11. PICK after : after = ContextAfter
    OBVIOUS
<1>12. PICK cur : cur = current.lines
    OBVIOUS
<1>13. PICK ls : ls = (cur \o <<x>>) \o after
    OBVIOUS
<1>14. grown = [open |-> current.open, oldStart |-> current.oldStart, newStart |-> current.newStart, lines |-> ls]
  <2>1. grown = [current EXCEPT !.lines = ls]
      BY <1>5, <1>11, <1>12, <1>13
  <2>2. PICK a, b, c, d : current = [open |-> a, oldStart |-> b, newStart |-> c, lines |-> d]
      BY <1>7 DEF IsHunk
  <2>3. QED  BY <2>1, <2>2
<1>15. IsHunk(grown) /\ grown.open = TRUE /\ grown.lines = ls
    BY <1>7, <1>14 DEF IsHunk
<1>16. PICK p : p = Len(cur) + 1
    OBVIOUS
<1>17. /\ IsSequence(ls) /\ p \in Nat
       /\ IsChange(ls, p) /\ ls[p] = x
       /\ \A n : IsChange(ls, n) <=> (IsChange(cur, n) \/ n = p)
       /\ \A n : IsChange(cur, n) => n \in Nat /\ n < p /\ ls[n] = cur[n]
  <2>1. IsSequence(cur) /\ IsContext(after) /\ x.mark /= "context"
      BY <1>7, <1>9, <1>10, <1>11, <1>12
  <2>2. HasOneMore(ls, cur, x, p)
      BY Zenon, <2>1, <1>13, <1>16, GrownLines
  <2>3. QED  BY <2>2 DEF HasOneMore
<1>18. /\ IsChange(ls, p) /\ ls[p].op = opIdx + 1
       /\ \A n : IsChange(ls, n) <=> (IsChange(hunk.lines, n) \/ n = p)
       /\ \A n : IsChange(hunk.lines, n) => n \in Nat /\ n < p /\ ls[n].op = hunk.lines[n].op
    BY <1>8, <1>9, <1>12, <1>17
<1>19. Grows(grown)
    BY <1>6, <1>15, <1>17, <1>18 DEF Grows
<1>20. QED  BY <1>19

LEMMA AddChangeKeeps ==
    ASSUME DiffInv, AddChange
    PROVE  DiffInv'
<1>1. /\ oldLines' = oldLines /\ newLines' = newLines /\ oldIdx' = oldIdx /\ newIdx' = newIdx
      /\ operations' = operations /\ opIdx' = opIdx + 1
      /\ ~ MoreLines /\ opIdx < Len(operations) /\ operations[opIdx + 1].type /= "equal"
    BY DEF AddChange, Grouping, IsEqual
<1>2. PICK N \in Nat : N = Len(operations) /\ opIdx \in 0..N
    BY DEF DiffInv, DiffTypes
<1>3. DiffTypes'
    BY <1>1, <1>2 DEF DiffInv, DiffTypes
<1>4. DiffIsExact'
    BY <1>1 DEF DiffInv, DiffIsExact
<1>5. PICK grown : Grows(grown)
    BY AddChangeGrows
<1>6. PICK H \in Nat : H = Len(hunks) /\ DOMAIN hunks = 1..H
    BY DEF DiffInv, HunksWellFormed, IsSequence
<1>7. /\ ClosesHunk => hunks' = Append(hunks, grown) /\ hunk' = NoHunk
      /\ ~ ClosesHunk => hunk' = grown /\ hunks' = hunks
    BY <1>5 DEF Grows
<1>8. ASSUME ClosesHunk
      PROVE  /\ IsSequence(hunks') /\ Len(hunks') = H + 1 /\ DOMAIN hunks' = 1..H + 1
             /\ hunks'[H + 1] = grown /\ \A k \in 1..H : hunks'[k] = hunks[k]
  <2>1. PICK S : S = ToSet(hunks) \cup {grown}
      OBVIOUS
  <2>2. hunks \in Seq(S) /\ grown \in S
    <3>1. hunks \in Seq(ToSet(hunks))
        BY DEF DiffInv, HunksWellFormed, IsSequence
    <3>2. QED  BY <2>1, <3>1
  <2>3. PICK more : more = Append(hunks, grown)
      OBVIOUS
  <2>4. /\ more \in Seq(S) /\ Len(more) = H + 1 /\ DOMAIN more = 1..H + 1
        /\ more[H + 1] = grown /\ \A k \in 1..H : more[k] = hunks[k]
      BY <1>6, <2>2, <2>3
  <2>5. IsSequence(more)
      BY <2>4, SequenceOf
  <2>6. hunks' = more
      BY <1>7, <1>8, <2>3
  <2>7. QED  BY <2>4, <2>5, <2>6
<1>9. PICK none : none = NoHunk.lines /\ IsSequence(none) /\ Len(none) = 0 /\ DOMAIN none = {}
  <2>1. PICK e : e = <<>>
      OBVIOUS
  <2>2. e \in Seq(ToSet(e)) /\ Len(e) = 0 /\ DOMAIN e = {}
      BY <2>1
  <2>3. NoHunk.lines = e
      BY <2>1 DEF NoHunk
  <2>4. QED  BY <2>2, <2>3 DEF IsSequence
<1>10. IsHunk(NoHunk) /\ NoHunk.open = FALSE
    BY DEF NoHunk, IsHunk
<1>11. HunksWellFormed'
  <2>1. CASE ClosesHunk
    <3>1. ASSUME NEW k \in 1..H + 1 PROVE IsSequence(hunks'[k].lines)
      <4>1. CASE k = H + 1
          BY <1>5, <1>8, <2>1, <4>1 DEF Grows
      <4>2. CASE k /= H + 1
        <5>1. k \in 1..H
            BY <4>2
        <5>2. QED  BY <1>6, <1>8, <2>1, <5>1 DEF DiffInv, HunksWellFormed
      <4>3. QED  BY <4>1, <4>2
    <3>2. hunk' = NoHunk
        BY <1>7, <2>1
    <3>3. IsSequence(hunk'.lines) /\ Len(hunk'.lines) = 0 /\ hunk'.open \in BOOLEAN /\ IsHunk(hunk')
        BY <1>9, <1>10, <3>2
    <3>4. QED  BY <1>8, <2>1, <3>1, <3>3 DEF HunksWellFormed, IsSequence, IsHunk
  <2>2. CASE ~ ClosesHunk
    <3>1. hunk' = grown /\ hunks' = hunks
        BY <1>7, <2>2
    <3>2. IsHunk(hunk') /\ hunk'.open = TRUE /\ IsSequence(hunk'.lines)
        BY <1>5, <3>1 DEF Grows
    <3>3. QED  BY <3>1, <3>2 DEF DiffInv, HunksWellFormed, IsSequence, IsHunk
  <2>3. QED  BY <2>1, <2>2
<1>12. hunk'.open => \E j \in opIdx' + 1..N : ~ IsEqual(j)
  <2>1. SUFFICES ASSUME hunk'.open PROVE \E j \in opIdx' + 1..N : ~ IsEqual(j)
      OBVIOUS
  <2>2. ~ ClosesHunk
      BY <1>7, <1>10, <2>1
  <2>3. PICK b : b = Min({opIdx + 1 + 2 * ContextLines, Len(operations)})
      OBVIOUS
  <2>4. b \in Nat /\ b <= N
    <3>1. PICK a \in Nat : a = opIdx + 1 + 2 * ContextLines
      <4>1. ContextLines \in Nat
          BY DiffAssumption
      <4>2. QED  BY <1>2, <4>1
    <3>2. \E m \in {a, N} : \A k \in {a, N} : m =< k
        BY <3>1
    <3>3. Min({a, N}) \in {a, N} /\ \A k \in {a, N} : Min({a, N}) =< k
        BY <3>2 DEF Min
    <3>4. QED  BY <1>2, <2>3, <3>1, <3>3
  <2>5. PICK j \in opIdx + 2..b : ~ IsEqual(j)
      BY <2>2, <2>3 DEF ClosesHunk, FarFromChanges
  <2>6. j \in opIdx' + 1..N
      BY <1>1, <1>2, <2>4, <2>5
  <2>7. QED  BY <2>5, <2>6
<1>13. OpenForAChange'
    BY <1>1, <1>2, <1>12 DEF OpenForAChange, IsEqual, MoreLines
<1>14. opIdx' = N => ~ hunk'.open
    BY <1>2, <1>12
<1>15. HunksShowEveryChange'
  <2>1. PICK lists : lists = [k \in HunkNumbers |-> Shown(k)]
      OBVIOUS
  <2>2. Shows(lists, H + 1, operations, opIdx)
      BY <1>6, <2>1, HunksAsLists DEF DiffInv
  <2>3. PICK new : new = [k \in HunkNumbers' |-> Shown(k)']
      OBVIOUS
  <2>4. PICK M \in {H + 1, (H + 1) + 1} : M = (Len(hunks) + 1)' /\ (M = (H + 1) + 1 <=> ClosesHunk)
      BY <1>6, <1>7, <1>8
  <2>5. /\ HunkNumbers = 1..H + 1 /\ HunkNumbers' = 1..M
        /\ H + 1 \in 1..H + 1 /\ H + 1 \in 1..M /\ H + 1 \notin 1..H /\ (H + 1) - 1 = H
        /\ \A k \in 1..H : k \in 1..H + 1 /\ k \in 1..M
      BY <1>6, <2>4 DEF HunkNumbers
  <2>6. lists[H + 1] = hunk.lines /\ \A k \in 1..H : lists[k] = hunks[k].lines
      BY <1>6, <2>1, <2>5 DEF Shown
  <2>7. new[H + 1] = grown.lines /\ \A k \in 1..H : new[k] = hunks[k].lines
    <3>1. CASE ClosesHunk
        BY <1>8, <2>3, <2>5, <3>1 DEF Shown
    <3>2. CASE ~ ClosesHunk
        BY <1>6, <1>7, <2>3, <2>5, <3>2 DEF Shown
    <3>3. QED  BY <3>1, <3>2
  <2>8. M = (H + 1) + 1 => \A n : ~ IsChange(new[M], n)
    <3>1. SUFFICES ASSUME ClosesHunk PROVE \A n : ~ IsChange(new[M], n)
        BY <2>4
    <3>2. M = (H + 1) + 1 /\ M \in 1..M /\ M \notin 1..H + 1
        BY <2>4, <3>1
    <3>3. new[M] = none
        BY <1>7, <1>8, <1>9, <2>3, <2>5, <3>1, <3>2 DEF Shown
    <3>4. QED  BY <1>9, <3>3 DEF IsChange
  <2>9. PICK p \in Nat :
          /\ IsChange(grown.lines, p) /\ grown.lines[p].op = opIdx + 1
          /\ \A n : IsChange(grown.lines, n) <=> (IsChange(hunk.lines, n) \/ n = p)
          /\ \A n : IsChange(hunk.lines, n) => n \in Nat /\ n < p /\ grown.lines[n].op = hunk.lines[n].op
      BY <1>5 DEF Grows
  <2>10. /\ IsChange(new[H + 1], p) /\ new[H + 1][p].op = opIdx + 1
         /\ \A n : IsChange(new[H + 1], n) <=> (IsChange(lists[H + 1], n) \/ n = p)
         /\ \A n : IsChange(lists[H + 1], n) => n \in Nat /\ n < p /\ new[H + 1][n].op = lists[H + 1][n].op
         /\ \A k \in 1..(H + 1) - 1 : new[k] = lists[k]
      BY <2>5, <2>6, <2>7, <2>9
  <2>11. H + 1 \in Nat /\ H + 1 > 0 /\ opIdx \in Nat
      BY <1>2
  <2>12. Shows(new, M, operations, opIdx + 1)
    <3>1. operations[opIdx + 1].type /= "equal"
        BY <1>1
    <3>2. ShowsOneMore(new, M, lists, H + 1, p, opIdx)
        BY Zenon, <2>8, <2>10 DEF ShowsOneMore
    <3>3. QED  BY Zenon, <2>2, <2>4, <2>11, <3>1, <3>2, OneChangeMore
  <2>13. QED  BY <1>1, <1>2, <1>14, <2>3, <2>4, <2>12, ListsAsHunks
<1>16. QED  BY <1>3, <1>4, <1>11, <1>13, <1>15 DEF DiffInv

-----------------------------------------------------------------------------
LEMMA StepOfADiff ==
    ASSUME [Next]_vars
    PROVE  DiffNext \/ UNCHANGED diffVars
BY DEF Next, vars

LEMMA DiffStep == DiffInv /\ [Next]_vars => DiffInv'
<1>1. SUFFICES ASSUME DiffInv, [Next]_vars PROVE DiffInv'
    OBVIOUS
<1>2. CASE Comparing
    BY <1>1, <1>2, ComparingKeeps
<1>3. CASE SkipEqual
    BY <1>1, <1>3, SkipEqualKeeps
<1>4. CASE AddChange
    BY <1>1, <1>4, AddChangeKeeps
<1>5. CASE UNCHANGED diffVars
  <2>1. /\ oldLines' = oldLines /\ newLines' = newLines /\ oldIdx' = oldIdx /\ newIdx' = newIdx
        /\ operations' = operations /\ opIdx' = opIdx /\ hunk' = hunk /\ hunks' = hunks
      BY <1>5 DEF diffVars
  <2>2. DiffTypes' = DiffTypes /\ DiffIsExact' = DiffIsExact
      BY Zenon, <2>1 DEF DiffTypes, DiffIsExact
  <2>3. HunksWellFormed' = HunksWellFormed /\ OpenForAChange' = OpenForAChange
      BY Zenon, <2>1 DEF HunksWellFormed, OpenForAChange, IsEqual, MoreLines
  <2>4. HunksShowEveryChange => HunksShowEveryChange'
      BY <2>1 DEF HunksShowEveryChange, HunkNumbers, Shown, ChangesIn, IsEqual
  <2>5. QED  BY Zenon, <1>1, <2>2, <2>3, <2>4 DEF DiffInv
<1>6. QED  BY <1>1, <1>2, <1>3, <1>4, <1>5, StepOfADiff DEF DiffNext, Comparing

LEMMA DiffBegins == Init => DiffInv
<1>1. SUFFICES ASSUME Init PROVE DiffInv
    OBVIOUS
<1>2. DiffInit
    BY Zenon, <1>1 DEF Init
<1>3. /\ oldIdx = 0 /\ newIdx = 0 /\ operations = <<>> /\ opIdx = 0 /\ hunk = NoHunk /\ hunks = <<>>
      /\ oldLines \in BoundedSeq(FileLines, MaxLines) /\ newLines \in BoundedSeq(FileLines, MaxLines)
    BY <1>2 DEF DiffInit
<1>4. BoundedSeq(FileLines, MaxLines) \subseteq Seq(FileLines)
    BY DiffAssumption DEF BoundedSeq, SeqOf
<1>5. PICK none : none = <<>> /\ none = operations /\ none = hunks
    BY <1>3
<1>6. none \in Seq(Operation) /\ IsSequence(none) /\ Len(none) = 0 /\ DOMAIN none = {}
    BY <1>5 DEF IsSequence
<1>7. /\ hunk.open = FALSE /\ IsHunk(hunk) /\ IsSequence(hunk.lines) /\ Len(hunk.lines) = 0
      /\ DOMAIN hunk.lines = {}
    BY <1>3 DEF NoHunk, IsHunk, IsSequence
<1>8. DiffTypes
    BY <1>3, <1>4, <1>5, <1>6 DEF DiffTypes
<1>9. DiffIsExact
  <2>1. \A T : NumberOf(none, T, 0) = 0
      BY NumberNext
  <2>2. \A T, lines : Spells(none, T, lines, 0)
      BY <1>6, <2>1 DEF Spells
  <2>3. QED  BY <1>3, <1>5, <2>2 DEF DiffIsExact
<1>10. HunksWellFormed
  <2>1. IsSequence(hunks) /\ 1..Len(hunks) = {}
      BY <1>5, <1>6
  <2>2. QED  BY <1>7, <2>1 DEF HunksWellFormed
<1>11. OpenForAChange
    BY <1>3, <1>5, <1>6, <1>7 DEF OpenForAChange
<1>12. HunksShowEveryChange
  <2>1. \A k : Shown(k) = hunk.lines
      BY <1>5, <1>6 DEF Shown
  <2>2. \A k : ChangesIn(k) = {}
      BY <1>7, <2>1 DEF ChangesIn
  <2>3. 1..opIdx = {}
      BY <1>3
  <2>4. QED  BY <1>7, <2>2, <2>3 DEF HunksShowEveryChange
<1>13. QED  BY <1>8, <1>9, <1>10, <1>11, <1>12 DEF DiffInv

\* A preview is exact: its operations turn the old text into the new one, line by line,
\* and its hunks show every operation that changes something, once and in order
\* (file_diff.go: computeDiff and groupIntoHunks), for every two texts, whatever the
\* look-ahead and the lines of context.
THEOREM PreviewsAreExact == Spec => []PreviewIsExact
<1>1. DiffInv => PreviewIsExact
    BY DEF DiffInv, PreviewIsExact
<1>2. QED  BY <1>1, DiffBegins, DiffStep, PTL DEF Spec

-----------------------------------------------------------------------------
(***************************************************************************)
(* Editing a file.                                                         *)
(***************************************************************************)
\* Two recursions with the same steps are one.
LEMMA SameWalk ==
    ASSUME NEW N \in Nat, NEW u, NEW v, u[0] = v[0],
           \A n \in 1..N : u[n - 1] = v[n - 1] => u[n] = v[n]
    PROVE  u[N] = v[N]
<1> DEFINE Good == {n \in 0..N : u[n] = v[n]}
<1>1. 0 \in Good /\ \A n \in 1..N : n - 1 \in Good => n \in Good
    OBVIOUS
<1> HIDE DEF Good
<1>2. 0..N \subseteq Good
    BY <1>1, InductionUpTo
<1>3. QED  BY <1>2 DEF Good

\* Induction along a sequence.
LEMMA InductionAppend ==
    ASSUME NEW S, NEW T, <<>> \in T,
           \A s \in Seq(S) : \A c \in S : s \in T => Append(s, c) \in T
    PROVE  \A s \in Seq(S) : s \in T
<1> SUFFICES ASSUME NEW s \in Seq(S) PROVE s \in T
    OBVIOUS
<1> PICK N : N = Len(s)
    OBVIOUS
<1>1. N \in Nat
    OBVIOUS
<1> DEFINE Good == {n \in 0..N : SubSeq(s, 1, n) \in T}
<1>2. 0 \in Good
  <2>1. SubSeq(s, 1, 0) = <<>> /\ 0 \in 0..N
      OBVIOUS
  <2>2. SubSeq(s, 1, 0) \in T
      BY <2>1, Zenon
  <2>3. QED  BY <2>1, <2>2
<1>3. ASSUME NEW n \in 1..N, n - 1 \in Good PROVE n \in Good
  <2>1. /\ SubSeq(s, 1, n - 1) \in Seq(S) /\ s[n] \in S
        /\ SubSeq(s, 1, n) = Append(SubSeq(s, 1, n - 1), s[n])
      OBVIOUS
  <2>2. SubSeq(s, 1, n - 1) \in T
      BY <1>3
  <2>3. SubSeq(s, 1, n) \in T
      BY <2>1, <2>2
  <2>4. QED  BY <1>1, <2>3
<1> HIDE DEF Good
<1>4. N \in Good
  <2>1. 0..N \subseteq Good
      BY <1>1, <1>2, <1>3, InductionUpTo
  <2>2. QED  BY <1>1, <2>1
<1>5. SubSeq(s, 1, N) = s
    BY SubSeqFull
<1>6. QED  BY <1>4, <1>5 DEF Good

\* The lines split off from a text, character by character.
SplitWalk(C, t) ==
    \E u \in [0..Len(t) -> Seq(Seq(C)) \ {<<>>}] :
        /\ u[0] = <<<<>>>>
        /\ \A p \in 1..Len(t) : u[p] = Extended(u[p - 1], t[p])
        /\ Lines(t) = u[Len(t)]

LEMMA ExtendedIsLines ==
    ASSUME NEW C, NEW ls \in Seq(Seq(C)) \ {<<>>}, NEW c \in C
    PROVE  Extended(ls, c) \in Seq(Seq(C)) \ {<<>>}
<1>1. CASE c = LineBreak
    BY <1>1 DEF Extended
<1>2. CASE c /= LineBreak
  <2>1. PICK n \in Nat : n = Len(ls) /\ n >= 1
      OBVIOUS
  <2>2. PICK l \in Seq(C) : l = ls[n]
      BY <2>1
  <2>3. PICK longer \in Seq(C) : longer = Append(l, c)
    <3>1. Append(l, c) \in Seq(C)
        BY AppendProperties
    <3>2. QED  BY <3>1, Zenon
  <2>4. Extended(ls, c) = [ls EXCEPT ![n] = longer]
      BY <1>2, <2>1, <2>2, <2>3 DEF Extended
  <2>5. Len([ls EXCEPT ![n] = longer]) = n /\ [ls EXCEPT ![n] = longer] \in Seq(Seq(C))
      BY <2>1
  <2>6. QED  BY <2>1, <2>4, <2>5
<1>3. QED  BY <1>1, <1>2

LEMMA SplitDefined ==
    ASSUME NEW C, NEW t \in Seq(C)
    PROVE  SplitWalk(C, t)
<1>1. PICK N \in Nat : N = Len(t)
    OBVIOUS
<1>2. PICK T : T = Seq(Seq(C)) \ {<<>>}
    OBVIOUS
<1>3. PICK first \in T : first = <<<<>>>>
  <2>1. <<<<>>>> \in T
      BY <1>2
  <2>2. QED  BY Zenon, <2>1
<1> DEFINE F(h, p) == IF p = 0 THEN first ELSE Extended(h[p - 1], t[p])
<1>4. ASSUME NEW ls \in T, NEW p \in 1..N PROVE Extended(ls, t[p]) \in T
  <2>1. t[p] \in C
      BY <1>1
  <2>2. QED  BY <1>2, <2>1, ExtendedIsLines
<1>5. PICK g \in [0..N -> T] : g[0] = first /\ \A p \in 1..N : g[p] = Extended(g[p - 1], t[p])
  <2> DEFINE G == [p \in Nat |-> [ls \in T |-> IF p \in 1..N THEN Extended(ls, t[p]) ELSE ls]]
  <2>1. G \in [Nat -> [T -> T]]
      BY <1>4
  <2>2. \A p \in 1..N, ls \in T : G[p][ls] = Extended(ls, t[p])
      OBVIOUS
  <2> HIDE DEF G
  <2>3. PICK g \in [0..N -> T] : g[0] = first /\ \A p \in 1..N : g[p] = G[p][g[p - 1]]
    <3>1. Recursion(T, first, N, G)
        BY <2>1, RecursionDefined
    <3>2. QED  BY <3>1 DEF Recursion
  <2>4. ASSUME NEW p \in 1..N PROVE g[p] = Extended(g[p - 1], t[p])
    <3>1. p - 1 \in 0..N
        OBVIOUS
    <3>2. QED  BY <2>2, <2>3, <3>1
  <2>5. QED  BY <2>3, <2>4
<1>6. g = [p \in 0..N |-> F(g, p)]
    BY <1>5
<1> DEFINE L == CHOOSE h : h = [p \in 0..N |-> F(h, p)]
<1>7. L = [p \in 0..N |-> F(L, p)]
    BY <1>6
<1>8. Lines(t) = L[N]
    BY <1>1, <1>3 DEF Lines
<1> HIDE DEF L
<1>9. L[0] = first /\ \A p \in 1..N : L[p] = Extended(L[p - 1], t[p])
    BY <1>7
<1>10. L \in [0..N -> T]
  <2> DEFINE Good == {p \in 0..N : L[p] \in T}
  <2>1. 0 \in Good
      BY <1>9
  <2>2. \A p \in 1..N : p - 1 \in Good => p \in Good
      BY <1>4, <1>9
  <2> HIDE DEF Good
  <2>3. 0..N \subseteq Good
      BY <2>1, <2>2, InductionUpTo
  <2>4. \A p \in 0..N : L[p] \in T
      BY <2>3 DEF Good
  <2>5. QED  BY <1>7, <2>4
<1>11. QED  BY <1>1, <1>2, <1>3, <1>8, <1>9, <1>10 DEF SplitWalk

\* A character more extends the lines.
LEMMA LinesNext ==
    ASSUME NEW C, NEW t \in Seq(C), NEW c \in C
    PROVE  Lines(Append(t, c)) = Extended(Lines(t), c)
<1>1. PICK s \in Seq(C) : s = Append(t, c)
  <2>1. Append(t, c) \in Seq(C)
      BY AppendProperties
  <2>2. QED  BY <2>1, Zenon
<1>2. PICK N \in Nat : N = Len(t)
    OBVIOUS
<1>3. Len(s) = N + 1 /\ s[N + 1] = c /\ \A p \in 1..N : s[p] = t[p]
    BY <1>1, <1>2
<1>4. PICK u : /\ u[0] = <<<<>>>> /\ \A p \in 1..N : u[p] = Extended(u[p - 1], t[p])
               /\ Lines(t) = u[N]
  <2>1. SplitWalk(C, t)
      BY SplitDefined
  <2>2. QED  BY <1>2, <2>1 DEF SplitWalk
<1>5. PICK v : /\ v[0] = <<<<>>>> /\ \A p \in 1..N + 1 : v[p] = Extended(v[p - 1], s[p])
               /\ Lines(s) = v[N + 1]
  <2>1. SplitWalk(C, s)
      BY SplitDefined
  <2>2. QED  BY <1>3, <2>1 DEF SplitWalk
<1>6. u[N] = v[N]
  <2>1. \A p \in 1..N : u[p - 1] = v[p - 1] => u[p] = v[p]
      BY <1>3, <1>4, <1>5
  <2>2. u[0] = v[0]
      BY <1>4, <1>5, Zenon
  <2>3. QED  BY <2>1, <2>2, SameWalk, Zenon
<1>7. v[N + 1] = Extended(v[N], c)
    BY <1>3, <1>5
<1>8. QED  BY <1>1, <1>4, <1>5, <1>6, <1>7

LEMMA LinesOfNothing == Lines(<<>>) = <<<<>>>>
<1>1. PICK t \in Seq({0}) : t = <<>>
  <2>1. <<>> \in Seq({0})
      OBVIOUS
  <2>2. QED  BY <2>1, Zenon
<1>2. SplitWalk({0}, t) /\ Len(t) = 0
    BY <1>1, SplitDefined
<1>3. QED  BY <1>1, <1>2 DEF SplitWalk

LEMMA LinesAreTexts ==
    ASSUME NEW C, NEW t \in Seq(C)
    PROVE  Lines(t) \in Seq(Seq(C)) \ {<<>>}
<1>1. SplitWalk(C, t) /\ Len(t) \in 0..Len(t)
    BY SplitDefined
<1>2. QED  BY <1>1 DEF SplitWalk

\* Texts joined to one.
JoinWalk(C, ls) ==
    \E u \in [0..Len(ls) -> Seq(C)] :
        /\ u[0] = <<>>
        /\ \A k \in 1..Len(ls) : u[k] = IF k = 1 THEN ls[1] ELSE u[k - 1] \o <<LineBreak>> \o ls[k]
        /\ Joined(ls) = u[Len(ls)]

LEMMA JoinDefined ==
    ASSUME NEW C, LineBreak \in C, NEW ls \in Seq(Seq(C))
    PROVE  JoinWalk(C, ls)
<1>1. PICK N \in Nat : N = Len(ls)
    OBVIOUS
<1>2. PICK T : T = Seq(C)
    OBVIOUS
<1>3. PICK none \in T : none = <<>>
  <2>1. <<>> \in T
      BY <1>2
  <2>2. QED  BY Zenon, <2>1
<1> DEFINE Step(l, k) == IF k = 1 THEN ls[1] ELSE l \o <<LineBreak>> \o ls[k]
           F(h, k) == IF k = 0 THEN none ELSE Step(h[k - 1], k)
<1>4. ASSUME NEW l \in T, NEW k \in 1..N PROVE Step(l, k) \in T
  <2>1. ls[k] \in Seq(C) /\ (k = 1 => ls[1] \in Seq(C)) /\ <<LineBreak>> \in Seq(C)
      BY <1>1
  <2>2. l \o <<LineBreak>> \o ls[k] \in Seq(C)
      BY <1>2, <2>1, ConcatProperties
  <2>3. QED  BY <1>2, <2>1, <2>2
<1> HIDE DEF Step
<1>5. PICK g \in [0..N -> T] : g[0] = none /\ \A k \in 1..N : g[k] = Step(g[k - 1], k)
  <2> DEFINE G == [k \in Nat |-> [l \in T |-> IF k \in 1..N THEN Step(l, k) ELSE l]]
  <2>1. G \in [Nat -> [T -> T]]
      BY <1>4
  <2>2. \A k \in 1..N, l \in T : G[k][l] = Step(l, k)
      OBVIOUS
  <2> HIDE DEF G
  <2>3. PICK g \in [0..N -> T] : g[0] = none /\ \A k \in 1..N : g[k] = G[k][g[k - 1]]
    <3>1. Recursion(T, none, N, G)
        BY <2>1, RecursionDefined
    <3>2. QED  BY <3>1 DEF Recursion
  <2>4. ASSUME NEW k \in 1..N PROVE g[k] = Step(g[k - 1], k)
    <3>1. k - 1 \in 0..N
        OBVIOUS
    <3>2. QED  BY <2>2, <2>3, <3>1
  <2>5. QED  BY <2>3, <2>4
<1>6. g = [k \in 0..N |-> F(g, k)]
    BY <1>5
<1> DEFINE L == CHOOSE h : h = [k \in 0..N |-> F(h, k)]
<1>7. L = [k \in 0..N |-> F(L, k)]
    BY <1>6
<1>8. Joined(ls) = L[N]
    BY <1>1, <1>3, Zenon DEF Joined, Step
<1> HIDE DEF L
<1>9. L[0] = none /\ \A k \in 1..N : L[k] = Step(L[k - 1], k)
    BY <1>7
<1>10. L \in [0..N -> T]
  <2> DEFINE Good == {k \in 0..N : L[k] \in T}
  <2>1. 0 \in Good
      BY <1>9
  <2>2. \A k \in 1..N : k - 1 \in Good => k \in Good
      BY <1>4, <1>9
  <2> HIDE DEF Good
  <2>3. 0..N \subseteq Good
      BY <2>1, <2>2, InductionUpTo
  <2>4. \A k \in 0..N : L[k] \in T
      BY <2>3 DEF Good
  <2>5. QED  BY <1>7, <2>4
<1>11. QED  BY <1>1, <1>2, <1>3, <1>8, <1>9, <1>10 DEF JoinWalk, Step

LEMMA JoinedNext ==
    ASSUME NEW C, LineBreak \in C, NEW ls \in Seq(Seq(C)), NEW l \in Seq(C)
    PROVE  Joined(Append(ls, l)) = IF ls = <<>> THEN l ELSE Joined(ls) \o <<LineBreak>> \o l
<1>1. PICK ms \in Seq(Seq(C)) : ms = Append(ls, l)
  <2>1. Append(ls, l) \in Seq(Seq(C))
      BY AppendProperties
  <2>2. QED  BY <2>1, Zenon
<1>2. PICK N \in Nat : N = Len(ls)
    OBVIOUS
<1>3. Len(ms) = N + 1 /\ ms[N + 1] = l /\ \A k \in 1..N : ms[k] = ls[k]
    BY <1>1, <1>2
<1> DEFINE Step(w, s, k) == IF k = 1 THEN s[1] ELSE w[k - 1] \o <<LineBreak>> \o s[k]
<1>4. PICK u : /\ u[0] = <<>> /\ \A k \in 1..N : u[k] = Step(u, ls, k)
               /\ Joined(ls) = u[N]
  <2>1. JoinWalk(C, ls)
      BY JoinDefined
  <2>2. QED  BY <1>2, <2>1 DEF JoinWalk
<1>5. PICK v : /\ v[0] = <<>> /\ \A k \in 1..N + 1 : v[k] = Step(v, ms, k)
               /\ Joined(ms) = v[N + 1]
  <2>1. JoinWalk(C, ms)
      BY JoinDefined
  <2>2. QED  BY <1>3, <2>1 DEF JoinWalk
<1>6. u[N] = v[N]
  <2>1. ASSUME NEW k \in 1..N, u[k - 1] = v[k - 1] PROVE u[k] = v[k]
    <3>1. ms[k] = ls[k] /\ k \in 1..N + 1 /\ (k = 1 => ms[1] = ls[1])
        BY <1>3
    <3>2. u[k] = Step(u, ls, k) /\ v[k] = Step(v, ms, k)
        BY <1>4, <1>5, <3>1, Zenon
    <3>3. QED  BY <2>1, <3>1, <3>2, Zenon
  <2>2. u[0] = v[0]
      BY <1>4, <1>5, Zenon
  <2>3. QED  BY <2>1, <2>2, SameWalk, Zenon
<1>7. v[N + 1] = IF N = 0 THEN l ELSE v[N] \o <<LineBreak>> \o l
  <2>1. PICK m \in 1..N + 1 : m = N + 1 /\ m - 1 = N /\ (m = 1 <=> N = 0)
      OBVIOUS
  <2>2. v[m] = Step(v, ms, m)
      BY <1>5
  <2>3. ms[m] = l /\ v[m] = v[N + 1] /\ v[m - 1] = v[N]
      BY <1>3, <2>1
  <2>4. CASE N = 0
    <3>1. v[m] = ms[1] /\ ms[1] = l
        BY <2>1, <2>2, <2>3, <2>4
    <3>2. QED  BY <2>3, <2>4, <3>1, Zenon
  <2>5. CASE N /= 0
    <3>1. m /= 1
        BY <2>1, <2>5
    <3>2. v[m] = v[m - 1] \o <<LineBreak>> \o ms[m]
        BY <2>2, <3>1
    <3>3. QED  BY <2>3, <2>5, <3>2, Zenon
  <2>6. QED  BY <2>4, <2>5
<1>8. N = 0 <=> ls = <<>>
    BY <1>2
<1>9. QED  BY <1>1, <1>4, <1>5, <1>6, <1>7, <1>8, Zenon

LEMMA JoinedIsText ==
    ASSUME NEW C, LineBreak \in C, NEW ls \in Seq(Seq(C))
    PROVE  Joined(ls) \in Seq(C)
<1>1. JoinWalk(C, ls) /\ Len(ls) \in 0..Len(ls)
    BY JoinDefined
<1>2. QED  BY <1>1 DEF JoinWalk

LEMMA JoinedOfOne ==
    ASSUME NEW C, LineBreak \in C, NEW l \in Seq(C)
    PROVE  Joined(<<l>>) = l
<1>1. <<l>> = Append(<<>>, l) /\ <<>> \in Seq(Seq(C))
    OBVIOUS
<1>2. QED  BY <1>1, JoinedNext, Zenon

LEMMA AppendIsNotEmpty ==
    ASSUME NEW S, NEW s \in Seq(S), NEW c \in S
    PROVE  Append(s, c) /= <<>>
BY AppendProperties

\* Appending to the second of two lists is appending to both.
AppendsBehind(s, t, c) == s \o Append(t, c) = Append(s \o t, c)

LEMMA ConcatAppend ==
    ASSUME NEW S, NEW s \in Seq(S), NEW t \in Seq(S), NEW c \in S
    PROVE  AppendsBehind(s, t, c)
<1>1. <<c>> \in Seq(S) /\ s \o t \in Seq(S)
    BY ConcatProperties
<1>2. Append(t, c) = t \o <<c>> /\ Append(s \o t, c) = (s \o t) \o <<c>>
    BY <1>1, AppendIsConcat
<1>3. (s \o t) \o <<c>> = s \o (t \o <<c>>)
    BY <1>1, ConcatAssociative
<1>4. QED  BY <1>2, <1>3, Zenon DEF AppendsBehind

\* The last of a list exchanged.
ReplacesLast(F, l, m, n) == [Append(F, l) EXCEPT ![n] = m] = Append(F, m)

LEMMA LastChanged ==
    ASSUME NEW S, NEW F \in Seq(S), NEW l \in S, NEW m \in S, NEW n, n = Len(F) + 1
    PROVE  ReplacesLast(F, l, m, n)
<1>1. PICK s \in Seq(S) : s = Append(F, l)
  <2>1. Append(F, l) \in Seq(S)
      BY AppendProperties
  <2>2. QED  BY <2>1, Zenon
<1>2. n \in 1..Len(s) /\ Len(s) = n /\ \A k \in 1..n - 1 : s[k] = F[k]
    BY <1>1
<1>3. /\ [s EXCEPT ![n] = m] \in Seq(S) /\ Len([s EXCEPT ![n] = m]) = n
      /\ \A k \in 1..n : [s EXCEPT ![n] = m][k] = IF k = n THEN m ELSE s[k]
    BY <1>2, ExceptSeq
<1>4. /\ Append(F, m) \in Seq(S) /\ Len(Append(F, m)) = n /\ Append(F, m)[n] = m
      /\ \A k \in 1..n - 1 : Append(F, m)[k] = F[k]
    BY AppendProperties
<1>5. \A k \in 1..n : Append(F, m)[k] = [s EXCEPT ![n] = m][k]
  <2> SUFFICES ASSUME NEW k \in 1..n PROVE Append(F, m)[k] = [s EXCEPT ![n] = m][k]
      OBVIOUS
  <2>1. k = n \/ (k \in 1..n - 1 /\ k /= n)
      OBVIOUS
  <2>2. QED  BY <1>2, <1>3, <1>4, <2>1, Zenon
<1>6. [s EXCEPT ![n] = m] = Append(F, m)
    BY <1>3, <1>4, <1>5, SeqEqual
<1>7. QED  BY <1>1, <1>6, Zenon DEF ReplacesLast

\* What is no line break goes on with the last line.
GoesOn(ls, l, c) == Extended(Append(ls, l), c) = Append(ls, Append(l, c))

LEMMA GoesOnWithLast ==
    ASSUME NEW C, NEW ls \in Seq(Seq(C)), NEW l \in Seq(C), NEW c \in C, c /= LineBreak
    PROVE  GoesOn(ls, l, c)
<1>1. PICK longer \in Seq(C) : longer = Append(l, c)
  <2>1. Append(l, c) \in Seq(C)
      BY AppendProperties
  <2>2. QED  BY <2>1, Zenon
<1>2. PICK ms \in Seq(Seq(C)) : ms = Append(ls, l)
  <2>1. Append(ls, l) \in Seq(Seq(C))
      BY AppendProperties
  <2>2. QED  BY <2>1, Zenon
<1>3. PICK n \in Nat : n = Len(ms) /\ n = Len(ls) + 1
    BY <1>2
<1>4. ms[n] = l
    BY <1>2, <1>3
<1>5. Extended(ms, c) = [ms EXCEPT ![n] = longer]
    BY <1>1, <1>3, <1>4 DEF Extended
<1>6. ReplacesLast(ls, l, longer, n)
    BY <1>3, LastChanged, Zenon
<1>7. QED  BY <1>1, <1>2, <1>5, <1>6, Zenon DEF ReplacesLast, GoesOn

\* Extending the lines puts the character behind the text.
LEMMA ExtendedJoined ==
    ASSUME NEW C, LineBreak \in C, NEW A \in Seq(Seq(C)), NEW ls \in Seq(Seq(C)) \ {<<>>}, NEW c \in C
    PROVE  Joined(A \o Extended(ls, c)) = Append(Joined(A \o ls), c)
<1>1. PICK F \in Seq(Seq(C)), l \in Seq(C) : ls = Append(F, l)
    BY SequenceEmptyOrAppend
<1>2. PICK B \in Seq(Seq(C)) : B = A \o F
  <2>1. A \o F \in Seq(Seq(C))
      BY ConcatProperties
  <2>2. QED  BY <2>1, Zenon
<1>3. A \o ls = Append(B, l) /\ Append(B, l) \in Seq(Seq(C))
  <2>1. AppendsBehind(A, F, l)
      BY ConcatAppend, Zenon
  <2>2. Append(B, l) \in Seq(Seq(C))
      BY AppendProperties, Zenon
  <2>3. QED  BY <1>1, <1>2, <2>1, <2>2, Zenon DEF AppendsBehind
<1>4. PICK J \in Seq(C) : J = Joined(A \o ls)
  <2>1. Joined(A \o ls) \in Seq(C)
      BY <1>3, JoinedIsText
  <2>2. QED  BY <2>1, Zenon
<1>5. CASE c = LineBreak
  <2>1. PICK none \in Seq(C) : none = <<>>
    <3>1. <<>> \in Seq(C)
        OBVIOUS
    <3>2. QED  BY <3>1, Zenon
  <2>2. Extended(ls, c) = Append(ls, none) /\ A \o Append(ls, none) = Append(A \o ls, none)
      BY <1>5, <2>1 DEF Extended
  <2>3. Joined(Append(A \o ls, none)) = Joined(A \o ls) \o <<LineBreak>> \o none
    <3>1. PICK M \in Seq(Seq(C)) : M = A \o ls /\ M /= <<>>
      <4>1. Append(B, l) /= <<>>
          BY AppendIsNotEmpty, Zenon
      <4>2. QED  BY <1>3, <4>1, Zenon
    <3>2. Joined(Append(M, none)) = Joined(M) \o <<LineBreak>> \o none
        BY <3>1, JoinedNext, Zenon
    <3>3. QED  BY <3>1, <3>2, Zenon
  <2>4. J \o <<c>> \o none = Append(J, c)
      BY <2>1
  <2>5. QED  BY <1>4, <1>5, <2>2, <2>3, <2>4, Zenon
<1>6. CASE c /= LineBreak
  <2>1. PICK longer \in Seq(C) : longer = Append(l, c)
    <3>1. Append(l, c) \in Seq(C)
        BY AppendProperties
    <3>2. QED  BY <3>1, Zenon
  <2>2. Extended(ls, c) = Append(F, longer)
    <3>1. GoesOn(F, l, c)
        BY <1>6, GoesOnWithLast
    <3>2. QED  BY <1>1, <2>1, <3>1, Zenon DEF GoesOn
  <2>3. A \o Append(F, longer) = Append(B, longer)
    <3>1. AppendsBehind(A, F, longer)
        BY ConcatAppend, Zenon
    <3>2. QED  BY <1>2, <3>1, Zenon DEF AppendsBehind
  <2>4. /\ Joined(Append(B, longer)) = IF B = <<>> THEN longer ELSE Joined(B) \o <<LineBreak>> \o longer
        /\ Joined(Append(B, l)) = IF B = <<>> THEN l ELSE Joined(B) \o <<LineBreak>> \o l
      BY JoinedNext
  <2>5. CASE B = <<>>
      BY <1>3, <2>1, <2>2, <2>3, <2>4, <2>5, Zenon
  <2>6. CASE B /= <<>>
    <3>1. PICK K \in Seq(C) : K = Joined(B) \o <<LineBreak>>
      <4>1. Joined(B) \in Seq(C)
          BY JoinedIsText
      <4>2. Joined(B) \o <<LineBreak>> \in Seq(C)
          BY <4>1
      <4>3. QED  BY <4>2, Zenon
    <3>2. AppendsBehind(K, l, c)
        BY ConcatAppend, Zenon
    <3>3. Joined(Append(B, longer)) = K \o longer /\ Joined(Append(B, l)) = K \o l
        BY <2>4, <2>6, <3>1, Zenon
    <3>4. QED  BY <1>3, <2>1, <2>2, <2>3, <3>2, <3>3, Zenon DEF AppendsBehind
  <2>7. QED  BY <2>5, <2>6
<1>7. QED  BY <1>5, <1>6

\* Joining what was split gives the text, behind any lines.
LEMMA SplitAndJoined ==
    ASSUME NEW C, LineBreak \in C, NEW A \in Seq(Seq(C)), NEW t \in Seq(C)
    PROVE  Joined(A \o Lines(t)) = Joined(Append(A, t))
<1> DEFINE T == {s \in Seq(C) : Joined(A \o Lines(s)) = Joined(Append(A, s))}
<1>1. <<>> \in T
  <2>1. A \o <<<<>>>> = Append(A, <<>>) /\ <<>> \in Seq(C)
      OBVIOUS
  <2>2. QED  BY <2>1, LinesOfNothing, Zenon
<1>2. ASSUME NEW s \in Seq(C), NEW c \in C, s \in T PROVE Append(s, c) \in T
  <2>1. Append(s, c) \in Seq(C)
      BY AppendProperties
  <2>2. Lines(Append(s, c)) = Extended(Lines(s), c) /\ Lines(s) \in Seq(Seq(C)) \ {<<>>}
      BY LinesNext, LinesAreTexts, Zenon
  <2>3. Joined(A \o Lines(Append(s, c))) = Append(Joined(Append(A, s)), c)
    <3>1. Joined(A \o Lines(s)) = Joined(Append(A, s))
        BY <1>2, Zenon
    <3>2. Joined(A \o Extended(Lines(s), c)) = Append(Joined(A \o Lines(s)), c)
        BY <2>2, ExtendedJoined
    <3>3. QED  BY <2>2, <3>1, <3>2, Zenon
  <2>4. Joined(Append(A, Append(s, c))) = Append(Joined(Append(A, s)), c)
    <3>1. /\ Joined(Append(A, s)) = IF A = <<>> THEN s ELSE Joined(A) \o <<LineBreak>> \o s
          /\ Joined(Append(A, Append(s, c))) =
                 IF A = <<>> THEN Append(s, c) ELSE Joined(A) \o <<LineBreak>> \o Append(s, c)
        BY <2>1, JoinedNext, Zenon
    <3>2. PICK K \in Seq(C) : K = Joined(A) \o <<LineBreak>>
      <4>1. Joined(A) \in Seq(C)
          BY JoinedIsText
      <4>2. Joined(A) \o <<LineBreak>> \in Seq(C)
          BY <4>1
      <4>3. QED  BY <4>2, Zenon
    <3>3. AppendsBehind(K, s, c)
        BY ConcatAppend, Zenon
    <3>4. QED  BY <3>1, <3>2, <3>3, Zenon DEF AppendsBehind
  <2>5. QED  BY <2>1, <2>3, <2>4, Zenon
<1> HIDE DEF T
<1>3. t \in T
    BY <1>1, <1>2, InductionAppend, Zenon
<1>4. QED  BY <1>3 DEF T

\* What is behind two lists that join to one text changes nothing about that.
LEMMA SameJoined ==
    ASSUME NEW C, LineBreak \in C, NEW X \in Seq(Seq(C)) \ {<<>>}, NEW Y \in Seq(Seq(C)) \ {<<>>},
           Joined(X) = Joined(Y), NEW B \in Seq(Seq(C))
    PROVE  Joined(X \o B) = Joined(Y \o B)
<1> DEFINE T == {s \in Seq(Seq(C)) : Joined(X \o s) = Joined(Y \o s)}
<1>1. <<>> \in T
  <2>1. X \o <<>> = X /\ Y \o <<>> = Y /\ <<>> \in Seq(Seq(C))
      BY ConcatEmptySeq, EmptySeq, Zenon
  <2>2. QED  BY <2>1, Zenon
<1>2. ASSUME NEW s \in Seq(Seq(C)), NEW l \in Seq(C), s \in T PROVE Append(s, l) \in T
  <2>1. Append(s, l) \in Seq(Seq(C))
      BY AppendProperties
  <2>2. ASSUME NEW Z \in Seq(Seq(C)) \ {<<>>}
        PROVE  Joined(Z \o Append(s, l)) = Joined(Z \o s) \o <<LineBreak>> \o l
    <3>1. Z \o s \in Seq(Seq(C)) /\ Z \o s /= <<>>
        BY ConcatProperties, ConcatEqualIffEmpty
    <3>2. Z \o Append(s, l) = Append(Z \o s, l)
      <4>1. AppendsBehind(Z, s, l)
          BY ConcatAppend, Zenon
      <4>2. QED  BY <4>1 DEF AppendsBehind
    <3>3. QED  BY <3>1, <3>2, JoinedNext, Zenon
  <2>3. QED  BY <1>2, <2>1, <2>2, Zenon
<1> HIDE DEF T
<1>3. B \in T
    BY <1>1, <1>2, InductionAppend, Zenon
<1>4. QED  BY <1>3 DEF T

\* A text split has no line breaks in its lines.
LEMMA LinesAreLines ==
    ASSUME NEW C, LineBreak \in C, NEW t \in Seq(C)
    PROVE  Lines(t) \in Seq(Seq(C \ {LineBreak})) \ {<<>>}
<1> PICK D : D = C \ {LineBreak}
    OBVIOUS
<1> DEFINE T == {s \in Seq(C) : Lines(s) \in Seq(Seq(D)) \ {<<>>}}
<1>1. <<>> \in T
  <2>1. ASSUME NEW none \in Seq(D) PROVE <<none>> \in Seq(Seq(D)) \ {<<>>}
      OBVIOUS
  <2>2. <<>> \in Seq(D) /\ <<>> \in Seq(C)
      OBVIOUS
  <2>3. QED  BY <2>1, <2>2, LinesOfNothing, Zenon
<1>2. ASSUME NEW s \in Seq(C), NEW c \in C, s \in T PROVE Append(s, c) \in T
  <2>1. Append(s, c) \in Seq(C)
      BY AppendProperties
  <2>2. Lines(Append(s, c)) = Extended(Lines(s), c)
      BY LinesNext, Zenon
  <2>3. CASE c = LineBreak
    <3>1. PICK ls \in Seq(Seq(D)) : ls = Lines(s)
        BY <1>2, Zenon
    <3>2. Append(ls, <<>>) \in Seq(Seq(D)) \ {<<>>}
      <4>1. <<>> \in Seq(D)
          OBVIOUS
      <4>2. \A none \in Seq(D) : Append(ls, none) \in Seq(Seq(D)) \ {<<>>}
          BY AppendProperties
      <4>3. QED  BY <4>1, <4>2, Zenon
    <3>3. Extended(Lines(s), c) = Append(ls, <<>>)
        BY <2>3, <3>1 DEF Extended
    <3>4. QED  BY <2>1, <2>2, <3>2, <3>3, Zenon
  <2>4. CASE c /= LineBreak
    <3>1. c \in D
        BY <2>4
    <3>2. Extended(Lines(s), c) \in Seq(Seq(D)) \ {<<>>}
        BY <1>2, <3>1, ExtendedIsLines, Zenon
    <3>3. QED  BY <2>1, <2>2, <3>2, Zenon
  <2>5. QED  BY <2>3, <2>4
<1> HIDE DEF T
<1>3. t \in T
    BY <1>1, <1>2, InductionAppend, Zenon
<1>4. QED  BY <1>3 DEF T

\* A line behind a line break is a line more.
IsLineMore(t, l) == Lines(t \o <<LineBreak>> \o l) = Append(Lines(t), l)

LEMMA LineAdded ==
    ASSUME NEW C, LineBreak \in C, NEW D, D = C \ {LineBreak}, NEW t \in Seq(C), NEW l \in Seq(D)
    PROVE  IsLineMore(t, l)
<1> PICK s \in Seq(C) : s = t \o <<LineBreak>>
  <2>1. t \o <<LineBreak>> \in Seq(C)
      OBVIOUS
  <2>2. QED  BY <2>1, Zenon
<1>1. PICK ls \in Seq(Seq(C)) : ls = Lines(t)
  <2>1. Lines(t) \in Seq(Seq(C))
      BY LinesAreTexts
  <2>2. QED  BY <2>1, Zenon
<1>2. Lines(s) = Append(ls, <<>>)
  <2>1. s = Append(t, LineBreak)
      OBVIOUS
  <2>2. Lines(s) = Extended(ls, LineBreak)
      BY <1>1, <2>1, LinesNext
  <2>3. QED  BY <2>2 DEF Extended
<1> DEFINE T == {m \in Seq(D) : Lines(s \o m) = Append(ls, m)}
<1>3. <<>> \in T
  <2>1. s \o <<>> = s /\ <<>> \in Seq(D)
      BY ConcatEmptySeq, EmptySeq
  <2>2. QED  BY <1>2, <2>1, Zenon
<1>4. ASSUME NEW m \in Seq(D), NEW c \in D, m \in T PROVE Append(m, c) \in T
  <2>1. Append(m, c) \in Seq(D)
      BY AppendProperties
  <2>2. m \in Seq(C) /\ c \in C /\ c /= LineBreak
      BY SeqMonotonic
  <2>3. s \o m \in Seq(C) /\ s \o Append(m, c) = Append(s \o m, c)
    <3>1. AppendsBehind(s, m, c)
        BY <2>2, ConcatAppend, Zenon
    <3>2. QED  BY <2>2, <3>1, ConcatProperties DEF AppendsBehind
  <2>4. Lines(s \o Append(m, c)) = Extended(Append(ls, m), c)
    <3>1. Lines(s \o m) = Append(ls, m)
        BY <1>4, Zenon
    <3>2. Lines(Append(s \o m, c)) = Extended(Lines(s \o m), c)
        BY <2>2, <2>3, LinesNext
    <3>3. QED  BY <2>3, <3>1, <3>2, Zenon
  <2>5. GoesOn(ls, m, c)
      BY <2>2, GoesOnWithLast
  <2>6. QED  BY <2>1, <2>4, <2>5, Zenon DEF GoesOn
<1> HIDE DEF T
<1>5. l \in T
    BY <1>3, <1>4, InductionAppend, Zenon
<1>6. QED  BY <1>1, <1>5 DEF T, IsLineMore

LEMMA LinesOfLine ==
    ASSUME NEW C, LineBreak \in C, NEW D, D = C \ {LineBreak}, NEW l \in Seq(D)
    PROVE  Lines(l) = <<l>>
<1> PICK none \in Seq(Seq(C)) : none = <<>>
  <2>1. <<>> \in Seq(Seq(C))
      OBVIOUS
  <2>2. QED  BY <2>1, Zenon
<1> DEFINE T == {m \in Seq(D) : Lines(m) = Append(none, m)}
<1>1. <<>> \in T
  <2>1. <<<<>>>> = Append(none, <<>>) /\ <<>> \in Seq(D)
      OBVIOUS
  <2>2. QED  BY <2>1, LinesOfNothing, Zenon
<1>2. ASSUME NEW m \in Seq(D), NEW c \in D, m \in T PROVE Append(m, c) \in T
  <2>1. Append(m, c) \in Seq(D)
      BY AppendProperties
  <2>2. m \in Seq(C) /\ c \in C /\ c /= LineBreak
      BY SeqMonotonic
  <2>3. Lines(Append(m, c)) = Extended(Append(none, m), c)
    <3>1. Lines(m) = Append(none, m)
        BY <1>2, Zenon
    <3>2. Lines(Append(m, c)) = Extended(Lines(m), c)
        BY <2>2, LinesNext
    <3>3. QED  BY <3>1, <3>2, Zenon
  <2>4. GoesOn(none, m, c)
      BY <2>2, GoesOnWithLast
  <2>5. QED  BY <2>1, <2>3, <2>4, Zenon DEF GoesOn
<1> HIDE DEF T
<1>3. l \in T
    BY <1>1, <1>2, InductionAppend, Zenon
<1>4. Lines(l) = Append(none, l)
    BY <1>3 DEF T
<1>5. Append(none, l) = <<l>>
    OBVIOUS
<1>6. QED  BY <1>4, <1>5, Zenon

\* Splitting what was joined of lines gives the lines.
LEMMA JoinedAndSplit ==
    ASSUME NEW C, LineBreak \in C, NEW D, D = C \ {LineBreak}, NEW ls \in Seq(Seq(D)), ls /= <<>>
    PROVE  Lines(Joined(ls)) = ls
<1> DEFINE T == {ms \in Seq(Seq(D)) : ms /= <<>> => Lines(Joined(ms)) = ms}
<1>1. <<>> \in T
    OBVIOUS
<1>2. ASSUME NEW ms \in Seq(Seq(D)), NEW l \in Seq(D), ms \in T PROVE Append(ms, l) \in T
  <2>1. Append(ms, l) \in Seq(Seq(D))
      BY AppendProperties
  <2>2. ms \in Seq(Seq(C)) /\ l \in Seq(C)
    <3>1. Seq(D) \subseteq Seq(C)
        BY SeqMonotonic
    <3>2. QED  BY <3>1, SeqMonotonic
  <2>3. Joined(Append(ms, l)) = IF ms = <<>> THEN l ELSE Joined(ms) \o <<LineBreak>> \o l
      BY <2>2, JoinedNext
  <2>4. CASE ms = <<>>
    <3>1. Append(ms, l) = <<l>>
        BY <2>4
    <3>2. Lines(Joined(Append(ms, l))) = <<l>>
        BY <2>3, <2>4, LinesOfLine, Zenon
    <3>3. QED  BY <2>1, <3>1, <3>2, Zenon
  <2>5. CASE ms /= <<>>
    <3>1. Joined(ms) \in Seq(C)
        BY <2>2, JoinedIsText
    <3>2. IsLineMore(Joined(ms), l)
        BY <3>1, LineAdded, Zenon
    <3>3. Lines(Joined(ms)) = ms
        BY <1>2, <2>5, Zenon
    <3>4. QED  BY <2>1, <2>3, <2>5, <3>2, <3>3, Zenon DEF IsLineMore
  <2>6. QED  BY <2>4, <2>5
<1> HIDE DEF T
<1>3. ls \in T
    BY <1>1, <1>2, InductionAppend, Zenon
<1>4. QED  BY <1>3 DEF T

\* The parts of a list of three.
HasParts(A, G, B) ==
    LET L == (A \o G) \o B
    IN /\ SubSeq(L, 1, Len(A)) = A
       /\ SubSeq(L, Len(A) + 1, Len(A) + Len(G)) = G
       /\ SubSeq(L, Len(A) + Len(G) + 1, Len(L)) = B

LEMMA PartsOfThree ==
    ASSUME NEW S, NEW A \in Seq(S), NEW G \in Seq(S), NEW B \in Seq(S)
    PROVE  HasParts(A, G, B)
<1>1. PICK a, g, b : a = Len(A) /\ g = Len(G) /\ b = Len(B)
    OBVIOUS
<1>2. a \in Nat /\ g \in Nat /\ b \in Nat
    BY <1>1
<1>3. PICK L \in Seq(S) : L = (A \o G) \o B
  <2>1. (A \o G) \o B \in Seq(S)
      BY ConcatProperties
  <2>2. QED  BY <2>1, Zenon
<1>4. /\ Len(L) = a + g + b
      /\ \A i \in 1..a : L[i] = A[i]
      /\ \A i \in 1..g : L[a + i] = G[i]
      /\ \A i \in 1..b : L[a + g + i] = B[i]
    BY <1>1, <1>2, <1>3
<1>5. ASSUME NEW P \in Seq(S), NEW m \in Nat, m + Len(P) <= Len(L),
             \A i \in 1..Len(P) : L[m + i] = P[i]
      PROVE  SubSeq(L, m + 1, m + Len(P)) = P
  <2>1. PICK p \in Nat : p = Len(P)
      OBVIOUS
  <2>2. SubSeq(L, m + 1, m + p) \in Seq(S) /\ Len(SubSeq(L, m + 1, m + p)) = p
      BY <1>5, <2>1
  <2>3. \A i \in 1..p : SubSeq(L, m + 1, m + p)[i] = P[i]
      BY <1>5, <2>1
  <2>4. QED  BY <2>1, <2>2, <2>3, SeqEqual
<1>6. SubSeq(L, 1, a) = A
  <2>1. SubSeq(L, 0 + 1, 0 + Len(A)) = A
      BY <1>1, <1>2, <1>4, <1>5
  <2>2. QED  BY <1>1, <1>2, <2>1
<1>7. SubSeq(L, a + 1, a + g) = G
  <2>1. a \in Nat /\ a + Len(G) <= Len(L) /\ \A i \in 1..Len(G) : L[a + i] = G[i]
      BY <1>1, <1>2, <1>4
  <2>2. QED  BY <1>1, <1>5, <2>1, Zenon
<1>8. SubSeq(L, a + g + 1, Len(L)) = B
  <2>1. /\ a + g \in Nat /\ a + g + Len(B) <= Len(L) /\ a + g + Len(B) = Len(L)
        /\ \A i \in 1..Len(B) : L[a + g + i] = B[i]
      BY <1>1, <1>2, <1>4
  <2>2. SubSeq(L, a + g + 1, a + g + Len(B)) = B
      BY <1>5, <2>1, Zenon
  <2>3. QED  BY <2>1, <2>2, Zenon
<1>9. QED  BY <1>1, <1>3, <1>6, <1>7, <1>8, Zenon DEF HasParts

\* A list cut before its n-th element.
CutBefore(L, n) ==
    /\ Len(SubSeq(L, 1, n - 1)) = n - 1
    /\ SubSeq(L, 1, n - 1) \o SubSeq(L, n, Len(L)) = L

LEMMA CutInTwo ==
    ASSUME NEW S, NEW L \in Seq(S), NEW n \in 1..Len(L) + 1
    PROVE  /\ SubSeq(L, 1, n - 1) \in Seq(S) /\ SubSeq(L, n, Len(L)) \in Seq(S)
           /\ CutBefore(L, n)
<1>1. PICK N \in Nat : N = Len(L) /\ n \in 1..N + 1
    OBVIOUS
<1>2. /\ SubSeq(L, 1, n - 1) \in Seq(S) /\ Len(SubSeq(L, 1, n - 1)) = n - 1
  <2>1. \A i \in 1..n - 1 : L[i] \in S
      BY <1>1
  <2>2. QED  BY <1>1, <2>1, SubSeqProperties
<1>3. SubSeq(L, n, N) \in Seq(S)
  <2>1. \A i \in n..N : L[i] \in S
      BY <1>1
  <2>2. QED  BY <1>1, <2>1, SubSeqProperties
<1>4. SubSeq(L, 1, n - 1) \o SubSeq(L, n, N) = L
  <2>1. PICK k : k = n - 1 /\ k + 1 = n /\ k \in 1 - 1..Len(L)
      BY <1>1
  <2>2. 1 \in 1..Len(L) + 1 /\ Len(L) \in k..Len(L)
      BY <1>1, <2>1
  <2>3. SubSeq(L, 1, k) \o SubSeq(L, k + 1, Len(L)) = SubSeq(L, 1, Len(L))
      BY <2>1, <2>2, ConcatAdjacentSubSeq
  <2>4. SubSeq(L, 1, Len(L)) = L
      BY SubSeqFull
  <2>5. QED  BY <1>1, <2>1, <2>3, <2>4
<1>5. QED  BY <1>1, <1>2, <1>3, <1>4 DEF CutBefore

\* Inserting the lines of x before the n-th of t.
LinesInserted(t, n, x, new) ==
    LET k == Len(Lines(x))
    IN /\ SubSeq(Lines(new), n, n + k - 1) = Lines(x)
       /\ Joined(SubSeq(Lines(new), 1, n - 1) \o SubSeq(Lines(new), n + k, Len(Lines(new)))) = t

LEMMA InsertKeeps ==
    ASSUME NEW C, LineBreak \in C, NEW t \in Seq(C), NEW x \in Seq(C), NEW n \in 1..Len(Lines(t)) + 1
    PROVE  LinesInserted(t, n, x, InsertLine(t, n, x))
<1> PICK D : D = C \ {LineBreak}
    OBVIOUS
<1>1. Seq(Seq(D)) \subseteq Seq(Seq(C))
  <2>1. Seq(D) \subseteq Seq(C)
      BY SeqMonotonic
  <2>2. QED  BY <2>1, SeqMonotonic
<1>2. PICK L, G : L = Lines(t) /\ G = Lines(x)
    OBVIOUS
<1>3. L \in Seq(Seq(D)) \ {<<>>} /\ G \in Seq(Seq(D)) \ {<<>>}
    BY <1>2, LinesAreLines
<1>4. PICK N \in Nat : N = Len(L) /\ n \in 1..N + 1
    BY <1>2, <1>3
<1>5. PICK A \in Seq(Seq(D)), B \in Seq(Seq(D)) :
          A = SubSeq(L, 1, n - 1) /\ B = SubSeq(L, n, N)
  <2>1. L \in Seq(Seq(D)) /\ n \in 1..Len(L) + 1
      BY <1>3, <1>4
  <2>2. SubSeq(L, 1, n - 1) \in Seq(Seq(D)) /\ SubSeq(L, n, Len(L)) \in Seq(Seq(D))
      BY <2>1, CutInTwo, Zenon
  <2>3. QED  BY <1>4, <2>2, Zenon
<1>6. Len(A) = n - 1 /\ A \o B = L
  <2>1. L \in Seq(Seq(D)) /\ n \in 1..Len(L) + 1
      BY <1>3, <1>4
  <2>2. CutBefore(L, n)
      BY <2>1, CutInTwo, Zenon
  <2>3. QED  BY <1>4, <1>5, <2>2, Zenon DEF CutBefore
<1>7. PICK M \in Seq(Seq(D)) \ {<<>>} : M = (A \o G) \o B
  <2>1. (A \o G) \o B \in Seq(Seq(D)) /\ (A \o G) \o B /= <<>>
      BY <1>3, ConcatProperties, ConcatEqualIffEmpty
  <2>2. QED  BY <2>1, Zenon
<1>8. Joined((A \o G) \o B) = Joined((A \o <<x>>) \o B)
  <2>1. A \in Seq(Seq(C)) /\ B \in Seq(Seq(C)) /\ G \in Seq(Seq(C)) \ {<<>>}
      BY <1>1, <1>3
  <2>2. A \o G \in Seq(Seq(C)) \ {<<>>}
      BY <2>1, ConcatProperties, ConcatEqualIffEmpty
  <2>3. A \o <<x>> = Append(A, x) /\ A \o <<x>> \in Seq(Seq(C)) \ {<<>>}
      BY <2>1, AppendProperties, AppendIsConcat
  <2>4. Joined(A \o G) = Joined(A \o <<x>>)
      BY <1>2, <2>1, <2>3, SplitAndJoined, Zenon
  <2>5. PICK X \in Seq(Seq(C)) \ {<<>>}, Y \in Seq(Seq(C)) \ {<<>>} : X = A \o G /\ Y = A \o <<x>>
      BY <2>2, <2>3, Zenon
  <2>6. Joined(X) = Joined(Y)
      BY <2>4, <2>5, Zenon
  <2>7. Joined(X \o B) = Joined(Y \o B)
      BY <2>1, <2>6, SameJoined
  <2>8. QED  BY <2>5, <2>7, Zenon
<1>9. Lines(InsertLine(t, n, x)) = M
  <2>1. InsertLine(t, n, x) = Joined((A \o <<x>>) \o B)
      BY <1>2, <1>4, <1>5, Zenon DEF InsertLine
  <2>2. Lines(Joined(M)) = M
      BY JoinedAndSplit, Zenon
  <2>3. QED  BY <1>7, <1>8, <2>1, <2>2, Zenon
<1>10. Joined(A \o B) = t
  <2>1. <<>> \in Seq(Seq(C)) /\ <<>> \o L = L /\ Append(<<>>, t) = <<t>>
      BY <1>3
  <2>2. Joined(<<>> \o Lines(t)) = Joined(Append(<<>>, t))
      BY <2>1, SplitAndJoined, Zenon
  <2>3. Joined(<<t>>) = t
      BY JoinedOfOne
  <2>4. QED  BY <1>2, <1>6, <2>1, <2>2, <2>3, Zenon
<1>11. HasParts(A, G, B)
    BY <1>3, PartsOfThree, Zenon
<1>12. PICK k \in Nat : k = Len(G)
    BY <1>3
<1>13. SubSeq(M, n, n + k - 1) = G
  <2>1. SubSeq(M, Len(A) + 1, Len(A) + Len(G)) = G
      BY <1>7, <1>11, Zenon DEF HasParts
  <2>2. Len(A) + 1 = n /\ Len(A) + Len(G) = n + k - 1
      BY <1>4, <1>6, <1>12
  <2>3. QED  BY <2>1, <2>2, Zenon
<1>14. SubSeq(M, 1, n - 1) = A /\ SubSeq(M, n + k, Len(M)) = B
  <2>1. SubSeq(M, 1, Len(A)) = A /\ SubSeq(M, Len(A) + Len(G) + 1, Len(M)) = B
      BY <1>7, <1>11, Zenon DEF HasParts
  <2>2. Len(A) = n - 1 /\ Len(A) + Len(G) + 1 = n + k
      BY <1>4, <1>6, <1>12
  <2>3. QED  BY <2>1, <2>2, Zenon
<1>15. QED  BY <1>2, <1>9, <1>10, <1>12, <1>13, <1>14, Zenon DEF LinesInserted

\* A line deleted and inserted again.
LEMMA DeleteKeeps ==
    ASSUME NEW C, LineBreak \in C, NEW t \in Seq(C), NEW n \in 1..Len(Lines(t)), Len(Lines(t)) > 1
    PROVE  InsertLine(DeleteLine(t, n), n, Lines(t)[n]) = t
<1> PICK D : D = C \ {LineBreak}
    OBVIOUS
<1>1. Seq(D) \subseteq Seq(C)
    BY SeqMonotonic
<1>2. PICK L : L = Lines(t)
    OBVIOUS
<1>3. L \in Seq(Seq(D)) \ {<<>>}
    BY <1>2, LinesAreLines
<1>4. PICK N \in Nat : N = Len(L) /\ n \in 1..N /\ N > 1
    BY <1>2, <1>3
<1>5. PICK A \in Seq(Seq(D)), B \in Seq(Seq(D)), x \in Seq(D) :
          A = SubSeq(L, 1, n - 1) /\ B = SubSeq(L, n + 1, N) /\ x = L[n]
  <2>1. /\ SubSeq(L, 1, n - 1) \in Seq(Seq(D)) /\ SubSeq(L, n + 1, N) \in Seq(Seq(D))
        /\ L[n] \in Seq(D)
    <3>1. n - 1 \in Int /\ n + 1 \in Int /\ N \in Int
        BY <1>4
    <3>2. /\ \A i \in 1..n - 1 : L[i] \in Seq(D)
          /\ \A i \in n + 1..N : L[i] \in Seq(D)
          /\ L[n] \in Seq(D)
        BY <1>3, <1>4, ElementOfSeq
    <3>3. QED  BY <3>1, <3>2, SubSeqProperties
  <2>2. QED  BY <2>1, Zenon
<1>6. Len(A) = n - 1 /\ Len(B) = N - n
    BY <1>3, <1>4, <1>5
<1>7. (A \o <<x>>) \o B = L
  <2>1. 1 \in 1..Len(L) /\ n \in 1..Len(L) /\ L \in Seq(Seq(D))
      BY <1>3, <1>4
  <2>2. SubSeq(L, 1, n) = SubSeq(L, 1, n - 1) \o <<L[n]>>
      BY <2>1, SubSeqRecursiveSecond
  <2>3. PICK m : m = n + 1 /\ m - 1 = n /\ m \in 1..Len(L) + 1
      BY <2>1
  <2>4. CutBefore(L, m)
      BY <2>1, <2>3, CutInTwo, Zenon
  <2>5. SubSeq(L, 1, n) \o SubSeq(L, n + 1, Len(L)) = L
      BY <2>3, <2>4 DEF CutBefore
  <2>6. QED  BY <1>4, <1>5, <2>2, <2>5, Zenon
<1>8. PICK M \in Seq(Seq(D)) \ {<<>>} : M = A \o B /\ Len(M) = N - 1
  <2>1. A \o B \in Seq(Seq(D)) /\ Len(A \o B) = N - 1 /\ A \o B /= <<>>
    <3>1. A \o B \in Seq(Seq(D)) /\ Len(A \o B) = N - 1
        BY <1>4, <1>6, ConcatProperties
    <3>2. QED  BY <1>4, <3>1
  <2>2. QED  BY <2>1, Zenon
<1>9. Lines(DeleteLine(t, n)) = M
  <2>1. DeleteLine(t, n) = Joined(M)
      BY <1>2, <1>4, <1>5, <1>8, Zenon DEF DeleteLine, RemoveAt
  <2>2. Lines(Joined(M)) = M
      BY JoinedAndSplit, Zenon
  <2>3. QED  BY <2>1, <2>2, Zenon
<1>10. SubSeq(M, 1, n - 1) = A /\ SubSeq(M, n, Len(M)) = B
  <2>1. PICK none \in Seq(Seq(D)) : none = <<>>
    <3>1. <<>> \in Seq(Seq(D))
        OBVIOUS
    <3>2. QED  BY <3>1, Zenon
  <2>2. HasParts(A, none, B)
      BY PartsOfThree, Zenon
  <2>3. (A \o none) \o B = M /\ Len(none) = 0
      BY <1>8, <2>1, ConcatEmptySeq
  <2>4. SubSeq(M, 1, Len(A)) = A /\ SubSeq(M, Len(A) + Len(none) + 1, Len(M)) = B
      BY <2>2, <2>3, Zenon DEF HasParts
  <2>5. Len(A) = n - 1 /\ Len(A) + Len(none) + 1 = n
      BY <1>4, <1>6, <2>3
  <2>6. QED  BY <2>4, <2>5, Zenon
<1>11. Joined((A \o <<x>>) \o B) = t
  <2>1. <<>> \in Seq(Seq(C)) /\ <<>> \o L = L /\ Append(<<>>, t) = <<t>>
      BY <1>3
  <2>2. Joined(<<>> \o Lines(t)) = Joined(Append(<<>>, t))
      BY <2>1, SplitAndJoined, Zenon
  <2>3. Joined(<<t>>) = t
      BY JoinedOfOne
  <2>4. QED  BY <1>2, <1>7, <2>1, <2>2, <2>3, Zenon
<1>12. InsertLine(DeleteLine(t, n), n, x) = Joined((A \o <<x>>) \o B)
    BY <1>9, <1>10, Zenon DEF InsertLine
<1>13. QED  BY <1>2, <1>5, <1>11, <1>12, Zenon

\* An occurrence begins where it is looked for or later, and is not longer than the text.
LEMMA IndexIsWithin ==
    ASSUME NEW C, NEW t \in Seq(C), NEW find \in Seq(C), NEW p \in Nat, p >= 1
    PROVE  Index(t, find, p) = 0 \/ Index(t, find, p) \in p..Len(t) - Len(find) + 1
<1> PICK at : at = {i \in p..Len(t) - Len(find) + 1 : SubSeq(t, i, i + Len(find) - 1) = find}
    OBVIOUS
<1>1. CASE at = {}
    BY <1>1 DEF Index
<1>2. CASE at /= {}
  <2>1. at \in SUBSET Nat /\ at \subseteq p..Len(t) - Len(find) + 1
      OBVIOUS
  <2>2. \E i \in at : \A j \in at : i <= j
      BY <1>2, <2>1, LeastNatural
  <2>3. Index(t, find, p) = CHOOSE i \in at : \A j \in at : i <= j
      BY <1>2 DEF Index
  <2>4. Index(t, find, p) \in at
      BY <2>2, <2>3
  <2>5. QED  BY <2>1, <2>4
<1>3. QED  BY <1>1, <1>2

\* A text is searched for in one of its length.
LEMMA SearchedIsAsLong ==
    ASSUME NEW C, NEW t \in Seq(C), NEW e
    PROVE  Searched(t, e) \in Seq(C \cup {"a"}) /\ Len(Searched(t, e)) = Len(t)
<1>1. Len(t) \in Nat /\ \A i \in 1..Len(t) : t[i] \in C
    OBVIOUS
<1>2. t \in Seq(C \cup {"a"})
    OBVIOUS
<1>3. ToLower(t) \in [1..Len(t) -> C \cup {"a"}]
    BY <1>1 DEF ToLower
<1>4. ToLower(t) \in Seq(C \cup {"a"}) /\ Len(ToLower(t)) = Len(t)
    BY <1>1, <1>3, LenProperties
<1>5. QED  BY <1>2, <1>4 DEF Searched

\* What is behind an occurrence.
LEMMA BehindOccurrence ==
    ASSUME NEW N \in Nat, NEW n \in Nat, n >= 1, NEW p \in 1..N + 1, NEW i \in p..N - n + 1
    PROVE  /\ i + 1 \in 1..N + 1 /\ i + 1 > p
           /\ i + n \in 1..N + 1 /\ i + n > p
           /\ i \in 1..N + 1 /\ i \in p..N + 1
OBVIOUS

LEMMA OneChange ==
    ASSUME NEW c \in Nat, NEW d \in Int
    PROVE  (c + 1) * d = c * d + d /\ c * d \in Int
OBVIOUS

\* A part of the text written.
Writes(C, t, p, q, new) ==
    new \o SubSeq(t, p, q) \in Seq(C) /\ Len(new \o SubSeq(t, p, q)) = Len(new) + q - p + 1

LEMMA PartWritten ==
    ASSUME NEW C, NEW t \in Seq(C), NEW N, N = Len(t), NEW p \in 1..N + 1, NEW q \in p - 1..N,
           NEW new \in Seq(C)
    PROVE  Writes(C, t, p, q, new)
<1>1. N \in Nat /\ p \in Int /\ q \in Int
    OBVIOUS
<1>2. \A k \in p..q : t[k] \in C
    OBVIOUS
<1>3. SubSeq(t, p, q) \in Seq(C) /\ Len(SubSeq(t, p, q)) = q - p + 1
    BY <1>1, <1>2, SubSeqProperties
<1>4. PICK part \in Seq(C) : part = SubSeq(t, p, q)
    BY <1>3, Zenon
<1>5. new \o part \in Seq(C) /\ Len(new \o part) = Len(new) + Len(part)
    BY ConcatProperties
<1>6. Len(new) \in Nat
    OBVIOUS
<1>7. Len(new \o part) = Len(new) + q - p + 1
    BY <1>1, <1>3, <1>4, <1>5, <1>6
<1>8. QED  BY <1>4, <1>5, <1>7, Zenon DEF Writes

\* An edit that replaces, by its parameters.
Replaces(C, e) == e.find \in Seq(C) /\ e.find /= <<>> /\ e.replace \in Seq(C)
Growth(e) == Len(e.replace) - Len(e.find)

\* How far performReplace can be: what it has written is as long as what it has read and
\* the changes make it.
Scans(C, t) == [at : 1..Len(t) + 1, changes : Nat, text : Seq(C), ended : BOOLEAN]

GrownBy(t, d, s) == Len(s.text) = (IF s.ended THEN Len(t) ELSE s.at - 1) + s.changes * d

Scanned(C, t, e, s) == s \in Scans(C, t) /\ (e.whole \/ GrownBy(t, Growth(e), s))

IsNext(C, t, e, s, next) ==
    Scanned(C, t, e, next) /\ (next.ended \/ (~ s.ended /\ next.at > s.at))

LEMMA ScanIsNext ==
    ASSUME NEW C, NEW t \in Seq(C), NEW e, NEW s, ~ s.ended,
           NEW at \in 1..Len(t) + 1, NEW changes \in Nat, NEW new \in Seq(C), NEW ended \in BOOLEAN,
           e.whole \/ Len(new) = (IF ended THEN Len(t) ELSE at - 1) + changes * Growth(e),
           ended \/ at > s.at
    PROVE  IsNext(C, t, e, s, Scan(at, changes, new, ended))
<1>1. PICK w : w = Scan(at, changes, new, ended)
    OBVIOUS
<1>2. w.at = at /\ w.changes = changes /\ w.text = new /\ w.ended = ended /\ w \in Scans(C, t)
    BY <1>1 DEF Scan, Scans
<1>3. Scanned(C, t, e, w)
    BY <1>2, Zenon DEF Scanned, GrownBy
<1>4. QED  BY <1>1, <1>2, <1>3, Zenon DEF IsNext

LEMMA ReplaceNextScans ==
    ASSUME NEW C, NEW t \in Seq(C), NEW e, Replaces(C, e), NEW s, Scanned(C, t, e, s)
    PROVE  IsNext(C, t, e, s, ReplaceNext(t, e, s))
<1>1. PICK N \in Nat : N = Len(t)
    OBVIOUS
<1>2. PICK n \in Nat : n = Len(e.find) /\ n >= 1
    BY DEF Replaces
<1>3. PICK r \in Nat : r = Len(e.replace)
    BY DEF Replaces
<1>4. PICK p \in 1..N + 1, c \in Nat, new \in Seq(C), over \in BOOLEAN :
          s.at = p /\ s.changes = c /\ s.text = new /\ s.ended = over
    BY <1>1 DEF Scanned, Scans
<1>5. PICK m \in Nat : m = Len(new)
    BY <1>4
<1>6. PICK d \in Int : d = Growth(e) /\ d = r - n
  <2>1. Growth(e) = r - n
      BY <1>2, <1>3, Zenon DEF Growth
  <2>2. r - n \in Int
      OBVIOUS
  <2>3. QED  BY <2>1, <2>2, Zenon
<1>7. PICK g \in Int : g = c * d
    BY <1>4, <1>6, OneChange
<1>8. e.whole \/ m = (IF over THEN N ELSE p - 1) + g
    BY <1>1, <1>4, <1>5, <1>6, <1>7, Zenon DEF Scanned, GrownBy
<1>9. PICK i : i = Index(Searched(t, e), Searched(e.find, e), p)
    OBVIOUS
<1>10. i = 0 \/ i \in p..N - n + 1
  <2>1. p \in Nat /\ p >= 1 /\ e.find \in Seq(C)
      BY <1>1, <1>4 DEF Replaces
  <2>2. PICK u \in Seq(C \cup {"a"}) : u = Searched(t, e) /\ Len(u) = N
      BY <1>1, SearchedIsAsLong
  <2>3. PICK f \in Seq(C \cup {"a"}) : f = Searched(e.find, e) /\ Len(f) = n
      BY <1>2, <2>1, SearchedIsAsLong
  <2>4. i = 0 \/ i \in p..Len(u) - Len(f) + 1
      BY <1>9, <2>1, <2>2, <2>3, IndexIsWithin, Zenon
  <2>5. QED  BY <2>2, <2>3, <2>4, Zenon
<1>11. CASE over
  <2>1. ReplaceNext(t, e, s) = s /\ s.ended
      BY <1>4, <1>11, Zenon DEF ReplaceNext
  <2>2. QED  BY <2>1, Zenon DEF IsNext
<1>12. CASE ~ over /\ ((e.max > 0 /\ s.changes >= e.max) \/ i = 0)
  <2>1. ReplaceNext(t, e, s) = Scan(p, c, new \o SubSeq(t, p, N), TRUE)
      BY <1>1, <1>4, <1>9, <1>12, Zenon DEF ReplaceNext
  <2>2. N \in p - 1..N
      BY <1>1, <1>4
  <2>3. Writes(C, t, p, N, new)
      BY <1>1, <1>4, <2>2, PartWritten, Zenon
  <2>4. PICK txt \in Seq(C) : txt = new \o SubSeq(t, p, N) /\ Len(txt) = m + N - p + 1
      BY <1>5, <2>3, Zenon DEF Writes
  <2>5. e.whole \/ Len(txt) = N + g
    <3>1. e.whole \/ m = p - 1 + g
        BY <1>8, <1>12, Zenon
    <3>2. m = p - 1 + g => m + N - p + 1 = N + g
        BY <1>4
    <3>3. QED  BY <2>4, <3>1, <3>2, Zenon
  <2>6. PICK ended \in BOOLEAN : ended = TRUE
      OBVIOUS
  <2>7. e.whole \/ Len(txt) = (IF ended THEN Len(t) ELSE p - 1) + c * Growth(e)
      BY <1>1, <1>6, <1>7, <2>5, <2>6, Zenon
  <2>8. ReplaceNext(t, e, s) = Scan(p, c, txt, ended)
      BY <2>1, <2>4, <2>6, Zenon
  <2>9. p \in 1..Len(t) + 1 /\ ~ s.ended /\ (ended \/ p > s.at)
      BY <1>1, <1>4, <1>12, <2>6, Zenon
  <2>10. IsNext(C, t, e, s, Scan(p, c, txt, ended))
      BY <1>4, <2>4, <2>7, <2>9, ScanIsNext, Zenon
  <2>11. QED  BY <2>8, <2>10, Zenon
<1>13. CASE ~ over /\ i /= 0 /\ ~ (e.max > 0 /\ s.changes >= e.max) /\ e.whole /\ ~ IsWord(t, i, n)
  <2>1. ReplaceNext(t, e, s) = Scan(i + 1, c, new, FALSE)
      BY <1>2, <1>4, <1>9, <1>13, Zenon DEF ReplaceNext
  <2>2. i + 1 \in 1..N + 1 /\ i + 1 > p
      BY <1>2, <1>4, <1>10, <1>13, BehindOccurrence, Zenon
  <2>3. QED  BY <1>1, <1>4, <1>13, <2>1, <2>2, ScanIsNext, Zenon
<1>14. CASE ~ over /\ i /= 0 /\ ~ (e.max > 0 /\ s.changes >= e.max) /\ ~ (e.whole /\ ~ IsWord(t, i, n))
  <2>1. ReplaceNext(t, e, s) = Scan(i + n, c + 1, new \o SubSeq(t, p, i - 1) \o e.replace, FALSE)
      BY <1>2, <1>4, <1>9, <1>14, Zenon DEF ReplaceNext
  <2>2. i + n \in 1..N + 1 /\ i + n > p /\ i \in 1..N + 1 /\ i \in p..N + 1
      BY <1>2, <1>4, <1>10, <1>14, BehindOccurrence, Zenon
  <2>3. i - 1 \in p - 1..N
      BY <1>4, <2>2
  <2>4. Writes(C, t, p, i - 1, new)
      BY <1>1, <1>4, <2>3, PartWritten, Zenon
  <2>5. PICK part \in Seq(C) : part = new \o SubSeq(t, p, i - 1) /\ Len(part) = m + (i - 1) - p + 1
      BY <1>5, <2>4, Zenon DEF Writes
  <2>6. PICK txt \in Seq(C) : txt = part \o e.replace /\ Len(txt) = Len(part) + r
    <3>1. e.replace \in Seq(C)
        BY DEF Replaces
    <3>2. part \o e.replace \in Seq(C) /\ Len(part \o e.replace) = Len(part) + Len(e.replace)
        BY <3>1, ConcatProperties
    <3>3. QED  BY <1>3, <3>2, Zenon
  <2>7. (c + 1) * d = g + d /\ c + 1 \in Nat
      BY <1>4, <1>6, <1>7, OneChange
  <2>8. e.whole \/ Len(txt) = (i + n) - 1 + (c + 1) * d
    <3>1. e.whole \/ m = p - 1 + g
        BY <1>8, <1>14, Zenon
    <3>2. m = p - 1 + g => m + (i - 1) - p + 1 + r = (i + n) - 1 + (g + d)
        BY <1>4, <1>6, <2>2
    <3>3. QED  BY <2>5, <2>6, <2>7, <3>1, <3>2, Zenon
  <2>9. ReplaceNext(t, e, s) = Scan(i + n, c + 1, txt, FALSE)
      BY <2>1, <2>5, <2>6, Zenon
  <2>10. PICK ended \in BOOLEAN : ended = FALSE
      OBVIOUS
  <2>11. e.whole \/ Len(txt) = (IF ended THEN Len(t) ELSE (i + n) - 1) + (c + 1) * Growth(e)
      BY <1>6, <2>8, <2>10, Zenon
  <2>12. i + n \in 1..Len(t) + 1 /\ ~ s.ended /\ (ended \/ i + n > s.at)
      BY <1>1, <1>4, <1>14, <2>2, Zenon
  <2>13. IsNext(C, t, e, s, Scan(i + n, c + 1, txt, ended))
      BY <2>6, <2>7, <2>11, <2>12, ScanIsNext, Zenon
  <2>14. QED  BY <2>9, <2>10, <2>13, Zenon
<1>15. QED  BY <1>11, <1>12, <1>13, <1>14

\* After as many steps as the text has characters, and one, the replacement has ended.
LEMMA ReplaceEnds ==
    ASSUME NEW C, NEW t \in Seq(C), NEW e, Replaces(C, e)
    PROVE  Scanned(C, t, e, PerformReplace(t, e)) /\ PerformReplace(t, e).ended
<1>1. PICK N \in Nat : N = Len(t)
    OBVIOUS
<1>2. PICK T : T = {s \in Scans(C, t) : Scanned(C, t, e, s)}
    OBVIOUS
<1>3. PICK first : first = Scan(1, 0, <<>>, FALSE)
    OBVIOUS
<1>4. first \in T /\ first.at = 1
  <2>1. PICK new \in Seq(C) : new = <<>> /\ Len(new) = 0
    <3>1. <<>> \in Seq(C) /\ Len(<<>>) = 0
        OBVIOUS
    <3>2. QED  BY <3>1, Zenon
  <2>2. 1 \in 1..Len(t) + 1 /\ 0 \in Nat /\ FALSE \in BOOLEAN
      BY <1>1
  <2>3. /\ first.at = 1 /\ first.changes = 0 /\ first.text = new /\ first.ended = FALSE
        /\ first \in Scans(C, t)
      BY <1>3, <2>1, <2>2 DEF Scan, Scans
  <2>4. Growth(e) \in Int
      BY DEF Growth, Replaces
  <2>5. 0 * Growth(e) = 0
      BY <2>4
  <2>6. GrownBy(t, Growth(e), first)
      BY <2>1, <2>3, <2>5 DEF GrownBy
  <2>7. QED  BY <1>2, <2>3, <2>6, Zenon DEF Scanned
<1>5. ASSUME NEW s \in T
      PROVE  ReplaceNext(t, e, s) \in T /\ IsNext(C, t, e, s, ReplaceNext(t, e, s))
  <2>1. IsNext(C, t, e, s, ReplaceNext(t, e, s))
      BY <1>2, <1>5, ReplaceNextScans, Zenon
  <2>2. QED  BY <1>2, <2>1, Zenon DEF IsNext, Scanned
<1> DEFINE F(h, k) == IF k = 0 THEN first ELSE ReplaceNext(t, e, h[k - 1])
<1>6. PICK g \in [0..N + 1 -> T] :
          g[0] = first /\ \A k \in 1..N + 1 : g[k] = ReplaceNext(t, e, g[k - 1])
  <2> DEFINE G == [k \in Nat |-> [s \in T |-> ReplaceNext(t, e, s)]]
  <2>1. G \in [Nat -> [T -> T]]
      BY <1>5
  <2>2. \A k \in 1..N + 1, s \in T : G[k][s] = ReplaceNext(t, e, s)
      OBVIOUS
  <2> HIDE DEF G
  <2>3. PICK g \in [0..N + 1 -> T] : g[0] = first /\ \A k \in 1..N + 1 : g[k] = G[k][g[k - 1]]
    <3>1. N + 1 \in Nat
        OBVIOUS
    <3>2. Recursion(T, first, N + 1, G)
        BY <1>4, <2>1, <3>1, RecursionDefined
    <3>3. QED  BY <3>2 DEF Recursion
  <2>4. ASSUME NEW k \in 1..N + 1 PROVE g[k] = ReplaceNext(t, e, g[k - 1])
    <3>1. k - 1 \in 0..N + 1
        OBVIOUS
    <3>2. QED  BY <2>2, <2>3, <3>1
  <2>5. QED  BY <2>3, <2>4
<1>7. g = [k \in 0..N + 1 |-> F(g, k)]
    BY <1>6
<1> DEFINE L == CHOOSE h : h = [k \in 0..N + 1 |-> F(h, k)]
<1>8. L = [k \in 0..N + 1 |-> F(L, k)]
    BY <1>7
<1>9. PerformReplace(t, e) = L[N + 1]
    BY <1>1, <1>3, Zenon DEF PerformReplace
<1> HIDE DEF L
<1>10. L[0] = first /\ \A k \in 1..N + 1 : L[k] = ReplaceNext(t, e, L[k - 1])
    BY <1>8
<1> DEFINE Good == {k \in 0..N + 1 : L[k] \in T /\ (L[k].ended \/ L[k].at > k)}
<1>11. 0 \in Good
    BY <1>4, <1>10
<1>12. ASSUME NEW k \in 1..N + 1, k - 1 \in Good PROVE k \in Good
  <2>1. PICK s \in T : s = L[k - 1] /\ (s.ended \/ s.at > k - 1)
      BY <1>12
  <2>2. PICK next \in T : next = L[k] /\ IsNext(C, t, e, s, next)
      BY <1>5, <1>10, <2>1, Zenon
  <2>3. s.at \in Nat /\ next.at \in Nat
      BY <1>1, <1>2 DEF Scans
  <2>4. next.ended \/ next.at > k
      BY <2>1, <2>2, <2>3 DEF IsNext
  <2>5. QED  BY <2>2, <2>4
<1> HIDE DEF Good
<1>13. N + 1 \in Good
  <2>1. N + 1 \in Nat /\ N + 1 \in 0..N + 1
      OBVIOUS
  <2>2. 0..N + 1 \subseteq Good
      BY <1>11, <1>12, <2>1, InductionUpTo
  <2>3. QED  BY <2>1, <2>2
<1>14. PICK last \in T : last = L[N + 1] /\ (last.ended \/ last.at > N + 1)
    BY <1>13 DEF Good
<1>15. last.ended
  <2>1. last.at \in 1..N + 1
      BY <1>1, <1>2, <1>14 DEF Scans
  <2>2. QED  BY <1>14, <2>1
<1>16. QED  BY <1>2, <1>9, <1>14, <1>15, Zenon

-----------------------------------------------------------------------------
\* The parameters of the edits.
LEMMA EditParameters ==
    ASSUME NEW e \in Edits
    PROVE  /\ e.find \in Seq(Characters) /\ e.replace \in Seq(Characters)
           /\ e.text \in Seq(Characters) /\ e.line \in Nat /\ e.whole \in BOOLEAN
           /\ e.operation = "replace" => Replaces(Characters, e)
           /\ e.operation \in {"insert_line", "delete_line"} => e.line >= 1
           /\ e.operation \in {"replace", "insert_line", "delete_line", "prepend", "append"}
<1>1. e \in EditRecord
    BY TextsAssumption, Zenon
<1>2. QED  BY <1>1 DEF EditRecord, Replaces

LEMMA BreakIsCharacter == LineBreak \in Characters
    BY Zenon DEF Characters

LEMMA InsertedIsText ==
    ASSUME NEW C, LineBreak \in C, NEW t \in Seq(C), NEW x \in Seq(C), NEW n \in 1..Len(Lines(t)) + 1
    PROVE  InsertLine(t, n, x) \in Seq(C)
<1>1. PICK L \in Seq(Seq(C)) : L = Lines(t)
  <2>1. Lines(t) \in Seq(Seq(C))
      BY LinesAreTexts
  <2>2. QED  BY <2>1, Zenon
<1>2. SubSeq(L, 1, n - 1) \in Seq(Seq(C)) /\ SubSeq(L, n, Len(L)) \in Seq(Seq(C))
    BY <1>1, CutInTwo, Zenon
<1>3. <<x>> \in Seq(Seq(C))
    OBVIOUS
<1>4. SubSeq(L, 1, n - 1) \o <<x>> \in Seq(Seq(C))
    BY <1>2, <1>3, ConcatProperties
<1>5. SubSeq(L, 1, n - 1) \o <<x>> \o SubSeq(L, n, Len(L)) \in Seq(Seq(C))
    BY <1>2, <1>4, ConcatProperties
<1>6. QED  BY <1>1, <1>5, JoinedIsText, Zenon DEF InsertLine

LEMMA DeletedIsText ==
    ASSUME NEW C, LineBreak \in C, NEW t \in Seq(C), NEW n \in 1..Len(Lines(t))
    PROVE  DeleteLine(t, n) \in Seq(C)
<1>1. PICK L \in Seq(Seq(C)) : L = Lines(t)
  <2>1. Lines(t) \in Seq(Seq(C))
      BY LinesAreTexts
  <2>2. QED  BY <2>1, Zenon
<1>2. PICK m : m = n + 1 /\ m \in 1..Len(L) + 1 /\ n \in 1..Len(L) + 1
    BY <1>1
<1>3. SubSeq(L, 1, n - 1) \in Seq(Seq(C)) /\ SubSeq(L, n + 1, Len(L)) \in Seq(Seq(C))
    BY <1>2, CutInTwo, Zenon
<1>4. SubSeq(L, 1, n - 1) \o SubSeq(L, n + 1, Len(L)) \in Seq(Seq(C))
    BY <1>3, ConcatProperties
<1>5. QED  BY <1>1, <1>4, JoinedIsText, Zenon DEF DeleteLine, RemoveAt

\* An edit gives a text, and keeps what it does not name.
EditsInto(t, e, result) ==
    result.text \in Seq(Characters) /\ KeepsTheRest(e, t, result.text, result.changes)

LEMMA ReplaceKeeps ==
    ASSUME NEW t \in Seq(Characters), NEW e \in Edits, e.operation = "replace"
    PROVE  EditsInto(t, e, ApplyEdit(t, e))
<1>1. PICK s : s = PerformReplace(t, e)
    OBVIOUS
<1>2. Scanned(Characters, t, e, s) /\ s.ended
    BY <1>1, EditParameters, ReplaceEnds, Zenon
<1>3. s.text \in Seq(Characters)
    BY <1>2 DEF Scanned, Scans
<1>4. e.whole \/ Len(s.text) = Len(t) + s.changes * (Len(e.replace) - Len(e.find))
    BY <1>2, Zenon DEF Scanned, GrownBy, Growth
<1>5. ApplyEdit(t, e) = s
    BY <1>1, Zenon DEF ApplyEdit
<1>6. KeepsTheRest(e, t, s.text, s.changes)
    BY <1>4 DEF KeepsTheRest
<1>7. QED  BY <1>3, <1>5, <1>6, Zenon DEF EditsInto

LEMMA OtherEditsKeep ==
    ASSUME NEW t \in Seq(Characters), NEW e \in Edits, Applies(t, e), e.operation /= "replace"
    PROVE  EditsInto(t, e, ApplyEdit(t, e))
<1>1. PICK new : ApplyEdit(t, e) = [text |-> new, changes |-> 1] /\
          new = CASE e.operation = "insert_line" -> InsertLine(t, e.line, e.text)
                  [] e.operation = "delete_line" -> DeleteLine(t, e.line)
                  [] e.operation = "prepend"     -> e.text \o <<LineBreak>> \o t
                  [] e.operation = "append"      ->
                       t \o (IF t = <<>> \/ Last(t) = LineBreak THEN <<>> ELSE <<LineBreak>>)
                         \o e.text \o <<LineBreak>>
    BY EditParameters DEF ApplyEdit
<1>2. PICK result : result = ApplyEdit(t, e) /\ result.text = new /\ result.changes = 1
  <2>1. PICK result : result = [text |-> new, changes |-> 1]
      OBVIOUS
  <2>2. result.text = new /\ result.changes = 1
      BY <2>1
  <2>3. QED  BY <1>1, <2>1, <2>2, Zenon
<1>3. Lines(t) \in Seq(Seq(Characters)) \ {<<>>}
    BY LinesAreTexts
<1>4. CASE e.operation = "insert_line"
  <2>1. PICK n : n = e.line /\ n \in 1..Len(Lines(t)) + 1
      BY <1>3, <1>4, EditParameters DEF Applies
  <2>2. new = InsertLine(t, n, e.text)
      BY <1>1, <1>4, <2>1
  <2>3. LinesInserted(t, n, e.text, new)
      BY <2>1, <2>2, BreakIsCharacter, EditParameters, InsertKeeps, Zenon
  <2>4. new \in Seq(Characters)
      BY <2>1, <2>2, BreakIsCharacter, EditParameters, InsertedIsText, Zenon
  <2>5. KeepsTheRest(e, t, new, 1)
      BY <1>4, <2>1, <2>3 DEF LinesInserted, KeepsTheRest
  <2>6. QED  BY <1>2, <2>4, <2>5, Zenon DEF EditsInto
<1>5. CASE e.operation = "delete_line"
  <2>1. PICK n : n = e.line /\ n \in 1..Len(Lines(t))
      BY <1>3, <1>5, EditParameters DEF Applies
  <2>2. new = DeleteLine(t, n)
      BY <1>1, <1>5, <2>1
  <2>3. Len(Lines(t)) > 1 => InsertLine(new, n, Lines(t)[n]) = t
      BY <2>1, <2>2, BreakIsCharacter, DeleteKeeps, Zenon
  <2>4. new \in Seq(Characters)
      BY <2>1, <2>2, BreakIsCharacter, DeletedIsText, Zenon
  <2>5. KeepsTheRest(e, t, new, 1)
      BY <1>5, <2>1, <2>3 DEF KeepsTheRest
  <2>6. QED  BY <1>2, <2>4, <2>5, Zenon DEF EditsInto
<1>6. CASE e.operation \in {"prepend", "append"}
  <2>1. new \in Seq(Characters)
    <3>1. e.text \in Seq(Characters) /\ <<LineBreak>> \in Seq(Characters) /\ <<>> \in Seq(Characters)
        BY BreakIsCharacter, EditParameters
    <3>2. PICK end \in Seq(Characters) :
              end = IF t = <<>> \/ Last(t) = LineBreak THEN <<>> ELSE <<LineBreak>>
        BY <3>1, Zenon
    <3>3. CASE e.operation = "prepend"
      <4>1. new = e.text \o <<LineBreak>> \o t
          BY <1>1, <3>3
      <4>2. QED  BY <3>1, <4>1, ConcatProperties
    <3>4. CASE e.operation = "append"
      <4>1. new = t \o end \o e.text \o <<LineBreak>>
          BY <1>1, <3>2, <3>4
      <4>2. QED  BY <3>1, <4>1, ConcatProperties
    <3>5. QED  BY <1>6, <3>3, <3>4
  <2>2. KeepsTheRest(e, t, new, 1)
      BY <1>6 DEF KeepsTheRest
  <2>3. QED  BY <1>2, <2>1, <2>2, Zenon DEF EditsInto
<1>7. QED  BY <1>4, <1>5, <1>6, EditParameters

LEMMA PrefixIsText ==
    ASSUME NEW C, NEW s \in Seq(C), NEW t \in Seq(C)
    PROVE  SubSeq(s, 1, Min({Len(t) + 1, Len(s)})) \in Seq(C)
<1>1. PICK m \in Nat, n \in Nat : m = Len(t) + 1 /\ n = Len(s)
    OBVIOUS
<1>2. PICK k \in Nat : k = Min({m, n}) /\ k <= n
  <2>1. \E x \in {m, n} : \A y \in {m, n} : x <= y
      BY <1>1
  <2>2. PICK x \in {m, n} : x = Min({m, n}) /\ x <= n
      BY <2>1 DEF Min
  <2>3. x \in Nat
      OBVIOUS
  <2>4. QED  BY <2>2, <2>3
<1>3. 1 \in Int /\ k \in Int /\ \A i \in 1..k : s[i] \in C
  <2>1. \A i \in 1..k : i \in 1..Len(s)
      BY <1>1, <1>2
  <2>2. QED  BY <2>1, ElementOfSeq
<1>4. SubSeq(s, 1, k) \in Seq(C)
    BY <1>3, SubSeqProperties, Zenon
<1>5. QED  BY <1>1, <1>2, <1>4, Zenon

\* The texts: what a call writes is one, and so is what it writes to.
EditTypes ==
    /\ text \in Seq(Characters) \cup {NoFile}
    /\ \A s \in 1..MaxSecond : bak[s] \in Seq(Characters) \cup {NoFile}
    /\ call.pc /= "idle" => call.new \in Seq(Characters)
    /\ call.pc = "write" => text \in Seq(Characters)
    /\ call.pc = "restore" => call.stamp > 0

EditInv == TextIsSomewhere /\ NothingIsLost /\ EditTypes /\ EditsKeepTheRest

\* The steps of a call in progress leave what it writes as it is.
LEMMA CallGoesOn ==
    ASSUME TextIsSomewhere, EditTypes, EditsKeepTheRest, NEW next, NEW stamp, NEW outcome,
           call' = [call EXCEPT !.pc = next, !.stamp = stamp, !.outcome = outcome],
           call.pc /= "idle",
           text' \in Seq(Characters) \cup {NoFile},
           \A s \in 1..MaxSecond : bak'[s] \in Seq(Characters) \cup {NoFile},
           next = "write" => text' \in Seq(Characters),
           next = "restore" => stamp > 0
    PROVE  EditTypes' /\ EditsKeepTheRest'
<1>1. /\ call'.pc = next /\ call'.stamp = stamp /\ call'.new = call.new /\ call'.before = call.before
      /\ call'.edit = call.edit /\ call'.changes = call.changes /\ call'.operation = call.operation
    BY DEF TextIsSomewhere, Idle
<1>2. EditTypes'
    BY <1>1 DEF EditTypes
<1>3. EditsKeepTheRest'
    BY <1>1, Zenon DEF EditsKeepTheRest
<1>4. QED  BY <1>2, <1>3

LEMMA EditStep == EditInv /\ [Next]_vars => EditTypes' /\ EditsKeepTheRest'
<1> SUFFICES ASSUME EditInv, [Next]_vars PROVE EditTypes' /\ EditsKeepTheRest'
    OBVIOUS
<1>1. TextIsSomewhere /\ EditTypes /\ EditsKeepTheRest
    BY DEF EditInv
<1>2. CASE UNCHANGED fileVars
  <2>1. UNCHANGED <<text, bak, call>>
      BY <1>2 DEF fileVars
  <2>2. QED  BY <1>1, <2>1 DEF EditTypes, EditsKeepTheRest
<1>3. CASE WriteFile
  <2>1. PICK new \in Texts, createBackup \in BOOLEAN, append \in BOOLEAN :
            /\ call' = [Idle EXCEPT
                 !.number = call.number + 1,
                 !.pc = IF createBackup /\ text /= NoFile /\ ~ append THEN "backup" ELSE "open",
                 !.operation = IF append THEN "append" ELSE "write",
                 !.before = text,
                 !.new = IF append /\ text /= NoFile THEN text \o new ELSE new]
            /\ UNCHANGED <<text, bak, second>>
      BY <1>3, Zenon DEF WriteFile
  <2> DEFINE pc == IF createBackup /\ text /= NoFile /\ ~ append THEN "backup" ELSE "open"
             after == IF append /\ text /= NoFile THEN text \o new ELSE new
             operation == IF append THEN "append" ELSE "write"
             number == call.number + 1
  <2>2. pc \in {"backup", "open"} /\ operation \in {"append", "write"}
      BY Zenon
  <2>3. after \in Seq(Characters)
    <3>1. new \in Seq(Characters)
        BY TextsAssumption, Zenon
    <3>2. text /= NoFile => text \in Seq(Characters)
        BY <1>1 DEF EditTypes
    <3>3. text /= NoFile => text \o new \in Seq(Characters)
        BY <3>1, <3>2, ConcatProperties
    <3>4. QED  BY <3>1, <3>3, Zenon
  <2>4. call' = [Idle EXCEPT !.number = number, !.pc = pc, !.operation = operation,
                             !.before = text, !.new = after]
      BY <2>1, Zenon
  <2> HIDE DEF pc, after, operation, number
  <2>5. call'.pc = pc /\ call'.new = after /\ call'.operation = operation
      BY <2>4 DEF Idle
  <2>6. EditTypes'
      BY <1>1, <2>1, <2>2, <2>3, <2>5 DEF EditTypes
  <2>7. EditsKeepTheRest'
      BY <2>2, <2>5 DEF EditsKeepTheRest
  <2>8. QED  BY <2>6, <2>7
<1>4. CASE EditFile
  <2>1. PICK e \in Edits, createBackup \in BOOLEAN :
            /\ text /= NoFile /\ Applies(text, e)
            /\ call' = [Idle EXCEPT !.number = call.number + 1,
                                    !.pc = IF createBackup THEN "backup" ELSE "open",
                                    !.operation = "edit", !.before = text, !.edit = e,
                                    !.new = ApplyEdit(text, e).text,
                                    !.changes = ApplyEdit(text, e).changes]
            /\ UNCHANGED <<text, bak, second>>
      BY <1>4, Zenon DEF EditFile
  <2> DEFINE pc == IF createBackup THEN "backup" ELSE "open"
             number == call.number + 1
  <2>2. pc \in {"backup", "open"}
      BY Zenon
  <2>3. text \in Seq(Characters)
      BY <1>1, <2>1 DEF EditTypes
  <2>4. PICK result : result = ApplyEdit(text, e) /\ EditsInto(text, e, result)
      BY <2>1, <2>3, ReplaceKeeps, OtherEditsKeep, Zenon
  <2>5. PICK after, changes : after = result.text /\ changes = result.changes
      OBVIOUS
  <2>6. call' = [Idle EXCEPT !.number = number, !.pc = pc, !.operation = "edit",
                             !.before = text, !.edit = e, !.new = after, !.changes = changes]
      BY <2>1, <2>4, <2>5, Zenon
  <2> HIDE DEF pc, number
  <2>7. /\ call'.pc = pc /\ call'.operation = "edit" /\ call'.before = text /\ call'.edit = e
        /\ call'.new = after /\ call'.changes = changes
      BY <2>6 DEF Idle
  <2>8. after \in Seq(Characters) /\ KeepsTheRest(e, text, after, changes)
      BY <2>4, <2>5, Zenon DEF EditsInto
  <2>9. EditTypes'
      BY <1>1, <2>1, <2>2, <2>7, <2>8 DEF EditTypes
  <2>10. EditsKeepTheRest'
      BY <2>7, <2>8, Zenon DEF EditsKeepTheRest
  <2>11. QED  BY <2>9, <2>10
<1>5. /\ second \in 1..MaxSecond /\ DOMAIN bak = 1..MaxSecond /\ call.stamp \in 0..MaxSecond
      /\ MaxSecond \in Nat
    BY <1>1, SecondsAreCounted DEF TextIsSomewhere
<1>6. /\ text \in Seq(Characters) \cup {NoFile}
      /\ \A s \in 1..MaxSecond : bak[s] \in Seq(Characters) \cup {NoFile}
      /\ <<>> \in Seq(Characters)
    BY <1>1 DEF EditTypes
<1>7. ASSUME NEW next, NEW stamp, NEW outcome,
             call' = [call EXCEPT !.pc = next, !.stamp = stamp, !.outcome = outcome],
             call.pc /= "idle", UNCHANGED bak, text' \in Seq(Characters) \cup {NoFile},
             next = "write" => text' \in Seq(Characters),
             next = "restore" => stamp > 0
      PROVE  EditTypes' /\ EditsKeepTheRest'
    BY <1>1, <1>6, <1>7, CallGoesOn
<1>8. \A next, outcome :
        [call EXCEPT !.pc = next, !.outcome = outcome]
            = [call EXCEPT !.pc = next, !.stamp = call.stamp, !.outcome = outcome]
    BY <1>1 DEF TextIsSomewhere, Idle
<1>9. \A next, stamp :
        [call EXCEPT !.pc = next, !.stamp = stamp]
            = [call EXCEPT !.pc = next, !.stamp = stamp, !.outcome = call.outcome]
    BY <1>1 DEF TextIsSomewhere, Idle
<1>10. \A next :
        [call EXCEPT !.pc = next]
            = [call EXCEPT !.pc = next, !.stamp = call.stamp, !.outcome = call.outcome]
    BY <1>1 DEF TextIsSomewhere, Idle
<1>11. RestoreOrReturn =>
        \E next, outcome :
            /\ call' = [call EXCEPT !.pc = next, !.stamp = call.stamp, !.outcome = outcome]
            /\ next /= "write" /\ (next = "restore" => call.stamp > 0)
  <2>1. CASE call.stamp > 0
    <3>1. RestoreOrReturn => call' = [call EXCEPT !.pc = "restore"]
        BY <2>1, Zenon DEF RestoreOrReturn
    <3>2. RestoreOrReturn =>
              call' = [call EXCEPT !.pc = "restore", !.stamp = call.stamp, !.outcome = call.outcome]
        BY <1>10, <3>1, Zenon
    <3>3. "restore" /= "write"
        OBVIOUS
    <3>4. QED  BY <2>1, <3>2, <3>3, Zenon
  <2>2. CASE ~ (call.stamp > 0)
    <3>1. RestoreOrReturn => call' = [call EXCEPT !.pc = "idle", !.outcome = "failed"]
        BY <2>2, Zenon DEF RestoreOrReturn, Return
    <3>2. RestoreOrReturn =>
              call' = [call EXCEPT !.pc = "idle", !.stamp = call.stamp, !.outcome = "failed"]
        BY <1>8, <3>1, Zenon
    <3>3. "idle" /= "write" /\ "idle" /= "restore"
        OBVIOUS
    <3>4. QED  BY <3>2, <3>3, Zenon
  <2>3. QED  BY <2>1, <2>2
<1>12. CASE CopyToBackup
  <2>1. call' = [call EXCEPT !.pc = "open", !.stamp = second, !.outcome = call.outcome]
      BY <1>9, <1>12 DEF CopyToBackup
  <2>2. call.pc /= "idle" /\ text' = text
      BY <1>12 DEF CopyToBackup
  <2>3. \A s \in 1..MaxSecond : bak'[s] \in Seq(Characters) \cup {NoFile}
      BY <1>5, <1>6, <1>12 DEF CopyToBackup
  <2>4. "open" /= "write" /\ "open" /= "restore"
      OBVIOUS
  <2>5. QED  BY <1>1, <1>6, <2>1, <2>2, <2>3, <2>4, CallGoesOn, Zenon
<1>13. CASE BackupFails
  <2>1. call' = [call EXCEPT !.pc = "idle", !.stamp = call.stamp, !.outcome = "failed"]
      BY <1>8, <1>13 DEF BackupFails, Return
  <2>2. call.pc /= "idle" /\ text' = text
      BY <1>13 DEF BackupFails
  <2>3. \A s \in 1..MaxSecond : bak'[s] \in Seq(Characters) \cup {NoFile}
      BY <1>5, <1>6, <1>13 DEF BackupFails
  <2>4. "idle" /= "write" /\ "idle" /= "restore"
      OBVIOUS
  <2>5. QED  BY <1>1, <1>6, <2>1, <2>2, <2>3, <2>4, CallGoesOn, Zenon
<1>14. CASE OpenFile
  <2>1. call' = [call EXCEPT !.pc = "write", !.stamp = call.stamp, !.outcome = call.outcome]
      BY <1>10, <1>14 DEF OpenFile
  <2>2. call.pc /= "idle" /\ bak' = bak /\ text' \in Seq(Characters)
      BY <1>6, <1>14 DEF OpenFile
  <2>3. "write" /= "restore"
      OBVIOUS
  <2>4. QED  BY <1>7, <2>1, <2>2, <2>3, Zenon
<1>15. CASE OpenFails
  <2>1. call.pc /= "idle" /\ bak' = bak /\ text' = text /\ RestoreOrReturn
      BY <1>15 DEF OpenFails
  <2>2. PICK next, outcome :
            /\ call' = [call EXCEPT !.pc = next, !.stamp = call.stamp, !.outcome = outcome]
            /\ next /= "write" /\ (next = "restore" => call.stamp > 0)
      BY <1>11, <2>1, Zenon
  <2>3. text' \in Seq(Characters) \cup {NoFile}
      BY <1>6, <2>1, Zenon
  <2>4. QED  BY <1>7, <2>1, <2>2, <2>3, Zenon
<1>16. CASE WriteContent
  <2>1. \E next \in {"idle", "sync"} : \E outcome :
            call' = [call EXCEPT !.pc = next, !.stamp = call.stamp, !.outcome = outcome]
      BY <1>8, <1>10, <1>16 DEF WriteContent, Return
  <2>2. call.pc /= "idle" /\ bak' = bak /\ text' \in Seq(Characters)
      BY <1>1, <1>16 DEF WriteContent, EditTypes
  <2>3. QED  BY <1>7, <2>1, <2>2
<1>17. CASE WriteFails
  <2>1. /\ call.pc = "write" /\ bak' = bak /\ RestoreOrReturn
        /\ text' \in {text, SubSeq(call.new, 1, Min({Len(text) + 1, Len(call.new)}))}
      BY <1>17, Zenon DEF WriteFails
  <2>2. call.new \in Seq(Characters) /\ text \in Seq(Characters)
      BY <1>1, <2>1 DEF EditTypes
  <2>3. text' \in Seq(Characters)
      BY <2>1, <2>2, PrefixIsText, Zenon
  <2>4. QED  BY <1>7, <1>11, <2>1, <2>3
<1>18. CASE Restore \/ RestoreFails
  <2>1. \E outcome : call' = [call EXCEPT !.pc = "idle", !.stamp = call.stamp, !.outcome = outcome]
      BY <1>8, <1>18 DEF Restore, RestoreFails, Return
  <2>2. /\ call.pc /= "idle" /\ bak' = bak
        /\ text' \in Seq(Characters) \cup {NoFile}
    <3>1. CASE Restore
      <4>1. call.pc = "restore" /\ bak' = bak /\ text' = bak[call.stamp]
          BY <3>1 DEF Restore
      <4>2. call.stamp \in 1..MaxSecond
          BY <1>1, <1>5, <4>1 DEF EditTypes
      <4>3. QED  BY <1>6, <4>1, <4>2
    <3>2. CASE RestoreFails
        BY <1>6, <3>2 DEF RestoreFails
    <3>3. QED  BY <1>18, <3>1, <3>2
  <2>3. "idle" /= "write" /\ "idle" /= "restore"
      OBVIOUS
  <2>4. QED  BY <1>7, <2>1, <2>2, <2>3, Zenon
<1>19. CASE Sync \/ SyncFails \/ Crash
  <2>1. \E outcome : call' = [call EXCEPT !.pc = "idle", !.stamp = call.stamp, !.outcome = outcome]
      BY <1>8, <1>19 DEF Sync, SyncFails, Crash, Return
  <2>2. call.pc /= "idle" /\ bak' = bak /\ text' = text
      BY <1>19 DEF Sync, SyncFails, Crash
  <2>3. "idle" /= "write" /\ "idle" /= "restore"
      OBVIOUS
  <2>4. QED  BY <1>6, <1>7, <2>1, <2>2, <2>3, Zenon
<1>20. CASE FileTick
  <2>1. UNCHANGED <<text, bak, call>>
      BY <1>20 DEF FileTick
  <2>2. QED  BY <1>1, <2>1 DEF EditTypes, EditsKeepTheRest
<1>21. QED
    BY <1>2, <1>3, <1>4, <1>12, <1>13, <1>14, <1>15, <1>16, <1>17, <1>18, <1>19, <1>20, StepOfATool
    DEF FileNext

(* Neither a failure nor an edit loses text: the file or the backup has what was there      *)
(* before the call, and a replacement, an inserted or a deleted line changes what it names  *)
(* and nothing else, whatever the texts and the edits are (file_ops.go).                    *)
THEOREM EditsAndFailuresKeepText == Spec => []TextIsKept
<1>1. Init => EditInv
  <2> SUFFICES ASSUME Init PROVE EditInv
      OBVIOUS
  <2>1. FileInit
      BY Zenon DEF Init
  <2>2. /\ bak = [s \in 1..MaxSecond |-> NoFile] /\ second = 1 /\ call = Idle
        /\ text \in Texts \cup {NoFile}
      BY <2>1 DEF FileInit
  <2>3. MaxSecond \in Nat /\ 1 \in 1..MaxSecond /\ 0 \in 0..MaxSecond
      BY SecondsAreCounted
  <2>4. TextIsSomewhere /\ NothingIsLost
      BY <2>2, <2>3 DEF Idle, TextIsSomewhere, NothingIsLost
  <2>5. call.pc = "idle" /\ call.operation = "none"
      BY <2>2 DEF Idle
  <2>6. text \in Seq(Characters) \cup {NoFile}
      BY <2>2, TextsAssumption, Zenon
  <2>7. EditTypes /\ EditsKeepTheRest
      BY <2>2, <2>5, <2>6 DEF EditTypes, EditsKeepTheRest
  <2>8. QED  BY <2>4, <2>7 DEF EditInv
<1>2. EditInv /\ [Next]_vars => EditInv'
    BY FileStep, EditStep DEF EditInv
<1>3. EditInv => TextIsKept
    BY DEF EditInv, TextIsKept
<1>4. QED  BY <1>1, <1>2, <1>3, PTL DEF Spec
=============================================================================
