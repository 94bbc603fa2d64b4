------------------------------ MODULE FileWatch ------------------------------
(***************************************************************************)
(* The file watcher and its tool (internal/tools/file_watch.go) over a      *)
(* directory whose subdirectories come and go.  The kernel reports changes  *)
(* in the directories it watches; the watcher's loop turns them into        *)
(* events and watches the new directories.                                  *)
(***************************************************************************)
EXTENDS Integers, Sequences, FiniteSets

CONSTANTS Root,         \* the directory watched
          Dirs,         \* subdirectories that come and go
          KernelQueue,  \* changes the kernel keeps until they are read
          EventBuffer,  \* capacity of the event channel
          MaxMoves,     \* bound: directories made and removed
          MaxWanted,    \* bound: max_events of a getEvents call
          MaxGets       \* bound: getEvents calls

ASSUME WatchAssumption ==
    /\ Root \notin Dirs /\ {KernelQueue, EventBuffer} \subseteq Nat \ {0}
    /\ {MaxMoves, MaxWanted, MaxGets} \subseteq Nat

VARIABLES tree,     \* subdirectories that exist
          moves,    \* how often one came or went
          kernel,   \* directories with a watch of the kernel
          queue,    \* its changes that nobody has read
          missed,   \* directories whose last watch could not be added, or whose making was
                    \* lost; kept for the property
          opts,     \* options of the watch
          watches,  \* fw.watches
          walk,     \* what AddWatch has still to visit
          state,    \* of the watcher
          loop,     \* the change in hand of watchLoop
          buffer,   \* eventBuffer
          getter    \* the getEvents call

watchVars == <<tree, moves, kernel, queue, missed, opts, watches, walk, state, loop, buffer, getter>>

NoChange == [pc |-> "select"]
NoGetter == [pc |-> "idle", left |-> 0, timer |-> FALSE, calls |-> 0]

WatchInit ==
    /\ tree \in SUBSET Dirs
    /\ moves = 0
    /\ kernel = {} /\ queue = <<>> /\ missed = {}
    /\ opts \in [recursive : BOOLEAN, filtered : BOOLEAN]
    /\ watches = {} /\ walk = {}
    /\ state = "new"
    /\ loop = NoChange
    /\ buffer = <<>>
    /\ getter = NoGetter

\* A change that the kernel's queue has no room for is lost, and a mark says so.
Overflow == [op |-> "overflow", dir |-> Root]
HasRoom == Len(queue) < KernelQueue
Told(op, d) ==
    IF Root \notin kernel \/ Len(queue) > KernelQueue THEN queue
    ELSE Append(queue, IF HasRoom THEN [op |-> op, dir |-> d] ELSE Overflow)

(***************************************************************************)
(* The directory: a watch of the kernel ends with what it watches.         *)
(***************************************************************************)
MakeDir ==
    \E d \in Dirs \ tree :
        /\ moves < MaxMoves
        /\ moves' = moves + 1
        /\ tree' = tree \cup {d}
        /\ queue' = Told("create", d)
        /\ missed' = IF HasRoom THEN missed \ {d} ELSE missed \cup {d}
        /\ UNCHANGED <<kernel, opts, watches, walk, state, loop, buffer, getter>>

RemoveDir ==
    \E d \in tree :
        /\ moves < MaxMoves
        /\ moves' = moves + 1
        /\ tree' = tree \ {d}
        /\ kernel' = kernel \ {d}
        /\ queue' = Told("remove", d)
        /\ UNCHANGED <<missed, opts, watches, walk, state, loop, buffer, getter>>

(***************************************************************************)
(* startWatch: a new watcher, AddWatch, Start.                             *)
(***************************************************************************)
\* The root is watched before its subdirectories are listed.
AddWatch ==
    /\ state = "new"
    /\ state' = IF opts.recursive THEN "adding" ELSE "added"
    /\ kernel' = {Root} /\ watches' = {Root}
    /\ UNCHANGED <<tree, moves, queue, missed, opts, walk, loop, buffer, getter>>

ListSubdirectories ==
    /\ state = "adding"
    /\ walk' = tree
    /\ state' = "walking"
    /\ UNCHANGED <<tree, moves, kernel, queue, missed, opts, watches, loop, buffer, getter>>

\* watcher.Add of a directory may fail, at the kernel's limit of watches say, and
\* then its error is dropped.
Add(added) ==
    \/ /\ kernel' = kernel \cup added /\ watches' = watches \cup added
       /\ missed' = missed \ added
    \/ added /= {} /\ missed' = missed \cup added /\ UNCHANGED <<kernel, watches>>

\* A directory that has gone is skipped.
AddRecursiveWatch ==
    \E d \in walk :
        /\ state = "walking"
        /\ walk' = walk \ {d}
        /\ Add({d} \cap tree)
        /\ UNCHANGED <<tree, moves, queue, opts, state, loop, buffer, getter>>

Start ==
    /\ state = "added" \/ (state = "walking" /\ walk = {})
    /\ state' = "running"
    /\ UNCHANGED <<tree, moves, kernel, queue, missed, opts, watches, walk, loop, buffer, getter>>

\* stopWatch
StopWatch ==
    /\ state = "running"
    /\ state' = "stopped"
    /\ kernel' = {}
    /\ UNCHANGED <<tree, moves, queue, missed, opts, watches, walk, loop, buffer, getter>>

\* RemoveWatch of the root, and of what lies below it.
RemoveWatch ==
    /\ state = "running" /\ Root \in watches
    /\ kernel' = kernel \ (IF opts.recursive THEN watches ELSE {Root})
    /\ watches' = watches \ (IF opts.recursive THEN watches ELSE {Root})
    /\ UNCHANGED <<tree, moves, queue, missed, opts, walk, state, loop, buffer, getter>>

(***************************************************************************)
(* watchLoop.                                                              *)
(***************************************************************************)
\* The next change is read, and what it names is looked at.
ReadChange ==
    /\ state = "running" /\ loop.pc = "select" /\ queue /= <<>> /\ Head(queue) /= Overflow
    /\ loop' = [pc |-> "send", op |-> Head(queue).op, dir |-> Head(queue).dir,
                isDir |-> Head(queue).dir \in tree]
    /\ queue' = Tail(queue)
    /\ UNCHANGED <<tree, moves, kernel, missed, opts, watches, walk, state, buffer, getter>>

\* The mark of a lost change is passed on as an error, and that is all.
HandleError ==
    /\ state = "running" /\ loop.pc = "select" /\ queue /= <<>> /\ Head(queue) = Overflow
    /\ queue' = Tail(queue)
    /\ buffer' = IF Len(buffer) < EventBuffer
                 THEN Append(buffer, [op |-> "error", dir |-> Root]) ELSE buffer
    /\ UNCHANGED <<tree, moves, kernel, missed, opts, watches, walk, state, loop, getter>>

\* A directory has no extension a filter could name.
ShouldSendEvent(d) == watches \cap {d, Root} /= {} /\ ~ opts.filtered

\* A full buffer drops the event.
SendEvent ==
    /\ loop.pc = "send"
    /\ buffer' = IF ShouldSendEvent(loop.dir) /\ Len(buffer) < EventBuffer
                 THEN Append(buffer, [op |-> loop.op, dir |-> loop.dir]) ELSE buffer
    /\ loop' = IF loop.op = "create" /\ loop.isDir THEN [loop EXCEPT !.pc = "add"] ELSE NoChange
    /\ UNCHANGED <<tree, moves, kernel, queue, missed, opts, watches, walk, state, getter>>

\* Mutant: a directory that is in the table is taken to be watched.
AddUnlessKnown ==
    /\ loop.pc = "add"
    /\ Add(IF state = "running" /\ opts.recursive /\ Root \in watches
           THEN ({loop.dir} \cap tree) \ watches ELSE {})
    /\ loop' = NoChange
    /\ UNCHANGED <<tree, moves, queue, opts, walk, state, buffer, getter>>

\* Adding fails if the directory has gone or the watcher is closed.
HandleNewDirectory ==
    /\ loop.pc = "add"
    /\ Add(IF state = "running" /\ opts.recursive /\ Root \in watches
           THEN {loop.dir} \cap tree ELSE {})
    /\ loop' = NoChange
    /\ UNCHANGED <<tree, moves, queue, opts, walk, state, buffer, getter>>

\* processEvents passes the next event to the callbacks.
ProcessEvent ==
    /\ state = "running" /\ buffer /= <<>>
    /\ buffer' = Tail(buffer)
    /\ UNCHANGED <<tree, moves, kernel, queue, missed, opts, watches, walk, state, loop, getter>>

(***************************************************************************)
(* getEvents reads the same channel.  Its time limit expires once: after    *)
(* that it waits for the events it still wants.                             *)
(***************************************************************************)
GetEvents ==
    \E n \in 1..MaxWanted :
        /\ state = "running" /\ getter.pc = "idle" /\ getter.calls < MaxGets
        /\ getter' = [pc |-> "collect", left |-> n, timer |-> TRUE, calls |-> getter.calls + 1]
        /\ UNCHANGED <<tree, moves, kernel, queue, missed, opts, watches, walk, state, loop, buffer>>

Wanting == [getter EXCEPT !.left = @ - 1, !.pc = IF getter.left = 1 THEN "idle" ELSE @]

CollectEvent ==
    /\ getter.pc = "collect" /\ buffer /= <<>>
    /\ buffer' = Tail(buffer)
    /\ getter' = Wanting
    /\ UNCHANGED <<tree, moves, kernel, queue, missed, opts, watches, walk, state, loop>>

CollectTimesOut ==
    /\ getter.pc = "collect" /\ getter.timer
    /\ getter' = [Wanting EXCEPT !.timer = FALSE]
    /\ UNCHANGED <<tree, moves, kernel, queue, missed, opts, watches, walk, state, loop, buffer>>

WatchNext ==
    \/ MakeDir \/ RemoveDir \/ AddWatch \/ ListSubdirectories \/ AddRecursiveWatch \/ Start
    \/ StopWatch \/ RemoveWatch \/ ReadChange \/ HandleError \/ SendEvent \/ HandleNewDirectory
    \/ ProcessEvent \/ GetEvents \/ CollectEvent \/ CollectTimesOut

-----------------------------------------------------------------------------
\* Once the watcher has read every change, a recursive watch covers the directories
\* that exist and no others, those made before, during and after the walk of AddWatch
\* and those removed and made again included, but for those it could not watch or did
\* not hear of; and a watch that was removed covers none.
WatchesFollowTheTree ==
    state = "running" /\ queue = <<>> /\ loop.pc = "select" =>
        IF Root \notin watches THEN kernel = {}
        ELSE /\ kernel \subseteq {Root} \cup (IF opts.recursive THEN tree ELSE {})
             /\ {Root} \cup (IF opts.recursive THEN tree \ missed ELSE {}) \subseteq kernel
=============================================================================
