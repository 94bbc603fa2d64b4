------------------------------- MODULE Sandbox -------------------------------
(***************************************************************************)
(* Commands in a sandbox (internal/security/sandbox.go): each is watched by *)
(* a goroutine and ends by itself, by its time limit or by a violation; the *)
(* sandbox may be cleaned up meanwhile, by its own life time and by its     *)
(* manager, each of which kills what runs and stops the watching.           *)
(***************************************************************************)
EXTENDS Integers, FiniteSets

CONSTANTS Executors,   \* goroutines that execute a command, one at a time
          MaxRuns      \* bound: executions

ASSUME RunsAssumption == MaxRuns \in Nat

Cleaners == {"lifetime", "manager"}

VARIABLES box,       \* the sandbox: listed by its manager, its directory exists
          run,       \* the execution each executor is in
          watched,   \* activeProcesses: the executors whose process is watched
          watcher,   \* monitorProcess of each executor's process
          cleanup,   \* the cleanup each cleaner is in
          metrics    \* ExecutionMetrics

sandboxVars == <<box, run, watched, watcher, cleanup, metrics>>

NoRun == [pc |-> "idle", process |-> "none", verdict |-> "none"]

SandboxInit ==
    /\ box = [listed |-> TRUE, root |-> TRUE]
    /\ run = [e \in Executors |-> NoRun]
    /\ watched = {}
    /\ watcher = [e \in Executors |-> [pc |-> "none", violation |-> FALSE, closed |-> 0]]
    /\ cleanup = [k \in Cleaners |-> [pc |-> "idle", left |-> {}]]
    /\ metrics = [total |-> 0, failed |-> 0, successful |-> 0]

Failed == [metrics EXCEPT !.failed = @ + 1]

(***************************************************************************)
(* An execution.                                                           *)
(***************************************************************************)
\* Execute counts the run.
Execute(e) ==
    /\ run[e].pc = "idle" /\ box.listed /\ metrics.total < MaxRuns
    /\ metrics' = [metrics EXCEPT !.total = @ + 1]
    /\ run' = [run EXCEPT ![e] = [NoRun EXCEPT !.pc = "validate"]]
    /\ UNCHANGED <<box, watched, watcher, cleanup>>

\* The command or its directory is refused.
Refuse(e) ==
    /\ run[e].pc = "validate"
    /\ run' = [run EXCEPT ![e] = NoRun]
    /\ metrics' = Failed
    /\ UNCHANGED <<box, watched, watcher, cleanup>>

Validate(e) ==
    /\ run[e].pc = "validate"
    /\ run' = [run EXCEPT ![e].pc = "start"]
    /\ UNCHANGED <<box, watched, watcher, cleanup, metrics>>

\* The process starts, in a directory that must exist.
Start(e) ==
    /\ run[e].pc = "start" /\ box.root
    /\ run' = [run EXCEPT ![e].pc = "register", ![e].process = "running"]
    /\ UNCHANGED <<box, watched, watcher, cleanup, metrics>>

StartFails(e) ==
    /\ run[e].pc = "start"
    /\ run' = [run EXCEPT ![e] = NoRun]
    /\ metrics' = Failed
    /\ UNCHANGED <<box, watched, watcher, cleanup>>

\* startProcessMonitoring: a process that is gone already is not watched.
StartProcessMonitoring(e) ==
    /\ run[e].pc = "register"
    /\ run' = [run EXCEPT ![e].pc = "select"]
    /\ \/ /\ watched' = watched \cup {e}
          /\ watcher' = [watcher EXCEPT ![e] = [pc |-> "watching", violation |-> FALSE,
                                                closed |-> 0]]
       \/ /\ run[e].process /= "running"
          /\ UNCHANGED <<watched, watcher>>
    /\ UNCHANGED <<box, cleanup, metrics>>

ProcessExits(e) ==
    /\ run[e].process = "running"
    /\ run' = [run EXCEPT ![e].process = "exited"]
    /\ UNCHANGED <<box, watched, watcher, cleanup, metrics>>

\* monitorProcess finds too much memory or too much work.
FindViolation(e) ==
    /\ watcher[e].pc = "watching" /\ ~ watcher[e].violation /\ run[e].process = "running"
    /\ watcher' = [watcher EXCEPT ![e].violation = TRUE]
    /\ UNCHANGED <<box, run, watched, cleanup, metrics>>

WatcherStops(e) ==
    /\ watcher[e].pc = "watching" /\ watcher[e].closed > 0
    /\ watcher' = [watcher EXCEPT ![e].pc = "none"]
    /\ UNCHANGED <<box, run, watched, cleanup, metrics>>

\* runCommandWithMonitoring waits for the end of the process, the time limit or a
\* violation, and kills the process in the last two cases.
Kill(e) ==
    /\ run[e].pc = "select"
    /\ run' = [run EXCEPT ![e].pc = "stop", ![e].process = "exited", ![e].verdict = "failed"]
    /\ UNCHANGED <<box, watched, watcher, cleanup, metrics>>

Exits(e) ==
    /\ run[e].pc = "select" /\ run[e].process = "exited"
    /\ \E verdict \in {"failed", "successful"} :
         run' = [run EXCEPT ![e].pc = "stop", ![e].verdict = verdict]
    /\ UNCHANGED <<box, watched, watcher, cleanup, metrics>>

TimesOut(e) == Kill(e)

Violates(e) == watcher[e].violation /\ Kill(e)

\* Mutant: the channel is closed by whoever comes.
StopProcessMonitoringAlways(e) ==
    /\ watched' = watched \ {e}
    /\ watcher' = [watcher EXCEPT ![e].closed = @ + 1]

\* stopProcessMonitoring: whoever takes the process off the map closes the channel.
StopProcessMonitoring(e) ==
    /\ watched' = watched \ {e}
    /\ watcher' = IF e \in watched THEN [watcher EXCEPT ![e].closed = @ + 1] ELSE watcher

Stop(e) ==
    /\ run[e].pc = "stop"
    /\ StopProcessMonitoring(e)
    /\ run' = [run EXCEPT ![e].pc = "count"]
    /\ UNCHANGED <<box, cleanup, metrics>>

Count(e) ==
    /\ run[e].pc = "count"
    /\ metrics' = IF run[e].verdict = "failed" THEN Failed
                  ELSE [metrics EXCEPT !.successful = @ + 1]
    /\ run' = [run EXCEPT ![e] = NoRun]
    /\ UNCHANGED <<box, watched, watcher, cleanup>>

(***************************************************************************)
(* Cleaning up.                                                            *)
(***************************************************************************)
\* Cleanup of the life time's goroutine, or of DestroySandbox: KillAllProcesses
\* copies the map ...
Cleanup(k) ==
    /\ cleanup[k].pc = "idle" /\ (k = "manager" => box.listed)
    /\ cleanup' = [cleanup EXCEPT ![k] = [pc |-> "kill", left |-> watched]]
    /\ UNCHANGED <<box, run, watched, watcher, metrics>>

\* ... and kills one after the other what it holds.
KillProcess(k) ==
    \E e \in cleanup[k].left :
        /\ cleanup[k].pc = "kill"
        /\ cleanup' = [cleanup EXCEPT ![k].left = @ \ {e}]
        /\ run' = [run EXCEPT ![e].process = IF @ = "running" THEN "exited" ELSE @]
        /\ StopProcessMonitoring(e)
        /\ UNCHANGED <<box, metrics>>

\* The directory is removed; if that fails the manager keeps the sandbox.
RemoveRoot(k) ==
    /\ cleanup[k].pc = "kill" /\ cleanup[k].left = {}
    /\ \E removed \in BOOLEAN :
         /\ box' = [listed |-> box.listed /\ ~ (removed /\ k = "manager"),
                    root   |-> box.root /\ ~ removed]
         /\ cleanup' = [cleanup EXCEPT ![k] =
              [pc |-> IF k = "manager" /\ ~ removed THEN "idle" ELSE "done", left |-> {}]]
    /\ UNCHANGED <<run, watched, watcher, metrics>>

SandboxNext ==
    \/ \E e \in Executors :
         \/ Execute(e) \/ Refuse(e) \/ Validate(e) \/ Start(e) \/ StartFails(e)
         \/ StartProcessMonitoring(e) \/ ProcessExits(e) \/ FindViolation(e)
         \/ WatcherStops(e) \/ TimesOut(e) \/ Exits(e) \/ Violates(e) \/ Stop(e) \/ Count(e)
    \/ \E k \in Cleaners : Cleanup(k) \/ KillProcess(k) \/ RemoveRoot(k)

-----------------------------------------------------------------------------
\* The channel of a watcher is closed once, whether the run or a cleanup comes
\* first, and has been closed when its run is over: no watcher stays behind and
\* none is stopped twice, which would end the program.
WatchersAreStoppedOnce ==
    \A e \in Executors :
        /\ watcher[e].closed <= 1
        /\ run[e].pc = "idle" /\ watcher[e].pc = "watching" => watcher[e].closed = 1

\* Every run that has begun is either in progress or counted as failed or as
\* successful, whichever of its five ways out it takes.
RunsAreAccountedFor ==
    metrics.total = metrics.failed + metrics.successful
                    + Cardinality({e \in Executors : run[e].pc /= "idle"})

\* Each run, whichever way it ends and whatever cleanup it meets, is counted once and
\* its watcher stopped once.
RunsAndWatchersEnd == WatchersAreStoppedOnce /\ RunsAreAccountedFor
=============================================================================
