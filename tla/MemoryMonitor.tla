---------------------------- MODULE MemoryMonitor ----------------------------
(***************************************************************************)
(* The memory monitor (internal/storage/memory_monitor.go): one worker      *)
(* samples the heap and raises alerts, another cleans up after the last     *)
(* sample, and Start and Stop begin and end both.  Memory in use counts in  *)
(* per cent of the limit.                                                   *)
(***************************************************************************)
EXTENDS Integers, Sequences, FiniteSets

CONSTANTS HeapLevels,   \* heap in use, in per cent of MemoryLimitMB
          HeapWarning,  \* what the 500 MB of heap to warn of are, in per cent of MemoryLimitMB
          MaxAlerts,    \* alerts kept, 100 in the code
          MaxSamples,   \* bound: samples and passes of the cleanup
          MaxStarts     \* bound: calls of Start

ASSUME MonitorAssumption == MaxAlerts \in Nat \ {0} /\ HeapLevels \cup {HeapWarning, MaxSamples, MaxStarts} \subseteq Nat

VARIABLES heap,
          pressure,     \* of the last sample
          alerts,       \* level of each, the newest last
          cacheLimit,   \* memory limit of the cache, in per cent of MemoryLimitMB
          cacheFilled,  \* the cache holds something
          workers,      \* state of monitorWorker and cleanupWorker
          cleaning,     \* the pass of the cleanup: pressure and next strategy
          running, closed, \* mm.running; shutdownCh
          ticks, starts

monitorVars == <<heap, pressure, alerts, cacheLimit, cacheFilled, workers, cleaning,
                 running, closed, ticks, starts>>

Workers == {"monitor", "cleanup"}

\* initCleanupStrategies: cache cleanup, collection, aggressive and emergency cleanup.
CleanupStrategies == <<75, 80, 90, 95>>

MonitorInit ==
    /\ heap = 0 /\ pressure = 0
    /\ alerts = <<>>
    /\ cacheLimit = 100 /\ cacheFilled = FALSE
    /\ workers = [w \in Workers |-> "none"]
    /\ cleaning = [pressure |-> 0, next |-> 0]
    /\ running = FALSE /\ closed = FALSE
    /\ ticks = 0 /\ starts = 0

\* The program uses more or less memory, and the cache.
UseMemory ==
    /\ heap' \in HeapLevels \ {heap}
    /\ cacheFilled' \in {cacheFilled, TRUE}
    /\ UNCHANGED <<pressure, alerts, cacheLimit, workers, cleaning, running, closed, ticks, starts>>

\* Start, after any Stop has waited: a second one finds the channel closed, so that its
\* workers end at once.
StartMonitor ==
    /\ ~ running /\ starts < MaxStarts /\ \A w \in Workers : workers[w] = "none"
    /\ running' = TRUE
    /\ starts' = starts + 1
    /\ workers' = [w \in Workers |-> "select"]
    /\ UNCHANGED <<heap, pressure, alerts, cacheLimit, cacheFilled, cleaning, closed, ticks>>

\* Stop; a second one would close the channel again.
StopMonitor ==
    /\ running /\ ~ closed
    /\ running' = FALSE /\ closed' = TRUE
    /\ UNCHANGED <<heap, pressure, alerts, cacheLimit, cacheFilled, workers, cleaning, ticks, starts>>

WorkerExits ==
    \E w \in Workers :
        /\ workers[w] = "select" /\ closed
        /\ workers' = [workers EXCEPT ![w] = "none"]
        /\ UNCHANGED <<heap, pressure, alerts, cacheLimit, cacheFilled, cleaning, running, closed, ticks, starts>>

\* A ticker wakes a worker, which may happen once more after Stop.
Wakes(w) ==
    /\ workers[w] = "select" /\ ticks < MaxSamples
    /\ ticks' = ticks + 1

\* triggerAlert drops the oldest alert above the limit.
Alerted(as, level) ==
    LET all == Append(as, level) IN IF Len(all) > MaxAlerts THEN Tail(all) ELSE all

CollectMetrics ==
    /\ Wakes("monitor")
    /\ pressure' = heap
    /\ workers' = [workers EXCEPT !["monitor"] = "alert"]
    /\ UNCHANGED <<heap, alerts, cacheLimit, cacheFilled, cleaning, running, closed, starts>>

CheckAlerts ==
    /\ workers["monitor"] = "alert"
    /\ LET raised == CASE pressure >= 95 -> Alerted(alerts, "emergency")
                       [] pressure >= 85 /\ pressure < 95 -> Alerted(alerts, "critical")
                       [] pressure >= 70 /\ pressure < 85 -> Alerted(alerts, "warning")
                       [] OTHER -> alerts
       IN alerts' = IF pressure > HeapWarning THEN Alerted(raised, "warning") ELSE raised
    /\ workers' = [workers EXCEPT !["monitor"] = "select"]
    /\ UNCHANGED <<heap, pressure, cacheLimit, cacheFilled, cleaning, running, closed, ticks, starts>>

PerformAutoCleanup ==
    /\ Wakes("cleanup")
    /\ cleaning' = [pressure |-> pressure, next |-> 1]
    /\ workers' = [workers EXCEPT !["cleanup"] = "clean"]
    /\ UNCHANGED <<heap, pressure, alerts, cacheLimit, cacheFilled, running, closed, starts>>

\* The limit the cache has after a strategy.
LimitAfter(strategy, limit) == CASE strategy = 1 -> 75 [] strategy = 3 -> 50 [] OTHER -> limit

\* Mutant: a strategy that has run ends the pass.
RunFirstStrategy ==
    LET k == cleaning.next
    IN /\ workers["cleanup"] = "clean" /\ k \in DOMAIN CleanupStrategies
       /\ LET runs == cleaning.pressure >= CleanupStrategies[k]
          IN /\ cacheLimit' = IF runs THEN LimitAfter(k, cacheLimit) ELSE cacheLimit
             /\ cacheFilled' = (cacheFilled /\ ~ (runs /\ k = 4))
             /\ alerts' = IF runs THEN Alerted(alerts, "info") ELSE alerts
             /\ cleaning' = [cleaning EXCEPT !.next = IF runs THEN Len(CleanupStrategies) + 1 ELSE k + 1]
       /\ UNCHANGED <<heap, pressure, workers, running, closed, ticks, starts>>

\* The next strategy runs if the pressure read at first asks for it.
RunStrategy ==
    LET k == cleaning.next
    IN /\ workers["cleanup"] = "clean" /\ k \in DOMAIN CleanupStrategies
       /\ cleaning' = [cleaning EXCEPT !.next = k + 1]
       /\ LET runs == cleaning.pressure >= CleanupStrategies[k]
          IN /\ cacheLimit' = IF runs THEN LimitAfter(k, cacheLimit) ELSE cacheLimit
             /\ cacheFilled' = (cacheFilled /\ ~ (runs /\ k = 4))
             /\ alerts' = IF runs THEN Alerted(alerts, "info") ELSE alerts
       /\ UNCHANGED <<heap, pressure, workers, running, closed, ticks, starts>>

CleanupDone ==
    /\ workers["cleanup"] = "clean" /\ cleaning.next > Len(CleanupStrategies)
    /\ workers' = [workers EXCEPT !["cleanup"] = "select"]
    /\ UNCHANGED <<heap, pressure, alerts, cacheLimit, cacheFilled, cleaning, running, closed, ticks, starts>>

MonitorNext ==
    \/ UseMemory \/ StartMonitor \/ StopMonitor \/ WorkerExits \/ CollectMetrics \/ CheckAlerts
    \/ PerformAutoCleanup \/ RunStrategy \/ CleanupDone

-----------------------------------------------------------------------------
\* When a pass has ended, the limit of the cache is the one its pressure asks for,
\* whatever strategies ran before and however low an earlier pass has set it.
LimitFollowsPressure ==
    workers["cleanup"] = "clean" /\ cleaning.next > Len(CleanupStrategies) =>
        /\ cleaning.pressure >= 90 => cacheLimit = 50
        /\ cleaning.pressure >= 75 /\ cleaning.pressure < 90 => cacheLimit = 75
=============================================================================
