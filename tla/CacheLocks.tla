------------------------------ MODULE CacheLocks ------------------------------
(***************************************************************************)
(* internal/storage/cache.go: the two locks of ConversationCache, c.mutex  *)
(* and c.stats.mutex, both sync.RWMutex, and the order in which each       *)
(* operation takes them.  What the operations do is in ConversationCache.  *)
(***************************************************************************)
EXTENDS Integers, FiniteSets

CONSTANTS Callers,      \* goroutines that use the cache
          Operations,   \* the operations they call
          MaxEvictions  \* bound: evictions of one Put or SetMemoryLimit

VARIABLES at,       \* where each caller is
          mode,     \* how it asked for c.mutex: "write" or "read"
          updates,  \* times it has still to update the statistics
          cLock,    \* c.mutex: its holders by mode
          sLock     \* c.stats.mutex

vars == <<at, mode, updates, cLock, sLock>>

Free == [write |-> {}, read |-> {}, waiting |-> {}]

Init == /\ at = [p \in Callers |-> "outside"]
        /\ mode = [p \in Callers |-> "read"]
        /\ updates = [p \in Callers |-> 0]
        /\ cLock = Free
        /\ sLock = Free

Goto(p, l) == at' = [at EXCEPT ![p] = l]

\* sync.RWMutex.  A writer first takes its place among the writers, from
\* which on new readers wait, and then waits for the readers that hold it;
\* its Unlock admits every waiting reader before another writer.
CanLock(lock, m) == m = "read" \/ lock.write = {}

Lock(lock, m, p) ==
    CASE m = "write" -> [lock EXCEPT !.write = {p}]
      [] m = "read" /\ lock.write = {} -> [lock EXCEPT !.read = @ \cup {p}]
      [] OTHER -> [lock EXCEPT !.waiting = @ \cup {p}]

Holds(lock, p) == p \in lock.read \/ (p \in lock.write /\ lock.read = {})

Unlock(lock, p) ==
    IF p \in lock.read THEN [lock EXCEPT !.read = @ \ {p}]
    ELSE [write |-> {}, read |-> lock.waiting, waiting |-> {}]

-----------------------------------------------------------------------------
\* How often each exclusive operation locks the statistics while it holds
\* c.mutex: Get for the hit or miss and in updateAccessTime, cleanup once,
\* the operations that evict once for each conversation they evict (lru).
StatsUpdates == [Get |-> {2}, cleanup |-> {1},
                 Put |-> 0..MaxEvictions, SetMemoryLimit |-> 0..MaxEvictions,
                 memoryMonitor |-> 0..MaxEvictions,
                 PutTool |-> {0}, Remove |-> {0}, Clear |-> {0}]

Exclusive(p, op) ==
    /\ at[p] = "outside"
    /\ mode' = [mode EXCEPT ![p] = "write"]
    /\ \E n \in StatsUpdates[op] : updates' = [updates EXCEPT ![p] = n]
    /\ Goto(p, "lock_cache")
    /\ UNCHANGED <<cLock, sLock>>

\* GetTool and GetMemoryUsage
Shared(p) ==
    /\ at[p] = "outside"
    /\ mode' = [mode EXCEPT ![p] = "read"]
    /\ Goto(p, "lock_cache")
    /\ UNCHANGED <<updates, cLock, sLock>>

LockCache(p) ==
    /\ at[p] = "lock_cache"
    /\ CanLock(cLock, mode[p])
    /\ cLock' = Lock(cLock, mode[p], p)
    /\ Goto(p, "in_cache")
    /\ UNCHANGED <<mode, updates, sLock>>

\* c.stats.mutex.Lock(), inside the operation.
UpdateStats(p) ==
    /\ at[p] = "in_cache"
    /\ Holds(cLock, p)
    /\ updates[p] > 0
    /\ Goto(p, "lock_stats")
    /\ UNCHANGED <<mode, updates, cLock, sLock>>

LockStats(p) ==
    /\ at[p] = "lock_stats"
    /\ CanLock(sLock, "write")
    /\ sLock' = Lock(sLock, "write", p)
    /\ Goto(p, "in_stats")
    /\ UNCHANGED <<mode, updates, cLock>>

UnlockStats(p) ==
    /\ at[p] = "in_stats"
    /\ Holds(sLock, p)
    /\ sLock' = Unlock(sLock, p)
    /\ updates' = [updates EXCEPT ![p] = @ - 1]
    /\ Goto(p, "in_cache")
    /\ UNCHANGED <<mode, cLock>>

\* The deferred unlock; GetStats goes on to unlock the statistics.
UnlockCache(p) ==
    /\ at[p] = "in_cache"
    /\ Holds(cLock, p)
    /\ updates[p] = 0
    /\ cLock' = Unlock(cLock, p)
    /\ Goto(p, IF p \in sLock.read THEN "unlock_stats" ELSE "outside")
    /\ UNCHANGED <<mode, updates, sLock>>

\* GetStats: the statistics first, then the cache, both to read.
GetStats(p) ==
    /\ at[p] = "outside"
    /\ sLock' = Lock(sLock, "read", p)
    /\ mode' = [mode EXCEPT ![p] = "read"]
    /\ Goto(p, "read_stats")
    /\ UNCHANGED <<updates, cLock>>

ReadStats(p) ==
    /\ at[p] = "read_stats"
    /\ Holds(sLock, p)
    /\ Goto(p, "lock_cache")
    /\ UNCHANGED <<mode, updates, cLock, sLock>>

StatsRead(p) ==
    /\ at[p] = "unlock_stats"
    /\ sLock' = Unlock(sLock, p)
    /\ Goto(p, "outside")
    /\ UNCHANGED <<mode, updates, cLock>>

Call(p) == \/ \E op \in Operations \cap DOMAIN StatsUpdates : Exclusive(p, op)
           \/ Operations \cap {"GetTool", "GetMemoryUsage"} # {} /\ Shared(p)
           \/ "GetStats" \in Operations /\ GetStats(p)

Proceed(p) == \/ LockCache(p) \/ UpdateStats(p) \/ LockStats(p) \/ UnlockStats(p)
              \/ UnlockCache(p) \/ ReadStats(p) \/ StatsRead(p)

Next == \E p \in Callers : Call(p) \/ Proceed(p)

Spec == Init /\ [][Next]_vars

\* Goroutines run, and a waiting one gets a sync.RWMutex that is free again
\* and again: its starvation mode hands it over in order.
FairSpec == Spec /\ \A p \in Callers : SF_vars(Proceed(p))

-----------------------------------------------------------------------------
\* Every call on the cache returns, with its result ("GetStats returns current
\* cache statistics", line 287).
CallsReturn == \A p \in Callers : at[p] # "outside" ~> at[p] = "outside"
=============================================================================
