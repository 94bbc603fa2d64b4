--------------------------- MODULE StorageManager ---------------------------
(***************************************************************************)
(* internal/storage/manager.go: conversation persistence with an LRU cache *)
(* in front of SQLite.                                                     *)
(*                                                                         *)
(* What the code orders by the reader/writer lock sm.mu is kept: Save and  *)
(* Delete run wholly under sm.mu.Lock() and are one action each; Load and  *)
(* LoadRecent hold sm.mu.RLock() over several steps, which interleave with *)
(* those of other readers; RefreshCache reads under the read lock, gives   *)
(* it up, and installs what it read under the write lock.                  *)
(*                                                                         *)
(* A conversation is its id and a record: the number of the save that      *)
(* wrote it, how many tool executions (with their file operations) it has, *)
(* and, as history, whether a read of them was cut short.  Ids are numbers *)
(* whose order is that of the timestamps ("ORDER BY timestamp DESC").  The *)
(* metrics counters and the log are left out.                              *)
(***************************************************************************)
EXTENDS Integers, Sequences, FiniteSets

CONSTANTS
    Procs,        \* goroutines that call the manager
    Refreshers,   \* those of them that may call RefreshCache
    Ids,          \* conversation ids, ordered by timestamp
    CacheSize,    \* config.CacheSize
    RecentLimit,  \* the limit given to LoadRecentConversations
    MaxTools,     \* bound: tool executions per conversation
    MaxSaves,     \* bound: saves in a behaviour
    AutoSaveEvery,\* saves per count-based auto-save (10 in the code)
    Faults        \* may a statement of the database fail?

ASSUME StorageAssumption ==
    /\ Refreshers \subseteq Procs
    /\ Ids \subseteq Nat
    /\ IsFiniteSet(Ids)
    /\ CacheSize \in Nat \ {0}      \* NewStorageManager rejects CacheSize <= 0
    /\ RecentLimit \in Nat \ {0}    \* a limit <= 0 becomes 20
    /\ MaxTools \in Nat
    /\ MaxSaves \in Nat
    /\ AutoSaveEvery \in Nat \ {0}
    /\ Faults \in BOOLEAN

VARIABLES
    dbVer,    \* table conversations: id -> save that wrote the row, 0 for none
    dbTools,  \* table tool_executions: id -> rows with that conversation_id
    pooled,   \* has database/sql opened a second connection?
    lru,      \* sm.cache: [items: id -> record, order: most recent first]
    closed,   \* sm.closed
    autosave, \* autoSaveChan, conversationCount, ctx.Done, stopChan
    pc,       \* where each goroutine is inside a call
    todo,     \* records the goroutine has read from the database
    next,     \* index of the one it puts in the cache next
    saves,    \* saves so far
    stale,    \* history: ids whose cached record may differ from the row
    touched   \* history: ids written since the goroutine's RefreshCache read

vars == <<dbVer, dbTools, pooled, lru, closed, autosave, pc, todo, next,
          saves, stale, touched>>
db == <<dbVer, dbTools>>

-----------------------------------------------------------------------------
Record == [ver : 0..MaxSaves, tools : 0..MaxTools, cut : BOOLEAN]
Whole(ver, tools) == [ver |-> ver, tools |-> tools, cut |-> FALSE]
NoRecord == Whole(0, 0)
Loaded == [id : Ids, rec : Record]

\* What loadConversationFromDatabase assembles for an id: the conversation
\* row and the tool executions that name it.
Row(id) == IF dbVer[id] = 0 THEN NoRecord
           ELSE Whole(dbVer[id], dbTools[id])

\* Nobody looks at rows.Err(): when a step of the iteration over the tool
\* executions, or over the file operations of one, fails, the loop ends as
\* after the last row, and what it has so far is returned without an error.
CutShort(id) == IF Faults /\ dbVer[id] # 0 THEN 0..(dbTools[id] - 1) ELSE {}

Readings(id) == {Row(id)} \cup
    {[ver |-> dbVer[id], tools |-> n, cut |-> TRUE] : n \in CutShort(id)}

RowIds == {id \in Ids : dbVer[id] # 0}

\* The answer of "ORDER BY timestamp DESC LIMIT limit": the newest rows, the
\* newest first (one sequence, as the timestamps differ).
NewestFirst(limit) ==
    LET n == IF Cardinality(RowIds) < limit THEN Cardinality(RowIds) ELSE limit
    IN  {s \in [1..n -> RowIds] :
            /\ \A i, j \in 1..n : i < j => s[i] > s[j]
            /\ \A id \in RowIds : \/ \E i \in 1..n : s[i] = id
                                  \/ \A i \in 1..n : s[i] > id}

-----------------------------------------------------------------------------
\* LRUCache: the items map and the recency list.

EmptyLru == [items |-> [id \in Ids |-> NoRecord], order |-> <<>>]

Keys(l) == {id \in Ids : l.items[id] # NoRecord}

Position(l, id) == CHOOSE i \in DOMAIN l.order : l.order[i] = id

PushFront(order, id) ==
    [j \in 1..(Len(order) + 1) |-> IF j = 1 THEN id ELSE order[j - 1]]

RemoveIndex(order, i) ==
    [j \in 1..(Len(order) - 1) |-> IF j < i THEN order[j] ELSE order[j + 1]]

Remove(l, id) ==
    IF id \in Keys(l)
    THEN [items |-> [l.items EXCEPT ![id] = NoRecord],
          order |-> RemoveIndex(l.order, Position(l, id))]
    ELSE l

EvictOldest(l) == Remove(l, l.order[Len(l.order)])

Push(l, id, rec) == [items |-> [l.items EXCEPT ![id] = rec],
                     order |-> PushFront(l.order, id)]

\* MoveToFront takes an entry out of the list and pushes it again.
Get(l, id) == IF id \in Keys(l) THEN Push(Remove(l, id), id, l.items[id]) ELSE l

Put(l, id, rec) ==
    LET others == IF id \in Keys(l) THEN Remove(l, id)
                  ELSE IF Len(l.order) < CacheSize THEN l
                  ELSE EvictOldest(l)
    IN  Push(others, id, rec)

\* A new cache after a Put of each record in turn: the records have distinct
\* ids and are no more than CacheSize, so that nothing is evicted and the
\* last one put, the oldest, is the most recent.
FreshLru(recs) ==
    [items |-> [id \in Ids |->
        IF \E i \in DOMAIN recs : recs[i].id = id
        THEN recs[CHOOSE i \in DOMAIN recs : recs[i].id = id].rec
        ELSE NoRecord],
     order |-> [i \in 1..Len(recs) |-> recs[Len(recs) + 1 - i].id]]

-----------------------------------------------------------------------------
\* Mutant: Close calls Lock() with a read lock still held.
ReadingUpgrade == {"load_read", "load_put", "recent_put", "refresh_put",
                   "close_wait", "close_lock"}

\* sm.mu.  A goroutine that waits in Lock() keeps new readers out, as Go's
\* RWMutex does.
Reading == {"load_read", "load_put", "recent_put", "refresh_put"}
Waiting == {"refresh_lock", "close_lock"}

Exclusive == \A p \in Procs : pc[p] \notin Reading
Sharable  == \A p \in Procs : pc[p] \notin Waiting

\* PRAGMA foreign_keys is executed once, so it holds on the connection that
\* ran it and on no other that the pool opens.
CascadeOutcomes == IF pooled THEN BOOLEAN ELSE {TRUE}

\* A query made while another goroutine's is open takes another connection.
OtherQueries(p) == \E q \in Procs \ {p} : pc[q] = "load_read"

Touch(id) == touched' = [p \in Procs |-> IF pc[p] \in {"refresh_put",
                "refresh_gap", "refresh_lock"} THEN touched[p] \cup {id}
                                               ELSE touched[p]]

Init ==
    /\ dbVer = [id \in Ids |-> 0]
    /\ dbTools = [id \in Ids |-> 0]
    /\ pooled = FALSE
    /\ lru = EmptyLru
    /\ closed = FALSE
    /\ autosave = [signal |-> FALSE, count |-> 0, cancelled |-> FALSE,
                   stopped |-> FALSE]
    /\ pc = [p \in Procs |-> "idle"]
    /\ todo = [p \in Procs |-> <<>>]
    /\ next = [p \in Procs |-> 1]
    /\ saves = 0
    /\ stale = {}
    /\ touched = [p \in Procs |-> {}]

\* saveConversationToDatabase with n tool executions of which the first done
\* are written.  INSERT OR REPLACE deletes the old row, and with it the old
\* tool executions where the connection enforces foreign keys.
WriteRow(id, done) ==
    \E cascade \in CascadeOutcomes :
        /\ dbVer' = [dbVer EXCEPT ![id] = saves + 1]
        /\ dbTools' = [dbTools EXCEPT ![id] =
                IF cascade \/ @ < done THEN done ELSE @]

\* Mutant: does not look at sm.closed.
SaveWhenClosed(p, id, n) ==
    /\ pc[p] = "idle"
    /\ Exclusive
    /\ saves < MaxSaves
    /\ saves' = saves + 1
    /\ Touch(id)
    /\ WriteRow(id, n)
    /\ lru' = Put(lru, id, Whole(saves + 1, n))
    /\ autosave' = [autosave EXCEPT !.signal = TRUE]
    /\ UNCHANGED <<pooled, closed, pc, todo, next, stale>>

\* SaveConversation (Save and Update convert and call it).  The statements
\* are not in a transaction: a tool execution that fails leaves the new
\* conversation row, and the cache as it was.
SaveConversation(p, id, n) ==
    /\ pc[p] = "idle"
    /\ Exclusive
    /\ ~closed
    /\ saves < MaxSaves
    /\ saves' = saves + 1
    /\ Touch(id)
    /\ \/ /\ WriteRow(id, n)
          /\ lru' = Put(lru, id, Whole(saves + 1, n))
          /\ autosave' = [autosave EXCEPT !.signal = TRUE]
          /\ stale' = IF dbTools'[id] = n THEN stale \ {id}
                                          ELSE stale \cup {id}
       \/ /\ Faults
          /\ \E done \in 0..(n - 1) : WriteRow(id, done)
          /\ stale' = stale \cup {id}
          /\ UNCHANGED <<lru, autosave>>
    /\ UNCHANGED <<pooled, closed, pc, todo, next>>

\* Mutant: leaves the conversation in the cache.
DeleteKeepsCached(p, id) ==
    /\ pc[p] = "idle"
    /\ Exclusive
    /\ dbVer' = [dbVer EXCEPT ![id] = 0]
    /\ dbTools' = [dbTools EXCEPT ![id] = 0]
    /\ Touch(id)
    /\ UNCHANGED <<lru, pooled, closed, autosave, pc, todo, next, saves, stale>>

\* DeleteConversation removes from the cache first; if the DELETE fails the
\* row stays.
DeleteConversation(p, id) ==
    /\ pc[p] = "idle"
    /\ Exclusive
    /\ lru' = Remove(lru, id)
    /\ stale' = stale \ {id}
    /\ \/ /\ \E cascade \in CascadeOutcomes :
                dbTools' = IF cascade /\ dbVer[id] # 0
                           THEN [dbTools EXCEPT ![id] = 0] ELSE dbTools
          /\ dbVer' = [dbVer EXCEPT ![id] = 0]
          /\ Touch(id)
       \/ /\ Faults
          /\ UNCHANGED <<db, touched>>
    /\ UNCHANGED <<pooled, closed, autosave, pc, todo, next, saves>>

\* LoadConversation: a hit under the read lock ...
LoadHit(p, id) ==
    /\ pc[p] = "idle"
    /\ Sharable
    /\ id \in Keys(lru)
    /\ lru' = Get(lru, id)
    /\ UNCHANGED <<db, pooled, closed, autosave, pc, todo, next, saves, stale,
                   touched>>

\* ... or a miss, which keeps the read lock while it queries ...
LoadMiss(p, id) ==
    /\ pc[p] = "idle"
    /\ Sharable
    /\ id \notin Keys(lru)
    /\ pc' = [pc EXCEPT ![p] = "load_read"]
    /\ todo' = [todo EXCEPT ![p] = <<[id |-> id, rec |-> NoRecord]>>]
    /\ UNCHANGED <<db, pooled, lru, closed, autosave, next, saves, stale, touched>>

\* ... the row and its tool executions (a query open while the next one is
\* made: a second connection) ...
LoadFound(p) ==
    /\ pc[p] = "load_read"
    /\ LET id == todo[p][1].id IN
        /\ dbVer[id] # 0
        /\ \E rec \in Readings(id) :
            /\ todo' = [todo EXCEPT ![p] = <<[id |-> id, rec |-> rec]>>]
            /\ pooled' \in IF rec.tools > 0 THEN {TRUE}
                           ELSE IF OtherQueries(p) THEN {pooled, TRUE}
                           ELSE {pooled}
    /\ pc' = [pc EXCEPT ![p] = "load_put"]
    /\ UNCHANGED <<db, lru, closed, autosave, next, saves, stale, touched>>

\* ... and returns with the error when there is no row, or a query or the
\* Scan of a row fails.
LoadError(p) ==
    /\ pc[p] = "load_read"
    /\ \/ dbVer[todo[p][1].id] = 0 /\ UNCHANGED pooled
       \/ Faults /\ pooled' \in {pooled, TRUE}
    /\ pc' = [pc EXCEPT ![p] = "idle"]
    /\ todo' = [todo EXCEPT ![p] = <<>>]
    /\ UNCHANGED <<db, lru, closed, autosave, next, saves, stale, touched>>

LoadPut(p) ==
    /\ pc[p] = "load_put"
    /\ lru' = Put(lru, todo[p][1].id, todo[p][1].rec)
    /\ stale' = stale \ {todo[p][1].id}
    /\ pc' = [pc EXCEPT ![p] = "idle"]
    /\ todo' = [todo EXCEPT ![p] = <<>>]
    /\ UNCHANGED <<db, pooled, closed, autosave, next, saves, touched>>

\* LoadRecentConversations (also LoadRecent, LoadAll and the first half of
\* RefreshCache): reads under the read lock, with a nested query per row.
\* Its own loop, too, ends at a row that cannot be stepped to ...
RowsRead(s) == IF Faults THEN 0..Len(s) ELSE {Len(s)}

RecentRead(p, limit, then) ==
    /\ pc[p] = "idle"
    /\ Sharable
    /\ \E s \in NewestFirst(limit) : \E n \in RowsRead(s) :
        \E recs \in [1..n -> UNION {Readings(id) : id \in Ids}] :
            /\ \A i \in 1..n : recs[i] \in Readings(s[i])
            /\ todo' = [todo EXCEPT ![p] =
                            [i \in 1..n |-> [id |-> s[i], rec |-> recs[i]]]]
            /\ pooled' = (pooled \/ n > 0)
    /\ pc' = [pc EXCEPT ![p] = then]
    /\ next' = [next EXCEPT ![p] = 1]
    /\ touched' = [touched EXCEPT ![p] = {}]
    /\ UNCHANGED <<db, lru, closed, autosave, saves, stale>>

LoadRecentConversations(p) == RecentRead(p, RecentLimit, "recent_put")

RefreshRead(p) == p \in Refreshers /\ RecentRead(p, CacheSize, "refresh_put")

\* ... or returns the error of a query or a Scan, having cached nothing ...
RecentError(p) ==
    /\ pc[p] = "idle"
    /\ Sharable
    /\ Faults
    /\ RowIds # {}
    /\ pooled' = TRUE
    /\ UNCHANGED <<db, lru, closed, autosave, pc, todo, next, saves, stale,
                   touched>>

\* ... puts the conversations in the cache one by one ...
RecentPut(p) ==
    /\ pc[p] \in {"recent_put", "refresh_put"}
    /\ next[p] <= Len(todo[p])
    /\ LET loaded == todo[p][next[p]] IN
        /\ lru' = Put(lru, loaded.id, loaded.rec)
        /\ stale' = stale \ {loaded.id}
    /\ next' = [next EXCEPT ![p] = @ + 1]
    /\ UNCHANGED <<db, pooled, closed, autosave, pc, todo, saves, touched>>

\* ... and gives the read lock up.  RefreshCache keeps the conversations.
RecentDone(p) ==
    /\ pc[p] \in {"recent_put", "refresh_put"}
    /\ next[p] > Len(todo[p])
    /\ IF pc[p] = "recent_put"
       THEN /\ pc' = [pc EXCEPT ![p] = "idle"]
            /\ todo' = [todo EXCEPT ![p] = <<>>]
       ELSE /\ pc' = [pc EXCEPT ![p] = "refresh_gap"]
            /\ UNCHANGED todo
    /\ next' = [next EXCEPT ![p] = 1]
    /\ UNCHANGED <<db, pooled, lru, closed, autosave, saves, stale, touched>>

\* RefreshCache calls Lock() ...
RefreshLock(p) ==
    /\ pc[p] = "refresh_gap"
    /\ pc' = [pc EXCEPT ![p] = "refresh_lock"]
    /\ UNCHANGED <<db, pooled, lru, closed, autosave, todo, next, saves, stale,
                   touched>>

\* ... and replaces the cache by what it read before.
RefreshInstall(p) ==
    /\ pc[p] = "refresh_lock"
    /\ Exclusive
    /\ lru' = FreshLru(todo[p])
    /\ stale' = touched[p]
    /\ touched' = [touched EXCEPT ![p] = {}]
    /\ todo' = [todo EXCEPT ![p] = <<>>]
    /\ pc' = [pc EXCEPT ![p] = "idle"]
    /\ UNCHANGED <<db, pooled, closed, autosave, next, saves>>

\* Close: cancel the context, wait for the worker or five seconds, mark
\* closed under the lock, clear the cache without it.
CloseCancel(p) ==
    /\ pc[p] = "idle"
    /\ autosave' = [autosave EXCEPT !.cancelled = TRUE]
    /\ pc' = [pc EXCEPT ![p] = "close_wait"]
    /\ UNCHANGED <<db, pooled, lru, closed, todo, next, saves, stale, touched>>

CloseWaited(p) ==
    /\ pc[p] = "close_wait"
    /\ pc' = [pc EXCEPT ![p] = "close_lock"]
    /\ UNCHANGED <<db, pooled, lru, closed, autosave, todo, next, saves, stale,
                   touched>>

CloseMark(p) ==
    /\ pc[p] = "close_lock"
    /\ Exclusive
    /\ closed' = TRUE
    /\ pc' = [pc EXCEPT ![p] = "close_clear"]
    /\ UNCHANGED <<db, pooled, lru, autosave, todo, next, saves, stale, touched>>

CloseClear(p) ==
    /\ pc[p] = "close_clear"
    /\ lru' = EmptyLru
    /\ pc' = [pc EXCEPT ![p] = "idle"]
    /\ UNCHANGED <<db, pooled, closed, autosave, todo, next, saves, stale, touched>>

\* autoSaveWorker.  performAutoSave flushes nothing (flushCache returns nil)
\* and takes the lock for the metrics.
WorkerSignal ==
    /\ ~autosave.stopped
    /\ autosave.signal
    /\ autosave.count + 1 >= AutoSaveEvery => Exclusive
    /\ autosave' = [autosave EXCEPT !.signal = FALSE,
                        !.count = IF @ + 1 >= AutoSaveEvery THEN 0 ELSE @ + 1]
    /\ UNCHANGED <<db, pooled, lru, closed, pc, todo, next, saves, stale, touched>>

WorkerExit ==
    /\ ~autosave.stopped
    /\ autosave.cancelled
    /\ autosave' = [autosave EXCEPT !.stopped = TRUE]
    /\ UNCHANGED <<db, pooled, lru, closed, pc, todo, next, saves, stale, touched>>

\* The process ends and is started again: the tables are all that is left.
Crash ==
    /\ saves > 0
    /\ pooled' = FALSE
    /\ lru' = EmptyLru
    /\ closed' = FALSE
    /\ autosave' = [signal |-> FALSE, count |-> 0, cancelled |-> FALSE,
                    stopped |-> FALSE]
    /\ pc' = [p \in Procs |-> "idle"]
    /\ todo' = [p \in Procs |-> <<>>]
    /\ next' = [p \in Procs |-> 1]
    /\ stale' = {}
    /\ touched' = [p \in Procs |-> {}]
    /\ UNCHANGED <<db, saves>>

Continue(p) ==
    \/ LoadFound(p) \/ LoadError(p) \/ LoadPut(p)
    \/ RecentPut(p) \/ RecentDone(p)
    \/ RefreshLock(p) \/ RefreshInstall(p)
    \/ CloseWaited(p) \/ CloseMark(p) \/ CloseClear(p)

Next ==
    \/ \E p \in Procs, id \in Ids :
        \/ \E n \in 0..MaxTools : SaveConversation(p, id, n)
        \/ DeleteConversation(p, id)
        \/ LoadHit(p, id)
        \/ LoadMiss(p, id)
    \/ \E p \in Procs : LoadRecentConversations(p) \/ RefreshRead(p) \/ RecentError(p)
                        \/ CloseCancel(p) \/ Continue(p)
    \/ WorkerSignal
    \/ WorkerExit
    \/ Crash

Spec == Init /\ [][Next]_vars

\* A goroutine inside a call goes on; the worker is scheduled.
Fairness == /\ \A p \in Procs : WF_vars(Continue(p))
            /\ WF_vars(WorkerSignal) /\ WF_vars(WorkerExit)

FairSpec == Spec /\ Fairness

-----------------------------------------------------------------------------
\* Properties

LruType == [items : [Ids -> Record], order : Seq(Ids)]
PcType == Reading \cup Waiting \cup
          {"idle", "refresh_gap", "close_wait", "close_clear"}

\* Type invariant of the manager's state.
TypeOK ==
    /\ dbVer \in [Ids -> 0..MaxSaves]
    /\ dbTools \in [Ids -> 0..MaxTools]
    /\ pooled \in BOOLEAN
    /\ lru \in LruType
    /\ closed \in BOOLEAN
    /\ autosave \in [signal : BOOLEAN, count : 0..(AutoSaveEvery - 1),
                     cancelled : BOOLEAN, stopped : BOOLEAN]
    /\ pc \in [Procs -> PcType]
    /\ todo \in [Procs -> Seq(Loaded)]
    /\ next \in [Procs -> Nat \ {0}]
    /\ saves \in 0..MaxSaves
    /\ stale \subseteq Ids
    /\ touched \in [Procs -> SUBSET Ids]

\* The map and the list hold the same ids, each once, no more than maxSize.
WellFormed(l) ==
    /\ Keys(l) = {l.order[i] : i \in DOMAIN l.order}
    /\ \A i, j \in DOMAIN l.order : l.order[i] = l.order[j] => i = j
    /\ Len(l.order) <= CacheSize

\* The LRU cache is well formed, whatever calls are in flight and whether it
\* was filled by puts, by a refresh or again after Close.
LruWellFormed == WellFormed(lru)

\* The conversation the tables hold, or, where a fault cut its read short, one
\* that lacks some of the tool executions of the same save.
Current(rec, id) == IF rec.cut THEN rec.ver = dbVer[id] /\ rec.tools < dbTools[id]
                               ELSE rec = Row(id)

\* A cached conversation is the one the tables hold, unless a save of it
\* failed half way, kept tool executions of the row it replaced, or fell
\* between the read and the install of a RefreshCache, or a fault cut short
\* the very read that cached it: then it lacks some of the tool executions of
\* the save the tables hold.  No other order of calls leaves the cache behind
\* the database.
CacheCoherent == \A id \in Keys(lru) \ stale : Current(lru.items[id], id)

\* What a reader has read under the read lock is, until it is in the cache,
\* what it would read now; what a refresh carries to its install differs from
\* that only in conversations written since it read them.
SnapshotsCurrent ==
    \A p \in Procs : \A i \in DOMAIN todo[p] :
        /\ pc[p] \in {"load_put", "recent_put", "refresh_put"} =>
                Current(todo[p][i].rec, todo[p][i].id)
        /\ pc[p] \in {"refresh_gap", "refresh_lock"}
           /\ todo[p][i].id \notin touched[p] =>
                Current(todo[p][i].rec, todo[p][i].id)

\* What the later steps of a read rely on: one conversation for a Load,
\* rows that exist, and for a refresh distinct ones that fit the new cache.
ReadsFit ==
    \A p \in Procs :
        /\ pc[p] \in {"load_read", "load_put"} => Len(todo[p]) = 1
        /\ pc[p] \in {"load_put", "recent_put", "refresh_put", "refresh_gap",
                      "refresh_lock"} =>
                \A i \in DOMAIN todo[p] : todo[p][i].rec # NoRecord
        /\ pc[p] \in {"refresh_put", "refresh_gap", "refresh_lock"} =>
                /\ Len(todo[p]) <= CacheSize
                /\ \A i, j \in DOMAIN todo[p] :
                        todo[p][i].id = todo[p][j].id => i = j

\* The inductive invariant.
IInv == TypeOK /\ LruWellFormed /\ CacheCoherent /\ SnapshotsCurrent /\ ReadsFit

\* Every call returns: no reader, refresh or Close waits for ever on sm.mu or
\* on the worker.
CallsReturn == \A p \in Procs : (pc[p] # "idle") ~> (pc[p] = "idle")

\* What a Load of the id would return.
View(id) == IF id \in Keys(lru) THEN lru.items[id] ELSE Row(id)

Repository == INSTANCE ConversationRepository WITH
    Ids <- Ids,
    Records <- Record,
    None <- NoRecord,
    store <- [id \in Ids |-> View(id)],
    open <- ~closed,
    saves <- saves

\* Used as the program uses it (no refresh, no tool executions in the
\* records), over a database whose statements succeed, the manager is the
\* repository: evictions, reloads, closes and restarts are invisible.
ImplementsRepository == Repository!Spec
=============================================================================
