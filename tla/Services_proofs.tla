---------------------------- MODULE Services_proofs ----------------------------
(***************************************************************************)
(* Proofs about the services beside the storage manager: the counters of    *)
(* lazy loading, the limits of the memory monitor, the listeners and files  *)
(* of the configuration, the profiles, the migration of configuration files, *)
(* the backups, and exports with their imports.  No step of one changes what *)
(* another is about, so that each has an inductive invariant of its own.     *)
(***************************************************************************)
EXTENDS Services, FiniteSetTheorems, SequenceTheorems, NaturalsInduction,
        WellFoundedInduction, TLAPS

-----------------------------------------------------------------------------
(***************************************************************************)
(* The inductive invariants.                                               *)
(***************************************************************************)

(* Lazy loading: what is queued, counted and in the hands of the worker.   *)
Uncounted == {r \in LoadRequests : asked[r].state /= "new" /\ ~ asked[r].counted}

AskedIds == LazyIds \cup {CHOOSE c \in LazyIds : TRUE}

Request == [id : AskedIds, counted : BOOLEAN,
            state : {"new", "queued", "loading", "calling", "answered"}]
Metrics == [pending : Int, active : Int, total : Int, errors : Int]

NewIsUncounted == \A r \in LoadRequests : asked[r].state = "new" => ~ asked[r].counted

LazyTypes ==
    /\ asked \in [LoadRequests -> Request]
    /\ loadingQueue \in Seq(LoadRequests)
    /\ lazyMetrics \in Metrics
    /\ IsFiniteSet(Uncounted)
    /\ NewIsUncounted

\* A request waits once, and only while it is queued.
WaitOnce ==
    \A i \in 1..Len(loadingQueue) :
        /\ asked[loadingQueue[i]].state = "queued"
        /\ \A j \in 1..Len(loadingQueue) : loadingQueue[i] = loadingQueue[j] => i = j

\* The worker loads one request at a time.
LoadsOne ==
    /\ lazyMetrics.active = IF WorkerIdle THEN 0 ELSE 1
    /\ \A r, q \in LoadRequests :
           asked[r].state = "loading" /\ asked[q].state = "loading" => r = q

\* The requests that wait are those pending and those their callers have not yet counted:
\* the worker may count one down that was not counted up.
PendingCounts == Len(loadingQueue) = lazyMetrics.pending + Cardinality(Uncounted)

LazyInv == LazyTypes /\ WaitOnce /\ LoadsOne /\ PendingCounts

(* The memory monitor: how far a pass has set the limit.                   *)
MonitorTypes ==
    /\ heap \in Nat /\ pressure \in Nat
    /\ workers \in [Workers -> {"none", "select", "alert", "clean"}]
    /\ cleaning \in [pressure : Nat, next : 0..5]

PassSetsLimit ==
    workers["cleanup"] = "clean" =>
        /\ cleaning.next > 3 /\ cleaning.pressure >= 90 => cacheLimit = 50
        /\ /\ cleaning.next > 1 /\ cleaning.pressure >= 75
           /\ cleaning.next <= 3 \/ cleaning.pressure < 90
           => cacheLimit = 75

MonitorInv == MonitorTypes /\ PassSetsLimit

(* The configuration: changes and the updates that tell of them.           *)
Listener == [since : Nat, told : Seq(Nat), seen : Seq(Nat), alone : BOOLEAN]
WatchState == [on : BOOLEAN, events : BOOLEAN, timer : BOOLEAN, stopped : BOOLEAN,
               files : SUBSET Files, barred : SUBSET Files]
CallState == [step : {"call"}, change : Nat]
CallsState == [step : {"calls"}, change : Nat, calls : Seq(Nat), next : Nat]

\* A list of listeners, each of them once.
Distinct(s) == \A k, l \in DOMAIN s : s[k] = s[l] => k = l
ListOf(n, s) == s \in Seq(1..n) /\ Distinct(s)
In(i, s) == \E k \in DOMAIN s : s[k] = i

Tells(u) == updates[u].step \in {"call", "calls"}

ConfigTypes ==
    /\ changes \in Nat
    /\ listeners \in Seq(Listener)
    /\ DOMAIN updates = Updaters \cup {Watcher}
    /\ \A u \in DOMAIN updates : updates[u].step = "call" => updates[u] \in CallState
    /\ \A u \in DOMAIN updates : updates[u].step = "calls" =>
           /\ updates[u] \in CallsState
           /\ ListOf(Len(listeners), updates[u].calls) /\ updates[u].next >= 1
    /\ watch \in WatchState

\* A registration that nothing overlapped is in every list that will be written back.
RegistryInv ==
    /\ registering \subseteq 1..Len(listeners)
    /\ ListOf(Len(listeners), callbacks)
    /\ \A i \in registering : ListOf(Len(listeners), listeners[i].seen) /\ ~ In(i, listeners[i].seen)
    /\ \A i, j \in registering : listeners[i].alone => i = j
    /\ \A i \in 1..Len(listeners) : Registered(i) =>
           In(i, callbacks) /\ \A j \in registering : In(i, listeners[j].seen)

ConfigShape == ConfigTypes /\ RegistryInv

\* Every update tells of a change of its own.
TellsItsOwn ==
    \A u \in DOMAIN updates : Tells(u) =>
        /\ updates[u].change \in 1..changes
        /\ \A v \in DOMAIN updates : Tells(v) /\ updates[v].change = updates[u].change => u = v

\* The update has still to tell the listener.
Owes(u, i) ==
    \/ updates[u].step = "call"
    \/ /\ updates[u].step = "calls"
       /\ \E k \in DOMAIN updates[u].calls : updates[u].next <= k /\ updates[u].calls[k] = i

Told(i) == {listeners[i].told[k] : k \in DOMAIN listeners[i].told}

ToldOnce ==
    \A i \in 1..Len(listeners) :
        /\ Told(i) \subseteq 1..changes
        /\ \A k, l \in DOMAIN listeners[i].told :
               listeners[i].told[k] = listeners[i].told[l] => k = l
        /\ \A u \in DOMAIN updates : Owes(u, i) => updates[u].change \notin Told(i)

\* Of every change since it was registered a listener was told, or an update owes it.
ToldOrOwed ==
    \A i \in 1..Len(listeners) : \A n \in 1..changes :
        Registered(i) /\ n > listeners[i].since =>
            n \in Told(i) \/ \E u \in DOMAIN updates : Owes(u, i) /\ updates[u].change = n

TellInv == TellsItsOwn /\ ToldOnce /\ ToldOrOwed

\* What was written and not read is watched, and a reload is coming.
UnreadIsWatched == unread \subseteq watch.files /\ (~ watch.on => watch.files = {})

ReadInv == UnreadIsWatched /\ WritesAreReloaded

ConfigInv == ConfigShape /\ TellInv /\ ReadInv

\* No field is lost, from the configuration or from one on its way there.
Whole(c) == /\ DOMAIN c = DOMAIN DefaultConfig
            /\ \A s \in DOMAIN c : DOMAIN c[s] = DOMAIN DefaultConfig[s]

WholeInv ==
    /\ Whole(config)
    /\ \A u \in DOMAIN updates : updates[u].step = "swap" => Whole(updates[u].new)

(* The migration of files: a backup comes before the file is cut.          *)
MigrationTypes ==
    /\ DOMAIN versioned = Paths /\ DOMAIN originals = Paths /\ DOMAIN migration = Paths
    /\ \A p \in Paths : "step" \in DOMAIN migration[p]

Covered(p) ==
    \E b \in DOMAIN backups :
        /\ b[1] = DetectConfigVersion(originals[p])
        /\ backups[b].contents = originals[p] \/ backups[b].again

BackupFirst ==
    \A p \in Paths :
        /\ Migrating(p, "backup") => migration[p].data = versioned[p]
        /\ Migrating(p, "write") \/ Migrating(p, "rest") => Covered(p)

MigrationInv == MigrationTypes /\ BackupFirst /\ OriginalIsKept

(* Backups of conversations: the one being made is the newest.             *)
ArchiveTypes ==
    /\ clock \in Nat
    /\ DOMAIN archives \subseteq 0..clock
    /\ history /= None
    /\ backup.step \in {"none", "fill", "cleanup", "close"}
    /\ backup.step /= "none" =>
           backup \in [step : {"fill", "cleanup", "close"}, name : Nat, of : {backup.of}]

BackupIsNewest ==
    backup.step /= "none" =>
        /\ backup.of /= None
        /\ backup.name \in DOMAIN archives /\ archives[backup.name].metadata = None
        /\ \A s \in DOMAIN archives : s <= backup.name

ArchivesKept ==
    returned /\ lostBy = {} /\ backup.step /= "close" => \E s \in DOMAIN archives : Complete(s)

ArchiveInv == ArchiveTypes /\ BackupIsNewest /\ ArchivesKept

(* The conversations on the screen: time stamps tell them apart, and no two *)
(* blocks have one id.                                                     *)
AddedInOrder ==
    /\ \A id \in DOMAIN added : id \in Ids /\ added[id] \in 1..Cardinality(DOMAIN added)
    /\ \A a, b \in DOMAIN added : added[a] = added[b] => a = b

Different(blocks) == \A i, j \in 1..Len(blocks) : blocks[i].id = blocks[j].id => i = j

HistoryInv ==
    /\ ScreenFollowsStorage
    /\ AddedInOrder /\ DOMAIN stored \subseteq DOMAIN added
    /\ Different(cachedBlocks)
    /\ \A i \in 1..Len(cachedBlocks) : cachedBlocks[i].id \in DOMAIN added

(* The ring of the cache: the sentinel, the keys in order, the sentinel.   *)
(* A move takes a key out of the ring of the others and puts it in front.  *)
OneReader == \A r, q \in Readers : r = q

Keyed(s) == /\ s \in Seq(Keys)
            /\ \A i, j \in 1..Len(s) : s[i] = s[j] => i = j

KeysIn(s) == {s[i] : i \in DOMAIN s}

NodeAt(s, i) == IF i \in 1..Len(s) THEN s[i] ELSE Root

Forward(l, s, i) == l.n[NodeAt(s, i)] = NodeAt(s, i + 1)
Back(l, s, i) == l.p[NodeAt(s, i + 1)] = NodeAt(s, i)

IsRing(l, s) == \A i \in 0..Len(s) : Forward(l, s, i) /\ Back(l, s, i)

\* The key k is between the nodes at q and q + 1.
IsBetween(l, s, k, q) == l.p[k] = NodeAt(s, q) /\ l.n[k] = NodeAt(s, q + 1)

\* Where the move of k to the front of the others, s, has come to.
Moving(l, s, k, at) ==
    /\ at = "skip_forward" => \E q \in 1..Len(s) :
           /\ \A i \in 0..Len(s) : i /= q => Forward(l, s, i) /\ Back(l, s, i)
           /\ IsBetween(l, s, k, q)
           /\ l.n[NodeAt(s, q)] = k /\ l.p[NodeAt(s, q + 1)] = k
    /\ at = "skip_back" => \E q \in 1..Len(s) :
           /\ \A i \in 0..Len(s) : Forward(l, s, i) /\ (i /= q => Back(l, s, i))
           /\ IsBetween(l, s, k, q)
           /\ l.p[NodeAt(s, q + 1)] = k
    /\ at \in {"set_prev", "set_next", "link_prev"} => IsRing(l, s)
    /\ at \in {"set_next", "link_prev", "link_next"} => l.p[k] = Root
    /\ at \in {"link_prev", "link_next"} => l.n[k] = NodeAt(s, 1)
    /\ at = "link_next" =>
           /\ l.n[Root] = k
           /\ \A i \in 0..Len(s) : Back(l, s, i) /\ (i > 0 => Forward(l, s, i))

Others == WithoutNth(recency, 1)

RingInv ==
    /\ ListTypeOK
    /\ Keyed(recency) /\ items = KeysIn(recency)
    /\ WriteLocked => IsRing(Ring, recency)
    /\ \A r \in Readers : pc[r] /= "idle" =>
           /\ Len(recency) > 1 /\ recency[1] = key[r]
           /\ Moving(Ring, Others, key[r], pc[r])

-----------------------------------------------------------------------------
(***************************************************************************)
(* The parts are disjoint.                                                 *)
(***************************************************************************)
LEMMA StepOfAPart ==
    ASSUME [Next]_vars
    PROVE  /\ LazyNext \/ UNCHANGED lazyVars
           /\ MonitorNext \/ UNCHANGED monitorVars
           /\ ConfigNext \/ UNCHANGED configVars
           /\ StoreNext \/ UNCHANGED storeVars
           /\ MigrationNext \/ UNCHANGED migrationVars
           /\ HistoryNext \/ UNCHANGED historyVars
           /\ ListNext \/ UNCHANGED listVars
<1>1. Next => /\ LazyNext \/ UNCHANGED lazyVars
              /\ MonitorNext \/ UNCHANGED monitorVars
              /\ ConfigNext \/ UNCHANGED configVars
              /\ StoreNext \/ UNCHANGED storeVars
              /\ MigrationNext \/ UNCHANGED migrationVars
              /\ HistoryNext \/ UNCHANGED historyVars
              /\ ListNext \/ UNCHANGED listVars
    BY DEF Next
<1>2. UNCHANGED vars => /\ UNCHANGED lazyVars /\ UNCHANGED monitorVars /\ UNCHANGED configVars
                        /\ UNCHANGED storeVars /\ UNCHANGED migrationVars
                        /\ UNCHANGED historyVars /\ UNCHANGED listVars
    BY DEF vars
<1>3. QED  BY <1>1, <1>2

LEMMA StepOfTransfer ==
    ASSUME [Next]_vars
    PROVE  BackupNext \/ UNCHANGED <<history, archiveVars>>
<1>1. ExportNext => UNCHANGED <<history, archiveVars>>
    BY DEF ExportNext, ExportConversations, ImportConversations
<1>2. UNCHANGED transferVars => UNCHANGED <<history, archiveVars>>
    BY DEF transferVars
<1>3. Next => BackupNext \/ ExportNext \/ UNCHANGED transferVars
    BY DEF Next
<1>4. UNCHANGED vars => UNCHANGED transferVars
    BY DEF vars
<1>5. QED  BY <1>1, <1>2, <1>3, <1>4

-----------------------------------------------------------------------------
(***************************************************************************)
(* The memory monitor.                                                     *)
(***************************************************************************)
LEMMA MonitorStep ==
    ASSUME MonitorInv, [Next]_vars
    PROVE  MonitorInv'
<1> USE DEF MonitorInv, MonitorTypes, PassSetsLimit, Workers
<1>1. CASE UNCHANGED monitorVars
    BY <1>1 DEF monitorVars
<1>2. CASE UseMemory
    BY <1>2, MonitorAssumption DEF UseMemory
<1>3. CASE StartMonitor
    BY <1>3 DEF StartMonitor
<1>4. CASE StopMonitor
    BY <1>4 DEF StopMonitor
<1>5. CASE WorkerExits
    BY <1>5 DEF WorkerExits
<1>6. CASE CollectMetrics
    BY <1>6 DEF CollectMetrics, Wakes
<1>7. CASE CheckAlerts
    BY <1>7 DEF CheckAlerts
<1>8. CASE PerformAutoCleanup
    BY <1>8 DEF PerformAutoCleanup, Wakes
<1>9. CASE RunStrategy
  <2> DEFINE k == cleaning.next
  <2>1. k \in 1..4 /\ cleaning' = [cleaning EXCEPT !.next = k + 1]
      BY <1>9 DEF RunStrategy, CleanupStrategies
  <2>2. CleanupStrategies[1] = 75 /\ CleanupStrategies[2] = 80 /\ CleanupStrategies[3] = 90
      BY DEF CleanupStrategies
  <2>3. /\ k = 1 => cacheLimit' = IF cleaning.pressure >= 75 THEN 75 ELSE cacheLimit
        /\ k = 2 => cacheLimit' = cacheLimit
        /\ k = 3 => cacheLimit' = IF cleaning.pressure >= 90 THEN 50 ELSE cacheLimit
        /\ k = 4 => cacheLimit' = cacheLimit
      BY <1>9, <2>1, <2>2 DEF RunStrategy, LimitAfter
  <2>4. UNCHANGED <<heap, pressure, workers>>
      BY <1>9 DEF RunStrategy
  <2>5. PassSetsLimit'
      BY <2>1, <2>3, <2>4, <1>9 DEF RunStrategy
  <2>6. QED  BY <2>1, <2>4, <2>5
<1>10. CASE CleanupDone
    BY <1>10 DEF CleanupDone
<1>11. MonitorNext \/ UNCHANGED monitorVars
    BY StepOfAPart
<1>12. QED
    BY <1>1, <1>2, <1>3, <1>4, <1>5, <1>6, <1>7, <1>8, <1>9, <1>10, <1>11 DEF MonitorNext

(* When a pass of the cleanup has ended, the limit of the cache is the one its pressure    *)
(* asks for (performAutoCleanup runs every strategy whose threshold is reached).           *)
THEOREM PassesSetTheLimit == Spec => []LimitFollowsPressure
<1>1. Init => MonitorInv
    BY DEF Init, MonitorInit, MonitorInv, MonitorTypes, PassSetsLimit, Workers
<1>2. MonitorInv /\ [Next]_vars => MonitorInv'
    BY MonitorStep
<1>3. MonitorInv => LimitFollowsPressure
    BY DEF MonitorInv, MonitorTypes, PassSetsLimit, LimitFollowsPressure, CleanupStrategies
<1>4. QED  BY <1>1, <1>2, <1>3, PTL DEF Spec

-----------------------------------------------------------------------------
(***************************************************************************)
(* Lazy loading.                                                           *)
(***************************************************************************)

LEMMA LazyStep ==
    ASSUME LazyInv, [Next]_vars
    PROVE  LazyInv'
<1>a. IsFiniteSet(Uncounted) /\ Cardinality(Uncounted) \in Nat
    BY FS_CardinalityType DEF LazyInv, LazyTypes
<1>b. asked \in [LoadRequests -> Request] /\ \A r \in LoadRequests : asked[r] \in Request
    BY DEF LazyInv, LazyTypes
<1>c. loadingQueue \in Seq(LoadRequests) /\ Len(loadingQueue) \in Nat
    BY DEF LazyInv, LazyTypes
<1>d. lazyMetrics \in Metrics
    BY DEF LazyInv, LazyTypes
<1>e. NewIsUncounted /\ WaitOnce /\ LoadsOne /\ PendingCounts
    BY DEF LazyInv, LazyTypes
<1> USE <1>b, <1>c, <1>d, <1>e
<1>f. ASSUME asked' \in [LoadRequests -> Request], loadingQueue' \in Seq(LoadRequests),
             lazyMetrics' \in Metrics, IsFiniteSet(Uncounted'), NewIsUncounted',
             WaitOnce', LoadsOne', PendingCounts'
      PROVE  LazyInv'
    BY <1>f DEF LazyInv, LazyTypes
<1>1. CASE UNCHANGED <<asked, loadingQueue, lazyMetrics>>
  <2>1. WaitOnce' /\ LoadsOne' /\ NewIsUncounted'
      BY <1>1 DEF WaitOnce, LoadsOne, WorkerIdle, NewIsUncounted
  <2>2. Uncounted' = Uncounted
      BY <1>1 DEF Uncounted
  <2>3. PendingCounts'
      BY <1>1, <2>2 DEF PendingCounts
  <2>4. QED  BY <1>1, <1>a, <1>f, <2>1, <2>2, <2>3
<1>2. CASE LoadContentAsync
  <2>1. PICK r \in LoadRequests, c \in LazyIds :
            /\ asked[r].state = "new"
            /\ IF Len(loadingQueue) < QueueSize
               THEN /\ asked' = [asked EXCEPT ![r] = [@ EXCEPT !.id = c, !.state = "queued"]]
                    /\ loadingQueue' = Append(loadingQueue, r)
               ELSE /\ asked' = [asked EXCEPT ![r] = [@ EXCEPT !.id = c, !.state = "calling", !.counted = TRUE]]
                    /\ UNCHANGED loadingQueue
            /\ lazyMetrics' = lazyMetrics
      BY <1>2 DEF LoadContentAsync
  <2>2. ~ asked[r].counted
      BY <2>1 DEF NewIsUncounted
  <2>3. CASE Len(loadingQueue) < QueueSize
    <3>1. PICK x \in Request : /\ x.state = "queued" /\ x.counted = asked[r].counted
                               /\ asked' = [asked EXCEPT ![r] = x]
                               /\ loadingQueue' = Append(loadingQueue, r)
      <4> DEFINE x == [asked[r] EXCEPT !.id = c, !.state = "queued"]
      <4>1. x \in Request /\ x.state = "queued" /\ x.counted = asked[r].counted
          BY DEF Request, AskedIds
      <4>2. asked' = [asked EXCEPT ![r] = x] /\ loadingQueue' = Append(loadingQueue, r)
          BY <2>1, <2>3
      <4>3. QED  BY <4>1, <4>2
    <3>2. asked' \in [LoadRequests -> Request] /\ asked'[r] = x
          /\ \A q \in LoadRequests \ {r} : asked'[q] = asked[q]
        BY <3>1
    <3>3. loadingQueue' \in Seq(LoadRequests) /\ Len(loadingQueue') = Len(loadingQueue) + 1
        BY <3>1
    <3>4. \A i \in 1..Len(loadingQueue) : loadingQueue[i] /= r
        BY <2>1 DEF WaitOnce
    <3>5. WaitOnce'
        BY <3>1, <3>2, <3>4 DEF WaitOnce
    <3>6. LoadsOne' /\ NewIsUncounted'
        BY <2>1, <3>1, <3>2 DEF LoadsOne, WorkerIdle, NewIsUncounted
    <3>7. Uncounted' = Uncounted \cup {r} /\ r \notin Uncounted
        BY <2>1, <2>2, <3>1, <3>2 DEF Uncounted
    <3>8. IsFiniteSet(Uncounted') /\ Cardinality(Uncounted') = Cardinality(Uncounted) + 1
        BY <1>a, <3>7, FS_AddElement
    <3>9. PendingCounts'
        BY <1>a, <2>1, <3>3, <3>8 DEF PendingCounts, Metrics
    <3>10. QED  BY <1>f, <2>1, <3>2, <3>3, <3>5, <3>6, <3>8, <3>9
  <2>4. CASE ~ (Len(loadingQueue) < QueueSize)
    <3>1. PICK x \in Request : /\ x.state = "calling" /\ x.counted = TRUE
                               /\ asked' = [asked EXCEPT ![r] = x]
                               /\ loadingQueue' = loadingQueue
      <4> DEFINE x == [asked[r] EXCEPT !.id = c, !.state = "calling", !.counted = TRUE]
      <4>1. x \in Request /\ x.state = "calling" /\ x.counted = TRUE
          BY DEF Request, AskedIds
      <4>2. asked' = [asked EXCEPT ![r] = x] /\ loadingQueue' = loadingQueue
          BY <2>1, <2>4
      <4>3. QED  BY <4>1, <4>2
    <3>2. asked' \in [LoadRequests -> Request] /\ asked'[r] = x
          /\ \A q \in LoadRequests \ {r} : asked'[q] = asked[q]
        BY <3>1
    <3>3. \A i \in 1..Len(loadingQueue) : loadingQueue[i] /= r
        BY <2>1 DEF WaitOnce
    <3>4. WaitOnce'
        BY <3>1, <3>2, <3>3 DEF WaitOnce
    <3>5. LoadsOne' /\ NewIsUncounted'
        BY <2>1, <3>1, <3>2 DEF LoadsOne, WorkerIdle, NewIsUncounted
    <3>6. Uncounted' = Uncounted
        BY <2>1, <3>1, <3>2 DEF Uncounted
    <3>7. PendingCounts'
        BY <2>1, <3>1, <3>6 DEF PendingCounts
    <3>8. QED  BY <1>a, <1>f, <2>1, <3>1, <3>2, <3>4, <3>5, <3>6, <3>7
  <2>5. QED  BY <2>3, <2>4
<1>3. CASE CountPending
  <2>1. PICK r \in LoadRequests :
            /\ asked[r].state /= "new" /\ ~ asked[r].counted
            /\ asked' = [asked EXCEPT ![r].counted = TRUE]
            /\ lazyMetrics' = [lazyMetrics EXCEPT !.pending = @ + 1]
            /\ loadingQueue' = loadingQueue
      BY <1>3 DEF CountPending
  <2>2. PICK x \in Request : /\ x.state = asked[r].state /\ x.counted = TRUE
                             /\ asked' = [asked EXCEPT ![r] = x]
    <3> DEFINE x == [asked[r] EXCEPT !.counted = TRUE]
    <3>1. x \in Request /\ x.state = asked[r].state /\ x.counted = TRUE
        BY DEF Request
    <3>2. QED  BY <2>1, <3>1
  <2>3. asked' \in [LoadRequests -> Request] /\ asked'[r] = x
        /\ \A q \in LoadRequests \ {r} : asked'[q] = asked[q]
      BY <2>2
  <2>4. lazyMetrics' \in Metrics /\ lazyMetrics'.active = lazyMetrics.active
        /\ lazyMetrics.pending \in Int /\ lazyMetrics'.pending = lazyMetrics.pending + 1
      BY <2>1 DEF Metrics
  <2>5. \A q \in LoadRequests : asked'[q].state = asked[q].state
      BY <2>2, <2>3
  <2>6. WaitOnce'
      BY <2>1, <2>5 DEF WaitOnce
  <2>7. LoadsOne' /\ NewIsUncounted'
      BY <2>1, <2>2, <2>3, <2>4, <2>5 DEF LoadsOne, WorkerIdle, NewIsUncounted
  <2>8. Uncounted' = Uncounted \ {r} /\ r \in Uncounted
      BY <2>1, <2>2, <2>3, <2>5 DEF Uncounted
  <2>9. IsFiniteSet(Uncounted') /\ Cardinality(Uncounted') = Cardinality(Uncounted) - 1
      BY <1>a, <2>8, FS_RemoveElement
  <2>10. PendingCounts'
      BY <1>a, <2>1, <2>4, <2>9 DEF PendingCounts
  <2>11. QED  BY <1>f, <2>1, <2>3, <2>4, <2>6, <2>7, <2>9, <2>10
<1>4. CASE TakeRequest
  <2>1. PICK r : /\ WorkerIdle /\ Len(loadingQueue) > 0
                 /\ r = loadingQueue[1]
                 /\ asked' = [asked EXCEPT ![r].state = "loading"]
                 /\ loadingQueue' = Tail(loadingQueue)
                 /\ lazyMetrics' = [lazyMetrics EXCEPT !.pending = @ - 1, !.active = @ + 1]
    <3>1. loadingQueue /= <<>>
        BY <1>4 DEF TakeRequest
    <3>2. Len(loadingQueue) > 0 /\ Head(loadingQueue) = loadingQueue[1]
        BY <3>1
    <3>3. QED  BY <1>4, <3>2 DEF TakeRequest
  <2>2. /\ r \in LoadRequests
        /\ Len(loadingQueue') = Len(loadingQueue) - 1 /\ loadingQueue' \in Seq(LoadRequests)
        /\ \A i \in 1..Len(loadingQueue') : loadingQueue'[i] = loadingQueue[i + 1]
      BY <2>1
  <2>3. asked[r].state = "queued"
      BY <2>1, <2>2 DEF WaitOnce
  <2>4. PICK x \in Request : /\ x.state = "loading" /\ x.counted = asked[r].counted
                             /\ asked' = [asked EXCEPT ![r] = x]
    <3> DEFINE x == [asked[r] EXCEPT !.state = "loading"]
    <3>1. x \in Request /\ x.state = "loading" /\ x.counted = asked[r].counted
        BY <2>2 DEF Request
    <3>2. QED  BY <2>1, <3>1
  <2>5. asked' \in [LoadRequests -> Request] /\ asked'[r] = x
        /\ \A q \in LoadRequests \ {r} : asked'[q] = asked[q]
      BY <2>2, <2>4
  <2>6. lazyMetrics' \in Metrics /\ lazyMetrics'.active = lazyMetrics.active + 1
        /\ lazyMetrics.pending \in Int /\ lazyMetrics'.pending = lazyMetrics.pending - 1
    <3> DEFINE m == [lazyMetrics EXCEPT !.pending = @ - 1]
    <3>0. lazyMetrics.pending \in Int
        BY DEF Metrics
    <3>1. m \in Metrics /\ m.active = lazyMetrics.active /\ m.pending = lazyMetrics.pending - 1
      <4> DEFINE n == lazyMetrics.pending - 1
      <4>1. n \in Int
          BY <3>0
      <4> HIDE DEF n
      <4>2. [lazyMetrics EXCEPT !.pending = n] \in Metrics
          BY <4>1 DEF Metrics
      <4>3. /\ [lazyMetrics EXCEPT !.pending = n].active = lazyMetrics.active
            /\ [lazyMetrics EXCEPT !.pending = n].pending = n
          BY DEF Metrics
      <4>4. m = [lazyMetrics EXCEPT !.pending = n]
          BY DEF n
      <4>5. QED  BY <4>2, <4>3, <4>4 DEF n
    <3>2. lazyMetrics' = [m EXCEPT !.active = m.active + 1]
        BY <2>1, <3>1
    <3> HIDE DEF m
    <3>3. QED  BY <3>0, <3>1, <3>2 DEF Metrics
  <2>7. \A i \in 1..Len(loadingQueue') : i + 1 \in 1..Len(loadingQueue) /\ loadingQueue[i + 1] /= r
      BY <2>1, <2>2 DEF WaitOnce
  <2>8. WaitOnce'
    <3>1. ASSUME NEW i \in 1..Len(loadingQueue')
          PROVE  loadingQueue'[i] \in LoadRequests \ {r} /\ asked[loadingQueue'[i]].state = "queued"
        BY <2>2, <2>7 DEF WaitOnce
    <3>2. ASSUME NEW i \in 1..Len(loadingQueue'), NEW j \in 1..Len(loadingQueue'),
                 loadingQueue'[i] = loadingQueue'[j]
          PROVE  i = j
      <4>1. i + 1 = j + 1
          BY <2>2, <2>7, <3>2 DEF WaitOnce
      <4>2. QED  BY <4>1
    <3>3. QED  BY <2>5, <3>1, <3>2 DEF WaitOnce
  <2>9. ~ WorkerIdle' /\ lazyMetrics'.active = 1
      BY <2>1, <2>2, <2>4, <2>5, <2>6 DEF LoadsOne, WorkerIdle
  <2>10. LoadsOne'
      BY <2>1, <2>5, <2>9 DEF LoadsOne, WorkerIdle
  <2>11. NewIsUncounted'
      BY <2>4, <2>5 DEF NewIsUncounted
  <2>12. Uncounted' = Uncounted
      BY <2>2, <2>3, <2>4, <2>5 DEF Uncounted
  <2>13. PendingCounts'
      BY <1>a, <2>2, <2>6, <2>12 DEF PendingCounts
  <2>14. QED  BY <1>a, <1>f, <2>2, <2>5, <2>6, <2>8, <2>10, <2>11, <2>12, <2>13
<1>5. CASE FinishLoad
  <2>1. PICK r \in LoadRequests :
            /\ asked[r].state = "loading"
            /\ asked' = [asked EXCEPT ![r].state = "calling"]
            /\ lazyMetrics' = [lazyMetrics EXCEPT !.active = @ - 1, !.total = @ + 1, !.errors = @ + 1]
            /\ loadingQueue' = loadingQueue
      BY <1>5 DEF FinishLoad
  <2>2. PICK x \in Request : /\ x.state = "calling" /\ x.counted = asked[r].counted
                             /\ asked' = [asked EXCEPT ![r] = x]
    <3> DEFINE x == [asked[r] EXCEPT !.state = "calling"]
    <3>1. x \in Request /\ x.state = "calling" /\ x.counted = asked[r].counted
        BY DEF Request
    <3>2. QED  BY <2>1, <3>1
  <2>3. asked' \in [LoadRequests -> Request] /\ asked'[r] = x
        /\ \A q \in LoadRequests \ {r} : asked'[q] = asked[q]
      BY <2>2
  <2>4. lazyMetrics' \in Metrics /\ lazyMetrics'.active = lazyMetrics.active - 1
        /\ lazyMetrics'.pending = lazyMetrics.pending
    <3> DEFINE m == [lazyMetrics EXCEPT !.active = @ - 1]
               k == [m EXCEPT !.total = m.total + 1]
    <3>1. m \in Metrics /\ m.active = lazyMetrics.active - 1 /\ m.pending = lazyMetrics.pending
          /\ m.total = lazyMetrics.total /\ m.errors = lazyMetrics.errors
        BY DEF Metrics
    <3>2. lazyMetrics' = [k EXCEPT !.errors = m.errors + 1]
        BY <2>1, <3>1
    <3> HIDE DEF m
    <3>3. k \in Metrics /\ k.active = m.active /\ k.pending = m.pending /\ m.errors \in Int
        BY <3>1 DEF Metrics
    <3> HIDE DEF k
    <3>4. QED  BY <3>1, <3>2, <3>3 DEF Metrics
  <2>5. WaitOnce'
      BY <2>1, <2>2, <2>3 DEF WaitOnce
  <2>6. WorkerIdle' /\ lazyMetrics'.active = 0
      BY <2>1, <2>2, <2>3, <2>4 DEF LoadsOne, WorkerIdle
  <2>7. LoadsOne' /\ NewIsUncounted'
      BY <2>2, <2>3, <2>6 DEF LoadsOne, WorkerIdle, NewIsUncounted
  <2>8. Uncounted' = Uncounted
      BY <2>1, <2>2, <2>3 DEF Uncounted
  <2>9. PendingCounts'
      BY <2>1, <2>4, <2>8 DEF PendingCounts
  <2>10. QED  BY <1>a, <1>f, <2>1, <2>3, <2>4, <2>5, <2>7, <2>8, <2>9
<1>6. CASE Callback
  <2>1. PICK r \in LoadRequests : /\ asked[r].state = "calling"
                                  /\ asked' = [asked EXCEPT ![r].state = "answered"]
                                  /\ UNCHANGED <<loadingQueue, lazyMetrics>>
      BY <1>6 DEF Callback
  <2>2. PICK x \in Request : /\ x.state = "answered" /\ x.counted = asked[r].counted
                             /\ asked' = [asked EXCEPT ![r] = x]
    <3> DEFINE x == [asked[r] EXCEPT !.state = "answered"]
    <3>1. x \in Request /\ x.state = "answered" /\ x.counted = asked[r].counted
        BY DEF Request
    <3>2. QED  BY <2>1, <3>1
  <2>3. asked' \in [LoadRequests -> Request] /\ asked'[r] = x
        /\ \A q \in LoadRequests \ {r} : asked'[q] = asked[q]
      BY <2>2
  <2>4. WaitOnce'
      BY <2>1, <2>2, <2>3 DEF WaitOnce
  <2>5. LoadsOne' /\ NewIsUncounted'
      BY <2>1, <2>2, <2>3 DEF LoadsOne, WorkerIdle, NewIsUncounted
  <2>6. Uncounted' = Uncounted
      BY <2>1, <2>2, <2>3 DEF Uncounted
  <2>7. PendingCounts'
      BY <2>1, <2>6 DEF PendingCounts
  <2>8. QED  BY <1>a, <1>f, <2>1, <2>3, <2>4, <2>5, <2>6, <2>7
<1> HIDE <1>b, <1>c, <1>d, <1>e
<1>7. (GetConversation \/ LoadConversationsPage \/ CleanupOldData \/ CloseQueue \/ ShutdownReturns \/ UNCHANGED lazyVars)
      => UNCHANGED <<asked, loadingQueue, lazyMetrics>>
    BY DEF GetConversation, LoadConversationsPage, CleanupOldData, CloseQueue, ShutdownReturns, lazyVars
<1>8. LazyNext \/ UNCHANGED lazyVars
    BY StepOfAPart
<1>9. QED
    BY <1>1, <1>2, <1>3, <1>4, <1>5, <1>6, <1>7, <1>8 DEF LazyNext

LEMMA DrainedIsEmpty ==
    ASSUME LazyInv, lazyMetrics.active = 0, lazyMetrics.pending = 0
    PROVE  \/ loadingQueue = <<>> /\ WorkerIdle
           \/ \E r \in LoadRequests : asked[r].state /= "new" /\ ~ asked[r].counted
<1>1. WorkerIdle
    BY DEF LazyInv, LoadsOne
<1>2. CASE Uncounted = {}
  <2>1. Len(loadingQueue) = 0
      BY <1>2, FS_EmptySet DEF LazyInv, LazyTypes, PendingCounts, Metrics
  <2>2. QED  BY <1>1, <2>1 DEF LazyInv, LazyTypes
<1>3. QED  BY <1>2 DEF Uncounted

(* For every number of requests and every size of the queue: Shutdown reports success only *)
(* when nothing is queued or loading, unless a caller has not yet counted its request.     *)
THEOREM ShutdownIsHonest == Spec => ShutdownDrains
<1>1. Init => LazyInv
  <2> SUFFICES ASSUME LazyInit PROVE LazyInv
      BY DEF Init
  <2>2. Uncounted = {}
      BY DEF LazyInit, Uncounted
  <2>3. WorkerIdle /\ \A r \in LoadRequests : asked[r].state = "new"
      BY DEF LazyInit, WorkerIdle
  <2>4. LazyTypes
      BY <2>2, FS_EmptySet DEF LazyInit, LazyTypes, AskedIds, Request, Metrics, NewIsUncounted
  <2>5. QED
      BY <2>2, <2>3, <2>4, FS_EmptySet DEF LazyInit, LazyInv, WaitOnce, LoadsOne, PendingCounts
<1>2. LazyInv /\ [Next]_vars => LazyInv'
    BY LazyStep
<1>3. LazyInv /\ [Next]_vars =>
          [shutdown' = "drained" /\ shutdown /= "drained" =>
              \/ loadingQueue = <<>> /\ WorkerIdle
              \/ \E r \in LoadRequests : asked[r].state /= "new" /\ ~ asked[r].counted]_lazyVars
  <2> SUFFICES ASSUME LazyInv, [Next]_vars, shutdown' = "drained", shutdown /= "drained"
               PROVE  \/ loadingQueue = <<>> /\ WorkerIdle
                      \/ \E r \in LoadRequests : asked[r].state /= "new" /\ ~ asked[r].counted
      OBVIOUS
  <2>1. ShutdownReturns
    <3>1. LazyNext
        BY StepOfAPart DEF lazyVars
    <3>2. QED
        BY <3>1 DEF LazyNext, LoadContentAsync, CountPending, TakeRequest, FinishLoad, Callback,
                    GetConversation, LoadConversationsPage, CleanupOldData, CloseQueue
  <2>2. QED  BY <2>1, DrainedIsEmpty DEF ShutdownReturns
<1>4. QED  BY <1>1, <1>2, <1>3, PTL DEF Spec, ShutdownDrains

-----------------------------------------------------------------------------
(***************************************************************************)
(* The configuration: types.                                               *)
(***************************************************************************)

\* One update goes on, the listeners are the same.
LEMMA UpdateKeepsTypes ==
    ASSUME ConfigTypes, NEW u \in DOMAIN updates, NEW x,
           updates' = [updates EXCEPT ![u] = x],
           x.step = "call" => x \in CallState,
           x.step = "calls" => /\ x \in CallsState
                               /\ ListOf(Len(listeners), x.calls) /\ x.next >= 1,
           changes' \in Nat, listeners' = listeners,
           watch' \in WatchState
    PROVE  ConfigTypes'
<1>1. DOMAIN updates' = Updaters \cup {Watcher}
    BY DEF ConfigTypes
<1>2. \A v \in DOMAIN updates' : updates'[v] = IF v = u THEN x ELSE updates[v]
    BY DEF ConfigTypes
<1>3. listeners' \in Seq(Listener)
    BY DEF ConfigTypes
<1>4. \A v \in DOMAIN updates' : updates'[v].step = "call" => updates'[v] \in CallState
    BY <1>2 DEF ConfigTypes
<1>5. \A v \in DOMAIN updates' : updates'[v].step = "calls" =>
           /\ updates'[v] \in CallsState
           /\ ListOf(Len(listeners'), updates'[v].calls) /\ updates'[v].next >= 1
    BY <1>2 DEF ConfigTypes
<1>6. QED  BY <1>1, <1>3, <1>4, <1>5 DEF ConfigTypes

\* What is asked of the files and the watcher leaves updates and listeners.
FileStep ==
    \/ EditFile \/ SaveConfig \/ FinishWrite \/ ReplaceFile
    \/ StartFileWatching \/ OnFileEvent \/ StopWatching

LEMMA FileStepsKeepUpdates ==
    ASSUME FileStep
    PROVE  UNCHANGED <<config, changes, updates, listeners, callbacks, registering>>
BY DEF FileStep, EditFile, SaveConfig, Cut, FinishWrite, ReplaceFile, StartFileWatching, OnFileEvent, StopWatching

LEMMA TouchKeepsWatch ==
    ASSUME watch \in WatchState, NEW f, NEW c, Touch(f, c)
    PROVE  watch' \in WatchState
<1>1. CASE f \in watch.files
  <2>1. watch' = [watch EXCEPT !.events = TRUE, !.barred = @ \ {f}]
      BY <1>1 DEF Touch
  <2>2. QED  BY <2>1 DEF WatchState
<1>2. CASE f \notin watch.files
    BY <1>2 DEF Touch
<1>3. QED  BY <1>1, <1>2

LEMMA FileStepsKeepWatch ==
    ASSUME watch \in WatchState, FileStep
    PROVE  watch' \in WatchState
<1>1. CASE EditFile \/ SaveConfig
    BY <1>1, TouchKeepsWatch DEF EditFile, SaveConfig, Cut
<1>2. CASE FinishWrite
    BY <1>2, TouchKeepsWatch DEF FinishWrite
<1>3. CASE ReplaceFile
  <2>1. PICK f : watch' = [watch EXCEPT !.files = @ \ {f}]
      BY <1>3 DEF ReplaceFile
  <2>2. QED  BY <2>1 DEF WatchState
<1>4. CASE StartFileWatching
  <2>1. PICK fs \in SUBSET Files : watch' = [watch EXCEPT !.on = TRUE, !.files = fs]
      BY <1>4 DEF StartFileWatching
  <2>2. QED  BY <2>1 DEF WatchState
<1>5. CASE OnFileEvent
    BY <1>5 DEF OnFileEvent, WatchState
<1>6. CASE StopWatching
    BY <1>6 DEF StopWatching, WatchState
<1>7. QED  BY <1>1, <1>2, <1>3, <1>4, <1>5, <1>6 DEF FileStep

\* A list of listeners stays one while there are as many, or more.
LEMMA ListKept ==
    ASSUME NEW m \in Nat, NEW n \in Nat, m <= n, NEW s, ListOf(m, s)
    PROVE  ListOf(n, s)
BY DEF ListOf

\* A registration begins, and ends.
LEMMA BeginFacts ==
    ASSUME ConfigTypes, RegistryInv, BeginRegistration
    PROVE  /\ listeners' \in Seq(Listener) /\ Len(listeners') = Len(listeners) + 1
           /\ \A i \in 1..Len(listeners) :
                  /\ listeners'[i].since = listeners[i].since /\ listeners'[i].told = listeners[i].told
                  /\ listeners'[i].seen = listeners[i].seen
                  /\ listeners'[i].alone = (listeners[i].alone /\ i \notin registering)
           /\ /\ listeners'[Len(listeners) + 1].told = <<>>
              /\ listeners'[Len(listeners) + 1].seen = callbacks
              /\ listeners'[Len(listeners) + 1].alone = (registering = {})
           /\ registering' = registering \cup {Len(listeners) + 1}
           /\ UNCHANGED <<config, changes, updates, callbacks, watch, unread>>
<1>1. PICK old, new : /\ listeners' = Append(old, new)
                      /\ old = [i \in DOMAIN listeners |-> [listeners[i] EXCEPT !.alone = listeners[i].alone /\ i \notin registering]]
                      /\ new = [since |-> 0, told |-> <<>>, seen |-> callbacks, alone |-> registering = {}]
    BY DEF BeginRegistration
<1>2. listeners \in Seq(Listener) /\ DOMAIN listeners = 1..Len(listeners) /\ Len(listeners) \in Nat
    BY DEF ConfigTypes
<1>3. ASSUME NEW i \in 1..Len(listeners)
      PROVE  /\ old[i] \in Listener /\ old[i].since = listeners[i].since
             /\ old[i].told = listeners[i].told /\ old[i].seen = listeners[i].seen
             /\ old[i].alone = (listeners[i].alone /\ i \notin registering)
  <2>1. listeners[i] \in Listener
      BY <1>2
  <2>2. PICK o \in BOOLEAN : o = (listeners[i].alone /\ i \notin registering)
      OBVIOUS
  <2>3. old[i] = [listeners[i] EXCEPT !.alone = o]
      BY <1>1, <1>2, <2>2
  <2>4. QED  BY <2>1, <2>2, <2>3 DEF Listener
<1>4. callbacks \in Seq(Nat)
  <2>1. callbacks \in Seq(1..Len(listeners)) /\ 1..Len(listeners) \subseteq Nat
      BY DEF RegistryInv, ListOf
  <2>2. QED  BY <2>1
<1>5. new \in Listener /\ new.told = <<>> /\ new.seen = callbacks /\ new.alone = (registering = {})
  <2>1. PICK o \in BOOLEAN : o = (registering = {})
      OBVIOUS
  <2>2. new = [since |-> 0, told |-> <<>>, seen |-> callbacks, alone |-> o]
      BY <1>1, <2>1
  <2>3. QED  BY <1>4, <2>1, <2>2 DEF Listener
<1>6. old \in Seq(Listener) /\ Len(old) = Len(listeners)
  <2>1. old \in [1..Len(listeners) -> Listener]
      BY <1>1, <1>2, <1>3
  <2>2. QED  BY <1>2, <2>1
<1>7. /\ listeners' \in Seq(Listener) /\ Len(listeners') = Len(listeners) + 1
      /\ \A i \in 1..Len(listeners) : listeners'[i] = old[i]
      /\ listeners'[Len(listeners) + 1] = new
    BY <1>1, <1>2, <1>5, <1>6
<1>8. QED  BY <1>3, <1>5, <1>7 DEF BeginRegistration

EndRegistration(i) ==
    /\ callbacks' = Append(listeners[i].seen, i)
    /\ listeners' = [listeners EXCEPT ![i].since = changes, ![i].seen = <<>>]
    /\ registering' = registering \ {i}
    /\ UNCHANGED <<config, changes, updates, watch, unread>>

LEMMA EndFacts ==
    ASSUME ConfigTypes, RegistryInv, NEW i \in registering, EndRegistration(i)
    PROVE  /\ listeners' \in Seq(Listener) /\ Len(listeners') = Len(listeners)
           /\ i \in 1..Len(listeners)
           /\ \A j \in 1..Len(listeners) : j /= i => listeners'[j] = listeners[j]
           /\ listeners'[i].since = changes /\ listeners'[i].told = listeners[i].told
           /\ listeners'[i].alone = listeners[i].alone
<1>1. listeners \in Seq(Listener) /\ i \in 1..Len(listeners) /\ listeners[i] \in Listener /\ changes \in Nat
    BY DEF ConfigTypes, RegistryInv
<1>2. PICK x : x = [listeners[i] EXCEPT !.since = changes, !.seen = <<>>]
    OBVIOUS
<1>3. /\ x \in Listener /\ x.since = changes /\ x.told = listeners[i].told
      /\ x.alone = listeners[i].alone
  <2>1. PICK told \in Seq(Nat), alone \in BOOLEAN : told = listeners[i].told /\ alone = listeners[i].alone
      BY <1>1 DEF Listener
  <2>2. x = [since |-> changes, told |-> told, seen |-> <<>>, alone |-> alone]
      BY <1>1, <1>2, <2>1 DEF Listener
  <2>3. <<>> \in Seq(Nat)
      OBVIOUS
  <2>4. QED  BY <1>1, <2>1, <2>2, <2>3 DEF Listener
<1>4. listeners' = [listeners EXCEPT ![i] = x]
    BY <1>1, <1>2 DEF EndRegistration
<1>5. QED  BY <1>1, <1>3, <1>4

LEMMA ConfigTypesStep ==
    ASSUME ConfigTypes, RegistryInv, [Next]_vars
    PROVE  ConfigTypes'
<1>a. watch \in WatchState
    BY DEF ConfigTypes
<1>b. Len(listeners) \in Nat
    BY DEF ConfigTypes
<1>1. CASE UNCHANGED configVars
    BY <1>1 DEF configVars, ConfigTypes, ListOf
<1>2. CASE FileStep
  <2>1. UNCHANGED <<config, changes, updates, listeners>>
      BY <1>2, FileStepsKeepUpdates
  <2>2. watch' \in WatchState
      BY <1>2, <1>a, FileStepsKeepWatch
  <2>3. QED  BY <2>1, <2>2 DEF ConfigTypes, ListOf
<1>3. CASE BeginRegistration
  <2>1. /\ listeners' \in Seq(Listener) /\ Len(listeners') = Len(listeners) + 1
        /\ UNCHANGED <<changes, updates, watch>>
      BY <1>3, BeginFacts
  <2>2. \A u \in DOMAIN updates : updates[u].step = "calls" => ListOf(Len(listeners'), updates[u].calls)
    <3>1. Len(listeners') \in Nat /\ Len(listeners) <= Len(listeners')
        BY <1>b, <2>1
    <3>2. QED  BY <1>b, <3>1, ListKept DEF ConfigTypes
  <2>3. QED  BY <2>1, <2>2 DEF ConfigTypes
<1>3b. CASE RegisterCallback
  <2>1. /\ listeners' \in Seq(Listener) /\ Len(listeners') = Len(listeners)
        /\ UNCHANGED <<changes, updates, watch>>
    <3>1. PICK i \in registering : EndRegistration(i)
        BY <1>3b DEF RegisterCallback, EndRegistration
    <3>2. QED  BY <3>1, EndFacts DEF EndRegistration
  <2>2. \A u \in DOMAIN updates : updates[u].step = "calls" => ListOf(Len(listeners'), updates[u].calls)
      BY <2>1 DEF ConfigTypes
  <2>3. QED  BY <2>1, <2>2 DEF ConfigTypes
<1>4. ASSUME NEW u, NEW new, u \in Updaters, Submit(u, new)
      PROVE  ConfigTypes'
  <2>1. /\ updates' = [updates EXCEPT ![u] = [step |-> "swap", new |-> new]]
        /\ UNCHANGED <<changes, listeners, watch>>
      BY <1>4 DEF Submit
  <2>2. u \in DOMAIN updates /\ changes' \in Nat /\ watch' \in WatchState
      BY <1>4, <1>a, <2>1 DEF ConfigTypes
  <2>3. QED  BY <2>1, <2>2, UpdateKeepsTypes
<1>5. ASSUME NEW u \in DOMAIN updates, NEW new, Install(u, new), UNCHANGED <<listeners, watch>>
      PROVE  ConfigTypes'
  <2>1. /\ updates' = [updates EXCEPT ![u] = [step |-> "call", change |-> changes + 1]]
        /\ changes' = changes + 1
      BY <1>5 DEF Install
  <2>2. changes + 1 \in Nat
      BY DEF ConfigTypes
  <2>3. [step |-> "call", change |-> changes + 1] \in CallState
      BY <2>2 DEF CallState
  <2>4. QED  BY <1>5, <1>a, <2>1, <2>2, <2>3, UpdateKeepsTypes
<1>6. CASE ApplyProfile \/ ApplyEnvironmentOverrides
    BY <1>4, <1>6 DEF ApplyProfile, ApplyEnvironmentOverrides
<1>7. CASE Swap
    BY <1>5, <1>7 DEF Swap
<1>8. CASE UpdateConfigField
  <2>1. PICK u, new : u \in Updaters /\ Install(u, new) /\ UNCHANGED <<listeners, watch>>
      BY <1>8 DEF UpdateConfigField
  <2>2. u \in DOMAIN updates
      BY <2>1 DEF ConfigTypes
  <2>3. QED  BY <1>5, <2>1, <2>2
<1>9. CASE BeginCalls
  <2>1. PICK u \in DOMAIN updates :
            /\ updates[u].step = "call"
            /\ updates' = [updates EXCEPT ![u] = [step |-> "calls", change |-> updates[u].change,
                                                  calls |-> callbacks, next |-> 1]]
            /\ UNCHANGED <<changes, listeners, watch>>
      BY <1>9 DEF BeginCalls
  <2>2. updates[u].change \in Nat
      BY <2>1 DEF ConfigTypes, CallState
  <2>3. PICK x \in CallsState : /\ updates' = [updates EXCEPT ![u] = x]
                                /\ ListOf(Len(listeners), x.calls) /\ x.next = 1 /\ x.step = "calls"
    <3> DEFINE x == [step |-> "calls", change |-> updates[u].change, calls |-> callbacks, next |-> 1]
    <3>1. callbacks \in Seq(Nat) /\ ListOf(Len(listeners), callbacks)
      <4>1. callbacks \in Seq(1..Len(listeners)) /\ 1..Len(listeners) \subseteq Nat
          BY DEF RegistryInv, ListOf
      <4>2. QED  BY <4>1 DEF RegistryInv
    <3>2. x \in CallsState /\ x.calls = callbacks /\ x.next = 1 /\ x.step = "calls"
        BY <2>2, <3>1 DEF CallsState
    <3>3. QED  BY <2>1, <3>1, <3>2
  <2>4. changes' \in Nat /\ listeners' = listeners /\ watch' \in WatchState
      BY <1>a, <2>1 DEF ConfigTypes
  <2>5. ListOf(Len(listeners), x.calls) /\ x.next >= 1 /\ x.step /= "call"
      BY <2>3
  <2>6. QED  BY <2>3, <2>4, <2>5, UpdateKeepsTypes
<1>10. CASE CallListener
  <2>1. PICK u \in DOMAIN updates :
            /\ updates[u].step = "calls" /\ updates[u].next <= Len(updates[u].calls)
            /\ listeners' = [listeners EXCEPT ![updates[u].calls[updates[u].next]].told = Append(@, updates[u].change)]
            /\ updates' = [updates EXCEPT ![u].next = updates[u].next + 1]
            /\ UNCHANGED <<changes, watch>>
      BY <1>10 DEF CallListener
  <2>2. /\ updates[u] \in CallsState /\ updates[u].next \in Nat /\ updates[u].next >= 1
        /\ updates[u].change \in Nat /\ ListOf(Len(listeners), updates[u].calls)
      BY <2>1 DEF ConfigTypes, CallsState
  <2>2b. updates[u].calls[updates[u].next] \in 1..Len(listeners)
    <3>1. updates[u].calls \in Seq(1..Len(listeners))
        BY <2>2 DEF ListOf
    <3>2. QED  BY <2>1, <2>2, <3>1
  <2>3. PICK i \in 1..Len(listeners), n \in Nat, x \in CallsState :
            /\ n = updates[u].change
            /\ listeners' = [listeners EXCEPT ![i].told = Append(@, n)]
            /\ updates' = [updates EXCEPT ![u] = x]
            /\ x.step = "calls" /\ x.calls = updates[u].calls /\ x.next >= 1
    <3> DEFINE x == [updates[u] EXCEPT !.next = updates[u].next + 1]
    <3>1. /\ x \in CallsState /\ x.step = "calls" /\ x.calls = updates[u].calls
          /\ x.next >= 1
        BY SMTT(60), <2>1, <2>2 DEF CallsState
    <3>2. updates' = [updates EXCEPT ![u] = x]
        BY <2>1
    <3> HIDE DEF x
    <3>3. QED  BY <2>1, <2>2, <2>2b, <3>1, <3>2
  <2>4. listeners' \in Seq(Listener) /\ Len(listeners') = Len(listeners)
    <3>1. listeners[i] \in Listener
        BY DEF ConfigTypes
    <3>2. [listeners[i] EXCEPT !.told = Append(listeners[i].told, n)] \in Listener
      <4>1. listeners[i].told \in Seq(Nat)
          BY <3>1 DEF Listener
      <4>2. Append(listeners[i].told, n) \in Seq(Nat)
          BY <4>1
      <4>3. QED  BY <3>1, <4>2 DEF Listener
    <3>3. listeners' = [listeners EXCEPT ![i] = [listeners[i] EXCEPT !.told = Append(listeners[i].told, n)]]
        BY <2>3
    <3>4. QED  BY <3>2, <3>3 DEF ConfigTypes
  <2>5. \A v \in DOMAIN updates : updates'[v] = IF v = u THEN x ELSE updates[v]
      BY <2>3
  <2>6. DOMAIN updates' = DOMAIN updates
      BY <2>3
  <2>7. \A v \in DOMAIN updates' : updates'[v].step = "call" => updates'[v] \in CallState
      BY <2>3, <2>5, <2>6 DEF ConfigTypes
  <2>8. \A v \in DOMAIN updates' : updates'[v].step = "calls" =>
            /\ updates'[v] \in CallsState
            /\ ListOf(Len(listeners'), updates'[v].calls) /\ updates'[v].next >= 1
    <3>1. \A v \in DOMAIN updates : updates[v].step = "calls" => ListOf(Len(listeners), updates[v].calls)
        BY DEF ConfigTypes
    <3>2. \A v \in DOMAIN updates' : updates'[v].step = "calls" => ListOf(Len(listeners), updates'[v].calls)
        BY <2>2, <2>3, <2>5, <2>6, <3>1
    <3>3. \A v \in DOMAIN updates' : updates'[v].step = "calls" => ListOf(Len(listeners'), updates'[v].calls)
        BY <2>4, <3>2
    <3>4. QED  BY <2>3, <2>5, <2>6, <3>3 DEF ConfigTypes
  <2>9. QED  BY <2>1, <2>4, <2>6, <2>7, <2>8 DEF ConfigTypes
<1>11. CASE UpdateReturns
  <2>1. PICK u \in DOMAIN updates : updates' = [updates EXCEPT ![u] = Idle] /\ UNCHANGED <<changes, listeners, watch>>
      BY <1>11 DEF UpdateReturns
  <2>2. Idle.step = "idle"
      BY DEF Idle
  <2>3. changes' \in Nat
      BY <2>1 DEF ConfigTypes
  <2>4. QED  BY <1>a, <2>1, <2>2, <2>3, UpdateKeepsTypes
<1>12. CASE ReadGlobal
  <2>1. PICK c, x, b :
            /\ b \in SUBSET Files
            /\ updates' = [updates EXCEPT ![Watcher] = x]
            /\ x = Idle \/ x = [step |-> "load", global |-> c]
            /\ watch' = [watch EXCEPT !.timer = FALSE, !.barred = b]
            /\ UNCHANGED <<changes, listeners>>
    <3> DEFINE failed == configFiles["global"] = Unreadable
               c == configFiles["global"]
               x == IF failed THEN Idle ELSE [step |-> "load", global |-> c]
               b == IF failed THEN {"local"} ELSE {}
    <3>1. /\ updates' = [updates EXCEPT ![Watcher] = x]
          /\ watch' = [watch EXCEPT !.timer = FALSE, !.barred = b]
          /\ UNCHANGED <<changes, listeners>>
        BY <1>12 DEF ReadGlobal
    <3>2. b \in SUBSET Files
        BY DEF Files
    <3>3. x = Idle \/ x = [step |-> "load", global |-> c]
        OBVIOUS
    <3> HIDE DEF x, b
    <3>4. QED  BY <3>1, <3>2, <3>3
  <2>2. Watcher \in DOMAIN updates /\ changes' \in Nat /\ watch' \in WatchState
      BY <1>a, <2>1 DEF ConfigTypes, WatchState
  <2>2b. x.step \in {"idle", "load"}
      BY <2>1 DEF Idle
  <2>3. QED  BY <2>1, <2>2, <2>2b, UpdateKeepsTypes
<1>13. CASE ReadLocal
  <2>1. PICK new, x : /\ updates' = [updates EXCEPT ![Watcher] = x]
                      /\ x = [step |-> "swap", new |-> new] \/ x = Idle
                      /\ UNCHANGED <<changes, listeners, watch>>
    <3> DEFINE new == LoadConfig(updates[Watcher].global, configFiles["local"])
               x == IF (configFiles["local"] /= Unreadable /\ ValidateConfig(new)) /\ changes < MaxUpdates
                    THEN [step |-> "swap", new |-> new] ELSE Idle
    <3>1. updates' = [updates EXCEPT ![Watcher] = x] /\ UNCHANGED <<changes, listeners, watch>>
        BY <1>13 DEF ReadLocal
    <3>2. x = [step |-> "swap", new |-> new] \/ x = Idle
        OBVIOUS
    <3>3. QED  BY <3>1, <3>2
  <2>2. x.step = "swap" \/ x.step = "idle"
      BY <2>1 DEF Idle
  <2>3. Watcher \in DOMAIN updates /\ changes' \in Nat /\ watch' \in WatchState
      BY <1>a, <2>1 DEF ConfigTypes
  <2>4. QED  BY <2>1, <2>2, <2>3, UpdateKeepsTypes
<1>14. ConfigNext \/ UNCHANGED configVars
    BY StepOfAPart
<1>15. QED
    BY <1>1, <1>2, <1>3, <1>3b, <1>6, <1>7, <1>8, <1>9, <1>10, <1>11, <1>12, <1>13, <1>14 DEF ConfigNext, FileStep

-----------------------------------------------------------------------------
(***************************************************************************)
(* The configuration: registrations.                                       *)
(***************************************************************************)
LEMMA EmptyRegistry ==
    ASSUME listeners = <<>>, callbacks = <<>>, registering = {}
    PROVE  RegistryInv
BY DEF RegistryInv, ListOf, Distinct

LEMMA RegistryKept ==
    ASSUME RegistryInv, UNCHANGED <<callbacks, registering>>, Len(listeners') = Len(listeners),
           \A i \in 1..Len(listeners) : listeners'[i].seen = listeners[i].seen /\ listeners'[i].alone = listeners[i].alone
    PROVE  RegistryInv'
<1>1. \A s : ListOf(Len(listeners'), s) <=> ListOf(Len(listeners), s)
    OBVIOUS
<1>2. \A i \in 1..Len(listeners) : Registered(i)' <=> Registered(i)
    BY DEF Registered
<1>3. \A i \in registering : i \in 1..Len(listeners)
    BY DEF RegistryInv
<1>4. QED  BY <1>1, <1>2, <1>3 DEF RegistryInv

LEMMA RegistrationBegins ==
    ASSUME ConfigTypes, RegistryInv, BeginRegistration
    PROVE  RegistryInv'
<1>1. PICK m : m = Len(listeners) + 1 /\ Len(listeners) \in Nat
    BY DEF ConfigTypes
<1>2. /\ Len(listeners') = m /\ registering' = registering \cup {m} /\ callbacks' = callbacks
      /\ listeners'[m].seen = callbacks /\ listeners'[m].alone = (registering = {})
      /\ \A i \in 1..Len(listeners) :
             /\ listeners'[i].seen = listeners[i].seen
             /\ listeners'[i].alone = (listeners[i].alone /\ i \notin registering)
    BY <1>1, BeginFacts
<1>3. registering \subseteq 1..Len(listeners) /\ m \notin 1..Len(listeners) /\ m \in 1..m
    BY <1>1 DEF RegistryInv
<1>4. \A s : ListOf(Len(listeners), s) => ListOf(Len(listeners'), s) /\ ~ In(m, s)
  <2>1. ASSUME NEW s, ListOf(Len(listeners), s)
        PROVE  ListOf(m, s) /\ ~ In(m, s)
    <3>1. s \in Seq(1..Len(listeners))
        BY <2>1 DEF ListOf
    <3>2. ~ In(m, s)
        BY <1>1, <3>1 DEF In
    <3>3. ListOf(m, s)
        BY <1>1, <2>1, ListKept
    <3>4. QED  BY <3>2, <3>3
  <2>2. QED  BY <1>2, <2>1
<1>5. registering' \subseteq 1..m
  <2>1. \A i \in 1..Len(listeners) : i \in 1..m
      BY <1>1
  <2>2. QED  BY <1>2, <1>3, <2>1
<1>6. \A i \in registering' : ListOf(Len(listeners'), listeners'[i].seen) /\ ~ In(i, listeners'[i].seen)
  <2>1. \A i \in registering : ListOf(Len(listeners), listeners[i].seen) /\ ~ In(i, listeners[i].seen)
      BY DEF RegistryInv
  <2>2. ListOf(Len(listeners), callbacks)
      BY DEF RegistryInv
  <2>3. QED  BY <1>2, <1>3, <1>4, <2>1, <2>2
<1>7. \A i, j \in registering' : listeners'[i].alone => i = j
    BY <1>2, <1>3
<1>8. \A i \in 1..m : Registered(i)' => i \in 1..Len(listeners) /\ Registered(i)
  <2>1. \A i \in 1..m : i = m \/ i \in 1..Len(listeners)
      BY <1>1
  <2>2. QED  BY <1>2, <2>1 DEF Registered
<1>9. \A i \in 1..m : Registered(i)' =>
          In(i, callbacks) /\ \A j \in registering' : In(i, listeners'[j].seen)
    BY <1>2, <1>3, <1>8 DEF RegistryInv
<1>10. ListOf(Len(listeners'), callbacks')
    BY <1>2, <1>4 DEF RegistryInv
<1>11. QED  BY <1>2, <1>5, <1>6, <1>7, <1>9, <1>10 DEF RegistryInv

LEMMA AppendListed ==
    ASSUME NEW s, NEW i \in 1..Len(listeners), ListOf(Len(listeners), s), ~ In(i, s)
    PROVE  ListOf(Len(listeners), Append(s, i)) /\ In(i, Append(s, i)) /\ \A j : In(j, s) => In(j, Append(s, i))
<1>1. s \in Seq(1..Len(listeners)) /\ DOMAIN s = 1..Len(s) /\ Len(s) \in Nat
    BY DEF ListOf
<1>2. PICK t : t = Append(s, i)
    OBVIOUS
<1>3. /\ t \in Seq(1..Len(listeners)) /\ DOMAIN t = 1..(Len(s) + 1) /\ t[Len(s) + 1] = i
      /\ \A k \in 1..Len(s) : t[k] = s[k] /\ k \in DOMAIN t
    BY <1>1, <1>2
<1>4. \A k \in DOMAIN t : k \in 1..Len(s) \/ k = Len(s) + 1
    BY <1>1, <1>3
<1>5. \A k \in 1..Len(s) : t[k] /= i
    BY <1>1, <1>3 DEF In
<1>6. Distinct(t)
  <2>1. ASSUME NEW k \in DOMAIN t, NEW l \in DOMAIN t, t[k] = t[l]
        PROVE  k = l
    <3>1. CASE k \in 1..Len(s) /\ l \in 1..Len(s)
        BY <1>1, <1>3, <2>1, <3>1 DEF ListOf, Distinct
    <3>2. CASE k = Len(s) + 1 \/ l = Len(s) + 1
        BY <1>3, <1>4, <1>5, <2>1, <3>2
    <3>3. QED  BY <1>4, <3>1, <3>2
  <2>2. QED  BY <2>1 DEF Distinct
<1>7. In(i, t)
  <2>1. Len(s) + 1 \in DOMAIN t
      BY <1>1, <1>3
  <2>2. QED  BY <1>3, <2>1 DEF In
<1>8. \A j : In(j, s) => In(j, t)
    BY <1>1, <1>3 DEF In
<1>9. QED  BY <1>2, <1>3, <1>6, <1>7, <1>8 DEF ListOf

LEMMA RegistrationEnds ==
    ASSUME ConfigTypes, RegistryInv, NEW i \in registering, EndRegistration(i)
    PROVE  RegistryInv'
<1>1. /\ Len(listeners') = Len(listeners) /\ i \in 1..Len(listeners)
      /\ \A j \in 1..Len(listeners) : j /= i => listeners'[j] = listeners[j]
      /\ listeners'[i].alone = listeners[i].alone
      /\ registering' = registering \ {i} /\ callbacks' = Append(listeners[i].seen, i)
    BY EndFacts DEF EndRegistration
<1>2. ListOf(Len(listeners), listeners[i].seen) /\ ~ In(i, listeners[i].seen)
    BY DEF RegistryInv
<1>3. PICK t : /\ callbacks' = t /\ ListOf(Len(listeners), t) /\ In(i, t)
               /\ \A j : In(j, listeners[i].seen) => In(j, t)
    BY <1>1, <1>2, AppendListed
<1>4. \A s : ListOf(Len(listeners'), s) <=> ListOf(Len(listeners), s)
    BY <1>1
<1>5. registering \subseteq 1..Len(listeners)
    BY DEF RegistryInv
<1>6. \A j \in registering' : j \in registering /\ j /= i /\ listeners'[j] = listeners[j]
    BY <1>1, <1>5
<1>7. \A j \in registering' : ListOf(Len(listeners'), listeners'[j].seen) /\ ~ In(j, listeners'[j].seen)
    BY <1>4, <1>6 DEF RegistryInv
<1>8. \A j, k \in registering' : listeners'[j].alone => j = k
    BY <1>6 DEF RegistryInv
<1>9. ASSUME NEW j \in 1..Len(listeners), Registered(j)'
      PROVE  In(j, t) /\ \A k \in registering' : In(j, listeners'[k].seen)
  <2>1. CASE j = i
    <3>1. listeners[i].alone
        BY <1>1, <1>9, <2>1 DEF Registered
    <3>2. registering' = {}
        BY <1>1, <3>1 DEF RegistryInv
    <3>3. QED  BY <1>3, <2>1, <3>2
  <2>2. CASE j /= i
    <3>1. Registered(j)
        BY <1>1, <1>9, <2>2 DEF Registered
    <3>2. \A k \in registering : In(j, listeners[k].seen)
        BY <3>1 DEF RegistryInv
    <3>3. QED  BY <1>3, <1>6, <3>2
  <2>3. QED  BY <2>1, <2>2
<1>10. ListOf(Len(listeners'), callbacks')
    BY <1>3, <1>4
<1>11. QED  BY <1>1, <1>3, <1>5, <1>6, <1>7, <1>8, <1>9, <1>10 DEF RegistryInv

LEMMA RegistryStep ==
    ASSUME ConfigTypes, RegistryInv, [Next]_vars
    PROVE  RegistryInv'
<1>a. ASSUME UNCHANGED <<listeners, callbacks, registering>>
      PROVE  RegistryInv'
    BY <1>a, RegistryKept
<1>1. CASE UNCHANGED configVars
    BY <1>a, <1>1 DEF configVars
<1>2. CASE FileStep
    BY <1>a, <1>2, FileStepsKeepUpdates
<1>3. CASE BeginRegistration
    BY <1>3, RegistrationBegins
<1>4. CASE RegisterCallback
    BY <1>4, RegistrationEnds DEF RegisterCallback, EndRegistration
<1>5. CASE ApplyProfile \/ ApplyEnvironmentOverrides
    BY <1>a, <1>5 DEF ApplyProfile, ApplyEnvironmentOverrides, Submit
<1>6. CASE Swap \/ UpdateConfigField \/ BeginCalls \/ UpdateReturns \/ ReadGlobal \/ ReadLocal
    BY <1>a, <1>6 DEF Swap, UpdateConfigField, BeginCalls, UpdateReturns, ReadGlobal, ReadLocal
<1>7. CASE CallListener
  <2>1. PICK j, n : /\ listeners' = [listeners EXCEPT ![j].told = Append(@, n)]
                    /\ UNCHANGED <<callbacks, registering>>
      BY <1>7 DEF CallListener
  <2>2. listeners \in Seq(Listener)
      BY DEF ConfigTypes
  <2>3. PICK x : x = [listeners[j] EXCEPT !.told = Append(@, n)]
      OBVIOUS
  <2>4. listeners' = [listeners EXCEPT ![j] = x]
      BY <2>1, <2>3
  <2>5. Len(listeners') = Len(listeners)
      BY <2>2, <2>4
  <2>6. \A i \in 1..Len(listeners) : listeners'[i].seen = listeners[i].seen /\ listeners'[i].alone = listeners[i].alone
    <3>1. ASSUME NEW i \in 1..Len(listeners)
          PROVE  listeners'[i].seen = listeners[i].seen /\ listeners'[i].alone = listeners[i].alone
      <4>1. listeners[i] \in Listener
          BY <2>2
      <4>2. CASE i /= j
          BY <2>2, <2>4, <4>2
      <4>3. CASE i = j
        <5>1. listeners'[i] = x
            BY <2>2, <2>4, <4>3
        <5>2. QED  BY <2>3, <4>1, <4>3, <5>1 DEF Listener
      <4>4. QED  BY <4>2, <4>3
    <3>2. QED  BY <3>1
  <2>7. QED  BY <2>1, <2>5, <2>6, RegistryKept
<1>8. ConfigNext \/ UNCHANGED configVars
    BY StepOfAPart
<1>9. QED  BY <1>1, <1>2, <1>3, <1>4, <1>5, <1>6, <1>7, <1>8 DEF ConfigNext, FileStep

-----------------------------------------------------------------------------
(***************************************************************************)
(* The configuration: every listener is told.                              *)
(***************************************************************************)

\* Nothing that matters to the listeners moves.
LEMMA SameOwed ==
    ASSUME TellInv, changes' = changes, listeners' = listeners, registering' = registering,
           DOMAIN updates' = DOMAIN updates,
           \A v \in DOMAIN updates :
               /\ Tells(v)' => Tells(v) /\ updates'[v].change = updates[v].change
               /\ \A i \in 1..Len(listeners) :
                      /\ Owes(v, i)' => Owes(v, i)
                      /\ Owes(v, i) => updates'[v].change = updates[v].change
                      /\ Registered(i) /\ Owes(v, i) => Owes(v, i)'
    PROVE  TellInv'
<1>1. \A i : Told(i)' = Told(i) /\ (Registered(i)' <=> Registered(i))
    BY DEF Told, Registered
<1>2. TellsItsOwn'
    BY DEF TellInv, TellsItsOwn
<1>3. ToldOnce'
    BY <1>1 DEF TellInv, ToldOnce
<1>4. ToldOrOwed'
  <2>1. ASSUME NEW i \in 1..Len(listeners), NEW n \in 1..changes, Registered(i), n > listeners[i].since
        PROVE  n \in Told(i) \/ \E v \in DOMAIN updates : Owes(v, i)' /\ updates'[v].change = n
      BY <2>1 DEF TellInv, ToldOrOwed
  <2>2. QED  BY <1>1, <2>1 DEF ToldOrOwed
<1>5. QED  BY <1>2, <1>3, <1>4 DEF TellInv

\* An update that owes nothing becomes one that does not tell.
LEMMA QuietUpdate ==
    ASSUME TellInv, NEW u \in DOMAIN updates, NEW x,
           updates' = [updates EXCEPT ![u] = x], x.step \notin {"call", "calls"},
           \A i \in 1..Len(listeners) : ~ Owes(u, i),
           changes' = changes, listeners' = listeners, registering' = registering
    PROVE  TellInv'
<1>1. DOMAIN updates' = DOMAIN updates
    BY DEF TellInv
<1>2. ~ Tells(u)' /\ \A i : ~ Owes(u, i)'
    BY DEF Tells, Owes
<1>3. \A v \in DOMAIN updates : v /= u => updates'[v] = updates[v]
    OBVIOUS
<1>4. \A v \in DOMAIN updates : v /= u => /\ Tells(v)' <=> Tells(v)
                                         /\ \A i : Owes(v, i)' <=> Owes(v, i)
    BY <1>3 DEF Tells, Owes
<1>5. QED  BY <1>1, <1>2, <1>3, <1>4, SameOwed

\* A new change is owed to every listener.
LEMMA NewChange ==
    ASSUME ConfigTypes, TellInv, NEW u \in DOMAIN updates, NEW new, ~ Tells(u),
           Install(u, new), listeners' = listeners, registering' = registering
    PROVE  TellInv'
<1>1. /\ updates' = [updates EXCEPT ![u] = [step |-> "call", change |-> changes + 1]]
      /\ changes' = changes + 1 /\ changes \in Nat
    BY DEF Install, ConfigTypes
<1>2. DOMAIN updates' = DOMAIN updates
    BY <1>1
<1>3. updates'[u].step = "call" /\ updates'[u].change = changes'
    BY <1>1
<1>4. \A v \in DOMAIN updates : v /= u => updates'[v] = updates[v]
    BY <1>1
<1>5. \A v \in DOMAIN updates : v /= u => /\ Tells(v)' <=> Tells(v)
                                         /\ \A i : Owes(v, i)' <=> Owes(v, i)
    BY <1>4 DEF Tells, Owes
<1>6. \A i : Owes(u, i)' /\ ~ Owes(u, i) /\ Told(i)' = Told(i)
    BY <1>3 DEF Owes, Told, Tells
<1>7. Tells(u)'
    BY <1>3 DEF Tells
<1>8. TellsItsOwn'
  <2>1. \A v \in DOMAIN updates : v /= u /\ Tells(v)' =>
            updates'[v].change = updates[v].change /\ updates[v].change \in 1..changes
      BY <1>4, <1>5 DEF TellInv, TellsItsOwn
  <2>2. \A v \in DOMAIN updates : v /= u /\ Tells(v)' => updates'[v].change /= updates'[u].change
      BY <1>1, <1>3, <2>1
  <2>3. ASSUME NEW v \in DOMAIN updates, Tells(v)'
        PROVE  updates'[v].change \in 1..changes'
      BY <1>1, <1>3, <2>1, <2>3
  <2>4. ASSUME NEW v \in DOMAIN updates, NEW w \in DOMAIN updates, Tells(v)', Tells(w)',
               updates'[v].change = updates'[w].change
        PROVE  v = w
    <3>1. CASE v = u \/ w = u
        BY <2>2, <2>4, <3>1
    <3>2. CASE v /= u /\ w /= u
        BY <1>5, <2>1, <2>4, <3>2 DEF TellInv, TellsItsOwn
    <3>3. QED  BY <3>1, <3>2
  <2>5. QED  BY <1>2, <2>3, <2>4 DEF TellsItsOwn
<1>9. ToldOnce'
  <2>1. ASSUME NEW i \in 1..Len(listeners)
        PROVE  /\ Told(i) \subseteq 1..changes'
               /\ changes' \notin Told(i)
      BY <1>1 DEF TellInv, ToldOnce
  <2>2. ASSUME NEW i \in 1..Len(listeners), NEW v \in DOMAIN updates, Owes(v, i)'
        PROVE  updates'[v].change \notin Told(i)
    <3>1. CASE v = u
        BY <1>3, <2>1, <3>1
    <3>2. CASE v /= u
        BY <1>4, <1>5, <2>2, <3>2 DEF TellInv, ToldOnce
    <3>3. QED  BY <3>1, <3>2
  <2>3. QED  BY <1>2, <1>6, <2>1, <2>2 DEF TellInv, ToldOnce
<1>10. ToldOrOwed'
  <2>0. \A i : Registered(i)' <=> Registered(i)
      BY DEF Registered
  <2>1. ASSUME NEW i \in 1..Len(listeners), NEW n \in 1..changes', Registered(i), n > listeners[i].since
        PROVE  n \in Told(i) \/ \E v \in DOMAIN updates : Owes(v, i)' /\ updates'[v].change = n
    <3>1. CASE n = changes'
        BY <1>3, <1>6, <3>1
    <3>2. CASE n /= changes'
      <4>1. n \in 1..changes
          BY <1>1, <3>2
      <4>2. n \in Told(i) \/ \E v \in DOMAIN updates : Owes(v, i) /\ updates[v].change = n
          BY <2>1, <4>1 DEF TellInv, ToldOrOwed
      <4>3. QED  BY <1>4, <1>5, <1>6, <4>2
    <3>3. QED  BY <3>1, <3>2
  <2>2. QED  BY <1>2, <1>6, <2>0, <2>1 DEF ToldOrOwed
<1>11. QED  BY <1>8, <1>9, <1>10 DEF TellInv

\* A listener was told of nothing yet, or what it was; one whose registration is over is
\* owed what it was, or nothing.
LEMMA OtherListeners ==
    ASSUME ConfigTypes, TellInv, changes' = changes, updates' = updates,
           \A i \in 1..Len(listeners') :
               /\ \/ listeners'[i].told = <<>>
                  \/ i \in 1..Len(listeners) /\ listeners'[i].told = listeners[i].told
               /\ Registered(i)' =>
                      \/ listeners'[i].since = changes
                      \/ /\ i \in 1..Len(listeners) /\ Registered(i)
                         /\ listeners'[i].told = listeners[i].told /\ listeners'[i].since = listeners[i].since
    PROVE  TellInv'
<1>1. \A u : (Tells(u)' <=> Tells(u)) /\ \A i : Owes(u, i)' <=> Owes(u, i)
    BY DEF Tells, Owes
<1>2. changes \in Nat
    BY DEF ConfigTypes
<1>3. TellsItsOwn'
    BY <1>1 DEF TellInv, TellsItsOwn
<1>4. ToldOnce'
  <2>1. ASSUME NEW i \in 1..Len(listeners')
        PROVE  /\ Told(i)' \subseteq 1..changes
               /\ \A k, l \in DOMAIN listeners'[i].told :
                      listeners'[i].told[k] = listeners'[i].told[l] => k = l
               /\ \A u \in DOMAIN updates : Owes(u, i)' => updates[u].change \notin Told(i)'
    <3>1. CASE listeners'[i].told = <<>>
      <4>1. DOMAIN listeners'[i].told = {}
          BY <3>1
      <4>2. Told(i)' = {}
          BY <4>1 DEF Told
      <4>3. QED  BY <4>1, <4>2
    <3>2. CASE i \in 1..Len(listeners) /\ listeners'[i].told = listeners[i].told
      <4>1. Told(i)' = Told(i)
          BY <3>2 DEF Told
      <4>2. QED  BY <1>1, <3>2, <4>1 DEF TellInv, ToldOnce
    <3>3. QED  BY <3>1, <3>2
  <2>2. QED  BY <2>1 DEF ToldOnce
<1>5. ToldOrOwed'
  <2>1. ASSUME NEW i \in 1..Len(listeners'), NEW n \in 1..changes, Registered(i)', n > listeners'[i].since
        PROVE  n \in Told(i)' \/ \E u \in DOMAIN updates : Owes(u, i)' /\ updates[u].change = n
    <3>1. /\ i \in 1..Len(listeners) /\ Registered(i)
          /\ listeners'[i].told = listeners[i].told /\ listeners'[i].since = listeners[i].since
        BY <1>2, <2>1
    <3>2. Told(i)' = Told(i)
        BY <3>1 DEF Told
    <3>3. n \in Told(i) \/ \E u \in DOMAIN updates : Owes(u, i) /\ updates[u].change = n
        BY <2>1, <3>1 DEF TellInv, ToldOrOwed
    <3>4. QED  BY <1>1, <3>2, <3>3
  <2>2. QED  BY <2>1 DEF ToldOrOwed
<1>6. QED  BY <1>3, <1>4, <1>5 DEF TellInv

LEMMA NewListener ==
    ASSUME ConfigTypes, RegistryInv, TellInv, BeginRegistration
    PROVE  TellInv'
<1>1. PICK m : m = Len(listeners) + 1 /\ Len(listeners) \in Nat
    BY DEF ConfigTypes
<1>2. /\ Len(listeners') = m /\ registering' = registering \cup {m}
      /\ changes' = changes /\ updates' = updates
      /\ listeners'[m].told = <<>>
      /\ \A i \in 1..Len(listeners) :
             /\ listeners'[i].since = listeners[i].since /\ listeners'[i].told = listeners[i].told
             /\ listeners'[i].alone = (listeners[i].alone /\ i \notin registering)
    BY <1>1, BeginFacts
<1>3. ASSUME NEW i \in 1..m
      PROVE  /\ \/ listeners'[i].told = <<>>
                \/ i \in 1..Len(listeners) /\ listeners'[i].told = listeners[i].told
             /\ Registered(i)' =>
                    \/ listeners'[i].since = changes
                    \/ /\ i \in 1..Len(listeners) /\ Registered(i)
                       /\ listeners'[i].told = listeners[i].told /\ listeners'[i].since = listeners[i].since
  <2>1. CASE i = m
      BY <1>2, <2>1 DEF Registered
  <2>2. CASE i \in 1..Len(listeners)
      BY <1>2, <2>2 DEF Registered
  <2>3. i = m \/ i \in 1..Len(listeners)
      BY <1>1
  <2>4. QED  BY <2>1, <2>2, <2>3
<1>4. QED  BY <1>2, <1>3, OtherListeners

LEMMA ListenerRegistered ==
    ASSUME ConfigTypes, RegistryInv, TellInv, RegisterCallback
    PROVE  TellInv'
<1>1. PICK i \in registering : EndRegistration(i)
    BY DEF RegisterCallback, EndRegistration
<1>2. /\ Len(listeners') = Len(listeners)
      /\ \A j \in 1..Len(listeners) : j /= i => listeners'[j] = listeners[j]
      /\ listeners'[i].since = changes /\ listeners'[i].told = listeners[i].told
      /\ registering' = registering \ {i} /\ changes' = changes /\ updates' = updates
    BY <1>1, EndFacts DEF EndRegistration
<1>3. ASSUME NEW j \in 1..Len(listeners')
      PROVE  /\ j \in 1..Len(listeners) /\ listeners'[j].told = listeners[j].told
             /\ Registered(j)' =>
                    \/ listeners'[j].since = changes
                    \/ Registered(j) /\ listeners'[j].since = listeners[j].since
    BY <1>2 DEF Registered
<1>4. QED  BY <1>2, <1>3, OtherListeners

\* One listener is told of the change of one update.
LEMMA ListenerTold ==
    ASSUME ConfigTypes, TellInv, CallListener
    PROVE  TellInv'
<1>1. PICK u \in DOMAIN updates :
          /\ updates[u].step = "calls" /\ updates[u].next <= Len(updates[u].calls)
          /\ listeners' = [listeners EXCEPT ![updates[u].calls[updates[u].next]].told = Append(@, updates[u].change)]
          /\ updates' = [updates EXCEPT ![u].next = updates[u].next + 1]
          /\ changes' = changes /\ registering' = registering
    BY DEF CallListener
<1>2. /\ updates[u] \in CallsState /\ updates[u].change \in Nat /\ updates[u].next \in Nat
      /\ ListOf(Len(listeners), updates[u].calls) /\ updates[u].next >= 1
    BY <1>1 DEF ConfigTypes, CallsState
<1>3. listeners \in Seq(Listener) /\ Len(listeners) \in Nat
    BY DEF ConfigTypes
<1>4a. PICK calls \in Seq(1..Len(listeners)), n \in Nat, at \in Nat \ {0} :
          /\ calls = updates[u].calls /\ n = updates[u].change /\ at = updates[u].next
          /\ at \in DOMAIN calls /\ \A k, l \in DOMAIN calls : calls[k] = calls[l] => k = l
  <2>1. updates[u].calls \in Seq(1..Len(listeners))
      BY <1>2 DEF ListOf
  <2>2. updates[u].next \in DOMAIN updates[u].calls
      BY <1>1, <1>2, <2>1
  <2>3. QED  BY <1>1, <1>2, <2>1, <2>2 DEF ListOf, Distinct
<1>4. PICK j \in 1..Len(listeners) : j = calls[at]
    BY <1>4a
<1>5. /\ \A v \in DOMAIN updates : v /= u => updates'[v] = updates[v]
      /\ updates'[u].step = "calls" /\ updates'[u].change = n
      /\ updates'[u].next = at + 1 /\ updates'[u].calls = calls
      /\ DOMAIN updates' = DOMAIN updates
    BY <1>1, <1>2, <1>4a DEF CallsState
<1>6. PICK told \in Seq(Nat) : told = listeners[j].told
  <2>1. listeners[j] \in Listener
      BY <1>3
  <2>2. QED  BY <2>1 DEF Listener
<1>7. /\ DOMAIN listeners' = DOMAIN listeners /\ Len(listeners') = Len(listeners)
      /\ \A i \in 1..Len(listeners) : listeners'[i].since = listeners[i].since
      /\ \A i \in 1..Len(listeners) : i /= j => listeners'[i] = listeners[i]
      /\ listeners'[j].told = Append(told, n)
      /\ \A i \in 1..Len(listeners) : Registered(i)' => Registered(i)
  <2>1. listeners' = [listeners EXCEPT ![j] = [listeners[j] EXCEPT !.told = Append(told, n)]]
      BY <1>1, <1>4, <1>4a, <1>6
  <2>2. listeners[j] \in Listener
      BY <1>3
  <2>3. PICK x : x = [listeners[j] EXCEPT !.told = Append(told, n)]
      OBVIOUS
  <2>4. x.since = listeners[j].since /\ x.told = Append(told, n) /\ x.alone = listeners[j].alone
      BY <2>2, <2>3 DEF Listener
  <2>5. listeners' = [listeners EXCEPT ![j] = x]
      BY <2>1, <2>3
  <2>6. \A i \in 1..Len(listeners) : listeners'[i].alone = listeners[i].alone
      BY <1>3, <2>4, <2>5
  <2>7. \A i \in 1..Len(listeners) : Registered(i)' => Registered(i)
      BY <1>1, <2>6 DEF Registered
  <2>8. QED  BY <1>3, <2>4, <2>5, <2>7
<1>8. \A v \in DOMAIN updates : Tells(v)' <=> Tells(v)
    BY <1>1, <1>5 DEF Tells
<1>9. \A v \in DOMAIN updates : Tells(v) => updates'[v].change = updates[v].change
    BY <1>4a, <1>5
<1>10. \A v \in DOMAIN updates, i \in 1..Len(listeners) :
           Owes(v, i)' <=> Owes(v, i) /\ ~ (v = u /\ i = j)
  <2>1. \A i \in 1..Len(listeners) : Owes(u, i)' <=> Owes(u, i) /\ i /= j
    <3>1. \A i : Owes(u, i) <=> \E k \in DOMAIN calls : at <= k /\ calls[k] = i
        BY <1>1, <1>4a DEF Owes
    <3>2. \A i : Owes(u, i)' <=> \E k \in DOMAIN calls : at + 1 <= k /\ calls[k] = i
        BY <1>5 DEF Owes
    <3>3. \A k \in DOMAIN calls : (at + 1 <= k <=> at <= k /\ k /= at) /\ (k /= at <=> calls[k] /= j)
        BY <1>4a, <1>4
    <3>4. QED  BY <3>1, <3>2, <3>3
  <2>2. \A v \in DOMAIN updates : v /= u => \A i : Owes(v, i)' <=> Owes(v, i)
      BY <1>5 DEF Owes
  <2>3. QED  BY <2>1, <2>2
<1>11. Owes(u, j) /\ Tells(u)
    BY <1>1, <1>4a, <1>4 DEF Owes, Tells
<1>12. n \in 1..changes /\ n \notin Told(j)
    BY <1>4a, <1>4, <1>11 DEF TellInv, TellsItsOwn, ToldOnce
<1>13. \A i \in 1..Len(listeners) : i /= j => Told(i)' = Told(i)
    BY <1>7 DEF Told
<1>14. Told(j)' = Told(j) \cup {n}
  <2>1. DOMAIN Append(told, n) = 1..(Len(told) + 1) /\ DOMAIN told = 1..Len(told) /\ Len(told) \in Nat
      BY <1>6
  <2>2. \A k \in 1..(Len(told) + 1) : Append(told, n)[k] = IF k = Len(told) + 1 THEN n ELSE told[k]
      BY <1>6
  <2>3. Told(j) = {told[k] : k \in 1..Len(told)}
      BY <1>6, <2>1 DEF Told
  <2>4. Told(j)' = {Append(told, n)[k] : k \in 1..(Len(told) + 1)}
      BY <1>7, <2>1 DEF Told
  <2>5. Told(j)' \subseteq Told(j) \cup {n}
      BY <2>1, <2>2, <2>3, <2>4
  <2>6. Told(j) \cup {n} \subseteq Told(j)'
    <3>1. n = Append(told, n)[Len(told) + 1] /\ Len(told) + 1 \in 1..(Len(told) + 1)
        BY <2>1, <2>2
    <3>2. \A k \in 1..Len(told) : told[k] = Append(told, n)[k] /\ k \in 1..(Len(told) + 1)
        BY <2>1, <2>2
    <3>3. n \in Told(j)'
        BY <2>4, <3>1
    <3>4. Told(j) \subseteq Told(j)'
        BY <2>3, <2>4, <3>2
    <3>5. QED  BY <3>3, <3>4
  <2>7. QED  BY <2>5, <2>6
<1>15. TellsItsOwn'
    BY <1>1, <1>5, <1>8, <1>9 DEF TellInv, TellsItsOwn
<1>16. ToldOnce'
  <2>1. ASSUME NEW i \in 1..Len(listeners)
        PROVE  Told(i)' \subseteq 1..changes
      BY <1>12, <1>13, <1>14 DEF TellInv, ToldOnce
  <2>2. ASSUME NEW i \in 1..Len(listeners), NEW k \in DOMAIN listeners'[i].told, NEW l \in DOMAIN listeners'[i].told,
               listeners'[i].told[k] = listeners'[i].told[l]
        PROVE  k = l
    <3>1. CASE i /= j
        BY <1>7, <2>2, <3>1 DEF TellInv, ToldOnce
    <3>2. CASE i = j
      <4>1. DOMAIN Append(told, n) = 1..(Len(told) + 1) /\ DOMAIN told = 1..Len(told) /\ Len(told) \in Nat
          BY <1>6
      <4>2. \A m \in 1..(Len(told) + 1) : Append(told, n)[m] = IF m = Len(told) + 1 THEN n ELSE told[m]
          BY <1>6
      <4>3. \A m \in 1..Len(told) : told[m] /= n
          BY <1>6, <1>12, <4>1 DEF Told
      <4>4. \A p, q \in 1..Len(told) : told[p] = told[q] => p = q
          BY <1>6, <4>1 DEF TellInv, ToldOnce
      <4>5. k \in 1..(Len(told) + 1) /\ l \in 1..(Len(told) + 1) /\ Append(told, n)[k] = Append(told, n)[l]
          BY <1>7, <2>2, <3>2, <4>1
      <4>6. QED  BY SMTT(60), <4>1, <4>2, <4>3, <4>4, <4>5
    <3>3. QED  BY <3>1, <3>2
  <2>3. ASSUME NEW i \in 1..Len(listeners), NEW v \in DOMAIN updates, Owes(v, i)'
        PROVE  updates'[v].change \notin Told(i)'
    <3>1. Owes(v, i) /\ ~ (v = u /\ i = j)
        BY <1>10, <2>3
    <3>2. Tells(v)
        BY <3>1 DEF Owes, Tells
    <3>3. updates[v].change \notin Told(i) /\ updates'[v].change = updates[v].change
        BY <1>9, <3>1, <3>2 DEF TellInv, ToldOnce
    <3>4. CASE i /= j
        BY <1>13, <3>3, <3>4
    <3>5. CASE i = j
      <4>1. updates[v].change /= n
          BY <1>4a, <1>4, <1>11, <3>1, <3>2, <3>5 DEF TellInv, TellsItsOwn
      <4>2. QED  BY <1>14, <3>3, <3>5, <4>1
    <3>6. QED  BY <3>4, <3>5
  <2>4. QED  BY <1>1, <1>5, <1>7, <2>1, <2>2, <2>3 DEF ToldOnce
<1>17. ToldOrOwed'
  <2>1. ASSUME NEW i \in 1..Len(listeners), NEW m \in 1..changes, Registered(i), m > listeners[i].since
        PROVE  m \in Told(i)' \/ \E v \in DOMAIN updates : Owes(v, i)' /\ updates'[v].change = m
    <3>1. CASE m \in Told(i)
        BY <1>13, <1>14, <3>1
    <3>2. CASE m \notin Told(i)
      <4>1. PICK v \in DOMAIN updates : Owes(v, i) /\ updates[v].change = m
          BY <2>1, <3>2 DEF TellInv, ToldOrOwed
      <4>2. Tells(v)
          BY <4>1 DEF Owes, Tells
      <4>3. CASE v = u /\ i = j
          BY <1>4a, <1>4, <1>14, <4>1, <4>3
      <4>4. CASE ~ (v = u /\ i = j)
          BY <1>9, <1>10, <4>1, <4>2, <4>4
      <4>5. QED  BY <4>3, <4>4
    <3>3. QED  BY <3>1, <3>2
  <2>2. ASSUME NEW i \in 1..Len(listeners'), NEW m \in 1..changes', Registered(i)', m > listeners'[i].since
        PROVE  m \in Told(i)' \/ \E v \in DOMAIN updates' : Owes(v, i)' /\ updates'[v].change = m
    <3>1. i \in 1..Len(listeners) /\ m \in 1..changes /\ Registered(i) /\ m > listeners[i].since
        BY <1>1, <1>7, <2>2
    <3>2. QED  BY <1>5, <2>1, <3>1
  <2>3. QED  BY <2>2 DEF ToldOrOwed
<1>18. QED  BY <1>15, <1>16, <1>17 DEF TellInv

LEMMA TellStep ==
    ASSUME ConfigTypes, RegistryInv, TellInv, [Next]_vars
    PROVE  TellInv'
<1>a. ASSUME UNCHANGED <<changes, updates, listeners, registering>>
      PROVE  TellInv'
    BY <1>a, SameOwed DEF Tells, Owes
<1>b. ASSUME NEW u \in DOMAIN updates, NEW new, Install(u, new), UNCHANGED <<listeners, registering>>,
             updates[u].step \in {"swap", "idle"}
      PROVE  TellInv'
    BY <1>b, NewChange DEF Tells
<1>c. ASSUME NEW u \in DOMAIN updates, NEW x, updates' = [updates EXCEPT ![u] = x],
             x.step \notin {"call", "calls"}, ~ Tells(u),
             changes' = changes, listeners' = listeners, registering' = registering
      PROVE  TellInv'
    BY <1>c, QuietUpdate DEF Tells, Owes
<1>1. CASE UNCHANGED configVars
    BY <1>a, <1>1 DEF configVars
<1>2. CASE FileStep
    BY <1>a, <1>2, FileStepsKeepUpdates
<1>3. CASE BeginRegistration
    BY <1>3, NewListener
<1>3b. CASE RegisterCallback
    BY <1>3b, ListenerRegistered
<1>4. ASSUME NEW u, NEW new, u \in Updaters, Submit(u, new)
      PROVE  TellInv'
  <2>1. /\ updates' = [updates EXCEPT ![u] = [step |-> "swap", new |-> new]]
        /\ UNCHANGED <<changes, listeners, registering>> /\ ~ Tells(u)
      BY <1>4 DEF Submit, Tells
  <2>2. u \in DOMAIN updates
      BY <1>4 DEF ConfigTypes
  <2>3. QED  BY <1>c, <2>1, <2>2
<1>5. CASE ApplyProfile \/ ApplyEnvironmentOverrides
    BY <1>4, <1>5 DEF ApplyProfile, ApplyEnvironmentOverrides
<1>6. CASE Swap
    BY <1>b, <1>6 DEF Swap
<1>7. CASE UpdateConfigField
  <2>1. PICK u, new : /\ u \in Updaters /\ Install(u, new)
                      /\ UNCHANGED <<listeners, registering>> /\ updates[u].step = "idle"
      BY <1>7 DEF UpdateConfigField
  <2>2. u \in DOMAIN updates
      BY <2>1 DEF ConfigTypes
  <2>3. QED  BY <1>b, <2>1, <2>2
<1>8. CASE BeginCalls
  <2>1. PICK u \in DOMAIN updates :
            /\ updates[u].step = "call"
            /\ updates' = [updates EXCEPT ![u] = [step |-> "calls", change |-> updates[u].change,
                                                  calls |-> callbacks, next |-> 1]]
            /\ UNCHANGED <<changes, listeners, registering>>
      BY <1>8 DEF BeginCalls
  <2>2. /\ updates'[u].step = "calls" /\ updates'[u].change = updates[u].change
        /\ updates'[u].next = 1 /\ updates'[u].calls = callbacks
        /\ DOMAIN updates' = DOMAIN updates
        /\ \A v \in DOMAIN updates : v /= u => updates'[v] = updates[v]
      BY <2>1
  <2>3. \A i \in 1..Len(listeners) : Owes(u, i) /\ (Registered(i) => Owes(u, i)')
    <3>1. \A i \in 1..Len(listeners) : Registered(i) => \E k \in DOMAIN callbacks : callbacks[k] = i
        BY DEF RegistryInv, In
    <3>2. \A k \in DOMAIN callbacks : k \in Nat /\ 1 <= k
        BY DEF RegistryInv, ListOf
    <3>3. QED  BY <2>1, <2>2, <3>1, <3>2 DEF Owes
  <2>4. Tells(u)
      BY <2>1 DEF Tells
  <2>5. \A v \in DOMAIN updates : v /= u => (Tells(v)' <=> Tells(v)) /\ \A i : Owes(v, i)' <=> Owes(v, i)
      BY <2>2 DEF Tells, Owes
  <2>6. QED  BY <2>1, <2>2, <2>3, <2>4, <2>5, SameOwed
<1>9. CASE CallListener
    BY <1>9, ListenerTold
<1>10. CASE UpdateReturns
  <2>1. PICK u \in DOMAIN updates :
            /\ updates[u].step = "calls" /\ updates[u].next > Len(updates[u].calls)
            /\ updates' = [updates EXCEPT ![u] = Idle] /\ UNCHANGED <<changes, listeners, registering>>
      BY <1>10 DEF UpdateReturns
  <2>2. updates[u].next \in Nat /\ updates[u].calls \in Seq(Nat)
      BY <2>1 DEF ConfigTypes, CallsState
  <2>3. \A i \in 1..Len(listeners) : ~ Owes(u, i)
      BY <2>1, <2>2 DEF Owes
  <2>4. Idle.step = "idle"
      BY DEF Idle
  <2>5. QED  BY <2>1, <2>3, <2>4, QuietUpdate
<1>11. CASE ReadGlobal
  <2>1. PICK c, x : /\ updates' = [updates EXCEPT ![Watcher] = x]
                    /\ x = Idle \/ x = [step |-> "load", global |-> c]
                    /\ UNCHANGED <<changes, listeners, registering>> /\ ~ Tells(Watcher)
      BY <1>11 DEF ReadGlobal, WatcherIdle, Tells
  <2>2. Watcher \in DOMAIN updates
      BY DEF ConfigTypes
  <2>2b. x.step \notin {"call", "calls"}
      BY <2>1 DEF Idle
  <2>3. QED  BY <1>c, <2>1, <2>2, <2>2b
<1>12. CASE ReadLocal
  <2>1. PICK new, x : /\ updates' = [updates EXCEPT ![Watcher] = x]
                      /\ x = [step |-> "swap", new |-> new] \/ x = Idle
                      /\ UNCHANGED <<changes, listeners, registering>> /\ ~ Tells(Watcher)
    <3> DEFINE new == LoadConfig(updates[Watcher].global, configFiles["local"])
               x == IF (configFiles["local"] /= Unreadable /\ ValidateConfig(new)) /\ changes < MaxUpdates
                    THEN [step |-> "swap", new |-> new] ELSE Idle
    <3>1. updates' = [updates EXCEPT ![Watcher] = x] /\ UNCHANGED <<changes, listeners, registering>>
        BY <1>12 DEF ReadLocal
    <3>2. ~ Tells(Watcher)
        BY <1>12 DEF ReadLocal, Tells
    <3>3. x = [step |-> "swap", new |-> new] \/ x = Idle
        OBVIOUS
    <3>4. QED  BY <3>1, <3>2, <3>3
  <2>2. x.step \notin {"call", "calls"}
      BY <2>1 DEF Idle
  <2>3. Watcher \in DOMAIN updates
      BY DEF ConfigTypes
  <2>4. QED  BY <1>c, <2>1, <2>2, <2>3
<1>13. ConfigNext \/ UNCHANGED configVars
    BY StepOfAPart
<1>14. QED
    BY <1>1, <1>2, <1>3, <1>3b, <1>5, <1>6, <1>7, <1>8, <1>9, <1>10, <1>11, <1>12, <1>13 DEF ConfigNext, FileStep

-----------------------------------------------------------------------------
(***************************************************************************)
(* The configuration: written files are loaded.                            *)
(***************************************************************************)
LEMMA TouchReloads ==
    ASSUME ConfigInv, NEW f, NEW c, Touch(f, c), updates' = updates
    PROVE  ReadInv'
<1>1. watch \in WatchState
    BY DEF ConfigInv, ConfigShape, ConfigTypes, ReadInv
<1>2. CASE f \notin watch.files
    BY <1>2 DEF Touch, ConfigInv, UnreadIsWatched, WritesAreReloaded, ReadInv
<1>3. CASE f \in watch.files
  <2>1. unread' = unread \cup {f} /\ watch' = [watch EXCEPT !.events = TRUE, !.barred = @ \ {f}]
      BY <1>3 DEF Touch
  <2>2. watch'.files = watch.files /\ watch'.on = watch.on /\ watch'.events
      BY <1>1, <2>1 DEF WatchState
  <2>4. QED  BY <1>3, <2>1, <2>2 DEF ConfigInv, UnreadIsWatched, WritesAreReloaded, ReadInv
<1>4. QED  BY <1>2, <1>3

\* The watcher was not loading, and is not.
LEMMA OthersDoNotRead ==
    ASSUME ConfigInv, UNCHANGED <<unread, watch>>,
           updates[Watcher].step = "load" => updates'[Watcher].step = "load"
    PROVE  ReadInv'
BY DEF ConfigInv, UnreadIsWatched, WritesAreReloaded, ReadInv

LEMMA ReloadStep ==
    ASSUME ConfigInv, [Next]_vars
    PROVE  ReadInv'
<1>a. watch \in WatchState /\ Watcher \in DOMAIN updates
    BY DEF ConfigInv, ConfigShape, ConfigTypes, ReadInv
<1>b. unread \subseteq watch.files
    BY DEF ConfigInv, UnreadIsWatched, ReadInv
<1>c. ASSUME NEW u \in DOMAIN updates, NEW x, updates' = [updates EXCEPT ![u] = x],
             updates[u].step /= "load", UNCHANGED <<unread, watch>>
      PROVE  ReadInv'
  <2>1. updates[Watcher].step = "load" => updates'[Watcher].step = "load"
      BY <1>a, <1>c
  <2>2. QED  BY <1>c, <2>1, OthersDoNotRead
<1>1. CASE UNCHANGED configVars
    BY <1>1, OthersDoNotRead DEF configVars
<1>2. CASE EditFile \/ SaveConfig
    BY <1>2, TouchReloads DEF EditFile, SaveConfig, Cut
<1>3. CASE FinishWrite
    BY <1>3, TouchReloads DEF FinishWrite
<1>4. CASE ReplaceFile
  <2>1. PICK f : /\ watch' = [watch EXCEPT !.files = @ \ {f}]
                 /\ unread' = unread \ {f} /\ updates' = updates
      BY <1>4 DEF ReplaceFile
  <2>2. /\ watch'.files = watch.files \ {f} /\ watch'.on = watch.on /\ watch'.barred = watch.barred
        /\ watch'.events = watch.events /\ watch'.timer = watch.timer
      BY <1>a, <2>1 DEF WatchState
  <2>3. QED  BY <2>1, <2>2 DEF ConfigInv, UnreadIsWatched, WritesAreReloaded, ReadInv
<1>5. CASE StartFileWatching
  <2>1. watch.files = {} /\ unread' = unread
      BY <1>5 DEF StartFileWatching, ConfigInv, UnreadIsWatched, ReadInv
  <2>2. unread' = {}
      BY <1>b, <2>1
  <2>2b. PICK fs : watch' = [watch EXCEPT !.on = TRUE, !.files = fs]
      BY <1>5 DEF StartFileWatching
  <2>2c. watch'.on
      BY <1>a, <2>2b DEF WatchState
  <2>3. QED  BY <2>2, <2>2c DEF UnreadIsWatched, WritesAreReloaded, ReadInv
<1>6. CASE OnFileEvent
  <2>1. watch' = [watch EXCEPT !.events = FALSE, !.timer = TRUE] /\ unread' = unread
      BY <1>6 DEF OnFileEvent
  <2>2. watch'.files = watch.files /\ watch'.timer /\ watch'.on = watch.on
      BY <1>a, <2>1 DEF WatchState
  <2>3. QED  BY <1>b, <2>1, <2>2 DEF ConfigInv, UnreadIsWatched, WritesAreReloaded, ReadInv
<1>7. CASE StopWatching
  <2>1. watch'.files = {} /\ unread' = {}
      BY <1>7 DEF StopWatching
  <2>2. QED  BY <2>1 DEF UnreadIsWatched, WritesAreReloaded, ReadInv
<1>8. CASE ReadGlobal
  <2>1. PICK x, b : /\ updates' = [updates EXCEPT ![Watcher] = x]
                    /\ watch' = [watch EXCEPT !.timer = FALSE, !.barred = b]
                    /\ b = {"local"} \/ x.step = "load"
                    /\ unread' = unread \ {"global"}
    <3> DEFINE failed == configFiles["global"] = Unreadable
               x == IF failed THEN Idle ELSE [step |-> "load", global |-> configFiles["global"]]
               b == IF failed THEN {"local"} ELSE {}
    <3>1. /\ updates' = [updates EXCEPT ![Watcher] = x]
          /\ watch' = [watch EXCEPT !.timer = FALSE, !.barred = b]
          /\ unread' = unread \ {"global"}
        BY <1>8 DEF ReadGlobal
    <3>2. b = {"local"} \/ x.step = "load"
        OBVIOUS
    <3> HIDE DEF x, b
    <3>3. QED  BY <3>1, <3>2
  <2>2. /\ watch'.files = watch.files /\ watch.files \subseteq Files /\ watch'.on = watch.on
        /\ watch'.barred = b
      BY <1>a, <2>1 DEF WatchState
  <2>3. watch'.barred = {"local"} \/ updates'[Watcher].step = "load"
      BY <1>a, <2>1, <2>2
  <2>4. \A f \in unread' : f = "local"
      BY <1>b, <2>1, <2>2 DEF Files
  <2>5. QED  BY <1>b, <2>1, <2>2, <2>3, <2>4 DEF ConfigInv, UnreadIsWatched, WritesAreReloaded, ReadInv
<1>9. CASE ReadLocal
  <2>1. unread' = unread \ {"local"} /\ watch' = watch
      BY <1>9 DEF ReadLocal
  <2>2. QED  BY <2>1 DEF ConfigInv, UnreadIsWatched, WritesAreReloaded, ReadInv
<1>10. CASE BeginRegistration \/ RegisterCallback
    BY <1>10, OthersDoNotRead DEF BeginRegistration, RegisterCallback
<1>11. ASSUME NEW u, NEW new, u \in Updaters, Submit(u, new)
       PROVE  ReadInv'
  <2>1. /\ updates' = [updates EXCEPT ![u] = [step |-> "swap", new |-> new]]
        /\ UNCHANGED <<unread, watch>> /\ updates[u].step /= "load"
      BY <1>11 DEF Submit
  <2>2. u \in DOMAIN updates
      BY <1>11 DEF ConfigInv, ConfigShape, ConfigTypes, ReadInv
  <2>3. QED  BY <1>c, <2>1, <2>2
<1>12. CASE ApplyProfile \/ ApplyEnvironmentOverrides
    BY <1>11, <1>12 DEF ApplyProfile, ApplyEnvironmentOverrides
<1>13. CASE Swap
    BY <1>c, <1>13 DEF Swap, Install
<1>14. CASE UpdateConfigField
  <2>1. PICK u, x : /\ u \in Updaters
                    /\ updates' = [updates EXCEPT ![u] = x]
                    /\ updates[u].step = "idle" /\ UNCHANGED <<unread, watch>>
      BY <1>14 DEF UpdateConfigField, Install
  <2>2. u \in DOMAIN updates
      BY <2>1 DEF ConfigInv, ConfigShape, ConfigTypes, ReadInv
  <2>3. QED  BY <1>c, <2>1, <2>2
<1>15. CASE BeginCalls
    BY <1>c, <1>15 DEF BeginCalls
<1>16. CASE CallListener
  <2>1. PICK u, x : /\ u \in DOMAIN updates
                    /\ updates' = [updates EXCEPT ![u] = x]
                    /\ updates[u].step = "calls" /\ UNCHANGED <<unread, watch>>
      BY <1>16 DEF CallListener
  <2>2. QED  BY <1>c, <2>1
<1>17. CASE UpdateReturns
    BY <1>c, <1>17 DEF UpdateReturns
<1>18. ConfigNext \/ UNCHANGED configVars
    BY StepOfAPart
<1>19. QED
    BY <1>1, <1>2, <1>3, <1>4, <1>5, <1>6, <1>7, <1>8, <1>9, <1>10, <1>12, <1>13, <1>14, <1>15, <1>16, <1>17, <1>18
    DEF ConfigNext

(* For every number of goroutines, listeners and files' contents: when no update is under  *)
(* way every listener was told once of each change since it was registered, and what was   *)
(* written to a watched file and not read is on its way.                                   *)
THEOREM ChangesReachListeners == Spec => []ChangesArrive
<1>1. Init => ConfigInv
  <2> SUFFICES ASSUME ConfigInit PROVE ConfigTypes /\ RegistryInv /\ TellInv /\ ReadInv
      BY DEF Init, ConfigInv, ConfigShape
  <2>1. listeners = <<>> /\ changes = 0 /\ unread = {} /\ updates = [u \in Updaters \cup {Watcher} |-> Idle]
      BY DEF ConfigInit
  <2>2. watch \in WatchState
      BY DEF ConfigInit, WatchState
  <2>3. \A u \in DOMAIN updates : updates[u].step = "idle"
      BY <2>1 DEF Idle
  <2>4. Len(listeners) = 0 /\ listeners \in Seq(Listener)
      BY <2>1
  <2>5. ConfigTypes
      BY <2>1, <2>2, <2>3, <2>4 DEF ConfigTypes
  <2>6. TellInv
      BY <2>3, <2>4 DEF TellInv, TellsItsOwn, ToldOnce, ToldOrOwed, Tells
  <2>7. ReadInv
      BY <2>1 DEF ConfigInit, ReadInv, UnreadIsWatched, WritesAreReloaded
  <2>8. RegistryInv
      BY EmptyRegistry DEF ConfigInit
  <2>9. QED  BY <2>5, <2>6, <2>7, <2>8
<1>2. ConfigInv /\ [Next]_vars => ConfigInv'
  <2> SUFFICES ASSUME ConfigInv, [Next]_vars
               PROVE  ConfigShape' /\ TellInv' /\ ReadInv'
      BY DEF ConfigInv
  <2>1. ConfigShape'
      BY ConfigTypesStep, RegistryStep DEF ConfigInv, ConfigShape
  <2>2. TellInv'
      BY TellStep DEF ConfigInv, ConfigShape
  <2>3. ReadInv'
      BY ReloadStep
  <2>4. QED  BY <2>1, <2>2, <2>3
<1>3. ConfigInv => ChangesArrive
  <2> SUFFICES ASSUME ConfigTypes, TellInv PROVE EveryListenerIsTold
      BY DEF ConfigInv, ConfigShape, ChangesArrive, ReadInv
  <2> SUFFICES ASSUME \A u \in DOMAIN updates : updates[u].step \in {"idle", "swap", "load"},
                      NEW i \in 1..Len(listeners)
               PROVE  /\ Registered(i) => (listeners[i].since + 1)..changes \subseteq Told(i)
                      /\ \A k, l \in DOMAIN listeners[i].told :
                             listeners[i].told[k] = listeners[i].told[l] => k = l
      BY DEF EveryListenerIsTold, Told, ConfigTypes
  <2>1. \A u \in DOMAIN updates : ~ Owes(u, i)
      BY DEF Owes
  <2>2. listeners[i].since \in Nat /\ changes \in Nat
    <3>1. listeners[i] \in Listener
        BY DEF ConfigTypes
    <3>2. QED  BY <3>1 DEF Listener, ConfigTypes
  <2>3. \A n \in 1..changes : Registered(i) /\ n > listeners[i].since => n \in Told(i)
      BY <2>1 DEF TellInv, ToldOrOwed
  <2>4. Registered(i) => (listeners[i].since + 1)..changes \subseteq Told(i)
      BY <2>2, <2>3
  <2>5. QED  BY <2>4 DEF TellInv, ToldOnce
<1>4. QED  BY <1>1, <1>2, <1>3, PTL DEF Spec

-----------------------------------------------------------------------------
(***************************************************************************)
(* The configuration: what is saved loads as it was.                       *)
(***************************************************************************)

\* Neither overrides nor merging change the fields there are.
LEMMA OverlayIsWhole ==
    ASSUME NEW c, NEW over, Whole(c)
    PROVE  Whole(Overlay(c, over))
BY DEF Whole, Overlay

LEMMA MergeIsWhole ==
    ASSUME NEW c, NEW src, Whole(c)
    PROVE  Whole(MergeConfigs(c, src))
BY DEF Whole, MergeConfigs

LEMMA LoadIsWhole ==
    ASSUME NEW c, NEW file, Whole(c)
    PROVE  Whole(LoadConfigFile(c, file))
BY MergeIsWhole DEF LoadConfigFile

LEMMA LoadedIsWhole ==
    ASSUME NEW global, NEW local
    PROVE  Whole(LoadConfig(global, local))
<1>1. Whole(DefaultConfig)
    BY DEF Whole
<1>2. Whole(LoadConfigFile(LoadConfigFile(DefaultConfig, global), local))
    BY <1>1, LoadIsWhole
<1>3. QED  BY <1>2, OverlayIsWhole DEF LoadConfig

LEMMA FieldIsWhole ==
    ASSUME NEW c, NEW s, NEW f, NEW v, Whole(c)
    PROVE  Whole([c EXCEPT ![s][f] = v])
BY DEF Whole

\* Reading a whole configuration leaves every field as it is.
LEMMA UnmarshalKeeps ==
    ASSUME NEW c, Whole(c), NEW s \in DOMAIN c, NEW f \in DOMAIN c[s]
    PROVE  /\ s \in DOMAIN Unmarshal(c)
           /\ f \in DOMAIN Unmarshal(c)[s]
           /\ Unmarshal(c)[s][f] = c[s][f]
BY DEF Whole, Unmarshal, Overlay

\* A file that does not exist has no settings.
NoFileIsEmpty == \A c : Whole(c) => c /= NoFile

LEMMA SavedLoads ==
    ASSUME NoFileIsEmpty, NEW c, NEW global, Whole(c)
    PROVE  LoadsAsSaved(c, global)
<1> DEFINE first == LoadConfigFile(DefaultConfig, global)
           merged == MergeConfigs(first, Unmarshal(c))
<1>1. Whole(first)
  <2>1. Whole(DefaultConfig)
      BY DEF Whole
  <2>2. QED  BY <2>1, LoadIsWhole
<1>2. LoadConfig(global, c) = Overlay(merged, EnvSettings)
    BY DEF NoFileIsEmpty, LoadConfig, LoadConfigFile
<1> HIDE DEF first
<1> SUFFICES ASSUME NEW s \in DOMAIN c, NEW f \in DOMAIN c[s],
                    ~ (f \notin Flags /\ c[s][f] = Zero(f)),
                    ~ (s \in DOMAIN EnvSettings /\ f \in DOMAIN EnvSettings[s])
             PROVE  LoadConfig(global, c)[s][f] = c[s][f]
    BY Zenon DEF LoadsAsSaved
<1>3. Unmarshal(c)[s][f] = c[s][f]
    BY UnmarshalKeeps
<1>4. s \in DOMAIN first /\ f \in DOMAIN first[s]
    BY <1>1 DEF Whole
<1>5. merged[s][f] = c[s][f]
    BY <1>3, <1>4 DEF MergeConfigs
<1>6. Whole(merged)
    BY <1>1, MergeIsWhole
<1>7. s \in DOMAIN merged /\ f \in DOMAIN merged[s]
    BY <1>6 DEF Whole
<1> HIDE DEF merged
<1>8. Overlay(merged, EnvSettings)[s][f] = merged[s][f]
    BY <1>7 DEF Overlay
<1>9. QED  BY <1>2, <1>5, <1>8

LEMMA WholeStep ==
    ASSUME ConfigTypes, WholeInv, [Next]_vars
    PROVE  WholeInv'
<1>a. ASSUME UNCHANGED <<config, updates>>
      PROVE  WholeInv'
    BY <1>a DEF WholeInv
<1>b. ASSUME NEW u, NEW x, updates' = [updates EXCEPT ![u] = x],
             x.step /= "swap" \/ Whole(x.new), Whole(config')
      PROVE  WholeInv'
  <2>1. \A v \in DOMAIN updates' : v \in DOMAIN updates /\ updates'[v] = IF v = u THEN x ELSE updates[v]
      BY <1>b
  <2>2. QED  BY <1>b, <2>1 DEF WholeInv
<1>c. Whole(config)
    BY DEF WholeInv
<1>1. CASE UNCHANGED configVars
    BY <1>a, <1>1 DEF configVars
<1>2. CASE FileStep
    BY <1>a, <1>2, FileStepsKeepUpdates
<1>3. CASE BeginRegistration \/ RegisterCallback
    BY <1>a, <1>3 DEF BeginRegistration, RegisterCallback
<1>4. ASSUME NEW u, NEW new, Submit(u, new), Whole(new)
      PROVE  WholeInv'
  <2>1. updates' = [updates EXCEPT ![u] = [step |-> "swap", new |-> new]] /\ config' = config
      BY <1>4 DEF Submit
  <2>2. [step |-> "swap", new |-> new].new = new
      OBVIOUS
  <2>3. QED  BY <1>b, <1>c, <1>4, <2>1, <2>2
<1>5. ASSUME NEW u, NEW new, Install(u, new), Whole(new)
      PROVE  WholeInv'
  <2>1. updates' = [updates EXCEPT ![u] = [step |-> "call", change |-> changes + 1]] /\ config' = new
      BY <1>5 DEF Install
  <2>2. QED  BY <1>b, <1>5, <2>1
<1>6. CASE ApplyProfile
  <2>1. PICK u, p : Submit(u, Overlay(DefaultConfig, BuiltinProfiles[p]))
      BY <1>6 DEF ApplyProfile
  <2>2. Whole(DefaultConfig)
      BY DEF Whole
  <2>3. QED  BY <1>4, <2>1, <2>2, OverlayIsWhole
<1>7. CASE ApplyEnvironmentOverrides
  <2>1. PICK u, e : Submit(u, Overlay(config, BuiltinOverrides[e]))
      BY <1>7 DEF ApplyEnvironmentOverrides
  <2>2. QED  BY <1>4, <1>c, <2>1, OverlayIsWhole
<1>8. CASE Swap
    BY <1>5, <1>8 DEF Swap, WholeInv
<1>9. CASE UpdateConfigField
  <2>1. PICK u, d : Install(u, [config EXCEPT ![d[1]][d[2]] = d[3]])
      BY <1>9 DEF UpdateConfigField
  <2>2. QED  BY <1>5, <1>c, <2>1, FieldIsWhole
<1>10. CASE BeginCalls
  <2>1. PICK u : /\ updates' = [updates EXCEPT ![u] = [step |-> "calls", change |-> updates[u].change,
                                                      calls |-> callbacks, next |-> 1]]
                 /\ config' = config
      BY <1>10 DEF BeginCalls
  <2>2. QED  BY <1>b, <1>c, <2>1
<1>11. CASE CallListener
  <2>1. PICK u \in DOMAIN updates :
            /\ updates[u].step = "calls"
            /\ updates' = [updates EXCEPT ![u].next = updates[u].next + 1]
            /\ config' = config
      BY <1>11 DEF CallListener
  <2>2. PICK x : updates' = [updates EXCEPT ![u] = x] /\ x.step = "calls"
    <3>1. updates[u] \in CallsState
        BY <2>1 DEF ConfigTypes
    <3>2. [updates[u] EXCEPT !.next = updates[u].next + 1].step = "calls"
        BY <2>1, <3>1 DEF CallsState
    <3>3. QED  BY <2>1, <3>2
  <2>3. QED  BY <1>b, <1>c, <2>1, <2>2
<1>12. CASE UpdateReturns
  <2>1. PICK u : updates' = [updates EXCEPT ![u] = Idle] /\ config' = config
      BY <1>12 DEF UpdateReturns
  <2>2. Idle.step = "idle"
      BY DEF Idle
  <2>3. QED  BY <1>b, <1>c, <2>1, <2>2
<1>13. CASE ReadGlobal
  <2>1. PICK c, x : /\ updates' = [updates EXCEPT ![Watcher] = x] /\ config' = config
                    /\ x = Idle \/ x = [step |-> "load", global |-> c]
      BY <1>13 DEF ReadGlobal
  <2>2. x.step /= "swap"
      BY <2>1 DEF Idle
  <2>3. QED  BY <1>b, <1>c, <2>1, <2>2
<1>14. CASE ReadLocal
  <2>1. PICK new, x : /\ updates' = [updates EXCEPT ![Watcher] = x] /\ config' = config
                      /\ x = [step |-> "swap", new |-> new] \/ x = Idle
                      /\ Whole(new)
    <3> DEFINE new == LoadConfig(updates[Watcher].global, configFiles["local"])
               x == IF (configFiles["local"] /= Unreadable /\ ValidateConfig(new)) /\ changes < MaxUpdates
                    THEN [step |-> "swap", new |-> new] ELSE Idle
    <3>1. updates' = [updates EXCEPT ![Watcher] = x] /\ config' = config
        BY <1>14 DEF ReadLocal
    <3>2. x = [step |-> "swap", new |-> new] \/ x = Idle
        OBVIOUS
    <3>3. Whole(new)
        BY LoadedIsWhole
    <3>4. QED  BY <3>1, <3>2, <3>3
  <2>2. x.step /= "swap" \/ Whole(x.new)
    <3>1. CASE x = Idle
        BY <3>1 DEF Idle
    <3>2. CASE x = [step |-> "swap", new |-> new]
        BY <2>1, <3>2
    <3>3. QED  BY <2>1, <3>1, <3>2
  <2>3. QED  BY <1>b, <1>c, <2>1, <2>2
<1>15. ConfigNext \/ UNCHANGED configVars
    BY StepOfAPart
<1>16. QED
    BY <1>1, <1>2, <1>3, <1>6, <1>7, <1>8, <1>9, <1>10, <1>11, <1>12, <1>13, <1>14, <1>15 DEF ConfigNext, FileStep

(* For every file and every update, whatever the global file becomes: the configuration    *)
(* that is installed would load as it is if it were saved, but for unset values and those  *)
(* of the environment.  (A file that does not exist is no configuration.)                  *)
THEOREM SavedConfigurationsLoad == NoFileIsEmpty /\ Spec => SavedLoadsAsSaved
<1> SUFFICES ASSUME NoFileIsEmpty PROVE Spec => SavedLoadsAsSaved
    OBVIOUS
<1>1. Init => ConfigShape /\ WholeInv
  <2> SUFFICES ASSUME ConfigInit PROVE ConfigShape /\ WholeInv
      BY DEF Init
  <2>1. listeners = <<>> /\ changes = 0 /\ updates = [u \in Updaters \cup {Watcher} |-> Idle]
      BY DEF ConfigInit
  <2>2. watch \in WatchState
      BY DEF ConfigInit, WatchState
  <2>3. \A u \in DOMAIN updates : updates[u].step = "idle"
      BY <2>1 DEF Idle
  <2>4. listeners \in Seq(Listener)
      BY <2>1
  <2>5. ConfigTypes
      BY <2>1, <2>2, <2>3, <2>4 DEF ConfigTypes
  <2>6. Whole(config)
      BY LoadedIsWhole DEF ConfigInit
  <2>7. RegistryInv
      BY EmptyRegistry DEF ConfigInit
  <2>8. QED  BY <2>3, <2>5, <2>6, <2>7 DEF WholeInv, ConfigShape
<1>2. ConfigShape /\ WholeInv /\ [Next]_vars => (ConfigShape /\ WholeInv)'
    BY ConfigTypesStep, RegistryStep, WholeStep DEF ConfigShape
<1>3. WholeInv' => LoadsAsSaved(config', configFiles'["global"])
    BY SavedLoads DEF WholeInv
<1>4. ConfigShape /\ WholeInv /\ [Next]_vars =>
          [\/ <<config, configFiles>>' = <<config, configFiles>>
           \/ configFiles'["global"] = Unreadable
           \/ LoadsAsSaved(config', configFiles'["global"])]_configVars
    BY <1>2, <1>3
<1>5. QED  BY <1>1, <1>2, <1>4, PTL DEF Spec, SavedLoadsAsSaved

-----------------------------------------------------------------------------
(***************************************************************************)
(* Profiles.                                                               *)
(***************************************************************************)

\* The entry of a file that was cut has no name, which no profile shares.
Named == "" \notin Names

LEMMA LoadedFinds ==
    ASSUME Named, NEW files, NEW n \in Names
    PROVE  /\ n \in DOMAIN Loaded(files) <=> n \in DOMAIN files /\ files[n] /= Blank
           /\ n \in DOMAIN Loaded(files) => Loaded(files)[n] = files[n]
<1> DEFINE named == {m \in DOMAIN files : files[m] /= Blank}
           empty == IF named = DOMAIN files THEN {} ELSE {""}
           all == Builtins \cup named \cup empty
<1>1. Loaded(files) = [m \in all |-> IF m \in named THEN files[m] ELSE IF m = "" THEN "zero" ELSE "builtin"]
    BY Zenon DEF Loaded
<1>2. n \notin empty
    BY Zenon DEF Named
<1>3. n \notin Builtins
    BY FilesAssumption, Zenon
<1>4. n \in all <=> n \in named
    BY <1>2, <1>3, Zenon
<1>5. DOMAIN Loaded(files) = all
    BY <1>1, Zenon
<1>6. n \in all => Loaded(files)[n] = files[n]
    BY <1>1, <1>4, Zenon
<1>7. QED  BY <1>4, <1>5, <1>6, Zenon

\* Names that a step leaves alone keep their profile and their file.
SameFor(m) ==
    /\ m \in DOMAIN profiles' <=> m \in DOMAIN profiles
    /\ m \in DOMAIN profiles => profiles'[m] = profiles[m]
    /\ m \in DOMAIN profileFiles' <=> m \in DOMAIN profileFiles
    /\ m \in DOMAIN profileFiles => profileFiles'[m] = profileFiles[m]
    /\ m \notin unsaved' => m \notin unsaved

LEMMA OneProfileChanges ==
    ASSUME ProfilesMatchFiles, NEW n,
           \A m \in Names \ {n} : SameFor(m),
           n \in Names /\ n \notin unsaved' =>
               /\ n \in DOMAIN profiles' <=> n \in DOMAIN profileFiles'
               /\ n \in DOMAIN profiles' => profiles'[n] = profileFiles'[n]
    PROVE  ProfilesMatchFiles'
<1> SUFFICES ASSUME NEW m \in Names, m \notin unsaved'
             PROVE  /\ m \in DOMAIN profiles' <=> m \in DOMAIN profileFiles'
                    /\ m \in DOMAIN profiles' => profiles'[m] = profileFiles'[m]
    BY DEF ProfilesMatchFiles
<1>1. CASE m = n
    BY <1>1
<1>2. CASE m /= n
    BY <1>2 DEF SameFor, ProfilesMatchFiles
<1>3. QED  BY <1>1, <1>2

\* Saving a profile that memory has got by then.
LEMMA SavedProfileMatches ==
    ASSUME ProfilesMatchFiles, NEW n, NEW c,
           profiles' = With(profiles, n, c), SaveProfile(n, c)
    PROVE  ProfilesMatchFiles'
<1>1. CASE n \in Builtins
  <2>1. n \notin Names
      BY <1>1, FilesAssumption
  <2>2. \A m \in Names \ {n} : SameFor(m)
      BY <1>1 DEF SameFor, SaveProfile, With
  <2>3. QED  BY <2>1, <2>2, OneProfileChanges
<1>2. CASE profileFiles' = With(profileFiles, n, c) /\ unsaved' = unsaved \ {n}
  <2>1. \A m \in Names \ {n} : SameFor(m)
      BY <1>2 DEF SameFor, With
  <2>2. /\ n \in DOMAIN profiles' /\ profiles'[n] = c
        /\ n \in DOMAIN profileFiles' /\ profileFiles'[n] = c
      BY <1>2 DEF With
  <2>3. QED  BY <2>1, <2>2, OneProfileChanges
<1>3. CASE profileFiles' = With(profileFiles, n, Blank) /\ unsaved' = unsaved \cup {n}
  <2>1. \A m \in Names \ {n} : SameFor(m)
      BY <1>3 DEF SameFor, With
  <2>2. n \in unsaved'
      BY <1>3
  <2>3. QED  BY <2>1, <2>2, OneProfileChanges
<1>4. QED  BY <1>1, <1>2, <1>3 DEF SaveProfile

LEMMA StoreStep ==
    ASSUME Named, ProfilesMatchFiles, [Next]_vars
    PROVE  ProfilesMatchFiles'
<1>1. CASE UNCHANGED <<profiles, profileFiles, unsaved>>
    BY <1>1 DEF ProfilesMatchFiles
<1>2. CASE NewProfile
    BY <1>2, SavedProfileMatches DEF NewProfile, CreateProfile
<1>3. CASE CloneProfile
    BY <1>3, SavedProfileMatches DEF CloneProfile, CreateProfile
<1>4. CASE UpdateProfile
    BY <1>4, SavedProfileMatches DEF UpdateProfile
<1>5. CASE DeleteProfile
  <2>1. PICK n \in DOMAIN profiles \ Builtins :
            /\ profiles' = Without(profiles, n)
            /\ \/ profileFiles' = Without(profileFiles, n) /\ unsaved' = unsaved \ {n}
               \/ UNCHANGED profileFiles /\ unsaved' = unsaved \cup {n}
      BY <1>5 DEF DeleteProfile
  <2>2. \A m \in Names \ {n} : SameFor(m)
      BY <2>1 DEF SameFor, Without, Restrict
  <2>3. n \notin DOMAIN profiles'
      BY <2>1 DEF Without, Restrict
  <2>4. n \notin unsaved' => n \notin DOMAIN profileFiles'
      BY <2>1 DEF Without, Restrict
  <2>5. QED  BY <2>2, <2>3, <2>4, OneProfileChanges
<1>6. CASE ImportProfile
  <2>1. PICK n, c : /\ profiles' = With(profiles, n, c)
                    /\ unsaved' = unsaved \cup {n}
                    /\ UNCHANGED profileFiles
      BY <1>6 DEF ImportProfile
  <2>2. \A m \in Names \ {n} : SameFor(m)
      BY <2>1 DEF SameFor, With
  <2>3. n \in unsaved'
      BY <2>1
  <2>4. QED  BY <2>2, <2>3, OneProfileChanges
<1>7. CASE Restart
  <2>1. /\ profiles' = Loaded(profileFiles)
        /\ unsaved' = {n \in DOMAIN profileFiles : profileFiles[n] = Blank}
        /\ profileFiles' = profileFiles
      BY <1>7 DEF Restart
  <2>2. QED  BY <2>1, LoadedFinds DEF ProfilesMatchFiles
<1>8. SetEnvironment \/ SaveEnvironmentConfig \/ UNCHANGED storeVars => UNCHANGED <<profiles, profileFiles, unsaved>>
    BY DEF SetEnvironment, SaveEnvironmentConfig, storeVars
<1>9. StoreNext \/ UNCHANGED storeVars
    BY StepOfAPart
<1>10. QED
    BY <1>1, <1>2, <1>3, <1>4, <1>5, <1>6, <1>7, <1>8, <1>9 DEF StoreNext

(* For every set of profiles with names: those in memory are those the next start finds,   *)
(* unless the last write of the file failed or the profile was imported.  (CreateProfile   *)
(* does not refuse an empty name, and a file that was cut is read as a profile without a   *)
(* name: such a profile is not covered.)                                                   *)
THEOREM ProfilesAreWhatIsStored == Named /\ Spec => []ProfilesMatchFiles
<1> SUFFICES ASSUME Named PROVE Spec => []ProfilesMatchFiles
    OBVIOUS
<1>1. Init => ProfilesMatchFiles
  <2> SUFFICES ASSUME StoreInit PROVE ProfilesMatchFiles
      BY DEF Init
  <2>1. profiles = Loaded(profileFiles) /\ DOMAIN profileFiles = {}
      BY DEF StoreInit
  <2>2. QED  BY <2>1, LoadedFinds DEF ProfilesMatchFiles
<1>2. ProfilesMatchFiles /\ [Next]_vars => ProfilesMatchFiles'
    BY StoreStep
<1>3. QED  BY <1>1, <1>2, PTL DEF Spec

-----------------------------------------------------------------------------
(***************************************************************************)
(* The migration of configuration files.                                   *)
(***************************************************************************)

\* What is covered stays so: a backup is only written over with a note of it.
LEMMA CoveredStays ==
    ASSUME NEW p \in Paths, Covered(p), originals'[p] = originals[p],
           \/ UNCHANGED backups
           \/ \E name, x : backups' = With(backups, name, [contents |-> x, again |-> name \in DOMAIN backups])
    PROVE  Covered(p)'
<1>1. PICK b \in DOMAIN backups : /\ b[1] = DetectConfigVersion(originals[p])
                                  /\ backups[b].contents = originals[p] \/ backups[b].again
    BY DEF Covered
<1>2. CASE UNCHANGED backups
    BY <1>1, <1>2 DEF Covered
<1>3. CASE \E name, x : backups' = With(backups, name, [contents |-> x, again |-> name \in DOMAIN backups])
  <2>1. PICK name, x : backups' = With(backups, name, [contents |-> x, again |-> name \in DOMAIN backups])
      BY <1>3
  <2>2. b \in DOMAIN backups' /\ backups'[b] = IF b = name THEN [contents |-> x, again |-> name \in DOMAIN backups] ELSE backups[b]
      BY <2>1 DEF With
  <2>3. ASSUME b = name PROVE backups'[b].again
    <3>1. (name \in DOMAIN backups) = TRUE
        BY <2>3
    <3>2. backups'[b] = [contents |-> x, again |-> TRUE]
        BY <2>2, <2>3, <3>1, Zenon
    <3>3. QED  BY <3>2
  <2>4. b /= name => backups'[b] = backups[b]
      BY <2>2
  <2>5. QED  BY <1>1, <2>2, <2>3, <2>4 DEF Covered
<1>4. QED  BY <1>2, <1>3

\* A step of one file, which covers what it covered, and no other file.
LEMMA OthersKeepTheirs ==
    ASSUME MigrationInv, NEW p \in Paths,
           DOMAIN versioned' = Paths, DOMAIN originals' = Paths, DOMAIN migration' = Paths,
           "step" \in DOMAIN migration'[p],
           \A q \in Paths \ {p} : /\ versioned'[q] = versioned[q]
                                  /\ originals'[q] = originals[q]
                                  /\ migration'[q] = migration[q],
           \A q \in Paths : originals'[q] = originals[q] /\ Covered(q) => Covered(q)',
           Migrating(p, "backup")' => migration'[p].data = versioned'[p],
           Migrating(p, "write")' \/ Migrating(p, "rest")' => Covered(p)',
           originals'[p] = versioned'[p] \/ Covered(p)'
    PROVE  MigrationInv'
<1>1. MigrationTypes'
    BY DEF MigrationInv, MigrationTypes
<1>2. ASSUME NEW q \in Paths
      PROVE  /\ Migrating(q, "backup")' => migration'[q].data = versioned'[q]
             /\ Migrating(q, "write")' \/ Migrating(q, "rest")' => Covered(q)'
             /\ originals'[q] = versioned'[q] \/ Covered(q)'
  <2>1. CASE q = p
      BY <2>1
  <2>2. CASE q /= p
    <3>1. \A step : Migrating(q, step)' <=> Migrating(q, step)
        BY <2>2 DEF Migrating
    <3>2. originals[q] = versioned[q] \/ Covered(q)
        BY DEF MigrationInv, OriginalIsKept, Covered
    <3>3. Covered(q) => Covered(q)'
        BY <2>2
    <3>4. QED  BY <2>2, <3>1, <3>2, <3>3 DEF MigrationInv, BackupFirst
  <2>3. QED  BY <2>1, <2>2
<1>3. BackupFirst'
    BY <1>2 DEF BackupFirst
<1>4. OriginalIsKept'
    BY <1>2 DEF OriginalIsKept, Covered
<1>5. QED  BY <1>1, <1>3, <1>4 DEF MigrationInv

LEMMA MigrationStep ==
    ASSUME MigrationInv, [Next]_vars
    PROVE  MigrationInv'
<1> USE DEF MigrationInv, MigrationTypes
<1>a. \A p \in Paths : originals[p] = versioned[p] \/ Covered(p)
    BY DEF OriginalIsKept, Covered
<1>b. ASSUME NEW p \in Paths, UNCHANGED backups, originals'[p] = originals[p], Covered(p)
      PROVE  Covered(p)'
    BY <1>b, CoveredStays
<1>1. CASE UNCHANGED migrationVars
    BY <1>1 DEF migrationVars, BackupFirst, OriginalIsKept, Covered, Migrating
<1>2. CASE ReadConfig
  <2>1. PICK p \in Paths : /\ migration' = [migration EXCEPT ![p] = [step |-> "backup", data |-> versioned[p]]]
                           /\ UNCHANGED <<versioned, originals, backups, seconds>>
      BY <1>2 DEF ReadConfig
  <2>2. migration'[p] = [step |-> "backup", data |-> versioned[p]]
      BY <2>1
  <2>3. "step" \in DOMAIN migration'[p] /\ migration'[p].data = versioned'[p]
      BY <2>1, <2>2
  <2>4. ~ Migrating(p, "write")' /\ ~ Migrating(p, "rest")'
      BY <2>2 DEF Migrating
  <2>5. QED  BY <1>a, <1>b, <2>1, <2>3, <2>4, OthersKeepTheirs
<1>3. CASE CreateBackup
  <2>1. PICK p \in Paths :
            /\ Migrating(p, "backup")
            /\ LET name == <<DetectConfigVersion(migration[p].data), seconds>>
               IN /\ backups' = With(backups, name, [contents |-> versioned[p], again |-> name \in DOMAIN backups])
                  /\ migration' = [migration EXCEPT ![p] = [step |-> "write", data |-> @.data, backup |-> name]]
            /\ UNCHANGED <<versioned, originals, seconds>>
      BY <1>3 DEF CreateBackup
  <2>2. PICK name : /\ name = <<DetectConfigVersion(migration[p].data), seconds>>
                    /\ backups' = With(backups, name, [contents |-> versioned[p], again |-> name \in DOMAIN backups])
                    /\ migration' = [migration EXCEPT ![p] = [step |-> "write", data |-> migration[p].data, backup |-> name]]
      BY <2>1
  <2>3. migration'[p] = [step |-> "write", data |-> migration[p].data, backup |-> name]
      BY <2>2
  <2>4. "step" \in DOMAIN migration'[p] /\ ~ Migrating(p, "backup")'
      BY <2>3 DEF Migrating
  <2>5. \A q \in Paths : originals'[q] = originals[q] /\ Covered(q) => Covered(q)'
      BY <2>2, CoveredStays
  <2>6. originals[p] = versioned[p] => Covered(p)'
    <3>1. name \in DOMAIN backups' /\ backups'[name].contents = versioned[p]
        BY <2>2 DEF With
    <3>2. name[1] = DetectConfigVersion(versioned[p])
        BY <2>1, <2>2 DEF BackupFirst
    <3>3. QED  BY <2>1, <3>1, <3>2 DEF Covered
  <2>7. Covered(p)'
      BY <1>a, <2>1, <2>5, <2>6
  <2>8. QED  BY <2>1, <2>2, <2>4, <2>5, <2>7, OthersKeepTheirs
<1>4. CASE CutConfig
  <2>1. PICK p \in Paths : /\ Migrating(p, "write")
                           /\ versioned' = [versioned EXCEPT ![p] = Blank]
                           /\ migration' = [migration EXCEPT ![p].step = "rest"]
                           /\ UNCHANGED <<originals, backups, seconds>>
      BY <1>4 DEF CutConfig
  <2>2. migration'[p].step = "rest" /\ "step" \in DOMAIN migration'[p]
      BY <2>1
  <2>3. ~ Migrating(p, "backup")'
      BY <2>2 DEF Migrating
  <2>4. Covered(p)'
      BY <1>b, <2>1 DEF BackupFirst
  <2>5. QED  BY <1>b, <2>1, <2>2, <2>3, <2>4, OthersKeepTheirs
<1>5. CASE WriteMigrated
  <2>1. PICK p \in Paths : /\ Migrating(p, "rest")
                           /\ versioned' = [versioned EXCEPT ![p] = Migrated(migration[p].data)]
                           /\ migration' = [migration EXCEPT ![p].step = "migrated"]
                           /\ UNCHANGED <<originals, backups, seconds>>
      BY <1>5 DEF WriteMigrated
  <2>2. migration'[p].step = "migrated" /\ "step" \in DOMAIN migration'[p]
      BY <2>1
  <2>3. ~ Migrating(p, "backup")'
      BY <2>2 DEF Migrating
  <2>4. Covered(p)'
      BY <1>b, <2>1 DEF BackupFirst
  <2>5. QED  BY <1>b, <2>1, <2>2, <2>3, <2>4, OthersKeepTheirs
<1>6. CASE MigrationEnds
  <2>1. PICK p \in Paths : /\ migration' = [migration EXCEPT ![p] = MigrationIdle]
                           /\ UNCHANGED <<versioned, originals, backups, seconds>>
      BY <1>6 DEF MigrationEnds
  <2>2. migration'[p].step = "none" /\ "step" \in DOMAIN migration'[p]
      BY <2>1 DEF MigrationIdle
  <2>3. ~ Migrating(p, "backup")' /\ ~ Migrating(p, "write")' /\ ~ Migrating(p, "rest")'
      BY <2>2 DEF Migrating
  <2>4. QED  BY <1>a, <1>b, <2>1, <2>2, <2>3, OthersKeepTheirs
<1>7. CASE SaveUnversioned
  <2>1. PICK p \in Paths :
            /\ versioned' = [versioned EXCEPT ![p] = [form |-> "raw", version |-> 2, settings |-> "saved"]]
            /\ originals' = [originals EXCEPT ![p] = versioned'[p]]
            /\ migration' = [migration EXCEPT ![p] = MigrationIdle]
            /\ UNCHANGED <<backups, seconds>>
      BY <1>7 DEF SaveUnversioned
  <2>2. migration'[p].step = "none" /\ "step" \in DOMAIN migration'[p]
      BY <2>1 DEF MigrationIdle
  <2>3. ~ Migrating(p, "backup")' /\ ~ Migrating(p, "write")' /\ ~ Migrating(p, "rest")'
      BY <2>2 DEF Migrating
  <2>4. originals'[p] = versioned'[p]
      BY <2>1
  <2>5. QED  BY <1>b, <2>1, <2>2, <2>3, <2>4, OthersKeepTheirs
<1>8. CASE PassSecond
    BY <1>8 DEF PassSecond, BackupFirst, OriginalIsKept, Covered, Migrating
<1>9. MigrationNext \/ UNCHANGED migrationVars
    BY StepOfAPart
<1>10. QED
    BY <1>1, <1>2, <1>3, <1>4, <1>5, <1>6, <1>7, <1>8, <1>9 DEF MigrationNext

(* What a configuration file held before its migration is in the file or in a backup,      *)
(* however often migrations of the files fail, end and are begun again.                    *)
THEOREM MigrationsKeepOriginals == Spec => []OriginalIsKept
<1>1. Init => MigrationInv
  <2> SUFFICES ASSUME MigrationInit PROVE MigrationInv
      BY DEF Init
  <2>1. versioned = originals /\ DOMAIN versioned = Paths
      BY DEF MigrationInit
  <2>2. migration = [p \in Paths |-> [step |-> "none"]]
      BY DEF MigrationInit, MigrationIdle
  <2>3. QED
      BY <2>1, <2>2 DEF MigrationInv, MigrationTypes, BackupFirst, OriginalIsKept, Migrating
<1>2. MigrationInv /\ [Next]_vars => MigrationInv'
    BY MigrationStep
<1>3. MigrationInv => OriginalIsKept
    BY DEF MigrationInv
<1>4. QED  BY <1>1, <1>2, <1>3, PTL DEF Spec

-----------------------------------------------------------------------------
(***************************************************************************)
(* Backups of conversations.                                               *)
(***************************************************************************)
\* What the cleanup keeps has the newest archive in it.
LEMMA NewestIsKept ==
    ASSUME ArchiveInv, backup.step /= "none", NEW kept \in SUBSET DOMAIN archives,
           Cardinality(kept) >= IF Cardinality(DOMAIN archives) > MaxArchives
                                THEN MaxArchives ELSE Cardinality(DOMAIN archives),
           \A s \in kept, t \in DOMAIN archives \ kept : s > t
    PROVE  backup.name \in kept
<1>1. IsFiniteSet(DOMAIN archives)
  <2>1. 0 \in Int /\ clock \in Int /\ DOMAIN archives \subseteq 0..clock
      BY DEF ArchiveInv, ArchiveTypes
  <2>2. IsFiniteSet(0..clock)
      BY <2>1, FS_Interval
  <2>3. QED  BY <2>1, <2>2, FS_Subset
<1>2. backup.name \in DOMAIN archives /\ \A s \in DOMAIN archives : s <= backup.name
    BY DEF ArchiveInv, BackupIsNewest
<1>3. Cardinality(DOMAIN archives) \in Nat /\ Cardinality(DOMAIN archives) /= 0
    BY <1>1, <1>2, FS_CardinalityType, FS_EmptySet
<1>4. MaxArchives \in Nat /\ MaxArchives >= 1
    BY TransferAssumption
<1>5. IsFiniteSet(kept) /\ Cardinality(kept) \in Nat /\ Cardinality(kept) >= 1
    BY <1>1, <1>3, <1>4, FS_Subset, FS_CardinalityType
<1>6. kept /= {}
    BY <1>5, FS_EmptySet
<1>7. PICK s \in kept : TRUE
    BY <1>6
<1>8. backup.name \in Nat /\ s \in Nat
    BY <1>2 DEF ArchiveInv, ArchiveTypes
<1>9. QED  BY <1>2, <1>7, <1>8

LEMMA BackupStep ==
    ASSUME ArchiveInv, [Next]_vars
    PROVE  ArchiveInv'
<1> USE DEF ArchiveInv, ArchiveTypes
<1>1. CASE UNCHANGED <<history, archiveVars>>
    BY <1>1 DEF archiveVars, BackupIsNewest, ArchivesKept, Complete
<1>2. CASE BeginBackup
  <2>1. /\ backup.step = "none" /\ clock' = clock /\ history' = history /\ returned' = returned
        /\ DOMAIN archives' = DOMAIN archives \cup {clock}
        /\ archives'[clock] = [contents |-> None, metadata |-> None]
        /\ \A s \in DOMAIN archives \ {clock} : archives'[s] = archives[s]
        /\ lostBy' = {} => lostBy = {} /\ clock \notin DOMAIN archives
        /\ backup' = [step |-> "fill", name |-> clock, of |-> history]
      BY <1>2 DEF BeginBackup
  <2>2. ArchiveTypes'
      BY <2>1
  <2>3. BackupIsNewest'
      BY <2>1 DEF BackupIsNewest
  <2>4. ArchivesKept'
      BY <2>1 DEF ArchivesKept, Complete
  <2>5. QED  BY <2>2, <2>3, <2>4
<1>3. CASE FillArchive
  <2>1. backup.step = "fill" /\ backup' = [backup EXCEPT !.step = "cleanup"]
      BY <1>3 DEF FillArchive
  <2>2. UNCHANGED <<history, archives, returned, lostBy, clock>>
      BY <1>3 DEF FillArchive
  <2>3. ArchiveTypes'
      BY <2>1, <2>2
  <2>4. BackupIsNewest' /\ ArchivesKept'
      BY <2>1, <2>2 DEF BackupIsNewest, ArchivesKept, Complete
  <2>5. QED  BY <2>3, <2>4
<1>4. CASE CleanupOldBackups
  <2>1. PICK kept \in SUBSET DOMAIN archives :
            /\ Cardinality(kept) >= IF Cardinality(DOMAIN archives) > MaxArchives
                                    THEN MaxArchives ELSE Cardinality(DOMAIN archives)
            /\ \A s \in kept, t \in DOMAIN archives \ kept : s > t
            /\ archives' = [s \in kept |-> archives[s]]
      BY <1>4 DEF CleanupOldBackups
  <2>2. backup.step = "cleanup" /\ backup' = [backup EXCEPT !.step = "close"]
      BY <1>4 DEF CleanupOldBackups
  <2>3. UNCHANGED <<history, returned, lostBy, clock>>
      BY <1>4 DEF CleanupOldBackups
  <2>4. backup.name \in kept
      BY <2>1, <2>2, NewestIsKept
  <2>5. ArchiveTypes' /\ backup'.step = "close"
      BY <2>1, <2>2, <2>3
  <2>6. BackupIsNewest' /\ ArchivesKept'
      BY <2>1, <2>2, <2>4, <2>5 DEF BackupIsNewest, ArchivesKept
  <2>7. QED  BY <2>5, <2>6
<1>5. CASE CloseArchive
  <2>1. PICK whole \in BOOLEAN, contents \in {None, backup.of} :
          /\ archives' = [s \in DOMAIN archives |-> IF s = backup.name
                            THEN [contents |-> IF whole THEN backup.of ELSE contents,
                                  metadata |-> IF whole THEN backup.of ELSE None] ELSE archives[s]]
          /\ lostBy' = IF whole THEN lostBy ELSE lostBy \cup {"unclosed"}
          /\ returned' = (returned \/ whole)
      BY <1>5 DEF CloseArchive
  <2>2. backup.step = "close" /\ backup' = [step |-> "none"] /\ UNCHANGED <<history, clock>>
      BY <1>5 DEF CloseArchive
  <2>3. backup.name \in DOMAIN archives /\ backup.of /= None
      BY <2>2 DEF BackupIsNewest
  <2>4. ArchivesKept'
    <3>1. CASE whole
      <4>1. archives'[backup.name] = [contents |-> backup.of, metadata |-> backup.of]
          BY <2>1, <2>3, <3>1
      <4>2. QED  BY <2>1, <2>2, <2>3, <4>1 DEF ArchivesKept, Complete
    <3>2. CASE ~ whole
      <4>1. lostBy' /= {}
          BY <2>1, <3>2
      <4>2. QED  BY <4>1 DEF ArchivesKept
    <3>3. QED  BY <3>1, <3>2
  <2>5. QED  BY <2>1, <2>2, <2>4 DEF BackupIsNewest
<1>6. CASE BackupFails
  <2>1. PICK flushed \in BOOLEAN :
            archives' = [s \in DOMAIN archives |-> IF s = backup.name /\ flushed
                           THEN [archives[s] EXCEPT !.contents = backup.of] ELSE archives[s]]
      BY <1>6 DEF BackupFails
  <2>2. /\ backup.step /= "none" /\ backup' = [step |-> "none"]
        /\ lostBy' = {} => lostBy = {} /\ backup.step /= "close"
        /\ UNCHANGED <<history, returned, clock>>
      BY <1>6 DEF BackupFails
  <2>3. ASSUME NEW s \in DOMAIN archives, Complete(s)
        PROVE  s \in DOMAIN archives' /\ Complete(s)'
    <3>1. s /= backup.name
        BY <2>2, <2>3 DEF BackupIsNewest, Complete
    <3>2. QED  BY <2>1, <2>3, <3>1 DEF Complete
  <2>4. ArchivesKept'
      BY <2>2, <2>3 DEF ArchivesKept
  <2>5. QED  BY <2>1, <2>2, <2>4 DEF BackupIsNewest
<1>7. CASE DeleteBackup
  <2>1. lostBy' /= {} /\ backup'.step = "none" /\ UNCHANGED <<history, backup, clock>>
      BY <1>7 DEF DeleteBackup
  <2>2. DOMAIN archives' \subseteq DOMAIN archives
      BY <1>7 DEF DeleteBackup
  <2>3. QED  BY <2>1, <2>2 DEF BackupIsNewest, ArchivesKept
<1>8. CASE RestoreBackup
  <2>1. history' /= None /\ UNCHANGED archiveVars
      BY <1>8 DEF RestoreBackup, Complete
  <2>2. QED  BY <2>1 DEF archiveVars, BackupIsNewest, ArchivesKept, Complete
<1>9. CASE PassTime
    BY <1>9 DEF PassTime, BackupIsNewest, ArchivesKept, Complete
<1>10. BackupNext \/ UNCHANGED <<history, archiveVars>>
    BY StepOfTransfer
<1>11. QED
    BY <1>1, <1>2, <1>3, <1>4, <1>5, <1>6, <1>7, <1>8, <1>9, <1>10 DEF BackupNext

(* For every number of archives kept: once there was a complete backup there is one        *)
(* whenever none is being made, although old ones go before the new one is closed.         *)
THEOREM SomeBackupSurvives == Spec => []BackupSurvives
<1>1. Init => ArchiveInv
  <2> SUFFICES ASSUME TransferInit PROVE ArchiveInv
      BY DEF Init
  <2>1. history /= None
      BY TransferAssumption DEF TransferInit
  <2>2. QED
      BY <2>1 DEF TransferInit, ArchiveInv, ArchiveTypes, BackupIsNewest, ArchivesKept
<1>2. ArchiveInv /\ [Next]_vars => ArchiveInv'
    BY BackupStep
<1>3. ArchiveInv => BackupSurvives
    BY DEF ArchiveInv, ArchivesKept, BackupSurvives
<1>4. QED  BY <1>1, <1>2, <1>3, PTL DEF Spec

-----------------------------------------------------------------------------
(***************************************************************************)
(* The conversations on the screen.                                        *)
(***************************************************************************)
\* Blocks with different ids are as many as their ids, and no more than there are.
LEMMA DifferentIdsCount ==
    ASSUME NEW s \in Seq(Block), Different(s)
    PROVE  /\ Cardinality({s[i].id : i \in 1..Len(s)}) = Len(s)
           /\ Len(s) <= Cardinality(Ids) /\ Cardinality(Ids) \in Nat
<1> DEFINE T == {s[i].id : i \in 1..Len(s)}
           f == [i \in 1..Len(s) |-> s[i].id]
<1>1. T \subseteq Ids /\ Len(s) \in Nat
  <2>1. Len(s) \in Nat /\ \A i \in 1..Len(s) : s[i] \in Block
      OBVIOUS
  <2>2. QED  BY <2>1 DEF Block
<1>2. f \in Bijection(1..Len(s), T)
  <2>1. f \in [1..Len(s) -> T] /\ \A x \in T : \E i \in 1..Len(s) : f[i] = x
      OBVIOUS
  <2>2. \A i, j \in 1..Len(s) : f[i] = f[j] => i = j
      BY DEF Different
  <2> HIDE DEF f, T
  <2>3. QED  BY <2>1, <2>2 DEF Bijection, Injection, Surjection, IsInjective
<1>3. ExistsBijection(1..Len(s), T)
    BY <1>2 DEF ExistsBijection
<1>4. IsFiniteSet(1..Len(s)) /\ Cardinality(1..Len(s)) = Len(s)
  <2>1. 1 \in Int /\ Len(s) \in Int
      BY <1>1
  <2>2. IsFiniteSet(1..Len(s)) /\ Cardinality(1..Len(s)) = IF 1 > Len(s) THEN 0 ELSE Len(s) - 1 + 1
      BY <2>1, FS_Interval
  <2>3. QED  BY <1>1, <2>2
<1> HIDE DEF T
<1>5. Cardinality(T) = Len(s)
    BY <1>3, <1>4, FS_Bijection
<1>6. Cardinality(T) <= Cardinality(Ids) /\ Cardinality(Ids) \in Nat
    BY <1>1, HistoryAssumption, FS_Subset, FS_CardinalityType
<1>7. QED  BY <1>5, <1>6 DEF T

\* The number of newer ones tells the recent conversations apart, and counts them from 0.
LEMMA RecentAreCounted ==
    ASSUME HistoryInv
    PROVE  /\ IsFiniteSet(Recent) /\ Cardinality(Recent) \in Nat
           /\ \A i \in 1..Cardinality(Recent) :
                  \E id \in Recent : Cardinality(NewerThan(id)) = i - 1
<1> DEFINE n == Cardinality(Recent)
           rank == [id \in Recent |-> Cardinality(NewerThan(id))]
<1>1. /\ DOMAIN stored \subseteq Ids /\ DOMAIN stored \subseteq DOMAIN added
      /\ \A a \in DOMAIN added : added[a] \in Nat
      /\ \A a, b \in DOMAIN added : added[a] = added[b] => a = b
    BY DEF HistoryInv, ScreenFollowsStorage, HistoryTypeOK, AddedInOrder
<1>2. IsFiniteSet(DOMAIN stored)
    BY <1>1, HistoryAssumption, FS_Subset
<1>3. Recent \subseteq DOMAIN stored /\ IsFiniteSet(Recent) /\ n \in Nat
    BY <1>2, FS_Subset, FS_CardinalityType DEF Recent
<1>4. ASSUME NEW a \in DOMAIN stored
      PROVE  /\ NewerThan(a) \subseteq DOMAIN stored /\ a \notin NewerThan(a)
             /\ IsFiniteSet(NewerThan(a)) /\ Cardinality(NewerThan(a)) \in Nat
  <2>1. NewerThan(a) \subseteq DOMAIN stored /\ a \notin NewerThan(a)
      BY <1>1 DEF NewerThan
  <2>2. QED  BY <1>2, <2>1, FS_Subset, FS_CardinalityType
<1>5. ASSUME NEW a \in DOMAIN stored, NEW b \in DOMAIN stored, added[a] < added[b]
      PROVE  Cardinality(NewerThan(b)) < Cardinality(NewerThan(a))
  <2>1. NewerThan(b) \cup {b} \subseteq NewerThan(a)
      BY <1>1, <1>5 DEF NewerThan
  <2>2. Cardinality(NewerThan(b) \cup {b}) = Cardinality(NewerThan(b)) + 1
      BY <1>4, FS_AddElement
  <2>3. Cardinality(NewerThan(b) \cup {b}) <= Cardinality(NewerThan(a))
      BY <1>4, <2>1, FS_Subset
  <2>4. QED  BY <1>4, <2>2, <2>3
<1>6. ASSUME NEW a \in Recent PROVE rank[a] \in 0..(n - 1)
  <2>1. ASSUME NEW b \in NewerThan(a) PROVE b \in Recent
    <3>1. b \in DOMAIN stored /\ added[a] < added[b] /\ a \in DOMAIN stored
        BY <1>1, <1>3, <2>1 DEF NewerThan
    <3>2. Cardinality(NewerThan(b)) < Cardinality(NewerThan(a))
        BY <1>5, <3>1
    <3>3. QED
        BY <1>4, <3>1, <3>2, HistoryAssumption DEF Recent
  <2>2. NewerThan(a) \cup {a} \subseteq Recent
      BY <2>1
  <2>3. Cardinality(NewerThan(a) \cup {a}) = Cardinality(NewerThan(a)) + 1
      BY <1>3, <1>4, FS_AddElement
  <2>4. Cardinality(NewerThan(a) \cup {a}) <= n
      BY <1>3, <2>2, FS_Subset
  <2>5. rank[a] = Cardinality(NewerThan(a)) /\ rank[a] \in Nat
      BY <1>3, <1>4
  <2> HIDE DEF n, rank
  <2>6. QED  BY <1>3, <2>3, <2>4, <2>5
<1>7. \A a, b \in Recent : rank[a] = rank[b] => a = b
  <2>1. SUFFICES ASSUME NEW a \in Recent, NEW b \in Recent, rank[a] = rank[b], a # b
                 PROVE  FALSE
      OBVIOUS
  <2>2. added[a] < added[b] \/ added[b] < added[a]
      BY <1>1, <1>3, <2>1
  <2>3. Cardinality(NewerThan(a)) \in Nat /\ Cardinality(NewerThan(a)) = Cardinality(NewerThan(b))
      BY <1>3, <1>4, <2>1
  <2>4. QED  BY <1>3, <1>5, <2>2, <2>3
<1>8. IsFiniteSet(0..(n - 1)) /\ Cardinality(0..(n - 1)) = n
  <2> HIDE DEF n
  <2>1. 0 \in Int /\ n - 1 \in Int
      BY <1>3
  <2>2. /\ IsFiniteSet(0..(n - 1))
        /\ Cardinality(0..(n - 1)) = IF 0 > n - 1 THEN 0 ELSE n - 1 - 0 + 1
      BY <2>1, FS_Interval
  <2>3. QED  BY <1>3, <2>2
<1>9. rank \in Surjection(Recent, 0..(n - 1))
  <2>1. rank \in [Recent -> 0..(n - 1)]
      BY <1>6
  <2> HIDE DEF n, rank
  <2>2. rank \in Injection(Recent, 0..(n - 1))
      BY <1>7, <2>1 DEF Injection, IsInjective
  <2>3. QED  BY <1>3, <1>8, <2>2, FS_Injection DEF n
<1>10. ASSUME NEW i \in 1..n PROVE \E id \in Recent : Cardinality(NewerThan(id)) = i - 1
  <2>1. i - 1 \in 0..(n - 1)
    <3> HIDE DEF n
    <3>1. QED  BY <1>3
  <2>2. \E id \in Recent : rank[id] = i - 1
    <3> HIDE DEF n, rank
    <3>1. QED  BY <1>9, <2>1 DEF Surjection
  <2>3. QED  BY <2>2
<1>11. QED  BY <1>3, <1>10

\* What is read has every recent conversation once, with its status.
LEMMA RecentIsLoaded ==
    ASSUME HistoryInv
    PROVE  /\ LoadedRecent \in Seq(Block)
           /\ \A i \in 1..Len(LoadedRecent) :
                  /\ LoadedRecent[i].id \in DOMAIN stored
                  /\ LoadedRecent[i].status = stored[LoadedRecent[i].id]
           /\ Different(LoadedRecent)
<1> DEFINE n == Cardinality(Recent)
<1>1. n \in Nat /\ \A i \in 1..n : \E id \in Recent : Cardinality(NewerThan(id)) = i - 1
    BY RecentAreCounted
<1> HIDE DEF n
<1>2. PICK found : found = LoadRecent
    OBVIOUS
<1>3. /\ DOMAIN found = 1..n /\ Len(found) = n /\ found \in Seq(DOMAIN stored)
      /\ \A i \in 1..n : found[i] \in DOMAIN stored /\ Cardinality(NewerThan(found[i])) = i - 1
  <2>1. found = [i \in 1..n |-> CHOOSE id \in Recent : Cardinality(NewerThan(id)) = i - 1]
      BY <1>2 DEF LoadRecent, n
  <2>2. \A i \in 1..n : found[i] \in Recent /\ Cardinality(NewerThan(found[i])) = i - 1
      BY <1>1, <2>1
  <2>3. Recent \subseteq DOMAIN stored
      BY DEF Recent
  <2>4. QED  BY <1>1, <2>1, <2>2, <2>3
<1>4. PICK read : read = LoadedRecent
    OBVIOUS
<1>5. read = [i \in 1..n |-> [id |-> found[i], status |-> stored[found[i]], expanded |-> FALSE]]
    BY <1>2, <1>3, <1>4 DEF LoadedRecent
<1>6. \A i \in 1..n : read[i] \in Block
    BY <1>3, <1>5 DEF Block, HistoryInv, ScreenFollowsStorage, HistoryTypeOK
<1>7. read \in Seq(Block) /\ Len(read) = n
    BY <1>1, <1>5, <1>6
<1>8. \A i, j \in 1..n : read[i].id = read[j].id => i = j
    BY <1>1, <1>3, <1>5
<1>9. QED  BY <1>3, <1>4, <1>5, <1>7, <1>8 DEF Different

\* What a step must establish.
LEMMA HistoryFollows ==
    ASSUME HistoryInv, storage' = storage, AddedInOrder',
           NEW blocks \in Seq(Block), cachedBlocks' = blocks, Different(blocks),
           NEW has, stored' = has, DOMAIN has \subseteq DOMAIN added',
           \A id \in DOMAIN has : has[id] \in Statuses,
           \A i \in 1..Len(blocks) : blocks[i].id \in DOMAIN added',
           storage /= "none" => \A i \in 1..Len(blocks) : blocks[i].id \in DOMAIN has,
           storage = "reliable" => \A i \in 1..Len(blocks) : blocks[i].status = has[blocks[i].id],
           selected' \in -1..(Cardinality(Ids) - 1),
           storage /= "failing" => selected' = -1 \/ (selected' >= 0 /\ selected' < Len(blocks))
    PROVE  HistoryInv'
<1>1. /\ Positions' = 1..Len(blocks)
      /\ CachedIds' = {blocks[i].id : i \in 1..Len(blocks)}
    BY DEF Positions, CachedIds
<1>2. HistoryTypeOK'
    BY DEF HistoryInv, ScreenFollowsStorage, HistoryTypeOK, AddedInOrder
<1>3. Cardinality({blocks[i].id : i \in 1..Len(blocks)}) = Len(blocks)
    BY DifferentIdsCount
<1>4. CachedAreStored'
    BY <1>1, <1>3 DEF CachedAreStored
<1>5. StatusIsStored' /\ SelectionInBounds'
    BY <1>1 DEF StatusIsStored, SelectionInBounds, InBounds
<1>6. Different(cachedBlocks)'
    BY DEF Different
<1>7. QED  BY <1>2, <1>4, <1>5, <1>6 DEF HistoryInv, ScreenFollowsStorage

\* What the invariant says of the blocks and of what is stored.
LEMMA HistoryFacts ==
    ASSUME HistoryInv
    PROVE  /\ cachedBlocks \in Seq(Block) /\ Len(cachedBlocks) \in Nat
           /\ Len(cachedBlocks) <= Cardinality(Ids) /\ Cardinality(Ids) \in Nat
           /\ \A i \in 1..Len(cachedBlocks) : cachedBlocks[i] \in Block
           /\ \A i \in 1..Len(cachedBlocks) : cachedBlocks[i].id \in DOMAIN added
           /\ storage /= "none" => \A i \in 1..Len(cachedBlocks) : cachedBlocks[i].id \in DOMAIN stored
           /\ storage = "reliable" =>
                  \A i \in 1..Len(cachedBlocks) : cachedBlocks[i].status = stored[cachedBlocks[i].id]
           /\ selected \in -1..(Cardinality(Ids) - 1)
           /\ storage /= "failing" =>
                  selected = -1 \/ (selected >= 0 /\ selected < Len(cachedBlocks))
           /\ \A id \in DOMAIN stored : stored[id] \in Statuses
<1>1. /\ cachedBlocks \in Seq(Block) /\ selected \in -1..(Cardinality(Ids) - 1)
      /\ \A id \in DOMAIN stored : stored[id] \in Statuses
    BY DEF HistoryInv, ScreenFollowsStorage, HistoryTypeOK
<1>2. Len(cachedBlocks) <= Cardinality(Ids) /\ Cardinality(Ids) \in Nat
    BY <1>1, DifferentIdsCount DEF HistoryInv
<1>3. /\ storage /= "none" => CachedIds \subseteq DOMAIN stored
      /\ storage = "reliable" =>
             \A i \in Positions : cachedBlocks[i].status = stored[cachedBlocks[i].id]
      /\ storage /= "failing" => selected = -1 \/ InBounds(selected)
    BY DEF HistoryInv, ScreenFollowsStorage, CachedAreStored, StatusIsStored, SelectionInBounds
<1>4. storage /= "none" => \A i \in 1..Len(cachedBlocks) : cachedBlocks[i].id \in DOMAIN stored
    BY <1>3 DEF CachedIds, Positions
<1>5. storage = "reliable" =>
          \A i \in 1..Len(cachedBlocks) : cachedBlocks[i].status = stored[cachedBlocks[i].id]
    BY <1>3 DEF Positions
<1>6. storage /= "failing" => selected = -1 \/ (selected >= 0 /\ selected < Len(cachedBlocks))
    BY <1>3 DEF InBounds
<1>7. QED  BY <1>1, <1>2, <1>4, <1>5, <1>6 DEF HistoryInv

\* A call of the storage fails only if it is one that may.
LEMMA FailureIsAllowed == ASSUME NEW ok \in Outcomes, ~ ok PROVE storage = "failing"
BY DEF Outcomes

LEMMA AddConversationStep ==
    ASSUME HistoryInv, NEW id \in Ids, AddConversation(id) PROVE HistoryInv'
<1>1. /\ id \notin DOMAIN added /\ storage' = storage
      /\ added' = Extended(added, id, Cardinality(DOMAIN added) + 1)
    BY DEF AddConversation
<1>2. /\ IsFiniteSet(DOMAIN added) /\ Cardinality(DOMAIN added) \in Nat
      /\ Cardinality(DOMAIN added \cup {id}) = Cardinality(DOMAIN added) + 1
  <2>1. DOMAIN added \subseteq Ids
      BY DEF HistoryInv, AddedInOrder
  <2>2. IsFiniteSet(DOMAIN added)
      BY <2>1, HistoryAssumption, FS_Subset
  <2>3. QED  BY <1>1, <2>2, FS_CardinalityType, FS_AddElement
<1>3. /\ DOMAIN added' = DOMAIN added \cup {id} /\ added'[id] = Cardinality(DOMAIN added) + 1
      /\ \A other \in DOMAIN added : added'[other] = added[other]
    BY <1>1 DEF Extended
<1>4. AddedInOrder'
  <2>1. \A other \in DOMAIN added' : other \in Ids /\ added'[other] \in 1..Cardinality(DOMAIN added')
      BY <1>2, <1>3 DEF HistoryInv, AddedInOrder
  <2>2. \A a, b \in DOMAIN added' : added'[a] = added'[b] => a = b
      BY <1>2, <1>3 DEF HistoryInv, AddedInOrder
  <2>3. QED  BY <2>1, <2>2 DEF AddedInOrder
<1>5. PICK ok \in Outcomes :
          IF ok
          THEN LET b == [id |-> id, status |-> "completed", expanded |-> FALSE]
               IN  /\ Save(b)
                   /\ cachedBlocks' = Append(cachedBlocks, b)
                   /\ selected' = Len(cachedBlocks)
          ELSE UNCHANGED <<stored, cachedBlocks, selected>>
    BY DEF AddConversation
<1>6. CASE ~ ok
  <2>1. UNCHANGED <<stored, cachedBlocks, selected>>
      BY <1>5, <1>6
  <2>2. DOMAIN stored \subseteq DOMAIN added' /\ Different(cachedBlocks)
      BY <1>3 DEF HistoryInv
  <2>3. QED  BY <1>1, <1>3, <1>4, <2>1, <2>2, HistoryFacts, HistoryFollows
<1>7. CASE ok
  <2>1. PICK b : b = [id |-> id, status |-> "completed", expanded |-> FALSE]
      OBVIOUS
  <2>2. b \in Block /\ b.id = id /\ b.status = "completed" /\ b.status \in Statuses
      BY <2>1, HistoryAssumption DEF Block
  <2>3. /\ stored' = IF storage = "none" THEN stored ELSE Extended(stored, id, "completed")
        /\ cachedBlocks' = Append(cachedBlocks, b) /\ selected' = Len(cachedBlocks)
      BY <1>5, <1>7, <2>1 DEF Save
  <2>4. PICK has : has = stored'
      OBVIOUS
  <2>5. /\ DOMAIN has \subseteq DOMAIN stored \cup {id} /\ DOMAIN stored \subseteq DOMAIN has
        /\ \A other \in DOMAIN has \ {id} : has[other] = stored[other]
        /\ storage /= "none" => id \in DOMAIN has
        /\ id \in DOMAIN has => has[id] = "completed"
    <3>1. id \notin DOMAIN stored
        BY <1>1 DEF HistoryInv
    <3>2. CASE storage = "none"
        BY <2>3, <2>4, <3>1, <3>2
    <3>3. CASE storage /= "none"
        BY <2>3, <2>4, <3>3 DEF Extended
    <3>4. QED  BY <3>2, <3>3
  <2>6. PICK blocks : blocks = Append(cachedBlocks, b)
      OBVIOUS
  <2>7. /\ blocks \in Seq(Block) /\ Len(blocks) = Len(cachedBlocks) + 1
        /\ blocks[Len(cachedBlocks) + 1] = b
        /\ \A i \in 1..Len(cachedBlocks) : blocks[i] = cachedBlocks[i]
      BY <2>2, <2>6, HistoryFacts
  <2>8. \A i \in 1..Len(blocks) : i = Len(cachedBlocks) + 1 \/ i \in 1..Len(cachedBlocks)
      BY <2>7, HistoryFacts
  <2>9. Different(blocks)
    <3>1. \A i \in 1..Len(cachedBlocks) : cachedBlocks[i].id /= id
        BY <1>1, HistoryFacts
    <3>2. Different(cachedBlocks)
        BY DEF HistoryInv
    <3>3. QED  BY <2>2, <2>7, <2>8, <3>1, <3>2 DEF Different
  <2>10. Len(blocks) <= Cardinality(Ids)
      BY <2>7, <2>9, DifferentIdsCount
  <2>11. \A i \in 1..Len(blocks) : blocks[i].id \in DOMAIN added'
      BY <1>3, <2>2, <2>7, <2>8, HistoryFacts
  <2>12. storage /= "none" => \A i \in 1..Len(blocks) : blocks[i].id \in DOMAIN has
      BY <2>2, <2>5, <2>7, <2>8, HistoryFacts
  <2>13. storage = "reliable" => \A i \in 1..Len(blocks) : blocks[i].status = has[blocks[i].id]
    <3>1. SUFFICES ASSUME storage = "reliable", NEW i \in 1..Len(blocks)
                   PROVE  blocks[i].status = has[blocks[i].id]
        OBVIOUS
    <3>2. CASE i = Len(cachedBlocks) + 1
        BY <2>2, <2>5, <2>7, <3>1, <3>2
    <3>3. CASE i \in 1..Len(cachedBlocks)
      <4>1. /\ blocks[i] = cachedBlocks[i] /\ cachedBlocks[i].id \in DOMAIN stored
            /\ cachedBlocks[i].id \in DOMAIN added
            /\ cachedBlocks[i].status = stored[cachedBlocks[i].id]
          BY <2>7, <3>1, <3>3, HistoryFacts
      <4>2. QED  BY <1>1, <2>5, <4>1
    <3>4. QED  BY <2>8, <3>2, <3>3
  <2>14. /\ selected' \in -1..(Cardinality(Ids) - 1)
         /\ selected' >= 0 /\ selected' < Len(blocks)
      BY <2>3, <2>7, <2>10, HistoryFacts
  <2>15. /\ DOMAIN has \subseteq DOMAIN added'
         /\ \A other \in DOMAIN has : has[other] \in Statuses
    <3>1. \A other \in DOMAIN has : other \in DOMAIN stored \/ other = id
        BY <2>5
    <3>2. DOMAIN stored \subseteq DOMAIN added
        BY DEF HistoryInv
    <3>3. QED  BY <1>3, <2>2, <2>5, <3>1, <3>2, HistoryFacts
  <2>16. cachedBlocks' = blocks /\ stored' = has
      BY <2>3, <2>4, <2>6
  <2>17. QED
      BY <1>1, <1>4, <2>7, <2>9, <2>11, <2>12, <2>13, <2>14, <2>15, <2>16, HistoryFollows
<1>8. QED  BY <1>6, <1>7

\* A call that leaves the storage and the blocks alone.
LEMMA SelectionStep ==
    ASSUME HistoryInv, SelectUp \/ SelectDown \/ \E i \in 0..(Cardinality(Ids) - 1) : SetSelected(i)
    PROVE  HistoryInv'
<1>1. UNCHANGED <<storage, stored, cachedBlocks, added>>
    BY DEF SelectUp, SelectDown, SetSelected
<1>2. selected' \in -1..(Cardinality(Ids) - 1) /\ selected' >= 0
    BY HistoryFacts DEF SelectUp, SelectDown, SetSelected, InBounds
<1>3. storage /= "failing" => selected' < Len(cachedBlocks)
    BY HistoryFacts DEF SelectUp, SelectDown, SetSelected, InBounds
<1>4. AddedInOrder' /\ Different(cachedBlocks) /\ DOMAIN stored \subseteq DOMAIN added'
    BY <1>1 DEF HistoryInv, AddedInOrder
<1>5. QED  BY <1>1, <1>2, <1>3, <1>4, HistoryFacts, HistoryFollows

\* The block at position p is changed, not its id, and saved or not.
LEMMA SaveChangedBlock ==
    ASSUME HistoryInv, NEW p \in 1..Len(cachedBlocks), NEW b \in Block, b.id = cachedBlocks[p].id,
           cachedBlocks' = [cachedBlocks EXCEPT ![p] = b],
           NEW ok \in Outcomes, IF ok THEN Save(b) ELSE UNCHANGED stored,
           UNCHANGED <<storage, selected, added>>
    PROVE  HistoryInv'
<1>1. PICK has : has = stored'
    OBVIOUS
<1>2. PICK blocks : blocks = [cachedBlocks EXCEPT ![p] = b]
    OBVIOUS
<1>3. /\ blocks \in Seq(Block) /\ Len(blocks) = Len(cachedBlocks) /\ blocks[p] = b
      /\ \A i \in 1..Len(cachedBlocks) : i /= p => blocks[i] = cachedBlocks[i]
      /\ \A i \in 1..Len(cachedBlocks) : blocks[i].id = cachedBlocks[i].id
    BY <1>2, HistoryFacts
<1>4. Different(cachedBlocks) /\ DOMAIN stored \subseteq DOMAIN added
    BY DEF HistoryInv
<1>5. Different(blocks)
    BY <1>3, <1>4 DEF Different
<1>6. /\ DOMAIN has \subseteq DOMAIN added /\ DOMAIN stored \subseteq DOMAIN has
      /\ \A other \in DOMAIN has : has[other] \in Statuses
      /\ \A other \in DOMAIN stored : other /= b.id => has[other] = stored[other]
      /\ ok /\ storage /= "none" => has[b.id] = b.status
  <2>1. CASE ok /\ storage /= "none"
    <3>1. has = Extended(stored, b.id, b.status)
        BY <1>1, <2>1 DEF Save
    <3>2. b.id \in DOMAIN added /\ b.status \in Statuses
        BY HistoryFacts DEF Block
    <3>3. QED  BY <1>4, <3>1, <3>2, HistoryFacts DEF Extended
  <2>2. CASE ~ (ok /\ storage /= "none")
    <3>1. has = stored
        BY <1>1, <2>2 DEF Save
    <3>2. QED  BY <1>4, <2>2, <3>1, HistoryFacts
  <2>3. QED  BY <2>1, <2>2
<1>7. ASSUME storage = "reliable", NEW i \in 1..Len(blocks)
      PROVE  blocks[i].status = has[blocks[i].id]
  <2>1. ok
      BY <1>7, FailureIsAllowed
  <2>2. CASE i = p
      BY <1>3, <1>6, <1>7, <2>1, <2>2
  <2>3. CASE i /= p
    <3>1. blocks[i] = cachedBlocks[i] /\ cachedBlocks[i].id /= b.id
        BY <1>3, <1>4, <1>7, <2>3 DEF Different
    <3>2. /\ cachedBlocks[i].id \in DOMAIN stored
          /\ cachedBlocks[i].status = stored[cachedBlocks[i].id]
        BY <1>3, <1>7, HistoryFacts
    <3>3. QED  BY <1>6, <3>1, <3>2
  <2>4. QED  BY <2>2, <2>3
<1>8. /\ \A i \in 1..Len(blocks) : blocks[i].id \in DOMAIN added
      /\ storage /= "none" => \A i \in 1..Len(blocks) : blocks[i].id \in DOMAIN has
    BY <1>3, <1>6, HistoryFacts
<1>9. AddedInOrder'
    BY DEF HistoryInv, AddedInOrder
<1>10. cachedBlocks' = blocks /\ stored' = has /\ storage' = storage /\ added' = added
    BY <1>1, <1>2
<1>11. /\ selected' \in -1..(Cardinality(Ids) - 1)
       /\ storage /= "failing" => selected' = -1 \/ (selected' >= 0 /\ selected' < Len(blocks))
    BY <1>3, HistoryFacts
<1>12. QED
    BY <1>3, <1>5, <1>6, <1>7, <1>8, <1>9, <1>10, <1>11, HistoryFollows

LEMMA ToggleStep == ASSUME HistoryInv, ToggleExpanded PROVE HistoryInv'
<1>1. /\ selected >= 0 /\ selected < Len(cachedBlocks) /\ selected \in Int
    BY HistoryFacts DEF ToggleExpanded, InBounds
<1>2. PICK p : p = selected + 1
    OBVIOUS
<1>3. p \in 1..Len(cachedBlocks)
    BY <1>1, <1>2, HistoryFacts
<1>4. PICK b : b = [cachedBlocks[p] EXCEPT !.expanded = ~@]
    OBVIOUS
<1>5. b \in Block /\ b.id = cachedBlocks[p].id /\ b.status = cachedBlocks[p].status
  <2>1. cachedBlocks[p] \in Block
      BY <1>3, HistoryFacts
  <2>2. QED  BY <1>4, <2>1 DEF Block
<1>6. cachedBlocks' = [cachedBlocks EXCEPT ![p] = b]
    BY <1>2, <1>4 DEF ToggleExpanded
<1>7. PICK ok \in Outcomes : IF ok THEN Save(cachedBlocks[p]) ELSE UNCHANGED stored
    BY <1>2 DEF ToggleExpanded
<1>8. IF ok THEN Save(b) ELSE UNCHANGED stored
    BY <1>5, <1>7 DEF Save
<1>9. UNCHANGED <<storage, selected, added>>
    BY <1>2 DEF ToggleExpanded
<1>10. QED  BY <1>3, <1>5, <1>6, <1>8, <1>9, SaveChangedBlock

\* The block of an id that is on the screen is found.
LEMMA FirstIsFound ==
    ASSUME HistoryInv, NEW id \in CachedIds
    PROVE  FirstWith(id) \in 1..Len(cachedBlocks) /\ cachedBlocks[FirstWith(id)].id = id
<1>1. PICK i \in 1..Len(cachedBlocks) : cachedBlocks[i].id = id
    BY DEF CachedIds, Positions
<1>2. \A j \in 1..(i - 1) : j \in 1..Len(cachedBlocks) /\ j /= i
    BY <1>1, HistoryFacts
<1>3. \A j \in 1..(i - 1) : cachedBlocks[j].id /= id
    BY <1>1, <1>2 DEF HistoryInv, Different
<1>4. QED  BY <1>1, <1>3 DEF FirstWith, Positions

LEMMA UpdateStatusStep ==
    ASSUME HistoryInv, NEW id \in Ids, NEW status \in Statuses, UpdateConversationStatus(id, status)
    PROVE  HistoryInv'
<1>1. PICK p : p = FirstWith(id)
    OBVIOUS
<1>2. p \in 1..Len(cachedBlocks) /\ cachedBlocks[p].id = id
    BY <1>1, FirstIsFound DEF UpdateConversationStatus
<1>3. PICK b : b = [cachedBlocks[p] EXCEPT !.status = status]
    OBVIOUS
<1>4. b \in Block /\ b.id = cachedBlocks[p].id
  <2>1. cachedBlocks[p] \in Block
      BY <1>2, HistoryFacts
  <2>2. QED  BY <1>3, <2>1 DEF Block
<1>5. cachedBlocks' = [cachedBlocks EXCEPT ![p] = b]
    BY <1>1, <1>3 DEF UpdateConversationStatus
<1>6. cachedBlocks'[p] = b
    BY <1>2, <1>5, HistoryFacts
<1>7. PICK ok \in Outcomes : IF ok THEN Save(b) ELSE UNCHANGED stored
    BY <1>1, <1>6 DEF UpdateConversationStatus
<1>8. UNCHANGED <<storage, selected, added>>
    BY DEF UpdateConversationStatus
<1>9. QED  BY <1>2, <1>4, <1>5, <1>7, <1>8, SaveChangedBlock

LEMMA DeleteStep ==
    ASSUME HistoryInv, NEW id \in Ids, DeleteConversation(id)
    PROVE  HistoryInv'
<1>1. /\ stored' = [other \in DOMAIN stored \ {id} |-> stored[other]]
      /\ UNCHANGED <<storage, added>>
    BY DEF DeleteConversation
<1>2. PICK has : has = stored'
    OBVIOUS
<1>3. /\ DOMAIN has = DOMAIN stored \ {id} /\ \A other \in DOMAIN has : has[other] = stored[other]
      /\ DOMAIN has \subseteq DOMAIN added /\ \A other \in DOMAIN has : has[other] \in Statuses
    BY <1>1, <1>2, HistoryFacts DEF HistoryInv
<1>4. AddedInOrder' /\ Different(cachedBlocks)
    BY <1>1 DEF HistoryInv, AddedInOrder
<1>5. CASE id \notin CachedIds
  <2>1. UNCHANGED <<cachedBlocks, selected>>
      BY <1>5 DEF DeleteConversation
  <2>2. \A i \in 1..Len(cachedBlocks) : cachedBlocks[i].id /= id
      BY <1>5 DEF CachedIds, Positions
  <2>3. QED  BY <1>1, <1>2, <1>3, <1>4, <2>1, <2>2, HistoryFacts, HistoryFollows
<1>6. CASE id \in CachedIds
  <2>1. PICK p : p = FirstWith(id)
      OBVIOUS
  <2>2. p \in 1..Len(cachedBlocks) /\ cachedBlocks[p].id = id
      BY <1>6, <2>1, FirstIsFound
  <2>3. PICK blocks : blocks = WithoutBlock(p)
      OBVIOUS
  <2>4. cachedBlocks' = blocks /\ selected' = SelectionWithout(p - 1)
      BY <1>6, <2>1, <2>3 DEF DeleteConversation
  <2>5. PICK n : n = Len(cachedBlocks) - 1
      OBVIOUS
  <2>6. n \in Nat /\ Len(cachedBlocks) = n + 1 /\ p \in 1..(n + 1)
      BY <2>2, <2>5, HistoryFacts
  <2> DEFINE from(j) == IF j < p THEN j ELSE j + 1
  <2>7. blocks = [j \in 1..n |-> cachedBlocks[from(j)]]
      BY <2>3, <2>5 DEF WithoutBlock
  <2>8. /\ \A j \in 1..n : from(j) \in 1..Len(cachedBlocks) /\ from(j) /= p
        /\ \A i, j \in 1..n : from(i) = from(j) => i = j
      BY <2>6
  <2> HIDE DEF from
  <2>9. /\ blocks \in Seq(Block) /\ Len(blocks) = n
        /\ \A j \in 1..n : blocks[j] = cachedBlocks[from(j)]
      BY <2>6, <2>7, <2>8, HistoryFacts
  <2>10. Different(blocks)
      BY SMTT(60), <1>4, <2>8, <2>9 DEF Different
  <2>11. \A j \in 1..n : blocks[j].id /= id
      BY <1>4, <2>2, <2>8, <2>9 DEF Different
  <2>12. \A j \in 1..n : blocks[j].id \in DOMAIN added
      BY <2>8, <2>9, HistoryFacts
  <2>13. storage /= "none" => \A j \in 1..n : blocks[j].id \in DOMAIN has
      BY <1>3, <2>8, <2>9, <2>11, HistoryFacts
  <2>14. storage = "reliable" => \A j \in 1..n : blocks[j].status = has[blocks[j].id]
      BY <1>3, <2>8, <2>9, <2>13, HistoryFacts
  <2>15. /\ selected' \in -1..(Cardinality(Ids) - 1)
         /\ storage /= "failing" => selected' = -1 \/ (selected' >= 0 /\ selected' < n)
      BY <2>4, <2>6, HistoryFacts DEF SelectionWithout
  <2>16. QED
      BY <1>1, <1>2, <1>3, <1>4, <2>4, <2>9, <2>10, <2>12, <2>13, <2>14, <2>15, HistoryFollows
<1>7. QED  BY <1>5, <1>6

\* A reload, from the selection that there was or, at the start of the program, none.
LEMMA RefreshStep ==
    ASSUME HistoryInv, NEW from \in -1..(Cardinality(Ids) - 1), RefreshCache(from),
           UNCHANGED <<storage, stored, added>>
    PROVE  HistoryInv'
<1>1. PICK ok \in Outcomes :
          IF ok
          THEN /\ cachedBlocks' = LoadedRecent
               /\ selected' = IF from >= Len(LoadedRecent) THEN Len(LoadedRecent) - 1 ELSE from
          ELSE cachedBlocks' = <<>> /\ selected' = from
    BY DEF RefreshCache
<1>2. /\ AddedInOrder' /\ DOMAIN stored \subseteq DOMAIN added
      /\ \A id \in DOMAIN stored : stored[id] \in Statuses
    BY HistoryFacts DEF HistoryInv, AddedInOrder
<1>3. CASE ok
  <2>1. PICK blocks : blocks = LoadedRecent
      OBVIOUS
  <2>2. /\ blocks \in Seq(Block) /\ Different(blocks)
        /\ \A i \in 1..Len(blocks) : blocks[i].id \in DOMAIN stored
        /\ \A i \in 1..Len(blocks) : blocks[i].status = stored[blocks[i].id]
      BY <2>1, RecentIsLoaded
  <2>3. Len(blocks) \in Nat
      BY <2>2
  <2>4. Len(blocks) <= Cardinality(Ids) /\ Cardinality(Ids) \in Nat
      BY <2>2, DifferentIdsCount
  <2>5. /\ cachedBlocks' = blocks
        /\ selected' = IF from >= Len(blocks) THEN Len(blocks) - 1 ELSE from
      BY <1>1, <1>3, <2>1
  <2>6. /\ selected' \in -1..(Cardinality(Ids) - 1)
        /\ selected' = -1 \/ (selected' >= 0 /\ selected' < Len(blocks))
      BY <2>3, <2>4, <2>5
  <2>7. QED  BY <1>2, <2>2, <2>5, <2>6, HistoryFollows
<1>4. CASE ~ ok
  <2>1. cachedBlocks' = <<>> /\ selected' = from /\ storage = "failing"
      BY <1>1, <1>4, FailureIsAllowed
  <2>2. PICK blocks : blocks = <<>>
      OBVIOUS
  <2>3. blocks \in Seq(Block) /\ Different(blocks) /\ ~ \E i \in 1..Len(blocks) : TRUE
      BY <2>2 DEF Different
  <2>4. QED  BY <1>2, <2>1, <2>2, <2>3, HistoryFollows
<1>5. QED  BY <1>3, <1>4

LEMMA HistoryStep == HistoryInv /\ [Next]_vars => HistoryInv'
<1> SUFFICES ASSUME HistoryInv, [Next]_vars PROVE HistoryInv'
    OBVIOUS
<1>1. CASE UNCHANGED historyVars
  <2>1. UNCHANGED <<storage, stored, cachedBlocks, selected, added>>
      BY <1>1 DEF historyVars
  <2>2. UNCHANGED <<Positions, CachedIds>>
      BY <2>1 DEF Positions, CachedIds
  <2>3. HistoryTypeOK' = HistoryTypeOK
      BY <2>1 DEF HistoryTypeOK
  <2>4. (CachedAreStored /\ StatusIsStored /\ SelectionInBounds)' =
            (CachedAreStored /\ StatusIsStored /\ SelectionInBounds)
      BY <2>1, <2>2 DEF CachedAreStored, StatusIsStored, SelectionInBounds, InBounds
  <2>5. QED
      BY <2>1, <2>3, <2>4 DEF HistoryInv, ScreenFollowsStorage, AddedInOrder, Different
<1>2. CASE RefreshFromStorage \/ ReopenHistory
  <2>1. PICK from \in -1..(Cardinality(Ids) - 1) : RefreshCache(from) /\ UNCHANGED <<storage, stored, added>>
      BY <1>2, HistoryFacts DEF RefreshFromStorage, ReopenHistory
  <2>2. QED  BY <2>1, RefreshStep
<1>3. QED
    BY <1>1, <1>2, StepOfAPart, AddConversationStep, SelectionStep, ToggleStep, UpdateStatusStep,
       DeleteStep
    DEF HistoryNext

(* For every set of conversations and every limit of a reload: each one on the screen is   *)
(* stored and is there once, with its stored status while the storage does not fail, and   *)
(* the selection is on the screen (models/conversation.go).                                *)
THEOREM TheScreenIsStored == Spec => []ScreenFollowsStorage
<1>1. Init => HistoryInv
  <2> SUFFICES ASSUME Init PROVE HistoryInv
      OBVIOUS
  <2>1. /\ storage \in {"none", "reliable", "failing"} /\ stored = [id \in {} |-> "completed"]
        /\ cachedBlocks = <<>> /\ selected = -1 /\ added = [id \in {} |-> 0]
      BY DEF Init, HistoryInit
  <2>2. Positions = {} /\ CachedIds = {} /\ Len(cachedBlocks) = 0 /\ 1..Len(cachedBlocks) = {}
      BY <2>1 DEF Positions, CachedIds
  <2>3. Cardinality(CachedIds) = 0 /\ Cardinality(Ids) \in Nat
      BY <2>2, FS_EmptySet, FS_CardinalityType, HistoryAssumption
  <2>4. HistoryTypeOK
      BY <2>1, <2>3 DEF HistoryTypeOK
  <2>5. QED
      BY <2>1, <2>2, <2>3, <2>4
      DEF HistoryInv, ScreenFollowsStorage, CachedAreStored, StatusIsStored, SelectionInBounds,
          AddedInOrder, Different
<1>2. HistoryInv /\ [Next]_vars => HistoryInv'
    BY HistoryStep
<1>3. HistoryInv => ScreenFollowsStorage
    BY DEF HistoryInv
<1>4. QED  BY <1>1, <1>2, <1>3, PTL DEF Spec

-----------------------------------------------------------------------------
(***************************************************************************)
(* The ring of the cache.                                                  *)
(***************************************************************************)
\* A set of natural numbers has a least element: induction, in the form the provers take.
LEMMA LeastNatural ==
    ASSUME NEW T \in SUBSET Nat, T /= {}
    PROVE  \E m \in T : \A k \in T : m <= k
<1>1. IsWellFoundedOn(OpToRel(<, Nat), Nat)
    BY NatLessThanWellFounded
<1>2. PICK m \in T : \A k \in T : <<k, m>> \notin OpToRel(<, Nat)
    BY <1>1, WFMin
<1>3. ASSUME NEW k \in T, k < m PROVE FALSE
  <2>1. <<k, m>> \in Nat \X Nat /\ <<k, m>>[1] < <<k, m>>[2]
      BY <1>3
  <2>2. QED  BY <1>2, <2>1 DEF OpToRel
<1>4. QED  BY <1>3

\* The nodes of a ring differ, the sentinel at both ends apart.
LEMMA NodesDiffer ==
    ASSUME NEW s, Keyed(s)
    PROVE  /\ Len(s) \in Nat /\ Root \in Nodes
           /\ \A i \in 0..(Len(s) + 1) : NodeAt(s, i) \in Nodes
           /\ \A i \in 1..Len(s) : NodeAt(s, i) = s[i] /\ s[i] \in Keys
           /\ NodeAt(s, 0) = Root /\ NodeAt(s, Len(s) + 1) = Root
           /\ \A i, j \in 0..Len(s) : NodeAt(s, i) = NodeAt(s, j) => i = j
           /\ \A i, j \in 1..(Len(s) + 1) : NodeAt(s, i) = NodeAt(s, j) => i = j
<1>1. Len(s) \in Nat /\ \A i \in 1..Len(s) : s[i] \in Keys
    BY DEF Keyed
<1>2. Root \in Nodes /\ Root \notin Keys /\ Keys \subseteq Nodes
    BY ListAssumption DEF Nodes
<1>3. 0 \notin 1..Len(s) /\ Len(s) + 1 \notin 1..Len(s)
    BY <1>1
<1>4. \A i, j \in 0..Len(s) : NodeAt(s, i) = NodeAt(s, j) => i = j
    BY <1>1, <1>2 DEF NodeAt, Keyed
<1>5. \A i, j \in 1..(Len(s) + 1) : NodeAt(s, i) = NodeAt(s, j) => i = j
    BY <1>1, <1>2 DEF NodeAt, Keyed
<1>6. QED  BY <1>1, <1>2, <1>3, <1>4, <1>5 DEF NodeAt

\* Without its p-th element a sequence has the others, in their order.
LEMMA WithoutNthKeyed ==
    ASSUME NEW s, Keyed(s), NEW p \in 1..Len(s)
    PROVE  /\ Keyed(WithoutNth(s, p)) /\ Len(WithoutNth(s, p)) = Len(s) - 1
           /\ \A i \in 0..Len(s) : NodeAt(WithoutNth(s, p), i) = NodeAt(s, IF i < p THEN i ELSE i + 1)
           /\ KeysIn(WithoutNth(s, p)) = KeysIn(s) \ {s[p]}
<1>1. PICK n : n = Len(s) - 1
    OBVIOUS
<1>2. n \in Nat /\ Len(s) = n + 1 /\ p \in 1..(n + 1) /\ \A i \in 1..(n + 1) : s[i] \in Keys
    BY <1>1 DEF Keyed
<1>3. PICK t : t = WithoutNth(s, p)
    OBVIOUS
<1>4. t = [i \in 1..n |-> IF i < p THEN s[i] ELSE s[i + 1]]
    BY <1>1, <1>3 DEF WithoutNth
<1>5. \A i \in 1..n : t[i] = s[IF i < p THEN i ELSE i + 1] /\ t[i] \in Keys
    BY <1>2, <1>4
<1>6. t \in Seq(Keys) /\ Len(t) = n
    BY <1>2, <1>4, <1>5
<1>7. \A i, j \in 1..n : t[i] = t[j] => i = j
    BY <1>2, <1>5 DEF Keyed
<1>8. \A i \in 0..Len(s) : NodeAt(t, i) = NodeAt(s, IF i < p THEN i ELSE i + 1)
    BY <1>2, <1>5, <1>6 DEF NodeAt
<1>9. {t[i] : i \in 1..n} = {s[i] : i \in 1..Len(s)} \ {s[p]}
  <2>1. ASSUME NEW i \in 1..n PROVE t[i] \in {s[j] : j \in 1..Len(s)} \ {s[p]}
      BY <1>2, <1>5 DEF Keyed
  <2>2. ASSUME NEW j \in 1..Len(s), s[j] /= s[p] PROVE \E i \in 1..n : t[i] = s[j]
    <3>1. CASE j < p
        BY <1>2, <1>5, <3>1
    <3>2. CASE ~ (j < p)
      <4>1. j /= p
          BY <2>2
      <4>2. j - 1 \in 1..n /\ ~ (j - 1 < p) /\ j - 1 + 1 = j
          BY <1>2, <3>2, <4>1
      <4>3. t[j - 1] = s[j]
          BY <1>5, <4>2
      <4>4. QED  BY <4>2, <4>3
    <3>3. QED  BY <3>1, <3>2
  <2>3. QED  BY <2>1, <2>2
<1>10. Keyed(t)
    BY <1>6, <1>7 DEF Keyed
<1>11. KeysIn(t) = KeysIn(s) \ {s[p]}
  <2>1. DOMAIN t = 1..n /\ DOMAIN s = 1..Len(s)
      BY <1>4 DEF Keyed
  <2>2. QED  BY <1>9, <2>1 DEF KeysIn
<1>12. QED  BY <1>1, <1>3, <1>6, <1>8, <1>10, <1>11

\* A key in front of others.
LEMMA InFront ==
    ASSUME NEW s, Keyed(s), NEW k \in Keys, \A i \in 1..Len(s) : s[i] /= k
    PROVE  /\ Keyed(<<k>> \o s) /\ Len(<<k>> \o s) = Len(s) + 1 /\ (<<k>> \o s)[1] = k
           /\ \A i \in 1..(Len(s) + 1) : NodeAt(<<k>> \o s, i + 1) = NodeAt(s, i)
           /\ NodeAt(<<k>> \o s, 0) = Root /\ NodeAt(<<k>> \o s, 1) = k
           /\ WithoutNth(<<k>> \o s, 1) = s
           /\ KeysIn(<<k>> \o s) = {k} \cup KeysIn(s)
<1>1. PICK t : t = <<k>> \o s
    OBVIOUS
<1>2. /\ t \in Seq(Keys) /\ Len(t) = Len(s) + 1 /\ t[1] = k /\ Len(s) \in Nat
      /\ \A i \in 1..Len(s) : t[i + 1] = s[i]
      /\ s \in Seq(Keys)
    BY <1>1 DEF Keyed
<1>3. \A i \in 1..Len(t) : i = 1 \/ (i - 1 \in 1..Len(s) /\ t[i] = s[i - 1])
    BY <1>2
<1>4. Keyed(t)
  <2>1. ASSUME NEW i \in 1..Len(t), NEW j \in 1..Len(t), t[i] = t[j], i < j PROVE FALSE
    <3>1. j - 1 \in 1..Len(s) /\ t[j] = s[j - 1]
        BY <1>2, <1>3, <2>1
    <3>2. CASE i = 1
        BY <1>2, <2>1, <3>1, <3>2
    <3>3. CASE i /= 1
      <4>1. i - 1 \in 1..Len(s) /\ t[i] = s[i - 1]
          BY <1>3, <3>3
      <4>2. i - 1 = j - 1
          BY <2>1, <3>1, <4>1 DEF Keyed
      <4>3. QED  BY <1>2, <2>1, <4>2
    <3>4. QED  BY <3>2, <3>3
  <2>2. \A i, j \in 1..Len(t) : i < j \/ j < i \/ i = j
      BY <1>2
  <2>3. QED  BY <1>2, <2>1, <2>2 DEF Keyed
<1>5. /\ \A i \in 1..(Len(s) + 1) : NodeAt(t, i + 1) = NodeAt(s, i)
      /\ NodeAt(t, 0) = Root /\ NodeAt(t, 1) = k
    BY <1>2 DEF NodeAt
<1>6. WithoutNth(t, 1) = s
  <2>1. WithoutNth(t, 1) = [i \in 1..(Len(t) - 1) |-> t[i + 1]]
      BY <1>2 DEF WithoutNth
  <2>2. Len(t) - 1 = Len(s) /\ s = [i \in 1..Len(s) |-> s[i]]
      BY <1>2
  <2>3. QED  BY <1>2, <2>1, <2>2
<1>7. KeysIn(t) = {k} \cup KeysIn(s)
  <2>1. DOMAIN t = 1..Len(t) /\ DOMAIN s = 1..Len(s)
      BY <1>2
  <2>2. \A i \in 1..Len(t) : t[i] \in {k} \cup {s[j] : j \in 1..Len(s)}
      BY <1>2, <1>3
  <2>3. 1 \in 1..Len(t) /\ \A j \in 1..Len(s) : j + 1 \in 1..Len(t)
      BY <1>2
  <2>4. \A j \in 1..Len(s) : s[j] \in {t[i] : i \in 1..Len(t)}
      BY <1>2, <2>3
  <2>5. k \in {t[i] : i \in 1..Len(t)}
      BY <1>2, <2>3
  <2>6. QED  BY <2>1, <2>2, <2>4, <2>5 DEF KeysIn
<1>8. QED  BY <1>1, <1>2, <1>4, <1>5, <1>6, <1>7

\* list.remove takes a key out of a ring.
LEMMA UnlinkKeeps ==
    ASSUME NEW n \in [Nodes -> Nodes \cup {Nil}], NEW b \in [Nodes -> Nodes \cup {Nil}],
           NEW s, Keyed(s), IsRing([n |-> n, p |-> b], s), NEW p \in 1..Len(s)
    PROVE  /\ Unlink([n |-> n, p |-> b], s[p]).n \in [Nodes -> Nodes \cup {Nil}]
           /\ Unlink([n |-> n, p |-> b], s[p]).p \in [Nodes -> Nodes \cup {Nil}]
           /\ IsRing(Unlink([n |-> n, p |-> b], s[p]), WithoutNth(s, p))
           /\ DOMAIN Unlink([n |-> n, p |-> b], s[p]) = {"n", "p"}
<1> DEFINE l == [n |-> n, p |-> b]
           k == s[p]
           before == NodeAt(s, p - 1)
           after == NodeAt(s, p + 1)
<1>1. /\ before \in Nodes /\ after \in Nodes /\ k \in Nodes /\ k = NodeAt(s, p)
      /\ n[k] = after /\ b[k] = before /\ Len(s) \in Nat
  <2>1. p - 1 \in 0..Len(s) /\ p \in 0..Len(s) /\ p + 1 \in 0..(Len(s) + 1) /\ p - 1 + 1 = p
      BY NodesDiffer
  <2>2. Forward(l, s, p) /\ Back(l, s, p - 1)
      BY <2>1 DEF IsRing
  <2>3. k = NodeAt(s, p) /\ k \in Nodes
      BY <2>1, NodesDiffer
  <2>4. n[k] = after /\ b[k] = before
      BY <2>1, <2>2, <2>3 DEF Forward, Back
  <2>5. QED  BY <2>1, <2>3, <2>4, NodesDiffer
<1>2. PICK m : m = Unlink(l, k)
    OBVIOUS
<1>3. /\ m.n = [[n EXCEPT ![before] = after] EXCEPT ![k] = Nil]
      /\ m.p = [[b EXCEPT ![after] = before] EXCEPT ![k] = Nil]
      /\ DOMAIN m = {"n", "p"}
    BY <1>1, <1>2 DEF Unlink, Set
<1>4. m.n \in [Nodes -> Nodes \cup {Nil}] /\ m.p \in [Nodes -> Nodes \cup {Nil}]
    BY <1>1, <1>3
<1>5. PICK t : t = WithoutNth(s, p)
    OBVIOUS
<1>6. /\ Keyed(t) /\ Len(t) = Len(s) - 1
      /\ \A i \in 0..Len(s) : NodeAt(t, i) = NodeAt(s, IF i < p THEN i ELSE i + 1)
    BY <1>5, WithoutNthKeyed
<1>7. ASSUME NEW i \in 0..Len(t) PROVE Forward(m, t, i) /\ Back(m, t, i)
  <2>1. i \in 0..(Len(s) - 1) /\ i \in 0..Len(s) /\ i + 1 \in 0..Len(s)
      BY <1>1, <1>6
  <2>2. CASE i = p - 1
    <3>1. NodeAt(t, i) = before /\ NodeAt(t, i + 1) = after
        BY <1>6, <2>1, <2>2
    <3>2. before /= k /\ after /= k
      <4>1. p - 1 \in 0..Len(s) /\ p \in 0..Len(s) /\ p \in 1..(Len(s) + 1) /\ p + 1 \in 1..(Len(s) + 1)
          BY <1>1
      <4>2. QED  BY <1>1, <4>1, NodesDiffer
    <3>3. m.n[before] = after /\ m.p[after] = before
        BY <1>1, <1>3, <3>2
    <3>4. QED  BY <3>1, <3>3 DEF Forward, Back
  <2>3. CASE i /= p - 1
    <3>1. PICK j : j = IF i < p THEN i ELSE i + 1
        OBVIOUS
    <3>2. /\ j \in 0..Len(s) /\ j /= p - 1 /\ j /= p /\ j + 1 \in 1..(Len(s) + 1)
          /\ NodeAt(t, i) = NodeAt(s, j) /\ NodeAt(t, i + 1) = NodeAt(s, j + 1)
        BY <1>1, <1>6, <2>1, <2>3, <3>1
    <3>3. NodeAt(s, j) /= k /\ NodeAt(s, j) /= before /\ NodeAt(s, j) \in Nodes
      <4>1. p - 1 \in 0..Len(s) /\ p \in 0..Len(s) /\ j \in 0..(Len(s) + 1)
          BY <1>1, <3>2
      <4>2. QED  BY <1>1, <3>2, <4>1, NodesDiffer
    <3>4. NodeAt(s, j + 1) /= k /\ NodeAt(s, j + 1) /= after /\ NodeAt(s, j + 1) \in Nodes
      <4>1. /\ p \in 1..(Len(s) + 1) /\ p + 1 \in 1..(Len(s) + 1) /\ j + 1 \in 0..(Len(s) + 1)
            /\ j + 1 /= p /\ j + 1 /= p + 1
          BY <1>1, <3>2
      <4>2. QED  BY <1>1, <3>2, <4>1, NodesDiffer
    <3>5. n[NodeAt(s, j)] = NodeAt(s, j + 1) /\ b[NodeAt(s, j + 1)] = NodeAt(s, j)
        BY <3>2 DEF IsRing, Forward, Back
    <3>6. m.n[NodeAt(s, j)] = n[NodeAt(s, j)] /\ m.p[NodeAt(s, j + 1)] = b[NodeAt(s, j + 1)]
        BY <1>3, <3>3, <3>4
    <3>7. QED  BY <3>2, <3>5, <3>6 DEF Forward, Back
  <2>4. QED  BY <2>2, <2>3
<1>8. QED  BY <1>2, <1>3, <1>4, <1>5, <1>7 DEF IsRing

\* list.insert puts a key behind the sentinel.
LEMMA InsertKeeps ==
    ASSUME NEW n \in [Nodes -> Nodes \cup {Nil}], NEW b \in [Nodes -> Nodes \cup {Nil}],
           NEW s, Keyed(s), IsRing([n |-> n, p |-> b], s),
           NEW k \in Keys, \A i \in 1..Len(s) : s[i] /= k
    PROVE  /\ Insert([n |-> n, p |-> b], k).n \in [Nodes -> Nodes \cup {Nil}]
           /\ Insert([n |-> n, p |-> b], k).p \in [Nodes -> Nodes \cup {Nil}]
           /\ IsRing(Insert([n |-> n, p |-> b], k), <<k>> \o s)
           /\ DOMAIN Insert([n |-> n, p |-> b], k) = {"n", "p"}
<1> DEFINE l == [n |-> n, p |-> b]
           first == NodeAt(s, 1)
<1>1. Len(s) \in Nat /\ 1 \in 0..(Len(s) + 1) /\ 0 \in 0..Len(s)
    BY NodesDiffer
<1>2. k \in Nodes /\ k /= Root /\ Root \in Nodes /\ first \in Nodes /\ NodeAt(s, 0) = Root
    BY <1>1, ListAssumption, NodesDiffer DEF Nodes
<1>3. n[Root] = first
    BY <1>1, <1>2 DEF IsRing, Forward
<1>4. \A i \in 0..(Len(s) + 1) : NodeAt(s, i) /= k
    BY <1>2 DEF NodeAt
<1>5. PICK m : m = Insert(l, k)
    OBVIOUS
<1>6. /\ m.n = [[n EXCEPT ![k] = first] EXCEPT ![Root] = k]
      /\ m.p = [[b EXCEPT ![k] = Root] EXCEPT ![first] = k]
      /\ DOMAIN m = {"n", "p"}
  <2>1. [n EXCEPT ![k] = first][k] = first
      BY <1>2
  <2>2. QED  BY <1>2, <1>3, <1>5, <2>1 DEF Insert, Set
<1>7. m.n \in [Nodes -> Nodes \cup {Nil}] /\ m.p \in [Nodes -> Nodes \cup {Nil}]
    BY <1>2, <1>6
<1>8. PICK t : t = <<k>> \o s
    OBVIOUS
<1>9. /\ Len(t) = Len(s) + 1 /\ NodeAt(t, 0) = Root /\ NodeAt(t, 1) = k
      /\ \A i \in 1..(Len(s) + 1) : NodeAt(t, i + 1) = NodeAt(s, i)
    BY <1>8, InFront
<1>10. ASSUME NEW i \in 0..Len(t) PROVE Forward(m, t, i) /\ Back(m, t, i)
  <2>1. CASE i = 0
    <3>1. m.n[Root] = k
        BY <1>2, <1>6
    <3>2. m.p[k] = Root
      <4>1. first /= k
          BY <1>1, <1>4
      <4>2. QED  BY <1>2, <1>6, <4>1
    <3>3. QED  BY <1>9, <2>1, <3>1, <3>2 DEF Forward, Back
  <2>2. CASE i = 1
    <3>1. NodeAt(t, 2) = first
        BY <1>1, <1>9
    <3>2. m.n[k] = first /\ m.p[first] = k
        BY <1>2, <1>6
    <3>3. QED  BY <1>9, <2>2, <3>1, <3>2 DEF Forward, Back
  <2>3. CASE i > 1
    <3>1. PICK j : j = i - 1
        OBVIOUS
    <3>2. /\ j \in 1..Len(s) /\ j \in 0..Len(s) /\ j + 1 \in 1..(Len(s) + 1) /\ j + 1 /= 1
          /\ j \in 0..(Len(s) + 1) /\ j + 1 \in 0..(Len(s) + 1) /\ 1 \in 1..(Len(s) + 1)
          /\ j \in 1..(Len(s) + 1) /\ i = j + 1 /\ i + 1 = (j + 1) + 1
        BY <1>1, <1>9, <2>3, <3>1
    <3>3. NodeAt(t, i) = NodeAt(s, j) /\ NodeAt(t, i + 1) = NodeAt(s, j + 1)
        BY <1>9, <3>2
    <3>4. /\ NodeAt(s, j) /= Root /\ NodeAt(s, j) /= k /\ NodeAt(s, j) \in Nodes
          /\ NodeAt(s, j + 1) /= first /\ NodeAt(s, j + 1) /= k /\ NodeAt(s, j + 1) \in Nodes
      <4>1. NodeAt(s, j) \in Keys
          BY <3>2, NodesDiffer
      <4>2. NodeAt(s, j + 1) /= first
          BY <3>2, NodesDiffer
      <4>3. QED  BY <1>4, <3>2, <4>1, <4>2, ListAssumption, NodesDiffer
    <3>5. n[NodeAt(s, j)] = NodeAt(s, j + 1) /\ b[NodeAt(s, j + 1)] = NodeAt(s, j)
        BY <3>2 DEF IsRing, Forward, Back
    <3>6. m.n[NodeAt(s, j)] = NodeAt(s, j + 1) /\ m.p[NodeAt(s, j + 1)] = NodeAt(s, j)
        BY <1>6, <3>4, <3>5
    <3>7. QED  BY <3>3, <3>6 DEF Forward, Back
  <2>4. QED  BY <1>1, <1>9, <2>1, <2>2, <2>3
<1>11. QED  BY <1>5, <1>6, <1>7, <1>8, <1>10 DEF IsRing

\* Before its first assignment a move has the whole ring, and its key is not in front.
LEMMA MoveBegins ==
    ASSUME NEW l, NEW s, Keyed(s), IsRing(l, s), NEW p \in 1..Len(s), l.n[Root] /= s[p]
    PROVE  Moving(l, WithoutNth(s, p), s[p], "skip_forward")
<1> DEFINE k == s[p]
<1>1. PICK t : t = WithoutNth(s, p)
    OBVIOUS
<1>2. /\ Keyed(t) /\ Len(t) = Len(s) - 1 /\ Len(s) \in Nat
      /\ \A i \in 0..Len(s) : NodeAt(t, i) = NodeAt(s, IF i < p THEN i ELSE i + 1)
    BY <1>1, WithoutNthKeyed, NodesDiffer
<1>3. k = NodeAt(s, p)
    BY NodesDiffer
<1>4. p /= 1
  <2>1. l.n[Root] = NodeAt(s, 1)
    <3>1. 0 \in 0..Len(s) /\ 0 + 1 = 1
        BY <1>2
    <3>2. Forward(l, s, 0)
        BY <3>1 DEF IsRing
    <3>3. QED  BY <3>1, <3>2, NodesDiffer DEF Forward
  <2>2. QED  BY <1>3, <2>1
<1>5. PICK q : q = p - 1
    OBVIOUS
<1>6. q \in 1..Len(t) /\ p = q + 1
    BY <1>2, <1>4, <1>5
<1>7. NodeAt(t, q) = NodeAt(s, q) /\ NodeAt(t, q + 1) = NodeAt(s, p + 1)
    BY <1>2, <1>6
<1>8. /\ l.n[NodeAt(s, q)] = k /\ l.p[k] = NodeAt(s, q)
      /\ l.n[k] = NodeAt(s, p + 1) /\ l.p[NodeAt(s, p + 1)] = k
  <2>1. q \in 0..Len(s) /\ p \in 0..Len(s)
      BY <1>2, <1>6
  <2>2. Forward(l, s, q) /\ Back(l, s, q) /\ Forward(l, s, p) /\ Back(l, s, p)
      BY <2>1 DEF IsRing
  <2>3. QED  BY <1>3, <1>6, <2>2 DEF Forward, Back
<1>9. ASSUME NEW i \in 0..Len(t), i /= q PROVE Forward(l, t, i) /\ Back(l, t, i)
  <2>1. PICK j : j = IF i < p THEN i ELSE i + 1
      OBVIOUS
  <2>2. /\ j \in 0..Len(s) /\ NodeAt(t, i) = NodeAt(s, j) /\ NodeAt(t, i + 1) = NodeAt(s, j + 1)
      BY <1>2, <1>6, <1>9, <2>1
  <2>3. QED  BY <2>2 DEF IsRing, Forward, Back
<1>10. QED  BY <1>1, <1>6, <1>7, <1>8, <1>9 DEF Moving, IsBetween

\* The six assignments, on the ring of the others, s.
LEMMA MoveGoesOn ==
    ASSUME NEW n \in [Nodes -> Nodes \cup {Nil}], NEW b \in [Nodes -> Nodes \cup {Nil}],
           NEW s, Keyed(s), Len(s) > 0, NEW k \in Keys, \A i \in 1..Len(s) : s[i] /= k,
           NEW at, Moving([n |-> n, p |-> b], s, k, at)
    PROVE  /\ at = "skip_forward" => Moving([n |-> Set(n, b[k], n[k]), p |-> b], s, k, "skip_back")
           /\ at = "skip_back" => Moving([n |-> n, p |-> Set(b, n[k], b[k])], s, k, "set_prev")
           /\ at = "set_prev" => Moving([n |-> n, p |-> [b EXCEPT ![k] = Root]], s, k, "set_next")
           /\ at = "set_next" => Moving([n |-> [n EXCEPT ![k] = n[Root]], p |-> b], s, k, "link_prev")
           /\ at = "link_prev" => Moving([n |-> Set(n, b[k], k), p |-> b], s, k, "link_next")
           /\ at = "link_next" => IsRing([n |-> n, p |-> Set(b, n[k], k)], <<k>> \o s)
<1> DEFINE l == [n |-> n, p |-> b]
           R(i) == NodeAt(s, i)
<1>1. /\ Len(s) \in Nat /\ Len(s) > 0 /\ R(0) = Root /\ R(Len(s) + 1) = Root /\ Root \in Nodes
      /\ \A i \in 0..(Len(s) + 1) : R(i) \in Nodes
      /\ \A i, j \in 0..Len(s) : R(i) = R(j) => i = j
      /\ \A i, j \in 1..(Len(s) + 1) : R(i) = R(j) => i = j
    BY NodesDiffer
<1>2. k \in Nodes /\ k /= Root /\ \A i \in 0..(Len(s) + 1) : R(i) /= k
    BY ListAssumption DEF NodeAt, Nodes
<1>3. /\ \A i \in 1..Len(s) : i \in 0..Len(s) /\ i \in 0..(Len(s) + 1) /\ i + 1 \in 0..(Len(s) + 1)
      /\ \A i \in 0..Len(s) : i + 1 \in 1..(Len(s) + 1) /\ i \in 0..(Len(s) + 1) /\ i + 1 \in 0..(Len(s) + 1)
      /\ 0 \in 0..Len(s) /\ 1 \in 1..(Len(s) + 1) /\ 0 + 1 = 1 /\ 1 \in 1..Len(s) /\ 1 \in 0..(Len(s) + 1)
    BY <1>1
<1> HIDE DEF R
<1>4. ASSUME at = "skip_forward"
      PROVE  Moving([n |-> Set(n, b[k], n[k]), p |-> b], s, k, "skip_back")
  <2>1. PICK q \in 1..Len(s) :
            /\ \A i \in 0..Len(s) : i /= q => n[R(i)] = R(i + 1) /\ b[R(i + 1)] = R(i)
            /\ b[k] = R(q) /\ n[k] = R(q + 1) /\ b[R(q + 1)] = k
      BY <1>4 DEF Moving, IsBetween, Forward, Back, R
  <2>2. PICK m : m = Set(n, b[k], n[k])
      OBVIOUS
  <2>3. m = [n EXCEPT ![R(q)] = R(q + 1)]
      BY <1>1, <1>3, <2>1, <2>2 DEF Set
  <2>4. m[R(q)] = R(q + 1) /\ \A i \in 0..Len(s) : i /= q => m[R(i)] = n[R(i)]
      BY <1>1, <1>3, <2>3
  <2>5. m[k] = n[k]
      BY <1>2, <1>3, <2>3
  <2>6. QED  BY <2>1, <2>2, <2>4, <2>5 DEF Moving, IsBetween, Forward, Back, R
<1>5. ASSUME at = "skip_back"
      PROVE  Moving([n |-> n, p |-> Set(b, n[k], b[k])], s, k, "set_prev")
  <2>1. PICK q \in 1..Len(s) :
            /\ \A i \in 0..Len(s) : n[R(i)] = R(i + 1) /\ (i /= q => b[R(i + 1)] = R(i))
            /\ b[k] = R(q) /\ n[k] = R(q + 1)
      BY <1>5 DEF Moving, IsBetween, Forward, Back, R
  <2>2. PICK m : m = Set(b, n[k], b[k])
      OBVIOUS
  <2>3. m = [b EXCEPT ![R(q + 1)] = R(q)]
      BY <1>1, <1>3, <2>1, <2>2 DEF Set
  <2>4. m[R(q + 1)] = R(q)
      BY <1>1, <1>3, <2>3
  <2>5. ASSUME NEW i \in 0..Len(s), i /= q PROVE m[R(i + 1)] = b[R(i + 1)]
    <3>1. i + 1 \in 1..(Len(s) + 1) /\ q + 1 \in 1..(Len(s) + 1) /\ i + 1 /= q + 1
        BY <1>1, <2>5
    <3>2. R(i + 1) /= R(q + 1)
        BY <1>1, <3>1
    <3>3. QED  BY <1>1, <1>3, <2>3, <3>2
  <2>6. \A i \in 0..Len(s) : n[R(i)] = R(i + 1) /\ m[R(i + 1)] = R(i)
      BY <2>1, <2>4, <2>5
  <2>7. QED  BY <2>2, <2>6 DEF Moving, IsRing, Forward, Back, R
<1>6. ASSUME at = "set_prev"
      PROVE  Moving([n |-> n, p |-> [b EXCEPT ![k] = Root]], s, k, "set_next")
  <2>1. \A i \in 0..Len(s) : n[R(i)] = R(i + 1) /\ b[R(i + 1)] = R(i)
      BY <1>6 DEF Moving, IsRing, Forward, Back, R
  <2>2. PICK m : m = [b EXCEPT ![k] = Root]
      OBVIOUS
  <2>3. m[k] = Root /\ \A i \in 0..Len(s) : m[R(i + 1)] = b[R(i + 1)]
      BY <1>1, <1>2, <1>3, <2>2
  <2>4. QED  BY <2>1, <2>2, <2>3 DEF Moving, IsRing, Forward, Back, R
<1>7. ASSUME at = "set_next"
      PROVE  Moving([n |-> [n EXCEPT ![k] = n[Root]], p |-> b], s, k, "link_prev")
  <2>1. (\A i \in 0..Len(s) : n[R(i)] = R(i + 1) /\ b[R(i + 1)] = R(i)) /\ b[k] = Root
      BY <1>7 DEF Moving, IsRing, Forward, Back, R
  <2>2. PICK m : m = [n EXCEPT ![k] = n[Root]]
      OBVIOUS
  <2>3. m[k] = R(1) /\ \A i \in 0..Len(s) : m[R(i)] = n[R(i)]
      BY <1>1, <1>2, <1>3, <2>1, <2>2
  <2>4. QED  BY <2>1, <2>2, <2>3 DEF Moving, IsRing, Forward, Back, R
<1>8. ASSUME at = "link_prev"
      PROVE  Moving([n |-> Set(n, b[k], k), p |-> b], s, k, "link_next")
  <2>1. /\ \A i \in 0..Len(s) : n[R(i)] = R(i + 1) /\ b[R(i + 1)] = R(i)
        /\ b[k] = Root /\ n[k] = R(1)
      BY <1>8 DEF Moving, IsRing, Forward, Back, R
  <2>2. PICK m : m = Set(n, b[k], k)
      OBVIOUS
  <2>3. m = [n EXCEPT ![Root] = k]
      BY <1>1, <2>1, <2>2 DEF Set
  <2>4. m[Root] = k /\ m[k] = R(1)
      BY <1>1, <1>2, <2>1, <2>3
  <2>5. \A i \in 0..Len(s) : i > 0 => m[R(i)] = n[R(i)]
      BY <1>1, <1>3, <2>3
  <2>6. QED  BY <2>1, <2>2, <2>4, <2>5 DEF Moving, Forward, Back, R
<1>9. ASSUME at = "link_next"
      PROVE  IsRing([n |-> n, p |-> Set(b, n[k], k)], <<k>> \o s)
  <2>1. /\ \A i \in 0..Len(s) : b[R(i + 1)] = R(i) /\ (i > 0 => n[R(i)] = R(i + 1))
        /\ b[k] = Root /\ n[k] = R(1) /\ n[Root] = k
      BY <1>9 DEF Moving, Forward, Back, R
  <2>2. PICK m : m = Set(b, n[k], k)
      OBVIOUS
  <2>3. m = [b EXCEPT ![R(1)] = k]
      BY <1>1, <1>3, <2>1, <2>2 DEF Set
  <2>4. m[R(1)] = k /\ m[k] = Root
      BY <1>1, <1>2, <1>3, <2>1, <2>3
  <2>5. ASSUME NEW i \in 0..Len(s), i > 0 PROVE m[R(i + 1)] = R(i)
    <3>1. i + 1 \in 1..(Len(s) + 1) /\ i + 1 /= 1
        BY <1>1, <2>5
    <3>2. R(i + 1) /= R(1)
        BY <1>1, <1>3, <3>1
    <3>3. QED  BY <1>1, <1>3, <2>1, <2>3, <3>2
  <2>6. PICK t : t = <<k>> \o s
      OBVIOUS
  <2>7. /\ Len(t) = Len(s) + 1 /\ NodeAt(t, 0) = Root /\ NodeAt(t, 1) = k
        /\ \A i \in 1..(Len(s) + 1) : NodeAt(t, i + 1) = R(i)
      BY <2>6, InFront DEF R
  <2>8. ASSUME NEW i \in 0..Len(t) PROVE n[NodeAt(t, i)] = NodeAt(t, i + 1) /\ m[NodeAt(t, i + 1)] = NodeAt(t, i)
    <3>1. CASE i = 0
        BY <2>1, <2>4, <2>7, <3>1
    <3>2. CASE i = 1
      <4>1. NodeAt(t, 1 + 1) = R(1)
          BY <1>3, <2>7
      <4>2. QED  BY <2>1, <2>4, <2>7, <3>2, <4>1
    <3>3. CASE i > 1
      <4>1. PICK j : j = i - 1
          OBVIOUS
      <4>2. j \in 0..Len(s) /\ j > 0 /\ j \in 1..(Len(s) + 1) /\ j + 1 \in 1..(Len(s) + 1) /\ i = j + 1
          BY <1>1, <2>7, <2>8, <3>3, <4>1
      <4>3. NodeAt(t, i) = R(j) /\ NodeAt(t, i + 1) = R(j + 1)
          BY <2>7, <4>2
      <4>4. QED  BY <2>1, <2>5, <4>2, <4>3
    <3>4. QED  BY <1>1, <2>7, <2>8, <3>1, <3>2, <3>3
  <2>9. QED  BY <2>2, <2>6, <2>8 DEF IsRing, Forward, Back
<1>10. QED  BY <1>4, <1>5, <1>6, <1>7, <1>8, <1>9

\* A key at place p is used: it comes to the front of the others.
LEMMA UsedFirst ==
    ASSUME NEW s, Keyed(s), NEW p \in 1..Len(s)
    PROVE  /\ WithoutKey(s, s[p]) = WithoutNth(s, p)
           /\ Keyed(WithoutNth(s, p)) /\ \A i \in 1..Len(WithoutNth(s, p)) : WithoutNth(s, p)[i] /= s[p]
           /\ Keyed(<<s[p]>> \o WithoutNth(s, p)) /\ Len(<<s[p]>> \o WithoutNth(s, p)) = Len(s)
           /\ (<<s[p]>> \o WithoutNth(s, p))[1] = s[p]
           /\ WithoutNth(<<s[p]>> \o WithoutNth(s, p), 1) = WithoutNth(s, p)
           /\ KeysIn(<<s[p]>> \o WithoutNth(s, p)) = KeysIn(s)
<1>1. PICK t : t = WithoutNth(s, p)
    OBVIOUS
<1>2. DOMAIN s = 1..Len(s) /\ s \in Seq(Keys) /\ Len(s) \in Nat /\ s[p] \in Keys
    BY DEF Keyed
<1>3. WithoutKey(s, s[p]) = t
  <2>1. (CHOOSE q \in DOMAIN s : s[q] = s[p]) = p
      BY <1>2 DEF Keyed
  <2>2. p \in DOMAIN s /\ s[p] = s[p]
      BY <1>2
  <2>3. QED  BY <1>1, <2>1, <2>2 DEF WithoutKey
<1>4. /\ Keyed(t) /\ Len(t) = Len(s) - 1
      /\ KeysIn(t) = KeysIn(s) \ {s[p]}
    BY <1>1, WithoutNthKeyed
<1>5. \A i \in 1..Len(t) : t[i] /= s[p]
  <2>1. DOMAIN t = 1..Len(t)
      BY <1>4 DEF Keyed
  <2>2. ASSUME NEW i \in 1..Len(t) PROVE t[i] \in KeysIn(t)
      BY <2>1 DEF KeysIn
  <2>3. QED  BY <1>4, <2>2
<1>6. PICK u : u = <<s[p]>> \o t
    OBVIOUS
<1>7. /\ Keyed(u) /\ Len(u) = Len(t) + 1 /\ u[1] = s[p] /\ WithoutNth(u, 1) = t
      /\ KeysIn(u) = {s[p]} \cup KeysIn(t)
    BY <1>2, <1>4, <1>5, <1>6, InFront
<1>8. s[p] \in KeysIn(s)
    BY <1>2 DEF KeysIn
<1>9. KeysIn(u) = KeysIn(s)
    BY <1>4, <1>7, <1>8
<1>10. Len(u) = Len(s)
    BY <1>2, <1>4, <1>7
<1>11. QED  BY <1>1, <1>3, <1>4, <1>5, <1>6, <1>7, <1>9, <1>10

\* The first key, used, stays the first.
LEMMA UsedAgain ==
    ASSUME NEW s, Keyed(s), Len(s) > 0
    PROVE  <<s[1]>> \o WithoutNth(s, 1) = s
<1>1. PICK t : t = WithoutNth(s, 1)
    OBVIOUS
<1>2. s \in Seq(Keys) /\ Len(s) \in Nat /\ 1 \in 1..Len(s)
    BY DEF Keyed
<1>3. t \in Seq(Keys) /\ Len(t) = Len(s) - 1
    BY <1>1, <1>2, WithoutNthKeyed DEF Keyed
<1>4. \A i \in 1..Len(t) : t[i] = s[i + 1]
    BY <1>1, <1>2, <1>3 DEF WithoutNth
<1>5. PICK u : u = <<s[1]>> \o t
    OBVIOUS
<1>6. u \in Seq(Keys) /\ Len(u) = Len(s) /\ u[1] = s[1] /\ \A i \in 1..Len(t) : u[i + 1] = t[i]
    BY <1>2, <1>3, <1>5
<1>7. \A i \in 1..Len(s) : u[i] = s[i]
  <2>1. ASSUME NEW i \in 1..Len(s), i /= 1 PROVE u[i] = s[i]
    <3>1. i - 1 \in 1..Len(t) /\ (i - 1) + 1 = i
        BY <1>2, <1>3, <2>1
    <3>2. QED  BY <1>4, <1>6, <3>1
  <2>2. QED  BY <1>6, <2>1
<1>8. u = s
    BY <1>2, <1>6, <1>7
<1>9. QED  BY <1>1, <1>5, <1>8

\* As many places as keys, and no more than there are.
LEMMA KeyedCount ==
    ASSUME NEW s, Keyed(s)
    PROVE  /\ Cardinality(KeysIn(s)) = Len(s) /\ IsFiniteSet(KeysIn(s))
           /\ Len(s) <= Cardinality(Keys) /\ Cardinality(Keys) \in Nat
<1> DEFINE T == {s[i] : i \in DOMAIN s}
<1>1. T \subseteq Keys /\ Len(s) \in Nat /\ DOMAIN s = 1..Len(s) /\ s = [i \in 1..Len(s) |-> s[i]]
    BY DEF Keyed
<1>2. s \in Bijection(1..Len(s), T)
  <2>1. s \in [1..Len(s) -> T] /\ \A x \in T : \E i \in 1..Len(s) : s[i] = x
      BY <1>1
  <2>2. \A i, j \in 1..Len(s) : s[i] = s[j] => i = j
      BY DEF Keyed
  <2> HIDE DEF T
  <2>3. QED  BY <2>1, <2>2 DEF Bijection, Injection, Surjection, IsInjective
<1>3. ExistsBijection(1..Len(s), T)
    BY <1>2 DEF ExistsBijection
<1>4. IsFiniteSet(1..Len(s)) /\ Cardinality(1..Len(s)) = Len(s)
  <2>1. 1 \in Int /\ Len(s) \in Int
      BY <1>1
  <2>2. IsFiniteSet(1..Len(s)) /\ Cardinality(1..Len(s)) = IF 1 > Len(s) THEN 0 ELSE Len(s) - 1 + 1
      BY <2>1, FS_Interval
  <2>3. QED  BY <1>1, <2>2
<1> HIDE DEF T
<1>5. Cardinality(T) = Len(s)
    BY <1>3, <1>4, FS_Bijection
<1>6. Cardinality(T) <= Cardinality(Keys) /\ Cardinality(Keys) \in Nat /\ IsFiniteSet(T)
    BY <1>1, ListAssumption, FS_Subset, FS_CardinalityType
<1>7. QED  BY <1>5, <1>6 DEF T, KeysIn

\* What a call that holds the write lock must establish.
LEMMA RingFollows ==
    ASSUME RingInv, WriteLocked, UNCHANGED <<pc, key>>,
           NEW s, Keyed(s), recency' = s, items' = KeysIn(s),
           NEW n \in [Nodes -> Nodes \cup {Nil}], NEW b \in [Nodes -> Nodes \cup {Nil}],
           nxt' = n, prv' = b, IsRing([n |-> n, p |-> b], s)
    PROVE  RingInv'
<1>1. ListTypeOK
    BY DEF RingInv
<1>2. items' \subseteq Keys
    BY DEF Keyed, KeysIn
<1>3. ListTypeOK'
    BY <1>1, <1>2 DEF ListTypeOK
<1>4. \A r \in Readers : pc'[r] = "idle"
    BY DEF WriteLocked
<1>5. Ring' = [n |-> n, p |-> b]
    BY DEF Ring
<1>6. IsRing(Ring, recency)'
    BY <1>5 DEF IsRing, Forward, Back, NodeAt
<1>7. Keyed(recency)' /\ items' = KeysIn(recency)'
    BY DEF Keyed, KeysIn
<1>8. QED  BY <1>3, <1>4, <1>6, <1>7 DEF RingInv

LEMMA PutStep == ASSUME RingInv, NEW k \in Keys, Put(k) PROVE RingInv'
<1>1. /\ WriteLocked /\ UNCHANGED <<pc, key>>
      /\ nxt \in [Nodes -> Nodes \cup {Nil}] /\ prv \in [Nodes -> Nodes \cup {Nil}]
    BY DEF Put, RingInv, ListTypeOK
<1>2. PICK s : s = recency
    OBVIOUS
<1>3. PICK l : l = [n |-> nxt, p |-> prv]
    OBVIOUS
<1>4. Keyed(s) /\ items = KeysIn(s) /\ IsRing(l, s)
    BY <1>1, <1>2, <1>3 DEF RingInv, Ring
<1>5. DOMAIN s = 1..Len(s) /\ Len(s) \in Nat /\ l.n = nxt
    BY <1>3, <1>4 DEF Keyed
<1>6. CASE k \in items
  <2>1. /\ Becomes(IF nxt[Root] = k THEN Ring ELSE Insert(Unlink(Ring, k), k))
        /\ UNCHANGED items /\ recency' = <<k>> \o WithoutKey(s, k)
      BY <1>2, <1>6 DEF Put
  <2>2. PICK p \in 1..Len(s) : s[p] = k
      BY <1>4, <1>5, <1>6 DEF KeysIn
  <2>3. PICK t : t = WithoutNth(s, p)
      OBVIOUS
  <2>4. PICK u : u = <<k>> \o t
      OBVIOUS
  <2>5. /\ WithoutKey(s, k) = t /\ Keyed(t) /\ Keyed(u)
        /\ \A i \in 1..Len(t) : t[i] /= k
        /\ KeysIn(u) = KeysIn(s)
      BY <1>4, <2>2, <2>3, <2>4, UsedFirst
  <2>6. recency' = u /\ items' = KeysIn(u)
      BY <1>4, <2>1, <2>4, <2>5
  <2>7. CASE nxt[Root] = k
    <3>1. nxt' = nxt /\ prv' = prv
        BY <2>1, <2>7 DEF Becomes, Ring
    <3>2. p = 1
      <4>1. 0 \in 0..Len(s) /\ 0 + 1 = 1 /\ 1 \in 1..Len(s) /\ NodeAt(s, 0) = Root
          BY <1>4, <1>5, <2>2, NodesDiffer
      <4>2. l.n[Root] = NodeAt(s, 1)
          BY <1>4, <4>1 DEF IsRing, Forward
      <4>3. s[1] = k
          BY <1>4, <1>5, <2>7, <4>1, <4>2, NodesDiffer
      <4>4. QED  BY <1>4, <2>2, <4>1, <4>3 DEF Keyed
    <3>3. u = s
      <4>1. Len(s) > 0 /\ s[1] = k
          BY <1>5, <2>2, <3>2
      <4>2. u = <<s[1]>> \o WithoutNth(s, 1)
          BY <2>3, <2>4, <3>2, <4>1
      <4>3. QED  BY <1>4, <4>1, <4>2, UsedAgain
    <3>4. QED  BY <1>1, <1>3, <1>4, <2>5, <2>6, <3>1, <3>3, RingFollows
  <2>8. CASE nxt[Root] /= k
    <3>1. PICK m : m = Unlink(l, k)
        OBVIOUS
    <3>2. /\ m.n \in [Nodes -> Nodes \cup {Nil}] /\ m.p \in [Nodes -> Nodes \cup {Nil}]
          /\ IsRing(m, t)
        BY <1>1, <1>3, <1>4, <2>2, <2>3, <3>1, UnlinkKeeps
    <3>3. m = [n |-> m.n, p |-> m.p]
        BY <3>1 DEF Unlink
    <3>4. PICK o : o = Insert(m, k)
        OBVIOUS
    <3>5. /\ o.n \in [Nodes -> Nodes \cup {Nil}] /\ o.p \in [Nodes -> Nodes \cup {Nil}]
          /\ IsRing(o, u)
      <4>1. PICK n : n = m.n
          OBVIOUS
      <4>2. PICK b : b = m.p
          OBVIOUS
      <4>3. /\ n \in [Nodes -> Nodes \cup {Nil}] /\ b \in [Nodes -> Nodes \cup {Nil}]
            /\ IsRing([n |-> n, p |-> b], t) /\ m = [n |-> n, p |-> b]
          BY <3>2, <3>3, <4>1, <4>2
      <4>4. o = Insert([n |-> n, p |-> b], k) /\ \A i \in 1..Len(t) : t[i] /= k
          BY <2>5, <3>4, <4>3
      <4>5. QED  BY <2>4, <2>5, <4>3, <4>4, InsertKeeps
    <3>6. o = [n |-> o.n, p |-> o.p]
        BY <3>4 DEF Insert
    <3>7. nxt' = o.n /\ prv' = o.p
        BY <1>3, <2>1, <2>8, <3>1, <3>4 DEF Becomes, Ring
    <3>8. IsRing([n |-> o.n, p |-> o.p], u)
        BY <3>5, <3>6
    <3>9. QED  BY <1>1, <2>5, <2>6, <3>5, <3>7, <3>8, RingFollows
  <2>9. QED  BY <2>7, <2>8
<1>7. CASE k \notin items
  <2>1. \A i \in 1..Len(s) : s[i] /= k
      BY <1>4, <1>5, <1>7 DEF KeysIn
  <2>2. PICK u : u = <<k>> \o s
      OBVIOUS
  <2>3. /\ Keyed(u) /\ Len(u) = Len(s) + 1
        /\ KeysIn(u) = {k} \cup KeysIn(s)
      BY <1>4, <2>1, <2>2, InFront
  <2>4. PICK pushed : pushed = Insert(l, k)
      OBVIOUS
  <2>5. /\ pushed.n \in [Nodes -> Nodes \cup {Nil}] /\ pushed.p \in [Nodes -> Nodes \cup {Nil}]
        /\ IsRing(pushed, u) /\ pushed = [n |-> pushed.n, p |-> pushed.p]
    <3>1. pushed = [n |-> pushed.n, p |-> pushed.p]
        BY <2>4 DEF Insert
    <3>2. IsRing([n |-> nxt, p |-> prv], s) /\ pushed = Insert([n |-> nxt, p |-> prv], k)
        BY <1>3, <1>4, <2>4
    <3>3. IsRing(Insert([n |-> nxt, p |-> prv], k), <<k>> \o s)
        BY <1>1, <1>4, <2>1, <3>2, InsertKeeps
    <3>4. /\ Insert([n |-> nxt, p |-> prv], k).n \in [Nodes -> Nodes \cup {Nil}]
          /\ Insert([n |-> nxt, p |-> prv], k).p \in [Nodes -> Nodes \cup {Nil}]
        BY <1>1, <1>4, <2>1, <3>2, InsertKeeps
    <3>5. QED  BY <2>2, <3>1, <3>2, <3>3, <3>4
  <2>6. PICK back : back = pushed.p[Root]
      OBVIOUS
  <2>7. PICK last : last = Len(s) + 1
      OBVIOUS
  <2>8. last \in 1..Len(u) /\ last = Len(u) /\ last \in Nat /\ last \in 0..Len(u)
      BY <1>5, <2>3, <2>7
  <2>9. back = u[last] /\ back \in Keys
    <3>1. pushed.p[NodeAt(u, last + 1)] = NodeAt(u, last)
        BY <2>5, <2>8 DEF IsRing, Back
    <3>2. QED  BY <2>3, <2>6, <2>8, <3>1, NodesDiffer
  <2>10. PICK full \in BOOLEAN : full <=> Cardinality(items) >= MaxSize
      OBVIOUS
  <2>11. /\ Becomes(IF full THEN Unlink(pushed, back) ELSE pushed)
         /\ items' = (items \cup {k}) \ (IF full THEN {back} ELSE {})
         /\ recency' = SubSeq(u, 1, Cardinality(items'))
      BY <1>2, <1>3, <1>7, <2>2, <2>4, <2>6, <2>9, <2>10 DEF Put, Ring
  <2>12. CASE ~ full
    <3>1. items' = KeysIn(u)
        BY <1>4, <2>3, <2>11, <2>12
    <3>2. Cardinality(items') = last
        BY <2>3, <2>8, <3>1, KeyedCount
    <3>3. recency' = u
        BY <2>3, <2>8, <2>11, <3>2 DEF Keyed
    <3>4. nxt' = pushed.n /\ prv' = pushed.p
        BY <2>11, <2>12 DEF Becomes
    <3>5. IsRing([n |-> pushed.n, p |-> pushed.p], u)
        BY <2>5
    <3>6. QED  BY <1>1, <2>3, <2>5, <3>1, <3>3, <3>4, <3>5, RingFollows
  <2>13. CASE full
    <3>1. PICK v : v = WithoutNth(u, last)
        OBVIOUS
    <3>2. /\ Keyed(v) /\ Len(v) = Len(s)
          /\ KeysIn(v) = KeysIn(u) \ {back}
        BY <1>5, <2>3, <2>8, <2>9, <3>1, WithoutNthKeyed
    <3>3. items' = KeysIn(u) \ {back}
        BY <1>4, <2>3, <2>11, <2>13
    <3>4. items' = KeysIn(v)
        BY <3>2, <3>3
    <3>5. Cardinality(items') = Len(s)
        BY <3>2, <3>4, KeyedCount
    <3>6. recency' = v
      <4>1. recency' = SubSeq(u, 1, Len(s))
          BY <2>11, <3>5
      <4>2. v = [i \in 1..Len(s) |-> u[i]]
          BY <1>5, <2>3, <2>7, <3>1 DEF WithoutNth
      <4>3. u \in Seq(Keys) /\ Len(s) \in 0..Len(u)
          BY <1>5, <2>3 DEF Keyed
      <4>4. SubSeq(u, 1, Len(s)) = [i \in 1..Len(s) |-> u[i]]
          BY <1>5, <4>3
      <4>5. QED  BY <4>1, <4>2, <4>4
    <3>7. PICK m : m = Unlink(pushed, back)
        OBVIOUS
    <3>8. /\ m.n \in [Nodes -> Nodes \cup {Nil}] /\ m.p \in [Nodes -> Nodes \cup {Nil}]
          /\ IsRing(m, v)
        BY <2>3, <2>5, <2>8, <2>9, <3>1, <3>7, UnlinkKeeps
    <3>9. m = [n |-> m.n, p |-> m.p]
        BY <3>7 DEF Unlink
    <3>10. nxt' = m.n /\ prv' = m.p
        BY <2>11, <2>13, <3>7 DEF Becomes
    <3>11. IsRing([n |-> m.n, p |-> m.p], v)
        BY <3>8, <3>9
    <3>12. QED  BY <1>1, <3>2, <3>4, <3>6, <3>8, <3>10, <3>11, RingFollows
  <2>14. QED  BY <2>10, <2>12, <2>13
<1>8. QED  BY <1>6, <1>7

LEMMA RemoveItemStep == ASSUME RingInv, NEW k \in Keys, RemoveItem(k) PROVE RingInv'
<1>1. /\ WriteLocked /\ UNCHANGED <<pc, key>> /\ k \in items /\ items' = items \ {k}
      /\ nxt \in [Nodes -> Nodes \cup {Nil}] /\ prv \in [Nodes -> Nodes \cup {Nil}]
    BY DEF RemoveItem, RingInv, ListTypeOK
<1>2. PICK s : s = recency
    OBVIOUS
<1>3. PICK l : l = [n |-> nxt, p |-> prv]
    OBVIOUS
<1>4. Keyed(s) /\ items = KeysIn(s) /\ IsRing(l, s)
    BY <1>1, <1>2, <1>3 DEF RingInv, Ring
<1>5. DOMAIN s = 1..Len(s) /\ Len(s) \in Nat
    BY <1>4 DEF Keyed
<1>6. PICK p \in 1..Len(s) : s[p] = k
    BY <1>1, <1>4, <1>5 DEF KeysIn
<1>7. PICK t : t = WithoutNth(s, p)
    OBVIOUS
<1>8. WithoutKey(s, k) = t /\ Keyed(t)
    BY <1>4, <1>6, <1>7, UsedFirst
<1>9. /\ Len(t) = Len(s) - 1
      /\ KeysIn(t) = KeysIn(s) \ {k}
    BY <1>4, <1>6, <1>7, WithoutNthKeyed
<1>10. recency' = t
    BY <1>2, <1>8 DEF RemoveItem
<1>11. items' = KeysIn(t) /\ recency' = t
    BY <1>1, <1>4, <1>9, <1>10
<1>12. PICK m : m = Unlink(l, k)
    OBVIOUS
<1>13. /\ m.n \in [Nodes -> Nodes \cup {Nil}] /\ m.p \in [Nodes -> Nodes \cup {Nil}]
       /\ IsRing(m, t)
    BY <1>1, <1>3, <1>4, <1>6, <1>7, <1>12, UnlinkKeeps
<1>14. m = [n |-> m.n, p |-> m.p]
    BY <1>12 DEF Unlink
<1>15. nxt' = m.n /\ prv' = m.p
    BY <1>3, <1>12 DEF RemoveItem, Becomes, Ring
<1>16. IsRing([n |-> m.n, p |-> m.p], t)
    BY <1>13, <1>14
<1>17. QED  BY <1>1, <1>8, <1>11, <1>13, <1>15, <1>16, RingFollows

\* Find: the key is used, and moves unless it is at the front.
LEMMA FindStep ==
    ASSUME RingInv, OneReader, NEW r \in Readers, NEW k \in Keys, Find(r, k)
    PROVE  RingInv'
<1>1. /\ pc[r] = "idle" /\ k \in items /\ UNCHANGED <<nxt, prv, items>>
      /\ pc' = [pc EXCEPT ![r] = IF nxt[Root] = k THEN "idle" ELSE "skip_forward"]
      /\ key' = [key EXCEPT ![r] = IF nxt[Root] = k THEN Nil ELSE k]
      /\ recency' = <<k>> \o WithoutKey(recency, k)
    BY DEF Find
<1>2. ListTypeOK /\ WriteLocked
    BY <1>1 DEF RingInv, OneReader, WriteLocked
<1>3. PICK s : s = recency
    OBVIOUS
<1>4. PICK l : l = [n |-> nxt, p |-> prv]
    OBVIOUS
<1>5. Keyed(s) /\ items = KeysIn(s) /\ IsRing(l, s)
    BY <1>2, <1>3, <1>4 DEF RingInv, Ring
<1>6. DOMAIN s = 1..Len(s) /\ Len(s) \in Nat /\ l.n = nxt
    BY <1>4, <1>5 DEF Keyed
<1>7. PICK p \in 1..Len(s) : s[p] = k
    BY <1>1, <1>5, <1>6 DEF KeysIn
<1>8. PICK t : t = WithoutNth(s, p)
    OBVIOUS
<1>9. PICK u : u = <<k>> \o t
    OBVIOUS
<1>10. /\ WithoutKey(s, k) = t /\ Keyed(t) /\ Keyed(u)
       /\ Len(u) = Len(s) /\ u[1] = k /\ WithoutNth(u, 1) = t
       /\ KeysIn(u) = KeysIn(s)
    BY <1>5, <1>7, <1>8, <1>9, UsedFirst
<1>11. recency' = u /\ Ring' = l
    BY <1>1, <1>3, <1>4, <1>9, <1>10 DEF Ring
<1>12. 0 \in 0..Len(s) /\ 0 + 1 = 1 /\ 1 \in 1..Len(s) /\ NodeAt(s, 0) = Root /\ NodeAt(s, 1) = s[1]
    BY <1>5, <1>6, <1>7, NodesDiffer
<1>13. nxt[Root] = s[1]
    BY <1>5, <1>6, <1>12 DEF IsRing, Forward
<1>14. /\ nxt' \in [Nodes -> Nodes \cup {Nil}] /\ prv' \in [Nodes -> Nodes \cup {Nil}]
       /\ items' \subseteq Keys
    BY <1>1, <1>2 DEF ListTypeOK
<1>15. Keyed(recency)' /\ items' = KeysIn(recency)'
  <2>1. items' = KeysIn(u)
      BY <1>1, <1>5, <1>10
  <2>2. QED  BY <1>10, <1>11, <2>1 DEF Keyed, KeysIn
<1>16. CASE nxt[Root] = k
  <2>1. pc' = pc /\ key' = key
      BY <1>1, <1>2, <1>16 DEF ListTypeOK
  <2>2. ListTypeOK'
      BY <1>2, <1>14, <2>1 DEF ListTypeOK
  <2>3. u = s
    <3>1. p = 1 /\ Len(s) > 0 /\ s[1] = k
      <4>1. s[1] = k /\ 1 \in 1..Len(s)
          BY <1>12, <1>13, <1>16
      <4>2. QED  BY <1>5, <1>6, <1>7, <4>1 DEF Keyed
    <3>2. u = <<s[1]>> \o WithoutNth(s, 1)
        BY <1>8, <1>9, <3>1
    <3>3. QED  BY <1>5, <3>1, <3>2, UsedAgain
  <2>4. IsRing(Ring, recency)'
      BY <1>5, <1>11, <2>3 DEF IsRing, Forward, Back, NodeAt
  <2>5. \A x \in Readers : pc'[x] = "idle"
      BY <1>2, <2>1 DEF WriteLocked
  <2>6. QED  BY <1>15, <2>2, <2>4, <2>5 DEF RingInv
<1>17. CASE nxt[Root] /= k
  <2>1. pc' = [pc EXCEPT ![r] = "skip_forward"] /\ key' = [key EXCEPT ![r] = k]
      BY <1>1, <1>17
  <2>2. k /= Nil
      BY ListAssumption
  <2>3. ListTypeOK'
      BY <1>2, <1>14, <2>1, <2>2 DEF ListTypeOK
  <2>4. Readers = {r}
      BY DEF OneReader
  <2>5. pc'[r] = "skip_forward" /\ key'[r] = k
      BY <1>2, <2>1 DEF ListTypeOK
  <2>6. Moving(l, t, k, "skip_forward")
      BY <1>5, <1>6, <1>7, <1>8, <1>17, MoveBegins
  <2>7. Len(u) > 1
    <3>1. Len(s) /= 1
        BY <1>7, <1>13, <1>17
    <3>2. QED  BY <1>6, <1>10, <1>12, <3>1
  <2>8. Others' = t
      BY <1>10, <1>11 DEF Others
  <2>9. Moving(Ring, Others, key[r], pc[r])'
      BY <1>11, <2>5, <2>6, <2>8
      DEF Moving, IsBetween, IsRing, Forward, Back, NodeAt
  <2>10. Len(recency') > 1 /\ recency'[1] = key'[r]
      BY <1>10, <1>11, <2>5, <2>7
  <2>11. ~ WriteLocked'
      BY <2>5 DEF WriteLocked
  <2>12. \A x \in Readers : x = r
      BY <2>4
  <2> QED  BY <1>15, <2>3, <2>9, <2>10, <2>11, <2>12 DEF RingInv
<1>18. QED  BY <1>16, <1>17

\* What a reader inside Get has: the other keys, ringed.
LEMMA MovingReader ==
    ASSUME RingInv, NEW r \in Readers, pc[r] /= "idle"
    PROVE  /\ ListTypeOK /\ key[r] \in Keys /\ Keyed(recency) /\ Len(recency) > 1
           /\ Keyed(Others) /\ Len(Others) > 0
           /\ \A i \in 1..Len(Others) : Others[i] /= key[r]
           /\ recency = <<key[r]>> \o Others
           /\ Moving(Ring, Others, key[r], pc[r])
<1>1. /\ ListTypeOK /\ key[r] \in Keys /\ Keyed(recency) /\ Len(recency) > 1 /\ recency[1] = key[r]
      /\ Moving(Ring, Others, key[r], pc[r])
    BY DEF RingInv, ListTypeOK
<1>2. Len(recency) \in Nat /\ 1 \in 1..Len(recency)
    BY <1>1 DEF Keyed
<1>3. PICK s : s = recency
    OBVIOUS
<1>4. /\ Keyed(s) /\ Len(s) > 1 /\ s[1] = key[r] /\ 1 \in 1..Len(s) /\ Len(s) \in Nat
      /\ Others = WithoutNth(s, 1)
    BY <1>1, <1>2, <1>3 DEF Others
<1>5. /\ Keyed(WithoutNth(s, 1)) /\ Len(WithoutNth(s, 1)) = Len(s) - 1
      /\ \A i \in 1..Len(WithoutNth(s, 1)) : WithoutNth(s, 1)[i] /= s[1]
    BY <1>4, WithoutNthKeyed, UsedFirst
<1>6. <<s[1]>> \o WithoutNth(s, 1) = s
    BY <1>4, UsedAgain
<1>7. Len(Others) > 0
    BY <1>4, <1>5
<1>8. QED  BY <1>1, <1>3, <1>4, <1>5, <1>6, <1>7

\* What an assignment of a move that goes on must establish.
LEMMA MoveFollows ==
    ASSUME RingInv, OneReader, NEW r \in Readers, pc[r] /= "idle",
           NEW at \in {"skip_back", "set_prev", "set_next", "link_prev", "link_next"},
           pc' = [pc EXCEPT ![r] = at], UNCHANGED <<key, items, recency>>,
           NEW n \in [Nodes -> Nodes \cup {Nil}], NEW b \in [Nodes -> Nodes \cup {Nil}],
           nxt' = n, prv' = b, Moving([n |-> n, p |-> b], Others, key[r], at)
    PROVE  RingInv'
<1>1. ListTypeOK /\ key[r] \in Keys /\ Len(recency) > 1 /\ recency[1] = key[r]
    BY DEF RingInv, ListTypeOK
<1>2. key[r] /= Nil /\ pc'[r] = at /\ at /= "idle"
    BY <1>1, ListAssumption DEF ListTypeOK
<1>3. ListTypeOK'
    BY <1>1, <1>2 DEF ListTypeOK
<1>4. ~ WriteLocked' /\ \A x \in Readers : x = r
    BY <1>2 DEF WriteLocked, OneReader
<1>5. Keyed(recency)' /\ items' = KeysIn(recency)'
    BY DEF RingInv, Keyed, KeysIn
<1>6. Ring' = [n |-> n, p |-> b] /\ Others' = Others
    BY DEF Ring, Others, WithoutNth
<1>7. Moving(Ring, Others, key[r], pc[r])'
    BY <1>2, <1>6 DEF Moving, IsBetween, IsRing, Forward, Back, NodeAt
<1>8. Len(recency') > 1 /\ recency'[1] = key'[r]
    BY <1>1
<1>9. QED  BY <1>3, <1>4, <1>5, <1>7, <1>8 DEF RingInv

LEMMA MoveStep ==
    ASSUME RingInv, OneReader, NEW r \in Readers,
           SkipForward(r) \/ SkipBack(r) \/ SetPrev(r) \/ SetNext(r) \/ LinkPrev(r) \/ LinkNext(r)
    PROVE  RingInv'
<1>1. pc[r] /= "idle"
    BY DEF SkipForward, SkipBack, SetPrev, SetNext, LinkPrev, LinkNext, Step
<1>2. PICK k, s, n, b : k = key[r] /\ s = Others /\ n = nxt /\ b = prv
    OBVIOUS
<1>3. /\ ListTypeOK /\ k \in Keys /\ Keyed(s) /\ Len(s) > 0
      /\ \A i \in 1..Len(s) : s[i] /= k
      /\ recency = <<k>> \o s
      /\ Moving(Ring, s, k, pc[r])
    BY <1>1, <1>2, MovingReader
<1>4. /\ n \in [Nodes -> Nodes \cup {Nil}] /\ b \in [Nodes -> Nodes \cup {Nil}]
      /\ Moving([n |-> n, p |-> b], s, k, pc[r])
      /\ Root \in Nodes /\ Keys \subseteq Nodes
    BY <1>2, <1>3 DEF ListTypeOK, Ring, Nodes
<1>5. CASE SkipForward(r)
  <2>1. /\ pc[r] = "skip_forward" /\ pc' = [pc EXCEPT ![r] = "skip_back"]
        /\ UNCHANGED <<key, items, recency>>
        /\ nxt' = Set(n, b[k], n[k]) /\ prv' = b
      BY <1>2, <1>5 DEF SkipForward, Step
  <2>2. Moving([n |-> Set(n, b[k], n[k]), p |-> b], s, k, "skip_back")
      BY <1>3, <1>4, <2>1, MoveGoesOn
  <2>3. Set(n, b[k], n[k]) \in [Nodes -> Nodes \cup {Nil}]
      BY <1>3, <1>4 DEF Set
  <2>4. QED  BY <1>1, <1>2, <1>4, <2>1, <2>2, <2>3, MoveFollows
<1>6. CASE SkipBack(r)
  <2>1. /\ pc[r] = "skip_back" /\ pc' = [pc EXCEPT ![r] = "set_prev"]
        /\ UNCHANGED <<key, items, recency>>
        /\ prv' = Set(b, n[k], b[k]) /\ nxt' = n
      BY <1>2, <1>6 DEF SkipBack, Step
  <2>2. Moving([n |-> n, p |-> Set(b, n[k], b[k])], s, k, "set_prev")
      BY <1>3, <1>4, <2>1, MoveGoesOn
  <2>3. Set(b, n[k], b[k]) \in [Nodes -> Nodes \cup {Nil}]
      BY <1>3, <1>4 DEF Set
  <2>4. QED  BY <1>1, <1>2, <1>4, <2>1, <2>2, <2>3, MoveFollows
<1>7. CASE SetPrev(r)
  <2>1. /\ pc[r] = "set_prev" /\ pc' = [pc EXCEPT ![r] = "set_next"]
        /\ UNCHANGED <<key, items, recency>>
        /\ prv' = [b EXCEPT ![k] = Root] /\ nxt' = n
      BY <1>2, <1>7 DEF SetPrev, Step
  <2>2. Moving([n |-> n, p |-> [b EXCEPT ![k] = Root]], s, k, "set_next")
      BY <1>3, <1>4, <2>1, MoveGoesOn
  <2>3. [b EXCEPT ![k] = Root] \in [Nodes -> Nodes \cup {Nil}]
      BY <1>3, <1>4
  <2>4. QED  BY <1>1, <1>2, <1>4, <2>1, <2>2, <2>3, MoveFollows
<1>8. CASE SetNext(r)
  <2>1. /\ pc[r] = "set_next" /\ pc' = [pc EXCEPT ![r] = "link_prev"]
        /\ UNCHANGED <<key, items, recency>>
        /\ nxt' = [n EXCEPT ![k] = n[Root]] /\ prv' = b
      BY <1>2, <1>8 DEF SetNext, Step
  <2>2. Moving([n |-> [n EXCEPT ![k] = n[Root]], p |-> b], s, k, "link_prev")
      BY <1>3, <1>4, <2>1, MoveGoesOn
  <2>3. [n EXCEPT ![k] = n[Root]] \in [Nodes -> Nodes \cup {Nil}]
      BY <1>3, <1>4
  <2>4. QED  BY <1>1, <1>2, <1>4, <2>1, <2>2, <2>3, MoveFollows
<1>9. CASE LinkPrev(r)
  <2>1. /\ pc[r] = "link_prev" /\ pc' = [pc EXCEPT ![r] = "link_next"]
        /\ UNCHANGED <<key, items, recency>>
        /\ nxt' = Set(n, b[k], k) /\ prv' = b
      BY <1>2, <1>9 DEF LinkPrev, Step
  <2>2. Moving([n |-> Set(n, b[k], k), p |-> b], s, k, "link_next")
      BY <1>3, <1>4, <2>1, MoveGoesOn
  <2>3. Set(n, b[k], k) \in [Nodes -> Nodes \cup {Nil}]
      BY <1>3, <1>4 DEF Set
  <2>4. QED  BY <1>1, <1>2, <1>4, <2>1, <2>2, <2>3, MoveFollows
<1>10. CASE LinkNext(r)
  <2>1. /\ pc[r] = "link_next" /\ pc' = [pc EXCEPT ![r] = "idle"]
        /\ key' = [key EXCEPT ![r] = Nil] /\ UNCHANGED <<items, recency>>
        /\ prv' = Set(b, n[k], k) /\ nxt' = n
      BY <1>2, <1>10 DEF LinkNext
  <2>2. IsRing([n |-> n, p |-> Set(b, n[k], k)], <<k>> \o s)
      BY <1>3, <1>4, <2>1, MoveGoesOn
  <2>3. Set(b, n[k], k) \in [Nodes -> Nodes \cup {Nil}]
      BY <1>3, <1>4 DEF Set
  <2>4. ListTypeOK'
      BY <1>3, <1>4, <2>1, <2>3 DEF ListTypeOK
  <2>5. \A x \in Readers : pc'[x] = "idle"
      BY <1>3, <2>1 DEF ListTypeOK, OneReader
  <2>6. Ring' = [n |-> n, p |-> Set(b, n[k], k)]
      BY <2>1 DEF Ring
  <2>7. PICK u : u = <<k>> \o s
      OBVIOUS
  <2>8. recency' = u /\ IsRing(Ring', u)
      BY <1>3, <2>1, <2>2, <2>6, <2>7
  <2>9. IsRing(Ring, recency)'
      BY <2>8 DEF IsRing, Forward, Back, NodeAt
  <2>10. Keyed(recency)' /\ items' = KeysIn(recency)'
      BY <2>1 DEF RingInv, Keyed, KeysIn
  <2>11. QED  BY <2>4, <2>5, <2>9, <2>10 DEF RingInv
<1>11. QED  BY <1>5, <1>6, <1>7, <1>8, <1>9, <1>10

LEMMA RingStep ==
    ASSUME OneReader
    PROVE  RingInv /\ [Next]_vars => RingInv'
<1> SUFFICES ASSUME RingInv, [Next]_vars PROVE RingInv'
    OBVIOUS
<1>1. ListNext \/ UNCHANGED listVars
    BY StepOfAPart
<1>2. CASE ListNext
    BY <1>2, PutStep, RemoveItemStep, FindStep, MoveStep DEF ListNext
<1>3. CASE UNCHANGED listVars
  <2>1. UNCHANGED <<nxt, prv, items, pc, key, recency>>
      BY <1>3 DEF listVars
  <2>2. ListTypeOK'
      BY <2>1 DEF RingInv, ListTypeOK
  <2>3. Keyed(recency)' /\ items' = KeysIn(recency)'
      BY <2>1 DEF RingInv, Keyed, KeysIn
  <2>4. Ring' = Ring /\ Others' = Others
      BY <2>1 DEF Ring, Others, WithoutNth
  <2>5. WriteLocked' => IsRing(Ring, recency)'
      BY <2>1, <2>4 DEF RingInv, WriteLocked, IsRing, Forward, Back, NodeAt
  <2>6. ASSUME NEW r \in Readers, pc'[r] /= "idle"
        PROVE  /\ Len(recency') > 1 /\ recency'[1] = key'[r]
               /\ Moving(Ring, Others, key[r], pc[r])'
    <3>1. Len(recency) > 1 /\ recency[1] = key[r] /\ Moving(Ring, Others, key[r], pc[r])
        BY <2>1, <2>6 DEF RingInv
    <3>2. QED  BY <2>1, <2>4, <3>1 DEF Moving, IsBetween, IsRing, Forward, Back, NodeAt
  <2>7. QED  BY <2>2, <2>3, <2>5, <2>6 DEF RingInv
<1>4. QED  BY <1>1, <1>2, <1>3

\* A walk along pointers is defined, for as many steps as one likes.
LEMMA WalkDefined ==
    ASSUME NEW n, NEW C \in Nat
    PROVE  \E g : g = [i \in 0..C |-> IF i = 0 THEN Root ELSE At(n, g[i - 1])]
<1> DEFINE F(g, i) == IF i = 0 THEN Root ELSE At(n, g[i - 1])
           Defined(c) == \E g : g = [i \in 0..c |-> F(g, i)]
           Lacking == {c \in 0..C : ~ Defined(c)}
<1> HIDE DEF Defined
<1>1. Lacking = {}
  <2> SUFFICES ASSUME Lacking /= {} PROVE FALSE
      OBVIOUS
  <2>1. PICK m \in Lacking : \A c \in Lacking : m <= c
    <3>1. Lacking \in SUBSET Nat
        OBVIOUS
    <3> HIDE DEF Lacking
    <3>2. QED  BY <3>1, LeastNatural
  <2>2. m \in 0..C /\ ~ Defined(m) /\ \A c \in 0..C : c < m => Defined(c)
      BY <2>1
  <2>3. CASE m = 0
    <3>1. [i \in 0..0 |-> Root] = [i \in 0..0 |-> F([x \in 0..0 |-> Root], i)]
        OBVIOUS
    <3>2. QED  BY <2>2, <2>3, <3>1 DEF Defined
  <2>4. CASE m > 0
    <3>1. m \in Nat /\ m - 1 \in 0..C /\ m - 1 < m
        BY <2>2, <2>4
    <3>2. PICK g : g = [i \in 0..(m - 1) |-> F(g, i)]
        BY <2>2, <3>1 DEF Defined
    <3> DEFINE f == [i \in 0..m |-> IF i = m THEN F(g, m) ELSE g[i]]
    <3>3. ASSUME NEW i \in 0..m PROVE f[i] = F(f, i)
      <4>1. CASE i = 0
          BY <2>4, <3>1, <3>2, <4>1
      <4>2. CASE i > 0
        <5>1. f[i - 1] = g[i - 1]
            BY <3>1, <4>2
        <5>2. f[i] = F(g, i)
          <6>1. CASE i = m
              BY <6>1
          <6>2. CASE i /= m
            <7>1. i \in 0..(m - 1) /\ f[i] = g[i]
                BY <3>1, <6>2
            <7>2. QED  BY <3>2, <7>1
          <6>3. QED  BY <6>1, <6>2
        <5>3. QED  BY <4>2, <5>1, <5>2
      <4>3. QED  BY <3>1, <4>1, <4>2
    <3>4. f = [i \in 0..m |-> F(f, i)]
        BY <3>3
    <3> HIDE DEF f
    <3>5. QED  BY <2>2, <3>4 DEF Defined
  <2>5. QED  BY <2>2, <2>3, <2>4
<1>2. Defined(C)
    BY <1>1
<1>3. QED  BY <1>2 DEF Defined

\* Walking a ring from the sentinel meets its keys in order.
LEMMA WalkMeets ==
    ASSUME Keyed(recency), IsRing(Ring, recency)
    PROVE  \A i \in DOMAIN recency : Walk[i] = recency[i]
<1>1. PICK C : C = Cardinality(Keys) + 1
    OBVIOUS
<1>2. Cardinality(Keys) \in Nat /\ Len(recency) <= Cardinality(Keys)
    BY KeyedCount
<1>3. C \in Nat /\ Len(recency) < C /\ Len(recency) \in Nat /\ DOMAIN recency = 1..Len(recency)
    BY <1>1, <1>2 DEF Keyed
<1>4. Walk = [i \in 0..C |-> IF i = 0 THEN Root ELSE At(nxt, Walk[i - 1])]
  <2>1. \E g : g = [i \in 0..C |-> IF i = 0 THEN Root ELSE At(nxt, g[i - 1])]
      BY <1>3, WalkDefined
  <2>2. QED  BY <1>1, <2>1 DEF Walk
<1>5. PICK w : w = Walk
    OBVIOUS
<1>6. w[0] = Root /\ \A i \in 1..Len(recency) : w[i] = At(nxt, w[i - 1])
    BY <1>3, <1>4, <1>5
<1> DEFINE Astray == {i \in 1..Len(recency) : w[i] /= NodeAt(recency, i)}
<1>7. Astray = {}
  <2> SUFFICES ASSUME Astray /= {} PROVE FALSE
      OBVIOUS
  <2>1. PICK m \in Astray : \A c \in Astray : m <= c
    <3>1. Astray \in SUBSET Nat
        OBVIOUS
    <3> HIDE DEF Astray
    <3>2. QED  BY <3>1, LeastNatural
  <2>2. m \in 1..Len(recency) /\ w[m] /= NodeAt(recency, m) /\ m - 1 \in 0..Len(recency)
        /\ m - 1 \in 0..(Len(recency) + 1) /\ m - 1 + 1 = m
      BY <1>3, <2>1
  <2>3. w[m - 1] = NodeAt(recency, m - 1)
    <3>1. CASE m = 1
        BY <1>6, <3>1, NodesDiffer
    <3>2. CASE m /= 1
      <4>1. m - 1 \in 1..Len(recency) /\ m - 1 < m
          BY <1>3, <2>2, <3>2
      <4>2. m - 1 \notin Astray
          BY <1>3, <2>1, <2>2, <4>1
      <4>3. QED  BY <4>1, <4>2
    <3>3. QED  BY <3>1, <3>2
  <2>4. NodeAt(recency, m - 1) \in Nodes
      BY <2>2, NodesDiffer
  <2>5. nxt[NodeAt(recency, m - 1)] = NodeAt(recency, m)
      BY <2>2 DEF IsRing, Forward, Ring
  <2>6. w[m] = nxt[w[m - 1]]
      BY <1>6, <2>2, <2>3, <2>4 DEF At
  <2>7. QED  BY <2>2, <2>3, <2>5, <2>6
<1>8. QED  BY <1>3, <1>5, <1>7, NodesDiffer

(* With one Get at a time the ring lists the cached keys in the order of their  *)
(* last use whenever no call is inside, so that Put evicts the key not used for  *)
(* longest.  Two Gets at a time do break the ring: see the run lru_two_readers.  *)
THEOREM RingOrdersByUse == OneReader /\ Spec => []RingIsRecency
<1>1. Init => RingInv
  <2> SUFFICES ASSUME Init PROVE RingInv
      OBVIOUS
  <2>1. /\ nxt = [n \in Nodes |-> IF n = Root THEN Root ELSE Nil] /\ prv = nxt /\ items = {}
        /\ pc = [r \in Readers |-> "idle"] /\ key = [r \in Readers |-> Nil] /\ recency = <<>>
      BY DEF Init, ListInit
  <2>2. Root \in Nodes
      BY DEF Nodes
  <2>3. ListTypeOK
      BY <2>1, <2>2 DEF ListTypeOK
  <2>4. Len(recency) = 0 /\ DOMAIN recency = {} /\ recency \in Seq(Keys)
      BY <2>1
  <2>5. Keyed(recency) /\ items = KeysIn(recency)
      BY <2>1, <2>4 DEF Keyed, KeysIn
  <2>6. IsRing(Ring, recency)
      BY <2>1, <2>2, <2>4 DEF IsRing, Ring, Forward, Back, NodeAt
  <2>7. \A r \in Readers : pc[r] = "idle"
      BY <2>1
  <2>8. QED  BY <2>3, <2>5, <2>6, <2>7 DEF RingInv
<1>2. ASSUME OneReader PROVE RingInv /\ [Next]_vars => RingInv'
    BY <1>2, RingStep
<1>3. RingInv => RingIsRecency
    BY WalkMeets DEF RingInv, RingIsRecency, KeysIn
<1>4. SUFFICES ASSUME OneReader PROVE Spec => []RingIsRecency
    OBVIOUS
<1>5. RingInv /\ [Next]_vars => RingInv'
    BY <1>2, <1>4
<1>6. QED  BY <1>1, <1>3, <1>5, PTL DEF Spec

-----------------------------------------------------------------------------
(***************************************************************************)
(* Recursion and induction along the naturals, for the walks over sequences.*)
(***************************************************************************)
\* A function of values in T, from a on by the steps of G.
Recursion(T, a, N, G) == \E g \in [0..N -> T] : g[0] = a /\ \A n \in 1..N : g[n] = G[n][g[n - 1]]

\* A recursion along the naturals defines a function, of values in T if its steps stay
\* there.
LEMMA RecursionDefined ==
    ASSUME NEW T, NEW a \in T, NEW N \in Nat, NEW G \in [Nat -> [T -> T]]
    PROVE  Recursion(T, a, N, G)
<1> DEFINE F(g, n) == IF n = 0 THEN a ELSE G[n][g[n - 1]]
           Defined(c) == \E g \in [0..c -> T] : g = [n \in 0..c |-> F(g, n)]
           Lacking == {c \in 0..N : ~ Defined(c)}
<1> HIDE DEF Defined
<1>1. Lacking = {}
  <2> SUFFICES ASSUME Lacking /= {} PROVE FALSE
      OBVIOUS
  <2>1. PICK m \in Lacking : \A c \in Lacking : m <= c
    <3>1. Lacking \in SUBSET Nat
        OBVIOUS
    <3> HIDE DEF Lacking
    <3>2. QED  BY <3>1, LeastNatural
  <2>2. m \in 0..N /\ ~ Defined(m) /\ \A c \in 0..N : c < m => Defined(c)
      BY <2>1
  <2>3. CASE m = 0
    <3> DEFINE h == [n \in 0..0 |-> a]
    <3>1. h \in [0..0 -> T] /\ h = [n \in 0..0 |-> F(h, n)]
        OBVIOUS
    <3> HIDE DEF h
    <3>2. QED  BY <2>2, <2>3, <3>1 DEF Defined
  <2>4. CASE m > 0
    <3>1. m \in Nat /\ m - 1 \in 0..N /\ m - 1 < m
        BY <2>2, <2>4
    <3>2. PICK g \in [0..(m - 1) -> T] : g = [n \in 0..(m - 1) |-> F(g, n)]
        BY <2>2, <3>1 DEF Defined
    <3> DEFINE f == [n \in 0..m |-> IF n = m THEN F(g, m) ELSE g[n]]
    <3>3. \A n \in 0..(m - 1) : f[n] = g[n] /\ g[n] = F(g, n) /\ g[n] \in T
        BY <3>1, <3>2
    <3>4. f[m] = F(g, m)
        BY <3>1
    <3>5. ASSUME NEW n \in 0..m PROVE f[n] = F(f, n) /\ f[n] \in T
      <4> HIDE DEF f
      <4>1. CASE n = 0
        <5>1. n \in 0..(m - 1)
            BY <3>1, <4>1
        <5>2. QED  BY <3>3, <4>1, <5>1
      <4>2. CASE n > 0
        <5>1. n - 1 \in 0..(m - 1) /\ n \in Nat
            BY <3>1, <4>2
        <5>2. f[n - 1] = g[n - 1] /\ g[n - 1] \in T
            BY <3>3, <5>1
        <5>3. f[n] = G[n][g[n - 1]]
          <6>1. CASE n = m
              BY <3>4, <4>2, <6>1
          <6>2. CASE n /= m
            <7>1. n \in 0..(m - 1)
                BY <3>1, <6>2
            <7>2. QED  BY <3>3, <4>2, <7>1
          <6>3. QED  BY <6>1, <6>2
        <5>4. G[n][g[n - 1]] \in T
            BY <5>1, <5>2
        <5>5. QED  BY <4>2, <5>2, <5>3, <5>4
      <4>3. QED  BY <3>1, <4>1, <4>2
    <3>6. f = [n \in 0..m |-> F(f, n)] /\ f \in [0..m -> T]
        BY <3>5
    <3> HIDE DEF f
    <3>7. QED  BY <2>2, <3>6 DEF Defined
  <2>5. QED  BY <2>2, <2>3, <2>4
<1>2. Defined(N)
    BY <1>1
<1>3. PICK g \in [0..N -> T] : g = [n \in 0..N |-> F(g, n)]
    BY <1>2 DEF Defined
<1>4. g[0] = a
    BY <1>3
<1>5. ASSUME NEW n \in 1..N PROVE g[n] = G[n][g[n - 1]]
    BY <1>3
<1>6. QED  BY <1>4, <1>5 DEF Recursion

\* Induction over the first naturals.
LEMMA InductionUpTo ==
    ASSUME NEW N \in Nat, NEW T, 0 \in T, \A n \in 1..N : n - 1 \in T => n \in T
    PROVE  0..N \subseteq T
<1> DEFINE Lacking == (0..N) \ T
<1>1. SUFFICES ASSUME Lacking /= {} PROVE FALSE
    OBVIOUS
<1>2. PICK m \in Lacking : \A k \in Lacking : m <= k
  <2>1. Lacking \in SUBSET Nat
      OBVIOUS
  <2> HIDE DEF Lacking
  <2>2. QED  BY <1>1, <2>1, LeastNatural
<1>3. m \in 1..N /\ m - 1 \in 0..N /\ ~ (m <= m - 1)
    BY <1>2
<1>4. m - 1 \in T
    BY <1>2, <1>3
<1>5. QED  BY <1>2, <1>3, <1>4

\* Induction along a sequence.
LEMMA InductionAppend ==
    ASSUME NEW S, NEW T, <<>> \in T,
           \A s \in Seq(S) : \A c \in S : s \in T => Append(s, c) \in T
    PROVE  \A s \in Seq(S) : s \in T
<1> SUFFICES ASSUME NEW s \in Seq(S) PROVE s \in T
    OBVIOUS
<1> PICK N : N = Len(s)
    OBVIOUS
<1>1. N \in Nat
    OBVIOUS
<1> DEFINE Good == {n \in 0..N : SubSeq(s, 1, n) \in T}
<1>2. 0 \in Good
  <2>1. SubSeq(s, 1, 0) = <<>> /\ 0 \in 0..N
      OBVIOUS
  <2>2. SubSeq(s, 1, 0) \in T
      BY <2>1, Zenon
  <2>3. QED  BY <2>1, <2>2
<1>3. ASSUME NEW n \in 1..N, n - 1 \in Good PROVE n \in Good
  <2>1. /\ SubSeq(s, 1, n - 1) \in Seq(S) /\ s[n] \in S
        /\ SubSeq(s, 1, n) = Append(SubSeq(s, 1, n - 1), s[n])
      OBVIOUS
  <2>2. SubSeq(s, 1, n - 1) \in T
      BY <1>3
  <2>3. SubSeq(s, 1, n) \in T
      BY <2>1, <2>2
  <2>4. QED  BY <1>1, <2>3
<1> HIDE DEF Good
<1>4. N \in Good
  <2>1. 0..N \subseteq Good
      BY <1>1, <1>2, <1>3, InductionUpTo
  <2>2. QED  BY <1>1, <2>1
<1>5. SubSeq(s, 1, N) = s
    BY SubSeqFull
<1>6. QED  BY <1>4, <1>5 DEF Good

-----------------------------------------------------------------------------
(***************************************************************************)
(* Export and import.                                                      *)
(***************************************************************************)
\* How far Only is after each place.
OnlyWalk(S, places, h) ==
    \E kept \in [0..Len(h) -> Seq(S)] :
        /\ kept[0] = <<>>
        /\ \A n \in 1..Len(h) : kept[n] = IF n \in places THEN Append(kept[n - 1], h[n]) ELSE kept[n - 1]
        /\ Only(places, h) = kept[Len(h)]

\* Only goes through the places one by one.
LEMMA OnlyDefined ==
    ASSUME NEW S, NEW places, NEW h \in Seq(S)
    PROVE  OnlyWalk(S, places, h)
<1>1. PICK N \in Nat : N = Len(h)
    OBVIOUS
<1>2. PICK T : T = Seq(S)
    OBVIOUS
<1>3. PICK none \in T : none = <<>>
  <2>1. <<>> \in T
      BY <1>2
  <2>2. QED  BY Zenon, <2>1
<1> DEFINE Going(k, n) == IF n \in places THEN Append(k, h[n]) ELSE k
           F(g, n) == IF n = 0 THEN none ELSE Going(g[n - 1], n)
<1>4. ASSUME NEW k \in T, NEW n \in 1..N PROVE Going(k, n) \in T
  <2>1. h[n] \in S
      BY <1>1
  <2>2. Append(k, h[n]) \in T
      BY <1>2, <2>1, AppendProperties
  <2>3. QED  BY <2>2
<1>5. PICK g \in [0..N -> T] : g[0] = none /\ \A n \in 1..N : g[n] = Going(g[n - 1], n)
  <2> DEFINE G == [n \in Nat |-> [k \in T |-> IF n \in 1..N THEN Going(k, n) ELSE k]]
  <2>1. G \in [Nat -> [T -> T]]
      BY <1>4
  <2>2. \A n \in 1..N, k \in T : G[n][k] = Going(k, n)
      OBVIOUS
  <2> HIDE DEF G, Going
  <2>3. PICK g \in [0..N -> T] : g[0] = none /\ \A n \in 1..N : g[n] = G[n][g[n - 1]]
    <3>1. Recursion(T, none, N, G)
        BY <2>1, RecursionDefined
    <3>2. QED  BY <3>1 DEF Recursion
  <2>4. ASSUME NEW n \in 1..N PROVE g[n] = Going(g[n - 1], n)
    <3>1. n - 1 \in 0..N
        OBVIOUS
    <3>2. QED  BY <2>2, <2>3, <3>1
  <2>5. QED  BY <2>3, <2>4
<1>6. g = [n \in 0..N |-> F(g, n)]
  <2> HIDE DEF Going
  <2>1. QED  BY <1>5
<1> DEFINE L == CHOOSE f : f = [n \in 0..N |-> F(f, n)]
<1>7. L = [n \in 0..N |-> F(L, n)]
  <2> HIDE DEF F
  <2>1. QED  BY <1>6
<1>8. Only(places, h) = L[N]
    BY <1>1, <1>3 DEF Only
<1> HIDE DEF L
<1>9. L[0] = none /\ \A n \in 1..N : L[n] = Going(L[n - 1], n)
  <2> HIDE DEF Going
  <2>1. QED  BY <1>7
<1>10. L \in [0..N -> T]
  <2> HIDE DEF Going
  <2> DEFINE Good == {n \in 0..N : L[n] \in T}
  <2>1. 0 \in Good
      BY <1>9
  <2>2. \A n \in 1..N : n - 1 \in Good => n \in Good
      BY <1>4, <1>9
  <2> HIDE DEF Good
  <2>3. 0..N \subseteq Good
      BY <2>1, <2>2, InductionUpTo
  <2>4. \A n \in 0..N : L[n] \in T
      BY <2>3 DEF Good
  <2>5. QED  BY <1>7, <2>4
<1>11. QED  BY <1>1, <1>2, <1>3, <1>8, <1>9, <1>10 DEF OnlyWalk

\* What Only keeps of a sequence is one of the same elements.
LEMMA OnlyIsSequence ==
    ASSUME NEW S, NEW places, NEW h \in Seq(S)
    PROVE  Only(places, h) \in Seq(S)
BY OnlyDefined DEF OnlyWalk

\* At every place it keeps them all.
LEMMA OnlyAll ==
    ASSUME NEW S, NEW h \in Seq(S), NEW places, DOMAIN h \subseteq places
    PROVE  Only(places, h) = h
<1>1. PICK N \in Nat : N = Len(h)
    OBVIOUS
<1>2. PICK kept \in [0..N -> Seq(S)] :
        /\ kept[0] = <<>>
        /\ \A n \in 1..N : kept[n] = IF n \in places THEN Append(kept[n - 1], h[n]) ELSE kept[n - 1]
        /\ Only(places, h) = kept[N]
  <2>1. OnlyWalk(S, places, h)
      BY OnlyDefined
  <2>2. QED  BY <1>1, <2>1 DEF OnlyWalk
<1> DEFINE Good == {n \in 0..N : kept[n] = SubSeq(h, 1, n)}
<1>3. 0 \in Good
  <2>1. SubSeq(h, 1, 0) = <<>>
      BY SubSeqEmpty
  <2>2. kept[0] = SubSeq(h, 1, 0)
      BY <1>2, <2>1, Zenon
  <2>3. QED  BY <1>1, <2>2
<1>4. ASSUME NEW n \in 1..N, n - 1 \in Good PROVE n \in Good
  <2>1. n \in places /\ n \in 0..N
      BY <1>1
  <2>2. kept[n] = Append(SubSeq(h, 1, n - 1), h[n])
      BY <1>2, <1>4, <2>1
  <2>3. SubSeq(h, 1, n) = Append(SubSeq(h, 1, n - 1), h[n])
      BY <1>1
  <2>4. QED  BY <2>1, <2>2, <2>3
<1> HIDE DEF Good
<1>5. N \in Good
  <2>1. 0..N \subseteq Good
      BY <1>3, <1>4, InductionUpTo
  <2>2. QED  BY <2>1
<1>6. SubSeq(h, 1, N) = h
    BY <1>1, SubSeqFull
<1>7. QED  BY <1>2, <1>5, <1>6 DEF Good

\* How far FlattenSeq is after each part.
FlattenWalk(S, parts) ==
    \E f \in [1..Len(parts) -> Seq(S)] :
        /\ f[1] = parts[1]
        /\ \A n \in 2..Len(parts) : f[n] = f[n - 1] \o parts[n]
        /\ FlattenSeq(parts) = f[Len(parts)]

\* FlattenSeq joins the parts one by one.
LEMMA FlattenDefined ==
    ASSUME NEW S, NEW parts \in Seq(Seq(S)), parts /= <<>>
    PROVE  FlattenWalk(S, parts)
<1>1. PICK N \in Nat : N = Len(parts) /\ N >= 1
    OBVIOUS
<1>2. PICK T : T = Seq(S)
    OBVIOUS
<1> DEFINE Joined(t, n) == t \o parts[n]
           F(f, n) == IF n = 1 THEN parts[n] ELSE Joined(f[n - 1], n)
<1>3. \A n \in 1..N : parts[n] \in T
    BY <1>1, <1>2
<1>4. ASSUME NEW t \in T, NEW n \in 1..N PROVE Joined(t, n) \in T
    BY <1>2, <1>3, ConcatProperties
<1> HIDE DEF Joined
<1>5. PICK g \in [0..(N - 1) -> T] : g[0] = parts[1] /\ \A n \in 1..(N - 1) : g[n] = Joined(g[n - 1], n + 1)
  <2> DEFINE G == [n \in Nat |-> [t \in T |-> IF n \in 1..(N - 1) THEN Joined(t, n + 1) ELSE t]]
  <2>1. G \in [Nat -> [T -> T]]
    <3>1. \A n \in 1..(N - 1) : n + 1 \in 1..N
        OBVIOUS
    <3>2. \A n \in 1..(N - 1), t \in T : Joined(t, n + 1) \in T
        BY <1>4, <3>1
    <3>3. QED  BY <3>2
  <2>2. \A n \in 1..(N - 1), t \in T : G[n][t] = Joined(t, n + 1)
      OBVIOUS
  <2> HIDE DEF G
  <2>3. parts[1] \in T /\ N - 1 \in Nat
      BY <1>1, <1>3
  <2>4. PICK g \in [0..(N - 1) -> T] : g[0] = parts[1] /\ \A n \in 1..(N - 1) : g[n] = G[n][g[n - 1]]
    <3>1. Recursion(T, parts[1], N - 1, G)
        BY <2>1, <2>3, RecursionDefined
    <3>2. QED  BY <3>1 DEF Recursion
  <2>5. ASSUME NEW n \in 1..(N - 1) PROVE g[n] = Joined(g[n - 1], n + 1)
    <3>1. n - 1 \in 0..(N - 1)
        OBVIOUS
    <3>2. QED  BY <2>2, <2>4, <3>1
  <2>6. QED  BY <2>4, <2>5
<1> DEFINE h == [n \in 1..N |-> g[n - 1]]
<1>6. h = [n \in 1..N |-> F(h, n)]
  <2>1. ASSUME NEW n \in 1..N PROVE h[n] = F(h, n)
    <3>1. CASE n = 1
        BY <1>1, <1>5, <3>1
    <3>2. CASE n > 1
      <4>1. n - 1 \in 1..(N - 1) /\ n - 1 \in 1..N /\ n - 1 + 1 = n /\ n - 1 - 1 = n - 2
          BY <3>2
      <4>2. g[n - 1] = Joined(g[n - 2], n)
          BY <1>5, <4>1
      <4>3. h[n] = g[n - 1] /\ h[n - 1] = g[n - 2]
          BY <4>1
      <4>4. QED  BY <3>2, <4>2, <4>3
    <3>3. QED  BY <3>1, <3>2
  <2> HIDE DEF F
  <2>2. [n \in 1..N |-> g[n - 1]] = [n \in 1..N |-> F(h, n)]
    <3>1. \A n \in 1..N : g[n - 1] = F(h, n)
        BY <2>1
    <3> HIDE DEF h
    <3>2. QED  BY <3>1
  <2>3. QED  BY <2>2
<1> DEFINE L == CHOOSE f : f = [n \in 1..N |-> F(f, n)]
<1>7. L = [n \in 1..N |-> F(L, n)]
  <2> HIDE DEF F, h
  <2>1. QED  BY <1>6
<1>8. FlattenSeq(parts) = L[N]
    BY <1>1 DEF FlattenSeq, Joined
<1> HIDE DEF L, h
<1>9. L[1] = parts[1] /\ \A n \in 2..N : L[n] = Joined(L[n - 1], n)
  <2>1. 1 \in 1..N /\ \A n \in 2..N : n \in 1..N /\ n /= 1
      BY <1>1
  <2>2. L[1] = parts[1]
      BY <1>7, <2>1, Zenon
  <2>3. ASSUME NEW n \in 2..N PROVE L[n] = Joined(L[n - 1], n)
      BY <1>7, <2>1, <2>3, Zenon
  <2>4. QED  BY <2>2, <2>3
<1>10. L \in [1..N -> T]
  <2> DEFINE Good == {n \in 0..N : n >= 1 => L[n] \in T}
  <2>1. 0 \in Good
      BY <1>1
  <2>2. ASSUME NEW n \in 1..N, n - 1 \in Good PROVE n \in Good
    <3>1. CASE n = 1
        BY <1>3, <1>9, <3>1
    <3>2. CASE n > 1
      <4>1. n \in 2..N /\ L[n - 1] \in T
          BY <2>2, <3>2
      <4>2. L[n] = Joined(L[n - 1], n)
          BY <1>9, <4>1
      <4>3. QED  BY <1>4, <4>1, <4>2
    <3>3. QED  BY <3>1, <3>2
  <2> HIDE DEF Good
  <2>3. 0..N \subseteq Good
      BY <2>1, <2>2, InductionUpTo
  <2>4. \A n \in 1..N : L[n] \in T
      BY <2>3 DEF Good
  <2>5. QED  BY <1>7, <2>4
<1>11. \A n \in 2..N : L[n] = L[n - 1] \o parts[n]
    BY <1>9 DEF Joined
<1>12. QED  BY <1>1, <1>2, <1>8, <1>9, <1>10, <1>11 DEF FlattenWalk

\* What an element more makes of a sequence.
LEMMA AppendElements ==
    ASSUME NEW R, NEW s \in Seq(R), NEW x \in R
    PROVE  /\ Append(s, x) \in Seq(R) /\ Append(s, x) /= <<>> /\ Len(Append(s, x)) = Len(s) + 1
           /\ Append(s, x)[Len(s) + 1] = x /\ \A n \in 1..Len(s) : Append(s, x)[n] = s[n]
BY AppendProperties

\* A sequence of no elements.
LEMMA NoElements ==
    ASSUME NEW R, NEW s \in Seq(R), Len(s) = 0
    PROVE  s = <<>>
OBVIOUS

\* Of no parts nothing.
LEMMA FlattenNothing == FlattenSeq(<<>>) = <<>>
BY DEF FlattenSeq

\* A part more is added at the end.
LEMMA FlattenNext ==
    ASSUME NEW S, NEW parts \in Seq(Seq(S)), NEW x \in Seq(S)
    PROVE  /\ FlattenSeq(parts) \in Seq(S)
           /\ FlattenSeq(Append(parts, x)) = FlattenSeq(parts) \o x
<1>1. PICK N \in Nat : N = Len(parts)
    OBVIOUS
<1>2. PICK more \in Seq(Seq(S)) : more = Append(parts, x)
  <2>1. Append(parts, x) \in Seq(Seq(S))
      BY AppendProperties
  <2>2. QED  BY <2>1, Zenon
<1>3. /\ Len(more) = N + 1 /\ more /= <<>> /\ more[N + 1] = x
      /\ \A n \in 1..N : more[n] = parts[n]
  <2>1. Append(parts, x) /= <<>> /\ Len(Append(parts, x)) = N + 1 /\ Append(parts, x)[N + 1] = x
        /\ \A n \in 1..N : Append(parts, x)[n] = parts[n]
      BY <1>1, AppendElements
  <2>2. QED  BY <1>2, <2>1, Zenon
<1>4. PICK v \in [1..(N + 1) -> Seq(S)] :
        /\ v[1] = more[1]
        /\ \A n \in 2..(N + 1) : v[n] = v[n - 1] \o more[n]
        /\ FlattenSeq(more) = v[N + 1]
  <2>1. FlattenWalk(S, more)
      BY <1>3, FlattenDefined
  <2>2. QED  BY <1>3, <2>1 DEF FlattenWalk
<1>5. CASE N = 0
  <2>1. parts = <<>>
      BY <1>1, <1>5, NoElements
  <2>2. FlattenSeq(parts) = <<>>
      BY <2>1, FlattenNothing
  <2>3. FlattenSeq(more) = x
      BY <1>3, <1>4, <1>5
  <2>4. <<>> \o x = x /\ <<>> \in Seq(S)
      BY ConcatEmptySeq
  <2>5. FlattenSeq(parts) \o x = x /\ FlattenSeq(parts) \in Seq(S)
      BY <2>2, <2>4, Zenon
  <2>6. QED  BY <1>2, <2>3, <2>5
<1>6. CASE N > 0
  <2>1. PICK u \in [1..N -> Seq(S)] :
          /\ u[1] = parts[1]
          /\ \A n \in 2..N : u[n] = u[n - 1] \o parts[n]
          /\ FlattenSeq(parts) = u[N]
    <3>1. FlattenWalk(S, parts)
        BY <1>1, <1>6, FlattenDefined
    <3>2. QED  BY <1>1, <3>1 DEF FlattenWalk
  <2> DEFINE Good == {n \in 0..N : n >= 1 => u[n] = v[n]}
  <2>2. 0 \in Good
      BY <1>6
  <2>3. ASSUME NEW n \in 1..N, n - 1 \in Good PROVE n \in Good
    <3>1. CASE n = 1
        BY <1>3, <1>4, <2>1, <3>1
    <3>2. CASE n > 1
      <4>1. n \in 2..N /\ n \in 2..(N + 1) /\ n - 1 >= 1
          BY <3>2
      <4>2. u[n - 1] = v[n - 1]
          BY <2>3, <4>1
      <4>3. more[n] = parts[n]
          BY <1>3
      <4>4. u[n] = u[n - 1] \o parts[n]
          BY <2>1, <4>1, Zenon
      <4>5. v[n] = v[n - 1] \o more[n]
          BY <1>4, <4>1, Zenon
      <4>6. u[n] = v[n]
          BY <4>2, <4>3, <4>4, <4>5, Zenon
      <4>7. QED  BY <4>6
    <3>3. QED  BY <3>1, <3>2
  <2> HIDE DEF Good
  <2>4. 0..N \subseteq Good
      BY <2>2, <2>3, InductionUpTo
  <2>5. u[N] = v[N]
      BY <1>6, <2>4 DEF Good
  <2>6. v[N + 1] = v[N] \o more[N + 1]
    <3>1. PICK n \in 2..(N + 1) : n = N + 1 /\ n - 1 = N
        BY <1>6
    <3>2. v[n] = v[n - 1] \o more[n]
        BY <1>4, Zenon
    <3>3. QED  BY <3>1, <3>2, Zenon
  <2>7. QED  BY <1>2, <1>3, <1>4, <1>6, <2>1, <2>5, <2>6
<1>7. QED  BY <1>5, <1>6

\* How far importFromMarkdown is after each line, from some point on.
LEMMA ParsedDefined ==
    ASSUME NEW p, NEW lines, Len(lines) \in Nat
    PROVE  \E s : /\ s = [n \in 0..Len(lines) |-> IF n = 0 THEN p ELSE MarkdownLine(s[n - 1], lines[n])]
                  /\ Parsed(p, lines) = s[Len(lines)]
<1>1. PICK C \in Nat : C = Len(lines)
    OBVIOUS
<1> DEFINE F(g, i) == IF i = 0 THEN p ELSE MarkdownLine(g[i - 1], lines[i])
           Defined(c) == \E g : g = [i \in 0..c |-> F(g, i)]
           Lacking == {c \in 0..C : ~ Defined(c)}
<1> HIDE DEF Defined
<1>2. Lacking = {}
  <2> SUFFICES ASSUME Lacking /= {} PROVE FALSE
      OBVIOUS
  <2>1. PICK m \in Lacking : \A c \in Lacking : m <= c
    <3>1. Lacking \in SUBSET Nat
        OBVIOUS
    <3> HIDE DEF Lacking
    <3>2. QED  BY <3>1, LeastNatural
  <2>2. m \in 0..C /\ ~ Defined(m) /\ \A c \in 0..C : c < m => Defined(c)
      BY <2>1
  <2>3. CASE m = 0
    <3>1. [i \in 0..0 |-> p] = [i \in 0..0 |-> F([x \in 0..0 |-> p], i)]
        OBVIOUS
    <3>2. QED  BY <2>2, <2>3, <3>1 DEF Defined
  <2>4. CASE m > 0
    <3>1. m \in Nat /\ m - 1 \in 0..C /\ m - 1 < m
        BY <2>2, <2>4
    <3>2. PICK g : g = [i \in 0..(m - 1) |-> F(g, i)]
        BY <2>2, <3>1 DEF Defined
    <3> DEFINE f == [i \in 0..m |-> IF i = m THEN F(g, m) ELSE g[i]]
    <3>3. ASSUME NEW i \in 0..m PROVE f[i] = F(f, i)
      <4>1. CASE i = 0
          BY <2>4, <3>1, <3>2, <4>1
      <4>2. CASE i > 0
        <5>1. f[i - 1] = g[i - 1]
            BY <3>1, <4>2
        <5>2. f[i] = F(g, i)
          <6>1. CASE i = m
              BY <6>1
          <6>2. CASE i /= m
            <7>1. i \in 0..(m - 1) /\ f[i] = g[i]
                BY <3>1, <6>2
            <7>2. QED  BY <3>2, <7>1
          <6>3. QED  BY <6>1, <6>2
        <5>3. QED  BY <4>2, <5>1, <5>2
      <4>3. QED  BY <3>1, <4>1, <4>2
    <3>4. f = [i \in 0..m |-> F(f, i)]
      <4> HIDE DEF F
      <4>1. \A i \in 0..m : (IF i = m THEN F(g, m) ELSE g[i]) = F(f, i)
          BY <3>3
      <4>2. QED  BY <4>1, Zenon
    <3> HIDE DEF f
    <3>5. QED  BY <2>2, <3>4 DEF Defined
  <2>5. QED  BY <2>2, <2>3, <2>4
<1>3. \E g : g = [i \in 0..C |-> F(g, i)]
  <2>1. Defined(C)
      BY <1>2
  <2>2. QED  BY <2>1 DEF Defined
<1> DEFINE L == CHOOSE g : g = [i \in 0..C |-> F(g, i)]
<1>4. L = [i \in 0..C |-> F(L, i)]
  <2> HIDE DEF F
  <2>1. QED  BY <1>3
<1>5. Parsed(p, lines) = L[C]
    BY <1>1 DEF Parsed
<1> HIDE DEF L
<1>6. QED  BY <1>1, <1>4, <1>5

\* No lines change nothing.
LEMMA ParsedNothing ==
    ASSUME NEW p
    PROVE  Parsed(p, <<>>) = p
<1>1. PICK s : /\ s = [n \in 0..Len(<<>>) |-> IF n = 0 THEN p ELSE MarkdownLine(s[n - 1], <<>>[n])]
               /\ Parsed(p, <<>>) = s[Len(<<>>)]
  <2>1. Len(<<>>) \in Nat
      OBVIOUS
  <2>2. QED  BY <2>1, ParsedDefined
<1>2. QED  BY <1>1

\* A line more is read in the state that those before it have led to.
LEMMA ParsedNext ==
    ASSUME NEW p, NEW S, NEW ls \in Seq(S), NEW l \in S
    PROVE  Parsed(p, Append(ls, l)) = MarkdownLine(Parsed(p, ls), l)
<1>1. PICK N \in Nat : N = Len(ls)
    OBVIOUS
<1>2. PICK more \in Seq(S) : more = Append(ls, l)
  <2>1. Append(ls, l) \in Seq(S)
      BY AppendProperties
  <2>2. QED  BY <2>1, Zenon
<1>3. Len(more) = N + 1 /\ more[N + 1] = l /\ \A n \in 1..N : more[n] = ls[n]
    BY <1>1, <1>2
<1>4. PICK u : /\ u = [n \in 0..N |-> IF n = 0 THEN p ELSE MarkdownLine(u[n - 1], ls[n])]
               /\ Parsed(p, ls) = u[N]
    BY <1>1, ParsedDefined
<1>5. PICK v : /\ v = [n \in 0..(N + 1) |-> IF n = 0 THEN p ELSE MarkdownLine(v[n - 1], more[n])]
               /\ Parsed(p, more) = v[N + 1]
  <2>1. \E s : /\ s = [n \in 0..Len(more) |-> IF n = 0 THEN p ELSE MarkdownLine(s[n - 1], more[n])]
               /\ Parsed(p, more) = s[Len(more)]
    <3>1. Len(more) \in Nat
        BY <1>3
    <3>2. QED  BY <3>1, ParsedDefined
  <2>2. Len(more) = N + 1
      BY <1>3
  <2>3. QED  BY <2>1, <2>2, Zenon
<1> DEFINE Good == {n \in 0..N : u[n] = v[n]}
<1>6. 0 \in Good
    BY <1>4, <1>5
<1>7. ASSUME NEW n \in 1..N, n - 1 \in Good PROVE n \in Good
  <2>1. u[n - 1] = v[n - 1] /\ more[n] = ls[n] /\ n /= 0 /\ n \in 0..N /\ n \in 0..(N + 1)
      BY <1>3, <1>7
  <2>2. u[n] = MarkdownLine(u[n - 1], ls[n])
      BY <1>4, <2>1
  <2>3. v[n] = MarkdownLine(v[n - 1], more[n])
      BY <1>5, <2>1
  <2>4. QED  BY <2>1, <2>2, <2>3
<1> HIDE DEF Good
<1>8. 0..N \subseteq Good
    BY <1>6, <1>7, InductionUpTo
<1>9. u[N] = v[N]
    BY <1>8 DEF Good
<1>10. v[N + 1] = MarkdownLine(v[N], more[N + 1])
    BY <1>5
<1>11. QED  BY <1>2, <1>3, <1>4, <1>5, <1>9, <1>10

\* What is read one after the other may be read at once.
LEMMA ParsedOn ==
    ASSUME NEW p, NEW S, NEW ls \in Seq(S), NEW ms \in Seq(S)
    PROVE  Parsed(p, ls \o ms) = Parsed(Parsed(p, ls), ms)
<1> DEFINE Good == {s \in Seq(S) : Parsed(p, ls \o s) = Parsed(Parsed(p, ls), s)}
<1>1. <<>> \in Good
  <2>1. ls \o <<>> = ls /\ <<>> \in Seq(S)
      BY ConcatEmptySeq
  <2>2. Parsed(Parsed(p, ls), <<>>) = Parsed(p, ls)
      BY ParsedNothing
  <2>3. Parsed(p, ls \o <<>>) = Parsed(Parsed(p, ls), <<>>)
      BY <2>1, <2>2, Zenon
  <2>4. QED  BY <2>1, <2>3
<1>2. ASSUME NEW s \in Seq(S), NEW l \in S, s \in Good PROVE Append(s, l) \in Good
  <2>1. PICK joined \in Seq(S) : joined = ls \o s
    <3>1. ls \o s \in Seq(S)
        BY ConcatProperties
    <3>2. QED  BY <3>1, Zenon
  <2>2. ls \o Append(s, l) = Append(joined, l)
      BY <2>1
  <2>3. Parsed(p, Append(joined, l)) = MarkdownLine(Parsed(p, joined), l)
      BY ParsedNext
  <2>4. Parsed(Parsed(p, ls), Append(s, l)) = MarkdownLine(Parsed(Parsed(p, ls), s), l)
      BY ParsedNext
  <2>5. Parsed(p, joined) = Parsed(Parsed(p, ls), s)
      BY <1>2, <2>1
  <2>6. Parsed(p, ls \o Append(s, l)) = Parsed(Parsed(p, ls), Append(s, l))
      BY <2>2, <2>3, <2>4, <2>5, Zenon
  <2>7. Append(s, l) \in Seq(S)
      BY AppendProperties
  <2>8. QED  BY <2>6, <2>7
<1> HIDE DEF Good
<1>3. ms \in Good
    BY <1>1, <1>2, InductionAppend
<1>4. QED  BY <1>3 DEF Good

\* One line.
LEMMA ParsedOne ==
    ASSUME NEW p, NEW l
    PROVE  Parsed(p, <<l>>) = MarkdownLine(p, l)
<1>1. <<>> \in Seq({l}) /\ l \in {l} /\ Append(<<>>, l) = <<l>>
    OBVIOUS
<1>2. Parsed(p, Append(<<>>, l)) = MarkdownLine(Parsed(p, <<>>), l)
  <2>1. PICK e \in Seq({l}) : e = <<>>
      BY <1>1
  <2>2. l \in {l}
      OBVIOUS
  <2>3. Parsed(p, Append(e, l)) = MarkdownLine(Parsed(p, e), l)
      BY <2>2, ParsedNext
  <2>4. QED  BY <2>1, <2>3, Zenon
<1>3. QED  BY <1>1, <1>2, ParsedNothing

\* The first and the last of some places.
LEMMA FirstAndLast ==
    ASSUME NEW N \in Nat, NEW inner \in SUBSET (1..N), inner /= {}
    PROVE  /\ \E i \in inner : \A j \in inner : i <= j
           /\ \E i \in inner : \A j \in inner : i >= j
<1>1. inner \in SUBSET Nat
    OBVIOUS
<1>2. \E i \in inner : \A j \in inner : i <= j
    BY <1>1, LeastNatural
<1> DEFINE Mirrored == {k \in 0..N : N - k \in inner}
<1>3. PICK k \in Mirrored : \A l \in Mirrored : k <= l
  <2>1. PICK i \in inner : TRUE
      OBVIOUS
  <2>2. N - i \in 0..N /\ N - (N - i) = i
      OBVIOUS
  <2>3. N - i \in Mirrored /\ Mirrored \in SUBSET Nat
      BY <2>1, <2>2
  <2> HIDE DEF Mirrored
  <2>4. QED  BY <2>3, LeastNatural
<1>4. ASSUME NEW j \in inner PROVE N - k >= j
  <2>1. N - j \in 0..N /\ N - (N - j) = j
      OBVIOUS
  <2>2. k <= N - j
      BY <1>3, <2>1
  <2>3. QED  BY <1>3, <2>2
<1>5. QED  BY <1>2, <1>3, <1>4

\* What is left of a text without the blank lines around it: nothing, or what is from its first to its last line that is not blank.
LEMMA WithoutBlankLinesIs ==
    ASSUME NEW S, NEW text \in Seq(S)
    PROVE  \/ WithoutBlankLines(text) = <<>> /\ \A i \in 1..Len(text) : text[i] = BlankLine
           \/ \E a \in 1..Len(text), b \in 1..Len(text) :
                 /\ WithoutBlankLines(text) = SubSeq(text, a, b) /\ a <= b
                 /\ text[a] /= BlankLine
                 /\ \A i \in 1..Len(text) : text[i] /= BlankLine => a <= i /\ i <= b
                 /\ text[b] /= BlankLine
<1> DEFINE inner == {i \in DOMAIN text : text[i] /= BlankLine}
<1>1. CASE inner = {}
    BY <1>1 DEF WithoutBlankLines
<1>2. CASE inner /= {}
  <2>1. /\ \E i \in inner : \A j \in inner : i <= j
        /\ \E i \in inner : \A j \in inner : i >= j
    <3>1. inner \in SUBSET (1..Len(text)) /\ Len(text) \in Nat
        OBVIOUS
    <3> HIDE DEF inner
    <3>2. QED  BY <1>2, <3>1, FirstAndLast
  <2> DEFINE a == CHOOSE i \in inner : \A j \in inner : i <= j
             b == CHOOSE i \in inner : \A j \in inner : i >= j
  <2>2. WithoutBlankLines(text) = SubSeq(text, a, b)
      BY <1>2 DEF WithoutBlankLines
  <2>3. a \in inner /\ \A j \in inner : a <= j
    <3> HIDE DEF inner
    <3>1. QED  BY <2>1
  <2>4. b \in inner /\ \A j \in inner : b >= j
    <3> HIDE DEF inner
    <3>1. QED  BY <2>1
  <2> HIDE DEF a, b
  <2>5. a \in 1..Len(text) /\ b \in 1..Len(text) /\ a <= b
      BY <2>3, <2>4
  <2>6. \A i \in 1..Len(text) : text[i] /= BlankLine => a <= i /\ i <= b
      BY <2>3, <2>4, <2>5
  <2>7. QED  BY <2>2, <2>3, <2>4, <2>5, <2>6
<1>3. QED  BY <1>1, <1>2

\* Blank lines at the end do not matter.
LEMMA TrimmedBlank ==
    ASSUME NEW S, NEW text \in Seq(S), BlankLine \in S
    PROVE  Trimmed(Append(text, BlankLine)) = Trimmed(text)
<1> SUFFICES WithoutBlankLines(Append(text, BlankLine)) = WithoutBlankLines(text)
    BY Zenon DEF Trimmed
<1>1. PICK N \in Nat : N = Len(text)
    OBVIOUS
<1>2. PICK more \in Seq(S) : more = Append(text, BlankLine)
  <2>1. Append(text, BlankLine) \in Seq(S)
      BY AppendProperties
  <2>2. QED  BY <2>1, Zenon
<1>3. Len(more) = N + 1 /\ more[N + 1] = BlankLine /\ \A n \in 1..N : more[n] = text[n]
    BY <1>1, <1>2, AppendElements
<1> DEFINE inner == {i \in 1..N : text[i] /= BlankLine}
<1>4. DOMAIN text = 1..N /\ DOMAIN more = 1..(N + 1)
    BY <1>1, <1>3
<1>5. {i \in DOMAIN text : text[i] /= BlankLine} = inner
    BY <1>4
<1>6. {i \in DOMAIN more : more[i] /= BlankLine} = inner
    BY <1>3, <1>4
<1>7. CASE inner = {}
  <2>1. WithoutBlankLines(text) = <<>> /\ WithoutBlankLines(more) = <<>>
      BY <1>5, <1>6, <1>7 DEF WithoutBlankLines
  <2>2. QED  BY <1>2, <2>1, Zenon
<1>8. CASE inner /= {}
  <2> DEFINE a == CHOOSE i \in inner : \A j \in inner : i <= j
             b == CHOOSE i \in inner : \A j \in inner : i >= j
  <2>1. WithoutBlankLines(text) = SubSeq(text, a, b) /\ WithoutBlankLines(more) = SubSeq(more, a, b)
      BY <1>5, <1>6, <1>8 DEF WithoutBlankLines
  <2>2. a \in 1..N /\ b \in 1..N
    <3>1. inner \in SUBSET (1..N)
        OBVIOUS
    <3> HIDE DEF inner
    <3>2. QED  BY <1>8, <3>1, FirstAndLast
  <2> HIDE DEF a, b
  <2>3. SubSeq(more, a, b) = SubSeq(text, a, b)
    <3>1. \A n \in a..b : more[n] = text[n]
        BY <1>3, <2>2
    <3>2. QED  BY <1>1, <1>3, <2>2, <3>1
  <2>4. QED  BY <1>2, <2>1, <2>3, Zenon
<1>9. QED  BY <1>7, <1>8

\* What is left as it is does not begin with a blank line.
LEMMA TrimmedBegins ==
    ASSUME NEW S, NEW text \in Seq(S), Trimmed(text) = text, text /= <<>>
    PROVE  text[1] /= BlankLine
<1>1. PICK t : t = WithoutBlankLines(text)
    OBVIOUS
<1>2. DOMAIN t = DOMAIN text
  <2>1. DOMAIN Trimmed(text) = DOMAIN t
      BY <1>1, Zenon DEF Trimmed
  <2>2. QED  BY <2>1, Zenon
<1>3. PICK a \in 1..Len(text), b \in 1..Len(text) : t = SubSeq(text, a, b) /\ a <= b /\ text[a] /= BlankLine
  <2>1. t /= <<>>
      BY <1>2
  <2>2. QED  BY <1>1, <2>1, WithoutBlankLinesIs
<1>4. a = 1
  <2>1. DOMAIN SubSeq(text, a, b) = 1..(b - a + 1)
      BY <1>3, SubSeqProperties
  <2>2. 1..(b - a + 1) = 1..Len(text)
      BY <1>2, <1>3, <2>1
  <2>3. b - a + 1 = Len(text)
      BY <1>3, <2>2
  <2>4. QED  BY <1>3, <2>3
<1>5. QED  BY <1>3, <1>4

\* Of no text nothing.
LEMMA TrimmedNothing == Trimmed(<<>>) = <<>>
<1>1. PICK t : t = WithoutBlankLines(<<>>)
    OBVIOUS
<1>2. t = <<>>
    BY <1>1 DEF WithoutBlankLines
<1>3. DOMAIN t = {}
    BY <1>2
<1>4. PICK r : r = Trimmed(<<>>)
    OBVIOUS
<1>5. r = <<>>
    BY <1>1, <1>3, <1>4 DEF Trimmed
<1>6. QED  BY <1>4, <1>5, Zenon

\* What importFromMarkdown keeps inside a conversation, and what it has read of one.
ReadIn(cs, c, section, content) ==
    [conversations |-> cs, started |-> TRUE, current |-> c, section |-> section, content |-> content]

ReadOf(id, model, status, user, response) ==
    [id |-> id, timestamp |-> Now, model |-> model, status |-> status,
     user |-> user, response |-> response, tools |-> FALSE]

\* No section is called so.
LEMMA NoValueDiffers == NoValue /= "user" /\ NoValue /= "assistant"
BY Zenon DEF NoValue

\* A heading begins another conversation.
LEMMA HeadingBegins ==
    ASSUME NEW p, NEW v
    PROVE  MarkdownLine(p, <<"heading", v>>) = ReadIn(Saved(p), ReadOf(NewId, NoValue, "completed", <<>>, <<>>), NoValue, <<>>)
BY DEF MarkdownLine, NoId, PlainKinds, ReadIn, ReadOf, NewConversation

\* A field is put down, whatever was read before, and an identifier if there is one.
LEMMA IdIsRead ==
    ASSUME NEW cs, NEW model, NEW status, NEW user, NEW response, NEW content, NEW v
    PROVE  MarkdownLine(ReadIn(cs, ReadOf(NewId, model, status, user, response), NoValue, content), <<"id", v>>)
              = ReadIn(cs, ReadOf(KeptId(v), model, status, user, response), NoValue, content)
<1>1. CASE v = NoValue
    BY <1>1 DEF MarkdownLine, NoId, PlainKinds, KeptId, ReadIn, ReadOf
<1>2. CASE v /= NoValue
    BY <1>2 DEF MarkdownLine, NoId, PlainKinds, KeptId, ReadIn, ReadOf
<1>3. QED  BY <1>1, <1>2

\* So for the model,
LEMMA ModelIsRead ==
    ASSUME NEW cs, NEW id, NEW model, NEW status, NEW user, NEW response, NEW section, NEW content, NEW v
    PROVE  MarkdownLine(ReadIn(cs, ReadOf(id, model, status, user, response), section, content), <<"model", v>>)
              = ReadIn(cs, ReadOf(id, v, status, user, response), section, content)
BY DEF MarkdownLine, NoId, PlainKinds, ReadIn, ReadOf

\* and for the status.
LEMMA StatusIsRead ==
    ASSUME NEW cs, NEW id, NEW model, NEW status, NEW user, NEW response, NEW section, NEW content, NEW v
    PROVE  MarkdownLine(ReadIn(cs, ReadOf(id, model, status, user, response), section, content), <<"status", v>>)
              = ReadIn(cs, ReadOf(id, model, v, user, response), section, content)
BY DEF MarkdownLine, NoId, PlainKinds, ReadIn, ReadOf

\* Lines that change nothing: a timestamp,
LEMMA TimestampIsSkipped ==
    ASSUME NEW cs, NEW c, NEW section, NEW content, NEW v
    PROVE  MarkdownLine(ReadIn(cs, c, section, content), <<"timestamp", v>>) = ReadIn(cs, c, section, content)
BY DEF MarkdownLine, NoId, PlainKinds, ReadIn

\* A rule,
LEMMA RuleIsSkipped ==
    ASSUME NEW cs, NEW c, NEW section, NEW content
    PROVE  MarkdownLine(ReadIn(cs, c, section, content), <<"rule", NoValue>>) = ReadIn(cs, c, section, content)
BY DEF MarkdownLine, NoId, PlainKinds, ReadIn

\* a fence in the user's text,
LEMMA FenceIsSkipped ==
    ASSUME NEW cs, NEW c, NEW content
    PROVE  MarkdownLine(ReadIn(cs, c, "user", content), Fence) = ReadIn(cs, c, "user", content)
BY DEF MarkdownLine, NoId, PlainKinds, ReadIn, Fence

\* and a blank line before a text.
LEMMA BlankIsSkipped ==
    ASSUME NEW cs, NEW c, NEW section, NEW content, section = NoValue \/ content = <<>>
    PROVE  MarkdownLine(ReadIn(cs, c, section, content), BlankLine) = ReadIn(cs, c, section, content)
BY DEF MarkdownLine, NoId, PlainKinds, ReadIn, BlankLine

\* A line of a text, and a section.
LEMMA LineIsKept ==
    ASSUME NEW cs, NEW c, NEW section, NEW content, NEW l, section \in {"user", "assistant"},
           l[1] \in PlainKinds, l /= BlankLine \/ content /= <<>>
    PROVE  MarkdownLine(ReadIn(cs, c, section, content), l) = ReadIn(cs, c, section, Append(content, l))
<1>1. l /= Fence
  <2>1. Fence[1] = "fence"
      BY DEF Fence
  <2>2. l = Fence => l[1] = "fence"
      BY <2>1, Zenon
  <2>3. "fence" \notin PlainKinds
      BY DEF PlainKinds
  <2>4. QED  BY <2>2, <2>3, Zenon
<1>2. section /= NoValue
    BY NoValueDiffers
<1>3. Bare("return", l) = l
    BY DEF Bare, PlainKinds
<1>4. QED  BY <1>1, <1>2, <1>3 DEF MarkdownLine, NoId, PlainKinds, ReadIn

\* A section takes what was read before it.
LEMMA SectionBegins ==
    ASSUME NEW cs, NEW c, NEW section, NEW content, NEW s \in {"user", "assistant"}
    PROVE  MarkdownLine(ReadIn(cs, c, section, content), <<s, NoValue>>)
              = ReadIn(cs, Finalize(ReadIn(cs, c, section, content)), s, <<>>)
BY DEF MarkdownLine, NoId, PlainKinds, ReadIn

\* The lines there are in a file.
AnyLine ==
    {"text", "indented", "trailing", "return", "blank", "escaped", "heading", "id", "timestamp", "model", "status",
     "user", "assistant", "rule", "fence"} \X (STRING \cup Int \cup {NoValue, "tools"})

\* The texts of a conversation are lines of a file.
LEMMA TextsAreLines ==
    /\ Seq(TextLine) \subseteq Seq(AnyLine)
    /\ BlankLine \in AnyLine /\ Fence \in AnyLine /\ <<"text", "tools">> \in AnyLine
<1>1. TextLine \subseteq AnyLine
    BY DEF TextLine, AnyLine
<1>2. Seq(TextLine) \subseteq Seq(AnyLine)
  <2>1. ASSUME NEW s \in Seq(TextLine) PROVE s \in Seq(AnyLine)
      BY <1>1
  <2>2. QED  BY <2>1
<1>3. BlankLine \in AnyLine /\ Fence \in AnyLine /\ <<"text", "tools">> \in AnyLine
    BY DEF BlankLine, Fence, AnyLine
<1>4. QED  BY <1>2, <1>3

\* Reading the lines of a text one by one, in a section.
LEMMA TextIsRead ==
    ASSUME NEW cs, NEW c, NEW section, section \in {"user", "assistant"}, NEW text \in Seq(AnyLine),
           \A i \in DOMAIN text : text[i][1] \in PlainKinds,
           text /= <<>> => text[1] /= BlankLine
    PROVE  Parsed(ReadIn(cs, c, section, <<>>), text) = ReadIn(cs, c, section, text)
<1>1. PICK N \in Nat : N = Len(text)
    OBVIOUS
<1> DEFINE p == ReadIn(cs, c, section, <<>>)
           Good == {n \in 0..N : Parsed(p, SubSeq(text, 1, n)) = ReadIn(cs, c, section, SubSeq(text, 1, n))}
<1>2. 0 \in Good
  <2>1. SubSeq(text, 1, 0) = <<>>
      BY SubSeqEmpty
  <2>2. Parsed(p, <<>>) = p
      BY ParsedNothing
  <2>3. Parsed(p, SubSeq(text, 1, 0)) = ReadIn(cs, c, section, SubSeq(text, 1, 0))
      BY <2>1, <2>2, Zenon
  <2>4. QED  BY <1>1, <2>3
<1>3. ASSUME NEW n \in 1..N, n - 1 \in Good PROVE n \in Good
  <2>1. PICK before \in Seq(AnyLine) : before = SubSeq(text, 1, n - 1)
    <3>1. SubSeq(text, 1, n - 1) \in Seq(AnyLine)
        BY <1>1
    <3>2. QED  BY <3>1, Zenon
  <2>2. PICK l \in AnyLine : l = text[n]
      BY <1>1
  <2>3. SubSeq(text, 1, n) = Append(before, l)
    <3>1. SubSeq(text, 1, n) = Append(SubSeq(text, 1, n - 1), text[n])
        BY <1>1
    <3>2. QED  BY <2>1, <2>2, <3>1, Zenon
  <2>4. Parsed(p, Append(before, l)) = MarkdownLine(Parsed(p, before), l)
      BY ParsedNext
  <2>5. Parsed(p, before) = ReadIn(cs, c, section, before)
      BY <1>3, <2>1
  <2>6. l[1] \in PlainKinds
      BY <1>1, <2>2
  <2>7. l /= BlankLine \/ before /= <<>>
    <3>1. CASE n = 1
        BY <1>1, <2>2, <3>1
    <3>2. CASE n > 1
      <4>1. Len(before) = n - 1
          BY <1>1, <2>1
      <4>2. before /= <<>>
          BY <3>2, <4>1
      <4>3. QED  BY <4>2
    <3>3. QED  BY <3>1, <3>2
  <2>8. MarkdownLine(ReadIn(cs, c, section, before), l) = ReadIn(cs, c, section, Append(before, l))
      BY <2>6, <2>7, LineIsKept
  <2>9. Parsed(p, SubSeq(text, 1, n)) = ReadIn(cs, c, section, SubSeq(text, 1, n))
      BY <2>3, <2>4, <2>5, <2>8, Zenon
  <2>10. QED  BY <2>9
<1> HIDE DEF Good
<1>4. N \in Good
  <2>1. 0..N \subseteq Good
      BY <1>2, <1>3, InductionUpTo
  <2>2. QED  BY <2>1
<1>5. SubSeq(text, 1, N) = text
    BY <1>1, SubSeqFull
<1>6. Parsed(p, SubSeq(text, 1, N)) = ReadIn(cs, c, section, SubSeq(text, 1, N))
    BY <1>4 DEF Good
<1>7. QED  BY <1>5, <1>6, Zenon

\* As they are written, an empty text as one blank line.
LEMMA LinesOfText ==
    ASSUME NEW cs, NEW c, NEW section, section \in {"user", "assistant"}, NEW text \in Seq(AnyLine),
           Plain(text, "markdown")
    PROVE  /\ Lines(text) \in Seq(AnyLine)
           /\ Parsed(ReadIn(cs, c, section, <<>>), Lines(text)) = ReadIn(cs, c, section, text)
<1>1. BlankLine \in AnyLine
    BY TextsAreLines
<1>2. CASE text = <<>>
  <2>1. Lines(text) = <<BlankLine>>
      BY <1>2 DEF Lines
  <2>2. <<BlankLine>> \in Seq(AnyLine)
      BY <1>1
  <2>3. MarkdownLine(ReadIn(cs, c, section, <<>>), BlankLine) = ReadIn(cs, c, section, <<>>)
      BY BlankIsSkipped, Zenon
  <2>4. Parsed(ReadIn(cs, c, section, <<>>), <<BlankLine>>) = ReadIn(cs, c, section, <<>>)
      BY <2>3, ParsedOne, Zenon
  <2>5. QED  BY <1>2, <2>1, <2>2, <2>4, Zenon
<1>3. CASE text /= <<>>
  <2>1. Trimmed(text) = text /\ \A i \in DOMAIN text : text[i][1] \in PlainKinds
      BY DEF Plain
  <2>2. text[1] /= BlankLine
      BY <1>3, <2>1, TrimmedBegins
  <2>3. Lines(text) = text
      BY <1>3 DEF Lines
  <2>4. QED  BY <2>1, <2>2, <2>3, TextIsRead
<1>4. QED  BY <1>2, <1>3

\* The blank lines that end a section are not a part of its text.
LEMMA TrimmedAfter ==
    ASSUME NEW text \in Seq(AnyLine), Trimmed(text) = text,
           NEW more, more \in {text, Append(text, BlankLine), Append(Append(text, BlankLine), BlankLine)}
    PROVE  Trimmed(more) = text
<1>1. BlankLine \in AnyLine
    BY TextsAreLines
<1>2. Trimmed(Append(text, BlankLine)) = text
    BY <1>1, TrimmedBlank
<1>3. Append(text, BlankLine) \in Seq(AnyLine)
    BY <1>1, AppendProperties
<1>4. Trimmed(Append(Append(text, BlankLine), BlankLine)) = text
  <2>1. Trimmed(Append(Append(text, BlankLine), BlankLine)) = Trimmed(Append(text, BlankLine))
      BY <1>1, <1>3, TrimmedBlank
  <2>2. QED  BY <1>2, <2>1, Zenon
<1>5. QED  BY <1>2, <1>4, Zenon

\* Sections that say nothing of a text take nothing.
LEMMA NothingEnds ==
    ASSUME NEW cs, NEW c, NEW section, NEW content, section = NoValue \/ content = <<>>
    PROVE  Finalize(ReadIn(cs, c, section, content)) = c
BY TrimmedNothing DEF Finalize, ReadIn

\* A few lines at once.
LEMMA ParsedTwo ==
    ASSUME NEW p, NEW l1, NEW l2
    PROVE  Parsed(p, <<l1, l2>>)
              = MarkdownLine(MarkdownLine(p, l1), l2)
<1> DEFINE lines == <<l1, l2>>
<1>1. Len(lines) = 2 /\ lines[1] = l1 /\ lines[2] = l2
    OBVIOUS
<1> HIDE DEF lines
<1>2. PICK s : /\ s = [n \in 0..2 |-> IF n = 0 THEN p ELSE MarkdownLine(s[n - 1], lines[n])]
               /\ Parsed(p, lines) = s[2]
  <2>1. \E s : /\ s = [n \in 0..Len(lines) |-> IF n = 0 THEN p ELSE MarkdownLine(s[n - 1], lines[n])]
               /\ Parsed(p, lines) = s[Len(lines)]
    <3>1. Len(lines) \in Nat
        BY <1>1
    <3>2. QED  BY <3>1, ParsedDefined
  <2>2. QED  BY <1>1, <2>1, Zenon
<1>3. s[0] = p
    BY <1>2
<1>4. s[1] = MarkdownLine(s[0], l1)
    BY <1>1, <1>2
<1>5. s[2] = MarkdownLine(s[1], l2)
    BY <1>1, <1>2
<1>6. QED  BY <1>2, <1>3, <1>4, <1>5 DEF lines

\* Four of them.
LEMMA ParsedFour ==
    ASSUME NEW p, NEW l1, NEW l2, NEW l3, NEW l4
    PROVE  Parsed(p, <<l1, l2, l3, l4>>)
              = MarkdownLine(MarkdownLine(MarkdownLine(MarkdownLine(p, l1), l2), l3), l4)
<1> DEFINE lines == <<l1, l2, l3, l4>>
<1>1. Len(lines) = 4 /\ lines[1] = l1 /\ lines[2] = l2 /\ lines[3] = l3 /\ lines[4] = l4
    OBVIOUS
<1> HIDE DEF lines
<1>2. PICK s : /\ s = [n \in 0..4 |-> IF n = 0 THEN p ELSE MarkdownLine(s[n - 1], lines[n])]
               /\ Parsed(p, lines) = s[4]
  <2>1. \E s : /\ s = [n \in 0..Len(lines) |-> IF n = 0 THEN p ELSE MarkdownLine(s[n - 1], lines[n])]
               /\ Parsed(p, lines) = s[Len(lines)]
    <3>1. Len(lines) \in Nat
        BY <1>1
    <3>2. QED  BY <3>1, ParsedDefined
  <2>2. QED  BY <1>1, <2>1, Zenon
<1>3. s[0] = p
    BY <1>2
<1>4. s[1] = MarkdownLine(s[0], l1)
    BY <1>1, <1>2
<1>5. s[2] = MarkdownLine(s[1], l2)
    BY <1>1, <1>2
<1>6. s[3] = MarkdownLine(s[2], l3)
    BY <1>1, <1>2
<1>7. s[4] = MarkdownLine(s[3], l4)
    BY <1>1, <1>2
<1>8. QED  BY <1>2, <1>3, <1>4, <1>5, <1>6, <1>7 DEF lines

\* Tuples are sequences.
LEMMA Tuples ==
    ASSUME NEW S, NEW l1 \in S, NEW l2 \in S, NEW l3 \in S, NEW l4 \in S
    PROVE  <<l1>> \in Seq(S) /\ <<l1, l2>> \in Seq(S) /\ <<l1, l2, l3, l4>> \in Seq(S)
<1>1. <<l1>> \in Seq(S) /\ <<l1, l2>> \in Seq(S)
    OBVIOUS
<1>2. <<l1, l2, l3, l4>> \in Seq(S)
    OBVIOUS
<1>3. QED  BY <1>1, <1>2

\* The fields of a conversation, up to the text of the user.
LEMMA FieldsAreRead ==
    ASSUME NEW p, NEW id, NEW time, NEW model, NEW status
    PROVE  Parsed(p, <<<<"heading", NoValue>>, BlankLine, <<"id", id>>, <<"timestamp", time>>, <<"model", model>>,
                       <<"status", status>>, BlankLine, <<"user", NoValue>>, BlankLine, Fence>>)
              = ReadIn(Saved(p), ReadOf(KeptId(id), model, status, <<>>, <<>>), "user", <<>>)
<1>0. PICK ident : ident = KeptId(id)
    OBVIOUS
<1> SUFFICES Parsed(p, <<<<"heading", NoValue>>, BlankLine, <<"id", id>>, <<"timestamp", time>>, <<"model", model>>,
                         <<"status", status>>, BlankLine, <<"user", NoValue>>, BlankLine, Fence>>)
                = ReadIn(Saved(p), ReadOf(ident, model, status, <<>>, <<>>), "user", <<>>)
    BY <1>0, Zenon
<1> DEFINE lines == <<<<"heading", NoValue>>, BlankLine, <<"id", id>>, <<"timestamp", time>>, <<"model", model>>,
                      <<"status", status>>, BlankLine, <<"user", NoValue>>, BlankLine, Fence>>
           cs == Saved(p)
           r == ReadOf(ident, model, status, <<>>, <<>>)
<1>1. /\ Len(lines) = 10 /\ lines[1] = <<"heading", NoValue>> /\ lines[2] = BlankLine
      /\ lines[3] = <<"id", id>> /\ lines[4] = <<"timestamp", time>> /\ lines[5] = <<"model", model>>
      /\ lines[6] = <<"status", status>> /\ lines[7] = BlankLine /\ lines[8] = <<"user", NoValue>>
      /\ lines[9] = BlankLine /\ lines[10] = Fence
    OBVIOUS
<1> HIDE DEF lines
<1>2. PICK s : /\ s = [n \in 0..10 |-> IF n = 0 THEN p ELSE MarkdownLine(s[n - 1], lines[n])]
               /\ Parsed(p, lines) = s[10]
  <2>1. \E s : /\ s = [n \in 0..Len(lines) |-> IF n = 0 THEN p ELSE MarkdownLine(s[n - 1], lines[n])]
               /\ Parsed(p, lines) = s[Len(lines)]
    <3>1. Len(lines) \in Nat
        BY <1>1
    <3>2. QED  BY <3>1, ParsedDefined
  <2>2. QED  BY <1>1, <2>1, Zenon
<1>3. s[0] = p /\ \A n \in 1..10 : s[n] = MarkdownLine(s[n - 1], lines[n])
    BY <1>2
<1>4. s[1] = ReadIn(cs, ReadOf(NewId, NoValue, "completed", <<>>, <<>>), NoValue, <<>>)
  <2>1. s[1] = MarkdownLine(p, <<"heading", NoValue>>)
      BY <1>1, <1>3
  <2>2. QED  BY <2>1, HeadingBegins
<1>5. s[2] = ReadIn(cs, ReadOf(NewId, NoValue, "completed", <<>>, <<>>), NoValue, <<>>)
  <2>1. s[2] = MarkdownLine(s[1], BlankLine)
      BY <1>1, <1>3
  <2>2. QED  BY <1>4, <2>1, BlankIsSkipped
<1>6. s[3] = ReadIn(cs, ReadOf(ident, NoValue, "completed", <<>>, <<>>), NoValue, <<>>)
  <2>1. s[3] = MarkdownLine(s[2], <<"id", id>>)
      BY <1>1, <1>3
  <2>2. MarkdownLine(ReadIn(cs, ReadOf(NewId, NoValue, "completed", <<>>, <<>>), NoValue, <<>>), <<"id", id>>)
           = ReadIn(cs, ReadOf(KeptId(id), NoValue, "completed", <<>>, <<>>), NoValue, <<>>)
      BY IdIsRead
  <2>3. QED  BY <1>0, <1>5, <2>1, <2>2, Zenon
<1>7. s[4] = ReadIn(cs, ReadOf(ident, NoValue, "completed", <<>>, <<>>), NoValue, <<>>)
  <2>1. s[4] = MarkdownLine(s[3], <<"timestamp", time>>)
      BY <1>1, <1>3
  <2>2. QED  BY <1>6, <2>1, TimestampIsSkipped
<1>8. s[5] = ReadIn(cs, ReadOf(ident, model, "completed", <<>>, <<>>), NoValue, <<>>)
  <2>1. s[5] = MarkdownLine(s[4], <<"model", model>>)
      BY <1>1, <1>3
  <2>2. QED  BY <1>7, <2>1, ModelIsRead
<1>9. s[6] = ReadIn(cs, r, NoValue, <<>>)
  <2>1. s[6] = MarkdownLine(s[5], <<"status", status>>)
      BY <1>1, <1>3
  <2>2. QED  BY <1>8, <2>1, StatusIsRead
<1> HIDE DEF r
<1>10. s[7] = ReadIn(cs, r, NoValue, <<>>)
  <2>1. s[7] = MarkdownLine(s[6], BlankLine)
      BY <1>1, <1>3
  <2>2. QED  BY <1>9, <2>1, BlankIsSkipped
<1>11. s[8] = ReadIn(cs, r, "user", <<>>)
  <2>1. s[8] = MarkdownLine(s[7], <<"user", NoValue>>)
      BY <1>1, <1>3
  <2>2. s[8] = ReadIn(cs, Finalize(ReadIn(cs, r, NoValue, <<>>)), "user", <<>>)
      BY <1>10, <2>1, SectionBegins
  <2>3. Finalize(ReadIn(cs, r, NoValue, <<>>)) = r
      BY NothingEnds
  <2>4. QED  BY <2>2, <2>3
<1>12. s[9] = ReadIn(cs, r, "user", <<>>)
  <2>1. s[9] = MarkdownLine(s[8], BlankLine)
      BY <1>1, <1>3
  <2>2. QED  BY <1>11, <2>1, BlankIsSkipped
<1>13. s[10] = ReadIn(cs, r, "user", <<>>)
  <2>1. s[10] = MarkdownLine(s[9], Fence)
      BY <1>1, <1>3
  <2>2. QED  BY <1>12, <2>1, FenceIsSkipped
<1>14. QED  BY <1>2, <1>13, Zenon DEF lines, r

\* Joined lines, with their type.
LEMMA JoinedAreRead ==
    ASSUME NEW p, NEW S, NEW a \in Seq(S), NEW b \in Seq(S)
    PROVE  a \o b \in Seq(S) /\ Parsed(p, a \o b) = Parsed(Parsed(p, a), b)
BY ConcatProperties, ParsedOn

\* Nothing at the end.
LEMMA NothingJoined ==
    ASSUME NEW S, NEW a \in Seq(S)
    PROVE  a \o <<>> = a /\ <<>> \in Seq(S)
BY ConcatEmptySeq

\* The types of the parts of a conversation.
LEMMA FieldsAreLines ==
    ASSUME NEW id \in STRING, NEW time \in Int, NEW model \in STRING, NEW status \in STRING
    PROVE  <<<<"heading", NoValue>>, BlankLine, <<"id", id>>, <<"timestamp", time>>, <<"model", model>>,
             <<"status", status>>, BlankLine, <<"user", NoValue>>, BlankLine, Fence>> \in Seq(AnyLine)
<1>1. /\ <<"heading", NoValue>> \in AnyLine /\ <<"id", id>> \in AnyLine /\ <<"timestamp", time>> \in AnyLine
      /\ <<"model", model>> \in AnyLine /\ <<"status", status>> \in AnyLine /\ <<"user", NoValue>> \in AnyLine
      /\ BlankLine \in AnyLine /\ Fence \in AnyLine
    BY TextsAreLines DEF AnyLine
<1>2. ASSUME NEW S, NEW a1 \in S, NEW a2 \in S, NEW a3 \in S, NEW a4 \in S, NEW a5 \in S,
             NEW a6 \in S, NEW a7 \in S, NEW a8 \in S
      PROVE  <<a1, a2, a3, a4, a5, a6, a2, a7, a2, a8>> \in Seq(S)
    OBVIOUS
<1> DEFINE a == <<"heading", NoValue>>
           d == <<"id", id>>
           t == <<"timestamp", time>>
           m == <<"model", model>>
           s == <<"status", status>>
           u == <<"user", NoValue>>
<1> HIDE DEF a, d, t, m, s, u
<1>3. /\ a \in AnyLine /\ d \in AnyLine /\ t \in AnyLine /\ m \in AnyLine /\ s \in AnyLine /\ u \in AnyLine
      /\ BlankLine \in AnyLine /\ Fence \in AnyLine
    BY <1>1, Zenon DEF a, d, t, m, s, u
<1>4. <<a, BlankLine, d, t, m, s, BlankLine, u, BlankLine, Fence>> \in Seq(AnyLine)
    BY <1>2, <1>3
<1>5. QED  BY <1>4, Zenon DEF a, d, t, m, s, u

\* From the end of the user's text to the response.
LEMMA UserIsRead ==
    ASSUME NEW cs, NEW id, NEW model, NEW status, NEW text \in Seq(AnyLine), Trimmed(text) = text
    PROVE  Parsed(ReadIn(cs, ReadOf(id, model, status, <<>>, <<>>), "user", text),
                  <<Fence, BlankLine, <<"assistant", NoValue>>, BlankLine>>)
              = ReadIn(cs, ReadOf(id, model, status, text, <<>>), "assistant", <<>>)
<1> DEFINE r == ReadOf(id, model, status, <<>>, <<>>)
           t == ReadOf(id, model, status, text, <<>>)
           p == ReadIn(cs, r, "user", text)
<1>1. MarkdownLine(p, Fence) = p
    BY FenceIsSkipped
<1>2. PICK more : /\ more \in {text, Append(text, BlankLine), Append(Append(text, BlankLine), BlankLine)}
                  /\ MarkdownLine(p, BlankLine) = ReadIn(cs, r, "user", more)
  <2>1. CASE text = <<>>
      BY <2>1, BlankIsSkipped
  <2>2. CASE text /= <<>>
    <3>1. BlankLine[1] \in PlainKinds
        BY DEF BlankLine, PlainKinds
    <3>2. MarkdownLine(p, BlankLine) = ReadIn(cs, r, "user", Append(text, BlankLine))
        BY <2>2, <3>1, LineIsKept
    <3>3. QED  BY <3>2, Zenon
  <2>3. QED  BY <2>1, <2>2
<1>3. Trimmed(more) = text
    BY <1>2, TrimmedAfter
<1>4. Finalize(ReadIn(cs, r, "user", more)) = t
  <2>1. CASE text = <<>>
      BY <1>3, <2>1 DEF Finalize, ReadIn, ReadOf
  <2>2. CASE text /= <<>>
      BY <1>3, <2>2, NoValueDiffers DEF Finalize, ReadIn, ReadOf
  <2>3. QED  BY <2>1, <2>2
<1> HIDE DEF r, t
<1>5. MarkdownLine(ReadIn(cs, r, "user", more), <<"assistant", NoValue>>) = ReadIn(cs, t, "assistant", <<>>)
  <2>1. MarkdownLine(ReadIn(cs, r, "user", more), <<"assistant", NoValue>>)
          = ReadIn(cs, Finalize(ReadIn(cs, r, "user", more)), "assistant", <<>>)
      BY SectionBegins
  <2>2. QED  BY <1>4, <2>1, Zenon
<1>6. MarkdownLine(ReadIn(cs, t, "assistant", <<>>), BlankLine) = ReadIn(cs, t, "assistant", <<>>)
    BY BlankIsSkipped
<1>7. Parsed(p, <<Fence, BlankLine, <<"assistant", NoValue>>, BlankLine>>)
        = MarkdownLine(MarkdownLine(MarkdownLine(MarkdownLine(p, Fence), BlankLine), <<"assistant", NoValue>>), BlankLine)
    BY ParsedFour
<1>8. QED  BY <1>1, <1>2, <1>5, <1>6, <1>7, Zenon DEF r, t

\* A blank line after what has been read of a response.
LEMMA BlankAfter ==
    ASSUME NEW cs, NEW c, NEW content
    PROVE  MarkdownLine(ReadIn(cs, c, "assistant", content), BlankLine)
              = ReadIn(cs, c, "assistant", IF content = <<>> THEN content ELSE Append(content, BlankLine))
<1>1. CASE content = <<>>
    BY <1>1, BlankIsSkipped
<1>2. CASE content /= <<>>
  <2>1. BlankLine[1] \in PlainKinds
      BY DEF BlankLine, PlainKinds
  <2>2. MarkdownLine(ReadIn(cs, c, "assistant", content), BlankLine) = ReadIn(cs, c, "assistant", Append(content, BlankLine))
      BY <1>2, <2>1, LineIsKept
  <2>3. QED  BY <1>2, <2>2
<1>3. QED  BY <1>1, <1>2

LEMMA BlankAfterAny ==
    ASSUME NEW cs, NEW c, NEW content
    PROVE  \E m : MarkdownLine(ReadIn(cs, c, "assistant", content), BlankLine) = ReadIn(cs, c, "assistant", m)
BY BlankAfter

\* What there is after a response.
BlankEnd == <<BlankLine>>
ToolLines == <<<<"text", "tools">>, BlankLine>>
RuleEnd == <<<<"rule", NoValue>>, BlankLine>>

\* The end of a conversation without tools.
LEMMA ResponseIsRead ==
    ASSUME NEW cs, NEW id, NEW model, NEW status, NEW user, NEW text \in Seq(AnyLine), Trimmed(text) = text
    PROVE  Saved(Parsed(Parsed(ReadIn(cs, ReadOf(id, model, status, user, <<>>), "assistant", text), BlankEnd), RuleEnd))
              = Append(cs, ReadOf(id, model, status, user, text))
<1> USE DEF BlankEnd, RuleEnd
<1> DEFINE r == ReadOf(id, model, status, user, <<>>)
           p == ReadIn(cs, r, "assistant", text)
           once == IF text = <<>> THEN text ELSE Append(text, BlankLine)
           twice == IF once = <<>> THEN once ELSE Append(once, BlankLine)
<1> HIDE DEF once, twice
<1>1. Parsed(p, <<BlankLine>>) = ReadIn(cs, r, "assistant", once)
  <2>1. MarkdownLine(p, BlankLine) = ReadIn(cs, r, "assistant", once)
      BY BlankAfter DEF once
  <2>2. QED  BY <2>1, ParsedOne, Zenon
<1>2. Parsed(ReadIn(cs, r, "assistant", once), <<<<"rule", NoValue>>, BlankLine>>) = ReadIn(cs, r, "assistant", twice)
  <2>1. MarkdownLine(ReadIn(cs, r, "assistant", once), <<"rule", NoValue>>) = ReadIn(cs, r, "assistant", once)
      BY RuleIsSkipped
  <2>2. MarkdownLine(ReadIn(cs, r, "assistant", once), BlankLine) = ReadIn(cs, r, "assistant", twice)
      BY BlankAfter DEF twice
  <2>3. Parsed(ReadIn(cs, r, "assistant", once), <<<<"rule", NoValue>>, BlankLine>>)
          = MarkdownLine(MarkdownLine(ReadIn(cs, r, "assistant", once), <<"rule", NoValue>>), BlankLine)
      BY ParsedTwo
  <2>4. QED  BY <2>1, <2>2, <2>3, Zenon
<1>3. twice \in {text, Append(text, BlankLine), Append(Append(text, BlankLine), BlankLine)}
    BY DEF once, twice
<1>4. Finalize(ReadIn(cs, r, "assistant", twice)) = ReadOf(id, model, status, user, text)
  <2>1. Trimmed(twice) = text
      BY <1>3, TrimmedAfter
  <2>2. CASE text = <<>>
      BY <2>1, <2>2 DEF Finalize, ReadIn, ReadOf
  <2>3. CASE text /= <<>>
      BY <2>1, <2>3, NoValueDiffers DEF Finalize, ReadIn, ReadOf
  <2>4. QED  BY <2>2, <2>3
<1>5. Saved(ReadIn(cs, r, "assistant", twice)) = Append(cs, Finalize(ReadIn(cs, r, "assistant", twice)))
    BY DEF Saved, ReadIn
<1>6. QED  BY <1>1, <1>2, <1>4, <1>5, Zenon

\* A conversation, apart from its response.
ButResponse(d, r) == d = r \/ \E response : d = [r EXCEPT !.response = response]

\* With tools: whatever is taken for its response, its other fields are as they were.
LEMMA ToolsAreRead ==
    ASSUME NEW cs, NEW r, NEW text
    PROVE  \E d : /\ Saved(Parsed(Parsed(Parsed(ReadIn(cs, r, "assistant", text), BlankEnd), ToolLines), RuleEnd))
                         = Append(cs, d)
                  /\ ButResponse(d, r)
<1> USE DEF BlankEnd, ToolLines, RuleEnd
<1> DEFINE p == ReadIn(cs, r, "assistant", text)
<1>1. \E m : Parsed(p, <<BlankLine>>) = ReadIn(cs, r, "assistant", m)
  <2>1. Parsed(p, <<BlankLine>>) = MarkdownLine(p, BlankLine)
      BY ParsedOne
  <2>2. \E m : MarkdownLine(p, BlankLine) = ReadIn(cs, r, "assistant", m)
      BY BlankAfterAny
  <2>3. QED  BY <2>1, <2>2, Zenon
<1>2. ASSUME NEW m
      PROVE  \E n : Parsed(ReadIn(cs, r, "assistant", m), <<<<"text", "tools">>, BlankLine>>) = ReadIn(cs, r, "assistant", n)
  <2>1. <<"text", "tools">>[1] \in PlainKinds /\ <<"text", "tools">> /= BlankLine
      BY DEF BlankLine, PlainKinds
  <2>2. MarkdownLine(ReadIn(cs, r, "assistant", m), <<"text", "tools">>)
          = ReadIn(cs, r, "assistant", Append(m, <<"text", "tools">>))
      BY <2>1, LineIsKept
  <2>3. \E n : MarkdownLine(ReadIn(cs, r, "assistant", Append(m, <<"text", "tools">>)), BlankLine) = ReadIn(cs, r, "assistant", n)
      BY BlankAfterAny
  <2>4. Parsed(ReadIn(cs, r, "assistant", m), <<<<"text", "tools">>, BlankLine>>)
          = MarkdownLine(MarkdownLine(ReadIn(cs, r, "assistant", m), <<"text", "tools">>), BlankLine)
      BY ParsedTwo
  <2>5. QED  BY <2>2, <2>3, <2>4, Zenon
<1>3. ASSUME NEW m
      PROVE  \E n : Parsed(ReadIn(cs, r, "assistant", m), <<<<"rule", NoValue>>, BlankLine>>) = ReadIn(cs, r, "assistant", n)
  <2>1. MarkdownLine(ReadIn(cs, r, "assistant", m), <<"rule", NoValue>>) = ReadIn(cs, r, "assistant", m)
      BY RuleIsSkipped
  <2>2. \E n : MarkdownLine(ReadIn(cs, r, "assistant", m), BlankLine) = ReadIn(cs, r, "assistant", n)
      BY BlankAfterAny
  <2>3. Parsed(ReadIn(cs, r, "assistant", m), <<<<"rule", NoValue>>, BlankLine>>)
          = MarkdownLine(MarkdownLine(ReadIn(cs, r, "assistant", m), <<"rule", NoValue>>), BlankLine)
      BY ParsedTwo
  <2>4. QED  BY <2>1, <2>2, <2>3, Zenon
<1>4. ASSUME NEW m
      PROVE  \E d : Saved(ReadIn(cs, r, "assistant", m)) = Append(cs, d) /\ ButResponse(d, r)
  <2>1. Saved(ReadIn(cs, r, "assistant", m)) = Append(cs, Finalize(ReadIn(cs, r, "assistant", m)))
      BY DEF Saved, ReadIn
  <2>2. \/ Finalize(ReadIn(cs, r, "assistant", m)) = r
        \/ Finalize(ReadIn(cs, r, "assistant", m)) = [r EXCEPT !.response = Trimmed(m)]
      BY NoValueDiffers DEF Finalize, ReadIn
  <2>3. QED  BY <2>1, <2>2, Zenon DEF ButResponse
<1>5. PICK m : Parsed(p, <<BlankLine>>) = ReadIn(cs, r, "assistant", m)
    BY <1>1
<1>6. PICK n : Parsed(ReadIn(cs, r, "assistant", m), <<<<"text", "tools">>, BlankLine>>) = ReadIn(cs, r, "assistant", n)
    BY <1>2
<1>7. PICK o : Parsed(ReadIn(cs, r, "assistant", n), <<<<"rule", NoValue>>, BlankLine>>) = ReadIn(cs, r, "assistant", o)
    BY <1>3
<1>8. Saved(Parsed(Parsed(Parsed(p, BlankEnd), ToolLines), RuleEnd)) = Saved(ReadIn(cs, r, "assistant", o))
    BY <1>5, <1>6, <1>7, Zenon
<1>9. PICK d : Saved(ReadIn(cs, r, "assistant", o)) = Append(cs, d) /\ ButResponse(d, r)
    BY <1>4
<1>10. QED  BY <1>8, <1>9, Zenon

\* What an import gives back of a conversation.
ComesBack(b, c, withTools) ==
    /\ {"id", "status", "user", "response"} \subseteq DOMAIN b
    /\ b.id = c.id \/ c.id = NoValue
    /\ b.status = c.status /\ b.user = c.user
    /\ b.response = c.response \/ (withTools /\ c.tools)

\* The lines of a conversation.
MarkdownLines(id, time, model, status, text, answer, hasTools) ==
    <<<<"heading", NoValue>>, BlankLine, <<"id", id>>, <<"timestamp", time>>, <<"model", model>>,
      <<"status", status>>, BlankLine, <<"user", NoValue>>, BlankLine, Fence>> \o Lines(text)
    \o <<Fence, BlankLine, <<"assistant", NoValue>>, BlankLine>> \o Lines(answer) \o <<BlankLine>>
    \o (IF hasTools THEN <<<<"text", "tools">>, BlankLine>> ELSE <<>>)
    \o <<<<"rule", NoValue>>, BlankLine>>

\* Only the response is another.
LEMMA ResponseSet ==
    ASSUME NEW id, NEW model, NEW status, NEW user, NEW response, NEW r
    PROVE  [ReadOf(id, model, status, user, response) EXCEPT !.response = r] = ReadOf(id, model, status, user, r)
<1>1. PICK d : d = [ReadOf(id, model, status, user, response) EXCEPT !.response = r]
    OBVIOUS
<1>2. d = ReadOf(id, model, status, user, r)
    BY <1>1 DEF ReadOf
<1>3. QED  BY <1>1, <1>2, Zenon

\* So it has the fields that were read.
LEMMA ButResponseIs ==
    ASSUME NEW d, NEW id, NEW model, NEW status, NEW user, NEW response,
           ButResponse(d, ReadOf(id, model, status, user, response))
    PROVE  \E r : d = ReadOf(id, model, status, user, r)
<1>1. ASSUME NEW r
      PROVE  [ReadOf(id, model, status, user, response) EXCEPT !.response = r] = ReadOf(id, model, status, user, r)
    BY ResponseSet
<1>2. QED  BY <1>1, Zenon DEF ButResponse

\* A conversation in Markdown is read as one conversation more, whatever was read before it.
LEMMA LinesComeBack ==
    ASSUME NEW p, NEW c, NEW hasTools \in BOOLEAN,
           c.id \in STRING, c.timestamp \in Int, c.model \in STRING, c.status \in STRING,
           c.user \in Seq(AnyLine), c.response \in Seq(AnyLine),
           Plain(c.user, "markdown"), Plain(c.response, "markdown")
    PROVE  LET all == MarkdownLines(c.id, c.timestamp, c.model, c.status, c.user, c.response, hasTools)
           IN /\ all \in Seq(AnyLine)
              /\ \E r : /\ Saved(Parsed(p, all)) = Append(Saved(p), ReadOf(KeptId(c.id), c.model, c.status, c.user, r))
                        /\ r = c.response \/ hasTools
<1>0. PICK id \in STRING, time \in Int, model \in STRING, status \in STRING,
           text \in Seq(AnyLine), answer \in Seq(AnyLine) :
             /\ id = c.id /\ time = c.timestamp /\ model = c.model /\ status = c.status
             /\ text = c.user /\ answer = c.response
    BY Zenon
<1>0a. PICK ident : ident = KeptId(id)
    OBVIOUS
<1> DEFINE all == MarkdownLines(id, time, model, status, text, answer, hasTools)
<1> SUFFICES /\ all \in Seq(AnyLine)
             /\ \E r : /\ Saved(Parsed(p, all)) = Append(Saved(p), ReadOf(ident, model, status, text, r))
                       /\ r = answer \/ hasTools
    BY <1>0, <1>0a, Zenon
<1> DEFINE header == <<<<"heading", NoValue>>, BlankLine, <<"id", id>>, <<"timestamp", time>>, <<"model", model>>,
                       <<"status", status>>, BlankLine, <<"user", NoValue>>, BlankLine, Fence>>
           middle == <<Fence, BlankLine, <<"assistant", NoValue>>, BlankLine>>
           cs == Saved(p)
           user == ReadIn(cs, ReadOf(ident, model, status, <<>>, <<>>), "user", text)
           response == ReadIn(cs, ReadOf(ident, model, status, text, <<>>), "assistant", answer)
<1>1. PICK S : S = AnyLine
    OBVIOUS
<1>2. Trimmed(text) = text /\ Trimmed(answer) = answer /\ Plain(text, "markdown") /\ Plain(answer, "markdown")
  <2>1. Plain(text, "markdown") /\ Plain(answer, "markdown")
      BY <1>0, Zenon
  <2>2. QED  BY <2>1 DEF Plain
<1>3. header \in Seq(S) /\ Parsed(p, header) = ReadIn(cs, ReadOf(ident, model, status, <<>>, <<>>), "user", <<>>)
  <2>1. header \in Seq(AnyLine)
      BY FieldsAreLines
  <2>2. Parsed(p, header) = ReadIn(cs, ReadOf(ident, model, status, <<>>, <<>>), "user", <<>>)
    <3>1. Parsed(p, header) = ReadIn(cs, ReadOf(KeptId(id), model, status, <<>>, <<>>), "user", <<>>)
        BY FieldsAreRead
    <3>2. QED  BY <1>0a, <3>1, Zenon
  <2>3. QED  BY <1>1, <2>1, <2>2, Zenon
<1>4. /\ Lines(text) \in Seq(S)
      /\ Parsed(ReadIn(cs, ReadOf(ident, model, status, <<>>, <<>>), "user", <<>>), Lines(text)) = user
    BY <1>1, <1>2, LinesOfText
<1>5. middle \in Seq(S) /\ Parsed(user, middle) = ReadIn(cs, ReadOf(ident, model, status, text, <<>>), "assistant", <<>>)
  <2>1. <<"assistant", NoValue>> \in AnyLine /\ BlankLine \in AnyLine /\ Fence \in AnyLine
      BY TextsAreLines DEF AnyLine
  <2>2. middle \in Seq(AnyLine)
      BY <2>1, Tuples
  <2>3. Parsed(user, middle) = ReadIn(cs, ReadOf(ident, model, status, text, <<>>), "assistant", <<>>)
    <3>1. Trimmed(text) = text
        BY <1>2, Zenon
    <3>2. Parsed(ReadIn(cs, ReadOf(ident, model, status, <<>>, <<>>), "user", text),
                 <<Fence, BlankLine, <<"assistant", NoValue>>, BlankLine>>)
             = ReadIn(cs, ReadOf(ident, model, status, text, <<>>), "assistant", <<>>)
        BY <3>1, UserIsRead, SMTT(20)
    <3>3. QED  BY <3>2, Zenon
  <2>4. QED  BY <1>1, <2>2, <2>3, Zenon
<1>6. /\ Lines(answer) \in Seq(S)
      /\ Parsed(ReadIn(cs, ReadOf(ident, model, status, text, <<>>), "assistant", <<>>), Lines(answer)) = response
    BY <1>1, <1>2, LinesOfText
<1>7. BlankEnd \in Seq(S) /\ ToolLines \in Seq(S) /\ RuleEnd \in Seq(S)
  <2>1. <<"rule", NoValue>> \in AnyLine /\ <<"text", "tools">> \in AnyLine /\ BlankLine \in AnyLine
      BY TextsAreLines DEF AnyLine
  <2>2. QED  BY <1>1, <2>1, Tuples DEF BlankEnd, ToolLines, RuleEnd
<1> HIDE DEF header, middle, user, response, all
<1>8. PICK l1 \in Seq(S) : l1 = header \o Lines(text) /\ Parsed(p, l1) = user
  <2>1. header \o Lines(text) \in Seq(S)
        /\ Parsed(p, header \o Lines(text)) = Parsed(Parsed(p, header), Lines(text))
      BY <1>3, <1>4, JoinedAreRead
  <2>2. QED  BY <1>3, <1>4, <2>1, Zenon
<1>9. PICK l2 \in Seq(S) : /\ l2 = l1 \o middle
                           /\ Parsed(p, l2) = ReadIn(cs, ReadOf(ident, model, status, text, <<>>), "assistant", <<>>)
  <2>1. l1 \o middle \in Seq(S) /\ Parsed(p, l1 \o middle) = Parsed(Parsed(p, l1), middle)
      BY <1>5, JoinedAreRead
  <2>2. QED  BY <1>5, <1>8, <2>1, Zenon
<1>10. PICK l3 \in Seq(S) : l3 = l2 \o Lines(answer) /\ Parsed(p, l3) = response
  <2>1. l2 \o Lines(answer) \in Seq(S)
        /\ Parsed(p, l2 \o Lines(answer)) = Parsed(Parsed(p, l2), Lines(answer))
      BY <1>6, JoinedAreRead
  <2>2. QED  BY <1>6, <1>9, <2>1, Zenon
<1>11. PICK l4 \in Seq(S) : l4 = l3 \o BlankEnd /\ Parsed(p, l4) = Parsed(response, BlankEnd)
  <2>1. l3 \o BlankEnd \in Seq(S) /\ Parsed(p, l3 \o BlankEnd) = Parsed(Parsed(p, l3), BlankEnd)
      BY <1>7, JoinedAreRead
  <2>2. QED  BY <1>10, <2>1, Zenon
<1>12. all = l4 \o (IF hasTools THEN ToolLines ELSE <<>>) \o RuleEnd
    BY <1>8, <1>9, <1>10, <1>11, Zenon DEF MarkdownLines, header, middle, ToolLines, RuleEnd, BlankEnd, all
<1>13. CASE hasTools
  <2>1. l4 \o ToolLines \in Seq(S) /\ Parsed(p, l4 \o ToolLines) = Parsed(Parsed(p, l4), ToolLines)
      BY <1>7, JoinedAreRead
  <2>2. PICK l5 \in Seq(S) : l5 = l4 \o ToolLines /\ Parsed(p, l5) = Parsed(Parsed(response, BlankEnd), ToolLines)
      BY <1>11, <2>1, Zenon
  <2>3. l5 \o RuleEnd \in Seq(S) /\ Parsed(p, l5 \o RuleEnd) = Parsed(Parsed(p, l5), RuleEnd)
      BY <1>7, JoinedAreRead
  <2>4. all = l5 \o RuleEnd
      BY <1>12, <1>13, <2>2, Zenon
  <2>5. PICK r : Saved(Parsed(Parsed(Parsed(response, BlankEnd), ToolLines), RuleEnd))
                    = Append(cs, ReadOf(ident, model, status, text, r))
    <3>1. PICK d : /\ Saved(Parsed(Parsed(Parsed(response, BlankEnd), ToolLines), RuleEnd)) = Append(cs, d)
                   /\ ButResponse(d, ReadOf(ident, model, status, text, <<>>))
      <4>1. \E d : /\ Saved(Parsed(Parsed(Parsed(ReadIn(cs, ReadOf(ident, model, status, text, <<>>), "assistant", answer),
                                                  BlankEnd), ToolLines), RuleEnd)) = Append(cs, d)
                  /\ ButResponse(d, ReadOf(ident, model, status, text, <<>>))
          BY ToolsAreRead
      <4>2. QED  BY <4>1, Zenon DEF response
    <3>2. PICK r : d = ReadOf(ident, model, status, text, r)
        BY <3>1, ButResponseIs
    <3>3. QED  BY <3>1, <3>2, Zenon
  <2>6. Saved(Parsed(p, all)) = Append(cs, ReadOf(ident, model, status, text, r))
      BY <2>2, <2>3, <2>4, <2>5, Zenon
  <2>7. QED  BY <1>1, <1>13, <2>3, <2>4, <2>6, Zenon
<1>14. CASE ~ (hasTools)
  <2>1. l4 \o <<>> = l4
      BY NothingJoined
  <2>2. l4 \o RuleEnd \in Seq(S) /\ Parsed(p, l4 \o RuleEnd) = Parsed(Parsed(p, l4), RuleEnd)
      BY <1>7, JoinedAreRead
  <2>3. all = l4 \o RuleEnd
      BY <1>12, <1>14, <2>1, Zenon
  <2>4. Saved(Parsed(Parsed(response, BlankEnd), RuleEnd))
           = Append(cs, ReadOf(ident, model, status, text, answer))
      BY <1>2, ResponseIsRead, SMTT(20) DEF response
  <2>5. Saved(Parsed(p, all)) = Append(cs, ReadOf(ident, model, status, text, answer))
      BY <1>11, <2>2, <2>3, <2>4, Zenon
  <2>6. QED  BY <1>1, <2>2, <2>3, <2>5, Zenon
<1>15. QED  BY <1>13, <1>14

\* The same for a conversation of the program.
LEMMA ConversationIsRead ==
    ASSUME NEW p, NEW c \in Conversations, NEW withTools \in BOOLEAN,
           Plain(c.user, "markdown"), Plain(c.response, "markdown")
    PROVE  /\ MarkdownOf(c, withTools) \in Seq(AnyLine)
           /\ \E b : /\ Saved(Parsed(p, MarkdownOf(c, withTools))) = Append(Saved(p), b)
                     /\ ComesBack(b, c, withTools)
<1>1. /\ c.id \in STRING /\ c.timestamp \in Int /\ c.model \in STRING /\ c.status \in STRING
      /\ c.user \in Seq(AnyLine) /\ c.response \in Seq(AnyLine) /\ c.tools \in BOOLEAN
    BY TextsAreLines DEF Conversations
<1>2. (withTools /\ c.tools) \in BOOLEAN
    OBVIOUS
<1>3. /\ MarkdownOf(c, withTools) \in Seq(AnyLine)
      /\ \E r : /\ Saved(Parsed(p, MarkdownOf(c, withTools)))
                      = Append(Saved(p), ReadOf(KeptId(c.id), c.model, c.status, c.user, r))
                /\ r = c.response \/ (withTools /\ c.tools)
  <2>1. MarkdownOf(c, withTools)
           = MarkdownLines(c.id, c.timestamp, c.model, c.status, c.user, c.response, withTools /\ c.tools)
      BY Zenon DEF MarkdownOf, MarkdownLines
  <2>2. LET all == MarkdownLines(c.id, c.timestamp, c.model, c.status, c.user, c.response, withTools /\ c.tools)
        IN /\ all \in Seq(AnyLine)
           /\ \E r : /\ Saved(Parsed(p, all)) = Append(Saved(p), ReadOf(KeptId(c.id), c.model, c.status, c.user, r))
                     /\ r = c.response \/ (withTools /\ c.tools)
      BY <1>1, <1>2, LinesComeBack, Zenon
  <2>3. QED  BY <2>1, <2>2, Zenon
<1>4. ASSUME NEW r, r = c.response \/ (withTools /\ c.tools)
      PROVE  ComesBack(ReadOf(KeptId(c.id), c.model, c.status, c.user, r), c, withTools)
    BY <1>4 DEF ReadOf, ComesBack, KeptId
<1>5. QED  BY <1>3, <1>4, Zenon

\* All of them, in their order.
LEMMA MarkdownComesBack ==
    ASSUME NEW was \in Seq(Conversations), NEW withTools \in BOOLEAN,
           \A i \in DOMAIN was : Plain(was[i].user, "markdown") /\ Plain(was[i].response, "markdown")
    PROVE  \E S : LET back == ImportFromMarkdown(ExportToMarkdown(was, withTools))
                  IN /\ back \in Seq(S) /\ Len(back) = Len(was)
                     /\ \A i \in 1..Len(was) : ComesBack(back[i], was[i], withTools)
<1>1. PICK N \in Nat : N = Len(was)
    OBVIOUS
<1> DEFINE parts == [i \in DOMAIN was |-> MarkdownOf(was[i], withTools)]
           start == [conversations |-> <<>>, started |-> FALSE, current |-> NewConversation,
                     section |-> NoValue, content |-> <<>>]
           Read(n) == Saved(Parsed(start, FlattenSeq(SubSeq(parts, 1, n))))
           Good == {n \in 0..N : \E S : /\ Read(n) \in Seq(S) /\ Len(Read(n)) = n
                                        /\ \A i \in 1..n : ComesBack(Read(n)[i], was[i], withTools)}
<1>2. ASSUME NEW i \in 1..N, NEW p
      PROVE  /\ MarkdownOf(was[i], withTools) \in Seq(AnyLine)
             /\ \E b : /\ Saved(Parsed(p, MarkdownOf(was[i], withTools))) = Append(Saved(p), b)
                       /\ ComesBack(b, was[i], withTools)
  <2>1. PICK c \in Conversations : c = was[i]
      BY <1>1
  <2>2. Plain(c.user, "markdown") /\ Plain(c.response, "markdown")
      BY <1>1, <2>1
  <2>3. /\ MarkdownOf(c, withTools) \in Seq(AnyLine)
        /\ \E b : /\ Saved(Parsed(p, MarkdownOf(c, withTools))) = Append(Saved(p), b)
                  /\ ComesBack(b, c, withTools)
      BY <2>2, ConversationIsRead
  <2>4. QED  BY <2>1, <2>3, Zenon
<1>3. parts \in Seq(Seq(AnyLine)) /\ Len(parts) = N /\ \A i \in 1..N : parts[i] = MarkdownOf(was[i], withTools)
  <2>1. DOMAIN was = 1..N
      BY <1>1
  <2>2. \A i \in 1..N : MarkdownOf(was[i], withTools) \in Seq(AnyLine)
      BY <1>2
  <2>3. parts = [i \in 1..N |-> MarkdownOf(was[i], withTools)]
      BY <2>1, Zenon
  <2>4. ASSUME NEW T, NEW f \in [1..N -> T] PROVE f \in Seq(T) /\ Len(f) = N
      OBVIOUS
  <2>5. parts \in [1..N -> Seq(AnyLine)]
      BY <2>2, <2>3
  <2>6. QED  BY <2>3, <2>4, <2>5
<1> HIDE DEF parts
<1>4. 0 \in Good
  <2>1. SubSeq(parts, 1, 0) = <<>>
      BY SubSeqEmpty
  <2>2. Parsed(start, <<>>) = start
      BY ParsedNothing
  <2>3. Saved(start) = <<>>
      BY DEF Saved
  <2>4. Read(0) = <<>>
      BY <2>1, <2>2, <2>3, FlattenNothing, Zenon
  <2> HIDE DEF Read
  <2>5. Read(0) \in Seq({}) /\ Len(Read(0)) = 0
    <3>1. <<>> \in Seq({}) /\ Len(<<>>) = 0
        OBVIOUS
    <3>2. QED  BY <2>4, <3>1, Zenon
  <2>6. QED  BY <1>1, <2>5
<1>5. ASSUME NEW n \in 1..N, n - 1 \in Good PROVE n \in Good
  <2>1. PICK T : T = Seq(AnyLine)
      OBVIOUS
  <2>2. /\ SubSeq(parts, 1, n - 1) \in Seq(T) /\ parts[n] \in T
        /\ SubSeq(parts, 1, n) = Append(SubSeq(parts, 1, n - 1), parts[n])
    <3>1. ASSUME NEW R, NEW s \in Seq(R), Len(s) = N
          PROVE  /\ SubSeq(s, 1, n - 1) \in Seq(R) /\ s[n] \in R
                 /\ SubSeq(s, 1, n) = Append(SubSeq(s, 1, n - 1), s[n])
        BY <3>1
    <3>2. QED  BY <1>3, <2>1, <3>1
  <2>3. /\ FlattenSeq(SubSeq(parts, 1, n - 1)) \in Seq(AnyLine)
        /\ FlattenSeq(SubSeq(parts, 1, n)) = FlattenSeq(SubSeq(parts, 1, n - 1)) \o parts[n]
    <3>1. PICK before \in Seq(T) : before = SubSeq(parts, 1, n - 1)
        BY <2>2
    <3>2. /\ FlattenSeq(before) \in Seq(AnyLine)
          /\ FlattenSeq(Append(before, parts[n])) = FlattenSeq(before) \o parts[n]
        BY <2>1, <2>2, FlattenNext
    <3>3. QED  BY <2>2, <3>1, <3>2, Zenon
  <2>4. Parsed(start, FlattenSeq(SubSeq(parts, 1, n)))
           = Parsed(Parsed(start, FlattenSeq(SubSeq(parts, 1, n - 1))), parts[n])
    <3>1. PICK q \in Seq(AnyLine), l \in Seq(AnyLine) : q = FlattenSeq(SubSeq(parts, 1, n - 1)) /\ l = parts[n]
        BY <2>1, <2>2, <2>3
    <3>2. Parsed(start, q \o l) = Parsed(Parsed(start, q), l)
        BY ParsedOn
    <3>3. QED  BY <2>3, <3>1, <3>2, Zenon
  <2>5. PICK b : Read(n) = Append(Read(n - 1), b) /\ ComesBack(b, was[n], withTools)
    <3>1. parts[n] = MarkdownOf(was[n], withTools)
        BY <1>3
    <3>2. \E b : /\ Saved(Parsed(Parsed(start, FlattenSeq(SubSeq(parts, 1, n - 1))), MarkdownOf(was[n], withTools)))
                       = Append(Read(n - 1), b)
                 /\ ComesBack(b, was[n], withTools)
        BY <1>2
    <3>3. QED  BY <2>4, <3>1, <3>2, Zenon
  <2> HIDE DEF Read
  <2>6. PICK S : /\ Read(n - 1) \in Seq(S) /\ Len(Read(n - 1)) = n - 1
                 /\ \A i \in 1..(n - 1) : ComesBack(Read(n - 1)[i], was[i], withTools)
      BY <1>5
  <2>7. PICK before \in Seq(S \cup {b}) : before = Read(n - 1)
      BY <2>6
  <2>8. /\ Append(before, b) \in Seq(S \cup {b}) /\ Len(Append(before, b)) = n
        /\ Append(before, b)[n] = b /\ \A i \in 1..(n - 1) : Append(before, b)[i] = before[i]
    <3>1. b \in S \cup {b} /\ Len(before) = n - 1 /\ n - 1 + 1 = n
        BY <2>6, <2>7
    <3>2. QED  BY <3>1, AppendElements
  <2>9. ASSUME NEW i \in 1..n PROVE ComesBack(Append(before, b)[i], was[i], withTools)
    <3>1. CASE i = n
        BY <2>5, <2>8, <3>1
    <3>2. CASE i /= n
      <4>1. i \in 1..(n - 1)
          BY <3>2
      <4>2. QED  BY <2>6, <2>7, <2>8, <4>1
    <3>3. QED  BY <3>1, <3>2
  <2>10. Read(n) = Append(before, b)
      BY <2>5, <2>7, Zenon
  <2>11. \E R : /\ Read(n) \in Seq(R) /\ Len(Read(n)) = n
                /\ \A i \in 1..n : ComesBack(Read(n)[i], was[i], withTools)
      BY <2>8, <2>9, <2>10, Zenon
  <2>12. QED  BY <2>11
<1>6. N \in Good
  <2> HIDE DEF Good
  <2>1. 0..N \subseteq Good
      BY <1>4, <1>5, InductionUpTo
  <2>2. QED  BY <2>1
<1>7. SubSeq(parts, 1, N) = parts
    BY <1>3, SubSeqFull
<1>8. ImportFromMarkdown(ExportToMarkdown(was, withTools)) = Read(N)
    BY <1>7, Zenon DEF ImportFromMarkdown, ExportToMarkdown, parts
<1> HIDE DEF Read
<1>9. QED  BY <1>1, <1>6, <1>8

\* Tables: the lines of a text, one at a time.
LEMMA LinesJoined ==
    ASSUME NEW text \in Seq(TextLine)
    PROVE  FlattenSeq([i \in DOMAIN text |-> <<text[i]>>]) = text
<1> DEFINE Single(s) == [i \in DOMAIN s |-> <<s[i]>>]
           T == {s \in Seq(TextLine) : FlattenSeq(Single(s)) = s}
<1>1. <<>> \in T
  <2>1. Single(<<>>) = <<>> /\ <<>> \in Seq(TextLine)
      OBVIOUS
  <2>2. QED  BY <2>1, FlattenNothing
<1>2. ASSUME NEW s \in Seq(TextLine), NEW c \in TextLine, s \in T PROVE Append(s, c) \in T
  <2>1. PICK N \in Nat : N = Len(s)
      OBVIOUS
  <2>2. Single(s) \in Seq(Seq(TextLine)) /\ Len(Single(s)) = N /\ <<c>> \in Seq(TextLine)
        /\ \A i \in 1..N : Single(s)[i] = <<s[i]>>
    <3>1. DOMAIN s = 1..N /\ \A i \in 1..N : <<s[i]>> \in Seq(TextLine)
        BY <2>1
    <3>2. Single(s) \in [1..N -> Seq(TextLine)] /\ \A i \in 1..N : Single(s)[i] = <<s[i]>>
        BY <3>1
    <3>3. ASSUME NEW R, NEW f \in [1..N -> R] PROVE f \in Seq(R) /\ Len(f) = N
        OBVIOUS
    <3>4. QED  BY <3>2, <3>3
  <2>3. Single(Append(s, c)) = Append(Single(s), <<c>>)
    <3>1. /\ Append(s, c) \in Seq(TextLine) /\ Len(Append(s, c)) = N + 1
          /\ Append(s, c)[N + 1] = c /\ \A i \in 1..N : Append(s, c)[i] = s[i]
        BY <2>1, AppendElements
    <3>2. DOMAIN Append(s, c) = 1..(N + 1)
        BY <3>1
    <3>3. Single(Append(s, c)) = [i \in 1..(N + 1) |-> <<Append(s, c)[i]>>]
        BY <3>2, Zenon
    <3> DEFINE W == Append(Single(s), <<c>>)
    <3>4. /\ W \in Seq(Seq(TextLine)) /\ Len(W) = N + 1
          /\ W[N + 1] = <<c>> /\ \A i \in 1..N : W[i] = Single(s)[i]
      <4>1. ASSUME NEW R, NEW u \in Seq(R), NEW x \in R, Len(u) = N
            PROVE  /\ Append(u, x) \in Seq(R) /\ Len(Append(u, x)) = N + 1
                   /\ Append(u, x)[N + 1] = x /\ \A i \in 1..N : Append(u, x)[i] = u[i]
          BY <4>1, AppendElements
      <4> HIDE DEF Single
      <4>2. QED  BY <2>2, <4>1
    <3> HIDE DEF W, Single
    <3>5. \A i \in 1..(N + 1) : W[i] = <<Append(s, c)[i]>>
        BY <2>2, <3>1, <3>4
    <3>6. W = [i \in 1..(N + 1) |-> W[i]]
        BY <3>4
    <3>7. [i \in 1..(N + 1) |-> W[i]] = [i \in 1..(N + 1) |-> <<Append(s, c)[i]>>]
        BY <3>5, Zenon
    <3>8. QED  BY <3>3, <3>6, <3>7, Zenon DEF W
  <2> HIDE DEF Single
  <2>4. FlattenSeq(Append(Single(s), <<c>>)) = FlattenSeq(Single(s)) \o <<c>>
      BY <2>2, FlattenNext
  <2>5. s \o <<c>> = Append(s, c) /\ Append(s, c) \in Seq(TextLine)
      OBVIOUS
  <2>6. FlattenSeq(Single(s)) = s
      BY <1>2
  <2>7. QED  BY <2>3, <2>4, <2>5, <2>6
<1> HIDE DEF T
<1>3. \A s \in Seq(TextLine) : s \in T
    BY <1>1, <1>2, InductionAppend
<1>4. QED  BY <1>3 DEF T

\* A text without escaped line ends is the same after them.
LEMMA PlainIsKept ==
    ASSUME NEW text \in Seq(TextLine), Plain(text, "csv")
    PROVE  Unescaped(text) = text
<1>1. \A i \in DOMAIN text : text[i][1] /= "escaped"
    BY DEF Plain
<1>2. [i \in DOMAIN text |-> IF text[i][1] = "escaped" THEN <<<<"text", text[i][2]>>, <<"text", text[i][2]>>>> ELSE <<text[i]>>]
         = [i \in DOMAIN text |-> <<text[i]>>]
    BY <1>1, Zenon
<1>3. QED  BY <1>2, LinesJoined, Zenon DEF Unescaped

\* One row.
LEMMA RowComesBack ==
    ASSUME NEW c \in Conversations, Plain(c.user, "csv"), Plain(c.response, "csv")
    PROVE  ComesBack([RowOf(c) EXCEPT !.id = KeptId(@), !.user = Unescaped(@), !.response = Unescaped(@)], c, FALSE)
<1>1. c.user \in Seq(TextLine) /\ c.response \in Seq(TextLine)
    BY DEF Conversations
<1>2. Unescaped(c.user) = c.user /\ Unescaped(c.response) = c.response
    BY <1>1, PlainIsKept
<1>3. PICK b : b = [RowOf(c) EXCEPT !.id = KeptId(@), !.user = Unescaped(@), !.response = Unescaped(@)]
    OBVIOUS
<1>4. DOMAIN c = {"id", "timestamp", "model", "status", "user", "response", "tools"}
    BY DEF Conversations
<1>5. ComesBack(b, c, FALSE)
    BY <1>2, <1>3, <1>4 DEF RowOf, ComesBack, KeptId
<1>6. QED  BY <1>3, <1>5, Zenon

\* All rows, in their order.
LEMMA TableComesBack ==
    ASSUME NEW was \in Seq(Conversations), NEW back,
           back = ImportFromCSV([i \in DOMAIN was |-> RowOf(was[i])]), back /= None,
           \A i \in DOMAIN was : Plain(was[i].user, "csv") /\ Plain(was[i].response, "csv")
    PROVE  \E S : /\ back \in Seq(S) /\ Len(back) = Len(was)
                  /\ \A i \in 1..Len(was) : ComesBack(back[i], was[i], FALSE)
<1>1. PICK N \in Nat : N = Len(was) /\ DOMAIN was = 1..N
    OBVIOUS
<1> DEFINE RowBack(c) == [RowOf(c) EXCEPT !.id = KeptId(@), !.user = Unescaped(@), !.response = Unescaped(@)]
           rows == [i \in DOMAIN was |-> RowOf(was[i])]
<1>2. back = [i \in DOMAIN rows |-> [rows[i] EXCEPT !.id = KeptId(@), !.user = Unescaped(@), !.response = Unescaped(@)]]
    BY Zenon DEF ImportFromCSV
<1>3. back = [i \in 1..N |-> RowBack(was[i])]
  <2>1. rows = [i \in 1..N |-> RowOf(was[i])]
      BY <1>1, Zenon
  <2> HIDE DEF rows
  <2>2. DOMAIN rows = 1..N /\ \A i \in 1..N : rows[i] = RowOf(was[i])
      BY <2>1, Zenon
  <2>3. QED  BY <1>2, <2>2, Zenon
<1>4. ASSUME NEW i \in 1..N PROVE ComesBack(RowBack(was[i]), was[i], FALSE)
  <2>1. PICK c \in Conversations : c = was[i]
      BY <1>1
  <2>2. Plain(c.user, "csv") /\ Plain(c.response, "csv")
      BY <1>1, <2>1
  <2>3. ComesBack(RowBack(c), c, FALSE)
      BY <2>2, RowComesBack
  <2>4. QED  BY <2>1, <2>3, Zenon
<1> HIDE DEF RowBack
<1> DEFINE S == {RowBack(was[i]) : i \in 1..N}
<1>5. back \in [1..N -> S]
    BY <1>3
<1>6. ASSUME NEW R, NEW f \in [1..N -> R] PROVE f \in Seq(R) /\ Len(f) = N
    OBVIOUS
<1>7. back \in Seq(S) /\ Len(back) = N
  <2> HIDE DEF S
  <2>1. QED  BY <1>5, <1>6
<1>8. \A i \in 1..N : back[i] = RowBack(was[i])
    BY <1>3
<1>9. QED  BY <1>1, <1>4, <1>7, <1>8, Zenon

\* A file that was written to its end is that of an export.
ExportIsWritten ==
    \/ exported = None
    \/ ~ exported.whole
    \/ \E chosen \in Seq(Conversations), f \in Formats, ext \in Formats,
          withTools \in BOOLEAN, metadataOnly \in BOOLEAN :
             exported = FileOf(chosen, f, ext, withTools, metadataOnly)

HistoryIsTyped == part = "export" => history \in Seq(Conversations)

ExportInv == ExportIsWritten /\ HistoryIsTyped /\ RoundTripKeepsConversations

\* What is read of a file in its own format.
LEMMA DecodedComesBack ==
    ASSUME NEW was \in Seq(Conversations), NEW f \in Formats, NEW ext \in Formats,
           NEW withTools \in BOOLEAN, NEW metadataOnly \in BOOLEAN, NEW wanted \in Formats, NEW read,
           read = Decoded(FileOf(was, f, ext, withTools, metadataOnly), wanted), read /= None,
           FormatRead(FileOf(was, f, ext, withTools, metadataOnly), wanted) = f,
           \A i \in DOMAIN was : Plain(was[i].user, f) /\ Plain(was[i].response, f),
           NEW tools, tools = (f = "markdown" /\ withTools)
    PROVE  \E S : /\ read \in Seq(S) /\ Len(read) = Len(was)
                  /\ \A i \in 1..Len(was) : ComesBack(read[i], was[i], tools)
<1> DEFINE file == FileOf(was, f, ext, withTools, metadataOnly)
<1>1. PICK contents : contents = file.contents
    OBVIOUS
<1>2. file.format = f /\ file.contents = contents
    BY <1>1 DEF FileOf
<1>3. /\ f = "json" => contents = IF metadataOnly THEN None ELSE was
      /\ f = "markdown" => contents = ExportToMarkdown(was, withTools)
      /\ f = "csv" => contents = [i \in DOMAIN was |-> RowOf(was[i])]
    BY <1>1 DEF FileOf
<1> HIDE DEF file
<1>4. f \in {"json", "markdown", "csv"} /\ contents /= None
      /\ read = CASE f = "json" -> contents
                  [] f = "markdown" -> ImportFromMarkdown(contents)
                  [] f = "csv" -> ImportFromCSV(contents)
  <2>1. FormatRead(file, wanted) = f /\ read = Decoded(file, wanted)
      BY DEF file
  <2>2. f /= "html" /\ contents /= None
      BY <1>2, <2>1, Zenon DEF Decoded
  <2>3. read = CASE f = "json" -> contents
                  [] f = "markdown" -> ImportFromMarkdown(contents)
                  [] f = "csv" -> ImportFromCSV(contents)
      BY <1>2, <2>1, <2>2, Zenon DEF Decoded
  <2>4. QED  BY <2>2, <2>3 DEF Formats
<1>5. CASE f = "json"
  <2>1. read = was
      BY <1>3, <1>4, <1>5
  <2>2. ASSUME NEW i \in 1..Len(was) PROVE ComesBack(was[i], was[i], tools)
    <3>1. was[i] \in Conversations
        OBVIOUS
    <3>2. QED  BY <3>1 DEF Conversations, ComesBack
  <2>3. QED  BY <2>1, <2>2
<1>6. CASE f = "markdown"
  <2>1. read = ImportFromMarkdown(ExportToMarkdown(was, withTools))
      BY <1>3, <1>4, <1>6
  <2>2. \E S : LET back == ImportFromMarkdown(ExportToMarkdown(was, withTools))
               IN /\ back \in Seq(S) /\ Len(back) = Len(was)
                  /\ \A i \in 1..Len(was) : ComesBack(back[i], was[i], withTools)
      BY <1>6, MarkdownComesBack
  <2>3. tools = withTools
      BY <1>6
  <2>4. QED  BY <2>1, <2>2, <2>3, Zenon
<1>7. CASE f = "csv"
  <2>1. read = ImportFromCSV([i \in DOMAIN was |-> RowOf(was[i])])
      BY <1>3, <1>4, <1>7
  <2>2. \E S : /\ read \in Seq(S) /\ Len(read) = Len(was)
               /\ \A i \in 1..Len(was) : ComesBack(read[i], was[i], FALSE)
      BY <1>7, <2>1, TableComesBack
  <2>3. tools = FALSE
      BY <1>7
  <2>4. QED  BY <2>2, <2>3, Zenon
<1>8. QED  BY <1>4, <1>5, <1>6, <1>7

Processed(read, o) == [i \in DOMAIN read |-> ProcessConversation(read[i], o)]

\* What is then accepted, with the identifiers as they were.
LEMMA AcceptedComesBack ==
    ASSUME NEW was, Len(was) \in Nat, NEW S, NEW read \in Seq(S), Len(read) = Len(was),
           NEW withTools, NEW o, ~ o.updateIDs,
           \A i \in 1..Len(was) : ComesBack(read[i], was[i], withTools)
    PROVE  /\ Len(Processed(read, o)) = Len(was) /\ DOMAIN Processed(read, o) = 1..Len(was)
           /\ \A i \in 1..Len(was) : ComesBack(Processed(read, o)[i], was[i], withTools)
<1> DEFINE back == Processed(read, o)
<1>1. PICK N \in Nat : N = Len(was) /\ DOMAIN read = 1..N
    OBVIOUS
<1>3. back = [i \in 1..N |-> ProcessConversation(read[i], o)]
    BY <1>1, Zenon DEF Processed
<1> HIDE DEF back
<1>4. ASSUME NEW i \in 1..N PROVE ComesBack(ProcessConversation(read[i], o), was[i], withTools)
  <2>1. PICK c : c = read[i] /\ ComesBack(c, was[i], withTools)
      BY <1>1
  <2>2. PICK b : b = ProcessConversation(c, o)
      OBVIOUS
  <2>3. DOMAIN b = DOMAIN c /\ \A x \in DOMAIN c : x /= "timestamp" => b[x] = c[x]
      BY <2>2 DEF ProcessConversation
  <2>4. {"id", "status", "user", "response"} \subseteq DOMAIN c
      BY <2>1 DEF ComesBack
  <2>5. b.id = c.id /\ b.status = c.status /\ b.user = c.user /\ b.response = c.response
      BY <2>3, <2>4
  <2>6. ComesBack(b, was[i], withTools)
      BY <2>1, <2>3, <2>5, Zenon DEF ComesBack
  <2>7. QED  BY <2>1, <2>2, <2>6, Zenon
<1>5. ASSUME NEW R, NEW g \in [1..N -> R] PROVE g \in Seq(R) /\ Len(g) = N
    OBVIOUS
<1> DEFINE R == {ProcessConversation(read[i], o) : i \in 1..N}
<1>6. back \in [1..N -> R] /\ \A i \in 1..N : back[i] = ProcessConversation(read[i], o)
    BY <1>3
<1> HIDE DEF R
<1>7. Len(back) = N /\ DOMAIN back = 1..N
    BY <1>5, <1>6
<1>8. QED  BY <1>1, <1>4, <1>6, <1>7, Zenon DEF back

\* The steps, for what is chosen.
ExportOf(s, f, ext, withTools, metadataOnly) ==
    LET chosen == FilterConversations(history, s)
    IN /\ chosen /= <<>> /\ exported = None
       /\ f /= "json" => ~ metadataOnly
       /\ exported' \in FilesOf(FileOf(chosen, f, ext, withTools, metadataOnly))
       /\ imported' = None
       /\ UNCHANGED <<history, archiveVars>>

ImportOf(wanted, validate, updateIDs, preserve) ==
    LET o == [asked |-> wanted, validate |-> validate, updateIDs |-> updateIDs, preserve |-> preserve]
        read == Decoded(exported, wanted)
        accepted == Only({i \in DOMAIN read : validate => ValidateConversation(read[i])}, read)
    IN /\ exported /= None /\ imported = None
       /\ read /= None
       /\ imported' = [options |-> o, total |-> Len(read), errors |-> Len(read) - Len(accepted),
                       conversations |-> [i \in DOMAIN accepted |-> ProcessConversation(accepted[i], o)]]
       /\ UNCHANGED <<history, exported, archiveVars>>

\* An export and an import are one of them.
LEMMA TransferSteps ==
    /\ ExportConversations => \E s \in Selections, f \in Formats, ext \in Formats, withTools, metadataOnly \in BOOLEAN :
                                ExportOf(s, f, ext, withTools, metadataOnly)
    /\ ImportConversations => \E wanted \in Formats, validate, updateIDs, preserve \in BOOLEAN :
                                ImportOf(wanted, validate, updateIDs, preserve)
<1>1. ExportConversations => \E s \in Selections, f \in Formats, ext \in Formats, withTools, metadataOnly \in BOOLEAN :
                              ExportOf(s, f, ext, withTools, metadataOnly)
    BY Zenon DEF ExportConversations, ExportOf
<1>2. ImportConversations => \E wanted \in Formats, validate, updateIDs, preserve \in BOOLEAN :
                              ImportOf(wanted, validate, updateIDs, preserve)
    BY Zenon DEF ImportConversations, ImportOf
<1>3. QED  BY <1>1, <1>2

\* After an import what was exported has come back.
LEMMA ImportKeeps ==
    ASSUME ExportIsWritten, ImportConversations
    PROVE  RoundTripKeepsConversations'
<1>0. SUFFICES ASSUME exported.whole PROVE RoundTripKeepsConversations'
  <2>1. exported' = exported
      BY DEF ImportConversations
  <2>2. QED  BY <2>1, Zenon DEF RoundTripKeepsConversations
<1>1. exported /= None /\ exported' = exported
    BY DEF ImportConversations
<1>2. PICK wanted \in Formats, validate \in BOOLEAN, updateIDs \in BOOLEAN, preserve \in BOOLEAN :
        ImportOf(wanted, validate, updateIDs, preserve)
    BY TransferSteps
<1>3. PICK was \in Seq(Conversations), f \in Formats, ext \in Formats,
           withTools \in BOOLEAN, metadataOnly \in BOOLEAN :
             exported = FileOf(was, f, ext, withTools, metadataOnly)
    BY <1>0, <1>1 DEF ExportIsWritten
<1>4. exported.selected = was /\ exported.format = f /\ exported.withTools = withTools
    BY <1>3 DEF FileOf
<1> DEFINE o == [asked |-> wanted, validate |-> validate, updateIDs |-> updateIDs, preserve |-> preserve]
           read == Decoded(exported, wanted)
           accepted == Only({i \in DOMAIN read : validate => ValidateConversation(read[i])}, read)
           back == [i \in DOMAIN accepted |-> ProcessConversation(accepted[i], o)]
<1> HIDE DEF read, accepted, back
<1>5. read /= None /\ imported' = [options |-> o, total |-> Len(read), errors |-> Len(read) - Len(accepted),
                                   conversations |-> back]
    BY <1>2, Zenon DEF ImportOf, read, accepted, back
<1>6. imported'.options = o /\ imported'.conversations = back
    BY <1>5
<1>7. o.asked = wanted /\ o.validate = validate /\ o.updateIDs = updateIDs
    OBVIOUS
<1> HIDE DEF o
<1> DEFINE tools == f = "markdown" /\ withTools
<1>8. ASSUME ~ validate, ~ updateIDs, FormatRead(exported, wanted) = f,
             \A i \in DOMAIN was : Plain(was[i].user, f) /\ Plain(was[i].response, f)
      PROVE  /\ Len(back) = Len(was) /\ DOMAIN back = 1..Len(was)
             /\ \A i \in 1..Len(was) : ComesBack(back[i], was[i], tools)
  <2>1. PICK S : /\ read \in Seq(S) /\ Len(read) = Len(was)
                 /\ \A i \in 1..Len(was) : ComesBack(read[i], was[i], tools)
    <3>1. read = Decoded(FileOf(was, f, ext, withTools, metadataOnly), wanted)
        BY <1>3, Zenon DEF read
    <3>2. FormatRead(FileOf(was, f, ext, withTools, metadataOnly), wanted) = f
        BY <1>3, <1>8, Zenon
    <3>3. read /= None /\ \A i \in DOMAIN was : Plain(was[i].user, f) /\ Plain(was[i].response, f)
        BY <1>5, <1>8, Zenon
    <3>4. PICK t : t = tools
        OBVIOUS
    <3>5. t = (f = "markdown" /\ withTools)
        BY <3>4
    <3> HIDE DEF tools
    <3>6. \E S : /\ read \in Seq(S) /\ Len(read) = Len(was)
                 /\ \A i \in 1..Len(was) : ComesBack(read[i], was[i], t)
        BY <3>1, <3>2, <3>3, <3>5, DecodedComesBack, SMTT(20)
    <3>7. QED  BY <3>4, <3>6, Zenon
  <2>2. {i \in DOMAIN read : validate => ValidateConversation(read[i])} = DOMAIN read
      BY <1>8
  <2>3. accepted = Only(DOMAIN read, read)
      BY <2>2, Zenon DEF accepted
  <2>4. back = Processed(read, o)
    <3>1. Only(DOMAIN read, read) = read
        BY <2>1, OnlyAll
    <3>2. QED  BY <2>3, <3>1, Zenon DEF back, Processed
  <2>5. Len(was) \in Nat /\ ~ o.updateIDs
      BY <1>7, <1>8
  <2> HIDE DEF tools
  <2>6. PICK t : t = tools
      OBVIOUS
  <2>7. \A i \in 1..Len(was) : ComesBack(read[i], was[i], t)
      BY <2>1, <2>6, Zenon
  <2>8. /\ Len(Processed(read, o)) = Len(was) /\ DOMAIN Processed(read, o) = 1..Len(was)
        /\ \A i \in 1..Len(was) : ComesBack(Processed(read, o)[i], was[i], t)
      BY <2>1, <2>5, <2>7, AcceptedComesBack
  <2>9. QED  BY <2>4, <2>6, <2>8, Zenon
<1>9. SUFFICES ASSUME ~ validate, ~ updateIDs, FormatRead(exported, wanted) = f,
                      \A i \in DOMAIN was : Plain(was[i].user, f) /\ Plain(was[i].response, f)
               PROVE  /\ Len(back) = Len(was)
                      /\ \A i \in DOMAIN back :
                            /\ back[i].id = was[i].id \/ was[i].id = NoValue
                            /\ back[i].status = was[i].status /\ back[i].user = was[i].user
                            /\ \/ back[i].response = was[i].response
                               \/ f = "markdown" /\ withTools /\ was[i].tools
    BY <1>1, <1>4, <1>6, <1>7, Zenon DEF RoundTripKeepsConversations
<1>10. QED  BY <1>8, <1>9 DEF ComesBack

\* Every step keeps the invariant.
LEMMA ExportStep == ExportInv /\ [Next]_vars => ExportInv'
<1> SUFFICES ASSUME ExportInv, [Next]_vars PROVE ExportInv'
    OBVIOUS
<1>1. CASE part = "export" /\ ExportConversations /\ part' = part
  <2>1. PICK s \in Selections, f \in Formats, ext \in Formats, withTools \in BOOLEAN, metadataOnly \in BOOLEAN :
          ExportOf(s, f, ext, withTools, metadataOnly)
      BY <1>1, TransferSteps
  <2>6. /\ exported' \in FilesOf(FileOf(FilterConversations(history, s), f, ext, withTools, metadataOnly))
        /\ imported' = None /\ history' = history
      BY <2>1, Zenon DEF ExportOf
  <2>2. FilterConversations(history, s) \in Seq(Conversations)
      BY <1>1, OnlyIsSequence DEF ExportInv, HistoryIsTyped, FilterConversations
  <2>3. ExportIsWritten'
    <3> DEFINE file == FileOf(FilterConversations(history, s), f, ext, withTools, metadataOnly)
    <3>1. CASE exported' = file
        BY <2>2, <3>1, Zenon DEF ExportIsWritten
    <3>2. CASE \E n \in 0..(Len(file.contents) - 1) : exported' = WrittenUpTo(n, file)
      <4>1. PICK n : exported' = WrittenUpTo(n, file)
          BY <3>2
      <4>2. PICK written : written = exported'
          OBVIOUS
      <4>3. ~ written.whole
          BY <4>1, <4>2 DEF WrittenUpTo, FileOf
      <4>4. QED  BY <4>2, <4>3, Zenon DEF ExportIsWritten
    <3> HIDE DEF file
    <3>3. QED  BY <2>6, <3>1, <3>2 DEF FilesOf, file
  <2>4. RoundTripKeepsConversations'
      BY <2>6, Zenon DEF RoundTripKeepsConversations
  <2>5. QED  BY <1>1, <2>6, <2>3, <2>4, Zenon DEF ExportInv, HistoryIsTyped
<1>2. CASE ImportConversations /\ part' = part
  <2>1. exported' = exported /\ history' = history
      BY <1>2 DEF ImportConversations
  <2>2. RoundTripKeepsConversations'
      BY <1>2, ImportKeeps DEF ExportInv
  <2>3. QED  BY <1>2, <2>1, <2>2, Zenon DEF ExportInv, HistoryIsTyped, ExportIsWritten
<1>3. CASE /\ exported' = exported /\ imported' = imported /\ part' = part
           /\ part = "export" => history' = history
    BY <1>3, Zenon DEF ExportInv, HistoryIsTyped, ExportIsWritten, RoundTripKeepsConversations
<1>4. CASE part = "export" /\ ExportNext /\ part' = part
    BY <1>1, <1>2, <1>4 DEF ExportNext
<1>5. CASE part = "backup" /\ BackupNext /\ part' = part
  <2>1. exported' = exported /\ imported' = imported
      BY <1>5 DEF BackupNext, BeginBackup, FillArchive, CleanupOldBackups, CloseArchive, BackupFails,
                  DeleteBackup, RestoreBackup, PassTime, exportVars
  <2>2. QED  BY <1>3, <1>5, <2>1
<1>6. CASE UNCHANGED transferVars /\ part' = part
    BY <1>3, <1>6 DEF transferVars, exportVars
<1>7. \/ part = "export" /\ ExportNext /\ part' = part
      \/ part = "backup" /\ BackupNext /\ part' = part
      \/ UNCHANGED transferVars /\ part' = part
    BY Zenon DEF Next, vars
<1>8. QED  BY <1>4, <1>5, <1>6, <1>7

(* Whatever the conversations are, an import of what was exported of them, in its own     *)
(* format and without validation, gives back each one that was selected, in its order,     *)
(* with its identifier, status and texts, unless the lines of a text look like those of    *)
(* the format.                                                                            *)
THEOREM ExportsComeBack == Spec => []RoundTripKeepsConversations
<1>1. Init => ExportInv
  <2> SUFFICES ASSUME Init PROVE ExportInv
      OBVIOUS
  <2>1. history \in Histories /\ exported = None /\ imported = None
      BY DEF Init, TransferInit
  <2>2. history \in Seq(Conversations)
      BY <2>1, TransferAssumption
  <2>3. QED  BY <2>1, <2>2, Zenon DEF ExportInv, ExportIsWritten, HistoryIsTyped, RoundTripKeepsConversations
<1>2. ExportInv /\ [Next]_vars => ExportInv'
    BY ExportStep
<1>3. ExportInv => RoundTripKeepsConversations
    BY DEF ExportInv
<1>4. QED  BY <1>1, <1>2, <1>3, PTL DEF Spec
=============================================================================
