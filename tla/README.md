# gocodenow in TLA+

A verification project for the Go program in `src/`: a terminal assistant that
keeps conversations in SQLite behind a cache, sends the user's messages to a
language model, and runs the tools it asks for under a resource monitor.
Line numbers are those of the sources named with them.

## 1. The system

| part | state it keeps | operations | what is hard about it |
|---|---|---|---|
| Storage manager (`storage/manager.go`) | SQLite tables, an LRU cache (map and list), `closed`, the auto-save worker's channels | Save, Load, LoadRecent, Delete, RefreshCache, Close, auto-save | reads under a read lock that fill a cache; saves without a transaction; a refresh that reads before it locks; Close against calls in flight; crashes |
| LRU list (`LRUCache` there, over `container/list`) | a doubly linked ring and a map into it | Get, Put, Remove | Get moves an element under the *read* lock of the manager and of the cache |
| Migrations (`storage/migrations.go`, `init.go`, `database.go`) | `schema_version`, tables and indexes | run, apply one, roll back | one transaction per migration, crashes between them, two instances on one file |
| Conversation cache (`storage/cache.go`) | two maps with lists, a memory counter, a limit, two read-write locks | Get, Put, PutTool, Remove, Clear, SetMemoryLimit, cleanup, memory monitor | eviction by number and by memory under three policies; two locks taken in two orders |
| Background persistence (`storage/background_persistence.go`) | four bounded queues, a batch in the making, goroutines, flags | Save/Delete/Update async, batches, Start, Stop | two kinds of goroutine compete for a queue; retries go back into it; a transaction that fails after its callbacks |
| Tool workflow (`ui/tool_execution_workflow.go`) with the resource monitor (`security/monitor.go`) | states of executions, results, operations in progress | run the calls of a conversation, retry one, cancel; start and end an operation | runs and user retries share results and the monitor; deferred closes; back-off |
| Conversation history (`models/conversation.go`) | blocks on screen, a selection, an optional storage | add, select, toggle, set status, delete, refresh | the storage fails in the middle of an operation; selection against deletion and reload |
| Message flow (`ui/model.go`, `message_processor.go`, `model_animation.go`, `keys.go`) | blocks, selection, the marks of messages being processed | send, stream, fail, complete, tools | commands run in goroutines of their own and end as messages for one update loop |
| Lazy loading (`storage/lazy_loading.go`) | a bounded queue, pending and active counters, loaded metadata | async load, page, idle cleanup, Shutdown | counters that decide when Shutdown may return are updated apart from the queue |
| Memory monitor (`storage/memory_monitor.go`) | last sample, alerts, the cache's limit, two workers | Start, Stop, sample, clean up | strategies act on a reading that may be old; Stop and Start on one channel |
| Audit log (`security/audit.go`) | a channel of events, the open file, log files, cleaners | log, write, rotate, clean up, search, Close | two goroutines rotate, others remove files by listings of their own |
| Threat detection (`threat_detector.go`) | indicators, reviews, a ticker | analyse, alert, mitigate, review | reads back a log that is being rotated and that its own alerts go into |
| Rate limiter (`ratelimiter.go`) and policy engine (`policy_enforcer.go`) | an entry for each key, rules, a mode | check, consume, reset, clean up; enforce, add and remove rules | check and take are two steps; rules change during an evaluation |
| Confirmation (`confirmation.go`, `security.go`) | prompts, readers of the console | ask, read, time out, execute | a reader outlives its prompt |
| Sandbox (`sandbox.go`), shell tool (`tools/bash.go`) | processes, watchers, pipes | execute, watch, kill, clean up; read two pipes | five ways out of a run; output that outlasts its command |
| File tools (`tools/file_ops.go`, `file_backup.go`, `multi_file_ops.go`, `file_watch.go`, `audit_trail.go`) | the file system, backups and their metadata, watches, a log of operations | write, edit, chmod; back up, restore, batches; watch; log and complete | failures after a truncation, evictions of what is needed, directories that come and go, merges with a log on disk |
| Search tools and diff (`grep.go`, `findinfiles.go`, `search.go`, `fuzzy.go`, `tree.go`, `file_diff.go`) | a walk and its counters; two indices over two texts | search, list, match, compare, group | limits and ends |
| Configuration (`config/`) | the configuration, listeners, a watcher, files; profiles and environments; migrations | load, merge, validate, update, reload; create, update, delete; migrate | callbacks outside the lock, files read while written, backups named by the second |
| Export, import, backups (`ui/export.go`, `import.go`, `backup.go`) | files in three formats, archives | export, import, back up, restore | parsers that carry state from line to line; archives that failed |
| Resource monitor's sampling, router's permissions, validation, git, metadata and syntax tools, LLM client, project context, input line, storage metrics, the other screens | | | not modelled (section 7) |

How they interact: `app.go` opens the database through `InitializeDatabase`
(migrations) and builds the interface. The update loop of Bubble Tea calls the
history directly and starts commands; a command of the message processor calls
the model, then the tool workflow, which asks the resource monitor for a place
and the router for the execution. The history calls the storage manager, which
alone writes conversations. The security manager asks for confirmation before it
executes a command or allows a file operation; threat detection reads the
audit log that the other parts of the security layer write; the policy engine
asks the rate limiter. The batch tools make their backups through the backup
manager; an audited operation enters itself in the audit trail. At this commit
nothing but tests and demos constructs the tools and the parts of the security
layer, nor `ConversationCache`, `BackgroundPersistenceManager`, the lazy loader,
the memory monitor and the managers of run-time configuration, profiles,
environments and migration (`main.go` calls `LoadConfig`, `ApplyCLIFlags` and
`ValidateConfig`), and `MessageProcessor` and `ToolExecutionWorkflow` have no
caller outside tests; they are modelled as the
components their callers will meet.

## 2. The modules

Every module has its state as variables, one action for each step that another
actor could observe, and names taken from the code. `PROJECT.json` ("map")
gives the lines of each definition.

**StorageManager** — variables `dbVer`, `dbTools` are the rows of two tables (a
record is known by the number of the save that wrote it), `lru` the cache,
`pc`/`todo`/`next`/`touched` the calls in progress. `sm.mu` is not a variable:
who holds it follows from `pc` (`Reading`, `Waiting`, `Exclusive`, `Sharable`).
A save is one action because it holds the write lock from beginning to end,
but its statements can fail between the rows, or a crash can cut it. `LoadMiss`,
`LoadFound`, `LoadPut` are the steps of a load that other readers interleave
with. A read that a failing statement cuts short yields fewer tool executions, or
fewer rows, as a success (`Readings`, `RowsRead`). `stale`, `touched` and `cut` are
history variables: they mark the ids for which the code itself lets the cache
differ from the tables. `FreshLru` is a closed
form of the loop of RefreshCache, which puts at most `CacheSize` distinct ids.

**ConversationRepository** — the promise: a map from ids to saved versions, with
Save, Delete, Shutdown and Restart. `StorageManager!ImplementsRepository`
instantiates it with what a load of each id would return.

**LRUList** — the same cache one level down: `container/list`'s `move` as its
six pointer assignments, each an action, so that two readers interleave
inside it.

**Migrations** — `table`, `rows`, `built` are the database, the rest the loop of
each instance. `absent` is an instance that is never started, so that one run
covers one instance and two.

**ConversationCache** — each operation is one action (it holds `c.mutex`);
eviction is a function from caches to the caches it may leave: as many
iterations of `Iterate` as there are entries, since each that goes on has
evicted one. The policy is a variable that never changes, so that one run
covers the three.

**CacheLocks** — the two locks of that cache, `sync.RWMutex` with its waiting
writers and readers, and the order in which each operation takes them.

**BackgroundPersistence** — the queues are sequences, `at` and `hand` where a
goroutine is and what it holds; an operation is valid or not, since saving
itself is a TODO in the code and fails only for an operation it cannot process.

**ToolWorkflow** — executors are the runs (one for each conversation) and the
retriers; `activeOperations` and `total` are the monitor; `at` the place in
`executeToolsSequentially` and `executeToolWithRetry`. A deferred
`tracker.Close()` is a step of its own, last one first. Whether
`GetConversationByID` finds the block of the run is open: it may fail, find
nothing or read a copy from storage, and then only the message that the run
returns has the results.

**ConversationHistory** — the history over a storage that is absent, reliable or
failing (`storage`, which never changes). Its operations are called one at a
time.

**MessageFlow** — a chain of commands and update steps for each message, over a
history in memory. AddConversation's unlocked append is a read and a later
write. Ids are kept apart as in the code: the processor makes one, the block
gets another.

**Security** joins five parts, of which a behaviour is about one (`part`), since
they share no state but the log:

- *SecurityAudit*: events are records with what the detectors look at; the
  writer, `periodicRotation` and each `cleanupOldFiles` are goroutines, a
  file's name is the second it was opened in, so that the log is a set of files
  and their names give their age. *ThreatDetection* extends it: an
  analysis is a search through the listed files, one indicator after the
  other, and each alert is an event again.
- *RateLimiter*: a call is one step for each scope it checks and one for each
  token it takes, against the time it began. *PolicyEnforcement* extends it:
  the rules enabled at the beginning are evaluated in any order, as from a Go
  map, the rate rule through the limiter.
- *Confirmation*: askers, the readers they start, the lines that are typed. Once
  two readers have shared the one `bufio.Reader` (`raced`), a data race, any of
  them may get any line, whole or torn, or none, for good: the build may do
  better when the buffer runs empty, and it may panic, which is the end.
- *Sandbox*: a run with its watcher, the cleaners, the counters.
- *BashExecutor*: a command, two pipes with a capacity, two readers with a limit.

**FileTools** joins seven tools in the same way (`tool`): *FileOps* (one file as
a sequence of characters; each system call is a step that may fail or be the
last), *FileBackups* (backups by version and second under the name that
`StoredAs` gives a path, which others may share, and the batch operations step by
step; the list of a file's backups, which the code keeps sorted newest first, is
a set in which a newer backup has a higher version, and `cut` is a history field), *FileWatch* (a tree, the kernel's watches and its bounded queue
of changes, the loop, the bounded buffer and its reader; `missed` is a history variable), *AuditTrail* (two
memories over one log without a lock, each call reading the log in one step and
writing it in another; entries are a set, ordered by their identifiers as the code
orders them by their times; `unlogged` and `abandoned` are history variables), *Searching* (one step for each entry of a walk), *DiffPreview* (one
step for each operation found and each one grouped), *FilePermissions* (a walk
over a tree whose own changes decide what it can still enter).

**Services** joins the parts around the storage: *LRUList*, *ConversationHistory*,
*LazyLoading*, *MemoryMonitor*, *Configuration* (merge, validation, updates,
listeners, watcher), *ConfigFiles* (`store`: profiles and environments;
`migration`) and *Transfer* (`export`: a file written and read again; `backup`:
archives).

Composing disjoint parts under one variable gives each the same state space it
has by itself; a part at rest has one initial state. The files of the parts
are written so that each could be checked alone.

The `MC…` modules give TLC its small sets; the runs of LRUList, CacheLocks,
Migrations, BackgroundPersistence and MessageFlow need none beyond their cfg.
The `…_proofs` modules hold the theorems of section 6.

## 3. The runs

| run | checks | bounds and why they suffice |
|---|---|---|
| `storage_faults` | `IInv` | two callers that both refresh, two ids, a cache of one: every put of the other id evicts; three saves give overwritten, deleted and rewritten rows; an auto-save at every save (every second one in `storage_repository`); faults and crashes on |
| `storage_repository` | `ImplementsRepository`, `CallsReturn` | the same without refreshes and faults (a refresh may install an older snapshot, a half-written save is visible), under fairness |
| `lru_two_readers` | `RingIntact`, violated | two readers |
| `migrations` | `IInv`, `ReadyAtTarget`, `ReadyIsBuilt` | the code's two migrations, one or two instances, five version rows: a rollback and a repeated migration by each |
| `cache` | `CacheIsConsistent`, `EvictionFollowsPolicy` | four conversations for three places, two sizes, limits that one, two or three entries exceed, the three policies |
| `locks_get_stats` | `CallsReturn`, violated | two callers |
| `persistence` | `OperationsAreKept`, `EverythingEnds` | with and without batching; two saves fill a queue and a batch of two; one retry; one delete and one update; one Start |
| `workflow` | `NoTrackerLeaks`, `ResultsAreReturned`, `RunsEnd` | two calls and a user retry with two attempts each: up to four operations wanted at once for two places, six in all for five |
| `flow` | `ScreenFollowsMessages`, `MessagesEnd` | three messages, one at a time or overlapping |
| `security` | `LogIsKept`, `ThreatsAreSeen`; `OvershootBounded`, `LimitsAreKept`, `InvalidIsBlocked`; `RunsOnItsOwnLine`; `RunsAndWatchersEnd`; `OutputIsComplete` | three events for a channel of two and files of two of which one old one is kept, three seconds of analyses every second; two callers for a limit of one in four strategies and scopes; two prompts, two lines, two readers; three runs of two executors; a pipe of one line, a limit of two, four lines |
| `tools` | `TextIsKept`; `BackupsCoverChanges`; `WatchesFollowTheTree`; `EndedIsNotPending`; `SearchesAreRight`; `PreviewIsExact`; `UnchangedIsReported` | two calls and two failures or crashes; three backups of two files where one of each is kept (each with a name of its own: the shared names make the run too long, and the theorem is about them too); three comings and goings of two directories with a queue of two and a buffer of one; three operations for two memories of two over one log, with a failure, a crash or an overlap; eight trees of six entries with three queries; texts that differ within the look-ahead and beyond it (length 5 in all, look-ahead 3, context 1); two calls on a tree of four |
| `services` | `RingIsRecency`; `ScreenFollowsStorage`; `ShutdownDrains`; `LimitFollowsPressure`; `ChangesArrive`, `SavedLoadsAsSaved`; `ProfilesMatchFiles`, `OriginalIsKept`; `RoundTripKeepsConversations`, `BackupSurvives` | four keys for three places: moves from front, middle and back; three conversations of which a reload shows two; three requests for a queue of two; three samples at four levels, two starts; two listeners, two updates and one write of a file during them; three operations on profiles; two files migrated within two seconds, also from a file that was migrated before; two conversations with seven texts that look like the formats or begin and end with blanks, one without an identifier, and files cut short; five seconds of archives with a limit of two |

The named conjunctions collect invariants that one question asks for; where a
run lists no `TypeOK`, its first invariant has it as a conjunct or the type is
implied by the actions' domains.

Bounds that cut a behaviour are named constants, marked "bound" where they are
declared. Deadlock is checked where the system never stops (`lru_two_readers`,
`cache`); elsewhere the bounded inputs run out, or the instances and goroutines
end, and the run says so. `SavedLoadsAsSaved` is stated of steps, not of
states, so that it is evaluated only where the configuration or the global
file changes.

The violation run of the cache's locks is all that is left of `CacheLocks` in
the runs; with three callers every call returns unless a GetStats and an
update of the statistics cross, which is the order this run exhibits.

Each property of a passing run has a mutant beside the definition it changes
(comments "Mutant: …"): an early unlock, a dropped reset, a swapped comparison,
an eviction too few. Each one breaks its property.

## 4. Where the code falls short

Two of these are runs whose violation TLC finds:

- **Two readers break the LRU list** (`lru_two_readers`, `manager.go:174`): Get
  calls `MoveToFront` under `RLock`.
- **GetStats and Get wait for each other** (`locks_get_stats`, `cache.go:289`):
  the statistics' lock and the cache's are taken in opposite orders.

The others are in the modules as what the code does, and the properties state
what is left, in their comments too:

- A delete on a pooled connection without the foreign-key pragma
  (`database.go:49`) leaves the tool executions of the row
  (`StorageManager!CascadeOutcomes`).
- No loop over rows asks `rows.Err()` (`manager.go:640`, `:699`): a statement that
  fails in the middle gives a record with fewer tool executions, or fewer
  conversations, which is returned as a success and cached (`Readings`,
  `RowsRead`). `CacheCoherent` says that this is all such a record can lack.
- `RefreshCache` reads before it locks, so a save in between is missing from
  the cache it installs (`RefreshRead`, `RefreshLock`); `SnapshotsCurrent`
  bounds the difference to the ids written since.
- `PutTool` and the Put of a cached conversation evict nothing, and `PutTool`
  of a cached execution accounts for the old size (`cache.go:208-218`).
- Stop leaves the queues as they are; a second Start runs on closed channels
  and the Stop after it panics (`background_persistence.go:155,194`); priority
  is never read; a batch whose commit fails calls back twice.
- A user retry that answers after the run set the status does not change it,
  and one that answers before the run has published its results is lost
  (`tool_execution_workflow.go:587-591`); a cancelled run leaves its state
  (`:159`); `defer tracker.Close()` in the loop (`:276`) makes a call with
  three retries exhaust a limit of three by itself.
- A failed reload keeps the old selection over no blocks
  (`conversation.go:159`); a reload reverses the order of the blocks, though the screen
  scrolls to the last as the most recent (`ui/model.go:126`); the
  expanded flag is not stored; the status of a conversation outside the recent
  ones is silently not updated.
- Two overlapping messages can lose a block (`conversation.go:134`); the end of
  the tools leaves the processing mark (`model_animation.go:159`) and calls the
  message completed whatever the results are (`:164`); the id made
  at `message_processor.go:61` matches no block, so status and response of a
  message never reach its block.

Security:

- Audit log: a rotation that fails leaves a closed handle, and events are lost
  until the next check (`SecurityAudit!RotateLogFile`, `gone`); Close leaves
  what is in the channel unwritten.
- Threat detection: an alert about privilege escalation is an event that every
  later analysis takes for another one; indicators are keyed by kind and
  second, so that two of a second are one; the window of a brute force is
  compared with itself; a low finding lowers the risk of a review
  (`ReviewsReflectThreats` says how far).
- Rate limiter: check and take are two steps (`OvershootBounded` says by how
  many a limit may be passed); the leaky bucket notes the time at each
  request, so that requests closer together than the leak never leak ("steady
  leak rate", `ratelimiter.go:546`); a scope counts a violation though another
  one refused; the cleanup deletes what it listed without looking again.
- Policies: the answers to violations are registered as "rate_limit" and
  "resource_limit" and looked up as "access_control" and
  "resource_management" (`policy_enforcer.go:565`, `:671`, `:860`), so none is
  found; the time rule is disabled and its check says no always.
- Confirmation: a reader whose prompt timed out goes on (`confirmation.go:130`):
  it takes the next line, or shares the unlocked buffer with the reader of the
  next prompt, so that one line may answer two prompts; `RunsOnItsOwnLine`
  promises a line of its own only until then. A line typed ahead answers the next prompt;
  "Review Details" counts as approval; an answer is matched by substring, so
  that "n" or "d" chooses "Allow (I understand the risks)".
- Sandbox: a process between its start and `startProcessMonitoring` survives
  `KillAllProcesses`; the output is read while it may be written. Resource
  monitor (`monitor.go:260`, not modelled): Stop closes the channel that the
  sampling may send on, and a second Stop panics.
- Shell tool: a reader that stops at its limit, or at a line beyond 64 KB,
  leaves the command blocked on a full pipe until its time limit; a descendant
  that holds the pipe keeps the call past it.

File tools:

- Backups named `.bak.<second>` of one second overwrite each other; a
  replacement of whole words drops the text it skips (`file_ops.go:1209`,
  against "Match whole words only", `:867`); files are read, changed and
  written without a lock.
- `BackupMetadata` has unexported fields only, so its file holds `{}` and a
  new manager finds no backup (`file_backup.go:634`); a restore that first
  makes a backup may evict the one it restores; identifiers are seconds.
- Paths that are sanitized to one name (`/x/a_b/f` and `/x/a/b/f`,
  `file_backup.go:556`) overwrite and delete each other's backups; the ignored
  errors of closing the compressor and the copy (`:420-424`) list a copy that was cut
  short; a failing `saveMetadata` (`:203`) reports an error for a backup that is listed.
  `ListedBackupsAreIntact` is about the other backups, and
  `BatchChangesAreBackedUp` about what is listed in any case.
- A batch rename overwrites its targets, a copy of a file onto itself cuts it;
  a batch replacement of an empty text without regard to case never ends
  (`multi_file_ops.go:152`).
- `parsePermissions` takes a mode with a digit that is not octal
  (`file_ops.go:2287`); a recursive change looks for danger at its root
  only, closes its own directories with 644, and succeeds when cancelled.
- Watcher: the `break` in getEvents leaves the select only, processEvents
  takes from the same buffer, a first scan may fill it and block; directories
  made within a new one before it is watched are missed; a debouncer's fired
  timer deletes its successor; Start after Stop does nothing, a second Stop
  panics. The errors of `watcher.Add` are dropped (`file_watch.go:258`, `:464`), at
  the kernel's limit of watches say, and so is what an overflow of its queue lost
  (`:369`): those directories stay unwatched (`missed`), and nobody is told.
- Audit trail: a cleanup removes entries from memory and the merge brings them
  back (`audit_trail.go:529`, `:234`); StartOperation does not keep to
  `maxEntries`. There is no lock and the audit tool has a trail of its own
  (`:339`): its cleanup writes the entries as it has loaded them, so that an
  operation that has ended is pending again in the log until the other trail
  writes; a flush may read a log that is being written, which then counts as
  empty (`:230`), and so loses what is in no memory; overlapping calls of one trail race on its
  slice. `EndedIsNotPending` says which entries that leaves out (`unlogged`,
  `abandoned`).
- Searching: the directory walk stops at the limit before the results are
  sorted; the tree filters by one root and ignores by another. Diff: counts
  miss lines that begin with `++` or `--`, and context lines can come twice.

Services:

- Lazy loading: the content is a TODO, so a load always fails; a request is
  counted after it is sent, so that Shutdown may succeed with one left
  (`ShutdownDrains` leaves that out); a request after Shutdown panics; two
  callers make two objects of one conversation.
- Memory monitor: a second Start finds the channel closed, and the Stop after
  it closes it again; the limit never rises again when the pressure falls.
- Configuration: flags are always merged, so a file that does not mention one
  clears it (`loader.go:105`, though `:103` says that only non-zero values are
  applied), and no file can set a number to 0; UpdateConfigField calls
  listeners under the mutex and UpdateConfig after it, so two updates may be
  told in the wrong order; RegisterCallback appends without a lock
  (`runtime.go:78`), so that of two registrations that overlap one is lost
  (`EveryListenerIsTold` is about the others); a reload may read a file that is
  being written (`WritesAreReloaded` says that a later one follows); a global file
  that cannot be parsed ends the reload before the local file is read
  (`loader.go:25-30`), and nothing reads it again before the next write (`barred`);
  started after Stop, the watcher ends at once (`runtime.go:122`); files that are replaced
  by renaming, or absent at first, are not watched; a wrong override in the
  environment leaves a map half applied in random order.
- The package does not compile at this commit: `ValidationError` is declared at
  `validator.go:20` and at `migration.go:495`, and `migration.go:7` imports
  `strconv` without using it. The modules are about the code as it would run with
  one of the two types renamed.
- Migration: a form without versions loses its settings, a versioned file
  loads as defaults only, saving writes it unversioned; two backups of one
  version and second are one file. Profiles: an imported one is not saved, one
  cut by a failed write loads without a name.
- Export and import: the Markdown import never parses the time (two trailing
  blanks), drops or misreads text that looks like the format, and takes the
  tools for a part of the response; CSV turns a written `\n` into a line's
  end and drops tools; an empty identifier comes back as a new one, blanks around a
  text are gone after Markdown, and so is the CR of a line's end. The errors of writing
  Markdown lines and of the last flush of a table are dropped (`export.go:244-310`): a
  file that is cut short is a success, and only a file written to its end is promised to
  come back. Options of the import are never read. Archives that failed count for the
  limit, and the errors of closing one are dropped (`backup.go:71-79`): an archive that
  is not whole is reported as made, after older ones were removed for it, which is one
  of the four ways `BackupSurvives` allows the last one to go. The dialogue is a placeholder, and its two calls
  of WithDateRange leave the last only.

## 5. Fairness

- `storage_repository`: weak fairness of each call's own next step. A
  goroutine inside a call runs, the database answers, a write lock is not
  starved (Go's RWMutex lets a waiting writer in before new readers). Nothing
  is assumed of new calls, of crashes or of faults.
- `locks_get_stats`: strong fairness of each caller's step, since a lock may be
  free and taken again in between; the starvation mode of `sync` hands it over.
- `persistence`: weak fairness of each goroutine, none of a case of its select
  against another and none of Start, Stop or the submitters.
- `workflow`: weak fairness of runs, calls and retriers: `router.Execute` has a
  time limit, a back-off is a timer, a prompt is answered or times out. None
  of cancellation or of the user.
- `flow`: weak fairness of each chain: the provider's HTTP client has a time
  limit and Bubble Tea delivers every message. None of the user.
- `security`, `tools`, `services`: none; their properties are of safety. In
  ThreatDetection the clock does not pass a second in which an analysis is due
  or one is in progress, which stands for analyses that take less than their
  interval.

## 6. The proofs

Each theorem holds for every value of the constants that satisfies the named
assumption of its module (`StorageAssumption`, `MigrationAssumption`,
`ExecutorsAssumption`, `LimitsAssumption`, `BackupsAssumption`, …), which TLC
evaluates in the runs. A theorem that needs more says so in its statement. The
argument is always the same: an invariant `…Inv` that holds at the start and is
kept by each action (one lemma for each action, or for a helper that several
actions share), and that implies the property.

| theorem | the property needs beside itself |
|---|---|
| **StorageManager_proofs** `Invariance`; `TypeCorrect`, `LruCorrect`, `CacheCorrect`, `SnapshotsCorrect` | `ReadsFit`: a put keeps the cache coherent because what a reader carries is current, it is current because the locks keep writers out while `pc` says so, and a refresh installs a well-formed cache because what it read is short and without duplicates |
| `ManagerIsRepository` | `NothingStale`: nobody who could leave a stale entry is at work |
| **CacheAndMigrations_proofs**, of Migrations: `Invariance`; `VersionCorrect` | `BuiltInOrder`, `RowsInTable`: a migration finds below it what its row will claim, and a dropped version table has no rows |
| `SuccessIsBuilt` | `Passed`: what the loop of an instance has skipped was built when it read the version, and what it has applied is built, until another one drops the tables |
| `AloneReachesTarget` | `OnItsWay`: the recorded version is what an instance read until its loop has passed that, and the last migration it applied from then on |
| the same, of ConversationCache: `CacheStaysConsistent` | `CacheInv`: each list has the ids of its map, each once, so that its length is their number; what `Unlisted` and `SizeOf` return, whatever the order in which the sizes are added |
| `CacheEvictionFollowsPolicy` | `Loop`: what the iterations so far have left differs from the cache they began with as the policy says (`Evicting`), which two iterations one after the other keep (`EvictingOn`), and an iteration that does not go on is `Done` |
| **ToolWorkflow_proofs** `Invariance`; `TypeCorrect`, `LimitHolds`, `TrackersAreClosed` | an executor inside a call has a call and a conversation, its attempts are bounded, the set of operations is finite |
| `RunsReturnTheirResults` | `ResultsInOrder`, `AtItsCall`, `RecordedAtEnd`, `StatusKept`: the call a run is in is the first without a result |
| **BackgroundPersistence_proofs** `AcceptedOperationsAreKept` | `OnePlace`, `EachOnce`, `Kept`, `CountsFit`: an operation is in one queue, batch or hand at most, there once, and where it is says how many callbacks it can have had |
| **MessageFlow_proofs** `MessagesShowOnScreen` | `SlicesHold`: every copy of the slice holds blocks of messages that were written, each once; `OneAtATime`: while messages do not overlap, what a chain has read of the slice still is the slice |
| **Security_proofs** `LimitsAreOvershotByCallersOnly` | the types of entries and calls, and that the scopes of a call differ: a call that takes its token leaves the set of those cleared, so that count and set move against each other |
| `LimitsHold` | that bringing an entry up to date never counts more requests nor ends a backoff, and clears a fixed window for a later one only; the length of a backoff is a number whatever the violations |
| `InvalidRequestsAreBlocked` | an evaluation that goes on has met no blocking rule, and the rules it began with are in hand or done |
| `CommandsRunOnTheirLine` | `RequestsDiffer`, `LinesDiffer`, `LinesAnswerOnce`: a line is in one place, typed, with one reader or as the answer of one request, as long as no two readers have shared the buffer; a torn read answers like a line |
| `SandboxEndsWhatItStarts` | `WatchedAreOpen`; the runs in progress are a finite set, whose size the counters account for |
| `ShellReturnsItsOutput` | `LinesAreSomewhere`: written is kept plus in the pipe, until a reader has stopped |
| `EventsAreKept` | `Places`: every id is in the channel, in a file or gone, and each place tells its ids apart; `Directory`: the open file has the highest name; `Spared`: every name chosen for removal is below it, so that a file made after a listing is newer than all that were chosen, and removing one leaves enough newer ones for the others |
| `ThreatsAreNotMissed` | `Followed`: how far an event is at each stage of an analysis: read before the last tick's interval, or in a listed file within the time searched, or of this second; a review's mean, by its four cases |
| **Services_proofs** `ShutdownIsHonest` | `WaitOnce`, `LoadsOne`, `PendingCounts`: the queue is as long as the counter says plus the requests not yet counted |
| `PassesSetTheLimit` | `PassSetsLimit`: which strategies the pass is beyond |
| `ChangesReachListeners` | `RegistryInv`, `TellsItsOwn`, `ToldOnce`, `ToldOrOwed`: a registration that nothing overlapped is in the list of callbacks and in every copy that will be written back; of every change since then a listener was told, or an update owes it |
| `SavedConfigurationsLoad` | `Whole`: no section or field is lost from a configuration or from one on its way there |
| `ProfilesAreWhatIsStored` | none; it is inductive with what a load of the files finds |
| `MigrationsKeepOriginals` | `BackupFirst`: a file is cut only when its original is in a backup |
| `TheScreenIsStored` | `AddedInOrder`: timestamps differ, so that LoadRecent finds one conversation for each place; a block was added and is there once (`Different`) |
| `RingOrdersByUse` | `RingInv`: while a reader moves a key, its neighbours and the ring of the other keys are as its next assignment expects them (`Moving`, one conjunct for each of the six) |
| `SomeBackupSurvives` | `BackupIsNewest`, `ArchivesKept`: the one being made is the newest, so that the removal of the oldest stops short of a complete one |
| `ExportsComeBack` | `ExportIsWritten`: the file, when it was written to its end, is what an export writes of some selection. Its lemmas follow the Markdown parser over the lines of one conversation, with any lines before them (`LinesComeBack`), and then over conversations (`MarkdownComesBack`); a table row by row (`TableComesBack`) |
| **FileTools_proofs** `WatchersFollowDirectories` | `NoneForgotten`: a directory that is not watched is in the walk, in the queue or in the watcher's hand, or was missed; `RootFirst`, `KernelWatches` |
| `UnchangedEntriesAreReported` | `WalkedInOrder`: whatever comes before the entry the walk is at is changed or reported |
| `BackupsKeepWhatChanges` | `VersionsDiffer`: backups listed of a file lie in different files on disk, since a new version is above them all; `EditsAreCovered`: each file of an edit has its backup or is still to get one; `DeletesOrKeeps` |
| `EndedOperationsAreLogged` | `PendingInMemory`, `PendingInLog`: a running operation that the log shows as pending is in memory too, where its end will be entered, or was until a call that has not written yet, unless it is told apart; `PendingInFlush`: the same of what a call has read and merged and is about to write, whatever the other trail writes meanwhile; `Identified`: entries are told apart by their identifiers, of which the next one is new |
| `TextIsNotLost` | `TextIsSomewhere`: what the copy holds while the file is open, written or restored |
| `SearchesFindWhatIsThere` | `Sound` and the set in `GreedyIsComplete`: after p characters the places found fit the first characters of the query, and are at least as many as any other places up to p that do; `CountedSoFar`: the walk goes on below the limit only; `FoundUpTo`: what was found among the files up to an entry, which a file more extends (`OneFileMore`); a line with the query has a match (`LineMatchesFinite`) |
| `EditsAndFailuresKeepText` | what splitting and joining do: joining the lines of a text gives the text behind any other lines (`SplitAndJoined`), splitting joined lines gives the lines (`JoinedAndSplit`); `Scanned`: what performReplace has written is as long as what it has read and its changes make it, and it ends within as many steps as the text is long (`ReplaceEnds`) |
| `PreviewsAreExact` | `SpellsFrom`: what each branch of computeDiff adds spells the lines it passes, and two such runs of operations spell the lines of both; `OpenForAChange`: a hunk stays open only for a change to come, and none is opened before all lines are compared |

Hypotheses. `ManagerIsRepository` assumes `UsedPlainly`: nobody calls
RefreshCache, records have no tool executions and statements succeed. That is
how the run checks it, and outside of it the refinement is false: section 4
says what a refresh installs, what a half-written save shows and what the
pragma leaves. `SavedConfigurationsLoad` assumes that the absence of a file is
not the contents of one (`NoFileIsEmpty`); `ProfilesAreWhatIsStored` that
profiles have names (`Named`), for a file that was cut loads as a profile
without one; `RingOrdersByUse` that there is one reader at a time (`OneReader`), as
in the run `services`: with two the ring breaks, which the run
`lru_two_readers` shows. In each of these the model's constants are what the hypothesis
is about, not a state of the program. `ThreatsAreNotMissed` assumes
`[]NotFlooded`: the log never holds more events of two intervals than an
analysis returns, a thousand in the code; of more the oldest go unread. It is
about every state, holds in the run `security` because its bound `MaxEvents` is
below `SearchLimit`, and leaves open how many events there are in all.

What attempts at proofs changed in the models: some CASEs had guards that
overlap, which TLC resolves by the first and TLA+ does not
(BackgroundPersistence); a `None` that could have been a history, and file lists
that could be empty, had to be ruled out by assumptions that the code justifies
(Transfer, FileBackups); Confirmation, the rate limiter and the list of backups
were written with operators of the standard module Sequences that a prover
cannot expand, and now use sets; so do the audit trail and the audit log. For the same reason the
history orders conversations by their timestamps and takes out a block by its
index, LRUList walks the ring by a recursive function, and the conversation cache evicts
by one. The search tools walk lines and names from the left in the same way, and
put matches in order by counting those before each; a diff preview counts the operations
of a type where it selected them. Splitting a text into lines, joining lines and
replacing occurrences walk from the left as well, where they sorted, folded and
recursed from the end; so do the selection of conversations and the loop of the Markdown
parser. `TransferAssumption` now says what a conversation is made of, and the empty string
has a name (`NoValue`), since the SMT backend has no encoding of its literal.

Induction over data is out of reach as a rule of the library, since it takes an
operator as a parameter. For numbers there is a way around: `LeastNatural` of
FileTools_proofs says that a set of natural numbers that is not empty has a
least one, and a counterexample to a claim about a recursive function is
refuted at the least number it has (`AncestorsDefined`, `AncestorsComeFirst`, and
`WalkDefined`, `WalkMeets` of Services_proofs). In the same way
CacheAndMigrations_proofs shows that a recursion along the naturals defines a function
(`RecursionDefined`; FileTools_proofs has the same for a step that depends on the
place, with `InductionUpTo`, and `InductionAppend` for what holds of every sequence), and that what holds of the empty set and of each set when
it holds of that set without any one element holds of every subset of a finite
set (`SubsetInduction`): so does a sum whose terms CHOOSE takes out one by one.

Only model-checked:

- All liveness, by WF or SF: `CallsReturn`, `EverythingEnds`, `RunsEnd`,
  `MessagesEnd`. Fairness and ENABLED are beyond the proof system.

Every invariant and every action property of a passing run is also what a theorem
states.

## 7. What is left out

- Metrics counters and logs, and the data races on them.
- The contents of records: a version number stands for a conversation, a size
  for its bytes, an outcome for a tool's result; a line or a few characters for
  a text.
- In MessageFlow a slice is read whole; that a reader may see the length of one
  header with the array of another is not modelled.
- In ToolWorkflow trackers have distinct ids; the code makes them from the time
  in nanoseconds. The wrapped commands `tea.Sequence(...)()` at lines 142 and
  313, whose message nobody runs, change no state and are left out.
- The crash model of StorageManager is the end of the process; SQLite keeps
  its committed statements.
- Start of BackgroundPersistence is checked once; a restart is in the module
  (`MaxStarts`) and described in section 4.
- Audit log: statistics, exports, checksums, and events whose line is longer than the
  64 KB of a `bufio.Scanner`: `searchInFile` does not look at `scanner.Err()`
  (`audit.go:687-700`), so that one of them hides the rest of its file from an
  analysis. Threat detection: behaviour
  baselines and the placeholders; alerting is on and every indicator is
  confident enough. Rate limiter: SetConfig, metrics and the adaptation of the
  adaptive limit. Policies: stored violations and lists of patterns.
- Configuration: the list of callbacks is read and written whole; the arrays that
  overlapping appends share are not modelled. One StartFileWatching at a time.
- Edits of a file: characters whose lower case has another length in bytes, for which
  `performReplace` cuts the text at the wrong places (`file_ops.go:1188-1191`).
- Migration of the first version embeds a document in a mapping, which the encoder
  probably refuses (`migration.go:289-295`): that success is more than the code may do,
  and its failure is among the steps of the model.
- File watcher: one level of subdirectories. Backups: one manager on a
  directory. Archives: one instance of the program. Export: one file in each
  behaviour. Profiles: no files that the user puts there.

Not modelled at all, and why:

- Validation of commands and paths, git, syntax and metadata tools, the LLM
  client, the detection of a project: functions of strings or of the outside,
  without state between calls that two actors could disturb (the detector's
  cache is a map under one mutex).
- Input line, rendering, themes, shortcuts, tooltips, help: sequential code
  over one value, whose correctness is how it looks.
- Storage metrics and indexing: statistics under one mutex, and queries.
- The sampling of the resource monitor and the permission table of the router:
  left for a later extension.

## 8. Plan

What the runs check of safety is proved. Later extensions of the models: the
resource monitor's sampling and alerts, the retries of the LLM client,
ConversationHistory over StorageManager in place of its reliable or failing
storage, several scopes of the rate limiter at once.
