------------------------ MODULE BackgroundPersistence ------------------------
(***************************************************************************)
(* internal/storage/background_persistence.go: the queues of the           *)
(* BackgroundPersistenceManager, the worker goroutines and the batch       *)
(* processor that compete for them, retries, callbacks, Start and Stop.    *)
(*                                                                         *)
(* The operations are about one conversation; its presence in the cache is *)
(* all that is kept of ConversationCache.  Saving writes nothing in this   *)
(* version of the code ("TODO: Implement SaveConversation"), so an attempt *)
(* fails exactly when the operation is invalid: of an unknown type, or of  *)
(* a type its data has not.  The tickers that only copy queue lengths into *)
(* metrics (flush, collectMetrics) are left out.                           *)
(***************************************************************************)
EXTENDS Integers, Sequences, SequencesExt, FiniteSets

CONSTANTS SaveOps, DeleteOps, UpdateOps,  \* operations that may be submitted
          WorkerCount, QueueSize, BatchSize, MaxRetries,
          BatchQueueSize, \* the capacity of batchSaveQueue, 100 in the code
          MaxStarts       \* bound: calls of Start that succeed

ASSUME PersistenceAssumption ==
    /\ {WorkerCount, QueueSize, BatchSize} \subseteq Nat \ {0}
    /\ MaxRetries \in Nat /\ BatchQueueSize \in Nat /\ MaxStarts \in Nat

Ops == SaveOps \cup DeleteOps \cup UpdateOps

\* Each Start begins WorkerCount workers and, with batching, a batch
\* processor, numbered 0.
Starts == 1..MaxStarts
Workers == Starts \X (1..WorkerCount)
Processors == Starts \X {0}
Goroutines == Workers \cup Processors

VARIABLES
    enableBatching, \* config.EnableBatching, which never changes
    data,        \* "new" before an operation is accepted, "valid", "invalid"
    attempts,    \* AttemptCount
    answers,     \* callbacks made: [ok, failed]
    saveQueue, deleteQueue, updateQueue, batchSaveQueue,
    at,          \* where each goroutine is
    hand,        \* the operations each goroutine has to process
    pendingBatch,
    leaving,     \* batch processors that flush their last batch and return
    cached,      \* is the conversation in the cache?
    lastCall,    \* the last operation on the conversation that was asked for
    running, closed,   \* closed: shutdownCh
    starts,
    panicked

queues == <<saveQueue, deleteQueue, updateQueue, batchSaveQueue>>
control == <<running, closed, starts, panicked, enableBatching>>
callers == <<data, lastCall>>
vars == <<callers, attempts, answers, queues, at, hand, pendingBatch, leaving,
          cached, control>>

Init == /\ enableBatching \in BOOLEAN
        /\ data = [o \in Ops |-> "new"]
        /\ attempts = [o \in Ops |-> 0]
        /\ answers = [o \in Ops |-> [ok |-> 0, failed |-> 0]]
        /\ saveQueue = <<>> /\ deleteQueue = <<>> /\ updateQueue = <<>>
        /\ batchSaveQueue = <<>>
        /\ at = [g \in Goroutines |-> "none"]
        /\ hand = [g \in Goroutines |-> <<>>]
        /\ pendingBatch = [g \in Processors |-> <<>>]
        /\ leaving = {}
        /\ cached = FALSE
        /\ lastCall = "none"
        /\ running = FALSE /\ closed = FALSE
        /\ starts = 0
        /\ panicked = FALSE

Answer(o, how) == answers' = [answers EXCEPT ![o][how] = @ + 1]

-----------------------------------------------------------------------------
\* Start does not make a new shutdownCh: after a Stop, the goroutines find
\* the old one closed.
Start == /\ ~panicked /\ ~running /\ starts < MaxStarts
         /\ running' = TRUE
         /\ starts' = starts + 1
         /\ at' = [g \in Goroutines |-> IF g[1] = starts + 1 /\ (g \in Workers \/ enableBatching)
                                     THEN "select" ELSE at[g]]
         /\ UNCHANGED <<callers, attempts, answers, queues, hand, pendingBatch, leaving,
                        cached, closed, panicked, enableBatching>>

\* Stop; closing a closed channel panics.  It then waits for the goroutines
\* or for its context, and returns: nothing depends on which.
Stop == /\ ~panicked /\ running
        /\ running' = FALSE
        /\ panicked' = closed
        /\ closed' = TRUE
        /\ UNCHANGED <<callers, attempts, answers, queues, at, hand,
                       pendingBatch, leaving, cached, starts, enableBatching>>

\* SaveAsync asks nothing of the manager but room in the queue.  Through
\* SaveConversationAsync the conversation is cached first, accepted or not.
SaveAsync(o, d, viaConversation) ==
    /\ data[o] = "new"
    /\ \/ /\ Len(saveQueue) < QueueSize
          /\ saveQueue' = Append(saveQueue, o)
          /\ data' = [data EXCEPT ![o] = d]
       \/ /\ Len(saveQueue) >= QueueSize
          /\ viaConversation      \* otherwise a refused call changes nothing
          /\ UNCHANGED <<saveQueue, data>>
    /\ cached' = (cached \/ viaConversation)
    /\ lastCall' = IF viaConversation THEN "save" ELSE lastCall
    /\ UNCHANGED <<attempts, answers, deleteQueue, updateQueue, batchSaveQueue,
                   at, hand, pendingBatch, leaving, control>>

\* A call of an unknown type, or with other data, asks nothing of the conversation.
DeleteAsync(o, d) ==
    /\ data[o] = "new"
    /\ Len(deleteQueue) < QueueSize \div 2
    /\ deleteQueue' = Append(deleteQueue, o)
    /\ data' = [data EXCEPT ![o] = d]
    /\ lastCall' = IF d = "valid" THEN "delete" ELSE lastCall
    /\ UNCHANGED <<attempts, answers, saveQueue, updateQueue, batchSaveQueue, at,
                   hand, pendingBatch, leaving, cached, control>>

UpdateAsync(o, d) ==
    /\ data[o] = "new"
    /\ Len(updateQueue) < QueueSize \div 2
    /\ updateQueue' = Append(updateQueue, o)
    /\ data' = [data EXCEPT ![o] = d]
    /\ lastCall' = IF d = "valid" THEN "update" ELSE lastCall
    /\ UNCHANGED <<attempts, answers, saveQueue, deleteQueue, batchSaveQueue, at,
                   hand, pendingBatch, leaving, cached, control>>

\* BatchSave of operations: one entry of batchSaveQueue or, without batching,
\* one SaveAsync after the other until the queue is full.
BatchSave(operations, d) ==
    /\ \A i \in DOMAIN operations : data[operations[i]] = "new"
    /\ LET room == QueueSize - Len(saveQueue)
           accepted == CASE enableBatching -> operations
                         [] Len(operations) <= room -> operations
                         [] OTHER -> SubSeq(operations, 1, room)
       IN /\ IF enableBatching
             THEN /\ Len(batchSaveQueue) < BatchQueueSize
                  /\ batchSaveQueue' = Append(batchSaveQueue, operations)
                  /\ UNCHANGED saveQueue
             ELSE /\ saveQueue' = saveQueue \o accepted
                  /\ UNCHANGED batchSaveQueue
          /\ data' = [o \in Ops |-> IF o \in ToSet(accepted) THEN d ELSE data[o]]
    /\ UNCHANGED <<attempts, answers, deleteQueue, updateQueue, at, hand,
                   pendingBatch, leaving, cached, lastCall, control>>

-----------------------------------------------------------------------------
\* worker, in its select.
TakeSave(w) ==
    /\ w \in Workers /\ at[w] = "select" /\ saveQueue # <<>>
    /\ hand' = [hand EXCEPT ![w] = <<Head(saveQueue)>>]
    /\ saveQueue' = Tail(saveQueue)
    /\ at' = [at EXCEPT ![w] = "save"]
    /\ UNCHANGED <<callers, attempts, answers, deleteQueue, updateQueue,
                   batchSaveQueue, pendingBatch, leaving, cached, control>>

Outcome(o) == IF data[o] = "valid" THEN "ok" ELSE "failed"

\* processDeleteOperation
TakeDelete(w) ==
    /\ w \in Workers /\ at[w] = "select" /\ deleteQueue # <<>>
    /\ deleteQueue' = Tail(deleteQueue)
    /\ cached' = (cached /\ data[Head(deleteQueue)] # "valid")
    /\ Answer(Head(deleteQueue), Outcome(Head(deleteQueue)))
    /\ UNCHANGED <<callers, attempts, saveQueue, updateQueue, batchSaveQueue, at,
                   hand, pendingBatch, leaving, control>>

\* processUpdateOperation
TakeUpdate(w) ==
    /\ w \in Workers /\ at[w] = "select" /\ updateQueue # <<>>
    /\ updateQueue' = Tail(updateQueue)
    /\ cached' = (cached \/ data[Head(updateQueue)] = "valid")
    /\ Answer(Head(updateQueue), Outcome(Head(updateQueue)))
    /\ UNCHANGED <<callers, attempts, saveQueue, deleteQueue, batchSaveQueue, at,
                   hand, pendingBatch, leaving, control>>

\* Mutant: shutdownCh is sent one value, which one goroutine receives.
ExitTakesSignal(w) ==
    /\ w \in Workers /\ at[w] = "select" /\ closed
    /\ at' = [at EXCEPT ![w] = "exited"]
    /\ closed' = FALSE
    /\ UNCHANGED <<callers, attempts, answers, queues, hand, pendingBatch, leaving,
                   cached, running, starts, panicked, enableBatching>>

ExitWorker(w) ==
    /\ w \in Workers /\ at[w] = "select" /\ closed
    /\ at' = [at EXCEPT ![w] = "exited"]
    /\ UNCHANGED <<callers, attempts, answers, queues, hand, pendingBatch, leaving, cached,
                   control>>

\* Done with the first operation in hand: on to the next one, back to the
\* select or, after the batch that the shutdown flushed, out.
Continue(g) ==
    /\ hand' = [hand EXCEPT ![g] = Tail(@)]
    /\ at' = [at EXCEPT ![g] = IF Len(hand[g]) > 1 THEN "save"
                               ELSE IF g \in leaving THEN "exited" ELSE "select"]

\* processSaveOperation: an invalid operation is tried again, RetryDelay
\* later, until it has had MaxRetries further attempts ...
ProcessSave(g) ==
    /\ at[g] = "save"
    /\ LET o == Head(hand[g]) IN
       IF data[o] = "invalid" /\ attempts[o] < MaxRetries
       THEN /\ attempts' = [attempts EXCEPT ![o] = @ + 1]
            /\ at' = [at EXCEPT ![g] = "retry"]
            /\ UNCHANGED <<answers, hand>>
       ELSE /\ Answer(o, Outcome(o))
            /\ Continue(g)
            /\ UNCHANGED attempts
    /\ UNCHANGED <<callers, queues, pendingBatch, leaving, cached, control>>

\* ... by way of the queue, if that has room; its caller is told each time.
Retry(g) ==
    /\ at[g] = "retry"
    /\ saveQueue' = IF Len(saveQueue) < QueueSize
                    THEN Append(saveQueue, Head(hand[g])) ELSE saveQueue
    /\ Answer(Head(hand[g]), "failed")
    /\ Continue(g)
    /\ UNCHANGED <<callers, attempts, deleteQueue, updateQueue, batchSaveQueue,
                   pendingBatch, leaving, cached, control>>

-----------------------------------------------------------------------------
\* batchProcessor, in its select: it collects single operations into a batch,
Collect(b) ==
    /\ b \in Processors /\ at[b] = "select" /\ saveQueue # <<>>
    /\ LET batch == Append(pendingBatch[b], Head(saveQueue)) IN
       IF Len(batch) >= BatchSize
       THEN /\ hand' = [hand EXCEPT ![b] = batch]
            /\ pendingBatch' = [pendingBatch EXCEPT ![b] = <<>>]
            /\ at' = [at EXCEPT ![b] = "begin"]
       ELSE /\ pendingBatch' = [pendingBatch EXCEPT ![b] = batch]
            /\ UNCHANGED <<hand, at>>
    /\ saveQueue' = Tail(saveQueue)
    /\ UNCHANGED <<callers, attempts, answers, deleteQueue, updateQueue,
                   batchSaveQueue, leaving, cached, control>>

\* takes whole batches,
TakeBatch(b) ==
    /\ b \in Processors /\ at[b] = "select" /\ batchSaveQueue # <<>>
    /\ hand' = [hand EXCEPT ![b] = Head(batchSaveQueue)]
    /\ batchSaveQueue' = Tail(batchSaveQueue)
    /\ at' = [at EXCEPT ![b] = "begin"]
    /\ UNCHANGED <<callers, attempts, answers, saveQueue, deleteQueue, updateQueue,
                   pendingBatch, leaving, cached, control>>

\* Mutant: the batch is not emptied.
BatchTimeoutKeepsBatch(b) ==
    /\ b \in Processors /\ at[b] = "select" /\ pendingBatch[b] # <<>>
    /\ hand' = [hand EXCEPT ![b] = pendingBatch[b]]
    /\ at' = [at EXCEPT ![b] = "begin"]
    /\ UNCHANGED <<callers, attempts, answers, queues, pendingBatch, leaving,
                   cached, control>>

\* processes what it has collected at each tick of batchTimeout,
BatchTimeout(b) ==
    /\ b \in Processors /\ at[b] = "select" /\ pendingBatch[b] # <<>>
    /\ hand' = [hand EXCEPT ![b] = pendingBatch[b]]
    /\ pendingBatch' = [pendingBatch EXCEPT ![b] = <<>>]
    /\ at' = [at EXCEPT ![b] = "begin"]
    /\ UNCHANGED <<callers, attempts, answers, queues, leaving, cached, control>>

\* and once more at shutdown.
ExitProcessor(b) ==
    /\ b \in Processors /\ at[b] = "select" /\ closed
    /\ hand' = [hand EXCEPT ![b] = pendingBatch[b]]
    /\ pendingBatch' = [pendingBatch EXCEPT ![b] = <<>>]
    /\ at' = [at EXCEPT ![b] = IF pendingBatch[b] = <<>> THEN "exited" ELSE "begin"]
    /\ leaving' = leaving \cup {b}
    /\ UNCHANGED <<callers, attempts, answers, queues, cached, control>>

\* processBatch.  In the transaction every operation succeeds, invalid ones
\* too, and the callbacks are made before it commits.
Begin(b) ==
    /\ at[b] = "begin"
    /\ answers' = [o \in Ops |-> IF o \in ToSet(hand[b])
                                 THEN [answers[o] EXCEPT !.ok = @ + 1]
                                 ELSE answers[o]]
    /\ at' = [at EXCEPT ![b] = "commit"]
    /\ UNCHANGED <<callers, attempts, queues, hand, pendingBatch, leaving, cached,
                   control>>

Commit(b) ==
    /\ at[b] = "commit"
    /\ hand' = [hand EXCEPT ![b] = <<>>]
    /\ at' = [at EXCEPT ![b] = IF b \in leaving THEN "exited" ELSE "select"]
    /\ UNCHANGED <<callers, attempts, answers, queues, pendingBatch, leaving, cached,
                   control>>

\* If the database refuses to begin or to commit, each operation of the batch
\* is processed by itself.
FailTransaction(b) ==
    /\ at[b] \in {"begin", "commit"}
    /\ at' = [at EXCEPT ![b] = "save"]
    /\ UNCHANGED <<callers, attempts, answers, queues, hand, pendingBatch, leaving,
                   cached, control>>

-----------------------------------------------------------------------------
\* SaveConversationAsync sets the type of its operation itself.
Submit == \/ \E o \in SaveOps, d \in {"valid", "invalid"} : SaveAsync(o, d, FALSE)
          \/ \E o \in SaveOps : SaveAsync(o, "valid", TRUE)
          \/ \E o \in DeleteOps, d \in {"valid", "invalid"} : DeleteAsync(o, d)
          \/ \E o \in UpdateOps, d \in {"valid", "invalid"} : UpdateAsync(o, d)
          \/ \E o1, o2 \in SaveOps, d \in {"valid", "invalid"} :
                 o1 # o2 /\ BatchSave(<<o1, o2>>, d)

Process(g) == \/ ProcessSave(g) \/ Retry(g)
              \/ Begin(g) \/ Commit(g) \/ FailTransaction(g)

Select(g) == \/ TakeSave(g) \/ TakeDelete(g) \/ TakeUpdate(g) \/ ExitWorker(g)
             \/ Collect(g) \/ TakeBatch(g) \/ BatchTimeout(g) \/ ExitProcessor(g)

\* A panic ends the program.
Next == \/ Start
        \/ Stop
        \/ ~panicked /\ Submit
        \/ \E g \in Goroutines : ~panicked /\ (Process(g) \/ Select(g))

Spec == Init /\ [][Next]_vars

\* A goroutine that can take a step takes one in the end.  No case of a select
\* is favoured: with the operations submitted there is an end to the choices.
FairSpec == Spec /\ \A g \in Goroutines : WF_vars(Process(g) \/ Select(g))

-----------------------------------------------------------------------------
Places == {"none", "select", "save", "retry", "begin", "commit", "exited"}

\* Type invariant; no queue and no count of attempts exceeds its bound.
TypeOK ==
    /\ data \in [Ops -> {"new", "valid", "invalid"}]
    /\ attempts \in [Ops -> 0..MaxRetries]
    /\ answers \in [Ops -> [ok : Nat, failed : Nat]]
    /\ saveQueue \in Seq(SaveOps) /\ Len(saveQueue) <= QueueSize
    /\ deleteQueue \in Seq(DeleteOps) /\ updateQueue \in Seq(UpdateOps)
    /\ batchSaveQueue \in Seq(Seq(SaveOps))
    /\ at \in [Goroutines -> Places]
    /\ hand \in [Goroutines -> Seq(SaveOps)]
    /\ pendingBatch \in [Processors -> Seq(SaveOps)]
    /\ leaving \subseteq Processors
    /\ {cached, running, closed, panicked, enableBatching} \subseteq BOOLEAN
    /\ lastCall \in {"none", "save", "delete", "update"}
    /\ starts \in 0..MaxStarts

Accepted(o) == data[o] # "new"
Answered(o) == answers[o].ok + answers[o].failed > 0

\* Where an operation is held: in a hand, in a batch, in a queue.
Positions(o, seq) == {i \in DOMAIN seq : seq[i] = o}
Holders(o) ==
    {<<"hand", g>> : g \in {h \in Goroutines : o \in ToSet(hand[h])}}
    \cup {<<"pending", b>> : b \in {c \in Processors : o \in ToSet(pendingBatch[c])}}
    \cup {<<"batch", i>> : i \in {j \in DOMAIN batchSaveQueue : o \in ToSet(batchSaveQueue[j])}}
    \cup {<<"save", i>> : i \in Positions(o, saveQueue)}
    \cup {<<"delete", i>> : i \in Positions(o, deleteQueue)}
    \cup {<<"update", i>> : i \in Positions(o, updateQueue)}

\* The types hold, and an accepted operation is in one place until its callback has been made,
\* and never in two: whoever takes, batches, retries or gives it up.
Conserved ==
    /\ TypeOK
    /\ \A o \in Ops :
        /\ Cardinality(Holders(o)) <= 1
        /\ ~Accepted(o) => Holders(o) = {} /\ ~Answered(o)
        /\ Accepted(o) /\ ~Answered(o) => Holders(o) # {}

\* A valid operation is never reported as failed, and as saved at most twice:
\* once in a transaction that then fails to commit.  An invalid one is reported
\* no more often than it is tried.
CallbacksBounded ==
    \A o \in Ops : /\ data[o] = "valid" =>
                        answers[o].failed = 0 /\ answers[o].ok <= 2
                   /\ answers[o].failed <= MaxRetries + 1
                   /\ answers[o].ok <= MaxRetries + 2

\* Unless it was updated, a conversation whose deletion was the last thing
\* asked for is out of the cache once everything accepted has been answered.
Quiet == \A o \in Ops : Accepted(o) => Holders(o) = {}
DeletedLeavesCache ==
    Quiet /\ lastCall = "delete" /\ (\A o \in UpdateOps : ~Accepted(o)) => ~cached

\* While the manager runs, an accepted operation gets its callback.
EachIsAnswered ==
    \A o \in Ops : Accepted(o) /\ running ~> Answered(o) \/ closed

\* After Stop every goroutine finishes what it has in hand and returns, those
\* too that a second Start has begun: they find shutdownCh still closed.  Only
\* the second Stop can interfere, which closes it again and panics.
StopCompletes ==
    closed ~> (\A g \in Goroutines : at[g] \in {"none", "exited"}) \/ panicked

\* An accepted operation is in one place until it is answered, it is answered no more often
\* and no other way than it can be, and a conversation deleted last is out of the cache.
OperationsAreKept == Conserved /\ CallbacksBounded /\ DeletedLeavesCache

\* Every accepted operation is answered while the manager runs, and every goroutine ends
\* after Stop.
EverythingEnds == EachIsAnswered /\ StopCompletes
=============================================================================
