----------------------------- MODULE LazyLoading -----------------------------
(***************************************************************************)
(* The lazy conversation loader (internal/storage/lazy_loading.go).        *)
(* Requests are queued and counted in two steps, a worker loads them in     *)
(* order and calls back in a goroutine of its own, and Shutdown waits until *)
(* both counters are zero.  Loading the content always fails: at this       *)
(* commit the database has no method for it.                               *)
(***************************************************************************)
EXTENDS Integers, Sequences, FiniteSets

CONSTANTS LoadRequests,  \* requests, each made at most once
          LazyIds,       \* conversations asked for
          Stored,        \* those the database knows
          QueueSize,     \* 1000 in the code
          IdleLimit      \* half hours unused, and then gone

ASSUME LoadingAssumption == QueueSize \in Nat \ {0} /\ IdleLimit \in Nat \ {0} /\ Stored \subseteq LazyIds

VARIABLES asked,        \* of each request: conversation, state, whether it is counted
          loadingQueue,
          lazyMetrics,  \* PendingRequests, ActiveLoads, TotalRequests, ErrorCount
          loadedData,   \* metadata in memory, and how long it has not been used
          shutdown      \* state of Shutdown

lazyVars == <<asked, loadingQueue, lazyMetrics, loadedData, shutdown>>

LazyInit ==
    /\ asked = [r \in LoadRequests |-> [id |-> CHOOSE c \in LazyIds : TRUE, state |-> "new", counted |-> FALSE]]
    /\ loadingQueue = <<>>
    /\ lazyMetrics = [pending |-> 0, active |-> 0, total |-> 0, errors |-> 0]
    /\ loadedData = [c \in {} |-> 0]
    /\ shutdown = "none"

\* Metadata is looked up or loaded; there is none for an unknown conversation.
Touched(c) ==
    IF c \in Stored \cup DOMAIN loadedData
    THEN [d \in DOMAIN loadedData \cup {c} |-> IF d = c THEN 0 ELSE loadedData[d]]
    ELSE loadedData

\* A full queue refuses a request, which is called back all the same.  (A request made
\* after Shutdown would be a send on a closed channel.)
LoadContentAsync ==
    \E r \in LoadRequests, c \in LazyIds :
        /\ asked[r].state = "new" /\ shutdown = "none"
        /\ IF Len(loadingQueue) < QueueSize
           THEN /\ asked' = [asked EXCEPT ![r] = [@ EXCEPT !.id = c, !.state = "queued"]]
                /\ loadingQueue' = Append(loadingQueue, r)
           ELSE /\ asked' = [asked EXCEPT ![r] = [@ EXCEPT !.id = c, !.state = "calling", !.counted = TRUE]]
                /\ UNCHANGED loadingQueue
        /\ UNCHANGED <<lazyMetrics, loadedData, shutdown>>

\* The caller counts its request, which the worker may have taken by then.
CountPending ==
    \E r \in LoadRequests :
        /\ asked[r].state /= "new" /\ ~ asked[r].counted
        /\ asked' = [asked EXCEPT ![r].counted = TRUE]
        /\ lazyMetrics' = [lazyMetrics EXCEPT !.pending = @ + 1]
        /\ UNCHANGED <<loadingQueue, loadedData, shutdown>>

WorkerIdle == \A r \in LoadRequests : asked[r].state /= "loading"

\* Mutant: a load is counted when it is done.
TakeUncounted ==
    /\ WorkerIdle /\ loadingQueue /= <<>>
    /\ asked' = [asked EXCEPT ![Head(loadingQueue)].state = "loading"]
    /\ loadingQueue' = Tail(loadingQueue)
    /\ lazyMetrics' = [lazyMetrics EXCEPT !.pending = @ - 1]
    /\ UNCHANGED <<loadedData, shutdown>>

TakeRequest ==
    /\ WorkerIdle /\ loadingQueue /= <<>>
    /\ asked' = [asked EXCEPT ![Head(loadingQueue)].state = "loading"]
    /\ loadingQueue' = Tail(loadingQueue)
    /\ lazyMetrics' = [lazyMetrics EXCEPT !.pending = @ - 1, !.active = @ + 1]
    /\ UNCHANGED <<loadedData, shutdown>>

\* The worker has loaded what there is; the content, and with it the load, fails.
FinishLoad ==
    \E r \in LoadRequests :
        /\ asked[r].state = "loading"
        /\ asked' = [asked EXCEPT ![r].state = "calling"]
        /\ loadedData' = Touched(asked[r].id)
        /\ lazyMetrics' = [lazyMetrics EXCEPT !.active = @ - 1, !.total = @ + 1, !.errors = @ + 1]
        /\ UNCHANGED <<loadingQueue, shutdown>>

Callback ==
    \E r \in LoadRequests :
        /\ asked[r].state = "calling"
        /\ asked' = [asked EXCEPT ![r].state = "answered"]
        /\ UNCHANGED <<loadingQueue, lazyMetrics, loadedData, shutdown>>

\* GetConversation, called by the interface, with or without content.
GetConversation ==
    \E c \in LazyIds :
        /\ loadedData' = Touched(c) /\ loadedData' /= loadedData
        /\ UNCHANGED <<asked, loadingQueue, lazyMetrics, shutdown>>

\* A page replaces what was loaded of its conversations.
LoadConversationsPage ==
    \E page \in SUBSET Stored :
        /\ Cardinality(page) > 1
        /\ loadedData' = [c \in page \cup DOMAIN loadedData |-> IF c \in page THEN 0 ELSE loadedData[c]]
        /\ UNCHANGED <<asked, loadingQueue, lazyMetrics, shutdown>>

\* cleanupWorker: half an hour passes, and what was not used is forgotten.
CleanupOldData ==
    /\ loadedData' = [c \in {d \in DOMAIN loadedData : loadedData[d] + 1 < IdleLimit} |-> loadedData[c] + 1]
    /\ loadedData' /= loadedData
    /\ UNCHANGED <<asked, loadingQueue, lazyMetrics, shutdown>>

CloseQueue ==
    /\ shutdown = "none"
    /\ shutdown' = "waiting"
    /\ UNCHANGED <<asked, loadingQueue, lazyMetrics, loadedData>>

\* Shutdown finds both counters zero, or gives up.
ShutdownReturns ==
    /\ shutdown = "waiting"
    /\ \/ lazyMetrics.active = 0 /\ lazyMetrics.pending = 0 /\ shutdown' = "drained"
       \/ shutdown' = "timeout"
    /\ UNCHANGED <<asked, loadingQueue, lazyMetrics, loadedData>>

LazyNext ==
    \/ LoadContentAsync \/ CountPending \/ TakeRequest \/ FinishLoad \/ Callback
    \/ GetConversation \/ LoadConversationsPage \/ CleanupOldData \/ CloseQueue \/ ShutdownReturns

-----------------------------------------------------------------------------
\* Shutdown reports success only when no request is in the queue or in the hands of the
\* worker, unless some caller has not yet counted its own.
ShutdownDrains ==
    [][shutdown' = "drained" /\ shutdown /= "drained" =>
        \/ loadingQueue = <<>> /\ WorkerIdle
        \/ \E r \in LoadRequests : asked[r].state /= "new" /\ ~ asked[r].counted]_lazyVars
=============================================================================
