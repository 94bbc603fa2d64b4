----------------------------- MODULE ToolWorkflow -----------------------------
(***************************************************************************)
(* internal/ui/tool_execution_workflow.go with what it uses of             *)
(* internal/security/monitor.go and internal/tools/router.go: a run        *)
(* executes the tool calls of one conversation in order, each with         *)
(* retries; a retrier re-executes one call of a run at the user's request. *)
(* Each is a goroutine (a tea.Cmd), and all share one resource monitor.    *)
(*                                                                         *)
(* A conversation has at most one run: its id is new in each message.      *)
(* state.Status, ErrorCount, RetryCount and PendingRetries are written and *)
(* never read, and the progress messages go to the UI: left out.           *)
(***************************************************************************)
EXTENDS Integers, Sequences, FiniteSets

CONSTANTS Conversations,      \* those that get tool calls, each with its run
          Retriers,           \* goroutines of RetryToolCall
          Calls,              \* ids of tool calls
          CallsOf,            \* the calls of each conversation, in order
          HighRisk,           \* calls that need the user's confirmation
          MaxRetries,         \* RetrySettings.MaxRetries
          MaxConcurrentOps,   \* ResourceLimits
          MaxTotalOperations,
          MayCancel,          \* whether a caller cancels its context
          None                \* no conversation, no call

Executors == Conversations \cup Retriers

ASSUME ExecutorsAssumption ==
    /\ Conversations \cap Retriers = {}
    /\ CallsOf \in [Conversations -> Seq(Calls)]
ASSUME LimitsAssumption ==
    /\ MaxRetries \in Nat
    /\ MaxConcurrentOps \in Nat \ {0}
    /\ MaxTotalOperations \in Nat \ {0}
    /\ MayCancel \in BOOLEAN

VARIABLES executionStates,  \* conversations that are keys of w.executionStates
          allResults,       \* each run's slice, the one state.ToolResults gets
          published,        \* whether state.ToolResults was assigned
          blocks,           \* the conversation blocks: status, and ToolResults
          activeOperations, \* rm.activeOperations: <<executor, attempt>>
          total,            \* rm.usage.TotalOperations
          at,               \* where each executor is
          run,              \* the conversation whose state it uses
          call,             \* the call it executes
          retryCount,       \* local to executeToolWithRetry
          result,           \* lastResult
          cancelled         \* executors whose context is cancelled

run_vars == <<executionStates, allResults, published, blocks>>
monitor_vars == <<activeOperations, total>>
vars == <<run_vars, monitor_vars, at, run, call, retryCount, result, cancelled>>

-----------------------------------------------------------------------------
Outcomes == {"success", "denied", "limited", "failed", "exhausted", "cancelled"}

\* ToolResults is a slice: the block, the state and the message a run returns
\* share its elements, so a block says whether it shows them.
Block == [status : {"executing", "completed", "error"}, shows : BOOLEAN]

Operations == Executors \X (0..MaxRetries)

Init == /\ executionStates = {}
        /\ allResults = [c \in Conversations |-> <<>>]
        /\ published = [c \in Conversations |-> FALSE]
        /\ blocks = [c \in Conversations |->
                        [status |-> "executing", shows |-> FALSE]]
        /\ activeOperations = {}
        /\ total = 0
        /\ at = [e \in Executors |-> "idle"]
        /\ run = [e \in Executors |-> None]
        /\ call = [e \in Executors |-> None]
        /\ retryCount = [e \in Executors |-> 0]
        /\ result = [e \in Executors |-> "failed"]
        /\ cancelled = {}

Goto(e, place) == at' = [at EXCEPT ![e] = place]

\* The call of executeToolWithRetry by executor e.
Begin(e, c, id) ==
    /\ run' = [run EXCEPT ![e] = c]
    /\ call' = [call EXCEPT ![e] = id]
    /\ retryCount' = [retryCount EXCEPT ![e] = 0]
    /\ Goto(e, "attempt")

\* Its return: the deferred tracker.Close() calls come first.
Return(e, outcome) ==
    /\ result' = [result EXCEPT ![e] = outcome]
    /\ Goto(e, "closing")

Held(e) == {op \in activeOperations : op[1] = e}

-----------------------------------------------------------------------------
\* Runs: ExecuteToolCalls and executeToolsSequentially.

ExecuteToolCalls(c) ==
    /\ at[c] = "idle"
    /\ executionStates' = executionStates \cup {c}
    /\ Goto(c, "loop")
    /\ UNCHANGED <<allResults, published, blocks, monitor_vars, run, call,
                   retryCount, result, cancelled>>

NextCall(c) ==
    /\ at[c] = "loop"
    /\ Len(allResults[c]) < Len(CallsOf[c])
    /\ c \notin cancelled
    /\ Begin(c, c, CallsOf[c][Len(allResults[c]) + 1])
    /\ UNCHANGED <<run_vars, monitor_vars, result, cancelled>>

HandleExecutionCancellation(c) ==
    /\ at[c] = "loop"
    /\ Len(allResults[c]) < Len(CallsOf[c])
    /\ c \in cancelled
    /\ Goto(c, "stopped")
    /\ UNCHANGED <<run_vars, monitor_vars, run, call, retryCount, result,
                   cancelled>>

\* Mutant: the trackers are left open.
AppendWithoutClosing(c) ==
    /\ at[c] = "closing"
    /\ allResults' = [allResults EXCEPT
                         ![c] = Append(@, [call |-> call[c],
                                           outcome |-> result[c]])]
    /\ Goto(c, "loop")
    /\ UNCHANGED <<executionStates, published, blocks, monitor_vars, run, call,
                   retryCount, result, cancelled>>

AppendResult(c) ==
    /\ at[c] = "closing"
    /\ Held(c) = {}
    /\ allResults' = [allResults EXCEPT
                         ![c] = Append(@, [call |-> call[c],
                                           outcome |-> result[c]])]
    /\ Goto(c, "loop")
    /\ UNCHANGED <<executionStates, published, blocks, monitor_vars, run, call,
                   retryCount, result, cancelled>>

\* state.ToolResults = allResults, under state.mu
UpdateFinalState(c) ==
    /\ at[c] = "loop"
    /\ Len(allResults[c]) = Len(CallsOf[c])
    /\ published' = [published EXCEPT ![c] = TRUE]
    /\ Goto(c, "record")
    /\ UNCHANGED <<executionStates, allResults, blocks, monitor_vars, run,
                   call, retryCount, result, cancelled>>

AllSuccess(c) ==
    \A i \in 1..Len(allResults[c]) : allResults[c][i].outcome = "success"

\* Mutant: the status is that of the last result.
UpdateWithLastResult(c) ==
    /\ at[c] = "record"
    /\ blocks' = [blocks EXCEPT
          ![c] = [status |-> IF allResults[c][Len(allResults[c])].outcome = "success"
                             THEN "completed" ELSE "error",
                  shows |-> TRUE]]
    /\ Goto(c, "cleanup")
    /\ UNCHANGED <<executionStates, allResults, published, monitor_vars, run,
                   call, retryCount, result, cancelled>>

\* GetConversationByID may fail, find nothing, or read a copy from storage that
\* nobody else sees: the block on the screen stays as it is.
UpdateConversationWithResults(c) ==
    /\ at[c] = "record"
    /\ \/ blocks' = [blocks EXCEPT
                        ![c] = [status |-> IF AllSuccess(c) THEN "completed"
                                           ELSE "error",
                                shows |-> TRUE]]
       \/ UNCHANGED blocks
    /\ Goto(c, "cleanup")
    /\ UNCHANGED <<executionStates, allResults, published, monitor_vars, run,
                   call, retryCount, result, cancelled>>

CleanUpExecutionState(c) ==
    /\ at[c] = "cleanup"
    /\ executionStates' = executionStates \ {c}
    /\ Goto(c, "done")
    /\ UNCHANGED <<allResults, published, blocks, monitor_vars, run, call,
                   retryCount, result, cancelled>>

-----------------------------------------------------------------------------
\* executeToolWithRetry.

\* The prompt of requestToolExecutionPermission touches none of the state, so
\* the answer and the tracker's StartOperation that follows it are one step.
Denied(e) ==
    /\ at[e] = "attempt"
    /\ call[e] \in HighRisk
    /\ Return(e, "denied")
    /\ UNCHANGED <<run_vars, monitor_vars, run, call, retryCount, cancelled>>

AtLimit == \/ Cardinality(activeOperations) >= MaxConcurrentOps
           \/ total >= MaxTotalOperations

StartOperation(e) ==
    /\ at[e] = "attempt"
    /\ ~AtLimit
    /\ activeOperations' = activeOperations \cup {<<e, retryCount[e]>>}
    /\ total' = total + 1
    /\ Goto(e, "executing")
    /\ UNCHANGED <<run_vars, run, call, retryCount, result, cancelled>>

\* Mutant: waits for a place, with its earlier trackers still open.
StartWaits(e) ==
    /\ at[e] = "attempt"
    /\ AtLimit
    /\ UNCHANGED vars

StartRefused(e) ==
    /\ at[e] = "attempt"
    /\ AtLimit
    /\ Return(e, "limited")
    /\ UNCHANGED <<run_vars, monitor_vars, run, call, retryCount, cancelled>>

\* router.Execute returned a success, or a failure that is not retriable.
ExecuteReturns(e) ==
    /\ at[e] = "executing"
    /\ \E outcome \in {"success", "failed"} : Return(e, outcome)
    /\ UNCHANGED <<run_vars, monitor_vars, run, call, retryCount, cancelled>>

\* router.Execute returned a retriable error, as for a timeout.
ExecuteFailsRetriably(e) ==
    /\ at[e] = "executing"
    /\ retryCount' = [retryCount EXCEPT ![e] = @ + 1]
    /\ IF retryCount'[e] <= MaxRetries
       THEN Goto(e, "backoff") /\ UNCHANGED result
       ELSE Return(e, "exhausted")
    /\ UNCHANGED <<run_vars, monitor_vars, run, call, cancelled>>

BackoffEnds(e) ==
    /\ at[e] = "backoff"
    /\ e \notin cancelled
    /\ Goto(e, "attempt")
    /\ UNCHANGED <<run_vars, monitor_vars, run, call, retryCount, result,
                   cancelled>>

BackoffCancelled(e) ==
    /\ at[e] = "backoff"
    /\ e \in cancelled
    /\ Return(e, "cancelled")
    /\ UNCHANGED <<run_vars, monitor_vars, run, call, retryCount, cancelled>>

\* One deferred tracker.Close(), the last one deferred first: EndOperation.
EndOperation(e) ==
    /\ at[e] = "closing"
    /\ \E op \in Held(e) :
          /\ \A other \in Held(e) : other[2] <= op[2]
          /\ activeOperations' = activeOperations \ {op}
    /\ UNCHANGED <<run_vars, total, at, run, call, retryCount, result,
                   cancelled>>

-----------------------------------------------------------------------------
\* RetryToolCall.  It keeps the pointer to the state it looked up.

RetryToolCall(t) ==
    /\ at[t] = "idle"
    /\ \E c \in executionStates : \E i \in 1..Len(CallsOf[c]) :
          Begin(t, c, CallsOf[c][i])
    /\ UNCHANGED <<run_vars, monitor_vars, result, cancelled>>

IndicesOf(c, id) ==
    {i \in 1..Len(allResults[c]) : allResults[c][i].call = id}

UpdateToolResult(t) ==
    /\ at[t] = "closing"
    /\ Held(t) = {}
    /\ IF published[run[t]] /\ IndicesOf(run[t], call[t]) # {}
       THEN \E first \in IndicesOf(run[t], call[t]) :
               /\ \A i \in IndicesOf(run[t], call[t]) : first <= i
               /\ allResults' = [allResults EXCEPT
                                    ![run[t]][first].outcome = result[t]]
       ELSE UNCHANGED allResults
    /\ Goto(t, "done")
    /\ UNCHANGED <<executionStates, published, blocks, monitor_vars, run, call,
                   retryCount, result, cancelled>>

-----------------------------------------------------------------------------
\* The caller of an executor cancels its context.
Cancel(e) ==
    /\ MayCancel
    /\ at[e] \notin {"idle", "done", "stopped"}
    /\ e \notin cancelled
    /\ cancelled' = cancelled \cup {e}
    /\ UNCHANGED <<run_vars, monitor_vars, at, run, call, retryCount, result>>

RunStep(c) == \/ NextCall(c)
              \/ HandleExecutionCancellation(c)
              \/ AppendResult(c)
              \/ UpdateFinalState(c)
              \/ UpdateConversationWithResults(c)
              \/ CleanUpExecutionState(c)

CallStep(e) == \/ Denied(e)
               \/ StartOperation(e)
               \/ StartRefused(e)
               \/ ExecuteReturns(e)
               \/ ExecuteFailsRetriably(e)
               \/ BackoffEnds(e)
               \/ BackoffCancelled(e)
               \/ EndOperation(e)

Next == \/ \E c \in Conversations : ExecuteToolCalls(c) \/ RunStep(c)
        \/ \E t \in Retriers : RetryToolCall(t) \/ UpdateToolResult(t)
        \/ \E e \in Executors : CallStep(e) \/ Cancel(e)

Spec == Init /\ [][Next]_vars

\* A goroutine that can run does; a tool returns within the 30 seconds of
\* router.Execute, a backoff ends, and a prompt is answered or times out.
Fairness == /\ \A c \in Conversations : WF_vars(RunStep(c))
            /\ \A t \in Retriers : WF_vars(UpdateToolResult(t))
            /\ \A e \in Executors : WF_vars(CallStep(e))

FairSpec == Spec /\ Fairness

-----------------------------------------------------------------------------
Places == {"idle", "loop", "attempt", "executing", "backoff", "closing",
           "record", "cleanup", "done", "stopped"}
InCall == {"attempt", "executing", "backoff", "closing"}

\* Type invariant.
TypeOK ==
    /\ executionStates \subseteq Conversations
    /\ allResults \in [Conversations -> Seq([call : Calls, outcome : Outcomes])]
    /\ published \in [Conversations -> BOOLEAN]
    /\ blocks \in [Conversations -> Block]
    /\ activeOperations \subseteq Operations
    /\ total \in 0..MaxTotalOperations
    /\ at \in [Executors -> Places]
    /\ run \in [Executors -> Conversations \cup {None}]
    /\ call \in [Executors -> Calls \cup {None}]
    /\ retryCount \in [Executors -> 0..(MaxRetries + 1)]
    /\ result \in [Executors -> Outcomes]
    /\ cancelled \subseteq Executors

\* The monitor never tracks more operations than its limit, however many
\* executors compete for it (monitor.go:119-122).
WithinLimit == Cardinality(activeOperations) <= MaxConcurrentOps

\* The trackers of a call are all closed once the call has returned, on each
\* of its return paths (defer tracker.Close(), line 276), so that no operation
\* stays in the monitor and takes a place for ever.
NoTrackerLeaks ==
    \A op \in activeOperations : at[op[1]] \in InCall

\* A run that is over, and whose results ToolExecutionCompleteMsg carries, has
\* one for each of its calls, in the calls' order; so has one whose results a
\* block shows, if any does.
ResultsComplete ==
    \A c \in Conversations : at[c] = "done" \/ blocks[c].shows =>
        [i \in 1..Len(allResults[c]) |-> allResults[c][i].call] = CallsOf[c]

\* The conversation's status says whether all the results it shows are
\* successes ("Update status based on results", line 486), unless the user had
\* a call of it retried: RetryToolCall changes a result and not the status.
StatusMatchesResults ==
    \A c \in Conversations :
        blocks[c].shows /\ (\A t \in Retriers : run[t] # c) =>
            (blocks[c].status = "completed" <=> AllSuccess(c))

\* Every run ends, and every retry: no call waits for ever for the monitor,
\* for a backoff or for another executor.
RunsEnd == \A e \in Executors : at[e] # "idle" ~> at[e] \in {"done", "stopped"}

\* A run that is over returns a result of each call, in order, and a block that shows
\* results shows all of them with the status they give it, whatever retries the user
\* asks for meanwhile and however the monitor refuses; and the monitor is within its
\* limit.
ResultsAreReturned == TypeOK /\ WithinLimit /\ ResultsComplete /\ StatusMatchesResults
=============================================================================
