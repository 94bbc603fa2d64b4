------------------------- MODULE ToolWorkflow_proofs -------------------------
(***************************************************************************)
(* Proofs about ToolWorkflow, for any number of conversations, calls and   *)
(* retriers and any limits of the monitor.                                 *)
(***************************************************************************)
EXTENDS ToolWorkflow, SequenceTheorems, FiniteSetTheorems, TLAPS

\* An executor in a call knows the call, and can still count a retry.
CallsKnown == \A e \in Executors : at[e] \in InCall =>
                  run[e] \in Conversations /\ call[e] \in Calls

RetriesBounded ==
    \A e \in Executors :
        at[e] \in {"attempt", "executing", "backoff"} => retryCount[e] <= MaxRetries

IInv == /\ TypeOK
        /\ CallsKnown
        /\ RetriesBounded
        /\ NoTrackerLeaks
        /\ IsFiniteSet(activeOperations)
        /\ WithinLimit

LEMMA InitIInv == Init => IInv
<1> SUFFICES ASSUME Init PROVE IInv
  OBVIOUS
<1>1. TypeOK
  <2> <<>> \in Seq([call : Calls, outcome : Outcomes])
    OBVIOUS
  <2>1. /\ executionStates \subseteq Conversations
        /\ allResults \in [Conversations -> Seq([call : Calls, outcome : Outcomes])]
        /\ published \in [Conversations -> BOOLEAN]
        /\ activeOperations \subseteq Operations
        /\ cancelled \subseteq Executors
    BY DEF Init
  <2>2. blocks \in [Conversations -> Block]
    BY DEF Init, Block
  <2>3. total \in 0..MaxTotalOperations
    BY LimitsAssumption DEF Init
  <2>4. at \in [Executors -> Places] /\ result \in [Executors -> Outcomes]
    BY DEF Init, Places, Outcomes
  <2>5. /\ run \in [Executors -> Conversations \cup {None}]
        /\ call \in [Executors -> Calls \cup {None}]
    BY DEF Init
  <2>6. retryCount \in [Executors -> 0..(MaxRetries + 1)]
    BY LimitsAssumption DEF Init
  <2> QED
    BY <2>1, <2>2, <2>3, <2>4, <2>5, <2>6 DEF TypeOK
<1>2. CallsKnown /\ RetriesBounded /\ NoTrackerLeaks
  BY DEF Init, CallsKnown, RetriesBounded, NoTrackerLeaks, InCall
<1>3. IsFiniteSet(activeOperations) /\ WithinLimit
  BY FS_EmptySet, LimitsAssumption DEF Init, WithinLimit
<1> QED
  BY <1>1, <1>2, <1>3 DEF IInv

\* A step of executor e that leaves the monitor alone.
LEMMA MonitorUntouched ==
    ASSUME IInv, NEW e \in Executors, NEW place, at' = [at EXCEPT ![e] = place],
           UNCHANGED monitor_vars, TypeOK', CallsKnown', RetriesBounded',
           place \in InCall \/ Held(e) = {}
    PROVE  IInv'
<1>1. NoTrackerLeaks'
  <2> SUFFICES ASSUME NEW op \in activeOperations PROVE at'[op[1]] \in InCall
    BY DEF NoTrackerLeaks, monitor_vars
  <2>1. op[1] \in Executors /\ at[op[1]] \in InCall
    BY DEF IInv, TypeOK, Operations, NoTrackerLeaks
  <2> QED
    BY <2>1 DEF IInv, TypeOK, Held
<1>2. IsFiniteSet(activeOperations') /\ WithinLimit'
  BY DEF IInv, WithinLimit, monitor_vars
<1> QED
  BY <1>1, <1>2 DEF IInv

\* Where an executor that is not in a call has no operation in the monitor.
LEMMA NothingHeld ==
    ASSUME IInv, NEW e \in Executors, at[e] \notin InCall
    PROVE  Held(e) = {}
  BY DEF IInv, NoTrackerLeaks, Held

LEMMA ExecuteToolCallsStep == ASSUME IInv, NEW c \in Conversations, ExecuteToolCalls(c) PROVE IInv'
<1> c \in Executors
  BY DEF Executors
<1>1. at' = [at EXCEPT ![c] = "loop"] /\ UNCHANGED monitor_vars
  BY DEF ExecuteToolCalls, Goto, Return, run_vars, monitor_vars
<1>2. TypeOK'
  BY DEF IInv, TypeOK, ExecuteToolCalls, Goto, Return, run_vars, monitor_vars, Places, Outcomes, Block
<1>3. CallsKnown' /\ RetriesBounded'
  BY DEF IInv, TypeOK, CallsKnown, RetriesBounded, ExecuteToolCalls, Goto, Return, run_vars, monitor_vars, InCall
<1>4. "loop" \in InCall \/ Held(c) = {}
  BY NothingHeld DEF InCall, ExecuteToolCalls
<1> QED
  BY <1>1, <1>2, <1>3, <1>4, MonitorUntouched

LEMMA HandleExecutionCancellationStep == ASSUME IInv, NEW c \in Conversations, HandleExecutionCancellation(c) PROVE IInv'
<1> c \in Executors
  BY DEF Executors
<1>1. at' = [at EXCEPT ![c] = "stopped"] /\ UNCHANGED monitor_vars
  BY DEF HandleExecutionCancellation, Goto, Return, run_vars, monitor_vars
<1>2. TypeOK'
  BY DEF IInv, TypeOK, HandleExecutionCancellation, Goto, Return, run_vars, monitor_vars, Places, Outcomes, Block
<1>3. CallsKnown' /\ RetriesBounded'
  BY DEF IInv, TypeOK, CallsKnown, RetriesBounded, HandleExecutionCancellation, Goto, Return, run_vars, monitor_vars, InCall
<1>4. "stopped" \in InCall \/ Held(c) = {}
  BY NothingHeld DEF InCall, HandleExecutionCancellation
<1> QED
  BY <1>1, <1>2, <1>3, <1>4, MonitorUntouched

LEMMA UpdateFinalStateStep == ASSUME IInv, NEW c \in Conversations, UpdateFinalState(c) PROVE IInv'
<1> c \in Executors
  BY DEF Executors
<1>1. at' = [at EXCEPT ![c] = "record"] /\ UNCHANGED monitor_vars
  BY DEF UpdateFinalState, Goto, Return, run_vars, monitor_vars
<1>2. TypeOK'
  BY DEF IInv, TypeOK, UpdateFinalState, Goto, Return, run_vars, monitor_vars, Places, Outcomes, Block
<1>3. CallsKnown' /\ RetriesBounded'
  BY DEF IInv, TypeOK, CallsKnown, RetriesBounded, UpdateFinalState, Goto, Return, run_vars, monitor_vars, InCall
<1>4. "record" \in InCall \/ Held(c) = {}
  BY NothingHeld DEF InCall, UpdateFinalState
<1> QED
  BY <1>1, <1>2, <1>3, <1>4, MonitorUntouched

LEMMA UpdateConversationWithResultsStep == ASSUME IInv, NEW c \in Conversations, UpdateConversationWithResults(c) PROVE IInv'
<1> c \in Executors
  BY DEF Executors
<1>1. at' = [at EXCEPT ![c] = "cleanup"] /\ UNCHANGED monitor_vars
  BY DEF UpdateConversationWithResults, Goto, Return, run_vars, monitor_vars
<1>2. TypeOK'
  <2>1. blocks' \in [Conversations -> Block]
    <3>1. CASE UNCHANGED blocks
      BY <3>1 DEF IInv, TypeOK
    <3>2. CASE ~ UNCHANGED blocks
      <4>1. blocks' = [blocks EXCEPT
               ![c] = [status |-> IF AllSuccess(c) THEN "completed" ELSE "error",
                       shows |-> TRUE]]
        BY <3>2 DEF UpdateConversationWithResults
      <4> QED
        BY <4>1 DEF IInv, TypeOK, Block
    <3> QED
      BY <3>1, <3>2
  <2> QED
    BY <1>1, <2>1 DEF IInv, TypeOK, UpdateConversationWithResults, monitor_vars, Places
<1>3. CallsKnown' /\ RetriesBounded'
  BY DEF IInv, TypeOK, CallsKnown, RetriesBounded, UpdateConversationWithResults, Goto, Return, run_vars, monitor_vars, InCall
<1>4. "cleanup" \in InCall \/ Held(c) = {}
  BY NothingHeld DEF InCall, UpdateConversationWithResults
<1> QED
  BY <1>1, <1>2, <1>3, <1>4, MonitorUntouched

LEMMA CleanUpExecutionStateStep == ASSUME IInv, NEW c \in Conversations, CleanUpExecutionState(c) PROVE IInv'
<1> c \in Executors
  BY DEF Executors
<1>1. at' = [at EXCEPT ![c] = "done"] /\ UNCHANGED monitor_vars
  BY DEF CleanUpExecutionState, Goto, Return, run_vars, monitor_vars
<1>2. TypeOK'
  BY DEF IInv, TypeOK, CleanUpExecutionState, Goto, Return, run_vars, monitor_vars, Places, Outcomes, Block
<1>3. CallsKnown' /\ RetriesBounded'
  BY DEF IInv, TypeOK, CallsKnown, RetriesBounded, CleanUpExecutionState, Goto, Return, run_vars, monitor_vars, InCall
<1>4. "done" \in InCall \/ Held(c) = {}
  BY NothingHeld DEF InCall, CleanUpExecutionState
<1> QED
  BY <1>1, <1>2, <1>3, <1>4, MonitorUntouched

LEMMA DeniedStep == ASSUME IInv, NEW e \in Executors, Denied(e) PROVE IInv'
<1> e \in Executors
  BY DEF Executors
<1>1. at' = [at EXCEPT ![e] = "closing"] /\ UNCHANGED monitor_vars
  BY DEF Denied, Goto, Return, run_vars, monitor_vars
<1>2. TypeOK'
  BY DEF IInv, TypeOK, Denied, Goto, Return, run_vars, monitor_vars, Places, Outcomes, Block
<1>3. CallsKnown' /\ RetriesBounded'
  BY DEF IInv, TypeOK, CallsKnown, RetriesBounded, Denied, Goto, Return, run_vars, monitor_vars, InCall
<1>4. "closing" \in InCall \/ Held(e) = {}
  BY NothingHeld DEF InCall, Denied
<1> QED
  BY <1>1, <1>2, <1>3, <1>4, MonitorUntouched

LEMMA StartRefusedStep == ASSUME IInv, NEW e \in Executors, StartRefused(e) PROVE IInv'
<1> e \in Executors
  BY DEF Executors
<1>1. at' = [at EXCEPT ![e] = "closing"] /\ UNCHANGED monitor_vars
  BY DEF StartRefused, Goto, Return, run_vars, monitor_vars
<1>2. TypeOK'
  BY DEF IInv, TypeOK, StartRefused, Goto, Return, run_vars, monitor_vars, Places, Outcomes, Block
<1>3. CallsKnown' /\ RetriesBounded'
  BY DEF IInv, TypeOK, CallsKnown, RetriesBounded, StartRefused, Goto, Return, run_vars, monitor_vars, InCall
<1>4. "closing" \in InCall \/ Held(e) = {}
  BY NothingHeld DEF InCall, StartRefused
<1> QED
  BY <1>1, <1>2, <1>3, <1>4, MonitorUntouched

LEMMA ExecuteReturnsStep == ASSUME IInv, NEW e \in Executors, ExecuteReturns(e) PROVE IInv'
<1> e \in Executors
  BY DEF Executors
<1>1. at' = [at EXCEPT ![e] = "closing"] /\ UNCHANGED monitor_vars
  BY DEF ExecuteReturns, Goto, Return, run_vars, monitor_vars
<1>2. TypeOK'
  BY ZenonT(60) DEF IInv, TypeOK, ExecuteReturns, Goto, Return, run_vars, monitor_vars, Places, Outcomes, Block
<1>3. CallsKnown' /\ RetriesBounded'
  BY DEF IInv, TypeOK, CallsKnown, RetriesBounded, ExecuteReturns, Goto, Return, run_vars, monitor_vars, InCall
<1>4. "closing" \in InCall \/ Held(e) = {}
  BY NothingHeld DEF InCall, ExecuteReturns
<1> QED
  BY <1>1, <1>2, <1>3, <1>4, MonitorUntouched

LEMMA BackoffEndsStep == ASSUME IInv, NEW e \in Executors, BackoffEnds(e) PROVE IInv'
<1> e \in Executors
  BY DEF Executors
<1>1. at' = [at EXCEPT ![e] = "attempt"] /\ UNCHANGED monitor_vars
  BY DEF BackoffEnds, Goto, Return, run_vars, monitor_vars
<1>2. TypeOK'
  BY DEF IInv, TypeOK, BackoffEnds, Goto, Return, run_vars, monitor_vars, Places, Outcomes, Block
<1>3. CallsKnown' /\ RetriesBounded'
  BY DEF IInv, TypeOK, CallsKnown, RetriesBounded, BackoffEnds, Goto, Return, run_vars, monitor_vars, InCall
<1>4. "attempt" \in InCall \/ Held(e) = {}
  BY NothingHeld DEF InCall, BackoffEnds
<1> QED
  BY <1>1, <1>2, <1>3, <1>4, MonitorUntouched

LEMMA BackoffCancelledStep == ASSUME IInv, NEW e \in Executors, BackoffCancelled(e) PROVE IInv'
<1> e \in Executors
  BY DEF Executors
<1>1. at' = [at EXCEPT ![e] = "closing"] /\ UNCHANGED monitor_vars
  BY DEF BackoffCancelled, Goto, Return, run_vars, monitor_vars
<1>2. TypeOK'
  BY DEF IInv, TypeOK, BackoffCancelled, Goto, Return, run_vars, monitor_vars, Places, Outcomes, Block
<1>3. CallsKnown' /\ RetriesBounded'
  BY DEF IInv, TypeOK, CallsKnown, RetriesBounded, BackoffCancelled, Goto, Return, run_vars, monitor_vars, InCall
<1>4. "closing" \in InCall \/ Held(e) = {}
  BY NothingHeld DEF InCall, BackoffCancelled
<1> QED
  BY <1>1, <1>2, <1>3, <1>4, MonitorUntouched

LEMMA BeginStep ==
    ASSUME IInv, NEW e \in Executors, NEW c \in Conversations, NEW id \in Calls,
           Begin(e, c, id), Held(e) = {},
           UNCHANGED <<run_vars, monitor_vars, result, cancelled>>
    PROVE  IInv'
<1>1. at' = [at EXCEPT ![e] = "attempt"] /\ UNCHANGED monitor_vars
  BY DEF Begin, Goto
<1>2. TypeOK'
  <2>1. 0 \in 0..(MaxRetries + 1) /\ id \in Calls \cup {None}
    BY LimitsAssumption
  <2>2. /\ run' \in [Executors -> Conversations \cup {None}]
        /\ call' \in [Executors -> Calls \cup {None}]
        /\ retryCount' \in [Executors -> 0..(MaxRetries + 1)]
    BY <2>1 DEF IInv, TypeOK, Begin
  <2>3. at' \in [Executors -> Places]
    BY <1>1 DEF IInv, TypeOK, Places
  <2> QED
    BY <2>2, <2>3 DEF IInv, TypeOK, run_vars, monitor_vars
<1>3. CallsKnown' /\ RetriesBounded'
  BY LimitsAssumption
     DEF IInv, TypeOK, CallsKnown, RetriesBounded, Begin, Goto, InCall
<1> QED
  BY <1>1, <1>2, <1>3, MonitorUntouched

LEMMA NextCallStep == ASSUME IInv, NEW c \in Conversations, NextCall(c) PROVE IInv'
<1>1. c \in Executors /\ Held(c) = {}
  BY NothingHeld DEF Executors, NextCall, InCall
<1> DEFINE i == Len(allResults[c]) + 1
<1>2. i \in 1..Len(CallsOf[c])
  BY ExecutorsAssumption DEF NextCall, IInv, TypeOK
<1>3. CallsOf[c][i] \in Calls
  BY <1>2, ExecutorsAssumption
<1> QED
  BY <1>1, <1>3, BeginStep DEF NextCall

LEMMA RetryToolCallStep ==
    ASSUME IInv, NEW t \in Retriers, RetryToolCall(t) PROVE IInv'
<1>1. t \in Executors /\ Held(t) = {}
  BY NothingHeld DEF Executors, RetryToolCall, InCall
<1>2. PICK c \in executionStates : \E i \in 1..Len(CallsOf[c]) :
          Begin(t, c, CallsOf[c][i])
  BY DEF RetryToolCall
<1>3. c \in Conversations
  BY DEF IInv, TypeOK
<1>4. PICK i \in 1..Len(CallsOf[c]) : Begin(t, c, CallsOf[c][i])
  BY <1>2
<1>5. CallsOf[c][i] \in Calls
  BY <1>3, ExecutorsAssumption
<1> QED
  BY <1>1, <1>3, <1>4, <1>5, BeginStep DEF RetryToolCall

LEMMA AppendResultStep ==
    ASSUME IInv, NEW c \in Conversations, AppendResult(c) PROVE IInv'
<1> c \in Executors
  BY DEF Executors
<1> DEFINE r == [call |-> call[c], outcome |-> result[c]]
<1>1. r \in [call : Calls, outcome : Outcomes]
  BY DEF IInv, TypeOK, CallsKnown, AppendResult, InCall
<1>2. Append(allResults[c], r) \in Seq([call : Calls, outcome : Outcomes])
  BY <1>1, AppendProperties DEF IInv, TypeOK
<1>3. allResults' \in [Conversations -> Seq([call : Calls, outcome : Outcomes])]
  BY <1>2 DEF IInv, TypeOK, AppendResult
<1>4. TypeOK'
  BY <1>3 DEF IInv, TypeOK, AppendResult, Goto, Places, monitor_vars
<1>5. CallsKnown' /\ RetriesBounded'
  BY DEF IInv, TypeOK, CallsKnown, RetriesBounded, AppendResult, Goto, InCall
<1> QED
  BY <1>4, <1>5, MonitorUntouched DEF AppendResult, Goto

LEMMA UpdateToolResultStep ==
    ASSUME IInv, NEW t \in Retriers, UpdateToolResult(t) PROVE IInv'
<1> t \in Executors
  BY DEF Executors
<1> DEFINE R == [call : Calls, outcome : Outcomes]
<1>1. allResults' \in [Conversations -> Seq(R)]
  <2>1. CASE UNCHANGED allResults
    BY <2>1 DEF IInv, TypeOK
  <2>2. ASSUME NEW i, allResults' = [allResults EXCEPT ![run[t]][i].outcome = result[t]],
               i \in IndicesOf(run[t], call[t])
        PROVE  allResults' \in [Conversations -> Seq(R)]
    <3> DEFINE s == allResults[run[t]]
    <3>1. run[t] \in Conversations /\ result[t] \in Outcomes
      BY DEF IInv, TypeOK, CallsKnown, UpdateToolResult, InCall
    <3>2. s \in Seq(R) /\ i \in 1..Len(s)
      BY <2>2, <3>1 DEF IInv, TypeOK, IndicesOf
    <3> HIDE DEF R, s
    <3>3. s[i] \in R
      BY <3>2
    <3> USE DEF R, s
    <3>4. [s[i] EXCEPT !.outcome = result[t]] \in R
      BY <3>1, <3>3
    <3>5. [s EXCEPT ![i] = [s[i] EXCEPT !.outcome = result[t]]] \in Seq(R)
      BY <3>2, <3>4, ExceptSeq
    <3>6. allResults' = [allResults EXCEPT
              ![run[t]] = [s EXCEPT ![i] = [s[i] EXCEPT !.outcome = result[t]]]]
      BY <2>2
    <3> QED
      BY <3>5, <3>6 DEF IInv, TypeOK
  <2> QED
    BY <2>1, <2>2 DEF UpdateToolResult
<1>2. TypeOK'
  BY <1>1 DEF IInv, TypeOK, UpdateToolResult, Goto, Places, monitor_vars
<1>3. CallsKnown' /\ RetriesBounded'
  BY DEF IInv, TypeOK, CallsKnown, RetriesBounded, UpdateToolResult, Goto, InCall
<1> QED
  BY <1>2, <1>3, MonitorUntouched DEF UpdateToolResult, Goto

LEMMA ExecuteFailsRetriablyStep ==
    ASSUME IInv, NEW e \in Executors, ExecuteFailsRetriably(e) PROVE IInv'
<1>1. PICK place \in {"backoff", "closing"} : at' = [at EXCEPT ![e] = place]
  BY DEF ExecuteFailsRetriably, Goto, Return
<1>2. retryCount[e] \in 0..MaxRetries
  BY LimitsAssumption
     DEF IInv, TypeOK, RetriesBounded, ExecuteFailsRetriably
<1>3. /\ retryCount' = [retryCount EXCEPT ![e] = @ + 1]
      /\ retryCount'[e] = retryCount[e] + 1
  BY DEF ExecuteFailsRetriably, IInv, TypeOK
<1>4. TypeOK'
  <2>1. retryCount' \in [Executors -> 0..(MaxRetries + 1)]
    BY <1>2, <1>3, LimitsAssumption DEF IInv, TypeOK
  <2>2. result' \in [Executors -> Outcomes]
    BY DEF IInv, TypeOK, ExecuteFailsRetriably, Return, Outcomes
  <2> QED
    BY <1>1, <2>1, <2>2
       DEF IInv, TypeOK, ExecuteFailsRetriably, Places, run_vars, monitor_vars
<1>5. CallsKnown'
  BY <1>1 DEF IInv, TypeOK, CallsKnown, ExecuteFailsRetriably, InCall
<1>6. RetriesBounded'
  BY <1>1, <1>3 DEF IInv, TypeOK, RetriesBounded, ExecuteFailsRetriably, Return, Goto
<1>7. UNCHANGED monitor_vars /\ {"backoff", "closing"} \subseteq InCall
  BY DEF ExecuteFailsRetriably, InCall
<1> QED
  BY <1>1, <1>4, <1>5, <1>6, <1>7, MonitorUntouched

\* The step that takes a place in the monitor.
LEMMA StartOperationStep ==
    ASSUME IInv, NEW e \in Executors, StartOperation(e) PROVE IInv'
<1> DEFINE op == <<e, retryCount[e]>>
<1>1. op \in Operations
  BY LimitsAssumption DEF IInv, TypeOK, RetriesBounded, StartOperation, Operations
<1>2. total' \in 0..MaxTotalOperations
  BY LimitsAssumption DEF IInv, TypeOK, StartOperation, AtLimit
<1>3. TypeOK'
  BY <1>1, <1>2 DEF IInv, TypeOK, StartOperation, Goto, Places, run_vars
<1>4. CallsKnown' /\ RetriesBounded'
  BY DEF IInv, TypeOK, CallsKnown, RetriesBounded, StartOperation, Goto, InCall, run_vars
<1>5. NoTrackerLeaks'
  BY DEF IInv, TypeOK, Operations, NoTrackerLeaks, StartOperation, Goto, InCall
<1>6. IsFiniteSet(activeOperations') /\ WithinLimit'
  <2>1. /\ activeOperations' = activeOperations \cup {op}
        /\ IsFiniteSet(activeOperations)
        /\ ~(Cardinality(activeOperations) >= MaxConcurrentOps)
    BY DEF IInv, StartOperation, AtLimit
  <2>2. Cardinality(activeOperations) \in Nat
    BY <2>1, FS_CardinalityType
  <2> HIDE DEF op
  <2> DEFINE S == activeOperations \cup {op}
  <2>3. /\ IsFiniteSet(S)
        /\ Cardinality(S) = IF op \in activeOperations
                            THEN Cardinality(activeOperations)
                            ELSE Cardinality(activeOperations) + 1
    BY <2>1, FS_AddElement
  <2>4. Cardinality(S) <= MaxConcurrentOps
    BY <2>1, <2>2, <2>3, LimitsAssumption
  <2> QED
    BY <2>1, <2>3, <2>4 DEF WithinLimit
<1> QED
  BY <1>3, <1>4, <1>5, <1>6 DEF IInv

\* The step that gives a place back.
LEMMA EndOperationStep ==
    ASSUME IInv, NEW e \in Executors, EndOperation(e) PROVE IInv'
<1>1. PICK op \in Held(e) : activeOperations' = activeOperations \ {op}
  BY DEF EndOperation
<1>2. TypeOK' /\ CallsKnown' /\ RetriesBounded' /\ NoTrackerLeaks'
  BY <1>1 DEF IInv, TypeOK, CallsKnown, RetriesBounded, NoTrackerLeaks,
              EndOperation, run_vars
<1>3. IsFiniteSet(activeOperations') /\ WithinLimit'
  <2>1. op \in activeOperations /\ IsFiniteSet(activeOperations)
    BY DEF Held, IInv
  <2>2. Cardinality(activeOperations) \in Nat
    BY <2>1, FS_CardinalityType
  <2>3. /\ IsFiniteSet(activeOperations')
        /\ Cardinality(activeOperations') = Cardinality(activeOperations) - 1
    BY <1>1, <2>1, FS_RemoveElement
  <2> QED
    BY <2>2, <2>3, LimitsAssumption DEF WithinLimit, IInv
<1> QED
  BY <1>2, <1>3 DEF IInv

LEMMA CancelStep == ASSUME IInv, NEW e \in Executors, Cancel(e) PROVE IInv'
  BY DEF IInv, TypeOK, CallsKnown, RetriesBounded, NoTrackerLeaks, WithinLimit,
         Cancel, run_vars, monitor_vars

LEMMA NextIInv == IInv /\ [Next]_vars => IInv'
<1> SUFFICES ASSUME IInv, [Next]_vars PROVE IInv'
  OBVIOUS
<1>1. ASSUME NEW c \in Conversations, ExecuteToolCalls(c) \/ RunStep(c) PROVE IInv'
  BY <1>1, ExecuteToolCallsStep, NextCallStep, HandleExecutionCancellationStep,
     AppendResultStep, UpdateFinalStateStep, UpdateConversationWithResultsStep,
     CleanUpExecutionStateStep DEF RunStep
<1>2. ASSUME NEW t \in Retriers, RetryToolCall(t) \/ UpdateToolResult(t) PROVE IInv'
  BY <1>2, RetryToolCallStep, UpdateToolResultStep
<1>3. ASSUME NEW e \in Executors, CallStep(e) PROVE IInv'
  BY <1>3, DeniedStep, StartOperationStep, StartRefusedStep, ExecuteReturnsStep,
     ExecuteFailsRetriablyStep, BackoffEndsStep, BackoffCancelledStep,
     EndOperationStep DEF CallStep
<1>4. ASSUME NEW e \in Executors, Cancel(e) PROVE IInv'
  BY <1>4, CancelStep
<1>5. CASE UNCHANGED vars
  BY <1>5 DEF vars, run_vars, monitor_vars, IInv, TypeOK, CallsKnown,
              RetriesBounded, NoTrackerLeaks, WithinLimit
<1> QED
  BY <1>1, <1>2, <1>3, <1>4, <1>5 DEF Next

-----------------------------------------------------------------------------
THEOREM Invariance == Spec => []IInv
  BY InitIInv, NextIInv, PTL DEF Spec

\* The types of the workflow's state, and with them the bound on the number
\* of operations the monitor ever counts and on the retries of a call.
THEOREM TypeCorrect == Spec => []TypeOK
<1>1. IInv => TypeOK
  BY DEF IInv
<1> QED
  BY <1>1, Invariance, PTL

\* However many runs and retries compete, the monitor admits no more
\* operations than its limit: the check and the insertion are one step under
\* rm.mu.
THEOREM LimitHolds == Spec => []WithinLimit
<1>1. IInv => WithinLimit
  BY DEF IInv
<1> QED
  BY <1>1, Invariance, PTL

\* Every return path of a call gives back all the places it took.
THEOREM TrackersAreClosed == Spec => []NoTrackerLeaks
<1>1. IInv => NoTrackerLeaks
  BY DEF IInv
<1> QED
  BY <1>1, Invariance, PTL
-----------------------------------------------------------------------------
(***************************************************************************)
(* What a run returns.  TypeOK and the monitor's limit say nothing about the *)
(* results; the parts below carry them from one call to the next.          *)
(***************************************************************************)

\* The results so far are those of the first calls.
ResultsInOrder ==
    \A c \in Conversations :
        /\ Len(allResults[c]) <= Len(CallsOf[c])
        /\ \A i \in 1..Len(allResults[c]) : allResults[c][i].call = CallsOf[c][i]

\* The call a run is in is the first one without a result.
AtItsCall ==
    \A c \in Conversations : at[c] \in InCall =>
        /\ Len(allResults[c]) < Len(CallsOf[c])
        /\ call[c] = CallsOf[c][Len(allResults[c]) + 1]

\* A run leaves its loop with all the results, and records them once.
RecordedAtEnd ==
    \A c \in Conversations :
        /\ at[c] \in {"record", "cleanup", "done"} =>
               Len(allResults[c]) = Len(CallsOf[c])
        /\ blocks[c].shows => at[c] \in {"cleanup", "done"}

\* StatusMatchesResults, for the retriers that have not begun as well.
StatusKept ==
    \A c \in Conversations :
        blocks[c].shows /\ (\A t \in Retriers : run[t] # c \/ at[t] = "idle") =>
            (blocks[c].status = "completed" <=> AllSuccess(c))

RInv == ResultsInOrder /\ AtItsCall /\ RecordedAtEnd /\ StatusKept

LEMMA InitRInv == Init => RInv
  BY ExecutorsAssumption
     DEF Init, RInv, ResultsInOrder, AtItsCall, RecordedAtEnd, StatusKept, InCall,
         Executors

\* A step of a run outside its calls, or of a call, that leaves the results and
\* the blocks alone, and stays where the results still fit the place.
LEMMA ResultsUntouched ==
    ASSUME IInv, RInv, NEW e \in Executors, NEW place,
           at' = [at EXCEPT ![e] = place], at[e] # "idle",
           UNCHANGED <<allResults, blocks, run, call>>,
           \/ at[e] \in InCall /\ place \in InCall
           \/ at[e] = "loop" /\ place = "stopped"
           \/ at[e] = "cleanup" /\ place = "done"
           \/ /\ at[e] = "loop" /\ place = "record"
              /\ Len(allResults[e]) = Len(CallsOf[e])
    PROVE  RInv'
<1> USE DEF InCall
<1>1. at \in [Executors -> Places] /\ Conversations \subseteq Executors
      /\ Retriers \subseteq Executors
  BY DEF IInv, TypeOK, Executors
<1>2. ResultsInOrder'
  BY DEF RInv, ResultsInOrder
<1>3. AtItsCall'
  BY <1>1 DEF RInv, AtItsCall
<1>4. RecordedAtEnd'
  BY <1>1 DEF RInv, RecordedAtEnd
<1>5. StatusKept'
  BY <1>1 DEF RInv, StatusKept, AllSuccess
<1> QED
  BY <1>2, <1>3, <1>4, <1>5 DEF RInv

\* Where a call begins: a run's next one, or one a user retries.
LEMMA BeginRInv ==
    ASSUME IInv, RInv, NEW e \in Executors, NEW c \in Conversations, NEW id,
           Begin(e, c, id), UNCHANGED <<allResults, blocks>>,
           \/ e \in Retriers /\ at[e] = "idle"
           \/ /\ e \in Conversations /\ at[e] = "loop" /\ e = c
              /\ Len(allResults[c]) < Len(CallsOf[c])
              /\ id = CallsOf[c][Len(allResults[c]) + 1]
    PROVE  RInv'
<1>1. /\ at \in [Executors -> Places] /\ run \in [Executors -> Conversations \cup {None}]
      /\ call \in [Executors -> Calls \cup {None}]
      /\ Conversations \subseteq Executors /\ Retriers \subseteq Executors
      /\ Conversations \cap Retriers = {}
  BY ExecutorsAssumption DEF IInv, TypeOK, Executors
<1>2. ResultsInOrder'
  BY DEF RInv, ResultsInOrder
<1>3. AtItsCall'
  BY <1>1 DEF RInv, AtItsCall, Begin, Goto, InCall
<1>4. RecordedAtEnd'
  BY <1>1 DEF RInv, RecordedAtEnd, Begin, Goto
<1>5. StatusKept'
  BY <1>1 DEF RInv, StatusKept, AllSuccess, Begin, Goto
<1> QED
  BY <1>2, <1>3, <1>4, <1>5 DEF RInv

LEMMA ExecuteToolCallsRInv ==
    ASSUME IInv, RInv, NEW c \in Conversations, ExecuteToolCalls(c) PROVE RInv'
<1>1. /\ at \in [Executors -> Places] /\ Conversations \subseteq Executors
      /\ Retriers \subseteq Executors /\ Conversations \cap Retriers = {}
  BY ExecutorsAssumption DEF IInv, TypeOK, Executors
<1>2. ResultsInOrder' /\ AtItsCall' /\ RecordedAtEnd'
  BY <1>1 DEF RInv, ResultsInOrder, AtItsCall, RecordedAtEnd, ExecuteToolCalls,
              Goto, InCall
<1>3. StatusKept'
  BY <1>1 DEF RInv, StatusKept, AllSuccess, ExecuteToolCalls, Goto
<1> QED
  BY <1>2, <1>3 DEF RInv

LEMMA AppendResultRInv ==
    ASSUME IInv, RInv, NEW c \in Conversations, AppendResult(c) PROVE RInv'
<1> DEFINE R == [call : Calls, outcome : Outcomes]
           r == [call |-> call[c], outcome |-> result[c]]
<1>1. /\ at \in [Executors -> Places] /\ Conversations \subseteq Executors
      /\ Retriers \subseteq Executors /\ Conversations \cap Retriers = {}
      /\ c \in Executors
  BY ExecutorsAssumption DEF IInv, TypeOK, Executors
<1>2. r \in R
  BY <1>1 DEF IInv, TypeOK, CallsKnown, AppendResult, InCall
<1>3. /\ allResults \in [Conversations -> Seq(R)]
      /\ allResults' = [allResults EXCEPT ![c] = Append(@, r)]
      /\ UNCHANGED <<blocks, run, call>>
      /\ at[c] = "closing" /\ at' = [at EXCEPT ![c] = "loop"]
  BY DEF IInv, TypeOK, AppendResult, Goto
<1> HIDE DEF R
<1>4. /\ Len(allResults'[c]) = Len(allResults[c]) + 1
      /\ \A i \in 1..Len(allResults[c]) : allResults'[c][i] = allResults[c][i]
      /\ allResults'[c][Len(allResults[c]) + 1] = r
  BY <1>2, <1>3, AppendProperties
<1>5. /\ Len(allResults[c]) < Len(CallsOf[c])
      /\ call[c] = CallsOf[c][Len(allResults[c]) + 1]
      /\ Len(CallsOf[c]) \in Nat /\ Len(allResults[c]) \in Nat
  BY <1>3, ExecutorsAssumption DEF RInv, AtItsCall, InCall
<1>6. ResultsInOrder'
  <2> SUFFICES ASSUME NEW d \in Conversations
               PROVE  /\ Len(allResults'[d]) <= Len(CallsOf[d])
                      /\ \A i \in 1..Len(allResults'[d]) :
                             allResults'[d][i].call = CallsOf[d][i]
    BY DEF ResultsInOrder
  <2>1. CASE d # c
    BY <1>3, <2>1 DEF RInv, ResultsInOrder
  <2>2. CASE d = c
    <3>1. ASSUME NEW i \in 1..(Len(allResults[c]) + 1)
          PROVE  allResults'[c][i].call = CallsOf[c][i]
      <4>1. CASE i \in 1..Len(allResults[c])
        BY <1>4, <4>1 DEF RInv, ResultsInOrder
      <4>2. CASE i = Len(allResults[c]) + 1
        BY <1>4, <1>5, <4>2
      <4> QED
        BY <1>5, <4>1, <4>2
    <3> QED
      BY <1>4, <1>5, <2>2, <3>1
  <2> QED
    BY <2>1, <2>2
<1>7. AtItsCall' /\ RecordedAtEnd'
  BY <1>1, <1>3 DEF RInv, AtItsCall, RecordedAtEnd, InCall
<1>8. StatusKept'
  <2> SUFFICES ASSUME NEW d \in Conversations, blocks[d].shows,
                      \A t \in Retriers : run[t] # d \/ at'[t] = "idle"
               PROVE  blocks[d].status = "completed" <=> AllSuccess(d)'
    BY <1>3 DEF StatusKept
  <2>1. d # c
    BY <1>3 DEF RInv, RecordedAtEnd
  <2>2. \A t \in Retriers : run[t] # d \/ at[t] = "idle"
    BY <1>1, <1>3
  <2>3. allResults'[d] = allResults[d]
    BY <1>3, <2>1
  <2> QED
    BY <2>2, <2>3 DEF RInv, StatusKept, AllSuccess
<1> QED
  BY <1>6, <1>7, <1>8 DEF RInv

\* The block gets the status its results give it.
LEMMA UpdateConversationWithResultsRInv ==
    ASSUME IInv, RInv, NEW c \in Conversations, UpdateConversationWithResults(c)
    PROVE  RInv'
<1>1. /\ at \in [Executors -> Places] /\ Conversations \subseteq Executors
      /\ Retriers \subseteq Executors /\ Conversations \cap Retriers = {}
      /\ blocks \in [Conversations -> Block]
  BY ExecutorsAssumption DEF IInv, TypeOK, Executors
<1>2. ResultsInOrder' /\ AtItsCall' /\ RecordedAtEnd'
  BY <1>1 DEF RInv, ResultsInOrder, AtItsCall, RecordedAtEnd, InCall,
              UpdateConversationWithResults, Goto
<1>3. StatusKept'
  BY <1>1 DEF RInv, StatusKept, AllSuccess, UpdateConversationWithResults, Goto
<1> QED
  BY <1>2, <1>3 DEF RInv

\* A retry replaces an outcome, and neither a call nor the number of results.
LEMMA UpdateToolResultRInv ==
    ASSUME IInv, RInv, NEW t \in Retriers, UpdateToolResult(t) PROVE RInv'
<1> DEFINE R == [call : Calls, outcome : Outcomes]
           d == run[t]
<1>1. /\ at \in [Executors -> Places] /\ Conversations \subseteq Executors
      /\ Retriers \subseteq Executors /\ Conversations \cap Retriers = {}
      /\ allResults \in [Conversations -> Seq(R)] /\ d \in Conversations
      /\ UNCHANGED <<blocks, run, call>>
      /\ at[t] = "closing" /\ at' = [at EXCEPT ![t] = "done"]
  BY ExecutorsAssumption
     DEF IInv, TypeOK, CallsKnown, Executors, InCall, UpdateToolResult, Goto
<1>2. /\ \A c \in Conversations :
             /\ Len(allResults'[c]) = Len(allResults[c])
             /\ \A i \in 1..Len(allResults[c]) :
                    allResults'[c][i].call = allResults[c][i].call
      /\ \A c \in Conversations : c # d => allResults'[c] = allResults[c]
  <2>1. CASE UNCHANGED allResults
    BY <2>1
  <2>2. ASSUME NEW i, i \in IndicesOf(d, call[t]),
               allResults' = [allResults EXCEPT ![d][i].outcome = result[t]]
        PROVE  <1>2
    <3>1. allResults' = [allResults EXCEPT
              ![d] = [allResults[d] EXCEPT
                  ![i] = [allResults[d][i] EXCEPT !.outcome = result[t]]]]
      BY <2>2
    <3>2. allResults[d] \in Seq(R) /\ i \in 1..Len(allResults[d])
      BY <1>1, <2>2 DEF IndicesOf
    <3>3. allResults[d][i] \in R
      <4> HIDE DEF R
      <4> QED BY <3>2
    <3>4. /\ Len(allResults'[d]) = Len(allResults[d])
          /\ \A k \in 1..Len(allResults[d]) :
                allResults'[d][k].call = allResults[d][k].call
      BY <1>1, <3>1, <3>2, <3>3
    <3> QED
      BY <1>1, <3>1, <3>4
  <2> QED
    BY <2>1, <2>2 DEF UpdateToolResult
<1>3. ResultsInOrder' /\ AtItsCall' /\ RecordedAtEnd'
  BY <1>1, <1>2 DEF RInv, ResultsInOrder, AtItsCall, RecordedAtEnd, InCall
<1>4. StatusKept'
  BY <1>1, <1>2 DEF RInv, StatusKept, AllSuccess
<1> QED
  BY <1>3, <1>4 DEF RInv

LEMMA NextRInv == IInv /\ RInv /\ [Next]_vars => RInv'
<1> SUFFICES ASSUME IInv, RInv, [Next]_vars PROVE RInv'
  OBVIOUS
<1> Conversations \subseteq Executors /\ Retriers \subseteq Executors
  BY DEF Executors
<1>1. ASSUME NEW c \in Conversations, ExecuteToolCalls(c) \/ RunStep(c) PROVE RInv'
  <2>1. CASE NextCall(c)
    BY <2>1, BeginRInv DEF NextCall, run_vars
  <2>2. CASE HandleExecutionCancellation(c)
    BY <2>2, ResultsUntouched DEF HandleExecutionCancellation, Goto, run_vars
  <2>3. CASE UpdateFinalState(c)
    BY <2>3, ResultsUntouched DEF UpdateFinalState, Goto
  <2>4. CASE CleanUpExecutionState(c)
    BY <2>4, ResultsUntouched DEF CleanUpExecutionState, Goto
  <2> QED
    BY <1>1, <2>1, <2>2, <2>3, <2>4, ExecuteToolCallsRInv, AppendResultRInv,
       UpdateConversationWithResultsRInv DEF RunStep
<1>2. ASSUME NEW t \in Retriers, RetryToolCall(t) \/ UpdateToolResult(t) PROVE RInv'
  <2>1. CASE RetryToolCall(t)
    <3>1. PICK c \in executionStates : \E i \in 1..Len(CallsOf[c]) :
              Begin(t, c, CallsOf[c][i])
      BY <2>1 DEF RetryToolCall
    <3>2. c \in Conversations
      BY DEF IInv, TypeOK
    <3>3. PICK i \in 1..Len(CallsOf[c]) : Begin(t, c, CallsOf[c][i])
      BY <3>1
    <3> QED
      BY <2>1, <3>2, <3>3, BeginRInv DEF RetryToolCall, run_vars
  <2> QED
    BY <1>2, <2>1, UpdateToolResultRInv
<1>3. ASSUME NEW e \in Executors, CallStep(e) PROVE RInv'
  <2>1. CASE EndOperation(e)
    BY <2>1 DEF EndOperation, RInv, ResultsInOrder, AtItsCall, RecordedAtEnd,
                StatusKept, AllSuccess, run_vars
  <2>2. CASE \/ Denied(e) \/ StartOperation(e) \/ StartRefused(e) \/ ExecuteReturns(e)
             \/ ExecuteFailsRetriably(e) \/ BackoffEnds(e) \/ BackoffCancelled(e)
    <3>1. PICK place \in InCall : at' = [at EXCEPT ![e] = place]
      BY <2>2 DEF Denied, StartOperation, StartRefused, ExecuteReturns, InCall,
                  ExecuteFailsRetriably, BackoffEnds, BackoffCancelled, Goto, Return
    <3>2. at[e] \in InCall /\ UNCHANGED <<allResults, blocks, run, call>>
      BY <2>2 DEF Denied, StartOperation, StartRefused, ExecuteReturns, InCall,
                  ExecuteFailsRetriably, BackoffEnds, BackoffCancelled, run_vars
    <3> QED
      BY <3>1, <3>2, ResultsUntouched DEF InCall
  <2> QED
    BY <1>3, <2>1, <2>2 DEF CallStep
<1>4. ASSUME NEW e \in Executors, Cancel(e) PROVE RInv'
  BY <1>4 DEF Cancel, RInv, ResultsInOrder, AtItsCall, RecordedAtEnd,
              StatusKept, AllSuccess, run_vars
<1>5. CASE UNCHANGED vars
  BY <1>5 DEF vars, run_vars, RInv, ResultsInOrder, AtItsCall, RecordedAtEnd,
              StatusKept, AllSuccess
<1> QED
  BY <1>1, <1>2, <1>3, <1>4, <1>5 DEF Next

LEMMA RInvMeansResultsAreReturned == IInv /\ RInv => ResultsAreReturned
<1> SUFFICES ASSUME IInv, RInv PROVE ResultsAreReturned
  OBVIOUS
<1>1. ResultsComplete
  <2> SUFFICES ASSUME NEW c \in Conversations, at[c] = "done" \/ blocks[c].shows
               PROVE  [i \in 1..Len(allResults[c]) |-> allResults[c][i].call]
                          = CallsOf[c]
    BY DEF ResultsComplete
  <2>1. CallsOf[c] \in Seq(Calls)
    BY ExecutorsAssumption
  <2>2. CallsOf[c] = [i \in 1..Len(CallsOf[c]) |-> CallsOf[c][i]]
    BY <2>1
  <2>3. Len(allResults[c]) = Len(CallsOf[c])
    BY DEF RInv, RecordedAtEnd
  <2> QED
    BY <2>2, <2>3 DEF RInv, ResultsInOrder
<1>2. StatusMatchesResults
  BY DEF RInv, StatusKept, StatusMatchesResults
<1> QED
  BY <1>1, <1>2 DEF ResultsAreReturned, IInv

\* A run that is over returns one result for each of its calls, in order, and
\* a block that shows them a status that agrees with them until the user
\* retries a call, however often its calls are refused, fail, are retried or
\* race with a user's retry, and whether or not its block is found.
THEOREM RunsReturnTheirResults == Spec => []ResultsAreReturned
<1>1. IInv /\ RInv /\ [Next]_vars => RInv'
  BY NextRInv
<1> QED
  BY <1>1, InitRInv, Invariance, RInvMeansResultsAreReturned, PTL DEF Spec
=============================================================================
