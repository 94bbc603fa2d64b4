------------------------------ MODULE MessageFlow ------------------------------
(***************************************************************************)
(* The way of a user's message through internal/ui: the Update method of   *)
(* the model (model.go, keys.go, model_animation.go) and the commands of   *)
(* message_processor.go, over an in-memory ConversationHistory             *)
(* (internal/models/conversation.go).                                      *)
(*                                                                         *)
(* Bubble Tea runs Update in one goroutine, one message at a time, and     *)
(* each command in a goroutine of its own, whose result is a message for   *)
(* Update.  A user message is therefore a chain of commands and Update     *)
(* steps, and several chains run at the same time.  The history has no     *)
(* lock: a command's append is a read of the slice and a later write.      *)
(*                                                                         *)
(* The commands of the tool workflow are in ToolWorkflow; here they are    *)
(* one command.  The messages that commands drop on the way are left out.  *)
(***************************************************************************)
EXTENDS Integers, Sequences, FiniteSets, SequencesExt

CONSTANTS Inputs,       \* what the user sends, each time a new message
          MayUseTools   \* whether the LLM may answer with tool calls

ASSUME FlowAssumption == IsFiniteSet(Inputs) /\ MayUseTools \in BOOLEAN

VARIABLES overlap,      \* does the user send while another is on its way?
          cachedBlocks, \* of the history
          selected,
          processingMessages, \* conversation ids
          at,           \* where the chain of each input is
          loaded,       \* the slice its AddConversation has read
          tools         \* whether the answer to it has tool calls

vars == <<overlap, cachedBlocks, selected, processingMessages, at, loaded, tools>>

\* Two uuids: processUserMessage makes one and goes on with it,
\* AddConversation makes another for the block.
ConversationID(u) == <<u, "message">>
BlockID(u) == <<u, "block">>
ConvIDs == {<<u, kind>> : u \in Inputs, kind \in {"message", "block"}}

Statuses == {"completed", "executing", "error"}
Block == [id : ConvIDs, status : Statuses, response : BOOLEAN]

Init == /\ overlap \in BOOLEAN
        /\ cachedBlocks = <<>>
        /\ selected = -1
        /\ processingMessages = {}
        /\ at = [u \in Inputs |-> "unsent"]
        /\ loaded = [u \in Inputs |-> <<>>]
        /\ tools = [u \in Inputs |-> FALSE]

Goto(u, place) == at' = [at EXCEPT ![u] = place]

\* The history's GetConversationByID and UpdateConversationStatus change the
\* first block with the id; without one they do nothing and report no error.
IsFirst(i, id) == /\ cachedBlocks[i].id = id
                  /\ \A j \in 1..(i - 1) : cachedBlocks[j].id # id

UpdateConversationStatus(id, status) ==
    cachedBlocks' = [i \in 1..Len(cachedBlocks) |->
        IF IsFirst(i, id) THEN [cachedBlocks[i] EXCEPT !.status = status]
        ELSE cachedBlocks[i]]

-----------------------------------------------------------------------------
\* Commands.

Ended == {"complete", "failed", "tools_complete"}

\* The enter key: Update returns the command ProcessMessage.
SendMessage(u) ==
    /\ at[u] = "unsent"
    /\ overlap \/ \A v \in Inputs : at[v] \in Ended \cup {"unsent"}
    /\ Goto(u, "load_blocks")
    /\ UNCHANGED <<overlap, cachedBlocks, selected, processingMessages, loaded, tools>>

\* AddConversation: ch.cachedBlocks = append(ch.cachedBlocks, newConv)
LoadBlocks(u) ==
    /\ at[u] = "load_blocks"
    /\ loaded' = [loaded EXCEPT ![u] = cachedBlocks]
    /\ Goto(u, "store_blocks")
    /\ UNCHANGED <<overlap, cachedBlocks, selected, processingMessages, tools>>

StoreBlocks(u) ==
    /\ at[u] = "store_blocks"
    /\ cachedBlocks' = Append(loaded[u], [id |-> BlockID(u),
                                          status |-> "completed",
                                          response |-> FALSE])
    /\ loaded' = [loaded EXCEPT ![u] = <<>>]
    /\ Goto(u, "select")
    /\ UNCHANGED <<overlap, selected, processingMessages, tools>>

\* ch.selected = len(ch.cachedBlocks) - 1
SelectNewest(u) ==
    /\ at[u] = "select"
    /\ selected' = Len(cachedBlocks) - 1
    /\ Goto(u, "added")
    /\ UNCHANGED <<overlap, cachedBlocks, processingMessages, loaded, tools>>

\* The rest of processUserMessage.
StartProcessing(u) ==
    /\ at[u] = "added"
    /\ UpdateConversationStatus(ConversationID(u), "executing")
    /\ Goto(u, "started_msg")
    /\ UNCHANGED <<overlap, selected, processingMessages, loaded, tools>>

\* StreamChat succeeds, and Update only passes on the next command.
StartLLMStreaming(u) ==
    /\ at[u] = "start_streaming"
    /\ Goto(u, "streaming")
    /\ UNCHANGED <<overlap, cachedBlocks, selected, processingMessages, loaded, tools>>

\* Mutant: the command ends without a message for Update.
LLMFailsSilently(u) ==
    /\ at[u] \in {"start_streaming", "streaming"}
    /\ Goto(u, "lost")
    /\ UNCHANGED <<overlap, cachedBlocks, selected, processingMessages, loaded, tools>>

\* StreamChat fails, or the stream has an error event.
LLMFails(u) ==
    /\ at[u] \in {"start_streaming", "streaming"}
    /\ Goto(u, "error_msg")
    /\ UNCHANGED <<overlap, cachedBlocks, selected, processingMessages, loaded, tools>>

\* The stream ends: handleLLMResponseComplete looks up the block and writes
\* the response to it.
HandleLLMResponseComplete(u) ==
    /\ at[u] = "streaming"
    /\ \E calls \in (IF MayUseTools THEN BOOLEAN ELSE {FALSE}) :
          /\ tools' = [tools EXCEPT ![u] = calls]
          /\ cachedBlocks' = [i \in 1..Len(cachedBlocks) |->
                IF IsFirst(i, ConversationID(u))
                THEN [cachedBlocks[i] EXCEPT
                        !.response = TRUE,
                        !.status = IF calls THEN @ ELSE "completed"]
                ELSE cachedBlocks[i]]
          /\ Goto(u, IF calls THEN "execute_tools" ELSE "complete_msg")
    /\ UNCHANGED <<overlap, selected, processingMessages, loaded>>

\* Update passes on the command of ToolExecutionStartedMsg; with the context
\* of ProcessMessage, which is never cancelled, ExecuteToolCalls ends with a
\* ToolExecutionCompleteMsg, after it has recorded the status.
ExecuteToolCalls(u) ==
    /\ at[u] = "execute_tools"
    /\ \E status \in {"completed", "error"} :
          UpdateConversationStatus(ConversationID(u), status)
    /\ Goto(u, "tools_complete_msg")
    /\ UNCHANGED <<overlap, selected, processingMessages, loaded, tools>>

-----------------------------------------------------------------------------
\* Update, for the messages that end a command.

OnMessageProcessingStarted(u) ==
    /\ at[u] = "started_msg"
    /\ processingMessages' = processingMessages \cup {ConversationID(u)}
    /\ Goto(u, "start_streaming")
    /\ UNCHANGED <<overlap, cachedBlocks, selected, loaded, tools>>

\* Mutant: the mark stays.
OnErrorKeepsMark(u) ==
    /\ at[u] = "error_msg"
    /\ UpdateConversationStatus(ConversationID(u), "error")
    /\ Goto(u, "failed")
    /\ UNCHANGED <<overlap, selected, processingMessages, loaded, tools>>

OnMessageProcessingError(u) ==
    /\ at[u] = "error_msg"
    /\ processingMessages' = processingMessages \ {ConversationID(u)}
    /\ UpdateConversationStatus(ConversationID(u), "error")
    /\ Goto(u, "failed")
    /\ UNCHANGED <<overlap, selected, loaded, tools>>

OnMessageProcessingComplete(u) ==
    /\ at[u] = "complete_msg"
    /\ processingMessages' = processingMessages \ {ConversationID(u)}
    /\ Goto(u, "complete")
    /\ UNCHANGED <<overlap, cachedBlocks, selected, loaded, tools>>

\* handleToolExecutionComplete
OnToolExecutionComplete(u) ==
    /\ at[u] = "tools_complete_msg"
    /\ UpdateConversationStatus(ConversationID(u), "completed")
    /\ Goto(u, "tools_complete")
    /\ UNCHANGED <<overlap, selected, processingMessages, loaded, tools>>

\* The keys for the selection; Update reads a slice that commands write.
MoveSelection ==
    /\ \/ selected > 0 /\ selected' = selected - 1
       \/ selected < Len(cachedBlocks) - 1 /\ selected' = selected + 1
    /\ UNCHANGED <<overlap, cachedBlocks, processingMessages, at, loaded, tools>>

Step(u) == \/ LoadBlocks(u) \/ StoreBlocks(u) \/ SelectNewest(u)
           \/ StartProcessing(u)
           \/ StartLLMStreaming(u) \/ LLMFails(u)
           \/ HandleLLMResponseComplete(u)
           \/ ExecuteToolCalls(u)
           \/ OnMessageProcessingStarted(u) \/ OnMessageProcessingError(u)
           \/ OnMessageProcessingComplete(u) \/ OnToolExecutionComplete(u)

Next == MoveSelection \/ \E u \in Inputs : SendMessage(u) \/ Step(u)

Spec == Init /\ [][Next]_vars

\* Goroutines run, Update takes up every message, and a stream ends: the
\* provider's HTTP client has a timeout.
FairSpec == Spec /\ \A u \in Inputs : WF_vars(Step(u))

-----------------------------------------------------------------------------
\* Type invariant.
TypeOK == /\ overlap \in BOOLEAN
          /\ cachedBlocks \in Seq(Block)
          /\ selected \in -1..(Cardinality(Inputs) - 1)
          /\ processingMessages \subseteq {ConversationID(u) : u \in Inputs}
          /\ \A u \in Inputs : loaded[u] \in Seq(Block)
          /\ tools \in [Inputs -> BOOLEAN]

Adding == {"unsent", "load_blocks", "store_blocks"}
BlockIDs == {cachedBlocks[i].id : i \in 1..Len(cachedBlocks)}

\* The types hold, and each message has its block, once, from AddConversation
\* on ("AddConversation adds a new conversation block", conversation.go:100),
\* unless messages overlap: of two appends to the same slice one is lost.
EveryMessageHasBlock ==
    /\ TypeOK
    /\ ~overlap => /\ Cardinality(BlockIDs) = Len(cachedBlocks)
                   /\ \A u \in Inputs : BlockID(u) \in BlockIDs <=> at[u] \notin Adding

\* The selection is a block, unless messages overlap and blocks are lost.
SelectionInBounds == ~overlap => selected < Len(cachedBlocks)

\* A conversation is in processingMessages only while its chain goes on
\* ("isProcessingMessage returns true if a conversation is currently being
\* processed", model_animation.go:279).  The end of its tools is no end here:
\* handleToolExecutionComplete leaves the mark.
ProcessingIsGoingOn ==
    \A u \in Inputs :
        at[u] \in {"complete", "failed"} => ConversationID(u) \notin processingMessages

\* Every message that is sent ends, each of its commands with a message for
\* Update and each message with a command or the end.
MessagesEnd == \A u \in Inputs : at[u] # "unsent" ~> at[u] \in Ended

\* Blocks, selection and processing marks follow the messages, however the commands and
\* handlers of several messages interleave.
ScreenFollowsMessages == EveryMessageHasBlock /\ SelectionInBounds /\ ProcessingIsGoingOn
=============================================================================
