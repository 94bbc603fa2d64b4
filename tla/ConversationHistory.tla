-------------------------- MODULE ConversationHistory --------------------------
(***************************************************************************)
(* internal/models/conversation.go: the list of conversations behind the   *)
(* screen, a copy of the storage's most recent ones, and the selection in  *)
(* it.  Every operation runs to its end before the next one: the user      *)
(* interface calls them one at a time.  What happens when message          *)
(* processing calls AddConversation from its own goroutines is in          *)
(* MessageFlow.                                                            *)
(*                                                                         *)
(* The storage is StorageManager seen through types.StorageManager: calls  *)
(* succeed or fail as a whole, and blocks are copied in and out, without   *)
(* the Expanded flag (conversationBlockToRecord).  dirty is TRUE only      *)
(* inside RefreshFromStorage, so ensureCacheUpdated does nothing elsewhere. *)
(***************************************************************************)
EXTENDS Integers, Sequences, FiniteSets

CONSTANTS Ids,          \* conversation ids: uuids, each used once
          Statuses,     \* "completed" and the others that are set
          RecentLimit   \* LoadRecent(50)

ASSUME HistoryAssumption == /\ IsFiniteSet(Ids)
                            /\ "completed" \in Statuses
                            /\ RecentLimit \in Nat \ {0}

VARIABLES storage,      \* the storage it was made with: "none" for
                        \* NewConversationHistoryInMemory, else whether its
                        \* calls may fail; never changes
          stored,       \* what the storage has: id -> status
          cachedBlocks,
          selected,     \* an index of cachedBlocks, from 0; -1 for none
          added         \* ids used so far -> their timestamps

historyVars == <<storage, stored, cachedBlocks, selected, added>>

Block == [id : Ids, status : Statuses, expanded : BOOLEAN]

\* Positions in cachedBlocks are 1-based, selected is 0-based as in Go.
Positions == 1..Len(cachedBlocks)
CachedIds == {cachedBlocks[i].id : i \in Positions}
InBounds(i) == i >= 0 /\ i < Len(cachedBlocks)

HistoryInit ==
    /\ storage \in {"none", "reliable", "failing"}
    /\ stored = [id \in {} |-> "completed"]
    /\ cachedBlocks = <<>>
    /\ selected = -1
    /\ added = [id \in {} |-> 0]

Outcomes == IF storage = "failing" THEN {TRUE, FALSE} ELSE {TRUE}

Extended(f, id, value) == [other \in DOMAIN f \cup {id} |-> IF other = id THEN value ELSE f[other]]

Save(b) ==
    stored' = IF storage = "none" THEN stored ELSE Extended(stored, b.id, b.status)

AddConversation(id) ==
    /\ id \notin DOMAIN added
    /\ added' = Extended(added, id, Cardinality(DOMAIN added) + 1)
    /\ \E ok \in Outcomes :
          IF ok
          THEN LET b == [id |-> id, status |-> "completed", expanded |-> FALSE]
               IN  /\ Save(b)
                   /\ cachedBlocks' = Append(cachedBlocks, b)
                   /\ selected' = Len(cachedBlocks)
          ELSE UNCHANGED <<stored, cachedBlocks, selected>>
    /\ UNCHANGED storage

SetSelected(index) ==
    /\ InBounds(index)
    /\ selected' = index
    /\ UNCHANGED <<storage, stored, cachedBlocks, added>>

SelectUp == /\ selected > 0
            /\ selected' = selected - 1
            /\ UNCHANGED <<storage, stored, cachedBlocks, added>>

SelectDown == /\ selected < Len(cachedBlocks) - 1
              /\ selected' = selected + 1
              /\ UNCHANGED <<storage, stored, cachedBlocks, added>>

\* The error of Save is dropped.
ToggleExpanded ==
    /\ InBounds(selected)
    /\ cachedBlocks' = [cachedBlocks EXCEPT ![selected + 1].expanded = ~@]
    /\ \E ok \in Outcomes : IF ok THEN Save(cachedBlocks[selected + 1])
                            ELSE UNCHANGED stored
    /\ UNCHANGED <<storage, selected, added>>

\* The index of the first block with the id.
FirstWith(id) ==
    CHOOSE i \in Positions : /\ cachedBlocks[i].id = id
                             /\ \A j \in 1..(i - 1) : cachedBlocks[j].id # id

\* The first match changes even if saving it fails then; for an id that is not
\* among the blocks nothing happens, and there is no error either.
UpdateConversationStatus(id, status) ==
    /\ id \in CachedIds
    /\ LET i == FirstWith(id)
       IN  /\ cachedBlocks' = [cachedBlocks EXCEPT ![i].status = status]
           /\ \E ok \in Outcomes : IF ok THEN Save(cachedBlocks'[i])
                                   ELSE UNCHANGED stored
    /\ UNCHANGED <<storage, selected, added>>

\* The blocks without the one at position i.
WithoutBlock(i) == [j \in 1..(Len(cachedBlocks) - 1) |->
                       IF j < i THEN cachedBlocks[j] ELSE cachedBlocks[j + 1]]

\* The selection after the block at 0-based index i has gone.
SelectionWithout(i) ==
    IF selected >= i /\ selected > 0 THEN selected - 1
    ELSE IF selected >= i /\ Len(cachedBlocks) = 1 THEN -1
    ELSE selected

\* If the storage fails nothing changes.
DeleteConversation(id) ==
    /\ id \in DOMAIN added
    /\ stored' = [other \in DOMAIN stored \ {id} |-> stored[other]]
    /\ IF id \in CachedIds
       THEN LET i == FirstWith(id)
            IN  /\ cachedBlocks' = WithoutBlock(i)
                /\ selected' = SelectionWithout(i - 1)
       ELSE UNCHANGED <<cachedBlocks, selected>>
    /\ UNCHANGED <<storage, added>>

\* LoadRecent: the stored conversations that have fewer newer ones than the limit, each
\* at the place that the number of newer ones gives it.
NewerThan(id) == {other \in DOMAIN stored : added[other] > added[id]}
Recent == {id \in DOMAIN stored : Cardinality(NewerThan(id)) < RecentLimit}
LoadRecent == [i \in 1..Cardinality(Recent) |->
                  CHOOSE id \in Recent : Cardinality(NewerThan(id)) = i - 1]

\* Mutant: the status is not among what is read.
LoadedWithoutStatus == [i \in 1..Len(LoadRecent) |-> [id |-> LoadRecent[i],
                                                      status |-> "completed",
                                                      expanded |-> FALSE]]

LoadedRecent == [i \in 1..Len(LoadRecent) |-> [id |-> LoadRecent[i],
                                               status |-> stored[LoadRecent[i]],
                                               expanded |-> FALSE]]

\* refreshCache: after an error it returns before it adjusts the selection.
RefreshCache(from) ==
    \E ok \in Outcomes :
       IF ok
       THEN /\ cachedBlocks' = LoadedRecent
            /\ selected' = IF from >= Len(LoadedRecent) THEN Len(LoadedRecent) - 1 ELSE from
       ELSE cachedBlocks' = <<>> /\ selected' = from

RefreshFromStorage ==
    /\ storage # "none"
    /\ RefreshCache(selected)
    /\ UNCHANGED <<storage, stored, added>>

\* The program starts again: NewConversationHistory.
ReopenHistory ==
    /\ storage # "none"
    /\ RefreshCache(-1)
    /\ UNCHANGED <<storage, stored, added>>

HistoryNext ==
    \/ \E id \in Ids : \/ AddConversation(id)
                      \/ DeleteConversation(id)
                      \/ \E s \in Statuses : UpdateConversationStatus(id, s)
    \/ \E i \in 0..(Cardinality(Ids) - 1) : SetSelected(i)
    \/ SelectUp
    \/ SelectDown
    \/ ToggleExpanded
    \/ RefreshFromStorage
    \/ ReopenHistory

-----------------------------------------------------------------------------
\* Type invariant.
HistoryTypeOK ==
    /\ DOMAIN stored \subseteq Ids
    /\ \A id \in DOMAIN stored : stored[id] \in Statuses
    /\ cachedBlocks \in Seq(Block)
    /\ selected \in -1..(Cardinality(Ids) - 1)
    /\ DOMAIN added \subseteq Ids
    /\ storage \in {"none", "reliable", "failing"}

CachedAreStored ==
    /\ storage # "none" => CachedIds \subseteq DOMAIN stored
    /\ Cardinality(CachedIds) = Len(cachedBlocks)

StatusIsStored ==
    storage = "reliable" =>
        \A i \in Positions : cachedBlocks[i].status = stored[cachedBlocks[i].id]

SelectionInBounds ==
    storage # "failing" => selected = -1 \/ InBounds(selected)

\* Every conversation on the screen is in the storage and is there once, whichever calls of
\* the storage failed: AddConversation and DeleteConversation change the storage first and
\* give up if that fails.  Its status is the stored one while the storage does not fail, and
\* the selection is on the screen ("Adjust selection if it's out of bounds", line 171) after
\* any deletion and any reload that did not fail.
ScreenFollowsStorage == HistoryTypeOK /\ CachedAreStored /\ StatusIsStored /\ SelectionInBounds
=============================================================================
