----------------------- MODULE ConversationRepository -----------------------
(***************************************************************************)
(* What types.ConversationRepository (internal/types/storage.go) promises  *)
(* its callers: one store of conversations, changed by Save/Update and     *)
(* Delete and by nothing else, readable at any time, and closed to new     *)
(* saves by Shutdown.  It has no cache.  A record carries the number of    *)
(* the save that wrote it, so that an old one can never come back.         *)
(***************************************************************************)
EXTENDS Naturals

CONSTANTS Ids, Records, None

VARIABLES store,  \* id -> the record a Load of it returns, or None
          open,   \* are saves accepted?
          saves   \* saves so far

Init == /\ store = [id \in Ids |-> None]
        /\ open = TRUE
        /\ saves = 0

Save(id, rec) == /\ open
                 /\ rec.ver = saves + 1
                 /\ store' = [store EXCEPT ![id] = rec]
                 /\ saves' = saves + 1
                 /\ UNCHANGED open

Delete(id) == /\ store' = [store EXCEPT ![id] = None]
              /\ UNCHANGED <<open, saves>>

Shutdown == open' = FALSE /\ UNCHANGED <<store, saves>>

Restart == open' = TRUE /\ UNCHANGED <<store, saves>>

Next == \/ \E id \in Ids : Delete(id) \/ \E rec \in Records : Save(id, rec)
        \/ Shutdown
        \/ Restart

Spec == Init /\ [][Next]_<<store, open, saves>>
=============================================================================
