-------------------------- MODULE ConversationCache --------------------------
(***************************************************************************)
(* internal/storage/cache.go: the in-memory cache of conversations and of  *)
(* tool executions, with its three eviction policies.  Every operation     *)
(* holds c.mutex from beginning to end, so that each is one action here;   *)
(* CacheLocks models the locks themselves.                                 *)
(*                                                                         *)
(* A record is known by its id and its estimated size; time by whether an  *)
(* entry has outlived its TTL.  Hit statistics are left out.               *)
(***************************************************************************)
EXTENDS Integers, Sequences, SequencesExt, FiniteSets, Functions

CONSTANTS ConvIds, ToolIds,
          Sizes,              \* sizes estimateSize and estimateToolSize give
          Limits,             \* memory limits, the configured one among them
          MaxConversations, MaxToolExecutions,
          MaxAccess           \* bound: AccessCount

ASSUME CacheAssumption ==
    /\ Sizes \subseteq Nat \ {0} /\ Limits \subseteq Nat
    /\ {MaxConversations, MaxToolExecutions} \subseteq Nat /\ MaxAccess \in Nat \ {0}

VARIABLES conversations,    \* id -> its CacheEntry
          conversationList, \* ids, the most recently used first
          toolExecutions,   \* id -> its ToolCacheEntry
          toolList,
          currentMemory,
          memoryLimit,
          evictionPolicy    \* config.EvictionPolicy, which never changes

conversationVars == <<conversations, conversationList>>
toolVars == <<toolExecutions, toolList>>
configVars == <<memoryLimit, evictionPolicy>>
cacheVars == <<conversationVars, toolVars, currentMemory, configVars>>

\* CreatedAt and TTL are kept as one fact: has the entry expired?
CacheEntry == [Size : Sizes, AccessCount : 1..MaxAccess, expired : BOOLEAN]

ToolCacheEntry == [Size : Sizes]

\* A partial function with one more point, or with fewer.
With(f, id, e) == [x \in DOMAIN f \cup {id} |-> IF x = id THEN e ELSE f[x]]
Without(f, S) == Restrict(f, DOMAIN f \ S)

\* The list without the ids of S; the order of the others stays.
Unlisted(list, S) ==
    LET Left[n \in 0..Len(list)] ==
            IF n = 0 THEN <<>>
            ELSE IF list[n] \in S THEN Left[n - 1] ELSE Append(Left[n - 1], list[n])
    IN Left[Len(list)]

MoveToFront(list, id) == <<id>> \o Unlisted(list, {id})

\* The last of a list, all but the first n.
Oldest(list, n) == {list[i] : i \in n + 1..Len(list)}

\* What the entries of S take, and what all of them take.
SizeOf(f, S) ==
    LET Sum[T \in SUBSET DOMAIN f] ==
            IF T = {} THEN 0
            ELSE LET id == CHOOSE id \in T : TRUE IN f[id].Size + Sum[T \ {id}]
    IN Sum[S]

TotalSize(f) == SizeOf(f, DOMAIN f)

-----------------------------------------------------------------------------
\* Eviction works on the cache inside an operation: its entries, their list
\* and the memory they are accounted for.
Entries == [conversations |-> conversations,
            list |-> conversationList,
            memory |-> currentMemory]

\* removeConversationUnsafe, for each id of S.
RemoveAll(c, S) ==
    [conversations |-> Without(c.conversations, S),
     list |-> Unlisted(c.list, S),
     memory |-> c.memory - SizeOf(c.conversations, S)]

EvictOldest(c) ==
    IF c.list = <<>> THEN c ELSE RemoveAll(c, {Last(c.list)})

Expired(c) == {id \in DOMAIN c.conversations : c.conversations[id].expired}

\* Mutant: the comparison is the other way round.
MostUsed(c) ==
    {id \in DOMAIN c.conversations : \A other \in DOMAIN c.conversations :
        c.conversations[id].AccessCount >= c.conversations[other].AccessCount}

\* The entries with the fewest accesses: the loop over the map ends with any.
LeastUsed(c) ==
    {id \in DOMAIN c.conversations : \A other \in DOMAIN c.conversations :
        c.conversations[id].AccessCount <= c.conversations[other].AccessCount}

\* evictByPolicy: the caches it can leave, and whether to go on evicting.
EvictByPolicy(c) ==
    CASE evictionPolicy = "lfu" ->
             IF c.list = <<>> THEN {<<c, FALSE>>}
             ELSE {<<RemoveAll(c, {id}), TRUE>> : id \in LeastUsed(c)}
      [] evictionPolicy = "ttl" -> {<<RemoveAll(c, Expired(c)), Expired(c) # {}>>}
      [] evictionPolicy = "lru" ->
             LET d == EvictOldest(c) IN {<<d, d.list # <<>>>>}

\* One iteration of evictIfNecessary: first by number, then by memory, until either is
\* within its limit or the policy finds nothing more to evict.
Iterate(c, limit) ==
    IF Len(c.list) > MaxConversations THEN {<<EvictOldest(c), TRUE>>}
    ELSE IF c.memory <= limit THEN {<<c, FALSE>>}
    ELSE EvictByPolicy(c)

\* The loop ends before the iterations do: each that goes on has evicted.
EvictIfNecessary(c, limit) ==
    LET After[n \in 0..Len(c.list) + 1] ==
            IF n = 0 THEN {<<c, TRUE>>}
            ELSE UNION {IF e[2] THEN Iterate(e[1], limit) ELSE {e} : e \in After[n - 1]}
    IN {e[1] : e \in After[Len(c.list) + 1]}

EvictDownTo(c, n) == RemoveAll(c, Oldest(c.list, n))

Become(c) == /\ conversations' = c.conversations
             /\ conversationList' = c.list
             /\ currentMemory' = c.memory

-----------------------------------------------------------------------------
Empty == [x \in {} |-> x]

CacheInit ==
    /\ conversations = Empty /\ conversationList = <<>>
    /\ toolExecutions = Empty /\ toolList = <<>>
    /\ currentMemory = 0
    /\ memoryLimit \in Limits
    /\ evictionPolicy \in {"lru", "lfu", "ttl"}

\* Get, hit.
GetHit(id) ==
    /\ id \in DOMAIN conversations
    /\ ~conversations[id].expired
    /\ conversations[id].AccessCount < MaxAccess
    /\ conversations' = [conversations EXCEPT ![id].AccessCount = @ + 1]
    /\ conversationList' = MoveToFront(conversationList, id)
    /\ UNCHANGED <<toolVars, currentMemory, configVars>>

\* Get of an entry that outlived its TTL; Get of an absent one does nothing.
GetExpired(id) ==
    /\ id \in Expired(Entries)
    /\ Become(RemoveAll(Entries, {id}))
    /\ UNCHANGED <<toolVars, configVars>>

\* updateMemoryUsage
UpdateMemoryUsage ==
    currentMemory' = TotalSize(conversations') + TotalSize(toolExecutions')

\* Put of a cached id: the entry keeps its CreatedAt and its AccessCount.
PutExisting(id, size) ==
    /\ id \in DOMAIN conversations
    /\ conversations' = [conversations EXCEPT ![id].Size = size]
    /\ conversationList' = MoveToFront(conversationList, id)
    /\ UNCHANGED <<toolVars, configVars>>
    /\ UpdateMemoryUsage

PutNew(id, size) ==
    /\ id \notin DOMAIN conversations
    /\ LET entry == [Size |-> size, AccessCount |-> 1, expired |-> FALSE]
           put == [conversations |-> With(conversations, id, entry),
                   list |-> <<id>> \o conversationList,
                   memory |-> currentMemory + size]
       IN \E c \in EvictIfNecessary(put, memoryLimit) : Become(c)
    /\ UNCHANGED <<toolVars, configVars>>

\* PutTool of a cached id replaces the record; whatever the size of the new
\* one, the entry keeps the Size it was accounted for.
PutToolExisting(id) ==
    /\ id \in DOMAIN toolExecutions
    /\ toolList' = MoveToFront(toolList, id)
    /\ UNCHANGED <<conversationVars, toolExecutions, currentMemory, configVars>>

PutToolNew(id, size) ==
    /\ id \notin DOMAIN toolExecutions
    /\ LET put == With(toolExecutions, id, [Size |-> size])
           list == <<id>> \o toolList
           evicted == Oldest(list, MaxToolExecutions)
       IN /\ toolExecutions' = Without(put, evicted)
          /\ toolList' = Unlisted(list, evicted)
          /\ currentMemory' = currentMemory + size - SizeOf(put, evicted)
    /\ UNCHANGED <<conversationVars, configVars>>

\* Remove
RemoveConversation(id) ==
    /\ id \in DOMAIN conversations
    /\ Become(RemoveAll(Entries, {id}))
    /\ UNCHANGED <<toolVars, configVars>>

Clear == /\ conversations' = Empty /\ conversationList' = <<>>
         /\ toolExecutions' = Empty /\ toolList' = <<>>
         /\ currentMemory' = 0
         /\ UNCHANGED configVars

SetMemoryLimit(limit) ==
    /\ memoryLimit' = limit
    /\ \E c \in EvictIfNecessary(Entries, limit) : Become(c)
    /\ UNCHANGED <<toolVars, evictionPolicy>>

\* Mutant: the expired entries are dropped from map and list only.
CleanupKeepsMemory ==
    /\ LET c == RemoveAll(Entries, Expired(Entries))
       IN conversations' = c.conversations /\ conversationList' = c.list
    /\ UNCHANGED <<toolVars, currentMemory, configVars>>

\* cleanup, by the ticker of cleanupWorker.
Cleanup ==
    /\ LET c == RemoveAll(Entries, Expired(Entries))
       IN conversations' = c.conversations /\ conversationList' = c.list
    /\ UNCHANGED <<toolVars, configVars>>
    /\ UpdateMemoryUsage

\* memoryMonitor, when its ticker finds the heap high: half as many
\* conversations as are allowed.
MemoryMonitor ==
    /\ Become(EvictDownTo(Entries, MaxConversations \div 2))
    /\ UNCHANGED <<toolVars, configVars>>

\* Time passes, and with it an entry's TTL.
Expire(id) ==
    /\ id \in DOMAIN conversations
    /\ conversations' = [conversations EXCEPT ![id].expired = TRUE]
    /\ UNCHANGED <<conversationList, toolVars, currentMemory, configVars>>

CacheNext ==
    \/ \E id \in ConvIds : GetHit(id) \/ GetExpired(id) \/ RemoveConversation(id) \/ Expire(id)
    \/ \E id \in ConvIds, size \in Sizes : PutExisting(id, size) \/ PutNew(id, size)
    \/ \E id \in ToolIds :
           PutToolExisting(id) \/ \E size \in Sizes : PutToolNew(id, size)
    \/ \E limit \in Limits : SetMemoryLimit(limit)
    \/ Clear \/ Cleanup \/ MemoryMonitor

CacheSpec == CacheInit /\ [][CacheNext]_cacheVars

-----------------------------------------------------------------------------
\* Type invariant; the memory, a counter of bytes, is never negative.
CacheTypeOK ==
    /\ DOMAIN conversations \subseteq ConvIds
    /\ \A id \in DOMAIN conversations : conversations[id] \in CacheEntry
    /\ DOMAIN toolExecutions \subseteq ToolIds
    /\ \A id \in DOMAIN toolExecutions : toolExecutions[id] \in ToolCacheEntry
    /\ currentMemory \in Nat
    /\ memoryLimit \in Limits
    /\ evictionPolicy \in {"lru", "lfu", "ttl"}

\* The types hold, and lists and maps name the same entries, each once: an
\* entry in only one of them could never be evicted, or be evicted for ever.
Lists(list, f) == ToSet(list) = DOMAIN f /\ Len(list) = Cardinality(DOMAIN f)

ListsMatchMaps ==
    /\ CacheTypeOK
    /\ Lists(conversationList, conversations)
    /\ Lists(toolList, toolExecutions)

\* The counter that is kept by adding and subtracting is the sum of the
\* sizes that are recorded, whatever the order of puts and evictions.
MemoryIsAccounted ==
    currentMemory = TotalSize(conversations) + TotalSize(toolExecutions)

\* Neither map outgrows its configured number of entries, whichever operation
\* ran last and however evictions for number and for memory follow each other.
CountsWithinLimits ==
    /\ Cardinality(DOMAIN conversations) <= MaxConversations
    /\ Cardinality(DOMAIN toolExecutions) <= MaxToolExecutions

Lost == DOMAIN conversations \ DOMAIN conversations'
Added == DOMAIN conversations' \ DOMAIN conversations
UnderPressure == \/ \E id \in ConvIds, size \in Sizes : PutNew(id, size)
                 \/ \E limit \in Limits : SetMemoryLimit(limit)

\* The policy alone chooses what goes: there is room for one more.
PolicyChooses(policy) ==
    /\ evictionPolicy = policy
    /\ \/ \E limit \in Limits : SetMemoryLimit(limit)
       \/ Cardinality(DOMAIN conversations) < MaxConversations
          /\ \E id \in ConvIds, size \in Sizes : PutNew(id, size)

\* lru and lfu: the operations that evict leave the memory within the limit,
\* or no conversation at all (tool executions are not evicted for memory).
PressureFreesMemory ==
    [][UnderPressure /\ evictionPolicy # "ttl" =>
        currentMemory' <= memoryLimit' \/ conversations' = Empty]_cacheVars

\* lru: no more is evicted than needed: what is left, with one of the entries
\* that were evicted, would not be within the limits.  (A new conversation
\* that exceeds the limit by itself flushes the others before it goes too.)
EvictsNoMoreThanNeeded ==
    [][/\ evictionPolicy = "lru" /\ UnderPressure
       /\ Lost # {} /\ (Added # {} \/ memoryLimit' # memoryLimit)
       => \E id \in Lost :
            \/ Cardinality(DOMAIN conversations') + 1 > MaxConversations
            \/ currentMemory' + conversations[id].Size > memoryLimit']_cacheVars

\* What goes under memory pressure is what the policy says: with lfu nothing
\* that was used more often than what stays, with ttl nothing that is alive.
VictimsFollowPolicy ==
    [][/\ PolicyChooses("lfu") =>
            \A gone \in Lost, kept \in DOMAIN conversations \ Lost :
                conversations[gone].AccessCount <= conversations[kept].AccessCount
       /\ PolicyChooses("ttl") => Lost \subseteq Expired(Entries)]_cacheVars

\* Whatever sequence of operations and evictions: lists, maps, the counter of bytes and the
\* configured numbers of entries agree.
CacheIsConsistent == ListsMatchMaps /\ MemoryIsAccounted /\ CountsWithinLimits

\* Eviction frees what it has to, no more than that, and takes what the policy says.
EvictionFollowsPolicy == PressureFreesMemory /\ EvictsNoMoreThanNeeded /\ VictimsFollowPolicy
=============================================================================
