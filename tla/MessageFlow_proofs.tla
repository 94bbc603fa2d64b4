--------------------------- MODULE MessageFlow_proofs ---------------------------
(***************************************************************************)
(* Proof that blocks, selection and processing marks follow the messages,  *)
(* for every number of messages.  What the slice and each copy of it hold   *)
(* is enough when messages overlap; when they do not, one chain at a time   *)
(* is on its way, and what it has read of the slice is still the slice.     *)
(***************************************************************************)
EXTENDS MessageFlow, FiniteSetTheorems, TLAPS

Places == Ended \cup {"unsent", "load_blocks", "store_blocks", "select", "added",
                      "started_msg", "start_streaming", "streaming", "error_msg",
                      "execute_tools", "complete_msg", "tools_complete_msg"}

\* A slice of blocks: of messages past AddConversation's write, each once.
Placed == {u \in Inputs : at[u] \notin Adding}
IsSlice(s, A) ==
    /\ s \in Seq(Block)
    /\ \A i \in 1..Len(s) : \E u \in A : s[i].id = BlockID(u)
    /\ \A i, j \in 1..Len(s) : s[i].id = s[j].id => i = j
Covers(s, A) == \A u \in A : \E i \in 1..Len(s) : s[i].id = BlockID(u)

\* What holds when no message is sent while another is on its way.
GoingOn(u) == at[u] \notin Ended \cup {"unsent"}
OneAtATime ==
    /\ \A u, v \in Inputs : GoingOn(u) /\ GoingOn(v) => u = v
    /\ \A u \in Inputs : at[u] = "store_blocks" => loaded[u] = cachedBlocks
    /\ Covers(cachedBlocks, Placed)
    /\ selected < Len(cachedBlocks)

TypesHold == /\ overlap \in BOOLEAN
             /\ selected \in -1..(Cardinality(Inputs) - 1)
             /\ processingMessages \subseteq {ConversationID(u) : u \in Inputs}
             /\ at \in [Inputs -> Places]
             /\ loaded \in [Inputs -> Seq(Block)]
             /\ tools \in [Inputs -> BOOLEAN]

SlicesHold == IsSlice(cachedBlocks, Placed) /\ \A u \in Inputs : IsSlice(loaded[u], Placed)

FInv == /\ TypesHold
        /\ SlicesHold
        /\ ~overlap => OneAtATime
        /\ ProcessingIsGoingOn

-----------------------------------------------------------------------------
\* The blocks of a slice are no more than the messages.
LEMMA SliceIsBounded ==
    ASSUME NEW A \in SUBSET Inputs, NEW s, IsSlice(s, A)
    PROVE  Len(s) \in Nat /\ Len(s) <= Cardinality(Inputs)
<1>1. s \in Seq(Block) /\ Len(s) \in Nat
  BY DEF IsSlice
<1> DEFINE f == [i \in 1..Len(s) |-> s[i].id[1]]
<1>2. \A i \in 1..Len(s) : f[i] \in Inputs /\ s[i].id = BlockID(f[i])
  BY DEF IsSlice, BlockID
<1>3. f \in Injection(1..Len(s), Inputs)
  <2>1. f \in [1..Len(s) -> Inputs]
    BY <1>2
  <2>2. \A i, j \in 1..Len(s) : f[i] = f[j] => i = j
    BY <1>2 DEF IsSlice
  <2> HIDE DEF f
  <2> QED
    BY <2>1, <2>2 DEF Injection, IsInjective
<1>4. Cardinality(1..Len(s)) <= Cardinality(Inputs)
  BY <1>3, FS_Injection, FlowAssumption
<1>5. Cardinality(1..Len(s)) = Len(s)
  <2>1. /\ 1 \in Int /\ Len(s) \in Int
    BY <1>1
  <2>2. Cardinality(1..Len(s)) = IF 1 > Len(s) THEN 0 ELSE Len(s) - 1 + 1
    BY <2>1, FS_Interval
  <2> QED
    BY <2>2, <1>1
<1> QED
  BY <1>1, <1>4, <1>5

\* A slice has as many ids as blocks.
LEMMA SliceHasDistinctIDs ==
    ASSUME NEW A \in SUBSET Inputs, NEW s, IsSlice(s, A)
    PROVE  Cardinality({s[i].id : i \in 1..Len(s)}) = Len(s)
<1>1. s \in Seq(Block) /\ Len(s) \in Nat
  BY DEF IsSlice
<1> DEFINE T == {s[i].id : i \in 1..Len(s)}
           f == [i \in 1..Len(s) |-> s[i].id]
<1>2. f \in Bijection(1..Len(s), T)
  <2>1. f \in [1..Len(s) -> T] /\ \A x \in T : \E i \in 1..Len(s) : f[i] = x
    OBVIOUS
  <2>2. \A i, j \in 1..Len(s) : f[i] = f[j] => i = j
    BY DEF IsSlice
  <2> HIDE DEF f, T
  <2> QED
    BY <2>1, <2>2 DEF Bijection, Injection, Surjection, IsInjective
<1>3. ExistsBijection(1..Len(s), T)
  BY <1>2 DEF ExistsBijection
<1>4. IsFiniteSet(1..Len(s)) /\ Cardinality(1..Len(s)) = Len(s)
  <2>1. /\ 1 \in Int /\ Len(s) \in Int
    BY <1>1
  <2>2. IsFiniteSet(1..Len(s)) /\ Cardinality(1..Len(s)) = IF 1 > Len(s) THEN 0 ELSE Len(s) - 1 + 1
    BY <2>1, FS_Interval
  <2> QED
    BY <2>2, <1>1
<1>5. Cardinality(T) = Cardinality(1..Len(s))
  <2> HIDE DEF T
  <2> QED
    BY <1>3, <1>4, FS_Bijection
<1> QED
  BY <1>4, <1>5

\* The invariant says what the run checks.
LEMMA InvariantImplies == FInv => ScreenFollowsMessages
<1> SUFFICES ASSUME FInv PROVE ScreenFollowsMessages
  OBVIOUS
<1>1. IsSlice(cachedBlocks, Placed) /\ cachedBlocks \in Seq(Block)
  BY DEF FInv, SlicesHold, IsSlice
<1>2. TypeOK
  BY <1>1 DEF FInv, TypesHold, TypeOK
<1>3. Cardinality(BlockIDs) = Len(cachedBlocks)
  BY <1>1, SliceHasDistinctIDs DEF BlockIDs, Placed
<1>4. ASSUME ~overlap, NEW u \in Inputs
      PROVE  BlockID(u) \in BlockIDs <=> at[u] \notin Adding
  <2>1. CASE at[u] \notin Adding
    BY <2>1, <1>4 DEF FInv, OneAtATime, BlockIDs, Covers, Placed
  <2>2. ASSUME BlockID(u) \in BlockIDs PROVE at[u] \notin Adding
    <3>1. PICK i \in 1..Len(cachedBlocks) : cachedBlocks[i].id = BlockID(u)
      BY <2>2 DEF BlockIDs
    <3>2. PICK v \in Placed : cachedBlocks[i].id = BlockID(v)
      BY <1>1 DEF IsSlice
    <3>3. u = v
      BY <3>1, <3>2 DEF BlockID
    <3> QED
      BY <3>2, <3>3 DEF Placed
  <2> QED
    BY <2>1, <2>2
<1>5. SelectionInBounds
  BY DEF FInv, OneAtATime, SelectionInBounds
<1>6. EveryMessageHasBlock
  BY <1>2, <1>3, <1>4 DEF EveryMessageHasBlock
<1> QED
  BY <1>5, <1>6 DEF FInv, ScreenFollowsMessages

LEMMA InitEstablishes == Init => FInv
<1> SUFFICES ASSUME Init PROVE FInv
  OBVIOUS
<1>1. Cardinality(Inputs) \in Nat
  BY FS_CardinalityType, FlowAssumption
<1>2. TypesHold
  <2>1. \A u \in Inputs : <<>> \in Seq(Block)
    OBVIOUS
  <2> QED
    BY <1>1, <2>1 DEF Init, TypesHold, Places
<1>3. IsSlice(<<>>, Placed)
  BY DEF IsSlice
<1>4. SlicesHold
  BY <1>3 DEF Init, SlicesHold
<1>5. OneAtATime
  BY DEF Init, OneAtATime, GoingOn, Adding, Covers, Placed
<1>6. ProcessingIsGoingOn
  BY DEF Init, ProcessingIsGoingOn
<1> QED
  BY <1>2, <1>4, <1>5, <1>6 DEF FInv

-----------------------------------------------------------------------------
\* What a step does to the slice when it only changes what blocks say: the ids
\* and their order stay.
SameIDs(s, t) ==
    /\ t \in Seq(Block) /\ Len(t) = Len(s)
    /\ \A i \in 1..Len(s) : t[i].id = s[i].id

\* Some blocks are changed, but not their ids.
LEMMA SomeBlocksChanged ==
    ASSUME NEW s \in Seq(Block), NEW F, NEW new \in [Block -> Block],
           \A b \in Block : new[b].id = b.id
    PROVE  SameIDs(s, [i \in 1..Len(s) |-> IF i \in F THEN new[s[i]] ELSE s[i]])
<1> DEFINE el(i) == IF i \in F THEN new[s[i]] ELSE s[i]
           t == [i \in 1..Len(s) |-> el(i)]
<1>1. Len(s) \in Nat /\ \A i \in 1..Len(s) : s[i] \in Block
  OBVIOUS
<1>2. \A i \in 1..Len(s) : el(i) \in Block /\ el(i).id = s[i].id
  BY <1>1
<1> SUFFICES SameIDs(s, t)
  OBVIOUS
<1> HIDE DEF el
<1>3. t \in [1..Len(s) -> Block]
  BY <1>2
<1>4. t \in Seq(Block) /\ Len(t) = Len(s)
  BY <1>1, <1>3
<1> QED
  BY <1>2, <1>4 DEF SameIDs

LEMMA UpdateKeepsIDs ==
    ASSUME cachedBlocks \in Seq(Block), NEW id, NEW status \in Statuses,
           UpdateConversationStatus(id, status)
    PROVE  SameIDs(cachedBlocks, cachedBlocks')
<1> DEFINE F == {i \in 1..Len(cachedBlocks) : IsFirst(i, id)}
           new == [b \in Block |-> [b EXCEPT !.status = status]]
<1>1. new \in [Block -> Block] /\ \A b \in Block : new[b].id = b.id
  BY DEF Block
<1>2. \A i \in 1..Len(cachedBlocks) : cachedBlocks[i] \in Block
  OBVIOUS
<1>3. cachedBlocks' = [i \in 1..Len(cachedBlocks) |->
                          IF i \in F THEN new[cachedBlocks[i]] ELSE cachedBlocks[i]]
  BY <1>2 DEF UpdateConversationStatus
<1> HIDE DEF F, new
<1> QED
  BY <1>1, <1>3, SomeBlocksChanged

\* The slice with the response to a message.
WithResponse(id, calls) == [i \in 1..Len(cachedBlocks) |->
                IF IsFirst(i, id)
                THEN [cachedBlocks[i] EXCEPT
                        !.response = TRUE,
                        !.status = IF calls THEN @ ELSE "completed"]
                ELSE cachedBlocks[i]]

LEMMA ResponseKeepsIDs ==
    ASSUME cachedBlocks \in Seq(Block), NEW id, NEW calls \in BOOLEAN
    PROVE  SameIDs(cachedBlocks, WithResponse(id, calls))
<1> DEFINE F == {i \in 1..Len(cachedBlocks) : IsFirst(i, id)}
           new == [b \in Block |-> [b EXCEPT
                                      !.response = TRUE,
                                      !.status = IF calls THEN @ ELSE "completed"]]
<1>1. new \in [Block -> Block] /\ \A b \in Block : new[b].id = b.id
  BY DEF Block, Statuses
<1>2. \A i \in 1..Len(cachedBlocks) : cachedBlocks[i] \in Block
  OBVIOUS
<1>3. WithResponse(id, calls) = [i \in 1..Len(cachedBlocks) |->
                          IF i \in F THEN new[cachedBlocks[i]] ELSE cachedBlocks[i]]
  BY <1>2 DEF WithResponse
<1> HIDE DEF F, new
<1>4. SameIDs(cachedBlocks, [i \in 1..Len(cachedBlocks) |->
                          IF i \in F THEN new[cachedBlocks[i]] ELSE cachedBlocks[i]])
  BY <1>1, SomeBlocksChanged, Zenon
<1> QED
  BY <1>3, <1>4, Zenon

LEMMA SameIsSameIDs == cachedBlocks \in Seq(Block) /\ cachedBlocks' = cachedBlocks
                        => SameIDs(cachedBlocks, cachedBlocks')
  BY DEF SameIDs

\* A slice whose blocks keep their ids is one, of more messages too.
LEMMA SliceStays ==
    ASSUME NEW A, NEW B, A \subseteq B, NEW s, IsSlice(s, A), NEW t, SameIDs(s, t)
    PROVE  IsSlice(t, B)
  BY DEF IsSlice, SameIDs

\* The block of a message that has none yet is appended.
LEMMA SliceGrows ==
    ASSUME NEW A, NEW u \in Inputs, u \notin A, NEW s, IsSlice(s, A),
           NEW b \in Block, b.id = BlockID(u), NEW t, t = Append(s, b)
    PROVE  /\ IsSlice(t, A \cup {u})
           /\ Len(t) = Len(s) + 1 /\ Len(s) \in Nat
           /\ Covers(s, A) => Covers(t, A \cup {u})
<1>1. /\ s \in Seq(Block) /\ Len(s) \in Nat
      /\ t \in Seq(Block) /\ Len(t) = Len(s) + 1 /\ t[Len(s) + 1] = b
      /\ \A i \in 1..Len(s) : t[i] = s[i]
  BY DEF IsSlice
<1>2. \A i \in 1..Len(t) : i \in 1..Len(s) \/ i = Len(s) + 1
  BY <1>1
<1>3. Len(s) + 1 \in 1..Len(t) /\ 1..Len(s) \subseteq 1..Len(t)
  BY <1>1
<1>4. \A i \in 1..Len(s) : s[i].id # BlockID(u)
  BY DEF IsSlice, BlockID
<1>5. \A i \in 1..Len(t) : \E v \in A \cup {u} : t[i].id = BlockID(v)
  BY <1>1, <1>2 DEF IsSlice
<1>6. ASSUME NEW i \in 1..Len(t), NEW j \in 1..Len(t), t[i].id = t[j].id PROVE i = j
  BY <1>1, <1>2, <1>4, <1>6 DEF IsSlice
<1>7. Covers(s, A) => Covers(t, A \cup {u})
  BY <1>1, <1>3 DEF Covers
<1> QED
  BY <1>1, <1>5, <1>6, <1>7 DEF IsSlice

-----------------------------------------------------------------------------
\* A step of one chain that appends nothing: it goes on to another place, its
\* slice keeps its ids and what it has read of it is all of it.
LEMMA QuietStep ==
    ASSUME FInv, NEW u \in Inputs, NEW place \in Places \ {"unsent"}, Goto(u, place),
           at[u] \in Adding <=> place \in Adding,
           SameIDs(cachedBlocks, cachedBlocks'),
           overlap' = overlap,
           GoingOn(u) \/ overlap \/ \A v \in Inputs : ~GoingOn(v),
           \/ place # "store_blocks" /\ loaded' = loaded
           \/ /\ place = "store_blocks" /\ loaded' = [loaded EXCEPT ![u] = cachedBlocks]
              /\ cachedBlocks' = cachedBlocks,
           selected' = selected \/ selected' = Len(cachedBlocks) - 1
    PROVE  /\ SlicesHold'
           /\ ~overlap' => OneAtATime'
           /\ at' \in [Inputs -> Places]
           /\ loaded' \in [Inputs -> Seq(Block)]
           /\ selected' \in -1..(Cardinality(Inputs) - 1)
<1>1. TypesHold /\ SlicesHold /\ (~overlap => OneAtATime) /\ IsSlice(cachedBlocks, Placed)
  BY DEF FInv, SlicesHold
<1>2. cachedBlocks \in Seq(Block) /\ Len(cachedBlocks) \in Nat
      /\ Len(cachedBlocks) <= Cardinality(Inputs) /\ Cardinality(Inputs) \in Nat
  <2>1. Placed \in SUBSET Inputs
    BY DEF Placed
  <2> QED
    BY <1>1, <2>1, SliceIsBounded, FS_CardinalityType, FlowAssumption DEF IsSlice
<1>3. at' \in [Inputs -> Places] /\ at'[u] = place /\ \A v \in Inputs : v # u => at'[v] = at[v]
  BY <1>1 DEF TypesHold, Goto
<1>4. Placed' = Placed
  BY <1>3 DEF Placed
<1>5. \A v \in Inputs : loaded'[v] = loaded[v] \/ loaded'[v] = cachedBlocks
  BY <1>1 DEF TypesHold
<1>6. loaded' \in [Inputs -> Seq(Block)]
  BY <1>1, <1>2 DEF TypesHold
<1>7. SlicesHold'
  <2>1. \A v \in Inputs : IsSlice(loaded'[v], Placed)
    BY <1>1, <1>5 DEF SlicesHold
  <2>2. IsSlice(cachedBlocks', Placed)
    BY <1>1, SliceStays
  <2> QED
    BY <2>1, <2>2, <1>4 DEF SlicesHold
<1>8. ASSUME ~overlap PROVE OneAtATime'
  <2>1. OneAtATime
    BY <1>1, <1>8
  <2>2. \A v \in Inputs : v # u => ~GoingOn(v)
    BY <1>8, <2>1 DEF OneAtATime
  <2>3. \A v \in Inputs : v # u => ~(at'[v] \notin Ended \cup {"unsent"})
    BY <1>3, <2>2 DEF GoingOn
  <2>4. \A v, w \in Inputs : GoingOn(v)' /\ GoingOn(w)' => v = w
    BY <2>3 DEF GoingOn
  <2>5. ASSUME NEW v \in Inputs, at'[v] = "store_blocks" PROVE loaded'[v] = cachedBlocks'
    <3>1. v = u
      BY <2>3, <2>5 DEF Ended
    <3> QED
      BY <3>1, <2>5, <1>1, <1>3 DEF TypesHold
  <2>6. Covers(cachedBlocks', Placed')
    BY <2>1, <1>4 DEF OneAtATime, SameIDs, Covers
  <2>7. selected' < Len(cachedBlocks')
    BY <1>1, <1>2, <2>1 DEF OneAtATime, SameIDs, TypesHold
  <2> QED
    BY <2>4, <2>5, <2>6, <2>7 DEF OneAtATime
<1>9. selected' \in -1..(Cardinality(Inputs) - 1)
  BY <1>1, <1>2 DEF TypesHold
<1> QED
  BY <1>3, <1>6, <1>7, <1>8, <1>9

\* The marks a step may set and take away.
LEMMA MarksStep ==
    ASSUME FInv, NEW u \in Inputs, NEW place \in Places, Goto(u, place),
           GoingOn(u) \/ at[u] = "unsent",
           \/ processingMessages' = processingMessages /\ place \notin {"complete", "failed"}
           \/ processingMessages' = processingMessages \ {ConversationID(u)}
           \/ /\ processingMessages' = processingMessages \cup {ConversationID(u)}
              /\ place \notin {"complete", "failed"}
    PROVE  /\ processingMessages' \subseteq {ConversationID(v) : v \in Inputs}
           /\ ProcessingIsGoingOn'
<1>1. TypesHold /\ ProcessingIsGoingOn
  BY DEF FInv
<1>2. processingMessages' \subseteq {ConversationID(v) : v \in Inputs}
  BY <1>1 DEF TypesHold
<1>3. at'[u] = place /\ \A v \in Inputs : v # u => at'[v] = at[v]
  BY <1>1 DEF TypesHold, Goto
<1>4. \A v \in Inputs : v # u => ConversationID(v) # ConversationID(u)
  BY DEF ConversationID
<1>5. ASSUME NEW v \in Inputs, at'[v] \in {"complete", "failed"}
      PROVE  ConversationID(v) \notin processingMessages'
  <2>1. CASE v = u
    BY <2>1, <1>3, <1>5
  <2>2. CASE v # u
    BY <2>2, <1>1, <1>3, <1>4, <1>5 DEF ProcessingIsGoingOn
  <2> QED
    BY <2>1, <2>2
<1> QED
  BY <1>2, <1>5 DEF ProcessingIsGoingOn

\* Together: every step but the appending one and the moves of the selection.
LEMMA ChainStep ==
    ASSUME FInv, NEW u \in Inputs, NEW place \in Places \ {"unsent"}, Goto(u, place),
           at[u] \in Adding <=> place \in Adding,
           SameIDs(cachedBlocks, cachedBlocks'),
           overlap' = overlap,
           \/ GoingOn(u)
           \/ at[u] = "unsent" /\ (overlap \/ \A v \in Inputs : ~GoingOn(v)),
           \/ place # "store_blocks" /\ loaded' = loaded
           \/ /\ place = "store_blocks" /\ loaded' = [loaded EXCEPT ![u] = cachedBlocks]
              /\ cachedBlocks' = cachedBlocks,
           selected' = selected \/ selected' = Len(cachedBlocks) - 1,
           \/ processingMessages' = processingMessages /\ place \notin {"complete", "failed"}
           \/ processingMessages' = processingMessages \ {ConversationID(u)}
           \/ /\ processingMessages' = processingMessages \cup {ConversationID(u)}
              /\ place \notin {"complete", "failed"},
           tools' \in [Inputs -> BOOLEAN]
    PROVE  FInv'
<1>1. /\ SlicesHold'
      /\ ~overlap' => OneAtATime'
      /\ at' \in [Inputs -> Places]
      /\ loaded' \in [Inputs -> Seq(Block)]
      /\ selected' \in -1..(Cardinality(Inputs) - 1)
  BY QuietStep
<1>2. processingMessages' \subseteq {ConversationID(v) : v \in Inputs} /\ ProcessingIsGoingOn'
  BY MarksStep
<1>3. overlap' \in BOOLEAN
  BY DEF FInv, TypesHold
<1> QED
  BY <1>1, <1>2, <1>3 DEF FInv, TypesHold

\* AddConversation's write: what it has read is a slice, and its message has
\* no block in it.
LEMMA StoreStep == ASSUME FInv, NEW u \in Inputs, StoreBlocks(u) PROVE FInv'
<1> DEFINE b == [id |-> BlockID(u), status |-> "completed", response |-> FALSE]
<1>1. /\ TypesHold /\ SlicesHold /\ (~overlap => OneAtATime) /\ ProcessingIsGoingOn
      /\ IsSlice(loaded[u], Placed) /\ at[u] = "store_blocks"
  BY DEF FInv, SlicesHold, StoreBlocks
<1>2. /\ at' = [at EXCEPT ![u] = "select"]
      /\ cachedBlocks' = Append(loaded[u], b)
      /\ loaded' = [loaded EXCEPT ![u] = <<>>]
      /\ UNCHANGED <<overlap, selected, processingMessages, tools>>
  BY DEF StoreBlocks, Goto
<1>3. at' \in [Inputs -> Places] /\ at'[u] = "select" /\ \A v \in Inputs : v # u => at'[v] = at[v]
  BY <1>1, <1>2 DEF TypesHold, Places
<1>4. b \in Block /\ b.id = BlockID(u)
  BY DEF Block, BlockID, ConvIDs, Statuses
<1> HIDE DEF b
<1>5. u \in Inputs \ Placed /\ Placed \in SUBSET Inputs /\ Placed' = Placed \cup {u}
  BY <1>1, <1>3 DEF Placed, Adding
<1>6. /\ IsSlice(cachedBlocks', Placed')
      /\ Len(cachedBlocks') = Len(loaded[u]) + 1 /\ Len(loaded[u]) \in Nat
      /\ Covers(loaded[u], Placed) => Covers(cachedBlocks', Placed')
  <2> DEFINE t == cachedBlocks'
  <2>1. t = Append(loaded[u], b)
    BY <1>2
  <2> HIDE DEF t
  <2>2. /\ IsSlice(t, Placed \cup {u})
        /\ Len(t) = Len(loaded[u]) + 1 /\ Len(loaded[u]) \in Nat
        /\ Covers(loaded[u], Placed) => Covers(t, Placed \cup {u})
    <3>1. IsSlice(loaded[u], Placed) /\ b \in Block /\ b.id = BlockID(u)
          /\ u \notin Placed
      BY <1>1, <1>4, <1>5
    <3>2. IsSlice(t, Placed \cup {u})
      BY <2>1, <3>1, SliceGrows
    <3>3. Len(t) = Len(loaded[u]) + 1
      BY <2>1, <3>1, SliceGrows
    <3>4. Len(loaded[u]) \in Nat
      BY <3>1 DEF IsSlice
    <3>5. Covers(loaded[u], Placed) => Covers(t, Placed \cup {u})
      BY <2>1, <3>1, SliceGrows
    <3> QED
      BY <3>2, <3>3, <3>4, <3>5
  <2> QED
    BY <2>2, <1>5 DEF t
<1>7. SlicesHold'
  <2>1. IsSlice(<<>>, Placed')
    BY DEF IsSlice
  <2>2. ASSUME NEW v \in Inputs, v # u PROVE IsSlice(loaded'[v], Placed')
    <3>1. IsSlice(loaded[v], Placed) /\ loaded'[v] = loaded[v] /\ SameIDs(loaded[v], loaded[v])
      BY <1>1, <1>2, <2>2 DEF SlicesHold, TypesHold, SameIDs
    <3> QED
      BY <3>1, <1>5, SliceStays
  <2>3. loaded'[u] = <<>>
    BY <1>1, <1>2 DEF TypesHold
  <2>4. \A v \in Inputs : IsSlice(loaded'[v], Placed')
    BY <2>1, <2>2, <2>3
  <2> QED
    BY <1>6, <2>4 DEF SlicesHold
<1>8. ASSUME ~overlap PROVE OneAtATime'
  <2>1. OneAtATime /\ loaded[u] = cachedBlocks
    BY <1>1, <1>8 DEF OneAtATime
  <2>2. \A v \in Inputs : v # u => ~GoingOn(v)
    BY <1>1, <2>1 DEF OneAtATime, GoingOn, Ended
  <2>3. \A v \in Inputs : v # u => at'[v] \in Ended \cup {"unsent"}
    BY <1>3, <2>2 DEF GoingOn
  <2>4. \A v, w \in Inputs : GoingOn(v)' /\ GoingOn(w)' => v = w
    BY <2>3 DEF GoingOn
  <2>5. \A v \in Inputs : at'[v] # "store_blocks"
    BY <1>3, <2>3 DEF Ended
  <2>6. Covers(cachedBlocks', Placed')
    BY <2>1, <1>6 DEF OneAtATime
  <2>7. selected' < Len(cachedBlocks')
    BY <1>1, <1>2, <1>6, <2>1 DEF OneAtATime, TypesHold
  <2> QED
    BY <2>4, <2>5, <2>6, <2>7 DEF OneAtATime
<1>9. ProcessingIsGoingOn'
  BY <1>1, <1>2, <1>3 DEF ProcessingIsGoingOn
<1>10. TypesHold'
  <2>1. loaded' \in [Inputs -> Seq(Block)]
    <3>1. <<>> \in Seq(Block)
      OBVIOUS
    <3> QED
      BY <3>1, <1>1, <1>2 DEF TypesHold
  <2> QED
    BY <1>1, <1>2, <1>3, <2>1 DEF TypesHold
<1> QED
  BY <1>2, <1>7, <1>8, <1>9, <1>10 DEF FInv

-----------------------------------------------------------------------------
LEMMA NextPreserves == FInv /\ [Next]_vars => FInv'
<1> SUFFICES ASSUME FInv, [Next]_vars PROVE FInv'
  OBVIOUS
<1>1. TypesHold /\ cachedBlocks \in Seq(Block) /\ tools \in [Inputs -> BOOLEAN]
  BY DEF FInv, TypesHold, SlicesHold, IsSlice
<1>2. cachedBlocks' = cachedBlocks => SameIDs(cachedBlocks, cachedBlocks')
  BY <1>1, SameIsSameIDs
<1> USE DEF Goto, GoingOn, Ended, Adding, Places
<1>3. ASSUME NEW u \in Inputs, SendMessage(u) PROVE FInv'
  <2>1. \A v \in Inputs : (at[v] \in Ended \cup {"unsent"}) <=> ~GoingOn(v)
    OBVIOUS
  <2> QED
    BY <1>1, <1>2, <1>3, <2>1, ChainStep DEF SendMessage
<1>4. ASSUME NEW u \in Inputs, LoadBlocks(u) PROVE FInv'
  BY <1>1, <1>2, <1>4, ChainStep DEF LoadBlocks
<1>5. ASSUME NEW u \in Inputs, SelectNewest(u) PROVE FInv'
  BY <1>1, <1>2, <1>5, ChainStep DEF SelectNewest
<1>6. ASSUME NEW u \in Inputs, StartProcessing(u) PROVE FInv'
  <2>1. SameIDs(cachedBlocks, cachedBlocks')
    BY <1>1, <1>6, UpdateKeepsIDs DEF StartProcessing, Statuses
  <2> QED
    BY <1>1, <2>1, <1>6, ChainStep DEF StartProcessing
<1>7. ASSUME NEW u \in Inputs, StartLLMStreaming(u) PROVE FInv'
  BY <1>1, <1>2, <1>7, ChainStep DEF StartLLMStreaming
<1>8. ASSUME NEW u \in Inputs, LLMFails(u) PROVE FInv'
  BY <1>1, <1>2, <1>8, ChainStep DEF LLMFails
<1>9. ASSUME NEW u \in Inputs, HandleLLMResponseComplete(u) PROVE FInv'
  <2>1. PICK calls \in BOOLEAN :
          /\ tools' = [tools EXCEPT ![u] = calls]
          /\ cachedBlocks' = WithResponse(ConversationID(u), calls)
          /\ Goto(u, IF calls THEN "execute_tools" ELSE "complete_msg")
    BY <1>9 DEF HandleLLMResponseComplete, WithResponse
  <2>2. SameIDs(cachedBlocks, cachedBlocks')
    BY <1>1, <2>1, ResponseKeepsIDs
  <2>3. tools' \in [Inputs -> BOOLEAN]
    BY <1>1, <2>1
  <2>4. /\ at[u] = "streaming" /\ Goto(u, IF calls THEN "execute_tools" ELSE "complete_msg")
        /\ UNCHANGED <<overlap, selected, processingMessages, loaded>>
    BY <2>1, <1>9 DEF HandleLLMResponseComplete
  <2>5. CASE calls
    BY <2>2, <2>3, <2>4, <2>5, ChainStep
  <2>6. CASE ~calls
    BY <2>2, <2>3, <2>4, <2>6, ChainStep
  <2> QED
    BY <2>5, <2>6
<1>10. ASSUME NEW u \in Inputs, ExecuteToolCalls(u) PROVE FInv'
  <2>1. SameIDs(cachedBlocks, cachedBlocks')
    BY <1>1, <1>10, UpdateKeepsIDs DEF ExecuteToolCalls, Statuses
  <2> QED
    BY <1>1, <2>1, <1>10, ChainStep DEF ExecuteToolCalls
<1>11. ASSUME NEW u \in Inputs, OnMessageProcessingStarted(u) PROVE FInv'
  BY <1>1, <1>2, <1>11, ChainStep DEF OnMessageProcessingStarted
<1>12. ASSUME NEW u \in Inputs, OnMessageProcessingError(u) PROVE FInv'
  <2>1. SameIDs(cachedBlocks, cachedBlocks')
    BY <1>1, <1>12, UpdateKeepsIDs DEF OnMessageProcessingError, Statuses
  <2> QED
    BY <1>1, <2>1, <1>12, ChainStep DEF OnMessageProcessingError
<1>13. ASSUME NEW u \in Inputs, OnMessageProcessingComplete(u) PROVE FInv'
  BY <1>1, <1>2, <1>13, ChainStep DEF OnMessageProcessingComplete
<1>14. ASSUME NEW u \in Inputs, OnToolExecutionComplete(u) PROVE FInv'
  <2>1. SameIDs(cachedBlocks, cachedBlocks')
    BY <1>1, <1>14, UpdateKeepsIDs DEF OnToolExecutionComplete, Statuses
  <2> QED
    BY <1>1, <2>1, <1>14, ChainStep DEF OnToolExecutionComplete
<1>15. ASSUME MoveSelection PROVE FInv'
  <2>1. /\ UNCHANGED <<overlap, cachedBlocks, processingMessages, at, loaded, tools>>
        /\ \/ selected > 0 /\ selected' = selected - 1
           \/ selected < Len(cachedBlocks) - 1 /\ selected' = selected + 1
    BY <1>15 DEF MoveSelection
  <2>2. Len(cachedBlocks) \in Nat /\ Len(cachedBlocks) <= Cardinality(Inputs)
        /\ Cardinality(Inputs) \in Nat
    <3>1. Placed \in SUBSET Inputs /\ IsSlice(cachedBlocks, Placed)
      BY DEF Placed, FInv, SlicesHold
    <3> QED
      BY <3>1, SliceIsBounded, FS_CardinalityType, FlowAssumption
  <2>3. TypesHold'
    BY <1>1, <2>1, <2>2 DEF TypesHold
  <2>4. SlicesHold' /\ ProcessingIsGoingOn'
    BY <2>1 DEF FInv, SlicesHold, ProcessingIsGoingOn, Placed
  <2>5. ~overlap => OneAtATime'
    BY <1>1, <2>1, <2>2 DEF FInv, OneAtATime, TypesHold, Placed, Covers
  <2> QED
    BY <2>1, <2>3, <2>4, <2>5 DEF FInv
<1>16. CASE UNCHANGED vars
  BY <1>16 DEF vars, FInv, TypesHold, SlicesHold, ProcessingIsGoingOn, OneAtATime, Placed
<1> QED
  BY <1>3, <1>4, <1>5, <1>6, <1>7, <1>8, <1>9, <1>10, <1>11, <1>12, <1>13, <1>14, <1>15,
     <1>16, StoreStep DEF Next, Step

\* Blocks, selection and processing marks follow the messages, for every number
\* of them: unless they overlap, each has its block once (AddConversation), the
\* selection is one, and no mark outlives the end of its chain.
THEOREM MessagesShowOnScreen == Spec => []ScreenFollowsMessages
<1>1. FInv /\ [Next]_vars => FInv'
  BY NextPreserves
<1> QED
  BY <1>1, InitEstablishes, InvariantImplies, PTL DEF Spec
=============================================================================
