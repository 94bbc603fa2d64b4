------------------------------ MODULE LRUList ------------------------------
(***************************************************************************)
(* The doubly linked ring behind LRUCache (internal/storage/manager.go),   *)
(* at the grain of its pointer assignments.  Get holds only the read lock  *)
(* while MoveToFront relinks the ring, so that the assignments of two Gets *)
(* interleave; Put and Remove hold the write lock.  The ring is that of    *)
(* container/list, modelled from how the cache uses it.                    *)
(***************************************************************************)
EXTENDS Integers, Sequences, FiniteSets

CONSTANTS Keys, Readers, MaxSize, Root, Nil

ASSUME ListAssumption == /\ IsFiniteSet(Keys)
                         /\ MaxSize \in Nat \ {0}
                         /\ Root \notin Keys
                         /\ Nil \notin Keys \cup {Root}

VARIABLES
    nxt, prv,  \* Element.next and Element.prev; Root is the sentinel
    items,     \* the keys of LRUCache.items
    pc, key,   \* each reader: its next assignment, the key it looks up
    recency    \* history: the cached keys, the last used first

listVars == <<nxt, prv, items, pc, key, recency>>

Nodes == Keys \cup {Root}

ListInit ==
    /\ nxt = [n \in Nodes |-> IF n = Root THEN Root ELSE Nil]
    /\ prv = nxt
    /\ items = {}
    /\ pc = [r \in Readers |-> "idle"]
    /\ key = [r \in Readers |-> Nil]
    /\ recency = <<>>

WithoutNth(s, p) == [i \in 1..(Len(s) - 1) |-> IF i < p THEN s[i] ELSE s[i + 1]]
WithoutKey(s, k) == IF \E p \in DOMAIN s : s[p] = k
                    THEN WithoutNth(s, CHOOSE p \in DOMAIN s : s[p] = k)
                    ELSE s

\* An assignment through a pointer; through nil it changes nothing here (the
\* program panics).
Set(f, n, v) == IF n \in Nodes THEN [f EXCEPT ![n] = v] ELSE f
At(f, n) == IF n \in Nodes THEN f[n] ELSE Nil

-----------------------------------------------------------------------------
\* list.insert after the sentinel, list.remove, on a ring [next, prev].

Insert(l, k) ==
    LET linked == [n |-> [l.n EXCEPT ![k] = l.n[Root]],
                   p |-> [l.p EXCEPT ![k] = Root]]
    IN  [n |-> [linked.n EXCEPT ![Root] = k],
         p |-> Set(linked.p, linked.n[k], k)]

Unlink(l, k) ==
    LET bypassed == [n |-> Set(l.n, l.p[k], l.n[k]),
                     p |-> Set(l.p, l.n[k], l.p[k])]
    IN  [n |-> [bypassed.n EXCEPT ![k] = Nil],
         p |-> [bypassed.p EXCEPT ![k] = Nil]]

Ring == [n |-> nxt, p |-> prv]

Becomes(l) == nxt' = l.n /\ prv' = l.p

WriteLocked == \A r \in Readers : pc[r] = "idle"

\* Put: an existing key moves to the front, a new one is pushed and the back
\* of the list evicted when the list is too long.
Put(k) ==
    /\ WriteLocked
    /\ IF k \in items
       THEN /\ Becomes(IF nxt[Root] = k THEN Ring ELSE Insert(Unlink(Ring, k), k))
            /\ UNCHANGED items
            /\ recency' = <<k>> \o WithoutKey(recency, k)
       ELSE LET pushed == Insert(Ring, k)
                back == pushed.p[Root]
                full == Cardinality(items) >= MaxSize /\ back \in Keys
            IN  /\ Becomes(IF full THEN Unlink(pushed, back) ELSE pushed)
                /\ items' = (items \cup {k}) \ (IF full THEN {back} ELSE {})
                /\ recency' = SubSeq(<<k>> \o recency, 1, Cardinality(items'))
    /\ UNCHANGED <<pc, key>>

RemoveItem(k) ==
    /\ WriteLocked
    /\ k \in items
    /\ Becomes(Unlink(Ring, k))
    /\ items' = items \ {k}
    /\ recency' = WithoutKey(recency, k)
    /\ UNCHANGED <<pc, key>>

-----------------------------------------------------------------------------
\* Get: the look-up, and the six assignments of list.move(e, root).

\* Mutant: a look-up that does not count as a use.
FindOnly(r, k) ==
    /\ pc[r] = "idle"
    /\ k \in items
    /\ recency' = <<k>> \o WithoutKey(recency, k)
    /\ UNCHANGED <<nxt, prv, items, pc, key>>

Find(r, k) ==
    /\ pc[r] = "idle"
    /\ k \in items
    /\ pc' = [pc EXCEPT ![r] = IF nxt[Root] = k THEN "idle" ELSE "skip_forward"]
    /\ key' = [key EXCEPT ![r] = IF nxt[Root] = k THEN Nil ELSE k]
    /\ recency' = <<k>> \o WithoutKey(recency, k)
    /\ UNCHANGED <<nxt, prv, items>>

Step(r, from, to) == /\ pc[r] = from
                     /\ pc' = [pc EXCEPT ![r] = to]
                     /\ UNCHANGED <<key, items, recency>>

SkipForward(r) ==   \* e.prev.next = e.next
    /\ Step(r, "skip_forward", "skip_back")
    /\ nxt' = Set(nxt, prv[key[r]], nxt[key[r]])
    /\ UNCHANGED prv

SkipBack(r) ==      \* e.next.prev = e.prev
    /\ Step(r, "skip_back", "set_prev")
    /\ prv' = Set(prv, nxt[key[r]], prv[key[r]])
    /\ UNCHANGED nxt

SetPrev(r) ==       \* e.prev = at
    /\ Step(r, "set_prev", "set_next")
    /\ prv' = [prv EXCEPT ![key[r]] = Root]
    /\ UNCHANGED nxt

SetNext(r) ==       \* e.next = at.next
    /\ Step(r, "set_next", "link_prev")
    /\ nxt' = [nxt EXCEPT ![key[r]] = nxt[Root]]
    /\ UNCHANGED prv

LinkPrev(r) ==      \* e.prev.next = e
    /\ Step(r, "link_prev", "link_next")
    /\ nxt' = Set(nxt, prv[key[r]], key[r])
    /\ UNCHANGED prv

LinkNext(r) ==      \* e.next.prev = e, and the read lock is released
    /\ pc[r] = "link_next"
    /\ prv' = Set(prv, nxt[key[r]], key[r])
    /\ pc' = [pc EXCEPT ![r] = "idle"]
    /\ key' = [key EXCEPT ![r] = Nil]
    /\ UNCHANGED <<nxt, items, recency>>

ListNext ==
    \/ \E k \in Keys : Put(k) \/ RemoveItem(k)
    \/ \E r \in Readers :
        \/ \E k \in Keys : Find(r, k)
        \/ SkipForward(r) \/ SkipBack(r) \/ SetPrev(r)
        \/ SetNext(r) \/ LinkPrev(r) \/ LinkNext(r)

\* The list by itself.
ListSpec == ListInit /\ [][ListNext]_listVars

-----------------------------------------------------------------------------
\* The keys met from the sentinel along next.
Walk[i \in 0..(Cardinality(Keys) + 1)] == IF i = 0 THEN Root ELSE At(nxt, Walk[i - 1])

\* Type invariant; a reader has a key exactly while it is inside Get.
ListTypeOK ==
    /\ nxt \in [Nodes -> Nodes \cup {Nil}]
    /\ prv \in [Nodes -> Nodes \cup {Nil}]
    /\ items \subseteq Keys
    /\ pc \in [Readers -> {"idle", "skip_forward", "skip_back", "set_prev",
                           "set_next", "link_prev", "link_next"}]
    /\ key \in [Readers -> Keys \cup {Nil}]
    /\ \A r \in Readers : pc[r] = "idle" <=> key[r] = Nil

\* The types hold and, whenever no call is inside, the ring lists the cached
\* keys in the order of their last use: the back of the list is the key to evict.
RingIsRecency ==
    /\ ListTypeOK
    /\ WriteLocked =>
        /\ items = {recency[i] : i \in DOMAIN recency}
        /\ \A i \in DOMAIN recency : Walk[i] = recency[i]

\* "LRUCache implements a thread-safe LRU cache for conversations": whenever
\* no call is inside, the ring closes over exactly the cached keys, and
\* reads the same in both directions.
RingIntact ==
    WriteLocked =>
        /\ items = {Walk[i] : i \in 1..Cardinality(items)}
        /\ Walk[Cardinality(items) + 1] = Root
        /\ \A n \in items \cup {Root} : At(prv, nxt[n]) = n
=============================================================================
