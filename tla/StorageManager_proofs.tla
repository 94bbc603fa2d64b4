------------------------ MODULE StorageManager_proofs ------------------------
(***************************************************************************)
(* Proofs about StorageManager: its LRU cache stays well formed, and what  *)
(* it caches is what the tables hold, for any number of goroutines, any    *)
(* conversations and any cache size.                                       *)
(***************************************************************************)
EXTENDS StorageManager, FiniteSetTheorems, SequenceTheorems, TLAPS

-----------------------------------------------------------------------------
\* Lemmas about the LRU cache.

\* PushFront puts id before the list.
LEMMA PushFrontProperties ==
    ASSUME NEW order \in Seq(Ids), NEW id \in Ids
    PROVE  /\ PushFront(order, id) \in Seq(Ids)
           /\ Len(PushFront(order, id)) = Len(order) + 1
           /\ PushFront(order, id)[1] = id
           /\ \A j \in 1..Len(order) : PushFront(order, id)[j + 1] = order[j]
<1>1. PushFront(order, id) \in [1..(Len(order) + 1) -> Ids]
  BY DEF PushFront
<1>2. PushFront(order, id) \in Seq(Ids)
  BY <1>1, SeqDef
<1>3. Len(PushFront(order, id)) = Len(order) + 1
  BY <1>1, <1>2
<1> QED
  BY <1>2, <1>3 DEF PushFront

\* RemoveIndex drops the element at i and keeps the order of the rest.
LEMMA RemoveIndexProperties ==
    ASSUME NEW order \in Seq(Ids), NEW i \in 1..Len(order)
    PROVE  /\ RemoveIndex(order, i) \in Seq(Ids)
           /\ Len(RemoveIndex(order, i)) = Len(order) - 1
           /\ \A j \in 1..(Len(order) - 1) :
                RemoveIndex(order, i)[j] = IF j < i THEN order[j] ELSE order[j + 1]
<1>1. RemoveIndex(order, i) \in [1..(Len(order) - 1) -> Ids]
  BY DEF RemoveIndex
<1>2. RemoveIndex(order, i) \in Seq(Ids)
  BY <1>1, SeqDef
<1>3. Len(RemoveIndex(order, i)) = Len(order) - 1
  BY <1>1, <1>2
<1> QED
  BY <1>2, <1>3 DEF RemoveIndex

\* A cached id has a position in the list.
LEMMA PositionProperties ==
    ASSUME NEW l \in LruType, WellFormed(l), NEW id \in Keys(l)
    PROVE  /\ Position(l, id) \in 1..Len(l.order)
           /\ l.order[Position(l, id)] = id
<1>1. l.order \in Seq(Ids)
  BY DEF LruType
<1>2. \E i \in DOMAIN l.order : l.order[i] = id
  BY DEF WellFormed
<1> QED
  BY <1>1, <1>2 DEF Position

\* Remove takes the id out of the map and out of the list, and nothing else.
LEMMA RemoveProperties ==
    ASSUME NEW l \in LruType, WellFormed(l), NEW id \in Ids
    PROVE  /\ Remove(l, id) \in LruType
           /\ WellFormed(Remove(l, id))
           /\ Keys(Remove(l, id)) = Keys(l) \ {id}
           /\ \A j \in Ids \ {id} : Remove(l, id).items[j] = l.items[j]
           /\ id \in Keys(l) => Len(Remove(l, id).order) = Len(l.order) - 1
<1>1. CASE id \notin Keys(l)
  BY <1>1 DEF Remove
<1>2. CASE id \in Keys(l)
  <2> DEFINE r == Remove(l, id)
             p == Position(l, id)
  <2>1. /\ l.order \in Seq(Ids)
        /\ l.items \in [Ids -> Record]
        /\ NoRecord \in Record
    BY StorageAssumption DEF LruType, NoRecord, Whole, Record
  <2>2. r = [items |-> [l.items EXCEPT ![id] = NoRecord],
             order |-> RemoveIndex(l.order, p)]
    BY <1>2 DEF Remove
  <2>3. p \in 1..Len(l.order) /\ l.order[p] = id
    BY <1>2, PositionProperties
  <2>4. /\ r.order \in Seq(Ids)
        /\ Len(r.order) = Len(l.order) - 1
        /\ \A j \in 1..(Len(l.order) - 1) :
              r.order[j] = IF j < p THEN l.order[j] ELSE l.order[j + 1]
    <3> HIDE DEF p
    <3>1. r.order = RemoveIndex(l.order, p)
      BY <2>2
    <3> HIDE DEF r
    <3> QED
      BY <2>1, <2>3, <3>1, RemoveIndexProperties
  <2>5. r \in LruType
    BY <2>1, <2>2, <2>4 DEF LruType
  <2>6. Keys(r) = Keys(l) \ {id} /\ \A j \in Ids \ {id} : r.items[j] = l.items[j]
    BY <2>1, <2>2 DEF Keys
  <2> HIDE DEF r, p
  <2>7. /\ \A i, j \in 1..Len(l.order) : l.order[i] = l.order[j] => i = j
        /\ \A i \in 1..Len(l.order) : l.order[i] \in Keys(l)
    BY <2>1 DEF WellFormed
  <2>8. \A i, j \in DOMAIN r.order : r.order[i] = r.order[j] => i = j
    <3> SUFFICES ASSUME NEW i \in 1..(Len(l.order) - 1), NEW j \in 1..(Len(l.order) - 1),
                        r.order[i] = r.order[j]
                 PROVE  i = j
      BY <2>4
    <3>1. Len(l.order) \in Nat
      BY <2>1
    <3> DEFINE from(k) == IF k < p THEN k ELSE k + 1
    <3>2. \A k \in 1..(Len(l.order) - 1) :
            from(k) \in 1..Len(l.order) /\ r.order[k] = l.order[from(k)]
      <4> TAKE k \in 1..(Len(l.order) - 1)
      <4>1. r.order[k] = IF k < p THEN l.order[k] ELSE l.order[k + 1]
        BY <2>4
      <4>2. from(k) \in 1..Len(l.order)
        BY <2>3, <3>1
      <4> QED
        BY <4>1, <4>2
    <3>3. from(i) = from(j)
      <4> HIDE DEF from
      <4> QED
        BY <2>7, <3>2
    <3> QED
      BY <2>3, <3>1, <3>3
  <2>9. Keys(r) = {r.order[i] : i \in DOMAIN r.order}
    <3>1. ASSUME NEW i \in DOMAIN r.order PROVE r.order[i] \in Keys(l) \ {id}
      <4>1. i \in 1..(Len(l.order) - 1) /\ Len(l.order) \in Nat
        BY <2>1, <2>4
      <4>2. r.order[i] = IF i < p THEN l.order[i] ELSE l.order[i + 1]
        BY <2>4, <4>1
      <4> QED
        BY <2>3, <2>7, <4>1, <4>2
    <3>2. ASSUME NEW k \in Keys(l) \ {id} PROVE \E i \in DOMAIN r.order : r.order[i] = k
      <4>1. PICK i \in 1..Len(l.order) : l.order[i] = k
        BY <2>1 DEF WellFormed
      <4>2. CASE i < p
        BY <4>1, <4>2, <2>1, <2>3, <2>4
      <4>3. CASE i > p
        <5>1. i - 1 \in 1..(Len(l.order) - 1) /\ ~(i - 1 < p) /\ (i - 1) + 1 = i
          BY <4>3, <2>1, <2>3
        <5> QED
          BY <4>1, <5>1, <2>4
      <4> QED
        BY <4>1, <4>2, <4>3, <2>1, <2>3
    <3> QED
      BY <3>1, <3>2, <2>6
  <2>10. Len(r.order) <= CacheSize
    BY <2>1, <2>4, StorageAssumption DEF WellFormed
  <2> QED
    BY <1>2, <2>4, <2>5, <2>6, <2>8, <2>9, <2>10 DEF WellFormed, r
<1> QED
  BY <1>1, <1>2

\* Pushing an id that is not cached, with its record, keeps the cache well
\* formed if there is room.
LEMMA PushProperties ==
    ASSUME NEW l \in LruType, WellFormed(l), NEW id \in Ids, id \notin Keys(l),
           NEW rec \in Record \ {NoRecord}, Len(l.order) < CacheSize
    PROVE  /\ Push(l, id, rec) \in LruType
           /\ WellFormed(Push(l, id, rec))
           /\ Keys(Push(l, id, rec)) = Keys(l) \cup {id}
           /\ Push(l, id, rec).items[id] = rec
           /\ \A j \in Ids \ {id} : Push(l, id, rec).items[j] = l.items[j]
<1> DEFINE r == Push(l, id, rec)
<1>0. r = [items |-> [l.items EXCEPT ![id] = rec], order |-> PushFront(l.order, id)]
  BY DEF Push
<1> HIDE DEF r
<1>1. l.order \in Seq(Ids) /\ l.items \in [Ids -> Record]
  BY DEF LruType
<1>2. /\ r.order \in Seq(Ids)
      /\ Len(r.order) = Len(l.order) + 1
      /\ r.order[1] = id
      /\ \A j \in 1..Len(l.order) : r.order[j + 1] = l.order[j]
  <2>1. r.order = PushFront(l.order, id)
    BY <1>0
  <2>2. /\ PushFront(l.order, id) \in Seq(Ids)
        /\ Len(PushFront(l.order, id)) = Len(l.order) + 1
        /\ PushFront(l.order, id)[1] = id
        /\ \A j \in 1..Len(l.order) : PushFront(l.order, id)[j + 1] = l.order[j]
    BY <1>1, PushFrontProperties
  <2> QED
    BY <2>1, <2>2
<1>3. r \in LruType
  BY <1>0, <1>1, <1>2 DEF LruType
<1>4. /\ Keys(r) = Keys(l) \cup {id}
      /\ r.items[id] = rec
      /\ \A j \in Ids \ {id} : r.items[j] = l.items[j]
  BY <1>0, <1>1 DEF Keys
<1>5. \A j \in 2..Len(r.order) : /\ j - 1 \in 1..Len(l.order)
                                 /\ r.order[j] = l.order[j - 1]
  <2> TAKE j \in 2..Len(r.order)
  <2>1. j - 1 \in 1..Len(l.order) /\ (j - 1) + 1 = j
    BY <1>1, <1>2
  <2> QED
    BY <2>1, <1>2
<1>6. \A j \in 1..Len(l.order) : l.order[j] # id
  BY <1>1 DEF WellFormed
<1>7. \A i, j \in DOMAIN r.order : r.order[i] = r.order[j] => i = j
  <2>1. \A i, j \in 1..Len(l.order) : l.order[i] = l.order[j] => i = j
    BY <1>1 DEF WellFormed
  <2> SUFFICES ASSUME NEW i \in 1..Len(r.order), NEW j \in 1..Len(r.order),
                      r.order[i] = r.order[j]
               PROVE  i = j
    BY <1>2
  <2>2. Len(l.order) \in Nat /\ Len(r.order) \in Nat
    BY <1>1, <1>2
  <2>3. CASE i = 1 /\ j \in 2..Len(r.order)
    BY <2>3, <1>2, <1>5, <1>6
  <2>4. CASE j = 1 /\ i \in 2..Len(r.order)
    BY <2>4, <1>2, <1>5, <1>6
  <2>5. CASE i \in 2..Len(r.order) /\ j \in 2..Len(r.order)
    <3>1. l.order[i - 1] = l.order[j - 1] /\ i - 1 \in 1..Len(l.order) /\ j - 1 \in 1..Len(l.order)
      BY <2>5, <1>5
    <3> QED
      BY <3>1, <2>1
  <2> QED
    BY <2>2, <2>3, <2>4, <2>5
<1>8. Keys(r) = {r.order[i] : i \in DOMAIN r.order}
  <2>1. Keys(l) = {l.order[i] : i \in 1..Len(l.order)}
    BY <1>1 DEF WellFormed
  <2>2. ASSUME NEW i \in DOMAIN r.order PROVE r.order[i] \in Keys(r)
    <3>1. i \in 1..Len(r.order) /\ Len(r.order) \in Nat
      BY <1>2
    <3>2. CASE i = 1
      BY <3>2, <1>2, <1>4
    <3>3. CASE i \in 2..Len(r.order)
      BY <3>3, <1>4, <1>5, <2>1
    <3> QED
      BY <3>1, <3>2, <3>3
  <2>3. ASSUME NEW k \in Keys(r) PROVE \E i \in DOMAIN r.order : r.order[i] = k
    <3>1. CASE k = id
      BY <3>1, <1>1, <1>2
    <3>2. CASE k \in Keys(l)
      <4>1. PICK j \in 1..Len(l.order) : l.order[j] = k
        BY <3>2, <2>1
      <4>2. j + 1 \in 1..Len(r.order)
        BY <1>1, <1>2
      <4> QED
        BY <4>1, <4>2, <1>2
    <3> QED
      BY <3>1, <3>2, <1>4
  <2> QED
    BY <2>2, <2>3
<1>9. Len(r.order) <= CacheSize
  BY <1>1, <1>2, StorageAssumption
<1> QED
  BY <1>3, <1>4, <1>7, <1>8, <1>9 DEF WellFormed, r

\* The id of a cached entry can be pushed again once it is removed.
LEMMA RepushProperties ==
    ASSUME NEW l \in LruType, WellFormed(l), NEW id \in Keys(l),
           NEW rec \in Record \ {NoRecord}
    PROVE  /\ Push(Remove(l, id), id, rec) \in LruType
           /\ WellFormed(Push(Remove(l, id), id, rec))
           /\ Push(Remove(l, id), id, rec).items[id] = rec
           /\ Keys(Push(Remove(l, id), id, rec)) = Keys(l)
           /\ \A j \in Ids \ {id} :
                Push(Remove(l, id), id, rec).items[j] = l.items[j]
<1> DEFINE m == Remove(l, id)
<1>1. id \in Ids
  BY DEF Keys
<1>2. /\ m \in LruType
      /\ WellFormed(m)
      /\ Keys(m) = Keys(l) \ {id}
      /\ \A j \in Ids \ {id} : m.items[j] = l.items[j]
      /\ Len(m.order) = Len(l.order) - 1
  BY <1>1, RemoveProperties
<1>3. Len(m.order) < CacheSize
  <2>1. Len(l.order) \in Nat
    BY DEF LruType
  <2> QED
    BY <1>2, <2>1, StorageAssumption DEF WellFormed
<1> HIDE DEF m
<1>4. /\ Push(m, id, rec) \in LruType
      /\ WellFormed(Push(m, id, rec))
      /\ Keys(Push(m, id, rec)) = Keys(m) \cup {id}
      /\ Push(m, id, rec).items[id] = rec
      /\ \A j \in Ids \ {id} : Push(m, id, rec).items[j] = m.items[j]
  BY <1>1, <1>2, <1>3, PushProperties
<1> QED
  BY <1>2, <1>4 DEF m

\* A Get changes the order only.
LEMMA GetProperties ==
    ASSUME NEW l \in LruType, WellFormed(l), NEW id \in Ids
    PROVE  /\ Get(l, id) \in LruType
           /\ WellFormed(Get(l, id))
           /\ Get(l, id).items = l.items
<1>1. CASE id \notin Keys(l)
  BY <1>1 DEF Get
<1>2. CASE id \in Keys(l)
  <2> DEFINE rec == l.items[id]
  <2>1. Get(l, id) = Push(Remove(l, id), id, rec)
    BY <1>2 DEF Get
  <2>2. rec \in Record \ {NoRecord} /\ l.items \in [Ids -> Record]
    BY <1>2 DEF Keys, LruType
  <2>3. l.items[id] = rec
    OBVIOUS
  <2> HIDE DEF rec
  <2>4. /\ Get(l, id) \in LruType
        /\ WellFormed(Get(l, id))
        /\ Get(l, id).items[id] = rec
        /\ \A j \in Ids \ {id} : Get(l, id).items[j] = l.items[j]
    BY <1>2, <2>1, <2>2, RepushProperties
  <2>5. Get(l, id).items \in [Ids -> Record]
    BY <2>4 DEF LruType
  <2> QED
    BY <2>2, <2>3, <2>4, <2>5
<1> QED
  BY <1>1, <1>2

\* A Put caches the record and changes no other record that stays cached.
LEMMA PutProperties ==
    ASSUME NEW l \in LruType, WellFormed(l), NEW id \in Ids,
           NEW rec \in Record \ {NoRecord}
    PROVE  /\ Put(l, id, rec) \in LruType
           /\ WellFormed(Put(l, id, rec))
           /\ Put(l, id, rec).items[id] = rec
           /\ \A j \in Keys(Put(l, id, rec)) \ {id} :
                j \in Keys(l) /\ Put(l, id, rec).items[j] = l.items[j]
<1>1. CASE id \in Keys(l)
  <2>1. Put(l, id, rec) = Push(Remove(l, id), id, rec)
    BY <1>1 DEF Put
  <2>2. /\ Put(l, id, rec) \in LruType
        /\ WellFormed(Put(l, id, rec))
        /\ Keys(Put(l, id, rec)) = Keys(l)
        /\ Put(l, id, rec).items[id] = rec
        /\ \A j \in Ids \ {id} : Put(l, id, rec).items[j] = l.items[j]
    BY <1>1, <2>1, RepushProperties
  <2> QED
    BY <2>2 DEF Keys
<1>2. CASE id \notin Keys(l)
  <2> DEFINE room == IF Len(l.order) < CacheSize THEN l ELSE EvictOldest(l)
  <2>1. l.order \in Seq(Ids) /\ Len(l.order) \in Nat
    BY DEF LruType
  <2>2. /\ room \in LruType
        /\ WellFormed(room)
        /\ Len(room.order) < CacheSize
        /\ Keys(room) \subseteq Keys(l)
        /\ \A j \in Keys(room) : room.items[j] = l.items[j]
    <3>1. CASE Len(l.order) < CacheSize
      BY <3>1
    <3>2. CASE ~(Len(l.order) < CacheSize)
      <4> DEFINE last == l.order[Len(l.order)]
      <4>1. Len(l.order) = CacheSize /\ Len(l.order) \in 1..Len(l.order)
        BY <2>1, <3>2, StorageAssumption DEF WellFormed
      <4>2. last \in Keys(l) /\ last \in Ids
        BY <2>1, <4>1 DEF WellFormed, Keys
      <4>3. room = Remove(l, last)
        BY <3>2 DEF EvictOldest
      <4> HIDE DEF last, room
      <4>4. /\ room \in LruType
            /\ WellFormed(room)
            /\ Keys(room) = Keys(l) \ {last}
            /\ \A j \in Ids \ {last} : room.items[j] = l.items[j]
            /\ Len(room.order) = Len(l.order) - 1
        BY <4>2, <4>3, RemoveProperties
      <4>5. Len(room.order) < CacheSize
        BY <4>1, <4>4, StorageAssumption
      <4> QED
        BY <4>4, <4>5 DEF Keys
    <3> QED
      BY <3>1, <3>2
  <2>3. Put(l, id, rec) = Push(room, id, rec)
    BY <1>2 DEF Put
  <2> HIDE DEF room
  <2>4. id \notin Keys(room)
    BY <1>2, <2>2
  <2>5. /\ Put(l, id, rec) \in LruType
        /\ WellFormed(Put(l, id, rec))
        /\ Keys(Put(l, id, rec)) = Keys(room) \cup {id}
        /\ Put(l, id, rec).items[id] = rec
        /\ \A j \in Ids \ {id} : Put(l, id, rec).items[j] = room.items[j]
    BY <2>2, <2>3, <2>4, PushProperties
  <2> QED
    BY <2>2, <2>5 DEF Keys
<1> QED
  BY <1>1, <1>2

\* What a refresh installs is well formed if the conversations it read are
\* distinct and fit.
LEMMA FreshProperties ==
    ASSUME NEW recs \in Seq(Loaded), Len(recs) <= CacheSize,
           \A i \in DOMAIN recs : recs[i].rec # NoRecord,
           \A i, j \in DOMAIN recs : recs[i].id = recs[j].id => i = j
    PROVE  /\ FreshLru(recs) \in LruType
           /\ WellFormed(FreshLru(recs))
           /\ \A id \in Keys(FreshLru(recs)) : \E i \in DOMAIN recs :
                recs[i].id = id /\ FreshLru(recs).items[id] = recs[i].rec
<1> DEFINE r == FreshLru(recs)
           n == Len(recs)
<1>1. /\ n \in Nat
      /\ DOMAIN recs = 1..n
      /\ \A i \in 1..n : recs[i].id \in Ids /\ recs[i].rec \in Record
  <2>1. n \in Nat /\ DOMAIN recs = 1..n /\ \A i \in 1..n : recs[i] \in Loaded
    OBVIOUS
  <2> QED
    BY <2>1 DEF Loaded
<1>2. \A id \in Ids : \/ /\ ~\E i \in 1..n : recs[i].id = id
                         /\ r.items[id] = NoRecord
                      \/ \E i \in 1..n : /\ recs[i].id = id
                                         /\ r.items[id] = recs[i].rec
  <2> TAKE id \in Ids
  <2>1. r.items[id] = IF \E i \in DOMAIN recs : recs[i].id = id
                      THEN recs[CHOOSE i \in DOMAIN recs : recs[i].id = id].rec
                      ELSE NoRecord
    BY DEF FreshLru
  <2> QED
    BY <1>1, <2>1
<1>3. NoRecord \in Record
  BY StorageAssumption DEF NoRecord, Whole, Record
<1>4. r.items \in [Ids -> Record]
  <2>1. r.items = [id \in Ids |-> r.items[id]]
    BY DEF FreshLru
  <2>2. \A id \in Ids : r.items[id] \in Record
    BY <1>1, <1>2, <1>3
  <2> HIDE DEF r
  <2> QED
    BY <2>1, <2>2
<1>5. /\ r.order \in Seq(Ids)
      /\ Len(r.order) = n
      /\ \A i \in 1..n : r.order[i] = recs[n + 1 - i].id
  <2>1. r.order = [i \in 1..n |-> recs[n + 1 - i].id]
    BY DEF FreshLru
  <2>2. \A i \in 1..n : n + 1 - i \in 1..n
    BY <1>1
  <2>3. r.order \in [1..n -> Ids]
    BY <1>1, <2>1, <2>2
  <2>4. r.order \in Seq(Ids)
    BY <1>1, <2>3, SeqDef
  <2> QED
    BY <1>1, <2>1, <2>3, <2>4
<1>6. r \in LruType
  BY <1>4, <1>5 DEF LruType, FreshLru
<1>7. Keys(r) = {recs[i].id : i \in 1..n}
  <2>1. \A id \in Keys(r) : id \in {recs[i].id : i \in 1..n}
    BY <1>2 DEF Keys
  <2>2. \A i \in 1..n : recs[i].id \in Keys(r)
    <3> TAKE i \in 1..n
    <3>1. PICK j \in 1..n : /\ recs[j].id = recs[i].id
                            /\ r.items[recs[i].id] = recs[j].rec
      BY <1>1, <1>2
    <3> QED
      BY <1>1, <3>1 DEF Keys
  <2> QED
    BY <2>1, <2>2
<1> HIDE DEF r, n
<1>8. Keys(r) = {r.order[i] : i \in DOMAIN r.order}
  <2>1. DOMAIN r.order = 1..n
    BY <1>5
  <2>2. \A i \in 1..n : n + 1 - i \in 1..n /\ n + 1 - (n + 1 - i) = i
    BY <1>1
  <2>3. \A i \in 1..n : recs[i].id = r.order[n + 1 - i]
    BY <1>5, <2>2
  <2>4. \A i \in 1..n : r.order[i] = recs[n + 1 - i].id
    BY <1>5
  <2> QED
    BY SMTT(60), <1>7, <2>1, <2>2, <2>3, <2>4
<1>9. \A i, j \in DOMAIN r.order : r.order[i] = r.order[j] => i = j
  <2> SUFFICES ASSUME NEW i \in 1..n, NEW j \in 1..n, r.order[i] = r.order[j]
               PROVE  i = j
    BY <1>5
  <2>1. n + 1 - i \in 1..n /\ n + 1 - j \in 1..n
    BY <1>1
  <2> DEFINE a == n + 1 - i
             b == n + 1 - j
  <2>2. a \in 1..n /\ b \in 1..n /\ recs[a].id = recs[b].id
    BY <1>5, <2>1
  <2>3. a = b
    <3> HIDE DEF a, b
    <3> QED
      BY <1>1, <2>2
  <2> QED
    BY <1>1, <2>3
<1>10. WellFormed(r)
  BY <1>5, <1>8, <1>9 DEF WellFormed, n
<1> QED
  BY <1>1, <1>2, <1>6, <1>7, <1>10 DEF r, Keys

-----------------------------------------------------------------------------
\* The inductive invariant, one lemma per handler.

LEMMA NoRecordType == NoRecord \in Record
BY StorageAssumption DEF NoRecord, Whole, Record

LEMMA RowType ==
    ASSUME TypeOK, NEW id \in Ids
    PROVE  Row(id) \in Record
BY NoRecordType DEF TypeOK, Row, Whole, Record

\* A step that leaves the tables alone leaves Row alone.
LEMMA RowUnchanged ==
    ASSUME UNCHANGED db, NEW id \in Ids
    PROVE  Row(id)' = Row(id)
BY DEF db, Row

\* A read of a row gives a conversation of the save that wrote the row: the
\* whole of it, or, cut short, less.
LEMMA ReadingType ==
    ASSUME TypeOK, NEW id \in Ids, dbVer[id] # 0, NEW rec \in Readings(id)
    PROVE  /\ rec \in Record \ {NoRecord}
           /\ rec.ver = dbVer[id]
           /\ Current(rec, id)
<1>1. dbVer[id] \in 0..MaxSaves /\ dbTools[id] \in 0..MaxTools /\ MaxTools \in Nat
  BY StorageAssumption DEF TypeOK
<1>2. CASE rec = Row(id)
  BY <1>1, <1>2 DEF Current, Row, Whole, NoRecord, Record
<1>3. CASE rec # Row(id)
  <2>1. PICK n \in 0..(dbTools[id] - 1) :
            rec = [ver |-> dbVer[id], tools |-> n, cut |-> TRUE]
    BY <1>3 DEF Readings, CutShort
  <2>2. n \in 0..MaxTools /\ n < dbTools[id]
    BY <1>1
  <2> QED
    BY <1>1, <2>1, <2>2 DEF Current, Record, NoRecord, Whole
<1> QED
  BY <1>2, <1>3

LEMMA InitIInv == Init => IInv
<1> SUFFICES ASSUME Init PROVE IInv
  OBVIOUS
<1> USE DEF Init
<1>1. EmptyLru \in LruType /\ WellFormed(EmptyLru) /\ Keys(EmptyLru) = {}
  BY NoRecordType, StorageAssumption DEF EmptyLru, LruType, WellFormed, Keys
<1>2. TypeOK
  <2>1. dbVer \in [Ids -> 0..MaxSaves] /\ dbTools \in [Ids -> 0..MaxTools]
        /\ saves \in 0..MaxSaves
    BY StorageAssumption
  <2>2. autosave \in [signal : BOOLEAN, count : 0..(AutoSaveEvery - 1),
                      cancelled : BOOLEAN, stopped : BOOLEAN]
    BY StorageAssumption
  <2>3. todo \in [Procs -> Seq(Loaded)] /\ next \in [Procs -> Nat \ {0}]
    OBVIOUS
  <2>4. pc \in [Procs -> PcType]
    BY DEF PcType
  <2>5. stale \subseteq Ids /\ touched \in [Procs -> SUBSET Ids]
    OBVIOUS
  <2> QED
    BY <1>1, <2>1, <2>2, <2>3, <2>4, <2>5 DEF TypeOK
<1>3. LruWellFormed /\ CacheCoherent
  BY <1>1 DEF LruWellFormed, CacheCoherent
<1>4. SnapshotsCurrent /\ ReadsFit
  BY DEF SnapshotsCurrent, ReadsFit
<1> QED
  BY <1>2, <1>3, <1>4 DEF IInv

\* What a step keeps that leaves tables, cache and stale ids alone.
LEMMA CacheUntouched ==
    ASSUME LruWellFormed, CacheCoherent, UNCHANGED <<db, lru, stale>>
    PROVE  LruWellFormed' /\ CacheCoherent'
<1>1. UNCHANGED <<dbVer, dbTools>>
  BY DEF db
<1>2. Keys(lru)' = Keys(lru) /\ Keys(lru) \subseteq Ids
  BY DEF Keys
<1>3. LruWellFormed'
  BY <1>2 DEF LruWellFormed, WellFormed
<1>4. CacheCoherent'
  BY <1>1, <1>2 DEF CacheCoherent, Current, Row
<1> QED
  BY <1>3, <1>4

\* What a step keeps that leaves the tables and the other calls alone.
LEMMA OthersUntouched ==
    ASSUME TypeOK, SnapshotsCurrent, ReadsFit, UNCHANGED db, NEW p \in Procs,
           \A q \in Procs \ {p} : /\ pc'[q] = pc[q]
                                  /\ todo'[q] = todo[q]
                                  /\ touched'[q] = touched[q],
           pc'[p] \in {"idle", "load_read", "close_wait", "close_lock", "close_clear"},
           pc'[p] = "load_read" => Len(todo'[p]) = 1
    PROVE  SnapshotsCurrent' /\ ReadsFit'
<1>1. \A id \in Ids : Row(id)' = Row(id)
  BY RowUnchanged
<1>2. \A q \in Procs : \A i \in DOMAIN todo[q] : todo[q][i].id \in Ids
  <2> TAKE q \in Procs
  <2>1. todo[q] \in Seq(Loaded)
    BY DEF TypeOK
  <2> TAKE i \in DOMAIN todo[q]
  <2>2. todo[q][i] \in Loaded
    BY <2>1
  <2> QED
    BY <2>2 DEF Loaded
<1>3. SnapshotsCurrent'
  <2> SUFFICES ASSUME NEW q \in Procs, NEW i \in DOMAIN todo'[q]
               PROVE
        /\ pc'[q] \in {"load_put", "recent_put", "refresh_put"} =>
                Current(todo[q][i].rec, todo[q][i].id)'
        /\ pc'[q] \in {"refresh_gap", "refresh_lock"}
           /\ todo'[q][i].id \notin touched'[q] =>
                Current(todo[q][i].rec, todo[q][i].id)'
    BY DEF SnapshotsCurrent
  <2>1. CASE q = p
    BY <2>1
  <2>2. CASE q # p
    <3>1. pc'[q] = pc[q] /\ todo'[q] = todo[q] /\ touched'[q] = touched[q]
      BY <2>2
    <3> QED
      BY <3>1, <1>2 DEF SnapshotsCurrent, Current, Row, db
  <2> QED
    BY <2>1, <2>2
<1>4. ReadsFit'
  <2> SUFFICES ASSUME NEW q \in Procs
               PROVE
        /\ pc'[q] \in {"load_read", "load_put"} => Len(todo'[q]) = 1
        /\ pc'[q] \in {"load_put", "recent_put", "refresh_put", "refresh_gap",
                      "refresh_lock"} =>
                \A i \in DOMAIN todo'[q] : todo'[q][i].rec # NoRecord
        /\ pc'[q] \in {"refresh_put", "refresh_gap", "refresh_lock"} =>
                /\ Len(todo'[q]) <= CacheSize
                /\ \A i, j \in DOMAIN todo'[q] :
                        todo'[q][i].id = todo'[q][j].id => i = j
    BY DEF ReadsFit
  <2>1. CASE q = p
    BY <2>1
  <2>2. CASE q # p
    BY <2>2 DEF ReadsFit
  <2> QED
    BY <2>1, <2>2
<1> QED
  BY <1>3, <1>4

\* A Put of the record that the tables hold, or of an id that turns stale,
\* keeps the cache coherent.
LEMMA CoherentPut ==
    ASSUME lru \in LruType, LruWellFormed, CacheCoherent, NEW id \in Ids,
           NEW rec \in Record \ {NoRecord}, lru' = Put(lru, id, rec),
           \A j \in Ids \ {id} : dbVer'[j] = dbVer[j] /\ dbTools'[j] = dbTools[j],
           \A j \in stale : j = id \/ j \in stale',
           id \in stale' \/ Current(rec, id)'
    PROVE  lru' \in LruType /\ LruWellFormed' /\ CacheCoherent'
<1>1. WellFormed(lru)
  BY DEF LruWellFormed
<1>2. /\ lru' \in LruType
      /\ WellFormed(lru')
      /\ lru'.items[id] = rec
      /\ \A j \in Keys(lru') \ {id} : j \in Keys(lru) /\ lru'.items[j] = lru.items[j]
  BY <1>1, PutProperties
<1>3. Keys(lru') = Keys(lru)' /\ Keys(lru) \subseteq Ids
  BY DEF Keys
<1>4. LruWellFormed'
  BY <1>2 DEF LruWellFormed, WellFormed, Keys
<1>5. CacheCoherent'
  <2> SUFFICES ASSUME NEW j \in Keys(lru'), j \notin stale'
               PROVE  Current(lru.items[j], j)'
    BY <1>3 DEF CacheCoherent
  <2>1. CASE j = id
    BY <2>1, <1>2 DEF Current, Row
  <2>2. CASE j # id
    BY <2>2, <1>2, <1>3 DEF CacheCoherent, Current, Row
  <2> QED
    BY <2>1, <2>2
<1> QED
  BY <1>2, <1>4, <1>5

\* A write under the lock: no read is in flight, and every refresh that is
\* between its read and its install learns that the id was touched.
LEMMA WriteKeepsReads ==
    ASSUME TypeOK, SnapshotsCurrent, ReadsFit, Exclusive, UNCHANGED <<pc, todo>>,
           NEW id \in Ids, Touch(id),
           \A j \in Ids \ {id} : dbVer'[j] = dbVer[j] /\ dbTools'[j] = dbTools[j]
    PROVE  SnapshotsCurrent' /\ ReadsFit'
<1>1. \A q \in Procs : \A i \in DOMAIN todo[q] : todo[q][i].id \in Ids
  <2> TAKE q \in Procs
  <2>1. todo[q] \in Seq(Loaded)
    BY DEF TypeOK
  <2> TAKE i \in DOMAIN todo[q]
  <2>2. todo[q][i] \in Loaded
    BY <2>1
  <2> QED
    BY <2>2 DEF Loaded
<1>2. SnapshotsCurrent'
  <2> SUFFICES ASSUME NEW q \in Procs, NEW i \in DOMAIN todo[q],
                      pc[q] \in {"refresh_gap", "refresh_lock"},
                      todo[q][i].id \notin touched'[q]
               PROVE  Current(todo[q][i].rec, todo[q][i].id)'
    BY DEF SnapshotsCurrent, Exclusive, Reading
  <2>1. touched'[q] = touched[q] \cup {id}
    BY DEF Touch
  <2>2. todo[q][i].id \in Ids \ {id}
    BY <2>1, <1>1
  <2>3. Current(todo[q][i].rec, todo[q][i].id)
    BY <2>1 DEF SnapshotsCurrent
  <2> QED
    BY <2>2, <2>3 DEF Current, Row
<1>3. ReadsFit'
  BY DEF ReadsFit
<1> QED
  BY <1>2, <1>3

LEMMA SaveStep ==
    ASSUME IInv, NEW p \in Procs, NEW id \in Ids, NEW n \in 0..MaxTools,
           SaveConversation(p, id, n)
    PROVE  IInv'
<1> USE DEF IInv
<1>1. PICK done \in 0..n :
        /\ WriteRow(id, done)
        /\ \/ /\ done = n
              /\ lru' = Put(lru, id, Whole(saves + 1, n))
              /\ autosave' = [autosave EXCEPT !.signal = TRUE]
              /\ stale' = IF dbTools'[id] = n THEN stale \ {id} ELSE stale \cup {id}
           \/ /\ stale' = stale \cup {id}
              /\ UNCHANGED <<lru, autosave>>
  BY DEF SaveConversation
<1>2. /\ Exclusive
      /\ saves < MaxSaves
      /\ saves' = saves + 1
      /\ Touch(id)
      /\ UNCHANGED <<pooled, closed, pc, todo, next>>
  BY DEF SaveConversation
<1>3. saves + 1 \in 1..MaxSaves /\ done \in 0..MaxTools
  BY <1>2, StorageAssumption DEF TypeOK
<1>4. /\ dbVer' \in [Ids -> 0..MaxSaves]
      /\ dbTools' \in [Ids -> 0..MaxTools]
      /\ dbVer'[id] = saves + 1
      /\ \A j \in Ids \ {id} : dbVer'[j] = dbVer[j] /\ dbTools'[j] = dbTools[j]
  BY <1>1, <1>3 DEF WriteRow, TypeOK
<1>5. \A j \in Ids \ {id} : dbVer'[j] = dbVer[j] /\ dbTools'[j] = dbTools[j]
  BY <1>4
<1>6. Row(id)' = Whole(saves + 1, dbTools'[id])
  BY <1>3, <1>4 DEF Row, Whole
<1>7. SnapshotsCurrent' /\ ReadsFit'
  BY <1>2, <1>5, WriteKeepsReads
<1>8. touched' \in [Procs -> SUBSET Ids]
  BY <1>2 DEF Touch, TypeOK
<1>9. stale' \subseteq Ids
  BY <1>1 DEF TypeOK
<1>10. lru' \in LruType /\ LruWellFormed' /\ CacheCoherent'
  <2>1. CASE lru' = Put(lru, id, Whole(saves + 1, n))
             /\ stale' = IF dbTools'[id] = n THEN stale \ {id} ELSE stale \cup {id}
    <3>5. PICK rec : rec = Whole(saves + 1, n)
      OBVIOUS
    <3>1. rec \in Record \ {NoRecord}
      BY <1>3, <3>5 DEF Record, NoRecord, Whole
    <3>2. id \in stale' \/ Current(rec, id)'
      BY <2>1, <1>6, <3>5 DEF Current, Whole
    <3>3. lru \in LruType /\ \A j \in stale : j = id \/ j \in stale'
      BY <2>1 DEF TypeOK
    <3>4. lru' = Put(lru, id, rec)
      BY <2>1, <3>5
    <3> QED
      BY <3>1, <3>2, <3>3, <3>4, <1>5, CoherentPut
  <2>2. CASE stale' = stale \cup {id} /\ lru' = lru
    <3>1. Keys(lru)' = Keys(lru) /\ Keys(lru) \subseteq Ids
      BY <2>2 DEF Keys
    <3>2. LruWellFormed'
      BY <2>2, <3>1 DEF LruWellFormed, WellFormed
    <3>3. CacheCoherent'
      BY <2>2, <3>1, <1>5 DEF CacheCoherent, Current, Row
    <3> QED
      BY <2>2, <3>2, <3>3 DEF TypeOK
  <2> QED
    BY <1>1, <2>1, <2>2
<1>11. autosave' \in [signal : BOOLEAN, count : 0..(AutoSaveEvery - 1),
                      cancelled : BOOLEAN, stopped : BOOLEAN]
  BY <1>1 DEF TypeOK
<1>12. TypeOK'
  BY <1>2, <1>3, <1>4, <1>8, <1>9, <1>10, <1>11 DEF TypeOK
<1> QED
  BY <1>7, <1>10, <1>12

LEMMA DeleteStep ==
    ASSUME IInv, NEW p \in Procs, NEW id \in Ids, DeleteConversation(p, id)
    PROVE  IInv'
<1> USE DEF IInv
<1>1. /\ Exclusive
      /\ lru' = Remove(lru, id)
      /\ stale' = stale \ {id}
      /\ UNCHANGED <<pooled, closed, autosave, pc, todo, next, saves>>
  BY DEF DeleteConversation
<1>2. /\ dbVer' \in [Ids -> 0..MaxSaves]
      /\ dbTools' \in [Ids -> 0..MaxTools]
      /\ touched' \in [Procs -> SUBSET Ids]
      /\ \A j \in Ids \ {id} : dbVer'[j] = dbVer[j] /\ dbTools'[j] = dbTools[j]
  <2>1. /\ dbVer' = [dbVer EXCEPT ![id] = 0] \/ dbVer' = dbVer
        /\ dbTools' = [dbTools EXCEPT ![id] = 0] \/ dbTools' = dbTools
        /\ Touch(id) \/ touched' = touched
    BY DEF DeleteConversation, db
  <2>2. touched' \in [Procs -> SUBSET Ids]
    <3>1. CASE Touch(id)
      BY <3>1 DEF Touch, TypeOK
    <3>2. CASE touched' = touched
      BY <3>2 DEF TypeOK
    <3> QED
      BY <2>1, <3>1, <3>2
  <2>3. dbVer' \in [Ids -> 0..MaxSaves]
    BY <2>1, StorageAssumption DEF TypeOK
  <2>4. dbTools' \in [Ids -> 0..MaxTools]
    BY <2>1, StorageAssumption DEF TypeOK
  <2> QED
    BY <2>1, <2>2, <2>3, <2>4 DEF TypeOK
<1>3. \A j \in Ids \ {id} : dbVer'[j] = dbVer[j] /\ dbTools'[j] = dbTools[j]
  BY <1>2
<1>4. /\ lru' \in LruType
      /\ WellFormed(lru')
      /\ Keys(lru') = Keys(lru) \ {id}
      /\ \A j \in Ids \ {id} : lru'.items[j] = lru.items[j]
  BY <1>1, RemoveProperties DEF TypeOK, LruWellFormed
<1>5. Keys(lru)' = Keys(lru') /\ Keys(lru) \subseteq Ids
  BY DEF Keys
<1>6. LruWellFormed' /\ CacheCoherent'
  <2>1. LruWellFormed'
    BY <1>4, <1>5 DEF LruWellFormed, WellFormed
  <2>2. CacheCoherent'
    BY <1>1, <1>3, <1>4, <1>5 DEF CacheCoherent, Current, Row
  <2> QED
    BY <2>1, <2>2
<1>7. SnapshotsCurrent' /\ ReadsFit'
  <2>1. CASE Touch(id)
    BY <2>1, <1>1, <1>3, WriteKeepsReads
  <2>2. CASE UNCHANGED <<db, touched>>
    BY <2>2, <1>1 DEF SnapshotsCurrent, ReadsFit, Current, Row, db
  <2> QED
    BY <2>1, <2>2 DEF DeleteConversation
<1>8. TypeOK'
  BY <1>1, <1>2, <1>4 DEF TypeOK
<1> QED
  BY <1>6, <1>7, <1>8

LEMMA LoadHitStep ==
    ASSUME IInv, NEW p \in Procs, NEW id \in Ids, LoadHit(p, id)
    PROVE  IInv'
<1> USE DEF IInv
<1>1. /\ lru' = Get(lru, id)
      /\ UNCHANGED <<db, pooled, closed, autosave, pc, todo, next, saves, stale, touched>>
  BY DEF LoadHit
<1>2. lru' \in LruType /\ WellFormed(lru') /\ lru'.items = lru.items
  BY <1>1, GetProperties DEF TypeOK, LruWellFormed
<1>3. Keys(lru)' = Keys(lru)
  BY <1>2 DEF Keys
<1>4. LruWellFormed'
  BY <1>2, <1>3 DEF LruWellFormed, WellFormed, Keys
<1>5. CacheCoherent'
  <2>1. UNCHANGED <<dbVer, dbTools>>
    BY <1>1 DEF db
  <2>2. Keys(lru) \subseteq Ids
    BY DEF Keys
  <2> QED
    BY <1>1, <1>2, <1>3, <2>1, <2>2 DEF CacheCoherent, Current, Row
<1>6. SnapshotsCurrent' /\ ReadsFit'
  BY <1>1 DEF SnapshotsCurrent, ReadsFit, Current, Row, db
<1>7. TypeOK'
  BY <1>1, <1>2 DEF TypeOK, db
<1> QED
  BY <1>4, <1>5, <1>6, <1>7

\* A read of one conversation is one element long.
LEMMA LoadedType ==
    ASSUME TypeOK, ReadsFit, NEW p \in Procs, pc[p] \in {"load_read", "load_put"}
    PROVE  /\ todo[p] \in Seq(Loaded)
           /\ 1 \in DOMAIN todo[p]
           /\ todo[p][1].id \in Ids
           /\ todo[p][1].rec \in Record
<1>1. todo[p] \in Seq(Loaded) /\ Len(todo[p]) = 1
  BY DEF TypeOK, ReadsFit
<1>2. 1 \in DOMAIN todo[p] /\ todo[p][1] \in Loaded
  BY SMTT(60), <1>1
<1> QED
  BY <1>1, <1>2 DEF Loaded

LEMMA LoadStep ==
    ASSUME IInv, NEW p \in Procs,
           (\E id \in Ids : LoadMiss(p, id)) \/ LoadFound(p) \/ LoadError(p)
    PROVE  IInv'
<1> USE DEF IInv
<1>1. /\ UNCHANGED <<db, lru, closed, autosave, next, saves, stale, touched>>
      /\ pooled' \in BOOLEAN
  BY DEF LoadMiss, LoadFound, LoadError, TypeOK
<1>2. LruWellFormed' /\ CacheCoherent'
  BY <1>1, CacheUntouched
<1>3. /\ pc' \in [Procs -> PcType]
      /\ todo' \in [Procs -> Seq(Loaded)]
      /\ SnapshotsCurrent'
      /\ ReadsFit'
  <2>1. ASSUME NEW id \in Ids, LoadMiss(p, id)
        PROVE <1>3!:
    <3> DEFINE entry == [id |-> id, rec |-> NoRecord]
    <3>1. entry \in Loaded
      BY NoRecordType DEF Loaded
    <3>2. pc' = [pc EXCEPT ![p] = "load_read"] /\ todo' = [todo EXCEPT ![p] = <<entry>>]
      BY <2>1 DEF LoadMiss
    <3> HIDE DEF entry
    <3>3. pc' \in [Procs -> PcType] /\ todo' \in [Procs -> Seq(Loaded)]
      BY <3>1, <3>2 DEF TypeOK, PcType, Reading
    <3>4. pc'[p] = "load_read" /\ Len(todo'[p]) = 1
      BY <3>2 DEF TypeOK
    <3>5. SnapshotsCurrent' /\ ReadsFit'
      BY <1>1, <3>2, <3>4, OthersUntouched DEF TypeOK
    <3> QED
      BY <3>3, <3>5
  <2>2. CASE LoadError(p)
    <3>1. pc' = [pc EXCEPT ![p] = "idle"] /\ todo' = [todo EXCEPT ![p] = <<>>]
      BY <2>2 DEF LoadError
    <3>2. pc' \in [Procs -> PcType] /\ todo' \in [Procs -> Seq(Loaded)]
      BY <3>1 DEF TypeOK, PcType
    <3>3. pc'[p] = "idle"
      BY <3>1 DEF TypeOK
    <3>4. SnapshotsCurrent' /\ ReadsFit'
      BY <1>1, <3>1, <3>3, OthersUntouched DEF TypeOK
    <3> QED
      BY <3>2, <3>4
  <2>3. CASE LoadFound(p)
    <3> DEFINE id == todo[p][1].id
    <3>1. pc[p] = "load_read" /\ dbVer[id] # 0
      BY <2>3 DEF LoadFound
    <3>2. id \in Ids
      BY <3>1, LoadedType
    <3>9. PICK rec \in Readings(id) : todo' = [todo EXCEPT ![p] = <<[id |-> id, rec |-> rec]>>]
      BY <2>3 DEF LoadFound
    <3> DEFINE entry == [id |-> id, rec |-> rec]
    <3> HIDE DEF id
    <3>3. entry \in Loaded /\ entry.rec # NoRecord /\ Current(entry.rec, entry.id)
      BY <3>1, <3>2, ReadingType DEF Loaded
    <3>4. pc' = [pc EXCEPT ![p] = "load_put"] /\ todo' = [todo EXCEPT ![p] = <<entry>>]
      BY <2>3, <3>9 DEF LoadFound
    <3> HIDE DEF entry
    <3>5. pc' \in [Procs -> PcType] /\ todo' \in [Procs -> Seq(Loaded)]
      BY <3>3, <3>4 DEF TypeOK, PcType, Reading
    <3>6. pc'[p] = "load_put" /\ todo'[p] = <<entry>> /\ DOMAIN todo'[p] = {1}
          /\ \A q \in Procs \ {p} : pc'[q] = pc[q] /\ todo'[q] = todo[q]
      BY <3>4 DEF TypeOK
    <3>7. SnapshotsCurrent'
      BY <1>1, <3>3, <3>6 DEF SnapshotsCurrent, Current, Row, db
    <3>8. ReadsFit'
      <4>1. Len(todo'[p]) = 1 /\ \A i \in DOMAIN todo'[p] : todo'[p][i].rec # NoRecord
        BY <3>3, <3>6
      <4>2. \A q \in Procs : q = p \/ (pc'[q] = pc[q] /\ todo'[q] = todo[q])
        BY <3>6
      <4> QED
        BY <3>6, <4>1, <4>2 DEF ReadsFit
    <3> QED
      BY <3>5, <3>7, <3>8
  <2> QED
    BY <2>1, <2>2, <2>3
<1>4. TypeOK'
  BY <1>1, <1>3 DEF TypeOK, db
<1> QED
  BY <1>2, <1>3, <1>4

LEMMA LoadPutStep ==
    ASSUME IInv, NEW p \in Procs, LoadPut(p)
    PROVE  IInv'
<1> USE DEF IInv
<1>1. /\ pc[p] = "load_put"
      /\ lru' = Put(lru, todo[p][1].id, todo[p][1].rec)
      /\ stale' = stale \ {todo[p][1].id}
      /\ pc' = [pc EXCEPT ![p] = "idle"]
      /\ todo' = [todo EXCEPT ![p] = <<>>]
      /\ UNCHANGED <<db, pooled, closed, autosave, next, saves, touched>>
  BY DEF LoadPut
<1>2. todo[p][1].id \in Ids /\ todo[p][1].rec \in Record /\ 1 \in DOMAIN todo[p]
  BY <1>1, LoadedType
<1>3. PICK id \in Ids, rec \in Record : id = todo[p][1].id /\ rec = todo[p][1].rec
  BY <1>2
<1>4. rec # NoRecord /\ Current(rec, id)
  BY <1>1, <1>2, <1>3 DEF ReadsFit, SnapshotsCurrent, Current, Row
<1>5. \A j \in Ids : dbVer'[j] = dbVer[j] /\ dbTools'[j] = dbTools[j]
  BY <1>1 DEF db
<1>6. lru' \in LruType /\ LruWellFormed' /\ CacheCoherent'
  <2>1. lru \in LruType /\ Current(rec, id)'
    BY <1>1, <1>4 DEF TypeOK, Current, Row, db
  <2>2. lru' = Put(lru, id, rec) /\ stale' = stale \ {id}
    BY <1>1, <1>3
  <2> QED
    BY <1>4, <1>5, <2>1, <2>2, CoherentPut
<1>7. SnapshotsCurrent' /\ ReadsFit'
  BY <1>1, OthersUntouched DEF TypeOK
<1>8. TypeOK'
  <2>1. pc' \in [Procs -> PcType] /\ todo' \in [Procs -> Seq(Loaded)]
    BY <1>1 DEF TypeOK, PcType
  <2>2. stale' \subseteq Ids
    BY <1>1 DEF TypeOK
  <2> QED
    BY <1>1, <1>6, <2>1, <2>2 DEF TypeOK, db
<1> QED
  BY <1>6, <1>7, <1>8

\* recs are the first m rows of s, each with what its read gave.
ReadOf(recs, s, m) ==
    /\ recs = [i \in 1..m |-> recs[i]]
    /\ \A i \in 1..m : \E rec \in Readings(s[i]) : recs[i] = [id |-> s[i], rec |-> rec]

\* What LoadRecent reads is a sequence of distinct existing rows, no longer
\* than its limit.
LEMMA NewestFirstProperties ==
    ASSUME TypeOK, NEW limit \in Nat, NEW s \in NewestFirst(limit),
           NEW m \in RowsRead(s), NEW recs, ReadOf(recs, s, m)
    PROVE  /\ recs \in Seq(Loaded)
           /\ Len(recs) <= limit
           /\ \A i \in DOMAIN recs : Current(recs[i].rec, recs[i].id)
                                     /\ recs[i].rec # NoRecord
           /\ \A i, j \in DOMAIN recs : recs[i].id = recs[j].id => i = j
<1> DEFINE n == IF Cardinality(RowIds) < limit THEN Cardinality(RowIds) ELSE limit
<1>1. n \in Nat /\ n <= limit
  <2>1. RowIds \in SUBSET Ids
    BY DEF RowIds
  <2>2. IsFiniteSet(RowIds)
    BY <2>1, FS_Subset, StorageAssumption
  <2>3. Cardinality(RowIds) \in Nat
    BY <2>2, FS_CardinalityType
  <2> QED
    BY <2>3
<1>2. s \in [1..n -> RowIds] /\ \A i, j \in 1..n : i < j => s[i] > s[j]
  BY DEF NewestFirst
<1> HIDE DEF n
<1>3. m \in 0..n
  <2>1. Len(s) = n
    BY <1>1, <1>2
  <2> QED
    BY <1>1, <2>1 DEF RowsRead
<1>4. \A i \in 1..m : i \in 1..n /\ s[i] \in Ids /\ dbVer[s[i]] # 0 /\ s[i] \in Nat
  <2> TAKE i \in 1..m
  <2>1. i \in 1..n
    BY <1>1, <1>3
  <2>2. s[i] \in RowIds
    BY <1>2, <2>1
  <2> QED
    BY <2>1, <2>2, StorageAssumption DEF RowIds
<1>5. \A i \in 1..m : /\ recs[i] \in Loaded
                     /\ recs[i].id = s[i]
                     /\ recs[i].rec # NoRecord
                     /\ Current(recs[i].rec, recs[i].id)
  <2> TAKE i \in 1..m
  <2>1. PICK rec \in Readings(s[i]) : recs[i] = [id |-> s[i], rec |-> rec]
    BY DEF ReadOf
  <2>2. rec \in Record \ {NoRecord} /\ Current(rec, s[i])
    BY <1>4, ReadingType
  <2> QED
    BY <1>4, <2>1, <2>2 DEF Loaded
<1>6. recs \in [1..m -> Loaded]
  BY <1>5 DEF ReadOf
<1>7. recs \in Seq(Loaded) /\ Len(recs) = m
  <2>1. recs \in Seq(Loaded)
    BY <1>1, <1>3, <1>6, SeqDef
  <2> QED
    BY <1>1, <1>3, <1>6, <2>1
<1>8. \A i \in 1..m : Current(recs[i].rec, recs[i].id) /\ recs[i].rec # NoRecord
  BY <1>5
<1>9. \A i, j \in 1..m : recs[i].id = recs[j].id => i = j
  <2> SUFFICES ASSUME NEW i \in 1..m, NEW j \in 1..m, s[i] = s[j]
               PROVE  i = j
    BY <1>5
  <2>1. ~(i < j) /\ ~(j < i)
    BY <1>2, <1>4
  <2> QED
    BY <1>1, <1>3, <2>1
<1> QED
  BY <1>1, <1>3, <1>6, <1>7, <1>8, <1>9

LEMMA RecentReadStep ==
    ASSUME IInv, NEW p \in Procs,
           LoadRecentConversations(p) \/ RefreshRead(p)
    PROVE  IInv'
<1> USE DEF IInv
<1>1. PICK limit \in Nat, then \in {"recent_put", "refresh_put"} :
        RecentRead(p, limit, then) /\ (then = "refresh_put" => limit = CacheSize)
  BY StorageAssumption DEF LoadRecentConversations, RefreshRead
<1>2. /\ pc' = [pc EXCEPT ![p] = then]
      /\ next' = [next EXCEPT ![p] = 1]
      /\ pooled' \in BOOLEAN
      /\ touched' = [touched EXCEPT ![p] = {}]
      /\ UNCHANGED <<db, lru, closed, autosave, saves, stale>>
  BY <1>1 DEF RecentRead, TypeOK
<1> PICK s \in NewestFirst(limit) : \E n \in RowsRead(s) :
        \E read \in [1..n -> UNION {Readings(id) : id \in Ids}] :
            /\ \A i \in 1..n : read[i] \in Readings(s[i])
            /\ todo' = [todo EXCEPT ![p] = [i \in 1..n |-> [id |-> s[i], rec |-> read[i]]]]
  BY <1>1 DEF RecentRead
<1> PICK n \in RowsRead(s) :
        \E read \in [1..n -> UNION {Readings(id) : id \in Ids}] :
            /\ \A i \in 1..n : read[i] \in Readings(s[i])
            /\ todo' = [todo EXCEPT ![p] = [i \in 1..n |-> [id |-> s[i], rec |-> read[i]]]]
  OBVIOUS
<1>3. PICK read \in [1..n -> UNION {Readings(id) : id \in Ids}] :
            /\ \A i \in 1..n : read[i] \in Readings(s[i])
            /\ todo' = [todo EXCEPT ![p] = [i \in 1..n |-> [id |-> s[i], rec |-> read[i]]]]
  OBVIOUS
<1>11. PICK recs : recs = [i \in 1..n |-> [id |-> s[i], rec |-> read[i]]]
  OBVIOUS
<1>4. /\ recs \in Seq(Loaded)
      /\ Len(recs) <= limit
      /\ \A i \in DOMAIN recs : Current(recs[i].rec, recs[i].id)
                                /\ recs[i].rec # NoRecord
      /\ \A i, j \in DOMAIN recs : recs[i].id = recs[j].id => i = j
  <2>1. TypeOK /\ limit \in Nat /\ s \in NewestFirst(limit) /\ n \in RowsRead(s)
    OBVIOUS
  <2>2. ReadOf(recs, s, n)
    BY <1>3, <1>11 DEF ReadOf
  <2> HIDE DEF IInv
  <2> QED
    BY <2>1, <2>2, NewestFirstProperties
<1>5. todo' = [todo EXCEPT ![p] = recs]
  BY <1>3, <1>11
<1>6. LruWellFormed' /\ CacheCoherent'
  BY <1>2, CacheUntouched
<1>7. /\ todo'[p] = recs
      /\ pc'[p] = then
      /\ \A q \in Procs : q = p \/ /\ pc'[q] = pc[q]
                                   /\ todo'[q] = todo[q]
                                   /\ touched'[q] = touched[q]
  BY <1>2, <1>5 DEF TypeOK
<1>8. SnapshotsCurrent'
  <2>1. \A i \in DOMAIN recs : Current(recs[i].rec, recs[i].id)'
    BY <1>2, <1>4 DEF Current, Row, db
  <2>2. UNCHANGED <<dbVer, dbTools>>
    BY <1>2 DEF db
  <2> SUFFICES ASSUME NEW q \in Procs, NEW i \in DOMAIN todo'[q]
               PROVE
        /\ pc'[q] \in {"load_put", "recent_put", "refresh_put"} =>
                Current(todo[q][i].rec, todo[q][i].id)'
        /\ pc'[q] \in {"refresh_gap", "refresh_lock"}
           /\ todo'[q][i].id \notin touched'[q] =>
                Current(todo[q][i].rec, todo[q][i].id)'
    BY DEF SnapshotsCurrent
  <2>3. CASE q = p
    BY <2>1, <2>3, <1>7 DEF Current, Row
  <2>4. CASE q # p
    <3>1. pc'[q] = pc[q] /\ todo'[q] = todo[q] /\ touched'[q] = touched[q]
      BY <2>4, <1>7
    <3>2. /\ pc[q] \in {"load_put", "recent_put", "refresh_put"} =>
                Current(todo[q][i].rec, todo[q][i].id)
          /\ pc[q] \in {"refresh_gap", "refresh_lock"}
             /\ todo[q][i].id \notin touched[q] =>
                Current(todo[q][i].rec, todo[q][i].id)
      BY <3>1 DEF SnapshotsCurrent
    <3>3. Current(todo[q][i].rec, todo[q][i].id)
            => Current(todo[q][i].rec, todo[q][i].id)'
      BY <2>2, <3>1 DEF Current, Row
    <3> QED
      BY <3>1, <3>2, <3>3
  <2> QED
    BY <2>3, <2>4
<1>9. ReadsFit'
  <2>1. /\ then = "refresh_put" => Len(recs) <= CacheSize
        /\ \A i \in DOMAIN recs : recs[i].rec # NoRecord
        /\ \A i, j \in DOMAIN recs : recs[i].id = recs[j].id => i = j
    BY <1>1, <1>4
  <2> SUFFICES ASSUME NEW q \in Procs
               PROVE
        /\ pc'[q] \in {"load_read", "load_put"} => Len(todo'[q]) = 1
        /\ pc'[q] \in {"load_put", "recent_put", "refresh_put", "refresh_gap",
                      "refresh_lock"} =>
                \A i \in DOMAIN todo'[q] : todo'[q][i].rec # NoRecord
        /\ pc'[q] \in {"refresh_put", "refresh_gap", "refresh_lock"} =>
                /\ Len(todo'[q]) <= CacheSize
                /\ \A i, j \in DOMAIN todo'[q] :
                        todo'[q][i].id = todo'[q][j].id => i = j
    BY DEF ReadsFit
  <2>2. CASE q = p
    BY <2>1, <2>2, <1>1, <1>7
  <2>3. CASE q # p
    BY <2>3, <1>7 DEF ReadsFit
  <2> QED
    BY <2>2, <2>3
<1>10. TypeOK'
  <2>1. pc' \in [Procs -> PcType] /\ todo' \in [Procs -> Seq(Loaded)]
    BY <1>2, <1>4, <1>5 DEF TypeOK, PcType, Reading
  <2>2. next' \in [Procs -> Nat \ {0}] /\ touched' \in [Procs -> SUBSET Ids]
    BY <1>2 DEF TypeOK
  <2> QED
    BY <1>2, <2>1, <2>2 DEF TypeOK, db
<1> QED
  BY <1>6, <1>8, <1>9, <1>10

LEMMA RecentErrorStep ==
    ASSUME IInv, NEW p \in Procs, RecentError(p)
    PROVE  IInv'
<1> USE DEF IInv
<1>1. /\ UNCHANGED <<db, lru, closed, autosave, pc, todo, next, saves, stale, touched>>
      /\ pooled' \in BOOLEAN
  BY DEF RecentError
<1>2. LruWellFormed' /\ CacheCoherent'
  BY <1>1, CacheUntouched
<1>3. SnapshotsCurrent' /\ ReadsFit'
  BY <1>1 DEF SnapshotsCurrent, ReadsFit, Current, Row, db
<1>4. TypeOK'
  BY <1>1 DEF TypeOK, db
<1> QED
  BY <1>2, <1>3, <1>4

\* What a read in progress carries, element by element.
LEMMA TodoType ==
    ASSUME TypeOK, NEW p \in Procs, NEW i \in DOMAIN todo[p]
    PROVE  todo[p][i].id \in Ids /\ todo[p][i].rec \in Record
<1>1. todo[p] \in Seq(Loaded)
  BY DEF TypeOK
<1>2. todo[p][i] \in Loaded
  BY <1>1
<1> QED
  BY <1>2 DEF Loaded

LEMMA RecentPutStep ==
    ASSUME IInv, NEW p \in Procs, RecentPut(p)
    PROVE  IInv'
<1> USE DEF IInv
<1>1. /\ pc[p] \in {"recent_put", "refresh_put"}
      /\ next[p] <= Len(todo[p])
      /\ lru' = Put(lru, todo[p][next[p]].id, todo[p][next[p]].rec)
      /\ stale' = stale \ {todo[p][next[p]].id}
      /\ next' = [next EXCEPT ![p] = @ + 1]
      /\ UNCHANGED <<db, pooled, closed, autosave, pc, todo, saves, touched>>
  BY DEF RecentPut
<1>2. next[p] \in DOMAIN todo[p]
  <2>1. todo[p] \in Seq(Loaded) /\ next[p] \in Nat \ {0}
    BY DEF TypeOK
  <2> QED
    BY <1>1, <2>1
<1>3. PICK id \in Ids, rec \in Record :
        id = todo[p][next[p]].id /\ rec = todo[p][next[p]].rec
  BY <1>2, TodoType
<1>4. rec # NoRecord /\ Current(rec, id)
  BY <1>1, <1>2, <1>3 DEF ReadsFit, SnapshotsCurrent, Current, Row
<1>5. \A j \in Ids : dbVer'[j] = dbVer[j] /\ dbTools'[j] = dbTools[j]
  BY <1>1 DEF db
<1>6. lru' \in LruType /\ LruWellFormed' /\ CacheCoherent'
  <2>1. lru \in LruType /\ Current(rec, id)'
    BY <1>1, <1>4 DEF TypeOK, Current, Row, db
  <2>2. lru' = Put(lru, id, rec) /\ stale' = stale \ {id}
    BY <1>1, <1>3
  <2> QED
    BY <1>4, <1>5, <2>1, <2>2, CoherentPut
<1>7. SnapshotsCurrent' /\ ReadsFit'
  <2>1. UNCHANGED <<dbVer, dbTools>>
    BY <1>1 DEF db
  <2>2. SnapshotsCurrent'
    BY SMTT(60), <1>1, <2>1 DEF SnapshotsCurrent, Current, Row
  <2>3. ReadsFit'
    BY SMTT(60), <1>1 DEF ReadsFit
  <2> QED
    BY <2>2, <2>3
<1>8. TypeOK'
  <2>1. next' \in [Procs -> Nat \ {0}]
    BY <1>1 DEF TypeOK
  <2>2. stale' \subseteq Ids
    BY <1>1 DEF TypeOK
  <2> QED
    BY <1>1, <1>6, <2>1, <2>2 DEF TypeOK, db
<1> QED
  BY <1>6, <1>7, <1>8

\* The steps of a refresh after its puts keep what was read.
LEMMA RecentDoneStep ==
    ASSUME IInv, NEW p \in Procs, RecentDone(p) \/ RefreshLock(p)
    PROVE  IInv'
<1> USE DEF IInv
<1>1. /\ UNCHANGED <<db, pooled, lru, closed, autosave, saves, stale, touched>>
      /\ next' \in [Procs -> Nat \ {0}]
  <2>1. /\ UNCHANGED <<db, pooled, lru, closed, autosave, saves, stale, touched>>
        /\ next' = [next EXCEPT ![p] = 1] \/ next' = next
    BY DEF RecentDone, RefreshLock
  <2>2. next \in [Procs -> Nat \ {0}]
    BY DEF TypeOK
  <2>3. next' \in [Procs -> Nat \ {0}]
    BY <2>1, <2>2
  <2> QED
    BY <2>1, <2>3
<1>2. LruWellFormed' /\ CacheCoherent'
  BY <1>1, CacheUntouched
<1>3. CASE pc[p] = "recent_put"
  <2>1. pc' = [pc EXCEPT ![p] = "idle"] /\ todo' = [todo EXCEPT ![p] = <<>>]
    BY <1>3 DEF RecentDone, RefreshLock
  <2>2. pc' \in [Procs -> PcType] /\ todo' \in [Procs -> Seq(Loaded)]
    BY <2>1 DEF TypeOK, PcType
  <2>3. SnapshotsCurrent' /\ ReadsFit'
    BY <1>1, <2>1, OthersUntouched DEF TypeOK
  <2> QED
    BY <1>1, <1>2, <2>2, <2>3 DEF TypeOK, db
<1>4. CASE pc[p] # "recent_put"
  <2>1. PICK from \in {"refresh_put", "refresh_gap"}, to \in {"refresh_gap", "refresh_lock"} :
          pc[p] = from /\ pc' = [pc EXCEPT ![p] = to] /\ UNCHANGED todo
    BY <1>4 DEF RecentDone, RefreshLock
  <2>2. pc' \in [Procs -> PcType]
    BY <2>1 DEF TypeOK, PcType, Waiting
  <2>3. pc'[p] = to /\ \A q \in Procs : q = p \/ pc'[q] = pc[q]
    BY <2>1 DEF TypeOK
  <2>4. SnapshotsCurrent'
    <3>1. \A i \in DOMAIN todo[p] :
            todo[p][i].id \notin touched[p] =>
                Current(todo[p][i].rec, todo[p][i].id)
      BY <2>1 DEF SnapshotsCurrent
    <3> QED
      BY <1>1, <2>1, <2>3, <3>1 DEF SnapshotsCurrent, Current, Row, db
  <2>5. ReadsFit'
    <3>1. /\ \A i \in DOMAIN todo[p] : todo[p][i].rec # NoRecord
          /\ Len(todo[p]) <= CacheSize
          /\ \A i, j \in DOMAIN todo[p] : todo[p][i].id = todo[p][j].id => i = j
      BY <2>1 DEF ReadsFit
    <3> QED
      BY <2>1, <2>3, <3>1 DEF ReadsFit
  <2> QED
    BY <1>1, <1>2, <2>1, <2>2, <2>4, <2>5 DEF TypeOK, db
<1> QED
  BY <1>3, <1>4

LEMMA RefreshInstallStep ==
    ASSUME IInv, NEW p \in Procs, RefreshInstall(p)
    PROVE  IInv'
<1> USE DEF IInv
<1>1. /\ pc[p] = "refresh_lock"
      /\ lru' = FreshLru(todo[p])
      /\ stale' = touched[p]
      /\ touched' = [touched EXCEPT ![p] = {}]
      /\ todo' = [todo EXCEPT ![p] = <<>>]
      /\ pc' = [pc EXCEPT ![p] = "idle"]
      /\ UNCHANGED <<db, pooled, closed, autosave, next, saves>>
  BY DEF RefreshInstall
<1>2. /\ todo[p] \in Seq(Loaded)
      /\ Len(todo[p]) <= CacheSize
      /\ \A i \in DOMAIN todo[p] : todo[p][i].rec # NoRecord
      /\ \A i, j \in DOMAIN todo[p] : todo[p][i].id = todo[p][j].id => i = j
  BY <1>1 DEF TypeOK, ReadsFit
<1>3. /\ lru' \in LruType
      /\ WellFormed(lru')
      /\ \A id \in Keys(lru') : \E i \in DOMAIN todo[p] :
            todo[p][i].id = id /\ lru'.items[id] = todo[p][i].rec
  BY SMTT(60), <1>1, <1>2, FreshProperties
<1>4. LruWellFormed'
  BY <1>3 DEF LruWellFormed, WellFormed, Keys
<1>5. CacheCoherent'
  <2> SUFFICES ASSUME NEW id \in Keys(lru'), id \notin stale'
               PROVE  Current(lru.items[id], id)'
    BY DEF CacheCoherent, Keys
  <2>1. PICK i \in DOMAIN todo[p] :
            todo[p][i].id = id /\ lru'.items[id] = todo[p][i].rec
    BY <1>3
  <2>2. Current(todo[p][i].rec, todo[p][i].id)
    BY <1>1, <2>1 DEF SnapshotsCurrent
  <2> QED
    BY <1>1, <2>1, <2>2 DEF Current, Row, db
<1>6. SnapshotsCurrent' /\ ReadsFit'
  BY <1>1, OthersUntouched DEF TypeOK
<1>7. TypeOK'
  <2>1. pc' \in [Procs -> PcType] /\ todo' \in [Procs -> Seq(Loaded)]
    BY <1>1 DEF TypeOK, PcType
  <2>2. stale' \subseteq Ids /\ touched' \in [Procs -> SUBSET Ids]
    BY <1>1 DEF TypeOK
  <2> QED
    BY <1>1, <1>3, <2>1, <2>2 DEF TypeOK, db
<1> QED
  BY <1>4, <1>5, <1>6, <1>7

LEMMA EmptyLruProperties ==
    EmptyLru \in LruType /\ WellFormed(EmptyLru) /\ Keys(EmptyLru) = {}
BY NoRecordType, StorageAssumption DEF EmptyLru, LruType, WellFormed, Keys

LEMMA CloseStep ==
    ASSUME IInv, NEW p \in Procs,
           CloseCancel(p) \/ CloseWaited(p) \/ CloseMark(p) \/ CloseClear(p)
    PROVE  IInv'
<1> USE DEF IInv
<1>1. PICK to \in {"idle", "close_wait", "close_lock", "close_clear"} :
        /\ pc' = [pc EXCEPT ![p] = to]
        /\ UNCHANGED <<db, pooled, todo, next, saves, stale, touched>>
        /\ lru' = lru \/ lru' = EmptyLru
        /\ closed' \in BOOLEAN
        /\ autosave' = [autosave EXCEPT !.cancelled = TRUE] \/ autosave' = autosave
  BY DEF CloseCancel, CloseWaited, CloseMark, CloseClear, TypeOK
<1>2. pc'[p] = to /\ \A q \in Procs \ {p} : pc'[q] = pc[q]
  BY <1>1 DEF TypeOK
<1>3. SnapshotsCurrent' /\ ReadsFit'
  BY <1>1, <1>2, OthersUntouched
<1>4. lru' \in LruType /\ LruWellFormed' /\ CacheCoherent'
  <2>1. CASE lru' = lru
    BY <1>1, <2>1, CacheUntouched DEF TypeOK
  <2>2. CASE lru' = EmptyLru
    <3>1. lru' \in LruType /\ WellFormed(lru') /\ Keys(lru') = {}
      BY <2>2, EmptyLruProperties
    <3> QED
      BY <3>1 DEF LruWellFormed, WellFormed, CacheCoherent, Keys
  <2> QED
    BY <1>1, <2>1, <2>2
<1>5. TypeOK'
  <2>1. pc' \in [Procs -> PcType]
    BY <1>1 DEF TypeOK, PcType, Waiting
  <2>2. autosave' \in [signal : BOOLEAN, count : 0..(AutoSaveEvery - 1),
                       cancelled : BOOLEAN, stopped : BOOLEAN]
    BY <1>1 DEF TypeOK
  <2> QED
    BY <1>1, <1>4, <2>1, <2>2 DEF TypeOK, db
<1> QED
  BY <1>3, <1>4, <1>5

LEMMA WorkerStep ==
    ASSUME IInv, WorkerSignal \/ WorkerExit \/ UNCHANGED vars
    PROVE  IInv'
<1> USE DEF IInv
<1>1. UNCHANGED <<db, pooled, lru, closed, pc, todo, next, saves, stale, touched>>
  BY DEF WorkerSignal, WorkerExit, vars, db
<1>2. LruWellFormed' /\ CacheCoherent'
  BY <1>1, CacheUntouched
<1>3. SnapshotsCurrent' /\ ReadsFit'
  BY <1>1 DEF SnapshotsCurrent, ReadsFit, Current, Row, db
<1>4. autosave' \in [signal : BOOLEAN, count : 0..(AutoSaveEvery - 1),
                     cancelled : BOOLEAN, stopped : BOOLEAN]
  <2>1. CASE WorkerSignal
    <3>1. PICK c \in 0..(AutoSaveEvery - 1) : c = autosave.count
      BY DEF TypeOK
    <3>2. (IF c + 1 >= AutoSaveEvery THEN 0 ELSE c + 1) \in 0..(AutoSaveEvery - 1)
      BY StorageAssumption
    <3>3. autosave' = [autosave EXCEPT !.signal = FALSE,
                          !.count = IF c + 1 >= AutoSaveEvery THEN 0 ELSE c + 1]
      BY <2>1, <3>1 DEF WorkerSignal
    <3> QED
      BY <3>2, <3>3 DEF TypeOK
  <2>2. CASE WorkerExit
    BY <2>2 DEF WorkerExit, TypeOK
  <2>3. CASE UNCHANGED vars
    BY <2>3 DEF vars, TypeOK
  <2> QED
    BY <2>1, <2>2, <2>3
<1>5. TypeOK'
  BY <1>1, <1>4 DEF TypeOK, db
<1> QED
  BY <1>2, <1>3, <1>5

LEMMA CrashStep == ASSUME IInv, Crash PROVE IInv'
<1> USE DEF IInv
<1>1. /\ lru' = EmptyLru
      /\ pc' = [p \in Procs |-> "idle"]
      /\ todo' = [p \in Procs |-> <<>>]
      /\ UNCHANGED <<db, saves>>
  BY DEF Crash
<1>2. lru' \in LruType /\ WellFormed(lru') /\ Keys(lru') = {}
  BY <1>1, EmptyLruProperties
<1>3. LruWellFormed' /\ CacheCoherent'
  BY <1>2 DEF LruWellFormed, WellFormed, CacheCoherent, Keys
<1>4. SnapshotsCurrent' /\ ReadsFit'
  BY <1>1 DEF SnapshotsCurrent, ReadsFit
<1>5. TypeOK'
  <2>1. todo' \in [Procs -> Seq(Loaded)] /\ next' \in [Procs -> Nat \ {0}]
    BY <1>1 DEF Crash
  <2>2. pc' \in [Procs -> PcType]
    BY <1>1 DEF PcType
  <2>3. autosave' \in [signal : BOOLEAN, count : 0..(AutoSaveEvery - 1),
                       cancelled : BOOLEAN, stopped : BOOLEAN]
    BY StorageAssumption DEF Crash
  <2>4. pooled' \in BOOLEAN /\ closed' \in BOOLEAN /\ stale' \subseteq Ids
        /\ touched' \in [Procs -> SUBSET Ids]
    BY DEF Crash
  <2> QED
    BY <1>1, <1>2, <2>1, <2>2, <2>3, <2>4 DEF TypeOK, db
<1> QED
  BY <1>3, <1>4, <1>5

\* IInv is an invariant: each handler keeps it.
THEOREM Invariance == Spec => []IInv
<1>1. IInv /\ [Next]_vars => IInv'
  <2> SUFFICES ASSUME IInv, [Next]_vars PROVE IInv'
    OBVIOUS
  <2>1. CASE \E p \in Procs, id \in Ids :
                \/ \E n \in 0..MaxTools : SaveConversation(p, id, n)
                \/ DeleteConversation(p, id)
                \/ LoadHit(p, id)
                \/ LoadMiss(p, id)
    BY <2>1, SaveStep, DeleteStep, LoadHitStep, LoadStep
  <2>2. ASSUME NEW p \in Procs,
               LoadRecentConversations(p) \/ RefreshRead(p) \/ RecentError(p)
               \/ CloseCancel(p) \/ Continue(p)
        PROVE  IInv'
    BY <2>2, LoadStep, LoadPutStep, RecentReadStep, RecentErrorStep, RecentPutStep,
       RecentDoneStep, RefreshInstallStep, CloseStep DEF Continue
  <2>3. CASE WorkerSignal \/ WorkerExit \/ UNCHANGED vars
    BY <2>3, WorkerStep
  <2>4. CASE Crash
    BY <2>4, CrashStep
  <2> QED
    BY <2>1, <2>2, <2>3, <2>4 DEF Next
<1> QED
  BY InitIInv, <1>1, PTL DEF Spec

\* The state is always of its type.
THEOREM TypeCorrect == Spec => []TypeOK
<1>1. IInv => TypeOK
  BY DEF IInv
<1> QED
  BY Invariance, <1>1, PTL

\* The map and the list of the LRU cache always agree and stay within
\* CacheSize.
THEOREM LruCorrect == Spec => []LruWellFormed
<1>1. IInv => LruWellFormed
  BY DEF IInv
<1> QED
  BY Invariance, <1>1, PTL

\* A conversation is served from the cache as the tables hold it, but for
\* the ways that CacheCoherent names to turn stale or to be cut short.
THEOREM CacheCorrect == Spec => []CacheCoherent
<1>1. IInv => CacheCoherent
  BY DEF IInv
<1> QED
  BY Invariance, <1>1, PTL

\* What a reader carries is current until it is cached, or touched.
THEOREM SnapshotsCorrect == Spec => []SnapshotsCurrent
<1>1. IInv => SnapshotsCurrent
  BY DEF IInv
<1> QED
  BY Invariance, <1>1, PTL

-----------------------------------------------------------------------------
(***************************************************************************)
(* The manager implements the repository where it is used as the program   *)
(* uses it: nobody calls RefreshCache, records have no tool executions and *)
(* statements succeed.  Then no cached record is ever stale, and a Load    *)
(* returns what the tables hold.                                           *)
(***************************************************************************)
UsedPlainly == Refreshers = {} /\ MaxTools = 0 /\ ~Faults

NothingStale ==
    /\ stale = {}
    /\ \A p \in Procs : pc[p] \notin {"refresh_put", "refresh_gap", "refresh_lock"}

LEMMA NothingStaleInitially == Init => NothingStale
  BY DEF Init, NothingStale

\* Only a save that leaves rows behind and the install of a refresh make stale.
LEMMA NothingGetsStale ==
    ASSUME UsedPlainly, IInv, NothingStale, [Next]_vars PROVE NothingStale'
<1>1. /\ stale = {} /\ pc \in [Procs -> PcType] /\ dbTools \in [Ids -> {0}]
      /\ \A p \in Procs : pc[p] \notin {"refresh_put", "refresh_gap", "refresh_lock"}
  BY DEF NothingStale, IInv, TypeOK, UsedPlainly
<1>2. ASSUME NEW p \in Procs, NEW id \in Ids, NEW n \in 0..MaxTools, SaveConversation(p, id, n)
      PROVE  NothingStale'
  <2>1. n = 0 /\ dbTools'[id] = 0
    <3>1. n = 0
      BY DEF UsedPlainly
    <3>2. \E done \in {n} : WriteRow(id, done)
      BY <1>2 DEF SaveConversation, UsedPlainly
    <3> QED
      BY <1>1, <3>1, <3>2 DEF WriteRow
  <2>2. stale' = {} /\ UNCHANGED pc
    BY <1>1, <1>2, <2>1 DEF SaveConversation, UsedPlainly
  <2> QED
    BY <1>1, <2>2 DEF NothingStale
<1>3. ASSUME NEW p \in Procs, NEW id \in Ids,
             DeleteConversation(p, id) \/ LoadHit(p, id) \/ LoadMiss(p, id)
      PROVE  NothingStale'
  <2>1. stale' = {} /\ (UNCHANGED pc \/ pc' = [pc EXCEPT ![p] = "load_read"])
    BY <1>1, <1>3 DEF DeleteConversation, LoadHit, LoadMiss
  <2> QED
    BY <1>1, <2>1 DEF NothingStale
<1>4. ASSUME NEW p \in Procs, LoadRecentConversations(p) \/ RefreshRead(p)
      PROVE  NothingStale'
  <2>1. stale' = {} /\ pc' = [pc EXCEPT ![p] = "recent_put"]
    BY <1>1, <1>4 DEF LoadRecentConversations, RefreshRead, RecentRead, UsedPlainly
  <2> QED
    BY <1>1, <2>1 DEF NothingStale
<1>5. ASSUME NEW p \in Procs, CloseCancel(p) \/ Continue(p) PROVE NothingStale'
  <2>1. PICK to \in {pc[p], "idle", "load_put", "close_wait", "close_lock", "close_clear"} :
            stale' = {} /\ pc' = [pc EXCEPT ![p] = to]
    <3>1. CASE RecentPut(p)
      BY <1>1, <3>1 DEF RecentPut
    <3>2. CASE RecentDone(p)
      BY <1>1, <3>2 DEF RecentDone
    <3>3. ~RefreshLock(p) /\ ~RefreshInstall(p)
      BY <1>1 DEF RefreshLock, RefreshInstall
    <3>4. CASE LoadFound(p) \/ LoadError(p) \/ LoadPut(p)
      BY <1>1, <3>4 DEF LoadFound, LoadError, LoadPut
    <3>5. CASE CloseCancel(p) \/ CloseWaited(p) \/ CloseMark(p) \/ CloseClear(p)
      BY <1>1, <3>5 DEF CloseCancel, CloseWaited, CloseMark, CloseClear
    <3> QED
      BY <1>5, <3>1, <3>2, <3>3, <3>4, <3>5 DEF Continue
  <2> QED
    BY <1>1, <2>1 DEF NothingStale
<1>6. CASE WorkerSignal \/ WorkerExit \/ UNCHANGED vars
  BY <1>1, <1>6 DEF WorkerSignal, WorkerExit, vars, NothingStale
<1>7. CASE Crash
  BY <1>7 DEF Crash, NothingStale
<1>8. \A p \in Procs : ~RecentError(p)
  BY DEF RecentError, UsedPlainly
<1> QED
  BY <1>2, <1>3, <1>4, <1>5, <1>6, <1>7, <1>8 DEF Next

\* What a Load returns, hit or miss, is the row.
LEMMA ViewIsRow ==
    ASSUME UsedPlainly, IInv, NothingStale, NEW id \in Ids PROVE View(id) = Row(id)
<1>1. CASE id \in Keys(lru)
  <2>1. Current(lru.items[id], id)
    BY <1>1 DEF IInv, CacheCoherent, NothingStale
  <2>2. lru.items[id].tools \in 0..0 /\ dbTools[id] \in 0..0
    BY DEF IInv, TypeOK, LruType, Record, UsedPlainly
  <2> QED
    BY <1>1, <2>1, <2>2 DEF Current, View
<1>2. CASE id \notin Keys(lru)
  BY <1>2 DEF View
<1> QED
  BY <1>1, <1>2

LEMMA NextViewIsRow ==
    ASSUME UsedPlainly, IInv', NothingStale', NEW id \in Ids PROVE View(id)' = Row(id)'
<1>1. CASE id \in Keys(lru)'
  <2>1. Current(lru.items[id], id)'
    BY <1>1 DEF IInv, CacheCoherent, NothingStale
  <2>2. lru'.items[id].tools \in 0..0 /\ dbTools'[id] \in 0..0
    BY DEF IInv, TypeOK, LruType, Record, UsedPlainly
  <2> QED
    BY <1>1, <2>1, <2>2 DEF Current, View
<1>2. CASE id \notin Keys(lru)'
  BY <1>2 DEF View
<1> QED
  BY <1>1, <1>2

\* The table as the repository has it.
LEMMA InitImplements ==
    ASSUME UsedPlainly, Init PROVE Repository!Init
<1>1. IInv /\ NothingStale
  BY InitIInv, NothingStaleInitially
<1>2. \A id \in Ids : View(id) = NoRecord
  BY <1>1, ViewIsRow DEF Init, Row
<1>3. [id \in Ids |-> View(id)] = [id \in Ids |-> NoRecord]
  BY <1>2
<1>4. (~closed) = TRUE /\ saves = 0
  BY DEF Init
<1> QED
  BY <1>3, <1>4 DEF Repository!Init

\* A step that changes neither the tables nor closed nor the number of saves is none.
LEMMA StutterImplements ==
    ASSUME UsedPlainly, IInv, NothingStale, IInv', NothingStale',
           UNCHANGED <<db, closed, saves>>
    PROVE  UNCHANGED <<[id \in Ids |-> View(id)], ~closed, saves>>
<1>1. \A id \in Ids : View(id)' = View(id)
  <2> TAKE id \in Ids
  <2>1. View(id) = Row(id)
    BY ViewIsRow
  <2>2. View(id)' = Row(id)'
    BY NextViewIsRow
  <2>3. Row(id)' = Row(id)
    BY DEF Row, db
  <2> QED
    BY <2>1, <2>2, <2>3
<1>2. [id \in Ids |-> View(id)]' = [id \in Ids |-> View(id)]
  BY <1>1
<1> QED
  BY <1>2

LEMMA StepImplements ==
    ASSUME UsedPlainly, IInv, NothingStale, [Next]_vars, IInv', NothingStale'
    PROVE  [Repository!Next]_<<[id \in Ids |-> View(id)], ~closed, saves>>
<1> DEFINE mapped == <<[id \in Ids |-> View(id)], ~closed, saves>>
<1>1. /\ \A id \in Ids : View(id) = Row(id) /\ View(id)' = Row(id)'
      /\ dbTools \in [Ids -> {0}] /\ dbVer \in [Ids -> 0..MaxSaves]
      /\ saves \in 0..MaxSaves
  BY ViewIsRow, NextViewIsRow DEF IInv, TypeOK, UsedPlainly
<1>2. ASSUME NEW p \in Procs, NEW id \in Ids, NEW n \in 0..MaxTools, SaveConversation(p, id, n)
      PROVE  Repository!Next
  <2> DEFINE rec == Whole(saves + 1, 0)
  <2>1. n = 0 /\ ~closed /\ closed' = closed /\ saves' = saves + 1 /\ saves < MaxSaves
        /\ dbVer' = [dbVer EXCEPT ![id] = saves + 1] /\ WriteRow(id, 0)
    <3>1. n = 0
      BY DEF UsedPlainly
    <3>2. WriteRow(id, n)
      BY <1>2 DEF SaveConversation, UsedPlainly
    <3> QED
      BY <1>2, <3>1, <3>2 DEF SaveConversation, WriteRow
  <2>2. dbTools'[id] = 0 /\ \A j \in Ids : dbTools'[j] = 0
    BY <1>1, <2>1 DEF WriteRow
  <2>3. Row(id)' = rec /\ \A j \in Ids \ {id} : Row(j)' = Row(j)
    <3>1. dbVer'[id] = saves + 1 /\ saves + 1 # 0 /\ dbTools'[id] = 0
      BY <1>1, <2>1, <2>2
    <3>2. Row(id)' = rec
      BY <3>1 DEF Row
    <3>3. \A j \in Ids \ {id} : dbVer'[j] = dbVer[j] /\ dbTools'[j] = dbTools[j]
      BY <1>1, <2>1, <2>2
    <3> QED
      BY <3>2, <3>3 DEF Row
  <2>4. [j \in Ids |-> View(j)]' = [[j \in Ids |-> View(j)] EXCEPT ![id] = rec]
    BY <1>1, <2>3
  <2>5. rec \in Record /\ rec.ver = saves + 1
    BY <1>1, <2>1, StorageAssumption DEF Record, Whole
  <2>6. Repository!Save(id, rec)
    <3> HIDE DEF rec
    <3> QED
      BY <2>1, <2>4, <2>5 DEF Repository!Save
  <2> HIDE DEF rec
  <2> QED
    BY <2>5, <2>6 DEF Repository!Next
<1>3. ASSUME NEW p \in Procs, NEW id \in Ids, DeleteConversation(p, id)
      PROVE  Repository!Next
  <2>1. dbVer' = [dbVer EXCEPT ![id] = 0] /\ UNCHANGED <<closed, saves>>
        /\ \A j \in Ids \ {id} : dbTools'[j] = dbTools[j]
    BY <1>1, <1>3 DEF DeleteConversation, UsedPlainly
  <2>2. Row(id)' = NoRecord /\ \A j \in Ids \ {id} : Row(j)' = Row(j)
    BY <1>1, <2>1 DEF Row
  <2>3. [j \in Ids |-> View(j)]' = [[j \in Ids |-> View(j)] EXCEPT ![id] = NoRecord]
    BY <1>1, <2>2
  <2>4. Repository!Delete(id)
    BY <2>1, <2>3 DEF Repository!Delete
  <2> QED
    BY <2>4 DEF Repository!Next
<1>4. \A id \in Ids : UNCHANGED db => View(id)' = View(id)
  BY <1>1 DEF Row, db
<1>5. UNCHANGED db => [id \in Ids |-> View(id)]' = [id \in Ids |-> View(id)]
  BY <1>4
<1>6. ASSUME NEW p \in Procs, CloseMark(p) PROVE Repository!Next
  <2>1. (~closed)' = FALSE /\ UNCHANGED <<db, saves>>
    BY <1>6 DEF CloseMark, db
  <2> QED
    BY <2>1, <1>5 DEF Repository!Next, Repository!Shutdown
<1>7. CASE Crash
  <2>1. (~closed)' = TRUE /\ UNCHANGED <<db, saves>>
    BY <1>7 DEF Crash, db
  <2> QED
    BY <2>1, <1>5 DEF Repository!Next, Repository!Restart
<1>8. ASSUME NEW p \in Procs, NEW id \in Ids, LoadHit(p, id) \/ LoadMiss(p, id)
      PROVE  UNCHANGED mapped
  BY <1>8, StutterImplements DEF LoadHit, LoadMiss
<1>9. ASSUME NEW p \in Procs,
             LoadRecentConversations(p) \/ RefreshRead(p) \/ RecentError(p) \/ CloseCancel(p)
      PROVE  UNCHANGED mapped
  BY <1>9, StutterImplements 
     DEF LoadRecentConversations, RefreshRead, RecentRead, RecentError, CloseCancel
<1>10. ASSUME NEW p \in Procs, Continue(p), ~CloseMark(p) PROVE UNCHANGED mapped
  BY <1>10, StutterImplements
     DEF Continue, LoadFound, LoadError, LoadPut, RecentPut, RecentDone, RefreshLock,
         RefreshInstall, CloseWaited, CloseClear
<1>11. CASE WorkerSignal \/ WorkerExit \/ UNCHANGED vars
  BY <1>11, StutterImplements DEF WorkerSignal, WorkerExit, vars, db
<1>12. CASE UNCHANGED mapped
  BY <1>12
<1> HIDE DEF mapped
<1> QED
  BY <1>2, <1>3, <1>6, <1>7, <1>8, <1>9, <1>10, <1>11, <1>12 DEF Next

\* Used as the program uses it, over a database whose statements succeed, the
\* manager is the repository that types.ConversationRepository promises, for
\* every number of callers and conversations and every cache size: evictions,
\* reloads, concurrent readers, closes and restarts are invisible.
THEOREM ManagerIsRepository == UsedPlainly /\ Spec => ImplementsRepository
<1> SUFFICES ASSUME UsedPlainly PROVE Spec => ImplementsRepository
  OBVIOUS
<1>1. Init => NothingStale /\ Repository!Init
  BY NothingStaleInitially, InitImplements
<1>2. IInv /\ NothingStale /\ [Next]_vars => NothingStale'
  BY NothingGetsStale
<1>3. IInv /\ NothingStale /\ [Next]_vars /\ IInv' /\ NothingStale'
        => [Repository!Next]_<<[id \in Ids |-> View(id)], ~closed, saves>>
  BY StepImplements
<1> QED
  BY <1>1, <1>2, <1>3, Invariance, PTL DEF Spec, ImplementsRepository, Repository!Spec
=============================================================================
