---------------------- MODULE BackgroundPersistence_proofs ----------------------
(***************************************************************************)
(* Proof that accepted operations are kept, for every number of goroutines, *)
(* operations and starts and every limit.  The operations a queue, a batch  *)
(* or a hand holds are a set; a step moves operations from one of these     *)
(* sets to another, takes them in or lets them go.  How often the callback  *)
(* of an operation can have been made depends on where it is.               *)
(***************************************************************************)
EXTENDS BackgroundPersistence, FiniteSetTheorems, TLAPS

\* Where operations are: in a hand, in a batch that is collected, in a queue.
Locations == ({"hand"} \X Goroutines) \cup ({"pending"} \X Processors)
             \cup ({"save", "delete", "update", "batch"} \X {0})
SaveAt == <<"save", 0>>
DeleteAt == <<"delete", 0>>
UpdateAt == <<"update", 0>>
BatchAt == <<"batch", 0>>
HandAt(g) == <<"hand", g>>
PendingAt(b) == <<"pending", b>>

Elems(seq) == {seq[i] : i \in 1..Len(seq)}
AllOf(batches) == UNION {Elems(batches[i]) : i \in 1..Len(batches)}
Content(l) == CASE l[1] = "hand"    -> Elems(hand[l[2]])
                [] l[1] = "pending" -> Elems(pendingBatch[l[2]])
                [] l[1] = "save"    -> Elems(saveQueue)
                [] l[1] = "delete"  -> Elems(deleteQueue)
                [] l[1] = "update"  -> Elems(updateQueue)
                [] OTHER            -> AllOf(batchSaveQueue)
Held(o) == \E l \in Locations : o \in Content(l)

\* An operation is in one location at most, and there once; no batch is empty.
Distinct(seq) == \A i, j \in 1..Len(seq) : seq[i] = seq[j] => i = j
Apart(batches) ==
    /\ \A i \in 1..Len(batches) : Distinct(batches[i])
    /\ \A i, j \in 1..Len(batches) : i # j => Elems(batches[i]) \cap Elems(batches[j]) = {}
    /\ \A i \in 1..Len(batches) : batches[i] # <<>>
OnePlace ==
    \A o \in Ops : \A p, q \in Locations : o \in Content(p) /\ o \in Content(q) => p = q
EachOnce ==
    /\ Distinct(saveQueue) /\ Distinct(deleteQueue) /\ Distinct(updateQueue)
    /\ \A g \in Goroutines : Distinct(hand[g])
    /\ \A b \in Processors : Distinct(pendingBatch[b])
    /\ Apart(batchSaveQueue)

\* What a goroutine has in hand where, and which goroutines there are.
HandsFit ==
    /\ \A g \in Goroutines : at[g] \in {"none", "select", "exited"} <=> hand[g] = <<>>
    /\ \A g \in Goroutines : g[1] > starts => at[g] = "none"

\* Accepted operations are held or answered, others are neither.
Kept ==
    \A o \in Ops : /\ ~Accepted(o) => ~Held(o) /\ ~Answered(o)
                   /\ Accepted(o) => Held(o) \/ Answered(o)

\* The callbacks made for an operation, by where it is: before its batch begins
\* or it is tried again, in a hand, or done.
Waits(l) == l[1] # "hand" \/ at[l[2]] = "begin"
CountsFit ==
    \A o \in Ops : /\ ~Accepted(o) => attempts[o] = 0
                   /\ data[o] = "valid" => attempts[o] = 0 /\ answers[o].failed = 0
                   /\ answers[o].ok <= attempts[o] + 2
                   /\ answers[o].failed <= attempts[o] + 1
FitsAt(o, l) == /\ answers[o].ok <= attempts[o] + 1
                /\ answers[o].failed <= attempts[o]
                /\ Waits(l) => answers[o].ok <= attempts[o]
PlacesFit == \A l \in Locations : \A o \in Content(l) : FitsAt(o, l)
RetriesFit ==
    \A g \in Goroutines : at[g] = "retry" =>
        /\ data[Head(hand[g])] = "invalid"
        /\ answers[Head(hand[g])].ok <= attempts[Head(hand[g])]
        /\ answers[Head(hand[g])].failed + 1 <= attempts[Head(hand[g])]
CommitsFit ==
    \A g \in Goroutines : at[g] = "commit" => \A o \in Elems(hand[g]) : Answered(o)

DeletionWaits ==
    lastCall = "delete" /\ (\A o \in UpdateOps : ~Accepted(o)) =>
        ~cached \/ \E o \in DeleteOps : o \in Elems(deleteQueue) /\ data[o] = "valid"

OperationsFit == OnePlace /\ Kept /\ CountsFit /\ PlacesFit /\ RetriesFit /\ CommitsFit
PInv == TypeOK /\ EachOnce /\ HandsFit /\ OperationsFit /\ DeletionWaits

-----------------------------------------------------------------------------
(***************************************************************************)
(* Sequences without repetition as sets.                                   *)
(***************************************************************************)
LEMMA EmptyElems == Elems(<<>>) = {} /\ Distinct(<<>>)
  BY DEF Elems, Distinct

LEMMA OneElem == \A x : Elems(<<x>>) = {x} /\ Distinct(<<x>>)
  BY DEF Elems, Distinct

LEMMA TwoElems == \A x, y : Elems(<<x, y>>) = {x, y} /\ (x # y => Distinct(<<x, y>>))
  BY DEF Elems, Distinct

LEMMA SeqParts ==
    ASSUME NEW T, NEW s \in Seq(T), s # <<>>
    PROVE  /\ Len(s) \in Nat \ {0}
           /\ Head(s) = s[1] /\ Head(s) \in T
           /\ Tail(s) \in Seq(T) /\ Len(Tail(s)) = Len(s) - 1
           /\ \A i \in 1..Len(Tail(s)) : Tail(s)[i] = s[i + 1]
  OBVIOUS

LEMMA ElemsType == ASSUME NEW T, NEW s \in Seq(T) PROVE Elems(s) \subseteq T
  BY DEF Elems

LEMMA ToSetIsElems == ASSUME NEW T, NEW s \in Seq(T) PROVE ToSet(s) = Elems(s)
  BY DEF ToSet, Elems

LEMMA EmptySeq == ASSUME NEW T, NEW s \in Seq(T) PROVE s = <<>> <=> Len(s) = 0
  OBVIOUS

LEMMA NoElems == ASSUME NEW T, NEW s \in Seq(T) PROVE Elems(s) = {} <=> s = <<>>
<1>1. Len(s) \in Nat /\ (Len(s) = 0 => s = <<>>)
  OBVIOUS
<1>2. ASSUME s # <<>> PROVE s[1] \in Elems(s)
  BY <1>1, <1>2 DEF Elems
<1> QED
  BY <1>2, EmptyElems

\* What is left when the first is taken.
FirstTaken(t, s, T) ==
    /\ t \in Seq(T) /\ Len(t) = Len(s) - 1 /\ Len(s) \in Nat \ {0}
    /\ Head(s) \in Elems(s) /\ Head(s) \in T
    /\ Elems(t) = Elems(s) \ {Head(s)}
    /\ Distinct(t)

LEMMA TailElems ==
    ASSUME NEW T, NEW s \in Seq(T), s # <<>>, Distinct(s), NEW t, t = Tail(s)
    PROVE  FirstTaken(t, s, T)
<1>1. /\ Len(s) \in Nat \ {0}
      /\ Head(s) = s[1] /\ Head(s) \in T
      /\ t \in Seq(T) /\ Len(t) = Len(s) - 1
      /\ \A i \in 1..Len(t) : t[i] = s[i + 1]
  BY SeqParts
<1> DEFINE h == Head(s)
<1> HIDE DEF h
<1>2. h = s[1] /\ h \in T
  BY <1>1 DEF h
<1>3. h \in Elems(s)
  BY <1>1, <1>2 DEF Elems
<1>4. \A i \in 1..Len(t) : i + 1 \in 1..Len(s) /\ i + 1 # 1
  BY <1>1
<1>5. ASSUME NEW x \in Elems(t) PROVE x \in Elems(s) \ {h}
  <2>1. PICK i \in 1..Len(t) : t[i] = x
    BY <1>5 DEF Elems
  <2>2. i + 1 \in 1..Len(s) /\ s[i + 1] = x /\ i + 1 # 1 /\ 1 \in 1..Len(s)
    BY <2>1, <1>1, <1>4
  <2>3. x # h
    BY <2>2, <1>2 DEF Distinct
  <2> QED
    BY <2>2, <2>3 DEF Elems
<1>6. ASSUME NEW x \in Elems(s), x # h PROVE x \in Elems(t)
  <2>1. PICK i \in 1..Len(s) : s[i] = x
    BY <1>6 DEF Elems
  <2>2. i # 1
    BY <2>1, <1>2, <1>6
  <2>3. i - 1 \in 1..Len(t) /\ (i - 1) + 1 = i
    BY <2>1, <2>2, <1>1
  <2>4. t[i - 1] = x
    BY <2>1, <2>3, <1>1
  <2> QED
    BY <2>3, <2>4 DEF Elems
<1>7. Elems(t) = Elems(s) \ {h}
  BY <1>5, <1>6
<1>8. Distinct(t)
  <2> SUFFICES ASSUME NEW i \in 1..Len(t), NEW j \in 1..Len(t), t[i] = t[j] PROVE i = j
    BY DEF Distinct
  <2>1. i + 1 \in 1..Len(s) /\ j + 1 \in 1..Len(s) /\ s[i + 1] = s[j + 1]
    BY <1>1, <1>4
  <2>2. i + 1 = j + 1
    BY <2>1 DEF Distinct
  <2> QED
    BY <2>2
<1> QED
  BY <1>1, <1>3, <1>7, <1>8 DEF h, FirstTaken

\* What there is when another sequence is appended.
Joined(t, s, r, T) ==
    /\ t \in Seq(T) /\ Len(t) = Len(s) + Len(r)
    /\ Elems(t) = Elems(s) \cup Elems(r)
    /\ Distinct(t)

LEMMA ConcatElems ==
    ASSUME NEW T, NEW s \in Seq(T), NEW r \in Seq(T), Distinct(s), Distinct(r),
           Elems(s) \cap Elems(r) = {}, NEW t, t = s \o r
    PROVE  Joined(t, s, r, T)
<1>1. /\ Len(s) \in Nat /\ Len(r) \in Nat
      /\ t \in Seq(T) /\ Len(t) = Len(s) + Len(r)
      /\ \A i \in 1..Len(s) : t[i] = s[i]
      /\ \A i \in 1..Len(r) : t[Len(s) + i] = r[i]
  OBVIOUS
<1>2. \A i \in 1..Len(t) : i \in 1..Len(s) \/ (i - Len(s) \in 1..Len(r) /\ Len(s) + (i - Len(s)) = i)
  BY <1>1
<1>3. \A i \in 1..Len(t) : \/ i \in 1..Len(s) /\ t[i] = s[i]
                           \/ i - Len(s) \in 1..Len(r) /\ t[i] = r[i - Len(s)]
  BY <1>1, <1>2
<1>4. 1..Len(s) \subseteq 1..Len(t) /\ \A i \in 1..Len(r) : Len(s) + i \in 1..Len(t)
  BY <1>1
<1>5. Elems(t) \subseteq Elems(s) \cup Elems(r)
  BY <1>3 DEF Elems
<1>6. Elems(s) \subseteq Elems(t) /\ Elems(r) \subseteq Elems(t)
  <2>1. ASSUME NEW x \in Elems(s) PROVE x \in Elems(t)
    <3>1. PICK i \in 1..Len(s) : s[i] = x
      BY <2>1 DEF Elems
    <3>2. i \in 1..Len(t) /\ t[i] = x
      BY <3>1, <1>1, <1>4
    <3> QED
      BY <3>2 DEF Elems
  <2>2. ASSUME NEW x \in Elems(r) PROVE x \in Elems(t)
    <3>1. PICK i \in 1..Len(r) : r[i] = x
      BY <2>2 DEF Elems
    <3>2. Len(s) + i \in 1..Len(t) /\ t[Len(s) + i] = x
      BY <3>1, <1>1, <1>4
    <3> QED
      BY <3>2 DEF Elems
  <2> QED
    BY <2>1, <2>2
<1>7. ASSUME NEW i \in 1..Len(t), NEW j \in 1..Len(t), t[i] = t[j] PROVE i = j
  <2>1. CASE i \in 1..Len(s) /\ j \in 1..Len(s)
    BY <2>1, <1>1, <1>7 DEF Distinct
  <2>2. CASE i \notin 1..Len(s) /\ j \notin 1..Len(s)
    <3>1. i - Len(s) \in 1..Len(r) /\ j - Len(s) \in 1..Len(r) /\ r[i - Len(s)] = r[j - Len(s)]
      BY <2>2, <1>3, <1>7
    <3>2. i - Len(s) = j - Len(s)
      BY <3>1 DEF Distinct
    <3> QED
      BY <3>2, <1>1
  <2>3. CASE i \in 1..Len(s) /\ j \notin 1..Len(s)
    <3>1. t[i] \in Elems(s) /\ t[j] \in Elems(r)
      BY <2>3, <1>1, <1>3 DEF Elems
    <3> QED
      BY <3>1, <1>7
  <2>4. CASE i \notin 1..Len(s) /\ j \in 1..Len(s)
    <3>1. t[j] \in Elems(s) /\ t[i] \in Elems(r)
      BY <2>4, <1>1, <1>3 DEF Elems
    <3> QED
      BY <3>1, <1>7
  <2> QED
    BY <2>1, <2>2, <2>3, <2>4
<1>8. Distinct(t)
  BY <1>7 DEF Distinct
<1>9. Elems(t) = Elems(s) \cup Elems(r)
  BY <1>5, <1>6
<1> QED
  BY <1>1, <1>8, <1>9 DEF Joined

\* What there is when one is appended.
OneAppended(t, s, x, T) ==
    /\ t \in Seq(T) /\ Len(t) = Len(s) + 1 /\ Len(s) \in Nat
    /\ Elems(t) = Elems(s) \cup {x}
    /\ Distinct(t)

LEMMA AppendElems ==
    ASSUME NEW T, NEW s \in Seq(T), NEW x \in T, Distinct(s), x \notin Elems(s),
           NEW t, t = Append(s, x)
    PROVE  OneAppended(t, s, x, T)
<1>1. t = s \o <<x>> /\ <<x>> \in Seq(T) /\ Len(<<x>>) = 1
  OBVIOUS
<1>2. Elems(s) \cap Elems(<<x>>) = {} /\ Distinct(<<x>>) /\ Elems(<<x>>) = {x}
  BY OneElem
<1> DEFINE r == <<x>>
<1>3. r \in Seq(T) /\ Len(r) = 1 /\ Distinct(r) /\ Elems(s) \cap Elems(r) = {} /\ Elems(r) = {x} /\ t = s \o r
  BY <1>1, <1>2
<1> HIDE DEF r
<1>4. Joined(t, s, r, T)
  BY <1>3, ConcatElems
<1> QED
  BY <1>3, <1>4 DEF Joined, OneAppended

(***************************************************************************)
(* Batches: what a queue of them holds.                                    *)
(***************************************************************************)
FirstBatchTaken(t, s, T) ==
    /\ t \in Seq(Seq(T))
    /\ Head(s) \in Seq(T) /\ Head(s) # <<>> /\ Distinct(Head(s))
    /\ Elems(Head(s)) \subseteq AllOf(s)
    /\ AllOf(t) = AllOf(s) \ Elems(Head(s))
    /\ Apart(t)

LEMMA BatchTaken ==
    ASSUME NEW T, NEW s \in Seq(Seq(T)), s # <<>>, Apart(s), NEW t, t = Tail(s)
    PROVE  FirstBatchTaken(t, s, T)
<1>1. /\ Len(s) \in Nat \ {0}
      /\ Head(s) = s[1] /\ Head(s) \in Seq(T)
      /\ t \in Seq(Seq(T)) /\ Len(t) = Len(s) - 1
      /\ \A i \in 1..Len(t) : t[i] = s[i + 1]
  BY SeqParts
<1> DEFINE h == Head(s)
<1> HIDE DEF h
<1>2. h = s[1] /\ h \in Seq(T) /\ 1 \in 1..Len(s)
  BY <1>1 DEF h
<1>3. h # <<>> /\ Distinct(h) /\ Elems(h) \subseteq AllOf(s)
  BY <1>2 DEF Apart, AllOf
<1>4. \A i \in 1..Len(t) : i + 1 \in 1..Len(s) /\ i + 1 # 1
  BY <1>1
<1>5. ASSUME NEW x \in AllOf(t) PROVE x \in AllOf(s) /\ x \notin Elems(h)
  <2>1. PICK i \in 1..Len(t) : x \in Elems(t[i])
    BY <1>5 DEF AllOf
  <2>2. i + 1 \in 1..Len(s) /\ x \in Elems(s[i + 1]) /\ i + 1 # 1 /\ 1 \in 1..Len(s)
    BY <2>1, <1>1, <1>4
  <2>3. x \notin Elems(h)
    BY <2>2, <1>2 DEF Apart
  <2> QED
    BY <2>2, <2>3 DEF AllOf
<1>6. ASSUME NEW x \in AllOf(s), x \notin Elems(h) PROVE x \in AllOf(t)
  <2>1. PICK i \in 1..Len(s) : x \in Elems(s[i])
    BY <1>6 DEF AllOf
  <2>2. i # 1
    BY <2>1, <1>2, <1>6
  <2>3. i - 1 \in 1..Len(t) /\ (i - 1) + 1 = i
    BY <2>1, <2>2, <1>1
  <2>4. t[i - 1] = s[i]
    BY <2>3, <1>1
  <2> QED
    BY <2>1, <2>3, <2>4 DEF AllOf
<1>7. AllOf(t) = AllOf(s) \ Elems(h)
  BY <1>5, <1>6
<1>8. Apart(t)
  <2>1. \A i \in 1..Len(t) : Distinct(t[i]) /\ t[i] # <<>>
    BY <1>1, <1>4 DEF Apart
  <2>2. ASSUME NEW i \in 1..Len(t), NEW j \in 1..Len(t), i # j
        PROVE  Elems(t[i]) \cap Elems(t[j]) = {}
    <3>1. i + 1 \in 1..Len(s) /\ j + 1 \in 1..Len(s) /\ i + 1 # j + 1
      BY <1>4, <2>2
    <3>2. t[i] = s[i + 1] /\ t[j] = s[j + 1]
      BY <1>1
    <3>3. Elems(s[i + 1]) \cap Elems(s[j + 1]) = {}
      BY <3>1 DEF Apart
    <3> QED
      BY <3>2, <3>3
  <2> QED
    BY <2>1, <2>2 DEF Apart
<1> QED
  BY <1>1, <1>3, <1>7, <1>8 DEF h, FirstBatchTaken

BatchAppended(t, s, x, T) ==
    /\ t \in Seq(Seq(T))
    /\ AllOf(t) = AllOf(s) \cup Elems(x)
    /\ Apart(t)

LEMMA BatchAdded ==
    ASSUME NEW T, NEW s \in Seq(Seq(T)), NEW x \in Seq(T), Apart(s), x # <<>>, Distinct(x),
           Elems(x) \cap AllOf(s) = {}, NEW t, t = Append(s, x)
    PROVE  BatchAppended(t, s, x, T)
<1>1. /\ Len(s) \in Nat
      /\ t \in Seq(Seq(T)) /\ Len(t) = Len(s) + 1 /\ t[Len(s) + 1] = x
      /\ \A i \in 1..Len(s) : t[i] = s[i]
  OBVIOUS
<1>2. \A i \in 1..Len(t) : (i \in 1..Len(s) /\ t[i] = s[i]) \/ (i = Len(s) + 1 /\ t[i] = x)
  BY <1>1
<1>3. 1..Len(s) \subseteq 1..Len(t) /\ Len(s) + 1 \in 1..Len(t)
  BY <1>1
<1>4. AllOf(t) \subseteq AllOf(s) \cup Elems(x)
  BY <1>2 DEF AllOf
<1>5. AllOf(s) \subseteq AllOf(t) /\ Elems(x) \subseteq AllOf(t)
  BY <1>1, <1>3 DEF AllOf
<1>6. \A i \in 1..Len(s) : Elems(s[i]) \cap Elems(x) = {}
  BY DEF AllOf
<1>7. ASSUME NEW i \in 1..Len(t), NEW j \in 1..Len(t), i # j
      PROVE  Elems(t[i]) \cap Elems(t[j]) = {}
  BY <1>1, <1>2, <1>6, <1>7 DEF Apart
<1>8. \A i \in 1..Len(t) : Distinct(t[i]) /\ t[i] # <<>>
  BY <1>2 DEF Apart
<1> QED
  BY <1>1, <1>4, <1>5, <1>7, <1>8 DEF Apart, BatchAppended

-----------------------------------------------------------------------------
(***************************************************************************)
(* Locations and what they hold.                                           *)
(***************************************************************************)
ContentsAre ==
    /\ Content(SaveAt) = Elems(saveQueue)
    /\ Content(DeleteAt) = Elems(deleteQueue)
    /\ Content(UpdateAt) = Elems(updateQueue)
    /\ Content(BatchAt) = AllOf(batchSaveQueue)
    /\ \A g \in Goroutines : Content(HandAt(g)) = Elems(hand[g])
    /\ \A b \in Processors : Content(PendingAt(b)) = Elems(pendingBatch[b])

LEMMA Contents == ContentsAre
  BY DEF ContentsAre, Content, SaveAt, DeleteAt, UpdateAt, BatchAt, HandAt, PendingAt

LEMMA ContentsAfter == ContentsAre'
  BY DEF ContentsAre, Content, SaveAt, DeleteAt, UpdateAt, BatchAt, HandAt, PendingAt

LEMMA LocationsAre ==
    /\ {SaveAt, DeleteAt, UpdateAt, BatchAt} \subseteq Locations
    /\ \A g \in Goroutines : HandAt(g) \in Locations
    /\ \A b \in Processors : PendingAt(b) \in Locations
  BY DEF Locations, SaveAt, DeleteAt, UpdateAt, BatchAt, HandAt, PendingAt

LEMMA LocationKinds ==
    ASSUME NEW l \in Locations
    PROVE  \/ l \in {SaveAt, DeleteAt, UpdateAt, BatchAt} /\ l[1] # "hand"
           \/ \E g \in Goroutines : l = HandAt(g) /\ l[1] = "hand" /\ l[2] = g
           \/ \E b \in Processors : l = PendingAt(b) /\ l[1] # "hand"
  BY DEF Locations, SaveAt, DeleteAt, UpdateAt, BatchAt, HandAt, PendingAt

\* Locations are not the same.
LEMMA LocationsDiffer ==
    /\ SaveAt \notin {DeleteAt, UpdateAt, BatchAt}
    /\ \A g : HandAt(g) \notin {SaveAt, DeleteAt, UpdateAt, BatchAt}
    /\ \A b : PendingAt(b) \notin {SaveAt, DeleteAt, UpdateAt, BatchAt}
    /\ \A g, b : HandAt(g) # PendingAt(b)
    /\ \A g, h : HandAt(g) = HandAt(h) => g = h
    /\ \A b, c : PendingAt(b) = PendingAt(c) => b = c
  BY DEF SaveAt, DeleteAt, UpdateAt, BatchAt, HandAt, PendingAt

LEMMA ContentsType == TypeOK => \A l \in Locations : Content(l) \subseteq Ops
<1> SUFFICES ASSUME TypeOK, NEW l \in Locations PROVE Content(l) \subseteq Ops
  OBVIOUS
<1>1. /\ SaveOps \subseteq Ops /\ DeleteOps \subseteq Ops /\ UpdateOps \subseteq Ops
  BY DEF Ops
<1>2. /\ Elems(saveQueue) \subseteq SaveOps /\ Elems(deleteQueue) \subseteq DeleteOps
      /\ Elems(updateQueue) \subseteq UpdateOps
  BY ElemsType DEF TypeOK
<1>3. \A g \in Goroutines : Elems(hand[g]) \subseteq SaveOps
  BY ElemsType DEF TypeOK
<1>4. \A b \in Processors : Elems(pendingBatch[b]) \subseteq SaveOps
  BY ElemsType DEF TypeOK
<1>5. AllOf(batchSaveQueue) \subseteq SaveOps
  <2>1. \A i \in 1..Len(batchSaveQueue) : batchSaveQueue[i] \in Seq(SaveOps)
    BY DEF TypeOK
  <2>2. \A i \in 1..Len(batchSaveQueue) : Elems(batchSaveQueue[i]) \subseteq SaveOps
    BY <2>1, ElemsType
  <2> QED
    BY <2>2 DEF AllOf
<1> QED
  BY <1>1, <1>2, <1>3, <1>4, <1>5, Contents, LocationKinds DEF ContentsAre

\* A location whose sequence stays keeps its operations.
LEMMA OthersStay ==
    ASSUME NEW l \in Locations,
           l = SaveAt => saveQueue' = saveQueue,
           l = DeleteAt => deleteQueue' = deleteQueue,
           l = UpdateAt => updateQueue' = updateQueue,
           l = BatchAt => batchSaveQueue' = batchSaveQueue,
           \A g \in Goroutines : l = HandAt(g) => hand'[g] = hand[g],
           \A b \in Processors : l = PendingAt(b) => pendingBatch'[b] = pendingBatch[b]
    PROVE  Content(l)' = Content(l)
<1>1. CASE l = SaveAt
  BY <1>1, Contents, ContentsAfter DEF ContentsAre
<1>2. CASE l = DeleteAt
  BY <1>2, Contents, ContentsAfter DEF ContentsAre
<1>3. CASE l = UpdateAt
  BY <1>3, Contents, ContentsAfter DEF ContentsAre
<1>4. CASE l = BatchAt
  BY <1>4, Contents, ContentsAfter DEF ContentsAre
<1>5. ASSUME NEW g \in Goroutines, l = HandAt(g) PROVE Content(l)' = Content(l)
  <2>1. Content(l) = Elems(hand[g]) /\ Content(l)' = Elems(hand'[g]) /\ hand'[g] = hand[g]
    BY <1>5, Contents, ContentsAfter DEF ContentsAre
  <2> QED
    BY <2>1
<1>6. ASSUME NEW b \in Processors, l = PendingAt(b) PROVE Content(l)' = Content(l)
  <2>1. Content(l) = Elems(pendingBatch[b]) /\ Content(l)' = Elems(pendingBatch'[b])
        /\ pendingBatch'[b] = pendingBatch[b]
    BY <1>6, Contents, ContentsAfter DEF ContentsAre
  <2> QED
    BY <2>1
<1> QED
  BY <1>1, <1>2, <1>3, <1>4, <1>5, <1>6, LocationKinds

\* The operations of M leave where they are; if they are anywhere afterwards
\* it is in one location.
LEMMA StillOnePlace ==
    ASSUME OnePlace, NEW q \in Locations, NEW M,
           \A l \in Locations : l # q => Content(l)' = Content(l) \ M,
           Content(q)' \subseteq Content(q) \cup M
    PROVE  OnePlace'
<1>1. ASSUME NEW o \in Ops, NEW l \in Locations, NEW m \in Locations,
             o \in Content(l)', o \in Content(m)'
      PROVE  l = m
  <2>1. CASE o \in M
    BY <2>1, <1>1
  <2>2. CASE o \notin M
    <3>1. o \in Content(l) /\ o \in Content(m)
      BY <2>2, <1>1
    <3> QED
      BY <3>1 DEF OnePlace
  <2> QED
    BY <2>1, <2>2
<1> QED
  BY <1>1 DEF OnePlace

-----------------------------------------------------------------------------
(***************************************************************************)
(* What steps do to operations: take them in, move them, let them go.      *)
(***************************************************************************)
LEMMA Numbers ==
    TypeOK => \A o \in Ops : /\ attempts[o] \in Nat /\ attempts[o] <= MaxRetries
                             /\ answers[o].ok \in Nat /\ answers[o].failed \in Nat
  BY PersistenceAssumption DEF TypeOK

\* What a goroutine is about to try again is in its hand.
LEMMA HeadIsHeld ==
    ASSUME PInv, NEW g \in Goroutines, hand[g] # <<>>
    PROVE  Head(hand[g]) \in Content(HandAt(g))
<1>1. hand[g] \in Seq(SaveOps)
  BY DEF PInv, TypeOK
<1>2. Head(hand[g]) \in Elems(hand[g])
  BY <1>1, SeqParts DEF Elems
<1> QED
  BY <1>2, Contents DEF ContentsAre

\* New operations are accepted into a queue.
Accepting(M, d) == data' = [o \in Ops |-> IF o \in M THEN d ELSE data[o]]

LEMMA TakenIn ==
    ASSUME PInv, NEW q \in Locations, q[1] # "hand", NEW M \in SUBSET Ops,
           \A o \in M : data[o] = "new",
           NEW d \in {"valid", "invalid"},
           Accepting(M, d),
           Content(q)' = Content(q) \cup M,
           \A l \in Locations : l # q => Content(l)' = Content(l),
           UNCHANGED <<attempts, answers, at, hand>>
    PROVE  OperationsFit'
<1>1. /\ OnePlace /\ Kept /\ CountsFit /\ PlacesFit /\ RetriesFit /\ CommitsFit /\ TypeOK /\ HandsFit
      /\ \A l \in Locations : Content(l) \subseteq Ops
  BY ContentsType DEF PInv, OperationsFit
<1>2. \A o \in M : ~Accepted(o) /\ ~Held(o) /\ ~Answered(o)
  BY <1>1 DEF Kept, Accepted
<1>3. \A l \in Locations : \A o \in Content(l) : o \notin M
  BY <1>2 DEF Held
<1>4. OnePlace'
  <2>1. \A l \in Locations : l # q => Content(l)' = Content(l) \ M
    BY <1>3
  <2> QED
    BY <1>1, <2>1, StillOnePlace
<1>5. \A o \in Ops : /\ Accepted(o)' <=> Accepted(o) \/ o \in M
                     /\ Answered(o)' <=> Answered(o)
  BY DEF Accepted, Answered, Accepting
<1>6. \A o \in Ops : Held(o)' <=> Held(o) \/ o \in M
  <2>1. ASSUME NEW o \in Ops, Held(o)' PROVE Held(o) \/ o \in M
    BY <2>1 DEF Held
  <2>2. ASSUME NEW o \in Ops, Held(o) PROVE Held(o)'
    BY <2>2 DEF Held
  <2>3. ASSUME NEW o \in M PROVE Held(o)'
    BY <2>3 DEF Held
  <2> QED
    BY <2>1, <2>2, <2>3
<1>7. Kept'
  BY <1>1, <1>2, <1>5, <1>6 DEF Kept
<1>8. \A o \in M : attempts[o] = 0 /\ answers[o].ok = 0 /\ answers[o].failed = 0
  BY <1>1, <1>2, Numbers DEF CountsFit, Answered
<1>9. CountsFit'
  BY <1>1, <1>5, <1>8 DEF CountsFit, Accepting
<1>10. PlacesFit'
  <2> SUFFICES ASSUME NEW l \in Locations, NEW o \in Content(l)' PROVE FitsAt(o, l)'
    BY DEF PlacesFit
  <2>1. CASE o \in M
    BY <2>1, <1>8 DEF FitsAt
  <2>2. CASE o \notin M
    <3>1. o \in Content(l)
      BY <2>2
    <3>2. FitsAt(o, l)
      BY <3>1, <1>1 DEF PlacesFit
    <3>3. Waits(l)' <=> Waits(l)
      BY DEF Waits
    <3> QED
      BY <3>2, <3>3 DEF FitsAt
  <2> QED
    BY <2>1, <2>2
<1>11. RetriesFit'
  <2> SUFFICES ASSUME NEW g \in Goroutines, at[g] = "retry"
               PROVE  /\ data'[Head(hand[g])] = "invalid"
                      /\ answers[Head(hand[g])].ok <= attempts[Head(hand[g])]
                      /\ answers[Head(hand[g])].failed + 1 <= attempts[Head(hand[g])]
    BY DEF RetriesFit
  <2>1. hand[g] # <<>>
    BY <1>1 DEF HandsFit
  <2>2. Head(hand[g]) \in Content(HandAt(g)) /\ HandAt(g) \in Locations
    BY <2>1, HeadIsHeld, LocationsAre
  <2>3. Head(hand[g]) \in Ops \ M
    BY <2>2, <1>1, <1>3
  <2> QED
    BY <2>3, <1>1 DEF RetriesFit, Accepting
<1>12. CommitsFit'
  <2>1. \A g \in Goroutines : Elems(hand[g]) \subseteq Ops
    BY <1>1, Contents, LocationsAre DEF ContentsAre
  <2> QED
    BY <1>1, <1>5, <2>1 DEF CommitsFit
<1> QED
  BY <1>4, <1>7, <1>9, <1>10, <1>11, <1>12 DEF OperationsFit

\* Operations are moved to another location.
LEMMA MovedOn ==
    ASSUME PInv, NEW q \in Locations, NEW M,
           \A l \in Locations : l # q => Content(l)' = Content(l) \ M,
           Content(q)' = Content(q) \cup M,
           \A o \in M : \E m \in Locations : o \in Content(m) /\ (Waits(q)' => Waits(m)),
           \A l \in Locations : Waits(l)' => Waits(l) \/ Content(l) = {},
           \A g \in Goroutines : at'[g] \in {"retry", "commit"} => at'[g] = at[g] /\ hand'[g] = hand[g],
           UNCHANGED <<data, attempts, answers>>
    PROVE  OperationsFit'
<1>1. /\ OnePlace /\ Kept /\ CountsFit /\ PlacesFit /\ RetriesFit /\ CommitsFit
  BY DEF PInv, OperationsFit
<1>2. OnePlace'
  BY <1>1, StillOnePlace
<1>3. \A o \in Ops : (Accepted(o)' <=> Accepted(o)) /\ (Answered(o)' <=> Answered(o))
  BY DEF Accepted, Answered
<1>4. \A o \in Ops : Held(o)' <=> Held(o)
  <2>1. ASSUME NEW o \in Ops, Held(o)' PROVE Held(o)
    BY <2>1 DEF Held
  <2>2. ASSUME NEW o \in Ops, Held(o) PROVE Held(o)'
    BY <2>2 DEF Held
  <2> QED
    BY <2>1, <2>2
<1>5. Kept'
  BY <1>1, <1>3, <1>4 DEF Kept
<1>6. CountsFit'
  BY <1>1, <1>3 DEF CountsFit
<1>7. PlacesFit'
  <2> SUFFICES ASSUME NEW l \in Locations, NEW o \in Content(l)' PROVE FitsAt(o, l)'
    BY DEF PlacesFit
  <2>1. PICK m \in Locations : o \in Content(m) /\ (Waits(l)' => Waits(m))
    <3>1. CASE l = q /\ o \in M
      BY <3>1
    <3>2. CASE ~(l = q /\ o \in M)
      <4>1. o \in Content(l)
        BY <3>2
      <4> QED
        BY <4>1
    <3> QED
      BY <3>1, <3>2
  <2>2. FitsAt(o, m)
    BY <2>1, <1>1 DEF PlacesFit
  <2> QED
    BY <2>1, <2>2 DEF FitsAt
<1>8. RetriesFit'
  BY <1>1 DEF RetriesFit
<1>9. CommitsFit'
  <2> SUFFICES ASSUME NEW g \in Goroutines, at'[g] = "commit", NEW o \in Elems(hand'[g])
               PROVE  Answered(o)'
    BY DEF CommitsFit
  <2>1. Answered(o)
    BY <1>1 DEF CommitsFit
  <2> QED
    BY <2>1 DEF Answered
<1> QED
  BY <1>2, <1>5, <1>6, <1>7, <1>8, <1>9 DEF OperationsFit

\* Operations are done with: their callbacks have been made.
Finished(o) ==
    /\ Answered(o)' /\ Accepted(o)
    /\ data[o] = "valid" => answers'[o].failed = 0
    /\ answers'[o].ok <= attempts[o] + 2
    /\ answers'[o].failed <= attempts[o] + 1

LEMMA LetGo ==
    ASSUME PInv, NEW M,
           \A l \in Locations : Content(l)' = Content(l) \ M,
           \A o \in Ops \ M : answers'[o] = answers[o],
           \A o \in M \cap Ops : Finished(o),
           \A l \in Locations : Waits(l)' => Waits(l) \/ Content(l)' = {},
           \A g \in Goroutines : at'[g] \in {"retry", "commit"} => at'[g] = at[g] /\ hand'[g] = hand[g],
           UNCHANGED <<data, attempts>>
    PROVE  OperationsFit'
<1>1. /\ OnePlace /\ Kept /\ CountsFit /\ PlacesFit /\ RetriesFit /\ CommitsFit /\ TypeOK /\ HandsFit
      /\ \A l \in Locations : Content(l) \subseteq Ops
  BY ContentsType DEF PInv, OperationsFit
<1>2. OnePlace'
  <2>1. Content(SaveAt)' \subseteq Content(SaveAt) \cup M /\ SaveAt \in Locations
    BY LocationsAre
  <2> QED
    BY <1>1, <2>1, StillOnePlace
<1>3. \A o \in Ops : Accepted(o)' <=> Accepted(o)
  BY DEF Accepted
<1>4. \A o \in Ops \ M : (Answered(o)' <=> Answered(o)) /\ (Held(o)' <=> Held(o))
  BY DEF Answered, Held
<1>5. Kept'
  <2>1. ASSUME NEW o \in Ops, o \in M PROVE Accepted(o)' /\ Answered(o)'
    BY <2>1, <1>3 DEF Finished
  <2>2. ASSUME NEW o \in Ops, o \notin M
        PROVE  (~Accepted(o) => ~Held(o) /\ ~Answered(o))' /\ (Accepted(o) => Held(o) \/ Answered(o))'
    BY <2>2, <1>1, <1>3, <1>4 DEF Kept
  <2> QED
    BY <2>1, <2>2 DEF Kept
<1>6. CountsFit'
  <2> SUFFICES ASSUME NEW o \in Ops
               PROVE  /\ ~Accepted(o) => attempts[o] = 0
                      /\ data[o] = "valid" => attempts[o] = 0 /\ answers'[o].failed = 0
                      /\ answers'[o].ok <= attempts[o] + 2
                      /\ answers'[o].failed <= attempts[o] + 1
    BY <1>3 DEF CountsFit
  <2>1. CASE o \in M
    BY <2>1, <1>1 DEF CountsFit, Finished
  <2>2. CASE o \notin M
    BY <2>2, <1>1 DEF CountsFit
  <2> QED
    BY <2>1, <2>2
<1>7. PlacesFit'
  <2> SUFFICES ASSUME NEW l \in Locations, NEW o \in Content(l)' PROVE FitsAt(o, l)'
    BY DEF PlacesFit
  <2>1. o \in Content(l) /\ o \in Ops \ M /\ Content(l)' # {}
    BY <1>1
  <2>2. FitsAt(o, l) /\ answers'[o] = answers[o] /\ (Waits(l)' => Waits(l))
    BY <2>1, <1>1 DEF PlacesFit
  <2> QED
    BY <2>2 DEF FitsAt
<1>8. RetriesFit'
  <2> SUFFICES ASSUME NEW g \in Goroutines, at'[g] = "retry"
               PROVE  /\ data[Head(hand'[g])] = "invalid"
                      /\ answers'[Head(hand'[g])].ok <= attempts[Head(hand'[g])]
                      /\ answers'[Head(hand'[g])].failed + 1 <= attempts[Head(hand'[g])]
    BY DEF RetriesFit
  <2>1. at[g] = "retry" /\ hand'[g] = hand[g] /\ hand[g] # <<>>
    BY <1>1 DEF HandsFit
  <2>2. Head(hand[g]) \in Content(HandAt(g)) /\ HandAt(g) \in Locations
    BY <2>1, HeadIsHeld, LocationsAre
  <2>3. Content(HandAt(g))' = Content(HandAt(g))
    <3>1. Content(HandAt(g))' = Elems(hand'[g]) /\ Content(HandAt(g)) = Elems(hand[g])
      BY Contents, ContentsAfter DEF ContentsAre
    <3> QED
      BY <3>1, <2>1
  <2>4. Head(hand[g]) \in Ops \ M
    BY <2>2, <2>3, <1>1
  <2> QED
    BY <2>1, <2>4, <1>1 DEF RetriesFit
<1>9. CommitsFit'
  <2> SUFFICES ASSUME NEW g \in Goroutines, at'[g] = "commit", NEW o \in Elems(hand'[g])
               PROVE  Answered(o)'
    BY DEF CommitsFit
  <2>1. at[g] = "commit" /\ hand'[g] = hand[g] /\ Answered(o)
    BY <1>1 DEF CommitsFit
  <2>2. Content(HandAt(g))' = Elems(hand'[g]) /\ HandAt(g) \in Locations
    BY ContentsAfter, LocationsAre DEF ContentsAre
  <2>3. o \in Ops \ M
    BY <2>2, <1>1
  <2> QED
    BY <2>1, <2>3 DEF Answered
<1> QED
  BY <1>2, <1>5, <1>6, <1>7, <1>8, <1>9 DEF OperationsFit

\* What is in one location is in no other.
LEMMA OnlyHere ==
    ASSUME PInv, NEW p \in Locations, NEW l \in Locations, l # p, NEW o \in Content(p)
    PROVE  o \notin Content(l)
  BY ContentsType DEF PInv, OperationsFit, OnePlace

\* Operations are moved from one location to another.
LEMMA MovedFromTo ==
    ASSUME PInv, NEW p \in Locations, NEW q \in Locations, p # q, NEW M \in SUBSET Content(p),
           Content(p)' = Content(p) \ M,
           Content(q)' = Content(q) \cup M,
           \A l \in Locations : l # p /\ l # q => Content(l)' = Content(l),
           Waits(q)' => Waits(p),
           \A l \in Locations : Waits(l)' => Waits(l) \/ Content(l) = {},
           \A g \in Goroutines : at'[g] \in {"retry", "commit"} => at'[g] = at[g] /\ hand'[g] = hand[g],
           UNCHANGED <<data, attempts, answers>>
    PROVE  OperationsFit'
<1>1. ASSUME NEW l \in Locations, l # q PROVE Content(l)' = Content(l) \ M
  <2>1. CASE l = p
    BY <2>1
  <2>2. CASE l # p
    <3>1. \A o \in M : o \notin Content(l)
      BY <2>2, OnlyHere
    <3> QED
      BY <3>1, <2>2, <1>1
  <2> QED
    BY <2>1, <2>2
<1>2. \A o \in M : o \in Content(p) /\ (Waits(q)' => Waits(p))
  OBVIOUS
<1>3. \A o \in M : \E m \in Locations : o \in Content(m) /\ (Waits(q)' => Waits(m))
  BY <1>2
<1> QED
  BY <1>1, <1>3, MovedOn

\* Operations leave their location.
LEMMA LetGoFrom ==
    ASSUME PInv, NEW p \in Locations, NEW M \in SUBSET Content(p),
           Content(p)' = Content(p) \ M,
           \A l \in Locations : l # p => Content(l)' = Content(l),
           \A o \in Ops \ M : answers'[o] = answers[o],
           \A o \in M \cap Ops : Finished(o),
           \A l \in Locations : Waits(l)' => Waits(l) \/ Content(l)' = {},
           \A g \in Goroutines : at'[g] \in {"retry", "commit"} => at'[g] = at[g] /\ hand'[g] = hand[g],
           UNCHANGED <<data, attempts>>
    PROVE  OperationsFit'
<1>1. ASSUME NEW l \in Locations PROVE Content(l)' = Content(l) \ M
  <2>1. CASE l = p
    BY <2>1
  <2>2. CASE l # p
    <3>1. \A o \in M : o \notin Content(l)
      BY <2>2, OnlyHere
    <3> QED
      BY <3>1, <2>2
  <2> QED
    BY <2>1, <2>2
<1> QED
  BY <1>1, LetGo

\* Callbacks are made for operations, or they are tried again: those of M, which
\* are in one location, stay there or move to q.
LEMMA Tried ==
    ASSUME PInv, NEW p \in Locations, NEW q \in Locations, NEW M \in SUBSET Content(p),
           p # q => Content(p)' = Content(p) \ M,
           Content(q)' = Content(q) \cup M,
           \A l \in Locations : l # p /\ l # q => Content(l)' = Content(l),
           \A o \in Ops \ M : answers'[o] = answers[o] /\ attempts'[o] = attempts[o],
           \A o \in M : /\ Answered(o) => Answered(o)'
                        /\ data[o] = "valid" => attempts'[o] = 0 /\ answers'[o].failed = 0
                        /\ answers'[o].ok <= attempts'[o] + 2
                        /\ answers'[o].failed <= attempts'[o] + 1
                        /\ FitsAt(o, q)',
           \A l \in Locations : Waits(l)' => Waits(l),
           \A g \in Goroutines : at'[g] \in {"retry", "commit"} =>
               \/ at'[g] = at[g] /\ hand'[g] = hand[g] /\ HandAt(g) # p
               \/ /\ at'[g] = "retry" => /\ data[Head(hand'[g])] = "invalid"
                                         /\ answers'[Head(hand'[g])].ok <= attempts'[Head(hand'[g])]
                                         /\ answers'[Head(hand'[g])].failed + 1
                                               <= attempts'[Head(hand'[g])]
                  /\ at'[g] = "commit" => \A o \in Elems(hand'[g]) : Answered(o)',
           UNCHANGED data
    PROVE  OperationsFit'
<1>1. /\ OnePlace /\ Kept /\ CountsFit /\ PlacesFit /\ RetriesFit /\ CommitsFit /\ TypeOK /\ HandsFit
      /\ \A l \in Locations : Content(l) \subseteq Ops
  BY ContentsType DEF PInv, OperationsFit
<1>2. ASSUME NEW l \in Locations, l # q PROVE Content(l)' = Content(l) \ M
  <2>1. CASE l = p
    BY <2>1, <1>2
  <2>2. CASE l # p
    <3>1. \A o \in M : o \notin Content(l)
      BY <2>2, OnlyHere
    <3> QED
      BY <3>1, <2>2, <1>2
  <2> QED
    BY <2>1, <2>2
<1>3. OnePlace'
  BY <1>1, <1>2, StillOnePlace
<1>4. \A o \in Ops : Held(o)' <=> Held(o)
  <2>1. ASSUME NEW o \in Ops, Held(o)' PROVE Held(o)
    BY <2>1, <1>2 DEF Held
  <2>2. ASSUME NEW o \in Ops, Held(o) PROVE Held(o)'
    BY <2>2, <1>2 DEF Held
  <2> QED
    BY <2>1, <2>2
<1>5. \A o \in Ops : Accepted(o)' <=> Accepted(o)
  BY DEF Accepted
<1>6. \A o \in M : Accepted(o)
  BY <1>1 DEF Kept, Held
<1>7. Kept'
  <2>1. ASSUME NEW o \in Ops, o \in M
        PROVE  (~Accepted(o) => ~Held(o) /\ ~Answered(o))' /\ (Accepted(o) => Held(o) \/ Answered(o))'
    BY <2>1, <1>1, <1>4, <1>5, <1>6 DEF Kept
  <2>2. ASSUME NEW o \in Ops, o \notin M
        PROVE  (~Accepted(o) => ~Held(o) /\ ~Answered(o))' /\ (Accepted(o) => Held(o) \/ Answered(o))'
    <3>1. Answered(o)' <=> Answered(o)
      BY <2>2 DEF Answered
    <3> QED
      BY <3>1, <1>1, <1>4, <1>5 DEF Kept
  <2> QED
    BY <2>1, <2>2 DEF Kept
<1>8. CountsFit'
  <2> SUFFICES ASSUME NEW o \in Ops
               PROVE  /\ ~Accepted(o) => attempts'[o] = 0
                      /\ data[o] = "valid" => attempts'[o] = 0 /\ answers'[o].failed = 0
                      /\ answers'[o].ok <= attempts'[o] + 2
                      /\ answers'[o].failed <= attempts'[o] + 1
    BY <1>5 DEF CountsFit
  <2>1. CASE o \in M
    BY <2>1, <1>6
  <2>2. CASE o \notin M
    BY <2>2, <1>1 DEF CountsFit
  <2> QED
    BY <2>1, <2>2
<1>9. PlacesFit'
  <2> SUFFICES ASSUME NEW l \in Locations, NEW o \in Content(l)' PROVE FitsAt(o, l)'
    BY DEF PlacesFit
  <2>1. CASE o \in M
    <3>1. l = q
      BY <2>1, <1>2
    <3> QED
      BY <3>1, <2>1
  <2>2. CASE o \notin M
    <3>1. o \in Content(l) /\ o \in Ops \ M
      BY <2>2, <1>1, <1>2
    <3>2. FitsAt(o, l) /\ answers'[o] = answers[o] /\ attempts'[o] = attempts[o]
          /\ (Waits(l)' => Waits(l))
      BY <3>1, <1>1 DEF PlacesFit
    <3> QED
      BY <3>2 DEF FitsAt
  <2> QED
    BY <2>1, <2>2
<1>10. ASSUME NEW g \in Goroutines, HandAt(g) # p, NEW o \in Elems(hand[g])
       PROVE  o \in Ops \ M
  <2>1. o \in Content(HandAt(g)) /\ HandAt(g) \in Locations
    BY <1>10, Contents, LocationsAre DEF ContentsAre
  <2>2. \A x \in M : x \notin Content(HandAt(g))
    BY <2>1, <1>10, OnlyHere
  <2> QED
    BY <2>1, <2>2, <1>1
<1>11. RetriesFit'
  <2> SUFFICES ASSUME NEW g \in Goroutines, at'[g] = "retry"
               PROVE  /\ data[Head(hand'[g])] = "invalid"
                      /\ answers'[Head(hand'[g])].ok <= attempts'[Head(hand'[g])]
                      /\ answers'[Head(hand'[g])].failed + 1 <= attempts'[Head(hand'[g])]
    BY DEF RetriesFit
  <2>1. CASE at'[g] = at[g] /\ hand'[g] = hand[g] /\ HandAt(g) # p
    <3>1. hand[g] # <<>> /\ hand[g] \in Seq(SaveOps)
      BY <2>1, <1>1 DEF HandsFit, TypeOK
    <3>2. Head(hand[g]) \in Elems(hand[g])
      BY <3>1, SeqParts DEF Elems
    <3>3. Head(hand[g]) \in Ops \ M
      BY <3>2, <2>1, <1>10
    <3> QED
      BY <3>3, <2>1, <1>1 DEF RetriesFit
  <2> QED
    BY <2>1
<1>12. CommitsFit'
  <2> SUFFICES ASSUME NEW g \in Goroutines, at'[g] = "commit", NEW o \in Elems(hand'[g])
               PROVE  Answered(o)'
    BY DEF CommitsFit
  <2>1. CASE at'[g] = at[g] /\ hand'[g] = hand[g] /\ HandAt(g) # p
    <3>1. o \in Ops \ M /\ Answered(o)
      BY <2>1, <1>1, <1>10 DEF CommitsFit
    <3> QED
      BY <3>1 DEF Answered
  <2> QED
    BY <2>1
<1> QED
  BY <1>3, <1>7, <1>8, <1>9, <1>11, <1>12 DEF OperationsFit

-----------------------------------------------------------------------------
(***************************************************************************)
(* The calls.                                                              *)
(***************************************************************************)
LEMMA SaveAsyncStep ==
    ASSUME PInv, NEW o \in SaveOps, NEW d \in {"valid", "invalid"}, NEW via \in BOOLEAN,
           SaveAsync(o, d, via)
    PROVE  PInv'
<1>1. TypeOK /\ EachOnce /\ HandsFit /\ OperationsFit /\ DeletionWaits /\ Kept /\ o \in Ops
  BY DEF PInv, OperationsFit, Ops
<1>2. /\ data[o] = "new"
      /\ cached' = (cached \/ via)
      /\ lastCall' = IF via THEN "save" ELSE lastCall
      /\ UNCHANGED <<attempts, answers, deleteQueue, updateQueue, batchSaveQueue,
                     at, hand, pendingBatch, leaving, control>>
  BY DEF SaveAsync
<1>3. CASE Len(saveQueue) < QueueSize /\ saveQueue' = Append(saveQueue, o)
           /\ data' = [data EXCEPT ![o] = d]
  <2>1. o \notin Elems(saveQueue)
    <3>1. ~Held(o)
      BY <1>1, <1>2 DEF Kept, Accepted
    <3> QED
      BY <3>1, Contents, LocationsAre DEF Held, ContentsAre
  <2>2. OneAppended(saveQueue', saveQueue, o, SaveOps)
    BY <2>1, <1>1, <1>3, AppendElems DEF TypeOK, EachOnce
  <2>3. TypeOK'
    BY SMTT(60), <1>1, <1>2, <1>3, <2>2, PersistenceAssumption DEF TypeOK, OneAppended, control
  <2>4. EachOnce' /\ HandsFit'
    BY <1>1, <1>2, <2>2 DEF EachOnce, HandsFit, OneAppended, control
  <2>5. OperationsFit'
    <3>1. Accepting({o}, d)
      BY <1>1, <1>3 DEF TypeOK, Accepting
    <3>2. Content(SaveAt)' = Content(SaveAt) \cup {o}
      BY <2>2, Contents, ContentsAfter DEF ContentsAre, OneAppended
    <3>3. \A l \in Locations : l # SaveAt => Content(l)' = Content(l)
      BY <1>2, OthersStay
    <3>4. SaveAt \in Locations /\ SaveAt[1] # "hand" /\ {o} \in SUBSET Ops
      BY <1>1, LocationsAre DEF SaveAt
    <3> QED
      BY <1>2, <3>1, <3>2, <3>3, <3>4, TakenIn
  <2>6. DeletionWaits'
    <3>1. \A u \in UpdateOps : ~Accepted(u)' => ~Accepted(u)
      BY <1>1, <1>2, <1>3 DEF Accepted, TypeOK
    <3>2. \A x \in DeleteOps : data[x] = "valid" => data'[x] = "valid"
      BY <1>1, <1>2, <1>3 DEF TypeOK, Ops
    <3> QED
      BY <3>1, <3>2, <1>1, <1>2 DEF DeletionWaits, TypeOK
  <2> QED
    BY <2>3, <2>4, <2>5, <2>6 DEF PInv
<1>4. CASE via /\ UNCHANGED <<saveQueue, data>>
  <2>1. TypeOK'
    BY <1>1, <1>2, <1>4 DEF TypeOK, control
  <2>2. EachOnce' /\ HandsFit'
    BY <1>1, <1>2, <1>4 DEF EachOnce, HandsFit, control
  <2>3. OperationsFit'
    <3> DEFINE M == {}
    <3>1. \A l \in Locations : Content(l)' = Content(l) \ M
      BY <1>2, <1>4, OthersStay
    <3>2. SaveAt \in Locations /\ Content(SaveAt)' = Content(SaveAt) \cup M
      BY <3>1, LocationsAre
    <3>3. \A l \in Locations : Waits(l)' => Waits(l)
      BY <1>2 DEF Waits
    <3>4. \A o1 \in M : \E m \in Locations : o1 \in Content(m) /\ (Waits(SaveAt)' => Waits(m))
      OBVIOUS
    <3> HIDE DEF M
    <3> QED
      BY <1>2, <1>4, <3>1, <3>2, <3>3, <3>4, MovedOn
  <2>4. DeletionWaits'
    BY <1>2, <1>4 DEF DeletionWaits
  <2> QED
    BY <2>1, <2>2, <2>3, <2>4 DEF PInv
<1> QED
  BY <1>3, <1>4 DEF SaveAsync

LEMMA DeleteAsyncStep ==
    ASSUME PInv, NEW o \in DeleteOps, NEW d \in {"valid", "invalid"}, DeleteAsync(o, d) PROVE PInv'
<1>1. TypeOK /\ EachOnce /\ HandsFit /\ OperationsFit /\ DeletionWaits /\ Kept /\ o \in Ops
  BY DEF PInv, OperationsFit, Ops
<1>2. /\ data[o] = "new"
      /\ deleteQueue' = Append(deleteQueue, o)
      /\ data' = [data EXCEPT ![o] = d]
      /\ lastCall' = IF d = "valid" THEN "delete" ELSE lastCall
      /\ UNCHANGED <<attempts, answers, saveQueue, updateQueue, batchSaveQueue, at,
                     hand, pendingBatch, leaving, cached, control>>
  BY DEF DeleteAsync
<1>3. o \notin Elems(deleteQueue)
  <2>1. ~Held(o)
    BY <1>1, <1>2 DEF Kept, Accepted
  <2> QED
    BY <2>1, Contents, LocationsAre DEF Held, ContentsAre
<1>4. OneAppended(deleteQueue', deleteQueue, o, DeleteOps)
  BY <1>1, <1>2, <1>3, AppendElems DEF TypeOK, EachOnce
<1>5. TypeOK'
  BY <1>1, <1>2, <1>4 DEF TypeOK, OneAppended, control
<1>6. EachOnce' /\ HandsFit'
  BY <1>1, <1>2, <1>4 DEF EachOnce, HandsFit, OneAppended, control
<1>7. OperationsFit'
  <2>1. Accepting({o}, d)
    <3>1. data' = [data EXCEPT ![o] = d] /\ DOMAIN data = Ops
      BY <1>1, <1>2 DEF TypeOK
    <3> QED
      BY <3>1, Zenon DEF Accepting
  <2>2. Content(DeleteAt)' = Content(DeleteAt) \cup {o}
    BY <1>4, Contents, ContentsAfter DEF ContentsAre, OneAppended
  <2>3. \A l \in Locations : l # DeleteAt => Content(l)' = Content(l)
    BY <1>2, OthersStay
  <2>4. DeleteAt \in Locations /\ DeleteAt[1] # "hand" /\ {o} \in SUBSET Ops
    BY <1>1, LocationsAre DEF DeleteAt
  <2> QED
    BY <1>2, <2>1, <2>2, <2>3, <2>4, TakenIn
<1>8. DeletionWaits'
  <2>1. Elems(deleteQueue') = Elems(deleteQueue) \cup {o}
    BY <1>4 DEF OneAppended
  <2>2. data'[o] = d /\ \A x \in Ops \ {o} : data'[x] = data[x]
    BY <1>1, <1>2 DEF TypeOK
  <2>3. \A u \in UpdateOps : ~Accepted(u)' => ~Accepted(u)
    BY <1>2, <2>2 DEF Accepted, Ops
  <2>4. CASE d = "valid"
    BY <2>1, <2>2, <2>4 DEF DeletionWaits
  <2>5. CASE d = "invalid"
    <3>1. \A x \in DeleteOps : data[x] = "valid" => data'[x] = "valid"
      BY <1>2, <2>2 DEF Ops
    <3> QED
      BY <1>1, <1>2, <2>1, <2>3, <2>5, <3>1 DEF DeletionWaits
  <2> QED
    BY <2>4, <2>5
<1> QED
  BY <1>5, <1>6, <1>7, <1>8 DEF PInv

LEMMA UpdateAsyncStep ==
    ASSUME PInv, NEW o \in UpdateOps, NEW d \in {"valid", "invalid"}, UpdateAsync(o, d) PROVE PInv'
<1>1. TypeOK /\ EachOnce /\ HandsFit /\ OperationsFit /\ DeletionWaits /\ Kept /\ o \in Ops
  BY DEF PInv, OperationsFit, Ops
<1>2. /\ data[o] = "new"
      /\ updateQueue' = Append(updateQueue, o)
      /\ data' = [data EXCEPT ![o] = d]
      /\ lastCall' = IF d = "valid" THEN "update" ELSE lastCall
      /\ UNCHANGED <<attempts, answers, saveQueue, deleteQueue, batchSaveQueue, at,
                     hand, pendingBatch, leaving, cached, control>>
  BY DEF UpdateAsync
<1>3. o \notin Elems(updateQueue)
  <2>1. ~Held(o)
    BY <1>1, <1>2 DEF Kept, Accepted
  <2> QED
    BY <2>1, Contents, LocationsAre DEF Held, ContentsAre
<1>4. OneAppended(updateQueue', updateQueue, o, UpdateOps)
  BY <1>1, <1>2, <1>3, AppendElems DEF TypeOK, EachOnce
<1>5. TypeOK'
  BY <1>1, <1>2, <1>4 DEF TypeOK, OneAppended, control
<1>6. EachOnce' /\ HandsFit'
  BY <1>1, <1>2, <1>4 DEF EachOnce, HandsFit, OneAppended, control
<1>7. OperationsFit'
  <2>1. Accepting({o}, d)
    <3>1. data' = [data EXCEPT ![o] = d] /\ DOMAIN data = Ops
      BY <1>1, <1>2 DEF TypeOK
    <3> QED
      BY <3>1, Zenon DEF Accepting
  <2>2. Content(UpdateAt)' = Content(UpdateAt) \cup {o}
    BY <1>4, Contents, ContentsAfter DEF ContentsAre, OneAppended
  <2>3. \A l \in Locations : l # UpdateAt => Content(l)' = Content(l)
    BY <1>2, OthersStay
  <2>4. UpdateAt \in Locations /\ UpdateAt[1] # "hand" /\ {o} \in SUBSET Ops
    BY <1>1, LocationsAre DEF UpdateAt
  <2> QED
    BY <1>2, <2>1, <2>2, <2>3, <2>4, TakenIn
<1>8. DeletionWaits'
  <2>1. data'[o] = d /\ \A x \in Ops \ {o} : data'[x] = data[x]
    BY <1>1, <1>2 DEF TypeOK
  <2>2. Accepted(o)'
    BY <2>1 DEF Accepted
  <2> QED
    BY <2>2 DEF DeletionWaits
<1> QED
  BY <1>5, <1>6, <1>7, <1>8 DEF PInv

\* What BatchSave takes in without batching: as many as there is room for.
IsSplit(taken, o1, o2, room) ==
    /\ taken \in Seq(SaveOps) /\ Distinct(taken)
    /\ Elems(taken) \subseteq {o1, o2}
    /\ Len(taken) <= room
    /\ ToSet(taken) = Elems(taken)

LEMMA BatchSplit ==
    ASSUME NEW o1 \in SaveOps, NEW o2 \in SaveOps, o1 # o2, NEW room \in Nat,
           NEW taken, taken = IF 2 <= room THEN <<o1, o2>> ELSE SubSeq(<<o1, o2>>, 1, room)
    PROVE  IsSplit(taken, o1, o2, room)
<1>1. CASE 2 <= room
  <2>1. taken = <<o1, o2>> /\ taken \in Seq(SaveOps) /\ Len(taken) = 2
    BY <1>1
  <2>2. Elems(taken) = {o1, o2} /\ Distinct(taken)
    BY <2>1, TwoElems
  <2>3. ToSet(taken) = Elems(taken)
    BY <2>1, ToSetIsElems
  <2> QED
    BY <2>1, <2>2, <2>3, <1>1 DEF IsSplit
<1>2. CASE room = 1
  <2>1. taken = SubSeq(<<o1, o2>>, 1, 1)
    BY <1>2
  <2>2. taken \in Seq(SaveOps) /\ Len(taken) = 1 /\ taken[1] = o1
    BY <2>1
  <2>3. Elems(taken) = {o1} /\ Distinct(taken) /\ ToSet(taken) = Elems(taken)
    BY <2>2 DEF ToSet, Elems, Distinct
  <2> QED
    BY <2>2, <2>3, <1>2 DEF IsSplit
<1>3. CASE room = 0
  <2>1. taken = SubSeq(<<o1, o2>>, 1, 0)
    BY <1>3
  <2>2. taken \in Seq(SaveOps) /\ Len(taken) = 0
    BY <2>1
  <2>3. Elems(taken) = {} /\ Distinct(taken) /\ ToSet(taken) = Elems(taken)
    BY <2>2 DEF ToSet, Elems, Distinct
  <2> QED
    BY <2>2, <2>3, <1>3 DEF IsSplit
<1> QED
  BY <1>1, <1>2, <1>3

LEMMA BatchSaveStep ==
    ASSUME PInv, NEW o1 \in SaveOps, NEW o2 \in SaveOps, o1 # o2,
           NEW d \in {"valid", "invalid"}, BatchSave(<<o1, o2>>, d)
    PROVE  PInv'
<1> DEFINE operations == <<o1, o2>>
           room == QueueSize - Len(saveQueue)
           accepted == CASE enableBatching -> operations
                         [] Len(operations) <= room -> operations
                         [] OTHER -> SubSeq(operations, 1, room)
<1>1. TypeOK /\ EachOnce /\ HandsFit /\ OperationsFit /\ DeletionWaits /\ Kept /\ {o1, o2} \subseteq Ops
  BY DEF PInv, OperationsFit, Ops
<1>2. data[o1] = "new" /\ data[o2] = "new"
  <2>1. \A i \in DOMAIN <<o1, o2>> : data[<<o1, o2>>[i]] = "new"
    BY DEF BatchSave
  <2> QED
    BY <2>1
<1>3. /\ IF enableBatching
         THEN batchSaveQueue' = Append(batchSaveQueue, operations) /\ UNCHANGED saveQueue
         ELSE saveQueue' = saveQueue \o accepted /\ UNCHANGED batchSaveQueue
      /\ data' = [o \in Ops |-> IF o \in ToSet(accepted) THEN d ELSE data[o]]
      /\ UNCHANGED <<attempts, answers, deleteQueue, updateQueue, at, hand,
                     pendingBatch, leaving, cached, lastCall, control>>
  BY DEF BatchSave
<1>4. \A l \in Locations : o1 \notin Content(l) /\ o2 \notin Content(l)
  <2>1. ~Held(o1) /\ ~Held(o2)
    BY <1>1, <1>2 DEF Kept, Accepted
  <2> QED
    BY <2>1 DEF Held
<1>5. ASSUME NEW M \in SUBSET {o1, o2}, Accepting(M, d)
      PROVE  /\ data' \in [Ops -> {"new", "valid", "invalid"}]
             /\ DeletionWaits'
             /\ \A o \in M : data[o] = "new"
  <2>1. \A u \in UpdateOps : ~Accepted(u)' => ~Accepted(u)
    BY <1>1, <1>2, <1>5 DEF Accepted, TypeOK, Ops, Accepting
  <2>2. \A x \in DeleteOps : data[x] = "valid" => data'[x] = "valid"
    BY <1>2, <1>5 DEF Accepting, Ops
  <2>3. DeletionWaits'
    BY <2>1, <2>2, <1>1, <1>3 DEF DeletionWaits
  <2> QED
    BY <2>3, <1>1, <1>2, <1>5 DEF TypeOK, Accepting
<1>6. CASE enableBatching
  <2>1. /\ batchSaveQueue' = Append(batchSaveQueue, operations) /\ UNCHANGED saveQueue
        /\ Accepting({o1, o2}, d)
    <3>1. accepted = operations /\ ToSet(operations) = {o1, o2}
      BY <1>6 DEF ToSet
    <3> QED
      BY <3>1, <1>3, <1>6 DEF Accepting
  <2>2. /\ operations \in Seq(SaveOps) /\ operations # <<>> /\ Distinct(operations)
        /\ Elems(operations) = {o1, o2}
    BY TwoElems
  <2>3. Elems(operations) \cap AllOf(batchSaveQueue) = {}
    BY <2>2, <1>4, Contents, LocationsAre DEF ContentsAre
  <2> HIDE DEF operations, accepted
  <2>4. BatchAppended(batchSaveQueue', batchSaveQueue, operations, SaveOps)
    BY <1>1, <2>1, <2>2, <2>3, BatchAdded DEF TypeOK, EachOnce
  <2>5. TypeOK'
    <3>1. data' \in [Ops -> {"new", "valid", "invalid"}]
      BY <1>5, <2>1
    <3> QED
      BY <3>1, <1>1, <1>3, <2>1, <2>4 DEF TypeOK, BatchAppended, control
  <2>6. EachOnce' /\ HandsFit'
    BY <1>1, <1>3, <2>1, <2>4 DEF EachOnce, HandsFit, BatchAppended, control
  <2>7. OperationsFit'
    <3>1. Content(BatchAt)' = Content(BatchAt) \cup {o1, o2}
      BY <2>2, <2>4, Contents, ContentsAfter DEF ContentsAre, BatchAppended
    <3>2. \A l \in Locations : l # BatchAt => Content(l)' = Content(l)
      BY <1>3, <2>1, OthersStay
    <3>3. BatchAt \in Locations /\ BatchAt[1] # "hand" /\ {o1, o2} \in SUBSET Ops
      BY <1>1, LocationsAre DEF BatchAt
    <3>4. \A o \in {o1, o2} : data[o] = "new"
      BY <1>2
    <3> QED
      BY <1>3, <2>1, <3>1, <3>2, <3>3, <3>4, TakenIn
  <2>8. DeletionWaits'
    BY <1>5, <2>1
  <2> QED
    BY <2>5, <2>6, <2>7, <2>8 DEF PInv
<1>7. CASE ~enableBatching
  <2> DEFINE taken == IF 2 <= room THEN <<o1, o2>> ELSE SubSeq(<<o1, o2>>, 1, room)
  <2>1. accepted = taken
    <3>1. Len(operations) = 2
      OBVIOUS
    <3> QED
      BY <3>1, <1>7
  <2>2. Len(saveQueue) \in Nat
    BY <1>1 DEF TypeOK
  <2>3. /\ taken \in Seq(SaveOps) /\ Distinct(taken) /\ Elems(taken) \subseteq {o1, o2}
        /\ Len(taken) <= room /\ ToSet(taken) = Elems(taken)
    <3>1. room \in Nat
      BY <1>1, PersistenceAssumption DEF TypeOK
    <3>2. IsSplit(taken, o1, o2, room)
      <4> HIDE DEF room
      <4> QED
        BY <3>1, BatchSplit
    <3> QED
      BY <3>2 DEF IsSplit
  <2>5. /\ saveQueue' = saveQueue \o taken /\ UNCHANGED batchSaveQueue
        /\ Accepting(Elems(taken), d)
    BY <1>3, <1>7, <2>1, <2>3 DEF Accepting
  <2> HIDE DEF accepted, taken, operations
  <2>6. Elems(saveQueue) \cap Elems(taken) = {}
    BY <2>3, <1>4, Contents, LocationsAre DEF ContentsAre
  <2>7. Joined(saveQueue', saveQueue, taken, SaveOps)
    BY <1>1, <2>3, <2>5, <2>6, ConcatElems DEF TypeOK, EachOnce
  <2>8. /\ data' \in [Ops -> {"new", "valid", "invalid"}]
        /\ DeletionWaits'
        /\ \A o \in Elems(taken) : data[o] = "new"
    BY <1>5, <2>3, <2>5
  <2>9. TypeOK'
    <3>1. Len(saveQueue') <= QueueSize
      <4>1. Len(taken) \in Nat /\ Len(saveQueue') = Len(saveQueue) + Len(taken)
        BY <2>3, <2>7 DEF Joined
      <4> QED
        BY <4>1, <2>2, <2>3, PersistenceAssumption
    <3>2. saveQueue' \in Seq(SaveOps)
      BY <2>7 DEF Joined
    <3> QED
      BY <3>1, <3>2, <1>1, <1>3, <2>5, <2>8 DEF TypeOK, control
  <2>10. EachOnce' /\ HandsFit'
    BY <1>1, <1>3, <2>5, <2>7 DEF EachOnce, HandsFit, Joined, control
  <2>11. OperationsFit'
    <3>1. Content(SaveAt)' = Content(SaveAt) \cup Elems(taken)
      BY <2>7, Contents, ContentsAfter DEF ContentsAre, Joined
    <3>2. \A l \in Locations : l # SaveAt => Content(l)' = Content(l)
      BY <1>3, <2>5, OthersStay
    <3>3. SaveAt \in Locations /\ SaveAt[1] # "hand" /\ Elems(taken) \in SUBSET Ops
      BY <1>1, <2>3, LocationsAre DEF SaveAt
    <3> QED
      BY ZenonT(60), <1>3, <2>5, <2>8, <3>1, <3>2, <3>3, TakenIn
  <2> QED
    BY <2>8, <2>9, <2>10, <2>11 DEF PInv
<1> QED
  BY <1>6, <1>7

-----------------------------------------------------------------------------
(***************************************************************************)
(* The workers.                                                            *)
(***************************************************************************)
\* A step that leaves operations and what is known of them where they are.
LEMMA NothingMoves ==
    ASSUME PInv, UNCHANGED <<data, attempts, answers, queues, hand, pendingBatch>>,
           \A g \in Goroutines : at'[g] \in {"retry", "commit", "begin"} => at'[g] = at[g]
    PROVE  OperationsFit' /\ EachOnce'
<1>1. EachOnce'
  BY DEF PInv, EachOnce, queues
<1> DEFINE M == {}
<1>2. \A l \in Locations : Content(l)' = Content(l) \ M
  BY OthersStay DEF queues
<1>3. SaveAt \in Locations /\ Content(SaveAt)' = Content(SaveAt) \cup M
  BY <1>2, LocationsAre
<1>4. \A l \in Locations : Waits(l)' => Waits(l)
  <2> SUFFICES ASSUME NEW l \in Locations, Waits(l)' PROVE Waits(l)
    OBVIOUS
  <2>1. CASE l[1] # "hand"
    BY <2>1 DEF Waits
  <2>2. CASE l[1] = "hand"
    <3>1. l[2] \in Goroutines /\ at'[l[2]] = "begin"
      BY <2>2, LocationKinds DEF Waits
    <3> QED
      BY <3>1 DEF Waits
  <2> QED
    BY <2>1, <2>2
<1>5. \A o \in M : \E m \in Locations : o \in Content(m) /\ (Waits(SaveAt)' => Waits(m))
  OBVIOUS
<1> HIDE DEF M
<1>6. OperationsFit'
  BY <1>2, <1>3, <1>4, <1>5, MovedOn
<1> QED
  BY <1>1, <1>6

\* One goroutine goes on: what the others do and wait for stays.
LEMMA OneGoesOn ==
    ASSUME PInv, NEW g \in Goroutines, NEW place \in Places, at' = [at EXCEPT ![g] = place]
    PROVE  /\ at' \in [Goroutines -> Places] /\ at'[g] = place
           /\ \A h \in Goroutines : h # g => at'[h] = at[h]
           /\ \A l \in Locations : l # HandAt(g) => (Waits(l)' <=> Waits(l))
           /\ Waits(HandAt(g))' <=> place = "begin"
<1>1. /\ at' \in [Goroutines -> Places] /\ at'[g] = place
      /\ \A h \in Goroutines : h # g => at'[h] = at[h]
  BY DEF PInv, TypeOK
<1>2. ASSUME NEW l \in Locations, l # HandAt(g) PROVE Waits(l)' <=> Waits(l)
  <2>1. CASE l[1] # "hand"
    BY <2>1 DEF Waits
  <2>2. ASSUME NEW h \in Goroutines, l = HandAt(h), l[2] = h PROVE Waits(l)' <=> Waits(l)
    BY <2>2, <1>1, <1>2 DEF Waits
  <2> QED
    BY <2>1, <2>2, LocationKinds
<1>3. Waits(HandAt(g))' <=> place = "begin"
  BY <1>1 DEF Waits, HandAt
<1> QED
  BY <1>1, <1>2, <1>3

LEMMA TakeSaveStep == ASSUME PInv, NEW w \in Goroutines, TakeSave(w) PROVE PInv'
<1>1. TypeOK /\ EachOnce /\ HandsFit /\ DeletionWaits
  BY DEF PInv
<1>2. /\ at[w] = "select" /\ saveQueue # <<>>
      /\ hand' = [hand EXCEPT ![w] = <<Head(saveQueue)>>]
      /\ saveQueue' = Tail(saveQueue)
      /\ at' = [at EXCEPT ![w] = "save"]
      /\ UNCHANGED <<callers, attempts, answers, deleteQueue, updateQueue,
                     batchSaveQueue, pendingBatch, leaving, cached, control>>
  BY DEF TakeSave
<1>0. PICK h : h = Head(saveQueue)
  OBVIOUS
<1> DEFINE one == <<h>>
<1>3. FirstTaken(saveQueue', saveQueue, SaveOps)
  BY <1>1, <1>2, TailElems DEF TypeOK, EachOnce
<1>4. h \in SaveOps /\ one \in Seq(SaveOps) /\ one # <<>> /\ Elems(one) = {h} /\ Distinct(one)
  BY <1>0, <1>3, OneElem DEF FirstTaken
<1>5. hand' = [hand EXCEPT ![w] = one]
  BY <1>0, <1>2
<1> HIDE DEF one
<1>6. /\ hand' \in [Goroutines -> Seq(SaveOps)] /\ hand'[w] = one
      /\ \A g \in Goroutines : g # w => hand'[g] = hand[g]
  BY <1>1, <1>4, <1>5 DEF TypeOK
<1>7. /\ at' \in [Goroutines -> Places] /\ at'[w] = "save"
      /\ \A g \in Goroutines : g # w => at'[g] = at[g]
      /\ \A l \in Locations : l # HandAt(w) => (Waits(l)' <=> Waits(l))
      /\ ~Waits(HandAt(w))'
  BY <1>2, OneGoesOn DEF Places
<1>8. TypeOK'
  BY <1>1, <1>2, <1>3, <1>6, <1>7, PersistenceAssumption DEF TypeOK, FirstTaken, control, callers
<1>9. EachOnce'
  BY <1>1, <1>2, <1>3, <1>4, <1>6 DEF EachOnce, FirstTaken
<1>10. HandsFit'
  BY <1>1, <1>2, <1>4, <1>6, <1>7 DEF HandsFit, control
<1>11. OperationsFit'
  <2>1. HandAt(w) \in Locations /\ SaveAt \in Locations /\ HandAt(w) # SaveAt
    BY LocationsAre, LocationsDiffer
  <2>2. Content(SaveAt)' = Content(SaveAt) \ {h} /\ {h} \in SUBSET Content(SaveAt)
    BY <1>0, <1>3, Contents, ContentsAfter DEF ContentsAre, FirstTaken
  <2>3. Content(HandAt(w)) = {} /\ Content(HandAt(w))' = {h}
    BY <1>1, <1>2, <1>4, <1>6, EmptyElems, Contents, ContentsAfter DEF ContentsAre, HandsFit
  <2>4. \A l \in Locations : l # SaveAt /\ l # HandAt(w) => Content(l)' = Content(l)
    BY <1>2, <1>6, OthersStay
  <2>5. Content(HandAt(w))' = Content(HandAt(w)) \cup {h}
    BY <2>3
  <2>6. \A l \in Locations : Waits(l)' => Waits(l)
    BY <1>7
  <2>7. \A g \in Goroutines : at'[g] \in {"retry", "commit"} => at'[g] = at[g] /\ hand'[g] = hand[g]
    BY <1>6, <1>7
  <2>8. UNCHANGED <<data, attempts, answers>>
    BY <1>2 DEF callers
  <2> QED
    BY <1>7, <2>1, <2>2, <2>4, <2>5, <2>6, <2>7, <2>8, MovedFromTo
<1>12. DeletionWaits'
  BY <1>1, <1>2 DEF DeletionWaits, callers, Accepted
<1> QED
  BY <1>8, <1>9, <1>10, <1>11, <1>12 DEF PInv

\* A callback is made for one operation.
Reported(o, how) ==
    /\ answers' \in [Ops -> [ok : Nat, failed : Nat]]
    /\ \A x \in Ops \ {o} : answers'[x] = answers[x]
    /\ answers'[o].ok = answers[o].ok + (IF how = "ok" THEN 1 ELSE 0)
    /\ answers'[o].failed = answers[o].failed + (IF how = "failed" THEN 1 ELSE 0)
    /\ Answered(o)'

LEMMA Reporting ==
    ASSUME TypeOK, NEW o \in Ops, NEW how \in {"ok", "failed"}, Answer(o, how)
    PROVE  Reported(o, how)
<1>1. answers \in [Ops -> [ok : Nat, failed : Nat]]
  BY DEF TypeOK
<1> DEFINE old == answers[o]
           new == [old EXCEPT ![how] = @ + 1]
<1>2. old \in [ok : Nat, failed : Nat]
  BY <1>1
<1>3. answers' = [answers EXCEPT ![o] = new]
  BY DEF Answer
<1>4. /\ new \in [ok : Nat, failed : Nat]
      /\ new.ok = old.ok + (IF how = "ok" THEN 1 ELSE 0)
      /\ new.failed = old.failed + (IF how = "failed" THEN 1 ELSE 0)
  <2> HIDE DEF old
  <2>1. CASE how = "ok"
    BY <2>1, <1>2
  <2>2. CASE how = "failed"
    BY <2>2, <1>2
  <2> QED
    BY <2>1, <2>2
<1>5. new.ok + new.failed > 0
  <2> HIDE DEF old, new
  <2> QED
    BY <1>2, <1>4
<1> HIDE DEF old, new
<1>6. answers'[o] = new /\ \A x \in Ops \ {o} : answers'[x] = answers[x]
  BY <1>1, <1>3
<1>7. answers' \in [Ops -> [ok : Nat, failed : Nat]]
  BY <1>1, <1>3, <1>4
<1> QED
  BY <1>4, <1>5, <1>6, <1>7 DEF Reported, Answered, old

LEMMA TakeDeleteStep == ASSUME PInv, NEW w \in Goroutines, TakeDelete(w) PROVE PInv'
<1>1. TypeOK /\ EachOnce /\ HandsFit /\ OperationsFit /\ Kept /\ CountsFit /\ PlacesFit /\ DeletionWaits
  BY DEF PInv, OperationsFit
<1>2. /\ deleteQueue # <<>>
      /\ deleteQueue' = Tail(deleteQueue)
      /\ cached' = (cached /\ data[Head(deleteQueue)] # "valid")
      /\ Answer(Head(deleteQueue), Outcome(Head(deleteQueue)))
      /\ UNCHANGED <<callers, attempts, saveQueue, updateQueue, batchSaveQueue, at,
                     hand, pendingBatch, leaving, control>>
  BY DEF TakeDelete
<1>0. PICK h : h = Head(deleteQueue)
  OBVIOUS
<1>3. FirstTaken(deleteQueue', deleteQueue, DeleteOps)
  BY <1>1, <1>2, TailElems DEF TypeOK, EachOnce
<1>4. h \in Ops
  BY <1>0, <1>3 DEF FirstTaken, Ops
<1>5. /\ data[h] = "valid" => Reported(h, "ok")
      /\ data[h] # "valid" => Reported(h, "failed")
  <2>1. Answer(h, Outcome(h))
    BY <1>0, <1>2
  <2> QED
    BY <1>1, <1>4, <2>1, Reporting DEF Outcome
<1>6. TypeOK'
  BY <1>1, <1>2, <1>3, <1>5 DEF TypeOK, FirstTaken, Reported, control, callers
<1>7. EachOnce' /\ HandsFit'
  BY <1>1, <1>2, <1>3 DEF EachOnce, FirstTaken, HandsFit, control
<1>8. OperationsFit'
  <2>1. Content(DeleteAt)' = Content(DeleteAt) \ {h} /\ {h} \in SUBSET Content(DeleteAt)
    BY <1>0, <1>3, Contents, ContentsAfter DEF ContentsAre, FirstTaken
  <2>2. \A l \in Locations : l # DeleteAt => Content(l)' = Content(l)
    BY <1>2, OthersStay
  <2>3. DeleteAt \in Locations /\ Waits(DeleteAt)
    BY LocationsAre DEF Waits, DeleteAt
  <2>4. FitsAt(h, DeleteAt) /\ Held(h)
    BY <2>1, <2>3, <1>1 DEF PlacesFit, Held
  <2>5. Finished(h)
    BY <1>1, <1>4, <1>5, <2>3, <2>4, Numbers DEF FitsAt, Reported, Kept, CountsFit, Finished
  <2>6. \A o \in Ops \ {h} : answers'[o] = answers[o]
    BY <1>5 DEF Reported
  <2>7. \A o \in {h} \cap Ops : Finished(o)
    BY <2>5
  <2>8. \A l \in Locations : Waits(l)' => Waits(l)
    BY <1>2 DEF Waits
  <2> QED
    BY <1>2, <2>1, <2>2, <2>3, <2>6, <2>7, <2>8, LetGoFrom DEF callers
<1>9. DeletionWaits'
  <2>1. CASE data[h] = "valid"
    BY <1>0, <1>2, <2>1 DEF DeletionWaits
  <2>2. CASE data[h] # "valid"
    <3>1. Elems(deleteQueue') = Elems(deleteQueue) \ {h}
      BY <1>0, <1>3 DEF FirstTaken
    <3> QED
      BY <1>0, <1>1, <1>2, <2>2, <3>1 DEF DeletionWaits, Accepted, callers
  <2> QED
    BY <2>1, <2>2
<1> QED
  BY <1>6, <1>7, <1>8, <1>9 DEF PInv

LEMMA TakeUpdateStep == ASSUME PInv, NEW w \in Goroutines, TakeUpdate(w) PROVE PInv'
<1>1. TypeOK /\ EachOnce /\ HandsFit /\ OperationsFit /\ Kept /\ CountsFit /\ PlacesFit
  BY DEF PInv, OperationsFit
<1>2. /\ updateQueue # <<>>
      /\ updateQueue' = Tail(updateQueue)
      /\ cached' = (cached \/ data[Head(updateQueue)] = "valid")
      /\ Answer(Head(updateQueue), Outcome(Head(updateQueue)))
      /\ UNCHANGED <<callers, attempts, saveQueue, deleteQueue, batchSaveQueue, at,
                     hand, pendingBatch, leaving, control>>
  BY DEF TakeUpdate
<1>0. PICK h : h = Head(updateQueue)
  OBVIOUS
<1>3. FirstTaken(updateQueue', updateQueue, UpdateOps)
  BY <1>1, <1>2, TailElems DEF TypeOK, EachOnce
<1>4. h \in Ops /\ h \in UpdateOps
  BY <1>0, <1>3 DEF FirstTaken, Ops
<1>5. /\ data[h] = "valid" => Reported(h, "ok")
      /\ data[h] # "valid" => Reported(h, "failed")
  <2>1. Answer(h, Outcome(h))
    BY <1>0, <1>2
  <2> QED
    BY <1>1, <1>4, <2>1, Reporting DEF Outcome
<1>6. TypeOK'
  BY <1>1, <1>2, <1>3, <1>5 DEF TypeOK, FirstTaken, Reported, control, callers
<1>7. EachOnce' /\ HandsFit'
  BY <1>1, <1>2, <1>3 DEF EachOnce, FirstTaken, HandsFit, control
<1>8. Content(UpdateAt)' = Content(UpdateAt) \ {h} /\ {h} \in SUBSET Content(UpdateAt)
  BY <1>0, <1>3, Contents, ContentsAfter DEF ContentsAre, FirstTaken
<1>9. UpdateAt \in Locations /\ Waits(UpdateAt)
  BY LocationsAre DEF Waits, UpdateAt
<1>10. FitsAt(h, UpdateAt) /\ Held(h) /\ Accepted(h)
  BY <1>1, <1>4, <1>8, <1>9 DEF PlacesFit, Held, Kept
<1>11. OperationsFit'
  <2>1. \A l \in Locations : l # UpdateAt => Content(l)' = Content(l)
    BY <1>2, OthersStay
  <2>2. Finished(h)
    BY <1>1, <1>4, <1>5, <1>9, <1>10, Numbers DEF FitsAt, Reported, CountsFit, Finished
  <2>3. \A o \in Ops \ {h} : answers'[o] = answers[o]
    BY <1>5 DEF Reported
  <2>4. \A o \in {h} \cap Ops : Finished(o)
    BY <2>2
  <2>5. \A l \in Locations : Waits(l)' => Waits(l)
    BY <1>2 DEF Waits
  <2> QED
    BY <1>2, <1>8, <1>9, <2>1, <2>3, <2>4, <2>5, LetGoFrom DEF callers
<1>12. DeletionWaits'
  BY <1>2, <1>4, <1>10 DEF DeletionWaits, Accepted, callers
<1> QED
  BY <1>6, <1>7, <1>11, <1>12 DEF PInv

\* A goroutine is done with the first operation in its hand.
GoneOn(g) ==
    /\ hand' \in [Goroutines -> Seq(SaveOps)]
    /\ FirstTaken(hand'[g], hand[g], SaveOps)
    /\ \A h \in Goroutines : h # g => hand'[h] = hand[h] /\ at'[h] = at[h]
    /\ at' \in [Goroutines -> Places] /\ at'[g] \in {"save", "exited", "select"}
    /\ HandsFit'
    /\ \A l \in Locations : Waits(l)' => Waits(l)

LEMMA GoingOn ==
    ASSUME PInv, NEW g \in Goroutines, at[g] \in {"save", "retry"}, Continue(g), starts' = starts
    PROVE  GoneOn(g) /\ hand[g] # <<>> /\ Head(hand[g]) \in Ops
<1>1. TypeOK /\ EachOnce /\ HandsFit /\ hand[g] # <<>>
  BY DEF PInv, HandsFit
<1> DEFINE tail == Tail(hand[g])
           place == IF Len(hand[g]) > 1 THEN "save"
                    ELSE IF g \in leaving THEN "exited" ELSE "select"
<1>2. FirstTaken(tail, hand[g], SaveOps)
  BY <1>1, TailElems DEF TypeOK, EachOnce
<1>3. hand' = [hand EXCEPT ![g] = tail] /\ at' = [at EXCEPT ![g] = place]
  BY <1>1 DEF Continue, TypeOK
<1>4. place \in {"save", "exited", "select"} /\ (place = "save" <=> Len(hand[g]) > 1)
  <2>1. CASE Len(hand[g]) > 1
    <3>1. place = "save"
      BY <2>1
    <3> QED
      BY <2>1, <3>1
  <2>2. CASE ~(Len(hand[g]) > 1) /\ g \in leaving
    <3>1. place = "exited"
      BY <2>2
    <3> QED
      BY <2>2, <3>1
  <2>3. CASE ~(Len(hand[g]) > 1) /\ g \notin leaving
    <3>1. place = "select"
      BY <2>3
    <3> QED
      BY <2>3, <3>1
  <2> QED
    BY <2>1, <2>2, <2>3
<1> HIDE DEF place, tail
<1>5. /\ hand' \in [Goroutines -> Seq(SaveOps)] /\ hand'[g] = tail
      /\ \A h \in Goroutines : h # g => hand'[h] = hand[h]
  BY <1>1, <1>2, <1>3 DEF TypeOK, FirstTaken
<1>6. /\ at' \in [Goroutines -> Places] /\ at'[g] = place
      /\ \A h \in Goroutines : h # g => at'[h] = at[h]
      /\ \A l \in Locations : l # HandAt(g) => (Waits(l)' <=> Waits(l))
      /\ ~Waits(HandAt(g))'
  BY <1>3, <1>4, OneGoesOn DEF Places
<1>7. tail = <<>> <=> ~(Len(hand[g]) > 1)
  <2>1. tail \in Seq(SaveOps) /\ Len(tail) = Len(hand[g]) - 1 /\ Len(hand[g]) \in Nat \ {0}
    BY <1>2 DEF FirstTaken
  <2>2. tail = <<>> <=> Len(tail) = 0
    BY <2>1, EmptySeq
  <2> QED
    BY <2>1, <2>2
<1>8. HandsFit'
  <2>1. ASSUME NEW h \in Goroutines
        PROVE  /\ at'[h] \in {"none", "select", "exited"} <=> hand'[h] = <<>>
               /\ h[1] > starts => at'[h] = "none"
    <3>1. CASE h = g
      BY <3>1, <1>1, <1>4, <1>5, <1>6, <1>7 DEF HandsFit
    <3>2. CASE h # g
      BY <3>2, <1>1, <1>5, <1>6 DEF HandsFit
    <3> QED
      BY <3>1, <3>2
  <2> QED
    BY <2>1 DEF HandsFit
<1>9. Head(hand[g]) \in Ops
  BY <1>2 DEF FirstTaken, Ops
<1>10. FirstTaken(hand'[g], hand[g], SaveOps)
  BY <1>2, <1>5
<1>11. GoneOn(g)
  BY <1>4, <1>5, <1>6, <1>8, <1>10 DEF GoneOn
<1> QED
  BY <1>1, <1>9, <1>11

LEMMA ProcessSaveStep == ASSUME PInv, NEW g \in Goroutines, ProcessSave(g) PROVE PInv'
<1>0. PICK o : o = Head(hand[g])
  OBVIOUS
<1>1. /\ TypeOK /\ EachOnce /\ HandsFit /\ DeletionWaits /\ Kept /\ CountsFit /\ PlacesFit
      /\ at[g] = "save" /\ hand[g] # <<>>
      /\ UNCHANGED <<callers, queues, pendingBatch, leaving, cached, control>>
      /\ UNCHANGED <<data, lastCall, saveQueue, deleteQueue, updateQueue, batchSaveQueue, starts>>
  BY DEF PInv, OperationsFit, ProcessSave, HandsFit, callers, queues, control
<1>2. HandAt(g) \in Locations /\ o \in Content(HandAt(g)) /\ o \in Ops
  <2>1. HandAt(g) \in Locations /\ o \in Content(HandAt(g))
    BY <1>0, <1>1, HeadIsHeld, LocationsAre
  <2> QED
    BY <2>1, <1>1, ContentsType
<1>3. /\ answers[o].ok <= attempts[o] + 1 /\ answers[o].failed <= attempts[o]
      /\ Accepted(o) /\ data[o] \in {"valid", "invalid"}
      /\ data[o] = "valid" => answers[o].failed = 0
      /\ attempts[o] \in Nat /\ answers[o].ok \in Nat /\ answers[o].failed \in Nat
  <2>1. FitsAt(o, HandAt(g)) /\ Held(o)
    BY <1>1, <1>2 DEF PlacesFit, Held
  <2> QED
    BY <2>1, <1>1, <1>2, Numbers DEF FitsAt, Kept, CountsFit, Accepted, TypeOK
<1>4. DeletionWaits'
  BY <1>1 DEF DeletionWaits, Accepted
<1>5. CASE data[o] = "invalid" /\ attempts[o] < MaxRetries
  <2>1. /\ attempts' = [attempts EXCEPT ![o] = @ + 1]
        /\ at' = [at EXCEPT ![g] = "retry"]
        /\ UNCHANGED <<answers, hand>>
    BY <1>0, <1>5 DEF ProcessSave
  <2>2. /\ at' \in [Goroutines -> Places] /\ at'[g] = "retry"
        /\ \A h \in Goroutines : h # g => at'[h] = at[h]
        /\ \A l \in Locations : l # HandAt(g) => (Waits(l)' <=> Waits(l))
        /\ ~Waits(HandAt(g))'
    BY <2>1, OneGoesOn DEF Places
  <2>3. /\ attempts' \in [Ops -> 0..MaxRetries] /\ attempts'[o] = attempts[o] + 1
        /\ \A x \in Ops \ {o} : attempts'[x] = attempts[x]
    <3>1. attempts \in [Ops -> 0..MaxRetries] /\ attempts[o] + 1 \in 0..MaxRetries
      BY SMTT(60), <1>1, <1>2, <1>3, <1>5, PersistenceAssumption DEF TypeOK
    <3> QED
      BY <2>1, <1>2, <3>1
  <2>4. TypeOK'
    BY <1>1, <2>1, <2>2, <2>3 DEF TypeOK, control
  <2>5. EachOnce'
    BY <1>1, <2>1 DEF EachOnce
  <2>6. HandsFit'
    BY <1>1, <2>1, <2>2 DEF HandsFit
  <2>7. OperationsFit'
    <3>1. \A l \in Locations : Content(l)' = Content(l)
      BY <1>1, <2>1, OthersStay
    <3>2. Content(HandAt(g))' = Content(HandAt(g)) \cup {o} /\ {o} \in SUBSET Content(HandAt(g))
      BY <3>1, <1>2
    <3>3. \A x \in Ops \ {o} : answers'[x] = answers[x] /\ attempts'[x] = attempts[x]
      BY <2>1, <2>3
    <3>4. \A x \in {o} : /\ Answered(x) => Answered(x)'
                         /\ data[x] = "valid" => attempts'[x] = 0 /\ answers'[x].failed = 0
                         /\ answers'[x].ok <= attempts'[x] + 2
                         /\ answers'[x].failed <= attempts'[x] + 1
                         /\ FitsAt(x, HandAt(g))'
      BY <1>3, <1>5, <2>1, <2>2, <2>3 DEF Answered, FitsAt
    <3>5. \A l \in Locations : Waits(l)' => Waits(l)
      BY <2>2
    <3>6. ASSUME NEW h \in Goroutines, at'[h] \in {"retry", "commit"}
          PROVE  \/ at'[h] = at[h] /\ hand'[h] = hand[h] /\ HandAt(h) # HandAt(g)
                 \/ /\ at'[h] = "retry" => /\ data[Head(hand'[h])] = "invalid"
                                           /\ answers'[Head(hand'[h])].ok <= attempts'[Head(hand'[h])]
                                           /\ answers'[Head(hand'[h])].failed + 1
                                                 <= attempts'[Head(hand'[h])]
                    /\ at'[h] = "commit" => \A x \in Elems(hand'[h]) : Answered(x)'
      <4>1. CASE h = g
        <5>1. Head(hand'[h]) = o /\ at'[h] = "retry"
          BY <4>1, <1>0, <2>1, <2>2
        <5> QED
          BY <5>1, <1>3, <1>5, <2>1, <2>3
      <4>2. CASE h # g
        BY <4>2, <2>1, <2>2, LocationsDiffer
      <4> QED
        BY <4>1, <4>2
    <3> QED
      BY <1>1, <1>2, <3>1, <3>2, <3>3, <3>4, <3>5, <3>6, Tried
  <2> QED
    BY <1>4, <2>4, <2>5, <2>6, <2>7 DEF PInv
<1>6. CASE ~(data[o] = "invalid" /\ attempts[o] < MaxRetries)
  <2> DEFINE how == Outcome(o)
  <2>1. Answer(o, how) /\ Continue(g) /\ UNCHANGED attempts
    BY <1>0, <1>6 DEF ProcessSave
  <2>2. Reported(o, how)
    <3>1. how \in {"ok", "failed"}
      BY DEF Outcome
    <3> HIDE DEF how
    <3> QED
      BY <1>1, <1>2, <2>1, <3>1, Reporting
  <2>3. GoneOn(g)
    BY <1>1, <2>1, GoingOn
  <2>4. TypeOK'
    BY <1>1, <2>1, <2>2, <2>3 DEF TypeOK, Reported, GoneOn, control
  <2>5. EachOnce' /\ HandsFit'
    <3>1. \A h \in Goroutines : Distinct(hand'[h])
      BY <1>1, <2>3 DEF EachOnce, GoneOn, FirstTaken
    <3> QED
      BY <3>1, <1>1, <2>3 DEF EachOnce, GoneOn
  <2>6. OperationsFit'
    <3>1. Content(HandAt(g))' = Content(HandAt(g)) \ {o} /\ {o} \in SUBSET Content(HandAt(g))
      BY <1>0, <1>2, <2>3, Contents, ContentsAfter DEF ContentsAre, GoneOn, FirstTaken
    <3>2. \A l \in Locations : l # HandAt(g) => Content(l)' = Content(l)
      BY <1>1, <2>3, OthersStay DEF GoneOn
    <3>3. Finished(o)
      BY <1>3, <2>1, <2>2 DEF Finished, Reported, Outcome
    <3>4. \A x \in Ops \ {o} : answers'[x] = answers[x]
      BY <2>2 DEF Reported
    <3>5. \A x \in {o} \cap Ops : Finished(x)
      BY <3>3
    <3>6. \A h \in Goroutines : at'[h] \in {"retry", "commit"} => at'[h] = at[h] /\ hand'[h] = hand[h]
      BY <2>3 DEF GoneOn
    <3>7. \A l \in Locations : Waits(l)' => Waits(l)
      BY <2>3 DEF GoneOn
    <3> QED
      BY <1>1, <1>2, <2>1, <3>1, <3>2, <3>4, <3>5, <3>6, <3>7, LetGoFrom
  <2> QED
    BY <1>4, <2>4, <2>5, <2>6 DEF PInv
<1> QED
  BY <1>5, <1>6

LEMMA RetryStep == ASSUME PInv, NEW g \in Goroutines, Retry(g) PROVE PInv'
<1>0. PICK o : o = Head(hand[g])
  OBVIOUS
<1>1. /\ TypeOK /\ EachOnce /\ HandsFit /\ DeletionWaits /\ Kept /\ CountsFit /\ PlacesFit /\ RetriesFit
      /\ at[g] = "retry" /\ Continue(g) /\ Answer(o, "failed")
      /\ saveQueue' = IF Len(saveQueue) < QueueSize THEN Append(saveQueue, o) ELSE saveQueue
      /\ UNCHANGED <<callers, attempts, deleteQueue, updateQueue, batchSaveQueue,
                     pendingBatch, leaving, cached, control>>
      /\ UNCHANGED <<data, lastCall, starts>>
  BY <1>0 DEF PInv, OperationsFit, Retry, callers, control
<1>2. GoneOn(g) /\ hand[g] # <<>> /\ o \in Ops
  BY <1>0, <1>1, GoingOn
<1>3. HandAt(g) \in Locations /\ o \in Content(HandAt(g)) /\ o \in SaveOps
  <2>1. HandAt(g) \in Locations /\ o \in Content(HandAt(g))
    BY <1>0, <1>2, HeadIsHeld, LocationsAre
  <2> QED
    BY <1>0, <2>1, <1>2 DEF GoneOn, FirstTaken
<1>4. Reported(o, "failed")
  BY <1>1, <1>2, Reporting
<1>5. /\ answers[o].ok <= attempts[o] /\ answers[o].failed + 1 <= attempts[o]
      /\ Accepted(o) /\ data[o] = "invalid"
      /\ attempts[o] \in Nat /\ answers[o].ok \in Nat /\ answers[o].failed \in Nat
  BY <1>0, <1>1, <1>2, Numbers DEF RetriesFit, Accepted
<1>6. DeletionWaits'
  BY <1>1 DEF DeletionWaits, Accepted
<1>7. Content(HandAt(g))' = Content(HandAt(g)) \ {o} /\ {o} \in SUBSET Content(HandAt(g))
  BY <1>0, <1>2, <1>3, Contents, ContentsAfter DEF ContentsAre, GoneOn, FirstTaken
<1>8. \A h \in Goroutines : Distinct(hand'[h])
  BY <1>1, <1>2 DEF EachOnce, GoneOn, FirstTaken
<1>9. \A x \in Ops \ {o} : answers'[x] = answers[x]
  BY <1>4 DEF Reported
<1>10. \A l \in Locations : Waits(l)' => Waits(l)
  BY <1>2 DEF GoneOn
<1>11. CASE Len(saveQueue) < QueueSize
  <2>1. saveQueue' = Append(saveQueue, o)
    BY <1>1, <1>11
  <2>2. SaveAt \in Locations /\ HandAt(g) # SaveAt
    BY LocationsAre, LocationsDiffer
  <2>3. o \notin Elems(saveQueue)
    <3>1. o \notin Content(SaveAt)
      BY <1>3, <2>2, OnlyHere
    <3> QED
      BY <3>1, Contents DEF ContentsAre
  <2>4. OneAppended(saveQueue', saveQueue, o, SaveOps)
    BY <1>1, <1>3, <2>1, <2>3, AppendElems DEF TypeOK, EachOnce
  <2>5. TypeOK'
    <3>1. Len(saveQueue') <= QueueSize /\ saveQueue' \in Seq(SaveOps)
      BY <1>11, <2>4, PersistenceAssumption DEF OneAppended
    <3> QED
      BY <3>1, <1>1, <1>2, <1>4 DEF TypeOK, Reported, GoneOn, control
  <2>6. EachOnce' /\ HandsFit'
    BY <1>1, <1>2, <1>8, <2>4 DEF EachOnce, GoneOn, OneAppended
  <2>7. OperationsFit'
    <3>1. Content(SaveAt)' = Content(SaveAt) \cup {o}
      BY <2>4, Contents, ContentsAfter DEF ContentsAre, OneAppended
    <3>2. \A l \in Locations : l # HandAt(g) /\ l # SaveAt => Content(l)' = Content(l)
      BY <1>1, <1>2, OthersStay DEF GoneOn
    <3>3. \A x \in Ops \ {o} : answers'[x] = answers[x] /\ attempts'[x] = attempts[x]
      BY <1>1, <1>9
    <3>4. \A x \in {o} : /\ Answered(x) => Answered(x)'
                         /\ data[x] = "valid" => attempts'[x] = 0 /\ answers'[x].failed = 0
                         /\ answers'[x].ok <= attempts'[x] + 2
                         /\ answers'[x].failed <= attempts'[x] + 1
                         /\ FitsAt(x, SaveAt)'
      <4>1. /\ answers'[o].ok = answers[o].ok /\ answers'[o].failed = answers[o].failed + 1
            /\ Answered(o)' /\ attempts'[o] = attempts[o]
        BY <1>1, <1>4, <1>5 DEF Reported
      <4>2. FitsAt(o, SaveAt)'
        BY <4>1, <1>5 DEF FitsAt
      <4> QED
        BY <4>1, <4>2, <1>5
    <3>5. ASSUME NEW h \in Goroutines, at'[h] \in {"retry", "commit"}
          PROVE  at'[h] = at[h] /\ hand'[h] = hand[h] /\ HandAt(h) # HandAt(g)
      BY <1>2, <3>5, LocationsDiffer DEF GoneOn
    <3> QED
      BY <1>1, <1>3, <1>7, <1>10, <2>2, <3>1, <3>2, <3>3, <3>4, <3>5, Tried
  <2> QED
    BY <1>6, <2>5, <2>6, <2>7 DEF PInv
<1>12. CASE ~(Len(saveQueue) < QueueSize)
  <2>1. saveQueue' = saveQueue
    BY <1>1, <1>12
  <2>2. TypeOK'
    BY <1>1, <1>2, <1>4, <2>1 DEF TypeOK, Reported, GoneOn, control
  <2>3. EachOnce' /\ HandsFit'
    BY <1>1, <1>2, <1>8, <2>1 DEF EachOnce, GoneOn
  <2>4. OperationsFit'
    <3>1. \A l \in Locations : l # HandAt(g) => Content(l)' = Content(l)
      BY <1>1, <1>2, <2>1, OthersStay DEF GoneOn
    <3>2. Finished(o)
      BY <1>4, <1>5 DEF Finished, Reported
    <3>3. \A x \in {o} \cap Ops : Finished(x)
      BY <3>2
    <3>4. \A h \in Goroutines : at'[h] \in {"retry", "commit"} => at'[h] = at[h] /\ hand'[h] = hand[h]
      BY <1>2 DEF GoneOn
    <3> QED
      BY <1>1, <1>3, <1>7, <1>9, <1>10, <3>1, <3>3, <3>4, LetGoFrom
  <2> QED
    BY <1>6, <2>2, <2>3, <2>4 DEF PInv
<1> QED
  BY <1>11, <1>12

-----------------------------------------------------------------------------
(***************************************************************************)
(* The batch processors.                                                   *)
(***************************************************************************)
\* A goroutine at its select gets something to do, or nothing.
HandsAfter(b, batch, place) ==
    /\ hand' \in [Goroutines -> Seq(SaveOps)] /\ hand'[b] = batch
    /\ at' \in [Goroutines -> Places] /\ at'[b] = place
    /\ \A g \in Goroutines : g # b => hand'[g] = hand[g] /\ at'[g] = at[g]
    /\ HandsFit'
    /\ Content(HandAt(b)) = {}
    /\ \A l \in Locations : Waits(l)' => Waits(l) \/ Content(l) = {}
    /\ \A g \in Goroutines : at'[g] \in {"retry", "commit"} => at'[g] = at[g] /\ hand'[g] = hand[g]
    /\ \A g \in Goroutines : Distinct(hand'[g])

LEMMA HandFilled ==
    ASSUME PInv, NEW b \in Goroutines, at[b] = "select",
           NEW batch \in Seq(SaveOps), Distinct(batch),
           NEW place \in {"exited", "begin"}, place = "begin" <=> batch # <<>>,
           hand' = [hand EXCEPT ![b] = batch], at' = [at EXCEPT ![b] = place],
           starts' = starts
    PROVE  HandsAfter(b, batch, place)
<1>1. TypeOK /\ EachOnce /\ HandsFit /\ hand[b] = <<>>
  BY DEF PInv, HandsFit
<1>2. /\ hand' \in [Goroutines -> Seq(SaveOps)] /\ hand'[b] = batch
      /\ \A g \in Goroutines : g # b => hand'[g] = hand[g]
  BY <1>1 DEF TypeOK
<1>3. /\ at' \in [Goroutines -> Places] /\ at'[b] = place
      /\ \A g \in Goroutines : g # b => at'[g] = at[g]
      /\ \A l \in Locations : l # HandAt(b) => (Waits(l)' <=> Waits(l))
  BY OneGoesOn DEF Places
<1>4. HandsFit'
  <2> SUFFICES ASSUME NEW g \in Goroutines
               PROVE  /\ at'[g] \in {"none", "select", "exited"} <=> hand'[g] = <<>>
                      /\ g[1] > starts => at'[g] = "none"
    BY DEF HandsFit
  <2>1. CASE g = b
    BY <2>1, <1>1, <1>2, <1>3 DEF HandsFit
  <2>2. CASE g # b
    BY <2>2, <1>1, <1>2, <1>3 DEF HandsFit
  <2> QED
    BY <2>1, <2>2
<1>5. Content(HandAt(b)) = {}
  BY <1>1, EmptyElems, Contents DEF ContentsAre
<1>6. \A l \in Locations : Waits(l)' => Waits(l) \/ Content(l) = {}
  BY <1>3, <1>5
<1>7. \A g \in Goroutines : at'[g] \in {"retry", "commit"} => at'[g] = at[g] /\ hand'[g] = hand[g]
  BY <1>2, <1>3
<1>8. \A g \in Goroutines : Distinct(hand'[g])
  BY <1>1, <1>2 DEF EachOnce
<1> QED
  BY <1>2, <1>3, <1>4, <1>5, <1>6, <1>7, <1>8 DEF HandsAfter

\* The batch that is collected is taken in hand.
LEMMA PendingTaken ==
    ASSUME PInv, NEW b \in Processors, at[b] = "select",
           hand' = [hand EXCEPT ![b] = pendingBatch[b]],
           pendingBatch' = [pendingBatch EXCEPT ![b] = <<>>],
           NEW place \in {"exited", "begin"}, place = "begin" <=> pendingBatch[b] # <<>>,
           at' = [at EXCEPT ![b] = place],
           leaving' \subseteq Processors,
           UNCHANGED <<callers, attempts, answers, queues, cached, control>>
    PROVE  PInv'
<1>0. PICK batch : batch = pendingBatch[b]
  OBVIOUS
<1>1. /\ TypeOK /\ EachOnce /\ DeletionWaits /\ b \in Goroutines
      /\ UNCHANGED <<data, lastCall, starts, saveQueue, deleteQueue, updateQueue, batchSaveQueue>>
  BY DEF PInv, Goroutines, callers, control, queues
<1>2. batch \in Seq(SaveOps) /\ Distinct(batch)
  BY <1>0, <1>1 DEF TypeOK, EachOnce
<1>3. HandsAfter(b, batch, place)
  BY <1>0, <1>1, <1>2, HandFilled
<1>4. /\ pendingBatch' \in [Processors -> Seq(SaveOps)] /\ pendingBatch'[b] = <<>>
      /\ \A c \in Processors : c # b => pendingBatch'[c] = pendingBatch[c]
  <2>1. <<>> \in Seq(SaveOps)
    OBVIOUS
  <2> QED
    BY <2>1, <1>1 DEF TypeOK
<1>5. TypeOK'
  BY <1>1, <1>3, <1>4 DEF TypeOK, HandsAfter, control
<1>6. EachOnce' /\ HandsFit'
  BY <1>1, <1>3, <1>4, EmptyElems DEF EachOnce, HandsAfter
<1>7. OperationsFit'
  <2> DEFINE M == Elems(batch)
  <2>1. HandAt(b) \in Locations /\ PendingAt(b) \in Locations /\ HandAt(b) # PendingAt(b)
    BY <1>1, LocationsAre, LocationsDiffer
  <2>2. Content(PendingAt(b))' = Content(PendingAt(b)) \ M /\ M \in SUBSET Content(PendingAt(b))
    BY <1>0, <1>4, EmptyElems, Contents, ContentsAfter DEF ContentsAre
  <2>3. Content(HandAt(b))' = Content(HandAt(b)) \cup M
    BY <1>1, <1>3, Contents, ContentsAfter DEF ContentsAre, HandsAfter
  <2>4. \A l \in Locations : l # PendingAt(b) /\ l # HandAt(b) => Content(l)' = Content(l)
    BY <1>1, <1>3, <1>4, OthersStay DEF HandsAfter
  <2>5. Waits(PendingAt(b))
    BY DEF Waits, PendingAt
  <2>6. /\ \A l \in Locations : Waits(l)' => Waits(l) \/ Content(l) = {}
        /\ \A g \in Goroutines : at'[g] \in {"retry", "commit"} => at'[g] = at[g] /\ hand'[g] = hand[g]
    BY <1>3 DEF HandsAfter
  <2> HIDE DEF M
  <2> QED
    BY <1>1, <2>1, <2>2, <2>3, <2>4, <2>5, <2>6, MovedFromTo
<1>8. DeletionWaits'
  BY <1>1 DEF DeletionWaits, Accepted
<1> QED
  BY <1>5, <1>6, <1>7, <1>8 DEF PInv

LEMMA BatchTimeoutStep == ASSUME PInv, NEW b \in Goroutines, BatchTimeout(b) PROVE PInv'
<1>1. "begin" = "begin" <=> pendingBatch[b] # <<>>
  BY DEF BatchTimeout
<1>2. leaving' \subseteq Processors
  BY DEF BatchTimeout, PInv, TypeOK
<1> QED
  BY <1>1, <1>2, PendingTaken DEF BatchTimeout

LEMMA ExitProcessorStep == ASSUME PInv, NEW b \in Goroutines, ExitProcessor(b) PROVE PInv'
<1>0. PICK place : place = IF pendingBatch[b] = <<>> THEN "exited" ELSE "begin"
  OBVIOUS
<1>1. place \in {"exited", "begin"} /\ (place = "begin" <=> pendingBatch[b] # <<>>)
  BY <1>0
<1>2. leaving' \subseteq Processors
  BY DEF ExitProcessor, PInv, TypeOK
<1>3. at' = [at EXCEPT ![b] = place]
  BY <1>0 DEF ExitProcessor
<1> QED
  BY <1>1, <1>2, <1>3, PendingTaken DEF ExitProcessor

LEMMA TakeBatchStep == ASSUME PInv, NEW b \in Goroutines, TakeBatch(b) PROVE PInv'
<1>0. PICK batch : batch = Head(batchSaveQueue)
  OBVIOUS
<1>1. /\ TypeOK /\ EachOnce /\ DeletionWaits
      /\ at[b] = "select" /\ batchSaveQueue # <<>>
      /\ hand' = [hand EXCEPT ![b] = batch]
      /\ batchSaveQueue' = Tail(batchSaveQueue)
      /\ at' = [at EXCEPT ![b] = "begin"]
      /\ UNCHANGED <<callers, attempts, answers, saveQueue, deleteQueue, updateQueue,
                     pendingBatch, leaving, cached, control>>
      /\ UNCHANGED <<data, lastCall, starts>>
  BY <1>0 DEF PInv, TakeBatch, callers, control
<1>2. FirstBatchTaken(batchSaveQueue', batchSaveQueue, SaveOps)
  BY <1>1, BatchTaken DEF TypeOK, EachOnce
<1>3. batch \in Seq(SaveOps) /\ Distinct(batch) /\ batch # <<>>
  BY <1>0, <1>2 DEF FirstBatchTaken
<1>4. HandsAfter(b, batch, "begin")
  <2>1. "begin" \in {"exited", "begin"} /\ ("begin" = "begin" <=> batch # <<>>)
    BY <1>3
  <2> QED
    BY <2>1, <1>1, <1>3, HandFilled
<1>5. TypeOK'
  BY <1>1, <1>2, <1>4 DEF TypeOK, HandsAfter, FirstBatchTaken, control
<1>6. EachOnce' /\ HandsFit'
  BY <1>1, <1>2, <1>4 DEF EachOnce, HandsAfter, FirstBatchTaken
<1>7. OperationsFit'
  <2> DEFINE M == Elems(batch)
  <2>1. HandAt(b) \in Locations /\ BatchAt \in Locations /\ HandAt(b) # BatchAt
    BY LocationsAre, LocationsDiffer
  <2>2. Content(BatchAt)' = Content(BatchAt) \ M /\ M \in SUBSET Content(BatchAt)
    BY <1>0, <1>2, Contents, ContentsAfter DEF ContentsAre, FirstBatchTaken
  <2>3. Content(HandAt(b))' = Content(HandAt(b)) \cup M
    BY <1>4, Contents, ContentsAfter DEF ContentsAre, HandsAfter
  <2>4. \A l \in Locations : l # BatchAt /\ l # HandAt(b) => Content(l)' = Content(l)
    BY <1>1, <1>4, OthersStay DEF HandsAfter
  <2>5. Waits(BatchAt)
    BY DEF Waits, BatchAt
  <2>6. /\ \A l \in Locations : Waits(l)' => Waits(l) \/ Content(l) = {}
        /\ \A g \in Goroutines : at'[g] \in {"retry", "commit"} => at'[g] = at[g] /\ hand'[g] = hand[g]
    BY <1>4 DEF HandsAfter
  <2> HIDE DEF M
  <2> QED
    BY <1>1, <2>1, <2>2, <2>3, <2>4, <2>5, <2>6, MovedFromTo
<1>8. DeletionWaits'
  BY <1>1 DEF DeletionWaits, Accepted
<1> QED
  BY <1>5, <1>6, <1>7, <1>8 DEF PInv

LEMMA CollectStep == ASSUME PInv, NEW b \in Goroutines, Collect(b) PROVE PInv'
<1>0. PICK h, batch : h = Head(saveQueue) /\ batch = Append(pendingBatch[b], Head(saveQueue))
  OBVIOUS
<1>1. /\ TypeOK /\ EachOnce /\ HandsFit /\ DeletionWaits
      /\ b \in Processors /\ at[b] = "select" /\ saveQueue # <<>>
      /\ IF Len(batch) >= BatchSize
         THEN /\ hand' = [hand EXCEPT ![b] = batch]
              /\ pendingBatch' = [pendingBatch EXCEPT ![b] = <<>>]
              /\ at' = [at EXCEPT ![b] = "begin"]
         ELSE /\ pendingBatch' = [pendingBatch EXCEPT ![b] = batch]
              /\ UNCHANGED <<hand, at>>
      /\ saveQueue' = Tail(saveQueue)
      /\ UNCHANGED <<callers, attempts, answers, deleteQueue, updateQueue,
                     batchSaveQueue, leaving, cached, control>>
      /\ UNCHANGED <<data, lastCall, starts>>
  BY <1>0 DEF PInv, Collect, callers, control
<1>2. FirstTaken(saveQueue', saveQueue, SaveOps)
  BY <1>1, TailElems DEF TypeOK, EachOnce
<1>3. /\ SaveAt \in Locations /\ PendingAt(b) \in Locations /\ HandAt(b) \in Locations
      /\ SaveAt # PendingAt(b) /\ HandAt(b) # PendingAt(b) /\ HandAt(b) # SaveAt
      /\ Waits(PendingAt(b)) /\ Waits(PendingAt(b))' /\ Waits(SaveAt)
  BY <1>1, LocationsAre, LocationsDiffer DEF Waits, SaveAt, PendingAt
<1>4. /\ h \in Content(SaveAt) /\ h \in SaveOps
      /\ Content(SaveAt)' = Content(SaveAt) \ {h}
  BY <1>0, <1>2, Contents, ContentsAfter DEF ContentsAre, FirstTaken
<1>5. \A l \in Locations : l # SaveAt => h \notin Content(l)
  BY <1>3, <1>4, OnlyHere
<1>6. OneAppended(batch, pendingBatch[b], h, SaveOps)
  <2>1. h \notin Elems(pendingBatch[b])
    BY <1>1, <1>3, <1>5, Contents DEF ContentsAre
  <2> QED
    BY <2>1, <1>0, <1>1, <1>4, AppendElems DEF TypeOK, EachOnce
<1>7. DeletionWaits'
  BY <1>1 DEF DeletionWaits, Accepted
<1>8. Len(saveQueue') <= QueueSize /\ saveQueue' \in Seq(SaveOps)
  BY <1>1, <1>2, PersistenceAssumption DEF FirstTaken, TypeOK
<1>9. CASE Len(batch) >= BatchSize
  <2>1. /\ pendingBatch' \in [Processors -> Seq(SaveOps)] /\ pendingBatch'[b] = <<>>
        /\ \A c \in Processors : c # b => pendingBatch'[c] = pendingBatch[c]
    <3>1. <<>> \in Seq(SaveOps)
      OBVIOUS
    <3> QED
      BY <3>1, <1>1, <1>9 DEF TypeOK
  <2>2. HandsAfter(b, batch, "begin")
    <3>1. batch \in Seq(SaveOps) /\ Distinct(batch) /\ batch # <<>>
      BY <1>6, EmptyElems DEF OneAppended
    <3>2. "begin" \in {"exited", "begin"} /\ ("begin" = "begin" <=> batch # <<>>)
      BY <3>1
    <3> QED
      BY <3>1, <3>2, <1>1, <1>9, HandFilled
  <2>3. TypeOK'
    BY <1>1, <1>8, <2>1, <2>2 DEF TypeOK, HandsAfter, control
  <2>4. EachOnce' /\ HandsFit'
    BY <1>1, <1>2, <2>1, <2>2, EmptyElems DEF EachOnce, HandsAfter, FirstTaken
  <2>5. OperationsFit'
    <3> DEFINE M == Elems(batch)
    <3>1. M = Content(PendingAt(b)) \cup {h}
      BY <1>1, <1>6, Contents DEF OneAppended, ContentsAre
    <3>2. Content(PendingAt(b))' = {}
      BY <1>1, <2>1, EmptyElems, ContentsAfter DEF ContentsAre
    <3>3. \A l \in Locations : l # SaveAt /\ l # PendingAt(b) /\ l # HandAt(b)
                                 => Content(l)' = Content(l)
      BY <1>1, <2>1, <2>2, OthersStay DEF HandsAfter
    <3>4. Content(HandAt(b))' = Content(HandAt(b)) \cup M
      BY <2>2, Contents, ContentsAfter DEF ContentsAre, HandsAfter
    <3> HIDE DEF M
    <3>5. ASSUME NEW l \in Locations, l # HandAt(b) PROVE Content(l)' = Content(l) \ M
      <4>1. l # PendingAt(b) => \A o \in Content(PendingAt(b)) : o \notin Content(l)
        BY <1>3, OnlyHere
      <4>2. CASE l = SaveAt
        <5>1. Content(l)' = Content(l) \ {h} /\ l # PendingAt(b)
          BY <4>2, <1>3, <1>4
        <5> QED
          BY <5>1, <3>1, <4>1
      <4>3. CASE l = PendingAt(b)
        BY <4>3, <3>1, <3>2
      <4>4. CASE l # SaveAt /\ l # PendingAt(b)
        <5>1. Content(l)' = Content(l) /\ h \notin Content(l)
          BY <4>4, <3>5, <3>3, <1>5
        <5> QED
          BY <5>1, <4>1, <4>4, <3>1
      <4> QED
        BY <4>2, <4>3, <4>4
    <3>6. \A o \in M : \E m \in Locations : o \in Content(m) /\ (Waits(HandAt(b))' => Waits(m))
      BY <3>1, <1>3, <1>4
    <3>7. /\ \A l \in Locations : Waits(l)' => Waits(l) \/ Content(l) = {}
          /\ \A g \in Goroutines : at'[g] \in {"retry", "commit"} => at'[g] = at[g] /\ hand'[g] = hand[g]
      BY <2>2 DEF HandsAfter
    <3> QED
      BY <1>1, <1>3, <3>4, <3>5, <3>6, <3>7, MovedOn
  <2> QED
    BY <1>7, <2>3, <2>4, <2>5 DEF PInv
<1>10. CASE ~(Len(batch) >= BatchSize)
  <2>1. /\ pendingBatch' \in [Processors -> Seq(SaveOps)] /\ pendingBatch'[b] = batch
        /\ \A c \in Processors : c # b => pendingBatch'[c] = pendingBatch[c]
    BY <1>1, <1>6, <1>10 DEF TypeOK, OneAppended
  <2>2. UNCHANGED <<hand, at>>
    BY <1>1, <1>10
  <2>3. TypeOK'
    BY <1>1, <1>8, <2>1, <2>2 DEF TypeOK, control
  <2>4. EachOnce' /\ HandsFit'
    BY <1>1, <1>2, <1>6, <2>1, <2>2 DEF EachOnce, HandsFit, FirstTaken, OneAppended
  <2>5. OperationsFit'
    <3>1. Content(PendingAt(b))' = Content(PendingAt(b)) \cup {h}
      BY <1>1, <1>6, <2>1, Contents, ContentsAfter DEF ContentsAre, OneAppended
    <3>2. \A l \in Locations : l # SaveAt /\ l # PendingAt(b) => Content(l)' = Content(l)
      BY <1>1, <2>1, <2>2, OthersStay
    <3>3. \A l \in Locations : Waits(l)' => Waits(l)
      BY <2>2 DEF Waits
    <3>4. {h} \in SUBSET Content(SaveAt)
      BY <1>4
    <3> QED
      BY <1>1, <1>3, <1>4, <2>2, <3>1, <3>2, <3>3, <3>4, MovedFromTo
  <2> QED
    BY <1>7, <2>3, <2>4, <2>5 DEF PInv
<1> QED
  BY <1>9, <1>10

LEMMA BeginStep == ASSUME PInv, NEW b \in Goroutines, Begin(b) PROVE PInv'
<1>0. PICK M : M = Elems(hand[b])
  OBVIOUS
<1>1. /\ TypeOK /\ EachOnce /\ HandsFit /\ DeletionWaits /\ Kept /\ CountsFit /\ PlacesFit
      /\ at[b] = "begin" /\ hand[b] \in Seq(SaveOps)
      /\ at' = [at EXCEPT ![b] = "commit"]
      /\ UNCHANGED <<callers, attempts, queues, hand, pendingBatch, leaving, cached, control>>
      /\ UNCHANGED <<data, lastCall, starts, saveQueue, deleteQueue, updateQueue, batchSaveQueue>>
  BY DEF PInv, OperationsFit, Begin, TypeOK, callers, control, queues
<1>2. answers' = [o \in Ops |-> IF o \in M THEN [answers[o] EXCEPT !.ok = @ + 1] ELSE answers[o]]
  <2>1. ToSet(hand[b]) = M
    BY <1>0, <1>1, ToSetIsElems
  <2> QED
    BY <2>1 DEF Begin
<1>3. /\ HandAt(b) \in Locations /\ Content(HandAt(b)) = M /\ M \subseteq Ops
  BY <1>0, <1>1, Contents, LocationsAre, ContentsType DEF ContentsAre
<1>4. /\ at' \in [Goroutines -> Places] /\ at'[b] = "commit"
      /\ \A h \in Goroutines : h # b => at'[h] = at[h]
      /\ \A l \in Locations : l # HandAt(b) => (Waits(l)' <=> Waits(l))
      /\ ~Waits(HandAt(b))'
  BY <1>1, OneGoesOn DEF Places
<1>5. ASSUME NEW o \in M
      PROVE  /\ answers'[o] \in [ok : Nat, failed : Nat]
             /\ answers'[o].ok = answers[o].ok + 1 /\ answers'[o].failed = answers[o].failed
             /\ attempts[o] \in Nat /\ answers[o].ok \in Nat /\ answers[o].failed \in Nat
  <2>1. answers[o] \in [ok : Nat, failed : Nat] /\ attempts[o] \in Nat /\ o \in Ops
    BY <1>1, <1>3, Numbers DEF TypeOK
  <2>2. answers'[o] = [answers[o] EXCEPT !.ok = @ + 1]
    BY <2>1, <1>2
  <2> QED
    BY <2>1, <2>2
<1>6. \A o \in Ops \ M : answers'[o] = answers[o]
  BY <1>2
<1>7. answers' \in [Ops -> [ok : Nat, failed : Nat]]
  <2>1. \A o \in Ops : answers'[o] \in [ok : Nat, failed : Nat]
    BY <1>1, <1>5, <1>6 DEF TypeOK
  <2>2. DOMAIN answers' = Ops /\ answers' = [o \in Ops |-> answers'[o]]
    BY <1>2
  <2> QED
    BY <2>1, <2>2
<1>8. ASSUME NEW o \in M
      PROVE  /\ Answered(o)'
             /\ data[o] = "valid" => attempts'[o] = 0 /\ answers'[o].failed = 0
             /\ answers'[o].ok <= attempts'[o] + 2
             /\ answers'[o].failed <= attempts'[o] + 1
             /\ FitsAt(o, HandAt(b))'
  <2>1. Waits(HandAt(b))
    BY <1>1 DEF Waits, HandAt
  <2>2. /\ answers[o].ok <= attempts[o] /\ answers[o].failed <= attempts[o]
        /\ data[o] = "valid" => attempts[o] = 0 /\ answers[o].failed = 0
    BY <2>1, <1>1, <1>3 DEF PlacesFit, FitsAt, CountsFit
  <2>3. attempts' = attempts
    BY <1>1
  <2>4. FitsAt(o, HandAt(b))'
    BY <2>2, <2>3, <1>4, <1>5 DEF FitsAt
  <2> QED
    BY <2>2, <2>3, <2>4, <1>5 DEF Answered
<1>9. TypeOK'
  BY <1>1, <1>4, <1>7 DEF TypeOK, control
<1>10. EachOnce'
  BY <1>1 DEF EachOnce
<1>11. HandsFit'
  BY <1>1, <1>4 DEF HandsFit
<1>12. OperationsFit'
  <2>1. \A l \in Locations : Content(l)' = Content(l)
    BY <1>1, OthersStay
  <2>2. Content(HandAt(b))' = Content(HandAt(b)) \cup M /\ M \in SUBSET Content(HandAt(b))
    BY <2>1, <1>3
  <2>3. \A o \in Ops \ M : answers'[o] = answers[o] /\ attempts'[o] = attempts[o]
    BY <1>1, <1>6
  <2>4. \A l \in Locations : Waits(l)' => Waits(l)
    BY <1>4
  <2>5. ASSUME NEW h \in Goroutines, at'[h] \in {"retry", "commit"}
        PROVE  \/ at'[h] = at[h] /\ hand'[h] = hand[h] /\ HandAt(h) # HandAt(b)
               \/ /\ at'[h] = "retry" => /\ data[Head(hand'[h])] = "invalid"
                                         /\ answers'[Head(hand'[h])].ok <= attempts'[Head(hand'[h])]
                                         /\ answers'[Head(hand'[h])].failed + 1
                                               <= attempts'[Head(hand'[h])]
                  /\ at'[h] = "commit" => \A o \in Elems(hand'[h]) : Answered(o)'
    <3>1. CASE h = b
      <4>1. at'[h] = "commit" /\ Elems(hand'[h]) = M
        BY <3>1, <1>0, <1>1, <1>4
      <4> QED
        BY <4>1, <1>8
    <3>2. CASE h # b
      BY <3>2, <1>1, <1>4, LocationsDiffer
    <3> QED
      BY <3>1, <3>2
  <2> QED
    BY <1>1, <1>3, <1>8, <2>1, <2>2, <2>3, <2>4, <2>5, Tried
<1>13. DeletionWaits'
  BY <1>1 DEF DeletionWaits, Accepted
<1> QED
  BY <1>9, <1>10, <1>11, <1>12, <1>13 DEF PInv

LEMMA CommitStep == ASSUME PInv, NEW b \in Goroutines, Commit(b) PROVE PInv'
<1>0. PICK M, place : M = Elems(hand[b]) /\ place = IF b \in leaving THEN "exited" ELSE "select"
  OBVIOUS
<1>1. /\ TypeOK /\ EachOnce /\ HandsFit /\ DeletionWaits /\ Kept /\ CountsFit /\ CommitsFit
      /\ at[b] = "commit"
      /\ hand' = [hand EXCEPT ![b] = <<>>]
      /\ at' = [at EXCEPT ![b] = place]
      /\ UNCHANGED <<callers, attempts, answers, queues, pendingBatch, leaving, cached, control>>
      /\ UNCHANGED <<data, lastCall, starts, saveQueue, deleteQueue, updateQueue, batchSaveQueue>>
  BY <1>0 DEF PInv, OperationsFit, Commit, callers, control, queues
<1>2. /\ hand' \in [Goroutines -> Seq(SaveOps)] /\ hand'[b] = <<>>
      /\ \A h \in Goroutines : h # b => hand'[h] = hand[h]
  <2>1. <<>> \in Seq(SaveOps)
    OBVIOUS
  <2> QED
    BY <2>1, <1>1 DEF TypeOK
<1>3. /\ at' \in [Goroutines -> Places] /\ at'[b] \in {"exited", "select"}
      /\ \A h \in Goroutines : h # b => at'[h] = at[h]
      /\ \A l \in Locations : l # HandAt(b) => (Waits(l)' <=> Waits(l))
      /\ ~Waits(HandAt(b))'
  <2>1. place \in {"exited", "select"} /\ place \in Places /\ place # "begin"
    BY <1>0 DEF Places
  <2> QED
    BY <2>1, <1>1, OneGoesOn
<1>4. TypeOK'
  BY <1>1, <1>2, <1>3 DEF TypeOK, control
<1>5. EachOnce'
  <2>1. \A h \in Goroutines : Distinct(hand'[h])
    BY <1>1, <1>2, EmptyElems DEF EachOnce
  <2> QED
    BY <2>1, <1>1 DEF EachOnce
<1>6. HandsFit'
  BY <1>1, <1>2, <1>3 DEF HandsFit
<1>7. OperationsFit'
  <2>1. HandAt(b) \in Locations /\ Content(HandAt(b)) = M /\ Content(HandAt(b))' = {}
    BY <1>0, <1>2, EmptyElems, Contents, ContentsAfter, LocationsAre DEF ContentsAre
  <2>2. Content(HandAt(b))' = Content(HandAt(b)) \ M /\ M \in SUBSET Content(HandAt(b))
    BY <2>1
  <2>3. \A l \in Locations : l # HandAt(b) => Content(l)' = Content(l)
    BY <1>1, <1>2, OthersStay
  <2>4. ASSUME NEW o \in M \cap Ops PROVE Finished(o)
    <3>1. Answered(o) /\ Held(o)
      BY <1>0, <1>1, <2>1 DEF CommitsFit, Held
    <3>2. Accepted(o) /\ Answered(o)'
      BY <3>1, <1>1 DEF Kept, Answered
    <3> QED
      BY <3>2, <1>1 DEF Finished, CountsFit
  <2>5. \A o \in Ops \ M : answers'[o] = answers[o]
    BY <1>1
  <2>6. \A l \in Locations : Waits(l)' => Waits(l)
    BY <1>3
  <2>7. \A h \in Goroutines : at'[h] \in {"retry", "commit"} => at'[h] = at[h] /\ hand'[h] = hand[h]
    BY <1>2, <1>3
  <2> QED
    BY <1>1, <2>1, <2>2, <2>3, <2>4, <2>5, <2>6, <2>7, LetGoFrom
<1>8. DeletionWaits'
  BY <1>1 DEF DeletionWaits, Accepted
<1> QED
  BY <1>4, <1>5, <1>6, <1>7, <1>8 DEF PInv

LEMMA FailTransactionStep == ASSUME PInv, NEW b \in Goroutines, FailTransaction(b) PROVE PInv'
<1>1. /\ TypeOK /\ HandsFit /\ DeletionWaits
      /\ at[b] \in {"begin", "commit"}
      /\ at' = [at EXCEPT ![b] = "save"]
      /\ UNCHANGED <<callers, attempts, answers, queues, hand, pendingBatch, leaving, cached, control>>
      /\ UNCHANGED <<data, lastCall, starts, deleteQueue>>
  BY DEF PInv, FailTransaction, callers, control, queues
<1>2. /\ at' \in [Goroutines -> Places] /\ at'[b] = "save"
      /\ \A h \in Goroutines : h # b => at'[h] = at[h]
  BY <1>1, OneGoesOn DEF Places
<1>3. TypeOK'
  BY <1>1, <1>2 DEF TypeOK, control, queues
<1>4. HandsFit'
  BY <1>1, <1>2 DEF HandsFit
<1>5. OperationsFit' /\ EachOnce'
  BY <1>1, <1>2, NothingMoves
<1>6. DeletionWaits'
  BY <1>1 DEF DeletionWaits, Accepted
<1> QED
  BY <1>3, <1>4, <1>5, <1>6 DEF PInv

LEMMA ExitWorkerStep == ASSUME PInv, NEW w \in Goroutines, ExitWorker(w) PROVE PInv'
<1>1. /\ TypeOK /\ HandsFit /\ DeletionWaits
      /\ at[w] = "select"
      /\ at' = [at EXCEPT ![w] = "exited"]
      /\ UNCHANGED <<callers, attempts, answers, queues, hand, pendingBatch, leaving, cached, control>>
      /\ UNCHANGED <<data, lastCall, starts, deleteQueue>>
  BY DEF PInv, ExitWorker, callers, control, queues
<1>2. /\ at' \in [Goroutines -> Places] /\ at'[w] = "exited"
      /\ \A h \in Goroutines : h # w => at'[h] = at[h]
  BY <1>1, OneGoesOn DEF Places
<1>3. TypeOK'
  BY <1>1, <1>2 DEF TypeOK, control, queues
<1>4. HandsFit'
  BY <1>1, <1>2 DEF HandsFit
<1>5. OperationsFit' /\ EachOnce'
  BY <1>1, <1>2, NothingMoves
<1>6. DeletionWaits'
  BY <1>1 DEF DeletionWaits, Accepted
<1> QED
  BY <1>3, <1>4, <1>5, <1>6 DEF PInv

-----------------------------------------------------------------------------
(***************************************************************************)
(* Start, Stop, and the invariant.                                         *)
(***************************************************************************)
LEMMA StartStep == ASSUME PInv, Start PROVE PInv'
<1>1. /\ TypeOK /\ HandsFit /\ DeletionWaits
      /\ running' = TRUE /\ starts' = starts + 1 /\ starts < MaxStarts
      /\ at' = [g \in Goroutines |-> IF g[1] = starts + 1 /\ (g \in Workers \/ enableBatching)
                                     THEN "select" ELSE at[g]]
      /\ UNCHANGED <<callers, attempts, answers, queues, hand, pendingBatch, leaving,
                     cached, closed, panicked, enableBatching>>
      /\ UNCHANGED <<data, lastCall, deleteQueue>>
  BY DEF PInv, Start, callers, queues
<1>2. starts \in Nat /\ starts' \in 0..MaxStarts /\ \A g \in Goroutines : g[1] \in Nat
  BY <1>1, PersistenceAssumption DEF TypeOK, Goroutines, Workers, Processors, Starts
<1>3. \A g \in Goroutines : \/ at'[g] = at[g] /\ g[1] # starts + 1
                            \/ at'[g] \in {"select", at[g]} /\ g[1] = starts + 1
  BY <1>1
<1>4. TypeOK'
  <2>1. at' \in [Goroutines -> Places]
    BY <1>1 DEF TypeOK, Places
  <2> QED
    BY <1>1, <1>2, <2>1 DEF TypeOK, queues
<1>5. HandsFit'
  <2> SUFFICES ASSUME NEW g \in Goroutines
               PROVE  /\ at'[g] \in {"none", "select", "exited"} <=> hand[g] = <<>>
                      /\ g[1] > starts + 1 => at'[g] = "none"
    BY <1>1 DEF HandsFit
  <2>1. CASE g[1] = starts + 1
    <3>1. at[g] = "none" /\ hand[g] = <<>>
      BY <2>1, <1>1, <1>2 DEF HandsFit
    <3>2. at'[g] \in {"none", "select"}
      BY <2>1, <1>3, <3>1
    <3> QED
      BY <2>1, <3>1, <3>2, <1>2
  <2>2. CASE g[1] # starts + 1
    BY <2>2, <1>1, <1>2, <1>3 DEF HandsFit
  <2> QED
    BY <2>1, <2>2
<1>6. OperationsFit' /\ EachOnce'
  <2>1. \A g \in Goroutines : at'[g] \in {"retry", "commit", "begin"} => at'[g] = at[g]
    BY <1>3
  <2> QED
    BY <1>1, <2>1, NothingMoves
<1>7. DeletionWaits'
  BY <1>1 DEF DeletionWaits, Accepted
<1> QED
  BY <1>4, <1>5, <1>6, <1>7 DEF PInv

LEMMA StopStep == ASSUME PInv, Stop PROVE PInv'
<1>1. /\ TypeOK /\ HandsFit /\ DeletionWaits
      /\ running' = FALSE /\ panicked' = closed /\ closed' = TRUE
      /\ UNCHANGED <<callers, attempts, answers, queues, at, hand,
                     pendingBatch, leaving, cached, starts, enableBatching>>
      /\ UNCHANGED <<data, lastCall, deleteQueue>>
  BY DEF PInv, Stop, callers, queues
<1>2. TypeOK'
  BY <1>1 DEF TypeOK, queues
<1>3. HandsFit'
  BY <1>1 DEF HandsFit
<1>4. OperationsFit' /\ EachOnce'
  BY <1>1, NothingMoves
<1>5. DeletionWaits'
  BY <1>1 DEF DeletionWaits, Accepted
<1> QED
  BY <1>2, <1>3, <1>4, <1>5 DEF PInv

LEMMA InitEstablishes == Init => PInv
<1> SUFFICES ASSUME Init PROVE PInv
  OBVIOUS
<1>1. \A l \in Locations : Content(l) = {}
  <2>1. \A g \in Goroutines : Content(HandAt(g)) = {}
    BY EmptyElems, Contents DEF ContentsAre, Init
  <2>2. \A b \in Processors : Content(PendingAt(b)) = {}
    BY EmptyElems, Contents DEF ContentsAre, Init
  <2>3. Content(SaveAt) = {} /\ Content(DeleteAt) = {} /\ Content(UpdateAt) = {}
    BY EmptyElems, Contents DEF ContentsAre, Init
  <2>4. Content(BatchAt) = {}
    <3>1. AllOf(<<>>) = {}
      BY DEF AllOf
    <3> QED
      BY <3>1, Contents DEF ContentsAre, Init
  <2> QED
    BY <2>1, <2>2, <2>3, <2>4, LocationKinds
<1>2. \A o \in Ops : ~Held(o) /\ ~Accepted(o) /\ ~Answered(o)
  BY <1>1 DEF Held, Accepted, Answered, Init
<1>3. TypeOK
  <2>1. <<>> \in Seq(SaveOps) /\ <<>> \in Seq(DeleteOps) /\ <<>> \in Seq(UpdateOps)
        /\ <<>> \in Seq(Seq(SaveOps)) /\ Len(<<>>) = 0
    OBVIOUS
  <2>2. QueueSize \in Nat /\ MaxRetries \in Nat /\ MaxStarts \in Nat
    BY PersistenceAssumption
  <2>3. /\ data \in [Ops -> {"new", "valid", "invalid"}]
        /\ attempts \in [Ops -> 0..MaxRetries]
        /\ answers \in [Ops -> [ok : Nat, failed : Nat]]
    <3>1. [ok |-> 0, failed |-> 0] \in [ok : Nat, failed : Nat] /\ 0 \in 0..MaxRetries
      BY <2>2
    <3>2. data \in [Ops -> {"new", "valid", "invalid"}]
      BY DEF Init
    <3>3. attempts \in [Ops -> 0..MaxRetries]
      BY <3>1 DEF Init
    <3>4. answers \in [Ops -> [ok : Nat, failed : Nat]]
      BY <3>1, Zenon DEF Init
    <3> QED
      BY <3>2, <3>3, <3>4
  <2>4. /\ saveQueue \in Seq(SaveOps) /\ Len(saveQueue) <= QueueSize
        /\ deleteQueue \in Seq(DeleteOps) /\ updateQueue \in Seq(UpdateOps)
        /\ batchSaveQueue \in Seq(Seq(SaveOps))
    BY <2>1, <2>2 DEF Init
  <2>5. /\ at \in [Goroutines -> Places]
        /\ hand \in [Goroutines -> Seq(SaveOps)]
        /\ pendingBatch \in [Processors -> Seq(SaveOps)]
    BY <2>1 DEF Init, Places
  <2>6. /\ leaving \subseteq Processors
        /\ {cached, running, closed, panicked, enableBatching} \subseteq BOOLEAN
        /\ lastCall \in {"none", "save", "delete", "update"}
        /\ starts \in 0..MaxStarts
    <3>1. {cached, running, closed, panicked, enableBatching} \subseteq BOOLEAN
      BY Zenon DEF Init
    <3>2. leaving \subseteq Processors /\ lastCall \in {"none", "save", "delete", "update"}
      BY DEF Init
    <3>3. starts \in 0..MaxStarts
      BY <2>2 DEF Init
    <3> QED
      BY <3>1, <3>2, <3>3
  <2> QED
    BY <2>3, <2>4, <2>5, <2>6 DEF TypeOK
<1>4. EachOnce
  BY EmptyElems DEF EachOnce, Init, Apart
<1>5. HandsFit
  BY DEF HandsFit, Init
<1>6. OnePlace /\ Kept /\ PlacesFit
  BY <1>1, <1>2 DEF OnePlace, Kept, PlacesFit
<1>7. CountsFit
  BY DEF CountsFit, Init
<1>8. RetriesFit /\ CommitsFit
  BY DEF RetriesFit, CommitsFit, Init
<1>9. DeletionWaits
  BY DEF DeletionWaits, Init
<1> QED
  BY <1>3, <1>4, <1>5, <1>6, <1>7, <1>8, <1>9 DEF PInv, OperationsFit

LEMMA NextPreserves == ASSUME PInv, [Next]_vars PROVE PInv'
<1>1. CASE Start
  BY <1>1, StartStep
<1>2. CASE Stop
  BY <1>2, StopStep
<1>3. CASE Submit
  <2>1. ASSUME NEW o \in SaveOps, NEW d \in {"valid", "invalid"}, SaveAsync(o, d, FALSE) PROVE PInv'
    BY <2>1, SaveAsyncStep
  <2>2. ASSUME NEW o \in SaveOps, SaveAsync(o, "valid", TRUE) PROVE PInv'
    BY <2>2, SaveAsyncStep
  <2>3. ASSUME NEW o \in DeleteOps, NEW d \in {"valid", "invalid"}, DeleteAsync(o, d) PROVE PInv'
    BY <2>3, DeleteAsyncStep
  <2>4. ASSUME NEW o \in UpdateOps, NEW d \in {"valid", "invalid"}, UpdateAsync(o, d) PROVE PInv'
    BY <2>4, UpdateAsyncStep
  <2>5. ASSUME NEW o1 \in SaveOps, NEW o2 \in SaveOps, NEW d \in {"valid", "invalid"},
               o1 # o2, BatchSave(<<o1, o2>>, d)
        PROVE  PInv'
    BY <2>5, BatchSaveStep
  <2> QED
    BY <1>3, <2>1, <2>2, <2>3, <2>4, <2>5 DEF Submit
<1>4. ASSUME NEW g \in Goroutines, Process(g) PROVE PInv'
  BY <1>4, ProcessSaveStep, RetryStep, BeginStep, CommitStep, FailTransactionStep DEF Process
<1>5. ASSUME NEW g \in Goroutines, Select(g) PROVE PInv'
  BY <1>5, TakeSaveStep, TakeDeleteStep, TakeUpdateStep, ExitWorkerStep, CollectStep,
     TakeBatchStep, BatchTimeoutStep, ExitProcessorStep DEF Select
<1>6. CASE UNCHANGED vars
  <2>1. /\ TypeOK /\ HandsFit /\ DeletionWaits
        /\ UNCHANGED <<data, lastCall, attempts, answers, queues, deleteQueue, at, hand,
                       pendingBatch, leaving, cached, control, starts>>
    BY <1>6 DEF PInv, vars, callers, queues, control
  <2>2. TypeOK'
    BY <2>1 DEF TypeOK, queues, control
  <2>3. HandsFit'
    BY <2>1 DEF HandsFit
  <2>4. OperationsFit' /\ EachOnce'
    BY <2>1, NothingMoves
  <2>5. DeletionWaits'
    BY <2>1 DEF DeletionWaits, Accepted
  <2> QED
    BY <2>2, <2>3, <2>4, <2>5 DEF PInv
<1> QED
  BY <1>1, <1>2, <1>3, <1>4, <1>5, <1>6 DEF Next

\* The holders of an operation, in the words of the property and of the invariant.
LEMMA HolderPlaces ==
    ASSUME PInv, NEW o \in Ops, NEW x \in Holders(o)
    PROVE  /\ Held(o)
           /\ \/ \E g \in Goroutines : x = <<"hand", g>> /\ o \in Content(HandAt(g))
              \/ \E b \in Processors : x = <<"pending", b>> /\ o \in Content(PendingAt(b))
              \/ \E i \in 1..Len(batchSaveQueue) : /\ x = <<"batch", i>> /\ o \in Content(BatchAt)
                                                   /\ o \in Elems(batchSaveQueue[i])
              \/ \E i \in 1..Len(saveQueue) : /\ x = <<"save", i>> /\ o \in Content(SaveAt)
                                              /\ saveQueue[i] = o
              \/ \E i \in 1..Len(deleteQueue) : /\ x = <<"delete", i>> /\ o \in Content(DeleteAt)
                                                /\ deleteQueue[i] = o
              \/ \E i \in 1..Len(updateQueue) : /\ x = <<"update", i>> /\ o \in Content(UpdateAt)
                                                /\ updateQueue[i] = o
<1>1. TypeOK
  BY DEF PInv
<1>2. ASSUME NEW g \in Goroutines, o \in ToSet(hand[g]), x = <<"hand", g>>
      PROVE  o \in Content(HandAt(g)) /\ Held(o)
  <2>1. o \in Elems(hand[g])
    BY <1>1, <1>2, ToSetIsElems DEF TypeOK
  <2> QED
    BY <2>1, Contents, LocationsAre DEF ContentsAre, Held
<1>3. ASSUME NEW b \in Processors, o \in ToSet(pendingBatch[b]), x = <<"pending", b>>
      PROVE  o \in Content(PendingAt(b)) /\ Held(o)
  <2>1. o \in Elems(pendingBatch[b])
    BY <1>1, <1>3, ToSetIsElems DEF TypeOK
  <2> QED
    BY <2>1, Contents, LocationsAre DEF ContentsAre, Held
<1>4. ASSUME NEW i \in DOMAIN batchSaveQueue, o \in ToSet(batchSaveQueue[i])
      PROVE  /\ i \in 1..Len(batchSaveQueue) /\ o \in Content(BatchAt)
             /\ o \in Elems(batchSaveQueue[i]) /\ Held(o)
  <2>1. i \in 1..Len(batchSaveQueue) /\ batchSaveQueue[i] \in Seq(SaveOps)
    BY <1>1, <1>4 DEF TypeOK
  <2>2. o \in Elems(batchSaveQueue[i])
    BY <2>1, <1>4, ToSetIsElems
  <2>3. o \in AllOf(batchSaveQueue)
    BY <2>1, <2>2 DEF AllOf
  <2> QED
    BY <2>1, <2>2, <2>3, Contents, LocationsAre DEF ContentsAre, Held
<1>5. ASSUME NEW i \in Positions(o, saveQueue)
      PROVE  i \in 1..Len(saveQueue) /\ saveQueue[i] = o /\ o \in Content(SaveAt) /\ Held(o)
  <2>1. i \in 1..Len(saveQueue) /\ saveQueue[i] = o
    BY <1>1, <1>5 DEF Positions, TypeOK
  <2>2. o \in Elems(saveQueue)
    BY <2>1 DEF Elems
  <2> QED
    BY <2>1, <2>2, Contents, LocationsAre DEF ContentsAre, Held
<1>6. ASSUME NEW i \in Positions(o, deleteQueue)
      PROVE  i \in 1..Len(deleteQueue) /\ deleteQueue[i] = o /\ o \in Content(DeleteAt) /\ Held(o)
  <2>1. i \in 1..Len(deleteQueue) /\ deleteQueue[i] = o
    BY <1>1, <1>6 DEF Positions, TypeOK
  <2>2. o \in Elems(deleteQueue)
    BY <2>1 DEF Elems
  <2> QED
    BY <2>1, <2>2, Contents, LocationsAre DEF ContentsAre, Held
<1>7. ASSUME NEW i \in Positions(o, updateQueue)
      PROVE  i \in 1..Len(updateQueue) /\ updateQueue[i] = o /\ o \in Content(UpdateAt) /\ Held(o)
  <2>1. i \in 1..Len(updateQueue) /\ updateQueue[i] = o
    BY <1>1, <1>7 DEF Positions, TypeOK
  <2>2. o \in Elems(updateQueue)
    BY <2>1 DEF Elems
  <2> QED
    BY <2>1, <2>2, Contents, LocationsAre DEF ContentsAre, Held
<1> QED
  BY <1>2, <1>3, <1>4, <1>5, <1>6, <1>7, Zenon DEF Holders

\* An operation has one holder at most.
LEMMA OneHolder ==
    ASSUME PInv, NEW o \in Ops, NEW x \in Holders(o), NEW y \in Holders(o) PROVE x = y
<1>1. /\ \A p, q \in Locations : o \in Content(p) /\ o \in Content(q) => p = q
      /\ Distinct(saveQueue) /\ Distinct(deleteQueue) /\ Distinct(updateQueue) /\ Apart(batchSaveQueue)
  BY DEF PInv, OperationsFit, OnePlace, EachOnce
<1>2. \A p \in Locations : o \in Content(p) => \A q \in Locations : o \in Content(q) => p = q
  BY <1>1
<1> DEFINE InHand(z) == \E g \in Goroutines : z = <<"hand", g>> /\ o \in Content(HandAt(g))
           InPending(z) == \E b \in Processors : z = <<"pending", b>> /\ o \in Content(PendingAt(b))
           InBatch(z) == \E i \in 1..Len(batchSaveQueue) :
                             z = <<"batch", i>> /\ o \in Content(BatchAt) /\ o \in Elems(batchSaveQueue[i])
           InQueue(z, name, l, queue) ==
               \E i \in 1..Len(queue) : z = <<name, i>> /\ o \in Content(l) /\ queue[i] = o
           Somewhere(z) == \/ InHand(z) \/ InPending(z) \/ InBatch(z)
                           \/ InQueue(z, "save", SaveAt, saveQueue)
                           \/ InQueue(z, "delete", DeleteAt, deleteQueue)
                           \/ InQueue(z, "update", UpdateAt, updateQueue)
<1>3. Somewhere(x)
  BY HolderPlaces
<1>4. Somewhere(y)
  BY HolderPlaces
<1>5. ASSUME NEW z \in {x, y}
      PROVE  \E l \in Locations :
                /\ o \in Content(l)
                /\ \/ \E g \in Goroutines : l = HandAt(g) /\ z = <<"hand", g>>
                   \/ \E b \in Processors : l = PendingAt(b) /\ z = <<"pending", b>>
                   \/ l = BatchAt /\ InBatch(z)
                   \/ l = SaveAt /\ InQueue(z, "save", SaveAt, saveQueue)
                   \/ l = DeleteAt /\ InQueue(z, "delete", DeleteAt, deleteQueue)
                   \/ l = UpdateAt /\ InQueue(z, "update", UpdateAt, updateQueue)
  <2>1. Somewhere(z)
    BY <1>3, <1>4, <1>5
  <2>2. CASE InHand(z)
    BY <2>2, LocationsAre
  <2>3. CASE InPending(z)
    BY <2>3, LocationsAre
  <2>4. CASE InBatch(z)
    BY <2>4, LocationsAre
  <2>5. CASE InQueue(z, "save", SaveAt, saveQueue)
    BY <2>5, LocationsAre
  <2>6. CASE InQueue(z, "delete", DeleteAt, deleteQueue)
    BY <2>6, LocationsAre
  <2>7. CASE InQueue(z, "update", UpdateAt, updateQueue)
    BY <2>7, LocationsAre
  <2> HIDE DEF InHand, InPending, InBatch, InQueue
  <2> QED
    BY <2>1, <2>2, <2>3, <2>4, <2>5, <2>6, <2>7
<1> DEFINE At(z, l) == \/ \E g \in Goroutines : l = HandAt(g) /\ z = <<"hand", g>>
                       \/ \E b \in Processors : l = PendingAt(b) /\ z = <<"pending", b>>
                       \/ l = BatchAt /\ InBatch(z)
                       \/ l = SaveAt /\ InQueue(z, "save", SaveAt, saveQueue)
                       \/ l = DeleteAt /\ InQueue(z, "delete", DeleteAt, deleteQueue)
                       \/ l = UpdateAt /\ InQueue(z, "update", UpdateAt, updateQueue)
<1>6. PICK l \in Locations : o \in Content(l) /\ At(x, l)
  BY <1>5
<1>7. PICK m \in Locations : o \in Content(m) /\ At(y, m)
  BY <1>5
<1>8. l = m
  BY <1>2, <1>6, <1>7
<1>9. CASE \E g \in Goroutines : l = HandAt(g)
  <2>1. PICK g \in Goroutines : l = HandAt(g)
    BY <1>9
  <2>2. \A z : At(z, HandAt(g)) => z = <<"hand", g>>
    BY LocationsDiffer
  <2> HIDE DEF At
  <2> QED
    BY <2>1, <2>2, <1>6, <1>7, <1>8
<1>10. CASE \E b \in Processors : l = PendingAt(b)
  <2>1. PICK b \in Processors : l = PendingAt(b)
    BY <1>10
  <2>2. \A z : At(z, PendingAt(b)) => z = <<"pending", b>>
    BY LocationsDiffer
  <2> HIDE DEF At
  <2> QED
    BY <2>1, <2>2, <1>6, <1>7, <1>8
<1>11. CASE l = BatchAt
  <2>1. \A z : At(z, BatchAt) => InBatch(z)
    BY LocationsDiffer DEF SaveAt, DeleteAt, UpdateAt, BatchAt
  <2>2. InBatch(x) /\ InBatch(y)
    <3> HIDE DEF At, InBatch
    <3> QED
      BY <2>1, <1>6, <1>7, <1>8, <1>11
  <2>3. PICK i \in 1..Len(batchSaveQueue) : x = <<"batch", i>> /\ o \in Elems(batchSaveQueue[i])
    BY <2>2
  <2>4. PICK j \in 1..Len(batchSaveQueue) : y = <<"batch", j>> /\ o \in Elems(batchSaveQueue[j])
    BY <2>2
  <2>5. i = j
    BY <2>3, <2>4, <1>1 DEF Apart
  <2> QED
    BY <2>3, <2>4, <2>5
<1>12. ASSUME NEW name, NEW queue, Distinct(queue),
              InQueue(x, name, l, queue), InQueue(y, name, l, queue)
       PROVE  x = y
  <2>1. PICK i \in 1..Len(queue) : x = <<name, i>> /\ queue[i] = o
    BY <1>12
  <2>2. PICK j \in 1..Len(queue) : y = <<name, j>> /\ queue[j] = o
    BY <1>12
  <2>3. i = j
    BY <2>1, <2>2, <1>12 DEF Distinct
  <2> QED
    BY <2>1, <2>2, <2>3
<1>13. CASE l = SaveAt
  <2>1. \A z : At(z, SaveAt) => InQueue(z, "save", SaveAt, saveQueue)
    BY LocationsDiffer DEF SaveAt, DeleteAt, UpdateAt, BatchAt
  <2> HIDE DEF At, InQueue
  <2>2. InQueue(x, "save", l, saveQueue) /\ InQueue(y, "save", l, saveQueue)
    BY <2>1, <1>6, <1>7, <1>8, <1>13
  <2> QED
    BY <2>2, <1>1, <1>12
<1>14. CASE l = DeleteAt
  <2>1. \A z : At(z, DeleteAt) => InQueue(z, "delete", DeleteAt, deleteQueue)
    BY LocationsDiffer DEF SaveAt, DeleteAt, UpdateAt, BatchAt
  <2> HIDE DEF At, InQueue
  <2>2. InQueue(x, "delete", l, deleteQueue) /\ InQueue(y, "delete", l, deleteQueue)
    BY <2>1, <1>6, <1>7, <1>8, <1>14
  <2> QED
    BY <2>2, <1>1, <1>12
<1>15. CASE l = UpdateAt
  <2>1. \A z : At(z, UpdateAt) => InQueue(z, "update", UpdateAt, updateQueue)
    BY LocationsDiffer DEF SaveAt, DeleteAt, UpdateAt, BatchAt
  <2> HIDE DEF At, InQueue
  <2>2. InQueue(x, "update", l, updateQueue) /\ InQueue(y, "update", l, updateQueue)
    BY <2>1, <1>6, <1>7, <1>8, <1>15
  <2> QED
    BY <2>2, <1>1, <1>12
<1> HIDE DEF At
<1> QED
  BY <1>9, <1>10, <1>11, <1>13, <1>14, <1>15, LocationKinds

\* Who is held has a holder.
LEMMA HeldHasHolder == ASSUME PInv, NEW o \in Ops, Held(o) PROVE Holders(o) # {}
<1>1. TypeOK
  BY DEF PInv
<1>2. PICK l \in Locations : o \in Content(l)
  BY DEF Held
<1>3. ASSUME NEW g \in Goroutines, l = HandAt(g) PROVE Holders(o) # {}
  <2>1. o \in ToSet(hand[g])
    BY <1>1, <1>2, <1>3, ToSetIsElems, Contents DEF ContentsAre, TypeOK
  <2>2. <<"hand", g>> \in Holders(o)
    BY <2>1, Zenon DEF Holders
  <2> QED
    BY <2>2
<1>4. ASSUME NEW b \in Processors, l = PendingAt(b) PROVE Holders(o) # {}
  <2>1. o \in ToSet(pendingBatch[b])
    BY <1>1, <1>2, <1>4, ToSetIsElems, Contents DEF ContentsAre, TypeOK
  <2>2. <<"pending", b>> \in Holders(o)
    BY <2>1, Zenon DEF Holders
  <2> QED
    BY <2>2
<1>5. CASE l = BatchAt
  <2>1. PICK i \in 1..Len(batchSaveQueue) : o \in Elems(batchSaveQueue[i])
    BY <1>2, <1>5, Contents DEF ContentsAre, AllOf
  <2>2. i \in DOMAIN batchSaveQueue /\ batchSaveQueue[i] \in Seq(SaveOps)
    BY <1>1 DEF TypeOK
  <2>3. o \in ToSet(batchSaveQueue[i])
    BY <2>1, <2>2, ToSetIsElems
  <2>4. <<"batch", i>> \in Holders(o)
    BY <2>2, <2>3, Zenon DEF Holders
  <2> QED
    BY <2>4
<1>6. CASE l = SaveAt
  <2>1. PICK i \in 1..Len(saveQueue) : saveQueue[i] = o
    BY <1>2, <1>6, Contents DEF ContentsAre, Elems
  <2>2. i \in Positions(o, saveQueue)
    BY <1>1, <2>1 DEF Positions, TypeOK
  <2>3. <<"save", i>> \in Holders(o)
    BY <2>2, Zenon DEF Holders
  <2> QED
    BY <2>3
<1>7. CASE l = DeleteAt
  <2>1. PICK i \in 1..Len(deleteQueue) : deleteQueue[i] = o
    BY <1>2, <1>7, Contents DEF ContentsAre, Elems
  <2>2. i \in Positions(o, deleteQueue)
    BY <1>1, <2>1 DEF Positions, TypeOK
  <2>3. <<"delete", i>> \in Holders(o)
    BY <2>2, Zenon DEF Holders
  <2> QED
    BY <2>3
<1>8. CASE l = UpdateAt
  <2>1. PICK i \in 1..Len(updateQueue) : updateQueue[i] = o
    BY <1>2, <1>8, Contents DEF ContentsAre, Elems
  <2>2. i \in Positions(o, updateQueue)
    BY <1>1, <2>1 DEF Positions, TypeOK
  <2>3. <<"update", i>> \in Holders(o)
    BY <2>2, Zenon DEF Holders
  <2> QED
    BY <2>3
<1> QED
  BY <1>3, <1>4, <1>5, <1>6, <1>7, <1>8, LocationKinds

LEMMA InvariantImplies == PInv => OperationsAreKept
<1> SUFFICES ASSUME PInv PROVE OperationsAreKept
  OBVIOUS
<1>1. /\ TypeOK /\ Kept /\ CountsFit /\ DeletionWaits
      /\ \A o \in Ops : attempts[o] \in Nat /\ attempts[o] <= MaxRetries
      /\ MaxRetries \in Nat /\ SaveOps \subseteq Ops /\ DeleteOps \subseteq Ops
  BY Numbers, PersistenceAssumption DEF PInv, OperationsFit, Ops
<1>2. Conserved
  <2>1. ASSUME NEW o \in Ops PROVE Cardinality(Holders(o)) <= 1
    <3>1. CASE Holders(o) = {}
      BY <3>1, FS_EmptySet
    <3>2. CASE Holders(o) # {}
      <4>1. PICK x : x \in Holders(o)
        BY <3>2
      <4>2. Holders(o) = {x}
        BY <4>1, OneHolder
      <4> QED
        BY <4>2, FS_Singleton
    <3> QED
      BY <3>1, <3>2
  <2>2. ASSUME NEW o \in Ops, ~Accepted(o) PROVE Holders(o) = {} /\ ~Answered(o)
    BY <2>2, <1>1, HolderPlaces DEF Kept
  <2>3. ASSUME NEW o \in Ops, Accepted(o), ~Answered(o) PROVE Holders(o) # {}
    BY <2>3, <1>1, HeldHasHolder DEF Kept
  <2> QED
    BY <1>1, <2>1, <2>2, <2>3 DEF Conserved
<1>3. CallbacksBounded
  <2> SUFFICES ASSUME NEW o \in Ops
               PROVE  /\ data[o] = "valid" => answers[o].failed = 0 /\ answers[o].ok <= 2
                      /\ answers[o].failed <= MaxRetries + 1
                      /\ answers[o].ok <= MaxRetries + 2
    BY DEF CallbacksBounded
  <2>1. o \in Ops /\ answers[o].ok \in Nat /\ answers[o].failed \in Nat
    BY <1>1, Numbers
  <2> QED
    BY <2>1, <1>1 DEF CountsFit
<1>4. DeletedLeavesCache
  <2> SUFFICES ASSUME Quiet, lastCall = "delete", \A o \in UpdateOps : ~Accepted(o), cached
               PROVE  FALSE
    BY DEF DeletedLeavesCache
  <2>3. PICK o \in DeleteOps : o \in Elems(deleteQueue)
    BY <1>1 DEF DeletionWaits
  <2>4. o \in Ops /\ Held(o)
    BY <2>3, <1>1, Contents, LocationsAre DEF ContentsAre, Held
  <2>5. Accepted(o) /\ Holders(o) # {}
    BY <2>4, <1>1, HeldHasHolder DEF Kept
  <2> QED
    BY <2>4, <2>5 DEF Quiet
<1> QED
  BY <1>2, <1>3, <1>4 DEF OperationsAreKept

\* Whatever the workers, the batch processors, retries, failed transactions,
\* shutdown and restarts do, and in whatever order: an accepted operation is in
\* one queue, batch or hand until its callback has been made and never in two;
\* its callbacks are no more and no others than its attempts explain; and a
\* conversation deleted last leaves the cache.
THEOREM AcceptedOperationsAreKept == Spec => []OperationsAreKept
<1>1. Init => PInv
  BY InitEstablishes
<1>2. PInv /\ [Next]_vars => PInv'
  BY NextPreserves
<1>3. PInv => OperationsAreKept
  BY InvariantImplies
<1> QED
  BY <1>1, <1>2, <1>3, PTL DEF Spec
=============================================================================
