---------------------------- MODULE Security_proofs ----------------------------
(***************************************************************************)
(* Proofs about the security layer.  The rate limiter and the policy       *)
(* engine over it: a limit is passed by no more requests than there are     *)
(* other callers, backoffs and windows are kept, and an invalid request is  *)
(* blocked; that a call visits different keys is what the counting of the   *)
(* callers rests on.  Confirmation, sandbox and shell: a confirmed command  *)
(* runs on its own line, the sandbox accounts for its runs and watchers,    *)
(* and the shell returns all of its output.  The auditor keeps its events    *)
(* and the engine over it sees them.  The parts share no variable, so that  *)
(* each has an inductive invariant of its own.                              *)
(***************************************************************************)
EXTENDS Security, SequenceTheorems, FiniteSetTheorems, TLAPS

(***************************************************************************)
(* The rate limiter: its entries.                                          *)
(***************************************************************************)
IsLimit(cfg) ==
    /\ cfg.strategy \in Strategies
    /\ {cfg.window, cfg.max, cfg.burst, cfg.refill} \subseteq Nat \ {0}
    /\ {cfg.multiplier, cfg.maxBackoff} \subseteq Nat

EntryState == [count : Nat, start : Int, last : Nat, window : SUBSET (Nat \X Nat),
               violations : Nat, until : Nat, tokens : Nat, refill : Nat]

\* The count of a sliding window is the number of its requests.
IsEntry(e, cfg) ==
    /\ e \in EntryState
    /\ cfg.strategy = "sliding_window" => IsFiniteSet(e.window) /\ e.count = Cardinality(e.window)

\* The least of two numbers.
LEMMA MinOfTwo == \A a, b \in Nat : Min({a, b}) \in Nat
  BY DEF Min

\* The greatest of two numbers.
LEMMA MaxOfTwo == \A a \in Int, b \in Nat : Max({a, b}) \in Nat /\ (a <= b => Max({a, b}) = b)
                                            /\ (b <= a => Max({a, b}) = a)
<1> SUFFICES ASSUME NEW a \in Int, NEW b \in Nat
             PROVE  /\ Max({a, b}) \in Nat
                    /\ a <= b => Max({a, b}) = b
                    /\ b <= a => Max({a, b}) = a
  OBVIOUS
<1>1. \E x \in {a, b} : \A y \in {a, b} : x >= y
  OBVIOUS
<1>2. Max({a, b}) \in {a, b} /\ \A y \in {a, b} : Max({a, b}) >= y
  BY <1>1 DEF Max
<1> QED
  BY <1>2

\* A new entry is one of its strategy, with no request counted and no backoff.
LEMMA NewEntryType ==
    ASSUME NEW cfg, IsLimit(cfg), NEW at \in Nat
    PROVE  /\ IsEntry(NewEntry(cfg, at), cfg)
           /\ NewEntry(cfg, at).count = 0
           /\ NewEntry(cfg, at).until = 0
<1>1. cfg.burst \in Nat
  BY DEF IsLimit
<1>2. NewEntry(cfg, at) \in EntryState /\ NewEntry(cfg, at).window = {} /\ NewEntry(cfg, at).count = 0
        /\ NewEntry(cfg, at).until = 0
  BY <1>1 DEF NewEntry, EntryState
<1> QED
  BY <1>2, FS_EmptySet DEF IsEntry

\* Bringing an entry up to date never counts more requests nor ends a backoff,
\* and clears a fixed window only for a later one.
LEMMA RefreshedType ==
    ASSUME NEW cfg, IsLimit(cfg), NEW at \in Nat, NEW e, IsEntry(e, cfg)
    PROVE  LET f == Refreshed(e, cfg, at)
           IN /\ IsEntry(f, cfg)
              /\ f.count <= e.count /\ f.until = e.until /\ f.violations = e.violations
              /\ cfg.strategy = "fixed_window" /\ f.count < e.count => f.start > e.start
<1> USE DEF IsEntry
<1>0. e \in EntryState
  OBVIOUS
<1>a. /\ e.count \in Nat /\ e.start \in Int /\ e.refill \in Nat /\ e.tokens \in Nat
      /\ e.last \in Nat /\ e.until \in Nat /\ e.violations \in Nat
      /\ e.window \subseteq Nat \X Nat
  BY <1>0 DEF EntryState
<1>b. cfg.strategy \in Strategies /\ {cfg.window, cfg.refill} \subseteq Nat \ {0} /\ cfg.burst \in Nat
  BY DEF IsLimit
<1> DEFINE f == Refreshed(e, cfg, at)
<1>1. CASE cfg.strategy = "fixed_window"
  <2>1. f = CheckFixedWindow(e, cfg, at)
    BY <1>1 DEF Refreshed
  <2> DEFINE start == at - (at % cfg.window)
  <2>2. start \in Int
    <3>1. at % cfg.window \in 0..(cfg.window - 1)
      BY <1>b
    <3> QED
      BY <3>1
  <2>3. f = IF start > e.start THEN [e EXCEPT !.start = start, !.count = 0] ELSE e
    BY <2>1 DEF CheckFixedWindow
  <2> HIDE DEF start, f
  <2>4. CASE start > e.start
    <3>1. /\ f \in EntryState /\ f.count = 0 /\ f.start = start
          /\ f.until = e.until /\ f.violations = e.violations
      BY <1>0, <2>2, <2>3, <2>4 DEF EntryState
    <3> QED
      BY <1>1, <1>a, <2>4, <3>1 DEF f
  <2>5. CASE ~ (start > e.start)
    BY <1>1, <1>a, <2>3, <2>5 DEF f
  <2> QED
    BY <2>4, <2>5
<1>2. CASE cfg.strategy = "sliding_window"
  <2> DEFINE valid == {r \in e.window : r[1] > at - cfg.window}
  <2>1. f = [e EXCEPT !.window = valid, !.count = Cardinality(valid)]
    BY <1>2 DEF Refreshed, CheckSlidingWindow
  <2>2. valid \subseteq e.window
    OBVIOUS
  <2> HIDE DEF valid
  <2>3. /\ IsFiniteSet(valid) /\ Cardinality(valid) <= Cardinality(e.window)
        /\ Cardinality(valid) \in Nat
    BY <1>2, <2>2, FS_Subset, FS_CardinalityType
  <2> HIDE DEF f
  <2>4. /\ f \in EntryState /\ f.count = Cardinality(valid) /\ f.window = valid
        /\ f.until = e.until /\ f.violations = e.violations
    BY <1>0, <1>a, <2>1, <2>2, <2>3 DEF EntryState
  <2> QED
    BY <1>2, <2>3, <2>4 DEF f
<1>3. CASE cfg.strategy = "token_bucket"
  <2> DEFINE added == (at - e.refill) \div cfg.refill
             tokens == Min({e.tokens + added, cfg.burst})
  <2>1. f = IF added > 0 THEN [e EXCEPT !.tokens = tokens, !.refill = at] ELSE e
    BY <1>3 DEF Refreshed, CheckTokenBucket
  <2>2. added \in Int
    BY <1>a, <1>b
  <2>3. added > 0 => tokens \in Nat
    <3> HIDE DEF added
    <3> QED
      BY <1>a, <1>b, <2>2, MinOfTwo
  <2> HIDE DEF added, tokens, f
  <2>4. /\ f \in EntryState /\ f.count = e.count /\ f.until = e.until
        /\ f.violations = e.violations
    BY <1>0, <2>1, <2>3 DEF EntryState
  <2> QED
    BY <1>3, <1>a, <2>4 DEF f
<1>4. CASE cfg.strategy = "leaky_bucket"
  <2> DEFINE leaked == (at - e.last) \div cfg.refill
             count == Max({e.count - leaked, 0})
  <2>1. f = IF leaked > 0 THEN [e EXCEPT !.count = count, !.last = at] ELSE e
    BY <1>4 DEF Refreshed, CheckLeakyBucket
  <2>2. leaked \in Int
    BY <1>a, <1>b
  <2>3. leaked > 0 => count \in Nat /\ count <= e.count
    <3> HIDE DEF leaked
    <3> DEFINE rest == e.count - leaked
    <3>1. leaked > 0 => rest \in Int /\ rest <= e.count
      BY <1>a, <2>2
    <3> HIDE DEF rest
    <3>2. rest \in Int => /\ Max({rest, 0}) \in Nat
                          /\ rest <= 0 => Max({rest, 0}) = 0
                          /\ 0 <= rest => Max({rest, 0}) = rest
      BY MaxOfTwo
    <3>3. leaked > 0 => Max({rest, 0}) \in Nat /\ Max({rest, 0}) <= e.count
      BY <1>a, <3>1, <3>2
    <3> QED
      BY <3>3 DEF rest
  <2> HIDE DEF leaked, count, f
  <2>4. /\ f \in EntryState /\ f.count <= e.count /\ f.until = e.until
        /\ f.violations = e.violations
    <3>1. CASE leaked > 0
      BY <1>0, <2>1, <2>3, <3>1 DEF EntryState
    <3>2. CASE ~ (leaked > 0)
      BY <1>0, <1>a, <2>1, <3>2
    <3> QED
      BY <3>1, <3>2
  <2> QED
    BY <1>4, <2>4 DEF f
<1> QED
  BY <1>1, <1>2, <1>3, <1>4, <1>b DEF Strategies

\* The length of a backoff is a number of seconds, however many violations there were.
LEMMA DurationType ==
    ASSUME NEW cfg, cfg.window \in Nat, cfg.multiplier \in Nat, NEW v \in Nat \ {0}
    PROVE  BackoffDuration(cfg, v) \in Nat
<1> DEFINE m == cfg.multiplier
           step(f) == [n \in 1..10 |-> (IF n = 1 THEN cfg.window ELSE f[n - 1]) * m]
           after == CHOOSE f : f = step(f)
<1>1. \E f : f = step(f)
  <2> DEFINE a1 == cfg.window * m
             a2 == a1 * m
             a3 == a2 * m
             a4 == a3 * m
             a5 == a4 * m
             a6 == a5 * m
             a7 == a6 * m
             a8 == a7 * m
             a9 == a8 * m
             f == [n \in 1..10 |->
                     (CASE n = 1 -> cfg.window [] n = 2 -> a1 [] n = 3 -> a2 [] n = 4 -> a3
                        [] n = 5 -> a4 [] n = 6 -> a5 [] n = 7 -> a6 [] n = 8 -> a7
                        [] n = 9 -> a8 [] n = 10 -> a9) * m]
  <2> HIDE DEF m
  <2>1. ASSUME NEW n \in 1..10
        PROVE  f[n] = (IF n = 1 THEN cfg.window ELSE f[n - 1]) * m
    OBVIOUS
  <2>2. f = step(f)
    BY SMTT(60), <2>1
  <2> QED
    BY ZenonT(60), <2>2
<1>2. after = step(after)
  BY <1>1
<1> HIDE DEF after
<1>3. \A n \in 1..10 : after[n] = (IF n = 1 THEN cfg.window ELSE after[n - 1]) * m
  BY <1>2
<1>4. \A n \in 1..10 : after[n] \in Nat
  <2> HIDE DEF m
  <2>0. \A x \in Nat : x * m \in Nat
    BY DEF m
  <2>1. after[1] \in Nat
    BY <1>3, <2>0
  <2>2. ASSUME NEW n \in 2..10, after[n-1] \in Nat PROVE after[n] \in Nat
    BY <1>3, <2>0, <2>2
  <2>3. after[2] \in Nat /\ after[3] \in Nat /\ after[4] \in Nat
    BY <2>1, <2>2
  <2>4. after[5] \in Nat /\ after[6] \in Nat /\ after[7] \in Nat
    BY <2>2, <2>3
  <2>5. after[8] \in Nat /\ after[9] \in Nat /\ after[10] \in Nat
    BY <2>2, <2>4
  <2> QED
    BY <2>1, <2>3, <2>4, <2>5
<1>5. BackoffDuration(cfg, v) = after[IF v < 10 THEN v ELSE 10]
  BY DEF BackoffDuration, after
<1> QED
  BY <1>4, <1>5

\* A backoff leaves the count and the window as they are.
LEMMA ApplyBackoffType ==
    ASSUME NEW cfg, IsLimit(cfg), NEW e, IsEntry(e, cfg), clock \in Nat
    PROVE  LET f == ApplyBackoff(e, cfg)
           IN IsEntry(f, cfg) /\ f.count = e.count /\ f.start = e.start
<1> DEFINE violations == e.violations + 1
           duration == BackoffDuration(cfg, violations)
           capped == IF cfg.maxBackoff > 0 THEN Min({duration, cfg.maxBackoff}) ELSE duration
           until == IF cfg.multiplier > 0 THEN clock + capped ELSE e.until
           f == ApplyBackoff(e, cfg)
<1>0. e \in EntryState /\ e.violations \in Nat /\ e.until \in Nat
  BY DEF IsEntry, EntryState
<1>1. cfg.window \in Nat /\ cfg.multiplier \in Nat /\ cfg.maxBackoff \in Nat
  BY DEF IsLimit
<1>2. f = [e EXCEPT !.violations = violations, !.until = until]
  BY DEF ApplyBackoff
<1>3. violations \in Nat \ {0}
  BY <1>0
<1> HIDE DEF violations
<1>4. duration \in Nat
  BY <1>1, <1>3, DurationType
<1> HIDE DEF duration
<1>5. capped \in Nat
  BY <1>1, <1>4, MinOfTwo
<1> HIDE DEF capped
<1>6. until \in Nat
  BY <1>0, <1>5
<1> HIDE DEF until, f
<1>7. /\ f \in EntryState /\ f.count = e.count /\ f.start = e.start /\ f.window = e.window
  BY <1>0, <1>2, <1>3, <1>6 DEF EntryState
<1> QED
  BY <1>7 DEF f, IsEntry

\* A check never counts a request: it allows one only below the limit, and in the
\* backoff it leaves the entry alone.
LEMMA CheckedType ==
    ASSUME NEW cfg, IsLimit(cfg), NEW at \in Nat, NEW e, IsEntry(e, cfg), clock \in Nat
    PROVE  LET f == Checked(e, cfg, at)
           IN /\ IsEntry(f.entry, cfg) /\ f.allowed \in BOOLEAN
              /\ f.entry.count <= e.count
              /\ f.allowed /\ cfg.strategy /= "token_bucket" => f.entry.count < cfg.max
              /\ at < e.until => f.entry = e
              /\ cfg.strategy = "fixed_window" /\ f.entry.count < e.count => f.entry.start > e.start
<1> DEFINE f == Checked(e, cfg, at)
           fresh == Refreshed(e, cfg, at)
           later == ApplyBackoff(fresh, cfg)
<1>1. e.count \in Nat
  BY DEF IsEntry, EntryState
<1>2. /\ IsEntry(fresh, cfg) /\ fresh.count <= e.count
      /\ cfg.strategy = "fixed_window" /\ fresh.count < e.count => fresh.start > e.start
  BY RefreshedType
<1>3. f = IF at < e.until
          THEN [entry |-> e, allowed |-> FALSE]
          ELSE IF HasRoom(fresh, cfg)
          THEN [entry |-> fresh, allowed |-> TRUE]
          ELSE [entry |-> later, allowed |-> FALSE]
  BY DEF Checked
<1> HIDE DEF fresh
<1>4. IsEntry(later, cfg) /\ later.count = fresh.count /\ later.start = fresh.start
  BY <1>2, ApplyBackoffType
<1> HIDE DEF f, later
<1>5. CASE at < e.until
  BY <1>1, <1>3, <1>5 DEF f
<1>6. CASE ~ (at < e.until) /\ HasRoom(fresh, cfg)
  BY <1>2, <1>3, <1>6 DEF f, HasRoom
<1>7. CASE ~ (at < e.until) /\ ~ HasRoom(fresh, cfg)
  BY <1>2, <1>3, <1>4, <1>7 DEF f
<1> QED
  BY <1>5, <1>6, <1>7

\* The window grows by exactly one request, also within one second.
LEMMA AppendedSize ==
    ASSUME NEW window \in SUBSET (Nat \X Nat), IsFiniteSet(window), clock \in Nat
    PROVE  /\ Appended(window) \in SUBSET (Nat \X Nat)
           /\ IsFiniteSet(Appended(window))
           /\ Cardinality(Appended(window)) = Cardinality(window) + 1
<1> DEFINE k == Cardinality(window)
           Free(n) == <<clock, n>> \notin window
           n == CHOOSE m \in 0..k : Free(m)
<1>1. k \in Nat
  BY FS_CardinalityType
<1>2. \E m \in 0..k : Free(m)
  <2> SUFFICES ASSUME \A m \in 0..k : <<clock, m>> \in window
               PROVE  FALSE
    OBVIOUS
  <2> DEFINE f == [m \in 0..k |-> <<clock, m>>]
  <2>1. f \in Injection(0..k, window)
    <3>1. f \in [0..k -> window]
      OBVIOUS
    <3>2. \A a, b \in 0..k : f[a] = f[b] => a = b
      OBVIOUS
    <3> QED
      BY <3>1, <3>2 DEF Injection, IsInjective
  <2>2. Cardinality(0..k) <= k
    BY <2>1, FS_Injection
  <2>3. Cardinality(0..k) = k + 1
    <3> HIDE DEF k
    <3>1. 0 \in Int /\ k \in Int /\ ~ (0 > k) /\ k - 0 + 1 = k + 1
      BY <1>1
    <3> QED
      BY <3>1, FS_Interval
  <2> QED
    BY <1>1, <2>2, <2>3
<1> HIDE DEF Free
<1>3. n \in 0..k /\ Free(n)
  BY <1>2
<1>4. Appended(window) = window \cup {<<clock, n>>}
  BY DEF Appended, Free
<1> HIDE DEF k, n
<1>5. <<clock, n>> \in Nat \X Nat /\ <<clock, n>> \notin window
  BY <1>1, <1>3 DEF Free
<1>6. Appended(window) \in SUBSET (Nat \X Nat)
  BY <1>4, <1>5
<1>7. /\ IsFiniteSet(window \cup {<<clock, n>>})
      /\ Cardinality(window \cup {<<clock, n>>}) = Cardinality(window) + 1
  BY ZenonT(60), <1>5, FS_AddElement
<1> QED
  BY <1>4, <1>6, <1>7

\* Taking a token counts one request at most and ends no backoff.
LEMMA ConsumedType ==
    ASSUME NEW cfg, NEW e, IsEntry(e, cfg), clock \in Nat
    PROVE  LET f == Consumed(e, cfg)
           IN /\ IsEntry(f, cfg)
              /\ f.count \in {e.count, e.count + 1} /\ f.until = e.until /\ f.start = e.start
<1> DEFINE f == Consumed(e, cfg)
           count == IF cfg.strategy = "token_bucket" THEN e.count ELSE e.count + 1
           window == IF cfg.strategy = "sliding_window" THEN Appended(e.window) ELSE e.window
           tokens == IF cfg.strategy = "token_bucket" /\ e.tokens > 0 THEN e.tokens - 1
                     ELSE e.tokens
<1>0. /\ e \in EntryState /\ e.count \in Nat /\ e.window \in SUBSET (Nat \X Nat)
      /\ e.tokens \in Nat
  BY DEF IsEntry, EntryState
<1>1. f = [e EXCEPT !.count = count, !.window = window, !.tokens = tokens, !.last = clock]
  BY DEF Consumed
<1>2. count \in Nat /\ count \in {e.count, e.count + 1} /\ tokens \in Nat
  BY <1>0
<1>3. window \in SUBSET (Nat \X Nat)
      /\ (cfg.strategy = "sliding_window" => IsFiniteSet(window) /\ count = Cardinality(window))
  <2>1. CASE cfg.strategy = "sliding_window"
    <3>1. IsFiniteSet(e.window) /\ e.count = Cardinality(e.window)
      BY <2>1 DEF IsEntry
    <3> QED
      BY <1>0, <2>1, <3>1, AppendedSize
  <2>2. CASE cfg.strategy /= "sliding_window"
    BY <1>0, <2>2
  <2> QED
    BY <2>1, <2>2
<1> HIDE DEF count, window, tokens, f
<1>4. /\ f \in EntryState /\ f.count = count /\ f.window = window /\ f.until = e.until
      /\ f.start = e.start
  BY <1>0, <1>1, <1>2, <1>3 DEF EntryState
<1> QED
  BY <1>2, <1>3, <1>4 DEF f, IsEntry

(***************************************************************************)
(* The keys of a request.                                                  *)
(***************************************************************************)
ScopeIds == {"global"} \cup UNION {{r.user, r.tool, r.ip, <<r.user, r.tool>>} : r \in Requests}
Keys == Scopes \X ScopeIds

\* A sequence of different keys, of configured scopes among the given ones.
KeysAmong(s, among) ==
    /\ s \in Seq(Keys) /\ IsInjective(s)
    /\ \A i \in 1..Len(s) : s[i][1] \in among /\ s[i][1] \in DOMAIN config

\* A scope contributes its key, or nothing if it does not apply.
LEMMA ScopeType ==
    ASSUME NEW s \in Scopes, NEW id \in ScopeIds, NEW applies
    PROVE  KeysAmong(Scope(s, applies, id), {s})
<1>1. CASE applies /\ s \in DOMAIN config
  <2>1. Scope(s, applies, id) = <<<<s, id>>>>
    BY <1>1 DEF Scope
  <2> DEFINE key == <<s, id>>
  <2>2. key \in Keys /\ key[1] = s
    BY DEF Keys
  <2> HIDE DEF key
  <2>3. <<key>> \in Seq(Keys) /\ Len(<<key>>) = 1 /\ <<key>>[1] = key /\ DOMAIN <<key>> = 1..1
    BY <2>2
  <2>4. IsInjective(<<key>>)
    BY <2>3 DEF IsInjective
  <2>5. Scope(s, applies, id) = <<key>>
    BY <2>1 DEF key
  <2>6. KeysAmong(<<key>>, {s})
    <3> SUFFICES ASSUME NEW i \in 1..Len(<<key>>)
                 PROVE  <<key>>[i][1] \in {s} /\ <<key>>[i][1] \in DOMAIN config
      BY <2>3, <2>4 DEF KeysAmong
    <3>1. i = 1
      BY <2>3
    <3> QED
      BY <1>1, <2>2, <2>3, <3>1
  <2> QED
    BY <2>5, <2>6
<1>2. CASE ~ (applies /\ s \in DOMAIN config)
  BY <1>2 DEF Scope, KeysAmong, IsInjective
<1> QED
  BY <1>1, <1>2

\* The keys of disjoint scopes differ, so that their concatenation repeats none.
LEMMA ConcatKeys ==
    ASSUME NEW s, NEW t, NEW A, NEW B, KeysAmong(s, A), KeysAmong(t, B), A \cap B = {}
    PROVE  KeysAmong(s \o t, A \cup B)
<1> DEFINE st == s \o t
<1>0. s \in Seq(Keys) /\ t \in Seq(Keys)
  BY DEF KeysAmong
<1>1. /\ st \in Seq(Keys) /\ Len(st) = Len(s) + Len(t)
      /\ \A i \in 1..Len(s) + Len(t) : st[i] = IF i <= Len(s) THEN s[i] ELSE t[i - Len(s)]
  BY <1>0, ConcatProperties
<1>2. Len(s) \in Nat /\ Len(t) \in Nat /\ DOMAIN s = 1..Len(s) /\ DOMAIN t = 1..Len(t)
      /\ DOMAIN st = 1..Len(st)
  BY <1>0, <1>1, LenProperties
<1> HIDE DEF st
<1>3. \A i \in 1..Len(st) :
        \/ i \in 1..Len(s) /\ st[i] = s[i] /\ st[i][1] \in A
        \/ i - Len(s) \in 1..Len(t) /\ st[i] = t[i - Len(s)] /\ st[i][1] \in B /\ i > Len(s)
  BY <1>1, <1>2 DEF KeysAmong
<1>4. ASSUME NEW i \in 1..Len(st), NEW j \in 1..Len(st), st[i] = st[j]
      PROVE  i = j
  <2>1. CASE st[i][1] \in A
    <3>1. i \in 1..Len(s) /\ j \in 1..Len(s) /\ st[i] = s[i] /\ st[j] = s[j]
      BY <1>3, <1>4, <2>1
    <3> QED
      BY <1>2, <1>4, <3>1 DEF KeysAmong, IsInjective
  <2>2. CASE st[i][1] \notin A
    <3>1. /\ i - Len(s) \in 1..Len(t) /\ j - Len(s) \in 1..Len(t)
          /\ st[i] = t[i - Len(s)] /\ st[j] = t[j - Len(s)]
      BY <1>3, <1>4, <2>2
    <3>2. i - Len(s) = j - Len(s)
      BY <1>2, <1>4, <3>1 DEF KeysAmong, IsInjective
    <3> QED
      BY <1>2, <3>2
  <2> QED
    BY <2>1, <2>2
<1>5. IsInjective(st)
  BY <1>2, <1>4 DEF IsInjective
<1>6. \A i \in 1..Len(st) : st[i][1] \in A \cup B /\ st[i][1] \in DOMAIN config
  BY <1>3 DEF KeysAmong
<1> QED
  BY <1>1, <1>5, <1>6 DEF st, KeysAmong

\* The keys of a request differ and are of configured scopes.
LEMMA ScopesType ==
    ASSUME NEW r \in Requests
    PROVE  KeysAmong(GetApplicableScopes(r), Scopes)
<1> DEFINE all == Scope("global", TRUE, "global")
           user == Scope("per_user", r.user /= None, r.user)
           tool == Scope("per_tool", r.tool /= None, r.tool)
           ip == Scope("per_ip", r.ip /= None, r.ip)
           both == Scope("per_user_tool", None \notin {r.user, r.tool}, <<r.user, r.tool>>)
<1>0. {"global", r.user, r.tool, r.ip, <<r.user, r.tool>>} \subseteq ScopeIds
  BY DEF ScopeIds
<1>1. /\ KeysAmong(all, {"global"}) /\ KeysAmong(user, {"per_user"})
      /\ KeysAmong(tool, {"per_tool"}) /\ KeysAmong(ip, {"per_ip"})
      /\ KeysAmong(both, {"per_user_tool"})
  BY <1>0, ScopeType DEF Scopes
<1>2. GetApplicableScopes(r) = all \o user \o tool \o ip \o both
  BY DEF GetApplicableScopes
<1> HIDE DEF all, user, tool, ip, both
<1>3. KeysAmong(all \o user, {"global"} \cup {"per_user"})
  BY <1>1, ConcatKeys
<1>4. KeysAmong(all \o user \o tool, {"global"} \cup {"per_user"} \cup {"per_tool"})
  BY <1>1, <1>3, ConcatKeys
<1>5. KeysAmong(all \o user \o tool \o ip,
                {"global"} \cup {"per_user"} \cup {"per_tool"} \cup {"per_ip"})
  BY <1>1, <1>4, ConcatKeys
<1>6. KeysAmong(all \o user \o tool \o ip \o both,
                {"global"} \cup {"per_user"} \cup {"per_tool"} \cup {"per_ip"}
                \cup {"per_user_tool"})
  BY <1>1, <1>5, ConcatKeys
<1>7. {"global"} \cup {"per_user"} \cup {"per_tool"} \cup {"per_ip"} \cup {"per_user_tool"} = Scopes
  BY DEF Scopes
<1> QED
  BY <1>2, <1>6, <1>7

\* The keys that are left after the first one do not contain it.
LEMMA TailOfKeys ==
    ASSUME NEW s \in Seq(Keys), IsInjective(s), s /= <<>>
    PROVE  /\ Tail(s) \in Seq(Keys) /\ IsInjective(Tail(s))
           /\ ToSet(s) = {Head(s)} \cup ToSet(Tail(s))
           /\ Head(s) \notin ToSet(Tail(s))
           /\ Len(s) \in Nat \ {0}
           /\ Tail(s) = <<>> <=> Len(s) = 1
<1>1. /\ Tail(s) \in Seq(Keys) /\ Len(Tail(s)) = Len(s) - 1
      /\ \A i \in 1..Len(Tail(s)) : Tail(s)[i] = s[i + 1]
  BY HeadTailProperties
<1>2. Len(s) \in Nat \ {0} /\ DOMAIN s = 1..Len(s) /\ DOMAIN Tail(s) = 1..Len(Tail(s))
  BY <1>1, LenProperties, EmptySeq
<1>3. Head(s) = s[1]
  OBVIOUS
<1>4. IsInjective(Tail(s))
  <2> SUFFICES ASSUME NEW i \in 1..Len(Tail(s)), NEW j \in 1..Len(Tail(s)), Tail(s)[i] = Tail(s)[j]
               PROVE  i = j
    BY <1>2 DEF IsInjective
  <2>1. s[i + 1] = s[j + 1] /\ i + 1 \in DOMAIN s /\ j + 1 \in DOMAIN s
    BY <1>1, <1>2
  <2>2. i + 1 = j + 1
    BY <2>1 DEF IsInjective
  <2> QED
    BY <2>2
<1>5. ToSet(s) = {Head(s)} \cup ToSet(Tail(s))
  <2>1. \A i \in 1..Len(s) : i = 1 \/ (i - 1 \in 1..Len(Tail(s)) /\ s[i] = Tail(s)[i - 1])
    BY <1>1, <1>2
  <2>2. \A i \in 1..Len(Tail(s)) : i + 1 \in 1..Len(s) /\ Tail(s)[i] = s[i + 1]
    BY <1>1, <1>2
  <2>3. 1 \in 1..Len(s)
    BY <1>2
  <2>4. ToSet(s) \subseteq {Head(s)} \cup ToSet(Tail(s))
    <3> SUFFICES ASSUME NEW i \in 1..Len(s)
                 PROVE  s[i] \in {Head(s)} \cup ToSet(Tail(s))
      BY <1>2 DEF ToSet
    <3>1. CASE i = 1
      BY <1>3, <3>1
    <3>2. CASE i /= 1
      <4>1. i - 1 \in DOMAIN Tail(s) /\ s[i] = Tail(s)[i - 1]
        BY <1>2, <2>1, <3>2
      <4>2. Tail(s)[i - 1] \in ToSet(Tail(s))
        BY <4>1 DEF ToSet
      <4> QED
        BY <4>1, <4>2
    <3> QED
      BY <3>1, <3>2
  <2>5. ToSet(Tail(s)) \subseteq ToSet(s)
    BY <1>2, <2>2 DEF ToSet
  <2>6. Head(s) \in ToSet(s)
    BY <1>2, <1>3, <2>3 DEF ToSet
  <2> QED
    BY <2>4, <2>5, <2>6
<1>6. Head(s) \notin ToSet(Tail(s))
  <2> SUFFICES ASSUME NEW i \in 1..Len(Tail(s)), Tail(s)[i] = s[1]
               PROVE  FALSE
    BY <1>2, <1>3 DEF ToSet
  <2>1. s[i + 1] = s[1] /\ i + 1 \in DOMAIN s /\ 1 \in DOMAIN s /\ i + 1 /= 1
    BY <1>1, <1>2
  <2> QED
    BY <2>1 DEF IsInjective
<1>7. Tail(s) = <<>> <=> Len(s) = 1
  <2>1. Tail(s) /= <<>> => Len(Tail(s)) \in Nat \ {0}
    BY <1>1, EmptySeq
  <2>2. Len(<<>>) = 0
    BY EmptySeq
  <2>3. CASE Tail(s) = <<>>
    <3>1. Len(Tail(s)) = 0
      BY <2>2, <2>3
    <3>2. Len(Tail(s)) = Len(s) - 1 /\ Len(s) \in Nat
      BY <1>1, <1>2
    <3>3. Len(s) = 1
      BY <3>1, <3>2
    <3> QED
      BY <2>3, <3>3
  <2>4. CASE Tail(s) /= <<>>
    BY <1>1, <1>2, <2>1, <2>4
  <2> QED
    BY <2>3, <2>4
<1> QED
  BY <1>1, <1>2, <1>4, <1>5, <1>6, <1>7

(***************************************************************************)
(* The rate limiter: its calls.                                            *)
(***************************************************************************)
CallState == [pc : {"idle", "check", "checked", "consume"}, request : Requests \cup {None},
              consumes : BOOLEAN, at : Nat, left : Seq(Keys), allowed : BOOLEAN]

\* The scopes a call has still to visit are different ones of its request, and it
\* takes tokens only after it has been allowed.
IsCall(k) ==
    /\ k \in CallState
    /\ k.pc \in {"check", "consume"} =>
         /\ k.request \in Requests /\ k.left /= <<>> /\ IsInjective(k.left)
         /\ ToSet(k.left) \subseteq ToSet(GetApplicableScopes(k.request))
    /\ k.pc = "consume" => k.consumes /\ k.allowed

LimiterTypes ==
    /\ config \in Configs /\ clock \in Nat
    /\ \A key \in DOMAIN entries :
         key[1] \in DOMAIN config /\ IsEntry(entries[key], config[key[1]])
    /\ call \in [Callers -> CallState]
    /\ \A c \in Callers : IsCall(call[c]) /\ call[c].at <= clock

LimiterInv == LimiterTypes /\ OvershootBounded

\* The call k has passed the check of the key and may still take its token.
Passed(key, k) ==
    /\ k.consumes /\ k.allowed
    /\ key \in ToSet(GetApplicableScopes(k.request))
    /\ \/ k.pc = "check" /\ key \notin ToSet(k.left)
       \/ k.pc = "consume" /\ key \in ToSet(k.left)

\* Who has passed the check of a key can be told from each call alone.
LEMMA ClearedIsPassed == \A key : Cleared(key) = {c \in Callers : Passed(key, call[c])}
  BY DEF Cleared, Passed

\* A configured scope has a limit of the assumed kind.
LEMMA ConfigType ==
    ASSUME config \in Configs, NEW s \in DOMAIN config
    PROVE  IsLimit(config[s])
  BY LimiterAssumption DEF IsLimit

\* A caller at rest has passed nothing.
LEMMA IdleType == IsCall(Idle) /\ Idle.at = 0 /\ \A key : ~ Passed(key, Idle)
<1>1. <<>> \in Seq(Keys)
  BY EmptySeq
<1> QED
  BY <1>1 DEF Idle, IsCall, CallState, Passed

\* The keys of a request are of configured scopes.
LEMMA KeysOfRequest ==
    ASSUME NEW r \in Requests, NEW key \in ToSet(GetApplicableScopes(r))
    PROVE  key[1] \in DOMAIN config
<1>1. KeysAmong(GetApplicableScopes(r), Scopes)
  BY ScopesType
<1> QED
  BY <1>1, LenProperties DEF KeysAmong, ToSet

\* A check that has finished its scopes passes nothing that it had not passed.
LEMMA ContinueType ==
    ASSUME NEW k \in CallState, k.pc = "check", k.request \in Requests, IsInjective(k.left),
           ToSet(k.left) \subseteq ToSet(GetApplicableScopes(k.request)),
           clock \in Nat, k.at <= clock
    PROVE  /\ IsCall(Continue(k)) /\ Continue(k).at <= clock
           /\ \A key : Passed(key, Continue(k)) => Passed(key, k)
<1> DEFINE scopes == GetApplicableScopes(k.request)
           f == Continue(k)
<1>1. scopes \in Seq(Keys) /\ IsInjective(scopes)
  BY ScopesType DEF KeysAmong
<1>2. f = IF k.left /= <<>> THEN k
          ELSE IF ~ k.consumes
          THEN [Idle EXCEPT !.pc = "checked", !.allowed = k.allowed]
          ELSE IF k.allowed /\ scopes /= <<>>
          THEN [k EXCEPT !.pc = "consume", !.at = 0, !.left = scopes]
          ELSE Idle
  BY DEF Continue
<1> HIDE DEF f
<1>3. CASE k.left /= <<>>
  BY <1>2, <1>3 DEF f, IsCall
<1>4. CASE k.left = <<>> /\ ~ k.consumes
  <2>1. f = [Idle EXCEPT !.pc = "checked", !.allowed = k.allowed]
    BY <1>2, <1>4
  <2>2. f \in CallState /\ f.pc = "checked" /\ f.at = 0 /\ f.allowed = k.allowed /\ ~ f.consumes
    BY <2>1, EmptySeq DEF Idle, CallState
  <2> QED
    BY <2>2 DEF f, IsCall, Passed
<1>5. CASE k.left = <<>> /\ k.consumes /\ k.allowed /\ scopes /= <<>>
  <2>1. f = [k EXCEPT !.pc = "consume", !.at = 0, !.left = scopes]
    BY <1>2, <1>5
  <2>2. /\ f \in CallState /\ f.pc = "consume" /\ f.at = 0 /\ f.allowed = k.allowed
        /\ f.consumes = k.consumes /\ f.left = scopes /\ f.request = k.request
    BY <1>1, <2>1 DEF CallState
  <2>3. \A key : key \notin ToSet(k.left)
    BY <1>5 DEF ToSet
  <2> QED
    BY <1>1, <1>5, <2>2, <2>3 DEF f, IsCall, Passed
<1>6. CASE k.left = <<>> /\ k.consumes /\ ~ (k.allowed /\ scopes /= <<>>)
  <2>1. f = Idle
    BY <1>2, <1>6
  <2> QED
    BY <2>1, IdleType DEF f
<1> QED
  BY <1>3, <1>4, <1>5, <1>6

\* What is said of the calls depends on no other state than the configuration.
LEMMA ConfigStays ==
    ASSUME UNCHANGED config
    PROVE  /\ \A c : IsCall(call[c])' <=> IsCall(call'[c])
           /\ \A key : Cleared(key)' = {c \in Callers : Passed(key, call'[c])}
           /\ \A key : IsWhitelisted(key)' <=> IsWhitelisted(key)
<1>1. \A c : IsCall(call[c])' <=> IsCall(call'[c])
  BY DEF IsCall, GetApplicableScopes, Scope
<1>2. \A key : Cleared(key)' = {c \in Callers : Passed(key, call'[c])}
  BY DEF Cleared, Passed, GetApplicableScopes, Scope
<1> QED
  BY <1>1, <1>2 DEF IsWhitelisted

\* The number of some of the callers, and of fewer of them.
LEMMA CallersCount ==
    ASSUME NEW S \in SUBSET Callers
    PROVE  /\ IsFiniteSet(S) /\ Cardinality(S) \in Nat /\ Cardinality(Callers) \in Nat
           /\ Cardinality(S) <= Cardinality(Callers)
           /\ \A T \in SUBSET S : Cardinality(T) <= Cardinality(S)
           /\ \A c \in S : \A T \in SUBSET (S \ {c}) : Cardinality(T) <= Cardinality(S) - 1
<1>0. IsFiniteSet(Callers)
  BY LimiterAssumption
<1>1. IsFiniteSet(S) /\ Cardinality(S) <= Cardinality(Callers)
  BY <1>0, FS_Subset
<1>2. Cardinality(S) \in Nat /\ Cardinality(Callers) \in Nat
  BY <1>0, <1>1, FS_CardinalityType
<1>3. ASSUME NEW T \in SUBSET S
      PROVE  Cardinality(T) <= Cardinality(S)
  BY <1>1, FS_Subset
<1>4. ASSUME NEW c \in S, NEW T \in SUBSET (S \ {c})
      PROVE  Cardinality(T) <= Cardinality(S) - 1
  <2>1. IsFiniteSet(S \ {c}) /\ Cardinality(S \ {c}) = Cardinality(S) - 1
    BY <1>1, FS_RemoveElement
  <2> QED
    BY <2>1, FS_Subset
<1> QED
  BY <1>1, <1>2, <1>3, <1>4

\* How a step may move the count of a key and the callers that have passed it.
LEMMA CountsBounded ==
    ASSUME LimiterInv, LimiterTypes', UNCHANGED config,
           \A key \in DOMAIN entries' :
             config[key[1]].strategy /= "token_bucket" /\ ~ IsWhitelisted(key) =>
             \/ /\ key \in DOMAIN entries
                /\ entries'[key].count <= entries[key].count
                /\ Cleared(key)' \subseteq Cleared(key)
             \/ entries'[key].count < config[key[1]].max
             \/ \E c \in Callers :
                  /\ c \in Cleared(key) /\ Cleared(key)' \subseteq Cleared(key) \ {c}
                  /\ IF key \in DOMAIN entries THEN entries'[key].count <= entries[key].count + 1
                     ELSE entries'[key].count <= 1
    PROVE  LimiterInv'
<1> SUFFICES ASSUME NEW key \in DOMAIN entries',
                    config[key[1]].strategy /= "token_bucket", ~ IsWhitelisted(key)
             PROVE  entries'[key].count + Cardinality(Cleared(key)')
                      < config[key[1]].max + Cardinality(Callers)
  BY ConfigStays DEF LimiterInv, OvershootBounded
<1>1. config[key[1]].max \in Nat \ {0} /\ entries'[key].count \in Nat
  <2>1. key[1] \in DOMAIN config /\ config \in Configs
    BY DEF LimiterTypes
  <2>2. IsEntry(entries'[key], config[key[1]])
    <3>1. IsEntry(entries[key], config[key[1]])'
      BY DEF LimiterTypes
    <3> QED
      BY <3>1 DEF IsEntry
  <2> QED
    BY <2>1, <2>2, ConfigType DEF IsLimit, IsEntry, EntryState
<1>2. Cleared(key) \in SUBSET Callers /\ Cleared(key)' \in SUBSET Callers
  BY DEF Cleared
<1>3. /\ Cardinality(Cleared(key)) \in Nat /\ Cardinality(Cleared(key)') \in Nat
      /\ Cardinality(Callers) \in Nat
      /\ Cardinality(Cleared(key)) <= Cardinality(Callers)
      /\ Cardinality(Cleared(key)') <= Cardinality(Callers)
  BY <1>2, CallersCount
<1>4. key \in DOMAIN entries =>
        /\ entries[key].count \in Nat
        /\ entries[key].count + Cardinality(Cleared(key))
             < config[key[1]].max + Cardinality(Callers)
  BY DEF LimiterInv, LimiterTypes, IsEntry, EntryState, OvershootBounded
<1>5. CASE /\ key \in DOMAIN entries
           /\ entries'[key].count <= entries[key].count
           /\ Cleared(key)' \subseteq Cleared(key)
  <2>1. Cardinality(Cleared(key)') <= Cardinality(Cleared(key))
    BY <1>2, <1>5, CallersCount
  <2> QED
    BY <1>1, <1>3, <1>4, <1>5, <2>1
<1>6. CASE entries'[key].count < config[key[1]].max
  BY <1>1, <1>3, <1>6
<1>7. CASE \E c \in Callers :
             /\ c \in Cleared(key) /\ Cleared(key)' \subseteq Cleared(key) \ {c}
             /\ IF key \in DOMAIN entries THEN entries'[key].count <= entries[key].count + 1
                ELSE entries'[key].count <= 1
  <2>1. PICK c \in Cleared(key) :
             /\ Cleared(key)' \subseteq Cleared(key) \ {c}
             /\ IF key \in DOMAIN entries THEN entries'[key].count <= entries[key].count + 1
                ELSE entries'[key].count <= 1
    BY <1>7
  <2>2. Cardinality(Cleared(key)') <= Cardinality(Cleared(key)) - 1
    BY <1>2, <2>1, CallersCount
  <2> QED
    BY <1>1, <1>3, <1>4, <2>1, <2>2
<1> QED
  BY <1>5, <1>6, <1>7

\* At the start there is no entry and nobody calls.
LEMMA LimiterInitInv == LimiterInit => LimiterInv
<1> SUFFICES ASSUME LimiterInit
             PROVE  LimiterInv
  OBVIOUS
<1>1. DOMAIN entries = {}
  BY DEF LimiterInit
<1>2. \A c \in Callers : call[c] = Idle
  BY DEF LimiterInit
<1> QED
  BY <1>1, <1>2, IdleType DEF LimiterInit, LimiterInv, LimiterTypes, OvershootBounded, IsCall

\* A step of the caller c to the call k.
LEMMA CallMoves ==
    ASSUME LimiterTypes, UNCHANGED <<config, clock>>, NEW c \in Callers, NEW k,
           IsCall(k), k.at <= clock, call' = [call EXCEPT ![c] = k],
           \A key \in DOMAIN entries' :
             \/ key \in DOMAIN entries /\ entries'[key] = entries[key]
             \/ key[1] \in DOMAIN config /\ IsEntry(entries'[key], config[key[1]])
    PROVE  /\ LimiterTypes'
           /\ \A key : Cleared(key)' = {d \in Callers \ {c} : Passed(key, call[d])}
                                       \cup (IF Passed(key, k) THEN {c} ELSE {})
<1>1. call'[c] = k /\ \A d \in Callers \ {c} : call'[d] = call[d]
  BY DEF LimiterTypes
<1>2. call' \in [Callers -> CallState]
  BY DEF LimiterTypes, IsCall
<1>3. \A d \in Callers : IsCall(call[d])' /\ call'[d].at <= clock
  BY <1>1, ConfigStays DEF LimiterTypes
<1>4. \A key \in DOMAIN entries' :
        key[1] \in DOMAIN config /\ IsEntry(entries'[key], config[key[1]])
  BY DEF LimiterTypes
<1>5. LimiterTypes'
  <2>1. (\A key \in DOMAIN entries :
           key[1] \in DOMAIN config /\ IsEntry(entries[key], config[key[1]]))'
    BY <1>4 DEF IsEntry
  <2>2. config' \in Configs /\ clock' \in Nat
    BY DEF LimiterTypes
  <2>3. (\A d \in Callers : IsCall(call[d]) /\ call[d].at <= clock)'
    BY <1>3
  <2> QED
    BY <1>2, <2>1, <2>2, <2>3 DEF LimiterTypes
<1>6. \A key : Cleared(key)' = {d \in Callers : Passed(key, call'[d])}
  BY ConfigStays
<1>7. \A key, d : d \in Callers => (Passed(key, call'[d]) <=>
          IF d = c THEN Passed(key, k) ELSE Passed(key, call[d]))
  BY <1>1
<1> QED
  BY <1>5, <1>6, <1>7

\* What no step may do to an entry that it leaves in place.
EntryMoves(key) ==
    /\ clock < entries[key].until => entries'[key].until = entries[key].until
    /\ config[key[1]].strategy = "fixed_window" /\ entries'[key].count < entries[key].count
         => entries'[key].start > entries[key].start

EntriesMove == \A key \in DOMAIN entries \cap DOMAIN entries' : EntryMoves(key)

\* An entry that stays keeps its backoff and its count.
LEMMA SameEntry ==
    ASSUME LimiterInv, NEW key \in DOMAIN entries, entries'[key] = entries[key]
    PROVE  EntryMoves(key) /\ entries'[key].count <= entries[key].count
  BY DEF EntryMoves, LimiterInv, LimiterTypes, IsEntry, EntryState

\* A call that begins has passed no key yet.
LEMMA BeginCheckStep ==
    ASSUME LimiterInv, NEW c \in Callers, NEW r \in Requests, NEW consumes \in BOOLEAN,
           BeginCheck(c, r, consumes), UNCHANGED clock
    PROVE  LimiterInv' /\ EntriesMove
<1> DEFINE k == [pc |-> "check", request |-> r, consumes |-> consumes, at |-> clock,
                 left |-> GetApplicableScopes(r), allowed |-> TRUE]
           f == Continue(k)
<1>1. call' = [call EXCEPT ![c] = f] /\ UNCHANGED <<config, entries>> /\ call[c].pc = "idle"
  BY DEF BeginCheck
<1>2. GetApplicableScopes(r) \in Seq(Keys) /\ IsInjective(GetApplicableScopes(r))
  BY ScopesType DEF KeysAmong
<1>3. clock \in Nat
  BY DEF LimiterInv, LimiterTypes
<1>4. k \in CallState
  BY <1>2, <1>3 DEF CallState
<1>5. /\ k.pc = "check" /\ k.request = r /\ k.left = GetApplicableScopes(r) /\ k.at = clock
      /\ \A key : ~ Passed(key, k)
  BY DEF Passed
<1> HIDE DEF k
<1>6. /\ IsCall(f) /\ f.at <= clock /\ \A key : ~ Passed(key, f)
  BY <1>2, <1>3, <1>4, <1>5, ContinueType
<1> HIDE DEF f
<1>7. /\ LimiterTypes'
      /\ \A key : Cleared(key)' = {d \in Callers \ {c} : Passed(key, call[d])}
  <2>1. \A key \in DOMAIN entries' : key \in DOMAIN entries /\ entries'[key] = entries[key]
    BY <1>1
  <2>2. /\ LimiterTypes'
        /\ \A key : Cleared(key)' = {d \in Callers \ {c} : Passed(key, call[d])}
                                    \cup (IF Passed(key, f) THEN {c} ELSE {})
    BY <1>1, <1>6, <2>1, CallMoves DEF LimiterInv
  <2> QED
    BY <1>6, <2>2
<1>8. \A key : Cleared(key)' \subseteq Cleared(key)
  BY <1>7, ClearedIsPassed
<1>9. \A key \in DOMAIN entries' : entries'[key] = entries[key]
  BY <1>1
<1>10. LimiterInv'
  BY <1>1, <1>7, <1>8, <1>9, SameEntry, CountsBounded
<1> QED
  BY <1>1, <1>9, <1>10, SameEntry DEF EntriesMove

\* The entry that a check or a consumption starts from.
LEMMA StartingEntry ==
    ASSUME LimiterInv, NEW key, key[1] \in DOMAIN config, NEW at \in Nat
    PROVE  /\ IsLimit(config[key[1]])
           /\ IsEntry(GetOrCreateEntry(key, at), config[key[1]])
           /\ key \in DOMAIN entries => GetOrCreateEntry(key, at) = entries[key]
           /\ key \notin DOMAIN entries => GetOrCreateEntry(key, at).count = 0
<1>1. IsLimit(config[key[1]])
  BY ConfigType DEF LimiterInv, LimiterTypes
<1> QED
  BY <1>1, NewEntryType DEF GetOrCreateEntry, LimiterInv, LimiterTypes

\* An entry is replaced or added, and the others stay.
LEMMA EntrySet ==
    ASSUME NEW key, NEW e, entries' = SetEntry(key, e)
    PROVE  /\ DOMAIN entries' = DOMAIN entries \cup {key} /\ entries'[key] = e
           /\ \A k \in DOMAIN entries \ {key} : entries'[k] = entries[k]
  BY DEF SetEntry

\* What is known of a call at its next scope.
LEMMA NextScope ==
    ASSUME LimiterInv, NEW c \in Callers, call[c].pc \in {"check", "consume"}
    PROVE  LET k == call[c] IN
           /\ k \in CallState /\ IsCall(k) /\ k.at <= clock /\ k.request \in Requests
           /\ Tail(k.left) \in Seq(Keys) /\ IsInjective(Tail(k.left))
           /\ ToSet(k.left) = {Head(k.left)} \cup ToSet(Tail(k.left))
           /\ ToSet(k.left) \subseteq ToSet(GetApplicableScopes(k.request))
           /\ Head(k.left) \notin ToSet(Tail(k.left))
           /\ Tail(k.left) = <<>> <=> Len(k.left) = 1
           /\ Head(k.left)[1] \in DOMAIN config
<1> DEFINE k == call[c]
<1>1. k \in CallState /\ IsCall(k) /\ k.at <= clock
  BY DEF LimiterInv, LimiterTypes, IsCall
<1>2. /\ k.request \in Requests /\ k.left \in Seq(Keys) /\ k.left /= <<>> /\ IsInjective(k.left)
      /\ ToSet(k.left) \subseteq ToSet(GetApplicableScopes(k.request))
  BY <1>1 DEF IsCall, CallState
<1> HIDE DEF k
<1>3. /\ Tail(k.left) \in Seq(Keys) /\ IsInjective(Tail(k.left))
      /\ ToSet(k.left) = {Head(k.left)} \cup ToSet(Tail(k.left))
      /\ Head(k.left) \notin ToSet(Tail(k.left))
      /\ Tail(k.left) = <<>> <=> Len(k.left) = 1
  BY <1>2, TailOfKeys
<1>4. Head(k.left) \in ToSet(GetApplicableScopes(k.request))
  BY <1>2, <1>3
<1>5. Head(k.left)[1] \in DOMAIN config
  BY <1>2, <1>4, KeysOfRequest
<1> QED
  BY <1>1, <1>2, <1>3, <1>5 DEF k

\* A check that lets one more caller pass has seen the count below the limit.
LEMMA CheckScopeStep ==
    ASSUME LimiterInv, NEW c \in Callers, CheckScopeRateLimit(c)
    PROVE  LimiterInv' /\ EntriesMove
<1> DEFINE k == call[c]
<1>0. PICK key : key = Head(k.left)
  OBVIOUS
<1> DEFINE cfg == config[key[1]]
           e == GetOrCreateEntry(key, k.at)
           result == IF IsWhitelisted(key) THEN [allowed |-> TRUE] ELSE Checked(e, cfg, k.at)
           next == [k EXCEPT !.left = Tail(k.left), !.allowed = k.allowed /\ result.allowed]
           f == Continue(next)
<1>1. /\ k.pc = "check" /\ UNCHANGED <<config, clock>>
      /\ entries' = IF IsWhitelisted(key) THEN entries ELSE SetEntry(key, result.entry)
      /\ call' = [call EXCEPT ![c] = f]
  BY <1>0 DEF CheckScopeRateLimit
<1>2. /\ k \in CallState /\ IsCall(k) /\ k.at <= clock /\ k.request \in Requests
      /\ Tail(k.left) \in Seq(Keys) /\ IsInjective(Tail(k.left))
      /\ ToSet(k.left) = {key} \cup ToSet(Tail(k.left))
      /\ ToSet(k.left) \subseteq ToSet(GetApplicableScopes(k.request))
      /\ key \notin ToSet(Tail(k.left))
      /\ key[1] \in DOMAIN config
  BY <1>0, <1>1, NextScope
<1>3. k.at \in Nat /\ clock \in Nat /\ k.allowed \in BOOLEAN
  BY <1>2 DEF CallState, LimiterInv, LimiterTypes
<1> HIDE DEF k
<1>4. /\ IsLimit(cfg) /\ IsEntry(e, cfg) /\ cfg.max \in Nat \ {0}
      /\ key \in DOMAIN entries => e = entries[key]
      /\ key \notin DOMAIN entries => e.count = 0
  <2>1. /\ IsLimit(cfg) /\ IsEntry(e, cfg)
        /\ key \in DOMAIN entries => e = entries[key]
        /\ key \notin DOMAIN entries => e.count = 0
    BY <1>2, <1>3, StartingEntry
  <2> QED
    BY <2>1 DEF IsLimit
<1>5. /\ result.allowed \in BOOLEAN
      /\ ~ IsWhitelisted(key) =>
           /\ IsEntry(result.entry, cfg) /\ result.entry.count <= e.count
           /\ result.allowed /\ cfg.strategy /= "token_bucket" => result.entry.count < cfg.max
           /\ k.at < e.until => result.entry = e
           /\ cfg.strategy = "fixed_window" /\ result.entry.count < e.count
                => result.entry.start > e.start
  <2> HIDE DEF e, cfg
  <2> QED
    BY ZenonT(60), <1>3, <1>4, CheckedType
<1> HIDE DEF result, e
<1>6. /\ next \in CallState /\ next.pc = "check" /\ next.left = Tail(k.left)
      /\ next.request = k.request /\ next.at = k.at /\ next.consumes = k.consumes
      /\ next.allowed = (k.allowed /\ result.allowed)
  BY <1>1, <1>2, <1>3, <1>5 DEF CallState
<1> HIDE DEF next
<1>7. /\ IsCall(f) /\ f.at <= clock /\ \A x : Passed(x, f) => Passed(x, next)
  BY <1>2, <1>3, <1>6, ContinueType
<1>8. \A x : Passed(x, f) => (x = key /\ result.allowed) \/ Passed(x, k)
  BY <1>1, <1>2, <1>6, <1>7 DEF Passed
<1>9. ~ Passed(key, k)
  BY <1>1, <1>2 DEF Passed
<1> HIDE DEF f, cfg
<1>10. \A x \in DOMAIN entries' :
         \/ x \in DOMAIN entries /\ entries'[x] = entries[x] /\ (x /= key \/ IsWhitelisted(key))
         \/ x = key /\ ~ IsWhitelisted(key) /\ entries'[x] = result.entry
  BY <1>1, EntrySet
<1>11. /\ LimiterTypes'
       /\ \A x : Cleared(x)' = {d \in Callers \ {c} : Passed(x, call[d])}
                               \cup (IF Passed(x, f) THEN {c} ELSE {})
  <2>1. \A x \in DOMAIN entries' :
             \/ x \in DOMAIN entries /\ entries'[x] = entries[x]
             \/ x[1] \in DOMAIN config /\ IsEntry(entries'[x], config[x[1]])
    BY <1>2, <1>5, <1>10 DEF cfg
  <2> QED
    BY <1>1, <1>7, <2>1, CallMoves DEF LimiterInv
<1>12. \A x : Cleared(x) = {d \in Callers : Passed(x, call[d])}
  BY ClearedIsPassed
<1>13. LimiterInv'
  <2>1. ASSUME NEW x \in DOMAIN entries', x /= key
        PROVE  /\ x \in DOMAIN entries /\ entries'[x].count <= entries[x].count
               /\ Cleared(x)' \subseteq Cleared(x)
    <3>1. x \in DOMAIN entries /\ entries'[x] = entries[x]
      BY <1>10, <2>1
    <3>2. Passed(x, f) => Passed(x, call[c])
      BY <1>8, <2>1 DEF k
    <3>3. Cleared(x)' \subseteq Cleared(x)
      BY <1>11, <1>12, <3>2
    <3> QED
      BY <3>1, <3>3, SameEntry
  <2>2. ASSUME key \in DOMAIN entries', ~ IsWhitelisted(key), cfg.strategy /= "token_bucket"
        PROVE  \/ /\ key \in DOMAIN entries /\ entries'[key].count <= entries[key].count
                  /\ Cleared(key)' \subseteq Cleared(key)
               \/ entries'[key].count < cfg.max
    <3>1. entries'[key] = result.entry
      BY <1>10, <2>2
    <3>2. CASE result.allowed
      BY <1>5, <2>2, <3>1, <3>2
    <3>3. CASE ~ result.allowed /\ key \in DOMAIN entries
      <4>1. ~ Passed(key, f)
        BY <1>8, <1>9, <3>3
      <4>2. Cleared(key)' \subseteq Cleared(key)
        BY <1>11, <1>12, <4>1
      <4> QED
        BY <1>4, <1>5, <2>2, <3>1, <3>3, <4>2
    <3>4. CASE key \notin DOMAIN entries
      <4>1. result.entry.count <= 0 /\ result.entry.count \in Nat
        BY <1>4, <1>5, <2>2, <3>4 DEF IsEntry, EntryState
      <4> QED
        BY <1>4, <3>1, <4>1
    <3> QED
      BY <3>2, <3>3, <3>4
  <2> QED
    BY <1>1, <1>11, <2>1, <2>2, CountsBounded DEF cfg
<1>14. ASSUME NEW x \in DOMAIN entries \cap DOMAIN entries'
       PROVE  EntryMoves(x)
  <2>1. CASE entries'[x] = entries[x]
    BY <2>1, SameEntry
  <2>2. CASE x = key /\ ~ IsWhitelisted(key) /\ entries'[x] = result.entry
    <3>1. e = entries[x] /\ e.until \in Nat
      BY <1>4, <2>2 DEF IsEntry, EntryState
    <3>2. clock < e.until => k.at < e.until
      BY <1>2, <1>3, <3>1
    <3> QED
      BY <1>5, <2>2, <3>1, <3>2 DEF EntryMoves, cfg
  <2> QED
    BY <1>10, <2>1, <2>2
<1> QED
  BY <1>13, <1>14 DEF EntriesMove

\* A caller that takes a token of a key is one less of those who may.
LEMMA ConsumeTokenStep ==
    ASSUME LimiterInv, NEW c \in Callers, ConsumeToken(c)
    PROVE  LimiterInv' /\ EntriesMove
<1> DEFINE k == call[c]
<1>0. PICK key : key = Head(k.left)
  OBVIOUS
<1> DEFINE cfg == config[key[1]]
           e == GetOrCreateEntry(key, clock)
           new == Consumed(e, cfg)
           f == IF Len(k.left) = 1 THEN Idle ELSE [k EXCEPT !.left = Tail(k.left)]
<1>1. /\ k.pc = "consume" /\ UNCHANGED <<config, clock>>
      /\ entries' = SetEntry(key, new) /\ call' = [call EXCEPT ![c] = f]
  BY <1>0 DEF ConsumeToken
<1>2. /\ k \in CallState /\ IsCall(k) /\ k.at <= clock /\ k.request \in Requests
      /\ Tail(k.left) \in Seq(Keys) /\ IsInjective(Tail(k.left))
      /\ ToSet(k.left) = {key} \cup ToSet(Tail(k.left))
      /\ ToSet(k.left) \subseteq ToSet(GetApplicableScopes(k.request))
      /\ key \notin ToSet(Tail(k.left))
      /\ Tail(k.left) = <<>> <=> Len(k.left) = 1
      /\ key[1] \in DOMAIN config
  BY <1>0, <1>1, NextScope
<1>3. clock \in Nat
  BY DEF LimiterInv, LimiterTypes
<1>4. k.consumes /\ k.allowed
  BY <1>1, <1>2 DEF IsCall
<1> HIDE DEF k
<1>5. /\ IsEntry(e, cfg)
      /\ key \in DOMAIN entries => e = entries[key]
      /\ key \notin DOMAIN entries => e.count = 0
  BY <1>2, <1>3, StartingEntry
<1> HIDE DEF e
<1>6. /\ IsEntry(new, cfg) /\ new.count \in {e.count, e.count + 1} /\ new.until = e.until
  <2> HIDE DEF cfg
  <2> QED
    BY <1>3, <1>5, ConsumedType
<1> HIDE DEF new
<1>7. /\ IsCall(f) /\ f.at <= clock
      /\ \A x : Passed(x, f) => x /= key /\ Passed(x, k)
  <2>1. CASE Len(k.left) = 1
    BY <1>3, <2>1, IdleType
  <2>2. CASE Len(k.left) /= 1
    <3>1. f = [k EXCEPT !.left = Tail(k.left)]
      BY <2>2
    <3>2. /\ f \in CallState /\ f.pc = k.pc /\ f.left = Tail(k.left) /\ f.request = k.request
          /\ f.at = k.at /\ f.consumes = k.consumes /\ f.allowed = k.allowed
      BY <1>2, <3>1 DEF CallState
    <3> HIDE DEF f
    <3> QED
      BY <1>1, <1>2, <1>4, <2>2, <3>2 DEF IsCall, Passed
  <2> QED
    BY <2>1, <2>2
<1>8. Passed(key, k)
  BY <1>1, <1>2, <1>4 DEF Passed
<1> HIDE DEF f
<1>9. /\ entries'[key] = new
      /\ \A x \in DOMAIN entries' \ {key} : x \in DOMAIN entries /\ entries'[x] = entries[x]
  BY <1>1, EntrySet
<1>10. /\ LimiterTypes'
       /\ \A x : Cleared(x)' = {d \in Callers \ {c} : Passed(x, call[d])}
                               \cup (IF Passed(x, f) THEN {c} ELSE {})
  <2>1. \A x \in DOMAIN entries' :
             \/ x \in DOMAIN entries /\ entries'[x] = entries[x]
             \/ x[1] \in DOMAIN config /\ IsEntry(entries'[x], config[x[1]])
    BY <1>2, <1>6, <1>9
  <2> QED
    BY <1>1, <1>7, <2>1, CallMoves DEF LimiterInv
<1>11. \A x : Cleared(x) = {d \in Callers : Passed(x, call[d])}
  BY ClearedIsPassed
<1>12. LimiterInv'
  <2>1. ASSUME NEW x \in DOMAIN entries', x /= key
        PROVE  /\ x \in DOMAIN entries /\ entries'[x].count <= entries[x].count
               /\ Cleared(x)' \subseteq Cleared(x)
    <3>1. x \in DOMAIN entries /\ entries'[x] = entries[x]
      BY <1>9, <2>1
    <3>2. Passed(x, f) => Passed(x, call[c])
      BY <1>7 DEF k
    <3>3. Cleared(x)' \subseteq Cleared(x)
      BY <1>10, <1>11, <3>2
    <3> QED
      BY <3>1, <3>3, SameEntry
  <2>2. /\ c \in Cleared(key) /\ Cleared(key)' \subseteq Cleared(key) \ {c}
        /\ IF key \in DOMAIN entries THEN entries'[key].count <= entries[key].count + 1
           ELSE entries'[key].count <= 1
    <3>1. e.count \in Nat
      BY <1>5 DEF IsEntry, EntryState
    <3>2. c \in Cleared(key)
      BY <1>8, <1>11 DEF k
    <3>3. Cleared(key)' \subseteq Cleared(key) \ {c}
      BY <1>7, <1>10, <1>11
    <3>4. entries'[key].count <= e.count + 1
      BY <1>6, <1>9, <3>1
    <3> QED
      BY <1>5, <3>1, <3>2, <3>3, <3>4
  <2> QED
    BY <1>1, <1>10, <2>1, <2>2, CountsBounded
<1>13. ASSUME NEW x \in DOMAIN entries \cap DOMAIN entries'
       PROVE  EntryMoves(x)
  <2>1. CASE x /= key
    BY <1>9, <2>1, SameEntry
  <2>2. CASE x = key
    <3>1. e = entries[x] /\ e.count \in Nat
      BY <1>5, <2>2 DEF IsEntry, EntryState
    <3> QED
      BY <1>6, <1>9, <2>2, <3>1 DEF EntryMoves
  <2> QED
    BY <2>1, <2>2
<1> QED
  BY <1>12, <1>13 DEF EntriesMove

\* The steps that drop entries or end a call.
LEMMA LessStep ==
    ASSUME LimiterInv, UNCHANGED <<config, clock>>,
           DOMAIN entries' \subseteq DOMAIN entries,
           \A key \in DOMAIN entries' : entries'[key] = entries[key],
           \/ UNCHANGED call
           \/ \E c \in Callers : call' = [call EXCEPT ![c] = Idle]
    PROVE  LimiterInv' /\ EntriesMove
<1>1. PICK S \in SUBSET Callers : \A c \in Callers : call'[c] = IF c \in S THEN Idle ELSE call[c]
  <2>1. CASE UNCHANGED call
    <3>1. \A c \in Callers : call'[c] = IF c \in {} THEN Idle ELSE call[c]
      BY <2>1
    <3>2. {} \in SUBSET Callers
      OBVIOUS
    <3> QED
      BY <3>1, <3>2
  <2>2. CASE \E c \in Callers : call' = [call EXCEPT ![c] = Idle]
    <3>1. PICK c \in Callers : call' = [call EXCEPT ![c] = Idle]
      BY <2>2
    <3>2. \A d \in Callers : call'[d] = IF d \in {c} THEN Idle ELSE call[d]
      BY <3>1 DEF LimiterInv, LimiterTypes
    <3>3. {c} \in SUBSET Callers
      OBVIOUS
    <3> QED
      BY <3>2, <3>3
  <2> QED
    BY <2>1, <2>2
<1>2. clock \in Nat
  BY DEF LimiterInv, LimiterTypes
<1>3. call' \in [Callers -> CallState]
  BY IdleType DEF LimiterInv, LimiterTypes, IsCall
<1>4. \A c \in Callers : IsCall(call[c])' /\ call'[c].at <= clock
  BY <1>1, <1>2, IdleType, ConfigStays DEF LimiterInv, LimiterTypes
<1>5. LimiterTypes'
  <2>1. (\A key \in DOMAIN entries :
           key[1] \in DOMAIN config /\ IsEntry(entries[key], config[key[1]]))'
    BY DEF LimiterInv, LimiterTypes, IsEntry
  <2>2. config' \in Configs /\ clock' \in Nat
    BY DEF LimiterInv, LimiterTypes
  <2>3. (\A d \in Callers : IsCall(call[d]) /\ call[d].at <= clock)'
    BY <1>4
  <2> QED
    BY <1>3, <2>1, <2>2, <2>3 DEF LimiterTypes
<1>6. \A key : Cleared(key)' \subseteq Cleared(key)
  BY <1>1, IdleType, ConfigStays, ClearedIsPassed
<1>7. LimiterInv'
  BY <1>5, <1>6, SameEntry, CountsBounded
<1> QED
  BY <1>7, SameEntry DEF EntriesMove

\* Time alone moves no entry.
LEMMA TickStep ==
    ASSUME LimiterInv, UNCHANGED <<config, entries, call>>, clock' \in Nat, clock <= clock'
    PROVE  LimiterInv' /\ EntriesMove
<1>1. \A c : IsCall(call[c])' <=> IsCall(call[c])
  BY ConfigStays
<1>2. \A key : Cleared(key)' = Cleared(key)
  BY ConfigStays, ClearedIsPassed
<1>3. (\A key \in DOMAIN entries :
           key[1] \in DOMAIN config /\ IsEntry(entries[key], config[key[1]]))'
  BY DEF LimiterInv, LimiterTypes, IsEntry
<1>4. \A c \in Callers : IsCall(call[c])' /\ call'[c].at <= clock'
  <2> TAKE c \in Callers
  <2>1. IsCall(call[c]) /\ call[c].at <= clock /\ call[c].at \in Nat /\ clock \in Nat
    BY DEF LimiterInv, LimiterTypes, IsCall, CallState
  <2> QED
    BY <1>1, <2>1
<1>5. LimiterTypes'
  BY <1>3, <1>4 DEF LimiterInv, LimiterTypes
<1>6. LimiterInv'
  BY <1>2, <1>5, SameEntry, CountsBounded
<1> QED
  BY <1>6, SameEntry DEF EntriesMove

(***************************************************************************)
(* The policy engine.                                                      *)
(***************************************************************************)
EnforcementState ==
    [pc : {"idle", "evaluate", "limiter", "done"}, request : Requests \cup {None},
     valid : BOOLEAN, left : SUBSET DefaultRules, violated : SUBSET DefaultRules,
     ruled : BOOLEAN, allowed : BOOLEAN, lenient : BOOLEAN]

\* The rule on the input, if it was among those copied, is still to be evaluated
\* for an invalid input or is violated.
IsEnforcement(f) ==
    /\ f \in EnforcementState
    /\ f.pc \in {"evaluate", "limiter"} =>
         /\ f.request \in Requests
         /\ ~ f.valid /\ f.ruled => "input_validation" \in f.left \cup f.violated
    /\ f.pc = "done" /\ ~ f.valid /\ f.ruled => ~ f.allowed \/ f.lenient

EnforcementInv ==
    /\ rules \subseteq DefaultRules
    /\ enforcing \in [Enforcers -> EnforcementState]
    /\ \A c \in Enforcers : IsEnforcement(enforcing[c])

PolicyInv == LimiterInv /\ EnforcementInv

\* An enforcement that has not begun decides nothing.
LEMMA NoEnforcementType == IsEnforcement(NoEnforcement) /\ NoEnforcement.pc = "idle"
  BY DEF IsEnforcement, EnforcementState, NoEnforcement

\* At the start all default rules are enabled and nothing is being enforced.
LEMMA PolicyInitInv == PolicyInit => PolicyInv
  BY LimiterInitInv, NoEnforcementType
  DEF PolicyInit, PolicyInv, EnforcementInv, IsEnforcement

\* A step of one enforcement that changes no rule.
LEMMA OneEnforcement ==
    ASSUME EnforcementInv, NEW c \in Enforcers, NEW f, IsEnforcement(f),
           enforcing' = [enforcing EXCEPT ![c] = f], UNCHANGED rules
    PROVE  EnforcementInv'
<1>1. f \in EnforcementState
  BY DEF IsEnforcement
<1> QED
  BY <1>1 DEF EnforcementInv, IsEnforcement

\* An evaluated rule is no longer left, and the one on the input is violated exactly
\* by an invalid input.
LEMMA EvaluatedStep ==
    ASSUME EnforcementInv, NEW c \in Enforcers, NEW rule \in DefaultRules, NEW violated \in BOOLEAN,
           enforcing[c].pc \in {"evaluate", "limiter"}, Evaluated(c, rule, violated),
           rule = "input_validation" => violated = ~ enforcing[c].valid, UNCHANGED rules
    PROVE  EnforcementInv'
<1> DEFINE e == enforcing[c]
           left == e.left \ {rule}
           broken == IF violated THEN e.violated \cup {rule} ELSE e.violated
           f == [e EXCEPT !.pc = "evaluate", !.left = left, !.violated = broken]
<1>1. e \in EnforcementState /\ IsEnforcement(e)
  BY DEF EnforcementInv
<1>2. enforcing' = [enforcing EXCEPT ![c] = f]
  BY DEF Evaluated, EnforcementInv
<1>3. left \subseteq DefaultRules /\ broken \subseteq DefaultRules
  BY <1>1 DEF EnforcementState
<1>4. ~ e.valid /\ e.ruled => "input_validation" \in left \cup broken
  BY <1>1 DEF IsEnforcement
<1> HIDE DEF left, broken
<1>5. /\ f \in EnforcementState /\ f.pc = "evaluate" /\ f.left = left /\ f.violated = broken
      /\ f.valid = e.valid /\ f.ruled = e.ruled /\ f.request = e.request
  BY <1>1, <1>3 DEF EnforcementState
<1>6. e.request \in Requests
  BY <1>1 DEF IsEnforcement
<1> HIDE DEF f
<1>7. IsEnforcement(f)
  BY <1>4, <1>5, <1>6 DEF IsEnforcement
<1> HIDE DEF e
<1> QED
  BY <1>2, <1>7, OneEnforcement

\* An enforcement begins with a copy of the rules.
LEMMA EnforcePolicyStep ==
    ASSUME EnforcementInv, NEW c \in Enforcers, EnforcePolicy(c)
    PROVE  EnforcementInv'
<1>1. PICK r \in Requests, valid \in BOOLEAN :
        /\ enforcing' = [enforcing EXCEPT ![c] =
             [NoEnforcement EXCEPT !.pc = "evaluate", !.request = r, !.valid = valid,
                                   !.left = rules,
                                   !.ruled = "input_validation" \in rules]]
        /\ UNCHANGED rules
  BY DEF EnforcePolicy
<1> DEFINE ruled == "input_validation" \in rules
           f == [NoEnforcement EXCEPT !.pc = "evaluate", !.request = r, !.valid = valid,
                                      !.left = rules, !.ruled = ruled]
<1>2. rules \subseteq DefaultRules /\ ruled \in BOOLEAN /\ (ruled => "input_validation" \in rules)
  BY DEF EnforcementInv
<1>3. enforcing' = [enforcing EXCEPT ![c] = f]
  BY <1>1
<1> HIDE DEF ruled
<1>4. f \in EnforcementState /\ f.pc = "evaluate" /\ f.left = rules /\ f.request = r /\ f.ruled = ruled
  BY <1>2 DEF EnforcementState, NoEnforcement
<1> HIDE DEF f
<1>5. IsEnforcement(f)
  BY <1>2, <1>4 DEF IsEnforcement
<1> QED
  BY <1>1, <1>3, <1>5, OneEnforcement

\* A decision with the rule on the input violated blocks, unless the mode is lenient.
LEMMA DecideStep ==
    ASSUME EnforcementInv, NEW c \in Enforcers, Decide(c)
    PROVE  EnforcementInv'
<1> DEFINE e == enforcing[c]
           lenient == Lenient(mode)
           allowed == ~ ShouldBlockRequest(e.violated, mode)
           f == [NoEnforcement EXCEPT !.pc = "done", !.valid = e.valid, !.ruled = e.ruled,
                                      !.lenient = lenient, !.allowed = allowed]
<1>1. /\ e.pc = "evaluate" /\ e.left = {} /\ UNCHANGED rules
      /\ enforcing' = [enforcing EXCEPT ![c] = f]
  BY DEF Decide
<1>2. e \in EnforcementState /\ IsEnforcement(e)
  BY DEF EnforcementInv
<1>3. lenient \in BOOLEAN /\ allowed \in BOOLEAN
  BY DEF Lenient, ShouldBlockRequest
<1>4. "input_validation" \in e.violated => ~ allowed \/ lenient
  BY DEF ShouldBlockRequest, RuleSeverity
<1>5. ~ e.valid /\ e.ruled => "input_validation" \in e.violated
  BY <1>1, <1>2 DEF IsEnforcement
<1> HIDE DEF lenient, allowed
<1>6. /\ f \in EnforcementState /\ f.pc = "done" /\ f.valid = e.valid /\ f.ruled = e.ruled
      /\ f.lenient = lenient /\ f.allowed = allowed
  BY <1>2, <1>3 DEF EnforcementState, NoEnforcement
<1> HIDE DEF f, e
<1>7. IsEnforcement(f)
  BY <1>4, <1>5, <1>6 DEF IsEnforcement
<1> QED
  BY <1>1, <1>7, OneEnforcement

\* No step of the engine or the limiter breaks the invariant or moves an entry in a
\* way it may not.
LEMMA PolicyStep == ASSUME PolicyInv, PolicyNext PROVE PolicyInv' /\ EntriesMove
<1>0. LimiterInv /\ EnforcementInv /\ Enforcers \subseteq Callers /\ MaxClock \in Nat
  BY LimiterAssumption, PolicyAssumption DEF PolicyInv
<1>1. ASSUME UNCHANGED policyVars
      PROVE  EnforcementInv'
  BY <1>0, <1>1 DEF policyVars, EnforcementInv, IsEnforcement
<1>2. ASSUME UNCHANGED <<clock, limiterVars>>
      PROVE  LimiterInv' /\ EntriesMove
  BY <1>0, <1>2, LessStep DEF limiterVars
<1>3. CASE \E c \in Callers : AllowRequest(c) /\ UNCHANGED policyVars
  BY <1>0, <1>1, <1>3, BeginCheckStep DEF AllowRequest, PolicyInv
<1>4. CASE \E c \in Enforcers : EnforcePolicy(c)
  <2>1. UNCHANGED <<clock, limiterVars>>
    BY <1>4 DEF EnforcePolicy
  <2> QED
    BY <1>0, <1>2, <1>4, <2>1, EnforcePolicyStep DEF PolicyInv
<1>5. CASE \E c \in Enforcers : EvaluateRule(c)
  <2>1. PICK c \in Enforcers : EvaluateRule(c)
    BY <1>5
  <2>2. PICK rule \in enforcing[c].left \ {"rate_limit"}, exceeded \in BOOLEAN :
          /\ enforcing[c].pc = "evaluate"
          /\ Evaluated(c, rule, IF rule = "input_validation" THEN ~ enforcing[c].valid
                                ELSE exceeded)
          /\ UNCHANGED <<clock, limiterVars, mode, rules, changes>>
    BY <2>1 DEF EvaluateRule
  <2> DEFINE violated == IF rule = "input_validation" THEN ~ enforcing[c].valid ELSE exceeded
  <2>3. enforcing[c] \in EnforcementState
    BY <1>0 DEF EnforcementInv
  <2>4. /\ rule \in DefaultRules /\ violated \in BOOLEAN
        /\ rule = "input_validation" => violated = ~ enforcing[c].valid
    BY <2>3 DEF EnforcementState
  <2>5. Evaluated(c, rule, violated)
    BY <2>2
  <2> HIDE DEF violated
  <2>6. EnforcementInv'
    BY <1>0, <2>2, <2>4, <2>5, EvaluatedStep
  <2> QED
    BY <1>2, <2>2, <2>6 DEF PolicyInv
<1>6. CASE \E c \in Enforcers : EvaluateRateRule(c)
  <2>1. PICK c \in Enforcers : EvaluateRateRule(c)
    BY <1>6
  <2> DEFINE f == [enforcing[c] EXCEPT !.pc = "limiter"]
  <2>2. enforcing[c] \in EnforcementState /\ IsEnforcement(enforcing[c])
    BY <1>0 DEF EnforcementInv
  <2>3. /\ enforcing[c].pc = "evaluate" /\ BeginCheck(c, enforcing[c].request, FALSE)
        /\ enforcing' = [enforcing EXCEPT ![c] = f] /\ UNCHANGED <<clock, rules>>
    BY <2>1 DEF EvaluateRateRule
  <2>4. enforcing[c].request \in Requests
    BY <2>2, <2>3 DEF IsEnforcement
  <2>5. /\ f \in EnforcementState /\ f.pc = "limiter" /\ f.request = enforcing[c].request
        /\ f.valid = enforcing[c].valid /\ f.ruled = enforcing[c].ruled
        /\ f.left = enforcing[c].left /\ f.violated = enforcing[c].violated
    BY <2>2 DEF EnforcementState
  <2> HIDE DEF f
  <2>6. IsEnforcement(f)
    BY <2>2, <2>3, <2>5 DEF IsEnforcement
  <2>7. EnforcementInv'
    BY <1>0, <2>3, <2>6, OneEnforcement
  <2>8. c \in Callers
    BY <1>0
  <2>9. LimiterInv' /\ EntriesMove
    BY <1>0, <2>3, <2>4, <2>8, BeginCheckStep
  <2> QED
    BY <2>7, <2>9 DEF PolicyInv
<1>7. CASE \E c \in Enforcers : RateRuleEvaluated(c)
  <2>1. PICK c \in Enforcers : RateRuleEvaluated(c)
    BY <1>7
  <2>2. /\ enforcing[c].pc = "limiter" /\ Evaluated(c, "rate_limit", ~ call[c].allowed)
        /\ call' = [call EXCEPT ![c] = Idle]
        /\ UNCHANGED <<config, clock, entries, rules>>
    BY <2>1 DEF RateRuleEvaluated
  <2>3. "rate_limit" \in DefaultRules /\ (~ call[c].allowed) \in BOOLEAN
    BY DEF DefaultRules
  <2>4. EnforcementInv'
    BY <1>0, <2>2, <2>3, EvaluatedStep
  <2>5. LimiterInv' /\ EntriesMove
    BY <1>0, <2>2, LessStep
  <2> QED
    BY <2>4, <2>5 DEF PolicyInv
<1>8. CASE \E c \in Enforcers : Decide(c)
  <2>1. UNCHANGED <<clock, limiterVars>>
    BY <1>8 DEF Decide
  <2> QED
    BY <1>0, <1>2, <1>8, <2>1, DecideStep DEF PolicyInv
<1>9. CASE LimiterNext /\ UNCHANGED policyVars
  <2>1. CASE \E c \in Callers : CheckScopeRateLimit(c) \/ ConsumeToken(c)
    BY <1>0, <1>1, <1>9, <2>1, CheckScopeStep, ConsumeTokenStep DEF PolicyInv
  <2>2. CASE CollectExpired
    BY <1>0, <1>1, <1>9, <2>2, LessStep DEF CollectExpired, PolicyInv
  <2>3. CASE CleanupExpiredEntries
    <3>1. /\ DOMAIN entries' \subseteq DOMAIN entries
          /\ \A key \in DOMAIN entries' : entries'[key] = entries[key]
          /\ UNCHANGED <<config, clock, call>>
      BY <2>3 DEF CleanupExpiredEntries
    <3> QED
      BY <1>0, <1>1, <1>9, <3>1, LessStep DEF PolicyInv
  <2> QED
    BY <1>9, <2>1, <2>2, <2>3 DEF LimiterNext
<1>10. CASE ResetLimits /\ Change /\ UNCHANGED <<mode, rules, enforcing>>
  <2>1. /\ DOMAIN entries' \subseteq DOMAIN entries
        /\ \A key \in DOMAIN entries' : entries'[key] = entries[key]
        /\ UNCHANGED <<config, clock, call>>
    BY <1>10 DEF ResetLimits
  <2>2. EnforcementInv'
    BY <1>0, <1>10 DEF EnforcementInv, IsEnforcement
  <2> QED
    BY <1>0, <2>1, <2>2, LessStep DEF PolicyInv
<1>11. CASE AddPolicyRule \/ RemovePolicyRule \/ SetEnforcementMode
  <2>1. UNCHANGED <<clock, limiterVars, enforcing>> /\ rules' \subseteq DefaultRules
    BY <1>0, <1>11 DEF AddPolicyRule, RemovePolicyRule, SetEnforcementMode, EnforcementInv
  <2> QED
    BY <1>0, <1>2, <2>1 DEF PolicyInv, EnforcementInv, IsEnforcement
<1>12. CASE PolicyTick
  <2>1. /\ UNCHANGED <<config, entries, call>> /\ UNCHANGED policyVars
        /\ clock' \in Nat /\ clock <= clock'
    BY <1>0, <1>12 DEF PolicyTick, limiterVars, LimiterInv, LimiterTypes
  <2> QED
    BY <1>0, <1>1, <2>1, TickStep DEF PolicyInv
<1> QED
  BY <1>3, <1>4, <1>5, <1>6, <1>7, <1>8, <1>9, <1>10, <1>11, <1>12 DEF PolicyNext

\* The invariant contains both promises.
LEMMA PolicyInvMeans == PolicyInv => OvershootBounded /\ InvalidIsBlocked
  BY DEF PolicyInv, LimiterInv, EnforcementInv, IsEnforcement, InvalidIsBlocked

-----------------------------------------------------------------------------
(***************************************************************************)
(* Confirmations: which line reaches which request.                        *)
(***************************************************************************)
Answered == {"parse", "running"}
Texts == Lines \cup {""}
Input == [id : Nat, text : Texts]
AskedOperations == Operations \cup {Unasked.op}

AskerState == [pc : {"idle", "ask", "waiting"} \cup Answered,
               op : AskedOperations, request : Nat, input : Input]

ConfirmTypes ==
    /\ asker \in [Askers -> AskerState]
    /\ typed \in Seq(Input)
    /\ given \in Nat /\ started \in Nat
    /\ raced \in BOOLEAN

\* No two waiting requests have one number, so that a reader answers one at most.
RequestsDiffer ==
    \A a \in Askers : asker[a].pc = "waiting" =>
        /\ asker[a].request <= started
        /\ \A b \in Askers \ {a} :
               asker[b].pc = "waiting" => asker[b].request /= asker[a].request

\* Each line that waits was typed once.
LinesDiffer ==
    \A i \in 1..Len(typed) :
        /\ typed[i].id \in 1..given
        /\ \A j \in 1..Len(typed) : typed[j].id = typed[i].id => i = j

\* A line that answers a request no longer waits, and answers no other, as long
\* as no two readers have shared the buffer.
LinesAnswerOnce ==
    ~ raced => \A a \in Askers : asker[a].pc \in Answered /\ asker[a].input.id > 0 =>
        /\ asker[a].input.id <= given
        /\ \A i \in 1..Len(typed) : typed[i].id /= asker[a].input.id
        /\ \A b \in Askers \ {a} :
               asker[b].pc \in Answered => asker[b].input.id /= asker[a].input.id

\* What answers a request is a line or the end of its time, and what runs was
\* approved by it.
AnswersApprove ==
    \A a \in Askers :
        /\ asker[a].pc \in Answered => asker[a].input = NoLine \/ asker[a].input.id > 0
        /\ asker[a].pc = "running" /\ RequiresConfirmation(asker[a].op)
               => Approved(asker[a].op, asker[a].input.text)

ConfirmInv == /\ ConfirmTypes /\ RequestsDiffer
              /\ LinesDiffer /\ LinesAnswerOnce /\ AnswersApprove

\* A request that nobody has made carries no line.
LEMMA UnaskedType ==
    /\ Unasked \in AskerState /\ Unasked.pc = "idle" /\ Unasked.input = NoLine
    /\ NoLine \in Input /\ NoLine.id = 0
<1> DEFINE none == NoLine
<1>1. none = [id |-> 0, text |-> none.text] /\ none.text \in Texts
  BY Zenon DEF NoLine, Texts
<1>2. Unasked = [pc |-> "idle", op |-> Unasked.op, request |-> 0, input |-> none]
  BY DEF Unasked
<1>3. Unasked.op \in AskedOperations
  BY DEF AskedOperations
<1> HIDE DEF none
<1>4. none \in Input /\ none.id = 0
  BY <1>1 DEF Input
<1>5. Unasked \in AskerState /\ Unasked.pc = "idle" /\ Unasked.input = none
  BY <1>2, <1>3, <1>4 DEF AskerState
<1> QED
  BY <1>4, <1>5 DEF none

\* At the start nobody asks and no line waits.
LEMMA ConfirmInit == ConfirmationInit => ConfirmInv
<1> SUFFICES ASSUME ConfirmationInit PROVE ConfirmInv
  OBVIOUS
<1>1. Unasked \in AskerState
  BY UnaskedType
<1>2. ConfirmTypes
  <2>1. raced \in BOOLEAN
    BY Zenon DEF ConfirmationInit
  <2> QED
    BY <1>1, <2>1 DEF ConfirmTypes, ConfirmationInit
<1> QED
  BY <1>2 DEF ConfirmationInit, ConfirmInv, RequestsDiffer, LinesDiffer,
              LinesAnswerOnce, AnswersApprove, Unasked, Answered

\* A step of one asker that takes no line.
LEMMA AskerStep ==
    ASSUME ConfirmInv, NEW a \in Askers,
           asker' \in [Askers -> AskerState],
           \A b \in Askers \ {a} : asker'[b] = asker[b],
           UNCHANGED <<typed, given>>, started' \in Nat, started' >= started,
           raced' = raced \/ raced' = TRUE,
           asker'[a].pc = "waiting" => asker'[a].request = started + 1 /\ started' = started + 1,
           \/ asker'[a].pc \notin Answered
           \/ asker'[a].input = NoLine
           \/ asker[a].pc \in Answered /\ asker'[a].input = asker[a].input,
           asker'[a].pc = "running" /\ RequiresConfirmation(asker'[a].op)
               => Approved(asker'[a].op, asker'[a].input.text)
    PROVE  ConfirmInv'
<1>1. ConfirmTypes'
  <2>1. raced' \in BOOLEAN
    BY Zenon DEF ConfirmInv, ConfirmTypes
  <2> QED
    BY <2>1 DEF ConfirmInv, ConfirmTypes
<1>2. RequestsDiffer'
  <2>1. /\ \A b \in Askers : asker[b].request \in Nat
        /\ started \in Nat
    BY DEF ConfirmInv, ConfirmTypes, AskerState
  <2> QED
    BY <2>1 DEF ConfirmInv, RequestsDiffer
<1>3. LinesDiffer'
  BY DEF ConfirmInv, LinesDiffer
<1>4. LinesAnswerOnce'
  <2>1. ASSUME NEW b \in Askers, asker'[b].pc \in Answered
        PROVE  \/ asker'[b].input.id = 0
               \/ asker[b].pc \in Answered /\ asker[b].input = asker'[b].input
    BY <2>1, UnaskedType
  <2> SUFFICES ASSUME ~ raced,
                      NEW b \in Askers, asker'[b].pc \in Answered, asker'[b].input.id > 0
               PROVE  /\ asker'[b].input.id <= given
                      /\ \A i \in 1..Len(typed) : typed[i].id /= asker'[b].input.id
                      /\ \A c \in Askers \ {b} : asker'[c].pc \in Answered
                             => asker'[c].input.id /= asker'[b].input.id
    BY DEF LinesAnswerOnce
  <2>2. /\ asker[b].pc \in Answered /\ asker[b].input = asker'[b].input
        /\ asker[b].input.id > 0
    BY <2>1
  <2>3. ASSUME NEW c \in Askers \ {b}, asker'[c].pc \in Answered
        PROVE  asker'[c].input.id /= asker'[b].input.id
    BY <2>1, <2>2, <2>3 DEF ConfirmInv, LinesAnswerOnce
  <2> QED
    BY <2>2, <2>3 DEF ConfirmInv, LinesAnswerOnce
<1>5. AnswersApprove'
  BY DEF ConfirmInv, AnswersApprove
<1> QED
  BY <1>1, <1>2, <1>3, <1>4, <1>5 DEF ConfirmInv

\* A typed line waits behind the others, with a number of its own.
LEMMA TypeStep == ASSUME ConfirmInv, Type PROVE ConfirmInv'
<1>1. PICK text \in Lines : /\ given' = given + 1
                            /\ typed' = Append(typed, [id |-> given + 1, text |-> text])
                            /\ UNCHANGED <<asker, readers, raced, started>>
  BY DEF Type
<1> DEFINE line == [id |-> given + 1, text |-> text]
<1> Lines \subseteq Texts
  BY Zenon DEF Texts
<1>2. line \in Input /\ typed \in Seq(Input) /\ given \in Nat
  BY DEF ConfirmInv, ConfirmTypes, Input
<1>3. /\ typed' \in Seq(Input) /\ Len(typed') = Len(typed) + 1
      /\ typed'[Len(typed) + 1] = line
      /\ \A i \in 1..Len(typed) : typed'[i] = typed[i]
  BY <1>1, <1>2, AppendProperties
<1>4. ConfirmTypes' /\ RequestsDiffer' /\ AnswersApprove'
  BY <1>1, <1>2, <1>3 DEF ConfirmInv, ConfirmTypes, RequestsDiffer, AnswersApprove
<1>5. ASSUME NEW i \in 1..Len(typed')
      PROVE  \/ i \in 1..Len(typed) /\ typed'[i] = typed[i]
             \/ i = Len(typed) + 1 /\ typed'[i].id = given + 1
  <2>1. i \in 1..Len(typed) \/ i = Len(typed) + 1
    BY <1>2, <1>3
  <2> QED
    BY <1>3, <2>1
<1>6. LinesDiffer'
  <2> SUFFICES ASSUME NEW i \in 1..Len(typed')
               PROVE  /\ typed'[i].id \in 1..given'
                      /\ \A j \in 1..Len(typed') : typed'[j].id = typed'[i].id => i = j
    BY DEF LinesDiffer
  <2>1. typed'[i].id \in 1..given'
    BY <1>1, <1>2, <1>5 DEF ConfirmInv, LinesDiffer
  <2>2. ASSUME NEW j \in 1..Len(typed'), typed'[j].id = typed'[i].id PROVE i = j
    BY SMTT(60), <1>2, <1>5, <2>2 DEF ConfirmInv, LinesDiffer
  <2> QED
    BY <2>1, <2>2
<1>7. LinesAnswerOnce'
  <2> SUFFICES ASSUME ~ raced,
                      NEW a \in Askers, asker[a].pc \in Answered, asker[a].input.id > 0
               PROVE  /\ asker[a].input.id <= given'
                      /\ \A i \in 1..Len(typed') : typed'[i].id /= asker[a].input.id
                      /\ \A b \in Askers \ {a} : asker[b].pc \in Answered
                             => asker[b].input.id /= asker[a].input.id
    BY <1>1 DEF LinesAnswerOnce
  <2>1. asker[a].input.id \in Nat /\ asker[a].input.id <= given
    BY DEF ConfirmInv, ConfirmTypes, Input, AskerState, LinesAnswerOnce
  <2> QED
    BY <1>1, <1>2, <1>5, <2>1 DEF ConfirmInv, LinesAnswerOnce
<1> QED
  BY <1>4, <1>6, <1>7 DEF ConfirmInv

\* The lines that are left after one is taken or lost.
LEMMA TailOfTyped ==
    ASSUME ConfirmInv, typed /= <<>>
    PROVE  /\ Tail(typed) \in Seq(Input) /\ Head(typed) = typed[1]
           /\ Len(Tail(typed)) = Len(typed) - 1 /\ Len(typed) \in Nat \ {0}
           /\ \A i \in 1..Len(Tail(typed)) :
                  i + 1 \in 1..Len(typed) /\ Tail(typed)[i] = typed[i + 1]
           /\ Head(typed) \in Input
<1>1. typed \in Seq(Input)
  BY DEF ConfirmInv, ConfirmTypes
<1> QED
  BY <1>1, HeadTailProperties

\* No line that is left waiting has the number of the one that was taken.
LEMMA LinesLeft ==
    ASSUME ConfirmInv, typed /= <<>>, typed' = Tail(typed), given' = given
    PROVE  LinesDiffer' /\ \A i \in 1..Len(typed') : typed'[i].id /= Head(typed).id
<1>1. ASSUME NEW i \in 1..Len(typed')
      PROVE  /\ i + 1 \in 1..Len(typed) /\ typed'[i] = typed[i + 1]
             /\ typed'[i].id /= Head(typed).id
  <2>1. i + 1 \in 1..Len(typed) /\ typed'[i] = typed[i + 1]
    BY TailOfTyped
  <2>2. 1 \in 1..Len(typed) /\ Head(typed) = typed[1] /\ i + 1 /= 1
    BY TailOfTyped
  <2> QED
    BY <2>1, <2>2 DEF ConfirmInv, LinesDiffer
<1>2. LinesDiffer'
  <2> SUFFICES ASSUME NEW i \in 1..Len(typed')
               PROVE  /\ typed'[i].id \in 1..given'
                      /\ \A j \in 1..Len(typed') : typed'[j].id = typed'[i].id => i = j
    BY DEF LinesDiffer
  <2>1. typed'[i].id \in 1..given'
    BY <1>1 DEF ConfirmInv, LinesDiffer
  <2>2. ASSUME NEW j \in 1..Len(typed'), typed'[j].id = typed'[i].id PROVE i = j
    <3>1. i + 1 = j + 1
      BY <1>1, <2>2 DEF ConfirmInv, LinesDiffer
    <3> QED
      BY <3>1
  <2> QED
    BY <2>1, <2>2
<1> QED
  BY <1>1, <1>2

\* What a reader returns is an answer to the requests that it or its like serve.
LEMMA ReturnedLine ==
    ASSUME ConfirmInv, NEW line \in Input, line.id > 0, NEW served, Return(served, line),
           UNCHANGED <<given, started, raced>>, typed' \in Seq(Input)
    PROVE  /\ ConfirmTypes' /\ RequestsDiffer' /\ AnswersApprove'
           /\ \A a \in Askers :
                LET takes == asker[a].pc = "waiting" /\ asker[a].request \in served
                IN /\ takes => /\ asker'[a].pc = "parse" /\ asker'[a].input = line
                               /\ asker'[a].op = asker[a].op
                   /\ ~ takes => asker'[a] = asker[a]
<1> DEFINE Takes(a) == asker[a].pc = "waiting" /\ asker[a].request \in served
<1>1. asker' = [a \in Askers |->
          IF Takes(a) THEN [asker[a] EXCEPT !.pc = "parse", !.input = line] ELSE asker[a]]
  BY DEF Return
<1>2. \A a \in Askers :
          /\ Takes(a) => /\ asker'[a].pc = "parse" /\ asker'[a].input = line
                         /\ asker'[a].op = asker[a].op
          /\ ~ Takes(a) => asker'[a] = asker[a]
  BY <1>1 DEF ConfirmInv, ConfirmTypes, AskerState
<1>3. ConfirmTypes'
  <2>1. \A a \in Askers : asker'[a] \in AskerState
    BY <1>1 DEF ConfirmInv, ConfirmTypes, Answered, AskerState
  <2>2. asker' \in [Askers -> AskerState]
    BY <1>1, <2>1
  <2> QED
    BY <2>2 DEF ConfirmInv, ConfirmTypes
<1>4. \A a \in Askers : \/ asker'[a].pc = "parse" /\ asker'[a].input.id > 0
                        \/ asker'[a] = asker[a]
  BY <1>2
<1>5. RequestsDiffer'
  <2>1. \A a \in Askers : asker'[a].pc = "waiting" => asker'[a] = asker[a]
    BY <1>4
  <2> QED
    BY <2>1 DEF ConfirmInv, RequestsDiffer
<1>6. AnswersApprove'
  BY <1>4 DEF ConfirmInv, AnswersApprove, Answered
<1> QED
  BY <1>2, <1>3, <1>5, <1>6

\* A torn line reaches whom it will: what it approves it still approves as a line.
LEMMA TornReadStep == ASSUME ConfirmInv, TornRead PROVE ConfirmInv'
<1>1. /\ raced /\ UNCHANGED <<raced, given, started>>
      /\ typed' = typed \/ (typed /= <<>> /\ typed' = Tail(typed))
  BY DEF TornRead
<1>2. PICK served \in SUBSET readers, id \in 1..given, text \in Lines :
          Return(served, [id |-> id, text |-> text])
  BY DEF TornRead
<1>3. [id |-> id, text |-> text] \in Input /\ [id |-> id, text |-> text].id > 0
  <2>1. text \in Texts /\ given \in Nat
    BY Zenon DEF Texts, ConfirmInv, ConfirmTypes
  <2> QED
    BY <2>1 DEF Input
<1>4. typed' \in Seq(Input) /\ LinesDiffer'
  <2>1. CASE typed' = typed
    BY <1>1, <2>1 DEF ConfirmInv, ConfirmTypes, LinesDiffer
  <2>2. CASE typed /= <<>> /\ typed' = Tail(typed)
    BY <1>1, <2>2, TailOfTyped, LinesLeft
  <2> QED
    BY <1>1, <2>1, <2>2
<1>5. ConfirmTypes' /\ RequestsDiffer' /\ AnswersApprove'
  BY <1>1, <1>2, <1>3, <1>4, ReturnedLine
<1> QED
  BY <1>1, <1>4, <1>5 DEF ConfirmInv, LinesAnswerOnce

\* A reader hands the line to the one request it was started for, if that waits.
LEMMA ReadLineStep == ASSUME ConfirmInv, ReadLine PROVE ConfirmInv'
<1> DEFINE line == Head(typed)
           Takes(a, r) == asker[a].pc = "waiting" /\ asker[a].request \in {r}
<1>1. typed /= <<>> /\ typed' = Tail(typed) /\ UNCHANGED <<raced, given, started>> /\ ~ raced
  BY DEF ReadLine
<1>2. PICK r \in readers : Return({r}, line)
  BY DEF ReadLine
<1> HIDE DEF line
<1>3. /\ typed' \in Seq(Input)
      /\ 1 \in 1..Len(typed) /\ line = typed[1] /\ line \in Input
      /\ \A i \in 1..Len(typed') : i + 1 \in 1..Len(typed) /\ typed'[i] = typed[i + 1]
  BY ONLY ConfirmInv, <1>1, TailOfTyped DEF line
<1>4. line.id \in 1..given /\ given \in Nat
  BY <1>3 DEF ConfirmInv, ConfirmTypes, LinesDiffer
<1>5. \A a, b \in Askers : Takes(a, r) /\ Takes(b, r) => a = b
  BY DEF ConfirmInv, RequestsDiffer
<1>6. /\ ConfirmTypes' /\ RequestsDiffer' /\ AnswersApprove'
      /\ \A a \in Askers :
          /\ Takes(a, r) => /\ asker'[a].pc = "parse" /\ asker'[a].input = line
                            /\ asker'[a].op = asker[a].op
          /\ ~ Takes(a, r) => asker'[a] = asker[a]
  BY <1>1, <1>2, <1>3, <1>4, ReturnedLine
<1> HIDE DEF Takes
<1>10. LinesDiffer' /\ \A i \in 1..Len(typed') : typed'[i].id /= line.id
  BY <1>1, LinesLeft DEF line
<1>11. LinesAnswerOnce'
  <2> SUFFICES ASSUME NEW a \in Askers, asker'[a].pc \in Answered, asker'[a].input.id > 0
               PROVE  /\ asker'[a].input.id <= given
                      /\ \A i \in 1..Len(typed') : typed'[i].id /= asker'[a].input.id
                      /\ \A b \in Askers \ {a} : asker'[b].pc \in Answered
                             => asker'[b].input.id /= asker'[a].input.id
    BY <1>1 DEF LinesAnswerOnce
  <2>1. \A b \in Askers : asker[b].pc \in Answered => asker[b].input.id /= line.id
    BY <1>1, <1>3, <1>4, UnaskedType DEF ConfirmInv, LinesAnswerOnce, AnswersApprove
  <2>2. CASE Takes(a, r)
    <3>1. asker'[a].input = line
      BY <1>6, <2>2
    <3>2. ASSUME NEW b \in Askers \ {a}, asker'[b].pc \in Answered
          PROVE  asker'[b].input.id /= line.id
      BY <1>5, <1>6, <2>1, <2>2, <3>2
    <3> QED
      BY <1>4, <1>10, <3>1, <3>2
  <2>3. CASE ~ Takes(a, r)
    <3>1. asker'[a] = asker[a]
      BY <1>6, <2>3
    <3>2. /\ asker[a].input.id <= given
          /\ \A i \in 1..Len(typed') : typed'[i].id /= asker[a].input.id
      BY <1>1, <1>3, <3>1 DEF ConfirmInv, LinesAnswerOnce
    <3>3. ASSUME NEW b \in Askers \ {a}, asker'[b].pc \in Answered
          PROVE  asker'[b].input.id /= asker[a].input.id
      <4>1. CASE Takes(b, r)
        BY <1>6, <2>1, <3>1, <4>1
      <4>2. CASE ~ Takes(b, r)
        BY <1>1, <1>6, <3>1, <3>3, <4>2 DEF ConfirmInv, LinesAnswerOnce
      <4> QED
        BY <4>1, <4>2
    <3> QED
      BY <3>1, <3>2, <3>3
  <2> QED
    BY <2>2, <2>3
<1> QED
  BY <1>6, <1>10, <1>11 DEF ConfirmInv

\* No step of the confirmation breaks its invariant.
LEMMA ConfirmStep == ASSUME ConfirmInv, ConfirmationNext PROVE ConfirmInv'
<1>1. /\ Unasked \in AskerState /\ Unasked.pc = "idle" /\ Unasked.input = NoLine
      /\ NoLine \in Input
  BY UnaskedType
<1>2. asker \in [Askers -> AskerState] /\ started \in Nat /\ raced \in BOOLEAN
  BY Zenon DEF ConfirmInv, ConfirmTypes
<1>3. ASSUME NEW a \in Askers, ExecuteCommand(a) PROVE ConfirmInv'
  <2>1. PICK op \in Operations :
            asker' = [asker EXCEPT ![a] =
              [Unasked EXCEPT !.pc = IF RequiresConfirmation(op) THEN "ask" ELSE "running",
                              !.op = op]]
    BY <1>3 DEF ExecuteCommand
  <2> DEFINE new == [Unasked EXCEPT
                       !.pc = IF RequiresConfirmation(op) THEN "ask" ELSE "running",
                       !.op = op]
  <2>2. /\ new \in AskerState /\ new.pc \in {"ask", "running"} /\ new.input = NoLine
        /\ new.pc = "running" => ~ RequiresConfirmation(new.op)
        /\ asker' = [asker EXCEPT ![a] = new]
    BY <1>1, <2>1 DEF AskedOperations, Answered, AskerState
  <2>3. UNCHANGED <<raced, typed, given, started>>
    BY <1>3 DEF ExecuteCommand
  <2> HIDE DEF new
  <2> QED
    BY <1>2, <2>2, <2>3, AskerStep
<1>4. ASSUME NEW a \in Askers, RequestConfirmation(a) PROVE ConfirmInv'
  <2>1. /\ asker' \in [Askers -> AskerState]
        /\ \A b \in Askers \ {a} : asker'[b] = asker[b]
        /\ asker'[a].pc = "waiting" /\ asker'[a].request = started + 1
    <3> DEFINE new == [asker[a] EXCEPT !.pc = "waiting", !.request = started + 1]
    <3>1. asker' = [asker EXCEPT ![a] = new]
      BY <1>2, <1>4 DEF RequestConfirmation
    <3>2. new \in AskerState /\ new.pc = "waiting" /\ new.request = started + 1
      <4>1. asker[a] \in AskerState /\ started + 1 \in Nat
        BY <1>2
      <4>2. ASSUME NEW x \in AskerState, NEW n \in Nat
            PROVE  LET y == [x EXCEPT !.pc = "waiting", !.request = n]
                   IN y \in AskerState /\ y.pc = "waiting" /\ y.request = n
        BY <4>2 DEF AskerState
      <4> QED
        BY <4>1, <4>2
    <3> HIDE DEF new
    <3> QED
      BY <1>2, <3>1, <3>2
  <2>2. /\ UNCHANGED <<typed, given>> /\ started' = started + 1
    BY <1>4 DEF RequestConfirmation
  <2>3. asker'[a].pc \notin Answered /\ asker'[a].pc /= "running"
    BY <2>1 DEF Answered
  <2>4. started' \in Nat /\ started' >= started
    BY <1>2, <2>2
  <2>5. raced' = raced \/ raced' = TRUE
    <3>1. raced \in BOOLEAN /\ raced' = (raced \/ readers /= {})
      BY <1>2, <1>4 DEF RequestConfirmation
    <3> QED
      BY Zenon, <3>1
  <2> QED
    BY ONLY ConfirmInv, <2>1, <2>2, <2>3, <2>4, <2>5, AskerStep
<1>5. ASSUME NEW a \in Askers, Timeout(a) PROVE ConfirmInv'
  <2>1. /\ asker' \in [Askers -> AskerState]
        /\ \A b \in Askers \ {a} : asker'[b] = asker[b]
        /\ asker'[a].pc = "parse" /\ asker'[a].input = NoLine
    BY <1>1, <1>2, <1>5 DEF Timeout, AskerState, Answered
  <2>2. UNCHANGED <<raced, typed, given, started>>
    BY <1>5 DEF Timeout
  <2> QED
    BY <1>2, <2>1, <2>2, AskerStep
<1>6. ASSUME NEW a \in Askers, ParseInput(a) PROVE ConfirmInv'
  <2>1. UNCHANGED <<raced, typed, given, started>> /\ asker[a].pc = "parse"
    BY <1>6 DEF ParseInput
  <2>2. CASE Approved(asker[a].op, asker[a].input.text)
    <3>1. /\ asker' \in [Askers -> AskerState]
          /\ \A b \in Askers \ {a} : asker'[b] = asker[b]
          /\ asker'[a].pc = "running" /\ asker'[a].input = asker[a].input
          /\ asker'[a].op = asker[a].op
      BY <1>2, <1>6, <2>2 DEF ParseInput, AskerState, Answered
    <3> QED
      BY <1>2, <2>1, <2>2, <3>1, AskerStep DEF Answered
  <2>3. CASE ~ Approved(asker[a].op, asker[a].input.text)
    <3>1. asker' = [asker EXCEPT ![a] = Unasked]
      BY <1>6, <2>3 DEF ParseInput
    <3> QED
      BY <1>1, <1>2, <2>1, <3>1, AskerStep DEF Answered
  <2> QED
    BY <2>2, <2>3
<1>7. ASSUME NEW a \in Askers, Finish(a) PROVE ConfirmInv'
  <2>1. asker' = [asker EXCEPT ![a] = Unasked] /\ UNCHANGED <<raced, typed, given, started>>
    BY <1>7 DEF Finish
  <2> QED
    BY <1>1, <1>2, <2>1, AskerStep DEF Answered
<1> QED
  BY <1>3, <1>4, <1>5, <1>6, <1>7, TypeStep, ReadLineStep, TornReadStep
     DEF ConfirmationNext

\* An empty line and "deny" approve no command and no file operation of high risk.
LEMMA DenialsDeny ==
    ASSUME NEW op, op.kind = "command" \/ op.risk \in {"high", "critical"}
    PROVE  ~ Approved(op, "") /\ ~ Approved(op, "deny")
<1>1. Selected(op, "") = "deny"
  BY DEF Selected, DefaultOpt
<1>2. Selected(op, "deny") = "deny"
  <2> DEFINE options == Options(op)
             I == {i \in 1..Len(options) : options[i] \in Containing("deny")}
  <2>1. Containing("deny") = {"deny"}
    BY DEF Containing
  <2>2. \/ options = <<"understand", "deny">>
        \/ options = <<"allow", "deny", "review">>
        \/ options = <<"allow", "deny">>
    BY DEF Options
  <2>3. I = {2}
    BY <2>1, <2>2
  <2>4. Min(I) = 2
    BY <2>3 DEF Min
  <2>5. SelectInSeq(options, LAMBDA o : o \in Containing("deny")) = 2
    BY <2>3, <2>4 DEF SelectInSeq
  <2> QED
    BY <2>2, <2>5 DEF Selected
<1> QED
  BY <1>1, <1>2 DEF Approved

\* The invariant contains that what runs was approved by the line it got.
LEMMA ConfirmInvMeans == ConfirmInv => RunsOnItsOwnLine
<1> SUFFICES ASSUME ConfirmInv, NEW a \in Askers,
                    asker[a].pc = "running", RequiresConfirmation(asker[a].op),
                    asker[a].op.kind = "command" \/ asker[a].op.risk \in {"high", "critical"}
             PROVE  /\ asker[a].input.id > 0 /\ asker[a].input.text \notin {"", "deny"}
                    /\ ~ raced => \A b \in Askers \ {a} :
                         asker[b].pc = "running" => asker[b].input.id /= asker[a].input.id
  BY DEF RunsOnItsOwnLine
<1>1. Approved(asker[a].op, asker[a].input.text)
  BY DEF ConfirmInv, AnswersApprove
<1>2. asker[a].input.text \notin {"", "deny"}
  BY <1>1, DenialsDeny
<1>3. asker[a].input.id > 0
  <2>1. NoLine.text \in {"", "deny"}
    <3>1. NoLine.text = ""
      BY SMT DEF NoLine
    <3> QED
      BY Zenon, <3>1
  <2>2. asker[a].input /= NoLine
    BY Zenon, <1>2, <2>1
  <2> HIDE <1>2, <2>1
  <2> QED
    BY <2>2 DEF ConfirmInv, AnswersApprove, Answered
<1> QED
  BY <1>2, <1>3 DEF ConfirmInv, LinesAnswerOnce, Answered

-----------------------------------------------------------------------------
(***************************************************************************)
(* The sandbox: its runs and their watchers.                               *)
(***************************************************************************)
RunState == [pc : {"idle", "validate", "start", "register", "select", "stop", "count"},
             process : {"none", "running", "exited"},
             verdict : {"none", "failed", "successful"}]

SandboxTypes ==
    /\ run \in [Executors -> RunState]
    /\ watched \subseteq Executors
    /\ watcher \in [Executors -> [pc : {"none", "watching"}, violation : BOOLEAN,
                                  closed : Nat]]
    /\ cleanup \in [Cleaners -> [pc : {"idle", "kill", "done"}, left : SUBSET Executors]]
    /\ metrics \in [total : Nat, failed : Nat, successful : Nat]

\* The map of watched processes decides who closes a channel: what is on it has an
\* open one, and only a run that can still stop its watcher has an entry.
WatchedAreOpen ==
    \A e \in Executors :
        /\ watcher[e].closed <= 1
        /\ e \in watched => watcher[e].closed = 0 /\ run[e].pc \in {"select", "stop"}
        /\ e \notin watched /\ watcher[e].pc = "watching" => watcher[e].closed = 1

InProgress == {e \in Executors : run[e].pc /= "idle"}

SandboxInv == SandboxTypes /\ WatchedAreOpen /\ IsFiniteSet(InProgress) /\ RunsAreAccountedFor

\* At the start nothing runs and nothing is watched.
LEMMA SandboxInitInv == SandboxInit => SandboxInv
<1> SUFFICES ASSUME SandboxInit PROVE SandboxInv
  OBVIOUS
<1>1. SandboxTypes
  BY DEF SandboxInit, SandboxTypes, RunState, NoRun
<1>2. WatchedAreOpen
  BY DEF SandboxInit, WatchedAreOpen
<1>3. InProgress = {}
  BY DEF SandboxInit, InProgress, NoRun
<1>4. IsFiniteSet(InProgress) /\ RunsAreAccountedFor
  <2>1. IsFiniteSet(InProgress) /\ Cardinality(InProgress) = 0
    BY <1>3, FS_EmptySet
  <2> QED
    BY <2>1 DEF InProgress, RunsAreAccountedFor, SandboxInit
<1> QED
  BY <1>1, <1>2, <1>4 DEF SandboxInv

\* A step that leaves the number of runs in progress and the counters alone.
LEMMA ProgressUntouched ==
    ASSUME SandboxInv, metrics' = metrics,
           \A e \in Executors : run'[e].pc = "idle" <=> run[e].pc = "idle"
    PROVE  IsFiniteSet(InProgress') /\ RunsAreAccountedFor'
<1>1. InProgress' = InProgress
  BY DEF InProgress
<1> QED
  BY <1>1 DEF SandboxInv, RunsAreAccountedFor, InProgress

\* A command that begins is counted and in progress.
LEMMA ExecuteStep == ASSUME SandboxInv, NEW e \in Executors, Execute(e) PROVE SandboxInv'
<1>1. /\ run' = [run EXCEPT ![e] = [NoRun EXCEPT !.pc = "validate"]]
      /\ metrics' = [metrics EXCEPT !.total = @ + 1] /\ run[e].pc = "idle"
      /\ UNCHANGED <<box, watched, watcher, cleanup>>
  BY DEF Execute
<1>2. SandboxTypes'
  BY <1>1 DEF SandboxInv, SandboxTypes, RunState, NoRun
<1>3. WatchedAreOpen'
  BY <1>1 DEF SandboxInv, SandboxTypes, WatchedAreOpen
<1>4. InProgress' = InProgress \cup {e} /\ e \notin InProgress
  BY <1>1 DEF SandboxInv, SandboxTypes, InProgress, NoRun
<1>5. /\ IsFiniteSet(InProgress')
      /\ Cardinality(InProgress') = Cardinality(InProgress) + 1
      /\ Cardinality(InProgress) \in Nat
  BY <1>4, FS_AddElement, FS_CardinalityType DEF SandboxInv
<1>6. RunsAreAccountedFor'
  BY <1>1, <1>5 DEF SandboxInv, SandboxTypes, RunsAreAccountedFor, InProgress
<1> QED
  BY <1>2, <1>3, <1>5, <1>6 DEF SandboxInv

\* Whichever way a run ends, it is counted and is in progress no more.
LEMMA RunEnds ==
    ASSUME SandboxInv, NEW e \in Executors, run[e].pc \in {"validate", "start", "count"},
           run' = [run EXCEPT ![e] = NoRun],
           \/ metrics' = Failed \/ metrics' = [metrics EXCEPT !.successful = @ + 1],
           UNCHANGED <<box, watched, watcher, cleanup>>
    PROVE  SandboxInv'
<1>1. SandboxTypes'
  BY DEF SandboxInv, SandboxTypes, RunState, NoRun, Failed
<1>2. WatchedAreOpen'
  BY DEF SandboxInv, SandboxTypes, WatchedAreOpen
<1>3. InProgress' = InProgress \ {e} /\ e \in InProgress
  BY DEF SandboxInv, SandboxTypes, InProgress, NoRun
<1>4. /\ IsFiniteSet(InProgress')
      /\ Cardinality(InProgress') = Cardinality(InProgress) - 1
      /\ Cardinality(InProgress) \in Nat
  BY <1>3, FS_RemoveElement, FS_CardinalityType DEF SandboxInv
<1>5. RunsAreAccountedFor'
  BY <1>4 DEF SandboxInv, SandboxTypes, RunsAreAccountedFor, InProgress, Failed
<1> QED
  BY <1>1, <1>2, <1>4, <1>5 DEF SandboxInv

\* A run goes on, and its watcher is as before.
LEMMA RunGoesOn ==
    ASSUME SandboxInv, NEW e \in Executors, NEW new \in RunState,
           run' = [run EXCEPT ![e] = new],
           new.pc = "idle" <=> run[e].pc = "idle",
           e \in watched => new.pc \in {"select", "stop"},
           UNCHANGED <<watched, watcher, cleanup, metrics>>
    PROVE  SandboxInv'
<1>1. SandboxTypes'
  BY DEF SandboxInv, SandboxTypes
<1>2. WatchedAreOpen'
  BY DEF SandboxInv, SandboxTypes, WatchedAreOpen
<1>3. \A x \in Executors : run'[x].pc = "idle" <=> run[x].pc = "idle"
  BY DEF SandboxInv, SandboxTypes
<1> QED
  BY <1>1, <1>2, <1>3, ProgressUntouched DEF SandboxInv

\* A registered process has an open channel in the map.
LEMMA StartProcessMonitoringStep ==
    ASSUME SandboxInv, NEW e \in Executors, StartProcessMonitoring(e) PROVE SandboxInv'
<1>1. /\ run[e].pc = "register" /\ run' = [run EXCEPT ![e].pc = "select"]
      /\ UNCHANGED <<box, cleanup, metrics>>
  BY DEF StartProcessMonitoring
<1>2. run \in [Executors -> RunState]
  BY DEF SandboxInv, SandboxTypes
<1>3. /\ run' \in [Executors -> RunState] /\ run'[e].pc = "select"
      /\ \A x \in Executors \ {e} : run'[x] = run[x]
  BY <1>1, <1>2 DEF RunState
<1>4. SandboxTypes' /\ WatchedAreOpen'
  <2>1. CASE /\ watched' = watched \cup {e}
             /\ watcher' = [watcher EXCEPT
                    ![e] = [pc |-> "watching", violation |-> FALSE, closed |-> 0]]
    <3>1. SandboxTypes'
      BY <1>1, <1>3, <2>1 DEF SandboxInv, SandboxTypes
    <3>2. WatchedAreOpen'
      BY <1>3, <2>1 DEF SandboxInv, SandboxTypes, WatchedAreOpen
    <3> QED
      BY <3>1, <3>2
  <2>2. CASE UNCHANGED <<watched, watcher>>
    <3>1. SandboxTypes'
      BY <1>1, <1>3, <2>2 DEF SandboxInv, SandboxTypes
    <3>2. WatchedAreOpen'
      BY <1>1, <1>3, <2>2 DEF SandboxInv, SandboxTypes, WatchedAreOpen
    <3> QED
      BY <3>1, <3>2
  <2> QED
    BY <2>1, <2>2 DEF StartProcessMonitoring
<1>5. \A x \in Executors : run'[x].pc = "idle" <=> run[x].pc = "idle"
  BY <1>1, <1>3
<1> QED
  BY <1>1, <1>4, <1>5, ProgressUntouched DEF SandboxInv

\* A watcher stops or reports; its channel and the map are as before.
LEMMA WatcherStep ==
    ASSUME SandboxInv, NEW e \in Executors, FindViolation(e) \/ WatcherStops(e)
    PROVE  SandboxInv'
<1>1. /\ UNCHANGED <<box, run, watched, cleanup, metrics>>
      /\ \/ watcher' = [watcher EXCEPT ![e].violation = TRUE]
         \/ watcher' = [watcher EXCEPT ![e].pc = "none"]
  BY DEF FindViolation, WatcherStops
<1>2. watcher' \in [Executors -> [pc : {"none", "watching"}, violation : BOOLEAN,
                                   closed : Nat]]
  <2>1. CASE watcher' = [watcher EXCEPT ![e].violation = TRUE]
    BY ZenonT(60), <2>1 DEF SandboxInv, SandboxTypes
  <2>2. CASE watcher' = [watcher EXCEPT ![e].pc = "none"]
    BY <2>2 DEF SandboxInv, SandboxTypes
  <2> QED
    BY <1>1, <2>1, <2>2
<1>3. SandboxTypes'
  BY <1>1, <1>2 DEF SandboxInv, SandboxTypes
<1>4. WatchedAreOpen'
  BY <1>1 DEF SandboxInv, SandboxTypes, WatchedAreOpen
<1> QED
  BY <1>1, <1>3, <1>4, ProgressUntouched DEF SandboxInv

\* Whoever stops the watching, the channel ends up closed once.
LEMMA StopsOnce ==
    ASSUME SandboxInv, NEW e \in Executors, StopProcessMonitoring(e)
    PROVE  /\ watched' = watched \ {e}
           /\ watcher' \in [Executors -> [pc : {"none", "watching"}, violation : BOOLEAN,
                                          closed : Nat]]
           /\ \A x \in Executors :
                /\ watcher'[x].closed <= 1
                /\ x \in watched' => watcher'[x].closed = 0
                /\ x \notin watched' /\ watcher'[x].pc = "watching"
                     => watcher'[x].closed = 1
  BY DEF SandboxInv, SandboxTypes, WatchedAreOpen, StopProcessMonitoring

\* The run that ends stops its own watcher.
LEMMA StopStep == ASSUME SandboxInv, NEW e \in Executors, Stop(e) PROVE SandboxInv'
<1>1. /\ run[e].pc = "stop" /\ run' = [run EXCEPT ![e].pc = "count"]
      /\ StopProcessMonitoring(e) /\ UNCHANGED <<box, cleanup, metrics>>
  BY DEF Stop
<1>2. /\ watched' = watched \ {e}
      /\ watcher' \in [Executors -> [pc : {"none", "watching"}, violation : BOOLEAN,
                                     closed : Nat]]
      /\ \A x \in Executors :
           /\ watcher'[x].closed <= 1
           /\ x \in watched' => watcher'[x].closed = 0
           /\ x \notin watched' /\ watcher'[x].pc = "watching" => watcher'[x].closed = 1
  BY <1>1, StopsOnce
<1>3. run' \in [Executors -> RunState]
  BY <1>1 DEF SandboxInv, SandboxTypes, RunState
<1>4. SandboxTypes'
  BY <1>1, <1>2, <1>3 DEF SandboxInv, SandboxTypes
<1>5. WatchedAreOpen'
  BY <1>1, <1>2 DEF SandboxInv, SandboxTypes, WatchedAreOpen
<1>6. \A x \in Executors : run'[x].pc = "idle" <=> run[x].pc = "idle"
  BY <1>1 DEF SandboxInv, SandboxTypes, RunState
<1> QED
  BY <1>1, <1>4, <1>5, <1>6, ProgressUntouched DEF SandboxInv

\* A cleanup stops the watcher of the process it kills.
LEMMA KillProcessStep ==
    ASSUME SandboxInv, NEW k \in Cleaners, KillProcess(k) PROVE SandboxInv'
<1>1. PICK e \in cleanup[k].left :
        /\ cleanup' = [cleanup EXCEPT ![k].left = @ \ {e}]
        /\ run' = [run EXCEPT ![e].process = IF @ = "running" THEN "exited" ELSE @]
        /\ StopProcessMonitoring(e)
        /\ UNCHANGED <<box, metrics>>
  BY DEF KillProcess
<1>2. e \in Executors
  BY <1>1 DEF SandboxInv, SandboxTypes
<1>3. /\ watched' = watched \ {e}
      /\ watcher' \in [Executors -> [pc : {"none", "watching"}, violation : BOOLEAN,
                                     closed : Nat]]
      /\ \A x \in Executors :
           /\ watcher'[x].closed <= 1
           /\ x \in watched' => watcher'[x].closed = 0
           /\ x \notin watched' /\ watcher'[x].pc = "watching" => watcher'[x].closed = 1
  BY <1>1, <1>2, StopsOnce
<1>4. run' \in [Executors -> RunState] /\ \A x \in Executors : run'[x].pc = run[x].pc
  BY SMTT(60), <1>1, <1>2 DEF SandboxInv, SandboxTypes, RunState
<1>5. SandboxTypes'
  BY SMTT(60), <1>1, <1>2, <1>3, <1>4 DEF SandboxInv, SandboxTypes
<1>6. WatchedAreOpen'
  BY <1>3, <1>4 DEF SandboxInv, WatchedAreOpen
<1> QED
  BY <1>1, <1>4, <1>5, <1>6, ProgressUntouched DEF SandboxInv

\* No step of a run, a watcher or a cleanup breaks the invariant.
LEMMA SandboxStep == ASSUME SandboxInv, SandboxNext PROVE SandboxInv'
<1> USE DEF RunState
<1>1. ASSUME NEW e \in Executors,
             Refuse(e) \/ StartFails(e) \/ Count(e) PROVE SandboxInv'
  BY <1>1, RunEnds DEF Refuse, StartFails, Count
<1>2. ASSUME NEW e \in Executors,
             Validate(e) \/ Start(e) \/ ProcessExits(e) \/ Kill(e) \/ Exits(e)
      PROVE  SandboxInv'
  <2>1. run[e] \in RunState /\ (e \in watched => run[e].pc \in {"select", "stop"})
    BY DEF SandboxInv, SandboxTypes, WatchedAreOpen
  <2>2. CASE Validate(e)
    <3> DEFINE new == [run[e] EXCEPT !.pc = "start"]
    <3>1. run' = [run EXCEPT ![e] = new]
      BY <2>2 DEF Validate
    <3> QED
      BY <2>1, <2>2, <3>1, RunGoesOn DEF Validate
  <2>3. CASE Start(e)
    <3> DEFINE new == [run[e] EXCEPT !.pc = "register", !.process = "running"]
    <3>1. run' = [run EXCEPT ![e] = new]
      BY <2>3 DEF Start, SandboxInv, SandboxTypes
    <3>2. new \in RunState /\ new.pc = "register"
      BY <2>1
    <3> HIDE DEF new
    <3> QED
      BY <2>1, <2>3, <3>1, <3>2, RunGoesOn DEF Start
  <2>4. CASE ProcessExits(e)
    <3> DEFINE new == [run[e] EXCEPT !.process = "exited"]
    <3>1. run' = [run EXCEPT ![e] = new]
      BY <2>4 DEF ProcessExits
    <3> QED
      BY <2>1, <2>4, <3>1, RunGoesOn DEF ProcessExits
  <2>5. CASE Kill(e)
    <3> DEFINE new == [run[e] EXCEPT !.pc = "stop", !.process = "exited",
                                     !.verdict = "failed"]
    <3>1. run' = [run EXCEPT ![e] = new]
      BY <2>5 DEF Kill, SandboxInv, SandboxTypes
    <3>2. new \in RunState /\ new.pc = "stop"
      BY <2>1
    <3> HIDE DEF new
    <3> QED
      BY <2>1, <2>5, <3>1, <3>2, RunGoesOn DEF Kill
  <2>6. CASE Exits(e)
    <3>1. PICK verdict \in {"failed", "successful"} :
              run' = [run EXCEPT ![e].pc = "stop", ![e].verdict = verdict]
      BY <2>6 DEF Exits
    <3> DEFINE new == [run[e] EXCEPT !.pc = "stop", !.verdict = verdict]
    <3>2. run' = [run EXCEPT ![e] = new]
      BY <3>1 DEF SandboxInv, SandboxTypes
    <3>3. new \in RunState /\ new.pc = "stop"
      BY <2>1
    <3> HIDE DEF new
    <3> QED
      BY <2>1, <2>6, <3>2, <3>3, RunGoesOn DEF Exits
  <2> QED
    BY <1>2, <2>2, <2>3, <2>4, <2>5, <2>6
<1>3. ASSUME NEW k \in Cleaners, Cleanup(k) \/ RemoveRoot(k) PROVE SandboxInv'
  <2>1. UNCHANGED <<run, watched, watcher, metrics>>
    BY <1>3 DEF Cleanup, RemoveRoot
  <2>2. cleanup' \in [Cleaners -> [pc : {"idle", "kill", "done"}, left : SUBSET Executors]]
    BY <1>3 DEF Cleanup, RemoveRoot, SandboxInv, SandboxTypes
  <2>3. SandboxTypes' /\ WatchedAreOpen'
    BY <2>1, <2>2 DEF SandboxInv, SandboxTypes, WatchedAreOpen
  <2> QED
    BY <2>1, <2>3, ProgressUntouched DEF SandboxInv
<1> QED
  BY <1>1, <1>2, <1>3, ExecuteStep, StartProcessMonitoringStep, WatcherStep, StopStep,
     KillProcessStep DEF SandboxNext, TimesOut, Violates

\* The invariant gives what the sandbox promises of its runs and watchers.
LEMMA SandboxInvMeans == SandboxInv => RunsAndWatchersEnd
  BY DEF SandboxInv, WatchedAreOpen, RunsAndWatchersEnd, WatchersAreStoppedOnce

-----------------------------------------------------------------------------
(***************************************************************************)
(* The shell tool: what its readers keep.                                  *)
(***************************************************************************)
CommandState == [state : {"none", "running", "dead"}, holder : BOOLEAN,
                 written : [Streams -> Nat]]
ReaderState == [pc : {"none", "reading", "truncated", "ended"}, kept : Nat]

BashTypes ==
    /\ shell \in [Shells -> {"idle", "reading", "returned"}]
    /\ command \in [Shells -> CommandState]
    /\ pipe \in [Shells -> [Streams -> Nat]]
    /\ reader \in [Shells -> [Streams -> ReaderState]]

\* A line that was written is kept or in the pipe, and the output ends when no one
\* can write to it and nothing is left in the pipe.
LinesAreSomewhere ==
    \A c \in Shells, s \in Streams :
        /\ command[c].written[s] = reader[c][s].kept + pipe[c][s]
        /\ reader[c][s].pc = "ended" => pipe[c][s] = 0 /\ command[c].state /= "running"
        /\ reader[c][s].pc = "none" => shell[c] = "idle"
        /\ shell[c] = "returned" => reader[c][s].pc /= "reading"
        /\ shell[c] = "idle" => command[c].state = "none"

BashInv == BashTypes /\ LinesAreSomewhere

\* At the start no shell has a command.
LEMMA BashInitInv == BashInit => BashInv
  BY DEF BashInit, BashInv, BashTypes, LinesAreSomewhere, NoCommand, Streams,
         CommandState, ReaderState

\* A step of one shell that changes nothing of the others.
LEMMA OneShell ==
    ASSUME BashInv, NEW c \in Shells, BashTypes',
           \A d \in Shells \ {c} : /\ shell'[d] = shell[d] /\ command'[d] = command[d]
                                   /\ pipe'[d] = pipe[d] /\ reader'[d] = reader[d],
           \A s \in Streams :
             /\ command'[c].written[s] = reader'[c][s].kept + pipe'[c][s]
             /\ reader'[c][s].pc = "ended" => pipe'[c][s] = 0 /\ command'[c].state /= "running"
             /\ reader'[c][s].pc = "none" => shell'[c] = "idle"
             /\ shell'[c] = "returned" => reader'[c][s].pc /= "reading"
             /\ shell'[c] = "idle" => command'[c].state = "none"
    PROVE  BashInv'
<1>1. LinesAreSomewhere'
  <2> SUFFICES ASSUME NEW d \in Shells, NEW s \in Streams
               PROVE
        /\ command'[d].written[s] = reader'[d][s].kept + pipe'[d][s]
        /\ reader'[d][s].pc = "ended" => pipe'[d][s] = 0 /\ command'[d].state /= "running"
        /\ reader'[d][s].pc = "none" => shell'[d] = "idle"
        /\ shell'[d] = "returned" => reader'[d][s].pc /= "reading"
        /\ shell'[d] = "idle" => command'[d].state = "none"
    BY DEF LinesAreSomewhere
  <2>1. CASE d = c
    BY <2>1
  <2>2. CASE d /= c
    BY <2>2 DEF BashInv, LinesAreSomewhere
  <2> QED
    BY <2>1, <2>2
<1> QED
  BY <1>1 DEF BashInv

\* Every line stays accounted for, whoever moves.
LEMMA BashStep == ASSUME BashInv, BashNext PROVE BashInv'
<1>1. PICK c \in Shells :
        \/ ExecuteShell(c) \/ WriteLine(c) \/ CommandEnds(c) \/ HolderEnds(c)
        \/ StreamReader(c) \/ ScannerFails(c) \/ EndOfOutput(c) \/ ReturnOutput(c)
  BY DEF BashNext
<1>2. CASE ExecuteShell(c)
  <2> DEFINE new == [NoCommand EXCEPT !.state = "running"]
  <2>1. /\ new \in CommandState /\ new.state = "running"
        /\ \A s \in Streams : new.written[s] = 0
    BY DEF NoCommand, CommandState
  <2>2. /\ shell' = [shell EXCEPT ![c] = "reading"]
        /\ command' = [command EXCEPT ![c] = new]
        /\ pipe' = [pipe EXCEPT ![c] = [s \in Streams |-> 0]]
        /\ reader' = [reader EXCEPT ![c] = [s \in Streams |-> [pc |-> "reading", kept |-> 0]]]
    BY <1>2 DEF ExecuteShell
  <2> HIDE DEF new
  <2>3. BashTypes'
    BY <2>1, <2>2 DEF BashInv, BashTypes, ReaderState
  <2>4. /\ shell'[c] = "reading" /\ command'[c] = new
        /\ \A s \in Streams : pipe'[c][s] = 0 /\ reader'[c][s] = [pc |-> "reading", kept |-> 0]
        /\ \A d \in Shells \ {c} : /\ shell'[d] = shell[d] /\ command'[d] = command[d]
                                   /\ pipe'[d] = pipe[d] /\ reader'[d] = reader[d]
    BY <2>2 DEF BashInv, BashTypes
  <2> QED
    BY <2>1, <2>3, <2>4, OneShell
<1>3. CASE WriteLine(c)
  <2>1. PICK s \in Streams :
          /\ command[c].state = "running"
          /\ command' = [command EXCEPT ![c].written[s] = @ + 1]
          /\ pipe' = [pipe EXCEPT ![c][s] = @ + 1]
          /\ UNCHANGED <<shell, reader>>
    BY <1>3 DEF WriteLine
  <2> DEFINE new == [command[c] EXCEPT !.written[s] = @ + 1]
  <2>2. /\ new \in CommandState /\ new.state = "running"
        /\ \A r \in Streams : new.written[r] =
               IF r = s THEN command[c].written[r] + 1 ELSE command[c].written[r]
    <3>1. command[c] \in CommandState
      BY DEF BashInv, BashTypes
    <3> QED
      BY <2>1, <3>1 DEF CommandState
  <2>3. command' = [command EXCEPT ![c] = new]
    BY <2>1
  <2> HIDE DEF new
  <2>4. BashTypes'
    <3>1. [pipe[c] EXCEPT ![s] = @ + 1] \in [Streams -> Nat]
      BY DEF BashInv, BashTypes
    <3> QED
      BY <2>1, <2>2, <2>3, <3>1 DEF BashInv, BashTypes
  <2>5. \A r \in Streams :
          /\ pipe[c][r] \in Nat /\ reader[c][r] \in ReaderState
          /\ pipe'[c][r] = IF r = s THEN pipe[c][r] + 1 ELSE pipe[c][r]
          /\ command'[c] = new
    BY <2>1, <2>3 DEF BashInv, BashTypes
  <2>6. \A r \in Streams :
          /\ command'[c].written[r] = reader[c][r].kept + pipe'[c][r]
          /\ reader[c][r].pc /= "ended"
    <3> SUFFICES ASSUME NEW r \in Streams
                 PROVE  /\ command'[c].written[r] = reader[c][r].kept + pipe'[c][r]
                        /\ reader[c][r].pc /= "ended"
      OBVIOUS
    <3>1. /\ command[c].written[r] = reader[c][r].kept + pipe[c][r]
          /\ reader[c][r].kept \in Nat
      BY <2>5 DEF BashInv, LinesAreSomewhere, ReaderState
    <3>2. reader[c][r].pc /= "ended"
      BY <2>1 DEF BashInv, LinesAreSomewhere
    <3> QED
      BY <2>2, <2>5, <3>1, <3>2
  <2>7. shell[c] /= "idle"
    BY <2>1 DEF BashInv, LinesAreSomewhere, Streams
  <2>8. \A d \in Shells \ {c} : command'[d] = command[d] /\ pipe'[d] = pipe[d]
    BY <2>1, <2>3 DEF BashInv, BashTypes
  <2> QED
    BY <2>1, <2>4, <2>6, <2>7, <2>8, OneShell DEF BashInv, LinesAreSomewhere
<1>4. CASE CommandEnds(c) \/ HolderEnds(c)
  <2> command[c] \in CommandState
    BY DEF BashInv, BashTypes
  <2>1. PICK new \in CommandState :
          /\ command' = [command EXCEPT ![c] = new]
          /\ new.written = command[c].written
          /\ new.state = "dead" \/ new.state = command[c].state
          /\ new.state = "none" <=> command[c].state = "none"
    <3>1. CASE HolderEnds(c)
      <4> DEFINE new == [command[c] EXCEPT !.holder = FALSE]
      <4>1. new \in CommandState /\ new.written = command[c].written /\ new.state = command[c].state
        BY DEF CommandState
      <4> QED
        BY <3>1, <4>1 DEF HolderEnds
    <3>2. CASE CommandEnds(c)
      <4>1. PICK holder \in BOOLEAN :
              /\ command[c].state = "running"
              /\ command' = [command EXCEPT ![c].state = "dead", ![c].holder = holder]
        BY <3>2 DEF CommandEnds
      <4> DEFINE new == [command[c] EXCEPT !.state = "dead", !.holder = holder]
      <4>2. new \in CommandState /\ new.written = command[c].written /\ new.state = "dead"
        BY DEF CommandState
      <4>3. command' = [command EXCEPT ![c] = new]
        BY <4>1 DEF BashInv, BashTypes
      <4> HIDE DEF new
      <4> QED
        BY <4>1, <4>2, <4>3
    <3> QED
      BY <1>4, <3>1, <3>2
  <2>2. UNCHANGED <<shell, pipe, reader>>
    BY <1>4 DEF CommandEnds, HolderEnds
  <2>3. BashTypes'
    BY <2>1, <2>2 DEF BashInv, BashTypes
  <2>4. command'[c] = new /\ \A d \in Shells \ {c} : command'[d] = command[d]
    BY <2>1 DEF BashInv, BashTypes
  <2> QED
    BY <2>1, <2>2, <2>3, <2>4, OneShell DEF BashInv, LinesAreSomewhere
<1>5. CASE StreamReader(c) \/ ScannerFails(c) \/ EndOfOutput(c)
  <2> DEFINE Reads(s, new, n) ==
          /\ reader[c][s].pc = "reading" /\ new.pc /= "none"
          /\ pipe' = [pipe EXCEPT ![c][s] = n]
          /\ reader' = [reader EXCEPT ![c][s] = new]
          /\ new.kept + n = reader[c][s].kept + pipe[c][s]
          /\ new.pc = "ended" => n = 0 /\ command[c].state /= "running"
          /\ UNCHANGED <<shell, command>>
  <2>1. PICK s \in Streams, new \in ReaderState, n \in Nat : Reads(s, new, n)
    <3>0. pipe \in [Shells -> [Streams -> Nat]] /\ reader \in [Shells -> [Streams -> ReaderState]]
      BY DEF BashInv, BashTypes
    <3>1. CASE StreamReader(c)
      <4>1. PICK s \in Streams :
              /\ reader[c][s].pc = "reading" /\ pipe[c][s] > 0
              /\ pipe' = [pipe EXCEPT ![c][s] = @ - 1]
              /\ reader' = [reader EXCEPT ![c][s] =
                   [pc   |-> IF @.kept + 1 > MaxOutputSize THEN "truncated" ELSE "reading",
                    kept |-> @.kept + 1]]
              /\ UNCHANGED <<shell, command>>
        BY <3>1 DEF StreamReader
      <4> DEFINE new == [pc   |-> IF reader[c][s].kept + 1 > MaxOutputSize
                                 THEN "truncated" ELSE "reading",
                         kept |-> reader[c][s].kept + 1]
                 n == pipe[c][s] - 1
      <4>2. reader[c][s].kept \in Nat /\ pipe[c][s] \in Nat
        BY <3>0 DEF ReaderState
      <4>3. /\ new \in ReaderState /\ new.pc \notin {"none", "ended"} /\ n \in Nat
            /\ new.kept + n = reader[c][s].kept + pipe[c][s]
        BY <4>1, <4>2 DEF ReaderState
      <4>4. pipe' = [pipe EXCEPT ![c][s] = n] /\ reader' = [reader EXCEPT ![c][s] = new]
        BY <4>1
      <4> HIDE DEF new, n
      <4>5. Reads(s, new, n)
        BY <4>1, <4>3, <4>4
      <4> HIDE DEF Reads
      <4> QED
        BY <4>3, <4>5
    <3>2. CASE ScannerFails(c) \/ EndOfOutput(c)
      <4>1. PICK s \in Streams, place \in {"truncated", "ended"} :
              /\ reader[c][s].pc = "reading"
              /\ reader' = [reader EXCEPT ![c][s].pc = place]
              /\ place = "ended" => pipe[c][s] = 0 /\ command[c].state /= "running"
              /\ UNCHANGED <<shell, command, pipe>>
        BY <3>2 DEF ScannerFails, EndOfOutput, Held
      <4> DEFINE new == [reader[c][s] EXCEPT !.pc = place]
                 n == pipe[c][s]
      <4>2. reader[c][s] \in ReaderState /\ pipe[c][s] \in Nat
        BY <3>0
      <4>3. /\ new \in ReaderState /\ new.pc = place /\ new.kept = reader[c][s].kept
        BY <4>2 DEF ReaderState
      <4>4. pipe' = [pipe EXCEPT ![c][s] = n] /\ reader' = [reader EXCEPT ![c][s] = new]
        BY <3>0, <4>1
      <4> HIDE DEF new
      <4>5. Reads(s, new, n)
        BY <4>1, <4>2, <4>3, <4>4
      <4> HIDE DEF Reads
      <4> QED
        BY <4>2, <4>3, <4>5
    <3> QED
      BY <1>5, <3>1, <3>2
  <2>2. BashTypes'
    <3>1. /\ [pipe[c] EXCEPT ![s] = n] \in [Streams -> Nat]
          /\ [reader[c] EXCEPT ![s] = new] \in [Streams -> ReaderState]
      BY DEF BashInv, BashTypes
    <3> QED
      BY <2>1, <3>1 DEF BashInv, BashTypes
  <2>3. /\ \A d \in Shells \ {c} : pipe'[d] = pipe[d] /\ reader'[d] = reader[d]
        /\ \A r \in Streams : /\ pipe'[c][r] = IF r = s THEN n ELSE pipe[c][r]
                              /\ reader'[c][r] = IF r = s THEN new ELSE reader[c][r]
    BY <2>1 DEF BashInv, BashTypes
  <2>4. shell[c] /= "returned"
    BY <2>1 DEF BashInv, LinesAreSomewhere
  <2> QED
    BY <2>1, <2>2, <2>3, <2>4, OneShell DEF BashInv, LinesAreSomewhere
<1>6. CASE ReturnOutput(c)
  BY <1>6 DEF BashInv, BashTypes, LinesAreSomewhere, ReturnOutput
<1> QED
  BY <1>1, <1>2, <1>3, <1>4, <1>5, <1>6

\* A shell that has returned without truncation kept all that was written.
LEMMA BashInvMeans == BashInv => OutputIsComplete
<1> SUFFICES ASSUME BashInv, NEW c \in Shells, NEW s \in Streams, shell[c] = "returned"
             PROVE  \/ reader[c][s].kept = command[c].written[s]
                    \/ reader[c][s].pc = "truncated"
  BY DEF OutputIsComplete
<1>1. reader[c][s].pc \in {"truncated", "ended"} /\ reader[c][s].kept \in Nat
  BY DEF BashInv, BashTypes, ReaderState, LinesAreSomewhere
<1> QED
  BY <1>1 DEF BashInv, LinesAreSomewhere

-----------------------------------------------------------------------------
(***************************************************************************)
(* The security auditor.  Of the log the invariant says where each id is,  *)
(* that names tell files apart and the open file has the highest, and that  *)
(* every name chosen for removal is below it: a file made after a listing   *)
(* is newer than all that were chosen, so an old listing does no harm.      *)
(***************************************************************************)
ThreatAlert(level, about) ==
    AuditEvent("security_violation", level, FALSE, NoUser, about, "threat_detector")
ThreatAlerts == {ThreatAlert("critical", "privilege"), ThreatAlert("critical", "nothing"),
                 ThreatAlert("warning", "privilege"), ThreatAlert("warning", "nothing")}
Accesses == {SystemAccess("warning"), SystemAccess("info")}
Reports == Calls \cup ThreatAlerts \cup Accesses
Stamps == [event : Reports, id : Nat, time : Nat]
Files == [name : Nat, events : SUBSET Stamps]

\* Every id up to n is in exactly one place.
Places(files, queue, lost, n) ==
    /\ n \in Nat
    /\ queue \in Seq(Stamps)
    /\ lost \subseteq 1..n
    /\ \A i \in 1..Len(queue) : queue[i].id \in 1..n /\ queue[i].id \notin lost
    /\ \A i, j \in 1..Len(queue) : queue[i].id = queue[j].id => i = j
    /\ \A f \in files : \A e \in f.events :
           /\ e.id \in 1..n /\ e.id \notin lost
           /\ \A i \in 1..Len(queue) : e.id /= queue[i].id
    /\ \A f, g \in files : \A d \in f.events, e \in g.events : d.id = e.id => f = g /\ d = e
    /\ \A k \in 1..n : \/ k \in lost
                       \/ \E i \in 1..Len(queue) : queue[i].id = k
                       \/ \E f \in files : \E e \in f.events : e.id = k

\* The log directory: a file for each name, of which the open one has the highest.
Directory(files, open, time) ==
    /\ files \subseteq Files
    /\ \A f, g \in files : f.name = g.name => f = g
    /\ \A f \in files : f.name <= open
    /\ \E f \in files : f.name = open
    /\ open \in Nat /\ time \in Nat /\ open <= time

\* The names chosen for removal.
Spared(names, chosen, open) ==
    /\ open \in Nat /\ names \subseteq Nat
    /\ \A n \in names : n <= open
    /\ \A n \in chosen : /\ n \in Nat /\ n < open
                         /\ n \in names => Cardinality(NewerThan(n, names)) >= MaxFiles

AuditInv ==
    /\ Places(logs, buffer, gone, counter)
    /\ Directory(logs, current.name, now)
    /\ Spared(LogFiles, doomed, current.name)
    /\ current \in [name : Nat, open : BOOLEAN, size : Nat]
    /\ Len(buffer) <= BufferSize
    /\ writing \in BOOLEAN

\* The sizes the auditor is configured with.
LEMMA ConstantsOfAudit == /\ BufferSize \in Nat \ {0} /\ MaxFileSize \in Nat \ {0}
                          /\ MaxFiles \in Nat \ {0} /\ MaxEvents \in Nat
  BY AuditAssumption

\* The callers make events, and so does the detector.
LEMMA AlertsAreReports == \A i : Alert(i) \in Reports
<1> SUFFICES ASSUME NEW i PROVE Alert(i) \in Reports
  OBVIOUS
<1> DEFINE level == IF i.level = "critical" THEN "critical" ELSE "warning"
           about == IF i.id[1] = "priv_esc" THEN "privilege" ELSE "nothing"
<1>1. level \in {"critical", "warning"} /\ about \in {"privilege", "nothing"}
  OBVIOUS
<1>2. Alert(i) = ThreatAlert(level, about)
  BY DEF Alert, ThreatAlert
<1> HIDE DEF level, about
<1> QED
  BY <1>1, <1>2 DEF Reports, ThreatAlerts

\* What is left of an event below the level is a sequence still.
LEMMA LoggableType == \A event \in Reports : Loggable(event) \in Seq(Reports)
  BY DEF Loggable

\* Whatever is logged is a report.
LEMMA EventsAreReports ==
    /\ \A event \in Calls : Loggable(event) \in Seq(Reports)
    /\ \A i : Loggable(Alert(i)) \in Seq(Reports)
    /\ \A level \in {"warning", "info"} : Loggable(SystemAccess(level)) \in Seq(Reports)
<1>1. Calls \subseteq Reports
  BY DEF Reports
<1>2. \A level \in {"warning", "info"} : SystemAccess(level) \in Reports
  BY DEF Reports, Accesses
<1> QED
  BY <1>1, <1>2, AlertsAreReports, LoggableType

\* Events that follow n others got their ids and a time ...
StampedAfter(stamped, n, room, at) ==
    /\ stamped \in Seq(Stamps) /\ Len(stamped) = room
    /\ \A i \in 1..room : stamped[i].id = n + i /\ stamped[i].time = at

\* ... those from one to another are lost ...
LostBetween(dropped, lost, low, high) == \A k : k \in dropped <=> k \in lost \/ k \in low..high

\* ... and those new to a queue have that time.
NewestAt(queue, later, at) ==
    \A i \in 1..Len(later) : \/ i \in 1..Len(queue) /\ later[i] = queue[i]
                             \/ later[i].time = at

\* Events that enter the channel, or find it full.
LEMMA Entering ==
    ASSUME NEW files, NEW queue, NEW lost, NEW n, Places(files, queue, lost, n),
           NEW m \in Nat, NEW at \in Nat, NEW room \in 0..m,
           NEW stamped, StampedAfter(stamped, n, room, at),
           NEW dropped, LostBetween(dropped, lost, n+room+1, n+m)
    PROVE  /\ Places(files, queue \o stamped, dropped, n + m)
           /\ Len(queue \o stamped) = Len(queue) + room
           /\ NewestAt(queue, queue \o stamped, at)
<1> USE DEF StampedAfter, LostBetween
<1> DEFINE joined == queue \o stamped
           total == n + m
<1>1. n \in Nat /\ queue \in Seq(Stamps)
  BY DEF Places
<1>2. /\ joined \in Seq(Stamps)
      /\ Len(joined) = Len(queue) + room
      /\ \A i \in 1..Len(queue) : joined[i] = queue[i]
      /\ \A i \in Len(queue)+1..Len(queue)+room : joined[i] = stamped[i - Len(queue)]
  BY <1>1
<1>4. \A i \in Len(queue)+1..Len(joined) : joined[i].id = n + (i - Len(queue)) /\ joined[i].time = at
  <2> SUFFICES ASSUME NEW i \in Len(queue)+1..Len(joined)
               PROVE  joined[i].id = n + (i - Len(queue)) /\ joined[i].time = at
    OBVIOUS
  <2>1. joined[i] = stamped[i - Len(queue)] /\ i - Len(queue) \in 1..room
    BY <1>1, <1>2
  <2> QED
    BY <2>1
<1> HIDE DEF joined
<1>5. total \in Nat /\ dropped \subseteq 1..total /\ Len(queue) \in Nat
  <2>1. lost \subseteq 1..n /\ Len(queue) \in Nat
    BY <1>1 DEF Places
  <2>2. \A k \in 1..n : k \in 1..n+m
    BY <1>1
  <2>3. \A k \in n+room+1..n+m : k \in 1..n+m
    BY <1>1
  <2>4. ASSUME NEW k \in dropped PROVE k \in 1..n+m
    <3>1. k \in lost \/ k \in n+room+1..n+m
      OBVIOUS
    <3> QED
      BY <3>1, <2>1, <2>2, <2>3
  <2> QED
    BY <1>1, <2>1, <2>4
<1>6. \A i \in 1..Len(joined) : \/ i \in 1..Len(queue) /\ joined[i] = queue[i]
                                \/ i \in Len(queue)+1..Len(joined)
  BY <1>2, <1>5
<1>7. \A k \in 1..n : k \in dropped <=> k \in lost
  BY <1>1
<1>8. \A i \in 1..Len(joined) : joined[i].id \in 1..total /\ joined[i].id \notin dropped
  <2> SUFFICES ASSUME NEW i \in 1..Len(joined)
               PROVE  joined[i].id \in 1..total /\ joined[i].id \notin dropped
    OBVIOUS
  <2>1. CASE i \in 1..Len(queue) /\ joined[i] = queue[i]
    BY <2>1, <1>1, <1>7 DEF Places
  <2>2. CASE i \in Len(queue)+1..Len(joined)
    <3>1. joined[i].id = n + (i - Len(queue)) /\ i - Len(queue) \in 1..room
      BY <2>2, <1>4, <1>2, <1>5
    <3>2. n + (i - Len(queue)) \notin lost
      BY <3>1, <1>1 DEF Places
    <3> QED
      BY <3>1, <3>2, <1>1
  <2> QED
    BY <2>1, <2>2, <1>6
<1>9. \A i, j \in 1..Len(joined) : joined[i].id = joined[j].id => i = j
  <2> SUFFICES ASSUME NEW i \in 1..Len(joined), NEW j \in 1..Len(joined),
                      joined[i].id = joined[j].id
               PROVE  i = j
    OBVIOUS
  <2>1. \A k \in 1..Len(queue) : queue[k].id \in 1..n
    BY DEF Places
  <2>2. \A k, l \in 1..Len(queue) : queue[k].id = queue[l].id => k = l
    BY DEF Places
  <2>3. \A k \in Len(queue)+1..Len(joined) : joined[k].id = n + (k - Len(queue))
    BY <1>4
  <2>4. CASE i \in 1..Len(queue) /\ j \in 1..Len(queue)
    BY <2>4, <2>2, <1>2
  <2>5. CASE i \in 1..Len(queue) /\ j \in Len(queue)+1..Len(joined)
    <3>1. joined[i].id <= n /\ joined[i].id \in Int
      <4>1. queue[i].id \in 1..n /\ joined[i] = queue[i]
        BY <2>5, <2>1, <1>2
      <4> QED
        BY <4>1, <1>1
    <3>2. joined[j].id > n
      BY <2>5, <2>3, <1>1, <1>2, <1>5
    <3> QED
      BY <3>1, <3>2, <1>1
  <2>6. CASE i \in Len(queue)+1..Len(joined) /\ j \in 1..Len(queue)
    <3>1. joined[j].id <= n /\ joined[j].id \in Int
      <4>1. queue[j].id \in 1..n /\ joined[j] = queue[j]
        BY <2>6, <2>1, <1>2
      <4> QED
        BY <4>1, <1>1
    <3>2. joined[i].id > n
      BY <2>6, <2>3, <1>1, <1>2, <1>5
    <3> QED
      BY <3>1, <3>2, <1>1
  <2>7. CASE i \in Len(queue)+1..Len(joined) /\ j \in Len(queue)+1..Len(joined)
    <3>1. n + (i - Len(queue)) = n + (j - Len(queue))
      BY <2>7, <2>3
    <3> QED
      BY <3>1, <1>1, <1>5, <2>7
  <2> QED
    BY <2>4, <2>5, <2>6, <2>7, <1>6
<1>10. \A f \in files : \A e \in f.events :
           /\ e.id \in 1..total /\ e.id \notin dropped
           /\ \A i \in 1..Len(joined) : e.id /= joined[i].id
  <2> SUFFICES ASSUME NEW f \in files, NEW e \in f.events
               PROVE  /\ e.id \in 1..total /\ e.id \notin dropped
                      /\ \A i \in 1..Len(joined) : e.id /= joined[i].id
    OBVIOUS
  <2>1. e.id \in 1..n /\ e.id \notin lost /\ \A i \in 1..Len(queue) : e.id /= queue[i].id
    BY DEF Places
  <2>2. \A i \in 1..Len(joined) : e.id /= joined[i].id
    <3>1. \A i \in Len(queue)+1..Len(joined) : joined[i].id > n
      BY <1>1, <1>2, <1>4, <1>5
    <3>2. e.id \in Int /\ e.id <= n
      BY <2>1, <1>1
    <3> SUFFICES ASSUME NEW i \in 1..Len(joined), e.id = joined[i].id
                 PROVE  FALSE
      OBVIOUS
    <3>3. CASE i \in 1..Len(queue) /\ joined[i] = queue[i]
      BY <3>3, <2>1
    <3>4. CASE i \in Len(queue)+1..Len(joined)
      <4>1. joined[i].id > n
        BY <3>1, <3>4
      <4> QED
        BY <4>1, <3>2, <1>1
    <3> QED
      BY <3>3, <3>4, <1>6
  <2> QED
    BY <2>1, <2>2, <1>1, <1>7
<1>11. \A k \in 1..total : \/ k \in dropped
                           \/ \E i \in 1..Len(joined) : joined[i].id = k
                           \/ \E f \in files : \E e \in f.events : e.id = k
  <2> SUFFICES ASSUME NEW k \in 1..total
               PROVE  \/ k \in dropped
                      \/ \E i \in 1..Len(joined) : joined[i].id = k
                      \/ \E f \in files : \E e \in f.events : e.id = k
    OBVIOUS
  <2>1. CASE k \in 1..n
    <3>1. CASE k \in lost
      BY <3>1
    <3>2. CASE \E i \in 1..Len(queue) : queue[i].id = k
      BY <3>2, <1>2, <1>5
    <3> QED
      BY <2>1, <3>1, <3>2 DEF Places
  <2>2. CASE k - n \in 1..room
    <3>1. Len(queue) + (k - n) \in Len(queue)+1..Len(joined)
      BY <2>2, <1>1, <1>2, <1>5
    <3>2. joined[Len(queue) + (k - n)].id = k
      <4>1. joined[Len(queue) + (k - n)].id = n + ((Len(queue) + (k - n)) - Len(queue))
        BY <3>1, <1>4
      <4> QED
        BY <4>1, <1>1, <1>5
    <3> QED
      BY <3>1, <3>2, <1>5
  <2>3. CASE k - n \in room+1..m
    BY <2>3, <1>1
  <2> QED
    <3>1. k \in 1..n \/ k - n \in 1..room \/ k - n \in room+1..m
      BY <1>1
    <3> QED
      BY <2>1, <2>2, <2>3, <3>1
<1>12. \A f, g \in files : \A d \in f.events, e \in g.events : d.id = e.id => f = g /\ d = e
  BY DEF Places
<1>13. Places(files, joined, dropped, total)
  <2> HIDE DEF total
  <2> QED
    BY <1>2, <1>5, <1>8, <1>9, <1>10, <1>11, <1>12 DEF Places
<1> QED
  BY <1>2, <1>13, <1>4, <1>6 DEF joined, NewestAt

\* LogEvents gives each event its place.
LEMMA LogEventsKeep ==
    ASSUME AuditInv, NEW events \in Seq(Reports), LogEvents(events)
    PROVE  /\ Places(logs, buffer', gone', counter')
           /\ NewestAt(buffer, buffer', now)
           /\ Len(buffer') <= BufferSize
<1> DEFINE room == IF Len(events) <= BufferSize - Len(buffer)
                   THEN Len(events) ELSE BufferSize - Len(buffer)
           stamped == [i \in 1..room |-> [event |-> events[i], id |-> counter + i, time |-> now]]
<1>1. /\ counter' = counter + Len(events)
      /\ buffer' = buffer \o stamped
      /\ gone' = gone \cup {counter + i : i \in room+1..Len(events)}
  BY DEF LogEvents
<1>2. room \in 0..Len(events) /\ room <= BufferSize - Len(buffer) /\ Len(buffer) \in Nat
  BY ConstantsOfAudit DEF AuditInv, Places
<1>3. Places(logs, buffer, gone, counter) /\ now \in Nat
  BY DEF AuditInv, Directory
<1>4. /\ stamped \in Seq(Stamps) /\ Len(stamped) = room
      /\ \A i \in 1..room : stamped[i].id = counter + i /\ stamped[i].time = now
  <2>1. counter \in Nat
    BY <1>3 DEF Places
  <2>2. \A i \in 1..room : events[i] \in Reports
    BY <1>2
  <2>3. \A i \in 1..room : [event |-> events[i], id |-> counter + i, time |-> now] \in Stamps
    BY <1>3, <2>1, <2>2 DEF Stamps
  <2> HIDE DEF room
  <2> QED
    BY <1>2, <2>3
<1>5. \A k : k \in gone' <=> k \in gone \/ k \in counter+room+1..counter+Len(events)
  <2>1. counter \in Nat /\ Len(events) \in Nat
    BY <1>3 DEF Places
  <2>2. \A k : k \in {counter + i : i \in room+1..Len(events)} <=> k \in counter+room+1..counter+Len(events)
    <3> HIDE DEF room
    <3> SUFFICES ASSUME NEW k
                 PROVE  k \in {counter + i : i \in room+1..Len(events)}
                            <=> k \in counter+room+1..counter+Len(events)
      OBVIOUS
    <3>1. ASSUME k \in counter+room+1..counter+Len(events)
          PROVE  k \in {counter + i : i \in room+1..Len(events)}
      <4>1. k - counter \in room+1..Len(events) /\ k = counter + (k - counter)
        BY <3>1, <2>1, <1>2
      <4> QED
        BY <4>1
    <3>2. ASSUME k \in {counter + i : i \in room+1..Len(events)}
          PROVE  k \in counter+room+1..counter+Len(events)
      BY <3>2, <2>1, <1>2
    <3> QED
      BY <3>1, <3>2
  <2> HIDE DEF room
  <2> QED
    BY <1>1, <2>2
<1> HIDE DEF stamped, room
<1>6. /\ Places(logs, buffer \o stamped, gone', counter + Len(events))
      /\ Len(buffer \o stamped) = Len(buffer) + room
      /\ NewestAt(buffer, buffer \o stamped, now)
  <2> PICK dropped : dropped = gone'
    OBVIOUS
  <2>1. StampedAfter(stamped, counter, room, now)
    BY <1>4 DEF StampedAfter
  <2>2. LostBetween(dropped, gone, counter+room+1, counter+Len(events))
    BY <1>5 DEF LostBetween
  <2>3. Len(events) \in Nat /\ now \in Nat /\ room \in 0..Len(events) /\ Places(logs, buffer, gone, counter)
    BY <1>2, <1>3
  <2>4. /\ Places(logs, buffer \o stamped, dropped, counter + Len(events))
        /\ Len(buffer \o stamped) = Len(buffer) + room
        /\ NewestAt(buffer, buffer \o stamped, now)
    BY <2>1, <2>2, <2>3, Entering
  <2> QED
    BY <2>4
<1> QED
  BY <1>1, <1>2, <1>6, ConstantsOfAudit

\* An event that is written leaves the channel for the open file.
LEMMA Writing ==
    ASSUME AuditInv, buffer /= <<>>
    PROVE  /\ Places(Written(Head(buffer)), Tail(buffer), gone, counter)
           /\ Directory(Written(Head(buffer)), current.name, now)
           /\ Names(Written(Head(buffer))) = LogFiles
           /\ \A w \in Written(Head(buffer)) : \E f \in logs :
                  w.name = f.name /\ \A e \in w.events : e \in f.events \/ e = Head(buffer)
<1> PICK written : written = Written(Head(buffer))
  OBVIOUS
<1> PICK rest : rest = Tail(buffer)
  OBVIOUS
<1> DEFINE event == Head(buffer)
<1>1. /\ buffer \in Seq(Stamps) /\ logs \subseteq Files /\ counter \in Nat /\ current.name \in Nat
      /\ now \in Nat /\ current.name <= now
  BY DEF AuditInv, Places, Directory
<1>2. /\ event = buffer[1] /\ event \in Stamps /\ 1 \in 1..Len(buffer)
      /\ rest \in Seq(Stamps) /\ Len(rest) = Len(buffer) - 1 /\ Len(buffer) \in Nat
      /\ \A i \in 1..Len(rest) : rest[i] = buffer[i+1] /\ i+1 \in 1..Len(buffer)
  BY <1>1
<1> HIDE DEF event
<1>3. \A f \in logs :
          /\ WrittenTo(f, event) \in Files /\ WrittenTo(f, event).name = f.name
          /\ \A e : e \in WrittenTo(f, event).events
                     <=> e \in f.events \/ (e = event /\ f.name = current.name)
  <2> SUFFICES ASSUME NEW f \in logs
               PROVE  /\ WrittenTo(f, event) \in Files /\ WrittenTo(f, event).name = f.name
                      /\ \A e : e \in WrittenTo(f, event).events
                                 <=> e \in f.events \/ (e = event /\ f.name = current.name)
    OBVIOUS
  <2>1. f \in Files
    BY <1>1
  <2> QED
    BY <2>1, <1>2 DEF WrittenTo, Files
<1>4. /\ \A f \in logs : WrittenTo(f, event) \in written
      /\ \A w \in written : \E f \in logs : w = WrittenTo(f, event)
  BY DEF Written, event
<1>5. \A f, g \in logs : f.name = g.name => f = g
  BY DEF AuditInv, Directory
<1>6. PICK open \in logs : open.name = current.name
  BY DEF AuditInv, Directory
<1>7. \A w \in written : \E f \in logs :
          /\ w = WrittenTo(f, event) /\ w.name = f.name
          /\ \A e \in w.events : e \in f.events \/ (e = event /\ f = open)
  BY <1>3, <1>4, <1>5, <1>6
<1>8. Directory(written, current.name, now)
  <2>1. written \subseteq Files
    BY <1>3, <1>4
  <2>2. \A v, w \in written : v.name = w.name => v = w
    BY <1>5, <1>7
  <2>3. \A w \in written : w.name <= current.name
    BY <1>7 DEF AuditInv, Directory
  <2>4. \E w \in written : w.name = current.name
    BY <1>3, <1>4, <1>6
  <2> QED
    BY <1>1, <2>1, <2>2, <2>3, <2>4 DEF Directory
<1>9. Names(written) = LogFiles
  BY <1>3, <1>4, <1>7 DEF Names, LogFiles
<1>10. /\ gone \subseteq 1..counter
       /\ \A i \in 1..Len(buffer) : buffer[i].id \in 1..counter /\ buffer[i].id \notin gone
       /\ \A i, j \in 1..Len(buffer) : buffer[i].id = buffer[j].id => i = j
       /\ \A f \in logs : \A e \in f.events :
              /\ e.id \in 1..counter /\ e.id \notin gone
              /\ \A i \in 1..Len(buffer) : e.id /= buffer[i].id
       /\ \A f, g \in logs : \A d \in f.events, e \in g.events : d.id = e.id => f = g /\ d = e
       /\ \A k \in 1..counter : \/ k \in gone
                                \/ \E i \in 1..Len(buffer) : buffer[i].id = k
                                \/ \E f \in logs : \E e \in f.events : e.id = k
  BY DEF AuditInv, Places
<1>11. \A i \in 1..Len(rest) : rest[i].id \in 1..counter /\ rest[i].id \notin gone /\ rest[i].id /= event.id
  <2> SUFFICES ASSUME NEW i \in 1..Len(rest)
               PROVE  rest[i].id \in 1..counter /\ rest[i].id \notin gone /\ rest[i].id /= event.id
    OBVIOUS
  <2>1. rest[i] = buffer[i+1] /\ i+1 \in 1..Len(buffer) /\ i+1 /= 1
    BY <1>2
  <2> QED
    BY <2>1, <1>2, <1>10
<1>12. \A i, j \in 1..Len(rest) : rest[i].id = rest[j].id => i = j
  <2> SUFFICES ASSUME NEW i \in 1..Len(rest), NEW j \in 1..Len(rest), rest[i].id = rest[j].id
               PROVE  i = j
    OBVIOUS
  <2>1. i+1 = j+1
    BY <1>2, <1>10
  <2> QED
    BY <2>1, <1>2
<1>13. \A w \in written : \A e \in w.events :
           /\ e.id \in 1..counter /\ e.id \notin gone
           /\ \A i \in 1..Len(rest) : e.id /= rest[i].id
  <2> SUFFICES ASSUME NEW w \in written, NEW e \in w.events
               PROVE  /\ e.id \in 1..counter /\ e.id \notin gone
                      /\ \A i \in 1..Len(rest) : e.id /= rest[i].id
    OBVIOUS
  <2>1. PICK f \in logs : e \in f.events \/ e = event
    BY <1>7
  <2>2. CASE e \in f.events
    BY <2>2, <1>2, <1>10
  <2>3. CASE e = event
    BY <2>3, <1>2, <1>10, <1>11
  <2> QED
    BY <2>1, <2>2, <2>3
<1>14. \A v, w \in written : \A d \in v.events, e \in w.events : d.id = e.id => v = w /\ d = e
  <2> SUFFICES ASSUME NEW v \in written, NEW w \in written, NEW d \in v.events, NEW e \in w.events,
                      d.id = e.id
               PROVE  v = w /\ d = e
    OBVIOUS
  <2>1. PICK f \in logs : v = WrittenTo(f, event) /\ (d \in f.events \/ (d = event /\ f = open))
    BY <1>7
  <2>2. PICK g \in logs : w = WrittenTo(g, event) /\ (e \in g.events \/ (e = event /\ g = open))
    BY <1>7
  <2>3. f = g /\ d = e
    BY <2>1, <2>2, <1>2, <1>10
  <2> QED
    BY <2>1, <2>2, <2>3
<1>15. \A k \in 1..counter : \/ k \in gone
                             \/ \E i \in 1..Len(rest) : rest[i].id = k
                             \/ \E w \in written : \E e \in w.events : e.id = k
  <2> SUFFICES ASSUME NEW k \in 1..counter, k \notin gone
               PROVE  \/ \E i \in 1..Len(rest) : rest[i].id = k
                      \/ \E w \in written : \E e \in w.events : e.id = k
    OBVIOUS
  <2>1. CASE \E i \in 1..Len(buffer) : buffer[i].id = k
    <3>1. PICK i \in 1..Len(buffer) : buffer[i].id = k
      BY <2>1
    <3>2. CASE i = 1
      <4>1. event \in WrittenTo(open, event).events
        BY <1>3, <1>6
      <4> QED
        BY <3>1, <3>2, <4>1, <1>2, <1>4
    <3>3. CASE i /= 1
      <4>1. i - 1 \in 1..Len(rest)
        BY <3>3, <1>2
      <4>2. rest[i-1] = buffer[(i-1)+1] /\ (i-1)+1 = i
        BY <4>1, <1>2
      <4> QED
        BY <3>1, <4>1, <4>2
    <3> QED
      BY <3>2, <3>3
  <2>2. CASE \E f \in logs : \E e \in f.events : e.id = k
    BY <2>2, <1>3, <1>4
  <2> QED
    BY <2>1, <2>2, <1>10
<1>16. Places(written, rest, gone, counter)
  BY <1>1, <1>2, <1>10, <1>11, <1>12, <1>13, <1>14, <1>15 DEF Places
<1> QED
  BY <1>7, <1>8, <1>9, <1>16 DEF event

\* More files mean as many newer ones, or more.
LEMMA MoreNewer ==
    ASSUME NEW names, NEW larger \in SUBSET Nat,
           NEW top \in Nat, \A k \in larger : k <= top, NEW n, NEW m,
           NewerThan(m, names) \subseteq NewerThan(n, larger)
    PROVE  /\ Cardinality(NewerThan(m, names)) \in Nat
           /\ Cardinality(NewerThan(n, larger)) \in Nat
           /\ Cardinality(NewerThan(m, names)) <= Cardinality(NewerThan(n, larger))
<1>1. NewerThan(n, larger) \in SUBSET Nat /\ \A k \in NewerThan(n, larger) : k <= top
  BY DEF NewerThan
<1>2. IsFiniteSet(NewerThan(n, larger))
  BY <1>1, FS_BoundedSetOfNaturals
<1> QED
  BY <1>2, FS_Subset, FS_CardinalityType

\* A new file is the newest.
LEMMA SparedByOpening ==
    ASSUME NEW names, NEW chosen, NEW open, NEW at \in Nat, open <= at, Spared(names, chosen, open)
    PROVE  Spared(names \cup {at}, chosen, at)
<1>1. open \in Nat /\ names \subseteq Nat /\ \A n \in names : n <= open
  BY DEF Spared
<1>2. names \cup {at} \in SUBSET Nat /\ \A k \in names \cup {at} : k <= at
  BY <1>1
<1>3. ASSUME NEW n \in chosen
      PROVE  /\ n \in Nat /\ n < at
             /\ n \in names \cup {at} => Cardinality(NewerThan(n, names \cup {at})) >= MaxFiles
  <2>1. /\ n \in Nat /\ n < open
        /\ n \in names => Cardinality(NewerThan(n, names)) >= MaxFiles
    BY DEF Spared
  <2>2. NewerThan(n, names) \subseteq NewerThan(n, names \cup {at})
    BY DEF NewerThan
  <2>3. /\ Cardinality(NewerThan(n, names)) \in Nat
        /\ Cardinality(NewerThan(n, names \cup {at})) \in Nat
        /\ Cardinality(NewerThan(n, names)) <= Cardinality(NewerThan(n, names \cup {at}))
    BY <1>2, <2>2, MoreNewer
  <2>4. n \in Nat /\ n < at /\ n /= at
    BY <2>1, <1>1
  <2> QED
    BY <2>1, <2>3, <2>4, ConstantsOfAudit
<1> QED
  BY <1>2, <1>3 DEF Spared

\* The steps of RotateLogFile, where a file is opened and where it is not.
LEMMA Rotating ==
    ASSUME NEW files, NEW size \in Nat, NEW queue, NEW lost, NEW n,
           Places(files, queue, lost, n),
           Directory(files, current.name, now),
           Spared(Names(files), doomed, current.name),
           current \in [name : Nat, open : BOOLEAN, size : Nat],
           RotateLogFile(files, size)
    PROVE  /\ Places(logs', queue, lost, n)
           /\ Directory(logs', current.name', now)
           /\ Spared(Names(logs'), doomed, current.name')
           /\ current' \in [name : Nat, open : BOOLEAN, size : Nat]
           /\ \A f \in logs' : f \in files \/ f.events = {}
<1>1. PICK later : later = logs'
  OBVIOUS
<1>2. now \in Nat /\ current.name \in Nat /\ current.name <= now /\ files \subseteq Files
  BY DEF Directory
<1>3. CASE /\ logs' = IF now \in Names(files) THEN files ELSE files \cup {EmptyFile(now)}
           /\ current' = [name |-> now, open |-> TRUE, size |-> 0]
  <2>1. current.name' = now /\ current' \in [name : Nat, open : BOOLEAN, size : Nat]
    BY <1>3, <1>2
  <2>2. EmptyFile(now) \in Files /\ EmptyFile(now).name = now /\ EmptyFile(now).events = {}
    BY <1>2 DEF EmptyFile, Files
  <2>3. \A f \in files : f \in later
    BY <1>1, <1>3
  <2>4. \A f \in later : f \in files \/ (f = EmptyFile(now) /\ now \notin Names(files))
    BY <1>1, <1>3
  <2>5. \E f \in later : f.name = now
    BY <1>1, <1>3, <2>2 DEF Names
  <2>6. Names(later) = Names(files) \cup {now}
    BY <2>2, <2>3, <2>4, <2>5 DEF Names
  <2>7. Spared(Names(later), doomed, now)
    BY <2>6, <1>2, SparedByOpening
  <2>8. Directory(later, now, now)
    <3>1. later \subseteq Files
      BY <2>2, <2>4, <1>2
    <3>2. \A f, g \in later : f.name = g.name => f = g
      <4>1. \A f, g \in files : f.name = g.name => f = g
        BY DEF Directory
      <4>2. \A f \in files : f.name \in Names(files)
        BY DEF Names
      <4> QED
        BY <4>1, <4>2, <2>2, <2>4
    <3>3. \A f \in later : f.name <= now
      <4>1. \A f \in files : f.name <= current.name /\ f.name \in Nat
        BY <1>2 DEF Directory, Files
      <4> QED
        BY <4>1, <2>2, <2>4, <1>2
    <3> QED
      BY <3>1, <3>2, <3>3, <2>5, <1>2 DEF Directory
  <2>9. Places(later, queue, lost, n)
    BY <2>2, <2>3, <2>4 DEF Places
  <2> QED
    BY <1>1, <2>1, <2>2, <2>4, <2>7, <2>8, <2>9
<1>4. CASE /\ logs' = files
           /\ current' = [current EXCEPT !.open = FALSE, !.size = size]
  <2>1. current.name' = current.name /\ current' \in [name : Nat, open : BOOLEAN, size : Nat]
    BY <1>4
  <2> QED
    BY <1>4, <2>1
<1> QED
  BY <1>3, <1>4 DEF RotateLogFile

\* An event that cannot be written is lost.
LEMMA Losing ==
    ASSUME NEW files, NEW queue, NEW lost, NEW n, Places(files, queue, lost, n), queue /= <<>>
    PROVE  Places(files, Tail(queue), lost \cup {Head(queue).id}, n)
<1>1. queue \in Seq(Stamps) /\ n \in Nat
  BY DEF Places
<1> DEFINE event == Head(queue)
<1> PICK rest : rest = Tail(queue)
  OBVIOUS
<1> PICK dropped : dropped = lost \cup {event.id}
  OBVIOUS
<1>2. /\ event = queue[1] /\ 1 \in 1..Len(queue)
      /\ rest \in Seq(Stamps) /\ Len(rest) = Len(queue) - 1 /\ Len(queue) \in Nat
      /\ \A i \in 1..Len(rest) : rest[i] = queue[i+1] /\ i+1 \in 1..Len(queue) /\ i+1 /= 1
  BY <1>1
<1> HIDE DEF event
<1>3. /\ lost \subseteq 1..n
      /\ \A i \in 1..Len(queue) : queue[i].id \in 1..n /\ queue[i].id \notin lost
      /\ \A i, j \in 1..Len(queue) : queue[i].id = queue[j].id => i = j
      /\ \A f \in files : \A e \in f.events :
             /\ e.id \in 1..n /\ e.id \notin lost
             /\ \A i \in 1..Len(queue) : e.id /= queue[i].id
      /\ \A f, g \in files : \A d \in f.events, e \in g.events : d.id = e.id => f = g /\ d = e
      /\ \A k \in 1..n : \/ k \in lost
                         \/ \E i \in 1..Len(queue) : queue[i].id = k
                         \/ \E f \in files : \E e \in f.events : e.id = k
  BY DEF Places
<1>4. dropped \subseteq 1..n
  <2>1. event.id \in 1..n /\ lost \subseteq 1..n
    BY <1>2, <1>3
  <2> QED
    BY <2>1
<1>5. \A i \in 1..Len(rest) : rest[i].id \in 1..n /\ rest[i].id \notin dropped
  <2> SUFFICES ASSUME NEW i \in 1..Len(rest)
               PROVE  rest[i].id \in 1..n /\ rest[i].id \notin dropped
    OBVIOUS
  <2>1. rest[i] = queue[i+1] /\ i+1 \in 1..Len(queue) /\ i+1 /= 1
    BY <1>2
  <2>2. rest[i].id /= event.id
    BY <2>1, <1>2, <1>3
  <2> QED
    BY <2>1, <2>2, <1>3
<1>6. \A i, j \in 1..Len(rest) : rest[i].id = rest[j].id => i = j
  <2> SUFFICES ASSUME NEW i \in 1..Len(rest), NEW j \in 1..Len(rest), rest[i].id = rest[j].id
               PROVE  i = j
    OBVIOUS
  <2>1. i+1 = j+1
    BY <1>2, <1>3
  <2> QED
    BY <2>1, <1>2
<1>7. \A f \in files : \A e \in f.events :
          /\ e.id \in 1..n /\ e.id \notin dropped
          /\ \A i \in 1..Len(rest) : e.id /= rest[i].id
  <2> SUFFICES ASSUME NEW f \in files, NEW e \in f.events
               PROVE  /\ e.id \in 1..n /\ e.id \notin dropped
                      /\ \A i \in 1..Len(rest) : e.id /= rest[i].id
    OBVIOUS
  <2>1. /\ e.id \in 1..n /\ e.id \notin lost
        /\ \A i \in 1..Len(queue) : e.id /= queue[i].id
    BY <1>3
  <2>2. \A i \in 1..Len(rest) : e.id /= rest[i].id
    BY <2>1, <1>2
  <2> QED
    BY <2>1, <2>2, <1>2
<1>8. \A k \in 1..n : \/ k \in dropped
                      \/ \E i \in 1..Len(rest) : rest[i].id = k
                      \/ \E f \in files : \E e \in f.events : e.id = k
  <2> SUFFICES ASSUME NEW k \in 1..n, NEW i \in 1..Len(queue), queue[i].id = k
               PROVE  k \in dropped \/ \E j \in 1..Len(rest) : rest[j].id = k
    BY <1>3
  <2>1. CASE i = 1
    BY <2>1, <1>2
  <2>2. CASE i /= 1
    <3>1. i - 1 \in 1..Len(rest)
      BY <2>2, <1>2
    <3>2. rest[i-1] = queue[(i-1)+1] /\ (i-1)+1 = i
      BY <3>1, <1>2
    <3> QED
      BY <3>1, <3>2
  <2> QED
    BY <2>1, <2>2
<1>9. Places(files, rest, dropped, n)
  BY <1>1, <1>2, <1>3, <1>4, <1>5, <1>6, <1>7, <1>8 DEF Places
<1> QED
  BY <1>9 DEF event

\* The events of a removed file are lost.
LEMMA Removing ==
    ASSUME NEW files, NEW queue, NEW lost, NEW n, Places(files, queue, lost, n),
           NEW name, NEW dropped,
           \A k : k \in dropped <=> k \in lost \/ \E f \in files : f.name = name /\ \E e \in f.events : e.id = k,
           \A f, g \in files : f.name = g.name => f = g
    PROVE  Places(Without(files, name), queue, dropped, n)
<1> PICK left : left = Without(files, name)
  OBVIOUS
<1>1. \A f : f \in left <=> f \in files /\ f.name /= name
  BY DEF Without
<1>2. /\ n \in Nat /\ queue \in Seq(Stamps)
      /\ lost \subseteq 1..n
      /\ \A i \in 1..Len(queue) : queue[i].id \in 1..n /\ queue[i].id \notin lost
      /\ \A i, j \in 1..Len(queue) : queue[i].id = queue[j].id => i = j
      /\ \A f \in files : \A e \in f.events :
             /\ e.id \in 1..n /\ e.id \notin lost
             /\ \A i \in 1..Len(queue) : e.id /= queue[i].id
      /\ \A f, g \in files : \A d \in f.events, e \in g.events : d.id = e.id => f = g /\ d = e
      /\ \A k \in 1..n : \/ k \in lost
                         \/ \E i \in 1..Len(queue) : queue[i].id = k
                         \/ \E f \in files : \E e \in f.events : e.id = k
  BY DEF Places
<1>3. dropped \subseteq 1..n
  <2>1. lost \subseteq 1..n
    BY <1>2
  <2>2. \A f \in files : \A e \in f.events : e.id \in 1..n
    BY <1>2
  <2>3. ASSUME NEW k \in dropped PROVE k \in 1..n
    <3>1. k \in lost \/ \E f \in files : \E e \in f.events : e.id = k
      OBVIOUS
    <3> QED
      BY <3>1, <2>1, <2>2
  <2> QED
    BY <2>3
<1>4. \A i \in 1..Len(queue) : queue[i].id \in 1..n /\ queue[i].id \notin dropped
  BY <1>2
<1>5. \A f \in left : \A e \in f.events : e.id \notin dropped
  <2> SUFFICES ASSUME NEW f \in left, NEW e \in f.events, e.id \in dropped
               PROVE  FALSE
    OBVIOUS
  <2>1. e.id \notin lost
    BY <1>1, <1>2
  <2>2. PICK g \in files : g.name = name /\ \E d \in g.events : d.id = e.id
    BY <2>1
  <2>3. f = g
    BY <2>2, <1>1, <1>2
  <2> QED
    BY <2>2, <2>3, <1>1
<1>6. \A k \in 1..n : \/ k \in dropped
                      \/ \E i \in 1..Len(queue) : queue[i].id = k
                      \/ \E f \in left : \E e \in f.events : e.id = k
  <2> SUFFICES ASSUME NEW k \in 1..n, k \notin dropped,
                      NEW f \in files, NEW e \in f.events, e.id = k
               PROVE  \E g \in left : \E d \in g.events : d.id = k
    BY <1>2
  <2>1. f.name /= name
    OBVIOUS
  <2> QED
    BY <2>1, <1>1
<1>7. Places(left, queue, dropped, n)
  BY <1>1, <1>2, <1>3, <1>4, <1>5, <1>6 DEF Places
<1> QED
  BY <1>7

\* When a file is removed, those chosen have enough newer ones left.
LEMMA SparedByRemoval ==
    ASSUME NEW names, NEW chosen, NEW open, Spared(names, chosen, open), NEW name \in chosen
    PROVE  Spared(names \ {name}, chosen \ {name}, open)
<1>1. open \in Nat /\ names \subseteq Nat /\ \A n \in names : n <= open
  BY DEF Spared
<1>2. names \ {name} \in SUBSET Nat /\ \A n \in names \ {name} : n <= open
  BY <1>1
<1>3. ASSUME NEW n \in chosen \ {name}
      PROVE  /\ n \in Nat /\ n < open
             /\ n \in names \ {name} => Cardinality(NewerThan(n, names \ {name})) >= MaxFiles
  <2>1. /\ n \in Nat /\ n < open
        /\ n \in names => Cardinality(NewerThan(n, names)) >= MaxFiles
    BY DEF Spared
  <2>2. /\ name \in Nat
        /\ name \in names => Cardinality(NewerThan(name, names)) >= MaxFiles
    BY DEF Spared
  <2>3. CASE name \in NewerThan(n, names)
    <3>1. NewerThan(name, names) \subseteq NewerThan(n, names \ {name}) /\ name \in names
      <4>1. name \in names /\ name > n
        BY <2>3 DEF NewerThan
      <4>2. ASSUME NEW k \in names, k > name PROVE k \in names \ {name} /\ k > n
        BY <4>1, <4>2, <2>1, <2>2, <1>1
      <4> QED
        BY <4>1, <4>2 DEF NewerThan
    <3>2. /\ Cardinality(NewerThan(name, names)) \in Nat
          /\ Cardinality(NewerThan(n, names \ {name})) \in Nat
          /\ Cardinality(NewerThan(name, names)) <= Cardinality(NewerThan(n, names \ {name}))
      BY <3>1, <1>1, <1>2, MoreNewer
    <3> QED
      BY <2>1, <2>2, <3>1, <3>2, ConstantsOfAudit
  <2>4. CASE name \notin NewerThan(n, names)
    <3>1. NewerThan(n, names \ {name}) = NewerThan(n, names)
      BY <2>4 DEF NewerThan
    <3> QED
      BY <3>1, <2>1
  <2> QED
    BY <2>3, <2>4
<1> QED
  BY <1>2, <1>3, <1>1 DEF Spared

\* What cleanupOldFiles chooses from a listing is spared the newest files.
LEMMA SparedByChoice ==
    ASSUME NEW names, NEW chosen, NEW open, Spared(names, chosen, open), NEW more,
           more = {n \in names : Cardinality(NewerThan(n, names)) >= MaxFiles}
    PROVE  Spared(names, chosen \cup more, open)
<1>1. open \in Nat /\ names \subseteq Nat /\ \A n \in names : n <= open
  BY DEF Spared
<1>2. ASSUME NEW n \in more
      PROVE  n \in Nat /\ n < open /\ Cardinality(NewerThan(n, names)) >= MaxFiles
  <2>1. n \in names /\ Cardinality(NewerThan(n, names)) >= MaxFiles
    OBVIOUS
  <2>2. NewerThan(n, names) /= {}
    <3>1. SUFFICES ASSUME NewerThan(n, names) = {} PROVE FALSE
      OBVIOUS
    <3>2. Cardinality(NewerThan(n, names)) = 0
      BY <3>1, FS_EmptySet
    <3> QED
      BY <3>2, <2>1, ConstantsOfAudit
  <2>3. PICK m \in names : m > n
    BY <2>2 DEF NewerThan
  <2> QED
    BY <2>1, <2>3, <1>1
<1>3. \A n \in chosen : /\ n \in Nat /\ n < open
                        /\ n \in names => Cardinality(NewerThan(n, names)) >= MaxFiles
  BY DEF Spared
<1>4. \A n \in chosen \cup more : /\ n \in Nat /\ n < open
                                  /\ n \in names => Cardinality(NewerThan(n, names)) >= MaxFiles
  BY <1>2, <1>3
<1> QED
  BY <1>1, <1>4 DEF Spared

\* The auditor begins with one empty file.
LEMMA AuditInitially == AuditInit => AuditInv
<1> SUFFICES ASSUME AuditInit PROVE AuditInv
  OBVIOUS
<1> USE DEF AuditInit
<1>1. logs = {EmptyFile(1)} /\ EmptyFile(1) \in Files /\ EmptyFile(1).name = 1 /\ EmptyFile(1).events = {}
  BY DEF EmptyFile, Files
<1>2. Places(logs, buffer, gone, counter)
  BY <1>1 DEF Places
<1>3. Directory(logs, current.name, now)
  BY <1>1 DEF Directory
<1>4. LogFiles = {1}
  BY <1>1 DEF LogFiles, Names
<1>5. Spared(LogFiles, doomed, current.name)
  BY <1>4 DEF Spared
<1> QED
  BY <1>2, <1>3, <1>5, ConstantsOfAudit DEF AuditInv

\* The invariant has what the property says.
LEMMA AuditInvImplies == AuditInv => LogIsKept
<1> SUFFICES ASSUME AuditInv PROVE LogIsKept
  OBVIOUS
<1>1. /\ counter \in Nat /\ buffer \in Seq(Stamps) /\ gone \subseteq 1..counter
      /\ \A i \in 1..Len(buffer) : buffer[i].id \in 1..counter /\ buffer[i].id \notin gone
      /\ \A f \in logs : \A e \in f.events :
             /\ e.id \in 1..counter /\ e.id \notin gone
             /\ \A i \in 1..Len(buffer) : e.id /= buffer[i].id
      /\ \A f, g \in logs : \A d \in f.events, e \in g.events : d.id = e.id => f = g /\ d = e
      /\ \A k \in 1..counter : \/ k \in gone
                               \/ \E i \in 1..Len(buffer) : buffer[i].id = k
                               \/ \E f \in logs : \E e \in f.events : e.id = k
  BY DEF AuditInv, Places
<1>2. \A k : k \in InBuffer <=> \E i \in 1..Len(buffer) : buffer[i].id = k
  <2>1. DOMAIN buffer = 1..Len(buffer)
    BY <1>1
  <2> QED
    BY <2>1 DEF InBuffer
<1>3. \A k : k \in InLogs <=> \E f \in logs : \E e \in f.events : e.id = k
  BY DEF InLogs, Ids
<1>4. \A f, g \in logs : f /= g => Ids(f.events) \cap Ids(g.events) = {}
  BY <1>1 DEF Ids
<1>5. InBuffer \cup InLogs \cup gone = 1..counter
  <2>1. \A k \in 1..counter : k \in InBuffer \/ k \in InLogs \/ k \in gone
    BY <1>1, <1>2, <1>3
  <2>2. \A k \in InBuffer : k \in 1..counter
    BY <1>1, <1>2
  <2>3. \A k \in InLogs : k \in 1..counter
    BY <1>1, <1>3
  <2>4. \A k \in gone : k \in 1..counter
    BY <1>1
  <2> QED
    BY <2>1, <2>2, <2>3, <2>4
<1>6. InBuffer \cap InLogs = {} /\ (InBuffer \cup InLogs) \cap gone = {}
  BY <1>1, <1>2, <1>3
<1>7. CleanupSparesNewest
  <2>1. \A name \in doomed \cap LogFiles : Cardinality(NewerThan(name, LogFiles)) >= MaxFiles
    BY DEF AuditInv, Spared
  <2>2. current.name \in LogFiles
    BY DEF AuditInv, Directory, LogFiles, Names
  <2> QED
    BY <2>1, <2>2 DEF CleanupSparesNewest
<1> QED
  BY <1>4, <1>5, <1>6, <1>7 DEF LogIsKept, EventsConserved

\* Of every step of the auditor the invariant survives, at a given second.
LEMMA AuditStep == AuditInv /\ AuditNext /\ now' = now => AuditInv'
<1> SUFFICES ASSUME AuditInv, AuditNext, now' = now PROVE AuditInv'
  OBVIOUS
<1>1. /\ Places(logs, buffer, gone, counter)
      /\ Directory(logs, current.name, now)
      /\ Spared(LogFiles, doomed, current.name)
      /\ current \in [name : Nat, open : BOOLEAN, size : Nat]
      /\ Len(buffer) <= BufferSize /\ buffer \in Seq(Stamps)
      /\ writing \in BOOLEAN /\ now \in Nat
  BY DEF AuditInv, Places, Directory
<1>2. ASSUME /\ Places(logs', buffer', gone', counter')
             /\ Directory(logs', current.name', now)
             /\ Spared(Names(logs'), doomed', current.name')
             /\ current' \in [name : Nat, open : BOOLEAN, size : Nat]
             /\ Len(buffer') <= BufferSize
             /\ writing' \in BOOLEAN
      PROVE  AuditInv'
  BY <1>2 DEF AuditInv, LogFiles
<1>3. CASE WriteEvent
  <2>1. /\ buffer /= <<>> /\ buffer' = Tail(buffer)
        /\ UNCHANGED <<counter, doomed, writing>>
    BY <1>3 DEF WriteEvent
  <2>2. Len(buffer') <= BufferSize
    <3>1. Len(Tail(buffer)) = Len(buffer) - 1 /\ Len(buffer) \in Nat
      BY <2>1, <1>1
    <3> QED
      BY <3>1, <2>1, <1>1, ConstantsOfAudit
  <2>3. /\ Places(Written(Head(buffer)), Tail(buffer), gone, counter)
        /\ Directory(Written(Head(buffer)), current.name, now)
        /\ Names(Written(Head(buffer))) = LogFiles
    BY <2>1, Writing
  <2>4. CASE current.open /\ current.size + 1 >= MaxFileSize
    <3>1. RotateLogFile(Written(Head(buffer)), current.size + 1) /\ gone' = gone
      BY <1>3, <2>4 DEF WriteEvent
    <3>2. current.size + 1 \in Nat
      BY <1>1
    <3>3. Spared(Names(Written(Head(buffer))), doomed, current.name)
      BY <2>3, <1>1
    <3>4. /\ Places(logs', Tail(buffer), gone, counter)
          /\ Directory(logs', current.name', now)
          /\ Spared(Names(logs'), doomed, current.name')
          /\ current' \in [name : Nat, open : BOOLEAN, size : Nat]
      BY <3>1, <3>2, <3>3, <2>3, <1>1, Rotating
    <3> QED
      BY <3>1, <3>4, <2>1, <2>2, <1>1, <1>2
  <2>5. CASE current.open /\ ~(current.size + 1 >= MaxFileSize)
    <3>1. /\ logs' = Written(Head(buffer)) /\ gone' = gone
          /\ current' = [current EXCEPT !.size = @ + 1]
      BY <1>3, <2>5 DEF WriteEvent
    <3>2. current.name' = current.name /\ current' \in [name : Nat, open : BOOLEAN, size : Nat]
      BY <3>1, <1>1
    <3>3. /\ Places(logs', buffer', gone', counter')
          /\ Directory(logs', current.name', now)
      BY <3>1, <3>2, <2>1, <2>3
    <3>4. Spared(Names(logs'), doomed', current.name')
      BY <3>1, <3>2, <2>1, <2>3, <1>1
    <3> QED
      BY <3>2, <3>3, <3>4, <2>1, <2>2, <1>1, <1>2
  <2>6. CASE ~current.open
    <3>1. gone' = gone \cup {Head(buffer).id} /\ UNCHANGED <<logs, current>>
      BY <1>3, <2>6 DEF WriteEvent
    <3>2. Places(logs, Tail(buffer), gone \cup {Head(buffer).id}, counter)
      BY <2>1, <1>1, Losing
    <3> QED
      BY <3>1, <3>2, <2>1, <2>2, <1>1, <1>2 DEF LogFiles
  <2> QED
    BY <2>4, <2>5, <2>6
<1>4. CASE CheckAndRotate
  <2>1. RotateLogFile(logs, current.size) /\ UNCHANGED <<counter, buffer, doomed, writing, gone>>
    BY <1>4 DEF CheckAndRotate
  <2>2. current.size \in Nat /\ Spared(Names(logs), doomed, current.name)
    BY <1>1 DEF LogFiles
  <2>3. /\ Places(logs', buffer, gone, counter)
        /\ Directory(logs', current.name', now)
        /\ Spared(Names(logs'), doomed, current.name')
        /\ current' \in [name : Nat, open : BOOLEAN, size : Nat]
    BY <2>1, <2>2, <1>1, Rotating
  <2> QED
    BY <2>1, <2>3, <1>1, <1>2
<1>5. CASE CleanupOldFiles
  <2>1. UNCHANGED <<counter, buffer, logs, current, writing, gone>>
    BY <1>5 DEF CleanupOldFiles
  <2>2. PICK more : more = {name \in LogFiles : Cardinality(NewerThan(name, LogFiles)) >= MaxFiles}
    OBVIOUS
  <2>3. doomed' = doomed \cup more
    BY <1>5, <2>2 DEF CleanupOldFiles
  <2>4. Spared(LogFiles, doomed \cup more, current.name)
    BY <2>2, <1>1, SparedByChoice
  <2> QED
    BY <2>1, <2>3, <2>4, <1>1, <1>2 DEF LogFiles
<1>6. CASE RemoveFile
  <2>1. PICK name \in doomed :
            /\ doomed' = doomed \ {name}
            /\ logs' = Without(logs, name)
            /\ gone' = gone \cup UNION {Ids(f.events) : f \in logs \ Without(logs, name)}
            /\ UNCHANGED <<counter, buffer, current, writing>>
    BY <1>6 DEF RemoveFile
  <2>2. PICK dropped : dropped = gone'
    OBVIOUS
  <2>3. \A k : k \in dropped <=> k \in gone \/ \E f \in logs : f.name = name /\ \E e \in f.events : e.id = k
    <3>1. \A f : f \in logs \ Without(logs, name) <=> f \in logs /\ f.name = name
      BY DEF Without
    <3>2. PICK removed : removed = logs \ Without(logs, name)
      OBVIOUS
    <3>3. dropped = gone \cup UNION {Ids(f.events) : f \in removed}
      BY <2>1, <2>2, <3>2
    <3>4. \A f : f \in removed <=> f \in logs /\ f.name = name
      BY <3>1, <3>2
    <3> QED
      BY <3>3, <3>4 DEF Ids
  <2>4. \A f, g \in logs : f.name = g.name => f = g
    BY <1>1 DEF Directory
  <2>5. Places(Without(logs, name), buffer, dropped, counter)
    BY <2>3, <2>4, <1>1, Removing
  <2>6. Names(Without(logs, name)) = LogFiles \ {name}
    BY DEF Names, LogFiles, Without
  <2>7. Spared(LogFiles \ {name}, doomed \ {name}, current.name)
    BY <1>1, SparedByRemoval
  <2>8. Directory(Without(logs, name), current.name, now)
    <3>1. name < current.name /\ name \in Nat /\ current.name \in Nat
      BY <1>1 DEF Spared
    <3>2. \A f : f \in Without(logs, name) <=> f \in logs /\ f.name /= name
      BY DEF Without
    <3> QED
      BY <3>1, <3>2, <1>1 DEF Directory
  <2> QED
    BY <2>1, <2>2, <2>5, <2>6, <2>7, <2>8, <1>1, <1>2
<1>7. CASE RotationNeeded \/ EventWriterExits \/ PeriodicRotationExits
  <2>1. UNCHANGED <<logs, buffer, gone, counter, current, doomed>> /\ (writing' = writing \/ writing' = FALSE)
    BY <1>7 DEF RotationNeeded, EventWriterExits, PeriodicRotationExits
  <2> QED
    BY <2>1, <1>1, <1>2 DEF LogFiles
<1>8. CASE Close
  <2>1. UNCHANGED <<logs, buffer, gone, counter, doomed, writing>> /\ current' = [current EXCEPT !.open = FALSE]
    BY <1>8 DEF Close
  <2>2. current.name' = current.name /\ current' \in [name : Nat, open : BOOLEAN, size : Nat]
    BY <2>1, <1>1
  <2> QED
    BY <2>1, <2>2, <1>1, <1>2 DEF LogFiles
<1> QED
  BY <1>3, <1>4, <1>5, <1>6, <1>7, <1>8 DEF AuditNext

\* So it does of the events that are logged.
LEMMA LoggingKeeps ==
    ASSUME AuditInv, NEW events \in Seq(Reports), LogEvents(events), now' = now,
           UNCHANGED <<logs, current, doomed, writing>>
    PROVE  AuditInv' /\ NewestAt(buffer, buffer', now)
<1>1. Places(logs, buffer', gone', counter') /\ Len(buffer') <= BufferSize /\ NewestAt(buffer, buffer', now)
  BY LogEventsKeep
<1> QED
  BY <1>1 DEF AuditInv, LogFiles

(***************************************************************************)
(* What a search finds.                                                    *)
(***************************************************************************)

\* The parameters of an analysis.
LEMMA DetectionConstants == AnalysisInterval \in Nat \ {0} /\ SearchLimit \in Nat \ {0}
  BY DetectionAssumption

\* The events of the last two intervals, and that a search returns them all.
Recent == {e \in UNION {f.events : f \in logs} : e.time + 2 * AnalysisInterval >= now}
NotFlooded == Cardinality(Recent) <= SearchLimit

\* As long as the log holds no more events of two intervals than a search
\* returns, one of the last two intervals finds all that the listed files hold.
LEMMA SearchFindsAll ==
    ASSUME AuditInv, NotFlooded, NEW listed, NEW since \in Nat, since + 2 * AnalysisInterval >= now,
           NEW f \in logs, f.name \in listed, NEW e \in f.events, e.time >= since
    PROVE  e.id \in Ids(SearchEvents(listed, AuditFilter(since, {}, SearchLimit)))
<1> DEFINE filter == AuditFilter(since, {}, SearchLimit)
<1> PICK found : found = Found(listed, filter)
  OBVIOUS
<1>1. /\ counter \in Nat
      /\ \A g \in logs : \A d \in g.events : d.id \in 1..counter
      /\ \A g, h \in logs : \A c \in g.events, d \in h.events : c.id = d.id => g = h /\ c = d
  BY DEF AuditInv, Places
<1> PICK recent : recent = Recent
  OBVIOUS
<1>2. \A d \in recent : \E g \in logs : d \in g.events
  BY DEF Recent
<1>3. e \in found
  BY DEF Found, MatchesFilter, AuditFilter
<1>4. IsFiniteSet(found) /\ Cardinality(found) <= SearchLimit
  <2>1. [d \in recent |-> d.id] \in Injection(recent, 1..counter)
    <3>1. \A d \in recent : d.id \in 1..counter
      BY <1>1, <1>2
    <3>2. \A c, d \in recent : c.id = d.id => c = d
      BY <1>1, <1>2
    <3> QED
      BY <3>1, <3>2 DEF Injection, IsInjective
  <2>2. IsFiniteSet(1..counter)
    BY <1>1, FS_Interval
  <2>3. IsFiniteSet(recent) /\ Cardinality(recent) <= SearchLimit
    BY <2>1, <2>2, FS_Injection DEF NotFlooded
  <2>4. found \subseteq recent
    <3> SUFFICES ASSUME NEW d \in found PROVE d \in recent
      OBVIOUS
    <3>1. d \in UNION {g.events : g \in logs} /\ d.time >= since
      BY DEF Found, MatchesFilter, AuditFilter
    <3>2. PICK g \in logs : d \in g.events
      BY <3>1
    <3>3. d.time \in Nat /\ now \in Nat
      BY <3>2 DEF AuditInv, Directory, Files, Stamps
    <3> QED
      BY <3>1, <3>3, DetectionConstants DEF Recent
  <2>5. Cardinality(found) \in Nat /\ Cardinality(recent) \in Nat /\ SearchLimit \in Nat
    BY <2>3, <2>4, FS_Subset, FS_CardinalityType, DetectionConstants
  <2>6. Cardinality(found) <= Cardinality(recent) /\ IsFiniteSet(found)
    BY <2>3, <2>4, FS_Subset
  <2> QED
    BY <2>3, <2>5, <2>6
<1> DEFINE later == {d \in found : d.id > e.id}
<1>5. Cardinality(later) < SearchLimit
  <2>1. later \subseteq found \ {e}
    <3>1. e.id \in Nat
      BY <1>1
    <3> QED
      BY <3>1
  <2>2. IsFiniteSet(found \ {e}) /\ Cardinality(found \ {e}) = Cardinality(found) - 1
    BY <1>3, <1>4, FS_RemoveElement
  <2>3. Cardinality(later) \in Nat /\ Cardinality(later) <= Cardinality(found) - 1
    <3> HIDE DEF later
    <3> QED
      BY <2>1, <2>2, FS_Subset, FS_CardinalityType
  <2>4. Cardinality(found) \in Nat /\ SearchLimit \in Nat
    BY <1>4, FS_CardinalityType, DetectionConstants
  <2> HIDE DEF later
  <2> QED
    BY <2>3, <2>4, <1>1, <1>4
<1>6. e \in SearchEvents(listed, filter)
  BY <1>3, <1>5 DEF SearchEvents, AuditFilter
<1> QED
  BY <1>6 DEF Ids

(***************************************************************************)
(* The risk of a review.                                                   *)
(***************************************************************************)
Review(audit, policies) ==
    [audit |-> audit, resources |-> "low", policies |-> policies, threats |-> "high"]

\* The sizes of small sets.
LEMMA SizeOfTwo ==
    ASSUME NEW a, NEW b, a /= b
    PROVE  Cardinality({a, b}) = 2 /\ IsFiniteSet({a, b})
<1>1. Cardinality({a}) = 1 /\ IsFiniteSet({a})
  BY FS_Singleton
<1>2. Cardinality({a} \cup {b}) = 2 /\ IsFiniteSet({a} \cup {b}) /\ {a} \cup {b} = {a, b}
  BY <1>1, FS_AddElement
<1> QED
  BY <1>2

\* Of three elements ...
LEMMA SizeOfThree ==
    ASSUME NEW a, NEW b, NEW c, a /= b, c \notin {a, b}
    PROVE  Cardinality({a, b, c}) = 3 /\ IsFiniteSet({a, b, c})
<1>1. Cardinality({a, b}) = 2 /\ IsFiniteSet({a, b})
  BY SizeOfTwo
<1> PICK most : most = {a, b}
  OBVIOUS
<1>2. Cardinality(most \cup {c}) = 3 /\ IsFiniteSet(most \cup {c})
  BY <1>1, FS_AddElement
<1>3. most \cup {c} = {a, b, c}
  OBVIOUS
<1> QED
  BY <1>2, <1>3

\* ... and of four.
LEMMA SizeOfFour ==
    ASSUME NEW a, NEW b, NEW c, NEW d, a /= b, c \notin {a, b}, d \notin {a, b, c}
    PROVE  Cardinality({a, b, c, d}) = 4
<1>1. Cardinality({a, b, c}) = 3 /\ IsFiniteSet({a, b, c})
  BY SizeOfThree
<1> PICK most : most = {a, b, c}
  OBVIOUS
<1>2. Cardinality(most \cup {d}) = 4 /\ IsFiniteSet(most \cup {d})
  BY <1>1, FS_AddElement
<1>3. most \cup {d} = {a, b, c, d}
  OBVIOUS
<1> QED
  BY <1>2, <1>3

\* Whatever the other findings are, with an active critical threat among them
\* the mean is fifty at least, which is not low.
LEMMA ThreatenedIsNotLow ==
    \A audit \in {"medium", "none"}, policies \in {"high", "none"} :
        SeverityFromRisk(RiskScore(Review(audit, policies))) /= "low"
<1> SUFFICES ASSUME NEW audit \in {"medium", "none"}, NEW policies \in {"high", "none"}
             PROVE  SeverityFromRisk(RiskScore(Review(audit, policies))) /= "low"
  OBVIOUS
<1> DEFINE findings == Review(audit, policies)
           made  == {review \in DOMAIN findings : findings[review] /= "none"}
           score == Weight[findings.audit] + Weight[findings.resources]
                        + Weight[findings.policies] + Weight[findings.threats]
<1>1. /\ DOMAIN findings = {"audit", "resources", "policies", "threats"}
      /\ findings["audit"] = audit /\ findings["resources"] = "low"
      /\ findings["policies"] = policies /\ findings["threats"] = "high"
  BY DEF Review
<1>2. /\ Weight["none"] = 0 /\ Weight["low"] = 10 /\ Weight["medium"] = 25
      /\ Weight["high"] = 40 /\ Weight["critical"] = 50
  BY DEF Weight
<1>3. score = Weight[audit] + 10 + Weight[policies] + 40
  BY <1>2 DEF Review
<1> HIDE DEF findings
<1>4. ASSUME NEW m \in 1..4, made /= {}, Cardinality(made) = m, (score * 100) \div (m * 50) >= 30,
             score \in Nat
      PROVE  SeverityFromRisk(RiskScore(findings)) /= "low"
  <2>1. RiskScore(findings) = (score * 100) \div (m * 50)
    BY <1>4, <1>2 DEF RiskScore
  <2> QED
    BY <2>1, <1>4 DEF SeverityFromRisk
<1>5. CASE audit = "none" /\ policies = "none"
  <2>1. made = {"resources", "threats"}
    BY <1>1, <1>5
  <2>2. score = 50
    BY <1>2, <1>3, <1>5
  <2>3. Cardinality(made) = 2
    <3>1. "resources" /= "threats"
      OBVIOUS
    <3> HIDE DEF made
    <3> QED
      BY <2>1, <3>1, SizeOfTwo
  <2> QED
    BY <2>1, <2>2, <2>3, <1>4 DEF findings
<1>6. CASE audit = "medium" /\ policies = "none"
  <2>1. made = {"resources", "threats", "audit"}
    BY <1>1, <1>6
  <2>2. score = 75
    BY <1>2, <1>3, <1>6
  <2>3. Cardinality(made) = 3
    <3>1. "resources" /= "threats" /\ "audit" \notin {"resources", "threats"}
      OBVIOUS
    <3> HIDE DEF made
    <3> QED
      BY <2>1, <3>1, SizeOfThree
  <2> QED
    BY <2>1, <2>2, <2>3, <1>4 DEF findings
<1>7. CASE audit = "none" /\ policies = "high"
  <2>1. made = {"resources", "threats", "policies"}
    BY <1>1, <1>7
  <2>2. score = 90
    BY <1>2, <1>3, <1>7
  <2>3. Cardinality(made) = 3
    <3>1. "resources" /= "threats" /\ "policies" \notin {"resources", "threats"}
      OBVIOUS
    <3> HIDE DEF made
    <3> QED
      BY <2>1, <3>1, SizeOfThree
  <2> QED
    BY <2>1, <2>2, <2>3, <1>4 DEF findings
<1>8. CASE audit = "medium" /\ policies = "high"
  <2>1. made = {"resources", "threats", "audit", "policies"}
    BY <1>1, <1>8
  <2>2. score = 115
    BY <1>2, <1>3, <1>8
  <2>3. Cardinality(made) = 4
    <3>1. "resources" /= "threats" /\ "audit" \notin {"resources", "threats"} /\ "policies" \notin {"resources", "threats", "audit"}
      OBVIOUS
    <3> HIDE DEF made
    <3>2. Cardinality({"resources", "threats", "audit", "policies"}) = 4
      BY <3>1, SizeOfFour
    <3> QED
      BY <2>1, <3>2
  <2> QED
    BY <2>1, <2>2, <2>3, <1>4 DEF findings
<1> QED
  BY <1>5, <1>6, <1>7, <1>8

\* So it is of the review that is made while such a threat is active.
LEMMA ReviewOfThreats ==
    ASSUME NEW violated \in BOOLEAN, NEW id \in DOMAIN indicators,
           indicators[id].status = "active", indicators[id].level = "critical"
    PROVE  SeverityFromRisk(RiskScore(Findings(violated))) /= "low"
<1>1. ReviewAuditLogs \in {"medium", "none"} /\ ReviewPolicyViolations(violated) \in {"high", "none"}
  BY DEF ReviewAuditLogs, ReviewPolicyViolations
<1>2. ReviewThreatIndicators = "high"
  BY DEF ReviewThreatIndicators, GetThreatIndicators
<1>3. Findings(violated) = Review(ReviewAuditLogs, ReviewPolicyViolations(violated))
  BY <1>2 DEF Findings, Review, ReviewResourceUsage
<1> QED
  BY <1>1, <1>3, ThreatenedIsNotLow

(***************************************************************************)
(* Following the events of the log files.                                  *)
(***************************************************************************)
\* How far an event of a file is at a stage of the analysis.
Followed(name, e) ==
    /\ loop /= "stopped" /\ e.time + AnalysisInterval < now => e.id \in examined
    /\ loop \in {"waiting", "processing", "alerting"} /\ e.time + AnalysisInterval < due
           => e.id \in examined
    /\ loop = "searching" /\ e.time < now
           => e.id \in examined \/ (name \in listing.files /\ e.time >= listing.since)

DetectionInv ==
    /\ AuditInv
    /\ writing => \A i \in 1..Len(buffer) : buffer[i].time = now
    /\ due \in Nat /\ due <= now + AnalysisInterval /\ listing.since \in Nat
    /\ loop \in {"waiting", "searching", "processing", "alerting", "stopped"}
    /\ loop = "waiting" => now <= due
    /\ loop = "searching" => listing.since + 2 * AnalysisInterval >= now
    /\ loop \in {"searching", "processing", "alerting"} => due = now + AnalysisInterval
    /\ \A f \in logs : \A e \in f.events : Followed(f.name, e)
    /\ ReviewsReflectThreats

\* The invariant has what the property says.
LEMMA DetectionInvImplies == DetectionInv => ThreatsAreSeen
<1> SUFFICES ASSUME DetectionInv PROVE ThreatsAreSeen
  OBVIOUS
<1>1. EveryEventExamined
  BY DEF DetectionInv, Followed, EveryEventExamined
<1> QED
  BY <1>1 DEF DetectionInv, ThreatsAreSeen

\* The engine begins with nothing to follow.
LEMMA DetectionInitially == DetectionInit => DetectionInv
<1> SUFFICES ASSUME DetectionInit PROVE DetectionInv
  OBVIOUS
<1>1. AuditInv
  BY AuditInitially DEF DetectionInit
<1>2. /\ counter = 0 /\ Len(buffer) = 0 /\ now = 1 /\ due = 1 + AnalysisInterval
      /\ listing.since = 0 /\ loop = "waiting" /\ reviews = {}
      /\ logs = {EmptyFile(1)}
  BY DEF DetectionInit, AuditInit
<1>3. \A f \in logs : f.events = {}
  BY <1>2 DEF EmptyFile
<1> QED
  BY <1>1, <1>2, <1>3, ConstantsOfAudit, DetectionConstants DEF DetectionInv, ReviewsReflectThreats

\* The events of the log files are those they held, or are of this second.
LEMMA AuditEvents ==
    ASSUME AuditInv, AuditNext, writing => \A i \in 1..Len(buffer) : buffer[i].time = now
    PROVE  /\ \A f \in logs' : \A e \in f.events :
                  e.time = now \/ \E g \in logs : g.name = f.name /\ e \in g.events
           /\ counter' = counter
           /\ writing' => \A i \in 1..Len(buffer') : buffer'[i].time = now
<1>1. buffer \in Seq(Stamps)
  BY DEF AuditInv, Places
<1>2. CASE WriteEvent
  <2>1. /\ writing /\ buffer /= <<>> /\ buffer' = Tail(buffer) /\ counter' = counter
    BY <1>2 DEF WriteEvent
  <2>2. Head(buffer).time = now
    <3>1. Head(buffer) = buffer[1] /\ 1 \in 1..Len(buffer)
      BY <1>1, <2>1
    <3> QED
      BY <3>1, <2>1
  <2>3. \A i \in 1..Len(Tail(buffer)) : Tail(buffer)[i] = buffer[i+1] /\ i+1 \in 1..Len(buffer)
    BY <1>1, <2>1
  <2>4. \A w \in Written(Head(buffer)) : \A e \in w.events :
            e.time = now \/ \E g \in logs : g.name = w.name /\ e \in g.events
    <3>1. \A w \in Written(Head(buffer)) : \E f \in logs :
              w.name = f.name /\ \A e \in w.events : e \in f.events \/ e = Head(buffer)
      BY <2>1, Writing
    <3> HIDE DEF Written
    <3> QED
      BY <3>1, <2>2
  <2>5. \A f \in logs' : \A e \in f.events :
            e.time = now \/ \E g \in logs : g.name = f.name /\ e \in g.events
    <3>1. CASE current.open /\ current.size + 1 >= MaxFileSize
      <4>1. RotateLogFile(Written(Head(buffer)), current.size + 1)
        BY <1>2, <3>1 DEF WriteEvent
      <4>2. \A f \in logs' : f \in Written(Head(buffer)) \/ f.events = {}
        <5>1. /\ Places(Written(Head(buffer)), Tail(buffer), gone, counter)
              /\ Directory(Written(Head(buffer)), current.name, now)
              /\ Names(Written(Head(buffer))) = LogFiles
          BY <2>1, Writing
        <5>2. /\ current.size + 1 \in Nat /\ Spared(LogFiles, doomed, current.name)
              /\ current \in [name : Nat, open : BOOLEAN, size : Nat]
          BY DEF AuditInv
        <5> QED
          BY <4>1, <5>1, <5>2, Rotating
      <4> QED
        BY <2>4, <4>2
    <3>2. CASE current.open /\ ~(current.size + 1 >= MaxFileSize)
      <4>1. logs' = Written(Head(buffer))
        BY <1>2, <3>2 DEF WriteEvent
      <4> QED
        BY <2>4, <4>1
    <3>3. CASE ~current.open
      BY <1>2, <3>3 DEF WriteEvent
    <3> QED
      BY <3>1, <3>2, <3>3
  <2> QED
    BY <2>1, <2>3, <2>5
<1>3. CASE CheckAndRotate
  <2>1. RotateLogFile(logs, current.size) /\ UNCHANGED <<counter, buffer, writing>>
    BY <1>3 DEF CheckAndRotate
  <2>2. \A f \in logs' : f \in logs \/ f.events = {}
    BY <2>1 DEF RotateLogFile, EmptyFile
  <2> QED
    BY <2>1, <2>2
<1>4. CASE RemoveFile
  <2>1. \E name \in doomed : logs' = Without(logs, name)
    BY <1>4 DEF RemoveFile
  <2>2. UNCHANGED <<counter, buffer, writing>>
    BY <1>4 DEF RemoveFile
  <2> QED
    BY <2>1, <2>2 DEF Without
<1>5. CASE CleanupOldFiles \/ RotationNeeded \/ EventWriterExits \/ PeriodicRotationExits \/ Close
  <2>1. UNCHANGED <<counter, buffer, logs>> /\ (writing' => writing)
    BY <1>5 DEF CleanupOldFiles, RotationNeeded, EventWriterExits, PeriodicRotationExits, Close
  <2> QED
    BY <2>1
<1> QED
  BY <1>2, <1>3, <1>4, <1>5 DEF AuditNext

\* An event of this second needs no following yet.
LEMMA RecentIsFollowed ==
    ASSUME NEW name, NEW e, now \in Nat, due <= now + AnalysisInterval, due \in Nat, e.time = now
    PROVE  Followed(name, e)
  BY DetectionConstants DEF Followed

\* The engine touches the auditor by logging only, so that all its steps keep
\* the log as it should be.
LEMMA AuditKept == AuditInv /\ [DetectionNext]_monitoringVars => AuditInv'
<1> SUFFICES ASSUME AuditInv, [DetectionNext]_monitoringVars PROVE AuditInv'
  OBVIOUS
<1>1. CASE \/ PeriodicAnalysis \/ AnalyzeSecurityEvents \/ StoreIndicator
           \/ CleanupOldIndicators \/ CloseEngine \/ UNCHANGED monitoringVars
  <2>1. UNCHANGED <<now, auditVars>>
    BY <1>1 DEF PeriodicAnalysis, AnalyzeSecurityEvents, StoreIndicator, CleanupOldIndicators,
                CloseEngine, monitoringVars
  <2> QED
    BY <2>1 DEF auditVars, AuditInv, LogFiles
<1>2. CASE GenerateAlert
  <2> DEFINE i == Head(pending)
             events == Loggable(Alert(i)) \o IF AutoMitigation /\ i.level = "critical"
                                             THEN Loggable(SystemAccess("warning")) ELSE <<>>
  <2>1. LogEvents(events) /\ Quiet /\ UNCHANGED now
    BY <1>2 DEF GenerateAlert
  <2>2. events \in Seq(Reports)
    <3>1. Loggable(Alert(i)) \in Seq(Reports) /\ Loggable(SystemAccess("warning")) \in Seq(Reports)
      BY EventsAreReports
    <3> QED
      BY <3>1
  <2> HIDE DEF events
  <2> QED
    BY <2>1, <2>2, LoggingKeeps DEF Quiet
<1>3. CASE UpdateThreatStatus \/ ConductSecurityReview
  <2>1. LogEvents(Loggable(SystemAccess("info"))) /\ Quiet /\ UNCHANGED now
    BY <1>3 DEF UpdateThreatStatus, ConductSecurityReview
  <2> QED
    BY <2>1, EventsAreReports, LoggingKeeps DEF Quiet
<1>4. CASE LogInput
  <2>1. PICK event \in Inputs : LogEvent(event)
    BY <1>4 DEF LogInput
  <2>2. LogEvents(Loggable(event)) /\ UNCHANGED <<now, logs, current, doomed, writing>>
    BY <1>4, <2>1 DEF LogEvent, LogInput
  <2>3. Loggable(event) \in Seq(Reports)
    BY EventsAreReports, DetectionAssumption
  <2> QED
    BY <2>2, <2>3, LoggingKeeps
<1>5. CASE DetectionTick
  <2>1. /\ now' = now + 1
        /\ UNCHANGED <<counter, buffer, logs, current, doomed, writing, gone>>
    BY <1>5 DEF DetectionTick, auditVars
  <2>2. Directory(logs', current.name', now')
    BY <2>1 DEF AuditInv, Directory
  <2> QED
    BY <2>1, <2>2 DEF AuditInv, LogFiles
<1>6. CASE AuditNext /\ UNCHANGED <<now, detectVars>>
  BY <1>6, AuditStep
<1> QED
  BY <1>1, <1>2, <1>3, <1>4, <1>5, <1>6 DEF DetectionNext

\* A step that logs events and leaves the files alone.
LEMMA LoggingFollows ==
    ASSUME DetectionInv, NEW events \in Seq(Reports), LogEvents(events),
           UNCHANGED <<now, due, listing, examined>>, Quiet,
           \/ loop' = loop
           \/ loop = "alerting" /\ loop' = "processing",
           AuditInv', ReviewsReflectThreats'
    PROVE  DetectionInv'
<1>1. NewestAt(buffer, buffer', now)
  BY LoggingKeeps DEF DetectionInv, Quiet
<1>3. UNCHANGED <<logs, writing>>
  BY DEF Quiet
<1>4. writing' => \A i \in 1..Len(buffer') : buffer'[i].time = now'
  BY <1>1, <1>3 DEF DetectionInv, NewestAt
<1>5. \A f \in logs' : \A e \in f.events : Followed(f.name, e)'
  BY <1>3 DEF DetectionInv, Followed
<1> QED
  BY <1>1, <1>4, <1>5 DEF DetectionInv

\* Every step follows the events further, or not less.
LEMMA DetectionStep ==
    ASSUME NotFlooded, DetectionInv, [DetectionNext]_monitoringVars
    PROVE  DetectionInv'
<1>1. AuditInv /\ now \in Nat /\ counter \in Nat
  BY DEF DetectionInv, AuditInv, Directory, Places
<1>11. AuditInv'
  BY <1>1, AuditKept
<1> USE DetectionConstants
<1>2. CASE PeriodicAnalysis
  <2>1. /\ UNCHANGED <<now, auditVars, reviews, examined>>
        /\ loop = "waiting" /\ now >= due /\ loop' = "searching" /\ due' = now + AnalysisInterval
        /\ listing'.files = LogFiles
        /\ listing'.since = IF now > 2 * AnalysisInterval THEN now - 2 * AnalysisInterval ELSE 0
    BY <1>2 DEF PeriodicAnalysis
  <2>2. UNCHANGED <<now, counter, buffer, logs, current, doomed, writing, gone, reviews, examined>>
    BY <2>1 DEF auditVars
  <2>4. now = due
    BY <2>1, <1>1 DEF DetectionInv
  <2>5. \A f \in logs' : \A e \in f.events : Followed(f.name, e)'
    <3> SUFFICES ASSUME NEW f \in logs, NEW e \in f.events
                 PROVE  Followed(f.name, e)'
      BY <2>2
    <3>1. e.time \in Nat
      BY <1>1 DEF AuditInv, Directory, Files, Stamps
    <3>2. f.name \in listing'.files
      BY <2>1 DEF LogFiles, Names
    <3>3. e.time + AnalysisInterval < now => e.id \in examined
      BY <2>1 DEF DetectionInv, Followed
    <3>4. e.time + AnalysisInterval < now \/ e.time >= listing'.since
      BY <3>1, <2>1, <1>1
    <3> QED
      BY <3>2, <3>3, <3>4, <2>1, <2>2 DEF Followed
  <2>6. ReviewsReflectThreats'
    BY <2>2 DEF DetectionInv, ReviewsReflectThreats
  <2>7. due' \in Nat /\ listing'.since \in Nat /\ listing'.since + 2 * AnalysisInterval >= now
    BY <2>1, <1>1
  <2> QED
    BY <2>1, <2>2, <2>5, <2>6, <2>7, <1>1, <1>11 DEF DetectionInv
<1>3. CASE AnalyzeSecurityEvents
  <2>1. /\ UNCHANGED <<now, auditVars, due, reviews>>
        /\ loop = "searching" /\ loop' = "processing"
        /\ examined' = examined \cup Ids(SearchEvents(listing.files,
                                                      AuditFilter(listing.since, {}, SearchLimit)))
        /\ listing'.since = 0
    BY <1>3 DEF AnalyzeSecurityEvents
  <2>2. UNCHANGED <<now, counter, buffer, logs, current, doomed, writing, gone, due, reviews>>
    BY <2>1 DEF auditVars
  <2>4. due = now + AnalysisInterval /\ listing.since \in Nat
    BY <2>1 DEF DetectionInv
  <2>5. \A f \in logs' : \A e \in f.events : Followed(f.name, e)'
    <3> SUFFICES ASSUME NEW f \in logs, NEW e \in f.events
                 PROVE  Followed(f.name, e)'
      BY <2>2
    <3>1. e.time \in Nat
      BY <1>1 DEF AuditInv, Directory, Files, Stamps
    <3>2. e.time < now => e.id \in examined'
      <4> SUFFICES ASSUME e.time < now, e.id \notin examined
                   PROVE  e.id \in examined'
        BY <2>1
      <4>1. f.name \in listing.files /\ e.time >= listing.since
        BY <2>1 DEF DetectionInv, Followed
      <4>2. listing.since + 2 * AnalysisInterval >= now
        BY <2>1 DEF DetectionInv
      <4>3. e.id \in Ids(SearchEvents(listing.files, AuditFilter(listing.since, {}, SearchLimit)))
        BY <4>1, <4>2, <2>4, <1>1, SearchFindsAll
      <4> QED
        BY <4>3, <2>1
    <3>3. e.time + AnalysisInterval < now => e.time < now
      BY <3>1, <1>1
    <3>4. e.time + AnalysisInterval < due => e.time < now
      BY <3>1, <2>4, <1>1
    <3> QED
      BY <3>2, <3>3, <3>4, <2>1, <2>2 DEF Followed
  <2>6. ReviewsReflectThreats'
    BY <2>2 DEF DetectionInv, ReviewsReflectThreats
  <2> QED
    BY <2>1, <2>2, <2>5, <2>6, <1>1, <1>11 DEF DetectionInv
<1>4. CASE StoreIndicator \/ CleanupOldIndicators \/ CloseEngine \/ UNCHANGED monitoringVars
  <2>1. /\ UNCHANGED <<now, auditVars, due, listing, reviews, examined>>
        /\ \/ loop = "processing" /\ loop' \in {"alerting", "waiting"}
           \/ loop' = "stopped"
           \/ loop' = loop
    BY <1>4 DEF StoreIndicator, CleanupOldIndicators, CloseEngine, monitoringVars, detectVars
  <2>2. UNCHANGED <<now, counter, buffer, logs, current, doomed, writing, gone, due, listing, reviews, examined>>
    BY <2>1 DEF auditVars
  <2>4. \A f \in logs' : \A e \in f.events : Followed(f.name, e)'
    BY <2>1, <2>2 DEF DetectionInv, Followed
  <2>5. ReviewsReflectThreats'
    BY <2>2 DEF DetectionInv, ReviewsReflectThreats
  <2>6. loop' = "waiting" => now' <= due'
    BY <2>1, <2>2, <1>1 DEF DetectionInv
  <2> QED
    BY <2>1, <2>2, <2>4, <2>5, <2>6, <1>11 DEF DetectionInv
<1>5. CASE GenerateAlert
  <2> DEFINE i == Head(pending)
             events == Loggable(Alert(i)) \o IF AutoMitigation /\ i.level = "critical"
                                             THEN Loggable(SystemAccess("warning")) ELSE <<>>
  <2>1. /\ LogEvents(events) /\ Quiet /\ UNCHANGED <<now, due, listing, reviews, examined>>
        /\ loop = "alerting" /\ loop' = "processing"
    BY <1>5 DEF GenerateAlert
  <2>2. events \in Seq(Reports)
    <3>1. Loggable(Alert(i)) \in Seq(Reports) /\ Loggable(SystemAccess("warning")) \in Seq(Reports)
      BY EventsAreReports
    <3> QED
      BY <3>1
  <2>3. ReviewsReflectThreats'
    BY <2>1 DEF DetectionInv, ReviewsReflectThreats
  <2> HIDE DEF events
  <2> QED
    BY <2>1, <2>2, <2>3, <1>11, LoggingFollows
<1>6. CASE UpdateThreatStatus
  <2>1. LogEvents(Loggable(SystemAccess("info"))) /\ Quiet
        /\ UNCHANGED <<now, loop, due, listing, reviews, examined>>
    BY <1>6 DEF UpdateThreatStatus
  <2>2. ReviewsReflectThreats'
    BY <2>1 DEF DetectionInv, ReviewsReflectThreats
  <2> QED
    BY <2>1, <2>2, EventsAreReports, <1>11, LoggingFollows
<1>7. CASE ConductSecurityReview
  <2> DEFINE critical == {id \in DOMAIN indicators : /\ indicators[id].status = "active"
                                                     /\ indicators[id].level = "critical"}
  <2>1. PICK violated \in BOOLEAN :
            /\ reviews' = {[severity   |-> SeverityFromRisk(RiskScore(Findings(violated))),
                            threatened |-> critical /= {}]}
            /\ LogEvents(Loggable(SystemAccess("info")))
            /\ Quiet
            /\ UNCHANGED <<now, loop, due, listing, pending, indicators, examined>>
    BY <1>7, Zenon DEF ConductSecurityReview
  <2>2. critical /= {} => SeverityFromRisk(RiskScore(Findings(violated))) /= "low"
    BY ReviewOfThreats
  <2>3. PICK severity, threatened : /\ severity = SeverityFromRisk(RiskScore(Findings(violated)))
                                    /\ threatened = (critical /= {})
    OBVIOUS
  <2>4. reviews' = {[severity |-> severity, threatened |-> threatened]}
    BY <2>1, <2>3, Zenon
  <2>5. ReviewsReflectThreats'
    <3> HIDE DEF critical
    <3> SUFFICES ASSUME NEW review \in reviews', review.threatened
                 PROVE  review.severity /= "low"
      BY DEF ReviewsReflectThreats
    <3>1. review = [severity |-> severity, threatened |-> threatened]
      BY <2>4
    <3>2. threatened /\ review.severity = severity
      BY <3>1
    <3> QED
      BY <3>2, <2>2, <2>3
  <2> QED
    BY <2>1, <2>5, EventsAreReports, <1>11, LoggingFollows
<1>8. CASE LogInput
  <2>1. PICK event \in Inputs : LogEvent(event)
    BY <1>8 DEF LogInput
  <2>2. LogEvents(Loggable(event)) /\ Quiet
    BY <2>1 DEF LogEvent, Quiet
  <2>3. Loggable(event) \in Seq(Reports)
    BY EventsAreReports, DetectionAssumption
  <2>4. UNCHANGED <<now, loop, due, listing, reviews, examined>>
    BY <1>8 DEF LogInput, detectVars
  <2>5. ReviewsReflectThreats'
    BY <2>4 DEF DetectionInv, ReviewsReflectThreats
  <2> QED
    BY <2>2, <2>3, <2>4, <2>5, <1>11, LoggingFollows
<1>9. CASE DetectionTick
  <2>1. /\ loop \in {"waiting", "stopped"} /\ (loop = "waiting" => now < due)
        /\ writing => buffer = <<>>
        /\ now' = now + 1
        /\ UNCHANGED <<auditVars, detectVars>>
    BY <1>9 DEF DetectionTick
  <2>2. UNCHANGED <<counter, buffer, logs, current, doomed, writing, gone, loop, due, listing, reviews, examined>>
    BY <2>1 DEF auditVars, detectVars
  <2>4. loop' = "waiting" => now' <= due'
    BY <2>1, <2>2, <1>1 DEF DetectionInv
  <2>5. \A f \in logs' : \A e \in f.events : Followed(f.name, e)'
    <3> SUFFICES ASSUME NEW f \in logs, NEW e \in f.events
                 PROVE  Followed(f.name, e)'
      BY <2>2
    <3>1. e.time \in Nat
      BY <1>1 DEF AuditInv, Directory, Files, Stamps
    <3>2. Followed(f.name, e)
      BY DEF DetectionInv
    <3>3. CASE loop = "waiting"
      <4>1. e.time + AnalysisInterval < now' => e.time + AnalysisInterval < due
        BY <3>1, <3>3, <2>1, <1>1 DEF DetectionInv
      <4> QED
        BY <4>1, <3>2, <3>3, <2>2 DEF Followed
    <3>4. CASE loop = "stopped"
      BY <3>4, <2>2 DEF Followed
    <3> QED
      BY <3>3, <3>4, <2>1
  <2>6. ReviewsReflectThreats'
    BY <2>2 DEF DetectionInv, ReviewsReflectThreats
  <2>7. writing' => \A k \in 1..Len(buffer') : buffer'[k].time = now'
    BY <2>1, <2>2
  <2> QED
    BY <2>1, <2>2, <2>4, <2>5, <2>6, <2>7, <1>1, <1>11 DEF DetectionInv
<1>10. CASE AuditNext /\ UNCHANGED <<now, detectVars>>
  <2>1. UNCHANGED <<now, loop, due, listing, reviews, examined>>
    BY <1>10 DEF detectVars
  <2>3. /\ \A f \in logs' : \A e \in f.events :
               e.time = now \/ \E g \in logs : g.name = f.name /\ e \in g.events
        /\ counter' = counter
        /\ writing' => \A i \in 1..Len(buffer') : buffer'[i].time = now
    BY <1>1, <1>10, AuditEvents DEF DetectionInv
  <2>4. \A f \in logs' : \A e \in f.events : Followed(f.name, e)'
    <3> SUFFICES ASSUME NEW f \in logs', NEW e \in f.events
                 PROVE  Followed(f.name, e)'
      OBVIOUS
    <3>1. Followed(f.name, e)
      <4>1. CASE e.time = now
        BY <4>1, <1>1, RecentIsFollowed DEF DetectionInv
      <4>2. CASE \E g \in logs : g.name = f.name /\ e \in g.events
        BY <4>2 DEF DetectionInv
      <4> QED
        BY <4>1, <4>2, <2>3
    <3> QED
      BY <3>1, <2>1 DEF Followed
  <2>5. ReviewsReflectThreats'
    BY <2>1 DEF DetectionInv, ReviewsReflectThreats
  <2> QED
    BY <2>1, <2>3, <2>4, <2>5, <1>11 DEF DetectionInv
<1> QED
  BY <1>2, <1>3, <1>4, <1>5, <1>6, <1>7, <1>8, <1>9, <1>10 DEF DetectionNext

-----------------------------------------------------------------------------
(***************************************************************************)
(* The layer as a whole.                                                   *)
(***************************************************************************)
SecurityInv == PolicyInv /\ ConfirmInv /\ SandboxInv /\ BashInv

\* A part at rest keeps its invariant, and the limiter its entries.
LEMMA PartsAtRest ==
    ASSUME SecurityInv
    PROVE  /\ UNCHANGED enforcementVars => PolicyInv' /\ EntriesMove
           /\ UNCHANGED confirmVars => ConfirmInv'
           /\ UNCHANGED sandboxVars => SandboxInv'
           /\ UNCHANGED bashVars => BashInv'
<1>1. ASSUME UNCHANGED enforcementVars PROVE PolicyInv' /\ EntriesMove
  <2>1. LimiterInv' /\ EntriesMove
    BY <1>1, LessStep DEF SecurityInv, PolicyInv, enforcementVars, limiterVars
  <2>2. EnforcementInv'
    BY <1>1 DEF SecurityInv, PolicyInv, EnforcementInv, IsEnforcement, enforcementVars, policyVars
  <2> QED
    BY <2>1, <2>2 DEF PolicyInv
<1>2. ASSUME UNCHANGED confirmVars PROVE ConfirmInv'
  BY <1>2 DEF SecurityInv, confirmVars, ConfirmInv, ConfirmTypes, RequestsDiffer, LinesDiffer,
              LinesAnswerOnce, AnswersApprove
<1>3. ASSUME UNCHANGED sandboxVars PROVE SandboxInv'
  BY <1>3 DEF SecurityInv, sandboxVars, SandboxInv, SandboxTypes, WatchedAreOpen, InProgress,
              RunsAreAccountedFor
<1>4. ASSUME UNCHANGED bashVars PROVE BashInv'
  BY <1>4 DEF SecurityInv, bashVars, BashInv, BashTypes, LinesAreSomewhere
<1> QED
  BY <1>1, <1>2, <1>3, <1>4

\* Every part begins with its invariant.
LEMMA SecurityInit == Init => SecurityInv
  BY PolicyInitInv, ConfirmInit, SandboxInitInv, BashInitInv DEF Init, SecurityInv

\* One part moves and the others are at rest.
LEMMA SecurityStep == SecurityInv /\ [Next]_vars => SecurityInv' /\ EntriesMove
<1> SUFFICES ASSUME SecurityInv, [Next]_vars
             PROVE  SecurityInv' /\ EntriesMove
  OBVIOUS
<1>1. CASE part = "enforcement" /\ PolicyNext /\ UNCHANGED <<confirmVars, sandboxVars, bashVars>>
  BY <1>1, PolicyStep, PartsAtRest DEF SecurityInv
<1>2. CASE ConfirmationNext /\ UNCHANGED <<enforcementVars, sandboxVars, bashVars>>
  BY <1>2, ConfirmStep, PartsAtRest DEF SecurityInv
<1>3. CASE SandboxNext /\ UNCHANGED <<enforcementVars, confirmVars, bashVars>>
  BY <1>3, SandboxStep, PartsAtRest DEF SecurityInv
<1>4. CASE BashNext /\ UNCHANGED <<enforcementVars, confirmVars, sandboxVars>>
  BY <1>4, BashStep, PartsAtRest DEF SecurityInv
<1>5. CASE UNCHANGED <<enforcementVars, confirmVars, sandboxVars, bashVars>>
  BY <1>5, PartsAtRest DEF SecurityInv
<1> QED
  BY <1>1, <1>2, <1>3, <1>4, <1>5 DEF Next, vars

\* The invariants of the parts hold of every behaviour of the layer.
THEOREM SecurityIsKept == Spec => []SecurityInv
  BY SecurityInit, SecurityStep, PTL DEF Spec

\* Checking and taking are two steps, and still the requests counted and those
\* about to be never reach the limit by more than the number of callers allows.
THEOREM LimitsAreOvershotByCallersOnly == Spec => []OvershootBounded
<1>1. SecurityInv => OvershootBounded
  BY PolicyInvMeans DEF SecurityInv
<1> QED
  BY <1>1, SecurityIsKept, PTL

\* No request moves the end of a backoff, and none clears the count of a fixed
\* window but for a later window.
THEOREM LimitsHold == Spec => LimitsAreKept
<1> DEFINE Kept == \A key \in DOMAIN entries :
                     clock < entries[key].until /\ key \in DOMAIN entries'
                       => entries'[key].until = entries[key].until
           Falls == \A key \in DOMAIN entries \cap DOMAIN entries' :
                      config[key[1]].strategy = "fixed_window"
                      /\ entries'[key].count < entries[key].count
                      => entries'[key].start > entries[key].start
<1>1. EntriesMove => Kept /\ Falls
  BY DEF EntriesMove, EntryMoves
<1>2. SecurityInv /\ [Next]_vars => [Kept]_entries /\ [Falls]_entries
  BY <1>1, SecurityStep
<1>3. Spec => [][Kept]_entries /\ [][Falls]_entries
  BY <1>2, SecurityIsKept, PTL DEF Spec
<1> QED
  BY <1>3 DEF LimitsAreKept, BackoffKept, CountsFallWithTheWindow

\* An invalid request whose rule was enabled when it came is not allowed, unless
\* the mode at the decision only records.
THEOREM InvalidRequestsAreBlocked == Spec => []InvalidIsBlocked
<1>1. SecurityInv => InvalidIsBlocked
  BY PolicyInvMeans DEF SecurityInv
<1> QED
  BY <1>1, SecurityIsKept, PTL

\* An operation of risk runs on something read that approves it, never on a time
\* limit; and on a line of its own until two readers have shared the buffer.
THEOREM CommandsRunOnTheirLine == Spec => []RunsOnItsOwnLine
<1>1. SecurityInv => RunsOnItsOwnLine
  BY ConfirmInvMeans DEF SecurityInv
<1> QED
  BY <1>1, SecurityIsKept, PTL

\* The sandbox closes no channel twice, leaves no watcher behind and counts every
\* run once.
THEOREM SandboxEndsWhatItStarts == Spec => []RunsAndWatchersEnd
<1>1. SecurityInv => RunsAndWatchersEnd
  BY SandboxInvMeans DEF SecurityInv
<1> QED
  BY <1>1, SecurityIsKept, PTL

\* A shell that returns has all lines of its command, or has truncated them.
THEOREM ShellReturnsItsOutput == Spec => []OutputIsComplete
<1>1. SecurityInv => OutputIsComplete
  BY BashInvMeans DEF SecurityInv
<1> QED
  BY <1>1, SecurityIsKept, PTL

\* The steps of the auditor and the engine, as those of the layer.
LEMMA MonitoringNext == [Next]_vars => [DetectionNext]_monitoringVars
  BY DEF Next, vars

\* Whatever rotates, writes and cleans up at once, an event is in one place and
\* no file is removed while it is among the newest.
THEOREM EventsAreKept == Spec => []LogIsKept
<1>1. Init => AuditInv
  BY AuditInitially DEF Init, DetectionInit
<1>2. AuditInv /\ [Next]_vars => AuditInv'
  BY AuditKept, MonitoringNext
<1>3. AuditInv => LogIsKept
  BY AuditInvImplies
<1> QED
  BY <1>1, <1>2, <1>3, PTL DEF Spec

\* As long as two intervals bring no more events than a search returns, every
\* event is analysed in time; and no review plays a critical threat down.
THEOREM ThreatsAreNotMissed == Spec /\ []NotFlooded => []ThreatsAreSeen
<1>1. Init => DetectionInv
  BY DetectionInitially DEF Init
<1>2. NotFlooded /\ DetectionInv /\ [Next]_vars => DetectionInv'
  BY DetectionStep, MonitoringNext
<1>3. DetectionInv => ThreatsAreSeen
  BY DetectionInvImplies
<1> QED
  BY <1>1, <1>2, <1>3, PTL DEF Spec
================================================================================
