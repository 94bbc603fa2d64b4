----------------------------- MODULE RateLimiter -----------------------------
(***************************************************************************)
(* The security rate limiter (internal/security/ratelimiter.go): a request *)
(* is checked against one entry for each scope it falls in, each under the  *)
(* entry's lock but all against the time the check began, and if every      *)
(* scope allows it a token is taken of each entry, one after the other.     *)
(***************************************************************************)
EXTENDS Integers, FiniteSets, SequencesExt, TLC

CONSTANTS Callers,     \* goroutines that call the limiter
          Configs,     \* the configurations: a RateLimitConfig of each of some scopes
          Requests,    \* records [user, tool, ip], with None for an empty string
          None,
          IdleTime,    \* seconds without a request before an entry expires
          MaxClock      \* bound: seconds

Strategies == {"fixed_window", "sliding_window", "token_bucket", "leaky_bucket"}
Scopes == {"global", "per_user", "per_tool", "per_ip", "per_user_tool"}

ASSUME LimiterAssumption ==
    /\ IsFiniteSet(Callers) /\ Callers /= {}
    /\ \A C \in Configs :
         /\ DOMAIN C \subseteq Scopes
         /\ \A scope \in DOMAIN C :
              /\ C[scope].strategy \in Strategies
              /\ {C[scope].window, C[scope].max, C[scope].burst,
                  C[scope].refill} \subseteq Nat \ {0}
              /\ {C[scope].multiplier, C[scope].maxBackoff} \subseteq Nat
    /\ {IdleTime, MaxClock} \subseteq Nat

VARIABLES config,    \* the configuration of this limiter
          clock,       \* the clock, in seconds
          entries,   \* RateLimitEntry of each key that has one
          call,      \* the call each caller is in
          expired    \* the keys a cleanup has collected and not deleted yet

limiterVars == <<config, entries, call, expired>>

Idle == [pc |-> "idle", request |-> None, consumes |-> FALSE, at |-> 0, left |-> <<>>,
         allowed |-> TRUE]

(***************************************************************************)
(* Keys and entries.                                                       *)
(***************************************************************************)
\* The key of a request in each of the scopes that apply to it, in their order;
\* a scope without a configuration allows everything and is left out.
Scope(scope, applies, id) ==
    IF applies /\ scope \in DOMAIN config THEN <<<<scope, id>>>> ELSE <<>>

GetApplicableScopes(r) ==
    Scope("global", TRUE, "global")
    \o Scope("per_user", r.user /= None, r.user)
    \o Scope("per_tool", r.tool /= None, r.tool)
    \o Scope("per_ip", r.ip /= None, r.ip)
    \o Scope("per_user_tool", None \notin {r.user, r.tool}, <<r.user, r.tool>>)

IsWhitelisted(key) == key[2] \in config[key[1]].whitelist

\* The fields that the strategy does not use stay 0.  The window holds the second
\* of each of its requests, those of one second told apart by a number.
NewEntry(cfg, at) ==
    LET For(strategy, value) == IF cfg.strategy = strategy THEN value ELSE 0
    IN [count |-> 0, start |-> For("fixed_window", at), last |-> at, window |-> {},
        violations |-> 0, until |-> 0, tokens |-> For("token_bucket", cfg.burst),
        refill |-> For("token_bucket", at)]

GetOrCreateEntry(key, at) ==
    IF key \in DOMAIN entries THEN entries[key] ELSE NewEntry(config[key[1]], at)

\* A new window starts at a multiple of its size; time may lag behind the entry.
CheckFixedWindow(e, cfg, at) ==
    LET windowStart == at - (at % cfg.window)
    IN IF windowStart > e.start THEN [e EXCEPT !.start = windowStart, !.count = 0] ELSE e

CheckSlidingWindow(e, cfg, at) ==
    LET valid == {r \in e.window : r[1] > at - cfg.window}
    IN [e EXCEPT !.window = valid, !.count = Cardinality(valid)]

CheckTokenBucket(e, cfg, at) ==
    LET added == (at - e.refill) \div cfg.refill
    IN IF added > 0
       THEN [e EXCEPT !.tokens = Min({e.tokens + added, cfg.burst}), !.refill = at]
       ELSE e

CheckLeakyBucket(e, cfg, at) ==
    LET leaked == (at - e.last) \div cfg.refill
    IN IF leaked > 0
       THEN [e EXCEPT !.count = Max({e.count - leaked, 0}), !.last = at] ELSE e

Refreshed(e, cfg, at) ==
    CASE cfg.strategy = "fixed_window"   -> CheckFixedWindow(e, cfg, at)
      [] cfg.strategy = "sliding_window" -> CheckSlidingWindow(e, cfg, at)
      [] cfg.strategy = "token_bucket"   -> CheckTokenBucket(e, cfg, at)
      [] cfg.strategy = "leaky_bucket"   -> CheckLeakyBucket(e, cfg, at)

\* Mutant: one request more than the limit.
HasRoomAtLimit(e, cfg) ==
    IF cfg.strategy = "token_bucket" THEN e.tokens > 0 ELSE e.count <= cfg.max

HasRoom(e, cfg) == IF cfg.strategy = "token_bucket" THEN e.tokens > 0 ELSE e.count < cfg.max

\* The length of the backoff grows with the violations, ten at most.
BackoffDuration(cfg, violations) ==
    LET after[n \in 1..10] ==
          (IF n = 1 THEN cfg.window ELSE after[n - 1]) * cfg.multiplier
    IN after[IF violations < 10 THEN violations ELSE 10]

\* It counts from the real time.
ApplyBackoff(e, cfg) ==
    LET violations == e.violations + 1
        duration   == BackoffDuration(cfg, violations)
        capped     == IF cfg.maxBackoff > 0 THEN Min({duration, cfg.maxBackoff}) ELSE duration
    IN [e EXCEPT !.violations = violations,
                 !.until = IF cfg.multiplier > 0 THEN clock + capped ELSE e.until]

\* Mutant: a request in the backoff is one more violation.
CheckedAlways(e, cfg, at) ==
    LET fresh == Refreshed(e, cfg, at)
    IN IF at >= e.until /\ HasRoom(fresh, cfg)
       THEN [entry |-> fresh, allowed |-> TRUE]
       ELSE [entry |-> ApplyBackoff(fresh, cfg), allowed |-> FALSE]

\* checkScopeRateLimit after the backoff: the entry it leaves, and its verdict.
Checked(e, cfg, at) ==
    LET fresh == Refreshed(e, cfg, at)
    IN IF at < e.until
       THEN [entry |-> e, allowed |-> FALSE]
       ELSE IF HasRoom(fresh, cfg)
       THEN [entry |-> fresh, allowed |-> TRUE]
       ELSE [entry |-> ApplyBackoff(fresh, cfg), allowed |-> FALSE]

SetEntry(key, e) == [k \in DOMAIN entries \cup {key} |-> IF k = key THEN e ELSE entries[k]]

(***************************************************************************)
(* The steps of a call.                                                    *)
(***************************************************************************)
LimiterInit ==
    /\ config \in Configs
    /\ clock = 1
    /\ entries = [key \in {} |-> NewEntry(config[key[1]], 0)]
    /\ call = [c \in Callers |-> Idle]
    /\ expired = {}

\* A check with no scope left: the caller takes the tokens or ends.
Continue(check) ==
    LET scopes == GetApplicableScopes(check.request)
    IN IF check.left /= <<>> THEN check
       ELSE IF ~ check.consumes
       THEN [Idle EXCEPT !.pc = "checked", !.allowed = check.allowed]
       ELSE IF check.allowed /\ scopes /= <<>>
       THEN [check EXCEPT !.pc = "consume", !.at = 0, !.left = scopes]
       ELSE Idle

\* CheckRateLimit, alone or as the first half of AllowRequest, notes the time.
BeginCheck(c, r, consumes) ==
    /\ call[c].pc = "idle"
    /\ call' = [call EXCEPT ![c] =
         Continue([pc |-> "check", request |-> r, consumes |-> consumes, at |-> clock,
                   left |-> GetApplicableScopes(r), allowed |-> TRUE])]
    /\ UNCHANGED <<config, entries, expired>>

AllowRequest(c) ==
    \E r \in Requests : BeginCheck(c, r, TRUE) /\ UNCHANGED clock

\* checkScopeRateLimit on the next scope, under the lock of the entry.
CheckScopeRateLimit(c) ==
    /\ call[c].pc = "check"
    /\ LET key == Head(call[c].left)
           cfg == config[key[1]]
           result == IF IsWhitelisted(key) THEN [allowed |-> TRUE]
                     ELSE Checked(GetOrCreateEntry(key, call[c].at), cfg, call[c].at)
       IN /\ entries' = IF IsWhitelisted(key) THEN entries ELSE SetEntry(key, result.entry)
          /\ call' = [call EXCEPT ![c] =
               Continue([call[c] EXCEPT !.left = Tail(@), !.allowed = @ /\ result.allowed])]
    /\ UNCHANGED <<config, clock, expired>>

\* The request of this second, appended to the window.
Appended(window) ==
    window \cup {<<clock, CHOOSE n \in 0..Cardinality(window) : <<clock, n>> \notin window>>}

Consumed(e, cfg) ==
    [e EXCEPT !.count  = IF cfg.strategy = "token_bucket" THEN @ ELSE @ + 1,
              !.window = IF cfg.strategy = "sliding_window" THEN Appended(@) ELSE @,
              !.tokens = IF cfg.strategy = "token_bucket" /\ @ > 0 THEN @ - 1 ELSE @,
              !.last   = clock]

\* consumeToken on the next scope; the whitelist plays no part here.
ConsumeToken(c) ==
    /\ call[c].pc = "consume"
    /\ LET key == Head(call[c].left)
       IN entries' = SetEntry(key, Consumed(GetOrCreateEntry(key, clock), config[key[1]]))
    /\ call' = [call EXCEPT ![c] = IF Len(call[c].left) = 1 THEN Idle
                                   ELSE [call[c] EXCEPT !.left = Tail(@)]]
    /\ UNCHANGED <<config, clock, expired>>

ResetLimits ==
    \E key \in DOMAIN entries :
        /\ entries' = [k \in DOMAIN entries \ {key} |-> entries[k]]
        /\ UNCHANGED <<config, clock, call, expired>>

(***************************************************************************)
(* The cleanup collects the keys under the read lock and deletes them under *)
(* the write lock, without looking at the entries again.                    *)
(***************************************************************************)
CollectExpired ==
    /\ expired = {}
    /\ expired' = {key \in DOMAIN entries : /\ clock - entries[key].last > IdleTime
                                            /\ clock > entries[key].until}
    /\ expired' /= {}
    /\ UNCHANGED <<config, clock, entries, call>>

CleanupExpiredEntries ==
    /\ expired /= {}
    /\ entries' = [key \in DOMAIN entries \ expired |-> entries[key]]
    /\ expired' = {}
    /\ UNCHANGED <<config, clock, call>>

LimiterNext ==
    \/ \E c \in Callers : CheckScopeRateLimit(c) \/ ConsumeToken(c)
    \/ CollectExpired \/ CleanupExpiredEntries

-----------------------------------------------------------------------------
\* The callers that have passed the check of a key and may still take its token.
Cleared(key) ==
    {c \in Callers :
        /\ call[c].consumes /\ call[c].allowed
        /\ key \in ToSet(GetApplicableScopes(call[c].request))
        /\ \/ call[c].pc = "check" /\ key \notin ToSet(call[c].left)
           \/ call[c].pc = "consume" /\ key \in ToSet(call[c].left)}

\* Checking and taking are two steps, so a limit may be passed, but only by as
\* many requests as there are other callers at the same point: the requests
\* counted and those about to be stay below the limit plus the number of callers.
OvershootBounded ==
    \A key \in DOMAIN entries :
        config[key[1]].strategy /= "token_bucket" /\ ~ IsWhitelisted(key)
        => entries[key].count + Cardinality(Cleared(key))
             < config[key[1]].max + Cardinality(Callers)

\* While a key is in its backoff nothing moves the end of it, however many
\* requests come: only deleting the entry ends it early.
BackoffKept ==
    [][\A key \in DOMAIN entries :
         clock < entries[key].until /\ key \in DOMAIN entries'
             => entries'[key].until = entries[key].until]_entries

\* The count of a fixed window falls only because a later window has begun: a
\* slow request of an earlier window does not clear it.
CountsFallWithTheWindow ==
    [][\A key \in DOMAIN entries \cap DOMAIN entries' :
         config[key[1]].strategy = "fixed_window"
         /\ entries'[key].count < entries[key].count
         => entries'[key].start > entries[key].start]_entries

\* No request moves the end of a backoff or clears the count of a window.
LimitsAreKept == BackoffKept /\ CountsFallWithTheWindow
=============================================================================
