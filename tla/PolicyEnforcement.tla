-------------------------- MODULE PolicyEnforcement --------------------------
(***************************************************************************)
(* The policy enforcement engine (internal/security/policy_enforcer.go)    *)
(* over the rate limiter: a request is evaluated against the rules that are *)
(* enabled when it comes, one after the other in any order, and blocked if  *)
(* one of high or critical severity is violated, unless the mode that holds *)
(* at that moment only records.                                             *)
(***************************************************************************)
EXTENDS RateLimiter

CONSTANTS Enforcers,   \* the callers whose requests pass the engine
          Modes,       \* what SetEnforcementMode is called with
          MaxChanges   \* bound: changes of mode and rules, and resets

ASSUME PolicyAssumption ==
    /\ Enforcers \subseteq Callers
    /\ Modes \subseteq {"permissive", "enforcing", "strict", "auditing"}
    /\ MaxChanges \in Nat

VARIABLES mode,        \* the enforcement mode, read and written without a lock
          rules,       \* ids of the enabled rules
          enforcing,   \* the enforcement each of them is in
          changes      \* changes so far

policyVars == <<mode, rules, enforcing, changes>>
enforcementVars == <<clock, limiterVars, policyVars>>

(***************************************************************************)
(* The default rules.                                                      *)
(***************************************************************************)
\* The one on the time of day is installed disabled and left out.
DefaultRules == {"rate_limit", "input_validation", "resource_limit"}

RuleSeverity(rule) ==
    CASE rule = "input_validation" -> "critical"
      [] rule \in {"rate_limit", "resource_limit"} -> "high"

Lenient(m) == m \in {"permissive", "auditing"}

ShouldBlockRequest(violated, m) ==
    ~ Lenient(m) /\ \E rule \in violated : RuleSeverity(rule) \in {"critical", "high"}

NoEnforcement == [pc |-> "idle", request |-> None, valid |-> TRUE, left |-> {},
                  violated |-> {}, ruled |-> FALSE, allowed |-> TRUE, lenient |-> FALSE]

PolicyInit ==
    /\ LimiterInit
    /\ mode = "enforcing"
    /\ rules = DefaultRules
    /\ enforcing = [c \in Enforcers |-> NoEnforcement]
    /\ changes = 0

(***************************************************************************)
(* EnforcePolicy.                                                          *)
(***************************************************************************)
\* The applicable rules are copied under the lock.  "ruled" records whether the
\* rule on the input is among them.
EnforcePolicy(c) ==
    \E r \in Requests, valid \in BOOLEAN :
        /\ call[c].pc = "idle" /\ enforcing[c].pc \in {"idle", "done"}
        /\ enforcing' = [enforcing EXCEPT ![c] =
             [NoEnforcement EXCEPT !.pc = "evaluate", !.request = r, !.valid = valid,
                                   !.left = rules,
                                   !.ruled = "input_validation" \in rules]]
        /\ UNCHANGED <<clock, limiterVars, mode, rules, changes>>

\* evaluateRule on a rule that is not about the rate: the input is validated, the
\* resource monitor is asked.
Evaluated(c, rule, violated) ==
    enforcing' = [enforcing EXCEPT
      ![c].pc = "evaluate", ![c].left = @ \ {rule},
      ![c].violated = IF violated THEN @ \cup {rule} ELSE @]

\* Mutant: a rule that has been removed meanwhile is skipped.
EvaluateInstalledRule(c) ==
    \E rule \in enforcing[c].left \ {"rate_limit"}, exceeded \in BOOLEAN :
        /\ enforcing[c].pc = "evaluate"
        /\ Evaluated(c, rule, rule \in rules /\ IF rule = "input_validation"
                                                THEN ~ enforcing[c].valid ELSE exceeded)
        /\ UNCHANGED <<clock, limiterVars, mode, rules, changes>>

\* evaluateRule on any of them.
EvaluateRule(c) ==
    \E rule \in enforcing[c].left \ {"rate_limit"}, exceeded \in BOOLEAN :
        /\ enforcing[c].pc = "evaluate"
        /\ Evaluated(c, rule, IF rule = "input_validation" THEN ~ enforcing[c].valid
                              ELSE exceeded)
        /\ UNCHANGED <<clock, limiterVars, mode, rules, changes>>

\* The rule on the rate asks the limiter, which takes several steps and no token.
EvaluateRateRule(c) ==
    /\ enforcing[c].pc = "evaluate" /\ "rate_limit" \in enforcing[c].left
    /\ BeginCheck(c, enforcing[c].request, FALSE)
    /\ enforcing' = [enforcing EXCEPT ![c].pc = "limiter"]
    /\ UNCHANGED <<clock, mode, rules, changes>>

RateRuleEvaluated(c) ==
    /\ enforcing[c].pc = "limiter" /\ call[c].pc = "checked"
    /\ Evaluated(c, "rate_limit", ~ call[c].allowed)
    /\ call' = [call EXCEPT ![c] = Idle]
    /\ UNCHANGED <<config, clock, entries, expired, mode, rules, changes>>

\* The decision reads the mode, after all rules.
Decide(c) ==
    /\ enforcing[c].pc = "evaluate" /\ enforcing[c].left = {}
    /\ enforcing' = [enforcing EXCEPT ![c] =
         [NoEnforcement EXCEPT !.pc = "done", !.valid = enforcing[c].valid,
             !.ruled = enforcing[c].ruled, !.lenient = Lenient(mode),
             !.allowed = ~ ShouldBlockRequest(enforcing[c].violated, mode)]]
    /\ UNCHANGED <<clock, limiterVars, mode, rules, changes>>

(***************************************************************************)
(* Administration, and time.                                               *)
(***************************************************************************)
Change == changes < MaxChanges /\ changes' = changes + 1

AddPolicyRule ==
    \E rule \in DefaultRules \ rules :
        rules' = rules \cup {rule} /\ Change /\ UNCHANGED <<clock, limiterVars, mode, enforcing>>

RemovePolicyRule ==
    \E rule \in rules :
        rules' = rules \ {rule} /\ Change /\ UNCHANGED <<clock, limiterVars, mode, enforcing>>

SetEnforcementMode ==
    \E m \in Modes \ {mode} :
        mode' = m /\ Change /\ UNCHANGED <<clock, limiterVars, rules, enforcing>>

PolicyTick ==
    /\ clock < MaxClock
    /\ clock' = clock + 1
    /\ UNCHANGED <<limiterVars, policyVars>>

PolicyNext ==
    \/ \E c \in Callers :
         /\ c \in Enforcers => enforcing[c].pc \in {"idle", "done"}
         /\ AllowRequest(c) /\ UNCHANGED policyVars
    \/ \E c \in Enforcers :
         \/ EnforcePolicy(c) \/ EvaluateRule(c) \/ EvaluateRateRule(c)
         \/ RateRuleEvaluated(c) \/ Decide(c)
    \/ LimiterNext /\ UNCHANGED policyVars
    \/ ResetLimits /\ Change /\ UNCHANGED <<mode, rules, enforcing>>
    \/ AddPolicyRule \/ RemovePolicyRule \/ SetEnforcementMode \/ PolicyTick

-----------------------------------------------------------------------------
\* A request whose input is invalid is not allowed if the rule on the input was
\* enabled when it came, whatever rules are removed and whatever the limiter says
\* meanwhile, unless the mode that holds at the decision only records.
InvalidIsBlocked ==
    \A c \in Enforcers :
        enforcing[c].pc = "done" /\ ~ enforcing[c].valid /\ enforcing[c].ruled
        => ~ enforcing[c].allowed \/ enforcing[c].lenient
=============================================================================
