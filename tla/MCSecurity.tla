----------------------------- MODULE MCSecurity -----------------------------
(* Two callers wherever callers compete; each strategy of the rate limiter   *)
(* in a scope of its own; a command or file operation of each kind of risk.  *)
EXTENDS Security

CONSTANTS c1, c2, u1, t1, ip1

MCInputs == {LogAuthentication(u, FALSE) : u \in Users} \cup {LogSecurityViolation("privilege")}
MCVerdicts == {"resolved"}
MCOverloads == {FALSE}

Limit(strategy, window, max, multiplier) ==
    [strategy |-> strategy, window |-> window, max |-> max, burst |-> 1, refill |-> 1,
     multiplier |-> multiplier, maxBackoff |-> 2, whitelist |-> {}]

MCConfigs == {[per_tool |-> Limit("fixed_window", 2, 1, 2)],
              [per_user |-> Limit("sliding_window", 2, 1, 1)],
              [per_ip   |-> Limit("leaky_bucket", 1, 1, 1)],
              [global   |-> Limit("token_bucket", 1, 1, 1)]}
MCRequests == {[user |-> u1, tool |-> t1, ip |-> ip1]}

MCOperations == {[kind |-> "command", risk |-> "medium", listed |-> TRUE],
                 [kind |-> "command", risk |-> "critical", listed |-> TRUE],
                 [kind |-> "command", risk |-> "low", listed |-> FALSE],
                 [kind |-> "file", risk |-> "medium", listed |-> FALSE],
                 [kind |-> "file", risk |-> "high", listed |-> FALSE]}
=============================================================================
