--------------------------- MODULE ThreatDetection ---------------------------
(***************************************************************************)
(* The threat detection engine (internal/security/threat_detector.go) over *)
(* the security auditor: every AnalysisInterval it searches the log files   *)
(* for the events of the last two intervals, makes indicators of them and   *)
(* logs an alert for each, which the next analysis reads in its turn.       *)
(***************************************************************************)
EXTENDS SecurityAudit, SequencesExt

CONSTANTS AnalysisInterval,  \* ThreatDetectionConfig.AnalysisInterval, seconds
          RetentionPeriod,   \* ThreatDetectionConfig.RetentionPeriod
          AutoMitigation,    \* ThreatDetectionConfig.AutoMitigation
          SearchLimit,       \* AuditFilter.Limit of an analysis: 1000
          FailureThreshold,  \* failures of a brute force: 5
          ErrorRate,         \* grave events a review puts up with: 10
          Inputs,            \* events the program logs
          Overloads,         \* what the resource monitor may answer
          Verdicts,          \* what UpdateThreatStatus is called with
          MaxTime            \* bound: seconds

ASSUME DetectionAssumption ==
    /\ {AnalysisInterval, SearchLimit, FailureThreshold} \subseteq Nat \ {0}
    /\ {RetentionPeriod, ErrorRate, MaxTime} \subseteq Nat
    /\ AutoMitigation \in BOOLEAN /\ Overloads \subseteq BOOLEAN
    /\ Inputs \subseteq Calls
    /\ Verdicts \subseteq {"active", "investigating", "mitigated", "resolved",
                           "false_positive"}

VARIABLES loop,        \* where analysisLoop is
          due,         \* when its ticker fires next
          listing,     \* the log files its search listed, and the earliest time
          pending,     \* indicators of the analysis, those to process first
          indicators,  \* the indicators by id
          reviews,     \* the latest of the security reviews, if any
          examined     \* ids of events an analysis has read

detectVars == <<loop, due, listing, pending, indicators, reviews, examined>>
monitoringVars == <<now, auditVars, detectVars>>

Quiet == UNCHANGED <<logs, current, cleaners, doomed, rotator, writing, faults>>

(***************************************************************************)
(* Analysis of events.  They are read newest first, so that where the code   *)
(* takes the first one it takes the one with the highest id.                *)
(***************************************************************************)
\* An AuditFilter: the earliest time, the levels wanted (none: all) and the
\* number of events (0: all); the engine sets no other field.
AuditFilter(since, levels, limit) == [since |-> since, levels |-> levels, limit |-> limit]

MatchesFilter(e, filter) ==
    /\ e.time >= filter.since
    /\ filter.levels = {} \/ e.event.level \in filter.levels

Found(files, filter) ==
    {e \in UNION {f.events : f \in {g \in logs : g.name \in files}} : MatchesFilter(e, filter)}

\* SearchEvents: the events that match in those of the listed files that still
\* exist, the newest ones if they are more than the limit.  (Lines are shorter than the
\* 64 KB at which the scanner gives up a file without a word, audit.go:687.)
SearchEvents(files, filter) ==
    LET found == Found(files, filter)
        Later(e) == {d \in found : d.id > e.id}
    IN {e \in found : filter.limit > 0 => Cardinality(Later(e)) < filter.limit}

NewestIn(events) == CHOOSE e \in events : \A d \in events : d.id <= e.id

GroupKey(e) == <<e.event.user, e.event.type>>

\* The id of an indicator has its kind and the second.
Indicator(kind, level, target, event) ==
    [id |-> <<kind, now>>, level |-> level, target |-> target, event |-> event,
     time |-> now, status |-> "active"]

DetectBruteForce(group) ==
    LET failures == {e \in group : e.event.type = "authentication" /\ e.event.failed}
        first == NewestIn(failures)
    IN IF Cardinality(failures) >= FailureThreshold
       THEN <<Indicator("brute_force", "high", first.event.user, first.id)>>
       ELSE <<>>

\* The first event of the group that fits, as an indicator.
FirstThat(group, type, about, kind, level) ==
    LET fit == {e \in group : e.event.type = type /\ e.event.about = about}
        first == NewestIn(fit)
    IN IF fit = {} THEN <<>>
       ELSE <<Indicator(kind, level, first.event.user, first.id)>>

DetectPrivilegeEscalation(group) ==
    FirstThat(group, "security_violation", "privilege", "priv_esc", "critical")

DetectSuspiciousCommands(group) ==
    FirstThat(group, "tool_execution", "suspicious", "suspicious_cmd", "high")

DetectResourceAbuse(overloaded) ==
    IF overloaded THEN <<Indicator("resource_abuse", "high", NoUser, 0)>> ELSE <<>>

AnalyzeEventGroup(group, overloaded) ==
    DetectBruteForce(group) \o DetectPrivilegeEscalation(group)
        \o DetectSuspiciousCommands(group) \o DetectResourceAbuse(overloaded)

\* The groups come in the order of a map: any.
Groups(events) ==
    LET keys == {GroupKey(e) : e \in events}
    IN {[i \in DOMAIN order |-> {e \in events : GroupKey(e) = order[i]}] :
        order \in SetToSeqs(keys)}

Analyses(events, overloaded) ==
    {FlattenSeq([i \in DOMAIN groups |-> AnalyzeEventGroup(groups[i], overloaded)]) :
     groups \in Groups(events)}

\* The alert's message holds the indicator's description, so that of a
\* privilege escalation is about privileges too.
Alert(i) == AuditEvent("security_violation",
                       IF i.level = "critical" THEN "critical" ELSE "warning",
                       FALSE, NoUser,
                       IF i.id[1] = "priv_esc" THEN "privilege" ELSE "nothing",
                       "threat_detector")

SystemAccess(level) ==
    AuditEvent("system_access", level, FALSE, NoUser, "nothing", "threat_detector")

Store(i) == [id \in DOMAIN indicators \cup {i.id} |->
             IF id = i.id THEN i ELSE indicators[id]]

(***************************************************************************)
(* The steps of analysisLoop.                                              *)
(***************************************************************************)
DetectionInit ==
    /\ AuditInit
    /\ loop = "waiting"
    /\ due = 1 + AnalysisInterval
    /\ listing = [files |-> {}, since |-> 0]
    /\ pending = <<>>
    /\ indicators = <<>>
    /\ reviews = {}
    /\ examined = {}

\* Mutant: only the file being written is searched.
PeriodicAnalysisOfCurrent ==
    /\ loop = "waiting" /\ now >= due
    /\ loop' = "searching"
    /\ due' = now + AnalysisInterval
    /\ listing' = [files |-> {current.name}, since |-> 0]
    /\ UNCHANGED <<now, auditVars, pending, indicators, reviews, examined>>

\* The ticker fires; SearchEvents lists the log files.
PeriodicAnalysis ==
    /\ loop = "waiting" /\ now >= due
    /\ loop' = "searching"
    /\ due' = now + AnalysisInterval
    /\ listing' = [files |-> LogFiles,
                   since |-> IF now > 2 * AnalysisInterval
                              THEN now - 2 * AnalysisInterval ELSE 0]
    /\ UNCHANGED <<now, auditVars, pending, indicators, reviews, examined>>

\* It reads them and the events are analysed, unless there are none.
AnalyzeSecurityEvents ==
    /\ loop = "searching"
    /\ LET events == SearchEvents(listing.files,
                                   AuditFilter(listing.since, {}, SearchLimit))
       IN /\ examined' = examined \cup Ids(events)
          /\ \E overloaded \in Overloads :
             \E found \in Analyses(events, overloaded) : pending' = found
    /\ loop' = "processing"
    /\ listing' = [files |-> {}, since |-> 0]
    /\ UNCHANGED <<now, auditVars, due, indicators, reviews>>

\* processNewIndicator stores the next indicator under the lock ...
StoreIndicator ==
    /\ loop = "processing" /\ pending /= <<>>
    /\ indicators' = Store(Head(pending))
    /\ loop' = "alerting"
    /\ UNCHANGED <<now, auditVars, due, listing, pending, reviews, examined>>

\* ... and logs its alert and mitigates it without the lock.
GenerateAlert ==
    LET i == Head(pending)
        mitigated == AutoMitigation /\ i.level = "critical"
    IN /\ loop = "alerting"
       /\ LogEvents(Loggable(Alert(i))
                       \o IF mitigated THEN Loggable(SystemAccess("warning")) ELSE <<>>)
       /\ indicators' = IF mitigated /\ i.id \in DOMAIN indicators
                        THEN [indicators EXCEPT ![i.id].status = "mitigated"]
                        ELSE indicators
       /\ pending' = Tail(pending)
       /\ loop' = "processing"
       /\ Quiet
       /\ UNCHANGED <<now, due, listing, reviews, examined>>

\* cleanupOldIndicators ends the analysis.
CleanupOldIndicators ==
    /\ loop = "processing" /\ pending = <<>>
    /\ loop' = "waiting"
    /\ indicators' =
         [id \in {i \in DOMAIN indicators :
                  ~(/\ indicators[i].time + RetentionPeriod < now
                    /\ indicators[i].status \in {"resolved", "false_positive"})}
          |-> indicators[id]]
    /\ UNCHANGED <<now, auditVars, due, listing, pending, reviews, examined>>

-----------------------------------------------------------------------------
(***************************************************************************)
(* Calls from outside the engine.                                          *)
(***************************************************************************)
\* The engine's Close returns when analysisLoop has seen its closed stopChan.
CloseEngine ==
    /\ loop = "waiting"
    /\ loop' = "stopped"
    /\ UNCHANGED <<now, auditVars, due, listing, pending, indicators, reviews, examined>>

UpdateThreatStatus ==
    \E id \in DOMAIN indicators, verdict \in Verdicts :
        /\ indicators[id].status /= verdict
        /\ indicators' = [indicators EXCEPT ![id].status = verdict]
        /\ LogEvents(Loggable(SystemAccess("info")))
        /\ Quiet
        /\ UNCHANGED <<now, loop, due, listing, pending, reviews, examined>>

GetThreatIndicators(status) ==
    {id \in DOMAIN indicators : indicators[id].status = status}

\* The risk levels of a review's findings, of which each part makes one at most:
\* many grave events in the log, the usage of memory (which is always positive),
\* grave violations of policies and critical threats that are active.
ReviewAuditLogs ==
    LET day == AuditFilter(0, {"error", "critical"}, 100)
    IN IF Cardinality(SearchEvents(LogFiles, day)) > ErrorRate THEN "medium" ELSE "none"

ReviewResourceUsage == "low"

ReviewPolicyViolations(violated) == IF violated THEN "high" ELSE "none"

ReviewThreatIndicators ==
    IF \E id \in GetThreatIndicators("active") : indicators[id].level = "critical"
    THEN "high" ELSE "none"

Findings(violated) ==
    [audit |-> ReviewAuditLogs, resources |-> ReviewResourceUsage,
     policies |-> ReviewPolicyViolations(violated), threats |-> ReviewThreatIndicators]

Weight == [none |-> 0, low |-> 10, medium |-> 25, high |-> 40, critical |-> 50]

\* calculateRiskScore, in tenths: the mean of the weights against the highest.
RiskScore(findings) ==
    LET score == Weight[findings.audit] + Weight[findings.resources]
                     + Weight[findings.policies] + Weight[findings.threats]
        made  == {review \in DOMAIN findings : findings[review] /= "none"}
    IN IF made = {} THEN 0
       ELSE (score * 100) \div (Cardinality(made) * Weight["critical"])

SeverityFromRisk(score) ==
    IF score >= 80 THEN "critical" ELSE IF score >= 60 THEN "high"
    ELSE IF score >= 30 THEN "medium" ELSE "low"

\* The review is stored and its completion is logged.  "threatened" records
\* whether a critical threat was active.
ConductSecurityReview ==
    \E violated \in BOOLEAN :
        LET critical == {id \in DOMAIN indicators : /\ indicators[id].status = "active"
                                                    /\ indicators[id].level = "critical"}
        IN /\ reviews' = {[severity   |-> SeverityFromRisk(RiskScore(Findings(violated))),
                           threatened |-> critical /= {}]}
           /\ LogEvents(Loggable(SystemAccess("info")))
           /\ Quiet
           /\ UNCHANGED <<now, loop, due, listing, pending, indicators, examined>>

\* Some part of the program logs an event.
LogInput ==
    /\ \E event \in Inputs : LogEvent(event)
    /\ UNCHANGED <<now, detectVars>>

\* A second passes: an analysis that is due begins and ends within its second,
\* and the writer, while it runs, keeps up with the channel.
DetectionTick ==
    /\ now < MaxTime
    /\ loop \in {"waiting", "stopped"} /\ (loop = "waiting" => now < due)
    /\ writing => buffer = <<>>
    /\ now' = now + 1
    /\ UNCHANGED <<auditVars, detectVars>>

DetectionNext ==
    \/ PeriodicAnalysis \/ AnalyzeSecurityEvents \/ StoreIndicator
    \/ GenerateAlert \/ CleanupOldIndicators
    \/ CloseEngine \/ UpdateThreatStatus \/ ConductSecurityReview
    \/ LogInput \/ DetectionTick
    \/ AuditNext /\ UNCHANGED <<now, detectVars>>

-----------------------------------------------------------------------------
\* While the engine runs and the writer keeps up, no event of a log file is
\* older than an interval without having been read by an analysis, whatever
\* rotations happened between the listing and the reading of the files: the
\* search goes back two intervals for this.
EveryEventExamined ==
    loop /= "stopped" =>
        \A f \in logs : \A e \in f.events :
            e.time + AnalysisInterval < now => e.id \in examined

\* The risk score is a mean, so that a finding of low risk lowers it; still no
\* review made while a critical threat was active is rated low.
ReviewsReflectThreats ==
    \A review \in reviews : review.threatened => review.severity /= "low"

\* Every event is examined in time, and no review plays a critical threat down.
ThreatsAreSeen == EveryEventExamined /\ ReviewsReflectThreats
=============================================================================
