------------------------------- MODULE Diagnostics -------------------------------
(***************************************************************************)
(* A diagnostic question (diagnostic_controller.go, diagnostic_logs.go,     *)
(* diagnostic_response.go): a snapshot of the application, up to three more *)
(* sources that what was read so far calls for, an assessment of it all,    *)
(* and an answer, by the software or by a model the assessment holds down.  *)
(***************************************************************************)
EXTENDS Integers, Sequences, FiniteSets, FiniteSetsExt

CONSTANTS
  Messages,            \* questions: sets of what their wording shows
  Deployments,         \* what the platform may report of the application
  Logs,                \* what is logged: sequences of [at, says], at = 0 when undated
  Cutoff,              \* where the window a question asks about begins
  diagnosticMaxEvidenceExpansionRounds, diagnosticLogLines, diagnosticPatternLimit

(* There are as many rounds as sources (diagnostic_controller.go:11).       *)
ASSUME RoundsAssumption ==
  diagnosticMaxEvidenceExpansionRounds \in Nat /\ diagnosticMaxEvidenceExpansionRounds >= 3

(* A log is written as time goes by: its dated lines are in order.          *)
ASSUME LogsAssumption ==
  /\ diagnosticLogLines \in Nat \ {0} /\ Cutoff \in Nat \ {0}
  /\ Logs \subseteq Seq([at : Nat, says : STRING])
  /\ \A lines \in Logs : \A n, m \in DOMAIN lines :
       n < m /\ lines[n].at # 0 /\ lines[m].at # 0 => lines[n].at <= lines[m].at

VARIABLES step, message, snapshot, logs, history, repository, attempted, unavailable, verdict

diagnosticVars ==
  <<step, message, snapshot, logs, history, repository, attempted, unavailable, verdict>>

Sources == {"deployment_logs", "runtime_logs", "repository"}
LogSources == {"runtime_logs", "deployment_logs"}
NotRead == [read |-> FALSE, lines |-> <<>>]
NoVerdict == [mode |-> "none", status |-> "unknown", confidence |-> "unknown", speculates |-> FALSE]
NoSnapshot == [state |-> "", health |-> "", services |-> {}, claim |-> "unknown", database |-> "none",
               mismatch |-> "unknown", troubled |-> FALSE, ok |-> {}, deployedAt |-> 0]

(* What the wording shows; a message that says something fails now does     *)
(* not ask to verify that all is well.                                     *)
isChangeAwareDiagnosticQuestion == "change" \in message
hasCurrentFailurePremise == "premise" \in message
isDiagnosticVerificationQuestion == "verify" \in message /\ ~hasCurrentFailurePremise
isDiagnosticReasoningQuestion ==
  isChangeAwareDiagnosticQuestion \/ isDiagnosticVerificationQuestion \/ "why" \in message
changeQuestionNeedsTimingOrFailureEvidence == hasCurrentFailurePremise \/ "timing" \in message
isDeploymentCausalityQuestion == isChangeAwareDiagnosticQuestion /\ "causality" \in message
isNarrowDeploymentMetadataQuestion ==
  "metadata" \in message /\ ~changeQuestionNeedsTimingOrFailureEvidence

DiagnosticsInit ==
  /\ step = "asked" /\ message \in Messages /\ snapshot = NoSnapshot
  /\ logs = [s \in LogSources |-> NotRead] /\ history = "unread" /\ repository = FALSE
  /\ attempted = {} /\ unavailable = {} /\ verdict = NoVerdict

(* resolveDiagnosticSnapshotFromDeployments: an application is deployed, or *)
(* it is a service of the host that has no containers of its own.          *)
Snapshot(d) ==
  LET running == \A s \in d.services : s.state = "running"
      host == [NoSnapshot EXCEPT !.health = d.status,
                                 !.services = {[state |-> d.status, health |-> d.status]},
                                 !.claim = IF d.active THEN "yes" ELSE "no"]
      deployed == [NoSnapshot EXCEPT
                     !.state = d.status, !.health = d.status, !.services = d.services,
                     !.claim = IF d.services = {} THEN "unknown" ELSE IF running THEN "yes" ELSE "no",
                     !.database = d.database, !.mismatch = d.mismatch, !.deployedAt = d.deployedAt]
  IN [(IF d.deployed THEN deployed ELSE host) EXCEPT
        !.troubled = d.troubled /\ "activity" \in d.ok,
        !.ok = d.ok \cup (IF d.deployed THEN {"deployment"} ELSE {})]

Unhealthy == {"unhealthy", "failed", "failing", "degraded", "stopped", "inactive", "exited", "crashed"}
verifiedAllServicesRunning ==
  snapshot.services # {} /\ \A s \in snapshot.services : s.state = "running"
verifiedAllServicesHealthy ==
  snapshot.services # {} /\ \A s \in snapshot.services : s.health = "healthy"
hasFailingService == \E s \in snapshot.services : {s.state, s.health} \cap Unhealthy # {}
currentDiagnosticFailure == snapshot.health \in Unhealthy \/ hasFailingService
--------------------------------------------------------------------------------
(* summarizeDiagnosticLogs: the last lines; of these, when the question     *)
(* asks for a window and all of them are dated and reach back before it,    *)
(* the ones in the window.                                                 *)
Causes == {"config_error", "root_cause"}
Errors == {"error", "code_error"} \cup Causes
Remarkable == Errors \cup {"warning", "restart"}

LastLines(lines) ==
  SubSeq(lines, IF Len(lines) > diagnosticLogLines THEN Len(lines) - diagnosticLogLines + 1 ELSE 1,
         Len(lines))

(* Mutant: the window is applied to what there is of it. *)
WindowAppliedToTheRest(lines) ==
  "window" \in message /\ lines # <<>> /\ \A n \in DOMAIN lines : lines[n].at # 0

WindowApplied(lines) ==
  /\ "window" \in message /\ lines # <<>>
  /\ \A n \in DOMAIN lines : lines[n].at # 0
  /\ \E n \in DOMAIN lines : lines[n].at <= Cutoff

Counted(lines) ==
  {n \in DOMAIN lines : WindowApplied(lines) => lines[n].at >= Cutoff}

(* The most frequent kinds of line, the earlier ones first between equals. *)
Patterns(lines) ==
  LET of(says) == {n \in Counted(lines) : lines[n].says = says}
      kinds == {lines[n].says : n \in Counted(lines)} \cap Remarkable
      Before(k, j) == \/ Cardinality(of(k)) > Cardinality(of(j))
                      \/ Cardinality(of(k)) = Cardinality(of(j)) /\ Min(of(k)) < Min(of(j))
  IN {k \in kinds : Cardinality({j \in kinds : Before(j, k)}) < diagnosticPatternLimit}

FirstError(lines) ==
  LET dated == {lines[n].at : n \in {m \in Counted(lines) : lines[m].says \in Errors}} \ {0}
  IN IF dated = {} THEN 0 ELSE Min(dated)

Says(source, kinds) == Patterns(LastLines(logs[source].lines)) \cap kinds # {}
HasLine(source, kinds) ==
  \E n \in Counted(LastLines(logs[source].lines)) : LastLines(logs[source].lines)[n].says \in kinds

diagnosticLogHasFailure(source) == logs[source].read /\ HasLine(source, Errors \cup {"stop"})

logSummarySupportsNoCurrentFailure(source) ==
  LET lines == LastLines(logs[source].lines)
  IN /\ logs[source].read /\ lines # <<>>
     /\ "window" \in message => WindowApplied(lines)
     /\ ~HasLine(source, Remarkable \cup {"stop"})

diagnosticErrorsFollowDeployment ==
  LET first == FirstError(LastLines(logs["runtime_logs"].lines))
  IN snapshot.deployedAt # 0 /\ first # 0 /\ first >= snapshot.deployedAt
--------------------------------------------------------------------------------
(* What the question, the snapshot and the logs read so far call for.      *)
diagnosticNeedsDeploymentEvidence ==
  IF isChangeAwareDiagnosticQuestion THEN changeQuestionNeedsTimingOrFailureEvidence
  ELSE \/ "deployment" \in message \/ snapshot.mismatch = "differs"
       \/ diagnosticErrorsFollowDeployment \/ Says("runtime_logs", {"config_error"})

diagnosticNeedsRuntimeEvidence ==
  isChangeAwareDiagnosticQuestion =>
    \/ currentDiagnosticFailure \/ snapshot.health \notin {"", "healthy"}
    \/ changeQuestionNeedsTimingOrFailureEvidence

diagnosticNeedsRepositoryEvidence ==
  "code" \in message \/ \E s \in LogSources : Says(s, {"code_error"})

Needed ==
  {s \in Sources : \/ s = "deployment_logs" /\ diagnosticNeedsDeploymentEvidence
                   \/ s = "runtime_logs" /\ diagnosticNeedsRuntimeEvidence
                   \/ s = "repository" /\ diagnosticNeedsRepositoryEvidence}

SourceOrder ==
  IF isChangeAwareDiagnosticQuestion THEN <<"deployment_logs", "runtime_logs", "repository">>
  ELSE <<"runtime_logs", "deployment_logs", "repository">>

(* nextDiagnosticEvidenceSource: the first that is needed and not yet tried. *)
Open == {n \in 1..3 : SourceOrder[n] \in Needed \ attempted}

Resolve ==
  /\ step = "asked" /\ isDiagnosticReasoningQuestion
  /\ \E d \in Deployments : snapshot' = Snapshot(d)
  /\ step' = IF isChangeAwareDiagnosticQuestion THEN "comparing" ELSE "expanding"
  /\ UNCHANGED <<message, logs, history, repository, attempted, unavailable, verdict>>

(* No application, or more than one, is meant; or nothing is diagnosed.    *)
NotResolved ==
  /\ step = "asked" /\ step' = "answered"
  /\ verdict' = [NoVerdict EXCEPT !.mode =
                   IF isChangeAwareDiagnosticQuestion THEN "unresolved" ELSE "conversation"]
  /\ UNCHANGED <<message, snapshot, logs, history, repository, attempted, unavailable>>

(* The current and the previous deployments, each of which may be missing. *)
Compare ==
  /\ step = "comparing" /\ step' = "expanding"
  /\ history' \in {"unavailable", "empty", "kept"}
  /\ \E missing \in SUBSET {"current_deployment"} :
       unavailable' = missing \cup (IF history' = "unavailable" THEN {"deployment_history"} ELSE {})
  /\ UNCHANGED <<message, snapshot, logs, repository, attempted, verdict>>

Expand ==
  /\ step = "expanding" /\ Open # {}
  /\ Cardinality(attempted) < diagnosticMaxEvidenceExpansionRounds
  /\ LET source == SourceOrder[Min(Open)]
     IN /\ attempted' = attempted \cup {source}
        /\ \/ UNCHANGED <<logs, repository>> /\ unavailable' = unavailable \cup {source}
           \/ /\ source = "repository" /\ repository' = TRUE /\ UNCHANGED <<logs, unavailable>>
           \/ /\ source \in LogSources /\ UNCHANGED <<repository, unavailable>>
              /\ \E lines \in Logs : logs' = [logs EXCEPT ![source] = [read |-> TRUE, lines |-> lines]]
  /\ UNCHANGED <<step, message, snapshot, history, verdict>>

Expanded ==
  /\ step = "expanding"
  /\ Open = {} \/ Cardinality(attempted) >= diagnosticMaxEvidenceExpansionRounds
  /\ step' = "assessed"
  /\ UNCHANGED <<message, snapshot, logs, history, repository, attempted, unavailable, verdict>>
--------------------------------------------------------------------------------
(* assessDiagnosticEvidence.  A third contradiction the code looks for, of  *)
(* the mismatch with the commits it was computed from, cannot occur: the    *)
(* snapshot is complete when it is computed (diagnostic_snapshot.go:239).   *)
diagnosticEvidenceIsContradictory ==
  \/ snapshot.claim # "unknown" /\ (snapshot.claim = "yes") # verifiedAllServicesRunning
  \/ snapshot.health = "healthy" /\ hasFailingService

diagnosticEvidenceConsistentlyClean ==
  /\ unavailable = {} /\ ~diagnosticEvidenceIsContradictory
  /\ snapshot.state = "healthy" /\ snapshot.health = "healthy"
  /\ {"deployment", "system", "activity"} \subseteq snapshot.ok
  /\ snapshot.claim = "yes" /\ verifiedAllServicesRunning /\ verifiedAllServicesHealthy
  /\ snapshot.database \in {"none", "ready"} /\ snapshot.mismatch # "differs"
  /\ logSummarySupportsNoCurrentFailure("runtime_logs")
  /\ logs["deployment_logs"].read => logSummarySupportsNoCurrentFailure("deployment_logs")
  /\ ~snapshot.troubled

diagnosticDirectCauseEvidence == \E s \in LogSources : Says(s, Causes)

FailureSignals ==
  {signal \in LogSources \cup {"state", "activity"} :
     \/ signal = "state" /\ currentDiagnosticFailure
     \/ signal = "activity" /\ snapshot.troubled
     \/ signal \in LogSources /\ diagnosticLogHasFailure(signal)}

UncappedCeiling ==
  IF \/ diagnosticEvidenceIsContradictory \/ unavailable # {} \/ snapshot.health = ""
     \/ diagnosticNeedsRuntimeEvidence /\ ~logs["runtime_logs"].read THEN "unknown"
  ELSE IF isDiagnosticVerificationQuestion /\ diagnosticEvidenceConsistentlyClean THEN "strongly_supported"
  ELSE IF hasCurrentFailurePremise /\ diagnosticEvidenceConsistentlyClean THEN "plausible"
  ELSE IF diagnosticDirectCauseEvidence THEN "confirmed"
  ELSE IF Cardinality(FailureSignals) >= 2 THEN "strongly_supported"
  ELSE IF FailureSignals # {} THEN "plausible"
  ELSE "unknown"

(* What came after a deployment was not for that caused by it.             *)
ConfidenceCeiling ==
  IF isChangeAwareDiagnosticQuestion /\ UncappedCeiling = "confirmed" THEN "plausible"
  ELSE UncappedCeiling

Status ==
  IF currentDiagnosticFailure THEN "unhealthy"
  ELSE IF \E s \in LogSources : diagnosticLogHasFailure(s) THEN "degraded"
  ELSE IF snapshot.health = "healthy" /\ verifiedAllServicesHealthy THEN "healthy"
  ELSE "unknown"

(* Something fails, or a cause is thought possible.                        *)
SomethingFails ==
  \/ \E s \in snapshot.services : s.state \notin {"", "running"} \/ s.health \in Unhealthy
  \/ snapshot.database \in Unhealthy \/ snapshot.mismatch = "differs"
  \/ \E s \in LogSources : logs[s].read /\ HasLine(s, Errors)
SomethingIsPossible ==
  \/ diagnosticErrorsFollowDeployment
  \/ hasCurrentFailurePremise /\ diagnosticEvidenceConsistentlyClean
--------------------------------------------------------------------------------
Verdict(mode, status, confidence, speculates) ==
  [mode |-> mode, status |-> status, confidence |-> confidence, speculates |-> speculates]

(* deterministicInvestigatedDiagnosticAnswer, tried before any model is.   *)
SoftwareAnswers ==
  IF isChangeAwareDiagnosticQuestion /\ (history # "kept" \/ isNarrowDeploymentMetadataQuestion)
  THEN {Verdict("software", Status, "unknown", FALSE)}
  ELSE IF isDiagnosticVerificationQuestion /\ diagnosticEvidenceConsistentlyClean
  THEN {Verdict("software", "healthy", "strongly_supported", FALSE)}
  ELSE IF ConfidenceCeiling = "confirmed" /\ diagnosticDirectCauseEvidence
  THEN {Verdict("software", Status, "confirmed", FALSE)}
  ELSE {}

AnswerWithoutModel ==
  /\ step = "assessed" /\ verdict' \in SoftwareAnswers /\ step' = "answered"
  /\ UNCHANGED <<message, snapshot, logs, history, repository, attempted, unavailable>>

(* The host is busy, the model unreachable or the power lease refused, or   *)
(* the model's stream breaks: the request ends with an error.              *)
Fail ==
  /\ step = "assessed" /\ SoftwareAnswers = {} /\ step' = "answered"
  /\ verdict' = [NoVerdict EXCEPT !.mode = "error"]
  /\ UNCHANGED <<message, snapshot, logs, history, repository, attempted, unavailable>>

Levels == <<"unknown", "plausible", "strongly_supported", "confirmed">>
Rank(level) == CHOOSE n \in DOMAIN Levels : Levels[n] = level
lowerDiagnosticConfidence(level, ceiling) == Levels[Min({Rank(level), Rank(ceiling)})]

(* parseDiagnosticFinalResponse: the status must be the software's, a cause *)
(* may be asserted only when it is confirmed, and that a deployment did not *)
(* cause something may never be.                                           *)
parseDiagnosticFinalResponse(response, status, ceiling) ==
  /\ response.sound /\ response.status = status
  /\ response.says \notin {"deployment_is_not_to_blame", "narration"}
  /\ response.says = "this_is_the_cause" =>
       lowerDiagnosticConfidence(response.confidence, ceiling) = "confirmed"

Responses ==
  [sound : BOOLEAN, status : {"healthy", "unhealthy", "degraded", "unknown"},
   confidence : {Levels[n] : n \in DOMAIN Levels}, speculates : BOOLEAN,
   says : {"plain", "this_is_the_cause", "deployment_is_not_to_blame", "narration"}]

AnswerWithModel ==
  /\ step = "assessed" /\ SoftwareAnswers = {} /\ step' = "answered"
  /\ LET status == Status
         ceiling == ConfidenceCeiling
     IN \E response \in Responses :
          verdict' =
            IF parseDiagnosticFinalResponse(response, status, ceiling)
            THEN Verdict("model", status, lowerDiagnosticConfidence(response.confidence, ceiling),
                         response.speculates /\ (SomethingFails \/ SomethingIsPossible))
            ELSE IF isDeploymentCausalityQuestion THEN Verdict("software", status, "unknown", FALSE)
            ELSE [NoVerdict EXCEPT !.mode = "unformatted"]
  /\ UNCHANGED <<message, snapshot, logs, history, repository, attempted, unavailable>>

DiagnosticsNext ==
  \/ Resolve \/ NotResolved \/ Compare \/ Expand \/ Expanded
  \/ AnswerWithoutModel \/ Fail \/ AnswerWithModel

DiagnosticsSpec == DiagnosticsInit /\ [][DiagnosticsNext]_diagnosticVars
--------------------------------------------------------------------------------
(* The lines of a log the question is about: of all that were ever there the *)
(* ones in its window, or the last ones when it asks for none.  Of lines    *)
(* dated at the very start of the window, the older may be cut off.        *)
Asked(source) ==
  LET lines == logs[source].lines
      Last(n) == n > Len(lines) - diagnosticLogLines
  IN {n \in DOMAIN lines : IF "window" \in message
                           THEN lines[n].at > Cutoff \/ (Last(n) /\ lines[n].at = Cutoff)
                           ELSE Last(n)}
(* The one who asks says that something fails, or a source shows trouble.   *)
TroubleIsTold ==
  \/ hasCurrentFailurePremise
  \/ \E s \in snapshot.services : ~(s.state = "running" /\ s.health = "healthy")
  \/ snapshot.database \notin {"none", "ready"} \/ snapshot.mismatch = "differs"
  \/ \E s \in LogSources : \E n \in DOMAIN logs[s].lines : logs[s].lines[n].says \in Errors
NoneSays(source, kinds) ==
  \A n \in Asked(source) : logs[source].lines[n].says \notin kinds

(* A verdict is worth what was read for it, whatever order the sources were *)
(* asked in, whichever was missing and whatever the model would make of it: *)
(* three rounds leave nothing out that is called for; an unread source, or  *)
(* states that contradict each other, leave the confidence unknown; only a  *)
(* line that names a cause confirms one, and never that it was a            *)
(* deployment; causes are thought possible only where someone tells of      *)
(* trouble; and that all is well is said when every service is and, for one *)
(* who asks just that, the log has all of the time asked about and no       *)
(* trouble in it (diagnostic_controller.go:104, :386, diagnostic_logs.go:661). *)
VerdictsAreEarned ==
  verdict.mode \in {"software", "model"} =>
    /\ Needed \subseteq attempted
    /\ verdict.speculates => TroubleIsTold
    /\ verdict.confidence # "unknown" =>
         /\ attempted \cap LogSources = {s \in LogSources : logs[s].read}
         /\ "repository" \in attempted => repository
         /\ snapshot.health = "healthy" => ~hasFailingService
    /\ verdict.confidence = "confirmed" =>
         /\ ~isChangeAwareDiagnosticQuestion
         /\ \E s \in LogSources : \E n \in DOMAIN logs[s].lines : logs[s].lines[n].says \in Causes
    /\ verdict.status = "healthy" =>
         /\ verifiedAllServicesHealthy
         /\ isDiagnosticVerificationQuestion /\ verdict.confidence = "strongly_supported" =>
              /\ \A s \in LogSources : NoneSays(s, Remarkable \cup {"stop"})
              /\ logs["runtime_logs"].lines # <<>>
              /\ "window" \in message => \E n \in DOMAIN logs["runtime_logs"].lines :
                                          logs["runtime_logs"].lines[n].at <= Cutoff
================================================================================
