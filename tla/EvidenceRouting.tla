----------------------------- MODULE EvidenceRouting -----------------------------
(***************************************************************************)
(* The deterministic router (investigation_router.go): what a question     *)
(* asks, about which subject and window, and which evidence it requires.   *)
(* A question is the set of phrases it holds, by what they stand for.      *)
(***************************************************************************)
EXTENDS Integers, Sequences, FiniteSets

CONSTANTS Applications, Databases

(* The platform lists its applications and their databases.                *)
ASSUME DatabasesAssumption == IsFiniteSet(Databases)
ASSUME ApplicationsAssumption == IsFiniteSet(Applications)

Min2(a, b) == IF a < b THEN a ELSE b
First(S) == CHOOSE x \in S : \A y \in S : x <= y
Last(S) == CHOOSE x \in S : \A y \in S : y <= x

Host == "dell"
Subjects == {Host} \cup Applications \cup Databases

(* A subject is an identifier with its kind (evidence.go:96): no two kinds   *)
(* share one, nor has any the marks of what is not resolved.               *)
ASSUME SubjectsAssumption ==
  /\ Applications \cap Databases = {}
  /\ (Applications \cup Databases) \cap {Host, "all", "unresolved", "none"} = {}

(* Goals in the order in which their phrases are looked for. *)
GoalOrder == <<"location", "causal", "comparison", "incident", "assessment", "trend", "exact">>
Concepts == {GoalOrder[i] : i \in 1..Len(GoalOrder)}
Domains == {"platform", "thermal", "recovery", "application", "performance", "deployment",
            "infrastructure", "database", "repository", "runtime"}

classifyInvestigationGoal(q) ==
  LET hits == {i \in 1..Len(GoalOrder) : GoalOrder[i] \in q.concepts}
  IN IF hits = {} THEN "unresolved" ELSE GoalOrder[First(hits)]

(* Hours; a question's times are relative to the midnight before it. *)
MaximumHistoricalWindow == 7 * 24

(* The window the question names: "bounded" has ordered ends in the past,  *)
(* "empty" is today asked at midnight.                                     *)
parseTemporalScope(q) ==
  CASE Len(q.times) >= 2 ->
         IF /\ q.times[1] < q.times[2] /\ q.times[2] <= q.now
            /\ q.times[2] - q.times[1] <= MaximumHistoricalWindow
           THEN "bounded" ELSE "invalid"
    [] Len(q.times) = 1 /\ "incident" \in q.window ->
         IF q.times[1] > q.now \/ q.times[1] - 1 >= Min2(q.times[1] + 1, q.now)
           THEN "invalid" ELSE "bounded"
    [] OTHER ->
         IF "yesterday" \in q.window THEN "bounded"
         ELSE IF "today" \in q.window THEN (IF q.now = 0 THEN "empty" ELSE "bounded")
         ELSE IF "range" \in q.window THEN "named"
         ELSE IF "now" \in q.window THEN "now" ELSE "unspecified"

Scopes == {"bounded", "empty", "named", "now", "unspecified"}

(* A bare "this" stands for the applications talked about, in a question    *)
(* about a cause or an incident of something that happens to applications. *)
shouldInheritBareThisApplication(q) ==
  /\ q.refers = "this"
  /\ classifyInvestigationGoal(q) \in {"causal", "incident"}
  /\ q.mentions \cap {"deployment", "recovery", "infrastructure", "runtime"} # {}

(* Mutant: of several applications, the first that comes to mind. *)
SubjectGuessed(q) ==
  LET naming == {i \in 1..Len(q.history) : q.history[i] # {}}
  IN IF naming = {} THEN {} ELSE {CHOOSE app \in q.history[Last(naming)] : TRUE}

(* The last message that names applications decides, if it names just one. *)
resolveConversationSubject(q) ==
  LET naming == {i \in 1..Len(q.history) : q.history[i] # {}}
      last == q.history[Last(naming)]
  IN IF naming # {} /\ Cardinality(last) = 1 THEN last ELSE {}

phase2CConversationSubjects(q) ==
  IF shouldInheritBareThisApplication(q)
    THEN UNION {q.history[i] : i \in 1..Len(q.history)}
    ELSE resolveConversationSubject(q)

resolveShadowSubjects(q) ==
  IF q.named # {} THEN q.named
  ELSE IF q.refers = "it" \/ shouldInheritBareThisApplication(q)
         THEN phase2CConversationSubjects(q) ELSE {}

SubjectDomain(s) ==
  IF s \in Applications THEN "application" ELSE IF s \in Databases THEN "database" ELSE "platform"

(* The frame of a question; isEvidenceSeekingGoal is goal # "unresolved".   *)
QuestionDomains(q, subjects) ==
  q.mentions \cup {SubjectDomain(s) : s \in subjects}
    \cup (IF classifyInvestigationGoal(q) = "location" THEN {"repository"} ELSE {})

requiresResolvedApplication(f) ==
  /\ f.goal # "unresolved"
  /\ \/ f.goal = "location" \/ f.domains \cap {"repository", "application"} # {}
     \/ f.goal \in {"causal", "exact"} /\ "deployment" \in f.domains

AmbiguityOf(f) ==
  IF f.goal = "unresolved" THEN "none"
  ELSE IF Cardinality(f.subjects) > 1 /\ f.goal # "comparison" THEN "multiple_subjects"
  ELSE IF requiresResolvedApplication(f) /\ f.subjects \cap Applications = {}
    THEN "unresolved_application_subject"
  ELSE "none"

Frame(q) ==
  LET subjects == resolveShadowSubjects(q)
  IN [goal |-> classifyInvestigationGoal(q), subjects |-> subjects,
      domains |-> QuestionDomains(q, subjects), scope |-> parseTemporalScope(q)]

isApplicationRuntimeTrend(f) == f.goal = "trend" /\ f.domains = {"application", "runtime"}

Unsupported(f) ==
  \/ f.goal = "comparison"
  \/ /\ f.goal = "trend"
     /\ f.domains \cap {"thermal", "recovery"} = {}
     /\ ~({"application", "performance"} \subseteq f.domains)
     /\ ~isApplicationRuntimeTrend(f)

selectSemanticRoute(f) ==
  LET About(domains, goals) == domains \subseteq f.domains /\ f.goal \in goals
      Judged == {"assessment", "trend", "incident"}
      performance == \/ About({"application", "performance"}, Judged) \/ isApplicationRuntimeTrend(f)
                     \/ About({"application"}, {"incident"})
  IN IF f.goal = "unresolved" \/ Unsupported(f) THEN "unresolved"
     ELSE IF About({"repository"}, {"location"}) THEN "repository"
     ELSE IF f.domains # {} /\ f.goal = "exact" THEN "exact"
     ELSE IF About({"deployment"}, {"causal"}) THEN "deployment_correlation"
     ELSE IF About({"recovery"}, Judged) THEN "restart"
     ELSE IF About({"thermal"}, Judged) THEN "thermal"
     ELSE IF About({"database"}, Judged) THEN "database"
     ELSE IF performance THEN "application_performance"
     ELSE IF About({"application"}, {"assessment"}) THEN "application_current"
     ELSE IF About({"platform"}, {"assessment"}) THEN "platform"
     ELSE "unresolved"

(* phase2SemanticRouteProfiles and the exact facts: what a route requires.  *)
Template(type, kind, window, criticality) ==
  [type |-> type, kind |-> kind, window |-> window, criticality |-> criticality]
Now(type, kind) == Template(type, kind, "current", "critical")
Over(type, kind, criticality) == Template(type, kind, "question_or_range", criticality)

ExactFact(f) ==
  IF "deployment" \in f.domains THEN Now("current_deployment", "application")
  ELSE IF "database" \in f.domains THEN Now("current_database", "database")
  ELSE IF "application" \in f.domains THEN Now("current_application", "application")
  ELSE Now("current_platform", "host")

Profile(route, f) ==
  CASE route = "exact" -> {ExactFact(f)}
    [] route = "platform" -> {Now("current_platform", "host")}
    [] route = "thermal" ->
         {Now("current_platform", "host"), Over("thermal_history", "host", "critical"),
          Over("host_history", "host", "relevant")}
    [] route = "restart" ->
         {Over(type, "host", "critical") : type \in {"recovery_timeline", "infrastructure_events"}}
           \cup {Over(type, "host", "relevant") :
                   type \in {"activity_timeline", "host_history", "thermal_history"}}
    [] route = "application_current" -> {Now("current_application", "application")}
    [] route = "application_performance" ->
         {Now("current_application", "application"),
          Over("application_history", "application", "critical"),
          Over("service_history", "host", "relevant"), Over("host_history", "host", "supporting")}
           \cup (IF "runtime" \in f.domains
                   THEN {Over("runtime_failures", "application", "relevant")} ELSE {})
    [] route = "deployment_correlation" ->
         {Now("current_application", "application"),
          Over("deployment_timeline", "application", "critical"),
          Over("application_history", "application", "critical"),
          Over("infrastructure_events", "host", "relevant"),
          Over("activity_timeline", "host", "relevant")}
    [] route = "database" ->
         {Now("current_database", "database"), Over("database_backups", "database", "relevant")}
    [] route = "repository" ->
         {Template("repository_search", "repository", "question", "critical"),
          Template("repository_content", "repository", "question", "relevant")}
    [] OTHER -> {}

requirementSubjectForFrame(kind, f) ==
  LET wanted == CASE kind = "host" -> {Host} [] kind = "database" -> Databases
                  [] OTHER -> Applications
      hits == f.subjects \cap wanted
  IN IF hits # {} THEN CHOOSE s \in hits : TRUE
     ELSE CASE kind = "host" -> Host [] kind = "database" -> "all" [] OTHER -> "unresolved"

requirementTemporalScope(window, f) ==
  CASE window = "current" -> "now"
    [] window = "question_or_range" /\ f.scope = "unspecified" -> "named"
    [] OTHER -> f.scope

requirementsForRoute(route, f) ==
  IF Cardinality(f.subjects) > 1 THEN {}
  ELSE {[type |-> t.type, kind |-> t.kind, subject |-> requirementSubjectForFrame(t.kind, f),
         window |-> requirementTemporalScope(t.window, f), criticality |-> t.criticality] :
          t \in Profile(route, f)}

Decision(resolution, route, f) ==
  [resolution |-> resolution, route |-> route, frame |-> f,
   requirements |-> IF resolution = "supported" THEN requirementsForRoute(route, f) ELSE {}]

buildShadowInvestigationRoute(q) ==
  LET f == Frame(q)
      route == selectSemanticRoute(f)
  IN IF AmbiguityOf(f) # "none" THEN Decision("ambiguous", "unresolved", f)
     ELSE IF f.scope = "invalid" \/ Unsupported(f) \/ route = "unresolved"
       THEN Decision("unsupported", "unresolved", f)
     ELSE Decision("supported", route, f)

(* Questions about anything else are left to the ordinary conversation.    *)
isRecognizedLocalEvidenceIntent(q, f) ==
  /\ f.goal # "unresolved"
  /\ \/ f.subjects # {} \/ q.place = "reactorlab"
     \/ /\ f.goal # "comparison"
        /\ q.place = "word" \/ (AmbiguityOf(f) # "none" /\ "application" \in f.domains)

isPhase2CReasonedRoute(route) ==
  route \in {"platform", "thermal", "restart", "application_current", "application_performance",
             "deployment_correlation", "database", "repository"}

isRecognizedPhase2CAmbiguity(d) == d.resolution = "ambiguous" /\ d.frame.domains # {}
================================================================================
