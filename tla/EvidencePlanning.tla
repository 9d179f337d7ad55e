---------------------------- MODULE EvidencePlanning -----------------------------
(***************************************************************************)
(* From requirements to reads: the first plan within its budget            *)
(* (evidence_plan.go, capability_metadata.go) and the one follow-up round  *)
(* (evidence_followup.go).  A read is a capability with its arguments.     *)
(***************************************************************************)
EXTENDS EvidenceRouting, FiniteSetsExt

phase2BMaxLogicalReads == 6
phase2BMaxCostUnits == 12
phase2DMaxAdditionalLogicalReads == 2
phase2DMaxAdditionalCostUnits == 4

evidenceProviderPriority(type) ==
  CASE type = "current_platform" -> <<"get_platform_overview", "get_app_context">>
    [] type = "current_deployment" -> <<"list_apps", "get_app_context">>
    [] type = "current_application" -> <<"get_app_context", "list_apps">>
    [] type = "current_database" -> <<"list_databases", "get_app_context">>
    [] type = "host_history" -> <<"read_host_history">>
    [] type = "thermal_history" -> <<"read_temperature_history">>
    [] type = "application_history" -> <<"read_application_history">>
    [] type = "service_history" -> <<"read_service_history">>
    [] type = "infrastructure_events" -> <<"read_infrastructure_events">>
    [] type = "database_backups" -> <<"read_database_backups">>
    [] type = "activity_timeline" -> <<"read_activity">>
    [] type = "recovery_timeline" -> <<"read_recovery">>
    [] type = "repository_search" -> <<"search_repository">>
    [] type = "repository_content" -> <<"read_repository_file">>
    [] type = "runtime_failures" -> <<"read_runtime_logs">>
    [] type = "deployment_timeline" -> <<"read_deployment_history">>

(* Mutant: the compound read is dearer than the budget was made for. *)
CostRaised(cap) == CASE cap = "get_app_context" -> 8 [] cap = "read_application_history" -> 2 [] OTHER -> 1

(* phase2CapabilityMetadata: MaxFanout is the same number. *)
CostUnits(cap) ==
  CASE cap = "get_app_context" -> 7 [] cap = "read_application_history" -> 2 [] OTHER -> 1

AppReads == {"get_app_context", "read_application_history", "read_runtime_logs",
             "read_deployment_history"}

providerSupportsEvidenceSubject(cap, kind) ==
  CASE cap \in AppReads \cup {"list_apps"} -> kind = "application"
    [] cap \in {"list_databases", "read_database_backups"} -> kind = "database"
    [] cap \in {"search_repository", "read_repository_file"} -> kind \in {"repository", "application"}
    [] OTHER -> kind = "host"

capabilityUsesHistoricalWindow(cap) ==
  cap \in {"read_host_history", "read_temperature_history", "read_application_history",
           "read_service_history", "read_infrastructure_events"}

(* A current window is not silently widened to a history, and one that is  *)
(* empty is refused; logs are read without their window, but check it.     *)
WindowAccepted(cap, window) ==
  /\ capabilityUsesHistoricalWindow(cap) => window \in {"named", "bounded", "unspecified"}
  /\ cap = "read_runtime_logs" => window # "empty"

ArgumentsAccepted(cap, req, seeded) ==
  /\ cap \in AppReads \cup {"search_repository"} => req.subject # "unresolved"
  /\ cap = "read_database_backups" => req.subject # "all"
  /\ cap = "search_repository" => seeded
  /\ cap # "read_repository_file"
  /\ WindowAccepted(cap, req.window)

ReadOf(cap, req) ==
  [cap |-> cap,
   on |-> IF cap \in AppReads \cup {"read_database_backups", "search_repository", "read_repository_file"}
            THEN req.subject ELSE "none",
   window |-> IF capabilityUsesHistoricalWindow(cap) THEN req.window ELSE "none"]

selectEvidenceProvider(req) ==
  LET order == evidenceProviderPriority(req.type)
  IN order[First({i \in 1..Len(order) : providerSupportsEvidenceSubject(order[i], req.kind)})]

(* missingForPlanning and the refused arguments. *)
Missing(req, cap, availability) ==
  [type |-> req.type, criticality |-> req.criticality, cap |-> cap, availability |-> availability]

(* BuildEvidencePlan: every requirement is served by a read or reported    *)
(* missing; the content of a repository is read where its search leads.    *)
Served(requirements, seeded) ==
  {req \in requirements : ArgumentsAccepted(selectEvidenceProvider(req), req, seeded)}

DeferredContent(requirements, seeded) ==
  {req \in requirements :
     /\ selectEvidenceProvider(req) = "read_repository_file"
     /\ \E parent \in Served(requirements, seeded) :
          selectEvidenceProvider(parent) = "search_repository" /\ parent.subject = req.subject}

Planned(requirements, seeded) ==
  Served(requirements, seeded) \cup DeferredContent(requirements, seeded)

RequestsFor(reqs, Provider(_)) ==
  {[read |-> read, serves |-> {req.type : req \in {r \in reqs : ReadOf(Provider(r), r) = read}}] :
     read \in {ReadOf(Provider(r), r) : r \in reqs}}

PlanCost(requests) == MapThenSumSet(LAMBDA request : CostUnits(request.read.cap), requests)

BuildEvidencePlan(requirements, seeded) ==
  LET planned == Planned(requirements, seeded)
  IN [requests |-> RequestsFor(planned, selectEvidenceProvider),
      missing |-> {Missing(req, selectEvidenceProvider(req), "unsupported") :
                     req \in requirements \ planned}]

WithinBudget(plan) ==
  /\ Cardinality(plan.requests) <= phase2BMaxLogicalReads
  /\ PlanCost(plan.requests) <= phase2BMaxCostUnits
--------------------------------------------------------------------------------
(* Evidence: items (what was seen of a requirement, by which read, about    *)
(* which subject), missing entries and conflicting types.                  *)

isResolvedFollowUpSubject(subject) == subject \notin {"all", "unresolved"}

isMaterialFollowUpMissing(req, entry) ==
  \/ entry.criticality = "critical"
  \/ /\ entry.criticality = "relevant" /\ req.type = "database_backups"
     /\ entry.cap = "read_database_backups" /\ ~isResolvedFollowUpSubject(req.subject)

(* materialEvidenceGaps: an unavailable entry of a requirement hides a      *)
(* partial one; kinds are sorted by name.                                  *)
GapOf(req, entries) ==
  LET missing == {m \in entries : m.availability # "partial"}
      entry == CHOOSE m \in (IF missing # {} THEN missing ELSE entries) : TRUE
  IN [rank |-> IF missing # {} THEN 2 ELSE 3, req |-> req, cap |-> entry.cap]

materialEvidenceGaps(requirements, evidence) ==
  LET material(req) == {m \in evidence.missing : m.type = req.type /\ isMaterialFollowUpMissing(req, m)}
  IN {GapOf(req, material(req)) : req \in {r \in requirements : material(r) # {}}}
       \cup {[rank |-> 1, req |-> req, cap |-> "none"] :
               req \in {r \in requirements : r.type \in evidence.conflicts}}

(* An unresolved subject is taken from the evidence, if it names few. *)
followUpSubjects(req, evidence) ==
  LET named == {item.on : item \in {i \in evidence.items :
                 i.type = "current_database" /\ req.kind = "database" /\ i.on \in Databases}}
  IN IF isResolvedFollowUpSubject(req.subject) THEN {req.subject}
     ELSE IF Cardinality(named) > phase2DMaxAdditionalLogicalReads THEN {} ELSE named

followUpProviderOrder(gap) ==
  (IF gap.cap = "none" THEN <<>> ELSE <<gap.cap>>) \o evidenceProviderPriority(gap.req.type)

(* Mutant: what was read already may be read again. *)
FollowUpProvidersRepeating(gap, req, executed, seeded) ==
  LET order == followUpProviderOrder(gap)
  IN {i \in 1..Len(order) :
        /\ providerSupportsEvidenceSubject(order[i], req.kind)
        /\ ArgumentsAccepted(order[i], req, seeded)
        /\ CostUnits(order[i]) <= phase2DMaxAdditionalLogicalReads}

FollowUpProviders(gap, req, executed, seeded) ==
  LET order == followUpProviderOrder(gap)
  IN {i \in 1..Len(order) :
        /\ providerSupportsEvidenceSubject(order[i], req.kind)
        /\ ArgumentsAccepted(order[i], req, seeded)
        /\ ReadOf(order[i], req) \notin executed
        /\ CostUnits(order[i]) <= phase2DMaxAdditionalLogicalReads}

(* followUpCandidateForSubject, for every subject of every gap. *)
CandidatesOf(gap, req, executed, seeded) ==
  LET usable == FollowUpProviders(gap, req, executed, seeded)
  IN {[rank |-> gap.rank, type |-> req.type, read |-> ReadOf(followUpProviderOrder(gap)[i], req)] :
        i \in {j \in usable : \A k \in usable : j <= k}}

FollowUpCandidates(requirements, evidence, executed, seeded) ==
  UNION {UNION {CandidatesOf(gap, [gap.req EXCEPT !.subject = subject], executed, seeded) :
                  subject \in followUpSubjects(gap.req, evidence)} :
           gap \in materialEvidenceGaps(requirements, evidence)}

FollowUpRequests(candidates) ==
  {[read |-> c.read, serves |-> {c.type}] : c \in candidates}

FollowUpAffordable(candidates) ==
  /\ Cardinality(candidates) <= phase2DMaxAdditionalLogicalReads
  /\ PlanCost(FollowUpRequests(candidates)) <= phase2DMaxAdditionalCostUnits

(* PlanSecondEvidenceRound takes candidates gap by gap while they fit; gaps *)
(* of one kind come in the order of their hashed identifiers.              *)
SecondRounds(candidates) ==
  {chosen \in SUBSET candidates :
     /\ \A c1, c2 \in chosen : c1.read = c2.read => c1 = c2
     /\ FollowUpAffordable(chosen)
     /\ \A c \in candidates \ chosen :
          \/ \E d \in chosen : d.read = c.read
          \/ ~FollowUpAffordable({d \in chosen : d.rank <= c.rank} \cup {c})}
--------------------------------------------------------------------------------
(* What the follow-up settled: requirements it saw something of, without a *)
(* critical limitation of its own.                                         *)
resolvedFollowUpRequirements(evidence) ==
  {i.type : i \in evidence.items}
    \ {m.type : m \in {n \in evidence.missing : n.criticality = "critical"}}

(* Mutant: a requirement that got something is complete. *)
FilterAllMissing(current, prior, resolved) == {m \in current : m.type \notin resolved}

filterResolvedPriorMissing(current, prior, resolved) ==
  {m \in current : ~(m.type \in resolved /\ m \in prior)}

combineEvidencePlans(first, second, resolved) ==
  [requests |-> first.requests \cup second,
   missing |-> filterResolvedPriorMissing(first.missing, first.missing, resolved)]
================================================================================
