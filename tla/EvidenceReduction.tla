---------------------------- MODULE EvidenceReduction ----------------------------
(***************************************************************************)
(* What the reads of a plan amount to: items and limitations of the        *)
(* requirements (evidence_reducers.go) and the confidence they allow        *)
(* (confidence.go).  A result is a read with what came of it.              *)
(***************************************************************************)
EXTENDS EvidencePlanning

(* "limited": a part of a compound read that the question only supports on  *)
(* was unavailable; "partial": less than the requirement asks for.         *)
Outcomes == {"complete", "limited", "partial", "unavailable"}
Compound == {"get_app_context", "get_platform_overview"}
Deriving == {"read_host_history", "read_temperature_history", "read_application_history",
             "read_service_history", "read_recovery", "read_runtime_logs"}

isCurrentEvidenceType(type) ==
  type \in {"current_platform", "current_deployment", "current_application", "current_database"}

Item(req, cap, on, kind) == [type |-> req.type, cap |-> cap, on |-> on, kind |-> kind]

(* Each database that was listed is an item of its own subject.            *)
ReducedItems(result, req) ==
  LET listed == IF req.subject = "all" THEN result.found ELSE result.found \cap {req.subject}
      on == IF result.read.cap = "list_databases" /\ listed # {} THEN listed ELSE {req.subject}
  IN {Item(req, result.read.cap, s, "observed") : s \in on}
       \cup {Item(req, result.read.cap, s, "derived") :
               s \in IF result.read.cap \in Deriving THEN on ELSE {}}

(* compoundEvidenceLimitations and the partial coverage of the source.     *)
ReducedMissing(result, req) ==
  LET limit(criticality, availability) ==
        {[Missing(req, result.read.cap, availability) EXCEPT !.criticality = criticality]}
  IN CASE result.outcome = "unavailable" -> limit(req.criticality, "unavailable")
       [] result.outcome = "partial" -> limit(req.criticality, "partial")
       [] result.outcome = "limited" -> limit("supporting", "partial")
       [] OTHER -> {}

(* Observations of one application at one time that do not agree.          *)
ConflictsOf(items, differs) ==
  {a.type : a \in {x \in items :
     /\ differs /\ x.kind = "observed" /\ isCurrentEvidenceType(x.type)
     /\ \E y \in items : y.kind = "observed" /\ y.type = x.type /\ y.on = x.on /\ y.cap # x.cap}}

ReduceEvidenceResults(requirements, refused, results, differs) ==
  LET served == {p \in results \X requirements : p[2].type \in p[1].serves}
      seen == {p \in served : p[1].outcome # "unavailable"}
      items == UNION {ReducedItems(p[1], p[2]) : p \in seen}
  IN [items |-> items,
      missing |-> refused \cup (UNION {ReducedMissing(p[1], p[2]) : p \in served}),
      conflicts |-> ConflictsOf(items, differs)]
--------------------------------------------------------------------------------
(* No requirement of the router defines a freshness of its own, so it        *)
(* matters where the window is now, and only current readings are fresh.   *)
freshnessMatters(req) == req.window = "now"

Critical(reqs) == {req \in reqs : req.criticality = "critical"}

DecideEvidenceConfidence(requirements, evidence) ==
  LET critical == Critical(requirements)
      items(req) == {i \in evidence.items : i.type = req.type}
      entries(req) == {m \in evidence.missing : m.type = req.type}
      grave(req) == {m \in entries(req) : m.criticality = "critical"}
      criticalMissing == \E req \in critical :
        items(req) = {} \/ \E m \in grave(req) : m.availability # "partial"
      criticalUnknown == \E req \in critical :
        freshnessMatters(req) /\ ~isCurrentEvidenceType(req.type)
      criticalTruncation == \E req \in critical : grave(req) # {}
      noncriticalMissing ==
        \/ \E req \in critical : entries(req) # grave(req)
        \/ \E req \in requirements \ critical : entries(req) # {} \/ items(req) = {}
      bounded == \E m \in evidence.missing : m.availability = "partial" /\ m.criticality # "supporting"
      onlyDerived == \E req \in critical :
        items(req) # {} /\ \A i \in items(req) : i.kind = "derived"
  IN IF criticalMissing \/ evidence.conflicts # {} \/ criticalUnknown \/ criticalTruncation THEN "low"
     ELSE IF noncriticalMissing \/ bounded \/ onlyDerived THEN "medium"
     ELSE "high"
================================================================================
