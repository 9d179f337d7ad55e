----------------------------- MODULE EvidencePacket ------------------------------
(***************************************************************************)
(* The packet the model is given instead of the evidence                   *)
(* (evidence_packet.go, evidence_packet_projection.go): projected to fixed *)
(* numbers of items, then, while it is above the target size, relieved of  *)
(* one thing after the other.  The size is the number of parts; the short  *)
(* names that identifiers get in the packet are left out.                  *)
(***************************************************************************)
EXTENDS Integers, FiniteSets, FiniteSetsExt

CONSTANTS
  Inputs,                        \* evidence: items, derivations, conflicts, limited requirements
  evidencePacketTargetBytes, evidencePacketHardLimitBytes,
  evidencePacketMaxCriticalItems, evidencePacketMaxRelevantItems,
  evidencePacketMaxSupportingItems, evidencePacketMaxFieldsPerItem,
  evidencePacketMaxSources, evidencePacketMaxDerivations

VARIABLES evidence, stage, items, derivations, sources, protected, dropped, compacted, plain

packetVars == <<evidence, stage, items, derivations, sources, protected, dropped, compacted, plain>>

NoSource == "none"
NoInput == [route |-> "none", items |-> {}, derivations |-> {}, conflicts |-> {}, limited |-> {}]

(* The order in which compactEvidencePacketToTarget goes about it.         *)
Stages == {"received", "removable", "relevant", "secondary", "metadata", "supporting",
           "supporting_causal", "limit", "finishing", "built", "too_large"}

Ids(S) == {i.id : i \in S}
References(derivation) == {derivation.output} \cup derivation.inputs
OfCriticality(S, criticality) == {i \in S : i.criticality = criticality}

Things ==
  [id : Int, criticality : {"critical", "relevant", "supporting"}, kind : STRING, type : STRING,
   requirement : STRING, fields : SUBSET STRING, timed : BOOLEAN, source : STRING \cup {NoSource}]

ASSUME LimitsAssumption ==
  /\ evidencePacketMaxRelevantItems \in Nat /\ evidencePacketMaxSupportingItems \in Nat
  /\ evidencePacketMaxFieldsPerItem \in Nat

(* What validateInvestigationEvidenceGraph holds of evidence; a conflict is *)
(* about the current state, which a route requires critically.             *)
ASSUME InputsAssumption ==
  \A e \in Inputs :
    /\ e.items \subseteq Things /\ IsFiniteSet(e.items) /\ \A i \in e.items : IsFiniteSet(i.fields)
    /\ \A i, j \in e.items : i.id = j.id => i = j
    /\ \A d \in e.derivations : References(d) \subseteq Ids(e.items)
    /\ UNION e.conflicts \subseteq Ids(OfCriticality(e.items, "critical"))

packetHighValueCausalItem(i) ==
  IF i.type = "runtime_failures" THEN i.kind = "derived"
  ELSE i.type \in {"service_history", "infrastructure_events", "recovery_timeline",
                   "deployment_timeline"}

packetCausalRemovalRank(i) ==
  CASE i.type = "service_history" -> 4
    [] i.type \in {"infrastructure_events", "deployment_timeline"} -> 3
    [] i.type = "recovery_timeline" -> 2
    [] OTHER -> 0

Removable == {"requested_range", "database_coverage_complete"}
packetEvidenceFieldPriority(i, name) ==
  CASE name \in Removable -> 2
    [] name = "branch" -> 1
    [] i.type = "service_history" /\ name = "coverage_from" -> 1
    [] i.type = "runtime_failures" /\ name = "truncated" -> 1
    [] OTHER -> 0

FieldsOf(i, priority) == {name \in i.fields : packetEvidenceFieldPriority(i, name) = priority}

(* What an item with one of these fields says limits the confidence.       *)
LimitingFields == {"coverage_incomplete", "source_truncated", "truncated", "reducer_omitted",
                   "database_coverage_complete"}

packetConfidenceLimitingItem(i) ==
  i.criticality # "supporting" /\ i.fields \cap LimitingFields # {}

(* The types that carry the facts of a route, and the facts.               *)
MaterialTypes(route) ==
  CASE route = "deployment_correlation" ->
         {"deployment_timeline", "current_application", "current_deployment",
          "infrastructure_events", "activity_timeline"}
    [] route = "restart" -> {"recovery_timeline", "infrastructure_events", "activity_timeline"}
    [] route = "exact" -> {"current_platform", "current_deployment", "current_application",
                           "current_database"}
    [] OTHER -> {}

ExactFields(route, type) ==
  IF type \in {"infrastructure_events", "activity_timeline", "recovery_timeline"}
    THEN {"event_time", "outage_start", "recovered_at"}
    ELSE {"commit_sha", "image_id", "activated_at"} \cup
         (IF route = "exact" THEN {"status"} ELSE {"correlation_activated_at", "deployment_time"})

packetMaterialItem(i) ==
  /\ i.criticality = "relevant" /\ i.type \in MaterialTypes(evidence.route)
  /\ i.timed \/ i.fields \cap ExactFields(evidence.route, i.type) # {}

Material(ds) == {d \in ds : d.operation \in {"temporal_alignment", "outage_interval"}}

(* Mutant: what a material derivation was derived from is not protected. *)
ProtectedOutputs(S, ds) ==
  (UNION evidence.conflicts) \cup {d.output : d \in Material(ds)}
    \cup {i.id : i \in {j \in S : packetMaterialItem(j)}}

packetProtectedEvidenceIDs(S, ds) ==
  (UNION evidence.conflicts) \cup (UNION {References(d) : d \in Material(ds)})
    \cup {i.id : i \in {j \in S :
            \/ packetMaterialItem(j)
            \/ packetConfidenceLimitingItem(j) /\ j.requirement \notin evidence.limited}}

(* Mutant: a derivation stands while its result does. *)
StandingByOutput(S, ds) == {d \in ds : d.output \in Ids(S)}

(* pruneEvidencePacketReferences: the derivations and the sources that     *)
(* still refer to items of the packet.                                     *)
StandingDerivations(S, ds) == {d \in ds : References(d) \subseteq Ids(S)}
UsedSources(S) == {i.source : i \in S} \ {NoSource}

Size(S, ds, ss, isPlain) ==
  MapThenSumSet(LAMBDA i : 1 + Cardinality(i.fields) + (IF i.timed THEN 1 ELSE 0), S)
    + Cardinality(ds) + Cardinality(ss) + (IF isPlain THEN 0 ELSE 1)

PacketInit ==
  /\ evidence = NoInput /\ stage = "received" /\ items = {} /\ derivations = {} /\ sources = {}
  /\ protected = {} /\ dropped = 0 /\ compacted = FALSE /\ plain = FALSE

(* NormalizeInvestigationEvidence and BuildEvidencePacket take the evidence *)
(* as it is; what validateInvestigationEvidenceGraph refuses is no input.  *)
Receive ==
  /\ stage = "received" /\ evidence = NoInput
  /\ evidence' \in Inputs \ {NoInput} /\ items' = evidence'.items
  /\ sources' = UsedSources(items') /\ derivations' = evidence'.derivations
  /\ UNCHANGED <<stage, protected, dropped, compacted, plain>>
--------------------------------------------------------------------------------
(* projectEvidencePacket                                                   *)
FirstOf(S, limit, Before(_, _)) == {i \in S : Cardinality({j \in S : Before(j, i)}) < limit}

BeforeByCausality(i, j) ==
  LET a == packetHighValueCausalItem(i)
      b == packetHighValueCausalItem(j)
  IN IF a # b THEN a ELSE i.id < j.id

boundPacketEvidence(S) ==
  LET relevant == OfCriticality(S, "relevant")
      ById(i, j) == i.id < j.id
  IN OfCriticality(S, "critical")
       \cup FirstOf(relevant, evidencePacketMaxRelevantItems, BeforeByCausality)
       \cup FirstOf(OfCriticality(S, "supporting"), evidencePacketMaxSupportingItems, ById)

(* projectEvidenceFields: the first sixteen, required ones before others.  *)
Projected(i) ==
  IF Cardinality(i.fields) <= evidencePacketMaxFieldsPerItem THEN i
  ELSE [i EXCEPT !.fields = CHOOSE kept \in SUBSET i.fields :
          /\ Cardinality(kept) = evidencePacketMaxFieldsPerItem
          /\ \A n \in kept, m \in i.fields \ kept :
               packetEvidenceFieldPriority(i, n) <= packetEvidenceFieldPriority(i, m)]

Irreducible(S) ==
  \/ Cardinality(OfCriticality(S, "critical")) > evidencePacketMaxCriticalItems
  \/ \E i \in OfCriticality(S, "critical") :
       Cardinality(FieldsOf(i, 0)) > evidencePacketMaxFieldsPerItem

Refuse ==
  /\ stage = "received" /\ evidence # NoInput
  /\ \/ Irreducible(items)
     \/ Cardinality(UsedSources(boundPacketEvidence(items))) > evidencePacketMaxSources
  /\ stage' = "too_large"
  /\ UNCHANGED <<evidence, items, derivations, sources, protected, dropped, compacted, plain>>

Project ==
  /\ stage = "received" /\ evidence # NoInput /\ ~Irreducible(items)
  /\ items' = {Projected(i) : i \in boundPacketEvidence(items)}
  /\ sources' = UsedSources(items') /\ Cardinality(sources') <= evidencePacketMaxSources
  /\ \E ds \in SUBSET derivations :
       /\ IF Cardinality(derivations) <= evidencePacketMaxDerivations THEN ds = derivations
          ELSE Cardinality(ds) = evidencePacketMaxDerivations
       /\ derivations' = StandingDerivations(items', ds)
       /\ stage' = IF Size(items', derivations', sources', FALSE) <= evidencePacketTargetBytes
                     THEN "built" ELSE "removable"
       /\ compacted' = (ds # derivations \/ Ids(items') # Ids(items) \/ stage' = "removable")
  /\ dropped' = Cardinality(items) - Cardinality(items')
  /\ UNCHANGED <<evidence, protected, plain>>
--------------------------------------------------------------------------------
(* compactEvidencePacketToTarget: fields go from the last item that has one. *)
TakeField(at, priority) ==
  /\ stage = at
  /\ LET having == {i \in items : FieldsOf(i, priority) # {}}
     IN \E i \in having :
          /\ \A j \in having : j.id <= i.id
          /\ \E name \in FieldsOf(i, priority) :
               items' = (items \ {i}) \cup {[i EXCEPT !.fields = @ \ {name}]}
  /\ stage' = IF Size(items', derivations, sources, plain) <= evidencePacketTargetBytes
                THEN "finishing" ELSE at
  /\ UNCHANGED <<evidence, derivations, sources, protected, dropped, compacted, plain>>

FieldsTaken(at, priority, next) ==
  /\ stage = at /\ \A i \in items : FieldsOf(i, priority) = {}
  /\ stage' = next
  /\ protected' = IF at = "removable" THEN packetProtectedEvidenceIDs(items, derivations) ELSE protected
  /\ UNCHANGED <<evidence, items, derivations, sources, dropped, compacted, plain>>

(* packetRemovalCandidateByCausality: derived facts first, from the end.   *)
Candidates(criticality, causal) ==
  {i \in OfCriticality(items, criticality) :
     packetHighValueCausalItem(i) = causal /\ i.id \notin protected}

KindOrder(i) == CASE i.kind = "derived" -> 0 [] i.kind = "observed" -> 1 [] OTHER -> 2

GoesBefore(i, j, causal) ==
  LET rank(k) == IF causal THEN packetCausalRemovalRank(k) ELSE 0
  IN \/ rank(i) > rank(j)
     \/ rank(i) = rank(j) /\ KindOrder(i) < KindOrder(j)
     \/ rank(i) = rank(j) /\ KindOrder(i) = KindOrder(j) /\ i.id > j.id

TakeItem(at, criticality, causal, limit) ==
  /\ stage = at
  /\ \E i \in Candidates(criticality, causal) :
       /\ \A j \in Candidates(criticality, causal) \ {i} : GoesBefore(i, j, causal)
       /\ items' = items \ {i}
  /\ derivations' = StandingDerivations(items', derivations)
  /\ sources' = sources \cap UsedSources(items') /\ dropped' = dropped + 1
  /\ stage' = IF Size(items', derivations', sources', plain) <= limit THEN "finishing" ELSE at
  /\ UNCHANGED <<evidence, protected, compacted, plain>>

ItemsTaken(at, criticality, causal, next) ==
  /\ stage = at /\ Candidates(criticality, causal) = {} /\ stage' = next
  /\ UNCHANGED <<evidence, items, derivations, sources, protected, dropped, compacted, plain>>

(* Timestamps that are not the point, and all a derived fact has besides    *)
(* its fields; the sources nobody names any more go at the next prune.     *)
CutMetadata ==
  /\ stage = "metadata" /\ plain' = TRUE
  /\ items' = {[i EXCEPT !.timed = @ /\ i.kind # "derived"
                            /\ i.type \notin {"current_application", "application_history",
                                              "service_history", "runtime_failures"},
                         !.source = IF i.kind = "derived" THEN NoSource ELSE @] : i \in items}
  /\ stage' = IF Size(items', derivations, sources, TRUE) <= evidencePacketTargetBytes
                THEN "finishing" ELSE "supporting"
  /\ UNCHANGED <<evidence, derivations, sources, protected, dropped, compacted>>

Finish ==
  /\ stage = "finishing"
  /\ derivations' = StandingDerivations(items, derivations)
  /\ sources' = sources \cap UsedSources(items)
  /\ stage' = IF Size(items, derivations', sources', plain) <= evidencePacketHardLimitBytes
                THEN "built" ELSE "too_large"
  /\ UNCHANGED <<evidence, items, protected, dropped, compacted, plain>>

PacketNext ==
  \/ Receive \/ Refuse \/ Project
  \/ TakeField("removable", 2) \/ FieldsTaken("removable", 2, "relevant")
  \/ TakeItem("relevant", "relevant", FALSE, evidencePacketTargetBytes)
  \/ ItemsTaken("relevant", "relevant", FALSE, "secondary")
  \/ TakeField("secondary", 1) \/ FieldsTaken("secondary", 1, "metadata")
  \/ CutMetadata
  \/ TakeItem("supporting", "supporting", FALSE, evidencePacketTargetBytes)
  \/ ItemsTaken("supporting", "supporting", FALSE, "supporting_causal")
  \/ TakeItem("supporting_causal", "supporting", TRUE, evidencePacketTargetBytes)
  \/ ItemsTaken("supporting_causal", "supporting", TRUE,
       IF Size(items, derivations, sources, plain) <= evidencePacketHardLimitBytes
         THEN "finishing" ELSE "limit")
  \/ TakeItem("limit", "relevant", TRUE, evidencePacketHardLimitBytes)
  \/ ItemsTaken("limit", "relevant", TRUE, "finishing")
  \/ Finish

PacketSpec == PacketInit /\ [][PacketNext]_packetVars
--------------------------------------------------------------------------------
(* Whatever order things are given up in, the packet refers to nothing it   *)
(* does not hold: derivations and conflicts name its items, items name its *)
(* sources, and no source is there for nothing (evidence_packet.go:342).    *)
ReferencesClosed ==
  stage = "built" =>
    /\ \A d \in derivations : References(d) \subseteq Ids(items)
    /\ UNION evidence.conflicts \subseteq Ids(items)
    /\ UsedSources(items) = sources

(* No size makes the packet lose what decides: every critical item, and,    *)
(* unless their number already was too large, what conflicts or a material *)
(* derivation rest on and the material facts of the route; what was given  *)
(* up is counted, and said (evidence_packet_projection.go:133).             *)
Fits ==
  /\ Cardinality(OfCriticality(evidence.items, "relevant")) <= evidencePacketMaxRelevantItems
  /\ Cardinality(OfCriticality(evidence.items, "supporting")) <= evidencePacketMaxSupportingItems
  /\ Cardinality(evidence.derivations) <= evidencePacketMaxDerivations
  /\ \A i \in evidence.items : Cardinality(FieldsOf(i, 0)) <= evidencePacketMaxFieldsPerItem

DecidingEvidenceKept ==
  stage = "built" =>
    /\ Ids(OfCriticality(evidence.items, "critical")) \subseteq Ids(items)
    /\ dropped = Cardinality(evidence.items) - Cardinality(items)
    /\ dropped > 0 => compacted
    /\ Fits => /\ Material(evidence.derivations) \subseteq derivations
               /\ {i.id : i \in {j \in evidence.items : packetMaterialItem(j)}} \subseteq Ids(items)
================================================================================
