------------------------------ MODULE Investigation ------------------------------
(***************************************************************************)
(* One question on its way through the evidence pipeline: the handler      *)
(* (phase2c_stream.go) and its two rounds of reads (evidence_pipeline.go). *)
(* Reads, reductions, the packet, the gates of the model and the model     *)
(* itself may fail; the client may leave at any time.                      *)
(***************************************************************************)
EXTENDS EvidenceReduction

CONSTANTS Questions   \* what the router can tell of a message and its conversation

ASSUME QuestionsAssumption ==
  Questions \subseteq
    [concepts : SUBSET Concepts, mentions : SUBSET Domains, named : SUBSET Subjects,
     refers : {"no", "it", "this"}, history : Seq(SUBSET Applications), times : Seq(Nat),
     window : SUBSET {"incident", "yesterday", "today", "range", "now"}, now : Nat,
     place : {"none", "word", "reactorlab"}, seeded : BOOLEAN]

VARIABLES phase, question, listed, plan, results, evidence, second, limitation, answer, ran

vars == <<phase, question, listed, plan, results, evidence, second, limitation, answer, ran>>

Ended == {"answered", "left", "gone"}
Phases == {"asked", "planned", "executed", "reduced", "following", "followed", "settled",
           "packed", "leased"} \cup Ended

NoPlan == [requests |-> {}, missing |-> {}]
NoEvidence == [items |-> {}, missing |-> {}, conflicts |-> {}]
NoAnswer == [mode |-> "none", confidence |-> "none", reads |-> {}]
Answer(mode, confidence, reads) == [mode |-> mode, confidence |-> confidence, reads |-> reads]

ReadsOf(requests) == {request.read : request \in requests}

(* buildProductionRouterContext: when the deployments cannot be listed, the *)
(* host is the only subject known, and nothing of the conversation.        *)
RouterQuestion(q, known) ==
  IF known THEN q ELSE [q EXCEPT !.named = @ \cap {Host}, !.history = <<>>]

decision == buildShadowInvestigationRoute(RouterQuestion(question, listed))
Requirements == decision.requirements
Draft == BuildEvidencePlan(Requirements, question.seeded)

Init ==
  /\ phase = "asked" /\ question \in Questions /\ listed \in BOOLEAN
  /\ plan = NoPlan /\ results = {} /\ evidence = NoEvidence /\ second = {}
  /\ limitation = "none" /\ answer = NoAnswer /\ ran = {}

(* Before any read: the answer that needs none, or what happens instead.   *)
Prospect ==
  IF decision.resolution = "supported" /\ ~WithinBudget(Draft)
    THEN (IF isPhase2CReasonedRoute(decision.route) THEN "limitation" ELSE "left")
  ELSE IF ~isRecognizedLocalEvidenceIntent(RouterQuestion(question, listed), decision.frame) THEN "left"
  ELSE IF isRecognizedPhase2CAmbiguity(decision) THEN "clarification"
  ELSE IF decision.resolution = "unsupported" THEN "unsupported"
  ELSE IF decision.resolution # "supported" \/ ~isPhase2CReasonedRoute(decision.route) THEN "left"
  ELSE "planned"

Prepare ==
  /\ phase = "asked"
  /\ CASE Prospect = "planned" -> phase' = "planned" /\ plan' = Draft /\ UNCHANGED <<answer, limitation>>
       [] Prospect = "left" -> phase' = "left" /\ UNCHANGED <<plan, answer, limitation>>
       [] OTHER -> /\ phase' = "answered" /\ answer' = Answer(Prospect, "low", {})
                   /\ limitation' = IF Prospect = "limitation" THEN "evidence_plan_invalid" ELSE "none"
                   /\ UNCHANGED plan
  /\ UNCHANGED <<question, listed, results, evidence, second, ran>>

(* What may come of a read; the file a search leads to needs the search.   *)
Result(request, outcome, found, round) ==
  [read |-> request.read, serves |-> request.serves, round |-> round, outcome |-> outcome,
   found |-> IF request.read.cap = "list_databases" /\ outcome # "unavailable" THEN found ELSE {}]

Possible(requests, outcome) ==
  /\ \A request \in requests : outcome[request] = "limited" => request.read.cap \in Compound
  /\ \A file, search \in requests :
       /\ file.read.cap = "read_repository_file" /\ search.read.cap = "search_repository"
       /\ outcome[search] = "unavailable"
       => outcome[file] = "unavailable"

Run(requests, round) ==
  \E outcome \in [requests -> Outcomes], found \in SUBSET Databases :
    /\ Possible(requests, outcome)
    /\ results' = results \cup {Result(r, outcome[r], found, round) : r \in requests}
    /\ ran' = ran \cup ReadsOf(requests)

ExecuteFirst ==
  /\ phase = "planned" /\ Run(plan.requests, 1) /\ phase' = "executed"
  /\ UNCHANGED <<question, listed, plan, evidence, second, limitation, answer>>

Limit(reason, reads) ==
  /\ phase' = "answered" /\ limitation' = reason /\ answer' = Answer("limitation", "low", reads)

(* A failed first reduction is answered with the reads that ran.           *)
FailFirst ==
  /\ phase = "executed" /\ Limit("evidence_reduction_failed", {r.read : r \in results})
  /\ UNCHANGED <<question, listed, plan, results, evidence, second, ran>>

ReduceFirst ==
  /\ phase = "executed" /\ phase' = "reduced"
  /\ evidence' = ReduceEvidenceResults(Requirements, plan.missing, results, FALSE)
  /\ UNCHANGED <<question, listed, plan, results, second, limitation, answer, ran>>

(* PlanSecondEvidenceRound: nothing to follow up settles the evidence.     *)
PlanSecondEvidenceRound ==
  /\ phase = "reduced"
  /\ LET candidates == FollowUpCandidates(Requirements, evidence,
                         ReadsOf(plan.requests) \cup {r.read : r \in results}, question.seeded)
     IN \E chosen \in SecondRounds(candidates) :
          /\ second' = FollowUpRequests(chosen)
          /\ phase' = IF chosen = {} THEN "settled" ELSE "following"
  /\ UNCHANGED <<question, listed, plan, results, evidence, limitation, answer, ran>>

(* The second round is recorded before anything is made of it.             *)
ExecuteSecond ==
  /\ phase = "following" /\ Run(second, 2) /\ phase' = "followed"
  /\ plan' = combineEvidencePlans(plan, second, {})
  /\ UNCHANGED <<question, listed, evidence, second, limitation, answer>>

(* Mutant: the whole second round is taken back. *)
FailSecondForgetting ==
  /\ phase = "followed" /\ phase' = "settled" /\ limitation' = "follow_up_reduction_failed"
  /\ plan' = [plan EXCEPT !.requests = {r \in @ : r.read \notin ReadsOf(second)}]
  /\ UNCHANGED <<question, listed, results, evidence, second, answer, ran>>

(* Whichever of its reductions fails, the first evidence stands.           *)
FailSecond ==
  /\ phase = "followed" /\ phase' = "settled" /\ limitation' = "follow_up_reduction_failed"
  /\ UNCHANGED <<question, listed, plan, results, evidence, second, answer, ran>>

ReduceSecond ==
  /\ phase = "followed" /\ phase' = "settled"
  /\ \E differs \in BOOLEAN :
       LET new == {r \in results : r.round = 2}
           resolved == resolvedFollowUpRequirements(ReduceEvidenceResults(Requirements, {}, new, differs))
           combined == combineEvidencePlans(plan, {}, resolved)
           reduced == ReduceEvidenceResults(Requirements, combined.missing, results, differs)
       IN /\ plan' = combined
          /\ evidence' = [reduced EXCEPT !.missing =
                            filterResolvedPriorMissing(@, evidence.missing, resolved)]
  /\ UNCHANGED <<question, listed, results, second, limitation, answer, ran>>

(* The packet must fit; then a failed second round ends the request, and so *)
(* do the host's state, an unreachable or refused model and a lost lease.  *)
FailPacket ==
  /\ phase = "settled" /\ Limit("packet_too_large", {r.read : r \in results})
  /\ UNCHANGED <<question, listed, plan, results, evidence, second, ran>>

BuildPacket ==
  /\ phase = "settled"
  /\ IF limitation # "none" THEN Limit(limitation, ReadsOf(plan.requests))
     ELSE phase' = "packed" /\ UNCHANGED <<limitation, answer>>
  /\ UNCHANGED <<question, listed, plan, results, evidence, second, ran>>

RefuseModel ==
  /\ phase = "packed"
  /\ \E reason \in {"model_policy_unavailable", "ollama_unavailable", "model_policy_blocked",
                    "transport_error"} : Limit(reason, ReadsOf(plan.requests))
  /\ UNCHANGED <<question, listed, plan, results, evidence, second, ran>>

AskModel ==
  /\ phase = "packed" /\ phase' = "leased"
  /\ UNCHANGED <<question, listed, plan, results, evidence, second, limitation, answer, ran>>

(* The answer has the software's confidence; the model can only lose it.   *)
AnswerModel ==
  /\ phase = "leased" /\ phase' = "answered"
  /\ \E valid \in BOOLEAN :
       answer' = Answer(IF valid THEN "evidence" ELSE "limitation",
                        IF valid THEN DecideEvidenceConfidence(Requirements, evidence) ELSE "low",
                        ReadsOf(plan.requests))
  /\ UNCHANGED <<question, listed, plan, results, evidence, second, limitation, ran>>

Cancel ==
  /\ phase \notin Ended \cup {"asked"} /\ phase' = "gone"
  /\ UNCHANGED <<question, listed, plan, results, evidence, second, limitation, answer, ran>>

Finished == phase \in Ended /\ UNCHANGED vars

Next ==
  \/ Prepare \/ ExecuteFirst \/ FailFirst \/ ReduceFirst \/ PlanSecondEvidenceRound
  \/ ExecuteSecond \/ FailSecond \/ ReduceSecond \/ FailPacket \/ BuildPacket
  \/ RefuseModel \/ AskModel \/ AnswerModel \/ Cancel \/ Finished

Spec == Init /\ [][Next]_vars
--------------------------------------------------------------------------------
(* No question the router supports is planned beyond the budget of a plan  *)
(* (evidence_plan.go:11): the six reads and twelve units hold every route.  *)
PlansAfford == limitation # "evidence_plan_invalid"

(* An answer reports the reads that ran, all of them and no other, however *)
(* the second round or its reductions went (evidence_pipeline.go:124).      *)
ReportedReadsRan == phase = "answered" => answer.reads = ran

(* Reads about an application are about the one the question names or, when *)
(* it names none and refers back, the one the conversation is about: the    *)
(* last message that names any names only it.                              *)
AsksAboutTheSubject ==
  \A read \in {r \in ran : r.on \in Applications} :
    \/ read.on \in question.named
    \/ /\ question.named = {} /\ question.refers # "no"
       /\ \E i \in 1..Len(question.history) :
            /\ question.history[i] = {read.on}
            /\ \A j \in (i + 1)..Len(question.history) : question.history[j] \subseteq {read.on}

(* A later read of the second round makes up for one of the first.         *)
MadeUp(result) ==
  /\ result.round = 1
  /\ \A type \in result.serves : \E later \in results :
       later.round = 2 /\ type \in later.serves /\ later.outcome = "complete"

(* The confidence of an answer rests on what was read: high means that each *)
(* requirement was read completely, medium that each critical one was, but  *)
(* for facets of a compound read, and neither that two readings disagree   *)
(* (confidence.go:8, against the results and not against the evidence).     *)
ConfidenceIsEarned ==
  LET readFor(req, outcomes) == \E r \in results : req.type \in r.serves /\ r.outcome \in outcomes
      whole(reqs, outcomes) ==
        /\ \A req \in reqs : readFor(req, outcomes)
        /\ \A r \in results : \/ r.outcome \in outcomes \/ MadeUp(r)
                              \/ r.serves \cap {req.type : req \in reqs} = {}
  IN answer.mode = "evidence" =>
       /\ answer.confidence = "high" => whole(Requirements, {"complete"})
       /\ answer.confidence = "medium" => whole(Critical(Requirements), {"complete", "limited"})
       /\ answer.confidence # "low" => evidence.conflicts = {}

(* The investigation implements the two rounds it promises: at most six     *)
(* reads, then at most two that were not made before                        *)
(* (evidence_plan.go:11, evidence_followup.go:8).                           *)
Rounds == INSTANCE EvidenceRounds
            WITH first <- {r.read : r \in {x \in results : x.round = 1}},
                 later <- {r.read : r \in {x \in results : x.round = 2}},
                 FirstLimit <- phase2BMaxLogicalReads,
                 SecondLimit <- phase2DMaxAdditionalLogicalReads
KeepsToRounds == Rounds!Spec
================================================================================
