-------------------------------- MODULE Reasoner ---------------------------------
(***************************************************************************)
(* What the model makes of a packet (reasoner.go): its draft is checked     *)
(* against the packet it was given, and either all of it is shown or none. *)
(* A text is what it says, as far as the checks can tell.                  *)
(***************************************************************************)
EXTENDS EvidencePacket, Sequences, Functions

CONSTANTS
  Drafts(_, _),        \* what the model may write about some evidence and what that can be cited by
  reasonerMaxFacts, reasonerMaxUncertainty, reasonerMaxReferences, reasonerFactMaxReferences

VARIABLES said

reasonerVars == <<packetVars, said>>

NothingSaid == [valid |-> FALSE, ended |-> "not_yet", cites |-> {}, says |-> {}, suggests |-> FALSE]

(* A reference is to an item, to what was required, or to a conflict.      *)
Item(id) == <<"evidence", id>>
Requirement(name) == <<"requirement", name>>
Conflict(ids) == <<"conflict", ids>>

ReferencesTo(S, ds) ==
  {Item(id) : id \in Ids(S) \cup (UNION {References(d) : d \in ds}) \cup (UNION evidence.conflicts)}
    \cup {Requirement(name) : name \in {i.requirement : i \in S} \cup evidence.limited}
    \cup {Conflict(ids) : ids \in evidence.conflicts}

reasonerPacketReferenceIDs == ReferencesTo(items, derivations)

(* The top level must be an object with just these keys, each once; only    *)
(* the suggestion may come twice, and is then disregarded.                 *)
RequiredKeys == {"conclusion", "conclusion_evidence", "facts", "uncertainty"}
validateReasonerJSONShape(draft) ==
  /\ RequiredKeys \subseteq draft.keys /\ draft.keys \subseteq RequiredKeys \cup {"action_suggestion"}
  /\ draft.repeated \subseteq {"action_suggestion"}

validateReasonerReferences(cites, maximum) ==
  /\ DOMAIN cites # {} /\ Len(cites) <= maximum /\ IsInjective(cites)
  /\ \A n \in DOMAIN cites : cites[n] \in reasonerPacketReferenceIDs

(* Fields and operations that establish a cause; no reducer makes one.     *)
packetHasDirectCausalEvidence(S, ds) ==
  \/ \E i \in S : i.fields \cap {"direct_causal_link", "direct_causality",
                                 "causality_directly_established"} # {}
  \/ \E d \in ds : d.operation \in {"direct_causal_link", "direct_causality"}

Unsayable == {"nothing", "too_much", "code", "confidence", "narration", "capability"}
CausalClaims == {"deployment_caused_it", "deployment_did_not_cause_it"}

validateReasonerText(says) ==
  /\ says \notin Unsayable
  /\ evidence.route = "deployment_correlation" /\ ~packetHasDirectCausalEvidence(items, derivations)
       => says \notin CausalClaims

validateReasonerFact(fact) == validateReasonerReferences(fact.cites, reasonerFactMaxReferences)

Statements(draft) == {draft.conclusion} \cup Range(draft.facts) \cup Range(draft.uncertainty)

parseReasonerDraft(draft) ==
  /\ validateReasonerJSONShape(draft)
  /\ Len(draft.facts) <= reasonerMaxFacts /\ Len(draft.uncertainty) <= reasonerMaxUncertainty
  /\ validateReasonerReferences(draft.conclusion.cites, reasonerMaxReferences)
  /\ \A fact \in Range(draft.facts) \cup Range(draft.uncertainty) : validateReasonerFact(fact)
  /\ \A statement \in Statements(draft) : validateReasonerText(statement.says)

(* An answer that was cut off is not looked at; a draft that fails one      *)
(* check is replaced by a limitation.                                      *)
Rejected(ended) == [NothingSaid EXCEPT !.ended = ended]
Accepted(draft) ==
  [valid |-> TRUE, ended |-> "complete",
   cites |-> UNION {Range(s.cites) : s \in Statements(draft)},
   says |-> {s.says : s \in Statements(draft)},
   suggests |-> "action_suggestion" \in draft.keys /\ draft.repeated = {}]

Reason ==
  /\ stage = "built" /\ said = NothingSaid
  /\ \/ \E ended \in {"output_limit", "incomplete"} : said' = Rejected(ended)
     \/ \E draft \in Drafts(evidence, ReferencesTo(evidence.items, evidence.derivations)) :
          said' = IF parseReasonerDraft(draft) THEN Accepted(draft) ELSE Rejected("invalid")
  /\ UNCHANGED packetVars

ReasonerInit == PacketInit /\ said = NothingSaid
ReasonerNext == (PacketNext /\ UNCHANGED said) \/ Reason
ReasonerSpec == ReasonerInit /\ [][ReasonerNext]_reasonerVars
--------------------------------------------------------------------------------
(* An answer cites something, and only what it was given: an item that was *)
(* not compacted away, a requirement it was read for or that stayed open, a *)
(* conflict with all its sides.  About a deployment it claims no cause that *)
(* the evidence does not establish (reasoner.go:337, reasoner.go:470).      *)
AcceptedDraftsStand ==
  said.valid =>
    /\ said.cites # {}
    /\ \A id \in {i.id : i \in evidence.items} : Item(id) \in said.cites => id \in Ids(items)
    /\ \A ids \in evidence.conflicts : Conflict(ids) \in said.cites => ids \subseteq Ids(items)
    /\ \A r \in {i.requirement : i \in evidence.items} :
         Requirement(r) \in said.cites => r \in {i.requirement : i \in items} \cup evidence.limited
    /\ evidence.route = "deployment_correlation" /\ said.says \cap CausalClaims # {}
         => packetHasDirectCausalEvidence(evidence.items, evidence.derivations)

(* From the evidence to the answer no reference hangs: neither in the       *)
(* packet nor in what the model is believed.                               *)
AnswersRestOnThePacket == ReferencesClosed /\ AcceptedDraftsStand
================================================================================
