------------------------------ MODULE ActionDomain ------------------------------
(***************************************************************************)
(* The pure action domain of internal/actiondomain: the closed catalog of  *)
(* action kinds, the confirmation policy, the lifecycle graph, and the     *)
(* audit chain a persisted action must carry to be restored.               *)
(* Identifiers, targets and arguments are validated by patterns in the     *)
(* code; here an action only ever carries valid ones.                      *)
(***************************************************************************)
EXTENDS Naturals, Sequences

Kinds == {"restart_application", "rollback_deployment", "deploy_repository"}
Origins == {"direct_user", "assistant_suggested"}
SafetyClasses == {"reversible", "recoverable", "compensatable", "irreversible"}
States == {"proposed", "awaiting_confirmation", "authorized", "executing",
           "succeeded", "failed", "cancelled"}
FailureCategories == {"upstream_unavailable", "upstream_rejected", "timeout",
                      "invalid_response", "internal_error"}
EventTypes == {"proposal_created", "policy_authorized_on_creation",
               "confirmation_granted", "cancelled", "execution_started",
               "execution_succeeded", "execution_failed"}

NoState == "none"       \* a NULL from_state
NoCategory == "none"    \* a NULL failure_category

(* The closed catalog. *)
Definition(safetyClass, supportsExecution) ==
  [safetyClass |-> safetyClass, supportsExecution |-> supportsExecution]

LookupDefinition ==
  [kind \in Kinds |->
     CASE kind = "restart_application" -> Definition("recoverable", TRUE)
       [] kind = "rollback_deployment" -> Definition("irreversible", FALSE)
       [] kind = "deploy_repository" -> Definition("compensatable", FALSE)]

Decision(confirm, warn, initial) ==
  [confirmationRequired |-> confirm, warningRequired |-> warn,
   initialState |-> initial]

(* Mutant: who proposed the action no longer matters. *)
EvaluateConfirmationPolicyIgnoresOrigin(origin, safetyClass) ==
  Decision(safetyClass # "recoverable", safetyClass = "irreversible",
           IF safetyClass = "recoverable" THEN "authorized" ELSE "awaiting_confirmation")

EvaluateConfirmationPolicy(origin, safetyClass) ==
  IF safetyClass = "irreversible"
    THEN Decision(TRUE, TRUE, "awaiting_confirmation")
  ELSE IF origin = "assistant_suggested" \/ safetyClass = "compensatable"
    THEN Decision(TRUE, FALSE, "awaiting_confirmation")
  ELSE Decision(FALSE, FALSE, "authorized")

Policy(origin, kind) ==
  EvaluateConfirmationPolicy(origin, LookupDefinition[kind].safetyClass)

(* The lifecycle graph: TransitionProposal refuses every other step. *)
ValidateStateTransition(from, to) ==
  \/ from = "proposed" /\ to \in {"awaiting_confirmation", "authorized"}
  \/ from = "awaiting_confirmation" /\ to \in {"authorized", "cancelled"}
  \/ from = "authorized" /\ to = "executing"
  \/ from = "executing" /\ to \in {"succeeded", "failed"}

StateReachableFromInitial(initial, current) ==
  \/ /\ initial = "authorized"
     /\ current \in {"authorized", "executing", "succeeded", "failed"}
  \/ /\ initial = "awaiting_confirmation"
     /\ current \in {"awaiting_confirmation", "authorized", "cancelled",
                     "executing", "succeeded", "failed"}

Event(type, from, to, category) ==
  [type |-> type, from |-> from, to |-> to, category |-> category]

Events == [type : EventTypes, from : States \cup {NoState}, to : States,
           category : FailureCategories \cup {NoCategory}]

CreationEvent(initial) ==
  IF initial = "authorized"
    THEN Event("policy_authorized_on_creation", NoState, "authorized", NoCategory)
    ELSE Event("proposal_created", NoState, "awaiting_confirmation", NoCategory)

ConfirmationEvent ==
  Event("confirmation_granted", "awaiting_confirmation", "authorized", NoCategory)
CancellationEvent ==
  Event("cancelled", "awaiting_confirmation", "cancelled", NoCategory)
ExecutionStartedEvent ==
  Event("execution_started", "authorized", "executing", NoCategory)
ExecutionSucceededEvent ==
  Event("execution_succeeded", "executing", "succeeded", NoCategory)
ExecutionFailedEvent(category) ==
  Event("execution_failed", "executing", "failed", category)

ExecutionStates == {"executing", "succeeded", "failed"}

(* Mutant: the start of an execution is not required in the chain. *)
ExpectedEventsWithoutStart(initial, current, category) ==
  <<CreationEvent(initial)>>
    \o (IF initial = "authorized" \/ current = "awaiting_confirmation" THEN <<>>
        ELSE IF current = "cancelled" THEN <<CancellationEvent>>
        ELSE <<ConfirmationEvent>>)
    \o (IF current = "succeeded" THEN <<ExecutionSucceededEvent>>
        ELSE IF current = "failed" THEN <<ExecutionFailedEvent(category)>>
        ELSE <<>>)

(* The only event chain validateRestorationEvents accepts for a state; the *)
(* failure category is the one free component.                             *)
ExpectedEvents(initial, current, category) ==
  <<CreationEvent(initial)>>
    \o (IF initial = "authorized" \/ current = "awaiting_confirmation" THEN <<>>
        ELSE IF current = "cancelled" THEN <<CancellationEvent>>
        ELSE <<ConfirmationEvent>>)
    \o (IF current \in ExecutionStates THEN <<ExecutionStartedEvent>> ELSE <<>>)
    \o (IF current = "succeeded" THEN <<ExecutionSucceededEvent>>
        ELSE IF current = "failed" THEN <<ExecutionFailedEvent(category)>>
        ELSE <<>>)

ValidateRestorationEvents(initial, current, events) ==
  /\ StateReachableFromInitial(initial, current)
  /\ IF current = "failed"
       THEN \E category \in FailureCategories :
              events = ExpectedEvents(initial, current, category)
       ELSE events = ExpectedEvents(initial, current, NoCategory)

(* RestoreProposal: catalog, policy, state and audit chain must agree; only *)
(* a restart may be in an execution state.                                  *)
RestoreProposal(kind, origin, current, events) ==
  /\ current # "proposed"
  /\ current \in ExecutionStates => kind = "restart_application"
  /\ ValidateRestorationEvents(Policy(origin, kind).initialState, current, events)

(* The permit a restart needs before the executor may begin. *)
ValidateRestartExecutionFoundation(kind) ==
  /\ kind = "restart_application"
  /\ LookupDefinition[kind].supportsExecution
================================================================================
