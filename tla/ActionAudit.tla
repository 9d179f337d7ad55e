------------------------------- MODULE ActionAudit -------------------------------
(***************************************************************************)
(* The audit validation of ActionDomain against an independent reading of  *)
(* it: a log is acceptable when it is a walk of the lifecycle graph.  The  *)
(* state machine builds every log of at most MaxEvents events that the     *)
(* action_events CHECK constraints admit, in any order, beside every       *)
(* current state an action row may hold.                                   *)
(***************************************************************************)
EXTENDS ActionDomain

CONSTANT MaxEvents   \* bound on the length of a log; the longest walk has 4

VARIABLES initial, current, log

auditVars == <<initial, current, log>>

(* What the table admits, a failure with and one without a category. *)
AdmittedEvents ==
  {CreationEvent(s) : s \in {"authorized", "awaiting_confirmation"}}
    \cup {ConfirmationEvent, CancellationEvent, ExecutionStartedEvent,
          ExecutionSucceededEvent}
    \cup {ExecutionFailedEvent(c) : c \in {"timeout", "internal_error", NoCategory}}

AuditInit ==
  /\ initial \in {"authorized", "awaiting_confirmation"}
  /\ current \in States
  /\ log = <<>>

AppendEvent ==
  /\ Len(log) < MaxEvents
  /\ \E e \in AdmittedEvents : log' = Append(log, e)
  /\ UNCHANGED <<initial, current>>

AuditSpec == AuditInit /\ [][AppendEvent]_auditVars

(* The event that records each step of the lifecycle graph. *)
Records(event, from, to) ==
  /\ event.from = from /\ event.to = to
  /\ ValidateStateTransition(from, to)
  /\ (event.category # NoCategory) <=> (to = "failed")

IsWalk ==
  /\ log # <<>>
  /\ log[1] = CreationEvent(initial)
  /\ \A i \in 2 .. Len(log) : Records(log[i], log[i - 1].to, log[i].to)
  /\ log[Len(log)].to = current

(* validateRestorationEvents accepts exactly the walks of the lifecycle    *)
(* graph from the policy's initial state to the stored state: it neither   *)
(* loses a legal action nor restores one whose audit skips, repeats or     *)
(* reorders a step.                                                        *)
AcceptsExactlyTheWalks ==
  ValidateRestorationEvents(initial, current, log) <=> IsWalk
================================================================================
