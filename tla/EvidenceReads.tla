------------------------------ MODULE EvidenceReads ------------------------------
(***************************************************************************)
(* What executing an evidence plan promises (evidence_executor.go): every  *)
(* read of the plan gets one outcome, for good, and only after the reads   *)
(* it depends on got theirs; it is tried only if they were of use.         *)
(***************************************************************************)
CONSTANTS Requests,     \* the reads a plan may have
          Plans         \* the plans: which reads, and what they depend on

VARIABLES plan, outcome, stopped

readVars == <<plan, outcome, stopped>>

Useful == {"hits", "no_hits"}
Outcomes == Useful \cup {"failed", "dependency_failed", "cancelled"}

Init ==
  /\ plan \in Plans
  /\ outcome = [r \in Requests |-> "none"]
  /\ stopped = FALSE

(* Whoever asked for the evidence has gone away or run out of time. *)
Stop ==
  /\ stopped' = TRUE
  /\ UNCHANGED <<plan, outcome>>

MayBe(r, result) ==
  \/ result = "cancelled" /\ stopped
  \/ /\ result = "dependency_failed"
     /\ \E d \in plan.deps[r] : outcome[d] \notin Useful \cup {"none"}
  \/ /\ result = "dependency_failed"
     /\ plan.source[r] \in plan.deps[r]
     /\ outcome[plan.source[r]] = "no_hits"
  \/ /\ result \in Useful \cup {"failed"}
     /\ \A d \in plan.deps[r] : outcome[d] \in Useful

Settle(r, result) ==
  /\ r \in plan.reads
  /\ outcome[r] = "none"
  /\ MayBe(r, result)
  /\ outcome' = [outcome EXCEPT ![r] = result]
  /\ UNCHANGED <<plan, stopped>>

Next == Stop \/ \E r \in Requests, result \in Outcomes : Settle(r, result)

Spec == Init /\ [][Next]_readVars
================================================================================
