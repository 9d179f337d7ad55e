--------------------------- MODULE EvidenceExecutorMC ----------------------------
(***************************************************************************)
(* Bounded instances of EvidenceExecutor and, once its reads have returned, *)
(* of the call of the model that follows them, for TLC.                    *)
(***************************************************************************)
EXTENDS EvidenceExecutor, TLC

CONSTANT MaxPieces

VARIABLES mode, caller, helper, scanner, answer, closed, said, taken, heard, left

callVars == <<mode, caller, helper, scanner, answer, closed, said, taken, heard, left>>

Transport == INSTANCE ModelTransport

Sources(deps) ==
  {[r \in Requests |-> NoSource],
   [r \in Requests |-> IF deps[r] = {} THEN NoSource ELSE CHOOSE d \in deps[r] : TRUE]}

(* Every dependency graph over all reads, cyclic ones too, and a single    *)
(* read that is not registered or names an unknown one; the reads compete  *)
(* for the backend of one slot, all of them or all but the first.          *)
AllPlans ==
  UNION {[reads : {Requests}, registered : {TRUE}, deps : {deps}, source : Sources(deps),
          backend : {[r \in Requests |-> "repository"],
                     [r \in Requests |-> IF r = 1 THEN "reactorlab" ELSE "repository"]}] :
           deps \in [Requests -> SUBSET Requests]}
  \cup {[reads |-> {1}, registered |-> known, deps |-> [r \in Requests |-> d],
         source |-> [r \in Requests |-> NoSource],
         backend |-> [r \in Requests |-> "repository"]] :
           known \in BOOLEAN, d \in {{}, {2}}}

(* The plans without bindings in which the reads share a backend. *)
SharedBackendPlans ==
  {p \in AllPlans : \A r \in Requests : p.backend[r] = "repository" /\ p.source[r] = NoSource}

(* The model is called after every outcome of a plan of one read: the call  *)
(* does not depend on what was read.                                       *)
MCInit == Init /\ Transport!Init
MCNext ==
  \/ Next /\ UNCHANGED callVars
  \/ /\ phase = "returned" /\ plan.reads = {1}
     /\ Transport!Next /\ UNCHANGED executorVars

MCSpec ==
  /\ MCInit /\ [][MCNext]_<<executorVars, callVars>>
  /\ Fairness /\ Transport!Fairness

(* The call of the model keeps what an exchange promises, whatever the      *)
(* client, Ollama and the body do meanwhile (agent_transport.go:169).      *)
KeepsExchange == Transport!KeepsExchange

TwoBackends == [k \in {"repository", "reactorlab"} |-> IF k = "repository" THEN 1 ELSE 2]
================================================================================
