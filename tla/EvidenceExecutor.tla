---------------------------- MODULE EvidenceExecutor -----------------------------
(***************************************************************************)
(* EvidenceExecutor.Execute (evidence_executor.go): one goroutine for each *)
(* read of an evidence plan waits for the reads it depends on, takes a     *)
(* slot of its backend and then a global one, reads, and announces that it *)
(* is done by closing a channel.  The context may be cancelled any time.   *)
(***************************************************************************)
EXTENDS Naturals, FiniteSets

CONSTANTS N,            \* reads are numbered in the order of their ids
          Backends,     \* concurrency keys
          Limit,        \* slots of each backend
          GlobalLimit,  \* phase2BGlobalWorkerLimit
          MaxReads,     \* phase2BMaxLogicalReads
          NoSource,     \* a read without an argument binding
          Plans         \* the plans that may be submitted

Requests == 1 .. N

PlanType ==
  [reads : SUBSET Requests, registered : BOOLEAN, deps : [Requests -> SUBSET Requests],
   backend : [Requests -> Backends], source : [Requests -> Requests \cup {NoSource}]]

ASSUME SizeAssumption == N \in Nat /\ MaxReads \in Nat
ASSUME LimitAssumption == Limit \in [Backends -> Nat \ {0}] /\ GlobalLimit \in Nat \ {0}
ASSUME PlansAssumption == Plans \subseteq PlanType
ASSUME NoSourceAssumption == NoSource \notin Requests

VARIABLES plan,
          phase,       \* of Execute itself
          pc,          \* of each goroutine
          awaited,     \* the dependencies a goroutine has seen done
          result,      \* results
          used,        \* slots taken, by backend
          globalUsed,
          cancelled    \* childContext

executorVars == <<plan, phase, pc, awaited, result, used, globalUsed, cancelled>>

Useful == {"hits", "no_hits"}
Results == {"none", "failed", "dependency_failed", "cancelled"} \cup Useful
Steps == {"none", "spawned", "waiting", "backend", "global", "holding", "reading",
          "release_global", "release_backend", "closing", "done"}

(* A numbering in which dependencies come first exists. *)
Acyclic(p) ==
  \E rank \in [p.reads -> 1 .. N] : \A r \in p.reads : \A d \in p.deps[r] : rank[d] < rank[r]

(* validateExecutableEvidencePlan: the number of reads; registered is that *)
(* each is a registered read with its registered costs, and that the costs *)
(* are within budget; known dependencies, bindings only to dependencies,   *)
(* no cycle.                                                               *)
ValidPlan(p) ==
  /\ p.registered
  /\ Cardinality(p.reads) <= MaxReads
  /\ \A r \in p.reads :
       /\ p.deps[r] \subseteq p.reads \ {r}
       /\ p.source[r] # NoSource => p.source[r] \in p.deps[r]
  /\ Acyclic(p)

(* Execute: a plan that is not valid runs no read at all. *)
Submit ==
  /\ phase = "submitted"
  /\ IF ValidPlan(plan)
       THEN /\ phase' = "running"
            /\ pc' = [r \in Requests |-> IF r \in plan.reads THEN "spawned" ELSE "none"]
       ELSE /\ phase' = "refused"
            /\ UNCHANGED pc
  /\ UNCHANGED <<plan, awaited, result, used, globalUsed, cancelled>>

Goto(r, next) == pc' = [pc EXCEPT ![r] = next]

(* Store a result and go on to the deferred calls. *)
Store(r, value, next) ==
  /\ result' = [result EXCEPT ![r] = value]
  /\ Goto(r, next)

Spawned(r) ==
  /\ pc[r] = "spawned"
  /\ IF cancelled THEN Store(r, "cancelled", "closing")
                  ELSE Goto(r, "waiting") /\ UNCHANGED result
  /\ UNCHANGED <<plan, phase, awaited, used, globalUsed, cancelled>>

Pending(r) == plan.deps[r] \ awaited[r]

(* Mutant: a dependency counts as soon as its result is there. *)
AwaitResultOnly(r) ==
  \E d \in Pending(r) :
    /\ pc[r] = "waiting" /\ \A e \in Pending(r) : d <= e
    /\ \/ cancelled /\ Store(r, "cancelled", "closing") /\ UNCHANGED awaited
       \/ /\ ~cancelled
          /\ awaited' = [awaited EXCEPT ![r] = @ \cup {d}]
          /\ UNCHANGED <<pc, result>>
    /\ UNCHANGED <<plan, phase, used, globalUsed, cancelled>>

(* The dependencies are awaited one after the other, in order. *)
Await(r) ==
  \E d \in Pending(r) :
    /\ pc[r] = "waiting" /\ \A e \in Pending(r) : d <= e
    /\ \/ cancelled /\ Store(r, "cancelled", "closing") /\ UNCHANGED awaited
       \/ /\ ~cancelled /\ pc[d] = "done" /\ result[d] \in Useful
          /\ awaited' = [awaited EXCEPT ![r] = @ \cup {d}]
          /\ UNCHANGED <<pc, result>>
       \/ /\ ~cancelled /\ pc[d] = "done" /\ result[d] \notin Useful
          /\ Store(r, "dependency_failed", "closing")
          /\ UNCHANGED awaited
    /\ UNCHANGED <<plan, phase, used, globalUsed, cancelled>>

(* resolveEvidenceArgumentBindings: the path of the first search hit. *)
Resolve(r) ==
  /\ pc[r] = "waiting" /\ Pending(r) = {}
  /\ IF cancelled THEN Store(r, "cancelled", "closing")
     ELSE IF plan.source[r] # NoSource /\ result[plan.source[r]] = "no_hits"
       THEN Store(r, "dependency_failed", "closing")
       ELSE Goto(r, "backend") /\ UNCHANGED result
  /\ UNCHANGED <<plan, phase, awaited, used, globalUsed, cancelled>>

(* acquireEvidenceSlot, for the backend and then for all of them. *)
AcquireBackend(r) ==
  LET key == plan.backend[r]
  IN  /\ pc[r] = "backend"
      /\ \/ cancelled /\ Store(r, "cancelled", "closing") /\ UNCHANGED used
         \/ /\ ~cancelled /\ used[key] < Limit[key]
            /\ used' = [used EXCEPT ![key] = @ + 1]
            /\ Goto(r, "global") /\ UNCHANGED result
      /\ UNCHANGED <<plan, phase, awaited, globalUsed, cancelled>>

(* Mutant: one more than there are. *)
AcquireGlobalOffByOne(r) ==
  /\ pc[r] = "global"
  /\ \/ cancelled /\ Store(r, "cancelled", "release_backend") /\ UNCHANGED globalUsed
     \/ /\ ~cancelled /\ globalUsed <= GlobalLimit
        /\ globalUsed' = globalUsed + 1
        /\ Goto(r, "holding") /\ UNCHANGED result
  /\ UNCHANGED <<plan, phase, awaited, used, cancelled>>

AcquireGlobal(r) ==
  /\ pc[r] = "global"
  /\ \/ cancelled /\ Store(r, "cancelled", "release_backend") /\ UNCHANGED globalUsed
     \/ /\ ~cancelled /\ globalUsed < GlobalLimit
        /\ globalUsed' = globalUsed + 1
        /\ Goto(r, "holding") /\ UNCHANGED result
  /\ UNCHANGED <<plan, phase, awaited, used, cancelled>>

(* Mutant: the context is not looked at once more. *)
StartReadUnasked(r) ==
  /\ pc[r] = "holding"
  /\ Goto(r, "reading")
  /\ UNCHANGED <<plan, phase, awaited, result, used, globalUsed, cancelled>>

(* The last look at the context before the capability is called. *)
StartRead(r) ==
  /\ pc[r] = "holding"
  /\ IF cancelled THEN Store(r, "cancelled", "release_global")
                  ELSE Goto(r, "reading") /\ UNCHANGED result
  /\ UNCHANGED <<plan, phase, awaited, used, globalUsed, cancelled>>

(* The capability answers, with evidence or an error, cancelled or not. *)
ReadReturns(r) ==
  /\ pc[r] = "reading"
  /\ \E value \in Useful \cup {"failed"} : Store(r, value, "release_global")
  /\ UNCHANGED <<plan, phase, awaited, used, globalUsed, cancelled>>

ReleaseGlobal(r) ==
  /\ pc[r] = "release_global"
  /\ globalUsed' = globalUsed - 1
  /\ Goto(r, "release_backend")
  /\ UNCHANGED <<plan, phase, awaited, result, used, cancelled>>

(* Mutant: the slot of the backend is lost. *)
ReleaseBackendLost(r) ==
  /\ pc[r] = "release_backend"
  /\ Goto(r, "closing")
  /\ UNCHANGED <<plan, phase, awaited, result, used, globalUsed, cancelled>>

ReleaseBackend(r) ==
  /\ pc[r] = "release_backend"
  /\ used' = [used EXCEPT ![plan.backend[r]] = @ - 1]
  /\ Goto(r, "closing")
  /\ UNCHANGED <<plan, phase, awaited, result, globalUsed, cancelled>>

CloseDone(r) ==
  /\ pc[r] = "closing"
  /\ Goto(r, "done")
  /\ UNCHANGED <<plan, phase, awaited, result, used, globalUsed, cancelled>>

(* wait.Wait: Execute returns when every goroutine is done. *)
Return ==
  /\ phase = "running"
  /\ \A r \in plan.reads : pc[r] = "done"
  /\ phase' = "returned"
  /\ UNCHANGED <<plan, pc, awaited, result, used, globalUsed, cancelled>>

Cancel ==
  /\ ~cancelled
  /\ cancelled' = TRUE
  /\ UNCHANGED <<plan, phase, pc, awaited, result, used, globalUsed>>

Init ==
  /\ plan \in Plans
  /\ phase = "submitted"
  /\ pc = [r \in Requests |-> "none"]
  /\ awaited = [r \in Requests |-> {}]
  /\ result = [r \in Requests |-> "none"]
  /\ used = [k \in Backends |-> 0]
  /\ globalUsed = 0
  /\ cancelled = FALSE

Goroutine(r) ==
  \/ Spawned(r) \/ Await(r) \/ Resolve(r)
  \/ AcquireBackend(r) \/ AcquireGlobal(r)
  \/ StartRead(r) \/ ReadReturns(r)
  \/ ReleaseGlobal(r) \/ ReleaseBackend(r) \/ CloseDone(r)

Next == Submit \/ Return \/ Cancel \/ \E r \in Requests : Goroutine(r)

(* Goroutines are scheduled, capabilities answer (their clients have       *)
(* timeouts), and a channel send that stays possible is not passed over    *)
(* for ever.                                                               *)
Fairness ==
  /\ WF_executorVars(Submit) /\ WF_executorVars(Return)
  /\ \A r \in Requests : WF_executorVars(Goroutine(r))

Spec == Init /\ [][Next]_executorVars

FairSpec == Spec /\ Fairness
--------------------------------------------------------------------------------
TypeOK ==
  /\ plan \in PlanType
  /\ phase \in {"submitted", "refused", "running", "returned"}
  /\ pc \in [Requests -> Steps]
  /\ awaited \in [Requests -> SUBSET Requests]
  /\ result \in [Requests -> Results]
  /\ used \in [Backends -> Nat]
  /\ globalUsed \in Nat
  /\ cancelled \in BOOLEAN

HoldingBackend == {"global", "holding", "reading", "release_global", "release_backend"}
HoldingGlobal == {"holding", "reading", "release_global"}
BackendHolders(k) == {r \in Requests : pc[r] \in HoldingBackend /\ plan.backend[r] = k}
GlobalHolders == {r \in Requests : pc[r] \in HoldingGlobal}

(* Slots are neither lost nor invented, and there are never more readers   *)
(* of a backend, or in all, than it has slots.                             *)
SlotsInv ==
  /\ \A k \in Backends : used[k] = Cardinality(BackendHolders(k)) /\ used[k] <= Limit[k]
  /\ globalUsed = Cardinality(GlobalHolders) /\ globalUsed <= GlobalLimit

Unsettled == {"none", "spawned", "waiting", "backend", "global", "holding", "reading"}
Ready == {"backend", "global", "holding", "reading"}

(* A read is tried only when all it depends on is over and was of use.     *)
DependenciesInv ==
  /\ \A r \in Requests : result[r] = "none" <=> pc[r] \in Unsettled
  /\ \A r \in Requests : \A d \in awaited[r] : pc[d] = "done" /\ result[d] \in Useful
  /\ \A r \in Requests : pc[r] \in Ready =>
       /\ Pending(r) = {}
       /\ plan.source[r] # NoSource => result[plan.source[r]] = "hits"
  /\ phase \in {"submitted", "refused"} => \A r \in Requests : pc[r] = "none"
  /\ phase \in {"running", "returned"} =>
       /\ ValidPlan(plan)
       /\ \A r \in Requests : pc[r] # "none" <=> r \in plan.reads

(* The reads under way when the context is cancelled are the last ones:    *)
(* however long a read has queued for its slots, it looks at the context   *)
(* again when it has them (looking and calling is one step here).          *)
NoReadAfterCancel ==
  [][cancelled => \A r \in Requests : pc'[r] = "reading" => pc[r] = "reading"]_executorVars

(* Every outcome is one the plan allows, reached once. *)
Reads == INSTANCE EvidenceReads WITH outcome <- result, stopped <- cancelled
ReadsSpec == Reads!Spec

(* Execute returns, whatever the plan, however few the slots. *)
ExecuteReturns == <>(phase \in {"refused", "returned"})
================================================================================
