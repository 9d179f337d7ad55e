-------------------------- MODULE EvidenceExecutorProofs --------------------------
(***************************************************************************)
(* Proofs about EvidenceExecutor, for any number of reads, any plans, any  *)
(* backends and any limits: slots are kept, dependencies come first, and   *)
(* the executor implements EvidenceReads.                                  *)
(***************************************************************************)
EXTENDS EvidenceExecutor, FiniteSetTheorems, TLAPS

LEMMA RequestsFinite == IsFiniteSet(Requests) /\ Requests \subseteq Nat
  BY SizeAssumption, FS_Interval DEF Requests

LEMMA HoldersFinite ==
  /\ \A k \in Backends : IsFiniteSet(BackendHolders(k))
  /\ IsFiniteSet(GlobalHolders)
  BY RequestsFinite, FS_Subset DEF BackendHolders, GlobalHolders

Inv == TypeOK /\ SlotsInv /\ DependenciesInv

LEMMA InitInv == Init => Inv
<1> SUFFICES ASSUME Init PROVE Inv
  OBVIOUS
<1>1. GlobalHolders = {} /\ \A k \in Backends : BackendHolders(k) = {}
  BY DEF Init, GlobalHolders, BackendHolders, HoldingGlobal, HoldingBackend
<1>2. TypeOK
  BY PlansAssumption DEF Init, TypeOK, Steps, Results
<1>3. SlotsInv
  <2>1. Cardinality({}) = 0
    BY FS_EmptySet
  <2> QED
    BY <1>1, <2>1, LimitAssumption DEF SlotsInv, Init
<1>4. DependenciesInv
  BY DEF Init, DependenciesInv, Unsettled, Ready
<1> QED
  BY <1>2, <1>3, <1>4 DEF Inv

(* Goroutine r goes on to another step, of the same plan. *)
Moves(r, to) ==
  /\ pc[r] \notin {"none", "done"} /\ to \in Steps \ {"none"}
  /\ Goto(r, to)
  /\ UNCHANGED <<plan, phase>>

(* A step with which goroutine r neither takes nor gives back a slot.      *)
LEMMA SlotsUntouched ==
  ASSUME Inv, NEW r \in Requests, NEW to, Moves(r, to), UNCHANGED <<used, globalUsed>>,
         pc[r] \in HoldingBackend <=> to \in HoldingBackend,
         pc[r] \in HoldingGlobal <=> to \in HoldingGlobal
  PROVE  SlotsInv'
<1>1. \A k \in Backends : BackendHolders(k)' = BackendHolders(k)
  BY DEF Inv, TypeOK, Moves, Goto, BackendHolders
<1>2. GlobalHolders' = GlobalHolders
  BY DEF Inv, TypeOK, Moves, Goto, GlobalHolders
<1> QED
  BY <1>1, <1>2 DEF Inv, SlotsInv

(* What a goroutine stores, and where it goes then, keeps the dependencies *)
(* in order as long as a read that is ready has all it depends on.         *)
LEMMA DependenciesKept ==
  ASSUME Inv, NEW r \in Requests, NEW to, Moves(r, to), UNCHANGED awaited,
         NEW value \in Results, result' = [result EXCEPT ![r] = value],
         value = "none" <=> to \in Unsettled,
         to \in Ready => \/ pc[r] \in Ready
                        \/ /\ Pending(r) = {}
                           /\ plan.source[r] # NoSource => result[plan.source[r]] = "hits"
  PROVE  DependenciesInv'
<1> USE DEF Inv
<1>1. /\ pc' = [pc EXCEPT ![r] = to] /\ pc[r] \notin {"none", "done"} /\ to # "none"
      /\ plan' = plan /\ phase' = phase
  BY DEF Moves, Goto
<1>2. phase \in {"running", "returned"} /\ ValidPlan(plan) /\ r \in plan.reads
  BY <1>1 DEF DependenciesInv, TypeOK
<1>3. \A q \in Requests : result'[q] = "none" <=> pc'[q] \in Unsettled
  BY <1>1 DEF DependenciesInv, TypeOK
<1>4. \A q \in Requests : \A d \in awaited'[q] : pc'[d] = "done" /\ result'[d] \in Useful
  BY <1>1 DEF DependenciesInv, TypeOK
<1>5. \A q \in Requests : pc'[q] \in Ready =>
        /\ Pending(q)' = {}
        /\ plan'.source[q] # NoSource => result'[plan'.source[q]] = "hits"
  <2> SUFFICES ASSUME NEW q \in Requests, pc'[q] \in Ready
               PROVE  /\ Pending(q)' = {}
                      /\ plan'.source[q] # NoSource => result'[plan'.source[q]] = "hits"
    OBVIOUS
  <2>1. /\ Pending(q) = {}
        /\ plan.source[q] # NoSource => result[plan.source[q]] = "hits"
    BY <1>1 DEF DependenciesInv, TypeOK
  <2>2. Pending(q)' = {}
    BY <2>1, <1>1 DEF Pending
  <2>3. ASSUME plan.source[q] # NoSource
        PROVE  result'[plan.source[q]] = "hits"
    <3>1. q \in plan.reads
      BY <1>1, <1>2 DEF DependenciesInv, TypeOK, Ready
    <3>2. plan.source[q] \in awaited[q]
      BY <3>1, <2>1, <2>3, <1>2 DEF ValidPlan, Pending
    <3>3. plan.source[q] # r
      BY <3>2, <1>1 DEF DependenciesInv
    <3> QED
      BY <2>1, <2>3, <3>3 DEF TypeOK
  <2> QED
    BY <2>2, <2>3, <1>1
<1>6. phase' \in {"submitted", "refused"} => \A q \in Requests : pc'[q] = "none"
  BY <1>1, <1>2
<1>7. /\ ValidPlan(plan)'
      /\ \A q \in Requests : pc'[q] # "none" <=> q \in plan'.reads
  BY <1>1, <1>2 DEF DependenciesInv, TypeOK, ValidPlan, Acyclic
<1> QED
  BY <1>3, <1>4, <1>5, <1>6, <1>7 DEF DependenciesInv

LEMMA SubmitKeepsInv == ASSUME Inv, Submit PROVE Inv'
<1> USE DEF Inv
<1>1. /\ phase = "submitted" /\ \A r \in Requests : pc[r] = "none"
      /\ \A r \in Requests : awaited[r] = {} \/ pc[r] = "none"
  BY DEF Submit, DependenciesInv
<1>2. CASE ValidPlan(plan)
  <2>1. /\ phase' = "running"
        /\ pc' = [r \in Requests |-> IF r \in plan.reads THEN "spawned" ELSE "none"]
        /\ UNCHANGED <<plan, awaited, result, used, globalUsed, cancelled>>
    BY <1>2 DEF Submit
  <2>2. TypeOK'
    BY <2>1 DEF TypeOK, Steps
  <2>3. GlobalHolders' = GlobalHolders /\ \A k \in Backends : BackendHolders(k)' = BackendHolders(k)
    BY <2>1, <1>1
    DEF GlobalHolders, BackendHolders, HoldingGlobal, HoldingBackend
  <2>4. SlotsInv'
    BY <2>1, <2>3 DEF SlotsInv
  <2>5. \A r \in Requests : result[r] = "none"
    BY <1>1 DEF DependenciesInv, Unsettled
  <2>6. \A r \in Requests : awaited[r] = {}
    BY <2>5, <1>1 DEF DependenciesInv, TypeOK
  <2>7. ValidPlan(plan)'
    BY <2>1, <1>2 DEF ValidPlan, Acyclic
  <2>8. DependenciesInv'
    BY <2>1, <2>5, <2>6, <2>7 DEF DependenciesInv, Unsettled, Ready
  <2> QED
    BY <2>2, <2>4, <2>8
<1>3. CASE ~ValidPlan(plan)
  <2>1. phase' = "refused" /\ UNCHANGED <<pc, plan, awaited, result, used, globalUsed, cancelled>>
    BY <1>3 DEF Submit
  <2>2. TypeOK'
    BY <2>1 DEF TypeOK
  <2>3. SlotsInv'
    BY <2>1 DEF SlotsInv, BackendHolders, GlobalHolders
  <2>4. DependenciesInv'
    BY <2>1, <1>1 DEF DependenciesInv, Pending
  <2> QED
    BY <2>2, <2>3, <2>4
<1> QED
  BY <1>2, <1>3

LEMMA ReturnAndCancelKeepInv == ASSUME Inv, Return \/ Cancel PROVE Inv'
<1> USE DEF Inv
<1>1. /\ UNCHANGED <<plan, pc, awaited, result, used, globalUsed>>
      /\ phase' = phase \/ (phase = "running" /\ phase' = "returned")
      /\ cancelled' \in BOOLEAN
  BY DEF Return, Cancel, TypeOK
<1>2. TypeOK'
  BY <1>1 DEF TypeOK
<1>3. SlotsInv'
  BY <1>1 DEF SlotsInv, BackendHolders, GlobalHolders
<1>4. ValidPlan(plan)' <=> ValidPlan(plan)
  BY <1>1 DEF ValidPlan, Acyclic
<1>5. DependenciesInv'
  BY <1>1, <1>4 DEF DependenciesInv, Pending
<1> QED
  BY <1>2, <1>3, <1>5

(* A step of goroutine r that stores a value, or what is there already,    *)
(* and neither takes nor gives back a slot.                                *)
Slotless(r, to, value) ==
  /\ Moves(r, to) /\ UNCHANGED <<awaited, used, globalUsed, cancelled>>
  /\ value \in Results /\ result' = [result EXCEPT ![r] = value]
  /\ value = "none" <=> to \in Unsettled
  /\ pc[r] \in HoldingBackend <=> to \in HoldingBackend
  /\ pc[r] \in HoldingGlobal <=> to \in HoldingGlobal
  /\ to \in Ready => \/ pc[r] \in Ready
                     \/ /\ Pending(r) = {}
                        /\ plan.source[r] # NoSource => result[plan.source[r]] = "hits"

LEMMA SlotlessKeepsInv ==
  ASSUME Inv, NEW r \in Requests, NEW to, NEW value, Slotless(r, to, value)
  PROVE  Inv'
<1> USE DEF Inv, Slotless
<1>1. SlotsInv'
  BY SlotsUntouched
<1>2. DependenciesInv'
  BY DependenciesKept
<1>3. TypeOK'
  BY DEF TypeOK, Moves, Goto
<1> QED
  BY <1>1, <1>2, <1>3

LEMMA SpawnedKeepsInv == ASSUME Inv, NEW r \in Requests, Spawned(r) PROVE Inv'
<1> USE DEF Steps, Results, Unsettled, Ready, HoldingBackend, HoldingGlobal
<1>1. CASE cancelled
  <2>1. Slotless(r, "closing", "cancelled")
    BY <1>1 DEF Spawned, Store, Moves, Goto, Slotless
  <2> QED
    BY <2>1, SlotlessKeepsInv
<1>2. CASE ~cancelled
  <2>1. result[r] = "none" /\ result' = [result EXCEPT ![r] = "none"]
    BY <1>2 DEF Spawned, Inv, TypeOK, DependenciesInv
  <2>2. Slotless(r, "waiting", "none")
    BY <2>1, <1>2 DEF Spawned, Moves, Goto, Slotless
  <2> QED
    BY <2>2, SlotlessKeepsInv
<1> QED
  BY <1>1, <1>2

LEMMA ResolveKeepsInv == ASSUME Inv, NEW r \in Requests, Resolve(r) PROVE Inv'
<1> USE DEF Steps, Results, Unsettled, Ready, HoldingBackend, HoldingGlobal
<1>1. CASE cancelled
  <2>1. Slotless(r, "closing", "cancelled")
    BY <1>1 DEF Resolve, Store, Moves, Goto, Slotless
  <2> QED
    BY <2>1, SlotlessKeepsInv
<1>2. CASE ~cancelled /\ plan.source[r] # NoSource /\ result[plan.source[r]] = "no_hits"
  <2>1. Slotless(r, "closing", "dependency_failed")
    BY <1>2 DEF Resolve, Store, Moves, Goto, Slotless
  <2> QED
    BY <2>1, SlotlessKeepsInv
<1>3. CASE ~cancelled /\ ~(plan.source[r] # NoSource /\ result[plan.source[r]] = "no_hits")
  <2>1. result[r] = "none" /\ result' = [result EXCEPT ![r] = "none"]
    BY <1>3 DEF Resolve, Inv, TypeOK, DependenciesInv
  <2>2. ASSUME plan.source[r] # NoSource PROVE result[plan.source[r]] = "hits"
    <3>1. r \in plan.reads /\ ValidPlan(plan)
      BY DEF Resolve, Inv, DependenciesInv, TypeOK
    <3>2. plan.source[r] \in awaited[r]
      BY <3>1, <2>2 DEF Resolve, ValidPlan, Pending
    <3> QED
      BY <3>2, <2>2, <1>3 DEF Inv, DependenciesInv, Useful
  <2>3. Slotless(r, "backend", "none")
    BY <2>1, <2>2, <1>3 DEF Resolve, Moves, Goto, Slotless
  <2> QED
    BY <2>3, SlotlessKeepsInv
<1> QED
  BY <1>1, <1>2, <1>3

LEMMA StartReadKeepsInv == ASSUME Inv, NEW r \in Requests, StartRead(r) PROVE Inv'
<1> USE DEF Steps, Results, Unsettled, Ready, HoldingBackend, HoldingGlobal
<1>1. CASE cancelled
  <2>1. Slotless(r, "release_global", "cancelled")
    BY <1>1 DEF StartRead, Store, Moves, Goto, Slotless
  <2> QED
    BY <2>1, SlotlessKeepsInv
<1>2. CASE ~cancelled
  <2>1. result[r] = "none" /\ result' = [result EXCEPT ![r] = "none"]
    BY <1>2 DEF StartRead, Inv, TypeOK, DependenciesInv
  <2>2. Slotless(r, "reading", "none")
    BY <2>1, <1>2 DEF StartRead, Moves, Goto, Slotless
  <2> QED
    BY <2>2, SlotlessKeepsInv
<1> QED
  BY <1>1, <1>2

LEMMA ReadReturnsKeepsInv == ASSUME Inv, NEW r \in Requests, ReadReturns(r) PROVE Inv'
<1>1. PICK value \in Useful \cup {"failed"} : Store(r, value, "release_global")
  BY DEF ReadReturns
<1>2. Slotless(r, "release_global", value)
  BY <1>1
  DEF ReadReturns, Store, Moves, Goto, Slotless, Useful, Steps, Results, Unsettled, Ready,
      HoldingBackend, HoldingGlobal
<1> QED
  BY <1>2, SlotlessKeepsInv

LEMMA CloseDoneKeepsInv == ASSUME Inv, NEW r \in Requests, CloseDone(r) PROVE Inv'
<1>1. /\ result[r] \in Results \ {"none"}
      /\ result' = [result EXCEPT ![r] = result[r]]
  BY DEF CloseDone, Inv, TypeOK, DependenciesInv, Unsettled
<1>2. Slotless(r, "done", result[r])
  BY <1>1
  DEF CloseDone, Moves, Goto, Slotless, Steps, Unsettled, Ready, HoldingBackend, HoldingGlobal
<1> QED
  BY <1>2, SlotlessKeepsInv

(* Slots that goroutine r takes, or gives back, are counted.               *)
LEMMA BackendSlotTaken ==
  ASSUME Inv, NEW r \in Requests, pc[r] = "backend", Moves(r, "global")
  PROVE  /\ \A k \in Backends :
              Cardinality(BackendHolders(k)') =
                Cardinality(BackendHolders(k)) + (IF k = plan.backend[r] THEN 1 ELSE 0)
         /\ GlobalHolders' = GlobalHolders
<1> USE DEF Inv, TypeOK, PlanType, Moves, Goto, HoldingBackend, HoldingGlobal
<1>1. ASSUME NEW k \in Backends, k = plan.backend[r]
      PROVE  Cardinality(BackendHolders(k)') = Cardinality(BackendHolders(k)) + 1
  <2>1. BackendHolders(k)' = BackendHolders(k) \cup {r} /\ r \notin BackendHolders(k)
    BY <1>1 DEF BackendHolders
  <2>2. Cardinality(BackendHolders(k) \cup {r}) = Cardinality(BackendHolders(k)) + 1
    BY <2>1, HoldersFinite, FS_AddElement
  <2> QED
    BY <2>1, <2>2
<1>2. ASSUME NEW k \in Backends, k # plan.backend[r]
      PROVE  Cardinality(BackendHolders(k)') = Cardinality(BackendHolders(k)) + 0
  <2>1. BackendHolders(k)' = BackendHolders(k)
    BY <1>2 DEF BackendHolders
  <2>2. Cardinality(BackendHolders(k)) \in Nat
    BY HoldersFinite, FS_CardinalityType
  <2> QED
    BY <2>1, <2>2
<1>3. GlobalHolders' = GlobalHolders
  BY DEF GlobalHolders
<1> QED
  BY <1>1, <1>2, <1>3

LEMMA AcquireBackendKeepsInv == ASSUME Inv, NEW r \in Requests, AcquireBackend(r) PROVE Inv'
<1>1. CASE cancelled /\ Store(r, "cancelled", "closing") /\ UNCHANGED used
  <2>1. Slotless(r, "closing", "cancelled")
    BY <1>1
    DEF AcquireBackend, Store, Moves, Goto, Slotless, Steps, Results, Unsettled, Ready,
        HoldingBackend, HoldingGlobal
  <2> QED
    BY <2>1, SlotlessKeepsInv
<1>2. CASE ~cancelled
  <2> DEFINE key == plan.backend[r]
  <2>1. /\ pc[r] = "backend" /\ Moves(r, "global") /\ UNCHANGED <<awaited, globalUsed, cancelled>>
        /\ used[key] < Limit[key] /\ used' = [used EXCEPT ![key] = @ + 1]
        /\ result' = [result EXCEPT ![r] = "none"]
        /\ key \in Backends
    BY <1>2
    DEF AcquireBackend, Moves, Goto, Steps, Inv, TypeOK, PlanType, DependenciesInv, Unsettled
  <2>2. TypeOK'
    BY <2>1 DEF Inv, TypeOK, Moves, Goto, Results
  <2>3. \A k \in Backends :
          used'[k] = Cardinality(BackendHolders(k)') /\ used'[k] <= Limit[k]
    <3> SUFFICES ASSUME NEW k \in Backends
                 PROVE  used'[k] = Cardinality(BackendHolders(k)') /\ used'[k] <= Limit[k]
      OBVIOUS
    <3>1. Limit[k] \in Nat /\ used[k] \in Nat
      BY LimitAssumption DEF Inv, TypeOK
    <3>2. used'[k] = used[k] + (IF k = key THEN 1 ELSE 0)
      BY <2>1, <3>1 DEF Inv, TypeOK
    <3>3. used[k] = Cardinality(BackendHolders(k)) /\ used[k] <= Limit[k]
      BY DEF Inv, SlotsInv
    <3> QED
      BY <2>1, <3>1, <3>2, <3>3, BackendSlotTaken
  <2>4. SlotsInv'
    BY <2>1, <2>3, BackendSlotTaken DEF Inv, SlotsInv
  <2>5. DependenciesInv'
    BY <2>1, DependenciesKept DEF Results, Unsettled, Ready
  <2> QED
    BY <2>2, <2>4, <2>5 DEF Inv
<1> QED
  BY <1>1, <1>2 DEF AcquireBackend

LEMMA AcquireGlobalKeepsInv == ASSUME Inv, NEW r \in Requests, AcquireGlobal(r) PROVE Inv'
<1>1. CASE cancelled
  <2> USE DEF AcquireGlobal, Store, Moves, Goto, Steps, Results, HoldingBackend, HoldingGlobal
  <2>1. Slotless(r, "release_backend", "cancelled")
    BY <1>1 DEF Slotless, Unsettled, Ready
  <2> QED
    BY <2>1, SlotlessKeepsInv
<1>2. CASE ~cancelled
  <2>1. /\ pc[r] = "global" /\ Moves(r, "holding") /\ UNCHANGED <<awaited, used, cancelled>>
        /\ globalUsed < GlobalLimit /\ globalUsed' = globalUsed + 1
        /\ result' = [result EXCEPT ![r] = "none"]
    BY <1>2 DEF AcquireGlobal, Moves, Goto, Steps, Inv, TypeOK, DependenciesInv, Unsettled
  <2>2. TypeOK'
    BY <2>1 DEF Inv, TypeOK, Moves, Goto, Results
  <2>3. GlobalHolders' = GlobalHolders \cup {r} /\ r \notin GlobalHolders
    BY <2>1 DEF Inv, TypeOK, Moves, Goto, GlobalHolders, HoldingGlobal
  <2>4. \A k \in Backends : BackendHolders(k)' = BackendHolders(k)
    BY <2>1 DEF Inv, TypeOK, Moves, Goto, BackendHolders, HoldingBackend
  <2>5. Cardinality(GlobalHolders') = Cardinality(GlobalHolders) + 1
    BY <2>3, HoldersFinite, FS_AddElement
  <2>6. SlotsInv'
    BY <2>1, <2>4, <2>5, LimitAssumption DEF Inv, SlotsInv, TypeOK
  <2>7. DependenciesInv'
    BY <2>1, DependenciesKept DEF Results, Unsettled, Ready
  <2> QED
    BY <2>2, <2>6, <2>7 DEF Inv
<1> QED
  BY <1>1, <1>2

LEMMA ReleaseGlobalKeepsInv == ASSUME Inv, NEW r \in Requests, ReleaseGlobal(r) PROVE Inv'
<1>1. /\ pc[r] = "release_global" /\ Moves(r, "release_backend")
      /\ UNCHANGED <<awaited, used, cancelled>>
      /\ globalUsed' = globalUsed - 1
      /\ result[r] \in Results \ {"none"} /\ result' = [result EXCEPT ![r] = result[r]]
  BY DEF ReleaseGlobal, Moves, Goto, Steps, Inv, TypeOK, DependenciesInv, Unsettled
<1>2. GlobalHolders' = GlobalHolders \ {r} /\ r \in GlobalHolders
  BY <1>1 DEF Inv, TypeOK, Moves, Goto, GlobalHolders, HoldingGlobal
<1>3. \A k \in Backends : BackendHolders(k)' = BackendHolders(k)
  BY <1>1 DEF Inv, TypeOK, Moves, Goto, BackendHolders, HoldingBackend
<1>4. Cardinality(GlobalHolders') = Cardinality(GlobalHolders) - 1 /\ Cardinality(GlobalHolders') \in Nat
  BY <1>2, HoldersFinite, FS_RemoveElement, FS_CardinalityType
<1>5. SlotsInv'
  BY <1>1, <1>3, <1>4, LimitAssumption DEF Inv, SlotsInv, TypeOK
<1>6. TypeOK'
  BY <1>1, <1>4 DEF Inv, TypeOK, SlotsInv, Moves, Goto, Results
<1>7. DependenciesInv'
  <2>1. /\ "release_backend" \notin Ready \cup Unsettled
        /\ "closing" \notin Ready \cup Unsettled
    BY DEF Unsettled, Ready
  <2> QED
    BY <1>1, <2>1, DependenciesKept
<1> QED
  BY <1>5, <1>6, <1>7 DEF Inv

LEMMA ReleaseBackendKeepsInv == ASSUME Inv, NEW r \in Requests, ReleaseBackend(r) PROVE Inv'
<1>1. /\ pc[r] = "release_backend" /\ Moves(r, "closing")
      /\ UNCHANGED <<awaited, globalUsed, cancelled>>
      /\ used' = [used EXCEPT ![plan.backend[r]] = @ - 1]
      /\ result[r] \in Results \ {"none"} /\ result' = [result EXCEPT ![r] = result[r]]
  BY DEF ReleaseBackend, Moves, Goto, Steps, Inv, TypeOK, PlanType, DependenciesInv, Unsettled
<1>2. GlobalHolders' = GlobalHolders
  BY <1>1 DEF Inv, TypeOK, Moves, Goto, GlobalHolders, HoldingGlobal
<1>3. ASSUME NEW k \in Backends
      PROVE  /\ used'[k] = Cardinality(BackendHolders(k)') /\ used'[k] <= Limit[k]
             /\ used'[k] \in Nat
  <2>1. Limit[k] \in Nat /\ used[k] \in Nat
    BY LimitAssumption DEF Inv, TypeOK
  <2>2. CASE k = plan.backend[r]
    <3>1. BackendHolders(k)' = BackendHolders(k) \ {r} /\ r \in BackendHolders(k)
      BY <1>1, <2>2 DEF Inv, TypeOK, Moves, Goto, BackendHolders, HoldingBackend
    <3>2. /\ Cardinality(BackendHolders(k)') = Cardinality(BackendHolders(k)) - 1
          /\ Cardinality(BackendHolders(k)') \in Nat
      BY <3>1, HoldersFinite, FS_RemoveElement, FS_CardinalityType
    <3>3. used'[k] = used[k] - 1
      BY <1>1, <2>2 DEF Inv, TypeOK
    <3> QED
      BY <2>1, <3>2, <3>3 DEF Inv, SlotsInv
  <2>3. CASE k # plan.backend[r]
    <3>1. BackendHolders(k)' = BackendHolders(k)
      BY <1>1, <2>3 DEF Inv, TypeOK, Moves, Goto, BackendHolders, HoldingBackend
    <3>2. used'[k] = used[k]
      BY <1>1, <2>3 DEF Inv, TypeOK
    <3> QED
      BY <2>1, <3>1, <3>2 DEF Inv, SlotsInv
  <2> QED
    BY <2>2, <2>3
<1>4. SlotsInv'
  BY <1>1, <1>2, <1>3 DEF Inv, SlotsInv
<1>5. TypeOK'
  BY <1>1, <1>3 DEF Inv, TypeOK, Moves, Goto, Results
<1>6. DependenciesInv'
  <2>1. "closing" \notin Ready \cup Unsettled
    BY DEF Unsettled, Ready
  <2> QED
    BY <1>1, <2>1, DependenciesKept
<1> QED
  BY <1>4, <1>5, <1>6 DEF Inv

LEMMA AwaitKeepsInv == ASSUME Inv, NEW r \in Requests, Await(r) PROVE Inv'
<1>1. PICK d \in Pending(r) :
        /\ pc[r] = "waiting"
        /\ UNCHANGED <<plan, phase, used, globalUsed, cancelled>>
        /\ \/ cancelled /\ Store(r, "cancelled", "closing") /\ UNCHANGED awaited
           \/ /\ ~cancelled /\ pc[d] = "done" /\ result[d] \in Useful
              /\ awaited' = [awaited EXCEPT ![r] = @ \cup {d}]
              /\ UNCHANGED <<pc, result>>
           \/ /\ ~cancelled /\ pc[d] = "done" /\ result[d] \notin Useful
              /\ Store(r, "dependency_failed", "closing")
              /\ UNCHANGED awaited
  BY DEF Await
<1>2. CASE /\ pc[d] = "done" /\ result[d] \in Useful
           /\ awaited' = [awaited EXCEPT ![r] = @ \cup {d}]
           /\ UNCHANGED <<pc, result>>
  <2>1. d \in Requests
    BY DEF Inv, TypeOK, PlanType, Pending
  <2>2. TypeOK'
    BY <1>1, <1>2, <2>1 DEF Inv, TypeOK
  <2>3. SlotsInv'
    BY <1>1, <1>2 DEF Inv, SlotsInv, BackendHolders, GlobalHolders
  <2>4. \A q \in Requests : \A e \in awaited'[q] : pc'[e] = "done" /\ result'[e] \in Useful
    BY <1>1, <1>2 DEF Inv, DependenciesInv, TypeOK
  <2>5. \A q \in Requests : pc'[q] \in Ready =>
          /\ Pending(q)' = {}
          /\ plan'.source[q] # NoSource => result'[plan'.source[q]] = "hits"
    BY <1>1, <1>2 DEF Inv, DependenciesInv, TypeOK, Ready, Pending
  <2>6. ValidPlan(plan)' <=> ValidPlan(plan)
    BY <1>1 DEF ValidPlan, Acyclic
  <2>7. DependenciesInv'
    BY <1>1, <1>2, <2>4, <2>5, <2>6 DEF Inv, DependenciesInv
  <2> QED
    BY <2>2, <2>3, <2>7 DEF Inv
<1>3. ASSUME NEW value \in {"cancelled", "dependency_failed"},
             Store(r, value, "closing"), UNCHANGED awaited
      PROVE  Inv'
  <2>1. Slotless(r, "closing", value)
    BY <1>1, <1>3
    DEF Store, Moves, Goto, Slotless, Steps, Results, Unsettled, Ready, HoldingBackend,
        HoldingGlobal
  <2> QED
    BY <2>1, SlotlessKeepsInv
<1> QED
  BY <1>1, <1>2, <1>3

LEMMA NextInv == ASSUME Inv, [Next]_executorVars PROVE Inv'
<1>1. CASE Submit
  BY <1>1, SubmitKeepsInv
<1>2. CASE Return \/ Cancel
  BY <1>2, ReturnAndCancelKeepInv
<1>3. ASSUME NEW r \in Requests, Goroutine(r) PROVE Inv'
  BY <1>3, SpawnedKeepsInv, AwaitKeepsInv, ResolveKeepsInv, AcquireBackendKeepsInv,
     AcquireGlobalKeepsInv, StartReadKeepsInv, ReadReturnsKeepsInv, ReleaseGlobalKeepsInv,
     ReleaseBackendKeepsInv, CloseDoneKeepsInv
  DEF Goroutine
<1>4. CASE UNCHANGED executorVars
  <2> USE <1>4 DEF executorVars
  <2>1. TypeOK'
    BY DEF Inv, TypeOK
  <2>2. SlotsInv'
    BY DEF Inv, SlotsInv, BackendHolders, GlobalHolders
  <2>3. ValidPlan(plan)' <=> ValidPlan(plan)
    BY DEF ValidPlan, Acyclic
  <2>4. DependenciesInv'
    BY <2>3 DEF Inv, DependenciesInv, Pending
  <2> QED
    BY <2>1, <2>2, <2>4 DEF Inv
<1> QED
  BY <1>1, <1>2, <1>3, <1>4 DEF Next

LEMMA SpecInv == Spec => []Inv
  BY InitInv, NextInv, PTL DEF Spec

(* Type correctness: in particular no goroutine returns a slot it does not *)
(* hold, so the counts of slots never drop below zero.                     *)
THEOREM TypeInvariant == Spec => []TypeOK
  BY SpecInv, PTL DEF Inv

(* Slots are neither lost nor invented by any path out of a read, and the  *)
(* limits are respected, whatever they are.                                *)
THEOREM SlotsInvariant == Spec => []SlotsInv
  BY SpecInv, PTL DEF Inv

(* A read is only tried once all it depends on is over and was of use.     *)
THEOREM DependenciesInvariant == Spec => []DependenciesInv
  BY SpecInv, PTL DEF Inv

(* No read starts after the context is cancelled: of all steps only        *)
(* StartRead enters a read, and it looks at the context.                   *)
THEOREM NothingReadAfterCancel == Spec => NoReadAfterCancel
<1>1. ASSUME Inv, [Next]_executorVars, NEW q \in Requests, pc[q] # "reading", pc'[q] = "reading"
      PROVE  ~cancelled
  <2>1. PICK r \in Requests : Goroutine(r)
    BY <1>1 DEF Next, Submit, Return, Cancel, executorVars
  <2>2. StartRead(r)
    BY <2>1, <1>1
    DEF Inv, TypeOK, Goroutine, Spawned, Await, Resolve, AcquireBackend, AcquireGlobal,
        ReadReturns, ReleaseGlobal, ReleaseBackend, CloseDone, Store, Goto
  <2>3. CASE cancelled
    <3>1. pc' = [pc EXCEPT ![r] = "release_global"]
      BY <2>2, <2>3 DEF StartRead, Store, Goto
    <3> QED
      BY <3>1, <1>1 DEF Inv, TypeOK
  <2> QED
    BY <2>3
<1>2. Inv /\ [Next]_executorVars =>
        [cancelled => \A r \in Requests : pc'[r] = "reading" => pc[r] = "reading"]_executorVars
  BY <1>1
<1> QED
  BY <1>2, SpecInv, PTL DEF Spec, NoReadAfterCancel

(* A goroutine that stores a result settles its read, as it may be.        *)
LEMMA StoreSettles ==
  ASSUME Inv, NEW r \in Requests, NEW value \in Results \ {"none"}, NEW next,
         Store(r, value, next), pc[r] \in Unsettled \ {"none"},
         UNCHANGED <<plan, cancelled>>, Reads!MayBe(r, value)
  PROVE  Reads!Next
<1>1. r \in plan.reads /\ result[r] = "none"
  BY DEF Inv, DependenciesInv, TypeOK
<1>2. value \in Reads!Outcomes
  BY DEF Results, Useful, Reads!Outcomes, Reads!Useful
<1>3. Reads!Settle(r, value)
  BY <1>1 DEF Reads!Settle, Store
<1> QED
  BY <1>2, <1>3 DEF Reads!Next

(* Every step settles one read, stops, or changes nothing that shows. *)
LEMMA NextReads == ASSUME Inv, [Next]_executorVars PROVE [Reads!Next]_Reads!readVars
<1> USE DEF Unsettled, Results, Useful, Reads!Useful
<1>1. CASE Cancel
  BY <1>1 DEF Cancel, Reads!Next, Reads!Stop
<1>2. CASE UNCHANGED <<plan, result, cancelled>>
  BY <1>2 DEF Reads!readVars
<1>3. ASSUME NEW r \in Requests, Goroutine(r), ~UNCHANGED <<plan, result, cancelled>>
      PROVE  Reads!Next
  <2>1. ASSUME cancelled, NEW next, Store(r, "cancelled", next), pc[r] \in Unsettled \ {"none"},
               UNCHANGED <<plan, cancelled>>
        PROVE  Reads!Next
    <3>1. Reads!MayBe(r, "cancelled")
      BY <2>1 DEF Reads!MayBe
    <3> QED
      BY <2>1, <3>1, StoreSettles
  <2>2. CASE Spawned(r)
    BY <2>1, <2>2, <1>3 DEF Spawned
  <2>3. CASE Await(r)
    <3>1. PICK d \in Pending(r) :
            /\ pc[r] = "waiting" /\ UNCHANGED <<plan, cancelled>>
            /\ \/ cancelled /\ Store(r, "cancelled", "closing")
               \/ /\ pc[d] = "done" /\ result[d] \notin Useful
                  /\ Store(r, "dependency_failed", "closing")
      BY <2>3, <1>3 DEF Await
    <3>2. ASSUME pc[d] = "done", result[d] \notin Useful PROVE Reads!MayBe(r, "dependency_failed")
      <4>1. d \in plan.deps[r] /\ d \in Requests
        BY DEF Pending, Inv, TypeOK, PlanType
      <4>2. result[d] # "none"
        BY <4>1, <3>2 DEF Inv, DependenciesInv
      <4> QED
        BY <4>1, <4>2, <3>2 DEF Reads!MayBe
    <3>3. CASE cancelled /\ Store(r, "cancelled", "closing")
      BY <3>1, <3>3, <2>1
    <3>4. CASE /\ pc[d] = "done" /\ result[d] \notin Useful
               /\ Store(r, "dependency_failed", "closing")
      BY <3>1, <3>2, <3>4, StoreSettles
    <3> QED
      BY <3>1, <3>3, <3>4
  <2>4. CASE Resolve(r)
    <3>1. CASE cancelled
      BY <2>1, <2>4, <3>1 DEF Resolve
    <3>2. CASE ~cancelled
      <4>1. /\ pc[r] = "waiting" /\ UNCHANGED <<plan, cancelled>>
            /\ plan.source[r] # NoSource /\ result[plan.source[r]] = "no_hits"
            /\ Store(r, "dependency_failed", "closing")
        BY <2>4, <1>3, <3>2 DEF Resolve
      <4>2. plan.source[r] \in plan.deps[r]
        BY <4>1 DEF Inv, DependenciesInv, TypeOK, ValidPlan
      <4>3. Reads!MayBe(r, "dependency_failed")
        BY <4>1, <4>2 DEF Reads!MayBe
      <4> QED
        BY <4>1, <4>3, StoreSettles
    <3> QED
      BY <3>1, <3>2
  <2>5. CASE AcquireBackend(r) \/ AcquireGlobal(r) \/ StartRead(r)
    BY <2>1, <2>5, <1>3 DEF AcquireBackend, AcquireGlobal, StartRead
  <2>6. CASE ReadReturns(r)
    <3>1. PICK value \in Useful \cup {"failed"} : Store(r, value, "release_global")
      BY <2>6 DEF ReadReturns
    <3>2. pc[r] = "reading" /\ UNCHANGED <<plan, cancelled>>
      BY <2>6 DEF ReadReturns
    <3>3. \A d \in plan.deps[r] : result[d] \in Useful
      BY <3>2 DEF Inv, DependenciesInv, Ready, Pending
    <3>4. Reads!MayBe(r, value)
      BY <3>3 DEF Reads!MayBe
    <3> QED
      BY <3>1, <3>2, <3>4, StoreSettles
  <2>7. CASE ReleaseGlobal(r) \/ ReleaseBackend(r) \/ CloseDone(r)
    BY <2>7, <1>3 DEF ReleaseGlobal, ReleaseBackend, CloseDone
  <2> QED
    BY <1>3, <2>2, <2>3, <2>4, <2>5, <2>6, <2>7 DEF Goroutine
<1> QED
  BY <1>1, <1>2, <1>3 DEF Next, Submit, Return, executorVars

(* The executor implements EvidenceReads: every read of any plan gets at   *)
(* most one outcome, for good, and only one its dependencies allow.        *)
THEOREM ExecutorImplementsReads == Spec => ReadsSpec
<1>1. Init => Reads!Init
  BY DEF Init, Reads!Init
<1> QED
  BY <1>1, SpecInv, NextReads, PTL DEF Spec, ReadsSpec, Reads!Spec
================================================================================
