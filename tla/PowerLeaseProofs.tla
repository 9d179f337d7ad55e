----------------------------- MODULE PowerLeaseProofs -----------------------------
(***************************************************************************)
(* Proofs about PowerLease, for any number of CPU policies and requests    *)
(* and any settings: the type invariant, and the inductive LeaseInv with   *)
(* the properties it implies.                                              *)
(***************************************************************************)
EXTENDS PowerLease, TLAPS

USE CallersAssumption, FreeAssumption, PoliciesAssumption, LevelsAssumption,
    TuningsAssumption, NoLeaseAssumption, MaxFaultsAssumption, CrashesAssumption
DEF CallersAssumption, FreeAssumption, PoliciesAssumption, LevelsAssumption,
    TuningsAssumption, NoLeaseAssumption, MaxFaultsAssumption, CrashesAssumption

LEMMA LowPowerTyped == LowPower \in Settings
BY DEF LowPower, Settings

LEMMA FaultTyped ==
  ASSUME faults \in 0 .. MaxFaults, Fault \/ NoFault
  PROVE  faults' \in 0 .. MaxFaults
BY DEF Fault, NoFault

LEMMA WrittenTyped ==
  ASSUME HelperTypeOK, NEW control \in {"epp", "freq"}, NEW value \in Levels,
         Written(control, value)
  PROVE  cpu' \in Settings /\ faults' \in 0 .. MaxFaults
<1>1. faults' \in 0 .. MaxFaults
  BY DEF HelperTypeOK, Written, Fault, NoFault
<1>2. CASE cpu' = [cpu EXCEPT ![pos][control] = value]
  <2>1. [cpu[pos] EXCEPT ![control] = value] \in [epp : Levels, freq : Levels]
    BY DEF HelperTypeOK, Settings
  <2>2. cpu' = [cpu EXCEPT ![pos] = [cpu[pos] EXCEPT ![control] = value]]
    BY <1>2 DEF HelperTypeOK, Settings
  <2>. QED
    BY <1>1, <2>1, <2>2 DEF HelperTypeOK, Settings
<1>3. CASE UNCHANGED cpu
  BY <1>1, <1>3 DEF HelperTypeOK
<1>. QED
  BY <1>2, <1>3 DEF Written

LEMMA RewrittenTyped ==
  ASSUME HelperTypeOK, NEW control \in {"epp", "freq"}, Rewritten(control)
  PROVE  cpu' \in Settings /\ faults' \in 0 .. MaxFaults /\ writeError' \in BOOLEAN
<1>1. snapshot[pos][control] \in Levels
  BY DEF HelperTypeOK, Settings
<1>2. CASE Written(control, snapshot[pos][control]) /\ UNCHANGED writeError
  BY <1>1, <1>2, WrittenTyped DEF HelperTypeOK
<1>3. CASE Fault /\ UNCHANGED cpu /\ writeError' = TRUE
  BY <1>3, FaultTyped DEF HelperTypeOK
<1>. QED
  BY <1>2, <1>3 DEF Rewritten

LEMMA NextPolicyTyped ==
  ASSUME HelperTypeOK, NEW again \in Steps, NEW finished \in Steps,
         NextPolicy(again, finished)
  PROVE  pos' \in Policies /\ step' \in {again, finished}
BY DEF HelperTypeOK, NextPolicy, Policies

LEMMA ExitTyped ==
  ASSUME HelperTypeOK, NEW result \in Words, Exit(result)
  PROVE  /\ step' \in Steps /\ word' \in [Callers -> Words]
         /\ holder' \in Callers /\ snapshot' \in Settings
         /\ pos' \in Policies /\ writeError' \in BOOLEAN
BY DEF HelperTypeOK, Exit, Steps

LEMMA StartRestoringTyped ==
  ASSUME HelperTypeOK, NEW policies \in Settings, StartRestoring(policies)
  PROVE  /\ step' \in Steps /\ word' \in [Callers -> Words]
         /\ holder' \in Callers /\ snapshot' \in Settings
         /\ pos' \in Policies /\ writeError' \in BOOLEAN
<1>1. pos' \in Policies
  BY DEF StartRestoring, Policies
<1>2. step' \in Steps
  BY DEF StartRestoring, Steps
<1>. QED
  BY <1>1, <1>2, Zenon DEF HelperTypeOK, StartRestoring

LEMMA HelperStepTyped ==
  ASSUME HelperTypeOK, HelperStep
  PROVE  HelperTypeOK'
<1> USE DEF Words
<1>1. CASE HLoad
  BY <1>1, ExitTyped, StartRestoringTyped, FaultTyped DEF HLoad, HelperTypeOK, Steps
<1>2. CASE HPersist
  BY <1>2, ExitTyped, FaultTyped DEF HPersist, HelperTypeOK, Steps, Policies
<1>3. CASE HApplyEPP
  BY <1>3, WrittenTyped DEF HApplyEPP, HelperTypeOK, Steps
<1>4. CASE HApplyFreq
  BY <1>4, WrittenTyped, NextPolicyTyped DEF HApplyFreq, HelperTypeOK, Steps
<1>5. CASE HApplyFails
  BY <1>5, StartRestoringTyped, FaultTyped DEF HApplyFails, HelperTypeOK
<1>6. CASE HVerifyLow
  BY <1>6, ExitTyped, StartRestoringTyped, FaultTyped DEF HVerifyLow, HelperTypeOK
<1>7. CASE HRestoreFreq
  BY <1>7, RewrittenTyped DEF HRestoreFreq, HelperTypeOK, Steps
<1>8. CASE HRestoreEPP
  BY <1>8, RewrittenTyped, NextPolicyTyped DEF HRestoreEPP, HelperTypeOK, Steps
<1>9. CASE HVerifyRestored
  BY <1>9, ExitTyped, FaultTyped DEF HVerifyRestored, HelperTypeOK, Steps
<1>10. CASE HRemove
  BY <1>10, ExitTyped, FaultTyped DEF HRemove, HelperTypeOK
<1>. QED
  BY <1>1, <1>2, <1>3, <1>4, <1>5, <1>6, <1>7, <1>8, <1>9, <1>10 DEF HelperStep

LEMMA CallTyped ==
  ASSUME HelperTypeOK, NEW c \in Callers, NEW op \in HelperOps, Call(c, op)
  PROVE  ask' \in [Callers -> HelperOps] /\ word' \in [Callers -> Words]
BY DEF HelperTypeOK, Call, Words

LEMMA CollectedTyped ==
  ASSUME HelperTypeOK, NEW c \in Callers, Collected(c)
  PROVE  word' \in [Callers -> Words]
BY DEF HelperTypeOK, Collected, Words

LEMMA HelperFrame ==
  ASSUME HelperTypeOK, HelperUntouched, faults' \in 0 .. MaxFaults,
         ask' \in [Callers -> HelperOps], word' \in [Callers -> Words]
  PROVE  HelperTypeOK'
BY DEF HelperTypeOK, HelperUntouched, localVars

LEMMA GotoTyped ==
  ASSUME NEW r \in Requests, NEW next \in RequestSteps, Goto(r, next),
         pc \in [Requests -> RequestSteps]
  PROVE  pc' \in [Requests -> RequestSteps]
BY DEF Goto

LEMMA TypeInit == Init => TypeOK
<1> SUFFICES ASSUME Init PROVE TypeOK
  OBVIOUS
<1>1. /\ cpu \in Settings /\ original \in Settings /\ snapshot \in Settings
      /\ lease \in Settings \cup {NoLease}
  BY LowPowerTyped DEF Init, HelperInit
<1>2. pos \in Policies /\ faults \in 0 .. MaxFaults
  BY DEF Init, HelperInit, Policies
<1>3. step \in Steps /\ holder \in Callers
  BY DEF Init, HelperInit, Steps
<1>4. ask \in [Callers -> HelperOps] /\ word \in [Callers -> Words]
  BY DEF Init, HelperInit, HelperOps, Words
<1>5. writeError \in BOOLEAN /\ blocked \in BOOLEAN /\ active \in BOOLEAN
  BY Zenon DEF Init, HelperInit
<1>6. pc \in [Requests -> RequestSteps]
  BY DEF Init, RequestSteps
<1>7. crashes \in 0 .. MaxCrashes /\ operatorCalls \in 0 .. MaxOperatorCalls
  BY DEF Init
<1>. QED
  BY <1>1, <1>2, <1>3, <1>4, <1>5, <1>6, <1>7 DEF Init, HelperTypeOK, TypeOK

LEMMA TypeStep == TypeOK /\ [Next]_leaseVars => TypeOK'
<1> SUFFICES ASSUME TypeOK, [Next]_leaseVars PROVE TypeOK'
  OBVIOUS
<1> USE DEF TypeOK, managerVars, RequestSteps, HelperOps
<1>1. CASE Boot
  <2>1. HelperTypeOK'
    BY <1>1, CallTyped, HelperFrame DEF Boot, HelperTypeOK
  <2>. QED
    BY <1>1, <2>1 DEF Boot
<1>2. CASE RecoverReturns
  <2>1. HelperTypeOK'
    BY <1>2, CollectedTyped, HelperFrame, FaultTyped
    DEF RecoverReturns, Timely, Untimely, HelperTypeOK
  <2>. QED
    BY <1>2, <2>1 DEF RecoverReturns
<1>3. ASSUME NEW r \in Requests, Arrive(r) \/ Cancel(r) PROVE TypeOK'
  BY <1>3, GotoTyped DEF Arrive, Cancel, helperVars, localVars, HelperTypeOK
<1>4. ASSUME NEW r \in Requests, TakeSlot(r) PROVE TypeOK'
  <2>1. HelperTypeOK'
    BY <1>4, CallTyped, HelperFrame DEF TakeSlot, HelperTypeOK
  <2>. QED
    BY <1>4, <2>1, GotoTyped DEF TakeSlot
<1>5. ASSUME NEW r \in Requests, EnterReturns(r) PROVE TypeOK'
  <2>1. HelperTypeOK'
    BY <1>5, CollectedTyped, HelperFrame, FaultTyped
    DEF EnterReturns, Timely, Untimely, HelperTypeOK
  <2>. QED
    BY <1>5, <2>1, GotoTyped DEF EnterReturns
<1>6. ASSUME NEW r \in Requests, WorkEnds(r) PROVE TypeOK'
  <2>1. HelperTypeOK'
    BY <1>6, CallTyped, HelperFrame DEF WorkEnds, HelperTypeOK
  <2>. QED
    BY <1>6, <2>1, GotoTyped DEF WorkEnds
<1>7. ASSUME NEW r \in Requests, RestoreReturns(r) PROVE TypeOK'
  <2>1. HelperTypeOK'
    BY <1>7, CollectedTyped, HelperFrame, FaultTyped
    DEF RestoreReturns, Timely, Untimely, HelperTypeOK
  <2>. QED
    BY <1>7, <2>1, GotoTyped DEF RestoreReturns
<1>8. CASE Helper
  <2>1. ASSUME NEW c \in Callers, HLock(c) PROVE HelperTypeOK'
    BY <2>1 DEF HLock, HelperTypeOK, Steps, Words
  <2>. QED
    BY <1>8, <2>1, HelperStepTyped DEF Helper
<1>9. CASE Disturbance
  <2>1. CASE HKilled
    BY <1>9, <2>1, ExitTyped, FaultTyped DEF HKilled, HelperTypeOK, Words, Disturbance
  <2>2. CASE Tune
    BY <1>9, <2>2 DEF Tune, HelperTypeOK, localVars, Disturbance
  <2>. QED
    BY <1>9, <2>1, <2>2 DEF Disturbance
<1>10. CASE Crash
  <2>1. HelperTypeOK'
    BY <1>10 DEF Crash, HelperTypeOK, Steps, Words
  <2>2. crashes' \in 0 .. MaxCrashes
    BY <1>10 DEF Crash
  <2>. QED
    BY <1>10, <2>1, <2>2 DEF Crash
<1>11. CASE OperatorCall
  <2>1. HelperTypeOK'
    BY <1>11, CallTyped, HelperFrame DEF OperatorCall, HelperTypeOK
  <2>2. operatorCalls' \in 0 .. MaxOperatorCalls
    BY <1>11 DEF OperatorCall
  <2>. QED
    BY <1>11, <2>1, <2>2 DEF OperatorCall
<1>12. CASE OperatorReads
  <2>1. HelperTypeOK'
    BY <1>12, CollectedTyped, HelperFrame DEF OperatorReads, HelperTypeOK
  <2>. QED
    BY <1>12, <2>1 DEF OperatorReads
<1>13. CASE UNCHANGED leaseVars
  BY <1>13 DEF leaseVars, helperVars, localVars, HelperTypeOK
<1>. QED
  BY <1>1, <1>2, <1>3, <1>4, <1>5, <1>6, <1>7, <1>8, <1>9, <1>10, <1>11, <1>12, <1>13
  DEF Next, Lease

(* The type invariant, for every number of policies, requests and faults. *)
THEOREM TypeInvariant == Spec => []TypeOK
BY TypeInit, TypeStep, PTL DEF Spec
--------------------------------------------------------------------------------
(***************************************************************************)
(* The inductive invariant.  The helper alone keeps the original settings; *)
(* the manager's part needs that, while the service is up, only the helper *)
(* of the slot's owner gets past loading the lease.                        *)
(***************************************************************************)
HelperMove == (\E c \in Callers : HLock(c)) \/ HelperStep \/ HKilled \/ Tune

LEMMA HelperInvStep ==
  ASSUME HelperTypeOK, OriginalsKept, SnapshotInv, LockInv, HelperMove
  PROVE  OriginalsKept' /\ SnapshotInv' /\ LockInv'
<1> USE DEF OriginalsKept, SnapshotInv, LockInv, HelperTypeOK, Entering, Restoring, Words
<1>1. ASSUME NEW c \in Callers, HLock(c) PROVE OriginalsKept' /\ SnapshotInv' /\ LockInv'
  BY <1>1 DEF HLock
<1>2. CASE HLoad
  BY <1>2 DEF HLoad, Exit, StartRestoring
<1>3. CASE HPersist
  BY <1>3 DEF HPersist, Exit
<1>4. CASE HApplyEPP
  BY <1>4 DEF HApplyEPP
<1>5. CASE HApplyFreq
  BY <1>5 DEF HApplyFreq, NextPolicy
<1>6. CASE HApplyFails
  BY <1>6 DEF HApplyFails, StartRestoring
<1>7. CASE HVerifyLow
  BY <1>7 DEF HVerifyLow, Exit, StartRestoring
<1>8. CASE HRestoreFreq
  BY <1>8 DEF HRestoreFreq
<1>9. CASE HRestoreEPP
  BY <1>9 DEF HRestoreEPP, NextPolicy
<1>10. CASE HVerifyRestored
  BY <1>10 DEF HVerifyRestored, Exit
<1>11. CASE HRemove
  BY <1>11 DEF HRemove, Exit
<1>12. CASE HKilled
  BY <1>12 DEF HKilled, Exit
<1>13. CASE Tune
  BY <1>13 DEF Tune, localVars
<1>. QED
  BY <1>1, <1>2, <1>3, <1>4, <1>5, <1>6, <1>7, <1>8, <1>9, <1>10, <1>11, <1>12, <1>13
  DEF HelperMove, HelperStep

(* A helper step answers a waiting caller or leaves its word alone. *)
WordMove(c) ==
  word'[c] = word[c]
  \/ (word[c] \in {"called", "running"} /\ word'[c] \notin {"none", "called"})

LEMMA WordMoves ==
  ASSUME HelperTypeOK, LockInv, HelperMove, NEW c \in Callers
  PROVE  ask' = ask /\ WordMove(c)
<1>1. step # "free" => word[holder] = "running"
  BY DEF HelperTypeOK, LockInv
<1>2. ASSUME NEW d \in Callers, HLock(d) PROVE ask' = ask /\ WordMove(c)
  <2>1. ask' = ask /\ word[d] = "called"
    BY <1>2 DEF HLock
  <2>2. CASE word' = [word EXCEPT ![d] = "running"]
    BY <2>1, <2>2 DEF HelperTypeOK, WordMove
  <2>3. CASE word' = [word EXCEPT ![d] = "failed"]
    BY <2>1, <2>3 DEF HelperTypeOK, WordMove
  <2>. QED
    BY <1>2, <2>1, <2>2, <2>3 DEF HLock
<1>3. ASSUME step # "free", NEW result \in Words \ {"none", "called"},
             word' = [word EXCEPT ![holder] = result]
      PROVE  WordMove(c)
  BY <1>1, <1>3 DEF HelperTypeOK, WordMove
<1>4. ASSUME HelperStep \/ HKilled PROVE ask' = ask /\ WordMove(c)
  <2>1. /\ step # "free" /\ ask' = ask
        /\ \/ UNCHANGED word
           \/ \E result \in Words \ {"none", "called"} :
                word' = [word EXCEPT ![holder] = result]
    BY <1>4 DEF HelperStep, HLoad, HPersist, HApplyEPP, HApplyFreq, HApplyFails, HVerifyLow,
       HRestoreFreq, HRestoreEPP, HVerifyRestored, HRemove, HKilled, Exit, StartRestoring, Words
  <2>2. CASE UNCHANGED word
    BY <2>1, <2>2 DEF WordMove
  <2>. QED
    BY <1>3, <2>1, <2>2
<1>5. CASE Tune
  BY <1>5 DEF Tune, WordMove
<1>. QED
  BY <1>2, <1>4, <1>5 DEF HelperMove

(* The word a helper ends with is true when it is printed. *)
LEMMA ResultIsTrue ==
  ASSUME HelperTypeOK, OriginalsKept, SnapshotInv, LockInv, HelperMove, NEW c \in Callers,
         word[c] \in {"called", "running"}
  PROVE  /\ word'[c] = "entered" => cpu' = LowPower /\ lease' # NoLease
         /\ word'[c] \in {"restored", "recovered", "no_active_lease"} => lease' = NoLease
<1> USE DEF HelperTypeOK, LockInv
<1>1. ASSUME NEW d \in Callers, HLock(d)
      PROVE  word'[c] \in {"called", "running", "failed"}
  BY <1>1 DEF HLock
<1>2. CASE HLoad
  BY <1>2 DEF HLoad, Exit, StartRestoring
<1>3. CASE HVerifyLow
  BY <1>3 DEF HVerifyLow, Exit, StartRestoring, SnapshotInv, Entering
<1>4. CASE HRemove
  BY <1>4 DEF HRemove, Exit
<1>5. CASE HPersist \/ HApplyEPP \/ HApplyFreq \/ HApplyFails \/ HRestoreFreq
           \/ HRestoreEPP \/ HVerifyRestored \/ HKilled \/ Tune
  BY <1>5 DEF HPersist, HApplyEPP, HApplyFreq, HApplyFails, HRestoreFreq, HRestoreEPP,
     HVerifyRestored, HKilled, Tune, Exit, StartRestoring
<1>. QED
  BY <1>1, <1>2, <1>3, <1>4, <1>5 DEF HelperMove, HelperStep

(* While the service is up and waits for no helper, no helper changes the  *)
(* lease file, nor the settings of an outstanding lease.                   *)
LEMMA QuietHelper ==
  ASSUME HelperTypeOK, LockInv, OperatorInv, HelperMove, service # "down",
         word[Service] \notin {"called", "running"}
  PROVE  /\ lease' = lease
         /\ lease # NoLease => cpu' = cpu
<1> USE DEF HelperTypeOK, LockInv
<1>1. step # "free" => holder = Operator /\ ask[holder] = "status"
  BY DEF OperatorInv
<1>2. step \in {"free", "load"}
  BY <1>1 DEF Entering, Restoring, Steps
<1>3. ASSUME HelperStep PROVE HLoad
  BY <1>2, <1>3 DEF HelperStep, HPersist, HApplyEPP, HApplyFreq, HApplyFails, HVerifyLow,
     HRestoreFreq, HRestoreEPP, HVerifyRestored, HRemove
<1>. QED
  BY <1>3 DEF HelperMove, HLock, HLoad, HKilled, Tune

LEMMA LeaseHelperStep ==
  ASSUME TypeOK, LeaseInv, HelperMove,
         UNCHANGED <<managerVars, pc, crashes, operatorCalls>>
  PROVE  LeaseInv'
<1>1. OriginalsKept' /\ SnapshotInv' /\ LockInv'
  BY HelperInvStep DEF TypeOK, LeaseInv
<1>2. ask' = ask /\ WordMove(Service) /\ WordMove(Operator)
  BY WordMoves DEF TypeOK, LeaseInv
<1>3. UNCHANGED <<service, blocked, active, slot, pc>>
  BY DEF managerVars
<1>4. OwnerInv'
  BY <1>2, <1>3 DEF LeaseInv, OwnerInv, WordMove, Busy
<1>5. OperatorInv'
  BY <1>2, <1>3 DEF LeaseInv, OperatorInv, WordMove
<1>6. word[Service] \in {"called", "running"} => WordInv'
  BY <1>3, ResultIsTrue DEF TypeOK, LeaseInv, OwnerInv, WordInv
<1>7. service # "down" /\ word[Service] \notin {"called", "running"} =>
        lease' = lease /\ (lease # NoLease => cpu' = cpu)
  BY QuietHelper DEF TypeOK, LeaseInv
<1>8. service = "down" => word[Service] = "none" /\ \A r \in Requests : pc[r] # "working"
  BY DEF LeaseInv, OwnerInv, Busy
<1>9. WordInv'
  BY <1>2, <1>3, <1>6, <1>7, <1>8 DEF LeaseInv, WordInv, WordMove
<1>10. OpenMeansRestored'
  BY <1>1, <1>3, <1>7 DEF LeaseInv, OpenMeansRestored, OwnerInv, OriginalsKept
<1>. QED
  BY <1>1, <1>4, <1>5, <1>9, <1>10 DEF LeaseInv

(* Starting a helper and reading its word leave the helper's part alone. *)
HelperInv == OriginalsKept /\ SnapshotInv /\ LockInv

LEMMA CallKeeps ==
  ASSUME HelperTypeOK, HelperInv, HelperUntouched, NEW c \in Callers, NEW op \in HelperOps,
         word[c] = "none", Call(c, op)
  PROVE  HelperInv' /\ ask'[c] = op /\ word'[c] = "called"
         /\ \A d \in Callers \ {c} : ask'[d] = ask[d] /\ word'[d] = word[d]
<1>1. /\ ask'[c] = op /\ word'[c] = "called"
      /\ \A d \in Callers \ {c} : ask'[d] = ask[d] /\ word'[d] = word[d]
  BY DEF HelperTypeOK, Call
<1>2. OriginalsKept' /\ SnapshotInv'
  BY DEF HelperInv, HelperUntouched, localVars, OriginalsKept, SnapshotInv
<1>3. step' = step /\ holder' = holder
  BY DEF HelperUntouched, localVars
<1>4. LockInv'
  BY <1>1, <1>3 DEF HelperInv, LockInv, HelperTypeOK, Entering, Restoring
<1>. QED
  BY <1>1, <1>2, <1>4 DEF HelperInv

LEMMA CollectedKeeps ==
  ASSUME HelperTypeOK, HelperInv, HelperUntouched, NEW c \in Callers,
         Answered(c), Collected(c), UNCHANGED ask
  PROVE  HelperInv' /\ word'[c] = "none"
         /\ \A d \in Callers \ {c} : word'[d] = word[d]
<1>1. word'[c] = "none" /\ \A d \in Callers \ {c} : word'[d] = word[d]
  BY DEF HelperTypeOK, Collected
<1>2. OriginalsKept' /\ SnapshotInv'
  BY DEF HelperInv, HelperUntouched, localVars, OriginalsKept, SnapshotInv
<1>3. step' = step /\ holder' = holder
  BY DEF HelperUntouched, localVars
<1>4. LockInv'
  BY <1>1, <1>3 DEF HelperInv, LockInv, Answered
<1>. QED
  BY <1>1, <1>2, <1>4 DEF HelperInv

LEMMA LeaseManagerStep ==
  ASSUME TypeOK, LeaseInv, NEW r \in Requests, Arrive(r) \/ Cancel(r) \/ Lease(r)
  PROVE  LeaseInv'
<1> USE DEF LeaseInv, TypeOK, managerVars
<1>1. HelperTypeOK /\ HelperInv /\ Service \in Callers /\ Operator \in Callers \ {Service}
      /\ Service \in Callers \ {Operator}
  BY DEF HelperInv
<1>2. CASE Arrive(r) \/ Cancel(r)
  <2>1. UNCHANGED helperVars /\ UNCHANGED <<service, blocked, active, slot>>
    BY <1>2 DEF Arrive, Cancel
  <2>2. OriginalsKept' /\ SnapshotInv' /\ LockInv' /\ OperatorInv' /\ OpenMeansRestored'
    BY <2>1 DEF helperVars, localVars, OriginalsKept, SnapshotInv, LockInv, OperatorInv,
       OpenMeansRestored
  <2>3. OwnerInv' /\ WordInv'
    BY <1>2, <2>1 DEF Arrive, Cancel, Goto, helperVars, OwnerInv, WordInv, Busy
  <2>. QED
    BY <2>2, <2>3
<1>3. CASE TakeSlot(r)
  <2>1. CASE blocked
    <3>1. /\ UNCHANGED <<ask, word, service, blocked, active, slot, cpu, original, lease, localVars>>
          /\ pc' = [pc EXCEPT ![r] = "unavailable"]
      BY <1>3, <2>1 DEF TakeSlot, Goto, HelperUntouched
    <3>2. OriginalsKept' /\ SnapshotInv' /\ LockInv' /\ OperatorInv' /\ OpenMeansRestored'
      BY <3>1 DEF localVars, OriginalsKept, SnapshotInv, LockInv, OperatorInv, OpenMeansRestored
    <3>3. OwnerInv' /\ WordInv'
      BY <1>3, <3>1 DEF TakeSlot, OwnerInv, WordInv, Busy
    <3>. QED
      BY <3>2, <3>3
  <2>2. CASE ~blocked
    <3>1. /\ HelperUntouched /\ Call(Service, "enter") /\ slot' = r /\ slot = Free
          /\ UNCHANGED <<service, blocked, active, cpu, lease>>
          /\ pc[r] = "waiting" /\ pc' = [pc EXCEPT ![r] = "entering"]
      BY <1>3, <2>2 DEF TakeSlot, Goto, HelperUntouched
    <3>2. service = "up" /\ word[Service] = "none"
      BY <3>1 DEF OwnerInv
    <3>3. HelperInv' /\ ask'[Service] = "enter" /\ word'[Service] = "called"
          /\ ask'[Operator] = ask[Operator] /\ word'[Operator] = word[Operator]
      BY <1>1, <3>1, <3>2, CallKeeps DEF HelperOps
    <3>4. OwnerInv'
      BY <2>2, <3>1, <3>2, <3>3 DEF OwnerInv, Busy
    <3>5. OperatorInv' /\ WordInv' /\ OpenMeansRestored'
      BY <3>1, <3>3 DEF OperatorInv, WordInv, OpenMeansRestored
    <3>. QED
      BY <3>3, <3>4, <3>5 DEF HelperInv
  <2>. QED
    BY <2>1, <2>2
<1>4. CASE EnterReturns(r)
  <2>1. /\ HelperUntouched /\ Collected(Service) /\ Answered(Service)
        /\ UNCHANGED <<ask, service, cpu, lease>> /\ pc[r] = "entering"
    BY <1>4 DEF EnterReturns, HelperUntouched
  <2>2. HelperInv' /\ word'[Service] = "none" /\ word'[Operator] = word[Operator]
    BY <1>1, <2>1, CollectedKeeps
  <2>3. OperatorInv'
    BY <2>1, <2>2 DEF OperatorInv
  <2>4. CASE /\ word[Service] = "entered" /\ active' = TRUE
             /\ pc' = [pc EXCEPT ![r] = "working"] /\ UNCHANGED <<blocked, slot>>
    BY <2>1, <2>2, <2>3, <2>4 DEF HelperInv, OwnerInv, Busy, WordInv, OpenMeansRestored
  <2>5. CASE /\ blocked' = TRUE /\ slot' = Free
             /\ pc' = [pc EXCEPT ![r] = "unavailable"] /\ UNCHANGED active
    BY <2>1, <2>2, <2>3, <2>5 DEF HelperInv, OwnerInv, Busy, WordInv, OpenMeansRestored
  <2>. QED
    BY <1>4, <2>4, <2>5 DEF EnterReturns, Timely, Goto
<1>5. CASE WorkEnds(r)
  <2>1. /\ HelperUntouched /\ Call(Service, "restore")
        /\ UNCHANGED <<service, blocked, active, slot, cpu, lease>>
        /\ pc[r] = "working" /\ pc' = [pc EXCEPT ![r] = "restoring"]
    BY <1>5 DEF WorkEnds, Goto, HelperUntouched
  <2>2. HelperInv' /\ ask'[Service] = "restore" /\ word'[Service] = "called"
        /\ ask'[Operator] = ask[Operator] /\ word'[Operator] = word[Operator]
    BY <1>1, <2>1, CallKeeps DEF HelperOps, OwnerInv
  <2>3. OwnerInv'
    BY <2>1, <2>2 DEF OwnerInv, Busy
  <2>. QED
    BY <2>1, <2>2, <2>3 DEF HelperInv, OperatorInv, WordInv, OpenMeansRestored
<1>6. CASE RestoreReturns(r)
  <2>1. /\ HelperUntouched /\ Collected(Service) /\ Answered(Service) /\ slot' = Free
        /\ UNCHANGED <<ask, service, cpu, lease>> /\ pc[r] = "restoring"
    BY <1>6 DEF RestoreReturns, HelperUntouched
  <2>2. HelperInv' /\ word'[Service] = "none" /\ word'[Operator] = word[Operator]
    BY <1>1, <2>1, CollectedKeeps
  <2>3. \/ word[Service] = "restored" /\ UNCHANGED blocked /\ pc' = [pc EXCEPT ![r] = "done"]
        \/ blocked' = TRUE /\ pc' = [pc EXCEPT ![r] = "restore_failed"]
    BY <1>6 DEF RestoreReturns, Timely, Goto
  <2>4. OwnerInv'
    BY <2>1, <2>2, <2>3 DEF OwnerInv, Busy
  <2>5. OperatorInv' /\ WordInv'
    BY <2>1, <2>2, <2>3 DEF OperatorInv, WordInv
  <2>6. OpenMeansRestored'
    BY <2>1, <2>2, <2>3 DEF HelperInv, WordInv, OpenMeansRestored, OriginalsKept
  <2>. QED
    BY <2>2, <2>4, <2>5, <2>6 DEF HelperInv
<1>. QED
  BY <1>2, <1>3, <1>4, <1>5, <1>6 DEF Lease

LEMMA LeaseServiceStep ==
  ASSUME TypeOK, LeaseInv, Boot \/ RecoverReturns
  PROVE  LeaseInv'
<1> USE DEF LeaseInv, TypeOK, managerVars
<1>1. HelperTypeOK /\ HelperInv /\ Service \in Callers /\ Operator \in Callers \ {Service}
  BY DEF HelperInv
<1>2. CASE Boot
  <2>1. /\ HelperUntouched /\ Call(Service, "recover") /\ service' = "recovering"
        /\ UNCHANGED <<slot, pc, cpu, lease>> /\ service = "down"
        /\ ask[Operator] = "recover" => word[Operator] \notin {"called", "running"}
    BY <1>2 DEF Boot, HelperUntouched
  <2>2. HelperInv' /\ ask'[Service] = "recover" /\ word'[Service] = "called"
        /\ ask'[Operator] = ask[Operator] /\ word'[Operator] = word[Operator]
    BY <1>1, <2>1, CallKeeps DEF HelperOps, OwnerInv
  <2>3. OwnerInv'
    BY <2>1, <2>2 DEF OwnerInv, Busy
  <2>. QED
    BY <2>1, <2>2, <2>3 DEF HelperInv, OperatorInv, WordInv, OpenMeansRestored
<1>3. CASE RecoverReturns
  <2>1. /\ HelperUntouched /\ Collected(Service) /\ Answered(Service) /\ service' = "up"
        /\ UNCHANGED <<ask, slot, pc, cpu, lease>> /\ service = "recovering"
        /\ word[Service] \in {"recovered", "no_active_lease"} \/ blocked' = TRUE
    BY <1>3 DEF RecoverReturns, HelperUntouched, Timely
  <2>2. HelperInv' /\ word'[Service] = "none" /\ word'[Operator] = word[Operator]
    BY <1>1, <2>1, CollectedKeeps
  <2>3. OwnerInv'
    BY <2>1, <2>2 DEF OwnerInv, Busy
  <2>4. OperatorInv' /\ WordInv'
    BY <2>1, <2>2 DEF OperatorInv, WordInv
  <2>5. OpenMeansRestored'
    BY <2>1, <2>2 DEF HelperInv, WordInv, OpenMeansRestored, OriginalsKept
  <2>. QED
    BY <2>2, <2>3, <2>4, <2>5 DEF HelperInv
<1>. QED
  BY <1>2, <1>3

LEMMA LeaseOperatorStep ==
  ASSUME TypeOK, LeaseInv, OperatorCall \/ OperatorReads
  PROVE  LeaseInv'
<1> USE DEF LeaseInv, TypeOK, managerVars
<1>1. HelperTypeOK /\ HelperInv /\ Operator \in Callers /\ Service \in Callers \ {Operator}
  BY DEF HelperInv
<1>2. CASE OperatorCall
  <2>1. PICK op \in {"status", "recover"} :
          /\ Call(Operator, op) /\ (op = "recover" => service = "down")
          /\ HelperUntouched /\ UNCHANGED <<service, blocked, active, slot, pc, cpu, lease>>
          /\ word[Operator] = "none"
    BY <1>2 DEF OperatorCall, HelperUntouched
  <2>2. HelperInv' /\ ask'[Operator] = op
        /\ ask'[Service] = ask[Service] /\ word'[Service] = word[Service]
    BY <1>1, <2>1, CallKeeps DEF HelperOps
  <2>3. OwnerInv'
    BY <2>1, <2>2 DEF OwnerInv, Busy
  <2>4. OperatorInv' /\ WordInv'
    BY <2>1, <2>2 DEF OperatorInv, WordInv
  <2>5. OpenMeansRestored'
    BY <2>1 DEF OpenMeansRestored, HelperUntouched
  <2>. QED
    BY <2>2, <2>3, <2>4, <2>5 DEF HelperInv
<1>3. CASE OperatorReads
  <2>1. /\ Collected(Operator) /\ Answered(Operator) /\ UNCHANGED ask
        /\ HelperUntouched /\ UNCHANGED <<service, blocked, active, slot, pc, cpu, lease>>
    BY <1>3 DEF OperatorReads, HelperUntouched
  <2>2. HelperInv' /\ word'[Operator] = "none" /\ word'[Service] = word[Service]
    BY <1>1, <2>1, CollectedKeeps
  <2>3. OwnerInv'
    BY <2>1, <2>2 DEF OwnerInv, Busy
  <2>4. OperatorInv' /\ WordInv'
    BY <2>1, <2>2 DEF OperatorInv, WordInv
  <2>5. OpenMeansRestored'
    BY <2>1 DEF OpenMeansRestored, HelperUntouched
  <2>. QED
    BY <2>2, <2>3, <2>4, <2>5 DEF HelperInv
<1>. QED
  BY <1>2, <1>3

LEMMA LeaseCrashStep ==
  ASSUME TypeOK, LeaseInv, Crash
  PROVE  LeaseInv'
<1> USE DEF LeaseInv, TypeOK, HelperTypeOK
<1>1. /\ service' = "down" /\ slot' = Free
      /\ \A r \in Requests : pc'[r] \notin Busy \cup {"waiting", "working"}
      /\ word'[Service] = "none" /\ word'[Operator] = word[Operator]
      /\ UNCHANGED <<cpu, original, lease, holder, snapshot, ask>>
      /\ step' = IF step # "free" /\ holder = Service THEN "free" ELSE step
  BY DEF Crash, Ended, Busy
<1>2. OriginalsKept'
  BY <1>1 DEF OriginalsKept
<1>3. SnapshotInv'
  BY <1>1 DEF SnapshotInv, Entering, Restoring
<1>4. LockInv'
  BY <1>1 DEF LockInv, Entering, Restoring
<1>5. OwnerInv'
  BY <1>1 DEF OwnerInv, Busy
<1>6. OperatorInv'
  BY <1>1 DEF OperatorInv
<1>7. WordInv' /\ OpenMeansRestored'
  BY <1>1 DEF WordInv, OpenMeansRestored
<1>. QED
  BY <1>2, <1>3, <1>4, <1>5, <1>6, <1>7

LEMMA LeaseInit == Init => LeaseInv
BY DEF Init, HelperInit, LeaseInv, OriginalsKept, SnapshotInv, LockInv, OwnerInv, OperatorInv,
   WordInv, OpenMeansRestored, Entering, Restoring, Busy

LEMMA LeaseStep == TypeOK /\ LeaseInv /\ [Next]_leaseVars => LeaseInv'
<1> SUFFICES ASSUME TypeOK, LeaseInv, [Next]_leaseVars PROVE LeaseInv'
  OBVIOUS
<1>1. CASE Helper \/ Disturbance
  BY <1>1, LeaseHelperStep DEF Helper, Disturbance, HelperMove
<1>2. CASE UNCHANGED leaseVars
  BY <1>2 DEF leaseVars, helperVars, localVars, managerVars, LeaseInv, OriginalsKept,
     SnapshotInv, LockInv, OwnerInv, OperatorInv, WordInv, OpenMeansRestored
<1>. QED
  BY <1>1, <1>2, LeaseManagerStep, LeaseServiceStep, LeaseOperatorStep, LeaseCrashStep
  DEF Next

(* The inductive invariant holds in every reachable state. *)
THEOREM LeaseInvariant == Spec => []LeaseInv
BY TypeInvariant, LeaseInit, LeaseStep, PTL DEF Spec

(* However helpers and the service fail or die, and whatever the operator  *)
(* runs, the settings the CPU had are in force or exactly on file.         *)
THEOREM OriginalsAlwaysKept == Spec => []OriginalsKept
<1>1. LeaseInv => OriginalsKept
  BY DEF LeaseInv
<1>. QED
  BY <1>1, LeaseInvariant, PTL

(* Protected inference only ever runs at low power and under its lease. *)
THEOREM InferenceIsProtected == Spec => []InferenceAtLowPower
<1>1. LeaseInv => InferenceAtLowPower
  BY DEF LeaseInv, OwnerInv, WordInv, OriginalsKept, InferenceAtLowPower, Busy
<1>. QED
  BY <1>1, LeaseInvariant, PTL

(* A manager that admits requests has no lease outstanding. *)
THEOREM OpenIsRestored == Spec => []OpenMeansRestored
<1>1. LeaseInv => OpenMeansRestored
  BY DEF LeaseInv
<1>. QED
  BY <1>1, LeaseInvariant, PTL
================================================================================
