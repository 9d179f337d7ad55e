------------------------------- MODULE PowerLease --------------------------------
(***************************************************************************)
(* The CPU power lease of the service (power_lease.go) on top of the root  *)
(* helper: a manager that serialises protected-model inference, requests   *)
(* that run it, and an operator who uses the helper from a shell as        *)
(* POWER_LEASE.md describes.  The service may die at any point; its helper *)
(* dies with it (one systemd control group), the lease file stays.         *)
(***************************************************************************)
EXTENDS PowerHelper

CONSTANTS Requests, Free,    \* Free: nobody holds the manager's slot
          Service, Operator, \* the two callers of the helper
          MaxCrashes, MaxOperatorCalls

ASSUME CallersAssumption == Callers = {Service, Operator} /\ Service # Operator
ASSUME FreeAssumption == Free \notin Requests
ASSUME CrashesAssumption == MaxCrashes \in Nat /\ MaxOperatorCalls \in Nat

VARIABLES service,   \* "down", "recovering" or "up"
          blocked, active, slot,   \* cpuPowerLeaseManager
          pc,        \* where each request is
          crashes, operatorCalls

managerVars == <<service, blocked, active, slot>>
leaseVars == <<helperVars, managerVars, pc, crashes, operatorCalls>>

RequestSteps == {"idle", "waiting", "entering", "working", "restoring",
                 "done", "unavailable", "restore_failed", "cancelled", "gone"}
Ended == {"done", "unavailable", "restore_failed", "cancelled", "gone"}

Goto(r, next) == pc' = [pc EXCEPT ![r] = next]
Collected(c) == word' = [word EXCEPT ![c] = "none"]
Answered(c) == word[c] \notin {"none", "called", "running"}

(* The unchanged part of a manager step that talks to the helper. *)
HelperUntouched == UNCHANGED <<cpu, original, lease, localVars>>

(* initializeCPUPowerLeaseManager: recovery before any request.  Nobody    *)
(* starts the service in the middle of the operator's own recovery.        *)
Boot ==
  /\ service = "down"
  /\ ask[Operator] = "recover" => word[Operator] \notin {"called", "running"}
  /\ service' = "recovering"
  /\ blocked' = FALSE
  /\ active' = FALSE
  /\ Call(Service, "recover")
  /\ HelperUntouched /\ UNCHANGED <<slot, pc, crashes, operatorCalls, faults>>

(* A helper that printed its word too late counts as failed: Timely is the *)
(* word in time, a fault the late one.                                     *)
Timely(words) == word[Service] \in words /\ NoFault
Untimely(words) ==
  \/ word[Service] \notin words /\ NoFault
  \/ word[Service] \in words /\ Fault

RecoverReturns ==
  LET success == {"recovered", "no_active_lease"}
  IN  /\ service = "recovering" /\ Answered(Service)
      /\ \/ Timely(success) /\ blocked' = FALSE
         \/ Untimely(success) /\ blocked' = TRUE
      /\ service' = "up"
      /\ Collected(Service)
      /\ HelperUntouched
      /\ UNCHANGED <<ask, active, slot, pc, crashes, operatorCalls>>

(* Acquire: refused while blocked, else wait for the slot. *)
Arrive(r) ==
  /\ service = "up" /\ pc[r] = "idle"
  /\ Goto(r, IF blocked THEN "unavailable" ELSE "waiting")
  /\ UNCHANGED <<helperVars, managerVars, crashes, operatorCalls>>

Cancel(r) ==
  /\ pc[r] = "waiting"
  /\ Goto(r, "cancelled")
  /\ UNCHANGED <<helperVars, managerVars, crashes, operatorCalls>>

(* The slot is obtained and the manager asked again. *)
TakeSlot(r) ==
  /\ pc[r] = "waiting" /\ slot = Free
  /\ IF blocked
       THEN /\ Goto(r, "unavailable")
            /\ UNCHANGED <<slot, ask, word>>
       ELSE /\ Goto(r, "entering")
            /\ slot' = r
            /\ Call(Service, "enter")
  /\ HelperUntouched
  /\ UNCHANGED <<faults, service, blocked, active, crashes, operatorCalls>>

(* Mutant: the slot is not given back after a failed acquisition. *)
EnterReturnsKeepingSlot(r) ==
  /\ pc[r] = "entering" /\ Answered(Service)
  /\ \/ /\ Timely({"entered"})
        /\ active' = TRUE
        /\ Goto(r, "working")
        /\ UNCHANGED <<blocked, slot>>
     \/ /\ Untimely({"entered"})
        /\ Goto(r, "unavailable")
        /\ UNCHANGED <<active, blocked, slot>>
  /\ Collected(Service)
  /\ HelperUntouched /\ UNCHANGED <<ask, service, crashes, operatorCalls>>

EnterReturns(r) ==
  /\ pc[r] = "entering" /\ Answered(Service)
  /\ \/ /\ Timely({"entered"})
        /\ active' = TRUE
        /\ Goto(r, "working")
        /\ UNCHANGED <<blocked, slot>>
     \/ /\ Untimely({"entered"})
        /\ blocked' = TRUE
        /\ slot' = Free
        /\ Goto(r, "unavailable")
        /\ UNCHANGED active
  /\ Collected(Service)
  /\ HelperUntouched /\ UNCHANGED <<ask, service, crashes, operatorCalls>>

(* The work returns, fails, is cancelled or panics: Restore is deferred. *)
WorkEnds(r) ==
  /\ pc[r] = "working"
  /\ Goto(r, "restoring")
  /\ Call(Service, "restore")
  /\ HelperUntouched /\ UNCHANGED <<faults, managerVars, crashes, operatorCalls>>

(* Mutant: a failed restoration releases the manager as if it had worked. *)
RestoreReturnsUnblocked(r) ==
  /\ pc[r] = "restoring" /\ Answered(Service)
  /\ \/ Timely({"restored"}) /\ Goto(r, "done")
     \/ Untimely({"restored"}) /\ Goto(r, "restore_failed")
  /\ active' = FALSE
  /\ slot' = Free
  /\ Collected(Service)
  /\ HelperUntouched /\ UNCHANGED <<ask, blocked, service, crashes, operatorCalls>>

RestoreReturns(r) ==
  /\ pc[r] = "restoring" /\ Answered(Service)
  /\ \/ Timely({"restored"}) /\ Goto(r, "done") /\ UNCHANGED blocked
     \/ Untimely({"restored"}) /\ Goto(r, "restore_failed") /\ blocked' = TRUE
  /\ active' = FALSE
  /\ slot' = Free
  /\ Collected(Service)
  /\ HelperUntouched /\ UNCHANGED <<ask, service, crashes, operatorCalls>>

(* The service dies with its requests and its helper. *)
Crash ==
  /\ service # "down" /\ crashes < MaxCrashes
  /\ crashes' = crashes + 1
  /\ service' = "down"
  /\ slot' = Free
  /\ pc' = [r \in Requests |-> IF pc[r] \in Ended \cup {"idle"} THEN pc[r] ELSE "gone"]
  /\ word' = [word EXCEPT ![Service] = "none"]
  /\ step' = IF step # "free" /\ holder = Service THEN "free" ELSE step
  /\ UNCHANGED <<cpu, original, lease, holder, snapshot, pos, writeError, ask, faults,
                 blocked, active, operatorCalls>>

(* POWER_LEASE.md: recover while the service is stopped, status any time. *)
OperatorCall ==
  /\ word[Operator] = "none" /\ operatorCalls < MaxOperatorCalls
  /\ operatorCalls' = operatorCalls + 1
  /\ \/ Call(Operator, "status")
     \/ service = "down" /\ Call(Operator, "recover")
  /\ HelperUntouched /\ UNCHANGED <<faults, managerVars, pc, crashes>>

OperatorReads ==
  /\ Answered(Operator)
  /\ Collected(Operator)
  /\ HelperUntouched /\ UNCHANGED <<ask, faults, managerVars, pc, crashes, operatorCalls>>

Init ==
  /\ HelperInit
  /\ service = "down"
  /\ blocked = FALSE /\ active = FALSE
  /\ slot = Free
  /\ pc = [r \in Requests |-> "idle"]
  /\ crashes = 0 /\ operatorCalls = 0

Helper ==
  /\ (\E c \in Callers : HLock(c)) \/ HelperStep
  /\ UNCHANGED <<managerVars, pc, crashes, operatorCalls>>

Disturbance ==
  /\ HKilled \/ Tune
  /\ UNCHANGED <<managerVars, pc, crashes, operatorCalls>>

Lease(r) == TakeSlot(r) \/ EnterReturns(r) \/ WorkEnds(r) \/ RestoreReturns(r)

Next ==
  \/ Boot \/ RecoverReturns
  \/ \E r \in Requests : Arrive(r) \/ Cancel(r) \/ Lease(r)
  \/ Helper \/ Disturbance
  \/ Crash \/ OperatorCall \/ OperatorReads

(* The helper runs to its end, the service collects its word, and every    *)
(* inference ends; requests wait for the slot in a queue.                  *)
Fairness ==
  /\ WF_leaseVars(Helper)
  /\ WF_leaseVars(RecoverReturns)
  /\ \A r \in Requests : SF_leaseVars(Lease(r))

Spec == Init /\ [][Next]_leaseVars

FairSpec == Spec /\ Fairness
--------------------------------------------------------------------------------
TypeOK ==
  /\ HelperTypeOK
  /\ service \in {"down", "recovering", "up"}
  /\ blocked \in BOOLEAN /\ active \in BOOLEAN
  /\ slot \in Requests \cup {Free}
  /\ pc \in [Requests -> RequestSteps]
  /\ crashes \in 0 .. MaxCrashes
  /\ operatorCalls \in 0 .. MaxOperatorCalls

(* Protected inference only ever runs with every CPU policy at low power,  *)
(* the settings to go back to on file, alone, and never behind a failed    *)
(* acquisition or restoration.                                             *)
InferenceAtLowPower ==
  \A r \in Requests : pc[r] = "working" =>
    /\ cpu = LowPower /\ lease = original
    /\ slot = r /\ active /\ ~blocked

(* The manager's memory and the lease file agree: when it would let a      *)
(* request in, no lease is outstanding and the CPU has its own settings.   *)
OpenMeansRestored ==
  (service = "up" /\ slot = Free /\ ~blocked) => (lease = NoLease /\ cpu = original)

(* The request that owns the slot is the only one past the wait, and what  *)
(* it asked of the helper follows from where it is.                        *)
Busy == {"entering", "working", "restoring"}

OwnerInv ==
  /\ \A r \in Requests :
       /\ pc[r] \in Busy => slot = r /\ service = "up" /\ ~blocked
       /\ pc[r] = "waiting" => service = "up"
       /\ pc[r] = "entering" => ask[Service] = "enter" /\ word[Service] # "none"
       /\ pc[r] = "working" => word[Service] = "none" /\ active
       /\ pc[r] = "restoring" => ask[Service] = "restore" /\ word[Service] # "none"
  /\ service = "recovering" => slot = Free /\ ask[Service] = "recover"
  /\ service = "down" => slot = Free /\ word[Service] = "none"
  /\ (service = "up" /\ slot = Free) => word[Service] = "none"
  /\ slot # Free => pc[slot] \in Busy

(* While the service is up the operator only asks for the status. *)
OperatorInv ==
  /\ ask[Operator] \in {"status", "recover"}
  /\ (service # "down" /\ word[Operator] \in {"called", "running"}) =>
       ask[Operator] = "status"

(* What the service was told is still true when it acts on it. *)
WordInv ==
  /\ word[Service] = "entered" => cpu = LowPower /\ lease # NoLease
  /\ word[Service] \in {"restored", "recovered", "no_active_lease"} => lease = NoLease
  /\ \A r \in Requests : pc[r] = "working" => cpu = LowPower /\ lease # NoLease

LeaseInv ==
  /\ OriginalsKept /\ SnapshotInv /\ LockInv
  /\ OwnerInv /\ OperatorInv /\ WordInv
  /\ OpenMeansRestored

(* "restores the exact snapshot after inference" (POWER_LEASE.md): with    *)
(* healthy hardware and no death of the service, an inference that ended   *)
(* has given its lease back.                                               *)
RestoredAfterInference ==
  (faults = 0 /\ crashes = 0) => \A r \in Requests : pc[r] # "restore_failed"

(* Whoever waits for a lease gets an answer, whatever the helper does. *)
EveryRequestAnswered == \A r \in Requests : (pc[r] = "waiting") ~> (pc[r] \in Ended)

(* A lease is given back, unless the manager refuses further inference or  *)
(* the service is down: it is never left behind silently.                  *)
NoSilentLease ==
  (lease # NoLease) ~> (lease = NoLease \/ blocked \/ service = "down")
================================================================================
