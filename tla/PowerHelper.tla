------------------------------- MODULE PowerHelper -------------------------------
(***************************************************************************)
(* The root CPU power helper, internal/powerleasehelper/helper.go: a short *)
(* process that saves the settings of every CPU policy in a lease file,    *)
(* writes the low-power settings, and later writes the saved ones back.    *)
(*                                                                         *)
(* Helper processes exclude each other with a lock they never wait for, so *)
(* at most one is past HLock; the variables named after it are its locals. *)
(* Each sysfs write is a step of its own, because the process may die or a *)
(* write may fail between any two.                                         *)
(***************************************************************************)
EXTENDS Naturals

CONSTANTS N,            \* number of CPU policies
          Levels, Low,  \* the settings of a control; Low is the power-saving one
          Tunings,      \* the settings others put in force
          NoLease,      \* there is no lease file
          Callers,      \* who starts helper processes
          MaxFaults     \* bound: operations that fail

ASSUME PoliciesAssumption == N \in Nat \ {0}
ASSUME LevelsAssumption == Low \in Levels
ASSUME MaxFaultsAssumption == MaxFaults \in Nat

Policies == 1 .. N
Settings == [Policies -> [epp : Levels, freq : Levels]]
LowPower == [p \in Policies |-> [epp |-> Low, freq |-> Low]]

ASSUME TuningsAssumption == Tunings \subseteq Settings
ASSUME NoLeaseAssumption == NoLease \notin Settings

VARIABLES cpu,        \* the settings in force
          original,   \* the settings in force when no lease was held
          lease,      \* the lease file
          step,       \* where the lock holder is; "free" when there is none
          holder,     \* the caller of the lock holder
          snapshot,   \* the policies the lock holder works with
          pos,        \* the policy it writes next
          writeError, \* a restoring write has failed
          ask,        \* the operation each caller last asked for
          word,       \* the result word each caller sees
          faults

localVars == <<step, holder, snapshot, pos, writeError>>
helperVars == <<cpu, original, lease, localVars, ask, word, faults>>

HelperOps == {"enter", "restore", "recover", "status"}
Words == {"none", "called", "running", "failed", "entered", "restored", "recovered",
          "no_active_lease", "active_lease"}
Steps == {"free", "load", "persist", "apply_epp", "apply_freq", "verify_low",
          "restore_freq", "restore_epp", "verify_restored", "remove"}

Fault == faults < MaxFaults /\ faults' = faults + 1
NoFault == UNCHANGED faults

(* A caller starts a helper process and waits for its result word. *)
Call(c, op) ==
  /\ ask' = [ask EXCEPT ![c] = op]
  /\ word' = [word EXCEPT ![c] = "called"]

(* The lock is taken without waiting: a second helper fails at once. *)
HLock(c) ==
  /\ word[c] = "called"
  /\ \/ /\ step = "free"
        /\ step' = "load"
        /\ holder' = c
        /\ word' = [word EXCEPT ![c] = "running"]
     \/ /\ step # "free"
        /\ word' = [word EXCEPT ![c] = "failed"]
        /\ UNCHANGED <<step, holder>>
  /\ UNCHANGED <<cpu, original, lease, snapshot, pos, writeError, ask, faults>>

(* The process ends, releases the lock and prints its word. *)
Exit(result) ==
  /\ step' = "free"
  /\ word' = [word EXCEPT ![holder] = result]
  /\ UNCHANGED <<holder, snapshot, pos, writeError>>

StartRestoring(policies) ==
  /\ step' = "restore_freq"
  /\ snapshot' = policies
  /\ pos' = 1
  /\ writeError' = FALSE
  /\ UNCHANGED <<holder, word>>

HLoad ==
  /\ step = "load"
  /\ \/ /\ ask[holder] = "status"
        /\ Exit(IF lease = NoLease THEN "no_active_lease" ELSE "active_lease")
        /\ NoFault
     \/ /\ ask[holder] = "enter" /\ lease # NoLease
        /\ Exit("failed")
        /\ NoFault
     \/ /\ ask[holder] = "enter" /\ lease = NoLease
        /\ snapshot' = cpu
        /\ step' = "persist"
        /\ NoFault /\ UNCHANGED <<holder, pos, writeError, word>>
     \/ /\ ask[holder] \in {"restore", "recover"} /\ lease = NoLease
        /\ Exit("no_active_lease")
        /\ NoFault
     \/ /\ ask[holder] \in {"restore", "recover"} /\ lease # NoLease
        /\ StartRestoring(lease)
        /\ NoFault
     \/ /\ Fault /\ Exit("failed")
  /\ UNCHANGED <<cpu, original, lease, ask>>

(* persistState: an error after the link leaves the lease published. *)
HPersist ==
  /\ step = "persist"
  /\ \/ /\ lease' = snapshot
        /\ step' = "apply_epp"
        /\ pos' = 1
        /\ NoFault /\ UNCHANGED <<holder, snapshot, writeError, word>>
     \/ /\ lease' \in {lease, snapshot}
        /\ Fault /\ Exit("failed")
  /\ UNCHANGED <<cpu, original, ask>>

(* A successful write takes effect; a faulty one may also report success. *)
Written(control, value) ==
  \/ cpu' = [cpu EXCEPT ![pos][control] = value] /\ NoFault
  \/ UNCHANGED cpu /\ Fault

NextPolicy(again, finished) ==
  IF pos < N THEN step' = again /\ pos' = pos + 1
             ELSE step' = finished /\ UNCHANGED pos

(* applyLowPower: the preference, then the frequency, policy by policy; a  *)
(* write error rolls everything back.                                      *)
HApplyEPP ==
  /\ step = "apply_epp"
  /\ Written("epp", Low)
  /\ step' = "apply_freq"
  /\ UNCHANGED <<original, lease, holder, snapshot, pos, writeError, ask, word>>

HApplyFreq ==
  /\ step = "apply_freq"
  /\ Written("freq", Low)
  /\ NextPolicy("apply_epp", "verify_low")
  /\ UNCHANGED <<original, lease, holder, snapshot, writeError, ask, word>>

HApplyFails ==
  /\ step \in {"apply_epp", "apply_freq"}
  /\ Fault /\ StartRestoring(snapshot)
  /\ UNCHANGED <<cpu, original, lease, ask>>

(* Mutant: the written settings are not read back. *)
HVerifyLowUnread ==
  /\ step = "verify_low"
  /\ NoFault /\ Exit("entered")
  /\ UNCHANGED <<cpu, original, lease, ask>>

(* Verification polls until the settings are the expected ones, and may    *)
(* fail although they are: the read fails, or sysfs shows them too late.   *)
HVerifyLow ==
  /\ step = "verify_low"
  /\ \/ cpu = LowPower /\ NoFault /\ Exit("entered")
     \/ cpu # LowPower /\ NoFault /\ StartRestoring(snapshot)
     \/ cpu = LowPower /\ Fault /\ StartRestoring(snapshot)
  /\ UNCHANGED <<cpu, original, lease, ask>>

(* restoreSnapshot: every write is attempted, errors are remembered. *)
Rewritten(control) ==
  \/ Written(control, snapshot[pos][control]) /\ UNCHANGED writeError
  \/ Fault /\ UNCHANGED cpu /\ writeError' = TRUE

HRestoreFreq ==
  /\ step = "restore_freq"
  /\ Rewritten("freq")
  /\ step' = "restore_epp"
  /\ UNCHANGED <<original, lease, holder, snapshot, pos, ask, word>>

HRestoreEPP ==
  /\ step = "restore_epp"
  /\ Rewritten("epp")
  /\ NextPolicy("restore_freq", "verify_restored")
  /\ UNCHANGED <<original, lease, holder, snapshot, ask, word>>

(* Mutant: write errors are collected, the settings are not read back. *)
HVerifyRestoredUnread ==
  /\ step = "verify_restored"
  /\ IF writeError THEN Exit("failed")
     ELSE step' = "remove" /\ UNCHANGED <<holder, snapshot, pos, writeError, word>>
  /\ UNCHANGED <<cpu, original, lease, ask, faults>>

HVerifyRestored ==
  /\ step = "verify_restored"
  /\ \/ /\ cpu = snapshot /\ ~writeError
        /\ step' = "remove"
        /\ NoFault /\ UNCHANGED <<holder, snapshot, pos, writeError, word>>
     \/ /\ cpu # snapshot \/ writeError
        /\ NoFault /\ Exit("failed")
     \/ /\ Fault /\ Exit("failed")
  /\ UNCHANGED <<cpu, original, lease, ask>>

(* A failed directory sync reports an error although the file is gone.  A  *)
(* rolled-back enter fails in any case.                                    *)
HRemove ==
  /\ step = "remove"
  /\ \/ /\ lease' = NoLease
        /\ NoFault
        /\ Exit(CASE ask[holder] = "restore" -> "restored"
                  [] ask[holder] = "recover" -> "recovered"
                  [] OTHER -> "failed")
     \/ /\ lease' \in {lease, NoLease}
        /\ Fault /\ Exit("failed")
  /\ UNCHANGED <<cpu, original, ask>>

(* The process is killed between two steps; the kernel drops its lock. *)
HKilled ==
  /\ step # "free"
  /\ Fault /\ Exit("failed")
  /\ UNCHANGED <<cpu, original, lease, ask>>

HelperStep ==
  \/ HLoad \/ HPersist \/ HApplyEPP \/ HApplyFreq \/ HApplyFails \/ HVerifyLow
  \/ HRestoreFreq \/ HRestoreEPP \/ HVerifyRestored \/ HRemove

(* Whoever else tunes the CPU does so only while no lease is held and none *)
(* is being taken.                                                         *)
Tune ==
  /\ lease = NoLease /\ step \in {"free", "load"}
  /\ \E settings \in Tunings : cpu' = settings /\ original' = settings
  /\ UNCHANGED <<lease, localVars, ask, word, faults>>

HelperInit ==
  /\ cpu \in Tunings
  /\ original = cpu
  /\ lease = NoLease
  /\ step = "free"
  /\ holder \in Callers
  /\ snapshot = LowPower
  /\ pos = 1
  /\ writeError = FALSE
  /\ ask = [c \in Callers |-> "status"]
  /\ word = [c \in Callers |-> "none"]
  /\ faults = 0

HelperTypeOK ==
  /\ cpu \in Settings /\ original \in Settings
  /\ lease \in Settings \cup {NoLease}
  /\ step \in Steps
  /\ holder \in Callers
  /\ snapshot \in Settings
  /\ pos \in Policies
  /\ writeError \in BOOLEAN
  /\ ask \in [Callers -> HelperOps]
  /\ word \in [Callers -> Words]
  /\ faults \in 0 .. MaxFaults

(* What the lock holder works with: the original settings, on file before  *)
(* the first write and until they are back in force.                       *)
Entering == {"persist", "apply_epp", "apply_freq", "verify_low"}
Restoring == {"restore_freq", "restore_epp", "verify_restored", "remove"}

SnapshotInv ==
  /\ step \in Entering \cup Restoring => snapshot = original
  /\ step = "persist" => lease = NoLease
  /\ step \in (Entering \cup Restoring) \ {"persist"} => lease # NoLease
  /\ step = "remove" => cpu = original

(* The lock: its holder is the one caller whose helper is running. *)
LockInv ==
  /\ \A c \in Callers : word[c] = "running" <=> (step # "free" /\ holder = c)
  /\ step \in Entering => ask[holder] = "enter"
  /\ step \in Restoring => ask[holder] # "status"

(* Wherever helpers fail or die, the original settings are never lost:     *)
(* they are in force, or the lease file holds them exactly.                *)
OriginalsKept ==
  IF lease = NoLease THEN cpu = original ELSE lease = original
================================================================================
