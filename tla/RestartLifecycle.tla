---------------------------- MODULE RestartLifecycle ----------------------------
(***************************************************************************)
(* What the action subsystem promises for each action, with no requests,   *)
(* no database and no network: an action is decided once, begun at most    *)
(* once, has its effect on the application only while it is executing and  *)
(* at most once, and ends only in the state its effect warrants.  An       *)
(* action whose outcome is unknown stays executing.                        *)
(***************************************************************************)
EXTENDS Naturals

CONSTANT ActionIDs

VARIABLES status,   \* lifecycle state of each action
          effects   \* restarts performed for each action

lifecycleVars == <<status, effects>>

Init ==
  /\ status \in [ActionIDs -> {"absent", "awaiting_confirmation", "authorized"}]
  /\ effects = [id \in ActionIDs |-> 0]

Move(id, from, to) ==
  /\ status[id] = from
  /\ status' = [status EXCEPT ![id] = to]
  /\ UNCHANGED effects

Propose(id) ==
  Move(id, "absent", "awaiting_confirmation") \/ Move(id, "absent", "authorized")
Confirm(id) == Move(id, "awaiting_confirmation", "authorized")
Cancel(id) == Move(id, "awaiting_confirmation", "cancelled")
Begin(id) == Move(id, "authorized", "executing")

TakeEffect(id) ==
  /\ status[id] = "executing"
  /\ effects[id] = 0
  /\ effects' = [effects EXCEPT ![id] = 1]
  /\ UNCHANGED status

Succeed(id) == effects[id] = 1 /\ Move(id, "executing", "succeeded")
Fail(id) == effects[id] = 0 /\ Move(id, "executing", "failed")

Next ==
  \E id \in ActionIDs :
    \/ Propose(id) \/ Confirm(id) \/ Cancel(id) \/ Begin(id)
    \/ TakeEffect(id) \/ Succeed(id) \/ Fail(id)

Spec == Init /\ [][Next]_lifecycleVars
================================================================================
