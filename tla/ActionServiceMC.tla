----------------------------- MODULE ActionServiceMC -----------------------------
(***************************************************************************)
(* Bounded instances of ActionService for TLC.                             *)
(***************************************************************************)
EXTENDS ActionService, TLC

CONSTANTS a1, a2, r1, r2, r3, r4, app1, app2, h1

Ask(op, id, acknowledge, kind) ==
  [op |-> op, id |-> id, acknowledge |-> acknowledge, kind |-> kind,
   target |-> app1, history |-> h1]

(* Operator requests about one action, mostly a restart, a suggestion of    *)
(* it, and a rollback in its place, its warning acknowledged or not.        *)
RestartCalls ==
  {Ask(op, a1, FALSE, "restart_application") :
     op \in {"create", "confirm", "cancel", "execute", "suggest"}}
  \cup {Ask("create", a1, FALSE, "rollback_deployment"),
        Ask("confirm", a1, TRUE, "restart_application")}

(* Concurrent executions of one restart, and nothing else. *)
ExecuteCalls ==
  {Ask(op, a1, FALSE, "restart_application") : op \in {"create", "execute"}}

(* Retried suggestions of one History request, for two targets. *)
SuggestionCalls ==
  {[Ask("suggest", id, FALSE, "restart_application") EXCEPT !.target = app] :
     id \in {a1, a2}, app \in {app1, app2}}
    \cup {Ask(op, a1, FALSE, "restart_application") : op \in {"get", "confirm", "execute"}}

RequestSymmetry == Permutations(Requests)
================================================================================
