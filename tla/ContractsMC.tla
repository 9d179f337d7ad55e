------------------------------- MODULE ContractsMC -------------------------------
(* Four parts that stand alone, each on its own instance: the validation of *)
(* an audit log, the packet of an investigation and what the model makes of *)
(* it, the repository index, the diagnosis.  A behaviour is one of a part.  *)
EXTENDS ActionAudit, Reasoner, RepositoryIndex, Diagnostics, TLC

CONSTANTS routes, server, left, right

VARIABLE part

vars == <<part, auditVars, reasonerVars, indexVars, diagnosticVars>>

MCFiles == {routes, server}
MCLookups == {left, right}
Symmetry == Permutations(MCLookups)

(* A pull moves a function to another file and adds a route where it was;   *)
(* that file has defined another name twice.                               *)
MCNames(kind, file, n) ==
  CASE kind = "symbol" -> (IF <<file, n>> \in {<<routes, 1>>, <<server, 2>>} THEN {"load"} ELSE {})
                          \cup (IF file = server THEN {"users"} ELSE {})
    [] kind = "again" -> IF <<file, n>> = <<server, 1>> THEN {"users"} ELSE {}
    [] kind = "route" -> IF file = routes /\ n = 2 THEN {"users"} ELSE {}
    [] kind = "mount" -> IF file = server THEN {routes} ELSE {}

MCQuestions ==
  {[words |-> {"symbol"}, terms |-> {"load"}, named |-> {}],
   [words |-> {"symbol", "route"}, terms |-> {"load", "users"}, named |-> {routes}]}
--------------------------------------------------------------------------------
Thing(id, criticality, kind, type, fields, timed, source) ==
  [id |-> id, criticality |-> criticality, kind |-> kind, type |-> type, requirement |-> type,
   fields |-> fields, timed |-> timed, source |-> source]

DeploymentsItem == Thing(1, "critical", "observed", "deployment_timeline",
                     {"commit_sha", "requested_range", "branch"}, TRUE, "deployments")
Stable ==
  {DeploymentsItem,
   Thing(2, "critical", "observed", "current_application", {"status"}, TRUE, "apps")}

Varying ==
  {Thing(3, "critical", "observed", "current_application", {"status", "database_coverage_complete"},
         FALSE, "overview"),
   Thing(4, "critical", "observed", "current_deployment", {"status", "image_id", "activated_at", "state"},
         FALSE, "apps"),
   Thing(5, "relevant", "observed", "infrastructure_events", {"event_time", "reducer_omitted"}, TRUE, "events"),
   Thing(6, "relevant", "derived", "deployment_timeline", {"distance"}, FALSE, "events"),
   Thing(7, "relevant", "observed", "runtime_failures",
         {"failures", "truncated", "requested_range", "lines"}, TRUE, "logs"),
   Thing(8, "relevant", "derived", "runtime_failures", {"patterns"}, TRUE, "logs"),
   Thing(9, "relevant", "observed", "service_history", {"coverage_from", "states"}, TRUE, "services"),
   Thing(10, "supporting", "observed", "host_history", {"requested_range", "load"}, TRUE, "host"),
   Thing(11, "supporting", "derived", "host_history", {"peak"}, FALSE, "host"),
   Thing(12, "supporting", "observed", "infrastructure_events", {"outage_start"}, TRUE, "events")}

Steps ==
  {[output |-> 6, inputs |-> {1, 5}, operation |-> "temporal_alignment"],
   [output |-> 8, inputs |-> {7}, operation |-> "deterministic_reduction"],
   [output |-> 11, inputs |-> {10}, operation |-> "deterministic_reduction"]}

Graph(things, route, limited) ==
  [route |-> route, items |-> things, derivations |-> {d \in Steps : d.output \in Ids(things)},
   conflicts |-> IF 3 \in Ids(things) THEN {{2, 3}} ELSE {}, limited |-> limited]

Closed(things) == \A d \in Steps : d.output \in Ids(things) => d.inputs \subseteq Ids(things)

MCInputs ==
  {Graph(Stable \cup extra, route, limited) :
     extra \in {S \in SUBSET Varying : Closed(Stable \cup S)},
     route \in {"deployment_correlation", "thermal"},
     limited \in {{}, {"runtime_failures", "infrastructure_events"}}}

(* Drafts: each reference there is, in the conclusion and in a fact, then   *)
(* one of everything that can be wrong with a draft or said in one.        *)
Sound == [keys |-> RequiredKeys, repeated |-> {}, facts |-> <<>>, uncertainty |-> <<>>]
Stated(cites, says) == [cites |-> cites, says |-> says]
Draft(conclusion) == [conclusion |-> conclusion] @@ Sound

MCDrafts(e, refs) ==
  LET known == Item(1)
      simple == Draft(Stated(<<known>>, "plain"))
      fact == Stated(<<known>>, "plain")
  IN {Draft(Stated(<<r>>, "plain")) : r \in refs}
       \cup {[simple EXCEPT !.facts = <<Stated(<<known, r>>, "plain")>>] : r \in refs}
       \cup {Draft(Stated(<<known>>, says)) : says \in CausalClaims \cup {"hedged_claim", "confidence"}}
       \cup {[simple EXCEPT !.uncertainty = <<Stated(<<known>>, "deployment_caused_it")>>],
             Draft(Stated(<<>>, "plain")), [simple EXCEPT !.facts = <<fact, fact, fact, fact>>],
             [simple EXCEPT !.keys = @ \ {"facts"}],
             [simple EXCEPT !.keys = @ \cup {"action_suggestion"}],
             [simple EXCEPT !.keys = @ \cup {"action_suggestion"}, !.repeated = {"action_suggestion"}]}
--------------------------------------------------------------------------------
(* Diagnoses: questions of every kind, applications in every state, a host  *)
(* service that contradicts itself, logs inside, across and before a window. *)
MCMessages ==
  {{"why"}, {"why", "premise"}, {"why", "code"}, {"why", "deployment"}, {"verify"},
   {"verify", "window"}, {"verify", "premise"}, {"verify", "deployment", "window"}, {"change", "timing"},
   {"change", "causality"}, {"change", "metadata"}, {"change", "verify"}, {"metadata"}}

Platform == {"system", "activity"}
Well == [deployed |-> TRUE, status |-> "healthy", services |-> {[state |-> "running", health |-> "healthy"]},
         active |-> TRUE, database |-> "ready", troubled |-> FALSE, ok |-> Platform, deployedAt |-> 0,
         mismatch |-> "same"]
MCDeployments ==
  {Well, [Well EXCEPT !.deployedAt = 5], [Well EXCEPT !.mismatch = "differs"], [Well EXCEPT !.troubled = TRUE],
   [Well EXCEPT !.ok = {"system"}], [Well EXCEPT !.status = "starting"],
   [Well EXCEPT !.services = {[state |-> "stopped", health |-> "healthy"]}],
   [Well EXCEPT !.status = "unhealthy", !.services = {[state |-> "running", health |-> "unhealthy"]}],
   [Well EXCEPT !.deployed = FALSE, !.status = "running"],
   [Well EXCEPT !.deployed = FALSE, !.status = "running", !.active = FALSE]}

Line(time, says) == [at |-> time, says |-> says]
MCLogs ==
  {<<>>, <<Line(0, "fine")>>, <<Line(6, "fine"), Line(7, "fine")>>, <<Line(3, "fine"), Line(6, "fine")>>,
   <<Line(3, "error"), Line(6, "fine")>>, <<Line(3, "fine"), Line(6, "root_cause"), Line(7, "warning")>>,
   <<Line(3, "error"), Line(6, "fine"), Line(7, "fine"), Line(8, "fine")>>,
   <<Line(6, "code_error"), Line(7, "code_error"), Line(8, "config_error")>>, <<Line(6, "config_error")>>,
   <<Line(5, "error"), Line(5, "fine"), Line(6, "fine"), Line(7, "fine")>>, <<Line(4, "stop")>>}
--------------------------------------------------------------------------------
Init ==
  /\ part \in {"audit", "packet", "index", "diagnosis"}
  /\ AuditInit /\ (part # "audit" => initial = "authorized" /\ current = "authorized")
  /\ ReasonerInit
  /\ IndexInit /\ (part # "index" => asked = [l \in Lookups |-> CHOOSE q \in Questions : TRUE])
  /\ DiagnosticsInit /\ (part # "diagnosis" => message = {"why"})

Next ==
  \/ part = "audit" /\ AppendEvent /\ UNCHANGED <<part, reasonerVars, indexVars, diagnosticVars>>
  \/ part = "packet" /\ ReasonerNext /\ UNCHANGED <<part, auditVars, indexVars, diagnosticVars>>
  \/ part = "index" /\ IndexNext /\ UNCHANGED <<part, auditVars, reasonerVars, diagnosticVars>>
  \/ part = "diagnosis" /\ DiagnosticsNext /\ UNCHANGED <<part, auditVars, reasonerVars, indexVars>>

Spec == Init /\ [][Next]_vars
================================================================================
