--------------------------- MODULE InvestigationProofs ----------------------------
(***************************************************************************)
(* Proofs about Investigation, for any questions, and finitely many        *)
(* applications and databases, whatever fails: every plan is affordable,   *)
(* an answer reports the reads that ran, they are about the subject of the *)
(* question, the confidence rests on what was read, and the investigation  *)
(* implements EvidenceRounds.                                              *)
(***************************************************************************)
EXTENDS Investigation, FiniteSetTheorems, WellFoundedInduction, TLAPS

LEMMA ImageFinite ==
  ASSUME NEW S, IsFiniteSet(S), NEW f
  PROVE  IsFiniteSet({f[x] : x \in S}) /\ Cardinality({f[x] : x \in S}) <= Cardinality(S)
<1> DEFINE T == {f[x] : x \in S}
           g == [x \in S |-> f[x]]
<1>1. g \in Surjection(S, T)
  BY DEF Surjection
<1> HIDE DEF T, g
<1>2. IsFiniteSet(T) /\ Cardinality(T) <= Cardinality(S)
  BY <1>1, FS_Surjection
<1> QED
  BY <1>2 DEF T
--------------------------------------------------------------------------------
(* The cost of a plan is a fold over its requests; unfolded, and for the few *)
(* requests a plan may have, it is their number and what the two dearer     *)
(* capabilities add.                                                       *)
CostStep(S, cost) ==
  [s \in SUBSET S |->
     IF s = {} THEN 0
     ELSE CostUnits((CHOOSE x \in s : TRUE).read.cap) + cost[s \ {CHOOSE x \in s : TRUE}]]

LEMMA PlanCostUnfolds ==
  ASSUME NEW S
  PROVE  PlanCost(S) = (CHOOSE cost : cost = CostStep(S, cost))[S]
BY DEF PlanCost, MapThenSumSet, MapThenFoldSet, CostStep

(* The step settles the cost of one more request each time it is applied, *)
(* so that a set of five has a cost: no induction is needed.               *)
Agree(S, g, h, n) == \A s \in SUBSET S : Cardinality(s) <= n => g[s] = h[s]

LEMMA StepAgrees ==
  ASSUME NEW S, IsFiniteSet(S), NEW g, NEW h, NEW n \in Nat, Agree(S, g, h, n)
  PROVE  Agree(S, CostStep(S, g), CostStep(S, h), n + 1)
<1> SUFFICES ASSUME NEW s \in SUBSET S, Cardinality(s) <= n + 1, s # {}
             PROVE  g[s \ {CHOOSE x \in s : TRUE}] = h[s \ {CHOOSE x \in s : TRUE}]
  BY DEF Agree, CostStep
<1> DEFINE e == CHOOSE x \in s : TRUE
<1>1. e \in s
  OBVIOUS
<1> HIDE DEF e
<1>2. IsFiniteSet(s)
  BY FS_Subset
<1>3. Cardinality(s \ {e}) = Cardinality(s) - 1 /\ Cardinality(s) \in Nat
  BY <1>1, <1>2, FS_RemoveElement, FS_CardinalityType
<1>4. Cardinality(s \ {e}) <= n
  BY <1>3
<1>5. s \ {e} \in SUBSET S
  OBVIOUS
<1>6. g[s \ {e}] = h[s \ {e}]
  BY <1>4, <1>5 DEF Agree
<1> QED
  BY <1>6 DEF e

LEMMA EmptyAgrees ==
  ASSUME NEW S, IsFiniteSet(S), NEW g, NEW h
  PROVE  Agree(S, CostStep(S, g), CostStep(S, h), 0)
<1>1. ASSUME NEW s \in SUBSET S, Cardinality(s) <= 0 PROVE s = {}
  <2>1. IsFiniteSet(s)
    BY FS_Subset
  <2> QED
    BY <1>1, <2>1, FS_EmptySet, FS_CardinalityType
<1> QED
  BY <1>1 DEF Agree, CostStep

LEMMA CostIsDefined ==
  ASSUME NEW S, IsFiniteSet(S), Cardinality(S) <= 5
  PROVE  \E cost : cost = CostStep(S, cost)
<1> DEFINE c0 == [s \in SUBSET S |-> 0]
           c1 == CostStep(S, c0)
           c2 == CostStep(S, c1)
           c3 == CostStep(S, c2)
           c4 == CostStep(S, c3)
           c5 == CostStep(S, c4)
           c6 == CostStep(S, c5)
           c7 == CostStep(S, c6)
<1>0. /\ c2 = CostStep(S, c1) /\ c3 = CostStep(S, c2) /\ c4 = CostStep(S, c3)
      /\ c5 = CostStep(S, c4) /\ c6 = CostStep(S, c5) /\ c7 = CostStep(S, c6)
  OBVIOUS
<1>1. Agree(S, c1, c2, 0)
  <2> HIDE DEF c0
  <2> QED BY EmptyAgrees
<1> HIDE DEF c0, c1, c2, c3, c4, c5, c6, c7
<1>2. Agree(S, c2, c3, 0 + 1)
  BY <1>0, <1>1, StepAgrees
<1>3. Agree(S, c3, c4, 1 + 1)
  BY <1>0, <1>2, StepAgrees
<1>4. Agree(S, c4, c5, 2 + 1)
  BY <1>0, <1>3, StepAgrees
<1>5. Agree(S, c5, c6, 3 + 1)
  BY <1>0, <1>4, StepAgrees
<1>6. Agree(S, c6, c7, 4 + 1)
  BY <1>0, <1>5, StepAgrees
<1>7. \A s \in SUBSET S : Cardinality(s) <= 5
  <2> TAKE s \in SUBSET S
  <2>1. Cardinality(s) <= Cardinality(S) /\ Cardinality(s) \in Nat /\ Cardinality(S) \in Nat
    BY FS_Subset, FS_CardinalityType
  <2> QED
    BY <2>1
<1>8. c6 = c7
  <2>1. \A s \in SUBSET S : c6[s] = c7[s]
    BY <1>6, <1>7 DEF Agree
  <2>2. c6 = [s \in SUBSET S |-> c6[s]] /\ c7 = [s \in SUBSET S |-> c7[s]]
    <3>1. \A c : CostStep(S, c) = [s \in SUBSET S |-> CostStep(S, c)[s]]
      BY DEF CostStep
    <3> QED
      BY <1>0, <3>1
  <2> QED
    BY <2>1, <2>2
<1> QED
  BY <1>0, <1>8

(* What the capabilities that cost more than a unit add to the number.     *)
Extra(s) == 6 * Cardinality({x \in s : x.read.cap = "get_app_context"})
              + Cardinality({x \in s : x.read.cap = "read_application_history"})
Priced(S, cost, n) == \A s \in SUBSET S : Cardinality(s) <= n => cost[s] = Cardinality(s) + Extra(s)

LEMMA ExtraOfOneMore ==
  ASSUME NEW s, IsFiniteSet(s), NEW e \in s
  PROVE  /\ Extra(s \ {e}) \in Nat
         /\ CostUnits(e.read.cap) + (Cardinality(s \ {e}) + Extra(s \ {e})) = Cardinality(s) + Extra(s)
<1> DEFINE H(t) == {x \in t : x.read.cap = "get_app_context"}
           D(t) == {x \in t : x.read.cap = "read_application_history"}
<1>1. /\ H(s \ {e}) = H(s) \ {e} /\ D(s \ {e}) = D(s) \ {e}
      /\ e \in H(s) <=> e.read.cap = "get_app_context"
      /\ e \in D(s) <=> e.read.cap = "read_application_history"
  OBVIOUS
<1>2. IsFiniteSet(H(s)) /\ IsFiniteSet(D(s))
  BY FS_Subset
<1>3. /\ Cardinality(s) \in Nat /\ Cardinality(H(s)) \in Nat /\ Cardinality(D(s)) \in Nat
      /\ Cardinality(s \ {e}) = Cardinality(s) - 1
  <2> HIDE DEF H, D
  <2> QED BY <1>2, FS_CardinalityType, FS_RemoveElement
<1>4. /\ Cardinality(H(s \ {e})) = IF e.read.cap = "get_app_context" THEN Cardinality(H(s)) - 1 ELSE Cardinality(H(s))
      /\ Cardinality(D(s \ {e})) = IF e.read.cap = "read_application_history" THEN Cardinality(D(s)) - 1 ELSE Cardinality(D(s))
  <2> HIDE DEF H, D
  <2> QED BY <1>1, <1>2, FS_RemoveElement
<1>5. /\ Extra(s) = 6 * Cardinality(H(s)) + Cardinality(D(s))
      /\ Extra(s \ {e}) = 6 * Cardinality(H(s \ {e})) + Cardinality(D(s \ {e}))
  BY DEF Extra
<1>6. Cardinality(H(s \ {e})) \in Nat /\ Cardinality(D(s \ {e})) \in Nat
  <2>1. IsFiniteSet(H(s \ {e})) /\ IsFiniteSet(D(s \ {e}))
    BY FS_Subset
  <2> HIDE DEF H, D
  <2> QED BY <2>1, FS_CardinalityType
<1> HIDE DEF H, D
<1> QED
  BY <1>3, <1>4, <1>5, <1>6 DEF CostUnits

LEMMA StepPrices ==
  ASSUME NEW S, IsFiniteSet(S), NEW cost, cost = CostStep(S, cost), NEW n \in Nat, Priced(S, cost, n)
  PROVE  Priced(S, cost, n + 1)
<1> SUFFICES ASSUME NEW s \in SUBSET S, Cardinality(s) <= n + 1
             PROVE  cost[s] = Cardinality(s) + Extra(s)
  BY DEF Priced
<1>1. CASE s = {}
  <2>1. cost[s] = 0
    BY <1>1 DEF CostStep
  <2>2. Cardinality(s) = 0 /\ Extra(s) = 0
    BY <1>1, FS_EmptySet DEF Extra
  <2> QED BY <2>1, <2>2
<1>2. CASE s # {}
  <2> DEFINE e == CHOOSE x \in s : TRUE
  <2>1. e \in s /\ IsFiniteSet(s)
    BY <1>2, FS_Subset
  <2>2. cost[s] = CostUnits(e.read.cap) + cost[s \ {e}]
    BY <1>2 DEF CostStep
  <2> HIDE DEF e
  <2>3. Cardinality(s \ {e}) = Cardinality(s) - 1 /\ Cardinality(s) \in Nat
    BY <2>1, FS_RemoveElement, FS_CardinalityType
  <2>4. s \ {e} \in SUBSET S /\ Cardinality(s \ {e}) <= n
    BY <2>3
  <2>5. cost[s \ {e}] = Cardinality(s \ {e}) + Extra(s \ {e})
    BY <2>4 DEF Priced
  <2> QED
    BY <2>1, <2>2, <2>5, ExtraOfOneMore
<1> QED
  BY <1>1, <1>2

LEMMA PlanCostIs ==
  ASSUME NEW S, IsFiniteSet(S), Cardinality(S) <= 5
  PROVE  PlanCost(S) = Cardinality(S) + Extra(S)
<1> DEFINE cost == CHOOSE c : c = CostStep(S, c)
<1>1. cost = CostStep(S, cost)
  BY CostIsDefined
<1>2. PlanCost(S) = cost[S]
  BY PlanCostUnfolds
<1> HIDE DEF cost
<1>3. Priced(S, cost, 0)
  <2> SUFFICES ASSUME NEW s \in SUBSET S, Cardinality(s) <= 0 PROVE cost[s] = Cardinality(s) + Extra(s)
    BY DEF Priced
  <2>1. IsFiniteSet(s)
    BY FS_Subset
  <2>2. s = {}
    BY <2>1, FS_EmptySet, FS_CardinalityType
  <2>3. cost[s] = 0
    BY <1>1, <2>2 DEF CostStep
  <2>4. Cardinality(s) = 0 /\ Extra(s) = 0
    BY <2>2, FS_EmptySet DEF Extra
  <2> QED BY <2>3, <2>4
<1>4. Priced(S, cost, 0 + 1)
  BY <1>1, <1>3, StepPrices
<1>5. Priced(S, cost, 1 + 1)
  BY <1>1, <1>4, StepPrices
<1>6. Priced(S, cost, 2 + 1)
  BY <1>1, <1>5, StepPrices
<1>7. Priced(S, cost, 3 + 1)
  BY <1>1, <1>6, StepPrices
<1>8. Priced(S, cost, 4 + 1)
  BY <1>1, <1>7, StepPrices
<1> QED
  BY <1>2, <1>8 DEF Priced
--------------------------------------------------------------------------------
(* A set of at most n elements.                                            *)
AtMost(S, n) == IsFiniteSet(S) /\ Cardinality(S) \in Nat /\ Cardinality(S) <= n

LEMMA OneMore == \A S, x : \A n \in Nat : AtMost(S, n) => AtMost(S \cup {x}, n + 1)
<1> TAKE S, x
<1> TAKE n \in Nat
<1> HAVE AtMost(S, n)
<1>1. IsFiniteSet(S \cup {x}) /\ Cardinality(S \cup {x}) = IF x \in S THEN Cardinality(S) ELSE Cardinality(S) + 1
  BY FS_AddElement DEF AtMost
<1> QED
  BY <1>1 DEF AtMost

LEMMA FewAreFew ==
  /\ AtMost({}, 0)
  /\ \A a : AtMost({a}, 1)
  /\ \A a, b : AtMost({a, b}, 2)
  /\ \A a, b, c : AtMost({a, b, c}, 3)
  /\ \A a, b, c, d : AtMost({a, b, c, d}, 4)
  /\ \A a, b, c, d, e : AtMost({a, b, c, d, e}, 5)
<1>0. AtMost({}, 0)
  BY FS_EmptySet DEF AtMost
<1>1. \A a : AtMost({a}, 1)
  <2> TAKE a
  <2>1. {a} = {} \cup {a}
    OBVIOUS
  <2>2. AtMost({} \cup {a}, 0 + 1)
    BY <1>0, OneMore
  <2> QED BY <2>1, <2>2
<1>2. \A a, b : AtMost({a, b}, 2)
  <2> TAKE a, b
  <2>1. {a, b} = {a} \cup {b}
    OBVIOUS
  <2>2. AtMost({a} \cup {b}, 1 + 1)
    BY <1>1, OneMore
  <2> QED BY <2>1, <2>2
<1>3. \A a, b, c : AtMost({a, b, c}, 3)
  <2> TAKE a, b, c
  <2>1. {a, b, c} = {a, b} \cup {c}
    OBVIOUS
  <2>2. AtMost({a, b} \cup {c}, 2 + 1)
    BY <1>2, OneMore
  <2> QED BY <2>1, <2>2
<1>4. \A a, b, c, d : AtMost({a, b, c, d}, 4)
  <2> TAKE a, b, c, d
  <2>1. {a, b, c, d} = {a, b, c} \cup {d}
    OBVIOUS
  <2>2. AtMost({a, b, c} \cup {d}, 3 + 1)
    BY <1>3, OneMore
  <2> QED BY <2>1, <2>2
<1>5. \A a, b, c, d, e : AtMost({a, b, c, d, e}, 5)
  <2> TAKE a, b, c, d, e
  <2>1. {a, b, c, d, e} = {a, b, c, d} \cup {e}
    OBVIOUS
  <2>2. AtMost({a, b, c, d} \cup {e}, 4 + 1)
    BY <1>4, OneMore
  <2> QED BY <2>1, <2>2
<1> QED
  BY <1>0, <1>1, <1>2, <1>3, <1>4, <1>5

LEMMA FiveAreFew ==
  ASSUME NEW S, NEW a, NEW b, NEW c, NEW d, NEW e, S = {a, b, c, d, e}
  PROVE  AtMost(S, 5)
BY FewAreFew

LEMMA AtMostMore ==
  \A S : AtMost(S, 0) \/ AtMost(S, 1) \/ AtMost(S, 2) \/ AtMost(S, 3) \/ AtMost(S, 4) => AtMost(S, 5)
BY DEF AtMost

(* What each type of evidence is about, and the types there are.            *)
KindOf(type) ==
  CASE type \in {"current_platform", "host_history", "thermal_history", "recovery_timeline",
                 "infrastructure_events", "activity_timeline", "service_history"} -> "host"
    [] type \in {"current_deployment", "current_application", "application_history",
                 "runtime_failures", "deployment_timeline"} -> "application"
    [] type \in {"current_database", "database_backups"} -> "database"
    [] type \in {"repository_search", "repository_content"} -> "repository"

EvidenceTypes ==
  {"current_platform", "host_history", "thermal_history", "recovery_timeline",
   "infrastructure_events", "activity_timeline", "service_history",
   "current_deployment", "current_application", "application_history",
   "runtime_failures", "deployment_timeline",
   "current_database", "database_backups", "repository_search", "repository_content"}

(* Every route asks for at most five types, each once and about its kind.  *)
WellFormed(profile) ==
  /\ AtMost(profile, 5)
  /\ \A t \in profile : t.type \in EvidenceTypes /\ t.kind = KindOf(t.type)
  /\ \A t1, t2 \in profile : t1.type = t2.type => t1 = t2

LEMMA ProfileWellFormed == \A route, f : WellFormed(Profile(route, f))
<1> SUFFICES ASSUME NEW route, NEW f PROVE WellFormed(Profile(route, f))
  OBVIOUS
<1> USE DEF WellFormed
<1>1. CASE route \in {"exact", "platform", "application_current"}
  <2>1. PICK t : /\ Profile(route, f) = {t}
                 /\ t \in {Now("current_deployment", "application"), Now("current_database", "database"),
                          Now("current_application", "application"), Now("current_platform", "host")}
    BY <1>1 DEF Profile, ExactFact
  <2>2. t.type \in EvidenceTypes /\ t.kind = KindOf(t.type)
    BY <2>1 DEF Now, Template, EvidenceTypes, KindOf
  <2>3. AtMost({t}, 5)
    BY FewAreFew, AtMostMore, Zenon
  <2> QED
    BY <2>1, <2>2, <2>3
<1>2. CASE route = "thermal"
  <2>1. Profile(route, f) = {Now("current_platform", "host"), Over("thermal_history", "host", "critical"),
          Over("host_history", "host", "relevant")}
    BY <1>2 DEF Profile
  <2>2. AtMost(Profile(route, f), 5)
    BY <2>1, FewAreFew, AtMostMore, Zenon
  <2> QED
    BY <2>1, <2>2 DEF Now, Over, Template, EvidenceTypes, KindOf
<1>3. CASE route = "restart"
  <2>1. Profile(route, f) =
          {Over("recovery_timeline", "host", "critical"), Over("infrastructure_events", "host", "critical"),
           Over("activity_timeline", "host", "relevant"), Over("host_history", "host", "relevant"),
           Over("thermal_history", "host", "relevant")}
    BY <1>3 DEF Profile
  <2>2. AtMost(Profile(route, f), 5)
    BY <2>1, FiveAreFew
  <2> QED
    BY <2>1, <2>2 DEF Over, Template, EvidenceTypes, KindOf
<1>4. CASE route = "application_performance"
  <2> DEFINE base == {Now("current_application", "application"),
                      Over("application_history", "application", "critical"),
                      Over("service_history", "host", "relevant"), Over("host_history", "host", "supporting")}
  <2>1. CASE "runtime" \in f.domains
    <3>1. Profile(route, f) = {Now("current_application", "application"),
                      Over("application_history", "application", "critical"),
                      Over("service_history", "host", "relevant"), Over("host_history", "host", "supporting"),
                      Over("runtime_failures", "application", "relevant")}
      BY <1>4, <2>1 DEF Profile
    <3>2. AtMost(Profile(route, f), 5)
      BY <3>1, FiveAreFew
    <3> QED
      BY <3>1, <3>2 DEF Now, Over, Template, EvidenceTypes, KindOf
  <2>2. CASE "runtime" \notin f.domains
    <3>1. Profile(route, f) = base
      BY <1>4, <2>2 DEF Profile
    <3>2. AtMost(Profile(route, f), 5)
      BY <3>1, FewAreFew, AtMostMore, Zenon
    <3> QED
      BY <3>1, <3>2 DEF Now, Over, Template, EvidenceTypes, KindOf
  <2> QED
    BY <2>1, <2>2
<1>5. CASE route = "deployment_correlation"
  <2>1. Profile(route, f) =
         {Now("current_application", "application"),
          Over("deployment_timeline", "application", "critical"),
          Over("application_history", "application", "critical"),
          Over("infrastructure_events", "host", "relevant"),
          Over("activity_timeline", "host", "relevant")}
    BY <1>5 DEF Profile
  <2>2. AtMost(Profile(route, f), 5)
    BY <2>1, FiveAreFew
  <2> QED
    BY <2>1, <2>2 DEF Now, Over, Template, EvidenceTypes, KindOf
<1>6. CASE route = "database"
  <2>1. Profile(route, f) = {Now("current_database", "database"), Over("database_backups", "database", "relevant")}
    BY <1>6 DEF Profile
  <2>2. AtMost(Profile(route, f), 5)
    BY <2>1, FewAreFew, AtMostMore, Zenon
  <2> QED
    BY <2>1, <2>2 DEF Now, Over, Template, EvidenceTypes, KindOf
<1>7. CASE route = "repository"
  <2>1. Profile(route, f) = {Template("repository_search", "repository", "question", "critical"),
          Template("repository_content", "repository", "question", "relevant")}
    BY <1>7 DEF Profile
  <2>2. AtMost(Profile(route, f), 5)
    BY <2>1, FewAreFew, AtMostMore, Zenon
  <2> QED
    BY <2>1, <2>2 DEF Template, EvidenceTypes, KindOf
<1>8. CASE route \notin {"exact", "platform", "thermal", "application_current", "restart",
                         "deployment_correlation", "database", "repository", "application_performance"}
  <2>1. Profile(route, f) = {}
    BY <1>8 DEF Profile
  <2> QED
    BY <2>1, FewAreFew, AtMostMore
<1> QED
  BY <1>1, <1>2, <1>3, <1>4, <1>5, <1>6, <1>7, <1>8

(* The first provider of a type serves its kind, so it is the one selected; *)
(* two types never have the same one.                                      *)
ProviderOf(type) == evidenceProviderPriority(type)[1]

LEMMA ProviderIsFirst ==
  ASSUME NEW req, req.type \in EvidenceTypes, req.kind = KindOf(req.type)
  PROVE  selectEvidenceProvider(req) = ProviderOf(req.type)
<1> DEFINE order == evidenceProviderPriority(req.type)
           usable == {i \in 1..Len(order) : providerSupportsEvidenceSubject(order[i], req.kind)}
<1>1. 1 \in usable
  <2>1. 1 \in 1..Len(order)
    BY DEF evidenceProviderPriority, EvidenceTypes
  <2>2. providerSupportsEvidenceSubject(order[1], req.kind)
    BY DEF evidenceProviderPriority, EvidenceTypes, KindOf, providerSupportsEvidenceSubject, AppReads
  <2> QED
    BY <2>1, <2>2
<1>2. \A i \in usable : 1 <= i /\ i \in Int
  BY DEF evidenceProviderPriority, EvidenceTypes
<1>3. First(usable) = 1
  <2> HIDE DEF usable
  <2> QED
    BY <1>1, <1>2 DEF First
<1> QED
  BY <1>3 DEF selectEvidenceProvider, ProviderOf

LEMMA ProvidersDiffer ==
  \A t1, t2 \in EvidenceTypes : ProviderOf(t1) = ProviderOf(t2) => t1 = t2
BY DEF ProviderOf, evidenceProviderPriority, EvidenceTypes

LEMMA ProviderTable == 
  \A type \in EvidenceTypes :
    /\ ProviderOf(type) = "get_app_context" <=> type = "current_application"
    /\ ProviderOf(type) = "read_application_history" <=> type = "application_history"
BY DEF ProviderOf, evidenceProviderPriority, EvidenceTypes
--------------------------------------------------------------------------------
(* The requirements of a question are those of its route, or none.         *)
Required(t, f) ==
  [type |-> t.type, kind |-> t.kind, subject |-> requirementSubjectForFrame(t.kind, f),
   window |-> requirementTemporalScope(t.window, f), criticality |-> t.criticality]

LEMMA RequirementsAre ==
  \/ Requirements = {}
  \/ /\ decision.resolution = "supported" /\ ~(Cardinality(decision.frame.subjects) > 1)
     /\ Requirements = {Required(t, decision.frame) : t \in Profile(decision.route, decision.frame)}
<1> DEFINE q == RouterQuestion(question, listed)
           f == Frame(q)
<1>1. \/ decision = Decision("ambiguous", "unresolved", f)
      \/ decision = Decision("unsupported", "unresolved", f)
      \/ decision = Decision("supported", selectSemanticRoute(f), f)
  BY DEF decision, buildShadowInvestigationRoute
<1> HIDE DEF f
<1>2. CASE decision = Decision("supported", selectSemanticRoute(f), f)
  <2>1. decision.resolution = "supported" /\ decision.frame = f /\ decision.route = selectSemanticRoute(f)
        /\ Requirements = requirementsForRoute(decision.route, f)
    BY <1>2 DEF Decision, Requirements
  <2> QED
    BY <2>1 DEF requirementsForRoute, Required
<1>3. CASE decision # Decision("supported", selectSemanticRoute(f), f)
  BY <1>1, <1>3 DEF Decision, Requirements
<1> QED
  BY <1>2, <1>3

LEMMA RequirementsWellFormed == WellFormed(Requirements)
<1>1. CASE Requirements = {}
  <2>1. AtMost(Requirements, 5)
    BY <1>1, FewAreFew, AtMostMore, Zenon
  <2> QED
    BY <1>1, <2>1 DEF WellFormed
<1>2. ASSUME NEW profile, NEW f, WellFormed(profile), Requirements = {Required(t, f) : t \in profile}
      PROVE  WellFormed(Requirements)
  <2> DEFINE g == [t \in profile |-> Required(t, f)]
  <2>1. Requirements = {g[t] : t \in profile}
    BY <1>2
  <2>2. IsFiniteSet(profile) /\ Cardinality(profile) \in Nat /\ Cardinality(profile) <= 5
    BY <1>2 DEF WellFormed, AtMost
  <2>3. IsFiniteSet({g[t] : t \in profile}) /\ Cardinality({g[t] : t \in profile}) <= Cardinality(profile)
    <3> HIDE DEF g
    <3> QED
      BY <2>2, ImageFinite
  <2> HIDE DEF g
  <2>4. AtMost(Requirements, 5)
    BY <2>1, <2>2, <2>3, FS_CardinalityType DEF AtMost
  <2>5. \A t : Required(t, f).type = t.type /\ Required(t, f).kind = t.kind
    BY DEF Required
  <2> QED
    BY <1>2, <2>4, <2>5 DEF WellFormed
<1> QED
  BY <1>1, <1>2, RequirementsAre, ProfileWellFormed

(* The read that a requirement is planned with, for it alone.              *)
RequestOf(req) == [read |-> ReadOf(ProviderOf(req.type), req), serves |-> {req.type}]

LEMMA CapOfRead == \A cap, req : ReadOf(cap, req).cap = cap
BY DEF ReadOf

LEMMA RequestsAre ==
  ASSUME NEW reqs, \A t \in reqs : t.type \in EvidenceTypes /\ t.kind = KindOf(t.type)
  PROVE  RequestsFor(reqs, selectEvidenceProvider) = {RequestOf(req) : req \in reqs}
<1>1. \A req \in reqs : selectEvidenceProvider(req) = ProviderOf(req.type)
  BY ProviderIsFirst
<1>2. \A r1, r2 \in reqs :
        ReadOf(selectEvidenceProvider(r1), r1) = ReadOf(selectEvidenceProvider(r2), r2) => r1.type = r2.type
  BY <1>1, CapOfRead, ProvidersDiffer
<1> DEFINE read(r) == ReadOf(selectEvidenceProvider(r), r)
           serves(x) == {req.type : req \in {r \in reqs : read(r) = x}}
<1>3. \A r \in reqs : serves(read(r)) = {r.type}
  BY <1>2
<1>4. RequestsFor(reqs, selectEvidenceProvider) = {[read |-> x, serves |-> serves(x)] : x \in {read(r) : r \in reqs}}
  BY DEF RequestsFor
<1>5. \A r \in reqs : RequestOf(r) = [read |-> read(r), serves |-> serves(read(r))]
  BY <1>1, <1>3 DEF RequestOf
<1> HIDE DEF read, serves
<1> QED
  BY <1>4, <1>5

Wanted == Planned(Requirements, question.seeded)

LEMMA WantedAreRequired == Wanted \subseteq Requirements
BY DEF Wanted, Planned, Served, DeferredContent

LEMMA DraftRequests == Draft.requests = {RequestOf(req) : req \in Wanted}
<1>1. \A t \in Wanted : t.type \in EvidenceTypes /\ t.kind = KindOf(t.type)
  BY RequirementsWellFormed, WantedAreRequired DEF WellFormed
<1>2. Draft.requests = RequestsFor(Wanted, selectEvidenceProvider)
  BY DEF Draft, BuildEvidencePlan, Wanted
<1> QED
  BY <1>1, <1>2, RequestsAre

LEMMA AtMostOne ==
  ASSUME NEW S, \A x, y \in S : x = y
  PROVE  AtMost(S, 1)
<1>1. S = {} \/ \E x : S = {x}
  OBVIOUS
<1>2. AtMost({}, 1)
  BY FewAreFew DEF AtMost
<1>3. \A x : AtMost({x}, 1)
  BY FewAreFew
<1> QED
  BY <1>1, <1>2, <1>3

(* At most five requests, one of each dear capability: five and seven more. *)
LEMMA DraftAffordable == WithinBudget(Draft)
<1> DEFINE S == Draft.requests
           g == [r \in Wanted |-> RequestOf(r)]
           heavy == {x \in S : x.read.cap = "get_app_context"}
           double == {x \in S : x.read.cap = "read_application_history"}
<1>1. IsFiniteSet(Wanted) /\ Cardinality(Wanted) \in Nat /\ Cardinality(Wanted) <= 5
  <2>1. IsFiniteSet(Requirements) /\ Cardinality(Requirements) \in Nat /\ Cardinality(Requirements) <= 5
    BY RequirementsWellFormed DEF WellFormed, AtMost
  <2>2. IsFiniteSet(Wanted) /\ Cardinality(Wanted) <= Cardinality(Requirements)
    BY <2>1, WantedAreRequired, FS_Subset
  <2> QED
    BY <2>1, <2>2, FS_CardinalityType
<1>2. S = {g[r] : r \in Wanted}
  BY DraftRequests
<1>3. IsFiniteSet(S) /\ Cardinality(S) \in Nat /\ Cardinality(S) <= 5
  <2>1. IsFiniteSet({g[r] : r \in Wanted}) /\ Cardinality({g[r] : r \in Wanted}) <= Cardinality(Wanted)
    <3> HIDE DEF g
    <3> QED BY <1>1, ImageFinite
  <2>2. IsFiniteSet(S) /\ Cardinality(S) <= Cardinality(Wanted)
    BY <1>2, <2>1
  <2> HIDE DEF g, S
  <2>3. Cardinality(S) \in Nat
    BY <2>2, FS_CardinalityType
  <2> QED
    BY <1>1, <2>2, <2>3
<1>4. \A x \in S : \E req \in Requirements : x = RequestOf(req) /\ x.read.cap = ProviderOf(req.type)
  BY DraftRequests, WantedAreRequired, CapOfRead DEF RequestOf
<1>5. AtMost(heavy, 1) /\ AtMost(double, 1)
  <2>1. \A x, y \in heavy : x = y
    BY <1>4, RequirementsWellFormed, ProviderTable DEF WellFormed
  <2>2. \A x, y \in double : x = y
    BY <1>4, RequirementsWellFormed, ProviderTable DEF WellFormed
  <2> HIDE DEF heavy, double
  <2> QED
    BY <2>1, <2>2, AtMostOne
<1>6. PlanCost(S) = Cardinality(S) + (6 * Cardinality(heavy) + Cardinality(double))
  <2> HIDE DEF S
  <2> QED
    BY <1>3, PlanCostIs DEF Extra
<1> HIDE DEF S, heavy, double
<1>7. Cardinality(S) <= 6 /\ PlanCost(S) <= 12
  BY <1>3, <1>5, <1>6 DEF AtMost
<1> QED
  BY <1>7 DEF S, WithinBudget, phase2BMaxLogicalReads, phase2BMaxCostUnits
--------------------------------------------------------------------------------
LEMMA NeverBeyondBudget == Prospect # "limitation"
BY DraftAffordable DEF Prospect

(* No question the router supports is planned beyond the budget of a plan  *)
(* (evidence_plan.go:11): the six reads and twelve units hold every route.  *)
THEOREM EveryPlanIsAffordable == Spec => []PlansAfford
<1>1. Init => PlansAfford
  BY DEF Init, PlansAfford
<1>2. PlansAfford /\ [Next]_vars => PlansAfford'
  <2> SUFFICES ASSUME PlansAfford, [Next]_vars PROVE limitation' # "evidence_plan_invalid"
    BY DEF PlansAfford
  <2>1. CASE Prepare
    BY <2>1, NeverBeyondBudget DEF Prepare, PlansAfford
  <2>2. CASE ~Prepare
    BY <2>2 DEF PlansAfford, Next, vars, ExecuteFirst, FailFirst, ReduceFirst, PlanSecondEvidenceRound,
        ExecuteSecond, FailSecond, ReduceSecond, FailPacket, BuildPacket, RefuseModel, AskModel,
        AnswerModel, Cancel, Finished, Limit
  <2> QED
    BY <2>1, <2>2
<1> QED
  BY <1>1, <1>2, PTL DEF Spec
--------------------------------------------------------------------------------
LEMMA RequirementsFinite == IsFiniteSet(Requirements)
BY RequirementsWellFormed DEF WellFormed, AtMost

(* A plan that is acted on has finitely many reads, within its budget.     *)
LEMMA DraftFinite == IsFiniteSet(Draft.requests)
<1> DEFINE reqs == Planned(Requirements, question.seeded)
           read == [r \in reqs |-> ReadOf(selectEvidenceProvider(r), r)]
           reads == {read[r] : r \in reqs}
           request == [x \in reads |->
                         [read |-> x, serves |-> {req.type : req \in
                            {r \in reqs : ReadOf(selectEvidenceProvider(r), r) = x}}]]
<1>1. IsFiniteSet(reqs)
  <2>1. reqs \subseteq Requirements
    BY DEF Planned, Served, DeferredContent
  <2> QED
    BY <2>1, RequirementsFinite, FS_Subset
<1>2. IsFiniteSet(reads)
  <2> HIDE DEF reqs, read
  <2> QED
    BY <1>1, ImageFinite
<1>3. IsFiniteSet({request[x] : x \in reads})
  <2> HIDE DEF reads, request
  <2> QED
    BY <1>2, ImageFinite
<1>4. reads = {ReadOf(selectEvidenceProvider(r), r) : r \in reqs}
  OBVIOUS
<1>5. Draft.requests = {request[x] : x \in reads}
  BY <1>4 DEF Draft, BuildEvidencePlan, RequestsFor
<1> QED
  BY <1>3, <1>5
--------------------------------------------------------------------------------
(* What may be followed up is finite, and was not read before.             *)
LEMMA CandidatesAreNew ==
  ASSUME NEW requirements, NEW e, NEW executed, NEW seeded,
         NEW c \in FollowUpCandidates(requirements, e, executed, seeded)
  PROVE  c.read \notin executed
<1>1. \A gap, req : \A d \in CandidatesOf(gap, req, executed, seeded) : d.read \notin executed
  BY DEF CandidatesOf, FollowUpProviders
<1>2. \E gap, req : c \in CandidatesOf(gap, req, executed, seeded)
  <2>1. PICK gap \in materialEvidenceGaps(requirements, e) :
          c \in UNION {CandidatesOf(gap, [gap.req EXCEPT !.subject = subject], executed, seeded) :
                         subject \in followUpSubjects(gap.req, e)}
    BY Zenon DEF FollowUpCandidates
  <2>2. PICK subject \in followUpSubjects(gap.req, e) :
          c \in CandidatesOf(gap, [gap.req EXCEPT !.subject = subject], executed, seeded)
    BY <2>1, Zenon
  <2> QED
    BY <2>2, Zenon
<1> QED
  BY <1>1, <1>2

LEMMA CandidatesOfFinite ==
  ASSUME NEW gap, NEW req, NEW executed, NEW seeded
  PROVE  IsFiniteSet(CandidatesOf(gap, req, executed, seeded))
<1> DEFINE usable == FollowUpProviders(gap, req, executed, seeded)
           last == {j \in usable : \A k \in usable : j <= k}
           g == [i \in last |-> [rank |-> gap.rank, type |-> req.type,
                                 read |-> ReadOf(followUpProviderOrder(gap)[i], req)]]
<1>1. \A j \in usable : j \in Int
  BY DEF FollowUpProviders
<1>2. \A j, k \in last : j = k
  BY <1>1
<1>3. IsFiniteSet(last)
  <2>1. last = {} \/ \E j : last = {j}
    <3> HIDE DEF last
    <3> QED
      BY <1>2
  <2> QED
    <3>1. \A j : IsFiniteSet({j})
      BY FS_Singleton
    <3>2. IsFiniteSet({})
      BY FS_EmptySet
    <3> HIDE DEF last
    <3> QED
      BY <2>1, <3>1, <3>2
<1>4. IsFiniteSet({g[i] : i \in last})
  <2> HIDE DEF last, g
  <2> QED
    BY <1>3, ImageFinite
<1> QED
  BY <1>4 DEF CandidatesOf

LEMMA CandidatesFinite ==
  ASSUME NEW requirements, IsFiniteSet(requirements), NEW e, NEW executed, NEW seeded
  PROVE  IsFiniteSet(FollowUpCandidates(requirements, e, executed, seeded))
<1> DEFINE material(req) == {m \in e.missing : m.type = req.type /\ isMaterialFollowUpMissing(req, m)}
           lacking == {r \in requirements : material(r) # {}}
           disputed == {r \in requirements : r.type \in e.conflicts}
           lack == [r \in lacking |-> GapOf(r, material(r))]
           dispute == [r \in disputed |-> [rank |-> 1, req |-> r, cap |-> "none"]]
           gaps == materialEvidenceGaps(requirements, e)
<1>1. IsFiniteSet(lacking) /\ IsFiniteSet(disputed)
  BY FS_Subset
<1>2. IsFiniteSet(gaps)
  <2>1. IsFiniteSet({lack[r] : r \in lacking}) /\ IsFiniteSet({dispute[r] : r \in disputed})
    <3> HIDE DEF lacking, disputed, lack, dispute
    <3> QED
      BY <1>1, ImageFinite
  <2>2. gaps = {lack[r] : r \in lacking} \cup {dispute[r] : r \in disputed}
    BY DEF materialEvidenceGaps
  <2> HIDE DEF gaps, lack, dispute, lacking, disputed
  <2> QED
    BY <2>1, <2>2, FS_Union
<1> HIDE DEF gaps
<1>3. \A req : IsFiniteSet(followUpSubjects(req, e))
  <2> TAKE req
  <2> DEFINE named == {item.on : item \in {i \in e.items :
                         i.type = "current_database" /\ req.kind = "database" /\ i.on \in Databases}}
  <2>1. IsFiniteSet(named)
    <3>1. named \subseteq Databases
      OBVIOUS
    <3> QED
      BY <3>1, DatabasesAssumption, FS_Subset
  <2>2. \/ followUpSubjects(req, e) = {req.subject} \/ followUpSubjects(req, e) = {}
        \/ followUpSubjects(req, e) = named
    BY DEF followUpSubjects
  <2> HIDE DEF named
  <2>3. \A j : IsFiniteSet({j})
    BY FS_Singleton
  <2>4. IsFiniteSet({})
    BY FS_EmptySet
  <2> QED
    BY <2>1, <2>2, <2>3, <2>4
<1> DEFINE Of(gap) == UNION {CandidatesOf(gap, [gap.req EXCEPT !.subject = subject], executed, seeded) :
                              subject \in followUpSubjects(gap.req, e)}
<1>4. \A gap : IsFiniteSet(Of(gap))
  <2> TAKE gap
  <2> DEFINE subjects == followUpSubjects(gap.req, e)
             h == [s \in subjects |-> CandidatesOf(gap, [gap.req EXCEPT !.subject = s], executed, seeded)]
  <2>1. IsFiniteSet({h[s] : s \in subjects})
    <3>1. IsFiniteSet(subjects)
      BY <1>3
    <3> HIDE DEF subjects, h
    <3> QED
      BY <3>1, ImageFinite
  <2>2. \A T \in {h[s] : s \in subjects} : IsFiniteSet(T)
    BY CandidatesOfFinite
  <2>3. Of(gap) = UNION {h[s] : s \in subjects}
    OBVIOUS
  <2> HIDE DEF Of, h, subjects
  <2> QED
    BY <2>1, <2>2, <2>3, FS_UNION
<1> DEFINE each == [gap \in gaps |-> Of(gap)]
<1>5. IsFiniteSet({each[gap] : gap \in gaps})
  <2> HIDE DEF each
  <2> QED
    BY <1>2, ImageFinite
<1>6. \A T \in {each[gap] : gap \in gaps} : IsFiniteSet(T)
  <2> HIDE DEF Of
  <2> QED
    BY <1>4
<1>7. FollowUpCandidates(requirements, e, executed, seeded) = UNION {each[gap] : gap \in gaps}
  BY DEF FollowUpCandidates, gaps
<1> HIDE DEF each
<1> QED
  BY <1>5, <1>6, <1>7, FS_UNION
--------------------------------------------------------------------------------
(* Every read that ran has its result.                                     *)
ReadsRecorded == ran = {r.read : r \in results}

NothingReadYet == phase \in {"asked", "planned"} => results = {}

FirstRoundOnly == phase \in {"executed", "reduced", "following"} => \A r \in results : r.round = 1

Fits(reads, limit) == IsFiniteSet(reads) /\ Cardinality(reads) <= limit

FirstFits == phase = "planned" => Fits(ReadsOf(plan.requests), phase2BMaxLogicalReads)

SecondFits ==
  phase = "following" => /\ Fits(ReadsOf(second), phase2DMaxAdditionalLogicalReads)
                         /\ ReadsOf(second) \cap ran = {}

(* From the first round on, the plan holds the reads that ran.             *)
PlanRan ==
  phase \in {"executed", "reduced", "following", "followed", "settled", "packed", "leased"}
    => ReadsOf(plan.requests) = ran

RoundsInv ==
  /\ ReadsRecorded /\ NothingReadYet /\ FirstRoundOnly /\ FirstFits /\ SecondFits /\ PlanRan
  /\ ReportedReadsRan

LEMMA RunReads ==
  ASSUME NEW requests, NEW n, Run(requests, n)
  PROVE  \E new : /\ results' = results \cup new /\ ran' = ran \cup ReadsOf(requests)
                  /\ {x.read : x \in new} = ReadsOf(requests)
                  /\ \A x \in new : x.round = n
<1>1. PICK outcome \in [requests -> Outcomes], found \in SUBSET Databases :
        /\ results' = results \cup {Result(r, outcome[r], found, n) : r \in requests}
        /\ ran' = ran \cup ReadsOf(requests)
  BY DEF Run
<1> DEFINE new == {Result(r, outcome[r], found, n) : r \in requests}
<1>2. {x.read : x \in new} = ReadsOf(requests)
  <2> DEFINE result(r) == Result(r, outcome[r], found, n)
  <2>1. \A r : result(r).read = r.read
    BY DEF Result
  <2>2. new = {result(r) : r \in requests}
    OBVIOUS
  <2> HIDE DEF new, result
  <2> QED
    BY <2>1, <2>2 DEF ReadsOf
<1>3. \A x \in new : x.round = n
  BY DEF Result
<1> HIDE DEF new
<1> QED
  BY <1>1, <1>2, <1>3 DEF new

(* What is planned first is within the budget of a plan.                   *)
LEMMA DraftFits == Prospect = "planned" => Fits(ReadsOf(Draft.requests), phase2BMaxLogicalReads)
<1> HAVE Prospect = "planned"
<1> DEFINE S == Draft.requests
           f == [r \in S |-> r.read]
<1>1. WithinBudget(Draft)
  BY DEF Prospect
<1>2. IsFiniteSet(S) /\ Cardinality(S) <= 6
  BY <1>1, DraftFinite DEF WithinBudget, phase2BMaxLogicalReads
<1>3. Cardinality(S) \in Nat
  BY <1>2, FS_CardinalityType
<1>4. IsFiniteSet({f[r] : r \in S}) /\ Cardinality({f[r] : r \in S}) <= Cardinality(S)
  <2> HIDE DEF S, f
  <2> QED
    BY <1>2, ImageFinite
<1>5. Cardinality({f[r] : r \in S}) \in Nat
  BY <1>4, FS_CardinalityType
<1>6. {f[r] : r \in S} = ReadsOf(Draft.requests)
  BY DEF ReadsOf
<1> HIDE DEF S, f
<1> QED
  BY <1>2, <1>3, <1>4, <1>5, <1>6 DEF Fits, phase2BMaxLogicalReads

(* What a second round reads is little, and was not read in the first.     *)
LEMMA SecondRoundFits ==
  ASSUME NEW e, NEW executed, NEW seeded,
         NEW chosen \in SecondRounds(FollowUpCandidates(Requirements, e, executed, seeded))
  PROVE  /\ Fits(ReadsOf(FollowUpRequests(chosen)), phase2DMaxAdditionalLogicalReads)
         /\ ReadsOf(FollowUpRequests(chosen)) \cap executed = {}
<1> DEFINE candidates == FollowUpCandidates(Requirements, e, executed, seeded)
           f == [c \in chosen |-> c.read]
<1>1. chosen \subseteq candidates /\ Cardinality(chosen) <= 2
  BY DEF SecondRounds, FollowUpAffordable, phase2DMaxAdditionalLogicalReads
<1>2. IsFiniteSet(chosen) /\ Cardinality(chosen) \in Nat
  <2>1. IsFiniteSet(candidates)
    BY RequirementsFinite, CandidatesFinite
  <2> HIDE DEF candidates
  <2> QED
    BY <1>1, <2>1, FS_Subset, FS_CardinalityType
<1>3. /\ IsFiniteSet({f[c] : c \in chosen})
      /\ Cardinality({f[c] : c \in chosen}) <= Cardinality(chosen)
  <2> HIDE DEF f
  <2> QED
    BY <1>2, ImageFinite
<1>4. Cardinality({f[c] : c \in chosen}) \in Nat
  BY <1>3, FS_CardinalityType
<1>5. {f[c] : c \in chosen} = ReadsOf(FollowUpRequests(chosen))
  <2> DEFINE request(c) == [read |-> c.read, serves |-> {c.type}]
  <2>1. \A c : request(c).read = c.read
    OBVIOUS
  <2>2. FollowUpRequests(chosen) = {request(c) : c \in chosen}
    BY DEF FollowUpRequests
  <2> HIDE DEF request
  <2> QED
    BY <2>1, <2>2 DEF ReadsOf
<1>6. \A c \in chosen : f[c] \notin executed
  BY <1>1, CandidatesAreNew
<1> HIDE DEF f
<1> QED
  BY <1>1, <1>2, <1>3, <1>4, <1>5, <1>6 DEF Fits, phase2DMaxAdditionalLogicalReads
--------------------------------------------------------------------------------
LEMMA RoundsInit == Init => RoundsInv
BY DEF Init, RoundsInv, ReadsRecorded, NothingReadYet, FirstRoundOnly, FirstFits, SecondFits, PlanRan,
       ReportedReadsRan

LEMMA RoundsNext == RoundsInv /\ [Next]_vars => RoundsInv'
<1> SUFFICES ASSUME RoundsInv, [Next]_vars PROVE RoundsInv'
  OBVIOUS
<1> USE DEF RoundsInv
<1>1. CASE Prepare
  <2>1. /\ phase = "asked" /\ phase' \in {"planned", "left", "answered"}
        /\ UNCHANGED <<question, listed, results, evidence, second, ran>>
        /\ phase' = "planned" => Prospect = "planned" /\ plan' = Draft
        /\ phase' = "answered" => answer'.reads = {}
    BY <1>1 DEF Prepare, Answer
  <2>2. results = {} /\ ran = {}
    BY <2>1 DEF ReadsRecorded, NothingReadYet
  <2>3. FirstFits'
    BY <2>1, DraftFits DEF FirstFits, Fits, ReadsOf, phase2BMaxLogicalReads
  <2> QED
    BY <2>1, <2>2, <2>3 DEF ReadsRecorded, NothingReadYet, FirstRoundOnly, SecondFits, PlanRan,
                           ReportedReadsRan
<1>2. CASE ExecuteFirst
  <2>1. PICK new : /\ results' = results \cup new /\ ran' = ran \cup ReadsOf(plan.requests)
                   /\ {x.read : x \in new} = ReadsOf(plan.requests)
                   /\ \A x \in new : x.round = 1
    BY <1>2, RunReads DEF ExecuteFirst
  <2>2. results = {} /\ ran = {} /\ phase' = "executed" /\ plan' = plan
    BY <1>2 DEF ExecuteFirst, ReadsRecorded, NothingReadYet
  <2> QED
    BY <2>1, <2>2 DEF ReadsRecorded, NothingReadYet, FirstRoundOnly, FirstFits, SecondFits, PlanRan,
                      ReportedReadsRan, ReadsOf
<1>3. CASE FailFirst
  BY <1>3 DEF FailFirst, Limit, Answer, ReadsRecorded, NothingReadYet, FirstRoundOnly, FirstFits,
              SecondFits, PlanRan, ReportedReadsRan
<1>4. CASE ReduceFirst
  BY <1>4 DEF ReduceFirst, ReadsRecorded, NothingReadYet, FirstRoundOnly, FirstFits,
              SecondFits, PlanRan, ReportedReadsRan
<1>5. CASE PlanSecondEvidenceRound
  <2> DEFINE executed == ReadsOf(plan.requests) \cup {r.read : r \in results}
  <2>1. PICK chosen \in SecondRounds(FollowUpCandidates(Requirements, evidence, executed, question.seeded)) :
          second' = FollowUpRequests(chosen) /\ phase' \in {"settled", "following"}
    BY <1>5 DEF PlanSecondEvidenceRound
  <2>2. phase = "reduced" /\ UNCHANGED <<plan, results, answer, ran>>
    BY <1>5 DEF PlanSecondEvidenceRound
  <2>3. executed = ran
    BY <2>2 DEF ReadsRecorded, PlanRan
  <2>4. /\ Fits(ReadsOf(second'), phase2DMaxAdditionalLogicalReads)
        /\ ReadsOf(second') \cap ran = {}
    <3> HIDE DEF executed
    <3> QED
      BY <2>1, <2>3, SecondRoundFits
  <2>5. SecondFits'
    BY <2>2, <2>4 DEF SecondFits, Fits, ReadsOf, phase2DMaxAdditionalLogicalReads
  <2> HIDE DEF executed
  <2> QED
    BY <2>1, <2>2, <2>5 DEF ReadsRecorded, NothingReadYet, FirstRoundOnly, FirstFits, PlanRan,
                            ReportedReadsRan
<1>6. CASE ExecuteSecond
  <2>1. PICK new : /\ results' = results \cup new /\ ran' = ran \cup ReadsOf(second)
                   /\ {x.read : x \in new} = ReadsOf(second)
    BY <1>6, RunReads DEF ExecuteSecond
  <2>2. phase = "following" /\ phase' = "followed" /\ plan'.requests = plan.requests \cup second
    BY <1>6 DEF ExecuteSecond, combineEvidencePlans
  <2> QED
    BY <2>1, <2>2 DEF ReadsRecorded, NothingReadYet, FirstRoundOnly, FirstFits, SecondFits, PlanRan,
                      ReportedReadsRan, ReadsOf
<1>7. CASE FailSecond
  BY <1>7 DEF FailSecond, ReadsRecorded, NothingReadYet, FirstRoundOnly, FirstFits, SecondFits,
              PlanRan, ReportedReadsRan
<1>8. CASE ReduceSecond
  <2>1. phase = "followed" /\ phase' = "settled" /\ UNCHANGED <<results, ran>>
    BY <1>8 DEF ReduceSecond
  <2>2. plan'.requests = plan.requests
    <3>1. PICK resolved : plan' = combineEvidencePlans(plan, {}, resolved)
      BY <1>8 DEF ReduceSecond
    <3> QED
      BY <3>1 DEF combineEvidencePlans
  <2> QED
    BY <2>1, <2>2 DEF ReadsRecorded, NothingReadYet, FirstRoundOnly, FirstFits, SecondFits, PlanRan,
                      ReportedReadsRan, ReadsOf
<1>9. CASE FailPacket
  BY <1>9 DEF FailPacket, Limit, Answer, ReadsRecorded, NothingReadYet, FirstRoundOnly, FirstFits,
              SecondFits, PlanRan, ReportedReadsRan
<1>10. CASE BuildPacket
  BY <1>10 DEF BuildPacket, Limit, Answer, ReadsRecorded, NothingReadYet, FirstRoundOnly, FirstFits,
               SecondFits, PlanRan, ReportedReadsRan
<1>11. CASE RefuseModel
  BY <1>11 DEF RefuseModel, Limit, Answer, ReadsRecorded, NothingReadYet, FirstRoundOnly, FirstFits,
               SecondFits, PlanRan, ReportedReadsRan
<1>12. CASE AskModel
  BY <1>12 DEF AskModel, ReadsRecorded, NothingReadYet, FirstRoundOnly, FirstFits, SecondFits,
               PlanRan, ReportedReadsRan
<1>13. CASE AnswerModel
  <2>1. /\ phase = "leased" /\ phase' = "answered" /\ UNCHANGED <<plan, results, ran>>
        /\ answer'.reads = ReadsOf(plan.requests)
    BY <1>13 DEF AnswerModel, Answer
  <2> QED
    BY <2>1 DEF ReadsRecorded, NothingReadYet, FirstRoundOnly, FirstFits, SecondFits, PlanRan,
                ReportedReadsRan
<1>14. CASE Cancel
  BY <1>14 DEF Cancel, Ended, ReadsRecorded, NothingReadYet, FirstRoundOnly, FirstFits, SecondFits,
               PlanRan, ReportedReadsRan
<1>15. CASE UNCHANGED vars
  BY <1>15 DEF vars, ReadsRecorded, NothingReadYet, FirstRoundOnly, FirstFits, SecondFits, PlanRan,
               ReportedReadsRan, Fits, ReadsOf
<1>16. CASE Finished
  BY <1>15, <1>16 DEF Finished
<1> QED
  BY <1>1, <1>2, <1>3, <1>4, <1>5, <1>6, <1>7, <1>8, <1>9, <1>10, <1>11, <1>12, <1>13, <1>14,
     <1>15, <1>16 DEF Next

LEMMA RoundsAlways == Spec => []RoundsInv
BY RoundsInit, RoundsNext, PTL DEF Spec

(* An answer reports the reads that ran, all of them and no other, however  *)
(* the second round or its reductions went (evidence_pipeline.go:124).      *)
THEOREM AnswersReportTheirReads == Spec => []ReportedReadsRan
<1>1. RoundsInv => ReportedReadsRan
  BY DEF RoundsInv
<1> QED
  BY <1>1, RoundsAlways, PTL
--------------------------------------------------------------------------------
LEMMA NoReadsAtFirst == Init => Rounds!Init
BY DEF Init, Rounds!Init

LEMMA SameCounts ==
  \A S : /\ Rounds!IsFiniteSet(S) <=> IsFiniteSet(S)
         /\ Rounds!Cardinality(S) = Cardinality(S)
<1>1. \A S : Rounds!IsFiniteSet(S) <=> IsFiniteSet(S)
  BY DEF IsFiniteSet, Rounds!IsFiniteSet
<1>2. \A S : Rounds!Cardinality(S) = Cardinality(S)
  BY DEF Cardinality, Rounds!Cardinality
<1> QED
  BY <1>1, <1>2

(* Only the two executions read, and each is a round of EvidenceRounds.    *)
LEMMA StepsAreRounds ==
  RoundsInv /\ [Next]_vars => [Rounds!Next]_<<
    {r.read : r \in {x \in results : x.round = 1}}, {r.read : r \in {x \in results : x.round = 2}}>>
<1> SUFFICES ASSUME RoundsInv, [Next]_vars
             PROVE  [Rounds!Next]_<<{r.read : r \in {x \in results : x.round = 1}},
                                    {r.read : r \in {x \in results : x.round = 2}}>>
  OBVIOUS
<1> USE DEF RoundsInv
<1>1. CASE ExecuteFirst
  <2>1. PICK new : /\ results' = results \cup new
                   /\ {x.read : x \in new} = ReadsOf(plan.requests)
                   /\ \A x \in new : x.round = 1
    BY <1>1, RunReads DEF ExecuteFirst
  <2>2. results = {} /\ Fits(ReadsOf(plan.requests), phase2BMaxLogicalReads)
    BY <1>1 DEF ExecuteFirst, NothingReadYet, FirstFits
  <2>3. /\ {r.read : r \in {x \in results : x.round = 1}}' = ReadsOf(plan.requests)
        /\ {r.read : r \in {x \in results : x.round = 2}}' = {}
    BY <2>1, <2>2
  <2>4. CASE ReadsOf(plan.requests) = {}
    BY <2>2, <2>3, <2>4
  <2>5. CASE ReadsOf(plan.requests) # {}
    <3>1. Rounds!FirstRound
      BY <2>2, <2>3, <2>5, SameCounts DEF Rounds!FirstRound, Rounds!Round, Fits
    <3> QED
      BY <3>1 DEF Rounds!Next
  <2> QED
    BY <2>4, <2>5
<1>2. CASE ExecuteSecond
  <2>1. PICK new : /\ results' = results \cup new
                   /\ {x.read : x \in new} = ReadsOf(second)
                   /\ \A x \in new : x.round = 2
    BY <1>2, RunReads DEF ExecuteSecond
  <2>2. /\ \A r \in results : r.round = 1
        /\ Fits(ReadsOf(second), phase2DMaxAdditionalLogicalReads)
        /\ ReadsOf(second) \cap {r.read : r \in results} = {}
    BY <1>2 DEF ExecuteSecond, FirstRoundOnly, SecondFits, ReadsRecorded
  <2>3. /\ {r.read : r \in {x \in results : x.round = 1}}' = {r.read : r \in {x \in results : x.round = 1}}
        /\ {r.read : r \in {x \in results : x.round = 2}} = {}
        /\ {r.read : r \in {x \in results : x.round = 2}}' = ReadsOf(second)
    BY <2>1, <2>2
  <2>4. CASE ReadsOf(second) = {}
    BY <2>3, <2>4
  <2>5. CASE ReadsOf(second) # {}
    <3>1. Rounds!SecondRound
      BY <2>2, <2>3, <2>5, SameCounts DEF Rounds!SecondRound, Rounds!Round, Fits
    <3> QED
      BY <3>1 DEF Rounds!Next
  <2> QED
    BY <2>4, <2>5
<1>3. CASE UNCHANGED results
  BY <1>3
<1>4. [Next]_vars => ExecuteFirst \/ ExecuteSecond \/ UNCHANGED results
  BY DEF Next, Prepare, FailFirst, ReduceFirst, PlanSecondEvidenceRound, FailSecond, ReduceSecond,
         FailPacket, BuildPacket, RefuseModel, AskModel, AnswerModel, Cancel, Finished, vars
<1> QED
  BY <1>1, <1>2, <1>3, <1>4

(* The investigation implements the two rounds it promises: at most six     *)
(* reads, then at most two that were not made before                        *)
(* (evidence_plan.go:11, evidence_followup.go:8).                           *)
THEOREM InvestigationKeepsToRounds == Spec => KeepsToRounds
<1>1. RoundsInv /\ [Next]_vars => [Rounds!Next]_<<
        {r.read : r \in {x \in results : x.round = 1}}, {r.read : r \in {x \in results : x.round = 2}}>>
  BY StepsAreRounds
<1> QED
  BY <1>1, NoReadsAtFirst, RoundsAlways, PTL DEF Spec, KeepsToRounds, Rounds!Spec
--------------------------------------------------------------------------------
(* A set of numbers that is not empty has a least one.                     *)
LEMMA LeastNumber == \A T \in SUBSET Nat : T # {} => \E x \in T : \A y \in T : x <= y
<1> DEFINE R == OpToRel(<, Nat)
<1>1. IsWellFoundedOn(R, Nat)
  BY NatLessThanWellFounded
<1>2. \A x, y \in Nat : <<x, y>> \in R <=> x < y
  BY DEF OpToRel
<1> HIDE DEF R
<1> TAKE T \in SUBSET Nat
<1> HAVE T # {}
<1>3. \E x \in T : \A y \in T : ~ (<<y, x>> \in R)
  BY <1>1, WFMin
<1>4. \A x, y \in Nat : ~ (y < x) => x <= y
  OBVIOUS
<1> QED
  BY <1>2, <1>3, <1>4

(* The last of some places of a sequence.                                  *)
LEMMA LastIsLast ==
  ASSUME NEW n \in Nat, NEW S \in SUBSET (1..n), S # {}
  PROVE  Last(S) \in S /\ \A y \in S : y <= Last(S)
<1> DEFINE T == {n - x : x \in S}
<1>1. T \in SUBSET Nat /\ T # {}
  <2>1. \A x \in S : x \in 1..n
    OBVIOUS
  <2>2. \A x \in 1..n : n - x \in Nat
    OBVIOUS
  <2> QED
    BY <2>1, <2>2
<1>2. PICK z \in T : \A y \in T : z <= y
  <2> HIDE DEF T
  <2> QED
    BY <1>1, LeastNumber
<1>3. PICK x \in S : z = n - x
  BY <1>2
<1>4. \A y \in S : y <= x
  <2> TAKE y \in S
  <2>1. n - x <= n - y
    BY <1>2, <1>3
  <2> QED
    BY <2>1
<1> QED
  BY <1>4 DEF Last

(* The application the conversation is about: the last message that names   *)
(* any names only it.                                                      *)
LastNamed(q, app) ==
  \E i \in 1..Len(q.history) :
    /\ q.history[i] = {app}
    /\ \A j \in (i + 1)..Len(q.history) : q.history[j] \subseteq {app}

LEMMA OnlyOne ==
  ASSUME NEW S, IsFiniteSet(S), ~(Cardinality(S) > 1), NEW x \in S
  PROVE  S = {x}
<1>1. Cardinality(S) \in Nat
  BY FS_CardinalityType
<1>2. Cardinality(S \ {x}) = Cardinality(S) - 1 /\ IsFiniteSet(S \ {x})
  BY FS_RemoveElement
<1>3. Cardinality(S \ {x}) \in Nat
  BY <1>2, FS_CardinalityType
<1>4. Cardinality(S \ {x}) = 0
  BY <1>1, <1>2, <1>3
<1>5. S \ {x} = {}
  BY <1>2, <1>4, FS_EmptySet
<1> QED
  BY <1>5

LEMMA ResolvedConversation ==
  ASSUME NEW q, q.history \in Seq(SUBSET Applications), NEW app \in resolveConversationSubject(q)
  PROVE  LastNamed(q, app)
<1> DEFINE naming == {i \in 1..Len(q.history) : q.history[i] # {}}
           last == q.history[Last(naming)]
<1>1. naming # {} /\ Cardinality(last) = 1 /\ app \in last
  BY DEF resolveConversationSubject
<1>2. Len(q.history) \in Nat
  OBVIOUS
<1>3. Last(naming) \in naming /\ \A y \in naming : y <= Last(naming)
  <2>1. naming \in SUBSET (1..Len(q.history))
    OBVIOUS
  <2> HIDE DEF naming
  <2> QED
    BY <1>1, <1>2, <2>1, LastIsLast
<1>4. last = {app}
  <2>1. last \in SUBSET Applications
    <3>1. Last(naming) \in 1..Len(q.history)
      BY <1>3
    <3> HIDE DEF naming
    <3> QED
      BY <3>1
  <2>2. IsFiniteSet(last)
    BY <2>1, ApplicationsAssumption, FS_Subset
  <2> HIDE DEF last
  <2> QED
    BY <1>1, <2>2, OnlyOne
<1>5. \A j \in (Last(naming) + 1)..Len(q.history) : q.history[j] = {}
  <2> TAKE j \in (Last(naming) + 1)..Len(q.history)
  <2>1. Last(naming) \in 1..Len(q.history)
    BY <1>3
  <2>2. j \in 1..Len(q.history) /\ ~(j <= Last(naming))
    <3> HIDE DEF naming
    <3> QED BY <1>2, <2>1
  <2> QED
    BY <1>3, <2>2
<1>6. Last(naming) \in 1..Len(q.history)
  BY <1>3
<1> HIDE DEF naming
<1> QED
  BY <1>4, <1>5, <1>6 DEF LastNamed

LEMMA AllOfConversation ==
  ASSUME NEW q, q.history \in Seq(SUBSET Applications),
         NEW app \in UNION {q.history[i] : i \in 1..Len(q.history)},
         ~(Cardinality(UNION {q.history[i] : i \in 1..Len(q.history)}) > 1)
  PROVE  LastNamed(q, app)
<1> DEFINE all == UNION {q.history[i] : i \in 1..Len(q.history)}
<1>1. all \in SUBSET Applications
  OBVIOUS
<1>2. IsFiniteSet(all)
  <2> HIDE DEF all
  <2> QED
    BY <1>1, ApplicationsAssumption, FS_Subset
<1>3. all = {app}
  <2> HIDE DEF all
  <2> QED
    BY <1>2, OnlyOne DEF all
<1>4. \A i \in 1..Len(q.history) : q.history[i] \subseteq {app}
  BY <1>3
<1>5. PICK i \in 1..Len(q.history) : app \in q.history[i]
  OBVIOUS
<1>6. q.history[i] = {app}
  BY <1>4, <1>5
<1>7. Len(q.history) \in Nat
  OBVIOUS
<1> HIDE DEF all
<1> QED
  BY <1>4, <1>5, <1>6, <1>7 DEF LastNamed

(* What the one subject of a question is.                                  *)
AboutTheSubject(q, app) ==
  \/ app \in q.named
  \/ q.named = {} /\ q.refers # "no" /\ LastNamed(q, app)

LEMMA SubjectIsMeant ==
  ASSUME NEW q, q.history \in Seq(SUBSET Applications),
         NEW app \in resolveShadowSubjects(q), ~(Cardinality(resolveShadowSubjects(q)) > 1)
  PROVE  AboutTheSubject(q, app)
<1>1. CASE q.named # {}
  BY <1>1 DEF resolveShadowSubjects, AboutTheSubject
<1>2. CASE q.named = {}
  <2>1. q.refers # "no" /\ resolveShadowSubjects(q) = phase2CConversationSubjects(q)
    BY <1>2 DEF resolveShadowSubjects, shouldInheritBareThisApplication
  <2>2. LastNamed(q, app)
    <3>1. CASE shouldInheritBareThisApplication(q)
      <4>1. resolveShadowSubjects(q) = UNION {q.history[i] : i \in 1..Len(q.history)}
        BY <2>1, <3>1 DEF phase2CConversationSubjects
      <4> QED
        BY <4>1, AllOfConversation
    <3>2. CASE ~shouldInheritBareThisApplication(q)
      BY <2>1, <3>2, ResolvedConversation DEF phase2CConversationSubjects
    <3> QED
      BY <3>1, <3>2
  <2> QED
    BY <1>2, <2>1, <2>2 DEF AboutTheSubject
<1> QED
  BY <1>1, <1>2
--------------------------------------------------------------------------------
(* A requirement is a record, so that its subject can be replaced.         *)
IsRequirement(req) ==
  req = [type |-> req.type, kind |-> req.kind, subject |-> req.subject, window |-> req.window,
         criticality |-> req.criticality]

About(req, subject) == [req EXCEPT !.subject = subject]

LEMMA AboutKeeps ==
  ASSUME NEW req, IsRequirement(req), NEW subject
  PROVE  LET r == About(req, subject)
         IN /\ r.type = req.type /\ r.kind = req.kind /\ r.window = req.window
            /\ r.criticality = req.criticality /\ r.subject = subject
<1> DEFINE r == [type |-> req.type, kind |-> req.kind, subject |-> req.subject, window |-> req.window,
                 criticality |-> req.criticality]
<1>1. About(req, subject) = [r EXCEPT !.subject = subject]
  BY DEF About, IsRequirement
<1>2. [r EXCEPT !.subject = subject] =
        [type |-> req.type, kind |-> req.kind, subject |-> subject, window |-> req.window,
         criticality |-> req.criticality]
  OBVIOUS
<1> QED
  BY <1>1, <1>2

(* What is followed up: a capability asked about a requirement that has a gap. *)
FollowsUp(c, req, cap, subject, executed, seeded) ==
  /\ c.type = About(req, subject).type /\ c.read = ReadOf(cap, About(req, subject))
  /\ providerSupportsEvidenceSubject(cap, About(req, subject).kind)
  /\ ArgumentsAccepted(cap, About(req, subject), seeded)
  /\ c.read \notin executed
  /\ CostUnits(cap) <= 2

(* With a capability its type has, or the one that left the gap.           *)
GapCap(req, e, cap) ==
  \/ cap \in {evidenceProviderPriority(req.type)[i] : i \in 1..Len(evidenceProviderPriority(req.type))}
  \/ \E m \in e.missing : m.type = req.type /\ m.cap = cap

LEMMA GapsAre ==
  ASSUME NEW requirements, NEW e, NEW gap \in materialEvidenceGaps(requirements, e)
  PROVE  /\ gap.req \in requirements
         /\ gap.cap = "none" \/ \E m \in e.missing : m.type = gap.req.type /\ m.cap = gap.cap
<1> DEFINE material(req) == {m \in e.missing : m.type = req.type /\ isMaterialFollowUpMissing(req, m)}
<1>1. CASE gap \in {GapOf(req, material(req)) : req \in {r \in requirements : material(r) # {}}}
  <2>1. PICK req \in requirements : material(req) # {} /\ gap = GapOf(req, material(req))
    BY <1>1
  <2> DEFINE grave == {m \in material(req) : m.availability # "partial"}
             entry == CHOOSE m \in (IF grave # {} THEN grave ELSE material(req)) : TRUE
  <2>2. entry \in material(req)
    BY <2>1
  <2>3. gap.req = req /\ gap.cap = entry.cap
    BY <2>1 DEF GapOf
  <2> HIDE DEF entry
  <2> QED
    BY <2>2, <2>3
<1>2. CASE gap \in {[rank |-> 1, req |-> req, cap |-> "none"] : req \in {r \in requirements : r.type \in e.conflicts}}
  BY <1>2
<1> QED
  BY <1>1, <1>2 DEF materialEvidenceGaps

LEMMA OrderIs ==
  ASSUME NEW gap, gap.req.type \in EvidenceTypes, NEW i \in 1..Len(followUpProviderOrder(gap))
  PROVE  \/ gap.cap # "none" /\ followUpProviderOrder(gap)[i] = gap.cap
         \/ \E j \in 1..Len(evidenceProviderPriority(gap.req.type)) :
              followUpProviderOrder(gap)[i] = evidenceProviderPriority(gap.req.type)[j]
<1> DEFINE order == evidenceProviderPriority(gap.req.type)
<1>0. (\E a : order = <<a>>) \/ (\E a, b : order = <<a, b>>)
  BY DEF evidenceProviderPriority, EvidenceTypes
<1> HIDE DEF order
<1>1. PICK S : order \in Seq(S)
  <2>1. ASSUME NEW a, order = <<a>> PROVE order \in Seq({a})
    BY <2>1
  <2>2. ASSUME NEW a, NEW b, order = <<a, b>> PROVE order \in Seq({a, b})
    BY <2>2
  <2> QED
    BY <1>0, <2>1, <2>2
<1>2. CASE gap.cap = "none"
  <2>1. followUpProviderOrder(gap) = <<>> \o order
    BY <1>2 DEF followUpProviderOrder, order
  <2>2. <<>> \o order = order
    BY <1>1
  <2> QED
    BY <2>1, <2>2 DEF order
<1>3. CASE gap.cap # "none"
  <2>1. followUpProviderOrder(gap) = <<gap.cap>> \o order
    BY <1>3 DEF followUpProviderOrder, order
  <2>2. Len(<<gap.cap>> \o order) = 1 + Len(order) /\ Len(order) \in Nat
    BY <1>1
  <2>3. i = 1 => (<<gap.cap>> \o order)[i] = gap.cap
    BY <1>1
  <2>4. i # 1 => i - 1 \in 1..Len(order) /\ (<<gap.cap>> \o order)[i] = order[i - 1]
    BY <1>1, <2>1, <2>2
  <2> QED
    BY <1>3, <2>1, <2>3, <2>4 DEF order
<1> QED
  BY <1>2, <1>3

LEMMA CandidateIs ==
  ASSUME NEW requirements, \A r \in requirements : r.type \in EvidenceTypes,
         NEW e, NEW executed, NEW seeded,
         NEW c \in FollowUpCandidates(requirements, e, executed, seeded)
  PROVE  \E req \in requirements : \E cap : \E subject \in followUpSubjects(req, e) :
           FollowsUp(c, req, cap, subject, executed, seeded) /\ GapCap(req, e, cap)
<1>1. PICK gap \in materialEvidenceGaps(requirements, e) :
        c \in UNION {CandidatesOf(gap, [gap.req EXCEPT !.subject = subject], executed, seeded) :
                       subject \in followUpSubjects(gap.req, e)}
  BY Zenon DEF FollowUpCandidates
<1>2. PICK subject \in followUpSubjects(gap.req, e) :
        c \in CandidatesOf(gap, [gap.req EXCEPT !.subject = subject], executed, seeded)
  BY <1>1, Zenon
<1> DEFINE req == About(gap.req, subject)
           order == followUpProviderOrder(gap)
<1>3. c \in CandidatesOf(gap, req, executed, seeded)
  BY <1>2 DEF About
<1> HIDE DEF req
<1>4. PICK i \in FollowUpProviders(gap, req, executed, seeded) :
        c = [rank |-> gap.rank, type |-> req.type, read |-> ReadOf(order[i], req)]
  BY <1>3 DEF CandidatesOf
<1>5. /\ i \in 1..Len(order)
      /\ providerSupportsEvidenceSubject(order[i], req.kind)
      /\ ArgumentsAccepted(order[i], req, seeded)
      /\ ReadOf(order[i], req) \notin executed
      /\ CostUnits(order[i]) <= 2
  BY <1>4 DEF FollowUpProviders, phase2DMaxAdditionalLogicalReads
<1>6. gap.req \in requirements /\ (gap.cap = "none" \/ \E m \in e.missing : m.type = gap.req.type /\ m.cap = gap.cap)
  BY GapsAre
<1>7. GapCap(gap.req, e, order[i])
  <2>1. \/ gap.cap # "none" /\ order[i] = gap.cap
        \/ \E j \in 1..Len(evidenceProviderPriority(gap.req.type)) :
              order[i] = evidenceProviderPriority(gap.req.type)[j]
    BY <1>5, <1>6, OrderIs
  <2> QED
    BY <1>6, <2>1 DEF GapCap
<1>8. FollowsUp(c, gap.req, order[i], subject, executed, seeded)
  <2>1. c.type = req.type /\ c.read = ReadOf(order[i], req)
    BY <1>4
  <2> HIDE DEF order
  <2> QED
    BY <1>5, <2>1 DEF FollowsUp, req
<1> QED
  BY <1>6, <1>7, <1>8
--------------------------------------------------------------------------------
LEMMA RequirementsAreRecords == \A req \in Requirements : IsRequirement(req)
<1>1. \A t, f : IsRequirement(Required(t, f))
  BY DEF IsRequirement, Required
<1> QED
  BY <1>1, RequirementsAre

LEMMA RequirementsTyped ==
  \A req \in Requirements : req.type \in EvidenceTypes /\ req.kind = KindOf(req.type)
BY RequirementsWellFormed DEF WellFormed

(* A read is about an application only if the question is.                 *)
Mine(read) == read.on \in Applications => AboutTheSubject(question, read.on)

LEMMA RequirementsAreMine ==
  ASSUME question \in Questions, NEW req \in Requirements, req.subject \in Applications
  PROVE  AboutTheSubject(question, req.subject)
<1> DEFINE q == RouterQuestion(question, listed)
<1>1. PICK t : req = Required(t, decision.frame)
  BY RequirementsAre
<1>2. req.subject \in decision.frame.subjects
  <2>1. req.subject = requirementSubjectForFrame(t.kind, decision.frame)
    BY <1>1 DEF Required
  <2> QED
    BY <2>1, SubjectsAssumption DEF requirementSubjectForFrame, Host
<1>3. ~(Cardinality(decision.frame.subjects) > 1)
  BY RequirementsAre
<1>4. decision.frame.subjects = resolveShadowSubjects(q)
  <2>1. decision.frame = Frame(q)
    BY DEF decision, buildShadowInvestigationRoute, Decision
  <2> QED
    BY <2>1 DEF Frame
<1>5. question.history \in Seq(SUBSET Applications)
  BY QuestionsAssumption
<1>6. CASE listed
  <2>1. q = question
    BY <1>6 DEF RouterQuestion
  <2> QED
    BY <1>2, <1>3, <1>4, <1>5, <2>1, SubjectIsMeant
<1>7. CASE ~listed
  <2>1. q.named = question.named \cap {Host} /\ q.history = <<>>
    <3>1. q = [question EXCEPT !.named = @ \cap {Host}, !.history = <<>>]
      BY <1>7 DEF RouterQuestion
    <3>2. question \in [concepts : SUBSET Concepts, mentions : SUBSET Domains, named : SUBSET Subjects,
             refers : {"no", "it", "this"}, history : Seq(SUBSET Applications), times : Seq(Nat),
             window : SUBSET {"incident", "yesterday", "today", "range", "now"}, now : Nat,
             place : {"none", "word", "reactorlab"}, seeded : BOOLEAN]
      BY QuestionsAssumption
    <3> HIDE DEF q
    <3> QED
      BY <3>1, <3>2
  <2>2. q.history \in Seq(SUBSET Applications)
    BY <2>1
  <2>3. AboutTheSubject(q, req.subject)
    <3> HIDE DEF q
    <3> QED
      BY <1>2, <1>3, <1>4, <2>2, SubjectIsMeant
  <2>4. req.subject # Host
    BY SubjectsAssumption
  <2>5. FALSE
    <3> HIDE DEF q
    <3> QED
      BY <2>1, <2>3, <2>4 DEF AboutTheSubject, LastNamed
  <2> QED
    BY <2>5
<1> QED
  BY <1>6, <1>7

LEMMA ReadsAreOn ==
  ASSUME NEW cap, NEW req
  PROVE  ReadOf(cap, req).on \in {req.subject, "none"}
BY DEF ReadOf

LEMMA DraftIsMine ==
  ASSUME question \in Questions
  PROVE  \A read \in ReadsOf(Draft.requests) : Mine(read)
<1> SUFFICES ASSUME NEW read \in ReadsOf(Draft.requests), read.on \in Applications
             PROVE  AboutTheSubject(question, read.on)
  BY DEF Mine
<1>1. PICK req \in Requirements : read = ReadOf(ProviderOf(req.type), req)
  BY DraftRequests, WantedAreRequired DEF ReadsOf, RequestOf
<1>2. read.on = req.subject
  BY <1>1, ReadsAreOn, SubjectsAssumption
<1> QED
  BY <1>2, RequirementsAreMine

LEMMA SecondIsMine ==
  ASSUME question \in Questions, NEW e, NEW executed, NEW seeded,
         NEW chosen \in SecondRounds(FollowUpCandidates(Requirements, e, executed, seeded))
  PROVE  \A read \in ReadsOf(FollowUpRequests(chosen)) : Mine(read)
<1> SUFFICES ASSUME NEW read \in ReadsOf(FollowUpRequests(chosen)), read.on \in Applications
             PROVE  AboutTheSubject(question, read.on)
  BY DEF Mine
<1>1. PICK c \in FollowUpCandidates(Requirements, e, executed, seeded) : c.read = read
  <2>1. chosen \subseteq FollowUpCandidates(Requirements, e, executed, seeded)
    BY DEF SecondRounds
  <2> QED
    BY <2>1 DEF ReadsOf, FollowUpRequests
<1>2. PICK req \in Requirements : \E cap : \E subject \in followUpSubjects(req, e) :
        FollowsUp(c, req, cap, subject, executed, seeded)
  BY CandidateIs, RequirementsTyped
<1>3. PICK cap : \E subject \in followUpSubjects(req, e) : FollowsUp(c, req, cap, subject, executed, seeded)
  BY <1>2
<1>7. PICK subject \in followUpSubjects(req, e) : FollowsUp(c, req, cap, subject, executed, seeded)
  BY <1>3
<1>4. read.on = subject
  <2>1. About(req, subject).subject = subject
    BY RequirementsAreRecords, AboutKeeps
  <2>2. read = ReadOf(cap, About(req, subject))
    BY <1>1, <1>7 DEF FollowsUp
  <2> QED
    BY <2>1, <2>2, ReadsAreOn, SubjectsAssumption
<1>5. subject = req.subject \/ subject \in Databases
  BY DEF followUpSubjects
<1>6. subject = req.subject
  BY <1>4, <1>5, SubjectsAssumption
<1> QED
  BY <1>4, <1>6, RequirementsAreMine

(* Whatever is planned, and so whatever runs, is about that subject.       *)
SubjectInv ==
  /\ question \in Questions
  /\ \A read \in ReadsOf(plan.requests) \cup ReadsOf(second) \cup ran : Mine(read)

LEMMA SubjectInit == Init => SubjectInv
BY DEF Init, SubjectInv, NoPlan, ReadsOf

LEMMA RunAddsReads ==
  ASSUME NEW requests, NEW n, Run(requests, n)
  PROVE  ran' = ran \cup ReadsOf(requests)
BY DEF Run

LEMMA SubjectNext == SubjectInv /\ [Next]_vars => SubjectInv'
<1> SUFFICES ASSUME SubjectInv, [Next]_vars PROVE SubjectInv'
  OBVIOUS
<1> USE DEF SubjectInv
<1>0. question' = question
  BY DEF Next, vars, Prepare, ExecuteFirst, FailFirst, ReduceFirst, PlanSecondEvidenceRound,
        ExecuteSecond, FailSecond, ReduceSecond, FailPacket, BuildPacket, RefuseModel, AskModel,
        AnswerModel, Cancel, Finished, Limit
<1>1. ASSUME \A read \in ReadsOf(plan.requests)' \cup ReadsOf(second)' \cup ran' : Mine(read)
      PROVE  SubjectInv'
  BY <1>0, <1>1 DEF Mine, AboutTheSubject, LastNamed
<1>2. CASE Prepare
  <2>1. UNCHANGED <<second, ran>> /\ (plan' = plan \/ plan' = Draft)
    BY <1>2 DEF Prepare
  <2> QED
    BY <1>1, <2>1, DraftIsMine DEF ReadsOf
<1>3. CASE ExecuteFirst
  <2>1. UNCHANGED <<plan, second>> /\ ran' = ran \cup ReadsOf(plan.requests)
    BY <1>3, RunAddsReads DEF ExecuteFirst
  <2> QED
    BY <1>1, <2>1 DEF ReadsOf
<1>4. CASE PlanSecondEvidenceRound
  <2> DEFINE executed == ReadsOf(plan.requests) \cup {r.read : r \in results}
  <2>1. PICK chosen \in SecondRounds(FollowUpCandidates(Requirements, evidence, executed, question.seeded)) :
          second' = FollowUpRequests(chosen)
    BY <1>4 DEF PlanSecondEvidenceRound
  <2>2. UNCHANGED <<plan, ran>>
    BY <1>4 DEF PlanSecondEvidenceRound
  <2>3. \A read \in ReadsOf(second') : Mine(read)
    <3> HIDE DEF executed
    <3> QED
      BY <2>1, SecondIsMine
  <2> QED
    BY <1>1, <2>2, <2>3 DEF ReadsOf
<1>5. CASE ExecuteSecond
  <2>1. /\ second' = second /\ ran' = ran \cup ReadsOf(second)
        /\ plan'.requests = plan.requests \cup second
    BY <1>5, RunAddsReads DEF ExecuteSecond, combineEvidencePlans
  <2> QED
    BY <1>1, <2>1 DEF ReadsOf
<1>6. CASE ReduceSecond
  <2>1. UNCHANGED <<second, ran>>
    BY <1>6 DEF ReduceSecond
  <2>2. plan'.requests = plan.requests
    <3>1. PICK resolved : plan' = combineEvidencePlans(plan, {}, resolved)
      BY <1>6 DEF ReduceSecond
    <3> QED
      BY <3>1 DEF combineEvidencePlans
  <2> QED
    BY <1>1, <2>1, <2>2 DEF ReadsOf
<1>7. CASE UNCHANGED <<plan, second, ran>>
  BY <1>1, <1>7 DEF ReadsOf
<1>8. Prepare \/ ExecuteFirst \/ PlanSecondEvidenceRound \/ ExecuteSecond \/ ReduceSecond
        \/ UNCHANGED <<plan, second, ran>>
  BY DEF Next, vars, FailFirst, ReduceFirst, FailSecond, FailPacket, BuildPacket, RefuseModel, AskModel,
        AnswerModel, Cancel, Finished
<1> QED
  BY <1>2, <1>3, <1>4, <1>5, <1>6, <1>7, <1>8

(* Reads about an application are about the one the question names or, when *)
(* it names none and refers back, the one the conversation is about: the    *)
(* last message that names any names only it (phase2c_stream.go:65).       *)
THEOREM ReadsAreAboutTheSubject == Spec => []AsksAboutTheSubject
<1>1. SubjectInv => AsksAboutTheSubject
  BY DEF SubjectInv, Mine, AboutTheSubject, LastNamed, AsksAboutTheSubject
<1> QED
  BY <1>1, SubjectInit, SubjectNext, PTL DEF Spec
--------------------------------------------------------------------------------
(* The terms of ConfidenceIsEarned, of given results and evidence.          *)
ReadAs(rs, req, outcomes) == \E r \in rs : req.type \in r.serves /\ r.outcome \in outcomes

MadeUpIn(rs, result) ==
  /\ result.round = 1
  /\ \A type \in result.serves : \E later \in rs :
       later.round = 2 /\ type \in later.serves /\ later.outcome = "complete"

WholeIn(rs, reqs, outcomes) ==
  /\ \A req \in reqs : ReadAs(rs, req, outcomes)
  /\ \A r \in rs : \/ r.outcome \in outcomes \/ MadeUpIn(rs, r)
                   \/ r.serves \cap {req.type : req \in reqs} = {}

(* What a confidence claims of the results it is given for. *)
Earns(confidence, reqs, rs, ev) ==
  /\ confidence = "high" => WholeIn(rs, reqs, {"complete"})
  /\ confidence = "medium" => WholeIn(rs, Critical(reqs), {"complete", "limited"})
  /\ confidence # "low" => ev.conflicts = {}

LEMMA EarnedIs ==
  ConfidenceIsEarned <=>
    (answer.mode = "evidence" => Earns(answer.confidence, Requirements, results, evidence))
BY DEF ConfidenceIsEarned, Earns, WholeIn, ReadAs, MadeUpIn, MadeUp

(* What a confidence says of the evidence it is read from.                 *)
LEMMA NotLow ==
  ASSUME NEW reqs, NEW ev, DecideEvidenceConfidence(reqs, ev) # "low"
  PROVE  /\ ev.conflicts = {}
         /\ \A req \in Critical(reqs) :
              /\ \E i \in ev.items : i.type = req.type
              /\ ~\E m \in ev.missing : m.type = req.type /\ m.criticality = "critical"
<1> DEFINE items(req) == {i \in ev.items : i.type = req.type}
           grave(req) == {m \in {x \in ev.missing : x.type = req.type} : m.criticality = "critical"}
<1>1. /\ ev.conflicts = {}
      /\ ~\E req \in Critical(reqs) : items(req) = {}
      /\ ~\E req \in Critical(reqs) : grave(req) # {}
  BY Zenon DEF DecideEvidenceConfidence
<1> QED
  BY <1>1

LEMMA High ==
  ASSUME NEW reqs, NEW ev, DecideEvidenceConfidence(reqs, ev) = "high"
  PROVE  \A req \in reqs :
           /\ \E i \in ev.items : i.type = req.type
           /\ ~\E m \in ev.missing : m.type = req.type
<1>1. /\ ev.conflicts = {}
      /\ \A req \in Critical(reqs) :
              /\ \E i \in ev.items : i.type = req.type
              /\ ~\E m \in ev.missing : m.type = req.type /\ m.criticality = "critical"
  BY NotLow
<1>2. \A req \in Critical(reqs) :
        {m \in ev.missing : m.type = req.type} =
          {m \in {x \in ev.missing : x.type = req.type} : m.criticality = "critical"}
  BY DEF DecideEvidenceConfidence
<1>3. \A req \in reqs \ Critical(reqs) :
        {m \in ev.missing : m.type = req.type} = {} /\ {i \in ev.items : i.type = req.type} # {}
  BY DEF DecideEvidenceConfidence
<1> QED
  BY <1>1, <1>2, <1>3

(* What the reduction of results holds: an entry for each result that left  *)
(* something open, an item only for one that saw something.                *)
Entry(req, cap, criticality, availability) ==
  [type |-> req.type, criticality |-> criticality, cap |-> cap, availability |-> availability]

LEMMA EntriesOf ==
  ASSUME NEW r, NEW req
  PROVE  ReducedMissing(r, req) =
           CASE r.outcome = "unavailable" -> {Entry(req, r.read.cap, req.criticality, "unavailable")}
             [] r.outcome = "partial" -> {Entry(req, r.read.cap, req.criticality, "partial")}
             [] r.outcome = "limited" -> {Entry(req, r.read.cap, "supporting", "partial")}
             [] OTHER -> {}
<1>1. \A availability, criticality :
         [Missing(req, r.read.cap, availability) EXCEPT !.criticality = criticality]
           = Entry(req, r.read.cap, criticality, availability)
  BY DEF Missing, Entry
<1> QED
  BY <1>1, Zenon DEF ReducedMissing

LEMMA ItemsAreOf ==
  ASSUME NEW r, NEW req
  PROVE  \A i \in ReducedItems(r, req) : i.type = req.type
BY DEF ReducedItems, Item

LEMMA ReductionIs ==
  ASSUME NEW reqs, NEW refused, NEW rs, NEW differs
  PROVE  LET e == ReduceEvidenceResults(reqs, refused, rs, differs)
         IN /\ \A r \in rs, req \in reqs : req.type \in r.serves => ReducedMissing(r, req) \subseteq e.missing
            /\ \A m \in e.missing : m \in refused \/ \E r \in rs, req \in reqs :
                 req.type \in r.serves /\ m \in ReducedMissing(r, req)
            /\ \A i \in e.items : \E r \in rs, req \in reqs :
                 req.type \in r.serves /\ r.outcome # "unavailable" /\ i.type = req.type
            /\ e = [items |-> e.items, missing |-> e.missing, conflicts |-> e.conflicts]
<1> DEFINE served == {p \in rs \X reqs : p[2].type \in p[1].serves}
           seen == {p \in served : p[1].outcome # "unavailable"}
           items == UNION {ReducedItems(p[1], p[2]) : p \in seen}
           missing == refused \cup (UNION {ReducedMissing(p[1], p[2]) : p \in served})
           e == ReduceEvidenceResults(reqs, refused, rs, differs)
<1>1. e.items = items /\ e.missing = missing /\ e = [items |-> e.items, missing |-> e.missing, conflicts |-> e.conflicts]
  BY DEF ReduceEvidenceResults
<1>2. \A r \in rs, req \in reqs : req.type \in r.serves => ReducedMissing(r, req) \subseteq missing
  <2> TAKE r \in rs, req \in reqs
  <2> HAVE req.type \in r.serves
  <2>1. <<r, req>> \in served
    OBVIOUS
  <2>2. ReducedMissing(r, req) \in {ReducedMissing(p[1], p[2]) : p \in served}
    <3>1. <<r, req>>[1] = r /\ <<r, req>>[2] = req
      OBVIOUS
    <3> HIDE DEF served
    <3> QED
      BY <2>1, <3>1
  <2> QED
    BY <2>2
<1>3. \A m \in missing : m \in refused \/ \E r \in rs, req \in reqs :
         req.type \in r.serves /\ m \in ReducedMissing(r, req)
  <2> TAKE m \in missing
  <2>1. m \in refused \/ \E p \in served : m \in ReducedMissing(p[1], p[2])
    OBVIOUS
  <2> QED
    BY <2>1
<1>4. \A i \in items : \E r \in rs, req \in reqs :
        req.type \in r.serves /\ r.outcome # "unavailable" /\ i.type = req.type
  <2> TAKE i \in items
  <2>1. PICK p \in seen : i \in ReducedItems(p[1], p[2])
    OBVIOUS
  <2>2. p[1] \in rs /\ p[2] \in reqs /\ p[2].type \in p[1].serves /\ p[1].outcome # "unavailable"
    OBVIOUS
  <2>3. i.type = p[2].type
    BY <2>1, ItemsAreOf
  <2> QED
    BY <2>2, <2>3
<1> HIDE DEF items, missing, e
<1> QED
  BY <1>1, <1>2, <1>3, <1>4 DEF e
--------------------------------------------------------------------------------
(* A result left something open: it has an entry of its own in the evidence *)
(* unless a later read of what it was for settled that.                    *)
LEMMA OpenHasEntry ==
  ASSUME NEW r, NEW req, r.outcome \in Outcomes \ {"complete"},
         NEW missing, ReducedMissing(r, req) \subseteq missing, NEW prior, NEW resolved
  PROVE  \/ \E m \in filterResolvedPriorMissing(missing, prior, resolved) :
               /\ m.type = req.type /\ m.cap = r.read.cap
               /\ r.outcome # "limited" => m.criticality = req.criticality
         \/ /\ req.type \in resolved
            /\ \E m \in prior : /\ m.type = req.type /\ m.cap = r.read.cap
                                /\ m.availability # "unsupported"
<1> DEFINE m == CASE r.outcome = "unavailable" -> Entry(req, r.read.cap, req.criticality, "unavailable")
                  [] r.outcome = "partial" -> Entry(req, r.read.cap, req.criticality, "partial")
                  [] r.outcome = "limited" -> Entry(req, r.read.cap, "supporting", "partial")
<1>1. ReducedMissing(r, req) = {m}
  BY EntriesOf DEF Outcomes
<1>2. /\ m.type = req.type /\ m.cap = r.read.cap /\ m.availability # "unsupported"
      /\ r.outcome # "limited" => m.criticality = req.criticality
  BY DEF Entry, Outcomes
<1> HIDE DEF m
<1>3. m \in filterResolvedPriorMissing(missing, prior, resolved) \/ (m.type \in resolved /\ m \in prior)
  BY <1>1 DEF filterResolvedPriorMissing
<1> QED
  BY <1>2, <1>3

(* Each result is of a round and reads for one requirement; what settled a  *)
(* limitation of before is a read that saw something, with another          *)
(* capability than the limitation is of.                                   *)
Rounded(rs) ==
  \A r \in rs : r.outcome \in Outcomes /\ r.round \in {1, 2} /\ \E type : r.serves = {type}

Settles(rs, reqs, prior, resolved) ==
  /\ \A r \in rs : r.round = 2 =>
       /\ r.outcome # "limited"
       /\ \A req \in reqs : req.type \in r.serves =>
            ~\E m \in prior : m.type = req.type /\ m.cap = r.read.cap /\ m.availability # "unsupported"
  /\ \A type \in resolved : \E r \in rs :
       r.round = 2 /\ type \in r.serves /\ r.outcome # "unavailable"

(* The confidence in the evidence of some results rests on those results.   *)
LEMMA EvidenceEarns ==
  ASSUME NEW reqs, NEW refused, NEW rs, NEW differs, NEW prior, NEW resolved, NEW ev,
         ev.items = ReduceEvidenceResults(reqs, refused, rs, differs).items,
         ev.missing = filterResolvedPriorMissing(
           ReduceEvidenceResults(reqs, refused, rs, differs).missing, prior, resolved),
         Rounded(rs), Settles(rs, reqs, prior, resolved)
  PROVE  Earns(DecideEvidenceConfidence(reqs, ev), reqs, rs, ev)
<1> USE DEF Rounded, Settles
<1> DEFINE confidence == DecideEvidenceConfidence(reqs, ev)
           red == ReduceEvidenceResults(reqs, refused, rs, differs)
<1>1. ASSUME NEW req \in reqs, NEW r \in rs, req.type \in r.serves, r.outcome # "complete"
      PROVE  \/ \E m \in ev.missing :
                  /\ m.type = req.type
                  /\ r.outcome # "limited" => m.criticality = req.criticality
             \/ r.round = 1 /\ req.type \in resolved
  <2>1. r.outcome \in Outcomes \ {"complete"}
    BY <1>1
  <2>2. ev.missing = filterResolvedPriorMissing(red.missing, prior, resolved)
    OBVIOUS
  <2>4. ReducedMissing(r, req) \subseteq red.missing
    BY <1>1, ReductionIs
  <2> DEFINE missing == red.missing
  <2> HIDE DEF red, confidence, missing
  <2>5. ReducedMissing(r, req) \subseteq missing
    BY <2>4 DEF missing
  <2>6. \/ \E m \in filterResolvedPriorMissing(missing, prior, resolved) :
               /\ m.type = req.type /\ m.cap = r.read.cap
               /\ r.outcome # "limited" => m.criticality = req.criticality
        \/ /\ req.type \in resolved
           /\ \E m \in prior : /\ m.type = req.type /\ m.cap = r.read.cap
                               /\ m.availability # "unsupported"
    BY <2>1, <2>5, OpenHasEntry
  <2>3. \/ \E m \in ev.missing :
               /\ m.type = req.type /\ m.cap = r.read.cap
               /\ r.outcome # "limited" => m.criticality = req.criticality
        \/ /\ req.type \in resolved
           /\ \E m \in prior : /\ m.type = req.type /\ m.cap = r.read.cap
                               /\ m.availability # "unsupported"
    BY <2>2, <2>6 DEF missing
  <2> QED
    BY <1>1, <2>3
<1>2. ASSUME NEW req \in reqs, \E i \in ev.items : i.type = req.type
      PROVE  \E r \in rs : req.type \in r.serves /\ r.outcome # "unavailable"
  BY <1>2, ReductionIs
<1>3. ASSUME NEW req \in reqs, NEW r \in rs, r.round = 1, req.type \in r.serves, req.type \in resolved,
             \A later \in rs : later.round = 2 /\ req.type \in later.serves => later.outcome = "complete"
      PROVE  MadeUpIn(rs, r) /\ ReadAs(rs, req, {"complete"})
  <2>1. PICK later \in rs : later.round = 2 /\ req.type \in later.serves
    BY <1>3
  <2>2. r.serves = {req.type}
    BY <1>3
  <2> QED
    BY <1>3, <2>1, <2>2 DEF MadeUpIn, ReadAs
<1>4. ASSUME confidence = "high" PROVE WholeIn(rs, reqs, {"complete"})
  <2>1. \A req \in reqs : (\E i \in ev.items : i.type = req.type) /\ ~\E m \in ev.missing : m.type = req.type
    BY <1>4, High
  <2>2. \A req \in reqs, r \in rs : req.type \in r.serves /\ r.outcome # "complete" =>
          r.round = 1 /\ req.type \in resolved
    BY <1>1, <2>1
  <2>3. \A req \in reqs, r \in rs : req.type \in r.serves /\ r.outcome # "complete" =>
          MadeUpIn(rs, r) /\ ReadAs(rs, req, {"complete"})
    BY <1>3, <2>2
  <2>4. \A req \in reqs : ReadAs(rs, req, {"complete"})
    BY <1>2, <2>1, <2>3 DEF ReadAs
  <2> QED
    BY <2>3, <2>4 DEF WholeIn
<1>5. ASSUME confidence = "medium" PROVE WholeIn(rs, Critical(reqs), {"complete", "limited"})
  <2>1. \A req \in Critical(reqs) :
          /\ \E i \in ev.items : i.type = req.type
          /\ ~\E m \in ev.missing : m.type = req.type /\ m.criticality = "critical"
    BY <1>5, NotLow
  <2>2. \A req \in Critical(reqs) : req \in reqs /\ req.criticality = "critical"
    BY DEF Critical
  <2>3. \A req \in Critical(reqs), r \in rs :
          req.type \in r.serves /\ r.outcome \notin {"complete", "limited"} =>
            r.round = 1 /\ req.type \in resolved
    BY <1>1, <2>1, <2>2
  <2>4. \A req \in Critical(reqs), r \in rs :
          r.round = 2 /\ req.type \in r.serves => r.outcome = "complete"
    BY <2>3
  <2>5. \A req \in Critical(reqs), r \in rs :
          req.type \in r.serves /\ r.outcome \notin {"complete", "limited"} =>
            MadeUpIn(rs, r) /\ ReadAs(rs, req, {"complete"})
    BY <1>3, <2>2, <2>3, <2>4
  <2>6. \A req \in Critical(reqs) : ReadAs(rs, req, {"complete", "limited"})
    BY <1>2, <2>1, <2>2, <2>5 DEF ReadAs
  <2> QED
    BY <2>5, <2>6 DEF WholeIn
<1>6. confidence # "low" => ev.conflicts = {}
  BY NotLow
<1> QED
  BY <1>4, <1>5, <1>6 DEF Earns

--------------------------------------------------------------------------------
(* What the reads of the two rounds are: the first each for one requirement *)
(* with the capability it is planned with, the second with another.        *)
ReadFirst(r) == \E req \in Wanted : r.read.cap = ProviderOf(req.type) /\ r.serves = {req.type}

ReadLater(r) ==
  /\ r.read.cap \notin Compound
  /\ \E type \in EvidenceTypes : r.serves = {type}
  /\ \A req \in Wanted : req.type \in r.serves => r.read.cap # ProviderOf(req.type)

LEMMA DraftReadsFirst == \A request \in Draft.requests : ReadFirst(request)
BY DraftRequests, CapOfRead DEF ReadFirst, RequestOf

(* The evidence of the first round: each of its limitations is of a         *)
(* requirement, and by the capability it was or would have been planned with. *)
FirstLimitation(m) ==
  \E req \in Requirements :
    /\ m.type = req.type /\ m.cap = ProviderOf(req.type)
    /\ m.availability # "unsupported" => req \in Wanted

LEMMA RefusedAreFirst == \A m \in Draft.missing : FirstLimitation(m)
<1> TAKE m \in Draft.missing
<1>1. PICK req \in Requirements : m = Missing(req, selectEvidenceProvider(req), "unsupported")
  BY DEF Draft, BuildEvidencePlan
<1>2. selectEvidenceProvider(req) = ProviderOf(req.type)
  BY RequirementsTyped, ProviderIsFirst
<1> QED
  BY <1>1, <1>2 DEF FirstLimitation, Missing

LEMMA FirstEvidence ==
  ASSUME NEW rs, \A r \in rs : ReadFirst(r), NEW differs
  PROVE  \A m \in ReduceEvidenceResults(Requirements, Draft.missing, rs, differs).missing : FirstLimitation(m)
<1> DEFINE e == ReduceEvidenceResults(Requirements, Draft.missing, rs, differs)
<1> TAKE m \in e.missing
<1>1. CASE m \in Draft.missing
  BY <1>1, RefusedAreFirst
<1>2. CASE m \notin Draft.missing
  <2>1. PICK r \in rs, req \in Requirements : req.type \in r.serves /\ m \in ReducedMissing(r, req)
    BY <1>2, ReductionIs
  <2>2. m.type = req.type /\ m.cap = r.read.cap
    BY <2>1, EntriesOf DEF Entry
  <2>3. PICK wanted \in Wanted : r.read.cap = ProviderOf(wanted.type) /\ r.serves = {wanted.type}
    BY DEF ReadFirst
  <2>4. wanted = req
    BY <2>1, <2>3, WantedAreRequired, RequirementsWellFormed DEF WellFormed
  <2> QED
    BY <2>2, <2>3, <2>4 DEF FirstLimitation
<1> QED
  BY <1>1, <1>2
--------------------------------------------------------------------------------
(* A follow-up never repeats the capability of a requirement that was read. *)
LEMMA SameSubjectSameRead ==
  ASSUME NEW req, IsRequirement(req)
  PROVE  About(req, req.subject) = req
BY DEF About, IsRequirement

LEMMA DatabaseSubjects ==
  \A req \in Requirements : req.kind = "database" => req.subject \in Databases \cup {"all"}
<1> TAKE req \in Requirements
<1> HAVE req.kind = "database"
<1>1. PICK t, f : req = Required(t, f)
  BY RequirementsAre
<1>2. t.kind = "database" /\ req.subject = requirementSubjectForFrame(t.kind, f)
  BY <1>1 DEF Required
<1>3. requirementSubjectForFrame("database", f) \in Databases \cup {"all"}
  BY DEF requirementSubjectForFrame
<1> QED
  BY <1>2, <1>3

(* A follow-up of what was read has another capability: with the same one it *)
(* would be the same read, or one of a subject that could not be read yet.  *)
LEMMA FollowUpsDiffer ==
  ASSUME NEW req \in Wanted, NEW c, NEW cap, NEW e, NEW subject \in followUpSubjects(req, e),
         NEW executed, ReadsOf(Draft.requests) \subseteq executed,
         FollowsUp(c, req, cap, subject, executed, question.seeded)
  PROVE  cap # ProviderOf(req.type)
<1> SUFFICES ASSUME cap = ProviderOf(req.type) PROVE FALSE
  OBVIOUS
<1>1. req \in Requirements /\ IsRequirement(req) /\ req.type \in EvidenceTypes /\ req.kind = KindOf(req.type)
  BY WantedAreRequired, RequirementsAreRecords, RequirementsTyped
<1>2. ReadOf(cap, req) \in executed
  <2>1. RequestOf(req) \in Draft.requests
    BY DraftRequests
  <2>2. RequestOf(req).read = ReadOf(cap, req)
    BY DEF RequestOf
  <2> QED
    BY <2>1, <2>2 DEF ReadsOf
<1>3. ReadOf(cap, About(req, subject)) \notin executed
  BY DEF FollowsUp
<1>4. subject # req.subject
  BY <1>1, <1>2, <1>3, SameSubjectSameRead
<1>5. ~isResolvedFollowUpSubject(req.subject) /\ req.kind = "database"
  BY <1>4 DEF followUpSubjects
<1>6. req.subject = "all"
  BY <1>1, <1>5, DatabaseSubjects, SubjectsAssumption DEF isResolvedFollowUpSubject
<1>7. CASE req.type = "current_database"
  <2>1. cap = "list_databases"
    BY <1>7 DEF ProviderOf, evidenceProviderPriority
  <2>2. ReadOf(cap, About(req, subject)) = ReadOf(cap, req)
    BY <2>1 DEF ReadOf, AppReads, capabilityUsesHistoricalWindow
  <2> QED
    BY <1>2, <1>3, <2>2
<1>8. CASE req.type = "database_backups"
  <2>1. selectEvidenceProvider(req) = "read_database_backups"
    BY <1>1, <1>8, ProviderIsFirst DEF ProviderOf, evidenceProviderPriority
  <2>2. req \in Served(Requirements, question.seeded)
    BY <2>1 DEF Wanted, Planned, DeferredContent
  <2>3. ArgumentsAccepted("read_database_backups", req, question.seeded)
    BY <2>1, <2>2 DEF Served
  <2> QED
    BY <1>6, <2>3 DEF ArgumentsAccepted
<1> QED
  BY <1>1, <1>5, <1>7, <1>8 DEF KindOf, EvidenceTypes

LEMMA PlatformOverviews ==
  \A type \in EvidenceTypes, i \in 1..2 :
    /\ i \in 1..Len(evidenceProviderPriority(type))
    /\ evidenceProviderPriority(type)[i] = "get_platform_overview"
    => type = "current_platform"
BY DEF evidenceProviderPriority, EvidenceTypes

LEMMA FewProviders == \A type \in EvidenceTypes : Len(evidenceProviderPriority(type)) \in {1, 2}
BY DEF evidenceProviderPriority, EvidenceTypes

LEMMA FollowUpsAreLater ==
  ASSUME NEW e, \A m \in e.missing : FirstLimitation(m),
         NEW executed, ReadsOf(Draft.requests) \subseteq executed,
         NEW c \in FollowUpCandidates(Requirements, e, executed, question.seeded)
  PROVE  ReadLater([read |-> c.read, serves |-> {c.type}])
<1>0. PICK req \in Requirements : \E cap : \E subject \in followUpSubjects(req, e) :
        FollowsUp(c, req, cap, subject, executed, question.seeded) /\ GapCap(req, e, cap)
  BY CandidateIs, RequirementsTyped
<1>1. PICK cap : \E subject \in followUpSubjects(req, e) :
        FollowsUp(c, req, cap, subject, executed, question.seeded) /\ GapCap(req, e, cap)
  BY <1>0
<1>2. PICK subject \in followUpSubjects(req, e) :
        FollowsUp(c, req, cap, subject, executed, question.seeded) /\ GapCap(req, e, cap)
  BY <1>1
<1>3. /\ req.type \in EvidenceTypes /\ req.kind = KindOf(req.type)
      /\ About(req, subject).type = req.type /\ About(req, subject).kind = req.kind
  BY RequirementsTyped, RequirementsAreRecords, AboutKeeps
<1>4. c.type = req.type /\ c.read.cap = cap
  BY <1>2, <1>3, CapOfRead DEF FollowsUp
<1>5. \A wanted \in Wanted : wanted.type = req.type => wanted = req
  BY WantedAreRequired, RequirementsWellFormed DEF WellFormed
<1>6. req \in Wanted => cap # ProviderOf(req.type)
  BY <1>2, FollowUpsDiffer
<1>7. cap # "get_app_context"
  BY <1>2 DEF FollowsUp, CostUnits
<1>8. cap # "get_platform_overview"
  <2> SUFFICES ASSUME cap = "get_platform_overview" PROVE FALSE
    OBVIOUS
  <2>1. req.type = "current_platform"
    <3>1. CASE \E i \in 1..Len(evidenceProviderPriority(req.type)) : cap = evidenceProviderPriority(req.type)[i]
      <4>1. PICK i \in 1..Len(evidenceProviderPriority(req.type)) : cap = evidenceProviderPriority(req.type)[i]
        BY <3>1
      <4>2. Len(evidenceProviderPriority(req.type)) \in {1, 2}
        BY <1>3, FewProviders, Zenon
      <4>3. i \in 1..2
        BY <4>1, <4>2
      <4> QED
        BY <1>3, <4>1, <4>3, PlatformOverviews
    <3>2. CASE \E m \in e.missing : m.type = req.type /\ m.cap = cap
      <4>1. cap = ProviderOf(req.type)
        BY <3>2 DEF FirstLimitation
      <4> QED
        BY <1>3, <4>1, PlatformOverviews, FewProviders DEF ProviderOf
    <3> QED
      BY <1>2, <3>1, <3>2 DEF GapCap
  <2>2. ProviderOf(req.type) = "get_platform_overview"
    BY <2>1 DEF ProviderOf, evidenceProviderPriority
  <2>3. selectEvidenceProvider(req) = "get_platform_overview"
    BY <1>3, <2>2, ProviderIsFirst
  <2>4. ArgumentsAccepted("get_platform_overview", req, question.seeded)
    BY DEF ArgumentsAccepted, AppReads, WindowAccepted, capabilityUsesHistoricalWindow
  <2>5. req \in Wanted
    BY <2>3, <2>4 DEF Wanted, Planned, Served
  <2> QED
    BY <1>6, <2>2, <2>5
<1> DEFINE request == [read |-> c.read, serves |-> {c.type}]
<1>9. request.read.cap = cap /\ request.serves = {req.type}
  BY <1>4
<1> HIDE DEF request
<1>10. ReadLater(request)
  BY <1>3, <1>5, <1>6, <1>7, <1>8, <1>9 DEF ReadLater, Compound
<1> QED
  BY <1>10 DEF request
--------------------------------------------------------------------------------
(* The evidence of the first round allows only what its reads earned.      *)
LEMMA FirstReductionEarns ==
  ASSUME NEW rs, \A r \in rs : r.outcome \in Outcomes /\ r.round = 1 /\ ReadFirst(r), NEW differs
  PROVE  LET e == ReduceEvidenceResults(Requirements, Draft.missing, rs, differs)
         IN Earns(DecideEvidenceConfidence(Requirements, e), Requirements, rs, e)
<1> DEFINE e == ReduceEvidenceResults(Requirements, Draft.missing, rs, differs)
<1>1. e.missing = filterResolvedPriorMissing(e.missing, {}, {})
  BY DEF filterResolvedPriorMissing
<1>2. Rounded(rs)
  BY DEF Rounded, ReadFirst
<1>3. Settles(rs, Requirements, {}, {})
  BY DEF Settles
<1> QED
  BY <1>1, <1>2, <1>3, EvidenceEarns

(* So does the evidence of both rounds: a later read settles a requirement  *)
(* only when it saw something of it, and never hides its own limitations.   *)
LEMMA SecondReductionEarns ==
  ASSUME NEW rs,
         \A r \in rs : /\ r.outcome \in Outcomes /\ r.round \in {1, 2}
                       /\ r.round = 1 => ReadFirst(r)
                       /\ r.round = 2 => ReadLater(r) /\ r.outcome # "limited",
         NEW prior, \A m \in prior : FirstLimitation(m),
         NEW differs, NEW refused, NEW new, new = {r \in rs : r.round = 2},
         NEW resolved,
         resolved = resolvedFollowUpRequirements(ReduceEvidenceResults(Requirements, {}, new, differs)),
         NEW ev,
         ev = [ReduceEvidenceResults(Requirements, refused, rs, differs) EXCEPT !.missing =
                 filterResolvedPriorMissing(@, prior, resolved)]
  PROVE  Earns(DecideEvidenceConfidence(Requirements, ev), Requirements, rs, ev)
<1>1. Rounded(rs)
  BY DEF Rounded, ReadFirst, ReadLater
<1>2. \A r \in rs : r.round = 2 =>
        /\ r.outcome # "limited"
        /\ \A req \in Requirements : req.type \in r.serves =>
             ~\E m \in prior : m.type = req.type /\ m.cap = r.read.cap /\ m.availability # "unsupported"
  BY DEF FirstLimitation, ReadLater
<1>3. \A type \in resolved : \E r \in rs : r.round = 2 /\ type \in r.serves /\ r.outcome # "unavailable"
  <2> DEFINE e == ReduceEvidenceResults(Requirements, {}, new, differs)
  <2> TAKE type \in resolved
  <2>1. PICK i \in e.items : i.type = type
    BY DEF resolvedFollowUpRequirements
  <2>2. PICK r \in new, req \in Requirements :
          req.type \in r.serves /\ r.outcome # "unavailable" /\ i.type = req.type
    BY <2>1, ReductionIs
  <2> QED
    BY <2>1, <2>2
<1>4. /\ ev.items = ReduceEvidenceResults(Requirements, refused, rs, differs).items
      /\ ev.missing = filterResolvedPriorMissing(
           ReduceEvidenceResults(Requirements, refused, rs, differs).missing, prior, resolved)
  <2> DEFINE red == ReduceEvidenceResults(Requirements, refused, rs, differs)
  <2>1. red = [items |-> red.items, missing |-> red.missing, conflicts |-> red.conflicts]
    BY ReductionIs
  <2>2. ev = [red EXCEPT !.missing = filterResolvedPriorMissing(red.missing, prior, resolved)]
    OBVIOUS
  <2> HIDE DEF red
  <2>3. ev.items = red.items /\ ev.missing = filterResolvedPriorMissing(red.missing, prior, resolved)
    BY <2>1, <2>2
  <2> QED
    BY <2>3 DEF red
<1>5. Settles(rs, Requirements, prior, resolved)
  BY <1>2, <1>3 DEF Settles
<1> QED
  BY <1>1, <1>4, <1>5, EvidenceEarns

(* What comes of one of the requests in a round.                           *)
ResultOf(r, requests, n) ==
  /\ r.round = n /\ r.outcome \in Outcomes
  /\ r.outcome = "limited" => r.read.cap \in Compound
  /\ \E request \in requests : r.read = request.read /\ r.serves = request.serves

LEMMA RunResults ==
  ASSUME NEW requests, NEW n, Run(requests, n)
  PROVE  \E new : results' = results \cup new /\ \A r \in new : ResultOf(r, requests, n)
<1>1. PICK outcome \in [requests -> Outcomes], found \in SUBSET Databases :
        /\ Possible(requests, outcome)
        /\ results' = results \cup {Result(r, outcome[r], found, n) : r \in requests}
  BY DEF Run
<1> DEFINE new == {Result(r, outcome[r], found, n) : r \in requests}
<1>2. \A r \in new : ResultOf(r, requests, n)
  <2> TAKE r \in new
  <2>1. PICK request \in requests : r = Result(request, outcome[request], found, n)
    OBVIOUS
  <2>2. /\ r.read = request.read /\ r.serves = request.serves
        /\ r.round = n /\ r.outcome = outcome[request]
    BY <2>1 DEF Result
  <2> QED
    BY <1>1, <2>2 DEF Possible, ResultOf
<1> QED
  BY <1>1, <1>2

(* Every result is of a round, and was read with what that round reads with. *)
ResultsAreRead ==
  \A r \in results :
    /\ r.outcome \in Outcomes /\ r.round \in {1, 2}
    /\ r.round = 1 => ReadFirst(r)
    /\ r.round = 2 => ReadLater(r) /\ r.outcome # "limited"

PlanIsDraft == phase \in {"planned", "executed", "reduced", "following"} => plan = Draft

SecondIsLater == phase = "following" => \A request \in second : ReadLater(request)

EvidenceIsFirst ==
  phase \in {"reduced", "following", "followed"} => \A m \in evidence.missing : FirstLimitation(m)

(* Evidence that the model may still be asked about allows what was earned. *)
EarnedSoFar ==
  phase \in {"reduced", "packed", "leased"} \/ (phase = "settled" /\ limitation = "none") =>
    Earns(DecideEvidenceConfidence(Requirements, evidence), Requirements, results, evidence)

AnswerIsEarned ==
  answer.mode = "evidence" =>
    phase = "answered" /\ Earns(answer.confidence, Requirements, results, evidence)

EarnedInv ==
  /\ ResultsAreRead /\ PlanIsDraft /\ SecondIsLater /\ EvidenceIsFirst /\ EarnedSoFar
  /\ AnswerIsEarned

LEMMA EarnedInit == Init => EarnedInv
BY DEF Init, NoAnswer, EarnedInv, ResultsAreRead, PlanIsDraft, SecondIsLater, EvidenceIsFirst,
       EarnedSoFar, AnswerIsEarned

(* No step changes the question, and so what is asked of it.               *)
LEMMA RouteStays ==
  ASSUME [Next]_vars
  PROVE  /\ Requirements' = Requirements /\ Wanted' = Wanted /\ Draft' = Draft
         /\ \A r : (ReadFirst(r)' <=> ReadFirst(r)) /\ (ReadLater(r)' <=> ReadLater(r))
                   /\ (FirstLimitation(r)' <=> FirstLimitation(r))
<1>1. question' = question /\ listed' = listed
  BY DEF Next, vars, Prepare, ExecuteFirst, FailFirst, ReduceFirst, PlanSecondEvidenceRound,
        ExecuteSecond, FailSecond, ReduceSecond, FailPacket, BuildPacket, RefuseModel, AskModel,
        AnswerModel, Cancel, Finished, Limit
<1>2. Requirements' = Requirements
  BY <1>1 DEF Requirements, decision
<1>3. Wanted' = Wanted /\ Draft' = Draft
  BY <1>1, <1>2 DEF Wanted, Draft
<1> QED
  BY <1>2, <1>3 DEF ReadFirst, ReadLater, FirstLimitation

LEMMA EarnedNext == EarnedInv /\ RoundsInv /\ [Next]_vars => EarnedInv'
<1> SUFFICES ASSUME EarnedInv, RoundsInv, [Next]_vars PROVE EarnedInv'
  OBVIOUS
<1> USE DEF EarnedInv
<1>0. /\ Requirements' = Requirements /\ Draft' = Draft
      /\ \A r : (ReadFirst(r)' <=> ReadFirst(r)) /\ (ReadLater(r)' <=> ReadLater(r))
                /\ (FirstLimitation(r)' <=> FirstLimitation(r))
  BY RouteStays
<1>1. CASE Prepare
  <2>1. /\ phase = "asked" /\ phase' \in {"planned", "left", "answered"}
        /\ UNCHANGED <<results, evidence, second>>
        /\ phase' = "planned" => plan' = Draft
        /\ answer'.mode = "evidence" => answer' = answer
    BY <1>1 DEF Prepare, Answer, Prospect
  <2>2. answer'.mode # "evidence"
    BY <2>1 DEF AnswerIsEarned
  <2>3. ResultsAreRead'
    BY <1>0, <2>1 DEF ResultsAreRead
  <2> QED
    BY <1>0, <2>1, <2>2, <2>3 DEF PlanIsDraft, SecondIsLater, EvidenceIsFirst, EarnedSoFar, AnswerIsEarned
<1>2. CASE ExecuteFirst
  <2>1. phase = "planned" /\ phase' = "executed" /\ plan = Draft /\ UNCHANGED <<plan, answer>>
    BY <1>2 DEF ExecuteFirst, PlanIsDraft
  <2>2. results = {}
    BY <2>1 DEF RoundsInv, NothingReadYet
  <2>3. PICK new : results' = results \cup new /\ \A r \in new : ResultOf(r, plan.requests, 1)
    BY <1>2, RunResults DEF ExecuteFirst
  <2>4. \A r \in new : ReadFirst(r)
    BY <2>1, <2>3, DraftReadsFirst DEF ResultOf, ReadFirst
  <2>5. ResultsAreRead'
    BY <1>0, <2>2, <2>3, <2>4 DEF ResultOf, ResultsAreRead
  <2> QED
    BY <1>0, <2>1, <2>5 DEF PlanIsDraft, SecondIsLater, EvidenceIsFirst, EarnedSoFar, AnswerIsEarned
<1>3. CASE ReduceFirst
  <2>1. /\ phase = "executed" /\ phase' = "reduced" /\ plan = Draft
        /\ UNCHANGED <<plan, results, second, limitation, answer>>
        /\ evidence' = ReduceEvidenceResults(Requirements, Draft.missing, results, FALSE)
    BY <1>3 DEF ReduceFirst, PlanIsDraft
  <2>2. \A r \in results : r.outcome \in Outcomes /\ r.round = 1 /\ ReadFirst(r)
    BY <2>1 DEF RoundsInv, FirstRoundOnly, ResultsAreRead
  <2>3. \A m \in evidence'.missing : FirstLimitation(m)
    BY <2>1, <2>2, FirstEvidence
  <2>4. Earns(DecideEvidenceConfidence(Requirements, evidence'), Requirements, results, evidence')
    BY <2>1, <2>2, FirstReductionEarns
  <2>5. ResultsAreRead'
    BY <1>0, <2>1 DEF ResultsAreRead
  <2> QED
    BY <1>0, <2>1, <2>3, <2>4, <2>5 DEF PlanIsDraft, SecondIsLater, EvidenceIsFirst, EarnedSoFar,
                                       AnswerIsEarned
<1>4. CASE PlanSecondEvidenceRound
  <2> DEFINE executed == ReadsOf(plan.requests) \cup {r.read : r \in results}
  <2>1. /\ phase = "reduced" /\ phase' \in {"settled", "following"} /\ plan = Draft
        /\ UNCHANGED <<plan, results, evidence, limitation, answer>>
    BY <1>4 DEF PlanSecondEvidenceRound, PlanIsDraft
  <2>2. PICK chosen \in SecondRounds(FollowUpCandidates(Requirements, evidence, executed, question.seeded)) :
          second' = FollowUpRequests(chosen)
    BY <1>4 DEF PlanSecondEvidenceRound
  <2>3. chosen \subseteq FollowUpCandidates(Requirements, evidence, executed, question.seeded)
    BY DEF SecondRounds
  <2>4. \A m \in evidence.missing : FirstLimitation(m)
    BY <2>1 DEF EvidenceIsFirst
  <2>5. ReadsOf(Draft.requests) \subseteq executed
    BY <2>1
  <2>6. \A c \in chosen : ReadLater([read |-> c.read, serves |-> {c.type}])
    <3> HIDE DEF executed
    <3> QED
      BY <2>3, <2>4, <2>5, FollowUpsAreLater
  <2>7. \A request \in second' : ReadLater(request)
    BY <2>2, <2>6 DEF FollowUpRequests
  <2>8. ResultsAreRead'
    BY <1>0, <2>1 DEF ResultsAreRead
  <2> HIDE DEF executed
  <2> QED
    BY <1>0, <2>1, <2>7, <2>8 DEF PlanIsDraft, SecondIsLater, EvidenceIsFirst, EarnedSoFar,
                                 AnswerIsEarned
<1>5. CASE ExecuteSecond
  <2>1. /\ phase = "following" /\ phase' = "followed" /\ UNCHANGED <<evidence, second, answer>>
        /\ \A request \in second : ReadLater(request)
    BY <1>5 DEF ExecuteSecond, SecondIsLater
  <2>2. PICK new : results' = results \cup new /\ \A r \in new : ResultOf(r, second, 2)
    BY <1>5, RunResults DEF ExecuteSecond
  <2>3. \A r \in new : ReadLater(r) /\ r.outcome # "limited"
    BY <2>1, <2>2 DEF ResultOf, ReadLater
  <2>4. ResultsAreRead'
    BY <1>0, <2>2, <2>3 DEF ResultOf, ResultsAreRead
  <2> QED
    BY <1>0, <2>1, <2>4 DEF PlanIsDraft, SecondIsLater, EvidenceIsFirst, EarnedSoFar, AnswerIsEarned
<1>6. CASE ReduceSecond
  <2>1. /\ phase = "followed" /\ phase' = "settled" /\ UNCHANGED <<results, second, limitation, answer>>
    BY <1>6 DEF ReduceSecond
  <2>2. PICK differs \in BOOLEAN :
          LET new == {r \in results : r.round = 2}
              resolved == resolvedFollowUpRequirements(ReduceEvidenceResults(Requirements, {}, new, differs))
              combined == combineEvidencePlans(plan, {}, resolved)
              reduced == ReduceEvidenceResults(Requirements, combined.missing, results, differs)
          IN evidence' = [reduced EXCEPT !.missing =
                            filterResolvedPriorMissing(@, evidence.missing, resolved)]
    BY <1>6 DEF ReduceSecond
  <2> DEFINE new == {r \in results : r.round = 2}
             resolved == resolvedFollowUpRequirements(ReduceEvidenceResults(Requirements, {}, new, differs))
             refused == combineEvidencePlans(plan, {}, resolved).missing
             ev == [ReduceEvidenceResults(Requirements, refused, results, differs) EXCEPT !.missing =
                      filterResolvedPriorMissing(@, evidence.missing, resolved)]
  <2>3. evidence' = ev
    BY <2>2
  <2>4. \A r \in results : /\ r.outcome \in Outcomes /\ r.round \in {1, 2}
                           /\ r.round = 1 => ReadFirst(r)
                           /\ r.round = 2 => ReadLater(r) /\ r.outcome # "limited"
    BY DEF ResultsAreRead
  <2>5. \A m \in evidence.missing : FirstLimitation(m)
    BY <2>1 DEF EvidenceIsFirst
  <2>6. /\ new = {r \in results : r.round = 2}
        /\ resolved = resolvedFollowUpRequirements(ReduceEvidenceResults(Requirements, {}, new, differs))
        /\ ev = [ReduceEvidenceResults(Requirements, refused, results, differs) EXCEPT !.missing =
                   filterResolvedPriorMissing(@, evidence.missing, resolved)]
    OBVIOUS
  <2> HIDE DEF new, resolved, refused, ev
  <2>7. Earns(DecideEvidenceConfidence(Requirements, ev), Requirements, results, ev)
    BY <2>4, <2>5, <2>6, SecondReductionEarns
  <2>8. ResultsAreRead'
    BY <1>0, <2>1 DEF ResultsAreRead
  <2> QED
    BY <1>0, <2>1, <2>3, <2>7, <2>8 DEF PlanIsDraft, SecondIsLater, EvidenceIsFirst, EarnedSoFar,
                                       AnswerIsEarned
<1>7. CASE FailSecond
  <2>1. /\ phase = "followed" /\ phase' = "settled" /\ limitation' # "none"
        /\ UNCHANGED <<results, evidence, second, answer>>
    BY <1>7 DEF FailSecond
  <2>2. ResultsAreRead'
    BY <1>0, <2>1 DEF ResultsAreRead
  <2> QED
    BY <1>0, <2>1, <2>2 DEF PlanIsDraft, SecondIsLater, EvidenceIsFirst, EarnedSoFar, AnswerIsEarned
<1>8. CASE BuildPacket
  <2>1. /\ phase = "settled" /\ UNCHANGED <<results, evidence, second>>
        /\ \/ phase' = "answered" /\ answer'.mode = "limitation"
           \/ phase' = "packed" /\ limitation = "none" /\ UNCHANGED <<limitation, answer>>
    BY <1>8 DEF BuildPacket, Limit, Answer
  <2>2. ResultsAreRead'
    BY <1>0, <2>1 DEF ResultsAreRead
  <2> QED
    BY <1>0, <2>1, <2>2 DEF PlanIsDraft, SecondIsLater, EvidenceIsFirst, EarnedSoFar, AnswerIsEarned
<1>9. CASE AskModel
  <2>1. phase = "packed" /\ phase' = "leased" /\ UNCHANGED <<results, evidence, second, limitation, answer>>
    BY <1>9 DEF AskModel
  <2>2. ResultsAreRead'
    BY <1>0, <2>1 DEF ResultsAreRead
  <2> QED
    BY <1>0, <2>1, <2>2 DEF PlanIsDraft, SecondIsLater, EvidenceIsFirst, EarnedSoFar, AnswerIsEarned
<1>10. CASE AnswerModel
  <2>1. /\ phase = "leased" /\ phase' = "answered" /\ UNCHANGED <<results, evidence, second>>
        /\ answer'.mode = "evidence" => answer'.confidence = DecideEvidenceConfidence(Requirements, evidence)
    BY <1>10 DEF AnswerModel, Answer
  <2>2. Earns(DecideEvidenceConfidence(Requirements, evidence), Requirements, results, evidence)
    BY <2>1 DEF EarnedSoFar
  <2>3. ResultsAreRead'
    BY <1>0, <2>1 DEF ResultsAreRead
  <2> QED
    BY <1>0, <2>1, <2>2, <2>3 DEF PlanIsDraft, SecondIsLater, EvidenceIsFirst, EarnedSoFar, AnswerIsEarned
<1>11. CASE FailFirst \/ FailPacket \/ RefuseModel
  <2>1. phase' = "answered" /\ answer'.mode = "limitation" /\ UNCHANGED <<results, evidence, second>>
    BY <1>11 DEF FailFirst, FailPacket, RefuseModel, Limit, Answer
  <2>2. ResultsAreRead'
    BY <1>0, <2>1 DEF ResultsAreRead
  <2> QED
    BY <1>0, <2>1, <2>2 DEF PlanIsDraft, SecondIsLater, EvidenceIsFirst, EarnedSoFar, AnswerIsEarned
<1>12. CASE Cancel
  <2>1. /\ phase # "answered" /\ phase' = "gone"
        /\ UNCHANGED <<results, evidence, second, answer>>
    BY <1>12 DEF Cancel, Ended
  <2>2. ResultsAreRead'
    BY <1>0, <2>1 DEF ResultsAreRead
  <2> QED
    BY <1>0, <2>1, <2>2 DEF PlanIsDraft, SecondIsLater, EvidenceIsFirst, EarnedSoFar, AnswerIsEarned
<1>13. CASE UNCHANGED vars
  BY <1>0, <1>13 DEF vars, ResultsAreRead, PlanIsDraft, SecondIsLater, EvidenceIsFirst, EarnedSoFar,
                     AnswerIsEarned
<1> QED
  BY <1>1, <1>2, <1>3, <1>4, <1>5, <1>6, <1>7, <1>8, <1>9, <1>10, <1>11, <1>12, <1>13
  DEF Next, Finished

LEMMA EarnedAlways == Spec => []EarnedInv
BY EarnedInit, EarnedNext, RoundsAlways, PTL DEF Spec

(* The confidence of an answer rests on what was read: high means that each *)
(* requirement was read completely, medium that each critical one was, but  *)
(* for facets of a compound read, and neither that two readings disagree   *)
(* (confidence.go:8, against the results and not against the evidence).     *)
THEOREM ConfidenceRestsOnReads == Spec => []ConfidenceIsEarned
<1>1. EarnedInv => ConfidenceIsEarned
  BY EarnedIs DEF EarnedInv, AnswerIsEarned
<1> QED
  BY <1>1, EarnedAlways, PTL
================================================================================
