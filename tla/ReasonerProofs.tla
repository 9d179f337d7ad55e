------------------------------ MODULE ReasonerProofs -------------------------------
(***************************************************************************)
(* Proofs about EvidencePacket and Reasoner, for any evidence, any drafts   *)
(* and any limits: no reference hangs, in the packet or in an accepted     *)
(* answer, and no size costs the packet what decides.                      *)
(***************************************************************************)
EXTENDS Reasoner, FiniteSetTheorems, TLAPS

LEMMA ExactlySome ==
  ASSUME NEW S, IsFiniteSet(S), NEW k \in Nat, k <= Cardinality(S)
  PROVE  \E T \in SUBSET S : IsFiniteSet(T) /\ Cardinality(T) = k
<1>1. PICK f : f \in Bijection(1..Cardinality(S), S)
  BY FS_CardinalityType DEF ExistsBijection
<1> DEFINE T == {f[n] : n \in 1..k}
           g == [n \in 1..k |-> f[n]]
<1>2. Cardinality(S) \in Nat
  BY FS_CardinalityType
<1>3. T \in SUBSET S
  BY <1>1, <1>2 DEF Bijection, Surjection
<1>4. g \in Bijection(1..k, T)
  BY <1>1, <1>2 DEF Bijection, Injection, Surjection, IsInjective
<1> HIDE DEF g
<1>5. Cardinality(T) = k
  <2>1. ExistsBijection(1..k, T)
    BY <1>4 DEF ExistsBijection
  <2> HIDE DEF T
  <2> QED
    BY <2>1, FS_CountingElements
<1>6. IsFiniteSet(T)
  <2> HIDE DEF T
  <2> QED
    BY <1>3, FS_Subset
<1> QED
  BY <1>3, <1>5, <1>6

LEMMA Disjoint ==
  ASSUME NEW S, NEW T, IsFiniteSet(S), IsFiniteSet(T), S \cap T = {}
  PROVE  /\ IsFiniteSet(S \cup T) /\ Cardinality(S) \in Nat /\ Cardinality(T) \in Nat
         /\ Cardinality(S \cup T) = Cardinality(S) + Cardinality(T)
<1>1. /\ IsFiniteSet(S \cup T)
      /\ Cardinality(S \cup T) = Cardinality(S) + Cardinality(T) - Cardinality(S \cap T)
  BY FS_Union
<1> DEFINE both == S \cap T
<1>2. Cardinality(both) = 0
  <2>1. both = {}
    OBVIOUS
  <2> HIDE DEF both
  <2> QED
    BY <2>1, FS_EmptySet
<1>3. Cardinality(S) \in Nat /\ Cardinality(T) \in Nat
  BY FS_CardinalityType
<1> QED
  BY <1>1, <1>2, <1>3

(* Of three classes, so many from the best.                                *)
Classes(F, F0, F1, F2) ==
  F0 \cap F1 = {} /\ (F0 \cup F1) \cap F2 = {} /\ F = (F0 \cup F1) \cup F2
Best(T, F0, F1) == T \subseteq F0 \/ (F0 \subseteq T /\ T \subseteq F0 \cup F1) \/ F0 \cup F1 \subseteq T

LEMMA BestOf ==
  ASSUME NEW F, NEW F0, NEW F1, NEW F2, IsFiniteSet(F0), IsFiniteSet(F1), IsFiniteSet(F2),
         Classes(F, F0, F1, F2), NEW k \in Nat, k <= Cardinality(F)
  PROVE  \E T \in SUBSET F : Cardinality(T) = k /\ Best(T, F0, F1)
<1> USE DEF Classes, Best
<1> DEFINE F01 == F0 \cup F1
<1>1. /\ IsFiniteSet(F01) /\ Cardinality(F0) \in Nat /\ Cardinality(F1) \in Nat
      /\ Cardinality(F01) = Cardinality(F0) + Cardinality(F1)
  BY Disjoint
<1>2. /\ Cardinality(F01) \in Nat /\ Cardinality(F2) \in Nat
      /\ Cardinality(F) = Cardinality(F01) + Cardinality(F2)
  <2>1. F01 \cap F2 = {} /\ F = F01 \cup F2
    OBVIOUS
  <2> HIDE DEF F01
  <2>2. /\ Cardinality(F01) \in Nat /\ Cardinality(F2) \in Nat
        /\ Cardinality(F01 \cup F2) = Cardinality(F01) + Cardinality(F2)
    BY <1>1, <2>1, Disjoint
  <2> QED
    BY <2>1, <2>2
<1>3. CASE k <= Cardinality(F0)
  <2>1. PICK T \in SUBSET F0 : Cardinality(T) = k
    BY <1>3, ExactlySome
  <2> QED
    BY <2>1
<1>4. CASE k > Cardinality(F0) /\ k <= Cardinality(F01)
  <2>1. k - Cardinality(F0) \in Nat /\ k - Cardinality(F0) <= Cardinality(F1)
    <3> HIDE DEF F01
    <3> QED
      BY <1>1, <1>4
  <2>2. PICK T \in SUBSET F1 : IsFiniteSet(T) /\ Cardinality(T) = k - Cardinality(F0)
    BY <2>1, ExactlySome
  <2>3. F0 \cap T = {}
    BY <2>2
  <2>4. Cardinality(F0 \cup T) = Cardinality(F0) + Cardinality(T)
    BY <2>2, <2>3, Disjoint
  <2>5. Cardinality(F0 \cup T) = k
    BY <1>1, <2>2, <2>4
  <2> QED
    BY <2>2, <2>5
<1>5. CASE k > Cardinality(F01)
  <2>1. k - Cardinality(F01) \in Nat /\ k - Cardinality(F01) <= Cardinality(F2)
    <3> HIDE DEF F01
    <3> QED
      BY <1>2, <1>5 DEF F01
  <2>2. PICK T \in SUBSET F2 : IsFiniteSet(T) /\ Cardinality(T) = k - Cardinality(F01)
    BY <2>1, ExactlySome
  <2>3. F01 \cap T = {}
    BY <2>2
  <2>4. Cardinality(F01 \cup T) = k
    <3>1. Cardinality(F01 \cup T) = Cardinality(F01) + Cardinality(T)
      <4> HIDE DEF F01
      <4> QED
        BY <1>1, <2>2, <2>3, Disjoint
    <3> HIDE DEF F01
    <3> QED
      BY <1>2, <2>2, <3>1
  <2> QED
    BY <2>2, <2>4
<1> QED
  BY <1>1, <1>2, <1>3, <1>4, <1>5

LEMMA BestOfRanked ==
  ASSUME NEW F, IsFiniteSet(F), NEW rank \in [F -> {0, 1, 2}], NEW k \in Nat, k <= Cardinality(F)
  PROVE  \E T \in SUBSET F : Cardinality(T) = k /\ \A n \in T, m \in F \ T : rank[n] <= rank[m]
<1> DEFINE F0 == {n \in F : rank[n] = 0}
           F1 == {n \in F : rank[n] = 1}
           F2 == {n \in F : rank[n] = 2}
<1>1. IsFiniteSet(F0) /\ IsFiniteSet(F1) /\ IsFiniteSet(F2)
  BY FS_Subset
<1>2. Classes(F, F0, F1, F2)
  BY DEF Classes
<1>3. \E T \in SUBSET F : Cardinality(T) = k /\ Best(T, F0, F1)
  <2> HIDE DEF F0, F1, F2
  <2> QED
    BY <1>1, <1>2, BestOf
<1> QED
  BY <1>3 DEF Best

LEMMA ProjectedKeeps ==
  ASSUME NEW i \in Things, IsFiniteSet(i.fields)
  PROVE  /\ Projected(i) \in Things /\ Projected(i).fields \subseteq i.fields
         /\ Projected(i).id = i.id /\ Projected(i).criticality = i.criticality
         /\ Projected(i).type = i.type /\ Projected(i).timed = i.timed
         /\ Projected(i).requirement = i.requirement
         /\ Cardinality(FieldsOf(i, 0)) <= evidencePacketMaxFieldsPerItem
              => FieldsOf(i, 0) \subseteq Projected(i).fields
<1> DEFINE max == evidencePacketMaxFieldsPerItem
           p(n) == packetEvidenceFieldPriority(i, n)
           Chosen(kept) == /\ Cardinality(kept) = max
                         /\ \A n \in kept, m \in i.fields \ kept : p(n) <= p(m)
           kept == CHOOSE S \in SUBSET i.fields : Chosen(S)
<1>1. max \in Nat
  BY LimitsAssumption
<1>2. CASE Cardinality(i.fields) <= max
  BY <1>2 DEF Projected, FieldsOf
<1>3. CASE ~(Cardinality(i.fields) <= max)
  <2>1. \A n : p(n) \in {0, 1, 2}
    BY DEF packetEvidenceFieldPriority
  <2> HIDE DEF p
  <2> DEFINE F0 == {n \in i.fields : p(n) = 0}
  <2>2. IsFiniteSet(F0) /\ Cardinality(i.fields) \in Nat
    BY FS_Subset, FS_CardinalityType
  <2>4. max <= Cardinality(i.fields)
    BY <1>1, <1>3, <2>2
  <2>5. \E T \in SUBSET i.fields : Chosen(T)
    <3> DEFINE rank == [n \in i.fields |-> p(n)]
    <3>1. rank \in [i.fields -> {0, 1, 2}]
      BY <2>1
    <3>2. PICK T \in SUBSET i.fields :
            Cardinality(T) = max /\ \A n \in T, m \in i.fields \ T : rank[n] <= rank[m]
      <4> HIDE DEF rank, max
      <4> QED
        BY <1>1, <2>4, <3>1, BestOfRanked
    <3>3. Chosen(T)
      BY <3>2
    <3> QED
      BY <3>3
  <2>6. kept \in SUBSET i.fields /\ Chosen(kept)
    <3> HIDE DEF Chosen
    <3> QED
      BY <2>5
  <2>7. Projected(i) = [i EXCEPT !.fields = kept]
    BY <1>3 DEF Projected, p
  <2>8. Cardinality(F0) <= max => F0 \subseteq kept
    <3>1. SUFFICES ASSUME Cardinality(F0) <= max, NEW m \in F0, m \notin kept PROVE FALSE
      OBVIOUS
    <3>2. kept \subseteq F0 \ {m}
      <4> HIDE DEF kept
      <4> QED
        BY <2>1, <2>6, <3>1
    <3>3. IsFiniteSet(F0 \ {m}) /\ Cardinality(F0 \ {m}) = Cardinality(F0) - 1
      <4> HIDE DEF F0
      <4> QED
        BY <2>2, <3>1, FS_RemoveElement
    <3>4. Cardinality(kept) <= Cardinality(F0 \ {m})
      <4> HIDE DEF F0, kept
      <4> QED
        BY <3>2, <3>3, FS_Subset
    <3>5. Cardinality(F0) \in Nat
      <4> HIDE DEF F0
      <4> QED
        BY <2>2, FS_CardinalityType
    <3> QED
      BY <1>1, <2>6, <3>1, <3>3, <3>4, <3>5
  <2>9. F0 = FieldsOf(i, 0)
    BY DEF FieldsOf, p
  <2> HIDE DEF kept, F0, Chosen
  <2> QED
    BY <2>6, <2>7, <2>8, <2>9 DEF Things
<1> QED
  BY <1>2, <1>3
--------------------------------------------------------------------------------
(* What becomes of an item: it loses fields, its time or its source.       *)
From(i, j) ==
  /\ i.id = j.id /\ i.criticality = j.criticality /\ i.type = j.type /\ i.requirement = j.requirement
  /\ i.fields \subseteq j.fields

Sorted(S) == S \subseteq Things /\ IsFiniteSet(S) /\ \A i, j \in S : i.id = j.id => i = j

(* T is what is left of S, with everything critical in it.                 *)
LeftOf(T, S) ==
  /\ Sorted(T) /\ \A i \in T : \E j \in S : From(i, j)
  /\ \A j \in S : j.criticality = "critical" => \E i \in T : From(i, j)

LEMMA LeftOfTransitive ==
  ASSUME NEW R, NEW S, NEW T, LeftOf(T, S), LeftOf(S, R)
  PROVE  LeftOf(T, R)
<1>1. \A i, j, k : From(i, j) /\ From(j, k) => From(i, k)
  BY DEF From
<1>2. \A j, k : From(j, k) => j.criticality = k.criticality
  BY DEF From
<1> QED
  BY <1>1, <1>2 DEF LeftOf

LEMMA SomeLeft ==
  ASSUME NEW S, Sorted(S), NEW T \in SUBSET S, \A i \in S : i.criticality = "critical" => i \in T
  PROVE  LeftOf(T, S)
<1>1. IsFiniteSet(T)
  BY FS_Subset DEF Sorted
<1> QED
  BY <1>1 DEF Sorted, LeftOf, From

LEMMA EachLeft ==
  ASSUME NEW S, Sorted(S), NEW g, DOMAIN g = S, \A i \in S : g[i] \in Things /\ From(g[i], i)
  PROVE  LET T == {g[i] : i \in S}
         IN LeftOf(T, S) /\ Ids(T) = Ids(S) /\ Cardinality(T) = Cardinality(S)
<1> DEFINE T == {g[i] : i \in S}
           h == [i \in S |-> g[i]]
<1>1. \A i \in S : h[i] = g[i] /\ h[i].id = i.id
  BY DEF From
<1>2. \A i, j \in S : h[i] = h[j] => i = j
  BY <1>1 DEF Sorted
<1>3. h \in Surjection(S, T) /\ h \in Injection(S, T)
  BY <1>2 DEF Surjection, Injection, IsInjective
<1>4. IsFiniteSet(T) /\ Cardinality(T) = Cardinality(S)
  <2> HIDE DEF T, h
  <2> QED
    BY <1>3, FS_Surjection DEF Sorted
<1>5. Ids(T) = Ids(S)
  BY <1>1 DEF Ids
<1>6. \A i, j \in T : i.id = j.id => i = j
  BY <1>1 DEF Sorted
<1>7. LeftOf(T, S)
  <2>1. Sorted(T)
    BY <1>4, <1>6 DEF Sorted
  <2> QED
    BY <2>1 DEF LeftOf, From
<1> QED
  BY <1>4, <1>5, <1>7

LEMMA OneTaken ==
  ASSUME NEW S, Sorted(S), NEW i \in S, i.criticality # "critical"
  PROVE  /\ LeftOf(S \ {i}, S) /\ Ids(S \ {i}) = Ids(S) \ {i.id}
         /\ Cardinality(S \ {i}) = Cardinality(S) - 1
<1>1. Cardinality(S \ {i}) = Cardinality(S) - 1
  BY FS_RemoveElement DEF Sorted
<1>2. LeftOf(S \ {i}, S)
  BY SomeLeft
<1>3. Ids(S \ {i}) = Ids(S) \ {i.id}
  BY DEF Ids, Sorted
<1> QED
  BY <1>1, <1>2, <1>3

LEMMA FieldTaken ==
  ASSUME NEW S, Sorted(S), NEW i \in S, NEW name
  PROVE  LET n == [i EXCEPT !.fields = @ \ {name}]
             T == (S \ {i}) \cup {n}
         IN /\ LeftOf(T, S) /\ Ids(T) = Ids(S) /\ Cardinality(T) = Cardinality(S)
            /\ UsedSources(T) = UsedSources(S)
<1> DEFINE n == [i EXCEPT !.fields = @ \ {name}]
           T == (S \ {i}) \cup {n}
           g == [j \in S |-> IF j = i THEN n ELSE j]
<1>1. n \in Things /\ From(n, i) /\ n.source = i.source
  BY DEF Sorted, Things, From
<1>2. \A j \in S : g[j] \in Things /\ From(g[j], j) /\ g[j].source = j.source
  BY <1>1 DEF Sorted, From
<1>3. T = {g[j] : j \in S}
  OBVIOUS
<1>4. UsedSources(T) = UsedSources(S)
  <2> HIDE DEF n
  <2> QED
    BY <1>1 DEF UsedSources
<1>5. DOMAIN g = S
  OBVIOUS
<1>6. LeftOf(T, S) /\ Ids(T) = Ids(S) /\ Cardinality(T) = Cardinality(S)
  <2> DEFINE G == {g[j] : j \in S}
  <2>1. LeftOf(G, S) /\ Ids(G) = Ids(S) /\ Cardinality(G) = Cardinality(S)
    <3> HIDE DEF g
    <3> QED
      BY <1>2, <1>5, EachLeft
  <2>2. T = G
    BY <1>3
  <2> HIDE DEF T, G
  <2> QED
    BY <2>1, <2>2
<1> QED
  BY <1>4, <1>6

LEMMA SameIds ==
  ASSUME NEW S, Sorted(S), NEW T, T \subseteq S, Ids(T) = Ids(S)
  PROVE  T = S
<1>1. ASSUME NEW x \in S PROVE x \in T
  <2>1. x.id \in Ids(T)
    BY DEF Ids
  <2>2. PICK y \in T : y.id = x.id
    BY <2>1 DEF Ids
  <2> QED
    BY <2>2 DEF Sorted
<1> QED
  BY <1>1

LEMMA FewBefore ==
  ASSUME NEW S, IsFiniteSet(S), NEW limit \in Nat, Cardinality(S) <= limit, NEW i \in S,
         NEW T, T \subseteq S \ {i}
  PROVE  Cardinality(T) < limit
<1>1. IsFiniteSet(S \ {i}) /\ Cardinality(S \ {i}) = Cardinality(S) - 1
  BY FS_RemoveElement
<1>2. IsFiniteSet(T) /\ Cardinality(T) <= Cardinality(S \ {i})
  BY <1>1, FS_Subset
<1>3. Cardinality(S) \in Nat /\ Cardinality(T) \in Nat
  BY <1>2, FS_CardinalityType
<1> QED
  BY <1>1, <1>2, <1>3

LEMMA BoundKeeps ==
  ASSUME NEW S, Sorted(S)
  PROVE  LET B == boundPacketEvidence(S)
         IN /\ B \subseteq S /\ OfCriticality(S, "critical") \subseteq B
            /\ /\ Cardinality(OfCriticality(S, "relevant")) <= evidencePacketMaxRelevantItems
               /\ Cardinality(OfCriticality(S, "supporting")) <= evidencePacketMaxSupportingItems
               => B = S
<1> DEFINE B == boundPacketEvidence(S)
           relevant == OfCriticality(S, "relevant")
           supporting == OfCriticality(S, "supporting")
<1>1. B \subseteq S /\ OfCriticality(S, "critical") \subseteq B
  BY DEF boundPacketEvidence, OfCriticality, FirstOf
<1>2. S = (OfCriticality(S, "critical") \cup relevant) \cup supporting
  BY DEF OfCriticality, Sorted, Things
<1>3. IsFiniteSet(relevant) /\ IsFiniteSet(supporting)
  BY FS_Subset DEF Sorted, OfCriticality
<1>4. ASSUME Cardinality(relevant) <= evidencePacketMaxRelevantItems, NEW i \in relevant
      PROVE  i \in B
  <2> DEFINE T == {j \in relevant : BeforeByCausality(j, i)}
  <2>1. T \subseteq relevant \ {i}
    <3>1. i.id \in Int
      BY DEF OfCriticality, Sorted, Things
    <3>2. ~BeforeByCausality(i, i)
      BY <3>1 DEF BeforeByCausality
    <3> QED
      BY <3>2
  <2>2. Cardinality(T) < evidencePacketMaxRelevantItems
    <3> HIDE DEF relevant, T
    <3> QED
      BY <1>3, <1>4, <2>1, FewBefore, LimitsAssumption
  <2> QED
    BY <2>2 DEF boundPacketEvidence, FirstOf
<1>5. ASSUME Cardinality(supporting) <= evidencePacketMaxSupportingItems, NEW i \in supporting
      PROVE  i \in B
  <2> DEFINE T == {j \in supporting : j.id < i.id}
  <2>1. T \subseteq supporting \ {i}
    BY DEF OfCriticality, Sorted, Things
  <2>2. Cardinality(T) < evidencePacketMaxSupportingItems
    <3> HIDE DEF supporting, T
    <3> QED
      BY <1>3, <1>5, <2>1, FewBefore, LimitsAssumption
  <2> QED
    BY <2>2 DEF boundPacketEvidence, FirstOf
<1> HIDE DEF B, relevant, supporting
<1> QED
  BY <1>1, <1>2, <1>4, <1>5 DEF B, relevant, supporting
--------------------------------------------------------------------------------
Compacting == Stages \ {"received", "finishing", "built", "too_large"}
Guarded == Compacting \ {"removable"}

(* packetMaterialItem, for a route.                                        *)
Deciding(route, i) ==
  /\ i.criticality = "relevant" /\ i.type \in MaterialTypes(route)
  /\ i.timed \/ i.fields \cap ExactFields(route, i.type) # {}

EvidenceKnown == evidence \in Inputs \cup {NoInput}
ItemsLeft == LeftOf(items, evidence.items)
AsReceived == stage = "received" => items = evidence.items /\ derivations = evidence.derivations
DerivationsClosed ==
  derivations \subseteq evidence.derivations /\ \A d \in derivations : References(d) \subseteq Ids(items)
SourcesNamed ==
  UsedSources(items) \subseteq sources /\ (stage = "built" => UsedSources(items) = sources)
DropsCounted ==
  /\ dropped = Cardinality(evidence.items) - Cardinality(items)
  /\ dropped > 0 => compacted = TRUE
  /\ stage \in Compacting \cup {"finishing"} => compacted = TRUE

(* If everything fitted at first, what decides is there; until the first    *)
(* fields are gone it also still looks decisive, from then on it is         *)
(* protected.                                                              *)
MaterialHeld ==
  Fits => /\ Material(evidence.derivations) \subseteq derivations
          /\ \A j \in evidence.items : Deciding(evidence.route, j) => j.id \in Ids(items)
MaterialIntact ==
  Fits /\ stage = "removable" =>
    \A j \in evidence.items : Deciding(evidence.route, j) =>
      \E i \in items : i.id = j.id /\ Deciding(evidence.route, i)
MaterialProtected ==
  Fits /\ stage \in Guarded =>
    /\ \A d \in Material(evidence.derivations) : References(d) \subseteq protected
    /\ \A j \in evidence.items : Deciding(evidence.route, j) => j.id \in protected

PacketInv ==
  /\ EvidenceKnown /\ ItemsLeft /\ AsReceived /\ DerivationsClosed /\ SourcesNamed /\ DropsCounted
  /\ MaterialHeld /\ MaterialIntact /\ MaterialProtected

LEMMA EvidenceFacts ==
  ASSUME NEW e \in Inputs \cup {NoInput}
  PROVE  /\ Sorted(e.items) /\ \A i \in e.items : IsFiniteSet(i.fields)
         /\ \A d \in e.derivations : References(d) \subseteq Ids(e.items)
         /\ UNION e.conflicts \subseteq Ids(OfCriticality(e.items, "critical"))
<1>1. CASE e \in Inputs
  BY <1>1, InputsAssumption DEF Sorted
<1>2. CASE e = NoInput
  <2>1. e.items = {} /\ e.derivations = {} /\ e.conflicts = {}
    BY <1>2 DEF NoInput
  <2>2. UNION e.conflicts = {}
    BY <2>1
  <2> QED
    BY <2>1, <2>2, FS_EmptySet DEF Sorted
<1> QED
  BY <1>1, <1>2

LEMMA PacketInitially == PacketInit => PacketInv
<1> HAVE PacketInit
<1>1. /\ evidence.items = {} /\ evidence.derivations = {} /\ items = {} /\ derivations = {}
      /\ sources = {} /\ dropped = 0 /\ stage = "received" /\ EvidenceKnown
  BY DEF PacketInit, NoInput, EvidenceKnown
<1>2. ItemsLeft
  BY <1>1, FS_EmptySet DEF ItemsLeft, LeftOf, Sorted
<1>3. DropsCounted
  <2>1. Cardinality(evidence.items) = 0 /\ Cardinality(items) = 0
    BY <1>1, FS_EmptySet
  <2> QED
    BY <1>1, <2>1 DEF DropsCounted, Compacting
<1>4. SourcesNamed
  BY <1>1 DEF SourcesNamed, UsedSources
<1> QED
  BY <1>1, <1>2, <1>3, <1>4 DEF PacketInv, AsReceived, DerivationsClosed, MaterialHeld,
     MaterialIntact, MaterialProtected, Material, Guarded, Compacting

LEMMA ReceiveKeeps == PacketInv /\ Receive => PacketInv'
<1> SUFFICES ASSUME PacketInv, Receive PROVE PacketInv'
  OBVIOUS
<1>1. /\ evidence' \in Inputs /\ items' = evidence'.items /\ derivations' = evidence'.derivations
      /\ sources' = UsedSources(items') /\ stage = "received" /\ stage' = "received"
      /\ UNCHANGED <<dropped, compacted>> /\ evidence = NoInput
  BY DEF Receive
<1>2. /\ Sorted(evidence'.items)
      /\ \A d \in evidence'.derivations : References(d) \subseteq Ids(evidence'.items)
  BY <1>1, EvidenceFacts
<1>3. ItemsLeft'
  BY <1>1, <1>2, SomeLeft DEF ItemsLeft
<1>4. DropsCounted'
  <2>1. Cardinality(items') \in Nat /\ Cardinality(items) \in Nat
    BY <1>1, <1>2, FS_CardinalityType DEF PacketInv, ItemsLeft, LeftOf, Sorted
  <2>2. items = evidence.items /\ dropped = Cardinality(evidence.items) - Cardinality(items)
    BY <1>1 DEF PacketInv, AsReceived, DropsCounted
  <2>3. dropped = 0 /\ Cardinality(evidence'.items) - Cardinality(items') = 0
    BY <1>1, <2>1, <2>2
  <2> QED
    BY <1>1, <2>3 DEF DropsCounted, Compacting
<1>5. MaterialHeld'
  BY <1>1 DEF MaterialHeld, Material, Ids
<1> QED
  BY <1>1, <1>2, <1>3, <1>4, <1>5 DEF PacketInv, EvidenceKnown, AsReceived, DerivationsClosed,
     SourcesNamed, MaterialIntact, MaterialProtected, Guarded, Compacting

(* The dates and identities that make an item decisive are no fields that   *)
(* are given up first.                                                     *)
LEMMA DecidingStays ==
  ASSUME NEW route, NEW i, NEW j, Deciding(route, j), From(i, j), i.timed = j.timed,
         FieldsOf(j, 0) \subseteq i.fields
  PROVE  Deciding(route, i)
<1>1. \A name \in ExactFields(route, j.type) : packetEvidenceFieldPriority(j, name) = 0
  BY DEF ExactFields, packetEvidenceFieldPriority, Removable
<1> QED
  BY <1>1 DEF Deciding, From, FieldsOf

LEMMA ProjectKeeps == PacketInv /\ Project => PacketInv'
<1> SUFFICES ASSUME PacketInv, Project PROVE PacketInv'
  OBVIOUS
<1> DEFINE B == boundPacketEvidence(items)
           g == [i \in B |-> Projected(i)]
           G == {g[i] : i \in B}
<1>1. /\ stage = "received" /\ items' = {Projected(i) : i \in B} /\ sources' = UsedSources(items')
      /\ dropped' = Cardinality(items) - Cardinality(items') /\ stage' \in {"built", "removable"}
      /\ UNCHANGED evidence
  BY DEF Project
<1>2. PICK ds \in SUBSET derivations :
        /\ Cardinality(derivations) <= evidencePacketMaxDerivations => ds = derivations
        /\ derivations' = StandingDerivations(items', ds)
        /\ compacted' = (ds # derivations \/ Ids(items') # Ids(items) \/ stage' = "removable")
  BY DEF Project
<1>3. /\ Sorted(items) /\ items = evidence.items /\ derivations = evidence.derivations
      /\ \A i \in items : IsFiniteSet(i.fields)
      /\ \A d \in derivations : References(d) \subseteq Ids(items)
  BY <1>1, EvidenceFacts DEF PacketInv, EvidenceKnown, AsReceived
<1>4. /\ B \subseteq items /\ OfCriticality(items, "critical") \subseteq B /\ (Fits => B = items)
  BY <1>3, BoundKeeps DEF Fits
<1>5. \A i \in B : /\ Projected(i) \in Things /\ From(Projected(i), i) /\ Projected(i).timed = i.timed
                   /\ Fits => FieldsOf(i, 0) \subseteq Projected(i).fields
  <2> TAKE i \in B
  <2>1. i \in Things /\ IsFiniteSet(i.fields)
    BY <1>3, <1>4 DEF Sorted
  <2> HIDE DEF B
  <2> QED
    BY <1>3, <1>4, <2>1, ProjectedKeeps DEF From, Fits
<1>6. LeftOf(B, items)
  BY <1>3, <1>4, SomeLeft DEF OfCriticality
<1>7. LeftOf(G, B) /\ Ids(G) = Ids(B) /\ Cardinality(G) = Cardinality(B)
  <2>1. \A i \in B : g[i] \in Things /\ From(g[i], i)
    BY <1>5
  <2>2. DOMAIN g = B /\ Sorted(B)
    BY <1>6 DEF LeftOf
  <2> HIDE DEF g, B
  <2> QED
    BY <2>1, <2>2, EachLeft
<1>8. items' = G
  BY <1>1
<1>9. ItemsLeft'
  <2> HIDE DEF B, G
  <2> QED
    BY <1>1, <1>3, <1>6, <1>7, <1>8, LeftOfTransitive DEF ItemsLeft
<1>10. DropsCounted'
  <2>1. ASSUME Ids(items') = Ids(items) PROVE dropped' = 0
    <3>1. Ids(B) = Ids(items)
      <4> HIDE DEF B, G
      <4> QED
        BY <1>7, <1>8, <2>1
    <3>2. B = items
      <4> HIDE DEF B
      <4> QED
        BY <1>3, <1>4, <3>1, SameIds
    <3>3. Cardinality(items') = Cardinality(items) /\ Cardinality(items) \in Nat
      <4> HIDE DEF B, G
      <4> QED
        BY <1>3, <1>7, <1>8, <3>2, FS_CardinalityType DEF Sorted
    <3> QED
      BY <1>1, <3>3
  <2>2. compacted' \in BOOLEAN
    BY <1>2
  <2>3. dropped' > 0 => compacted' = TRUE
    <3>1. dropped' > 0 => Ids(items') # Ids(items)
      BY <2>1
    <3>2. Ids(items') # Ids(items) => compacted'
      BY <1>2, Zenon
    <3> QED
      BY <2>2, <3>1, <3>2
  <2>4. stage' = "removable" => compacted' = TRUE
    BY <1>2, <2>2
  <2> QED
    BY <1>1, <1>3, <2>3, <2>4 DEF DropsCounted, Compacting
<1>11. DerivationsClosed'
  BY <1>1, <1>2, <1>3 DEF DerivationsClosed, StandingDerivations
<1>12. ASSUME Fits PROVE Ids(items') = Ids(items) /\ derivations' = derivations
  <2>1. Ids(items') = Ids(items)
    <3> HIDE DEF B, G
    <3> QED
      BY <1>4, <1>7, <1>8, <1>12
  <2>2. ds = derivations
    BY <1>2, <1>3, <1>12 DEF Fits
  <2> QED
    BY <1>2, <1>3, <2>1, <2>2 DEF StandingDerivations
<1>13. MaterialHeld'
  BY <1>1, <1>3, <1>12 DEF MaterialHeld, Material, Ids, Fits
<1>14. MaterialIntact'
  <2> SUFFICES ASSUME Fits, NEW j \in evidence.items, Deciding(evidence.route, j)
               PROVE  \E i \in items' : i.id = j.id /\ Deciding(evidence.route, i)
    BY <1>1 DEF MaterialIntact, Fits
  <2>1. j \in B
    BY <1>3, <1>4
  <2>2. Projected(j) \in items'
    BY <1>1, <2>1
  <2>3. From(Projected(j), j) /\ Deciding(evidence.route, Projected(j))
    <3> HIDE DEF B
    <3> QED
      BY <1>5, <2>1, DecidingStays
  <2> QED
    BY <2>2, <2>3 DEF From
<1> QED
  BY <1>1, <1>9, <1>10, <1>11, <1>13, <1>14 DEF PacketInv, EvidenceKnown, AsReceived,
     SourcesNamed, MaterialProtected, Guarded, Compacting

(* What a step that keeps the evidence may do to the items of a packet that *)
(* is being compacted, and what is left to show of it.                     *)
LEMMA ItemsStillLeft ==
  ASSUME PacketInv, UNCHANGED evidence, LeftOf(items', items)
  PROVE  EvidenceKnown' /\ ItemsLeft'
BY LeftOfTransitive DEF PacketInv, EvidenceKnown, ItemsLeft

LEMMA TakeFieldKeeps ==
  ASSUME PacketInv, NEW at, NEW priority, <<at, priority>> \in {<<"removable", 2>>, <<"secondary", 1>>},
         TakeField(at, priority)
  PROVE  PacketInv'
<1>1. PICK i, name :
        /\ i \in items /\ name \in FieldsOf(i, priority)
        /\ items' = (items \ {i}) \cup {[i EXCEPT !.fields = @ \ {name}]}
  BY DEF TakeField
<1>2. /\ stage = at /\ stage' \in {"finishing", at}
      /\ UNCHANGED <<evidence, derivations, sources, protected, dropped, compacted>>
      /\ \/ at = "removable" /\ priority = 2
         \/ at = "secondary" /\ priority = 1
  BY DEF TakeField
<1>3. Sorted(items)
  BY DEF PacketInv, ItemsLeft, LeftOf
<1>4. /\ LeftOf(items', items) /\ Ids(items') = Ids(items) /\ Cardinality(items') = Cardinality(items)
      /\ UsedSources(items') = UsedSources(items)
  BY <1>1, <1>3, FieldTaken, Zenon
<1>5. MaterialIntact'
  <2> SUFFICES ASSUME Fits, stage' = "removable", NEW j \in evidence.items, Deciding(evidence.route, j)
               PROVE  \E k \in items' : k.id = j.id /\ Deciding(evidence.route, k)
    BY <1>2 DEF MaterialIntact, Fits
  <2>1. PICK k \in items : k.id = j.id /\ Deciding(evidence.route, k)
    BY <1>2 DEF PacketInv, MaterialIntact
  <2>2. CASE k # i
    BY <1>1, <2>1, <2>2
  <2>3. CASE k = i
    <3> DEFINE n == [i EXCEPT !.fields = @ \ {name}]
    <3>1. priority = 2 /\ packetEvidenceFieldPriority(i, name) = 2
      BY <1>1, <1>2 DEF FieldsOf
    <3>2. name \notin FieldsOf(i, 0)
      BY <3>1 DEF FieldsOf
    <3>3. /\ n.id = i.id /\ n.criticality = i.criticality /\ n.type = i.type
          /\ n.requirement = i.requirement /\ n.timed = i.timed /\ n.fields = i.fields \ {name}
      BY <1>3 DEF Sorted, Things
    <3> HIDE DEF n
    <3>4. Deciding(evidence.route, n)
      <4>1. From(n, i) /\ FieldsOf(i, 0) \subseteq n.fields
        BY <3>2, <3>3 DEF From, FieldsOf
      <4> QED
        BY <2>1, <2>3, <3>3, <4>1, DecidingStays
    <3> QED
      BY <1>1, <2>1, <2>3, <3>3, <3>4 DEF n
  <2> QED
    BY <2>2, <2>3
<1>6. EvidenceKnown' /\ ItemsLeft'
  BY <1>2, <1>4, ItemsStillLeft
<1>7. DropsCounted' /\ SourcesNamed' /\ DerivationsClosed' /\ AsReceived'
  BY <1>2, <1>4 DEF PacketInv, DropsCounted, SourcesNamed, DerivationsClosed, AsReceived, Compacting, Stages
<1>8. MaterialHeld' /\ MaterialProtected'
  BY <1>2, <1>4 DEF PacketInv, MaterialHeld, MaterialProtected, Guarded, Compacting, Stages, Fits, Material
<1> QED
  BY <1>5, <1>6, <1>7, <1>8 DEF PacketInv

LEMMA ProtectedHold ==
  ASSUME NEW S, NEW ds
  PROVE  /\ \A d \in Material(ds) : References(d) \subseteq packetProtectedEvidenceIDs(S, ds)
         /\ \A i \in S : packetMaterialItem(i) => i.id \in packetProtectedEvidenceIDs(S, ds)
<1> DEFINE protects == packetProtectedEvidenceIDs(S, ds)
<1>1. ASSUME NEW d \in Material(ds), NEW id \in References(d) PROVE id \in protects
  <2>1. id \in UNION {References(x) : x \in Material(ds)}
    BY <1>1
  <2> QED
    BY <2>1 DEF packetProtectedEvidenceIDs
<1>2. ASSUME NEW i \in S, packetMaterialItem(i) PROVE i.id \in protects
  BY <1>2 DEF packetProtectedEvidenceIDs
<1> HIDE DEF protects
<1>3. /\ \A d \in Material(ds) : References(d) \subseteq protects
      /\ \A i \in S : packetMaterialItem(i) => i.id \in protects
  BY <1>1, <1>2
<1> QED
  BY <1>3 DEF protects

LEMMA FieldsTakenKeeps ==
  ASSUME PacketInv, NEW at, NEW priority, NEW next, FieldsTaken(at, priority, next),
         <<at, next>> \in {<<"removable", "relevant">>, <<"secondary", "metadata">>}
  PROVE  PacketInv'
<1>1. /\ stage = at /\ stage' = next /\ UNCHANGED <<evidence, items, derivations, sources, dropped, compacted>>
      /\ \/ /\ at = "removable" /\ next = "relevant"
            /\ protected' = packetProtectedEvidenceIDs(items, derivations)
         \/ at = "secondary" /\ next = "metadata" /\ protected' = protected
  BY DEF FieldsTaken
<1>2. ASSUME at = "removable" PROVE MaterialProtected'
  <2>0. stage = "removable" /\ protected' = packetProtectedEvidenceIDs(items, derivations)
    BY <1>1, <1>2
  <2>1. ASSUME Fits, NEW d \in Material(evidence.derivations) PROVE References(d) \subseteq protected'
    <3>1. d \in Material(derivations)
      BY <2>1 DEF PacketInv, MaterialHeld, Material
    <3> QED
      BY <2>0, <3>1, ProtectedHold
  <2>2. ASSUME Fits, NEW j \in evidence.items, Deciding(evidence.route, j) PROVE j.id \in protected'
    <3>1. PICK i \in items : i.id = j.id /\ Deciding(evidence.route, i)
      BY <2>0, <2>2 DEF PacketInv, MaterialIntact
    <3>2. packetMaterialItem(i)
      BY <3>1 DEF packetMaterialItem, Deciding
    <3> QED
      BY <2>0, <3>1, <3>2, ProtectedHold
  <2> QED
    BY <1>1, <2>1, <2>2 DEF MaterialProtected, Fits, Material
<1>3. MaterialProtected'
  BY <1>1, <1>2 DEF PacketInv, MaterialProtected, Guarded, Compacting, Stages, Fits, Material
<1>4. EvidenceKnown' /\ ItemsLeft' /\ AsReceived' /\ DerivationsClosed' /\ SourcesNamed' /\ DropsCounted'
  BY <1>1 DEF PacketInv, EvidenceKnown, ItemsLeft, AsReceived, DerivationsClosed, SourcesNamed,
              DropsCounted, Compacting, Stages, LeftOf, UsedSources, Ids
<1>5. MaterialHeld' /\ MaterialIntact'
  BY <1>1 DEF PacketInv, MaterialHeld, MaterialIntact, Fits, Material, Ids
<1> QED
  BY <1>3, <1>4, <1>5 DEF PacketInv

LEMMA TakeItemKeeps ==
  ASSUME PacketInv, NEW at \in Guarded, NEW criticality, criticality # "critical", NEW causal, NEW limit,
         TakeItem(at, criticality, causal, limit)
  PROVE  PacketInv'
<1>1. PICK i : /\ i \in items /\ i.criticality = criticality /\ i.id \notin protected
               /\ items' = items \ {i}
  BY DEF TakeItem, Candidates, OfCriticality
<1>2. /\ stage = at /\ stage' \in {"finishing", at}
      /\ derivations' = StandingDerivations(items', derivations)
      /\ sources' = sources \cap UsedSources(items') /\ dropped' = dropped + 1
      /\ UNCHANGED <<evidence, protected, compacted>>
  BY DEF TakeItem
<1>3. Sorted(items) /\ Sorted(evidence.items)
  BY EvidenceFacts DEF PacketInv, ItemsLeft, LeftOf, EvidenceKnown
<1>4. /\ LeftOf(items', items) /\ Ids(items') = Ids(items) \ {i.id}
      /\ Cardinality(items') = Cardinality(items) - 1
  BY <1>1, <1>3, OneTaken
<1>5. EvidenceKnown' /\ ItemsLeft'
  BY <1>2, <1>4, ItemsStillLeft
<1>6. DropsCounted'
  <2>1. Cardinality(items) \in Nat /\ Cardinality(evidence.items) \in Nat
    BY <1>3, FS_CardinalityType DEF Sorted
  <2>2. dropped' = Cardinality(evidence'.items) - Cardinality(items')
    BY <1>2, <1>4, <2>1 DEF PacketInv, DropsCounted
  <2>3. compacted' = TRUE
    BY <1>2 DEF PacketInv, DropsCounted, Guarded
  <2> QED
    BY <2>2, <2>3 DEF DropsCounted
<1>7. SourcesNamed'
  <2>1. UsedSources(items') \subseteq UsedSources(items)
    BY <1>1 DEF UsedSources
  <2> QED
    BY <1>2, <2>1 DEF PacketInv, SourcesNamed, Guarded, Compacting
<1>8. DerivationsClosed'
  BY <1>2 DEF PacketInv, DerivationsClosed, StandingDerivations
<1>9. MaterialHeld'
  <2> SUFFICES ASSUME Fits
               PROVE  /\ Material(evidence.derivations) \subseteq derivations'
                      /\ \A j \in evidence.items : Deciding(evidence.route, j) => j.id \in Ids(items')
    BY <1>2 DEF MaterialHeld, Fits
  <2>1. ASSUME NEW d \in Material(evidence.derivations) PROVE d \in derivations'
    <3>1. d \in derivations /\ References(d) \subseteq Ids(items) /\ References(d) \subseteq protected
      BY <1>2 DEF PacketInv, MaterialHeld, DerivationsClosed, MaterialProtected
    <3>2. References(d) \subseteq Ids(items')
      BY <1>1, <1>4, <3>1
    <3> QED
      BY <1>2, <3>1, <3>2 DEF StandingDerivations
  <2>2. ASSUME NEW j \in evidence.items, Deciding(evidence.route, j) PROVE j.id \in Ids(items')
    <3>1. j.id \in Ids(items) /\ j.id \in protected
      BY <1>2, <2>2 DEF PacketInv, MaterialHeld, MaterialProtected
    <3> QED
      BY <1>1, <1>4, <3>1
  <2> QED
    BY <2>1, <2>2
<1>10. AsReceived' /\ MaterialIntact' /\ MaterialProtected'
  BY <1>2 DEF PacketInv, AsReceived, MaterialIntact, MaterialProtected, Guarded, Compacting, Fits, Material
<1> QED
  BY <1>5, <1>6, <1>7, <1>8, <1>9, <1>10 DEF PacketInv

LEMMA ItemsTakenKeeps ==
  ASSUME PacketInv, NEW at \in Guarded, NEW criticality, NEW causal,
         NEW next \in Guarded \cup {"finishing"}, ItemsTaken(at, criticality, causal, next)
  PROVE  PacketInv'
<1>1. /\ stage = at /\ stage' = next
      /\ UNCHANGED <<evidence, items, derivations, sources, protected, dropped, compacted>>
  BY DEF ItemsTaken
<1>2. EvidenceKnown' /\ ItemsLeft' /\ AsReceived' /\ DerivationsClosed' /\ SourcesNamed' /\ DropsCounted'
  BY <1>1 DEF PacketInv, EvidenceKnown, ItemsLeft, AsReceived, DerivationsClosed, SourcesNamed,
              DropsCounted, Guarded, Compacting, Stages, LeftOf, UsedSources, Ids
<1>3. MaterialHeld' /\ MaterialIntact' /\ MaterialProtected'
  BY <1>1 DEF PacketInv, MaterialHeld, MaterialIntact, MaterialProtected, Guarded, Compacting, Fits,
              Material, Ids
<1> QED
  BY <1>2, <1>3 DEF PacketInv

LEMMA CutMetadataKeeps == PacketInv /\ CutMetadata => PacketInv'
<1> SUFFICES ASSUME PacketInv, CutMetadata PROVE PacketInv'
  OBVIOUS
<1> DEFINE cut(i) == [i EXCEPT !.timed = @ /\ i.kind # "derived"
                                 /\ i.type \notin {"current_application", "application_history",
                                                   "service_history", "runtime_failures"},
                               !.source = IF i.kind = "derived" THEN NoSource ELSE @]
           g == [i \in items |-> cut(i)]
           G == {g[i] : i \in items}
<1>1. /\ stage = "metadata" /\ stage' \in {"finishing", "supporting"} /\ items' = {cut(i) : i \in items}
      /\ UNCHANGED <<evidence, derivations, sources, protected, dropped, compacted>>
  BY DEF CutMetadata
<1>2. Sorted(items)
  BY DEF PacketInv, ItemsLeft, LeftOf
<1>3. \A i \in items : cut(i) \in Things /\ From(cut(i), i) /\ cut(i).source \in {i.source, NoSource}
  <2> TAKE i \in items
  <2> DEFINE timed == i.timed /\ i.kind # "derived"
                       /\ i.type \notin {"current_application", "application_history",
                                         "service_history", "runtime_failures"}
             source == IF i.kind = "derived" THEN NoSource ELSE i.source
  <2>1. i \in Things /\ timed \in BOOLEAN /\ source \in STRING \cup {NoSource}
    <3>1. i \in Things
      BY <1>2 DEF Sorted
    <3>2. timed \in BOOLEAN
      BY Zenon
    <3>3. source \in STRING \cup {NoSource}
      BY <3>1 DEF Things
    <3> QED
      BY <3>1, <3>2, <3>3
  <2>2. cut(i) = [i EXCEPT !.timed = timed, !.source = source]
    BY <2>1 DEF Things
  <2>3. source \in {i.source, NoSource}
    OBVIOUS
  <2> HIDE DEF cut, timed, source
  <2> QED
    BY <2>1, <2>2, <2>3 DEF Things, From
<1> HIDE DEF cut
<1>4. LeftOf(G, items) /\ Ids(G) = Ids(items) /\ Cardinality(G) = Cardinality(items)
  <2>1. DOMAIN g = items /\ \A i \in items : g[i] \in Things /\ From(g[i], i)
    BY <1>3
  <2> HIDE DEF g
  <2> QED
    BY <1>2, <2>1, EachLeft
<1>5. items' = G
  BY <1>1
<1>6. LeftOf(items', items) /\ Ids(items') = Ids(items) /\ Cardinality(items') = Cardinality(items)
  <2> HIDE DEF G
  <2> QED
    BY <1>4, <1>5
<1>7. UsedSources(items') \subseteq UsedSources(items)
  BY <1>1, <1>3 DEF UsedSources
<1>8. EvidenceKnown' /\ ItemsLeft'
  BY <1>1, <1>6, ItemsStillLeft
<1>9. DropsCounted' /\ SourcesNamed' /\ DerivationsClosed' /\ AsReceived'
  BY <1>1, <1>6, <1>7 DEF PacketInv, DropsCounted, SourcesNamed, DerivationsClosed, AsReceived, Compacting,
                          Stages
<1>10. MaterialHeld' /\ MaterialIntact' /\ MaterialProtected'
  BY <1>1, <1>6 DEF PacketInv, MaterialHeld, MaterialIntact, MaterialProtected, Guarded, Compacting, Stages,
                    Fits, Material
<1> QED
  BY <1>8, <1>9, <1>10 DEF PacketInv

LEMMA FinishKeeps == PacketInv /\ Finish => PacketInv'
<1> SUFFICES ASSUME PacketInv, Finish PROVE PacketInv'
  OBVIOUS
<1>1. /\ derivations' = StandingDerivations(items, derivations) /\ sources' = sources \cap UsedSources(items)
      /\ stage = "finishing" /\ stage' \in {"built", "too_large"}
      /\ UNCHANGED <<evidence, items, protected, dropped, compacted>>
  BY DEF Finish
<1>2. derivations' = derivations
  BY <1>1 DEF PacketInv, DerivationsClosed, StandingDerivations
<1>3. SourcesNamed' /\ DropsCounted'
  BY <1>1 DEF PacketInv, SourcesNamed, DropsCounted, UsedSources, Compacting
<1>4. EvidenceKnown' /\ ItemsLeft' /\ AsReceived' /\ DerivationsClosed'
  BY <1>1, <1>2 DEF PacketInv, EvidenceKnown, ItemsLeft, AsReceived, DerivationsClosed, LeftOf, Ids
<1>5. MaterialHeld' /\ MaterialIntact' /\ MaterialProtected'
  BY <1>1, <1>2 DEF PacketInv, MaterialHeld, MaterialIntact, MaterialProtected, Guarded, Compacting, Fits,
                    Material, Ids
<1> QED
  BY <1>3, <1>4, <1>5 DEF PacketInv

LEMMA RefuseKeeps == PacketInv /\ Refuse => PacketInv'
<1> SUFFICES ASSUME PacketInv, Refuse PROVE PacketInv'
  OBVIOUS
<1>1. /\ stage' = "too_large"
      /\ UNCHANGED <<evidence, items, derivations, sources, protected, dropped, compacted>>
  BY DEF Refuse
<1> QED
  BY <1>1 DEF PacketInv, EvidenceKnown, ItemsLeft, AsReceived, DerivationsClosed, SourcesNamed, DropsCounted,
     MaterialHeld, MaterialIntact, MaterialProtected, Guarded, Compacting, Fits, Material, LeftOf, Ids

LEMMA PacketStep == PacketInv /\ [PacketNext]_packetVars => PacketInv'
<1> SUFFICES ASSUME PacketInv, [PacketNext]_packetVars PROVE PacketInv'
  OBVIOUS
<1>1. CASE Receive \/ Refuse \/ Project
  BY <1>1, ReceiveKeeps, RefuseKeeps, ProjectKeeps
<1>2. CASE TakeField("removable", 2) \/ TakeField("secondary", 1)
  BY <1>2, TakeFieldKeeps
<1>3. CASE FieldsTaken("removable", 2, "relevant") \/ FieldsTaken("secondary", 1, "metadata")
  BY <1>3, FieldsTakenKeeps
<1>4. {"relevant", "secondary", "metadata", "supporting", "supporting_causal", "limit"} \subseteq Guarded
  BY DEF Guarded, Compacting, Stages
<1>5. CASE TakeItem("relevant", "relevant", FALSE, evidencePacketTargetBytes)
  BY <1>4, <1>5, TakeItemKeeps
<1>6. CASE TakeItem("supporting", "supporting", FALSE, evidencePacketTargetBytes)
  BY <1>4, <1>6, TakeItemKeeps
<1>7. CASE TakeItem("supporting_causal", "supporting", TRUE, evidencePacketTargetBytes)
  BY <1>4, <1>7, TakeItemKeeps
<1>8. CASE TakeItem("limit", "relevant", TRUE, evidencePacketHardLimitBytes)
  BY <1>4, <1>8, TakeItemKeeps
<1>9. CASE \/ ItemsTaken("relevant", "relevant", FALSE, "secondary")
           \/ ItemsTaken("supporting", "supporting", FALSE, "supporting_causal")
           \/ ItemsTaken("limit", "relevant", TRUE, "finishing")
  BY <1>4, <1>9, ItemsTakenKeeps
<1>10. CASE ItemsTaken("supporting_causal", "supporting", TRUE,
              IF Size(items, derivations, sources, plain) <= evidencePacketHardLimitBytes
                THEN "finishing" ELSE "limit")
  <2>1. PICK next \in {"finishing", "limit"} : ItemsTaken("supporting_causal", "supporting", TRUE, next)
    BY <1>10
  <2> QED
    BY <1>4, <2>1, ItemsTakenKeeps
<1>11. CASE CutMetadata \/ Finish
  BY <1>11, CutMetadataKeeps, FinishKeeps
<1>12. CASE UNCHANGED packetVars
  BY <1>12 DEF packetVars, PacketInv, EvidenceKnown, ItemsLeft, AsReceived, DerivationsClosed, SourcesNamed,
     DropsCounted, MaterialHeld, MaterialIntact, MaterialProtected, Guarded, Compacting, Fits, Material,
     LeftOf, Ids, UsedSources
<1> QED
  BY <1>1, <1>2, <1>3, <1>5, <1>6, <1>7, <1>8, <1>9, <1>10, <1>11, <1>12 DEF PacketNext

LEMMA PacketAlways == ReasonerSpec => []PacketInv
<1>1. ReasonerInit => PacketInv
  BY PacketInitially DEF ReasonerInit
<1>2. [ReasonerNext]_reasonerVars => [PacketNext]_packetVars
  BY DEF ReasonerNext, Reason, reasonerVars
<1> QED
  BY <1>1, <1>2, PacketStep, PTL DEF ReasonerSpec
--------------------------------------------------------------------------------
LEMMA PacketRefersToItself == PacketInv => ReferencesClosed
<1> SUFFICES ASSUME PacketInv, stage = "built"
             PROVE  /\ \A d \in derivations : References(d) \subseteq Ids(items)
                    /\ UNION evidence.conflicts \subseteq Ids(items)
                    /\ UsedSources(items) = sources
  BY DEF ReferencesClosed
<1>1. UNION evidence.conflicts \subseteq Ids(items)
  <2>1. UNION evidence.conflicts \subseteq Ids(OfCriticality(evidence.items, "critical"))
    BY EvidenceFacts DEF PacketInv, EvidenceKnown
  <2>2. Ids(OfCriticality(evidence.items, "critical")) \subseteq Ids(items)
    BY DEF PacketInv, ItemsLeft, LeftOf, From, Ids, OfCriticality
  <2> QED
    BY <2>1, <2>2
<1> QED
  BY <1>1 DEF PacketInv, DerivationsClosed, SourcesNamed

LEMMA PacketKeepsWhatDecides == PacketInv => DecidingEvidenceKept
<1> SUFFICES ASSUME PacketInv, stage = "built"
             PROVE  /\ Ids(OfCriticality(evidence.items, "critical")) \subseteq Ids(items)
                    /\ dropped = Cardinality(evidence.items) - Cardinality(items)
                    /\ dropped > 0 => compacted
                    /\ Fits => /\ Material(evidence.derivations) \subseteq derivations
                               /\ {i.id : i \in {j \in evidence.items : packetMaterialItem(j)}} \subseteq Ids(items)
  BY DEF DecidingEvidenceKept
<1>1. Ids(OfCriticality(evidence.items, "critical")) \subseteq Ids(items)
  BY DEF PacketInv, ItemsLeft, LeftOf, From, Ids, OfCriticality
<1>2. \A j \in evidence.items : packetMaterialItem(j) => Deciding(evidence.route, j)
  BY DEF packetMaterialItem, Deciding
<1>3. Fits => {i.id : i \in {j \in evidence.items : packetMaterialItem(j)}} \subseteq Ids(items)
  BY <1>2 DEF PacketInv, MaterialHeld
<1> QED
  BY <1>1, <1>3 DEF PacketInv, DropsCounted, MaterialHeld

(* No size makes the packet lose what decides: every critical item, and,    *)
(* unless their number already was too large, what conflicts or a material *)
(* derivation rest on and the material facts of the route; what was given  *)
(* up is counted, and said (evidence_packet_projection.go:133).             *)
THEOREM PacketsKeepWhatDecides == ReasonerSpec => []DecidingEvidenceKept
BY PacketAlways, PacketKeepsWhatDecides, PTL
--------------------------------------------------------------------------------
(* A draft that was accepted cites references of the packet it was given.  *)
SaidStands ==
  said.valid =>
    /\ stage = "built" /\ said.cites # {} /\ said.cites \subseteq reasonerPacketReferenceIDs
    /\ evidence.route = "deployment_correlation" /\ ~packetHasDirectCausalEvidence(items, derivations)
         => said.says \cap CausalClaims = {}

LEMMA BuiltStays == stage = "built" /\ PacketNext => FALSE
BY DEF PacketNext, Receive, Refuse, Project, TakeField, FieldsTaken, TakeItem, ItemsTaken, CutMetadata, Finish

LEMMA AcceptedStands ==
  ASSUME NEW draft, parseReasonerDraft(draft)
  PROVE  /\ Accepted(draft).cites # {} /\ Accepted(draft).cites \subseteq reasonerPacketReferenceIDs
         /\ evidence.route = "deployment_correlation" /\ ~packetHasDirectCausalEvidence(items, derivations)
              => Accepted(draft).says \cap CausalClaims = {}
<1>1. \A s \in Statements(draft) : Range(s.cites) \subseteq reasonerPacketReferenceIDs
  BY DEF Statements, parseReasonerDraft, validateReasonerFact, validateReasonerReferences, Range
<1>2. Range(draft.conclusion.cites) # {}
  BY DEF parseReasonerDraft, validateReasonerReferences, Range
<1>3. draft.conclusion \in Statements(draft)
  BY DEF Statements
<1>4. /\ Accepted(draft).cites = UNION {Range(s.cites) : s \in Statements(draft)}
      /\ Accepted(draft).says = {s.says : s \in Statements(draft)}
  BY DEF Accepted
<1>5. \A s \in Statements(draft) : validateReasonerText(s.says)
  BY DEF parseReasonerDraft
<1>6. Accepted(draft).cites \subseteq reasonerPacketReferenceIDs
  BY <1>1, <1>4
<1>7. Accepted(draft).cites # {}
  BY <1>2, <1>3, <1>4
<1>8. evidence.route = "deployment_correlation" /\ ~packetHasDirectCausalEvidence(items, derivations)
        => Accepted(draft).says \cap CausalClaims = {}
  BY <1>4, <1>5 DEF validateReasonerText
<1> QED
  BY <1>6, <1>7, <1>8

LEMMA SaidAlways == ReasonerSpec => []SaidStands
<1>1. ReasonerInit => SaidStands
  BY DEF ReasonerInit, NothingSaid, SaidStands
<1>2. SaidStands /\ [ReasonerNext]_reasonerVars => SaidStands'
  <2> SUFFICES ASSUME SaidStands, [ReasonerNext]_reasonerVars PROVE SaidStands'
    OBVIOUS
  <2>1. CASE PacketNext /\ UNCHANGED said
    BY <2>1, BuiltStays DEF SaidStands
  <2>2. CASE Reason
    <3>1. stage = "built" /\ UNCHANGED packetVars
      BY <2>2 DEF Reason
    <3>2. CASE \E draft : parseReasonerDraft(draft) /\ said' = Accepted(draft)
      <4>1. PICK draft : parseReasonerDraft(draft) /\ said' = Accepted(draft)
        BY <3>2
      <4>2. /\ said'.cites # {} /\ said'.cites \subseteq reasonerPacketReferenceIDs
            /\ evidence.route = "deployment_correlation" /\ ~packetHasDirectCausalEvidence(items, derivations)
                 => said'.says \cap CausalClaims = {}
        BY <4>1, AcceptedStands
      <4> QED
        BY <3>1, <4>2 DEF packetVars, SaidStands, reasonerPacketReferenceIDs, ReferencesTo,
                          packetHasDirectCausalEvidence, Ids
    <3>3. CASE said'.valid = FALSE
      BY <3>3 DEF SaidStands
    <3>4. (\E draft : parseReasonerDraft(draft) /\ said' = Accepted(draft)) \/ said'.valid = FALSE
      <4>1. \A ended : Rejected(ended).valid = FALSE
        BY DEF Rejected, NothingSaid
      <4> QED
        BY <2>2, <4>1 DEF Reason
    <3> QED
      BY <3>2, <3>3, <3>4
  <2>3. CASE UNCHANGED reasonerVars
    BY <2>3 DEF reasonerVars, packetVars, SaidStands, reasonerPacketReferenceIDs, ReferencesTo,
                packetHasDirectCausalEvidence, Ids
  <2> QED
    BY <2>1, <2>2, <2>3 DEF ReasonerNext
<1> QED
  BY <1>1, <1>2, PTL DEF ReasonerSpec

LEMMA SaidRestsOnThePacket == PacketInv /\ SaidStands => AcceptedDraftsStand
<1> SUFFICES ASSUME PacketInv, SaidStands, said.valid
             PROVE  /\ said.cites # {}
                    /\ \A id \in {i.id : i \in evidence.items} : Item(id) \in said.cites => id \in Ids(items)
                    /\ \A ids \in evidence.conflicts : Conflict(ids) \in said.cites => ids \subseteq Ids(items)
                    /\ \A r \in {i.requirement : i \in evidence.items} :
                         Requirement(r) \in said.cites => r \in {i.requirement : i \in items} \cup evidence.limited
                    /\ evidence.route = "deployment_correlation" /\ said.says \cap CausalClaims # {}
                         => packetHasDirectCausalEvidence(evidence.items, evidence.derivations)
  BY DEF AcceptedDraftsStand
<1>1. /\ \A d \in derivations : References(d) \subseteq Ids(items)
      /\ UNION evidence.conflicts \subseteq Ids(items)
  BY PacketRefersToItself DEF SaidStands, ReferencesClosed
<1>2. said.cites # {} /\ said.cites \subseteq reasonerPacketReferenceIDs
  BY DEF SaidStands
<1>3. \A c \in reasonerPacketReferenceIDs :
        \/ \E id \in Ids(items) : c = Item(id)
        \/ \E r \in {i.requirement : i \in items} \cup evidence.limited : c = Requirement(r)
        \/ \E ids \in evidence.conflicts : c = Conflict(ids)
  BY <1>1 DEF reasonerPacketReferenceIDs, ReferencesTo
<1>4. ASSUME NEW id, Item(id) \in said.cites PROVE id \in Ids(items)
  BY <1>2, <1>3, <1>4 DEF Item, Requirement, Conflict
<1>5. ASSUME NEW r, Requirement(r) \in said.cites
      PROVE  r \in {i.requirement : i \in items} \cup evidence.limited
  BY <1>2, <1>3, <1>5 DEF Item, Requirement, Conflict
<1>6. ASSUME packetHasDirectCausalEvidence(items, derivations)
      PROVE  packetHasDirectCausalEvidence(evidence.items, evidence.derivations)
  <2>1. \A i \in items : \E j \in evidence.items : i.fields \subseteq j.fields
    BY DEF PacketInv, ItemsLeft, LeftOf, From
  <2>2. derivations \subseteq evidence.derivations
    BY DEF PacketInv, DerivationsClosed
  <2> QED
    BY <1>6, <2>1, <2>2 DEF packetHasDirectCausalEvidence
<1>7. evidence.route = "deployment_correlation" /\ said.says \cap CausalClaims # {}
        => packetHasDirectCausalEvidence(evidence.items, evidence.derivations)
  BY <1>6 DEF SaidStands
<1> QED
  BY <1>1, <1>2, <1>4, <1>5, <1>7

(* From the evidence to the answer no reference hangs: neither in the       *)
(* packet nor in what the model is believed.                               *)
THEOREM AnswersRest == ReasonerSpec => []AnswersRestOnThePacket
<1>1. PacketInv /\ SaidStands => AnswersRestOnThePacket
  BY PacketRefersToItself, SaidRestsOnThePacket DEF AnswersRestOnThePacket
<1> QED
  BY <1>1, PacketAlways, SaidAlways, PTL
================================================================================
