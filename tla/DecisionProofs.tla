---------------------------- MODULE DecisionProofs ----------------------------
(* Proofs about Decision, for any findings, embeddings, budgets and gates:
   types, that the greedy grouping leaves no redundancy among the findings that
   reach the decision, that the budget loop selects what it promises, and that
   every finding gets its verdict. *)
EXTENDS Decision, FiniteSetTheorems, WellFoundedInduction, TLAPS

-----------------------------------------------------------------------------
(* Numbers. *)

(* A set of numbers has a least one: the order of Nat is well-founded. *)
LEMMA LeastNumber ==
  ASSUME NEW T, T \subseteq Nat, T # {}
  PROVE  \E x \in T : \A y \in T : x <= y
<1> DEFINE R == {ss \in Nat \X Nat : ss[1] < ss[2]}
<1>1. IsWellFoundedOn(R, Nat)
  BY NatLessThanWellFounded DEF OpToRel
<1>2. PICK x \in T : \A y \in T : ~ (<<y, x>> \in R)
  BY <1>1, WFMin
<1>3. ASSUME NEW y \in T PROVE x <= y
  <2>1. <<y, x>> \in Nat \X Nat
    BY <1>2
  <2>2. ~ (<<y, x>>[1] < <<y, x>>[2])
    BY <1>2, <2>1
  <2>3. ~ (y < x)
    BY <2>2
  <2> QED BY <1>2, <2>3
<1> QED BY <1>2, <1>3

(* A finite set of integers has a greatest and a least one: the one that the
   fewest exceed, and the one that the fewest are below. *)
LEMMA Bounds ==
  ASSUME NEW V, IsFiniteSet(V), V \subseteq Int, V # {}
  PROVE  (\E m \in V : \A v \in V : v <= m) /\ (\E m \in V : \A v \in V : m <= v)
<1> DEFINE Above(m) == {v \in V : v > m}
           Below(m) == {v \in V : v < m}
<1>1. \A m \in V : /\ IsFiniteSet(Above(m)) /\ Cardinality(Above(m)) \in Nat
                   /\ IsFiniteSet(Below(m)) /\ Cardinality(Below(m)) \in Nat
  BY FS_Subset, FS_CardinalityType
<1>2. PICK m \in V : \A v \in V : Cardinality(Above(m)) <= Cardinality(Above(v))
  <2> DEFINE T == {Cardinality(Above(v)) : v \in V}
  <2>1. T \subseteq Nat /\ T # {}
    BY <1>1
  <2>2. PICK x \in T : \A y \in T : x <= y
    BY <2>1, LeastNumber
  <2> QED BY <2>2
<1>3. PICK n \in V : \A v \in V : Cardinality(Below(n)) <= Cardinality(Below(v))
  <2> DEFINE T == {Cardinality(Below(v)) : v \in V}
  <2>1. T \subseteq Nat /\ T # {}
    BY <1>1
  <2>2. PICK x \in T : \A y \in T : x <= y
    BY <2>1, LeastNumber
  <2> QED BY <2>2
<1>4. ASSUME NEW v \in V, v > m PROVE FALSE
  <2>0. v \in Int /\ m \in Int /\ ~ (v > v) /\ \A w \in V : w > v => w > m
    BY <1>4
  <2>1. v \in Above(m) /\ v \notin Above(v) /\ Above(v) \in SUBSET Above(m)
    BY <1>4, <2>0, Zenon
  <2>2. Cardinality(Above(v)) <= Cardinality(Above(m)) /\ Cardinality(Above(v)) # Cardinality(Above(m))
    BY <1>1, <2>1, FS_Subset
  <2>3. Cardinality(Above(m)) <= Cardinality(Above(v))
    BY <1>2
  <2>4. Cardinality(Above(m)) \in Nat /\ Cardinality(Above(v)) \in Nat
    BY <1>1
  <2> HIDE DEF Above
  <2> QED BY <2>2, <2>3, <2>4
<1>5. ASSUME NEW v \in V, v < n PROVE FALSE
  <2>0. v \in Int /\ n \in Int /\ ~ (v < v) /\ \A w \in V : w < v => w < n
    BY <1>5
  <2>1. v \in Below(n) /\ v \notin Below(v) /\ Below(v) \in SUBSET Below(n)
    BY <1>5, <2>0, Zenon
  <2>2. Cardinality(Below(v)) <= Cardinality(Below(n)) /\ Cardinality(Below(v)) # Cardinality(Below(n))
    BY <1>1, <2>1, FS_Subset
  <2>3. Cardinality(Below(n)) <= Cardinality(Below(v))
    BY <1>3
  <2>4. Cardinality(Below(n)) \in Nat /\ Cardinality(Below(v)) \in Nat
    BY <1>1
  <2> HIDE DEF Below
  <2> QED BY <2>2, <2>3, <2>4
<1> QED BY <1>4, <1>5

(* The values of finitely many findings are finitely many. *)
LEMMA ImageIsFinite ==
  ASSUME NEW S, IsFiniteSet(S), NEW f PROVE IsFiniteSet({f[x] : x \in S})
<1> DEFINE T == {f[x] : x \in S}
           g == [x \in S |-> f[x]]
<1>1. g \in Surjection(S, T)
  BY DEF Surjection
<1> QED BY <1>1, FS_Surjection

(* The weighted sum of a utility, in its own shape. *)
LEMMA WeightedIsInt ==
  ASSUME NEW a \in Int, NEW b \in Int, NEW c \in Int, NEW d \in Int,
         NEW e \in Int, NEW g \in Int, NEW h \in Int, NEW i \in Int
  PROVE  30 * a + 20 * b + 15 * c + 15 * d + 10 * e + 10 * g - 8 * h - 10 * i \in Int
OBVIOUS

(* The difference of the extremes that disagreement_variance takes. *)
LEMMA SpreadIsInt ==
  ASSUME NEW V, IsFiniteSet(V), V \subseteq Int, V # {}
  PROVE  Spread(V) \in Int
<1>1. (CHOOSE m \in V : \A v \in V : v <= m) \in V /\ (CHOOSE m \in V : \A v \in V : m <= v) \in V
  BY Bounds
<1>2. \A a, b \in Int : a - b \in Int
  OBVIOUS
<1> QED BY <1>1, <1>2 DEF Spread

-----------------------------------------------------------------------------
USE DecisionAssumption

(* What two findings have in common does not depend on which comes first. *)
LEMMA GroupableIsSymmetric ==
  ASSUME NEW f, NEW g PROVE Groupable(f, g) => Groupable(g, f)
<1>1. <<item[f].topic, item[g].topic>> \in Alike => <<item[g].topic, item[f].topic>> \in Alike
  OBVIOUS
<1>2. Aligned(item[f].category, item[g].category) => Aligned(item[g].category, item[f].category)
  BY DEF Aligned
<1>3. LinesClose(item[f], item[g]) => LinesClose(item[g], item[f])
  BY DEF LinesClose
<1> QED BY <1>1, <1>2, <1>3 DEF Groupable

(* A seed is at least as confident as the seeds that come after it. *)
LEMMA SeedsFall ==
  ASSUME TypeOK, NEW f \in Findings, NEW g \in Findings, Precedes(f, g)
  PROVE  Confidence(f) >= Confidence(g)
<1>1. item[f].confidence \in Int /\ item[g].confidence \in Int
  BY DEF TypeOK
<1>2. item[f].confidence >= item[g].confidence
  BY <1>1 DEF Precedes
<1> QED BY <1>2 DEF Confidence

(* The cap is a number, whichever override or default it comes from. *)
LEMMA CapIsNat ==
  ASSUME TypeOK PROVE Cap \in Nat
<1>1. Standard \in Nat
  BY DEF TypeOK, Standard
<1>2. \A c \in DOMAIN override : override[c] \in Nat
  BY DEF TypeOK
<1> QED BY <1>1, <1>2 DEF Cap

(* The budget that is left is a number: no cap and no gate makes it negative. *)
LEMMA RemainingIsNat ==
  ASSUME TypeOK PROVE Remaining \in Nat
<1> DEFINE gated == {f \in Decisions : Gated(f)}
<1>1. gated \in SUBSET Findings
  BY DEF TypeOK, Decisions
<1>2. Cardinality(gated) \in Nat
  BY <1>1, FS_Subset, FS_CardinalityType
<1>3. Cap \in Nat
  BY CapIsNat
<1> HIDE DEF gated
<1>4. (IF Cardinality(gated) < Cap THEN Cap - Cardinality(gated) ELSE 0) \in Nat
  BY <1>2, <1>3
<1> QED BY <1>4 DEF Remaining, gated

-----------------------------------------------------------------------------
LEMMA InitTypes == Init => TypeOK
BY DEF Init, TypeOK, Phases

LEMMA NextTypes == TypeOK /\ [Next]_vars => TypeOK'
<1> SUFFICES ASSUME TypeOK, [Next]_vars PROVE TypeOK'
  OBVIOUS
<1> USE DEF TypeOK, Phases
<1>1. CASE Normalise
  <2>1. Survivors \subseteq Findings
    BY DEF Survivors
  <2> QED BY <1>1, <2>1 DEF Normalise, inputVars
<1>2. ASSUME NEW f \in Findings, Seed(f) PROVE TypeOK'
  <2>1. group' \in [Findings -> Findings \cup {None}]
    <3>1. CASE group' = group
      BY <3>1
    <3>2. CASE group' = [g \in Findings |-> IF g \in {f} \cup Neighbours(f) THEN f ELSE group[g]]
      BY <3>2
    <3> QED BY <1>2, <3>1, <3>2 DEF Seed
  <2> QED BY <1>2, <2>1 DEF Seed, inputVars
<1>3. CASE StoreCandidates
  BY <1>3 DEF StoreCandidates, inputVars
<1>4. CASE ApplyGates
  <2>1. Remaining \in Nat
    BY RemainingIsNat
  <2> QED BY <1>4, <2>1 DEF ApplyGates, Decisions, inputVars
<1>5. ASSUME NEW f \in Findings, Fill(f) PROVE TypeOK'
  BY <1>5 DEF Fill, inputVars
<1>6. CASE Selected
  BY <1>6 DEF Selected, inputVars
<1>7. ASSUME NEW f \in Findings, Apply(f) PROVE TypeOK'
  BY <1>7 DEF Apply, Verdict, inputVars
<1>8. CASE Decided
  BY <1>8 DEF Decided, inputVars
<1>9. CASE DecisionFails
  BY <1>9 DEF DecisionFails, inputVars
<1>10. CASE UNCHANGED vars
  BY <1>10 DEF vars, inputVars
<1> QED BY <1>1, <1>2, <1>3, <1>4, <1>5, <1>6, <1>7, <1>8, <1>9, <1>10 DEF Next

(* The types: whatever the agents return and a repository sets. *)
THEOREM DecisionTypeCorrect == Spec => []TypeOK
<1> QED BY InitTypes, NextTypes, PTL DEF Spec

-----------------------------------------------------------------------------
(* The grouping loop. *)

(* A step that leaves inputs and groups alone leaves what is said of them. *)
LEMMA StarsKept ==
  ASSUME GroupsAreStars, UNCHANGED <<item, kept, ahead, group>>, pc # "normalise",
         pc' # "normalise", pc' # "group" => ahead = {}
  PROVE  GroupsAreStars'
<1>1. \A f, g : Groupable(f, g)' <=> Groupable(f, g)
  BY DEF Groupable
<1>2. \A f : Confidence(f)' = Confidence(f)
  BY DEF Confidence
<1>3. Decisions' = Decisions
  BY DEF Decisions, Representative
<1> QED BY <1>1, <1>2, <1>3 DEF GroupsAreStars

(* What one round of the loop takes was waiting, so that the seed, the first of
   what waits, is at least as confident. *)
LEMMA NeighboursWait ==
  ASSUME TypeOK, GroupsAreStars, NEW f \in ahead, group[f] = None,
         NEW g \in Neighbours(f)
  PROVE  g \in ahead
<1>1. f \in Decisions /\ g \in Decisions /\ f # g /\ Groupable(f, g)
  BY DEF TypeOK, Decisions, Representative, Neighbours
<1>2. Groupable(g, f)
  BY <1>1, GroupableIsSymmetric
<1> QED BY <1>1, <1>2 DEF GroupsAreStars

LEMMA SeedKeepsStars ==
  ASSUME TypeOK, GroupsAreStars, NEW h \in Findings, Seed(h)
  PROVE  GroupsAreStars'
<1>0. /\ h \in ahead /\ h \in kept /\ pc = "group" /\ pc' = "group"
      /\ ahead' = ahead \ {h} /\ kept' = kept /\ item' = item
      /\ \A g \in ahead \ {h} : Precedes(h, g)
  BY DEF Seed, TypeOK, inputVars
<1>1. \A f, g : Groupable(f, g)' <=> Groupable(f, g)
  BY <1>0 DEF Groupable
<1>2. \A f : Confidence(f)' = Confidence(f)
  BY <1>0 DEF Confidence
<1>3. group[h] # h
  BY <1>0 DEF GroupsAreStars, None
<1>4. CASE group[h] # None \/ Neighbours(h) = {}
  <2>1. group' = group
    BY <1>4 DEF Seed
  <2>2. Decisions' = Decisions
    BY <1>0, <2>1 DEF Decisions, Representative
  <2>3. ASSUME NEW g \in Decisions \ {h}, h \in Decisions PROVE ~ Groupable(h, g)
    <3>1. group[h] = None /\ Neighbours(h) = {}
      BY <2>3, <1>3, <1>4 DEF Decisions, Representative
    <3>2. CASE group[g] = None
      BY <3>1, <3>2, <2>3 DEF Neighbours, Decisions
    <3>3. CASE group[g] # None
      <4>1. g \in Decisions \ ahead /\ h \in Decisions \ {g}
        BY <3>3, <2>3 DEF GroupsAreStars, Decisions, Representative, TypeOK
      <4>2. ~ Groupable(g, h)
        BY <4>1 DEF GroupsAreStars
      <4> QED BY <4>2, GroupableIsSymmetric
    <3> QED BY <3>2, <3>3
  <2>4. \A f \in Decisions \ ahead' : \A g \in Decisions \ {f} : ~ Groupable(f, g)
    BY <1>0, <2>3 DEF GroupsAreStars
  <2>5. \A f \in Findings : group[f] # None =>
          /\ f \in kept
          /\ group[f] \in kept \ ahead'
          /\ group[group[f]] = group[f]
          /\ group[f] # f => Groupable(group[f], f) /\ Confidence(group[f]) >= Confidence(f)
    BY <1>0 DEF GroupsAreStars
  <2> QED BY <1>0, <1>1, <1>2, <2>1, <2>2, <2>4, <2>5 DEF GroupsAreStars
<1>5. CASE group[h] = None /\ Neighbours(h) # {}
  <2> DEFINE taken == {h} \cup Neighbours(h)
  <2>1. group' = [g \in Findings |-> IF g \in taken THEN h ELSE group[g]]
    BY <1>5 DEF Seed
  <2>2. /\ taken \subseteq kept
        /\ \A g \in taken : group[g] = None
        /\ \A g \in Neighbours(h) : g # h /\ Groupable(h, g)
    BY <1>0, <1>5 DEF Neighbours
  <2>3. kept \subseteq Findings /\ h # None
    BY DEF TypeOK, None
  <2>4. \A g \in Neighbours(h) : Confidence(h) >= Confidence(g)
    <3> TAKE g \in Neighbours(h)
    <3>1. g \in ahead \ {h}
      BY <1>0, <1>5, <2>2, NeighboursWait
    <3>2. Precedes(h, g) /\ g \in Findings
      BY <1>0, <3>1 DEF TypeOK
    <3> QED BY <3>2, SeedsFall
  <2> HIDE DEF taken
  <2>5. \A g \in Findings : group'[g] = IF g \in taken THEN h ELSE group[g]
    BY <2>1
  <2>6. h \in taken /\ taken = {h} \cup Neighbours(h)
    BY DEF taken
  <2>7. Decisions' = Decisions \ Neighbours(h)
    <3>1. \A g \in kept : Representative(g)' <=> (Representative(g) /\ g \notin Neighbours(h))
      <4> TAKE g \in kept
      <4>1. CASE g = h
        BY <4>1, <1>5, <2>2, <2>3, <2>5, <2>6 DEF Representative
      <4>2. CASE g \in Neighbours(h)
        BY <4>2, <2>2, <2>3, <2>5, <2>6 DEF Representative
      <4>3. CASE g \notin taken
        BY <4>3, <2>3, <2>5, <2>6 DEF Representative
      <4> QED BY <4>1, <4>2, <4>3, <2>6
    <3> QED BY <3>1, <1>0 DEF Decisions
  <2>8. ASSUME NEW f \in Findings, group'[f] # None
        PROVE  /\ f \in kept
               /\ group'[f] \in kept \ ahead'
               /\ group'[group'[f]] = group'[f]
               /\ group'[f] # f =>
                    Groupable(group'[f], f) /\ Confidence(group'[f]) >= Confidence(f)
    <3>1. CASE f \in taken
      <4>1. group'[f] = h /\ group'[h] = h
        BY <3>1, <2>5, <2>6
      <4> QED BY <3>1, <4>1, <1>0, <2>2, <2>4, <2>6
    <3>2. CASE f \notin taken
      <4>1. group'[f] = group[f] /\ group[f] # None
        BY <3>2, <2>8, <2>5
      <4>2. /\ f \in kept /\ group[f] \in kept \ ahead /\ group[group[f]] = group[f]
            /\ group[f] # f => Groupable(group[f], f) /\ Confidence(group[f]) >= Confidence(f)
        BY <4>1 DEF GroupsAreStars
      <4>3. group[f] \notin taken /\ group[f] \in Findings
        BY <4>1, <4>2, <2>2, <2>3
      <4>4. group'[group[f]] = group[f]
        BY <4>2, <4>3, <2>5
      <4> QED BY <4>1, <4>2, <4>4, <1>0
    <3> QED BY <3>1, <3>2
  <2>9. ASSUME NEW f \in Decisions' \ ahead', NEW g \in Decisions' \ {f}
        PROVE  ~ Groupable(f, g)
    <3>1. f \in Decisions /\ g \in Decisions /\ f # g /\ f \notin Neighbours(h) /\ g \notin Neighbours(h)
      BY <2>7, <2>9
    <3>2. CASE f # h
      BY <3>1, <3>2, <2>9, <1>0 DEF GroupsAreStars
    <3>3. CASE f = h
      <4>1. CASE group[g] = None
        BY <3>1, <3>3, <4>1 DEF Neighbours, Decisions
      <4>2. CASE group[g] # None
        <5>1. g \in Decisions \ ahead /\ h \in Decisions \ {g}
          BY <3>1, <3>3, <4>2 DEF GroupsAreStars, Decisions, Representative, TypeOK
        <5>2. ~ Groupable(g, h)
          BY <5>1 DEF GroupsAreStars
        <5> QED BY <5>2, <3>3, GroupableIsSymmetric
      <4> QED BY <4>1, <4>2
    <3> QED BY <3>2, <3>3
  <2> QED BY <1>0, <1>1, <1>2, <2>8, <2>9 DEF GroupsAreStars
<1> QED BY <1>4, <1>5

LEMMA StarsInductive ==
  /\ Init => GroupsAreStars
  /\ TypeOK /\ GroupsAreStars /\ [Next]_vars => GroupsAreStars'
<1>1. Init => GroupsAreStars
  BY DEF Init, GroupsAreStars, Decisions
<1>2. ASSUME TypeOK, GroupsAreStars, [Next]_vars PROVE GroupsAreStars'
  <2>1. CASE Normalise
    <3>1. /\ group' = group /\ item' = item /\ kept' = ahead' /\ pc' = "group"
          /\ \A f \in Findings : group[f] = None
          /\ kept' \subseteq Findings
      BY <1>2, <2>1 DEF Normalise, GroupsAreStars, inputVars, Survivors
    <3>2. Decisions' \ ahead' = {}
      BY <3>1 DEF Decisions
    <3> QED BY <3>1, <3>2 DEF GroupsAreStars
  <2>2. ASSUME NEW f \in Findings, Seed(f) PROVE GroupsAreStars'
    BY <1>2, <2>2, SeedKeepsStars
  <2>3. CASE StoreCandidates
    BY <1>2, <2>3, StarsKept DEF StoreCandidates, inputVars
  <2>4. CASE ApplyGates
    <3>1. ahead = {}
      BY <1>2, <2>4 DEF ApplyGates, GroupsAreStars
    <3> QED BY <1>2, <2>4, <3>1, StarsKept DEF ApplyGates, inputVars
  <2>5. ASSUME NEW f \in Findings, Fill(f) PROVE GroupsAreStars'
    <3>1. ahead = {}
      BY <1>2, <2>5 DEF Fill, GroupsAreStars
    <3> QED BY <1>2, <2>5, <3>1, StarsKept DEF Fill, inputVars
  <2>6. CASE Selected
    <3>1. ahead = {}
      BY <1>2, <2>6 DEF Selected, GroupsAreStars
    <3> QED BY <1>2, <2>6, <3>1, StarsKept DEF Selected, inputVars
  <2>7. ASSUME NEW f \in Findings, Apply(f) PROVE GroupsAreStars'
    <3>1. ahead = {}
      BY <1>2, <2>7 DEF Apply, GroupsAreStars
    <3> QED BY <1>2, <2>7, <3>1, StarsKept DEF Apply, inputVars
  <2>8. CASE Decided
    <3>1. ahead = {}
      BY <1>2, <2>8 DEF Decided, GroupsAreStars
    <3> QED BY <1>2, <2>8, <3>1, StarsKept DEF Decided, inputVars
  <2>9. CASE DecisionFails
    <3>1. ahead = {}
      BY <1>2, <2>9 DEF DecisionFails, GroupsAreStars
    <3> QED BY <1>2, <2>9, <3>1, StarsKept DEF DecisionFails, inputVars
  <2>10. CASE UNCHANGED vars
    <3>1. UNCHANGED <<item, kept, ahead, group, pc>>
      BY <2>10 DEF vars, inputVars
    <3>2. \A f, g : Groupable(f, g)' <=> Groupable(f, g)
      BY <3>1 DEF Groupable
    <3>3. \A f : Confidence(f)' = Confidence(f)
      BY <3>1 DEF Confidence
    <3>4. Decisions' = Decisions
      BY <3>1 DEF Decisions, Representative
    <3> QED BY <1>2, <3>1, <3>2, <3>3, <3>4 DEF GroupsAreStars
  <2> QED BY <1>2, <2>1, <2>2, <2>3, <2>4, <2>5, <2>6, <2>7, <2>8, <2>9, <2>10 DEF Next
<1> QED BY <1>1, <1>2

(* Stars cover all redundancy once every seed has been tried. *)
LEMMA StarsCover ==
  ASSUME TypeOK, GroupsAreStars PROVE GroupsCoverRedundancy
<1> SUFFICES ASSUME pc \notin {"normalise", "group"}
             PROVE  /\ \A f, g \in Decisions : f # g => ~ Groupable(f, g)
                    /\ \A f \in kept \ Decisions :
                         /\ group[f] \in Decisions
                         /\ Groupable(group[f], f)
                         /\ Confidence(group[f]) >= Confidence(f)
  BY DEF GroupsCoverRedundancy
<1>1. ahead = {}
  BY DEF GroupsAreStars
<1>2. \A f, g \in Decisions : f # g => ~ Groupable(f, g)
  BY <1>1 DEF GroupsAreStars
<1>3. ASSUME NEW f \in kept \ Decisions
      PROVE  /\ group[f] \in Decisions
             /\ Groupable(group[f], f)
             /\ Confidence(group[f]) >= Confidence(f)
  <2>1. f \in Findings /\ group[f] # None /\ group[f] # f
    BY <1>3 DEF TypeOK, Decisions, Representative
  <2> QED BY <2>1 DEF GroupsAreStars, Decisions, Representative
<1> QED BY <1>2, <1>3

(* The greedy loop, for any similarity that is symmetric, transitive or not. *)
THEOREM GroupsAlwaysCover == Spec => []GroupsCoverRedundancy
<1>1. Spec => [](TypeOK /\ GroupsAreStars)
  BY InitTypes, NextTypes, StarsInductive, PTL DEF Spec
<1> QED BY <1>1, StarsCover, PTL

-----------------------------------------------------------------------------
(* The verdicts. *)

(* A step that leaves the verdicts and what they follow from alone. *)
LEMMA GroupsKept ==
  ASSUME UNCHANGED <<item, kept, group>>
  PROVE  /\ Decisions' = Decisions
         /\ \A f : Members(f)' = Members(f)
         /\ \A f : Mandatory(f)' <=> Mandatory(f)
<1>1. Decisions' = Decisions
  BY DEF Decisions, Representative
<1>2. \A f : Members(f)' = Members(f)
  BY DEF Members
<1>3. \A f : Mandatory(f)' <=> Mandatory(f)
  BY DEF Mandatory, Severity
<1> QED BY <1>1, <1>2, <1>3

(* The groups of two representatives have nothing in common. *)
LEMMA GroupsAreDisjoint ==
  ASSUME TypeOK, GroupsAreStars, NEW f \in Decisions, NEW h \in Decisions, f # h
  PROVE  ({f} \cup Members(f)) \cap ({h} \cup Members(h)) = {}
<1>1. \A d \in Decisions : d \in Findings /\ d \in kept /\ d # None /\ group[d] \in {None, d}
  BY DEF Decisions, Representative, TypeOK, None
<1>2. \A d \in Decisions : \A g \in {d} \cup Members(d) :
        IF group[d] = None THEN g = d ELSE group[g] = d
  BY <1>1 DEF Members
<1> QED BY <1>1, <1>2

LEMMA ApplyKeepsDecided ==
  ASSUME TypeOK, GroupsAreStars, GroupsAreDecided, NEW f \in Findings, Apply(f)
  PROVE  GroupsAreDecided'
<1>1. /\ UNCHANGED <<item, kept, group, selected, pc>> /\ pc = "apply"
      /\ f \in Decisions /\ status[f] = "CANDIDATE"
  BY DEF Apply, Undecided, inputVars
<1>2. status' = [g \in Findings |-> IF g = f THEN Verdict(f)
                                    ELSE IF g \in Members(f) THEN "SUPPRESSED" ELSE status[g]]
  BY DEF Apply
<1>3. \A g \in Findings : status'[g] = IF g = f THEN Verdict(f)
                             ELSE IF g \in Members(f) THEN "SUPPRESSED" ELSE status[g]
  BY <1>2
<1>4. /\ Decisions' = Decisions
      /\ \A g : Members(g)' = Members(g)
      /\ \A g : Mandatory(g)' <=> Mandatory(g)
  BY <1>1, GroupsKept
<1>5. \A g : Verdict(g)' = Verdict(g)
  BY <1>1 DEF Verdict
<1>6. \A d \in Decisions : d \in Findings /\ Members(d) \subseteq Findings
  BY DEF Decisions, Members, TypeOK
<1>7. ASSUME NEW d \in Decisions
      PROVE  IF status'[d] = "CANDIDATE" THEN \A g \in Members(d) : status'[g] = "CANDIDATE"
             ELSE /\ status'[d] = Verdict(d)
                  /\ \A g \in Members(d) \ {d} : status'[g] = "SUPPRESSED"
  <2>1. CASE d = f
    <3>1. status'[f] = Verdict(f) /\ Verdict(f) # "CANDIDATE"
      BY <1>3 DEF Verdict
    <3>2. \A g \in Members(f) \ {f} : status'[g] = "SUPPRESSED"
      BY <1>1, <1>3, <1>6
    <3> QED BY <2>1, <3>1, <3>2
  <2>2. CASE d # f
    <3>1. \A g \in {d} \cup Members(d) : g \in Findings /\ g # f /\ g \notin Members(f)
      BY <1>1, <1>6, <2>2, GroupsAreDisjoint
    <3>2. \A g \in {d} \cup Members(d) : status'[g] = status[g]
      BY <1>3, <3>1
    <3>3. IF status[d] = "CANDIDATE" THEN \A g \in Members(d) : status[g] = "CANDIDATE"
          ELSE status[d] = Verdict(d) /\ \A g \in Members(d) \ {d} : status[g] = "SUPPRESSED"
      BY <1>1 DEF GroupsAreDecided
    <3> QED BY <3>2, <3>3
  <2> QED BY <2>1, <2>2
<1> QED BY <1>1, <1>4, <1>5, <1>7 DEF GroupsAreDecided

LEMMA DecidedInductive ==
  /\ Init => GroupsAreDecided
  /\ TypeOK /\ GroupsAreStars /\ GroupsAreDecided /\ [Next]_vars => GroupsAreDecided'
<1>1. Init => GroupsAreDecided
  BY DEF Init, GroupsAreDecided
<1>2. ASSUME TypeOK, GroupsAreStars, GroupsAreDecided, [Next]_vars PROVE GroupsAreDecided'
  <2>1. CASE Normalise
    BY <1>2, <2>1 DEF Normalise, GroupsAreDecided
  <2>2. ASSUME NEW f \in Findings, Seed(f) PROVE GroupsAreDecided'
    BY <2>2 DEF Seed, GroupsAreDecided
  <2>3. CASE StoreCandidates
    <3>1. \A f \in kept : status'[f] = "CANDIDATE"
      BY <1>2, <2>3 DEF StoreCandidates, TypeOK
    <3>2. pc' = "gate" /\ kept' = kept
      BY <2>3 DEF StoreCandidates
    <3> QED BY <3>1, <3>2 DEF GroupsAreDecided
  <2>4. CASE ApplyGates
    <3>1. UNCHANGED <<item, kept, group, status>> /\ pc' = "fill" /\ pc = "gate"
          /\ selected' = {f \in Decisions : Gated(f)}
      BY <2>4 DEF ApplyGates, inputVars
    <3>2. Decisions' = Decisions /\ \A f : Mandatory(f)' <=> Mandatory(f)
      BY <3>1, GroupsKept
    <3>3. \A f \in Decisions : Mandatory(f) => f \in selected'
      BY <3>1 DEF Gated
    <3> QED BY <1>2, <3>1, <3>2, <3>3 DEF GroupsAreDecided
  <2>5. ASSUME NEW f \in Findings, Fill(f) PROVE GroupsAreDecided'
    <3>1. UNCHANGED <<item, kept, group, status, pc>> /\ pc = "fill" /\ selected \subseteq selected'
      BY <2>5 DEF Fill, inputVars
    <3>2. Decisions' = Decisions /\ \A g : Mandatory(g)' <=> Mandatory(g)
      BY <3>1, GroupsKept
    <3> QED BY <1>2, <3>1, <3>2 DEF GroupsAreDecided
  <2>6. CASE Selected
    <3>1. UNCHANGED <<item, kept, group, status, selected>> /\ pc = "fill" /\ pc' = "apply"
      BY <2>6 DEF Selected, inputVars
    <3>2. /\ Decisions' = Decisions
          /\ \A g : Members(g)' = Members(g)
          /\ \A g : Mandatory(g)' <=> Mandatory(g)
      BY <3>1, GroupsKept
    <3>3. \A d \in Decisions : d \in kept /\ Members(d) \subseteq kept
      BY DEF Decisions, Members
    <3> QED BY <1>2, <3>1, <3>2, <3>3 DEF GroupsAreDecided
  <2>7. ASSUME NEW f \in Findings, Apply(f) PROVE GroupsAreDecided'
    BY <1>2, <2>7, ApplyKeepsDecided
  <2>8. CASE Decided
    <3>1. /\ UNCHANGED <<item, kept, group, status, selected>>
          /\ pc = "apply" /\ pc' = "done" /\ Undecided = {}
      BY <2>8 DEF Decided, inputVars
    <3>2. /\ Decisions' = Decisions
          /\ \A g : Members(g)' = Members(g)
          /\ \A g : Mandatory(g)' <=> Mandatory(g)
      BY <3>1, GroupsKept
    <3>3. Undecided' = Undecided /\ \A g : Verdict(g)' = Verdict(g)
      BY <3>1, <3>2 DEF Undecided, Verdict
    <3> QED BY <1>2, <3>1, <3>2, <3>3 DEF GroupsAreDecided
  <2>9. CASE DecisionFails
    BY <2>9 DEF DecisionFails, GroupsAreDecided
  <2>10. CASE UNCHANGED vars
    <3>1. UNCHANGED <<item, kept, group, status, selected, pc>>
      BY <2>10 DEF vars, inputVars
    <3>2. /\ Decisions' = Decisions
          /\ \A g : Members(g)' = Members(g)
          /\ \A g : Mandatory(g)' <=> Mandatory(g)
      BY <3>1, GroupsKept
    <3>3. Undecided' = Undecided /\ \A g : Verdict(g)' = Verdict(g)
      BY <3>1, <3>2 DEF Undecided, Verdict
    <3> QED BY <1>2, <3>1, <3>2, <3>3 DEF GroupsAreDecided
  <2> QED BY <1>2, <2>1, <2>2, <2>3, <2>4, <2>5, <2>6, <2>7, <2>8, <2>9, <2>10 DEF Next
<1> QED BY <1>1, <1>2

LEMMA DecidedIsComplete ==
  ASSUME TypeOK, GroupsAreStars, GroupsAreDecided PROVE VerdictsAreComplete
<1> SUFFICES ASSUME pc = "done", NEW f \in kept
             PROVE  /\ status[f] \in {"SCHEDULED", "SUPPRESSED"}
                    /\ status[f] = "SCHEDULED" =>
                         \A g \in Members(f) \ {f} : status[g] = "SUPPRESSED"
                    /\ Mandatory(f) /\ status[f] = "SUPPRESSED" =>
                         group[f] \notin {None, f} /\ Confidence(group[f]) >= Confidence(f)
  BY DEF VerdictsAreComplete
<1>1. \A d \in Decisions :
        /\ status[d] = Verdict(d) /\ \A g \in Members(d) \ {d} : status[g] = "SUPPRESSED"
        /\ Mandatory(d) => d \in selected
  BY DEF GroupsAreDecided, Undecided
<1>2. CASE f \in Decisions
  BY <1>1, <1>2 DEF Verdict
<1>3. CASE f \notin Decisions
  <2>1. f \in Findings /\ group[f] \notin {None, f}
    BY <1>3 DEF TypeOK, Decisions, Representative
  <2>2. /\ group[f] \in Decisions /\ group[group[f]] = group[f]
        /\ Confidence(group[f]) >= Confidence(f)
    BY <2>1 DEF GroupsAreStars, Decisions, Representative
  <2>3. f \in Members(group[f])
    BY <2>1, <2>2 DEF Members
  <2>4. status[f] = "SUPPRESSED"
    BY <1>1, <2>1, <2>2, <2>3
  <2> QED BY <2>1, <2>2, <2>4
<1> QED BY <1>2, <1>3

(* The verdicts, although each group gets them in a transaction of its own. *)
THEOREM VerdictsAlwaysComplete == Spec => []VerdictsAreComplete
<1>1. Spec => [](TypeOK /\ GroupsAreStars /\ GroupsAreDecided)
  BY InitTypes, NextTypes, StarsInductive, DecidedInductive, PTL DEF Spec
<1> QED BY <1>1, DecidedIsComplete, PTL

-----------------------------------------------------------------------------
(* The selection.  The arithmetic needs little of the assumption at a time. *)
HIDE DecisionAssumption

(* A utility is a number, so that the ranking is total. *)
LEMMA UtilityIsInt ==
  ASSUME TypeOK, NEW f \in Decisions PROVE Utility(f) \in Int
<1>1. Members(f) \subseteq Findings /\ f \in Members(f) /\ f \in Findings
  BY DEF TypeOK, Decisions, Representative, Members
<1>2. \A g \in Members(f) : item[g] \in Items
  BY <1>1 DEF TypeOK
<1>3. \A g \in Members(f) : Severity(g) \in Int /\ Confidence(g) \in Int
  BY <1>2, DecisionAssumption DEF Severity, Confidence, One
<1>4. IsFiniteSet(Members(f)) /\ Cardinality(Members(f)) \in Nat /\ Cardinality(Members(f)) # 0
  BY <1>1, DecisionAssumption, FS_Subset, FS_CardinalityType, FS_EmptySet
<1>5. Redundancy(f) \in Int
  <2>1. \A n \in Nat \ {0} : One - One \div n \in Int
    BY DEF One
  <2> QED BY <1>4, <2>1 DEF Redundancy
<1>6. Variance2(f) \in Int
  <2> DEFINE S == {Severity(g) : g \in Members(f)}
             C == {Confidence(g) : g \in Members(f)}
  <2>1. IsFiniteSet(S) /\ IsFiniteSet(C)
    <3> DEFINE s == [g \in Members(f) |-> Severity(g)]
               c == [g \in Members(f) |-> Confidence(g)]
    <3>1. IsFiniteSet({s[g] : g \in Members(f)}) /\ IsFiniteSet({c[g] : g \in Members(f)})
      BY <1>4, ImageIsFinite
    <3>2. \A g \in Members(f) : s[g] = Severity(g) /\ c[g] = Confidence(g)
      OBVIOUS
    <3> HIDE DEF s, c
    <3>3. {s[g] : g \in Members(f)} = S
      BY <3>2, Zenon
    <3>4. {c[g] : g \in Members(f)} = C
      BY <3>2, Zenon
    <3> QED BY <3>1, <3>3, <3>4
  <2>2. S \subseteq Int /\ C \subseteq Int /\ S # {} /\ C # {}
    BY <1>1, <1>3
  <2>3. Spread(S) \in Int /\ Spread(C) \in Int
    BY <2>1, <2>2, SpreadIsInt
  <2> QED BY <2>3 DEF Variance2
<1>7. Agreement(f) \in Int
  <2>1. Excess(f) \in Int
    BY <1>6 DEF Excess, Threshold2
  <2>2. \A b, e \in Int : b - (b * e) \div (2 * Threshold2) \in Int
    BY DEF Threshold2
  <2>3. One \in Int /\ One \div 2 \in Int
    BY DEF One
  <2> QED BY <2>1, <2>2, <2>3 DEF Agreement
<1>8. Shares(item[f].category).accepted \in Int /\ Shares(item[f].category).rejected \in Int
  BY DecisionAssumption DEF Shares
<1>9. item[f].relevance \in Int /\ item[f].context \in Int
  BY <1>1, <1>2, DecisionAssumption
<1>10. Severity(f) \in Int /\ Confidence(f) \in Int
  BY <1>1, <1>3
<1> QED BY <1>5, <1>7, <1>8, <1>9, <1>10, WeightedIsInt DEF Utility

(* Of two findings at most one outranks the other. *)
LEMMA RankIsStrict ==
  ASSUME TypeOK, NEW f \in Decisions, NEW g \in Decisions
  PROVE  ~ (Outranks(f, g) /\ Outranks(g, f))
<1>1. Utility(f) \in Int /\ Utility(g) \in Int
  BY UtilityIsInt
<1>2. Id[f] \in Int /\ Id[g] \in Int
  BY DecisionAssumption DEF TypeOK, Decisions
<1>3. \A a, b, c, d \in Int : ~ ((a > b \/ (a = b /\ c < d)) /\ (b > a \/ (b = a /\ d < c)))
  OBVIOUS
<1> QED BY <1>1, <1>2, <1>3 DEF Outranks

(* A step that leaves the inputs and the groups alone leaves the ranking, the
   gates and the cap. *)
LEMMA SelectionKept ==
  ASSUME UNCHANGED <<inputVars, kept, group>>
  PROVE  /\ Decisions' = Decisions
         /\ Open' = Open
         /\ Cap' = Cap
         /\ \A f : Gated(f)' <=> Gated(f)
         /\ \A f : Better(f)' = Better(f)
         /\ \A f, g : Outranks(f, g)' <=> Outranks(f, g)
<1>1. item' = item /\ risk' = risk /\ override' = override /\ kept' = kept /\ group' = group
  BY DEF inputVars
<1>2. Decisions' = Decisions /\ \A f : Members(f)' = Members(f)
  BY <1>1, GroupsKept
<1>3. Cap' = Cap
  BY <1>1 DEF Cap, Standard
<1>4. \A f : Severity(f)' = Severity(f)
  BY <1>1 DEF Severity
<1>5. \A f : Confidence(f)' = Confidence(f)
  BY <1>1 DEF Confidence
<1>6. \A f : Redundancy(f)' = Redundancy(f)
  BY <1>2 DEF Redundancy
<1>7. \A f : Variance2(f)' = Variance2(f)
  <2> TAKE f
  <2>1. {Severity(g) : g \in Members(f)}' = {Severity(g) : g \in Members(f)}
    BY <1>2, <1>4
  <2>2. {Confidence(g) : g \in Members(f)}' = {Confidence(g) : g \in Members(f)}
    BY <1>2, <1>5
  <2> QED BY <2>1, <2>2 DEF Variance2
<1>8. \A f : Agreement(f)' = Agreement(f)
  <2>1. \A f : Excess(f)' = Excess(f)
    BY <1>7 DEF Excess
  <2> TAKE f
  <2>2. {item[g].agent : g \in Members(f)}' = {item[g].agent : g \in Members(f)}
    BY <1>1, <1>2
  <2> QED BY <1>7, <2>1, <2>2 DEF Agreement
<1>9. \A f : Utility(f)' = Utility(f)
  BY <1>1, <1>4, <1>5, <1>6, <1>8 DEF Utility
<1>10. \A f, g : Outranks(f, g)' <=> Outranks(f, g)
  BY <1>9 DEF Outranks
<1>11. \A f : (Gated(f)' <=> Gated(f)) /\ (Settled(f)' <=> Settled(f))
  BY <1>4, <1>5, <1>6 DEF Gated, Settled, Mandatory, Protected, Suppressed
<1>12. Open' = Open
  BY <1>2, <1>11 DEF Open
<1>13. \A f : Better(f)' = Better(f)
  BY <1>10, <1>12 DEF Better
<1> QED BY <1>2, <1>3, <1>10, <1>11, <1>12, <1>13

(* One round of the budget loop: what it has reached is all that outranks the
   next, so that a slot is left exactly when the cap exceeds what the gates took
   and what outranks it. *)
LEMMA FillKeepsSelection ==
  ASSUME TypeOK, SelectionIsUnderWay, NEW f \in Findings, Fill(f)
  PROVE  SelectionIsUnderWay'
<1> DEFINE gated == {g \in Decisions : Gated(g)}
           reached == Open \ pending
           k == Cardinality(gated)
           n == Cardinality(reached)
<1>1. /\ pc = "fill" /\ pc' = "fill" /\ UNCHANGED <<inputVars, kept, group>>
      /\ f \in pending /\ pending' = pending \ {f}
      /\ \A g \in pending \ {f} : Outranks(f, g)
  BY DEF Fill
<1>2. /\ pending \subseteq Open
      /\ \A g \in reached, h \in pending : Outranks(g, h)
      /\ selected = gated \cup {g \in reached : k + Cardinality(Better(g)) < Cap}
      /\ remaining = IF k + n < Cap THEN Cap - (k + n) ELSE 0
  BY <1>1 DEF SelectionIsUnderWay
<1>3. /\ Decisions' = Decisions
      /\ Open' = Open
      /\ Cap' = Cap
      /\ \A g : Gated(g)' <=> Gated(g)
      /\ \A g : Better(g)' = Better(g)
      /\ \A g, h : Outranks(g, h)' <=> Outranks(g, h)
  BY <1>1, SelectionKept
<1>4. gated' = gated
  BY <1>3
<1>5. Better(f) = reached
  <2>1. f \in Open /\ Open \subseteq Decisions
    BY <1>1, <1>2 DEF Open
  <2>2. ASSUME NEW g \in Open, Outranks(g, f) PROVE g \notin pending
    <3>1. CASE g = f
      BY <2>1, <2>2, <3>1, RankIsStrict
    <3>2. CASE g # f
      BY <1>1, <2>1, <2>2, <3>2, RankIsStrict
    <3> QED BY <3>1, <3>2
  <2>3. \A g \in reached : Outranks(g, f)
    BY <1>1, <1>2
  <2> QED BY <2>2, <2>3 DEF Better
<1>6. k \in Nat /\ n \in Nat /\ Cap \in Nat /\ IsFiniteSet(reached)
  <2>1. gated \in SUBSET Findings /\ reached \in SUBSET Findings
    BY DEF TypeOK, Decisions, Open
  <2>2. IsFiniteSet(gated) /\ IsFiniteSet(reached)
    BY <2>1, FS_Subset, DecisionAssumption
  <2>3. Cap \in Nat
    BY CapIsNat
  <2> QED BY <2>2, <2>3, FS_CardinalityType
<1>7. f \notin reached /\ Open \ pending' = reached \cup {f}
  BY <1>1, <1>2
<1>8. Cardinality(reached \cup {f}) = n + 1
  BY <1>6, <1>7, FS_AddElement
<1> HIDE DEF gated, reached, k, n
<1>9. remaining > 0 <=> k + Cardinality(Better(f)) < Cap
  BY <1>2, <1>5, <1>6 DEF n
<1>10. remaining' = IF k + (n + 1) < Cap THEN Cap - (k + (n + 1)) ELSE 0
  <2>1. remaining' = IF remaining > 0 THEN remaining - 1 ELSE remaining
    BY DEF Fill
  <2>2. \A a, b, c \in Nat : LET r == IF a + b < c THEN c - (a + b) ELSE 0
                             IN  (IF r > 0 THEN r - 1 ELSE r)
                                   = IF a + (b + 1) < c THEN c - (a + (b + 1)) ELSE 0
    OBVIOUS
  <2> QED BY <1>2, <1>6, <2>1, <2>2
<1>11. selected' = gated \cup {g \in reached \cup {f} : k + Cardinality(Better(g)) < Cap}
  <2>1. CASE remaining > 0
    <3>1. selected' = selected \cup {f}
      BY <2>1 DEF Fill
    <3> QED BY <1>2, <1>9, <2>1, <3>1
  <2>2. CASE ~ (remaining > 0)
    <3>1. selected' = selected
      BY <2>2 DEF Fill
    <3> QED BY <1>2, <1>9, <2>2, <3>1
  <2> QED BY <2>1, <2>2
<1>12. /\ pending' \subseteq Open
       /\ \A g \in reached \cup {f}, h \in pending' : Outranks(g, h)
  BY <1>1, <1>2
<1>13. {g \in reached \cup {f} : k + Cardinality(Better(g)') < Cap}
         = {g \in reached \cup {f} : k + Cardinality(Better(g)) < Cap}
  BY <1>3
<1>14. /\ pending' \subseteq Open'
       /\ \A g \in Open' \ pending', h \in pending' : Outranks(g, h)'
       /\ selected' = gated' \cup {g \in Open' \ pending' : Cardinality(gated') + Cardinality(Better(g)') < Cap'}
       /\ remaining' = IF Cardinality(gated') + Cardinality(Open' \ pending') < Cap'
                       THEN Cap' - (Cardinality(gated') + Cardinality(Open' \ pending')) ELSE 0
  <2>1. Cardinality(gated') = k /\ Open' \ pending' = reached \cup {f} /\ Cap' = Cap
    BY <1>3, <1>4, <1>7 DEF k
  <2> QED BY <1>3, <1>4, <1>8, <1>10, <1>11, <1>12, <1>13, <2>1
<1> QED BY <1>14 DEF SelectionIsUnderWay, gated

(* Once all is reached, the loop has selected what select_decisions promises. *)
LEMMA SelectedIsExact ==
  ASSUME SelectionIsUnderWay, Selected PROVE SelectionInvariant'
<1>1. /\ pc = "fill" /\ pc' = "apply" /\ pending = {} /\ selected' = selected
      /\ UNCHANGED <<inputVars, kept, group>>
  BY DEF Selected
<1>2. /\ Decisions' = Decisions
      /\ Open' = Open
      /\ Cap' = Cap
      /\ \A g : Gated(g)' <=> Gated(g)
      /\ \A g : Better(g)' = Better(g)
  BY <1>1, SelectionKept
<1>3. Open \ pending = Open
  BY <1>1
<1>4. selected = Promised
  BY <1>1, <1>3 DEF SelectionIsUnderWay, Promised
<1>5. Promised' = Promised
  BY <1>2 DEF Promised
<1> QED BY <1>1, <1>4, <1>5 DEF SelectionInvariant, SelectionIsUnderWay, SelectionIsExact

(* The steps that follow leave the selection and what it is compared with. *)
LEMMA ExactKept ==
  ASSUME SelectionIsExact, UNCHANGED <<inputVars, kept, group, selected>>,
         pc \in {"apply", "done"}, pc' # "fill"
  PROVE  SelectionInvariant'
<1>1. /\ Decisions' = Decisions
      /\ Open' = Open
      /\ Cap' = Cap
      /\ \A g : Gated(g)' <=> Gated(g)
      /\ \A g : Better(g)' = Better(g)
  BY SelectionKept
<1>2. Promised' = Promised
  BY <1>1 DEF Promised
<1> QED BY <1>2 DEF SelectionInvariant, SelectionIsUnderWay, SelectionIsExact

LEMMA GatesStartSelection ==
  ASSUME TypeOK, ApplyGates PROVE SelectionInvariant'
<1> DEFINE gated == {g \in Decisions : Gated(g)}
           k == Cardinality(gated)
<1>1. /\ pc' = "fill" /\ UNCHANGED <<inputVars, kept, group>>
      /\ selected' = gated /\ pending' = Open /\ remaining' = Remaining
  BY DEF ApplyGates, Open
<1>2. /\ Decisions' = Decisions
      /\ Open' = Open
      /\ Cap' = Cap
      /\ \A g : Gated(g)' <=> Gated(g)
  BY <1>1, SelectionKept
<1>3. gated' = gated
  BY <1>2
<1>4. Open' \ pending' = {}
  BY <1>1, <1>2
<1>5. remaining' = IF k + 0 < Cap THEN Cap - (k + 0) ELSE 0
  <2>1. gated \in SUBSET Findings
    BY DEF TypeOK, Decisions
  <2>2. IsFiniteSet(gated)
    BY <2>1, FS_Subset, DecisionAssumption
  <2>3. k \in Nat /\ Cap \in Nat
    BY <2>2, FS_CardinalityType, CapIsNat
  <2>4. remaining' = IF k < Cap THEN Cap - k ELSE 0
    BY <1>1 DEF Remaining
  <2> HIDE DEF k
  <2> QED BY <2>3, <2>4
<1> HIDE DEF gated
<1>6. Cardinality(Open' \ pending') = 0
  BY <1>4, FS_EmptySet
<1>7. remaining' = IF Cardinality(gated') + Cardinality(Open' \ pending') < Cap'
                   THEN Cap' - (Cardinality(gated') + Cardinality(Open' \ pending')) ELSE 0
  BY <1>2, <1>3, <1>5, <1>6
<1>8. selected' = gated' \cup {g \in Open' \ pending' : Cardinality(gated') + Cardinality(Better(g)') < Cap'}
  BY <1>1, <1>3, <1>4
<1>9. SelectionIsUnderWay'
  BY <1>1, <1>2, <1>4, <1>7, <1>8 DEF SelectionIsUnderWay, gated
<1> QED BY <1>1, <1>9 DEF SelectionInvariant, SelectionIsExact

LEMMA SelectionInductive ==
  /\ Init => SelectionInvariant
  /\ TypeOK /\ SelectionInvariant /\ [Next]_vars => SelectionInvariant'
<1> USE DEF SelectionInvariant
<1>1. Init => SelectionInvariant
  BY DEF Init, SelectionIsUnderWay, SelectionIsExact
<1>2. ASSUME TypeOK, SelectionInvariant, [Next]_vars PROVE SelectionInvariant'
  <2>1. CASE Normalise
    BY <2>1 DEF Normalise, SelectionIsUnderWay, SelectionIsExact
  <2>2. ASSUME NEW f \in Findings, Seed(f) PROVE SelectionInvariant'
    BY <2>2 DEF Seed, SelectionIsUnderWay, SelectionIsExact
  <2>3. CASE StoreCandidates
    BY <2>3 DEF StoreCandidates, SelectionIsUnderWay, SelectionIsExact
  <2>4. CASE ApplyGates
    BY <1>2, <2>4, GatesStartSelection
  <2>5. ASSUME NEW f \in Findings, Fill(f) PROVE SelectionInvariant'
    <3>1. SelectionIsUnderWay'
      BY <1>2, <2>5, FillKeepsSelection
    <3>2. SelectionIsExact'
      BY <2>5 DEF Fill, SelectionIsExact
    <3> QED BY <3>1, <3>2
  <2>6. CASE Selected
    BY <1>2, <2>6, SelectedIsExact
  <2>7. ASSUME NEW f \in Findings, Apply(f) PROVE SelectionInvariant'
    BY <1>2, <2>7, ExactKept DEF Apply
  <2>8. CASE Decided
    BY <1>2, <2>8, ExactKept DEF Decided
  <2>9. CASE DecisionFails
    BY <2>9 DEF DecisionFails, SelectionIsUnderWay, SelectionIsExact
  <2>10. CASE UNCHANGED vars
    <3>1. UNCHANGED <<inputVars, kept, group, pending, remaining, selected, pc>>
      BY <2>10 DEF vars
    <3>2. /\ Decisions' = Decisions
          /\ Open' = Open
          /\ Cap' = Cap
          /\ \A g : Gated(g)' <=> Gated(g)
          /\ \A g : Better(g)' = Better(g)
          /\ \A g, h : Outranks(g, h)' <=> Outranks(g, h)
      BY <3>1, SelectionKept
    <3>3. Promised' = Promised
      BY <3>2 DEF Promised
    <3>4. SelectionIsExact'
      BY <1>2, <3>1, <3>3 DEF SelectionIsExact
    <3>5. SelectionIsUnderWay'
      <4> DEFINE gated == {g \in Decisions : Gated(g)}
      <4>1. gated' = gated
        BY <3>2
      <4>2. {g \in Open \ pending : Cardinality(gated) + Cardinality(Better(g)') < Cap}
              = {g \in Open \ pending : Cardinality(gated) + Cardinality(Better(g)) < Cap}
        BY <3>2
      <4> QED BY <1>2, <3>1, <3>2, <4>1, <4>2 DEF SelectionIsUnderWay
    <3> QED BY <3>4, <3>5
  <2> QED BY <1>2, <2>1, <2>2, <2>3, <2>4, <2>5, <2>6, <2>7, <2>8, <2>9, <2>10 DEF Next
<1> QED BY <1>1, <1>2

(* The gates and the budget loop of select_decisions take exactly what they
   promise, for any features, memory, gates, caps and order of the ids. *)
THEOREM SelectionIsAlwaysExact == Spec => []SelectionIsExact
<1>1. Spec => [](TypeOK /\ SelectionInvariant)
  BY InitTypes, NextTypes, SelectionInductive, PTL DEF Spec
<1>2. SelectionInvariant => SelectionIsExact
  BY DEF SelectionInvariant
<1> QED BY <1>1, <1>2, PTL
=============================================================================
