------------------------------- MODULE Decision -------------------------------
(***************************************************************************)
(* What is made of the findings of one run: normalise_findings keeps the   *)
(* valid ones, apply_groups puts redundant ones together, ARUM scores the  *)
(* representatives and the single findings, select_decisions applies the   *)
(* safety gates and fills the budget, apply_decision stores the verdicts.  *)
(*                                                                         *)
(* The loops are steps, so that what they compute can be compared with     *)
(* what the result is supposed to be.  Features are integers in units of   *)
(* 1/One, so that 1 - 1/n and the sums of a utility are exact; an          *)
(* embedding is a topic, and the cosine threshold a relation on topics.    *)
(***************************************************************************)
EXTENDS Integers, FiniteSets, Sequences

CONSTANTS
  Findings,    \* positions in agent_inputs
  Id,          \* findings.id: a hash of the content, an order of its own
  Items,       \* what an agent may return for a finding
  Alike,       \* pairs of topics whose embeddings reach the threshold
  MaxLineGap,  \* consolidation_max_line_gap
  Memory,      \* repository memory: shares of the categories it knows
  Budget,      \* review_budget_low, _medium and _high
  Overrides,   \* what a repository may set as its review_budget, whole or in part
  Gates        \* thresholds of the safety gates

None == -1
One == 1200

ASSUME DecisionAssumption ==
  /\ Findings \subseteq Nat /\ IsFiniteSet(Findings)
  /\ Id \in [Findings -> Nat]
  /\ \A f, g \in Findings : Id[f] = Id[g] => f = g
  /\ \A p \in Alike : <<p[2], p[1]>> \in Alike
  /\ MaxLineGap \in Nat
  /\ \A i \in Items :
       /\ {i.confidence, i.start, i.end, i.file, i.relevance, i.context} \subseteq Int
       /\ i.severity \in {"critical", "high", "medium", "low", "info"}
  /\ \A c \in DOMAIN Memory : {Memory[c].accepted, Memory[c].rejected} \subseteq Int
  /\ Budget \in [{"low", "medium", "high"} -> Nat]
  /\ \A b \in Overrides : DOMAIN b \subseteq DOMAIN Budget /\ \A c \in DOMAIN b : b[c] \in Nat

VARIABLES
  item,       \* what the agents returned
  risk,       \* reviews.risk_class
  override,   \* the repository's review_budget
  pc,         \* the phase
  kept,       \* the findings that survive normalise_findings
  ahead,      \* seeds the grouping loop has not tried
  group,      \* duplicate_group: the representative, None when single
  pending,    \* decisions no gate settled and the budget loop has not reached
  remaining,  \* slots left
  selected,   \* decisions selected
  status      \* findings.publication_status

inputVars == <<item, risk, override>>
vars == <<inputVars, pc, kept, ahead, group, pending, remaining, selected, status>>

-----------------------------------------------------------------------------
(* normalise_findings: invalid items are dropped, and what the same agent
   says again of the same place. *)

Key(f) == LET i == item[f] IN <<i.agent, i.file, i.start, i.end, i.category, i.topic>>

Survivors ==
  {f \in Findings : item[f].valid /\ \A g \in Findings : g < f /\ item[g].valid => Key(g) # Key(f)}

-----------------------------------------------------------------------------
(* Redundancy. *)

Low(i) == IF i.start = None THEN i.end ELSE i.start
High(i) == IF i.end = None THEN i.start ELSE i.end
Distance(a, b) == IF a < b THEN b - a ELSE a - b

(* line_ranges_close *)
LinesClose(i, j) ==
  \/ Low(i) = None \/ Low(j) = None
  \/ Distance(Low(j), High(i)) <= MaxLineGap + 1
  \/ Distance(Low(i), High(j)) <= MaxLineGap + 1

(* A category is a path: security/xss is <<"security", "xss">>. *)
Within(c, d) == Len(c) <= Len(d) /\ SubSeq(d, 1, Len(c)) = c
Aligned(c, d) == Within(c, d) \/ Within(d, c)

Groupable(f, g) ==
  LET i == item[f] j == item[g]
  IN  /\ <<i.topic, j.topic>> \in Alike
      /\ Aligned(i.category, j.category)
      /\ i.file = j.file
      /\ LinesClose(i, j)

(* The order in which seeds are tried: the most confident first. *)
Precedes(f, g) ==
  LET i == item[f] j == item[g]
  IN  \/ i.confidence > j.confidence
      \/ /\ i.confidence = j.confidence
         /\ \/ i.file < j.file
            \/ i.file = j.file /\ i.start < j.start
            \/ i.file = j.file /\ i.start = j.start /\ Id[f] < Id[g]

Representative(f) == group[f] \in {None, f}
Decisions == {f \in kept : Representative(f)}
Members(f) == IF group[f] = None THEN {f} ELSE {g \in kept : group[g] = group[f]}

-----------------------------------------------------------------------------
(* Features and utility. *)

Severity(f) ==
  CASE item[f].severity = "critical" -> One
    [] item[f].severity = "high" -> 960
    [] item[f].severity = "medium" -> 600
    [] item[f].severity = "low" -> 240
    [] item[f].severity = "info" -> 60

Confidence(f) == item[f].confidence
Redundancy(f) == One - One \div Cardinality(Members(f))

Spread(V) == (CHOOSE m \in V : \A v \in V : v <= m) - (CHOOSE m \in V : \A v \in V : m <= v)

(* Twice the disagreement_variance, and twice VARIANCE_THRESHOLD. *)
Variance2(f) ==
  Spread({Severity(g) : g \in Members(f)}) + Spread({Confidence(g) : g \in Members(f)})
Threshold2 == 720
Excess(f) == IF Variance2(f) > 2 * Threshold2 THEN Threshold2 ELSE Variance2(f) - Threshold2

(* Two agents agree; beyond the threshold up to half of it is taken back. *)
Agreement(f) ==
  LET base == IF Cardinality({item[g].agent : g \in Members(f)}) >= 2 THEN One ELSE One \div 2
  IN  IF Variance2(f) <= Threshold2 THEN base
      ELSE base - (base * Excess(f)) \div (2 * Threshold2)

(* historical_shares: the category, else its parent, else nothing. *)
Parent(c) == IF Len(c) > 1 THEN SubSeq(c, 1, Len(c) - 1) ELSE c
Shares(c) ==
  IF c \in DOMAIN Memory THEN Memory[c]
  ELSE IF Parent(c) \in DOMAIN Memory THEN Memory[Parent(c)]
  ELSE [accepted |-> 0, rejected |-> 0]

(* The weights of v1, in hundredths; redundancy and rejection count against. *)
Utility(f) ==
  LET past == Shares(item[f].category)
  IN    30 * Severity(f) + 20 * Confidence(f) + 15 * Agreement(f) + 15 * past.accepted
      + 10 * item[f].relevance + 10 * item[f].context
      - 8 * Redundancy(f) - 10 * past.rejected

(* rank_decisions *)
Outranks(f, g) == Utility(f) > Utility(g) \/ (Utility(f) = Utility(g) /\ Id[f] < Id[g])

-----------------------------------------------------------------------------
(* Gates and budget. *)

Mandatory(f) == Severity(f) >= One
Protected(f) ==
  ~ Mandatory(f) /\ Severity(f) >= 960 /\ Confidence(f) >= Gates.high_confidence
Suppressed(f) ==
  /\ ~ Mandatory(f) /\ ~ Protected(f)
  /\ Severity(f) <= 240
  /\ Confidence(f) <= Gates.low_confidence
  /\ Redundancy(f) >= Gates.high_redundancy
Gated(f) == Mandatory(f) \/ Protected(f)
Settled(f) == Gated(f) \/ Suppressed(f)

(* _budget_cap: the cap a repository sets for high risks is that of every class
   it sets no other for; an unknown class gets the most permissive cap. *)
Standard == IF risk \in DOMAIN Budget THEN Budget[risk] ELSE Budget["high"]
Cap ==
  IF risk \in DOMAIN override THEN override[risk]
  ELSE IF "high" \in DOMAIN override THEN override["high"]
  ELSE Standard

Init ==
  /\ item \in [Findings -> Items]
  /\ risk \in {"low", "medium", "high", "unknown"}
  /\ override \in Overrides
  /\ pc = "normalise"
  /\ kept = {}
  /\ ahead = {}
  /\ group = [f \in Findings |-> None]
  /\ pending = {}
  /\ remaining = 0
  /\ selected = {}
  /\ status = [f \in Findings |-> "none"]

Normalise ==
  /\ pc = "normalise" /\ pc' = "group"
  /\ kept' = Survivors
  /\ ahead' = Survivors
  /\ UNCHANGED <<inputVars, group, pending, remaining, selected, status>>

(* Mutants, here and below: forms of the definition that follows with a
   plausible bug, which a property must notice. *)
EveryNeighbour(f) == {g \in kept \ {f} : Groupable(f, g)}

(* The findings the loop puts into the group of f. *)
Neighbours(f) == {g \in kept \ {f} : group[g] = None /\ Groupable(f, g)}

(* One round of apply_groups: f is the next seed in the order.  A finding that
   has a group is passed over, one that finds no neighbour stays single. *)
Seed(f) ==
  /\ pc = "group" /\ f \in ahead
  /\ \A g \in ahead \ {f} : Precedes(f, g)
  /\ ahead' = ahead \ {f}
  /\ group' = IF group[f] # None \/ Neighbours(f) = {} THEN group
              ELSE [g \in Findings |-> IF g \in {f} \cup Neighbours(f) THEN f ELSE group[g]]
  /\ UNCHANGED <<inputVars, pc, kept, pending, remaining, selected, status>>

(* create_findings *)
StoreCandidates ==
  /\ pc = "group" /\ ahead = {} /\ pc' = "gate"
  /\ status' = [f \in Findings |-> IF f \in kept THEN "CANDIDATE" ELSE "none"]
  /\ UNCHANGED <<inputVars, kept, ahead, group, pending, remaining, selected>>

FullCap == Cap

(* What the gates leave of the budget: they may exceed it. *)
Remaining ==
  LET taken == Cardinality({f \in Decisions : Gated(f)})
  IN  IF taken < Cap THEN Cap - taken ELSE 0

ApplyGates ==
  /\ pc = "gate" /\ pc' = "fill"
  /\ selected' = {f \in Decisions : Gated(f)}
  /\ pending' = {f \in Decisions : ~ Settled(f)}
  /\ remaining' = Remaining
  /\ UNCHANGED <<inputVars, kept, ahead, group, status>>

(* One round of the budget loop: f is the next pending decision by rank. *)
Fill(f) ==
  /\ pc = "fill" /\ f \in pending
  /\ \A g \in pending \ {f} : Outranks(f, g)
  /\ pending' = pending \ {f}
  /\ IF remaining > 0
     THEN selected' = selected \cup {f} /\ remaining' = remaining - 1
     ELSE UNCHANGED <<selected, remaining>>
  /\ UNCHANGED <<inputVars, pc, kept, ahead, group, status>>

Selected ==
  /\ pc = "fill" /\ pending = {} /\ pc' = "apply"
  /\ UNCHANGED <<inputVars, kept, ahead, group, pending, remaining, selected, status>>

Verdict(f) == IF f \in selected THEN "SCHEDULED" ELSE "SUPPRESSED"
Undecided == {f \in Decisions : status[f] = "CANDIDATE"}

(* Decisions a gate settled come first, each kind by rank. *)
Sooner(f, g) == IF Settled(f) <=> Settled(g) THEN Outranks(f, g) ELSE Settled(f)

ApplyAlone(f) ==
  /\ pc = "apply" /\ f \in Undecided
  /\ \A g \in Undecided \ {f} : Sooner(f, g)
  /\ status' = [status EXCEPT ![f] = Verdict(f)]
  /\ UNCHANGED <<inputVars, pc, kept, ahead, group, pending, remaining, selected>>

(* apply_decision: the other members of the group are suppressed with it. *)
Apply(f) ==
  /\ pc = "apply" /\ f \in Undecided
  /\ \A g \in Undecided \ {f} : Sooner(f, g)
  /\ status' = [g \in Findings |-> IF g = f THEN Verdict(f)
                                   ELSE IF g \in Members(f) THEN "SUPPRESSED" ELSE status[g]]
  /\ UNCHANGED <<inputVars, pc, kept, ahead, group, pending, remaining, selected>>

Decided ==
  /\ pc = "apply" /\ Undecided = {} /\ pc' = "done"
  /\ UNCHANGED <<inputVars, kept, ahead, group, pending, remaining, selected, status>>

(* A provider or a transaction fails: the review is diagnosed FAILED, and the
   verdicts that were stored stay stored. *)
DecisionFails ==
  /\ pc \in {"gate", "apply"} /\ pc' = "failed"
  /\ UNCHANGED <<inputVars, kept, ahead, group, pending, remaining, selected, status>>

Next ==
  \/ Normalise \/ StoreCandidates \/ ApplyGates \/ Selected \/ Decided \/ DecisionFails
  \/ \E f \in Findings : Seed(f) \/ Fill(f) \/ Apply(f)

Spec == Init /\ [][Next]_vars

-----------------------------------------------------------------------------
Phases == {"normalise", "group", "gate", "fill", "apply", "done", "failed"}

TypeOK ==
  /\ item \in [Findings -> Items]
  /\ risk \in {"low", "medium", "high", "unknown"}
  /\ override \in Overrides
  /\ pc \in Phases
  /\ kept \subseteq Findings
  /\ ahead \subseteq kept
  /\ group \in [Findings -> Findings \cup {None}]
  /\ pending \subseteq Findings
  /\ remaining \in Nat
  /\ selected \subseteq Findings
  /\ status \in [Findings -> {"none", "CANDIDATE", "SCHEDULED", "SUPPRESSED"}]

(* What the greedy loop is for: no two findings that reach the decision are
   redundant to one another, and each one that does not reach it is redundant
   to its representative, which is at least as confident.  A group is a star
   around its representative: two of its members may well not be alike. *)
GroupsCoverRedundancy ==
  pc \notin {"normalise", "group"} =>
    /\ \A f, g \in Decisions : f # g => ~ Groupable(f, g)
    /\ \A f \in kept \ Decisions :
         /\ group[f] \in Decisions
         /\ Groupable(group[f], f)
         /\ Confidence(group[f]) >= Confidence(f)

(* What select_decisions promises, by definition instead of by a loop: all
   that is mandatory or protected, nothing the gate suppresses, and of the rest
   those that fewer than the remaining slots outrank. *)
Open == {f \in Decisions : ~ Settled(f)}
Better(f) == {g \in Open : Outranks(g, f)}
Promised ==
  LET gated == {f \in Decisions : Gated(f)}
  IN  gated \cup {f \in Open : Cardinality(gated) + Cardinality(Better(f)) < Cap}

SelectionIsExact == pc \in {"apply", "done"} => selected = Promised

(* The verdicts in the store: every kept finding has one, one per group is
   scheduled at most, and a critical finding is cut only as the duplicate of
   a finding at least as confident. *)
VerdictsAreComplete ==
  pc = "done" => \A f \in kept :
    /\ status[f] \in {"SCHEDULED", "SUPPRESSED"}
    /\ status[f] = "SCHEDULED" => \A g \in Members(f) \ {f} : status[g] = "SUPPRESSED"
    /\ Mandatory(f) /\ status[f] = "SUPPRESSED" =>
         group[f] \notin {None, f} /\ Confidence(group[f]) >= Confidence(f)

-----------------------------------------------------------------------------
(* Why grouping, selection and verdicts hold: the inductive invariant of the
   proofs. *)

(* A finding in a group belongs to a representative the loop has passed, and
   one the loop has passed is redundant to no other representative: it would
   have taken it, or been taken by it. *)
GroupsAreStars ==
  /\ pc = "normalise" => \A f \in Findings : group[f] = None
  /\ pc \notin {"normalise", "group"} => ahead = {}
  /\ \A f \in Findings : group[f] # None =>
       /\ f \in kept
       /\ group[f] \in kept \ ahead
       /\ group[group[f]] = group[f]
       /\ group[f] # f => Groupable(group[f], f) /\ Confidence(group[f]) >= Confidence(f)
  /\ \A f \in Decisions \ ahead : \A g \in Decisions \ {f} : ~ Groupable(f, g)

(* Selection under way: what the budget loop has reached outranks all it has
   not; of that it took what the cap allows, and it left what the cap leaves. *)
SelectionIsUnderWay ==
  pc = "fill" =>
    LET gated == {f \in Decisions : Gated(f)}
        reached == Open \ pending
    IN  /\ pending \subseteq Open
        /\ \A f \in reached, g \in pending : Outranks(f, g)
        /\ selected = gated \cup {f \in reached : Cardinality(gated) + Cardinality(Better(f)) < Cap}
        /\ remaining = IF Cardinality(gated) + Cardinality(reached) < Cap
                       THEN Cap - (Cardinality(gated) + Cardinality(reached)) ELSE 0

SelectionInvariant == SelectionIsUnderWay /\ SelectionIsExact

(* A group is decided as a whole, and what is critical has been selected. *)
GroupsAreDecided ==
  /\ pc \in {"fill", "apply", "done"} => \A f \in Decisions : Mandatory(f) => f \in selected
  /\ pc \in {"gate", "fill"} => \A f \in kept : status[f] = "CANDIDATE"
  /\ pc \in {"apply", "done"} => \A f \in Decisions :
       IF status[f] = "CANDIDATE" THEN \A g \in Members(f) : status[g] = "CANDIDATE"
       ELSE status[f] = Verdict(f) /\ \A g \in Members(f) \ {f} : status[g] = "SUPPRESSED"
  /\ pc = "done" => Undecided = {}

-----------------------------------------------------------------------------
(* Claims of the code that it does not keep. *)

(* "Critical findings always publish" (selection.py:7-9).  The gates only see
   representatives. *)
CriticalIsScheduled ==
  pc = "done" => \A f \in kept : Mandatory(f) => status[f] = "SCHEDULED"

(* "Missing/absent values fall back to the global caps so a partially
   configured override never lowers a review below its documented floor"
   (service.py:560-562).  The override for high risks comes first. *)
MissingCapIsGlobal ==
  pc \in {"apply", "done"} /\ risk \notin DOMAIN override =>
    Cardinality(selected) >= Standard \/ {f \in Decisions : ~ Suppressed(f)} \subseteq selected

=============================================================================
