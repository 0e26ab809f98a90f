------------------------------ MODULE MemoryStore ------------------------------
(* MemoryOrchestratorStore, the double that the tests and local runs use, as
   operators on its dictionaries and lists. *)
EXTENDS Integers, FiniteSets, Sequences

CONSTANTS Reviews, Findings, Owner, StaleAfter, Horizon

Candidate(f) == [id |-> f, review |-> Owner[f], state |-> "CANDIDATE", group |-> "none"]

Empty ==
  [reviews |-> << >>, findings |-> << >>, iterations |-> << >>, feedback |-> << >>,
   agents |-> {}, metrics |-> << >>, audit |-> << >>, vectors |-> << >>,
   version |-> 0, learned |-> FALSE]

(* setdefault(review, {}) *)
Known(m, r) == r \in DOMAIN m.reviews
Fetch(m, r) == IF Known(m, r) THEN m.reviews[r] ELSE [status |-> "none", claimed |-> << >>]
Put(m, r, record) ==
  [m EXCEPT !.reviews = [q \in DOMAIN @ \cup {r} |-> IF q = r THEN record ELSE @[q]]]

Positions(m, f) == {i \in 1..Len(m.findings) : m.findings[i].id = f}
First(m, f) == CHOOSE i \in Positions(m, f) : \A j \in Positions(m, f) : i <= j
Has(m, f) == Positions(m, f) # {}

-----------------------------------------------------------------------------
Transition(m, r, status) == Put(m, r, [Fetch(m, r) EXCEPT !.status = status])
AppendNote(m, r) == Put(m, r, Fetch(m, r))
RecordDecision(m, r) == m

(* setdefault(key, ...) *)
SyncAgent(m, a) == [m EXCEPT !.agents = @ \cup {a}]
CreateMetric(m, duration) == [m EXCEPT !.metrics = Append(@, duration)]

CreateFinding(m, f) == [m EXCEPT !.findings = Append(@, Candidate(f))]

UpdateDuplicate(m, r, f, g) ==
  IF Has(m, f) /\ m.findings[First(m, f)].review = r
  THEN [m EXCEPT !.findings[First(m, f)].group = g] ELSE m

(* Whatever the review is. *)
ApplyDecision(m, f, chosen, group) ==
  IF ~ Has(m, f) THEN m
  ELSE LET at == First(m, f)
       IN [m EXCEPT !.findings = [i \in DOMAIN @ |->
             CASE i = at -> [@[i] EXCEPT !.state = IF chosen THEN "SCHEDULED" ELSE "SUPPRESSED"]
               [] @[i].id # f /\ group # "none" /\ @[i].group = group ->
                    [@[i] EXCEPT !.state = "SUPPRESSED"]
               [] OTHER -> @[i]]]

(* by_id keeps the last row of an id, of any review. *)
Last(m, f) == CHOOSE i \in Positions(m, f) : \A j \in Positions(m, f) : j <= i
ApplyDelta(m, r, f, action) ==
  AppendNote(IF Has(m, f) THEN [m EXCEPT !.findings[Last(m, f)].state = action] ELSE m, r)

Rounds(m, r) == {p[2] : p \in {m.iterations[i] : i \in {j \in DOMAIN m.iterations :
                                                       m.iterations[j][1] = r}}}
NextRound(m, r) == 1 + (CHOOSE n \in Rounds(m, r) \cup {0} : \A k \in Rounds(m, r) : k <= n)
RecordIteration(m, r) == [m EXCEPT !.iterations = Append(@, <<r, NextRound(m, r)>>)]

-----------------------------------------------------------------------------
(* The stamp of a claim is a field of its own. *)
Claimable(m, r, now) ==
  /\ Known(m, r)
  /\ \/ m.reviews[r].status \in {"DECIDING", "ITERATING"}
     \/ /\ m.reviews[r].status = "PUBLISHING"
        /\ m.reviews[r].claimed # << >>
        /\ m.reviews[r].claimed[1] <= now - StaleAfter

Pending(m, now) == {r \in Reviews : Claimable(m, r, now)}
Claim(m, r, now) ==
  IF Claimable(m, r, now) THEN Put(m, r, [status |-> "PUBLISHING", claimed |-> <<now>>]) ELSE m

Release(m, r) ==
  IF Known(m, r) /\ m.reviews[r].status = "PUBLISHING"
  THEN Put(m, r, [status |-> "DECIDING", claimed |-> << >>]) ELSE m

Own(m, r) == {i \in DOMAIN m.findings : m.findings[i].review = r}
Payload(m, r) ==
  IF Known(m, r) THEN {m.findings[i].id : i \in {j \in Own(m, r) : m.findings[j].state = "SCHEDULED"}}
  ELSE {}
MarkFinding(m, r, f) ==
  IF \E i \in Own(m, r) : m.findings[i].id = f
  THEN [m EXCEPT !.findings[First(m, f)].state = "PUBLISHED"] ELSE m
MarkReviewPublished(m, r) == IF Known(m, r) THEN Transition(m, r, "PUBLISHED") ELSE m

-----------------------------------------------------------------------------
CreateFeedback(m, f, now) ==
  IF \E i \in DOMAIN m.feedback : m.feedback[i].id = f THEN m
  ELSE [m EXCEPT !.feedback = Append(@, [id |-> f, day |-> now])]

(* Mutants, here and below: forms of the definition that follows with a
   plausible bug, which a property must notice. *)
UpToTheHorizon(m, now) ==
  {m.feedback[i].id : i \in {j \in DOMAIN m.feedback : now - m.feedback[j].day <= Horizon}}

FeedbackEvents(m, now) ==
  {m.feedback[i].id : i \in {j \in DOMAIN m.feedback :
     0 <= now - m.feedback[j].day /\ now - m.feedback[j].day < Horizon}}

CreateEmbedding(m, row) == [m EXCEPT !.vectors = Append(@, row)]

UpsertMemory(m) == [m EXCEPT !.version = @ + 1]
SaveWeights(m) == [m EXCEPT !.learned = TRUE]

(* Sorted by time and number, newest first. *)
RecordAudit(m, row, now) == [m EXCEPT !.audit = Append(@, [row |-> row, at |-> now])]
Newest(m) == IF m.audit = << >> THEN {} ELSE {m.audit[Len(m.audit)].row}

-----------------------------------------------------------------------------
Status(m, r) == IF Known(m, r) THEN m.reviews[r].status ELSE "none"
FindingsOf(m, r) == {[id |-> m.findings[i].id, state |-> m.findings[i].state] : i \in Own(m, r)}
FindingsTotal(m) == Len(m.findings)
(* A duration of 0 is left out of the average. *)
Latencies(m) == [i \in {j \in DOMAIN m.metrics : m.metrics[j] # 0} |-> m.metrics[i]]
Redundant(m) == Cardinality({i \in DOMAIN m.findings : m.findings[i].group # "none"})
Memory(m) == <<m.version, m.learned>>

(* _embedding_row looks the finding up. *)
Vectors(m, kind) == {v \in {m.vectors[i] : i \in DOMAIN m.vectors} : v.kind = kind}
Standards(m, q) == {v.text : v \in {x \in Vectors(m, "standard") : x.of = q}}
Resolved(m) ==
  {v.of : v \in {x \in Vectors(m, "finding") :
                   Has(m, x.of) /\ m.findings[First(m, x.of)].state = "RESOLVED"}}
=============================================================================
