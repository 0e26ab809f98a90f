------------------------------- MODULE SqlStore -------------------------------
(* SqlOrchestratorStore as operators on its tables: each is one transaction.
   A call of it that raises leaves the tables as they are. *)
EXTENDS Integers, FiniteSets, Sequences

CONSTANTS Reviews, Findings, Owner, StaleAfter, Horizon

Candidate == [state |-> "CANDIDATE", group |-> "none"]

(* The reviews the webhook has stored, nothing else. *)
Empty ==
  [status |-> [r \in Reviews |-> "QUEUED"], updated |-> [r \in Reviews |-> 0],
   finding |-> << >>, rounds |-> [r \in Reviews |-> {}], feedback |-> << >>,
   agents |-> {}, metrics |-> << >>, audit |-> {}, vectors |-> {},
   version |-> 0, learned |-> FALSE]

Set(s, f, state) == [s EXCEPT !.finding[f].state = state]
Own(s, r) == {f \in DOMAIN s.finding : Owner[f] = r}

-----------------------------------------------------------------------------
(* Every UPDATE of a review row sets updated_at. *)
Transition(s, r, status, now) == [s EXCEPT !.status[r] = status, !.updated[r] = now]
AppendNote(s, r, now) == [s EXCEPT !.updated[r] = now]

(* A decision that repeats the version and the cap writes nothing. *)
RecordDecision(s, r, news, now) == IF news THEN AppendNote(s, r, now) ELSE s

SyncAgent(s, a) == IF a \in s.agents THEN s ELSE [s EXCEPT !.agents = @ \cup {a}]
CreateMetric(s, duration) == [s EXCEPT !.metrics = Append(@, duration)]

Conflicts(s, f) == f \in DOMAIN s.finding
CreateFinding(s, f) ==
  IF Conflicts(s, f) THEN s
  ELSE [s EXCEPT !.finding = [g \in DOMAIN @ \cup {f} |-> IF g = f THEN Candidate ELSE @[g]]]

UpdateDuplicate(s, r, f, g) ==
  IF f \in Own(s, r) THEN [s EXCEPT !.finding[f].group = g] ELSE s

DecideWholeGroup(s, r, f, chosen, group) ==
  IF f \notin Own(s, r) THEN s
  ELSE [s EXCEPT !.finding = [g \in DOMAIN @ |->
          CASE group # "none" /\ @[g].group = group -> [@[g] EXCEPT !.state = "SUPPRESSED"]
            [] g = f /\ ~ (group # "none" /\ @[f].group = group) ->
                 [@[g] EXCEPT !.state = IF chosen THEN "SCHEDULED" ELSE "SUPPRESSED"]
            [] OTHER -> @[g]]]

(* A verdict suppresses the other findings of the group it names. *)
ApplyDecision(s, r, f, chosen, group) ==
  IF f \notin Own(s, r) THEN s
  ELSE [s EXCEPT !.finding = [g \in DOMAIN @ |->
          CASE g = f -> [@[g] EXCEPT !.state = IF chosen THEN "SCHEDULED" ELSE "SUPPRESSED"]
            [] g # f /\ group # "none" /\ @[g].group = group ->
                 [@[g] EXCEPT !.state = "SUPPRESSED"]
            [] OTHER -> @[g]]]

(* Only findings of this review; the note touches the row in any case. *)
ApplyDelta(s, r, f, action, now) ==
  IF f \in Own(s, r) THEN Set(AppendNote(s, r, now), f, action) ELSE AppendNote(s, r, now)

Last(numbers) == CHOOSE n \in numbers \cup {0} : \A k \in numbers : k <= n
NextRound(s, r) == 1 + Last(s.rounds[r])
RecordIteration(s, r) == [s EXCEPT !.rounds[r] = @ \cup {NextRound(s, r)}]

-----------------------------------------------------------------------------
Stale(s, r, now) == s.updated[r] <= now - StaleAfter

Claimable(s, r, now) ==
  \/ s.status[r] \in {"DECIDING", "ITERATING"}
  \/ s.status[r] = "PUBLISHING" /\ Stale(s, r, now)

Pending(s, now) == {r \in Reviews : Claimable(s, r, now)}
Claim(s, r, now) == IF Claimable(s, r, now) THEN Transition(s, r, "PUBLISHING", now) ELSE s

(* Mutants, here and below: forms of the definition that follows with a
   plausible bug, which a property must notice. *)
ReleaseToIterating(s, r, now) ==
  IF s.status[r] = "PUBLISHING" THEN Transition(s, r, "ITERATING", now) ELSE s

Release(s, r, now) ==
  IF s.status[r] = "PUBLISHING" THEN Transition(s, r, "DECIDING", now) ELSE s

Payload(s, r) == {f \in Own(s, r) : s.finding[f].state = "SCHEDULED"}
MarkFinding(s, r, f) == IF f \in Own(s, r) THEN Set(s, f, "PUBLISHED") ELSE s
MarkReviewPublished(s, r, now) == Transition(s, r, "PUBLISHED", now)

-----------------------------------------------------------------------------
(* A feedback event is written once; its age is compared in the query. *)
CreateFeedback(s, f, now) ==
  IF f \in DOMAIN s.feedback THEN s
  ELSE [s EXCEPT !.feedback = [g \in DOMAIN @ \cup {f} |-> IF g = f THEN now ELSE @[g]]]

FeedbackEvents(s, now) == {f \in DOMAIN s.feedback : s.feedback[f] >= now - Horizon}

(* A vector of a finding or of a repository's standard.  ON CONFLICT
   (resource_type, content_hash) DO NOTHING, whosever text it is. *)
SameText(s, row) == \E v \in s.vectors : v.kind = row.kind /\ v.text = row.text
CreateEmbedding(s, row) == IF SameText(s, row) THEN s ELSE [s EXCEPT !.vectors = @ \cup {row}]

(* The row is inserted with version 1, by a snapshot as by weights. *)
UpsertMemory(s) == [s EXCEPT !.version = @ + 1]
SaveWeights(s) == [s EXCEPT !.learned = TRUE, !.version = IF @ = 0 THEN 1 ELSE @]

(* created_at is the database's; rows of one instant come in the order of
   random ids. *)
RecordAudit(s, row, now) == [s EXCEPT !.audit = @ \cup {[row |-> row, at |-> now]}]
Newest(s) == {e.row : e \in {x \in s.audit : \A y \in s.audit : y.at <= x.at}}

-----------------------------------------------------------------------------
(* The dashboard. *)
Status(s, r) == s.status[r]
FindingsOf(s, r) == {[id |-> f, state |-> s.finding[f].state] : f \in Own(s, r)}
Rounds(s, r) == s.rounds[r]
FindingsTotal(s) == Cardinality(DOMAIN s.finding)
Latencies(s) == s.metrics
Redundant(s) == Cardinality({f \in DOMAIN s.finding : s.finding[f].group # "none"})
Memory(s) == <<s.version, s.learned>>

(* What retrieve_rag finds: the standards of a repository, and the resolved
   findings that are alike, of a sufficient k. *)
Standards(s, q) == {v.text : v \in {x \in s.vectors : x.kind = "standard" /\ x.of = q}}
Resolved(s) ==
  {v.of : v \in {x \in s.vectors : x.kind = "finding" /\ s.finding[x.of].state = "RESOLVED"}}
=============================================================================
