------------------------------ MODULE StoreTwins ------------------------------
(* The orchestrator talks to one protocol, OrchestratorStore, that two classes
   implement: the PostgreSQL store of production and the dictionaries the tests
   and the in-process runs use. What a test shows of the second says something
   of the first only as far as the two answer alike. Here both get the same
   calls, and "strayed" remembers the calls the two are known to treat
   differently. *)
EXTENDS Integers, Sequences, FiniteSets, Functions

CONSTANTS Reviews, Findings, Owner, StaleAfter, Horizon,
          Repositories,
          Text,        \* what is embedded of a finding
          Rule,        \* a coding standard that repositories may share
          Suites,      \* bound: sets of calls that are made together
          MaxTime, MaxRounds, MaxRows, MaxVersion

ASSUME TwinsAssumption ==
  /\ Owner \in [Findings -> Reviews]
  /\ {StaleAfter, Horizon, MaxTime, MaxRounds, MaxRows, MaxVersion} \subseteq Nat

VARIABLES suite, sql, mem, now, strayed

twinsVars == <<suite, sql, mem, now, strayed>>

Sql == INSTANCE SqlStore
Mem == INSTANCE MemoryStore

Statuses == {"none", "QUEUED", "DECIDING", "ITERATING", "PUBLISHING", "PUBLISHED", "FAILED"}
States == {"CANDIDATE", "SCHEDULED", "SUPPRESSED", "PUBLISHED", "STALE", "RESOLVED"}

TwinsInit ==
  /\ suite \in Suites
  /\ sql = Sql!Empty
  /\ mem = Mem!Empty
  /\ now = 0
  /\ strayed = {}

Both(s, m) == sql' = s /\ mem' = m /\ UNCHANGED <<suite, now>>
Noting(kind, apart) == strayed' = IF apart THEN strayed \cup {kind} ELSE strayed
Alike == UNCHANGED strayed

(* A claimed row that is written to: its stamp moves in SQL alone. *)
Prolonging(r) == sql.status[r] = "PUBLISHING"

-----------------------------------------------------------------------------
(* The run of a review. *)
Transition(r, status) ==
  /\ Both(Sql!Transition(sql, r, status, now), Mem!Transition(mem, r, status))
  /\ Alike

AppendNote(r) ==
  /\ Both(Sql!AppendNote(sql, r, now), Mem!AppendNote(mem, r))
  /\ Noting("touched", Prolonging(r))

RecordDecision(r, news) ==
  /\ Both(Sql!RecordDecision(sql, r, news, now), Mem!RecordDecision(mem, r))
  /\ Noting("touched", news /\ Prolonging(r))

SyncAgent(a) == Both(Sql!SyncAgent(sql, a), Mem!SyncAgent(mem, a)) /\ Alike

CreateMetric(duration) ==
  /\ Len(mem.metrics) < MaxRows
  /\ Both(Sql!CreateMetric(sql, duration), Mem!CreateMetric(mem, duration))
  /\ Noting("instant", duration = 0)

(* The same agent finds the same thing again: the id is a hash of it. *)
CreateFinding(f) ==
  /\ Len(mem.findings) < MaxRows
  /\ Both(Sql!CreateFinding(sql, f), Mem!CreateFinding(mem, f))
  /\ Noting("conflict", Sql!Conflicts(sql, f))

UpdateDuplicate(r, f, g) ==
  /\ Both(Sql!UpdateDuplicate(sql, r, f, g), Mem!UpdateDuplicate(mem, r, f, g))
  /\ Alike

ApplyDecision(r, f, chosen, g) ==
  /\ Both(Sql!ApplyDecision(sql, r, f, chosen, g), Mem!ApplyDecision(mem, f, chosen, g))
  /\ Noting("foreign", Owner[f] # r)

ApplyDelta(r, f, action) ==
  /\ Both(Sql!ApplyDelta(sql, r, f, action, now), Mem!ApplyDelta(mem, r, f, action))
  /\ strayed' = strayed \cup {kind \in {"foreign", "touched"} :
                  (kind = "foreign" /\ Owner[f] # r) \/ (kind = "touched" /\ Prolonging(r))}

RecordIteration(r) ==
  /\ Cardinality(sql.rounds[r]) < MaxRounds
  /\ Both(Sql!RecordIteration(sql, r), Mem!RecordIteration(mem, r))
  /\ Alike

-----------------------------------------------------------------------------
(* The publisher: its calls are about reviews that have been run. *)
Claim(r) == Both(Sql!Claim(sql, r, now), Mem!Claim(mem, r, now)) /\ Alike
Release(r) == Both(Sql!Release(sql, r, now), Mem!Release(mem, r)) /\ Alike
MarkFinding(r, f) == Both(Sql!MarkFinding(sql, r, f), Mem!MarkFinding(mem, r, f)) /\ Alike

MarkReviewPublished(r) ==
  /\ Mem!Known(mem, r)
  /\ Both(Sql!MarkReviewPublished(sql, r, now), Mem!MarkReviewPublished(mem, r))
  /\ Alike

-----------------------------------------------------------------------------
(* Feedback and what is learned from it. *)
CreateFeedback(f) ==
  /\ f \in DOMAIN sql.finding
  /\ Both(Sql!CreateFeedback(sql, f, now), Mem!CreateFeedback(mem, f, now))
  /\ Alike

Vector(kind, text, of) == [kind |-> kind, text |-> text, of |-> of]
Vectors == {Vector("finding", Text[f], f) : f \in DOMAIN sql.finding}
           \cup {Vector("standard", Rule, q) : q \in Repositories}

(* The text says nothing of who found it: it may be there already. *)
CreateEmbedding(row) ==
  /\ Len(mem.vectors) < MaxRows
  /\ Both(Sql!CreateEmbedding(sql, row), Mem!CreateEmbedding(mem, row))
  /\ Noting("same text", Sql!SameText(sql, row))

UpsertMemory ==
  /\ mem.version < MaxVersion
  /\ Both(Sql!UpsertMemory(sql), Mem!UpsertMemory(mem))
  /\ Alike

SaveWeights ==
  /\ Both(Sql!SaveWeights(sql), Mem!SaveWeights(mem))
  /\ Noting("weights first", sql.version = 0)

LogAudit ==
  LET row == Len(mem.audit) + 1
  IN  /\ row <= MaxRows
      /\ Both(Sql!RecordAudit(sql, row, now), Mem!RecordAudit(mem, row, now))
      /\ Alike

Tick == now < MaxTime /\ now' = now + 1 /\ UNCHANGED <<suite, sql, mem, strayed>>

Running(r) ==
  \/ "transition" \in suite /\ \E to \in {"DECIDING", "ITERATING", "FAILED"} : Transition(r, to)
  \/ "note" \in suite /\ AppendNote(r)
  \/ "decision" \in suite /\ \E news \in BOOLEAN : RecordDecision(r, news)
  \/ "delta" \in suite /\ \E f \in Findings, action \in {"STALE", "RESOLVED"} :
                            ApplyDelta(r, f, action)
  \/ "verdict" \in suite /\ \E f \in Findings, chosen \in BOOLEAN, g \in {"none", "g"} :
                              ApplyDecision(r, f, chosen, g)
  \/ "verdict" \in suite /\ \E f \in Findings : UpdateDuplicate(r, f, "g")
  \/ "round" \in suite /\ RecordIteration(r)

Publishing(r) ==
  \/ "claim" \in suite /\ (Claim(r) \/ Release(r) \/ MarkReviewPublished(r))
  \/ "mark" \in suite /\ \E f \in Findings : MarkFinding(r, f)

Learning ==
  \/ "feedback" \in suite /\ \E f \in Findings : CreateFeedback(f)
  \/ "memory" \in suite /\ (UpsertMemory \/ SaveWeights)
  \/ "embedding" \in suite /\ \E row \in Vectors : CreateEmbedding(row)

TwinsNext ==
  \/ \E r \in Reviews : Running(r) \/ Publishing(r)
  \/ "finding" \in suite /\ \E f \in Findings : CreateFinding(f)
  \/ Learning
  \/ "metric" \in suite /\ \E duration \in {0, 1} : CreateMetric(duration)
  \/ "metric" \in suite /\ SyncAgent("security")
  \/ "audit" \in suite /\ LogAudit
  \/ "tick" \in suite /\ Tick

TwinsSpec == TwinsInit /\ [][TwinsNext]_twinsVars

-----------------------------------------------------------------------------
Kinds == {"touched", "conflict", "foreign", "instant", "weights first", "same text"}
Groups == {"none", "g"}
Rows == [state : States, group : Groups]
Listed == [id : Findings, review : Reviews, state : States, group : Groups]
Claims == [status : Statuses, claimed : {<< >>} \cup {<<t>> : t \in 0 .. MaxTime}]

FindingsTyped ==
  /\ DOMAIN sql.finding \subseteq Findings /\ sql.finding \in [DOMAIN sql.finding -> Rows]
  /\ mem.findings \in Seq(Listed)

(* The rounds of a review are numbered without a gap. *)
Numbered(r) == \E n \in 0 .. MaxRounds : sql.rounds[r] = 1 .. n

(* The two stores are in the form their classes keep them in, whatever the
   calls. *)
TwinsTypeOK ==
  /\ suite \in Suites /\ now \in 0 .. MaxTime /\ strayed \subseteq Kinds
  /\ sql.status \in [Reviews -> Statuses] /\ sql.updated \in [Reviews -> 0 .. MaxTime]
  /\ DOMAIN mem.reviews \subseteq Reviews
  /\ \A r \in DOMAIN mem.reviews : mem.reviews[r] \in Claims
  /\ FindingsTyped
  /\ \A r \in Reviews : Numbered(r)

Strayed(kinds) == strayed \cap kinds # {}

(* Until a claimed review is written to by someone who does not hold it, the
   two stores show a review in the same status and offer a publisher the same
   reviews: SQL dates a claim by updated_at, the double by a field of its own. *)
ClaimsAgree ==
  \/ Strayed({"touched"})
  \/ /\ Sql!Pending(sql, now) = Mem!Pending(mem, now)
     /\ \A r \in Reviews : Mem!Status(mem, r) \in {"none", Sql!Status(sql, r)}
     /\ \A r \in Reviews : Mem!Status(mem, r) = "none" => Sql!Status(sql, r) = "QUEUED"

(* Until an id is stored twice, or a review is told of the finding of another,
   a publisher and the dashboard are shown the same findings, and as long as no
   text is embedded twice the same resolved ones are found alike. *)
FindingsAgree ==
  \/ Strayed({"conflict", "foreign"})
  \/ /\ \A r \in Reviews : Sql!FindingsOf(sql, r) = Mem!FindingsOf(mem, r)
     /\ \A r \in Reviews : Mem!Known(mem, r) => Sql!Payload(sql, r) = Mem!Payload(mem, r)
     /\ Sql!FindingsTotal(sql) = Mem!FindingsTotal(mem)
     /\ Sql!Redundant(sql) = Mem!Redundant(mem)
     /\ Strayed({"same text"}) \/ Sql!Resolved(sql) = Mem!Resolved(mem)

Young(events) == {f \in events : now - sql.feedback[f] < Horizon}

(* Rounds, agents and the evidence that counts are the same in both, whatever
   the calls, and the audit log begins with the same instant; so are the
   version of the memory unless weights were saved before any snapshot, the
   average latency unless an agent took no time, and the standards found of a
   repository unless another one has the same. *)
RecordsAgree ==
  /\ \A r \in Reviews : Sql!Rounds(sql, r) = Mem!Rounds(mem, r)
  /\ sql.agents = mem.agents
  /\ Young(Sql!FeedbackEvents(sql, now)) = Mem!FeedbackEvents(mem, now)
  /\ Mem!Newest(mem) \subseteq Sql!Newest(sql)
  /\ Strayed({"weights first"}) \/ Sql!Memory(sql) = Mem!Memory(mem)
  /\ Strayed({"instant"}) \/ Sql!Latencies(sql) = Mem!Latencies(mem)
  /\ Strayed({"same text"}) \/ \A q \in Repositories : Sql!Standards(sql, q) = Mem!Standards(mem, q)

-----------------------------------------------------------------------------
(* Why they agree: what each table of one says of a table of the other. *)
SqlTables == {"status", "updated", "finding", "rounds", "feedback", "agents", "metrics", "audit",
              "vectors", "version", "learned"}
MemTables == {"reviews", "findings", "iterations", "feedback", "agents", "metrics", "audit",
              "vectors", "version", "learned"}

TablesAreThere ==
  /\ sql = [t \in SqlTables |-> sql[t]]
  /\ mem = [t \in MemTables |-> mem[t]]
  /\ now \in 0 .. MaxTime

(* A review of the double has the status of the row or none yet, and a claim
   has the date of the row's last change. *)
ClaimsMatch ==
  /\ sql.status \in [Reviews -> Statuses] /\ sql.updated \in [Reviews -> 0 .. MaxTime]
  /\ DOMAIN mem.reviews \subseteq Reviews
  /\ \A r \in DOMAIN mem.reviews : mem.reviews[r] \in Claims
  /\ \/ Strayed({"touched"})
     \/ \A r \in Reviews :
          /\ Mem!Status(mem, r) \in {"none", sql.status[r]}
          /\ Mem!Status(mem, r) = "none" => sql.status[r] = "QUEUED"
          /\ sql.status[r] = "PUBLISHING" => mem.reviews[r].claimed = <<sql.updated[r]>>

(* A list with one entry of every row of a table. *)
Mirrors(table, list) ==
  /\ list \in Seq(Listed)
  /\ table \in [{list[i].id : i \in DOMAIN list} -> [state : States, group : Groups]]
  /\ \A i \in DOMAIN list :
       /\ list[i].review = Owner[list[i].id]
       /\ table[list[i].id] = [state |-> list[i].state, group |-> list[i].group]
  /\ \A i, j \in DOMAIN list : list[i].id = list[j].id => i = j

FindingsMatch == Strayed({"conflict", "foreign"}) \/ Mirrors(sql.finding, mem.findings)

VectorsMatch ==
  /\ mem.vectors \in Seq(Range(mem.vectors))
  /\ \A v \in sql.vectors : v.kind = "finding" => v.of \in DOMAIN sql.finding
  /\ Strayed({"same text"}) \/ sql.vectors = Range(mem.vectors)

RoundsMatch ==
  /\ DOMAIN sql.rounds = Reviews /\ sql.rounds = [r \in DOMAIN sql.rounds |-> sql.rounds[r]]
  /\ mem.iterations \in Seq(Range(mem.iterations))
  /\ \A r \in Reviews : sql.rounds[r] = Mem!Rounds(mem, r) /\ Numbered(r)

FeedbackMatches ==
  /\ mem.feedback \in Seq([id : Findings, day : 0 .. now])
  /\ DOMAIN sql.feedback = {mem.feedback[i].id : i \in DOMAIN mem.feedback}
  /\ \A i \in DOMAIN mem.feedback : sql.feedback[mem.feedback[i].id] = mem.feedback[i].day

AuditMatches ==
  /\ mem.audit \in Seq([row : Nat, at : 0 .. now])
  /\ sql.audit = Range(mem.audit)
  /\ \A i, j \in DOMAIN mem.audit : i <= j => mem.audit[i].at <= mem.audit[j].at

LearningMatches ==
  /\ sql.agents = mem.agents
  /\ Strayed({"weights first"}) \/ Sql!Memory(sql) = Mem!Memory(mem)
  /\ mem.metrics \in Seq({0, 1})
  /\ Strayed({"instant"}) \/ (sql.metrics = mem.metrics /\ 0 \notin Range(mem.metrics))

TwinsInvariant ==
  /\ TablesAreThere /\ ClaimsMatch /\ FindingsTyped /\ FindingsMatch /\ VectorsMatch
  /\ RoundsMatch /\ FeedbackMatches /\ AuditMatches /\ LearningMatches
=============================================================================
