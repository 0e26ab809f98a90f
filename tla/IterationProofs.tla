---------------------------- MODULE IterationProofs ----------------------------
(***************************************************************************)
(* Iteration, for every diff and any number of rounds and publishers: what *)
(* it keeps of the numbering, of the claims and of the dispositions.       *)
(***************************************************************************)
EXTENDS Iteration, FiniteSetTheorems, TLAPS

(* The greatest number in use is the number of rows. *)
LEMMA MaxIsCount ==
  ASSUME TypeOK, RowsAreCounted
  PROVE  MaxNumber = Cardinality(rows) /\ Cardinality(rows) \in Nat
<1> DEFINE n == Cardinality(rows)
<1>1. n \in Nat /\ Numbers = 1 .. n
  BY FS_CardinalityType DEF RowsAreCounted, RoundsAreNumbered
<1> HIDE DEF n
<1>2. n \in Numbers \cup {0} /\ \A m \in Numbers : m <= n
  BY <1>1
<1>3. \A k \in Numbers \cup {0} : (\A m \in Numbers : m <= k) => k = n
  BY <1>1
<1>4. MaxNumber = n
  BY <1>2, <1>3 DEF MaxNumber
<1> QED BY <1>1, <1>4 DEF n

LEMMA TypeRound ==
  ASSUME TypeOK, RowsAreCounted, NEW e \in Rounds, RoundStep(e)
  PROVE  TypeOK'
<1> USE IterationAssumption DEF Goto, publisherVars
<1>1. CASE Start(e)
  <2>1. PICK c \in Commits : commit' = [commit EXCEPT ![e] = c]
    BY <1>1 DEF Start
  <2>2. commit' \in [Rounds -> Commits \cup {<< >>}]
    BY <2>1 DEF TypeOK
  <2>3. Chosen \subseteq Findings
    BY DEF Chosen
  <2>4. previous' \in [Rounds -> SUBSET Findings]
    BY <1>1, <2>3 DEF Start, TypeOK
  <2>5. pushed' \in 0 .. MaxRounds
    BY <1>1 DEF Start, Rounds
  <2>6. status' \in {"PROCESSING"} /\ disturbed' \in BOOLEAN
    BY <1>1 DEF Start, Transition, TypeOK
  <2>7. xpc' \in [Rounds -> RoundStage]
    BY <1>1 DEF Start, TypeOK, RoundStage
  <2> QED BY <1>1, <2>2, <2>4, <2>5, <2>6, <2>7 DEF Start, TypeOK
<1>2. CASE NothingPrevious(e)
  <2>1. xpc' \in [Rounds -> RoundStage]
    BY <1>2 DEF NothingPrevious, TypeOK, RoundStage
  <2> QED BY <1>2, <2>1 DEF NothingPrevious, TypeOK
<1>3. CASE EnterIterating(e)
  <2>1. xpc' \in [Rounds -> RoundStage]
    BY <1>3 DEF EnterIterating, TypeOK, RoundStage
  <2>2. status' = "ITERATING" /\ disturbed' \in BOOLEAN
    BY <1>3 DEF EnterIterating, Transition, TypeOK
  <2> QED BY <1>3, <2>1, <2>2 DEF EnterIterating, TypeOK
<1>4. CASE ApplyDelta(e)
  <2>1. xpc' \in [Rounds -> RoundStage]
    BY <1>4 DEF ApplyDelta, TypeOK, RoundStage
  <2>2. \A f \in Findings : Disposition(f, commit[e]) \in {"KEEP", "RESOLVED", "STALE"}
    BY DEF Disposition
  <2>3. finding' \in [Findings -> {"none", "CANDIDATE", "SCHEDULED", "SUPPRESSED", "PUBLISHED",
                                   "STALE", "RESOLVED"}]
    BY <1>4, <2>2 DEF ApplyDelta, TypeOK
  <2> QED BY <1>4, <2>1, <2>3 DEF ApplyDelta, TypeOK
<1>5. CASE RunAgents(e)
  <2>1. xpc' \in [Rounds -> RoundStage]
    BY <1>5 DEF RunAgents, TypeOK, RoundStage
  <2>2. status' = "AGENTS_RUNNING" /\ disturbed' \in BOOLEAN
    BY <1>5 DEF RunAgents, Transition, TypeOK
  <2> QED BY <1>5, <2>1, <2>2 DEF RunAgents, TypeOK
<1>6. CASE Graph(e)
  <2>1. xpc' \in [Rounds -> RoundStage]
    BY <1>6 DEF Graph, TypeOK, RoundStage
  <2>2. found' \in [Rounds -> SUBSET Findings]
    BY <1>6 DEF Graph, TypeOK
  <2>3. error' \in [Rounds -> {"none", "agents", "consolidation", "both", "decision"}]
    BY <1>6 DEF Graph, TypeOK
  <2> QED BY <1>6, <2>1, <2>2, <2>3 DEF Graph, TypeOK
<1>7. Candidates(e) \in [Findings -> {"none", "CANDIDATE", "SCHEDULED", "SUPPRESSED", "PUBLISHED",
                                      "STALE", "RESOLVED"}]
  BY DEF Candidates, TypeOK
<1>8. CASE CreateFindings(e)
  <2>1. xpc' \in [Rounds -> RoundStage]
    BY <1>8 DEF CreateFindings, TypeOK, RoundStage
  <2> QED BY <1>7, <1>8, <2>1 DEF CreateFindings, TypeOK
<1>9. CASE ConsolidationFails(e)
  <2>1. xpc' \in [Rounds -> RoundStage]
    BY <1>9 DEF ConsolidationFails, TypeOK, RoundStage
  <2>2. error' \in [Rounds -> {"none", "agents", "consolidation", "both", "decision"}]
    BY <1>9 DEF ConsolidationFails, TypeOK
  <2>3. finding' = finding \/ finding' = Candidates(e)
    BY <1>9 DEF ConsolidationFails
  <2> QED BY <1>7, <1>9, <2>1, <2>2, <2>3 DEF ConsolidationFails, TypeOK
<1>10. \A S, D \in SUBSET Findings :
         Verdicts(S, D) \in [Findings -> {"none", "CANDIDATE", "SCHEDULED", "SUPPRESSED",
                                          "PUBLISHED", "STALE", "RESOLVED"}]
  BY DEF Verdicts, TypeOK
<1>11. found[e] \subseteq Findings
  BY DEF TypeOK
<1>12. CASE Decide(e)
  <2>1. xpc' \in [Rounds -> RoundStage]
    BY <1>12 DEF Decide, TypeOK, RoundStage
  <2>2. PICK S \in SUBSET found[e] : finding' = Verdicts(S, found[e])
    BY <1>12 DEF Decide
  <2> QED BY <1>10, <1>11, <1>12, <2>1, <2>2 DEF Decide, TypeOK
<1>13. CASE DecisionFails(e)
  <2>1. xpc' \in [Rounds -> RoundStage]
    BY <1>13 DEF DecisionFails, TypeOK, RoundStage
  <2>2. error' \in [Rounds -> {"none", "agents", "consolidation", "both", "decision"}]
    BY <1>13 DEF DecisionFails, TypeOK
  <2>3. PICK D \in SUBSET found[e], S \in SUBSET found[e] : finding' = Verdicts(S, D)
    BY <1>13 DEF DecisionFails
  <2> QED BY <1>10, <1>11, <1>13, <2>1, <2>2, <2>3 DEF DecisionFails, TypeOK
<1>14. Result(e) \in {"FAILED", "DECIDING", "COMPLETED"}
  BY DEF Result
<1>15. CASE Finish(e)
  <2>1. xpc' \in [Rounds -> RoundStage]
    BY <1>15 DEF Finish, TypeOK, RoundStage
  <2>2. status' = Result(e) /\ disturbed' \in BOOLEAN
    BY <1>15 DEF Finish, Transition, TypeOK
  <2> QED BY <1>14, <1>15, <2>1, <2>2 DEF Finish, TypeOK
<1>16. CASE RecordRead(e)
  <2>1. xpc' \in [Rounds -> RoundStage]
    BY <1>16 DEF RecordRead, TypeOK, RoundStage
  <2>2. MaxNumber + 1 \in Nat
    BY MaxIsCount
  <2>3. number' \in [Rounds -> Nat]
    BY <1>16, <2>2 DEF RecordRead, TypeOK
  <2> QED BY <1>16, <2>1, <2>3 DEF RecordRead, TypeOK
<1>17. CASE RecordInsert(e)
  <2>1. xpc' \in [Rounds -> RoundStage]
    BY <1>17 DEF RecordInsert, TypeOK, RoundStage
  <2>2. rows' \subseteq [number : Nat, round : Rounds, ended : {"DECIDING", "COMPLETED", "FAILED"}]
    BY <1>14, <1>17 DEF RecordInsert, TypeOK
  <2> QED BY <1>17, <2>1, <2>2 DEF RecordInsert, TypeOK
<1>18. CASE BackToIterating(e)
  <2>1. xpc' \in [Rounds -> RoundStage]
    BY <1>18 DEF BackToIterating, TypeOK, RoundStage
  <2>2. status' = "ITERATING" /\ disturbed' \in BOOLEAN
    BY <1>18 DEF BackToIterating, Transition, TypeOK
  <2> QED BY <1>18, <2>1, <2>2 DEF BackToIterating, TypeOK
<1> QED BY <1>1, <1>2, <1>3, <1>4, <1>5, <1>6, <1>8, <1>9, <1>12, <1>13, <1>15, <1>16, <1>17,
           <1>18 DEF RoundStep

LEMMA TypePublisher ==
  ASSUME TypeOK, NEW p \in Publishers, PublishStep(p)
  PROVE  TypeOK'
<1> USE DEF GotoP, roundVars
<1>1. CASE Claim(p)
  BY <1>1 DEF Claim, TypeOK
<1>2. CASE ReadPayload(p)
  <2>1. Scheduled \subseteq Findings
    BY DEF Scheduled
  <2>2. payload' \in [Publishers -> SUBSET Findings]
    BY <1>2, <2>1 DEF ReadPayload, TypeOK
  <2>3. ppc' \in [Publishers -> {"idle", "claimed", "post", "posted", "marked"}]
    BY <1>2 DEF ReadPayload, TypeOK
  <2>4. status' = "PUBLISHED" \/ status' = status
    BY <1>2 DEF ReadPayload
  <2> QED BY <1>2, <2>2, <2>3, <2>4 DEF ReadPayload, TypeOK
<1>3. CASE Post(p)
  <2>1. posts' \in [Findings -> Nat]
    BY <1>3 DEF Post, TypeOK
  <2> QED BY <1>3, <2>1 DEF Post, TypeOK
<1>4. CASE MarkFindings(p)
  <2>1. finding' \in [Findings -> {"none", "CANDIDATE", "SCHEDULED", "SUPPRESSED", "PUBLISHED",
                                   "STALE", "RESOLVED"}]
    BY <1>4 DEF MarkFindings, TypeOK
  <2> QED BY <1>4, <2>1 DEF MarkFindings, TypeOK
<1>5. CASE MarkReview(p)
  BY <1>5 DEF MarkReview, TypeOK
<1> QED BY <1>1, <1>2, <1>3, <1>4, <1>5 DEF PublishStep

LEMMA TypeStep ==
  ASSUME TypeOK, RowsAreCounted, [Next]_vars
  PROVE  TypeOK'
<1>1. CASE UNCHANGED vars
  BY <1>1 DEF TypeOK, vars, roundVars, publisherVars
<1>2. CASE Next
  BY <1>2, TypeRound, TypePublisher DEF Next
<1> QED BY <1>1, <1>2

LEMMA TypeInit ==
  ASSUME Init
  PROVE  TypeOK
<1> USE DEF Init
<1>1. finding \in [Findings -> {"none", "CANDIDATE", "SCHEDULED", "SUPPRESSED", "PUBLISHED",
                                "STALE", "RESOLVED"}]
  OBVIOUS
<1>2. posts \in [Findings -> Nat]
  <2>1. posts = [f \in Findings |-> IF finding[f] = "PUBLISHED" THEN 1 ELSE 0]
    OBVIOUS
  <2>2. \A f \in Findings : (IF finding[f] = "PUBLISHED" THEN 1 ELSE 0) \in Nat
    OBVIOUS
  <2> HIDE DEF Init
  <2> QED BY <2>1, <2>2
<1>3. xpc \in [Rounds -> RoundStage]
  BY DEF RoundStage
<1>4. pushed \in 0 .. MaxRounds
  BY IterationAssumption
<1> QED BY <1>1, <1>2, <1>3, <1>4 DEF TypeOK

-----------------------------------------------------------------------------
(* Numbering. *)

LEMMA RowsInit ==
  ASSUME Init
  PROVE  RowsAreCounted
<1>1. rows = {} /\ \A e \in Rounds : xpc[e] = "unborn"
  BY DEF Init
<1>2. IsFiniteSet(rows) /\ Cardinality(rows) = 0
  BY <1>1, FS_EmptySet
<1>3. Numbers = 1 .. 0
  BY <1>1 DEF Numbers
<1> QED BY <1>1, <1>2, <1>3 DEF RowsAreCounted, RoundsAreNumbered

(* A step that neither computes a number nor inserts a row. *)
LEMMA RowsStay ==
  ASSUME TypeOK, RowsAreCounted, NEW e \in Rounds, NEW to,
         rows' = rows, number' = number, xpc' = [xpc EXCEPT ![e] = to], to # "insert",
         xpc[e] \in {"iterating", "done"} => to \in {"iterating", "done"}
  PROVE  RowsAreCounted'
<1>1. Numbers' = Numbers
  BY DEF Numbers
<1>2. RoundsAreNumbered'
  BY <1>1 DEF RowsAreCounted, RoundsAreNumbered
<1>3. \A d \in Rounds : xpc'[d] = IF d = e THEN to ELSE xpc[d]
  BY DEF TypeOK
<1>4. ASSUME NEW r \in rows PROVE xpc'[r.round] \in {"iterating", "done"}
  <2>1. r.round \in Rounds
    BY DEF TypeOK
  <2>2. xpc[r.round] \in {"iterating", "done"}
    BY DEF RowsAreCounted
  <2> QED BY <1>3, <2>1, <2>2
<1>5. ASSUME NEW d \in Rounds, xpc'[d] = "insert" PROVE number'[d] \in 1 .. Cardinality(rows') + 1
  BY <1>3, <1>5 DEF RowsAreCounted
<1>6. IsFiniteSet(rows')
  BY DEF RowsAreCounted
<1> QED BY <1>2, <1>4, <1>5, <1>6 DEF RowsAreCounted

LEMMA RowsRead ==
  ASSUME TypeOK, RowsAreCounted, NEW e \in Rounds, RecordRead(e)
  PROVE  RowsAreCounted'
<1> USE DEF RecordRead, Goto
<1>1. Numbers' = Numbers
  BY DEF Numbers
<1>2. RoundsAreNumbered'
  BY <1>1 DEF RowsAreCounted, RoundsAreNumbered
<1>3. \A d \in Rounds : xpc'[d] = IF d = e THEN "insert" ELSE xpc[d]
  BY DEF TypeOK
<1>4. ASSUME NEW r \in rows PROVE xpc'[r.round] \in {"iterating", "done"}
  <2>1. r.round \in Rounds
    BY DEF TypeOK
  <2>2. xpc[r.round] \in {"iterating", "done"}
    BY DEF RowsAreCounted
  <2> QED BY <1>3, <2>1, <2>2
<1>5. \A d \in Rounds : number'[d] = IF d = e THEN Cardinality(rows) + 1 ELSE number[d]
  BY MaxIsCount DEF TypeOK
<1>6. ASSUME NEW d \in Rounds, xpc'[d] = "insert" PROVE number'[d] \in 1 .. Cardinality(rows) + 1
  BY <1>3, <1>5, <1>6, MaxIsCount DEF RowsAreCounted
<1>7. IsFiniteSet(rows')
  BY DEF RowsAreCounted
<1> QED BY <1>2, <1>4, <1>6, <1>7 DEF RowsAreCounted

(* A row that is inserted continues the numbering: its number is at most one
   above the greatest, and not in use. *)
LEMMA RowsInsert ==
  ASSUME TypeOK, RowsAreCounted, NEW e \in Rounds, RecordInsert(e)
  PROVE  RowsAreCounted'
<1> DEFINE n == Cardinality(rows)
           row == [number |-> number[e], round |-> e, ended |-> Result(e)]
<1>1. n \in Nat /\ Numbers = 1 .. n /\ IsFiniteSet(rows)
  BY FS_CardinalityType DEF RowsAreCounted, RoundsAreNumbered
<1>2. xpc[e] = "insert" /\ number[e] \in 1 .. n + 1 /\ number' = number
  BY DEF RecordInsert, RowsAreCounted
<1>3. \A r \in rows : r.round \in Rounds /\ r.round # e /\ xpc[r.round] \in {"iterating", "done"}
  BY <1>2 DEF RowsAreCounted, TypeOK
<1>4. CASE number[e] \in Numbers
  <2>1. xpc' = [xpc EXCEPT ![e] = "dead"] /\ rows' = rows
    BY <1>4 DEF RecordInsert
  <2> QED BY <1>2, <2>1, RowsStay
<1>5. CASE number[e] \notin Numbers
  <2>1. /\ xpc' = [xpc EXCEPT ![e] = IF Result(e) = "DECIDING" THEN "iterating" ELSE "done"]
        /\ rows' = rows \cup {row}
    BY <1>5 DEF RecordInsert
  <2>2. number[e] = n + 1
    BY <1>1, <1>2, <1>5
  <2>3. row \notin rows
    BY <1>3
  <2>4. IsFiniteSet(rows') /\ Cardinality(rows') = n + 1
    BY <1>1, <2>1, <2>3, FS_AddElement
  <2>5. Numbers' = Numbers \cup {number[e]}
    <3>1. row.number = number[e]
      OBVIOUS
    <3> HIDE DEF row, n
    <3>2. {r.number : r \in rows'} = {r.number : r \in rows} \cup {row.number}
      BY <2>1
    <3> QED BY <3>1, <3>2 DEF Numbers
  <2>6. Numbers' = 1 .. n + 1
    <3> HIDE DEF n
    <3> QED BY <1>1, <2>2, <2>5
  <2>7. \A r, s \in rows' : r.round = s.round => r = s
    BY <1>3, <2>1 DEF RowsAreCounted, RoundsAreNumbered
  <2>8. \A d \in Rounds : d # e => xpc'[d] = xpc[d]
    BY <2>1 DEF TypeOK
  <2>9. xpc'[e] \in {"iterating", "done"}
    BY <2>1 DEF TypeOK
  <2>10. \A r \in rows' : xpc'[r.round] \in {"iterating", "done"}
    BY <1>3, <2>1, <2>8, <2>9
  <2>11. ASSUME NEW d \in Rounds, xpc'[d] = "insert" PROVE number'[d] \in 1 .. (n + 1) + 1
    <3>1. number[d] \in 1 .. n + 1
      BY <2>8, <2>9, <2>11 DEF RowsAreCounted
    <3> HIDE DEF n
    <3> QED BY <1>1, <1>2, <3>1
  <2> HIDE DEF n, row
  <2>12. RoundsAreNumbered'
    BY <2>4, <2>6, <2>7 DEF RoundsAreNumbered
  <2> QED BY <2>4, <2>10, <2>11, <2>12 DEF RowsAreCounted
<1> QED BY <1>4, <1>5

LEMMA RowsStep ==
  ASSUME TypeOK, RowsAreCounted, [Next]_vars
  PROVE  RowsAreCounted'
<1>1. CASE rows' = rows /\ number' = number /\ xpc' = xpc
  BY <1>1 DEF RowsAreCounted, RoundsAreNumbered, Numbers
<1>2. CASE UNCHANGED vars
  BY <1>1, <1>2 DEF vars, roundVars
<1>3. ASSUME NEW p \in Publishers, PublishStep(p) PROVE rows' = rows /\ number' = number /\ xpc' = xpc
  BY <1>3 DEF PublishStep, Claim, ReadPayload, Post, MarkFindings, MarkReview, roundVars
<1>4. ASSUME NEW e \in Rounds, RoundStep(e) PROVE RowsAreCounted'
  <2> USE DEF Goto
  <2>1. CASE Start(e)
    BY <2>1, RowsStay DEF Start
  <2>2. CASE NothingPrevious(e)
    BY <2>2, RowsStay DEF NothingPrevious
  <2>3. CASE EnterIterating(e)
    BY <2>3, RowsStay DEF EnterIterating
  <2>4. CASE ApplyDelta(e)
    BY <2>4, RowsStay DEF ApplyDelta
  <2>5. CASE RunAgents(e)
    BY <2>5, RowsStay DEF RunAgents
  <2>6. CASE Graph(e)
    BY <2>6, RowsStay DEF Graph
  <2>7. CASE CreateFindings(e)
    BY <2>7, RowsStay DEF CreateFindings
  <2>8. CASE ConsolidationFails(e)
    BY <2>8, RowsStay DEF ConsolidationFails
  <2>9. CASE Decide(e)
    BY <2>9, RowsStay DEF Decide
  <2>10. CASE DecisionFails(e)
    BY <2>10, RowsStay DEF DecisionFails
  <2>11. CASE Finish(e)
    BY <2>11, RowsStay DEF Finish
  <2>12. CASE RecordRead(e)
    BY <2>12, RowsRead
  <2>13. CASE RecordInsert(e)
    BY <2>13, RowsInsert
  <2>14. CASE BackToIterating(e)
    BY <2>14, RowsStay DEF BackToIterating
  <2> HIDE DEF Goto
  <2> QED BY <1>4, <2>1, <2>2, <2>3, <2>4, <2>5, <2>6, <2>7, <2>8, <2>9, <2>10, <2>11, <2>12,
             <2>13, <2>14 DEF RoundStep
<1> QED BY <1>1, <1>2, <1>3, <1>4 DEF Next

LEMMA Numbering == Spec => [](TypeOK /\ RowsAreCounted)
<1>1. Init => TypeOK /\ RowsAreCounted
  BY TypeInit, RowsInit
<1>2. TypeOK /\ RowsAreCounted /\ [Next]_vars => (TypeOK /\ RowsAreCounted)'
  BY TypeStep, RowsStep
<1> QED BY <1>1, <1>2, PTL DEF Spec

(* Every variable of the rounds and the publishers stays in its range. *)
THEOREM IterationTypeCorrect == Spec => []TypeOK
BY Numbering, PTL

(* Any number of rounds that record themselves at the same time are numbered
   without a gap and without a repetition: who computed a number that is taken
   gets no row. *)
THEOREM RoundsAlwaysNumbered == Spec => []RoundsAreNumbered
<1>1. RowsAreCounted => RoundsAreNumbered
  BY DEF RowsAreCounted
<1> QED BY <1>1, Numbering, PTL

-----------------------------------------------------------------------------
(* Findings settle. *)

LEMMA SettleInit ==
  ASSUME Init
  PROVE  FindingsSettle
<1>1. /\ \A e \in Rounds : xpc[e] = "unborn" /\ previous[e] = {}
      /\ \A p \in Publishers : payload[p] = {}
      /\ \A f \in Findings : posts[f] > 0 => finding[f] = "PUBLISHED"
  BY DEF Init
<1> QED BY <1>1 DEF FindingsSettle, Settled

(* A round's step that settles some findings and leaves alone what another
   round is about to decide on. *)
LEMMA SettleRound ==
  ASSUME TypeOK, FindingsSettle, NEW d \in Rounds, NEW to, to # "decide",
         xpc' = [xpc EXCEPT ![d] = to], previous' = previous, found' = found,
         payload' = payload, posts' = posts,
         \A f \in Findings : Settled(f) => finding'[f] \notin {"none", "CANDIDATE"},
         \A e \in Rounds \ {d} : xpc[e] = "decide" => \A f \in found[e] : finding'[f] = "CANDIDATE"
  PROVE  FindingsSettle'
<1>1. \A e \in Rounds : xpc'[e] = IF e = d THEN to ELSE xpc[e]
  BY DEF TypeOK
<1>2. \A e \in Rounds : \A f \in previous'[e] : finding'[f] \notin {"none", "CANDIDATE"}
  BY DEF FindingsSettle, TypeOK
<1>3. \A p \in Publishers : \A f \in payload'[p] : finding'[f] \notin {"none", "CANDIDATE"}
  BY DEF FindingsSettle, TypeOK
<1>4. \A f \in Findings : posts'[f] > 0 => finding'[f] \notin {"none", "CANDIDATE"}
  BY DEF FindingsSettle
<1>5. \A e \in Rounds : xpc'[e] = "decide" => \A f \in found'[e] : finding'[f] = "CANDIDATE"
  BY <1>1
<1>6. \A c, e \in Rounds : c # e /\ xpc'[c] = "decide" /\ xpc'[e] = "decide"
                           => found'[c] \cap found'[e] = {}
  BY <1>1 DEF FindingsSettle
<1> QED BY <1>2, <1>3, <1>4, <1>5, <1>6 DEF FindingsSettle, Settled

(* One that changes no finding. *)
LEMMA SettleStays ==
  ASSUME TypeOK, FindingsSettle, NEW d \in Rounds, NEW to, to # "decide",
         xpc' = [xpc EXCEPT ![d] = to], previous' = previous, found' = found,
         payload' = payload, posts' = posts, finding' = finding
  PROVE  FindingsSettle'
<1>1. \A f \in Findings : Settled(f) => finding'[f] \notin {"none", "CANDIDATE"}
  BY DEF Settled
<1>2. \A e \in Rounds \ {d} : xpc[e] = "decide" => \A f \in found[e] : finding'[f] = "CANDIDATE"
  BY DEF FindingsSettle
<1> QED BY <1>1, <1>2, SettleRound

LEMMA SettleStart ==
  ASSUME TypeOK, FindingsSettle, NEW d \in Rounds, Start(d)
  PROVE  FindingsSettle'
<1> USE DEF Start, Goto, publisherVars
<1>1. \A e \in Rounds : xpc'[e] = "decide" => xpc[e] = "decide"
  BY DEF TypeOK
<1>2. \A f \in Chosen : finding[f] \notin {"none", "CANDIDATE"}
  BY DEF Chosen
<1>3. \A e \in Rounds : previous'[e] = IF e = d THEN Chosen ELSE previous[e]
  BY DEF TypeOK
<1>4. \A e \in Rounds : \A f \in previous'[e] : finding'[f] \notin {"none", "CANDIDATE"}
  BY <1>2, <1>3 DEF FindingsSettle, Settled
<1> QED BY <1>1, <1>4 DEF FindingsSettle, Settled

LEMMA SettleGraph ==
  ASSUME TypeOK, FindingsSettle, NEW d \in Rounds, Graph(d)
  PROVE  FindingsSettle'
<1> USE DEF Graph, Goto, publisherVars
<1>1. \A e \in Rounds : xpc'[e] = "decide" => xpc[e] = "decide" /\ e # d
  BY DEF TypeOK
<1>2. \A e \in Rounds \ {d} : found'[e] = found[e]
  BY DEF TypeOK
<1> QED BY <1>1, <1>2 DEF FindingsSettle, Settled

(* What no round has stored is nobody's to decide on yet. *)
LEMMA SettleCreate ==
  ASSUME TypeOK, FindingsSettle, NEW d \in Rounds, CreateFindings(d)
  PROVE  FindingsSettle'
<1> USE DEF CreateFindings, Goto, publisherVars
<1>1. \A e \in Rounds : xpc'[e] = "decide" => e = d \/ xpc[e] = "decide"
  BY DEF TypeOK
<1>2. \A f \in Findings : finding'[f] = IF f \in found[d] THEN "CANDIDATE" ELSE finding[f]
  BY DEF Candidates
<1>3. \A f \in found[d] : f \in Findings /\ finding[f] = "none"
  BY DEF TypeOK, Stored
<1>4. \A f \in Findings : Settled(f) => finding'[f] \notin {"none", "CANDIDATE"}
  BY <1>2, <1>3 DEF Settled
<1>5. \A e \in Rounds : \A f \in previous'[e] : finding'[f] \notin {"none", "CANDIDATE"}
  BY <1>4 DEF FindingsSettle, TypeOK
<1>6. \A p \in Publishers : \A f \in payload'[p] : finding'[f] \notin {"none", "CANDIDATE"}
  BY <1>4 DEF FindingsSettle, TypeOK
<1>7. \A f \in Findings : posts'[f] > 0 => finding'[f] \notin {"none", "CANDIDATE"}
  BY <1>4 DEF FindingsSettle
<1>8. \A e \in Rounds : xpc'[e] = "decide" => \A f \in found'[e] : finding'[f] = "CANDIDATE"
  BY <1>1, <1>2 DEF FindingsSettle, TypeOK
<1>9. \A e \in Rounds : xpc[e] = "decide" => found[e] \cap found[d] = {}
  BY <1>3 DEF FindingsSettle
<1>10. \A c, e \in Rounds : c # e /\ xpc'[c] = "decide" /\ xpc'[e] = "decide"
                            => found'[c] \cap found'[e] = {}
  BY <1>1, <1>9 DEF FindingsSettle
<1> QED BY <1>5, <1>6, <1>7, <1>8, <1>10 DEF FindingsSettle, Settled

LEMMA SettleFails ==
  ASSUME TypeOK, FindingsSettle, NEW d \in Rounds, ConsolidationFails(d)
  PROVE  FindingsSettle'
<1> USE DEF ConsolidationFails, Goto, publisherVars
<1>1. CASE finding' = finding
  BY <1>1, SettleStays
<1>2. CASE found[d] \cap Stored = {} /\ finding' = Candidates(d)
  <2>1. \A f \in Findings : finding'[f] = IF f \in found[d] THEN "CANDIDATE" ELSE finding[f]
    BY <1>2 DEF Candidates
  <2>2. \A f \in found[d] : f \in Findings /\ finding[f] = "none"
    BY <1>2 DEF TypeOK, Stored
  <2>3. \A f \in Findings : Settled(f) => finding'[f] \notin {"none", "CANDIDATE"}
    BY <2>1, <2>2 DEF Settled
  <2>4. \A e \in Rounds \ {d} : xpc[e] = "decide" => \A f \in found[e] : finding'[f] = "CANDIDATE"
    BY <2>1 DEF FindingsSettle, TypeOK
  <2> QED BY <2>3, <2>4, SettleRound
<1> QED BY <1>1, <1>2

(* The dispositions touch what was chosen, the verdicts the round's own. *)
LEMMA SettleDelta ==
  ASSUME TypeOK, FindingsSettle, NEW d \in Rounds, ApplyDelta(d)
  PROVE  FindingsSettle'
<1> USE DEF ApplyDelta, Goto, publisherVars
<1>1. \A f \in Findings : Disposition(f, commit[d]) \in {"KEEP", "RESOLVED", "STALE"}
  BY DEF Disposition
<1>2. \A f \in Findings : \/ finding'[f] = finding[f]
                          \/ f \in previous[d] /\ finding'[f] \in {"RESOLVED", "STALE"}
  BY <1>1
<1>3. \A f \in Findings : Settled(f) => finding'[f] \notin {"none", "CANDIDATE"}
  BY <1>2 DEF Settled
<1>4. \A e \in Rounds \ {d} : xpc[e] = "decide" => \A f \in found[e] : finding'[f] = "CANDIDATE"
  BY <1>2 DEF FindingsSettle, Settled, TypeOK
<1> QED BY <1>3, <1>4, SettleRound

LEMMA SettleVerdicts ==
  ASSUME TypeOK, FindingsSettle, NEW d \in Rounds, Decide(d) \/ DecisionFails(d)
  PROVE  FindingsSettle'
<1> USE DEF Decide, DecisionFails, Goto, publisherVars
<1>1. PICK S \in SUBSET found[d], D \in SUBSET found[d] : finding' = Verdicts(S, D)
  BY SMT
<1>2. \A f \in Findings : \/ finding'[f] = finding[f]
                          \/ f \in found[d] /\ finding'[f] \in {"SCHEDULED", "SUPPRESSED"}
  BY <1>1 DEF Verdicts
<1>3. \A f \in Findings : Settled(f) => finding'[f] \notin {"none", "CANDIDATE"}
  BY <1>2 DEF Settled
<1>4. \A e \in Rounds \ {d} : xpc[e] = "decide" => \A f \in found[e] : finding'[f] = "CANDIDATE"
  BY <1>2 DEF FindingsSettle, TypeOK
<1> QED BY <1>3, <1>4, SettleRound

LEMMA SettlePublisher ==
  ASSUME TypeOK, FindingsSettle, NEW p \in Publishers, PublishStep(p)
  PROVE  FindingsSettle'
<1> USE DEF GotoP, roundVars
<1>1. CASE Claim(p) \/ MarkReview(p)
  BY <1>1 DEF Claim, MarkReview, FindingsSettle, Settled
<1>2. CASE ReadPayload(p)
  <2>1. \A f \in Scheduled : finding[f] = "SCHEDULED"
    BY DEF Scheduled
  <2>2. \A q \in Publishers : payload'[q] = IF q = p THEN Scheduled ELSE payload[q]
    BY <1>2 DEF ReadPayload, TypeOK
  <2>3. \A q \in Publishers : \A f \in payload'[q] : finding[f] \notin {"none", "CANDIDATE"}
    BY <2>1, <2>2 DEF FindingsSettle, Settled
  <2> QED BY <1>2, <2>3 DEF ReadPayload, FindingsSettle, Settled
<1>3. CASE Post(p)
  <2>1. \A f \in Findings : posts'[f] > 0 => posts[f] > 0 \/ f \in payload[p]
    BY <1>3 DEF Post
  <2>2. \A f \in Findings : posts'[f] > 0 => finding[f] \notin {"none", "CANDIDATE"}
    BY <2>1 DEF FindingsSettle, Settled
  <2> QED BY <1>3, <2>2 DEF Post, FindingsSettle, Settled
<1>4. CASE MarkFindings(p)
  <2>1. \A f \in Findings : finding'[f] = IF f \in payload[p] THEN "PUBLISHED" ELSE finding[f]
    BY <1>4 DEF MarkFindings
  <2>2. \A f \in Findings : Settled(f) => finding'[f] \notin {"none", "CANDIDATE"}
    BY <2>1 DEF Settled
  <2>3. \A e \in Rounds : xpc[e] = "decide" => \A f \in found[e] : finding'[f] = "CANDIDATE"
    BY <2>1 DEF FindingsSettle, Settled, TypeOK
  <2>4. \A e \in Rounds : \A f \in previous[e] : finding'[f] \notin {"none", "CANDIDATE"}
    BY <2>2 DEF FindingsSettle, TypeOK
  <2>5. \A q \in Publishers : \A f \in payload[q] : finding'[f] \notin {"none", "CANDIDATE"}
    BY <2>2 DEF FindingsSettle, TypeOK
  <2>6. \A f \in Findings : posts[f] > 0 => finding'[f] \notin {"none", "CANDIDATE"}
    BY <2>2 DEF FindingsSettle
  <2> QED BY <1>4, <2>3, <2>4, <2>5, <2>6 DEF MarkFindings, FindingsSettle, Settled
<1> QED BY <1>1, <1>2, <1>3, <1>4 DEF PublishStep

LEMMA SettleStep ==
  ASSUME TypeOK, FindingsSettle, [Next]_vars
  PROVE  FindingsSettle'
<1>1. CASE UNCHANGED vars
  BY <1>1 DEF FindingsSettle, Settled, vars, roundVars, publisherVars
<1>2. ASSUME NEW e \in Rounds, RoundStep(e) PROVE FindingsSettle'
  <2>1. CASE NothingPrevious(e)
    BY <2>1, SettleStays DEF NothingPrevious, Goto, publisherVars
  <2>2. CASE EnterIterating(e)
    BY <2>2, SettleStays DEF EnterIterating, Goto, publisherVars
  <2>3. CASE RunAgents(e)
    BY <2>3, SettleStays DEF RunAgents, Goto, publisherVars
  <2>4. CASE Finish(e)
    BY <2>4, SettleStays DEF Finish, Goto, publisherVars
  <2>5. CASE RecordRead(e)
    BY <2>5, SettleStays DEF RecordRead, Goto, publisherVars
  <2>6. CASE RecordInsert(e)
    <3>1. PICK to \in {"dead", "iterating", "done"} : xpc' = [xpc EXCEPT ![e] = to]
      BY <2>6 DEF RecordInsert
    <3> QED BY <2>6, <3>1, SettleStays DEF RecordInsert, publisherVars
  <2>7. CASE BackToIterating(e)
    BY <2>7, SettleStays DEF BackToIterating, Goto, publisherVars
  <2> QED BY <1>2, <2>1, <2>2, <2>3, <2>4, <2>5, <2>6, <2>7, SettleStart, SettleGraph, SettleCreate,
             SettleFails, SettleDelta, SettleVerdicts DEF RoundStep
<1> QED BY <1>1, <1>2, SettlePublisher DEF Next

-----------------------------------------------------------------------------
(* Claims. *)

LEMMA ClaimsInit ==
  ASSUME Init
  PROVE  ClaimsAreExclusive
<1>1. Claiming = {} /\ \A p \in Publishers : ppc[p] = "idle"
  BY DEF Init, Claiming
<1>2. \A f \in Findings : posts[f] = IF finding[f] = "PUBLISHED" THEN 1 ELSE 0
  BY DEF Init
<1>3. \A f \in Findings : posts[f] <= 1 /\ (posts[f] > 0 => finding[f] = "PUBLISHED")
  BY <1>2
<1> QED BY <1>1, <1>3 DEF ClaimsAreExclusive

(* A round's step: it writes no status over a claim, or it disturbs; and it
   schedules nothing that has been posted. *)
LEMMA ClaimsRound ==
  ASSUME TypeOK, ClaimsAreExclusive, ppc' = ppc, payload' = payload, posts' = posts,
         \/ status' = status /\ disturbed' = disturbed
         \/ disturbed' = (disturbed \/ (status = "PUBLISHING" /\ Claiming # {})),
         \A f \in Findings : finding'[f] = "SCHEDULED" => finding[f] = "SCHEDULED" \/ posts[f] = 0
  PROVE  ClaimsAreExclusive'
<1> SUFFICES ASSUME ~ disturbed'
             PROVE  /\ Claiming' # {} => status' = "PUBLISHING"
                    /\ \A p, q \in Claiming' : p = q
                    /\ \A f \in Findings : posts'[f] <= 1
                    /\ \A f \in Findings : finding'[f] = "SCHEDULED" /\ posts'[f] > 0 =>
                         \E p \in Publishers : ppc'[p] = "posted" /\ f \in payload'[p]
                    /\ \A p \in Publishers : ppc'[p] = "post" => \A f \in payload'[p] : posts'[f] = 0
  BY DEF ClaimsAreExclusive
<1>1. ~ disturbed /\ (status' = status \/ ~ (status = "PUBLISHING" /\ Claiming # {}))
  <2>1. CASE status' = status /\ disturbed' = disturbed
    BY <2>1
  <2>2. CASE disturbed' = (disturbed \/ (status = "PUBLISHING" /\ Claiming # {}))
    <3>1. disturbed' <=> (disturbed \/ (status = "PUBLISHING" /\ Claiming # {}))
      BY <2>2, Zenon
    <3> QED BY <3>1
  <2> QED BY <2>1, <2>2
<1>2. Claiming' = Claiming
  BY DEF Claiming
<1>3. Claiming' # {} => status' = "PUBLISHING"
  BY <1>1, <1>2 DEF ClaimsAreExclusive
<1>4. ASSUME NEW f \in Findings, finding'[f] = "SCHEDULED", posts'[f] > 0
      PROVE  \E p \in Publishers : ppc'[p] = "posted" /\ f \in payload'[p]
  <2>1. finding[f] = "SCHEDULED" /\ posts[f] > 0
    BY <1>4
  <2> QED BY <1>1, <2>1 DEF ClaimsAreExclusive
<1> QED BY <1>1, <1>2, <1>3, <1>4 DEF ClaimsAreExclusive

(* What a round schedules it has just decided on: it has not been posted. *)
LEMMA ScheduledIsNew ==
  ASSUME TypeOK, FindingsSettle, NEW e \in Rounds, RoundStep(e)
  PROVE  \A f \in Findings : finding'[f] = "SCHEDULED" => finding[f] = "SCHEDULED" \/ posts[f] = 0
<1>1. CASE finding' = finding
  BY <1>1
<1>2. CASE ApplyDelta(e)
  <2>1. \A f \in Findings : Disposition(f, commit[e]) \in {"KEEP", "RESOLVED", "STALE"}
    BY DEF Disposition
  <2> QED BY <1>2, <2>1 DEF ApplyDelta
<1>3. CASE finding' = Candidates(e)
  BY <1>3 DEF Candidates
<1>4. CASE Decide(e) \/ DecisionFails(e)
  <2>1. PICK S \in SUBSET found[e], D \in SUBSET found[e] : finding' = Verdicts(S, D)
    BY <1>4, SMT DEF Decide, DecisionFails
  <2>2. \A f \in found[e] : f \in Findings /\ ~ Settled(f)
    BY <1>4 DEF Decide, DecisionFails, Goto, FindingsSettle, Settled, TypeOK
  <2>3. \A f \in found[e] : posts[f] = 0
    BY <2>2 DEF FindingsSettle, TypeOK
  <2> QED BY <2>1, <2>3 DEF Verdicts
<1> QED BY <1>1, <1>2, <1>3, <1>4 DEF RoundStep, Start, NothingPrevious, EnterIterating, RunAgents,
           Graph, CreateFindings, ConsolidationFails, Finish, RecordRead, RecordInsert,
           BackToIterating

LEMMA ClaimsPublisher ==
  ASSUME TypeOK, ClaimsAreExclusive, NEW p \in Publishers, PublishStep(p)
  PROVE  ClaimsAreExclusive'
<1> USE DEF GotoP, roundVars
<1>1. disturbed' = disturbed
  BY DEF PublishStep, Claim, ReadPayload, Post, MarkFindings, MarkReview
<1> SUFFICES ASSUME ~ disturbed
             PROVE  /\ Claiming' # {} => status' = "PUBLISHING"
                    /\ \A o, q \in Claiming' : o = q
                    /\ \A f \in Findings : posts'[f] <= 1
                    /\ \A f \in Findings : finding'[f] = "SCHEDULED" /\ posts'[f] > 0 =>
                         \E q \in Publishers : ppc'[q] = "posted" /\ f \in payload'[q]
                    /\ \A q \in Publishers : ppc'[q] = "post" => \A f \in payload'[q] : posts'[f] = 0
  BY <1>1 DEF ClaimsAreExclusive
<1>2. /\ Claiming # {} => status = "PUBLISHING"
      /\ \A o, q \in Publishers : ppc[o] # "idle" /\ ppc[q] # "idle" => o = q
      /\ \A f \in Findings : posts[f] <= 1 /\ posts[f] \in Nat
      /\ \A f \in Findings : finding[f] = "SCHEDULED" /\ posts[f] > 0 =>
           \E q \in Publishers : ppc[q] = "posted" /\ f \in payload[q]
      /\ \A q \in Publishers : ppc[q] = "post" => \A f \in payload[q] : posts[f] = 0
  BY DEF ClaimsAreExclusive, Claiming, TypeOK
<1>3. CASE Claim(p)
  <2>1. Claiming = {} /\ \A q \in Publishers : ppc[q] = "idle"
    BY <1>2, <1>3 DEF Claim, Claiming
  <2>2. \A q \in Publishers : ppc'[q] = IF q = p THEN "claimed" ELSE "idle"
    BY <1>3, <2>1 DEF Claim, TypeOK
  <2>3. Claiming' = {p} /\ status' = "PUBLISHING"
    BY <1>3, <2>2 DEF Claim, Claiming
  <2>4. \A f \in Findings : ~ (finding[f] = "SCHEDULED" /\ posts[f] > 0)
    BY <1>2, <2>1
  <2> QED BY <1>2, <1>3, <2>2, <2>3, <2>4 DEF Claim
<1>4. ASSUME ppc[p] # "idle"
      PROVE  /\ status = "PUBLISHING"
             /\ \A q \in Publishers \ {p} : ppc[q] = "idle"
  BY <1>2, <1>4 DEF Claiming
<1>5. CASE ReadPayload(p)
  <2>1. ppc[p] = "claimed" /\ \A q \in Publishers \ {p} : ppc[q] = "idle"
    BY <1>4, <1>5 DEF ReadPayload
  <2>2. \A f \in Findings : finding[f] = "SCHEDULED" => posts[f] = 0
    BY <1>2, <2>1
  <2>3. PICK to \in {"idle", "post"} : ppc' = [ppc EXCEPT ![p] = to] /\ (to = "post" => status' = status)
    BY <1>5 DEF ReadPayload
  <2>4. \A q \in Publishers : ppc'[q] = IF q = p THEN to ELSE "idle"
    BY <2>1, <2>3 DEF TypeOK
  <2>5. \A q \in Claiming' : q = p /\ to = "post"
    BY <2>4 DEF Claiming
  <2>6. payload'[p] = Scheduled
    BY <1>5 DEF ReadPayload, TypeOK
  <2>7. \A f \in Scheduled : posts[f] = 0
    BY <2>2 DEF Scheduled
  <2>8. finding' = finding /\ posts' = posts
    BY <1>5 DEF ReadPayload
  <2>9. status = "PUBLISHING"
    BY <1>4, <2>1
  <2>10. Claiming' # {} => status' = "PUBLISHING"
    BY <2>3, <2>5, <2>9
  <2> QED BY <1>2, <2>2, <2>4, <2>5, <2>6, <2>7, <2>8, <2>10
<1>6. CASE Post(p)
  <2>1. ppc[p] = "post" /\ status = "PUBLISHING" /\ \A q \in Publishers \ {p} : ppc[q] = "idle"
    BY <1>4, <1>6 DEF Post
  <2>2. \A q \in Publishers : ppc'[q] = IF q = p THEN "posted" ELSE "idle"
    BY <1>6, <2>1 DEF Post, TypeOK
  <2>3. \A f \in Findings : posts'[f] = IF f \in payload[p] THEN posts[f] + 1 ELSE posts[f]
    BY <1>6 DEF Post
  <2>4. \A f \in Findings : f \in payload[p] => posts[f] = 0
    BY <1>2, <2>1
  <2>5. \A f \in Findings : finding[f] = "SCHEDULED" => posts[f] = 0
    BY <1>2, <2>1
  <2>6. \A f \in Findings : posts'[f] <= 1
    BY <1>2, <2>3, <2>4
  <2>7. \A f \in Findings : finding[f] = "SCHEDULED" /\ posts'[f] > 0 => f \in payload[p]
    BY <2>3, <2>5
  <2>8. \A q \in Claiming' : q = p
    BY <2>2 DEF Claiming
  <2> QED BY <1>6, <2>1, <2>2, <2>6, <2>7, <2>8 DEF Post
<1>7. CASE MarkFindings(p)
  <2>1. ppc[p] = "posted" /\ status = "PUBLISHING" /\ \A q \in Publishers \ {p} : ppc[q] = "idle"
    BY <1>4, <1>7 DEF MarkFindings
  <2>2. \A q \in Publishers : ppc'[q] = IF q = p THEN "marked" ELSE "idle"
    BY <1>7, <2>1 DEF MarkFindings, TypeOK
  <2>3. \A f \in Findings : finding[f] = "SCHEDULED" /\ posts[f] > 0 => f \in payload[p]
    BY <1>2, <2>1
  <2>4. \A f \in Findings : finding'[f] = IF f \in payload[p] THEN "PUBLISHED" ELSE finding[f]
    BY <1>7 DEF MarkFindings
  <2>5. \A f \in Findings : ~ (finding'[f] = "SCHEDULED" /\ posts[f] > 0)
    BY <2>3, <2>4
  <2>6. \A q \in Claiming' : q = p
    BY <2>2 DEF Claiming
  <2> QED BY <1>2, <1>7, <2>1, <2>2, <2>5, <2>6 DEF MarkFindings
<1>8. CASE MarkReview(p)
  <2>1. ppc[p] = "marked" /\ \A q \in Publishers \ {p} : ppc[q] = "idle"
    BY <1>4, <1>8 DEF MarkReview
  <2>2. \A q \in Publishers : ppc'[q] = "idle"
    BY <1>8, <2>1 DEF MarkReview, TypeOK
  <2>3. Claiming' = {}
    BY <2>2 DEF Claiming
  <2>4. \A f \in Findings : ~ (finding[f] = "SCHEDULED" /\ posts[f] > 0)
    BY <1>2, <2>1
  <2> QED BY <1>2, <1>8, <2>2, <2>3, <2>4 DEF MarkReview
<1> QED BY <1>3, <1>5, <1>6, <1>7, <1>8 DEF PublishStep

LEMMA ClaimsStep ==
  ASSUME TypeOK, FindingsSettle, ClaimsAreExclusive, [Next]_vars
  PROVE  ClaimsAreExclusive'
<1>1. CASE UNCHANGED vars
  BY <1>1 DEF ClaimsAreExclusive, Claiming, vars, publisherVars
<1>2. ASSUME NEW e \in Rounds, RoundStep(e) PROVE ClaimsAreExclusive'
  <2>1. ppc' = ppc /\ payload' = payload /\ posts' = posts
    BY <1>2 DEF RoundStep, Start, NothingPrevious, EnterIterating, ApplyDelta, RunAgents, Graph,
       CreateFindings, ConsolidationFails, Decide, DecisionFails, Finish, RecordRead, RecordInsert,
       BackToIterating, publisherVars
  <2>2. \/ status' = status /\ disturbed' = disturbed
        \/ disturbed' = (disturbed \/ (status = "PUBLISHING" /\ Claiming # {}))
    BY <1>2 DEF RoundStep, Start, NothingPrevious, EnterIterating, ApplyDelta, RunAgents, Graph,
       CreateFindings, ConsolidationFails, Decide, DecisionFails, Finish, RecordRead, RecordInsert,
       BackToIterating, Transition
  <2> QED BY <1>2, <2>1, <2>2, ScheduledIsNew, ClaimsRound
<1> QED BY <1>1, <1>2, ClaimsPublisher DEF Next

-----------------------------------------------------------------------------
IInv == TypeOK /\ RowsAreCounted /\ FindingsSettle /\ ClaimsAreExclusive

LEMMA Inductive == Spec => []IInv
<1>1. Init => IInv
  BY TypeInit, RowsInit, SettleInit, ClaimsInit DEF IInv
<1>2. IInv /\ [Next]_vars => IInv'
  BY TypeStep, RowsStep, SettleStep, ClaimsStep DEF IInv
<1> QED BY <1>1, <1>2, PTL DEF Spec

(* However many rounds and publishers there are, a claim is exclusive and a
   finding is posted once, until a round writes a status over a claim. *)
THEOREM PostsOnceUndisturbed == Spec => []PostedTwiceOnlyIfDisturbed
<1>1. ASSUME IInv PROVE PostedTwiceOnlyIfDisturbed
  <2>1. ASSUME ~ disturbed PROVE Cardinality(Claiming) <= 1
    <3>1. CASE Claiming = {}
      BY <3>1, FS_EmptySet
    <3>2. CASE Claiming # {}
      <4>1. PICK p : p \in Claiming
        BY <3>2
      <4>2. Claiming = {p}
        BY <1>1, <2>1, <4>1 DEF IInv, ClaimsAreExclusive
      <4>3. Cardinality({p}) = 1
        BY FS_Singleton
      <4> QED BY <4>2, <4>3
    <3> QED BY <3>1, <3>2
  <2>2. \A f \in Findings : posts[f] > 1 => disturbed
    BY <1>1 DEF IInv, TypeOK, ClaimsAreExclusive
  <2> QED BY <2>1, <2>2 DEF PostedTwiceOnlyIfDisturbed
<1> QED BY <1>1, Inductive, PTL

(* A disposition lasts: no later round takes it back, whatever it finds; a
   publisher does when it had read the finding before. *)
THEOREM DispositionsAlwaysLast == Spec => DispositionsLast
<1> DEFINE Lasts == \A f \in Findings : finding[f] \in {"RESOLVED", "STALE"} =>
                      \/ finding'[f] \in {"RESOLVED", "STALE"}
                      \/ \E p \in Publishers : ppc[p] = "posted" /\ f \in payload[p]
<1>1. ASSUME IInv, NEW e \in Rounds, RoundStep(e) PROVE Lasts
  <2>1. CASE finding' = finding
    BY <2>1
  <2>2. CASE ApplyDelta(e)
    <3>1. \A f \in Findings : Disposition(f, commit[e]) \in {"KEEP", "RESOLVED", "STALE"}
      BY DEF Disposition
    <3> QED BY <2>2, <3>1 DEF ApplyDelta
  <2>3. CASE found[e] \cap Stored = {} /\ finding' = Candidates(e)
    BY <2>3 DEF Candidates, Stored
  <2>4. CASE Decide(e) \/ DecisionFails(e)
    <3>1. PICK S \in SUBSET found[e], D \in SUBSET found[e] : finding' = Verdicts(S, D)
      BY <2>4, SMT DEF Decide, DecisionFails
    <3>2. \A f \in found[e] : finding[f] = "CANDIDATE"
      BY <1>1, <2>4 DEF Decide, DecisionFails, Goto, IInv, FindingsSettle
    <3> QED BY <3>1, <3>2 DEF Verdicts
  <2> QED BY <1>1, <2>1, <2>2, <2>3, <2>4 DEF RoundStep, Start, NothingPrevious, EnterIterating,
             RunAgents, Graph, CreateFindings, ConsolidationFails, Finish, RecordRead, RecordInsert,
             BackToIterating
<1>2. ASSUME NEW p \in Publishers, PublishStep(p) PROVE Lasts
  <2>1. CASE MarkFindings(p)
    BY <2>1 DEF MarkFindings, GotoP
  <2>2. CASE finding' = finding
    BY <2>2
  <2> QED BY <1>2, <2>1, <2>2 DEF PublishStep, Claim, ReadPayload, Post, MarkReview
<1>3. IInv /\ [Next]_vars => [Lasts]_vars
  <2> HIDE DEF Lasts
  <2> QED BY <1>1, <1>2 DEF Next
<1> QED BY <1>3, Inductive, PTL DEF Spec, DispositionsLast

-----------------------------------------------------------------------------
(* The plan and the commit. *)

(* A window of the plan meets the lines of every finding that its commit
   changes, as far as the lines before and after it are the same. *)
LEMMA ChangedIsTouched ==
  ASSUME NEW f \in Findings, NEW c \in Commits, Changed(f, c)
  PROVE  Touched(f, c[Region[f].path])
<1> DEFINE file == c[Region[f].path]
<1>1. /\ Region[f].path \in DOMAIN c /\ Region[f].start # None
      /\ \E i \in 1 .. Len(file.hunks) : ChangedBy(f, file.hunks[i]) /\ Unmoved(file, i)
  BY DEF Changed
<1>2. PICK i \in 1 .. Len(file.hunks) : ChangedBy(f, file.hunks[i]) /\ Unmoved(file, i)
  BY <1>1
<1>3. Len(file.hunks) \in Nat
  BY <1>1, DiffAssumption
<1> DEFINE h == file.hunks[i]
           w == Window(h)
<1>4. {h.old, h.oldCount, h.new, h.newCount} \subseteq Nat
  BY <1>1, <1>2, DiffAssumption
<1>5. \A j \in 1 .. i : file.hunks[j].oldCount = file.hunks[j].newCount
  BY <1>2 DEF Unmoved
<1>6. h.new = h.old
  BY <1>1, <1>2, <1>5, DiffAssumption
<1>7. h.oldCount = h.newCount
  BY <1>2, <1>3, <1>5
<1>8. h.oldCount > 0 /\ h.old <= Region[f].end /\ Region[f].start <= h.old + h.oldCount - 1
  BY <1>2 DEF ChangedBy
<1>9. w.start = h.old /\ w.end = h.old + h.oldCount - 1
  BY <1>6, <1>7, <1>8 DEF Window
<1>10. w \in Windows(file)
  <2>1. i \in Int /\ i <= MaxSlices /\ MaxSlices \in Nat
    BY <1>2, <1>3, IterationAssumption DEF Unmoved
  <2>2. i \in 1 .. Shown(file)
    BY <1>2, <1>3, <2>1 DEF Shown
  <2> QED BY <2>2 DEF Windows
<1>11. Overlaps(f, w)
  <2>1. {Region[f].start, Region[f].end} \subseteq Nat /\ LineGap \in Nat
    BY <1>1, IterationAssumption
  <2> HIDE DEF h, w
  <2>2. h.old \in Nat /\ h.oldCount \in Nat
    BY <1>4
  <2> QED BY <1>8, <1>9, <2>1, <2>2 DEF Overlaps
<1> QED BY <1>10, <1>11 DEF Touched

(* So plan_review_delta does not keep it. *)
LEMMA ChangedIsDisposed ==
  ASSUME NEW f \in Findings, NEW c \in Commits, Changed(f, c)
  PROVE  Disposition(f, c) \in {"STALE", "RESOLVED"}
<1>1. Region[f].path \in DOMAIN c /\ Touched(f, c[Region[f].path])
  BY ChangedIsTouched DEF Changed
<1> QED BY <1>1 DEF Disposition

(* The plan re-examines what the commit changed, in any diff: the finding is
   stale or resolved when apply_iteration_delta has stored the plan. *)
THEOREM ChangedAlwaysReexamined == Spec => ChangedIsReexamined
<1> DEFINE Reexamined ==
      \A e \in Rounds : xpc[e] = "delta" /\ xpc'[e] = "run" =>
        \A f \in previous[e] : Changed(f, commit[e]) => finding'[f] \in {"STALE", "RESOLVED"}
<1>1. ASSUME TypeOK, NEW d \in Rounds, RoundStep(d),
             NEW e \in Rounds, xpc[e] = "delta", xpc'[e] = "run",
             NEW f \in previous[e], Changed(f, commit[e])
      PROVE  finding'[f] \in {"STALE", "RESOLVED"}
  <2>1. d = e
    BY <1>1 DEF TypeOK, RoundStep, Start, NothingPrevious, EnterIterating, ApplyDelta, RunAgents,
       Graph, CreateFindings, ConsolidationFails, Decide, DecisionFails, Finish, RecordRead,
       RecordInsert, BackToIterating, Goto
  <2>2. ApplyDelta(e)
    BY <1>1, <2>1 DEF TypeOK, RoundStep, Start, NothingPrevious, EnterIterating, RunAgents,
       Graph, CreateFindings, ConsolidationFails, Decide, DecisionFails, Finish, RecordRead,
       RecordInsert, BackToIterating, Goto
  <2>3. commit[e] \in Commits /\ f \in Findings
    <3>1. f \in Findings /\ commit[e] \in Commits \cup {<< >>}
      BY <1>1 DEF TypeOK
    <3>2. commit[e] # << >>
      BY <1>1 DEF Changed
    <3> QED BY <3>1, <3>2
  <2>4. Disposition(f, commit[e]) \in {"STALE", "RESOLVED"}
    BY <1>1, <2>3, ChangedIsDisposed
  <2> QED BY <1>1, <2>2, <2>3, <2>4 DEF ApplyDelta
<1>2. ASSUME NEW p \in Publishers, PublishStep(p) PROVE UNCHANGED xpc
  BY <1>2 DEF PublishStep, Claim, ReadPayload, Post, MarkFindings, MarkReview, roundVars
<1>3. TypeOK /\ [Next]_vars => [Reexamined]_vars
  BY <1>1, <1>2 DEF Next
<1>4. Spec => []TypeOK
  BY IterationTypeCorrect
<1> QED BY <1>3, <1>4, PTL DEF Spec, ChangedIsReexamined
=============================================================================
