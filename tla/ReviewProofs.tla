----------------------------- MODULE ReviewProofs -----------------------------
(***************************************************************************)
(* What a review leaves in its own row, and what it finds in those of its  *)
(* repository: theorems about ReviewRun, for any number of executions,     *)
(* publishers, agents and findings, and any number of failures, and about  *)
(* RepositoryMemory, for any events, requests, settings and patches.       *)
(***************************************************************************)
EXTENDS ReviewRun, RepositoryMemory, SequenceTheorems, TLAPS

-----------------------------------------------------------------------------
(* The run *)

LEMMA Bounds == MaxRuns \in Nat /\ MaxFaults \in Nat
BY RunAssumption

LEMMA ResultIsTyped ==
  \A e : Result(e) \in {"FAILED", "DECIDING", "COMPLETED"}
BY DEF Result

LEMMA TaskFields ==
  \A e, k, s : /\ task(e, k, s).run = e
               /\ task(e, k, s).agent = k
               /\ task(e, k, s).status = s
BY DEF task

(* Groups are stored for the findings of one execution only. *)
LEMMA GroupedFacts ==
  ASSUME NEW F, NEW g \in Grouped(F)
  PROVE  /\ g \in [Candidates -> Candidates]
         /\ \A f \in Candidates : f \in F => g[f] \in F /\ g[g[f]] = g[f]
         /\ \A f \in Candidates : f \notin F => g[f] = group[f]
BY DEF Grouped

LEMMA TypeInit == Init => TypeOK
BY Bounds DEF Init, TypeOK, ReviewStatus, FindingStatus, TaskRow, Running

(* The actions of an execution and of a publisher keep the types. *)
LEMMA RunKeepsTypes ==
  ASSUME TypeOK, NEW e \in Executions, RunStep(e) \/ RunFails(e)
  PROVE  TypeOK'
<1> USE Bounds DEF TypeOK, ReviewStatus, FindingStatus, Running, Executions, brokerVars,
      agentVars, publisherVars, runVars, Goto, TakeMessage, Returns, Errs, Fault
<1>1. CASE Start(e)
  BY <1>1 DEF Start
<1>2. CASE FailEarly(e)
  BY <1>2 DEF FailEarly
<1>3. CASE RunAgents(e)
  BY <1>3 DEF RunAgents
<1>4. CASE Graph(e)
  BY <1>4 DEF Graph, FoundBy
<1>5. CASE WriteTasks(e)
  <2>1. {task(e, k, verdict(e, k)) : k \in Agents} \subseteq TaskRow
    BY DEF task, TaskRow, verdict
  <2> QED BY <1>5, <2>1 DEF WriteTasks
<1>6. CASE NothingFound(e)
  BY <1>6 DEF NothingFound
<1>7. CASE CreateFindings(e)
  BY <1>7 DEF CreateFindings, Insert
<1>8. CASE FindingsConflict(e)
  BY <1>8 DEF FindingsConflict
<1>9. CASE StoreGroups(e)
  BY <1>9, GroupedFacts DEF StoreGroups, AfterGroups, Representatives
<1>10. ASSUME NEW f \in Candidates, ApplyDecision(e, f) PROVE TypeOK'
  BY <1>10 DEF ApplyDecision
<1>11. CASE RecordDecision(e)
  BY <1>11 DEF RecordDecision
<1>12. CASE Finish(e)
  BY <1>12, ResultIsTyped DEF Finish
<1>13. CASE ScopeRaises(e)
  BY <1>13 DEF ScopeRaises
<1>14. CASE ConsolidationFails(e)
  <2>1. group' \in [Candidates -> Candidates]
    BY <1>14, GroupedFacts DEF ConsolidationFails
  <2> QED BY <1>14, <2>1 DEF ConsolidationFails
<1>15. CASE DecisionFails(e)
  BY <1>15 DEF DecisionFails
<1>16. CASE Die(e)
  BY <1>16 DEF Die
<1> QED
  BY <1>1, <1>2, <1>3, <1>4, <1>5, <1>6, <1>7, <1>8, <1>9, <1>10, <1>11, <1>12, <1>13,
     <1>14, <1>15, <1>16 DEF RunStep, RunFails

LEMMA PublisherKeepsTypes ==
  ASSUME TypeOK, NEW p \in Publishers, PublishStep(p) \/ Release(p)
  PROVE  TypeOK'
<1> USE Bounds DEF TypeOK, ReviewStatus, FindingStatus, brokerVars, runVars, agentVars, GotoP, Fault
<1>1. CASE Claim(p)
  BY <1>1 DEF Claim
<1>2. CASE ReadPayload(p)
  BY <1>2 DEF ReadPayload, Scheduled
<1>3. CASE Post(p)
  BY <1>3 DEF Post
<1>4. CASE MarkFindings(p)
  BY <1>4 DEF MarkFindings
<1>5. CASE MarkReview(p)
  BY <1>5 DEF MarkReview
<1>6. CASE Release(p)
  BY <1>6 DEF Release
<1> QED BY <1>1, <1>2, <1>3, <1>4, <1>5, <1>6 DEF PublishStep

LEMMA TypeStep == TypeOK /\ [Next]_vars => TypeOK'
<1> SUFFICES ASSUME TypeOK, [Next]_vars PROVE TypeOK'
  OBVIOUS
<1>1. CASE UNCHANGED vars
  BY <1>1 DEF vars, brokerVars, runVars, agentVars, publisherVars, TypeOK
<1>2. CASE Next
  BY <1>2, RunKeepsTypes, PublisherKeepsTypes DEF Next
<1> QED BY <1>1, <1>2

(* TypeOK: every reachable state is well typed. *)
THEOREM RunTypeCorrect == Spec => []TypeOK
<1> QED BY TypeInit, TypeStep, PTL DEF Spec

-----------------------------------------------------------------------------
(* The invariant holds initially. *)

LEMMA InvariantInit == Init => RunInvariant
BY TaskFields DEF Init, RunInvariant, FindingsHaveOneOwner, Owns, GroupsAreStored, Chosen, Stored,
   DecisionsProgress, StagesAgree, PayloadIsChosen, TaskRowsAreTrue

-----------------------------------------------------------------------------
(* Actions of an execution that write neither findings nor groups. *)

LEMMA QuietStepKeeps ==
  ASSUME TypeOK, RunInvariant, NEW e \in Executions,
         \/ Start(e) \/ FailEarly(e) \/ ScopeRaises(e) \/ RunAgents(e) \/ Graph(e)
         \/ NothingFound(e) \/ FindingsConflict(e) \/ RecordDecision(e) \/ DecisionFails(e)
         \/ Finish(e) \/ Die(e)
  PROVE  RunInvariant'
<1> USE DEF RunInvariant, TypeOK, Start, FailEarly, ScopeRaises, RunAgents, Graph, NothingFound,
      FindingsConflict, RecordDecision, DecisionFails, Finish, Die, Running, Goto, TakeMessage,
      Returns, Errs, Fault, brokerVars, agentVars, publisherVars, runVars
<1>1. FindingsHaveOneOwner'
  BY DEF FindingsHaveOneOwner, Owns, Stored, StagesAgree
<1>2. GroupsAreStored'
  BY DEF GroupsAreStored, Chosen, Stored
<1>3. DecisionsProgress'
  BY DEF DecisionsProgress, Undecided, HalfDecided, AllDecided, Decided, StagesAgree
<1>4. StagesAgree'
  BY DEF StagesAgree, Result
<1>5. PayloadIsChosen'
  BY DEF PayloadIsChosen, Chosen
<1>6. TaskRowsAreTrue'
  <2> SUFFICES ASSUME NEW d \in Executions, NEW k \in Agents, NEW s \in {"SUCCESS", "FAILED"}
               PROVE  TaskRowsAreTrue!(d)!(k)!(s)'
    BY DEF TaskRowsAreTrue
  <2>1. UNCHANGED <<tasks, task(d, k, s)>>
    BY DEF task
  <2>2. xpc'[d] \in {"unborn", "processing", "agents", "tasks"} =>
          xpc[d] \in {"unborn", "processing", "agents", "tasks"}
    OBVIOUS
  <2>3. \/ xpc'[d] \in {"findings", "groups", "decide", "status"}
        \/ outcome'[d] \in {"COMPLETED", "DECIDING"}
        => /\ \/ xpc[d] \in {"findings", "groups", "decide", "status"}
              \/ outcome[d] \in {"COMPLETED", "DECIDING"}
           /\ verdict(d, k)' = verdict(d, k)
    BY DEF verdict, StagesAgree
  <2> HIDE DEF Start, FailEarly, ScopeRaises, RunAgents, Graph, NothingFound, FindingsConflict,
       RecordDecision, DecisionFails, Finish, Die
  <2> QED BY <2>1, <2>2, <2>3 DEF TaskRowsAreTrue
<1> QED BY <1>1, <1>2, <1>3, <1>4, <1>5, <1>6

-----------------------------------------------------------------------------
(* Task rows. *)

LEMMA WriteTasksKeeps ==
  ASSUME TypeOK, RunInvariant, NEW e \in Executions, WriteTasks(e)
  PROVE  RunInvariant'
<1> USE DEF WriteTasks, RunInvariant, TypeOK, Goto, TakeMessage, Returns, Errs, Fault, brokerVars, agentVars, publisherVars, runVars
<1>1. FindingsHaveOneOwner' /\ GroupsAreStored'
  BY DEF FindingsHaveOneOwner, Owns, Stored, GroupsAreStored, Chosen
<1>2. DecisionsProgress'
  BY DEF DecisionsProgress, Undecided, HalfDecided, AllDecided, Decided
<1>3. StagesAgree' /\ PayloadIsChosen'
  BY DEF StagesAgree, Result, PayloadIsChosen, Chosen
<1>4. TaskRowsAreTrue'
  <2> SUFFICES ASSUME NEW d \in Executions, NEW k \in Agents, NEW s \in {"SUCCESS", "FAILED"}
               PROVE  TaskRowsAreTrue!(d)!(k)!(s)'
    BY DEF TaskRowsAreTrue
  <2>1. task(d, k, s) \in tasks' <=>
          task(d, k, s) \in tasks \/ (d = e /\ s = verdict(e, k))
    <3>1. ASSUME NEW j \in Agents, task(d, k, s) = task(e, j, verdict(e, j))
          PROVE  d = e /\ s = verdict(e, k)
      BY <3>1, TaskFields
    <3> QED BY <3>1
  <2>2. verdict(d, k)' = verdict(d, k)
    BY DEF verdict
  <2> QED BY <2>1, <2>2 DEF TaskRowsAreTrue
<1> QED BY <1>1, <1>2, <1>3, <1>4

-----------------------------------------------------------------------------
(* Actions that write findings or groups. *)

LEMMA CreateFindingsKeeps ==
  ASSUME TypeOK, RunInvariant, NEW e \in Executions, CreateFindings(e)
  PROVE  RunInvariant'
<1> USE DEF CreateFindings, Insert, RunInvariant, TypeOK, Goto, TakeMessage, Returns, Errs, Fault, brokerVars, agentVars, publisherVars, runVars
<1>1. /\ \A f \in Candidates : f \in found[e] => finding[f] = "none" /\ finding'[f] = "CANDIDATE"
      /\ \A f \in Candidates : f \notin found[e] => finding'[f] = finding[f]
      /\ Stored' = Stored \cup found[e]
      /\ found[e] \subseteq Candidates
  BY DEF Stored
<1>2. FindingsHaveOneOwner'
  BY <1>1 DEF FindingsHaveOneOwner, Owns, GroupsAreStored
<1>3. GroupsAreStored' /\ PayloadIsChosen'
  BY <1>1 DEF GroupsAreStored, PayloadIsChosen, Chosen
<1>4. \A d \in Executions : Owns(d) => found[d] \cap found[e] = {}
  BY <1>1 DEF FindingsHaveOneOwner, Stored
<1>5. DecisionsProgress'
  BY <1>1, <1>4 DEF DecisionsProgress, Undecided, HalfDecided, AllDecided, Decided, Owns, StagesAgree
<1>6. StagesAgree' /\ TaskRowsAreTrue'
  BY DEF StagesAgree, Result, TaskRowsAreTrue, verdict, task
<1> QED BY <1>2, <1>3, <1>5, <1>6

LEMMA StoreGroupsKeeps ==
  ASSUME TypeOK, RunInvariant, NEW e \in Executions, StoreGroups(e)
  PROVE  RunInvariant'
<1> USE DEF StoreGroups, AfterGroups, RunInvariant, TypeOK, Goto, TakeMessage, Returns, Errs, Fault, brokerVars, agentVars, publisherVars, runVars
<1>1. /\ group' \in [Candidates -> Candidates]
      /\ \A f \in Candidates : f \in found[e] =>
           group'[f] \in found[e] /\ group'[group'[f]] = group'[f]
      /\ \A f \in Candidates : f \notin found[e] => group'[f] = group[f]
  BY GroupedFacts
<1>2. Undecided(e) /\ Owns(e) /\ found[e] \subseteq Stored
  BY DEF DecisionsProgress, Owns, FindingsHaveOneOwner
<1>3. FindingsHaveOneOwner'
  BY <1>1, <1>2 DEF FindingsHaveOneOwner, Owns, Stored, StagesAgree
<1>4. GroupsAreStored' /\ PayloadIsChosen'
  BY <1>1, <1>2 DEF GroupsAreStored, PayloadIsChosen, Chosen, Undecided, Stored
<1>5. DecisionsProgress'
  BY <1>1, <1>2 DEF DecisionsProgress, Undecided, HalfDecided, AllDecided, Decided, Owns,
     FindingsHaveOneOwner, Representatives
<1>6. StagesAgree' /\ TaskRowsAreTrue'
  BY DEF StagesAgree, Result, TaskRowsAreTrue, verdict, task
<1> QED BY <1>3, <1>4, <1>5, <1>6

LEMMA ConsolidationFailsKeeps ==
  ASSUME TypeOK, RunInvariant, NEW e \in Executions, ConsolidationFails(e)
  PROVE  RunInvariant'
<1> USE DEF ConsolidationFails, RunInvariant, TypeOK, Goto, TakeMessage, Returns, Errs, Fault, brokerVars, agentVars, publisherVars, runVars
<1>1. /\ group' \in [Candidates -> Candidates]
      /\ \A f \in Candidates : f \notin found[e] => group'[f] = group[f]
      /\ \/ UNCHANGED group
         \/ /\ xpc[e] = "groups"
            /\ \A f \in Candidates : f \in found[e] => group'[f] \in found[e]
  BY GroupedFacts
<1>2. xpc[e] = "groups" => Undecided(e) /\ Owns(e) /\ found[e] \subseteq Stored
  BY DEF DecisionsProgress, Owns, FindingsHaveOneOwner
<1>3. FindingsHaveOneOwner'
  BY <1>1, <1>2 DEF FindingsHaveOneOwner, Owns, Stored, StagesAgree
<1>4. GroupsAreStored' /\ PayloadIsChosen'
  BY <1>1, <1>2 DEF GroupsAreStored, PayloadIsChosen, Chosen, Undecided, Stored
<1>5. DecisionsProgress'
  BY <1>1, <1>2 DEF DecisionsProgress, Undecided, HalfDecided, AllDecided, Decided, Owns,
     FindingsHaveOneOwner
<1>6. StagesAgree' /\ TaskRowsAreTrue'
  BY DEF StagesAgree, Result, TaskRowsAreTrue, verdict, task
<1> QED BY <1>3, <1>4, <1>5, <1>6

LEMMA ApplyDecisionKeeps ==
  ASSUME TypeOK, RunInvariant, NEW e \in Executions, NEW f \in Candidates, ApplyDecision(e, f)
  PROVE  RunInvariant'
<1> USE DEF ApplyDecision, RunInvariant, TypeOK, Goto, TakeMessage, Returns, Errs, Fault, brokerVars, agentVars, publisherVars, runVars
<1>1. /\ f \in undecided[e] /\ group[f] = f /\ undecided' = [undecided EXCEPT ![e] = @ \ {f}]
      /\ HalfDecided(e) /\ Owns(e) /\ ok[e] = Agents
  BY DEF DecisionsProgress, HalfDecided, Owns
<1>2. /\ finding' \in [Candidates -> FindingStatus]
      /\ finding'[f] \in {"SCHEDULED", "SUPPRESSED"}
      /\ \A g \in Candidates : g # f /\ group[g] = f => finding'[g] = "SUPPRESSED"
      /\ \A g \in Candidates : group[g] # f => finding'[g] = finding[g]
  BY <1>1 DEF FindingStatus
<1>3. \A g \in Candidates : group[g] = f => g \in found[e] /\ finding[g] = "CANDIDATE"
  BY <1>1 DEF HalfDecided, FindingsHaveOneOwner
<1>4. Stored' = Stored
  BY <1>2, <1>3 DEF Stored
<1>5. FindingsHaveOneOwner'
  BY <1>4 DEF FindingsHaveOneOwner, Owns
<1>6. GroupsAreStored'
  BY <1>1, <1>2, <1>4 DEF GroupsAreStored, Chosen
<1>7. PayloadIsChosen'
  BY <1>2, <1>3 DEF PayloadIsChosen, Chosen
<1>8. \A d \in Executions : Owns(d) /\ d # e =>
        /\ \A g \in found[d] : finding'[g] = finding[g]
        /\ undecided'[d] = undecided[d]
  BY <1>1, <1>2, <1>3 DEF FindingsHaveOneOwner
<1>9. HalfDecided(e)'
  <2>1. /\ undecided'[e] = undecided[e] \ {f}
        /\ undecided'[e] \subseteq found[e]
        /\ \A g \in undecided'[e] : group[g] = g
    BY <1>1 DEF HalfDecided
  <2>2. ASSUME NEW g \in found[e]
        PROVE  /\ group[g] \in found[e] /\ group[group[g]] = group[g]
               /\ IF group[g] \in undecided'[e] THEN finding'[g] = "CANDIDATE" ELSE Decided(g)'
    <3>1. CASE group[g] = f
      BY <1>1, <1>2, <2>1, <3>1 DEF HalfDecided, Decided
    <3>2. CASE group[g] # f
      BY <1>1, <1>2, <2>1, <3>2 DEF HalfDecided, Decided
    <3> QED BY <3>1, <3>2
  <2> QED BY <2>1, <2>2 DEF HalfDecided, Decided
<1>10. DecisionsProgress'
  <2> SUFFICES ASSUME NEW d \in Executions PROVE DecisionsProgress!(d)'
    BY DEF DecisionsProgress
  <2>1. CASE d = e
    BY <1>1, <1>9, <2>1 DEF DecisionsProgress
  <2>2. CASE d # e /\ Owns(d)
    <3>1. /\ \A g \in found[d] : finding'[g] = finding[g]
          /\ undecided'[d] = undecided[d]
      BY <1>8, <2>2
    <3>2. Undecided(d) => Undecided(d)'
      BY <3>1 DEF Undecided
    <3>3. AllDecided(d) => AllDecided(d)'
      BY <3>1 DEF AllDecided, Decided
    <3>4. HalfDecided(d) => HalfDecided(d)'
      BY <3>1 DEF HalfDecided, Decided
    <3> QED BY <3>2, <3>3, <3>4 DEF DecisionsProgress
  <2>3. CASE d # e /\ ~Owns(d)
    BY <2>3 DEF DecisionsProgress, Owns
  <2> QED BY <2>1, <2>2, <2>3
<1>11. StagesAgree' /\ TaskRowsAreTrue'
  BY DEF StagesAgree, Result, TaskRowsAreTrue, verdict, task
<1> QED BY <1>5, <1>6, <1>7, <1>10, <1>11

-----------------------------------------------------------------------------
(* The publishers. *)

LEMMA PublisherKeeps ==
  ASSUME TypeOK, RunInvariant, NEW p \in Publishers, PublishStep(p) \/ Release(p)
  PROVE  RunInvariant'
<1> USE DEF RunInvariant, TypeOK, GotoP, Fault, brokerVars, agentVars, runVars
<1>1. UNCHANGED <<group, tasks, runVars>>
  BY DEF PublishStep, Claim, ReadPayload, Post, MarkFindings, MarkReview, Release
<1>2. CASE ~MarkFindings(p)
  <2>1. /\ UNCHANGED finding
        /\ \A q \in Publishers : ppc'[q] \in {"post", "posted"} =>
             \/ ppc[q] \in {"post", "posted"} /\ payload'[q] = payload[q]
             \/ payload'[q] = Scheduled
    BY <1>2 DEF PublishStep, Claim, ReadPayload, Post, MarkReview, Release
  <2>2. PayloadIsChosen'
    BY <2>1 DEF PayloadIsChosen, Chosen, Scheduled
  <2>3. FindingsHaveOneOwner' /\ GroupsAreStored'
    BY <1>1, <2>1 DEF FindingsHaveOneOwner, Owns, Stored, GroupsAreStored, Chosen
  <2>4. DecisionsProgress'
    BY <1>1, <2>1 DEF DecisionsProgress, Undecided, HalfDecided, AllDecided, Decided
  <2>5. StagesAgree' /\ TaskRowsAreTrue'
    BY <1>1 DEF StagesAgree, Result, TaskRowsAreTrue, verdict, task
  <2> QED BY <2>2, <2>3, <2>4, <2>5
<1>3. CASE MarkFindings(p)
  <2>1. /\ \A f \in payload[p] : Chosen(f) /\ Chosen(f)' /\ Decided(f) /\ Decided(f)'
        /\ \A f \in Candidates \ payload[p] : finding'[f] = finding[f]
        /\ payload[p] \subseteq Candidates
    BY <1>3 DEF MarkFindings, PayloadIsChosen, Chosen, Decided
  <2>2. /\ Stored' = Stored
        /\ \A f \in Candidates : (finding'[f] = "CANDIDATE") <=> (finding[f] = "CANDIDATE")
        /\ \A f \in Candidates : Chosen(f)' <=> Chosen(f)
        /\ \A f \in Candidates : Decided(f)' <=> Decided(f)
    <3> SUFFICES ASSUME NEW f \in Candidates
                 PROVE  /\ (finding'[f] = "none") <=> (finding[f] = "none")
                        /\ (finding'[f] = "CANDIDATE") <=> (finding[f] = "CANDIDATE")
                        /\ Chosen(f)' <=> Chosen(f)
                        /\ Decided(f)' <=> Decided(f)
      BY DEF Stored
    <3>1. CASE f \in payload[p]
      BY <2>1, <3>1 DEF Chosen, Decided
    <3>2. CASE f \notin payload[p]
      BY <2>1, <3>2 DEF Chosen, Decided
    <3> QED BY <3>1, <3>2
  <2>3. FindingsHaveOneOwner' /\ GroupsAreStored'
    BY <1>1, <2>2 DEF FindingsHaveOneOwner, Owns, GroupsAreStored
  <2>4. DecisionsProgress'
    BY <1>1, <2>2 DEF DecisionsProgress, Undecided, HalfDecided, AllDecided
  <2>5. StagesAgree' /\ TaskRowsAreTrue'
    BY <1>1 DEF StagesAgree, Result, TaskRowsAreTrue, verdict, task
  <2>6. PayloadIsChosen'
    BY <1>3, <2>2 DEF MarkFindings, PayloadIsChosen
  <2> QED BY <2>3, <2>4, <2>5, <2>6
<1> QED BY <1>2, <1>3

LEMMA InvariantStep == TypeOK /\ RunInvariant /\ [Next]_vars => RunInvariant'
<1> SUFFICES ASSUME TypeOK, RunInvariant, [Next]_vars PROVE RunInvariant'
  OBVIOUS
<1>1. CASE UNCHANGED vars
  BY <1>1 DEF vars, brokerVars, runVars, agentVars, publisherVars, RunInvariant,
     FindingsHaveOneOwner, Owns, Stored, GroupsAreStored, Chosen, DecisionsProgress, Undecided,
     HalfDecided, AllDecided, Decided, StagesAgree, Result, PayloadIsChosen, TaskRowsAreTrue,
     verdict, task
<1>2. ASSUME NEW e \in Executions, RunStep(e) PROVE RunInvariant'
  BY <1>2, QuietStepKeeps, WriteTasksKeeps, CreateFindingsKeeps, StoreGroupsKeeps,
     ApplyDecisionKeeps DEF RunStep
<1>3. ASSUME NEW e \in Executions, RunFails(e) PROVE RunInvariant'
  BY <1>3, QuietStepKeeps, ConsolidationFailsKeeps DEF RunFails
<1>4. ASSUME NEW p \in Publishers, PublishStep(p) \/ Release(p) PROVE RunInvariant'
  BY <1>4, PublisherKeeps
<1> QED BY <1>1, <1>2, <1>3, <1>4 DEF Next

(* RunInvariant: findings belong to the one execution that stored them, their
   groups are closed under it, and its decisions are as far as it is. *)
THEOREM RunInvariantHolds == Spec => [](TypeOK /\ RunInvariant)
<1>1. Init => TypeOK /\ RunInvariant
  BY TypeInit, InvariantInit
<1>2. TypeOK /\ RunInvariant /\ [Next]_vars => (TypeOK /\ RunInvariant)'
  BY TypeStep, InvariantStep
<1> QED BY <1>1, <1>2, PTL DEF Spec

-----------------------------------------------------------------------------
(* What the invariant is for. *)

LEMMA OneChosen == RunInvariant => OneChosenPerGroup
BY DEF RunInvariant, GroupsAreStored, OneChosenPerGroup

LEMMA PartialStay == TypeOK /\ RunInvariant => PartialFindingsStayUnpublished
BY DEF TypeOK, RunInvariant, StagesAgree, DecisionsProgress, Undecided,
   PartialFindingsStayUnpublished

LEMMA Honest == TypeOK /\ RunInvariant => OutcomeIsHonest
<1> SUFFICES ASSUME TypeOK, RunInvariant, NEW e \in Executions,
                    outcome[e] \in {"COMPLETED", "DECIDING"}
             PROVE  /\ \A k \in Agents : /\ task(e, k, "SUCCESS") \in tasks
                                        /\ task(e, k, "FAILED") \notin tasks
                    /\ outcome[e] = "COMPLETED" => found[e] = {}
                    /\ outcome[e] = "DECIDING" => \A f \in found[e] : Decided(f)
  BY DEF OutcomeIsHonest
<1>1. /\ xpc[e] = "done" /\ error[e] = "none" /\ ok[e] = Agents
      /\ outcome[e] = "COMPLETED" => found[e] = {}
  BY DEF RunInvariant, StagesAgree, Result
<1>2. \A k \in Agents : verdict(e, k) = "SUCCESS"
  BY <1>1 DEF verdict
<1>3. \A k \in Agents : task(e, k, "SUCCESS") \in tasks /\ task(e, k, "FAILED") \notin tasks
  BY <1>2 DEF RunInvariant, TaskRowsAreTrue
<1>4. \A f \in found[e] : Decided(f)
  BY <1>1 DEF RunInvariant, DecisionsProgress, AllDecided
<1> QED BY <1>1, <1>3, <1>4

(* OneChosenPerGroup: redundant findings are never published next to each
   other, whatever executions and publishers do. *)
THEOREM OneChosenAlways == Spec => []OneChosenPerGroup
<1> QED BY RunInvariantHolds, OneChosen, PTL

(* PartialFindingsStayUnpublished: the findings of an execution that an agent
   failed are never selected. *)
THEOREM PartialStayAlways == Spec => []PartialFindingsStayUnpublished
<1> QED BY RunInvariantHolds, PartialStay, PTL

(* OutcomeIsHonest: an execution returns COMPLETED or DECIDING only for what
   its task rows and its decisions say. *)
THEOREM HonestAlways == Spec => []OutcomeIsHonest
<1> QED BY RunInvariantHolds, Honest, PTL

-----------------------------------------------------------------------------
(* The status of a finding. *)

LEMMA StepMovesForward ==
  TypeOK /\ RunInvariant /\ [Next]_vars =>
    [\A f \in Candidates : FindingMoves(finding[f], finding'[f])]_vars
<1> SUFFICES ASSUME TypeOK, RunInvariant, Next, NEW f \in Candidates
             PROVE  FindingMoves(finding[f], finding'[f])
  OBVIOUS
<1> USE DEF FindingMoves
<1>1. ASSUME NEW e \in Executions, CreateFindings(e)
      PROVE  FindingMoves(finding[f], finding'[f])
  BY <1>1 DEF CreateFindings, Insert, Stored
<1>2. ASSUME NEW e \in Executions, NEW g \in Candidates, ApplyDecision(e, g)
      PROVE  FindingMoves(finding[f], finding'[f])
  <2>1. HalfDecided(e) /\ FindingsHaveOneOwner /\ Owns(e) /\ g \in undecided[e]
    BY <1>2 DEF ApplyDecision, RunInvariant, DecisionsProgress, Owns
  <2>2. group[f] = g => finding[f] = "CANDIDATE"
    BY <2>1 DEF HalfDecided, FindingsHaveOneOwner
  <2>3. finding[g] = "CANDIDATE"
    BY <2>1 DEF HalfDecided
  <2> QED BY <1>2, <2>2, <2>3 DEF ApplyDecision
<1>3. ASSUME NEW p \in Publishers, MarkFindings(p)
      PROVE  FindingMoves(finding[f], finding'[f])
  BY <1>3 DEF MarkFindings, GotoP, RunInvariant, PayloadIsChosen, Chosen
<1>4. CASE UNCHANGED finding
  BY <1>4
<1>5. ASSUME NEW e \in Executions, RunStep(e)
      PROVE  FindingMoves(finding[f], finding'[f])
  BY <1>1, <1>2, <1>4, <1>5 DEF RunStep, Start, FailEarly, RunAgents, Graph, WriteTasks,
     NothingFound, FindingsConflict, StoreGroups, RecordDecision, Finish
<1>6. ASSUME NEW e \in Executions, RunFails(e)
      PROVE  FindingMoves(finding[f], finding'[f])
  BY <1>4, <1>6 DEF RunFails, ScopeRaises, ConsolidationFails, DecisionFails, Die
<1>7. ASSUME NEW p \in Publishers, PublishStep(p) \/ Release(p)
      PROVE  FindingMoves(finding[f], finding'[f])
  BY <1>3, <1>4, <1>7 DEF PublishStep, Claim, ReadPayload, Post, MarkReview, Release
<1> QED BY <1>5, <1>6, <1>7 DEF Next

(* FindingsMoveForward: no step takes a published finding back, posts a
   suppressed one's row, or decides a finding twice. *)
THEOREM FindingsOnlyMoveForward == Spec => FindingsMoveForward
<1>1. Spec => [][Next]_vars
  BY PTL DEF Spec
<1> QED BY <1>1, StepMovesForward, RunInvariantHolds, PTL DEF FindingsMoveForward

-----------------------------------------------------------------------------
(* The life of a review with one execution. *)

LEMMA DrivesInit == Init => OneRunDrives
BY DEF Init, OneRunDrives, Running, Executions

(* What follows for the execution that takes a step, and for a publisher. *)
LEMMA LoneRun ==
  ASSUME TypeOK, OneRunDrives, started <= 1, NEW e \in Executions, xpc[e] # "unborn"
  PROVE  e = 1 /\ started = 1 /\ \A d \in Executions : d # e => xpc[d] = "unborn"
<1>1. \A d \in Executions : d \in Nat /\ d >= 1
  BY Bounds DEF Executions
<1>2. started \in Nat
  BY Bounds DEF TypeOK
<1>3. ~ (e > started)
  BY DEF OneRunDrives
<1>4. e = 1 /\ started = 1
  BY <1>1, <1>2, <1>3
<1>5. ASSUME NEW d \in Executions, d # e PROVE d > started
  BY <1>1, <1>4, <1>5
<1> QED BY <1>4, <1>5 DEF OneRunDrives

(* A step of an execution: the message, the steps after it, the result. *)
LEMMA MessageDrives ==
  ASSUME TypeOK, OneRunDrives, NEW e \in Executions,
         Start(e) \/ FailEarly(e) \/ ScopeRaises(e)
  PROVE  /\ OneRunDrives'
         /\ started' <= 1 /\ status' # status => <<status, status'>> \in StatusMoves
<1>1. /\ e = started + 1 /\ started' = e /\ xpc[e] = "unborn"
      /\ xpc' = [xpc EXCEPT ![e] = xpc'[e]]
      /\ \/ xpc'[e] = "processing" /\ status' = "PROCESSING"
         \/ xpc'[e] = "done" /\ status' = "FAILED"
         \/ xpc'[e] = "dead" /\ status' = status
      /\ ppc' = ppc
  BY DEF Start, FailEarly, ScopeRaises, TakeMessage, Goto, TypeOK, publisherVars
<1>2. started \in Nat /\ \A d \in Executions : d \in Nat /\ d >= 1
  BY Bounds DEF TypeOK, Executions
<1>3. \A d \in Executions : xpc'[d] = IF d = e THEN xpc'[e] ELSE xpc[d]
  BY <1>1 DEF TypeOK
<1>4. \A d \in Executions : xpc[d] = "unborn" <=> d > started
  BY DEF OneRunDrives
<1>5. \A d \in Executions : xpc'[d] = "unborn" <=> d > started'
  <2> TAKE d \in Executions
  <2>1. CASE d = e
    BY <1>1, <1>2, <2>1
  <2>2. CASE d # e
    <3>1. d > started <=> d > started + 1
      BY <1>1, <1>2, <2>2
    <3> QED BY <1>1, <1>3, <1>4, <2>2, <3>1
  <2> QED BY <2>1, <2>2
<1>6. ASSUME started' <= 1
      PROVE  /\ status = "QUEUED" /\ started = 0 /\ e = 1
             /\ \A d \in Executions : d # e => xpc[d] = "unborn"
             /\ \A p \in Publishers : ppc[p] = "idle"
  <2>1. started = 0 /\ e = 1
    BY <1>1, <1>2, <1>6
  <2>2. status = "QUEUED"
    BY <2>1 DEF OneRunDrives
  <2>3. \A d \in Executions : d > started
    BY <1>2, <2>1
  <2>4. \A p \in Publishers : ppc[p] = "idle"
    BY <2>1, <2>2 DEF OneRunDrives
  <2> QED BY <1>4, <2>1, <2>2, <2>3, <2>4
<1>7. started' # 0
  BY <1>1, <1>2
<1>8. OneRunDrives'
  BY <1>1, <1>3, <1>5, <1>6, <1>7 DEF OneRunDrives, Running
<1> QED BY <1>1, <1>6, <1>8 DEF StatusMoves

(* The statuses of an execution under way: where it may go. *)
Onward(from, to) ==
  \/ from = "processing" /\ to = "agents"
  \/ from \in Running \ {"processing"} /\ to \in (Running \ {"processing"}) \cup {"done"}
  \/ from \in Running /\ to = "dead"

LEMMA StepDrives ==
  ASSUME TypeOK, OneRunDrives, NEW e \in Executions, Onward(xpc[e], xpc'[e]),
         xpc' = [xpc EXCEPT ![e] = xpc'[e]], started' = started, ppc' = ppc,
         xpc'[e] = "agents" => status' = "AGENTS_RUNNING",
         xpc'[e] = "done" => status' \in {"FAILED", "DECIDING", "COMPLETED"},
         xpc'[e] \notin {"agents", "done"} => status' = status
  PROVE  /\ OneRunDrives'
         /\ started' <= 1 /\ status' # status => <<status, status'>> \in StatusMoves
<1>1. \A d \in Executions : xpc'[d] = IF d = e THEN xpc'[e] ELSE xpc[d]
  BY DEF TypeOK
<1>2. xpc[e] # "unborn" /\ xpc'[e] # "unborn" /\ xpc[e] \in Running
  BY DEF Onward, Running
<1>3. \A d \in Executions : xpc'[d] = "unborn" <=> d > started
  BY <1>1, <1>2 DEF OneRunDrives
<1>4. ASSUME started <= 1
      PROVE  /\ started = 1 /\ \A d \in Executions : d # e => xpc[d] = "unborn"
             /\ xpc[e] = "processing" => status = "PROCESSING"
             /\ xpc[e] # "processing" => status = "AGENTS_RUNNING"
             /\ \A p \in Publishers : ppc[p] = "idle"
  <2>1. started = 1 /\ \A d \in Executions : d # e => xpc[d] = "unborn"
    BY <1>2, <1>4, LoneRun
  <2>2. /\ xpc[e] = "processing" => status = "PROCESSING"
        /\ xpc[e] # "processing" => status = "AGENTS_RUNNING"
    BY <1>2, <1>4 DEF OneRunDrives
  <2>3. \A p \in Publishers : ppc[p] = "idle"
    BY <1>4, <2>2 DEF OneRunDrives
  <2> QED BY <2>1, <2>2, <2>3
<1>5. OneRunDrives'
  BY <1>1, <1>3, <1>4 DEF OneRunDrives, Running, Onward
<1>6. ASSUME started <= 1, status' # status PROVE <<status, status'>> \in StatusMoves
  BY <1>4, <1>6 DEF StatusMoves, Onward
<1> QED BY <1>5, <1>6

LEMMA PublisherDrives ==
  ASSUME TypeOK, OneRunDrives, NEW p \in Publishers, PublishStep(p) \/ Release(p)
  PROVE  /\ OneRunDrives'
         /\ started' <= 1 /\ status' # status => <<status, status'>> \in StatusMoves
<1>1. xpc' = xpc /\ started' = started
  BY DEF PublishStep, Release, Claim, ReadPayload, Post, MarkFindings, MarkReview, runVars,
     brokerVars
<1>2. /\ \A q \in Publishers : ppc'[q] = IF q = p THEN ppc'[p] ELSE ppc[q]
      /\ \/ /\ ppc[p] = "idle" /\ ppc'[p] # "idle"
            /\ status = "DECIDING" /\ status' = "PUBLISHING"
         \/ /\ ppc[p] # "idle" /\ ppc'[p] # "idle" /\ status' = status
         \/ /\ ppc[p] # "idle" /\ ppc'[p] = "idle"
            /\ \/ status' = "PUBLISHED"
               \/ status' = IF status = "PUBLISHING" THEN "DECIDING" ELSE status
  BY DEF TypeOK, PublishStep, Release, Claim, ReadPayload, Post, MarkFindings, MarkReview, GotoP
<1>3. ASSUME started <= 1
      PROVE  /\ status \in {"DECIDING", "PUBLISHING"}
             /\ \A q \in Publishers : q # p => ppc[q] = "idle"
             /\ ppc[p] # "idle" => status = "PUBLISHING"
             /\ started # 0
             /\ \A e \in Executions : xpc[e] \notin Running
  <2>1. /\ started = 0 => status = "QUEUED"
        /\ \A e \in Executions :
             /\ xpc[e] = "processing" => status = "PROCESSING"
             /\ xpc[e] \in Running \ {"processing"} => status = "AGENTS_RUNNING"
        /\ \A r, q \in Publishers : ppc[r] # "idle" =>
             status = "PUBLISHING" /\ (ppc[q] # "idle" => r = q)
    BY <1>3 DEF OneRunDrives
  <2>2. status \in {"DECIDING", "PUBLISHING"} /\ (ppc[p] # "idle" => status = "PUBLISHING")
    BY <1>2, <2>1
  <2>3. \A q \in Publishers : q # p => ppc[q] = "idle"
    BY <1>2, <2>1
  <2> QED BY <2>1, <2>2, <2>3
<1>4. OneRunDrives'
  BY <1>1, <1>2, <1>3 DEF OneRunDrives, Running
<1>5. ASSUME started <= 1, status' # status PROVE <<status, status'>> \in StatusMoves
  BY <1>2, <1>3, <1>5 DEF StatusMoves
<1> QED BY <1>1, <1>4, <1>5

LEMMA DrivesStep ==
  TypeOK /\ OneRunDrives /\ [Next]_vars =>
    /\ OneRunDrives'
    /\ [started' <= 1 /\ status' # status => <<status, status'>> \in StatusMoves]_vars
<1> SUFFICES ASSUME TypeOK, OneRunDrives, [Next]_vars
             PROVE  /\ OneRunDrives'
                    /\ [started' <= 1 /\ status' # status => <<status, status'>> \in StatusMoves]_vars
  OBVIOUS
<1> DEFINE Goal == /\ OneRunDrives'
                   /\ started' <= 1 /\ status' # status => <<status, status'>> \in StatusMoves
<1>1. CASE UNCHANGED vars
  BY <1>1 DEF OneRunDrives, vars, brokerVars, runVars, publisherVars
<1>2. ASSUME NEW e \in Executions, RunStep(e) \/ RunFails(e) PROVE Goal
  <2> USE DEF Goto, publisherVars, brokerVars, TypeOK, Running
  <2>1. CASE Start(e) \/ FailEarly(e) \/ ScopeRaises(e)
    BY <2>1, MessageDrives
  <2>2. CASE RunAgents(e)
    BY <2>2, StepDrives DEF RunAgents, Onward
  <2>3. CASE Graph(e)
    BY <2>3, StepDrives DEF Graph, Onward
  <2>4. CASE WriteTasks(e)
    BY <2>4, StepDrives DEF WriteTasks, Onward
  <2>5. CASE NothingFound(e)
    BY <2>5, StepDrives DEF NothingFound, Onward
  <2>6. CASE CreateFindings(e)
    BY <2>6, StepDrives DEF CreateFindings, Onward
  <2>7. CASE FindingsConflict(e)
    BY <2>7, StepDrives DEF FindingsConflict, Onward
  <2>8. CASE StoreGroups(e)
    BY <2>8, StepDrives DEF StoreGroups, AfterGroups, Onward
  <2>9. ASSUME NEW f \in Candidates, ApplyDecision(e, f) PROVE Goal
    BY <2>9 DEF ApplyDecision, OneRunDrives
  <2>10. CASE RecordDecision(e)
    BY <2>10, StepDrives DEF RecordDecision, Onward
  <2>11. CASE Finish(e)
    <3>1. Result(e) \in {"FAILED", "DECIDING", "COMPLETED"}
      BY ResultIsTyped
    <3> QED BY <2>11, <3>1, StepDrives DEF Finish, Onward
  <2>12. CASE ConsolidationFails(e)
    BY <2>12, StepDrives DEF ConsolidationFails, Onward
  <2>13. CASE DecisionFails(e)
    BY <2>13, StepDrives DEF DecisionFails, Onward
  <2>14. CASE Die(e)
    BY <2>14, StepDrives DEF Die, Onward
  <2> QED BY <1>2, <2>1, <2>2, <2>3, <2>4, <2>5, <2>6, <2>7, <2>8, <2>9, <2>10, <2>11, <2>12,
             <2>13, <2>14 DEF RunStep, RunFails
<1>3. ASSUME NEW p \in Publishers, PublishStep(p) \/ Release(p) PROVE Goal
  BY <1>3, PublisherDrives
<1> QED BY <1>1, <1>2, <1>3 DEF Next

(* With one execution and any number of publishers the row of a review goes
   through the documented transitions only. *)
THEOREM SingleRunAlwaysFollows == Spec => SingleRunFollowsLifecycle
<1>1. Spec => []TypeOK
  BY RunTypeCorrect
<1> QED BY <1>1, DrivesInit, DrivesStep, PTL DEF Spec, SingleRunFollowsLifecycle

-----------------------------------------------------------------------------
(* The settings *)

(* Merging sections keeps what the patch does not name. *)
LEMMA MergeKeeps ==
  ASSUME NEW current, NEW p, NEW s, NEW f,
         s \in DOMAIN current, f \in DOMAIN current[s], ~ Touches(p, s, f)
  PROVE  Value(Merge(current, p), s, f) = <<current[s][f]>>
<1>1. s \notin p.clear /\ (s \in DOMAIN p.put => f \notin DOMAIN p.put[s])
  BY DEF Touches
<1>2. s \in DOMAIN Merge(current, p)
  BY <1>1 DEF Merge
<1>3. CASE s \notin DOMAIN p.put
  <2>1. Merge(current, p)[s] = current[s]
    BY <1>1, <1>3 DEF Merge
  <2> QED BY <1>2, <2>1 DEF Value
<1>4. CASE s \in DOMAIN p.put
  <2>1. Merge(current, p)[s] = Updated(current[s], p.put[s])
    BY <1>1, <1>4 DEF Merge
  <2>2. f \in DOMAIN Updated(current[s], p.put[s]) /\ Updated(current[s], p.put[s])[f] = current[s][f]
    BY <1>1, <1>4 DEF Updated
  <2> QED BY <1>2, <2>1, <2>2 DEF Value
<1> QED BY <1>3, <1>4

LEMMA NothingIsEmpty == DOMAIN Nothing = {} /\ DaysAreANumber(Nothing)
<1>1. DOMAIN Nothing = {}
  BY DEF Nothing
<1> QED BY <1>1 DEF DaysAreANumber

LEMMA PatchesHaveDays == \A p \in Patches \cup {NoPatch} : DaysAreANumber(p.put)
<1>1. DaysAreANumber(NoPatch.put)
  BY NothingIsEmpty DEF NoPatch
<1> QED BY <1>1, DecayAssumption

LEMMA MergeHasDays ==
  ASSUME NEW current, NEW p, DaysAreANumber(current), DaysAreANumber(p.put)
  PROVE  DaysAreANumber(Merge(current, p))
<1> DEFINE merged == Merge(current, p)
           days == "temporal_decay_days"
<1> SUFFICES ASSUME "decay" \in DOMAIN merged, days \in DOMAIN merged["decay"]
             PROVE  merged["decay"][days] \in Int
  BY DEF DaysAreANumber
<1>1. "decay" \in DOMAIN current \cup DOMAIN p.put
  BY DEF Merge
<1>2. CASE "decay" \notin DOMAIN p.put
  <2>1. merged["decay"] = current["decay"]
    BY <1>1, <1>2 DEF Merge
  <2> QED BY <1>1, <1>2, <2>1 DEF DaysAreANumber
<1>3. CASE "decay" \in DOMAIN p.put /\ "decay" \notin DOMAIN current
  <2>1. merged["decay"] = p.put["decay"]
    BY <1>1, <1>3 DEF Merge
  <2> QED BY <1>3, <2>1 DEF DaysAreANumber
<1>4. CASE "decay" \in DOMAIN p.put /\ "decay" \in DOMAIN current
  <2>1. merged["decay"] = Updated(current["decay"], p.put["decay"])
    BY <1>1, <1>4 DEF Merge
  <2>2. /\ days \in DOMAIN current["decay"] \cup DOMAIN p.put["decay"]
        /\ merged["decay"][days] = IF days \in DOMAIN p.put["decay"]
                                   THEN p.put["decay"][days] ELSE current["decay"][days]
    BY <2>1 DEF Updated
  <2> QED BY <1>4, <2>2 DEF DaysAreANumber
<1> QED BY <1>2, <1>3, <1>4

(* An array over a set stays one when a place of it changes. *)
LEMMA ExceptStaysArray ==
  ASSUME NEW S, NEW f, f \in [S -> Range(f)], NEW i \in S, NEW x, NEW g,
         g = [f EXCEPT ![i] = x]
  PROVE  g \in [S -> Range(g)] /\ g[i] = x /\ \A j \in S \ {i} : g[j] = f[j]
BY DEF Range

LEMMA AppendStaysSeq ==
  ASSUME NEW q, q \in Seq(Range(q)), NEW x
  PROVE  /\ Append(q, x) \in Seq(Range(Append(q, x)))
         /\ Len(q) \in Nat /\ Len(Append(q, x)) = Len(q) + 1
<1> DEFINE T == Range(q) \cup {x}
           r == Append(q, x)
<1>1. q \in Seq(T)
  BY SeqMonotonic
<1>2. r \in Seq(T) /\ Len(r) = Len(q) + 1 /\ Len(q) \in Nat
  BY <1>1
<1>3. DOMAIN r = 1 .. Len(r) /\ Len(r) \in Nat /\ r \in [1 .. Len(r) -> T]
  BY <1>2, LenProperties
<1> HIDE DEF r
<1>4. r \in [1 .. Len(r) -> Range(r)]
  BY <1>3 DEF Range
<1>5. r \in Seq(Range(r))
  BY <1>3, <1>4, SeqDef
<1> QED BY <1>2, <1>5 DEF r

(* What the admin API keeps of the types. *)
AdminTypes ==
  /\ SettingsOK
  /\ DaysAreANumber(settings)
  /\ \A a \in Admins : DaysAreANumber(before[a])

LEMMA AdminKeepsTypes ==
  ASSUME AdminTypes, RowsAreKept, NEW a \in Admins, AdminStep(a)
  PROVE  AdminTypes' /\ RowsAreKept'
<1> USE DEF AdminTypes, SettingsOK, RowsAreKept, AdminGoes
<1>0. /\ Len(reruns) \in Nat /\ \A p \in Patches \cup {NoPatch} : DaysAreANumber(p.put)
      /\ DaysAreANumber(Nothing)
  BY LenProperties, PatchesHaveDays, NothingIsEmpty
<1>1. CASE ReadSettings(a)
  <2>1. /\ UNCHANGED <<settings, reruns, sent, entry>>
        /\ apc[a] = "idle" /\ apc' = [apc EXCEPT ![a] = "patch"]
        /\ before' = [before EXCEPT ![a] = settings]
        /\ \E p \in Patches : patch' = [patch EXCEPT ![a] = p]
        /\ left' = [left EXCEPT !["admin"] = @ - 1] /\ left["admin"] > 0
    BY <1>1 DEF ReadSettings, NextRequest
  <2>2. /\ before' \in [Admins -> Range(before')]
        /\ before'[a] = settings /\ \A b \in Admins \ {a} : before'[b] = before[b]
    BY <2>1, ExceptStaysArray
  <2>3. left' \in [admin : Nat, feedback : Nat, reviews : Nat]
    BY <2>1
  <2>4. apc' \in [Admins -> {"idle", "patch", "dispatch", "audit"}]
        /\ patch' \in [Admins -> Patches \cup {NoPatch}]
    BY <2>1
  <2>5. RowsAreKept'
    BY <2>1
  <2>6. \A b \in Admins : DaysAreANumber(before[b])'
    BY <2>2 DEF DaysAreANumber
  <2> QED BY <2>1, <2>2, <2>3, <2>4, <2>5, <2>6
<1>2. CASE PatchSettings(a)
  <2> DEFINE merged == Merge(before[a], patch[a])
             row == Row("settings", before[a], merged)
  <2>1. /\ UNCHANGED <<reruns, sent, patch, before, left>>
        /\ apc[a] = "patch" /\ apc' = [apc EXCEPT ![a] = "audit"]
        /\ settings' = merged
        /\ entry' = [entry EXCEPT ![a] = row]
    BY <1>2 DEF PatchSettings
  <2>2. DaysAreANumber(merged)
    BY <1>0, MergeHasDays
  <2> HIDE DEF merged, row
  <2>3. /\ entry' \in [Admins -> Range(entry')]
        /\ \A b \in Admins \ {a} : entry'[b] = entry[b]
    BY <2>1, ExceptStaysArray
  <2>4. apc' \in [Admins -> {"idle", "patch", "dispatch", "audit"}]
    BY <2>1
  <2>5. RowsAreKept'
    BY <2>1, <2>3
  <2>6. DaysAreANumber(settings') /\ \A b \in Admins : DaysAreANumber(before'[b])
    BY <2>1, <2>2
  <2> QED BY <2>1, <2>3, <2>4, <2>5, <2>6
<1>3. CASE CreateRerun(a)
  <2> DEFINE value == Field("urgency", "value", 0)
             row == Row("rerun", Nothing, Len(reruns) + 1)
  <2>1. /\ UNCHANGED <<settings, sent, patch, before>>
        /\ apc[a] = "idle" /\ apc' = [apc EXCEPT ![a] = "dispatch"]
        /\ reruns' = Append(reruns, value)
        /\ entry' = [entry EXCEPT ![a] = row]
        /\ left' = [left EXCEPT !["admin"] = @ - 1] /\ left["admin"] > 0
    BY <1>3 DEF CreateRerun, NextRequest
  <2>2. row.after = Len(reruns) + 1
    BY DEF Row
  <2> HIDE DEF value, row
  <2>3. /\ entry' \in [Admins -> Range(entry')] /\ entry'[a] = row
        /\ \A b \in Admins \ {a} : entry'[b] = entry[b]
    BY <2>1, ExceptStaysArray
  <2>4. /\ reruns' \in Seq(Range(reruns')) /\ Len(reruns') = Len(reruns) + 1
    BY <2>1, AppendStaysSeq
  <2>5. left' \in [admin : Nat, feedback : Nat, reviews : Nat]
    BY <2>1
  <2>6. apc' \in [Admins -> {"idle", "patch", "dispatch", "audit"}]
    BY <2>1
  <2>7. sent' \subseteq 1 .. Len(reruns')
    BY <1>0, <2>1, <2>4
  <2>8. RowsAreKept'
    BY <1>0, <2>1, <2>2, <2>3, <2>4
  <2> QED BY <2>1, <2>3, <2>4, <2>5, <2>6, <2>7, <2>8
<1>4. CASE DispatchRerun(a)
  <2>1. /\ UNCHANGED <<settings, reruns, patch, before, entry, left>>
        /\ apc[a] = "dispatch" /\ apc' = [apc EXCEPT ![a] = "audit"]
        /\ sent' = sent \cup {entry[a].after}
    BY <1>4 DEF DispatchRerun
  <2>2. sent' \subseteq 1 .. Len(reruns')
    BY <2>1
  <2> QED BY <2>1, <2>2
<1>5. ASSUME Forgets(a), UNCHANGED <<settings, reruns, sent, left>>, apc' = [apc EXCEPT ![a] = "idle"]
      PROVE  AdminTypes' /\ RowsAreKept'
  <2>1. /\ patch' = [patch EXCEPT ![a] = NoPatch]
        /\ before' = [before EXCEPT ![a] = Nothing]
        /\ entry' = [entry EXCEPT ![a] = NoRow]
    BY <1>5 DEF Forgets
  <2>2. /\ before' \in [Admins -> Range(before')]
        /\ before'[a] = Nothing /\ \A b \in Admins \ {a} : before'[b] = before[b]
    BY <2>1, ExceptStaysArray
  <2>3. /\ entry' \in [Admins -> Range(entry')]
        /\ entry'[a] = NoRow /\ \A b \in Admins \ {a} : entry'[b] = entry[b]
    BY <2>1, ExceptStaysArray
  <2>4. /\ apc' \in [Admins -> {"idle", "patch", "dispatch", "audit"}]
        /\ patch' \in [Admins -> Patches \cup {NoPatch}]
    BY <1>5, <2>1
  <2>5. RowsAreKept'
    BY <1>5, <2>3
  <2>6. DaysAreANumber(settings') /\ \A b \in Admins : DaysAreANumber(before'[b])
    BY <1>0, <1>5, <2>2
  <2> QED BY <1>5, <2>2, <2>3, <2>4, <2>5, <2>6
<1>6. CASE RecordAudit(a) \/ AdminFails(a)
  BY <1>5, <1>6 DEF RecordAudit, AdminFails
<1> QED BY <1>1, <1>2, <1>3, <1>4, <1>6 DEF AdminStep

LEMMA AdminInit == RepositoryInit => AdminTypes /\ RowsAreKept /\ ChangesAreAudited
<1> SUFFICES ASSUME RepositoryInit
             PROVE  AdminTypes /\ RowsAreKept /\ ChangesAreAudited
  OBVIOUS
<1> USE DEF RepositoryInit, SettingsInit
<1>1. reruns \in Seq(Range(reruns)) /\ Len(reruns) = 0
  OBVIOUS
<1>2. left \in [admin : Nat, feedback : Nat, reviews : Nat]
  BY SettingsAssumption
<1>3. DaysAreANumber(settings) /\ \A a \in Admins : DaysAreANumber(before[a])
  BY DecayAssumption, NothingIsEmpty
<1>4. before \in [Admins -> Range(before)] /\ entry \in [Admins -> Range(entry)]
  BY DEF Range
<1>5. SettingsOK
  BY <1>1, <1>2, <1>4 DEF SettingsOK
<1>6. RowsAreKept
  BY DEF RowsAreKept
<1>7. ChangesAreAudited
  BY <1>1 DEF ChangesAreAudited
<1> QED BY <1>3, <1>5, <1>6, <1>7 DEF AdminTypes

(* A row moves from the request to the log, or to what failing requests left. *)
LEMMA AdminKeepsAudit ==
  ASSUME AdminTypes, RowsAreKept, ChangesAreAudited, NEW a \in Admins, AdminStep(a)
  PROVE  ChangesAreAudited'
<1> DEFINE rows == audit \cup unaudited \cup {entry[b] : b \in Admins}
           Applied(R, value) == value = Initial \/
                                \E r \in R : r.kind = "settings" /\ r.after = value
           Known(R, n) == \E r \in R : r.kind = "rerun" /\ r.after = n
<1>0. /\ Applied(rows, settings) /\ \A n \in 1 .. Len(reruns) : Known(rows, n)
      /\ ChangesAreAudited' = (Applied(rows', settings') /\ \A n \in 1 .. Len(reruns') : Known(rows', n))
  BY DEF ChangesAreAudited
<1> USE DEF AdminTypes, SettingsOK, RowsAreKept, AdminGoes
<1>1. NoRow.kind = "none"
  BY DEF NoRow, Row
<1> HIDE DEF NoRow
<1>2. ASSUME rows \ {NoRow} \subseteq rows', UNCHANGED <<settings, reruns>>
      PROVE  ChangesAreAudited'
  <2> HIDE DEF rows
  <2>1. Applied(rows', settings')
    BY <1>0, <1>1, <1>2
  <2>2. \A n \in 1 .. Len(reruns') : Known(rows', n)
    BY <1>0, <1>1, <1>2
  <2> QED BY <1>0, <2>1, <2>2
<1>3. CASE ReadSettings(a)
  BY <1>2, <1>3 DEF ReadSettings
<1>4. CASE PatchSettings(a)
  <2> DEFINE merged == Merge(before[a], patch[a])
             row == Row("settings", before[a], merged)
  <2>1. /\ UNCHANGED <<reruns, audit, unaudited>> /\ entry[a] = NoRow
        /\ settings' = merged
        /\ entry' = [entry EXCEPT ![a] = row]
    BY <1>4 DEF PatchSettings
  <2>2. row.kind = "settings" /\ row.after = merged
    BY DEF Row
  <2> HIDE DEF merged, row
  <2>3. entry'[a] = row /\ \A b \in Admins \ {a} : entry'[b] = entry[b]
    BY <2>1, ExceptStaysArray
  <2>4. rows \ {NoRow} \subseteq rows' /\ row \in rows'
    BY <2>1, <2>3
  <2> HIDE DEF rows
  <2>5. Applied(rows', settings')
    BY <2>1, <2>2, <2>4
  <2>6. \A n \in 1 .. Len(reruns') : Known(rows', n)
    BY <1>0, <1>1, <2>1, <2>4
  <2> QED BY <1>0, <2>5, <2>6
<1>5. CASE CreateRerun(a)
  <2> DEFINE value == Field("urgency", "value", 0)
             row == Row("rerun", Nothing, Len(reruns) + 1)
  <2>1. /\ UNCHANGED <<settings, audit, unaudited>> /\ entry[a] = NoRow
        /\ reruns' = Append(reruns, value)
        /\ entry' = [entry EXCEPT ![a] = row]
    BY <1>5 DEF CreateRerun
  <2>2. row.kind = "rerun" /\ row.after = Len(reruns) + 1
    BY DEF Row
  <2> HIDE DEF value, row
  <2>3. entry'[a] = row /\ \A b \in Admins \ {a} : entry'[b] = entry[b]
    BY <2>1, ExceptStaysArray
  <2>4. rows \ {NoRow} \subseteq rows' /\ row \in rows'
    BY <2>1, <2>3
  <2>5. Len(reruns) \in Nat /\ Len(reruns') = Len(reruns) + 1
    BY <2>1, AppendStaysSeq
  <2> HIDE DEF rows
  <2>6. Applied(rows', settings')
    BY <1>0, <1>1, <2>1, <2>4
  <2>7. ASSUME NEW n \in 1 .. Len(reruns')
        PROVE  Known(rows', n)
    <3>1. n \in 1 .. Len(reruns) \/ n = Len(reruns) + 1
      BY <2>5
    <3> QED BY <1>0, <1>1, <2>2, <2>4, <3>1
  <2> QED BY <1>0, <2>6, <2>7
<1>6. CASE DispatchRerun(a)
  BY <1>2, <1>6 DEF DispatchRerun
<1>7. ASSUME entry' = [entry EXCEPT ![a] = NoRow], audit \cup unaudited \subseteq audit' \cup unaudited',
             entry[a] \in audit' \cup unaudited' \cup {NoRow}, UNCHANGED <<settings, reruns>>
      PROVE  ChangesAreAudited'
  <2>1. \A b \in Admins \ {a} : entry'[b] = entry[b]
    BY <1>7, ExceptStaysArray
  <2> QED BY <1>2, <1>7, <2>1
<1>8. CASE RecordAudit(a)
  BY <1>7, <1>8 DEF RecordAudit, Forgets
<1>9. CASE AdminFails(a)
  BY <1>7, <1>9 DEF AdminFails, Forgets
<1> QED BY <1>3, <1>4, <1>5, <1>6, <1>8, <1>9 DEF AdminStep

LEMMA PatchKeepsUntouched ==
  ASSUME AdminTypes, NEW a \in Admins, AdminStep(a), NEW b \in Admins,
         apc[b] = "patch", apc'[b] = "audit", NEW q \in Fields,
         ~ Touches(patch[b], q[1], q[2]),
         Value(before[b], q[1], q[2]) = Value(settings, q[1], q[2])
  PROVE  Value(settings', q[1], q[2]) = Value(settings, q[1], q[2])
<1> DEFINE s == q[1]  f == q[2]
<1>1. a = b
  BY DEF AdminTypes, SettingsOK, AdminStep, AdminGoes, ReadSettings, PatchSettings, CreateRerun,
         DispatchRerun, RecordAudit, AdminFails
<1>2. settings' = Merge(before[b], patch[b])
  BY <1>1 DEF AdminTypes, SettingsOK, AdminStep, AdminGoes, ReadSettings, PatchSettings, CreateRerun,
         DispatchRerun, RecordAudit, AdminFails
<1>3. s \in DOMAIN settings /\ f \in DOMAIN settings[s]
  BY DEF Fields
<1> HIDE DEF s, f
<1>4. Value(settings, s, f) = <<settings[s][f]>>
  BY <1>3 DEF Value
<1>5. s \in DOMAIN before[b] /\ f \in DOMAIN before[b][s]
  BY <1>4 DEF Value, s, f
<1>6. Value(before[b], s, f) = <<before[b][s][f]>>
  BY <1>5 DEF Value
<1>7. Value(Merge(before[b], patch[b]), s, f) = <<before[b][s][f]>>
  BY <1>5, MergeKeeps DEF s, f
<1> QED BY <1>2, <1>6, <1>7 DEF s, f

-----------------------------------------------------------------------------
(* The memory *)

MemoryTypes ==
  /\ day \in 0 .. MaxDay
  /\ stored \in [Events -> (0 .. MaxDay) \cup {None}]
  /\ memory \in [version : Nat, counted : SUBSET Events, tau : Int, built : 0 .. MaxDay]
  /\ wpc \in [Writers -> WriterStage]
  /\ own \in [Writers -> Reading]
  /\ overtaken \cup abandoned \cup expired \subseteq Events

LEMMA TypesAreTwo == RepositoryTypeOK <=> AdminTypes /\ MemoryTypes
BY DEF RepositoryTypeOK, AdminTypes, MemoryTypes

LEMMA FreshIsTyped == Fresh \in Reading /\ Fresh.event = None /\ Fresh.known = {}
BY MemoryAssumption DEF Fresh, Reading

LEMMA GoesMoves ==
  ASSUME MemoryTypes, NEW w \in Writers, NEW from, NEW to \in WriterStage, NEW read \in Reading,
         Goes(w, from, to, read)
  PROVE  /\ wpc' \in [Writers -> WriterStage] /\ own' \in [Writers -> Reading]
         /\ wpc[w] = from /\ wpc'[w] = to
         /\ own'[w] = IF to = "idle" THEN Fresh ELSE read
         /\ \A v \in Writers \ {w} : wpc'[v] = wpc[v] /\ own'[v] = own[v]
BY FreshIsTyped DEF MemoryTypes, Goes

(* What a repository sets as its decay is a number of days. *)
LEMMA DecayIsTyped ==
  ASSUME AdminTypes
  PROVE  Field("decay", "temporal_decay_days", Tau) \in Int
BY MemoryAssumption DEF AdminTypes, DaysAreANumber, Field

(* The steps of a writer, by where they take it and what it has read then. *)
LEMMA HandlerMoves ==
  ASSUME RepositoryTypeOK, NEW h \in Handlers, HandlerStep(h)
  PROVE  \E from, to \in WriterStage, read \in Reading :
           /\ Goes(h, from, to, read)
           /\ from \in {"idle", "look up", "create", "settings"}
           /\ to \in {"look up", "create", "settings", "events"}
           /\ from # "idle" => read.event = own[h].event
           /\ from = "settings" => to = "events"
<1> USE DEF WriterStage
<1>0. own[h] \in Reading /\ h \in Writers
  BY DEF RepositoryTypeOK, Writers
<1>1. CASE Submit(h)
  <2>1. PICK e \in Events : Goes(h, "idle", "look up", [Fresh EXCEPT !.event = e])
    BY <1>1 DEF Submit
  <2>2. [Fresh EXCEPT !.event = e] \in Reading
    BY FreshIsTyped DEF Reading
  <2> QED BY <2>1, <2>2
<1>2. CASE LookUp(h)
  BY <1>0, <1>2 DEF LookUp
<1>3. CASE Create(h)
  BY <1>0, <1>3 DEF Create
<1>4. CASE ReadDecay(h)
  <2> DEFINE days == Field("decay", "temporal_decay_days", Tau)
  <2>1. days \in Int
    BY DecayIsTyped, TypesAreTwo
  <2>2. Goes(h, "settings", "events", [own[h] EXCEPT !.tau = days])
    BY <1>4 DEF ReadDecay
  <2> HIDE DEF days
  <2>3. [own[h] EXCEPT !.tau = days] \in Reading /\ [own[h] EXCEPT !.tau = days].event = own[h].event
    BY <1>0, <2>1 DEF Reading
  <2> QED BY <2>2, <2>3
<1> QED BY <1>1, <1>2, <1>3, <1>4 DEF HandlerStep

LEMMA DeciderMoves ==
  ASSUME RepositoryTypeOK, NEW d \in Deciders, DeciderStep(d)
  PROVE  /\ \E from, to \in WriterStage, read \in Reading :
              /\ Goes(d, from, to, read)
              /\ to \in {"idle", "events", "sync", "embed", "score"}
         /\ UNCHANGED <<day, stored, memory, overtaken, abandoned, expired>>
<1> USE DEF WriterStage
<1>0. own[d] \in Reading /\ d \in Writers
  BY DEF RepositoryTypeOK, Writers
<1>1. CASE Decide(d)
  <2>1. [Fresh EXCEPT !.tau = Tau] \in Reading
    BY FreshIsTyped, MemoryAssumption DEF Reading
  <2> QED BY <1>1, <2>1 DEF Decide
<1>2. CASE ReadHashes(d)
  <2>1. [own[d] EXCEPT !.missing = Standards \ Here] \in Reading
    BY <1>0 DEF Reading
  <2> QED BY <1>2, <2>1 DEF ReadHashes
<1>3. CASE Embed(d)
  BY <1>0, <1>3 DEF Embed
<1>4. CASE Score(d)
  BY FreshIsTyped, <1>4 DEF Score
<1> QED BY <1>1, <1>2, <1>3, <1>4 DEF DeciderStep

LEMMA HandlerKeeps ==
  ASSUME RepositoryTypeOK, EvidenceInvariant, NEW h \in Handlers, HandlerStep(h)
  PROVE  MemoryTypes' /\ EvidenceInvariant'
<1> USE DEF EvidenceInvariant
<1>0. MemoryTypes /\ h \in Writers /\ Handlers \subseteq Writers
  BY TypesAreTwo DEF Writers
<1>1. PICK from \in WriterStage, to \in WriterStage, read \in Reading :
           /\ Goes(h, from, to, read)
           /\ from \in {"idle", "look up", "create", "settings"}
           /\ to \in {"look up", "create", "settings", "events"}
           /\ from # "idle" => read.event = own[h].event
           /\ from = "settings" => to = "events"
  BY HandlerMoves
<1>2. /\ wpc' \in [Writers -> WriterStage] /\ own' \in [Writers -> Reading]
      /\ wpc[h] = from /\ wpc'[h] = to /\ own'[h] = read
      /\ \A v \in Writers \ {h} : wpc'[v] = wpc[v] /\ own'[v] = own[v]
  <2>1. to # "idle" /\ Goes(h, from, to, read)
    BY <1>1
  <2> QED BY <1>0, <2>1, GoesMoves, Zenon
<1>3. UNCHANGED <<day, memory, overtaken, abandoned, expired>>
  BY DEF HandlerStep, Submit, LookUp, Create, ReadDecay
<1>4. \/ UNCHANGED stored
      \/ /\ own[h].event \in Events \ Recorded /\ wpc[h] = "create" /\ wpc'[h] = "settings"
         /\ stored' = [stored EXCEPT ![own[h].event] = day]
  <2>1. CASE Create(h)
    <3>1. stored' = [stored EXCEPT ![own[h].event] = day] /\ own[h].event \notin Recorded
          /\ wpc[h] = "create" /\ wpc'[h] = "settings"
      BY <1>0, <1>2, <2>1 DEF Create, Goes, MemoryTypes
    <3>2. own[h].event \in Events \/ stored' = stored
      BY <1>0, <3>1 DEF MemoryTypes
    <3> QED BY <3>1, <3>2
  <2>2. CASE Submit(h) \/ LookUp(h) \/ ReadDecay(h)
    BY <2>2 DEF Submit, LookUp, ReadDecay
  <2> QED BY <2>1, <2>2 DEF HandlerStep
<1>5. /\ stored' \in [Events -> (0 .. MaxDay) \cup {None}]
      /\ Recorded \subseteq Recorded' /\ \A e \in Recorded : stored'[e] = stored[e]
      /\ \A e \in Recorded' \ Recorded : stored'[e] = day /\ own[h].event = e
                                         /\ wpc[h] = "create" /\ wpc'[h] = "settings"
  BY <1>0, <1>4 DEF MemoryTypes, Recorded, None
<1>6. MemoryTypes'
  BY <1>0, <1>2, <1>3, <1>5 DEF MemoryTypes
<1>7. \A e \in Recorded' : stored'[e] <= day'
  BY <1>0, <1>3, <1>5 DEF MemoryTypes
<1>8. ASSUME NEW e \in Recorded' \ (overtaken \cup abandoned \cup expired)'
      PROVE  Covered(e)' \/ Awaited(e)'
  <2>1. CASE e \notin Recorded
    BY <1>0, <1>1, <1>2, <1>5, <2>1 DEF Awaited
  <2>2. CASE e \in Recorded /\ Covered(e)
    BY <1>3, <1>5, <2>2 DEF Covered, Judged
  <2>3. CASE e \in Recorded /\ Awaited(e)
    <3>1. PICK g \in Handlers :
            /\ own[g].event = e
            /\ \/ wpc[g] \in {"settings", "events"}
               \/ wpc[g] \in {"memory", "write"} /\ e \in own[g].known
      BY <2>3 DEF Awaited
    <3>2. own'[g].event = e /\ \/ wpc'[g] \in {"settings", "events"}
                               \/ wpc'[g] \in {"memory", "write"} /\ e \in own'[g].known
      BY <1>0, <1>1, <1>2, <3>1
    <3> QED BY <3>2 DEF Awaited
  <2> QED BY <1>3, <2>1, <2>2, <2>3
<1>9. ASSUME NEW w \in Writers, wpc'[w] \in {"memory", "write"}, NEW e \in own'[w].known
      PROVE  e \in Recorded' /\ Judged(e, own[w].counted, own[w].tau, own[w].built)'
  <2>1. w # h /\ wpc'[w] = wpc[w] /\ own'[w] = own[w]
    BY <1>1, <1>2, <1>9
  <2>2. e \in Recorded /\ Judged(e, own[w].counted, own[w].tau, own[w].built)
    BY <1>9, <2>1
  <2> QED BY <1>5, <2>1, <2>2 DEF Judged
<1> QED BY <1>6, <1>7, <1>8, <1>9

(* Steps that leave the events, the snapshot and every rebuild as they are. *)
LEMMA EvidenceStays ==
  ASSUME MemoryTypes, EvidenceInvariant, NEW w \in Writers,
         UNCHANGED <<stored, memory, overtaken, expired>>,
         abandoned \subseteq abandoned', day' \in Nat, day <= day',
         \A v \in Writers \ {w} : wpc'[v] = wpc[v] /\ own'[v] = own[v],
         wpc'[w] \notin {"memory", "write"},
         \A e \in Recorded \ (overtaken \cup abandoned' \cup expired) :
           own[w].event = e /\ w \in Handlers => Covered(e)
  PROVE  EvidenceInvariant'
<1> USE DEF EvidenceInvariant
<1>1. \A e \in Recorded' : stored'[e] <= day'
  BY DEF Recorded, MemoryTypes
<1>2. ASSUME NEW e \in Recorded' \ (overtaken \cup abandoned \cup expired)'
      PROVE  Covered(e)' \/ Awaited(e)'
  <2>1. e \in Recorded \ (overtaken \cup abandoned' \cup expired) /\ (Covered(e) => Covered(e)')
    BY DEF Recorded, Covered, Judged
  <2>2. CASE Covered(e)
    BY <2>1, <2>2
  <2>3. CASE ~ Covered(e)
    <3>1. PICK g \in Handlers :
            /\ own[g].event = e
            /\ \/ wpc[g] \in {"settings", "events"}
               \/ wpc[g] \in {"memory", "write"} /\ e \in own[g].known
      BY <2>1, <2>3 DEF Awaited
    <3>2. g # w
      BY <2>1, <2>3, <3>1
    <3> QED BY <3>1, <3>2 DEF Awaited, Writers
  <2> QED BY <2>2, <2>3
<1>3. ASSUME NEW v \in Writers, wpc'[v] \in {"memory", "write"}, NEW e \in own'[v].known
      PROVE  e \in Recorded' /\ Judged(e, own[v].counted, own[v].tau, own[v].built)'
  <2>1. v # w /\ wpc'[v] = wpc[v] /\ own'[v] = own[v]
    BY <1>3
  <2> QED BY <1>3, <2>1 DEF Recorded, Judged
<1> QED BY <1>1, <1>2, <1>3

LEMMA DeciderKeeps ==
  ASSUME RepositoryTypeOK, EvidenceInvariant, NEW d \in Deciders, DeciderStep(d)
  PROVE  MemoryTypes' /\ EvidenceInvariant'
<1>0. MemoryTypes /\ d \in Writers /\ d \notin Handlers
  BY TypesAreTwo, MemoryAssumption DEF Writers
<1>1. UNCHANGED <<day, stored, memory, overtaken, abandoned, expired>>
  BY DeciderMoves
<1>2. PICK from \in WriterStage, to \in WriterStage, read \in Reading :
        Goes(d, from, to, read) /\ to \in {"idle", "events", "sync", "embed", "score"}
  BY DeciderMoves
<1>3. /\ wpc' \in [Writers -> WriterStage] /\ own' \in [Writers -> Reading] /\ wpc'[d] = to
      /\ \A v \in Writers \ {d} : wpc'[v] = wpc[v] /\ own'[v] = own[v]
  BY <1>0, <1>2, GoesMoves
<1>4. MemoryTypes' /\ day' \in Nat /\ day <= day'
  BY <1>0, <1>1, <1>3, MemoryAssumption DEF MemoryTypes
<1>5. EvidenceInvariant'
  BY <1>0, <1>1, <1>2, <1>3, <1>4, EvidenceStays
<1> QED BY <1>4, <1>5

LEMMA ReadEventsKeeps ==
  ASSUME RepositoryTypeOK, EvidenceInvariant, NEW w \in Writers, ReadEvents(w)
  PROVE  MemoryTypes' /\ EvidenceInvariant'
<1> DEFINE tau == own[w].tau
           young == {e \in Recorded : Age(e) <= Horizon(tau)}
           read == [own[w] EXCEPT !.known = Recorded, !.built = day,
                                  !.counted = {e \in young : Counts(e, tau)}]
           to == IF young = {} THEN Done(w) ELSE "memory"
<1> USE DEF EvidenceInvariant
<1>0. MemoryTypes /\ own[w] \in Reading /\ tau \in Int /\ Horizon(tau) \in Int
  BY TypesAreTwo DEF MemoryTypes, Reading, Horizon
<1>1. /\ Goes(w, "events", to, read)
      /\ expired' = IF young = {} THEN expired \cup Recorded ELSE expired
      /\ UNCHANGED <<day, stored, memory, overtaken, abandoned>>
  BY DEF ReadEvents
<1>2. /\ read \in Reading /\ read.event = own[w].event /\ read.tau = tau
      /\ read.known = Recorded /\ read.built = day /\ read.counted = {e \in young : Counts(e, tau)}
  BY <1>0 DEF Reading, MemoryTypes, Recorded
<1>3. to \in WriterStage /\ (young = {} => to \in {"idle", "sync"}) /\ (young # {} => to = "memory")
  BY DEF WriterStage, Done
<1>4. \A e \in Recorded : stored[e] \in Nat /\ stored[e] <= day /\ day \in Nat
  BY <1>0, MemoryAssumption DEF Recorded, MemoryTypes
<1>5. \A e \in Recorded : Judged(e, read.counted, read.tau, read.built)
  <2>1. ASSUME NEW e \in Recorded, e \notin read.counted
        PROVE  day - stored[e] >= Horizon(tau)
    <3>1. ~ (Age(e) <= Horizon(tau)) \/ ~ Counts(e, tau)
      BY <1>2, <2>1
    <3> QED BY <1>0, <1>4, <3>1 DEF Age, Counts
  <2> QED BY <1>2, <2>1 DEF Judged
<1> HIDE DEF young, read, to, tau
<1>6. /\ wpc' \in [Writers -> WriterStage] /\ own' \in [Writers -> Reading]
      /\ wpc[w] = "events" /\ wpc'[w] = to
      /\ own'[w] = IF to = "idle" THEN Fresh ELSE read
      /\ \A v \in Writers \ {w} : wpc'[v] = wpc[v] /\ own'[v] = own[v]
  BY <1>0, <1>1, <1>2, <1>3, GoesMoves
<1>7. Recorded' = Recorded /\ Recorded \subseteq Events
  BY <1>1 DEF Recorded
<1>8. MemoryTypes'
  BY <1>0, <1>1, <1>6, <1>7 DEF MemoryTypes
<1>9. \A e \in Recorded' : stored'[e] <= day'
  BY <1>1, <1>7
<1>10. ASSUME NEW e \in Recorded' \ (overtaken \cup abandoned \cup expired)'
       PROVE  Covered(e)' \/ Awaited(e)'
  <2>1. /\ e \in Recorded \ (overtaken \cup abandoned \cup expired) /\ young # {}
        /\ (Covered(e) => Covered(e)')
    BY <1>1, <1>7 DEF Covered, Judged
  <2>2. CASE Covered(e)
    BY <2>1, <2>2
  <2>3. CASE ~ Covered(e)
    <3>1. PICK g \in Handlers :
            /\ own[g].event = e
            /\ \/ wpc[g] \in {"settings", "events"}
               \/ wpc[g] \in {"memory", "write"} /\ e \in own[g].known
      BY <2>1, <2>3 DEF Awaited
    <3>2. wpc'[w] = "memory" /\ own'[w] = read
      BY <1>3, <1>6, <2>1
    <3>3. CASE g = w
      BY <1>2, <2>1, <3>1, <3>2, <3>3 DEF Awaited
    <3>4. CASE g # w
      BY <1>6, <3>1, <3>4 DEF Awaited, Writers
    <3> QED BY <3>3, <3>4
  <2> QED BY <2>2, <2>3
<1>11. ASSUME NEW v \in Writers, wpc'[v] \in {"memory", "write"}, NEW e \in own'[v].known
       PROVE  e \in Recorded' /\ Judged(e, own[v].counted, own[v].tau, own[v].built)'
  <2>1. CASE v = w
    <3>1. own'[w] = read
      BY <1>3, <1>6, <1>11, <2>1
    <3> QED BY <1>1, <1>2, <1>5, <1>7, <1>11, <2>1, <3>1 DEF Judged
  <2>2. CASE v # w
    BY <1>1, <1>6, <1>7, <1>11, <2>2 DEF Judged
  <2> QED BY <2>1, <2>2
<1> QED BY <1>8, <1>9, <1>10, <1>11

LEMMA ReadMemoryKeeps ==
  ASSUME RepositoryTypeOK, EvidenceInvariant, NEW w \in Writers, ReadMemory(w)
  PROVE  MemoryTypes' /\ EvidenceInvariant'
<1> DEFINE read == [own[w] EXCEPT !.row = memory.version]
<1> USE DEF EvidenceInvariant
<1>0. MemoryTypes /\ own[w] \in Reading
  BY TypesAreTwo DEF MemoryTypes
<1>1. /\ Goes(w, "memory", "write", read)
      /\ UNCHANGED <<day, stored, memory, overtaken, abandoned, expired>>
  BY DEF ReadMemory
<1>2. /\ read \in Reading /\ read.event = own[w].event /\ read.tau = own[w].tau
      /\ read.known = own[w].known /\ read.built = own[w].built /\ read.counted = own[w].counted
  BY <1>0 DEF Reading, MemoryTypes
<1> HIDE DEF read
<1>3. /\ wpc' \in [Writers -> WriterStage] /\ own' \in [Writers -> Reading]
      /\ wpc[w] = "memory" /\ wpc'[w] = "write" /\ own'[w] = read
      /\ \A v \in Writers \ {w} : wpc'[v] = wpc[v] /\ own'[v] = own[v]
  <2>1. "write" \in WriterStage /\ "write" # "idle"
    BY DEF WriterStage
  <2> QED BY <1>0, <1>1, <1>2, <2>1, GoesMoves, Zenon
<1>4. MemoryTypes' /\ Recorded' = Recorded
  BY <1>0, <1>1, <1>3 DEF MemoryTypes, Recorded
<1>5. \A v \in Writers : /\ own'[v].event = own[v].event /\ own'[v].known = own[v].known
                         /\ own'[v].counted = own[v].counted /\ own'[v].tau = own[v].tau
                         /\ own'[v].built = own[v].built
                         /\ wpc'[v] \in {"memory", "write"} <=> wpc[v] \in {"memory", "write"}
                         /\ wpc[v] \in {"settings", "events"} => wpc'[v] = wpc[v]
  BY <1>2, <1>3
<1>6. \A e \in Recorded : Awaited(e) => Awaited(e)'
  BY <1>5 DEF Awaited, Writers
<1>7. \A e \in Recorded : Covered(e) => Covered(e)'
  BY <1>1 DEF Covered, Judged
<1>8. \A v \in Writers : wpc'[v] \in {"memory", "write"} =>
         \A e \in own'[v].known :
           e \in Recorded' /\ Judged(e, own[v].counted, own[v].tau, own[v].built)'
  BY <1>1, <1>4, <1>5 DEF Judged
<1>9. \A e \in Recorded' : stored'[e] <= day'
  BY <1>1, <1>4
<1> QED BY <1>1, <1>4, <1>6, <1>7, <1>8, <1>9

(* A snapshot is of all that its writer knew, and whoever it did not know of is
   excepted from then on. *)
LEMMA WriteMemoryKeeps ==
  ASSUME RepositoryTypeOK, EvidenceInvariant, NEW w \in Writers, WriteMemory(w)
  PROVE  MemoryTypes' /\ EvidenceInvariant'
<1> DEFINE to == Done(w)
<1> USE DEF EvidenceInvariant
<1>0. MemoryTypes /\ own[w] \in Reading
  BY TypesAreTwo DEF MemoryTypes
<1>1. /\ Goes(w, "write", to, own[w])
      /\ memory' = [version |-> own[w].row + 1, counted |-> own[w].counted, tau |-> own[w].tau,
                    built |-> own[w].built]
      /\ overtaken' = (overtaken \cup Recorded) \ own[w].known
      /\ abandoned' = abandoned \ own[w].known
      /\ expired' = expired \ own[w].known
      /\ UNCHANGED <<day, stored>>
  BY DEF WriteMemory
<1>2. to \in WriterStage /\ to \in {"idle", "sync"}
  BY DEF WriterStage, Done
<1> HIDE DEF to
<1>3. /\ wpc' \in [Writers -> WriterStage] /\ own' \in [Writers -> Reading]
      /\ wpc[w] = "write" /\ wpc'[w] = to
      /\ \A v \in Writers \ {w} : wpc'[v] = wpc[v] /\ own'[v] = own[v]
  BY <1>0, <1>1, <1>2, GoesMoves
<1>4. Recorded' = Recorded /\ Recorded \subseteq Events
  BY <1>1 DEF Recorded
<1>5. memory' \in [version : Nat, counted : SUBSET Events, tau : Int, built : 0 .. MaxDay]
  BY <1>0, <1>1 DEF Reading
<1>6. MemoryTypes'
  BY <1>0, <1>1, <1>3, <1>4, <1>5 DEF MemoryTypes
<1>7. memory' # NoMemory
  <2>1. memory'.version = own[w].row + 1 /\ own[w].row \in Nat
    BY <1>0, <1>1 DEF Reading
  <2>2. NoMemory.version = 0
    BY DEF NoMemory
  <2> QED BY <2>1, <2>2
<1>8. ASSUME NEW e \in Recorded' \ (overtaken \cup abandoned \cup expired)'
      PROVE  Covered(e)'
  <2>1. e \in own[w].known
    BY <1>1, <1>4
  <2>2. Judged(e, own[w].counted, own[w].tau, own[w].built)
    BY <1>3, <2>1
  <2>3. Judged(e, memory.counted, memory.tau, memory.built)'
    BY <1>1, <2>2 DEF Judged
  <2> QED BY <1>7, <2>3 DEF Covered
<1>9. ASSUME NEW v \in Writers, wpc'[v] \in {"memory", "write"}, NEW e \in own'[v].known
      PROVE  e \in Recorded' /\ Judged(e, own[v].counted, own[v].tau, own[v].built)'
  <2>1. v # w /\ wpc'[v] = wpc[v] /\ own'[v] = own[v]
    BY <1>2, <1>3, <1>9
  <2> QED BY <1>1, <1>4, <1>9, <2>1 DEF Judged
<1>10. \A e \in Recorded' : stored'[e] <= day'
  BY <1>1, <1>4
<1> QED BY <1>6, <1>8, <1>9, <1>10

LEMMA WriterFailsKeeps ==
  ASSUME RepositoryTypeOK, EvidenceInvariant, NEW w \in Writers, WriterFails(w)
  PROVE  MemoryTypes' /\ EvidenceInvariant'
<1>0. MemoryTypes /\ own[w] \in Reading
  BY TypesAreTwo DEF MemoryTypes
<1>1. /\ Goes(w, wpc[w], "idle", Fresh)
      /\ abandoned' = abandoned \cup ({own[w].event} \ (memory.counted \cup {None}))
      /\ UNCHANGED <<day, stored, memory, overtaken, expired>>
  BY DEF WriterFails
<1>2. /\ wpc' \in [Writers -> WriterStage] /\ own' \in [Writers -> Reading] /\ wpc'[w] = "idle"
      /\ \A v \in Writers \ {w} : wpc'[v] = wpc[v] /\ own'[v] = own[v]
  <2>1. "idle" \in WriterStage
    BY DEF WriterStage
  <2> QED BY <1>0, <1>1, <2>1, FreshIsTyped, GoesMoves, Zenon
<1>3. MemoryTypes'
  BY <1>0, <1>1, <1>2 DEF MemoryTypes, Reading
<1>4. day' \in Nat /\ day <= day'
  BY <1>0, <1>1, MemoryAssumption DEF MemoryTypes
<1>5. ASSUME NEW e \in Recorded \ (overtaken \cup abandoned' \cup expired), own[w].event = e
      PROVE  Covered(e)
  <2>1. e \in memory.counted
    BY <1>1, <1>5, MemoryAssumption DEF Recorded
  <2>2. memory # NoMemory
    BY <2>1 DEF NoMemory
  <2> QED BY <2>1, <2>2 DEF Covered, Judged
<1>6. EvidenceInvariant'
  BY <1>0, <1>1, <1>2, <1>4, <1>5, EvidenceStays
<1> QED BY <1>3, <1>6

LEMMA DayKeeps ==
  ASSUME RepositoryTypeOK, EvidenceInvariant, DayPasses
  PROVE  MemoryTypes' /\ EvidenceInvariant'
<1>0. MemoryTypes
  BY TypesAreTwo
<1>1. /\ day' = day + DayStep /\ day + DayStep <= MaxDay
      /\ UNCHANGED <<stored, memory, wpc, own, overtaken, abandoned, expired>>
  BY DEF DayPasses, writerVars
<1>2. MemoryTypes' /\ day' \in Nat /\ day <= day'
  BY <1>0, <1>1, MemoryAssumption DEF MemoryTypes
<1>3. \A e \in Recorded' : stored'[e] <= day'
  BY <1>0, <1>1, <1>2, MemoryAssumption DEF EvidenceInvariant, MemoryTypes, Recorded
<1>4. EvidenceInvariant'
  BY <1>1, <1>3 DEF EvidenceInvariant, Recorded, Covered, Judged, Awaited
<1> QED BY <1>2, <1>4

LEMMA MemoryInitHolds == RepositoryInit => MemoryTypes /\ EvidenceInvariant
<1> SUFFICES ASSUME RepositoryInit
             PROVE  MemoryTypes /\ EvidenceInvariant
  OBVIOUS
<1> USE DEF RepositoryInit, MemoryInit
<1>1. Recorded = {}
  BY DEF Recorded
<1>2. memory \in [version : Nat, counted : SUBSET Events, tau : Int, built : 0 .. MaxDay]
  BY MemoryAssumption DEF NoMemory
<1>3. MemoryTypes
  BY <1>2, FreshIsTyped, MemoryAssumption DEF MemoryTypes, WriterStage
<1> QED BY <1>1, <1>3 DEF EvidenceInvariant

RepositoryInvariant ==
  RepositoryTypeOK /\ RowsAreKept /\ ChangesAreAudited /\ EvidenceInvariant

LEMMA MemoryStepKeeps ==
  ASSUME RepositoryTypeOK, RowsAreKept, EvidenceInvariant, MemoryNext
  PROVE  MemoryTypes' /\ EvidenceInvariant'
<1>1. CASE \E h \in Handlers : HandlerStep(h)
  BY <1>1, HandlerKeeps
<1>2. CASE \E d \in Deciders : DeciderStep(d)
  BY <1>2, DeciderKeeps
<1>3. CASE \E w \in Writers : WriterStep(w)
  BY <1>3, ReadEventsKeeps, ReadMemoryKeeps, WriteMemoryKeeps, WriterFailsKeeps DEF WriterStep
<1>4. CASE DayPasses
  BY <1>4, DayKeeps
<1> QED BY <1>1, <1>2, <1>3, <1>4 DEF MemoryNext

(* The requests to come are all that the memory and the admin API share. *)
LEMMA LoadsStayTyped ==
  ASSUME RepositoryTypeOK, MemoryNext
  PROVE  left' \in [admin : Nat, feedback : Nat, reviews : Nat]
<1>1. left \in [admin : Nat, feedback : Nat, reviews : Nat]
  BY DEF RepositoryTypeOK, SettingsOK
<1>2. \/ UNCHANGED left \/ NextRequest("feedback") \/ NextRequest("reviews")
  BY DEF MemoryNext, HandlerStep, DeciderStep, WriterStep, Submit, LookUp, Create, ReadDecay, Decide,
         ReadHashes, Embed, Score, ReadEvents, ReadMemory, WriteMemory, WriterFails, DayPasses
<1> QED BY <1>1, <1>2 DEF NextRequest

LEMMA RepositoryStepKeeps ==
  RepositoryInvariant /\ [RepositoryNext]_repositoryVars => RepositoryInvariant'
<1> SUFFICES ASSUME RepositoryInvariant, [RepositoryNext]_repositoryVars
             PROVE  RepositoryInvariant'
  OBVIOUS
<1> USE DEF RepositoryInvariant
<1>0. AdminTypes /\ MemoryTypes
  BY TypesAreTwo
<1>1. CASE MemoryNext /\ UNCHANGED settingsVars
  <2>1. MemoryTypes' /\ EvidenceInvariant'
    BY <1>1, MemoryStepKeeps
  <2>2. UNCHANGED <<settings, reruns, sent, audit, apc, patch, before, entry, unaudited>>
    BY <1>1 DEF settingsVars, adminVars
  <2>3. AdminTypes'
    BY <1>0, <1>1, <2>2, LoadsStayTyped DEF AdminTypes, SettingsOK
  <2>4. RowsAreKept' /\ ChangesAreAudited'
    BY <2>2 DEF RowsAreKept, ChangesAreAudited
  <2> QED BY <2>1, <2>3, <2>4, TypesAreTwo DEF RepositoryTypeOK, AdminTypes, MemoryTypes
<1>2. CASE \E a \in Admins : AdminStep(a) /\ UNCHANGED memoryVars
  <2>1. PICK a \in Admins : AdminStep(a) /\ UNCHANGED memoryVars
    BY <1>2
  <2>2. AdminTypes' /\ RowsAreKept' /\ ChangesAreAudited'
    BY <1>0, <2>1, AdminKeepsTypes, AdminKeepsAudit
  <2>3. UNCHANGED <<day, stored, memory, embedded, wpc, own, overtaken, abandoned, expired>>
    BY <2>1 DEF memoryVars, writerVars
  <2>4. MemoryTypes'
    BY <1>0, <2>3 DEF MemoryTypes
  <2>5. EvidenceInvariant'
    BY <2>3 DEF EvidenceInvariant, Recorded, Covered, Judged, Awaited
  <2> QED BY <2>2, <2>4, <2>5 DEF RepositoryTypeOK, AdminTypes, MemoryTypes
<1>3. CASE UNCHANGED repositoryVars
  <2>1. /\ UNCHANGED <<settings, reruns, sent, audit, apc, patch, before, entry, unaudited, left>>
        /\ UNCHANGED <<day, stored, memory, embedded, wpc, own, overtaken, abandoned, expired>>
    BY <1>3 DEF repositoryVars, settingsVars, adminVars, memoryVars, writerVars
  <2>2. AdminTypes' /\ RowsAreKept' /\ ChangesAreAudited'
    BY <1>0, <2>1 DEF AdminTypes, SettingsOK, RowsAreKept, ChangesAreAudited
  <2>3. MemoryTypes'
    BY <1>0, <2>1 DEF MemoryTypes
  <2>4. EvidenceInvariant'
    BY <2>1 DEF EvidenceInvariant, Recorded, Covered, Judged, Awaited
  <2> QED BY <2>2, <2>3, <2>4 DEF RepositoryTypeOK, AdminTypes, MemoryTypes
<1> QED BY <1>1, <1>2, <1>3 DEF RepositoryNext

LEMMA RepositoryIsInvariant == RepositorySpec => []RepositoryInvariant
<1>1. RepositoryInit => RepositoryInvariant
  BY AdminInit, MemoryInitHolds, TypesAreTwo DEF RepositoryInvariant
<1> QED BY <1>1, RepositoryStepKeeps, PTL DEF RepositorySpec

-----------------------------------------------------------------------------
(* Types, of both parts: RepositoryTypeOK says which. *)
THEOREM RepositoryTypeCorrect == RepositorySpec => []RepositoryTypeOK
<1>1. RepositoryInvariant => RepositoryTypeOK
  BY DEF RepositoryInvariant
<1> QED BY <1>1, RepositoryIsInvariant, PTL

(* Every setting in effect and every rerun is in the audit log, or in a row of
   a request that is under way or failed. *)
THEOREM ChangesAlwaysAudited == RepositorySpec => []ChangesAreAudited
<1>1. RepositoryInvariant => ChangesAreAudited
  BY DEF RepositoryInvariant
<1> QED BY <1>1, RepositoryIsInvariant, PTL

(* A patch changes a field it does not name only where it undoes what another
   request wrote after this one had read. *)
THEOREM UntouchedFieldsAlwaysStay == RepositorySpec => UntouchedFieldsStay
<1>1. RepositoryInvariant /\ [RepositoryNext]_repositoryVars => [PatchKeepsOthers]_settingsVars
  <2> SUFFICES ASSUME RepositoryInvariant, RepositoryNext
               PROVE  PatchKeepsOthers \/ UNCHANGED settingsVars
    BY DEF repositoryVars
  <2>1. AdminTypes
    BY TypesAreTwo DEF RepositoryInvariant
  <2>2. ASSUME NEW a \in Admins, AdminStep(a)
        PROVE  PatchKeepsOthers
    BY <2>1, <2>2, PatchKeepsUntouched DEF PatchKeepsOthers
  <2> QED BY <2>2 DEF RepositoryNext
<1> QED BY <1>1, RepositoryIsInvariant, PTL DEF RepositorySpec, UntouchedFieldsStay

(* The evidence: whenever no rebuild is under way, every recorded event that no
   rebuild overtook, abandoned or came too late for is in the snapshot, or was
   too old when it was built. *)
THEOREM EvidenceIsAlwaysCounted == RepositorySpec => []EvidenceIsCounted
<1>1. RepositoryInvariant => EvidenceIsCounted
  BY DEF RepositoryInvariant, EvidenceInvariant, EvidenceIsCounted, Awaited, Writers
<1> QED BY <1>1, RepositoryIsInvariant, PTL

=============================================================================
