------------------------------ MODULE ReviewRun ------------------------------
(***************************************************************************)
(* The executions of orchestrator.run_review for one review, over the      *)
(* review's row and its findings, next to the publishers that wait for     *)
(* the row to say DECIDING.                                                *)
(*                                                                         *)
(* One message starts one execution.  A delivery that is dispatched twice, *)
(* or a broker that redelivers after a crash, makes several executions of  *)
(* one review, one after the other or at the same time: nothing excludes   *)
(* them.  One action is one transaction (rows that no step reads are       *)
(* written together with the next ones).                                   *)
(*                                                                         *)
(* The graph is one step here: it keeps FanOutPromise (see AgentGraph) and *)
(* has no side effects.  The runs are mode OPENED, as run_review_task has  *)
(* it.  The publishers do only what concerns the runs: their own failures  *)
(* and takeovers are modelled in Publisher.                                *)
(***************************************************************************)
EXTENDS Integers, FiniteSets

CONSTANTS
  Agents,      \* registered agents
  Candidates,  \* ids of the findings the agents may come up with
  AgentOf,     \* the agent in a finding's id
  Publishers,  \* processes running publish_review
  MaxRuns,     \* bound: executions started
  MaxFaults    \* bound: processes lost, stores, providers or posts failing

ASSUME RunAssumption ==
  /\ AgentOf \in [Candidates -> Agents]
  /\ {MaxRuns, MaxFaults} \subseteq Nat

Executions == 1 .. MaxRuns

VARIABLES
  status,     \* reviews.status
  finding,    \* findings.publication_status, "none" without a row
  group,      \* findings.duplicate_group, by its representative; alone: itself
  tasks,      \* review_tasks rows
  queue,      \* run_review messages
  started,    \* executions started
  faults,     \* failures so far
  xpc,        \* where an execution is
  ok,         \* the agents with results in its final graph state
  found,      \* its normalised findings
  undecided,  \* its decisions not applied yet
  error,      \* its consolidation_error or decision_error
  outcome,    \* the status it returns
  ppc,        \* where a publisher is
  payload,    \* the findings it read
  posts       \* history: times a finding was posted to GitHub

agentVars == <<ok, found>>
runVars == <<xpc, agentVars, undecided, error, outcome>>
publisherVars == <<ppc, payload, posts>>
brokerVars == <<queue, started>>
vars == <<status, finding, group, tasks, brokerVars, faults, runVars, publisherVars>>

ReviewStatus == {"QUEUED", "PROCESSING", "AGENTS_RUNNING", "DECIDING", "PUBLISHING",
                 "PUBLISHED", "COMPLETED", "FAILED"}
FindingStatus == {"none", "CANDIDATE", "SCHEDULED", "SUPPRESSED", "PUBLISHED"}
Running == {"processing", "agents", "tasks", "findings", "groups", "decide", "status"}

Stored == {f \in Candidates : finding[f] # "none"}
task(e, k, s) == [run |-> e, agent |-> k, status |-> s]
TaskRow == [run : Executions, agent : Agents, status : {"SUCCESS", "FAILED"}]

-----------------------------------------------------------------------------
Init ==
  /\ status = "QUEUED"
  /\ finding = [f \in Candidates |-> "none"]
  /\ group = [f \in Candidates |-> f]
  /\ tasks = {}
  /\ queue \in 1 .. MaxRuns
  /\ started = 0
  /\ faults = 0
  /\ xpc = [e \in Executions |-> "unborn"]
  /\ ok = [e \in Executions |-> {}]
  /\ found = [e \in Executions |-> {}]
  /\ undecided = [e \in Executions |-> {}]
  /\ error = [e \in Executions |-> "none"]
  /\ outcome = [e \in Executions |-> "none"]
  /\ ppc = [p \in Publishers |-> "idle"]
  /\ payload = [p \in Publishers |-> {}]
  /\ posts = [f \in Candidates |-> 0]

Fault == faults < MaxFaults /\ faults' = faults + 1
Goto(e, from, to) == xpc[e] = from /\ xpc' = [xpc EXCEPT ![e] = to]
Returns(e, s) == outcome' = [outcome EXCEPT ![e] = s]
Errs(e, what) == error' = [error EXCEPT ![e] = what]

-----------------------------------------------------------------------------
(* run_review: from the message to the graph's result. *)

TakeMessage(e) ==
  /\ queue > 0 /\ queue' = queue - 1
  /\ e = started + 1 /\ started' = e

(* The scope is built from the database and GitHub, and is usable. *)
Start(e) ==
  /\ TakeMessage(e)
  /\ Goto(e, "unborn", "processing")
  /\ status' = "PROCESSING"
  /\ UNCHANGED <<finding, group, tasks, faults, agentVars, undecided, error, outcome, publisherVars>>

(* _fail_early: the scope cannot be reviewed. *)
FailEarly(e) ==
  /\ TakeMessage(e)
  /\ Goto(e, "unborn", "done")
  /\ status' = "FAILED"
  /\ Returns(e, "FAILED")
  /\ UNCHANGED <<finding, group, tasks, faults, agentVars, undecided, error, publisherVars>>

(* Building the scope raises: the task fails and its message is gone. *)
ScopeRaises(e) ==
  /\ TakeMessage(e)
  /\ Goto(e, "unborn", "dead")
  /\ Fault
  /\ UNCHANGED <<status, finding, group, tasks, agentVars, undecided, error, outcome, publisherVars>>

RunAgents(e) ==
  /\ Goto(e, "processing", "agents")
  /\ status' = "AGENTS_RUNNING"
  /\ UNCHANGED <<finding, group, tasks, brokerVars, faults, agentVars, undecided, error, outcome,
                 publisherVars>>

FoundBy(S) == {f \in Candidates : AgentOf[f] \in S}

(* A verdict for every agent, and findings that survive normalise_findings. *)
Graph(e) ==
  /\ Goto(e, "agents", "tasks")
  /\ \E S \in SUBSET Agents : \E F \in SUBSET FoundBy(S) :
       /\ ok' = [ok EXCEPT ![e] = S]
       /\ found' = [found EXCEPT ![e] = F]
  /\ UNCHANGED <<status, finding, group, tasks, brokerVars, faults, undecided, error, outcome,
                 publisherVars>>

-----------------------------------------------------------------------------
(* _persist. *)

verdict(e, k) == IF k \in ok[e] THEN "SUCCESS" ELSE "FAILED"

(* One review_tasks row per planned agent. *)
WriteTasks(e) ==
  /\ Goto(e, "tasks", "findings")
  /\ tasks' = tasks \cup {task(e, k, verdict(e, k)) : k \in Agents}
  /\ UNCHANGED <<status, finding, group, brokerVars, faults, agentVars, undecided, error, outcome,
                 publisherVars>>

(* No finding survived normalise_findings. *)
NothingFound(e) ==
  /\ Goto(e, "findings", "status")
  /\ found[e] = {}
  /\ UNCHANGED <<status, finding, group, tasks, brokerVars, faults, agentVars, undecided, error,
                 outcome, publisherVars>>

Insert(e) == finding' = [f \in Candidates |-> IF f \in found[e] THEN "CANDIDATE" ELSE finding[f]]

(* Mutants, here and below: forms of the definition that follows with a
   plausible bug, which a property must notice. *)
CreateFindingsUpserts(e) ==
  /\ Goto(e, "findings", "groups")
  /\ Insert(e)
  /\ UNCHANGED <<status, group, tasks, brokerVars, faults, agentVars, undecided, error, outcome,
                 publisherVars>>

(* create_findings: one transaction inserts every row. *)
CreateFindings(e) ==
  /\ Goto(e, "findings", "groups")
  /\ found[e] # {} /\ found[e] \cap Stored = {}
  /\ Insert(e)
  /\ UNCHANGED <<status, group, tasks, brokerVars, faults, agentVars, undecided, error, outcome,
                 publisherVars>>

(* ... or none: the id of a finding is computed from its content, so that an
   execution that finds again what another one stored violates the key. *)
FindingsConflict(e) ==
  /\ Goto(e, "findings", "status")
  /\ found[e] \cap Stored # {}
  /\ Errs(e, "consolidation")
  /\ UNCHANGED <<status, finding, group, tasks, brokerVars, faults, agentVars, undecided, outcome,
                 publisherVars>>

(* Redundant findings share a representative, which represents itself. *)
Grouped(F) ==
  {g \in [Candidates -> Candidates] :
     \A f \in Candidates : IF f \in F THEN g[f] \in F /\ g[g[f]] = g[f] ELSE g[f] = group[f]}

EveryFinding(e) == found[e]

(* A decision is made about each group's representative and each single. *)
Representatives(e) == {f \in found[e] : group'[f] = f}

DecideAlways(e) == "decide"

(* Decisions are made only when every agent succeeded. *)
AfterGroups(e) == IF ok[e] = Agents THEN "decide" ELSE "status"

(* create_finding_group, update_finding_duplicates, create_embeddings. *)
StoreGroups(e) ==
  /\ Goto(e, "groups", AfterGroups(e))
  /\ group' \in Grouped(found[e])
  /\ undecided' = [undecided EXCEPT ![e] = Representatives(e)]
  /\ UNCHANGED <<status, finding, tasks, brokerVars, faults, agentVars, error, outcome,
                 publisherVars>>

(* The embeddings provider fails before anything is stored, or one of the
   transactions after the first. *)
ConsolidationFails(e) ==
  /\ Fault
  /\ Errs(e, "consolidation")
  /\ \/ Goto(e, "findings", "status") /\ UNCHANGED group
     \/ Goto(e, "groups", "status") /\ (UNCHANGED group \/ group' \in Grouped(found[e]))
  /\ UNCHANGED <<status, finding, tasks, brokerVars, agentVars, undecided, outcome, publisherVars>>

(* apply_decision: the verdict of the selection for a representative, and the
   other members of its group are suppressed with it. *)
ApplyDecision(e, f) ==
  /\ xpc[e] = "decide" /\ f \in undecided[e]
  /\ undecided' = [undecided EXCEPT ![e] = @ \ {f}]
  /\ \E s \in {"SCHEDULED", "SUPPRESSED"} :
       finding' = [g \in Candidates |-> IF g = f THEN s
                                        ELSE IF group[g] = f THEN "SUPPRESSED"
                                        ELSE finding[g]]
  /\ UNCHANGED <<status, group, tasks, brokerVars, faults, xpc, agentVars, error, outcome,
                 publisherVars>>

RecordDecision(e) ==
  /\ Goto(e, "decide", "status")
  /\ undecided[e] = {}
  /\ UNCHANGED <<status, finding, group, tasks, brokerVars, faults, agentVars, undecided, error,
                 outcome, publisherVars>>

(* The embeddings provider or a transaction fails: decisions made stay made. *)
DecisionFails(e) ==
  /\ Goto(e, "decide", "status")
  /\ Fault
  /\ Errs(e, "decision")
  /\ UNCHANGED <<status, finding, group, tasks, brokerVars, agentVars, undecided, outcome,
                 publisherVars>>

ResultIgnoresAgents(e) ==
  IF error[e] # "none" THEN "FAILED" ELSE IF found[e] # {} THEN "DECIDING" ELSE "COMPLETED"

(* The status that _persist decides on. *)
Result(e) ==
  CASE error[e] # "none" \/ ok[e] # Agents -> "FAILED"
    [] error[e] = "none" /\ ok[e] = Agents /\ found[e] # {} -> "DECIDING"
    [] OTHER -> "COMPLETED"

Finish(e) ==
  /\ Goto(e, "status", "done")
  /\ status' = Result(e)
  /\ Returns(e, Result(e))
  /\ UNCHANGED <<finding, group, tasks, brokerVars, faults, agentVars, undecided, error,
                 publisherVars>>

(* The process is lost, or a transaction outside the guarded parts raises.
   acks_late: the message of a lost worker comes back, that of a failed task
   does not. *)
Die(e) ==
  /\ xpc[e] \in Running
  /\ xpc' = [xpc EXCEPT ![e] = "dead"]
  /\ Fault
  /\ UNCHANGED queue \/ (started + queue < MaxRuns /\ queue' = queue + 1)
  /\ UNCHANGED <<status, finding, group, tasks, started, agentVars, undecided, error, outcome,
                 publisherVars>>

-----------------------------------------------------------------------------
(* publish_review. *)

GotoP(p, from, to) == ppc[p] = from /\ ppc' = [ppc EXCEPT ![p] = to]

ClaimUnfinished(p) ==
  /\ GotoP(p, "idle", "claimed")
  /\ status \notin {"PUBLISHED", "COMPLETED", "FAILED"} /\ status' = "PUBLISHING"
  /\ UNCHANGED <<finding, group, tasks, brokerVars, faults, runVars, payload, posts>>

(* claim_review_for_publication. *)
Claim(p) ==
  /\ GotoP(p, "idle", "claimed")
  /\ status = "DECIDING" /\ status' = "PUBLISHING"
  /\ UNCHANGED <<finding, group, tasks, brokerVars, faults, runVars, payload, posts>>

Scheduled == {f \in Candidates : finding[f] = "SCHEDULED"}

(* publication_payload: what is selected now; nothing: it is published. *)
ReadPayload(p) ==
  /\ IF Scheduled = {}
     THEN GotoP(p, "claimed", "idle") /\ status' = "PUBLISHED"
     ELSE GotoP(p, "claimed", "post") /\ UNCHANGED status
  /\ payload' = [payload EXCEPT ![p] = Scheduled]
  /\ UNCHANGED <<finding, group, tasks, brokerVars, faults, runVars, posts>>

Post(p) ==
  /\ GotoP(p, "post", "posted")
  /\ posts' = [f \in Candidates |-> IF f \in payload[p] THEN posts[f] + 1 ELSE posts[f]]
  /\ UNCHANGED <<status, finding, group, tasks, brokerVars, faults, runVars, payload>>

ReleaseNothing(p) ==
  /\ GotoP(p, "post", "idle")
  /\ Fault
  /\ UNCHANGED <<status, finding, group, tasks, brokerVars, runVars, payload, posts>>

(* A rejected post: release_review_from_publication. *)
Release(p) ==
  /\ GotoP(p, "post", "idle")
  /\ Fault
  /\ status' = IF status = "PUBLISHING" THEN "DECIDING" ELSE status
  /\ UNCHANGED <<finding, group, tasks, brokerVars, runVars, payload, posts>>

MarkFindings(p) ==
  /\ GotoP(p, "posted", "marked")
  /\ finding' = [f \in Candidates |-> IF f \in payload[p] THEN "PUBLISHED" ELSE finding[f]]
  /\ UNCHANGED <<status, group, tasks, brokerVars, faults, runVars, payload, posts>>

MarkReview(p) ==
  /\ GotoP(p, "marked", "idle")
  /\ status' = "PUBLISHED"
  /\ UNCHANGED <<finding, group, tasks, brokerVars, faults, runVars, payload, posts>>

-----------------------------------------------------------------------------
RunStep(e) ==
  \/ Start(e) \/ FailEarly(e) \/ RunAgents(e) \/ Graph(e)
  \/ WriteTasks(e) \/ NothingFound(e) \/ CreateFindings(e) \/ FindingsConflict(e)
  \/ StoreGroups(e)
  \/ (\E f \in Candidates : ApplyDecision(e, f)) \/ RecordDecision(e)
  \/ Finish(e)

RunFails(e) == ScopeRaises(e) \/ ConsolidationFails(e) \/ DecisionFails(e) \/ Die(e)

PublishStep(p) ==
  Claim(p) \/ ReadPayload(p) \/ Post(p) \/ MarkFindings(p) \/ MarkReview(p)

Next ==
  \/ \E e \in Executions : RunStep(e) \/ RunFails(e)
  \/ \E p \in Publishers : PublishStep(p) \/ Release(p)

Spec == Init /\ [][Next]_vars

(* Workers run what they took, and beat keeps starting the publication. *)
FairSpec ==
  /\ Spec
  /\ \A e \in Executions : WF_vars(RunStep(e))
  /\ \A p \in Publishers : WF_vars(PublishStep(p))

-----------------------------------------------------------------------------
TypeOK ==
  /\ status \in ReviewStatus
  /\ finding \in [Candidates -> FindingStatus]
  /\ group \in [Candidates -> Candidates]
  /\ tasks \subseteq TaskRow
  /\ queue \in 0 .. MaxRuns
  /\ started \in 0 .. MaxRuns
  /\ faults \in 0 .. MaxFaults
  /\ xpc \in [Executions -> Running \cup {"unborn", "done", "dead"}]
  /\ ok \in [Executions -> SUBSET Agents]
  /\ found \in [Executions -> SUBSET Candidates]
  /\ undecided \in [Executions -> SUBSET Candidates]
  /\ error \in [Executions -> {"none", "consolidation", "decision"}]
  /\ outcome \in [Executions -> {"none", "COMPLETED", "DECIDING", "FAILED"}]
  /\ ppc \in [Publishers -> {"idle", "claimed", "post", "posted", "marked"}]
  /\ payload \in [Publishers -> SUBSET Candidates]
  /\ posts \in [Candidates -> Nat]

Decided(f) == finding[f] \in {"SCHEDULED", "SUPPRESSED", "PUBLISHED"}
Chosen(f) == finding[f] \in {"SCHEDULED", "PUBLISHED"}

(* Whatever executions and publishers do next to each other, the status of a
   finding only moves forward: nothing published is taken back, nothing
   suppressed is posted, nothing is decided twice. *)
FindingMoves(from, to) ==
  \/ from = to
  \/ <<from, to>> \in {<<"none", "CANDIDATE">>, <<"CANDIDATE", "SCHEDULED">>,
                       <<"CANDIDATE", "SUPPRESSED">>, <<"SCHEDULED", "PUBLISHED">>}
FindingsMoveForward == [][\A f \in Candidates : FindingMoves(finding[f], finding'[f])]_vars

(* A redundancy group is represented by one finding: its duplicates are never
   selected or published next to it. *)
OneChosenPerGroup ==
  \A f, g \in Candidates : Chosen(f) /\ Chosen(g) /\ group[f] = group[g] => f = g

(* Partial findings of a run in which an agent failed are stored but never
   selected, not even when another execution of the review succeeds. *)
PartialFindingsStayUnpublished ==
  \A e \in Executions : outcome[e] = "FAILED" /\ error[e] = "none" =>
    \A f \in found[e] : finding[f] = "CANDIDATE"

(* What an execution returns is true: COMPLETED only if every agent succeeded
   and nothing was found; DECIDING only if every agent succeeded and every
   finding has a verdict, for the publisher reads the verdicts as they are. *)
OutcomeIsHonest ==
  \A e \in Executions :
    /\ outcome[e] \in {"COMPLETED", "DECIDING"} =>
         \A k \in Agents : task(e, k, "SUCCESS") \in tasks /\ task(e, k, "FAILED") \notin tasks
    /\ outcome[e] = "COMPLETED" => found[e] = {}
    /\ outcome[e] = "DECIDING" => \A f \in found[e] : Decided(f)

(* With one execution, the row follows the documented life of a review. *)
StatusMoves == {
  <<"QUEUED", "PROCESSING">>, <<"PROCESSING", "AGENTS_RUNNING">>,
  <<"AGENTS_RUNNING", "DECIDING">>, <<"AGENTS_RUNNING", "COMPLETED">>,
  <<"QUEUED", "FAILED">>, <<"AGENTS_RUNNING", "FAILED">>,
  <<"DECIDING", "PUBLISHING">>, <<"PUBLISHING", "DECIDING">>, <<"PUBLISHING", "PUBLISHED">>}
SingleRunFollowsLifecycle ==
  [][started' <= 1 /\ status' # status => <<status, status'>> \in StatusMoves]_vars

(* A message leads to a settled review, unless an execution died. *)
EventuallySettled ==
  <>[](\/ status \in {"PUBLISHED", "COMPLETED", "FAILED"}
       \/ \E e \in Executions : xpc[e] = "dead")

-----------------------------------------------------------------------------
(* Why the properties above hold: the inductive invariant of the proofs. *)

(* The executions whose findings are stored, and by nobody else. *)
Owns(e) ==
  \/ xpc[e] \in {"groups", "decide"}
  \/ xpc[e] \in {"status", "done"} /\ error[e] # "consolidation"

FindingsHaveOneOwner ==
  \A e \in Executions : Owns(e) =>
    /\ found[e] \subseteq Stored
    /\ \A d \in Executions : Owns(d) /\ d # e => found[d] \cap found[e] = {}
    /\ \A f \in Candidates : group[f] \in found[e] => f \in found[e]

(* Groups are made of stored findings, and only representatives are chosen. *)
GroupsAreStored ==
  \A f \in Candidates :
    /\ group[f] # f => group[f] \in Stored
    /\ Chosen(f) => group[f] = f

(* How far the decisions of an execution are. *)
Undecided(e) == \A f \in found[e] : finding[f] = "CANDIDATE"
HalfDecided(e) ==
  /\ undecided[e] \subseteq found[e]
  /\ \A f \in undecided[e] : group[f] = f
  /\ \A f \in found[e] :
       /\ group[f] \in found[e] /\ group[group[f]] = group[f]
       /\ IF group[f] \in undecided[e] THEN finding[f] = "CANDIDATE" ELSE Decided(f)
AllDecided(e) == \A f \in found[e] : Decided(f)

DecisionsProgress ==
  \A e \in Executions :
    /\ xpc[e] = "groups" => Undecided(e)
    /\ xpc[e] = "decide" => HalfDecided(e) /\ ok[e] = Agents
    /\ xpc[e] \in {"status", "done"} /\ error[e] = "none" =>
         IF ok[e] = Agents THEN AllDecided(e) ELSE Undecided(e)

(* What an execution knows at each point. *)
StagesAgree ==
  \A e \in Executions :
    /\ xpc[e] \in {"unborn", "processing", "agents"} => found[e] = {}
    /\ error[e] # "none" => xpc[e] \in {"status", "done", "dead"}
    /\ outcome[e] # "none" => xpc[e] = "done"
    /\ outcome[e] \in {"COMPLETED", "DECIDING"} => outcome[e] = Result(e)
    /\ outcome[e] = "FAILED" /\ error[e] = "none" => ok[e] # Agents \/ found[e] = {}

(* What a publisher read stays chosen until it is marked. *)
PayloadIsChosen ==
  \A p \in Publishers : ppc[p] \in {"post", "posted"} => \A f \in payload[p] : Chosen(f)

TaskRowsAreTrue ==
  \A e \in Executions : \A k \in Agents : \A s \in {"SUCCESS", "FAILED"} :
    /\ xpc[e] \in {"unborn", "processing", "agents", "tasks"} => task(e, k, s) \notin tasks
    /\ \/ xpc[e] \in {"findings", "groups", "decide", "status"}
       \/ outcome[e] \in {"COMPLETED", "DECIDING"}
       => (task(e, k, s) \in tasks <=> s = verdict(e, k))

(* As long as one execution has started, the row says where it is, and a claim
   that a publisher works under excludes the others. *)
OneRunDrives ==
  /\ \A e \in Executions : xpc[e] = "unborn" <=> e > started
  /\ started <= 1 =>
       /\ started = 0 => status = "QUEUED"
       /\ \A e \in Executions :
            /\ xpc[e] = "processing" => status = "PROCESSING"
            /\ xpc[e] \in Running \ {"processing"} => status = "AGENTS_RUNNING"
       /\ \A p, q \in Publishers : ppc[p] # "idle" =>
            status = "PUBLISHING" /\ (ppc[q] # "idle" => p = q)

RunInvariant ==
  /\ FindingsHaveOneOwner
  /\ GroupsAreStored
  /\ DecisionsProgress
  /\ StagesAgree
  /\ PayloadIsChosen
  /\ TaskRowsAreTrue

-----------------------------------------------------------------------------
(* A claim of the docs that the code does not keep.

   "Transitions are enforced by the orchestrator", with PUBLISHED the final
   state: transition() sets any status over any other. *)
PublishedIsFinal == [][status = "PUBLISHED" => status' = "PUBLISHED"]_vars

=============================================================================
