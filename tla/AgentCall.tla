------------------------------ MODULE AgentCall ------------------------------
(***************************************************************************)
(* One agent of one review, from the supervisor's call of its runner to    *)
(* the verdict it records: the resilient provider's attempts and fallback, *)
(* the parser and the single repair, in this process (wait_for cancels it) *)
(* or as a Celery task (which wait_for leaves running).                    *)
(*                                                                         *)
(* Time is discrete.  A provider answers within LlmTimeout or times out;   *)
(* the retries its client library makes by itself are inside the call, and *)
(* may only lengthen it.  The backoff (2 s to 30 s) is shorter than a tick *)
(* and is left out, as are prompts, tracing and the price table: an        *)
(* answered call costs 1.                                                  *)
(***************************************************************************)
EXTENDS Integers, FiniteSets, Sequences, SequencesExt

CONSTANTS
  Setups,           \* deployments: [runner, provider, keys, scope]
  MaxRetries,       \* llm_max_retries
  MaxAgentRetries,  \* orchestrator_max_agent_retries
  LlmTimeout,       \* llm_timeout_seconds, in ticks
  AgentTimeout,     \* orchestrator_agent_timeout_seconds, in ticks
  JoinTimeout,      \* join_timeout_seconds, in ticks
  Noise,            \* text without a findings array
  Answers,          \* what a model may write: Noise, or a sequence of items
  ChangedPaths,     \* paths of the scope
  Categories,       \* the agent's categories, as sequences of their parts
  Cap,              \* MAX_FINDINGS_PER_BATCH
  None,             \* no line, no payload, no exception
  MaxCrashes        \* bound: workers that die with a task unacknowledged

ASSUME CallAssumption ==
  /\ MaxRetries \in Nat /\ MaxAgentRetries \in Nat /\ MaxCrashes \in Nat
  /\ LlmTimeout \in Nat \ {0} /\ AgentTimeout \in Nat \ {0} /\ JoinTimeout \in Nat \ {0}
  /\ Cap \in Nat
  /\ \A s \in (Answers \ {Noise}) \cup Categories : s \in Seq({s[i] : i \in DOMAIN s})
  /\ \A s \in Setups : /\ s.runner \in {"in_process", "celery"}
                       /\ s.provider \in {"openai", "anthropic", "mock"}
                       /\ s.keys \subseteq {"openai", "anthropic"}
                       /\ s.scope \in BOOLEAN

VARIABLES
  setup,    \* the deployment
  round,    \* calls of runner.run so far
  waited,   \* ticks the supervisor has awaited the running call
  jobs,     \* round -> its execution
  verdict,  \* "none", "waiting", "pending", "success" or "failed"
  result,   \* the payload the supervisor keeps, or None
  crashes

vars == <<setup, round, waited, jobs, verdict, result, crashes>>

(* The supervisor calls the runner at most this often (RETRY_AGENTS). *)
Rounds == 1..(IF MaxAgentRetries = 0 THEN 1 ELSE MaxAgentRetries)

Celery == setup.runner = "celery"

-----------------------------------------------------------------------------
(* build_llm_provider: the other provider is the fallback if it has a key. *)
Other == [openai |-> "anthropic", anthropic |-> "openai"]
HasFallback == setup.provider # "mock" /\ Other[setup.provider] \in setup.keys
Configured == setup.provider = "mock" \/ setup.provider \in setup.keys
ServedBy(j) == IF jobs[j].fallback THEN Other[setup.provider] ELSE setup.provider

(* What a call may end with, other than an answer: no connection, no answer
   in time, 429 or 5xx, one of 400/401/403/404/422, any other status, a body
   without a choice. *)
Faults(p) ==
  IF p = "mock" THEN {"exhausted"}
  ELSE {"connection", "timeout", "overload", "rejected", "conflict"}
         \cup (IF p = "openai" THEN {"hollow"} ELSE {})

(* Mutants, here and below: forms of the definition that follows with a
   plausible bug, which a property must notice. *)
RetriesRejections(p, fault) ==
  CASE fault = "hollow" -> "unexpected"
    [] fault # "hollow" /\ p # "mock" -> "retryable"
    [] OTHER -> "fatal"

(* What the provider raises: Anthropic's first handler names APIStatusError,
   the superclass of its rejections, and not APIConnectionError. *)
Raised(p, fault) ==
  CASE p = "mock" -> "fatal"
    [] p = "openai" /\ fault \in {"connection", "timeout", "overload"} -> "retryable"
    [] p = "openai" /\ fault = "rejected" -> "fatal"
    [] p = "openai" /\ fault \in {"conflict", "hollow"} -> "unexpected"
    [] p = "anthropic" /\ fault = "connection" -> "fatal"
    [] OTHER -> "retryable"

-----------------------------------------------------------------------------
(* parse_batch. *)
Acceptable(item) ==
  /\ item.wellFormed
  /\ item.first = None \/ item.last = None \/ item.first <= item.last
  /\ item.path \in ChangedPaths
  /\ Categories = {} \/ \E c \in Categories : IsPrefix(c, item.category)

(* The items looked at, and of these the valid ones, by their place. *)
Shown(items) == 1..(IF Len(items) < Cap THEN Len(items) ELSE Cap)
Valid(items) == {i \in Shown(items) : Acceptable(items[i])}
Overage(items) == IF Len(items) > Cap THEN Len(items) - Cap ELSE 0

ParseIgnoresOverage(items) ==
  [findings |-> [i \in Valid(items) |-> items[i]],
   raw |-> Len(items),
   invalid |-> Cardinality(Shown(items) \ Valid(items))]

Parse(items) ==
  [findings |-> [i \in Valid(items) |-> items[i]],
   raw |-> Len(items),
   invalid |-> Cardinality(Shown(items) \ Valid(items)) + Overage(items)]

-----------------------------------------------------------------------------
(* An execution: where it is, whom it asks for the how-manieth time, and for
   the properties: calls made, answers paid for, rejections by OpenAI. *)
Idle == [at |-> "idle", fallback |-> FALSE, attempt |-> 0, repaired |-> FALSE, age |-> 0,
         raised |-> None, parsed |-> None, calls |-> 0, paid |-> 0, refused |-> FALSE]

Init ==
  /\ setup \in Setups
  /\ round = 0 /\ waited = 0 /\ crashes = 0
  /\ jobs = [j \in Rounds |-> Idle]
  /\ verdict = "none" /\ result = None

(* provider.complete from its first attempt. *)
FirstAttempt(job) ==
  [job EXCEPT !.at = "calling", !.fallback = FALSE, !.attempt = 1, !.age = 0, !.calls = @ + 1]

Raise(job, error) == [job EXCEPT !.at = "done", !.raised = error, !.age = 0]

(* run_agent: no provider without its key, no agent without a scope. *)
Begin(job) ==
  CASE ~setup.scope -> Raise(job, "scope")
    [] setup.scope /\ ~Configured -> Raise(job, "fatal")
    [] OTHER -> FirstAttempt(job)

Queue(job) == [job EXCEPT !.at = "queued"]

CallRunner ==
  /\ verdict \in {"none", "pending"} /\ round + 1 \in Rounds
  /\ round' = round + 1
  /\ waited' = 0
  /\ verdict' = "waiting"
  /\ jobs' = [jobs EXCEPT ![round + 1] = IF Celery THEN Queue(@) ELSE Begin(@)]
  /\ UNCHANGED <<setup, result, crashes>>

(* A worker takes the task. *)
Deliver(j) ==
  /\ jobs[j].at = "queued"
  /\ jobs' = [jobs EXCEPT ![j] = Begin(@)]
  /\ UNCHANGED <<setup, round, waited, verdict, result, crashes>>

TryAgain(job) == [job EXCEPT !.attempt = @ + 1, !.age = 0, !.calls = @ + 1]
AskOther(job) == [job EXCEPT !.fallback = TRUE, !.age = 0, !.calls = @ + 1]

(* ResilientLLMProvider.complete after a failed call.  The mock is not
   wrapped: its only failure is fatal in any case. *)
AfterFailure(job, error) ==
  CASE job.fallback -> Raise(job, IF error = "retryable" THEN "fatal" ELSE error)
    [] ~job.fallback /\ error = "retryable" /\ job.attempt <= MaxRetries -> TryAgain(job)
    [] ~job.fallback /\ error = "retryable" /\ job.attempt > MaxRetries /\ HasFallback -> AskOther(job)
    [] OTHER -> Raise(job, error)

Refused(job, byOpenAI) == [job EXCEPT !.refused = @ \/ byOpenAI]

CallFails(j) ==
  /\ jobs[j].at = "calling"
  /\ \E fault \in Faults(ServedBy(j)) :
       /\ setup.provider = "mock" \/ (fault = "timeout" <=> jobs[j].age = LlmTimeout)
       /\ jobs' = [jobs EXCEPT ![j] =
            AfterFailure(Refused(@, ServedBy(j) = "openai" /\ fault = "rejected"),
                         Raised(ServedBy(j), fault))]
  /\ UNCHANGED <<setup, round, waited, verdict, result, crashes>>

Repair(job) == [job EXCEPT !.repaired = TRUE]

RepairAgain(job) == FirstAttempt(Repair(job))

(* BaseReviewAgent.run after an answer it cannot parse. *)
Unparseable(job) ==
  IF job.repaired THEN Raise(job, "output") ELSE FirstAttempt(Repair(job))

Pay(job) == [job EXCEPT !.paid = @ + 1]
Accept(job, answer) == [job EXCEPT !.at = "done", !.parsed = Parse(answer), !.age = 0]

Answered(job, answer) ==
  IF answer = Noise THEN Unparseable(Pay(job)) ELSE Accept(Pay(job), answer)

CallAnswers(j) ==
  /\ jobs[j].at = "calling" /\ setup.provider # "mock" /\ jobs[j].age < LlmTimeout
  /\ \E a \in Answers : jobs' = [jobs EXCEPT ![j] = Answered(@, a)]
  /\ UNCHANGED <<setup, round, waited, verdict, result, crashes>>

Lost(job) == [Idle EXCEPT !.at = "queued", !.calls = job.calls, !.paid = job.paid]

(* The worker dies: acks_late puts the task back on the queue. *)
WorkerDies(j) ==
  /\ Celery /\ jobs[j].at = "calling" /\ crashes < MaxCrashes
  /\ crashes' = crashes + 1
  /\ jobs' = [jobs EXCEPT ![j] = Lost(@)]
  /\ UNCHANGED <<setup, round, waited, verdict, result>>

-----------------------------------------------------------------------------
Older(job) == [job EXCEPT !.age = @ + 1]

Tick ==
  /\ verdict = "waiting" \/ \E j \in Rounds : jobs[j].at = "calling"
  /\ verdict = "waiting" => waited < AgentTimeout
  /\ \A j \in Rounds : jobs[j].at = "calling" => jobs[j].age < LlmTimeout
  /\ waited' = IF verdict = "waiting" THEN waited + 1 ELSE waited
  /\ jobs' = [j \in Rounds |-> IF jobs[j].at = "calling" THEN Older(jobs[j]) ELSE jobs[j]]
  /\ UNCHANGED <<setup, round, verdict, result, crashes>>

(* What the fan-out node and, for a transient failure, RETRY_AGENTS make of it. *)
Fails(retryable) == verdict' = IF retryable /\ round < MaxAgentRetries THEN "pending" ELSE "failed"

Waiting == verdict = "waiting"
Finished(j) == jobs[j].at = "done"

(* The execution ends with findings. *)
JoinSuccess ==
  /\ Waiting /\ Finished(round) /\ jobs[round].raised = None
  /\ verdict' = "success"
  /\ result' = [round |-> round, parsed |-> jobs[round].parsed, cost |-> 1,
                repaired |-> jobs[round].repaired]
  /\ UNCHANGED <<setup, round, waited, jobs, crashes>>

(* The execution ends with an exception: _classify looks at it, the Celery
   runner does not. *)
JoinFailure ==
  /\ Waiting /\ Finished(round) /\ jobs[round].raised # None
  /\ Fails(~Celery /\ jobs[round].raised = "retryable")
  /\ UNCHANGED <<setup, round, waited, jobs, result, crashes>>

(* task.get gives up; the task goes on. *)
JoinTimesOut ==
  /\ Waiting /\ Celery /\ ~Finished(round) /\ waited >= JoinTimeout
  /\ Fails(TRUE)
  /\ UNCHANGED <<setup, round, waited, jobs, result, crashes>>

Cancelled(job) == [job EXCEPT !.at = "cancelled"]

LeaveRunning ==
  /\ Waiting /\ waited = AgentTimeout /\ ~Finished(round)
  /\ verdict' = "failed"
  /\ UNCHANGED <<setup, round, waited, jobs, result, crashes>>

CancelsOnly ==
  /\ Waiting /\ waited = AgentTimeout /\ ~Finished(round) /\ ~Celery
  /\ verdict' = "failed"
  /\ jobs' = [jobs EXCEPT ![round] = Cancelled(@)]
  /\ UNCHANGED <<setup, round, waited, result, crashes>>

(* asyncio.wait_for: the coroutine is cancelled, a Celery task is not. *)
HardTimeout ==
  /\ Waiting /\ waited = AgentTimeout /\ ~Finished(round)
  /\ verdict' = "failed"
  /\ jobs' = IF Celery THEN jobs ELSE [jobs EXCEPT ![round] = Cancelled(@)]
  /\ UNCHANGED <<setup, round, waited, result, crashes>>

Next ==
  \/ CallRunner \/ Tick \/ JoinSuccess \/ JoinFailure \/ JoinTimesOut \/ HardTimeout
  \/ \E j \in Rounds : Deliver(j) \/ CallFails(j) \/ CallAnswers(j) \/ WorkerDies(j)

Spec == Init /\ [][Next]_vars

(* The event loop schedules the supervisor and its timer; nothing is assumed
   of the providers beyond their timeout, or of the workers. *)
Fairness == WF_vars(CallRunner \/ Tick \/ JoinSuccess \/ JoinFailure \/ HardTimeout)
            /\ \A j \in Rounds : WF_vars(CallFails(j) \/ CallAnswers(j))

FairSpec == Spec /\ Fairness

-----------------------------------------------------------------------------
Errors == {"scope", "fatal", "retryable", "unexpected", "output"}
Parsed == {Parse(a) : a \in Answers \ {Noise}}

Execution ==
  [at : {"idle", "queued", "calling", "done", "cancelled"}, fallback : BOOLEAN,
   attempt : 0..MaxRetries + 1, repaired : BOOLEAN, age : 0..LlmTimeout,
   raised : Errors \cup {None}, parsed : Parsed \cup {None},
   calls : Nat, paid : Nat, refused : BOOLEAN]

Kept == [round : Rounds, parsed : Parsed, cost : {1}, repaired : BOOLEAN]

(* None marks the absence of each of these. *)
ASSUME NoneAssumption == None \notin Errors /\ None \notin Parsed /\ None \notin Kept

TypeOK ==
  /\ setup \in Setups /\ round \in {0} \cup Rounds
  /\ waited \in 0..AgentTimeout /\ crashes \in 0..MaxCrashes
  /\ verdict \in {"none", "waiting", "pending", "success", "failed"}
  /\ result \in Kept \cup {None}
  /\ jobs \in [Rounds -> Execution]

(* What one execution may cost: the repair asks both providers again, and a
   redelivered task starts anew, but no failure is retried twice over
   (llm.py:386-424, base.py:91-98, agent_tasks.py:61-66). *)
Asks == MaxRetries + 1 + (IF HasFallback THEN 1 ELSE 0)
Budget(deliveries) == deliveries * (2 * Asks)
CallsAreBounded == \A j \in Rounds : jobs[j].calls <= Budget(crashes + 1)

(* A request OpenAI refuses ends the execution, and with it the agent: no
   attempt, fallback, repair or graph retry follows (llm.py:402-403, 423,
   base.py:93-95, runners.py:131-132). *)
RefusalEndsTheAgent ==
  \A j \in Rounds : jobs[j].refused =>
    /\ jobs[j].at = "done" /\ jobs[j].raised = "fatal"
    /\ ~Celery => round = j /\ verdict \in {"waiting", "failed"}

(* Findings the supervisor keeps name changed files and the agent's own
   categories (where it has any), with their lines in order, no more than the
   cap; every item the model wrote is counted; and the cost on record leaves
   out at most the answer that was repaired (contract.py:276-330,
   base.py:101-117). *)
FindingsAreVouched ==
  result # None =>
    LET findings == result.parsed.findings IN
    /\ Cardinality(DOMAIN findings) <= Cap
    /\ result.parsed.raw = Cardinality(DOMAIN findings) + result.parsed.invalid
    /\ \A i \in DOMAIN findings :
         LET f == findings[i] IN
         /\ f.path \in ChangedPaths
         /\ f.first # None /\ f.last # None => f.first <= f.last
         /\ Categories # {} => \E c \in Categories : c = SubSeq(f.category, 1, Len(c))

CostIsVouched ==
  result # None /\ ~Celery =>
    jobs[result.round].paid = result.cost + (IF result.repaired THEN 1 ELSE 0)

KeptIsVouched == FindingsAreVouched /\ CostIsVouched

(* In this process nobody goes on asking a provider for an agent that has its
   verdict or waits for its retry (graph.py:79-81). *)
NoCallAfterTheVerdict ==
  ~Celery /\ verdict # "waiting" => \A j \in Rounds : jobs[j].at # "calling"

(* Whatever the providers and the workers do, the agent gets its verdict
   (graph.py:79-101, 145-157). *)
EventuallyDecided == <>(verdict \in {"success", "failed"})

-----------------------------------------------------------------------------
(* Why these hold: the inductive invariant of the proofs. *)

(* The calls an execution has made since it began, at most. *)
Spent(job) ==
  (IF job.repaired THEN Asks ELSE 0) + job.attempt + (IF job.fallback THEN 1 ELSE 0)

(* An execution, taken by itself.  In this process, the only answer that does
   not count is the one that was repaired. *)
Sound(job) ==
  /\ job.fallback => HasFallback
  /\ job.at \in {"idle", "queued"} => ~job.repaired /\ job.calls <= Budget(crashes)
  /\ job.at = "calling" => job.attempt >= 1 /\ job.calls <= Budget(crashes) + Spent(job)
  /\ job.calls <= Budget(crashes + 1)
  /\ IF job.at = "done" THEN job.raised = None <=> job.parsed # None
                        ELSE job.raised = None /\ job.parsed = None
  /\ job.refused => job.at = "done" /\ job.raised = "fatal"
  /\ ~Celery /\ job.at \in {"idle", "calling"} => job.paid = IF job.repaired THEN 1 ELSE 0
  /\ ~Celery /\ job.at = "done" /\ job.raised = None =>
       job.paid = 1 + IF job.repaired THEN 1 ELSE 0

(* What the supervisor knows of the executions. *)
Supervised ==
  /\ \A j \in Rounds : jobs[j].at = "idle" <=> j > round
  /\ verdict = "waiting" => round \in Rounds
  /\ ~Celery => \A j \in Rounds :
       /\ jobs[j].at # "queued"
       /\ jobs[j].at = "calling" => j = round /\ verdict = "waiting"
       /\ jobs[j].refused => j = round /\ verdict \in {"waiting", "failed"}
  /\ result # None =>
       LET job == jobs[result.round] IN
       job.at = "done" /\ job.raised = None /\ job.repaired = result.repaired

CallInvariant == (\A j \in Rounds : Sound(jobs[j])) /\ Supervised

(* llm.py:8-9: a timeout is "retried with bounded backoff ..., then a fallback
   provider is attempted".  Not so with the default settings: the supervisor's
   120 s end with the provider's. *)
TimeoutsAreRetried ==
  \A j \in Rounds : jobs[j].at = "cancelled" /\ jobs[j].age = LlmTimeout =>
    jobs[j].fallback \/ jobs[j].attempt > MaxRetries
=============================================================================
