----------------------------- MODULE AgentGraph -----------------------------
(***************************************************************************)
(* The LangGraph state machine of one review run: SUPERVISOR_PLAN, then    *)
(* AGENT_FAN_OUT and RETRY_AGENTS in turns, then COMPLETE or FAILED.       *)
(*                                                                         *)
(* A fan-out pass awaits one agent after the other.  What an agent answers *)
(* (findings, a transient or a permanent failure, no answer within the     *)
(* hard timeout) is nondeterministic: the runners flatten every exception  *)
(* into one of these.  Findings, notes and errors are left out.            *)
(***************************************************************************)
EXTENDS Integers, FiniteSets

CONSTANTS
  Agents,         \* registered agents, or the targets of an iteration
  GraphRetries,   \* orchestrator_max_agent_retries
  RecursionLimit  \* LangGraph's bound on the steps of one invocation

(* The configured retries fit LangGraph's bound (2 retries, 25 steps). *)
ASSUME GraphAssumption ==
  /\ IsFiniteSet(Agents)
  /\ GraphRetries \in Nat
  /\ RecursionLimit \in Nat
  /\ 5 <= RecursionLimit /\ 2 * GraphRetries + 3 <= RecursionLimit

VARIABLES
  node,      \* the node to run next; "END" after a terminal
  planned,   \* plan.agent_keys
  targets,   \* agents the running fan-out pass has not awaited yet
  pending,   \* agents with a transient failure in this pass
  results,   \* agents with a success payload
  failed,    \* permanent failures [agent, attempts]
  retries,   \* agent -> retries counted
  terminal,  \* "none", "COMPLETE" or "FAILED"
  steps,     \* LangGraph steps taken
  calls      \* history: agent -> times the runner was called

graphVars == <<node, planned, targets, pending, results, failed, retries, terminal, steps, calls>>

Nodes == {"SUPERVISOR_PLAN", "AGENT_FAN_OUT", "running", "RETRY_AGENTS", "COMPLETE", "FAILED",
          "END"}

FailedAgents == {f.agent : f \in failed}
Diagnosed == results \cup FailedAgents
failure(k, n) == [agent |-> k, attempts |-> n]

-----------------------------------------------------------------------------
GraphInit ==
  /\ node = "SUPERVISOR_PLAN"
  /\ planned = {}
  /\ targets = {}
  /\ pending = {}
  /\ results = {}
  /\ failed = {}
  /\ retries = [k \in Agents |-> 0]
  /\ terminal = "none"
  /\ steps = 0
  /\ calls = [k \in Agents |-> 0]

(* One step of LangGraph, or GraphRecursionError. *)
Step(from, to) ==
  /\ node = from /\ node' = to
  /\ steps < RecursionLimit /\ steps' = steps + 1

Plan ==
  /\ Step("SUPERVISOR_PLAN", "AGENT_FAN_OUT")
  /\ planned' = Agents
  /\ UNCHANGED <<targets, pending, results, failed, retries, terminal, calls>>

(* Mutants, here and below: forms of the definition that follows with a
   plausible bug, which a property must notice. *)
FanOutRerunsFailed ==
  /\ Step("AGENT_FAN_OUT", "running")
  /\ targets' = planned \ results
  /\ pending' = {}
  /\ UNCHANGED <<planned, results, failed, retries, terminal, calls>>

(* A pass runs every planned agent without a verdict. *)
FanOut ==
  /\ Step("AGENT_FAN_OUT", "running")
  /\ targets' = planned \ Diagnosed
  /\ pending' = {}
  /\ UNCHANGED <<planned, results, failed, retries, terminal, calls>>

Await(k) ==
  /\ node = "running" /\ k \in targets
  /\ targets' = targets \ {k}
  /\ calls' = [calls EXCEPT ![k] = @ + 1]
  /\ UNCHANGED <<node, planned, retries, terminal, steps>>

Succeeds(k) ==
  /\ Await(k)
  /\ results' = results \cup {k}
  /\ UNCHANGED <<pending, failed>>

FailsTransiently(k) ==
  /\ Await(k)
  /\ pending' = pending \cup {k}
  /\ UNCHANGED <<results, failed>>

(* A permanent failure or the hard timeout. *)
FailsForGood(k) ==
  /\ Await(k)
  /\ failed' = failed \cup {failure(k, retries[k] + 1)}
  /\ UNCHANGED <<pending, results>>

RouteIgnoresPending ==
  /\ node = "running" /\ targets = {}
  /\ node' = IF failed # {} THEN "FAILED" ELSE IF pending # {} THEN "RETRY_AGENTS" ELSE "COMPLETE"
  /\ UNCHANGED <<planned, targets, pending, results, failed, retries, terminal, steps, calls>>

(* route_after_fan_out. *)
Route ==
  /\ node = "running" /\ targets = {}
  /\ node' = CASE pending # {} -> "RETRY_AGENTS"
               [] pending = {} /\ failed # {} -> "FAILED"
               [] OTHER -> "COMPLETE"
  /\ UNCHANGED <<planned, targets, pending, results, failed, retries, terminal, steps, calls>>

Counted == [k \in Agents |-> IF k \in pending THEN retries[k] + 1 ELSE retries[k]]

RetryForever ==
  /\ Step("RETRY_AGENTS", "AGENT_FAN_OUT")
  /\ pending' = {}
  /\ UNCHANGED <<planned, targets, results, failed, retries, terminal, calls>>

(* Each pending agent is counted one retry, and given up at the last one. *)
Retry ==
  /\ Step("RETRY_AGENTS", "AGENT_FAN_OUT")
  /\ retries' = Counted
  /\ failed' = failed \cup {failure(k, Counted[k]) : k \in {a \in pending : Counted[a] >= GraphRetries}}
  /\ pending' = {}
  /\ UNCHANGED <<planned, targets, results, terminal, calls>>

Complete ==
  /\ Step("COMPLETE", "END")
  /\ terminal' = "COMPLETE"
  /\ UNCHANGED <<planned, targets, pending, results, failed, retries, calls>>

Fail ==
  /\ Step("FAILED", "END")
  /\ terminal' = "FAILED"
  /\ UNCHANGED <<planned, targets, pending, results, failed, retries, calls>>

Answer(k) == Succeeds(k) \/ FailsTransiently(k) \/ FailsForGood(k)

GraphNext ==
  \/ Plan \/ FanOut \/ Route \/ Retry \/ Complete \/ Fail
  \/ \E k \in Agents : Answer(k)

GraphSpec == GraphInit /\ [][GraphNext]_graphVars

(* The event loop runs the next node, and every agent answers or times out. *)
FairGraphSpec == GraphSpec /\ WF_graphVars(GraphNext)

-----------------------------------------------------------------------------
Passes == IF GraphRetries = 0 THEN 1 ELSE GraphRetries

GraphTypeOK ==
  /\ node \in Nodes
  /\ planned \subseteq Agents
  /\ targets \subseteq planned
  /\ pending \subseteq planned
  /\ results \subseteq planned
  /\ failed \subseteq [agent : planned, attempts : 1 .. Passes]
  /\ retries \in [Agents -> 0 .. Passes]
  /\ terminal \in {"none", "COMPLETE", "FAILED"}
  /\ steps \in 0 .. RecursionLimit
  /\ calls \in [Agents -> 0 .. Passes]

(* The attempts recorded for a failure are the calls that were made, and no
   agent is called again after its verdict, nor more often than the retries
   allow: each call costs LLM tokens. *)
AttemptsAreCalls ==
  /\ \A f \in failed : f.attempts = calls[f.agent]
  /\ \A f, g \in failed : f.agent = g.agent => f = g

(* Nothing is dropped on the way to a terminal: every planned agent has one
   verdict, and the graph is COMPLETE only if all of them succeeded. *)
TerminalIsDiagnosed ==
  /\ results \cap FailedAgents = {}
  /\ terminal # "none" => planned = Diagnosed /\ pending = {}
  /\ terminal = "COMPLETE" => failed = {} /\ results = Agents
  /\ terminal = "FAILED" => failed # {}

(* However the agents answer, LangGraph's step bound is not hit: the graph
   never raises GraphRecursionError, which would leave the review undiagnosed. *)
EndsWithinLimit == node # "END" => steps < RecursionLimit

(* Every run of the graph ends in a diagnosed terminal. *)
EventuallyDiagnosed == <>(terminal # "none")

-----------------------------------------------------------------------------
(* Why these properties hold: the inductive invariant of the proofs. *)

(* Retry rounds so far: plan is step 1, then each round is two steps. *)
Round ==
  CASE node = "SUPERVISOR_PLAN" -> 0
    [] node = "AGENT_FAN_OUT" -> steps - 1
    [] node \in {"running", "RETRY_AGENTS", "COMPLETE", "FAILED"} -> steps - 2
    [] OTHER -> steps - 3

(* The agents without a verdict are in step with the rounds (2 steps each),
   and after the last round there are none. *)
InStep ==
  /\ Round \in 0 .. 2 * Passes
  /\ \A k \in planned \ Diagnosed :
       /\ Round = 2 * retries[k]
       /\ retries[k] < Passes
       /\ calls[k] = IF k \in pending THEN retries[k] + 1 ELSE retries[k]

NodeInvariant ==
  /\ IF node = "SUPERVISOR_PLAN"
     THEN planned = {} /\ steps = 0 /\ \A k \in Agents : calls[k] = 0 /\ retries[k] = 0
     ELSE planned = Agents
  /\ node # "running" => targets = {}
  /\ targets \cap (Diagnosed \cup pending) = {}
  /\ pending \cap Diagnosed = {}
  /\ node = "running" => planned = Diagnosed \cup targets \cup pending
  /\ node \in {"SUPERVISOR_PLAN", "AGENT_FAN_OUT"} => pending = {}
  /\ node = "RETRY_AGENTS" => planned = Diagnosed \cup pending /\ pending # {}
  /\ node \in {"COMPLETE", "FAILED", "END"} => planned = Diagnosed /\ pending = {}
  /\ node = "COMPLETE" => failed = {}
  /\ node = "FAILED" => failed # {}
  /\ IF node = "END"
     THEN terminal = IF failed = {} THEN "COMPLETE" ELSE "FAILED"
     ELSE terminal = "none"

GraphInvariant == InStep /\ NodeInvariant /\ AttemptsAreCalls /\ TerminalIsDiagnosed

-----------------------------------------------------------------------------
FanOutOutcome == INSTANCE FanOutPromise WITH
  succeeded <- results,
  gaveUp <- FailedAgents

(* The service that runs the graph may rely on FanOutPromise: a verdict once
   given stands through all later passes and retries. *)
KeepsFanOutPromise == FanOutOutcome!Spec

(* A claim of the comments that the code does not keep.

   "retries: agent_key -> number of retries already spent" and "permanently
   failed after n retries": n retries are n + 1 calls of the agent. *)
RetriesSpentWereMade ==
  terminal # "none" => \A k \in planned : retries[k] < calls[k]

=============================================================================
