---------------------------- MODULE AgentProofs ----------------------------
(***************************************************************************)
(* Theorems about the two halves of an agent's work.  AgentGraph, for any  *)
(* set of agents and any number of retries that fits LangGraph's step      *)
(* bound; then AgentCall, for any deployments, answers, limits, times and  *)
(* crashes.                                                                *)
(***************************************************************************)
EXTENDS AgentGraph, AgentCall, FiniteSetTheorems, TLAPS

-----------------------------------------------------------------------------
(* AgentGraph. *)

LEMMA PassesFacts ==
  /\ Passes \in Nat /\ Passes >= 1 /\ Passes >= GraphRetries
  /\ GraphRetries >= 1 => Passes = GraphRetries
  /\ 2 * Passes + 3 <= RecursionLimit
  /\ RecursionLimit \in Nat /\ GraphRetries \in Nat
BY GraphAssumption DEF Passes

LEMMA GraphStart == GraphInit => GraphTypeOK /\ GraphInvariant
BY PassesFacts DEF GraphInit, GraphTypeOK, Nodes, GraphInvariant, InStep, NodeInvariant, Round,
   AttemptsAreCalls, TerminalIsDiagnosed, Diagnosed, FailedAgents

LEMMA FailureFields ==
  \A k, n : failure(k, n).agent = k /\ failure(k, n).attempts = n
BY DEF failure

(* Who has failed after failures are added for the agents in K. *)
LEMMA MoreFailed ==
  ASSUME NEW K, failed' = failed \cup {failure(k, Counted[k]) : k \in K}
  PROVE  FailedAgents' = FailedAgents \cup K
<1>1. ASSUME NEW a \in FailedAgents' PROVE a \in FailedAgents \cup K
  <2>1. PICK f \in failed' : a = f.agent
    BY DEF FailedAgents
  <2> QED BY <2>1, FailureFields DEF FailedAgents
<1>2. ASSUME NEW a \in FailedAgents PROVE a \in FailedAgents'
  BY DEF FailedAgents
<1>3. ASSUME NEW a \in K PROVE a \in FailedAgents'
  <2>1. failure(a, Counted[a]) \in failed' /\ failure(a, Counted[a]).agent = a
    BY FailureFields
  <2> QED BY <2>1 DEF FailedAgents
<1> QED BY <1>1, <1>2, <1>3

LEMMA OneMoreFailed ==
  ASSUME NEW k, NEW n, failed' = failed \cup {failure(k, n)}
  PROVE  FailedAgents' = FailedAgents \cup {k}
<1>1. ASSUME NEW a \in FailedAgents' PROVE a \in FailedAgents \cup {k}
  <2>1. PICK f \in failed' : a = f.agent
    BY DEF FailedAgents
  <2> QED BY <2>1, FailureFields DEF FailedAgents
<1>2. ASSUME NEW a \in FailedAgents PROVE a \in FailedAgents'
  BY DEF FailedAgents
<1>3. k \in FailedAgents'
  <2>1. failure(k, n) \in failed' /\ failure(k, n).agent = k
    BY FailureFields
  <2> QED BY <2>1 DEF FailedAgents
<1> QED BY <1>1, <1>2, <1>3

LEMMA FailedTyped ==
  ASSUME GraphTypeOK
  PROVE  FailedAgents \subseteq planned /\ Diagnosed \subseteq planned
BY DEF GraphTypeOK, FailedAgents, Diagnosed

LEMMA PlanStep ==
  ASSUME GraphTypeOK, GraphInvariant, Plan
  PROVE  GraphTypeOK' /\ GraphInvariant'
<1>1. /\ planned = {} /\ steps = 0 /\ \A k \in Agents : calls[k] = 0 /\ retries[k] = 0
      /\ Diagnosed = {} /\ failed = {} /\ targets = {} /\ pending = {} /\ results = {}
  BY FailedTyped DEF Plan, Step, GraphInvariant, NodeInvariant, GraphTypeOK
<1>2. GraphTypeOK'
  BY <1>1, PassesFacts DEF Plan, Step, GraphTypeOK, Nodes
<1>3. InStep'
  BY <1>1, PassesFacts DEF Plan, Step, InStep, Round, Diagnosed, FailedAgents
<1>4. NodeInvariant'
  BY <1>1 DEF Plan, Step, GraphInvariant, NodeInvariant, Diagnosed, FailedAgents
<1>5. AttemptsAreCalls' /\ TerminalIsDiagnosed'
  BY <1>1 DEF Plan, Step, GraphInvariant, NodeInvariant, AttemptsAreCalls, TerminalIsDiagnosed,
     FailedAgents
<1> QED BY <1>2, <1>3, <1>4, <1>5 DEF GraphInvariant

LEMMA FanOutStep ==
  ASSUME GraphTypeOK, GraphInvariant, FanOut
  PROVE  GraphTypeOK' /\ GraphInvariant'
<1> USE DEF FanOut, Step
<1>1. pending = {} /\ planned = Agents /\ terminal = "none"
  BY DEF GraphInvariant, NodeInvariant
<1>2. UNCHANGED <<Diagnosed, FailedAgents>>
  BY DEF Diagnosed, FailedAgents
<1>3. GraphTypeOK'
  BY PassesFacts DEF GraphTypeOK, Nodes
<1>4. InStep'
  <2>1. Round = steps - 1 /\ Round' = steps - 1 /\ steps \in Nat
    BY DEF Round, GraphTypeOK
  <2> QED BY <1>1, <1>2, <2>1 DEF GraphInvariant, InStep
<1>5. NodeInvariant'
  BY <1>1, <1>2, FailedTyped DEF GraphInvariant, NodeInvariant
<1>6. AttemptsAreCalls' /\ TerminalIsDiagnosed'
  BY <1>1, <1>2 DEF GraphInvariant, AttemptsAreCalls, TerminalIsDiagnosed
<1> QED BY <1>3, <1>4, <1>5, <1>6 DEF GraphInvariant

(* What all three answers of an agent have in common. *)
LEMMA AwaitFacts ==
  ASSUME GraphTypeOK, GraphInvariant, NEW k \in Agents, Await(k)
  PROVE  /\ node = "running" /\ node' = "running"
         /\ k \in planned \ Diagnosed /\ k \notin pending /\ k \in targets
         /\ planned' = planned /\ planned = Agents
         /\ calls[k] = retries[k] /\ retries[k] < Passes /\ retries[k] \in Nat
         /\ calls'[k] = retries[k] + 1
         /\ \A a \in Agents : a # k => calls'[a] = calls[a]
         /\ calls' \in [Agents -> 0 .. Passes]
         /\ Round' = Round
         /\ terminal = "none" /\ terminal' = "none"
<1>1. /\ node = "running" /\ node' = "running" /\ k \in targets
      /\ planned' = planned /\ terminal' = terminal /\ steps' = steps /\ retries' = retries
      /\ calls' = [calls EXCEPT ![k] = calls[k] + 1]
  BY DEF Await
<1>2. k \in planned \ Diagnosed /\ k \notin pending /\ planned = Agents /\ terminal = "none"
  BY <1>1 DEF GraphInvariant, NodeInvariant, GraphTypeOK
<1>3. calls[k] = retries[k] /\ retries[k] < Passes /\ retries[k] \in Nat
  BY <1>2, PassesFacts DEF GraphInvariant, InStep, GraphTypeOK
<1>4. /\ calls'[k] = retries[k] + 1
      /\ \A a \in Agents : a # k => calls'[a] = calls[a]
      /\ calls' \in [Agents -> 0 .. Passes]
  BY <1>1, <1>3, PassesFacts DEF GraphTypeOK
<1>5. Round' = Round
  BY <1>1 DEF Round
<1> QED BY <1>1, <1>2, <1>3, <1>4, <1>5

LEMMA AnswerStep ==
  ASSUME GraphTypeOK, GraphInvariant, NEW k \in Agents, Answer(k)
  PROVE  GraphTypeOK' /\ GraphInvariant'
<1>1. Await(k)
  BY DEF Answer, Succeeds, FailsTransiently, FailsForGood
<1>2. /\ targets' = targets \ {k}
      /\ UNCHANGED <<node, planned, retries, terminal, steps>>
  BY <1>1 DEF Await
<1>3. \/ results' = results \cup {k} /\ UNCHANGED <<pending, failed>>
      \/ pending' = pending \cup {k} /\ UNCHANGED <<results, failed>>
      \/ failed' = failed \cup {failure(k, retries[k] + 1)} /\ UNCHANGED <<pending, results>>
  BY DEF Answer, Succeeds, FailsTransiently, FailsForGood
<1>4. FailedAgents' = FailedAgents \/ FailedAgents' = FailedAgents \cup {k}
  BY <1>3, OneMoreFailed DEF FailedAgents
<1>5. /\ Diagnosed \subseteq Diagnosed' /\ pending \subseteq pending'
      /\ Diagnosed' \cup pending' = Diagnosed \cup pending \cup {k}
      /\ Diagnosed' \subseteq Diagnosed \cup {k} /\ pending' \subseteq pending \cup {k}
      /\ pending' \cap Diagnosed' = {}
      /\ results' \cap FailedAgents' = {}
  <2>1. /\ pending \cap Diagnosed = {} /\ k \notin Diagnosed /\ k \notin pending
        /\ results \cap FailedAgents = {}
    BY <1>1, AwaitFacts DEF GraphInvariant, NodeInvariant, TerminalIsDiagnosed
  <2>2. \/ results' = results \cup {k} /\ pending' = pending /\ FailedAgents' = FailedAgents
        \/ pending' = pending \cup {k} /\ results' = results /\ FailedAgents' = FailedAgents
        \/ FailedAgents' = FailedAgents \cup {k} /\ pending' = pending /\ results' = results
    BY <1>3, OneMoreFailed DEF FailedAgents
  <2> QED BY <2>1, <2>2 DEF Diagnosed
<1>6. GraphTypeOK'
  <2>1. failure(k, retries[k] + 1) \in [agent : planned, attempts : 1 .. Passes]
    BY <1>1, AwaitFacts, PassesFacts DEF failure
  <2>2. failed' \subseteq [agent : planned, attempts : 1 .. Passes]
    BY <1>3, <2>1 DEF GraphTypeOK
  <2>3. results' \subseteq planned /\ pending' \subseteq planned
    BY <1>1, <1>3, AwaitFacts DEF GraphTypeOK
  <2> QED BY <1>1, <1>2, <2>2, <2>3, AwaitFacts DEF GraphTypeOK
<1>7. InStep'
  <2>1. Round' = Round /\ Round \in 0 .. 2 * Passes
    BY <1>1, AwaitFacts DEF GraphInvariant, InStep
  <2>2. ASSUME NEW a \in planned' \ Diagnosed'
        PROVE  /\ Round' = 2 * retries'[a]
               /\ retries'[a] < Passes
               /\ calls'[a] = IF a \in pending' THEN retries'[a] + 1 ELSE retries'[a]
    <3>1. a \in planned \ Diagnosed /\ a \in Agents
      BY <1>2, <1>5 DEF GraphTypeOK
    <3>2. CASE a = k
      <4>1. a \in pending'
        BY <1>5, <3>2, <2>2
      <4> QED BY <1>1, <1>2, <2>1, <3>1, <3>2, <4>1, AwaitFacts DEF GraphInvariant, InStep
    <3>3. CASE a # k
      <4>1. (a \in pending') = (a \in pending)
        BY <1>5, <3>3
      <4> QED BY <1>1, <1>2, <2>1, <3>1, <3>3, <4>1, AwaitFacts DEF GraphInvariant, InStep
    <3> QED BY <3>2, <3>3
  <2> QED BY <2>1, <2>2 DEF InStep
<1>8. NodeInvariant'
  BY <1>1, <1>2, <1>5, AwaitFacts DEF GraphInvariant, NodeInvariant
<1>9. AttemptsAreCalls'
  <2>1. \A f \in failed : f.agent # k /\ f.agent \in Agents
    BY <1>1, AwaitFacts DEF Diagnosed, FailedAgents, GraphTypeOK
  <2>2. \A f \in failed : f.attempts = calls'[f.agent]
    BY <1>1, <2>1, AwaitFacts DEF GraphInvariant, AttemptsAreCalls
  <2>3. failure(k, retries[k] + 1).agent = k /\ failure(k, retries[k] + 1).attempts = calls'[k]
    BY <1>1, AwaitFacts DEF failure
  <2>4. \A f \in failed' : f \in failed \/ f = failure(k, retries[k] + 1)
    BY <1>3
  <2> QED BY <2>1, <2>2, <2>3, <2>4 DEF GraphInvariant, AttemptsAreCalls
<1>10. TerminalIsDiagnosed'
  BY <1>1, <1>5, AwaitFacts DEF TerminalIsDiagnosed
<1> QED BY <1>6, <1>7, <1>8, <1>9, <1>10 DEF GraphInvariant

LEMMA RouteStep ==
  ASSUME GraphTypeOK, GraphInvariant, Route
  PROVE  GraphTypeOK' /\ GraphInvariant'
<1>1. /\ node = "running" /\ targets = {}
      /\ node' = (CASE pending # {} -> "RETRY_AGENTS"
                    [] pending = {} /\ failed # {} -> "FAILED"
                    [] OTHER -> "COMPLETE")
      /\ UNCHANGED <<planned, targets, pending, results, failed, retries, terminal, steps, calls>>
  BY DEF Route
<1>2. UNCHANGED <<Diagnosed, FailedAgents>>
  BY <1>1 DEF Diagnosed, FailedAgents
<1>3. \/ node' = "RETRY_AGENTS" /\ pending # {}
      \/ node' = "FAILED" /\ pending = {} /\ failed # {}
      \/ node' = "COMPLETE" /\ pending = {} /\ failed = {}
  BY <1>1
<1>4. Round' = Round
  BY <1>1, <1>3 DEF Round
<1>5. GraphTypeOK'
  BY <1>1, <1>3 DEF GraphTypeOK, Nodes
<1>6. InStep'
  BY <1>1, <1>2, <1>4 DEF GraphInvariant, InStep
<1>7. NodeInvariant'
  BY <1>1, <1>2, <1>3 DEF GraphInvariant, NodeInvariant
<1>8. AttemptsAreCalls' /\ TerminalIsDiagnosed'
  BY <1>1, <1>2 DEF GraphInvariant, AttemptsAreCalls, TerminalIsDiagnosed
<1> QED BY <1>5, <1>6, <1>7, <1>8 DEF GraphInvariant

(* The agents a retry round gives up. *)
Exhausted == {k \in pending : Counted[k] >= GraphRetries}

LEMMA RetryStep ==
  ASSUME GraphTypeOK, GraphInvariant, Retry
  PROVE  GraphTypeOK' /\ GraphInvariant'
<1>1. /\ node = "RETRY_AGENTS" /\ node' = "AGENT_FAN_OUT"
      /\ steps < RecursionLimit /\ steps' = steps + 1
      /\ retries' = Counted
      /\ failed' = failed \cup {failure(k, Counted[k]) : k \in Exhausted}
      /\ pending' = {}
      /\ UNCHANGED <<planned, targets, results, terminal, calls>>
  BY DEF Retry, Step, Exhausted
<1>2. /\ planned = Agents /\ planned = Diagnosed \cup pending /\ pending \cap Diagnosed = {}
      /\ targets = {} /\ terminal = "none" /\ results \cap FailedAgents = {}
  BY <1>1 DEF GraphInvariant, NodeInvariant, TerminalIsDiagnosed
<1>3. ASSUME NEW k \in pending
      PROVE  /\ k \in Agents /\ k \notin Diagnosed
             /\ retries[k] \in Nat /\ retries[k] < Passes
             /\ calls[k] = retries[k] + 1 /\ Counted[k] = retries[k] + 1
             /\ Round = 2 * retries[k]
  BY <1>2, PassesFacts DEF GraphInvariant, InStep, GraphTypeOK, Counted
<1>4. ASSUME NEW k \in Agents, k \notin pending PROVE Counted[k] = retries[k]
  BY <1>4 DEF Counted
<1>5. FailedAgents' = FailedAgents \cup Exhausted
  BY <1>1, MoreFailed
<1>6. Diagnosed' = Diagnosed \cup Exhausted
  BY <1>1, <1>5 DEF Diagnosed
<1>7. Exhausted \subseteq pending
  BY DEF Exhausted
<1>8. GraphTypeOK'
  <2>1. retries' \in [Agents -> 0 .. Passes]
    <3>1. ASSUME NEW k \in Agents PROVE Counted[k] \in 0 .. Passes
      BY <1>3, <1>4, PassesFacts DEF GraphTypeOK
    <3> QED BY <1>1, <3>1 DEF Counted
  <2>2. ASSUME NEW k \in Exhausted
        PROVE  failure(k, Counted[k]) \in [agent : planned, attempts : 1 .. Passes]
    <3>1. k \in planned /\ Counted[k] \in 1 .. Passes
      BY <1>2, <1>3, <1>7, PassesFacts
    <3> QED BY <3>1 DEF failure
  <2>3. failed' \subseteq [agent : planned, attempts : 1 .. Passes]
    BY <1>1, <2>2 DEF GraphTypeOK
  <2> QED BY <1>1, <2>1, <2>3, PassesFacts DEF GraphTypeOK, Nodes
<1>9. InStep'
  <2>1. Round = steps - 2 /\ Round' = steps' - 1 /\ steps \in Nat
    BY <1>1 DEF Round, GraphTypeOK
  <2>2. PICK k \in pending : TRUE
    BY <1>1 DEF GraphInvariant, NodeInvariant
  <2>3. Round' = Round + 2
    BY <1>1, <2>1
  <2>4. Round' \in 0 .. 2 * Passes
    BY <1>3, <2>1, <2>2, <2>3, PassesFacts
  <2>5. ASSUME NEW a \in planned' \ Diagnosed'
        PROVE  /\ Round' = 2 * retries'[a]
               /\ retries'[a] < Passes
               /\ calls'[a] = IF a \in pending' THEN retries'[a] + 1 ELSE retries'[a]
    <3>1. a \in pending /\ a \notin Exhausted
      BY <1>1, <1>2, <1>6
    <3>2. Counted[a] = retries[a] + 1 /\ ~(Counted[a] >= GraphRetries)
      BY <1>3, <3>1 DEF Exhausted
    <3>3. Counted[a] < Passes
      BY <1>3, <3>1, <3>2, PassesFacts
    <3> QED BY <1>1, <1>3, <2>3, <3>1, <3>2, <3>3
  <2> QED BY <2>4, <2>5 DEF InStep
<1>10. NodeInvariant'
  BY <1>1, <1>2, <1>6, <1>7 DEF GraphInvariant, NodeInvariant
<1>11. AttemptsAreCalls'
  <2>1. \A f \in failed : f.agent \notin Exhausted
    BY <1>2, <1>7 DEF Diagnosed, FailedAgents
  <2>2. ASSUME NEW f \in failed', f \notin failed
        PROVE  f.agent \in Exhausted /\ f = failure(f.agent, Counted[f.agent])
               /\ f.attempts = calls[f.agent]
    <3>1. PICK k \in Exhausted : f = failure(k, Counted[k])
      BY <1>1, <2>2
    <3> QED BY <1>3, <1>7, <3>1, FailureFields
  <2> QED BY <1>1, <2>1, <2>2 DEF GraphInvariant, AttemptsAreCalls
<1>12. TerminalIsDiagnosed'
  BY <1>1, <1>2, <1>3, <1>5, <1>7 DEF TerminalIsDiagnosed, Diagnosed
<1> QED BY <1>8, <1>9, <1>10, <1>11, <1>12 DEF GraphInvariant

LEMMA EndStep ==
  ASSUME GraphTypeOK, GraphInvariant, Complete \/ Fail
  PROVE  GraphTypeOK' /\ GraphInvariant'
<1>1. /\ node \in {"COMPLETE", "FAILED"} /\ node' = "END" /\ terminal' = node
      /\ steps < RecursionLimit /\ steps' = steps + 1
      /\ UNCHANGED <<planned, targets, pending, results, failed, retries, calls>>
  BY DEF Complete, Fail, Step
<1>2. UNCHANGED <<Diagnosed, FailedAgents>>
  BY <1>1 DEF Diagnosed, FailedAgents
<1>3. /\ planned = Agents /\ planned = Diagnosed /\ pending = {}
      /\ IF node = "COMPLETE" THEN failed = {} ELSE failed # {}
  BY <1>1 DEF GraphInvariant, NodeInvariant
<1>4. Round' = Round
  BY <1>1 DEF Round, GraphTypeOK
<1>5. GraphTypeOK'
  BY <1>1, PassesFacts DEF GraphTypeOK, Nodes
<1>6. InStep'
  BY <1>1, <1>2, <1>4 DEF GraphInvariant, InStep
<1>7. NodeInvariant'
  BY <1>1, <1>2, <1>3 DEF GraphInvariant, NodeInvariant
<1>8. AttemptsAreCalls'
  BY <1>1 DEF GraphInvariant, AttemptsAreCalls
<1>9. TerminalIsDiagnosed'
  BY <1>1, <1>2, <1>3 DEF GraphInvariant, TerminalIsDiagnosed, Diagnosed, FailedAgents
<1> QED BY <1>5, <1>6, <1>7, <1>8, <1>9 DEF GraphInvariant

LEMMA GraphStep == GraphTypeOK /\ GraphInvariant /\ [GraphNext]_graphVars => GraphTypeOK' /\ GraphInvariant'
<1>1. ASSUME GraphTypeOK, GraphInvariant, UNCHANGED graphVars PROVE GraphTypeOK' /\ GraphInvariant'
  BY <1>1 DEF graphVars, GraphTypeOK, GraphInvariant, InStep, Round, NodeInvariant, AttemptsAreCalls,
     TerminalIsDiagnosed, Diagnosed, FailedAgents
<1> QED BY <1>1, PlanStep, FanOutStep, AnswerStep, RouteStep, RetryStep, EndStep DEF GraphNext

(* Every state is well typed: in particular no agent is called, counted or
   recorded more often than the retries allow. *)
THEOREM GraphTypeCorrect == GraphSpec => []GraphTypeOK
BY GraphStart, GraphStep, PTL DEF GraphSpec

(* GraphInvariant is inductive. *)
THEOREM GraphInvariantHolds == GraphSpec => []GraphInvariant
BY GraphStart, GraphStep, PTL DEF GraphSpec

(* The attempts recorded are the calls made, one record per failed agent. *)
THEOREM AttemptsCounted == GraphSpec => []AttemptsAreCalls
BY GraphInvariantHolds, PTL DEF GraphInvariant

(* Every planned agent has one verdict at a terminal, which names them. *)
THEOREM TerminalDiagnosed == GraphSpec => []TerminalIsDiagnosed
BY GraphInvariantHolds, PTL DEF GraphInvariant

(* LangGraph's step bound is never in the way, for any number of retries that
   satisfies GraphAssumption. *)
THEOREM NeverOutOfSteps == GraphSpec => []EndsWithinLimit
<1>1. ASSUME GraphTypeOK, GraphInvariant PROVE EndsWithinLimit
  <2>1. Round <= 2 * Passes /\ Round \in Int
    BY <1>1, PassesFacts DEF GraphInvariant, InStep
  <2>2. steps \in Nat /\ node \in Nodes
    BY <1>1 DEF GraphTypeOK
  <2>3. node = "SUPERVISOR_PLAN" => steps = 0
    BY <1>1 DEF GraphInvariant, NodeInvariant
  <2>4. node = "AGENT_FAN_OUT" => Round = steps - 1
    BY DEF Round
  <2>5. node \in {"running", "RETRY_AGENTS", "COMPLETE", "FAILED"} => Round = steps - 2
    BY DEF Round
  <2>6. node # "END" => steps <= 2 * Passes + 2
    BY <2>1, <2>2, <2>3, <2>4, <2>5, PassesFacts DEF Nodes
  <2> QED BY <2>2, <2>6, PassesFacts DEF EndsWithinLimit
<1> QED BY <1>1, GraphTypeCorrect, GraphInvariantHolds, PTL

-----------------------------------------------------------------------------
(* The graph keeps FanOutPromise. *)

LEMMA OutcomeStep ==
  ASSUME GraphTypeOK, GraphInvariant, [GraphNext]_graphVars
  PROVE  [FanOutOutcome!Next]_(FanOutOutcome!vars)
<1> USE DEF FanOutOutcome!vars, FanOutOutcome!Next
<1>1. CASE UNCHANGED <<planned, results, failed, terminal>>
  BY <1>1 DEF FailedAgents
<1>2. CASE Plan
  <2>1. planned = {} /\ terminal = "none" /\ planned' = Agents
        /\ UNCHANGED <<results, failed, terminal>>
    BY <1>2 DEF Plan, Step, GraphInvariant, NodeInvariant
  <2> QED BY <2>1 DEF FanOutOutcome!Plan, FailedAgents
<1>3. ASSUME NEW k \in Agents, Answer(k) PROVE [FanOutOutcome!Next]_(FanOutOutcome!vars)
  <2>1. Await(k) /\ planned' = planned /\ terminal' = terminal
    BY <1>3 DEF Answer, Succeeds, FailsTransiently, FailsForGood, Await
  <2>2. k \in planned \ (results \cup FailedAgents)
    BY <2>1, AwaitFacts DEF Diagnosed
  <2>3. CASE Succeeds(k)
    <3>1. FailedAgents' = FailedAgents /\ results' = results \cup {k}
      BY <2>3 DEF Succeeds, FailedAgents
    <3> QED BY <2>1, <2>2, <3>1 DEF FanOutOutcome!Decide, FanOutOutcome!Undecided
  <2>4. CASE FailsTransiently(k)
    BY <1>1, <2>1, <2>4 DEF FailsTransiently
  <2>5. CASE FailsForGood(k)
    <3>1. FailedAgents' = FailedAgents \cup {k} /\ results' = results
      BY <2>5, OneMoreFailed DEF FailsForGood
    <3> QED BY <2>1, <2>2, <3>1 DEF FanOutOutcome!GiveUp, FanOutOutcome!Undecided
  <2> QED BY <1>3, <2>3, <2>4, <2>5 DEF Answer
<1>4. CASE Retry
  <2>1. FailedAgents' = FailedAgents \cup Exhausted
        /\ UNCHANGED <<planned, results, terminal>>
    BY <1>4, MoreFailed DEF Retry, Exhausted
  <2>2. Exhausted \subseteq planned \ (results \cup FailedAgents)
    BY <1>4 DEF Exhausted, GraphInvariant, NodeInvariant, Diagnosed, GraphTypeOK
  <2> QED BY <2>1, <2>2 DEF FanOutOutcome!GiveUp, FanOutOutcome!Undecided
<1>5. CASE Complete \/ Fail
  <2>1. /\ terminal = "none" /\ planned = Diagnosed
        /\ terminal' = IF failed = {} THEN "COMPLETE" ELSE "FAILED"
        /\ UNCHANGED <<planned, results, failed>>
    BY <1>5 DEF Complete, Fail, Step, GraphInvariant, NodeInvariant
  <2>2. failed = {} <=> FailedAgents = {}
    BY DEF FailedAgents
  <2>3. terminal' = IF FailedAgents = {} THEN "COMPLETE" ELSE "FAILED"
    BY <2>1, <2>2
  <2>4. FailedAgents' = FailedAgents
    BY <2>1 DEF FailedAgents
  <2> QED BY <2>1, <2>3, <2>4 DEF FanOutOutcome!End, FanOutOutcome!Undecided, Diagnosed
<1> QED BY <1>1, <1>2, <1>3, <1>4, <1>5 DEF GraphNext, FanOut, Route, graphVars

(* The graph gives the service what FanOutPromise says: verdicts that stand
   and a terminal that names them. *)
THEOREM GraphKeepsPromise == GraphSpec => KeepsFanOutPromise
<1>1. GraphInit => FanOutOutcome!Init
  BY DEF GraphInit, FanOutOutcome!Init, FailedAgents
<1> QED BY <1>1, OutcomeStep, GraphTypeCorrect, GraphInvariantHolds, PTL
    DEF GraphSpec, KeepsFanOutPromise, FanOutOutcome!Spec

-----------------------------------------------------------------------------
(* AgentCall. *)

(* What one delivery may spend. *)

LEMMA AsksIsPositive == Asks \in Nat /\ Asks >= 1 /\ (HasFallback => Asks = MaxRetries + 2)
                        /\ Asks >= MaxRetries + 1
BY CallAssumption DEF Asks

LEMMA BudgetGrows ==
  ASSUME NEW n \in Nat
  PROVE  Budget(n) \in Nat /\ Budget(n + 1) = Budget(n) + Asks + Asks
<1>1. \A a, m \in Nat : m * (2 * a) \in Nat /\ (m + 1) * (2 * a) = m * (2 * a) + a + a
  OBVIOUS
<1> QED BY <1>1, AsksIsPositive DEF Budget

-----------------------------------------------------------------------------
(* What the steps make of an execution, field by field. *)

LEMMA Numbers ==
  /\ 0 \in 0..LlmTimeout /\ 0 \in 0..MaxRetries + 1 /\ 1 \in 0..MaxRetries + 1 /\ 0 \in Nat
  /\ None \notin Errors /\ None \notin Parsed
BY CallAssumption, NoneAssumption

LEMMA IdleFields == Idle \in Execution
<1>1. /\ "idle" \in {"idle", "queued", "calling", "done", "cancelled"} /\ FALSE \in BOOLEAN
      /\ None \in Errors \cup {None} /\ None \in Parsed \cup {None}
  OBVIOUS
<1> QED BY <1>1, Numbers, Zenon DEF Idle, Execution

LEMMA RaiseFields ==
  ASSUME NEW job \in Execution, NEW error \in Errors
  PROVE  LET new == Raise(job, error) IN
         /\ new \in Execution
         /\ new.at = "done" /\ new.raised = error /\ new.age = 0
         /\ new.fallback = job.fallback /\ new.attempt = job.attempt /\ new.repaired = job.repaired /\ new.parsed = job.parsed
         /\ new.calls = job.calls /\ new.paid = job.paid /\ new.refused = job.refused
BY Numbers, Zenon DEF Raise, Execution

LEMMA FirstAttemptFields ==
  ASSUME NEW job \in Execution
  PROVE  LET new == FirstAttempt(job) IN
         /\ new \in Execution
         /\ new.at = "calling" /\ new.fallback = FALSE /\ new.attempt = 1 /\ new.age = 0 /\ new.calls = job.calls + 1
         /\ new.repaired = job.repaired /\ new.raised = job.raised /\ new.parsed = job.parsed /\ new.paid = job.paid
         /\ new.refused = job.refused
<1>1. job.calls + 1 \in Nat
  BY DEF Execution
<1> QED BY <1>1, Numbers, Zenon DEF FirstAttempt, Execution

LEMMA QueueFields ==
  ASSUME NEW job \in Execution
  PROVE  LET new == Queue(job) IN
         /\ new \in Execution
         /\ new.at = "queued"
         /\ new.fallback = job.fallback /\ new.attempt = job.attempt /\ new.repaired = job.repaired /\ new.age = job.age
         /\ new.raised = job.raised /\ new.parsed = job.parsed /\ new.calls = job.calls /\ new.paid = job.paid
         /\ new.refused = job.refused
BY Numbers, Zenon DEF Queue, Execution

LEMMA TryAgainFields ==
  ASSUME NEW job \in Execution, job.attempt <= MaxRetries
  PROVE  LET new == TryAgain(job) IN
         /\ new \in Execution
         /\ new.attempt = job.attempt + 1 /\ new.age = 0 /\ new.calls = job.calls + 1
         /\ new.at = job.at /\ new.fallback = job.fallback /\ new.repaired = job.repaired /\ new.raised = job.raised
         /\ new.parsed = job.parsed /\ new.paid = job.paid /\ new.refused = job.refused
<1>1. job.calls + 1 \in Nat
  BY DEF Execution
<1>2. job.attempt + 1 \in 0..MaxRetries + 1
  BY CallAssumption DEF Execution
<1> QED BY <1>1, <1>2, Numbers, Zenon DEF TryAgain, Execution

LEMMA AskOtherFields ==
  ASSUME NEW job \in Execution
  PROVE  LET new == AskOther(job) IN
         /\ new \in Execution
         /\ new.fallback = TRUE /\ new.age = 0 /\ new.calls = job.calls + 1
         /\ new.at = job.at /\ new.attempt = job.attempt /\ new.repaired = job.repaired /\ new.raised = job.raised
         /\ new.parsed = job.parsed /\ new.paid = job.paid /\ new.refused = job.refused
<1>1. job.calls + 1 \in Nat
  BY DEF Execution
<1> QED BY <1>1, Numbers, Zenon DEF AskOther, Execution

LEMMA RefusedFields ==
  ASSUME NEW job \in Execution, NEW byOpenAI \in BOOLEAN
  PROVE  LET new == Refused(job, byOpenAI) IN
         /\ new \in Execution
         /\ new.refused = (job.refused \/ byOpenAI)
         /\ new.at = job.at /\ new.fallback = job.fallback /\ new.attempt = job.attempt /\ new.repaired = job.repaired
         /\ new.age = job.age /\ new.raised = job.raised /\ new.parsed = job.parsed /\ new.calls = job.calls
         /\ new.paid = job.paid
BY Numbers, Zenon DEF Refused, Execution

LEMMA RepairFields ==
  ASSUME NEW job \in Execution
  PROVE  LET new == Repair(job) IN
         /\ new \in Execution
         /\ new.repaired = TRUE
         /\ new.at = job.at /\ new.fallback = job.fallback /\ new.attempt = job.attempt /\ new.age = job.age
         /\ new.raised = job.raised /\ new.parsed = job.parsed /\ new.calls = job.calls /\ new.paid = job.paid
         /\ new.refused = job.refused
BY Numbers, Zenon DEF Repair, Execution

LEMMA PayFields ==
  ASSUME NEW job \in Execution
  PROVE  LET new == Pay(job) IN
         /\ new \in Execution
         /\ new.paid = job.paid + 1
         /\ new.at = job.at /\ new.fallback = job.fallback /\ new.attempt = job.attempt /\ new.repaired = job.repaired
         /\ new.age = job.age /\ new.raised = job.raised /\ new.parsed = job.parsed /\ new.calls = job.calls
         /\ new.refused = job.refused
<1>1. job.paid + 1 \in Nat
  BY DEF Execution
<1> QED BY <1>1, Numbers, Zenon DEF Pay, Execution

LEMMA AcceptFields ==
  ASSUME NEW job \in Execution, NEW answer \in Answers \ {Noise}
  PROVE  LET new == Accept(job, answer) IN
         /\ new \in Execution
         /\ new.at = "done" /\ new.parsed = Parse(answer) /\ new.age = 0
         /\ new.fallback = job.fallback /\ new.attempt = job.attempt /\ new.repaired = job.repaired /\ new.raised = job.raised
         /\ new.calls = job.calls /\ new.paid = job.paid /\ new.refused = job.refused
<1>1. Parse(answer) \in Parsed \cup {None}
  BY Zenon DEF Parsed
<1> QED BY <1>1, Numbers, Zenon DEF Accept, Execution

LEMMA OlderFields ==
  ASSUME NEW job \in Execution, job.age < LlmTimeout
  PROVE  LET new == Older(job) IN
         /\ new \in Execution
         /\ new.age = job.age + 1
         /\ new.at = job.at /\ new.fallback = job.fallback /\ new.attempt = job.attempt /\ new.repaired = job.repaired
         /\ new.raised = job.raised /\ new.parsed = job.parsed /\ new.calls = job.calls /\ new.paid = job.paid
         /\ new.refused = job.refused
<1>1. job.age + 1 \in 0..LlmTimeout
  BY CallAssumption DEF Execution
<1> QED BY <1>1, Numbers, Zenon DEF Older, Execution

LEMMA CancelledFields ==
  ASSUME NEW job \in Execution
  PROVE  LET new == Cancelled(job) IN
         /\ new \in Execution
         /\ new.at = "cancelled"
         /\ new.fallback = job.fallback /\ new.attempt = job.attempt /\ new.repaired = job.repaired /\ new.age = job.age
         /\ new.raised = job.raised /\ new.parsed = job.parsed /\ new.calls = job.calls /\ new.paid = job.paid
         /\ new.refused = job.refused
BY Numbers, Zenon DEF Cancelled, Execution

LEMMA LostFields ==
  ASSUME NEW job \in Execution
  PROVE  LET new == Lost(job) IN
         /\ new \in Execution
         /\ new.at = "queued" /\ new.fallback = FALSE /\ new.repaired = FALSE /\ new.raised = None
         /\ new.parsed = None /\ new.refused = FALSE /\ new.calls = job.calls /\ new.paid = job.paid
<1>1. /\ Idle.fallback = FALSE /\ Idle.repaired = FALSE /\ Idle.raised = None
      /\ Idle.parsed = None /\ Idle.refused = FALSE
  BY Zenon DEF Idle
<1>2. job.calls \in Nat /\ job.paid \in Nat
  BY Zenon DEF Execution
<1> HIDE DEF Idle
<1> QED BY <1>1, <1>2, IdleFields, Zenon DEF Lost, Execution

-----------------------------------------------------------------------------
(* Every step leaves an execution sound. *)

LEMMA BudgetIs ==
  ASSUME TypeOK
  PROVE  /\ Budget(crashes) \in Nat /\ crashes \in Nat
         /\ Budget(crashes + 1) = Budget(crashes) + Asks + Asks
<1>1. crashes \in Nat
  BY CallAssumption DEF TypeOK
<1> QED BY <1>1, BudgetGrows

(* An execution that asks one more provider stays within the budget. *)
LEMMA SpentIsBounded ==
  ASSUME NEW job \in Execution, job.fallback => HasFallback
  PROVE  /\ Spent(job) \in Nat /\ Spent(job) <= Asks + Asks
         /\ ~job.repaired => Spent(job) <= Asks
<1>1. job.attempt \in Nat /\ job.attempt <= MaxRetries + 1
  BY CallAssumption DEF Execution
<1>2. job.attempt + (IF job.fallback THEN 1 ELSE 0) <= Asks
  BY <1>1, AsksIsPositive, CallAssumption
<1> QED BY <1>1, <1>2, AsksIsPositive DEF Spent

(* An execution at its end is sound, whatever it raised. *)
LEMMA RaiseIsSound ==
  ASSUME TypeOK, NEW job \in Execution, NEW error \in Errors,
         job.fallback => HasFallback, job.calls <= Budget(crashes + 1),
         job.parsed = None, job.refused => error = "fatal"
  PROVE  Raise(job, error) \in Execution /\ Sound(Raise(job, error))
<1> DEFINE new == Raise(job, error)
<1>1. /\ new \in Execution /\ new.at = "done" /\ new.raised = error /\ new.parsed = None
      /\ new.fallback = job.fallback /\ new.calls = job.calls /\ new.refused = job.refused
  BY RaiseFields
<1>2. error # None
  BY Numbers
<1> HIDE DEF new
<1>3. Sound(new)
  BY <1>1, <1>2 DEF Sound
<1> QED BY <1>1, <1>3 DEF new

LEMMA FirstAttemptIsSound ==
  ASSUME TypeOK, NEW job \in Execution,
         job.calls <= Budget(crashes) + (IF job.repaired THEN Asks ELSE 0),
         job.parsed = None, job.raised = None, ~job.refused,
         ~Celery => job.paid = IF job.repaired THEN 1 ELSE 0
  PROVE  FirstAttempt(job) \in Execution /\ Sound(FirstAttempt(job))
<1> DEFINE new == FirstAttempt(job)
<1>1. /\ new \in Execution
      /\ new.at = "calling" /\ new.attempt = 1 /\ new.calls = job.calls + 1
      /\ new.fallback = FALSE /\ new.repaired = job.repaired
      /\ new.parsed = None /\ new.raised = None /\ new.refused = FALSE
      /\ new.paid = job.paid
  BY FirstAttemptFields DEF Execution
<1> HIDE DEF new
<1>2. Spent(new) = (IF job.repaired THEN Asks ELSE 0) + 1
  BY <1>1, AsksIsPositive DEF Spent
<1>3. job.calls \in Nat
  BY DEF Execution
<1>4. new.calls <= Budget(crashes) + Spent(new)
  BY <1>1, <1>2, <1>3, BudgetIs, AsksIsPositive
<1>5. new.calls <= Budget(crashes + 1)
  BY <1>1, <1>2, <1>3, <1>4, BudgetIs, AsksIsPositive
<1>6. Sound(new)
  BY <1>1, <1>4, <1>5 DEF Sound
<1> QED BY <1>1, <1>6 DEF new

LEMMA BeginIsSound ==
  ASSUME TypeOK, NEW job \in Execution, Sound(job),
         job.at \in {"idle", "queued"}, ~Celery => job.at = "idle"
  PROVE  Begin(job) \in Execution /\ Sound(Begin(job)) /\ Begin(job).at \in {"calling", "done"}
<1>1. /\ ~job.repaired /\ job.calls <= Budget(crashes) /\ job.calls <= Budget(crashes + 1)
      /\ job.parsed = None /\ job.raised = None /\ ~job.refused /\ (job.fallback => HasFallback)
      /\ ~Celery => job.paid = 0
  BY DEF Sound
<1>2. job.calls <= Budget(crashes) + (IF job.repaired THEN Asks ELSE 0)
  BY <1>1, BudgetIs DEF Execution
<1>3. FirstAttempt(job) \in Execution /\ Sound(FirstAttempt(job))
  BY <1>1, <1>2, FirstAttemptIsSound
<1>4. \A error \in {"scope", "fatal"} : Raise(job, error) \in Execution /\ Sound(Raise(job, error))
  BY <1>1, RaiseIsSound DEF Errors
<1>5. FirstAttempt(job).at = "calling"
  BY FirstAttemptFields
<1>6. \A error \in Errors : Raise(job, error).at = "done"
  BY RaiseFields
<1>7. "scope" \in Errors /\ "fatal" \in Errors
  BY DEF Errors
<1>8. Begin(job) \in {Raise(job, "scope"), Raise(job, "fatal"), FirstAttempt(job)}
  BY Zenon DEF Begin
<1> QED BY <1>3, <1>4, <1>5, <1>6, <1>7, <1>8

(* A call that failed: retried, given to the other provider, or the end. *)
LEMMA FailureIsSound ==
  ASSUME TypeOK, NEW job \in Execution, Sound(job), job.at = "calling",
         NEW error \in {"fatal", "retryable", "unexpected"},
         NEW byOpenAI \in BOOLEAN, byOpenAI => error = "fatal"
  PROVE  LET new == AfterFailure(Refused(job, byOpenAI), error) IN
         new \in Execution /\ Sound(new) /\ new.at \in {"calling", "done"}
<1> DEFINE old == Refused(job, byOpenAI)
<1>1. /\ old \in Execution /\ old.at = "calling" /\ old.refused = (job.refused \/ byOpenAI)
      /\ old.fallback = job.fallback /\ old.attempt = job.attempt /\ old.repaired = job.repaired
      /\ old.raised = job.raised /\ old.parsed = job.parsed /\ old.calls = job.calls
      /\ old.paid = job.paid
  BY RefusedFields
<1>2. /\ job.fallback => HasFallback
      /\ job.attempt >= 1 /\ job.calls <= Budget(crashes) + Spent(job)
      /\ job.calls <= Budget(crashes + 1)
      /\ job.raised = None /\ job.parsed = None /\ ~job.refused
      /\ ~Celery => job.paid = IF job.repaired THEN 1 ELSE 0
  BY DEF Sound
<1>3. job.calls \in Nat /\ job.attempt \in Nat /\ Spent(job) \in Nat /\ job.fallback \in BOOLEAN
  BY <1>2, SpentIsBounded DEF Execution
<1>4. Spent(old) = Spent(job)
  BY <1>1 DEF Spent
<1> HIDE DEF old
<1>5. \A e \in Errors : (byOpenAI => e = "fatal") =>
        Raise(old, e) \in Execution /\ Sound(Raise(old, e)) /\ Raise(old, e).at = "done"
  BY <1>1, <1>2, RaiseIsSound, RaiseFields
<1>6. ASSUME ~old.fallback, old.attempt <= MaxRetries, error = "retryable"
      PROVE  TryAgain(old) \in Execution /\ Sound(TryAgain(old)) /\ TryAgain(old).at = "calling"
  <2> DEFINE new == TryAgain(old)
  <2>1. /\ new \in Execution
        /\ new.at = "calling" /\ new.attempt = job.attempt + 1 /\ new.calls = job.calls + 1
        /\ new.fallback = FALSE /\ new.repaired = job.repaired /\ new.parsed = None
        /\ new.raised = None /\ new.refused = FALSE /\ new.paid = job.paid
    BY <1>1, <1>2, <1>6, TryAgainFields DEF Execution
  <2> HIDE DEF new
  <2>2. Spent(new) = Spent(job) + 1
    BY <1>1, <1>3, <1>6, <2>1, AsksIsPositive DEF Spent
  <2>3. new.calls <= Budget(crashes) + Spent(new)
    BY <1>2, <1>3, <2>1, <2>2, BudgetIs
  <2>4. new.calls <= Budget(crashes + 1)
    BY <1>3, <2>1, <2>2, <2>3, BudgetIs, SpentIsBounded, AsksIsPositive
  <2>5. Sound(new)
    BY <1>2, <1>3, <2>1, <2>3, <2>4 DEF Sound
  <2> QED BY <2>1, <2>5 DEF new
<1>7. ASSUME ~old.fallback, HasFallback
      PROVE  /\ AskOther(old) \in Execution /\ AskOther(old).at = "calling"
             /\ error = "retryable" => Sound(AskOther(old))
  <2> DEFINE new == AskOther(old)
  <2>1. /\ new \in Execution
        /\ new.at = "calling" /\ new.attempt = job.attempt /\ new.calls = job.calls + 1
        /\ new.fallback = TRUE /\ new.repaired = job.repaired /\ new.parsed = None
        /\ new.raised = None /\ (error = "retryable" => new.refused = FALSE)
        /\ new.paid = job.paid
    BY <1>1, <1>2, AskOtherFields DEF Execution
  <2> HIDE DEF new
  <2>2. Spent(new) = Spent(job) + 1
    BY <1>1, <1>3, <1>7, <2>1, AsksIsPositive DEF Spent
  <2>3. new.calls <= Budget(crashes) + Spent(new)
    BY <1>2, <1>3, <2>1, <2>2, BudgetIs
  <2>4. new.calls <= Budget(crashes + 1)
    BY <1>3, <1>7, <2>1, <2>2, <2>3, BudgetIs, SpentIsBounded, AsksIsPositive
  <2>5. error = "retryable" => Sound(new)
    BY <1>2, <1>3, <1>7, <2>1, <2>3, <2>4 DEF Sound
  <2> QED BY <2>1, <2>5 DEF new
<1>8. {"fatal", "retryable", "unexpected"} \subseteq Errors
  BY DEF Errors
<1>9. old.attempt <= MaxRetries \/ old.attempt > MaxRetries
  BY <1>1, <1>3, CallAssumption
<1> DEFINE new == AfterFailure(old, error)
<1>10. CASE old.fallback
  <2>1. new = Raise(old, IF error = "retryable" THEN "fatal" ELSE error)
    BY <1>10 DEF AfterFailure
  <2> HIDE DEF new
  <2> QED BY <1>5, <1>8, <2>1 DEF new, old
<1>11. CASE ~old.fallback /\ error # "retryable"
  <2>1. new = Raise(old, error)
    BY <1>11 DEF AfterFailure
  <2> HIDE DEF new
  <2> QED BY <1>5, <1>8, <2>1 DEF new, old
<1>12. CASE ~old.fallback /\ error = "retryable" /\ old.attempt <= MaxRetries
  <2>1. new = TryAgain(old)
    BY <1>1, <1>3, <1>12, CallAssumption DEF AfterFailure
  <2> HIDE DEF new
  <2> QED BY <1>6, <1>12, <2>1 DEF new, old
<1>13. CASE ~old.fallback /\ error = "retryable" /\ old.attempt > MaxRetries /\ HasFallback
  <2>1. new = AskOther(old)
    BY <1>1, <1>3, <1>13, CallAssumption DEF AfterFailure
  <2> HIDE DEF new
  <2> QED BY <1>7, <1>13, <2>1 DEF new, old
<1>14. CASE ~old.fallback /\ error = "retryable" /\ old.attempt > MaxRetries /\ ~HasFallback
  <2>1. new = Raise(old, error)
    BY <1>1, <1>3, <1>14, CallAssumption DEF AfterFailure
  <2> HIDE DEF new
  <2> QED BY <1>5, <1>8, <1>14, <2>1 DEF new, old
<1> QED BY <1>9, <1>10, <1>11, <1>12, <1>13, <1>14

(* An answer: repaired once if it cannot be parsed, and else the end. *)
LEMMA AnswerIsSound ==
  ASSUME TypeOK, NEW job \in Execution, Sound(job), job.at = "calling", NEW answer \in Answers
  PROVE  LET new == Answered(job, answer) IN
         new \in Execution /\ Sound(new) /\ new.at \in {"calling", "done"}
<1> DEFINE old == Pay(job)
<1>1. /\ old \in Execution /\ old.at = "calling" /\ old.refused = job.refused
      /\ old.fallback = job.fallback /\ old.attempt = job.attempt /\ old.repaired = job.repaired
      /\ old.raised = job.raised /\ old.parsed = job.parsed /\ old.calls = job.calls
      /\ old.paid = job.paid + 1
  BY PayFields
<1>2. /\ job.fallback => HasFallback
      /\ job.attempt >= 1 /\ job.calls <= Budget(crashes) + Spent(job)
      /\ job.calls <= Budget(crashes + 1)
      /\ job.raised = None /\ job.parsed = None /\ ~job.refused
      /\ ~Celery => job.paid = IF job.repaired THEN 1 ELSE 0
  BY DEF Sound
<1>3. job.calls \in Nat /\ Spent(job) \in Nat /\ job.repaired \in BOOLEAN /\ job.paid \in Nat
  BY <1>2, SpentIsBounded DEF Execution
<1> HIDE DEF old
<1>4. CASE answer = Noise /\ job.repaired
  <2>1. /\ Raise(old, "output") \in Execution /\ Sound(Raise(old, "output"))
        /\ Raise(old, "output").at = "done"
    BY <1>1, <1>2, RaiseIsSound, RaiseFields DEF Errors
  <2>2. Answered(job, answer) = Raise(old, "output")
    BY <1>1, <1>4 DEF Answered, Unparseable, old
  <2> QED BY <2>1, <2>2
<1>5. CASE answer = Noise /\ ~job.repaired
  <2> DEFINE again == Repair(old)
  <2>1. /\ again \in Execution /\ again.repaired = TRUE /\ again.calls = job.calls
        /\ again.parsed = None /\ again.raised = None /\ again.refused = FALSE
        /\ again.paid = job.paid + 1
    BY <1>1, <1>2, RepairFields DEF Execution
  <2> HIDE DEF again
  <2>2. again.calls <= Budget(crashes) + Asks
    BY <1>2, <1>3, <1>5, <2>1, BudgetIs, SpentIsBounded, AsksIsPositive
  <2>3. ~Celery => again.paid = 1
    BY <1>2, <1>3, <1>5, <2>1
  <2>4. /\ FirstAttempt(again) \in Execution /\ Sound(FirstAttempt(again))
        /\ FirstAttempt(again).at = "calling"
    BY <2>1, <2>2, <2>3, FirstAttemptIsSound, FirstAttemptFields
  <2>5. Answered(job, answer) = FirstAttempt(again)
    BY <1>1, <1>5 DEF Answered, Unparseable, old, again
  <2> QED BY <2>4, <2>5
<1>6. CASE answer # Noise
  <2> DEFINE new == Accept(old, answer)
  <2>1. /\ new \in Execution
        /\ new.at = "done" /\ new.parsed = Parse(answer) /\ new.raised = None
        /\ new.fallback = job.fallback /\ new.repaired = job.repaired /\ new.calls = job.calls
        /\ new.refused = FALSE /\ new.paid = job.paid + 1
    BY <1>1, <1>2, <1>6, AcceptFields DEF Execution
  <2>2. Parse(answer) # None
    BY <1>6, Numbers DEF Parsed
  <2> HIDE DEF new
  <2>3. ~Celery => new.paid = 1 + IF new.repaired THEN 1 ELSE 0
    BY <1>2, <1>3, <2>1
  <2>4. Sound(new)
    BY <1>2, <2>1, <2>2, <2>3 DEF Sound
  <2>5. Answered(job, answer) = new
    BY <1>6 DEF Answered, old, new
  <2> QED BY <2>1, <2>4, <2>5
<1> QED BY <1>3, <1>4, <1>5, <1>6

LEMMA QueuedIsSound ==
  ASSUME TypeOK, NEW job \in Execution, Sound(job), job.at = "idle", Celery
  PROVE  Queue(job) \in Execution /\ Sound(Queue(job))
<1> DEFINE new == Queue(job)
<1>1. /\ new \in Execution /\ new.at = "queued"
      /\ new.fallback = job.fallback /\ new.repaired = job.repaired /\ new.calls = job.calls
      /\ new.parsed = job.parsed /\ new.raised = job.raised /\ new.refused = job.refused
  BY QueueFields
<1> HIDE DEF new
<1>2. Sound(new)
  BY <1>1 DEF Sound
<1> QED BY <1>1, <1>2 DEF new

LEMMA OlderIsSound ==
  ASSUME TypeOK, NEW job \in Execution, Sound(job), job.age < LlmTimeout, job.at = "calling"
  PROVE  Older(job) \in Execution /\ Sound(Older(job))
<1> DEFINE new == Older(job)
<1>1. /\ new \in Execution /\ new.at = job.at /\ new.attempt = job.attempt
      /\ new.fallback = job.fallback /\ new.repaired = job.repaired /\ new.calls = job.calls
      /\ new.parsed = job.parsed /\ new.raised = job.raised /\ new.refused = job.refused
      /\ new.paid = job.paid
  BY OlderFields
<1> HIDE DEF new
<1>2. Spent(new) = Spent(job)
  BY <1>1 DEF Spent
<1>3. Sound(new)
  BY <1>1, <1>2 DEF Sound
<1> QED BY <1>1, <1>3 DEF new

LEMMA CancelledIsSound ==
  ASSUME TypeOK, NEW job \in Execution, Sound(job), job.at # "done"
  PROVE  Cancelled(job) \in Execution /\ Sound(Cancelled(job))
<1> DEFINE new == Cancelled(job)
<1>1. /\ new \in Execution /\ new.at = "cancelled"
      /\ new.fallback = job.fallback /\ new.repaired = job.repaired /\ new.calls = job.calls
      /\ new.parsed = job.parsed /\ new.raised = job.raised /\ new.refused = job.refused
  BY CancelledFields
<1> HIDE DEF new
<1>2. Sound(new)
  BY <1>1 DEF Sound
<1> QED BY <1>1, <1>2 DEF new

-----------------------------------------------------------------------------
(* A step that changes the executions changes one, or makes some older. *)

LEMMA SetupStays ==
  ASSUME setup' = setup
  PROVE  Asks' = Asks /\ (HasFallback' <=> HasFallback) /\ (Celery' <=> Celery)
BY DEF Asks, HasFallback, Celery

LEMMA SoundAfter ==
  ASSUME TypeOK, UNCHANGED <<setup, crashes>>, NEW i \in Rounds, NEW job \in Execution,
         Sound(job), jobs'[i] = job
  PROVE  Sound(jobs[i])'
<1>1. Asks' = Asks /\ (HasFallback' <=> HasFallback) /\ (Celery' <=> Celery)
  BY SetupStays
<1>2. Budget(crashes)' = Budget(crashes) /\ Budget(crashes + 1)' = Budget(crashes + 1)
  BY <1>1 DEF Budget
<1>3. Spent(jobs[i])' = Spent(job)
  BY <1>1 DEF Spent
<1> QED BY <1>1, <1>2, <1>3 DEF Sound

LEMMA OneChanges ==
  ASSUME TypeOK, CallInvariant, UNCHANGED <<setup, crashes>>, NEW j \in Rounds,
         NEW new \in Execution, Sound(new), jobs' = [jobs EXCEPT ![j] = new]
  PROVE  /\ jobs' \in [Rounds -> Execution]
         /\ (\A i \in Rounds : Sound(jobs[i]))'
         /\ jobs'[j] = new /\ \A i \in Rounds \ {j} : jobs'[i] = jobs[i]
<1>1. jobs \in [Rounds -> Execution] /\ \A i \in Rounds : Sound(jobs[i])
  BY DEF TypeOK, CallInvariant
<1>2. /\ jobs' \in [Rounds -> Execution]
      /\ jobs'[j] = new /\ \A i \in Rounds \ {j} : jobs'[i] = jobs[i]
  BY <1>1
<1>3. ASSUME NEW i \in Rounds
      PROVE  Sound(jobs[i])'
  <2>1. CASE i = j
    BY <1>2, <2>1, SoundAfter
  <2>2. CASE i # j
    <3>1. jobs[i] \in Execution /\ Sound(jobs[i]) /\ jobs'[i] = jobs[i]
      BY <1>1, <1>2, <2>2
    <3>2. PICK job \in Execution : Sound(job) /\ jobs'[i] = job
      BY <3>1
    <3> QED BY <3>2, SoundAfter
  <2> QED BY <2>1, <2>2
<1> QED BY <1>2, <1>3

LEMMA NothingChanges ==
  ASSUME TypeOK, CallInvariant, UNCHANGED <<setup, crashes, jobs>>
  PROVE  (\A i \in Rounds : Sound(jobs[i]))'
<1>1. ASSUME NEW i \in Rounds
      PROVE  Sound(jobs[i])'
  <2>1. jobs[i] \in Execution /\ Sound(jobs[i]) /\ jobs'[i] = jobs[i]
    BY DEF TypeOK, CallInvariant
  <2>2. PICK job \in Execution : Sound(job) /\ jobs'[i] = job
    BY <2>1
  <2> QED BY <2>2, SoundAfter
<1> QED BY <1>1

(* A crash allows another delivery, of every task. *)
LEMMA OneIsLost ==
  ASSUME TypeOK, CallInvariant, NEW j \in Rounds, WorkerDies(j)
  PROVE  /\ jobs' \in [Rounds -> Execution]
         /\ (\A i \in Rounds : Sound(jobs[i]))'
<1>1. jobs \in [Rounds -> Execution] /\ \A i \in Rounds : Sound(jobs[i])
  BY DEF TypeOK, CallInvariant
<1>2. Celery /\ setup' = setup /\ crashes' = crashes + 1 /\ jobs' = [jobs EXCEPT ![j] = Lost(jobs[j])]
  BY DEF WorkerDies
<1>3. /\ Lost(jobs[j]) \in Execution
      /\ Lost(jobs[j]).at = "queued" /\ Lost(jobs[j]).fallback = FALSE
      /\ Lost(jobs[j]).repaired = FALSE /\ Lost(jobs[j]).raised = None
      /\ Lost(jobs[j]).parsed = None /\ Lost(jobs[j]).refused = FALSE
      /\ Lost(jobs[j]).calls = jobs[j].calls
  BY <1>1, LostFields
<1>4. Asks' = Asks /\ (HasFallback' <=> HasFallback) /\ Celery'
  BY <1>2, SetupStays
<1>5. /\ crashes \in Nat /\ Budget(crashes) \in Nat /\ Budget(crashes + 1) \in Nat
      /\ Budget(crashes + 1) = Budget(crashes) + Asks + Asks
      /\ Budget((crashes + 1) + 1) = Budget(crashes + 1) + Asks + Asks
  BY BudgetIs, BudgetGrows
<1>6. Budget(crashes)' = Budget(crashes + 1) /\ Budget(crashes + 1)' = Budget((crashes + 1) + 1)
  BY <1>2, <1>4 DEF Budget
<1>7. jobs' \in [Rounds -> Execution] /\ jobs'[j] = Lost(jobs[j])
  BY <1>1, <1>2, <1>3
<1>8. ASSUME NEW i \in Rounds
      PROVE  Sound(jobs[i])'
  <2>1. Sound(jobs[i]) /\ jobs[i] \in Execution
    BY <1>1
  <2>2. /\ jobs[i].calls \in Nat /\ jobs[i].calls <= Budget(crashes + 1)
        /\ jobs[i].fallback => HasFallback
    BY <2>1 DEF Sound, Execution
  <2>3. CASE i = j
    BY <1>3, <1>4, <1>5, <1>6, <1>7, <2>2, <2>3, AsksIsPositive DEF Sound
  <2>4. CASE i # j
    <3>1. jobs'[i] = jobs[i]
      BY <1>1, <1>2, <2>4
    <3>2. Spent(jobs[i])' = Spent(jobs[i]) /\ Spent(jobs[i]) \in Nat
      BY <1>4, <2>1, <2>2, <3>1, SpentIsBounded DEF Spent
    <3> QED BY <1>4, <1>5, <1>6, <2>1, <2>2, <3>1, <3>2, AsksIsPositive DEF Sound
  <2> QED BY <2>3, <2>4
<1> QED BY <1>7, <1>8

-----------------------------------------------------------------------------
(* The invariant, action by action. *)

LEMMA RoundFacts ==
  /\ Rounds \subseteq Nat \ {0}
  /\ \A n \in {0} \cup Rounds : n \in Nat /\ n + 1 \in Nat /\ n < n + 1
BY CallAssumption DEF Rounds

LEMMA CallInit == Init => TypeOK /\ CallInvariant
<1> SUFFICES ASSUME Init
             PROVE  TypeOK /\ CallInvariant
  OBVIOUS
<1>1. /\ Idle.at = "idle" /\ Idle.fallback = FALSE /\ Idle.repaired = FALSE /\ Idle.calls = 0
      /\ Idle.raised = None /\ Idle.parsed = None /\ Idle.refused = FALSE /\ Idle.paid = 0
  BY Zenon DEF Idle
<1>2. Idle \in Execution /\ crashes = 0 /\ jobs = [j \in Rounds |-> Idle]
  BY IdleFields DEF Init
<1> HIDE DEF Idle
<1>3. TypeOK
  BY <1>2, CallAssumption DEF Init, TypeOK
<1>4. Budget(crashes) \in Nat /\ Budget(crashes + 1) \in Nat
  BY <1>3, BudgetIs, AsksIsPositive
<1>5. Sound(Idle)
  BY <1>1, <1>4 DEF Sound
<1>6. \A j \in Rounds : j > 0
  BY RoundFacts
<1>7. Supervised
  BY <1>1, <1>2, <1>6 DEF Init, Supervised
<1> QED BY <1>2, <1>3, <1>5, <1>7 DEF CallInvariant

LEMMA CallRunnerStep ==
  ASSUME TypeOK, CallInvariant, CallRunner
  PROVE  (TypeOK /\ CallInvariant)'
<1> DEFINE j == round + 1
<1>1. /\ j \in Rounds /\ UNCHANGED <<setup, result, crashes>>
      /\ round' = j /\ waited' = 0 /\ verdict' = "waiting"
      /\ verdict \in {"none", "pending"}
      /\ jobs' = [jobs EXCEPT ![j] = IF Celery THEN Queue(jobs[j]) ELSE Begin(jobs[j])]
  BY DEF CallRunner, TypeOK
<1>2. round \in Nat /\ j \in Nat /\ j > round
  BY RoundFacts DEF TypeOK
<1>3. jobs[j] \in Execution /\ Sound(jobs[j]) /\ jobs[j].at = "idle"
  BY <1>1, <1>2 DEF TypeOK, CallInvariant, Supervised
<1>4. PICK new \in Execution :
        /\ Sound(new) /\ jobs' = [jobs EXCEPT ![j] = new]
        /\ new.at # "idle" /\ (~Celery => new.at # "queued")
  <2>1. CASE Celery
    <3>1. Queue(jobs[j]) \in Execution /\ Sound(Queue(jobs[j])) /\ Queue(jobs[j]).at = "queued"
      BY <1>3, <2>1, QueuedIsSound, QueueFields
    <3> QED BY <1>1, <2>1, <3>1
  <2>2. CASE ~Celery
    <3>1. Begin(jobs[j]) \in Execution /\ Sound(Begin(jobs[j]))
          /\ Begin(jobs[j]).at \in {"calling", "done"}
      BY <1>3, <2>2, BeginIsSound
    <3> QED BY <1>1, <2>2, <3>1
  <2> QED BY <2>1, <2>2
<1>5. /\ jobs' \in [Rounds -> Execution]
      /\ (\A i \in Rounds : Sound(jobs[i]))'
      /\ jobs'[j] = new /\ \A i \in Rounds \ {j} : jobs'[i] = jobs[i]
  BY <1>1, <1>4, OneChanges
<1>6. TypeOK'
  BY <1>1, <1>5, CallAssumption DEF TypeOK
<1>7. \A i \in Rounds : jobs[i].at = "idle" <=> i > round
  BY DEF CallInvariant, Supervised
<1>8. (\A i \in Rounds : jobs[i].at = "idle" <=> i > round)'
  <2>1. \A i \in Rounds : i # j => (i > round <=> i > j)
    BY <1>2, RoundFacts
  <2>2. ~(j > j)
    BY <1>2
  <2> QED BY <1>1, <1>4, <1>5, <1>7, <2>1, <2>2
<1>9. ~Celery => \A i \in Rounds \ {j} :
        jobs[i].at # "queued" /\ jobs[i].at # "calling" /\ ~jobs[i].refused
  BY <1>1 DEF CallInvariant, Supervised
<1>10. (~Celery => \A i \in Rounds :
          /\ jobs[i].at # "queued"
          /\ jobs[i].at = "calling" => i = round /\ verdict = "waiting"
          /\ jobs[i].refused => i = round /\ verdict \in {"waiting", "failed"})'
  BY <1>1, <1>4, <1>5, <1>9, SetupStays
<1>11. (result # None =>
          LET job == jobs[result.round] IN
          job.at = "done" /\ job.raised = None /\ job.repaired = result.repaired)'
  <2> SUFFICES ASSUME result # None
               PROVE  LET job == jobs'[result.round] IN
                      job.at = "done" /\ job.raised = None /\ job.repaired = result.repaired
    BY <1>1
  <2>1. result.round \in Rounds
    BY DEF TypeOK, Kept
  <2>2. LET job == jobs[result.round] IN
        job.at = "done" /\ job.raised = None /\ job.repaired = result.repaired
    BY DEF CallInvariant, Supervised
  <2>3. result.round # j
    BY <1>3, <2>2
  <2> QED BY <1>5, <2>1, <2>2, <2>3
<1>12. Supervised'
  BY <1>1, <1>8, <1>10, <1>11 DEF Supervised
<1> QED BY <1>5, <1>6, <1>12 DEF CallInvariant

(* A task that is taken, or a call that ends: the supervisor sees nothing of it. *)
LEMMA OutOfSight ==
  ASSUME TypeOK, CallInvariant, UNCHANGED <<setup, round, waited, verdict, result, crashes>>,
         NEW j \in Rounds, jobs[j].at \in {"queued", "calling"},
         NEW new \in Execution, Sound(new), new.at \in {"calling", "done"},
         jobs' = [jobs EXCEPT ![j] = new]
  PROVE  (TypeOK /\ CallInvariant)'
<1>1. /\ jobs' \in [Rounds -> Execution]
      /\ (\A i \in Rounds : Sound(jobs[i]))'
      /\ jobs'[j] = new /\ \A i \in Rounds \ {j} : jobs'[i] = jobs[i]
  BY OneChanges
<1>2. TypeOK'
  BY <1>1 DEF TypeOK
<1>3. \A i \in Rounds : jobs[i].at = "idle" <=> i > round
  BY DEF CallInvariant, Supervised
<1>4. (\A i \in Rounds : jobs[i].at = "idle" <=> i > round)'
  BY <1>1, <1>3
<1>5. ~Celery => /\ j = round /\ verdict = "waiting"
                 /\ \A i \in Rounds :
                      /\ jobs[i].at # "queued"
                      /\ jobs[i].at = "calling" => i = round /\ verdict = "waiting"
                      /\ jobs[i].refused => i = round /\ verdict \in {"waiting", "failed"}
  BY DEF CallInvariant, Supervised
<1>6. (~Celery => \A i \in Rounds :
          /\ jobs[i].at # "queued"
          /\ jobs[i].at = "calling" => i = round /\ verdict = "waiting"
          /\ jobs[i].refused => i = round /\ verdict \in {"waiting", "failed"})'
  BY <1>1, <1>5, SetupStays
<1>7. (verdict = "waiting" => round \in Rounds)'
  BY DEF CallInvariant, Supervised
<1>8. (result # None =>
          LET job == jobs[result.round] IN
          job.at = "done" /\ job.raised = None /\ job.repaired = result.repaired)'
  <2> SUFFICES ASSUME result # None
               PROVE  LET job == jobs'[result.round] IN
                      job.at = "done" /\ job.raised = None /\ job.repaired = result.repaired
    OBVIOUS
  <2>1. result.round \in Rounds
    BY DEF TypeOK, Kept
  <2>2. LET job == jobs[result.round] IN
        job.at = "done" /\ job.raised = None /\ job.repaired = result.repaired
    BY DEF CallInvariant, Supervised
  <2> QED BY <1>1, <2>1, <2>2
<1>9. Supervised'
  BY <1>4, <1>6, <1>7, <1>8 DEF Supervised
<1> QED BY <1>1, <1>2, <1>9 DEF CallInvariant

LEMMA DeliverStep ==
  ASSUME TypeOK, CallInvariant, NEW j \in Rounds, Deliver(j)
  PROVE  (TypeOK /\ CallInvariant)'
<1>1. /\ jobs[j].at = "queued" /\ jobs' = [jobs EXCEPT ![j] = Begin(jobs[j])]
      /\ UNCHANGED <<setup, round, waited, verdict, result, crashes>>
  BY DEF Deliver
<1>2. jobs[j] \in Execution /\ Sound(jobs[j]) /\ Celery
  BY <1>1 DEF TypeOK, CallInvariant, Supervised
<1>3. PICK new \in Execution :
        Sound(new) /\ new.at \in {"calling", "done"} /\ jobs' = [jobs EXCEPT ![j] = new]
  BY <1>1, <1>2, BeginIsSound
<1> QED BY <1>1, <1>3, OutOfSight

(* Only a rejection by OpenAI is recorded as refused, and it is fatal. *)
LEMMA CallFailsStep ==
  ASSUME TypeOK, CallInvariant, NEW j \in Rounds, CallFails(j)
  PROVE  (TypeOK /\ CallInvariant)'
<1>1. PICK fault \in Faults(ServedBy(j)) :
        jobs' = [jobs EXCEPT ![j] =
            AfterFailure(Refused(jobs[j], ServedBy(j) = "openai" /\ fault = "rejected"),
                         Raised(ServedBy(j), fault))]
  BY DEF CallFails
<1>2. jobs[j].at = "calling" /\ UNCHANGED <<setup, round, waited, verdict, result, crashes>>
  BY DEF CallFails
<1>3. jobs[j] \in Execution /\ Sound(jobs[j])
  BY DEF TypeOK, CallInvariant
<1> DEFINE byOpenAI == ServedBy(j) = "openai" /\ fault = "rejected"
<1>4. Raised(ServedBy(j), fault) \in {"fatal", "retryable", "unexpected"}
  BY Zenon DEF Raised
<1>5. byOpenAI \in BOOLEAN /\ (byOpenAI => Raised(ServedBy(j), fault) = "fatal")
  <2>1. Raised("openai", "rejected") = "fatal"
    BY DEF Raised
  <2> QED BY <2>1
<1>6. PICK error \in {"fatal", "retryable", "unexpected"}, refusal \in BOOLEAN :
        /\ refusal => error = "fatal"
        /\ jobs' = [jobs EXCEPT ![j] = AfterFailure(Refused(jobs[j], refusal), error)]
  BY <1>1, <1>4, <1>5
<1>7. PICK new \in Execution :
        Sound(new) /\ new.at \in {"calling", "done"} /\ jobs' = [jobs EXCEPT ![j] = new]
  BY <1>2, <1>3, <1>6, FailureIsSound
<1> QED BY <1>2, <1>7, OutOfSight

LEMMA CallAnswersStep ==
  ASSUME TypeOK, CallInvariant, NEW j \in Rounds, CallAnswers(j)
  PROVE  (TypeOK /\ CallInvariant)'
<1>1. PICK answer \in Answers : jobs' = [jobs EXCEPT ![j] = Answered(jobs[j], answer)]
  BY DEF CallAnswers
<1>2. jobs[j].at = "calling" /\ UNCHANGED <<setup, round, waited, verdict, result, crashes>>
  BY DEF CallAnswers
<1>3. jobs[j] \in Execution /\ Sound(jobs[j])
  BY DEF TypeOK, CallInvariant
<1>4. PICK new \in Execution :
        Sound(new) /\ new.at \in {"calling", "done"} /\ jobs' = [jobs EXCEPT ![j] = new]
  BY <1>1, <1>2, <1>3, AnswerIsSound
<1> QED BY <1>2, <1>4, OutOfSight

LEMMA WorkerDiesStep ==
  ASSUME TypeOK, CallInvariant, NEW j \in Rounds, WorkerDies(j)
  PROVE  (TypeOK /\ CallInvariant)'
<1>1. /\ Celery /\ jobs[j].at = "calling" /\ crashes < MaxCrashes /\ crashes' = crashes + 1
      /\ jobs' = [jobs EXCEPT ![j] = Lost(jobs[j])]
      /\ UNCHANGED <<setup, round, waited, verdict, result>>
  BY DEF WorkerDies
<1>2. jobs' \in [Rounds -> Execution] /\ (\A i \in Rounds : Sound(jobs[i]))'
  BY OneIsLost
<1>3. jobs[j] \in Execution /\ jobs \in [Rounds -> Execution]
  BY DEF TypeOK
<1>4. /\ jobs'[j] = Lost(jobs[j]) /\ jobs'[j].at = "queued"
      /\ \A i \in Rounds \ {j} : jobs'[i] = jobs[i]
  BY <1>1, <1>3, LostFields
<1>5. crashes' \in 0..MaxCrashes
  BY <1>1, CallAssumption DEF TypeOK
<1>6. TypeOK'
  BY <1>1, <1>2, <1>5 DEF TypeOK
<1>7. (\A i \in Rounds : jobs[i].at = "idle" <=> i > round)'
  <2>1. \A i \in Rounds : jobs[i].at = "idle" <=> i > round
    BY DEF CallInvariant, Supervised
  <2> QED BY <1>1, <1>4, <2>1
<1>8. (result # None =>
          LET job == jobs[result.round] IN
          job.at = "done" /\ job.raised = None /\ job.repaired = result.repaired)'
  <2> SUFFICES ASSUME result # None
               PROVE  LET job == jobs'[result.round] IN
                      job.at = "done" /\ job.raised = None /\ job.repaired = result.repaired
    BY <1>1
  <2>1. result.round \in Rounds
    BY DEF TypeOK, Kept
  <2>2. LET job == jobs[result.round] IN
        job.at = "done" /\ job.raised = None /\ job.repaired = result.repaired
    BY DEF CallInvariant, Supervised
  <2> QED BY <1>1, <1>4, <2>1, <2>2
<1>9. (verdict = "waiting" => round \in Rounds)' /\ Celery'
  BY <1>1, SetupStays DEF CallInvariant, Supervised
<1>10. Supervised'
  BY <1>7, <1>8, <1>9 DEF Supervised
<1> QED BY <1>2, <1>6, <1>10 DEF CallInvariant

LEMMA TickStep ==
  ASSUME TypeOK, CallInvariant, Tick
  PROVE  (TypeOK /\ CallInvariant)'
<1>1. /\ verdict = "waiting" => waited < AgentTimeout
      /\ \A i \in Rounds : jobs[i].at = "calling" => jobs[i].age < LlmTimeout
      /\ waited' = IF verdict = "waiting" THEN waited + 1 ELSE waited
      /\ jobs' = [i \in Rounds |-> IF jobs[i].at = "calling" THEN Older(jobs[i]) ELSE jobs[i]]
      /\ UNCHANGED <<setup, round, verdict, result, crashes>>
  BY DEF Tick
<1>2. ASSUME NEW i \in Rounds
      PROVE  /\ jobs'[i] \in Execution /\ Sound(jobs[i])'
             /\ jobs'[i].at = jobs[i].at /\ jobs'[i].raised = jobs[i].raised
             /\ jobs'[i].repaired = jobs[i].repaired /\ (jobs'[i].refused <=> jobs[i].refused)
  <2>1. jobs[i] \in Execution /\ Sound(jobs[i])
    BY DEF TypeOK, CallInvariant
  <2>2. CASE jobs[i].at = "calling"
    <3>1. jobs'[i] = Older(jobs[i]) /\ jobs[i].age < LlmTimeout
      BY <1>1, <2>2
    <3>2. Older(jobs[i]) \in Execution /\ Sound(Older(jobs[i]))
      BY <2>1, <2>2, <3>1, OlderIsSound
    <3>3. PICK new \in Execution : Sound(new) /\ jobs'[i] = new
      BY <3>1, <3>2
    <3>4. Sound(jobs[i])'
      BY <1>1, <3>3, SoundAfter
    <3>5. /\ jobs'[i].at = jobs[i].at /\ jobs'[i].raised = jobs[i].raised
          /\ jobs'[i].repaired = jobs[i].repaired /\ (jobs'[i].refused <=> jobs[i].refused)
      BY <2>1, <3>1, OlderFields
    <3> QED BY <3>1, <3>2, <3>4, <3>5
  <2>3. CASE jobs[i].at # "calling"
    <3>1. jobs'[i] = jobs[i]
      BY <1>1, <2>3
    <3>2. PICK new \in Execution : Sound(new) /\ jobs'[i] = new
      BY <2>1, <3>1
    <3>3. Sound(jobs[i])'
      BY <1>1, <3>2, SoundAfter
    <3> QED BY <2>1, <3>1, <3>3
  <2> QED BY <2>2, <2>3
<1>3. jobs' \in [Rounds -> Execution]
  BY <1>1, <1>2
<1>4. waited' \in 0..AgentTimeout
  BY <1>1, CallAssumption DEF TypeOK
<1>5. TypeOK'
  BY <1>1, <1>3, <1>4 DEF TypeOK
<1>6. (Celery' <=> Celery) /\ (result # None => result.round \in Rounds)
  BY <1>1, SetupStays DEF TypeOK, Kept
<1>7. Supervised
  BY DEF CallInvariant
<1>8. Supervised'
  BY <1>1, <1>2, <1>6, <1>7 DEF Supervised
<1> QED BY <1>2, <1>5, <1>8 DEF CallInvariant

(* The supervisor takes findings: the execution it kept them from is done. *)
LEMMA JoinSuccessStep ==
  ASSUME TypeOK, CallInvariant, JoinSuccess
  PROVE  (TypeOK /\ CallInvariant)'
<1>1. /\ verdict = "waiting" /\ jobs[round].at = "done" /\ jobs[round].raised = None
      /\ verdict' = "success"
      /\ result' = [round |-> round, parsed |-> jobs[round].parsed, cost |-> 1,
                    repaired |-> jobs[round].repaired]
      /\ UNCHANGED <<setup, round, waited, jobs, crashes>>
  BY DEF JoinSuccess, Waiting, Finished
<1>2. round \in Rounds
  BY <1>1 DEF CallInvariant, Supervised
<1>3. jobs[round] \in Execution /\ Sound(jobs[round])
  BY <1>2 DEF TypeOK, CallInvariant
<1>4. jobs[round].parsed \in Parsed /\ jobs[round].repaired \in BOOLEAN
  BY <1>1, <1>3 DEF Sound, Execution
<1>5. /\ result' \in Kept /\ result'.round = round /\ result'.repaired = jobs[round].repaired
  BY <1>1, <1>2, <1>4 DEF Kept
<1>6. TypeOK'
  BY <1>1, <1>5 DEF TypeOK
<1>7. (\A i \in Rounds : Sound(jobs[i]))'
  BY <1>1, NothingChanges
<1>8. ~Celery => \A i \in Rounds : jobs[i].at # "queued" /\ jobs[i].at # "calling" /\ ~jobs[i].refused
  <2>1. ~Celery => \A i \in Rounds :
          /\ jobs[i].at # "queued"
          /\ jobs[i].at = "calling" => i = round
          /\ jobs[i].refused => i = round
    BY DEF CallInvariant, Supervised
  <2>2. ~jobs[round].refused
    BY <1>1, <1>3, Numbers DEF Sound, Errors
  <2> QED BY <1>1, <2>1, <2>2
<1>9. Supervised'
  BY <1>1, <1>2, <1>5, <1>8, SetupStays DEF CallInvariant, Supervised
<1> QED BY <1>6, <1>7, <1>9 DEF CallInvariant

(* The supervisor gives up on the running execution, without touching it. *)
LEMMA GivesUp ==
  ASSUME TypeOK, CallInvariant, verdict = "waiting", verdict' \in {"pending", "failed"},
         UNCHANGED <<setup, round, waited, jobs, result, crashes>>,
         ~Celery => jobs[round].at = "done" /\ (jobs[round].refused => verdict' = "failed")
  PROVE  (TypeOK /\ CallInvariant)'
<1>1. TypeOK'
  BY DEF TypeOK
<1>2. (\A i \in Rounds : Sound(jobs[i]))'
  BY NothingChanges
<1>3. ~Celery => \A i \in Rounds :
        /\ jobs[i].at # "queued" /\ jobs[i].at # "calling"
        /\ jobs[i].refused => i = round /\ verdict' = "failed"
  BY DEF CallInvariant, Supervised
<1>4. Supervised'
  BY <1>3, SetupStays DEF CallInvariant, Supervised
<1> QED BY <1>1, <1>2, <1>4 DEF CallInvariant

LEMMA JoinFailureStep ==
  ASSUME TypeOK, CallInvariant, JoinFailure
  PROVE  (TypeOK /\ CallInvariant)'
<1>1. /\ verdict = "waiting" /\ jobs[round].at = "done" /\ verdict' \in {"pending", "failed"}
      /\ UNCHANGED <<setup, round, waited, jobs, result, crashes>>
      /\ verdict' = "pending" => jobs[round].raised = "retryable"
  BY DEF JoinFailure, Waiting, Finished, Fails
<1>2. Sound(jobs[round])
  BY <1>1 DEF CallInvariant, Supervised
<1>3. jobs[round].refused => verdict' = "failed"
  BY <1>1, <1>2 DEF Sound
<1> QED BY <1>1, <1>3, GivesUp

LEMMA JoinTimesOutStep ==
  ASSUME TypeOK, CallInvariant, JoinTimesOut
  PROVE  (TypeOK /\ CallInvariant)'
<1>1. /\ verdict = "waiting" /\ Celery /\ verdict' \in {"pending", "failed"}
      /\ UNCHANGED <<setup, round, waited, jobs, result, crashes>>
  BY DEF JoinTimesOut, Waiting, Fails
<1> QED BY <1>1, GivesUp

(* In this process the deadline cancels what is still running. *)
LEMMA HardTimeoutStep ==
  ASSUME TypeOK, CallInvariant, HardTimeout
  PROVE  (TypeOK /\ CallInvariant)'
<1>1. /\ verdict = "waiting" /\ jobs[round].at # "done" /\ verdict' = "failed"
      /\ jobs' = IF Celery THEN jobs ELSE [jobs EXCEPT ![round] = Cancelled(jobs[round])]
      /\ UNCHANGED <<setup, round, waited, result, crashes>>
  BY DEF HardTimeout, Waiting, Finished
<1>2. CASE Celery
  BY <1>1, <1>2, GivesUp
<1>3. CASE ~Celery
  <2>1. round \in Rounds
    BY <1>1 DEF CallInvariant, Supervised
  <2>2. jobs[round] \in Execution /\ Sound(jobs[round])
    BY <2>1 DEF TypeOK, CallInvariant
  <2>3. /\ Cancelled(jobs[round]) \in Execution /\ Sound(Cancelled(jobs[round]))
        /\ Cancelled(jobs[round]).at = "cancelled"
    BY <1>1, <2>2, CancelledIsSound, CancelledFields
  <2>4. PICK new \in Execution :
          Sound(new) /\ new.at = "cancelled" /\ jobs' = [jobs EXCEPT ![round] = new]
    BY <1>1, <1>3, <2>3
  <2>5. /\ jobs' \in [Rounds -> Execution]
        /\ (\A i \in Rounds : Sound(jobs[i]))'
        /\ jobs'[round] = new /\ \A i \in Rounds \ {round} : jobs'[i] = jobs[i]
    BY <1>1, <2>1, <2>4, OneChanges
  <2>6. TypeOK'
    BY <1>1, <2>5 DEF TypeOK
  <2>7. (\A i \in Rounds : jobs[i].at = "idle" <=> i > round)'
    <3>1. (\A i \in Rounds : jobs[i].at = "idle" <=> i > round) /\ ~(round > round)
      BY <2>1, RoundFacts DEF CallInvariant, Supervised
    <3> QED BY <1>1, <2>4, <2>5, <3>1
  <2>8. \A i \in Rounds : jobs'[i].at # "queued" /\ jobs'[i].at # "calling" /\ ~jobs'[i].refused
    <3>1. \A i \in Rounds :
            /\ jobs[i].at # "queued" /\ (jobs[i].at = "calling" => i = round)
            /\ jobs[i].refused => i = round
      BY <1>3 DEF CallInvariant, Supervised
    <3>2. ~new.refused
      BY <2>4 DEF Sound
    <3> QED BY <2>4, <2>5, <3>1, <3>2
  <2>9. (result # None =>
            LET job == jobs[result.round] IN
            job.at = "done" /\ job.raised = None /\ job.repaired = result.repaired)'
    <3> SUFFICES ASSUME result # None
                 PROVE  LET job == jobs'[result.round] IN
                        job.at = "done" /\ job.raised = None /\ job.repaired = result.repaired
      BY <1>1
    <3>1. result.round \in Rounds
      BY DEF TypeOK, Kept
    <3>2. LET job == jobs[result.round] IN
          job.at = "done" /\ job.raised = None /\ job.repaired = result.repaired
      BY DEF CallInvariant, Supervised
    <3> QED BY <1>1, <2>5, <3>1, <3>2
  <2>10. Supervised'
    BY <1>1, <2>7, <2>8, <2>9 DEF Supervised
  <2> QED BY <2>5, <2>6, <2>10 DEF CallInvariant
<1> QED BY <1>2, <1>3

LEMMA CallStep ==
  ASSUME TypeOK, CallInvariant, [Next]_vars
  PROVE  (TypeOK /\ CallInvariant)'
<1>1. \/ CallRunner \/ Tick \/ JoinSuccess \/ JoinFailure \/ JoinTimesOut \/ HardTimeout
      \/ \E j \in Rounds : Deliver(j) \/ CallFails(j) \/ CallAnswers(j) \/ WorkerDies(j)
      \/ UNCHANGED vars
  BY DEF Next
<1>2. CASE CallRunner
  BY <1>2, CallRunnerStep
<1>3. CASE Tick
  BY <1>3, TickStep
<1>4. CASE JoinSuccess
  BY <1>4, JoinSuccessStep
<1>5. CASE JoinFailure
  BY <1>5, JoinFailureStep
<1>6. CASE JoinTimesOut
  BY <1>6, JoinTimesOutStep
<1>7. CASE HardTimeout
  BY <1>7, HardTimeoutStep
<1>8. ASSUME NEW j \in Rounds, Deliver(j)
      PROVE  (TypeOK /\ CallInvariant)'
  BY <1>8, DeliverStep
<1>9. ASSUME NEW j \in Rounds, CallFails(j)
      PROVE  (TypeOK /\ CallInvariant)'
  BY <1>9, CallFailsStep
<1>10. ASSUME NEW j \in Rounds, CallAnswers(j)
       PROVE  (TypeOK /\ CallInvariant)'
  BY <1>10, CallAnswersStep
<1>11. ASSUME NEW j \in Rounds, WorkerDies(j)
       PROVE  (TypeOK /\ CallInvariant)'
  BY <1>11, WorkerDiesStep
<1>12. CASE UNCHANGED vars
  <2>1. UNCHANGED <<setup, round, waited, jobs, verdict, result, crashes>>
    BY <1>12 DEF vars
  <2>2. TypeOK' /\ (\A i \in Rounds : Sound(jobs[i]))'
    BY <2>1, NothingChanges DEF TypeOK
  <2>3. Supervised'
    BY <2>1, SetupStays DEF CallInvariant, Supervised
  <2> QED BY <2>2, <2>3 DEF CallInvariant
<1> QED BY <1>1, <1>2, <1>3, <1>4, <1>5, <1>6, <1>7, <1>8, <1>9, <1>10, <1>11, <1>12

LEMMA CallAlways == Spec => [](TypeOK /\ CallInvariant)
<1>1. Init => TypeOK /\ CallInvariant
  BY CallInit
<1>2. TypeOK /\ CallInvariant /\ [Next]_vars => (TypeOK /\ CallInvariant)'
  BY CallStep
<1> QED BY <1>1, <1>2, PTL DEF Spec

-----------------------------------------------------------------------------
(* What the parser vouches for. *)

LEMMA ParseIsVouched ==
  ASSUME NEW items \in Answers \ {Noise}
  PROVE  LET parsed == Parse(items) IN
         /\ DOMAIN parsed.findings = Valid(items)
         /\ \A i \in Valid(items) : parsed.findings[i] = items[i] /\ Acceptable(items[i])
         /\ Cardinality(Valid(items)) <= Cap
         /\ parsed.raw = Cardinality(Valid(items)) + parsed.invalid
<1> DEFINE n == IF Len(items) < Cap THEN Len(items) ELSE Cap
<1>1. Len(items) \in Nat /\ Cap \in Nat
  BY CallAssumption
<1>2. n \in Nat /\ n <= Cap /\ n + Overage(items) = Len(items) /\ Overage(items) \in Nat
  <2>1. CASE Len(items) < Cap
    BY <1>1, <2>1 DEF Overage
  <2>2. CASE Len(items) = Cap
    BY <1>1, <2>2 DEF Overage
  <2>3. CASE Len(items) > Cap
    BY <1>1, <2>3 DEF Overage
  <2> QED BY <1>1, <2>1, <2>2, <2>3
<1>3. Shown(items) = 1..n
  BY DEF Shown
<1> HIDE DEF n
<1>4. IsFiniteSet(1..n) /\ Cardinality(1..n) = n
  BY <1>2, FS_Interval
<1>5. Valid(items) \subseteq Shown(items)
  BY DEF Valid
<1>6. /\ IsFiniteSet(Valid(items)) /\ IsFiniteSet(Shown(items) \ Valid(items))
      /\ Cardinality(Valid(items)) \in Nat /\ Cardinality(Shown(items) \ Valid(items)) \in Nat
  <2>1. IsFiniteSet(Valid(items)) /\ IsFiniteSet(Shown(items) \ Valid(items))
    BY <1>3, <1>4, <1>5, FS_Subset
  <2> QED BY <2>1, FS_CardinalityType
<1>7. Cardinality(Valid(items)) + Cardinality(Shown(items) \ Valid(items)) = n
  <2>1. /\ Valid(items) \cap (Shown(items) \ Valid(items)) = {}
        /\ Valid(items) \cup (Shown(items) \ Valid(items)) = 1..n
    BY <1>3, <1>5
  <2>2. Cardinality({}) = 0
    BY FS_EmptySet
  <2>3. Cardinality(Valid(items) \cup (Shown(items) \ Valid(items)))
          = Cardinality(Valid(items)) + Cardinality(Shown(items) \ Valid(items)) - Cardinality({})
    BY <1>6, <2>1, FS_Union
  <2>4. n = Cardinality(Valid(items)) + Cardinality(Shown(items) \ Valid(items)) - 0
    BY <1>4, <2>1, <2>2, <2>3, Zenon
  <2>5. \A a, b, c \in Nat : c = a + b - 0 => a + b = c
    OBVIOUS
  <2> QED BY <1>2, <1>6, <2>4, <2>5
<1>8. /\ Parse(items).findings = [i \in Valid(items) |-> items[i]]
      /\ Parse(items).raw = Len(items)
      /\ Parse(items).invalid = Cardinality(Shown(items) \ Valid(items)) + Overage(items)
  BY DEF Parse
<1>9. \A i \in Valid(items) : Acceptable(items[i])
  BY DEF Valid
<1>10. /\ DOMAIN Parse(items).findings = Valid(items)
       /\ \A i \in Valid(items) : Parse(items).findings[i] = items[i] /\ Acceptable(items[i])
  BY <1>8, <1>9
<1>11. Cardinality(Valid(items)) <= Cap
  BY <1>1, <1>2, <1>6, <1>7
<1>12. Parse(items).raw = Cardinality(Valid(items)) + Parse(items).invalid
  BY <1>1, <1>2, <1>6, <1>7, <1>8
<1> QED BY <1>10, <1>11, <1>12

LEMMA AcceptableIsVouched ==
  ASSUME NEW item, Acceptable(item)
  PROVE  /\ item.path \in ChangedPaths
         /\ item.first # None /\ item.last # None => item.first <= item.last
         /\ Categories # {} => \E c \in Categories : c = SubSeq(item.category, 1, Len(c))
<1>1. Categories = {} \/ \E c \in Categories : IsPrefix(c, item.category)
  BY DEF Acceptable
<1>2. Categories # {} => \E c \in Categories : c = SubSeq(item.category, 1, Len(c))
  <2>1. ASSUME NEW c \in Categories
        PROVE  SubSeq(c, 1, Len(c)) = c
    <3>1. c \in Seq({c[i] : i \in DOMAIN c})
      BY CallAssumption
    <3>2. \A S : \A s \in Seq(S) : SubSeq(s, 1, Len(s)) = s
      OBVIOUS
    <3> QED BY <3>1, <3>2
  <2> QED BY <1>1, <2>1 DEF IsPrefix
<1> QED BY <1>2 DEF Acceptable

-----------------------------------------------------------------------------
(* The theorems. *)

(* The state is always of its type: attempts never exceed llm_max_retries + 1,
   no wait exceeds its timeout (llm.py:386-424, graph.py:79-81). *)
THEOREM CallTypeCorrect == Spec => []TypeOK
<1>1. TypeOK /\ CallInvariant => TypeOK
  OBVIOUS
<1> QED BY <1>1, CallAlways, PTL

(* What the following theorems rest on, inductive together with TypeOK
   (llm.py:386-424, base.py:80-140, graph.py:61-135). *)
THEOREM CallInvariantHolds == Spec => []CallInvariant
<1>1. TypeOK /\ CallInvariant => CallInvariant
  OBVIOUS
<1> QED BY <1>1, CallAlways, PTL

(* No execution calls its providers more often than the attempts, the fallback
   and the one repair of each delivery allow (llm.py:386-424, base.py:91-98,
   agent_tasks.py:61-66). *)
THEOREM CallsStayBounded == Spec => []CallsAreBounded
<1>1. TypeOK /\ CallInvariant => CallsAreBounded
  BY DEF CallInvariant, Sound, CallsAreBounded
<1> QED BY <1>1, CallAlways, PTL

(* After a request OpenAI refuses there is no attempt, fallback, repair or
   retry (llm.py:402-403, 423, base.py:93-95, runners.py:131-132). *)
THEOREM RefusalIsFinal == Spec => []RefusalEndsTheAgent
<1>1. TypeOK /\ CallInvariant => RefusalEndsTheAgent
  <2> SUFFICES ASSUME CallInvariant, NEW j \in Rounds, jobs[j].refused
               PROVE  /\ jobs[j].at = "done" /\ jobs[j].raised = "fatal"
                      /\ ~Celery => round = j /\ verdict \in {"waiting", "failed"}
    BY DEF RefusalEndsTheAgent
  <2>1. jobs[j].at = "done" /\ jobs[j].raised = "fatal"
    BY DEF CallInvariant, Sound
  <2>2. ~Celery => round = j /\ verdict \in {"waiting", "failed"}
    BY DEF CallInvariant, Supervised
  <2> QED BY <2>1, <2>2
<1> QED BY <1>1, CallAlways, PTL

(* In this process nobody asks a provider for an agent that has its verdict or
   waits for its retry (graph.py:79-81). *)
THEOREM NobodyCallsOn == Spec => []NoCallAfterTheVerdict
<1>1. TypeOK /\ CallInvariant => NoCallAfterTheVerdict
  BY DEF CallInvariant, Supervised, NoCallAfterTheVerdict
<1> QED BY <1>1, CallAlways, PTL

(* Whatever the model writes, the findings kept are valid and no more than the
   cap, every item is counted, and the cost leaves out at most the repaired
   answer (contract.py:276-330, base.py:101-117). *)
THEOREM KeptFindingsAreVouched == Spec => []KeptIsVouched
<1>1. TypeOK => FindingsAreVouched
  <2> SUFFICES ASSUME TypeOK, result # None
               PROVE  LET findings == result.parsed.findings IN
                      /\ Cardinality(DOMAIN findings) <= Cap
                      /\ result.parsed.raw = Cardinality(DOMAIN findings) + result.parsed.invalid
                      /\ \A i \in DOMAIN findings :
                           LET f == findings[i] IN
                           /\ f.path \in ChangedPaths
                           /\ f.first # None /\ f.last # None => f.first <= f.last
                           /\ Categories # {} =>
                                \E c \in Categories : c = SubSeq(f.category, 1, Len(c))
    BY DEF FindingsAreVouched
  <2>1. PICK items \in Answers \ {Noise} : result.parsed = Parse(items)
    BY DEF TypeOK, Kept, Parsed
  <2>2. LET parsed == result.parsed IN
        /\ DOMAIN parsed.findings = Valid(items)
        /\ \A i \in Valid(items) : parsed.findings[i] = items[i] /\ Acceptable(items[i])
        /\ Cardinality(Valid(items)) <= Cap
        /\ parsed.raw = Cardinality(Valid(items)) + parsed.invalid
    BY <2>1, ParseIsVouched
  <2>3. \A i \in Valid(items) : Acceptable(result.parsed.findings[i])
    BY <2>2
  <2> QED BY <2>2, <2>3, AcceptableIsVouched
<1>2. TypeOK /\ CallInvariant => CostIsVouched
  <2> SUFFICES ASSUME TypeOK, CallInvariant, result # None, ~Celery
               PROVE  jobs[result.round].paid = result.cost + (IF result.repaired THEN 1 ELSE 0)
    BY DEF CostIsVouched
  <2>1. result.round \in Rounds /\ result.cost = 1
    BY DEF TypeOK, Kept
  <2>2. /\ jobs[result.round].at = "done" /\ jobs[result.round].raised = None
        /\ jobs[result.round].repaired = result.repaired
    BY DEF CallInvariant, Supervised
  <2>3. jobs[result.round].paid = 1 + IF jobs[result.round].repaired THEN 1 ELSE 0
    BY <2>1, <2>2 DEF CallInvariant, Sound
  <2> QED BY <2>1, <2>2, <2>3
<1>3. TypeOK /\ CallInvariant => KeptIsVouched
  BY <1>1, <1>2 DEF KeptIsVouched
<1> QED BY <1>3, CallAlways, PTL
=============================================================================
