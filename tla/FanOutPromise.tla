---------------------------- MODULE FanOutPromise ----------------------------
(***************************************************************************)
(* What the orchestration graph promises to the service that runs it: each *)
(* planned agent gets one verdict, which stands, and the graph ends when   *)
(* every planned agent has one, FAILED iff some agent failed.              *)
(***************************************************************************)
CONSTANT Agents

VARIABLES
  planned,    \* the agents of the task plan
  succeeded,  \* the agents whose findings are part of the outcome
  gaveUp,     \* the agents that failed for good
  terminal    \* "none", "COMPLETE" or "FAILED"

vars == <<planned, succeeded, gaveUp, terminal>>

Undecided == planned \ (succeeded \cup gaveUp)

Init ==
  /\ planned = {}
  /\ succeeded = {}
  /\ gaveUp = {}
  /\ terminal = "none"

Plan ==
  /\ planned = {} /\ terminal = "none"
  /\ planned' \in SUBSET Agents
  /\ UNCHANGED <<succeeded, gaveUp, terminal>>

(* One agent answers, or all that were to be retried are given up at once. *)
Decide ==
  /\ \E k \in Undecided : succeeded' = succeeded \cup {k} /\ UNCHANGED gaveUp
  /\ UNCHANGED <<planned, terminal>>

GiveUp ==
  /\ \E K \in SUBSET Undecided : gaveUp' = gaveUp \cup K
  /\ UNCHANGED <<planned, succeeded, terminal>>

End ==
  /\ terminal = "none" /\ Undecided = {}
  /\ terminal' = IF gaveUp = {} THEN "COMPLETE" ELSE "FAILED"
  /\ UNCHANGED <<planned, succeeded, gaveUp>>

Next == Plan \/ Decide \/ GiveUp \/ End

Spec == Init /\ [][Next]_vars
=============================================================================
