-------------------------- MODULE MCRepositoryMemory --------------------------
(* A small instance of RepositoryMemory. *)
EXTENDS RepositoryMemory, TLC

CONSTANTS e1, e2, h1, h2, d1, d2, a1, a2, s1

TwoEvents == {e1, e2}
TwoHandlers == {h1, h2}
TwoDeciders == {d1, d2}
TwoAdmins == {a1, a2}
OneStandard == {s1}

Configured == "decay" :> ("temporal_decay_days" :> 1) @@
              "arum_weights" :> ("w1" :> 1 @@ "w2" :> 1)

(* One of two weights, a section of its own, and a section set to null. *)
Sent == {
  [clear |-> {}, put |-> "arum_weights" :> ("w1" :> 2)],
  [clear |-> {"decay"}, put |-> "urgency" :> ("value" :> 1)]}

Mixes == {
  [admin |-> 3, feedback |-> 0, reviews |-> 0],
  [admin |-> 1, feedback |-> 3, reviews |-> 0],
  [admin |-> 1, feedback |-> 2, reviews |-> 1],
  [admin |-> 0, feedback |-> 0, reviews |-> 3]}

Interchangeable == Permutations(TwoEvents) \cup Permutations(TwoHandlers) \cup
                   Permutations(TwoAdmins) \cup Permutations(TwoDeciders)
=============================================================================
