------------------------------- MODULE MCIntake -------------------------------
(* Small instance of Intake: three pushes, the first and the last of one size. *)
EXTENDS Intake, TLC

CONSTANTS q1, q2, d1, d2, d3, ping, github

TwoRequests == {q1, q2}
OneClient == {github}
Pushes == {d1, d2, d3, ping}
Kinds == d1 :> "review" @@ d2 :> "review" @@ d3 :> "review" @@ ping :> "ignored"
Commits == d1 :> 1 @@ d2 :> 2 @@ d3 :> 3 @@ ping :> 1
Sizes == d1 :> 1 @@ d2 :> 3 @@ d3 :> 1 @@ ping :> 0
Repeats == d1 :> 2 @@ d2 :> 1 @@ d3 :> 2 @@ ping :> 1
SomeUrgencies == {0, 2}
RequestSymmetry == Permutations(Requests)
=============================================================================
