----------------------------- MODULE MCPublisher -----------------------------
(* Small instances of Publisher. *)
EXTENDS Publisher, TLC

CONSTANTS r1, f1, f2, w1, w2

OneReview == {r1}
TwoFindings == {f1, f2}
TwoWorkers == {w1, w2}

OwnerOne == [f \in {f1, f2} |-> r1]
RankTwo == f1 :> 0 @@ f2 :> 1
PriorityOne == r1 :> 0

WorkerSymmetry == Permutations(Workers)
=============================================================================
