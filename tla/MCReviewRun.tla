----------------------------- MODULE MCReviewRun -----------------------------
(* A small instance of ReviewRun. *)
EXTENDS ReviewRun, TLC

CONSTANTS a1, a2, f1, f2, f3, p1, p2

TwoAgents == {a1, a2}
ThreeCandidates == {f1, f2, f3}
TwoPublishers == {p1, p2}

(* One agent may find two things, the other one. *)
TwoOfOne == f1 :> a1 @@ f2 :> a1 @@ f3 :> a2
=============================================================================
