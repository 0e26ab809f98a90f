----------------------------- MODULE MCStoreTwins -----------------------------
(* Small instance of StoreTwins: two reviews, two findings of one of them that
   read alike, two repositories with the same standard. *)
EXTENDS StoreTwins, TLC

CONSTANTS r1, r2, f1, f2, q1, q2, xss, rule

TwoReviews == {r1, r2}
TwoFindings == {f1, f2}
TwoRepositories == {q1, q2}
ReadAlike == f1 :> xss @@ f2 :> xss
Owned == f1 :> r1 @@ f2 :> r1

Together ==
  {{"transition", "note", "decision", "delta", "claim", "tick"},
   {"transition", "finding", "verdict", "delta", "mark"},
   {"transition", "claim", "finding", "mark", "verdict"},
   {"finding", "feedback", "memory", "tick"},
   {"finding", "delta", "embedding"},
   {"round", "metric", "memory"}, {"audit", "tick"}}
=============================================================================
