---------------------------- MODULE MCReviewQueue ----------------------------
(* A small instance of ReviewQueue. *)
EXTENDS ReviewQueue, TLC

CONSTANTS d1, d2, w1, s1, s2

TwoDeliveries == {d1, d2}
OneWorker == {w1}
TwoSchedulers == {s1, s2}

(* One review is more urgent than the other. *)
ScoresDiffer == d1 :> 1 @@ d2 :> 2
=============================================================================
