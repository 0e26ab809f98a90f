-------------------------- MODULE PublicationPromise --------------------------
(***************************************************************************)
(* What the PUBLISH step promises about a pull request, without workers,   *)
(* claims or messages: findings appear on the pull request and never       *)
(* vanish, only findings that are there are recorded as published and stay *)
(* recorded, and a review is closed only when all of its findings are      *)
(* there.  A closed review may be reopened (a late release does it); the   *)
(* promise about its findings holds regardless.                            *)
(***************************************************************************)
CONSTANTS Reviews, Findings, ReviewOf

VARIABLES
  shown,     \* findings on the pull request, as inline comment or in a body
  recorded,  \* findings the database calls PUBLISHED
  closed     \* reviews the database calls PUBLISHED

vars == <<shown, recorded, closed>>

OfReview(r) == {f \in Findings : ReviewOf[f] = r}

Init == shown = {} /\ recorded = {} /\ closed = {}

(* One GitHub review shows findings of one review. *)
Show(r) ==
  /\ \E S \in SUBSET OfReview(r) : shown' = shown \cup S
  /\ UNCHANGED <<recorded, closed>>

Record(r) ==
  /\ \E S \in SUBSET (OfReview(r) \cap shown) : recorded' = recorded \cup S
  /\ UNCHANGED <<shown, closed>>

Close(r) ==
  /\ OfReview(r) \subseteq shown
  /\ closed' = closed \cup {r}
  /\ UNCHANGED <<shown, recorded>>

Reopen(r) ==
  /\ closed' = closed \ {r}
  /\ UNCHANGED <<shown, recorded>>

Next == \E r \in Reviews : Show(r) \/ Record(r) \/ Close(r) \/ Reopen(r)

Spec == Init /\ [][Next]_vars
=============================================================================
