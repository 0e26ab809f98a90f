----------------------------- MODULE MCIteration -----------------------------
(* Small instances of Iteration. *)
EXTENDS Iteration, TLC

CONSTANTS security, quality, f1, f2, p1, p2

TwoFindings == {f1, f2}
TwoAgents == {security, quality}
TwoPublishers == {p1, p2}
Earlier == {f1}

Owned == f1 :> {security} @@ f2 :> {security, quality}

(* A finding with lines, and one of another file as a whole. *)
Regions ==
  f1 :> [path |-> "app", start |-> 20, end |-> 24] @@
  f2 :> [path |-> "lib", start |-> None, end |-> None]

hunk(o, oc, n, nc) == [old |-> o, oldCount |-> oc, new |-> n, newCount |-> nc]
file(hunks) == [removed |-> FALSE, hunks |-> hunks]
Removed == [removed |-> TRUE, hunks |-> <<hunk(1, 9, 0, 0)>>]

(* The end of f1 rewritten, by the last hunk that is shown; one file gone, the
   other without a patch. *)
Pushes == {
  "app" :> file(<<hunk(1, 7, 1, 7), hunk(21, 7, 21, 7), hunk(29, 3, 29, 3)>>),
  "app" :> Removed @@ "lib" :> file(<< >>)}

(* The block around f1 is deleted, with three lines of context. *)
Deletions == {"app" :> file(<<hunk(7, 26, 7, 6)>>)}

PublisherSymmetry == Permutations(Publishers)
=============================================================================
