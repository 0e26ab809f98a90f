---------------------------- MODULE HandOffPromise ----------------------------
(***************************************************************************)
(* What the priority queue promises about one staged entry, without Redis  *)
(* commands, workers or schedulers: an entry waits, is taken by one        *)
(* scheduler and handed over to the orchestrator at most once.  A taken    *)
(* entry may be dropped; it never comes back to the queue by itself.       *)
(***************************************************************************)
EXTENDS Sequences

CONSTANT Entries

VARIABLES
  waiting,  \* entries of the queue
  taken,    \* entries taken out by a scheduler that has not finished with them
  handed    \* entries handed over, in order

vars == <<waiting, taken, handed>>

Handed == {handed[i] : i \in DOMAIN handed}

Init == waiting = {} /\ taken = {} /\ handed = <<>>

Stage(e) ==
  /\ e \notin waiting \cup taken \cup Handed
  /\ waiting' = waiting \cup {e}
  /\ UNCHANGED <<taken, handed>>

Take(e) ==
  /\ e \in waiting
  /\ waiting' = waiting \ {e}
  /\ taken' = taken \cup {e}
  /\ UNCHANGED handed

HandOver(e) ==
  /\ e \in taken
  /\ taken' = taken \ {e}
  /\ handed' = Append(handed, e)
  /\ UNCHANGED waiting

Drop(e) ==
  /\ e \in taken
  /\ taken' = taken \ {e}
  /\ UNCHANGED <<waiting, handed>>

Next == \E e \in Entries : Stage(e) \/ Take(e) \/ HandOver(e) \/ Drop(e)

Spec == Init /\ [][Next]_vars
=============================================================================
