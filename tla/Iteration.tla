------------------------------ MODULE Iteration ------------------------------
(***************************************************************************)
(* Iterative review: run_review with mode SYNCHRONIZE, one round per pushed*)
(* commit, next to the publishers of the same review.                      *)
(*                                                                         *)
(* A round classifies the findings of the earlier rounds against the diff  *)
(* of the commit (plan_review_delta), stores what became of them, runs the *)
(* agents that own the touched ones, and decides on what they find.        *)
(* Nothing excludes two rounds of one review, or a round and a publisher.  *)
(* The hunks of a commit keep their lines before and after it, so that     *)
(* what the plan concludes can be compared with what the commit changed.   *)
(***************************************************************************)
EXTENDS Integers, FiniteSets, Sequences

CONSTANTS
  Findings,    \* ids: what the agents may find, in any round
  Region,      \* of a finding: path, start and end (None without lines)
  Agents,
  Owners,      \* the agents whose categories cover a finding
  Opened,      \* the findings of the opening run
  Commits,     \* per path the commit changes: removed or not, its hunks
  MaxSlices,   \* hunks of a file that become slices
  LineGap,     \* iteration_line_gap
  Publishers,
  MaxRounds    \* bound: commits pushed

None == -1

ASSUME IterationAssumption ==
  /\ Opened \subseteq Findings
  /\ Owners \in [Findings -> (SUBSET Agents) \ {{}}]
  /\ {MaxSlices, LineGap, MaxRounds} \subseteq Nat
  /\ \A f \in Findings :
       Region[f].start # None => {Region[f].start, Region[f].end} \subseteq Nat

(* A patch is a unified diff: a hunk starts at the line it did as long as
   nothing before it, or in it, added or removed lines. *)
ASSUME DiffAssumption ==
  \A c \in Commits : \A path \in DOMAIN c :
    LET hunks == c[path].hunks
    IN  /\ Len(hunks) \in Nat
        /\ \A i \in 1 .. Len(hunks) :
             /\ {hunks[i].old, hunks[i].oldCount, hunks[i].new, hunks[i].newCount} \subseteq Nat
             /\ (\A j \in 1 .. i : hunks[j].oldCount = hunks[j].newCount)
                  => hunks[i].new = hunks[i].old

Rounds == 1 .. MaxRounds

VARIABLES
  status,    \* reviews.status
  finding,   \* findings.publication_status, "none" without a row
  rows,      \* review_iterations
  pushed,    \* rounds started
  xpc,       \* where a round is
  commit,    \* the commit it reviews
  previous,  \* the findings it was given
  found,     \* what its agents found
  error,     \* some agent failed, or consolidation did
  number,    \* the iteration number it computed
  ppc,       \* where a publisher is
  payload,   \* the findings it read
  posts,     \* history: times a finding was posted
  disturbed  \* history: a round wrote its status over a publisher's claim

roundVars == <<xpc, commit, previous, found, error, number>>
publisherVars == <<ppc, payload, posts>>
vars == <<status, finding, rows, pushed, roundVars, publisherVars, disturbed>>

Chosen == {f \in Findings : finding[f] \in {"SCHEDULED", "PUBLISHED"}}
Stored == {f \in Findings : finding[f] # "none"}
Claiming == {p \in Publishers : ppc[p] # "idle"}

-----------------------------------------------------------------------------
(* From the diff to the plan. *)

(* changed_file_slices: the lines after the commit; one hunk may delete only. *)
Window(h) ==
  [start |-> h.new, end |-> IF h.newCount > 0 THEN h.new + h.newCount - 1 ELSE h.new]
Shown(file) == IF Len(file.hunks) < MaxSlices THEN Len(file.hunks) ELSE MaxSlices
Windows(file) == {Window(file.hunks[i]) : i \in 1 .. Shown(file)}

(* Mutants, here and below: forms of the definition that follows with a
   plausible bug, which a property must notice. *)
WithinWindow(f, w) == Region[f].start >= w.start /\ Region[f].end <= w.end

Overlaps(f, w) ==
  ~ (Region[f].end + LineGap < w.start \/ w.end + LineGap < Region[f].start)

(* _overlaps_any_window: without lines a finding counts as touched, a file
   without a patch has no windows. *)
Touched(f, file) == Region[f].start = None \/ \E w \in Windows(file) : Overlaps(f, w)

Disposition(f, c) ==
  LET path == Region[f].path
  IN  CASE path \notin DOMAIN c -> "KEEP"
        [] path \in DOMAIN c /\ c[path].removed -> "RESOLVED"
        [] path \in DOMAIN c /\ ~ c[path].removed /\ Touched(f, c[path]) -> "STALE"
        [] OTHER -> "KEEP"

(* The owners of what was touched; of nothing: everybody. *)
Stale(e) == {f \in previous[e] : Disposition(f, commit[e]) = "STALE"}
Targets(e) == IF Stale(e) = {} THEN Agents ELSE UNION {Owners[f] : f \in Stale(e)}

-----------------------------------------------------------------------------
(* The opening run is over; its findings wait for a publisher or are out. *)
Init ==
  /\ \/ /\ status = "DECIDING"
        /\ finding \in [Findings -> {"none", "SCHEDULED", "SUPPRESSED"}]
     \/ /\ status = "PUBLISHED"
        /\ finding \in [Findings -> {"none", "PUBLISHED", "SUPPRESSED"}]
  /\ Stored = Opened
  /\ rows = {}
  /\ pushed = 0
  /\ xpc = [e \in Rounds |-> "unborn"]
  /\ commit = [e \in Rounds |-> << >>]
  /\ previous = [e \in Rounds |-> {}]
  /\ found = [e \in Rounds |-> {}]
  /\ error = [e \in Rounds |-> "none"]
  /\ number = [e \in Rounds |-> 0]
  /\ ppc = [p \in Publishers |-> "idle"]
  /\ payload = [p \in Publishers |-> {}]
  /\ posts = [f \in Findings |-> IF finding[f] = "PUBLISHED" THEN 1 ELSE 0]
  /\ disturbed = FALSE

Goto(e, from, to) == xpc[e] = from /\ xpc' = [xpc EXCEPT ![e] = to]

(* transition(): any status over any other. *)
Transition(s) ==
  /\ status' = s
  /\ disturbed' = (disturbed \/ (status = "PUBLISHING" /\ Claiming # {}))

(* A push: the round gets the findings chosen so far. *)
Start(e) ==
  /\ e = pushed + 1 /\ pushed' = e
  /\ Goto(e, "unborn", "plan")
  /\ \E c \in Commits : commit' = [commit EXCEPT ![e] = c]
  /\ previous' = [previous EXCEPT ![e] = Chosen]
  /\ Transition("PROCESSING")
  /\ UNCHANGED <<finding, rows, found, error, number, publisherVars>>

(* Nothing previous: an ordinary review.  (A commit without files never gets
   here: its scope is invalid, so that _no_op_iteration is not reached.) *)
NothingPrevious(e) ==
  /\ previous[e] = {}
  /\ Goto(e, "plan", "run")
  /\ UNCHANGED <<status, finding, rows, pushed, commit, previous, found, error, number,
                 publisherVars, disturbed>>

EnterIterating(e) ==
  /\ previous[e] # {}
  /\ Goto(e, "plan", "delta")
  /\ Transition("ITERATING")
  /\ UNCHANGED <<finding, rows, pushed, commit, previous, found, error, number, publisherVars>>

(* apply_iteration_delta: whatever the status was, in one transaction. *)
ApplyDelta(e) ==
  /\ Goto(e, "delta", "run")
  /\ finding' = [f \in Findings |->
       IF f \in previous[e] /\ Disposition(f, commit[e]) # "KEEP"
       THEN Disposition(f, commit[e]) ELSE finding[f]]
  /\ UNCHANGED <<status, rows, pushed, commit, previous, found, error, number, publisherVars,
                 disturbed>>

RunAgents(e) ==
  /\ Goto(e, "run", "agents")
  /\ Transition("AGENTS_RUNNING")
  /\ UNCHANGED <<finding, rows, pushed, commit, previous, found, error, number, publisherVars>>

Planned(e) == IF previous[e] = {} THEN Agents ELSE Targets(e)

(* The graph over the planned agents: what they find, and whether all of them
   succeeded. *)
Graph(e) ==
  /\ Goto(e, "agents", "store")
  /\ \E F \in SUBSET {f \in Findings : Owners[f] \cap Planned(e) # {}} :
       found' = [found EXCEPT ![e] = F]
  /\ \E r \in {"none", "agents"} : error' = [error EXCEPT ![e] = r]
  /\ UNCHANGED <<status, finding, rows, pushed, commit, previous, number, publisherVars, disturbed>>

Candidates(e) == [f \in Findings |-> IF f \in found[e] THEN "CANDIDATE" ELSE finding[f]]

CreateFindingsUpserts(e) ==
  /\ Goto(e, "store", IF found[e] # {} /\ error[e] = "none" THEN "decide" ELSE "finish")
  /\ finding' = Candidates(e)
  /\ UNCHANGED <<status, rows, pushed, commit, previous, found, error, number, publisherVars,
                 disturbed>>

(* create_findings inserts, and the id of a finding is its content: one that
   is found again, stale or not, violates the key of all of them. *)
CreateFindings(e) ==
  /\ Goto(e, "store", IF found[e] # {} /\ error[e] = "none" THEN "decide" ELSE "finish")
  /\ found[e] \cap Stored = {}
  /\ finding' = Candidates(e)
  /\ UNCHANGED <<status, rows, pushed, commit, previous, found, error, number, publisherVars,
                 disturbed>>

(* That fails consolidation, as the embeddings or the database may; findings
   stored before stay candidates. *)
ConsolidationFails(e) ==
  /\ Goto(e, "store", "finish")
  /\ found[e] # {}
  /\ \/ UNCHANGED finding
     \/ found[e] \cap Stored = {} /\ finding' = Candidates(e)
  /\ error' = [error EXCEPT ![e] = IF @ = "none" THEN "consolidation" ELSE "both"]
  /\ UNCHANGED <<status, rows, pushed, commit, previous, found, number, publisherVars,
                 disturbed>>

(* The decisions on this round's findings (see Decision and ReviewRun). *)
Verdicts(chosen, decided) ==
  [f \in Findings |-> IF f \in chosen THEN "SCHEDULED"
                      ELSE IF f \in decided THEN "SUPPRESSED" ELSE finding[f]]

Decide(e) ==
  /\ Goto(e, "decide", "finish")
  /\ \E S \in SUBSET found[e] : finding' = Verdicts(S, found[e])
  /\ UNCHANGED <<status, rows, pushed, commit, previous, found, error, number, publisherVars,
                 disturbed>>

(* A read or a transaction fails: the decisions made stay made. *)
DecisionFails(e) ==
  /\ Goto(e, "decide", "finish")
  /\ \E D \in SUBSET found[e] : \E S \in SUBSET D : finding' = Verdicts(S, D)
  /\ error' = [error EXCEPT ![e] = "decision"]
  /\ UNCHANGED <<status, rows, pushed, commit, previous, found, number, publisherVars, disturbed>>

Result(e) ==
  CASE error[e] # "none" -> "FAILED"
    [] error[e] = "none" /\ found[e] # {} -> "DECIDING"
    [] OTHER -> "COMPLETED"

(* A round in which an agent failed for good is not recorded. *)
Recorded(e) == previous[e] # {} /\ error[e] \notin {"agents", "both"}

Finish(e) ==
  /\ Goto(e, "finish", IF Recorded(e) THEN "record" ELSE "done")
  /\ Transition(Result(e))
  /\ UNCHANGED <<finding, rows, pushed, commit, previous, found, error, number, publisherVars>>

Numbers == {r.number : r \in rows}

(* record_iteration reads the greatest number ... *)
MaxNumber == CHOOSE n \in Numbers \cup {0} : \A m \in Numbers : m <= n

RecordRead(e) ==
  /\ Goto(e, "record", "insert")
  /\ number' = [number EXCEPT ![e] = MaxNumber + 1]
  /\ UNCHANGED <<status, finding, rows, pushed, commit, previous, found, error, publisherVars,
                 disturbed>>

InsertUnchecked(e) ==
  /\ Goto(e, "insert", IF Result(e) = "DECIDING" THEN "iterating" ELSE "done")
  /\ rows' = rows \cup {[number |-> number[e], round |-> e, ended |-> Result(e)]}
  /\ UNCHANGED <<status, finding, pushed, commit, previous, found, error, number, publisherVars,
                 disturbed>>

(* ... and inserts the next one, unless another round did: the key raises out
   of run_review. *)
RecordInsert(e) ==
  /\ xpc[e] = "insert"
  /\ IF number[e] \in Numbers
     THEN xpc' = [xpc EXCEPT ![e] = "dead"] /\ UNCHANGED rows
     ELSE /\ xpc' = [xpc EXCEPT ![e] = IF Result(e) = "DECIDING" THEN "iterating" ELSE "done"]
          /\ rows' = rows \cup {[number |-> number[e], round |-> e, ended |-> Result(e)]}
  /\ UNCHANGED <<status, finding, pushed, commit, previous, found, error, number, publisherVars,
                 disturbed>>

(* The last word of a round that decided: whatever the status is by now. *)
BackToIterating(e) ==
  /\ Goto(e, "iterating", "done")
  /\ Transition("ITERATING")
  /\ UNCHANGED <<finding, rows, pushed, commit, previous, found, error, number, publisherVars>>

-----------------------------------------------------------------------------
(* publish_review, as far as rounds are concerned (see Publisher). *)

GotoP(p, from, to) == ppc[p] = from /\ ppc' = [ppc EXCEPT ![p] = to]
Scheduled == {f \in Findings : finding[f] = "SCHEDULED"}

ClaimTwice(p) ==
  /\ GotoP(p, "idle", "claimed")
  /\ status \in {"DECIDING", "ITERATING", "PUBLISHING"} /\ status' = "PUBLISHING"
  /\ UNCHANGED <<finding, rows, pushed, roundVars, payload, posts, disturbed>>

(* claim_review_for_publication: DECIDING, and ITERATING from its start on. *)
Claim(p) ==
  /\ GotoP(p, "idle", "claimed")
  /\ status \in {"DECIDING", "ITERATING"} /\ status' = "PUBLISHING"
  /\ UNCHANGED <<finding, rows, pushed, roundVars, payload, posts, disturbed>>

ReadPayload(p) ==
  /\ IF Scheduled = {}
     THEN GotoP(p, "claimed", "idle") /\ status' = "PUBLISHED"
     ELSE GotoP(p, "claimed", "post") /\ UNCHANGED status
  /\ payload' = [payload EXCEPT ![p] = Scheduled]
  /\ UNCHANGED <<finding, rows, pushed, roundVars, posts, disturbed>>

Post(p) ==
  /\ GotoP(p, "post", "posted")
  /\ posts' = [f \in Findings |-> IF f \in payload[p] THEN posts[f] + 1 ELSE posts[f]]
  /\ UNCHANGED <<status, finding, rows, pushed, roundVars, payload, disturbed>>

MarkFindings(p) ==
  /\ GotoP(p, "posted", "marked")
  /\ finding' = [f \in Findings |-> IF f \in payload[p] THEN "PUBLISHED" ELSE finding[f]]
  /\ UNCHANGED <<status, rows, pushed, roundVars, payload, posts, disturbed>>

MarkReview(p) ==
  /\ GotoP(p, "marked", "idle")
  /\ status' = "PUBLISHED"
  /\ UNCHANGED <<finding, rows, pushed, roundVars, payload, posts, disturbed>>

-----------------------------------------------------------------------------
RoundStep(e) ==
  \/ Start(e) \/ NothingPrevious(e) \/ EnterIterating(e) \/ ApplyDelta(e) \/ RunAgents(e)
  \/ Graph(e) \/ CreateFindings(e) \/ ConsolidationFails(e) \/ Decide(e) \/ DecisionFails(e)
  \/ Finish(e) \/ RecordRead(e) \/ RecordInsert(e) \/ BackToIterating(e)

PublishStep(p) == Claim(p) \/ ReadPayload(p) \/ Post(p) \/ MarkFindings(p) \/ MarkReview(p)

Next == (\E e \in Rounds : RoundStep(e)) \/ (\E p \in Publishers : PublishStep(p))

Spec == Init /\ [][Next]_vars

-----------------------------------------------------------------------------
RoundStage == {"unborn", "plan", "delta", "run", "agents", "store", "decide", "finish",
               "record", "insert", "iterating", "done", "dead"}

TypeOK ==
  /\ status \in {"DECIDING", "PUBLISHED", "PROCESSING", "ITERATING", "AGENTS_RUNNING", "FAILED",
                 "COMPLETED", "PUBLISHING"}
  /\ finding \in [Findings -> {"none", "CANDIDATE", "SCHEDULED", "SUPPRESSED", "PUBLISHED",
                               "STALE", "RESOLVED"}]
  /\ rows \subseteq [number : Nat, round : Rounds, ended : {"DECIDING", "COMPLETED", "FAILED"}]
  /\ pushed \in 0 .. MaxRounds
  /\ xpc \in [Rounds -> RoundStage]
  /\ commit \in [Rounds -> Commits \cup {<< >>}]
  /\ previous \in [Rounds -> SUBSET Findings]
  /\ found \in [Rounds -> SUBSET Findings]
  /\ error \in [Rounds -> {"none", "agents", "consolidation", "both", "decision"}]
  /\ number \in [Rounds -> Nat]
  /\ ppc \in [Publishers -> {"idle", "claimed", "post", "posted", "marked"}]
  /\ payload \in [Publishers -> SUBSET Findings]
  /\ posts \in [Findings -> Nat]
  /\ disturbed \in BOOLEAN

(* The rounds are numbered 1, 2, ... without a gap and without a repetition,
   although two of them may compute their number at the same time. *)
RoundsAreNumbered ==
  /\ Numbers = 1 .. Cardinality(rows)
  /\ \A r, s \in rows : r.round = s.round => r = s

(* A claim is exclusive, and a finding is posted once, as long as no round
   writes a status over a publisher's claim. *)
PostedTwiceOnlyIfDisturbed ==
  /\ ~ disturbed => Cardinality(Claiming) <= 1
  /\ \A f \in Findings : posts[f] > 1 => disturbed

(* What a round concluded about a finding of an earlier one lasts: nothing
   takes RESOLVED or STALE back, except a publisher that had read the finding
   before; and nobody posts it any more, except that publisher. *)
DispositionsLast ==
  [][\A f \in Findings : finding[f] \in {"RESOLVED", "STALE"} =>
       \/ finding'[f] \in {"RESOLVED", "STALE"}
       \/ \E p \in Publishers : ppc[p] = "posted" /\ f \in payload[p]]_vars

(* What the commit did to the lines of a finding, as they were before it. *)
ChangedBy(f, h) ==
  h.oldCount > 0 /\ h.old <= Region[f].end /\ Region[f].start <= h.old + h.oldCount - 1

(* A finding whose lines a commit changes is re-examined, unless the hunk is
   past the limit of slices, or it or one before it added or removed lines. *)
Unmoved(file, i) ==
  i <= MaxSlices /\ \A j \in 1 .. i : file.hunks[j].oldCount = file.hunks[j].newCount
Changed(f, c) ==
  /\ Region[f].path \in DOMAIN c /\ Region[f].start # None
  /\ \E i \in 1 .. Len(c[Region[f].path].hunks) :
       ChangedBy(f, c[Region[f].path].hunks[i]) /\ Unmoved(c[Region[f].path], i)

ChangedIsReexamined ==
  [][\A e \in Rounds : xpc[e] = "delta" /\ xpc'[e] = "run" =>
       \A f \in previous[e] : Changed(f, commit[e]) => finding'[f] \in {"STALE", "RESOLVED"}]_vars

-----------------------------------------------------------------------------
(* Why these hold: the inductive invariant of the proofs. *)

(* A round has a row only when it is past its insertion, and what it computed
   as its number before that is a number in use or the next one. *)
RowsAreCounted ==
  /\ IsFiniteSet(rows)
  /\ RoundsAreNumbered
  /\ \A r \in rows : xpc[r.round] \in {"iterating", "done"}
  /\ \A e \in Rounds : xpc[e] = "insert" => number[e] \in 1 .. Cardinality(rows) + 1

(* What was chosen, read or posted has been decided on, for good; what a round
   is about to decide on is undecided, and nobody else's. *)
Settled(f) == finding[f] \notin {"none", "CANDIDATE"}

FindingsSettle ==
  /\ \A e \in Rounds : \A f \in previous[e] : Settled(f)
  /\ \A p \in Publishers : \A f \in payload[p] : Settled(f)
  /\ \A f \in Findings : posts[f] > 0 => Settled(f)
  /\ \A e \in Rounds : xpc[e] = "decide" => \A f \in found[e] : finding[f] = "CANDIDATE"
  /\ \A d, e \in Rounds : d # e /\ xpc[d] = "decide" /\ xpc[e] = "decide" => found[d] \cap found[e] = {}

(* Undisturbed, a claim shows in the status, and a finding that is posted and
   still scheduled is about to be marked by who posted it. *)
ClaimsAreExclusive ==
  ~ disturbed =>
    /\ Claiming # {} => status = "PUBLISHING"
    /\ \A p, q \in Claiming : p = q
    /\ \A f \in Findings : posts[f] <= 1
    /\ \A f \in Findings : finding[f] = "SCHEDULED" /\ posts[f] > 0 =>
         \E p \in Publishers : ppc[p] = "posted" /\ f \in payload[p]
    /\ \A p \in Publishers : ppc[p] = "post" => \A f \in payload[p] : posts[f] = 0

-----------------------------------------------------------------------------
(* A claim of the code that it does not keep: "KEEP - the code is untouched"
   (iteration.py:17).  The lines of the finding are those before the commit,
   the lines of the windows those after it. *)
KeptIsUntouched ==
  \A e \in Rounds : xpc[e] = "run" => \A f \in previous[e] :
    /\ Disposition(f, commit[e]) = "KEEP"
    /\ Region[f].path \in DOMAIN commit[e] /\ Region[f].start # None
    => \A i \in 1 .. Len(commit[e][Region[f].path].hunks) :
         ~ ChangedBy(f, commit[e][Region[f].path].hunks[i])

=============================================================================
