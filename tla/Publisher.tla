------------------------------ MODULE Publisher ------------------------------
(***************************************************************************)
(* The PUBLISH step: a beat scan hands every publishable review to Celery  *)
(* workers, and each worker claims the review row, posts the selected      *)
(* findings to the pull request as one GitHub review, records what was     *)
(* posted and closes the review.                                           *)
(*                                                                         *)
(* One action is one database transaction, one HTTP call or one broker     *)
(* call, because workers, crashes and other workers' transactions can come *)
(* between any two of them.  A transaction that first reads a row and      *)
(* later writes what it decided (the claim, the release) is two actions:   *)
(* PostgreSQL runs them at READ COMMITTED.                                 *)
(*                                                                         *)
(* Time is one bit per row: aged[r] says that publisher_claim_stale_seconds*)
(* have passed since the row's updated_at.  Every write of the row resets  *)
(* it (claim, release and the column's onupdate).                          *)
(***************************************************************************)
EXTENDS Integers, FiniteSets, Sequences

CONSTANTS
  Reviews,      \* review rows
  Findings,     \* findings the decision step left SCHEDULED
  Workers,      \* processes consuming publisher_queue
  ReviewOf,     \* the review each finding belongs to
  Rank,         \* position of a finding in the payload order (utility, id)
  HasLine,      \* findings with a line_start or a line_end
  Priority,     \* position of a review in the scan's order (score, id)
  MaxComments,  \* publisher_max_comments_per_review
  MaxRetries,   \* celery_max_retries
  ScanLimit,    \* the scan's LIMIT
  MaxQueued,    \* bound: messages waiting for one (review, retries)
  MaxFaults     \* bound: failures of GitHub, PostgreSQL or a worker

ASSUME PublisherAssumption ==
  /\ ReviewOf \in [Findings -> Reviews]
  /\ Rank \in [Findings -> Nat]
  /\ HasLine \subseteq Findings
  /\ Priority \in [Reviews -> Nat]
  /\ {MaxComments, MaxRetries, ScanLimit, MaxQueued, MaxFaults} \subseteq Nat

VARIABLES
  status,          \* reviews.status
  aged,            \* reviews.updated_at is older than the claim timeout
  githubReviewId,  \* reviews.github_review_id, 0 for NULL
  finding,         \* findings.publication_status
  commentOf,       \* findings.github_comment_id: the post it lies in, 0 for NULL
  posts,           \* the reviews GitHub created, in order
  queue,           \* messages of publisher_queue, counted
  deadLetters,     \* entries of the dead-letter log
  faults,          \* failures so far
  pc, job, seen, payload, inline, receipt,  \* the workers' local state
  reclaimed,       \* history: reviews claimed by the stale path
  lost             \* history: reviews with a post whose worker saw an error

rowVars == <<status, aged, githubReviewId>>
findingVars == <<finding, commentOf>>
brokerVars == <<queue, deadLetters>>
localVars == <<job, seen, payload, inline, receipt>>
historyVars == <<reclaimed, lost>>
vars == <<rowVars, findingVars, posts, brokerVars, faults, pc, localVars,
          historyVars>>

Job == [review: Reviews, retries: 0 .. MaxRetries]
NoJob == [review |-> "none", retries |-> 0]

ReviewStatus == {"DECIDING", "ITERATING", "PUBLISHING", "PUBLISHED"}
Claimable == {"DECIDING", "ITERATING"}

(* The steps of a worker that owns the claim of its review. *)
Owning == {"payload", "post", "post_body", "mark_findings", "mark_review",
           "release_read", "release_write"}

Step == Owning \cup {"idle", "claim_read", "claim_update", "retry", "give_up"}

FindingsOf(r) == {f \in Findings : ReviewOf[f] = r}
OwnedBy(w, r) == pc[w] \in Owning /\ job[w].review = r

Post == [review: Reviews, inline: SUBSET Findings, body: SUBSET Findings]
OnPullRequest(f) ==
  \E i \in DOMAIN posts : posts[i].review = ReviewOf[f] /\ f \in posts[i].inline \cup posts[i].body

-----------------------------------------------------------------------------
Init ==
  /\ status \in [Reviews -> Claimable]
  /\ aged = [r \in Reviews |-> FALSE]
  /\ githubReviewId = [r \in Reviews |-> 0]
  /\ finding = [f \in Findings |-> "SCHEDULED"]
  /\ commentOf = [f \in Findings |-> 0]
  /\ posts = <<>>
  /\ queue = [j \in Job |-> 0]
  /\ deadLetters = {}
  /\ faults = 0
  /\ pc = [w \in Workers |-> "idle"]
  /\ job = [w \in Workers |-> NoJob]
  /\ seen = [w \in Workers |-> "none"]
  /\ payload = [w \in Workers |-> {}]
  /\ inline = [w \in Workers |-> {}]
  /\ receipt = [w \in Workers |-> 0]
  /\ reclaimed = {}
  /\ lost = {}

Goto(w, from, to) == pc[w] = from /\ pc' = [pc EXCEPT ![w] = to]

(* The task returned or raised: the worker keeps nothing of it. *)
Forget(w) ==
  /\ job' = [job EXCEPT ![w] = NoJob]
  /\ seen' = [seen EXCEPT ![w] = "none"]
  /\ payload' = [payload EXCEPT ![w] = {}]
  /\ inline' = [inline EXCEPT ![w] = {}]
  /\ receipt' = [receipt EXCEPT ![w] = 0]

Fault == faults < MaxFaults /\ faults' = faults + 1

(* updated_at := now *)
Touch(r) == aged' = [aged EXCEPT ![r] = FALSE]

-----------------------------------------------------------------------------
(* The beat scan and the passing of time. *)

(* Mutants, here and below: forms of the definition that follows with a
   plausible bug, which a property must notice. *)
PendingWithoutStale == {r \in Reviews : status[r] \in Claimable}
Pending == {r \in Reviews : \/ status[r] \in Claimable
                            \/ status[r] = "PUBLISHING" /\ aged[r]}

(* The first ScanLimit pending reviews in the scan's order. *)
Candidates ==
  {r \in Pending : Cardinality({q \in Pending : Priority[q] < Priority[r]}) < ScanLimit}

FirstTry(r) == [review |-> r, retries |-> 0]
NextTry(j) == [review |-> j.review, retries |-> j.retries + 1]

(* One message per candidate.  A scan that fails half-way leaves fewer, as the
   loss of a worker together with its message does. *)
Scan ==
  /\ Candidates # {}
  /\ \A r \in Candidates : queue[FirstTry(r)] < MaxQueued
  /\ queue' = [j \in Job |-> IF j.retries = 0 /\ j.review \in Candidates
                             THEN queue[j] + 1 ELSE queue[j]]
  /\ UNCHANGED <<rowVars, findingVars, posts, deadLetters, faults, pc, localVars,
                 historyVars>>

Age(r) ==
  /\ status[r] = "PUBLISHING"
  /\ ~aged[r]
  /\ aged' = [aged EXCEPT ![r] = TRUE]
  /\ UNCHANGED <<status, githubReviewId, findingVars, posts, brokerVars, faults, pc,
                 localVars, historyVars>>

-----------------------------------------------------------------------------
(* Taking a message and claiming its review. *)

Take(w) ==
  /\ Goto(w, "idle", "claim_read")
  /\ \E j \in Job :
       /\ queue[j] > 0
       /\ queue' = [queue EXCEPT ![j] = @ - 1]
       /\ job' = [job EXCEPT ![w] = j]
  /\ UNCHANGED <<rowVars, findingVars, posts, deadLetters, faults, seen, payload,
                 inline, receipt, historyVars>>

ClaimRead(w) ==
  LET r == job[w].review IN
  /\ pc[w] = "claim_read"
  /\ \/ /\ r \in Pending
        /\ Goto(w, "claim_read", "claim_update")
        /\ seen' = [seen EXCEPT ![w] = status[r]]
        /\ UNCHANGED <<job, payload, inline, receipt>>
     \/ /\ r \notin Pending
        /\ Goto(w, "claim_read", "idle")
        /\ Forget(w)
  /\ UNCHANGED <<rowVars, findingVars, posts, brokerVars, faults, historyVars>>

ClaimUpdateUnchecked(w) ==
  LET r == job[w].review IN
  /\ Goto(w, "claim_update", "payload")
  /\ status' = [status EXCEPT ![r] = "PUBLISHING"]
  /\ Touch(r)
  /\ reclaimed' = IF seen[w] = "PUBLISHING" THEN reclaimed \cup {r} ELSE reclaimed
  /\ UNCHANGED <<githubReviewId, localVars, findingVars, posts, brokerVars, faults, lost>>

(* UPDATE ... WHERE status = <the status read>. *)
ClaimUpdate(w) ==
  LET r == job[w].review IN
  /\ pc[w] = "claim_update"
  /\ \/ /\ status[r] = seen[w]
        /\ Goto(w, "claim_update", "payload")
        /\ status' = [status EXCEPT ![r] = "PUBLISHING"]
        /\ Touch(r)
        /\ reclaimed' = IF seen[w] = "PUBLISHING" THEN reclaimed \cup {r} ELSE reclaimed
        /\ UNCHANGED <<githubReviewId, localVars>>
     \/ /\ status[r] # seen[w]
        /\ Goto(w, "claim_update", "idle")
        /\ Forget(w)
        /\ UNCHANGED <<rowVars, reclaimed>>
  /\ UNCHANGED <<findingVars, posts, brokerVars, faults, lost>>

(* The claim, or building the client, raises: only the task retries. *)
ClaimFails(w) ==
  /\ pc[w] \in {"claim_read", "claim_update"}
  /\ pc' = [pc EXCEPT ![w] = "retry"]
  /\ Fault
  /\ UNCHANGED <<rowVars, findingVars, posts, brokerVars, localVars, historyVars>>

-----------------------------------------------------------------------------
(* Reading the findings and posting them. *)

(* Of the first MaxComments findings, those with a line become inline
   comments; everything else goes to the review body. *)
InlineOf(S) ==
  {f \in S \cap HasLine : Cardinality({g \in S : Rank[g] < Rank[f]}) < MaxComments}

PublicationPayloadOfAll(w) ==
  LET S == FindingsOf(job[w].review) IN
  /\ Goto(w, "payload", IF S = {} THEN "mark_review" ELSE "post")
  /\ payload' = [payload EXCEPT ![w] = S]
  /\ inline' = [inline EXCEPT ![w] = InlineOf(S)]
  /\ UNCHANGED <<rowVars, findingVars, posts, brokerVars, faults, job, seen, receipt,
                 historyVars>>

PublicationPayload(w) ==
  LET S == {f \in FindingsOf(job[w].review) : finding[f] = "SCHEDULED"} IN
  /\ Goto(w, "payload", IF S = {} THEN "mark_review" ELSE "post")
  /\ payload' = [payload EXCEPT ![w] = S]
  /\ inline' = [inline EXCEPT ![w] = InlineOf(S)]
  /\ UNCHANGED <<rowVars, findingVars, posts, brokerVars, faults, job, seen, receipt,
                 historyVars>>

CreateReviewCapped(w, inl) ==
  posts' = Append(posts, [review |-> job[w].review, inline |-> inl, body |-> {}])

(* GitHub creates a review for the worker. *)
CreateReview(w, inl) ==
  posts' = Append(posts, [review |-> job[w].review,
                          inline |-> inl, body |-> payload[w] \ inl])

PostReview(w) ==
  /\ Goto(w, "post", "mark_findings")
  /\ CreateReview(w, inline[w])
  /\ receipt' = [receipt EXCEPT ![w] = Len(posts) + 1]
  /\ UNCHANGED <<rowVars, findingVars, brokerVars, faults, job, seen, payload, inline,
                 historyVars>>

PostRejectedCloses(w) ==
  /\ Goto(w, "post", "mark_review")
  /\ Fault
  /\ UNCHANGED <<rowVars, findingVars, posts, brokerVars, localVars, historyVars>>

(* A permanent error on the first POST: try once more with a body only. *)
PostRejected(w) ==
  /\ Goto(w, "post", "post_body")
  /\ Fault
  /\ UNCHANGED <<rowVars, findingVars, posts, brokerVars, localVars, historyVars>>

PostBodyOnly(w) ==
  /\ Goto(w, "post_body", "mark_findings")
  /\ CreateReview(w, {})
  /\ inline' = [inline EXCEPT ![w] = {}]
  /\ receipt' = [receipt EXCEPT ![w] = Len(posts) + 1]
  /\ UNCHANGED <<rowVars, findingVars, brokerVars, faults, job, seen, payload,
                 historyVars>>

(* An error that leaves open whether GitHub created the review. *)
MaybeCreated(w, inl) ==
  \/ UNCHANGED <<posts, lost>>
  \/ CreateReview(w, inl) /\ lost' = lost \cup {job[w].review}

(* A transient GitHub error of the first POST, or an unexpected exception of
   either POST, releases the claim.  A transient GitHub error of the second
   POST does not, and neither does a permanent one. *)
PostFails(w) ==
  /\ \/ /\ Goto(w, "post", "release_read")
        /\ MaybeCreated(w, inline[w])
     \/ /\ \/ Goto(w, "post_body", "release_read")
           \/ Goto(w, "post_body", "retry")
        /\ MaybeCreated(w, {})
     \/ /\ Goto(w, "post_body", "give_up")
        /\ UNCHANGED <<posts, lost>>
  /\ Fault
  /\ UNCHANGED <<rowVars, findingVars, brokerVars, localVars, reclaimed>>

-----------------------------------------------------------------------------
(* Recording the publication: two transactions. *)

(* GitHub may echo the inline comments; without the echo the ids stay NULL. *)
MarkFindingsPublished(w) ==
  /\ Goto(w, "mark_findings", "mark_review")
  /\ finding' = [f \in Findings |-> IF f \in payload[w] THEN "PUBLISHED" ELSE finding[f]]
  /\ \E echoed \in {{}, inline[w]} :
       commentOf' = [f \in Findings |-> IF f \in payload[w]
                                        THEN IF f \in echoed THEN receipt[w] ELSE 0
                                        ELSE commentOf[f]]
  /\ UNCHANGED <<rowVars, posts, brokerVars, faults, localVars, historyVars>>

MarkReviewPublished(w) ==
  LET r == job[w].review IN
  /\ Goto(w, "mark_review", "idle")
  /\ status' = [status EXCEPT ![r] = "PUBLISHED"]
  /\ githubReviewId' = [githubReviewId EXCEPT ![r] = receipt[w]]
  /\ Touch(r)
  /\ Forget(w)
  /\ UNCHANGED <<findingVars, posts, brokerVars, faults, historyVars>>

(* A database error in the try block: release the claim and retry. *)
StoreFails(w) ==
  /\ pc[w] \in {"payload", "mark_findings", "mark_review"}
  /\ pc' = [pc EXCEPT ![w] = "release_read"]
  /\ Fault
  /\ lost' = IF pc[w] = "mark_findings" THEN lost \cup {job[w].review} ELSE lost
  /\ UNCHANGED <<rowVars, findingVars, posts, brokerVars, localVars, reclaimed>>

-----------------------------------------------------------------------------
(* Releasing the claim, whoever holds it by now. *)

ReleaseRead(w) ==
  /\ Goto(w, "release_read",
          IF status[job[w].review] = "PUBLISHING" THEN "release_write" ELSE "retry")
  /\ UNCHANGED <<rowVars, findingVars, posts, brokerVars, faults, localVars, historyVars>>

ReleaseWrite(w) ==
  LET r == job[w].review IN
  /\ Goto(w, "release_write", "retry")
  /\ status' = [status EXCEPT ![r] = "DECIDING"]
  /\ Touch(r)
  /\ UNCHANGED <<githubReviewId, findingVars, posts, brokerVars, faults, localVars,
                 historyVars>>

ReleaseFails(w) ==
  /\ pc[w] \in {"release_read", "release_write"}
  /\ pc' = [pc EXCEPT ![w] = "retry"]
  /\ Fault
  /\ UNCHANGED <<rowVars, findingVars, posts, brokerVars, localVars, historyVars>>

-----------------------------------------------------------------------------
(* What the task does with an error, and the loss of a worker. *)

Retry(w) ==
  /\ Goto(w, "retry", "idle")
  /\ job[w].retries < MaxRetries
  /\ queue' = [queue EXCEPT ![NextTry(job[w])] = @ + 1]
  /\ Forget(w)
  /\ UNCHANGED <<rowVars, findingVars, posts, deadLetters, faults, historyVars>>

DeadLetter(w) ==
  /\ \/ pc[w] = "give_up"
     \/ pc[w] = "retry" /\ job[w].retries >= MaxRetries
  /\ pc' = [pc EXCEPT ![w] = "idle"]
  /\ deadLetters' = deadLetters \cup
                      {[review |-> job[w].review, attempts |-> job[w].retries + 1]}
  /\ Forget(w)
  /\ UNCHANGED <<rowVars, findingVars, posts, queue, faults, historyVars>>

(* acks_late: an unacknowledged message is delivered again when the whole
   worker is lost, and acknowledged when only its child process is. *)
Crash(w) ==
  /\ pc[w] # "idle"
  /\ pc' = [pc EXCEPT ![w] = "idle"]
  /\ Fault
  /\ queue' \in {queue, [queue EXCEPT ![job[w]] = @ + 1]}
  /\ Forget(w)
  /\ UNCHANGED <<rowVars, findingVars, posts, deadLetters, historyVars>>

-----------------------------------------------------------------------------
WorkerStep(w) ==
  \/ Take(w) \/ ClaimRead(w) \/ ClaimUpdate(w) \/ PublicationPayload(w)
  \/ PostReview(w) \/ PostBodyOnly(w)
  \/ MarkFindingsPublished(w) \/ MarkReviewPublished(w)
  \/ ReleaseRead(w) \/ ReleaseWrite(w) \/ Retry(w) \/ DeadLetter(w)

WorkerFault(w) ==
  \/ ClaimFails(w) \/ PostRejected(w) \/ PostFails(w)
  \/ StoreFails(w) \/ ReleaseFails(w) \/ Crash(w)

Next ==
  \/ Scan
  \/ \E r \in Reviews : Age(r)
  \/ \E w \in Workers : WorkerStep(w) \/ WorkerFault(w)

Spec == Init /\ [][Next]_vars

(* Beat keeps firing, time passes and a running worker takes its next step. *)
FairSpec ==
  /\ Spec
  /\ WF_vars(Scan)
  /\ \A r \in Reviews : WF_vars(Age(r))
  /\ \A w \in Workers : WF_vars(WorkerStep(w))

-----------------------------------------------------------------------------
TypeOK ==
  /\ status \in [Reviews -> ReviewStatus]
  /\ aged \in [Reviews -> BOOLEAN]
  /\ githubReviewId \in [Reviews -> Nat]
  /\ finding \in [Findings -> {"SCHEDULED", "PUBLISHED"}]
  /\ commentOf \in [Findings -> Nat]
  /\ posts \in Seq(Post)
  /\ queue \in [Job -> Nat]
  /\ deadLetters \subseteq [review: Reviews, attempts: 1 .. MaxRetries + 1]
  /\ faults \in 0 .. MaxFaults
  /\ pc \in [Workers -> Step]
  /\ job \in [Workers -> Job \cup {NoJob}]
  /\ \A w \in Workers : pc[w] # "idle" => job[w] \in Job
  /\ seen \in [Workers -> ReviewStatus \cup {"none"}]
  /\ payload \in [Workers -> SUBSET Findings]
  /\ inline \in [Workers -> SUBSET Findings]
  /\ receipt \in [Workers -> Nat]
  /\ reclaimed \subseteq Reviews
  /\ lost \subseteq Reviews

(* A finding recorded as PUBLISHED is on the pull request, inline or in a
   body: mark_findings_published only ever records what a POST created,
   whatever other workers, crashes and retries do in between. *)
PublishedFindingIsPosted ==
  \A f \in Findings : finding[f] = "PUBLISHED" => OnPullRequest(f)

(* "No finding ever lost": a review that reached PUBLISHED has every selected
   finding on the pull request, also when the worker that closed it read its
   payload after another worker had recorded part of it. *)
NoFindingLost ==
  \A r \in Reviews : status[r] = "PUBLISHED" => \A f \in FindingsOf(r) : OnPullRequest(f)

(* A recorded comment id belongs to an inline comment of that very finding,
   although a second worker may have posted and recorded it again. *)
CommentIdNamesItsFinding ==
  \A f \in Findings : commentOf[f] # 0 =>
     /\ commentOf[f] \in DOMAIN posts
     /\ posts[commentOf[f]].review = ReviewOf[f]
     /\ f \in posts[commentOf[f]].inline

(* The claim is exclusive: as long as nobody took a review over by the stale
   path, at most one worker is between its claim and the end of its task. *)
ClaimIsExclusive ==
  \A r \in Reviews \ reclaimed : \A v, w \in Workers :
     OwnedBy(v, r) /\ OwnedBy(w, r) => v = w

(* A review is posted a second time only after a stale takeover, or after a
   POST that succeeded while its worker saw an error: neither the retries, nor
   the releases, nor duplicate messages post twice by themselves. *)
PostedTwiceOnlyAfterTakeoverOrLoss ==
  \A r \in Reviews \ (reclaimed \cup lost) : \A i, j \in DOMAIN posts :
     posts[i].review = r /\ posts[j].review = r => i = j

(* PUBLISHED is final unless the review was taken over: no late release of
   another worker puts it back to DECIDING. *)
PublishedIsFinal ==
  [][\A r \in Reviews \ reclaimed : status[r] = "PUBLISHED" => status'[r] = "PUBLISHED"]_vars

-----------------------------------------------------------------------------
(* Why the properties above hold: the inductive invariant of the proofs. *)

AllPublished(r) == \A f \in FindingsOf(r) : finding[f] = "PUBLISHED"

(* What a worker carries from its payload to its two marks. *)
Covered(w) ==
  LET r == job[w].review IN
  /\ pc[w] \in {"post", "post_body", "mark_findings"} =>
       /\ payload[w] \subseteq FindingsOf(r)
       /\ inline[w] \subseteq payload[w]
       /\ \A f \in FindingsOf(r) \ payload[w] : finding[f] = "PUBLISHED"
  /\ pc[w] = "mark_findings" =>
       /\ receipt[w] \in DOMAIN posts
       /\ posts[receipt[w]] = [review |-> r, inline |-> inline[w],
                               body |-> payload[w] \ inline[w]]
  /\ pc[w] = "mark_review" => AllPublished(r)

(* While nobody took a review over, owning it means that its row says
   PUBLISHING, which no other worker can claim. *)
OwnerHoldsRow ==
  /\ \A w \in Workers : pc[w] = "claim_update" => seen[w] \in Claimable \cup {"PUBLISHING"}
  /\ \A r \in Reviews \ reclaimed : \A w \in Workers :
       OwnedBy(w, r) => status[r] = "PUBLISHING"

PostedReview(r) == \E i \in DOMAIN posts : posts[i].review = r

(* A review that was posted can only be claimed again, or be about to be
   released, when all its findings are recorded: its next payload is empty. *)
RecordedBeforeReclaim ==
  \A r \in Reviews \ (reclaimed \cup lost) : PostedReview(r) =>
    /\ status[r] \in Claimable => AllPublished(r)
    /\ \A w \in Workers : OwnedBy(w, r) =>
         /\ pc[w] \notin {"post", "post_body"}
         /\ pc[w] # "mark_findings" => AllPublished(r)

PublicationInvariant ==
  /\ PublishedFindingIsPosted
  /\ NoFindingLost
  /\ CommentIdNamesItsFinding
  /\ \A w \in Workers : Covered(w)
  /\ ClaimIsExclusive
  /\ OwnerHoldsRow
  /\ PostedTwiceOnlyAfterTakeoverOrLoss
  /\ RecordedBeforeReclaim

Promise == INSTANCE PublicationPromise WITH
  shown <- {f \in Findings : OnPullRequest(f)},
  recorded <- {f \in Findings : finding[f] = "PUBLISHED"},
  closed <- {r \in Reviews : status[r] = "PUBLISHED"}

(* The workers together keep the abstract promise of PublicationPromise. *)
KeepsPromise == Promise!Spec

(* The claims of the source and the docs that the code does not keep.

   "Already-published findings are excluded ... so a retry never
   double-posts": no finding is posted twice. *)
NeverPostedTwice ==
  \A i, j \in DOMAIN posts :
    i # j => (posts[i].inline \cup posts[i].body)
               \cap (posts[j].inline \cup posts[j].body) = {}

(* "Exhausted retries are routed to the dead-letter log with the review marked
   FAILED". *)
DeadLetteredIsFailed == \A d \in deadLetters : status[d.review] = "FAILED"

(* Once GitHub, PostgreSQL and the workers stop failing, every publishable
   review is published: crashed and leaked claims are found again by the scan,
   also when the message of the review was lost or dead-lettered. *)
EventuallyPublished ==
  \A r \in Reviews : <>[](status[r] = "PUBLISHED")

=============================================================================
