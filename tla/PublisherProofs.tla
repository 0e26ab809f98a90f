--------------------------- MODULE PublisherProofs ---------------------------
(***************************************************************************)
(* Theorems about Publisher, for any number of reviews, findings, workers, *)
(* retries and faults.                                                     *)
(***************************************************************************)
EXTENDS Publisher, TLAPS

LEMMA JobFacts ==
  /\ \A j \in Job : j.review \in Reviews /\ j.retries \in 0 .. MaxRetries
  /\ \A r \in Reviews : FirstTry(r) \in Job
  /\ \A j \in Job : j.retries < MaxRetries => NextTry(j) \in Job
  /\ MaxRetries \in Nat
BY PublisherAssumption DEF Job, FirstTry, NextTry

LEMMA InlineIsPart == \A S : InlineOf(S) \subseteq S
BY DEF InlineOf

(* What a POST appends to the list of GitHub reviews. *)
LEMMA AppendPost ==
  ASSUME posts \in Seq(Post), NEW p \in Post
  PROVE  /\ Append(posts, p) \in Seq(Post)
         /\ Len(Append(posts, p)) = Len(posts) + 1
         /\ DOMAIN Append(posts, p) = DOMAIN posts \cup {Len(posts) + 1}
         /\ DOMAIN posts \subseteq DOMAIN Append(posts, p)
         /\ Len(posts) + 1 \notin DOMAIN posts
         /\ Append(posts, p)[Len(posts) + 1] = p
         /\ \A i \in DOMAIN posts : Append(posts, p)[i] = posts[i]
<1>1. Append(posts, p) \in Seq(Post) /\ Len(Append(posts, p)) = Len(posts) + 1
  OBVIOUS
<1>2. DOMAIN posts = 1 .. Len(posts) /\ Len(posts) \in Nat
  OBVIOUS
<1>3. DOMAIN Append(posts, p) = 1 .. Len(posts) + 1
  BY <1>1, <1>2
<1>4. Append(posts, p)[Len(posts) + 1] = p
  OBVIOUS
<1>5. \A i \in 1 .. Len(posts) : Append(posts, p)[i] = posts[i]
  OBVIOUS
<1> QED BY <1>1, <1>2, <1>3, <1>4, <1>5

LEMMA NewPostTyped ==
  ASSUME TypeOK, NEW w \in Workers, pc[w] # "idle", NEW inl \in SUBSET Findings,
         CreateReview(w, inl)
  PROVE  posts' \in Seq(Post)
<1>1. [review |-> job[w].review, inline |-> inl, body |-> payload[w] \ inl] \in Post
  BY JobFacts DEF TypeOK, Post
<1> QED BY <1>1, AppendPost DEF CreateReview, TypeOK

-----------------------------------------------------------------------------
(* Type correctness. *)

LEMMA TypeInit == Init => TypeOK
BY PublisherAssumption DEF Init, TypeOK, Claimable, ReviewStatus, Step, NoJob, Job

LEMMA TypeForget ==
  ASSUME TypeOK, NEW w \in Workers, Forget(w), pc' = [pc EXCEPT ![w] = "idle"]
  PROVE  /\ pc' \in [Workers -> Step]
         /\ job' \in [Workers -> Job \cup {NoJob}]
         /\ \A v \in Workers : pc'[v] # "idle" => job'[v] \in Job
         /\ seen' \in [Workers -> ReviewStatus \cup {"none"}]
         /\ payload' \in [Workers -> SUBSET Findings]
         /\ inline' \in [Workers -> SUBSET Findings]
         /\ receipt' \in [Workers -> Nat]
BY DEF TypeOK, Forget, Step

LEMMA TypeStep == TypeOK /\ [Next]_vars => TypeOK'
<1> SUFFICES ASSUME TypeOK, [Next]_vars PROVE TypeOK'
  OBVIOUS
<1> USE DEF rowVars, findingVars, brokerVars, localVars, historyVars
<1>1. CASE Scan
  BY <1>1, JobFacts DEF Scan, TypeOK
<1>2. ASSUME NEW r \in Reviews, Age(r) PROVE TypeOK'
  BY <1>2 DEF Age, TypeOK
<1>3. ASSUME NEW w \in Workers, WorkerStep(w) PROVE TypeOK'
  <2>1. CASE Take(w)
    BY <2>1 DEF Take, Goto, TypeOK, Step
  <2>2. CASE ClaimRead(w)
    <3>1. CASE Goto(w, "claim_read", "claim_update") /\ seen' = [seen EXCEPT ![w] = status[job[w].review]]
               /\ UNCHANGED <<job, payload, inline, receipt>>
      BY <2>2, <3>1, JobFacts DEF ClaimRead, Goto, TypeOK, Step, ReviewStatus
    <3>2. CASE Goto(w, "claim_read", "idle") /\ Forget(w)
      BY <2>2, <3>2, TypeForget DEF ClaimRead, Goto, TypeOK
    <3> QED BY <2>2, <3>1, <3>2 DEF ClaimRead
  <2>3. CASE ClaimUpdate(w)
    <3>1. CASE status[job[w].review] = seen[w]
      <4>1. job[w].review \in Reviews
        BY <2>3, JobFacts DEF ClaimUpdate, TypeOK
      <4>2. /\ pc' = [pc EXCEPT ![w] = "payload"]
            /\ status' = [status EXCEPT ![job[w].review] = "PUBLISHING"]
            /\ aged' = [aged EXCEPT ![job[w].review] = FALSE]
            /\ reclaimed' \subseteq reclaimed \cup {job[w].review}
            /\ pc[w] = "claim_update"
            /\ UNCHANGED <<githubReviewId, localVars, findingVars, posts, brokerVars, faults, lost>>
        BY <2>3, <3>1 DEF ClaimUpdate, Goto, Touch
      <4> QED BY <4>1, <4>2 DEF TypeOK, Step, Owning, ReviewStatus
    <3>2. CASE status[job[w].review] # seen[w]
      BY <2>3, <3>2, TypeForget DEF ClaimUpdate, Goto, TypeOK
    <3> QED BY <3>1, <3>2
  <2>4. CASE PublicationPayload(w)
    BY <2>4, InlineIsPart DEF PublicationPayload, Goto, TypeOK, Step, Owning, FindingsOf
  <2>5. CASE PostReview(w)
    <3>1. posts' \in Seq(Post)
      BY <2>5, NewPostTyped DEF PostReview, Goto, TypeOK
    <3> QED BY <2>5, <3>1 DEF PostReview, Goto, TypeOK, Step, Owning
  <2>6. CASE PostBodyOnly(w)
    <3>1. posts' \in Seq(Post)
      BY <2>6, NewPostTyped DEF PostBodyOnly, Goto, TypeOK
    <3> QED BY <2>6, <3>1 DEF PostBodyOnly, Goto, TypeOK, Step, Owning
  <2>7. CASE MarkFindingsPublished(w)
    BY <2>7 DEF MarkFindingsPublished, Goto, TypeOK, Step, Owning
  <2>8. CASE MarkReviewPublished(w)
    BY <2>8, TypeForget, JobFacts DEF MarkReviewPublished, Goto, Touch, TypeOK, ReviewStatus
  <2>9. CASE ReleaseRead(w)
    BY <2>9 DEF ReleaseRead, Goto, TypeOK, Step, Owning
  <2>10. CASE ReleaseWrite(w)
    BY <2>10, JobFacts DEF ReleaseWrite, Goto, Touch, TypeOK, Step, ReviewStatus
  <2>11. CASE Retry(w)
    <3>1. NextTry(job[w]) \in Job
      BY <2>11, JobFacts DEF Retry, Goto, TypeOK
    <3>2. queue' \in [Job -> Nat]
      BY <2>11, <3>1 DEF Retry, TypeOK
    <3> QED BY <2>11, <3>2, TypeForget DEF Retry, Goto, TypeOK
  <2>12. CASE DeadLetter(w)
    <3>1. deadLetters' \subseteq [review: Reviews, attempts: 1 .. MaxRetries + 1]
      BY <2>12, JobFacts DEF DeadLetter, TypeOK
    <3> QED BY <2>12, <3>1, TypeForget DEF DeadLetter, TypeOK
  <2> QED
    BY <1>3, <2>1, <2>2, <2>3, <2>4, <2>5, <2>6, <2>7, <2>8, <2>9, <2>10, <2>11, <2>12
    DEF WorkerStep
<1>4. ASSUME NEW w \in Workers, WorkerFault(w) PROVE TypeOK'
  <2>0. WorkerFault(w) => faults' \in 0 .. MaxFaults
    BY PublisherAssumption DEF WorkerFault, ClaimFails, PostRejected, PostFails, StoreFails,
       ReleaseFails, Crash, Fault, TypeOK
  <2>1. CASE ClaimFails(w)
    BY <1>4, <2>0, <2>1 DEF ClaimFails, TypeOK, Step
  <2>2. CASE PostRejected(w)
    BY <1>4, <2>0, <2>2 DEF PostRejected, Goto, TypeOK, Step, Owning
  <2>3. CASE PostFails(w)
    <3>1. pc[w] # "idle" /\ job[w].review \in Reviews
      BY <2>3, JobFacts DEF PostFails, Goto, TypeOK
    <3>2. posts' \in Seq(Post) /\ lost' \subseteq Reviews
      BY <2>3, <3>1, NewPostTyped DEF PostFails, MaybeCreated, TypeOK
    <3>3. pc' \in [Workers -> Step] /\ \A v \in Workers : pc'[v] # "idle" => pc[v] # "idle"
      BY <2>3, <3>1 DEF PostFails, Goto, TypeOK, Step, Owning
    <3> QED BY <1>4, <2>0, <2>3, <3>2, <3>3 DEF PostFails, TypeOK
  <2>4. CASE StoreFails(w)
    BY <1>4, <2>0, <2>4, JobFacts DEF StoreFails, TypeOK, Step, Owning
  <2>5. CASE ReleaseFails(w)
    BY <1>4, <2>0, <2>5 DEF ReleaseFails, TypeOK, Step
  <2>6. CASE Crash(w)
    <3>0. job[w] \in Job /\ queue[job[w]] + 1 \in Nat
      BY <2>6 DEF Crash, TypeOK
    <3>1. queue' \in [Job -> Nat]
      BY <2>6, <3>0 DEF Crash, TypeOK
    <3> QED BY <1>4, <2>0, <2>6, <3>1, TypeForget DEF Crash, TypeOK
  <2> QED BY <1>4, <2>1, <2>2, <2>3, <2>4, <2>5, <2>6 DEF WorkerFault
<1>5. CASE UNCHANGED vars
  BY <1>5 DEF vars, TypeOK
<1> QED BY <1>1, <1>2, <1>3, <1>4, <1>5 DEF Next

(* Every reachable state is well typed; in particular a worker that runs holds
   a proper message, and the dead-letter log counts at most MaxRetries + 1
   attempts. *)
THEOREM TypeCorrect == Spec => []TypeOK
BY TypeInit, TypeStep, PTL DEF Spec

-----------------------------------------------------------------------------
(* What a step leaves alone. *)

(* A step of one worker does not touch the local state of another. *)
LEMMA OthersUnchanged ==
  ASSUME TypeOK, NEW w \in Workers, WorkerStep(w) \/ WorkerFault(w),
         NEW v \in Workers, v # w
  PROVE  /\ pc'[v] = pc[v]
         /\ job'[v] = job[v]
         /\ seen'[v] = seen[v]
         /\ payload'[v] = payload[v]
         /\ inline'[v] = inline[v]
         /\ receipt'[v] = receipt[v]
<1> USE DEF TypeOK, localVars, Goto, Forget
<1>1. CASE WorkerStep(w)
  <2>1. CASE Take(w) \/ ClaimRead(w) \/ ClaimUpdate(w)
    BY <2>1 DEF Take, ClaimRead, ClaimUpdate
  <2>2. CASE PublicationPayload(w) \/ PostReview(w) \/ PostBodyOnly(w)
    BY <2>2 DEF PublicationPayload, PostReview, PostBodyOnly
  <2>3. CASE MarkFindingsPublished(w) \/ MarkReviewPublished(w)
    BY <2>3 DEF MarkFindingsPublished, MarkReviewPublished
  <2>4. CASE ReleaseRead(w) \/ ReleaseWrite(w) \/ Retry(w) \/ DeadLetter(w)
    BY <2>4 DEF ReleaseRead, ReleaseWrite, Retry, DeadLetter
  <2> QED BY <1>1, <2>1, <2>2, <2>3, <2>4 DEF WorkerStep
<1>2. CASE WorkerFault(w)
  BY <1>2 DEF WorkerFault, ClaimFails, PostRejected, PostFails, StoreFails, ReleaseFails, Crash
<1> QED BY <1>1, <1>2

(* The scan and the passing of time touch neither the workers nor what they
   recorded. *)
LEMMA ScanAndAgeUnchanged ==
  ASSUME Scan \/ \E r \in Reviews : Age(r)
  PROVE  UNCHANGED <<status, finding, commentOf, posts, pc, localVars, historyVars>>
BY DEF Scan, Age, rowVars, findingVars

(* The five actions that create a GitHub review, and who takes them. *)
LEMMA PostsGrow ==
  ASSUME TypeOK, [Next]_vars
  PROVE  \/ posts' = posts
         \/ \E w \in Workers, inl \in SUBSET Findings :
              /\ pc[w] \in {"post", "post_body"}
              /\ WorkerStep(w) \/ WorkerFault(w)
              /\ CreateReview(w, inl)
<1>1. CASE (Scan \/ \E r \in Reviews : Age(r)) \/ UNCHANGED vars
  BY <1>1, ScanAndAgeUnchanged DEF vars
<1>2. ASSUME NEW w \in Workers, WorkerStep(w) PROVE
        posts' = posts \/ (PostReview(w) \/ PostBodyOnly(w))
  BY <1>2 DEF WorkerStep, Take, ClaimRead, ClaimUpdate, PublicationPayload,
     MarkFindingsPublished, MarkReviewPublished, ReleaseRead, ReleaseWrite, Retry, DeadLetter
<1>3. ASSUME NEW w \in Workers, WorkerFault(w) PROVE posts' = posts \/ PostFails(w)
  BY <1>3 DEF WorkerFault, ClaimFails, PostRejected, StoreFails, ReleaseFails, Crash
<1>4. ASSUME NEW w \in Workers, PostReview(w) \/ PostBodyOnly(w) PROVE
        \E inl \in SUBSET Findings : pc[w] \in {"post", "post_body"} /\ CreateReview(w, inl)
  BY <1>4 DEF PostReview, PostBodyOnly, Goto, TypeOK
<1>5. ASSUME NEW w \in Workers, PostFails(w) PROVE
        posts' = posts \/
        \E inl \in SUBSET Findings : pc[w] \in {"post", "post_body"} /\ CreateReview(w, inl)
  BY <1>5 DEF PostFails, MaybeCreated, Goto, TypeOK
<1> QED BY <1>1, <1>2, <1>3, <1>4, <1>5 DEF Next

(* Nothing on the pull request changes or goes away. *)
LEMMA PostsStay ==
  ASSUME TypeOK, [Next]_vars
  PROVE  \A i \in DOMAIN posts : i \in DOMAIN posts' /\ posts'[i] = posts[i]
<1>1. CASE posts' = posts
  BY <1>1
<1>2. ASSUME NEW w \in Workers, NEW inl \in SUBSET Findings,
             pc[w] \in {"post", "post_body"}, CreateReview(w, inl)
      PROVE  \A i \in DOMAIN posts : i \in DOMAIN posts' /\ posts'[i] = posts[i]
  <2>1. [review |-> job[w].review, inline |-> inl, body |-> payload[w] \ inl] \in Post
    BY <1>2, JobFacts DEF TypeOK, Post
  <2> QED BY <1>2, <2>1, AppendPost DEF CreateReview, TypeOK
<1> QED BY <1>1, <1>2, PostsGrow

LEMMA OnPullRequestStays ==
  ASSUME TypeOK, [Next]_vars, NEW f, OnPullRequest(f)
  PROVE  OnPullRequest(f)'
<1>1. PICK i \in DOMAIN posts :
        posts[i].review = ReviewOf[f] /\ f \in posts[i].inline \cup posts[i].body
  BY DEF OnPullRequest
<1>2. i \in DOMAIN posts' /\ posts'[i] = posts[i]
  BY PostsStay
<1> QED BY <1>1, <1>2 DEF OnPullRequest

(* A recorded finding stays recorded; only a first mark records one. *)
LEMMA PublishedStays ==
  ASSUME TypeOK, [Next]_vars
  PROVE  \/ findingVars' = findingVars
         \/ \E w \in Workers : MarkFindingsPublished(w)
<1>1. CASE (Scan \/ \E r \in Reviews : Age(r)) \/ UNCHANGED vars
  BY <1>1, ScanAndAgeUnchanged DEF vars, findingVars
<1>2. ASSUME NEW w \in Workers, WorkerStep(w) PROVE
        findingVars' = findingVars \/ MarkFindingsPublished(w)
  BY <1>2 DEF WorkerStep, Take, ClaimRead, ClaimUpdate, PublicationPayload, PostReview,
     PostBodyOnly, MarkReviewPublished, ReleaseRead, ReleaseWrite, Retry, DeadLetter
<1>3. ASSUME NEW w \in Workers, WorkerFault(w) PROVE findingVars' = findingVars
  BY <1>3 DEF WorkerFault, ClaimFails, PostRejected, PostFails, StoreFails, ReleaseFails, Crash
<1> QED BY <1>1, <1>2, <1>3 DEF Next

LEMMA FindingStaysPublished ==
  ASSUME TypeOK, [Next]_vars, NEW f \in Findings, finding[f] = "PUBLISHED"
  PROVE  finding'[f] = "PUBLISHED"
BY PublishedStays DEF findingVars, MarkFindingsPublished

-----------------------------------------------------------------------------
(* Findings: recorded implies posted, closed implies all posted. *)

PostedInvariant ==
  /\ PublishedFindingIsPosted
  /\ NoFindingLost
  /\ CommentIdNamesItsFinding
  /\ \A w \in Workers : Covered(w)

LEMMA PostedInit == Init => PostedInvariant
BY DEF Init, PostedInvariant, PublishedFindingIsPosted, NoFindingLost,
   CommentIdNamesItsFinding, Covered, Claimable

LEMMA FindingsOfStay == \A r : FindingsOf(r)' = FindingsOf(r)
BY DEF FindingsOf

(* Recording, by the worker that posted, what its post shows. *)
LEMMA MarkedIsPosted ==
  ASSUME TypeOK, PostedInvariant, NEW w \in Workers, MarkFindingsPublished(w)
  PROVE  PublishedFindingIsPosted' /\ CommentIdNamesItsFinding'
<1>1. /\ payload[w] \subseteq FindingsOf(job[w].review)
      /\ inline[w] \subseteq payload[w]
      /\ receipt[w] \in DOMAIN posts
      /\ posts[receipt[w]] = [review |-> job[w].review, inline |-> inline[w],
                              body |-> payload[w] \ inline[w]]
  BY DEF MarkFindingsPublished, Goto, PostedInvariant, Covered
<1>2. posts' = posts
  BY DEF MarkFindingsPublished
<1>3. ASSUME NEW f \in Findings, finding'[f] = "PUBLISHED" PROVE OnPullRequest(f)'
  <2>1. CASE f \in payload[w]
    BY <1>1, <1>2, <2>1 DEF OnPullRequest, FindingsOf
  <2>2. CASE f \notin payload[w]
    BY <1>2, <1>3, <2>2 DEF MarkFindingsPublished, PostedInvariant, PublishedFindingIsPosted,
       OnPullRequest
  <2> QED BY <2>1, <2>2
<1>4. ASSUME NEW f \in Findings, commentOf'[f] # 0
      PROVE  /\ commentOf'[f] \in DOMAIN posts
             /\ posts[commentOf'[f]].review = ReviewOf[f]
             /\ f \in posts[commentOf'[f]].inline
  <2>0. PICK echoed \in {{}, inline[w]} :
          commentOf' = [g \in Findings |-> IF g \in payload[w]
                                           THEN IF g \in echoed THEN receipt[w] ELSE 0
                                           ELSE commentOf[g]]
    BY DEF MarkFindingsPublished
  <2>1. CASE f \in payload[w]
    BY <1>1, <1>4, <2>0, <2>1 DEF FindingsOf
  <2>2. CASE f \notin payload[w]
    BY <1>4, <2>0, <2>2 DEF PostedInvariant, CommentIdNamesItsFinding
  <2> QED BY <2>1, <2>2
<1> QED BY <1>2, <1>3, <1>4 DEF PublishedFindingIsPosted, CommentIdNamesItsFinding

LEMMA FindingsStep ==
  ASSUME TypeOK, PostedInvariant, [Next]_vars
  PROVE  PublishedFindingIsPosted' /\ CommentIdNamesItsFinding'
<1>1. CASE \E w \in Workers : MarkFindingsPublished(w)
  BY <1>1, MarkedIsPosted
<1>2. CASE findingVars' = findingVars
  <2>1. finding' = finding /\ commentOf' = commentOf
    BY <1>2 DEF findingVars
  <2>2. PublishedFindingIsPosted'
    BY <2>1, OnPullRequestStays DEF PostedInvariant, PublishedFindingIsPosted
  <2>3. CommentIdNamesItsFinding'
    BY <2>1, PostsStay DEF PostedInvariant, CommentIdNamesItsFinding
  <2> QED BY <2>2, <2>3
<1> QED BY <1>1, <1>2, PublishedStays

(* A worker that does not move stays covered by what others do. *)
LEMMA CoveredFrame ==
  ASSUME TypeOK, [Next]_vars, NEW w \in Workers, Covered(w),
         UNCHANGED <<pc[w], job[w], payload[w], inline[w], receipt[w]>>
  PROVE  Covered(w)'
<1>1. \A f \in Findings : finding[f] = "PUBLISHED" => finding'[f] = "PUBLISHED"
  BY FindingStaysPublished
<1>2. \A i \in DOMAIN posts : i \in DOMAIN posts' /\ posts'[i] = posts[i]
  BY PostsStay
<1> QED BY <1>1, <1>2 DEF Covered, AllPublished, FindingsOf

LEMMA CoveredMover ==
  ASSUME TypeOK, PostedInvariant, [Next]_vars, NEW w \in Workers,
         WorkerStep(w) \/ WorkerFault(w)
  PROVE  Covered(w)'
<1> USE DEF TypeOK, Goto
<1>0. Covered(w)
  BY DEF PostedInvariant
<1>1. CASE pc'[w] \notin {"post", "post_body", "mark_findings", "mark_review"}
  BY <1>1 DEF Covered
<1>2. CASE PublicationPayload(w)
  BY <1>2, InlineIsPart DEF PublicationPayload, Covered, AllPublished, FindingsOf, findingVars
<1>3. CASE PostReview(w) \/ PostBodyOnly(w)
  <2>1. PICK inl \in SUBSET Findings : /\ CreateReview(w, inl) /\ inline'[w] = inl
                                       /\ UNCHANGED <<job, payload, finding>>
                                       /\ receipt'[w] = Len(posts) + 1
                                       /\ inl \subseteq payload[w]
                                       /\ pc[w] \in {"post", "post_body"}
                                       /\ pc'[w] = "mark_findings"
    BY <1>3, <1>0 DEF PostReview, PostBodyOnly, findingVars, Covered
  <2>2. [review |-> job[w].review, inline |-> inl, body |-> payload[w] \ inl] \in Post
    BY <2>1, JobFacts DEF Post
  <2>3. /\ Len(posts) + 1 \in DOMAIN posts'
        /\ posts'[Len(posts) + 1] = [review |-> job[w].review, inline |-> inl,
                                     body |-> payload[w] \ inl]
    BY <2>1, <2>2, AppendPost DEF CreateReview
  <2> QED BY <2>1, <2>3, <1>0 DEF Covered, FindingsOf
<1>4. CASE PostRejected(w)
  BY <1>4, <1>0 DEF PostRejected, Covered, findingVars, localVars, FindingsOf
<1>5. CASE MarkFindingsPublished(w)
  BY <1>5, <1>0 DEF MarkFindingsPublished, Covered, localVars, AllPublished, FindingsOf
<1>6. WorkerStep(w) /\ pc'[w] \in {"post", "post_body", "mark_findings", "mark_review"} =>
        PublicationPayload(w) \/ PostReview(w) \/ PostBodyOnly(w) \/ MarkFindingsPublished(w)
  BY DEF WorkerStep, Take, ClaimRead, ClaimUpdate, MarkReviewPublished, ReleaseRead,
     ReleaseWrite, Retry, DeadLetter
<1>7. WorkerFault(w) /\ pc'[w] \in {"post", "post_body", "mark_findings", "mark_review"} =>
        PostRejected(w)
  BY DEF WorkerFault, ClaimFails, PostFails, StoreFails, ReleaseFails, Crash
<1> QED BY <1>1, <1>2, <1>3, <1>4, <1>5, <1>6, <1>7

LEMMA CoveredStep ==
  ASSUME TypeOK, PostedInvariant, [Next]_vars
  PROVE  \A v \in Workers : Covered(v)'
<1>1. CASE (Scan \/ \E r \in Reviews : Age(r)) \/ UNCHANGED vars
  BY <1>1, ScanAndAgeUnchanged, CoveredFrame DEF PostedInvariant, vars, localVars
<1>2. ASSUME NEW w \in Workers, WorkerStep(w) \/ WorkerFault(w), NEW v \in Workers
      PROVE  Covered(v)'
  <2>1. CASE v = w
    BY <1>2, <2>1, CoveredMover
  <2>2. CASE v # w
    BY <1>2, <2>2, OthersUnchanged, CoveredFrame DEF PostedInvariant
  <2> QED BY <2>1, <2>2
<1> QED BY <1>1, <1>2 DEF Next

(* Who changes a review's status, and how. *)
LEMMA StatusStep ==
  ASSUME TypeOK, [Next]_vars, NEW r \in Reviews, status'[r] # status[r]
  PROVE  \E w \in Workers :
           /\ job[w].review = r
           /\ \/ ClaimUpdate(w) /\ status[r] = seen[w] /\ status'[r] = "PUBLISHING"
              \/ MarkReviewPublished(w) /\ status'[r] = "PUBLISHED"
              \/ ReleaseWrite(w) /\ status'[r] = "DECIDING"
<1> USE DEF TypeOK, rowVars, Goto
<1>1. CASE (Scan \/ \E q \in Reviews : Age(q)) \/ UNCHANGED vars
  BY <1>1, ScanAndAgeUnchanged DEF vars
<1>2. ASSUME NEW w \in Workers, WorkerStep(w) PROVE
        status' = status \/ ClaimUpdate(w) \/ MarkReviewPublished(w) \/ ReleaseWrite(w)
  BY <1>2 DEF WorkerStep, Take, ClaimRead, PublicationPayload, PostReview, PostBodyOnly,
     MarkFindingsPublished, ReleaseRead, Retry, DeadLetter
<1>3. ASSUME NEW w \in Workers, WorkerFault(w) PROVE status' = status
  BY <1>3 DEF WorkerFault, ClaimFails, PostRejected, PostFails, StoreFails, ReleaseFails, Crash
<1>4. ASSUME NEW w \in Workers, ClaimUpdate(w) PROVE
        job[w].review = r /\ status[r] = seen[w] /\ status'[r] = "PUBLISHING"
  BY <1>4, JobFacts DEF ClaimUpdate
<1>5. ASSUME NEW w \in Workers, MarkReviewPublished(w) PROVE
        job[w].review = r /\ status'[r] = "PUBLISHED"
  BY <1>5, JobFacts DEF MarkReviewPublished
<1>6. ASSUME NEW w \in Workers, ReleaseWrite(w) PROVE
        job[w].review = r /\ status'[r] = "DECIDING"
  BY <1>6, JobFacts DEF ReleaseWrite
<1> QED BY <1>1, <1>2, <1>3, <1>4, <1>5, <1>6 DEF Next

LEMMA ClosedStep ==
  ASSUME TypeOK, PostedInvariant, [Next]_vars
  PROVE  NoFindingLost'
<1> SUFFICES ASSUME NEW r \in Reviews, status'[r] = "PUBLISHED",
                    NEW f \in FindingsOf(r)
             PROVE  OnPullRequest(f)'
  BY FindingsOfStay DEF NoFindingLost
<1>1. OnPullRequest(f)
  <2>1. CASE status[r] = "PUBLISHED"
    BY <2>1 DEF PostedInvariant, NoFindingLost
  <2>2. CASE status[r] # "PUBLISHED"
    <3>1. PICK w \in Workers : job[w].review = r /\ MarkReviewPublished(w)
      BY <2>2, StatusStep
    <3>2. AllPublished(r)
      BY <3>1 DEF MarkReviewPublished, Goto, PostedInvariant, Covered
    <3> QED BY <3>2 DEF AllPublished, PostedInvariant, PublishedFindingIsPosted, FindingsOf
  <2> QED BY <2>1, <2>2
<1> QED BY <1>1, OnPullRequestStays

LEMMA PostedStep == TypeOK /\ PostedInvariant /\ [Next]_vars => PostedInvariant'
BY FindingsStep, CoveredStep, ClosedStep DEF PostedInvariant

LEMMA PostedAlways == Spec => []PostedInvariant
BY PostedInit, PostedStep, TypeCorrect, PTL DEF Spec

(* publication_status = PUBLISHED is never written for a finding that is not
   on the pull request. *)
THEOREM RecordedIsPosted == Spec => []PublishedFindingIsPosted
<1>1. PostedInvariant => PublishedFindingIsPosted
  BY DEF PostedInvariant
<1> QED BY <1>1, PostedAlways, PTL

(* "No finding ever lost": a PUBLISHED review shows all its selected findings,
   whatever crashed, was retried or was claimed twice on the way. *)
THEOREM ClosedIsComplete == Spec => []NoFindingLost
<1>1. PostedInvariant => NoFindingLost
  BY DEF PostedInvariant
<1> QED BY <1>1, PostedAlways, PTL

(* A recorded github_comment_id is the id of that finding's own comment. *)
THEOREM CommentIdsMatch == Spec => []CommentIdNamesItsFinding
<1>1. PostedInvariant => CommentIdNamesItsFinding
  BY DEF PostedInvariant
<1> QED BY <1>1, PostedAlways, PTL

-----------------------------------------------------------------------------
(* The claim is exclusive until somebody takes a review over. *)

ClaimInvariant == ClaimIsExclusive /\ OwnerHoldsRow

LEMMA ClaimInit == Init => ClaimInvariant
BY DEF Init, ClaimInvariant, ClaimIsExclusive, OwnerHoldsRow, OwnedBy, Owning

(* A worker becomes an owner only by the update of its claim; it stays with
   the same review while it owns it. *)
LEMMA OwnerStep ==
  ASSUME TypeOK, NEW w \in Workers, WorkerStep(w) \/ WorkerFault(w),
         pc'[w] \in Owning
  PROVE  /\ job'[w] = job[w]
         /\ \/ pc[w] \in Owning
            \/ ClaimUpdate(w) /\ status[job[w].review] = seen[w]
<1> USE DEF TypeOK, Goto, localVars, Owning
<1>1. CASE WorkerStep(w)
  BY <1>1 DEF WorkerStep, Take, ClaimRead, ClaimUpdate, PublicationPayload, PostReview,
     PostBodyOnly, MarkFindingsPublished, MarkReviewPublished, ReleaseRead, ReleaseWrite,
     Retry, DeadLetter
<1>2. CASE WorkerFault(w)
  BY <1>2 DEF WorkerFault, ClaimFails, PostRejected, PostFails, StoreFails, ReleaseFails, Crash
<1> QED BY <1>1, <1>2

LEMMA SeenStep ==
  ASSUME TypeOK, NEW w \in Workers, WorkerStep(w) \/ WorkerFault(w),
         pc'[w] = "claim_update"
  PROVE  seen'[w] \in Claimable \cup {"PUBLISHING"}
<1> USE DEF TypeOK, Goto, localVars
<1>1. CASE WorkerStep(w)
  BY <1>1, JobFacts DEF WorkerStep, Take, ClaimRead, ClaimUpdate, PublicationPayload, PostReview,
     PostBodyOnly, MarkFindingsPublished, MarkReviewPublished, ReleaseRead, ReleaseWrite,
     Retry, DeadLetter, Pending
<1>2. CASE WorkerFault(w)
  BY <1>2 DEF WorkerFault, ClaimFails, PostRejected, PostFails, StoreFails, ReleaseFails, Crash
<1> QED BY <1>1, <1>2

LEMMA ReclaimedGrows ==
  ASSUME TypeOK, [Next]_vars PROVE reclaimed \subseteq reclaimed'
<1>1. ASSUME NEW w \in Workers, WorkerStep(w) PROVE reclaimed \subseteq reclaimed'
  BY <1>1 DEF WorkerStep, historyVars, Take, ClaimRead, ClaimUpdate, PublicationPayload,
     PostReview, PostBodyOnly, MarkFindingsPublished, MarkReviewPublished, ReleaseRead,
     ReleaseWrite, Retry, DeadLetter
<1>2. ASSUME NEW w \in Workers, WorkerFault(w) PROVE reclaimed \subseteq reclaimed'
  BY <1>2 DEF WorkerFault, historyVars, ClaimFails, PostRejected, PostFails, StoreFails,
     ReleaseFails, Crash
<1> QED BY <1>1, <1>2, ScanAndAgeUnchanged DEF Next, vars, historyVars

(* The claim of a review that is not taken over starts from a row nobody
   owns, and leaves it PUBLISHING. *)
LEMMA FreshClaim ==
  ASSUME TypeOK, ClaimInvariant, NEW w \in Workers, ClaimUpdate(w),
         status[job[w].review] = seen[w], job[w].review \notin reclaimed'
  PROVE  /\ \A v \in Workers : ~OwnedBy(v, job[w].review)
         /\ status[job[w].review] \in Claimable
         /\ status'[job[w].review] = "PUBLISHING"
<1> DEFINE r == job[w].review
<1>1. r \in Reviews
  BY JobFacts DEF ClaimUpdate, TypeOK
<1>2. /\ status'[r] = "PUBLISHING"
      /\ r \notin reclaimed
      /\ seen[w] # "PUBLISHING"
  BY <1>1 DEF ClaimUpdate, TypeOK, Touch
<1>3. status[r] \in Claimable
  BY <1>2 DEF ClaimUpdate, ClaimInvariant, OwnerHoldsRow
<1>4. \A v \in Workers : ~OwnedBy(v, r)
  BY <1>1, <1>2, <1>3 DEF ClaimInvariant, OwnerHoldsRow, Claimable
<1> QED BY <1>2, <1>3, <1>4

LEMMA ClaimStep == TypeOK /\ ClaimInvariant /\ [Next]_vars => ClaimInvariant'
<1> SUFFICES ASSUME TypeOK, ClaimInvariant, [Next]_vars PROVE ClaimInvariant'
  OBVIOUS
<1>1. CASE (Scan \/ \E r \in Reviews : Age(r)) \/ UNCHANGED vars
  <2>1. UNCHANGED <<status, pc, job, seen, reclaimed>>
    BY <1>1, ScanAndAgeUnchanged DEF vars, rowVars, localVars, historyVars
  <2> QED BY <2>1 DEF ClaimInvariant, ClaimIsExclusive, OwnerHoldsRow, OwnedBy
<1>2. ASSUME NEW w \in Workers, WorkerStep(w) \/ WorkerFault(w) PROVE ClaimInvariant'
  <2>0. \A v \in Workers \ {w} : pc'[v] = pc[v] /\ job'[v] = job[v] /\ seen'[v] = seen[v]
    BY <1>2, OthersUnchanged
  <2>1. \A v \in Workers : pc'[v] = "claim_update" => seen'[v] \in Claimable \cup {"PUBLISHING"}
    BY <1>2, <2>0, SeenStep DEF ClaimInvariant, OwnerHoldsRow
  <2>2. ASSUME NEW r \in Reviews \ reclaimed'
        PROVE  /\ \A u, v \in Workers : OwnedBy(u, r)' /\ OwnedBy(v, r)' => u = v
               /\ \A v \in Workers : OwnedBy(v, r)' => status'[r] = "PUBLISHING"
    <3>0. r \notin reclaimed
      BY ReclaimedGrows
    <3>1. \A v \in Workers \ {w} : OwnedBy(v, r)' => OwnedBy(v, r)
      BY <2>0 DEF OwnedBy
    <3>2. CASE ClaimUpdate(w) /\ status[job[w].review] = seen[w] /\ job[w].review = r
      <4>1. \A v \in Workers : ~OwnedBy(v, r)
        BY <3>2, FreshClaim
      <4>2. status'[r] = "PUBLISHING"
        BY <3>2, FreshClaim
      <4> QED BY <3>1, <4>1, <4>2
    <3>3. CASE ~(ClaimUpdate(w) /\ status[job[w].review] = seen[w] /\ job[w].review = r)
      <4>1. OwnedBy(w, r)' => OwnedBy(w, r)
        BY <1>2, <3>3, OwnerStep DEF OwnedBy
      <4>2. \A u, v \in Workers : OwnedBy(u, r) /\ OwnedBy(v, r) => u = v
        BY <3>0 DEF ClaimInvariant, ClaimIsExclusive
      <4>3. ASSUME NEW v \in Workers, OwnedBy(v, r)' PROVE status'[r] = "PUBLISHING"
        <5>1. OwnedBy(v, r) /\ status[r] = "PUBLISHING"
          BY <3>0, <3>1, <4>1, <4>3 DEF ClaimInvariant, OwnerHoldsRow
        <5>2. SUFFICES ASSUME status'[r] # status[r] PROVE FALSE
          BY <5>1
        <5>3. PICK x \in Workers :
                /\ job[x].review = r
                /\ \/ ClaimUpdate(x) /\ status[r] = seen[x]  /\ status'[r] = "PUBLISHING"
                   \/ MarkReviewPublished(x)
                   \/ ReleaseWrite(x)
          BY <5>2, StatusStep
        <5>4. MarkReviewPublished(x) \/ ReleaseWrite(x)
          BY <5>1, <5>2, <5>3
        <5>5. OwnedBy(x, r) /\ pc'[x] \notin Owning
          BY <5>3, <5>4 DEF MarkReviewPublished, ReleaseWrite, Goto, OwnedBy, Owning, TypeOK
        <5>6. x = v
          BY <4>2, <5>1, <5>5
        <5> QED BY <4>3, <5>5, <5>6 DEF OwnedBy
      <4> QED BY <3>1, <4>1, <4>2, <4>3
    <3> QED BY <3>2, <3>3
  <2> QED BY <2>1, <2>2 DEF ClaimInvariant, ClaimIsExclusive, OwnerHoldsRow
<1> QED BY <1>1, <1>2 DEF Next

LEMMA ClaimAlways == Spec => []ClaimInvariant
BY ClaimInit, ClaimStep, TypeCorrect, PTL DEF Spec

(* Exactly one worker owns a claimed review, for any number of workers and
   duplicate messages, as long as no claim is taken over as stale. *)
THEOREM ClaimExclusive == Spec => []ClaimIsExclusive
<1>1. ClaimInvariant => ClaimIsExclusive
  BY DEF ClaimInvariant
<1> QED BY <1>1, ClaimAlways, PTL

LEMMA FinalStep ==
  TypeOK /\ ClaimInvariant /\ [Next]_vars =>
    [\A r \in Reviews \ reclaimed : status[r] = "PUBLISHED" => status'[r] = "PUBLISHED"]_vars
<1> SUFFICES ASSUME TypeOK, ClaimInvariant, [Next]_vars, NEW r \in Reviews \ reclaimed,
                    status[r] = "PUBLISHED", status'[r] # status[r]
             PROVE  FALSE
  OBVIOUS
<1>1. PICK w \in Workers :
        /\ job[w].review = r
        /\ \/ ClaimUpdate(w) /\ status[r] = seen[w]
           \/ MarkReviewPublished(w) /\ status'[r] = "PUBLISHED"
           \/ ReleaseWrite(w)
  BY StatusStep
<1>2. CASE ClaimUpdate(w) /\ status[r] = seen[w]
  BY <1>2 DEF ClaimUpdate, ClaimInvariant, OwnerHoldsRow, Claimable
<1>3. CASE ReleaseWrite(w)
  BY <1>1, <1>3 DEF ReleaseWrite, Goto, ClaimInvariant, OwnerHoldsRow, OwnedBy, Owning
<1> QED BY <1>1, <1>2, <1>3

(* PUBLISHED is a final status, unless the claim was taken over: only then can
   the release of a slow worker put the review back to DECIDING. *)
THEOREM PublishedFinal == Spec => PublishedIsFinal
<1>1. Spec => [][\A r \in Reviews \ reclaimed :
                    status[r] = "PUBLISHED" => status'[r] = "PUBLISHED"]_vars
  BY FinalStep, TypeCorrect, ClaimAlways, PTL DEF Spec
<1> QED BY <1>1 DEF PublishedIsFinal

-----------------------------------------------------------------------------
(* A review is posted once, unless it was taken over or a POST was lost. *)

OnceInvariant == PostedTwiceOnlyAfterTakeoverOrLoss /\ RecordedBeforeReclaim

LEMMA OnceInit == Init => OnceInvariant
BY DEF Init, OnceInvariant, PostedTwiceOnlyAfterTakeoverOrLoss, RecordedBeforeReclaim,
   PostedReview

LEMMA LostGrows ==
  ASSUME TypeOK, [Next]_vars PROVE lost \subseteq lost'
<1>1. ASSUME NEW w \in Workers, WorkerStep(w) PROVE lost \subseteq lost'
  BY <1>1 DEF WorkerStep, historyVars, Take, ClaimRead, ClaimUpdate, PublicationPayload,
     PostReview, PostBodyOnly, MarkFindingsPublished, MarkReviewPublished, ReleaseRead,
     ReleaseWrite, Retry, DeadLetter
<1>2. ASSUME NEW w \in Workers, WorkerFault(w) PROVE lost \subseteq lost'
  BY <1>2 DEF WorkerFault, historyVars, ClaimFails, PostRejected, PostFails, StoreFails,
     ReleaseFails, Crash, MaybeCreated
<1> QED BY <1>1, <1>2, ScanAndAgeUnchanged DEF Next, vars, historyVars

LEMMA AllPublishedStays ==
  ASSUME TypeOK, [Next]_vars, NEW r \in Reviews, AllPublished(r) PROVE AllPublished(r)'
BY FindingStaysPublished DEF AllPublished, FindingsOf

(* A post of another review, or no post, changes nothing for r. *)
LEMMA SamePosts ==
  ASSUME TypeOK, [Next]_vars, NEW r \in Reviews,
         ~(\E w \in Workers, inl \in SUBSET Findings :
             /\ pc[w] \in {"post", "post_body"}
             /\ job[w].review = r
             /\ WorkerStep(w) \/ WorkerFault(w)
             /\ CreateReview(w, inl))
  PROVE  \A i \in DOMAIN posts' : posts'[i].review = r =>
            i \in DOMAIN posts /\ posts[i].review = r
<1>1. CASE posts' = posts
  BY <1>1
<1>2. ASSUME NEW w \in Workers, NEW inl \in SUBSET Findings,
             pc[w] \in {"post", "post_body"}, CreateReview(w, inl), job[w].review # r
      PROVE  \A i \in DOMAIN posts' : posts'[i].review = r =>
                i \in DOMAIN posts /\ posts[i].review = r
  <2> DEFINE p == [review |-> job[w].review, inline |-> inl, body |-> payload[w] \ inl]
  <2>1. p \in Post /\ p.review # r
    BY <1>2, JobFacts DEF TypeOK, Post
  <2>2. posts' = Append(posts, p)
    BY <1>2 DEF CreateReview
  <2> QED BY <2>1, <2>2, AppendPost DEF TypeOK
<1> QED BY <1>1, <1>2, PostsGrow

(* The first post of r: no other exists, and its worker goes on to record it. *)
LEMMA FirstPost ==
  ASSUME TypeOK, ClaimInvariant, OnceInvariant, [Next]_vars,
         NEW r \in Reviews \ (reclaimed \cup lost), r \notin lost',
         NEW w \in Workers, NEW inl \in SUBSET Findings,
         pc[w] \in {"post", "post_body"}, job[w].review = r,
         WorkerStep(w) \/ WorkerFault(w), CreateReview(w, inl)
  PROVE  /\ \A i, j \in DOMAIN posts' : posts'[i].review = r /\ posts'[j].review = r => i = j
         /\ status'[r] = "PUBLISHING"
         /\ pc'[w] = "mark_findings"
<1>1. OwnedBy(w, r)
  BY DEF OwnedBy, Owning
<1>2. ~PostedReview(r) /\ status[r] = "PUBLISHING"
  BY <1>1 DEF OnceInvariant, RecordedBeforeReclaim, ClaimInvariant, OwnerHoldsRow
<1> DEFINE p == [review |-> r, inline |-> inl, body |-> payload[w] \ inl]
<1>3. p \in Post /\ posts' = Append(posts, p)
  BY JobFacts DEF TypeOK, Post, CreateReview
<1>4. \A i \in DOMAIN posts' : posts'[i].review = r => i = Len(posts) + 1
  BY <1>2, <1>3, AppendPost DEF PostedReview, TypeOK
<1>5. posts' # posts
  BY <1>3, AppendPost DEF TypeOK
<1>6. WorkerStep(w) => PostReview(w) \/ PostBodyOnly(w)
  BY <1>5 DEF WorkerStep, Take, ClaimRead, ClaimUpdate, PublicationPayload,
     MarkFindingsPublished, MarkReviewPublished, ReleaseRead, ReleaseWrite, Retry, DeadLetter
<1>7. ~WorkerFault(w)
  BY <1>5 DEF WorkerFault, ClaimFails, PostRejected, StoreFails, ReleaseFails, Crash,
     PostFails, MaybeCreated
<1>8. pc'[w] = "mark_findings" /\ status' = status
  BY <1>6, <1>7 DEF PostReview, PostBodyOnly, Goto, TypeOK, rowVars
<1> QED BY <1>2, <1>4, <1>8

(* How the owner of a posted review moves on. *)
LEMMA PostedOwnerStep ==
  ASSUME TypeOK, PostedInvariant, ClaimInvariant, OnceInvariant, [Next]_vars,
         NEW r \in Reviews, r \notin reclaimed' \cup lost', PostedReview(r),
         NEW w \in Workers, WorkerStep(w) \/ WorkerFault(w), OwnedBy(w, r)'
  PROVE  pc'[w] \notin {"post", "post_body", "mark_findings"} /\ AllPublished(r)'
<1>0. r \notin reclaimed \cup lost
  BY ReclaimedGrows, LostGrows
<1>1. job[w].review = r /\ pc'[w] \in Owning
  BY OwnerStep DEF OwnedBy
<1>2. CASE ClaimUpdate(w) /\ status[job[w].review] = seen[w]
  <2>1. AllPublished(r)
    BY <1>0, <1>1, <1>2, FreshClaim DEF OnceInvariant, RecordedBeforeReclaim
  <2>2. pc'[w] = "payload"
    BY <1>2 DEF ClaimUpdate, Goto, TypeOK
  <2> QED BY <2>1, <2>2, AllPublishedStays
<1>3. CASE pc[w] \in Owning
  <2>1. /\ pc[w] \notin {"post", "post_body"}
        /\ pc[w] # "mark_findings" => AllPublished(r)
    BY <1>0, <1>1, <1>3 DEF OwnedBy, OnceInvariant, RecordedBeforeReclaim
  <2>2. CASE pc[w] = "mark_findings"
    <3>1. WorkerStep(w) => MarkFindingsPublished(w)
      BY <2>2 DEF WorkerStep, Take, ClaimRead, ClaimUpdate, PublicationPayload, PostReview,
         PostBodyOnly, MarkReviewPublished, ReleaseRead, ReleaseWrite, Retry, DeadLetter, Goto
    <3>2. ~WorkerFault(w)
      BY <1>1, <2>2 DEF WorkerFault, ClaimFails, PostRejected, PostFails, StoreFails,
         ReleaseFails, Crash, Goto, Owning, TypeOK
    <3>3. pc'[w] = "mark_review"
      BY <3>1, <3>2 DEF MarkFindingsPublished, Goto, TypeOK
    <3>4. AllPublished(r)'
      BY <3>3, CoveredMover DEF Covered, OwnedBy
    <3> QED BY <3>3, <3>4
  <2>3. CASE pc[w] # "mark_findings"
    <3>1. AllPublished(r)
      BY <2>1, <2>3
    <3>2. PublicationPayload(w) => pc'[w] = "mark_review"
      BY <1>1, <3>1 DEF PublicationPayload, AllPublished, Goto, TypeOK
    <3>3. pc'[w] \notin {"post", "post_body", "mark_findings"}
      BY <1>1, <1>3, <2>1, <2>3, <3>2 DEF WorkerStep, WorkerFault, Take, ClaimRead, ClaimUpdate,
         PostReview, PostBodyOnly, MarkFindingsPublished, MarkReviewPublished, ReleaseRead,
         ReleaseWrite, Retry, DeadLetter, ClaimFails, PostRejected, PostFails, StoreFails,
         ReleaseFails, Crash, Goto, TypeOK
    <3> QED BY <3>1, <3>3, AllPublishedStays
  <2> QED BY <2>2, <2>3
<1> QED BY <1>1, <1>2, <1>3, OwnerStep

LEMMA OnceStep ==
  TypeOK /\ PostedInvariant /\ ClaimInvariant /\ OnceInvariant /\ [Next]_vars => OnceInvariant'
<1> SUFFICES ASSUME TypeOK, PostedInvariant, ClaimInvariant, OnceInvariant, [Next]_vars,
                    NEW r \in Reviews, r \notin reclaimed' \cup lost'
             PROVE  /\ \A i, j \in DOMAIN posts' :
                         posts'[i].review = r /\ posts'[j].review = r => i = j
                    /\ PostedReview(r)' =>
                         /\ status'[r] \in Claimable => AllPublished(r)'
                         /\ \A w \in Workers : OwnedBy(w, r)' =>
                              /\ pc'[w] \notin {"post", "post_body"}
                              /\ pc'[w] # "mark_findings" => AllPublished(r)'
  BY DEF OnceInvariant, PostedTwiceOnlyAfterTakeoverOrLoss, RecordedBeforeReclaim
<1>0. r \notin reclaimed \cup lost
  BY ReclaimedGrows, LostGrows
<1> DEFINE Posts(w, inl) ==
             /\ pc[w] \in {"post", "post_body"}
             /\ job[w].review = r
             /\ WorkerStep(w) \/ WorkerFault(w)
             /\ CreateReview(w, inl)
<1>1. ASSUME NEW w \in Workers, NEW inl \in SUBSET Findings, Posts(w, inl)
      PROVE  /\ \A i, j \in DOMAIN posts' :
                  posts'[i].review = r /\ posts'[j].review = r => i = j
             /\ status'[r] \notin Claimable
             /\ \A v \in Workers : OwnedBy(v, r)' => pc'[v] = "mark_findings"
  <2>1. /\ \A i, j \in DOMAIN posts' : posts'[i].review = r /\ posts'[j].review = r => i = j
        /\ status'[r] = "PUBLISHING"
        /\ pc'[w] = "mark_findings"
    BY <1>0, <1>1, FirstPost DEF Posts
  <2>2. OwnedBy(w, r)'
    <3>1. job'[w] = job[w]
      BY <1>1, <2>1, OwnerStep DEF Owning, Posts
    <3> QED BY <1>1, <2>1, <3>1 DEF OwnedBy, Owning, Posts
  <2>3. \A v \in Workers : OwnedBy(v, r)' => v = w
    BY <2>2, ClaimStep DEF ClaimInvariant, ClaimIsExclusive
  <2> QED BY <2>1, <2>3 DEF Claimable
<1>2. CASE ~\E w \in Workers, inl \in SUBSET Findings : Posts(w, inl)
  <2>1. \A i \in DOMAIN posts' : posts'[i].review = r =>
           i \in DOMAIN posts /\ posts[i].review = r
    BY <1>2, SamePosts DEF Posts
  <2>2. \A i, j \in DOMAIN posts' : posts'[i].review = r /\ posts'[j].review = r => i = j
    BY <1>0, <2>1 DEF OnceInvariant, PostedTwiceOnlyAfterTakeoverOrLoss
  <2>3. SUFFICES ASSUME PostedReview(r)
                 PROVE  /\ status'[r] \in Claimable => AllPublished(r)'
                        /\ \A w \in Workers : OwnedBy(w, r)' =>
                             /\ pc'[w] \notin {"post", "post_body"}
                             /\ pc'[w] # "mark_findings" => AllPublished(r)'
    BY <2>1, <2>2 DEF PostedReview
  <2>4. ASSUME status'[r] \in Claimable PROVE AllPublished(r)
    <3>1. CASE status'[r] = status[r]
      BY <1>0, <2>3, <2>4, <3>1 DEF OnceInvariant, RecordedBeforeReclaim
    <3>2. CASE status'[r] # status[r]
      <4>1. PICK w \in Workers : job[w].review = r /\ ReleaseWrite(w)
        BY <2>4, <3>2, StatusStep DEF Claimable
      <4> QED BY <1>0, <2>3, <4>1 DEF ReleaseWrite, Goto, OwnedBy, Owning, OnceInvariant,
              RecordedBeforeReclaim
    <3> QED BY <3>1, <3>2
  <2>5. ASSUME NEW v \in Workers, OwnedBy(v, r)'
        PROVE  /\ pc'[v] \notin {"post", "post_body"}
               /\ pc'[v] # "mark_findings" => AllPublished(r)'
    <3>1. CASE pc'[v] = pc[v] /\ job'[v] = job[v]
      BY <1>0, <2>3, <2>5, <3>1, AllPublishedStays DEF OwnedBy, OnceInvariant,
         RecordedBeforeReclaim
    <3>2. CASE WorkerStep(v) \/ WorkerFault(v)
      BY <2>3, <2>5, <3>2, PostedOwnerStep
    <3>3. CASE (Scan \/ \E q \in Reviews : Age(q)) \/ UNCHANGED vars
      BY <3>1, <3>3, ScanAndAgeUnchanged DEF vars, localVars
    <3>4. ASSUME NEW w \in Workers, WorkerStep(w) \/ WorkerFault(w), w # v
          PROVE  pc'[v] = pc[v] /\ job'[v] = job[v]
      BY <3>4, OthersUnchanged
    <3> QED BY <3>1, <3>2, <3>3, <3>4 DEF Next
  <2> QED BY <2>4, <2>5, AllPublishedStays
<1> QED BY <1>1, <1>2

(* Duplicate messages, retries, releases and crashes by themselves post a
   review once: a second post needs a stale takeover or a POST whose success
   the worker did not see. *)
THEOREM PostedOnce == Spec => []PostedTwiceOnlyAfterTakeoverOrLoss
<1>1. OnceInvariant => PostedTwiceOnlyAfterTakeoverOrLoss
  BY DEF OnceInvariant
<1> QED BY <1>1, OnceInit, OnceStep, TypeCorrect, PostedAlways, ClaimAlways, PTL DEF Spec

-----------------------------------------------------------------------------
(* The invariant checked by the runs, and the abstract promise. *)

(* Everything above at once: what PublicationInvariant states holds always. *)
THEOREM InvariantHolds == Spec => []PublicationInvariant
<1>1. PostedInvariant /\ ClaimInvariant /\ OnceInvariant => PublicationInvariant
  BY DEF PostedInvariant, ClaimInvariant, OnceInvariant, PublicationInvariant
<1> QED BY <1>1, PostedAlways, ClaimAlways, OnceInit, OnceStep, TypeCorrect, PTL DEF Spec

shownNow == {f \in Findings : OnPullRequest(f)}
recordedNow == {f \in Findings : finding[f] = "PUBLISHED"}
closedNow == {r \in Reviews : status[r] = "PUBLISHED"}

LEMMA PromiseInit == Init => Promise!Init
BY DEF Init, Promise!Init, OnPullRequest, Claimable

(* A POST only adds findings of its own review to the pull request. *)
LEMMA PromiseShow ==
  ASSUME TypeOK, PostedInvariant, [Next]_vars,
         NEW w \in Workers, NEW inl \in SUBSET Findings, pc[w] \in {"post", "post_body"},
         CreateReview(w, inl)
  PROVE  \E S \in SUBSET Promise!OfReview(job[w].review) : shownNow' = shownNow \cup S
<1> DEFINE r == job[w].review
           p == [review |-> r, inline |-> inl, body |-> payload[w] \ inl]
           S == {f \in Promise!OfReview(r) : f \in p.inline \cup p.body}
<1>1. p \in Post /\ posts' = Append(posts, p)
  BY JobFacts DEF TypeOK, Post, CreateReview
<1>2. /\ DOMAIN posts' = DOMAIN posts \cup {Len(posts) + 1}
      /\ posts'[Len(posts) + 1] = p
      /\ \A i \in DOMAIN posts : posts'[i] = posts[i]
  BY <1>1, AppendPost DEF TypeOK
<1>3. ASSUME NEW f \in Findings
      PROVE  OnPullRequest(f)' <=> OnPullRequest(f) \/ (p.review = ReviewOf[f] /\ f \in p.inline \cup p.body)
  BY <1>2 DEF OnPullRequest
<1>4. shownNow' = shownNow \cup S
  BY <1>3 DEF shownNow, Promise!OfReview
<1> QED BY <1>4

LEMMA PromiseStep ==
  TypeOK /\ PostedInvariant /\ ClaimInvariant /\ [Next]_vars => [Promise!Next]_(Promise!vars)
<1> SUFFICES ASSUME TypeOK, PostedInvariant, ClaimInvariant, [Next]_vars
             PROVE  [Promise!Next]_(Promise!vars)
  OBVIOUS
<1> USE DEF rowVars, findingVars
<1>1. CASE UNCHANGED <<posts, finding, status>>
  BY <1>1 DEF Promise!vars, OnPullRequest
<1>2. ASSUME NEW w \in Workers, WorkerStep(w) \/ WorkerFault(w),
             ~UNCHANGED <<posts, finding, status>>
      PROVE  Promise!Next
  <2>1. PostReview(w) \/ PostBodyOnly(w) \/ PostFails(w) \/ MarkFindingsPublished(w)
          \/ MarkReviewPublished(w) \/ ReleaseWrite(w) \/ ClaimUpdate(w)
    BY <1>2 DEF WorkerStep, WorkerFault, Take, ClaimRead, PublicationPayload, ReleaseRead,
       Retry, DeadLetter, ClaimFails, PostRejected, StoreFails, ReleaseFails, Crash
  <2>0. PICK r \in Reviews : job[w].review = r
    BY <2>1, JobFacts DEF PostReview, PostBodyOnly, PostFails, MarkFindingsPublished,
       MarkReviewPublished, ReleaseWrite, ClaimUpdate, Goto, TypeOK
  <2>2. CASE PostReview(w) \/ PostBodyOnly(w) \/ PostFails(w)
    <3>1. PICK inl \in SUBSET Findings : /\ pc[w] \in {"post", "post_body"}
                                         /\ CreateReview(w, inl)
      BY <1>2, <2>2 DEF PostReview, PostBodyOnly, PostFails, MaybeCreated, Goto, TypeOK
    <3>2. \E S \in SUBSET Promise!OfReview(r) : shownNow' = shownNow \cup S
      BY <2>0, <3>1, PromiseShow
    <3>3. UNCHANGED <<finding, status>>
      BY <2>2 DEF PostReview, PostBodyOnly, PostFails
    <3>4. Promise!Show(r)
      BY <3>2, <3>3 DEF Promise!Show, shownNow
    <3> QED BY <2>0, <3>4 DEF Promise!Next
  <2>3. CASE MarkFindingsPublished(w)
    <3>1. payload[w] \subseteq FindingsOf(r) /\ \A f \in payload[w] : OnPullRequest(f)
      <4>1. /\ payload[w] \subseteq FindingsOf(r)
            /\ receipt[w] \in DOMAIN posts
            /\ posts[receipt[w]] = [review |-> r, inline |-> inline[w],
                                    body |-> payload[w] \ inline[w]]
        BY <2>0, <2>3 DEF MarkFindingsPublished, Goto, PostedInvariant, Covered
      <4> QED BY <4>1 DEF OnPullRequest, FindingsOf
    <3>2. recordedNow' = recordedNow \cup payload[w]
      BY <2>3, <3>1 DEF MarkFindingsPublished, recordedNow, TypeOK, FindingsOf
    <3>3. payload[w] \in SUBSET (Promise!OfReview(r) \cap shownNow)
      BY <3>1 DEF Promise!OfReview, shownNow, FindingsOf
    <3>4. UNCHANGED <<posts, status>>
      BY <2>3 DEF MarkFindingsPublished
    <3>5. Promise!Record(r)
      BY <3>2, <3>3, <3>4 DEF Promise!Record, shownNow, recordedNow, OnPullRequest
    <3> QED BY <2>0, <3>5 DEF Promise!Next
  <2>4. CASE MarkReviewPublished(w)
    <3>1. AllPublished(r)
      BY <2>0, <2>4 DEF MarkReviewPublished, Goto, PostedInvariant, Covered
    <3>2. Promise!OfReview(r) \subseteq shownNow
      BY <3>1 DEF Promise!OfReview, shownNow, AllPublished, FindingsOf, PostedInvariant,
         PublishedFindingIsPosted
    <3>3. closedNow' = closedNow \cup {r}
      BY <2>0, <2>4 DEF MarkReviewPublished, closedNow, TypeOK
    <3>4. UNCHANGED <<posts, finding>>
      BY <2>4 DEF MarkReviewPublished
    <3>5. Promise!Close(r)
      BY <3>2, <3>3, <3>4 DEF Promise!Close, shownNow, closedNow, OnPullRequest
    <3> QED BY <2>0, <3>5 DEF Promise!Next
  <2>5. CASE ReleaseWrite(w) \/ ClaimUpdate(w)
    <3>1. PICK s \in {"DECIDING", "PUBLISHING"} : status' = [status EXCEPT ![r] = s]
      BY <1>2, <2>0, <2>5 DEF ReleaseWrite, ClaimUpdate
    <3>2. closedNow' = closedNow \ {r}
      BY <2>0, <3>1 DEF closedNow, TypeOK
    <3>3. UNCHANGED <<posts, finding>>
      BY <2>5 DEF ReleaseWrite, ClaimUpdate
    <3>4. Promise!Reopen(r)
      BY <3>2, <3>3 DEF Promise!Reopen, closedNow, OnPullRequest
    <3> QED BY <2>0, <3>4 DEF Promise!Next
  <2> QED BY <2>1, <2>2, <2>3, <2>4, <2>5
<1>3. CASE Scan \/ \E r \in Reviews : Age(r)
  BY <1>1, <1>3, ScanAndAgeUnchanged
<1>4. CASE UNCHANGED vars
  BY <1>1, <1>4 DEF vars
<1> QED BY <1>1, <1>2, <1>3, <1>4 DEF Next

(* The workers implement PublicationPromise: what is shown stays, only what is
   shown is recorded, only a completely shown review is closed. *)
THEOREM PublisherKeepsPromise == Spec => KeepsPromise
BY PromiseInit, PromiseStep, TypeCorrect, PostedAlways, ClaimAlways, PTL
DEF Spec, KeepsPromise, Promise!Spec

=============================================================================
