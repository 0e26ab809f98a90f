----------------------------- MODULE ReviewQueue -----------------------------
(***************************************************************************)
(* From a webhook delivery to the orchestrator: the request stores the     *)
(* review and sends queue.enqueue_review, a worker stages the review on a  *)
(* Redis sorted set, and beat-driven schedulers pop the most urgent entry  *)
(* and send orchestrator.run_review.                                       *)
(*                                                                         *)
(* A delivery id and the review row stored for it are one thing here: the  *)
(* column github_delivery_id is unique.  One action is one transaction or  *)
(* one Redis or broker command; pop_highest is three commands, and any     *)
(* number of workers and schedulers run between them.                      *)
(*                                                                         *)
(* Two readings of time.time_ns() are taken to be different and to grow.   *)
(***************************************************************************)
EXTENDS Integers, FiniteSets, Sequences

CONSTANTS
  Deliveries,  \* X-GitHub-Delivery ids of reviewable pull_request events
  Workers,     \* processes consuming pr_ingestion_queue
  Schedulers,  \* processes running queue.pop_and_stage
  Score,       \* reviews.priority_score, computed at ingestion
  MaxRetries,  \* celery_max_retries
  MaxSends,    \* bound: times GitHub sends one delivery
  MaxOrdinal,  \* bound: readings of the clock
  MaxFaults    \* bound: failures of Redis, the broker or a process

ASSUME QueueAssumption ==
  /\ Score \in [Deliveries -> Nat]
  /\ {MaxRetries, MaxSends, MaxOrdinal, MaxFaults} \subseteq Nat

VARIABLES
  sends,        \* times GitHub sent a delivery that was ingested
  requests,     \* requests between their transaction and their dispatch
  ingestion,    \* messages of pr_ingestion_queue, counted
  deadLetters,  \* deliveries in the dead-letter log
  zset,         \* the priority zset
  clock,        \* time.time_ns()
  sent,         \* the run_review messages, in order, by the entry they stem from
  faults,       \* failures so far
  wpc, job, ordinal,       \* the workers' local state
  spc, top, picked,        \* the schedulers' local state
  snapshot,     \* history: the zset when the scheduler looked for the top score
  repeated,     \* history: deliveries staged although the worker starts over
  dropped       \* history: deliveries whose only trace was lost

webhookVars == <<sends, requests>>
workerVars == <<wpc, job, ordinal>>
schedulerVars == <<spc, top, picked, snapshot>>
historyVars == <<repeated, dropped>>
vars == <<webhookVars, ingestion, deadLetters, zset, clock, sent, faults, workerVars,
          schedulerVars, historyVars>>

Job == [delivery: Deliveries, retries: 0 .. MaxRetries]
NoJob == [delivery |-> "none", retries |-> 0]
FirstTry(d) == [delivery |-> d, retries |-> 0]
NextTry(j) == [delivery |-> j.delivery, retries |-> j.retries + 1]

(* A member of the zset: "{ordinal:020d}:{review_id}". *)
Member == [ordinal: 1 .. MaxOrdinal, delivery: Deliveries]
make_member(o, d) == [ordinal |-> o, delivery |-> d]
NoMember == [ordinal |-> 0, delivery |-> "none"]

ScoreOf(m) == Score[m.delivery]

(* The order in which reviews should be popped: by score, then first staged. *)
Before(m, n) ==
  \/ ScoreOf(m) > ScoreOf(n)
  \/ ScoreOf(m) = ScoreOf(n) /\ m.ordinal < n.ordinal

Stored(d) == sends[d] > 0

-----------------------------------------------------------------------------
Init ==
  /\ sends = [d \in Deliveries |-> 0]
  /\ requests = [d \in Deliveries |-> 0]
  /\ ingestion = [j \in Job |-> 0]
  /\ deadLetters = {}
  /\ zset = {}
  /\ clock = 1
  /\ sent = <<>>
  /\ faults = 0
  /\ wpc = [w \in Workers |-> "idle"]
  /\ job = [w \in Workers |-> NoJob]
  /\ ordinal = [w \in Workers |-> 0]
  /\ spc = [s \in Schedulers |-> "idle"]
  /\ top = [s \in Schedulers |-> 0]
  /\ picked = [s \in Schedulers |-> NoMember]
  /\ snapshot = [s \in Schedulers |-> {}]
  /\ repeated = {}
  /\ dropped = {}

Fault == faults < MaxFaults /\ faults' = faults + 1

-----------------------------------------------------------------------------
(* The webhook request. *)

(* One transaction finds or creates the review of the delivery.  (Two at once
   for a new delivery: the unique column makes one fail, which changes nothing.) *)
Ingest(d) ==
  /\ sends[d] < MaxSends
  /\ sends' = [sends EXCEPT ![d] = @ + 1]
  /\ requests' = [requests EXCEPT ![d] = @ + 1]
  /\ UNCHANGED <<ingestion, deadLetters, zset, clock, sent, faults, workerVars,
                 schedulerVars, historyVars>>

EndRequest(d) ==
  /\ requests[d] > 0
  /\ requests' = [requests EXCEPT ![d] = @ - 1]

(* The request dispatches whether or not it created the review. *)
Dispatch(d) ==
  /\ EndRequest(d)
  /\ ingestion' = [ingestion EXCEPT ![FirstTry(d)] = @ + 1]
  /\ UNCHANGED <<sends, deadLetters, zset, clock, sent, faults, workerVars,
                 schedulerVars, historyVars>>

(* The broker is unreachable or the API process dies: the review stays QUEUED.
   (An error after the broker took the message leaves what Dispatch leaves.) *)
DispatchFails(d) ==
  /\ EndRequest(d)
  /\ Fault
  /\ dropped' = dropped \cup {d}
  /\ UNCHANGED <<sends, ingestion, deadLetters, zset, clock, sent, workerVars,
                 schedulerVars, repeated>>

-----------------------------------------------------------------------------
(* queue.enqueue_review: stage_review_to_priority with bounded retries. *)

GotoW(w, from, to) == wpc[w] = from /\ wpc' = [wpc EXCEPT ![w] = to]

ForgetJob(w) ==
  /\ job' = [job EXCEPT ![w] = NoJob]
  /\ ordinal' = [ordinal EXCEPT ![w] = 0]

Take(w) ==
  /\ GotoW(w, "idle", "load")
  /\ \E j \in Job :
       /\ ingestion[j] > 0
       /\ ingestion' = [ingestion EXCEPT ![j] = @ - 1]
       /\ job' = [job EXCEPT ![w] = j]
  /\ UNCHANGED <<webhookVars, deadLetters, zset, clock, sent, faults, ordinal,
                 schedulerVars, historyVars>>

(* The score is read, then the ordinal: time passes before the ZADD. *)
Stamp(w) ==
  /\ GotoW(w, "load", "zadd")
  /\ clock <= MaxOrdinal
  /\ ordinal' = [ordinal EXCEPT ![w] = clock]
  /\ clock' = clock + 1
  /\ UNCHANGED <<webhookVars, ingestion, deadLetters, zset, sent, faults, job,
                 schedulerVars, historyVars>>

AddMember(w) == zset' = zset \cup {make_member(ordinal[w], job[w].delivery)}

Zadd(w) ==
  /\ GotoW(w, "zadd", "staged")
  /\ AddMember(w)
  /\ UNCHANGED <<webhookVars, ingestion, deadLetters, clock, sent, faults, job, ordinal,
                 schedulerVars, historyVars>>

(* The store is closed and the message acknowledged. *)
Ack(w) ==
  /\ GotoW(w, "staged", "idle")
  /\ ForgetJob(w)
  /\ UNCHANGED <<webhookVars, ingestion, deadLetters, zset, clock, sent, faults,
                 schedulerVars, historyVars>>

(* The review is staged, yet its task runs again. *)
Repeat(w) == repeated' = repeated \cup {job[w].delivery}

(* Reading the score fails; the ZADD fails, applied or not; closing the store
   fails after the ZADD. *)
StageFails(w) ==
  /\ wpc[w] \in {"load", "zadd", "staged"}
  /\ wpc' = [wpc EXCEPT ![w] = "retry"]
  /\ Fault
  /\ \/ wpc[w] \in {"load", "zadd"} /\ UNCHANGED <<zset, repeated>>
     \/ wpc[w] = "zadd" /\ AddMember(w) /\ Repeat(w)
     \/ wpc[w] = "staged" /\ Repeat(w) /\ UNCHANGED zset
  /\ UNCHANGED <<webhookVars, ingestion, deadLetters, clock, sent, job, ordinal,
                 schedulerVars, dropped>>

(* Mutants, here and below: forms of the definition that follows with a
   plausible bug, which a property must notice. *)
RetryUnsent(w) ==
  /\ GotoW(w, "retry", "idle")
  /\ job[w].retries < MaxRetries
  /\ ForgetJob(w)
  /\ UNCHANGED <<webhookVars, ingestion, deadLetters, zset, clock, sent, faults,
                 schedulerVars, historyVars>>

Retry(w) ==
  /\ GotoW(w, "retry", "idle")
  /\ job[w].retries < MaxRetries
  /\ ingestion' = [ingestion EXCEPT ![NextTry(job[w])] = @ + 1]
  /\ ForgetJob(w)
  /\ UNCHANGED <<webhookVars, deadLetters, zset, clock, sent, faults, schedulerVars,
                 historyVars>>

DeadLetterUnrecorded(w) ==
  /\ GotoW(w, "retry", "idle")
  /\ job[w].retries >= MaxRetries
  /\ ForgetJob(w)
  /\ UNCHANGED <<webhookVars, ingestion, deadLetters, zset, clock, sent, faults,
                 schedulerVars, historyVars>>

DeadLetter(w) ==
  /\ GotoW(w, "retry", "idle")
  /\ job[w].retries >= MaxRetries
  /\ deadLetters' = deadLetters \cup {job[w].delivery}
  /\ ForgetJob(w)
  /\ UNCHANGED <<webhookVars, ingestion, zset, clock, sent, faults, schedulerVars,
                 historyVars>>

(* acks_late: the message of a lost worker is delivered again, unless only the
   child process was lost, or the retry or the dead letter could not be sent. *)
WorkerCrash(w) ==
  /\ wpc[w] # "idle"
  /\ wpc' = [wpc EXCEPT ![w] = "idle"]
  /\ Fault
  /\ \/ /\ ingestion' = [ingestion EXCEPT ![job[w]] = @ + 1]
        /\ IF wpc[w] = "staged" THEN Repeat(w) ELSE UNCHANGED repeated
        /\ UNCHANGED dropped
     \/ /\ dropped' = IF wpc[w] = "staged" THEN dropped
                      ELSE dropped \cup {job[w].delivery}
        /\ UNCHANGED <<ingestion, repeated>>
  /\ ForgetJob(w)
  /\ UNCHANGED <<webhookVars, deadLetters, zset, clock, sent, schedulerVars>>

-----------------------------------------------------------------------------
(* queue.pop_and_stage: pop_highest is three Redis commands, then the send. *)

GotoS(s, from, to) == spc[s] = from /\ spc' = [spc EXCEPT ![s] = to]

ForgetEntry(s) ==
  /\ top' = [top EXCEPT ![s] = 0]
  /\ picked' = [picked EXCEPT ![s] = NoMember]
  /\ snapshot' = [snapshot EXCEPT ![s] = {}]

ReadLowestScore(s) ==
  /\ GotoS(s, "idle", "range")
  /\ \E m \in zset :
       /\ \A n \in zset : ScoreOf(n) >= ScoreOf(m)
       /\ top' = [top EXCEPT ![s] = ScoreOf(m)]
  /\ snapshot' = [snapshot EXCEPT ![s] = zset]
  /\ UNCHANGED <<webhookVars, ingestion, deadLetters, zset, clock, sent, faults,
                 workerVars, picked, historyVars>>

(* ZREVRANGE key 0 0. *)
ReadTopScore(s) ==
  /\ GotoS(s, "idle", "range")
  /\ \E m \in zset :
       /\ \A n \in zset : ScoreOf(n) <= ScoreOf(m)
       /\ top' = [top EXCEPT ![s] = ScoreOf(m)]
  /\ snapshot' = [snapshot EXCEPT ![s] = zset]
  /\ UNCHANGED <<webhookVars, ingestion, deadLetters, zset, clock, sent, faults,
                 workerVars, picked, historyVars>>

AtScore(x) == {m \in zset : ScoreOf(m) = x}

(* ZRANGEBYSCORE key top top LIMIT 0 1: the oldest entry of that score. *)
PickOldest(s) ==
  /\ \E m \in AtScore(top[s]) :
       /\ \A n \in AtScore(top[s]) : m.ordinal <= n.ordinal
       /\ picked' = [picked EXCEPT ![s] = m]
  /\ GotoS(s, "range", "remove")
  /\ UNCHANGED <<webhookVars, ingestion, deadLetters, zset, clock, sent, faults,
                 workerVars, top, snapshot, historyVars>>

RemoveUnchecked(s) ==
  /\ GotoS(s, "remove", "send")
  /\ zset' = zset \ {picked[s]}
  /\ UNCHANGED <<webhookVars, ingestion, deadLetters, clock, sent, faults, workerVars,
                 top, picked, snapshot, historyVars>>

(* ZREM key member: 1 if this scheduler removed it. *)
Remove(s) ==
  /\ GotoS(s, "remove", "send")
  /\ picked[s] \in zset
  /\ zset' = zset \ {picked[s]}
  /\ UNCHANGED <<webhookVars, ingestion, deadLetters, clock, sent, faults, workerVars,
                 top, picked, snapshot, historyVars>>

(* Other schedulers were faster: return None until the next beat. *)
ComeAwayEmpty(s) ==
  /\ \/ GotoS(s, "range", "idle") /\ AtScore(top[s]) = {}
     \/ GotoS(s, "remove", "idle") /\ picked[s] \notin zset
  /\ ForgetEntry(s)
  /\ UNCHANGED <<webhookVars, ingestion, deadLetters, zset, clock, sent, faults,
                 workerVars, historyVars>>

SendEntry(s) == sent' = Append(sent, picked[s])

Send(s) ==
  /\ GotoS(s, "send", "idle")
  /\ SendEntry(s)
  /\ ForgetEntry(s)
  /\ UNCHANGED <<webhookVars, ingestion, deadLetters, zset, clock, faults, workerVars,
                 historyVars>>

PopFailsPutsBack(s) ==
  /\ spc[s] # "idle"
  /\ spc' = [spc EXCEPT ![s] = "idle"]
  /\ Fault
  /\ zset' = IF spc[s] = "send" THEN zset \cup {picked[s]} ELSE zset
  /\ (spc[s] = "send" /\ SendEntry(s)) \/ UNCHANGED sent
  /\ ForgetEntry(s)
  /\ UNCHANGED <<webhookVars, ingestion, deadLetters, clock, workerVars, historyVars>>

(* The send fails, whether or not the broker got the message, or the process
   is lost at any point.  A redelivered pop_and_stage pops whatever is on top
   by then: nobody puts the entry back. *)
PopFails(s) ==
  /\ spc[s] # "idle"
  /\ spc' = [spc EXCEPT ![s] = "idle"]
  /\ Fault
  /\ \/ spc[s] = "send" /\ SendEntry(s) /\ UNCHANGED dropped
     \/ /\ dropped' = IF spc[s] = "send" THEN dropped \cup {picked[s].delivery} ELSE dropped
        /\ UNCHANGED sent
  /\ ForgetEntry(s)
  /\ UNCHANGED <<webhookVars, ingestion, deadLetters, zset, clock, workerVars, repeated>>

-----------------------------------------------------------------------------
Request(d) == Ingest(d) \/ Dispatch(d) \/ DispatchFails(d)

WorkerStep(w) == Take(w) \/ Stamp(w) \/ Zadd(w) \/ Ack(w) \/ Retry(w) \/ DeadLetter(w)

SchedulerStep(s) ==
  ReadTopScore(s) \/ PickOldest(s) \/ Remove(s) \/ ComeAwayEmpty(s) \/ Send(s)

Next ==
  \/ \E d \in Deliveries : Request(d)
  \/ \E w \in Workers : WorkerStep(w) \/ StageFails(w) \/ WorkerCrash(w)
  \/ \E s \in Schedulers : SchedulerStep(s) \/ PopFails(s)

Spec == Init /\ [][Next]_vars

(* A request that ingested goes on, running workers take their next step and
   beat keeps starting the pop. *)
FairSpec ==
  /\ Spec
  /\ \A d \in Deliveries : WF_vars(Dispatch(d))
  /\ \A w \in Workers : WF_vars(WorkerStep(w))
  /\ \A s \in Schedulers : WF_vars(SchedulerStep(s))

-----------------------------------------------------------------------------
TypeOK ==
  /\ sends \in [Deliveries -> 0 .. MaxSends]
  /\ requests \in [Deliveries -> Nat]
  /\ ingestion \in [Job -> Nat]
  /\ deadLetters \subseteq Deliveries
  /\ zset \subseteq Member
  /\ clock \in 1 .. MaxOrdinal + 1
  /\ sent \in Seq(Member)
  /\ faults \in 0 .. MaxFaults
  /\ wpc \in [Workers -> {"idle", "load", "zadd", "staged", "retry"}]
  /\ job \in [Workers -> Job \cup {NoJob}]
  /\ \A w \in Workers : wpc[w] # "idle" => job[w] \in Job
  /\ ordinal \in [Workers -> 0 .. MaxOrdinal]
  /\ \A w \in Workers : wpc[w] = "zadd" => ordinal[w] # 0
  /\ spc \in [Schedulers -> {"idle", "range", "remove", "send"}]
  /\ top \in [Schedulers -> Nat]
  /\ picked \in [Schedulers -> Member \cup {NoMember}]
  /\ \A s \in Schedulers : spc[s] \in {"remove", "send"} => picked[s] \in Member
  /\ snapshot \in [Schedulers -> SUBSET Member]
  /\ repeated \subseteq Deliveries
  /\ dropped \subseteq Deliveries

HandedOff(d) == \E i \in DOMAIN sent : sent[i].delivery = d

(* Where a stored review can be found: a request, a message, a worker, the
   zset, a scheduler, the orchestrator's queue or the dead-letter log. *)
Traceable(d) ==
  \/ requests[d] > 0
  \/ \E j \in Job : j.delivery = d /\ ingestion[j] > 0
  \/ \E w \in Workers : wpc[w] # "idle" /\ job[w].delivery = d
  \/ \E m \in zset : m.delivery = d
  \/ \E s \in Schedulers : spc[s] = "send" /\ picked[s].delivery = d
  \/ HandedOff(d)
  \/ d \in deadLetters

(* No silent drop: a stored review has a trace in the queues, or one of the
   failures that drop it happened; losing a race for the top entry, a retry,
   an exhausted task and a redelivery all leave a trace. *)
NoSilentDrop == \A d \in Deliveries : Stored(d) /\ d \notin dropped => Traceable(d)

(* Although pop_highest is three commands, a scheduler never removes an entry
   while a more urgent one is waiting that was already there when it looked. *)
MostUrgentFirst ==
  \A s \in Schedulers : spc[s] = "remove" /\ picked[s] \in zset =>
    \A m \in snapshot[s] \cap zset : ~Before(m, picked[s])

(* The orchestrator gets a review twice only if GitHub sent its delivery twice
   or a staged review was staged again: schedulers that race for the same
   entry never hand it over twice. *)
HandedOffTwiceOnlyIfRepeated ==
  \A d \in Deliveries \ repeated : sends[d] <= 1 =>
    \A i, j \in DOMAIN sent : sent[i].delivery = d /\ sent[j].delivery = d => i = j

-----------------------------------------------------------------------------
(* Why the properties above hold: the inductive invariant of the proofs. *)

Taken == {picked[s] : s \in {t \in Schedulers : spc[t] = "send"}}
SentEntries == {sent[i] : i \in DOMAIN sent}
Entries == zset \cup Taken \cup SentEntries
HasEntry(d) == \E e \in Entries : e.delivery = d

(* An ordinal is never used twice: a ZADD always adds a new member. *)
OrdinalsGrow ==
  /\ \A e \in Entries : e.ordinal < clock
  /\ \A s \in Schedulers : \A e \in snapshot[s] : e.ordinal < clock
  /\ \A w \in Workers : wpc[w] = "zadd" =>
       /\ ordinal[w] < clock
       /\ \A e \in Entries : e.ordinal # ordinal[w]
       /\ \A s \in Schedulers : \A e \in snapshot[s] : e.ordinal # ordinal[w]
       /\ \A v \in Workers : wpc[v] = "zadd" /\ ordinal[v] = ordinal[w] => v = w

(* An entry waits, or is with one scheduler, or was sent once. *)
EntriesMoveOn ==
  /\ zset \cap (Taken \cup SentEntries) = {}
  /\ Taken \cap SentEntries = {}
  /\ \A s, t \in Schedulers :
       spc[s] = "send" /\ spc[t] = "send" /\ picked[s] = picked[t] => s = t
  /\ \A i, j \in DOMAIN sent : sent[i] = sent[j] => i = j

(* What a scheduler knows of the entries it saw that still wait. *)
TopIsHighest ==
  \A s \in Schedulers : \A m \in snapshot[s] \cap zset :
    /\ spc[s] = "range" => ScoreOf(m) <= top[s]
    /\ spc[s] = "remove" => ~Before(m, picked[s])

StagedHasEntry ==
  \A w \in Workers : wpc[w] = "staged" =>
    HasEntry(job[w].delivery) \/ job[w].delivery \in dropped

(* The ways a review of one delivery can still become an entry. *)
Queued(d) == \E j \in Job : j.delivery = d /\ ingestion[j] > 0
Working(w, d) == wpc[w] # "idle" /\ job[w].delivery = d
Staging(w, d) == wpc[w] \in {"load", "zadd", "retry"} /\ job[w].delivery = d

NowhereYet(d) ==
  requests[d] = 0 /\ ~Queued(d) /\ (\A w \in Workers : ~Working(w, d)) /\ ~HasEntry(d)

(* One message and one worker at most, and an entry only after both are gone. *)
InOnePlace(d) ==
  /\ requests[d] <= 1
  /\ requests[d] = 1 => ~Queued(d)
  /\ \A j \in Job : j.delivery = d =>
       /\ ingestion[j] <= 1
       /\ \A k \in Job : k.delivery = d /\ ingestion[j] > 0 /\ ingestion[k] > 0 => j = k
  /\ \A w \in Workers : Staging(w, d) =>
       /\ requests[d] = 0
       /\ ~Queued(d)
       /\ \A v \in Workers : Staging(v, d) => v = w
  /\ HasEntry(d) =>
       /\ requests[d] = 0
       /\ ~Queued(d)
       /\ \A w \in Workers : ~Staging(w, d)
       /\ \A e, f \in Entries : e.delivery = d /\ f.delivery = d => e = f

(* A delivery that was sent once and never staged again is in one place. *)
OnePlaceOf(d) ==
  /\ sends[d] = 0 => NowhereYet(d)
  /\ sends[d] <= 1 /\ d \notin repeated => InOnePlace(d)

OnePlace == \A d \in Deliveries : OnePlaceOf(d)

QueueInvariant ==
  /\ NoSilentDrop
  /\ OrdinalsGrow
  /\ EntriesMoveOn
  /\ TopIsHighest
  /\ StagedHasEntry
  /\ OnePlace

-----------------------------------------------------------------------------
HandOff == INSTANCE HandOffPromise WITH
  Entries <- Member,
  waiting <- zset,
  taken <- Taken,
  handed <- sent

(* Workers and schedulers together treat each staged entry as HandOffPromise
   says: it is taken by one scheduler and handed over at most once. *)
KeepsHandOff == HandOff!Spec

(* Every stored review is handed to the orchestrator or dead-lettered, unless
   one of the dropping failures hit it; higher scores and other schedulers
   only delay it. *)
EventuallyHandedOff ==
  \A d \in Deliveries :
    Stored(d) ~> (HandedOff(d) \/ d \in deadLetters \/ d \in dropped)

(* The claims of the docs that the code does not keep.

   "Upsert is idempotent; duplicate delivery enqueued once". *)
DuplicateEnqueuedOnce ==
  \A m, n \in zset : m.delivery = n.delivery => m = n

(* "A worker crash between the zset pop and the fan-out dispatch leaves the
   review off the zset ... restart recovery re-stages ... and the review reaches
   fan-out": nothing in the program stages it again. *)
PoppedReachesFanOut ==
  \A d \in Deliveries :
    (\E s \in Schedulers : spc[s] = "send" /\ picked[s].delivery = d) ~> HandedOff(d)

=============================================================================
